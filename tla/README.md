# A TLA+ model of AscendanceCore

AscendanceCore is a World of Warcraft server of the TrinityCore family
(C++, client 4.3.4). This directory holds TLA+ models of the parts of it whose
correctness depends on the order in which things happen: the threads that
update the maps and talk to the database, and the protocols by which players'
money, items and places on the server change hands. The modules are checked by
TLC on small instances, and the properties that matter most are proved with
TLAPS for every value of the constants.

Paths below are relative to `src/server/` of the repository.

## 1. The system

A world server has one **world thread** (`worldserver/Main.cpp`,
`WorldUpdateLoop`), which in every tick handles the packets of all sessions
(`World::UpdateSessions`) and then updates the maps (`MapManager::Update`),
with the help of **map update threads** while it waits for them. **Network
threads** (boost.asio) accept clients, authenticate them and hand sessions and
packets over through locked queues. Each of the three databases has a
**`DatabaseWorkerPool`**: asynchronous connections, each with a thread that
takes operations from one queue, and synchronous connections that any thread
may use for a query. At shutdown the world thread kicks the players, unloads
the maps, joins the update threads and closes the pools.

The game's own state lives in the memory of the world and map threads and is
written to the character database by queued transactions. What a crash leaves
is therefore the effect of some prefix of those transactions.

### Components that are modelled

| component | state | operations | what is hard, and what must hold |
|---|---|---|---|
| **Map update threads**: `MapManager`, `MapUpdater`, `MapInstanced`, `ProducerConsumerQueue` | `i_maps`, `m_InstancedMaps`, `pending_requests`, `_cancelationToken`, the queue, two condition variables | create a map, schedule, wait, update, destroy an instance, unload all, deactivate | workers schedule further work and delete maps while the world thread waits for them; spurious and lost wake-ups; the order of token, wait and cancel at shutdown. The world thread must be alone outside the tick, every map must get one turn by one thread, ticks and shutdown must end |
| **Transactions**: `TransactionTask`, `MySQLConnection` | the statements to send, `mysql_errno`, `m_Mysql`, `m_reconnecting`, the server session behind them | begin, execute, roll back, commit, retry after a deadlock, reconnect | failures at every statement, connections that are lost before or after a request took effect, errno that the next request overwrites. All or nothing, results that say which, order, an end |
| **Database worker pool**: `DatabaseWorkerPool`, `DatabaseWorker` | the queue, each worker's operation and token, the locks of the synchronous connections | enqueue, query, keep alive, close | threads that share connections; closing while operations are queued. Each operation once, no overtaking beyond the number of workers, no connection used twice or after its deletion, a close that returns |
| **Trade** (`TradeHandler.cpp`, `TradeData`) | two `TradeData` that refer to each other; purses and bags | open, set money, item and spell, accept, unaccept, cancel | an acceptance is given before the offers, purses and bags it is about may change. Exchanges only as both agreed, in full or not at all |
| **Mail** (`Mail.cpp`, `MailHandler.cpp`, mailbox in `Player.cpp`, expiry in `ObjectMgr.cpp`) | the database's rows, the mailbox cached by players who are online, purses and bags twice (memory, database) | send, list, take item or money, delete, return, save, log in and out, expire | the same mail is in memory and in the database; saves are partial; the server may die between two of them. No coin or item in two places, in the game or in what a crash leaves; COD is paid once |
| **Auction house** (`AuctionHouseHandler.cpp`, `AuctionHouseMgr.cpp`) | auctions with bid, bidder and deposit, on top of the mail | sell, bid, raise, buy out, cancel, expire | money of up to three players moves in one handler. Losers are refunded what they paid; an auction ends once, with the item on one side and the price on the other |
| **Sessions and login queue** (`World.cpp`, `WorldSession.cpp`) | `m_sessions`, `m_QueuedPlayer`, `addSessQueue`, `m_disconnects` | add, replace, queue, update, kick, remove | a session may be replaced, lose its socket or be kicked wherever it stands in the queue. Limit, order and positions hold, no place stays empty or is kept by a dead session |
| **Network sockets** (`Socket.h`, `NetworkThread.h`, `WorldSocket.cpp`) | `_closed`, `_closing`, the write buffer and queue, `isWritingAsync`, pending operations, the session behind the socket | open, update, write part of a message, wait until the kernel takes more, read and handle a message, close at once or with a delay, end the session | network, io_service, world and acceptor threads work on one socket, two flags without the lock. Bytes leave in the order of encryption; nothing queued waits for ever; no session is deleted under an open socket; a closed socket is freed |
| **Battleground queue and battlegrounds** (`BattlegroundQueue.cpp`, `BattlegroundMgr.cpp`, `Battleground.cpp`, `BattleGroundHandler.cpp`) | the queued groups, the battlegrounds with the players they have and have invited, timed events, each player's slot, map and saved instance id | join, update the queue, invite, enter, leave, let an invitation expire, fight, end, log out and in | an invitation is known at five places and ends in as many ways. Battlegrounds count exactly those they wait for, wait for all of them, and go away at last |
| **Groups and loot rolls** (`Group.cpp`, `GroupHandler.cpp`, `LootHandler.cpp`, `Creature.cpp`) | members, leader, who is connected, the open rolls with votes and totals, the items of the corpse, the creature's timer | start rolls, vote, time out, loot, join, leave, change the leader, log out and in, disband, lose the corpse | votes are counted in totals that must follow members who leave in the middle. The best vote gets the item, the item does not stay blocked, a roll ends |

`PROJECT.json` lists the file of each of these and of every other component
with its status. A file is listed under the component most of its lines belong
to: the login queue, for instance, is a few functions of `World.cpp`, which is
otherwise start-up and configuration; Trade and Mail also model parts of
`Player.cpp` and `ObjectMgr.cpp`.

### Components that are not modelled yet, or will not be

Worth a model (section 7): the guild bank, the dungeon finder, instance saves
and resets, grid states, threat references, movement generators, spawn pools,
game events, `EventProcessor`, channels, the calendar, `ObjectAccessor`,
logging, the message order of authserver.

Not worth one, or out of reach: units, spells, auras, AI, quests, achievements,
conditions, reputation, weather and texts (rules over loaded data, sequential
in one thread, with a state far too large for an instance that means
anything); battleground, zone and encounter scripts (content); packet layout,
cryptography, configuration, logging formats (conversions and I/O); collision
and the extraction tools (geometry over files); SQL data; the vendored
libraries.

## 2. Modules

```
ProducerConsumerQueue            blocking queue: lock + condition variable
   |            \
MapUpdater      DatabaseWorkerPool ...implements... AsyncOperations
   |  \             \-- DatabaseProofs (with TransactionTask)
   |   ...implements... MapTicks
   \-- MapUpdaterProofs
TransactionTask  -- DatabaseProofs           one operation, on one connection
Trade            -- TradeProofs
Mail             -- MailProofs (both)
  \-- AuctionHouse                             auctions pay through the mail
SessionQueue     -- SessionQueueProofs
Socket           -- SocketProofs
BattlegroundQueue -- BattlegroundQueueProofs
GroupLoot        -- GroupLootProofs
MC*                                          instances for TLC
```

* **`ProducerConsumerQueue`** (`shared/Threading/ProducerConsumerQueue.h`). Each
  member holds the lock throughout, so each is one step; only `WaitAndPop`
  gives the lock away, and is split into `Sleep` and its ways of returning.
  `notify_one`, `notify_all` and spurious wake-ups are explicit.
* **`MapUpdater`**. `mainPc` is the world thread's place in
  `MapManager::Update`, `wait()`, `deactivate()` and `UnloadAll`; `pc[w]` a
  worker's in `WorkerThread`. `todo` and `rest` are the loops over `i_maps` and
  `m_InstancedMaps`. The update of a map is a step that begins and one that
  ends; for a `MapInstanced` the visits to its instances lie between: destroy,
  give up destroying because players remain, or schedule. Only the world thread
  creates maps, as only its packet handlers do. `served` is history.
* **`MapTicks`** is the abstraction of it: serial and parallel phases
  alternate, and in each parallel phase every map gets exactly one turn.
* **`TransactionTask`**. `pc`, `next` and `attempt` are the control of
  `TransactionTask::Execute`, `ExecuteTransaction` and `Execute`;
  `inTransaction`, `work` and `durable` are the MySQL session, the part that is
  external and is modelled by the answers the code can tell apart. Every
  request overwrites `errno`, a successful one with 0.
* **`DatabaseWorkerPool`**. Workers as in `WorkerThread`; threads in
  `GetFreeConnection` (which spins, trying one mutex after the other) and
  `KeepAlive`; `Close`, which deletes connection after connection: token,
  cancel, join. An operation is its number in the order of the calls.
* **`AsyncOperations`** is the abstraction of it: every operation at most once,
  and one overtakes fewer earlier ones than there are workers.
* **`Trade`**. A handler runs to its end in the world thread and is one action;
  `HandleAcceptTradeOpcode` is one action for each of its outcomes, whose guards
  are disjoint tests in the order of the code, save `AcceptTooFar` and
  `AcceptSpellFails`, which may also happen where another outcome would:
  distance and `CheckCast` are left to chance. `Spend`, `Bind`, `UseUp` and
  `PickUp` are what may happen to purses and bags between two handlers. `seen`
  is history.
* **`Mail`**. `row`, `gold`, `stored` are the tables, the other variables the
  memory of the players who are online. A handler and the transaction it queues
  are one action (section 4). `Crash` forgets the memory. `ledger`, `minted`
  and `bill` are history: what money there should be, what was ever earned,
  and what was asked and paid for a mail.
* **`AuctionHouse`** extends `Mail`: its letters are rows and cached mails of
  that module, and its players collect them with that module's handlers.
* **`SessionQueue`**. Network threads create sessions and close sockets at any
  moment; `AddSession_`, the loop of `UpdateSessions` and `KickAll` are steps
  of the world thread. `RemoveQueuedPlayer` is a function of the queue and the
  sessions, because the code calls it twice in a row when a session ends. `told`
  and `late` are history.
* **`Socket`** (the build without IOCP). `pc` holds the place of the network
  thread, of the io_service thread that reads and the one that writes, of the
  world thread and of the acceptor. A thread that holds `_writeLock` keeps it
  over several steps, in which the flags may change; a `write_some` takes some
  of the bytes, would block, or fails. A packet is a pair of bytes or more, so
  that a message can be cut.
* **`BattlegroundQueue`**. One type and bracket. A handler is a step, and so is
  each part of `BattlegroundMgr::Update`. The matching (premade, free places,
  normal) is folded over a record of what it changes, in the code's order.
  Remaining times are kept instead of points in time.
* **`GroupLoot`**. One group, one corpse. `CountTheRoll` returns the outcomes
  there are over all throws of the dice. A client is taken to vote once per
  item, as it is asked once. `RemoveMember` does not count a roll to which all
  who remain have answered: the model does neither, and the timer ends it.

Definitions keep the names of the functions they model; `PROJECT.json` maps
each to its lines. Definitions introduced as a *faulty variant* are not part of
the model: each is a plausible bug of the definition after it, and shows that
the property named with it in `PROJECT.json` notices.

## 3. Runs

Every passing run checks its properties exhaustively. The types of the state
are a conjunct of a structural invariant.

| run | instance | shows |
|---|---|---|
| `map_updater` | 2 workers, 1 ordinary and 1 instanced map with 2 instances; any number of ticks, one shutdown | `WorldThreadAlone` (the barrier), `OneUpdaterPerMap` (and no request for a deleted map), `PoppedRequestIsHandled` (no `nullptr` dereferenced, no request leaked at shutdown), refinement of `MapTicks`, `EveryoneIsWoken` (ticks and shutdown end) |
| `tx` | 3 operations in a row of up to 2 statements, 2 lost connections | `AtomicWhileConnected` (all or nothing, once, with a truthful result, until the first loss), `InAppendedOrder` (always), `EveryTaskEnds` |
| `pool` | 2 workers, 2 synchronous connections, 2 threads, 3 operations | `EachOperationOnce`, `ConnectionsAreOwned` (one user at a time, none after its deletion), refinement of `AsyncOperations`, `WorkersAreWoken` (operations are executed, a close returns) |
| `trade` | 3 players with one slot and one coin each, 2 items, limit of 2 coins | `TradesArePaired`, `AcceptanceIsOfThisOffer`, `NothingLost`, `ExchangesAreAgreed` |
| `mail` | 2 players, 2 items, 2 mails at a time, 2 coins earned later | `BoxIsFaithful`, `MoneyAccounted` (in memory, after a crash, COD paid once), `ItemsAreNotCopied`, `ItemsAreNotLost` |
| `auction` | 3 players, 1 item auctioned up to twice, 3 mails at a time, prices 1 and 2 | `AuctionMoneyAccounted` (a bid is what was paid; a crash mints no more than deposits), `ItemsAreSoldOnce`, `LosersAreRefunded`, `AuctionsAreSettled` |
| `sessions` | 3 accounts, 3 session objects, one place, players stay one update | `QueueIsConsistent`, `PlacesAreShared` (the limit is kept, no place idles or stays with a dead session), `NobodyOvertakes` |
| `socket` | packets of 2 bytes, a buffer of 3, 4 packets | `StreamInOrder`, `SessionOutlivesSocket`, `OpenSocketDelivers`, `ClosedSocketIsReleased` |
| `bg_queue` | 3 players of two teams, one battleground, sizes 1 and 2 | `InvitedCountIsExact`, `BattlegroundAwaitsItsPlayers`, `NoInvitationIsCutShort`, `EndedBattlegroundIsDeleted` |
| `group_loot` | 3 players, of whom 2 may disconnect, 2 items, one that can be disenchanted | `RollCountsAreVotes`, `LeaderIsMember`, `BestVoteWins`, `RollSettlesItem`, `RollEnds` |

Two runs show a disagreement between the code and what the repository says of
it; each checks that statement and finds it violated.

* `tx_deadlock`: a transaction that was chosen as a deadlock victim is not
  tried again. `ExecuteTransaction` sends a `ROLLBACK` before it returns, and
  `TransactionTask::Execute` then asks for the errno, which is that of the
  `ROLLBACK` (`Transaction.cpp:82`).
* `socket_delayed_close`: "Marks the socket for closing after write buffer
  becomes empty" (`Socket.h:142`). `Update` returns `false` for a socket that
  is being closed before it looks at its queue, the network thread lets go of
  it, and the answer that was queued just before is destroyed with it.

### Limits of what holds

The passing properties are stated up to these places, which show in their
premises or in the constants of their runs:

* A connection lost inside a transaction is reopened and the request sent
  again, outside any transaction (`MySQLConnection.cpp:172`): the statements
  before it are gone, the ones after it take effect one by one.
  `AtomicWhileConnected` therefore ends at the first loss.
* Closing a pool deletes what is queued (`DatabaseWorker.cpp:37`): `EachOperationOnce`
  says at most once, and `WorkersAreWoken` speaks of operations while the pool
  is open.
* A COD of half the range of `uint32` or more becomes positive when it is
  negated as an `int32` (`MailHandler.cpp:591`), and prices are 64 bits wide
  where the auction keeps 32 (`AuctionHouseHandler.cpp:496`). `Mail` and
  `AuctionHouse` model both truncations; in the runs no amount is that large.
* The money of a mail is written to a 32 bit column (`Mail.cpp:220`) while
  purses hold up to 9999999999: `BoxIsFaithful` holds as long as the amounts
  sent fit 32 bits, as they do in `mail`; `CachesAreSaved` (section 6) is what
  holds for every amount.
* An item won by a member who is away, or rolled for by a group that is
  disbanded, stays blocked; the premise of `RollSettlesItem` says so.
* `LogoutPlayer` takes a queued player from the battleground queue without
  scheduling an update, so others may wait until the next occasion; no liveness
  of the queue itself is claimed.

### Bounds

Every bound is a CONSTANT, marked as such where it is declared, or one of the
scaled limits of the code.

* *Maps.* Two workers are the least with which one can be late, asleep or
  destroying while another works. Two instances of one parent give a worker a
  choice between destroying and scheduling at each of two visits while the
  other worker is in the first scheduled instance. Ticks are not bounded.
* *Transactions.* Two statements separate "none", "some" and "all"; three
  operations in a row leave what a failed one left behind to two others; two
  losses make one hit the request that follows a reconnection.
* *Pool.* Three operations with two workers allow an overtaking and one that
  would exceed the bound; two connections and two threads compete for a lock.
* *Trade.* The third player can interfere with a pair; one slot each makes room
  scarce; with a limit of two coins and three in the world, the limit is hit.
* *Mail.* A returned or paid mail needs the second id. Ids are interchangeable
  and the lowest free one is taken; an id may be used again once its mail is
  gone from memory and database, so the number of mails over time is not
  bounded. `UINT32` and `MAX_MONEY_AMOUNT` are scaled down to 16 and 3, where no
  amount reaches half of `UINT32`.
* *Auctions.* Seller, bidder and outbidder are the three players; a buyout over
  another's bid takes three letters and so the three ids. Two auctions in a row
  of the same item show what the first leaves behind.
* *Sessions.* One place, one who holds it and two who wait, or a session and
  its replacement: with three, every position of the queue and its order can be
  exercised. Session objects are used again, so logins are not bounded.
* *Socket.* The initializer, an answer and two more packets; two bytes are the
  least that can be cut, and a buffer of three holds one packet and not two, so
  a packet may find the buffer with room for a part of it only.
* *Battlegrounds.* Two on one side and one on the other let a team wait for a
  place, with one place per team or two. One tick of an invitation separates
  "expires now" from "is younger". Battles and joins are not bounded.
* *Rolls.* Three members leave two when one goes, and the group disbands when
  the next does; two items make a member's leaving touch several rolls.

## 4. What the abstractions rest on

* *A handler is one step.* Every packet of trade, mail and auctions is
  declared `PROCESS_THREADUNSAFE` (`Opcodes.cpp`), so the world thread handles
  it, one after another and never while the map threads run
  (`MapSessionFilter` and `WorldSessionFilter`, `WorldSession.cpp`). The models
  take the handlers one at a time. What a map thread does itself to a player
  who is trading or whose mail is open is not in them; where such a step can
  meet a trade it is listed as a hazard and not yet covered.
* *A transaction is applied when it is queued.* With the default of one worker
  per pool, `AsyncOperations` says that transactions take effect in the order of
  the calls. A crash then leaves the database after a prefix of the transactions
  queued, and every such state is one in which the model crashes a little
  earlier. What this does not cover is a *read* that runs ahead of queued
  writes (`_LoadMail`); it is listed as a hazard.
* *Names, texts, templates, packets* are left out; amounts are small numbers
  and items and players are interchangeable model values, which is why the
  symmetry sets are sound. Properties with liveness are checked without symmetry.
* *What the models leave to chance*: which statement fails, when a connection
  is lost, when a mail or an auction expires, whether a spell can be cast, how
  far traders are apart, what a session's packets do to its character.
* *`CONFIG_NUMTHREADS = 0`* (maps updated by the world thread itself) is
  sequential and not modelled.
* `HasRecentlyDisconnected` is modelled as coded: its time difference is never
  positive, so an entry never expires.

## 5. Fairness

`FairSpec` of `MapUpdater`, `TransactionTask` and `DatabaseWorkerPool` says that
the operating system runs every thread that can run: weak fairness of the world
thread's loop, of each worker, of each thread inside a call, and of `Close`.
A thread blocked in a condition variable is not enabled to do anything but wake
spuriously, and spurious wake-ups are *not* fair: a lost notification is a
thread that sleeps for ever, and would be found. Nothing obliges a player to
act, a map to be created, a statement to fail or the server to stop. A spinning
`GetFreeConnection` is not obliged to succeed, only to go on trying, and no
property claims more. `SessionQueue` needs no fairness: that places are
released is stated by counting updates.

`FairSpec` of `Socket` says that every thread that can run does, that a thread
which asks for `_writeLock` gets it at last (strong fairness, as others take it
in between), that the kernel goes on taking bytes or the connection ends, that
the world thread ends a session whose socket was closed, and that a client's
messages come to an end. In `BattlegroundQueue` the world thread goes on
updating battlegrounds and events, and a transfer ends; no player need answer,
leave or win. In `GroupLoot` the creature's update is the only thing that must
go on; nobody need vote.

## 6. Proofs

The proof modules are checked to the last leaf. They hold for every set of maps,
items and places, every number of workers, connections, threads, operations and
statements; sets are finite where the code counts their members.

**`MapUpdaterProofs`** assumes `MapsAssumption` (finitely many workers, each
instance has a base map, `nullptr` is no map). `WorldThreadAlone` is not
inductive: that `wait()` returns says that `pending` is 0, which means something
only if `pending` counts the requests queued and held
(`PendingIsOutstanding`); that the count stays exact needs to know at which
places a worker holds a request (`WorkerShape`, `PoppedRequestIsHandled`); and
that no request is thrown away, or awaited for ever, at shutdown needs the order
token, empty queue, cancel (`ShutdownShape`). The conjunction of these with
`TypeOK` is `IInv`; it is proved action by action, with one lemma for the world
thread's many steps that do not touch the queue. Results: `TypeCorrect`,
`Barrier`, `CounterExact`, `RequestsHandled`. `MapsSeparate` (`OneUpdaterPerMap`)
builds on it: a worker may schedule or destroy the next instance because it is
in nobody's hands, which needs to know where a map can be (not yet scheduled by
the world thread, in a worker's `rest`, queued or held, in one of these at a
time) and that an instance is outstanding only after its parent
(`ParentsFirst`). `MapUpdaterImplementsTicks` (`ImplementsMapTicks`) is the
refinement: the mapped initial state is one of `MapTicks`, and each step is a step of
it or leaves what it sees alone. What the refinement needs beyond the separation is
that no live map is forgotten (`Turns`): inside a parallel phase every one was
served, is outstanding, waits for the world thread or in some worker's `rest`,
or is an instance whose parent has yet to be visited. So a phase that ends has
given every map its turn.

**`DatabaseProofs`** is about both database modules. Of `TransactionTask` it
assumes only that the bounds are natural numbers.
Statements take effect in the order in which they were appended
(`StatementsInOrder`) because uncommitted work belongs to the task in progress
while all that is durable is of earlier ones (`ServerShape`), and because a task
that begins again has no effect yet. `RetryShape` says why: the `ROLLBACK`
overwrites the errno that asks for a retry, so only an empty transaction is ever
retried. `TransactionsAreAtomic` adds what each place of `Execute` knows of the
session while no connection was lost (`AtomicShape`).

Of `DatabaseWorkerPool` it assumes `PoolAssumption`. `OperationsOnce` follows
from `Fifo`: what left the queue is a prefix of what was submitted, and the rest
waits in order until `Cancel`; `ConnectionsOwned` from the places at which a
thread's index is the mutex it holds (`LocksShape`), and from the order of
`Close`, which deletes a connection after its worker was joined. `Fifo` also
bounds how far an operation can be overtaken, by the workers that hold one, from
which `PoolImplementsPromise`: every step of the pool is a step of
`AsyncOperations` or a stutter.

**`TradeProofs`** assumes `TradeAssumption` (finitely many players, money of each
below the limit at the start, markers that are no players). An acceptance survives a step
because the step takes back both acceptances of a pair, and that both are meant
needs each to name the other, so `TradesArePaired` and
`AcceptanceIsOfThisOffer` are proved together; `SpellsOK` adds that a waiting
spell was cast on what the partner still shows. The types of the purses need
that an exchange never passes the limit, which is lemma `Exchange`: the four
tests on money, made by the one who accepts last, hold for both amounts, so
`ModifyMoney` cuts nothing off. From the invariant follow `Pairing`,
`AcceptanceHolds` and the action property `ExchangeIsAgreed`. For `NothingIsLost`
(`NothingLost`) the purses are summed: a step changes one purse and `spent` by the
same amount, or two purses by opposite ones (`GoodsMovers`, `SumOfExchange`).

**Sums.** `SumFunction` of the community modules is a fold by a recursive function on
sets. Its equation is not taken on trust: `SummerExists` and `SummersAgree` show that
there is one such function for each finite set, `SumTakeOut` that the order of
summation does not matter, and the rest (`SumSame`, `SumChange`, `SumPart`,
`SumBound`, `SumGreater`) follows. Each of these lemmas is an induction over finite
sets; since a theorem of the library that takes a predicate cannot be cited, it is
put as a set of counterexamples that would have a minimal one (`Least`, from
`WFMin`). The lemmas stand in `TradeProofs` and again in `MailProofs`, which extend
different components.

**`GroupLootProofs`** assumes that the players are finitely many. `TotalsExact`
(`RollCountsAreVotes`) needs each total to be the number of its votes and each
voter to be a member; a leaving member's vote is one of exactly one total (lemma
per change of a vote). `LeaderStays` uses that a group without connected members
is disbanded. `BestVoteAlways` and `SettledAlways` are the action properties: that
a winner exists at all when a total is not zero is the exactness of the totals,
and that an item given by a roll was nobody's before is `BlockedWhileOpen`.

**`MailProofs`** assumes `MailAssumption` (finitely many players, mails and items,
purses below the limit at the start). A handler
changes the mails in memory together with the rows of its transaction, and there
is a lemma for each of the three ways in which a mail is posted, opened or
removed. What is proved of a loaded mail is that it is its row but for the money
that the column cuts off (`Faithful`), that what lies in a bag is saved as lying
there (`BagsAreSaved`), and that an item has one place (`Apart`): bag, mail or
gone. Results: `ItemsInOnePlace` (`ItemsAreNotCopied`), `ItemsStay`
(`ItemsAreNotLost`) and `CachesAreSaved`.

The money is accounted for under a hypothesis, `AmountsFit`: twice the supply, all
that players start with and may ever earn, is below `UINT32`, and so is each
COD. The code needs it, as section 4 says: a purse holds up to 9 999 999 999 and the
columns for `money` and `cod` 32 bits; a server with more coppers than that can lose
money in the mail. `Accounts` strengthens `IInv` by what the two properties rest on:
cached amounts fit, so that `Faithful` means equality; what is marked as deleted
is still cached by somebody, so that a save finds it; the purse of an online
player is at least what is saved of it; purses and mails add up to `ledger`, at most
`minted`, at most the supply (`Books`); and a mail asks for its COD exactly until an
item was taken (`Bills`). That every single amount fits is not assumed but follows:
no purse and no mail holds more than the ledger (`PartsOfLedger`). Each action
moves one purse, one mail and the mails deleted with a save (`MailsChange`,
`PurseStep`). Results: `MoneyIsAccounted` (`MoneyAccounted`), in the game, after a
crash and for CODs, and `BoxesAreFaithful` (`BoxIsFaithful`). The `mail` run
satisfies the hypothesis.

The auction house has an invariant of its own in the same module, since its
specification has another `Next`: the letters it sends ask for no money, so that a
cached letter is always exactly its row, and no letter is deleted before it was
emptied. `HouseInv` says that, that the saved bags are the bags, and that an item
up for sale is in no bag and no letter (`Apart`, `AuctionsApart`); it holds whatever
the amounts (`HouseIsConsistent`), and gives `SoldItemsInOnePlace`. The
other four results assume `AuctionsFit`: the supply, with a deposit for each auction,
is below `UINT32` (8 < 16 in the `auction` run). The code needs that
(`AuctionHouseHandler.cpp:496`, section 4). `HouseAccounts` adds the books and that
a bid is what its bidder paid and below the buyout price (`BidsPaid`), without which
a refund would not be the payment. The books are kept twice: purses, letters and
auctions add up to `ledger`; and with the *peak* of each player, the larger of the
purse in memory and the saved one, they never exceed what was minted and the
deposits. The peaks are needed because a deposit leaves the purse after it was saved
(`AuctionHouseHandler.cpp:406`): a crash gives it back, so that the purse in memory
alone bounds nothing. They also show that nothing is cut off, as no purse, letter or
auction holds more than the sum (`FitTogether`). A handler makes one move of a purse
(`PurseMove`), one of an auction (`EscrowMove`) and posts up to three letters
(`PostPays`), and there is one lemma for the accounts of each handler. Results:
`AuctionMoneyIsAccounted` (`AuctionMoneyAccounted`), `ItemsAreSold`
(`ItemsAreSoldOnce`), and the action properties `OutbidIsRefunded`
(`LosersAreRefunded`) and `SellersAreSettled` (`AuctionsAreSettled`), which follow
from the letters each handler sends (`BidSends`, `BuyoutSends`, `RemoveSends`,
`UpdateSends`).

**`SessionQueueProofs`** assumes `SessionAssumption` and finitely many accounts.
The queues are sequences without repetition, and a player's place is the number
of those ahead. `RemoveQueuedPlayer` is the heart: lemma `LeaveOK` says who is
in the queue afterwards, in which order and with which position told. The limit
is compared with a difference of two sizes, so the number of sessions must be
split into those in the game and those who wait (`CountOK`), for one leaver and
for the case that the account's old session leaves as the new one enters
(`OthersOK`). `Balanced` then keeps places full while somebody waits, `Times`
bounds how long a dead session keeps its place, and whoever enters while
somebody waits is put behind (`EnterCount`). Results: `QueueStaysConsistent`,
`PlacesStayShared` and, as an action property, `QueueIsFair`.

**`SocketProofs`** assumes `SocketAssumption`. `_writeLock` is held exactly at
the places that write, whose threads are then the only ones there (`OneWriter`);
the two flags are only ever set, so a session that is deleted because its socket
was seen closed is never deleted before it (`SessionEndsAfterSocket`).
`BytesStayInOrder` states `StreamInOrder`. While the connection lasts, the bytes on
the wire and those that wait are together the stream (`Flows`); once it is broken
the wire does not change, and a stream that grows still begins with it. For this the
queue must be written only when the buffer is empty (`Buffers`), `Start`, which
queues its packet without the lock, must be the first to send (`NothingBeforeStart`),
and packets are counted by whoever decided to send (`Counted`). A message is
appended at the end of what waits (`PacketFlows`), and the kernel takes from its front
(`WriteBufferFlows`, `HandleQueueFlows`). `FlattenSeq` is chosen by a recursion on the
length: that it is defined, grows at the end with an Append (`FlattenAppend`) and
begins with its head (`FlattenFirst`) is proved from a smallest counterexample.

**`BattlegroundQueueProofs`** assumes `QueueAssumption` (finitely many players, a
team for each, the invitation lasts for a while). What the queue, the battlegrounds
and the players each hold of an invitation must agree, and no handler keeps more
than its own share of that: `IInv` says that nobody is in two groups, that who is
invited is connected, has a slot that names the battleground and is in no battle,
that who travels or fights has left the queue, that an offline queue holds players
of the battle who are away, once each, and that `m_Invited...` counts those who have
a place (`Expected`) and never more of a team than its size. The steps of the players
and of a battleground are proved one by one; most change one battleground
(`PlacedIs`, `CountsStay`) or take one player off (`WithoutQueue`, `QuitQueue`,
`AwayKeeps`). `BattlegroundQueueUpdate` is a composition of stages, each of which
hands on a consistent record (`StageType`, `Stages`): filling, the premade match, the normal
match. For them the folds are unfolded from their definition in the community
modules (`FolderExists`, from a smallest counterexample): a selection takes groups
of the list that are not invited yet, counts their members and stays within the places
(`SelectAllOK`, `SelectEnoughOK`), which are what is left of the team's size
(`FreeSlotsOK`), so that the invitations do not exceed it (`InviteStage`,
`InviteSelected`). From `IInv` follow `InvitedCountsAreExact` (`InvitedCountIsExact`) and
`PlayersAreAwaited` (`BattlegroundAwaitsItsPlayers`: whoever has a place is counted, and
a deleted battleground counts nobody); and `InvitationsLast`
(`NoInvitationIsCutShort`): only `RemoveEvent` ends an invitation by an event, and it
removes a player whose invitation has as little time left as the event, none.
Two definitions could not be reasoned about as they stood, and were put right: the CASE of
`CheckPremadeMatch` had overlapping guards, which leaves its value open where
both hold (it now says what the code does, and TLC had been choosing), and
`InvitedCountIsExact` left it to operator precedence where its UNION ends.

Only model-checked: liveness, which is beyond the prover, and with it whatever waits
for a wake-up (`EveryoneIsWoken`, `EndedBattlegroundIsDeleted` and their like). No
module that proofs use declares a RECURSIVE operator.

## 7. Plan

Done: the four levels that all else stands on (queue, update threads, pool,
transactions), the sockets, the economy (trade, mail, auctions), the sessions,
the battleground queue and the rolls of a group.

What would come next, most important first:

1. `DungeonFinder`: role checks, proposals and kick votes with timeouts.
2. `GuildBank`: limits, money and items against the transactions that save them.
3. `GridStates`, `ThreatReferences`, `EventProcessor`, `MotionMaster`: lists
   that change while they are walked.
4. Compositions: `Socket` under `SessionQueue`, whose network threads are now
   two actions; `Mail` on the queue of `DatabaseWorkerPool`, with reads that run
   ahead of writes; `Trade` in the map threads of `MapUpdater`.

Every invariant and every action property that a run checks is proved. Proofs that
would come next: refinements of abstract specifications of the mail and of the
auction house, and the parts above once they are modelled.

## 8. Checking

`tlc -config X.cfg M` with the pairs listed under "runs" in `PROJECT.json`;
`tlapm` with each module whose name ends in `Proofs`. Deadlock checking is off
where the system may stop: after a shutdown, when all tasks are done, when no
player does anything more.
