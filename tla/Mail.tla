-------------------------------- MODULE Mail ---------------------------------
(***************************************************************************)
(* game: in-game mail.  MailDraft (Mail.cpp), the mail handlers            *)
(* (MailHandler.cpp), the mailbox a player caches (Player.cpp) and         *)
(* ObjectMgr::ReturnOrDeleteOldMails.  The state is kept twice: in the     *)
(* memory of the players who are online and in the character database.    *)
(* Handlers run one after another in the world thread, and each queues one *)
(* transaction; transactions are executed in the order they were queued,   *)
(* so what a crash leaves is the database after some prefix of them, and   *)
(* applying each at once reaches every such state.                         *)
(***************************************************************************)
EXTENDS Integers, FiniteSets, SequencesExt

CONSTANTS Players, Items,
          None,             \* a sender who is not a player
          MailIds,          \* bound: mails that exist at the same time
          Purse, Capacity,  \* money of a player at the start, and his bag slots
          MaxEarned,        \* bound: money that comes into the world later
          CODs,             \* amounts a sender may ask for
          COST,             \* price of a mail, and of each item in it
          MaxMailSize,      \* the 100 of HandleSendMail
          MAX_MONEY_AMOUNT,
          UINT32            \* 2^32, scaled

ASSUME MailAssumption ==
    /\ {Purse, Capacity, MaxEarned, COST, MaxMailSize, MAX_MONEY_AMOUNT} \subseteq Nat
    /\ UINT32 \in Nat \ {0} /\ CODs \subseteq Nat
    /\ Purse <= MAX_MONEY_AMOUNT
    /\ None \notin Players /\ MailIds \subseteq Nat
    /\ IsFiniteSet(Players) /\ IsFiniteSet(MailIds) /\ IsFiniteSet(Items)

NoMail == [receiver |-> None]

VARIABLES
    row,      \* tables mail and mail_items
    gold,     \* characters.money
    stored,   \* character_inventory
    online, money, bag,
    loaded,   \* m_mailsLoaded
    box,      \* m_mail: what the player's memory holds of his mails
    deleted,  \* cached mails in MAIL_STATE_DELETED
    ledger,   \* history: the money that is in the world
    minted,   \* history: the money that ever came into the world
    bill      \* history of a mail: COD asked for, money taken, an item taken

database == <<row, gold, stored>>
memory == <<online, money, bag, loaded, box, deleted>>
history == <<ledger, minted, bill>>
vars == <<database, memory, history>>

NoBill == [asked |-> 0, paid |-> 0, taken |-> FALSE]

Init ==
    /\ row = [id \in MailIds |-> NoMail]
    /\ gold = [p \in Players |-> Purse]
    /\ \E f \in [Items -> Players] :
           stored = [p \in Players |-> {i \in Items : f[i] = p}]
    /\ \A p \in Players : Cardinality(stored[p]) <= Capacity
    /\ online = [p \in Players |-> TRUE]
    /\ money = gold /\ bag = stored
    /\ loaded = [p \in Players |-> FALSE]
    /\ box = [p \in Players |-> [id \in MailIds |-> NoMail]]
    /\ deleted = {}
    /\ minted = Purse * Cardinality(Players) /\ ledger = minted
    /\ bill = [id \in MailIds |-> NoBill]

------------------------------------------------------------------------------
(* Money and mails as values.                                               *)

\* int32(u) of a uint32.
Int32(u) == IF 2 * u < UINT32 THEN u ELSE u - UINT32

\* What Player::ModifyMoney(amount) leaves of m.
ModifyMoney(m, amount) ==
    IF amount < 0 THEN (IF m > -amount THEN m + amount ELSE 0)
    ELSE IF m < MAX_MONEY_AMOUNT - amount THEN m + amount ELSE m

Mails(f) == {id \in MailIds : f[id] # NoMail}
MailsOf(p) == {id \in Mails(row) : row[id].receiver = p}

\* GenerateMailID: an id no mail has; they are interchangeable.
FreeIds == {id \in MailIds : row[id] = NoMail /\ \A p \in Players : box[p][id] = NoMail}
NewId == CHOOSE id \in FreeIds : TRUE

Letter(sender, receiver, m, cod, items, checked) ==
    [type |-> "normal", sender |-> sender, receiver |-> receiver, money |-> m,
     cod |-> cod, items |-> items, checked |-> checked]

\* MailDraft::SendMailTo: a row, and a cached copy for a receiver who has his
\* mailbox open.  The money column is written with setUInt32.
Posted(rows, id, mail) == [rows EXCEPT ![id] = [mail EXCEPT !.money = @ % UINT32]]

Delivered(boxes, id, mail) ==
    IF loaded[mail.receiver] THEN [boxes EXCEPT ![mail.receiver][id] = mail] ELSE boxes

\* Player::_SaveMail: the changed mails are updated, the deleted ones removed
\* with the items in them.
Doomed(p) == deleted \cap Mails(box[p])
Saved(rows, boxes, p, changed) ==
    [id \in MailIds |-> IF id \in Doomed(p) THEN NoMail
                        ELSE IF id \in changed THEN [boxes[p][id] EXCEPT !.money = @ % UINT32]
                        ELSE rows[id]]
Dropped(boxes, p) ==
    [boxes EXCEPT ![p] = [id \in MailIds |-> IF id \in Doomed(p) THEN NoMail ELSE @[id]]]

Worth(f, S) == SumFunction([id \in S |-> f[id].money])

------------------------------------------------------------------------------
(* Handlers of an online player.                                            *)

\* What HandleSendMail counts against the limit: the cached mails of a
\* receiver who is online, the rows of one who is not.
GetMailSize(q) == Cardinality(IF online[q] THEN Mails(box[q]) ELSE MailsOf(q))

\* p posts the items S, m copper and the demand COD to q.
SendMail(p, q, S, m, COD) ==
    LET id == NewId
        req == COST * (IF S = {} THEN 1 ELSE Cardinality(S)) + m
        mail == Letter(p, q, m, IF S = {} THEN 0 ELSE COD % UINT32, S, "copied")
    IN
    /\ online[p] /\ p # q
    /\ S = {} => COD = 0
    /\ money[p] >= req
    /\ GetMailSize(q) <= MaxMailSize
    /\ FreeIds # {}
    /\ money' = [money EXCEPT ![p] = ModifyMoney(@, -req)]
    /\ bag' = [bag EXCEPT ![p] = @ \ S]
    /\ row' = Posted(row, id, mail)
    /\ box' = Delivered(box, id, mail)
    /\ gold' = [gold EXCEPT ![p] = money'[p]]
    /\ stored' = [stored EXCEPT ![p] = bag'[p]]
    /\ ledger' = ledger - (req - m)
    /\ bill' = [bill EXCEPT ![id] = [NoBill EXCEPT !.asked = IF S = {} THEN 0 ELSE COD]]
    /\ UNCHANGED <<online, loaded, deleted, minted>>

HandleSendMail(p, q) ==
    \E S \in SUBSET bag[p], m \in 0..money[p], COD \in CODs : SendMail(p, q, S, m, COD)

\* HandleGetMailList and HandleQueryNextMailTime.
LoadMail(p) ==
    /\ online[p] /\ ~loaded[p]
    /\ loaded' = [loaded EXCEPT ![p] = TRUE]
    /\ box' = [box EXCEPT ![p] = [id \in MailIds |-> IF id \in MailsOf(p) THEN row[id] ELSE NoMail]]
    /\ UNCHANGED <<database, online, money, bag, deleted, history>>

\* A mail the handlers accept; that it has been delivered is left to chance.
IsOpen(p, id) == id \in Mails(box[p]) \ deleted

\* Faulty variant: the mail is not saved with the item.
PaysUnsaved(p, id, i, pay) ==
    LET mail == box[p][id]
        letter == Letter(p, mail.sender, mail.cod, 0, {}, "cod payment")
        opened == [box EXCEPT ![p][id] = [mail EXCEPT !.items = @ \ {i}, !.cod = 0]]
        sent == IF mail.cod > 0 THEN Delivered(opened, pay, letter) ELSE opened
    IN
    /\ row' = IF mail.cod > 0 THEN Posted(row, pay, letter) ELSE row
    /\ box' = Dropped(sent, p)

\* The rows and caches once p has taken i out of his mail, and paid for it
\* with a mail to the sender.
PaysSender(p, id, i, pay) ==
    LET mail == box[p][id]
        letter == Letter(p, mail.sender, mail.cod, 0, {}, "cod payment")
        opened == [box EXCEPT ![p][id] = [mail EXCEPT !.items = @ \ {i}, !.cod = 0]]
        sent == IF mail.cod > 0 THEN Delivered(opened, pay, letter) ELSE opened
    IN
    /\ row' = Saved(IF mail.cod > 0 THEN Posted(row, pay, letter) ELSE row, opened, p, {id})
    /\ box' = Dropped(sent, p)

HandleMailTakeItem(p, id) ==
    \E i \in box[p][id].items :
        LET COD == box[p][id].cod
            pay == IF COD > 0 THEN NewId ELSE id
        IN
        /\ IsOpen(p, id)
        /\ money[p] >= COD
        /\ Cardinality(bag[p]) < Capacity
        /\ COD > 0 => FreeIds # {}
        /\ PaysSender(p, id, i, pay)
        /\ money' = [money EXCEPT ![p] = ModifyMoney(@, -Int32(COD))]
        /\ bag' = [bag EXCEPT ![p] = @ \cup {i}]
        /\ gold' = [gold EXCEPT ![p] = money'[p]]
        /\ stored' = [stored EXCEPT ![p] = bag'[p]]
        /\ deleted' = deleted \ Doomed(p)
        /\ ledger' = ledger - Worth(box[p], Doomed(p))
        /\ bill' = [bill EXCEPT ![pay] = NoBill,
                                ![id] = [asked |-> bill[id].asked, taken |-> TRUE,
                                         paid |-> bill[id].paid + money[p] - money'[p]]]
        /\ UNCHANGED <<online, loaded, minted>>

\* Faulty variant: what ModifyMoney answers is ignored.
TakeMoneyOverLimit(p, id) ==
    LET m == box[p][id].money
        opened == [box EXCEPT ![p][id].money = 0]
    IN
    /\ IsOpen(p, id)
    /\ money' = [money EXCEPT ![p] = ModifyMoney(@, m)]
    /\ gold' = [gold EXCEPT ![p] = money'[p]]
    /\ row' = Saved(row, opened, p, {id})
    /\ box' = Dropped(opened, p)
    /\ deleted' = deleted \ Doomed(p)
    /\ ledger' = ledger - Worth(box[p], Doomed(p))
    /\ UNCHANGED <<stored, online, bag, loaded, minted, bill>>

HandleMailTakeMoney(p, id) ==
    LET m == box[p][id].money
        opened == [box EXCEPT ![p][id].money = 0]
    IN
    /\ IsOpen(p, id)
    /\ m > 0 => money[p] < MAX_MONEY_AMOUNT - m
    /\ money' = [money EXCEPT ![p] = ModifyMoney(@, m)]
    /\ gold' = [gold EXCEPT ![p] = money'[p]]
    /\ row' = Saved(row, opened, p, {id})
    /\ box' = Dropped(opened, p)
    /\ deleted' = deleted \ Doomed(p)
    /\ ledger' = ledger - Worth(box[p], Doomed(p))
    /\ UNCHANGED <<stored, online, bag, loaded, minted, bill>>

\* The mail goes at the next save of the player.
HandleMailDelete(p, id) ==
    /\ id \in Mails(box[p]) \ deleted
    /\ box[p][id].cod = 0
    /\ deleted' = deleted \cup {id}
    /\ UNCHANGED <<database, online, money, bag, loaded, box, history>>

\* A new mail to the sender, without COD, takes the place of the old one; mail
\* that no player sent is only deleted.
HandleMailReturnToSender(p, id) ==
    LET mail == box[p][id]
        letter == Letter(p, mail.sender, mail.money, 0, mail.items, "returned")
        closed == [box EXCEPT ![p][id] = NoMail]
    IN
    /\ IsOpen(p, id)
    /\ \/ /\ mail.type = "normal" /\ FreeIds # {}
          /\ row' = Posted([row EXCEPT ![id] = NoMail], NewId, letter)
          /\ box' = Delivered(closed, NewId, letter)
          /\ bill' = [bill EXCEPT ![NewId] = NoBill]
          /\ UNCHANGED ledger
       \/ /\ mail.type # "normal"
          /\ row' = [row EXCEPT ![id] = NoMail]
          /\ box' = closed
          /\ ledger' = ledger - mail.money
          /\ UNCHANGED bill
    /\ UNCHANGED <<gold, stored, online, money, bag, loaded, deleted, minted>>

------------------------------------------------------------------------------
(* The player's other saves, his sessions, and the world.                   *)

\* The part of Player::SaveToDB that concerns money, items and mail.
\* Changed mails were saved by the handler that changed them.
SaveToDB(p) ==
    /\ gold' = [gold EXCEPT ![p] = money[p]]
    /\ stored' = [stored EXCEPT ![p] = bag[p]]
    /\ row' = Saved(row, box, p, {})
    /\ deleted' = deleted \ Doomed(p)
    /\ ledger' = ledger - Worth(box[p], Doomed(p))

AutoSave(p) ==
    /\ online[p]
    /\ SaveToDB(p)
    /\ box' = Dropped(box, p)
    /\ UNCHANGED <<online, money, bag, loaded, minted, bill>>

\* An offline player's memory is empty.
Emptied(f, p, nothing) == [f EXCEPT ![p] = nothing]

LogoutPlayer(p) ==
    /\ online[p]
    /\ SaveToDB(p)
    /\ online' = [online EXCEPT ![p] = FALSE]
    /\ money' = Emptied(money, p, 0) /\ bag' = Emptied(bag, p, {})
    /\ loaded' = Emptied(loaded, p, FALSE)
    /\ box' = Emptied(box, p, [id \in MailIds |-> NoMail])
    /\ UNCHANGED <<minted, bill>>

\* LoadFromDB: the mailbox is left for later.
Login(p) ==
    /\ ~online[p]
    /\ online' = [online EXCEPT ![p] = TRUE]
    /\ money' = [money EXCEPT ![p] = gold[p]]
    /\ bag' = [bag EXCEPT ![p] = stored[p]]
    /\ UNCHANGED <<database, loaded, box, deleted, history>>

\* Money from anywhere else, saved with the player some time later.
Earn(p) ==
    /\ online[p] /\ minted < Purse * Cardinality(Players) + MaxEarned
    /\ ModifyMoney(money[p], 1) # money[p]
    /\ money' = [money EXCEPT ![p] = ModifyMoney(@, 1)]
    /\ minted' = minted + 1 /\ ledger' = ledger + 1
    /\ UNCHANGED <<database, online, bag, loaded, box, deleted, bill>>

DurableMoney == SumFunction(gold) + Worth(row, Mails(row))

\* The server dies: what was not saved is gone.
LoseMemory ==
    /\ \E p \in Players : online[p]
    /\ online' = [p \in Players |-> FALSE]
    /\ money' = [p \in Players |-> 0] /\ bag' = [p \in Players |-> {}]
    /\ loaded' = [p \in Players |-> FALSE]
    /\ box' = [p \in Players |-> [id \in MailIds |-> NoMail]]
    /\ deleted' = {}
    /\ UNCHANGED <<database, minted, bill>>

Crash == LoseMemory /\ ledger' = DurableMoney

\* Faulty variant: a receiver who has read his mailbox is no exception.
ReturnOrDeleteAny(E) ==
    LET returned == {id \in E : /\ row[id].items # {} /\ row[id].type = "normal"
                                /\ row[id].checked \notin {"returned", "cod payment"}}
    IN
    /\ E \subseteq Mails(row)
    /\ row' = [id \in MailIds |->
                 IF id \in returned
                 THEN [row[id] EXCEPT !.sender = row[id].receiver, !.receiver = row[id].sender,
                                      !.cod = 0, !.checked = "returned"]
                 ELSE IF id \in E THEN NoMail ELSE row[id]]
    /\ ledger' = ledger - Worth(row, E \ returned)
    /\ bill' = [id \in MailIds |-> IF id \in returned THEN NoBill ELSE bill[id]]
    /\ UNCHANGED <<gold, stored, memory, minted>>

\* Faulty variant: mails with items do not go back.
DeleteOldMails(E) ==
    LET dead == {id \in E : row[id] # NoMail /\ ~loaded[row[id].receiver]} IN
    /\ E \subseteq Mails(row)
    /\ row' = [id \in MailIds |-> IF id \in dead THEN NoMail ELSE row[id]]
    /\ ledger' = ledger - Worth(row, dead)
    /\ UNCHANGED <<gold, stored, memory, minted, bill>>

\* Expired mails that have items go back once, if a player sent them; the
\* others are deleted with what is in them.  The mails of a receiver whose
\* memory holds his mailbox are left for another time.
ReturnOrDeleteOldMails(E) ==
    LET kept == {id \in E : row[id] # NoMail /\ loaded[row[id].receiver]}
        returned == {id \in E \ kept : /\ row[id].items # {} /\ row[id].type = "normal"
                                       /\ row[id].checked \notin {"returned", "cod payment"}}
        dead == E \ (kept \cup returned)
    IN
    /\ E \subseteq Mails(row)
    /\ row' = [id \in MailIds |->
                 IF id \in returned
                 THEN [row[id] EXCEPT !.sender = row[id].receiver, !.receiver = row[id].sender,
                                      !.cod = 0, !.checked = "returned"]
                 ELSE IF id \in dead THEN NoMail ELSE row[id]]
    /\ ledger' = ledger - Worth(row, dead)
    /\ bill' = [id \in MailIds |-> IF id \in returned THEN NoBill ELSE bill[id]]
    /\ UNCHANGED <<gold, stored, memory, minted>>

MailHandlers(p) ==
    \/ \E q \in Players : HandleSendMail(p, q)
    \/ LoadMail(p)
    \/ \E id \in Mails(box[p]) :
           \/ HandleMailTakeItem(p, id)
           \/ HandleMailTakeMoney(p, id)
           \/ HandleMailDelete(p, id)
           \/ HandleMailReturnToSender(p, id)

Sessions(p) == AutoSave(p) \/ LogoutPlayer(p) \/ Login(p) \/ Earn(p)

Next ==
    \/ \E p \in Players : MailHandlers(p) \/ Sessions(p)
    \/ \E E \in SUBSET Mails(row) : E # {} /\ ReturnOrDeleteOldMails(E)
    \/ Crash

Spec == Init /\ [][Next]_vars

------------------------------------------------------------------------------
(* Properties.                                                              *)

\* Where an item or a coin is: memory counts for those who are online, the
\* database for those who are not.
Cached == UNION {Mails(box[p]) : p \in Players}
Current == [id \in MailIds |->
              IF id \in Cached THEN box[CHOOSE p \in Players : id \in Mails(box[p])][id] ELSE row[id]]
Has(p) == IF online[p] THEN bag[p] ELSE stored[p]
Owns(p) == IF online[p] THEN money[p] ELSE gold[p]

LetterType(sizes) ==
    [type : {"normal", "auction"}, sender : Players \cup {None}, receiver : Players,
     money : sizes, cod : 0..(UINT32 - 1), items : SUBSET Items,
     checked : {"copied", "cod payment", "returned"}]

\* The types of the database, of the players' memory and of the history.
TypeOK ==
    /\ \A id \in Mails(row) : row[id] \in LetterType(0..(UINT32 - 1))
    /\ gold \in [Players -> 0..MAX_MONEY_AMOUNT] /\ stored \in [Players -> SUBSET Items]
    /\ online \in [Players -> BOOLEAN] /\ loaded \in [Players -> BOOLEAN]
    /\ money \in [Players -> 0..MAX_MONEY_AMOUNT] /\ bag \in [Players -> SUBSET Items]
    /\ \A p \in Players : \A id \in Mails(box[p]) :
           box[p][id] \in LetterType(Nat) /\ box[p][id].receiver = p /\ loaded[p]
    /\ deleted \subseteq Cached
    /\ {ledger, minted} \subseteq Nat

\* A cached mail is what the database has, so that no handler acts on a mail
\* that was returned or taken behind the player's back.
BoxIsFaithful ==
    /\ TypeOK
    /\ \A p \in Players : \A id \in Mails(box[p]) : row[id] = box[p][id]

\* Every coin is in one purse or one mail: no handler, save or session makes
\* or loses one, but for fees and mails that are deleted with their money; and
\* if the server died now, there would be no more than was ever earned.  The
\* COD of a mail is paid in full and once, before or with the first item taken.
MoneyAccounted ==
    /\ SumFunction([p \in Players |-> Owns(p)]) + Worth(Current, Mails(Current)) = ledger
    /\ DurableMoney <= minted
    /\ \A id \in MailIds : bill[id].paid = IF bill[id].taken THEN bill[id].asked ELSE 0

\* No item is in two places, in the game or in what a crash would leave.
OnePlace(i) ==
    /\ Cardinality({p \in Players : i \in Has(p)} \cup {id \in Mails(Current) : i \in Current[id].items}) <= 1
    /\ Cardinality({p \in Players : i \in stored[p]} \cup {id \in Mails(row) : i \in row[id].items}) <= 1
ItemsAreNotCopied == \A i \in Items : OnePlace(i)

\* An item leaves the world only with a mail its receiver deleted, with one
\* that nobody sent and he would not keep, or with one that expired unread.
ItemsAreNotLost ==
    [][\A id \in MailIds : \A i \in Items :
          (row[id] # NoMail /\ i \in row[id].items) =>
             \/ \E q \in Players : i \in stored'[q]
             \/ \E k \in MailIds : row'[k] # NoMail /\ i \in row'[k].items
             \/ id \in deleted
             \/ row[id].checked \in {"returned", "cod payment"} \/ row[id].type # "normal"]_vars
==============================================================================
