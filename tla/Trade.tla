-------------------------------- MODULE Trade --------------------------------
(***************************************************************************)
(* game: trading between two players, WorldSession's trade handlers        *)
(* (TradeHandler.cpp) on the two TradeData they share (Player.cpp).  The   *)
(* handlers run one after another in the world thread, so each is a step.  *)
(* Around them the players go on living: they spend money, bind, consume   *)
(* and pick up items, and leave.                                           *)
(***************************************************************************)
EXTENDS Naturals, FiniteSets, FiniteSetsExt, Functions

CONSTANTS Players, Items,
          None,           \* no player, no item
          MAX_MONEY_AMOUNT,
          Capacity,       \* bag slots of a player
          Purse           \* money of each player at the start

World == "world"  \* owner of an item nobody has: on the ground
Gone == "gone"    \* owner of an item that was used up
Lost == "lost"    \* owner of an item moveItems could not store anywhere

ASSUME TradeAssumption ==
    /\ MAX_MONEY_AMOUNT \in Nat /\ Capacity \in Nat /\ Purse \in 0..(MAX_MONEY_AMOUNT - 1)
    /\ IsFiniteSet(Players) /\ None \notin Players \cup Items
    /\ Players \cap {World, Gone, Lost} = {}

VARIABLES trader,    \* m_trade->m_trader of each player, None for no m_trade
          offer,     \* m_money, m_items, the item of TRADE_SLOT_NONTRADED, and for
                     \* m_spell the item it was cast on (history: the code keeps none)
          accepted,  \* m_accepted
          seen,      \* history: both offers when the player accepted, <<>> if not accepted
          money, owner, bound, enchanted, spent

tradeVars == <<trader, offer, accepted, seen>>
goods == <<money, owner, bound, enchanted, spent>>
vars == <<tradeVars, goods>>

NoOffer == [money |-> 0, items |-> {}, shown |-> None, spell |-> None]

Init ==
    /\ trader = [p \in Players |-> None]
    /\ offer = [p \in Players |-> NoOffer]
    /\ accepted = [p \in Players |-> FALSE]
    /\ seen = [p \in Players |-> <<>>]
    /\ money = [p \in Players |-> Purse]
    /\ owner \in [Items -> Players \cup {World}]
    /\ \A p \in Players : Cardinality({i \in Items : owner[i] = p}) <= Capacity
    /\ bound = {} /\ enchanted = {} /\ spent = 0

\* SetAccepted(false) for the players of S.
Retract(S) ==
    /\ accepted' = [r \in Players |-> accepted[r] /\ r \notin S]
    /\ seen' = [r \in Players |-> IF r \in S THEN <<>> ELSE seen[r]]

Inventory(p) == {i \in Items : owner[i] = p}

\* TradeData::GetItem looks the GUID up in the inventory each time.
Traded(p) == offer[p].items \cap Inventory(p)
Shown(p) == IF offer[p].shown \in Inventory(p) THEN offer[p].shown ELSE None

------------------------------------------------------------------------------
(* Opening and closing a trade.                                             *)

\* Faulty variant: the other player may be trading already.
InitiateWithBusy(p, q) ==
    /\ p # q /\ trader[p] = None
    /\ trader' = [trader EXCEPT ![p] = q, ![q] = p]
    /\ offer' = [offer EXCEPT ![p] = NoOffer, ![q] = NoOffer]
    /\ Retract({p, q})
    /\ UNCHANGED goods

HandleInitiateTrade(p, q) ==
    /\ p # q /\ trader[p] = None /\ trader[q] = None
    /\ trader' = [trader EXCEPT ![p] = q, ![q] = p]
    /\ offer' = [offer EXCEPT ![p] = NoOffer, ![q] = NoOffer]
    /\ Retract({p, q})
    /\ UNCHANGED goods

\* Both m_trade are deleted.
CloseTrade(p) ==
    LET q == trader[p] IN
    /\ trader' = [trader EXCEPT ![p] = None, ![q] = None]
    /\ offer' = [offer EXCEPT ![p] = NoOffer, ![q] = NoOffer]
    /\ Retract({p, q})

\* HandleCancelTradeOpcode, a taxi flight, leaving the world.
TradeCancel(p) ==
    /\ trader[p] # None
    /\ CloseTrade(p)
    /\ UNCHANGED goods

------------------------------------------------------------------------------
(* Changing an offer: any change takes back both acceptances.               *)

\* Faulty variant: only one's own acceptance is taken back.
ChangeKeepsPartner(p, new) ==
    /\ new # offer[p]
    /\ offer' = [offer EXCEPT ![p] = new]
    /\ Retract({p})
    /\ UNCHANGED <<trader, goods>>

Change(p, new) ==
    /\ new # offer[p]
    /\ offer' = [offer EXCEPT ![p] = new]
    /\ Retract({p, trader[p]})
    /\ UNCHANGED <<trader, goods>>

HandleSetTradeGold(p) ==
    /\ trader[p] # None
    /\ \E amount \in 0..money[p] : Change(p, [offer[p] EXCEPT !.money = amount])

\* CanBeTraded and HasItem; the slot may hold another item, which leaves it.
\* TradeData::SetItem drops the spell of p in any case.
HandleSetTradeItem(p) ==
    /\ trader[p] # None
    /\ \E i \in Inventory(p) \ (bound \cup offer[p].items \cup {offer[p].shown}),
          j \in offer[p].items \cup {None} :
           Change(p, [offer[p] EXCEPT !.items = (@ \ {j}) \cup {i}, !.spell = None])

HandleClearTradeItem(p) ==
    /\ trader[p] # None
    /\ \E i \in offer[p].items :
           Change(p, [offer[p] EXCEPT !.items = @ \ {i}, !.spell = None])

\* TRADE_SLOT_NONTRADED: the item is not given away, only shown so that the
\* partner can cast a spell on it.
HandleShowItem(p) ==
    /\ trader[p] # None
    /\ \E i \in (Inventory(p) \ offer[p].items) \cup {None} :
           /\ i # offer[p].shown
           /\ offer' = [offer EXCEPT ![p].shown = i, ![p].spell = None,
                                     ![trader[p]].spell = None]
           /\ Retract({p, trader[p]})
    /\ UNCHANGED <<trader, goods>>

\* Spell::cast on the partner's shown item: remembered until the trade is done.
CastInTrade(p) ==
    /\ trader[p] # None /\ Shown(trader[p]) # None
    /\ Change(p, [offer[p] EXCEPT !.spell = Shown(trader[p])])

------------------------------------------------------------------------------
(* HandleAcceptTradeOpcode.                                                 *)

\* p accepts and the acceptances of S are taken back.
Accept(p, S) ==
    /\ accepted' = [r \in Players |-> r \notin S /\ (accepted[r] \/ r = p)]
    /\ seen' = [r \in Players |->
                   IF r \in S THEN <<>>
                   ELSE IF r = p THEN <<offer[p], offer[trader[p]]>> ELSE seen[r]]

\* Faulty variant: the other side's items are not tested again.
ObstacleMyItems(p, q) ==
    CASE money[p] < offer[p].money -> "mine"
      [] money[q] < offer[q].money -> "his"
      [] money[p] >= MAX_MONEY_AMOUNT - offer[q].money -> "mine"
      [] money[q] >= MAX_MONEY_AMOUNT - offer[p].money -> "his"
      [] Traded(p) \cap bound # {} -> "items"
      [] OTHER -> "none"

\* The first test that fails, and whose acceptance it takes back: the tests on
\* items take back none.
Obstacle(p, q) ==
    CASE money[p] < offer[p].money -> "mine"
      [] money[q] < offer[q].money -> "his"
      [] money[p] >= MAX_MONEY_AMOUNT - offer[q].money -> "mine"
      [] money[q] >= MAX_MONEY_AMOUNT - offer[p].money -> "his"
      [] (Traded(p) \cup Traded(q)) \cap bound # {} -> "items"
      [] OTHER -> "none"

AcceptTooFar(p) ==
    /\ trader[p] # None
    /\ Retract({p})
    /\ UNCHANGED <<trader, offer, goods>>

AcceptRefused(p) ==
    /\ trader[p] # None
    /\ LET q == trader[p]
           obstacle == Obstacle(p, q) IN
       /\ obstacle # "none"
       /\ CASE obstacle = "mine" -> Retract({p})
            [] obstacle = "his" -> Accept(p, {q})
            [] obstacle = "items" -> Accept(p, {})
    /\ UNCHANGED <<trader, offer, goods>>

AcceptWaits(p) ==
    /\ trader[p] # None
    /\ Obstacle(p, trader[p]) = "none" /\ ~accepted[trader[p]]
    /\ Accept(p, {})
    /\ UNCHANGED <<trader, offer, goods>>

\* Both accept from here on.
Agree(p) ==
    trader[p] # None /\ Obstacle(p, trader[p]) = "none" /\ accepted[trader[p]]

SpellsReady(p, q) ==
    /\ offer[p].spell # None => Shown(q) # None
    /\ offer[q].spell # None => Shown(p) # None

\* A spell whose item is gone, or that CheckCast refuses, is taken out; the
\* acceptances go with it.
AcceptSpellFails(p) ==
    /\ Agree(p)
    /\ \E s \in {p, trader[p]} :
           /\ offer[s].spell # None
           /\ offer' = [offer EXCEPT ![s].spell = None]
    /\ Retract({p, trader[p]})
    /\ UNCHANGED <<trader, goods>>

\* CanStoreItems: the items marked SetInTrade leave room for the ones to come.
Fits(p, q) ==
    Cardinality(Inventory(p) \ Traded(p)) + Cardinality(Traded(q)) <= Capacity

\* Faulty variant: only the side that accepts last is asked.
HaveRoomMine(p, q) == Fits(p, q)

HaveRoom(p, q) == Fits(p, q) /\ Fits(q, p)

AcceptNoRoom(p) ==
    /\ Agree(p)
    /\ SpellsReady(p, trader[p]) /\ ~HaveRoom(p, trader[p])
    /\ Retract({p, trader[p]})
    /\ UNCHANGED <<trader, offer, goods>>

\* Player::ModifyMoney: below zero is zero, and what would go over the limit
\* is not taken.
Pay(amount, m) == IF m > amount THEN m - amount ELSE 0
Receive(amount, m) == IF m < MAX_MONEY_AMOUNT - amount THEN m + amount ELSE m

\* moveItems, after all traded items were taken out: what finds no room at its
\* new owner goes back, and is lost if its slot was given to another meanwhile.
\* The model keeps of this only that it may be lost.
Stored(p, q) == IF Fits(p, q) /\ Fits(q, p) THEN q ELSE Lost

AcceptCompletes(p) ==
    /\ Agree(p)
    /\ LET q == trader[p] IN
       /\ SpellsReady(p, q) /\ HaveRoom(p, q)
       /\ owner' = [i \in Items |-> IF i \in Traded(p) THEN Stored(p, q)
                                    ELSE IF i \in Traded(q) THEN Stored(q, p)
                                    ELSE owner[i]]
       /\ money' = [money EXCEPT ![p] = Receive(offer[q].money, Pay(offer[p].money, @)),
                                 ![q] = Receive(offer[p].money, Pay(offer[q].money, @))]
       /\ enchanted' = enchanted \cup (IF offer[p].spell # None THEN {Shown(q)} ELSE {})
                                 \cup (IF offer[q].spell # None THEN {Shown(p)} ELSE {})
    /\ CloseTrade(p)
    /\ UNCHANGED <<bound, spent>>

HandleUnacceptTrade(p) ==
    /\ trader[p] # None
    /\ Retract({p})
    /\ UNCHANGED <<trader, offer, goods>>

------------------------------------------------------------------------------
(* The rest of the players' lives.                                          *)

Spend(p) ==
    /\ money[p] > 0
    /\ money' = [money EXCEPT ![p] = @ - 1] /\ spent' = spent + 1
    /\ UNCHANGED <<tradeVars, owner, bound, enchanted>>

\* An item is bound when it is put on; CanBeTraded is false from then on.
Bind(p) ==
    /\ \E i \in Inventory(p) \ bound : bound' = bound \cup {i}
    /\ UNCHANGED <<tradeVars, money, owner, enchanted, spent>>

\* A reagent is consumed, an item with a duration expires: m_items still names it.
UseUp(p) ==
    /\ \E i \in Inventory(p) : owner' = [owner EXCEPT ![i] = Gone]
    /\ UNCHANGED <<tradeVars, money, bound, enchanted, spent>>

PickUp(p) ==
    /\ Cardinality(Inventory(p)) < Capacity
    /\ \E i \in Items : owner[i] = World /\ owner' = [owner EXCEPT ![i] = p]
    /\ UNCHANGED <<tradeVars, money, bound, enchanted, spent>>

HandleAcceptTrade(p) ==
    \/ AcceptTooFar(p) \/ AcceptRefused(p) \/ AcceptWaits(p) \/ AcceptSpellFails(p)
    \/ AcceptNoRoom(p) \/ AcceptCompletes(p)

Next ==
    \E p \in Players :
        \/ \E q \in Players : HandleInitiateTrade(p, q)
        \/ TradeCancel(p)
        \/ HandleSetTradeGold(p) \/ HandleSetTradeItem(p) \/ HandleClearTradeItem(p)
        \/ HandleShowItem(p) \/ CastInTrade(p)
        \/ HandleAcceptTrade(p) \/ HandleUnacceptTrade(p)
        \/ Spend(p) \/ Bind(p) \/ UseUp(p) \/ PickUp(p)

Spec == Init /\ [][Next]_vars

------------------------------------------------------------------------------
(* Properties.                                                              *)

Offers == [money : 0..(MAX_MONEY_AMOUNT - 1), items : SUBSET Items,
           shown : Items \cup {None}, spell : Items \cup {None}]

\* The types of the state; a part of TradesArePaired.
TypeOK ==
    /\ trader \in [Players -> Players \cup {None}]
    /\ offer \in [Players -> Offers]
    /\ accepted \in [Players -> BOOLEAN]
    /\ seen \in [Players -> (Offers \X Offers) \cup {<<>>}]
    /\ money \in [Players -> 0..(MAX_MONEY_AMOUNT - 1)] /\ spent \in Nat
    /\ owner \in [Items -> Players \cup {World, Gone, Lost}]
    /\ bound \subseteq Items /\ enchanted \subseteq Items

\* m_trade is set on both sides or on neither, and each names the other: the
\* handlers follow GetTraderData() without a test.
TradesArePaired ==
    /\ TypeOK
    /\ \A p \in Players :
           trader[p] # None => trader[p] # p /\ trader[trader[p]] = p

\* An acceptance stands for the two offers its player saw when he gave it,
\* whatever either has done since.
AcceptanceIsOfThisOffer ==
    \A p \in Players :
        accepted[p] => trader[p] # None /\ seen[p] = <<offer[p], offer[trader[p]]>>

\* No copper is made or destroyed by trading and no item is lost, however the
\* purses and the bags have changed since the offers were made.
NothingLost ==
    /\ SumFunction(money) + spent = Cardinality(Players) * Purse
    /\ \A i \in Items : owner[i] # Lost

\* p and q trade, and one of them has accepted the offers the other now accepts.
Agreed(p, q) ==
    /\ trader[p] = q /\ trader[q] = p
    /\ \/ seen[p] = <<offer[p], offer[q]>>
       \/ seen[q] = <<offer[q], offer[p]>>

\* An item goes from one player to another only in a trade between the two that
\* both accepted with that item in it, and not if it was bound in the meantime.
ItemsMoveAsAgreed ==
    \A i \in Items : LET p == owner[i]
                        q == owner'[i] IN
        p \in Players /\ q \in Players /\ p # q
            => Agreed(p, q) /\ i \in offer[p].items /\ i \notin bound

\* A purse grows only by what both sides of a trade agreed on, and the other
\* one shrinks by as much.
MoneyMovesAsAgreed ==
    \A p \in Players : LET q == trader[p] IN
        money'[p] > money[p]
            => /\ q # None /\ Agreed(p, q)
               /\ money'[p] + offer[p].money = money[p] + offer[q].money
               /\ money'[q] + offer[q].money = money[q] + offer[p].money

\* A spell kept for the end of a trade falls on the item it was cast on, and
\* only if both sides agreed to that.
SpellsFallAsAgreed ==
    \A i \in enchanted' \ enchanted :
        \E p, q \in Players :
            Agreed(p, q) /\ owner[i] = p /\ offer[p].shown = i /\ offer[q].spell = i

\* Items, money and spells change hands by one exchange that both sides agreed
\* to, and never otherwise.
ExchangesAreAgreed ==
    [][ItemsMoveAsAgreed /\ MoneyMovesAsAgreed /\ SpellsFallAsAgreed]_vars
==============================================================================
