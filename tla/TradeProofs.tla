----------------------------- MODULE TradeProofs -----------------------------
(***************************************************************************)
(* What the two sides of a trade may rely on, for any number of players    *)
(* and items and any amount of money.                                      *)
(***************************************************************************)
EXTENDS Trade, FiniteSetTheorems, WellFoundedInduction, TLAPS

\* The two trade properties with the types split into what the handlers'
\* TradeData hold and what the players own.  Neither property is inductive
\* alone: an acceptance survives a step only because the step takes back both
\* acceptances of a pair, and that needs each to name the other.
TradeOK ==
    /\ trader \in [Players -> Players \cup {None}]
    /\ offer \in [Players -> Offers]
    /\ accepted \in [Players -> BOOLEAN]
    /\ seen \in [Players -> (Offers \X Offers) \cup {<<>>}]
    /\ \A p \in Players :
           trader[p] # None => trader[p] # p /\ trader[trader[p]] = p
    /\ AcceptanceIsOfThisOffer

GoodsOK ==
    /\ money \in [Players -> 0..(MAX_MONEY_AMOUNT - 1)] /\ spent \in Nat
    /\ owner \in [Items -> Players \cup {World, Gone, Lost}]
    /\ bound \subseteq Items /\ enchanted \subseteq Items

\* A spell that waits in an offer was cast on what the partner still shows.
SpellsOK ==
    \A p \in Players : offer[p].spell # None =>
        trader[p] # None /\ offer[p].spell = offer[trader[p]].shown

IInv == TradeOK /\ SpellsOK /\ GoodsOK

\* The two trade properties are parts of the inductive invariant.
LEMMA Split == IInv => TradesArePaired /\ AcceptanceIsOfThisOffer
  BY DEF IInv, TradeOK, GoodsOK, TradesArePaired, TypeOK

\* A trade starts with a well-formed offer on each side.
LEMMA NoOfferIsOffer == NoOffer \in Offers
  BY TradeAssumption DEF NoOffer, Offers

\* Nobody trades at the start.
LEMMA IInvInit == Init => IInv
<1> SUFFICES ASSUME Init PROVE IInv
  OBVIOUS
<1>1. TradeOK
  BY NoOfferIsOffer DEF Init, TradeOK, AcceptanceIsOfThisOffer
<1>2. GoodsOK
  BY TradeAssumption DEF Init, GoodsOK
<1>3. SpellsOK
  BY DEF Init, SpellsOK, NoOffer
<1>4. QED
  BY <1>1, <1>2, <1>3 DEF IInv

------------------------------------------------------------------------------
(* The ways a handler leaves the two TradeData.                             *)

\* Acceptances are only taken back; the offers of those who still accept, and
\* of their partners, are left as they are.
LEMMA RetractKeeps ==
    ASSUME NEW S, TradeOK, Retract(S), UNCHANGED trader, offer' \in [Players -> Offers],
           \A p \in Players \ S : accepted[p] =>
               offer'[p] = offer[p] /\ offer'[trader[p]] = offer[trader[p]]
    PROVE  TradeOK'
<1>1. /\ accepted' \in [Players -> BOOLEAN]
      /\ seen' \in [Players -> (Offers \X Offers) \cup {<<>>}]
  BY DEF TradeOK, Retract
<1>2. AcceptanceIsOfThisOffer'
  <2> SUFFICES ASSUME NEW p \in Players, accepted'[p]
               PROVE  trader'[p] # None /\ seen'[p] = <<offer'[p], offer'[trader'[p]]>>
    BY DEF AcceptanceIsOfThisOffer
  <2>1. accepted[p] /\ p \notin S /\ seen'[p] = seen[p]
    BY DEF Retract
  <2>2. trader[p] # None /\ seen[p] = <<offer[p], offer[trader[p]]>>
    BY <2>1 DEF TradeOK, AcceptanceIsOfThisOffer
  <2>3. QED
    BY <2>1, <2>2
<1>3. QED
  BY <1>1, <1>2 DEF TradeOK

\* A pair takes back both acceptances when its offers change.
LEMMA PairChangeKeeps ==
    ASSUME NEW p \in Players, TradeOK, trader[p] # None, UNCHANGED trader,
           Retract({p, trader[p]}), offer' \in [Players -> Offers],
           \A r \in Players \ {p, trader[p]} : offer'[r] = offer[r]
    PROVE  TradeOK'
<1>1. \A r \in Players \ {p, trader[p]} : accepted[r] =>
          offer'[r] = offer[r] /\ offer'[trader[r]] = offer[trader[r]]
  <2> SUFFICES ASSUME NEW r \in Players \ {p, trader[p]}, accepted[r]
               PROVE  trader[r] \in Players \ {p, trader[p]}
    OBVIOUS
  <2>1. trader[r] # None /\ trader[r] \in Players
    BY DEF TradeOK, AcceptanceIsOfThisOffer
  <2>2. trader[trader[r]] = r /\ trader[trader[p]] = p
    BY <2>1 DEF TradeOK
  <2>3. QED
    BY <2>1, <2>2
<1>2. QED
  BY <1>1, RetractKeeps

\* The same for the one form in which the handlers change an offer.
LEMMA ChangeKeeps ==
    ASSUME NEW p \in Players, NEW new \in Offers, TradeOK, trader[p] # None,
           Change(p, new)
    PROVE  TradeOK'
<1>1. /\ offer' \in [Players -> Offers]
      /\ \A r \in Players \ {p, trader[p]} : offer'[r] = offer[r]
      /\ Retract({p, trader[p]}) /\ UNCHANGED trader
  BY DEF Change, TradeOK
<1>2. QED
  BY <1>1, PairChangeKeeps

\* A pair is dissolved, and nobody else was part of it.
LEMMA CloseKeeps ==
    ASSUME NEW p \in Players, TradeOK, trader[p] # None, CloseTrade(p)
    PROVE  TradeOK'
<1> DEFINE q == trader[p]
<1>1. q \in Players /\ q # p /\ trader[q] = p
  BY DEF TradeOK
<1>2. /\ trader' = [trader EXCEPT ![p] = None, ![q] = None]
      /\ offer' = [offer EXCEPT ![p] = NoOffer, ![q] = NoOffer]
      /\ Retract({p, q})
  BY DEF CloseTrade
<1>3. /\ trader' \in [Players -> Players \cup {None}]
      /\ offer' \in [Players -> Offers]
      /\ accepted' \in [Players -> BOOLEAN]
      /\ seen' \in [Players -> (Offers \X Offers) \cup {<<>>}]
  BY <1>2, NoOfferIsOffer DEF TradeOK, Retract
<1>4. ASSUME NEW r \in Players \ {p, q}, trader[r] # None
      PROVE  trader[r] \in Players \ {p, q} /\ trader[r] # r /\ trader[trader[r]] = r
  BY <1>1, <1>4 DEF TradeOK
<1>5. \A r \in Players :
          trader'[r] # None => trader'[r] # r /\ trader'[trader'[r]] = r
  <2> SUFFICES ASSUME NEW r \in Players, trader'[r] # None
               PROVE  trader'[r] # r /\ trader'[trader'[r]] = r
    OBVIOUS
  <2>1. r \notin {p, q} /\ trader'[r] = trader[r]
    BY <1>1, <1>2 DEF TradeOK
  <2>2. QED
    BY <1>2, <1>4, <2>1 DEF TradeOK
<1>6. AcceptanceIsOfThisOffer'
  <2> SUFFICES ASSUME NEW r \in Players, accepted'[r]
               PROVE  trader'[r] # None /\ seen'[r] = <<offer'[r], offer'[trader'[r]]>>
    BY DEF AcceptanceIsOfThisOffer
  <2>1. r \notin {p, q} /\ accepted[r] /\ seen'[r] = seen[r]
    BY <1>2 DEF Retract
  <2>2. trader[r] # None /\ seen[r] = <<offer[r], offer[trader[r]]>>
    BY <2>1 DEF TradeOK, AcceptanceIsOfThisOffer
  <2>3. trader'[r] = trader[r] /\ offer'[r] = offer[r]
    BY <1>2, <2>1 DEF TradeOK
  <2>4. offer'[trader[r]] = offer[trader[r]]
    BY <1>2, <1>4, <2>1, <2>2 DEF TradeOK
  <2>5. QED
    BY <2>1, <2>2, <2>3, <2>4
<1>7. QED
  BY <1>3, <1>5, <1>6 DEF TradeOK

------------------------------------------------------------------------------
(* The waiting spells, in the same order.                                    *)

\* The partner of a partner is oneself; nobody else names either of the two.
LEMMA OutsideAPair ==
    ASSUME NEW p \in Players, TradeOK, trader[p] # None,
           NEW r \in Players \ {p, trader[p]}, trader[r] # None
    PROVE  trader[r] \in Players \ {p, trader[p]}
<1>1. trader[r] \in Players /\ trader[trader[r]] = r /\ trader[trader[p]] = p
  BY DEF TradeOK
<1>2. QED
  BY <1>1

\* A changed offer keeps the shown item, and drops the waiting spell or casts it
\* on what the partner shows.
LEMMA ChangeKeepsSpells ==
    ASSUME NEW p \in Players, NEW new \in Offers, TradeOK, SpellsOK, trader[p] # None,
           new.shown = offer[p].shown, new.spell \in {None, offer[trader[p]].shown},
           Change(p, new)
    PROVE  SpellsOK'
<1> SUFFICES ASSUME NEW r \in Players, offer'[r].spell # None
             PROVE  trader'[r] # None /\ offer'[r].spell = offer'[trader'[r]].shown
  BY DEF SpellsOK
<1>1. /\ trader' = trader /\ offer' = [offer EXCEPT ![p] = new]
      /\ \A s \in Players : offer'[s].shown = offer[s].shown
  BY DEF Change, TradeOK
<1>2. CASE r = p
  <2>1. trader[p] \in Players /\ offer'[p] = new
    BY <1>1 DEF TradeOK
  <2>2. QED
    BY <1>1, <1>2, <2>1
<1>3. CASE r # p
  <2>1. offer'[r] = offer[r] /\ trader[r] # None /\ trader[r] \in Players
    BY <1>1, <1>3 DEF SpellsOK, TradeOK
  <2>2. QED
    BY <1>1, <2>1 DEF SpellsOK
<1>4. QED
  BY <1>2, <1>3

\* TradeCancel leaves no waiting spell behind.
LEMMA CloseKeepsSpells ==
    ASSUME NEW p \in Players, TradeOK, SpellsOK, trader[p] # None, CloseTrade(p)
    PROVE  SpellsOK'
<1> SUFFICES ASSUME NEW r \in Players, offer'[r].spell # None
             PROVE  trader'[r] # None /\ offer'[r].spell = offer'[trader'[r]].shown
  BY DEF SpellsOK
<1>1. /\ trader' = [trader EXCEPT ![p] = None, ![trader[p]] = None]
      /\ offer' = [offer EXCEPT ![p] = NoOffer, ![trader[p]] = NoOffer]
  BY DEF CloseTrade
<1>2. r \notin {p, trader[p]}
  BY <1>1 DEF TradeOK, NoOffer
<1>3. offer'[r] = offer[r] /\ trader'[r] = trader[r]
  BY <1>1, <1>2 DEF TradeOK
<1>4. trader[r] # None /\ offer[r].spell = offer[trader[r]].shown
  BY <1>3 DEF SpellsOK
<1>5. offer'[trader[r]] = offer[trader[r]]
  BY <1>1, <1>2, <1>4, OutsideAPair DEF TradeOK
<1>6. QED
  BY <1>3, <1>4, <1>5

------------------------------------------------------------------------------
(* The actions.                                                              *)

\* A step that leaves the TradeData alone.
LEMMA TradeUntouched ==
    ASSUME TradeOK, SpellsOK, UNCHANGED tradeVars
    PROVE  TradeOK' /\ SpellsOK'
  BY DEF TradeOK, SpellsOK, AcceptanceIsOfThisOffer, tradeVars

\* A step that leaves purses, items and enchantments alone.
LEMMA GoodsUntouched == ASSUME GoodsOK, UNCHANGED goods PROVE GoodsOK'
  BY DEF GoodsOK, goods

\* A step that only takes acceptances back.
LEMMA OnlyRetracts ==
    ASSUME NEW S, TradeOK, SpellsOK, Retract(S), UNCHANGED <<trader, offer>>
    PROVE  TradeOK' /\ SpellsOK'
<1>1. offer' \in [Players -> Offers]
  BY DEF TradeOK
<1>2. QED
  BY <1>1, RetractKeeps DEF SpellsOK

\* Two players who are free become a pair; nobody else named either of them.
LEMMA InitiateStep ==
    ASSUME NEW p \in Players, NEW q \in Players, IInv, HandleInitiateTrade(p, q)
    PROVE  IInv'
<1>1. /\ p # q /\ trader[p] = None /\ trader[q] = None
      /\ trader' = [trader EXCEPT ![p] = q, ![q] = p]
      /\ offer' = [offer EXCEPT ![p] = NoOffer, ![q] = NoOffer]
      /\ Retract({p, q}) /\ UNCHANGED goods
  BY DEF HandleInitiateTrade
<1>2. /\ trader' \in [Players -> Players \cup {None}]
      /\ offer' \in [Players -> Offers]
      /\ accepted' \in [Players -> BOOLEAN]
      /\ seen' \in [Players -> (Offers \X Offers) \cup {<<>>}]
  BY <1>1, NoOfferIsOffer DEF IInv, TradeOK, Retract
<1>3. ASSUME NEW r \in Players \ {p, q}, trader[r] # None
      PROVE  trader[r] \in Players \ {p, q} /\ trader[r] # r /\ trader[trader[r]] = r
  BY <1>1, <1>3, TradeAssumption DEF IInv, TradeOK
<1>4. \A r \in Players :
          trader'[r] # None => trader'[r] # r /\ trader'[trader'[r]] = r
  <2> SUFFICES ASSUME NEW r \in Players, trader'[r] # None
               PROVE  trader'[r] # r /\ trader'[trader'[r]] = r
    OBVIOUS
  <2>1. CASE r \in {p, q}
    BY <1>1, <2>1 DEF IInv, TradeOK
  <2>2. CASE r \notin {p, q}
    <3>1. trader'[r] = trader[r]
      BY <1>1, <2>2 DEF IInv, TradeOK
    <3>2. QED
      BY <1>1, <1>3, <2>2, <3>1 DEF IInv, TradeOK
  <2>3. QED
    BY <2>1, <2>2
<1>5. ASSUME NEW r \in Players \ {p, q}, trader[r] # None
      PROVE  /\ trader'[r] = trader[r] /\ offer'[r] = offer[r]
             /\ offer'[trader[r]] = offer[trader[r]]
  BY <1>1, <1>3, <1>5 DEF IInv, TradeOK
<1>6. AcceptanceIsOfThisOffer'
  <2> SUFFICES ASSUME NEW r \in Players, accepted'[r]
               PROVE  trader'[r] # None /\ seen'[r] = <<offer'[r], offer'[trader'[r]]>>
    BY DEF AcceptanceIsOfThisOffer
  <2>1. r \notin {p, q} /\ accepted[r] /\ seen'[r] = seen[r]
    BY <1>1 DEF Retract
  <2>2. trader[r] # None /\ seen[r] = <<offer[r], offer[trader[r]]>>
    BY <2>1 DEF IInv, TradeOK, AcceptanceIsOfThisOffer
  <2>3. QED
    BY <1>5, <2>1, <2>2
<1>7. SpellsOK'
  <2> SUFFICES ASSUME NEW r \in Players, offer'[r].spell # None
               PROVE  trader'[r] # None /\ offer'[r].spell = offer'[trader'[r]].shown
    BY DEF SpellsOK
  <2>1. r \notin {p, q} /\ offer'[r] = offer[r]
    BY <1>1 DEF IInv, TradeOK, NoOffer
  <2>2. trader[r] # None /\ offer[r].spell = offer[trader[r]].shown
    BY <2>1 DEF IInv, SpellsOK
  <2>3. QED
    BY <1>5, <2>1, <2>2
<1>8. TradeOK'
  BY <1>2, <1>4, <1>6 DEF TradeOK
<1>9. QED
  BY <1>1, <1>7, <1>8, GoodsUntouched DEF IInv

\* HandleCancelTradeOpcode, and every other way to TradeCancel.
LEMMA CancelStep ==
    ASSUME NEW p \in Players, IInv, TradeCancel(p)
    PROVE  IInv'
  BY CloseKeeps, CloseKeepsSpells, GoodsUntouched DEF TradeCancel, IInv

\* Every offer the handlers of p may leave: a new amount, new items without
\* the waiting spell, or the spell.
LEMMA ChangeSteps ==
    ASSUME NEW p \in Players, IInv,
           \/ HandleSetTradeGold(p) \/ HandleSetTradeItem(p)
           \/ HandleClearTradeItem(p) \/ CastInTrade(p)
    PROVE  IInv'
<1>1. offer[p] \in Offers /\ trader[p] \in Players \cup {None}
  BY DEF IInv, TradeOK
<1>2. ASSUME NEW new \in Offers, trader[p] # None, Change(p, new),
             new.shown = offer[p].shown, new.spell \in {None, offer[trader[p]].shown}
      PROVE  IInv'
  <2>1. TradeOK' /\ SpellsOK'
    BY <1>2, ChangeKeeps, ChangeKeepsSpells DEF IInv
  <2>2. GoodsOK'
    BY <1>2, GoodsUntouched DEF Change, IInv
  <2>3. QED
    BY <2>1, <2>2 DEF IInv
<1>3. CASE HandleSetTradeGold(p)
  <2>1. PICK amount \in 0..money[p] : Change(p, [offer[p] EXCEPT !.money = amount])
    BY <1>3 DEF HandleSetTradeGold
  <2>2. money[p] \in 0..(MAX_MONEY_AMOUNT - 1)
    BY DEF IInv, GoodsOK
  <2>3. [offer[p] EXCEPT !.money = amount] \in Offers
    BY <1>1, <2>2, TradeAssumption DEF Offers
  <2>4. offer[p].spell \in {None, offer[trader[p]].shown}
    BY DEF IInv, SpellsOK
  <2>5. trader[p] # None
    BY <1>3 DEF HandleSetTradeGold
  <2>6. QED
    BY <1>1, <1>2, <2>1, <2>3, <2>4, <2>5 DEF Offers
<1>4. CASE HandleSetTradeItem(p)
  <2>1. PICK i \in Items, j \in Items \cup {None} :
            Change(p, [offer[p] EXCEPT !.items = (@ \ {j}) \cup {i}, !.spell = None])
    BY <1>1, <1>4 DEF HandleSetTradeItem, Inventory, Offers
  <2>2. [offer[p] EXCEPT !.items = (@ \ {j}) \cup {i}, !.spell = None] \in Offers
    BY <1>1 DEF Offers
  <2>3. trader[p] # None
    BY <1>4 DEF HandleSetTradeItem
  <2>4. QED
    BY <1>1, <1>2, <2>1, <2>2, <2>3 DEF Offers
<1>5. CASE HandleClearTradeItem(p)
  <2>1. PICK i : Change(p, [offer[p] EXCEPT !.items = @ \ {i}, !.spell = None])
    BY <1>5 DEF HandleClearTradeItem
  <2>2. [offer[p] EXCEPT !.items = @ \ {i}, !.spell = None] \in Offers
    BY <1>1 DEF Offers
  <2>3. trader[p] # None
    BY <1>5 DEF HandleClearTradeItem
  <2>4. QED
    BY <1>1, <1>2, <2>1, <2>2, <2>3 DEF Offers
<1>6. CASE CastInTrade(p)
  <2>1. /\ trader[p] # None /\ Shown(trader[p]) # None
        /\ Change(p, [offer[p] EXCEPT !.spell = Shown(trader[p])])
    BY <1>6 DEF CastInTrade
  <2>2. Shown(trader[p]) = offer[trader[p]].shown
    BY <2>1 DEF Shown
  <2>3. offer[trader[p]] \in Offers
    BY <1>1, <2>1 DEF IInv, TradeOK
  <2>4. [offer[p] EXCEPT !.spell = Shown(trader[p])] \in Offers
    BY <1>1, <2>2, <2>3 DEF Offers
  <2>5. QED
    BY <1>1, <1>2, <2>1, <2>2, <2>4 DEF Offers
<1>7. QED
  BY <1>3, <1>4, <1>5, <1>6

\* Showing another item drops the spells both had waiting.
LEMMA ShowStep ==
    ASSUME NEW p \in Players, IInv, HandleShowItem(p)
    PROVE  IInv'
<1> DEFINE q == trader[p]
<1>1. PICK i \in Items \cup {None} :
          offer' = [offer EXCEPT ![p].shown = i, ![p].spell = None, ![q].spell = None]
  BY DEF HandleShowItem, Inventory
<1>2. q # None /\ Retract({p, q}) /\ UNCHANGED <<trader, goods>>
  BY DEF HandleShowItem
<1>3. q \in Players /\ q # p /\ trader[q] = p
  BY <1>2 DEF IInv, TradeOK
<1>4. /\ offer' = [r \in Players |->
                      IF r = p THEN [offer[p] EXCEPT !.shown = i, !.spell = None]
                      ELSE IF r = q THEN [offer[q] EXCEPT !.spell = None] ELSE offer[r]]
  BY <1>1, <1>3 DEF IInv, TradeOK
<1>5. offer[p] \in Offers /\ offer[q] \in Offers
  BY <1>3 DEF IInv, TradeOK
<1>6. /\ [offer[p] EXCEPT !.shown = i, !.spell = None] \in Offers
      /\ [offer[q] EXCEPT !.spell = None] \in Offers
      /\ [offer[p] EXCEPT !.shown = i, !.spell = None].spell = None
      /\ [offer[q] EXCEPT !.spell = None].spell = None
  BY <1>5 DEF Offers
<1>7. offer' \in [Players -> Offers]
  BY <1>4, <1>6 DEF IInv, TradeOK
<1>8. TradeOK'
  BY <1>2, <1>4, <1>7, PairChangeKeeps DEF IInv
<1>9. SpellsOK'
  <2> SUFFICES ASSUME NEW r \in Players, offer'[r].spell # None
               PROVE  trader[r] # None /\ offer'[r].spell = offer'[trader[r]].shown
    BY <1>2 DEF SpellsOK
  <2>1. r \notin {p, q} /\ offer'[r] = offer[r]
    BY <1>3, <1>4, <1>6
  <2>2. trader[r] # None /\ offer[r].spell = offer[trader[r]].shown
    BY <2>1 DEF IInv, SpellsOK
  <2>3. trader[r] \in Players \ {p, q}
    BY <1>2, <2>1, <2>2, OutsideAPair DEF IInv
  <2>4. QED
    BY <1>4, <2>1, <2>2, <2>3
<1>10. QED
  BY <1>2, <1>8, <1>9, GoodsUntouched DEF IInv

\* p gives his acceptance while S loses theirs.
LEMMA AcceptKeeps ==
    ASSUME NEW p \in Players, NEW S, TradeOK, SpellsOK, trader[p] # None, Accept(p, S),
           UNCHANGED <<trader, offer>>
    PROVE  TradeOK' /\ SpellsOK'
<1>1. trader[p] \in Players /\ <<offer[p], offer[trader[p]]>> \in Offers \X Offers
  BY DEF TradeOK
<1>2. /\ accepted' \in [Players -> BOOLEAN]
      /\ seen' \in [Players -> (Offers \X Offers) \cup {<<>>}]
  BY <1>1 DEF TradeOK, Accept
<1>3. AcceptanceIsOfThisOffer'
  BY DEF TradeOK, Accept, AcceptanceIsOfThisOffer
<1>4. QED
  BY <1>2, <1>3 DEF TradeOK, SpellsOK

\* An acceptance that fails a test, or waits for the partner.
LEMMA AcceptRefusedStep ==
    ASSUME NEW p \in Players, IInv, AcceptRefused(p) \/ AcceptWaits(p)
    PROVE  IInv'
<1>1. trader[p] # None /\ UNCHANGED <<trader, offer, goods>>
  BY DEF AcceptRefused, AcceptWaits
<1>2. Retract({p}) \/ Accept(p, {trader[p]}) \/ Accept(p, {})
  <2>1. Obstacle(p, trader[p]) \in {"mine", "his", "items", "none"}
    BY DEF Obstacle
  <2>2. QED
    BY <2>1 DEF AcceptRefused, AcceptWaits
<1>3. TradeOK' /\ SpellsOK'
  BY <1>1, <1>2, OnlyRetracts, AcceptKeeps DEF IInv
<1>4. QED
  BY <1>1, <1>3, GoodsUntouched DEF IInv

\* A spell that cannot be cast is taken out of the offer with both acceptances.
LEMMA SpellFailsStep ==
    ASSUME NEW p \in Players, IInv, AcceptSpellFails(p)
    PROVE  IInv'
<1>1. trader[p] # None /\ Retract({p, trader[p]}) /\ UNCHANGED <<trader, goods>>
  BY DEF AcceptSpellFails, Agree
<1>2. trader[p] \in Players
  BY <1>1 DEF IInv, TradeOK
<1>3. PICK s \in {p, trader[p]} : offer' = [offer EXCEPT ![s].spell = None]
  BY DEF AcceptSpellFails
<1>4. offer[s] \in Offers /\ offer' = [offer EXCEPT ![s] = [offer[s] EXCEPT !.spell = None]]
  BY <1>2, <1>3 DEF IInv, TradeOK
<1>5. /\ [offer[s] EXCEPT !.spell = None] \in Offers
      /\ [offer[s] EXCEPT !.spell = None].spell = None
      /\ [offer[s] EXCEPT !.spell = None].shown = offer[s].shown
  BY <1>4 DEF Offers
<1>6. /\ offer' \in [Players -> Offers]
      /\ \A r \in Players \ {p, trader[p]} : offer'[r] = offer[r]
      /\ \A r \in Players : /\ offer'[r].shown = offer[r].shown
                            /\ offer'[r].spell \in {None, offer[r].spell}
  BY <1>2, <1>4, <1>5 DEF IInv, TradeOK
<1>7. TradeOK'
  BY <1>1, <1>6, PairChangeKeeps DEF IInv
<1>8. SpellsOK'
  <2> SUFFICES ASSUME NEW r \in Players, offer'[r].spell # None
               PROVE  trader[r] # None /\ offer'[r].spell = offer'[trader[r]].shown
    BY <1>1 DEF SpellsOK
  <2>1. offer'[r].spell = offer[r].spell
    BY <1>6
  <2>2. trader[r] # None /\ trader[r] \in Players /\ offer[r].spell = offer[trader[r]].shown
    BY <2>1 DEF IInv, SpellsOK, TradeOK
  <2>3. QED
    BY <1>6, <2>1, <2>2
<1>9. QED
  BY <1>1, <1>7, <1>8, GoodsUntouched DEF IInv

\* What is known when a trade is carried out: both sides agreed to the offers
\* of this moment, and the tests passed by the one who accepts last hold for
\* both, so that no amount is cut off by ModifyMoney.
LEMMA Exchange ==
    ASSUME NEW p \in Players, IInv, AcceptCompletes(p)
    PROVE  LET q == trader[p] IN
           /\ q \in Players /\ q # None /\ q # p /\ trader[q] = p
           /\ Agreed(p, q) /\ Agreed(q, p)
           /\ (Traded(p) \cup Traded(q)) \cap bound = {}
           /\ money[p] - offer[p].money + offer[q].money \in 0..(MAX_MONEY_AMOUNT - 1)
           /\ money[q] - offer[q].money + offer[p].money \in 0..(MAX_MONEY_AMOUNT - 1)
           /\ money' = [money EXCEPT ![p] = money[p] - offer[p].money + offer[q].money,
                                     ![q] = money[q] - offer[q].money + offer[p].money]
<1> DEFINE q == trader[p]
<1>1. /\ q # None /\ Obstacle(p, q) = "none" /\ accepted[q]
  BY DEF AcceptCompletes, Agree
<1>2. q \in Players /\ q # p /\ trader[q] = p
  BY <1>1 DEF IInv, TradeOK
<1>3. seen[q] = <<offer[q], offer[p]>>
  BY <1>1, <1>2 DEF IInv, TradeOK, AcceptanceIsOfThisOffer
<1>4. Agreed(p, q) /\ Agreed(q, p)
  BY <1>2, <1>3 DEF Agreed
<1>5. /\ money[p] \in Nat /\ money[p] < MAX_MONEY_AMOUNT
      /\ money[q] \in Nat /\ money[q] < MAX_MONEY_AMOUNT
      /\ MAX_MONEY_AMOUNT \in Nat
  BY <1>2, TradeAssumption DEF IInv, GoodsOK
<1>6. offer[p].money \in Nat /\ offer[q].money \in Nat
  BY <1>2, TradeAssumption DEF IInv, TradeOK, Offers
<1>7. /\ ~(money[p] < offer[p].money) /\ ~(money[q] < offer[q].money)
      /\ ~(money[p] >= MAX_MONEY_AMOUNT - offer[q].money)
      /\ ~(money[q] >= MAX_MONEY_AMOUNT - offer[p].money)
      /\ (Traded(p) \cup Traded(q)) \cap bound = {}
  BY <1>1 DEF Obstacle
<1>8. ASSUME NEW m \in Nat, NEW out \in Nat, NEW in \in Nat, m < MAX_MONEY_AMOUNT,
             ~(m < out), ~(m >= MAX_MONEY_AMOUNT - in)
      PROVE  /\ Receive(in, Pay(out, m)) = m - out + in
             /\ m - out + in \in 0..(MAX_MONEY_AMOUNT - 1)
  <2>1. Pay(out, m) = m - out
    BY <1>8 DEF Pay
  <2>2. m - out < MAX_MONEY_AMOUNT - in
    BY <1>5, <1>8
  <2>3. Receive(in, Pay(out, m)) = m - out + in
    BY <2>1, <2>2 DEF Receive
  <2>4. QED
    BY <1>5, <1>8, <2>2, <2>3
<1>9. money' = [money EXCEPT ![p] = Receive(offer[q].money, Pay(offer[p].money, money[p])),
                            ![q] = Receive(offer[p].money, Pay(offer[q].money, money[q]))]
  BY <1>2 DEF AcceptCompletes, IInv, GoodsOK
<1>10. /\ Receive(offer[q].money, Pay(offer[p].money, money[p]))
              = money[p] - offer[p].money + offer[q].money
       /\ money[p] - offer[p].money + offer[q].money \in 0..(MAX_MONEY_AMOUNT - 1)
  BY <1>5, <1>6, <1>7, <1>8
<1>11. /\ Receive(offer[p].money, Pay(offer[q].money, money[q]))
              = money[q] - offer[q].money + offer[p].money
       /\ money[q] - offer[q].money + offer[p].money \in 0..(MAX_MONEY_AMOUNT - 1)
  BY <1>5, <1>6, <1>7, <1>8
<1>12. QED
  BY <1>1, <1>2, <1>4, <1>7, <1>9, <1>10, <1>11

\* The exchange keeps every amount under MAX_MONEY_AMOUNT and closes the trade.
LEMMA AcceptCompletesStep ==
    ASSUME NEW p \in Players, IInv, AcceptCompletes(p)
    PROVE  IInv'
<1> DEFINE q == trader[p]
<1>1. TradeOK' /\ SpellsOK'
  BY Exchange, CloseKeeps, CloseKeepsSpells DEF AcceptCompletes, IInv
<1>2. money' \in [Players -> 0..(MAX_MONEY_AMOUNT - 1)]
  BY Exchange DEF IInv, GoodsOK
<1>3. owner' \in [Items -> Players \cup {World, Gone, Lost}]
  <2>1. Stored(p, q) \in Players \cup {Lost} /\ Stored(q, p) \in Players \cup {Lost}
    BY Exchange DEF Stored
  <2>2. QED
    BY <2>1 DEF AcceptCompletes, IInv, GoodsOK
<1>4. enchanted' \subseteq Items
  <2>1. /\ offer[p].spell # None => Shown(q) \in Items
        /\ offer[q].spell # None => Shown(p) \in Items
    BY DEF AcceptCompletes, SpellsReady, Shown, Inventory
  <2>2. QED
    BY <2>1 DEF AcceptCompletes, IInv, GoodsOK
<1>5. bound' = bound /\ spent' = spent
  BY DEF AcceptCompletes
<1>6. GoodsOK'
  BY <1>2, <1>3, <1>4, <1>5 DEF IInv, GoodsOK
<1>7. QED
  BY <1>1, <1>6 DEF IInv

\* Spending, binding, using up and picking up leave the TradeData alone.
LEMMA LifeSteps ==
    ASSUME NEW p \in Players, IInv, Spend(p) \/ Bind(p) \/ UseUp(p) \/ PickUp(p)
    PROVE  IInv'
<1>1. UNCHANGED tradeVars
  BY DEF Spend, Bind, UseUp, PickUp
<1>2. GoodsOK'
  <2>1. CASE Spend(p)
    BY <2>1, TradeAssumption DEF Spend, IInv, GoodsOK
  <2>2. CASE Bind(p)
    BY <2>2 DEF Bind, Inventory, IInv, GoodsOK
  <2>3. CASE UseUp(p)
    BY <2>3 DEF UseUp, Inventory, IInv, GoodsOK
  <2>4. CASE PickUp(p)
    BY <2>4 DEF PickUp, Inventory, IInv, GoodsOK
  <2>5. QED
    BY <2>1, <2>2, <2>3, <2>4
<1>3. QED
  BY <1>1, <1>2, TradeUntouched DEF IInv

\* Every handler keeps the inductive invariant.
LEMMA IInvNext == IInv /\ [Next]_vars => IInv'
<1> SUFFICES ASSUME IInv, [Next]_vars PROVE IInv'
  OBVIOUS
<1>1. CASE UNCHANGED vars
  BY <1>1, TradeUntouched, GoodsUntouched DEF IInv, vars
<1>2. ASSUME NEW p \in Players, NEW q \in Players, HandleInitiateTrade(p, q) PROVE IInv'
  BY <1>2, InitiateStep
<1>3. ASSUME NEW p \in Players, TradeCancel(p) PROVE IInv'
  BY <1>3, CancelStep
<1>4. ASSUME NEW p \in Players,
             \/ HandleSetTradeGold(p) \/ HandleSetTradeItem(p)
             \/ HandleClearTradeItem(p) \/ CastInTrade(p)
      PROVE  IInv'
  BY <1>4, ChangeSteps
<1>5. ASSUME NEW p \in Players, HandleShowItem(p) PROVE IInv'
  BY <1>5, ShowStep
<1>6. ASSUME NEW p \in Players, HandleAcceptTrade(p) PROVE IInv'
  <2>1. CASE AcceptTooFar(p) \/ AcceptNoRoom(p)
    BY <2>1, OnlyRetracts, GoodsUntouched DEF AcceptTooFar, AcceptNoRoom, IInv
  <2>2. CASE AcceptRefused(p) \/ AcceptWaits(p)
    BY <2>2, AcceptRefusedStep
  <2>3. CASE AcceptSpellFails(p)
    BY <2>3, SpellFailsStep
  <2>4. CASE AcceptCompletes(p)
    BY <2>4, AcceptCompletesStep
  <2>5. QED
    BY <1>6, <2>1, <2>2, <2>3, <2>4 DEF HandleAcceptTrade
<1>7. ASSUME NEW p \in Players, HandleUnacceptTrade(p) PROVE IInv'
  BY <1>7, OnlyRetracts, GoodsUntouched DEF HandleUnacceptTrade, IInv
<1>8. ASSUME NEW p \in Players, Spend(p) \/ Bind(p) \/ UseUp(p) \/ PickUp(p) PROVE IInv'
  BY <1>8, LifeSteps
<1>9. QED
  BY <1>1, <1>2, <1>3, <1>4, <1>5, <1>6, <1>7, <1>8 DEF Next

\* The inductive invariant holds in every reachable state.
THEOREM SpecIInv == Spec => []IInv
  BY IInvInit, IInvNext, PTL DEF Spec

\* The two TradeData of a trade exist together and name each other, so that
\* the handlers may follow GetTraderData() without a test.
THEOREM Pairing == Spec => []TradesArePaired
<1>1. IInv => TradesArePaired
  BY Split
<1>2. QED
  BY <1>1, SpecIInv, PTL

\* An acceptance stands for the two offers its player saw when he gave it.
THEOREM AcceptanceHolds == Spec => []AcceptanceIsOfThisOffer
<1>1. IInv => AcceptanceIsOfThisOffer
  BY Split
<1>2. QED
  BY <1>1, SpecIInv, PTL

------------------------------------------------------------------------------
(* Only a trade that is carried out moves items, money or spells.            *)

\* The steps that touch what the players own.
LEMMA GoodsMovers ==
    ASSUME [Next]_vars
    PROVE  \/ UNCHANGED goods
           \/ \E p \in Players : AcceptCompletes(p) \/ Spend(p) \/ Bind(p) \/ UseUp(p) \/ PickUp(p)
<1>1. ASSUME NEW p \in Players,
             \/ \E q \in Players : HandleInitiateTrade(p, q)
             \/ TradeCancel(p)
             \/ HandleSetTradeGold(p) \/ HandleSetTradeItem(p)
             \/ HandleClearTradeItem(p) \/ HandleShowItem(p) \/ CastInTrade(p)
             \/ (HandleAcceptTrade(p) /\ ~AcceptCompletes(p)) \/ HandleUnacceptTrade(p)
      PROVE  UNCHANGED goods
  BY <1>1 DEF HandleInitiateTrade, TradeCancel, HandleSetTradeGold, HandleSetTradeItem,
     HandleClearTradeItem, HandleShowItem, CastInTrade, Change, HandleAcceptTrade,
     AcceptTooFar, AcceptRefused, AcceptWaits, AcceptSpellFails, AcceptNoRoom,
     HandleUnacceptTrade
<1>2. UNCHANGED vars => UNCHANGED goods
  BY DEF vars
<1>3. QED
  BY <1>1, <1>2 DEF Next

\* Every step but the exchange gives no item to a player except from the ground,
\* makes no purse grow and casts no waiting spell.
LEMMA OtherStepsMoveNothing ==
    ASSUME IInv, [Next]_vars, \A r \in Players : ~AcceptCompletes(r)
    PROVE  /\ enchanted' = enchanted
           /\ \A i \in Items :
                  owner'[i] = owner[i] \/ owner'[i] = Gone \/ owner[i] = World
           /\ \A r \in Players : money'[r] <= money[r]
<1>1. \A r \in Players : money[r] \in Int
  BY TradeAssumption DEF IInv, GoodsOK
<1>2. CASE UNCHANGED goods
  BY <1>1, <1>2 DEF goods
<1>3. ASSUME NEW p \in Players, Spend(p)
      PROVE  /\ UNCHANGED <<owner, enchanted>>
             /\ \A r \in Players : money'[r] <= money[r]
  BY <1>1, <1>3 DEF Spend, IInv, GoodsOK
<1>4. ASSUME NEW p \in Players, Bind(p) PROVE UNCHANGED <<money, owner, enchanted>>
  BY <1>4 DEF Bind
<1>5. ASSUME NEW p \in Players, UseUp(p) \/ PickUp(p)
      PROVE  /\ UNCHANGED <<money, enchanted>>
             /\ \A i \in Items :
                    owner'[i] = owner[i] \/ owner'[i] = Gone \/ owner[i] = World
  BY <1>5 DEF UseUp, PickUp, IInv, GoodsOK
<1>6. QED
  BY <1>1, <1>2, <1>3, <1>4, <1>5, GoodsMovers

\* HandleAcceptTrade moves only items that are in the agreed offers and not bound.
LEMMA ItemsStep == IInv /\ [Next]_vars => ItemsMoveAsAgreed
<1> SUFFICES ASSUME IInv, [Next]_vars, NEW i \in Items,
                    owner[i] \in Players, owner'[i] \in Players, owner[i] # owner'[i]
             PROVE  /\ Agreed(owner[i], owner'[i])
                    /\ i \in offer[owner[i]].items /\ i \notin bound
  BY DEF ItemsMoveAsAgreed
<1>1. PICK p \in Players : AcceptCompletes(p)
  BY OtherStepsMoveNothing, TradeAssumption
<1> DEFINE q == trader[p]
<1>2. owner'[i] = IF i \in Traded(p) THEN Stored(p, q)
                  ELSE IF i \in Traded(q) THEN Stored(q, p) ELSE owner[i]
  BY <1>1 DEF AcceptCompletes
<1>3. Stored(p, q) \in {q, Lost} /\ Stored(q, p) \in {p, Lost}
  BY DEF Stored
<1>4. \/ i \in Traded(p) /\ owner'[i] = q
      \/ i \in Traded(q) /\ owner'[i] = p
  BY <1>2, <1>3, TradeAssumption
<1>5. /\ i \in Traded(p) => owner[i] = p /\ i \in offer[p].items
      /\ i \in Traded(q) => owner[i] = q /\ i \in offer[q].items
  BY DEF Traded, Inventory
<1>6. Agreed(p, q) /\ Agreed(q, p) /\ (Traded(p) \cup Traded(q)) \cap bound = {}
  BY <1>1, Exchange
<1>7. QED
  BY <1>4, <1>5, <1>6

\* ModifyMoney moves exactly the two agreed amounts.
LEMMA MoneyStep == IInv /\ [Next]_vars => MoneyMovesAsAgreed
<1> SUFFICES ASSUME IInv, [Next]_vars, NEW r \in Players, money'[r] > money[r]
             PROVE  LET s == trader[r] IN
                    /\ s # None /\ Agreed(r, s)
                    /\ money'[r] + offer[r].money = money[r] + offer[s].money
                    /\ money'[s] + offer[s].money = money[s] + offer[r].money
  BY DEF MoneyMovesAsAgreed
<1>1. \A s \in Players : /\ money[s] \in Int /\ offer[s].money \in Int
                         /\ money \in [Players -> 0..(MAX_MONEY_AMOUNT - 1)]
  BY TradeAssumption DEF IInv, GoodsOK, TradeOK, Offers
<1>2. \E p \in Players : AcceptCompletes(p)
  <2>1. SUFFICES ASSUME \A p \in Players : ~AcceptCompletes(p) PROVE FALSE
    OBVIOUS
  <2>2. money'[r] <= money[r]
    BY <2>1, OtherStepsMoveNothing
  <2>3. money'[r] \in Int /\ money[r] \in Int
    BY <1>1, IInvNext, TradeAssumption DEF IInv, GoodsOK
  <2>4. QED
    BY <2>2, <2>3
<1>3. PICK p \in Players : AcceptCompletes(p)
  BY <1>2
<1> DEFINE q == trader[p]
<1>4. /\ q \in Players /\ q # None /\ q # p /\ trader[q] = p
      /\ Agreed(p, q) /\ Agreed(q, p)
      /\ money' = [money EXCEPT ![p] = money[p] - offer[p].money + offer[q].money,
                                ![q] = money[q] - offer[q].money + offer[p].money]
  BY <1>3, Exchange
<1>5. /\ money'[p] = money[p] - offer[p].money + offer[q].money
      /\ money'[q] = money[q] - offer[q].money + offer[p].money
      /\ r \notin {p, q} => money'[r] = money[r]
  BY <1>1, <1>4
<1>6. r \in {p, q}
  BY <1>1, <1>5
<1>7. /\ money'[p] + offer[p].money = money[p] + offer[q].money
      /\ money'[q] + offer[q].money = money[q] + offer[p].money
  BY <1>1, <1>4, <1>5
<1>8. CASE r = p
  BY <1>4, <1>7, <1>8
<1>9. CASE r = q
  <2>1. trader[r] = p /\ p # None
    BY <1>4, <1>9, TradeAssumption
  <2>2. QED
    BY <1>4, <1>7, <1>9, <2>1
<1>10. QED
  BY <1>6, <1>8, <1>9

\* The spells fall on the items they were cast on.
LEMMA SpellsStep == IInv /\ [Next]_vars => SpellsFallAsAgreed
<1> SUFFICES ASSUME IInv, [Next]_vars, NEW i \in enchanted' \ enchanted
             PROVE  \E p, q \in Players :
                        Agreed(p, q) /\ owner[i] = p /\ offer[p].shown = i /\ offer[q].spell = i
  BY DEF SpellsFallAsAgreed
<1>1. PICK p \in Players : AcceptCompletes(p)
  BY OtherStepsMoveNothing
<1> DEFINE q == trader[p]
<1>2. q \in Players /\ q # None /\ trader[q] = p /\ Agreed(p, q) /\ Agreed(q, p)
  BY <1>1, Exchange
<1>3. \/ offer[p].spell # None /\ Shown(q) # None /\ i = Shown(q)
      \/ offer[q].spell # None /\ Shown(p) # None /\ i = Shown(p)
  BY <1>1 DEF AcceptCompletes, SpellsReady
<1>4. \A r \in {p, q} : Shown(r) # None => offer[r].shown = Shown(r) /\ owner[Shown(r)] = r
  BY DEF Shown, Inventory
<1>5. /\ offer[p].spell # None => offer[p].spell = offer[q].shown
      /\ offer[q].spell # None => offer[q].spell = offer[p].shown
  BY <1>2 DEF IInv, SpellsOK
<1>6. QED
  BY <1>2, <1>3, <1>4, <1>5

\* Items, money and spells change hands by one exchange that both sides agreed
\* to, whatever happened to purses and bags since they agreed.
THEOREM ExchangeIsAgreed == Spec => ExchangesAreAgreed
<1>1. IInv /\ [Next]_vars => [ItemsMoveAsAgreed /\ MoneyMovesAsAgreed /\ SpellsFallAsAgreed]_vars
  BY ItemsStep, MoneyStep, SpellsStep
<1>2. QED
  BY <1>1, SpecIInv, PTL DEF Spec, ExchangesAreAgreed

------------------------------------------------------------------------------
(* Sums over finite sets.  The community modules fold by a recursive function *)
(* on sets; its equation is derived from their definition, and what follows   *)
(* is proved from minimal counterexamples.                                    *)

Some(S) == CHOOSE x \in S : TRUE
Summer(f, S, g) ==
    g = [T \in SUBSET S |-> IF T = {} THEN 0 ELSE f[Some(T)] + g[T \ {Some(T)}]]

\* Induction over finite sets: a bad one has a bad subset that is minimal.
LEMMA Least ==
    ASSUME NEW S, IsFiniteSet(S), NEW B, S \in B
    PROVE  \E T \in B \cap SUBSET S : \A U \in SUBSET T : U # T => U \notin B
<1>1. IsWellFoundedOn(StrictSubsetOrdering(S), FiniteSubsetsOf(S))
  BY FS_StrictSubsetOrderingWellFounded
<1>2. FiniteSubsetsOf(S) = SUBSET S
  BY FS_FiniteSubsetsOfFinite
<1> DEFINE C == B \cap SUBSET S
<1>0. C # {} /\ C \subseteq SUBSET S
  OBVIOUS
<1> HIDE DEF C
<1>3. \E T \in C : \A U \in C : ~(<<U, T>> \in StrictSubsetOrdering(S))
  BY <1>0, <1>1, <1>2, WFMin
<1>4. QED
  BY <1>3 DEF StrictSubsetOrdering, C

LEMMA SumUnfolds ==
    ASSUME NEW f, NEW S
    PROVE  SumFunctionOnSet(f, S) = (CHOOSE g : Summer(f, S, g))[S]
  BY DEF SumFunctionOnSet, FoldFunctionOnSet, MapThenFoldSet, Summer, Some

LEMMA SomeIn == ASSUME NEW T, T # {} PROVE Some(T) \in T
  BY DEF Some

\* What a summer says of each subset.
LEMMA SummerAt ==
    ASSUME NEW f, NEW S, NEW g, Summer(f, S, g), NEW T \in SUBSET S
    PROVE  /\ T = {} => g[T] = 0
           /\ T # {} => g[T] = f[Some(T)] + g[T \ {Some(T)}]
  BY DEF Summer

\* Two summers agree on the subsets they share.
LEMMA SummersAgree ==
    ASSUME NEW f, NEW S, IsFiniteSet(S), NEW g, Summer(f, S, g),
           NEW R \in SUBSET S, NEW h, Summer(f, R, h)
    PROVE  \A T \in SUBSET R : g[T] = h[T]
<1> DEFINE B == {T \in SUBSET R : g[T] # h[T]}
<1> SUFFICES ASSUME NEW Q \in B PROVE FALSE
  OBVIOUS
<1>1. Q \in B /\ Q \in SUBSET R /\ IsFiniteSet(Q)
  BY FS_Subset
<1> HIDE DEF B
<1>3. PICK T \in B \cap SUBSET Q : \A U \in SUBSET T : U # T => U \notin B
  BY <1>1, Least
<1> USE DEF B
<1>4. T \in SUBSET R /\ T \in SUBSET S /\ g[T] # h[T]
  OBVIOUS
<1>5. T # {} 
  BY <1>4, SummerAt
<1>6. Some(T) \in T
  BY <1>5, SomeIn
<1>7. g[T \ {Some(T)}] = h[T \ {Some(T)}]
  BY <1>3, <1>4, <1>6
<1>8. g[T] = f[Some(T)] + g[T \ {Some(T)}]
  BY <1>4, <1>5, SummerAt
<1>9. h[T] = f[Some(T)] + h[T \ {Some(T)}]
  BY <1>4, <1>5, SummerAt
<1>10. QED
  BY <1>4, <1>7, <1>8, <1>9

\* There is a summer for each finite set.
LEMMA SummerExists ==
    ASSUME NEW f, NEW S, IsFiniteSet(S)
    PROVE  \E g : Summer(f, S, g)
<1> DEFINE B == {T \in SUBSET S : ~ \E g : Summer(f, T, g)}
<1>1. SUFFICES ASSUME S \in B PROVE FALSE
  OBVIOUS
<1> HIDE DEF B
<1>2. PICK T \in B \cap SUBSET S : \A U \in SUBSET T : U # T => U \notin B
  BY <1>1, Least
<1> USE DEF B
<1>3. T \in SUBSET S /\ ~ \E g : Summer(f, T, g)
  OBVIOUS
<1> DEFINE V(U) == (CHOOSE g : Summer(f, U, g))[U]
           c == Some(T)
           h == [U \in SUBSET T |->
                   IF U = T THEN (IF T = {} THEN 0 ELSE f[c] + V(T \ {c})) ELSE V(U)]
<1> HIDE DEF B
<1>4. ASSUME NEW U \in SUBSET T, U # T
      PROVE  Summer(f, U, CHOOSE g : Summer(f, U, g))
  <2>1. U \in SUBSET S /\ U \notin B
    BY <1>2, <1>3, <1>4
  <2>2. \E g : Summer(f, U, g)
    BY <2>1 DEF B
  <2>3. QED
    BY <2>2
<1>5. ASSUME NEW U \in SUBSET T, U # T, U # {}
      PROVE  V(U) = f[Some(U)] + V(U \ {Some(U)})
  <2> DEFINE W == U \ {Some(U)}
             gu == CHOOSE g : Summer(f, U, g)
             gw == CHOOSE g : Summer(f, W, g)
  <2>1. W \in SUBSET T /\ W # T /\ W \in SUBSET U /\ U \in SUBSET U /\ W \in SUBSET W
    BY <1>5, SomeIn
  <2>2. Summer(f, U, gu) /\ Summer(f, W, gw)
    BY <1>4, <1>5, <2>1
  <2>3. IsFiniteSet(U)
    BY <1>3, FS_Subset
  <2> HIDE DEF gu, gw, W
  <2>4. gu[W] = gw[W]
    BY <2>1, <2>2, <2>3, SummersAgree
  <2>5. gu[U] = f[Some(U)] + gu[U \ {Some(U)}]
    BY <1>5, <2>1, <2>2, SummerAt
  <2>6. QED
    BY <2>4, <2>5 DEF gu, gw, W
<1>6. V({}) = 0 \/ T = {}
  <2>1. CASE T # {}
    <3>1. Summer(f, {}, CHOOSE g : Summer(f, {}, g))
      BY <1>4, <2>1
    <3>2. QED
      BY <3>1, SummerAt
  <2>2. QED
    BY <2>1
<1>7. T # {} => c \in T
  BY SomeIn
<1> HIDE DEF V, c
<1>8. ASSUME NEW U \in SUBSET T
      PROVE  h[U] = IF U = {} THEN 0 ELSE f[Some(U)] + h[U \ {Some(U)}]
  <2>1. CASE U = T
    BY <1>7, <2>1 DEF c
  <2>2. CASE U # T /\ U = {}
    BY <1>6, <2>2
  <2>3. CASE U # T /\ U # {}
    <3>1. U \ {Some(U)} \in SUBSET T /\ U \ {Some(U)} # T
      BY <2>3, SomeIn
    <3>2. QED
      BY <1>5, <2>3, <3>1
  <2>4. QED
    BY <2>1, <2>2, <2>3
<1>9. Summer(f, T, h)
  <2>1. h = [U \in SUBSET T |-> h[U]]
    OBVIOUS
  <2> HIDE DEF h
  <2>2. QED
    BY <1>8, <2>1 DEF Summer
<1>10. QED
  BY <1>3, <1>9

\* The equations of the sum.
LEMMA SumEquations ==
    ASSUME NEW f, NEW S, IsFiniteSet(S)
    PROVE  /\ S = {} => SumFunctionOnSet(f, S) = 0
           /\ S # {} => Some(S) \in S /\ SumFunctionOnSet(f, S) = f[Some(S)] + SumFunctionOnSet(f, S \ {Some(S)})
<1> DEFINE Q == S \ {Some(S)}
<1>1. IsFiniteSet(Q) /\ Q \in SUBSET S /\ S \in SUBSET S /\ Q \in SUBSET Q
  BY FS_Subset
<1>2. PICK g : Summer(f, S, g) /\ SumFunctionOnSet(f, S) = g[S]
  BY SummerExists, SumUnfolds
<1> HIDE DEF Q
<1>3. PICK h : Summer(f, Q, h) /\ SumFunctionOnSet(f, Q) = h[Q]
  BY <1>1, SummerExists, SumUnfolds
<1>4. g[Q] = h[Q]
  BY <1>1, <1>2, <1>3, SummersAgree
<1>5. QED
  BY <1>1, <1>2, <1>3, <1>4, SummerAt, SomeIn DEF Q

LEMMA SumType ==
    ASSUME NEW f, NEW S, IsFiniteSet(S), \A x \in S : f[x] \in Int
    PROVE  SumFunctionOnSet(f, S) \in Int
<1> DEFINE B == {T \in SUBSET S : SumFunctionOnSet(f, T) \notin Int}
<1>1. SUFFICES ASSUME S \in B PROVE FALSE
  OBVIOUS
<1> HIDE DEF B
<1>2. PICK T \in B \cap SUBSET S : \A U \in SUBSET T : U # T => U \notin B
  BY <1>1, Least
<1> USE DEF B
<1>3. T \in SUBSET S /\ SumFunctionOnSet(f, T) \notin Int /\ IsFiniteSet(T)
  BY FS_Subset
<1>4. T # {} /\ Some(T) \in T /\ SumFunctionOnSet(f, T) = f[Some(T)] + SumFunctionOnSet(f, T \ {Some(T)})
  BY <1>3, SumEquations
<1>5. SumFunctionOnSet(f, T \ {Some(T)}) \in Int
  BY <1>2, <1>3, <1>4
<1>6. QED
  BY <1>3, <1>4, <1>5

\* The order of summation does not matter: any element can come first.
LEMMA SumTakeOut ==
    ASSUME NEW f, NEW S, IsFiniteSet(S), \A x \in S : f[x] \in Int, NEW y \in S
    PROVE  SumFunctionOnSet(f, S) = f[y] + SumFunctionOnSet(f, S \ {y})
<1> DEFINE B == {T \in SUBSET S : \E x \in T : SumFunctionOnSet(f, T) # f[x] + SumFunctionOnSet(f, T \ {x})}
<1>1. SUFFICES ASSUME S \in B PROVE FALSE
  OBVIOUS
<1> HIDE DEF B
<1>2. PICK T \in B \cap SUBSET S : \A U \in SUBSET T : U # T => U \notin B
  BY <1>1, Least
<1> USE DEF B
<1>3. T \in SUBSET S /\ IsFiniteSet(T)
  BY FS_Subset
<1>4. PICK x \in T : SumFunctionOnSet(f, T) # f[x] + SumFunctionOnSet(f, T \ {x})
  OBVIOUS
<1> DEFINE c == Some(T)
<1>5. c \in T /\ SumFunctionOnSet(f, T) = f[c] + SumFunctionOnSet(f, T \ {c})
  BY <1>3, SumEquations
<1> HIDE DEF c
<1>6. x # c
  BY <1>4, <1>5
<1>7. SumFunctionOnSet(f, T \ {c}) = f[x] + SumFunctionOnSet(f, (T \ {c}) \ {x})
  BY <1>2, <1>3, <1>5, <1>6
<1>8. SumFunctionOnSet(f, T \ {x}) = f[c] + SumFunctionOnSet(f, (T \ {x}) \ {c})
  BY <1>2, <1>3, <1>5, <1>6
<1> DEFINE rest == (T \ {x}) \ {c}
<1>9. (T \ {c}) \ {x} = rest
  OBVIOUS
<1>10. SumFunctionOnSet(f, rest) \in Int
  <2>1. IsFiniteSet(rest) /\ rest \subseteq S
    BY <1>3, FS_Subset
  <2>2. QED
    BY <2>1, SumType
<1>11. f[c] \in Int /\ f[x] \in Int
  BY <1>3, <1>5
<1>12. SumFunctionOnSet(f, T \ {c}) = f[x] + SumFunctionOnSet(f, rest) /\ SumFunctionOnSet(f, T \ {x}) = f[c] + SumFunctionOnSet(f, rest)
  BY <1>7, <1>8, <1>9
<1> HIDE DEF rest
<1>13. QED
  BY <1>4, <1>5, <1>10, <1>11, <1>12

\* Functions that agree on a set have the same sum over it.
LEMMA SumSame ==
    ASSUME NEW f, NEW h, NEW S, IsFiniteSet(S), \A x \in S : f[x] = h[x]
    PROVE  SumFunctionOnSet(f, S) = SumFunctionOnSet(h, S)
<1> DEFINE B == {T \in SUBSET S : SumFunctionOnSet(f, T) # SumFunctionOnSet(h, T)}
<1>1. SUFFICES ASSUME S \in B PROVE FALSE
  OBVIOUS
<1> HIDE DEF B
<1>2. PICK T \in B \cap SUBSET S : \A U \in SUBSET T : U # T => U \notin B
  BY <1>1, Least
<1> USE DEF B
<1>3. T \in SUBSET S /\ IsFiniteSet(T) /\ SumFunctionOnSet(f, T) # SumFunctionOnSet(h, T)
  BY FS_Subset
<1>4. /\ T # {} /\ Some(T) \in T
      /\ SumFunctionOnSet(f, T) = f[Some(T)] + SumFunctionOnSet(f, T \ {Some(T)})
      /\ SumFunctionOnSet(h, T) = h[Some(T)] + SumFunctionOnSet(h, T \ {Some(T)})
  BY <1>3, SumEquations
<1>5. SumFunctionOnSet(f, T \ {Some(T)}) = SumFunctionOnSet(h, T \ {Some(T)})
  BY <1>2, <1>3, <1>4
<1>6. QED
  BY <1>3, <1>4, <1>5

\* Equal summands.
LEMMA SumConstant ==
    ASSUME NEW f, NEW S, IsFiniteSet(S), NEW k \in Int, \A x \in S : f[x] = k
    PROVE  SumFunctionOnSet(f, S) = Cardinality(S) * k
<1> DEFINE B == {T \in SUBSET S : SumFunctionOnSet(f, T) # Cardinality(T) * k}
<1>1. SUFFICES ASSUME S \in B PROVE FALSE
  OBVIOUS
<1> HIDE DEF B
<1>2. PICK T \in B \cap SUBSET S : \A U \in SUBSET T : U # T => U \notin B
  BY <1>1, Least
<1> USE DEF B
<1>3. T \in SUBSET S /\ IsFiniteSet(T) /\ SumFunctionOnSet(f, T) # Cardinality(T) * k
  BY FS_Subset
<1>4. T # {}
  <2>1. CASE T = {}
    <3>1. SumFunctionOnSet(f, T) = 0
      BY <1>3, <2>1, SumEquations
    <3>2. Cardinality(T) = 0
      BY <2>1, FS_EmptySet
    <3>3. 0 * k = 0
      OBVIOUS
    <3>4. QED
      BY <1>3, <3>1, <3>2, <3>3
  <2>2. QED
    BY <2>1
<1>5. Some(T) \in T /\ SumFunctionOnSet(f, T) = k + SumFunctionOnSet(f, T \ {Some(T)})
  BY <1>3, <1>4, SumEquations
<1>6. Cardinality(T) \in Nat /\ Cardinality(T \ {Some(T)}) = Cardinality(T) - 1
  BY <1>3, <1>5, FS_CardinalityType, FS_RemoveElement
<1>7. SumFunctionOnSet(f, T \ {Some(T)}) = Cardinality(T \ {Some(T)}) * k
  BY <1>2, <1>3, <1>5
<1>8. k + (Cardinality(T) - 1) * k = Cardinality(T) * k
  BY <1>6
<1>9. QED
  BY <1>3, <1>5, <1>6, <1>7, <1>8

\* What one summand gains and another loses leaves the sum as it is.
LEMMA SumOfExchange ==
    ASSUME NEW f, NEW h, NEW S, IsFiniteSet(S), \A x \in S : f[x] \in Int /\ h[x] \in Int,
           NEW p \in S, NEW q \in S, p # q, h[p] + h[q] = f[p] + f[q],
           \A x \in S \ {p, q} : h[x] = f[x]
    PROVE  SumFunctionOnSet(h, S) = SumFunctionOnSet(f, S)
<1> DEFINE R == (S \ {p}) \ {q}
<1>1. IsFiniteSet(S \ {p}) /\ IsFiniteSet(R) /\ R \subseteq S \ {p, q} /\ q \in S \ {p}
  BY FS_Subset
<1>2. SumFunctionOnSet(f, S) = f[p] + SumFunctionOnSet(f, S \ {p}) /\ SumFunctionOnSet(h, S) = h[p] + SumFunctionOnSet(h, S \ {p})
  BY SumTakeOut
<1>3. SumFunctionOnSet(f, S \ {p}) = f[q] + SumFunctionOnSet(f, R) /\ SumFunctionOnSet(h, S \ {p}) = h[q] + SumFunctionOnSet(h, R)
  BY <1>1, SumTakeOut
<1>4. SumFunctionOnSet(f, R) = SumFunctionOnSet(h, R)
  BY <1>1, SumSame
<1>5. SumFunctionOnSet(f, R) \in Int
  BY <1>1, SumType
<1> HIDE DEF R
<1>6. QED
  BY <1>2, <1>3, <1>4, <1>5

------------------------------------------------------------------------------
(* No copper and no item is lost.                                            *)

Purses == SumFunctionOnSet(money, Players)
MoneyKept == Purses + spent = Cardinality(Players) * Purse
NoneLost == \A i \in Items : owner[i] # Lost

LEMMA PursesFold == IInv => SumFunction(money) = Purses
  BY DEF IInv, GoodsOK, SumFunction, Purses

LEMMA KeptInit == Init => MoneyKept /\ NoneLost
<1> SUFFICES ASSUME Init PROVE MoneyKept /\ NoneLost
  OBVIOUS
<1>1. IsFiniteSet(Players) /\ Purse \in Int /\ \A p \in Players : money[p] = Purse
  BY TradeAssumption DEF Init
<1>2. Purses = Cardinality(Players) * Purse
  BY <1>1, SumConstant DEF Purses
<1>3. Cardinality(Players) \in Nat /\ Purse \in Nat
  BY <1>1, FS_CardinalityType, TradeAssumption
<1>4. Cardinality(Players) * Purse \in Int
  BY <1>3
<1>5. MoneyKept
  BY <1>2, <1>4 DEF Init, MoneyKept
<1>6. NoneLost
  BY TradeAssumption DEF Init, NoneLost, World, Lost
<1>7. QED
  BY <1>5, <1>6

LEMMA KeptNext == IInv /\ MoneyKept /\ NoneLost /\ [Next]_vars => MoneyKept' /\ NoneLost'
<1> SUFFICES ASSUME IInv, MoneyKept, NoneLost, [Next]_vars PROVE MoneyKept' /\ NoneLost'
  OBVIOUS
<1>1. /\ IsFiniteSet(Players) /\ \A p \in Players : money[p] \in Int /\ money'[p] \in Int
      /\ spent \in Int
  BY IInvNext, TradeAssumption DEF IInv, GoodsOK
<1>2. Purses \in Int /\ Purses' \in Int
  BY <1>1, SumType DEF Purses
<1>3. CASE UNCHANGED goods
  BY <1>3 DEF goods, MoneyKept, NoneLost, Purses
<1>4. ASSUME NEW p \in Players, Spend(p) PROVE MoneyKept' /\ NoneLost'
  <2>1. money' = [money EXCEPT ![p] = @ - 1] /\ spent' = spent + 1 /\ UNCHANGED owner
    BY <1>4 DEF Spend
  <2>2. money'[p] = money[p] - 1 /\ \A r \in Players \ {p} : money'[r] = money[r]
    BY <2>1 DEF IInv, GoodsOK
  <2> DEFINE R == Players \ {p}
  <2>3. IsFiniteSet(R) /\ R \subseteq Players
    BY <1>1, FS_Subset
  <2>4. SumFunctionOnSet(money', R) = SumFunctionOnSet(money, R) /\ SumFunctionOnSet(money, R) \in Int
    BY <1>1, <2>2, <2>3, SumSame, SumType
  <2>5. Purses = money[p] + SumFunctionOnSet(money, R) /\ Purses' = money'[p] + SumFunctionOnSet(money', R)
    BY <1>1, SumTakeOut DEF Purses
  <2> HIDE DEF R
  <2>6. Purses' = Purses - 1
    BY <1>1, <2>2, <2>4, <2>5
  <2>7. QED
    BY <1>1, <1>2, <2>1, <2>6 DEF MoneyKept, NoneLost
<1>5. ASSUME NEW p \in Players, Bind(p) \/ UseUp(p) \/ PickUp(p) PROVE MoneyKept' /\ NoneLost'
  <2>1. UNCHANGED <<money, spent>> /\ \A i \in Items : owner'[i] \in {owner[i], Gone, p}
    BY <1>5 DEF Bind, UseUp, PickUp, IInv, GoodsOK
  <2>2. QED
    BY <2>1, TradeAssumption DEF MoneyKept, NoneLost, Purses, Gone, Lost
<1>6. ASSUME NEW p \in Players, AcceptCompletes(p) PROVE MoneyKept' /\ NoneLost'
  <2> DEFINE q == trader[p]
  <2>1. /\ q \in Players /\ q # p
        /\ money' = [money EXCEPT ![p] = money[p] - offer[p].money + offer[q].money,
                                  ![q] = money[q] - offer[q].money + offer[p].money]
    BY <1>6, Exchange
  <2>2. HaveRoom(p, q) /\ spent' = spent
        /\ owner' = [i \in Items |-> IF i \in Traded(p) THEN Stored(p, q)
                                     ELSE IF i \in Traded(q) THEN Stored(q, p) ELSE owner[i]]
    BY <1>6 DEF AcceptCompletes
  <2>3. Stored(p, q) = q /\ Stored(q, p) = p
    BY <2>2 DEF HaveRoom, Stored
  <2>4. NoneLost'
    BY <2>1, <2>2, <2>3, TradeAssumption DEF NoneLost
  <2>5. offer[p].money \in Int /\ offer[q].money \in Int
    BY <2>1, TradeAssumption DEF IInv, TradeOK, Offers
  <2> HIDE DEF q
  <2>6. /\ money'[p] = money[p] - offer[p].money + offer[q].money
        /\ money'[q] = money[q] - offer[q].money + offer[p].money
        /\ \A r \in Players \ {p, q} : money'[r] = money[r]
    BY <2>1 DEF IInv, GoodsOK
  <2>7. money'[p] + money'[q] = money[p] + money[q]
    BY <1>1, <2>1, <2>5, <2>6
  <2>8. SumFunctionOnSet(money', Players) = SumFunctionOnSet(money, Players)
    <3>1. p # q /\ q \in Players
      BY <2>1
    <3>2. \A r \in Players \ {p, q} : money'[r] = money[r]
      BY <2>6
    <3>3. \A r \in Players : money[r] \in Int /\ money'[r] \in Int
      BY <1>1
    <3>4. IsFiniteSet(Players)
      BY <1>1
    <3>5. QED
      BY <2>7, <3>1, <3>2, <3>3, <3>4, SumOfExchange
  <2>9. QED
    BY <2>2, <2>4, <2>8 DEF MoneyKept, Purses
<1>7. QED
  BY <1>3, <1>4, <1>5, <1>6, GoodsMovers

\* The money in all purses and the money spent is what there was at the start,
\* and no item vanishes between two bags (HandleAcceptTradeOpcode, moveItems).
THEOREM NothingIsLost == Spec => []NothingLost
<1>1. IInv /\ MoneyKept /\ NoneLost => NothingLost
  BY PursesFold DEF MoneyKept, NoneLost, NothingLost
<1>2. QED
  BY <1>1, SpecIInv, KeptInit, KeptNext, PTL DEF Spec
==============================================================================
