----------------------------- MODULE AuctionHouse ----------------------------
(***************************************************************************)
(* game: the auction house, its handlers (AuctionHouseHandler.cpp),        *)
(* mails and expiry (AuctionHouseMgr.cpp), on top of the mail system it    *)
(* pays and delivers through.  A handler changes an auction in memory and  *)
(* queues its row in the same step, so one variable stands for both; ids   *)
(* are never used again, so an item identifies its auction.                *)
(***************************************************************************)
EXTENDS Mail

CONSTANTS Deposit,    \* GetAuctionDeposit of any item
          CutPercent, \* auctionHouseEntry->cutPercent
          Prices,     \* bound: amounts in the packets, at most MAX_MONEY_AMOUNT
          MaxAuctions \* bound: auctions in a behaviour

ASSUME AuctionAssumption ==
    /\ Deposit \in Nat /\ MaxAuctions \in Nat /\ CutPercent \in 0..100
    /\ Prices \subseteq 0..MAX_MONEY_AMOUNT

VARIABLES auction,  \* AuctionsMap and its table; an item in it is in mAitems
          started   \* history: auctions started so far

auctionVars == <<auction, started>>
allVars == <<vars, auctionVars>>

NoAuction == [owner |-> None]
Auctions == {i \in Items : auction[i] # NoAuction}

AuctionInit == Init /\ auction = [i \in Items |-> NoAuction] /\ started = 0

------------------------------------------------------------------------------
(* Amounts and letters.                                                     *)

CalculatePct(amount, pct) == (amount * pct) \div 100
GetAuctionCut(a) == CalculatePct(a.bid, CutPercent)
GetAuctionOutBid(a) == LET outbid == CalculatePct(a.bid, 5) IN IF outbid > 0 THEN outbid ELSE 1

\* Mail of the auction house.
Notice(receiver, amount, items) ==
    [type |-> "auction", sender |-> None, receiver |-> receiver, money |-> amount,
     cod |-> 0, items |-> items, checked |-> "copied"]

Outbidded(a) == Notice(a.bidder, a.bid, {})
CancelledToBidder(a) == Notice(a.bidder, a.bid, {})
Profit(a) == (a.bid + a.deposit - GetAuctionCut(a)) % UINT32
Successful(a) == Notice(a.owner, Profit(a), {})
Won(a, i) == Notice(a.bidder, 0, {i})
Expired(a, i) == Notice(a.owner, 0, {i})

\* The letters of a handler, each under an id of its own.  (The mail
\* that announces a pending sale holds nothing and is left out.)
NewIds(n) == Injection(1..n, FreeIds)

Post(letters) ==
    LET ids == CHOOSE f \in NewIds(Len(letters)) : TRUE
        sent == {ids[n] : n \in DOMAIN letters}
        Under(id) == letters[CHOOSE n \in DOMAIN letters : ids[n] = id]
        To(p) == {id \in sent : loaded[p] /\ Under(id).receiver = p}
    IN
    /\ NewIds(Len(letters)) # {}
    /\ row' = [id \in MailIds |-> IF id \in sent THEN Under(id) ELSE row[id]]
    /\ box' = [p \in Players |->
                  [id \in MailIds |-> IF id \in To(p) THEN Under(id) ELSE box[p][id]]]
    /\ bill' = [id \in MailIds |-> IF id \in sent THEN NoBill ELSE bill[id]]

\* The purse of p becomes m and is saved with his inventory.
PayAndSave(p, m) ==
    /\ money' = [money EXCEPT ![p] = m]
    /\ gold' = [gold EXCEPT ![p] = m]
    /\ stored' = [stored EXCEPT ![p] = bag[p]]
    /\ UNCHANGED bag

\* Faulty variant: the auction is left in the map.
LeftOpen(i) == UNCHANGED auction

Closed(i) == auction' = [auction EXCEPT ![i] = NoAuction]

------------------------------------------------------------------------------
(* Handlers.                                                                *)

\* A whole stack is put up.  The prices lose their upper half; the deposit is
\* taken after the purse was saved.
HandleAuctionSellItem(p, i) ==
    \E bid \in Prices \ {0}, buyout \in Prices :
        /\ online[p] /\ i \in bag[p] /\ auction[i] = NoAuction
        /\ money[p] >= Deposit /\ started < MaxAuctions
        /\ auction' = [auction EXCEPT ![i] =
               [owner |-> p, startbid |-> bid % UINT32, buyout |-> buyout % UINT32,
                bid |-> 0, bidder |-> None, deposit |-> Deposit, paid |-> 0]]
        /\ bag' = [bag EXCEPT ![p] = @ \ {i}]
        /\ gold' = [gold EXCEPT ![p] = money[p]]
        /\ stored' = [stored EXCEPT ![p] = bag'[p]]
        /\ money' = [money EXCEPT ![p] = ModifyMoney(@, -Deposit)]
        /\ started' = started + 1
        /\ UNCHANGED <<row, online, loaded, box, deleted, history>>

\* The checks HandleAuctionPlaceBid makes of a price.
Acceptable(a, price) ==
    /\ price > a.bid /\ price >= a.startbid
    /\ (a.buyout > 0 /\ price >= a.buyout) \/ price >= a.bid + GetAuctionOutBid(a)

IsBuyout(a, price) == a.buyout > 0 /\ price >= a.buyout

\* What p pays now: a bidder who raises his own bid has paid a part.
PriceFor(a, p, price) == IF a.bidder = p THEN price - a.bid ELSE price

\* Faulty variant: the bidder who loses the auction to a buyout is forgotten.
RefundsBids(a, p, price) ==
    IF a.bidder \in {None, p} \/ IsBuyout(a, price) THEN <<>> ELSE <<Outbidded(a)>>

Refunds(a, p, price) == IF a.bidder \in {None, p} THEN <<>> ELSE <<Outbidded(a)>>

PlaceBid(p, i, price) ==
    LET a == auction[i]
        now == PriceFor(a, p, price)
    IN
    /\ ~IsBuyout(a, price)
    /\ Post(Refunds(a, p, price))
    /\ PayAndSave(p, ModifyMoney(money[p], -now))
    /\ auction' = [auction EXCEPT ![i].bidder = p, ![i].bid = price % UINT32,
                                  ![i].paid = IF a.bidder = p THEN @ + now ELSE now]
    /\ UNCHANGED ledger

Buyout(p, i, price) ==
    LET a == auction[i]
        sold == [a EXCEPT !.bidder = p, !.bid = a.buyout]
    IN
    /\ IsBuyout(a, price)
    /\ Post(Refunds(a, p, price) \o <<Successful(sold), Won(sold, i)>>)
    /\ PayAndSave(p, ModifyMoney(money[p], -PriceFor(a, p, a.buyout)))
    /\ Closed(i)
    /\ ledger' = ledger - GetAuctionCut(sold)

HandleAuctionPlaceBid(p, i) ==
    \E price \in Prices \ {0} :
        /\ online[p] /\ auction[i] # NoAuction /\ auction[i].owner # p
        /\ Acceptable(auction[i], price)
        /\ money[p] >= price
        /\ PlaceBid(p, i, price) \/ Buyout(p, i, price)
        /\ UNCHANGED <<online, loaded, deleted, minted, started>>

\* Faulty variant: the bidder is not thought of.
RemoveForgetsBidder(p, i) ==
    LET a == auction[i] IN
    /\ online[p] /\ a # NoAuction /\ a.owner = p
    /\ Post(<<Expired(a, i)>>)
    /\ PayAndSave(p, money[p])
    /\ Closed(i)
    /\ ledger' = ledger - a.deposit
    /\ UNCHANGED <<online, loaded, deleted, minted, started>>

\* The owner pays the cut of a bid he turns down; the deposit is kept.
HandleAuctionRemoveItem(p, i) ==
    LET a == auction[i]
        cut == IF a.bidder = None THEN 0 ELSE GetAuctionCut(a)
        refund == IF a.bidder = None THEN <<>> ELSE <<CancelledToBidder(a)>>
    IN
    /\ online[p] /\ a # NoAuction /\ a.owner = p
    /\ money[p] >= cut
    /\ Post(refund \o <<Expired(a, i)>>)
    /\ PayAndSave(p, ModifyMoney(money[p], -cut))
    /\ Closed(i)
    /\ ledger' = ledger - cut - a.deposit
    /\ UNCHANGED <<online, loaded, deleted, minted, started>>

\* Faulty variant: the seller is not paid.
UpdateKeepsProfit(i) ==
    LET a == auction[i] IN
    /\ a # NoAuction
    /\ IF a.bidder = None
       THEN Post(<<Expired(a, i)>>) /\ ledger' = ledger - a.deposit
       ELSE Post(<<Won(a, i)>>) /\ ledger' = ledger - a.bid - a.deposit
    /\ Closed(i)
    /\ UNCHANGED <<gold, stored, online, money, bag, loaded, deleted, minted, started>>

\* AuctionHouseObject::Update settles the auctions the database says have
\* expired, one transaction each.
Update(i) ==
    LET a == auction[i] IN
    /\ a # NoAuction
    /\ \/ /\ a.bidder = None
          /\ Post(<<Expired(a, i)>>)
          /\ ledger' = ledger - a.deposit
       \/ /\ a.bidder # None
          /\ Post(<<Successful(a), Won(a, i)>>)
          /\ ledger' = ledger - GetAuctionCut(a)
    /\ Closed(i)
    /\ UNCHANGED <<gold, stored, online, money, bag, loaded, deleted, minted, started>>

Escrow == SumFunction([i \in Auctions |-> auction[i].bid + auction[i].deposit])

\* The auctions are loaded again as they were saved.
Restart ==
    /\ LoseMemory
    /\ ledger' = DurableMoney + Escrow
    /\ UNCHANGED auctionVars

\* What a player does with the mail of the auction house.
CollectMail(p) ==
    \/ LoadMail(p)
    \/ \E id \in Mails(box[p]) :
           \/ HandleMailTakeItem(p, id)
           \/ HandleMailTakeMoney(p, id)
           \/ HandleMailReturnToSender(p, id)

AuctionNext ==
    \/ \E p \in Players, i \in Items :
           \/ HandleAuctionSellItem(p, i)
           \/ HandleAuctionPlaceBid(p, i)
           \/ HandleAuctionRemoveItem(p, i)
    \/ \E i \in Items : Update(i)
    \/ \E p \in Players : (CollectMail(p) \/ Sessions(p)) /\ UNCHANGED auctionVars
    \/ Restart

AuctionSpec == AuctionInit /\ [][AuctionNext]_allVars

------------------------------------------------------------------------------
(* Properties.                                                              *)

\* The types of the auctions, and those of the mail system.
AuctionTypeOK ==
    /\ TypeOK
    /\ auction \in [Items -> {NoAuction} \cup
           [owner : Players, startbid : 0..(UINT32 - 1), bid : 0..(UINT32 - 1),
            buyout : 0..(UINT32 - 1), bidder : Players \cup {None},
            deposit : {Deposit}, paid : Nat]]
    /\ \A i \in Auctions : auction[i].bidder # auction[i].owner

\* Every coin is in a purse, a mail or an auction, but for the cuts and the
\* deposits the house keeps: nobody is refunded twice or forgotten.  The bid
\* that is mailed back or handed on is what the bidder paid for it.  A crash
\* makes no money but the deposits, which are taken from the purse after it
\* was saved.
AuctionMoneyAccounted ==
    /\ SumFunction([p \in Players |-> Owns(p)]) + Worth(Current, Mails(Current)) + Escrow = ledger
    /\ \A i \in Auctions : auction[i].bid = auction[i].paid
    /\ DurableMoney + Escrow <= minted + Deposit * started

\* An item is in one auction, one mail or one bag, in memory and in the
\* database: it is never sold and returned, or delivered twice.
ItemsAreSoldOnce ==
    /\ AuctionTypeOK
    /\ ItemsAreNotCopied
    /\ \A i \in Auctions :
           /\ \A p \in Players : i \notin Has(p) \cup stored[p]
           /\ \A id \in MailIds : /\ Current[id] # NoMail => i \notin Current[id].items
                                  /\ row[id] # NoMail => i \notin row[id].items

Sent(mail) == \E id \in MailIds : row[id] = NoMail /\ row'[id] = mail

\* A bidder who ceases to be the highest is mailed what he paid in the same
\* transaction, unless it delivers him the item.
LosersAreRefunded ==
    [][\A i \in Auctions :
          LET a == auction[i] IN
          (a.bidder # None /\ (auction'[i] = NoAuction \/ auction'[i].bidder # a.bidder)) =>
              Sent(Notice(a.bidder, a.paid, {})) \/ Sent(Won(a, i))]_allVars

\* An auction ends by giving the owner his item back, or his price, less the
\* cut, for delivering the item to another player.
AuctionsAreSettled ==
    [][\A i \in Auctions :
          LET a == auction[i] IN
          auction'[i] = NoAuction =>
              \/ Sent(Expired(a, i))
              \/ \E q \in Players \ {a.owner}, price \in {a.bid, a.buyout} \ {0} :
                     LET sold == [a EXCEPT !.bidder = q, !.bid = price]
                     IN Sent(Won(sold, i)) /\ Sent(Successful(sold))]_allVars
==============================================================================
