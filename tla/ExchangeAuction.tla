--------------------------- MODULE ExchangeAuction ---------------------------
(***************************************************************************)
(* run_call_auction on the tables of Exchange.  The auction reads the live  *)
(* orders once, computes the price that crosses the most units, and then    *)
(* makes its trades one transaction at a time from the rows it read: it     *)
(* does not look at the orders again, and writes back what it computed.     *)
(***************************************************************************)
EXTENDS Exchange, FiniteSetsExt

CONSTANT MaxTrade  \* bound: trades in the table

VARIABLE auction   \* what each caller's auction read and has left to do

avars == <<vars, auction>>

-----------------------------------------------------------------------------
(* The clearing price of an auction over orders B and S with the remaining  *)
(* units they had when they were read: most volume, then least imbalance,   *)
(* then the lowest of the orders' limits.                                   *)

Demand(B, p) == Total([o \in {b \in B : Signed[b].limit >= p} |-> remaining[o]])
Supply(S, p) == Total([o \in {s \in S : Signed[s].limit <= p} |-> remaining[o]])
Volume(B, S, p) == Lesser(Demand(B, p), Supply(S, p))
Imbalance(B, S, p) == (Demand(B, p) + Supply(S, p)) - 2 * Volume(B, S, p)

LowestPrice(B, S) == Min({Signed[o].limit : o \in B \cup S})  \* mutant: the sort key is dropped
ClearingPrice(B, S) ==
  CHOOSE p \in {Signed[o].limit : o \in B \cup S} :
    \A x \in {Signed[o].limit : o \in B \cup S} \ {p} :
      \/ Volume(B, S, x) < Volume(B, S, p)
      \/ /\ Volume(B, S, x) = Volume(B, S, p)
         /\ \/ Imbalance(B, S, x) > Imbalance(B, S, p)
            \/ Imbalance(B, S, x) = Imbalance(B, S, p) /\ x > p

NoAuction == [buys |-> << >>, sells |-> << >>, rem |-> [o \in Order |-> 0],
              left |-> 0, price |-> 0, skipped |-> FALSE]

(* Orders in the sequence they were received.                               *)
Sorted(S) == CHOOSE f \in [1 .. Cardinality(S) -> S] :
               \A m, n \in DOMAIN f : m < n => Earlier(f[m], f[n])

AuctionStart(q, v, i) ==
  LET B == LiveOrders(v, i, "BUY")
      S == LiveOrders(v, i, "SELL")
      p == ClearingPrice(B, S)
  IN /\ B \cup S # {}
     /\ Volume(B, S, p) > 0
     /\ Begin(q, "auction", <<v, i>>, 0)
     /\ auction' = [auction EXCEPT ![q] =
          [buys |-> Sorted({b \in B : Signed[b].limit >= p}),
           sells |-> Sorted({s \in S : Signed[s].limit <= p}),
           rem |-> remaining, left |-> Volume(B, S, p), price |-> p, skipped |-> FALSE]]
     /\ UNCHANGED <<market, balance, book, deals, talks, now>>

Running(q) == /\ pc[q] = "auction" /\ auction[q].left > 0
              /\ auction[q].buys # << >> /\ auction[q].sells # << >>

(* The pair does not trade with itself: the sell order is passed over.      *)
AuctionSkip(q) ==
  LET a == auction[q] IN
  /\ Running(q)
  /\ Signed[Head(a.buys)].by = Signed[Head(a.sells)].by
  /\ auction' = [auction EXCEPT ![q].sells = Tail(@), ![q].skipped = TRUE]
  /\ UNCHANGED vars

DropAlways(s, left) == Tail(s)  \* mutant: a partly filled order loses its turn
DropFilled(s, left) == IF left = 0 THEN Tail(s) ELSE s

TradeQty(a) == Lesser(Lesser(a.rem[Head(a.buys)], a.rem[Head(a.sells)]), a.left)

(* The rows the trade writes back: those it read, less the units traded.    *)
BuyerRowLeft(a, b, s, n) == [a.rem EXCEPT ![b] = @ - n]  \* mutant: the ask is not reduced
RowsLeft(a, b, s, n) == [a.rem EXCEPT ![b] = @ - n, ![s] = @ - n]

AuctionTrade(q) ==
  LET a == auction[q]
      b == Head(a.buys)
      s == Head(a.sells)
      n == TradeQty(a)
      rem == RowsLeft(a, b, s, n)
  IN /\ Running(q) /\ Len(trades) < MaxTrade
     /\ Signed[b].by # Signed[s].by
     /\ ExecuteOrders(b, s, n, a.price, rem)
     /\ auction' = [auction EXCEPT ![q] =
          [a EXCEPT !.rem = rem, !.left = @ - n,
                    !.buys = DropFilled(@, rem[b]), !.sells = DropFilled(@, rem[s])]]
     /\ UNCHANGED <<market, balance, talks, now, calls>>

AuctionEnd(q) ==
  /\ pc[q] = "auction" /\ ~Running(q)
  /\ Return(q)
  /\ auction' = [auction EXCEPT ![q] = NoAuction]
  /\ UNCHANGED <<market, balance, book, deals, talks, now>>

(* A call that dies between two trades keeps those it has made.             *)
AuctionDies(q) ==
  /\ pc[q] = "auction" /\ Running(q)
  /\ Return(q)
  /\ auction' = [auction EXCEPT ![q] = NoAuction]
  /\ UNCHANGED <<market, balance, book, deals, talks, now>>

-----------------------------------------------------------------------------
AuctionInit == Init /\ auction = [q \in Proc |-> NoAuction]

Others ==
  /\ \/ \E q \in Proc : Check(q) \/ (pc[q] # "auction" /\ Commit(q))
     \/ AtOnce
     \/ Tick
  /\ UNCHANGED auction

AuctionNext ==
  \/ Others
  \/ \E q \in Proc :
       \/ \E v \in Venue, i \in Instrument : AuctionStart(q, v, i)
       \/ AuctionSkip(q) \/ AuctionTrade(q) \/ AuctionEnd(q) \/ AuctionDies(q)

AuctionSpec == AuctionInit /\ [][AuctionNext]_avars

-----------------------------------------------------------------------------
(* Properties.                                                              *)

(* The price an auction is about to use crosses as many units as any price  *)
(* would, not only any of the orders' limits.                               *)
VolumeIsMaximal ==
  \A v \in Venue, i \in Instrument :
    LET B == LiveOrders(v, i, "BUY")
        S == LiveOrders(v, i, "SELL")
        Prices == 0 .. Max({Signed[o].limit : o \in Order})
    IN B \cup S # {} =>
         \A p \in Prices : Volume(B, S, p) <= Volume(B, S, ClearingPrice(B, S))

(* An auction that passed no order over trades its whole volume: it never   *)
(* runs out of orders on one side first.                                    *)
AuctionExhausts ==
  \A q \in Proc : pc[q] = "auction" /\ ~Running(q) /\ ~auction[q].skipped => auction[q].left = 0
=============================================================================
