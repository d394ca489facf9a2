----------------------------- MODULE Settlement -----------------------------
(***************************************************************************)
(* The daily settlement over the till of PosOrder: the day every row falls *)
(* on, the statistics of a day (_settlement_numbers), closing it, opening  *)
(* it again, and the check each handler makes before it starts.            *)
(*                                                                         *)
(* created_at is the database's now(), the start of the transaction, so a  *)
(* request books on the day it was admitted.  Closing is not one step: its *)
(* queries each see what is committed when they run (READ COMMITTED), the  *)
(* row is read after them with no lock and written at the end.             *)
(***************************************************************************)
EXTENDS Allocation, FiniteSets

CONSTANTS
  Order, Terminal, Idle, Client, NoClient, Txn, NoTxn, SplitTxn, Methods,
  Quantity, Gross, Totals, Mismatch, Holds, CounterRepay,
  Days,        \* bound: business days
  Closer,      \* concurrent calls of the close endpoint
  Reopens      \* are settlements opened again in this instance?


VARIABLES
  orders, requests, booked, credited, loose,   \* see PosOrder
  today,
  born,        \* the day of an order's created_at, 0 for none
  since,       \* the day a terminal's transaction started on
  flow,        \* what each order's rows of a day add up to
  looseOn,     \* repayments of a day tied to no order
  settled,     \* the daily_settlements rows
  closing      \* calls of the close endpoint under way

till == <<orders, requests, booked, credited, loose>>
dated == <<born, since, flow, looseOn>>
vars == <<till, dated, today, settled, closing>>

Pos == INSTANCE PosOrder

ASSUME SettlementConstants ==
  /\ Pos!PosConstants /\ IsFiniteSet(Order)
  /\ Days \in Nat \ {0} /\ Reopens \in BOOLEAN

Day == 1 .. Days

Quiet == [took |-> Pos!Nothing, gave |-> Pos!Nothing, repaid |-> 0]

NoRow == [exists |-> FALSE, status |-> "open", diff |-> 0, sales |-> 0]

-----------------------------------------------------------------------------
(* _settlement_numbers *)

Counted(d) == {o \in Order : born[o] = d /\ orders[o].status \notin {"none", "cancelled", "held"}}

RefundFlow(d) == Sum(LAMBDA o : Pos!Whole(flow[o][d].gave), Order)

TotalSales(d) == Sum(LAMBDA o : orders[o].total, Counted(d)) - RefundFlow(d)

(* Mutant: receipts of any order count.                                    *)
ByMethod_any_order(d, m) ==
  Sum(LAMBDA o : flow[o][d].took[m] - flow[o][d].gave[m], Order)

(* Receipts of a day count for the orders of that day, refunds for all.    *)
ByMethod(d, m) == Sum(LAMBDA o : flow[o][d].took[m], Counted(d))
                    - Sum(LAMBDA o : flow[o][d].gave[m], Order)

TotalPayments(d) == Sum(LAMBDA m : ByMethod(d, m), Pos!Money)

SameDayRepay(d) == Sum(LAMBDA o : flow[o][d].repaid, Counted(d))

CustomerRepay(d) ==
  Sum(LAMBDA o : flow[o][d].repaid, Order) + looseOn[d] - SameDayRepay(d)

CreditAmount(d) == ByMethod(d, "credit") - SameDayRepay(d)

NetCashFlow(d) == TotalPayments(d) + CustomerRepay(d)

DiffAmount(d) == TotalSales(d) - TotalPayments(d) - CreditAmount(d)

-----------------------------------------------------------------------------
Init ==
  /\ Pos!Init
  /\ today = 1
  /\ born = [o \in Order |-> 0]
  /\ since = [t \in Terminal |-> 0]
  /\ flow = [o \in Order |-> [d \in Day |-> Quiet]]
  /\ looseOn = [d \in Day |-> 0]
  /\ settled = [d \in Day |-> NoRow]
  /\ closing = [c \in Closer |-> Idle]

NextDay ==
  /\ today < Days
  /\ today' = today + 1
  /\ UNCHANGED <<till, dated, settled, closing>>

(* _check_settlement_locked, the first thing a handler does.               *)
Admit(t, req) ==
  /\ settled[today].status # "closed"
  /\ Pos!Admit(t, req)
  /\ since' = [since EXCEPT ![t] = today]
  /\ UNCHANGED <<born, flow, looseOn, today, settled, closing>>

Minus(p, r) == [m \in Pos!Method |-> p[m] - r[m]]

(* The rows of a request carry the day its transaction started.            *)
Dated(t) ==
  LET o == requests[t].order
      d == since[t]
  IN
  /\ flow' = [flow EXCEPT ![o][d] =
       [took   |-> Pos!Plus(@.took, Minus(orders'[o].took, orders[o].took)),
        gave   |-> Pos!Plus(@.gave, Minus(orders'[o].gave, orders[o].gave)),
        repaid |-> @.repaid + orders'[o].repaid - orders[o].repaid]]
  /\ born' = [born EXCEPT ![o] = IF orders[o].status = "none" /\ orders'[o].status # "none"
                                 THEN d ELSE @]
  /\ UNCHANGED <<since, looseOn, today, settled, closing>>

Create(t) == Pos!Create(t) /\ Dated(t)
Hold(t)   == Pos!Hold(t) /\ Dated(t)
Resume(t) == Pos!Resume(t) /\ Dated(t)
Pay(t)    == Pos!Pay(t) /\ Dated(t)
Refund(t) == Pos!Refund(t) /\ Dated(t)
Reject(t) == Pos!Reject(t) /\ UNCHANGED <<dated, today, settled, closing>>

Cancel(o) == Pos!Cancel(o) /\ UNCHANGED <<dated, today, settled, closing>>

RepayCustomer ==
  /\ Pos!RepayCustomer
  /\ looseOn' = [looseOn EXCEPT ![today] = @ + loose' - loose]
  /\ UNCHANGED <<born, since, flow, today, settled, closing>>

(* close_daily_settlement: the sales queries, then the payment queries,    *)
(* then the row, then the write.                                           *)
CountSales(c, d) ==
  /\ closing[c] = Idle
  /\ d <= today
  /\ closing' = [closing EXCEPT ![c] =
       [day |-> d, at |-> "payments", sales |-> TotalSales(d), diff |-> 0, found |-> FALSE]]
  /\ UNCHANGED <<till, dated, today, settled>>

At(c, step) == closing[c] # Idle /\ closing[c].at = step

CountPayments(c) ==
  /\ At(c, "payments")
  /\ closing' = [closing EXCEPT
       ![c].at = "row",
       ![c].diff = @ + closing[c].sales - TotalPayments(closing[c].day)
                     - CreditAmount(closing[c].day)]
  /\ UNCHANGED <<till, dated, today, settled>>

FindRow(c) ==
  LET row == settled[closing[c].day] IN
  /\ At(c, "row")
  /\ closing' = IF row.status = "closed" THEN [closing EXCEPT ![c] = Idle]
                ELSE [closing EXCEPT ![c].at = "write", ![c].found = row.exists]
  /\ UNCHANGED <<till, dated, today, settled>>

(* Mutant: no unique key on (merchant, date).                              *)
WriteRow_overwrites(c) ==
  LET call == closing[c] IN
  /\ At(c, "write")
  /\ settled' = [settled EXCEPT ![call.day] =
                   [exists |-> TRUE, status |-> "closed",
                    diff |-> call.diff, sales |-> call.sales]]
  /\ closing' = [closing EXCEPT ![c] = Idle]
  /\ UNCHANGED <<till, dated, today>>

(* The unique key on (merchant, date) refuses a second new row.            *)
WriteRow(c) ==
  LET call == closing[c] IN
  /\ At(c, "write")
  /\ settled' = IF settled[call.day].exists /\ ~call.found THEN settled
                ELSE [settled EXCEPT ![call.day] =
                        [exists |-> TRUE, status |-> "closed",
                         diff |-> call.diff, sales |-> call.sales]]
  /\ closing' = [closing EXCEPT ![c] = Idle]
  /\ UNCHANGED <<till, dated, today>>

(* reopen_daily_settlement                                                 *)
Reopen(d) ==
  /\ Reopens
  /\ settled[d].status = "closed"
  /\ settled' = [settled EXCEPT ![d] = [NoRow EXCEPT !.exists = TRUE]]
  /\ UNCHANGED <<till, dated, today, closing>>

-----------------------------------------------------------------------------
Next ==
  \/ NextDay
  \/ \E t \in Terminal, req \in Pos!Request : Admit(t, req)
  \/ \E t \in Terminal : Create(t)
  \/ \E t \in Terminal : Hold(t)
  \/ \E t \in Terminal : Resume(t)
  \/ \E t \in Terminal : Pay(t)
  \/ \E t \in Terminal : Refund(t)
  \/ \E t \in Terminal : Reject(t)
  \/ \E o \in Order : Cancel(o)
  \/ RepayCustomer
  \/ \E c \in Closer, d \in Day : CountSales(c, d)
  \/ \E c \in Closer : CountPayments(c)
  \/ \E c \in Closer : FindRow(c)
  \/ \E c \in Closer : WriteRow(c)
  \/ \E d \in Day : Reopen(d)

Spec == Init /\ [][Next]_vars

-----------------------------------------------------------------------------
(* Properties *)

TypeOK ==
  /\ Pos!TypeOK
  /\ today \in Day
  /\ born \in [Order -> 0 .. Days]
  /\ since \in [Terminal -> 0 .. Days]
  /\ \A o \in Order, d \in Day :
       flow[o][d] \in [took : [Pos!Method -> Nat], gave : [Pos!Method -> Nat], repaid : Nat]
  /\ looseOn \in [Day -> Nat]
  /\ settled \in [Day -> [exists : BOOLEAN, status : {"open", "closed"}, diff : Int, sales : Int]]
  /\ closing \in [Closer -> {Idle} \cup
       [day : Day, at : {"payments", "row", "write"}, sales : Int, diff : Int, found : BOOLEAN]]

(* The till under the settlement is the till of PosOrder: checking the day *)
(* and dating the rows only restricts and observes it.                     *)
TillUnchanged == Pos!Spec

(* An order parked on the day it was created and checked out by a request  *)
(* of another day: on its own day it has received no more than repayments, *)
(* of a request that was admitted then and waited.                         *)
Overnight(o) ==
  /\ born[o] # 0
  /\ Pos!Whole(flow[o][born[o]].took) = flow[o][born[o]].repaid
  /\ \E d \in Day : Pos!Whole(flow[o][d].took) > 0

(* Every day balances: net sales are what was received plus what was left  *)
(* on credit, whichever day debts are repaid or goods come back.  A day's  *)
(* difference is exactly what was parked on it and sold on another day.    *)
DaysBalance ==
  \A d \in Day :
    DiffAmount(d) = Sum(LAMBDA o : orders[o].total, {o \in Counted(d) : Overnight(o)})

(* Each cent that moved is in the cash flow of exactly one day: no receipt *)
(* is counted on two days, or as a payment and a repayment, or on none.    *)
EachCentOnOneDay ==
  (\A o \in Order : ~Overnight(o)) =>
    Sum(NetCashFlow, Day) =
      loose + Sum(LAMBDA o : Pos!InMoney(orders[o].took) - Pos!InMoney(orders[o].gave), Order)

(* Together: a day's figures add up, and the days' figures add up.         *)
DaysAddUp == DaysBalance /\ EachCentOnOneDay

(* The numbers a settlement was closed with stay as they are, except for a *)
(* call that found the day opened again: the loser of a race never wins.   *)
ClosedOnce ==
  [][\A d \in Day : settled[d].status = "closed" /\ settled'[d].status = "closed"
       => \/ settled'[d] = settled[d]
          \/ \E c \in Closer : At(c, "write") /\ closing[c].day = d /\ closing[c].found]_vars

=============================================================================
