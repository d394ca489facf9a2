------------------------------ MODULE Reports ------------------------------
(***************************************************************************)
(* The figures the owner reads (routers/reports.py) next to the figures a  *)
(* day is settled with (routers/pos.py, _settlement_numbers and            *)
(* _estimate_daily_cogs).  The reports add up inventory_records; the       *)
(* settlement adds up orders and payments, and takes from the ledger only  *)
(* what came through the voice and offline channels.                       *)
(*                                                                         *)
(* An order sells Quantity units of one product and is paid in full (who   *)
(* owes what is PosOrder's subject).  Amounts are whole cents.             *)
(***************************************************************************)
EXTENDS Allocation, Sequences

CONSTANTS
  Product,
  Costs,       \* unit costs a batch may have
  NoCost,      \* a row that took goods of unknown cost
  Quantity,    \* units an order sells
  UnitPrice,
  PerUnit,     \* stock units in one unit sold
  Discounts,   \* discounts an order may be given
  Amounts,     \* what a channel row may be worth
  Recorded,    \* kind and channel of the rows the other channels write
  Window,      \* days the average cost looks back (30)
  Week,        \* days of the weekly report (7)
  Days, MaxRows, MaxOrders   \* bounds

VARIABLES
  today,
  ledger,   \* inventory_records
  orders    \* sale_orders with their one item

vars == <<today, ledger, orders>>

GrossSum == Quantity * UnitPrice

Init == today = 1 /\ ledger = <<>> /\ orders = <<>>

-----------------------------------------------------------------------------
(* What is written *)

Put(row) ==
  /\ Len(ledger) < MaxRows
  /\ ledger' = Append(ledger, row)

Row(kind, p, day, qty, amount, cost, channel) ==
  [kind |-> kind, product |-> p, day |-> day, qty |-> qty, amount |-> amount,
   cost |-> cost, channel |-> channel, voided |-> FALSE]

NewOrder(p, status, discount) ==
  [product |-> p, status |-> status, born |-> today, sold |-> 0, gross |-> GrossSum,
   discount |-> discount, cost |-> NoCost, back |-> 0, refunded |-> 0, payouts |-> <<>>]

Total(o) == o.gross - o.discount

(* The cost of a unit sold: what its batches cost together, shared out.    *)
Known(c) == c # NoCost
Scaled(c, k) == IF Known(c) THEN c * k ELSE NoCost

Create(p, discount, c) ==
  /\ Len(orders) < MaxOrders /\ discount <= GrossSum
  /\ orders' = Append(orders, [NewOrder(p, "paid", discount)
                                 EXCEPT !.sold = today, !.cost = Scaled(c, PerUnit)])
  /\ Put(Row("sale", p, today, -(Quantity * PerUnit), GrossSum, c, "pos"))
  /\ UNCHANGED today

Hold(p, discount) ==
  /\ Len(orders) < MaxOrders /\ discount <= GrossSum
  /\ orders' = Append(orders, NewOrder(p, "held", discount))
  /\ UNCHANGED <<today, ledger>>

(* Mutant: the row of a resumed order is dated as the order.               *)
SoldOn_made(o) == o.born

SoldOn(o) == today

(* A parked order is sold by the unit of its item, whatever stock is       *)
(* counted in, and may be given another discount.                          *)
Resume(i, discount, c) ==
  LET o == orders[i] IN
  /\ o.status = "held" /\ discount <= o.gross
  /\ orders' = [orders EXCEPT ![i].status = "paid", ![i].sold = today,
                              ![i].discount = discount, ![i].cost = c]
  /\ Put(Row("sale", o.product, SoldOn(o), -Quantity, o.gross, c, "pos"))
  /\ UNCHANGED today

CancelHeld(i) ==
  /\ orders[i].status = "held"
  /\ orders' = [orders EXCEPT ![i].status = "cancelled"]
  /\ UNCHANGED <<today, ledger>>

HalfEven(n, d) ==
  LET q == n \div d
      r == 2 * (n % d)
  IN IF r > d \/ (r = d /\ q % 2 = 1) THEN q + 1 ELSE q

PayBack(o, k) == IF o.back + k = Quantity THEN Total(o) - o.refunded
                                          ELSE HalfEven(k * Total(o), Quantity)

(* k units come back: the customer is paid the share of what was paid, and *)
(* the goods return to stock, or not.                                      *)
Refund(i, k, restock) ==
  LET o == orders[i]
      a == PayBack(o, k)
  IN
  /\ o.status \in {"paid", "partial_refund"} /\ o.back + k <= Quantity
  /\ orders' = [orders EXCEPT ![i] =
       [o EXCEPT !.status = IF o.back + k = Quantity THEN "refunded" ELSE "partial_refund",
                 !.back = @ + k, !.refunded = @ + a,
                 !.payouts = Append(@, [day |-> today, amount |-> a])]]
  /\ Put(Row("refund", o.product, today, IF restock THEN k ELSE 0, a, o.cost, "pos"))
  /\ UNCHANGED today

(* A row of another channel: spoken, or from an offline queue, which dates *)
(* its rows itself.                                                        *)
Record(kind, p, channel, day, amount, c) ==
  /\ kind = "refund" => channel = "offline"
  /\ day \in 1 .. today /\ (channel = "voice" => day = today)
  /\ Put(Row(kind, p, day, IF kind \in {"sale", "waste"} THEN -1 ELSE 1, amount, c, channel))
  /\ UNCHANGED <<today, orders>>

(* Rows of the till are refused: their way back is a refund.               *)
Void(i) ==
  /\ ledger[i].channel # "pos" /\ ~ledger[i].voided
  /\ ledger' = [ledger EXCEPT ![i].voided = TRUE]
  /\ UNCHANGED <<today, orders>>

NextDay ==
  /\ today < Days
  /\ today' = today + 1
  /\ UNCHANGED <<ledger, orders>>

Next ==
  \/ \E p \in Product, a \in Discounts, c \in Costs \cup {NoCost} : Create(p, a, c)
  \/ \E p \in Product, a \in Discounts : Hold(p, a)
  \/ \E i \in DOMAIN orders, a \in Discounts, c \in Costs \cup {NoCost} : Resume(i, a, c)
  \/ \E i \in DOMAIN orders : CancelHeld(i)
  \/ \E i \in DOMAIN orders, k \in 1 .. Quantity, restock \in BOOLEAN : Refund(i, k, restock)
  \/ \E e \in Recorded, p \in Product, d \in 1 .. Days, a \in Amounts,
        c \in Costs \cup {NoCost} : Record(e[1], p, e[2], d, a, c)
  \/ \E i \in DOMAIN ledger : Void(i)
  \/ NextDay

Spec == Init /\ [][Next]_vars

-----------------------------------------------------------------------------
(* What is read *)

In(S, kind) == {i \in DOMAIN ledger : /\ ~ledger[i].voided /\ ledger[i].kind = kind
                                      /\ ledger[i].day \in S}

Worth(rows) == Sum(LAMBDA i : ledger[i].amount, rows)
Moved(rows) == Sum(LAMBDA i : ledger[i].qty, rows)

(* The average cost of what was bought on the days of S, for q units, in   *)
(* hundredths.                                                             *)
AtAverage(p, q, S) ==
  LET bought == {i \in In(S, "purchase") : ledger[i].product = p /\ Known(ledger[i].cost)}
  IN IF bought = {} THEN 0
     ELSE (100 * q * Sum(LAMBDA i : ledger[i].cost * ledger[i].qty, bought)) \div Moved(bought)

(* _estimate_cogs over the days of S: sales less what came back, at their  *)
(* own cost where it is known and else at the average since cutoff days    *)
(* ago.                                                                    *)
Priced(rows)        == {i \in rows : Known(ledger[i].cost)}
Unpriced(rows, p)   == {i \in rows : ~Known(ledger[i].cost) /\ ledger[i].product = p}
Since(cutoff)       == {d \in 1 .. Days : d > today - cutoff}
CostOf(rows)        == Sum(LAMBDA i : ledger[i].qty * ledger[i].cost, Priced(rows))

(* Mutant: goods that came back still count as sold.                       *)
EstimateCogs_sale_only(S, cutoff) ==
  -100 * CostOf(In(S, "sale"))
   + Sum(LAMBDA p : AtAverage(p, -Moved(Unpriced(In(S, "sale"), p)), Since(cutoff)), Product)

EstimateCogs(S, cutoff) ==
  LET gone == In(S, "sale")
      back == In(S, "refund")
  IN -100 * (CostOf(gone) + CostOf(back))
      + Sum(LAMBDA p : AtAverage(p, -Moved(Unpriced(gone, p)) - Moved(Unpriced(back, p)),
                                 Since(cutoff)), Product)

OfProduct(rows, p) == {i \in rows : ledger[i].product = p}

DailyReport(d) ==
  LET revenue == Worth(In({d}, "sale")) - Worth(In({d}, "refund"))
      cogs    == EstimateCogs({d}, Window)
  IN [revenue |-> revenue, cost |-> Worth(In({d}, "purchase")), cogs |-> cogs,
      gross_profit |-> 100 * revenue - cogs, waste |-> Worth(In({d}, "waste")),
      yesterday |-> Worth(In({d - 1}, "sale"))]

(* What each product brought on a day, and lost or brought over a period:  *)
(* the rankings.                                                           *)
TopProduct(d, p) == Worth(OfProduct(In({d}, "sale"), p)) - Worth(OfProduct(In({d}, "refund"), p))

Ranked(S, p) == [sales |-> Worth(OfProduct(In(S, "sale"), p)),
                 waste |-> Worth(OfProduct(In(S, "waste"), p))]

(* The weekly and the monthly report do not take refunds off.              *)
Period(a, n) == {d \in 1 .. Days : a - n < d /\ d <= a}

PeriodReport(a, n, cutoff) ==
  LET S    == Period(a, n)
      cogs == EstimateCogs(S, cutoff)
  IN [revenue |-> Worth(In(S, "sale")), purchase_cost |-> Worth(In(S, "purchase")),
      cogs |-> cogs, gross_profit |-> 100 * Worth(In(S, "sale")) - cogs,
      last_revenue |-> Worth(In(Period(a - n, n), "sale"))]

(* One day of daily_trends; its cost of goods leaves out what came back.   *)
TrendCogs(d, cutoff) ==
  -100 * CostOf(In({d}, "sale"))
   + Sum(LAMBDA p : AtAverage(p, -Moved(Unpriced(In({d}, "sale"), p)), Since(cutoff)), Product)

TrendDay(d, cutoff) ==
  [revenue |-> Worth(In({d}, "sale")), cost |-> Worth(In({d}, "purchase")),
   gross_profit |-> 100 * Worth(In({d}, "sale")) - TrendCogs(d, cutoff)]

(* The settlement's figures of a day.                                      *)
Counted(d) == {i \in DOMAIN orders : orders[i].born = d /\ orders[i].status \notin {"cancelled", "held"}}

PaidOut(o, d) == Sum(LAMBDA i : IF o.payouts[i].day = d THEN o.payouts[i].amount ELSE 0,
                     DOMAIN o.payouts)

OfChannel(d, kind) == {i \in In({d}, kind) : ledger[i].channel \in {"voice", "offline"}}

TotalSales(d) ==
  Sum(LAMBDA i : Total(orders[i]), Counted(d))
   - Sum(LAMBDA i : PaidOut(orders[i], d), DOMAIN orders)
   + Worth(OfChannel(d, "sale")) - Worth(OfChannel(d, "refund"))

DailyCogs(d) ==
  LET moved == In({d}, "sale") \cup In({d}, "refund")
  IN -100 * CostOf(moved)
      + Sum(LAMBDA p : AtAverage(p, -Moved(Unpriced(moved, p)),
                                 {e \in 1 .. Days : d - Window <= e /\ e <= d}), Product)

-----------------------------------------------------------------------------
(* What must hold *)

(* The day's report and the day's settlement agree: the report takes a     *)
(* sale at the price on the label and on the day the goods went, the       *)
(* settlement at what is to be paid and on the day the order was made;     *)
(* with both named, no cent is left over.                                  *)
Late(d)  == {i \in DOMAIN orders : orders[i].sold # 0 /\ orders[i].born = d /\ orders[i].sold # d}
Early(d) == {i \in DOMAIN orders : orders[i].sold = d /\ orders[i].born # d}

RevenueExplained ==
  \A d \in 1 .. today :
    DailyReport(d).revenue + Sum(LAMBDA i : orders[i].gross, Late(d))
      = TotalSales(d) + Sum(LAMBDA i : orders[i].discount, Counted(d))
                      + Sum(LAMBDA i : orders[i].gross, Early(d))

(* Report and settlement name the same cost of goods, unless goods of      *)
(* unknown cost were sold and a purchase lies in one of the two windows    *)
(* the average is taken over but not in the other.                         *)
SameWindow(d) ==
  \A i \in In(1 .. Days, "purchase") :
    (ledger[i].day \in Since(Window)) = (ledger[i].day \in d - Window .. d)

AllKnown(S) == \A i \in In(S, "sale") \cup In(S, "refund") : Known(ledger[i].cost)

CostsAgree ==
  \A d \in 1 .. today :
    SameWindow(d) \/ AllKnown({d}) => DailyReport(d).cogs = DailyCogs(d)

(* A week is its seven days: its revenue is theirs and the refunds they    *)
(* took off, and its profit theirs and the goods that came back.           *)
WeekIsItsDays ==
  \A a \in 1 .. today :
    LET S == Period(a, Week)
        w == PeriodReport(a, Week, Window)
    IN /\ w.revenue = Sum(LAMBDA d : DailyReport(d).revenue, S) + Worth(In(S, "refund"))
       /\ w.revenue = Sum(LAMBDA d : TrendDay(d, Window).revenue, S)
       /\ \A p \in Product :
            /\ Ranked(S, p).sales = Sum(LAMBDA d : TopProduct(d, p), S)
                                     + Worth(OfProduct(In(S, "refund"), p))
            /\ Ranked(S, p).waste <= Sum(LAMBDA d : DailyReport(d).waste, S)
       /\ AllKnown(S) =>
            /\ w.gross_profit = Sum(LAMBDA d : DailyReport(d).gross_profit, S)
                                  + 100 * Worth(In(S, "refund"))
            /\ w.gross_profit = Sum(LAMBDA d : TrendDay(d, Window).gross_profit, S)
                                  + 100 * CostOf(In(S, "refund"))

(* The reports and the settlement tell one story.                          *)
ReportsAddUp == RevenueExplained /\ CostsAgree /\ WeekIsItsDays

(* A past day stands: while the costs of its goods are known, its report   *)
(* changes only when one of its rows is voided or an offline row of that   *)
(* day comes in.                                                           *)
PastStands ==
  [][\A d \in 1 .. today - 1 :
       \/ ~AllKnown({d})
       \/ \E i \in DOMAIN ledger' :
             /\ ledger'[i].day \in {d, d - 1}
             /\ \/ ledger'[i].voided /\ ~ledger[i].voided
                \/ i \notin DOMAIN ledger /\ ledger'[i].channel = "offline"
       \/ DailyReport(d)' = DailyReport(d)]_vars

(* Known to fail (see the README).  What the docstring of daily_report     *)
(* promises of a past day: the average behind goods of unknown cost is     *)
(* taken over the last days before the reading.                            *)
SnapshotStays ==
  [][\A d \in 1 .. today - 1 :
       ledger' = ledger => DailyReport(d)' = DailyReport(d)]_vars

(* Known to fail when a unit sold is not the unit of the stock: a sale     *)
(* takes stock units, its refund gives back units sold.                    *)
RefundRestoresStock ==
  \A p \in Product :
    LET sold == {i \in DOMAIN orders : orders[i].product = p /\ orders[i].sold # 0}
        rows == {i \in DOMAIN ledger : ledger[i].product = p /\ ledger[i].channel = "pos"}
    IN /\ \A i \in sold : orders[i].back = Quantity
       /\ \A i \in rows : ledger[i].kind = "refund" => ledger[i].qty > 0
       => Moved(rows) = 0
=============================================================================
