------------------------------ MODULE PosOrder ------------------------------
(***************************************************************************)
(* The orders of one merchant's till (routers/pos.py): opening, parking,   *)
(* resuming, cancelling, collecting and refunding them, with the payment   *)
(* flow and the customer receivable every step writes.                     *)
(*                                                                         *)
(* Each handler first reads the daily settlement, with no lock, and only   *)
(* then loads the order FOR UPDATE and works to its commit.  A request is  *)
(* therefore two steps of a terminal: Admit, and the handler proper, which *)
(* the row lock makes atomic.  Amounts are whole cents; an order has one   *)
(* line of Quantity units costing Gross before the discount.               *)
(***************************************************************************)
EXTENDS Allocation

CONSTANTS
  Order,       \* rows of sale_orders
  Terminal,    \* concurrent clients of the till
  Idle,        \* a terminal with no request in flight
  Client,      \* values of client_id, one per sale the shop means to make
  NoClient,
  Txn,         \* values of transaction_id, one per payment a channel made
  NoTxn,
  SplitTxn,    \* those of them the client reports split over methods
  Methods,     \* the payment methods in use in this instance
  Quantity,    \* units of the order line
  Gross,       \* its price
  Totals,      \* the amounts payable the discounts in use leave
  Mismatch,    \* by how much a client's split may miss the amount payable
  Holds,       \* are orders parked in this instance?
  CounterRepay \* do customers also settle debts outside an order?

Method == {"cash", "wechat", "alipay", "card", "credit"}
Money  == Method \ {"credit"}

ASSUME PosConstants ==
  /\ Idle \notin [op : {"create", "hold", "pay", "refund", "resume"},
                  order : Order, client : Client, txn : Txn \cup {NoTxn}]
  /\ NoClient \notin Client /\ NoTxn \notin Txn /\ SplitTxn \subseteq Txn
  /\ Methods \subseteq Method
  /\ Quantity \in Nat \ {0} /\ Gross \in Nat
  /\ Totals \subseteq 1 .. Gross
  /\ Mismatch \in 0 .. 1
  /\ Holds \in BOOLEAN /\ CounterRepay \in BOOLEAN

VARIABLES
  orders,    \* the order with its line, its payments and its receivables
  requests,  \* what each terminal has been admitted to do
  booked,    \* the transaction_ids the payment rows hold
  credited,  \* history: how often each transaction_id's money was credited
  loose      \* customer repayments tied to no order

vars == <<orders, requests, booked, credited, loose>>

Statuses == {"none", "held", "paid", "credit", "partial", "cancelled",
             "partial_refund", "refunded"}

(* took and gave are the sums per method of the order's payment rows with  *)
(* status success and refunded; charged and repaid those of its receivable *)
(* rows, the repay rows of a refund apart (they are gave["credit"]).       *)
OrderRow == [status : Statuses, client : Client \cup {NoClient},
             total : Nat, paid : Nat, refunded : Nat, back : Nat, out : Int,
             took : [Method -> Nat], gave : [Method -> Nat],
             charged : Nat, repaid : Nat]

Ops == {"create", "hold", "pay", "refund", "resume"}

Request == [op : Ops, order : Order, client : Client, txn : Txn \cup {NoTxn}]

-----------------------------------------------------------------------------
Nothing == [m \in Method |-> 0]

InMoney(p) == p["cash"] + p["wechat"] + p["alipay"] + p["card"]
Whole(p)   == InMoney(p) + p["credit"]

(* The ways to split the amount n over the methods S.                      *)
Splits(n, S) == {p \in [Method -> 0 .. n] :
                   Whole(p) = n /\ \A m \in Method \ S : p[m] = 0}

Plus(p, r) == [m \in Method |-> p[m] + r[m]]

NoOrder == [status |-> "none", client |-> NoClient, total |-> 0, paid |-> 0,
            refunded |-> 0, back |-> 0, out |-> 0, took |-> Nothing,
            gave |-> Nothing, charged |-> 0, repaid |-> 0]

Parked(client, total) ==
  [NoOrder EXCEPT !.status = "held", !.client = client, !.total = total]

(* _apply_payments: the amount in one method, on credit, or combined.  A    *)
(* combined payment may be a cent off the amount payable, and its credit   *)
(* part counts as paid; a plain credit sale has paid nothing.              *)
Single(total, m) ==
  [status |-> "paid", took |-> [Nothing EXCEPT ![m] = total],
   paid |-> total, charged |-> 0]

OnCredit(total) ==
  [status |-> "credit", took |-> [Nothing EXCEPT !["credit"] = total],
   paid |-> 0, charged |-> total]

Combined(p) ==
  [status |-> "paid", took |-> p, paid |-> Whole(p), charged |-> p["credit"]]

Payments(total) ==
  {Single(total, m) : m \in Methods \ {"credit"}}
    \cup (IF "credit" \in Methods THEN {OnCredit(total)} ELSE {})
    \cup {Combined(p) :
            p \in UNION {Splits(n, Methods) :
                         n \in Larger(1, total - Mismatch) .. total + Mismatch}}

(* The order once its goods are taken from the batches and it is paid.     *)
Sold(row, total, pay) ==
  [row EXCEPT !.total = total, !.out = Quantity, !.status = pay.status,
              !.took = pay.took, !.paid = pay.paid, !.charged = pay.charged]

Remaining(row) == row.total - row.paid

(* Decimal.quantize rounds half to even.                                   *)
Rounded(n, d) ==
  LET q == n \div d
      r == 2 * (n % d)
  IN IF r > d \/ (r = d /\ q % 2 = 1) THEN q + 1 ELSE q

(* What the refund of k units pays back; the last one settles the rest.    *)
RefundAmount(row, k) ==
  IF row.back + k = Quantity THEN row.total - row.refunded
                             ELSE Rounded(k * row.total, Quantity)

(* The reverse payments: of each method up to all that was ever received   *)
(* in it, money before credit.                                             *)
RefundRank == [m \in Method |-> CASE m = "cash" -> 0 [] m = "wechat" -> 1
                  [] m = "alipay" -> 2 [] m = "card" -> 3 [] m = "credit" -> 4]

(* Mutant: only money goes back, debt is not cancelled.                    *)
IsReversal_money_only(r, row, amount) ==
  LET original(m)  == row.took[m]
      before(m, n) == RefundRank[m] < RefundRank[n]
  IN IsSplit(r, amount, Money, original, before)

IsReversal(r, row, amount) ==
  LET original(m)  == row.took[m]
      before(m, n) == RefundRank[m] < RefundRank[n]
  IN IsSplit(r, amount, Method, original, before)

-----------------------------------------------------------------------------
Init ==
  /\ orders = [o \in Order |-> NoOrder]
  /\ requests = [t \in Terminal |-> Idle]
  /\ booked = {}
  /\ credited = [x \in Txn |-> 0]
  /\ loose = 0

(* The settlement check, and the request waiting for its turn.  A client   *)
(* that got no answer sends the same client_id or transaction_id again.    *)
Admit(t, req) ==
  /\ requests[t] = Idle
  /\ req.op \in {"hold", "resume"} => Holds
  /\ requests' = [requests EXCEPT ![t] = req]
  /\ UNCHANGED <<orders, booked, credited, loose>>

Answer(t) == requests' = [requests EXCEPT ![t] = Idle]

Pending(t, op) == requests[t] # Idle /\ requests[t].op = op

(* Any 4xx: short stock, a bad amount, a wrong status.  The transaction    *)
(* rolls back.                                                             *)
Reject(t) ==
  /\ requests[t] # Idle
  /\ Answer(t)
  /\ UNCHANGED <<orders, booked, credited, loose>>

(* Mutant: no unique key on client_id.                                     *)
Known_never(client) == FALSE

Known(client) == \E o \in Order : orders[o].client = client

(* create_sale_order: the unique key on client_id leaves one winner, and   *)
(* everyone else is answered with its order.                               *)
Create(t) ==
  LET req == requests[t] IN
  /\ Pending(t, "create")
  /\ Answer(t)
  /\ IF Known(req.client) THEN UNCHANGED orders
     ELSE /\ orders[req.order].status = "none"
          /\ \E total \in Totals : \E pay \in Payments(total) :
               orders' = [orders EXCEPT ![req.order] =
                            Sold([@ EXCEPT !.client = req.client], total, pay)]
  /\ UNCHANGED <<booked, credited, loose>>

Hold(t) ==
  LET req == requests[t] IN
  /\ Pending(t, "hold")
  /\ ~Known(req.client)
  /\ orders[req.order].status = "none"
  /\ Answer(t)
  /\ \E total \in Totals :
       orders' = [orders EXCEPT ![req.order] = Parked(req.client, total)]
  /\ UNCHANGED <<booked, credited, loose>>

(* resume_held_order, with a new discount or the old one.                  *)
Resume(t) ==
  LET row == orders[requests[t].order] IN
  /\ Pending(t, "resume")
  /\ row.status = "held"
  /\ Answer(t)
  /\ \E total \in Totals : \E pay \in Payments(total) :
       orders' = [orders EXCEPT ![requests[t].order] = Sold(row, total, pay)]
  /\ UNCHANGED <<booked, credited, loose>>

(* Mutant: the status is not read again under the lock.                    *)
Cancel_any(o) ==
  /\ orders[o].status \in {"held", "paid"}
  /\ orders' = [orders EXCEPT ![o].status = "cancelled"]
  /\ UNCHANGED <<requests, booked, credited, loose>>

(* cancel_held_order: the one handler that does not ask the settlement.    *)
Cancel(o) ==
  /\ orders[o].status = "held"
  /\ orders' = [orders EXCEPT ![o].status = "cancelled"]
  /\ UNCHANGED <<requests, booked, credited, loose>>

(* Mutant: only a credit order's first payment repays its debt.            *)
Collected_first_only(row, p) ==
  LET paid == row.paid + Whole(p) IN
  [row EXCEPT !.took = Plus(@, p),
              !.paid = paid,
              !.status = IF paid >= row.total THEN "paid" ELSE "partial",
              !.repaid = @ + (IF row.status = "credit" THEN Whole(p) ELSE 0)]

(* The order after p is received for it; a customer who owed repays.       *)
Collected(row, p) ==
  LET paid == row.paid + Whole(p) IN
  [row EXCEPT !.took = Plus(@, p),
              !.paid = paid,
              !.status = IF paid >= row.total THEN "paid" ELSE "partial",
              !.repaid = @ + (IF row.status \in {"credit", "partial"}
                              THEN Whole(p) ELSE 0)]

Payable(row) ==
  /\ row.status \in {"paid", "credit", "partial"}
  /\ Remaining(row) > 0

(* Mutant: the payment row does not keep the transaction_id.               *)
Pay_unkeyed(t) ==
  LET req == requests[t]
      row == orders[req.order]
  IN
  /\ Pending(t, "pay") /\ Payable(row)
  /\ \E n \in 1 .. Remaining(row), m \in Methods \cap Money :
       orders' = [orders EXCEPT ![req.order] = Collected(row, [Nothing EXCEPT ![m] = n])]
  /\ booked' = booked
  /\ credited' = [x \in Txn |-> credited[x] + (IF x = req.txn THEN 1 ELSE 0)]
  /\ Answer(t)
  /\ UNCHANGED loose

(* pay_sale_order.  A payment in one method keeps the transaction_id it    *)
(* came with, and a later request with the same one is only answered; the  *)
(* rows of a combined payment keep none.                                   *)
Pay(t) ==
  LET req == requests[t]
      row == orders[req.order]
  IN
  /\ Pending(t, "pay")
  /\ req.txn \notin booked /\ Payable(row)
  /\ \E n \in 1 .. Remaining(row) : \E p \in Splits(n, Methods \cap Money) :
       /\ req.txn \in Txn \ SplitTxn => \E m \in Money : p[m] = n
       /\ orders' = [orders EXCEPT ![req.order] = Collected(row, p)]
  /\ booked' = booked \cup ({req.txn} \cap (Txn \ SplitTxn))
  /\ credited' = [x \in Txn |-> credited[x] + (IF x = req.txn THEN 1 ELSE 0)]
  /\ Answer(t)
  /\ UNCHANGED loose

(* The order after k of its units come back, r being paid out.             *)
Refunded(row, k, r, returned) ==
  [row EXCEPT !.back = @ + k,
              !.out = @ - (IF returned THEN k ELSE 0),
              !.refunded = @ + RefundAmount(row, k),
              !.gave = Plus(@, r),
              !.status = IF row.back + k = Quantity THEN "refunded"
                                                    ELSE "partial_refund"]

Refund(t) ==
  LET o   == requests[t].order
      row == orders[o]
  IN
  /\ Pending(t, "refund")
  /\ row.status \in {"paid", "credit", "partial", "partial_refund"}
  /\ \E k \in 1 .. Quantity - row.back, returned \in BOOLEAN :
       LET amount == Larger(RefundAmount(row, k), 0) IN
       \E r \in [Method -> 0 .. amount] :
         /\ IsReversal(r, row, amount)
         /\ orders' = [orders EXCEPT ![o] = Refunded(row, k, r, returned)]
  /\ Answer(t)
  /\ UNCHANGED <<booked, credited, loose>>

Owed(row) == row.charged - row.repaid - row.gave["credit"]

(* What the customer owes by the receivable rows, orders or not.           *)
Balance == Sum(LAMBDA o : Owed(orders[o]), Order) - loose

(* The debt a customer settles without naming an order (operations.py).    *)
RepayCustomer ==
  /\ CounterRepay
  /\ \E n \in 1 .. Gross :
       /\ n <= Balance
       /\ loose' = loose + n
  /\ UNCHANGED <<orders, requests, booked, credited>>

-----------------------------------------------------------------------------
Next ==
  \/ \E t \in Terminal, req \in Request : Admit(t, req)
  \/ \E t \in Terminal : Create(t)
  \/ \E t \in Terminal : Hold(t)
  \/ \E t \in Terminal : Resume(t)
  \/ \E t \in Terminal : Pay(t)
  \/ \E t \in Terminal : Refund(t)
  \/ \E t \in Terminal : Reject(t)
  \/ \E o \in Order : Cancel(o)
  \/ RepayCustomer

Spec == Init /\ [][Next]_vars

-----------------------------------------------------------------------------
(* Properties *)

TypeOK ==
  /\ orders \in [Order -> OrderRow]
  /\ requests \in [Terminal -> Request \cup {Idle}]
  /\ booked \subseteq Txn
  /\ credited \in [Txn -> Nat]
  /\ loose \in Nat

Done(o) == orders[o].status \in {"paid", "credit", "partial", "partial_refund", "refunded"}

Abs(n) == Larger(n, -n)

(* By how much the money and the open debt of an order miss its price.     *)
Miss(row) == InMoney(row.took) + row.charged - row.repaid - row.total

(* Every cent of an order's price is either received in money or still a   *)
(* receivable, through combined payments, later collections and refunds in *)
(* any order, but for the cent a combined payment may be off.              *)
PaidOrOwed == \A o \in Order : Done(o) => Abs(Miss(orders[o])) <= Mismatch

(* A cancelled or parked order has moved neither goods nor money: a cancel *)
(* that races a resume must lose (the row lock of cancel_held_order).      *)
CancelledTookNothing ==
  \A o \in Order : orders[o].status \in {"held", "cancelled"} =>
    orders[o].out = 0 /\ orders[o].took = Nothing /\ orders[o].charged = 0

(* A refunded or cancelled order is finished: no late payment, resume or   *)
(* second refund changes it.                                               *)
FinishedIsFinal ==
  [][\A o \in Order : orders[o].status \in {"refunded", "cancelled"}
       => orders'[o] = orders[o]]_vars

(* However often clients retry, one client_id is one order.                *)
OneOrderPerClient ==
  \A o, u \in Order : orders[o].client = orders[u].client /\ orders[o].client # NoClient
                        => o = u

(* A payment of a channel is booked once, whichever order its retries are  *)
(* sent for.                                                               *)
BookedOnce == \A x \in Txn : credited[x] <= 1

(* A partial refund is rounded to the cent, half a cent up at most for     *)
(* each unit: what the last unit is worth has to make up for all the       *)
(* others.                                                                 *)
RoundingFits(row) == Quantity * (Quantity - 1) <= 2 * row.total

Exact(row) == Miss(row) = 0 /\ RoundingFits(row)

(* refunded_amount is what the reverse payments and the cancelled debt     *)
(* come to, in any sequence of partial refunds, for an order whose payment *)
(* was right to the cent and whose last unit bears the rounding.           *)
RefundIsPaidOut ==
  \A o \in Order : Exact(orders[o]) => orders[o].refunded = Whole(orders[o].gave)

(* What the comment on the residual says: of an order sent back whole the  *)
(* refunded amount is identically what the reverse payments and the        *)
(* cancelled debt come to.  Units sent back one by one can have been       *)
(* rounded up to more than the price: the residual is negative then, and   *)
(* nothing is paid in.                                                     *)
RefundedInFull ==
  \A o \in Order : orders[o].status = "refunded" /\ Miss(orders[o]) = 0
                      => orders[o].refunded = Whole(orders[o].gave)

(* A refund never pays out more in a method than was received in it.       *)
SameChannel == \A o \in Order, m \in Method : orders[o].gave[m] <= orders[o].took[m]

(* Money goes back before debt is cancelled, so the debt such an order     *)
(* leaves is never overpaid.                                               *)
DebtNeverNegative ==
  \A o \in Order : Exact(orders[o]) => Owed(orders[o]) >= 0

(* What an order paid back is what its refunds are worth, and the debt it  *)
(* leaves is never overpaid.                                               *)
RefundsAddUp == RefundIsPaidOut /\ DebtNeverNegative

=============================================================================
