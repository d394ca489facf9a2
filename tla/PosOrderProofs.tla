--------------------------- MODULE PosOrderProofs ---------------------------
(***************************************************************************)
(* For any number of orders, terminals, clients and transactions, and any  *)
(* prices: the till's rows keep their types, and every cent of a sale is   *)
(* received or owed.                                                       *)
(***************************************************************************)
EXTENDS PosOrder, AllocationProofs

(* An order with debt balances exactly, so that each later payment, which  *)
(* repays as much debt, keeps it so; an order a combined payment left a    *)
(* cent short shows that cent in paid_amount, and only that cent can still *)
(* be collected.                                                           *)
Balanced(row) ==
  /\ row.status \in {"none", "held"} => row.repaid = 0
  /\ row.status \in {"credit", "partial"} => Miss(row) = 0
  /\ row.status = "paid" /\ row.paid < row.total => Miss(row) = row.paid - row.total
  /\ row.status \in {"paid", "credit", "partial", "partial_refund", "refunded"}
       => -Mismatch <= Miss(row) /\ Miss(row) <= Mismatch

Good(row) == row \in OrderRow /\ Balanced(row)

IInv == TypeOK /\ \A o \in Order : Good(orders[o])

LEMMA NothingType == Nothing \in [Method -> Nat] /\ InMoney(Nothing) = 0
  BY DEF Nothing, Method, InMoney

LEMMA NoOrderGood == Good(NoOrder)
  BY NothingType DEF Good, NoOrder, OrderRow, Statuses, Balanced

LEMMA PlusType ==
  ASSUME NEW p \in [Method -> Nat], NEW r \in [Method -> Nat]
  PROVE  /\ Plus(p, r) \in [Method -> Nat]
         /\ InMoney(Plus(p, r)) = InMoney(p) + InMoney(r)
  BY DEF Plus, Method, InMoney

(* What a checkout may come to: the right tender, and the gap it leaves.   *)
Checkout(pay, total) ==
  /\ pay.status \in {"paid", "credit"}
  /\ pay.took \in [Method -> Nat] /\ pay.paid \in Nat /\ pay.charged \in Nat
  /\ LET gap == InMoney(pay.took) + pay.charged - total IN
       /\ pay.status = "credit" => gap = 0
       /\ pay.status = "paid" => gap = pay.paid - total
       /\ -Mismatch <= gap /\ gap <= Mismatch

LEMMA PaymentsCheckOut ==
  ASSUME NEW total \in Totals, NEW pay \in Payments(total)
  PROVE  total \in Nat /\ Checkout(pay, total)
<1>1. total \in Nat \ {0} /\ Mismatch \in 0 .. 1
  BY PosConstants
<1>2. CASE \E m \in Methods \ {"credit"} : pay = Single(total, m)
  <2>1. PICK m \in Methods \ {"credit"} : pay = Single(total, m)
    BY <1>2
  <2>2. m \in Money
    BY PosConstants DEF Money
  <2> QED BY <1>1, <2>1, <2>2, NothingType
          DEF Single, Checkout, Money, Method, Nothing, InMoney
<1>3. CASE pay = OnCredit(total)
  BY <1>1, <1>3 DEF OnCredit, Checkout, Method, Nothing, InMoney
<1>4. CASE \E n \in Larger(1, total - Mismatch) .. total + Mismatch :
             \E p \in Splits(n, Methods) : pay = Combined(p)
  <2>0. PICK n \in Larger(1, total - Mismatch) .. total + Mismatch :
               \E p \in Splits(n, Methods) : pay = Combined(p)
    BY <1>4
  <2>1. PICK p \in Splits(n, Methods) : pay = Combined(p)
    BY <2>0
  <2>2. /\ n \in Nat /\ total - Mismatch <= n /\ n <= total + Mismatch
        /\ p \in [Method -> 0 .. n] /\ Whole(p) = n
    BY <1>1 DEF Splits, Larger
  <2>3. p \in [Method -> Nat] /\ "credit" \in Method
    BY <2>2 DEF Method
  <2> QED BY <1>1, <2>1, <2>2, <2>3 DEF Combined, Checkout, Whole, Method, InMoney
<1>5. \/ \E m \in Methods \ {"credit"} : pay = Single(total, m)
      \/ pay = OnCredit(total)
      \/ \E n \in Larger(1, total - Mismatch) .. total + Mismatch :
           \E p \in Splits(n, Methods) : pay = Combined(p)
  BY DEF Payments
<1> QED BY <1>1, <1>2, <1>3, <1>4, <1>5

LEMMA SoldGood ==
  ASSUME NEW row, Good(row), row.status \in {"none", "held"},
         NEW total \in Totals, NEW pay \in Payments(total)
  PROVE  Good(Sold(row, total, pay))
<1> DEFINE new == Sold(row, total, pay)
<1>1. total \in Nat /\ Checkout(pay, total)
  BY PaymentsCheckOut
<1>2. /\ row \in OrderRow /\ row.repaid = 0 /\ Quantity \in Nat
      /\ Mismatch \in 0 .. 1
  BY PosConstants DEF Good, Balanced
<1> DEFINE status == pay.status
           took == pay.took
           paid == pay.paid
           charged == pay.charged
<1>3. /\ row \in OrderRow /\ total \in Nat /\ Quantity \in Int
      /\ took \in [Method -> Nat] /\ paid \in Nat /\ charged \in Nat
      /\ status \in Statuses
      /\ new = [row EXCEPT !.total = total, !.out = Quantity, !.status = status,
                           !.took = took, !.paid = paid, !.charged = charged]
  BY <1>1, <1>2 DEF Checkout, Statuses, Sold
<1> HIDE DEF new, status, took, paid, charged
<1>4. /\ new \in OrderRow
      /\ new.total = total /\ new.status = status /\ new.took = took
      /\ new.paid = paid /\ new.charged = charged /\ new.repaid = row.repaid
  BY <1>3 DEF OrderRow
<1> USE DEF status, took, paid, charged
<1>5. InMoney(pay.took) \in Int
  BY <1>1 DEF Checkout, InMoney, Method
<1>6. Balanced(new)
  BY <1>1, <1>2, <1>4, <1>5 DEF Balanced, Miss, Checkout
<1> QED BY <1>4, <1>6 DEF Good, new

LEMMA CollectedGood ==
  ASSUME NEW row, Good(row), Payable(row),
         NEW n \in 1 .. Remaining(row), NEW p \in Splits(n, Methods \cap Money)
  PROVE  Good(Collected(row, p))
<1> DEFINE new == Collected(row, p)
<1>1. /\ row \in OrderRow /\ Mismatch \in 0 .. 1
      /\ row.status \in {"paid", "credit", "partial"}
      /\ row.total \in Nat /\ row.paid \in Nat /\ row.repaid \in Nat /\ row.charged \in Nat
      /\ row.took \in [Method -> Nat] /\ Remaining(row) = row.total - row.paid
  BY PosConstants DEF Good, OrderRow, Payable, Remaining
<1>2. /\ n \in Nat \ {0} /\ row.paid + n <= row.total
      /\ p \in [Method -> 0 .. n] /\ Whole(p) = n /\ p["credit"] = 0
  BY <1>1 DEF Splits, Money, Method
<1>3. p \in [Method -> Nat] /\ InMoney(p) = n
  BY <1>2 DEF Whole, InMoney, Method
<1>4. /\ Plus(row.took, p) \in [Method -> Nat]
      /\ InMoney(Plus(row.took, p)) = InMoney(row.took) + n
  BY <1>1, <1>3, PlusType
<1> DEFINE repaid == row.repaid + (IF row.status \in {"credit", "partial"} THEN n ELSE 0)
           status == IF row.paid + n >= row.total THEN "paid" ELSE "partial"
<1>5. new = [row EXCEPT !.took = Plus(row.took, p), !.paid = row.paid + n,
                        !.status = status, !.repaid = repaid]
  BY <1>2 DEF Collected
<1>6. repaid \in Nat /\ status \in Statuses
  BY <1>1, <1>2 DEF Statuses
<1> HIDE DEF new
<1>7. /\ new \in OrderRow
      /\ new.took = Plus(row.took, p) /\ new.paid = row.paid + n /\ new.status = status
      /\ new.repaid = repaid /\ new.total = row.total /\ new.charged = row.charged
  <2> HIDE DEF repaid, status
  <2> DEFINE took == Plus(row.took, p)
             paid == row.paid + n
  <2>1. /\ row \in OrderRow /\ took \in [Method -> Nat] /\ paid \in Nat
        /\ status \in Statuses /\ repaid \in Nat
        /\ new = [row EXCEPT !.took = took, !.paid = paid, !.status = status,
                             !.repaid = repaid]
    BY <1>1, <1>2, <1>4, <1>5, <1>6
  <2> HIDE DEF took, paid
  <2>2. /\ new \in OrderRow
        /\ new.took = took /\ new.paid = paid /\ new.status = status
        /\ new.repaid = repaid /\ new.total = row.total /\ new.charged = row.charged
    BY <2>1 DEF OrderRow
  <2> QED BY <2>2 DEF took, paid
<1>8. InMoney(row.took) \in Int
  BY <1>1 DEF InMoney, Method
<1>9. Balanced(new)
  <2>1. Balanced(row)
    BY DEF Good
  <2>2. Miss(new) = Miss(row) + n - (repaid - row.repaid) /\ Miss(row) \in Int
    BY <1>1, <1>2, <1>4, <1>6, <1>7, <1>8 DEF Miss
  <2>3. CASE row.status = "paid"
    BY <1>1, <1>2, <1>7, <2>1, <2>2, <2>3 DEF Balanced
  <2>4. CASE row.status \in {"credit", "partial"}
    BY <1>1, <1>2, <1>7, <2>1, <2>2, <2>4 DEF Balanced
  <2> QED BY <1>1, <2>3, <2>4
<1> QED BY <1>7, <1>9 DEF Good, new

(* Half-even rounding of an amount is an amount.                           *)
LEMMA RoundedType ==
  ASSUME NEW n \in Nat, NEW d \in Nat \ {0}
  PROVE  Rounded(n, d) \in Nat
  BY DEF Rounded

LEMMA RefundedGood ==
  ASSUME NEW row, Good(row),
         row.status \in {"paid", "credit", "partial", "partial_refund"},
         NEW k \in 1 .. Quantity - row.back, NEW returned \in BOOLEAN,
         NEW r \in [Method -> 0 .. Larger(RefundAmount(row, k), 0)]
  PROVE  Good(Refunded(row, k, r, returned))
<1> DEFINE new    == Refunded(row, k, r, returned)
           status == IF row.back + k = Quantity THEN "refunded" ELSE "partial_refund"
<1>1. /\ row \in OrderRow /\ Quantity \in Nat \ {0} /\ Mismatch \in 0 .. 1
      /\ row.total \in Nat /\ row.back \in Nat /\ row.refunded \in Nat
      /\ row.gave \in [Method -> Nat] /\ row.out \in Int
      /\ k \in Nat \ {0}
  BY PosConstants DEF Good, OrderRow
<1>2. k * row.total \in Nat
  BY <1>1
<1>3. RefundAmount(row, k) \in Int /\ row.refunded + RefundAmount(row, k) \in Nat
  <2>1. Rounded(k * row.total, Quantity) \in Nat
    BY <1>1, <1>2, RoundedType
  <2> QED BY <1>1, <2>1 DEF RefundAmount
<1>4. r \in [Method -> Nat]
  BY <1>3 DEF Larger
<1>5. Plus(row.gave, r) \in [Method -> Nat]
  BY <1>1, <1>4, PlusType
<1>6. /\ new \in OrderRow
      /\ new.took = row.took /\ new.charged = row.charged /\ new.repaid = row.repaid
      /\ new.total = row.total /\ new.status = status
  <2> DEFINE back == row.back + k
             out == row.out - (IF returned THEN k ELSE 0)
             refunded == row.refunded + RefundAmount(row, k)
             gave == Plus(row.gave, r)
  <2>1. /\ row \in OrderRow /\ back \in Nat /\ out \in Int /\ refunded \in Nat
        /\ gave \in [Method -> Nat] /\ status \in Statuses
        /\ new = [row EXCEPT !.back = back, !.out = out, !.refunded = refunded,
                             !.gave = gave, !.status = status]
    BY <1>1, <1>3, <1>5 DEF Statuses, Refunded
  <2> HIDE DEF new, status, back, out, refunded, gave
  <2> QED BY <2>1 DEF OrderRow
<1>7. Balanced(new)
  <2>1. Balanced(row)
    BY DEF Good
  <2>2. Miss(new) = Miss(row)
    BY <1>6 DEF Miss
  <2> QED BY <1>6, <2>1, <2>2 DEF Balanced
<1> QED BY <1>6, <1>7 DEF Good

LEMMA HeldGood ==
  ASSUME NEW client \in Client, NEW total \in Totals
  PROVE  Good(Parked(client, total))
<1> DEFINE new == Parked(client, total)
<1>1. total \in Nat /\ NoOrder \in OrderRow /\ NoOrder.repaid = 0
  BY NoOrderGood, PosConstants DEF Good, NoOrder
<1>2. new = [NoOrder EXCEPT !.status = "held", !.client = client, !.total = total]
  BY DEF Parked
<1> HIDE DEF new
<1>3. new \in OrderRow /\ new.status = "held" /\ new.repaid = 0
  BY <1>1, <1>2 DEF OrderRow, Statuses
<1> QED BY <1>3 DEF Good, Balanced, new

(* One row changes and stays good.                                         *)
LEMMA OneRow ==
  ASSUME IInv, NEW o \in Order, NEW new, Good(new),
         orders' = [orders EXCEPT ![o] = new]
  PROVE  orders' \in [Order -> OrderRow] /\ \A u \in Order : Good(orders'[u])
  BY DEF IInv, TypeOK, Good

LEMMA InitIInv == Init => IInv
<1> SUFFICES ASSUME Init PROVE IInv
  OBVIOUS
<1>1. \A o \in Order : Good(orders[o])
  BY NoOrderGood DEF Init
<1>2. TypeOK
  BY <1>1 DEF Init, TypeOK, Good
<1> QED BY <1>1, <1>2 DEF IInv

LEMMA StepIInv == IInv /\ [Next]_vars => IInv'
<1> SUFFICES ASSUME IInv, [Next]_vars PROVE IInv'
  OBVIOUS
<1>0. /\ TypeOK /\ \A o \in Order : Good(orders[o])
  BY DEF IInv
<1>a. ASSUME NEW t \in Terminal, NEW op \in Ops, Pending(t, op)
      PROVE  /\ requests[t].order \in Order /\ requests[t].client \in Client
             /\ requests[t].txn \in Txn \cup {NoTxn}
  BY <1>0, <1>a DEF TypeOK, Pending, Request
(* Whatever a request does to the orders, answering it keeps the rest.     *)
<1>b. ASSUME NEW t \in Terminal, Answer(t),
             orders' \in [Order -> OrderRow], \A u \in Order : Good(orders'[u]),
             booked' \subseteq Txn, credited' \in [Txn -> Nat], loose' = loose
      PROVE  IInv'
  BY <1>0, <1>b DEF IInv, TypeOK, Answer, Good
<1>c. orders \in [Order -> OrderRow] /\ booked \subseteq Txn /\ credited \in [Txn -> Nat]
  BY <1>0 DEF TypeOK
<1>1. ASSUME NEW t \in Terminal, NEW req \in Request, Admit(t, req) PROVE IInv'
  BY <1>0, <1>1 DEF Admit, IInv, TypeOK, Good
<1>2. ASSUME NEW t \in Terminal, Create(t) PROVE IInv'
  <2> DEFINE o == requests[t].order
  <2>0. o \in Order /\ requests[t].client \in Client
    BY <1>a, <1>2 DEF Create, Ops
  <2>1. CASE Known(requests[t].client)
    BY <1>0, <1>b, <1>c, <1>2, <2>1 DEF Create
  <2>2. CASE ~Known(requests[t].client)
    <3>1. orders[o].status = "none"
      BY <1>2, <2>2 DEF Create
    <3> DEFINE row == [orders[o] EXCEPT !.client = requests[t].client]
    <3>2. PICK total \in Totals : \E pay \in Payments(total) :
                 orders' = [orders EXCEPT ![o] = Sold(row, total, pay)]
      BY <1>2, <2>2 DEF Create
    <3>3. PICK pay \in Payments(total) :
                 orders' = [orders EXCEPT ![o] = Sold(row, total, pay)]
      BY <3>2
    <3>4. orders[o] \in OrderRow /\ Balanced(orders[o])
      BY <1>0, <2>0 DEF Good
    <3>5. row \in OrderRow /\ row.status = "none" /\ row.repaid = orders[o].repaid
      BY <2>0, <3>1, <3>4 DEF OrderRow
    <3>6. Good(row)
      BY <3>1, <3>4, <3>5 DEF Good, Balanced
    <3> HIDE DEF row, o
    <3>7. Good(Sold(row, total, pay))
      BY <3>5, <3>6, SoldGood
    <3>8. orders' \in [Order -> OrderRow] /\ \A u \in Order : Good(orders'[u])
      BY <2>0, <3>3, <3>7, OneRow
    <3> QED BY <1>b, <1>c, <1>2, <3>8 DEF Create
  <2> QED BY <2>1, <2>2
<1>3. ASSUME NEW t \in Terminal, Hold(t) PROVE IInv'
  <2>0. requests[t].order \in Order /\ requests[t].client \in Client
    BY <1>a, <1>3 DEF Hold, Ops
  <2>1. PICK total \in Totals : orders' = [orders EXCEPT
               ![requests[t].order] = Parked(requests[t].client, total)]
    BY <1>3 DEF Hold
  <2>2. orders' \in [Order -> OrderRow] /\ \A u \in Order : Good(orders'[u])
    BY <2>0, <2>1, HeldGood, OneRow
  <2> QED BY <1>b, <1>c, <1>3, <2>2 DEF Hold
<1>4. ASSUME NEW t \in Terminal, Resume(t) PROVE IInv'
  <2> DEFINE o == requests[t].order
  <2>0. o \in Order
    BY <1>a, <1>4 DEF Resume, Ops
  <2>1. orders[o].status = "held" /\ Good(orders[o])
    BY <1>0, <1>4, <2>0 DEF Resume
  <2>2. PICK total \in Totals : \E pay \in Payments(total) :
               orders' = [orders EXCEPT ![o] = Sold(orders[o], total, pay)]
    BY <1>4 DEF Resume
  <2>3. PICK pay \in Payments(total) :
               orders' = [orders EXCEPT ![o] = Sold(orders[o], total, pay)]
    BY <2>2
  <2> HIDE DEF o
  <2>4. Good(Sold(orders[o], total, pay))
    BY <2>1, SoldGood
  <2>5. orders' \in [Order -> OrderRow] /\ \A u \in Order : Good(orders'[u])
    BY <2>0, <2>3, <2>4, OneRow
  <2> QED BY <1>b, <1>c, <1>4, <2>5 DEF Resume
<1>5. ASSUME NEW t \in Terminal, Pay(t) PROVE IInv'
  <2> DEFINE o == requests[t].order
  <2>0. o \in Order /\ requests[t].txn \in Txn \cup {NoTxn}
    BY <1>a, <1>5 DEF Pay, Ops
  <2>1. Payable(orders[o]) /\ Good(orders[o])
    BY <1>0, <1>5, <2>0 DEF Pay
  <2>2. PICK n \in 1 .. Remaining(orders[o]) :
               \E p \in Splits(n, Methods \cap Money) :
                 orders' = [orders EXCEPT ![o] = Collected(orders[o], p)]
    BY <1>5 DEF Pay
  <2>3. PICK p \in Splits(n, Methods \cap Money) :
               orders' = [orders EXCEPT ![o] = Collected(orders[o], p)]
    BY <2>2
  <2>4. booked' \subseteq Txn /\ credited' \in [Txn -> Nat]
    BY <1>c, <1>5 DEF Pay
  <2> HIDE DEF o
  <2>5. Good(Collected(orders[o], p))
    BY <2>1, CollectedGood
  <2>6. orders' \in [Order -> OrderRow] /\ \A u \in Order : Good(orders'[u])
    BY <2>0, <2>3, <2>5, OneRow
  <2> QED BY <1>b, <1>5, <2>4, <2>6 DEF Pay
<1>6. ASSUME NEW t \in Terminal, Refund(t) PROVE IInv'
  <2> DEFINE o == requests[t].order
  <2>0. o \in Order
    BY <1>a, <1>6 DEF Refund, Ops
  <2>1. /\ orders[o].status \in {"paid", "credit", "partial", "partial_refund"}
        /\ Good(orders[o])
    BY <1>0, <1>6, <2>0 DEF Refund
  <2>2. PICK k \in 1 .. Quantity - orders[o].back, returned \in BOOLEAN :
               \E r \in [Method -> 0 .. Larger(RefundAmount(orders[o], k), 0)] :
                 orders' = [orders EXCEPT ![o] = Refunded(orders[o], k, r, returned)]
    BY <1>6 DEF Refund
  <2>3. PICK r \in [Method -> 0 .. Larger(RefundAmount(orders[o], k), 0)] :
               orders' = [orders EXCEPT ![o] = Refunded(orders[o], k, r, returned)]
    BY <2>2
  <2> HIDE DEF o
  <2>4. Good(Refunded(orders[o], k, r, returned))
    BY <2>1, RefundedGood
  <2>5. orders' \in [Order -> OrderRow] /\ \A u \in Order : Good(orders'[u])
    BY <2>0, <2>3, <2>4, OneRow
  <2> QED BY <1>b, <1>c, <1>6, <2>5 DEF Refund
<1>7. ASSUME NEW t \in Terminal, Reject(t) PROVE IInv'
  BY <1>0, <1>b, <1>c, <1>7 DEF Reject
<1>8. ASSUME NEW o \in Order, Cancel(o) PROVE IInv'
  <2>1. orders[o] \in OrderRow /\ orders[o].status = "held" /\ Balanced(orders[o])
    BY <1>0, <1>8 DEF Cancel, Good
  <2> DEFINE new == [orders[o] EXCEPT !.status = "cancelled"]
  <2>2. orders' = [orders EXCEPT ![o] = new]
    BY <1>8 DEF Cancel
  <2>3. new \in OrderRow /\ new.status = "cancelled"
    BY <2>1 DEF OrderRow, Statuses
  <2>4. Good(new)
    BY <2>3 DEF Good, Balanced
  <2> HIDE DEF new
  <2>5. orders' \in [Order -> OrderRow] /\ \A u \in Order : Good(orders'[u])
    BY <2>2, <2>4, OneRow
  <2> QED BY <1>0, <1>8, <2>5 DEF Cancel, IInv, TypeOK, Good
<1>9. CASE RepayCustomer
  <2>1. loose' \in Nat
    BY <1>0, <1>9, PosConstants DEF RepayCustomer, TypeOK
  <2> QED BY <1>0, <1>9, <2>1 DEF RepayCustomer, IInv, TypeOK, Good
<1>10. CASE UNCHANGED vars
  BY <1>0, <1>10 DEF vars, IInv, TypeOK, Good
<1> QED
  BY <1>1, <1>2, <1>3, <1>4, <1>5, <1>6, <1>7, <1>8, <1>9, <1>10 DEF Next

(* The rows keep their types: no amount, count or balance field goes below *)
(* zero, the rounding residual of the last refund included.                *)
THEOREM TypeCorrect == Spec => []TypeOK
<1>1. Init => IInv
  BY InitIInv
<1>2. IInv /\ [Next]_vars => IInv'
  BY StepIInv
<1>3. IInv => TypeOK
  BY DEF IInv
<1> QED BY <1>1, <1>2, <1>3, PTL DEF Spec

(* Through any interleaving of sales, collections, refunds and retries,    *)
(* what an order received and what is still owed for it make up its price. *)
THEOREM PaidOrOwedHolds == Spec => []PaidOrOwed
<1>1. Init => IInv
  BY InitIInv
<1>2. IInv /\ [Next]_vars => IInv'
  BY StepIInv
<1>3. IInv => PaidOrOwed
  <2> SUFFICES ASSUME IInv, NEW o \in Order, Done(o)
               PROVE  Abs(Miss(orders[o])) <= Mismatch
    BY DEF PaidOrOwed, Miss
  <2>1. orders[o] \in OrderRow /\ Mismatch \in 0 .. 1
        /\ -Mismatch <= Miss(orders[o]) /\ Miss(orders[o]) <= Mismatch
    BY PosConstants DEF IInv, Good, Balanced, Done
  <2>2. Miss(orders[o]) \in Int
    BY <2>1 DEF Miss, InMoney, OrderRow, Method
  <2> QED BY <2>1, <2>2 DEF Abs, Larger
<1> QED BY <1>1, <1>2, <1>3, PTL DEF Spec

-----------------------------------------------------------------------------
(* What one step may do to an order                                        *)

IsCheckout(row, new) ==
  \E total \in Totals : \E pay \in Payments(total) : new = Sold(row, total, pay)

IsRefund(row, new) ==
  \E k \in 1 .. Quantity - row.back, returned \in BOOLEAN :
    \E r \in [Method -> 0 .. Larger(RefundAmount(row, k), 0)] :
      /\ IsReversal(r, row, Larger(RefundAmount(row, k), 0))
      /\ new = Refunded(row, k, r, returned)

Move(row, new) ==
  \/ row.status = "none" /\ \E client \in Client : IsCheckout([row EXCEPT !.client = client], new)
  \/ /\ row.status = "none"
     /\ \E client \in Client, total \in Totals : new = Parked(client, total)
  \/ row.status = "held" /\ IsCheckout(row, new)
  \/ /\ Payable(row)
     /\ \E n \in 1 .. Remaining(row) : \E p \in Splits(n, Methods \cap Money) :
          new = Collected(row, p)
  \/ row.status \in {"paid", "credit", "partial", "partial_refund"} /\ IsRefund(row, new)
  \/ row.status = "held" /\ new = [row EXCEPT !.status = "cancelled"]

LEMMA StepMoves ==
  ASSUME IInv, [Next]_vars, NEW o \in Order
  PROVE  orders'[o] = orders[o] \/ Move(orders[o], orders'[o])
<1> DEFINE Kept == orders'[o] = orders[o]
<1>0. TypeOK /\ orders \in [Order -> OrderRow]
  BY DEF IInv, TypeOK
<1>a. ASSUME NEW t \in Terminal, NEW op \in Ops, Pending(t, op)
      PROVE  requests[t].order \in Order /\ requests[t].client \in Client
  BY <1>0, <1>a DEF TypeOK, Pending, Request
<1>1. ASSUME NEW t \in Terminal, Create(t) PROVE Kept \/ Move(orders[o], orders'[o])
  <2>0. requests[t].order \in Order /\ requests[t].client \in Client
    BY <1>a, <1>1 DEF Create, Ops
  <2>1. CASE Known(requests[t].client)
    BY <1>1, <2>1 DEF Create
  <2>2. CASE ~Known(requests[t].client) /\ o = requests[t].order
    <3>1. orders[o].status = "none"
      BY <1>1, <2>2 DEF Create
    <3>2. PICK total \in Totals : \E pay \in Payments(total) :
            orders' = [orders EXCEPT ![o] =
              Sold([orders[o] EXCEPT !.client = requests[t].client], total, pay)]
      BY <1>1, <2>2 DEF Create
    <3>3. PICK pay \in Payments(total) :
            orders' = [orders EXCEPT ![o] =
              Sold([orders[o] EXCEPT !.client = requests[t].client], total, pay)]
      BY <3>2
    <3>4. orders'[o] = Sold([orders[o] EXCEPT !.client = requests[t].client], total, pay)
      BY <1>0, <3>3
    <3>5. IsCheckout([orders[o] EXCEPT !.client = requests[t].client], orders'[o])
      BY <3>4 DEF IsCheckout
    <3> QED BY <2>0, <3>1, <3>5 DEF Move
  <2>3. CASE ~Known(requests[t].client) /\ o # requests[t].order
    BY <1>0, <1>1, <2>3 DEF Create
  <2> QED BY <2>1, <2>2, <2>3
<1>2. ASSUME NEW t \in Terminal, Hold(t) PROVE Kept \/ Move(orders[o], orders'[o])
  <2>0. requests[t].order \in Order /\ requests[t].client \in Client
    BY <1>a, <1>2 DEF Hold, Ops
  <2>1. PICK total \in Totals : orders' = [orders EXCEPT
               ![requests[t].order] = Parked(requests[t].client, total)]
    BY <1>2 DEF Hold
  <2>2. CASE o = requests[t].order
    <3>1. orders[o].status = "none" /\ orders'[o] = Parked(requests[t].client, total)
      BY <1>0, <1>2, <2>1, <2>2 DEF Hold
    <3> QED BY <2>0, <3>1 DEF Move
  <2> QED BY <1>0, <2>1, <2>2
<1>3. ASSUME NEW t \in Terminal, Resume(t) PROVE Kept \/ Move(orders[o], orders'[o])
  <2>1. CASE o = requests[t].order
    <3>1. PICK total \in Totals : \E pay \in Payments(total) :
            orders' = [orders EXCEPT ![o] = Sold(orders[o], total, pay)]
      BY <1>3, <2>1 DEF Resume
    <3>2. PICK pay \in Payments(total) :
            orders' = [orders EXCEPT ![o] = Sold(orders[o], total, pay)]
      BY <3>1
    <3>3. orders'[o] = Sold(orders[o], total, pay) /\ orders[o].status = "held"
      BY <1>0, <1>3, <2>1, <3>2 DEF Resume
    <3> QED BY <3>3 DEF Move, IsCheckout
  <2>2. CASE o # requests[t].order
    BY <1>0, <1>3, <2>2 DEF Resume
  <2> QED BY <2>1, <2>2
<1>4. ASSUME NEW t \in Terminal, Pay(t) PROVE Kept \/ Move(orders[o], orders'[o])
  <2>1. CASE o = requests[t].order
    <3>1. PICK n \in 1 .. Remaining(orders[o]) : \E p \in Splits(n, Methods \cap Money) :
            orders' = [orders EXCEPT ![o] = Collected(orders[o], p)]
      BY <1>4, <2>1 DEF Pay
    <3>2. PICK p \in Splits(n, Methods \cap Money) :
            orders' = [orders EXCEPT ![o] = Collected(orders[o], p)]
      BY <3>1
    <3>3. orders'[o] = Collected(orders[o], p) /\ Payable(orders[o])
      BY <1>0, <1>4, <2>1, <3>2 DEF Pay
    <3> QED BY <3>3 DEF Move
  <2>2. CASE o # requests[t].order
    BY <1>0, <1>4, <2>2 DEF Pay
  <2> QED BY <2>1, <2>2
<1>5. ASSUME NEW t \in Terminal, Refund(t) PROVE Kept \/ Move(orders[o], orders'[o])
  <2>1. CASE o = requests[t].order
    <3>1. PICK k \in 1 .. Quantity - orders[o].back, returned \in BOOLEAN :
            \E r \in [Method -> 0 .. Larger(RefundAmount(orders[o], k), 0)] :
              /\ IsReversal(r, orders[o], Larger(RefundAmount(orders[o], k), 0))
              /\ orders' = [orders EXCEPT ![o] = Refunded(orders[o], k, r, returned)]
      BY <1>5, <2>1 DEF Refund
    <3>2. PICK r \in [Method -> 0 .. Larger(RefundAmount(orders[o], k), 0)] :
              /\ IsReversal(r, orders[o], Larger(RefundAmount(orders[o], k), 0))
              /\ orders' = [orders EXCEPT ![o] = Refunded(orders[o], k, r, returned)]
      BY <3>1
    <3>3. orders'[o] = Refunded(orders[o], k, r, returned)
      BY <1>0, <3>2
    <3>4. orders[o].status \in {"paid", "credit", "partial", "partial_refund"}
      BY <1>5, <2>1 DEF Refund
    <3>5. IsRefund(orders[o], orders'[o])
      BY <3>2, <3>3 DEF IsRefund
    <3> QED BY <3>4, <3>5 DEF Move
  <2>2. CASE o # requests[t].order
    BY <1>0, <1>5, <2>2 DEF Refund
  <2> QED BY <2>1, <2>2
<1>6. ASSUME NEW u \in Order, Cancel(u) PROVE Kept \/ Move(orders[o], orders'[o])
  <2>1. CASE o = u
    BY <1>0, <1>6, <2>1 DEF Cancel, Move
  <2>2. CASE o # u
    BY <1>0, <1>6, <2>2 DEF Cancel
  <2> QED BY <2>1, <2>2
<1>7. ASSUME NEW t \in Terminal, (\E req \in Request : Admit(t, req)) \/ Reject(t) PROVE Kept
  BY <1>7 DEF Admit, Reject
<1>8. CASE RepayCustomer \/ UNCHANGED vars
  BY <1>8 DEF RepayCustomer, vars
<1> QED
  BY <1>1, <1>2, <1>3, <1>4, <1>5, <1>6, <1>7, <1>8 DEF Next

(* A step leaves an order alone once it is cancelled or refunded.          *)
THEOREM FinishedIsFinalHolds == Spec => FinishedIsFinal
<1>1. Init => IInv
  BY InitIInv
<1>2. IInv /\ [Next]_vars => IInv'
  BY StepIInv
<1>3. IInv /\ [Next]_vars
        => [\A o \in Order : orders[o].status \in {"refunded", "cancelled"}
              => orders'[o] = orders[o]]_vars
  <2> SUFFICES ASSUME IInv, [Next]_vars, NEW o \in Order,
                      orders[o].status \in {"refunded", "cancelled"}
               PROVE  orders'[o] = orders[o]
    OBVIOUS
  <2>1. ~Move(orders[o], orders'[o])
    BY DEF Move, Payable
  <2> QED BY <2>1, StepMoves
<1> QED BY <1>1, <1>2, <1>3, PTL DEF Spec, FinishedIsFinal

Still(row) ==
  /\ row.status = "none" => row = NoOrder
  /\ row.status \in {"held", "cancelled"} =>
       row.out = 0 /\ row.took = Nothing /\ row.charged = 0

LEMMA MoveStill ==
  ASSUME NEW row \in OrderRow, NEW new, Still(row), Move(row, new)
  PROVE  Still(new)
<1>1. ASSUME NEW from \in OrderRow, IsCheckout(from, new) PROVE Still(new)
  <2>1. PICK total \in Totals : \E pay \in Payments(total) : new = Sold(from, total, pay)
    BY <1>1 DEF IsCheckout
  <2>2. PICK pay \in Payments(total) : new = Sold(from, total, pay)
    BY <2>1
  <2>3. pay.status \in {"paid", "credit"}
    BY PaymentsCheckOut DEF Checkout
  <2>4. new.status = pay.status
    BY <1>1, <2>2 DEF Sold, OrderRow
  <2> QED BY <2>3, <2>4 DEF Still
<1>2. CASE \E client \in Client : IsCheckout([row EXCEPT !.client = client], new)
  <2>1. PICK client \in Client : IsCheckout([row EXCEPT !.client = client], new)
    BY <1>2
  <2>2. [row EXCEPT !.client = client] \in OrderRow
    BY DEF OrderRow
  <2> QED BY <1>1, <2>1, <2>2
<1>3. CASE \E client \in Client, total \in Totals : new = Parked(client, total)
  BY <1>3 DEF Parked, NoOrder, Still
<1>4. CASE IsCheckout(row, new)
  BY <1>1, <1>4
<1>5. CASE /\ Payable(row)
           /\ \E n \in 1 .. Remaining(row) : \E p \in Splits(n, Methods \cap Money) :
                new = Collected(row, p)
  <2>1. new.status \in {"paid", "partial"}
    BY <1>5 DEF Collected, OrderRow
  <2> QED BY <2>1 DEF Still
<1>6. CASE IsRefund(row, new)
  <2>1. new.status \in {"refunded", "partial_refund"}
    BY <1>6 DEF IsRefund, Refunded, OrderRow
  <2> QED BY <2>1 DEF Still
<1>7. CASE row.status = "held" /\ new = [row EXCEPT !.status = "cancelled"]
  BY <1>7 DEF OrderRow, Still
<1> QED BY <1>2, <1>3, <1>4, <1>5, <1>6, <1>7 DEF Move

(* An order parked or cancelled has moved neither goods nor money: a       *)
(* cancel that races a resume is refused.                                  *)
THEOREM CancelledTookNothingHolds == Spec => []CancelledTookNothing
<1> DEFINE Inv == \A o \in Order : Still(orders[o])
<1>1. Init => IInv /\ Inv
  BY InitIInv DEF Init, NoOrder, Still
<1>2. IInv /\ [Next]_vars => IInv'
  BY StepIInv
<1>3. IInv /\ Inv /\ [Next]_vars => Inv'
  <2> SUFFICES ASSUME IInv, Inv, [Next]_vars, NEW o \in Order PROVE Still(orders'[o])
    OBVIOUS
  <2>1. orders[o] \in OrderRow
    BY DEF IInv, TypeOK
  <2> QED BY <2>1, StepMoves, MoveStill
<1>4. Inv => CancelledTookNothing
  BY DEF CancelledTookNothing, Still
<1> QED BY <1>1, <1>2, <1>3, <1>4, PTL DEF Spec

(* The payment row of a channel's transaction is the record of its being   *)
(* booked: no client can have it booked a second time, for whichever order *)
(* it sends it, unless it reports it as split over methods, whose rows     *)
(* keep no transaction_id.                                                 *)
KeyedOnce ==
  \A x \in Txn \ SplitTxn : credited[x] = (IF x \in booked THEN 1 ELSE 0)

THEOREM BookedOnceHolds == Spec => [](SplitTxn = {} => BookedOnce)
<1>1. Init => IInv /\ KeyedOnce
  BY InitIInv DEF Init, KeyedOnce
<1>2. IInv /\ [Next]_vars => IInv'
  BY StepIInv
<1>3. IInv /\ KeyedOnce /\ [Next]_vars => KeyedOnce'
  <2> SUFFICES ASSUME IInv, KeyedOnce, [Next]_vars PROVE KeyedOnce'
    OBVIOUS
  <2>1. ASSUME NEW t \in Terminal, Pay(t) PROVE KeyedOnce'
    <3> DEFINE txn == requests[t].txn
    <3>1. /\ txn \notin booked /\ booked' = booked \cup ({txn} \cap (Txn \ SplitTxn))
          /\ credited' = [x \in Txn |-> credited[x] + (IF x = txn THEN 1 ELSE 0)]
      BY <2>1 DEF Pay
    <3> QED BY <3>1 DEF KeyedOnce, IInv, TypeOK
  <2>2. CASE UNCHANGED <<booked, credited>>
    BY <2>2 DEF KeyedOnce
  <2>3. ASSUME NEW t \in Terminal,
               \/ \E req \in Request : Admit(t, req)
               \/ Create(t) \/ Hold(t) \/ Resume(t) \/ Refund(t) \/ Reject(t)
        PROVE  UNCHANGED <<booked, credited>>
    BY <2>3 DEF Admit, Create, Hold, Resume, Refund, Reject
  <2>4. CASE (\E o \in Order : Cancel(o)) \/ RepayCustomer \/ UNCHANGED vars
    BY <2>2, <2>4 DEF Cancel, RepayCustomer, vars
  <2> QED BY <2>1, <2>2, <2>3, <2>4 DEF Next
<1>4. KeyedOnce => (SplitTxn = {} => BookedOnce)
  BY DEF KeyedOnce, BookedOnce
<1> QED BY <1>1, <1>2, <1>3, <1>4, PTL DEF Spec

(* However many terminals send one client_id at once, parked or paid, it   *)
(* becomes one order.                                                      *)
THEOREM OneOrderPerClientHolds == Spec => []OneOrderPerClient
<1>1. Init => IInv /\ OneOrderPerClient
  BY InitIInv DEF Init, OneOrderPerClient, NoOrder
<1>2. IInv /\ [Next]_vars => IInv'
  BY StepIInv
<1>3. IInv /\ OneOrderPerClient /\ [Next]_vars => OneOrderPerClient'
  <2> SUFFICES ASSUME IInv, OneOrderPerClient, [Next]_vars PROVE OneOrderPerClient'
    OBVIOUS
  <2>0. orders \in [Order -> OrderRow]
    BY DEF IInv, TypeOK
  (* An order that keeps its client_id, or takes one that no order has.    *)
  <2>a. ASSUME \A o \in Order : orders'[o].client = orders[o].client
        PROVE  OneOrderPerClient'
    BY <2>a DEF OneOrderPerClient
  <2>b. ASSUME NEW o \in Order, NEW new, orders' = [orders EXCEPT ![o] = new],
               ~Known(new.client)
        PROVE  OneOrderPerClient'
    BY <2>0, <2>b DEF OneOrderPerClient, Known
  <2>c. ASSUME NEW o \in Order, NEW new, orders' = [orders EXCEPT ![o] = new],
               new.client = orders[o].client
        PROVE  OneOrderPerClient'
    BY <2>0, <2>a, <2>c
  <2>d. ASSUME NEW t \in Terminal, NEW op \in Ops, Pending(t, op)
        PROVE  requests[t].order \in Order /\ requests[t].client \in Client
    BY <2>d DEF IInv, TypeOK, Pending, Request
  <2>1. ASSUME NEW t \in Terminal, Create(t) PROVE OneOrderPerClient'
    <3> DEFINE o == requests[t].order
               client == requests[t].client
    <3>0. o \in Order /\ client \in Client
      BY <2>d, <2>1 DEF Create, Ops
    <3>1. CASE Known(client)
      BY <2>1, <2>a, <3>1 DEF Create
    <3>2. CASE ~Known(client)
      <4>1. PICK total \in Totals : \E pay \in Payments(total) :
              orders' = [orders EXCEPT ![o] =
                           Sold([orders[o] EXCEPT !.client = client], total, pay)]
        BY <2>1, <3>2 DEF Create
      <4>2. PICK pay \in Payments(total) :
              orders' = [orders EXCEPT ![o] =
                           Sold([orders[o] EXCEPT !.client = client], total, pay)]
        BY <4>1
      <4>3. Sold([orders[o] EXCEPT !.client = client], total, pay).client = client
        BY <2>0, <3>0 DEF Sold, OrderRow
      <4> HIDE DEF o, client
      <4> QED BY <2>b, <3>0, <3>2, <4>2, <4>3
    <3> QED BY <3>1, <3>2
  <2>2. ASSUME NEW t \in Terminal, Hold(t) PROVE OneOrderPerClient'
    <3>0. requests[t].order \in Order /\ ~Known(requests[t].client)
      BY <2>d, <2>2 DEF Hold, Ops
    <3>1. PICK total \in Totals : orders' = [orders EXCEPT
                 ![requests[t].order] = Parked(requests[t].client, total)]
      BY <2>2 DEF Hold
    <3>2. Parked(requests[t].client, total).client = requests[t].client
      BY DEF Parked, NoOrder
    <3> QED BY <2>b, <3>0, <3>1, <3>2
  <2>3. ASSUME NEW t \in Terminal, Resume(t) PROVE OneOrderPerClient'
    <3> DEFINE o == requests[t].order
    <3>0. o \in Order
      BY <2>d, <2>3 DEF Resume, Ops
    <3>1. PICK total \in Totals : \E pay \in Payments(total) :
            orders' = [orders EXCEPT ![o] = Sold(orders[o], total, pay)]
      BY <2>3 DEF Resume
    <3>2. PICK pay \in Payments(total) :
            orders' = [orders EXCEPT ![o] = Sold(orders[o], total, pay)]
      BY <3>1
    <3>3. Sold(orders[o], total, pay).client = orders[o].client
      BY <2>0, <3>0 DEF Sold, OrderRow
    <3> HIDE DEF o
    <3> QED BY <2>c, <3>0, <3>2, <3>3
  <2>4. ASSUME NEW t \in Terminal, Pay(t) PROVE OneOrderPerClient'
    <3> DEFINE o == requests[t].order
    <3>0. o \in Order
      BY <2>d, <2>4 DEF Pay, Ops
    <3>1. PICK n \in 1 .. Remaining(orders[o]) : \E p \in Splits(n, Methods \cap Money) :
            orders' = [orders EXCEPT ![o] = Collected(orders[o], p)]
      BY <2>4 DEF Pay
    <3>2. PICK p \in Splits(n, Methods \cap Money) :
            orders' = [orders EXCEPT ![o] = Collected(orders[o], p)]
      BY <3>1
    <3>3. Collected(orders[o], p).client = orders[o].client
      BY <2>0, <3>0 DEF Collected, OrderRow
    <3> HIDE DEF o
    <3> QED BY <2>c, <3>0, <3>2, <3>3
  <2>5. ASSUME NEW t \in Terminal, Refund(t) PROVE OneOrderPerClient'
    <3> DEFINE o == requests[t].order
    <3>0. o \in Order
      BY <2>d, <2>5 DEF Refund, Ops
    <3>1. PICK k \in 1 .. Quantity - orders[o].back, returned \in BOOLEAN :
            \E r \in [Method -> 0 .. Larger(RefundAmount(orders[o], k), 0)] :
              orders' = [orders EXCEPT ![o] = Refunded(orders[o], k, r, returned)]
      BY <2>5 DEF Refund
    <3>2. PICK r \in [Method -> 0 .. Larger(RefundAmount(orders[o], k), 0)] :
              orders' = [orders EXCEPT ![o] = Refunded(orders[o], k, r, returned)]
      BY <3>1
    <3>3. Refunded(orders[o], k, r, returned).client = orders[o].client
      BY <2>0, <3>0 DEF Refunded, OrderRow
    <3> HIDE DEF o
    <3> QED BY <2>c, <3>0, <3>2, <3>3
  <2>6. ASSUME NEW o \in Order, Cancel(o) PROVE OneOrderPerClient'
    BY <2>0, <2>6, <2>a DEF Cancel
  <2>7. ASSUME NEW t \in Terminal, (\E req \in Request : Admit(t, req)) \/ Reject(t)
        PROVE  OneOrderPerClient'
    BY <2>7, <2>a DEF Admit, Reject
  <2>8. CASE RepayCustomer \/ UNCHANGED vars
    BY <2>8, <2>a DEF RepayCustomer, vars
  <2> QED
    BY <2>1, <2>2, <2>3, <2>4, <2>5, <2>6, <2>7, <2>8 DEF Next
<1> QED BY <1>1, <1>2, <1>3, PTL DEF Spec

-----------------------------------------------------------------------------
(* What refunds come to                                                    *)

(* Rounding adds half a cent at most.                                      *)
LEMMA RoundedBound ==
  ASSUME NEW n \in Nat, NEW d \in Nat \ {0}
  PROVE  2 * (d * Rounded(n, d)) <= 2 * n + d
<1> DEFINE q == n \div d
           r == n % d
<1>1. q \in Nat /\ r \in 0 .. d - 1 /\ n = d * q + r
  OBVIOUS
<1>2. Rounded(n, d) = q \/ (Rounded(n, d) = q + 1 /\ d <= 2 * r)
  BY <1>1 DEF Rounded
<1> HIDE DEF q, r
<1>3. d * (q + 1) = d * q + d /\ d * q \in Nat
  BY <1>1
<1>4. CASE Rounded(n, d) = q
  <2>1. 2 * (d * q) <= 2 * (d * q + r) + d
    BY <1>1, <1>3
  <2> QED BY <1>1, <1>4, <2>1
<1>5. CASE Rounded(n, d) = q + 1 /\ d <= 2 * r
  <2>1. 2 * (d * q + d) <= 2 * (d * q + r) + d
    BY <1>1, <1>3, <1>5
  <2> QED BY <1>1, <1>3, <1>5, <2>1
<1> QED BY <1>2, <1>4, <1>5

(* What the units sent back are worth at most, each half a cent up.        *)
Worth(refunded, back, total) ==
  2 * (Quantity * refunded) <= back * (2 * total + Quantity)

LEMMA WorthGrows ==
  ASSUME NEW refunded \in Nat, NEW back \in Nat, NEW total \in Nat,
         Worth(refunded, back, total), NEW k \in Nat \ {0}
  PROVE  Worth(refunded + Rounded(k * total, Quantity), back + k, total)
<1> DEFINE Q == Quantity
           W == 2 * total + Q
           a == Rounded(k * total, Q)
<1>1. Q \in Nat \ {0} /\ k * total \in Nat
  BY PosConstants
<1>2. a \in Nat /\ 2 * (Q * a) <= 2 * (k * total) + Q
  BY <1>1, RoundedType, RoundedBound
<1>3. 2 * (Q * refunded) <= back * W
  BY DEF Worth
<1> HIDE DEF Q, a
<1>4. Q <= k * Q /\ k * W = 2 * (k * total) + k * Q
  BY <1>1
<1>5. Q * (refunded + a) = Q * refunded + Q * a /\ (back + k) * W = back * W + k * W
  BY <1>1, <1>2
<1>6. /\ Q * refunded \in Nat /\ Q * a \in Nat /\ back * W \in Nat /\ k * W \in Nat
      /\ k * Q \in Nat
  BY <1>1, <1>2
<1> HIDE DEF W
<1>7. 2 * (Q * (refunded + a)) <= (back + k) * W
  BY <1>1, <1>2, <1>3, <1>4, <1>5, <1>6
<1> QED BY <1>7 DEF Worth, Q, W, a

(* Where the rounding fits, the last unit is still worth something.        *)
LEMMA WorthFits ==
  ASSUME NEW refunded \in Nat, NEW back \in Nat, NEW total \in Nat,
         Worth(refunded, back, total), back < Quantity,
         Quantity * (Quantity - 1) <= 2 * total
  PROVE  refunded <= total
<1> DEFINE Q == Quantity
           W == 2 * total + Q
<1>1. Q \in Nat \ {0}
  BY PosConstants
<1>2. 2 * (Q * refunded) <= back * W /\ Q * (Q - 1) <= 2 * total /\ back <= Q - 1
  BY <1>1 DEF Worth
<1> HIDE DEF Q
<1>3. back * W <= (Q - 1) * W
  BY <1>1, <1>2
<1>4. (Q - 1) * W = 2 * (Q * total) - 2 * total + Q * (Q - 1)
  BY <1>1
<1>5. /\ Q * refunded \in Nat /\ Q * total \in Nat /\ back * W \in Nat
      /\ (Q - 1) * W \in Int /\ Q * (Q - 1) \in Int
  BY <1>1
<1> HIDE DEF W
<1>6. Q * refunded <= Q * total
  BY <1>2, <1>3, <1>4, <1>5
<1> QED BY <1>1, <1>6

(* The five methods, one by one.                                           *)
LEMMA SumOfMethods ==
  ASSUME NEW p \in [Method -> Int]
  PROVE  SumOf(p) = Whole(p)
<1> DEFINE S1 == Method \ {"cash"}
           S2 == S1 \ {"wechat"}
           S3 == S2 \ {"alipay"}
           S4 == S3 \ {"card"}
<1>1. IsFiniteSet(Method)
  <2>1. /\ IsFiniteSet({"cash"} \cup {"wechat"})
        /\ IsFiniteSet({"alipay"} \cup {"card"})
    BY FS_Singleton, FS_Union
  <2>2. IsFiniteSet(({"cash"} \cup {"wechat"}) \cup ({"alipay"} \cup {"card"}) \cup {"credit"})
    BY <2>1, FS_Singleton, FS_Union
  <2>3. Method = ({"cash"} \cup {"wechat"}) \cup ({"alipay"} \cup {"card"}) \cup {"credit"}
    BY DEF Method
  <2> QED BY <2>2, <2>3
<1>2. /\ "cash" \in Method /\ "wechat" \in S1 /\ "alipay" \in S2 /\ "card" \in S3
      /\ "credit" \in S4 /\ S4 \ {"credit"} = {}
      /\ S1 \in SUBSET Method /\ S2 \in SUBSET Method /\ S3 \in SUBSET Method
      /\ S4 \in SUBSET Method
  BY DEF Method
<1>3. /\ Over(p, Method) = p["cash"] + Over(p, S1)
      /\ Over(p, S1) = p["wechat"] + Over(p, S2)
      /\ Over(p, S2) = p["alipay"] + Over(p, S3)
      /\ Over(p, S3) = p["card"] + Over(p, S4)
      /\ Over(p, S4) = p["credit"] + Over(p, {})
  <2> HIDE DEF S1, S2, S3, S4
  <2>1. \A U \in SUBSET Method : \A x \in U : Over(p, U) = p[x] + Over(p, U \ {x})
    <3> TAKE U \in SUBSET Method
    <3> QED BY <1>1, OverFacts
  <2>2. /\ Over(p, Method) = p["cash"] + Over(p, Method \ {"cash"})
        /\ Over(p, S1) = p["wechat"] + Over(p, S1 \ {"wechat"})
        /\ Over(p, S2) = p["alipay"] + Over(p, S2 \ {"alipay"})
        /\ Over(p, S3) = p["card"] + Over(p, S3 \ {"card"})
        /\ Over(p, S4) = p["credit"] + Over(p, S4 \ {"credit"})
    BY <1>2, <2>1
  <2> QED BY <1>2, <2>2 DEF S1, S2, S3, S4
<1>4. Over(p, {}) = 0 /\ Over(p, Method) = SumOf(p)
  BY <1>1, OverFacts, OverAll
<1>5. \A m \in {"cash", "wechat", "alipay", "card", "credit"} : p[m] \in Int
  BY DEF Method
<1> HIDE DEF S1, S2, S3, S4
<1> QED BY <1>3, <1>4, <1>5 DEF Whole, InMoney

Untouched(row) == row.back = 0 /\ row.refunded = 0 /\ row.gave = Nothing

(* What the amounts of a refunded order owe to those it was paid with: its *)
(* debt is the credit part of its tender, and is cancelled only once all   *)
(* the money is back.                                                      *)
Refunding(row) ==
  /\ row.charged = row.took["credit"] /\ row.repaid <= row.charged
  /\ row.status \in {"credit", "partial"} => InMoney(row.took) = row.paid
  /\ row.status \notin {"partial_refund", "refunded"} => Untouched(row)
  /\ row.status = "partial_refund" =>
       row.back < Quantity /\ Worth(row.refunded, row.back, row.total)
  /\ row.status = "refunded" => row.refunded = row.total
  /\ Exact(row) =>
       /\ row.refunded = Whole(row.gave) /\ row.refunded <= row.total
       /\ \/ row.gave["credit"] = 0
          \/ row.gave["credit"] <= row.refunded - InMoney(row.took)

LEMMA WholeOfNothing == Whole(Nothing) = 0 /\ Nothing["credit"] = 0
  BY DEF Whole, InMoney, Nothing, Method

LEMMA CheckoutRefunding ==
  ASSUME NEW row \in OrderRow, Untouched(row), row.repaid = 0,
         NEW total \in Totals, NEW pay \in Payments(total)
  PROVE  Refunding(Sold(row, total, pay))
<1> DEFINE new == Sold(row, total, pay)
<1>1. total \in Nat /\ Checkout(pay, total)
  BY PaymentsCheckOut
<1>2. /\ pay.charged = pay.took["credit"]
      /\ pay.status = "credit" => InMoney(pay.took) = 0 /\ pay.paid = 0
  <2>1. ASSUME NEW m \in Methods \ {"credit"}, pay = Single(total, m) PROVE <1>2
    BY <2>1, PosConstants DEF Single, Nothing, Method
  <2>2. CASE pay = OnCredit(total)
    BY <2>2 DEF OnCredit, Nothing, Method, InMoney
  <2>3. ASSUME NEW p, pay = Combined(p) PROVE <1>2
    BY <2>3 DEF Combined
  <2> QED BY <2>1, <2>2, <2>3 DEF Payments
<1>3. /\ new.status = pay.status /\ new.took = pay.took /\ new.paid = pay.paid
      /\ new.charged = pay.charged /\ new.total = total /\ new.repaid = 0
      /\ new.back = 0 /\ new.refunded = 0 /\ new.gave = Nothing
  BY DEF Sold, OrderRow, Untouched
<1> HIDE DEF new
<1>4. new.status \in {"paid", "credit"} /\ new.charged \in Nat
  BY <1>1, <1>3 DEF Checkout
<1> QED BY <1>1, <1>2, <1>3, <1>4, WholeOfNothing DEF Refunding, Untouched, new

LEMMA CollectedRefunding ==
  ASSUME NEW row, Good(row), Refunding(row), Payable(row),
         NEW n \in 1 .. Remaining(row), NEW p \in Splits(n, Methods \cap Money)
  PROVE  Refunding(Collected(row, p))
<1> DEFINE new == Collected(row, p)
           status == IF row.paid + n >= row.total THEN "paid" ELSE "partial"
           repaid == row.repaid + (IF row.status \in {"credit", "partial"} THEN n ELSE 0)
<1>1. /\ row \in OrderRow /\ row.status \in {"paid", "credit", "partial"}
      /\ row.total \in Nat /\ row.paid \in Nat /\ row.repaid \in Nat /\ row.charged \in Nat
      /\ row.took \in [Method -> Nat] /\ Remaining(row) = row.total - row.paid
      /\ Mismatch \in 0 .. 1 /\ Balanced(row)
  BY PosConstants DEF Good, OrderRow, Payable, Remaining
<1>2. /\ n \in Nat \ {0} /\ row.paid + n <= row.total
      /\ p \in [Method -> 0 .. n] /\ Whole(p) = n /\ p["credit"] = 0
  BY <1>1 DEF Splits, Money, Method
<1>3. p \in [Method -> Nat] /\ InMoney(p) = n
  BY <1>2 DEF Whole, InMoney, Method
<1>4. /\ new.took = Plus(row.took, p) /\ new.paid = row.paid + n /\ new.status = status
      /\ new.repaid = repaid /\ new.total = row.total /\ new.charged = row.charged
      /\ new.back = row.back /\ new.refunded = row.refunded /\ new.gave = row.gave
  BY <1>1, <1>2 DEF Collected, OrderRow
<1>5. /\ Plus(row.took, p)["credit"] = row.took["credit"]
      /\ InMoney(Plus(row.took, p)) = InMoney(row.took) + n
  <2>1. InMoney(Plus(row.took, p)) = InMoney(row.took) + n
    BY <1>1, <1>3, PlusType
  <2> QED BY <1>1, <1>2, <2>1 DEF Plus, Method
<1>6. Untouched(row) /\ row.charged = row.took["credit"] /\ row.repaid <= row.charged
  BY <1>1 DEF Refunding
<1>7. InMoney(row.took) \in Nat
  BY <1>1 DEF InMoney, Method
<1>8. repaid <= row.charged
  <2>1. CASE row.status \in {"credit", "partial"}
    <3>1. InMoney(row.took) + row.charged - row.repaid - row.total = 0
      BY <1>1, <2>1 DEF Balanced, Miss
    <3>2. InMoney(row.took) = row.paid
      BY <2>1 DEF Refunding
    <3> QED BY <1>1, <1>2, <2>1, <3>1, <3>2
  <2>2. CASE row.status \notin {"credit", "partial"}
    BY <1>1, <1>6, <2>2
  <2> QED BY <2>1, <2>2
<1>9. status = "partial" => InMoney(row.took) + n = row.paid + n
  <2>1. CASE row.status \in {"credit", "partial"}
    BY <2>1 DEF Refunding
  <2>2. CASE row.status = "paid"
    <3>1. Miss(row) = row.paid - row.total /\ -Mismatch <= Miss(row)
      BY <1>1, <1>2, <2>2 DEF Balanced
    <3> QED BY <1>1, <1>2, <3>1
  <2> QED BY <1>1, <2>1, <2>2
<1>10. Untouched(new) /\ new.status \in {"paid", "partial"}
  BY <1>4, <1>6 DEF Untouched
<1> HIDE DEF new, repaid, status
<1>11. Whole(new.gave) = 0 /\ new.gave["credit"] = 0 /\ new.refunded = 0
  BY <1>10, WholeOfNothing DEF Untouched
<1> QED BY <1>1, <1>4, <1>5, <1>6, <1>8, <1>9, <1>10, <1>11 DEF Refunding, new

(* A reversal of what the tender holds pays all of it, and takes nothing   *)
(* off the debt before the money is back.                                  *)
LEMMA ReversalPays ==
  ASSUME NEW row \in OrderRow, NEW amount \in Nat, amount <= Whole(row.took),
         NEW r \in [Method -> 0 .. amount], IsReversal(r, row, amount)
  PROVE  /\ Whole(r) = amount
         /\ r["credit"] > 0 => InMoney(r) = InMoney(row.took)
<1> DEFINE original(m)  == row.took[m]
           before(m, n) == RefundRank[m] < RefundRank[n]
<1>1. IsSplit(r, amount, Method, original, before)
  BY DEF IsReversal
<1>2. row.took \in [Method -> Nat] /\ r \in [Method -> Int]
  BY DEF OrderRow
<1>3. SumOf([m \in Method |-> row.took[m]]) = Whole(row.took)
  <2>1. [m \in Method |-> row.took[m]] = row.took /\ row.took \in [Method -> Int]
    BY <1>2
  <2> QED BY <2>1, SumOfMethods
<1>4. SumOf(r) = Smaller(amount, SumOf([m \in Method |-> row.took[m]]))
  BY <1>1 DEF IsSplit, Sum
<1>5. SumOf(r) = Whole(r)
  BY <1>2, SumOfMethods
<1>6. Whole(row.took) \in Nat
  BY <1>2 DEF Whole, InMoney, Method
<1>7. Whole(r) = amount
  BY <1>3, <1>4, <1>5, <1>6 DEF Smaller
<1>8. ASSUME r["credit"] > 0 PROVE InMoney(r) = InMoney(row.took)
  <2>1. \A m \in Method : RefundRank[m] < RefundRank["credit"] => r[m] = row.took[m]
    BY <1>1, <1>8 DEF IsSplit, Method
  <2>2. \A m \in {"cash", "wechat", "alipay", "card"} : r[m] = row.took[m]
    BY <2>1 DEF RefundRank, Method
  <2> QED BY <2>2 DEF InMoney
<1> QED BY <1>7, <1>8

LEMMA RefundedRefunding ==
  ASSUME NEW row, Good(row), Refunding(row),
         row.status \in {"paid", "credit", "partial", "partial_refund"},
         NEW k \in 1 .. Quantity - row.back, NEW returned \in BOOLEAN,
         NEW r \in [Method -> 0 .. Larger(RefundAmount(row, k), 0)],
         IsReversal(r, row, Larger(RefundAmount(row, k), 0))
  PROVE  Refunding(Refunded(row, k, r, returned))
<1> DEFINE new == Refunded(row, k, r, returned)
           a   == RefundAmount(row, k)
<1>1. /\ row \in OrderRow /\ Quantity \in Nat \ {0}
      /\ row.total \in Nat /\ row.back \in Nat /\ row.refunded \in Nat
      /\ row.gave \in [Method -> Nat] /\ row.took \in [Method -> Nat]
      /\ row.charged \in Nat /\ row.repaid \in Nat
      /\ k \in Nat \ {0} /\ row.back + k <= Quantity
  BY PosConstants DEF Good, OrderRow
<1>2. /\ new.status = (IF row.back + k = Quantity THEN "refunded" ELSE "partial_refund")
      /\ new.took = row.took /\ new.total = row.total /\ new.paid = row.paid
      /\ new.charged = row.charged /\ new.repaid = row.repaid
      /\ new.back = row.back + k /\ new.refunded = row.refunded + a
      /\ new.gave = Plus(row.gave, r)
  BY <1>1 DEF Refunded, OrderRow
<1>3. row.back < Quantity /\ Worth(row.refunded, row.back, row.total)
  <2>1. CASE row.status = "partial_refund"
    BY <2>1 DEF Refunding
  <2>2. CASE row.status # "partial_refund"
    <3>1. row.back = 0 /\ row.refunded = 0
      BY <2>2 DEF Refunding, Untouched
    <3> QED BY <1>1, <3>1 DEF Worth
  <2> QED BY <2>1, <2>2
<1>4. a \in Int
  BY <1>1, RoundedType DEF RefundAmount
<1>5. /\ row.back + k = Quantity => new.refunded = row.total
      /\ row.back + k # Quantity => Worth(new.refunded, new.back, new.total)
  <2>1. CASE row.back + k = Quantity
    BY <1>1, <1>2, <2>1 DEF RefundAmount
  <2>2. CASE row.back + k # Quantity
    <3>1. a = Rounded(k * row.total, Quantity)
      BY <2>2 DEF RefundAmount
    <3> QED BY <1>1, <1>2, <1>3, <2>2, <3>1, WorthGrows
  <2> QED BY <2>1, <2>2
<1>6. ASSUME Exact(new)
      PROVE  /\ new.refunded = Whole(new.gave) /\ new.refunded <= new.total
             /\ \/ new.gave["credit"] = 0
                \/ new.gave["credit"] <= new.refunded - InMoney(new.took)
  <2>1. Exact(row)
    BY <1>2, <1>6 DEF Exact, Miss, RoundingFits
  <2>2. Quantity * (Quantity - 1) <= 2 * row.total
    BY <2>1 DEF Exact, RoundingFits
  <2>3. 0 <= a /\ new.refunded <= row.total
    <3>1. CASE row.back + k = Quantity
      <4>1. row.refunded <= row.total
        BY <1>1, <1>3, <2>2, WorthFits
      <4> QED BY <1>1, <1>2, <1>5, <3>1, <4>1 DEF RefundAmount
    <3>2. CASE row.back + k # Quantity
      <4>1. a \in Nat
        BY <1>1, <3>2, RoundedType DEF RefundAmount
      <4>2. new.refunded \in Nat /\ new.back \in Nat /\ new.back < Quantity
            /\ new.total \in Nat /\ Worth(new.refunded, new.back, new.total)
        BY <1>1, <1>2, <1>5, <3>2, <4>1
      <4> HIDE DEF new, a
      <4>3. new.refunded <= new.total
        BY <1>2, <2>2, <4>2, WorthFits
      <4> QED BY <1>2, <4>1, <4>3
    <3> QED BY <3>1, <3>2
  <2> DEFINE money == InMoney(row.took)
  <2>4. money \in Nat /\ row.took["credit"] \in Nat /\ Whole(row.took) = money + row.took["credit"]
    BY <1>1 DEF InMoney, Whole, Method
  <2>5. money + row.charged - row.repaid - row.total = 0
    BY <2>1 DEF Exact, Miss
  <2>6. row.total <= Whole(row.took)
    BY <1>1, <2>4, <2>5 DEF Refunding
  <2>7. a \in Nat /\ a <= row.total /\ Larger(a, 0) = a
    <3> HIDE DEF a, new
    <3> QED BY <1>1, <1>2, <1>4, <2>3 DEF Larger
  <2>8. /\ Whole(r) = a /\ r \in [Method -> 0 .. a]
        /\ r["credit"] > 0 => InMoney(r) = money
    <3>1. r \in [Method -> 0 .. a] /\ IsReversal(r, row, a) /\ a <= Whole(row.took)
      <4>1. Whole(row.took) \in Nat
        BY <2>4
      <4> QED BY <1>1, <2>6, <2>7, <4>1
    <3> HIDE DEF a
    <3> QED BY <1>1, <2>7, <3>1, ReversalPays
  <2>9. /\ r \in [Method -> Nat] /\ Whole(r) = InMoney(r) + r["credit"]
        /\ r["credit"] \in Nat /\ InMoney(r) \in Nat
    <3> HIDE DEF a
    <3>1. r \in [Method -> Nat]
      BY <2>7, <2>8
    <3> QED BY <3>1 DEF Whole, InMoney, Method
  <2>10. /\ Whole(new.gave) = Whole(row.gave) + Whole(r)
         /\ new.gave["credit"] = row.gave["credit"] + r["credit"]
         /\ Whole(row.gave) \in Nat /\ row.gave["credit"] \in Nat
    <3>1. InMoney(Plus(row.gave, r)) = InMoney(row.gave) + InMoney(r)
      BY <1>1, <2>9, PlusType
    <3>2. Plus(row.gave, r)["credit"] = row.gave["credit"] + r["credit"]
      BY DEF Plus, Method
    <3>3. InMoney(row.gave) \in Nat /\ row.gave["credit"] \in Nat
      BY <1>1 DEF InMoney, Method
    <3> HIDE DEF new
    <3> QED BY <1>2, <2>9, <3>1, <3>2, <3>3 DEF Whole
  <2>11. /\ row.refunded = Whole(row.gave)
         /\ \/ row.gave["credit"] = 0
            \/ row.gave["credit"] <= row.refunded - money
    BY <2>1 DEF Refunding
  <2> HIDE DEF new, a, money
  <2>12. \/ new.gave["credit"] = 0
         \/ new.gave["credit"] <= new.refunded - money
    <3>1. CASE r["credit"] = 0
      BY <1>1, <1>2, <2>4, <2>7, <2>10, <2>11, <3>1
    <3>2. CASE r["credit"] > 0
      BY <1>1, <1>2, <2>4, <2>7, <2>8, <2>9, <2>10, <2>11, <3>2
    <3> QED BY <2>9, <3>1, <3>2
  <2> QED BY <1>1, <1>2, <2>3, <2>7, <2>8, <2>10, <2>11, <2>12 DEF money
<1>7. /\ new.charged = new.took["credit"] /\ new.repaid <= new.charged
      /\ new.status \in {"partial_refund", "refunded"}
      /\ new.status = "partial_refund" =>
           new.back < Quantity /\ Worth(new.refunded, new.back, new.total)
      /\ new.status = "refunded" => new.refunded = new.total
  <2>1. row.charged = row.took["credit"] /\ row.repaid <= row.charged
    BY DEF Refunding
  <2> HIDE DEF new
  <2> QED BY <1>1, <1>2, <1>5, <2>1
<1> HIDE DEF new
<1> QED BY <1>6, <1>7 DEF Refunding, new

LEMMA MoveRefunding ==
  ASSUME NEW row, NEW new, Good(row), Refunding(row), Move(row, new)
  PROVE  Refunding(new)
<1>0. row \in OrderRow
  BY DEF Good
<1>1. ASSUME NEW from \in OrderRow, Untouched(from), from.repaid = 0, IsCheckout(from, new)
      PROVE  Refunding(new)
  BY <1>1, CheckoutRefunding DEF IsCheckout
<1>2. row.status \in {"none", "held"} => Untouched(row) /\ row.repaid = 0
  BY DEF Refunding, Good, Balanced
<1>3. CASE /\ row.status = "none"
           /\ \E client \in Client : IsCheckout([row EXCEPT !.client = client], new)
  <2>1. PICK client \in Client : IsCheckout([row EXCEPT !.client = client], new)
    BY <1>3
  <2> DEFINE from == [row EXCEPT !.client = client]
  <2>2. from \in OrderRow /\ Untouched(from) /\ from.repaid = 0
    BY <1>0, <1>2, <1>3 DEF OrderRow, Untouched
  <2> HIDE DEF from
  <2> QED BY <1>1, <2>1, <2>2 DEF from
<1>4. CASE \E client \in Client, total \in Totals : new = Parked(client, total)
  <2>1. /\ new.status = "held" /\ new.took = Nothing /\ new.gave = Nothing
        /\ new.charged = 0 /\ new.repaid = 0 /\ new.back = 0 /\ new.refunded = 0
        /\ new.total \in Nat
    BY <1>4, PosConstants DEF Parked, NoOrder
  <2> QED BY <2>1, WholeOfNothing DEF Refunding, Untouched
<1>5. CASE row.status = "held" /\ IsCheckout(row, new)
  BY <1>0, <1>1, <1>2, <1>5
<1>6. CASE /\ Payable(row)
           /\ \E n \in 1 .. Remaining(row) : \E p \in Splits(n, Methods \cap Money) :
                new = Collected(row, p)
  BY <1>6, CollectedRefunding
<1>7. CASE /\ row.status \in {"paid", "credit", "partial", "partial_refund"}
           /\ IsRefund(row, new)
  BY <1>7, RefundedRefunding DEF IsRefund
<1>8. CASE row.status = "held" /\ new = [row EXCEPT !.status = "cancelled"]
  <2>1. /\ new.status = "cancelled" /\ new.took = row.took /\ new.gave = row.gave
        /\ new.charged = row.charged /\ new.repaid = row.repaid /\ new.back = row.back
        /\ new.refunded = row.refunded /\ new.total = row.total
    BY <1>0, <1>8 DEF OrderRow
  <2>2. Exact(new) = Exact(row)
    BY <2>1 DEF Exact, Miss, RoundingFits
  <2> QED BY <1>8, <2>1, <2>2 DEF Refunding, Untouched
<1> QED BY <1>3, <1>4, <1>5, <1>6, <1>7, <1>8 DEF Move

(* The refunds of an order that was paid to the cent come to what they are *)
(* worth, in any number of parts, and leave no debt overpaid.              *)
THEOREM RefundsAddUpHolds == Spec => []RefundsAddUp
<1> DEFINE Inv == \A o \in Order : Refunding(orders[o])
<1>1. Init => IInv /\ Inv
  <2>1. Refunding(NoOrder)
    BY WholeOfNothing DEF Refunding, NoOrder, Untouched, Nothing, Method
  <2> QED BY <2>1, InitIInv DEF Init
<1>2. IInv /\ [Next]_vars => IInv'
  BY StepIInv
<1>3. IInv /\ Inv /\ [Next]_vars => Inv'
  <2> SUFFICES ASSUME IInv, Inv, [Next]_vars, NEW o \in Order PROVE Refunding(orders'[o])
    OBVIOUS
  <2>1. Good(orders[o])
    BY DEF IInv
  <2> QED BY <2>1, StepMoves, MoveRefunding
<1>4. IInv /\ Inv => RefundsAddUp
  <2> SUFFICES ASSUME IInv, NEW o \in Order, Refunding(orders[o]), Exact(orders[o])
               PROVE  /\ orders[o].refunded = Whole(orders[o].gave)
                      /\ Owed(orders[o]) >= 0
    BY DEF RefundsAddUp, RefundIsPaidOut, DebtNeverNegative
  <2> DEFINE row == orders[o]
             money == InMoney(row.took)
  <2>1. /\ row.total \in Nat /\ row.refunded \in Nat /\ row.charged \in Nat
        /\ row.repaid \in Nat /\ row.gave["credit"] \in Nat /\ money \in Nat
    BY DEF IInv, Good, OrderRow, InMoney, Method
  <2>2. money + row.charged - row.repaid - row.total = 0
    BY DEF Exact, Miss
  <2>3. /\ row.refunded = Whole(row.gave) /\ row.refunded <= row.total
        /\ row.repaid <= row.charged
        /\ row.gave["credit"] = 0 \/ row.gave["credit"] <= row.refunded - money
    BY DEF Refunding
  <2> HIDE DEF row, money
  <2>4. row.charged - row.repaid - row.gave["credit"] >= 0
    BY <2>1, <2>2, <2>3
  <2> QED BY <2>3, <2>4 DEF row, Owed
<1> QED BY <1>1, <1>2, <1>3, <1>4, PTL DEF Spec

=============================================================================
