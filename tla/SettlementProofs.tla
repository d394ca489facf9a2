-------------------------- MODULE SettlementProofs --------------------------
(***************************************************************************)
(* The settlement only watches and restricts the till: what is proved of   *)
(* PosOrder holds under it, and the days it divides the flow into add up.  *)
(***************************************************************************)
EXTENDS Settlement, AllocationProofs

Till == INSTANCE PosOrderProofs

LEMMA StepIsTillStep == [Next]_vars => [Pos!Next]_(Pos!vars)
<1> SUFFICES ASSUME [Next]_vars PROVE [Pos!Next]_(Pos!vars)
  OBVIOUS
<1>1. ASSUME NEW t \in Terminal, NEW req \in Pos!Request, Admit(t, req)
      PROVE  Pos!Next
  BY <1>1 DEF Admit, Pos!Next
<1>2. ASSUME NEW t \in Terminal,
             Create(t) \/ Hold(t) \/ Resume(t) \/ Pay(t) \/ Refund(t) \/ Reject(t)
      PROVE  Pos!Next
  BY <1>2 DEF Create, Hold, Resume, Pay, Refund, Reject, Pos!Next
<1>3. ASSUME NEW o \in Order, Cancel(o) PROVE Pos!Next
  BY <1>3 DEF Cancel, Pos!Next
<1>4. CASE RepayCustomer
  BY <1>4 DEF RepayCustomer, Pos!Next
<1>5. CASE UNCHANGED till
  BY <1>5 DEF till, Pos!vars
<1>6. CASE NextDay \/ \E d \in Day : Reopen(d)
  BY <1>5, <1>6 DEF NextDay, Reopen
<1>7. CASE \E c \in Closer : \/ \E d \in Day : CountSales(c, d)
                             \/ CountPayments(c) \/ FindRow(c) \/ WriteRow(c)
  BY <1>5, <1>7 DEF CountSales, CountPayments, FindRow, WriteRow
<1>8. CASE UNCHANGED vars
  BY <1>5, <1>8 DEF vars
<1> QED
  BY <1>1, <1>2, <1>3, <1>4, <1>6, <1>7, <1>8 DEF Next

(* Every behaviour of the till with settlements is one of the till alone:  *)
(* the daily settlement can refuse a request but never change what one     *)
(* does.                                                                   *)
THEOREM TillUnchangedHolds == Spec => TillUnchanged
<1>1. Init => Pos!Init
  BY DEF Init
<1>2. [Next]_vars => [Pos!Next]_(Pos!vars)
  BY StepIsTillStep
<1> QED BY <1>1, <1>2, PTL DEF Spec, TillUnchanged, Pos!Spec

-----------------------------------------------------------------------------
(* The till, as its proofs speak of it *)

LEMMA TillConstants == Till!PosConstants
BY SettlementConstants DEF Pos!PosConstants, Till!PosConstants, Pos!Method, Till!Method

LEMMA SameTill ==
  /\ Till!Method = Pos!Method /\ Till!Money = Pos!Money /\ Till!Nothing = Pos!Nothing
  /\ \A p : Till!Whole(p) = Pos!Whole(p) /\ Till!InMoney(p) = Pos!InMoney(p)
  /\ \A p, r : Till!Plus(p, r) = Pos!Plus(p, r)
BY DEF Till!Method, Pos!Method, Till!Money, Pos!Money, Till!Nothing, Pos!Nothing,
       Till!Whole, Pos!Whole, Till!InMoney, Pos!InMoney, Till!Plus, Pos!Plus

LEMMA SamePayments ==
  /\ \A total : Till!Payments(total) = Pos!Payments(total)
  /\ \A row, total, pay : Till!Sold(row, total, pay) = Pos!Sold(row, total, pay)
<1>1. /\ \A total, m : Till!Single(total, m) = Pos!Single(total, m)
      /\ \A total : Till!OnCredit(total) = Pos!OnCredit(total)
      /\ \A p : Till!Combined(p) = Pos!Combined(p)
  BY SameTill DEF Till!Single, Pos!Single, Till!OnCredit, Pos!OnCredit, Till!Combined,
     Pos!Combined
<1>2. \A n, S : Till!Splits(n, S) = Pos!Splits(n, S)
  BY SameTill DEF Till!Splits, Pos!Splits
<1>3. \A m, n : Till!Larger(m, n) = Pos!Larger(m, n)
  BY DEF Till!Larger, Pos!Larger
<1>4. \A total : Till!Payments(total) = Pos!Payments(total)
  BY <1>1, <1>2, <1>3 DEF Till!Payments, Pos!Payments
<1>5. \A row, total, pay : Till!Sold(row, total, pay) = Pos!Sold(row, total, pay)
  BY DEF Till!Sold, Pos!Sold
<1> QED
  BY <1>4, <1>5

LEMMA SameSum == \A f : Till!SumOf(f) = Pos!SumOf(f)
BY Zenon DEF Till!SumOf, Pos!SumOf, Till!MapThenFoldSet, Pos!MapThenFoldSet

LEMMA SameReversal ==
  \A r, row, amount : Till!IsReversal(r, row, amount) <=> Pos!IsReversal(r, row, amount)
BY SameSum, SameTill DEF Till!IsReversal, Pos!IsReversal, Till!IsSplit, Pos!IsSplit,
   Till!Smaller, Pos!Smaller, Till!Sum, Pos!Sum, Till!RefundRank, Pos!RefundRank

LEMMA SameRefunds ==
  /\ \A row, k : Till!RefundAmount(row, k) = Pos!RefundAmount(row, k)
  /\ \A row, k, r, returned : Till!Refunded(row, k, r, returned) = Pos!Refunded(row, k, r, returned)
  /\ \A m, n : Till!Larger(m, n) = Pos!Larger(m, n)
<1>1. \A n, d : Till!Rounded(n, d) = Pos!Rounded(n, d)
  BY DEF Till!Rounded, Pos!Rounded
<1>2. \A row, k : Till!RefundAmount(row, k) = Pos!RefundAmount(row, k)
  BY <1>1 DEF Till!RefundAmount, Pos!RefundAmount
<1> QED
  BY <1>2, SameTill DEF Till!Refunded, Pos!Refunded, Till!Larger, Pos!Larger

LEMMA SameSteps ==
  ASSUME NEW t
  PROVE  /\ Till!Create(t) <=> Pos!Create(t)
         /\ Till!Hold(t) <=> Pos!Hold(t)
         /\ Till!Resume(t) <=> Pos!Resume(t)
         /\ Till!Pay(t) <=> Pos!Pay(t)
         /\ Till!Refund(t) <=> Pos!Refund(t)
<1>1. Till!Create(t) <=> Pos!Create(t)
  BY SamePayments DEF Till!Create, Pos!Create, Till!Pending, Pos!Pending, Till!Answer,
     Pos!Answer, Till!Known, Pos!Known
<1>2. Till!Hold(t) <=> Pos!Hold(t)
  BY DEF Till!Hold, Pos!Hold, Till!Pending, Pos!Pending, Till!Answer, Pos!Answer,
     Till!Known, Pos!Known, Till!Parked, Pos!Parked, Till!NoOrder, Pos!NoOrder,
     Till!Nothing, Pos!Nothing, Till!Method, Pos!Method
<1>3. Till!Resume(t) <=> Pos!Resume(t)
  BY SamePayments DEF Till!Resume, Pos!Resume, Till!Pending, Pos!Pending, Till!Answer,
     Pos!Answer
<1>4. Till!Pay(t) <=> Pos!Pay(t)
  BY DEF Till!Pay, Pos!Pay, Till!Pending, Pos!Pending, Till!Answer, Pos!Answer,
     Till!Payable, Pos!Payable, Till!Remaining, Pos!Remaining, Till!Splits, Pos!Splits,
     Till!Money, Pos!Money, Till!Method, Pos!Method, Till!Collected, Pos!Collected,
     Till!Whole, Pos!Whole, Till!InMoney, Pos!InMoney, Till!Plus, Pos!Plus
<1>5. Till!Refund(t) <=> Pos!Refund(t)
  BY SameTill, SameReversal, SameRefunds
  DEF Till!Refund, Pos!Refund, Till!Pending, Pos!Pending, Till!Answer, Pos!Answer
<1> QED
  BY <1>1, <1>2, <1>3, <1>4, <1>5

LEMMA TillStep == [Pos!Next]_(Pos!vars) => [Till!Next]_(Till!vars)
<1>1. Till!vars = Pos!vars /\ Till!Request = Pos!Request
  BY DEF Till!vars, Pos!vars, Till!Request, Pos!Request, Till!Ops, Pos!Ops
<1>2. \A t, req : Pos!Admit(t, req) => Till!Admit(t, req)
  BY DEF Pos!Admit, Till!Admit
<1>3. \A t : Pos!Reject(t) => Till!Reject(t)
  BY DEF Pos!Reject, Till!Reject, Till!Answer, Pos!Answer
<1>4. \A o : Pos!Cancel(o) => Till!Cancel(o)
  BY DEF Pos!Cancel, Till!Cancel
<1>5. Pos!RepayCustomer => Till!RepayCustomer
  <2>1. Pos!Balance = Till!Balance
    BY SameSum DEF Pos!Balance, Till!Balance, Pos!Sum, Till!Sum, Pos!Owed, Till!Owed
  <2> QED
    BY <2>1 DEF Pos!RepayCustomer, Till!RepayCustomer
<1>6. Pos!Next => Till!Next
  BY <1>1, <1>2, <1>3, <1>4, <1>5, SameSteps DEF Pos!Next, Till!Next
<1>7. UNCHANGED Pos!vars => UNCHANGED Till!vars
  BY <1>1 DEF Till!vars, Pos!vars
<1> QED
  BY <1>6, <1>7

LEMMA TillInit == Pos!Init => Till!Init
BY DEF Pos!Init, Till!Init, Pos!NoOrder, Till!NoOrder, Pos!Nothing, Till!Nothing,
   Pos!Method, Till!Method


-----------------------------------------------------------------------------
(* Closing a day                                                           *)

(* What refuses the second writer is the row the first one left: a closed  *)
(* day has one.                                                            *)
RowsKept ==
  /\ settled = [d \in Day |-> settled[d]]
  /\ \A d \in Day : settled[d].status = "closed" => settled[d].exists

(* Of two calls that close a day at once the second is refused, whatever   *)
(* each counted and in whatever order they look and write, unless it found *)
(* the row of a day that had been opened again.                            *)
THEOREM ClosedOnceHolds == Spec => ClosedOnce
<1> DEFINE Kept == \A d \in Day :
             settled[d].status = "closed" /\ settled'[d].status = "closed"
               => \/ settled'[d] = settled[d]
                  \/ \E c \in Closer : At(c, "write") /\ closing[c].day = d /\ closing[c].found
<1>1. Init => RowsKept
  BY DEF Init, RowsKept, NoRow
<1>2. RowsKept /\ [Next]_vars => RowsKept' /\ Kept
  <2> SUFFICES ASSUME RowsKept, [Next]_vars PROVE RowsKept' /\ Kept
    OBVIOUS
  <2>1. ASSUME NEW c \in Closer, WriteRow(c) PROVE RowsKept' /\ Kept
    <3>1. CASE settled' = settled
      BY <3>1 DEF RowsKept
    <3>2. CASE /\ ~(settled[closing[c].day].exists /\ ~closing[c].found)
               /\ settled' = [settled EXCEPT ![closing[c].day] =
                    [exists |-> TRUE, status |-> "closed",
                     diff |-> closing[c].diff, sales |-> closing[c].sales]]
      <4> DEFINE day == closing[c].day
                 row == [exists |-> TRUE, status |-> "closed",
                         diff |-> closing[c].diff, sales |-> closing[c].sales]
      <4>1. settled' = [settled EXCEPT ![day] = row] /\ row.exists
        BY <3>2
      <4>2. RowsKept'
        BY <4>1 DEF RowsKept
      <4>3. ASSUME NEW d \in Day, settled[d].status = "closed", settled'[d] # settled[d]
            PROVE  At(c, "write") /\ day = d /\ closing[c].found
        <5>1. day = d /\ settled[d].exists
          BY <4>1, <4>3 DEF RowsKept
        <5> QED BY <2>1, <3>2, <5>1 DEF WriteRow
      <4> QED BY <4>2, <4>3
    <3> QED BY <2>1, <3>1, <3>2 DEF WriteRow
  <2>2. ASSUME NEW d \in Day, Reopen(d) PROVE RowsKept' /\ Kept
    <3> DEFINE row == [NoRow EXCEPT !.exists = TRUE]
    <3>1. settled' = [settled EXCEPT ![d] = row] /\ row.status = "open"
      BY <2>2 DEF Reopen, NoRow
    <3> HIDE DEF row
    <3> QED BY <3>1 DEF RowsKept
  <2>3. CASE settled' = settled
    BY <2>3 DEF RowsKept
  <2>4. ASSUME NEW t \in Terminal,
               \/ \E req \in Pos!Request : Admit(t, req)
               \/ Create(t) \/ Hold(t) \/ Resume(t) \/ Pay(t) \/ Refund(t) \/ Reject(t)
        PROVE  settled' = settled
    BY <2>4 DEF Admit, Create, Hold, Resume, Pay, Refund, Reject, Dated
  <2>5. CASE \E c \in Closer : \/ \E d \in Day : CountSales(c, d)
                               \/ CountPayments(c) \/ FindRow(c)
    BY <2>3, <2>5 DEF CountSales, CountPayments, FindRow
  <2>6. CASE (\E o \in Order : Cancel(o)) \/ RepayCustomer \/ NextDay \/ UNCHANGED vars
    BY <2>3, <2>6 DEF Cancel, RepayCustomer, NextDay, vars
  <2> QED BY <2>1, <2>2, <2>3, <2>4, <2>5, <2>6 DEF Next
<1>3. RowsKept /\ [Next]_vars => [Kept]_vars
  BY <1>2
<1> QED BY <1>1, <1>2, <1>3, PTL DEF Spec, ClosedOnce

-----------------------------------------------------------------------------
(* What a step of the till receives, pays out and takes off a debt         *)

Sums == [Pos!Method -> Nat]

LEMMA PlusAdds ==
  ASSUME NEW p \in Sums, NEW r \in Sums
  PROVE  /\ Pos!Plus(p, r) \in Sums /\ Minus(Pos!Plus(p, r), p) = r
         /\ Pos!InMoney(p) \in Nat /\ Pos!Whole(p) \in Nat /\ p["credit"] \in Nat
         /\ Pos!Whole(p) = Pos!InMoney(p) + p["credit"]
         /\ Pos!InMoney(Pos!Plus(p, r)) = Pos!InMoney(p) + Pos!InMoney(r)
         /\ Pos!Plus(p, r)["credit"] = p["credit"] + r["credit"]
         /\ Pos!Whole(Pos!Plus(p, r)) = Pos!Whole(p) + Pos!Whole(r)
<1>1. \A m \in {"cash", "wechat", "alipay", "card", "credit"} :
        /\ m \in Pos!Method /\ p[m] \in Nat /\ r[m] \in Nat
        /\ Pos!Plus(p, r)[m] = p[m] + r[m]
  BY DEF Sums, Pos!Method, Pos!Plus
<1>2. Pos!Plus(p, r) \in Sums
  BY DEF Sums, Pos!Plus
<1>3. Minus(Pos!Plus(p, r), p) = r
  <2>1. \A m \in Pos!Method : (p[m] + r[m]) - p[m] = r[m]
    BY DEF Sums
  <2>2. Minus(Pos!Plus(p, r), p) = [m \in Pos!Method |-> r[m]]
    BY <2>1 DEF Minus, Pos!Plus
  <2> QED BY <2>2 DEF Sums
<1> QED BY <1>1, <1>2, <1>3 DEF Pos!Whole, Pos!InMoney

LEMMA NothingAdds ==
  /\ Pos!Nothing \in Sums /\ Pos!Whole(Pos!Nothing) = 0 /\ Pos!InMoney(Pos!Nothing) = 0
  /\ Pos!Nothing["credit"] = 0
  /\ \A p \in Sums : Pos!Plus(p, Pos!Nothing) = p /\ Pos!Plus(Pos!Nothing, p) = p
<1>1. \A p \in Sums : Pos!Plus(p, Pos!Nothing) = p /\ Pos!Plus(Pos!Nothing, p) = p
  <2> SUFFICES ASSUME NEW p \in Sums
               PROVE  Pos!Plus(p, Pos!Nothing) = p /\ Pos!Plus(Pos!Nothing, p) = p
    OBVIOUS
  <2>1. p = [m \in Pos!Method |-> p[m]] /\ \A m \in Pos!Method : p[m] + 0 = p[m] /\ 0 + p[m] = p[m]
    BY DEF Sums
  <2> QED BY <2>1 DEF Pos!Plus, Pos!Nothing
<1>2. \A m \in Pos!Method : Pos!Nothing[m] = 0
  BY DEF Pos!Nothing
<1>3. {"cash", "wechat", "alipay", "card", "credit"} \subseteq Pos!Method
  BY DEF Pos!Method
<1>4. Pos!Nothing \in Sums
  BY DEF Sums, Pos!Nothing
<1> QED BY <1>1, <1>2, <1>3, <1>4 DEF Pos!Whole, Pos!InMoney

Waiting(row) == row.status \in {"none", "held", "cancelled"}
Final(row)   == row.status \in {"paid", "credit", "partial", "partial_refund", "refunded"}

(* Between row and new, p was received, r paid out and n taken off a debt. *)
Delta(row, new, p, r, n) ==
  /\ row.took \in Sums /\ row.gave \in Sums /\ row.repaid \in Nat
  /\ p \in Sums /\ r \in Sums /\ n \in Nat
  /\ new.took = Pos!Plus(row.took, p) /\ new.gave = Pos!Plus(row.gave, r)
  /\ new.repaid = row.repaid + n
  /\ \/ /\ Waiting(row) /\ Waiting(new) /\ p = Pos!Nothing /\ r = Pos!Nothing /\ n = 0
        /\ new.status = "none" <=> row.status = "none"
     \/ /\ row.status = "none" /\ new.status = "held"
        /\ p = Pos!Nothing /\ r = Pos!Nothing /\ n = 0
     \/ /\ row.status \in {"none", "held"} /\ Final(new)
        /\ Pos!Whole(p) = new.total /\ new.total \in Nat \ {0} /\ r = Pos!Nothing /\ n = 0
     \/ /\ Final(row) /\ Final(new) /\ new.total = row.total
        /\ Pos!Whole(p) = n /\ p["credit"] = 0

(* A checkout without a rounding gap pays the price, on credit or not.     *)
LEMMA PaidInFull ==
  ASSUME Mismatch = 0, NEW total \in Totals, NEW pay \in Till!Payments(total)
  PROVE  /\ total \in Nat \ {0} /\ pay.status \in {"paid", "credit"} /\ pay.took \in Sums
         /\ Pos!Whole(pay.took) = total
<1>1. total \in Nat \ {0}
  BY TillConstants DEF Till!PosConstants
<1>2. Till!Checkout(pay, total)
  BY TillConstants, Till!PaymentsCheckOut
<1>3. pay.status \in {"paid", "credit"} /\ pay.took \in Sums
  BY <1>2, SameTill DEF Till!Checkout, Sums
<1>4. Pos!Whole(pay.took) = total
  <2>1. ASSUME NEW m \in Methods \ {"credit"}, pay = Pos!Single(total, m)
        PROVE  Pos!Whole(pay.took) = total
    <3>1. m \in Pos!Method \ {"credit"}
      BY SettlementConstants DEF Pos!PosConstants
    <3> QED BY <1>1, <2>1, <3>1 DEF Pos!Single, Pos!Nothing, Pos!Method, Pos!Whole, Pos!InMoney
  <2>2. CASE pay = Pos!OnCredit(total)
    BY <1>1, <2>2 DEF Pos!OnCredit, Pos!Nothing, Pos!Method, Pos!Whole, Pos!InMoney
  <2>3. ASSUME NEW n \in Pos!Larger(1, total - Mismatch) .. total + Mismatch,
               NEW q \in Pos!Splits(n, Methods), pay = Pos!Combined(q)
        PROVE  Pos!Whole(pay.took) = total
    BY <1>1, <2>3 DEF Pos!Combined, Pos!Splits, Pos!Larger
  <2>4. pay \in Pos!Payments(total)
    BY SamePayments
  <2> QED BY <2>1, <2>2, <2>3, <2>4 DEF Pos!Payments
<1> QED BY <1>1, <1>3, <1>4

LEMMA KeptDelta ==
  ASSUME NEW row \in Till!OrderRow
  PROVE  Delta(row, row, Pos!Nothing, Pos!Nothing, 0)
<1>1. row.took \in Sums /\ row.gave \in Sums /\ row.repaid \in Nat
      /\ (Waiting(row) \/ Final(row))
  BY SameTill DEF Till!OrderRow, Till!Statuses, Sums, Waiting, Final
<1> QED BY <1>1, NothingAdds DEF Delta

LEMMA CheckoutDelta ==
  ASSUME Mismatch = 0, NEW row \in Till!OrderRow, row.status \in {"none", "held"},
         row.took = Pos!Nothing,
         NEW from \in Till!OrderRow, from.gave = row.gave, from.repaid = row.repaid,
         NEW new, Till!IsCheckout(from, new)
  PROVE  \E p : Delta(row, new, p, Pos!Nothing, 0)
<1>1. PICK total \in Totals : \E pay \in Till!Payments(total) : new = Till!Sold(from, total, pay)
  BY DEF Till!IsCheckout
<1>2. PICK pay \in Till!Payments(total) : new = Till!Sold(from, total, pay)
  BY <1>1
<1>3. /\ new.took = pay.took /\ new.gave = row.gave /\ new.repaid = row.repaid
      /\ new.total = total /\ new.status = pay.status
  BY <1>2 DEF Till!Sold, Till!OrderRow
<1>4. row.gave \in Sums /\ row.repaid \in Nat
  BY SameTill DEF Till!OrderRow, Sums
<1>5. Delta(row, new, pay.took, Pos!Nothing, 0)
  BY <1>3, <1>4, PaidInFull, NothingAdds DEF Delta, Final
<1> QED BY <1>5

LEMMA CollectDelta ==
  ASSUME Mismatch = 0, NEW row, Till!Good(row), Till!Payable(row),
         NEW n \in 1 .. Till!Remaining(row), NEW p \in Till!Splits(n, Methods \cap Till!Money)
  PROVE  Delta(row, Till!Collected(row, p), p, Pos!Nothing, n)
<1> DEFINE new == Till!Collected(row, p)
<1>1. /\ row \in Till!OrderRow /\ row.status \in {"paid", "credit", "partial"}
      /\ row.total \in Nat /\ row.paid \in Nat /\ row.repaid \in Nat
      /\ row.took \in Sums /\ row.gave \in Sums /\ Till!Balanced(row)
      /\ Till!Remaining(row) = row.total - row.paid
  BY SameTill DEF Till!Good, Till!OrderRow, Till!Payable, Till!Remaining, Sums
<1>2. /\ n \in Nat \ {0} /\ row.paid < row.total
      /\ p \in [Pos!Method -> 0 .. n] /\ Pos!Whole(p) = n /\ p["credit"] = 0
  BY <1>1, SameTill DEF Till!Splits, Pos!Money, Pos!Method
<1>3. p \in Sums
  BY <1>2 DEF Sums
<1>4. row.status # "paid"
  <2> SUFFICES ASSUME row.status = "paid" PROVE FALSE
    OBVIOUS
  <2>1. Till!Miss(row) = row.paid - row.total /\ -Mismatch <= Till!Miss(row)
    BY <1>1, <1>2 DEF Till!Balanced
  <2> QED BY <1>1, <1>2, <2>1
<1>5. /\ new.took = Pos!Plus(row.took, p) /\ new.gave = row.gave
      /\ new.repaid = row.repaid + n /\ new.total = row.total
      /\ new.status \in {"paid", "partial"}
  BY <1>1, <1>2, <1>4, SameTill DEF Till!Collected, Till!OrderRow
<1> HIDE DEF new
<1>6. Delta(row, new, p, Pos!Nothing, n)
  BY <1>1, <1>2, <1>3, <1>5, NothingAdds DEF Delta, Final
<1> QED BY <1>6 DEF new

LEMMA RefundDelta ==
  ASSUME NEW row \in Till!OrderRow,
         row.status \in {"paid", "credit", "partial", "partial_refund"},
         NEW new, Till!IsRefund(row, new)
  PROVE  \E r : Delta(row, new, Pos!Nothing, r, 0)
<1>1. PICK k \in 1 .. Quantity - row.back, returned \in BOOLEAN :
             \E r \in [Till!Method -> 0 .. Till!Larger(Till!RefundAmount(row, k), 0)] :
               new = Till!Refunded(row, k, r, returned)
  BY DEF Till!IsRefund
<1>2. PICK r \in [Till!Method -> 0 .. Till!Larger(Till!RefundAmount(row, k), 0)] :
             new = Till!Refunded(row, k, r, returned)
  BY <1>1
<1>3. row.took \in Sums /\ row.gave \in Sums /\ row.repaid \in Nat
  BY SameTill DEF Till!OrderRow, Sums
<1>4. r \in Sums
  BY <1>2, SameTill DEF Sums
<1>5. /\ new.took = row.took /\ new.gave = Pos!Plus(row.gave, r) /\ new.repaid = row.repaid
      /\ new.total = row.total /\ new.status \in {"refunded", "partial_refund"}
  BY <1>2, SameTill DEF Till!Refunded, Till!OrderRow
<1>6. Delta(row, new, Pos!Nothing, r, 0)
  BY <1>3, <1>4, <1>5, NothingAdds DEF Delta, Final
<1> QED BY <1>6

(* Every step of the till is such a difference of its order.               *)
LEMMA MoveDelta ==
  ASSUME Mismatch = 0, NEW row, NEW new, Till!Good(row), Till!Still(row), Till!Move(row, new)
  PROVE  \E p, r, n : Delta(row, new, p, r, n)
<1>0. row \in Till!OrderRow /\ row.took \in Sums /\ row.gave \in Sums /\ row.repaid \in Nat
  BY SameTill DEF Till!Good, Till!OrderRow, Sums
<1>1. row.status \in {"none", "held"} => row.took = Pos!Nothing
  BY SameTill DEF Till!Still, Till!NoOrder
<1>2. ASSUME NEW client \in Client, row.status = "none",
             Till!IsCheckout([row EXCEPT !.client = client], new)
      PROVE  \E p : Delta(row, new, p, Pos!Nothing, 0)
  <2> DEFINE from == [row EXCEPT !.client = client]
  <2>1. from \in Till!OrderRow /\ from.gave = row.gave /\ from.repaid = row.repaid
    BY <1>0 DEF Till!OrderRow
  <2> HIDE DEF from
  <2> QED BY <1>0, <1>1, <1>2, <2>1, CheckoutDelta DEF from
<1>3. ASSUME NEW client \in Client, NEW total \in Totals,
             row.status = "none", new = Till!Parked(client, total)
      PROVE  Delta(row, new, Pos!Nothing, Pos!Nothing, 0)
  <2>1. row = Till!NoOrder
    BY <1>3 DEF Till!Still
  <2>2. /\ new.took = row.took /\ new.gave = row.gave /\ new.repaid = row.repaid
        /\ new.status = "held"
    BY <1>3, <2>1 DEF Till!Parked, Till!NoOrder
  <2> QED BY <1>0, <1>3, <2>2, NothingAdds DEF Delta
<1>4. CASE row.status = "held" /\ Till!IsCheckout(row, new)
  BY <1>0, <1>1, <1>4, CheckoutDelta
<1>5. CASE /\ Till!Payable(row)
           /\ \E n \in 1 .. Till!Remaining(row) :
                \E p \in Till!Splits(n, Methods \cap Till!Money) : new = Till!Collected(row, p)
  BY <1>5, CollectDelta
<1>6. CASE /\ row.status \in {"paid", "credit", "partial", "partial_refund"}
           /\ Till!IsRefund(row, new)
  BY <1>0, <1>6, RefundDelta
<1>7. CASE row.status = "held" /\ new = [row EXCEPT !.status = "cancelled"]
  <2>1. /\ new.took = row.took /\ new.gave = row.gave /\ new.repaid = row.repaid
        /\ new.status = "cancelled"
    BY <1>0, <1>7 DEF Till!OrderRow
  <2> QED BY <1>0, <1>7, <2>1, NothingAdds DEF Delta, Waiting
<1> QED BY <1>2, <1>3, <1>4, <1>5, <1>6, <1>7 DEF Till!Move

-----------------------------------------------------------------------------
(* The rows of an order by the days they carry                             *)

FlowRow == [took : Sums, gave : Sums, repaid : Nat]

(* The money of an order is that of its days.  Nothing moves before it is  *)
(* checked out.  After that its own day holds the price and what was       *)
(* repaid on it, and every other day only repayments, in money; or, sold   *)
(* on another day than its own, its own day holds repayments only.         *)
Accounted(row, F, b) ==
  /\ F \in [Day -> FlowRow]
  /\ IF row.status = "none" THEN b = 0 ELSE b \in Day
  /\ Pos!InMoney(row.took) = SumOf([d \in Day |-> Pos!InMoney(F[d].took)])
  /\ Pos!InMoney(row.gave) = SumOf([d \in Day |-> Pos!InMoney(F[d].gave)])
  /\ Waiting(row) => \A d \in Day : F[d] = Quiet
  /\ Final(row) =>
       /\ row.total \in Nat \ {0}
       /\ \/ /\ Pos!Whole(F[b].took) = row.total + F[b].repaid
             /\ \A d \in Day \ {b} : /\ Pos!Whole(F[d].took) = F[d].repaid
                                     /\ F[d].took["credit"] = 0
          \/ /\ Pos!Whole(F[b].took) = F[b].repaid
             /\ \E d \in Day : Pos!Whole(F[d].took) > 0

Added(F, d, p, r, n) ==
  [F EXCEPT ![d] = [took |-> Pos!Plus(@.took, p), gave |-> Pos!Plus(@.gave, r),
                    repaid |-> @.repaid + n]]

BornOn(row, new, b, d) == IF row.status = "none" /\ new.status # "none" THEN d ELSE b

LEMMA DayFinite == IsFiniteSet(Day)
<1>1. Days \in Nat
  BY SettlementConstants
<1> QED BY <1>1, FS_Interval DEF Day

LEMMA AddedRows ==
  ASSUME NEW F \in [Day -> FlowRow], NEW d \in Day, NEW p \in Sums, NEW r \in Sums,
         NEW n \in Nat
  PROVE  LET G == Added(F, d, p, r, n) IN
         /\ G \in [Day -> FlowRow]
         /\ \A e \in Day \ {d} : G[e] = F[e]
         /\ Pos!Whole(G[d].took) = Pos!Whole(F[d].took) + Pos!Whole(p)
         /\ Pos!InMoney(G[d].took) = Pos!InMoney(F[d].took) + Pos!InMoney(p)
         /\ Pos!InMoney(G[d].gave) = Pos!InMoney(F[d].gave) + Pos!InMoney(r)
         /\ G[d].took["credit"] = F[d].took["credit"] + p["credit"]
         /\ G[d].repaid = F[d].repaid + n
<1> DEFINE G == Added(F, d, p, r, n)
           took == Pos!Plus(F[d].took, p)
           gave == Pos!Plus(F[d].gave, r)
<1>1. F[d].took \in Sums /\ F[d].gave \in Sums /\ F[d].repaid \in Nat
  BY DEF FlowRow
<1>2. /\ G[d] = [took |-> took, gave |-> gave, repaid |-> F[d].repaid + n]
      /\ \A e \in Day \ {d} : G[e] = F[e]
      /\ G = [e \in Day |-> IF e = d THEN G[d] ELSE F[e]]
  BY DEF Added
<1>3. took \in Sums /\ gave \in Sums
  BY <1>1, PlusAdds
<1>4. G[d] \in FlowRow
  <2> HIDE DEF G, took, gave
  <2> QED BY <1>1, <1>2, <1>3 DEF FlowRow
<1>5. G \in [Day -> FlowRow]
  <2> HIDE DEF G
  <2> QED BY <1>2, <1>4
<1>6. G[d].took = took /\ G[d].gave = gave /\ G[d].repaid = F[d].repaid + n
  <2> HIDE DEF G, took, gave
  <2> QED BY <1>2
<1> HIDE DEF G
<1> QED BY <1>1, <1>2, <1>5, <1>6, PlusAdds DEF G

(* One of an order's days receives more money.                             *)
LEMMA MoneyAdds ==
  ASSUME NEW f \in [Day -> Nat], NEW g \in [Day -> Nat], NEW d \in Day, NEW n \in Nat,
         g[d] = f[d] + n, \A e \in Day \ {d} : g[e] = f[e]
  PROVE  SumOf(g) = SumOf(f) + n
<1>1. SumOf(g) = SumOf(f) + g[d] - f[d]
  BY DayFinite, SumUpdate
<1>2. SumOf(f) \in Int
  BY DayFinite, SumInt
<1> QED BY <1>1, <1>2

LEMMA DeltaAccounted ==
  ASSUME NEW row, NEW new, NEW F, NEW b, Accounted(row, F, b), NEW d \in Day,
         NEW p, NEW r, NEW n, Delta(row, new, p, r, n)
  PROVE  Accounted(new, Added(F, d, p, r, n), BornOn(row, new, b, d))
<1> DEFINE G == Added(F, d, p, r, n)
           c == BornOn(row, new, b, d)
<1>0. /\ F \in [Day -> FlowRow] /\ p \in Sums /\ r \in Sums /\ n \in Nat
      /\ row.took \in Sums /\ row.gave \in Sums
  BY DEF Accounted, Delta
<1>1. /\ G \in [Day -> FlowRow]
      /\ \A e \in Day \ {d} : G[e] = F[e]
      /\ Pos!Whole(G[d].took) = Pos!Whole(F[d].took) + Pos!Whole(p)
      /\ Pos!InMoney(G[d].took) = Pos!InMoney(F[d].took) + Pos!InMoney(p)
      /\ Pos!InMoney(G[d].gave) = Pos!InMoney(F[d].gave) + Pos!InMoney(r)
      /\ G[d].took["credit"] = F[d].took["credit"] + p["credit"]
      /\ G[d].repaid = F[d].repaid + n
  BY <1>0, AddedRows
<1>2. \A e \in Day : /\ F[e].took \in Sums /\ F[e].gave \in Sums /\ F[e].repaid \in Nat
                     /\ Pos!Whole(F[e].took) \in Nat /\ F[e].took["credit"] \in Nat
                     /\ Pos!InMoney(F[e].took) \in Nat /\ Pos!InMoney(F[e].gave) \in Nat
                     /\ Pos!InMoney(G[e].took) \in Nat /\ Pos!InMoney(G[e].gave) \in Nat
  <2>1. \A e \in Day : /\ F[e].took \in Sums /\ F[e].gave \in Sums /\ F[e].repaid \in Nat
                       /\ G[e].took \in Sums /\ G[e].gave \in Sums
    <3> HIDE DEF G
    <3> QED BY <1>0, <1>1 DEF FlowRow
  <2> HIDE DEF G
  <2> QED BY <2>1, PlusAdds
<1>3. Pos!InMoney(new.took) = SumOf([e \in Day |-> Pos!InMoney(G[e].took)])
  <2> DEFINE f == [e \in Day |-> Pos!InMoney(F[e].took)]
             g == [e \in Day |-> Pos!InMoney(G[e].took)]
  <2>1. /\ f \in [Day -> Nat] /\ g \in [Day -> Nat] /\ Pos!InMoney(p) \in Nat
        /\ g[d] = f[d] + Pos!InMoney(p) /\ \A e \in Day \ {d} : g[e] = f[e]
    <3> HIDE DEF G
    <3> QED BY <1>0, <1>1, <1>2, PlusAdds
  <2>2. SumOf(g) = SumOf(f) + Pos!InMoney(p)
    <3> HIDE DEF f, g
    <3> QED BY <2>1, MoneyAdds
  <2>3. new.took = Pos!Plus(row.took, p) /\ Pos!InMoney(row.took) = SumOf(f)
    BY DEF Delta, Accounted
  <2> QED BY <1>0, <2>2, <2>3, PlusAdds
<1>4. Pos!InMoney(new.gave) = SumOf([e \in Day |-> Pos!InMoney(G[e].gave)])
  <2> DEFINE f == [e \in Day |-> Pos!InMoney(F[e].gave)]
             g == [e \in Day |-> Pos!InMoney(G[e].gave)]
  <2>1. /\ f \in [Day -> Nat] /\ g \in [Day -> Nat] /\ Pos!InMoney(r) \in Nat
        /\ g[d] = f[d] + Pos!InMoney(r) /\ \A e \in Day \ {d} : g[e] = f[e]
    <3> HIDE DEF G
    <3> QED BY <1>0, <1>1, <1>2, PlusAdds
  <2>2. SumOf(g) = SumOf(f) + Pos!InMoney(r)
    <3> HIDE DEF f, g
    <3> QED BY <2>1, MoneyAdds
  <2>3. new.gave = Pos!Plus(row.gave, r) /\ Pos!InMoney(row.gave) = SumOf(f)
    BY DEF Delta, Accounted
  <2> QED BY <1>0, <2>2, <2>3, PlusAdds
<1>5. IF row.status = "none" THEN b = 0 ELSE b \in Day
  BY DEF Accounted
<1>6. CASE Waiting(new)
  <2>1. Waiting(row) /\ p = Pos!Nothing /\ r = Pos!Nothing /\ n = 0
    BY <1>6 DEF Delta, Waiting, Final
  <2>2. F[d] = Quiet /\ \A e \in Day : F[e] = Quiet
    BY <2>1 DEF Accounted
  <2>3. G[d] = Quiet
    BY <1>0, <2>1, <2>2, NothingAdds DEF Added, Quiet
  <2>4. \A e \in Day : G[e] = Quiet
    <3> HIDE DEF G
    <3> QED BY <1>1, <2>2, <2>3
  <2>5. IF new.status = "none" THEN c = 0 ELSE c \in Day
    BY <1>5, <1>6, <2>1 DEF Delta, BornOn, Waiting, Final
  <2>6. ~Final(new)
    BY <1>6 DEF Waiting, Final
  <2> HIDE DEF G, c
  <2> QED BY <1>1, <1>3, <1>4, <1>6, <2>4, <2>5, <2>6 DEF Accounted, G, c
<1>7. CASE Final(new) /\ ~Waiting(new) /\ Waiting(row)
  <2>1. /\ row.status \in {"none", "held"} /\ new.status # "none"
        /\ Pos!Whole(p) = new.total /\ new.total \in Nat \ {0} /\ n = 0
    BY <1>7 DEF Delta, Waiting, Final
  <2>2. \A e \in Day : F[e] = Quiet
    BY <1>7 DEF Accounted
  <2>3. \A e \in Day : Pos!Whole(F[e].took) = 0 /\ F[e].took["credit"] = 0 /\ F[e].repaid = 0
    BY <2>2, NothingAdds DEF Quiet
  <2>4. c \in Day /\ new.status # "none"
    BY <1>5, <2>1 DEF BornOn
  <2>5. \/ /\ Pos!Whole(G[c].took) = new.total + G[c].repaid
           /\ \A e \in Day \ {c} : Pos!Whole(G[e].took) = G[e].repaid /\ G[e].took["credit"] = 0
        \/ /\ Pos!Whole(G[c].took) = G[c].repaid
           /\ \E e \in Day : Pos!Whole(G[e].took) > 0
    <3>1. Pos!Whole(G[d].took) = new.total /\ G[d].repaid = 0
      BY <1>1, <2>1, <2>3
    <3>2. \A e \in Day \ {d} : /\ Pos!Whole(G[e].took) = 0 /\ G[e].took["credit"] = 0
                               /\ G[e].repaid = 0
      BY <1>1, <2>3
    <3> HIDE DEF G, c
    <3>3. CASE c = d
      BY <2>1, <3>1, <3>2, <3>3
    <3>4. CASE c # d
      BY <2>1, <2>4, <3>1, <3>2, <3>4
    <3> QED BY <3>3, <3>4
  <2> HIDE DEF G, c
  <2> QED BY <1>1, <1>3, <1>4, <1>7, <2>1, <2>4, <2>5 DEF Accounted, G, c
<1>8. CASE Final(new) /\ ~Waiting(new) /\ ~Waiting(row)
  <2>1. /\ Final(row) /\ new.total = row.total /\ Pos!Whole(p) = n /\ p["credit"] = 0
        /\ row.status # "none" /\ new.status # "none"
    BY <1>8 DEF Delta, Waiting, Final
  <2>2. c = b /\ b \in Day
    BY <1>5, <2>1 DEF BornOn
  <2>3. /\ row.total \in Nat \ {0}
        /\ \/ /\ Pos!Whole(F[b].took) = row.total + F[b].repaid
              /\ \A e \in Day \ {b} : Pos!Whole(F[e].took) = F[e].repaid /\ F[e].took["credit"] = 0
           \/ /\ Pos!Whole(F[b].took) = F[b].repaid
              /\ \E e \in Day : Pos!Whole(F[e].took) > 0
    BY <2>1 DEF Accounted
  <2>4. \A e \in Day : \/ /\ Pos!Whole(G[e].took) = Pos!Whole(F[e].took)
                          /\ G[e].repaid = F[e].repaid /\ G[e].took["credit"] = F[e].took["credit"]
                       \/ /\ Pos!Whole(G[e].took) = Pos!Whole(F[e].took) + n
                          /\ G[e].repaid = F[e].repaid + n
                          /\ G[e].took["credit"] = F[e].took["credit"]
    <3> HIDE DEF G
    <3> QED BY <1>1, <1>2, <2>1
  <2>5. \/ /\ Pos!Whole(G[b].took) = row.total + G[b].repaid
           /\ \A e \in Day \ {b} : Pos!Whole(G[e].took) = G[e].repaid /\ G[e].took["credit"] = 0
        \/ /\ Pos!Whole(G[b].took) = G[b].repaid
           /\ \E e \in Day : Pos!Whole(G[e].took) > 0
    <3> HIDE DEF G
    <3> QED BY <1>0, <1>2, <2>2, <2>3, <2>4
  <2> HIDE DEF G, c
  <2> QED BY <1>1, <1>3, <1>4, <1>8, <2>1, <2>2, <2>3, <2>5 DEF Accounted, G, c
<1>9. Waiting(new) \/ Final(new)
  BY DEF Delta, Waiting, Final
<1> QED BY <1>6, <1>7, <1>8, <1>9

-----------------------------------------------------------------------------
(* The days of a till that gives no change on a rounding gap               *)

(* A request books on a day that was today once, and counter repayments    *)
(* add up by days too.                                                     *)
DayInv ==
  /\ Till!IInv /\ \A o \in Order : Till!Still(orders[o])
  /\ today \in Day
  /\ since \in [Terminal -> 0 .. Days]
  /\ \A t \in Terminal : requests[t] # Idle => since[t] \in Day
  /\ DOMAIN born = Order /\ DOMAIN flow = Order
  /\ \A o \in Order : Accounted(orders[o], flow[o], born[o])
  /\ looseOn \in [Day -> Nat] /\ loose = SumOf(looseOn)

LEMMA InitDays == Init => DayInv
<1> SUFFICES ASSUME Init PROVE DayInv
  OBVIOUS
<1> DEFINE zero == [d \in Day |-> 0]
           F == [d \in Day |-> Quiet]
<1>1. Till!IInv
  BY TillConstants, TillInit, Till!InitIInv DEF Init
<1>2. SumOf(zero) = 0 /\ zero \in [Day -> Nat]
  <2>1. zero \in [Day -> Int] /\ zero \in [Day -> Nat] /\ \A d \in Day : zero[d] = 0
    OBVIOUS
  <2> HIDE DEF zero
  <2> QED BY <2>1, DayFinite, SumZero
<1>3. \A o \in Order : orders[o] = Pos!NoOrder
  BY DEF Init, Pos!Init
<1>4. Accounted(Pos!NoOrder, F, 0)
  <2>1. F \in [Day -> FlowRow]
    BY NothingAdds DEF FlowRow, Quiet
  <2>2. [d \in Day |-> Pos!InMoney(F[d].took)] = zero /\ [d \in Day |-> Pos!InMoney(F[d].gave)] = zero
    BY NothingAdds DEF Quiet
  <2>3. /\ Pos!NoOrder.status = "none" /\ Pos!NoOrder.took = Pos!Nothing
        /\ Pos!NoOrder.gave = Pos!Nothing
    BY DEF Pos!NoOrder
  <2>4. \A d \in Day : F[d] = Quiet
    OBVIOUS
  <2> HIDE DEF F, zero
  <2> QED BY <1>2, <2>1, <2>2, <2>3, <2>4, NothingAdds DEF Accounted, Waiting, Final
<1>5. \A o \in Order : Till!Still(orders[o])
  <2>1. Till!Still(Pos!NoOrder)
    BY DEF Till!Still, Pos!NoOrder, Till!NoOrder, Pos!Nothing, Till!Nothing, Pos!Method,
       Till!Method
  <2> QED BY <1>3, <2>1
<1>6. today \in Day /\ since \in [Terminal -> 0 .. Days] /\ requests = [t \in Terminal |-> Idle]
  BY SettlementConstants DEF Init, Day, Pos!Init
<1>7. /\ born = [o \in Order |-> 0] /\ flow = [o \in Order |-> F]
      /\ looseOn = zero /\ loose = 0
  BY DEF Init, Pos!Init
<1> HIDE DEF F, zero
<1> QED BY <1>1, <1>2, <1>3, <1>4, <1>5, <1>6, <1>7 DEF DayInv

LEMMA RowDelta ==
  ASSUME Mismatch = 0, DayInv, [Next]_vars, NEW o \in Order
  PROVE  \E p, r, n : Delta(orders[o], orders'[o], p, r, n)
<1>1. [Till!Next]_(Till!vars)
  BY StepIsTillStep, TillStep
<1>2. orders'[o] = orders[o] \/ Till!Move(orders[o], orders'[o])
  BY <1>1, TillConstants, Till!StepMoves DEF DayInv
<1>3. Till!Good(orders[o]) /\ Till!Still(orders[o]) /\ orders[o] \in Till!OrderRow
  BY DEF DayInv, Till!IInv, Till!Good
<1> QED BY <1>2, <1>3, MoveDelta, KeptDelta

LEMMA TillKept ==
  ASSUME DayInv, [Next]_vars
  PROVE  Till!IInv' /\ \A o \in Order : Till!Still(orders'[o])
<1>1. [Till!Next]_(Till!vars)
  BY StepIsTillStep, TillStep
<1>2. Till!IInv'
  BY <1>1, TillConstants, Till!StepIInv DEF DayInv
<1>3. ASSUME NEW o \in Order PROVE Till!Still(orders'[o])
  <2>1. orders'[o] = orders[o] \/ Till!Move(orders[o], orders'[o])
    BY <1>1, TillConstants, Till!StepMoves DEF DayInv
  <2>2. orders[o] \in Till!OrderRow /\ Till!Still(orders[o])
    BY DEF DayInv, Till!IInv, Till!Good
  <2> QED BY <2>1, <2>2, TillConstants, Till!MoveStill
<1> QED BY <1>2, <1>3

(* A handler changes its order and dates what it changed.                  *)
LEMMA DatedAccounted ==
  ASSUME Mismatch = 0, DayInv, [Next]_vars, NEW t \in Terminal,
         requests[t] # Idle, requests[t].order \in Order,
         \A u \in Order \ {requests[t].order} : orders'[u] = orders[u], Dated(t)
  PROVE  /\ DOMAIN born' = Order /\ DOMAIN flow' = Order
         /\ \A u \in Order : Accounted(orders'[u], flow'[u], born'[u])
<1> DEFINE o == requests[t].order
           d == since[t]
           row == orders[o]
           new == orders'[o]
<1>1. d \in Day /\ o \in Order /\ Accounted(row, flow[o], born[o])
  BY DEF DayInv
<1>2. PICK p, r, n : Delta(row, new, p, r, n)
  BY <1>1, RowDelta
<1>3. Minus(new.took, row.took) = p /\ Minus(new.gave, row.gave) = r
  BY <1>2, PlusAdds DEF Delta
<1>4. flow[o] \in [Day -> FlowRow] /\ flow[o][d].repaid \in Nat
  BY <1>1 DEF Accounted, FlowRow
<1>5. flow[o][d].repaid + new.repaid - row.repaid = flow[o][d].repaid + n
  BY <1>2, <1>4 DEF Delta
<1>6. flow'[o] = Added(flow[o], d, p, r, n)
  <2> DEFINE add == [took |-> Pos!Plus(flow[o][d].took, p), gave |-> Pos!Plus(flow[o][d].gave, r),
                     repaid |-> flow[o][d].repaid + n]
  <2>1. flow' = [flow EXCEPT ![o][d] = add]
    BY <1>3, <1>5 DEF Dated
  <2>2. Added(flow[o], d, p, r, n) = [flow[o] EXCEPT ![d] = add]
    BY DEF Added
  <2> HIDE DEF add, o, d
  <2> QED BY <1>1, <2>1, <2>2 DEF DayInv
<1>7. born'[o] = BornOn(row, new, born[o], d)
  BY <1>1 DEF Dated, DayInv, BornOn
<1>8. /\ DOMAIN born' = Order /\ DOMAIN flow' = Order
      /\ \A u \in Order \ {o} : flow'[u] = flow[u] /\ born'[u] = born[u]
  BY DEF Dated, DayInv
<1>9. Accounted(new, flow'[o], born'[o])
  <2> HIDE DEF row, new, o, d
  <2> QED BY <1>1, <1>2, <1>6, <1>7, DeltaAccounted
<1> QED BY <1>8, <1>9 DEF DayInv

LEMMA StepDays == ASSUME Mismatch = 0, DayInv, [Next]_vars PROVE DayInv'
<1>a. Till!IInv' /\ \A o \in Order : Till!Still(orders'[o])
  BY TillKept
<1>b. /\ orders \in [Order -> Till!OrderRow]
      /\ requests \in [Terminal -> Pos!Request \cup {Idle}]
  BY DEF DayInv, Till!IInv, Till!TypeOK, Till!Request, Pos!Request, Till!Ops, Pos!Ops
<1>1. ASSUME NEW t \in Terminal, NEW req \in Pos!Request, Admit(t, req) PROVE DayInv'
  <2>1. /\ requests' = [requests EXCEPT ![t] = req] /\ since' = [since EXCEPT ![t] = today]
        /\ UNCHANGED <<orders, loose, born, flow, looseOn, today>>
    BY <1>1 DEF Admit, Pos!Admit
  <2>2. today \in 0 .. Days
    BY DEF DayInv, Day
  <2> QED BY <1>a, <1>b, <2>1, <2>2 DEF DayInv
<1>2. ASSUME NEW t \in Terminal,
             Create(t) \/ Hold(t) \/ Resume(t) \/ Pay(t) \/ Refund(t)
      PROVE  DayInv'
  <2>1. /\ requests[t] # Idle /\ requests' = [requests EXCEPT ![t] = Idle]
        /\ \/ orders' = orders
           \/ \E new : orders' = [orders EXCEPT ![requests[t].order] = new]
        /\ loose' = loose
    BY <1>2 DEF Create, Hold, Resume, Pay, Refund, Pos!Create, Pos!Hold, Pos!Resume,
       Pos!Pay, Pos!Refund, Pos!Pending, Pos!Answer
  <2>2. requests[t].order \in Order
    BY <1>b, <2>1 DEF Pos!Request
  <2>3. \A u \in Order \ {requests[t].order} : orders'[u] = orders[u]
    BY <1>b, <2>1
  <2>4. Dated(t)
    BY <1>2 DEF Create, Hold, Resume, Pay, Refund
  <2>5. /\ DOMAIN born' = Order /\ DOMAIN flow' = Order
        /\ \A u \in Order : Accounted(orders'[u], flow'[u], born'[u])
    BY <2>1, <2>2, <2>3, <2>4, DatedAccounted
  <2>6. UNCHANGED <<since, looseOn, today>>
    BY <2>4 DEF Dated
  <2> QED BY <1>a, <1>b, <2>1, <2>5, <2>6 DEF DayInv
<1>3. ASSUME NEW t \in Terminal, Reject(t) PROVE DayInv'
  <2>1. /\ requests' = [requests EXCEPT ![t] = Idle]
        /\ UNCHANGED <<orders, loose, born, flow, looseOn, today, since>>
    BY <1>3 DEF Reject, Pos!Reject, Pos!Answer, dated
  <2> QED BY <1>a, <1>b, <2>1 DEF DayInv
<1>4. ASSUME NEW o \in Order, Cancel(o) PROVE DayInv'
  <2>1. /\ orders[o].status = "held"
        /\ orders' = [orders EXCEPT ![o].status = "cancelled"]
        /\ UNCHANGED <<requests, loose, born, flow, looseOn, today, since>>
    BY <1>4 DEF Cancel, Pos!Cancel, dated
  <2>2. \A u \in Order \ {o} : orders'[u] = orders[u]
    BY <2>1
  <2>3. /\ orders'[o].status = "cancelled" /\ orders'[o].took = orders[o].took
        /\ orders'[o].gave = orders[o].gave
    <3>1. orders[o] \in Till!OrderRow /\ orders'[o] = [orders[o] EXCEPT !.status = "cancelled"]
      BY <1>b, <2>1
    <3> QED BY <3>1 DEF Till!OrderRow
  <2>4. Accounted(orders'[o], flow[o], born[o])
    <3>1. Accounted(orders[o], flow[o], born[o])
      BY DEF DayInv
    <3> QED BY <2>1, <2>3, <3>1 DEF Accounted, Waiting, Final
  <2> QED BY <1>a, <2>1, <2>2, <2>4 DEF DayInv
<1>5. CASE RepayCustomer
  <2>1. PICK n \in 1 .. Gross : loose' = loose + n
    BY <1>5 DEF RepayCustomer, Pos!RepayCustomer
  <2>2. /\ looseOn' = [looseOn EXCEPT ![today] = @ + loose' - loose]
        /\ UNCHANGED <<orders, requests, born, flow, today, since>>
    BY <1>5 DEF RepayCustomer, Pos!RepayCustomer
  <2>3. n \in Nat /\ loose \in Nat /\ today \in Day /\ looseOn \in [Day -> Nat]
    BY DEF DayInv, Till!IInv, Till!TypeOK
  <2>4. looseOn[today] + loose' - loose = looseOn[today] + n
    BY <2>1, <2>3
  <2>5. /\ looseOn' \in [Day -> Nat] /\ looseOn'[today] = looseOn[today] + n
        /\ \A e \in Day \ {today} : looseOn'[e] = looseOn[e]
    BY <2>2, <2>3, <2>4
  <2>6. SumOf(looseOn') = SumOf(looseOn) + n
    BY <2>3, <2>5, MoneyAdds
  <2> QED BY <1>a, <2>1, <2>2, <2>5, <2>6 DEF DayInv
<1>6. CASE NextDay
  <2>1. /\ today' \in Day
        /\ UNCHANGED <<orders, requests, loose, born, flow, looseOn, since>>
    BY <1>6, SettlementConstants DEF NextDay, till, dated, DayInv, Day
  <2> QED BY <1>a, <2>1 DEF DayInv
<1>7. CASE UNCHANGED <<till, dated, today>>
  <2>1. UNCHANGED <<orders, requests, loose, born, flow, looseOn, since, today>>
    BY <1>7 DEF till, dated
  <2> QED BY <1>a, <2>1 DEF DayInv
<1>8. CASE \/ \E c \in Closer : \/ \E d \in Day : CountSales(c, d)
                                \/ CountPayments(c) \/ FindRow(c) \/ WriteRow(c)
           \/ \E d \in Day : Reopen(d)
           \/ UNCHANGED vars
  BY <1>7, <1>8 DEF CountSales, CountPayments, FindRow, WriteRow, Reopen, vars
<1> QED BY <1>1, <1>2, <1>3, <1>4, <1>5, <1>6, <1>8 DEF Next

-----------------------------------------------------------------------------
(* A day's figures, order by order                                         *)

Part(d, o, n) == IF o \in Counted(d) THEN n ELSE 0

Net(d, o) ==
  [m \in Pos!Method |-> Part(d, o, flow[o][d].took[m]) - flow[o][d].gave[m]]

LEMMA FlowTypes ==
  ASSUME DayInv, NEW o \in Order, NEW d \in Day
  PROVE  /\ flow[o][d].took \in Sums /\ flow[o][d].gave \in Sums /\ flow[o][d].repaid \in Nat
         /\ orders[o].total \in Nat
<1>1. flow[o] \in [Day -> FlowRow] /\ orders[o] \in Till!OrderRow
  BY DEF DayInv, Accounted, Till!IInv, Till!Good
<1> QED BY <1>1 DEF FlowRow, Till!OrderRow

LEMMA SumOfMoney ==
  ASSUME NEW p \in [Pos!Method -> Int]
  PROVE  SumOf([m \in Pos!Money |-> p[m]]) = Pos!InMoney(p)
<1>1. Till!SumOf(p) = Pos!Whole(p)
  BY SameTill, TillConstants, Till!SumOfMethods
<1>2. Till!SumOf(p) = SumOf(p)
  BY Zenon DEF Till!SumOf, SumOf, Till!MapThenFoldSet, MapThenFoldSet
<1>3. IsFiniteSet(Pos!Method) /\ "credit" \in Pos!Method
  <2>1. IsFiniteSet({"cash", "wechat", "alipay", "card"} \cup {"credit"})
    <3>1. /\ IsFiniteSet({"cash"} \cup {"wechat"})
          /\ IsFiniteSet({"alipay"} \cup {"card"})
      BY FS_Singleton, FS_Union
    <3>2. IsFiniteSet(({"cash"} \cup {"wechat"}) \cup ({"alipay"} \cup {"card"}))
      BY <3>1, FS_Union
    <3>3. {"cash", "wechat", "alipay", "card"} = ({"cash"} \cup {"wechat"}) \cup ({"alipay"} \cup {"card"})
      OBVIOUS
    <3> QED BY <3>2, <3>3, FS_Singleton, FS_Union
  <2>2. Pos!Method = {"cash", "wechat", "alipay", "card"} \cup {"credit"}
    BY DEF Pos!Method
  <2> QED BY <2>1, <2>2
<1>4. SumOf(p) = p["credit"] + SumOf(Without(p, Pos!Method, "credit"))
  BY <1>3, SumOut
<1>5. Without(p, Pos!Method, "credit") = [m \in Pos!Money |-> p[m]]
  BY DEF Without, Pos!Money
<1>6. SumOf([m \in Pos!Money |-> p[m]]) \in Int /\ IsFiniteSet(Pos!Money)
  <2>1. IsFiniteSet(Pos!Money)
    BY <1>3, FS_RemoveElement DEF Pos!Money
  <2>2. [m \in Pos!Money |-> p[m]] \in [Pos!Money -> Int]
    BY DEF Pos!Money
  <2> QED BY <2>1, <2>2, SumInt
<1>7. Pos!InMoney(p) \in Int /\ p["credit"] \in Int
  BY DEF Pos!InMoney, Pos!Method
<1> DEFINE rest == SumOf([m \in Pos!Money |-> p[m]])
           money == Pos!InMoney(p)
<1>8. money + p["credit"] = p["credit"] + rest
  BY <1>1, <1>2, <1>4, <1>5 DEF Pos!Whole
<1>9. rest \in Int /\ money \in Int /\ p["credit"] \in Int
  BY <1>6, <1>7
<1> HIDE DEF rest, money
<1>10. rest = money
  BY <1>8, <1>9
<1> QED BY <1>10 DEF rest, money

LEMMA ByMethodNet ==
  ASSUME DayInv, NEW d \in Day, NEW m \in Pos!Method
  PROVE  ByMethod(d, m) = SumOf([o \in Order |-> Net(d, o)[m]])
<1> DEFINE C == Counted(d)
           all == [o \in Order |-> flow[o][d].took[m]]
           in == [o \in Order |-> IF o \in C THEN all[o] ELSE 0]
           back == [o \in Order |-> flow[o][d].gave[m]]
           net == [o \in Order |-> Net(d, o)[m]]
<1>0. C \in SUBSET Order /\ IsFiniteSet(Order)
  BY SettlementConstants DEF Counted
<1>1. \A o \in Order : all[o] \in Int /\ in[o] \in Int /\ back[o] \in Int
  BY FlowTypes DEF Sums
<1>2. \A o \in Order : net[o] = in[o] - back[o]
  BY DEF Net, Part
<1>3. /\ in \in [Order -> Int] /\ back \in [Order -> Int] /\ net \in [Order -> Int]
  <2> HIDE DEF C
  <2>1. /\ in = [o \in Order |-> in[o]] /\ back = [o \in Order |-> back[o]]
        /\ net = [o \in Order |-> net[o]]
    OBVIOUS
  <2> HIDE DEF in, back, net
  <2> QED BY <1>1, <1>2, <2>1
<1>4. [o \in C |-> flow[o][d].took[m]] = [o \in C |-> all[o]]
  BY <1>0
<1>5. SumOf([o \in C |-> all[o]]) = SumOf(in)
  <2>1. \A o \in C : all[o] \in Int
    BY <1>0, <1>1
  <2> HIDE DEF C, all
  <2>2. SumOf([o \in C |-> all[o]]) = SumOf([o \in Order |-> IF o \in C THEN all[o] ELSE 0])
    BY <1>0, <2>1, SumPart
  <2> QED BY <2>2
<1>6. SumOf(net) = SumOf(in) - SumOf(back)
  <2> HIDE DEF in, back, net, all
  <2> QED BY <1>0, <1>2, <1>3, SumMinus
<1>7. ByMethod(d, m) = SumOf([o \in C |-> flow[o][d].took[m]]) - SumOf(back)
  BY DEF ByMethod, Sum
<1> QED BY <1>4, <1>5, <1>6, <1>7

LEMMA NetTypes ==
  ASSUME DayInv, NEW d \in Day, NEW o \in Order
  PROVE  /\ Net(d, o) \in [Pos!Method -> Int]
         /\ Pos!InMoney(Net(d, o)) =
              Part(d, o, Pos!InMoney(flow[o][d].took)) - Pos!InMoney(flow[o][d].gave)
         /\ Net(d, o)["credit"] =
              Part(d, o, flow[o][d].took["credit"]) - flow[o][d].gave["credit"]
<1>1. \A m \in Pos!Method : flow[o][d].took[m] \in Int /\ flow[o][d].gave[m] \in Int
  BY FlowTypes DEF Sums
<1>2. \A m \in Pos!Method : Part(d, o, flow[o][d].took[m]) - flow[o][d].gave[m] \in Int
  BY <1>1 DEF Part
<1>3. Net(d, o) \in [Pos!Method -> Int]
  BY <1>2 DEF Net
<1>4. \A m \in Pos!Method : Net(d, o)[m] = Part(d, o, flow[o][d].took[m]) - flow[o][d].gave[m]
  BY DEF Net
<1>5. {"cash", "wechat", "alipay", "card", "credit"} \subseteq Pos!Method
  BY DEF Pos!Method
<1> DEFINE took == flow[o][d].took
           gave == flow[o][d].gave
           net == Net(d, o)
<1>6. \A m \in {"cash", "wechat", "alipay", "card", "credit"} :
        took[m] \in Int /\ gave[m] \in Int /\ net[m] = Part(d, o, took[m]) - gave[m]
  BY <1>1, <1>4, <1>5
<1> HIDE DEF took, gave, net
<1>7. CASE o \in Counted(d)
  BY <1>3, <1>6, <1>7 DEF Pos!InMoney, Part, took, gave, net
<1>8. CASE o \notin Counted(d)
  BY <1>3, <1>6, <1>8 DEF Pos!InMoney, Part, took, gave, net
<1> QED BY <1>7, <1>8

LEMMA PaymentsByOrder ==
  ASSUME DayInv, NEW d \in Day
  PROVE  TotalPayments(d) = SumOf([o \in Order |-> Pos!InMoney(Net(d, o))])
<1> DEFINE table == [o \in Order |-> [m \in Pos!Money |-> Net(d, o)[m]]]
<1>1. IsFiniteSet(Order) /\ IsFiniteSet(Pos!Money) /\ Pos!Money \subseteq Pos!Method
  <2>1. IsFiniteSet({"cash"} \cup {"wechat"} \cup ({"alipay"} \cup {"card"}))
    <3>1. IsFiniteSet({"cash"} \cup {"wechat"}) /\ IsFiniteSet({"alipay"} \cup {"card"})
      BY FS_Singleton, FS_Union
    <3> QED BY <3>1, FS_Union
  <2>2. Pos!Money = {"cash"} \cup {"wechat"} \cup ({"alipay"} \cup {"card"})
    BY DEF Pos!Money, Pos!Method
  <2> QED BY <2>1, <2>2, SettlementConstants DEF Pos!Money
<1>2. table \in [Order -> [Pos!Money -> Int]]
  <2>1. \A o \in Order, m \in Pos!Money : Net(d, o)[m] \in Int
    BY <1>1, NetTypes
  <2> QED BY <2>1
<1>3. SumOf([o \in Order |-> SumOf(table[o])])
        = SumOf([m \in Pos!Money |-> SumOf([o \in Order |-> table[o][m]])])
  <2> HIDE DEF table
  <2> QED BY <1>1, <1>2, SumSwap
<1>4. \A o \in Order : SumOf(table[o]) = Pos!InMoney(Net(d, o))
  <2> SUFFICES ASSUME NEW o \in Order
               PROVE  SumOf([m \in Pos!Money |-> Net(d, o)[m]]) = Pos!InMoney(Net(d, o))
    OBVIOUS
  <2> QED BY NetTypes, SumOfMoney
<1>5. \A m \in Pos!Money : SumOf([o \in Order |-> table[o][m]]) = ByMethod(d, m)
  <2> TAKE m \in Pos!Money
  <2>1. [o \in Order |-> table[o][m]] = [o \in Order |-> Net(d, o)[m]]
    OBVIOUS
  <2> HIDE DEF table
  <2> QED BY <1>1, <2>1, ByMethodNet
<1>6. TotalPayments(d) = SumOf([m \in Pos!Money |-> ByMethod(d, m)])
  BY DEF TotalPayments, Sum
<1>7. /\ [o \in Order |-> SumOf(table[o])] = [o \in Order |-> Pos!InMoney(Net(d, o))]
      /\ [m \in Pos!Money |-> SumOf([o \in Order |-> table[o][m]])]
           = [m \in Pos!Money |-> ByMethod(d, m)]
  <2> HIDE DEF table
  <2> QED BY <1>4, <1>5
<1> QED BY <1>3, <1>6, <1>7

LEMMA CreditByOrder ==
  ASSUME DayInv, NEW d \in Day
  PROVE  CreditAmount(d) = SumOf([o \in Order |->
           Net(d, o)["credit"] - Part(d, o, flow[o][d].repaid)])
<1> DEFINE C == Counted(d)
           all == [o \in Order |-> flow[o][d].repaid]
           in == [o \in Order |-> Part(d, o, flow[o][d].repaid)]
           credit == [o \in Order |-> Net(d, o)["credit"]]
           both == [o \in Order |-> Net(d, o)["credit"] - Part(d, o, flow[o][d].repaid)]
<1>0. C \in SUBSET Order /\ IsFiniteSet(Order) /\ "credit" \in Pos!Method
  BY SettlementConstants DEF Counted, Pos!Method
<1>1. \A o \in Order : all[o] \in Int /\ in[o] \in Int /\ credit[o] \in Int
  BY <1>0, FlowTypes, NetTypes DEF Part
<1>2. in \in [Order -> Int] /\ credit \in [Order -> Int] /\ both \in [Order -> Int]
  <2>1. \A o \in Order : both[o] = credit[o] - in[o]
    OBVIOUS
  <2>2. /\ in = [o \in Order |-> in[o]] /\ credit = [o \in Order |-> credit[o]]
        /\ both = [o \in Order |-> both[o]]
    OBVIOUS
  <2> HIDE DEF in, credit, both
  <2> QED BY <1>1, <2>1, <2>2
<1>3. SameDayRepay(d) = SumOf(in)
  <2>1. SameDayRepay(d) = SumOf([o \in C |-> flow[o][d].repaid])
    BY DEF SameDayRepay, Sum
  <2>2. [o \in C |-> flow[o][d].repaid] = [o \in C |-> all[o]]
    BY <1>0
  <2>3. \A o \in C : all[o] \in Int
    BY <1>0, <1>1
  <2>4. in = [o \in Order |-> IF o \in C THEN all[o] ELSE 0]
    BY DEF Part
  <2> HIDE DEF C, all, in
  <2>5. SumOf([o \in C |-> all[o]]) = SumOf([o \in Order |-> IF o \in C THEN all[o] ELSE 0])
    BY <1>0, <2>3, SumPart
  <2> QED BY <2>1, <2>2, <2>4, <2>5
<1>4. ByMethod(d, "credit") = SumOf(credit)
  BY <1>0, ByMethodNet
<1>5. SumOf(both) = SumOf(credit) - SumOf(in)
  <2>1. \A o \in Order : both[o] = credit[o] - in[o]
    OBVIOUS
  <2> HIDE DEF in, credit, both
  <2> QED BY <1>0, <1>2, <2>1, SumMinus
<1> QED BY <1>3, <1>4, <1>5 DEF CreditAmount

LEMMA SalesByOrder ==
  ASSUME DayInv, NEW d \in Day
  PROVE  TotalSales(d) = SumOf([o \in Order |->
           Part(d, o, orders[o].total) - Pos!Whole(flow[o][d].gave)])
<1> DEFINE C == Counted(d)
           all == [o \in Order |-> orders[o].total]
           in == [o \in Order |-> Part(d, o, orders[o].total)]
           back == [o \in Order |-> Pos!Whole(flow[o][d].gave)]
           both == [o \in Order |-> Part(d, o, orders[o].total) - Pos!Whole(flow[o][d].gave)]
<1>0. C \in SUBSET Order /\ IsFiniteSet(Order)
  BY SettlementConstants DEF Counted
<1>1. \A o \in Order : all[o] \in Int /\ in[o] \in Int /\ back[o] \in Int
  BY FlowTypes, PlusAdds DEF Part
<1>2. in \in [Order -> Int] /\ back \in [Order -> Int] /\ both \in [Order -> Int]
  <2>1. \A o \in Order : both[o] = in[o] - back[o]
    OBVIOUS
  <2>2. /\ in = [o \in Order |-> in[o]] /\ back = [o \in Order |-> back[o]]
        /\ both = [o \in Order |-> both[o]]
    OBVIOUS
  <2> HIDE DEF in, back, both
  <2> QED BY <1>1, <2>1, <2>2
<1>3. SumOf([o \in C |-> orders[o].total]) = SumOf(in)
  <2>2. [o \in C |-> orders[o].total] = [o \in C |-> all[o]]
    BY <1>0
  <2>3. \A o \in C : all[o] \in Int
    BY <1>0, <1>1
  <2>4. in = [o \in Order |-> IF o \in C THEN all[o] ELSE 0]
    BY DEF Part
  <2> HIDE DEF C, all, in
  <2>5. SumOf([o \in C |-> all[o]]) = SumOf([o \in Order |-> IF o \in C THEN all[o] ELSE 0])
    BY <1>0, <2>3, SumPart
  <2> QED BY <2>2, <2>4, <2>5
<1>4. TotalSales(d) = SumOf([o \in C |-> orders[o].total]) - SumOf(back)
  BY DEF TotalSales, RefundFlow, Sum
<1>5. SumOf(both) = SumOf(in) - SumOf(back)
  <2>1. \A o \in Order : both[o] = in[o] - back[o]
    OBVIOUS
  <2> HIDE DEF in, back, both
  <2> QED BY <1>0, <1>2, <2>1, SumMinus
<1> QED BY <1>3, <1>4, <1>5

(* What a counted order adds to its day's difference.                      *)
Gap(d, o) ==
  Part(d, o, orders[o].total - Pos!Whole(flow[o][d].took) + flow[o][d].repaid)

LEMMA DiffByOrder ==
  ASSUME DayInv, NEW d \in Day
  PROVE  DiffAmount(d) = SumOf([o \in Order |-> Gap(d, o)])
<1> DEFINE sales == [o \in Order |-> Part(d, o, orders[o].total) - Pos!Whole(flow[o][d].gave)]
           money == [o \in Order |-> Pos!InMoney(Net(d, o))]
           credit == [o \in Order |-> Net(d, o)["credit"] - Part(d, o, flow[o][d].repaid)]
           unpaid == [o \in Order |-> sales[o] - money[o]]
           gap == [o \in Order |-> Gap(d, o)]
<1>1. \A o \in Order : /\ sales[o] \in Int /\ money[o] \in Int /\ credit[o] \in Int
                       /\ unpaid[o] = sales[o] - money[o]
                       /\ gap[o] = unpaid[o] - credit[o]
  <2> TAKE o \in Order
  <2> DEFINE F == flow[o][d]
  <2>1. /\ F.took \in Sums /\ F.gave \in Sums /\ F.repaid \in Nat /\ orders[o].total \in Nat
    BY FlowTypes
  <2>2. /\ Pos!Whole(F.took) = Pos!InMoney(F.took) + F.took["credit"]
        /\ Pos!Whole(F.gave) = Pos!InMoney(F.gave) + F.gave["credit"]
        /\ Pos!InMoney(F.took) \in Nat /\ F.took["credit"] \in Nat
        /\ Pos!InMoney(F.gave) \in Nat /\ F.gave["credit"] \in Nat
    BY <2>1, PlusAdds
  <2>3. /\ Pos!InMoney(Net(d, o)) = Part(d, o, Pos!InMoney(F.took)) - Pos!InMoney(F.gave)
        /\ Net(d, o)["credit"] = Part(d, o, F.took["credit"]) - F.gave["credit"]
    BY NetTypes
  <2>4. /\ sales[o] = Part(d, o, orders[o].total) - Pos!Whole(F.gave)
        /\ money[o] = Part(d, o, Pos!InMoney(F.took)) - Pos!InMoney(F.gave)
        /\ credit[o] = Part(d, o, F.took["credit"]) - F.gave["credit"] - Part(d, o, F.repaid)
        /\ gap[o] = Part(d, o, orders[o].total - Pos!Whole(F.took) + F.repaid)
        /\ unpaid[o] = sales[o] - money[o]
    BY <2>3 DEF Gap
  <2> HIDE DEF sales, money, credit, gap, unpaid, F
  <2>5. CASE o \in Counted(d)
    BY <2>1, <2>2, <2>4, <2>5 DEF Part
  <2>6. CASE o \notin Counted(d)
    BY <2>1, <2>2, <2>4, <2>6 DEF Part
  <2> QED BY <2>5, <2>6
<1>2. /\ sales \in [Order -> Int] /\ money \in [Order -> Int] /\ credit \in [Order -> Int]
      /\ unpaid \in [Order -> Int] /\ gap \in [Order -> Int]
  <2>1. /\ sales = [o \in Order |-> sales[o]] /\ money = [o \in Order |-> money[o]]
        /\ credit = [o \in Order |-> credit[o]] /\ unpaid = [o \in Order |-> unpaid[o]]
        /\ gap = [o \in Order |-> gap[o]]
    OBVIOUS
  <2> HIDE DEF sales, money, credit, unpaid, gap
  <2> QED BY <1>1, <2>1
<1>3. IsFiniteSet(Order)
  BY SettlementConstants
<1>4. SumOf(unpaid) = SumOf(sales) - SumOf(money)
  <2> HIDE DEF sales, money, credit, unpaid, gap
  <2> QED BY <1>1, <1>2, <1>3, SumMinus
<1>5. SumOf(gap) = SumOf(unpaid) - SumOf(credit)
  <2> HIDE DEF sales, money, credit, unpaid, gap
  <2> QED BY <1>1, <1>2, <1>3, SumMinus
<1> QED BY <1>4, <1>5, SalesByOrder, PaymentsByOrder, CreditByOrder DEF DiffAmount

LEMMA CountedFinal ==
  ASSUME DayInv, NEW d \in Day, NEW o \in Order
  PROVE  o \in Counted(d) <=> born[o] = d /\ Final(orders[o])
<1>1. orders[o].status \in Till!Statuses
  BY DEF DayInv, Till!IInv, Till!Good, Till!OrderRow
<1> QED BY <1>1 DEF Counted, Final, Till!Statuses

LEMMA OvernightGap ==
  ASSUME DayInv, NEW d \in Day, NEW o \in Order, o \in Counted(d)
  PROVE  /\ Gap(d, o) = IF Overnight(o) THEN orders[o].total ELSE 0
         /\ orders[o].total \in Nat
<1> DEFINE F == flow[o]
           total == orders[o].total
<1>1. born[o] = d /\ Final(orders[o]) /\ d # 0
  BY CountedFinal DEF Day
<1>2. /\ F[d].repaid \in Nat /\ Pos!Whole(F[d].took) \in Nat /\ total \in Nat
  BY FlowTypes, PlusAdds
<1>3. /\ total \in Nat \ {0}
      /\ \/ Pos!Whole(F[d].took) = total + F[d].repaid
         \/ Pos!Whole(F[d].took) = F[d].repaid /\ \E e \in Day : Pos!Whole(F[e].took) > 0
  BY <1>1 DEF DayInv, Accounted
<1>4. Overnight(o) <=> /\ Pos!Whole(F[d].took) = F[d].repaid
                       /\ \E e \in Day : Pos!Whole(F[e].took) > 0
  BY <1>1 DEF Overnight
<1>5. Gap(d, o) = total - Pos!Whole(F[d].took) + F[d].repaid
  BY DEF Gap, Part
<1> HIDE DEF F, total
<1>6. Gap(d, o) = IF Overnight(o) THEN total ELSE 0
  BY <1>2, <1>3, <1>4, <1>5
<1> QED BY <1>2, <1>6 DEF total

LEMMA DaysBalanced == DayInv => DaysBalance
<1> SUFFICES ASSUME DayInv, NEW d \in Day
             PROVE  DiffAmount(d) = Sum(LAMBDA o : orders[o].total, {o \in Counted(d) : Overnight(o)})
  BY DEF DaysBalance
<1> DEFINE late == {o \in Counted(d) : Overnight(o)}
           total == [o \in Order |-> orders[o].total]
           gap == [o \in Order |-> Gap(d, o)]
<1>1. late \in SUBSET Order /\ late \subseteq Counted(d) /\ IsFiniteSet(Order)
  BY SettlementConstants DEF Counted
<1>2. \A o \in Order : gap[o] = IF o \in late THEN total[o] ELSE 0
  <2> SUFFICES ASSUME NEW o \in Order
               PROVE  Gap(d, o) = IF o \in late THEN orders[o].total ELSE 0
    OBVIOUS
  <2>1. CASE o \in Counted(d)
    BY <2>1, OvernightGap
  <2>2. CASE o \notin Counted(d)
    BY <2>2 DEF Gap, Part
  <2> QED BY <2>1, <2>2
<1>3. \A o \in late : total[o] \in Int
  BY <1>1, FlowTypes
<1>4. SumOf([o \in late |-> total[o]]) = SumOf([o \in Order |-> IF o \in late THEN total[o] ELSE 0])
  <2> HIDE DEF late, total
  <2> QED BY <1>1, <1>3, SumPart
<1>5. [o \in Order |-> IF o \in late THEN total[o] ELSE 0] = gap
  <2>1. gap = [o \in Order |-> gap[o]]
    OBVIOUS
  <2> HIDE DEF late, total, gap
  <2> QED BY <1>2, <2>1
<1>6. [o \in late |-> total[o]] = [o \in late |-> orders[o].total]
  BY <1>1
<1>7. Sum(LAMBDA o : orders[o].total, late) = SumOf([o \in late |-> orders[o].total])
  BY DEF Sum
<1> HIDE DEF late, total
<1>8. Sum(LAMBDA o : orders[o].total, late) = SumOf(gap)
  BY <1>4, <1>5, <1>6, <1>7
<1> QED BY <1>8, DiffByOrder DEF late

-----------------------------------------------------------------------------
(* The cash flow of a day, order by order                                  *)

(* What an order received less what it paid out on a day.                  *)
Moved(d, o) == Pos!InMoney(flow[o][d].took) - Pos!InMoney(flow[o][d].gave)

(* A day's receipts count for its own orders, its repayments for the       *)
(* others: between them they count every order once.                       *)
LEMMA CountedOnce ==
  ASSUME DayInv, NEW d \in Day, NEW o \in Order, ~Overnight(o)
  PROVE  /\ Moved(d, o) = Pos!InMoney(Net(d, o)) + flow[o][d].repaid - Part(d, o, flow[o][d].repaid)
         /\ Moved(d, o) \in Int /\ Pos!InMoney(Net(d, o)) \in Int
<1> DEFINE F == flow[o]
<1>1. /\ F[d].repaid \in Nat /\ Pos!InMoney(F[d].took) \in Nat /\ Pos!InMoney(F[d].gave) \in Nat
      /\ F[d].took["credit"] \in Nat
      /\ Pos!Whole(F[d].took) = Pos!InMoney(F[d].took) + F[d].took["credit"]
  BY FlowTypes, PlusAdds
<1>2. Pos!InMoney(Net(d, o)) = Part(d, o, Pos!InMoney(F[d].took)) - Pos!InMoney(F[d].gave)
  BY NetTypes
<1>3. Accounted(orders[o], F, born[o]) /\ orders[o].status \in Till!Statuses
  BY DEF DayInv, Till!IInv, Till!Good, Till!OrderRow
<1>4. CASE o \in Counted(d)
  BY <1>1, <1>2, <1>4 DEF Moved, Part
<1>5. CASE o \notin Counted(d)
  <2>1. Pos!InMoney(F[d].took) = F[d].repaid
    <3>1. CASE Waiting(orders[o])
      BY <1>3, <3>1, NothingAdds DEF Accounted, Quiet
    <3>2. CASE Final(orders[o])
      <4>1. born[o] \in Day /\ born[o] # d /\ born[o] # 0
        BY <1>3, <1>5, <3>2, CountedFinal DEF Accounted, Final, Day
      <4>2. ~ /\ Pos!Whole(F[born[o]].took) = F[born[o]].repaid
              /\ \E e \in Day : Pos!Whole(F[e].took) > 0
        BY <4>1 DEF Overnight
      <4>3. Pos!Whole(F[d].took) = F[d].repaid /\ F[d].took["credit"] = 0
        BY <1>3, <3>2, <4>1, <4>2 DEF Accounted
      <4> QED BY <1>1, <4>3
    <3> QED BY <1>3, <3>1, <3>2 DEF Waiting, Final, Till!Statuses
  <2> QED BY <1>1, <1>2, <1>5, <2>1 DEF Moved, Part
<1> QED BY <1>4, <1>5

LEMMA FlowByOrder ==
  ASSUME DayInv, NEW d \in Day, \A o \in Order : ~Overnight(o)
  PROVE  NetCashFlow(d) = looseOn[d] + SumOf([o \in Order |-> Moved(d, o)])
<1> DEFINE C == Counted(d)
           money == [o \in Order |-> Pos!InMoney(Net(d, o))]
           all == [o \in Order |-> flow[o][d].repaid]
           in == [o \in Order |-> Part(d, o, flow[o][d].repaid)]
           both == [o \in Order |-> money[o] + all[o]]
           moved == [o \in Order |-> Moved(d, o)]
<1>0. C \in SUBSET Order /\ IsFiniteSet(Order)
  BY SettlementConstants DEF Counted
<1>1. \A o \in Order : /\ money[o] \in Int /\ all[o] \in Int /\ in[o] \in Int
                       /\ both[o] = money[o] + all[o] /\ moved[o] = both[o] - in[o]
  <2> TAKE o \in Order
  <2>1. flow[o][d].repaid \in Nat
    BY FlowTypes
  <2>2. Part(d, o, flow[o][d].repaid) \in Nat
    BY <2>1 DEF Part
  <2> QED BY <2>1, <2>2, CountedOnce
<1>2. /\ money \in [Order -> Int] /\ all \in [Order -> Int] /\ in \in [Order -> Int]
      /\ both \in [Order -> Int] /\ moved \in [Order -> Int]
  <2>1. /\ money = [o \in Order |-> money[o]] /\ all = [o \in Order |-> all[o]]
        /\ in = [o \in Order |-> in[o]] /\ both = [o \in Order |-> both[o]]
        /\ moved = [o \in Order |-> moved[o]]
    OBVIOUS
  <2> HIDE DEF money, all, in, both, moved
  <2> QED BY <1>1, <2>1
<1>3. SameDayRepay(d) = SumOf(in)
  <2>1. SameDayRepay(d) = SumOf([o \in C |-> flow[o][d].repaid])
    BY DEF SameDayRepay, Sum
  <2>2. [o \in C |-> flow[o][d].repaid] = [o \in C |-> all[o]]
    BY <1>0
  <2>3. \A o \in C : all[o] \in Int
    BY <1>0, <1>1
  <2>4. in = [o \in Order |-> IF o \in C THEN all[o] ELSE 0]
    BY DEF Part
  <2> HIDE DEF C, all, in, money, both, moved
  <2>5. SumOf([o \in C |-> all[o]]) = SumOf([o \in Order |-> IF o \in C THEN all[o] ELSE 0])
    BY <1>0, <2>3, SumPart
  <2> QED BY <2>1, <2>2, <2>4, <2>5
<1>4. CustomerRepay(d) = SumOf(all) + looseOn[d] - SumOf(in)
  BY <1>3 DEF CustomerRepay, Sum
<1>5. TotalPayments(d) = SumOf(money)
  BY PaymentsByOrder
<1>6. looseOn[d] \in Int
  BY DEF DayInv
<1> HIDE DEF money, all, in, both, moved
<1>7. SumOf(both) = SumOf(money) + SumOf(all)
  <2>1. \A o \in Order : both[o] = money[o] + all[o]
    BY <1>1
  <2> QED BY <1>0, <1>2, <2>1, SumPlus
<1>8. SumOf(moved) = SumOf(both) - SumOf(in)
  <2>1. \A o \in Order : moved[o] = both[o] - in[o]
    BY <1>1
  <2> QED BY <1>0, <1>2, <2>1, SumMinus
<1>9. SumOf(money) \in Int /\ SumOf(all) \in Int /\ SumOf(in) \in Int
  BY <1>0, <1>2, SumInt
<1>10. NetCashFlow(d) = looseOn[d] + SumOf(moved)
  BY <1>4, <1>5, <1>6, <1>7, <1>8, <1>9 DEF NetCashFlow
<1> QED BY <1>10 DEF moved

LEMMA CentsCounted == DayInv => EachCentOnOneDay
<1> SUFFICES ASSUME DayInv, \A o \in Order : ~Overnight(o)
             PROVE  Sum(NetCashFlow, Day) = loose +
                      Sum(LAMBDA o : Pos!InMoney(orders[o].took) - Pos!InMoney(orders[o].gave), Order)
  BY DEF EachCentOnOneDay
<1> DEFINE net == [d \in Day |-> NetCashFlow(d)]
           table == [o \in Order |-> [d \in Day |-> Moved(d, o)]]
           daily == [d \in Day |-> SumOf([o \in Order |-> table[o][d]])]
           whole == [o \in Order |-> Pos!InMoney(orders[o].took) - Pos!InMoney(orders[o].gave)]
<1>1. IsFiniteSet(Order) /\ IsFiniteSet(Day)
  BY SettlementConstants, DayFinite
<1>2. table \in [Order -> [Day -> Int]]
  <2>1. \A o \in Order, d \in Day : Moved(d, o) \in Int
    BY CountedOnce
  <2> QED BY <2>1
<1>3. \A d \in Day : net[d] = looseOn[d] + daily[d] /\ daily[d] \in Int
  <2> TAKE d \in Day
  <2> DEFINE col == [o \in Order |-> Moved(d, o)]
  <2>1. [o \in Order |-> table[o][d]] = col
    OBVIOUS
  <2>2. NetCashFlow(d) = looseOn[d] + SumOf(col)
    BY FlowByOrder
  <2>3. SumOf(col) \in Int
    <3>1. col \in [Order -> Int]
      BY CountedOnce
    <3> HIDE DEF col
    <3> QED BY <1>1, <3>1, SumInt
  <2>4. daily[d] = SumOf(col)
    BY <2>1
  <2> HIDE DEF col, daily
  <2> QED BY <2>2, <2>3, <2>4
<1>4. /\ net \in [Day -> Int] /\ daily \in [Day -> Int] /\ looseOn \in [Day -> Int]
      /\ loose = SumOf(looseOn)
  <2>1. looseOn \in [Day -> Int] /\ loose = SumOf(looseOn)
    BY DEF DayInv
  <2>2. net = [d \in Day |-> net[d]] /\ daily = [d \in Day |-> daily[d]]
    OBVIOUS
  <2> HIDE DEF net, daily
  <2> QED BY <1>3, <2>1, <2>2
<1>5. SumOf(net) = loose + SumOf(daily)
  <2> HIDE DEF net, daily
  <2> QED BY <1>1, <1>3, <1>4, SumPlus
<1>6. SumOf([o \in Order |-> SumOf(table[o])]) = SumOf(daily)
  <2> HIDE DEF table
  <2> QED BY <1>1, <1>2, SumSwap
<1>7. \A o \in Order : SumOf(table[o]) = whole[o]
  <2> SUFFICES ASSUME NEW o \in Order
               PROVE  SumOf([d \in Day |-> Moved(d, o)])
                        = Pos!InMoney(orders[o].took) - Pos!InMoney(orders[o].gave)
    OBVIOUS
  <2> DEFINE f == [d \in Day |-> Pos!InMoney(flow[o][d].took)]
             g == [d \in Day |-> Pos!InMoney(flow[o][d].gave)]
             h == [d \in Day |-> Moved(d, o)]
  <2>1. \A d \in Day : f[d] \in Int /\ g[d] \in Int /\ h[d] = f[d] - g[d] /\ h[d] \in Int
    <3> TAKE d \in Day
    <3>1. Pos!InMoney(flow[o][d].took) \in Nat /\ Pos!InMoney(flow[o][d].gave) \in Nat
      BY FlowTypes, PlusAdds
    <3> QED BY <3>1 DEF Moved
  <2>2. f \in [Day -> Int] /\ g \in [Day -> Int] /\ h \in [Day -> Int]
    <3>1. /\ f = [d \in Day |-> f[d]] /\ g = [d \in Day |-> g[d]] /\ h = [d \in Day |-> h[d]]
      OBVIOUS
    <3> HIDE DEF f, g, h
    <3> QED BY <2>1, <3>1
  <2>3. SumOf(h) = SumOf(f) - SumOf(g)
    <3> HIDE DEF f, g, h
    <3> QED BY <1>1, <2>1, <2>2, SumMinus
  <2> QED BY <2>3 DEF DayInv, Accounted
<1>8. [o \in Order |-> SumOf(table[o])] = whole
  <2>1. whole = [o \in Order |-> whole[o]]
    OBVIOUS
  <2> HIDE DEF whole, table
  <2> QED BY <1>7, <2>1
<1>9. Sum(NetCashFlow, Day) = SumOf(net)
  BY DEF Sum
<1>10. Sum(LAMBDA o : Pos!InMoney(orders[o].took) - Pos!InMoney(orders[o].gave), Order) = SumOf(whole)
  BY DEF Sum
<1> HIDE DEF net, table, daily, whole
<1> QED BY <1>5, <1>6, <1>8, <1>9, <1>10

(* Where no payment misses the price by a rounding gap, for any number of  *)
(* days, orders and terminals: a day's net sales are what it received and  *)
(* what it left on credit, with what was parked on it and sold later as    *)
(* its difference, and the days together count each cent once.             *)
THEOREM DaysAddUpHolds == ASSUME Mismatch = 0 PROVE Spec => []DaysAddUp
<1>1. Init => DayInv
  BY InitDays
<1>2. DayInv /\ [Next]_vars => DayInv'
  BY StepDays
<1>3. DayInv => DaysAddUp
  BY DaysBalanced, CentsCounted DEF DaysAddUp
<1> QED BY <1>1, <1>2, <1>3, PTL DEF Spec

=============================================================================
