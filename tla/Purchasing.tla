----------------------------- MODULE Purchasing -----------------------------
(***************************************************************************)
(* Purchase lists from the first item to the last payment                  *)
(* (routers/purchase.py, services/accounts_service.py, models/purchase.py, *)
(* models/accounts.py), for one supplier.  The goods cost one unit of      *)
(* money each, so that costs and quantities are the same numbers.  The     *)
(* forms a stallholder fills in (acceptance, change of an item) read their *)
(* list without a lock and write it later; what they overwrite then is     *)
(* part of the model.  The batches are in StockLedger.                     *)
(***************************************************************************)
EXTENDS Allocation, Sequences, FiniteSets

CONSTANTS
  NumItems,   \* bound: purchase_items
  NumLists,   \* bound: purchase_lists
  MaxQty,     \* bound: quantity of an item
  Key,        \* idempotency keys of payments
  MaxForms,   \* bound: forms sent
  MaxReturns  \* bound: returns to the supplier

ASSUME PurchasingConstants ==
  /\ NumItems \in Nat /\ NumLists \in Nat /\ MaxQty \in Nat
  /\ MaxForms \in Nat /\ MaxReturns \in Nat
  /\ IsFiniteSet(Key)

VARIABLES
  lists,     \* purchase_lists
  items,     \* purchase_items, in the order they are added
  payables,  \* supplier_payables of direction "purchase"
  credit,    \* payments without a payable: returns of goods already paid for
  paid,      \* the amount of each payment, by key (0: not used)
  returns,   \* the returns made: item, what had been returned before, quantity
  form,      \* a form between its reads and its commit
  paying,    \* a payment is committed and its lists not yet looked at
  forms

books == <<lists, items, payables, credit, paid, returns>>
vars  == <<books, form, paying, forms>>

Quantity == 1 .. MaxQty
NoForm   == [kind |-> "none", of |-> 0, status |-> "none"]
Unlisted == [status |-> "none", payment |-> "unpaid", paid |-> 0, total |-> 0]

Init ==
  /\ lists = [l \in 1 .. NumLists |-> Unlisted]
  /\ items = <<>>
  /\ payables = <<>>
  /\ credit = 0
  /\ paid = [k \in Key |-> 0]
  /\ returns = {}
  /\ form = NoForm
  /\ paying = FALSE
  /\ forms = 0

-----------------------------------------------------------------------------
ItemsOf(l)   == {i \in DOMAIN items : items[i].list = l}
ActiveOf(l)  == {i \in ItemsOf(l) : items[i].status # "cancelled"}

(* accepted_qty or actual_qty: an accepted quantity of zero counts as none. *)
Delivered(i) == IF items[i].accepted > 0 THEN items[i].accepted ELSE items[i].qty

Open(p)      == payables[p].amount - payables[p].settled
OpenOf(l)    == {p \in DOMAIN payables : payables[p].list = l /\ Open(p) > 0}
Owed(S)      == Sum(Open, S)
Bought       == Sum(LAMBDA p : payables[p].amount, DOMAIN payables)
PaidOut      == SumOf(paid)
OffsetAmount == Sum(LAMBDA r : IF r.offset THEN r.qty ELSE 0, returns)

(* get_supplier_balance: purchases less payments, a return that was offset *)
(* being a payment.                                                        *)
Balance == Bought - PaidOut - OffsetAmount

-----------------------------------------------------------------------------
(* Lists and items.                                                        *)

(* Items join the list that is still open, or start a new one.             *)
TakesItems(l) ==
  \/ lists[l].status \in {"draft", "confirmed"}
  \/ /\ lists[l].status = "none"
     /\ \A m \in 1 .. NumLists :
          /\ lists[m].status \notin {"draft", "confirmed"}
          /\ m < l => lists[m].status # "none"

(* The price of an item is known or not yet.                               *)
AddItem(l, q, priced) ==
  /\ Len(items) < NumItems
  /\ TakesItems(l)
  /\ items' = Append(items, [list |-> l, status |-> "pending", qty |-> q,
                             cost |-> IF priced THEN q ELSE 0, accepted |-> -1,
                             returned |-> 0, stored |-> 0, gone |-> 0])
  /\ lists' = IF lists[l].status = "none"
              THEN [lists EXCEPT ![l].status = "draft"] ELSE lists
  /\ UNCHANGED <<payables, credit, paid, returns, form, paying, forms>>

(* A product that is on the list already has its quantity raised.          *)
MergeItem(i, q) ==
  /\ lists[items[i].list].status \in {"draft", "confirmed"}
  /\ items[i].status \notin {"purchased", "cancelled"}
  /\ items[i].qty + q <= MaxQty
  /\ items' = [items EXCEPT ![i].qty = @ + q,
                            ![i].cost = IF @ > 0 THEN items[i].qty + q ELSE 0]
  /\ UNCHANGED <<lists, payables, credit, paid, returns, form, paying, forms>>

ConfirmOrder(l) ==
  /\ lists[l].status = "draft"
  /\ lists' = [lists EXCEPT ![l].status = "confirmed"]
  /\ UNCHANGED <<items, payables, credit, paid, returns, form, paying, forms>>

Opens(f) ==
  /\ form = NoForm
  /\ forms < MaxForms /\ forms' = forms + 1
  /\ form' = f
  /\ UNCHANGED <<books, paying>>

OpenAcceptance(l) ==
  /\ lists[l].status \in {"confirmed", "draft", "partial_arrival", "accepted"}
  /\ ItemsOf(l) # {}
  /\ Opens([kind |-> "acceptance", of |-> l, status |-> lists[l].status])

OpenItem(i) ==
  /\ items[i].status # "purchased"
  /\ Opens([kind |-> "item", of |-> i, status |-> items[i].status])

Closes(kind) == form.kind = kind /\ form' = NoForm /\ UNCHANGED <<paying, forms>>

(* Every line of the form is written, whatever has become of it since; the *)
(* mini program always sends the price.                                    *)
RecordAcceptance(got) ==
  LET l == form.of IN
  /\ Closes("acceptance")
  /\ items' = [i \in DOMAIN items |->
                 IF i \in ActiveOf(l)
                 THEN [items[i] EXCEPT !.accepted = got[i], !.cost = got[i], !.returned = 0]
                 ELSE items[i]]
  /\ lists' = IF form.status \in {"confirmed", "draft"}
              THEN [lists EXCEPT ![l].status = "accepted"] ELSE lists
  /\ UNCHANGED <<payables, credit, paid, returns>>

UpdateItem(q) ==
  /\ Closes("item")
  /\ items' = [items EXCEPT ![form.of].qty = q, ![form.of].cost = q]
  /\ UNCHANGED <<lists, payables, credit, paid, returns>>

CancelItem ==
  /\ Closes("item")
  /\ items' = [items EXCEPT ![form.of].status = "cancelled"]
  /\ UNCHANGED <<lists, payables, credit, paid, returns>>

-----------------------------------------------------------------------------
(* Into stock.  The list is locked, and an item that has its record is     *)
(* passed over.                                                            *)

Unrecorded(S) == {i \in S : items[i].stored = 0}

(* record_supplier_payable_from_purchase: nothing for a list that is paid, *)
(* the share not yet paid of one that is partly paid.                      *)
PayableAmount(i, l) ==
  LET list == lists[l] IN
  CASE list.payment = "paid" -> 0
    [] list.payment = "partial" /\ list.total > 0 /\ list.paid > 0
         -> items[i].cost - (items[i].cost * list.paid) \div list.total
    [] OTHER -> items[i].cost

(* The rows of payables for the items of S, in order.                      *)
PayablesFor(S, l) ==
  LET due == {i \in S : PayableAmount(i, l) > 0} IN
  [n \in 1 .. Cardinality(due) |->
     [list |-> l, item |-> Nth(due, n), amount |-> PayableAmount(Nth(due, n), l),
      settled |-> 0]]

Store(l, S, amount(_), cost(_)) ==
  /\ items' = [i \in DOMAIN items |->
                 IF i \in S THEN [items[i] EXCEPT !.stored = amount(i), !.status = "purchased"]
                 ELSE items[i]]
  /\ payables' = payables \o PayablesFor(S, l)
  /\ lists' = [lists EXCEPT ![l].status = "stored", ![l].total = Sum(cost, S)]
  /\ UNCHANGED <<credit, paid, returns, form, paying, forms>>

ToStore(i) == IF items[i].accepted >= 0 THEN items[i].accepted ELSE items[i].qty

ConfirmAcceptance(l) ==
  /\ lists[l].status = "accepted"
  /\ ActiveOf(l) # {}
  /\ Store(l, {i \in Unrecorded(ActiveOf(l)) : ToStore(i) > 0}, ToStore, ToStore)

(* The older way: what was ordered goes into stock as it stands.           *)
Cost(i) == IF items[i].cost > 0 THEN items[i].cost ELSE items[i].qty

ConfirmPurchase(l) ==
  /\ lists[l].status \notin {"none", "stored", "completed"}
  /\ ItemsOf(l) # {}
  /\ Store(l, {i \in Unrecorded(ItemsOf(l)) : items[i].status = "pending"},
           LAMBDA i : items[i].qty, Cost)

-----------------------------------------------------------------------------
(* Payments.                                                               *)

MayPay(S, amount) == amount <= Owed(S) /\ amount <= Balance

(* Mutant: the first payable takes all of the amount.                      *)
Applied_first(S, amount, p) ==
  IF p \in S /\ \A q \in S : p <= q THEN amount ELSE 0

(* The amount goes to the payables of S in order, each up to what is open. *)
Applied(S, amount, p) ==
  LET before == Owed({q \in S : q < p})
      left   == Larger(amount - before, 0)
  IN IF p \in S THEN Smaller(left, Open(p)) ELSE 0

(* The lists concerned say how much of them is paid.                       *)
Settle(S, amount) ==
  LET touched == {payables[p].list : p \in {q \in S : Applied(S, amount, q) > 0}}
      left(l) == Owed({p \in DOMAIN payables : payables[p].list = l})
                 - Sum(LAMBDA p : Applied(S, amount, p), {p \in S : payables[p].list = l})
      total(l) == IF lists[l].total > 0 THEN lists[l].total
                  ELSE Sum(LAMBDA p : payables[p].amount,
                           {p \in DOMAIN payables : payables[p].list = l})
      done(l) == Larger(total(l) - left(l), 0)
  IN
  /\ payables' = [p \in DOMAIN payables |->
                    [payables[p] EXCEPT !.settled = @ + Applied(S, amount, p)]]
  /\ lists' = [l \in 1 .. NumLists |->
                 IF l \notin touched THEN lists[l]
                 ELSE [lists[l] EXCEPT
                         !.paid = done(l),
                         !.payment = IF left(l) <= 0 /\ total(l) > 0 THEN "paid"
                                     ELSE IF done(l) > 0 THEN "partial" ELSE "unpaid"]]

IsRetry(k, amount) == paid[k] = amount

PaySupplier(k, S, amount) ==
  /\ ~paying
  /\ S # {} /\ amount > 0
  /\ IF IsRetry(k, amount)
     THEN UNCHANGED <<payables, lists, paid>>
     ELSE /\ paid[k] = 0
          /\ MayPay(S, amount)
          /\ Settle(S, amount)
          /\ paid' = [paid EXCEPT ![k] = @ + amount]
  /\ paying' = TRUE
  /\ UNCHANGED <<items, credit, returns, form, forms>>

MayComplete(l) == lists[l].status = "stored" /\ lists[l].payment = "paid"

(* After the commit, in a transaction of its own: a supplier who is owed   *)
(* nothing completes the lists that are paid.                              *)
CompleteLists ==
  /\ paying /\ paying' = FALSE
  /\ lists' = [l \in 1 .. NumLists |->
                 IF Balance <= 0 /\ ItemsOf(l) # {} /\ MayComplete(l)
                 THEN [lists[l] EXCEPT !.status = "completed"] ELSE lists[l]]
  /\ UNCHANGED <<items, payables, credit, paid, returns, form, forms>>

(* Goods go back.  An offset goes to the open payables of the list, or is  *)
(* credited when there is none; it fails when it is more than is open.     *)
ReturnItem(i, q, offset) ==
  LET l == items[i].list
      open == OpenOf(l) IN
  /\ items[i].status = "purchased"
  /\ q <= Delivered(i) - items[i].returned
  /\ Cardinality(returns) < MaxReturns
  /\ ~ \E r \in returns : /\ r.item = i /\ r.before = items[i].returned
                          /\ r.qty = q \/ (r.offset /\ offset)
  /\ IF offset /\ open # {}
     THEN MayPay(open, q) /\ Settle(open, q)
     ELSE UNCHANGED <<payables, lists>>
  /\ credit' = IF offset /\ open = {} THEN credit + q ELSE credit
  /\ returns' = returns \cup
       {[item |-> i, before |-> items[i].returned, qty |-> q, offset |-> offset]}
  /\ items' = [items EXCEPT ![i].returned = @ + q, ![i].gone = @ + q,
                            ![i].status = IF items[i].returned + q >= Delivered(i)
                                          THEN "returned" ELSE @]
  /\ UNCHANGED <<paid, form, paying, forms>>

Next ==
  \/ \E l \in 1 .. NumLists :
       \/ \E q \in Quantity, priced \in BOOLEAN : AddItem(l, q, priced)
       \/ ConfirmOrder(l) \/ OpenAcceptance(l)
       \/ ConfirmAcceptance(l) \/ ConfirmPurchase(l)
  \/ \E got \in [DOMAIN items -> 0 .. MaxQty] : RecordAcceptance(got)
  \/ \E i \in DOMAIN items : OpenItem(i)
  \/ \E q \in Quantity : UpdateItem(q)
  \/ CancelItem
  \/ \E k \in Key, S \in SUBSET (DOMAIN payables), a \in 1 .. NumItems * MaxQty :
       PaySupplier(k, S, a)
  \/ CompleteLists
  \/ \E i \in DOMAIN items, q \in Quantity : MergeItem(i, q)
  \/ \E i \in DOMAIN items, q \in Quantity, offset \in BOOLEAN : ReturnItem(i, q, offset)

Spec == Init /\ [][Next]_vars

-----------------------------------------------------------------------------
(* The two ways the code has to say what a supplier is owed agree: the sum *)
(* over the movements, and what is open on the payables less what was      *)
(* credited; no payable is settled beyond its amount, and money (unlike    *)
(* credits) never leaves the supplier owing the stall.                     *)
AccountsAgree ==
  /\ Balance = Owed(DOMAIN payables) - credit
  /\ \A p \in DOMAIN payables : payables[p].settled \in 0 .. payables[p].amount
  /\ credit = 0 => Balance >= 0

(* A list may be confirmed in two ways, again after a late form has set it *)
(* back, and a request may be sent twice: an item still owes at most once, *)
(* and only when it is in the house.                                       *)
OwedOnce ==
  /\ \A p, q \in DOMAIN payables : payables[p].item = payables[q].item => p = q
  /\ \A p \in DOMAIN payables : items[payables[p].item].stored > 0

(* A completed list owes nothing.                                          *)
CompletedIsPaid ==
  \A l \in 1 .. NumLists : lists[l].status = "completed" => OpenOf(l) = {}

(* No more is returned of an item than was put into stock.                 *)
NoMoreReturned == \A i \in DOMAIN items : items[i].gone <= items[i].stored

(* "draft -> confirmed -> partial_arrival -> accepted -> stored ->         *)
(* completed" (models/purchase.py, line 23): a list in stock does not go   *)
(* back.                                                                   *)
StoredStays ==
  [][\A l \in 1 .. NumLists : lists[l].status \in {"stored", "completed"}
       => lists'[l].status \in {"stored", "completed"}]_vars
=============================================================================
