------------------------- MODULE StockLedgerProofs -------------------------
(* Type correctness, batch bounds and the food safety properties of        *)
(* StockLedger, for every value of its constants.                          *)
EXTENDS StockLedger, AllocationProofs

Sound(rows) ==
  /\ rows \in [Batch -> BatchRow]
  /\ \A b \in Batch : rows[b].remaining <= rows[b].purchased

(* The inductive invariant: the types, and no batch above its purchase.    *)
IInv == TypeOK /\ Sound(batches)

-----------------------------------------------------------------------------
(* What the allocations may do to a batch *)

LEMMA TakeOutSound ==
  ASSUME Sound(batches), NEW part \in [Batch -> Nat],
         \A b \in Batch : part[b] <= Remaining(b)
  PROVE  Sound(TakeOut(part))
BY DEF Sound, TakeOut, Remaining, BatchRow

LEMMA PutBackSound ==
  ASSUME Sound(batches), NEW part \in [Batch -> Nat],
         \A b \in Batch : part[b] <= Consumed(b)
  PROVE  Sound(PutBack(part))
BY DEF Sound, PutBack, Consumed, BatchRow

LEMMA NewBatchSound ==
  ASSUME NEW rows, Sound(rows), NEW b \in Batch, NEW sku \in Sku \cup {NoSku},
         NEW label \in Label \cup {NoLabel}, NEW q \in Nat
  PROVE  Sound([rows EXCEPT ![b] = NewBatch(sku, label, q)])
<1>1. NewBatch(sku, label, q) \in BatchRow
  BY DEF NewBatch, BatchRow, Status
<1> QED
  BY <1>1 DEF Sound, NewBatch

LEMMA PartsAreNat ==
  ASSUME NEW q \in Int, NEW part \in Parts(q)
  PROVE  part \in [Batch -> Nat] /\ DOMAIN part = Batch
BY DEF Parts

(* A consumption takes from sellable batches only, and no more than they   *)
(* hold.                                                                   *)
LEMMA ConsumptionWithinStock ==
  ASSUME Sound(batches), NEW q \in Int, NEW part \in Parts(q), NEW sku,
         IsConsumption(part, sku, q)
  PROVE  \A b \in Batch : /\ part[b] <= Remaining(b)
                          /\ b \notin Consumable => part[b] = 0
<1> DEFINE own  == OfSku(sku) \cap Consumable
           pool == own \cup (Unowned \cap Consumable)
<1>1. \A b \in Batch : part[b] <= (IF b \in pool THEN Remaining(b) ELSE 0)
  BY PartsAreNat DEF IsConsumption, IsSplit
<1>2. \A b \in Batch : part[b] \in Nat /\ Remaining(b) \in Nat
  BY PartsAreNat DEF Sound, Remaining, BatchRow
<1>3. pool \subseteq Consumable
  OBVIOUS
<1> QED
  BY <1>1, <1>2, <1>3

(* A restoration puts back no more than was consumed, and nothing into a   *)
(* recalled or destroyed batch.                                            *)
LEMMA RestorationWithinConsumed ==
  ASSUME Sound(batches), NEW q \in Int, NEW part \in Parts(q), NEW sku,
         IsRestoration(part, sku, q)
  PROVE  \A b \in Batch : /\ part[b] <= Consumed(b)
                          /\ b \in Pulled => part[b] = 0
<1>1. \A b \in Batch : part[b] <= (IF b \in OfSku(sku) \ Pulled THEN Consumed(b) ELSE 0)
  BY PartsAreNat DEF IsRestoration, IsSplit
<1>2. \A b \in Batch : part[b] \in Nat /\ Consumed(b) \in Nat
  BY PartsAreNat DEF Sound, Consumed, BatchRow
<1> QED
  BY <1>1, <1>2

-----------------------------------------------------------------------------
(* Rows of the ledger *)

LEMMA AppendRow ==
  ASSUME NEW s \in Seq(LedgerRow), NEW row \in LedgerRow
  PROVE  Append(s, row) \in Seq(LedgerRow)
OBVIOUS

LEMMA ReplaceRow ==
  ASSUME NEW s \in Seq(LedgerRow), NEW r \in 1 .. Len(s), NEW row \in LedgerRow
  PROVE  [s EXCEPT ![r] = row] \in Seq(LedgerRow)
OBVIOUS

LEMMA ReadRow ==
  ASSUME IInv, NEW r \in 1 .. Len(ledger)
  PROVE  /\ ledger[r] \in LedgerRow
         /\ ledger[r].sku \in Sku \cup {NoSku}
         /\ ledger[r].qty \in Int /\ ledger[r].back \in Nat
<1>1. ledger \in Seq(LedgerRow)
  BY DEF IInv, TypeOK
<1>2. ledger[r] \in LedgerRow
  BY <1>1
<1> QED
  BY <1>2 DEF LedgerRow

LEMMA QtyIsNat == Qty \subseteq Nat
BY StockConstants DEF Qty

LEMMA RowTyped ==
  ASSUME NEW kind \in Kinds, NEW q \in Int, NEW sku \in Sku \cup {NoSku}
  PROVE  Row(kind, q, sku) \in LedgerRow
BY DEF Row, LedgerRow

-----------------------------------------------------------------------------
LEMMA InitIInv == Init => IInv
<1> SUFFICES ASSUME Init PROVE IInv
  OBVIOUS
<1>1. Absent \in BatchRow /\ Absent.remaining <= Absent.purchased
  BY DEF Absent, BatchRow, Status
<1>2. Sound(batches)
  BY <1>1 DEF Init, Sound
<1>3. ledger \in Seq(LedgerRow)
  BY DEF Init
<1>4. inspections \in [Inspectors -> Inspection \cup {Idle}]
  BY DEF Init
<1> QED
  BY <1>2, <1>3, <1>4 DEF IInv, TypeOK, Sound

LEMMA PurchaseIInv ==
  ASSUME IInv, NEW b \in Batch, NEW sku \in Sku \cup {NoSku}, NEW label \in Label,
         NEW q \in Qty, NEW kind \in {"purchase", "offline_purchase"},
         Purchase(b, sku, label, q, kind)
  PROVE  IInv'
<1> DEFINE tag == IF kind = "purchase" THEN label ELSE NoLabel
<1>1. q \in Nat /\ tag \in Label \cup {NoLabel} /\ kind \in Kinds
  BY StockConstants DEF Qty, Kinds
<1>2. Sound(batches')
  BY <1>1, NewBatchSound DEF IInv, Purchase
<1>3. [Row(kind, q, sku) EXCEPT !.label = tag] \in LedgerRow
  BY <1>1, RowTyped DEF LedgerRow
<1>4. ledger' \in Seq(LedgerRow)
  BY <1>3, AppendRow DEF IInv, TypeOK, Purchase, Book
<1> QED
  BY <1>2, <1>4 DEF IInv, TypeOK, Sound, Purchase

LEMMA StockOutIInv ==
  ASSUME IInv, NEW sku \in Sku \cup {NoSku}, NEW q \in Qty,
         NEW kind \in {"sale", "pos_sale"}, StockOut(sku, q, kind)
  PROVE  IInv'
<1>1. q \in Nat /\ -q \in Int /\ kind \in Kinds
  BY StockConstants DEF Qty, Kinds
<1>2. PICK part \in Parts(q) : IsConsumption(part, sku, q) /\ batches' = TakeOut(part)
  BY DEF StockOut
<1>3. Sound(batches')
  BY <1>1, <1>2, PartsAreNat, ConsumptionWithinStock, TakeOutSound DEF IInv
<1>4. ledger' \in Seq(LedgerRow)
  BY <1>1, RowTyped, AppendRow DEF IInv, TypeOK, StockOut, Book
<1> QED
  BY <1>3, <1>4 DEF IInv, TypeOK, Sound, StockOut

LEMMA RefundIInv ==
  ASSUME IInv, NEW r \in 1 .. Len(ledger), NEW q \in Qty, NEW returned \in BOOLEAN,
         Refund(r, q, returned)
  PROVE  IInv'
<1> DEFINE row == ledger[r]
<1>1. q \in Nat /\ row \in LedgerRow /\ row.sku \in Sku \cup {NoSku} /\ row.back + q \in Nat
  BY ReadRow, QtyIsNat
<1>2. Sound(batches')
  <2>1. CASE ~returned
    BY <2>1 DEF Refund, IInv
  <2>2. CASE returned
    <3>1. PICK part \in Parts(q), surplus \in 0 .. q :
            /\ IsRestoration(part, row.sku, q)
            /\ IF surplus = 0 THEN batches' = PutBack(part)
               ELSE \E b \in Batch :
                      batches' = [PutBack(part) EXCEPT
                                    ![b] = NewBatch(row.sku, NoLabel, surplus)]
      BY <2>2 DEF Refund
    <3>2. Sound(PutBack(part))
      BY <1>1, <3>1, PartsAreNat, RestorationWithinConsumed, PutBackSound DEF IInv
    <3>3. surplus \in Nat /\ row.sku \in Sku \cup {NoSku} /\ NoLabel \in Label \cup {NoLabel}
      BY <1>1
    <3>4. \A b \in Batch :
            Sound([PutBack(part) EXCEPT ![b] = NewBatch(row.sku, NoLabel, surplus)])
      BY <3>2, <3>3, NewBatchSound
    <3>5. CASE surplus = 0
      BY <3>1, <3>2, <3>5
    <3>6. CASE surplus # 0
      <4>1. PICK b \in Batch : batches' = [PutBack(part) EXCEPT
                                    ![b] = NewBatch(row.sku, NoLabel, surplus)]
        BY <3>1, <3>6
      <4> QED
        BY <3>4, <4>1
    <3> QED
      BY <3>5, <3>6
  <2> QED
    BY <2>1, <2>2
<1>3. ledger' \in Seq(LedgerRow)
  <2> DEFINE marked == [ledger EXCEPT ![r].back = @ + q]
  <2>1. [row EXCEPT !.back = @ + q] \in LedgerRow
    BY <1>1, SMTT(30) DEF LedgerRow
  <2>2. marked \in Seq(LedgerRow)
    BY <2>1, ReplaceRow DEF IInv, TypeOK
  <2>3. Row("refund", IF returned THEN q ELSE 0, row.sku) \in LedgerRow
    BY <1>1, RowTyped DEF Kinds
  <2> QED
    BY <2>2, <2>3, AppendRow DEF Refund
<1> QED
  BY <1>2, <1>3 DEF IInv, TypeOK, Sound, Refund

LEMMA ReturnToSupplierIInv ==
  ASSUME IInv, NEW r \in 1 .. Len(ledger), NEW q \in Qty, ReturnToSupplier(r, q)
  PROVE  IInv'
<1> DEFINE row  == ledger[r]
           pool == IF Labelled(row.label) # {} THEN Labelled(row.label)
                   ELSE OfSku(row.sku) \cap Consumable
<1>1. q \in Nat /\ row \in LedgerRow /\ row.sku \in Sku \cup {NoSku} /\ row.back + q \in Nat
  BY ReadRow, QtyIsNat
<1>2. Sound(batches')
  <2>1. PICK fresh, sold \in Parts(q) :
          /\ IsSplit(fresh, q, pool, Remaining, FefoBefore)
          /\ IsSplit(sold, q - SumOf(fresh), pool, Consumed, FefoBefore)
          /\ batches' = [b \in Batch |->
               [batches[b] EXCEPT !.remaining = @ - fresh[b],
                                  !.purchased = @ - fresh[b] - sold[b]]]
    BY DEF ReturnToSupplier
  <2>2. \A b \in Batch : /\ fresh[b] <= (IF b \in pool THEN Remaining(b) ELSE 0)
                         /\ sold[b] <= (IF b \in pool THEN Consumed(b) ELSE 0)
    <3>1. DOMAIN fresh = Batch /\ DOMAIN sold = Batch
      BY DEF Parts
    <3> QED
      BY <2>1, <3>1 DEF IsSplit
  <2>3. \A b \in Batch : /\ fresh[b] \in Nat /\ sold[b] \in Nat
                         /\ Remaining(b) \in Nat /\ Consumed(b) \in Nat
    BY <1>1, PartsAreNat DEF IInv, Sound, BatchRow, Remaining, Consumed
  <2>4. \A b \in Batch : fresh[b] <= Remaining(b) /\ sold[b] <= Consumed(b)
    BY <2>2, <2>3
  <2> DEFINE new(b) == [batches[b] EXCEPT !.remaining = @ - fresh[b],
                                          !.purchased = @ - fresh[b] - sold[b]]
  <2>5. \A b \in Batch : new(b) \in BatchRow /\ new(b).remaining <= new(b).purchased
    <3> SUFFICES ASSUME NEW b \in Batch
                 PROVE  new(b) \in BatchRow /\ new(b).remaining <= new(b).purchased
      OBVIOUS
    <3>1. batches[b] \in BatchRow
      BY DEF IInv, Sound
    <3>2. /\ fresh[b] \in Nat /\ sold[b] \in Nat
          /\ batches[b].remaining \in Nat /\ batches[b].purchased \in Nat
          /\ fresh[b] <= batches[b].remaining
          /\ sold[b] <= batches[b].purchased - batches[b].remaining
      BY <2>3, <2>4, <3>1 DEF BatchRow, Remaining, Consumed
    <3>3. /\ new(b).remaining = batches[b].remaining - fresh[b]
          /\ new(b).purchased = batches[b].purchased - fresh[b] - sold[b]
      BY <3>1 DEF BatchRow
    <3>4. batches[b].remaining - fresh[b] \in Nat /\ batches[b].purchased - fresh[b] - sold[b] \in Nat
      BY <3>2
    <3>5. new(b) \in BatchRow
      BY <3>1, <3>4 DEF BatchRow
    <3> QED
      BY <3>2, <3>3, <3>5
  <2>6. batches' = [b \in Batch |-> new(b)]
    BY <2>1
  <2> HIDE DEF new
  <2> QED
    BY <2>5, <2>6 DEF Sound
<1>3. ledger' \in Seq(LedgerRow)
  <2>1. [row EXCEPT !.back = @ + q] \in LedgerRow
    BY <1>1 DEF LedgerRow
  <2>2. [ledger EXCEPT ![r].back = @ + q] \in Seq(LedgerRow)
    BY <2>1, ReplaceRow DEF IInv, TypeOK
  <2>3. Row("purchase_return", -q, row.sku) \in LedgerRow
    BY <1>1, RowTyped DEF Kinds
  <2> QED
    BY <2>2, <2>3, AppendRow DEF ReturnToSupplier
<1> QED
  BY <1>2, <1>3 DEF IInv, TypeOK, Sound, ReturnToSupplier

LEMMA VoidIInv ==
  ASSUME IInv, NEW r \in 1 .. Len(ledger), Void(r)
  PROVE  IInv'
<1> DEFINE row == ledger[r]
<1>1. row \in LedgerRow /\ row.qty \in Int
  BY ReadRow
<1>2. Sound(batches')
  <2>1. CASE UndoPurchase(row.label)
    <3>1. CASE Labelled(row.label) = {}
      BY <2>1, <3>1 DEF UndoPurchase, IInv
    <3>2. CASE Labelled(row.label) # {}
      <4>1. PICK b \in Labelled(row.label) :
              batches' = [batches EXCEPT ![b] =
                IF Consumed(b) = 0 THEN Deleted
                ELSE [batches[b] EXCEPT !.purchased = Consumed(b), !.remaining = 0]]
        BY <2>1, <3>2 DEF UndoPurchase
      <4> DEFINE cut == [batches[b] EXCEPT !.purchased = Consumed(b), !.remaining = 0]
                 new == IF Consumed(b) = 0 THEN Deleted ELSE cut
      <4>2. b \in Batch /\ Consumed(b) \in Nat /\ batches[b] \in BatchRow
        BY DEF Labelled, Existing, IInv, Sound, BatchRow, Consumed
      <4>3. Deleted \in BatchRow /\ Deleted.remaining <= Deleted.purchased
        BY DEF Deleted, Absent, BatchRow, Status
      <4>4. cut \in BatchRow /\ cut.remaining <= cut.purchased
        <5>1. cut.remaining = 0 /\ cut.purchased = Consumed(b)
          BY <4>2 DEF BatchRow
        <5>2. cut \in BatchRow
          BY <4>2 DEF BatchRow
        <5> QED
          BY <4>2, <5>1, <5>2
      <4>5. new \in BatchRow /\ new.remaining <= new.purchased
        BY <4>3, <4>4
      <4>6. batches' = [batches EXCEPT ![b] = new]
        BY <4>1
      <4> HIDE DEF new
      <4> QED
        BY <4>2, <4>5, <4>6 DEF IInv, Sound
    <3> QED
      BY <3>1, <3>2
  <2>2. CASE row.kind \in {"sale", "destroy"} /\ UndoStockOut(-row.qty)
    <3>1. PICK part \in Parts(-row.qty) :
            IsRestoration(part, NoSku, -row.qty) /\ batches' = PutBack(part)
      BY <2>2 DEF UndoStockOut
    <3>2. \A b \in Batch : part[b] <= Consumed(b)
      BY <1>1, <3>1, RestorationWithinConsumed DEF IInv
    <3> QED
      BY <1>1, <3>1, <3>2, PartsAreNat, PutBackSound DEF IInv
  <2>3. CASE UNCHANGED batches
    BY <2>3 DEF IInv
  <2> QED
    BY <2>1, <2>2, <2>3 DEF Void
<1>3. ledger' \in Seq(LedgerRow)
  <2>1. [row EXCEPT !.voided = TRUE] \in LedgerRow
    BY <1>1 DEF LedgerRow
  <2> QED
    BY <2>1, ReplaceRow DEF IInv, TypeOK, Void
<1> QED
  BY <1>2, <1>3 DEF IInv, TypeOK, Sound, Void

LEMMA InspectIInv ==
  ASSUME IInv, NEW i \in Inspectors, NEW b \in Batch, NEW op \in FoodSafetyOps,
         Inspect(i, b, op)
  PROVE  IInv'
<1>1. [op |-> op, batch |-> b, seen |-> Remaining(b)] \in Inspection
  BY DEF Inspection, Remaining, IInv, Sound, BatchRow
<1> QED
  BY <1>1 DEF IInv, TypeOK, Sound, Inspect

LEMMA CommitInspectionIInv ==
  ASSUME IInv, NEW i \in Inspectors, CommitInspection(i)
  PROVE  IInv'
<1> DEFINE req == inspections[i]
           row == [Row(req.op, -req.seen, batches[req.batch].sku) EXCEPT !.of = req.batch]
<1>1. req \in Inspection
  BY DEF CommitInspection, IInv, TypeOK
<1>2. /\ req.op \in FoodSafetyOps /\ req.batch \in Batch /\ req.seen \in Nat
      /\ batches[req.batch] \in BatchRow
  BY <1>1 DEF Inspection, IInv, Sound
<1>3. Sound(batches')
  <2>1. Target[req.op] \in Status
    BY <1>2 DEF Target, Status, FoodSafetyOps
  <2> QED
    BY <1>2, <2>1 DEF CommitInspection, IInv, Sound, BatchRow
<1>4. ledger' \in Seq(LedgerRow)
  <2>1. CASE req.op \in {"recall", "destroy"} /\ req.seen > 0
    <3>1. Row(req.op, -req.seen, batches[req.batch].sku) \in LedgerRow
      BY <1>2, <2>1, RowTyped DEF Kinds, BatchRow
    <3>2. row \in LedgerRow
      BY <1>2, <3>1 DEF LedgerRow
    <3> QED
      BY <2>1, <3>2, AppendRow DEF CommitInspection, Book, IInv, TypeOK
  <2>2. CASE ~(req.op \in {"recall", "destroy"} /\ req.seen > 0)
    BY <2>2 DEF CommitInspection, IInv, TypeOK
  <2> QED
    BY <2>1, <2>2
<1>5. inspections' \in [Inspectors -> Inspection \cup {Idle}]
  BY DEF CommitInspection, IInv, TypeOK
<1> QED
  BY <1>3, <1>4, <1>5 DEF IInv, TypeOK, Sound

LEMMA RejectInspectionIInv ==
  ASSUME IInv, NEW i \in Inspectors, RejectInspection(i)
  PROVE  IInv'
BY DEF IInv, TypeOK, Sound, RejectInspection

LEMMA NextIInv == IInv /\ [Next]_vars => IInv'
<1> SUFFICES ASSUME IInv, [Next]_vars PROVE IInv'
  OBVIOUS
<1>1. CASE UNCHANGED vars
  BY <1>1 DEF IInv, TypeOK, Sound, vars
<1>2. CASE Next
  BY <1>2, PurchaseIInv, StockOutIInv, RefundIInv, ReturnToSupplierIInv, VoidIInv,
     InspectIInv, CommitInspectionIInv, RejectInspectionIInv DEF Next
<1> QED
  BY <1>1, <1>2

(* Every reachable state is well typed.                                    *)
THEOREM TypeCorrect == Spec => []TypeOK
<1>1. IInv => TypeOK
  BY DEF IInv
<1> QED
  BY <1>1, InitIInv, NextIInv, PTL DEF Spec

(* No interleaving of sales, voids, refunds, supplier returns and food     *)
(* safety work takes a batch below zero or above what was bought into it.  *)
THEOREM BatchBoundsHold == Spec => []BatchBounds
<1>1. IInv => BatchBounds
  BY DEF IInv, Sound, BatchBounds, BatchRow
<1> QED
  BY <1>1, InitIInv, NextIInv, PTL DEF Spec
-----------------------------------------------------------------------------
(* Recalled and destroyed goods *)

LEMMA PulledStep ==
  ASSUME IInv, Next, NEW b \in Batch, batches[b].status \in {"recalled", "destroyed"}
  PROVE  batches'[b].remaining <= batches[b].remaining
<1>1. b \in Pulled /\ batches[b] \in BatchRow /\ batches[b].remaining \in Nat
  BY DEF Pulled, Existing, Rows, IInv, Sound, BatchRow
<1>2. CASE UNCHANGED batches
  BY <1>1, <1>2
<1>3. ASSUME NEW c \in Batch, NEW sku \in Sku \cup {NoSku}, NEW label \in Label,
             NEW q \in Qty, NEW kind \in {"purchase", "offline_purchase"},
             Purchase(c, sku, label, q, kind)
      PROVE  batches'[b].remaining <= batches[b].remaining
  BY <1>1, <1>3 DEF Purchase, IInv, Sound
<1>4. ASSUME NEW sku \in Sku \cup {NoSku}, NEW q \in Qty,
             NEW kind \in {"sale", "pos_sale"}, StockOut(sku, q, kind)
      PROVE  batches'[b].remaining <= batches[b].remaining
  <2>1. PICK part \in Parts(q) : IsConsumption(part, sku, q) /\ batches' = TakeOut(part)
    BY <1>4 DEF StockOut
  <2>2. part[b] \in Nat
    BY QtyIsNat, PartsAreNat
  <2> QED
    BY <1>1, <2>1, <2>2 DEF TakeOut, BatchRow
<1>5. ASSUME NEW part, NEW q \in Int, part \in Parts(q), NEW sku, IsRestoration(part, sku, q)
      PROVE  PutBack(part)[b].remaining = batches[b].remaining
  <2>1. part[b] = 0
    BY <1>1, <1>5, RestorationWithinConsumed DEF IInv
  <2> QED
    BY <1>1, <2>1 DEF PutBack, BatchRow
<1>6. ASSUME NEW r \in 1 .. Len(ledger), NEW q \in Qty, NEW returned \in BOOLEAN,
             Refund(r, q, returned)
      PROVE  batches'[b].remaining <= batches[b].remaining
  <2>1. CASE ~returned
    BY <1>2, <1>6, <2>1 DEF Refund
  <2>2. CASE returned
    <3>1. PICK part \in Parts(q), surplus \in 0 .. q :
            /\ IsRestoration(part, ledger[r].sku, q)
            /\ \/ batches' = PutBack(part)
               \/ \E c \in Batch :
                    /\ batches[c].status = "absent"
                    /\ batches' = [PutBack(part) EXCEPT
                                     ![c] = NewBatch(ledger[r].sku, NoLabel, surplus)]
      BY <1>6, <2>2 DEF Refund
    <3>2. PutBack(part)[b].remaining = batches[b].remaining
      BY <1>5, <3>1, QtyIsNat
    <3>3. CASE batches' = PutBack(part)
      BY <1>1, <3>2, <3>3
    <3>4. CASE \E c \in Batch :
                 /\ batches[c].status = "absent"
                 /\ batches' = [PutBack(part) EXCEPT
                                  ![c] = NewBatch(ledger[r].sku, NoLabel, surplus)]
      BY <1>1, <3>2, <3>4 DEF PutBack
    <3> QED
      BY <3>1, <3>3, <3>4
  <2> QED
    BY <2>1, <2>2
<1>7. ASSUME NEW r \in 1 .. Len(ledger), NEW q \in Qty, ReturnToSupplier(r, q)
      PROVE  batches'[b].remaining <= batches[b].remaining
  <2>1. PICK fresh, sold \in Parts(q) :
          batches' = [c \in Batch |->
               [batches[c] EXCEPT !.remaining = @ - fresh[c],
                                  !.purchased = @ - fresh[c] - sold[c]]]
    BY <1>7 DEF ReturnToSupplier
  <2>2. fresh[b] \in Nat
    BY QtyIsNat, PartsAreNat
  <2>3. batches'[b].remaining = batches[b].remaining - fresh[b]
    BY <1>1, <2>1 DEF BatchRow
  <2> QED
    BY <1>1, <2>2, <2>3
<1>8. ASSUME NEW r \in 1 .. Len(ledger), Void(r)
      PROVE  batches'[b].remaining <= batches[b].remaining
  <2>1. CASE UndoPurchase(ledger[r].label)
    <3>1. CASE Labelled(ledger[r].label) = {}
      BY <1>2, <2>1, <3>1 DEF UndoPurchase
    <3>2. CASE Labelled(ledger[r].label) # {}
      <4>1. PICK c \in Labelled(ledger[r].label) :
              batches' = [batches EXCEPT ![c] =
                IF Consumed(c) = 0 THEN Deleted
                ELSE [batches[c] EXCEPT !.purchased = Consumed(c), !.remaining = 0]]
        BY <2>1, <3>2 DEF UndoPurchase
      <4>2. Deleted.remaining = 0
        BY DEF Deleted, Absent
      <4>3. [batches[b] EXCEPT !.purchased = Consumed(b), !.remaining = 0].remaining = 0
        BY <1>1 DEF BatchRow
      <4>4. batches \in [Batch -> BatchRow]
        BY DEF IInv, Sound
      <4>5. CASE c = b
        <5>1. batches'[b].remaining = 0
          BY <4>1, <4>2, <4>3, <4>4, <4>5
        <5> QED
          BY <1>1, <5>1
      <4>6. CASE c # b
        BY <1>1, <4>1, <4>4, <4>6
      <4> QED
        BY <4>5, <4>6
    <3> QED
      BY <3>1, <3>2
  <2>2. CASE UndoStockOut(-ledger[r].qty)
    <3>1. -ledger[r].qty \in Int
      BY ReadRow
    <3>2. PICK part \in Parts(-ledger[r].qty) :
            IsRestoration(part, NoSku, -ledger[r].qty) /\ batches' = PutBack(part)
      BY <2>2 DEF UndoStockOut
    <3> QED
      BY <1>1, <1>5, <3>1, <3>2
  <2> QED
    BY <1>2, <1>8, <2>1, <2>2 DEF Void
<1>9. ASSUME NEW i \in Inspectors, CommitInspection(i)
      PROVE  batches'[b].remaining <= batches[b].remaining
  <2>1. batches' = [batches EXCEPT ![inspections[i].batch].status = Target[inspections[i].op]]
    BY <1>9 DEF CommitInspection
  <2>2. batches'[b].remaining = batches[b].remaining
    BY <1>1, <2>1 DEF IInv, Sound, BatchRow
  <2> QED
    BY <1>1, <2>2
<1> QED
  BY <1>2, <1>3, <1>4, <1>6, <1>7, <1>8, <1>9 DEF Next, Inspect, RejectInspection

(* Once recalled or destroyed, goods never gain stock from a void or a     *)
(* customer return, whatever else happens.                                 *)
THEOREM NeverRestockedHolds == Spec => NeverRestocked
<1>1. ASSUME IInv, [Next]_vars
      PROVE  [\A b \in Batch : batches[b].status \in {"recalled", "destroyed"}
                => batches'[b].remaining <= batches[b].remaining]_vars
  BY <1>1, PulledStep
<1> QED
  BY <1>1, InitIInv, NextIInv, PTL DEF Spec, NeverRestocked
(* A sale takes nothing from a batch that is locked, recalled or destroyed *)
(* when it runs.                                                           *)
THEOREM LockedNeverSoldHolds == Spec => LockedNeverSold
<1> DEFINE Sold == Len(ledger') > Len(ledger)
                   /\ ledger'[Len(ledger')].kind \in {"sale", "pos_sale"}
<1>1. ASSUME IInv, Next, Sold, NEW b \in Batch, batches[b].status # "sellable"
      PROVE  batches'[b].remaining = batches[b].remaining
  <2>1. ledger \in Seq(LedgerRow) /\ Len(ledger) \in Nat
    BY <1>1 DEF IInv, TypeOK
  <2>2. \A row : Append(ledger, row)[Len(Append(ledger, row))] = row
    BY <2>1
  <2>3. ASSUME NEW sku \in Sku \cup {NoSku}, NEW q \in Qty,
               NEW kind \in {"sale", "pos_sale"}, StockOut(sku, q, kind)
        PROVE  batches'[b].remaining = batches[b].remaining
    <3>1. PICK part \in Parts(q) : IsConsumption(part, sku, q) /\ batches' = TakeOut(part)
      BY <2>3 DEF StockOut
    <3>2. part[b] = 0
      BY <1>1, <3>1, QtyIsNat, ConsumptionWithinStock DEF Consumable, IInv
    <3>3. batches[b] \in BatchRow
      BY <1>1 DEF IInv, Sound
    <3> QED
      BY <3>1, <3>2, <3>3 DEF TakeOut, BatchRow
  <2>4. CASE UNCHANGED ledger
    BY <1>1, <2>1, <2>4
  <2>5. ASSUME NEW row, NEW s, s \in Seq(LedgerRow), ledger' = Append(s, row)
        PROVE  row.kind \in {"sale", "pos_sale"}
    BY <1>1, <2>5
  <2>6. ASSUME NEW c \in Batch, NEW sku \in Sku \cup {NoSku}, NEW label \in Label,
               NEW q \in Qty, NEW kind \in {"purchase", "offline_purchase"},
               Purchase(c, sku, label, q, kind)
        PROVE  FALSE
    <3> DEFINE tag == IF kind = "purchase" THEN label ELSE NoLabel
    <3>1. [Row(kind, q, sku) EXCEPT !.label = tag].kind = kind
      BY DEF Row
    <3> QED
      BY <2>1, <2>5, <2>6, <3>1 DEF Purchase, Book
  <2>7. ASSUME NEW r \in 1 .. Len(ledger), NEW q \in Qty, NEW returned \in BOOLEAN,
               Refund(r, q, returned)
        PROVE  FALSE
    <3>1. [ledger EXCEPT ![r].back = ledger[r].back + q] \in Seq(LedgerRow)
      <4>1. [ledger[r] EXCEPT !.back = ledger[r].back + q] \in LedgerRow
        BY <1>1, ReadRow, QtyIsNat DEF LedgerRow
      <4> QED
        BY <2>1, <4>1, ReplaceRow
    <3>2. Row("refund", IF returned THEN q ELSE 0, ledger[r].sku).kind = "refund"
      BY DEF Row
    <3> QED
      BY <2>5, <2>7, <3>1, <3>2 DEF Refund
  <2>8. ASSUME NEW r \in 1 .. Len(ledger), NEW q \in Qty, ReturnToSupplier(r, q)
        PROVE  FALSE
    <3>1. [ledger EXCEPT ![r].back = ledger[r].back + q] \in Seq(LedgerRow)
      <4>1. [ledger[r] EXCEPT !.back = ledger[r].back + q] \in LedgerRow
        BY <1>1, ReadRow, QtyIsNat DEF LedgerRow
      <4> QED
        BY <2>1, <4>1, ReplaceRow
    <3>2. Row("purchase_return", -q, ledger[r].sku).kind = "purchase_return"
      BY DEF Row
    <3> QED
      BY <2>5, <2>8, <3>1, <3>2 DEF ReturnToSupplier
  <2>9. ASSUME NEW r \in 1 .. Len(ledger), Void(r)
        PROVE  FALSE
    BY <1>1, <2>1, <2>9 DEF Void
  <2>10. ASSUME NEW i \in Inspectors, CommitInspection(i)
         PROVE  batches'[b].remaining = batches[b].remaining
    <3>1. batches' = [batches EXCEPT ![inspections[i].batch].status = Target[inspections[i].op]]
      BY <2>10 DEF CommitInspection
    <3> QED
      BY <1>1, <3>1 DEF IInv, Sound, BatchRow
  <2> QED
    BY <1>1, <2>3, <2>4, <2>6, <2>7, <2>8, <2>9, <2>10 DEF Next, Inspect, RejectInspection
<1>2. ASSUME IInv, [Next]_vars
      PROVE  [Sold => \A b \in Batch : batches[b].status # "sellable"
                        => batches'[b].remaining = batches[b].remaining]_vars
  BY <1>1, <1>2
<1> QED
  BY <1>2, InitIInv, NextIInv, PTL DEF Spec, LockedNeverSold

-----------------------------------------------------------------------------
(* One inspector at a time *)

(* What an inspector has read is still so when he commits, or the batch    *)
(* has been deleted by a void meanwhile: nobody else writes a status.      *)
InspectionCurrent ==
  \A i \in Inspectors : inspections[i] # Idle =>
    batches[inspections[i].batch].status \in {Source[inspections[i].op], "deleted"}

SafetyInv == IInv /\ InspectionCurrent
LEMMA PartKeepsStatus ==
  ASSUME IInv, NEW part, NEW b \in Batch
  PROVE  /\ TakeOut(part)[b].status = batches[b].status
         /\ PutBack(part)[b].status = batches[b].status
BY DEF TakeOut, PutBack, IInv, Sound, BatchRow

(* The only writer of a status, beside inserts and deletes, is the commit  *)
(* of an inspection of that batch.                                         *)
LEMMA StatusStep ==
  ASSUME IInv, Next, NEW b \in Batch,
         ~\E i \in Inspectors : CommitInspection(i) /\ inspections[i].batch = b
  PROVE  \/ batches[b].status = "absent"
         \/ batches'[b].status \in {batches[b].status, "deleted"}
<1> DEFINE Kept == \/ batches[b].status = "absent"
                   \/ batches'[b].status \in {batches[b].status, "deleted"}
<1>1. batches \in [Batch -> BatchRow]
  BY DEF IInv, Sound
<1>2. CASE UNCHANGED batches
  BY <1>2
<1>3. ASSUME NEW c \in Batch, NEW sku \in Sku \cup {NoSku}, NEW label \in Label,
             NEW q \in Qty, NEW kind \in {"purchase", "offline_purchase"},
             Purchase(c, sku, label, q, kind)
      PROVE  Kept
  BY <1>1, <1>3 DEF Purchase
<1>4. ASSUME NEW sku \in Sku \cup {NoSku}, NEW q \in Qty,
             NEW kind \in {"sale", "pos_sale"}, StockOut(sku, q, kind)
      PROVE  Kept
  BY <1>4, PartKeepsStatus DEF StockOut
<1>5. ASSUME NEW r \in 1 .. Len(ledger), NEW q \in Qty, NEW returned \in BOOLEAN,
             Refund(r, q, returned)
      PROVE  Kept
  <2>1. CASE UNCHANGED batches
    BY <2>1
  <2>2. CASE ~UNCHANGED batches
    <3>1. PICK part \in Parts(q), surplus \in 0 .. q :
            \/ batches' = PutBack(part)
            \/ \E c \in Batch :
                 /\ batches[c].status = "absent"
                 /\ batches' = [PutBack(part) EXCEPT
                                  ![c] = NewBatch(ledger[r].sku, NoLabel, surplus)]
      BY <1>5, <2>2 DEF Refund
    <3>2. PutBack(part)[b].status = batches[b].status
      BY PartKeepsStatus
    <3> QED
      BY <3>1, <3>2 DEF PutBack
  <2> QED
    BY <2>1, <2>2
<1>6. ASSUME NEW r \in 1 .. Len(ledger), NEW q \in Qty, ReturnToSupplier(r, q)
      PROVE  Kept
  <2>1. PICK fresh, sold \in Parts(q) :
          batches' = [c \in Batch |->
               [batches[c] EXCEPT !.remaining = @ - fresh[c],
                                  !.purchased = @ - fresh[c] - sold[c]]]
    BY <1>6 DEF ReturnToSupplier
  <2>2. batches'[b].status = batches[b].status
    BY <1>1, <2>1 DEF BatchRow
  <2> QED
    BY <2>2
<1>7. ASSUME NEW r \in 1 .. Len(ledger), Void(r)
      PROVE  Kept
  <2>1. CASE UndoPurchase(ledger[r].label)
    <3>1. CASE UNCHANGED batches
      BY <3>1
    <3>2. CASE ~UNCHANGED batches
      <4>1. PICK c \in Labelled(ledger[r].label) :
              batches' = [batches EXCEPT ![c] =
                IF Consumed(c) = 0 THEN Deleted
                ELSE [batches[c] EXCEPT !.purchased = Consumed(c), !.remaining = 0]]
        BY <2>1, <3>2 DEF UndoPurchase
      <4>2. Deleted.status = "deleted"
        BY DEF Deleted, Absent
      <4>3. [batches[b] EXCEPT !.purchased = Consumed(b), !.remaining = 0].status
              = batches[b].status
        BY <1>1 DEF BatchRow
      <4>4. CASE c = b
        <5>1. batches'[b] = IF Consumed(b) = 0 THEN Deleted
                ELSE [batches[b] EXCEPT !.purchased = Consumed(b), !.remaining = 0]
          BY <1>1, <4>1, <4>4
        <5> QED
          BY <4>2, <4>3, <5>1
      <4>5. CASE c # b
        BY <1>1, <4>1, <4>5
      <4> QED
        BY <4>4, <4>5
    <3> QED
      BY <3>1, <3>2
  <2>2. CASE UndoStockOut(-ledger[r].qty)
    BY <2>2, PartKeepsStatus DEF UndoStockOut
  <2> QED
    BY <1>2, <1>7, <2>1, <2>2 DEF Void
<1>8. ASSUME NEW i \in Inspectors, CommitInspection(i)
      PROVE  Kept
  <2>1. batches' = [batches EXCEPT ![inspections[i].batch].status = Target[inspections[i].op]]
    BY <1>8 DEF CommitInspection
  <2>2. inspections[i].batch # b
    BY <1>8
  <2> QED
    BY <1>1, <2>1, <2>2
<1> QED
  BY <1>2, <1>3, <1>4, <1>5, <1>6, <1>7, <1>8 DEF Next, Inspect, RejectInspection

LEMMA NextSafetyInv ==
  ASSUME \A i, j \in Inspectors : i = j
  PROVE  SafetyInv /\ [Next]_vars => SafetyInv'
<1> SUFFICES ASSUME SafetyInv, [Next]_vars PROVE InspectionCurrent'
  BY NextIInv DEF SafetyInv
<1>1. CASE UNCHANGED vars
  BY <1>1 DEF SafetyInv, InspectionCurrent, vars
<1>2. CASE Next
  <2> SUFFICES ASSUME NEW i \in Inspectors, inspections'[i] # Idle
               PROVE  batches'[inspections'[i].batch].status
                        \in {Source[inspections'[i].op], "deleted"}
    BY DEF InspectionCurrent
  <2>1. inspections \in [Inspectors -> Inspection \cup {Idle}]
    BY DEF SafetyInv, IInv, TypeOK
  <2>2. CASE inspections'[i] = inspections[i]
    <3> DEFINE b == inspections[i].batch
               op == inspections[i].op
    <3>1. b \in Batch /\ op \in FoodSafetyOps
      BY <2>1, <2>2 DEF Inspection
    <3>2. batches[b].status \in {Source[op], "deleted"}
      BY <2>2 DEF SafetyInv, InspectionCurrent
    <3>3. ~\E j \in Inspectors : CommitInspection(j)
      <4> SUFFICES ASSUME NEW j \in Inspectors, CommitInspection(j) PROVE FALSE
        OBVIOUS
      <4>1. j = i
        OBVIOUS
      <4>2. inspections'[i] = Idle
        BY <2>1, <4>1 DEF CommitInspection
      <4> QED
        BY <4>2
    <3>4. batches[b].status # "absent"
      BY <3>1, <3>2 DEF Source, FoodSafetyOps
    <3>5. batches'[b].status \in {batches[b].status, "deleted"}
      BY <1>2, <3>1, <3>3, <3>4, StatusStep DEF SafetyInv
    <3> QED
      BY <2>2, <3>2, <3>5
  <2>3. CASE inspections'[i] # inspections[i]
    <3>1. PICK b \in Batch, op \in FoodSafetyOps : Inspect(i, b, op)
      <4>1. CASE \E j \in Inspectors, b \in Batch, op \in FoodSafetyOps : Inspect(j, b, op)
        BY <4>1
      <4>2. CASE \E j \in Inspectors : CommitInspection(j) \/ RejectInspection(j)
        BY <2>1, <4>2 DEF CommitInspection, RejectInspection
      <4>3. CASE UNCHANGED inspections
        BY <2>3, <4>3
      <4> QED
        BY <1>2, <4>1, <4>2, <4>3
        DEF Next, Purchase, StockOut, Refund, ReturnToSupplier, Void
    <3>2. inspections'[i] = [op |-> op, batch |-> b, seen |-> Remaining(b)]
      BY <2>1, <3>1 DEF Inspect
    <3> QED
      BY <3>1, <3>2, SMTT(30) DEF Inspect
  <2> QED
    BY <2>2, <2>3
<1> QED
  BY <1>1, <1>2

(* With at most one person working the food safety endpoints, a recalled   *)
(* batch can only be destroyed and a destroyed one stays destroyed (or its *)
(* row is deleted with the purchase).                                      *)
THEOREM RecallIsFinalHolds ==
  ASSUME \A i, j \in Inspectors : i = j
  PROVE  Spec => RecallIsFinal
<1>1. Init => SafetyInv
  <2>1. Init => InspectionCurrent
    BY DEF Init, InspectionCurrent
  <2> QED
    BY <2>1, InitIInv DEF SafetyInv
<1>2. SafetyInv /\ [Next]_vars => SafetyInv'
  BY NextSafetyInv
<1>3. ASSUME SafetyInv, Next, NEW b \in Batch
      PROVE  /\ batches[b].status = "recalled"
                  => batches'[b].status \in {"recalled", "destroyed", "deleted"}
             /\ batches[b].status = "destroyed"
                  => batches'[b].status \in {"destroyed", "deleted"}
  <2>1. CASE ~\E i \in Inspectors : CommitInspection(i) /\ inspections[i].batch = b
    BY <1>3, <2>1, StatusStep DEF SafetyInv
  <2>2. CASE \E i \in Inspectors : CommitInspection(i) /\ inspections[i].batch = b
    <3>1. PICK i \in Inspectors : CommitInspection(i) /\ inspections[i].batch = b
      BY <2>2
    <3>2. /\ inspections[i] \in Inspection
          /\ batches[b].status \in {Source[inspections[i].op], "deleted"}
          /\ batches[b].status \in Rows
      BY <1>3, <3>1 DEF SafetyInv, InspectionCurrent, IInv, TypeOK, CommitInspection
    <3>3. batches'[b].status = Target[inspections[i].op]
      <4>1. batches' = [batches EXCEPT ![b].status = Target[inspections[i].op]]
        BY <3>1 DEF CommitInspection
      <4>2. batches \in [Batch -> BatchRow]
        BY <1>3 DEF SafetyInv, IInv, Sound
      <4> QED
        BY <4>1, <4>2 DEF BatchRow
    <3>4. inspections[i].op \in FoodSafetyOps
      BY <3>2 DEF Inspection
    <3> QED
      BY <3>2, <3>3, <3>4 DEF Rows, FoodSafetyOps, Source, Target
  <2> QED
    BY <2>1, <2>2
<1>4. ASSUME SafetyInv, [Next]_vars
      PROVE  [\A b \in Batch :
               /\ batches[b].status = "recalled"
                    => batches'[b].status \in {"recalled", "destroyed", "deleted"}
               /\ batches[b].status = "destroyed"
                    => batches'[b].status \in {"destroyed", "deleted"}]_vars
  BY <1>3, <1>4
<1> QED
  BY <1>1, <1>2, <1>4, PTL DEF Spec, RecallIsFinal

-----------------------------------------------------------------------------
(* What the books and the batches add up to *)

AnySku == Sku \cup {NoSku}

(* A row of the ledger, and the rows, for some kinds and SKUs.             *)
Counts(row, K, S) ==
  IF ~row.voided /\ row.kind \in K /\ row.sku \in S THEN row.qty ELSE 0
Books(l, K, S) == SumOf([r \in 1 .. Len(l) |-> Counts(l[r], K, S)])

(* What is gone of a batch row and of the batches, for some SKUs.          *)
Cut(row, T) ==
  IF row.status \in Rows /\ row.sku \in T THEN row.purchased - row.remaining ELSE 0
Gone(rows, T) == SumOf([b \in Batch |-> Cut(rows[b], T)])

(* What is still there of a batch row and of the batches.                  *)
Stock(row) == IF row.status \in {"sellable", "locked"} THEN row.remaining ELSE 0
Held(rows) == SumOf([b \in Batch |-> Stock(rows[b])])

LEMMA CountsType ==
  ASSUME NEW row \in LedgerRow, NEW K, NEW S
  PROVE  Counts(row, K, S) \in Int
BY DEF Counts, LedgerRow

LEMMA CountsFunction ==
  ASSUME NEW l \in Seq(LedgerRow), NEW K, NEW S
  PROVE  [r \in 1 .. Len(l) |-> Counts(l[r], K, S)] \in [1 .. Len(l) -> Int]
<1>1. \A r \in 1 .. Len(l) : l[r] \in LedgerRow
  OBVIOUS
<1>2. \A r \in 1 .. Len(l) : Counts(l[r], K, S) \in Int
  BY <1>1, CountsType
<1> QED
  BY <1>2

LEMMA BooksType ==
  ASSUME NEW l \in Seq(LedgerRow), NEW K, NEW S
  PROVE  /\ IsFiniteSet(1 .. Len(l))
         /\ [r \in 1 .. Len(l) |-> Counts(l[r], K, S)] \in [1 .. Len(l) -> Int]
         /\ Books(l, K, S) \in Int
<1> DEFINE f == [r \in 1 .. Len(l) |-> Counts(l[r], K, S)]
<1>1. IsFiniteSet(1 .. Len(l))
  BY FS_Interval
<1>2. f \in [1 .. Len(l) -> Int]
  BY CountsFunction
<1> HIDE DEF f
<1>3. SumOf(f) \in Int
  BY <1>1, <1>2, SumInt
<1> QED
  BY <1>1, <1>2, <1>3 DEF Books, f

LEMMA BooksAppend ==
  ASSUME NEW l \in Seq(LedgerRow), NEW row \in LedgerRow, NEW K, NEW S
  PROVE  Books(Append(l, row), K, S) = Books(l, K, S) + Counts(row, K, S)
<1> DEFINE n == Len(l)
           m == Append(l, row)
           f == [r \in 1 .. n |-> Counts(l[r], K, S)]
           g == [r \in 1 .. Len(m) |-> Counts(m[r], K, S)]
<1>1. n \in Nat /\ Len(m) = n + 1 /\ m[n + 1] = row /\ \A r \in 1 .. n : m[r] = l[r]
  OBVIOUS
<1>2. m \in Seq(LedgerRow)
  OBVIOUS
<1>3. f \in [1 .. n -> Int] /\ g \in [1 .. n + 1 -> Int]
  <2> HIDE DEF m
  <2>1. f \in [1 .. Len(l) -> Int]
    BY CountsFunction
  <2>2. g \in [1 .. Len(m) -> Int]
    BY <1>2, CountsFunction
  <2> QED
    BY <1>1, <2>1, <2>2
<1>4. (\A r \in 1 .. n : f[r] = g[r]) /\ g[n + 1] = Counts(row, K, S)
  <2> HIDE DEF m, n
  <2> QED
    BY <1>1
<1> HIDE DEF m, n, f, g
<1>5. SumOf(g) = SumOf(f) + Counts(row, K, S)
  BY <1>1, <1>3, <1>4, SumNext
<1> QED
  BY <1>5 DEF Books, f, g, m, n

LEMMA BooksReplace ==
  ASSUME NEW l \in Seq(LedgerRow), NEW r \in 1 .. Len(l), NEW m \in Seq(LedgerRow),
         Len(m) = Len(l), \A i \in (1 .. Len(l)) \ {r} : m[i] = l[i], NEW K, NEW S
  PROVE  Books(m, K, S) = Books(l, K, S) + Counts(m[r], K, S) - Counts(l[r], K, S)
<1> DEFINE R == 1 .. Len(l)
           f == [i \in R |-> Counts(l[i], K, S)]
           g == [i \in R |-> Counts(m[i], K, S)]
<1>1. IsFiniteSet(R) /\ f \in [R -> Int]
  <2>1. IsFiniteSet(R)
    BY FS_Interval
  <2>2. \A i \in R : l[i] \in LedgerRow
    OBVIOUS
  <2>3. \A i \in R : Counts(l[i], K, S) \in Int
    BY <2>2, CountsType
  <2> HIDE DEF R
  <2> QED
    BY <2>1, <2>3
<1>2. g \in [R -> Int]
  <2>1. \A i \in R : m[i] \in LedgerRow
    OBVIOUS
  <2>2. \A i \in R : Counts(m[i], K, S) \in Int
    BY <2>1, CountsType
  <2> HIDE DEF R
  <2> QED
    BY <2>2
<1>3. r \in R /\ \A i \in R \ {r} : f[i] = g[i]
  OBVIOUS
<1>4. f[r] = Counts(l[r], K, S) /\ g[r] = Counts(m[r], K, S)
  BY <1>3
<1>5. SumOf(g) = SumOf(f) + g[r] - f[r]
  <2> HIDE DEF f, g, R
  <2> QED
    BY <1>1, <1>2, <1>3, SumUpdate
<1>6. SumOf(f) = Books(l, K, S) /\ SumOf(g) = Books(m, K, S)
  BY DEF Books
<1> HIDE DEF f, g, R
<1> QED
  BY <1>4, <1>5, <1>6

LEMMA GoneType ==
  ASSUME NEW rows \in [Batch -> BatchRow], NEW T
  PROVE  [b \in Batch |-> Cut(rows[b], T)] \in [Batch -> Int] /\ Gone(rows, T) \in Int
<1> DEFINE f == [b \in Batch |-> Cut(rows[b], T)]
<1>1. f \in [Batch -> Int]
  BY DEF Cut, BatchRow
<1> HIDE DEF f
<1>2. SumOf(f) \in Int
  BY <1>1, StockConstants, SumInt
<1> QED
  BY <1>1, <1>2 DEF f, Gone

LEMMA HeldType ==
  ASSUME NEW rows \in [Batch -> BatchRow]
  PROVE  [b \in Batch |-> Stock(rows[b])] \in [Batch -> Int] /\ Held(rows) \in Int
<1> DEFINE f == [b \in Batch |-> Stock(rows[b])]
<1>1. f \in [Batch -> Int]
  BY DEF Stock, BatchRow
<1> HIDE DEF f
<1>2. SumOf(f) \in Int
  BY <1>1, StockConstants, SumInt
<1> QED
  BY <1>1, <1>2 DEF f, Held

(* The part of an allocation that falls on batches of some SKUs.           *)
On(part, T) == [b \in Batch |-> IF batches[b].sku \in T THEN part[b] ELSE 0]

LEMMA OnFacts ==
  ASSUME NEW part \in [Batch -> Nat], NEW T
  PROVE  /\ On(part, T) \in [Batch -> Int] /\ SumOf(part) \in Nat
         /\ SumOf(On(part, T)) \in Nat /\ SumOf(On(part, T)) <= SumOf(part)
         /\ (\A b \in Batch : part[b] # 0 => batches[b].sku \in T)
              => SumOf(On(part, T)) = SumOf(part)
         /\ (\A b \in Batch : part[b] # 0 => batches[b].sku \notin T)
              => SumOf(On(part, T)) = 0
<1> DEFINE on == On(part, T)
<1>1. on \in [Batch -> Nat] /\ on \in [Batch -> Int] /\ part \in [Batch -> Int]
  BY DEF On
<1>2. \A b \in Batch : on[b] <= part[b]
  BY DEF On
<1>3. ASSUME \A b \in Batch : part[b] # 0 => batches[b].sku \in T
      PROVE  on = part
  BY <1>1, <1>3 DEF On
<1>4. ASSUME \A b \in Batch : part[b] # 0 => batches[b].sku \notin T
      PROVE  \A b \in Batch : on[b] = 0
  BY <1>4 DEF On
<1> HIDE DEF on
<1>5. SumOf(on) \in Nat /\ SumOf(part) \in Nat /\ SumOf(on) <= SumOf(part)
  BY <1>1, <1>2, StockConstants, SumNat, SumAtMost
<1>6. (\A b \in Batch : on[b] = 0) => SumOf(on) = 0
  BY <1>1, StockConstants, SumZero
<1> QED
  BY <1>1, <1>3, <1>4, <1>5, <1>6 DEF on

LEMMA TakeOutGone ==
  ASSUME Sound(batches), NEW part \in [Batch -> Nat], NEW T,
         \A b \in Batch : part[b] <= Remaining(b) /\ (b \notin Existing => part[b] = 0)
  PROVE  Gone(TakeOut(part), T) = Gone(batches, T) + SumOf(On(part, T))
<1> DEFINE f == [b \in Batch |-> Cut(batches[b], T)]
           h == [b \in Batch |-> Cut(TakeOut(part)[b], T)]
           on == On(part, T)
<1>1. f \in [Batch -> Int] /\ h \in [Batch -> Int] /\ on \in [Batch -> Int]
  BY TakeOutSound, GoneType, OnFacts, ZenonT(40) DEF Sound
<1>2. ASSUME NEW b \in Batch PROVE h[b] = f[b] + on[b]
  BY DEF On, Cut, TakeOut, Existing, Sound, BatchRow
<1> HIDE DEF f, h, on
<1>3. SumOf(h) = SumOf(f) + SumOf(on)
  BY <1>1, <1>2, StockConstants, SumPlus
<1> QED
  BY <1>3 DEF f, h, on, Gone

LEMMA PutBackGone ==
  ASSUME Sound(batches), NEW part \in [Batch -> Nat], NEW T,
         \A b \in Batch : part[b] <= Consumed(b) /\ (b \notin Existing => part[b] = 0)
  PROVE  Gone(PutBack(part), T) = Gone(batches, T) - SumOf(On(part, T))
<1> DEFINE f == [b \in Batch |-> Cut(batches[b], T)]
           h == [b \in Batch |-> Cut(PutBack(part)[b], T)]
           on == On(part, T)
<1>1. f \in [Batch -> Int] /\ h \in [Batch -> Int] /\ on \in [Batch -> Int]
  BY PutBackSound, GoneType, OnFacts, ZenonT(40) DEF Sound
<1>2. ASSUME NEW b \in Batch PROVE f[b] = h[b] + on[b]
  BY DEF On, Cut, PutBack, Existing, Sound, BatchRow
<1>3. SumOf(on) \in Int /\ Gone(PutBack(part), T) \in Int
  BY PutBackSound, GoneType, OnFacts DEF Sound
<1> HIDE DEF f, h, on
<1>4. SumOf(f) = SumOf(h) + SumOf(on)
  BY <1>1, <1>2, StockConstants, SumPlus
<1>5. SumOf(h) \in Int
  BY <1>3 DEF h, Gone
<1>6. SumOf(h) = SumOf(f) - SumOf(on)
  BY <1>3, <1>4, <1>5
<1> QED
  BY <1>6 DEF f, h, on, Gone

-----------------------------------------------------------------------------
(* The ledger only grows *)

(* No row is taken back: it is marked as voided or as partly returned.     *)
LEMMA LedgerGrows ==
  ASSUME IInv, [Next]_vars, NEW r \in 1 .. Len(ledger)
  PROVE  /\ r \in 1 .. Len(ledger') /\ ledger'[r].kind = ledger[r].kind
         /\ ledger'[r].sku = ledger[r].sku
         /\ ledger[r].voided => ledger'[r].voided
<1> DEFINE Same == /\ r \in 1 .. Len(ledger') /\ ledger'[r].kind = ledger[r].kind
                   /\ ledger'[r].sku = ledger[r].sku
                   /\ ledger[r].voided => ledger'[r].voided
<1>1. ledger \in Seq(LedgerRow) /\ ledger[r] \in LedgerRow
  BY ReadRow DEF IInv, TypeOK
<1>2. ASSUME NEW row, ledger' = Append(ledger, row) PROVE Same
  BY <1>1, <1>2
<1>3. ASSUME NEW i \in 1 .. Len(ledger), NEW row \in LedgerRow, NEW new,
             row.kind = ledger[i].kind, row.sku = ledger[i].sku,
             ledger[i].voided => row.voided,
             \/ ledger' = [ledger EXCEPT ![i] = row]
             \/ ledger' = Append([ledger EXCEPT ![i] = row], new)
      PROVE  Same
  <2> DEFINE m == [ledger EXCEPT ![i] = row]
  <2>1. m \in Seq(LedgerRow) /\ Len(m) = Len(ledger)
        /\ m[r] = IF r = i THEN row ELSE ledger[r]
    BY <1>1
  <2>2. ledger' = m \/ ledger' = Append(m, new)
    BY <1>3
  <2> HIDE DEF m
  <2>3. r \in 1 .. Len(ledger') /\ ledger'[r] = m[r]
    BY <2>1, <2>2
  <2> QED
    BY <1>3, <2>1, <2>3
<1>4. CASE UNCHANGED ledger
  BY <1>4
<1>5. ASSUME NEW i \in 1 .. Len(ledger), NEW q \in Qty, NEW row,
             ledger' = Append([ledger EXCEPT ![i].back = ledger[i].back + q], row)
      PROVE  Same
  <2> DEFINE marked == [ledger[i] EXCEPT !.back = ledger[i].back + q]
  <2>1. /\ marked \in LedgerRow /\ marked.kind = ledger[i].kind
        /\ marked.sku = ledger[i].sku /\ marked.voided = ledger[i].voided
    BY ReadRow, QtyIsNat DEF LedgerRow
  <2> HIDE DEF marked
  <2>2. ledger' = Append([ledger EXCEPT ![i] = marked], row)
    BY <1>5 DEF marked
  <2> QED
    BY <1>3, <2>1, <2>2
<1>6. ASSUME NEW i \in 1 .. Len(ledger), ledger' = [ledger EXCEPT ![i].voided = TRUE]
      PROVE  Same
  <2> DEFINE marked == [ledger[i] EXCEPT !.voided = TRUE]
  <2>1. /\ marked \in LedgerRow /\ marked.kind = ledger[i].kind
        /\ marked.sku = ledger[i].sku /\ marked.voided
    BY ReadRow DEF LedgerRow
  <2> HIDE DEF marked
  <2>2. ledger' = [ledger EXCEPT ![i] = marked]
    BY <1>6, SMTT(30) DEF marked
  <2> QED
    BY <1>3, <2>1, <2>2
<1>7. CASE Next
  <2>1. ASSUME NEW i \in Inspectors, CommitInspection(i) PROVE Same
    BY <1>2, <1>4, <2>1 DEF CommitInspection, Book
  <2> QED
    BY <1>2, <1>4, <1>5, <1>6, <1>7, <2>1
    DEF Next, Purchase, StockOut, Refund, ReturnToSupplier, Void, Book, Inspect,
        RejectInspection
<1> QED
  BY <1>4, <1>7 DEF vars

-----------------------------------------------------------------------------
(* Sold goods are covered *)

(* The rows of the sales that name the SKUs of S are covered by what is    *)
(* gone of the batches that name those of T: either every row and every    *)
(* batch, or the rows of one SKU and its own and the unowned batches.      *)
Covered(S, T) == -Books(ledger, Sales, S) <= Gone(batches, T)

Scope(S, T) ==
  \/ S = AnySku /\ T = AnySku
  \/ \E s \in Sku : S = {s} /\ T = {s, NoSku}

(* When it is so: one SKU's sales can only be told apart if all name one.  *)
Premise(S) == Plain /\ (S = AnySku \/ Owned)

LEMMA PremiseBefore ==
  ASSUME IInv, [Next]_vars, NEW S, Premise(S)'
  PROVE  Premise(S)
<1>1. \A r \in 1 .. Len(ledger) :
        /\ r \in 1 .. Len(ledger') /\ ledger'[r].kind = ledger[r].kind
        /\ ledger'[r].sku = ledger[r].sku
        /\ ledger[r].voided => ledger'[r].voided
  BY LedgerGrows
<1>2. Plain
  BY <1>1 DEF Premise, Plain, Seen, Voided
<1>3. S = AnySku \/ Owned
  BY <1>1 DEF Premise, Owned, Seen
<1> QED
  BY <1>2, <1>3 DEF Premise

(* A row of a sale that is in the books afterwards names a SKU, if only    *)
(* one SKU's are looked at.                                                *)
LEMMA NewRowOwned ==
  ASSUME NEW l \in Seq(LedgerRow), NEW row \in LedgerRow, ledger' = Append(l, row),
         NEW S, Premise(S)', row.kind \in Sales
  PROVE  S = AnySku \/ row.sku # NoSku
<1>1. Len(ledger') \in 1 .. Len(ledger') /\ ledger'[Len(ledger')] = row
  OBVIOUS
<1> QED
  BY <1>1 DEF Premise, Owned, Seen

(* Returned goods go to a batch under the filter, and come to q at most.   *)
LEMMA RestorationGone ==
  ASSUME IInv, NEW q \in Int, NEW part \in Parts(q), NEW sku,
         IsRestoration(part, sku, q), NEW S, NEW T, Scope(S, T),
         S = AnySku \/ sku \in Sku
  PROVE  /\ Gone(PutBack(part), T) = Gone(batches, T) - SumOf(On(part, T))
         /\ SumOf(On(part, T)) \in Nat /\ SumOf(On(part, T)) <= q
         /\ sku \notin S => SumOf(On(part, T)) = 0
<1>1. part \in [Batch -> Nat] /\ Sound(batches)
  BY PartsAreNat DEF IInv
<1>2. \A b \in Batch : part[b] <= (IF b \in OfSku(sku) \ Pulled THEN Consumed(b) ELSE 0)
  BY PartsAreNat DEF IsRestoration, IsSplit
<1>3. \A b \in Batch : part[b] \in Nat /\ Consumed(b) \in Nat /\ part[b] <= Consumed(b)
  BY <1>1, RestorationWithinConsumed DEF Sound, Consumed, BatchRow
<1>4. \A b \in Batch : part[b] # 0 => b \in OfSku(sku)
  BY <1>2, <1>3
<1>5. Gone(PutBack(part), T) = Gone(batches, T) - SumOf(On(part, T))
  BY <1>1, <1>3, <1>4, PutBackGone DEF OfSku
<1>6. SumOf(part) <= q
  <2> DEFINE pool == OfSku(sku) \ Pulled
             f == [b \in pool |-> Consumed(b)]
  <2>1. SumOf(part) = Smaller(q, SumOf(f))
    BY DEF IsRestoration, IsSplit, Sum
  <2>2. pool \subseteq Batch
    BY DEF OfSku, Existing
  <2>3. IsFiniteSet(pool) /\ f \in [pool -> Int]
    BY <1>3, <2>2, StockConstants, FS_Subset
  <2> HIDE DEF f, pool
  <2>4. SumOf(f) \in Int
    BY <2>3, SumInt
  <2> QED
    BY <2>1, <2>4 DEF Smaller
<1>7. /\ SumOf(On(part, T)) \in Nat /\ SumOf(part) \in Nat
      /\ SumOf(On(part, T)) <= SumOf(part)
  BY <1>1, OnFacts
<1>8. ASSUME sku \notin S PROVE SumOf(On(part, T)) = 0
  <2>1. CASE S = AnySku /\ T = AnySku
    <3>1. sku # NoSku /\ \A b \in Batch : batches[b].sku \in AnySku
      BY <1>1, <1>8, <2>1 DEF AnySku, Sound, BatchRow
    <3>2. \A b \in Batch : part[b] = 0
      BY <1>3, <1>4, <1>8, <2>1, <3>1 DEF OfSku
    <3> QED
      BY <1>1, <3>2, OnFacts
  <2>2. CASE \E s \in Sku : S = {s} /\ T = {s, NoSku} /\ sku \in Sku
    <3>1. sku \notin T /\ sku # NoSku
      BY <1>8, <2>2, StockConstants
    <3>2. \A b \in Batch : part[b] # 0 => batches[b].sku \notin T
      BY <1>4, <3>1 DEF OfSku
    <3> QED
      BY <1>1, <3>2, OnFacts
  <2>3. CASE \E s \in Sku : S = AnySku /\ S = {s}
    BY <2>3, StockConstants DEF AnySku
  <2> QED
    BY <2>1, <2>2, <2>3 DEF Scope
<1> QED
  BY <1>5, <1>6, <1>7, <1>8

LEMMA GoneSame ==
  ASSUME NEW rows, NEW new, NEW T, \A b \in Batch : Cut(new[b], T) = Cut(rows[b], T)
  PROVE  Gone(new, T) = Gone(rows, T)
<1>1. [b \in Batch |-> Cut(new[b], T)] = [b \in Batch |-> Cut(rows[b], T)]
  OBVIOUS
<1> QED
  BY <1>1 DEF Gone

(* The ledger with a row partly returned, or voided.                       *)
Marked(r, q) == [ledger EXCEPT ![r].back = @ + q]
Crossed(r)   == [ledger EXCEPT ![r].voided = TRUE]

LEMMA BooksMarked ==
  ASSUME IInv, NEW r \in 1 .. Len(ledger), NEW q \in Nat
  PROVE  /\ Marked(r, q) \in Seq(LedgerRow)
         /\ \A K, S : Books(Marked(r, q), K, S) = Books(ledger, K, S)
<1> DEFINE back == [ledger[r] EXCEPT !.back = ledger[r].back + q]
<1>1. ledger \in Seq(LedgerRow) /\ ledger[r] \in LedgerRow /\ ledger[r].back + q \in Nat
  BY ReadRow DEF IInv, TypeOK
<1>2. /\ back \in LedgerRow /\ back.voided = ledger[r].voided
      /\ back.kind = ledger[r].kind /\ back.sku = ledger[r].sku /\ back.qty = ledger[r].qty
  BY <1>1 DEF LedgerRow
<1>3. Marked(r, q) = [ledger EXCEPT ![r] = back]
  BY DEF Marked
<1> HIDE DEF back
<1>4. /\ Marked(r, q) \in Seq(LedgerRow) /\ Len(Marked(r, q)) = Len(ledger)
      /\ \A i \in (1 .. Len(ledger)) \ {r} : Marked(r, q)[i] = ledger[i]
      /\ Marked(r, q)[r] = back
  BY <1>1, <1>2, <1>3
<1>5. ASSUME NEW K, NEW S PROVE Books(Marked(r, q), K, S) = Books(ledger, K, S)
  <2>1. Books(Marked(r, q), K, S)
          = Books(ledger, K, S) + Counts(back, K, S) - Counts(ledger[r], K, S)
    BY <1>1, <1>4, BooksReplace
  <2>2. Counts(back, K, S) = Counts(ledger[r], K, S)
    BY <1>2 DEF Counts
  <2>3. Counts(ledger[r], K, S) \in Int /\ Books(ledger, K, S) \in Int
    BY <1>1, CountsType, BooksType
  <2> QED
    BY <2>1, <2>2, <2>3
<1> QED
  BY <1>4, <1>5

LEMMA BooksCrossed ==
  ASSUME IInv, NEW r \in 1 .. Len(ledger), NEW K, NEW S
  PROVE  Books(Crossed(r), K, S) = Books(ledger, K, S) - Counts(ledger[r], K, S)
<1> DEFINE void == [ledger[r] EXCEPT !.voided = TRUE]
<1>1. ledger \in Seq(LedgerRow) /\ ledger[r] \in LedgerRow
  BY ReadRow DEF IInv, TypeOK
<1>2. void \in LedgerRow /\ void.voided
  BY <1>1 DEF LedgerRow
<1>3. Crossed(r) = [ledger EXCEPT ![r] = void]
  BY DEF Crossed
<1> HIDE DEF void
<1>4. /\ Crossed(r) \in Seq(LedgerRow) /\ Len(Crossed(r)) = Len(ledger)
      /\ \A i \in (1 .. Len(ledger)) \ {r} : Crossed(r)[i] = ledger[i]
      /\ Crossed(r)[r] = void
  BY <1>1, <1>2, <1>3
<1>5. Books(Crossed(r), K, S)
        = Books(ledger, K, S) + Counts(void, K, S) - Counts(ledger[r], K, S)
  BY <1>1, <1>4, BooksReplace
<1>6. Counts(void, K, S) = 0 /\ Counts(ledger[r], K, S) \in Int /\ Books(ledger, K, S) \in Int
  BY <1>1, <1>2, CountsType, BooksType DEF Counts
<1> QED
  BY <1>5, <1>6

(* Every return to the supplier shows in the ledger.                       *)
LEMMA NoReturnToSupplier ==
  ASSUME IInv, NEW r \in 1 .. Len(ledger), NEW q \in Qty, ReturnToSupplier(r, q)
  PROVE  Seen({"purchase_return"})' # {}
<1> DEFINE marked == Marked(r, q)
           row == Row("purchase_return", -q, ledger[r].sku)
<1>1. ledger' = Append(marked, row) /\ marked \in Seq(LedgerRow)
  BY QtyIsNat, BooksMarked DEF ReturnToSupplier, Marked
<1>2. row.kind = "purchase_return"
  BY DEF Row
<1> HIDE DEF marked, row
<1>3. Len(ledger') \in 1 .. Len(ledger') /\ ledger'[Len(ledger')] = row
  BY <1>1
<1> QED
  BY <1>2, <1>3 DEF Seen

LEMMA CoveredPurchase ==
  ASSUME IInv, NEW b \in Batch, NEW sku \in Sku \cup {NoSku}, NEW label \in Label,
         NEW q \in Qty, NEW kind \in {"purchase", "offline_purchase"},
         Purchase(b, sku, label, q, kind), NEW S, NEW T
  PROVE  /\ Books(ledger', Sales, S) = Books(ledger, Sales, S)
         /\ Gone(batches', T) = Gone(batches, T)
<1> DEFINE tag == IF kind = "purchase" THEN label ELSE NoLabel
           row == [Row(kind, q, sku) EXCEPT !.label = tag]
<1>1. q \in Nat /\ tag \in Label \cup {NoLabel} /\ kind \in Kinds
  BY QtyIsNat DEF Kinds
<1>2. row \in LedgerRow /\ row.kind = kind
  <2>1. Row(kind, q, sku) \in LedgerRow /\ Row(kind, q, sku).kind = kind
    BY <1>1, RowTyped DEF Row
  <2> QED
    BY <1>1, <2>1 DEF LedgerRow
<1>3. ledger' = Append(ledger, row)
  BY DEF Purchase, Book
<1> HIDE DEF row
<1>4. Counts(row, Sales, S) = 0
  BY <1>2 DEF Counts, Sales
<1>5. ledger \in Seq(LedgerRow) /\ Books(ledger, Sales, S) \in Int
  BY BooksType DEF IInv, TypeOK
<1>6. Books(ledger', Sales, S) = Books(ledger, Sales, S)
  BY <1>2, <1>3, <1>4, <1>5, BooksAppend
<1>7. batches' = [batches EXCEPT ![b] = NewBatch(sku, tag, q)] /\ batches[b].status = "absent"
  BY DEF Purchase
<1>8. Cut(NewBatch(sku, tag, q), T) = 0 /\ Cut(batches[b], T) = 0
  BY <1>1, <1>7 DEF Cut, NewBatch, Rows
<1>9. \A c \in Batch : Cut(batches'[c], T) = Cut(batches[c], T)
  BY <1>7, <1>8 DEF IInv, Sound
<1> QED
  BY <1>6, <1>9, GoneSame

LEMMA CoveredStockOut ==
  ASSUME IInv, NEW sku \in Sku \cup {NoSku}, NEW q \in Qty,
         NEW kind \in {"sale", "pos_sale"}, StockOut(sku, q, kind),
         NEW S, NEW T, Scope(S, T), Covered(S, T)
  PROVE  Covered(S, T)'
<1>1. q \in Nat /\ kind \in Kinds /\ -q \in Int
  BY QtyIsNat DEF Kinds
<1>2. PICK part \in Parts(q) :
        IsConsumption(part, sku, q) /\ SumOf(part) = q /\ batches' = TakeOut(part)
  BY DEF StockOut
<1>3. part \in [Batch -> Nat] /\ Sound(batches)
  BY <1>1, <1>2, PartsAreNat DEF IInv
<1>4. \A b \in Batch : part[b] <= Remaining(b) /\ (b \notin Consumable => part[b] = 0)
  BY <1>1, <1>2, <1>3, ConsumptionWithinStock
<1>5. Gone(batches', T) = Gone(batches, T) + SumOf(On(part, T))
  BY <1>2, <1>3, <1>4, TakeOutGone DEF Consumable
<1>6. SumOf(On(part, T)) \in Nat
  BY <1>3, OnFacts
<1>7. ASSUME sku \in S PROVE SumOf(On(part, T)) = q
  <2>1. \A b \in Batch : part[b] <=
          (IF b \in (OfSku(sku) \cap Consumable) \cup (Unowned \cap Consumable)
           THEN Remaining(b) ELSE 0)
    BY <1>1, <1>2, PartsAreNat DEF IsConsumption, IsSplit
  <2>2. \A b \in Batch : part[b] # 0 => b \in OfSku(sku) \cup Unowned
    BY <1>3, <2>1
  <2>3. \A b \in Batch : part[b] # 0 => batches[b].sku \in T
    <3>1. CASE S = AnySku /\ T = AnySku
      BY <1>3, <3>1 DEF AnySku, Sound, BatchRow
    <3>2. CASE \E s \in Sku : S = {s} /\ T = {s, NoSku}
      BY <1>7, <2>2, <3>2, StockConstants DEF OfSku, Unowned
    <3> QED
      BY <3>1, <3>2 DEF Scope
  <2> QED
    BY <1>2, <1>3, <2>3, OnFacts
<1>8. ledger' = Append(ledger, Row(kind, -q, sku)) /\ Row(kind, -q, sku) \in LedgerRow
  BY <1>1, RowTyped DEF StockOut, Book
<1>9. Counts(Row(kind, -q, sku), Sales, S) = IF sku \in S THEN -q ELSE 0
  BY DEF Counts, Row, Sales
<1>10. ledger \in Seq(LedgerRow) /\ Books(ledger, Sales, S) \in Int /\ Gone(batches, T) \in Int
  BY BooksType, GoneType DEF IInv, TypeOK
<1>11. Books(ledger', Sales, S) = Books(ledger, Sales, S) + (IF sku \in S THEN -q ELSE 0)
  BY <1>8, <1>9, <1>10, BooksAppend
<1>12. -Books(ledger', Sales, S) <= Gone(batches', T)
  BY <1>1, <1>5, <1>6, <1>7, <1>10, <1>11 DEF Covered
<1> QED
  BY <1>12 DEF Covered

LEMMA CoveredRefund ==
  ASSUME IInv, NEW r \in 1 .. Len(ledger), NEW q \in Qty, NEW returned \in BOOLEAN,
         Refund(r, q, returned),
         NEW S, NEW T, Scope(S, T), Premise(S)', Covered(S, T)
  PROVE  Covered(S, T)'
<1> DEFINE sku == ledger[r].sku
           marked == Marked(r, q)
           row == Row("refund", IF returned THEN q ELSE 0, sku)
<1>1. q \in Nat /\ sku \in Sku \cup {NoSku}
  BY QtyIsNat, ReadRow
<1>2. row \in LedgerRow /\ row.kind \in Sales /\ row.sku = sku
      /\ Counts(row, Sales, S) = IF sku \in S /\ returned THEN q ELSE 0
  BY <1>1, RowTyped DEF Counts, Row, Sales, Kinds
<1>3. marked \in Seq(LedgerRow) /\ Books(marked, Sales, S) = Books(ledger, Sales, S)
  BY <1>1, BooksMarked
<1>4. ledger' = Append(marked, row)
  BY DEF Refund, Marked
<1> HIDE DEF marked, row
<1>5. Books(ledger, Sales, S) \in Int /\ Gone(batches, T) \in Int
  BY BooksType, GoneType DEF IInv, TypeOK, Sound
<1>6. Books(ledger', Sales, S)
        = Books(ledger, Sales, S) + (IF sku \in S /\ returned THEN q ELSE 0)
  BY <1>2, <1>3, <1>4, BooksAppend
<1>7. S = AnySku \/ sku \in Sku
  <2>1. S = AnySku \/ sku # NoSku
    BY <1>2, <1>3, <1>4, NewRowOwned
  <2> QED
    BY <1>1, <2>1
<1>8. CASE ~returned
  <2>1. batches' = batches
    BY <1>8 DEF Refund
  <2> QED
    BY <1>5, <1>6, <1>8, <2>1 DEF Covered
<1>9. CASE returned
  <2>1. PICK part \in Parts(q), surplus \in 0 .. q :
          /\ IsRestoration(part, sku, q)
          /\ \/ batches' = PutBack(part)
             \/ \E b \in Batch :
                  /\ batches[b].status = "absent"
                  /\ batches' = [PutBack(part) EXCEPT
                                   ![b] = NewBatch(sku, NoLabel, surplus)]
    BY <1>9 DEF Refund
  <2>2. /\ Gone(PutBack(part), T) = Gone(batches, T) - SumOf(On(part, T))
        /\ SumOf(On(part, T)) \in Nat /\ SumOf(On(part, T)) <= q
        /\ sku \notin S => SumOf(On(part, T)) = 0
    BY <1>1, <1>7, <2>1, RestorationGone
  <2>3. Gone(batches', T) = Gone(PutBack(part), T)
    <3>1. ASSUME NEW b \in Batch, batches[b].status = "absent",
                 batches' = [PutBack(part) EXCEPT ![b] = NewBatch(sku, NoLabel, surplus)]
          PROVE  \A c \in Batch : Cut(batches'[c], T) = Cut(PutBack(part)[c], T)
      <4>1. PutBack(part)[b].status = "absent"
        BY <3>1, PartKeepsStatus
      <4>2. Cut(NewBatch(sku, NoLabel, surplus), T) = 0 /\ Cut(PutBack(part)[b], T) = 0
        BY <1>1, <4>1 DEF Cut, NewBatch, Rows
      <4> QED
        BY <3>1, <4>2 DEF PutBack
    <3> QED
      BY <2>1, <3>1, GoneSame
  <2>4. -Books(ledger', Sales, S) <= Gone(batches', T)
    BY <1>1, <1>5, <1>6, <1>9, <2>2, <2>3 DEF Covered
  <2> QED
    BY <2>4 DEF Covered
<1> QED
  BY <1>8, <1>9

(* Cutting a purchase down leaves what is gone of it.                      *)
LEMMA UndoPurchaseGone ==
  ASSUME IInv, NEW label, UndoPurchase(label), NEW T
  PROVE  Gone(batches', T) = Gone(batches, T)
<1>1. CASE Labelled(label) = {}
  BY <1>1, GoneSame DEF UndoPurchase
<1>2. CASE Labelled(label) # {}
  <2>1. PICK b \in Labelled(label) :
          batches' = [batches EXCEPT ![b] =
            IF Consumed(b) = 0 THEN Deleted
            ELSE [batches[b] EXCEPT !.purchased = Consumed(b), !.remaining = 0]]
    BY <1>2 DEF UndoPurchase
  <2> DEFINE cut == [batches[b] EXCEPT !.purchased = Consumed(b), !.remaining = 0]
  <2>2. b \in Batch /\ batches[b] \in BatchRow /\ batches[b].status \in Rows
    BY DEF Labelled, Existing, IInv, Sound
  <2>3. cut.status = batches[b].status /\ cut.sku = batches[b].sku
        /\ cut.purchased = Consumed(b) /\ cut.remaining = 0
    BY <2>2 DEF BatchRow
  <2>4. Consumed(b) = batches[b].purchased - batches[b].remaining /\ Consumed(b) \in Int
    BY <2>2 DEF Consumed, BatchRow
  <2> HIDE DEF cut
  <2>5. Cut(cut, T) = Cut(batches[b], T)
    BY <2>3, <2>4 DEF Cut
  <2>6. Consumed(b) = 0 => Cut(Deleted, T) = Cut(batches[b], T)
    BY <2>2, <2>4 DEF Cut, Deleted, Absent, Rows
  <2>7. Cut(batches'[b], T) = Cut(batches[b], T)
    BY <2>1, <2>2, <2>5, <2>6 DEF cut, IInv, Sound
  <2>8. \A c \in Batch : Cut(batches'[c], T) = Cut(batches[c], T)
    BY <2>1, <2>2, <2>7 DEF IInv, Sound
  <2> QED
    BY <2>8, GoneSame
<1> QED
  BY <1>1, <1>2

LEMMA CoveredVoid ==
  ASSUME IInv, NEW r \in 1 .. Len(ledger), Void(r),
         NEW S, NEW T, Scope(S, T), Premise(S)', Covered(S, T)
  PROVE  Covered(S, T)'
<1> DEFINE row == ledger[r]
<1>1. row \in LedgerRow /\ row.qty \in Int /\ row.sku \in AnySku /\ ~row.voided
  BY ReadRow DEF Void, AnySku
<1>2. Books(ledger', Sales, S) = Books(ledger, Sales, S) - Counts(row, Sales, S)
  BY BooksCrossed DEF Void, Crossed
<1>3. Books(ledger, Sales, S) \in Int /\ Gone(batches, T) \in Int
  BY BooksType, GoneType DEF IInv, TypeOK, Sound
<1>4. r \in 1 .. Len(ledger') /\ ledger'[r].kind = row.kind /\ ledger'[r].voided
  BY <1>1 DEF Void, IInv, TypeOK
<1>5. CASE row.kind \in {"purchase", "offline_purchase", "purchase_return", "recall"}
  <2>1. Counts(row, Sales, S) = 0
    BY <1>5 DEF Counts, Sales
  <2>2. Gone(batches', T) = Gone(batches, T)
    BY <1>5, UndoPurchaseGone, GoneSame DEF Void
  <2> QED
    BY <1>2, <1>3, <2>1, <2>2 DEF Covered
<1>6. CASE row.kind = "destroy"
  BY <1>4, <1>6 DEF Premise, Plain, Voided, Seen
<1>7. CASE row.kind = "sale"
  <2>1. S = AnySku
    BY <1>4, <1>7 DEF Premise, Owned, Seen, Sales
  <2>2. Counts(row, Sales, S) = row.qty
    BY <1>1, <1>7, <2>1 DEF Counts, Sales
  <2>3. -row.qty \in Int
    BY <1>1
  <2>4. PICK part \in Parts(-row.qty) :
          IsRestoration(part, NoSku, -row.qty) /\ batches' = PutBack(part)
    BY <1>7 DEF Void, UndoStockOut
  <2>5. /\ Gone(PutBack(part), T) = Gone(batches, T) - SumOf(On(part, T))
        /\ SumOf(On(part, T)) \in Nat /\ SumOf(On(part, T)) <= -row.qty
    BY <2>1, <2>3, <2>4, RestorationGone
  <2> QED
    BY <1>1, <1>2, <1>3, <2>2, <2>4, <2>5 DEF Covered
<1> QED
  BY <1>5, <1>6, <1>7 DEF Void

LEMMA CoveredCommit ==
  ASSUME IInv, NEW i \in Inspectors, CommitInspection(i), NEW S, NEW T
  PROVE  /\ Books(ledger', Sales, S) = Books(ledger, Sales, S)
         /\ Gone(batches', T) = Gone(batches, T)
<1> DEFINE req == inspections[i]
           row == [Row(req.op, -req.seen, batches[req.batch].sku) EXCEPT !.of = req.batch]
<1>1. /\ req.op \in FoodSafetyOps /\ req.batch \in Batch /\ req.seen \in Nat
      /\ batches[req.batch] \in BatchRow /\ batches[req.batch].status \in Rows
  BY DEF CommitInspection, IInv, TypeOK, Inspection, Sound
<1>2. Books(ledger', Sales, S) = Books(ledger, Sales, S)
  <2>1. CASE req.op \in {"recall", "destroy"} /\ req.seen > 0
    <3>1. Row(req.op, -req.seen, batches[req.batch].sku) \in LedgerRow
      BY <1>1, <2>1, RowTyped DEF Kinds, BatchRow
    <3>2. row \in LedgerRow /\ row.kind = req.op
      BY <1>1, <3>1 DEF LedgerRow, Row
    <3>3. ledger' = Append(ledger, row)
      BY <2>1 DEF CommitInspection, Book
    <3> HIDE DEF row
    <3>4. Counts(row, Sales, S) = 0
      BY <2>1, <3>2 DEF Counts, Sales
    <3>5. ledger \in Seq(LedgerRow) /\ Books(ledger, Sales, S) \in Int
      BY BooksType DEF IInv, TypeOK
    <3> QED
      BY <3>2, <3>3, <3>4, <3>5, BooksAppend
  <2>2. CASE ~(req.op \in {"recall", "destroy"} /\ req.seen > 0)
    BY <2>2 DEF CommitInspection
  <2> QED
    BY <2>1, <2>2
<1>3. \A b \in Batch : Cut(batches'[b], T) = Cut(batches[b], T)
  <2>1. Target[req.op] \in Rows
    BY <1>1 DEF Target, Rows, FoodSafetyOps
  <2>2. batches' = [batches EXCEPT ![req.batch].status = Target[req.op]]
    BY DEF CommitInspection
  <2> QED
    BY <1>1, <2>1, <2>2 DEF Cut, IInv, Sound, BatchRow
<1> QED
  BY <1>2, <1>3, GoneSame

LEMMA CoveredStep ==
  ASSUME IInv, [Next]_vars, NEW S, NEW T, Scope(S, T), Premise(S)', Covered(S, T)
  PROVE  Covered(S, T)'
<1>1. CASE UNCHANGED <<batches, ledger>>
  BY <1>1 DEF Covered
<1>2. ASSUME NEW r \in 1 .. Len(ledger), NEW q \in Qty, ReturnToSupplier(r, q) PROVE FALSE
  BY <1>2, NoReturnToSupplier DEF Premise, Plain
<1>3. ASSUME NEW b \in Batch, NEW sku \in Sku \cup {NoSku}, NEW label \in Label,
             NEW q \in Qty, NEW kind \in {"purchase", "offline_purchase"},
             Purchase(b, sku, label, q, kind)
      PROVE  Covered(S, T)'
  BY <1>3, CoveredPurchase DEF Covered
<1>4. ASSUME NEW i \in Inspectors, CommitInspection(i)
      PROVE  Covered(S, T)'
  BY <1>4, CoveredCommit DEF Covered
<1>5. CASE Next
  BY <1>1, <1>2, <1>3, <1>4, <1>5, CoveredStockOut, CoveredRefund, CoveredVoid
  DEF Next, Inspect, RejectInspection
<1> QED
  BY <1>1, <1>5 DEF vars

CoverInv ==
  \A S, T \in SUBSET AnySku : Scope(S, T) /\ Premise(S) => Covered(S, T)

LEMMA InitCover == Init => CoverInv
<1> SUFFICES ASSUME Init, NEW S, NEW T PROVE Covered(S, T)
  BY DEF CoverInv
<1>1. Books(ledger, Sales, S) = 0
  <2> DEFINE f == [r \in 1 .. Len(ledger) |-> Counts(ledger[r], Sales, S)]
  <2>1. 1 .. Len(ledger) = {}
    BY DEF Init
  <2>2. f \in [{} -> Int]
    BY <2>1
  <2> HIDE DEF f
  <2>3. SumOf(f) = 0
    BY <2>2, SumEmpty
  <2> QED
    BY <2>3 DEF f, Books
<1>2. Gone(batches, T) = 0
  <2> DEFINE f == [b \in Batch |-> Cut(batches[b], T)]
  <2>1. \A b \in Batch : Cut(batches[b], T) = 0
    BY DEF Init, Absent, Cut, Rows
  <2>2. f \in [Batch -> Int] /\ \A b \in Batch : f[b] = 0
    BY <2>1
  <2> HIDE DEF f
  <2>3. SumOf(f) = 0
    BY <2>2, StockConstants, SumZero
  <2> QED
    BY <2>3 DEF f, Gone
<1> QED
  BY <1>1, <1>2 DEF Covered

LEMMA NextCover == IInv /\ CoverInv /\ [Next]_vars => CoverInv'
<1> SUFFICES ASSUME IInv, CoverInv, [Next]_vars,
                    NEW S \in SUBSET AnySku, NEW T \in SUBSET AnySku,
                    Scope(S, T), Premise(S)'
             PROVE  Covered(S, T)'
  BY DEF CoverInv, Scope
<1>1. Premise(S)
  BY PremiseBefore
<1> QED
  BY <1>1, CoveredStep DEF CoverInv

(* The sums of the properties, and those of the proof.                     *)
LEMMA BookStockIs ==
  ASSUME IInv, NEW K
  PROVE  BookStock(K) = Books(ledger, K, AnySku)
<1> DEFINE R == 1 .. Len(ledger)
           f == [r \in R |-> Counts(ledger[r], K, AnySku)]
           g == [r \in Live(K) |-> ledger[r].qty]
<1>1. IsFiniteSet(R) /\ f \in [R -> Int]
  <2>1. ledger \in Seq(LedgerRow)
    BY DEF IInv, TypeOK
  <2> QED
    BY <2>1, BooksType
<1>2. \A r \in R : ledger[r].sku \in AnySku
  BY ReadRow DEF AnySku
<1>3. Live(K) \in SUBSET R /\ \A r \in R \ Live(K) : f[r] = 0
  BY DEF Live, Counts
<1>4. [r \in Live(K) |-> f[r]] = g
  BY <1>2, <1>3 DEF Live, Counts
<1>5. SumOf(f) = SumOf([r \in Live(K) |-> f[r]])
  <2> HIDE DEF f, R
  <2> QED
    BY <1>1, <1>3, SumSupport
<1>6. BookStock(K) = SumOf(g)
  BY DEF BookStock, Sum
<1> QED
  BY <1>4, <1>5, <1>6 DEF Books

LEMMA SkuStockIs ==
  ASSUME IInv, Owned, NEW s \in Sku
  PROVE  Sum(LAMBDA r : ledger[r].qty, {r \in Seen(Sales) : ledger[r].sku = s})
           = Books(ledger, Sales, {s})
<1> DEFINE R == 1 .. Len(ledger)
           L == {r \in Seen(Sales) : ledger[r].sku = s}
           f == [r \in R |-> Counts(ledger[r], Sales, {s})]
           g == [r \in L |-> ledger[r].qty]
<1>1. IsFiniteSet(R) /\ f \in [R -> Int]
  <2>1. ledger \in Seq(LedgerRow)
    BY DEF IInv, TypeOK
  <2> QED
    BY <2>1, BooksType
<1>2. L \in SUBSET R /\ \A r \in R \ L : f[r] = 0
  BY DEF Seen, Counts
<1>3. [r \in L |-> f[r]] = g
  BY DEF Seen, Owned, Counts
<1>4. SumOf(f) = SumOf([r \in L |-> f[r]])
  <2> HIDE DEF f, R, L
  <2> QED
    BY <1>1, <1>2, SumSupport
<1>5. Sum(LAMBDA r : ledger[r].qty, L) = SumOf(g)
  BY DEF Sum
<1> QED
  BY <1>3, <1>4, <1>5 DEF Books

LEMMA GoneIs ==
  ASSUME IInv, NEW T, NEW pool, pool = {b \in Existing : batches[b].sku \in T}
  PROVE  Sum(Consumed, pool) = Gone(batches, T)
<1> DEFINE f == [b \in Batch |-> Cut(batches[b], T)]
           g == [b \in pool |-> Consumed(b)]
<1>1. f \in [Batch -> Int]
  BY GoneType DEF IInv, Sound
<1>2. pool \in SUBSET Batch /\ \A b \in Batch \ pool : f[b] = 0
  BY DEF Existing, Cut
<1>3. [b \in pool |-> f[b]] = g
  BY DEF Existing, Cut, Consumed
<1>4. SumOf(f) = SumOf([b \in pool |-> f[b]])
  <2> HIDE DEF f
  <2> QED
    BY <1>1, <1>2, StockConstants, SumSupport
<1>5. Sum(Consumed, pool) = SumOf(g)
  BY DEF Sum
<1> QED
  BY <1>3, <1>4, <1>5 DEF Gone

(* Whatever sales, voids, refunds and food safety work follow one another, *)
(* what the batches count as consumed covers what the ledger says is gone: *)
(* no goods come back twice.                                               *)
THEOREM SoldGoodsCoveredHolds == Spec => []SoldGoodsCovered
<1>1. IInv /\ CoverInv => SoldGoodsCovered
  <2> SUFFICES ASSUME IInv, CoverInv, Plain PROVE NetSold <= Sum(Consumed, Existing)
    BY DEF SoldGoodsCovered
  <2>1. Covered(AnySku, AnySku)
    BY DEF CoverInv, Scope, Premise
  <2>2. BookStock(Sales) = Books(ledger, Sales, AnySku) /\ NetSold = -BookStock(Sales)
    BY BookStockIs DEF NetSold, Sales
  <2>3. Existing = {b \in Existing : batches[b].sku \in AnySku}
    BY DEF Existing, IInv, Sound, BatchRow, AnySku
  <2>4. Sum(Consumed, Existing) = Gone(batches, AnySku)
    BY <2>3, GoneIs
  <2> QED
    BY <2>1, <2>2, <2>4 DEF Covered
<1> QED
  BY <1>1, InitIInv, NextIInv, InitCover, NextCover, PTL DEF Spec

(* A customer's return never takes up the goods of another SKU: what was   *)
(* sold of each stays covered by what its own and the unowned batches have *)
(* given.                                                                  *)
THEOREM SkuSoldCoveredHolds == Spec => []SkuSoldCovered
<1>1. IInv /\ CoverInv => SkuSoldCovered
  <2> SUFFICES ASSUME IInv, CoverInv, Plain, Owned, NEW s \in Sku
               PROVE  -Sum(LAMBDA r : ledger[r].qty, {r \in Seen(Sales) : ledger[r].sku = s})
                        <= Sum(Consumed, OfSku(s) \cup Unowned)
    BY DEF SkuSoldCovered
  <2>1. Covered({s}, {s, NoSku})
    <3>1. {s} \in SUBSET AnySku /\ {s, NoSku} \in SUBSET AnySku
      BY DEF AnySku
    <3> QED
      BY <3>1 DEF CoverInv, Scope, Premise
  <2>2. OfSku(s) \cup Unowned = {b \in Existing : batches[b].sku \in {s, NoSku}}
    BY StockConstants DEF OfSku, Unowned
  <2>3. Sum(Consumed, OfSku(s) \cup Unowned) = Gone(batches, {s, NoSku})
    BY <2>2, GoneIs
  <2> QED
    BY <2>1, <2>3, SkuStockIs DEF Covered
<1> QED
  BY <1>1, InitIInv, NextIInv, InitCover, NextCover, PTL DEF Spec

-----------------------------------------------------------------------------
(* No phantom stock *)

Goods == Kinds \ {"destroy"}

Trusted == Seen({"purchase_return"}) = {} /\ Voided(Kinds \ {"sale"}) = {}

(* What an inspector has read of a batch he recalls is still there: nobody *)
(* sells from it meanwhile.                                                *)
RecallFinds ==
  \A i \in Inspectors :
    inspections[i] # Idle /\ inspections[i].op = "recall"
      /\ batches[inspections[i].batch].status = "locked"
      => inspections[i].seen <= batches[inspections[i].batch].remaining

Backed == Held(batches) <= Books(ledger, Goods, AnySku)

PhantomInv == Trusted => Backed /\ RecallFinds

LEMMA TrustedBefore ==
  ASSUME IInv, [Next]_vars, Trusted'
  PROVE  Trusted
<1>1. \A r \in 1 .. Len(ledger) :
        /\ r \in 1 .. Len(ledger') /\ ledger'[r].kind = ledger[r].kind
        /\ ledger[r].voided => ledger'[r].voided
  BY LedgerGrows
<1> QED
  BY <1>1 DEF Trusted, Seen, Voided

LEMMA HeldPutBack ==
  ASSUME Sound(batches), NEW part \in [Batch -> Nat],
         \A b \in Batch : /\ part[b] <= Consumed(b)
                          /\ b \notin Existing \ Pulled => part[b] = 0
  PROVE  Held(PutBack(part)) = Held(batches) + SumOf(part)
<1> DEFINE f == [b \in Batch |-> Stock(batches[b])]
           h == [b \in Batch |-> Stock(PutBack(part)[b])]
<1>1. f \in [Batch -> Int] /\ h \in [Batch -> Int] /\ part \in [Batch -> Int]
  BY PutBackSound, HeldType DEF Sound
<1>2. ASSUME NEW b \in Batch PROVE h[b] = f[b] + part[b]
  BY DEF Stock, PutBack, Existing, Pulled, Rows, Sound, BatchRow
<1> HIDE DEF f, h
<1>3. SumOf(h) = SumOf(f) + SumOf(part)
  BY <1>1, <1>2, StockConstants, SumPlus
<1> QED
  BY <1>3 DEF f, h, Held

LEMMA HeldTakeOut ==
  ASSUME Sound(batches), NEW part \in [Batch -> Nat],
         \A b \in Batch : /\ part[b] <= Remaining(b)
                          /\ b \notin Consumable => part[b] = 0
  PROVE  Held(TakeOut(part)) = Held(batches) - SumOf(part)
<1> DEFINE f == [b \in Batch |-> Stock(batches[b])]
           h == [b \in Batch |-> Stock(TakeOut(part)[b])]
<1>1. f \in [Batch -> Int] /\ h \in [Batch -> Int] /\ part \in [Batch -> Int]
  BY TakeOutSound, HeldType DEF Sound
<1>2. ASSUME NEW b \in Batch PROVE f[b] = h[b] + part[b]
  BY DEF Stock, TakeOut, Consumable, Existing, Rows, Sound, BatchRow
<1>3. SumOf(part) \in Int /\ Held(TakeOut(part)) \in Int
  BY <1>1, TakeOutSound, HeldType, StockConstants, SumInt DEF Sound
<1> HIDE DEF f, h
<1>4. SumOf(f) = SumOf(h) + SumOf(part)
  BY <1>1, <1>2, StockConstants, SumPlus
<1>5. SumOf(h) \in Int
  BY <1>3 DEF h, Held
<1>6. SumOf(h) = SumOf(f) - SumOf(part)
  BY <1>3, <1>4, <1>5
<1> QED
  BY <1>6 DEF f, h, Held

LEMMA HeldReplace ==
  ASSUME NEW rows \in [Batch -> BatchRow], NEW new \in [Batch -> BatchRow],
         NEW b \in Batch, \A c \in Batch \ {b} : new[c] = rows[c]
  PROVE  Held(new) = Held(rows) + Stock(new[b]) - Stock(rows[b])
<1> DEFINE f == [c \in Batch |-> Stock(rows[c])]
           g == [c \in Batch |-> Stock(new[c])]
<1>1. f \in [Batch -> Int] /\ g \in [Batch -> Int]
  BY HeldType
<1>2. f[b] = Stock(rows[b]) /\ g[b] = Stock(new[b]) /\ \A c \in Batch \ {b} : f[c] = g[c]
  OBVIOUS
<1> HIDE DEF f, g
<1>3. SumOf(g) = SumOf(f) + g[b] - f[b]
  BY <1>1, <1>2, StockConstants, SumUpdate
<1> QED
  BY <1>2, <1>3 DEF f, g, Held

(* What a void or a customer return puts back.                             *)
LEMMA RestorationHeld ==
  ASSUME IInv, NEW q \in Int, NEW part \in Parts(q), NEW sku \in AnySku,
         IsRestoration(part, sku, q)
  PROVE  /\ Held(PutBack(part)) = Held(batches) + SumOf(part)
         /\ SumOf(part) \in Nat /\ SumOf(part) <= q
<1>1. part \in [Batch -> Nat] /\ Sound(batches)
  BY PartsAreNat DEF IInv
<1>2. \A b \in Batch : part[b] <= (IF b \in OfSku(sku) \ Pulled THEN Consumed(b) ELSE 0)
  BY PartsAreNat DEF IsRestoration, IsSplit
<1>3. \A b \in Batch : part[b] \in Nat /\ Consumed(b) \in Nat /\ part[b] <= Consumed(b)
  BY <1>1, RestorationWithinConsumed DEF Sound, Consumed, BatchRow
<1>4. \A b \in Batch : b \notin Existing \ Pulled => part[b] = 0
  BY <1>2, <1>3 DEF OfSku
<1>5. Scope(AnySku, AnySku)
  BY DEF Scope
<1>6. SumOf(On(part, AnySku)) \in Nat /\ SumOf(On(part, AnySku)) <= q
  BY <1>5, RestorationGone
<1>7. \A b \in Batch : batches[b].sku \in AnySku
  BY <1>1 DEF Sound, BatchRow, AnySku
<1>8. SumOf(On(part, AnySku)) = SumOf(part)
  BY <1>1, <1>7, OnFacts
<1> QED
  BY <1>1, <1>3, <1>4, <1>6, <1>8, HeldPutBack

LEMMA BackedPurchase ==
  ASSUME IInv, NEW b \in Batch, NEW sku \in Sku \cup {NoSku}, NEW label \in Label,
         NEW q \in Qty, NEW kind \in {"purchase", "offline_purchase"},
         Purchase(b, sku, label, q, kind), Backed
  PROVE  Backed'
<1> DEFINE tag == IF kind = "purchase" THEN label ELSE NoLabel
           row == [Row(kind, q, sku) EXCEPT !.label = tag]
<1>1. q \in Nat /\ tag \in Label \cup {NoLabel} /\ kind \in Kinds
  BY QtyIsNat DEF Kinds
<1>2. row \in LedgerRow /\ row.kind = kind /\ row.qty = q /\ row.sku = sku /\ ~row.voided
  <2>1. /\ Row(kind, q, sku) \in LedgerRow /\ Row(kind, q, sku).kind = kind
        /\ Row(kind, q, sku).qty = q /\ Row(kind, q, sku).sku = sku
        /\ ~Row(kind, q, sku).voided
    BY <1>1, RowTyped DEF Row
  <2> QED
    BY <1>1, <2>1 DEF LedgerRow
<1>3. ledger' = Append(ledger, row)
  BY DEF Purchase, Book
<1> HIDE DEF row
<1>4. Counts(row, Goods, AnySku) = q
  BY <1>1, <1>2 DEF Counts, Goods, AnySku
<1>5. ledger \in Seq(LedgerRow) /\ Books(ledger, Goods, AnySku) \in Int
  BY BooksType DEF IInv, TypeOK
<1>6. Books(ledger', Goods, AnySku) = Books(ledger, Goods, AnySku) + q
  BY <1>2, <1>3, <1>4, <1>5, BooksAppend
<1>7. batches' = [batches EXCEPT ![b] = NewBatch(sku, tag, q)] /\ batches[b].status = "absent"
  BY DEF Purchase
<1>8. Stock(NewBatch(sku, tag, q)) = q /\ Stock(batches[b]) = 0
  BY <1>7 DEF Stock, NewBatch
<1>9. batches \in [Batch -> BatchRow] /\ batches' \in [Batch -> BatchRow]
  BY <1>1, <1>7, NewBatchSound DEF IInv, Sound
<1>10. Held(batches) \in Int
  BY <1>9, HeldType
<1>11. batches'[b] = NewBatch(sku, tag, q) /\ \A c \in Batch \ {b} : batches'[c] = batches[c]
  BY <1>7, <1>9
<1>12. Held(batches') = Held(batches) + Stock(batches'[b]) - Stock(batches[b])
  BY <1>9, <1>11, HeldReplace
<1> QED
  BY <1>1, <1>5, <1>6, <1>8, <1>10, <1>11, <1>12 DEF Backed

LEMMA BackedStockOut ==
  ASSUME IInv, NEW sku \in Sku \cup {NoSku}, NEW q \in Qty,
         NEW kind \in {"sale", "pos_sale"}, StockOut(sku, q, kind), Backed
  PROVE  Backed'
<1>1. q \in Nat /\ kind \in Kinds /\ kind \in Goods /\ -q \in Int
  BY QtyIsNat DEF Kinds, Goods
<1>2. PICK part \in Parts(q) :
        IsConsumption(part, sku, q) /\ SumOf(part) = q /\ batches' = TakeOut(part)
  BY DEF StockOut
<1>3. part \in [Batch -> Nat] /\ Sound(batches)
  BY <1>1, <1>2, PartsAreNat DEF IInv
<1>4. Held(batches') = Held(batches) - q
  BY <1>1, <1>2, <1>3, ConsumptionWithinStock, HeldTakeOut
<1>5. ledger' = Append(ledger, Row(kind, -q, sku)) /\ Row(kind, -q, sku) \in LedgerRow
  BY <1>1, RowTyped DEF StockOut, Book
<1>6. Counts(Row(kind, -q, sku), Goods, AnySku) = -q
  BY <1>1 DEF Counts, Row, AnySku
<1>7. /\ ledger \in Seq(LedgerRow) /\ Books(ledger, Goods, AnySku) \in Int
      /\ Held(batches) \in Int
  BY <1>3, BooksType, HeldType DEF IInv, TypeOK, Sound
<1>8. Books(ledger', Goods, AnySku) = Books(ledger, Goods, AnySku) - q
  BY <1>1, <1>5, <1>6, <1>7, BooksAppend
<1> QED
  BY <1>1, <1>4, <1>7, <1>8 DEF Backed

LEMMA BackedRefund ==
  ASSUME IInv, NEW r \in 1 .. Len(ledger), NEW q \in Qty, NEW returned \in BOOLEAN,
         Refund(r, q, returned), Backed
  PROVE  Backed'
<1> DEFINE sku == ledger[r].sku
           marked == Marked(r, q)
           row == Row("refund", IF returned THEN q ELSE 0, sku)
<1>1. q \in Nat /\ sku \in Sku \cup {NoSku} /\ sku \in AnySku
  BY QtyIsNat, ReadRow DEF AnySku
<1>2. row \in LedgerRow /\ Counts(row, Goods, AnySku) = IF returned THEN q ELSE 0
  BY <1>1, RowTyped DEF Counts, Row, Goods, Kinds
<1>3. marked \in Seq(LedgerRow) /\ Books(marked, Goods, AnySku) = Books(ledger, Goods, AnySku)
  BY <1>1, BooksMarked
<1>4. ledger' = Append(marked, row)
  BY DEF Refund, Marked
<1> HIDE DEF marked, row
<1>5. /\ Books(ledger, Goods, AnySku) \in Int /\ Held(batches) \in Int
      /\ Sound(batches) /\ batches \in [Batch -> BatchRow]
  BY BooksType, HeldType DEF IInv, TypeOK, Sound
<1>6. Books(ledger', Goods, AnySku)
        = Books(ledger, Goods, AnySku) + (IF returned THEN q ELSE 0)
  BY <1>2, <1>3, <1>4, BooksAppend
<1>7. CASE ~returned
  <2>1. batches' = batches
    BY <1>7 DEF Refund
  <2> QED
    BY <1>5, <1>6, <1>7, <2>1 DEF Backed
<1>8. CASE returned
  <2>1. PICK part \in Parts(q), surplus \in 0 .. q :
          /\ IsRestoration(part, sku, q)
          /\ SumOf(part) + surplus = q
          /\ \/ surplus = 0 /\ batches' = PutBack(part)
             \/ \E b \in Batch :
                  /\ batches[b].status = "absent"
                  /\ batches' = [PutBack(part) EXCEPT
                                   ![b] = NewBatch(sku, NoLabel, surplus)]
    BY <1>8 DEF Refund
  <2>2. Held(PutBack(part)) = Held(batches) + SumOf(part) /\ SumOf(part) \in Nat
    BY <1>1, <2>1, RestorationHeld
  <2>3. Held(batches') = Held(batches) + q
    <3>1. CASE surplus = 0 /\ batches' = PutBack(part)
      BY <2>1, <2>2, <3>1
    <3>2. ASSUME NEW b \in Batch, batches[b].status = "absent",
                 batches' = [PutBack(part) EXCEPT ![b] = NewBatch(sku, NoLabel, surplus)]
          PROVE  Held(batches') = Held(batches) + q
      <4>1. Sound(PutBack(part)) /\ surplus \in Nat
        BY <1>1, <1>5, <2>1, PartsAreNat, RestorationWithinConsumed, PutBackSound
      <4>2. Sound(batches')
        BY <1>1, <3>2, <4>1, NewBatchSound
      <4>3. PutBack(part)[b].status = "absent"
        BY <3>2, PartKeepsStatus
      <4>4. /\ batches'[b] = NewBatch(sku, NoLabel, surplus)
            /\ \A c \in Batch \ {b} : batches'[c] = PutBack(part)[c]
        BY <3>2, <4>1 DEF Sound
      <4>5. Stock(batches'[b]) = surplus /\ Stock(PutBack(part)[b]) = 0
        BY <4>3, <4>4 DEF Stock, NewBatch
      <4>6. Held(batches') = Held(PutBack(part)) + Stock(batches'[b]) - Stock(PutBack(part)[b])
        BY <4>1, <4>2, <4>4, HeldReplace DEF Sound
      <4> QED
        BY <1>1, <1>5, <2>1, <2>2, <4>1, <4>5, <4>6
    <3> QED
      BY <2>1, <3>1, <3>2
  <2> QED
    BY <1>1, <1>5, <1>6, <1>8, <2>3 DEF Backed
<1> QED
  BY <1>7, <1>8

LEMMA VoidedAfter ==
  ASSUME IInv, NEW r \in 1 .. Len(ledger), Void(r), Trusted'
  PROVE  ledger[r].kind = "sale"
<1>1. ledger[r] \in LedgerRow /\ ledger \in Seq(LedgerRow)
  BY ReadRow DEF IInv, TypeOK
<1>2. /\ r \in 1 .. Len(ledger') /\ ledger'[r].kind = ledger[r].kind
      /\ ledger'[r].voided /\ ledger[r].kind \in Kinds
  BY <1>1 DEF Void, LedgerRow
<1> QED
  BY <1>2 DEF Trusted, Voided, Seen

LEMMA BackedVoid ==
  ASSUME IInv, NEW r \in 1 .. Len(ledger), Void(r), Trusted', Backed
  PROVE  Backed'
<1> DEFINE row == ledger[r]
<1>1. row \in LedgerRow /\ row.qty \in Int /\ row.sku \in AnySku /\ ~row.voided
  BY ReadRow DEF Void, AnySku
<1>2. row.kind = "sale"
  BY VoidedAfter
<1>3. Books(ledger', Goods, AnySku) = Books(ledger, Goods, AnySku) - row.qty
  <2>1. Books(ledger', Goods, AnySku)
          = Books(ledger, Goods, AnySku) - Counts(row, Goods, AnySku)
    BY BooksCrossed DEF Void, Crossed
  <2> QED
    BY <1>1, <1>2, <2>1 DEF Counts, Goods, Kinds
<1>4. Books(ledger, Goods, AnySku) \in Int /\ Held(batches) \in Int
  BY BooksType, HeldType DEF IInv, TypeOK, Sound
<1>5. -row.qty \in Int /\ NoSku \in AnySku
  BY <1>1 DEF AnySku
<1>6. PICK part \in Parts(-row.qty) :
        IsRestoration(part, NoSku, -row.qty) /\ batches' = PutBack(part)
  BY <1>2 DEF Void, UndoStockOut
<1>7. Held(batches') = Held(batches) + SumOf(part) /\ SumOf(part) \in Nat
      /\ SumOf(part) <= -row.qty
  BY <1>5, <1>6, RestorationHeld
<1> QED
  BY <1>1, <1>3, <1>4, <1>7 DEF Backed

(* A recall takes no more off the books than it takes out of the batches.  *)
LEMMA BackedCommit ==
  ASSUME SafetyInv, NEW i \in Inspectors, CommitInspection(i), Backed, RecallFinds
  PROVE  Backed'
<1> DEFINE req == inspections[i]
           b == req.batch
           row == [Row(req.op, -req.seen, batches[b].sku) EXCEPT !.of = b]
<1>1. /\ req.op \in FoodSafetyOps /\ b \in Batch /\ req.seen \in Nat
      /\ batches[b] \in BatchRow /\ batches[b].status \in Rows /\ req # Idle
  BY DEF CommitInspection, SafetyInv, IInv, TypeOK, Inspection, Sound
<1>2. batches[b].status = Source[req.op]
  BY <1>1 DEF SafetyInv, InspectionCurrent, Rows
<1>3. /\ batches \in [Batch -> BatchRow] /\ batches' \in [Batch -> BatchRow]
      /\ \A c \in Batch \ {b} : batches'[c] = batches[c]
      /\ batches'[b].status = Target[req.op]
      /\ batches'[b].remaining = batches[b].remaining
  <2>1. Target[req.op] \in Status
    BY <1>1 DEF Target, Status, FoodSafetyOps
  <2>2. batches' = [batches EXCEPT ![b].status = Target[req.op]]
    BY DEF CommitInspection
  <2> QED
    BY <1>1, <2>1, <2>2 DEF SafetyInv, IInv, Sound, BatchRow
<1>4. Held(batches') = Held(batches) + Stock(batches'[b]) - Stock(batches[b])
  BY <1>1, <1>3, HeldReplace
<1>5. /\ ledger \in Seq(LedgerRow) /\ Books(ledger, Goods, AnySku) \in Int
      /\ Held(batches) \in Int /\ batches[b].remaining \in Nat
  BY <1>1, <1>3, BooksType, HeldType DEF SafetyInv, IInv, TypeOK, BatchRow
<1>6. ASSUME req.op \in {"recall", "destroy"}, req.seen > 0
      PROVE  Books(ledger', Goods, AnySku) = Books(ledger, Goods, AnySku)
               - (IF req.op = "recall" THEN req.seen ELSE 0)
  <2>1. Row(req.op, -req.seen, batches[b].sku) \in LedgerRow
    <3>1. batches[b].sku \in Sku \cup {NoSku} /\ req.op \in Kinds /\ -req.seen \in Int
      BY <1>1, <1>6 DEF BatchRow, Kinds
    <3> QED
      BY <3>1, RowTyped
  <2>2. /\ row \in LedgerRow /\ row.kind = req.op /\ row.qty = -req.seen
        /\ row.sku \in AnySku /\ ~row.voided
    <3>1. Row(req.op, -req.seen, batches[b].sku).qty = -req.seen
          /\ Row(req.op, -req.seen, batches[b].sku).kind = req.op
          /\ Row(req.op, -req.seen, batches[b].sku).sku = batches[b].sku
          /\ ~Row(req.op, -req.seen, batches[b].sku).voided
          /\ batches[b].sku \in AnySku
      BY <1>1 DEF Row, AnySku, BatchRow
    <3> QED
      BY <1>1, <2>1, <3>1 DEF LedgerRow
  <2>3. ledger' = Append(ledger, row)
    BY <1>6 DEF CommitInspection, Book
  <2> HIDE DEF row
  <2>4. Counts(row, Goods, AnySku) = IF req.op = "recall" THEN -req.seen ELSE 0
    BY <1>6, <2>2 DEF Counts, Goods, Kinds
  <2> QED
    BY <1>1, <1>5, <2>2, <2>3, <2>4, BooksAppend
<1>7. CASE req.op = "recall"
  <2>1. batches[b].status = "locked" /\ batches'[b].status = "recalled"
    BY <1>2, <1>3, <1>7 DEF Source, Target
  <2>2. Stock(batches[b]) = batches[b].remaining /\ Stock(batches'[b]) = 0
    BY <2>1 DEF Stock
  <2>3. req.seen <= batches[b].remaining
    BY <1>1, <1>7, <2>1 DEF RecallFinds
  <2>4. Books(ledger', Goods, AnySku) = Books(ledger, Goods, AnySku) - req.seen
    <3>1. CASE req.seen > 0
      BY <1>6, <1>7, <3>1
    <3>2. CASE ~(req.seen > 0)
      BY <1>1, <1>5, <3>2 DEF CommitInspection
    <3> QED
      BY <3>1, <3>2
  <2> QED
    BY <1>1, <1>4, <1>5, <2>2, <2>3, <2>4 DEF Backed
<1>8. CASE req.op # "recall"
  <2>1. Stock(batches'[b]) = Stock(batches[b])
    BY <1>1, <1>2, <1>3, <1>8 DEF Stock, Source, Target, FoodSafetyOps
  <2>2. Books(ledger', Goods, AnySku) = Books(ledger, Goods, AnySku)
    <3>1. CASE req.op = "destroy" /\ req.seen > 0
      BY <1>5, <1>6, <1>8, <3>1
    <3>2. CASE ~(req.op = "destroy" /\ req.seen > 0)
      BY <1>8, <3>2 DEF CommitInspection
    <3> QED
      BY <3>1, <3>2
  <2>3. Stock(batches[b]) \in Int
    BY <1>5 DEF Stock
  <2> QED
    BY <1>4, <1>5, <2>1, <2>2, <2>3 DEF Backed
<1> QED
  BY <1>7, <1>8

LEMMA BackedStep ==
  ASSUME SafetyInv, Backed, RecallFinds, [Next]_vars, Trusted'
  PROVE  Backed'
<1>1. IInv
  BY DEF SafetyInv
<1>2. CASE UNCHANGED <<batches, ledger>>
  BY <1>2 DEF Backed
<1>3. CASE Next
  BY <1>1, <1>2, <1>3, BackedPurchase, BackedStockOut, BackedRefund, NoReturnToSupplier,
     BackedVoid, BackedCommit
  DEF Next, Inspect, RejectInspection, Trusted
<1> QED
  BY <1>2, <1>3 DEF vars

(* A locked batch loses nothing but to a void of its purchase or a return  *)
(* to the supplier.                                                        *)
LEMMA LockedKeeps ==
  ASSUME IInv, Next, Trusted', NEW b \in Batch, batches[b].status = "locked"
  PROVE  batches[b].remaining <= batches'[b].remaining
<1> DEFINE Kept == batches[b].remaining <= batches'[b].remaining
<1>1. /\ batches \in [Batch -> BatchRow] /\ batches[b].remaining \in Nat
      /\ b \notin Consumable
  BY DEF IInv, Sound, BatchRow, Consumable
<1>2. CASE UNCHANGED batches
  BY <1>1, <1>2
<1>3. ASSUME NEW c \in Batch, NEW sku \in Sku \cup {NoSku}, NEW label \in Label,
             NEW q \in Qty, NEW kind \in {"purchase", "offline_purchase"},
             Purchase(c, sku, label, q, kind)
      PROVE  Kept
  BY <1>1, <1>3 DEF Purchase
<1>4. ASSUME NEW sku \in Sku \cup {NoSku}, NEW q \in Qty,
             NEW kind \in {"sale", "pos_sale"}, StockOut(sku, q, kind)
      PROVE  Kept
  <2>1. PICK part \in Parts(q) : IsConsumption(part, sku, q) /\ batches' = TakeOut(part)
    BY <1>4 DEF StockOut
  <2>2. part[b] = 0
    BY <1>1, <2>1, QtyIsNat, ConsumptionWithinStock DEF IInv
  <2> QED
    BY <1>1, <2>1, <2>2 DEF TakeOut, BatchRow
<1>5. ASSUME NEW q \in Int, NEW part \in Parts(q)
      PROVE  batches[b].remaining <= PutBack(part)[b].remaining
  <2>1. part[b] \in Nat
    BY PartsAreNat
  <2> QED
    BY <1>1, <2>1 DEF PutBack, BatchRow
<1>6. ASSUME NEW r \in 1 .. Len(ledger), NEW q \in Qty, NEW returned \in BOOLEAN,
             Refund(r, q, returned), ~UNCHANGED batches
      PROVE  Kept
  <2>1. PICK part \in Parts(q), surplus \in 0 .. q :
          \/ batches' = PutBack(part)
          \/ \E c \in Batch :
               /\ batches[c].status = "absent"
               /\ batches' = [PutBack(part) EXCEPT
                                ![c] = NewBatch(ledger[r].sku, NoLabel, surplus)]
    BY <1>6 DEF Refund
  <2>2. batches'[b] = PutBack(part)[b]
    BY <1>1, <2>1 DEF PutBack
  <2> QED
    BY <1>5, <2>2, QtyIsNat
<1>7. ASSUME NEW r \in 1 .. Len(ledger), Void(r)
      PROVE  Kept
  <2>1. ledger[r].kind = "sale" /\ -ledger[r].qty \in Int
    BY <1>7, VoidedAfter, ReadRow
  <2>2. PICK part \in Parts(-ledger[r].qty) : batches' = PutBack(part)
    BY <1>7, <2>1 DEF Void, UndoStockOut
  <2> QED
    BY <1>5, <2>1, <2>2
<1>8. ASSUME NEW i \in Inspectors, CommitInspection(i)
      PROVE  Kept
  BY <1>1, <1>8 DEF CommitInspection, BatchRow
<1> QED
  BY <1>2, <1>3, <1>4, <1>6, <1>7, <1>8, NoReturnToSupplier
  DEF Next, Inspect, RejectInspection, Trusted

LEMMA RecallFindsStep ==
  ASSUME \A i, j \in Inspectors : i = j, SafetyInv, RecallFinds, [Next]_vars, Trusted'
  PROVE  RecallFinds'
<1> SUFFICES ASSUME NEW i \in Inspectors, inspections'[i] # Idle,
                    inspections'[i].op = "recall",
                    batches'[inspections'[i].batch].status = "locked"
             PROVE  inspections'[i].seen <= batches'[inspections'[i].batch].remaining
  BY DEF RecallFinds
<1>1. inspections \in [Inspectors -> Inspection \cup {Idle}] /\ IInv
  BY DEF SafetyInv, IInv, TypeOK
<1>2. CASE UNCHANGED vars
  BY <1>2 DEF RecallFinds, vars
<1>3. CASE Next /\ inspections'[i] = inspections[i]
  <2> DEFINE b == inspections[i].batch
  <2>1. b \in Batch /\ inspections[i].seen \in Nat
    BY <1>1, <1>3 DEF Inspection
  <2>2. batches[b].status = "locked"
    <3>1. batches[b].status \in {"locked", "deleted"}
      BY <1>3 DEF SafetyInv, InspectionCurrent, Source
    <3>2. ~\E j \in Inspectors : CommitInspection(j)
      <4> SUFFICES ASSUME NEW j \in Inspectors, CommitInspection(j) PROVE FALSE
        OBVIOUS
      <4>1. j = i
        OBVIOUS
      <4>2. inspections'[i] = Idle
        BY <1>1, <4>1 DEF CommitInspection
      <4> QED
        BY <4>2
    <3>3. batches'[b].status \in {batches[b].status, "deleted"}
      BY <1>1, <1>3, <2>1, <3>1, <3>2, StatusStep
    <3> QED
      BY <1>3, <3>1, <3>3
  <2>3. inspections[i].seen <= batches[b].remaining
    BY <1>3, <2>2 DEF RecallFinds
  <2>4. batches[b].remaining <= batches'[b].remaining
    BY <1>1, <1>3, <2>1, <2>2, LockedKeeps
  <2>5. batches[b].remaining \in Nat /\ batches'[b].remaining \in Nat
    BY <1>1, <1>3, <2>1, NextIInv DEF IInv, Sound, BatchRow
  <2> QED
    BY <1>3, <2>1, <2>3, <2>4, <2>5
<1>4. CASE Next /\ inspections'[i] # inspections[i]
  <2>1. PICK b \in Batch, op \in FoodSafetyOps : Inspect(i, b, op)
    <3>1. CASE \E j \in Inspectors, b \in Batch, op \in FoodSafetyOps : Inspect(j, b, op)
      BY <3>1
    <3>2. CASE \E j \in Inspectors : CommitInspection(j) \/ RejectInspection(j)
      BY <1>1, <3>2 DEF CommitInspection, RejectInspection
    <3>3. CASE UNCHANGED inspections
      BY <1>4, <3>3
    <3> QED
      BY <1>4, <3>1, <3>2, <3>3
      DEF Next, Purchase, StockOut, Refund, ReturnToSupplier, Void
  <2>2. inspections'[i] = [op |-> op, batch |-> b, seen |-> Remaining(b)]
    BY <1>1, <2>1 DEF Inspect
  <2>3. Remaining(b) \in Nat /\ batches' = batches
    BY <1>1, <2>1 DEF IInv, Sound, BatchRow, Remaining, Inspect
  <2> QED
    BY <2>2, <2>3, SMTT(30) DEF Remaining
<1> QED
  BY <1>2, <1>3, <1>4

LEMMA OnHandIs ==
  ASSUME IInv
  PROVE  OnHand = Held(batches)
<1> DEFINE f == [b \in Batch |-> Stock(batches[b])]
           pool == Existing \ Pulled
           g == [b \in pool |-> Remaining(b)]
<1>1. f \in [Batch -> Int]
  BY HeldType DEF IInv, Sound
<1>2. pool \in SUBSET Batch /\ \A b \in Batch \ pool : f[b] = 0
  BY DEF Existing, Pulled, Rows, Stock
<1>3. [b \in pool |-> f[b]] = g
  BY DEF Existing, Pulled, Rows, Stock, Remaining
<1>4. SumOf(f) = SumOf([b \in pool |-> f[b]])
  <2> HIDE DEF f, pool
  <2> QED
    BY <1>1, <1>2, StockConstants, SumSupport
<1>5. OnHand = SumOf(g)
  BY DEF OnHand, Sum
<1> QED
  BY <1>3, <1>4, <1>5 DEF Held

LEMMA InitPhantom == Init => PhantomInv
<1> SUFFICES ASSUME Init PROVE Backed /\ RecallFinds
  BY DEF PhantomInv
<1>1. RecallFinds
  BY DEF Init, RecallFinds
<1>2. Books(ledger, Goods, AnySku) = 0
  <2> DEFINE f == [r \in 1 .. Len(ledger) |-> Counts(ledger[r], Goods, AnySku)]
  <2>1. 1 .. Len(ledger) = {}
    BY DEF Init
  <2>2. f \in [{} -> Int]
    BY <2>1
  <2> HIDE DEF f
  <2>3. SumOf(f) = 0
    BY <2>2, SumEmpty
  <2> QED
    BY <2>3 DEF f, Books
<1>3. Held(batches) = 0
  <2> DEFINE f == [b \in Batch |-> Stock(batches[b])]
  <2>1. \A b \in Batch : Stock(batches[b]) = 0
    BY DEF Init, Absent, Stock
  <2>2. f \in [Batch -> Int] /\ \A b \in Batch : f[b] = 0
    BY <2>1
  <2> HIDE DEF f
  <2>3. SumOf(f) = 0
    BY <2>2, StockConstants, SumZero
  <2> QED
    BY <2>3 DEF f, Held
<1> QED
  BY <1>1, <1>2, <1>3 DEF Backed

(* With at most one person working the food safety endpoints, the batches  *)
(* never hold goods the book stock does not have, however sales, voids of  *)
(* sales, returns, locks and recalls follow one another.                   *)
THEOREM NoPhantomStockHolds ==
  ASSUME \A i, j \in Inspectors : i = j
  PROVE  Spec => []NoPhantomStock
<1>1. Init => SafetyInv
  <2>1. Init => InspectionCurrent
    BY DEF Init, InspectionCurrent
  <2> QED
    BY <2>1, InitIInv DEF SafetyInv
<1>2. SafetyInv /\ [Next]_vars => SafetyInv'
  BY NextSafetyInv
<1>3. SafetyInv /\ PhantomInv /\ [Next]_vars => PhantomInv'
  <2> SUFFICES ASSUME SafetyInv, PhantomInv, [Next]_vars, Trusted'
               PROVE  Backed' /\ RecallFinds'
    BY DEF PhantomInv
  <2>1. Backed /\ RecallFinds
    BY TrustedBefore DEF PhantomInv, SafetyInv
  <2> QED
    BY <2>1, BackedStep, RecallFindsStep
<1>4. SafetyInv /\ PhantomInv => NoPhantomStock
  <2> SUFFICES ASSUME SafetyInv, PhantomInv, Trusted
               PROVE  OnHand <= BookStock(Goods)
    BY DEF NoPhantomStock, Trusted, Goods
  <2> QED
    BY OnHandIs, BookStockIs DEF SafetyInv, PhantomInv, Backed
<1> QED
  BY <1>1, <1>2, <1>3, <1>4, InitPhantom, PTL DEF Spec

=============================================================================
