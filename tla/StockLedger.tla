---------------------------- MODULE StockLedger ----------------------------
(***************************************************************************)
(* The stock of one product of one merchant, kept twice by the backend:    *)
(*                                                                         *)
(*  - batches  the rows of batch_lifecycles (models/batch.py), consumed    *)
(*             first-expired-first-out by services/batch.py;               *)
(*  - ledger   the rows of inventory_records (models/inventory.py); the    *)
(*             book stock is the sum of the rows that are not voided.      *)
(*                                                                         *)
(* Every handler that moves goods writes both in one transaction, under    *)
(* row locks (SELECT ... FOR UPDATE), so it is one action here.  The food  *)
(* safety handlers (lock, unlock, recall, destroy) read the batch with a   *)
(* plain db.get and write it back later: each is a read step and a commit  *)
(* step of an inspector.                                                   *)
(***************************************************************************)
EXTENDS Allocation, Sequences, FiniteSets

CONSTANTS
  Batch,          \* identifiers of batch rows
  NoBatch,        \* a ledger row that no batch's key names
  Sku,            \* the merchant's SKUs of the product
  NoSku,          \* sku_id IS NULL ("unowned")
  Label,          \* values of the batch_label column
  NoLabel,        \* a label that no ledger row carries
  FefoRank,       \* order of (expiry_date, purchase_date, id)
  BuyRank,        \* order of (purchase_date, id)
  MaxQty,         \* bound: largest quantity of one request
  MaxRecords,     \* bound: ledger rows
  VoidKinds,      \* the kinds of row the staff void in this instance
  LabelsCollide,  \* may two purchases fall into the same minute?
  SupplierReturns, \* are goods sent back to suppliers in this instance?
  Inspectors,     \* concurrent callers of the food safety endpoints
  Idle            \* an inspector with no request in flight

(* A row's kind is its event_type together with its source: "sale" is any  *)
(* voice, offline or manual sale or waste row, "purchase" a voice or       *)
(* purchase-list row, "destroy" the waste row of services/batch.py.        *)
Kinds == {"purchase", "offline_purchase", "sale", "pos_sale", "refund",
          "purchase_return", "recall", "destroy"}

ASSUME StockConstants ==
  /\ MaxQty \in Nat \ {0}
  /\ MaxRecords \in Nat
  /\ IsFiniteSet(Batch)
  /\ NoBatch \notin Batch /\ NoSku \notin Sku /\ NoLabel \notin Label
  /\ FefoRank \in [Batch -> Nat] /\ BuyRank \in [Batch -> Nat]
  /\ VoidKinds \subseteq Kinds \ {"pos_sale", "refund"}
  /\ LabelsCollide \in BOOLEAN /\ SupplierReturns \in BOOLEAN

VARIABLES batches, ledger, inspections

vars == <<batches, ledger, inspections>>

Qty == 1 .. MaxQty

(* "absent" is a row not inserted yet, "deleted" one a void has removed.   *)
(* No code writes pending_acceptance, near_expiry, sold_out, wasted,       *)
(* removed or returned to a batch.                                         *)
Status == {"absent", "deleted", "sellable", "locked", "recalled", "destroyed"}
Rows   == {"sellable", "locked", "recalled", "destroyed"}

BatchRow == [status : Status, sku : Sku \cup {NoSku}, label : Label \cup {NoLabel},
             purchased : Nat, remaining : Nat]

LedgerRow == [kind : Kinds, qty : Int, sku : Sku \cup {NoSku},
              label : Label \cup {NoLabel}, of : Batch \cup {NoBatch},
              back : Nat, voided : BOOLEAN]

FoodSafetyOps == {"lock", "unlock", "recall", "destroy"}

Inspection == [op : FoodSafetyOps, batch : Batch, seen : Nat]

-----------------------------------------------------------------------------
(* Batches *)

Absent == [status |-> "absent", sku |-> NoSku, label |-> NoLabel,
           purchased |-> 0, remaining |-> 0]

Deleted == [Absent EXCEPT !.status = "deleted"]

NewBatch(sku, label, q) ==
  [status |-> "sellable", sku |-> sku, label |-> label,
   purchased |-> q, remaining |-> q]

Existing == {b \in Batch : batches[b].status \in Rows}

(* The whitelist of consume_batches_fifo_costed and the blacklist of the   *)
(* functions that put goods back.                                          *)
Consumable == {b \in Existing : batches[b].status = "sellable"}
Pulled     == {b \in Existing : batches[b].status \in {"recalled", "destroyed"}}

(* The rows a filter on sku_id, or on product_id when none is given, finds *)
OfSku(sku) == {b \in Existing : sku = NoSku \/ batches[b].sku = sku}
Unowned    == {b \in Existing : batches[b].sku = NoSku}
Labelled(label) == {b \in Existing : label # NoLabel /\ batches[b].label = label}

Remaining(b) == batches[b].remaining
Consumed(b)  == batches[b].purchased - batches[b].remaining

Parts(q) == [Batch -> 0 .. q]

FefoBefore(b, c)   == FefoRank[b] < FefoRank[c]
NewestBefore(b, c) == BuyRank[b] > BuyRank[c]

(* consume_batches_fifo_costed with fallback_to_unowned=True, as all its   *)
(* callers ask: the SKU's own batches first, then the unowned ones.        *)
IsConsumption(part, sku, q) ==
  LET own  == OfSku(sku) \cap Consumable
      pool == own \cup (Unowned \cap Consumable)
      before(b, c) == IF (b \in own) = (c \in own) THEN FefoBefore(b, c)
                                                  ELSE b \in own
  IN IsSplit(part, q, pool, Remaining, before)

(* Mutants: the capacity of a row taken for what it bought, recalled rows  *)
(* filled up again, and the goods of another SKU put back.                 *)
IsRestoration_unbounded(part, sku, q) ==
  LET Bought(b) == batches[b].purchased
  IN IsSplit(part, q, OfSku(sku) \ Pulled, Bought, NewestBefore)

IsRestoration_anywhere(part, sku, q) ==
  IsSplit(part, q, OfSku(sku), Consumed, NewestBefore)

IsRestoration_any_sku(part, sku, q) ==
  IsSplit(part, q, Existing \ Pulled, Consumed, NewestBefore)

(* rollback_batch_on_void and return_to_batches: newest purchase first.    *)
IsRestoration(part, sku, q) ==
  IsSplit(part, q, OfSku(sku) \ Pulled, Consumed, NewestBefore)

TakeOut(part) == [b \in Batch |-> [batches[b] EXCEPT !.remaining = @ - part[b]]]
PutBack(part) == [b \in Batch |-> [batches[b] EXCEPT !.remaining = @ + part[b]]]

-----------------------------------------------------------------------------
(* The ledger *)

Row(kind, qty, sku) ==
  [kind |-> kind, qty |-> qty, sku |-> sku, label |-> NoLabel,
   of |-> NoBatch, back |-> 0, voided |-> FALSE]

Room == Len(ledger) < MaxRecords
Book(row) == ledger' = Append(ledger, row)

-----------------------------------------------------------------------------
Init ==
  /\ batches = [b \in Batch |-> Absent]
  /\ ledger = <<>>
  /\ inspections = [i \in Inspectors |-> Idle]

(* Voice confirmation, purchase-list acceptance and the offline upload of  *)
(* a purchase: a sellable batch and its row.  The offline row carries no   *)
(* batch label.                                                            *)
Purchase(b, sku, label, q, kind) ==
  /\ Room
  /\ batches[b].status = "absent"
  /\ LabelsCollide \/ \A c \in Batch : batches[c].label # label
  /\ kind = "offline_purchase" => sku # NoSku
  /\ LET tag == IF kind = "purchase" THEN label ELSE NoLabel IN
       /\ batches' = [batches EXCEPT ![b] = NewBatch(sku, tag, q)]
       /\ Book([Row(kind, q, sku) EXCEPT !.label = tag])
  /\ UNCHANGED inspections

(* Mutant: the shortfall not checked.                                      *)
StockOut_short(sku, q, kind) ==
  /\ Room
  /\ \E part \in Parts(q) : IsConsumption(part, sku, q) /\ batches' = TakeOut(part)
  /\ Book(Row(kind, -q, sku))
  /\ UNCHANGED inspections

(* A sale or a waste that the batches cover in full; otherwise the handler *)
(* answers 409 (the offline upload rolls its savepoint back).              *)
StockOut(sku, q, kind) ==
  /\ Room
  /\ \E part \in Parts(q) :
       /\ IsConsumption(part, sku, q)
       /\ SumOf(part) = q
       /\ batches' = TakeOut(part)
  /\ Book(Row(kind, -q, sku))
  /\ UNCHANGED inspections

(* Refund of a POS order item, with or without the goods coming back.      *)
(* What no consumed batch can take becomes a new batch.                    *)
Refund(r, q, returned) ==
  LET row == ledger[r] IN
  /\ Room
  /\ row.kind = "pos_sale"
  /\ row.back + q <= -row.qty
  /\ IF ~returned THEN UNCHANGED batches ELSE
       \E part \in Parts(q), surplus \in 0 .. q :
         /\ IsRestoration(part, row.sku, q)
         /\ SumOf(part) + surplus = q
         /\ IF surplus = 0 THEN batches' = PutBack(part)
            ELSE \E b \in Batch :
                   /\ batches[b].status = "absent"
                   /\ batches' = [PutBack(part) EXCEPT
                                    ![b] = NewBatch(row.sku, NoLabel, surplus)]
  /\ ledger' = Append([ledger EXCEPT ![r].back = @ + q],
                      Row("refund", IF returned THEN q ELSE 0, row.sku))
  /\ UNCHANGED inspections

(* Return of accepted goods to the supplier: the batches under the label   *)
(* of the purchase row shrink, what was already sold only in purchase_qty; *)
(* with no such batch the product's sellable ones do.                      *)
ReturnToSupplier(r, q) ==
  LET row  == ledger[r]
      pool == IF Labelled(row.label) # {} THEN Labelled(row.label)
              ELSE OfSku(row.sku) \cap Consumable
  IN
  /\ Room /\ SupplierReturns
  /\ row.kind = "purchase"
  /\ row.back + q <= row.qty
  /\ \E fresh, sold \in Parts(q) :
       /\ IsSplit(fresh, q, pool, Remaining, FefoBefore)
       /\ IsSplit(sold, q - SumOf(fresh), pool, Consumed, FefoBefore)
       /\ batches' = [b \in Batch |->
            [batches[b] EXCEPT !.remaining = @ - fresh[b],
                               !.purchased = @ - fresh[b] - sold[b]]]
  /\ ledger' = Append([ledger EXCEPT ![r].back = @ + q],
                      Row("purchase_return", -q, row.sku))
  /\ UNCHANGED inspections

(* rollback_batch_on_void, purchase branch: the first row under the label *)
(* is deleted, or cut down to what has been consumed of it.               *)
UndoPurchase(label) ==
  IF Labelled(label) = {} THEN UNCHANGED batches
  ELSE \E b \in Labelled(label) :
         batches' = [batches EXCEPT ![b] =
           IF Consumed(b) = 0
           THEN Deleted
           ELSE [@ EXCEPT !.purchased = Consumed(b), !.remaining = 0]]

(* rollback_batch_on_void, sale and waste branch, whatever the row's SKU.  *)
UndoStockOut(q) ==
  \E part \in Parts(q) :
    /\ IsRestoration(part, NoSku, q)
    /\ batches' = PutBack(part)

(* Mutant: a row voided again.                                             *)
Void_again(r) ==
  LET row == ledger[r] IN
  /\ row.kind \in VoidKinds
  /\ \/ row.kind \in {"purchase", "offline_purchase"} /\ UndoPurchase(row.label)
     \/ row.kind \in {"sale", "destroy"} /\ UndoStockOut(-row.qty)
     \/ row.kind \in {"purchase_return", "recall"} /\ UNCHANGED batches
  /\ ledger' = [ledger EXCEPT ![r].voided = TRUE]
  /\ UNCHANGED inspections

Void(r) ==
  LET row == ledger[r] IN
  /\ ~row.voided
  /\ row.kind \in VoidKinds
  /\ \/ /\ row.kind \in {"purchase", "offline_purchase"}
        /\ UndoPurchase(row.label)
     \/ /\ row.kind \in {"sale", "destroy"}
        /\ UndoStockOut(-row.qty)
     \/ /\ row.kind \in {"purchase_return", "recall"}
        /\ UNCHANGED batches
  /\ ledger' = [ledger EXCEPT ![r].voided = TRUE]
  /\ UNCHANGED inspections

-----------------------------------------------------------------------------
(* Food safety *)

(* BATCH_TRANSITIONS restricted to the states the code writes.             *)
Source == [lock |-> "sellable", unlock |-> "locked",
           recall |-> "locked", destroy |-> "recalled"]
Target == [lock |-> "locked", unlock |-> "sellable",
           recall |-> "recalled", destroy |-> "destroyed"]

(* The request loads the row without locking it and checks the transition. *)
Inspect(i, b, op) ==
  /\ inspections[i] = Idle
  /\ batches[b].status = Source[op]
  /\ inspections' = [inspections EXCEPT ![i] =
                       [op |-> op, batch |-> b, seen |-> Remaining(b)]]
  /\ UNCHANGED <<batches, ledger>>

(* The commit writes the status and, for a recall or a destruction, a row  *)
(* for the quantity loaded before; its key is unique per batch.            *)
CanRecord(op, b) == \A r \in 1 .. Len(ledger) : ~(ledger[r].kind = op /\ ledger[r].of = b)

CommitInspection(i) ==
  LET req == inspections[i]
      row == [Row(req.op, -req.seen, batches[req.batch].sku) EXCEPT !.of = req.batch]
  IN
  /\ req # Idle
  /\ batches[req.batch].status \in Rows
  /\ IF req.op \in {"recall", "destroy"} /\ req.seen > 0
     THEN Room /\ CanRecord(req.op, req.batch) /\ Book(row)
     ELSE UNCHANGED ledger
  /\ batches' = [batches EXCEPT ![req.batch].status = Target[req.op]]
  /\ inspections' = [inspections EXCEPT ![i] = Idle]

(* The row is gone or the key is taken: the transaction rolls back.        *)
RejectInspection(i) ==
  /\ inspections[i] # Idle
  /\ \/ batches[inspections[i].batch].status \notin Rows
     \/ inspections[i].seen > 0 /\ ~CanRecord(inspections[i].op, inspections[i].batch)
  /\ inspections' = [inspections EXCEPT ![i] = Idle]
  /\ UNCHANGED <<batches, ledger>>

-----------------------------------------------------------------------------
Next ==
  \/ \E b \in Batch, sku \in Sku \cup {NoSku}, label \in Label, q \in Qty,
        kind \in {"purchase", "offline_purchase"} : Purchase(b, sku, label, q, kind)
  \/ \E sku \in Sku \cup {NoSku}, q \in Qty, kind \in {"sale", "pos_sale"} :
       StockOut(sku, q, kind)
  \/ \E r \in 1 .. Len(ledger), q \in Qty, returned \in BOOLEAN : Refund(r, q, returned)
  \/ \E r \in 1 .. Len(ledger), q \in Qty : ReturnToSupplier(r, q)
  \/ \E r \in 1 .. Len(ledger) : Void(r)
  \/ \E i \in Inspectors, b \in Batch, op \in FoodSafetyOps : Inspect(i, b, op)
  \/ \E i \in Inspectors : CommitInspection(i)
  \/ \E i \in Inspectors : RejectInspection(i)

Spec == Init /\ [][Next]_vars

-----------------------------------------------------------------------------
(* Properties *)

TypeOK ==
  /\ batches \in [Batch -> BatchRow]
  /\ ledger \in Seq(LedgerRow)
  /\ inspections \in [Inspectors -> Inspection \cup {Idle}]

(* However sales, voids, refunds and supplier returns interleave, no batch *)
(* ever holds more than was bought into it, nor less than nothing: the min *)
(* in each loop of services/batch.py and the joint update of the two       *)
(* quantities on a supplier return keep them in step.                      *)
BatchBounds ==
  \A b \in Batch : 0 <= batches[b].remaining /\ batches[b].remaining <= batches[b].purchased

Live(kinds) == {r \in 1 .. Len(ledger) : ~ledger[r].voided /\ ledger[r].kind \in kinds}

BookStock(kinds) == Sum(LAMBDA r : ledger[r].qty, Live(kinds))

NetSold == -BookStock({"sale", "pos_sale", "refund"})

Seen(kinds)   == {r \in 1 .. Len(ledger) : ledger[r].kind \in kinds}
Voided(kinds) == {r \in Seen(kinds) : ledger[r].voided}

(* A supplier return and a voided destruction move goods no row of a sale  *)
(* accounts for.                                                           *)
Plain == Seen({"purchase_return"}) = {} /\ Voided({"destroy"}) = {}

(* Goods are put back at most once: what the batches count as consumed     *)
(* covers everything the ledger says left the shop and did not come back,  *)
(* so that no sequence of voids and refunds lets one unit be sold twice.   *)
SoldGoodsCovered == Plain => NetSold <= Sum(Consumed, Existing)

OnHand == Sum(Remaining, Existing \ Pulled)

(* The batches never hold goods the book stock does not have: whatever is  *)
(* sold, refunded, locked or recalled, in any order, and whichever sales   *)
(* are voided, a shop that trusts its batches cannot oversell.  Rows of a  *)
(* destruction are left out: the recall before it has taken the goods off  *)
(* the books already.                                                      *)
NoPhantomStock ==
  Seen({"purchase_return"}) = {} /\ Voided(Kinds \ {"sale"}) = {}
    => OnHand <= BookStock(Kinds \ {"destroy"})

(* The book stock is never negative ("no negative stock").                 *)
BookNeverNegative == BookStock(Kinds) >= 0

(* A customer's return goes back to its own SKU: as long as sales name a   *)
(* SKU and none is voided, what was sold of a SKU stays covered by what    *)
(* its own and the unowned batches have given.                             *)
Sales == {"sale", "pos_sale", "refund"}
Owned == \A r \in Seen(Sales) : ledger[r].sku # NoSku /\ ~ledger[r].voided

SkuSoldCovered ==
  Plain /\ Owned =>
    \A s \in Sku :
      -Sum(LAMBDA r : ledger[r].qty, {r \in Seen(Sales) : ledger[r].sku = s})
        <= Sum(Consumed, OfSku(s) \cup Unowned)

(* Goods recalled or destroyed never gain stock again from a void or a     *)
(* customer return.                                                        *)
NeverRestocked ==
  [][\A b \in Batch : batches[b].status \in {"recalled", "destroyed"}
       => batches'[b].remaining <= batches[b].remaining]_vars

(* A sale never takes goods from a batch that is locked, recalled or       *)
(* destroyed, whatever the inspectors are doing meanwhile.                 *)
LockedNeverSold ==
  [][(Len(ledger') > Len(ledger) /\ ledger'[Len(ledger')].kind \in {"sale", "pos_sale"})
       => \A b \in Batch : batches[b].status # "sellable"
                           => batches'[b].remaining = batches[b].remaining]_vars

(* A recalled batch leaves that state only towards destruction, and a      *)
(* destroyed one never: BATCH_TRANSITIONS.                                 *)
RecallIsFinal ==
  [][\A b \in Batch :
       /\ batches[b].status = "recalled" => batches'[b].status \in {"recalled", "destroyed", "deleted"}
       /\ batches[b].status = "destroyed" => batches'[b].status \in {"destroyed", "deleted"}]_vars

=============================================================================
