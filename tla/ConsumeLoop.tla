---------------------------- MODULE ConsumeLoop ----------------------------
(***************************************************************************)
(* _consume_qty_from_batches and its two calls in                          *)
(* consume_batches_fifo_costed (services/batch.py), one iteration a step:  *)
(* the rows of the SKU first, then, if the caller allows it and something  *)
(* is left, the unowned rows.  The outcome is the split that StockLedger   *)
(* takes in one step.                                                      *)
(***************************************************************************)
EXTENDS Allocation, FiniteSets

CONSTANTS
  Batch,     \* rows, as numbers in FEFO order
  MaxQty     \* bound: remaining quantities and the quantity asked for

ASSUME LoopConstants ==
  Batch \subseteq Nat /\ IsFiniteSet(Batch) /\ MaxQty \in Nat

VARIABLES
  remaining,   \* remaining_qty of each row when the locks are held
  own,         \* the rows found by the first query; the rest are unowned
  asked,       \* the quantity asked for
  fallback,    \* fallback_to_unowned
  phase,       \* which call of the loop is running
  todo,        \* the rows that call has not reached yet
  left,        \* to_consume
  consumed,    \* the sum of the takes
  part         \* what has been taken of each row

vars == <<remaining, own, asked, fallback, phase, todo, left, consumed, part>>

Init ==
  /\ remaining \in [Batch -> 0 .. MaxQty]
  /\ own \in SUBSET Batch
  /\ asked \in 0 .. MaxQty
  /\ fallback \in BOOLEAN
  /\ phase = "own" /\ todo = own
  /\ left = asked /\ consumed = 0
  /\ part = [b \in Batch |-> 0]

(* One iteration on the next row in FEFO order.                            *)
Take(b) ==
  LET take == Smaller(remaining[b], left) IN
  /\ phase # "done"
  /\ left > 0
  /\ b \in todo /\ \A c \in todo : b <= c
  /\ todo' = todo \ {b}
  /\ part' = [part EXCEPT ![b] = take]
  /\ remaining' = [remaining EXCEPT ![b] = @ - take]
  /\ left' = left - take
  /\ consumed' = consumed + take
  /\ UNCHANGED <<own, asked, fallback, phase>>

(* Mutant: the second call asks for the whole quantity again.              *)
FallBack_full ==
  /\ phase = "own" /\ todo = {}
  /\ left > 0 /\ fallback
  /\ phase' = "unowned" /\ todo' = Batch \ own
  /\ left' = asked
  /\ UNCHANGED <<remaining, own, asked, fallback, consumed, part>>

(* The first loop ends short: the second one runs over the unowned rows.   *)
FallBack ==
  /\ phase = "own" /\ todo = {}
  /\ left > 0 /\ fallback
  /\ phase' = "unowned" /\ todo' = Batch \ own
  /\ UNCHANGED <<remaining, own, asked, fallback, left, consumed, part>>

(* Mutant: the fallback forgotten.                                         *)
Finish_early ==
  /\ phase # "done"
  /\ left = 0 \/ todo = {}
  /\ phase' = "done"
  /\ UNCHANGED <<remaining, own, asked, fallback, todo, left, consumed, part>>

(* Nothing left to place, or nowhere to place it.                          *)
Finish ==
  /\ phase # "done"
  /\ left = 0 \/ (todo = {} /\ (phase = "own" => ~fallback))
  /\ phase' = "done"
  /\ UNCHANGED <<remaining, own, asked, fallback, todo, left, consumed, part>>

Next == (\E b \in Batch : Take(b)) \/ FallBack \/ Finish

Spec == Init /\ [][Next]_vars

-----------------------------------------------------------------------------
TypeOK ==
  /\ remaining \in [Batch -> Nat] /\ part \in [Batch -> Nat]
  /\ own \subseteq Batch /\ todo \subseteq Batch
  /\ asked \in Nat /\ left \in Nat /\ consumed \in Nat
  /\ fallback \in BOOLEAN
  /\ phase \in {"own", "unowned", "done"}

(* Between any two iterations what was taken and what is still owed add up *)
(* to the quantity asked for, across the switch to the unowned rows: the   *)
(* caller's test "consumed < asked" means exactly that the rows ran out.   *)
NothingLost == consumed + left = asked

(* The rows in the order of the walk: the SKU's own first.                 *)
Ahead(b, c) == IF (b \in own) = (c \in own) THEN b < c ELSE b \in own

Reach == IF fallback THEN Batch ELSE own

Capacity(b) == remaining[b] + part[b]

(* The walk ends with the split StockLedger states: first expired first    *)
(* out, the SKU's own rows before the unowned ones, and in full whenever   *)
(* the rows it may use hold enough.                                        *)
WalkIsSplit ==
  phase = "done" => IsSplit(part, asked, Reach, Capacity, Ahead)

(* The split is the only one, so the relation leaves the model no choice   *)
(* the code does not have.                                                 *)
SplitIsUnique ==
  phase = "done" =>
    \A other \in [Batch -> 0 .. asked] :
      IsSplit(other, asked, Reach, Capacity, Ahead) => other = part

(* The walk ends with a split of what was asked for, and there is no other *)
(* split that the outcome stated in Allocation would allow.                *)
WalkIsTheSplit == WalkIsSplit /\ SplitIsUnique

=============================================================================
