------------------------------ MODULE Backroom ------------------------------
(***************************************************************************)
(* The back of the shop: purchases and what is owed for them, and the      *)
(* stocktakes.  The two share no state here (what a delivery and a count   *)
(* do to the batches is StockLedger's), so that what one does neither      *)
(* enables nor changes a step of the other, and the one chosen at the      *)
(* start works alone.                                                      *)
(***************************************************************************)
EXTENDS Purchasing, TLC

CONSTANTS Product, Opening, MaxSessions, MaxMoves, MaxEntries   \* of Stocktake

ASSUME BackroomConstants ==
  /\ Opening \in Nat /\ MaxSessions \in Nat
  /\ MaxMoves \in Nat /\ MaxEntries \in Nat

VARIABLES shelf, book, bought, batches, starting, sessions, rows, page, moves, entries,
          work         \* what is done

buyVars   == vars
countVars == <<shelf, book, bought, batches, starting, sessions, rows, page, moves, entries>>

Count == INSTANCE Stocktake

-----------------------------------------------------------------------------
BackroomInit == work \in {"buy", "count"} /\ Init /\ Count!Init

BackroomNext ==
  \/ work = "buy" /\ Next /\ UNCHANGED <<work, countVars>>
  \/ work = "count" /\ Count!Next /\ UNCHANGED <<work, buyVars>>

BackroomSpec == BackroomInit /\ [][BackroomNext]_<<work, buyVars, countVars>>

(* The keys of payments are interchangeable.                               *)
Keys == Permutations(Key)

-----------------------------------------------------------------------------
(* Lists and payables say the same, in every way that they can be read: a  *)
(* supplier is owed for an item once, and a completed list owes nothing.   *)
PurchasesAddUp == AccountsAgree /\ OwedOnce /\ CompletedIsPaid

(* A stocktake: what the ledger holds can be taken from batches, and a     *)
(* session books what was counted, once.                                   *)
StockIsCounted == Count!LedgerIsBacked /\ Count!RowsMatchCounts

(* Completing a session brings the ledger to the shelf.                    *)
Calibrated == Count!Calibrated
=============================================================================
