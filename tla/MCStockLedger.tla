--------------------------- MODULE MCStockLedger ---------------------------
(* Small instances of StockLedger: batches are numbers in order of         *)
(* purchase; by expiry they are in the same order, except that the last    *)
(* bought batch expires first.  Any two labels or SKUs are alike.          *)
EXTENDS StockLedger, TLC

InOrder == [b \in Batch |-> b]

LastExpiresFirst == [b \in Batch |-> IF \A c \in Batch : c <= b THEN 0 ELSE b]

Alike == Permutations(Label) \cup Permutations(Sku)

=============================================================================
