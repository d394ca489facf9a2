--------------------------- MODULE MCOfflineSync ---------------------------
(* A purchase of two units and a sale of one, queued in this order.        *)
EXTENDS OfflineSync

Trade == <<2, -1>>

=============================================================================
