----------------------------- MODULE MCPosOrder -----------------------------
(* Instances of PosOrder: any two rows, terminals or clients are alike.     *)
EXTENDS PosOrder, TLC

Alike == Permutations(Order) \cup Permutations(Terminal) \cup Permutations(Client)

=============================================================================
