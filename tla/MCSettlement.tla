---------------------------- MODULE MCSettlement ----------------------------
(* Instances of Settlement: any two rows, terminals or closers are alike.   *)
EXTENDS Settlement, TLC

Alike == Permutations(Order) \cup Permutations(Terminal)
           \cup Permutations(Client) \cup Permutations(Closer)

=============================================================================
