---------------------------- MODULE Allocation -----------------------------
(***************************************************************************)
(* What every allocation over batches in services/batch.py computes:       *)
(* consumption, restoration on a void, customer and supplier returns all   *)
(* walk some rows in some order and take min(capacity, what is left) of    *)
(* each.  Module ConsumeLoop has the loop itself.                          *)
(***************************************************************************)
EXTENDS Integers, FiniteSets, Folds

Smaller(m, n) == IF m < n THEN m ELSE n
Larger(m, n)  == IF m < n THEN n ELSE m

SumOf(f) == MapThenFoldSet(LAMBDA m, n : m + n, 0, LAMBDA x : f[x],
                           LAMBDA T : CHOOSE x \in T : TRUE, DOMAIN f)

Sum(f(_), S) == SumOf([x \in S |-> f(x)])

(* The rows of a list at the positions of T, in their order.               *)
Nth(T, n) == CHOOSE i \in T : Cardinality({j \in T : j < i}) = n - 1

Picked(list, T) == [n \in 1 .. Cardinality(T) |-> list[Nth(T, n)]]

(* part splits up to q over the rows of pool: no row beyond its capacity,  *)
(* nothing from a row before the rows ahead of it are exhausted, and as    *)
(* much of q as the pool can hold.                                         *)
IsSplit(part, q, pool, capacity(_), before(_, _)) ==
  /\ \A b \in DOMAIN part : part[b] <= (IF b \in pool THEN capacity(b) ELSE 0)
  /\ \A b, c \in pool : before(b, c) /\ part[c] > 0 => part[b] = capacity(b)
  /\ SumOf(part) = Smaller(q, Sum(capacity, pool))

=============================================================================
