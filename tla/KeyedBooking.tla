---------------------------- MODULE KeyedBooking ----------------------------
(***************************************************************************)
(* What the offline channel promises: every event has a key of the         *)
(* client's, and however often it is sent, it enters the books once, whole, *)
(* and only while the goods are there.                                     *)
(***************************************************************************)
EXTENDS Integers

CONSTANTS
  Event,
  Effect,    \* what an event does to the stock, by event: an integer
  Opening    \* the stock before, a natural number

VARIABLES wanted, booked, stock

vars == <<wanted, booked, stock>>

Init == wanted = {} /\ booked = {} /\ stock = Opening

Want(e) ==
  /\ e \notin wanted
  /\ wanted' = wanted \cup {e}
  /\ UNCHANGED <<booked, stock>>

Book(e) ==
  /\ e \in wanted \ booked
  /\ stock + Effect[e] >= 0
  /\ booked' = booked \cup {e}
  /\ stock' = stock + Effect[e]
  /\ UNCHANGED wanted

Next == \E e \in Event : Want(e) \/ Book(e)

Spec == Init /\ [][Next]_vars

=============================================================================
