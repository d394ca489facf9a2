--------------------------- MODULE UnitConversion ---------------------------
(***************************************************************************)
(* Units and what they are worth in each other: the relations a merchant   *)
(* keeps, for one SKU or for all (routers/catalog.py), and the conversion  *)
(* of a quantity into the base unit of its SKU that the till and the voice *)
(* ledger ask for (services/unit_conversion.py).  A factor is given by its *)
(* logarithm, so that a path of relations adds up and a reversed relation  *)
(* changes sign.                                                           *)
(***************************************************************************)
EXTENDS Integers, Sequences, SequencesExt, FiniteSetsExt

CONSTANTS
  Unit,
  Sku,
  AnySku,     \* the scope of a relation that holds for every SKU (sku_id NULL)
  Log,        \* logarithms of the factors that are asked for
  Maker,      \* requests creating a relation at once
  MaxRows,    \* bound: relations ever made
  OneAtATime  \* does one request wait for the other?

VARIABLES
  base,     \* canonical_unit of each SKU
  rows,     \* unit_conversions, oldest first; a deleted one stays as Gone
  making,   \* the relation each request is about to insert
  refused   \* the relation just refused because a chain of others gives it

vars == <<base, rows, making, refused>>

Scope    == Sku \cup {AnySku}
Relation == {r \in [from : Unit, to : Unit, log : Log, scope : Scope] :
               r.from # r.to}
Gone     == [scope |-> "gone"]
Nothing  == [scope |-> "nothing"]

Init ==
  /\ base \in [Sku -> Unit]
  /\ rows = <<>>
  /\ making = [m \in Maker |-> Nothing]
  /\ refused = Nothing

-----------------------------------------------------------------------------
Kept == {i \in DOMAIN rows : rows[i] # Gone}
Of(scope) == {rows[i] : i \in {j \in Kept : rows[j].scope = scope}}

(* Mutant: a path follows relations in the direction they were given.      *)
Steps_forward(scope) == Of(scope)

(* The relations of a scope read both ways, as steps of a path.            *)
Steps(scope) ==
  Of(scope) \cup {[r EXCEPT !.from = r.to, !.to = r.from, !.log = -r.log] : r \in Of(scope)}

(* What the paths from a unit to another say, by the units they pass.      *)
Paths(scope, from, to) ==
  LET Step[n \in Nat] ==
        IF n = 0 THEN {[at |-> from, log |-> 0]}
        ELSE Step[n - 1] \cup
               {[at |-> q[2].to, log |-> q[1].log + q[2].log] :
                  q \in {q \in Step[n - 1] \X Steps(scope) : q[1].at = q[2].from}}
  IN {p.log : p \in {q \in Step[Cardinality(Unit) - 1] : q.at = to}}

Exists(r)   == \E e \in Of(r.scope) : e.from = r.from /\ e.to = r.to
IsKnown(r)  == Paths(r.scope, r.from, r.to) # {}

-----------------------------------------------------------------------------
Free(m) == making[m] = Nothing
Alone == OneAtATime => \A m \in Maker : Free(m)

(* create_conversion up to its answer, or up to its insert.                *)
Refuse(m, r) ==
  /\ Free(m) /\ Alone
  /\ ~Exists(r) /\ IsKnown(r)
  /\ refused' = r
  /\ UNCHANGED <<base, rows, making>>

BeginCreate(m, r) ==
  /\ Free(m) /\ Alone /\ Len(rows) < MaxRows
  /\ ~Exists(r) /\ ~IsKnown(r)
  /\ making' = [making EXCEPT ![m] = r]
  /\ UNCHANGED <<base, rows, refused>>

(* uq_unit_conv does not bind rows without a SKU: NULL equals nothing.     *)
Insert(m) ==
  LET r == making[m] IN
  /\ r # Nothing
  /\ rows' = IF r.scope \in Sku /\ Exists(r) THEN rows ELSE Append(rows, r)
  /\ making' = [making EXCEPT ![m] = Nothing]
  /\ refused' = Nothing
  /\ UNCHANGED base

Delete(i) ==
  /\ i \in Kept
  /\ rows' = [rows EXCEPT ![i] = Gone]
  /\ refused' = Nothing
  /\ UNCHANGED <<base, making>>

(* update_sku: the base unit of a SKU is a field like any other.           *)
ChangeBase(s, u) ==
  /\ base[s] # u
  /\ base' = [base EXCEPT ![s] = u]
  /\ refused' = Nothing
  /\ UNCHANGED <<rows, making>>

Next ==
  \/ \E m \in Maker, r \in Relation : Refuse(m, r) \/ BeginCreate(m, r)
  \/ \E m \in Maker : Insert(m)
  \/ \E i \in DOMAIN rows : Delete(i)
  \/ \E s \in Sku, u \in Unit : ChangeBase(s, u)

Spec == Init /\ [][Next]_vars

-----------------------------------------------------------------------------
(* convert_to_base_unit: the newest relation from the unit to the base     *)
(* unit, one for the SKU before one for all; nothing if there is neither.  *)
Newest(s, u, scope) ==
  LET fit == {i \in Kept : rows[i].scope = scope /\ rows[i].from = u /\ rows[i].to = base[s]}
  IN IF fit = {} THEN {} ELSE {rows[Max(fit)].log}

Converted(s, u) ==
  IF u = base[s] THEN {0}
  ELSE IF Newest(s, u, s) # {} THEN Newest(s, u, s) ELSE Newest(s, u, AnySku)

-----------------------------------------------------------------------------
(* Within a scope the relations never contradict each other: whatever      *)
(* chain leads from one unit to another gives the same factor.  It holds   *)
(* while relations are created one at a time.                              *)
RelationsAgree ==
  \A scope \in Scope, u, v \in Unit :
    \A a, b \in Paths(scope, u, v) : a = b

(* A relation refused because it follows from others is one the conversion *)
(* can make use of.                                                        *)
RefusedIsUsable ==
  refused # Nothing =>
    \A s \in Sku : refused.scope \in {s, AnySku} /\ refused.to = base[s]
                     => Converted(s, refused.from) # {}
=============================================================================
