------------------------------ MODULE MCCounter ------------------------------
(***************************************************************************)
(* One desk at a time: what they share nothing of is the same in any       *)
(* order, so that the desk chosen at the start works alone.                *)
(***************************************************************************)
EXTENDS Counter

VARIABLE desk

Buttons == {{"import", "order", "cancel"}, {"import", "purchase"}, {"generate", "accept", "purchase"}, {"pay"},
            {"manual", "save", "purchase", "return"}, {"generate", "supplier"}}

(* Rules small enough to be reached; the window is shorter than the lock.  *)
MaxRule(n) == [max |-> n, window |-> 2, lock |-> 3]
AllRule(n) == [max |-> n, window |-> 3, lock |-> 4]
Local(d, n)  == [backend |-> "memory", door |-> d, requests |-> n, from |-> {"a1", "a2"},
                 until |-> 6, each |-> MaxRule(2), all |-> AllRule(3)]
Shared(d, n, max) == [backend |-> "redis", door |-> d, requests |-> n, from |-> {"a1"},
                      until |-> 4, each |-> MaxRule(max), all |-> AllRule(2)]

(* Failures that are forgotten although they are recent: those of requests *)
(* checked before a lock that ends, those cleared by a late success.       *)
Ending   == [backend |-> "memory", door |-> "admin", requests |-> 6, from |-> {"a1"}, until |-> 7,
             each |-> [max |-> 2, window |-> 3, lock |-> 3],
             all |-> [max |-> 5, window |-> 3, lock |-> 3]]
Clearing == [backend |-> "redis", door |-> "admin", requests |-> 5, from |-> {"a1"}, until |-> 2,
             each |-> [max |-> 1, window |-> 3, lock |-> 3],
             all |-> [max |-> 5, window |-> 3, lock |-> 3]]

Rules == {Local("staff", 5), Local("admin", 4), Local("wechat", 4),
          Shared("admin", 3, 1), Shared("wechat", 4, 2), Ending, Clearing}

Item(short, back_, ok) == [qty |-> 2, short |-> short, back |-> back_, accepted |-> TRUE,
                           ok |-> ok, late |-> ok]

Filled    == {[lead |-> -1, credit |-> 0], [lead |-> 24, credit |-> 7]}
Delivered == {Item(0, 0, TRUE), Item(1, 0, FALSE), Item(1, 1, FALSE)}

AllInit ==
  /\ desk \in {"walk", "buy", "login", "supplier"}
  /\ Init /\ Buy!Init /\ Login!Init
  /\ ServerInit({}, <<>>)
  /\ desk # "walk" => asked = 0 /\ own = {} /\ fallback /\ \A b \in Batch : remaining[b] = 0
  /\ desk # "buy" => used = {"import", "order", "cancel"}
  /\ desk # "login" => setup = Local("wechat", 4)

AllNext ==
  \/ /\ desk = "walk" /\ Next
     /\ UNCHANGED <<desk, buyVars, loginVars, server>>
  \/ /\ desk = "buy" /\ Buy!Next
     /\ UNCHANGED <<desk, walkVars, loginVars, server>>
  \/ /\ desk = "login" /\ Login!Next
     /\ UNCHANGED <<desk, walkVars, buyVars, server>>
  \/ /\ desk = "supplier" /\ ServerNext
     /\ UNCHANGED <<desk, walkVars, buyVars, loginVars>>

AllSpec == AllInit /\ [][AllNext]_<<desk, walkVars, buyVars, loginVars, server>>
=============================================================================
