------------------------------ MODULE MCClients ------------------------------
(***************************************************************************)
(* The clients one at a time: what they share nothing of is the same in    *)
(* any order, so that the desk chosen at the start works alone.  Four      *)
(* attempts at two keys, one with another body; a plain write and one with *)
(* a key; two events, two goods, three logins.                             *)
(***************************************************************************)
EXTENDS Clients

CONSTANTS a1, a2, a3, a4, k1, k2, body, other, m1, m2

Keys   == [a \in {a1, a2, a3, a4} |-> IF a = a4 THEN k2 ELSE k1]
Bodies == [a \in {a1, a2, a3, a4} |-> IF a = a3 THEN other ELSE body]
Setups == {{"hold"}, {"refund"}, {"close"}}

VARIABLE desk

(* A desk that does not work starts in one way only.                       *)
AllInit ==
  /\ desk \in {"key", "app", "edge", "till", "login"}
  /\ Init /\ App!Init /\ Edge!Init /\ Till!Init /\ Entry!Init
  /\ desk # "edge"  => reg[m1] = "active"
  /\ desk # "till"  => used = {"hold"}
  /\ desk # "login" => \A l \in Login : logins[l].id = m1

AllNext ==
  \/ /\ desk = "key" /\ Next
     /\ UNCHANGED <<desk, appVars, edgeVars, tillVars, loginVars>>
  \/ /\ desk = "app" /\ App!Next
     /\ UNCHANGED <<desk, keyVars, edgeVars, tillVars, loginVars>>
  \/ /\ desk = "edge" /\ Edge!Next
     /\ UNCHANGED <<desk, keyVars, appVars, tillVars, loginVars>>
  \/ /\ desk = "till" /\ Till!Next
     /\ UNCHANGED <<desk, keyVars, appVars, edgeVars, loginVars>>
  \/ /\ desk = "login" /\ Entry!Next
     /\ UNCHANGED <<desk, keyVars, appVars, edgeVars, tillVars>>

(* The fairness of the modules, for the desk that works.                   *)
AllFairness ==
  /\ \A a \in Attempt : WF_keyVars(desk = "key" /\ Serve(a))
  /\ WF_appVars(desk = "app" /\ (App!LoginDone \/ App!LoginFails))
  /\ WF_appVars(desk = "app" /\ App!Serving)
  /\ \A r \in Request : /\ WF_appVars(desk = "app" /\ App!Answered(r))
                        /\ WF_appVars(desk = "app" /\ App!Retry(r))
  /\ WF_edgeVars(desk = "edge" /\ Edge!BeginPass)
  /\ WF_edgeVars(desk = "edge" /\ \E r \in Req : Edge!Post(r))
  /\ WF_edgeVars(desk = "edge" /\ Edge!Answer)
  /\ WF_edgeVars(desk = "edge" /\ Edge!EndPass)
  /\ \A r \in Req : /\ WF_edgeVars(desk = "edge" /\ (Edge!Authenticate(r) \/ Edge!Insert(r)))
                    /\ WF_edgeVars(desk = "edge" /\ Edge!Forget(r))
  /\ WF_tillVars(desk = "till" /\ Till!SyncPendingOrders)
  /\ WF_tillVars(desk = "till" /\ Till!ServeSync)
  /\ WF_tillVars(desk = "till" /\ Till!SyncAnswered)
  /\ \A l \in Login : WF_loginVars(desk = "login" /\ Entry!Step(l))

AllSpec ==
  /\ AllInit
  /\ [][AllNext]_<<desk, keyVars, appVars, edgeVars, tillVars, loginVars>>
  /\ AllFairness

-----------------------------------------------------------------------------
(* Whoever waits is answered: a key is released, every request, capture,   *)
(* order in storage and login comes to its end.                            *)
WaitingEnds ==
  /\ KeysAreReleased
  /\ App!RequestsSettle
  /\ Edge!EventsArrive
  /\ Till!QueueDrains
  /\ desk = "login" => Entry!LoginsEnd
=============================================================================
