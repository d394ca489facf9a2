------------------------------ MODULE MCMoney ------------------------------
(***************************************************************************)
(* The money of a sale and what becomes known of it: the order at the      *)
(* till, the owner's reports, and the page for voice notes. The three      *)
(* share no state here, so that a behaviour of all of them is their        *)
(* behaviours shuffled; the desk chosen at the start works.                *)
(***************************************************************************)
EXTENDS MCPosOrder, Money

VARIABLE desk

orderVars == vars

Rows == {<<"sale", "voice">>, <<"refund", "offline">>, <<"purchase", "offline">>}

AllInit == desk \in {"order", "report", "voice"} /\ Init /\ Report!Init /\ Voice!Init

AllNext ==
  \/ /\ desk = "order" /\ Next /\ UNCHANGED <<desk, reportVars, voiceVars>>
  \/ /\ desk = "report" /\ Report!Next /\ UNCHANGED <<desk, orderVars, voiceVars>>
  \/ /\ desk = "voice" /\ Voice!Next /\ UNCHANGED <<desk, orderVars, reportVars>>

AllSpec == AllInit /\ [][AllNext]_<<desk, orderVars, reportVars, voiceVars>>

-----------------------------------------------------------------------------
(* What is past stands: the figures of a day that is over, and an order    *)
(* that was refunded or cancelled.                                         *)
PastStands == Report!PastStands /\ FinishedIsFinal
=============================================================================
