------------------------------ MODULE Counter ------------------------------
(***************************************************************************)
(* What is done at the counter and behind it: the walk over the batches,   *)
(* the page for purchases, the limiter of logins and the directory of      *)
(* suppliers.  They share no state here, so that each works as if the      *)
(* others were not there.                                                  *)
(***************************************************************************)
EXTENDS ConsumeLoop, Suppliers

CONSTANTS
  Nobody, Advice, MaxItems, MaxUnits, MaxKeys, MaxPosts, MaxLosses,
  Together,                        \* of PurchasePage, beside Supplier
  Address, Policies, MaxTogether   \* of LoginLimit

ASSUME MaxItemsIsNat == MaxItems \in Nat

VARIABLES
  draft, importing, ordering, view, accepting, pay, back, posts, items, payments, noted,
  overtaken, named, skipped, used, losses,
  backend, door, setup, now, tries, lapse, locked, asks, wrong

walkVars  == vars
buyVars   == <<draft, importing, ordering, view, accepting, pay, back, posts, items,
               payments, noted, overtaken, named, skipped, used, losses>>
loginVars == <<backend, door, setup, now, tries, lapse, locked, asks, wrong>>

Buy   == INSTANCE PurchasePage
           WITH MaxQty <- MaxUnits, MaxCalls <- MaxPosts, MaxFaults <- MaxLosses,
                calls <- posts, faults <- losses, submitting <- ordering, buttons <- used
Login == INSTANCE LoginLimit WITH calls <- asks, Setups <- Policies

(* A rule locks for at least as long as it counts (WINDOW and LOCK of      *)
(* core/rate_limiter.py), and no address is taken for all of them.         *)
ASSUME LoginRules ==
  /\ "all" \notin Address /\ MaxTogether \in Nat \ {0}
  /\ \A u \in Policies :
       /\ u.backend \in {"memory", "redis"} /\ u.door \in {"staff", "admin", "wechat"}
       /\ u.requests \in Nat /\ u.from \subseteq Address
       /\ \A rule \in {u.each, u.all} :
            /\ rule.max \in Nat \ {0} /\ rule.window \in Nat /\ rule.lock \in Nat
            /\ rule.window <= rule.lock

-----------------------------------------------------------------------------
(* Purchases: advice stays noted until a list has it, the page has named   *)
(* it as unknown or its line was bought already, unless it was noted while *)
(* an import was under way; a payment is made once, and to the supplier it *)
(* was meant for.                                                          *)
BuyingHeeds == Buy!AdviceIsKept /\ Buy!PaidOnceToWhom

(* Logins: no more failures than the rule lets through, no lock without    *)
(* them.                                                                   *)
LimitsAreFair == Login!LimitsAreFair
=============================================================================
