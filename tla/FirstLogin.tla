----------------------------- MODULE FirstLogin -----------------------------
(***************************************************************************)
(* The first login through WeChat (wechat_login and                        *)
(* _get_or_create_default_tenant of routers/auth.py): it makes the         *)
(* merchant of an open id, and the tenant that all such merchants belong   *)
(* to, unless another login is just making them.  Open ids and the         *)
(* tenant's slug are unique: an insert waits for whoever has inserted the  *)
(* same row and not committed, and fails when he commits.                  *)
(***************************************************************************)
EXTENDS Integers, FiniteSets

CONSTANTS Login, OpenId, Old   \* Old: merchants from before there were tenants

VARIABLES
  tenant,      \* the default tenant is committed
  merchants,   \* open id -> "none", "unbound" or "bound", committed
  logins       \* login -> where it is, for whom, what for it reads the tenant,
               \* and what its transaction has written

vars == <<tenant, merchants, logins>>

Init ==
  /\ tenant = FALSE
  /\ merchants = [o \in OpenId |-> IF o \in Old THEN "unbound" ELSE "none"]
  /\ logins \in [Login -> {[at |-> "start", id |-> o, to |-> "read", held |-> {}] : o \in OpenId}]

Go(l, at) == logins' = [logins EXCEPT ![l].at = at]
Hold(l, row, at) == logins' = [logins EXCEPT ![l].held = @ \cup {row}, ![l].at = at]

(* A row that another transaction has written and not committed.           *)
Busy(l, row) == \E m \in Login \ {l} : row \in logins[m].held

TenantRow == <<"tenant">>
MerchantRow(l) == <<"merchant", logins[l].id>>

-----------------------------------------------------------------------------
(* Mutant: a merchant without a tenant is left as it is.                   *)
Found_as_it_is(l) ==
  IF merchants[logins[l].id] = "none" THEN [at |-> "tenant", to |-> "create"]
                                      ELSE [at |-> "commit", to |-> "read"]

(* What the merchant just read needs: nothing, a tenant, or to be made.    *)
Found(l) ==
  CASE merchants[logins[l].id] = "bound"   -> [at |-> "commit", to |-> "read"]
    [] merchants[logins[l].id] = "unbound" -> [at |-> "tenant", to |-> "bind"]
    [] merchants[logins[l].id] = "none"    -> [at |-> "tenant", to |-> "create"]

ReadMerchant(l) ==
  /\ logins[l].at = "start"
  /\ logins' = [logins EXCEPT ![l].at = Found(l).at, ![l].to = Found(l).to]
  /\ UNCHANGED <<tenant, merchants>>

ReadTenant(l) ==
  /\ logins[l].at = "tenant"
  /\ Go(l, IF tenant THEN logins[l].to ELSE "insert")
  /\ UNCHANGED <<tenant, merchants>>

(* The slug taken, all is rolled back, and the tenant is found.            *)
InsertTenant(l) ==
  /\ logins[l].at = "insert" /\ ~Busy(l, TenantRow)
  /\ IF tenant THEN logins' = [logins EXCEPT ![l].held = {}, ![l].at = logins[l].to]
               ELSE Hold(l, TenantRow, logins[l].to)
  /\ UNCHANGED <<tenant, merchants>>

(* The open id taken, all is rolled back, a tenant of its own too, and the *)
(* merchant is read again.                                                 *)
InsertMerchant(l) ==
  /\ logins[l].at = "create" /\ ~Busy(l, MerchantRow(l))
  /\ IF merchants[logins[l].id] = "none"
     THEN Hold(l, MerchantRow(l), "commit")
     ELSE logins' = [logins EXCEPT ![l].held = {}, ![l].at = Found(l).at, ![l].to = Found(l).to]
  /\ UNCHANGED <<tenant, merchants>>

Bind(l) ==
  /\ logins[l].at = "bind" /\ ~Busy(l, MerchantRow(l))
  /\ Hold(l, MerchantRow(l), "commit")
  /\ UNCHANGED <<tenant, merchants>>

Commit(l) ==
  /\ logins[l].at = "commit"
  /\ tenant' = (tenant \/ TenantRow \in logins[l].held)
  /\ merchants' = IF MerchantRow(l) \in logins[l].held
                  THEN [merchants EXCEPT ![logins[l].id] = "bound"] ELSE merchants
  /\ logins' = [logins EXCEPT ![l].held = {}, ![l].at = "in"]

(* The request is lost, and its transaction with it.                       *)
Abort(l) ==
  /\ logins[l].at \notin {"in", "lost"}
  /\ logins' = [logins EXCEPT ![l].held = {}, ![l].at = "lost"]
  /\ UNCHANGED <<tenant, merchants>>

Step(l) == \/ ReadMerchant(l) \/ ReadTenant(l) \/ InsertTenant(l) \/ InsertMerchant(l)
           \/ Bind(l) \/ Commit(l)

Next == \E l \in Login : Step(l) \/ Abort(l)

Fairness == \A l \in Login : WF_vars(Step(l))
Spec == Init /\ [][Next]_vars /\ Fairness

-----------------------------------------------------------------------------
(* Who is let in has a merchant, and it belongs to a tenant that is there; *)
(* no merchant belongs to a tenant that was rolled back.                   *)
LoginsBind ==
  /\ \A l \in Login : logins[l].at = "in" => merchants[logins[l].id] = "bound"
  /\ \A o \in OpenId : merchants[o] = "bound" => tenant

(* Every login ends, however they wait for each other.                     *)
LoginsEnd == \A l \in Login : <>(logins[l].at \in {"in", "lost"})
=============================================================================
