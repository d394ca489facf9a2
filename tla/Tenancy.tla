------------------------------ MODULE Tenancy ------------------------------
(***************************************************************************)
(* One tenant of the platform, its subscriptions and its invoices.  Three  *)
(* parties write the same rows without a lock: the jobs of worker.py, the  *)
(* administrators of the platform (routers/admin/tenants, subscriptions,   *)
(* invoices) and the passing of time.  A transaction reads, decides by     *)
(* what it read, and writes the columns it changed when it commits; its    *)
(* reads are one step here, its commit another.                            *)
(***************************************************************************)
EXTENDS Integers, FiniteSets, Sequences

CONSTANTS
  Maker,         \* who makes renewal invoices: the worker, administrators
  Worker,        \* the member of Maker that is generate_invoices
  Clerk,         \* the administrators' transactions that may run at once
  Trial,         \* days of the trial period
  Month, Year,   \* days of a billing cycle
  Notice,        \* days before its end an invoice is made (3)
  Grace,         \* days a subscription stays past due (15)
  MaxDay,        \* bound: days
  MaxSubs,       \* bound: subscriptions, those about to be added apart
  MaxInvoices,   \* bound: invoices made
  MaxEdits       \* bound: transactions of administrators, renewals apart

VARIABLES
  day,
  tenant,     \* tenants: status and end of the trial
  subs,       \* subscriptions, oldest first
  invoices,   \* saas_invoices of the subscriptions
  making,     \* the invoice each maker is about to insert, or nothing
  crossed,    \* history: the invoices made while each other's maker worked
  hands,      \* what each administrator is about to write, or Free
  hourly,     \* the status check_trial_expiry is about to write, or "idle"
  expiry,     \* the next transaction of check_subscription_expiry
  edits

billing == <<invoices, making, crossed>>
jobs == <<hourly, expiry>>
vars == <<day, tenant, subs, billing, hands, jobs, edits>>

Live == {"trialing", "active", "past_due"}

TenantMoves ==
  [trial |-> {"active", "suspended", "expired"}, active |-> {"suspended", "expired"},
   suspended |-> {"active", "expired"}, expired |-> {"trial", "active"}]

SubMoves ==
  [trialing |-> {"active", "canceled", "expired"}, active |-> {"past_due", "canceled"},
   past_due |-> {"active", "suspended", "canceled", "expired"}, canceled |-> {}, expired |-> {}]

InvoiceMoves ==
  [draft |-> {"sent", "void"}, sent |-> {"paid", "overdue", "void"},
   overdue |-> {"paid", "void"}, paid |-> {}, void |-> {}]

Nothing == [sub |-> 0]
Free == [on |-> "none"]

(* create_tenant: a tenant on trial with its subscription.                 *)
Init ==
  /\ day = 0
  /\ tenant = [status |-> "trial", trialEnds |-> Trial]
  /\ subs = << [status |-> "trialing", end |-> Trial, length |-> Month, renew |-> TRUE] >>
  /\ invoices = {}
  /\ making = [m \in Maker |-> Nothing]
  /\ crossed = {}
  /\ hands = [c \in Clerk |-> Free]
  /\ hourly = "idle"
  /\ expiry = "PastDue"
  /\ edits = 0

Tick ==
  /\ day < MaxDay
  /\ day' = day + 1
  /\ UNCHANGED <<tenant, subs, billing, hands, jobs, edits>>

(***************************************************************************)
(* The jobs.                                                               *)
(***************************************************************************)

HasStatus(states) == \E s \in DOMAIN subs : subs[s].status \in states

TrialOver == tenant.status = "trial" /\ tenant.trialEnds <= day

(* More than one row is an error: the job ends there, and so does the next.*)
Crowded ==
  \E s, t \in DOMAIN subs :
    s # t /\ subs[s].status \in {"active", "trialing"} /\ subs[t].status \in {"active", "trialing"}

CheckTrial ==
  /\ hourly = "idle" /\ TrialOver /\ ~Crowded
  /\ hourly' = IF HasStatus({"active", "trialing"}) THEN "active" ELSE "expired"
  /\ UNCHANGED <<day, tenant, subs, billing, hands, expiry, edits>>

EndTrial ==
  /\ hourly # "idle"
  /\ tenant' = [tenant EXCEPT !.status = hourly]
  /\ hourly' = "idle"
  /\ UNCHANGED <<day, subs, billing, hands, expiry, edits>>

(* An UPDATE over all rows of a status whose period ended `days` ago.      *)
Overdue(states, days, status) ==
  subs' = [s \in DOMAIN subs |->
             IF subs[s].status \in states /\ subs[s].end <= day - days
             THEN [subs[s] EXCEPT !.status = status] ELSE subs[s]]

(* Mutant: subscriptions on trial are passed over.                         *)
MarkPastDue_active ==
  /\ expiry = "PastDue"
  /\ Overdue({"active"}, 0, "past_due")
  /\ expiry' = "Expire"
  /\ UNCHANGED <<day, tenant, billing, hands, hourly, edits>>

MarkPastDue ==
  /\ expiry = "PastDue"
  /\ Overdue({"active", "trialing"}, 0, "past_due")
  /\ expiry' = "Expire"
  /\ UNCHANGED <<day, tenant, billing, hands, hourly, edits>>

MarkExpired ==
  /\ expiry = "Expire"
  /\ Overdue({"past_due"}, Grace, "expired")
  /\ expiry' = "Suspend"
  /\ UNCHANGED <<day, tenant, billing, hands, hourly, edits>>

(* Every expired subscription there ever was suspends its tenant.          *)
FindUnpaid ==
  /\ expiry = "Suspend"
  /\ expiry' = IF HasStatus({"expired"}) /\ tenant.status = "active" THEN "Write" ELSE "PastDue"
  /\ UNCHANGED <<day, tenant, subs, billing, hands, hourly, edits>>

SuspendTenant ==
  /\ expiry = "Write"
  /\ tenant' = [tenant EXCEPT !.status = "suspended"]
  /\ expiry' = "PastDue"
  /\ UNCHANGED <<day, subs, billing, hands, hourly, edits>>

(***************************************************************************)
(* Renewal invoices cover the cycle after the current one.                 *)
(***************************************************************************)

Renewal(s) ==
  [sub |-> s, from |-> subs[s].end, to |-> subs[s].end + subs[s].length, unseen |-> {}]

Overlaps(i, j) == i.sub = j.sub /\ i.from < j.to /\ j.from < i.to

Period(i) == <<i.sub, i.from>>

(* generate_invoices asks for an active subscription that renews itself    *)
(* and ends soon; generate-from-subscription for any subscription.         *)
MayInvoice(m, s) ==
  m = Worker => /\ subs[s].status = "active" /\ subs[s].renew
                /\ subs[s].end \in day .. day + Notice

(* Mutant: only the same first day is looked for.                          *)
BeginInvoice_keyed(m, s) ==
  /\ making[m] = Nothing /\ Cardinality(invoices) < MaxInvoices
  /\ MayInvoice(m, s)
  /\ \A i \in invoices : i.sub = s => i.from # subs[s].end
  /\ making' = [making EXCEPT ![m] = Renewal(s)]
  /\ UNCHANGED <<day, tenant, subs, invoices, crossed, hands, jobs, edits>>

(* get_overlapping_invoice, read before the insert.                        *)
BeginInvoice(m, s) ==
  /\ making[m] = Nothing /\ Cardinality(invoices) < MaxInvoices
  /\ MayInvoice(m, s)
  /\ \A i \in invoices : ~Overlaps(i, Renewal(s))
  /\ making' = [making EXCEPT ![m] = Renewal(s)]
  /\ UNCHANGED <<day, tenant, subs, invoices, crossed, hands, jobs, edits>>

IsMade(row) == \E i \in invoices : Period(i) = Period(row)

(* INSERT ... ON CONFLICT DO NOTHING on (subscription, period_start).      *)
Insert(row, status, byHand) ==
  invoices' =
    IF IsMade(row) THEN invoices
    ELSE invoices \union {[sub |-> row.sub, from |-> row.from, to |-> row.to,
                           status |-> status, byHand |-> byHand]}

(* Who has looked already does not see the new invoice.                    *)
Missed(row, makers) ==
  [n \in Maker |-> IF n \notin makers THEN Nothing
                   ELSE IF making[n] = Nothing \/ IsMade(row) THEN making[n]
                   ELSE [making[n] EXCEPT !.unseen = @ \union {Period(row)}]]

InsertInvoice(m) ==
  /\ making[m] # Nothing
  /\ Insert(making[m], IF m = Worker THEN "draft" ELSE "sent", FALSE)
  /\ making' = Missed(making[m], Maker \ {m})
  /\ crossed' = crossed \union {{p, Period(making[m])} : p \in making[m].unseen}
  /\ UNCHANGED <<day, tenant, subs, hands, jobs, edits>>

(* create_invoice: any period, and no look at the others.                  *)
CreateInvoice(s, from) ==
  LET row == [sub |-> s, from |-> from, to |-> from + Month]
  IN
  /\ edits < MaxEdits
  /\ edits' = edits + 1
  /\ Cardinality(invoices) < MaxInvoices
  /\ Insert(row, "draft", TRUE)
  /\ UNCHANGED <<day, tenant, subs, making, crossed, hands, jobs>>

(***************************************************************************)
(* The administrators.                                                     *)
(***************************************************************************)

Takes(c, work) ==
  /\ hands[c] = Free
  /\ edits < MaxEdits
  /\ hands' = [hands EXCEPT ![c] = work]
  /\ edits' = edits + 1
  /\ UNCHANGED <<day, tenant, subs, billing, jobs>>

(* A row read, as it shall be; `columns` are those that were changed.      *)
Row(s, new, columns, status) ==
  [on |-> "sub", of |-> s, read |-> subs[s].status, row |-> new, columns |-> columns,
   tenant |-> status]

CreateSubscription(c, length) ==
  /\ Len(subs) < MaxSubs
  /\ ~HasStatus(Live)
  /\ Takes(c, [on |-> "new",
               row |-> [status |-> "active", end |-> day + length, length |-> length,
                        renew |-> TRUE],
               tenant |-> IF tenant.status = "trial" THEN "active" ELSE "kept"])

UpdateSubscription(c, s, length, renew) ==
  LET new == [subs[s] EXCEPT !.length = length, !.renew = renew]
      changed == {col \in {"length", "renew"} : new[col] # subs[s][col]}
  IN  changed # {} /\ Takes(c, Row(s, new, changed, "kept"))

CancelSubscription(c, s) ==
  LET new == [subs[s] EXCEPT !.status = "canceled", !.renew = FALSE]
      changed == IF subs[s].renew THEN {"status", "renew"} ELSE {"status"}
  IN
  /\ "canceled" \in SubMoves[subs[s].status]
  /\ Takes(c, Row(s, new, changed, "kept"))

(* A cycle from today, wherever the last one ended.                        *)
ActivateSubscription(c, s) ==
  LET new == [subs[s] EXCEPT !.status = "active", !.end = day + subs[s].length]
  IN
  /\ "active" \in SubMoves[subs[s].status]
  /\ ~\E other \in DOMAIN subs : other # s /\ subs[other].status = "active"
  /\ Takes(c, Row(s, new, {"status", "end"},
                  IF tenant.status = "active" THEN "kept" ELSE "active"))

UpdateTenant(c, status) ==
  /\ status \in TenantMoves[tenant.status]
  /\ Takes(c, [on |-> "tenant", tenant |-> status])

Invoice(i, status) ==
  [on |-> "invoice", of |-> Period(i), read |-> i.status, status |-> status]

UpdateInvoice(c, i, status) ==
  /\ status \in InvoiceMoves[i.status] \ {"paid"}
  /\ Takes(c, Invoice(i, status))

MarkPaid(c, i) ==
  /\ "paid" \in InvoiceMoves[i.status]
  /\ Takes(c, Invoice(i, "paid"))

(* The commits: an UPDATE of the changed columns, whatever the row has     *)
(* become.                                                                 *)
WriteTenant(status) ==
  tenant' = IF status = "kept" THEN tenant ELSE [tenant EXCEPT !.status = status]

Done(c) ==
  /\ hands' = [hands EXCEPT ![c] = Free]
  /\ UNCHANGED <<day, making, crossed, jobs, edits>>

SaveSubscription(c) ==
  LET work == hands[c]
      Written(row) == [col \in DOMAIN row |->
                         IF col \in work.columns THEN work.row[col] ELSE row[col]]
  IN
  /\ work.on = "sub"
  /\ subs' = [subs EXCEPT ![work.of] = Written(subs[work.of])]
  /\ WriteTenant(work.tenant)
  /\ Done(c) /\ UNCHANGED invoices

AddSubscription(c) ==
  /\ hands[c].on = "new"
  /\ subs' = Append(subs, hands[c].row)
  /\ WriteTenant(hands[c].tenant)
  /\ Done(c) /\ UNCHANGED invoices

SaveInvoice(c) ==
  LET work == hands[c]
      Written(i) == IF Period(i) = work.of THEN [i EXCEPT !.status = work.status] ELSE i
  IN
  /\ work.on = "invoice"
  /\ invoices' = {Written(i) : i \in invoices}
  /\ Done(c) /\ UNCHANGED <<tenant, subs>>

SaveTenant(c) ==
  /\ hands[c].on = "tenant"
  /\ WriteTenant(hands[c].tenant)
  /\ Done(c) /\ UNCHANGED <<subs, invoices>>

Next ==
  \/ Tick
  \/ CheckTrial
  \/ EndTrial
  \/ MarkPastDue
  \/ MarkExpired
  \/ FindUnpaid
  \/ SuspendTenant
  \/ \E m \in Maker, s \in DOMAIN subs : BeginInvoice(m, s)
  \/ \E m \in Maker : InsertInvoice(m)
  \/ \E s \in DOMAIN subs, from \in 0 .. MaxDay : CreateInvoice(s, from)
  \/ \E c \in Clerk, i \in invoices, status \in DOMAIN InvoiceMoves : UpdateInvoice(c, i, status)
  \/ \E c \in Clerk, i \in invoices : MarkPaid(c, i)
  \/ \E c \in Clerk, length \in {Month, Year} : CreateSubscription(c, length)
  \/ \E c \in Clerk, s \in DOMAIN subs, length \in {Month, Year}, renew \in BOOLEAN :
       UpdateSubscription(c, s, length, renew)
  \/ \E c \in Clerk, s \in DOMAIN subs : CancelSubscription(c, s)
  \/ \E c \in Clerk, s \in DOMAIN subs : ActivateSubscription(c, s)
  \/ \E c \in Clerk, status \in DOMAIN TenantMoves : UpdateTenant(c, status)
  \/ \E c \in Clerk : SaveSubscription(c)
  \/ \E c \in Clerk : AddSubscription(c)
  \/ \E c \in Clerk : SaveInvoice(c)
  \/ \E c \in Clerk : SaveTenant(c)

Spec == Init /\ [][Next]_vars

(* The scheduler runs its jobs again and again.                            *)
Fairness ==
  /\ WF_vars(CheckTrial) /\ WF_vars(EndTrial)
  /\ WF_vars(MarkPastDue) /\ WF_vars(MarkExpired) /\ WF_vars(FindUnpaid) /\ WF_vars(SuspendTenant)

FairSpec == Spec /\ Fairness

(***************************************************************************)
(* Properties.                                                             *)
(***************************************************************************)

(* Two renewal invoices bill a day of a subscription only if the one was   *)
(* inserted while the maker of the other had looked and not inserted yet,  *)
(* however activations move the cycle.                                     *)
RenewalsDisjoint ==
  \A i, j \in invoices :
    i # j /\ ~i.byHand /\ ~j.byHand /\ Overlaps(i, j) => {Period(i), Period(j)} \in crossed

EndedSub == {"canceled", "expired"}
EndedInvoice == {"paid", "void"}

(* What ended, a cancelled or expired subscription, a paid or a void       *)
(* invoice, is changed by nobody who finds it so: only a transaction that  *)
(* had read the row before it ended may still write its status.            *)
EndedStays ==
  [][/\ \A s \in DOMAIN subs :
          subs[s].status \in EndedSub /\ subs'[s].status # subs[s].status =>
            \E c \in Clerk : /\ hands[c].on = "sub" /\ hands[c].of = s
                             /\ hands[c].read \notin EndedSub /\ hands'[c] = Free
     /\ \A i \in invoices :
          i.status \in EndedInvoice /\ i \notin invoices' =>
            \E c \in Clerk : /\ hands[c].on = "invoice" /\ hands[c].of = Period(i)
                             /\ hands[c].read \notin EndedInvoice /\ hands'[c] = Free]_vars

Lapsed(s) ==
  s \in DOMAIN subs /\ subs[s].status \in {"active", "trialing"} /\ subs[s].end <= day

(* A subscription whose period is over does not go on as active or on      *)
(* trial: it falls due, unless it is cancelled or its cycle starts anew.   *)
LapseIsNoticed == \A s \in 1 .. MaxSubs + Cardinality(Clerk) : Lapsed(s) ~> ~Lapsed(s)

(* A tenant does not stay on trial when its trial is over, unless it has   *)
(* two subscriptions in force, on which the job fails.                     *)
TrialEnds == TrialOver ~> (tenant.status # "trial" \/ Crowded)

(* The worker suspends a tenant that has not paid, not one that subscribed *)
(* again after an earlier subscription expired.                            *)
PayingIsServed ==
  [][tenant.status = "active" /\ tenant'.status = "suspended" /\ expiry' # expiry
       => ~HasStatus({"active"})]_vars

=============================================================================
