--------------------------- MODULE Reconciliation ---------------------------
(***************************************************************************)
(* One task of services/reconciliation.py: the payments of a day and a     *)
(* channel against the statement of the channel, entry by entry.  A run    *)
(* reads payments and entries, deletes the open differences, asks which    *)
(* differences were handled, and writes new ones, totals and state of the  *)
(* task when it commits; payments arrive meanwhile, each followed by a run *)
(* of its own, and somebody resolves differences.  Nothing keeps these     *)
(* transactions apart but the locks on the rows they delete or update: a   *)
(* statement sees what was committed when it began, and the task is        *)
(* written where it differs from what was loaded.                          *)
(***************************************************************************)
EXTENDS Allocation, Sequences

CONSTANTS
  Ref,          \* transaction ids, NoRef included
  NoRef,
  Order,        \* order numbers
  Run,          \* the transactions that may be at work on the task at once
  MaxAmount,    \* bound: the amount of a payment or an entry
  MaxPayments,  \* bound: payments of the day
  MaxEntries,   \* bound: instants of the day at which entries of the statement lie
  MaxBegun      \* bound: transactions that begin

VARIABLES
  payments,  \* payments of the day, in the order they were made
  entries,   \* channel_bill_entries of the task by their instant, or Absent
  diffs,     \* reconciliation_differences of the task
  task,      \* state and diff_amount of the task
  runs,      \* what each transaction has read and is about to write, or Idle
  seen,      \* history: the payments and entries the last run to commit had read
  tangled,   \* history: did transactions commit while others were at work,
             \* and no run of its own since?
  begun      \* how many transactions began

vars == <<payments, entries, diffs, task, runs, seen, tangled, begun>>

Row == [ref : Ref, order : Order, amount : 1 .. MaxAmount]
Absent == [amount |-> 0]
Instant == 1 .. MaxEntries
Idle == [at |-> "idle"]

Init ==
  /\ payments = <<>>
  /\ entries = [t \in Instant |-> Absent]
  /\ diffs = <<>>
  /\ task = [status |-> "pending", diff |-> 0]
  /\ runs = [r \in Run |-> Idle]
  /\ seen = [payments |-> <<>>, entries |-> <<>>]
  /\ tangled = FALSE
  /\ begun = 0

(* The entries there are, by occurred_at.                                  *)
Lines(bill) == Picked(bill, {t \in Instant : bill[t] # Absent})

(***************************************************************************)
(* Matching.                                                               *)
(***************************************************************************)

(* Rows are shown by their transaction, failing that by their order.       *)
Shown(row) == IF row.ref # NoRef THEN row.ref ELSE row.order

(* The payments of `rows` not used that an entry may be: those of its      *)
(* transaction, failing these those of its order.                          *)
Candidates(rows, unused, entry) ==
  LET byRef == {p \in unused : entry.ref # NoRef /\ rows[p].ref = entry.ref}
      byOrder == {p \in unused : rows[p].order = entry.order}
  IN  IF byRef # {} THEN byRef ELSE byOrder

(* The first of them of the same amount, failing that the first.           *)
Choice(rows, candidates, entry) ==
  LET equal == {p \in candidates : rows[p].amount = entry.amount}
      among == IF equal # {} THEN equal ELSE candidates
  IN  CHOOSE p \in among : \A q \in among : p <= q

(* Mutant: a payment may be matched twice.                                 *)
MatchOne_again(rows, sofar, entry) ==
  LET candidates == Candidates(rows, DOMAIN rows, entry)
      p == IF candidates = {} THEN 0 ELSE Choice(rows, candidates, entry)
  IN  [unused |-> sofar.unused \ {p}, match |-> Append(sofar.match, p)]

MatchOne(rows, sofar, entry) ==
  LET candidates == Candidates(rows, sofar.unused, entry)
      p == IF candidates = {} THEN 0 ELSE Choice(rows, candidates, entry)
  IN  [unused |-> sofar.unused \ {p}, match |-> Append(sofar.match, p)]

(* The entries one after the other: match[e] is the payment of entry e, or *)
(* 0 for an entry of the channel only.                                     *)
Matching(rows, lines) ==
  LET After[n \in 0 .. Len(lines)] ==
        IF n = 0 THEN [unused |-> DOMAIN rows, match |-> <<>>]
        ELSE MatchOne(rows, After[n - 1], lines[n])
  IN After[Len(lines)]

(* due: the transactions that have found the row to delete or update it.   *)
Difference(type, system, channel) ==
  [type |-> type, system |-> system, channel |-> channel, status |-> "open", due |-> {}]

Key(d) == <<d.type, d.system, d.channel>>

Found(rows, lines) ==
  LET m == Matching(rows, lines)
      open(e) == IF m.match[e] = 0
                 THEN Difference("channel_only", NoRef, Shown(lines[e]))
                 ELSE Difference("amount_mismatch", Shown(rows[m.match[e]]), Shown(lines[e]))
      unpaired == {e \in DOMAIN lines :
                     m.match[e] # 0 => rows[m.match[e]].amount # lines[e].amount}
  IN  Picked([e \in DOMAIN lines |-> open(e)], unpaired)
        \o Picked([p \in DOMAIN rows |-> Difference("system_only", Shown(rows[p]), NoRef)], m.unused)

Total(rows) == Sum(LAMBDA p : rows[p].amount, DOMAIN rows)

(***************************************************************************)
(* The transactions.                                                       *)
(***************************************************************************)

(* A payment of the channel commits.  transaction_id is unique.            *)
Pay(row) ==
  /\ Len(payments) < MaxPayments
  /\ row.ref # NoRef => \A p \in DOMAIN payments : payments[p].ref # row.ref
  /\ payments' = Append(payments, row)
  /\ UNCHANGED <<entries, diffs, task, runs, seen, tangled, begun>>

Handled == {Key(diffs[d]) : d \in {d \in DOMAIN diffs : diffs[d].status # "open"}}

(* The rows of the list that r has found, or locked, and r with them.      *)
Marked(rows, r, D) ==
  [d \in DOMAIN rows |->
     IF d \in D THEN [rows[d] EXCEPT !.due = @ \union {r}]
     ELSE [rows[d] EXCEPT !.due = @ \ {r}]]

(* Who has a row deleted or updated, and has not committed yet.            *)
Locked(d, r) ==
  \E q \in diffs[d].due \ {r} : runs[q].at \in {"matched", "resolving"}

(* reconcile_task has its task and reads; an import has inserted an entry  *)
(* of its own, which nobody sees yet and nobody else can insert.           *)
Begin(r, bill, own) ==
  /\ runs[r] = Idle /\ begun < MaxBegun
  /\ begun' = begun + 1
  /\ runs' = [runs EXCEPT ![r] =
                [at |-> "read", payments |-> payments, bill |-> bill, own |-> own,
                 handled |-> {}, task |-> task, alone |-> TRUE]]
  /\ UNCHANGED <<payments, entries, diffs, task, seen, tangled>>

Reconcile(r) == Begin(r, entries, {})

Importing == {q \in Run : runs[q].at \in {"read", "deleting", "matched"}}

Import(r, t, line) ==
  /\ entries[t] = Absent /\ \A e \in Instant : entries[e] # line
  /\ \A q \in Importing : t \notin runs[q].own /\ \A e \in runs[q].own : runs[q].bill[e] # line
  /\ Begin(r, [entries EXCEPT ![t] = line], {t})

(* The DELETE finds the open differences there are.                        *)
Delete(r) ==
  /\ runs[r].at = "read"
  /\ diffs' = Marked(diffs, r, {d \in DOMAIN diffs : diffs[d].status = "open"})
  /\ runs' = [runs EXCEPT ![r].at = "deleting"]
  /\ UNCHANGED <<payments, entries, task, seen, tangled, begun>>

(* It waits for whoever has locked one of them, and leaves a row that was  *)
(* handled meanwhile.  After it the run asks for the handled ones.         *)
Match(r) ==
  LET found == {d \in DOMAIN diffs : r \in diffs[d].due /\ diffs[d].status = "open"}
  IN
  /\ runs[r].at = "deleting"
  /\ \A d \in found : ~Locked(d, r)
  /\ diffs' = Marked(diffs, r, found)
  /\ runs' = [runs EXCEPT ![r].at = "matched", ![r].handled = Handled]
  /\ UNCHANGED <<payments, entries, task, seen, tangled, begun>>

(* Mutant: all differences are made anew.                                  *)
Kept_none(rows, r) == <<>>

Kept(rows, r) == Picked(rows, {d \in DOMAIN rows : r \notin rows[d].due})

Verdict(new, diff) == IF new = <<>> /\ diff = 0 THEN "balanced" ELSE "exception"

(* The columns of the task that differ from what was loaded.               *)
Write(loaded, status, diff) ==
  task' = [status |-> IF status = loaded.status THEN task.status ELSE status,
           diff |-> IF diff = loaded.diff THEN task.diff ELSE diff]

(* The end of r: who is still at work has not been alone.                  *)
Ends(r) ==
  runs' = [q \in Run |-> IF q = r \/ runs[q] = Idle THEN Idle ELSE [runs[q] EXCEPT !.alone = FALSE]]

Commit(r) ==
  LET run == runs[r]
      lines == Lines(run.bill)
      found == Found(run.payments, lines)
      new == Picked(found, {d \in DOMAIN found : Key(found[d]) \notin run.handled})
      diff == Total(run.payments) - Total(lines)
  IN
  /\ run.at = "matched"
  /\ entries' = [t \in Instant |-> IF t \in run.own THEN run.bill[t] ELSE entries[t]]
  /\ IF lines = <<>>
     THEN diffs' = Kept(diffs, r) /\ Write(run.task, "pending", diff)
     ELSE diffs' = Kept(diffs, r) \o new /\ Write(run.task, Verdict(new, diff), diff)
  /\ Ends(r)
  /\ seen' = [payments |-> run.payments, entries |-> lines]
  /\ tangled' = ~run.alone
  /\ UNCHANGED <<payments, begun>>

(* A transaction that fails leaves nothing behind; the payment stands.     *)
Abort(r) ==
  /\ runs[r] # Idle
  /\ diffs' = Marked(diffs, r, {})
  /\ runs' = [runs EXCEPT ![r] = Idle]
  /\ UNCHANGED <<payments, entries, task, seen, tangled, begun>>

(* resolve_difference updates the row, for which it waits, counts what is  *)
(* still open and reads the task.  A row that was deleted meanwhile is an  *)
(* error.                                                                  *)
Resolve(r, d, status) ==
  /\ runs[r] = Idle /\ begun < MaxBegun
  /\ begun' = begun + 1
  /\ ~Locked(d, r)
  /\ diffs' = Marked(diffs, r, {d})
  /\ runs' = [runs EXCEPT ![r] =
                [at |-> "resolving", status |-> status, task |-> task, alone |-> TRUE,
                 cleared |-> \A e \in DOMAIN diffs \ {d} : diffs[e].status # "open"]]
  /\ UNCHANGED <<payments, entries, task, seen, tangled>>

Resolved(rows, r, status) ==
  [d \in DOMAIN rows |->
     IF r \in rows[d].due THEN [rows[d] EXCEPT !.status = status, !.due = @ \ {r}] ELSE rows[d]]

CommitResolve(r) ==
  LET run == runs[r]
  IN
  /\ run.at = "resolving"
  /\ diffs' = Resolved(diffs, r, run.status)
  /\ IF run.cleared
     THEN Write(run.task, IF run.task.diff = 0 THEN "balanced" ELSE "resolved", run.task.diff)
     ELSE UNCHANGED task
  /\ Ends(r)
  /\ tangled' = (tangled \/ ~run.alone)
  /\ UNCHANGED <<payments, entries, seen, begun>>

Next ==
  \/ \E row \in Row : Pay(row)
  \/ \E r \in Run : Reconcile(r)
  \/ \E r \in Run, t \in Instant, line \in Row : Import(r, t, line)
  \/ \E r \in Run : Delete(r)
  \/ \E r \in Run : Match(r)
  \/ \E r \in Run : Commit(r)
  \/ \E r \in Run : Abort(r)
  \/ \E r \in Run, d \in DOMAIN diffs, status \in {"resolved", "ignored"} : Resolve(r, d, status)
  \/ \E r \in Run : CommitResolve(r)

Spec == Init /\ [][Next]_vars

(***************************************************************************)
(* Properties.                                                             *)
(***************************************************************************)

(* A day that counts as settled, balanced or resolved, has no difference   *)
(* left open, unless transactions overlapped: the next run that works      *)
(* alone puts the task right again.                                        *)
ClearedHasNoOpen ==
  ~tangled /\ task.status \in {"balanced", "resolved"} =>
    \A d \in DOMAIN diffs : diffs[d].status # "open"

(* No payment answers for two entries; and, unless transactions overlapped *)
(* since, what the last run read and could not pair is explained by a      *)
(* difference, handled or open.                                            *)
EntriesAccounted ==
  LET m == Matching(seen.payments, seen.entries)
      Explained(row) == \E d \in DOMAIN diffs : Shown(row) \in {diffs[d].system, diffs[d].channel}
  IN
  /\ \A e, f \in DOMAIN m.match : e # f /\ m.match[e] # 0 => m.match[e] # m.match[f]
  /\ ~tangled =>
       /\ \A e \in DOMAIN m.match :
            m.match[e] = 0 \/ seen.payments[m.match[e]].amount # seen.entries[e].amount
              => Explained(seen.entries[e])
       /\ seen.entries # <<>> => \A p \in m.unused : Explained(seen.payments[p])

(* What somebody resolved or ignored is never opened again or lost.        *)
HandledStays ==
  [][\A d \in DOMAIN diffs : diffs[d].status # "open" =>
       \E e \in DOMAIN diffs' : Key(diffs'[e]) = Key(diffs[d]) /\ diffs'[e].status # "open"]_vars

(* "A rerun is idempotent": over the same payments and entries it leaves a *)
(* task that was cleared as it is.                                         *)
RerunIsIdempotent ==
  [][task.status = "resolved" /\ seen'.payments = seen.payments /\ seen'.entries = seen.entries
       => task'.status = "resolved"]_vars

=============================================================================
