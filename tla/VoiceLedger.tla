----------------------------- MODULE VoiceLedger -----------------------------
(***************************************************************************)
(* Bookkeeping by voice (routers/voice.py, services/voice_ledger.py): what *)
(* was heard becomes drafts, a draft that is confirmed becomes a row of    *)
(* the ledger with its batch or its consumption, a customer's debt or      *)
(* repayment, or an expense, and a confirmed record can be changed or      *)
(* taken back.  Drafts are swept away in transactions of their own.        *)
(* Beside it, losses recorded by hand (routers/operations.py).  One        *)
(* product, one customer; an amount of money is the quantity it is for.    *)
(* What a customer pays at the counter is in PosOrder.                     *)
(***************************************************************************)
EXTENDS Allocation, Sequences

CONSTANTS
  NumLogs,     \* bound: voice_logs
  MaxQty,      \* bound: quantity of an event
  MaxDrafts,   \* MAX_PARSED_DRAFTS
  KeptDays,    \* days a draft is kept
  MaxDays,     \* bound: days
  MaxEdits,    \* bound: changes of records and losses by hand
  Key          \* idempotency keys of losses

VARIABLES
  logs,      \* voice_logs
  stale,     \* the logs that sweeps have found and not deleted yet
  rows,      \* rows of inventory_records with source "voice" that are not voided
  batches,   \* batch_lifecycle, oldest first
  net,       \* what the rows of customer_receivables of a log add up to
  expenses,  \* the logs that have a row in expenses
  wasted,    \* losses recorded by wasted, by key (0: not used)
  today, closed,
  torn       \* goods sold out of purchases that were taken back since

books == <<rows, batches, net, expenses>>
clock == <<today, closed>>
vars  == <<logs, stale, books, wasted, clock, torn>>

Log   == 1 .. NumLogs
Qty   == 1 .. MaxQty
Event == {e \in [kind : {"purchase", "sale", "waste", "expense"}, qty : Qty,
                 terms : {"cash", "credit", "repay"}] :
            /\ e.terms = "credit" => e.kind = "sale"
            /\ e.terms = "repay" => e.kind # "expense"}
Fresh == [status |-> "none", kind |-> "none", qty |-> 0, terms |-> "cash",
          made |-> 0, edits |-> 0]
NoRow == [qty |-> 0, kind |-> "none", day |-> 0]

Init ==
  /\ logs = [l \in Log |-> Fresh]
  /\ stale = {}
  /\ rows = [l \in Log |-> NoRow]
  /\ batches = <<>>
  /\ net = [l \in Log |-> 0]
  /\ expenses = {}
  /\ wasted = [k \in Key |-> 0]
  /\ today = 1 /\ closed = {}
  /\ torn = 0

-----------------------------------------------------------------------------
Left(bs)   == SumOf([b \in DOMAIN bs |-> bs[b].left])
Stock      == Left(batches)
Signed(r)  == IF r.kind = "purchase" THEN r.qty ELSE -r.qty
Book       == SumOf([l \in Log |-> Signed(rows[l])]) - SumOf(wasted)

(* consume_batches_fifo: the oldest first.                                 *)
Drawn(bs, q) ==
  LET before(b) == SumOf([c \in 1 .. b - 1 |-> bs[c].left])
      take(b)   == IF q > before(b) THEN Smaller(bs[b].left, q - before(b)) ELSE 0
  IN [b \in DOMAIN bs |-> [bs[b] EXCEPT !.left = @ - take(b)]]

(* rollback_batch_on_void of what went out: the newest is refilled first.  *)
Refilled(bs, q) ==
  LET room(b)  == bs[b].bought - bs[b].left
      after(b) == SumOf([c \in b + 1 .. Len(bs) |-> room(c)])
      give(b)  == IF q > after(b) THEN Smaller(room(b), q - after(b)) ELSE 0
  IN [b \in DOMAIN bs |-> [bs[b] EXCEPT !.left = @ + give(b)]]

(* rollback_batch_on_void of a purchase: of its batch remains what was     *)
(* sold from it, and nothing if that is nothing.                           *)
Reduced(bs, l) ==
  LET kept == [b \in DOMAIN bs |->
                 IF bs[b].log = l
                 THEN [log |-> 0, bought |-> bs[b].bought - bs[b].left, left |-> 0] ELSE bs[b]]
  IN Picked(kept, {b \in DOMAIN bs : kept[b].bought > 0})

RolledBack(l) ==
  CASE rows[l].kind = "purchase" -> Reduced(batches, l)
    [] rows[l].kind \in {"sale", "waste"} -> Refilled(batches, rows[l].qty)
    [] OTHER -> batches

TornBy(l) ==
  IF rows[l].kind # "purchase" THEN 0
  ELSE SumOf([b \in {c \in DOMAIN batches : batches[c].log = l} |->
                batches[b].bought - batches[b].left])

(* What booking q of the kind leaves of the batches; short: they do not    *)
(* hold it.                                                                *)
Short(bs, kind, q) == kind \in {"sale", "waste"} /\ Left(bs) < q

Booked(bs, l, kind, q) ==
  IF kind = "purchase" THEN Append(bs, [log |-> l, bought |-> q, left |-> q])
  ELSE Drawn(bs, q)

(* What the confirmation adds to the customer's debt; a repayment by voice *)
(* is not compared with the balance.                                       *)
Debt(kind, terms, q) ==
  CASE kind = "sale" /\ terms = "credit" -> q
    [] kind \in {"purchase", "sale", "waste"} /\ terms = "repay" -> -q
    [] OTHER -> 0

-----------------------------------------------------------------------------
(* One utterance, one log per event in it; nothing understood leaves a log *)
(* without an event.                                                       *)
Hear(events) ==
  LET used == Cardinality({l \in Log : logs[l].status # "none"})
      n == IF Len(events) = 0 THEN 1 ELSE Len(events)
      draft(l) == [status |-> IF events = <<>> THEN "pending" ELSE "parsed",
                   kind |-> IF events = <<>> THEN "none" ELSE events[l - used].kind,
                   qty |-> IF events = <<>> THEN 0 ELSE events[l - used].qty,
                   terms |-> IF events = <<>> THEN "cash" ELSE events[l - used].terms,
                   made |-> today, edits |-> 0] IN
  /\ used + n <= NumLogs
  /\ logs' = [l \in Log |-> IF l \in used + 1 .. used + n THEN draft(l) ELSE logs[l]]
  /\ UNCHANGED <<stale, books, wasted, clock, torn>>

(* Somebody says what was meant: the draft becomes the event e.            *)
Correct(l, e) ==
  /\ logs[l].status \in {"pending", "parsed"}
  /\ logs' = [logs EXCEPT ![l] =
       IF @.kind = "none" THEN [@ EXCEPT !.status = "parsed"]
       ELSE [@ EXCEPT !.status = "parsed", !.kind = e.kind, !.qty = e.qty, !.terms = e.terms]]
  /\ UNCHANGED <<stale, books, wasted, clock, torn>>

(* The sweeps, each in a transaction of its own after the commit of a      *)
(* request, as late as one likes: what it finds, and later deletes by id.  *)
Drafts == {l \in Log : logs[l].status = "parsed"}

Finds(found) ==
  /\ ~(found \subseteq stale)
  /\ stale' = stale \cup found
  /\ UNCHANGED <<logs, books, wasted, clock, torn>>

(* prune_stale_parsed_logs, after an utterance: the oldest drafts beyond   *)
(* the limit.                                                              *)
Prune == Finds({l \in Drafts : Cardinality({m \in Drafts : m >= l}) > MaxDrafts})

(* _cleanup_stale_voice_logs, after a confirmation: the old drafts.        *)
CleanUp ==
  /\ \E l \in Log : logs[l].status \in {"confirmed", "voided", "lost"}
  /\ Finds({l \in Log : logs[l].status \in {"pending", "parsed"} /\ logs[l].made < today - KeptDays})

(* A log found is deleted whatever became of it meanwhile.  One that was   *)
(* confirmed is lost: what it said is kept here for the properties only.   *)
Sweep(l) ==
  /\ l \in stale
  /\ stale' = stale \ {l}
  /\ logs' = [logs EXCEPT ![l] = IF @.status \in {"confirmed", "lost"} THEN [@ EXCEPT !.status = "lost"]
                                ELSE [Fresh EXCEPT !.status = "deleted"]]
  /\ UNCHANGED <<books, wasted, clock, torn>>

Confirmed(l) == logs' = [logs EXCEPT ![l].status = "confirmed"]

(* A log that was taken back is not refused by its status; but its key in  *)
(* the ledger is taken, so that only an expense, which has none, is booked *)
(* again.                                                                  *)
ConfirmStock(l) ==
  LET e == logs[l] IN
  /\ e.status = "parsed"
  /\ e.kind \in {"purchase", "sale", "waste"}
  /\ today \notin closed
  /\ ~Short(batches, e.kind, e.qty)
  /\ rows' = [rows EXCEPT ![l] = [qty |-> e.qty, kind |-> e.kind, day |-> today]]
  /\ batches' = Booked(batches, l, e.kind, e.qty)
  /\ net' = [net EXCEPT ![l] = @ + Debt(e.kind, e.terms, e.qty)]
  /\ Confirmed(l)
  /\ UNCHANGED <<stale, expenses, wasted, clock, torn>>

ConfirmExpense(l) ==
  /\ logs[l].status \in {"parsed", "voided"}
  /\ logs[l].kind = "expense"
  /\ today \notin closed
  /\ expenses' = expenses \cup {l}
  /\ Confirmed(l)
  /\ UNCHANGED <<stale, rows, batches, net, wasted, clock, torn>>

(* Mutant: the debt is left as it is.                                      *)
Align_not(l, target) == UNCHANGED net

(* sync_voice_receivables: one more row brings the log's debt to target.   *)
Align(l, target) == net' = [net EXCEPT ![l] = @ + (target - net[l])]

(* void_voice_confirmed_record, with the log locked.                       *)
TakeBack(l) ==
  /\ logs[l].status = "confirmed"
  /\ logs' = [logs EXCEPT ![l].status = "voided"]
  /\ IF rows[l] = NoRow
     THEN /\ expenses' = expenses \ {l}
          /\ UNCHANGED <<rows, batches, net, torn>>
     ELSE /\ batches' = RolledBack(l)
          /\ torn' = torn + TornBy(l)
          /\ rows' = [rows EXCEPT ![l] = NoRow]
          /\ Align(l, 0)
          /\ UNCHANGED expenses
  /\ UNCHANGED <<stale, wasted, clock>>

(* The page of the voice records looks at today's settlement, the ledger's *)
(* page at that of the record's day.                                       *)
VoidByVoice(l) == today \notin closed /\ TakeBack(l)
VoidByLedger(l) == rows[l] # NoRow /\ rows[l].day \notin closed /\ TakeBack(l)

Changes == SumOf([l \in Log |-> logs[l].edits]) + Cardinality({k \in Key : wasted[k] > 0})

(* The old row is taken back and a corrected one is booked, today; too     *)
(* little in stock undoes both.                                            *)
Edit(l, q) ==
  LET kind == rows[l].kind
      back == RolledBack(l) IN
  /\ logs[l].status = "confirmed" /\ rows[l] # NoRow
  /\ today \notin closed
  /\ Changes < MaxEdits
  /\ ~Short(back, kind, q)
  /\ batches' = Booked(back, l, kind, q)
  /\ torn' = torn + TornBy(l)
  /\ rows' = [rows EXCEPT ![l] = [qty |-> q, kind |-> kind, day |-> today]]
  /\ logs' = [logs EXCEPT ![l].qty = q, ![l].edits = @ + 1]
  /\ Align(l, Debt(kind, logs[l].terms, q))
  /\ UNCHANGED <<stale, expenses, wasted, clock>>

-----------------------------------------------------------------------------
(* By hand: losses, each with a key a retry repeats.                       *)

RecordWaste(k, q) ==
  /\ wasted[k] = 0 /\ Changes < MaxEdits
  /\ today \notin closed
  /\ Stock >= q
  /\ batches' = Drawn(batches, q)
  /\ wasted' = [wasted EXCEPT ![k] = q]
  /\ UNCHANGED <<logs, stale, rows, net, expenses, clock, torn>>

CloseDay == today \notin closed /\ closed' = closed \cup {today}
            /\ UNCHANGED <<logs, stale, books, wasted, today, torn>>
NextDay  == today < MaxDays /\ today' = today + 1
            /\ UNCHANGED <<logs, stale, books, wasted, closed, torn>>

Next ==
  \/ \E events \in {<<>>} \cup {<<e>> : e \in Event} : Hear(events)
  \/ \E e \in Event : e.kind = "sale" /\ Hear(<<e, [e EXCEPT !.kind = "expense"]>>)
  \/ \E l \in Log, e \in Event : Correct(l, e)
  \/ \E l \in Log, q \in Qty : Edit(l, q)
  \/ Prune \/ CleanUp \/ \E l \in Log : Sweep(l)
  \/ \E l \in Log : ConfirmStock(l) \/ ConfirmExpense(l) \/ VoidByVoice(l) \/ VoidByLedger(l)
  \/ \E k \in Key, q \in Qty : RecordWaste(k, q)
  \/ CloseDay \/ NextDay

Spec == Init /\ [][Next]_vars

-----------------------------------------------------------------------------
(* A confirmed record is on the books exactly as it says, a record that is *)
(* not confirmed leaves neither a row, a debt nor an expense, however often*)
(* it is changed, taken back and confirmed again.  What a record that a    *)
(* sweep lost had on the books stays there.                                *)
BooksFollowLogs ==
  \A l \in Log :
    LET e == logs[l]
        on == e.status \in {"confirmed", "lost"} IN
    /\ rows[l].kind = IF on /\ e.kind # "expense" THEN e.kind ELSE "none"
    /\ on => rows[l].qty = IF e.kind = "expense" THEN 0 ELSE e.qty
    /\ net[l] = IF on THEN Debt(e.kind, e.terms, e.qty) ELSE 0
    /\ l \in expenses <=> on /\ e.kind = "expense"

(* The batches hold what the ledger says, and beyond it exactly the goods  *)
(* that had been sold out of a purchase when it was changed or taken back: *)
(* the rows of those sales stand, their purchase does not.                 *)
StockFollowsLedger == Stock = Book + torn

(* "移除从未确认的草稿" (services/voice_ledger.py, line 38): what is swept    *)
(* away was never confirmed.                                               *)
NoneIsLost == \A l \in Log : logs[l].status # "lost"

(* "日结锁定统一拦截 ... 防日结后被冲正破坏口径" (voice.py, line 1134): the    *)
(* rows of a day whose settlement is closed stay.                          *)
ClosedDayStays ==
  [][\A l \in Log : rows[l] # NoRow /\ rows[l].day \in closed => rows'[l] = rows[l]]_vars
=============================================================================
