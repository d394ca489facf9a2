------------------------------ MODULE Stocktake ------------------------------
(***************************************************************************)
(* Counting the stall (routers/inventory.py, models/stocktake.py, the page *)
(* miniprogram/pages/stocktake): a session freezes what the ledger says,   *)
(* the stallholder counts the shelf, and completing the session books the  *)
(* difference.  Goods are bought, sold, lost and found meanwhile; counts   *)
(* that do not get through are kept on the phone and sent again later.     *)
(* Quantities are whole units; batches are summed per product.             *)
(***************************************************************************)
EXTENDS Integers, FiniteSets, FiniteSetsExt

CONSTANTS
  Product,
  Opening,       \* the goods of each product at the start
  MaxSessions,   \* bound: sessions
  MaxMoves,      \* bound: purchases, sales, losses and finds together
  MaxEntries     \* bound: counts the stallholder enters

VARIABLES
  shelf,      \* the goods there really are
  book,       \* sum of the rows of inventory_records that are not voided
  bought,     \* purchase_qty over the batches
  batches,    \* remaining_qty over the batches
  starting,   \* start requests between their reads and their insert
  sessions,   \* stocktake_sessions with their stocktake_items
  rows,       \* the rows of inventory_records with source "stocktake"
  page,       \* the session the phone shows, what it kept, what it sends
  moves, entries

goods == <<shelf, book, bought, batches>>
vars  == <<goods, starting, sessions, rows, page, moves, entries>>

Session == 1 .. MaxSessions
None    == [qty |-> -1, book |-> 0]   \* not counted

(* A count, with what the ledger said when it was taken.                   *)
Counts  == [qty : Nat \cup {-1}, book : Int]
Quiet   == [session |-> 0, product |-> "none", count |-> None, phase |-> "quiet"]
Idle    == [reading |-> FALSE, snap |-> [p \in Product |-> 0]]
Unused  == [status |-> "none", snap |-> [p \in Product |-> 0],
            count |-> [p \in Product |-> None]]

Init ==
  /\ shelf = [p \in Product |-> Opening] /\ book = shelf
  /\ bought = shelf /\ batches = shelf
  /\ starting = [i \in {1, 2} |-> Idle]
  /\ sessions = [s \in Session |-> Unused]
  /\ rows = {}
  /\ page = [session |-> 0, submit |-> Quiet, flush |-> Quiet,
             kept |-> [s \in Session |-> [p \in Product |-> None]]]
  /\ moves = 0 /\ entries = 0

-----------------------------------------------------------------------------
(* The stall.                                                              *)

Least(a, b) == IF a < b THEN a ELSE b

Moving == moves < MaxMoves /\ moves' = moves + 1
          /\ UNCHANGED <<starting, sessions, rows, page, entries>>

Buy(p) ==
  /\ Moving
  /\ shelf'   = [shelf EXCEPT ![p] = @ + 1]
  /\ book'    = [book EXCEPT ![p] = @ + 1]
  /\ bought'  = [bought EXCEPT ![p] = @ + 1]
  /\ batches' = [batches EXCEPT ![p] = @ + 1]

Sell(p) ==
  /\ Moving
  /\ shelf[p] > 0 /\ batches[p] > 0
  /\ shelf'   = [shelf EXCEPT ![p] = @ - 1]
  /\ book'    = [book EXCEPT ![p] = @ - 1]
  /\ batches' = [batches EXCEPT ![p] = @ - 1]
  /\ UNCHANGED bought

(* Nobody records these: that is what stocktakes are for.                  *)
Shrink(p) ==
  /\ Moving /\ shelf[p] > 0
  /\ shelf' = [shelf EXCEPT ![p] = @ - 1]
  /\ UNCHANGED <<book, bought, batches>>

Find(p) ==
  /\ Moving
  /\ shelf' = [shelf EXCEPT ![p] = @ + 1]
  /\ UNCHANGED <<book, bought, batches>>

-----------------------------------------------------------------------------
(* The service.  start reads without a lock and inserts afterwards; the    *)
(* others hold the row of their session from their first read on.          *)

Open == {s \in Session : sessions[s].status = "in_progress"}

BeginStart(i) ==
  /\ ~starting[i].reading
  /\ Open = {}
  /\ starting' = [starting EXCEPT ![i] = [reading |-> TRUE, snap |-> book]]
  /\ UNCHANGED <<goods, sessions, rows, page, moves, entries>>

(* The page shows the session that was started.                            *)
InsertSession(i, s) ==
  /\ starting[i].reading
  /\ sessions[s].status = "none" /\ \A t \in Session : t < s => sessions[t].status # "none"
  /\ sessions' = [sessions EXCEPT ![s] = [Unused EXCEPT !.status = "in_progress",
                                                        !.snap = starting[i].snap]]
  /\ starting' = [starting EXCEPT ![i] = Idle]
  /\ page' = [page EXCEPT !.session = s]
  /\ UNCHANGED <<goods, rows, moves, entries>>

Cancel(s) ==
  /\ sessions[s].status = "in_progress"
  /\ sessions' = [sessions EXCEPT ![s].status = "cancelled"]
  /\ UNCHANGED <<goods, starting, rows, page, moves, entries>>

Record(s, p, c) ==
  /\ sessions[s].status = "in_progress"
  /\ sessions' = [sessions EXCEPT ![s].count[p] = c]

Variance(s, p) == sessions[s].count[p].qty - sessions[s].snap[p]

Counted(s) == \A p \in Product : sessions[s].count[p] # None

(* A loss takes what the batches still hold.                               *)
Consume(p, qty) == Least(batches[p], qty)

(* Mutant: a surplus gets no batch.                                        *)
Surplus_unbatched(v) == 0

Surplus(v) == IF v > 0 THEN v ELSE 0

(* Mutant: the row of a surplus carries no quantity.                       *)
Booked_losses(v) == IF v < 0 THEN v ELSE 0

(* The row booked for a difference: waste below, adjustment above.         *)
Booked(v) == v

Adjust(s) ==
  LET v == [p \in Product |-> Variance(s, p)] IN
  /\ book' = [p \in Product |-> book[p] + Booked(v[p])]
  /\ bought' = [p \in Product |-> bought[p] + Surplus(v[p])]
  /\ batches' = [p \in Product |-> batches[p] + Surplus(v[p])
                                   - (IF v[p] < 0 THEN Consume(p, -v[p]) ELSE 0)]
  /\ rows' = rows \cup {[session |-> s, product |-> p, qty |-> v[p], voided |-> FALSE]
                           : p \in {q \in Product : v[q] # 0}}

MayComplete(s) == sessions[s].status = "in_progress"

(* The page forgets what it kept for the session.                          *)
Complete(s) ==
  /\ MayComplete(s)
  /\ Counted(s)
  /\ Adjust(s)
  /\ sessions' = [sessions EXCEPT ![s].status = "completed"]
  /\ page' = [page EXCEPT !.kept[s] = [p \in Product |-> None]]
  /\ UNCHANGED <<shelf, starting, moves, entries>>

(* A loss that is voided gives its goods back to the batches as far as     *)
(* they have room; the batch of a surplus that is voided stays.            *)
VoidAdjustment(r) ==
  LET p == r.product IN
  /\ ~r.voided
  /\ rows' = (rows \ {r}) \cup {[r EXCEPT !.voided = TRUE]}
  /\ book' = [book EXCEPT ![p] = @ - r.qty]
  /\ batches' = [batches EXCEPT ![p] =
                   @ + (IF r.qty < 0 THEN Least(bought[p] - @, -r.qty) ELSE 0)]
  /\ UNCHANGED <<shelf, bought, starting, sessions, page, moves, entries>>

-----------------------------------------------------------------------------
(* The page.  It sends one count at a time; a pass over the counts it kept *)
(* runs beside it.                                                         *)

OpenPage(s) ==
  /\ s \in Open /\ \A t \in Open : t <= s
  /\ page.session # s
  /\ page' = [page EXCEPT !.session = s]
  /\ UNCHANGED <<goods, starting, sessions, rows, moves, entries>>

Count(p) ==
  /\ page.session # 0 /\ page.submit = Quiet
  /\ entries < MaxEntries /\ entries' = entries + 1
  /\ page' = [page EXCEPT !.submit =
                [session |-> page.session, product |-> p, phase |-> "sent",
                 count |-> [qty |-> shelf[p], book |-> book[p]]]]
  /\ UNCHANGED <<goods, starting, sessions, rows, moves>>

Flush(p) ==
  /\ page.session # 0 /\ page.submit = Quiet /\ page.flush = Quiet
  /\ page.kept[page.session][p] # None
  /\ page' = [page EXCEPT !.flush =
                [session |-> page.session, product |-> p, phase |-> "sent",
                 count |-> page.kept[page.session][p]]]
  /\ UNCHANGED <<goods, starting, sessions, rows, moves, entries>>

Submit(ch) ==
  LET req == page[ch] IN
  /\ req.phase = "sent"
  /\ Record(req.session, req.product, req.count)
  /\ page' = [page EXCEPT ![ch].phase = "saved"]
  /\ UNCHANGED <<goods, starting, rows, moves, entries>>

(* What a count typed in is filed under when its answer comes: the session *)
(* the page shows by then.                                                 *)
KeptUnder(ch) == IF ch = "submit" THEN page.session ELSE page[ch].session

Saved(ch) ==
  /\ page[ch].phase = "saved"
  /\ page' = [page EXCEPT ![ch] = Quiet,
                           !.kept[KeptUnder(ch)][page[ch].product] = None]
  /\ UNCHANGED <<goods, starting, sessions, rows, moves, entries>>

(* The request or its answer is lost, or it was refused: a new count is    *)
(* kept, in place of an older one; a count of the pass stays kept.         *)
Failed(ch) ==
  /\ page[ch] # Quiet
  /\ page' = IF ch = "submit"
             THEN [page EXCEPT !.submit = Quiet, 
                                !.kept[KeptUnder(ch)][page.submit.product] = page.submit.count]
             ELSE [page EXCEPT !.flush = Quiet]
  /\ UNCHANGED <<goods, starting, sessions, rows, moves, entries>>

Next ==
  \/ \E p \in Product : Buy(p) \/ Sell(p) \/ Shrink(p) \/ Find(p) \/ Count(p) \/ Flush(p)
  \/ \E i \in {1, 2} : BeginStart(i) \/ \E s \in Session : InsertSession(i, s)
  \/ \E s \in Session : Cancel(s) \/ Complete(s) \/ OpenPage(s)
  \/ \E r \in rows : VoidAdjustment(r)
  \/ \E ch \in {"submit", "flush"} : Submit(ch) \/ Saved(ch) \/ Failed(ch)

Spec == Init /\ [][Next]_vars

-----------------------------------------------------------------------------
(* Every quantity the ledger says is there can be taken from a batch: no   *)
(* shortfall, surplus or void of an adjustment leaves the ledger above the *)
(* batches (the sale of a quantity on the books would fail), and no batch  *)
(* is filled beyond what was bought (rollback_batch_on_void).              *)
LedgerIsBacked ==
  \A p \in Product : book[p] <= batches[p] /\ batches[p] \in 0 .. bought[p]

(* Whatever arrives late, twice or after the end: a session books at most  *)
(* one row per product, only when completed, and the row says exactly what *)
(* the count it shows differs from its snapshot.                           *)
RowsMatchCounts ==
  /\ \A r \in rows :
       /\ sessions[r.session].status = "completed"
       /\ r.qty = Variance(r.session, r.product)
  /\ \A r, q \in rows : r.session = q.session /\ r.product = q.product => r = q

Completes(s) == sessions[s].status = "in_progress" /\ sessions'[s].status = "completed"

(* Undisturbed(s, p): nothing was recorded between the snapshot and the    *)
(* count, and nothing went unrecorded since.                               *)
Undisturbed(s, p) ==
  LET c == sessions[s].count[p] IN
  /\ c.book = sessions[s].snap[p]
  /\ shelf[p] - book[p] = c.qty - c.book

(* Completing a session makes the ledger say what is on the shelf, whatever *)
(* was bought and sold after the count, unless the ledger moved before it. *)
Calibrated ==
  [][\A s \in Session : Completes(s) =>
       \A p \in Product : Undisturbed(s, p) => book'[p] = shelf'[p]]_vars

(* "盘点完成，库存已校准" (inventory.py, line 1076), without the exception: a  *)
(* completed session has brought the ledger to the shelf if nothing went   *)
(* unrecorded since the count.                                             *)
AlwaysCalibrated ==
  [][\A s \in Session : Completes(s) =>
       \A p \in Product :
         LET c == sessions[s].count[p] IN
         shelf[p] - book[p] = c.qty - c.book => book'[p] = shelf'[p]]_vars

(* "已有进行中的盘点，请继续完成或取消后再开始新盘点" (line 627): one session at *)
(* a time.                                                                 *)
OneOpenSession == Cardinality(Open) <= 1
=============================================================================
