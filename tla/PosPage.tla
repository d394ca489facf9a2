------------------------------ MODULE PosPage ------------------------------
(***************************************************************************)
(* The till page of the mini program (miniprogram/pages/pos/pos.js): the   *)
(* cart, the requests the page sends for it, the orders it keeps in        *)
(* storage while there is no network, and the server at the other end,     *)
(* which books an order once per client_id (module PosOrder).  None of the *)
(* page's writes is retried by app.js; a request lost on its way may still *)
(* arrive after the page has given it up.                                  *)
(***************************************************************************)
EXTENDS Allocation, Sequences

CONSTANTS
  Good,        \* what customers buy
  MaxOrders,   \* bound: orders made
  MaxCalls,    \* bound: requests of the page under way at once
  Together,    \* bound: the sets of buttons used together beside checkout
  MaxFaults    \* bound: answers lost, 5xx in place of an answer, kills of the app

VARIABLES
  scanned, cart, submitting,
  calls,       \* requests of the page: kind, order and how far they are
  dialog, refunding,   \* the order of the refund dialog, 0 for none; refundSubmitting
  stored,      \* pendingPosOrders, newest first
  sync, syncAt,   \* the orders syncPendingOrders has left, and its request
  count,       \* pendingCount
  made, goods, \* orders made so far and what is in them
  late,        \* requests given up that may still arrive
  srv,         \* the server's orders
  refunded, asked,     \* units refunded, refund dialogs opened
  closed,      \* is the day settled?
  blurred,     \* goods of requests the page is wrong about
  buttons,     \* the buttons used
  faults

page   == <<cart, submitting, calls, dialog, refunding, stored, sync, syncAt, count>>
server == <<srv, refunded, closed>>
past   == <<scanned, made, goods, asked, blurred, buttons>>
vars   == <<page, server, past, late, faults>>

Order == 1 .. MaxOrders
Units == 2

Init ==
  /\ scanned = {} /\ cart = {} /\ submitting = FALSE /\ calls = {}
  /\ dialog = 0 /\ refunding = FALSE
  /\ stored = <<>> /\ sync = <<>> /\ syncAt = "out" /\ count = 0
  /\ made = 0 /\ goods = [o \in Order |-> {}] /\ late = {}
  /\ srv = [o \in Order |-> "none"]
  /\ refunded = [o \in Order |-> 0] /\ asked = [o \in Order |-> 0]
  /\ closed = FALSE /\ blurred = {} /\ buttons \in Together /\ faults = 0

Call(kind, o) == [kind |-> kind, order |-> o, at |-> "out"]
Busy == Cardinality(calls) >= MaxCalls

Pending(list) == {i \in DOMAIN list : list[i].status = "pending"}
PendingIds(list) == LET p == Picked(list, Pending(list)) IN [i \in DOMAIN p |-> p[i].order]
Others(list, o) == Picked(list, {i \in DOMAIN list : list[i].order # o})

-----------------------------------------------------------------------------
(* The page *)

AddProduct(g) ==
  /\ g \notin scanned
  /\ scanned' = scanned \cup {g} /\ cart' = cart \cup {g}
  /\ UNCHANGED <<submitting, calls, dialog, refunding, stored, sync, syncAt, count,
                 server, made, goods, asked, blurred, buttons, late, faults>>

(* doCheckout and _submitHold: a new order with a new client_id.           *)
Submit(kind) ==
  /\ cart # {} /\ ~submitting /\ ~Busy /\ made < MaxOrders
  /\ made' = made + 1
  /\ goods' = [goods EXCEPT ![made + 1] = cart]
  /\ calls' = calls \cup {Call(kind, made + 1)}
  /\ submitting' = TRUE
  /\ UNCHANGED <<scanned, cart, dialog, refunding, stored, sync, syncAt, count,
                 server, asked, blurred, buttons, late, faults>>

Checkout  == Submit("checkout")
HoldOrder == "hold" \in buttons /\ Submit("hold")

(* Asked for and not kept from by a request under way.                     *)
ResumeHeld(o) ==
  /\ srv[o] = "held" /\ ~Busy
  /\ calls' = calls \cup {Call("resume", o)}
  /\ submitting' = TRUE
  /\ UNCHANGED <<scanned, cart, dialog, refunding, stored, sync, syncAt, count,
                 server, made, goods, asked, blurred, buttons, late, faults>>

CancelHeld(o) ==
  /\ srv[o] = "held"
  /\ srv' = [srv EXCEPT ![o] = "cancelled"]
  /\ UNCHANGED <<page, refunded, closed, past, late, faults>>

OpenRefund(o) ==
  /\ "refund" \in buttons
  /\ dialog = 0 /\ srv[o] = "booked" /\ asked[o] < Units
  /\ dialog' = o
  /\ asked' = [asked EXCEPT ![o] = @ + 1]
  /\ UNCHANGED <<scanned, cart, submitting, calls, refunding, stored, sync, syncAt, count,
                 server, made, goods, blurred, buttons, late, faults>>

(* One unit of the order in the dialog.                                    *)
ConfirmRefund ==
  /\ dialog # 0 /\ ~refunding /\ ~Busy
  /\ refunding' = TRUE
  /\ calls' = calls \cup {Call("refund", dialog)}
  /\ UNCHANGED <<cart, submitting, dialog, stored, sync, syncAt, count,
                 server, past, late, faults>>

(* The button closes the day, or opens it again when the page shows it     *)
(* closed.  With count at zero nobody is warned.                           *)
CloseDay ==
  /\ "close" \in buttons
  /\ ~submitting /\ ~Busy
  /\ submitting' = TRUE
  /\ calls' = calls \cup {Call(IF closed THEN "reopen" ELSE "close", 0)}
  /\ UNCHANGED <<cart, dialog, refunding, stored, sync, syncAt, count,
                 server, past, late, faults>>

(* What the page does with the answer to one of its requests.              *)
Clears(c) == c.kind \in {"checkout", "hold"} /\ c.at = "ok"
Queues(c) == c.kind = "checkout" /\ c.at = "neterr"

Kept(c) == IF Queues(c) THEN <<[order |-> c.order, status |-> "pending"]>> \o stored ELSE stored

(* Requests whose outcome the page now takes for another one: it has       *)
(* failed although the server carried it out, or may yet do so; or the     *)
(* page no longer waits for it.                                            *)
Misread(c) ==
  IF c.kind = "refund" THEN {}
  ELSE (IF c.at \in {"neterr", "refused"} /\ c.kind = "hold" THEN goods[c.order] ELSE {})
       \cup (IF c.kind = "checkout" /\ c.at = "refused" /\ srv[c.order] = "booked"
             THEN goods[c.order] ELSE {})
       \cup UNION {goods[d.order] : d \in {e \in calls \ {c} : e.kind \in {"checkout", "hold"}}}

Answered(c) ==
  /\ c \in calls /\ c.at # "out"
  /\ calls' = calls \ {c}
  /\ submitting' = (submitting /\ c.kind = "refund")
  /\ cart' = IF Clears(c) \/ Queues(c) THEN {} ELSE cart
  /\ stored' = Kept(c)
  /\ count' = IF Queues(c) THEN count + 1 ELSE count
  /\ refunding' = (refunding /\ c.kind # "refund")
  /\ dialog' = IF c.kind = "refund" /\ c.at = "ok" THEN 0 ELSE dialog
  /\ blurred' = blurred \cup Misread(c)
  /\ UNCHANGED <<sync, syncAt, server, scanned, made, goods, asked, buttons, late, faults>>

(* loadData counts what is stored.                                         *)
LoadData ==
  /\ count # Len(PendingIds(stored))
  /\ count' = Len(PendingIds(stored))
  /\ UNCHANGED <<cart, submitting, calls, dialog, refunding, stored, sync, syncAt,
                 server, past, late, faults>>

-----------------------------------------------------------------------------
(* syncPendingOrders: one order after the other, of those pending at the   *)
(* start.                                                                  *)
SyncPendingOrders ==
  /\ sync = <<>>
  /\ PendingIds(stored) # <<>>
  /\ sync' = PendingIds(stored)
  /\ UNCHANGED <<cart, submitting, calls, dialog, refunding, stored, syncAt, count,
                 server, past, late, faults>>

(* Mutant: an order is taken off the list whatever the answer.             *)
Upload_always(list, o, at) == Others(list, o)

Upload(list, o, at) ==
  CASE at = "ok"      -> Others(list, o)
    [] at = "refused" -> [i \in DOMAIN list |->
                            IF list[i].order = o THEN [list[i] EXCEPT !.status = "failed"] ELSE list[i]]
    [] at = "neterr"  -> list

SyncAnswered ==
  /\ sync # <<>> /\ syncAt # "out"
  /\ stored' = Upload(stored, Head(sync), syncAt)
  /\ sync' = Tail(sync) /\ syncAt' = "out"
  /\ UNCHANGED <<cart, submitting, calls, dialog, refunding, count, server, past, late, faults>>

(* The link to it is shown while pendingCount is not zero.                 *)
RetryFailed ==
  /\ count > 0
  /\ stored' = [i \in DOMAIN stored |-> [stored[i] EXCEPT !.status = "pending"]]
  /\ sync' = IF sync = <<>> THEN PendingIds(stored') ELSE sync
  /\ stored' # stored
  /\ UNCHANGED <<cart, submitting, calls, dialog, refunding, syncAt, count,
                 server, past, late, faults>>

-----------------------------------------------------------------------------
(* The server.  An order it has is answered, a new one booked or refused   *)
(* (no stock, the day is closed).                                          *)
Ok(kind, o) ==
  CASE kind = "checkout" -> /\ srv[o] = "booked" \/ ~closed
                            /\ srv' = [srv EXCEPT ![o] = "booked"]
                            /\ UNCHANGED <<refunded, closed>>
    [] kind = "hold"     -> /\ ~closed
                            /\ srv' = [srv EXCEPT ![o] = "held"]
                            /\ UNCHANGED <<refunded, closed>>
    [] kind = "resume"   -> /\ ~closed /\ srv[o] = "held"
                            /\ srv' = [srv EXCEPT ![o] = "booked"]
                            /\ UNCHANGED <<refunded, closed>>
    [] kind = "refund"   -> /\ ~closed /\ refunded[o] < Units
                            /\ refunded' = [refunded EXCEPT ![o] = @ + 1]
                            /\ UNCHANGED <<srv, closed>>
    [] kind = "close"    -> closed' = TRUE  /\ UNCHANGED <<srv, refunded>>
    [] kind = "reopen"   -> closed' = FALSE /\ UNCHANGED <<srv, refunded>>

MayRefuse(kind, o) == IF kind = "checkout" THEN srv[o] # "booked" ELSE TRUE

Move(c, at) == calls' = (calls \ {c}) \cup {[c EXCEPT !.at = at]}

Serve(c) ==
  /\ c \in calls /\ c.at = "out"
  /\ \/ Ok(c.kind, c.order) /\ Move(c, "ok")
     \/ MayRefuse(c.kind, c.order) /\ Move(c, "refused") /\ UNCHANGED server
  /\ UNCHANGED <<cart, submitting, dialog, refunding, stored, sync, syncAt, count, past, late, faults>>

ServeSync ==
  /\ sync # <<>> /\ syncAt = "out"
  /\ \/ Ok("checkout", Head(sync)) /\ syncAt' = "ok"
     \/ MayRefuse("checkout", Head(sync)) /\ syncAt' = "refused" /\ UNCHANGED server
  /\ UNCHANGED <<cart, submitting, calls, dialog, refunding, stored, sync, count, past, late, faults>>

ServeLate(c) ==
  /\ c \in late
  /\ late' = late \ {c}
  /\ Ok(c.kind, c.order) \/ (MayRefuse(c.kind, c.order) /\ UNCHANGED server)
  /\ UNCHANGED <<page, past, faults>>

-----------------------------------------------------------------------------
(* Faults *)

Fault == faults < MaxFaults /\ faults' = faults + 1

Lose(c) ==
  /\ Fault
  /\ c \in calls /\ c.at # "neterr"
  /\ Move(c, "neterr")
  /\ late' = IF c.at = "out" THEN late \cup {c} ELSE late
  /\ UNCHANGED <<cart, submitting, dialog, refunding, stored, sync, syncAt, count, server, past>>

Garble(c) ==
  /\ Fault
  /\ c \in calls /\ c.at = "ok"
  /\ Move(c, "refused")
  /\ UNCHANGED <<cart, submitting, dialog, refunding, stored, sync, syncAt, count, server, past, late>>

LoseSync ==
  /\ Fault
  /\ sync # <<>> /\ syncAt # "neterr"
  /\ syncAt' = "neterr"
  /\ late' = IF syncAt = "out" THEN late \cup {Call("checkout", Head(sync))} ELSE late
  /\ UNCHANGED <<cart, submitting, calls, dialog, refunding, stored, sync, count, server, past>>

Kill ==
  /\ Fault
  /\ cart' = {} /\ submitting' = FALSE /\ calls' = {}
  /\ dialog' = 0 /\ refunding' = FALSE /\ sync' = <<>> /\ syncAt' = "out" /\ count' = 0
  /\ late' = late \cup {c \in calls : c.at = "out"}
                  \cup (IF sync # <<>> /\ syncAt = "out" THEN {Call("checkout", Head(sync))} ELSE {})
  /\ UNCHANGED <<stored, server, past>>

Next ==
  \/ \E g \in Good : AddProduct(g)
  \/ Checkout \/ HoldOrder \/ ConfirmRefund \/ CloseDay \/ LoadData
  \/ \E o \in Order : ResumeHeld(o) \/ CancelHeld(o) \/ OpenRefund(o)
  \/ \E c \in calls : Answered(c) \/ Serve(c) \/ Lose(c) \/ Garble(c)
  \/ SyncPendingOrders \/ SyncAnswered \/ RetryFailed \/ ServeSync
  \/ \E c \in late : ServeLate(c)
  \/ LoseSync \/ Kill

(* The page is shown again, or the network comes back, as long as it is    *)
(* used; the server answers.                                               *)
Fairness ==
  /\ WF_vars(SyncPendingOrders) /\ WF_vars(ServeSync) /\ WF_vars(SyncAnswered)

Spec == Init /\ [][Next]_vars /\ Fairness

-----------------------------------------------------------------------------
(* An order promised to the cashier ("saved offline") stays in storage     *)
(* until the server has it.                                                *)
Storage == {stored[i].order : i \in DOMAIN stored}

QueuedIsKept ==
  [][\A o \in Order : o \in Storage => o \in Storage' \/ srv'[o] = "booked"]_vars

(* A good is sold by two orders only if the page took a request for failed *)
(* that was not, or stopped waiting for one.                               *)
SoldOnce ==
  \A g \in Good \ blurred :
    Cardinality({o \in Order : srv[o] = "booked" /\ g \in goods[o]}) <= 1

(* Every order of the queue is booked or marked as failed.                 *)
QueueDrains ==
  LET waiting == {stored[i].order : i \in Pending(stored)}
  IN \A o \in Order : o \in waiting ~> o \notin waiting

(* Known to fail (see the README): one cart, one sale; one dialog, one     *)
(* refund; the day is closed unwarned only when every order is up; what    *)
(* was scanned is in the cart or in an order.                              *)
OneCartOneSale == \A g \in Good : Cardinality({o \in Order : srv[o] = "booked" /\ g \in goods[o]}) <= 1
OneDialogOneRefund == \A o \in Order : refunded[o] <= asked[o]
ClosingIsWarned ==
  [][\A c \in calls' \ calls : c.kind = "close" /\ c.at = "out" /\ count = 0 => stored = <<>>]_vars
ScannedIsSomewhere == faults = 0 => scanned = cart \cup UNION {goods[o] : o \in Order}
=============================================================================
