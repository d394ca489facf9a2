----------------------------- MODULE OfflineSync -----------------------------
(***************************************************************************)
(* Sales and purchases made without a network: the queue in the phone's    *)
(* storage and the engine that empties it (miniprogram/utils/              *)
(* offline-sync.js), the endpoint that books them (routers/inventory.py,   *)
(* services/offline_sync.py), and the dead letters of those that found no  *)
(* goods, replayed by the worker and by administrators.  The network loses *)
(* requests and answers, the phone gives up on requests that still run,    *)
(* and the phone, the server and the worker may die at any point.          *)
(***************************************************************************)
EXTENDS Integers, Sequences, FiniteSets

CONSTANTS
  NumItems,      \* events are numbered in the order they are queued
  Effect,        \* what an event does to the stock: a purchase adds, a sale takes
  Opening,       \* the stock before
  MaxQueue,      \* maxItems
  MaxTries,      \* maxRetries of the engine
  MaxReplays,    \* max_retries of a dead letter
  Upload,        \* requests the server can work on at once
  Admin, Worker, \* who replays dead letters
  Nobody,
  MaxLetters,    \* bound: dead letters
  MaxKills       \* bound: deaths of the phone's program and of the worker

ASSUME OfflineConstants ==
  /\ NumItems \in Nat /\ Effect \in [1 .. NumItems -> Int]
  /\ Opening \in Nat /\ MaxQueue \in Nat /\ MaxTries \in Nat /\ MaxReplays \in Nat
  /\ MaxLetters \in Nat /\ MaxKills \in Nat
  /\ Nobody \notin Upload
  /\ Worker \notin Admin

VARIABLES
  made,       \* events queued so far
  queue,      \* the phone's storage
  engine,     \* the pass over it that runs
  uploads,    \* the endpoint's requests
  booked,     \* rows of inventory_records per key
  stock,      \* what the batches hold
  letters,    \* dead_letter_events
  pass,       \* what the worker's scan has loaded and not replayed yet
  replays,    \* the letter each replayer is working on, as it was loaded
  dayClosed,  \* the settlement of the events' day
  kills

phone  == <<made, queue, engine>>
books  == <<booked, stock>>
dead   == <<letters, pass, replays>>
vars   == <<phone, uploads, books, dead, dayClosed, kills>>

Item     == 1 .. NumItems
Replayer == Admin \cup {Worker}

Row    == [status : {"absent", "pending", "syncing", "failed"}, tries : Nat]
Gone   == [status |-> "absent", tries |-> 0]
Resting == [running |-> FALSE, todo |-> {}, item |-> 0, call |-> Nobody]
Free   == [item |-> 0, phase |-> "free", answer |-> "none"]
Idle   == [letter |-> 0, status |-> "none", tries |-> 0]

Task    == [item : 0 .. NumItems, phase : {"free", "sent", "clear", "short", "answered"},
            answer : {"none", "created", "duplicate", "error", "locked"}]
Letter  == [item : Item, status : {"pending", "resolved", "failed"}, tries : Nat,
            waived : BOOLEAN]
Replay  == [letter : Nat, status : {"none", "pending", "resolved", "failed"}, tries : Nat]

Init ==
  /\ made = 0
  /\ queue = [i \in Item |-> Gone]
  /\ engine = Resting
  /\ uploads = [u \in Upload |-> Free]
  /\ booked = [i \in Item |-> 0]
  /\ stock = Opening
  /\ letters = <<>>
  /\ pass = {}
  /\ replays = [r \in Replayer |-> Idle]
  /\ dayClosed = FALSE
  /\ kills = 0

-----------------------------------------------------------------------------
(* The phone.  Its program has one thread: what happens between two waits  *)
(* is one step.                                                            *)

With(status) == {i \in Item : queue[i].status = status}

Enqueue ==
  /\ made < NumItems
  /\ Cardinality(Item \ With("absent")) < MaxQueue
  /\ made' = made + 1
  /\ queue' = [queue EXCEPT ![made + 1] = [status |-> "pending", tries |-> 0]]
  /\ UNCHANGED <<engine, uploads, books, dead, dayClosed, kills>>

(* A pass works on the rows that are pending when it starts.               *)
Sync ==
  /\ ~engine.running
  /\ With("pending") # {}
  /\ engine' = [Resting EXCEPT !.running = TRUE, !.todo = With("pending")]
  /\ UNCHANGED <<made, queue, uploads, books, dead, dayClosed, kills>>

(* The oldest event goes first.                                            *)
IsNextItem(i) ==
  /\ engine.running /\ engine.item = 0
  /\ i \in engine.todo /\ \A j \in engine.todo : i <= j

Exhaust(i) ==
  /\ IsNextItem(i)
  /\ queue[i].tries >= MaxTries
  /\ queue' = [queue EXCEPT ![i].status = "failed"]
  /\ engine' = [engine EXCEPT !.todo = @ \ {i}]
  /\ UNCHANGED <<made, uploads, books, dead, dayClosed, kills>>

(* The request reaches the server, or it is lost on the way.               *)
Transmit(i, u) ==
  /\ IsNextItem(i)
  /\ queue[i].tries < MaxTries
  /\ queue' = [queue EXCEPT ![i].status = "syncing"]
  /\ engine' = [engine EXCEPT !.todo = @ \ {i}, !.item = i, !.call = u]
  /\ \/ u = Nobody /\ UNCHANGED uploads
     \/ /\ u \in Upload /\ uploads[u] = Free
        /\ uploads' = [uploads EXCEPT ![u] = [item |-> i, phase |-> "sent", answer |-> "none"]]
  /\ UNCHANGED <<made, books, dead, dayClosed, kills>>

Finish ==
  /\ engine.running /\ engine.item = 0 /\ engine.todo = {}
  /\ engine' = Resting
  /\ UNCHANGED <<made, queue, uploads, books, dead, dayClosed, kills>>

NextItem == engine' = [engine EXCEPT !.item = 0, !.call = Nobody]

(* Mutant: the attempts are not counted.                                   *)
MarkFailed_uncounted(i) ==
  queue' = [queue EXCEPT ![i] = [status |-> "pending", tries |-> queue[i].tries]]

MarkFailed(i) ==
  queue' = [queue EXCEPT ![i] = [status |-> "pending", tries |-> queue[i].tries + 1]]

(* Mutant: an answer of any kind takes the event off the queue.            *)
Settles_any(answer) == answer # "none"

Settles(answer) == answer \in {"created", "duplicate"}

(* Only an event the server has, just now or before, leaves the queue.     *)
Receive ==
  LET i == engine.item
      u == engine.call IN
  /\ i # 0 /\ u # Nobody /\ uploads[u].phase = "answered"
  /\ IF Settles(uploads[u].answer)
     THEN queue' = [queue EXCEPT ![i] = Gone]
     ELSE MarkFailed(i)
  /\ NextItem
  /\ uploads' = [uploads EXCEPT ![u] = Free]
  /\ UNCHANGED <<made, books, dead, dayClosed, kills>>

(* An answer nobody waits for is lost.                                     *)
HangUp ==
  uploads' = [u \in Upload |-> IF uploads[u].phase = "answered" THEN Free ELSE uploads[u]]

(* A timeout or an error of the network; the server may work on.           *)
GiveUp ==
  /\ engine.item # 0
  /\ MarkFailed(engine.item)
  /\ NextItem
  /\ HangUp
  /\ UNCHANGED <<made, books, dead, dayClosed, kills>>

RetryFailed(i) ==
  /\ queue[i].status = "failed"
  /\ queue' = [queue EXCEPT ![i] = [status |-> "pending", tries |-> 0]]
  /\ UNCHANGED <<made, engine, uploads, books, dead, dayClosed, kills>>

(* The program ends; its storage stays as it is.                           *)
Kill ==
  /\ engine.running
  /\ kills < MaxKills
  /\ kills' = kills + 1
  /\ engine' = Resting
  /\ HangUp
  /\ UNCHANGED <<made, queue, books, dead, dayClosed>>

-----------------------------------------------------------------------------
(* The endpoint.                                                           *)

Become(u, phase) == uploads' = [uploads EXCEPT ![u].phase = phase]

Answer(u, answer) ==
  uploads' = [uploads EXCEPT ![u] =
    IF engine.call = u THEN [@ EXCEPT !.phase = "answered", !.answer = answer] ELSE Free]

Short(i) == stock + Effect[i] < 0

BookItem(i) ==
  /\ booked' = [booked EXCEPT ![i] = @ + 1]
  /\ stock' = stock + Effect[i]

HasLetter(i) == \E l \in DOMAIN letters : letters[l].item = i

(* The day's settlement and the key are read; neither is locked.           *)
Admit(u) ==
  LET i == uploads[u].item IN
  /\ uploads[u].phase = "sent"
  /\ \/ dayClosed /\ Answer(u, "locked")
     \/ ~dayClosed /\ booked[i] > 0 /\ Answer(u, "duplicate")
     \/ ~dayClosed /\ booked[i] = 0 /\ Become(u, "clear")
  /\ UNCHANGED <<phone, books, dead, dayClosed, kills>>

(* One dead letter per event is enough, but the look for it and its insert *)
(* are apart and no key joins them.                                        *)
Refuse(u) == IF HasLetter(uploads[u].item) THEN Answer(u, "error") ELSE Become(u, "short")

(* Mutant: no unique key, only the look before.                            *)
Write_unkeyed(u) ==
  LET i == uploads[u].item IN
  /\ uploads[u].phase = "clear"
  /\ \/ Short(i) /\ Refuse(u) /\ UNCHANGED books
     \/ ~Short(i) /\ BookItem(i) /\ Answer(u, "created")
  /\ UNCHANGED <<phone, dead, dayClosed, kills>>

(* The savepoint: the row under its unique key and the goods of the        *)
(* batches, or neither.  A key that somebody booked since is a duplicate.  *)
Write(u) ==
  LET i == uploads[u].item IN
  /\ uploads[u].phase = "clear"
  /\ \/ booked[i] > 0 /\ Answer(u, "duplicate") /\ UNCHANGED books
     \/ booked[i] = 0 /\ Short(i) /\ Refuse(u) /\ UNCHANGED books
     \/ booked[i] = 0 /\ ~Short(i) /\ BookItem(i) /\ Answer(u, "created")
  /\ UNCHANGED <<phone, dead, dayClosed, kills>>

Bury(u) ==
  /\ uploads[u].phase = "short"
  /\ Len(letters) < MaxLetters
  /\ letters' = Append(letters, [item |-> uploads[u].item, status |-> "pending",
                                 tries |-> 0, waived |-> FALSE])
  /\ Answer(u, "error")
  /\ UNCHANGED <<phone, books, pass, replays, dayClosed, kills>>

(* The connection breaks or the server dies: what is not committed is      *)
(* undone, and no answer gets through.                                     *)
Drop(u) ==
  /\ uploads[u] # Free
  /\ uploads' = [uploads EXCEPT ![u] = Free]
  /\ engine' = [engine EXCEPT !.call = IF @ = u THEN Nobody ELSE @]
  /\ UNCHANGED <<made, queue, books, dead, dayClosed, kills>>

CloseDay ==
  /\ ~dayClosed
  /\ dayClosed' = TRUE
  /\ UNCHANGED <<phone, uploads, books, dead, kills>>

ReopenDay ==
  /\ dayClosed
  /\ dayClosed' = FALSE
  /\ UNCHANGED <<phone, uploads, books, dead, kills>>

-----------------------------------------------------------------------------
(* Dead letters.                                                           *)

(* The worker loads the pending letters that are due, and then replays     *)
(* them one by one as it has loaded them.                                  *)
Scan(due) ==
  /\ pass = {} /\ replays[Worker] = Idle
  /\ due # {}
  /\ \A l \in due : letters[l].status = "pending"
  /\ pass' = {[letter |-> l, tries |-> letters[l].tries] : l \in due}
  /\ UNCHANGED <<phone, uploads, books, letters, replays, dayClosed, kills>>

Close(r) == replays' = [replays EXCEPT ![r] = Idle]

(* The ORM writes the columns that differ from what it loaded.             *)
Put(seen, status, tries) ==
  letters' = [letters EXCEPT
    ![seen.letter].status = IF status = seen.status THEN @ ELSE status,
    ![seen.letter].tries  = IF tries = seen.tries THEN @ ELSE tries]

Resolve(seen) == Put(seen, "resolved", seen.tries)

Postpone(seen) ==
  LET tries == seen.tries + 1 IN
  Put(seen, IF tries >= MaxReplays THEN "failed" ELSE "pending", tries)

(* The first half of a replay: an event that is booked settles its letter. *)
Look(r, seen) ==
  /\ replays[r] = Idle
  /\ \/ /\ booked[letters[seen.letter].item] > 0
        /\ Resolve(seen)
        /\ UNCHANGED replays
     \/ /\ booked[letters[seen.letter].item] = 0
        /\ replays' = [replays EXCEPT ![r] = seen]
        /\ UNCHANGED letters

Pick(p) ==
  /\ p \in pass
  /\ pass' = pass \ {p}
  /\ Look(Worker, [letter |-> p.letter, status |-> "pending", tries |-> p.tries])
  /\ UNCHANGED <<phone, uploads, books, dayClosed, kills>>

(* An administrator may replay any letter.                                 *)
Open(a, l) ==
  /\ letters[l].tries <= MaxReplays
  /\ Look(a, [letter |-> l, status |-> letters[l].status, tries |-> letters[l].tries])
  /\ UNCHANGED <<phone, uploads, books, pass, dayClosed, kills>>

Target(r) == letters[replays[r].letter].item

(* The second half of a replay: the booking and the letter's status are    *)
(* one transaction.  A key booked since the look is an error like another. *)
Redo(r) ==
  LET i == Target(r) IN
  /\ replays[r] # Idle
  /\ \/ (booked[i] > 0 \/ Short(i)) /\ Postpone(replays[r]) /\ UNCHANGED books
     \/ booked[i] = 0 /\ ~Short(i) /\ BookItem(i) /\ Resolve(replays[r])
  /\ Close(r)
  /\ UNCHANGED <<phone, uploads, pass, dayClosed, kills>>

(* An administrator marks a letter as settled without a replay.            *)
Waive(l) ==
  /\ letters[l].status # "resolved"
  /\ letters' = [letters EXCEPT ![l].status = "resolved", ![l].waived = TRUE]
  /\ UNCHANGED <<phone, uploads, books, pass, replays, dayClosed, kills>>

(* A replay is rolled back with the process it runs in.                    *)
Abort(r) ==
  /\ replays[r] # Idle
  /\ r = Worker => kills < MaxKills
  /\ kills' = IF r = Worker THEN kills + 1 ELSE kills
  /\ pass' = IF r = Worker THEN {} ELSE pass
  /\ Close(r)
  /\ UNCHANGED <<phone, uploads, books, letters, dayClosed>>

-----------------------------------------------------------------------------
Engine ==
  \/ Sync \/ Finish \/ Receive \/ GiveUp
  \/ \E i \in Item : Exhaust(i)
  \/ \E i \in Item, u \in Upload \cup {Nobody} : Transmit(i, u)

Work ==
  \/ Scan({l \in DOMAIN letters : letters[l].status = "pending"})
  \/ \E p \in pass : Pick(p)
  \/ Redo(Worker)

Next ==
  \/ Enqueue
  \/ Sync
  \/ \E i \in Item : Exhaust(i)
  \/ \E i \in Item, u \in Upload \cup {Nobody} : Transmit(i, u)
  \/ Finish
  \/ Receive
  \/ GiveUp
  \/ \E i \in Item : RetryFailed(i)
  \/ Kill
  \/ \E u \in Upload : Admit(u)
  \/ \E u \in Upload : Write(u)
  \/ \E u \in Upload : Bury(u)
  \/ \E u \in Upload : Drop(u)
  \/ CloseDay
  \/ ReopenDay
  \/ \E due \in SUBSET DOMAIN letters : Scan(due)
  \/ \E p \in pass : Pick(p)
  \/ \E a \in Admin, l \in DOMAIN letters : Open(a, l)
  \/ \E r \in Replayer : Redo(r)
  \/ \E l \in DOMAIN letters : Waive(l)
  \/ \E r \in Replayer : Abort(r)

Spec == Init /\ [][Next]_vars

(* The network comes back again and again and starts a pass, a request     *)
(* ends with an answer or a timeout; the worker's job runs every minute    *)
(* and takes what is due.  Nothing is asked of the server or of users.     *)
FairSpec == Spec /\ WF_vars(Engine) /\ WF_vars(Work)

-----------------------------------------------------------------------------
(* Properties *)

TypeOK ==
  /\ made \in 0 .. NumItems
  /\ queue \in [Item -> Row]
  /\ engine \in [running : BOOLEAN, todo : SUBSET Item, item : 0 .. NumItems,
                 call : Upload \cup {Nobody}]
  /\ uploads \in [Upload -> Task]
  /\ booked \in [Item -> Nat]
  /\ stock \in Nat
  /\ letters \in Seq(Letter)
  /\ pass \subseteq [letter : Nat, tries : Nat]
  /\ replays \in [Replayer -> Replay]
  /\ dayClosed \in BOOLEAN
  /\ kills \in Nat

(* Whatever is lost, repeated, replayed or killed, the books and the stock *)
(* move as if every event were booked at most once and whole.              *)
Promise == INSTANCE KeyedBooking WITH
  Event <- Item, wanted <- 1 .. made, booked <- {i \in Item : booked[i] > 0}
EachKeyBookedOnce == Promise!Spec

(* The phone forgets an event only when the server has booked it.          *)
NothingForgotten ==
  \A i \in 1 .. made : queue[i].status = "absent" => booked[i] = 1

(* A letter that nobody waived is resolved only if its event is booked.    *)
ResolvedIsBooked ==
  \A l \in DOMAIN letters :
    letters[l].status = "resolved" /\ ~letters[l].waived => booked[letters[l].item] = 1

(* What is settled on either side is booked.                               *)
SettledIsBooked == NothingForgotten /\ ResolvedIsBooked

(* The program was ended while this event was under way: nothing takes it  *)
(* up again, since a pass looks for pending rows only.                     *)
Stranded(i) == queue[i].status = "syncing" /\ engine.item # i

(* Every event that is queued is booked in the end or shown as failed,     *)
(* unless the program was ended while it was under way.                    *)
EventsSettle ==
  \A i \in Item : queue[i].status # "absent"
                    ~> (booked[i] = 1 \/ queue[i].status = "failed" \/ Stranded(i))

(* Every dead letter is resolved or given up in the end.                   *)
LettersSettle ==
  \A l \in 1 .. MaxLetters :
    (l \in DOMAIN letters) ~> (l \in DOMAIN letters /\ letters[l].status # "pending")

(* Neither the phone's events nor the server's letters wait for ever.      *)
EverythingSettles == EventsSettle /\ LettersSettle

(* docs: pending -> syncing -> synced or failed, whatever happens.         *)
EveryEventSettles ==
  \A i \in Item : queue[i].status # "absent"
                    ~> (booked[i] = 1 \/ queue[i].status = "failed")

(* A closed day gets no more rows.                                         *)
ClosedDayKeepsBooks == [][dayClosed => booked' = booked]_vars

=============================================================================
