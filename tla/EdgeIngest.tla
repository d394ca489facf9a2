----------------------------- MODULE EdgeIngest -----------------------------
(***************************************************************************)
(* edge/main.py and routers/edge.py: a controller on a stall records       *)
(* captures in a queue of its own and posts them until they are accepted.  *)
(* A pass marks what was accepted in one transaction at its end, so that a *)
(* crash or a failed row may send an event again, while an earlier request *)
(* for it still runs; the backend looks an event up before it inserts it,  *)
(* and a unique key decides.  Whose event it is depends on where the       *)
(* device is registered when the request arrives.                          *)
(***************************************************************************)
EXTENDS Integers, FiniteSets, FiniteSetsExt

CONSTANTS
  NumEvents,   \* bound: captures
  Stall,       \* the merchants of one tenant
  Req,         \* requests under way at the same time
  NoStall,
  MaxRetries,  \* posts of one row in a pass (max_retries)
  MaxFaults,   \* bound: crashes, timeouts, lost requests
  MaxMoves     \* bound: registrations, deactivations and activations

Event == 1 .. NumEvents

VARIABLES
  queue,     \* pending_records: none, queued, synced or purged
  pass,      \* sync_pending_records: rows to send, accepted rows, posts of a row
  requests,  \* what each request has come to at the backend
  stored,    \* how many edge_events rows of a stall an event has
  reg,       \* where the device's serial number is registered
  faults, moves

vars == <<queue, pass, requests, stored, reg, faults, moves>>

Free == [event |-> 0, stall |-> NoStall, state |-> "free"]
Idle == [state |-> "idle", todo |-> {}, done |-> {}, tries |-> 0, req |-> 0]

Init ==
  /\ queue = [e \in Event |-> "none"]
  /\ pass = Idle
  /\ requests = [r \in Req |-> Free]
  /\ stored = [m \in Stall |-> [e \in Event |-> 0]]
  /\ reg \in {[m \in Stall |-> IF m = home THEN "active" ELSE "none"] : home \in Stall}
  /\ faults = 0
  /\ moves = 0

(***************************************************************************)
(* The controller, a single thread.                                        *)
(***************************************************************************)

Capture(e) ==
  /\ pass.state = "idle"
  /\ queue[e] = "none" /\ \A d \in 1 .. (e - 1) : queue[d] # "none"
  /\ queue' = [queue EXCEPT ![e] = "queued"]
  /\ UNCHANGED <<pass, requests, stored, reg, faults, moves>>

Queued == {e \in Event : queue[e] = "queued"}

BeginPass ==
  /\ pass.state = "idle" /\ Queued # {}
  /\ pass' = [Idle EXCEPT !.state = "sending", !.todo = Queued]
  /\ UNCHANGED <<queue, requests, stored, reg, faults, moves>>

Post(r) ==
  /\ pass.state = "sending" /\ pass.todo # {}
  /\ requests[r] = Free
  /\ requests' = [requests EXCEPT ![r] = [Free EXCEPT !.event = Min(pass.todo), !.state = "sent"]]
  /\ pass' = [pass EXCEPT !.state = "waiting", !.req = r, !.tries = @ + 1]
  /\ UNCHANGED <<queue, stored, reg, faults, moves>>

(* The marks of a pass are committed together, when it is over.            *)
Marked(accepted) == [e \in Event |-> IF e \in accepted THEN "synced" ELSE queue[e]]

(* Mutant: every answer counts as accepted.                                *)
Answer_any ==
  LET r == pass.req IN
  /\ pass.state = "waiting" /\ requests[r].state \in {"accepted", "refused"}
  /\ pass' = [pass EXCEPT !.state = "sending", !.tries = 0, !.done = @ \union {requests[r].event},
                          !.todo = @ \ {requests[r].event}, !.req = 0]
  /\ requests' = [requests EXCEPT ![r] = Free]
  /\ UNCHANGED <<queue, stored, reg, faults, moves>>

(* An accepted row is done, a refused one is posted again at once.         *)
Answer ==
  LET r == pass.req IN
  /\ pass.state = "waiting" /\ requests[r].state \in {"accepted", "refused"}
  /\ pass' = IF requests[r].state = "accepted"
             THEN [pass EXCEPT !.state = "sending", !.tries = 0, !.done = @ \union {requests[r].event},
                               !.todo = @ \ {requests[r].event}, !.req = 0]
             ELSE [pass EXCEPT !.state = IF pass.tries < MaxRetries THEN "sending" ELSE "over",
                               !.req = 0]
  /\ requests' = [requests EXCEPT ![r] = Free]
  /\ UNCHANGED <<queue, stored, reg, faults, moves>>

EndPass ==
  /\ \/ pass.state = "sending" /\ pass.todo = {}
     \/ pass.state = "over"
  /\ queue' = Marked(pass.done)
  /\ pass' = Idle
  /\ UNCHANGED <<requests, stored, reg, faults, moves>>

(* No answer in time: the pass ends, the request goes on.                  *)
Timeout ==
  /\ pass.state = "waiting" /\ faults < MaxFaults
  /\ pass' = [pass EXCEPT !.state = "over", !.req = 0]
  /\ faults' = faults + 1
  /\ UNCHANGED <<queue, requests, stored, reg, moves>>

(* Power is lost; the start afterwards deletes old rows that were synced.  *)
Restart(old) ==
  /\ faults < MaxFaults
  /\ \A e \in old : queue[e] = "synced"
  /\ queue' = [e \in Event |-> IF e \in old THEN "purged" ELSE queue[e]]
  /\ pass' = Idle
  /\ faults' = faults + 1
  /\ UNCHANGED <<requests, stored, reg, moves>>

(***************************************************************************)
(* The backend.                                                            *)
(***************************************************************************)

Active == {m \in Stall : reg[m] = "active"}

Become(r, state) == requests' = [requests EXCEPT ![r].state = state]

(* authenticate_device: the serial number must be registered and active at *)
(* one merchant of the tenant.  The event is then looked up.               *)
Authenticate(r) ==
  /\ requests[r].state = "sent"
  /\ requests' =
       IF Cardinality(Active) # 1 THEN [requests EXCEPT ![r].state = "refused"]
       ELSE LET m == CHOOSE m \in Active : TRUE IN
            [requests EXCEPT ![r].stall = m,
               ![r].state = IF stored[m][requests[r].event] > 0 THEN "accepted" ELSE "inserting"]
  /\ UNCHANGED <<queue, pass, stored, reg, faults, moves>>

(* The unique key (merchant_id, event_id) turns the second insert into the *)
(* answer to a duplicate.                                                  *)
Insert(r) ==
  LET m == requests[r].stall e == requests[r].event IN
  /\ requests[r].state = "inserting"
  /\ stored' = IF stored[m][e] = 0 THEN [stored EXCEPT ![m][e] = 1] ELSE stored
  /\ Become(r, "accepted")
  /\ UNCHANGED <<queue, pass, reg, faults, moves>>

(* A request or its answer is lost, or its handler fails.                  *)
Lose(r) ==
  /\ requests[r] # Free /\ faults < MaxFaults
  /\ requests' = [requests EXCEPT ![r] = Free]
  /\ pass' = IF pass.state = "waiting" /\ pass.req = r
             THEN [pass EXCEPT !.state = "over", !.req = 0] ELSE pass
  /\ faults' = faults + 1
  /\ UNCHANGED <<queue, stored, reg, moves>>

(* The answer nobody waits for any more.                                   *)
Forget(r) ==
  /\ requests[r].state \in {"accepted", "refused"} /\ pass.req # r
  /\ requests' = [requests EXCEPT ![r] = Free]
  /\ UNCHANGED <<queue, pass, stored, reg, faults, moves>>

(* register_device (once per merchant), deactivate_device, activate_device *)
SetDevice(m, from, to) ==
  /\ moves < MaxMoves
  /\ reg[m] = from
  /\ reg' = [reg EXCEPT ![m] = to]
  /\ moves' = moves + 1
  /\ UNCHANGED <<queue, pass, requests, stored, faults>>

Register(m) == SetDevice(m, "none", "active")
Deactivate(m) == SetDevice(m, "active", "inactive")
Activate(m) == SetDevice(m, "inactive", "active")

Next ==
  \/ \E e \in Event : Capture(e)
  \/ BeginPass
  \/ \E r \in Req : Post(r)
  \/ Answer
  \/ EndPass
  \/ Timeout
  \/ \E old \in SUBSET Event : Restart(old)
  \/ \E r \in Req : Authenticate(r)
  \/ \E r \in Req : Insert(r)
  \/ \E r \in Req : Lose(r)
  \/ \E r \in Req : Forget(r)
  \/ \E m \in Stall : Register(m)
  \/ \E m \in Stall : Deactivate(m)
  \/ \E m \in Stall : Activate(m)

Spec == Init /\ [][Next]_vars

(* The controller's loop and the requests the backend has go on.           *)
Fairness ==
  /\ WF_vars(BeginPass) /\ WF_vars(\E r \in Req : Post(r)) /\ WF_vars(Answer) /\ WF_vars(EndPass)
  /\ \A r \in Req : WF_vars(Authenticate(r) \/ Insert(r)) /\ WF_vars(Forget(r))

FairSpec == Spec /\ Fairness

(***************************************************************************)
(* Properties.                                                             *)
(***************************************************************************)

(* What the controller takes off its queue is stored, and a merchant has   *)
(* an event no more than once.                                             *)
SyncedIsStored ==
  \A e \in Event :
    /\ queue[e] \in {"synced", "purged"} => \E m \in Stall : stored[m][e] > 0
    /\ \A m \in Stall : stored[m][e] <= 1

(* Every capture arrives, unless the device is not accepted.               *)
EventsArrive ==
  \A e \in Event :
    queue[e] = "queued" ~> (queue[e] \in {"synced", "purged"} \/ Cardinality(Active) # 1)

(* "Each record carries a globally unique event_id. Backend deduplicates   *)
(* by event_id": a capture is stored for one merchant only.                *)
StoredOnce ==
  \A e \in Event, m, n \in Stall : m # n => stored[m][e] = 0 \/ stored[n][e] = 0

=============================================================================
