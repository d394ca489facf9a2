---------------------------- MODULE Idempotency ----------------------------
(***************************************************************************)
(* core/idempotency_middleware.py: the record a write with an Idempotency- *)
(* Key leaves before its handler runs and completes after it, each in a    *)
(* transaction of its own, with the handler's commit in between.  A client *)
(* that gets no answer sends the same key again, possibly while its first  *)
(* attempt still runs; the server may die at any point.                    *)
(***************************************************************************)
EXTENDS Integers

CONSTANTS
  Attempt,          \* the times a client sends a request
  Key,              \* (principal, operation, idempotency key)
  Body,             \* hashes of request bodies
  NoBody,
  KeyOf, BodyOf,    \* what each attempt carries
  MaxCrashes,       \* bound: deaths of the server
  FailsAfterCommit  \* may a handler fail once it has committed?

ASSUME IdempotencyConstants ==
  /\ KeyOf \in [Attempt -> Key] /\ BodyOf \in [Attempt -> Body]
  /\ NoBody \notin Body
  /\ MaxCrashes \in Nat
  /\ FailsAfterCommit \in BOOLEAN

VARIABLES
  records,   \* idempotency_records: absent, processing (102) or done (2xx)
  attempts,  \* where each attempt is
  applied,   \* how often the handler's effect was committed for a key
  crashes

vars == <<records, attempts, applied, crashes>>

Absent == [state |-> "absent", body |-> NoBody]

InFlight == {"inserting", "conflict", "working", "committed", "failed"}
Answered == {"created", "replayed", "conflicting", "busy", "error", "lost"}

Init ==
  /\ records = [k \in Key |-> Absent]
  /\ attempts = [a \in Attempt |-> "unsent"]
  /\ applied = [k \in Key |-> 0]
  /\ crashes = 0

Become(a, state) == attempts' = [attempts EXCEPT ![a] = state]

Send(a) ==
  /\ attempts[a] = "unsent"
  /\ Become(a, "inserting")
  /\ UNCHANGED <<records, applied, crashes>>

(* Mutant: a record in process does not stand in the way.                  *)
Insert_again(a) ==
  LET k == KeyOf[a] IN
  /\ attempts[a] = "inserting"
  /\ IF records[k].state # "done"
     THEN /\ records' = [records EXCEPT ![k] = [state |-> "processing", body |-> BodyOf[a]]]
          /\ Become(a, "working")
     ELSE /\ Become(a, "conflict")
          /\ UNCHANGED records
  /\ UNCHANGED <<applied, crashes>>

(* The INSERT with status 102, committed on its own; the unique key        *)
(* decides between attempts that overlap.                                  *)
Insert(a) ==
  LET k == KeyOf[a] IN
  /\ attempts[a] = "inserting"
  /\ IF records[k] = Absent
     THEN /\ records' = [records EXCEPT ![k] = [state |-> "processing", body |-> BodyOf[a]]]
          /\ Become(a, "working")
     ELSE /\ Become(a, "conflict")
          /\ UNCHANGED records
  /\ UNCHANGED <<applied, crashes>>

(* Mutant: the request hash not compared.                                  *)
LookUp_any_body(a) ==
  LET row == records[KeyOf[a]] IN
  /\ attempts[a] = "conflict"
  /\ \/ row = Absent /\ Become(a, "error")
     \/ row.state = "processing" /\ Become(a, "busy")
     \/ row.state = "done" /\ Become(a, "replayed")
  /\ UNCHANGED <<records, applied, crashes>>

(* The row that stood in the way is read in a new transaction: it may be   *)
(* gone by then.                                                           *)
LookUp(a) ==
  LET row == records[KeyOf[a]] IN
  /\ attempts[a] = "conflict"
  /\ \/ row = Absent /\ Become(a, "error")
     \/ row # Absent /\ row.body # BodyOf[a] /\ Become(a, "conflicting")
     \/ row.body = BodyOf[a] /\ row.state = "processing" /\ Become(a, "busy")
     \/ row.body = BodyOf[a] /\ row.state = "done" /\ Become(a, "replayed")
  /\ UNCHANGED <<records, applied, crashes>>

(* The handler: it commits, or it rolls back and answers an error.         *)
Commit(a) ==
  /\ attempts[a] = "working"
  /\ applied' = [applied EXCEPT ![KeyOf[a]] = @ + 1]
  /\ Become(a, "committed")
  /\ UNCHANGED <<records, crashes>>

Fail(a) ==
  /\ attempts[a] = "working" \/ (FailsAfterCommit /\ attempts[a] = "committed")
  /\ Become(a, "failed")
  /\ UNCHANGED <<records, applied, crashes>>

(* A 2xx answer is cached; anything else removes the record, so that the   *)
(* client may try again with its key.                                      *)
Store(a) ==
  /\ attempts[a] = "committed"
  /\ records' = [records EXCEPT ![KeyOf[a]].state = "done"]
  /\ Become(a, "created")
  /\ UNCHANGED <<applied, crashes>>

(* Mutant: the record of a failed attempt is left as it is.               *)
Remove_kept(a) ==
  /\ attempts[a] = "failed"
  /\ Become(a, "error")
  /\ UNCHANGED <<records, applied, crashes>>

Remove(a) ==
  /\ attempts[a] = "failed"
  /\ records' = [records EXCEPT ![KeyOf[a]] = Absent]
  /\ Become(a, "error")
  /\ UNCHANGED <<applied, crashes>>

Crash ==
  /\ crashes < MaxCrashes
  /\ crashes' = crashes + 1
  /\ attempts' = [a \in Attempt |-> IF attempts[a] \in InFlight THEN "lost" ELSE attempts[a]]
  /\ UNCHANGED <<records, applied>>

Serve(a) == Insert(a) \/ LookUp(a) \/ Commit(a) \/ Fail(a) \/ Store(a) \/ Remove(a)

Next ==
  \/ \E a \in Attempt : Send(a)
  \/ \E a \in Attempt : Insert(a)
  \/ \E a \in Attempt : LookUp(a)
  \/ \E a \in Attempt : Commit(a)
  \/ \E a \in Attempt : Fail(a)
  \/ \E a \in Attempt : Store(a)
  \/ \E a \in Attempt : Remove(a)
  \/ Crash

Spec == Init /\ [][Next]_vars

(* The server works on the requests it has read; a client need not send    *)
(* one and nothing need fail.                                              *)
FairSpec == Spec /\ \A a \in Attempt : WF_vars(Serve(a))

-----------------------------------------------------------------------------
(* Properties *)

TypeOK ==
  /\ records \in [Key -> [state : {"absent", "processing", "done"}, body : Body \cup {NoBody}]]
  /\ attempts \in [Attempt -> {"unsent"} \cup InFlight \cup Answered]
  /\ applied \in [Key -> Nat]
  /\ crashes \in Nat

(* Whatever overlaps, fails or crashes, the effect of one key is committed *)
(* at most once.                                                           *)
AtMostOnce == \A k \in Key : applied[k] <= 1

(* An answer that says the write is done is true: the effect is there, and *)
(* it was asked for with this very body.                                   *)
AnswersAreTrue ==
  \A a \in Attempt : attempts[a] \in {"created", "replayed"} =>
    /\ applied[KeyOf[a]] = 1
    /\ records[KeyOf[a]].state = "done"
    /\ records[KeyOf[a]].body = BodyOf[a]

(* No key is blocked for ever: unless the server dies, a key that is being *)
(* processed is sooner or later done or free again.                        *)
KeysAreReleased ==
  \A k \in Key : records[k].state = "processing"
                  ~> (records[k].state # "processing" \/ crashes > 0)

=============================================================================
