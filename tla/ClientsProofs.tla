---------------------------- MODULE ClientsProofs ----------------------------
(***************************************************************************)
(* For any number of attempts, requests, tokens, captures, logins and      *)
(* faults: what each of the clients, and the record of a key at the        *)
(* server, keep to while messages are lost and actors crash.               *)
(***************************************************************************)
EXTENDS Clients, AllocationProofs

-----------------------------------------------------------------------------
(***************************************************************************)
(* The record of a key.  If a handler that has committed does not fail     *)
(* afterwards, the effect of a key is committed at most once and every     *)
(* answer that says so is true.                                            *)
(***************************************************************************)

Working == {"working", "committed", "failed"}

(* An attempt that has passed the INSERT owns the record: it is processing *)
(* and carries its body.                                                   *)
Owned == \A a \in Attempt : attempts[a] \in Working =>
           records[KeyOf[a]].state = "processing" /\ records[KeyOf[a]].body = BodyOf[a]

(* It is alone with its key: the unique key admits one INSERT.             *)
Alone == \A a, b \in Attempt :
           attempts[a] \in Working /\ attempts[b] \in Working /\ KeyOf[a] = KeyOf[b] => a = b

(* What is known of the effect in each state of the record.                *)
Effect ==
  /\ \A k \in Key : records[k].state = "absent" => records[k] = Absent /\ applied[k] = 0
  /\ \A k \in Key : records[k].state = "done" => applied[k] = 1
  /\ \A a \in Attempt : attempts[a] \in {"working", "failed"} => applied[KeyOf[a]] = 0
  /\ \A a \in Attempt : attempts[a] = "committed" => applied[KeyOf[a]] = 1

IInv == TypeOK /\ Owned /\ Alone /\ Effect /\ AtMostOnce /\ AnswersAreTrue

LEMMA InitIInv == Init => IInv
  BY IdempotencyConstants
  DEF Init, IInv, TypeOK, Owned, Alone, Effect, AtMostOnce, AnswersAreTrue, Absent,
      InFlight, Answered, Working

(* One action at a time; an attempt changes its own state and, if it owns  *)
(* it, its record.                                                         *)
LEMMA StepIInv == IInv /\ [Next]_vars /\ ~FailsAfterCommit => IInv'
<1> SUFFICES ASSUME IInv, [Next]_vars, ~FailsAfterCommit
             PROVE  IInv'
  OBVIOUS
<1>0. /\ TypeOK /\ Owned /\ Alone /\ Effect /\ AtMostOnce /\ AnswersAreTrue
      /\ ~FailsAfterCommit
      /\ KeyOf \in [Attempt -> Key] /\ BodyOf \in [Attempt -> Body]
  BY IdempotencyConstants DEF IInv
<1>1. ASSUME NEW a \in Attempt, Send(a) PROVE IInv'
  <2>1. TypeOK'
    BY <1>0, <1>1 DEF Send, Become, TypeOK, Absent, InFlight, Answered
  <2>2. Owned'
    BY <1>0, <1>1 DEF Send, Become, TypeOK, Owned, Alone, Working, Absent
  <2>3. Alone'
    BY <1>0, <1>1 DEF Send, Become, TypeOK, Owned, Alone, Working, Absent
  <2>4. Effect'
    BY <1>0, <1>1 DEF Send, Become, TypeOK, Owned, Alone, Effect, Working, Absent
  <2>5. AtMostOnce'
    BY <1>0, <1>1 DEF Send, Become, TypeOK, Owned, Effect, AtMostOnce, Working, Absent
  <2>6. AnswersAreTrue'
    BY <1>0, <1>1 DEF Send, Become, TypeOK, Owned, Effect, AnswersAreTrue, Working, Absent
  <2> QED BY <2>1, <2>2, <2>3, <2>4, <2>5, <2>6 DEF IInv
<1>2. ASSUME NEW a \in Attempt, Insert(a) PROVE IInv'
  <2>1. CASE records[KeyOf[a]] = Absent
    <3> DEFINE k   == KeyOf[a]
               row == [state |-> "processing", body |-> BodyOf[a]]
    <3>0. /\ k \in Key /\ records[k] = Absent
          /\ row \in [state : {"absent", "processing", "done"}, body : Body \cup {NoBody}]
          /\ row.state = "processing" /\ Absent.state = "absent"
      BY <1>0, <2>1 DEF Absent
    <3>1. /\ records' = [records EXCEPT ![k] = row]
          /\ attempts' = [attempts EXCEPT ![a] = "working"]
          /\ applied' = applied /\ crashes' = crashes
      BY <1>2, <2>1 DEF Insert, Become
    <3>2. \A b \in Attempt : KeyOf[b] = k => attempts[b] \notin Working
      BY <1>0, <3>0 DEF Owned, Absent
    <3>3. applied[k] = 0
      BY <1>0, <3>0 DEF Effect
    <3> HIDE DEF row, k
    <3>4. TypeOK'
      BY <1>0, <3>0, <3>1 DEF TypeOK, InFlight
    <3>5. Owned'
      BY <1>0, <3>0, <3>1, <3>2 DEF TypeOK, Owned, Working, row, k
    <3>6. Alone'
      BY <1>0, <3>0, <3>1, <3>2 DEF TypeOK, Alone, Working, k
    <3>7. Effect'
      BY <1>0, <3>0, <3>1, <3>2, <3>3 DEF TypeOK, Effect, Working, k
    <3>8. AtMostOnce'
      BY <1>0, <3>1 DEF AtMostOnce
    <3>9. AnswersAreTrue'
      BY <1>0, <3>0, <3>1, <3>3 DEF TypeOK, AnswersAreTrue, k
    <3> QED BY <3>4, <3>5, <3>6, <3>7, <3>8, <3>9 DEF IInv
  <2>2. CASE records[KeyOf[a]] # Absent
    <3>1. /\ attempts' = [attempts EXCEPT ![a] = "conflict"]
          /\ records' = records /\ applied' = applied /\ crashes' = crashes
      BY <1>2, <2>2 DEF Insert, Become
    <3> QED
      BY <1>0, <3>1 DEF IInv, TypeOK, InFlight, Owned, Alone, Effect, AtMostOnce,
                        AnswersAreTrue, Working
  <2> QED BY <2>1, <2>2
<1>3. ASSUME NEW a \in Attempt, LookUp(a) PROVE IInv'
  <2>1. TypeOK'
    BY <1>0, <1>3 DEF LookUp, Become, TypeOK, Absent, InFlight, Answered
  <2>2. Owned'
    BY <1>0, <1>3 DEF LookUp, Become, TypeOK, Owned, Alone, Working, Absent
  <2>3. Alone'
    BY <1>0, <1>3 DEF LookUp, Become, TypeOK, Owned, Alone, Working, Absent
  <2>4. Effect'
    BY <1>0, <1>3 DEF LookUp, Become, TypeOK, Owned, Alone, Effect, Working, Absent
  <2>5. AtMostOnce'
    BY <1>0, <1>3 DEF LookUp, Become, TypeOK, Owned, Effect, AtMostOnce, Working, Absent
  <2>6. AnswersAreTrue'
    BY <1>0, <1>3 DEF LookUp, Become, TypeOK, Owned, Effect, AnswersAreTrue, Working, Absent
  <2> QED BY <2>1, <2>2, <2>3, <2>4, <2>5, <2>6 DEF IInv
<1>4. ASSUME NEW a \in Attempt, Commit(a) PROVE IInv'
  <2>0. /\ attempts[a] = "working" /\ applied[KeyOf[a]] = 0
        /\ \A b \in Attempt : KeyOf[b] = KeyOf[a] /\ attempts[b] \in Working => b = a
    BY <1>0, <1>4 DEF Commit, Effect, Alone, Working
  <2>1. TypeOK'
    BY <1>0, <1>4 DEF Commit, Become, TypeOK, Absent, InFlight, Answered
  <2>2. Owned'
    BY <1>0, <1>4 DEF Commit, Become, TypeOK, Owned, Alone, Working, Absent
  <2>3. Alone'
    BY <1>0, <1>4 DEF Commit, Become, TypeOK, Owned, Alone, Working, Absent
  <2>4. Effect'
    BY <1>0, <1>4, <2>0 DEF Commit, Become, TypeOK, Owned, Effect, Working, Absent
  <2>5. AtMostOnce'
    BY <1>0, <1>4 DEF Commit, Become, TypeOK, Owned, Effect, AtMostOnce, Working, Absent
  <2>6. AnswersAreTrue'
    BY <1>0, <1>4 DEF Commit, Become, TypeOK, Owned, Effect, AnswersAreTrue, Working, Absent
  <2> QED BY <2>1, <2>2, <2>3, <2>4, <2>5, <2>6 DEF IInv
<1>5. ASSUME NEW a \in Attempt, Fail(a) PROVE IInv'
  <2>1. TypeOK'
    BY <1>0, <1>5 DEF Fail, Become, TypeOK, Absent, InFlight, Answered
  <2>2. Owned'
    BY <1>0, <1>5 DEF Fail, Become, TypeOK, Owned, Alone, Working, Absent
  <2>3. Alone'
    BY <1>0, <1>5 DEF Fail, Become, TypeOK, Owned, Alone, Working, Absent
  <2>4. Effect'
    BY <1>0, <1>5 DEF Fail, Become, TypeOK, Owned, Alone, Effect, Working, Absent
  <2>5. AtMostOnce'
    BY <1>0, <1>5 DEF Fail, Become, TypeOK, Owned, Effect, AtMostOnce, Working, Absent
  <2>6. AnswersAreTrue'
    BY <1>0, <1>5 DEF Fail, Become, TypeOK, Owned, Effect, AnswersAreTrue, Working, Absent
  <2> QED BY <2>1, <2>2, <2>3, <2>4, <2>5, <2>6 DEF IInv
<1>6. ASSUME NEW a \in Attempt, Store(a) PROVE IInv'
  <2>1. TypeOK'
    BY <1>0, <1>6 DEF Store, Become, TypeOK, Absent, InFlight, Answered
  <2>2. Owned'
    BY <1>0, <1>6 DEF Store, Become, TypeOK, Owned, Alone, Working, Absent
  <2>3. Alone'
    BY <1>0, <1>6 DEF Store, Become, TypeOK, Owned, Alone, Working, Absent
  <2>4. Effect'
    BY <1>0, <1>6 DEF Store, Become, TypeOK, Owned, Alone, Effect, Working, Absent
  <2>5. AtMostOnce'
    BY <1>0, <1>6 DEF Store, Become, TypeOK, Owned, Effect, AtMostOnce, Working, Absent
  <2>6. AnswersAreTrue'
    <3> DEFINE k == KeyOf[a]
    <3>1. k \in Key /\ applied[k] = 1
          /\ records[k].state = "processing" /\ records[k].body = BodyOf[a]
      BY <1>0, <1>6 DEF Store, Effect, Owned, Working
    <3>2. records'[k].state = "done" /\ records'[k].body = BodyOf[a]
          /\ (\A l \in Key \ {k} : records'[l] = records[l])
          /\ applied' = applied /\ attempts' = [attempts EXCEPT ![a] = "created"]
      BY <1>0, <1>6, <3>1 DEF Store, Become, TypeOK
    <3>3. ASSUME NEW b \in Attempt, attempts[b] \in {"created", "replayed"}
          PROVE  KeyOf[b] # k
      BY <1>0, <3>1, <3>3 DEF AnswersAreTrue
    <3> HIDE DEF k
    <3> QED BY <1>0, <3>1, <3>2, <3>3 DEF AnswersAreTrue, TypeOK, k
  <2> QED BY <2>1, <2>2, <2>3, <2>4, <2>5, <2>6 DEF IInv
<1>7. ASSUME NEW a \in Attempt, Remove(a) PROVE IInv'
  <2>1. TypeOK'
    BY <1>0, <1>7 DEF Remove, Become, TypeOK, Absent, InFlight, Answered
  <2>2. Owned'
    BY <1>0, <1>7 DEF Remove, Become, TypeOK, Owned, Alone, Working, Absent
  <2>3. Alone'
    BY <1>0, <1>7 DEF Remove, Become, TypeOK, Owned, Alone, Working, Absent
  <2>4. Effect'
    BY <1>0, <1>7 DEF Remove, Become, TypeOK, Owned, Alone, Effect, Working, Absent
  <2>5. AtMostOnce'
    BY <1>0, <1>7 DEF Remove, Become, TypeOK, Owned, Effect, AtMostOnce, Working, Absent
  <2>6. AnswersAreTrue'
    BY <1>0, <1>7 DEF Remove, Become, TypeOK, Owned, Effect, AnswersAreTrue, Working, Absent
  <2> QED BY <2>1, <2>2, <2>3, <2>4, <2>5, <2>6 DEF IInv
<1>8. CASE Crash
  <2>1. TypeOK'
    BY <1>0, <1>8 DEF Crash, InFlight, TypeOK, Absent, InFlight, Answered
  <2>2. Owned'
    BY <1>0, <1>8 DEF Crash, InFlight, TypeOK, Owned, Alone, Working, Absent
  <2>3. Alone'
    BY <1>0, <1>8 DEF Crash, InFlight, TypeOK, Owned, Alone, Working, Absent
  <2>4. Effect'
    BY <1>0, <1>8 DEF Crash, InFlight, TypeOK, Owned, Alone, Effect, Working, Absent
  <2>5. AtMostOnce'
    BY <1>0, <1>8 DEF Crash, InFlight, TypeOK, Owned, Effect, AtMostOnce, Working, Absent
  <2>6. AnswersAreTrue'
    BY <1>0, <1>8 DEF Crash, InFlight, TypeOK, Owned, Effect, AnswersAreTrue, Working, Absent
  <2> QED BY <2>1, <2>2, <2>3, <2>4, <2>5, <2>6 DEF IInv
<1>9. CASE UNCHANGED vars
  BY <1>9 DEF vars, IInv, TypeOK, Owned, Alone, Effect, AtMostOnce, AnswersAreTrue
<1> QED
  BY <1>1, <1>2, <1>3, <1>4, <1>5, <1>6, <1>7, <1>8, <1>9 DEF Next

(* No key is applied twice by a middleware whose handlers do not fail      *)
(* after their commit.                                                     *)
THEOREM AtMostOnceHolds ==
  ASSUME ~FailsAfterCommit PROVE Spec => []AtMostOnce
<1>1. Init => IInv
  BY InitIInv
<1>2. IInv /\ [Next]_vars => IInv'
  BY StepIInv
<1>3. IInv => AtMostOnce
  BY DEF IInv
<1> QED BY <1>1, <1>2, <1>3, PTL DEF Spec

(* A success, first-hand or replayed, tells of this very request's effect. *)
THEOREM AnswersAreTrueHolds ==
  ASSUME ~FailsAfterCommit PROVE Spec => []AnswersAreTrue
<1>1. Init => IInv
  BY InitIInv
<1>2. IInv /\ [Next]_vars => IInv'
  BY StepIInv
<1>3. IInv => AnswersAreTrue
  BY DEF IInv
<1> QED BY <1>1, <1>2, <1>3, PTL DEF Spec

-----------------------------------------------------------------------------
(***************************************************************************)
(* The request layer of the mini program: a plain write is out once at     *)
(* most, a write with a key is known to the server, and who is told of     *)
(* success has had it.                                                     *)
(***************************************************************************)

Tokens == [who : App!Who \cup {"none"}, no : Nat]
Phases == {"new", "login", "flight", "backoff", "ok", "failed"}
Calls  == [phase : Phases, attempt : Nat, retried : BOOLEAN,
           made : App!Who \cup {"none"}, sent : Tokens]
Tries  == [req : Request, attempt : Nat, retried : BOOLEAN, token : Tokens]

AppTypeOK ==
  /\ access \in Tokens /\ staff \in Tokens
  /\ req \in [Request -> Calls]
  /\ wire \subseteq Tries
  /\ answers \subseteq [req : Request, code : App!Codes]
  /\ done \in [Request -> [App!Who -> Nat]]
  /\ issued \in [App!Who -> Nat]
  /\ live \subseteq [who : App!Who, no : Nat]

(* Nothing of this request has reached the server, nor is it on its way.   *)
Unsent(r) == (\A a \in wire : a.req # r) /\ App!Times(r) = 0

(* A plain write is out once at most, and not carried out while it is; it  *)
(* is sent again only after the server has not known the token.            *)
SentOnce(r) ==
  /\ App!Times(r) <= 1
  /\ \A a, b \in wire : a.req = r /\ b.req = r => a = b
  /\ \A a \in wire : a.req = r => App!Times(r) = 0
  /\ req[r].phase \in {"new", "login"} => Unsent(r)
  /\ [req |-> r, code |-> "unknown"] \in answers => Unsent(r)
  /\ req[r].phase # "backoff"

(* Answers are for requests that wait for them, and success is true.       *)
AnswersTrue ==
  /\ \A a \in answers : req[a.req].phase = "flight" /\ (a.code = "ok" => App!Times(a.req) > 0)
  /\ \A r \in Request : req[r].phase = "ok" => App!Times(r) > 0

AppInv ==
  /\ AppTypeOK
  /\ AnswersTrue
  /\ \A r \in RetrySafe, w \in App!Who : done[r][w] <= 1
  /\ \A r \in Write \ RetrySafe : SentOnce(r)

LEMMA AppInit == App!Init => AppInv
BY ClientsConstants
DEF App!Init, AppInv, AppTypeOK, AnswersTrue, SentOnce, Unsent, App!Times, Tokens, Calls, Phases,
    App!NoToken, App!Fresh, App!Who

LEMMA AppSafe == AppInv => App!AppliedOnce
<1> SUFFICES ASSUME AppInv, NEW r \in Write
             PROVE  /\ \A w \in App!Who : done[r][w] <= 1
                    /\ r \notin RetrySafe => App!Times(r) <= 1
                    /\ req[r].phase = "ok" => App!Times(r) > 0
  BY DEF App!AppliedOnce
<1>1. r \in Request /\ done[r]["owner"] \in Nat /\ done[r]["employee"] \in Nat
  BY ClientsConstants DEF AppInv, AppTypeOK, App!Who
<1>2. CASE r \in RetrySafe
  BY <1>1, <1>2 DEF AppInv, AnswersTrue
<1>3. CASE r \notin RetrySafe
  <2>1. App!Times(r) <= 1
    BY <1>3 DEF AppInv, SentOnce
  <2> QED
    BY <1>1, <1>3, <2>1 DEF AppInv, AnswersTrue, App!Times, App!Who
<1> QED
  BY <1>2, <1>3

(* Requests are sent: those that nothing is known of, and plain ones only  *)
(* while they are unsent.                                                  *)
LEMMA SendStep ==
  ASSUME AppInv, NEW S \in SUBSET Request, AppTypeOK', UNCHANGED <<answers, done>>,
         \A r \in S : r \in Write \ RetrySafe => Unsent(r),
         \A r \in S : req[r].phase # "flight",
         \A r \in S : req'[r].phase = "flight",
         \A r \in Request \ S : req'[r].phase = req[r].phase,
         \A a \in wire' \ wire : a.req \in S,
         wire \subseteq wire',
         \A a, b \in wire' \ wire : a.req = b.req => a = b
  PROVE  AppInv'
<1>1. \A r \in Request : App!Times(r)' = App!Times(r)
  BY DEF App!Times
<1>2. AnswersTrue'
  BY <1>1 DEF AppInv, AnswersTrue, AppTypeOK
<1>3. ASSUME NEW r \in Write \ RetrySafe PROVE SentOnce(r)'
  <2>1. r \in Request /\ SentOnce(r)
    BY ClientsConstants DEF AppInv
  <2>2. CASE r \in S
    <3>1. Unsent(r) /\ [req |-> r, code |-> "unknown"] \notin answers
      BY <2>2 DEF AppInv, AnswersTrue
    <3> QED
      BY <1>1, <2>1, <2>2, <3>1 DEF SentOnce, Unsent
  <2>3. CASE r \notin S
    <3>1. \A a \in wire' : a.req = r => a \in wire
      BY <2>3
    <3> QED
      BY <1>1, <2>1, <2>3, <3>1 DEF SentOnce, Unsent
  <2> QED
    BY <2>2, <2>3
<1> QED
  BY <1>2, <1>3 DEF AppInv

LEMMA SendOneStep ==
  ASSUME AppInv, NEW r \in Request, AppTypeOK', UNCHANGED <<answers, done>>,
         r \in Write \ RetrySafe => Unsent(r),
         req[r].phase # "flight", req'[r].phase = "flight",
         \A q \in Request \ {r} : req'[q].phase = req[q].phase,
         wire' = wire \cup App!Attempts({r}, req'),
         \A a \in App!Attempts({r}, req') : a.req \in {r},
         \A a, b \in App!Attempts({r}, req') : a.req = b.req => a = b
  PROVE  AppInv'
<1> DEFINE S == {r}
<1>1. /\ S \in SUBSET Request /\ wire \subseteq wire'
      /\ \A q \in S : q \in Write \ RetrySafe => Unsent(q)
      /\ \A q \in S : req[q].phase # "flight"
      /\ \A q \in S : req'[q].phase = "flight"
      /\ \A q \in Request \ S : req'[q].phase = req[q].phase
      /\ \A a \in wire' \ wire : a.req \in S
      /\ \A a, b \in wire' \ wire : a.req = b.req => a = b
  OBVIOUS
<1> HIDE DEF S
<1> QED
  BY <1>1, SendStep

(* An answer is taken, or given up: nothing goes out.                      *)
LEMMA TakeStep ==
  ASSUME AppInv, NEW r \in Request, AppTypeOK', UNCHANGED <<wire, done>>,
         answers' = {a \in answers : a.req # r},
         \A q \in Request \ {r} : req'[q].phase = req[q].phase,
         req'[r].phase = "ok" => App!Times(r) > 0,
         r \in Write \ RetrySafe =>
           /\ req'[r].phase # "backoff"
           /\ req'[r].phase \in {"new", "login"} => Unsent(r)
  PROVE  AppInv'
<1>1. \A q \in Request : App!Times(q)' = App!Times(q)
  BY DEF App!Times
<1>2. AnswersTrue'
  BY <1>1 DEF AppInv, AnswersTrue, AppTypeOK
<1>3. ASSUME NEW q \in Write \ RetrySafe PROVE SentOnce(q)'
  <2>1. q \in Request /\ SentOnce(q)
    BY ClientsConstants DEF AppInv
  <2>2. CASE q = r
    BY <1>1, <2>1, <2>2 DEF SentOnce, Unsent
  <2>3. CASE q # r
    BY <1>1, <2>1, <2>3 DEF SentOnce, Unsent
  <2> QED
    BY <2>2, <2>3
<1> QED
  BY <1>2, <1>3 DEF AppInv

LEMMA ServeStep ==
  ASSUME AppInv, NEW a \in wire, NEW code \in App!Codes, App!Serve(a, code)
  PROVE  AppInv'
<1> DEFINE q == a.req
           w == a.token.who
           answer == [req |-> q, code |-> code]
<1>0. /\ AppTypeOK /\ AnswersTrue /\ q \in Request /\ done[q] \in [App!Who -> Nat]
      /\ a.token \in live => w \in App!Who
  BY DEF AppInv, AppTypeOK, Tries
<1>1. /\ wire' = wire \ {a} /\ UNCHANGED <<req, access, staff, issued, live>>
      /\ answers' \in {answers, answers \cup {answer}}
      /\ answers' # answers => req[q].phase = "flight"
  BY DEF App!Serve
<1>2. CASE code = "ok" /\ ~App!Served(a)
  <2>1. w \in App!Who /\ done' = [done EXCEPT ![q] = [done[q] EXCEPT ![w] = @ + 1]]
    BY <1>0, <1>2 DEF App!Serve
  <2>2. /\ \A r \in Request \ {q} : done'[r] = done[r]
        /\ done'[q] \in [App!Who -> Nat]
        /\ done'[q][w] = done[q][w] + 1
        /\ \A v \in App!Who \ {w} : done'[q][v] = done[q][v]
    BY <1>0, <2>1 DEF AppTypeOK
  <2>3. /\ App!Times(q)' = App!Times(q) + 1 /\ App!Times(q) \in Nat
        /\ \A r \in Request \ {q} : App!Times(r)' = App!Times(r)
    BY <1>0, <2>1, <2>2 DEF App!Times, App!Who
  <2>4. AppTypeOK'
    BY <1>0, <1>1, <2>1, <2>2 DEF AppTypeOK
  <2>5. AnswersTrue'
    <3>1. \A r \in Request : App!Times(r) > 0 => App!Times(r)' > 0
      BY <2>3
    <3>2. App!Times(q)' > 0
      BY <2>3
    <3> QED
      BY <1>0, <1>1, <3>1, <3>2 DEF AnswersTrue, AppTypeOK
  <2>6. ASSUME NEW r \in RetrySafe, NEW v \in App!Who PROVE done'[r][v] <= 1
    <3>1. r \in Request /\ done[r][v] <= 1 /\ done[r][v] \in Nat
      BY ClientsConstants, <1>0 DEF AppInv, AppTypeOK
    <3>2. CASE r = q /\ v = w
      BY <1>2, <2>2, <3>1, <3>2 DEF App!Served
    <3>3. CASE ~(r = q /\ v = w)
      BY <2>2, <3>1, <3>3
    <3> QED
      BY <3>2, <3>3
  <2>7. ASSUME NEW r \in Write \ RetrySafe PROVE SentOnce(r)'
    <3>1. r \in Request /\ SentOnce(r)
      BY ClientsConstants DEF AppInv
    <3>2. CASE r = q
      <4>1. App!Times(q) = 0 /\ \A b \in wire' : b.req # q
        BY <1>1, <3>1, <3>2 DEF SentOnce
      <4>2. App!Times(q)' = 1
        BY <2>3, <4>1
      <4>3. req[q].phase \notin {"new", "login"}
        BY <3>1, <3>2 DEF SentOnce, Unsent
      <4>4. [req |-> q, code |-> "unknown"] \notin answers'
        BY <1>1, <1>2, <3>1, <3>2 DEF SentOnce, Unsent
      <4> QED
        BY <1>1, <3>1, <3>2, <4>1, <4>2, <4>3, <4>4 DEF SentOnce, Unsent
    <3>3. CASE r # q
      <4>1. [req |-> r, code |-> "unknown"] \in answers' =>
              [req |-> r, code |-> "unknown"] \in answers
        BY <1>1, <3>3
      <4> QED
        BY <1>1, <2>3, <3>1, <3>3, <4>1 DEF SentOnce, Unsent
    <3> QED
      BY <3>2, <3>3
  <2> QED
    BY <2>4, <2>5, <2>6, <2>7 DEF AppInv
<1>3. CASE ~(code = "ok" /\ ~App!Served(a))
  <2>1. done' = done /\ \A r \in Request : App!Times(r)' = App!Times(r)
    BY <1>3 DEF App!Serve, App!Times
  <2>2. AppTypeOK'
    BY <1>0, <1>1, <2>1 DEF AppTypeOK
  <2>3. code = "ok" => App!Times(q) > 0
    <3>1. SUFFICES ASSUME code = "ok" PROVE App!Times(q) > 0
      OBVIOUS
    <3>2. a.token \in live /\ done[q][w] > 0
      BY <1>3, <3>1 DEF App!Serve, App!Served
    <3> QED
      BY <1>0, <3>2 DEF App!Times, App!Who
  <2>4. AnswersTrue'
    BY <1>0, <1>1, <2>1, <2>3 DEF AnswersTrue, AppTypeOK
  <2>5. ASSUME NEW r \in Write \ RetrySafe PROVE SentOnce(r)'
    <3>1. r \in Request /\ SentOnce(r)
      BY ClientsConstants DEF AppInv
    <3>2. CASE r = q
      <4>1. App!Times(q) = 0 /\ \A b \in wire' : b.req # q
        BY <1>1, <3>1, <3>2 DEF SentOnce
      <4> QED
        BY <1>1, <2>1, <3>1, <3>2, <4>1 DEF SentOnce, Unsent
    <3>3. CASE r # q
      <4>1. [req |-> r, code |-> "unknown"] \in answers' =>
              [req |-> r, code |-> "unknown"] \in answers
        BY <1>1, <3>3
      <4> QED
        BY <1>1, <2>1, <3>1, <3>3, <4>1 DEF SentOnce, Unsent
    <3> QED
      BY <3>2, <3>3
  <2> QED
    BY <2>1, <2>2, <2>4, <2>5 DEF AppInv
<1> QED
  BY <1>2, <1>3

LEMMA TokenType ==
  ASSUME NEW own \in Tokens, NEW emp \in Tokens PROVE App!Token(own, emp) \in Tokens
BY DEF App!Token

(* What Sent and Attempts make of the requests in S.                       *)
LEMMA SentFacts ==
  ASSUME NEW S \in SUBSET Request, NEW rs \in [Request -> Calls],
         NEW own \in Tokens, NEW emp \in Tokens
  PROVE  /\ App!Sent(S, rs, own, emp) \in [Request -> Calls]
         /\ \A r \in S : App!Sent(S, rs, own, emp)[r].phase = "flight"
         /\ \A r \in Request \ S : App!Sent(S, rs, own, emp)[r] = rs[r]
<1>1. ASSUME NEW r \in Request PROVE App!Sent(S, rs, own, emp)[r] \in Calls
  BY <1>1, TokenType DEF App!Sent, Calls, Phases
<1>2. App!Sent(S, rs, own, emp) \in [Request -> Calls]
  BY <1>1 DEF App!Sent
<1>3. /\ \A r \in S : App!Sent(S, rs, own, emp)[r].phase = "flight"
      /\ \A r \in Request \ S : App!Sent(S, rs, own, emp)[r] = rs[r]
  BY DEF App!Sent, Calls
<1> QED
  BY <1>2, <1>3

LEMMA AttemptsFacts ==
  ASSUME NEW S \in SUBSET Request, NEW rs \in [Request -> Calls]
  PROVE  /\ App!Attempts(S, rs) \subseteq Tries
         /\ \A a \in App!Attempts(S, rs) : a.req \in S
         /\ \A a, b \in App!Attempts(S, rs) : a.req = b.req => a = b
BY DEF App!Attempts, App!Exchange, Calls, Tries

(* A request that changes its phase, or sends again, is still a request.   *)
LEMMA ChangedCall ==
  ASSUME NEW rs \in [Request -> Calls], NEW r \in Request, NEW phase \in Phases, NEW new,
         new = [rs EXCEPT ![r].phase = phase]
  PROVE  /\ new \in [Request -> Calls]
         /\ new[r].phase = phase
         /\ \A q \in Request \ {r} : new[q].phase = rs[q].phase
<1>1. new = [rs EXCEPT ![r] = [@ EXCEPT !.phase = phase]]
  OBVIOUS
<1>2. /\ [rs[r] EXCEPT !.phase = phase] \in Calls
      /\ [rs[r] EXCEPT !.phase = phase].phase = phase
  BY DEF Calls
<1> QED
  BY <1>1, <1>2

LEMMA CountedCall ==
  ASSUME NEW rs \in [Request -> Calls], NEW r \in Request, NEW new,
         new = [rs EXCEPT ![r].attempt = @ + 1]
  PROVE  new \in [Request -> Calls] /\ \A q \in Request : new[q].phase = rs[q].phase
<1>1. /\ [rs[r] EXCEPT !.attempt = @ + 1] \in Calls
      /\ [rs[r] EXCEPT !.attempt = @ + 1].phase = rs[r].phase
  BY DEF Calls
<1>2. new = [rs EXCEPT ![r] = [rs[r] EXCEPT !.attempt = @ + 1]]
  OBVIOUS
<1> QED
  BY <1>1, <1>2

LEMMA MakeStep ==
  ASSUME AppInv, NEW r \in Request, App!Make(r) PROVE AppInv'
<1> DEFINE stamped == [req EXCEPT ![r].made = App!Identity]
<1>0. /\ AppTypeOK /\ req[r].phase = "new"
      /\ UNCHANGED <<access, staff, answers, done, issued, live>>
  BY DEF AppInv, App!Make, App!server
<1>1. stamped \in [Request -> Calls] /\ \A q \in Request : stamped[q].phase = req[q].phase
  BY <1>0 DEF AppTypeOK, Calls, App!Identity, App!Who
<1>2. r \in Write \ RetrySafe => Unsent(r)
  BY <1>0 DEF AppInv, SentOnce
<1>3. CASE access # App!NoToken
  <2>1. req' = App!Sent({r}, stamped, access, staff) /\ wire' = wire \cup App!Attempts({r}, req')
    BY <1>3 DEF App!Make
  <2> HIDE DEF stamped
  <2>2. /\ req' \in [Request -> Calls] /\ req'[r].phase = "flight"
        /\ \A q \in Request \ {r} : req'[q].phase = req[q].phase
        /\ App!Attempts({r}, req') \subseteq Tries
        /\ \A a \in App!Attempts({r}, req') : a.req \in {r}
        /\ \A a, b \in App!Attempts({r}, req') : a.req = b.req => a = b
    <3>1. {r} \in SUBSET Request /\ access \in Tokens /\ staff \in Tokens
      BY <1>0 DEF AppTypeOK
    <3>2. stamped \in [Request -> Calls]
      BY <1>1
    <3>3. req' = App!Sent({r}, stamped, access, staff)
      BY <2>1
    <3>4. /\ req' \in [Request -> Calls] /\ \A q \in {r} : req'[q].phase = "flight"
          /\ \A q \in Request \ {r} : req'[q] = stamped[q]
          /\ App!Attempts({r}, req') \subseteq Tries
          /\ \A a \in App!Attempts({r}, req') : a.req \in {r}
          /\ \A a, b \in App!Attempts({r}, req') : a.req = b.req => a = b
      <4>1. /\ App!Sent({r}, stamped, access, staff) \in [Request -> Calls]
            /\ \A q \in {r} : App!Sent({r}, stamped, access, staff)[q].phase = "flight"
            /\ \A q \in Request \ {r} : App!Sent({r}, stamped, access, staff)[q] = stamped[q]
        <5>1. App!Sent({r}, stamped, access, staff) \in [Request -> Calls]
          BY <3>1, <3>2, SentFacts, ZenonT(30)
        <5>2. \A q \in {r} : App!Sent({r}, stamped, access, staff)[q].phase = "flight"
          BY <3>1, <3>2, SentFacts, ZenonT(30)
        <5>3. \A q \in Request \ {r} : App!Sent({r}, stamped, access, staff)[q] = stamped[q]
          BY DEF App!Sent
        <5> QED
          BY <5>1, <5>2, <5>3
      <4>2. req' \in [Request -> Calls]
        BY <3>3, <4>1
      <4>3. /\ App!Attempts({r}, req') \subseteq Tries
            /\ \A a \in App!Attempts({r}, req') : a.req \in {r}
            /\ \A a, b \in App!Attempts({r}, req') : a.req = b.req => a = b
        BY <3>1, <4>2, AttemptsFacts, Zenon
      <4> QED
        BY <3>3, <4>1, <4>3
    <3> QED
      BY <1>1, <3>4
  <2>3. AppTypeOK'
    BY <1>0, <2>1, <2>2 DEF AppTypeOK
  <2> QED
    BY <1>0, <1>2, <2>1, <2>2, <2>3, SendOneStep
<1>4. CASE access = App!NoToken
  <2>1. req' = [stamped EXCEPT ![r].phase = "login"] /\ UNCHANGED wire
    BY <1>4 DEF App!Make
  <2> HIDE DEF stamped
  <2>2. /\ req' \in [Request -> Calls] /\ req'[r].phase = "login"
        /\ \A q \in Request \ {r} : req'[q].phase = req[q].phase
    BY <1>1, <2>1 DEF Calls, Phases
  <2>3. AppTypeOK'
    BY <1>0, <2>1, <2>2 DEF AppTypeOK
  <2>4. answers' = {a \in answers : a.req # r}
    BY <1>0 DEF AppInv, AnswersTrue
  <2> QED
    BY <1>0, <1>2, <2>1, <2>2, <2>3, <2>4, TakeStep
<1> QED
  BY <1>3, <1>4

LEMMA LoginDoneStep == AppInv /\ App!LoginDone => AppInv'
<1> SUFFICES ASSUME AppInv, App!LoginDone PROVE AppInv'
  OBVIOUS
<1> DEFINE new == [who |-> "owner", no |-> issued["owner"] + 1]
<1>0. /\ AppTypeOK /\ App!Waiting \in SUBSET Request /\ \A r \in App!Waiting : req[r].phase = "login"
      /\ UNCHANGED <<staff, answers, done>>
  BY DEF AppInv, App!LoginDone, App!Waiting
<1>1. /\ new \in Tokens /\ new \in [who : App!Who, no : Nat]
      /\ issued' \in [App!Who -> Nat] /\ access' = new /\ live' = live \cup {new}
  BY <1>0 DEF App!LoginDone, AppTypeOK, Tokens, App!Who
<1>2. /\ req' = App!Sent(App!Waiting, req, new, staff)
      /\ wire' = wire \cup App!Attempts(App!Waiting, req')
  BY DEF App!LoginDone
<1> HIDE DEF new
<1>3. /\ req' \in [Request -> Calls] /\ \A r \in App!Waiting : req'[r].phase = "flight"
      /\ \A q \in Request \ App!Waiting : req'[q].phase = req[q].phase
      /\ App!Attempts(App!Waiting, req') \subseteq Tries
      /\ \A a \in App!Attempts(App!Waiting, req') : a.req \in App!Waiting
      /\ \A a, b \in App!Attempts(App!Waiting, req') : a.req = b.req => a = b
  <2>1. staff \in Tokens /\ new \in Tokens /\ App!Waiting \in SUBSET Request
    BY <1>0, <1>1 DEF AppTypeOK
  <2>2. req \in [Request -> Calls]
    BY <1>0 DEF AppTypeOK
  <2>3. req' = App!Sent(App!Waiting, req, new, staff)
    BY <1>2
  <2>4. /\ App!Sent(App!Waiting, req, new, staff) \in [Request -> Calls]
        /\ \A q \in App!Waiting : App!Sent(App!Waiting, req, new, staff)[q].phase = "flight"
        /\ \A q \in Request \ App!Waiting : App!Sent(App!Waiting, req, new, staff)[q] = req[q]
    <3>1. App!Sent(App!Waiting, req, new, staff) \in [Request -> Calls]
      BY <2>1, <2>2, SentFacts, ZenonT(30)
    <3>2. \A q \in App!Waiting : App!Sent(App!Waiting, req, new, staff)[q].phase = "flight"
      BY <2>1, <2>2, SentFacts, ZenonT(30)
    <3>3. \A q \in Request \ App!Waiting : App!Sent(App!Waiting, req, new, staff)[q] = req[q]
      BY DEF App!Sent
    <3> QED
      BY <3>1, <3>2, <3>3
  <2>5. req' \in [Request -> Calls]
    BY <2>3, <2>4
  <2>6. /\ App!Attempts(App!Waiting, req') \subseteq Tries
        /\ \A a \in App!Attempts(App!Waiting, req') : a.req \in App!Waiting
        /\ \A a, b \in App!Attempts(App!Waiting, req') : a.req = b.req => a = b
    BY <2>1, <2>5, AttemptsFacts, Zenon
  <2> QED
    BY <2>3, <2>4, <2>6
<1>4. AppTypeOK'
  BY <1>0, <1>1, <1>2, <1>3 DEF AppTypeOK
<1>5. \A r \in App!Waiting : r \in Write \ RetrySafe => Unsent(r)
  BY <1>0 DEF AppInv, SentOnce
<1>6. wire \subseteq wire' /\ \A a \in wire' \ wire : a \in App!Attempts(App!Waiting, req')
  BY <1>2
<1> HIDE DEF App!Waiting
<1> QED
  BY <1>0, <1>3, <1>4, <1>5, <1>6, SendStep

(* Who waits for a login fails with it: a request at a time.               *)
LEMMA LoginFailsStep == AppInv /\ App!LoginFails => AppInv'
<1> SUFFICES ASSUME AppInv, App!LoginFails PROVE AppInv'
  OBVIOUS
<1>0. AppTypeOK /\ UNCHANGED <<access, staff, wire, answers, done, issued, live>>
  BY DEF AppInv, App!LoginFails, App!server
<1>1. req' = [r \in Request |-> IF r \in App!Waiting THEN [req[r] EXCEPT !.phase = "failed"]
                               ELSE req[r]]
  BY DEF App!LoginFails
<1>2. /\ req' \in [Request -> Calls]
      /\ \A r \in Request : req'[r].phase = req[r].phase \/ req'[r].phase = "failed"
      /\ \A r \in Request : req[r].phase = "flight" => req'[r].phase = "flight"
  BY <1>0, <1>1, ZenonT(40) DEF AppTypeOK, Calls, Phases, App!Waiting
<1>3. AppTypeOK'
  BY <1>0, <1>2 DEF AppTypeOK
<1>4. \A r \in Request : App!Times(r)' = App!Times(r)
  BY <1>0 DEF App!Times
<1>5. AnswersTrue'
  BY <1>0, <1>2, <1>4 DEF AppInv, AnswersTrue, AppTypeOK
<1>6. ASSUME NEW r \in Write \ RetrySafe PROVE SentOnce(r)'
  <2>1. r \in Request /\ SentOnce(r)
    BY ClientsConstants DEF AppInv
  <2> QED
    BY <1>0, <1>2, <1>4, <2>1 DEF SentOnce, Unsent
<1> QED
  BY <1>0, <1>3, <1>5, <1>6 DEF AppInv

(* Steps that move neither requests nor what was carried out.              *)
LEMMA QuietStep ==
  ASSUME AppInv, AppTypeOK', UNCHANGED <<req, wire, answers, done>>
  PROVE  AppInv'
BY DEF AppInv, AnswersTrue, SentOnce, Unsent, App!Times

(* The answer to a request, and the timeout that stands for one.           *)
LEMMA AnsweredStep ==
  ASSUME AppInv, NEW r \in Request, App!Answered(r) \/ App!TimedOut(r) PROVE AppInv'
<1>0. /\ AppTypeOK /\ (r \in Write => (r \in RetrySafe \/ r \in Write \ RetrySafe))
      /\ answers' = {a \in answers : a.req # r}
      /\ UNCHANGED <<wire, done, issued, live>>
  BY DEF AppInv, App!Answered, App!Succeed, App!Refused, App!StaffExpired, App!LoginAgain,
      App!GiveUp, App!Broken, App!TimedOut,
         App!AfterFailure, App!Taken, App!server
<1>1. /\ access' \in {access, App!NoToken} /\ staff' \in {staff, App!NoToken}
      /\ App!NoToken \in Tokens
  BY DEF App!Answered, App!Succeed, App!Refused, App!StaffExpired, App!LoginAgain, App!GiveUp,
      App!Broken, App!TimedOut,
         App!AfterFailure, Tokens, App!NoToken
<1>8. ASSUME App!LoginAgain(r)
      PROVE  /\ req' \in [Request -> Calls] /\ req'[r].phase = "login"
             /\ \A q \in Request \ {r} : req'[q].phase = req[q].phase
  <2>1. req \in [Request -> Calls] /\ "login" \in Phases
    BY <1>0 DEF AppTypeOK, Phases
  <2>2. req' = [req EXCEPT ![r].phase = "login", ![r].retried = TRUE]
    BY <1>8 DEF App!LoginAgain
  <2> QED
    <3>1. req' = [req EXCEPT ![r] = [req[r] EXCEPT !.phase = "login", !.retried = TRUE]]
      BY <2>1, <2>2
    <3>2. /\ [req[r] EXCEPT !.phase = "login", !.retried = TRUE] \in Calls
          /\ [req[r] EXCEPT !.phase = "login", !.retried = TRUE].phase = "login"
      BY <2>1 DEF Calls
    <3> QED
      BY <2>1, <3>1, <3>2
<1>2. /\ req' \in [Request -> Calls]
      /\ \A q \in Request \ {r} : req'[q].phase = req[q].phase
  <2>1. ASSUME NEW phase \in Phases, App!Settled(r, phase)
        PROVE  /\ req' \in [Request -> Calls]
               /\ \A q \in Request \ {r} : req'[q].phase = req[q].phase
    <3>1. req \in [Request -> Calls]
      BY <1>0 DEF AppTypeOK
    <3>2. req' = [req EXCEPT ![r].phase = phase]
      BY <2>1 DEF App!Settled
    <3> QED
      BY <3>1, <3>2, ChangedCall
  <2>2. CASE App!LoginAgain(r)
    BY <1>8, <2>2
  <2>3. CASE ~App!LoginAgain(r)
    <3>1. \E phase \in Phases : App!Settled(r, phase)
      BY <2>3
      DEF App!Answered, App!Succeed, App!Refused, App!StaffExpired, App!GiveUp, App!Broken,
          App!TimedOut,
                  App!AfterFailure, Phases
    <3> QED
      BY <2>1, <3>1
  <2> QED
    BY <2>2, <2>3
<1>3. AppTypeOK'
  <2>1. access' \in Tokens /\ staff' \in Tokens
    BY <1>0, <1>1 DEF AppTypeOK
  <2>2. answers' \subseteq answers
    BY <1>0
  <2> QED
    BY <1>0, <1>2, <2>1, <2>2 DEF AppTypeOK
<1>4. ASSUME NEW phase \in Phases, App!Settled(r, phase) PROVE req'[r].phase = phase
  <2>1. req \in [Request -> Calls]
    BY <1>0 DEF AppTypeOK
  <2>2. req' = [req EXCEPT ![r].phase = phase]
    BY <1>4 DEF App!Settled
  <2> QED
    BY <2>1, <2>2, ChangedCall
<1>5. CASE App!Succeed(r)
  <2>1. App!Times(r) > 0 /\ req'[r].phase = "ok"
    BY <1>4, <1>5 DEF App!Succeed, AppInv, AnswersTrue, Phases
  <2> QED
    BY <1>0, <1>2, <1>3, <2>1, TakeStep
<1>6. CASE App!Refused(r) \/ App!StaffExpired(r) \/ App!GiveUp(r)
  <2>1. req'[r].phase = "failed"
    BY <1>4, <1>6 DEF App!Refused, App!StaffExpired, App!GiveUp, Phases
  <2> QED
    BY <1>0, <1>2, <1>3, <2>1, TakeStep
<1>7. CASE App!LoginAgain(r)
  <2>1. req'[r].phase = "login"
    BY <1>7, <1>8
  <2>2. r \in Write \ RetrySafe => Unsent(r)
    BY <1>7 DEF App!LoginAgain, AppInv, SentOnce
  <2> QED
    BY <1>0, <1>2, <1>3, <2>1, <2>2, TakeStep
<1>9. CASE App!Broken(r) \/ App!TimedOut(r)
  <2>1. req'[r].phase \in {"backoff", "failed"} /\ (r \in Write \ RetrySafe => req'[r].phase = "failed")
    BY <1>4, <1>9 DEF App!Broken, App!TimedOut, App!AfterFailure, App!MayRetry, Phases
  <2> QED
    BY <1>0, <1>2, <1>3, <2>1, TakeStep
<1> QED
  BY <1>5, <1>6, <1>7, <1>9 DEF App!Answered

LEMMA RetryStep ==
  ASSUME AppInv, NEW r \in Request, App!Retry(r) PROVE AppInv'
<1> DEFINE again == [req EXCEPT ![r].attempt = @ + 1]
<1>0. /\ AppTypeOK /\ req[r].phase = "backoff" /\ r \notin Write \ RetrySafe
      /\ UNCHANGED <<access, staff, answers, done, issued, live>>
      /\ wire' = wire \cup App!Attempts({r}, req')
  BY DEF AppInv, SentOnce, App!Retry, App!server
<1>1. req \in [Request -> Calls] /\ {r} \in SUBSET Request /\ access \in Tokens /\ staff \in Tokens
  BY <1>0 DEF AppTypeOK
<1>2. again = [req EXCEPT ![r].attempt = @ + 1] /\ req' = App!Sent({r}, again, access, staff)
  BY DEF App!Retry
<1> HIDE DEF again
<1>3. again \in [Request -> Calls] /\ \A q \in Request : again[q].phase = req[q].phase
  BY <1>1, <1>2, CountedCall
<1>4. /\ req' \in [Request -> Calls] /\ \A q \in {r} : req'[q].phase = "flight"
      /\ \A q \in Request \ {r} : req'[q] = again[q]
      /\ App!Attempts({r}, req') \subseteq Tries
      /\ \A a \in App!Attempts({r}, req') : a.req \in {r}
      /\ \A a, b \in App!Attempts({r}, req') : a.req = b.req => a = b
  <2>1. /\ App!Sent({r}, again, access, staff) \in [Request -> Calls]
        /\ \A q \in {r} : App!Sent({r}, again, access, staff)[q].phase = "flight"
        /\ \A q \in Request \ {r} : App!Sent({r}, again, access, staff)[q] = again[q]
    <3>1. App!Sent({r}, again, access, staff) \in [Request -> Calls]
      BY <1>1, <1>3, SentFacts, ZenonT(30)
    <3>2. \A q \in {r} : App!Sent({r}, again, access, staff)[q].phase = "flight"
      BY <1>1, <1>3, SentFacts, ZenonT(30)
    <3>3. \A q \in Request \ {r} : App!Sent({r}, again, access, staff)[q] = again[q]
      BY DEF App!Sent
    <3> QED
      BY <3>1, <3>2, <3>3
  <2>2. req' \in [Request -> Calls]
    BY <1>2, <2>1
  <2>3. /\ App!Attempts({r}, req') \subseteq Tries
        /\ \A a \in App!Attempts({r}, req') : a.req \in {r}
        /\ \A a, b \in App!Attempts({r}, req') : a.req = b.req => a = b
    BY <1>1, <2>2, AttemptsFacts, Zenon
  <2> QED
    BY <1>2, <2>1, <2>3
<1>5. AppTypeOK'
  BY <1>0, <1>4 DEF AppTypeOK
<1>6. req'[r].phase = "flight" /\ \A q \in Request \ {r} : req'[q].phase = req[q].phase
  BY <1>3, <1>4
<1> QED
  BY <1>0, <1>4, <1>5, <1>6, SendOneStep

LEMMA AppNext == AppInv /\ [App!Next]_(App!vars) => AppInv'
<1> SUFFICES ASSUME AppInv, [App!Next]_(App!vars) PROVE AppInv'
  OBVIOUS
<1>1. ASSUME NEW r \in Request, App!Make(r) \/ App!Answered(r) \/ App!TimedOut(r) \/ App!Retry(r)
      PROVE  AppInv'
  BY <1>1, MakeStep, AnsweredStep, RetryStep
<1>2. CASE App!LoginDone \/ App!LoginFails
  BY <1>2, LoginDoneStep, LoginFailsStep
<1>3. CASE App!SwitchToStaff
  <2>1. AppTypeOK'
    BY <1>3 DEF App!SwitchToStaff, AppInv, AppTypeOK, Tokens, App!Who
  <2> QED
    BY <1>3, <2>1, QuietStep DEF App!SwitchToStaff
<1>4. CASE App!ExitStaff
  <2>1. AppTypeOK'
    BY <1>4 DEF App!ExitStaff, AppInv, AppTypeOK, Tokens, App!NoToken, App!server
  <2> QED
    BY <1>4, <2>1, QuietStep DEF App!ExitStaff, App!server
<1>5. CASE App!Serving
  BY <1>5, ServeStep DEF App!Serving
<1>6. ASSUME NEW t \in live, App!Expire(t) PROVE AppInv'
  <2>1. AppTypeOK'
    BY <1>6 DEF App!Expire, AppInv, AppTypeOK
  <2> QED
    BY <1>6, <2>1, QuietStep DEF App!Expire
<1>7. CASE UNCHANGED App!vars
  BY <1>7, QuietStep DEF App!vars, App!server, AppInv, AppTypeOK
<1> QED
  BY <1>1, <1>2, <1>3, <1>4, <1>5, <1>6, <1>7 DEF App!Next


-----------------------------------------------------------------------------
(***************************************************************************)
(* The edge controller: what it marks has been found stored.               *)
(***************************************************************************)

Stages == {"free", "sent", "inserting", "accepted", "refused"}

Passes == [state : {"idle", "sending", "waiting", "over"}, todo : SUBSET Edge!Event,
           done : SUBSET Edge!Event, tries : Int, req : Req \cup {0}]
Rows   == [event : Edge!Event \cup {0}, stall : Stall \cup {NoStall}, state : Stages]

EdgeTypeOK ==
  /\ queue \in [Edge!Event -> {"none", "queued", "synced", "purged"}]
  /\ pass \in Passes
  /\ requests \in [Req -> Rows]
  /\ stored \in [Stall -> [Edge!Event -> {0, 1}]]

Arrived(e) == \E m \in Stall : stored[m][e] > 0

(* A request has an event once it is sent, and a stall once it is let in;  *)
(* who answers for an event has found it stored.                           *)
Requested(r) ==
  /\ requests[r].state # "free" => requests[r].event \in Edge!Event
  /\ requests[r].state = "inserting" => requests[r].stall \in Stall
  /\ requests[r].state = "accepted" => Arrived(requests[r].event)

EdgeInv ==
  /\ EdgeTypeOK
  /\ pass.state = "waiting" => pass.req \in Req
  /\ \A r \in Req : Requested(r)
  /\ \A e \in pass.done : Arrived(e)
  /\ \A e \in Edge!Event : queue[e] \in {"synced", "purged"} => Arrived(e)

(* Passes and rows as the steps change them.                               *)
LEMMA PassesAndRows ==
  /\ Edge!Idle \in Passes /\ Edge!Idle.state = "idle" /\ Edge!Idle.done = {}
  /\ Edge!Free \in Rows /\ Edge!Free.state = "free" /\ Edge!Free.stall = NoStall
BY DEF Edge!Idle, Edge!Free, Passes, Rows, Stages

LEMMA DoneRow ==
  ASSUME NEW p \in Passes, NEW e \in Edge!Event
  PROVE  [p EXCEPT !.state = "sending", !.tries = 0, !.done = @ \union {e}, !.todo = @ \ {e},
                   !.req = 0] \in Passes
<1> DEFINE p1 == [p EXCEPT !.state = "sending", !.tries = 0]
           p2 == [p1 EXCEPT !.done = p.done \union {e}]
           p3 == [p2 EXCEPT !.todo = p.todo \ {e}]
<1>1. p1 \in Passes /\ p1.done = p.done /\ p1.todo = p.todo
  <2>1. [p EXCEPT !.state = "sending"] \in Passes
    BY DEF Passes
  <2>2. \A q \in Passes : [q EXCEPT !.tries = 0] \in Passes
    BY DEF Passes
  <2>3. p1.done = p.done /\ p1.todo = p.todo
    BY DEF Passes
  <2> QED
    BY <2>1, <2>2, <2>3, Zenon
<1>2. p.done \union {e} \in SUBSET Edge!Event /\ p.todo \ {e} \in SUBSET Edge!Event
  BY DEF Passes
<1> HIDE DEF p1
<1>3. p2 \in Passes /\ p2.todo = p.todo
  BY <1>1, <1>2 DEF Passes
<1> HIDE DEF p2
<1>4. p3 \in Passes
  BY <1>2, <1>3 DEF Passes
<1> HIDE DEF p3
<1>5. [p3 EXCEPT !.req = 0] \in Passes
  BY <1>4 DEF Passes
<1> QED
  BY <1>1, <1>3, <1>5 DEF p1, p2, p3

LEMMA EdgeInit == Edge!Init => EdgeInv
BY PassesAndRows DEF Edge!Init, EdgeInv, EdgeTypeOK, Passes, Rows, Requested, Arrived

LEMMA EdgeSafe == EdgeInv => Edge!SyncedIsStored
BY DEF EdgeInv, EdgeTypeOK, Edge!SyncedIsStored, Arrived

(* The first event of a pass is one of its events.                         *)
LEMMA MinIn == ASSUME NEW T \in SUBSET Edge!Event, T # {} PROVE Edge!Min(T) \in T
<1>1. T \subseteq Nat
  BY ClientsConstants DEF Edge!Event
<1>2. PICK m \in T : \A n \in T : <<n, m>> \notin OpToRel(<, Nat)
  BY <1>1, NatLessThanWellFounded, WFMin
<1>3. \A n \in T : m =< n
  <2>1. ASSUME NEW n \in T PROVE m =< n
    <3>1. n \in Nat /\ m \in Nat /\ <<n, m>> \notin OpToRel(<, Nat)
      BY <1>1, <1>2
    <3> QED
      BY <3>1 DEF OpToRel
  <2> QED
    BY <2>1
<1> QED
  BY <1>2, <1>3 DEF Edge!Min

LEMMA ChosenActive ==
  ASSUME Edge!Cardinality(Edge!Active) = 1
  PROVE  (CHOOSE m \in Edge!Active : TRUE) \in Stall
<1>1. Edge!Active # {}
  <2>1. Edge!Cardinality({}) = Cardinality({})
    BY Zenon DEF Edge!Cardinality, Cardinality
  <2> QED
    BY <2>1, FS_EmptySet
<1> QED
  BY <1>1 DEF Edge!Active

(* Rows are only added, the requests after a step are in order, and what   *)
(* is marked has arrived.                                                  *)
LEMMA EdgeStep ==
  ASSUME EdgeInv, [Edge!Next]_(Edge!vars) PROVE EdgeInv'
<1>0. /\ EdgeTypeOK /\ (\A r \in Req : Requested(r)) /\ (\A e \in pass.done : Arrived(e))
      /\ (pass.state = "waiting" => pass.req \in Req)
      /\ (\A e \in Edge!Event : queue[e] \in {"synced", "purged"} => Arrived(e))
      /\ pass.done \subseteq Edge!Event
  BY DEF EdgeInv, EdgeTypeOK, Passes
<1>1. ASSUME NEW e \in Edge!Event, Edge!Capture(e) PROVE EdgeInv'
  BY <1>0, <1>1 DEF Edge!Capture, EdgeInv, EdgeTypeOK, Passes, Rows, Requested, Arrived
<1>2. CASE Edge!BeginPass
  <2>1. /\ pass' = [Edge!Idle EXCEPT !.state = "sending", !.todo = Edge!Queued]
        /\ Edge!Queued \subseteq Edge!Event /\ UNCHANGED <<queue, requests, stored>>
    BY <1>2 DEF Edge!BeginPass, Edge!Queued
  <2>2. /\ pass' \in Passes
        /\ pass'.state = "sending" /\ pass'.done = {}
    BY <2>1, PassesAndRows DEF Passes
  <2> QED
    BY <1>0, <2>1, <2>2 DEF EdgeInv, EdgeTypeOK, Passes, Rows, Requested, Arrived
<1>3. ASSUME NEW r \in Req, Edge!Post(r) PROVE EdgeInv'
  <2>1. Edge!Min(pass.todo) \in Edge!Event
    BY <1>0, <1>3, MinIn DEF Edge!Post, EdgeTypeOK, Passes
  <2> DEFINE row == [Edge!Free EXCEPT !.event = Edge!Min(pass.todo), !.state = "sent"]
  <2>2. /\ requests' = [requests EXCEPT ![r] = row]
        /\ pass' = [pass EXCEPT !.state = "waiting", !.req = r, !.tries = @ + 1]
        /\ UNCHANGED <<queue, stored>>
    BY <1>3 DEF Edge!Post
  <2>3. row.event \in Edge!Event /\ row.state = "sent"
        /\ row \in Rows
    BY <2>1, PassesAndRows DEF Rows, Stages
  <2> HIDE DEF row
  <2>4. EdgeTypeOK' /\ pass'.req = r /\ pass'.done = pass.done
    <3>1. pass \in Passes /\ pass.tries + 1 \in Int
      BY <1>0 DEF EdgeTypeOK, Passes
    <3>2. pass' \in Passes /\ pass'.req = r /\ pass'.done = pass.done
      BY <2>2, <3>1 DEF Passes
    <3> QED
      BY <1>0, <2>2, <2>3, <3>2 DEF EdgeTypeOK
  <2>5. \A q \in Req : Requested(q)'
    BY <1>0, <2>2, <2>3 DEF EdgeTypeOK, Passes, Rows, Requested, Arrived
  <2> QED
    BY <1>0, <2>2, <2>4, <2>5 DEF EdgeInv, Arrived
<1>4. CASE Edge!Answer
  <2> DEFINE r == pass.req
  <2>1. /\ r \in Req /\ requests' = [requests EXCEPT ![r] = Edge!Free] /\ UNCHANGED <<queue, stored>>
        /\ requests[r].event \in Edge!Event
    BY <1>0, <1>4 DEF Edge!Answer, Requested
  <2>2. /\ pass' \in Passes
        /\ pass'.state # "waiting"
        /\ \A e \in pass'.done : Arrived(e)
    <3>1. CASE requests[r].state = "accepted"
      <4>1. pass' = [pass EXCEPT !.state = "sending", !.tries = 0,
                       !.done = @ \union {requests[r].event},
                       !.todo = @ \ {requests[r].event}, !.req = 0]
        BY <1>4, <3>1 DEF Edge!Answer
      <4>2. Arrived(requests[r].event)
        BY <1>0, <2>1, <3>1 DEF Requested
      <4> DEFINE e == requests[r].event
      <4>3. e \in Edge!Event /\ Arrived(e)
        BY <2>1, <4>2
      <4>4. pass' = [pass EXCEPT !.state = "sending", !.tries = 0, !.done = @ \union {e},
                       !.todo = @ \ {e}, !.req = 0]
        BY <4>1
      <4> HIDE DEF e, r
      <4>5. pass'.state = "sending" /\ pass'.done = pass.done \union {e}
        BY <1>0, <4>4 DEF EdgeTypeOK
      <4>6. pass' \in Passes
        <5>1. pass \in Passes
          BY <1>0 DEF EdgeTypeOK
        <5> QED
          BY <4>3, <4>4, <5>1, DoneRow
      <4> QED
        BY <1>0, <4>3, <4>5, <4>6
    <3>2. CASE requests[r].state # "accepted"
      BY <1>0, <1>4, <3>2 DEF Edge!Answer, EdgeTypeOK, Passes
    <3> QED
      BY <3>1, <3>2
  <2> HIDE DEF r
  <2> QED
    BY <1>0, <2>1, <2>2
    DEF EdgeInv, EdgeTypeOK, Passes, Rows, Requested, Arrived, Edge!Free, Stages
<1>5. CASE Edge!EndPass
  BY <1>0, <1>5
  DEF Edge!EndPass, Edge!Marked, Edge!Idle, EdgeInv, EdgeTypeOK, Passes, Rows, Requested,
      Arrived
<1>6. CASE Edge!Timeout
  BY <1>0, <1>6 DEF Edge!Timeout, EdgeInv, EdgeTypeOK, Passes, Rows, Requested, Arrived
<1>7. ASSUME NEW old \in SUBSET Edge!Event, Edge!Restart(old) PROVE EdgeInv'
  BY <1>0, <1>7 DEF Edge!Restart, Edge!Idle, EdgeInv, EdgeTypeOK, Passes, Rows, Requested, Arrived
<1>8. ASSUME NEW r \in Req, Edge!Authenticate(r) PROVE EdgeInv'
  <2>1. /\ UNCHANGED <<queue, pass, stored>> /\ requests[r].state = "sent"
        /\ requests[r].event \in Edge!Event
    BY <1>0, <1>8 DEF Edge!Authenticate, Requested
  <2>2. CASE Edge!Cardinality(Edge!Active) # 1
    <3>1. requests' = [requests EXCEPT ![r].state = "refused"]
      BY <1>8, <2>2 DEF Edge!Authenticate
    <3> QED
      BY <1>0, <2>1, <3>1 DEF EdgeInv, EdgeTypeOK, Passes, Rows, Requested, Arrived, Stages
  <2>3. CASE Edge!Cardinality(Edge!Active) = 1
    <3> DEFINE m == CHOOSE m \in Edge!Active : TRUE
               state == IF stored[m][requests[r].event] > 0 THEN "accepted" ELSE "inserting"
               row == [requests[r] EXCEPT !.stall = m, !.state = state]
    <3>1. m \in Stall
      BY <2>3, ChosenActive
    <3>2. requests' = [requests EXCEPT ![r] = row]
      BY <1>0, <1>8, <2>3 DEF Edge!Authenticate, EdgeTypeOK, Rows
    <3>3. state \in {"accepted", "inserting"} /\ (state = "accepted" => Arrived(requests[r].event))
      BY <3>1 DEF Arrived
    <3> HIDE DEF m, state
    <3>4. /\ row \in Rows
          /\ row.event = requests[r].event /\ row.stall = m /\ row.state = state
      BY <1>0, <3>1, <3>3 DEF EdgeTypeOK, Rows, Stages
    <3> HIDE DEF row
    <3> QED
      BY <1>0, <2>1, <3>1, <3>2, <3>3, <3>4
      DEF EdgeInv, EdgeTypeOK, Passes, Rows, Requested, Arrived
  <2> QED
    BY <2>2, <2>3
<1>9. ASSUME NEW r \in Req, Edge!Insert(r) PROVE EdgeInv'
  <2> DEFINE m == requests[r].stall
             e == requests[r].event
  <2>1. /\ m \in Stall /\ e \in Edge!Event /\ UNCHANGED <<queue, pass>>
        /\ requests' = [requests EXCEPT ![r].state = "accepted"]
        /\ stored' = IF stored[m][e] = 0 THEN [stored EXCEPT ![m][e] = 1] ELSE stored
    BY <1>0, <1>9 DEF Edge!Insert, Edge!Become, Requested
  <2>2. /\ requests' \in [Req -> Rows]
        /\ requests'[r].event = e /\ requests'[r].state = "accepted"
        /\ \A q \in Req \ {r} : requests'[q] = requests[q]
    BY <1>0, <2>1 DEF EdgeTypeOK, Rows, Stages
  <2> HIDE DEF m, e
  <2>3. /\ stored' \in [Stall -> [Edge!Event -> {0, 1}]] /\ stored'[m][e] > 0
        /\ \A n \in Stall, d \in Edge!Event : stored[n][d] > 0 => stored'[n][d] > 0
    BY <1>0, <2>1 DEF EdgeTypeOK
  <2>4. (\E n \in Stall : stored'[n][e] > 0)
        /\ \A d \in Edge!Event : Arrived(d) => Arrived(d)'
    BY <2>1, <2>3 DEF Arrived
  <2>5. ASSUME NEW q \in Req PROVE Requested(q)'
    <3>1. CASE q = r
      BY <2>1, <2>2, <2>4, <3>1 DEF Requested, Arrived
    <3>2. CASE q # r
      BY <1>0, <2>1, <2>2, <2>4, <3>2 DEF Requested
    <3> QED
      BY <3>1, <3>2
  <2> QED
    BY <1>0, <2>1, <2>2, <2>3, <2>4, <2>5 DEF EdgeInv, EdgeTypeOK
<1>10. ASSUME NEW r \in Req, Edge!Lose(r) \/ Edge!Forget(r) PROVE EdgeInv'
  <2>1. /\ requests' = [requests EXCEPT ![r] = Edge!Free] /\ UNCHANGED <<queue, stored>>
        /\ pass' \in {pass, [pass EXCEPT !.state = "over", !.req = 0]}
    BY <1>10 DEF Edge!Lose, Edge!Forget
  <2> QED
    BY <1>0, <2>1 DEF EdgeInv, EdgeTypeOK, Passes, Rows, Requested, Arrived, Edge!Free, Stages
<1>11. ASSUME NEW m \in Stall, Edge!Register(m) \/ Edge!Deactivate(m) \/ Edge!Activate(m)
       PROVE  EdgeInv'
  BY <1>0, <1>11
  DEF Edge!Register, Edge!Deactivate, Edge!Activate, Edge!SetDevice, EdgeInv, EdgeTypeOK, Passes,
      Rows, Requested, Arrived
<1>12. CASE UNCHANGED Edge!vars
  BY <1>0, <1>12 DEF Edge!vars, EdgeInv, EdgeTypeOK, Passes, Rows, Requested, Arrived
<1> QED
  BY <1>1, <1>2, <1>3, <1>4, <1>5, <1>6, <1>7, <1>8, <1>9, <1>10, <1>11, <1>12 DEF Edge!Next


(* A write of the mini program is carried out at most once, and what the   *)
(* controller takes off its queue is stored, once per merchant, whatever   *)
(* requests, answers and power are lost: _requestOnce and ensureLogin of   *)
(* app.js, sync_pending_records of edge/main.py, the routers behind them.  *)
THEOREM WritesArriveOnceHolds == App!Spec /\ Edge!Spec => []WritesArriveOnce
<1>1. App!Spec => []App!AppliedOnce
  BY AppInit, AppNext, AppSafe, PTL DEF App!Spec
<1>2. EdgeInv /\ [Edge!Next]_(Edge!vars) => EdgeInv'
  BY EdgeStep
<1>3. Edge!Spec => []Edge!SyncedIsStored
  BY EdgeInit, EdgeSafe, <1>2, PTL DEF Edge!Spec
<1> QED
  BY <1>1, <1>3, PTL DEF WritesArriveOnce

-----------------------------------------------------------------------------
(***************************************************************************)
(* First logins, whichever are lost on the way.                            *)
(***************************************************************************)

Places == {"start", "tenant", "insert", "create", "bind", "commit", "in", "lost"}
LoginRows   == {Entry!TenantRow} \cup {<<"merchant", o>> : o \in OpenId}

LoginTypeOK ==
  /\ tenant \in BOOLEAN
  /\ merchants \in [OpenId -> {"none", "unbound", "bound"}]
  /\ logins \in [Login -> [at : Places, id : OpenId, to : {"read", "create", "bind"},
                           held : SUBSET LoginRows]]

(* There is a tenant for this login: a committed one or its own.           *)
Housed(l) == tenant \/ Entry!TenantRow \in logins[l].held

(* What a login holds and knows where it is: nothing before it has asked   *)
(* for a tenant; a tenant once it makes or binds its merchant; a merchant, *)
(* committed or its own, when it is about to commit.                       *)
Underway(l) ==
  /\ logins[l].at \in {"start", "tenant", "insert"} => logins[l].held = {}
  /\ logins[l].at \in {"tenant", "insert"} => logins[l].to \in {"create", "bind"}
  /\ logins[l].at \in {"create", "bind"} => Housed(l)
  /\ logins[l].at = "commit" =>
       Entry!MerchantRow(l) \in logins[l].held \/ merchants[logins[l].id] = "bound"
  /\ Entry!MerchantRow(l) \in logins[l].held => Housed(l)

LoginInv == LoginTypeOK /\ (\A l \in Login : Underway(l)) /\ Entry!LoginsBind

LEMMA RowsDiffer == \A l \in Login : Entry!TenantRow # Entry!MerchantRow(l)
  BY DEF Entry!TenantRow, Entry!MerchantRow

LEMMA RowsAreRows ==
  LoginTypeOK =>
    \A l \in Login : Entry!MerchantRow(l) \in LoginRows /\ Entry!TenantRow \in LoginRows
  BY DEF LoginTypeOK, Entry!MerchantRow, LoginRows

LEMMA LoginInit == Entry!Init => LoginInv
<1> SUFFICES ASSUME Entry!Init PROVE LoginInv
  OBVIOUS
<1>1. PICK who \in [Login -> OpenId] :
        logins = [l \in Login |-> [at |-> "start", id |-> who[l], to |-> "read", held |-> {}]]
  <2> DEFINE who == [l \in Login |-> logins[l].id]
  <2>1. who \in [Login -> OpenId]
    BY DEF Entry!Init
  <2>2. logins = [l \in Login |-> [at |-> "start", id |-> who[l], to |-> "read", held |-> {}]]
    BY DEF Entry!Init
  <2> QED BY <2>1, <2>2
<1>2. LoginTypeOK
  BY <1>1 DEF Entry!Init, LoginTypeOK, Places
<1>3. \A l \in Login : Underway(l)
  BY <1>1 DEF Underway
<1>4. Entry!LoginsBind
  BY <1>1 DEF Entry!Init, Entry!LoginsBind
<1> QED BY <1>2, <1>3, <1>4 DEF LoginInv

LEMMA FoundIsPlace ==
  ASSUME LoginTypeOK, NEW l \in Login
  PROVE  /\ Entry!Found(l).at \in {"commit", "tenant"}
         /\ Entry!Found(l).to \in {"read", "create", "bind"}
         /\ Entry!Found(l).at = "commit" => merchants[logins[l].id] = "bound"
         /\ Entry!Found(l).at = "tenant" => Entry!Found(l).to \in {"create", "bind"}
<1>1. merchants[logins[l].id] \in {"none", "unbound", "bound"}
  BY DEF LoginTypeOK
<1>2. CASE merchants[logins[l].id] = "bound"
  <2>1. Entry!Found(l) = [at |-> "commit", to |-> "read"]
    BY <1>2 DEF Entry!Found
  <2> QED BY <1>2, <2>1
<1>3. CASE merchants[logins[l].id] = "unbound"
  <2>1. Entry!Found(l) = [at |-> "tenant", to |-> "bind"]
    BY <1>3 DEF Entry!Found
  <2> QED BY <2>1
<1>4. CASE merchants[logins[l].id] = "none"
  <2>1. Entry!Found(l) = [at |-> "tenant", to |-> "create"]
    BY <1>4 DEF Entry!Found
  <2> QED BY <2>1
<1> QED BY <1>1, <1>2, <1>3, <1>4

(* A step of one login that commits nothing: it is enough to look at that  *)
(* login, since the others see the same tenant and merchants.              *)
LEMMA OneMoves ==
  ASSUME LoginInv, NEW l \in Login, NEW new \in [at : Places, id : {logins[l].id},
                                             to : {"read", "create", "bind"}, held : SUBSET LoginRows],
         logins' = [logins EXCEPT ![l] = new], UNCHANGED <<tenant, merchants>>,
         new.at # "in", Underway(l)'
  PROVE  LoginInv'
<1> USE DEF LoginInv, LoginTypeOK
<1>1. LoginTypeOK'
  OBVIOUS
<1>2. \A m \in Login : Underway(m)'
  BY DEF Underway, Housed, Entry!MerchantRow
<1>3. Entry!LoginsBind'
  BY DEF Entry!LoginsBind
<1> QED BY <1>1, <1>2, <1>3

LEMMA LoginStep == LoginInv /\ [Entry!Next]_(Entry!vars) => LoginInv'
<1> SUFFICES ASSUME LoginInv, [Entry!Next]_(Entry!vars) PROVE LoginInv'
  OBVIOUS
<1>0. /\ LoginTypeOK /\ Entry!TenantRow \in LoginRows
      /\ \A l \in Login : Underway(l) /\ Entry!MerchantRow(l) \in LoginRows
  BY RowsAreRows DEF LoginInv, LoginRows
<1>1. ASSUME NEW l \in Login, Entry!ReadMerchant(l) PROVE LoginInv'
  <2> DEFINE new == [logins[l] EXCEPT !.at = Entry!Found(l).at, !.to = Entry!Found(l).to]
  <2>1. Underway(l)'
    BY <1>0, <1>1, FoundIsPlace
    DEF Entry!ReadMerchant, Underway, Housed, Entry!MerchantRow, LoginTypeOK
  <2>2. new \in [at : Places, id : {logins[l].id}, to : {"read", "create", "bind"},
                held : SUBSET LoginRows]
    BY <1>0, FoundIsPlace DEF LoginTypeOK, Places
  <2> QED
    BY <1>0, <1>1, <2>1, <2>2, FoundIsPlace, OneMoves, ZenonT(40)
    DEF Entry!ReadMerchant, LoginTypeOK
<1>2. ASSUME NEW l \in Login, Entry!ReadTenant(l) PROVE LoginInv'
  <2> DEFINE new == [logins[l] EXCEPT !.at = IF tenant THEN logins[l].to ELSE "insert"]
  <2>1. Underway(l)'
    BY <1>0, <1>2 DEF Entry!ReadTenant, Entry!Go, Underway, Housed, Entry!MerchantRow, LoginTypeOK
  <2>2. new \in [at : Places, id : {logins[l].id}, to : {"read", "create", "bind"},
                held : SUBSET LoginRows]
    BY <1>0, <1>2 DEF Entry!ReadTenant, Entry!Go, LoginTypeOK, Places, Underway
  <2>3. logins' = [logins EXCEPT ![l] = new] /\ new.at # "in" /\ UNCHANGED <<tenant, merchants>>
    BY <1>0, <1>2 DEF Entry!ReadTenant, Entry!Go, LoginTypeOK
  <2> QED BY <2>1, <2>2, <2>3, OneMoves
<1>3. ASSUME NEW l \in Login, Entry!InsertTenant(l) PROVE LoginInv'
  <2> DEFINE new == IF tenant THEN [logins[l] EXCEPT !.held = {}, !.at = logins[l].to]
                    ELSE [logins[l] EXCEPT !.held = @ \cup {Entry!TenantRow}, !.at = logins[l].to]
  <2>1. Underway(l)'
    BY <1>0, <1>3, RowsDiffer
    DEF Entry!InsertTenant, Entry!Hold, Underway, Housed, Entry!MerchantRow, LoginTypeOK
  <2>2. new \in [at : Places, id : {logins[l].id}, to : {"read", "create", "bind"},
                held : SUBSET LoginRows]
    BY <1>0, <1>3 DEF Entry!InsertTenant, LoginTypeOK, Places, Underway
  <2>3. logins' = [logins EXCEPT ![l] = new] /\ new.at # "in" /\ UNCHANGED <<tenant, merchants>>
    BY <1>0, <1>3 DEF Entry!InsertTenant, Entry!Hold, LoginTypeOK
  <2> QED BY <2>1, <2>2, <2>3, OneMoves
<1>4. ASSUME NEW l \in Login, Entry!InsertMerchant(l) PROVE LoginInv'
  <2> DEFINE new == IF merchants[logins[l].id] = "none"
                    THEN [logins[l] EXCEPT !.held = @ \cup {Entry!MerchantRow(l)}, !.at = "commit"]
                    ELSE [logins[l] EXCEPT !.held = {}, !.at = Entry!Found(l).at,
                                           !.to = Entry!Found(l).to]
  <2>1. Underway(l)'
    BY <1>0, <1>4, FoundIsPlace, RowsDiffer
    DEF Entry!InsertMerchant, Entry!Hold, Underway, Housed, Entry!MerchantRow, LoginTypeOK
  <2>2. new \in [at : Places, id : {logins[l].id}, to : {"read", "create", "bind"},
                held : SUBSET LoginRows]
    BY <1>0, FoundIsPlace DEF LoginTypeOK, Places
  <2>3. logins' = [logins EXCEPT ![l] = new] /\ new.at # "in" /\ UNCHANGED <<tenant, merchants>>
    BY <1>0, <1>4, FoundIsPlace DEF Entry!InsertMerchant, Entry!Hold, LoginTypeOK
  <2> QED BY <2>1, <2>2, <2>3, OneMoves
<1>5. ASSUME NEW l \in Login, Entry!Bind(l) PROVE LoginInv'
  <2> DEFINE new == [logins[l] EXCEPT !.held = @ \cup {Entry!MerchantRow(l)}, !.at = "commit"]
  <2>1. Underway(l)'
    BY <1>0, <1>5, RowsDiffer
    DEF Entry!Bind, Entry!Hold, Underway, Housed, Entry!MerchantRow, LoginTypeOK
  <2>2. new \in [at : Places, id : {logins[l].id}, to : {"read", "create", "bind"},
                held : SUBSET LoginRows]
    BY <1>0, <1>5, RowsDiffer DEF Entry!Bind, Entry!Hold, LoginTypeOK, Places
  <2>3. logins' = [logins EXCEPT ![l] = new] /\ new.at # "in" /\ UNCHANGED <<tenant, merchants>>
    BY <1>0, <1>5, RowsDiffer DEF Entry!Bind, Entry!Hold, LoginTypeOK
  <2> QED BY <2>1, <2>2, <2>3, OneMoves
<1>6. ASSUME NEW l \in Login, Entry!Commit(l) PROVE LoginInv'
  <2>1. LoginTypeOK'
    BY <1>0, <1>6 DEF Entry!Commit, LoginTypeOK, Places
  <2>2. ASSUME NEW m \in Login PROVE Underway(m)'
    <3>1. CASE m = l
      BY <1>0, <1>6, <3>1 DEF Entry!Commit, LoginTypeOK, Underway
    <3>2. CASE m # l
      <4>1. logins'[m] = logins[m] /\ Entry!MerchantRow(m)' = Entry!MerchantRow(m)
        BY <1>0, <1>6, <3>2 DEF Entry!Commit, Entry!MerchantRow, LoginTypeOK
      <4>2. merchants[logins[m].id] = "bound" => merchants'[logins[m].id] = "bound"
        BY <1>0, <1>6 DEF Entry!Commit, LoginTypeOK
      <4>3. tenant => tenant'
        BY <1>6 DEF Entry!Commit
      <4> QED BY <1>0, <4>1, <4>2, <4>3 DEF Underway, Housed
    <3> QED BY <3>1, <3>2
  <2>3. ASSUME NEW m \in Login, (logins[m].at = "in")' PROVE (merchants[logins[m].id] = "bound")'
    <3>1. CASE m = l
      BY <1>0, <1>6, <3>1 DEF Entry!Commit, LoginTypeOK, Underway
    <3>2. CASE m # l
      <4>1. logins'[m] = logins[m]
        BY <1>0, <1>6, <3>2 DEF Entry!Commit, LoginTypeOK
      <4>2. merchants[logins[m].id] = "bound"
        BY <2>3, <4>1 DEF LoginInv, Entry!LoginsBind
      <4> QED BY <1>0, <1>6, <4>1, <4>2 DEF Entry!Commit, LoginTypeOK
    <3> QED BY <3>1, <3>2
  <2>4. ASSUME NEW o \in OpenId, merchants'[o] = "bound" PROVE tenant'
    <3>1. CASE merchants[o] = "bound"
      BY <1>6, <3>1 DEF Entry!Commit, LoginInv, Entry!LoginsBind
    <3>2. CASE merchants[o] # "bound"
      <4>1. Entry!MerchantRow(l) \in logins[l].held
        BY <1>0, <1>6, <2>4, <3>2 DEF Entry!Commit, LoginTypeOK
      <4>2. Housed(l)
        BY <1>0, <4>1 DEF Underway
      <4> QED BY <1>6, <4>2 DEF Entry!Commit, Housed
    <3> QED BY <3>1, <3>2
  <2> QED BY <2>1, <2>2, <2>3, <2>4 DEF LoginInv, Entry!LoginsBind
<1>7. ASSUME NEW l \in Login, Entry!Abort(l) PROVE LoginInv'
  <2> DEFINE new == [logins[l] EXCEPT !.held = {}, !.at = "lost"]
  <2>1. Underway(l)'
    BY <1>0, <1>7 DEF Entry!Abort, Underway, Housed, Entry!MerchantRow, LoginTypeOK
  <2>2. new \in [at : Places, id : {logins[l].id}, to : {"read", "create", "bind"},
                held : SUBSET LoginRows]
    BY <1>0, <1>7 DEF Entry!Abort, LoginTypeOK, Places
  <2>3. logins' = [logins EXCEPT ![l] = new] /\ new.at # "in" /\ UNCHANGED <<tenant, merchants>>
    BY <1>0, <1>7 DEF Entry!Abort, LoginTypeOK
  <2> QED BY <2>1, <2>2, <2>3, OneMoves
<1>8. ASSUME UNCHANGED Entry!vars PROVE LoginInv'
  BY <1>8
  DEF Entry!vars, LoginInv, LoginTypeOK, Underway, Entry!LoginsBind, Housed, Entry!MerchantRow
<1> QED BY <1>1, <1>2, <1>3, <1>4, <1>5, <1>6, <1>7, <1>8 DEF Entry!Next, Entry!Step

(* Who is let in has a merchant, and no merchant belongs to a tenant that  *)
(* was rolled back: wechat_login, with any number of first logins at once. *)
THEOREM LoginsBindHolds == Entry!Spec => []Entry!LoginsBind
<1>1. LoginInv => Entry!LoginsBind
  BY DEF LoginInv
<1> QED BY <1>1, LoginInit, LoginStep, PTL DEF Entry!Spec

-----------------------------------------------------------------------------
(***************************************************************************)
(* The till.                                                               *)
(***************************************************************************)
Sale  == {"checkout", "hold"}
Saved == [order : Till!Order, status : {"pending", "failed"}]

IsPost(c) ==
  /\ c = [kind |-> c.kind, order |-> c.order, at |-> c.at]
  /\ c.kind \in {"checkout", "hold", "resume", "refund", "close", "reopen"}
  /\ c.at \in {"out", "ok", "refused", "neterr"}
  /\ c.kind \in Sale => c.order \in Till!Order

Synced == {sync[i] : i \in DOMAIN sync}

(* An order that is a sale, or may still become one.                       *)
Live(o) ==
  \/ srv[o] \in {"booked", "held"}
  \/ o \in Till!Storage \/ o \in Synced
  \/ \E c \in posts \cup late : c.kind \in Sale /\ c.order = o

TillType ==
  /\ cart \subseteq scanned /\ sending \in BOOLEAN
  /\ \A c \in posts \cup late : IsPost(c)
  /\ kept \in Seq(Saved) /\ sync \in Seq(Till!Order) /\ syncAt \in {"out", "ok", "refused", "neterr"}
  /\ made \in Nat
  /\ goods \in [Till!Order -> SUBSET scanned]
  /\ srv \in [Till!Order -> {"none", "booked", "held", "cancelled"}]

(* Orders are numbered as they are made.                                   *)
Fresh == \A o \in Till!Order : o > made => ~Live(o) /\ goods[o] = {}

(* An order has one request under way; what that request has not lost is   *)
(* nowhere else.  An order is sold or parked, not both.                    *)
Apart ==
  /\ \A c, d \in posts : c.kind \in Sale /\ d.kind \in Sale /\ c.order = d.order => c = d
  /\ \A c \in posts : c.kind \in Sale /\ c.at # "neterr" =>
       /\ c.order \notin Till!Storage /\ c.order \notin Synced
       /\ \A d \in late : d.kind \in Sale => d.order # c.order
  /\ \A c \in posts : c.kind = "checkout" /\ c.at # "neterr" => srv[c.order] # "held"

ParkedIsNotSold ==
  \A c \in posts \cup late : c.kind = "hold" =>
    /\ c.order \notin Till!Storage /\ c.order \notin Synced
    /\ \A d \in posts \cup late : d.kind = "checkout" => d.order # c.order

(* While goods of a live order are in the cart, its request is under way   *)
(* and keeps the page from sending another one.                            *)
Waits ==
  \A o \in Till!Order : \A g \in cart \cap goods[o] :
    g \notin blurred /\ Live(o)
      => sending /\ \E c \in posts : c.kind \in Sale /\ c.order = o

Once ==
  \A o, p \in Till!Order : \A g \in goods[o] \cap goods[p] :
    g \notin blurred /\ Live(o) /\ Live(p) => o = p

SyncTrue == syncAt = "ok" => sync # <<>> /\ srv[Head(sync)] = "booked"

TillInv ==
  TillType /\ Fresh /\ Apart /\ ParkedIsNotSold /\ Waits /\ Once /\ SyncTrue

-----------------------------------------------------------------------------
(* The page counts and picks as everything here does.                      *)
LEMMA TillCounts == \A S : Till!Cardinality(S) = Cardinality(S)
  BY DEF Till!Cardinality, Cardinality

LEMMA TillPicks == \A list, T : Till!Picked(list, T) = Picked(list, T)
<1>1. \A T, n : Till!Nth(T, n) = Nth(T, n)
  BY TillCounts DEF Till!Nth, Nth
<1> QED BY <1>1, TillCounts DEF Till!Picked, Picked

LEMMA KeptFacts ==
  ASSUME NEW R, NEW list \in Seq(R)
  PROVE  /\ Len(list) \in Nat /\ DOMAIN list = 1 .. Len(list)
         /\ \A i \in DOMAIN list : list[i] \in R
  OBVIOUS

LEMMA PickedSeq ==
  ASSUME NEW R, NEW list \in Seq(R), NEW T, T \subseteq DOMAIN list
  PROVE  /\ Picked(list, T) \in Seq(R)
         /\ \A n \in DOMAIN Picked(list, T) : \E i \in T : Picked(list, T)[n] = list[i]
         /\ \A i \in T : \E n \in DOMAIN Picked(list, T) : Picked(list, T)[n] = list[i]
<1>1. Len(list) \in Nat /\ DOMAIN list = 1 .. Len(list) /\ \A i \in DOMAIN list : list[i] \in R
  BY KeptFacts
<1>2. Among(T, Len(list))
  BY <1>1 DEF Among
<1>3. PICK p : p = Picked(list, T)
  OBVIOUS
<1>4. /\ p \in Seq({list[i] : i \in T})
      /\ \A n \in DOMAIN p : \E i \in T : p[n] = list[i]
      /\ \A i \in T : \E n \in DOMAIN p : p[n] = list[i]
  BY <1>1, <1>2, <1>3, PickedFacts
<1>5. {list[i] : i \in T} \subseteq R
  BY <1>1
<1>6. p \in Seq(R)
  BY <1>4, <1>5
<1> QED BY <1>3, <1>4, <1>6

LEMMA PendingFacts ==
  ASSUME NEW list \in Seq(Saved)
  PROVE  /\ Till!PendingIds(list) \in Seq(Till!Order)
         /\ \A n \in DOMAIN Till!PendingIds(list) :
              \E i \in DOMAIN list : Till!PendingIds(list)[n] = list[i].order
<1>1. Till!Pending(list) \subseteq DOMAIN list
  BY DEF Till!Pending
<1>2. PICK p : p = Picked(list, Till!Pending(list))
  OBVIOUS
<1>3. p \in Seq(Saved) /\ \A n \in DOMAIN p : \E i \in DOMAIN list : p[n] = list[i]
  BY <1>1, <1>2, PickedSeq
<1>4. Till!PendingIds(list) = [n \in DOMAIN p |-> p[n].order]
  BY <1>2, TillPicks DEF Till!PendingIds
<1>5. Len(p) \in Nat /\ DOMAIN p = 1 .. Len(p) /\ \A n \in DOMAIN p : p[n].order \in Till!Order
  <2>1. Len(p) \in Nat /\ DOMAIN p = 1 .. Len(p) /\ \A n \in DOMAIN p : p[n] \in Saved
    BY <1>3, KeptFacts
  <2> QED BY <2>1 DEF Saved
<1>6. [n \in DOMAIN p |-> p[n].order] \in Seq(Till!Order)
  BY <1>5
<1> QED BY <1>3, <1>4, <1>6

(* What is stored after an upload.                                         *)
Uploaded(up, list, o, at) ==
  /\ up \in Seq(Saved)
  /\ \A n \in DOMAIN up : \E i \in DOMAIN list : up[n].order = list[i].order
  /\ \A i \in DOMAIN list : \/ at = "ok" /\ list[i].order = o
                            \/ \E n \in DOMAIN up : up[n].order = list[i].order

LEMMA UploadFacts ==
  ASSUME NEW list \in Seq(Saved), NEW o, NEW at \in {"ok", "refused", "neterr"},
         NEW up, up = Till!Upload(list, o, at)
  PROVE  Uploaded(up, list, o, at)
<1>0. Len(list) \in Nat /\ DOMAIN list = 1 .. Len(list) /\ \A i \in DOMAIN list : list[i] \in Saved
  BY KeptFacts
<1>1. CASE at = "ok"
  <2>1. PICK T : T = {i \in DOMAIN list : list[i].order # o}
    OBVIOUS
  <2>2. T \subseteq DOMAIN list /\ Till!Upload(list, o, at) = Picked(list, T)
    BY <1>1, <2>1, TillPicks DEF Till!Upload, Till!Others
  <2>3. up = Picked(list, T)
    BY <2>2
  <2>4. /\ up \in Seq(Saved)
        /\ \A n \in DOMAIN up : \E i \in T : up[n] = list[i]
        /\ \A i \in T : \E n \in DOMAIN up : up[n] = list[i]
    BY <2>2, <2>3, PickedSeq
  <2> QED BY <1>1, <2>1, <2>2, <2>3, <2>4 DEF Uploaded
<1>2. CASE at = "refused"
  <2>1. up = [i \in DOMAIN list |->
                IF list[i].order = o THEN [list[i] EXCEPT !.status = "failed"] ELSE list[i]]
    BY <1>2 DEF Till!Upload
  <2>2. DOMAIN up = 1 .. Len(list) /\ \A i \in DOMAIN list : up[i] \in Saved /\ up[i].order = list[i].order
    BY <1>0, <2>1 DEF Saved
  <2>3. up \in Seq(Saved)
    <3>1. up = [i \in 1 .. Len(list) |-> up[i]]
      BY <1>0, <2>1
    <3> QED BY <1>0, <2>2, <3>1
  <2> QED BY <1>0, <1>2, <2>2, <2>3 DEF Uploaded
<1>3. CASE at = "neterr"
  BY <1>0, <1>3 DEF Till!Upload, Uploaded
<1> QED BY <1>1, <1>2, <1>3

-----------------------------------------------------------------------------
(* A step that makes no order.                                             *)
LEMMA NoNewOrder ==
  ASSUME TillInv, UNCHANGED <<goods, made>>, blurred \subseteq blurred',
         \A o \in Till!Order : Live(o)' => Live(o)
  PROVE  Fresh' /\ Once'
  BY DEF TillInv, Fresh, Once, Till!Order

LEMMA WaitsOn ==
  ASSUME TillInv, UNCHANGED goods, cart' \subseteq cart, blurred \subseteq blurred',
         \A o \in Till!Order : Live(o)' => Live(o),
         sending => sending',
         \A c \in posts : c.kind \in Sale => \E d \in posts' : d.kind \in Sale /\ d.order = c.order
  PROVE  Waits'
  BY DEF TillInv, Waits, Till!Order

(* A request for something else than a sale comes up, or none.             *)
LEMMA ButtonMoves ==
  ASSUME TillInv,
         UNCHANGED <<scanned, cart, kept, sync, syncAt, made, goods, blurred, late, srv>>,
         sending' \in BOOLEAN, sending => sending',
         posts \subseteq posts', \A c \in posts' : c \in posts \/ (IsPost(c) /\ c.kind \notin Sale)
  PROVE  TillInv'
<1>0. /\ TillType /\ Apart /\ ParkedIsNotSold /\ SyncTrue
      /\ Till!Storage' = Till!Storage /\ Synced' = Synced
  BY DEF TillInv, Till!Storage, Synced
<1>1. \A c \in posts' : c.kind \in Sale => c \in posts
  OBVIOUS
<1>2. \A o \in Till!Order : Live(o)' => Live(o)
  BY <1>0, <1>1 DEF Live
<1>3. Fresh' /\ Once'
  BY <1>2, NoNewOrder
<1>4. Waits'
  BY <1>2, WaitsOn
<1>5. TillType'
  BY <1>0 DEF TillType, IsPost, Till!Order
<1>6. Apart' /\ ParkedIsNotSold'
  BY <1>0, <1>1 DEF Apart, ParkedIsNotSold, Sale
<1>7. SyncTrue'
  BY <1>0 DEF SyncTrue
<1> QED BY <1>3, <1>4, <1>5, <1>6, <1>7 DEF TillInv

LEMMA ButtonStep ==
  ASSUME TillInv,
         \/ Till!ConfirmRefund \/ Till!CloseDay \/ Till!LoadData
         \/ \E o \in Till!Order : Till!ResumeHeld(o) \/ Till!OpenRefund(o)
  PROVE  TillInv'
<1>1. /\ UNCHANGED <<scanned, cart, kept, sync, syncAt, made, goods, blurred, late, srv>>
      /\ sending' \in BOOLEAN /\ (sending => sending')
  BY DEF Till!ConfirmRefund, Till!CloseDay, Till!LoadData, Till!ResumeHeld, Till!OpenRefund,
     Till!server, Till!past, TillInv, TillType
<1>2. posts \subseteq posts' /\ \A c \in posts' : c \in posts \/ (IsPost(c) /\ c.kind \notin Sale)
  <2>1. ASSUME NEW kind \in {"resume", "refund", "close", "reopen"}, NEW o,
               posts' = posts \cup {Till!Call(kind, o)}
        PROVE  posts \subseteq posts' /\ \A c \in posts' : c \in posts \/ (IsPost(c) /\ c.kind \notin Sale)
    BY <2>1 DEF Till!Call, IsPost, Sale
  <2>2. \/ posts' = posts
        \/ \E kind \in {"resume", "refund", "close", "reopen"} : \E o :
             posts' = posts \cup {Till!Call(kind, o)}
    <3>1. CASE Till!ConfirmRefund
      BY Zenon, <3>1 DEF Till!ConfirmRefund
    <3>2. CASE Till!CloseDay
      <4>1. PICK kind : /\ kind = IF closed THEN "reopen" ELSE "close"
                        /\ posts' = posts \cup {Till!Call(kind, 0)}
        BY <3>2 DEF Till!CloseDay
      <4>2. kind \in {"resume", "refund", "close", "reopen"}
        BY <4>1
      <4> QED BY Zenon, <4>1, <4>2
    <3>3. ASSUME NEW o \in Till!Order, Till!ResumeHeld(o)
          PROVE  posts' = posts \cup {Till!Call("resume", o)}
      BY Zenon, <3>3 DEF Till!ResumeHeld
    <3>4. ASSUME NEW o \in Till!Order, Till!OpenRefund(o) PROVE posts' = posts
      BY <3>4 DEF Till!OpenRefund
    <3>5. CASE Till!LoadData
      BY <3>5 DEF Till!LoadData
    <3> QED BY Zenon, <3>1, <3>2, <3>3, <3>4, <3>5
  <2> QED BY <2>1, <2>2
<1> QED BY <1>1, <1>2, ButtonMoves

(* Goods scanned are in no order yet.                                      *)
LEMMA ScanStep ==
  ASSUME TillInv, NEW g \in Good, Till!AddProduct(g)
  PROVE  TillInv'
<1>0. /\ TillType /\ Apart /\ ParkedIsNotSold /\ SyncTrue
      /\ UNCHANGED <<sending, posts, late, kept, sync, syncAt, made, goods, blurred, srv>>
      /\ cart' = cart \cup {g} /\ scanned' = scanned \cup {g} /\ g \notin scanned
  BY DEF TillInv, Till!AddProduct, Till!server
<1>1. Till!Storage' = Till!Storage /\ Synced' = Synced
  BY <1>0 DEF Till!Storage, Synced
<1>2. \A o \in Till!Order : Live(o)' = Live(o)
  BY <1>0, <1>1 DEF Live
<1>3. Fresh' /\ Once'
  BY <1>0, <1>2, NoNewOrder
<1>4. \A o \in Till!Order : goods[o] \subseteq scanned
  BY <1>0 DEF TillType
<1>5. Waits'
  BY <1>0, <1>2, <1>4 DEF TillInv, Waits, Till!Order
<1>6. TillType'
  BY <1>0 DEF TillType, IsPost, Till!Order
<1>7. Apart' /\ ParkedIsNotSold' /\ SyncTrue'
  BY <1>0, <1>1 DEF Apart, ParkedIsNotSold, SyncTrue
<1> QED BY <1>3, <1>5, <1>6, <1>7 DEF TillInv

(* A new order of what is in the cart.                                     *)
LEMMA SubmitStep ==
  ASSUME TillInv, NEW kind \in Sale, Till!Submit(kind)
  PROVE  TillInv'
<1> DEFINE n == made + 1
           c == Till!Call(kind, n)
<1>0. /\ TillType /\ Apart /\ ParkedIsNotSold /\ SyncTrue /\ Fresh /\ Waits /\ Once
      /\ UNCHANGED <<scanned, cart, late, kept, sync, syncAt, blurred, srv>>
      /\ posts' = posts \cup {c} /\ ~sending /\ sending'
      /\ made < TillOrders /\ made' = n
      /\ goods' = [goods EXCEPT ![n] = cart]
  BY DEF TillInv, Till!Submit, Till!server
<1>1. Till!Storage' = Till!Storage /\ Synced' = Synced
  BY <1>0 DEF Till!Storage, Synced
<1>2. n \in Till!Order /\ n > made /\ made \in Nat
  BY <1>0, ClientsConstants DEF TillType, Till!Order
<1>3. /\ ~Live(n) /\ IsPost(c) /\ c.kind = kind /\ c.order = n /\ c.at = "out"
  <2>1. ~Live(n)
    BY <1>0, <1>2 DEF Fresh
  <2>2. IsPost(c) /\ c.kind = kind /\ c.order = n /\ c.at = "out"
    <3> HIDE DEF n
    <3> QED BY <1>2 DEF Sale, IsPost, Till!Call
  <2> QED BY <2>1, <2>2
<1> HIDE DEF n, c
<1>4. \A o \in Till!Order : Live(o)' <=> Live(o) \/ o = n
  BY <1>0, <1>1, <1>2, <1>3 DEF Live
<1>5. \A o \in Till!Order : goods'[o] = IF o = n THEN cart ELSE goods[o]
  BY <1>0, <1>2 DEF TillType
<1>6. Fresh'
  <2>1. \A o \in Till!Order : o > n => o > made /\ o # n
    BY <1>2 DEF n, Till!Order
  <2> QED BY <1>0, <1>4, <1>5, <2>1 DEF Fresh, Till!Order
<1>7. \A o \in Till!Order : \A g \in cart \cap goods[o] : g \notin blurred => ~Live(o)
  BY <1>0 DEF Waits
<1>8. Waits'
  BY <1>0, <1>3, <1>4, <1>5, <1>7 DEF Waits, Till!Order
<1>9. Once'
  BY <1>0, <1>4, <1>5, <1>7 DEF Once, Till!Order
<1>10. TillType'
  <2>1. made' \in Nat
    BY <1>0, <1>2 DEF n
  <2>2. goods' \in [Till!Order -> SUBSET scanned']
    BY <1>0 DEF TillType
  <2>3. \A d \in posts' \cup late' : IsPost(d)
    BY <1>0, <1>3 DEF TillType
  <2> QED BY <1>0, <2>1, <2>2, <2>3 DEF TillType, IsPost, Till!Order
<1>11. \A d \in posts \cup late : d.kind \in Sale => d.order # n
  BY <1>3 DEF Live
<1>12. n \notin Till!Storage /\ n \notin Synced /\ srv[n] # "held"
  BY <1>3 DEF Live
<1>13. Apart'
  BY <1>0, <1>1, <1>3, <1>11, <1>12 DEF Apart
<1>14. ParkedIsNotSold'
  BY <1>0, <1>1, <1>3, <1>11, <1>12 DEF ParkedIsNotSold, Sale
<1> QED BY <1>0, <1>6, <1>8, <1>9, <1>10, <1>13, <1>14 DEF TillInv, SyncTrue

LEMMA HeadIn ==
  ASSUME NEW R, NEW list \in Seq(R), list # <<>>
  PROVE  Head(list) \in R /\ 1 \in DOMAIN list /\ Head(list) = list[1]
  OBVIOUS

-----------------------------------------------------------------------------
(* Answers, and what the server does.                                      *)
LEMMA CancelStep ==
  ASSUME TillInv, NEW o \in Till!Order, Till!CancelHeld(o)
  PROVE  TillInv'
<1>0. /\ TillType /\ Apart /\ ParkedIsNotSold /\ SyncTrue
      /\ UNCHANGED <<scanned, cart, sending, posts, late, kept, sync, syncAt, made, goods, blurred>>
      /\ srv[o] = "held" /\ srv' = [srv EXCEPT ![o] = "cancelled"]
  BY DEF TillInv, Till!CancelHeld, Till!page, Till!past
<1>1. Till!Storage' = Till!Storage /\ Synced' = Synced
  BY <1>0 DEF Till!Storage, Synced
<1>2. \A p \in Till!Order : srv'[p] # srv[p] => srv[p] = "held" /\ srv'[p] = "cancelled"
  BY <1>0 DEF TillType
<1>3. \A p \in Till!Order : Live(p)' => Live(p)
  BY <1>0, <1>1, <1>2 DEF Live
<1>4. Fresh' /\ Once' /\ Waits'
  BY <1>0, <1>3, NoNewOrder, WaitsOn
<1>5. TillType'
  BY <1>0 DEF TillType, IsPost, Till!Order
<1>6. Apart' /\ ParkedIsNotSold'
  BY <1>0, <1>1, <1>2 DEF Apart, ParkedIsNotSold, TillType, IsPost, Sale
<1>7. SyncTrue'
  BY <1>0, <1>2, HeadIn DEF TillType, SyncTrue
<1> QED BY <1>4, <1>5, <1>6, <1>7 DEF TillInv

(* What an answer changes of the orders.                                   *)
LEMMA OkChanges ==
  ASSUME TillType, NEW kind, NEW o, Till!Ok(kind, o) \/ UNCHANGED Till!server,
         kind \in {"checkout", "hold", "resume", "refund", "close", "reopen"}
  PROVE  /\ srv' \in [Till!Order -> {"none", "booked", "held", "cancelled"}]
         /\ \A p \in Till!Order :
              \/ srv'[p] = srv[p]
              \/ p = o /\ kind = "checkout" /\ srv'[p] = "booked"
              \/ p = o /\ kind = "hold" /\ srv'[p] = "held"
              \/ p = o /\ kind = "resume" /\ srv[p] = "held" /\ srv'[p] = "booked"
<1>1. CASE UNCHANGED Till!server
  BY <1>1 DEF Till!server, TillType
<1>2. ASSUME Till!Ok(kind, o), kind \in {"refund", "close", "reopen"} PROVE srv' = srv
  BY <1>2 DEF Till!Ok
<1>3. CASE Till!Ok(kind, o) /\ kind = "checkout"
  BY <1>3 DEF Till!Ok, TillType
<1>4. CASE Till!Ok(kind, o) /\ kind = "hold"
  BY <1>4 DEF Till!Ok, TillType
<1>5. CASE Till!Ok(kind, o) /\ kind = "resume"
  BY <1>5 DEF Till!Ok, TillType
<1>6. CASE srv' = srv
  BY <1>6 DEF TillType
<1> QED BY <1>1, <1>2, <1>3, <1>4, <1>5, <1>6

(* An order that is up stays booked, whatever else is carried out.         *)
LEMMA SyncStays ==
  ASSUME TillType, SyncTrue, NEW kind, NEW o, Till!Ok(kind, o) \/ UNCHANGED Till!server,
         kind \in {"checkout", "hold", "resume", "refund", "close", "reopen"},
         kind = "hold" => o \notin Synced,
         UNCHANGED <<sync, syncAt>>
  PROVE  SyncTrue'
<1> SUFFICES ASSUME syncAt = "ok" PROVE sync # <<>> /\ srv'[Head(sync)] = "booked"
  BY DEF SyncTrue
<1>1. sync # <<>> /\ srv[Head(sync)] = "booked"
  BY DEF SyncTrue
<1>2. Head(sync) \in Till!Order /\ Head(sync) \in Synced
  BY <1>1, HeadIn DEF TillType, Synced
<1> QED BY <1>1, <1>2, OkChanges

(* The page's requests are the same, some of them further on.              *)
SameRequests ==
  /\ \A d \in posts' : IsPost(d)
  /\ \A d \in posts' : \E e \in posts : /\ e.kind = d.kind /\ e.order = d.order
                                        /\ d.at # "neterr" => e.at # "neterr"
  /\ \A d \in posts : \E e \in posts' : e.kind = d.kind /\ e.order = d.order
  /\ \A d, e \in posts' : d.kind \in Sale /\ e.kind \in Sale /\ d.order = e.order => d = e

LEMMA RequestsStay ==
  ASSUME TillInv, posts' = posts
  PROVE  SameRequests
BY DEF TillInv, TillType, Apart, SameRequests

(* The request of an order, or what is left of one, is carried out.        *)
LEMMA Carried ==
  ASSUME TillInv, NEW kind, NEW o, Till!Ok(kind, o) \/ UNCHANGED Till!server,
         kind \in {"checkout", "hold", "resume", "refund", "close", "reopen"},
         kind \in Sale => Live(o),
         kind = "hold" => /\ o \notin Synced
                          /\ \A d \in posts : d.kind = "checkout" => d.order # o,
         UNCHANGED <<scanned, cart, sending, kept, sync, made, goods, blurred>>,
         SameRequests, late' \subseteq late,
         syncAt' \in {"out", "ok", "refused", "neterr"},
         SyncTrue'
  PROVE  TillInv'
<1>0. /\ TillType /\ Apart /\ ParkedIsNotSold
      /\ Till!Storage' = Till!Storage /\ Synced' = Synced
  BY DEF TillInv, Till!Storage, Synced
<1>1. /\ srv' \in [Till!Order -> {"none", "booked", "held", "cancelled"}]
      /\ \A p \in Till!Order :
           \/ srv'[p] = srv[p]
           \/ p = o /\ kind = "checkout" /\ srv'[p] = "booked"
           \/ p = o /\ kind = "hold" /\ srv'[p] = "held"
           \/ p = o /\ kind = "resume" /\ srv[p] = "held" /\ srv'[p] = "booked"
  BY <1>0, OkChanges
<1>2. \A p \in Till!Order : srv'[p] \in {"booked", "held"} => Live(p)
  BY <1>1 DEF Live, Sale
<1>3. \A p \in Till!Order : Live(p)' => Live(p)
  BY <1>0, <1>2 DEF Live, SameRequests
<1>4. Fresh' /\ Once'
  BY <1>3, NoNewOrder
<1>5. Waits'
  BY <1>3, WaitsOn DEF SameRequests
<1>6. TillType'
  BY <1>0, <1>1 DEF TillType, IsPost, Till!Order, SameRequests
<1>7. \A d \in posts' : d.kind = "checkout" /\ d.at # "neterr" => srv'[d.order] # "held"
  <2> SUFFICES ASSUME NEW d \in posts', d.kind = "checkout", d.at # "neterr"
               PROVE  srv'[d.order] # "held"
    OBVIOUS
  <2>1. PICK e \in posts : e.kind = d.kind /\ e.order = d.order /\ e.at # "neterr"
    BY DEF SameRequests
  <2>2. srv[e.order] # "held" /\ e.order \in Till!Order
    BY <1>0, <2>1 DEF Apart, TillType, IsPost, Sale
  <2> QED BY <1>1, <2>1, <2>2
<1>8. Apart'
  BY <1>0, <1>7 DEF Apart, SameRequests
<1>9. ParkedIsNotSold'
  BY <1>0 DEF ParkedIsNotSold, SameRequests
<1> QED BY <1>4, <1>5, <1>6, <1>8, <1>9 DEF TillInv

(* A request is answered at the server, lost or turned into an error.      *)
LEMMA Moved ==
  ASSUME TillInv, NEW c \in posts, NEW at \in {"ok", "refused", "neterr"}, Till!Move(c, at),
         c.at = "neterr" => at = "neterr"
  PROVE  SameRequests
<1>1. PICK new : new = [c EXCEPT !.at = at]
  OBVIOUS
<1>2. posts' = (posts \ {c}) \cup {new} /\ IsPost(c)
  BY <1>1 DEF Till!Move, TillInv, TillType
<1>3. IsPost(new) /\ new.kind = c.kind /\ new.order = c.order /\ new.at = at
  BY <1>1, <1>2 DEF IsPost
<1>4. \A d, e \in posts : d.kind \in Sale /\ e.kind \in Sale /\ d.order = e.order => d = e
  BY DEF TillInv, Apart
<1> QED BY <1>2, <1>3, <1>4 DEF TillInv, TillType, SameRequests

LEMMA TillServeStep ==
  ASSUME TillInv, NEW c \in posts, Till!Serve(c)
  PROVE  TillInv'
<1>0. TillType /\ ParkedIsNotSold /\ SyncTrue /\ IsPost(c) /\ c.at = "out"
  BY DEF TillInv, TillType, Till!Serve
<1>1. /\ Till!Ok(c.kind, c.order) \/ UNCHANGED Till!server
      /\ UNCHANGED <<scanned, cart, sending, kept, sync, syncAt, made, goods, blurred, late>>
  BY DEF Till!Serve, Till!past
<1>2. PICK at \in {"ok", "refused", "neterr"} : Till!Move(c, at)
  BY DEF Till!Serve
<1>3. /\ c.kind \in Sale => Live(c.order)
      /\ c.kind = "hold" => /\ c.order \notin Synced
                            /\ \A d \in posts : d.kind = "checkout" => d.order # c.order
  BY <1>0 DEF Live, ParkedIsNotSold
<1>4. SameRequests
  BY <1>0, <1>2, Moved
<1>5. SyncTrue'
  BY <1>0, <1>1, <1>3, SyncStays DEF IsPost
<1>7. late' \subseteq late /\ syncAt' \in {"out", "ok", "refused", "neterr"}
  BY <1>0, <1>1 DEF TillType
<1>8. c.kind \in {"checkout", "hold", "resume", "refund", "close", "reopen"}
  BY <1>0 DEF IsPost
<1> QED BY <1>1, <1>3, <1>4, <1>5, <1>7, <1>8, Carried

LEMMA ServeLateStep ==
  ASSUME TillInv, NEW c \in late, Till!ServeLate(c)
  PROVE  TillInv'
<1>0. TillType /\ Apart /\ ParkedIsNotSold /\ SyncTrue /\ IsPost(c)
  BY DEF TillInv, TillType
<1>1. /\ Till!Ok(c.kind, c.order) \/ UNCHANGED Till!server
      /\ UNCHANGED <<scanned, cart, sending, posts, kept, sync, syncAt, made, goods, blurred>>
      /\ late' \subseteq late
  BY DEF Till!ServeLate, Till!past, Till!page
<1>3. /\ c.kind \in Sale => Live(c.order)
      /\ c.kind = "hold" => /\ c.order \notin Synced
                            /\ \A d \in posts : d.kind = "checkout" => d.order # c.order
  BY <1>0 DEF Live, ParkedIsNotSold
<1>4. SameRequests
  BY <1>1, RequestsStay
<1>5. SyncTrue'
  BY <1>0, <1>1, <1>3, SyncStays DEF IsPost
<1>7. syncAt' \in {"out", "ok", "refused", "neterr"}
  BY <1>0, <1>1 DEF TillType
<1>8. c.kind \in {"checkout", "hold", "resume", "refund", "close", "reopen"}
  BY <1>0 DEF IsPost
<1> QED BY <1>1, <1>3, <1>4, <1>5, <1>7, <1>8, Carried

LEMMA ServeSyncStep ==
  ASSUME TillInv, Till!ServeSync
  PROVE  TillInv'
<1>0. TillType /\ Apart /\ ParkedIsNotSold /\ SyncTrue /\ sync # <<>>
  BY DEF TillInv, Till!ServeSync
<1>1. PICK o : o = Head(sync)
  OBVIOUS
<1>2. o \in Till!Order /\ o \in Synced
  BY <1>0, <1>1, HeadIn DEF TillType, Synced
<1>3. /\ Till!Ok("checkout", o) \/ UNCHANGED Till!server
      /\ UNCHANGED <<scanned, cart, sending, posts, kept, sync, made, goods, blurred, late>>
      /\ syncAt' \in {"ok", "refused"}
      /\ syncAt' = "ok" => Till!Ok("checkout", o)
  BY <1>1 DEF Till!ServeSync, Till!past
<1>4. Live(o)
  BY <1>2 DEF Live
<1>5. SyncTrue'
  BY <1>0, <1>1, <1>2, <1>3 DEF SyncTrue, Till!Ok, TillType
<1>6. SameRequests
  BY <1>3, RequestsStay
<1>7. late' \subseteq late /\ syncAt' \in {"out", "ok", "refused", "neterr"}
  BY <1>3
<1> QED BY <1>3, <1>4, <1>5, <1>6, <1>7, Carried

-----------------------------------------------------------------------------
(* The page hears the answer.                                              *)
LEMMA PutFirst ==
  ASSUME NEW R, NEW list \in Seq(R), NEW x \in R
  PROVE  LET new == <<x>> \o list IN
           /\ new \in Seq(R) /\ Len(new) = Len(list) + 1 /\ Len(list) \in Nat
           /\ DOMAIN list = 1 .. Len(list) /\ DOMAIN new = 1 .. Len(list) + 1
           /\ new[1] = x /\ \A i \in DOMAIN list : new[i + 1] = list[i]
           /\ \A i \in DOMAIN new : i = 1 \/ (i - 1 \in DOMAIN list /\ new[i] = list[i - 1])
  OBVIOUS

LEMMA KeptStep ==
  ASSUME TillType, NEW c \in posts
  PROVE  /\ Till!Kept(c) \in Seq(Saved)
         /\ {Till!Kept(c)[i].order : i \in DOMAIN Till!Kept(c)}
              = Till!Storage \cup (IF Till!Queues(c) THEN {c.order} ELSE {})
<1>1. CASE ~Till!Queues(c)
  BY <1>1 DEF Till!Kept, Till!Storage, TillType
<1>2. CASE Till!Queues(c)
  <2>1. PICK x : x = [order |-> c.order, status |-> "pending"]
    OBVIOUS
  <2>2. x \in Saved /\ x.order = c.order
    BY <1>2, <2>1 DEF Till!Queues, TillType, IsPost, Sale, Saved
  <2>3. PICK new : new = <<x>> \o kept
    OBVIOUS
  <2>4. Till!Kept(c) = new
    BY <1>2, <2>1, <2>3 DEF Till!Kept
  <2>5. /\ new \in Seq(Saved) /\ Len(kept) \in Nat
        /\ DOMAIN kept = 1 .. Len(kept) /\ DOMAIN new = 1 .. Len(kept) + 1
        /\ new[1] = x /\ \A i \in DOMAIN kept : new[i + 1] = kept[i]
        /\ \A i \in DOMAIN new : i = 1 \/ (i - 1 \in DOMAIN kept /\ new[i] = kept[i - 1])
    BY <2>2, <2>3, PutFirst DEF TillType
  <2>6. \A i \in DOMAIN kept : i + 1 \in DOMAIN new
    BY <2>5
  <2>7. {new[i].order : i \in DOMAIN new} \subseteq Till!Storage \cup {c.order}
    BY <2>2, <2>5 DEF Till!Storage
  <2>8. Till!Storage \subseteq {new[i].order : i \in DOMAIN new}
    BY <2>5, <2>6 DEF Till!Storage
  <2>9. 1 \in DOMAIN new
    BY <2>5
  <2>10. c.order \in {new[i].order : i \in DOMAIN new}
    BY <2>2, <2>5, <2>9
  <2> QED BY <1>2, <2>4, <2>5, <2>7, <2>8, <2>10
<1> QED BY <1>1, <1>2

LEMMA TillAnsweredStep ==
  ASSUME TillInv, NEW c \in posts, Till!Answered(c)
  PROVE  TillInv'
<1>0. /\ TillType /\ Apart /\ ParkedIsNotSold /\ SyncTrue /\ Waits /\ IsPost(c)
      /\ posts' = posts \ {c} /\ c.at # "out"
      /\ sending' = (sending /\ c.kind = "refund")
      /\ cart' = (IF Till!Clears(c) \/ Till!Queues(c) THEN {} ELSE cart)
      /\ kept' = Till!Kept(c)
      /\ blurred' = blurred \cup Till!Misread(c)
      /\ UNCHANGED <<sync, syncAt, scanned, made, goods, late, srv>>
  BY DEF TillInv, TillType, Till!Answered, Till!server
<1>1. /\ kept' \in Seq(Saved) /\ Synced' = Synced
      /\ Till!Storage' = Till!Storage \cup (IF Till!Queues(c) THEN {c.order} ELSE {})
  BY <1>0, KeptStep DEF Till!Storage, Synced
<1>2. Till!Queues(c) => c.kind = "checkout" /\ c.at = "neterr" /\ c.kind \in Sale
  BY DEF Till!Queues, Sale
<1>3. \A o \in Till!Order : Live(o)' => Live(o)
  BY <1>0, <1>1, <1>2 DEF Live
<1>4. Fresh' /\ Once'
  BY <1>0, <1>3, NoNewOrder
<1>5. TillType'
  BY <1>0, <1>1 DEF TillType, IsPost, Till!Order
<1>6. \A d \in posts' : d.kind \in Sale /\ c.kind \in Sale => d.order # c.order
  BY <1>0 DEF Apart
<1>7. Apart'
  BY <1>0, <1>1, <1>2, <1>6 DEF Apart
<1>8. ParkedIsNotSold'
  BY <1>0, <1>1, <1>2 DEF ParkedIsNotSold
<1>9. Waits'
  <2> SUFFICES ASSUME NEW o \in Till!Order, NEW g, g \in cart', g \in goods[o], g \notin blurred',
                      Live(o)'
               PROVE  sending' /\ \E d \in posts' : d.kind \in Sale /\ d.order = o
    BY <1>0 DEF Waits, Till!Order
  <2>1. g \in cart /\ g \notin blurred /\ Live(o)
    BY <1>0, <1>3
  <2>2. PICK d \in posts : d.kind \in Sale /\ d.order = o /\ sending
    BY <1>0, <2>1 DEF Waits
  <2>3. CASE c.kind = "refund"
    <3>1. d # c
      BY <2>2, <2>3 DEF Sale
    <3> QED BY <1>0, <2>2, <2>3, <3>1
  <2>4. CASE c.kind # "refund" /\ d # c
    <3>1. d \in {e \in posts \ {c} : e.kind \in {"checkout", "hold"}}
      BY <2>2, <2>4 DEF Sale
    <3>2. goods[d.order] \subseteq Till!Misread(c)
      BY <2>4, <3>1 DEF Till!Misread
    <3> QED BY <1>0, <2>2, <3>2
  <2>5. CASE c.kind # "refund" /\ d = c
    <3>1. ~Till!Clears(c) /\ ~Till!Queues(c) /\ c.kind \in Sale /\ c.order = o
      BY <1>0, <2>2, <2>5
    <3>2. c.at \in {"refused", "neterr"} /\ (c.kind = "checkout" => c.at = "refused")
      BY <1>0, <3>1 DEF Till!Clears, Till!Queues, IsPost, Sale
    <3>3. CASE c.kind = "hold"
      BY <1>0, <2>5, <3>1, <3>2, <3>3 DEF Till!Misread
    <3>4. CASE c.kind = "checkout" /\ srv[o] = "booked"
      BY <1>0, <2>5, <3>1, <3>2, <3>4 DEF Till!Misread
    <3>5. CASE c.kind = "checkout" /\ srv[o] # "booked"
      <4>1. /\ o \notin Till!Storage /\ o \notin Synced /\ srv[o] # "held"
            /\ \A e \in late : e.kind \in Sale => e.order # o
        BY <1>0, <3>1, <3>2, <3>5 DEF Apart
      <4>2. \A e \in posts' : e.kind \in Sale => e.order # o
        BY <1>6, <3>1
      <4>3. ~Live(o)'
        BY <1>0, <1>1, <3>1, <3>5, <4>1, <4>2 DEF Live
      <4> QED BY <4>3
    <3> QED BY <3>1, <3>3, <3>4, <3>5 DEF Sale
  <2> QED BY <2>3, <2>4, <2>5
<1> QED BY <1>0, <1>4, <1>5, <1>7, <1>8, <1>9 DEF TillInv, SyncTrue

-----------------------------------------------------------------------------
(* The queue in storage is sent.                                           *)
LEMMA SyncMoves ==
  ASSUME TillInv,
         UNCHANGED <<scanned, cart, sending, posts, late, made, goods, blurred, srv>>,
         kept' \in Seq(Saved), sync' \in Seq(Till!Order), syncAt' \in {"out", "ok", "refused", "neterr"},
         \A o \in Till!Order : o \in Till!Storage' \/ o \in Synced' =>
           o \in Till!Storage \/ o \in Synced,
         SyncTrue'
  PROVE  TillInv'
<1>0. TillType /\ Apart /\ ParkedIsNotSold
  BY DEF TillInv
<1>1. \A o \in Till!Order : Live(o)' => Live(o)
  BY DEF Live
<1>2. Fresh' /\ Once' /\ Waits'
  BY <1>1, NoNewOrder, WaitsOn
<1>3. TillType'
  BY <1>0 DEF TillType, IsPost, Till!Order
<1>4. Apart'
  BY <1>0 DEF Apart, TillType, IsPost
<1>5. ParkedIsNotSold'
  BY <1>0 DEF ParkedIsNotSold, TillType, IsPost, Sale
<1> QED BY <1>2, <1>3, <1>4, <1>5 DEF TillInv

LEMMA StorageIsOrders ==
  ASSUME TillType
  PROVE  Till!Storage \subseteq Till!Order /\ Synced \subseteq Till!Order
<1>1. \A i \in DOMAIN kept : kept[i] \in Saved
  BY KeptFacts DEF TillType
<1>2. \A i \in DOMAIN sync : sync[i] \in Till!Order
  BY KeptFacts DEF TillType
<1> QED BY <1>1, <1>2 DEF Till!Storage, Synced, Saved

LEMMA SyncStartStep ==
  ASSUME TillInv, Till!SyncPendingOrders
  PROVE  TillInv'
<1>0. /\ TillType /\ SyncTrue /\ sync = <<>> /\ sync' = Till!PendingIds(kept)
      /\ UNCHANGED <<scanned, cart, sending, posts, late, made, goods, blurred, srv, kept, syncAt>>
  BY DEF TillInv, Till!SyncPendingOrders, Till!server, Till!past
<1>1. /\ sync' \in Seq(Till!Order)
      /\ \A n \in DOMAIN sync' : \E i \in DOMAIN kept : sync'[n] = kept[i].order
  BY <1>0, PendingFacts DEF TillType
<1>2. Synced' \subseteq Till!Storage /\ Till!Storage' = Till!Storage
  BY <1>0, <1>1 DEF Synced, Till!Storage
<1>3. syncAt # "ok"
  BY <1>0 DEF SyncTrue
<1>4. SyncTrue'
  BY <1>0, <1>3 DEF SyncTrue
<1> QED BY <1>0, <1>1, <1>2, <1>4, SyncMoves DEF TillType

LEMMA SyncAnsweredStep ==
  ASSUME TillInv, Till!SyncAnswered
  PROVE  /\ TillInv'
         /\ \A o \in Till!Storage : o \in Till!Storage' \/ srv'[o] = "booked"
<1>0. /\ TillType /\ SyncTrue /\ sync # <<>> /\ syncAt \in {"ok", "refused", "neterr"}
      /\ kept' = Till!Upload(kept, Head(sync), syncAt)
      /\ sync' = Tail(sync) /\ syncAt' = "out"
      /\ UNCHANGED <<scanned, cart, sending, posts, late, made, goods, blurred, srv>>
  BY DEF TillInv, TillType, Till!SyncAnswered, Till!server, Till!past
<1>1. PICK o : o = Head(sync)
  OBVIOUS
<1>2. /\ kept' \in Seq(Saved)
      /\ \A n \in DOMAIN kept' : \E i \in DOMAIN kept : kept'[n].order = kept[i].order
      /\ \A i \in DOMAIN kept : \/ syncAt = "ok" /\ kept[i].order = o
                                \/ \E n \in DOMAIN kept' : kept'[n].order = kept[i].order
  <2>1. kept \in Seq(Saved)
    BY <1>0 DEF TillType
  <2>2. PICK up : up = Till!Upload(kept, o, syncAt)
    OBVIOUS
  <2>3. /\ up \in Seq(Saved)
        /\ \A n \in DOMAIN up : \E i \in DOMAIN kept : up[n].order = kept[i].order
        /\ \A i \in DOMAIN kept : \/ syncAt = "ok" /\ kept[i].order = o
                                  \/ \E n \in DOMAIN up : up[n].order = kept[i].order
    <3>1. syncAt \in {"ok", "refused", "neterr"}
      BY <1>0
    <3>2. \A at : at = syncAt => Uploaded(up, kept, o, at)
      BY <2>1, <2>2, <3>1, UploadFacts
    <3> QED BY <3>2 DEF Uploaded
  <2>4. kept' = up
    BY <1>0, <1>1, <2>2
  <2> QED BY <2>3, <2>4
<1>3. Till!Storage' \subseteq Till!Storage
  BY <1>2 DEF Till!Storage
<1>4. sync' \in Seq(Till!Order) /\ Synced' \subseteq Synced
  <2>1. sync \in Seq(Till!Order)
    BY <1>0 DEF TillType
  <2>2. /\ Tail(sync) \in Seq(Till!Order)
        /\ \A i \in DOMAIN Tail(sync) : i + 1 \in DOMAIN sync /\ Tail(sync)[i] = sync[i + 1]
    BY <1>0, <2>1
  <2> QED BY <1>0, <2>2 DEF Synced
<1>5. SyncTrue'
  BY <1>0 DEF SyncTrue
<1>6. TillInv'
  BY <1>0, <1>2, <1>3, <1>4, <1>5, SyncMoves
<1>7. ASSUME NEW p \in Till!Storage PROVE p \in Till!Storage' \/ srv'[p] = "booked"
  <2>1. PICK i \in DOMAIN kept : kept[i].order = p
    BY DEF Till!Storage
  <2>2. CASE syncAt = "ok" /\ p = o
    BY <1>0, <1>1, <2>2 DEF SyncTrue
  <2>3. CASE \E n \in DOMAIN kept' : kept'[n].order = p
    BY <2>3 DEF Till!Storage
  <2> QED BY <1>2, <2>1, <2>2, <2>3
<1> QED BY <1>6, <1>7

LEMMA TillRetryStep ==
  ASSUME TillInv, Till!RetryFailed
  PROVE  TillInv' /\ Till!Storage' = Till!Storage
<1>0. /\ TillType /\ SyncTrue
      /\ kept' = [i \in DOMAIN kept |-> [kept[i] EXCEPT !.status = "pending"]]
      /\ sync' = IF sync = <<>> THEN Till!PendingIds(kept') ELSE sync
      /\ UNCHANGED <<scanned, cart, sending, posts, late, made, goods, blurred, srv, syncAt>>
  BY DEF TillInv, Till!RetryFailed, Till!server, Till!past
<1>1. /\ kept \in Seq(Saved) /\ Len(kept) \in Nat /\ DOMAIN kept = 1 .. Len(kept)
      /\ \A i \in DOMAIN kept : kept[i] \in Saved
  BY <1>0, KeptFacts DEF TillType
<1>2. \A i \in DOMAIN kept : kept'[i] \in Saved /\ kept'[i].order = kept[i].order
  BY <1>0, <1>1 DEF Saved
<1>3. kept' \in Seq(Saved) /\ DOMAIN kept' = DOMAIN kept
  <2>1. kept' = [i \in 1 .. Len(kept) |-> kept'[i]]
    BY <1>0, <1>1
  <2>2. \A i \in 1 .. Len(kept) : kept'[i] \in Saved
    BY <1>1, <1>2
  <2> QED BY <1>0, <1>1, <2>1, <2>2
<1>4. Till!Storage' = Till!Storage
  BY <1>2, <1>3 DEF Till!Storage
<1>5. CASE sync # <<>>
  <2>1. Synced' = Synced /\ SyncTrue'
    BY <1>0, <1>5 DEF Synced, SyncTrue
  <2>2. sync' \in Seq(Till!Order) /\ syncAt' \in {"out", "ok", "refused", "neterr"}
    BY <1>0, <1>5 DEF TillType
  <2> QED BY <1>0, <1>3, <1>4, <2>1, <2>2, SyncMoves
<1>6. CASE sync = <<>>
  <2>1. PICK list : list = kept'
    OBVIOUS
  <2>2. /\ Till!PendingIds(list) \in Seq(Till!Order)
        /\ \A n \in DOMAIN Till!PendingIds(list) :
             \E i \in DOMAIN list : Till!PendingIds(list)[n] = list[i].order
    BY <1>3, <2>1, PendingFacts
  <2>3. sync' = Till!PendingIds(list)
    BY <1>0, <1>6, <2>1
  <2>4. Synced' \subseteq Till!Storage
    BY <1>2, <1>3, <2>1, <2>2, <2>3 DEF Synced, Till!Storage
  <2>5. syncAt' # "ok"
    BY <1>0, <1>6 DEF SyncTrue
  <2>6. SyncTrue' /\ syncAt' \in {"out", "ok", "refused", "neterr"}
    BY <1>0, <2>5 DEF SyncTrue, TillType
  <2> QED BY <1>0, <1>3, <1>4, <2>2, <2>3, <2>4, <2>6, SyncMoves
<1> QED BY <1>5, <1>6

-----------------------------------------------------------------------------
(* Faults *)
LEMMA Lost ==
  ASSUME TillInv,
         UNCHANGED <<scanned, made, goods, blurred, srv, kept>>,
         \/ cart' = cart /\ sending' = sending /\ SameRequests
         \/ cart' = {} /\ sending' = FALSE /\ posts' = {},
         sync' = sync \/ sync' = <<>>, syncAt' \in {"out", "refused", "neterr"} \/ syncAt' = syncAt,
         sync' = sync \/ syncAt' = "out",
         \A d \in late' : \/ d \in late
                          \/ /\ IsPost(d) /\ d.kind = "checkout" /\ d.order \in Synced
                          \/ /\ d \in posts
                             /\ \A e \in posts' : e.kind \in Sale /\ d.kind \in Sale /\ e.order = d.order
                                                  => e.at = "neterr"
  PROVE  TillInv'
<1>0. /\ TillType /\ Apart /\ ParkedIsNotSold /\ SyncTrue
      /\ Till!Storage' = Till!Storage /\ Synced' \subseteq Synced
  BY DEF TillInv, Till!Storage, Synced
<1>1. \A o \in Till!Order : Live(o)' => Live(o)
  BY <1>0 DEF Live, SameRequests
<1>2. Fresh' /\ Once'
  BY <1>1, NoNewOrder
<1>3. Waits'
  <2>1. CASE cart' = {}
    BY <2>1 DEF Waits
  <2>2. CASE cart' # {}
    BY <1>1, <2>2, WaitsOn DEF SameRequests
  <2> QED BY <2>1, <2>2
<1>4. TillType'
  <2>1. \A d \in posts' \cup late' : IsPost(d)
    BY <1>0 DEF TillType, SameRequests
  <2>2. sync' \in Seq(Till!Order)
    <3>1. <<>> \in Seq(Till!Order)
      OBVIOUS
    <3> QED BY <1>0, <3>1 DEF TillType
  <2>3. syncAt' \in {"out", "ok", "refused", "neterr"}
    BY <1>0 DEF TillType
  <2> QED BY <1>0, <2>1, <2>2, <2>3 DEF TillType, IsPost, Till!Order
<1>5. Apart'
  <2>1. ASSUME NEW d \in posts', d.kind \in Sale, d.at # "neterr"
        PROVE  /\ d.order \notin Till!Storage' /\ d.order \notin Synced'
               /\ \A e \in late' : e.kind \in Sale => e.order # d.order
               /\ d.kind = "checkout" => srv'[d.order] # "held"
    <3>1. PICK e \in posts : e.kind = d.kind /\ e.order = d.order /\ e.at # "neterr"
      BY <2>1 DEF SameRequests
    <3>2. /\ d.order \notin Till!Storage /\ d.order \notin Synced
          /\ \A f \in late : f.kind \in Sale => f.order # d.order
          /\ d.kind = "checkout" => srv[d.order] # "held"
      BY <1>0, <2>1, <3>1 DEF Apart
    <3> QED BY <1>0, <2>1, <3>2
  <2> QED BY <2>1 DEF Apart, Sale, SameRequests
<1>6. ParkedIsNotSold'
  BY <1>0 DEF ParkedIsNotSold, SameRequests
<1>7. SyncTrue'
  BY <1>0 DEF SyncTrue
<1> QED BY <1>2, <1>3, <1>4, <1>5, <1>6, <1>7 DEF TillInv

LEMMA LoseStep ==
  ASSUME TillInv, NEW c \in posts, Till!Lose(c) \/ Till!Garble(c)
  PROVE  TillInv'
<1>0. TillType /\ IsPost(c) /\ Apart
  BY DEF TillInv, TillType
<1>1. UNCHANGED <<scanned, cart, sending, made, goods, blurred, srv, kept, sync, syncAt>>
  BY DEF Till!Lose, Till!Garble, Till!server, Till!past
<1>2. PICK at \in {"ok", "refused", "neterr"} :
        /\ Till!Move(c, at) /\ c.at # "neterr"
        /\ late' = late \/ (at = "neterr" /\ late' = late \cup {c})
  BY DEF Till!Lose, Till!Garble
<1>3. SameRequests
  BY <1>2, Moved
<1>4. at = "neterr" => \A e \in posts' : e.kind \in Sale /\ c.kind \in Sale /\ e.order = c.order
                                         => e.at = "neterr"
  <2>1. PICK new : new = [c EXCEPT !.at = at]
    OBVIOUS
  <2>2. posts' = (posts \ {c}) \cup {new}
    BY <1>2, <2>1 DEF Till!Move
  <2>3. new.at = at
    BY <1>0, <2>1 DEF IsPost
  <2> QED BY <1>0, <2>2, <2>3 DEF Apart
<1>6. \A d \in late' : \/ d \in late
                       \/ /\ d \in posts
                          /\ \A e \in posts' : e.kind \in Sale /\ d.kind \in Sale /\ e.order = d.order
                                               => e.at = "neterr"
  BY <1>2, <1>4
<1> QED BY <1>1, <1>3, <1>6, Lost

LEMMA SyncCall ==
  ASSUME TillType, sync # <<>>
  PROVE  LET c == Till!Call("checkout", Head(sync))
         IN IsPost(c) /\ c.kind = "checkout" /\ c.order \in Synced
<1>1. PICK o : o = Head(sync)
  OBVIOUS
<1>2. o \in Till!Order /\ o \in Synced
  BY <1>1, HeadIn DEF TillType, Synced
<1> QED BY <1>1, <1>2 DEF Till!Call, IsPost

LEMMA LoseSyncStep ==
  ASSUME TillInv, Till!LoseSync
  PROVE  TillInv'
<1>0. /\ TillType /\ Apart /\ sync # <<>> /\ syncAt' = "neterr"
      /\ UNCHANGED <<scanned, cart, sending, posts, made, goods, blurred, srv, kept, sync>>
  BY DEF TillInv, Till!LoseSync, Till!server, Till!past
<1>1. PICK c : c = Till!Call("checkout", Head(sync))
  OBVIOUS
<1>2. IsPost(c) /\ c.kind = "checkout" /\ c.order \in Synced
  BY <1>0, <1>1, SyncCall
<1>3. \A d \in late' : d \in late \/ d = c
  BY <1>1 DEF Till!LoseSync
<1>4. \A d \in late' : d \in late \/ (IsPost(d) /\ d.kind = "checkout" /\ d.order \in Synced)
  BY <1>2, <1>3
<1>5. SameRequests
  BY <1>0, RequestsStay
<1> QED BY <1>0, <1>4, <1>5, Lost

LEMMA KillStep ==
  ASSUME TillInv, Till!Kill
  PROVE  TillInv'
<1>0. /\ TillType
      /\ cart' = {} /\ sending' = FALSE /\ posts' = {} /\ sync' = <<>> /\ syncAt' = "out"
      /\ UNCHANGED <<scanned, made, goods, blurred, srv, kept>>
  BY DEF TillInv, Till!Kill, Till!server, Till!past
<1>1. PICK c : c = Till!Call("checkout", Head(sync))
  OBVIOUS
<1>2. sync # <<>> => IsPost(c) /\ c.kind = "checkout" /\ c.order \in Synced
  BY <1>0, <1>1, SyncCall
<1>3. \A d \in late' : d \in late \/ d \in posts \/ (sync # <<>> /\ d = c)
  BY <1>1 DEF Till!Kill
<1>4. \A d \in late' : \/ d \in late \/ d \in posts
                       \/ (IsPost(d) /\ d.kind = "checkout" /\ d.order \in Synced)
  BY <1>2, <1>3
<1> QED BY <1>0, <1>4, Lost

-----------------------------------------------------------------------------
LEMMA TillInit == Till!Init => TillInv
<1> SUFFICES ASSUME Till!Init PROVE TillInv
  OBVIOUS
<1>1. /\ cart = {} /\ scanned = {} /\ sending = FALSE /\ posts = {} /\ late = {}
      /\ kept = <<>> /\ sync = <<>> /\ syncAt = "out" /\ made = 0
      /\ goods = [o \in Till!Order |-> {}] /\ srv = [o \in Till!Order |-> "none"]
  BY DEF Till!Init
<1>2. TillType
  <2>1. <<>> \in Seq(Saved) /\ <<>> \in Seq(Till!Order)
    OBVIOUS
  <2>2. made \in Nat /\ syncAt \in {"out", "ok", "refused", "neterr"}
    BY <1>1
  <2>3. /\ goods \in [Till!Order -> SUBSET scanned]
        /\ srv \in [Till!Order -> {"none", "booked", "held", "cancelled"}]
    BY <1>1
  <2>4. cart \subseteq scanned /\ sending \in BOOLEAN /\ posts \cup late = {}
    BY <1>1
  <2> QED BY <1>1, <2>1, <2>2, <2>3, <2>4 DEF TillType
<1>3. Till!Storage = {} /\ Synced = {}
  BY <1>1 DEF Till!Storage, Synced
<1>4. \A o \in Till!Order : ~Live(o) /\ goods[o] = {}
  BY <1>1, <1>3 DEF Live
<1> QED BY <1>1, <1>2, <1>3, <1>4 DEF TillInv, Fresh, Apart, ParkedIsNotSold, Waits, Once, SyncTrue

LEMMA TillStep == TillInv /\ [Till!Next]_(Till!vars) => TillInv'
<1> SUFFICES ASSUME TillInv, [Till!Next]_(Till!vars) PROVE TillInv'
  OBVIOUS
<1>1. CASE UNCHANGED Till!vars
  <2>1. /\ UNCHANGED <<scanned, cart, sending, posts, late, made, goods, blurred, srv, kept,
                       sync, syncAt>>
    BY <1>1 DEF Till!vars, Till!page, Till!server, Till!past
  <2>2. Till!Storage' = Till!Storage /\ Synced' = Synced
    BY <2>1 DEF Till!Storage, Synced
  <2> QED BY <2>1, <2>2, SyncMoves DEF TillInv, TillType, SyncTrue
<1>2. ASSUME NEW kind \in Sale, Till!Submit(kind) PROVE TillInv'
  BY <1>2, SubmitStep
<1>3. CASE Till!Checkout \/ Till!HoldOrder
  BY <1>2, <1>3 DEF Till!Checkout, Till!HoldOrder, Sale
<1>4. ASSUME NEW g \in Good, Till!AddProduct(g) PROVE TillInv'
  BY <1>4, ScanStep
<1>5. CASE Till!ConfirmRefund \/ Till!CloseDay \/ Till!LoadData
  BY <1>5, ButtonStep
<1>6. ASSUME NEW o \in Till!Order, Till!ResumeHeld(o) \/ Till!OpenRefund(o) PROVE TillInv'
  BY <1>6, ButtonStep
<1>7. ASSUME NEW o \in Till!Order, Till!CancelHeld(o) PROVE TillInv'
  BY <1>7, CancelStep
<1>8. ASSUME NEW c \in posts, Till!Answered(c) PROVE TillInv'
  BY <1>8, TillAnsweredStep
<1>9. ASSUME NEW c \in posts, Till!Serve(c) PROVE TillInv'
  BY <1>9, TillServeStep
<1>10. ASSUME NEW c \in posts, Till!Lose(c) \/ Till!Garble(c) PROVE TillInv'
  BY <1>10, LoseStep
<1>11. CASE Till!SyncPendingOrders
  BY <1>11, SyncStartStep
<1>12. CASE Till!SyncAnswered
  BY <1>12, SyncAnsweredStep
<1>13. CASE Till!RetryFailed
  BY <1>13, TillRetryStep
<1>14. CASE Till!ServeSync
  BY <1>14, ServeSyncStep
<1>15. ASSUME NEW c \in late, Till!ServeLate(c) PROVE TillInv'
  BY <1>15, ServeLateStep
<1>16. CASE Till!LoseSync
  BY <1>16, LoseSyncStep
<1>17. CASE Till!Kill
  BY <1>17, KillStep
<1> QED
  BY Zenon, <1>1, <1>3, <1>4, <1>5, <1>6, <1>7, <1>8, <1>9, <1>10, <1>11, <1>12, <1>13, <1>14,
     <1>15, <1>16, <1>17 DEF Till!Next

(* A good whose requests the page has not misread is in one sale at most.  *)
LEMMA TillOnce == TillInv => Till!SoldOnce
<1> SUFFICES ASSUME TillInv, NEW g \in Good \ blurred
             PROVE  Cardinality({o \in Till!Order : srv[o] = "booked" /\ g \in goods[o]}) <= 1
  BY Zenon, TillCounts DEF Till!SoldOnce
<1>1. PICK S : S = {o \in Till!Order : srv[o] = "booked" /\ g \in goods[o]}
  OBVIOUS
<1>2. \A o, p \in S : o = p
  BY <1>1 DEF TillInv, Once, Live
<1>3. S = {} \/ \E o : S = {o}
  BY <1>2
<1>4. Cardinality(S) \in {0, 1}
  BY Zenon, <1>3, FS_EmptySet, FS_Singleton
<1> QED BY <1>1, <1>4

(* A good is sold twice only if the page took an answer for another one;   *)
(* and who is let in has a merchant: the till page and first logins.       *)
THEOREM AnswersAreHeededHolds == Till!Spec /\ Entry!Spec => []AnswersAreHeeded
<1>1. TillInv => Till!SoldOnce
  BY TillOnce
<1>2. TillInv /\ LoginInv => AnswersAreHeeded
  BY <1>1 DEF AnswersAreHeeded, LoginInv
<1> QED BY <1>2, TillInit, TillStep, LoginInit, LoginStep, PTL DEF Till!Spec, Entry!Spec

-----------------------------------------------------------------------------
(* Only an upload takes an order out of storage.                           *)
LEMMA QueuedStep ==
  ASSUME TillInv, [Till!Next]_(Till!vars), NEW o \in Till!Storage
  PROVE  o \in Till!Storage' \/ srv'[o] = "booked"
<1>1. CASE kept' = kept
  BY <1>1 DEF Till!Storage
<1>2. CASE Till!SyncAnswered
  BY <1>2, SyncAnsweredStep
<1>3. CASE Till!RetryFailed
  BY <1>3, TillRetryStep
<1>4. ASSUME NEW c \in posts, Till!Answered(c) PROVE o \in Till!Storage'
  <2>1. kept' = Till!Kept(c) /\ TillType
    BY <1>4 DEF TillInv, Till!Answered
  <2>2. o \in {Till!Kept(c)[i].order : i \in DOMAIN Till!Kept(c)}
    BY <2>1, KeptStep
  <2> QED BY <2>1, <2>2 DEF Till!Storage
<1>5. CASE UNCHANGED Till!vars
  BY <1>1, <1>5 DEF Till!vars, Till!page
<1>6. CASE \/ \E g \in Good : Till!AddProduct(g)
           \/ Till!Checkout \/ Till!HoldOrder \/ Till!ConfirmRefund \/ Till!CloseDay
           \/ Till!LoadData \/ Till!SyncPendingOrders \/ Till!ServeSync \/ Till!LoseSync
           \/ Till!Kill
  <2>1. kept' = kept
    BY <1>6
    DEF Till!AddProduct, Till!Checkout, Till!HoldOrder, Till!Submit, Till!ConfirmRefund,
        Till!CloseDay, Till!LoadData, Till!SyncPendingOrders, Till!ServeSync, Till!LoseSync,
        Till!Kill
  <2> QED BY <1>1, <2>1
<1>7. CASE \/ \E p \in Till!Order : Till!ResumeHeld(p) \/ Till!CancelHeld(p) \/ Till!OpenRefund(p)
           \/ \E c \in posts : Till!Serve(c) \/ Till!Lose(c) \/ Till!Garble(c)
           \/ \E c \in late : Till!ServeLate(c)
  <2>1. kept' = kept
    BY <1>7
    DEF Till!ResumeHeld, Till!CancelHeld, Till!OpenRefund, Till!Serve, Till!Lose, Till!Garble,
        Till!ServeLate, Till!page
  <2> QED BY <1>1, <2>1
<1> QED BY Zenon, <1>2, <1>3, <1>4, <1>5, <1>6, <1>7 DEF Till!Next

(* An order promised to the cashier stays in storage until it is booked:   *)
(* pos.js, however often it is closed and whatever the network loses.      *)
THEOREM QueuedIsKeptHolds == Till!Spec => QueuedIsKept
<1>1. TillInv /\ [Till!Next]_(Till!vars)
        => [\A o \in Till!Order : o \in Till!Storage => o \in Till!Storage' \/ srv'[o] = "booked"]_(Till!vars)
  BY QueuedStep
<1> QED BY <1>1, TillInit, TillStep, PTL DEF Till!Spec, QueuedIsKept, Till!QueuedIsKept
=============================================================================
