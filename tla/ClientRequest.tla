--------------------------- MODULE ClientRequest ---------------------------
(***************************************************************************)
(* The requests of the mini program (miniprogram/app.js: request,          *)
(* _requestOnce, ensureLogin): one login that many requests wait for, the  *)
(* identity of an employee in place of the owner's, retries with back-off  *)
(* where a retry is safe, and one new login for a request the server       *)
(* refuses to recognise.  The network delays and loses requests and        *)
(* answers; the server answers a key it has already served the same        *)
(* identity from memory (module Idempotency).                              *)
(***************************************************************************)
EXTENDS Integers, FiniteSets

CONSTANTS
  Request,
  Write,        \* requests that change something
  RetrySafe,    \* writes sent with retrySafe and an idempotency key
  MaxRetries,   \* maxRetries of _requestOnce (2)
  MaxTokens,    \* bound: tokens issued to the owner, and to employees
  MaxFaults     \* bound: answers lost or 5xx, logins that fail, tokens expired

VARIABLES
  access,    \* globalData.accessToken
  staff,     \* globalData.staffToken
  login,     \* is _loginPromise pending?
  req,       \* what each call of request() has come to
  wire,      \* attempts the server has not seen yet, the given up ones too
  answers,   \* answers on their way to a request that waits for them
  applied,   \* how often the server has carried out each request, by identity
  issued,    \* tokens issued, by identity
  live,      \* tokens the server accepts
  faults

server == <<applied, issued, live>>
vars   == <<access, staff, login, req, wire, answers, server, faults>>

NoToken == [who |-> "none", no |-> 0]
Who     == {"owner", "employee"}
Fresh   == [phase |-> "new", attempt |-> 1, retried |-> FALSE, made |-> "none", sent |-> NoToken]

Init ==
  /\ access = NoToken /\ staff = NoToken
  /\ login = FALSE
  /\ req = [r \in Request |-> Fresh]
  /\ wire = {} /\ answers = {}
  /\ applied = [r \in Request |-> [w \in Who |-> 0]]
  /\ issued = [w \in Who |-> 0]
  /\ live = {}
  /\ faults = 0

-----------------------------------------------------------------------------
Identity == IF staff # NoToken THEN "employee" ELSE "owner"
Token(own, emp) == IF emp # NoToken THEN emp ELSE own

(* _requestOnce for the requests in S, with the token of the moment.       *)
Exchange(r, no) == [req |-> r, attempt |-> no.attempt, retried |-> no.retried, token |-> no.sent]

Sent(S, rs, own, emp) ==
  [r \in Request |-> IF r \in S THEN [rs[r] EXCEPT !.phase = "flight", !.sent = Token(own, emp)]
                     ELSE rs[r]]

Attempts(S, rs) == {Exchange(r, rs[r]) : r \in S}

MayRetry(r) == (r \notin Write \/ r \in RetrySafe) /\ req[r].attempt <= MaxRetries

Waiting == {r \in Request : req[r].phase = "login"}

(* ensureLogin(false) and the request after it.                            *)
Make(r) ==
  /\ req[r].phase = "new"
  /\ LET made == [req EXCEPT ![r].made = Identity] IN
     IF access # NoToken
     THEN /\ req' = Sent({r}, made, access, staff)
          /\ wire' = wire \cup Attempts({r}, req')
          /\ UNCHANGED login
     ELSE /\ req' = [made EXCEPT ![r].phase = "login"]
          /\ login' = TRUE
          /\ UNCHANGED wire
  /\ UNCHANGED <<access, staff, answers, server, faults>>

(* The promise of a login wakes everyone who waits for it.                 *)
LoginDone ==
  LET new == [who |-> "owner", no |-> issued["owner"] + 1] IN
  /\ login /\ issued["owner"] < MaxTokens
  /\ access' = new
  /\ issued' = [issued EXCEPT !["owner"] = @ + 1]
  /\ live' = live \cup {new}
  /\ login' = FALSE
  /\ req' = Sent(Waiting, req, new, staff)
  /\ wire' = wire \cup Attempts(Waiting, req')
  /\ UNCHANGED <<staff, answers, applied, faults>>

LoginFails ==
  /\ login /\ (faults < MaxFaults \/ issued["owner"] = MaxTokens)
  /\ login' = FALSE
  /\ req' = [r \in Request |-> IF r \in Waiting THEN [req[r] EXCEPT !.phase = "failed"]
                               ELSE req[r]]
  /\ faults' = IF faults < MaxFaults THEN faults + 1 ELSE faults
  /\ UNCHANGED <<access, staff, wire, answers, server>>

(* The answer to /staff/login; exitStaff.                                  *)
SwitchToStaff ==
  LET new == [who |-> "employee", no |-> issued["employee"] + 1] IN
  /\ staff = NoToken /\ access # NoToken /\ issued["employee"] < MaxTokens
  /\ staff' = new
  /\ issued' = [issued EXCEPT !["employee"] = @ + 1]
  /\ live' = live \cup {new}
  /\ UNCHANGED <<access, login, req, wire, answers, applied, faults>>

ExitStaff ==
  /\ staff # NoToken
  /\ staff' = NoToken
  /\ UNCHANGED <<access, login, req, wire, answers, server, faults>>

-----------------------------------------------------------------------------
(* The server: a token it does not know, an answer from memory, or the     *)
(* request carried out; it may break down before or after that.            *)
Served(a) == a.req \in RetrySafe /\ applied[a.req][a.token.who] > 0

Serve(a, code) ==
  /\ wire' = wire \ {a}
  /\ IF a.token \notin live THEN code = "unknown"
     ELSE IF Served(a) THEN code = "ok"
     ELSE code \in {"ok", "refused", "broken"}
  /\ code = "broken" => faults < MaxFaults
  /\ faults' = IF code = "broken" THEN faults + 1 ELSE faults
  /\ applied' = IF code = "ok" /\ ~Served(a) THEN [applied EXCEPT ![a.req][a.token.who] = @ + 1]
                ELSE applied
  /\ answers' = IF Exchange(a.req, req[a.req]) = a /\ req[a.req].phase = "flight"
                THEN answers \cup {[req |-> a.req, code |-> code]} ELSE answers
  /\ UNCHANGED <<access, staff, login, req, issued, live>>

Expire(t) ==
  /\ t \in live /\ faults < MaxFaults
  /\ live' = live \ {t}
  /\ faults' = faults + 1
  /\ UNCHANGED <<access, staff, login, req, wire, answers, applied, issued>>

-----------------------------------------------------------------------------
Settled(r, phase) == req' = [req EXCEPT ![r].phase = phase]
Taken(r) == answers' = {a \in answers : a.req # r}

Succeed(r) ==
  /\ [req |-> r, code |-> "ok"] \in answers
  /\ Settled(r, "ok") /\ Taken(r)
  /\ UNCHANGED <<access, staff, login, wire, server, faults>>

Refused(r) ==
  /\ [req |-> r, code |-> "refused"] \in answers
  /\ Settled(r, "failed") /\ Taken(r)
  /\ UNCHANGED <<access, staff, login, wire, server, faults>>

(* 401 in the place of an employee, by what staffToken holds now.          *)
StaffExpired(r) ==
  /\ [req |-> r, code |-> "unknown"] \in answers
  /\ ~req[r].retried /\ staff # NoToken
  /\ staff' = NoToken
  /\ Settled(r, "failed") /\ Taken(r)
  /\ UNCHANGED <<access, login, wire, server, faults>>

(* ensureLogin(true): joins a pending login, or clears the tokens and      *)
(* starts one.                                                             *)
LoginAgain(r) ==
  /\ [req |-> r, code |-> "unknown"] \in answers
  /\ ~req[r].retried /\ staff = NoToken
  /\ login' = TRUE
  /\ access' = IF login THEN access ELSE NoToken
  /\ req' = [req EXCEPT ![r].phase = "login", ![r].retried = TRUE]
  /\ Taken(r)
  /\ UNCHANGED <<staff, wire, server, faults>>

GiveUp(r) ==
  /\ [req |-> r, code |-> "unknown"] \in answers /\ req[r].retried
  /\ Settled(r, "failed") /\ Taken(r)
  /\ UNCHANGED <<access, staff, login, wire, server, faults>>

(* A 5xx, or nothing before the timeout: back off, or reject.              *)
AfterFailure(r) ==
  /\ Taken(r)
  /\ Settled(r, IF MayRetry(r) THEN "backoff" ELSE "failed")
  /\ UNCHANGED <<access, staff, login, wire, server>>

Broken(r) ==
  /\ [req |-> r, code |-> "broken"] \in answers
  /\ AfterFailure(r)
  /\ UNCHANGED faults

TimedOut(r) ==
  /\ req[r].phase = "flight" /\ faults < MaxFaults
  /\ AfterFailure(r)
  /\ faults' = faults + 1

Retry(r) ==
  /\ req[r].phase = "backoff"
  /\ req' = Sent({r}, [req EXCEPT ![r].attempt = @ + 1], access, staff)
  /\ wire' = wire \cup Attempts({r}, req')
  /\ UNCHANGED <<access, staff, login, answers, server, faults>>

Codes == {"ok", "unknown", "refused", "broken"}

Answered(r) == Succeed(r) \/ Refused(r) \/ StaffExpired(r) \/ LoginAgain(r) \/ GiveUp(r) \/ Broken(r)

Serving == \E a \in wire, code \in Codes : Serve(a, code)

Next ==
  \/ \E r \in Request : Make(r) \/ Answered(r) \/ TimedOut(r) \/ Retry(r)
  \/ LoginDone \/ LoginFails \/ SwitchToStaff \/ ExitStaff
  \/ Serving \/ \E t \in live : Expire(t)

(* wx.login and wx.request call back, the server works off what reaches    *)
(* it, and a timer goes off.                                               *)
Fairness ==
  /\ WF_vars(LoginDone \/ LoginFails)
  /\ WF_vars(Serving)
  /\ \A r \in Request : WF_vars(Answered(r)) /\ WF_vars(Retry(r))

Spec == Init /\ [][Next]_vars
FairSpec == Spec /\ Fairness

-----------------------------------------------------------------------------
Times(r) == applied[r]["owner"] + applied[r]["employee"]

(* A write is carried out at most once however often it is sent: a plain   *)
(* one at all, one with a key for each identity it was sent as; and an     *)
(* answer of success means that it was.                                    *)
AppliedOnce ==
  \A r \in Write :
    /\ \A w \in Who : applied[r][w] <= 1
    /\ r \notin RetrySafe => Times(r) <= 1
    /\ req[r].phase = "ok" => Times(r) > 0

(* A write with a key is carried out at most once whoever is logged in.    *)
(* Violated: the key belongs to an identity (_principal_scope), and a      *)
(* retry is sent as whoever is logged in by then.                          *)
KeyedOnce == \A r \in RetrySafe : Times(r) <= 1

(* Every request comes to an end: answered or refused.                     *)
RequestsSettle ==
  \A r \in Request : req[r].phase # "new" ~> req[r].phase \in {"ok", "failed"}

(* A request made as the owner is never carried out as an employee, and    *)
(* none made as an employee as the owner.  Violated: every attempt takes   *)
(* the token of its own moment.                                            *)
CarriedOutAsMade ==
  [][\A r \in Request : \A w \in Who :
       applied'[r][w] > applied[r][w] => w = req[r].made]_vars
=============================================================================
