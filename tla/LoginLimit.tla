----------------------------- MODULE LoginLimit -----------------------------
(***************************************************************************)
(* Who may try to log in, and how often (core/rate_limiter.py, with the    *)
(* three handlers that call it: staff_login of routers/staff.py, login of  *)
(* routers/admin/auth.py, wechat_login of routers/auth.py), for one        *)
(* account.  Failures are counted for each address and over all of them;   *)
(* enough of them within a window lock the key for a while.  Logins        *)
(* through WeChat are only counted, for each address.                      *)
(*                                                                         *)
(* In memory a counter is read and written in one step.  Kept in Redis, a  *)
(* request takes several steps, between which others come: the look at the *)
(* lock; the count, with the sweep before and the lock after it; the adding*)
(* of a try, with its expiry; the second count, with its lock; the         *)
(* clearing.  In the code each of these but the first and the last is two  *)
(* or three commands; they are taken together here, and what another       *)
(* request does between them comes before or after all of them.            *)
(***************************************************************************)
EXTENDS Integers, FiniteSets

CONSTANTS
  Address,
  Setups,      \* bound: what is checked together: a backend, a door, how many
               \* requests, from which addresses, until when, and the rules for
               \* an address and for all of them (max, window, lock)
  MaxTogether  \* bound: requests under way

VARIABLES
  backend,     \* "memory" or "redis"
  door,        \* "staff", "admin" or "wechat"
  setup,       \* the addresses, the rules and the time
  now,
  tries,       \* key -> the failures counted, by whom and when
  lapse,       \* key -> when Redis drops the counter
  locked,      \* key -> locked until then, 0 for never
  calls,       \* request -> where it is, on which key and from where, and
               \* the time its present command goes by
  wrong        \* key -> failures (for WeChat: logins) let through since the
               \* counter was last cleared

vars == <<backend, door, setup, now, tries, lapse, locked, calls, wrong>>
counters == <<tries, lapse, locked>>
fixed == <<backend, door, setup>>

Key == Address \cup {"all"}
Rule(k) == IF k = "all" THEN setup.all ELSE setup.each

Call(at, key, from, time) == [at |-> at, key |-> key, from |-> from, time |-> time]
New  == Call("new", "all", "all", 0)
Done == Call("done", "all", "all", 0)

Init ==
  /\ \E u \in Setups :
       /\ backend = u.backend /\ door = u.door /\ setup = u
       /\ calls = [c \in 1 .. u.requests |-> New]
  /\ now = 1
  /\ tries = [k \in Key |-> {}] /\ lapse = [k \in Key |-> 0] /\ locked = [k \in Key |-> 0]
  /\ wrong = [k \in Key |-> {}]

Within(S, k, t) == {x \in S : t - x.at < Rule(k).window}

-----------------------------------------------------------------------------
(* The counters in memory, as functions of <<tries, locked>>               *)

Here == [tries |-> tries, locked |-> locked]

IsLocked(s, k) == s.locked[k] > now

(* check: a lock that is over takes the failures with it.                  *)
Check(s, k) ==
  LET kept == IF s.locked[k] # 0 THEN {} ELSE Within(s.tries[k], k, now)
      full == Cardinality(kept) >= Rule(k).max
  IN IF IsLocked(s, k) THEN s
     ELSE [tries  |-> [s.tries EXCEPT ![k] = kept],
           locked |-> [s.locked EXCEPT ![k] = IF full THEN now + Rule(k).lock ELSE 0]]

(* Mutant: what is too old is counted too.                                 *)
Record_all_time(s, k, c) ==
  LET new == s.tries[k] \cup {[by |-> c, at |-> now]}
  IN [tries  |-> [s.tries EXCEPT ![k] = new],
      locked |-> [s.locked EXCEPT ![k] = IF Cardinality(new) >= Rule(k).max
                                         THEN now + Rule(k).lock ELSE @]]

Record(s, k, c) ==
  LET new == s.tries[k] \cup {[by |-> c, at |-> now]}
  IN [tries  |-> [s.tries EXCEPT ![k] = new],
      locked |-> [s.locked EXCEPT ![k] = IF Cardinality(Within(new, k, now)) >= Rule(k).max
                                         THEN now + Rule(k).lock ELSE @]]

Clear(s, k) == [tries |-> [s.tries EXCEPT ![k] = {}], locked |-> [s.locked EXCEPT ![k] = 0]]

(* check_rate_limit: first over all addresses, then for this one.          *)
CheckBoth(s, from) == IF IsLocked(Check(s, "all"), "all") THEN Check(s, "all")
                      ELSE Check(Check(s, "all"), from)
LetIn(s, from) == LET t == CheckBoth(s, from) IN ~IsLocked(t, "all") /\ ~IsLocked(t, from)

-----------------------------------------------------------------------------
(* What the handler makes of the secret.  With a closed account staff fail *)
(* whatever they give; an administrator's password is looked at first, and *)
(* nothing is counted when it is right.                                    *)
Outcome == {"in", "wrong"} \cup IF door = "admin" THEN {"closed"} ELSE {}

Decided(s, c, outcome) ==
  LET from == calls[c].from IN
  CASE outcome = "in"    -> Clear(Clear(s, from), "all")
    [] outcome = "wrong" -> Record(Record(s, from, c), "all", c)
    [] OTHER             -> s

(* What has been let through by then.                                      *)
Forgot(K) == [k \in Key |-> IF k \in K THEN {} ELSE wrong[k]]
Failed(c) == [k \in Key |-> IF k \in {calls[c].from, "all"}
                            THEN wrong[k] \cup {[by |-> c, at |-> now]} ELSE wrong[k]]

Noted(c, outcome) ==
  wrong' = CASE outcome = "in"    -> Forgot({calls[c].from, "all"})
             [] outcome = "wrong" -> Failed(c)
             [] OTHER             -> wrong

Become(s) == tries' = s.tries /\ locked' = s.locked /\ UNCHANGED lapse
Move(c, at) == calls' = [calls EXCEPT ![c].at = at]
End(c)      == calls' = [calls EXCEPT ![c] = Done]

-----------------------------------------------------------------------------
(* Actions *)

UnderWay == {c \in DOMAIN calls : calls[c] \notin {New, Done}}

Arrive(c, from) ==
  /\ calls[c] = New /\ \A d \in DOMAIN calls : d < c => calls[d] # New
  /\ Cardinality(UnderWay) < MaxTogether
  /\ calls' = [calls EXCEPT ![c] = Call("check", IF door = "wechat" THEN from ELSE "all", from, 0)]
  /\ UNCHANGED <<fixed, now, counters, wrong>>

(* staff_login in memory: nothing comes between the check and the answer.  *)
StaffInMemory(c, outcome) ==
  LET s == CheckBoth(Here, calls[c].from)
  IN /\ backend = "memory" /\ door = "staff" /\ calls[c].at = "check"
     /\ outcome \in Outcome /\ End(c)
     /\ IF LetIn(Here, calls[c].from)
        THEN Become(Decided(s, c, outcome)) /\ Noted(c, outcome)
        ELSE Become(s) /\ UNCHANGED wrong
     /\ UNCHANGED <<fixed, now>>

(* An administrator is read from the database after the check.  Failures   *)
(* of requests checked before a lock go with it, recent as they may be.    *)
AdminInMemory(c) ==
  LET s == CheckBoth(Here, calls[c].from)
  IN /\ backend = "memory" /\ door = "admin" /\ calls[c].at = "check"
     /\ Become(s)
     /\ wrong' = Forgot({k \in Key : locked[k] # 0 /\ s.locked[k] = 0})
     /\ IF LetIn(Here, calls[c].from) THEN Move(c, "decide") ELSE End(c)
     /\ UNCHANGED <<fixed, now>>

DecideInMemory(c, outcome) ==
  /\ backend = "memory" /\ calls[c].at = "decide" /\ outcome \in Outcome
  /\ Become(Decided(Here, c, outcome)) /\ Noted(c, outcome) /\ End(c)
  /\ UNCHANGED <<fixed, now>>

HitInMemory(c) ==
  LET from == calls[c].from
      recent == Within(tries[from], from, now)
      full == Cardinality(recent) >= Rule(from).max
  IN /\ backend = "memory" /\ door = "wechat" /\ calls[c].at = "check"
     /\ tries' = [tries EXCEPT ![from] = IF full THEN @ ELSE recent \cup {[by |-> c, at |-> now]}]
     /\ wrong' = [wrong EXCEPT ![from] = IF full THEN @ ELSE @ \cup {[by |-> c, at |-> now]}]
     /\ End(c)
     /\ UNCHANGED <<fixed, now, lapse, locked>>

-----------------------------------------------------------------------------
(* Redis, a step at a time as said above, each going by the time when its  *)
(* operation began.  Every operation is done first on one key, then on the *)
(* other.                                                                  *)

Held(k) == IF now < lapse[k] THEN tries[k] ELSE {}
To(c, at, key, time) == calls' = [calls EXCEPT ![c] = Call(at, key, @.from, time)]

GetLock(c) ==
  LET k == calls[c].key IN
  /\ backend = "redis" /\ calls[c].at = "check"
  /\ IF door # "wechat" /\ locked[k] > now THEN End(c) ELSE To(c, "count", k, now)
  /\ UNCHANGED <<fixed, now, counters, wrong>>

CountRecent(c) ==
  LET k == calls[c].key
      kept == Within(Held(k), k, calls[c].time)
      full == Cardinality(kept) >= Rule(k).max
  IN /\ backend = "redis" /\ calls[c].at = "count"
     /\ tries' = [tries EXCEPT ![k] = kept]
     /\ locked' = IF full /\ door # "wechat" THEN [locked EXCEPT ![k] = calls[c].time + Rule(k).lock]
                  ELSE locked
     /\ IF full THEN End(c)
        ELSE IF door = "wechat" THEN To(c, "add", k, calls[c].time)
        ELSE IF k = "all" THEN To(c, "check", calls[c].from, 0)
        ELSE To(c, "decide", k, 0)
     /\ UNCHANGED <<fixed, now, lapse, wrong>>

DecideWithRedis(c, outcome) ==
  /\ backend = "redis" /\ calls[c].at = "decide" /\ outcome \in Outcome
  /\ wrong' = IF outcome = "wrong" THEN Failed(c) ELSE wrong
  /\ CASE outcome = "in"    -> Move(c, "clear")
       [] outcome = "wrong" -> Move(c, "add")
       [] OTHER             -> End(c)
  /\ UNCHANGED <<fixed, now, counters>>

Add(c) ==
  LET k == calls[c].key
      at == IF door = "wechat" THEN calls[c].time ELSE now
  IN /\ backend = "redis" /\ calls[c].at = "add"
     /\ tries' = [tries EXCEPT ![k] = Held(k) \cup {[by |-> c, at |-> at]}]
     /\ lapse' = [lapse EXCEPT ![k] = now + Rule(k).window]
     /\ wrong' = IF door = "wechat" THEN [wrong EXCEPT ![k] = @ \cup {[by |-> c, at |-> at]}] ELSE wrong
     /\ IF door = "wechat" THEN End(c) ELSE To(c, "judge", k, now)
     /\ UNCHANGED <<fixed, now, locked>>

(* Here the counter is not swept first.                                    *)
Judge(c) ==
  LET k == calls[c].key IN
  /\ backend = "redis" /\ calls[c].at = "judge"
  /\ locked' = IF Cardinality(Held(k)) >= Rule(k).max
               THEN [locked EXCEPT ![k] = calls[c].time + Rule(k).lock] ELSE locked
  /\ IF k = "all" THEN End(c) ELSE To(c, "add", "all", 0)
  /\ UNCHANGED <<fixed, now, tries, lapse, wrong>>

(* Failures counted since the success was decided are cleared with those   *)
(* before it.                                                              *)
ClearKey(c) ==
  LET k == calls[c].key IN
  /\ backend = "redis" /\ calls[c].at = "clear"
  /\ tries' = [tries EXCEPT ![k] = {}] /\ locked' = [locked EXCEPT ![k] = 0]
  /\ wrong' = Forgot({k})
  /\ IF k = "all" THEN End(c) ELSE To(c, "clear", "all", 0)
  /\ UNCHANGED <<fixed, now, lapse>>

-----------------------------------------------------------------------------
(* A request ends early: Redis does not answer, or the process dies.  What *)
(* was not counted by then is not.                                         *)
Die(c) ==
  /\ c \in UnderWay /\ backend = "redis"
  /\ End(c)
  /\ wrong' = [k \in Key |-> {x \in wrong[k] : x.by # c}]
  /\ UNCHANGED <<fixed, now, counters>>

Tick ==
  /\ now < setup.until /\ now' = now + 1
  /\ UNCHANGED <<fixed, counters, calls, wrong>>

Next ==
  \/ Tick
  \/ \E c \in DOMAIN calls :
       \/ \E from \in setup.from : Arrive(c, from)
       \/ \E o \in Outcome : StaffInMemory(c, o) \/ DecideInMemory(c, o) \/ DecideWithRedis(c, o)
       \/ AdminInMemory(c) \/ HitInMemory(c)
       \/ GetLock(c) \/ CountRecent(c) \/ Add(c) \/ Judge(c) \/ ClearKey(c) \/ Die(c)

Spec == Init /\ [][Next]_vars

-----------------------------------------------------------------------------
(* Since a counter was last cleared, no window has seen more failures let  *)
(* through, nor more logins through WeChat, than the rule allows, but for  *)
(* those that are checked while another is still being counted.            *)
Overlap == IF backend = "memory" /\ door # "admin" THEN 0 ELSE MaxTogether - 1

TriesBounded ==
  \A k \in Key : Cardinality(Within(wrong[k], k, now)) <= Rule(k).max + Overlap

(* In memory a key is locked only by as many failures within a window as   *)
(* the rule says, none of them before a success, and from the last of them *)
(* on: who is refused meanwhile does not lock it for longer.               *)
LockIsEarned ==
  backend = "memory" => \A k \in Key : locked[k] > now =>
    LET from == locked[k] - Rule(k).lock IN
    /\ \E x \in wrong[k] : x.at = from
    /\ Cardinality({x \in wrong[k] : x.at <= from /\ from - x.at < Rule(k).window}) >= Rule(k).max

LimitsAreFair == TriesBounded /\ LockIsEarned

(* Known to fail (see the README): no window sees more failures than the   *)
(* rule says, however requests overlap; a login that succeeded leaves no   *)
(* lock of failures before it.                                             *)
TriesExact == \A k \in Key : Cardinality(Within(wrong[k], k, now)) <= Rule(k).max
SuccessOpens ==
  UnderWay = {}
    => \A k \in Key : wrong[k] = {} => locked[k] <= now
=============================================================================
