------------------------------ MODULE Pricing ------------------------------
(***************************************************************************)
(* Sale prices and who changes them: the owner by hand                     *)
(* (routers/catalog.py, update_sku) and an AI suggestion once it is        *)
(* executed (routers/ai_actions.py).  Every handler reads the price (and   *)
(* the suggestion) without a lock and commits its changes later, together  *)
(* with a row of price_history; a session writes a column only if its new  *)
(* value differs from the one it has read.                                 *)
(***************************************************************************)
EXTENDS Integers, Sequences, SequencesExt

CONSTANTS
  Sku,
  NoSku,       \* a target that is no SKU of the merchant's
  Malformed,   \* a target that cannot be read at all
  Unset,       \* the price of a SKU that has none
  Asked,       \* prices a handler is asked to set, of 0 .. and Unset
  Handler,     \* requests running at once
  MaxActions,  \* bound: suggestions
  MaxTargets,  \* bound: targets of a suggestion
  MaxChanges,  \* bound: rows of price_history and lists per run
  OneAtATime   \* does one handler wait for the other?

VARIABLES
  price,       \* default_sale_price
  history,     \* price_history, per SKU
  actions,     \* ai_actions
  lists,       \* the suggestions whose purchase list was written, in order
  effects,     \* what each suggestion has changed, in commits
  running      \* what each handler has read and not yet written

vars == <<price, history, actions, lists, effects, running>>

Action == 1 .. MaxActions
Kind   == {"price", "clearance", "purchase"}
NoRow  == [kind |-> "none", status |-> "none", targets |-> <<>>]
Idle   == [on |-> "none"]

Init ==
  /\ price \in [Sku -> Asked]
  /\ history = [s \in Sku |-> <<>>]
  /\ actions = [a \in Action |-> NoRow]
  /\ lists = <<>>
  /\ effects = [a \in Action |-> 0]
  /\ running = [h \in Handler |-> Idle]

-----------------------------------------------------------------------------
Shown(p) == IF p = Unset THEN 0 ELSE p
Given(p) == p # Unset /\ p # 0      \* what Python takes for true

(* What a session that saw the prices in seen and has set some of them     *)
(* leaves in the table.                                                    *)
Written(seen, set) == [s \in Sku |-> IF set[s] # seen[s] THEN set[s] ELSE price[s]]

Free(h) == running[h] = Idle
Alone == OneAtATime => \A h \in Handler : Free(h)
Room == \A s \in Sku : Len(history[s]) < MaxChanges

-----------------------------------------------------------------------------
BeginEdit(h, s, p) ==
  /\ Free(h) /\ Alone /\ Room
  /\ running' = [running EXCEPT ![h] = [on |-> "edit", sku |-> s, new |-> p, seen |-> price]]
  /\ UNCHANGED <<price, history, actions, lists, effects>>

(* Does update_sku write a row of price_history?                           *)
IsLogged(old, new) == Given(old) /\ new # Unset /\ old # new

CommitEdit(h) ==
  LET r == running[h] IN
  /\ r.on = "edit"
  /\ price' = Written(r.seen, [r.seen EXCEPT ![r.sku] = r.new])
  /\ history' = IF IsLogged(r.seen[r.sku], r.new)
                THEN [history EXCEPT ![r.sku] =
                        Append(@, [old |-> r.seen[r.sku], new |-> r.new])]
                ELSE history
  /\ running' = [running EXCEPT ![h] = Idle]
  /\ UNCHANGED <<actions, lists, effects>>

-----------------------------------------------------------------------------
(* generate_actions, and the advisor's purchase suggestions.               *)
Suggest(a, kind, targets) ==
  /\ actions[a] = NoRow /\ \A b \in Action : b < a => actions[b] # NoRow
  /\ actions' = [actions EXCEPT ![a] = [kind |-> kind, status |-> "pending",
                                        targets |-> targets]]
  /\ UNCHANGED <<price, history, lists, effects, running>>

MayExecute(a) == actions[a].status = "pending"

BeginExecute(h, a, rejects) ==
  /\ Free(h) /\ Alone /\ Room
  /\ MayExecute(a)
  /\ running' = [running EXCEPT ![h] = [on |-> "action", action |-> a, rejects |-> rejects,
                                        seen |-> price]]
  /\ UNCHANGED <<price, history, actions, lists, effects>>

CommitReject(h) ==
  LET r == running[h] IN
  /\ r.on = "action" /\ r.rejects
  /\ actions' = [actions EXCEPT ![r.action].status = "rejected"]
  /\ running' = [running EXCEPT ![h] = Idle]
  /\ UNCHANGED <<price, history, lists, effects>>

(* The targets are worked through in order up to the first one that cannot *)
(* be read; what is no SKU of the merchant's stops a change of price and   *)
(* is passed over by a clearance.                                          *)
Stops(kind, t) == t.sku = Malformed \/ (kind = "price" /\ (t.sku = NoSku \/ ~Given(t.new)))

Worked(kind, targets) ==
  LET good == {i \in DOMAIN targets : \A j \in 1 .. i : ~Stops(kind, targets[j])}
  IN [done |-> SubSeq(targets, 1, Cardinality(good)), stopped |-> good # DOMAIN targets]

(* Setting one price, with its row of price_history.                       *)
Reprice(st, t) ==
  IF t.sku \notin Sku THEN st
  ELSE [price |-> [st.price EXCEPT ![t.sku] = t.new],
        log   |-> [st.log EXCEPT ![t.sku] =
                     Append(@, [old |-> Shown(st.price[t.sku]), new |-> t.new])]]

(* Setting one after the other.                                            *)
Repriced(seen, done) ==
  LET After[n \in 0 .. Len(done)] ==
        IF n = 0 THEN [price |-> seen, log |-> history] ELSE Reprice(After[n - 1], done[n])
  IN After[Len(done)]

(* The failure of one target is committed with what was done before it.    *)
Outcome(stopped) == IF stopped THEN "failed" ELSE "executed"

CommitPrices(h) ==
  LET r == running[h]
      a == actions[r.action]
      w == Worked(a.kind, a.targets)
      st == Repriced(r.seen, w.done) IN
  /\ r.on = "action" /\ ~r.rejects /\ a.kind \in {"price", "clearance"}
  /\ price' = Written(r.seen, st.price)
  /\ history' = st.log
  /\ actions' = [actions EXCEPT ![r.action].status = Outcome(w.stopped)]
  /\ effects' = [effects EXCEPT ![r.action] = @ + (IF st.log # history THEN 1 ELSE 0)]
  /\ running' = [running EXCEPT ![h] = Idle]
  /\ UNCHANGED lists

(* A draft list with the items that could be read, unless there are none   *)
(* to begin with.                                                          *)
CommitList(h) ==
  LET r == running[h]
      a == actions[r.action]
      w == Worked(a.kind, a.targets) IN
  /\ r.on = "action" /\ ~r.rejects /\ a.kind = "purchase"
  /\ lists' = IF a.targets = <<>> THEN lists ELSE Append(lists, r.action)
  /\ actions' = [actions EXCEPT ![r.action].status = Outcome(a.targets = <<>> \/ w.stopped)]
  /\ effects' = [effects EXCEPT ![r.action] = @ + (IF a.targets = <<>> THEN 0 ELSE 1)]
  /\ running' = [running EXCEPT ![h] = Idle]
  /\ UNCHANGED <<price, history>>

Targets(kind) ==
  LET T == [sku : Sku \cup {NoSku, Malformed}, new : Asked \ {Unset}]
  IN IF kind = "price" THEN {<<t>> : t \in T} ELSE SeqOf(T, MaxTargets)

Next ==
  \/ \E h \in Handler, s \in Sku, p \in Asked : BeginEdit(h, s, p)
  \/ \E a \in Action, k \in Kind : \E ts \in Targets(k) : Suggest(a, k, ts)
  \/ \E h \in Handler, a \in Action, rejects \in BOOLEAN : BeginExecute(h, a, rejects)
  \/ \E h \in Handler :
       CommitEdit(h) \/ CommitReject(h) \/ CommitPrices(h) \/ CommitList(h)

Spec == Init /\ [][Next]_vars

-----------------------------------------------------------------------------
(* price_history tells how a price became what it is: each row goes on     *)
(* from the row before, and the last one names the price there is.  It     *)
(* holds while handlers do not overlap and prices are neither zero nor     *)
(* taken away.                                                             *)
HistoryIsChain ==
  \A s \in Sku :
    /\ \A i \in 1 .. Len(history[s]) - 1 : history[s][i].new = history[s][i + 1].old
    /\ history[s] # <<>> => Last(history[s]).new = price[s]

(* A suggestion is acted on at most once, whatever came of it, and never   *)
(* after it was rejected.                                                  *)
ActedOnce ==
  [][\A a \in Action :
       effects'[a] # effects[a] =>
         /\ effects[a] = 0
         /\ actions[a].status = "pending" /\ actions'[a].status # "rejected"]_vars

(* A suggestion that failed has changed nothing.                           *)
FailedDoesNothing == \A a \in Action : actions[a].status = "failed" => effects[a] = 0
=============================================================================
