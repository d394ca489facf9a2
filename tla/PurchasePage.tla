---------------------------- MODULE PurchasePage ----------------------------
(***************************************************************************)
(* The purchase page of the mini program (pages/purchase/purchase.js):     *)
(* advice kept on the phone is imported into today's list, the list is     *)
(* ordered, accepted and put into stock, the supplier is paid and goods go *)
(* back.  The server's lists, payables and payments are module Purchasing; *)
(* here a list has one item, in units that cost one unit of money each.    *)
(* No request is repeated by app.js; an answer may be lost, the request    *)
(* carried out or not.  What adds to a list looks for one that is open and *)
(* writes to it later; every other handler is one step.                    *)
(***************************************************************************)
EXTENDS Integers, FiniteSets, Sequences, FiniteSetsExt

CONSTANTS
  Supplier, Nobody,
  Advice,      \* bound: what the calendar advises to buy, one unit each
  MaxItems,    \* bound: items of the server
  MaxQty,      \* bound: quantity of an item
  MaxKeys,     \* bound: payment dialogs opened
  MaxCalls,    \* bound: requests under way at once
  MaxFaults,   \* bound: answers lost
  Together     \* bound: the sets of buttons used together

VARIABLES
  draft, importing,    \* purchaseDraft, _draftImporting
  submitting,
  view, accepting,     \* item of the list last loaded (0: none), acceptanceMode
  pay,         \* payment dialog: open, supplier, payables, amount, key
  back,        \* item of the return dialog, 0 for none
  calls,       \* requests: kind, what they carry, how far they are
  items, payments,     \* the server's
  noted, overtaken,    \* advice noted, and that noted during an import
  named, skipped,       \* that named as unknown, that of a line bought already
  buttons, faults

page   == <<draft, importing, submitting, view, accepting, pay, back>>
server == <<items, payments>>
ghost  == <<noted, overtaken, named, skipped, buttons>>
vars   == <<page, calls, server, ghost, faults>>

Closed == [open |-> FALSE, to |-> Nobody, rows |-> {}, amount |-> 0, key |-> 0]

NewItem(n, S) ==
  [status |-> "draft", line |-> "pending", qty |-> n, advice |-> S, supplier |-> Nobody,
   accepted |-> -1, stocked |-> 0, returned |-> 0, left |-> 0, over |-> 0]

(* Into stock, owed for to the supplier of the item if it has one.         *)
Stored(it, n) ==
  [it EXCEPT !.status = "stored", !.line = "purchased", !.stocked = n,
             !.left = IF it.supplier = Nobody THEN 0 ELSE n]

(* A day may begin with an empty list, or after lists that are in stock.   *)
Bought == [1 .. MaxItems -> {Stored([NewItem(MaxQty, {}) EXCEPT !.supplier = s], MaxQty) : s \in Supplier}]

Init ==
  /\ draft = {} /\ importing = FALSE /\ submitting = FALSE
  /\ view = 0 /\ accepting = FALSE /\ pay = Closed /\ back = 0
  /\ calls = {} /\ payments = {}
  /\ noted = {} /\ overtaken = {} /\ named = {} /\ skipped = {}
  /\ buttons \in Together /\ faults = 0
  /\ items \in IF "pay" \in buttons THEN Bought ELSE {<<>>}

Call(kind, of, with) == [kind |-> kind, of |-> of, with |-> with, at |-> "out"]
Send(kind, of, with) ==
  /\ kind \in buttons \/ kind \in {"load", "statement"}
  /\ Cardinality(calls) < MaxCalls
  /\ calls' = calls \cup {Call(kind, of, with)}

-----------------------------------------------------------------------------
(* The page *)

(* The calendar page adds to the advice kept on the phone.                 *)
NoteAdvice(a) ==
  /\ a \notin noted /\ "import" \in buttons
  /\ noted' = noted \cup {a}
  /\ draft' = draft \cup {a}
  /\ overtaken' = IF importing THEN overtaken \cup {a} ELSE overtaken
  /\ UNCHANGED <<importing, submitting, view, accepting, pay, back, calls, server, named, skipped,
                 buttons, faults>>

(* onShow, whatever else is under way.                                     *)
ImportDraft ==
  /\ draft # {} /\ ~importing
  /\ Send("import", 0, draft)
  /\ importing' = TRUE /\ submitting' = TRUE
  /\ UNCHANGED <<draft, view, accepting, pay, back, server, ghost, faults>>

Load ==
  /\ calls = {} /\ view # Len(items)
  /\ Send("load", 0, {})
  /\ UNCHANGED <<page, server, ghost, faults>>

(* A list typed in: sent as often as the button is tapped.                 *)
SubmitManualList ==
  /\ Send("manual", 0, {})
  /\ UNCHANGED <<page, server, ghost, faults>>

(* The buttons that wait for each other.                                   *)
Guarded(kind, of, with) == ~submitting /\ submitting' = TRUE /\ Send(kind, of, with)
PageKept == UNCHANGED <<draft, importing, view, accepting, pay, back, server, ghost, faults>>

GenerateFromAdvice == Guarded("generate", 0, {}) /\ PageKept

OnList(kind, with) == view # 0 /\ Guarded(kind, view, with) /\ PageKept

ConfirmOrder      == OnList("order", {})
SaveItem(q)       == OnList("save", {q})
CancelItem        == OnList("cancel", {})
SelectSupplier(s) == OnList("supplier", {s})
ConfirmPurchase   == ~accepting /\ OnList("purchase", {})

SubmitAcceptance(q) ==
  /\ accepting
  /\ OnList("accept", {q})

ToggleAcceptance ==
  /\ "accept" \in buttons /\ view # 0
  /\ accepting' = ~accepting
  /\ UNCHANGED <<draft, importing, submitting, view, pay, back, calls, server, ghost, faults>>

(* The dialog opened anew takes a new key.                                 *)
OpenPayment ==
  /\ "pay" \in buttons /\ view # 0 /\ ~pay.open
  /\ pay.key < MaxKeys
  /\ pay' = [Closed EXCEPT !.open = TRUE, !.key = pay.key + 1]
  /\ UNCHANGED <<draft, importing, submitting, view, accepting, back, calls, server, ghost, faults>>

ClosePayment ==
  /\ pay.open
  /\ pay' = [pay EXCEPT !.open = FALSE]
  /\ UNCHANGED <<draft, importing, submitting, view, accepting, back, calls, server, ghost, faults>>

(* The supplier's statement is asked for; its answer fills the dialog.     *)
PickSupplier(s) ==
  /\ pay.open /\ pay.to # s
  /\ pay' = [pay EXCEPT !.to = s, !.rows = {}, !.amount = 0]
  /\ Send("statement", 0, {s})
  /\ UNCHANGED <<draft, importing, submitting, view, accepting, back, server, ghost, faults>>

EditAmount(a) ==
  /\ pay.open /\ pay.rows # {} /\ a < pay.amount
  /\ pay' = [pay EXCEPT !.amount = a]
  /\ UNCHANGED <<draft, importing, submitting, view, accepting, back, calls, server, ghost, faults>>

SubmitPayment ==
  /\ pay.open /\ pay.to # Nobody /\ pay.amount > 0
  /\ Send("pay", 0, {[to |-> pay.to, rows |-> pay.rows, amount |-> pay.amount,
                      key |-> pay.key, dialog |-> pay.key]})
  /\ UNCHANGED <<page, server, ghost, faults>>

OpenReturn ==
  /\ "return" \in buttons /\ view # 0 /\ items[view].line = "purchased"
  /\ back' \in {0, view} /\ back' # back
  /\ UNCHANGED <<draft, importing, submitting, view, accepting, pay, calls, server, ghost, faults>>

SubmitReturn(q) ==
  /\ back # 0
  /\ Send("return", back, {q})
  /\ UNCHANGED <<page, server, ghost, faults>>

Left(S) == MapThenSumSet(LAMBDA i : items[i].left, S)

(* What the page does with an answer.                                      *)
Only(S) == CHOOSE x \in S : TRUE

(* Mutant: the advice is taken off the phone whatever the answer.          *)
DraftAfter_always(c) == IF c.kind = "import" THEN {} ELSE draft

DraftAfter(c) == IF c.kind = "import" /\ c.at = "ok" THEN {} ELSE draft

(* The names the server could not match are shown.                         *)
NamedAfter(c) == IF c.kind = "import" /\ c.at = "ok" THEN named \cup c.with ELSE named

Unguarded == {"load", "manual", "statement", "pay", "return"}

(* The request that follows: the second half of an acceptance, or the list *)
(* again.                                                                  *)
Follows(c) ==
  CASE c.kind = "accept" /\ c.at = "ok" -> {Call("confirm_acceptance", c.of, {})}
    [] c.kind = "import" -> {Call("load", 0, {})}
    [] c.kind \in {"manual", "generate", "order", "cancel", "confirm_acceptance", "return"}
         /\ c.at = "ok" -> {Call("load", 0, {})}
    [] c.kind \in {"save", "supplier"} /\ c.at # "ok" -> {Call("load", 0, {})}
    [] OTHER -> {}

PayAfter(c) ==
  CASE c.kind = "statement" /\ c.at = "ok" ->
         [pay EXCEPT !.rows = c.with, !.amount = Left(c.with)]
    [] c.kind = "pay" /\ c.at = "ok" -> [pay EXCEPT !.open = FALSE]
    [] OTHER -> pay

Answered(c) ==
  /\ c.at \in {"ok", "refused", "lost"}
  /\ calls' = (calls \ {c}) \cup Follows(c)
  /\ draft' = DraftAfter(c) /\ named' = NamedAfter(c)
  /\ importing' = (importing /\ c.kind # "import")
  /\ submitting' = (submitting /\ (c.kind \in Unguarded \/ (c.kind = "accept" /\ c.at = "ok")))
  /\ view' = IF c.kind = "load" /\ c.at = "ok" THEN c.of ELSE view
  /\ accepting' = (accepting /\ ~(c.kind \in {"load", "confirm_acceptance"} /\ c.at = "ok"))
  /\ pay' = PayAfter(c)
  /\ back' = IF c.kind = "return" /\ c.at = "ok" THEN 0 ELSE back
  /\ UNCHANGED <<server, noted, overtaken, skipped, buttons, faults>>

-----------------------------------------------------------------------------
(* The server *)

Answer(c, at) == calls' = (calls \ {c}) \cup {[c EXCEPT !.at = at]}
Change(i, it) == items' = [items EXCEPT ![i] = it] /\ UNCHANGED payments

(* create_from_advice looks for a list that is still open ...              *)
Lists     == {"import", "manual", "generate"}
OpenLists == {i \in DOMAIN items : items[i].status \in {"draft", "confirmed"}}

Find(c) ==
  /\ c.kind \in Lists /\ c.at = "out"
  /\ \E i \in IF OpenLists = {} THEN {0} ELSE OpenLists :
       calls' = (calls \ {c}) \cup {[c EXCEPT !.at = "found", !.of = i]}
  /\ UNCHANGED server

(* ... and adds to the list it found, whatever became of it: a new line in *)
(* place of one called off, or of a list of its own; more of the line that *)
(* is there.                                                               *)
NewLine(i, n, S) ==
  /\ n <= MaxQty
  /\ IF i \in OpenLists
     THEN items' = [items EXCEPT ![i] = [NewItem(n, @.advice \cup S) EXCEPT !.status = items[i].status]]
     ELSE /\ Len(items) < MaxItems
          /\ items' = Append(items, IF i = 0 THEN NewItem(n, S)
                                    ELSE [NewItem(n, S) EXCEPT !.status = items[i].status])

HasLine(i) == i # 0 /\ items[i].line # "cancelled"

AddTo(i, n, S) ==
  IF HasLine(i)
  THEN /\ items[i].qty + n <= MaxQty
       /\ items' = [items EXCEPT ![i].qty = @ + n, ![i].advice = @ \cup S]
  ELSE NewLine(i, n, S)

(* Names that are not in the catalogue are left out, and the line that was *)
(* bought already is left as it is without a word; only where nothing is   *)
(* matched is all of it refused.                                           *)
Import(c, unmatched) ==
  LET S == c.with \ unmatched IN
  /\ S # {}
  /\ IF HasLine(c.of) /\ items[c.of].line = "purchased"
     THEN skipped' = skipped \cup S /\ UNCHANGED items
     ELSE AddTo(c.of, Cardinality(S), S) /\ UNCHANGED skipped
  /\ calls' = (calls \ {c}) \cup {[c EXCEPT !.at = "ok", !.with = unmatched]}

(* One line, typed in or advised; advice leaves a line of its product be.  *)
AddOne(c) ==
  /\ IF HasLine(c.of) /\ (c.kind = "generate" \/ items[c.of].line = "purchased")
     THEN UNCHANGED items
     ELSE AddTo(c.of, 1, {})
  /\ Answer(c, "ok") /\ UNCHANGED skipped

Book(c) ==
  /\ c.kind \in Lists /\ c.at = "found"
  /\ \/ c.kind = "import" /\ \E unmatched \in SUBSET c.with : Import(c, unmatched)
     \/ c.kind # "import" /\ AddOne(c)
  /\ UNCHANGED payments

Rows(s)    == {i \in DOMAIN items : items[i].supplier = s /\ items[i].left > 0}
Balance(s) == Left(Rows(s)) - MapThenSumSet(LAMBDA i : items[i].over,
                                            {i \in DOMAIN items : items[i].supplier = s})

(* record_supplier_payment: the rows in their order.                       *)
Settled(rows, a, i) ==
  LET before == Left({j \in rows : j < i})
      rest   == IF a > before THEN a - before ELSE 0
  IN IF rest < items[i].left THEN rest ELSE items[i].left

MayPay(p) ==
  /\ p.rows # {} /\ \A i \in p.rows : items[i].supplier = p.to
  /\ p.amount <= Left(p.rows) /\ p.amount <= Balance(p.to)

Pay(p) ==
  \/ p \in payments /\ UNCHANGED server
  \/ /\ \A q \in payments : q.key # p.key
     /\ MayPay(p)
     /\ payments' = payments \cup {p}
     /\ items' = [i \in DOMAIN items |->
                    IF i \in p.rows
                    THEN [items[i] EXCEPT !.left = @ - Settled(p.rows, p.amount, i)]
                    ELSE items[i]]

Delivered(it) == IF it.accepted > 0 THEN it.accepted ELSE it.qty

(* A return is set against what is owed for the item, or credited.         *)
Return(i, q) ==
  LET it == items[i] IN
  /\ it.line = "purchased" /\ it.returned + q <= Delivered(it)
  /\ it.left = 0 \/ q <= it.left
  /\ Change(i, [it EXCEPT !.returned = @ + q,
                          !.line = IF it.returned + q = Delivered(it) THEN "returned" ELSE @,
                          !.left = IF it.left = 0 THEN 0 ELSE @ - q,
                          !.over = IF it.left = 0 /\ it.supplier # Nobody THEN @ + q ELSE @])

Open(i) == items[i].status \in {"draft", "confirmed", "accepted"}

Ok(c) ==
  LET it == items[c.of] IN
  CASE c.kind = "order" -> it.status = "draft" /\ Change(c.of, [it EXCEPT !.status = "confirmed"])
    [] c.kind = "save" -> it.line # "purchased" /\ Change(c.of, [it EXCEPT !.qty = Only(c.with)])
    [] c.kind = "supplier" -> it.line # "purchased" /\ Change(c.of, [it EXCEPT !.supplier = Only(c.with)])
    [] c.kind = "cancel" -> it.line # "purchased" /\ Change(c.of, [it EXCEPT !.line = "cancelled"])
    [] c.kind = "accept" -> /\ Open(c.of) /\ it.line # "cancelled"
                            /\ Change(c.of, [it EXCEPT !.accepted = Only(c.with), !.status = "accepted"])
    [] c.kind = "confirm_acceptance" ->
         /\ it.status = "accepted" /\ it.line # "cancelled"
         /\ Change(c.of, IF it.accepted = 0 THEN [it EXCEPT !.status = "stored"]
                                            ELSE Stored(it, Delivered(it)))
    [] c.kind = "purchase" ->
         /\ Open(c.of)
         /\ Change(c.of, IF it.line = "pending" THEN Stored(it, it.qty)
                                                ELSE [it EXCEPT !.status = "stored"])
    [] c.kind = "pay" -> Pay(Only(c.with))
    [] c.kind = "return" -> Return(c.of, Only(c.with))

Reads == {"load", "statement"}

Serve(c) ==
  \/ /\ c.at = "out"
     /\ \/ c.kind \notin Reads \cup Lists /\ Ok(c) /\ Answer(c, "ok")
        \/ c.kind \notin Reads /\ Answer(c, "refused") /\ UNCHANGED server
        \/ Find(c)
        \/ /\ c.kind = "load" /\ UNCHANGED server
           /\ calls' = (calls \ {c}) \cup {[c EXCEPT !.at = "ok", !.of = Len(items)]}
        \/ /\ c.kind = "statement" /\ UNCHANGED server
           /\ calls' = (calls \ {c}) \cup {[c EXCEPT !.at = "ok", !.with = Rows(Only(c.with))]}
     /\ UNCHANGED <<page, ghost, faults>>
  \/ Book(c) /\ UNCHANGED <<page, noted, overtaken, named, buttons, faults>>

Lose(c) ==
  /\ faults < MaxFaults /\ faults' = faults + 1
  /\ c.at # "lost"
  /\ Answer(c, "lost")
  /\ UNCHANGED <<page, server, ghost>>

Next ==
  \/ \E a \in Advice : NoteAdvice(a)
  \/ ImportDraft \/ Load \/ SubmitManualList \/ GenerateFromAdvice
  \/ ConfirmOrder \/ CancelItem \/ ConfirmPurchase \/ ToggleAcceptance
  \/ \E q \in 1 .. MaxQty : SaveItem(q) \/ SubmitReturn(q) \/ EditAmount(q)
  \/ \E q \in 0 .. MaxQty : SubmitAcceptance(q)
  \/ \E s \in Supplier : SelectSupplier(s) \/ PickSupplier(s)
  \/ OpenPayment \/ ClosePayment \/ SubmitPayment \/ OpenReturn
  \/ \E c \in calls : Answered(c) \/ Serve(c) \/ Lose(c)

Spec == Init /\ [][Next]_vars

-----------------------------------------------------------------------------
(* Advice noted on the phone stays there until a list has it, the page has *)
(* named it as unknown, or the list had its product bought already, unless *)
(* it was noted while an import was under way.                             *)
Taken == UNION {items[i].advice : i \in DOMAIN items}
Heeded == Taken \cup named \cup skipped \cup overtaken

AdviceIsKept == noted \subseteq draft \cup Heeded

(* A dialog pays at most once, however often it is sent and whatever is    *)
(* lost, and only what is owed to the supplier it names, however late the  *)
(* statement of another one came in.                                       *)
PaidOnceToWhom ==
  /\ \A p, q \in payments : p.dialog = q.dialog => p = q
  /\ \A p \in payments : \A i \in p.rows : items[i].supplier = p.to

(* Known to fail (see the README): advice noted meanwhile, and that of a   *)
(* line bought already; advice is bought once; what goes into stock is     *)
(* what was accepted; one button at a time.                                *)
NoAdviceOvertaken == noted \subseteq draft \cup Taken \cup named \cup skipped
NoAdviceSkipped   == noted \subseteq draft \cup Taken \cup named \cup overtaken
BoughtOnce == buttons = {"import"} => \A i \in DOMAIN items : items[i].qty <= Cardinality(items[i].advice)
AcceptedIsStocked ==
  \A i \in DOMAIN items : items[i].line = "purchased" /\ items[i].accepted >= 0
                            => items[i].stocked = items[i].accepted
OneAtATime == Cardinality({c \in calls : c.kind \notin Unguarded}) <= 1
=============================================================================
