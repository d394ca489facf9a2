---------------------------- MODULE SupplierPage ----------------------------
(***************************************************************************)
(* The supplier page of the mini program (pages/supplier/supplier.js) over *)
(* the directory of the server (module Suppliers): a list loaded page by   *)
(* page and searched, one supplier unfolded, forms to make, change,        *)
(* blacklist and link, and the comparison of who offers a product.  No     *)
(* request waits for another one, so that answers overtake each other.     *)
(***************************************************************************)
EXTENDS Suppliers

CONSTANTS
  Matching,    \* the suppliers the keyword finds
  Limit,       \* suppliers of a page (20)
  Setups,      \* bound: the sets of buttons used together, each with the
               \* suppliers and offers there are at the start
  Sorts,       \* the columns to sort by, of value, price, score and lead
  MaxCalls, MaxAsked, MaxFaults   \* bounds: requests under way, comparisons
                                  \* asked for, answers lost

VARIABLES
  shown, offset, total, keyword, loading, more,   \* the list; loadingMore
  open, detail, products,   \* supplier unfolded (0: none), and whose details
               \* and offers are on the screen
  form, submitting,    \* the form: none, or whose it is (0: a new one)
  target,      \* the blacklist dialog: none, or supplier and new value
  seq, picked, sort, comparing, result,   \* _compareSeq, compareSkuId, ...
  advising, advice,    \* compareRecommendLoading, compareRecommend
  calls,       \* requests under way: kind, what they carry, answer
  told, arrived,   \* what the server would have answered to the last asking
               \* until it did, and whether its answer has come
  buttons, faults

list    == <<shown, offset, total, keyword, loading, more>>
dialogs == <<open, detail, products, form, submitting, target>>
compare == <<seq, picked, sort, comparing, result, advising, advice>>
ghost   == <<told, arrived, buttons>>
pageVars == <<server, list, dialogs, compare, calls, ghost, faults>>

Rows == INSTANCE SequencesExt

None == [none |-> TRUE]

PageInit ==
  /\ \E u \in Setups : buttons = u.buttons /\ ServerInit(u.opened, u.offered)
  /\ shown = <<>> /\ offset = 0 /\ total = 0 /\ keyword = FALSE /\ loading = FALSE /\ more = FALSE
  /\ open = 0 /\ detail = 0 /\ products = 0 /\ form = -1 /\ submitting = FALSE /\ target = None
  /\ seq = 0 /\ picked = None /\ sort = "value" /\ comparing = FALSE /\ result = None
  /\ advising = FALSE /\ advice = None
  /\ calls = {} /\ told = {} /\ arrived = FALSE /\ faults = 0

Call(kind, of, with) == [kind |-> kind, of |-> of, with |-> with, at |-> "out", got |-> None]
Send(new) == Cardinality(calls \cup new) <= MaxCalls /\ calls' = calls \cup new

ListKept    == UNCHANGED list
CompareKept == UNCHANGED <<compare, told, arrived>>
Rest        == UNCHANGED <<server, buttons, faults>>

-----------------------------------------------------------------------------
(* The list *)

LoadCall(append) == Call("load", keyword', [append |-> append, from |-> IF append THEN offset ELSE 0])

(* loadSuppliers(false), which empties the list; and onReachBottom.        *)
Reload == shown' = <<>> /\ offset' = 0 /\ loading' = TRUE /\ UNCHANGED <<total, more>>

Search(k) ==
  /\ "list" \in buttons
  /\ keyword' = k
  /\ Reload /\ Send({LoadCall(FALSE)})
  /\ UNCHANGED dialogs /\ CompareKept /\ Rest

LoadMore ==
  /\ "list" \in buttons
  /\ ~more /\ Len(shown) < total
  /\ more' = TRUE /\ UNCHANGED <<shown, offset, total, keyword, loading>>
  /\ Send({LoadCall(TRUE)})
  /\ UNCHANGED dialogs /\ CompareKept /\ Rest

-----------------------------------------------------------------------------
(* One supplier *)

Expand(s) ==
  /\ "expand" \in buttons
  /\ open' = IF open = s THEN 0 ELSE s
  /\ detail' = 0 /\ products' = 0
  /\ IF open = s THEN UNCHANGED calls ELSE Send({Call("detail", s, None), Call("products", s, None)})
  /\ UNCHANGED <<form, submitting, target>> /\ ListKept /\ CompareKept /\ Rest

OpenForm(s) ==
  /\ "form" \in buttons
  /\ form' = s
  /\ UNCHANGED <<open, detail, products, submitting, target, calls>>
  /\ ListKept /\ CompareKept /\ Rest

CloseForm ==
  /\ form # -1
  /\ form' = -1
  /\ UNCHANGED <<open, detail, products, submitting, target, calls>>
  /\ ListKept /\ CompareKept /\ Rest

(* The form leaves numbers empty or gives them; the button answers to      *)
(* every tap.                                                              *)
SaveSupplier(given) ==
  /\ form # -1
  /\ submitting' = TRUE
  /\ Send({Call(IF form = 0 THEN "create" ELSE "update", form, given)})
  /\ UNCHANGED <<open, detail, products, form, target>> /\ ListKept /\ CompareKept /\ Rest

Deactivate(s) ==
  /\ "form" \in buttons
  /\ Send({Call("deactivate", s, None)})
  /\ UNCHANGED dialogs /\ ListKept /\ CompareKept /\ Rest

(* The dialog offers the opposite of what the list last showed, which may  *)
(* be old.                                                                 *)
ToggleBlacklist(s, b) ==
  /\ "black" \in buttons
  /\ target' = [of |-> s, to |-> b]
  /\ UNCHANGED <<open, detail, products, form, submitting, calls>>
  /\ ListKept /\ CompareKept /\ Rest

ConfirmBlacklist ==
  /\ target # None
  /\ Send({Call("black", target.of, target.to)})
  /\ UNCHANGED dialogs /\ ListKept /\ CompareKept /\ Rest

CancelBlacklist ==
  /\ target # None
  /\ target' = None
  /\ UNCHANGED <<open, detail, products, form, submitting, calls>>
  /\ ListKept /\ CompareKept /\ Rest

RecalculateTapped(s) ==
  /\ "score" \in buttons
  /\ Send({Call("score", s, None)})
  /\ UNCHANGED dialogs /\ ListKept /\ CompareKept /\ Rest

SaveProd(s, k, price) ==
  /\ "offers" \in buttons
  /\ Send({Call("offer", s, [sku |-> k, price |-> price])})
  /\ UNCHANGED dialogs /\ ListKept /\ CompareKept /\ Rest

RemoveProd(n) ==
  /\ "offers" \in buttons /\ open # 0
  /\ Send({Call("unlink", open, n)})
  /\ UNCHANGED dialogs /\ ListKept /\ CompareKept /\ Rest

-----------------------------------------------------------------------------
(* Comparing.  Every asking has a number, and only the last one's answer   *)
(* counts; an opinion counts while its product is the one picked.          *)

Stable == UNCHANGED dialogs /\ ListKept /\ Rest

OpenCompare ==
  /\ "compare" \in buttons /\ seq < MaxAsked
  /\ seq' = seq + 1
  /\ picked' = None /\ sort' = "value" /\ result' = None
  /\ comparing' = TRUE /\ advising' = FALSE /\ advice' = None
  /\ told' = {} /\ arrived' = FALSE
  /\ Send({Call("skus", 0, None)})
  /\ Stable

ResetCompareSku ==
  /\ picked # None /\ seq < MaxAsked
  /\ seq' = seq + 1
  /\ picked' = None /\ sort' = "value" /\ result' = None
  /\ comparing' = FALSE /\ advising' = FALSE /\ advice' = None
  /\ told' = {} /\ arrived' = FALSE
  /\ UNCHANGED calls /\ Stable

Ask(k, by) ==
  /\ seq < MaxAsked
  /\ seq' = seq + 1 /\ comparing' = TRUE
  /\ told' = {Compared(k, by)} /\ arrived' = FALSE
  /\ Send({Call("compare", seq + 1, [sku |-> k, sort |-> by])})

(* Mutant: an opinion still being waited for is forgotten.                 *)
PickCompareSku_waiting(k) ==
  /\ "compare" \in buttons /\ seq > 0
  /\ picked' = k /\ sort' = "value" /\ result' = None /\ advice' = None
  /\ UNCHANGED advising
  /\ Ask(k, "value")
  /\ Stable

PickCompareSku(k) ==
  /\ "compare" \in buttons /\ seq > 0
  /\ picked' = k /\ sort' = "value" /\ result' = None /\ advice' = None
  /\ advising' = FALSE
  /\ Ask(k, "value")
  /\ Stable

SwitchCompareSort(by) ==
  /\ picked # None /\ by # sort
  /\ sort' = by
  /\ Ask(picked, by)
  /\ UNCHANGED <<picked, result, advising, advice>>
  /\ Stable

LoadCompareRecommend ==
  /\ picked # None /\ ~advising
  /\ advising' = TRUE
  /\ Send({Call("recommend", picked, None)})
  /\ UNCHANGED <<seq, picked, sort, comparing, result, advice, told, arrived>>
  /\ Stable

-----------------------------------------------------------------------------
(* What the page does with an answer *)

Ok(c) == c.at = "ok"

(* After a change the list is loaded again.                                *)
Again(c) ==
  IF Ok(c) THEN Reload /\ calls' = (calls \ {c}) \cup {Call("load", keyword, [append |-> FALSE, from |-> 0])}
           ELSE UNCHANGED <<shown, offset, total, loading, more>> /\ calls' = calls \ {c}

LoadAnswered(c) ==
  /\ c.kind = "load"
  /\ IF Ok(c)
     THEN /\ shown' = IF c.with.append THEN shown \o c.got.items ELSE c.got.items
          /\ offset' = c.with.from + Len(c.got.items)
          /\ total' = c.got.total
     ELSE shown' = <<>> /\ total' = 0 /\ UNCHANGED offset
  /\ loading' = FALSE /\ more' = FALSE /\ UNCHANGED keyword
  /\ calls' = calls \ {c}
  /\ UNCHANGED dialogs /\ CompareKept /\ Rest

ReadAnswered(c) ==
  /\ c.kind \in {"detail", "products"}
  /\ detail' = IF c.kind = "detail" /\ Ok(c) THEN c.of ELSE detail
  /\ products' = IF c.kind = "products" /\ Ok(c) THEN c.of ELSE products
  /\ calls' = calls \ {c}
  /\ UNCHANGED <<open, form, submitting, target>> /\ ListKept /\ CompareKept /\ Rest

ChangeAnswered(c) ==
  /\ c.kind \in {"create", "update", "deactivate", "black"}
  /\ Again(c) /\ UNCHANGED keyword
  /\ submitting' = (submitting /\ c.kind \notin {"create", "update"})
  /\ form' = IF c.kind \in {"create", "update"} /\ Ok(c) THEN -1 ELSE form
  /\ open' = IF c.kind = "deactivate" /\ Ok(c) THEN 0 ELSE open
  /\ target' = IF c.kind = "black" THEN None ELSE target
  /\ UNCHANGED <<detail, products>> /\ CompareKept /\ Rest

(* A new score reloads the list and, while it is unfolded, the supplier; a *)
(* link made or taken away its offers.                                     *)
UpdateAnswered(c) ==
  /\ c.kind \in {"score", "offer", "unlink"}
  /\ calls' = (calls \ {c}) \cup
       (CASE c.kind = "score" /\ Ok(c) ->
               {Call("load", keyword, [append |-> FALSE, from |-> 0])}
                 \cup (IF open = c.of THEN {Call("detail", c.of, None)} ELSE {})
          [] c.kind # "score" /\ Ok(c) -> {Call("products", c.of, None)}
          [] OTHER -> {})
  /\ IF c.kind = "score" /\ Ok(c) THEN Reload /\ UNCHANGED keyword ELSE ListKept
  /\ UNCHANGED dialogs /\ CompareKept /\ Rest

(* Mutant: whoever answers is heard.                                       *)
Heard_any(c) == c.kind = "compare"

Heard(c) == c.kind = "compare" /\ c.of = seq

CompareAnswered(c) ==
  /\ c.kind \in {"compare", "skus"}
  /\ calls' = calls \ {c}
  /\ result' = IF Heard(c) /\ Ok(c) THEN [sku |-> c.with.sku, found |-> c.got] ELSE result
  /\ picked' = IF Heard(c) /\ Ok(c) THEN c.with.sku ELSE picked
  /\ comparing' = (comparing /\ ~Heard(c) /\ c.kind # "skus")
  /\ arrived' = (arrived \/ (c.kind = "compare" /\ c.of = seq /\ Ok(c)))
  /\ UNCHANGED <<seq, sort, advising, advice, told>>
  /\ Stable

AdviceAnswered(c) ==
  /\ c.kind = "recommend"
  /\ calls' = calls \ {c}
  /\ advice' = IF picked = c.of /\ Ok(c) THEN [sku |-> c.of, found |-> c.got] ELSE advice
  /\ advising' = (advising /\ picked # c.of)
  /\ UNCHANGED <<seq, picked, sort, comparing, result, told, arrived>>
  /\ Stable

Answered(c) ==
  /\ c.at # "out"
  /\ \/ LoadAnswered(c) \/ ReadAnswered(c) \/ ChangeAnswered(c) \/ UpdateAnswered(c)
     \/ CompareAnswered(c) \/ AdviceAnswered(c)

-----------------------------------------------------------------------------
(* The server *)

Write(c) ==
  CASE c.kind = "create"     -> \E s \in Supplier : CreateSupplier(s, c.with)
    [] c.kind = "update"     -> UpdateSupplier(c.of, c.with)
    [] c.kind = "deactivate" -> DeactivateSupplier(c.of)
    [] c.kind = "black"      -> SetBlacklisted(c.of, c.with)
    [] c.kind = "score"      -> RecalculateScore(c.of)
    [] c.kind = "offer"      -> AddOffer(c.of, c.with.sku, c.with.price)
    [] c.kind = "unlink"     -> RemoveOffer(c.with)

Reads == {"load", "detail", "products", "compare", "recommend", "skus"}

Read(c) ==
  CASE c.kind = "load" ->
         LET p == Page(IF c.of THEN Matching ELSE Supplier, c.with.from, Limit)
         IN [items |-> Rows!SetToSortSeq(p.items, <), total |-> p.total]
    [] c.kind = "compare"   -> Compared(c.with.sku, c.with.sort)
    [] c.kind = "recommend" -> Recommended(c.of, "normal", 0)
    [] OTHER                -> None

Reply(c, at, got) == calls' = (calls \ {c}) \cup {[c EXCEPT !.at = at, !.got = got]}

(* What the server would now answer to the last asking.                    *)
Waited == \E c \in calls : c.kind = "compare" /\ c.of = seq /\ c.at = "out"

Noted ==
  /\ told' = IF Waited THEN told \cup {Compared(picked, sort)'} ELSE told
  /\ UNCHANGED arrived

Serve(c) ==
  /\ c.at = "out"
  /\ UNCHANGED <<list, dialogs, compare, buttons, faults>>
  /\ \/ c.kind \in Reads /\ Reply(c, "ok", Read(c)) /\ UNCHANGED <<server, told, arrived>>
     \/ c.kind \notin Reads /\ Write(c) /\ Reply(c, "ok", None) /\ Noted
     \/ Reply(c, "refused", None) /\ UNCHANGED <<server, told, arrived>>

Delivered(s, item) ==
  /\ "score" \in buttons
  /\ UNCHANGED <<list, dialogs, compare, calls, buttons, faults>>
  /\ Deliver(s, item) /\ Noted

Lose(c) ==
  /\ faults < MaxFaults /\ faults' = faults + 1
  /\ c.at # "lost"
  /\ Reply(c, "lost", None)
  /\ UNCHANGED <<server, list, dialogs, compare, ghost>>

PageNext ==
  \/ \E k \in BOOLEAN : Search(k)
  \/ LoadMore \/ CloseForm \/ ConfirmBlacklist \/ CancelBlacklist
  \/ \E s \in Known : \/ Expand(s) \/ Deactivate(s) \/ RecalculateTapped(s)
                      \/ \E b \in BOOLEAN : ToggleBlacklist(s, b)
                      \/ \E k \in Sku, p \in Prices : SaveProd(s, k, p)
                      \/ \E d \in Delivery : Delivered(s, d)
  \/ \E s \in Known \cup {0} : OpenForm(s)
  \/ \E f \in Forms : SaveSupplier(f)
  \/ \E n \in DOMAIN offers : RemoveProd(n)
  \/ OpenCompare \/ ResetCompareSku \/ LoadCompareRecommend
  \/ \E k \in Sku : PickCompareSku(k)
  \/ \E by \in Sorts : SwitchCompareSort(by)
  \/ \E c \in calls : Answered(c) \/ Serve(c) \/ Lose(c)

(* The server answers, and the page hears of it.                           *)
PageFairness ==
  \A kind \in {"compare", "recommend", "skus"} :
    /\ WF_pageVars(\E c \in calls : c.kind = kind /\ Serve(c))
    /\ WF_pageVars(\E c \in calls : c.kind = kind /\ Answered(c))

PageSpec == PageInit /\ [][PageNext]_pageVars /\ PageFairness

-----------------------------------------------------------------------------
(* The comparison on the screen is of the product picked and, once the     *)
(* last asking is answered, what the server gave or would have given after *)
(* that asking, in the order asked for; the opinion beside it is about the *)
(* same product.                                                           *)
ComparedIsCurrent ==
  /\ result # None => result.sku = picked
  /\ advice # None => advice.sku = picked
  /\ arrived => result # None /\ result.found \in told

(* No spinner of the comparison turns for ever: neither its list's nor     *)
(* that of the opinion, whose button is dead while it turns.               *)
SpinnersStop == (comparing ~> ~comparing) /\ (advising ~> ~advising)

(* Known to fail (see the README): the list is that of the keyword; no     *)
(* supplier is listed twice; what is unfolded is what was tapped; a valid  *)
(* form is accepted; one form makes one supplier.                          *)
ListIsSearched ==
  ~loading /\ ~more /\ calls = {} /\ faults = 0 /\ buttons = {"list"}
    => Range(shown) \subseteq IF keyword THEN Matching ELSE Supplier
ListedOnce == Cardinality(Range(shown)) = Len(shown)
DetailIsOpen == detail # 0 => detail = open
EditIsAccepted ==
  \A c \in calls : c.kind = "update" /\ c.at = "out" => c.with.lead # NoHours /\ c.with.credit # 0
=============================================================================
