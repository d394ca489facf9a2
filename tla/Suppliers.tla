----------------------------- MODULE Suppliers -----------------------------
(***************************************************************************)
(* The supplier directory of the server (routers/catalog.py, from          *)
(* list_suppliers on) and the score of a supplier                          *)
(* (services/supplier_scoring.py): suppliers, what they offer at which     *)
(* price, and how they rank for a product.  What was delivered comes from  *)
(* the purchase lists (module Purchasing).  Percentages and scores are     *)
(* hundredths, prices whole units of money.                                *)
(***************************************************************************)
EXTENDS Allocation, Sequences, FiniteSetsExt, Functions

CONSTANTS
  Supplier,    \* 1 .. n, in the order of their names
  Sku,
  Prices,      \* quotes, 0 for none
  Forms,       \* what a form says: hours until delivery, days of credit
  Delivery,    \* what a delivered item may be like
  MaxOffers, MaxDeliveries   \* bounds

(* What a form and an item can say.                                        *)
ASSUME SupplierShapes ==
  /\ Prices \subseteq Nat
  /\ Forms \subseteq [lead : Int, credit : Nat]
  /\ Delivery \subseteq [qty : Nat, short : Nat, back : Nat,
                          accepted : BOOLEAN, ok : BOOLEAN, late : BOOLEAN]

VARIABLES
  sup,         \* supplier -> its row
  offers,      \* supplier_products, in the order they were made
  history      \* supplier -> purchase items delivered

server == <<sup, offers, history>>

NoHours == -1      \* lead_time_hours not given

Row == [there |-> TRUE, active |-> TRUE, black |-> FALSE, lead |-> NoHours, credit |-> 0,
        score |-> 0, on_time |-> 0, quality |-> 0]

Offer(n, s, k, price) == [id |-> n, supplier |-> s, sku |-> k, price |-> price, there |-> TRUE]

(* Some suppliers exist, and what they offer.                              *)
ServerInit(opened, offered) ==
  /\ sup = [s \in Supplier |-> [Row EXCEPT !.there = s \in opened]]
  /\ offers = offered
  /\ history = [s \in Supplier |-> <<>>]

-----------------------------------------------------------------------------
(* The score *)

HalfEven(n, d) ==
  LET q == n \div d
      r == 2 * (n % d)
  IN IF r > d \/ (r = d /\ q % 2 = 1) THEN q + 1 ELSE q

AtLeast(n, x) == IF x < n THEN n ELSE x

Total(h, Val(_)) == Sum(LAMBDA i : Val(h[i]), DOMAIN h)
Count(h, Is(_))  == Cardinality({i \in DOMAIN h : Is(h[i])})

(* Mutant: goods that came back count in the supplier's favour.            *)
ScoreOf_returns_added(h) ==
  LET expected == AtLeast(1, Total(h, LAMBDA x : x.qty))
      accepted == AtLeast(1, Count(h, LAMBDA x : x.accepted))
      missing  == Total(h, LAMBDA x : x.short) - Total(h, LAMBDA x : x.back)
      bad      == Count(h, LAMBDA x : x.accepted /\ ~x.ok)
      late     == Count(h, LAMBDA x : x.accepted /\ x.late)
      points   == 10000 * expected * accepted - 2500 * missing * accepted
                   - (3500 * bad + 1500 * late) * expected
  IN [score   |-> HalfEven(AtLeast(0, points), expected * accepted),
      on_time |-> HalfEven(10000 * (accepted - late), accepted),
      quality |-> HalfEven(10000 * bad, accepted)]

(* calculate_supplier_score: of what was expected, how much was short or   *)
(* came back; of what was accepted, how much was bad or late.              *)
ScoreOf(h) ==
  LET expected == AtLeast(1, Total(h, LAMBDA x : x.qty))
      accepted == AtLeast(1, Count(h, LAMBDA x : x.accepted))
      missing  == Total(h, LAMBDA x : x.short) + Total(h, LAMBDA x : x.back)
      bad      == Count(h, LAMBDA x : x.accepted /\ ~x.ok)
      late     == Count(h, LAMBDA x : x.accepted /\ x.late)
      points   == 10000 * expected * accepted - 2500 * missing * accepted
                   - (3500 * bad + 1500 * late) * expected
  IN [score   |-> HalfEven(AtLeast(0, points), expected * accepted),
      on_time |-> HalfEven(10000 * (accepted - late), accepted),
      quality |-> HalfEven(10000 * bad, accepted)]

-----------------------------------------------------------------------------
(* The rankings.  A figure of zero reads as one that is not known.         *)

Offered(k) == {o \in Range(offers) : /\ o.there /\ o.sku = k
                                     /\ sup[o.supplier].active /\ ~sup[o.supplier].black}

(* compare_suppliers: the key an offer is sorted by, best highest.         *)
CompareKey(o, sort) ==
  LET s == sup[o.supplier] IN
  CASE sort = "price" -> IF o.price = 0 THEN -1000000 ELSE -o.price
    [] sort = "score" -> IF s.score = 0 THEN -1 ELSE s.score
    [] sort = "lead"  -> IF s.lead = NoHours THEN -99999 ELSE -s.lead
    [] sort = "value" -> IF o.price = 0 \/ s.score = 0 THEN -1 ELSE HalfEven(s.score, o.price)

(* recommend_best_supplier, in two-thousandths of a point, to a tenth.     *)
Lead(s)    == IF s.lead \in {NoHours, 0} THEN 72 ELSE s.lead
OnTime(s)  == IF s.on_time = 0 THEN 10000 ELSE s.on_time
Penalty(o) == IF o.price = 0 THEN 5000 ELSE AtLeast(0, 10000 - 500 * o.price)

Points(o, urgency) ==
  LET s == sup[o.supplier] IN
  CASE urgency = "urgent" -> 10 * OnTime(s) + 6 * (10000 - 50 * Lead(s)) + 4 * s.score
    [] urgency = "cost"   -> 10 * (10000 - 1000 * o.price) + 10 * s.score
    [] urgency = "normal" -> 8 * s.score + 4 * Penalty(o) + 4 * OnTime(s)
                              + 2 * (10000 - s.quality) + 300 * s.credit

RecommendKey(o, urgency) == HalfEven(Points(o, urgency), 200)

Affordable(k, ceiling) == {o \in Offered(k) : ceiling = 0 \/ o.price = 0 \/ o.price <= ceiling}

Best(S, Key(_)) == {o \in S : \A p \in S : Key(p) <= Key(o)}

Compared(k, sort)     == [all |-> Offered(k), best |-> Best(Offered(k), LAMBDA o : CompareKey(o, sort))]
Recommended(k, u, c) == [all |-> Affordable(k, c), best |-> Best(Affordable(k, c), LAMBDA o : RecommendKey(o, u))]

-----------------------------------------------------------------------------
(* The operations *)

Known == {s \in Supplier : sup[s].there}
Change(s, row) == sup' = [sup EXCEPT ![s] = row] /\ UNCHANGED <<offers, history>>

CreateSupplier(s, form) ==
  /\ s \notin Known /\ \A r \in Supplier \ Known : s <= r
  /\ Change(s, [Row EXCEPT !.lead = form.lead, !.credit = form.credit])

(* A lead time or a credit left empty is not a number: the request fails.  *)
UpdateSupplier(s, form) ==
  /\ form.lead # NoHours /\ form.credit # 0
  /\ Change(s, [sup[s] EXCEPT !.lead = form.lead, !.credit = form.credit])

SetBlacklisted(s, b)  == Change(s, [sup[s] EXCEPT !.black = b])
DeactivateSupplier(s) == Change(s, [sup[s] EXCEPT !.active = FALSE])

(* Nothing keeps a supplier from offering a product twice.                 *)
AddOffer(s, k, price) ==
  /\ Len(offers) < MaxOffers
  /\ offers' = Append(offers, Offer(Len(offers) + 1, s, k, price))
  /\ UNCHANGED <<sup, history>>

RemoveOffer(n) ==
  /\ offers[n].there
  /\ offers' = [offers EXCEPT ![n].there = FALSE]
  /\ UNCHANGED <<sup, history>>

Deliver(s, item) ==
  /\ s \in Known
  /\ MapThenSumSet(LAMBDA r : Len(history[r]), Supplier) < MaxDeliveries
  /\ history' = [history EXCEPT ![s] = Append(@, item)]
  /\ UNCHANGED <<sup, offers>>

RecalculateScore(s) ==
  LET new == ScoreOf(history[s]) IN
  IF history[s] = <<>>
  THEN UNCHANGED server
  ELSE Change(s, [sup[s] EXCEPT !.score = new.score, !.on_time = new.on_time,
                                !.quality = new.quality])

(* list_suppliers: active ones a keyword matches, a page of them.          *)
Page(matching, offset, limit) ==
  LET found == {s \in Known \cap matching : sup[s].active}
      place(s) == Cardinality({r \in found : r < s})
  IN [items |-> {s \in found : offset <= place(s) /\ place(s) < offset + limit},
      total |-> Cardinality(found)]

(* The steps that a rank depends on; who is blacklisted or not active has  *)
(* none, and module SupplierPage takes every step.                         *)
ServerNext ==
  \/ \E s \in Supplier, f \in Forms : CreateSupplier(s, f)
  \/ \E s \in Known : \/ RecalculateScore(s)
                      \/ \E f \in Forms : UpdateSupplier(s, f)
                      \/ \E k \in Sku, p \in Prices : AddOffer(s, k, p)
                      \/ \E d \in Delivery : Deliver(s, d)
  \/ \E n \in DOMAIN offers : RemoveOffer(n)

ServerSpec == ServerInit({}, <<>>) /\ [][ServerNext]_server

-----------------------------------------------------------------------------
(* What must hold *)

(* A delivery that had been worse in any respect, all else the same, never *)
(* gives the supplier a better score.                                      *)
Worse(x, y) ==
  /\ x.qty = y.qty /\ x.accepted = y.accepted
  /\ x.short >= y.short /\ x.back >= y.back
  /\ x.ok => y.ok
  /\ y.late => x.late

WorseNeverScoresBetter ==
  \A s \in Known : \A i \in DOMAIN history[s], x \in Delivery :
    Worse(x, history[s][i])
      => ScoreOf([history[s] EXCEPT ![i] = x]).score <= ScoreOf(history[s]).score

(* An offer whose figures are all known, and none worse than those of      *)
(* another such offer, is never ranked below it, whatever the list is      *)
(* sorted by and whatever is urgent.                                       *)
Figures(o) ==
  LET s == sup[o.supplier] IN
  [known |-> o.price > 0 /\ s.score > 0 /\ s.on_time > 0 /\ s.lead > 0,
   price |-> -o.price, score |-> s.score, on_time |-> s.on_time, quality |-> -s.quality,
   credit |-> s.credit, lead |-> -s.lead]

AtLeastAsGood(o, p) ==
  LET f == Figures(o)
      g == Figures(p)
  IN f.known /\ g.known /\ \A x \in DOMAIN f \ {"known"} : f[x] >= g[x]

RankedAsTheyAre ==
  \A k \in Sku : \A o, p \in Offered(k) : AtLeastAsGood(o, p) =>
    /\ \A sort \in {"price", "score", "lead", "value"} : CompareKey(o, sort) >= CompareKey(p, sort)
    /\ \A u \in {"urgent", "cost", "normal"} : RecommendKey(o, u) >= RecommendKey(p, u)

RankingIsFair == WorseNeverScoresBetter /\ RankedAsTheyAre

(* Known to fail (see the README): an offer never gains by a figure that   *)
(* is missing, nor a supplier by being always late.                        *)
PunctualFirst ==
  \A k \in Sku : \A o, p \in Offered(k) :
    LET s == sup[o.supplier]
        r == sup[p.supplier]
    IN history[p.supplier] # <<>> /\ s.on_time > r.on_time /\ s.lead = r.lead /\ s.score >= r.score
       => RecommendKey(o, "urgent") >= RecommendKey(p, "urgent")
CheapestFirst ==
  \A k \in Sku : \A o, p \in Offered(k) :
    o.price > 0 /\ p.price = 0 /\ sup[o.supplier].score = sup[p.supplier].score
      => RecommendKey(o, "cost") >= RecommendKey(p, "cost")
=============================================================================
