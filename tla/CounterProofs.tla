--------------------------- MODULE CounterProofs ----------------------------
(***************************************************************************)
(* What modules Counter and Money state: the consumption loop for any rows *)
(* and quantities, the page for purchases for any advice, items and        *)
(* payments, the voice page for any notes, the supplier page, the rankings *)
(* of suppliers, the limiter of logins for any rules, and the reports next *)
(* to the settlement for any till and ledger.                              *)
(***************************************************************************)
EXTENDS Counter, Money, SupplierPage, AllocationProofs

IInv == TypeOK /\ NothingLost

LEMMA SmallerIsBoth ==
  ASSUME NEW m \in Nat, NEW n \in Nat
  PROVE  Smaller(m, n) \in Nat /\ Smaller(m, n) <= m /\ Smaller(m, n) <= n
BY DEF Smaller

LEMMA InitIInv == Init => IInv
BY LoopConstants DEF Init, IInv, TypeOK, NothingLost

LEMMA NextIInv == IInv /\ [Next]_vars => IInv'
<1> SUFFICES ASSUME IInv, [Next]_vars PROVE IInv'
  OBVIOUS
<1>1. ASSUME NEW b \in Batch, Take(b) PROVE IInv'
  <2> DEFINE take == Smaller(remaining[b], left)
  <2>1. take \in Nat /\ take <= remaining[b] /\ take <= left /\ remaining[b] \in Nat
    BY SmallerIsBoth DEF IInv, TypeOK
  <2>2. /\ left' = left - take /\ consumed' = consumed + take
        /\ part' = [part EXCEPT ![b] = take]
        /\ remaining' = [remaining EXCEPT ![b] = @ - take]
        /\ todo' = todo \ {b}
    BY <1>1 DEF Take
  <2> HIDE DEF take
  <2>3. consumed' + left' = asked'
    BY <1>1, <2>1, <2>2 DEF Take, IInv, TypeOK, NothingLost
  <2>4. TypeOK'
    BY <1>1, <2>1, <2>2 DEF Take, IInv, TypeOK
  <2> QED
    BY <2>3, <2>4 DEF IInv, NothingLost
<1>2. CASE FallBack
  BY <1>2 DEF FallBack, IInv, TypeOK, NothingLost
<1>3. CASE Finish
  BY <1>3 DEF Finish, IInv, TypeOK, NothingLost
<1>4. CASE UNCHANGED vars
  BY <1>4 DEF vars, IInv, TypeOK, NothingLost
<1> QED
  BY <1>1, <1>2, <1>3, <1>4 DEF Next

(* However many rows the walk has visited, in either of its two passes,    *)
(* what was taken and what is still owed add up to the quantity asked for. *)
THEOREM NothingLostHolds == Spec => []NothingLost
<1>1. IInv => NothingLost
  BY DEF IInv
<1> QED
  BY <1>1, InitIInv, NextIInv, PTL DEF Spec

-----------------------------------------------------------------------------
(* The walk *)

(* The rows a call of the loop runs over.                                  *)
Pass == IF phase = "own" THEN own ELSE Batch \ own

(* The rows the walk has reached so far.                                   *)
Passed == IF phase = "own" THEN own \ todo ELSE Batch \ todo

(* While the walk runs: its pass is over rows it may use, in order; a row  *)
(* it has not reached is untouched, and one it has left behind is empty as *)
(* long as anything is owed.                                               *)
Walking ==
  phase # "done" =>
    /\ todo \subseteq Pass /\ (phase = "unowned" => fallback)
    /\ \A b \in Pass \ todo, c \in todo : b < c
    /\ \A b \in Batch \ Passed : part[b] = 0
    /\ left > 0 => \A b \in Passed : remaining[b] = 0

(* At every step: nothing is taken of a row that may not be used, nor of   *)
(* one whose predecessors are not empty, and the takes are counted.        *)
InOrder ==
  /\ \A b \in Batch \ Reach : part[b] = 0
  /\ \A b, c \in Reach : Ahead(b, c) /\ part[c] > 0 => remaining[b] = 0
  /\ consumed = SumOf(part)

(* The walk stops when all is placed or nothing is left to take.           *)
Stopped == phase = "done" => left = 0 \/ \A b \in Reach : remaining[b] = 0

WalkInv == Walking /\ InOrder /\ Stopped

LEMMA InitWalk == Init => WalkInv
<1> SUFFICES ASSUME Init PROVE WalkInv
  OBVIOUS
<1>1. part \in [Batch -> Int] /\ \A b \in Batch : part[b] = 0
  BY DEF Init
<1>2. SumOf(part) = 0
  BY <1>1, LoopConstants, SumZero
<1>3. Walking
  BY <1>1 DEF Init, Walking, Pass, Passed
<1>4. InOrder
  BY <1>1, <1>2 DEF Init, InOrder, Reach
<1> QED
  BY <1>3, <1>4 DEF Init, WalkInv, Stopped

LEMMA TakeWalk ==
  ASSUME IInv, WalkInv, NEW b \in Batch, Take(b)
  PROVE  WalkInv'
<1> DEFINE take == Smaller(remaining[b], left)
<1>1. /\ take \in Nat /\ take <= remaining[b] /\ take <= left
      /\ take = remaining[b] \/ take = left
  BY SmallerIsBoth DEF IInv, TypeOK, Smaller
<1>2. /\ left' = left - take /\ consumed' = consumed + take
      /\ part' = [part EXCEPT ![b] = take]
      /\ remaining' = [remaining EXCEPT ![b] = remaining[b] - take]
      /\ todo' = todo \ {b} /\ b \in todo /\ left > 0 /\ phase # "done"
      /\ \A c \in todo : b <= c
      /\ UNCHANGED <<own, asked, fallback, phase>>
  BY DEF Take
<1> HIDE DEF take
<1>3. /\ todo \subseteq Batch /\ own \subseteq Batch /\ Batch \subseteq Nat
      /\ part \in [Batch -> Nat] /\ remaining \in [Batch -> Nat]
      /\ left \in Nat /\ consumed \in Nat /\ phase \in {"own", "unowned"}
  BY <1>2, LoopConstants DEF IInv, TypeOK
<1>4. /\ todo \subseteq Pass /\ (phase = "unowned" => fallback)
      /\ \A a \in Pass \ todo, c \in todo : a < c
      /\ \A a \in Batch \ Passed : part[a] = 0
      /\ \A a \in Passed : remaining[a] = 0
  BY <1>2 DEF WalkInv, Walking
<1>5. Pass' = Pass /\ Passed' = Passed \cup {b} /\ b \notin Passed /\ part[b] = 0 /\ b \in Pass
  BY <1>2, <1>3, <1>4 DEF Pass, Passed
<1>6. \A a \in Batch : /\ part'[a] = IF a = b THEN take ELSE part[a]
                       /\ remaining'[a] = IF a = b THEN remaining[b] - take ELSE remaining[a]
  BY <1>2, <1>3
<1>7. Walking'
  <2>1. left' > 0 => remaining'[b] = 0
    BY <1>1, <1>2, <1>3, <1>6
  <2>2. \A a \in Pass \ (todo \ {b}), c \in todo \ {b} : a < c
    BY <1>2, <1>3, <1>4
  <2>3. \A a \in Batch \ Passed' : part'[a] = 0
    BY <1>4, <1>5, <1>6
  <2>4. left' > 0 => \A a \in Passed' : remaining'[a] = 0
    BY <1>3, <1>4, <1>5, <1>6, <2>1 DEF Passed
  <2> QED
    BY <1>2, <1>4, <1>5, <2>2, <2>3, <2>4 DEF Walking
<1>8. InOrder'
  <2>1. Reach' = Reach /\ Reach \subseteq Batch /\ b \in Reach
    BY <1>2, <1>3, <1>4 DEF Reach, Pass
  <2>2. \A a \in Batch \ Reach' : part'[a] = 0
    BY <1>6, <2>1 DEF WalkInv, InOrder
  <2>3. ASSUME NEW a \in Reach, NEW c \in Reach, Ahead(a, c), part'[c] > 0
        PROVE  remaining'[a] = 0
    <3>1. a \in Batch /\ c \in Batch /\ a # c /\ (c = b \/ part[c] > 0)
      BY <1>3, <1>6, <2>1, <2>3 DEF Ahead
    <3>2. CASE c = b
      <4>1. a \in Passed
        BY <1>2, <1>3, <1>4, <1>5, <2>1, <2>3, <3>1, <3>2 DEF Ahead, Passed, Pass
      <4> QED
        BY <1>4, <1>6, <3>1, <3>2, <4>1
    <3>3. CASE c # b
      <4>1. part[c] > 0
        BY <3>1, <3>3
      <4>2. remaining[a] = 0
        BY <2>3, <4>1 DEF WalkInv, InOrder
      <4> QED
        BY <1>1, <1>3, <1>6, <3>1, <4>2
    <3> QED
      BY <3>2, <3>3
  <2>4. \A a, c \in Reach : Ahead(a, c)' = Ahead(a, c)
    BY <1>2 DEF Ahead
  <2>5. consumed' = SumOf(part')
    <3>1. part \in [Batch -> Int] /\ part' \in [Batch -> Int]
          /\ \A a \in Batch \ {b} : part[a] = part'[a]
      BY <1>1, <1>2, <1>3
    <3>2. SumOf(part') = SumOf(part) + part'[b] - part[b]
      BY <3>1, LoopConstants, SumUpdate
    <3>3. consumed = SumOf(part)
      BY DEF WalkInv, InOrder
    <3> QED
      BY <1>1, <1>2, <1>3, <1>5, <1>6, <3>2, <3>3
  <2> QED
    BY <2>1, <2>2, <2>3, <2>4, <2>5 DEF InOrder
<1>9. Stopped'
  BY <1>2 DEF Stopped
<1> QED
  BY <1>7, <1>8, <1>9 DEF WalkInv

LEMMA FallBackWalk ==
  ASSUME IInv, WalkInv, FallBack
  PROVE  WalkInv'
<1>1. /\ own \subseteq Batch /\ phase = "own" /\ todo = {} /\ left > 0 /\ fallback
      /\ phase' = "unowned" /\ todo' = Batch \ own
      /\ UNCHANGED <<remaining, own, asked, fallback, left, consumed, part>>
  BY DEF FallBack, IInv, TypeOK
<1>2. (\A b \in Batch \ own : part[b] = 0) /\ \A b \in own : remaining[b] = 0
  BY <1>1 DEF WalkInv, Walking, Passed
<1>3. Walking'
  BY <1>1, <1>2 DEF Walking, Pass, Passed
<1>4. InOrder'
  BY <1>1 DEF WalkInv, InOrder, Reach, Ahead
<1> QED
  BY <1>1, <1>3, <1>4 DEF WalkInv, Stopped

LEMMA FinishWalk ==
  ASSUME IInv, WalkInv, Finish
  PROVE  WalkInv'
<1>1. /\ phase # "done" /\ phase \in {"own", "unowned", "done"}
      /\ left = 0 \/ (todo = {} /\ (phase = "own" => ~fallback))
      /\ phase' = "done" /\ left \in Nat /\ own \subseteq Batch
      /\ UNCHANGED <<remaining, own, asked, fallback, todo, left, consumed, part>>
  BY DEF Finish, IInv, TypeOK
<1>2. left = 0 \/ \A b \in Reach : remaining[b] = 0
  BY <1>1 DEF WalkInv, Walking, Passed, Reach
<1>3. Stopped'
  BY <1>1, <1>2 DEF Stopped, Reach
<1>4. InOrder'
  BY <1>1 DEF WalkInv, InOrder, Reach, Ahead
<1> QED
  BY <1>1, <1>3, <1>4 DEF WalkInv, Walking

LEMMA NextWalk == IInv /\ WalkInv /\ [Next]_vars => WalkInv'
<1> SUFFICES ASSUME IInv, WalkInv, [Next]_vars PROVE WalkInv'
  OBVIOUS
<1>1. CASE UNCHANGED vars
  BY <1>1 DEF vars, WalkInv, Walking, InOrder, Stopped, Pass, Passed, Reach, Ahead
<1> QED
  BY <1>1, TakeWalk, FallBackWalk, FinishWalk DEF Next

-----------------------------------------------------------------------------
(* The outcome *)

LEMMA ReachFacts ==
  ASSUME IInv
  PROVE  /\ Reach \in SUBSET Batch /\ IsFiniteSet(Reach) /\ IsFiniteSet(Batch)
         /\ [b \in Reach |-> Capacity(b)] \in [Reach -> Int]
         /\ Sum(Capacity, Reach) \in Int
<1> DEFINE f == [b \in Reach |-> Capacity(b)]
<1>1. Reach \in SUBSET Batch /\ IsFiniteSet(Reach) /\ IsFiniteSet(Batch)
  BY LoopConstants, FS_Subset DEF Reach, IInv, TypeOK
<1>2. f \in [Reach -> Int]
  BY <1>1 DEF Capacity, IInv, TypeOK
<1> HIDE DEF f
<1>3. SumOf(f) \in Int
  BY <1>1, <1>2, SumInt
<1> QED
  BY <1>1, <1>2, <1>3 DEF f, Sum

LEMMA WalkSplits == IInv /\ WalkInv => WalkIsSplit
<1> SUFFICES ASSUME IInv, WalkInv, phase = "done"
             PROVE  IsSplit(part, asked, Reach, Capacity, Ahead)
  BY DEF WalkIsSplit
<1> DEFINE f == [b \in Reach |-> Capacity(b)]
           g == [b \in Reach |-> part[b]]
<1>1. /\ part \in [Batch -> Nat] /\ remaining \in [Batch -> Nat] /\ DOMAIN part = Batch
      /\ asked \in Nat /\ left \in Nat /\ consumed \in Nat /\ consumed + left = asked
      /\ part \in [Batch -> Int]
  BY DEF IInv, TypeOK, NothingLost
<1>2. \A b \in Batch : part[b] <= (IF b \in Reach THEN Capacity(b) ELSE 0)
  BY <1>1 DEF WalkInv, InOrder, Capacity
<1>3. \A b \in Reach : /\ b \in Batch /\ part[b] \in Nat
                       /\ remaining[b] = 0 => part[b] = Capacity(b)
  <2>1. \A b \in Reach : b \in Batch
    BY ReachFacts
  <2> QED
    BY <1>1, <2>1 DEF Capacity
<1>4. \A b, c \in Reach : Ahead(b, c) /\ part[c] > 0 => part[b] = Capacity(b)
  BY <1>3 DEF WalkInv, InOrder
<1>5. SumOf(part) = SumOf(g) /\ g \in [Reach -> Int]
  <2>1. \A b \in Batch \ Reach : part[b] = 0
    BY DEF WalkInv, InOrder
  <2>2. g \in [Reach -> Int]
    BY <1>1, ReachFacts
  <2> QED
    BY <1>1, <2>1, <2>2, ReachFacts, SumSupport
<1>6. f \in [Reach -> Int] /\ (\A b \in Reach : g[b] <= f[b]) /\ SumOf(f) \in Int
      /\ Sum(Capacity, Reach) = SumOf(f)
  BY <1>1, ReachFacts DEF Capacity, Sum
<1>7. SumOf(part) = consumed
  BY DEF WalkInv, InOrder
<1>8. (\A b \in Reach : remaining[b] = 0) => f = g
  BY <1>3
<1> HIDE DEF f, g
<1>9. SumOf(g) <= SumOf(f)
  BY <1>5, <1>6, ReachFacts, SumAtMost
<1>10. SumOf(part) = Smaller(asked, Sum(Capacity, Reach))
  <2>1. left = 0 \/ SumOf(f) = SumOf(g)
    BY <1>8 DEF WalkInv, Stopped
  <2> QED
    BY <1>1, <1>5, <1>6, <1>7, <1>9, <2>1 DEF Smaller
<1> QED
  BY <1>1, <1>2, <1>4, <1>10 DEF IsSplit

Split(p) ==
  /\ \A a \in Batch : p[a] <= (IF a \in Reach THEN Capacity(a) ELSE 0)
  /\ \A a, c \in Reach : Ahead(a, c) /\ p[c] > 0 => p[a] = Capacity(a)
  /\ SumOf(p) = Smaller(asked, Sum(Capacity, Reach))

(* Where one split takes less of a row than another, it takes nothing of   *)
(* the rows behind it, and the other all of the rows ahead of it.          *)
LEMMA LessSomewhere ==
  ASSUME IInv, NEW p \in [Batch -> Nat], NEW r \in [Batch -> Nat],
         Split(p), Split(r), NEW b \in Batch, p[b] < r[b]
  PROVE  FALSE
<1>1. /\ Reach \subseteq Batch /\ Batch \subseteq Nat
      /\ p \in [Batch -> Int] /\ r \in [Batch -> Int]
  BY ReachFacts, LoopConstants
<1>2. /\ \A a \in Batch : p[a] <= (IF a \in Reach THEN Capacity(a) ELSE 0)
      /\ \A a \in Batch : r[a] <= (IF a \in Reach THEN Capacity(a) ELSE 0)
      /\ \A a, c \in Reach : Ahead(a, c) /\ p[c] > 0 => p[a] = Capacity(a)
      /\ \A a, c \in Reach : Ahead(a, c) /\ r[c] > 0 => r[a] = Capacity(a)
      /\ SumOf(p) = SumOf(r)
  BY DEF Split
<1>3. \A a \in Batch : Capacity(a) \in Nat
  BY DEF IInv, TypeOK, Capacity
<1>4. b \in Reach
  BY <1>2
<1>5. ASSUME NEW a \in Batch PROVE p[a] <= r[a]
  <2>1. CASE a \notin Reach
    BY <1>2, <2>1
  <2>2. CASE a \in Reach
    <3>1. a = b \/ Ahead(a, b) \/ Ahead(b, a)
      BY <1>1 DEF Ahead
    <3>2. CASE Ahead(a, b)
      <4>1. r[a] = Capacity(a)
        BY <1>2, <1>4, <2>2, <3>2
      <4> QED
        BY <1>2, <1>3, <2>2, <4>1
    <3>3. CASE Ahead(b, a)
      <4>1. p[b] # Capacity(b)
        BY <1>2, <1>3, <1>4
      <4>2. ~(p[a] > 0)
        BY <1>2, <1>4, <2>2, <3>3, <4>1
      <4> QED
        BY <4>2
    <3> QED
      BY <3>1, <3>2, <3>3
  <2> QED
    BY <2>1, <2>2
<1>6. SumOf(p) < SumOf(r)
  <2> DEFINE m == [r EXCEPT ![b] = p[b]]
  <2>1. /\ m \in [Batch -> Int] /\ p \in [Batch -> Int] /\ r \in [Batch -> Int]
        /\ \A a \in Batch : p[a] <= m[a]
        /\ (\A a \in Batch \ {b} : r[a] = m[a]) /\ m[b] = p[b]
    BY <1>5
  <2> HIDE DEF m
  <2>2. SumOf(p) <= SumOf(m) /\ SumOf(m) = SumOf(r) + m[b] - r[b]
    <3>1. SumOf(p) <= SumOf(m)
      BY <2>1, LoopConstants, SumAtMost
    <3>2. SumOf(m) = SumOf(r) + m[b] - r[b]
      BY <2>1, LoopConstants, SumUpdate, ZenonT(40)
    <3> QED
      BY <3>1, <3>2
  <2>3. SumOf(p) \in Int /\ SumOf(m) \in Int /\ SumOf(r) \in Int
    BY <2>1, LoopConstants, SumInt
  <2> QED
    BY <2>1, <2>2, <2>3
<1>7. SumOf(p) \in Int
  BY <1>1, LoopConstants, SumInt
<1> QED
  BY <1>2, <1>6, <1>7

LEMMA WalkUnique == IInv /\ WalkIsSplit => SplitIsUnique
<1> SUFFICES ASSUME IInv, IsSplit(part, asked, Reach, Capacity, Ahead),
                    NEW other \in [Batch -> 0 .. asked],
                    IsSplit(other, asked, Reach, Capacity, Ahead)
             PROVE  other = part
  BY DEF WalkIsSplit, SplitIsUnique
<1>1. other \in [Batch -> Nat] /\ part \in [Batch -> Nat]
  BY DEF IInv, TypeOK
<1>2. Split(other) /\ Split(part)
  BY <1>1 DEF IsSplit, Split
<1>3. \A b \in Batch : ~(other[b] < part[b]) /\ ~(part[b] < other[b])
  BY <1>1, <1>2, LessSomewhere
<1> QED
  BY <1>1, <1>3

(* Whatever the rows hold and whatever is asked for, the loop ends with    *)
(* the allocation that StockLedger takes in one step, and that step could  *)
(* take no other: the SKU's own rows before the unowned ones, each first   *)
(* expired first, in full whenever they hold enough.                       *)
THEOREM WalkIsTheSplitHolds == Spec => []WalkIsTheSplit
<1>1. IInv /\ WalkInv => WalkIsTheSplit
  BY WalkSplits, WalkUnique DEF WalkIsTheSplit
<1> QED
  BY <1>1, InitIInv, NextIInv, InitWalk, NextWalk, PTL DEF Spec

-----------------------------------------------------------------------------
(* Purchases                                                               *)
Kinds == {"import", "load", "manual", "generate", "order", "save", "cancel", "supplier",
          "purchase", "accept", "confirm_acceptance", "statement", "pay", "return"}

IsItem(it) ==
  it = [status |-> it.status, line |-> it.line, qty |-> it.qty, advice |-> it.advice,
        supplier |-> it.supplier, accepted |-> it.accepted, stocked |-> it.stocked,
        returned |-> it.returned, left |-> it.left, over |-> it.over]

IsCall(c) == c = [kind |-> c.kind, of |-> c.of, with |-> c.with, at |-> c.at]
IsPay(p) == p = [open |-> p.open, to |-> p.to, rows |-> p.rows, amount |-> p.amount, key |-> p.key]

(* An item with some fields set keeps the others.                          *)
LEMMA ItemStatus ==
  ASSUME NEW it, IsItem(it), NEW x, NEW r, r = [it EXCEPT !.status = x]
  PROVE  IsItem(r) /\ r.status = x /\ r.line = it.line /\ r.advice = it.advice
         /\ r.supplier = it.supplier /\ r.left = it.left
  BY DEF IsItem

LEMMA OnlyOne == ASSUME NEW q PROVE Buy!Only({q}) = q
  BY DEF Buy!Only

LEMMA CallSet ==
  ASSUME NEW c, IsCall(c), NEW x
  PROVE  LET r == [c EXCEPT !.at = x] IN
              IsCall(r) /\ r.kind = c.kind /\ r.of = c.of /\ r.with = c.with /\ r.at = x
  BY DEF IsCall

LEMMA ItemStored ==
  ASSUME NEW it, IsItem(it), NEW n, NEW r, r = Buy!Stored(it, n)
  PROVE  IsItem(r) /\ r.status = "stored" /\ r.line = "purchased" /\ r.advice = it.advice
         /\ r.supplier = it.supplier
<1> DEFINE owed == IF it.supplier = Nobody THEN 0 ELSE n
<1>1. r = [it EXCEPT !.status = "stored", !.line = "purchased", !.stocked = n, !.left = owed]
  BY DEF Buy!Stored
<1> HIDE DEF owed
<1> QED BY <1>1 DEF IsItem

LEMMA ItemNew ==
  ASSUME NEW n, NEW S
  PROVE  LET r == Buy!NewItem(n, S) IN
              IsItem(r) /\ r.status = "draft" /\ r.line = "pending" /\ r.advice = S
              /\ r.supplier = Nobody /\ r.left = 0
  BY DEF IsItem, Buy!NewItem

-----------------------------------------------------------------------------
(* A sequence of anything.                                                 *)
IsSeq(s) == s \in Seq({s[i] : i \in DOMAIN s})

LEMMA SeqOwn == ASSUME NEW R, NEW s \in Seq(R) PROVE IsSeq(s)
<1>1. DOMAIN s = 1 .. Len(s) /\ Len(s) \in Nat /\ s = [i \in 1 .. Len(s) |-> s[i]]
  OBVIOUS
<1>2. \A i \in 1 .. Len(s) : s[i] \in {s[j] : j \in DOMAIN s}
  BY <1>1
<1> QED BY <1>1, <1>2 DEF IsSeq

LEMMA SeqSet ==
  ASSUME NEW s, IsSeq(s), NEW i \in DOMAIN s, NEW x
  PROVE  LET r == [s EXCEPT ![i] = x] IN
           /\ IsSeq(r) /\ DOMAIN r = DOMAIN s /\ Len(r) = Len(s)
           /\ r[i] = x /\ \A j \in DOMAIN s \ {i} : r[j] = s[j]
<1> DEFINE R == {s[j] : j \in DOMAIN s}
           r == [s EXCEPT ![i] = x]
<1>1. s \in Seq(R \cup {x})
  BY DEF IsSeq
<1>2. r \in Seq(R \cup {x}) /\ DOMAIN r = DOMAIN s /\ Len(r) = Len(s)
  BY <1>1
<1>3. IsSeq(r)
  BY <1>2, SeqOwn
<1>4. r[i] = x /\ \A j \in DOMAIN s \ {i} : r[j] = s[j]
  BY <1>1
<1> QED BY <1>2, <1>3, <1>4

LEMMA SeqAdd ==
  ASSUME NEW s, IsSeq(s), NEW x
  PROVE  LET r == Append(s, x) IN
           /\ IsSeq(r) /\ DOMAIN r = DOMAIN s \cup {Len(s) + 1} /\ Len(r) = Len(s) + 1
           /\ Len(s) \in Nat /\ DOMAIN s = 1 .. Len(s)
           /\ r[Len(s) + 1] = x /\ \A j \in DOMAIN s : r[j] = s[j]
<1> DEFINE R == {s[j] : j \in DOMAIN s} \cup {x}
           r == Append(s, x)
<1>1. s \in Seq(R)
  BY DEF IsSeq
<1> HIDE DEF R
<1>2. /\ r \in Seq(R) /\ DOMAIN r = DOMAIN s \cup {Len(s) + 1} /\ Len(r) = Len(s) + 1
      /\ Len(s) \in Nat /\ DOMAIN s = 1 .. Len(s)
  BY <1>1 DEF R
<1>3. IsSeq(r)
  BY <1>2, SeqOwn
<1>4. r[Len(s) + 1] = x /\ \A j \in DOMAIN s : r[j] = s[j]
  BY <1>1 DEF R
<1> QED BY <1>2, <1>3, <1>4

-----------------------------------------------------------------------------
(* In stock for good: a line that was bought, or brought back since.       *)
Settles(it) == it.status = "stored" /\ (it.line = "purchased" \/ "return" \in used)

SettledRows == {i \in DOMAIN items : Settles(items[i])}

Right(it) ==
  /\ IsItem(it)
  /\ it.line = "purchased" => it.status = "stored"
  /\ it.left > 0 => Settles(it)

ItemsRight == IsSeq(items) /\ \A i \in DOMAIN items : Right(items[i])

(* What a change of an item may do.                                        *)
May(old, it) ==
  /\ Right(it)
  /\ old.advice \subseteq it.advice
  /\ Settles(old) => /\ Settles(it)
                     /\ it.supplier = old.supplier \/ {"supplier", "return"} \subseteq used

Keeps ==
  /\ DOMAIN items \subseteq DOMAIN items' /\ Len(items) <= Len(items')
  /\ \A i \in DOMAIN items :
       /\ items[i].advice \subseteq items'[i].advice
       /\ Settles(items[i]) =>
            /\ Settles(items'[i])
            /\ items'[i].supplier = items[i].supplier \/ {"supplier", "return"} \subseteq used

LEMMA ItemsKept ==
  ASSUME ItemsRight, UNCHANGED <<items, used>>
  PROVE  ItemsRight' /\ Keeps
<1>1. IsSeq(items) /\ \A i \in DOMAIN items : Right(items[i])
  BY DEF ItemsRight
<1>2. Len(items) \in Nat
  BY <1>1 DEF IsSeq
<1>3. ItemsRight'
  BY DEF ItemsRight, IsSeq, Right, IsItem, Settles
<1> QED BY <1>2, <1>3 DEF Keeps

LEMMA ItemChanged ==
  ASSUME ItemsRight, NEW i \in DOMAIN items, NEW it, May(items[i], it),
         items' = [items EXCEPT ![i] = it], UNCHANGED used
  PROVE  ItemsRight' /\ Keeps
<1>1. IsSeq(items) /\ \A j \in DOMAIN items : Right(items[j])
  BY DEF ItemsRight
<1>2. /\ IsSeq(items') /\ DOMAIN items' = DOMAIN items /\ Len(items') = Len(items)
      /\ items'[i] = it /\ \A j \in DOMAIN items \ {i} : items'[j] = items[j]
  BY <1>1, SeqSet
<1>3. Len(items) \in Nat
  BY <1>1 DEF IsSeq
<1>4. \A j \in DOMAIN items : Right(items'[j])
  BY <1>1, <1>2 DEF May
<1>5. ItemsRight'
  BY <1>2, <1>4 DEF ItemsRight, Right, Settles, IsSeq, IsItem
<1> QED BY <1>2, <1>3, <1>5 DEF Keeps, May

LEMMA ItemAdded ==
  ASSUME ItemsRight, NEW it, Right(it), items' = Append(items, it), UNCHANGED used
  PROVE  ItemsRight' /\ Keeps
<1>1. IsSeq(items) /\ \A j \in DOMAIN items : Right(items[j])
  BY DEF ItemsRight
<1>2. /\ IsSeq(items') /\ DOMAIN items' = DOMAIN items \cup {Len(items) + 1}
      /\ Len(items') = Len(items) + 1 /\ Len(items) \in Nat
      /\ items'[Len(items) + 1] = it /\ \A j \in DOMAIN items : items'[j] = items[j]
  BY <1>1, SeqAdd
<1>4. \A j \in DOMAIN items' : Right(items'[j])
  BY <1>1, <1>2
<1>5. ItemsRight'
  BY <1>2, <1>4 DEF ItemsRight, Right, Settles, IsSeq, IsItem
<1>6. Len(items) <= Len(items')
  BY <1>2
<1> QED BY <1>1, <1>2, <1>5, <1>6 DEF Keeps

-----------------------------------------------------------------------------
(* What the server does to one item.                                       *)
LEMMA LineMay ==
  ASSUME ItemsRight, NEW i \in 0 .. Len(items), NEW n, NEW S, Buy!NewLine(i, n, S), UNCHANGED used
  PROVE  /\ ItemsRight' /\ Keeps
         /\ \E j \in DOMAIN items' : S \subseteq items'[j].advice
<1>0. IsSeq(items) /\ \A j \in DOMAIN items : Right(items[j])
  BY DEF ItemsRight
<1>1. CASE i \in Buy!OpenLists
  <2> DEFINE new == Buy!NewItem(n, items[i].advice \cup S)
             it == [new EXCEPT !.status = items[i].status]
  <2>1. i \in DOMAIN items /\ items[i].status # "stored"
    BY <1>1 DEF Buy!OpenLists
  <2>2. items' = [items EXCEPT ![i] = it]
    BY <1>1, <2>1 DEF Buy!NewLine
  <2>3. /\ IsItem(new) /\ new.line = "pending"
        /\ new.advice = items[i].advice \cup S /\ new.left = 0
    BY ItemNew
  <2> HIDE DEF new
  <2>4. /\ IsItem(it) /\ it.status = items[i].status /\ it.line = "pending"
        /\ it.advice = items[i].advice \cup S /\ it.left = 0
    <3>1. it = [new EXCEPT !.status = items[i].status]
      OBVIOUS
    <3> HIDE DEF it
    <3> QED BY <2>3, <3>1, ItemStatus
  <2> HIDE DEF it
  <2>5. May(items[i], it)
    BY <2>1, <2>4 DEF May, Right, Settles
  <2>6. ItemsRight' /\ Keeps
    BY <2>1, <2>2, <2>5, ItemChanged
  <2>7. i \in DOMAIN items' /\ items'[i] = it
    BY <2>1, <2>2, <1>0, SeqSet
  <2> QED BY <2>4, <2>6, <2>7
<1>2. CASE i \notin Buy!OpenLists
  <2> DEFINE new == Buy!NewItem(n, S)
             of == [new EXCEPT !.status = items[i].status]
  <2>1. PICK it : it \in {new, of} /\ items' = Append(items, it)
    BY <1>2 DEF Buy!NewLine
  <2>2. IsItem(new) /\ new.line = "pending" /\ new.advice = S /\ new.left = 0
    BY ItemNew
  <2> HIDE DEF new
  <2>3. IsItem(of) /\ of.line = "pending" /\ of.advice = S /\ of.left = 0
    <3>1. PICK x, y : x = items[i].status /\ y = [new EXCEPT !.status = x]
      OBVIOUS
    <3>2. IsItem(y) /\ y.line = new.line /\ y.advice = new.advice /\ y.left = new.left
      BY <2>2, <3>1, ItemStatus
    <3> QED BY <2>2, <3>1, <3>2
  <2> HIDE DEF of
  <2>4. Right(it) /\ it.advice = S
    BY <2>1, <2>2, <2>3 DEF Right
  <2>5. ItemsRight' /\ Keeps
    BY <2>1, <2>4, ItemAdded
  <2>6. Len(items) + 1 \in DOMAIN items' /\ items'[Len(items) + 1] = it
    BY <2>1, <1>0, SeqAdd
  <2> QED BY <2>4, <2>5, <2>6
<1> QED BY <1>1, <1>2

LEMMA AddMay ==
  ASSUME ItemsRight, NEW i \in 0 .. Len(items), NEW n, NEW S, Buy!AddTo(i, n, S), UNCHANGED used
  PROVE  /\ ItemsRight' /\ Keeps
         /\ \E j \in DOMAIN items' : S \subseteq items'[j].advice
<1>0. IsSeq(items) /\ \A j \in DOMAIN items : Right(items[j])
  BY DEF ItemsRight
<1>1. CASE Buy!HasLine(i)
  <2> DEFINE it == [items[i] EXCEPT !.qty = @ + n, !.advice = @ \cup S]
  <2>1. i \in DOMAIN items
    BY <1>0, <1>1 DEF Buy!HasLine, IsSeq
  <2>2. items' = [items EXCEPT ![i].qty = @ + n, ![i].advice = @ \cup S]
    BY <1>1 DEF Buy!AddTo
  <2>3. IsItem(items[i])
    BY <1>0, <2>1 DEF Right
  <2>4. items' = [items EXCEPT ![i] = it]
    BY <2>1, <2>2, <2>3 DEF IsItem
  <2>a. it = [items[i] EXCEPT !.qty = items[i].qty + n, !.advice = items[i].advice \cup S]
    BY <2>3 DEF IsItem
  <2>5. /\ IsItem(it) /\ it.status = items[i].status /\ it.line = items[i].line
        /\ it.advice = items[i].advice \cup S /\ it.left = items[i].left
        /\ it.supplier = items[i].supplier
    <3> DEFINE old == items[i]
               n2 == old.qty + n
               S2 == old.advice \cup S
    <3>1. IsItem(old) /\ it = [old EXCEPT !.qty = n2, !.advice = S2]
      BY <2>a, <2>3
    <3>2. old = items[i] /\ S2 = items[i].advice \cup S
      OBVIOUS
    <3> HIDE DEF it, old, n2, S2
    <3> QED BY <3>1, <3>2 DEF IsItem
  <2> HIDE DEF it
  <2>6. May(items[i], it)
    BY <2>5, <2>1, <1>0 DEF May, Right, Settles
  <2>7. ItemsRight' /\ Keeps
    BY <2>1, <2>4, <2>6, ItemChanged
  <2>8. i \in DOMAIN items' /\ items'[i] = it
    BY <2>1, <2>4, <1>0, SeqSet
  <2> QED BY <2>5, <2>7, <2>8
<1>2. CASE ~Buy!HasLine(i)
  BY <1>2, LineMay DEF Buy!AddTo
<1> QED BY <1>1, <1>2

LEMMA ReturnMay ==
  ASSUME ItemsRight, NEW i \in DOMAIN items, NEW q, Buy!Return(i, q), "return" \in used
  PROVE  \E it : May(items[i], it) /\ items' = [items EXCEPT ![i] = it]
<1>1. IsItem(items[i]) /\ items[i].line = "purchased" /\ items[i].status = "stored"
  BY DEF ItemsRight, Right, Buy!Return
<1>2. PICK a, b, c, d :
        items' = [items EXCEPT ![i] = [items[i] EXCEPT !.returned = a, !.line = b, !.left = c, !.over = d]]
  BY DEF Buy!Return, Buy!Change
<1> DEFINE it == [items[i] EXCEPT !.returned = a, !.line = b, !.left = c, !.over = d]
<1>3. /\ IsItem(it) /\ it.status = "stored" /\ it.advice = items[i].advice
      /\ it.supplier = items[i].supplier
  <2>1. it = [items[i] EXCEPT !.returned = a, !.line = b, !.left = c, !.over = d]
    OBVIOUS
  <2> HIDE DEF it
  <2> DEFINE old == items[i]
  <2>2. IsItem(old) /\ it = [old EXCEPT !.returned = a, !.line = b, !.left = c, !.over = d]
    BY <1>1, <2>1
  <2>3. old = items[i] /\ old.status = "stored"
    BY <1>1
  <2> HIDE DEF old
  <2> QED BY <2>2, <2>3 DEF IsItem
<1>4. items' = [items EXCEPT ![i] = it]
  BY <1>2
<1> HIDE DEF it
<1>5. May(items[i], it)
  BY <1>1, <1>3 DEF May, Right, Settles
<1> QED BY <1>4, <1>5

(* The kinds that change one item, whatever they carry.                    *)
OneItem == {"order", "save", "cancel", "supplier", "purchase", "accept", "confirm_acceptance", "return"}

LEMMA OkMay ==
  ASSUME ItemsRight, NEW c, c.kind \in OneItem, c.of \in DOMAIN items, Buy!Ok(c),
         c.kind \in used \/ c.kind = "confirm_acceptance"
  PROVE  UNCHANGED payments /\ \E it : May(items[c.of], it) /\ items' = [items EXCEPT ![c.of] = it]
<1> DEFINE it == items[c.of]
           q == Buy!Only(c.with)
<1>1. Right(it) /\ IsItem(it)
  BY DEF ItemsRight, Right
<1>2. CASE c.kind = "order"
  <2>1. it.status = "draft" /\ Buy!Change(c.of, [it EXCEPT !.status = "confirmed"])
    BY <1>2 DEF Buy!Ok
  <2> DEFINE new == [it EXCEPT !.status = "confirmed"]
  <2>3. /\ IsItem(new) /\ new.status = "confirmed" /\ new.line = it.line
        /\ new.advice = it.advice /\ new.left = it.left
    BY <1>1, ItemStatus
  <2> HIDE DEF new
  <2>2. May(it, new)
    BY <1>1, <2>1, <2>3 DEF May, Right, Settles
  <2> QED BY <2>1, <2>2 DEF Buy!Change, new
<1>3. CASE c.kind = "save"
  <2> DEFINE new == [it EXCEPT !.qty = q]
  <2>1. it.line # "purchased" /\ Buy!Change(c.of, new)
    BY <1>3 DEF Buy!Ok
  <2>2. IsItem(new) /\ \A f \in {"status", "line", "advice", "supplier", "left"} : new[f] = it[f]
    BY <1>1 DEF IsItem
  <2>3. /\ new.status = it.status /\ new.line = it.line /\ new.advice = it.advice
        /\ new.supplier = it.supplier /\ new.left = it.left
    BY <1>1 DEF IsItem
  <2> HIDE DEF new
  <2>4. May(it, new)
    BY <1>1, <2>2, <2>3 DEF May, Right, Settles
  <2> QED BY <2>1, <2>4 DEF Buy!Change
<1>4. CASE c.kind = "supplier"
  <2> DEFINE new == [it EXCEPT !.supplier = q]
  <2>1. it.line # "purchased" /\ Buy!Change(c.of, new)
    BY <1>4 DEF Buy!Ok
  <2>3. /\ IsItem(new) /\ new.status = it.status /\ new.line = it.line /\ new.advice = it.advice
        /\ new.left = it.left
    BY <1>1 DEF IsItem
  <2> HIDE DEF new
  <2>4. May(it, new)
    BY <1>1, <1>4, <2>1, <2>3 DEF May, Right, Settles
  <2> QED BY <2>1, <2>4 DEF Buy!Change
<1>5. CASE c.kind = "cancel"
  <2> DEFINE new == [it EXCEPT !.line = "cancelled"]
  <2>1. it.line # "purchased" /\ Buy!Change(c.of, new)
    BY <1>5 DEF Buy!Ok
  <2>3. /\ IsItem(new) /\ new.status = it.status /\ new.line = "cancelled"
        /\ new.advice = it.advice /\ new.supplier = it.supplier /\ new.left = it.left
    BY <1>1 DEF IsItem
  <2> HIDE DEF new
  <2>4. May(it, new)
    BY <1>1, <2>1, <2>3 DEF May, Right, Settles
  <2> QED BY <2>1, <2>4 DEF Buy!Change
<1>6. CASE c.kind = "accept"
  <2> DEFINE new == [it EXCEPT !.accepted = q, !.status = "accepted"]
  <2>1. it.status # "stored" /\ Buy!Change(c.of, new)
    BY <1>6 DEF Buy!Ok, Buy!Open
  <2>3. /\ IsItem(new) /\ new.line = it.line /\ new.advice = it.advice /\ new.left = it.left
    <3>1. new = [it EXCEPT !.accepted = q, !.status = "accepted"]
      OBVIOUS
    <3> HIDE DEF new, it
    <3> QED BY <1>1, <3>1 DEF IsItem
  <2> HIDE DEF new
  <2>4. May(it, new)
    BY <1>1, <2>1, <2>3 DEF May, Right, Settles
  <2> QED BY <2>1, <2>4 DEF Buy!Change
<1>7. CASE c.kind = "confirm_acceptance"
  <2> DEFINE new == IF it.accepted = 0 THEN [it EXCEPT !.status = "stored"]
                                       ELSE Buy!Stored(it, Buy!Delivered(it))
  <2>1. it.status = "accepted" /\ Buy!Change(c.of, new)
    BY <1>7 DEF Buy!Ok
  <2>2. /\ IsItem(new) /\ new.status = "stored" /\ new.advice = it.advice
        /\ new.line = "purchased" \/ new.left = it.left
    <3> DEFINE r1 == [it EXCEPT !.status = "stored"]
               r2 == Buy!Stored(it, Buy!Delivered(it))
    <3>1. IsItem(r1) /\ r1.status = "stored" /\ r1.advice = it.advice /\ r1.left = it.left
      BY <1>1, ItemStatus
    <3>2. IsItem(r2) /\ r2.status = "stored" /\ r2.advice = it.advice /\ r2.line = "purchased"
      BY <1>1, ItemStored
    <3>3. new = r1 \/ new = r2
      OBVIOUS
    <3> HIDE DEF new, r1, r2
    <3> QED BY <3>1, <3>2, <3>3
  <2> HIDE DEF new
  <2>4. May(it, new)
    BY <1>1, <2>1, <2>2 DEF May, Right, Settles
  <2> QED BY <2>1, <2>4 DEF Buy!Change
<1>8. CASE c.kind = "purchase"
  <2> DEFINE new == IF it.line = "pending" THEN Buy!Stored(it, it.qty)
                                           ELSE [it EXCEPT !.status = "stored"]
  <2>1. it.status # "stored" /\ Buy!Change(c.of, new)
    BY <1>8 DEF Buy!Ok, Buy!Open
  <2>2. /\ IsItem(new) /\ new.status = "stored" /\ new.advice = it.advice
        /\ new.line = "purchased" \/ new.left = it.left
    <3> DEFINE r1 == [it EXCEPT !.status = "stored"]
               r2 == Buy!Stored(it, it.qty)
    <3>1. IsItem(r1) /\ r1.status = "stored" /\ r1.advice = it.advice /\ r1.left = it.left
      BY <1>1, ItemStatus
    <3>2. IsItem(r2) /\ r2.status = "stored" /\ r2.advice = it.advice /\ r2.line = "purchased"
      BY <1>1, ItemStored
    <3>3. new = r1 \/ new = r2
      OBVIOUS
    <3> HIDE DEF new, r1, r2
    <3> QED BY <3>1, <3>2, <3>3
  <2> HIDE DEF new
  <2>4. May(it, new)
    BY <1>1, <2>1, <2>2 DEF May, Right, Settles
  <2> QED BY <2>1, <2>4 DEF Buy!Change
<1>9. CASE c.kind = "return"
  <2>1. Buy!Return(c.of, q)
    BY <1>9 DEF Buy!Ok
  <2>2. UNCHANGED payments
    BY <2>1 DEF Buy!Return, Buy!Change
  <2> QED BY <1>9, <2>1, <2>2, ReturnMay
<1> QED
  BY <1>2, <1>3, <1>4, <1>5, <1>6, <1>7, <1>8, <1>9 DEF OneItem

-----------------------------------------------------------------------------
PayRow(p) == p.key = p.dialog /\ p.rows \subseteq SettledRows

PaymentsRight ==
  /\ \A p \in payments : PayRow(p) /\ \A i \in p.rows : items[i].supplier = p.to
  /\ \A p, q \in payments : p.key = q.key => p = q
  /\ payments # {} => "pay" \in used

(* A request under way: what it carries was on the page when it was sent.  *)
CallRight(c) ==
  /\ IsCall(c) /\ c.kind \in Kinds
  /\ c.kind \in used \cup {"load", "statement", "confirm_acceptance"}
  /\ c.of \in 0 .. Len(items)
  /\ c.kind \in OneItem => c.of # 0
  /\ c.kind = "import" =>
       /\ importing
       /\ c.at = "ok" => draft \subseteq c.with \cup Buy!Heeded
       /\ c.at \in {"out", "found"} => draft \subseteq c.with \cup overtaken
  /\ c.kind = "statement" /\ c.at = "ok" => c.with \subseteq SettledRows
  /\ c.kind = "pay" => \E p : c.with = {p} /\ PayRow(p)

OneImport == \A c, d \in posts : c.kind = "import" /\ d.kind = "import" => c = d

PageRight ==
  /\ view \in 0 .. Len(items) /\ back \in 0 .. Len(items)
  /\ IsPay(pay) /\ pay.rows \subseteq SettledRows

BuyInv ==
  /\ ItemsRight /\ PageRight /\ PaymentsRight /\ OneImport
  /\ \A c \in posts : CallRight(c)
  /\ Buy!AdviceIsKept
  /\ used \in Together

(* A returned item cannot be given another supplier where it is paid for.  *)
PaidStays == \A B \in Together : ~({"pay", "return", "supplier"} \subseteq B)

LEMMA RowsKept == ASSUME ItemsRight, Keeps, UNCHANGED used
                  PROVE  SettledRows \subseteq SettledRows' /\ Buy!Taken \subseteq Buy!Taken'
                         /\ 0 .. Len(items) \subseteq 0 .. Len(items')
<1>1. SettledRows \subseteq SettledRows'
  BY DEF Keeps, SettledRows, Settles
<1>2. Buy!Taken \subseteq Buy!Taken'
  BY DEF Keeps, Buy!Taken
<1>3. 0 .. Len(items) \subseteq 0 .. Len(items')
  <2>1. Len(items) \in Nat /\ Len(items) <= Len(items')
    BY DEF ItemsRight, IsSeq, Keeps
  <2> QED BY <2>1
<1> QED BY <1>1, <1>2, <1>3

LEMMA CallKept ==
  ASSUME ItemsRight, Keeps, NEW c, CallRight(c),
         skipped \subseteq skipped', UNCHANGED <<used, importing, draft, overtaken, named>>
  PROVE  CallRight(c)'
<1>1. SettledRows \subseteq SettledRows' /\ Buy!Heeded \subseteq Buy!Heeded'
      /\ 0 .. Len(items) \subseteq 0 .. Len(items')
  BY RowsKept DEF Buy!Heeded
<1>2. c.kind = "pay" => \E p : c.with = {p} /\ PayRow(p)'
  BY <1>1 DEF CallRight, PayRow
<1> QED BY <1>1, <1>2 DEF CallRight, IsCall

LEMMA PaymentsKept ==
  ASSUME PaidStays, BuyInv, Keeps, UNCHANGED <<used, payments>>
  PROVE  PaymentsRight'
<1>1. SettledRows \subseteq SettledRows'
  BY RowsKept DEF BuyInv
<1>2. ASSUME NEW p \in payments PROVE PayRow(p)' /\ \A i \in p.rows : items'[i].supplier = p.to
  <2>1. PayRow(p) /\ \A i \in p.rows : items[i].supplier = p.to
    BY DEF BuyInv, PaymentsRight
  <2>2. ~({"supplier", "return"} \subseteq used)
    BY DEF BuyInv, PaymentsRight, PaidStays
  <2>3. \A i \in p.rows : i \in DOMAIN items /\ Settles(items[i])
    BY <2>1 DEF PayRow, SettledRows
  <2> QED BY <1>1, <2>1, <2>2, <2>3 DEF PayRow, Keeps
<1> QED BY <1>2 DEF BuyInv, PaymentsRight

(* A payment settles rows of the supplier it names, and nothing else.      *)
LEMMA PayKeeps ==
  ASSUME PaidStays, BuyInv, NEW p, PayRow(p), Buy!Pay(p), "pay" \in used, UNCHANGED used
  PROVE  ItemsRight' /\ Keeps /\ PaymentsRight'
<1>0. ItemsRight /\ PaymentsRight
  BY DEF BuyInv
<1>1. CASE UNCHANGED <<items, payments>>
  BY <1>0, <1>1, ItemsKept, PaymentsKept
<1>2. ASSUME \A q \in payments : q.key # p.key, Buy!MayPay(p), payments' = payments \cup {p},
             items' = [i \in DOMAIN items |->
                        IF i \in p.rows
                        THEN [items[i] EXCEPT !.left = @ - Buy!Settled(p.rows, p.amount, i)]
                        ELSE items[i]]
      PROVE  ItemsRight' /\ Keeps /\ PaymentsRight'
  <2>1. IsSeq(items) /\ \A i \in DOMAIN items : Right(items[i])
    BY <1>0 DEF ItemsRight
  <2>2. DOMAIN items' = DOMAIN items /\ DOMAIN items = 1 .. Len(items) /\ Len(items) \in Nat
    BY <1>2, <2>1 DEF IsSeq
  <2>3. ASSUME NEW i \in DOMAIN items
        PROVE  /\ Right(items'[i]) /\ items'[i].advice = items[i].advice
               /\ items'[i].supplier = items[i].supplier
               /\ Settles(items[i]) => Settles(items'[i])
    <3>1. CASE i \notin p.rows
      BY <1>2, <2>1, <3>1
    <3>2. CASE i \in p.rows
      <4> DEFINE old == items[i]
                 owed == items[i].left - Buy!Settled(p.rows, p.amount, i)
                 new == items'[i]
      <4>1. new = [old EXCEPT !.left = owed]
        BY <1>2, <3>2
      <4>2. IsItem(old) /\ Right(old) /\ Settles(old)
        BY <2>1, <3>2 DEF PayRow, SettledRows, Right
      <4> HIDE DEF old, owed, new
      <4>3. /\ IsItem(new) /\ new.status = old.status /\ new.line = old.line
            /\ new.advice = old.advice /\ new.supplier = old.supplier
        BY <4>1, <4>2 DEF IsItem
      <4>4. Right(new) /\ Settles(new)
        BY <4>2, <4>3 DEF Right, Settles
      <4> QED BY <4>3, <4>4 DEF old, new
    <3> QED BY <3>1, <3>2
  <2>4. IsSeq(items')
    <3> DEFINE n == Len(items)
               f == [i \in 1 .. n |-> items'[i]]
               R == {items'[i] : i \in 1 .. n}
    <3>1. items' = f /\ n \in Nat
      BY <1>2, <2>2
    <3>2. \A i \in 1 .. n : items'[i] \in R
      OBVIOUS
    <3> HIDE DEF R
    <3>3. f \in Seq(R)
      BY <3>1, <3>2
    <3>4. items' \in Seq(R)
      BY <3>1, <3>3
    <3> QED BY <3>4, SeqOwn
  <2>5. Len(items') = Len(items)
    BY <2>2, <2>4 DEF IsSeq
  <2>6. ItemsRight'
    BY <2>2, <2>3, <2>4 DEF ItemsRight, Right, Settles, IsSeq, IsItem
  <2>7. Keeps
    BY <2>2, <2>3, <2>5 DEF Keeps
  <2>8. SettledRows \subseteq SettledRows'
    BY <1>0, <2>7, RowsKept
  <2>9. ASSUME NEW q \in payments'
        PROVE  PayRow(q)' /\ \A i \in q.rows : items'[i].supplier = q.to
    <3>1. PayRow(q) /\ \A i \in q.rows : items[i].supplier = q.to
      BY <1>0, <1>2 DEF PaymentsRight, Buy!MayPay
    <3>2. q.rows \subseteq DOMAIN items
      BY <3>1 DEF PayRow, SettledRows
    <3> QED BY <2>3, <2>8, <3>1, <3>2 DEF PayRow
  <2>10. \A q, r \in payments' : q.key = r.key => q = r
    BY <1>0, <1>2 DEF PaymentsRight
  <2> QED BY <2>6, <2>7, <2>9, <2>10 DEF PaymentsRight
<1> QED BY <1>1, <1>2 DEF Buy!Pay, Buy!server

-----------------------------------------------------------------------------
(* A call gets an answer: the others and the page stay.                    *)
LEMMA CallAnswered ==
  ASSUME PaidStays, BuyInv, ItemsRight', Keeps, PaymentsRight',
         NEW c \in posts, NEW d, CallRight(d)', d.kind = c.kind,
         posts' = (posts \ {c}) \cup {d}, skipped \subseteq skipped',
         UNCHANGED <<draft, importing, ordering, view, accepting, pay, back,
                     noted, overtaken, named, used>>
  PROVE  BuyInv'
<1>1. /\ SettledRows \subseteq SettledRows' /\ Buy!Heeded \subseteq Buy!Heeded'
      /\ 0 .. Len(items) \subseteq 0 .. Len(items')
  BY RowsKept DEF BuyInv, Buy!Heeded
<1>2. \A e \in posts : CallRight(e)'
  BY CallKept DEF BuyInv
<1>3. PageRight'
  BY <1>1 DEF BuyInv, PageRight, IsPay
<1>4. OneImport'
  BY DEF BuyInv, OneImport
<1>5. Buy!AdviceIsKept'
  BY <1>1 DEF BuyInv, Buy!AdviceIsKept
<1> QED BY <1>2, <1>3, <1>4, <1>5 DEF BuyInv

(* The list found gets what was sent; advice it leaves out is answered, or *)
(* counted among what was bought already.                                  *)
LEMMA ListStep ==
  ASSUME PaidStays, BuyInv, NEW c \in posts, Buy!Book(c),
         UNCHANGED <<draft, importing, ordering, view, accepting, pay, back,
                     noted, overtaken, named, used>>
  PROVE  BuyInv'
<1>0. /\ CallRight(c) /\ IsCall(c) /\ ItemsRight /\ PaymentsRight
      /\ c.of \in 0 .. Len(items) /\ UNCHANGED payments
  BY DEF BuyInv, CallRight, Buy!Book
<1>1. CASE c.kind = "import"
  <2>b. PICK missing \in SUBSET c.with : Buy!Import(c, missing)
    BY <1>1 DEF Buy!Book
  <2> DEFINE S == c.with \ missing
  <2>1. /\ IF Buy!HasLine(c.of) /\ items[c.of].line = "purchased"
           THEN skipped' = skipped \cup S /\ UNCHANGED items
           ELSE (\E n : Buy!AddTo(c.of, n, S)) /\ UNCHANGED skipped
        /\ posts' = (posts \ {c}) \cup {[c EXCEPT !.at = "ok", !.with = missing]}
    BY <2>b DEF Buy!Import
  <2>a. PICK d : d = [c EXCEPT !.at = "ok", !.with = missing]
    OBVIOUS
  <2>2. IsCall(d) /\ d.kind = "import" /\ d.of = c.of /\ d.with = missing /\ d.at = "ok"
    BY <1>0, <1>1, <2>a DEF IsCall
  <2>3. /\ ItemsRight' /\ Keeps /\ skipped \subseteq skipped'
        /\ S \subseteq Buy!Taken' \cup skipped'
    <3>1. CASE skipped' = skipped \cup S /\ UNCHANGED items
      BY <1>0, <3>1, ItemsKept
    <3>2. ASSUME NEW n, Buy!AddTo(c.of, n, S), UNCHANGED skipped
          PROVE  /\ ItemsRight' /\ Keeps /\ skipped \subseteq skipped'
                 /\ S \subseteq Buy!Taken' \cup skipped'
      <4>1. /\ ItemsRight' /\ Keeps
            /\ \E j \in DOMAIN items' : S \subseteq items'[j].advice
        BY <1>0, <3>2, AddMay
      <4> QED BY <3>2, <4>1 DEF Buy!Taken
    <3> QED BY <2>1, <3>1, <3>2
  <2>4. PaymentsRight'
    BY <1>0, <2>3, PaymentsKept
  <2>5. CallRight(c)' /\ draft \subseteq c.with \cup overtaken
    BY <1>0, <1>1, <2>3, CallKept DEF CallRight, Buy!Book
  <2>6. draft' \subseteq missing \cup Buy!Heeded'
    BY <2>3, <2>5 DEF Buy!Heeded
  <2>7. CallRight(d)'
    BY <1>1, <2>2, <2>5, <2>6 DEF CallRight, OneItem, IsCall
  <2>8. posts' = (posts \ {c}) \cup {d} /\ d.kind = c.kind
    BY <1>1, <2>1, <2>2, <2>a
  <2> QED BY <2>3, <2>4, <2>7, <2>8, CallAnswered
<1>2. CASE c.kind # "import"
  <2> DEFINE d == [c EXCEPT !.at = "ok"]
  <2>1. IsCall(d) /\ d.kind = c.kind /\ d.of = c.of /\ d.with = c.with /\ d.at = "ok"
    BY <1>0, CallSet
  <2>2. posts' = (posts \ {c}) \cup {d} /\ UNCHANGED skipped
    BY <1>2 DEF Buy!Book, Buy!AddOne, Buy!Answer
  <2> HIDE DEF d
  <2>3. UNCHANGED items \/ Buy!AddTo(c.of, 1, {})
    BY <1>2 DEF Buy!Book, Buy!AddOne
  <2>4. ItemsRight' /\ Keeps
    BY <1>0, <2>3, ItemsKept, AddMay
  <2>5. PaymentsRight'
    BY <1>0, <2>4, PaymentsKept
  <2>6. CallRight(c)' /\ c.kind # "statement" /\ c.kind # "pay"
    <3>1. CallRight(c)'
      BY <1>0, <2>2, <2>4, CallKept
    <3>2. c.kind \in {"import", "manual", "generate"}
      BY DEF Buy!Book, Buy!Lists
    <3> QED BY <3>1, <3>2
  <2>7. CallRight(d)'
    BY <1>2, <2>1, <2>6 DEF CallRight, IsCall
  <2> QED BY <2>1, <2>2, <2>4, <2>5, <2>7, CallAnswered
<1> QED BY <1>1, <1>2

LEMMA ServeStep ==
  ASSUME PaidStays, BuyInv, NEW c \in posts, Buy!Serve(c)
  PROVE  BuyInv'
<1>0. CallRight(c) /\ IsCall(c) /\ ItemsRight /\ PaymentsRight
  BY DEF BuyInv, CallRight
<1>1. UNCHANGED <<draft, importing, ordering, view, accepting, pay, back,
                  noted, overtaken, named, used>>
  BY DEF Buy!Serve, Buy!page, Buy!ghost
<1>2. ASSUME UNCHANGED <<items, payments>> PROVE ItemsRight' /\ Keeps /\ PaymentsRight'
  BY <1>0, <1>1, <1>2, ItemsKept, PaymentsKept
<1>3. CASE /\ c.kind \notin Buy!Reads \cup Buy!Lists /\ Buy!Ok(c) /\ Buy!Answer(c, "ok")
           /\ UNCHANGED skipped
  <2> DEFINE d == [c EXCEPT !.at = "ok"]
  <2>1. IsCall(d) /\ d.kind = c.kind /\ d.of = c.of /\ d.with = c.with /\ d.at = "ok"
    BY <1>0, CallSet
  <2>2. posts' = (posts \ {c}) \cup {d}
    BY <1>3 DEF Buy!Answer
  <2> HIDE DEF d
  <2>3. c.kind \notin {"load", "statement", "import", "manual", "generate"}
    BY <1>3 DEF Buy!Reads, Buy!Lists
  <2>4. ItemsRight' /\ Keeps /\ PaymentsRight'
    <3>1. CASE c.kind \in OneItem
      <4>1. c.of \in DOMAIN items
        BY <1>0, <3>1 DEF CallRight, ItemsRight, IsSeq
      <4>2. c.kind \in used \/ c.kind = "confirm_acceptance"
        BY <1>0, <2>3 DEF CallRight
      <4>3. UNCHANGED payments /\ \E it : May(items[c.of], it) /\ items' = [items EXCEPT ![c.of] = it]
        BY <1>0, <1>3, <3>1, <4>1, <4>2, OkMay
      <4>4. ItemsRight' /\ Keeps
        BY <1>0, <1>1, <4>1, <4>3, ItemChanged
      <4>5. PaymentsRight'
        BY <1>1, <4>3, <4>4, PaymentsKept
      <4> QED BY <3>1, <4>4, <4>5 DEF OneItem
    <3>2. CASE c.kind = "pay"
      <4>1. PICK p : c.with = {p} /\ PayRow(p)
        BY <1>0, <3>2 DEF CallRight
      <4>2. Buy!Pay(p) /\ "pay" \in used
        BY <1>0, <1>3, <3>2, <4>1, OnlyOne DEF Buy!Ok, CallRight
      <4> QED BY <1>1, <3>2, <4>1, <4>2, PayKeeps
    <3> QED BY <1>0, <2>3, <3>1, <3>2 DEF CallRight, Kinds, OneItem
  <2>5. CallRight(c)'
    BY <1>0, <1>1, <1>3, <2>4, CallKept
  <2>6. CallRight(d)'
    BY <2>1, <2>3, <2>4, <2>5 DEF CallRight, IsCall
  <2> QED BY <1>1, <1>3, <2>1, <2>2, <2>4, <2>6, CallAnswered
<1>4. CASE /\ c.kind \notin Buy!Reads /\ Buy!Answer(c, "refused") /\ c.at = "out"
           /\ UNCHANGED <<items, payments, skipped>>
  <2> DEFINE d == [c EXCEPT !.at = "refused"]
  <2>1. IsCall(d) /\ d.kind = c.kind /\ d.of = c.of /\ d.with = c.with /\ d.at = "refused"
    BY <1>0, CallSet
  <2>2. posts' = (posts \ {c}) \cup {d}
    BY <1>4 DEF Buy!Answer
  <2> HIDE DEF d
  <2>3. ItemsRight' /\ Keeps /\ PaymentsRight'
    BY <1>2, <1>4
  <2>4. CallRight(c)'
    BY <1>0, <1>1, <1>4, <2>3, CallKept
  <2>5. CallRight(d)'
    BY <1>4, <2>1, <2>4 DEF CallRight, IsCall
  <2> QED BY <1>1, <1>4, <2>1, <2>2, <2>3, <2>5, CallAnswered
<1>5. CASE /\ c.kind = "load" /\ UNCHANGED <<items, payments, skipped>>
           /\ posts' = (posts \ {c}) \cup {[c EXCEPT !.at = "ok", !.of = Len(items)]}
  <2>0. PICK n, d : n = Len(items) /\ d = [c EXCEPT !.at = "ok", !.of = n]
    OBVIOUS
  <2>1. IsCall(d) /\ d.kind = "load" /\ d.of = n
    BY <1>0, <1>5, <2>0 DEF IsCall
  <2>2. posts' = (posts \ {c}) \cup {d} /\ n = Len(items')
    BY <1>5, <2>0
  <2>3. n \in Nat
    BY <1>0, <2>0 DEF ItemsRight, IsSeq
  <2>4. ItemsRight' /\ Keeps /\ PaymentsRight'
    BY <1>2, <1>5
  <2>5. CallRight(d)'
    BY <2>1, <2>2, <2>3 DEF CallRight, Kinds, OneItem, IsCall
  <2> QED BY <1>1, <1>5, <2>1, <2>2, <2>4, <2>5, CallAnswered
<1>6. CASE /\ c.kind = "statement" /\ UNCHANGED <<items, payments, skipped>>
           /\ posts' = (posts \ {c})
                        \cup {[c EXCEPT !.at = "ok", !.with = Buy!Rows(Buy!Only(c.with))]}
  <2>0. PICK S, d : S = Buy!Rows(Buy!Only(c.with)) /\ d = [c EXCEPT !.at = "ok", !.with = S]
    OBVIOUS
  <2>1. IsCall(d) /\ d.kind = "statement" /\ d.of = c.of /\ d.with = S
    BY <1>0, <1>6, <2>0 DEF IsCall
  <2>2. posts' = (posts \ {c}) \cup {d}
    BY <1>6, <2>0
  <2>3. S \subseteq SettledRows
    BY <1>0, <2>0 DEF Buy!Rows, ItemsRight, Right, SettledRows
  <2>4. ItemsRight' /\ Keeps /\ PaymentsRight'
    BY <1>2, <1>6
  <2>5. CallRight(c)' /\ SettledRows \subseteq SettledRows'
    BY <1>0, <1>1, <1>6, <2>4, CallKept, RowsKept
  <2>6. CallRight(d)'
    BY <1>6, <2>1, <2>3, <2>5 DEF CallRight, Kinds, OneItem, IsCall
  <2> QED BY <1>1, <1>6, <2>1, <2>2, <2>4, <2>6, CallAnswered
<1>7. CASE Buy!Find(c) /\ UNCHANGED skipped
  <2>1. PICK i, d : /\ i \in DOMAIN items \cup {0} /\ d = [c EXCEPT !.at = "found", !.of = i]
                    /\ posts' = (posts \ {c}) \cup {d}
    BY <1>7 DEF Buy!Find, Buy!OpenLists
  <2>2. IsCall(d) /\ d.kind = c.kind /\ d.of = i /\ d.with = c.with /\ d.at = "found"
    BY <1>0, <2>1 DEF IsCall
  <2>3. ItemsRight' /\ Keeps /\ PaymentsRight' /\ UNCHANGED items
    BY <1>2, <1>7 DEF Buy!Find, Buy!server
  <2>4. CallRight(c)' /\ c.at = "out" /\ c.kind \in {"import", "manual", "generate"}
    BY <1>0, <1>1, <1>7, <2>3, CallKept DEF Buy!Find, Buy!Lists
  <2>5. i \in 0 .. Len(items)
    BY <1>0, <2>1 DEF ItemsRight, IsSeq
  <2>6. CallRight(d)'
    BY <2>2, <2>3, <2>4, <2>5 DEF CallRight, OneItem, IsCall
  <2> QED BY <1>1, <1>7, <2>1, <2>2, <2>3, <2>6, CallAnswered
<1>8. CASE Buy!Book(c)
  BY <1>1, <1>8, ListStep
<1> QED
  BY <1>3, <1>4, <1>5, <1>6, <1>7, <1>8 DEF Buy!Serve, Buy!server, Buy!ghost

LEMMA LoseStep ==
  ASSUME PaidStays, BuyInv, NEW c \in posts, Buy!Lose(c)
  PROVE  BuyInv'
<1>0. CallRight(c) /\ IsCall(c) /\ ItemsRight /\ PaymentsRight
  BY DEF BuyInv, CallRight
<1>1. UNCHANGED <<draft, importing, ordering, view, accepting, pay, back,
                  noted, overtaken, named, skipped, used, items, payments>>
  BY DEF Buy!Lose, Buy!page, Buy!ghost, Buy!server
<1>2. ItemsRight' /\ Keeps /\ PaymentsRight'
  BY <1>0, <1>1, ItemsKept, PaymentsKept
<1> DEFINE d == [c EXCEPT !.at = "lost"]
<1>3. IsCall(d) /\ d.kind = c.kind /\ d.of = c.of /\ d.with = c.with /\ d.at = "lost"
  BY <1>0, CallSet
<1>4. posts' = (posts \ {c}) \cup {d}
  BY DEF Buy!Lose, Buy!Answer
<1> HIDE DEF d
<1>5. CallRight(c)'
  BY <1>0, <1>1, <1>2, CallKept
<1>6. CallRight(d)'
  BY <1>0, <1>3, <1>5, <1>1 DEF CallRight, IsCall, Buy!Heeded
<1> QED BY <1>1, <1>2, <1>3, <1>4, <1>6, CallAnswered

-----------------------------------------------------------------------------
(* The page works while the server's tables stay as they are.              *)
Kept == UNCHANGED <<items, payments, used>>

LEMMA PageMoves ==
  ASSUME PaidStays, BuyInv, Kept, PageRight', OneImport', Buy!AdviceIsKept',
         \A c \in posts' : CallRight(c)'
  PROVE  BuyInv'
<1>1. ItemsRight' /\ PaymentsRight'
  BY ItemsKept, PaymentsKept DEF BuyInv, Kept
<1> QED BY <1>1 DEF BuyInv, Kept

LEMMA CallStays ==
  ASSUME BuyInv, Kept, NEW c, CallRight(c),
         c.kind = "import" => (importing => importing') /\ UNCHANGED <<draft, overtaken, named, skipped>>
  PROVE  CallRight(c)'
<1>1. Buy!Taken' = Buy!Taken /\ SettledRows' = SettledRows
  BY DEF Kept, Buy!Taken, SettledRows, Settles
<1>2. c.kind = "pay" => \E p : c.with = {p} /\ PayRow(p)'
  BY <1>1 DEF CallRight, PayRow
<1> QED BY <1>1, <1>2 DEF CallRight, IsCall, Kept, Buy!Heeded

LEMMA CallNew ==
  ASSUME NEW kind, NEW of, NEW with
  PROVE  LET c == Buy!Call(kind, of, with) IN
           IsCall(c) /\ c.kind = kind /\ c.of = of /\ c.with = with /\ c.at = "out"
  BY DEF Buy!Call, IsCall

LEMMA PageKept ==
  ASSUME BuyInv, Kept, UNCHANGED <<view, back, pay>>
  PROVE  PageRight'
  BY DEF BuyInv, PageRight, Kept, IsPay, SettledRows, Settles

LEMMA AdviceKept ==
  ASSUME BuyInv, Kept, UNCHANGED <<noted, draft, overtaken, named, skipped>>
  PROVE  Buy!AdviceIsKept'
  BY DEF BuyInv, Buy!AdviceIsKept, Buy!Heeded, Buy!Taken, Kept

LEMMA Sends ==
  ASSUME PaidStays, BuyInv, Kept, PageRight',
         NEW kind \in Kinds \ {"import"}, NEW of \in 0 .. Len(items), NEW with,
         kind \in OneItem => of # 0,
         kind = "pay" => \E p : with = {p} /\ PayRow(p),
         Buy!Send(kind, of, with),
         UNCHANGED <<importing, draft, noted, overtaken, named, skipped>>
  PROVE  BuyInv'
<1> DEFINE c == Buy!Call(kind, of, with)
<1>1. IsCall(c) /\ c.kind = kind /\ c.of = of /\ c.with = with /\ c.at = "out"
  BY CallNew
<1>2. posts' = posts \cup {c} /\ kind \in used \cup {"load", "statement"}
  BY DEF Buy!Send
<1> HIDE DEF c
<1>3. CallRight(c)
  BY <1>1, <1>2 DEF CallRight
<1>4. \A d \in posts' : CallRight(d)'
  BY <1>2, <1>3, CallStays DEF BuyInv
<1>5. OneImport'
  BY <1>1, <1>2 DEF BuyInv, OneImport
<1>6. Buy!AdviceIsKept'
  BY AdviceKept
<1> QED BY <1>4, <1>5, <1>6, PageMoves

LEMMA Taps ==
  ASSUME PaidStays, BuyInv, NEW kind \in Kinds \ {"import", "pay"}, NEW with,
         Buy!OnList(kind, with)
  PROVE  BuyInv'
<1>1. /\ Kept /\ UNCHANGED <<draft, importing, view, pay, back, noted, overtaken, named, skipped>>
      /\ Buy!Send(kind, view, with) /\ view # 0
  BY DEF Buy!OnList, Buy!Guarded, Buy!PageKept, Kept, Buy!server, Buy!ghost
<1>2. view \in 0 .. Len(items) /\ PageRight'
  BY <1>1, PageKept DEF BuyInv, PageRight
<1> QED BY <1>1, <1>2, Sends

(* Only the page changes, and none of the advice.                          *)
LEMMA Quiet ==
  ASSUME PaidStays, BuyInv, Kept, PageRight', UNCHANGED <<posts, importing, draft, noted, overtaken, named, skipped>>
  PROVE  BuyInv'
<1>1. \A c \in posts' : CallRight(c)'
  BY CallStays DEF BuyInv
<1>2. OneImport' /\ Buy!AdviceIsKept'
  BY AdviceKept DEF BuyInv, OneImport
<1> QED BY <1>1, <1>2, PageMoves

LEMMA NoteStep ==
  ASSUME PaidStays, BuyInv, NEW a \in Advice, Buy!NoteAdvice(a)
  PROVE  BuyInv'
<1>1. /\ Kept /\ UNCHANGED <<importing, view, pay, back, posts, named, skipped>>
      /\ noted' = noted \cup {a} /\ draft' = draft \cup {a}
      /\ overtaken' = IF importing THEN overtaken \cup {a} ELSE overtaken
  BY DEF Buy!NoteAdvice, Kept, Buy!server
<1>2. PageRight'
  BY <1>1, PageKept
<1>3. Buy!Taken' = Buy!Taken /\ SettledRows' = SettledRows
  BY <1>1 DEF Kept, Buy!Taken, SettledRows, Settles
<1>4. Buy!AdviceIsKept'
  BY <1>1, <1>3 DEF BuyInv, Buy!AdviceIsKept, Buy!Heeded
<1>5. ASSUME NEW c \in posts' PROVE CallRight(c)'
  <2>1. CallRight(c)
    BY <1>1 DEF BuyInv
  <2>2. c.kind = "pay" => \E p : c.with = {p} /\ PayRow(p)'
    BY <1>3, <2>1 DEF CallRight, PayRow
  <2> QED BY <1>1, <1>3, <2>1, <2>2 DEF CallRight, IsCall, Kept, Buy!Heeded
<1>6. OneImport'
  BY <1>1 DEF BuyInv, OneImport
<1> QED BY <1>1, <1>2, <1>4, <1>5, <1>6, PageMoves

LEMMA ImportStep ==
  ASSUME PaidStays, BuyInv, Buy!ImportDraft
  PROVE  BuyInv'
<1>0. PICK c : c = Buy!Call("import", 0, draft)
  OBVIOUS
<1>1. IsCall(c) /\ c.kind = "import" /\ c.of = 0 /\ c.with = draft /\ c.at = "out"
  BY <1>0, CallNew
<1>2. /\ Kept /\ UNCHANGED <<draft, view, pay, back, noted, overtaken, named, skipped>>
      /\ ~importing /\ importing' = TRUE
      /\ posts' = posts \cup {c} /\ "import" \in used
  BY <1>0 DEF Buy!ImportDraft, Buy!Send, Kept, Buy!server, Buy!ghost
<1>3. \A d \in posts : d.kind # "import"
  BY <1>2 DEF BuyInv, CallRight
<1>4. \A d \in posts : CallRight(d)'
  BY <1>2, <1>3, CallStays DEF BuyInv
<1>5. 0 \in 0 .. Len(items)
  BY DEF BuyInv, ItemsRight, IsSeq
<1>6. CallRight(c)'
  BY <1>1, <1>2, <1>5 DEF CallRight, Kinds, OneItem, IsCall, Kept
<1>7. PageRight' /\ Buy!AdviceIsKept'
  BY <1>2, PageKept, AdviceKept
<1>8. OneImport'
  BY <1>2, <1>3 DEF OneImport
<1> QED BY <1>2, <1>4, <1>6, <1>7, <1>8, PageMoves

(* An answer reaches the page.                                             *)
LEMMA AnsweredStep ==
  ASSUME PaidStays, BuyInv, NEW c \in posts, Buy!Answered(c)
  PROVE  BuyInv'
<1>0. CallRight(c) /\ PageRight
  BY DEF BuyInv
<1>1. /\ Kept /\ UNCHANGED <<noted, overtaken, skipped>>
      /\ named' = IF c.kind = "import" /\ c.at = "ok" THEN named \cup c.with ELSE named
      /\ posts' = (posts \ {c}) \cup Buy!Follows(c)
      /\ draft' = IF c.kind = "import" /\ c.at = "ok" THEN {} ELSE draft
      /\ importing' = (importing /\ c.kind # "import")
      /\ view' = IF c.kind = "load" /\ c.at = "ok" THEN c.of ELSE view
      /\ pay' = Buy!PayAfter(c)
      /\ back' = IF c.kind = "return" /\ c.at = "ok" THEN 0 ELSE back
  BY DEF Buy!Answered, Kept, Buy!server, Buy!ghost, Buy!DraftAfter, Buy!NamedAfter
<1>2. 0 \in 0 .. Len(items) /\ items' = items
  BY <1>1 DEF BuyInv, ItemsRight, IsSeq, Kept
<1>3. Buy!Taken' = Buy!Taken /\ SettledRows' = SettledRows
  BY <1>1 DEF Kept, Buy!Taken, SettledRows, Settles
<1>4. PageRight'
  <2>1. IsPay(pay') /\ pay'.rows \subseteq SettledRows
    <3>1. CASE c.kind = "statement" /\ c.at = "ok"
      <4>1. PICK a : pay' = [pay EXCEPT !.rows = c.with, !.amount = a]
        BY <1>1, <3>1 DEF Buy!PayAfter
      <4>2. IsPay(pay') /\ pay'.rows = c.with
        BY <1>0, <4>1 DEF PageRight, IsPay
      <4> QED BY <1>0, <3>1, <4>2 DEF CallRight
    <3>2. CASE c.kind = "pay" /\ c.at = "ok"
      <4>1. pay' = [pay EXCEPT !.open = FALSE]
        BY <1>1, <3>2 DEF Buy!PayAfter
      <4> QED BY <1>0, <4>1 DEF PageRight, IsPay
    <3>3. CASE ~(c.kind = "statement" /\ c.at = "ok") /\ ~(c.kind = "pay" /\ c.at = "ok")
      BY <1>0, <1>1, <3>3 DEF Buy!PayAfter, PageRight
    <3> QED BY <3>1, <3>2, <3>3
  <2>2. view' \in 0 .. Len(items) /\ back' \in 0 .. Len(items)
    BY <1>0, <1>1, <1>2 DEF PageRight, CallRight
  <2> QED BY <1>2, <1>3, <2>1, <2>2 DEF PageRight, IsPay
<1>5. ASSUME NEW d \in Buy!Follows(c) PROVE CallRight(d)' /\ d.kind # "import"
  <2>1. \/ d = Buy!Call("confirm_acceptance", c.of, {}) /\ c.kind = "accept"
        \/ d = Buy!Call("load", 0, {})
    BY DEF Buy!Follows
  <2>2. /\ IsCall(d) /\ d.kind \in {"load", "confirm_acceptance"}
        /\ d.of = 0 \/ d.of = c.of
        /\ d.kind = "confirm_acceptance" => c.kind = "accept" /\ d.of = c.of
    BY <2>1, CallNew
  <2> QED BY <1>0, <1>2, <2>2 DEF CallRight, Kinds, OneItem, IsCall
<1>6. ASSUME NEW d \in posts \ {c} PROVE CallRight(d)'
  <2>1. CallRight(d)
    BY DEF BuyInv
  <2>2. d.kind = "import" => c.kind # "import"
    BY DEF BuyInv, OneImport
  <2> QED BY <1>1, <2>1, <2>2, CallStays
<1>7. OneImport'
  BY <1>1, <1>5 DEF BuyInv, OneImport
<1>8. Buy!AdviceIsKept'
  BY <1>0, <1>1, <1>3 DEF BuyInv, Buy!AdviceIsKept, Buy!Heeded, CallRight
<1> QED BY <1>1, <1>4, <1>5, <1>6, <1>7, <1>8, PageMoves

LEMMA BuyStep ==
  ASSUME PaidStays, BuyInv, [Buy!Next]_(Buy!vars)
  PROVE  BuyInv'
<1>1. ASSUME NEW a \in Advice, Buy!NoteAdvice(a) PROVE BuyInv'
  BY <1>1, NoteStep
<1>2. CASE Buy!ImportDraft
  BY <1>2, ImportStep
<1>3. CASE Buy!Load \/ Buy!SubmitManualList
  <2>1. /\ Kept /\ UNCHANGED <<importing, draft, noted, overtaken, named, skipped, view, back, pay>>
        /\ \/ Buy!Send("load", 0, {})
           \/ Buy!Send("manual", 0, {})
    BY <1>3 DEF Buy!Load, Buy!SubmitManualList, Kept, Buy!server, Buy!page, Buy!ghost
  <2>2. PageRight' /\ 0 \in 0 .. Len(items)
    BY <2>1, PageKept DEF BuyInv, ItemsRight, IsSeq
  <2>3. "load" \in Kinds \ {"import"} /\ "manual" \in Kinds \ {"import"}
        /\ "load" \notin OneItem /\ "manual" \notin OneItem
    BY DEF Kinds, OneItem
  <2> QED BY <2>1, <2>2, <2>3, Sends
<1>4. CASE Buy!GenerateFromAdvice
  <2>1. /\ Kept /\ UNCHANGED <<importing, draft, noted, overtaken, named, skipped, view, back, pay>>
        /\ Buy!Send("generate", 0, {})
    BY <1>4 DEF Buy!GenerateFromAdvice, Buy!Guarded, Buy!PageKept, Kept, Buy!server, Buy!ghost
  <2>2. PageRight' /\ 0 \in 0 .. Len(items)
    BY <2>1, PageKept DEF BuyInv, ItemsRight, IsSeq
  <2>3. "generate" \in Kinds \ {"import"} /\ "generate" \notin OneItem
    BY DEF Kinds, OneItem
  <2> QED BY <2>1, <2>2, <2>3, Sends
<1>5. CASE Buy!ConfirmOrder \/ Buy!CancelItem \/ Buy!ConfirmPurchase
  <2>1. Buy!OnList("order", {}) \/ Buy!OnList("cancel", {}) \/ Buy!OnList("purchase", {})
    BY <1>5 DEF Buy!ConfirmOrder, Buy!CancelItem, Buy!ConfirmPurchase
  <2> QED BY <2>1, Taps DEF Kinds
<1>6. ASSUME NEW q, Buy!SaveItem(q) \/ Buy!SubmitAcceptance(q) \/ Buy!SelectSupplier(q)
      PROVE  BuyInv'
  <2>1. Buy!OnList("save", {q}) \/ Buy!OnList("accept", {q}) \/ Buy!OnList("supplier", {q})
    BY <1>6 DEF Buy!SaveItem, Buy!SubmitAcceptance, Buy!SelectSupplier
  <2> QED BY <2>1, Taps DEF Kinds
<1>7. CASE Buy!ToggleAcceptance
  <2>1. /\ Kept /\ UNCHANGED <<posts, importing, draft, noted, overtaken, named, skipped, view, back, pay>>
    BY <1>7 DEF Buy!ToggleAcceptance, Kept, Buy!server, Buy!ghost
  <2> QED BY <2>1, PageKept, Quiet
<1>8. CASE Buy!OpenReturn
  <2>1. /\ Kept /\ UNCHANGED <<posts, importing, draft, noted, overtaken, named, skipped, view, pay>>
        /\ back' \in {0, view}
    BY <1>8 DEF Buy!OpenReturn, Kept, Buy!server, Buy!ghost
  <2>2. PageRight'
    BY <2>1 DEF BuyInv, PageRight, Kept, IsPay, SettledRows, Settles, ItemsRight, IsSeq
  <2> QED BY <2>1, <2>2, Quiet
<1>9. ASSUME NEW q, Buy!SubmitReturn(q) PROVE BuyInv'
  <2>1. /\ Kept /\ UNCHANGED <<importing, draft, noted, overtaken, named, skipped, view, back, pay>>
        /\ Buy!Send("return", back, {q}) /\ back # 0
    BY <1>9 DEF Buy!SubmitReturn, Kept, Buy!server, Buy!page, Buy!ghost
  <2>2. PageRight' /\ back \in 0 .. Len(items)
    BY <2>1, PageKept DEF BuyInv, PageRight
  <2>3. "return" \in Kinds \ {"import"}
    BY DEF Kinds
  <2> QED BY <2>1, <2>2, <2>3, Sends
<1>10. ASSUME NEW q, Buy!OpenPayment \/ Buy!ClosePayment \/ Buy!EditAmount(q) PROVE BuyInv'
  <2>1. /\ Kept /\ UNCHANGED <<posts, importing, draft, noted, overtaken, named, skipped, view, back>>
        /\ \/ pay' = [Buy!Closed EXCEPT !.open = TRUE, !.key = pay.key + 1]
           \/ pay' = [pay EXCEPT !.open = FALSE]
           \/ pay' = [pay EXCEPT !.amount = q]
    BY <1>10 DEF Buy!OpenPayment, Buy!ClosePayment, Buy!EditAmount, Kept, Buy!server, Buy!ghost
  <2>2. IsPay(pay') /\ (pay'.rows = {} \/ pay'.rows = pay.rows)
    <3>1. PICK k : k = pay.key + 1
      OBVIOUS
    <3> QED BY <2>1, <3>1 DEF BuyInv, PageRight, IsPay, Buy!Closed
  <2>3. PageRight'
    BY <2>1, <2>2 DEF BuyInv, PageRight, Kept, IsPay, SettledRows, Settles
  <2> QED BY <2>1, <2>3, Quiet
<1>11. ASSUME NEW s, Buy!PickSupplier(s) PROVE BuyInv'
  <2>1. /\ Kept /\ UNCHANGED <<importing, draft, noted, overtaken, named, skipped, view, back>>
        /\ pay' = [pay EXCEPT !.to = s, !.rows = {}, !.amount = 0]
        /\ Buy!Send("statement", 0, {s})
    BY <1>11 DEF Buy!PickSupplier, Kept, Buy!server, Buy!ghost
  <2>2. IsPay(pay') /\ pay'.rows = {}
    BY <2>1 DEF BuyInv, PageRight, IsPay
  <2>3. PageRight' /\ 0 \in 0 .. Len(items)
    BY <2>1, <2>2 DEF BuyInv, PageRight, Kept, IsPay, ItemsRight, IsSeq
  <2>4. "statement" \in Kinds \ {"import"} /\ "statement" \notin OneItem
    BY DEF Kinds, OneItem
  <2> QED BY <2>1, <2>3, <2>4, Sends
<1>12. CASE Buy!SubmitPayment
  <2>0. PICK p : p = [to |-> pay.to, rows |-> pay.rows, amount |-> pay.amount,
                      key |-> pay.key, dialog |-> pay.key]
    OBVIOUS
  <2>1. /\ Kept /\ UNCHANGED <<importing, draft, noted, overtaken, named, skipped, view, back, pay>>
        /\ Buy!Send("pay", 0, {p})
    BY <1>12, <2>0 DEF Buy!SubmitPayment, Kept, Buy!server, Buy!page, Buy!ghost
  <2>2. PayRow(p)
    BY <2>0 DEF BuyInv, PageRight, PayRow
  <2>3. PageRight' /\ 0 \in 0 .. Len(items)
    BY <2>1, PageKept DEF BuyInv, ItemsRight, IsSeq
  <2>4. "pay" \in Kinds \ {"import"} /\ "pay" \notin OneItem
    BY DEF Kinds, OneItem
  <2> QED BY <2>1, <2>2, <2>3, <2>4, Sends
<1>13. ASSUME NEW c \in posts, Buy!Answered(c) \/ Buy!Serve(c) \/ Buy!Lose(c) PROVE BuyInv'
  BY <1>13, AnsweredStep, ServeStep, LoseStep
<1>14. CASE UNCHANGED Buy!vars
  <2>1. /\ Kept /\ UNCHANGED <<posts, importing, draft, noted, overtaken, named, skipped, view, back, pay>>
    BY <1>14 DEF Buy!vars, Kept, Buy!server, Buy!ghost, Buy!page
  <2> QED BY <2>1, PageKept, Quiet
<1> QED
  BY Zenon, <1>1, <1>2, <1>3, <1>4, <1>5, <1>6, <1>7, <1>8, <1>9, <1>10, <1>11, <1>12, <1>13,
     <1>14 DEF Buy!Next

LEMMA BuyInit == Buy!Init => BuyInv
<1> SUFFICES ASSUME Buy!Init PROVE BuyInv
  OBVIOUS
<1>1. ItemsRight
  <2>1. CASE items = <<>>
    BY <2>1 DEF ItemsRight, IsSeq
  <2>2. CASE items \in Buy!Bought
    <3>1. ASSUME NEW s PROVE Right(Buy!Stored([Buy!NewItem(MaxUnits, {}) EXCEPT !.supplier = s], MaxUnits))
      <4>1. PICK new, it : /\ new = Buy!NewItem(MaxUnits, {})
                           /\ it = [new EXCEPT !.supplier = s]
        OBVIOUS
      <4>2. IsItem(it)
        BY <4>1 DEF IsItem, Buy!NewItem
      <4>3. PICK r : r = Buy!Stored(it, MaxUnits)
        OBVIOUS
      <4>4. IsItem(r) /\ r.status = "stored" /\ r.line = "purchased"
        BY <4>2, <4>3, ItemStored
      <4> QED BY <4>1, <4>3, <4>4 DEF Right, Settles
    <3>2. \A i \in 1 .. MaxItems : Right(items[i])
      BY <2>2, <3>1 DEF Buy!Bought
    <3>3. items = [i \in 1 .. MaxItems |-> items[i]]
      BY <2>2 DEF Buy!Bought
    <3> DEFINE R == {items[i] : i \in 1 .. MaxItems}
    <3>4. \A i \in 1 .. MaxItems : items[i] \in R
      OBVIOUS
    <3> HIDE DEF R
    <3>5. items \in [1 .. MaxItems -> R]
      BY <3>3, <3>4
    <3>6. items \in Seq(R)
      BY <3>5, MaxItemsIsNat
    <3>7. IsSeq(items) /\ DOMAIN items = 1 .. MaxItems
      BY <3>5, <3>6, SeqOwn
    <3> QED BY <3>2, <3>7 DEF ItemsRight
  <2> QED BY <2>1, <2>2 DEF Buy!Init
<1>2. 0 \in 0 .. Len(items)
  BY <1>1 DEF ItemsRight, IsSeq
<1>3. PageRight
  BY <1>2 DEF Buy!Init, PageRight, IsPay, Buy!Closed
<1> QED BY <1>1, <1>3 DEF Buy!Init, BuyInv, PaymentsRight, OneImport, Buy!AdviceIsKept

(* Advice stays noted until a list has it, the page has named it as unknown*)
(* or the server passed it over because its line was bought, unless it was *)
(* noted during an import (create_from_advice, _importPurchaseDraft); and a*)
(* payment is made once and to the supplier it was meant for, however often*)
(* it is sent and whatever answers are lost.                               *)
THEOREM BuyingHeedsHolds == PaidStays => (Buy!Spec => []BuyingHeeds)
<1> SUFFICES ASSUME PaidStays PROVE Buy!Spec => []BuyingHeeds
  OBVIOUS
<1>1. BuyInv /\ [Buy!Next]_(Buy!vars) => BuyInv'
  BY BuyStep
<1>2. BuyInv => BuyingHeeds
  BY DEF BuyInv, BuyingHeeds, PaymentsRight, PayRow, Buy!PaidOnceToWhom
<1> QED BY <1>1, <1>2, BuyInit, PTL DEF Buy!Spec

-----------------------------------------------------------------------------
(* Voice notes                                                             *)
Log == [status : {"parsed", "confirmed"}, missing : BOOLEAN]

IsVoiceCall(c) ==
  c = [kind |-> c.kind, of |-> c.of, rest |-> c.rest, got |-> c.got, at |-> c.at]

LEMMA SeqPut ==
  ASSUME NEW R, NEW s \in Seq(R), NEW i \in DOMAIN s, NEW x \in R
  PROVE  [s EXCEPT ![i] = x] \in Seq(R) /\ DOMAIN [s EXCEPT ![i] = x] = DOMAIN s
  OBVIOUS

LEMMA SeqGrow == ASSUME NEW R, NEW Q, R \subseteq Q, NEW s \in Seq(R) PROVE s \in Seq(Q)
<1>1. s = [i \in 1 .. Len(s) |-> s[i]] /\ Len(s) \in Nat /\ \A i \in 1 .. Len(s) : s[i] \in Q
  OBVIOUS
<1> QED BY <1>1

(* Logs the user asked for, or whose card another one's content covers.    *)
Wanted == tapped \cup blurred

VoiceCallRight(c) ==
  /\ IsVoiceCall(c)
  /\ c.got \subseteq DOMAIN logs
  /\ c.kind = "confirm" =>
       /\ c.of \in DOMAIN logs /\ c.of \in Wanted
       /\ c.rest \in Seq(Nat)
       /\ \A i \in DOMAIN c.rest : c.rest[i] \in DOMAIN logs /\ c.rest[i] \in Wanted
       /\ c.at = "ok" => c.of \in Voice!Booked
  /\ c.kind = "correct" => c.of \in DOMAIN logs /\ c.of \in Wanted

CardsRight == \A l \in DOMAIN cards : l \in DOMAIN logs /\ (cards[l] = l \/ l \in blurred)

BookInv ==
  /\ logs \in Seq(Log)
  /\ CardsRight
  /\ fix = 0 \/ fix \in DOMAIN logs
  /\ done \subseteq Voice!Booked
  /\ Voice!Booked \subseteq Wanted
  /\ \A c \in sends : VoiceCallRight(c)

(* Logs are added and booked, and stay wanted.                             *)
BookGrows ==
  /\ DOMAIN logs \subseteq DOMAIN logs' /\ Voice!Booked \subseteq Voice!Booked'
  /\ tapped \subseteq tapped' /\ blurred \subseteq blurred'

LEMMA VoiceCallKept ==
  ASSUME BookGrows, NEW c, VoiceCallRight(c)
  PROVE  VoiceCallRight(c)'
  BY DEF BookGrows, VoiceCallRight, IsVoiceCall, Wanted

LEMMA BookKept ==
  ASSUME BookInv, UNCHANGED <<logs, tapped, blurred>>
  PROVE  BookGrows /\ Voice!Booked' = Voice!Booked /\ Wanted' = Wanted
  BY DEF BookGrows, Voice!Booked, Wanted

(* A request that carries no log.                                          *)
Plain(c) == IsVoiceCall(c) /\ c.kind \in {"upload", "respeak", "parse"} /\ c.got = {}

LEMMA PlainRight == ASSUME NEW c, Plain(c) PROVE VoiceCallRight(c)'
  BY DEF Plain, VoiceCallRight, IsVoiceCall

LEMMA VoiceQuiet ==
  ASSUME BookInv, UNCHANGED <<logs, tapped, blurred>>,
         (cards' = cards /\ done' = done) \/ (cards' = <<>> /\ done' = {}),
         fix' = 0 \/ fix' = fix,
         \A c \in sends' : c \in sends \/ Plain(c)
  PROVE  BookInv'
<1>1. BookGrows /\ Voice!Booked' = Voice!Booked /\ Wanted' = Wanted
  BY BookKept
<1>2. \A c \in sends' : VoiceCallRight(c)'
  BY <1>1, VoiceCallKept, PlainRight DEF BookInv
<1>3. CardsRight'
  BY DEF BookInv, CardsRight
<1> QED BY <1>1, <1>2, <1>3 DEF BookInv

LEMMA PlainNew ==
  ASSUME NEW kind \in {"upload", "respeak", "parse"}, NEW of, NEW rest, NEW c,
         c = Voice!Call(kind, of, rest)
  PROVE  Plain(c)
  BY DEF Voice!Call, Plain, IsVoiceCall

(* What is said and typed, and what is not booked by it.                   *)
LEMMA SayingStep ==
  ASSUME BookInv,
         \/ Voice!Switch \/ Voice!SayAgain \/ Voice!OnStart \/ Voice!OnCancel \/ Voice!Respeak
         \/ Voice!LeaveRespeak \/ Voice!OnStop \/ Voice!OnError \/ Voice!SubmitText
         \/ Voice!RetryUpload \/ Voice!CloseCorrection
  PROVE  BookInv'
<1> USE DEF Voice!deck, Voice!card, Voice!ghost, Voice!NoDeck, Voice!NoCards
<1>1. /\ UNCHANGED <<logs, tapped, blurred>>
      /\ (cards' = cards /\ done' = done) \/ (cards' = <<>> /\ done' = {})
      /\ fix' = 0 \/ fix' = fix
  BY DEF Voice!Switch, Voice!SayAgain, Voice!OnStart, Voice!OnCancel, Voice!Respeak,
     Voice!LeaveRespeak, Voice!OnStop, Voice!OnError, Voice!SubmitText, Voice!RetryUpload,
     Voice!CloseCorrection, Voice!ResetToIdle, Voice!Start
<1>2. ASSUME NEW c \in sends', c \notin sends PROVE Plain(c)
  <2>1. \E of : c \in {Voice!Call("upload", of, <<>>), Voice!Call("respeak", of, <<>>),
                       Voice!Call("parse", of, <<>>)}
    BY <1>2 DEF Voice!Switch, Voice!SayAgain, Voice!OnStart, Voice!OnCancel, Voice!Respeak,
       Voice!LeaveRespeak, Voice!OnStop, Voice!OnError, Voice!SubmitText, Voice!RetryUpload,
       Voice!CloseCorrection, Voice!ResetToIdle, Voice!Start
  <2> QED BY <2>1, PlainNew
<1>3. \A c \in sends' : c \in sends \/ Plain(c)
  BY <1>2
<1> QED BY <1>1, <1>3, VoiceQuiet

(* A tap, or a chain of them.                                              *)
LEMMA TapStep ==
  ASSUME BookInv,
         \/ \E l \in DOMAIN cards : Voice!ConfirmRecord(l)
         \/ Voice!ConfirmAll
  PROVE  BookInv'
<1> USE DEF Voice!deck, Voice!card
<1>1. /\ UNCHANGED <<logs, blurred, cards, done, fix>> /\ tapped \subseteq tapped'
  BY DEF Voice!ConfirmRecord, Voice!ConfirmAll, Voice!Tap
<1>2. BookGrows /\ Voice!Booked' = Voice!Booked
  BY <1>1 DEF BookGrows, Voice!Booked
<1>3. \A l \in DOMAIN cards : l \in DOMAIN logs /\ (cards[l] \in tapped' => l \in Wanted')
  BY <1>1 DEF BookInv, CardsRight, Wanted
<1>4. logs \in Seq(Log) /\ DOMAIN logs \subseteq Nat
  BY DEF BookInv
<1>5. ASSUME NEW c \in sends', c \notin sends PROVE VoiceCallRight(c)'
  <2>1. CASE \E l \in DOMAIN cards : Voice!ConfirmRecord(l)
    <3>1. PICK l \in DOMAIN cards : Voice!ConfirmRecord(l)
      BY <2>1
    <3>2. c = Voice!Call("confirm", l, <<>>) /\ cards[l] \in tapped'
      BY <1>5, <3>1 DEF Voice!ConfirmRecord, Voice!Tap
    <3>3. IsVoiceCall(c) /\ c.of = l /\ c.rest = <<>> /\ c.got = {} /\ c.at = "out"
          /\ c.kind = "confirm"
      BY <3>2 DEF Voice!Call, IsVoiceCall
    <3>4. c.rest \in Seq(Nat) /\ DOMAIN c.rest = {}
      BY <3>3
    <3>5. l \in DOMAIN logs' /\ l \in Wanted'
      BY <1>1, <1>3, <3>2
    <3> QED BY <3>3, <3>4, <3>5 DEF VoiceCallRight, IsVoiceCall
  <2>2. CASE Voice!ConfirmAll
    <3>1. PICK s \in Voice!Listed(Voice!Pending) : c = Voice!Call("confirm", s[1], Tail(s))
      BY <1>5, <2>2 DEF Voice!ConfirmAll
    <3>2. PICK n \in 1 .. MaxLogs : s \in [1 .. n -> Voice!Pending]
      BY DEF Voice!Listed
    <3>3. \A i \in 1 .. n : s[i] \in DOMAIN cards /\ cards[s[i]] \in tapped'
      BY <2>2, <3>2 DEF Voice!ConfirmAll, Voice!Pending
    <3>4. n \in Nat \ {0} /\ s \in Seq(Nat) /\ Len(s) = n
      BY <1>3, <1>4, <3>2, <3>3
    <3>5. PICK t : t = Tail(s)
      OBVIOUS
    <3>6. t \in Seq(Nat) /\ \A i \in DOMAIN t : i + 1 \in 1 .. n /\ t[i] = s[i + 1]
      BY <3>4, <3>5
    <3>7. PICK m : m = s[1]
      OBVIOUS
    <3>8. IsVoiceCall(c) /\ c.of = m /\ c.rest = t /\ c.got = {} /\ c.at = "out"
          /\ c.kind = "confirm"
      BY <3>1, <3>5, <3>7 DEF Voice!Call, IsVoiceCall
    <3>9. m \in DOMAIN logs /\ m \in Wanted'
      BY <1>3, <3>3, <3>4, <3>7
    <3>10. \A i \in DOMAIN t : t[i] \in DOMAIN logs /\ t[i] \in Wanted'
      BY <1>3, <3>3, <3>6
    <3> QED BY <1>1, <3>6, <3>8, <3>9, <3>10 DEF VoiceCallRight, IsVoiceCall
  <2> QED BY <2>1, <2>2
<1>6. \A c \in sends' : VoiceCallRight(c)'
  BY <1>2, <1>5, VoiceCallKept DEF BookInv
<1>7. CardsRight'
  BY <1>1 DEF BookInv, CardsRight
<1> QED BY <1>1, <1>2, <1>6, <1>7 DEF BookInv, Wanted

LEMMA FixStep ==
  ASSUME BookInv, Voice!SubmitCorrection \/ \E l \in DOMAIN cards : Voice!OpenCorrection(l)
  PROVE  BookInv'
<1> USE DEF Voice!deck, Voice!ghost
<1>1. CASE Voice!SubmitCorrection
  <2>1. PICK c : c = Voice!Call("correct", fix, <<>>)
    OBVIOUS
  <2>2. /\ UNCHANGED <<logs, cards, done, fix, blurred>> /\ tapped' = tapped \cup {fix}
        /\ sends' = sends \cup {c} /\ fix # 0
    BY <1>1, <2>1 DEF Voice!SubmitCorrection
  <2>3. IsVoiceCall(c) /\ c.kind = "correct" /\ c.of = fix /\ c.got = {}
    BY <2>1 DEF Voice!Call, IsVoiceCall
  <2>4. BookGrows /\ Voice!Booked' = Voice!Booked
    BY <2>2 DEF BookGrows, Voice!Booked
  <2>5. VoiceCallRight(c)'
    BY <2>2, <2>3 DEF BookInv, VoiceCallRight, IsVoiceCall, Wanted
  <2>6. \A d \in sends : VoiceCallRight(d)'
    BY <2>4, VoiceCallKept DEF BookInv
  <2>7. CardsRight'
    BY <2>2 DEF BookInv, CardsRight
  <2> QED BY <2>2, <2>4, <2>5, <2>6, <2>7 DEF BookInv, Wanted
<1>2. ASSUME NEW l \in DOMAIN cards, Voice!OpenCorrection(l) PROVE BookInv'
  <2>1. UNCHANGED <<logs, sends, cards, done, tapped, blurred>> /\ fix' = l
    BY <1>2 DEF Voice!OpenCorrection
  <2>2. BookGrows /\ Voice!Booked' = Voice!Booked /\ Wanted' = Wanted
    BY <2>1, BookKept
  <2>3. \A d \in sends : VoiceCallRight(d)'
    BY <2>2, VoiceCallKept DEF BookInv
  <2> QED BY <2>1, <2>2, <2>3 DEF BookInv, CardsRight
<1> QED BY <1>1, <1>2

(* The logs of an answer are the cards; each shows itself.                 *)
LEMMA ApplyStep ==
  ASSUME BookInv, NEW c \in sends, Voice!ApplyParsed(c), sends' = sends \ {c},
         UNCHANGED <<logs, tapped, blurred, fix>>
  PROVE  BookInv'
<1>1. BookGrows /\ Voice!Booked' = Voice!Booked /\ Wanted' = Wanted
  BY BookKept
<1>2. \A d \in sends : VoiceCallRight(d)'
  BY <1>1, VoiceCallKept DEF BookInv
<1>3. c.got \subseteq DOMAIN logs
  BY DEF BookInv, VoiceCallRight
<1>4. CardsRight' /\ done' = {}
  BY <1>3 DEF Voice!ApplyParsed, CardsRight
<1> QED BY <1>1, <1>2, <1>4 DEF BookInv

LEMMA HeardStep ==
  ASSUME BookInv, NEW c \in sends,
         Voice!UploadAnswered(c) \/ Voice!ParseAnswered(c) \/ Voice!RespeakAnswered(c)
  PROVE  BookInv'
<1> USE DEF Voice!deck, Voice!card, Voice!ghost, Voice!Forget
<1>1. CASE Voice!ApplyParsed(c) /\ sends' = sends \ {c}
  <2>1. UNCHANGED <<logs, tapped, blurred, fix>>
    BY DEF Voice!UploadAnswered, Voice!ParseAnswered, Voice!RespeakAnswered
  <2> QED BY <1>1, <2>1, ApplyStep
<1>2. CASE ~(Voice!ApplyParsed(c) /\ sends' = sends \ {c})
  <2>1. UNCHANGED <<logs, tapped, blurred, fix, cards, done>>
    BY <1>2 DEF Voice!UploadAnswered, Voice!ParseAnswered, Voice!RespeakAnswered, Voice!UploadOk,
       Voice!UploadFailed
  <2>2. ASSUME NEW d \in sends', d \notin sends PROVE Plain(d)
    <3>1. d = Voice!Call("parse", c.of, <<>>)
      BY <1>2, <2>2 DEF Voice!UploadAnswered, Voice!ParseAnswered, Voice!RespeakAnswered,
         Voice!UploadOk, Voice!UploadFailed
    <3> QED BY <3>1, PlainNew
  <2>3. \A d \in sends' : d \in sends \/ Plain(d)
    BY <2>2
  <2> QED BY <2>1, <2>3, VoiceQuiet
<1> QED BY <1>1, <1>2

LEMMA ConfirmAnsweredStep ==
  ASSUME BookInv, NEW c \in sends, Voice!ConfirmAnswered(c)
  PROVE  BookInv'
<1> USE DEF Voice!card, Voice!ghost, Voice!Forget
<1>0. VoiceCallRight(c) /\ UNCHANGED <<logs, tapped, blurred>> /\ c.kind = "confirm"
  BY DEF BookInv, Voice!ConfirmAnswered
<1>1. BookGrows /\ Voice!Booked' = Voice!Booked /\ Wanted' = Wanted
  BY <1>0, BookKept
<1>2. CASE c.at # "ok"
  <2>1. /\ (cards' = cards /\ done' = done) \/ (cards' = <<>> /\ done' = {})
        /\ fix' = 0 \/ fix' = fix
        /\ sends' = sends \ {c}
    BY <1>2 DEF Voice!ConfirmAnswered, Voice!ConfirmFailed, Voice!NoDeck, Voice!NoCards
  <2>2. \A d \in sends' : d \in sends \/ Plain(d)
    BY <2>1
  <2> QED BY <1>0, <2>1, <2>2, VoiceQuiet
<1>3. CASE c.at = "ok"
  <2>1. Voice!ConfirmedOk(c)
    BY <1>3 DEF Voice!ConfirmAnswered
  <2>2. /\ \/ cards' = <<>> /\ done' = {}
           \/ cards' = cards /\ done' \subseteq done \cup {c.of}
        /\ fix' = 0 \/ fix' = fix
    BY <2>1 DEF Voice!ConfirmedOk, Voice!ResetToIdle, Voice!NoDeck, Voice!NoCards, Voice!Marked
  <2>3. done' \subseteq Voice!Booked
    BY <1>0, <1>3, <2>2 DEF BookInv, VoiceCallRight
  <2>4. ASSUME NEW d \in sends', d \notin sends PROVE VoiceCallRight(d)'
    <3>0. PICK h, t : h = Head(c.rest) /\ t = Tail(c.rest)
      OBVIOUS
    <3>1. d = Voice!Call("confirm", h, t) /\ c.rest # <<>>
      BY <2>1, <2>4, <3>0 DEF Voice!ConfirmedOk
    <3>2. /\ c.rest \in Seq(Nat)
          /\ \A i \in DOMAIN c.rest : c.rest[i] \in DOMAIN logs /\ c.rest[i] \in Wanted
      BY <1>0 DEF VoiceCallRight
    <3>3. h = c.rest[1] /\ 1 \in DOMAIN c.rest
      BY <3>0, <3>1, <3>2
    <3>4. t \in Seq(Nat) /\ \A i \in DOMAIN t : i + 1 \in DOMAIN c.rest /\ t[i] = c.rest[i + 1]
      BY <3>0, <3>1, <3>2
    <3>5. IsVoiceCall(d) /\ d.of = h /\ d.rest = t /\ d.got = {} /\ d.at = "out"
          /\ d.kind = "confirm"
      BY <3>1 DEF Voice!Call, IsVoiceCall
    <3>6. h \in DOMAIN logs /\ h \in Wanted
      BY <3>2, <3>3
    <3>7. \A i \in DOMAIN t : t[i] \in DOMAIN logs /\ t[i] \in Wanted
      BY <3>2, <3>4
    <3> QED BY <1>0, <1>1, <3>4, <3>5, <3>6, <3>7 DEF VoiceCallRight, IsVoiceCall
  <2>5. \A d \in sends : VoiceCallRight(d)'
    BY <1>1, VoiceCallKept DEF BookInv
  <2>6. CardsRight'
    BY <1>0, <2>2 DEF BookInv, CardsRight
  <2> QED BY <1>0, <1>1, <2>2, <2>3, <2>4, <2>5, <2>6 DEF BookInv
<1> QED BY <1>2, <1>3

LEMMA CorrectAnsweredStep ==
  ASSUME BookInv, NEW c \in sends, Voice!CorrectAnswered(c)
  PROVE  BookInv'
<1> USE DEF Voice!Forget
<1>0. VoiceCallRight(c) /\ UNCHANGED <<logs, tapped, done>> /\ c.kind = "correct"
  BY DEF BookInv, Voice!CorrectAnswered
<1>2. CASE c.at # "ok"
  <2>1. UNCHANGED <<cards, fix, blurred>> /\ sends' = sends \ {c}
    BY <1>2 DEF Voice!CorrectAnswered
  <2>2. \A d \in sends' : d \in sends \/ Plain(d)
    BY <2>1
  <2> QED BY <1>0, <2>1, <2>2, VoiceQuiet
<1>3. CASE c.at = "ok"
  <2>0. PICK d : d = Voice!Call("confirm", c.of, <<>>)
    OBVIOUS
  <2>1. /\ fix' = 0 /\ sends' = (sends \ {c}) \cup {d} /\ blurred \subseteq blurred'
        /\ \/ cards' = cards
           \/ /\ cards' = [l \in DOMAIN cards |-> c.of]
              /\ \A l \in DOMAIN cards : l = c.of \/ l \in blurred'
    BY <1>3, <2>0 DEF Voice!CorrectAnswered, Voice!CorrectedOk
  <2>2. BookGrows /\ Voice!Booked' = Voice!Booked
    BY <1>0, <2>1 DEF BookGrows, Voice!Booked
  <2>3. CardsRight'
    BY <1>0, <2>1 DEF BookInv, CardsRight
  <2>4. IsVoiceCall(d) /\ d.of = c.of /\ d.rest = <<>> /\ d.got = {} /\ d.at = "out"
        /\ d.kind = "confirm"
    BY <2>0 DEF Voice!Call, IsVoiceCall
  <2>5. d.rest \in Seq(Nat) /\ DOMAIN d.rest = {}
    BY <2>4
  <2>6. c.of \in DOMAIN logs' /\ c.of \in Wanted'
    BY <1>0, <2>1 DEF VoiceCallRight, Wanted
  <2>7. VoiceCallRight(d)'
    BY <2>4, <2>5, <2>6 DEF VoiceCallRight, IsVoiceCall
  <2>8. \A e \in sends : VoiceCallRight(e)'
    BY <2>2, VoiceCallKept DEF BookInv
  <2> QED BY <1>0, <2>1, <2>2, <2>3, <2>7, <2>8 DEF BookInv, Wanted
<1> QED BY <1>2, <1>3

-----------------------------------------------------------------------------
(* The server answers some of the sends: with logs it has made, or after   *)
(* it has booked the one they are all about.                               *)
LEMMA AnswersGiven ==
  ASSUME BookInv, BookGrows, NEW S \in SUBSET sends, NEW at, NEW got, Voice!Answer(S, at, got),
         got \subseteq DOMAIN logs',
         at = "ok" => \A c \in S : c.kind = "confirm" => c.of \in Voice!Booked'
  PROVE  \A c \in sends' : VoiceCallRight(c)'
<1>1. ASSUME NEW c \in sends PROVE VoiceCallRight(c)'
  BY VoiceCallKept DEF BookInv
<1>2. ASSUME NEW c \in S
      PROVE  VoiceCallRight([c EXCEPT !.at = at, !.got = got])'
  <2>1. PICK d : d = [c EXCEPT !.at = at, !.got = got]
    OBVIOUS
  <2>2. VoiceCallRight(c)' /\ IsVoiceCall(c)
    BY <1>1 DEF VoiceCallRight, IsVoiceCall
  <2>3. IsVoiceCall(d) /\ d.kind = c.kind /\ d.of = c.of /\ d.rest = c.rest /\ d.at = at
        /\ d.got = got
    BY <2>1, <2>2 DEF IsVoiceCall
  <2>4. VoiceCallRight(d)'
    BY <2>2, <2>3 DEF VoiceCallRight, IsVoiceCall
  <2> QED BY <2>1, <2>4
<1> QED BY <1>1, <1>2 DEF Voice!Answer

LEMMA VoiceServes ==
  ASSUME BookInv, NEW c \in sends, Voice!Serve(c)
  PROVE  BookInv'
<1>0. UNCHANGED <<tapped, blurred, cards, done, fix>> /\ VoiceCallRight(c) /\ logs \in Seq(Log)
  BY DEF Voice!Serve, Voice!deck, Voice!card, Voice!ghost, BookInv
<1>1. ASSUME BookGrows, logs' \in Seq(Log), Voice!Booked' \subseteq Wanted,
             \A d \in sends' : VoiceCallRight(d)'
      PROVE  BookInv'
  <2>1. CardsRight'
    BY <1>0, <1>1 DEF BookInv, CardsRight, BookGrows
  <2> QED BY <1>0, <1>1, <2>1 DEF BookInv, BookGrows, Wanted
<1>2. ASSUME UNCHANGED logs PROVE BookGrows /\ logs' \in Seq(Log) /\ Voice!Booked' \subseteq Wanted
  BY <1>0, <1>2, BookKept DEF BookInv
<1>3. CASE \E n \in Parts, missing \in BOOLEAN : Voice!Hear(c, n, missing)
  <2>1. PICK n \in Parts, missing \in BOOLEAN : Voice!Hear(c, n, missing)
    BY <1>3
  <2>2. PICK m, heard_ : /\ m = Len(logs)
                         /\ heard_ = [i \in 1 .. n |-> [status |-> "parsed", missing |-> missing]]
    OBVIOUS
  <2>3. heard_ \in Seq(Log) /\ Len(heard_) = n /\ \A i \in 1 .. n : heard_[i].status = "parsed"
    BY <2>2, PartsAreNat DEF Log
  <2>4. logs' = logs \o heard_ /\ Voice!Answer({c}, "ok", m + 1 .. m + n)
        /\ c.kind # "confirm"
    BY <2>1, <2>2 DEF Voice!Hear
  <2>5. /\ logs' \in Seq(Log) /\ m \in Nat /\ n \in Nat
        /\ DOMAIN logs = 1 .. m /\ DOMAIN logs' = 1 .. (m + n)
        /\ \A i \in 1 .. m : logs'[i] = logs[i]
        /\ \A i \in (m + 1) .. (m + n) : logs'[i] = heard_[i - m]
    BY <1>0, <2>2, <2>3, <2>4, PartsAreNat
  <2>6. \A i \in (m + 1) .. (m + n) : logs'[i].status = "parsed"
    BY <2>3, <2>5
  <2>7. Voice!Booked' = Voice!Booked
    BY <2>5, <2>6 DEF Voice!Booked
  <2>8. BookGrows /\ m + 1 .. m + n \subseteq DOMAIN logs'
    BY <1>0, <2>5, <2>7 DEF BookGrows
  <2>9. \A d \in sends' : VoiceCallRight(d)'
    <3>1. PICK got : got = m + 1 .. m + n
      OBVIOUS
    <3>2. Voice!Answer({c}, "ok", got) /\ got \subseteq DOMAIN logs' /\ {c} \in SUBSET sends
          /\ \A d \in {c} : d.kind # "confirm"
      BY <2>4, <2>8, <3>1
    <3> QED BY <2>8, <3>2, AnswersGiven
  <2> QED BY <1>1, <2>5, <2>7, <2>8, <2>9 DEF BookInv
<1>4. CASE Voice!NotUnderstood(c)
  <2>1. UNCHANGED logs /\ Voice!Answer({c}, "ok", {}) /\ c.kind # "confirm"
    BY <1>4 DEF Voice!NotUnderstood
  <2>2. BookGrows
    BY <1>2, <2>1
  <2>3. \A d \in sends' : VoiceCallRight(d)'
    BY <2>1, <2>2, AnswersGiven
  <2> QED BY <1>1, <1>2, <2>1, <2>3
<1>5. CASE Voice!Confirm(c)
  <2>1. PICK l : l = c.of
    OBVIOUS
  <2>2. /\ l \in DOMAIN logs /\ l \in Wanted
        /\ logs' = [logs EXCEPT ![l].status = "confirmed"]
        /\ Voice!Answer(Voice!Same(c), "ok", {})
    BY <1>0, <1>5, <2>1 DEF Voice!Confirm, VoiceCallRight
  <2>3. PICK row : row = [logs[l] EXCEPT !.status = "confirmed"]
    OBVIOUS
  <2>4. logs[l] \in Log
    BY <1>0, <2>2
  <2>5. row \in Log /\ row.status = "confirmed"
    BY <2>3, <2>4 DEF Log
  <2>6. logs' = [logs EXCEPT ![l] = row]
    BY <1>0, <2>2, <2>3
  <2>7. logs' \in Seq(Log) /\ DOMAIN logs' = DOMAIN logs
    <3>1. logs \in Seq(Log) /\ l \in DOMAIN logs /\ row \in Log
      BY <1>0, <2>2, <2>5
    <3>2. [logs EXCEPT ![l] = row] \in Seq(Log) /\ DOMAIN [logs EXCEPT ![l] = row] = DOMAIN logs
      BY ONLY <3>1, SeqPut
    <3> QED BY <2>6, <3>2
  <2>8. Voice!Booked' = Voice!Booked \cup {l}
    BY <1>0, <2>2, <2>5, <2>6 DEF Voice!Booked
  <2>9. BookGrows
    BY <1>0, <2>7, <2>8 DEF BookGrows
  <2>10. Voice!Same(c) \in SUBSET sends /\ \A d \in Voice!Same(c) : d.of = l
    BY <2>1 DEF Voice!Same
  <2>11. \A d \in sends' : VoiceCallRight(d)'
    BY <2>2, <2>8, <2>9, <2>10, AnswersGiven
  <2> QED BY <1>1, <2>2, <2>7, <2>8, <2>9, <2>11 DEF BookInv
<1>6. CASE Voice!Correct(c)
  <2>1. PICK l : l = c.of
    OBVIOUS
  <2>2. /\ l \in DOMAIN logs /\ c.kind = "correct"
        /\ logs' = [logs EXCEPT ![l].missing = FALSE]
        /\ Voice!Answer({c}, "ok", {})
    BY <1>0, <1>6, <2>1 DEF Voice!Correct, VoiceCallRight
  <2>3. PICK row : row = [logs[l] EXCEPT !.missing = FALSE]
    OBVIOUS
  <2>4. logs[l] \in Log
    BY <1>0, <2>2
  <2>5. row \in Log /\ row.status = logs[l].status
    BY <2>3, <2>4 DEF Log
  <2>6. logs' = [logs EXCEPT ![l] = row]
    BY <1>0, <2>2, <2>3
  <2>7. logs' \in Seq(Log) /\ DOMAIN logs' = DOMAIN logs
    <3>1. logs \in Seq(Log) /\ l \in DOMAIN logs /\ row \in Log
      BY <1>0, <2>2, <2>5
    <3>2. [logs EXCEPT ![l] = row] \in Seq(Log) /\ DOMAIN [logs EXCEPT ![l] = row] = DOMAIN logs
      BY ONLY <3>1, SeqPut
    <3> QED BY <2>6, <3>2
  <2>8. Voice!Booked' = Voice!Booked
    BY <1>0, <2>2, <2>5, <2>6 DEF Voice!Booked
  <2>9. BookGrows
    BY <1>0, <2>7, <2>8 DEF BookGrows
  <2>10. \A d \in sends' : VoiceCallRight(d)'
    BY <2>2, <2>9, AnswersGiven
  <2> QED BY <1>1, <2>7, <2>8, <2>9, <2>10 DEF BookInv
<1>7. CASE Voice!Refuse(c)
  <2>1. UNCHANGED logs /\ Voice!Answer(Voice!Same(c), "refused", {})
    BY <1>7 DEF Voice!Refuse
  <2>2. BookGrows
    BY <1>2, <2>1
  <2>3. Voice!Same(c) \in SUBSET sends
    BY DEF Voice!Same
  <2>4. \A d \in sends' : VoiceCallRight(d)'
    BY <2>1, <2>2, <2>3, AnswersGiven
  <2> QED BY <1>1, <1>2, <2>1, <2>4
<1> QED BY <1>3, <1>4, <1>5, <1>6, <1>7 DEF Voice!Serve

LEMMA VoiceLoses ==
  ASSUME BookInv, NEW c \in sends, Voice!Lose(c)
  PROVE  BookInv'
<1>1. UNCHANGED <<logs, tapped, blurred, cards, done, fix>>
  BY DEF Voice!Lose, Voice!deck, Voice!card, Voice!ghost
<1>2. BookGrows /\ Voice!Booked' = Voice!Booked /\ Wanted' = Wanted
  BY <1>1, BookKept
<1>3. PICK S \in SUBSET sends : Voice!Answer(S, "neterr", {})
  BY DEF Voice!Lose, Voice!Same
<1>4. \A d \in sends' : VoiceCallRight(d)'
  BY <1>2, <1>3, AnswersGiven
<1> QED BY <1>1, <1>2, <1>4 DEF BookInv, CardsRight

LEMMA BookInit == Voice!Init => BookInv
  BY DEF Voice!Init, Voice!NoCards, BookInv, CardsRight, Voice!Booked

LEMMA BookStep ==
  ASSUME BookInv, [Voice!Next]_(Voice!vars)
  PROVE  BookInv'
<1>1. ASSUME NEW c \in sends, Voice!Answered(c) \/ Voice!Serve(c) \/ Voice!Lose(c)
      PROVE  BookInv'
  BY <1>1, HeardStep, ConfirmAnsweredStep, CorrectAnsweredStep, VoiceServes, VoiceLoses
     DEF Voice!Answered
<1>2. CASE UNCHANGED Voice!vars
  <2>1. UNCHANGED <<logs, tapped, blurred, cards, done, fix, sends>>
    BY <1>2 DEF Voice!vars, Voice!deck, Voice!card, Voice!ghost
  <2>2. \A c \in sends' : c \in sends \/ Plain(c)
    BY <2>1
  <2> QED BY <2>1, <2>2, VoiceQuiet
<1>3. ASSUME NEW l \in DOMAIN cards, Voice!ConfirmRecord(l) \/ Voice!OpenCorrection(l)
      PROVE  BookInv'
  BY <1>3, TapStep, FixStep
<1>4. CASE Voice!ConfirmAll \/ Voice!SubmitCorrection
  BY <1>4, TapStep, FixStep
<1>5. CASE \/ Voice!Switch \/ Voice!SayAgain \/ Voice!OnStart \/ Voice!OnCancel \/ Voice!Respeak
           \/ Voice!LeaveRespeak \/ Voice!OnStop \/ Voice!OnError \/ Voice!SubmitText
           \/ Voice!RetryUpload \/ Voice!CloseCorrection
  BY <1>5, SayingStep
<1> QED BY Zenon, <1>1, <1>2, <1>3, <1>4, <1>5 DEF Voice!Next

-----------------------------------------------------------------------------
(* While no button was pressed before the recorder had stopped, there is   *)
(* one recording at most, and called off it is not waited for.             *)
TapeInv ==
  /\ said \in Nat /\ tapes \in Seq(1 .. said)
  /\ uploaded \subseteq 1 .. said /\ cancelled \subseteq 1 .. said
  /\ again \/ ( /\ Len(tapes) <= 1
                /\ uploaded \cap cancelled = {}
                /\ \A i \in DOMAIN tapes :
                     /\ tapes[i] \notin uploaded
                     /\ tapes[i] \in cancelled => flag \/ heard = "none" )

LEMMA TapeStep ==
  ASSUME TapeInv, [Voice!Next]_(Voice!vars)
  PROVE  TapeInv'
<1>k. ASSUME UNCHANGED <<said, tapes, heard, flag, again, cancelled, uploaded>> PROVE TapeInv'
  BY <1>k DEF TapeInv
<1>1. ASSUME NEW for, NEW at, Voice!Start(for, at), UNCHANGED uploaded PROVE TapeInv'
  <2>1. /\ said' = said + 1 /\ tapes' = Append(tapes, said + 1)
        /\ again' = (again \/ tapes # <<>>) /\ UNCHANGED cancelled
    BY <1>1 DEF Voice!Start
  <2>2. /\ said' \in Nat /\ tapes' \in Seq(1 .. said')
        /\ uploaded' \subseteq 1 .. said' /\ cancelled' \subseteq 1 .. said'
    BY <1>1, <2>1 DEF TapeInv
  <2>3. CASE again \/ tapes # <<>>
    BY <2>1, <2>2, <2>3 DEF TapeInv
  <2>4. CASE ~again /\ tapes = <<>>
    <3>1. tapes' = <<said + 1>> /\ said \in Nat
      BY <2>1, <2>4 DEF TapeInv
    <3>2. said + 1 \notin uploaded /\ said + 1 \notin cancelled
      BY <3>1 DEF TapeInv
    <3>3. Len(tapes') <= 1 /\ \A i \in DOMAIN tapes' : tapes'[i] = said + 1
      BY <3>1
    <3> QED BY <1>1, <2>1, <2>2, <2>4, <3>2, <3>3 DEF TapeInv
  <2> QED BY <2>3, <2>4
<1>2. ASSUME flag' = TRUE, cancelled' = cancelled \cup Voice!Recording,
             UNCHANGED <<said, tapes, heard, again, uploaded>>
      PROVE  TapeInv'
  <2>1. Voice!Recording \subseteq {tapes[i] : i \in DOMAIN tapes}
    BY DEF Voice!Recording, TapeInv
  <2>2. \A i \in DOMAIN tapes : tapes[i] \in 1 .. said
    BY DEF TapeInv
  <2>3. cancelled' \subseteq 1 .. said
    BY <1>2, <2>1, <2>2 DEF TapeInv
  <2>4. ~again => uploaded \cap cancelled' = {}
    BY <1>2, <2>1 DEF TapeInv
  <2> QED BY <1>2, <2>3, <2>4 DEF TapeInv
<1>3. ASSUME tapes # <<>>, tapes' = Tail(tapes), heard' = "none",
             UNCHANGED <<said, flag, again, cancelled>>,
             \/ UNCHANGED uploaded
             \/ uploaded' = uploaded \cup {Head(tapes)} /\ heard # "none" /\ ~flag
      PROVE  TapeInv'
  <2>1. /\ Head(tapes) = tapes[1] /\ 1 \in DOMAIN tapes /\ tapes' \in Seq(1 .. said)
        /\ Len(tapes') = Len(tapes) - 1 /\ Len(tapes) \in Nat
        /\ DOMAIN tapes' = 1 .. Len(tapes')
    BY <1>3 DEF TapeInv
  <2>2. tapes[1] \in 1 .. said
    BY <2>1 DEF TapeInv
  <2>3. said' \in Nat /\ uploaded' \subseteq 1 .. said' /\ cancelled' \subseteq 1 .. said'
    BY <1>3, <2>1, <2>2 DEF TapeInv
  <2>4. ASSUME ~again PROVE DOMAIN tapes' = {} /\ Len(tapes') <= 1 /\ uploaded' \cap cancelled' = {}
    <3>1. Len(tapes') = 0 \/ Len(tapes') < 0
      BY <2>1, <2>4 DEF TapeInv
    <3>2. DOMAIN tapes' = {} /\ Len(tapes') <= 1
      BY <2>1, <3>1
    <3>3. uploaded' \cap cancelled' = {}
      BY <1>3, <2>1, <2>4 DEF TapeInv
    <3> QED BY <3>2, <3>3
  <2> QED BY <1>3, <2>1, <2>3, <2>4 DEF TapeInv
<1> USE DEF Voice!record, Voice!ghost
<1>4. CASE Voice!OnStart \/ Voice!Respeak
  BY <1>1, <1>4 DEF Voice!OnStart, Voice!Respeak
<1>5. CASE Voice!OnCancel \/ Voice!LeaveRespeak
  BY <1>2, <1>5 DEF Voice!OnCancel, Voice!LeaveRespeak
<1>6. CASE Voice!OnStop
  <2>1. /\ tapes # <<>> /\ tapes' = Tail(tapes) /\ heard' = "none"
        /\ UNCHANGED <<said, flag, again, cancelled>>
    BY <1>6 DEF Voice!OnStop
  <2>2. \/ UNCHANGED uploaded
        \/ uploaded' = uploaded \cup {Head(tapes)} /\ heard # "none" /\ ~flag
    BY <1>6 DEF Voice!OnStop
  <2> QED BY <1>3, <2>1, <2>2
<1>7. CASE Voice!OnError
  <2>1. /\ tapes # <<>> /\ tapes' = Tail(tapes) /\ heard' = "none"
        /\ UNCHANGED <<said, flag, again, cancelled, uploaded>>
    BY <1>7 DEF Voice!OnError
  <2> QED BY <1>3, <2>1
<1>8. CASE Voice!SubmitText
  <2>1. said' = said + 1 /\ UNCHANGED <<tapes, heard, flag, again, cancelled, uploaded>>
    BY <1>8 DEF Voice!SubmitText
  <2>2. said \in Nat /\ tapes \in Seq(1 .. said) /\ 1 .. said \subseteq 1 .. said'
    BY <2>1 DEF TapeInv
  <2>3. tapes' \in Seq(1 .. said')
    BY <2>1, <2>2, SeqGrow
  <2> QED BY <2>1, <2>2, <2>3 DEF TapeInv
<1>9. CASE Voice!Switch \/ Voice!SayAgain \/ Voice!RetryUpload \/ Voice!ConfirmAll
           \/ Voice!CloseCorrection \/ Voice!SubmitCorrection
  BY <1>9, <1>k DEF Voice!Switch, Voice!SayAgain, Voice!RetryUpload, Voice!ConfirmAll,
     Voice!CloseCorrection, Voice!SubmitCorrection
<1>10. ASSUME NEW l \in DOMAIN cards, Voice!ConfirmRecord(l) \/ Voice!OpenCorrection(l)
       PROVE  TapeInv'
  BY <1>10, <1>k DEF Voice!ConfirmRecord, Voice!OpenCorrection
<1>11. ASSUME NEW c \in sends, Voice!Answered(c) \/ Voice!Serve(c) \/ Voice!Lose(c)
       PROVE  TapeInv'
  BY <1>11, <1>k DEF Voice!Answered, Voice!Serve, Voice!Lose, Voice!UploadAnswered,
     Voice!ParseAnswered, Voice!RespeakAnswered, Voice!ConfirmAnswered, Voice!CorrectAnswered
<1>12. CASE UNCHANGED Voice!vars
  BY <1>12, <1>k DEF Voice!vars
<1> QED
  BY Zenon, <1>4, <1>5, <1>6, <1>7, <1>8, <1>9, <1>10, <1>11, <1>12 DEF Voice!Next

LEMMA TapeInit == Voice!Init => TapeInv
  BY DEF Voice!Init, TapeInv

(* Only what was seen is booked, and what was called off is not sent,      *)
(* whatever the page shows by the time an answer comes.                    *)
THEOREM VoiceHeedsHolds == Voice!Spec => []VoiceHeeds
<1>1. BookInv /\ [Voice!Next]_(Voice!vars) => BookInv'
  BY BookStep
<1>2. TapeInv /\ [Voice!Next]_(Voice!vars) => TapeInv'
  BY TapeStep
<1>3. BookInv /\ TapeInv => VoiceHeeds
  BY DEF BookInv, TapeInv, VoiceHeeds, Voice!SeenIsBooked, Voice!CancelledStays, Wanted
<1> QED BY <1>1, <1>2, <1>3, BookInit, TapeInit, PTL DEF Voice!Spec

-----------------------------------------------------------------------------
(* The supplier page                                                       *)
IsAsked(c) == c = [kind |-> c.kind, of |-> c.of, with |-> c.with, at |-> c.at, got |-> c.got]

(* A comparison under way was asked for by the number it carries; the last *)
(* one is of what the page shows, and its answer is one the server could   *)
(* have given since it was asked.                                          *)
ComparisonRight(c) ==
  c.kind = "compare" =>
    /\ c.of \in 1 .. seq
    /\ c.of = seq => /\ c.with.sku = picked /\ c.with.sort = sort
                     /\ c.at = "out" => Compared(picked, sort) \in told
                     /\ c.at = "ok" => c.got \in told

ComparedInv ==
  /\ seq \in Nat
  /\ \A c \in calls : IsAsked(c) /\ ComparisonRight(c)
  /\ ComparedIsCurrent

LEMMA NoneFound == ASSUME NEW k, NEW f PROVE [sku |-> k, found |-> f] # None
<1>1. "sku" \in DOMAIN [sku |-> k, found |-> f]
  OBVIOUS
<1>2. "sku" \notin DOMAIN [none |-> TRUE]
  OBVIOUS
<1> QED BY <1>1, <1>2 DEF None

(* Requests of other kinds come and go.                                    *)
LEMMA OthersCalled ==
  ASSUME ComparedInv, UNCHANGED <<seq, picked, sort, result, advice, arrived, told>>,
         UNCHANGED <<sup, offers, history>>,
         \A c \in calls' : c \in calls \/ (IsAsked(c) /\ c.kind # "compare")
  PROVE  ComparedInv'
<1>1. Compared(picked, sort)' = Compared(picked, sort)
  BY DEF Compared, Best, Offered, CompareKey
<1>2. \A c \in calls' : IsAsked(c) /\ ComparisonRight(c)'
  BY <1>1 DEF ComparedInv, ComparisonRight
<1>3. ComparedIsCurrent'
  BY DEF ComparedInv, ComparedIsCurrent
<1> QED BY <1>2, <1>3 DEF ComparedInv, IsAsked

(* The list, the forms and what is unfolded.                               *)
LEMMA ScreenStep ==
  ASSUME ComparedInv, NEW s, NEW k, NEW b, NEW p,
         \/ Search(b) \/ LoadMore \/ CloseForm
         \/ ConfirmBlacklist \/ CancelBlacklist
         \/ Expand(s) \/ Deactivate(s) \/ RecalculateTapped(s)
         \/ ToggleBlacklist(s, b) \/ SaveProd(s, k, p)
         \/ OpenForm(s) \/ SaveSupplier(s) \/ RemoveProd(s)
         \/ LoadCompareRecommend
  PROVE  ComparedInv'
<1> USE DEF Rest, CompareKept, ListKept, compare, server,
            Send, LoadCall, Stable
<1>1. /\ UNCHANGED <<seq, picked, sort, result, advice, arrived, told>>
      /\ UNCHANGED <<sup, offers, history>>
  BY DEF Search, LoadMore, CloseForm, ConfirmBlacklist,
     CancelBlacklist, Expand, Deactivate, RecalculateTapped,
     ToggleBlacklist, SaveProd, OpenForm, SaveSupplier,
     RemoveProd, LoadCompareRecommend
<1>2. ASSUME NEW c \in calls', c \notin calls
      PROVE  \E kind, of, with : c = Call(kind, of, with) /\ kind # "compare"
  BY <1>2 DEF Search, LoadMore, CloseForm, ConfirmBlacklist,
     CancelBlacklist, Expand, Deactivate, RecalculateTapped,
     ToggleBlacklist, SaveProd, OpenForm, SaveSupplier,
     RemoveProd, LoadCompareRecommend
<1>3. ASSUME NEW c \in calls', c \notin calls PROVE IsAsked(c) /\ c.kind # "compare"
  <2>1. PICK kind, of, with : c = Call(kind, of, with) /\ kind # "compare"
    BY <1>2, <1>3
  <2> QED BY <2>1 DEF Call, IsAsked
<1>4. \A d \in calls' : d \in calls \/ (IsAsked(d) /\ d.kind # "compare")
  BY <1>3
<1> QED BY <1>1, <1>4, OthersCalled

LEMMA OtherAnswered ==
  ASSUME ComparedInv, NEW c \in calls,
         \/ LoadAnswered(c) \/ ReadAnswered(c) \/ ChangeAnswered(c)
         \/ UpdateAnswered(c)
  PROVE  ComparedInv'
<1> USE DEF Rest, CompareKept, ListKept, compare, server
<1>1. /\ UNCHANGED <<seq, picked, sort, result, advice, arrived, told>>
      /\ UNCHANGED <<sup, offers, history>>
  BY DEF LoadAnswered, ReadAnswered, ChangeAnswered, UpdateAnswered
<1>2. ASSUME NEW d \in calls', d \notin calls
      PROVE  \E kind, of, with : d = Call(kind, of, with) /\ kind # "compare"
  <2>1. CASE LoadAnswered(c) \/ ReadAnswered(c)
    BY <1>2, <2>1 DEF LoadAnswered, ReadAnswered
  <2>2. CASE ChangeAnswered(c)
    BY <1>2, <2>2 DEF ChangeAnswered, Again
  <2>3. CASE UpdateAnswered(c)
    <3>1. \E w : \/ d = Call("load", keyword, w)
                 \/ d = Call("detail", c.of, w)
                 \/ d = Call("products", c.of, w)
      BY <1>2, <2>3 DEF UpdateAnswered
    <3> QED BY <3>1
  <2> QED BY <2>1, <2>2, <2>3
<1>3. ASSUME NEW d \in calls', d \notin calls PROVE IsAsked(d) /\ d.kind # "compare"
  <2>1. PICK kind, of, with : d = Call(kind, of, with) /\ kind # "compare"
    BY <1>2, <1>3
  <2> QED BY <2>1 DEF Call, IsAsked
<1>4. \A d \in calls' : d \in calls \/ (IsAsked(d) /\ d.kind # "compare")
  BY <1>3
<1> QED BY <1>1, <1>4, OthersCalled

(* What the server would answer now is added to what it could have.        *)
LEMMA NotedStep ==
  ASSUME ComparedInv, UNCHANGED <<seq, picked, sort, result, advice>>, Noted,
         NEW C, calls' = C, \A c \in C : c \in calls \/ (IsAsked(c) /\ c.kind # "compare")
  PROVE  ComparedInv'
<1>1. arrived' = arrived /\ told \subseteq told'
  BY DEF Noted
<1>2. ASSUME NEW c \in calls, c \in C PROVE IsAsked(c) /\ ComparisonRight(c)'
  <2>1. IsAsked(c) /\ ComparisonRight(c)
    BY DEF ComparedInv
  <2>2. CASE c.kind = "compare" /\ c.of = seq /\ c.at = "out"
    <3>1. Compared(picked, sort)' \in told'
      BY <2>2 DEF Noted, Waited
    <3> QED BY <2>1, <2>2, <3>1 DEF ComparisonRight
  <2>3. CASE ~(c.kind = "compare" /\ c.of = seq /\ c.at = "out")
    BY <1>1, <2>1, <2>3 DEF ComparisonRight
  <2> QED BY <2>1, <2>2, <2>3
<1>3. \A c \in calls' : IsAsked(c) /\ ComparisonRight(c)'
  BY <1>2 DEF ComparisonRight
<1>4. ComparedIsCurrent'
  BY <1>1 DEF ComparedInv, ComparedIsCurrent
<1> QED BY <1>3, <1>4 DEF ComparedInv, IsAsked

LEMMA SupplyServes ==
  ASSUME ComparedInv, NEW c \in calls, Serve(c)
  PROVE  ComparedInv'
<1>0. IsAsked(c) /\ ComparisonRight(c)
  BY DEF ComparedInv
<1>1. c.at = "out" /\ UNCHANGED <<seq, picked, sort, result, advice>>
  BY DEF Serve, compare
<1>2. CASE c.kind \in Reads /\ Reply(c, "ok", Read(c))
           /\ UNCHANGED <<sup, offers, history, told, arrived>>
  <2>1. PICK got, d : got = Read(c) /\ d = [c EXCEPT !.at = "ok", !.got = got]
    OBVIOUS
  <2>2. IsAsked(d) /\ d.kind = c.kind /\ d.of = c.of /\ d.with = c.with /\ d.at = "ok"
        /\ d.got = got
    BY <1>0, <2>1 DEF IsAsked
  <2>3. calls' = (calls \ {c}) \cup {d}
    BY <1>2, <2>1 DEF Reply
  <2>4. Compared(picked, sort)' = Compared(picked, sort)
    BY <1>1, <1>2 DEF Compared, Best, Offered, CompareKey
  <2>5. ComparisonRight(d)'
    <3> SUFFICES ASSUME c.kind = "compare" PROVE ComparisonRight(d)'
      BY <2>2 DEF ComparisonRight
    <3>1. got = Compared(c.with.sku, c.with.sort)
      BY <2>1 DEF Read
    <3> QED BY <1>0, <1>1, <1>2, <2>2, <3>1 DEF ComparisonRight
  <2>6. \A e \in calls : ComparisonRight(e)'
    BY <1>1, <1>2, <2>4 DEF ComparedInv, ComparisonRight
  <2>7. ComparedIsCurrent'
    BY <1>1, <1>2 DEF ComparedInv, ComparedIsCurrent
  <2> QED BY <1>1, <2>2, <2>3, <2>5, <2>6, <2>7 DEF ComparedInv, IsAsked
<1>3. CASE c.kind \notin Reads /\ Reply(c, "ok", None) /\ Noted
  <2>1. PICK d, none : d = [c EXCEPT !.at = "ok", !.got = none] /\ none = None
    OBVIOUS
  <2>2. IsAsked(d) /\ d.kind = c.kind
    BY <1>0, <2>1 DEF IsAsked
  <2>3. PICK C : C = (calls \ {c}) \cup {d}
    OBVIOUS
  <2>4. calls' = C /\ d.kind # "compare"
    BY <1>3, <2>1, <2>2, <2>3 DEF Reply, Reads
  <2>5. \A e \in C : e \in calls \/ (IsAsked(e) /\ e.kind # "compare")
    <3>1. \A e \in C : e \in calls \/ e = d
      BY <2>3
    <3>2. IsAsked(d) /\ d.kind # "compare"
      BY <2>2, <2>4
    <3> QED BY ONLY <3>1, <3>2
  <2> QED BY <1>1, <1>3, <2>4, <2>5, NotedStep
<1>4. CASE Reply(c, "refused", None)
           /\ UNCHANGED <<sup, offers, history, told, arrived>>
  <2>1. PICK d, none : d = [c EXCEPT !.at = "refused", !.got = none] /\ none = None
    OBVIOUS
  <2>2. IsAsked(d) /\ d.kind = c.kind /\ d.of = c.of /\ d.with = c.with /\ d.at = "refused"
    BY <1>0, <2>1 DEF IsAsked
  <2>3. calls' = (calls \ {c}) \cup {d}
    BY <1>4, <2>1 DEF Reply
  <2>4. Compared(picked, sort)' = Compared(picked, sort)
    BY <1>1, <1>4 DEF Compared, Best, Offered, CompareKey
  <2>5. ComparisonRight(d)'
    BY <1>0, <1>1, <2>2 DEF ComparisonRight
  <2>6. \A e \in calls : ComparisonRight(e)'
    BY <1>1, <1>4, <2>4 DEF ComparedInv, ComparisonRight
  <2>7. ComparedIsCurrent'
    BY <1>1, <1>4 DEF ComparedInv, ComparedIsCurrent
  <2> QED BY <1>1, <2>2, <2>3, <2>5, <2>6, <2>7 DEF ComparedInv, IsAsked
<1> QED
  BY <1>2, <1>3, <1>4 DEF Serve, server

LEMMA SupplyLoses ==
  ASSUME ComparedInv, NEW c \in calls, Lose(c)
  PROVE  ComparedInv'
<1>0. IsAsked(c) /\ ComparisonRight(c)
  BY DEF ComparedInv
<1>1. UNCHANGED <<seq, picked, sort, result, advice, sup, offers, history, told, arrived>>
  BY DEF Lose, compare, server, ghost
<1>2. PICK d, none : d = [c EXCEPT !.at = "lost", !.got = none] /\ none = None
  OBVIOUS
<1>3. IsAsked(d) /\ d.kind = c.kind /\ d.of = c.of /\ d.with = c.with /\ d.at = "lost"
  BY <1>0, <1>2 DEF IsAsked
<1>4. calls' = (calls \ {c}) \cup {d}
  BY <1>2 DEF Lose, Reply
<1>5. Compared(picked, sort)' = Compared(picked, sort)
  BY <1>1 DEF Compared, Best, Offered, CompareKey
<1>6. ComparisonRight(d)'
  BY <1>0, <1>1, <1>3 DEF ComparisonRight
<1>7. \A e \in calls : ComparisonRight(e)'
  BY <1>1, <1>5 DEF ComparedInv, ComparisonRight
<1>8. ComparedIsCurrent'
  BY <1>1 DEF ComparedInv, ComparedIsCurrent
<1> QED BY <1>1, <1>3, <1>4, <1>6, <1>7, <1>8 DEF ComparedInv, IsAsked

(* A new asking has a number of its own.                                   *)
LEMMA AskStep ==
  ASSUME ComparedInv, NEW k, NEW by, Ask(k, by), picked' = k, sort' = by,
         UNCHANGED <<sup, offers, history>>,
         result' = None \/ (UNCHANGED result /\ k = picked),
         advice' = None \/ (UNCHANGED advice /\ k = picked)
  PROVE  ComparedInv'
<1>1. PICK n, with, c : /\ n = seq + 1 /\ with = [sku |-> k, sort |-> by]
                        /\ c = Call("compare", n, with)
  OBVIOUS
<1>2. IsAsked(c) /\ c.kind = "compare" /\ c.of = n /\ c.with = with /\ c.at = "out"
  BY <1>1 DEF Call, IsAsked
<1>3. seq \in Nat /\ seq' = n /\ calls' = calls \cup {c} /\ arrived' = FALSE
  BY <1>1 DEF ComparedInv, Ask, Send
<1>4. told' = {Compared(k, by)}
  BY DEF Ask
<1>5. Compared(picked, sort)' = Compared(k, by)
  BY DEF Compared, Best, Offered, CompareKey
<1>6. ComparisonRight(c)'
  BY <1>1, <1>2, <1>3, <1>4, <1>5 DEF ComparisonRight
<1>7. ASSUME NEW e \in calls PROVE IsAsked(e) /\ ComparisonRight(e)'
  BY <1>1, <1>3 DEF ComparedInv, ComparisonRight
<1>8. ComparedIsCurrent'
  BY <1>3 DEF ComparedInv, ComparedIsCurrent
<1> QED BY <1>1, <1>2, <1>3, <1>6, <1>7, <1>8 DEF ComparedInv, IsAsked

(* The dialog is opened anew, or its product taken back.                   *)
LEMMA ResetStep ==
  ASSUME ComparedInv, OpenCompare \/ ResetCompareSku
  PROVE  ComparedInv'
<1>1. /\ seq \in Nat /\ seq' = seq + 1 /\ result' = None /\ advice' = None
      /\ arrived' = FALSE
  BY DEF ComparedInv, OpenCompare, ResetCompareSku
<1>2. ASSUME NEW c \in calls', c \notin calls
      PROVE  IsAsked(c) /\ c.kind # "compare"
  <2>1. c = Call("skus", 0, None)
    BY <1>2 DEF OpenCompare, ResetCompareSku, Send
  <2> QED BY <2>1 DEF Call, IsAsked
<1>3. ASSUME NEW c \in calls PROVE IsAsked(c) /\ ComparisonRight(c)'
  BY <1>1 DEF ComparedInv, ComparisonRight
<1>4. \A c \in calls' : IsAsked(c) /\ ComparisonRight(c)'
  BY <1>2, <1>3 DEF ComparisonRight
<1>5. ComparedIsCurrent'
  BY <1>1 DEF ComparedIsCurrent
<1> QED BY <1>1, <1>4, <1>5 DEF ComparedInv, IsAsked

(* Only what the last asking brought is put on the screen.                 *)
LEMMA ComparisonHeard ==
  ASSUME ComparedInv, NEW c \in calls, CompareAnswered(c) \/ AdviceAnswered(c)
  PROVE  ComparedInv'
<1> USE DEF Stable, Rest, server
<1>0. IsAsked(c) /\ ComparisonRight(c)
  BY DEF ComparedInv
<1>1. /\ UNCHANGED <<seq, sort, told, sup, offers, history>> /\ calls' = calls \ {c}
  BY DEF CompareAnswered, AdviceAnswered
<1>2. picked' = picked
  BY <1>0 DEF CompareAnswered, AdviceAnswered, Heard, ComparisonRight
<1>3. Compared(picked, sort)' = Compared(picked, sort)
  BY <1>1, <1>2 DEF Compared, Best, Offered, CompareKey
<1>4. ASSUME NEW e \in calls' PROVE IsAsked(e) /\ ComparisonRight(e)'
  BY <1>1, <1>2, <1>3 DEF ComparedInv, ComparisonRight
<1>5. ComparedIsCurrent'
  <2>1. CASE CompareAnswered(c)
    <3>1. CASE Heard(c) /\ Ok(c)
      <4>1. PICK r : r = [sku |-> c.with.sku, found |-> c.got]
        OBVIOUS
      <4>2. r # None /\ r.sku = c.with.sku /\ r.found = c.got
        BY <4>1, NoneFound
      <4>3. result' = r /\ advice' = advice
        BY <2>1, <3>1, <4>1 DEF CompareAnswered
      <4>4. c.with.sku = picked /\ c.got \in told
        BY <1>0, <3>1 DEF Heard, Ok, ComparisonRight
      <4> QED BY <1>1, <1>2, <4>2, <4>3, <4>4 DEF ComparedInv, ComparedIsCurrent
    <3>2. CASE ~(Heard(c) /\ Ok(c))
      <4>1. result' = result /\ advice' = advice /\ (arrived' => arrived)
        BY <2>1, <3>2 DEF CompareAnswered, Heard
      <4> QED BY <1>1, <1>2, <4>1 DEF ComparedInv, ComparedIsCurrent
    <3> QED BY <3>1, <3>2
  <2>2. CASE AdviceAnswered(c)
    <3>1. PICK r : r = [sku |-> c.of, found |-> c.got]
      OBVIOUS
    <3>2. r.sku = c.of
      BY <3>1
    <3>3. /\ advice' = IF picked = c.of /\ Ok(c) THEN r ELSE advice
          /\ UNCHANGED <<result, arrived>>
      BY <2>2, <3>1 DEF AdviceAnswered
    <3> QED BY <1>1, <1>2, <3>2, <3>3 DEF ComparedInv, ComparedIsCurrent
  <2> QED BY <2>1, <2>2
<1> QED BY <1>1, <1>4, <1>5 DEF ComparedInv, IsAsked

LEMMA ComparedInit == PageInit => ComparedInv
  BY DEF PageInit, ComparedInv, ComparedIsCurrent

LEMMA ComparedStep ==
  ASSUME ComparedInv, [PageNext]_(pageVars)
  PROVE  ComparedInv'
<1>1. ASSUME NEW b \in BOOLEAN, Search(b) PROVE ComparedInv'
  BY <1>1, ScreenStep
<1>2. CASE LoadMore \/ CloseForm \/ ConfirmBlacklist \/ CancelBlacklist
  BY <1>2, ScreenStep
<1>3. ASSUME NEW s \in Known,
             Expand(s) \/ Deactivate(s) \/ RecalculateTapped(s)
      PROVE  ComparedInv'
  BY <1>3, ScreenStep
<1>4. ASSUME NEW s \in Known, NEW b \in BOOLEAN, ToggleBlacklist(s, b)
      PROVE  ComparedInv'
  BY <1>4, ScreenStep
<1>5. ASSUME NEW s \in Known, NEW k \in Sku, NEW p \in Prices, SaveProd(s, k, p)
      PROVE  ComparedInv'
  BY <1>5, ScreenStep
<1>6. ASSUME NEW s \in Known, NEW d \in Delivery, Delivered(s, d)
      PROVE  ComparedInv'
  <2>1. PICK C : C = calls
    OBVIOUS
  <2>2. calls' = C /\ UNCHANGED <<seq, picked, sort, result, advice>> /\ Noted
    BY <1>6, <2>1 DEF Delivered, compare
  <2>3. \A c \in C : c \in calls \/ (IsAsked(c) /\ c.kind # "compare")
    BY <2>1
  <2> QED BY <2>2, <2>3, NotedStep
<1>7. ASSUME NEW s \in Known \cup {0}, OpenForm(s) PROVE ComparedInv'
  BY <1>7, ScreenStep
<1>8. ASSUME NEW f \in Forms, SaveSupplier(f) PROVE ComparedInv'
  BY <1>8, ScreenStep
<1>9. ASSUME NEW n \in DOMAIN offers, RemoveProd(n) PROVE ComparedInv'
  BY <1>9, ScreenStep
<1>10. CASE OpenCompare \/ ResetCompareSku
  BY <1>10, ResetStep
<1>11. CASE LoadCompareRecommend
  BY <1>11, ScreenStep
<1>12. ASSUME NEW k \in Sku, PickCompareSku(k) PROVE ComparedInv'
  <2>1. /\ Ask(k, "value") /\ picked' = k /\ sort' = "value"
        /\ result' = None /\ advice' = None /\ UNCHANGED <<sup, offers, history>>
    BY <1>12 DEF PickCompareSku, Stable, Rest, server
  <2>2. /\ result' = None \/ (UNCHANGED result /\ k = picked)
        /\ advice' = None \/ (UNCHANGED advice /\ k = picked)
    BY <2>1
  <2>3. PICK by : by = "value"
    OBVIOUS
  <2>4. Ask(k, by) /\ picked' = k /\ sort' = by /\ UNCHANGED <<sup, offers, history>>
    BY <2>1, <2>3
  <2> QED BY <2>2, <2>4, AskStep
<1>13. ASSUME NEW by \in Sorts, SwitchCompareSort(by) PROVE ComparedInv'
  <2>1. PICK k : k = picked
    OBVIOUS
  <2>2. /\ Ask(k, by) /\ picked' = k /\ sort' = by
        /\ UNCHANGED <<result, advice, sup, offers, history>>
    BY <1>13, <2>1 DEF SwitchCompareSort, Stable, Rest, server
  <2> QED BY <2>1, <2>2, AskStep
<1>14. ASSUME NEW c \in calls, Answered(c) \/ Serve(c) \/ Lose(c)
       PROVE  ComparedInv'
  BY <1>14, OtherAnswered, ComparisonHeard, SupplyServes, SupplyLoses DEF Answered
<1>15. CASE UNCHANGED pageVars
  <2>1. UNCHANGED <<seq, picked, sort, result, advice, arrived, told, sup, offers, history, calls>>
    BY <1>15 DEF pageVars, server, compare, ghost
  <2>2. \A c \in calls' : c \in calls \/ (IsAsked(c) /\ c.kind # "compare")
    BY <2>1
  <2> QED BY <2>1, <2>2, OthersCalled
<1> QED
  BY Zenon, <1>1, <1>2, <1>3, <1>4, <1>5, <1>6, <1>7, <1>8, <1>9, <1>10, <1>11, <1>12, <1>13,
     <1>14, <1>15 DEF PageNext

(* What the page compares is of the product picked, and once the last      *)
(* asking is answered what the server could have given since, whatever     *)
(* answers overtake each other.                                            *)
THEOREM ComparedIsCurrentHolds == PageSpec => []ComparedIsCurrent
<1>1. ComparedInv /\ [PageNext]_(pageVars) => ComparedInv'
  BY ComparedStep
<1>2. ComparedInv => ComparedIsCurrent
  BY DEF ComparedInv
<1> QED BY <1>1, <1>2, ComparedInit, PTL DEF PageSpec

-----------------------------------------------------------------------------
(***************************************************************************)
(* The rankings of suppliers.                                              *)
(***************************************************************************)
LEMMA Divided ==
  ASSUME NEW n \in Int, NEW d \in Nat \ {0}
  PROVE  /\ n \div d \in Int /\ n % d \in Int /\ 0 <= n % d /\ n % d < d
         /\ n = d * (n \div d) + (n % d)
  OBVIOUS

LEMMA ProductUp ==
  ASSUME NEW a \in Int, NEW b \in Int, NEW c \in Nat, a <= b
  PROVE  a * c <= b * c
  OBVIOUS

LEMMA ProductDown ==
  ASSUME NEW a \in Int, NEW b \in Int, NEW c \in Nat \ {0}, a * c <= b * c
  PROVE  a <= b
<1> SUFFICES ASSUME b + 1 <= a PROVE FALSE
  OBVIOUS
<1>1. (b + 1) * c <= a * c
  BY ProductUp
<1>2. (b + 1) * c = b * c + c
  OBVIOUS
<1> QED BY <1>1, <1>2

(* A larger fraction is not rounded to less.                               *)
LEMMA RoundedInOrder ==
  ASSUME NEW m \in Int, NEW c \in Nat \ {0}, NEW n \in Int, NEW d \in Nat \ {0}, m * d <= n * c
  PROVE  HalfEven(m, c) <= HalfEven(n, d)
<1>1. PICK p \in Int, r \in Int : p = m \div c /\ r = m % c /\ 0 <= r /\ r < c /\ m = c * p + r
  BY Divided
<1>2. PICK q \in Int, s \in Int : q = n \div d /\ s = n % d /\ 0 <= s /\ s < d /\ n = d * q + s
  BY Divided
<1>3. /\ HalfEven(m, c) = IF 2 * r > c \/ (2 * r = c /\ p % 2 = 1) THEN p + 1 ELSE p
      /\ HalfEven(n, d) = IF 2 * s > d \/ (2 * s = d /\ q % 2 = 1) THEN q + 1 ELSE q
  BY <1>1, <1>2 DEF HalfEven
<1>4. ~ (q + 1 <= p)
  <2> SUFFICES ASSUME q + 1 <= p PROVE FALSE
    OBVIOUS
  <2>1. (q + 1) * c <= p * c
    BY ProductUp
  <2>2. (q + 1) * c <= m
    BY <1>1, <2>1
  <2>3. ((q + 1) * c) * d <= m * d
    BY <2>2, ProductUp
  <2>4. n + 1 <= (q + 1) * d
    BY <1>2
  <2>5. (n + 1) * c <= ((q + 1) * d) * c
    BY <2>4, ProductUp
  <2>6. ((q + 1) * c) * d = ((q + 1) * d) * c
    OBVIOUS
  <2>7. (n + 1) * c = n * c + c
    OBVIOUS
  <2>8. n * c \in Int /\ m * d \in Int /\ c \in Nat \ {0}
    OBVIOUS
  <2> HIDE <1>1, <1>2
  <2> QED BY <2>3, <2>5, <2>6, <2>7, <2>8
<1>5. CASE p < q
  BY <1>3, <1>5
<1>6. CASE p = q
  <2>1. r * d <= s * c
    <3>1. m * d = (c * q) * d + r * d /\ n * c = (d * q) * c + s * c
      BY <1>1, <1>2, <1>6
    <3>2. (c * q) * d = (d * q) * c
      OBVIOUS
    <3> QED BY <3>1, <3>2
  <2>2. ASSUME 2 * r >= c PROVE 2 * s >= d
    <3> SUFFICES ASSUME 2 * s + 1 <= d PROVE FALSE
      OBVIOUS
    <3>1. (2 * s + 1) * c <= d * c
      BY ProductUp
    <3>2. c * d <= (2 * r) * d
      BY <2>2, ProductUp
    <3>3. (2 * s + 1) * c = 2 * (s * c) + c /\ (2 * r) * d = 2 * (r * d) /\ c * d = d * c
      OBVIOUS
    <3>4. s * c \in Int /\ r * d \in Int /\ c * d \in Int
      OBVIOUS
    <3> QED BY <2>1, <3>1, <3>2, <3>3, <3>4
  <2>3. ASSUME 2 * r > c PROVE 2 * s > d
    <3> SUFFICES ASSUME 2 * s <= d PROVE FALSE
      OBVIOUS
    <3>1. (2 * s) * c <= d * c
      BY ProductUp
    <3>2. (c + 1) * d <= (2 * r) * d
      BY <2>3, ProductUp
    <3>3. (2 * s) * c = 2 * (s * c) /\ (2 * r) * d = 2 * (r * d) /\ (c + 1) * d = d * c + d
      OBVIOUS
    <3>4. s * c \in Int /\ r * d \in Int /\ d * c \in Int
      OBVIOUS
    <3> QED BY <2>1, <3>1, <3>2, <3>3, <3>4
  <2> QED BY <1>3, <1>6, <2>2, <2>3
<1> QED BY <1>4, <1>5, <1>6

LEMMA RoundedInt ==
  ASSUME NEW n \in Int, NEW d \in Nat \ {0}
  PROVE  HalfEven(n, d) \in Int
  BY Divided DEF HalfEven

-----------------------------------------------------------------------------
OfferRow == [id : Nat, supplier : Supplier, sku : Sku, price : Nat, there : BOOLEAN]
SupRow   == [there : BOOLEAN, active : BOOLEAN, black : BOOLEAN, lead : Int, credit : Int,
             score : Int, on_time : Int, quality : Int]

DirectoryType ==
  /\ sup \in [Supplier -> SupRow]
  /\ offers \in Seq(OfferRow)
  /\ history \in [Supplier -> Seq(Delivery)]

(* What a score is made of.                                                *)
Missing(h)  == Total(h, LAMBDA x : x.short) + Total(h, LAMBDA x : x.back)
Bad(h)      == Count(h, LAMBDA x : x.accepted /\ ~x.ok)
Late(h)     == Count(h, LAMBDA x : x.accepted /\ x.late)
Expected(h) == AtLeast(1, Total(h, LAMBDA x : x.qty))
Accepted(h) == AtLeast(1, Count(h, LAMBDA x : x.accepted))

PointsOf(e, a, m, b, l) == 10000 * e * a - 2500 * m * a - (3500 * b + 1500 * l) * e

LEMMA ScoreFacts ==
  ASSUME NEW h
  PROVE  ScoreOf(h) =
           [score   |-> HalfEven(AtLeast(0, PointsOf(Expected(h), Accepted(h), Missing(h), Bad(h), Late(h))),
                                 Expected(h) * Accepted(h)),
            on_time |-> HalfEven(10000 * (Accepted(h) - Late(h)), Accepted(h)),
            quality |-> HalfEven(10000 * Bad(h), Accepted(h))]
  BY DEF ScoreOf, Expected, Accepted, Missing, Bad, Late, PointsOf, Total, Sum, Count

LEMMA Deliveries ==
  ASSUME NEW h \in Seq(Delivery)
  PROVE  /\ IsFiniteSet(DOMAIN h)
         /\ \A i \in DOMAIN h :
              /\ h[i] \in Delivery
              /\ h[i].qty \in Nat /\ h[i].short \in Nat /\ h[i].back \in Nat
              /\ h[i].accepted \in BOOLEAN /\ h[i].ok \in BOOLEAN /\ h[i].late \in BOOLEAN
<1>1. Len(h) \in Nat /\ DOMAIN h = 1 .. Len(h) /\ \A i \in DOMAIN h : h[i] \in Delivery
  OBVIOUS
<1>2. IsFiniteSet(DOMAIN h)
  BY <1>1, FS_Interval
<1> QED BY <1>1, <1>2, SupplierShapes

LEMMA TotalInt ==
  ASSUME NEW h \in Seq(Delivery)
  PROVE  /\ Total(h, LAMBDA x : x.qty) \in Int
         /\ Total(h, LAMBDA x : x.short) \in Int
         /\ Total(h, LAMBDA x : x.back) \in Int
<1>1. IsFiniteSet(DOMAIN h)
  BY Deliveries
<1>2. /\ [i \in DOMAIN h |-> h[i].qty] \in [DOMAIN h -> Int]
      /\ [i \in DOMAIN h |-> h[i].short] \in [DOMAIN h -> Int]
      /\ [i \in DOMAIN h |-> h[i].back] \in [DOMAIN h -> Int]
  BY Deliveries
<1>3. /\ SumOf([i \in DOMAIN h |-> h[i].qty]) \in Int
      /\ SumOf([i \in DOMAIN h |-> h[i].short]) \in Int
      /\ SumOf([i \in DOMAIN h |-> h[i].back]) \in Int
  BY <1>1, <1>2, SumInt
<1> QED BY <1>3 DEF Total, Sum

LEMMA ScoreTypes ==
  ASSUME NEW h \in Seq(Delivery)
  PROVE  /\ Expected(h) \in Nat \ {0} /\ Accepted(h) \in Nat \ {0}
         /\ Missing(h) \in Int /\ Bad(h) \in Nat /\ Late(h) \in Nat
<1>1. IsFiniteSet(DOMAIN h)
  BY Deliveries
<1>2. /\ Cardinality({i \in DOMAIN h : h[i].accepted}) \in Nat
      /\ Cardinality({i \in DOMAIN h : h[i].accepted /\ ~h[i].ok}) \in Nat
      /\ Cardinality({i \in DOMAIN h : h[i].accepted /\ h[i].late}) \in Nat
  BY <1>1, FS_Subset, FS_CardinalityType
<1> QED BY <1>2, TotalInt DEF Expected, Accepted, Missing, Bad, Late, Count, AtLeast

LEMMA ScoreType ==
  ASSUME NEW h \in Seq(Delivery)
  PROVE  ScoreOf(h).score \in Int /\ ScoreOf(h).on_time \in Int /\ ScoreOf(h).quality \in Int
<1>1. PICK e \in Nat \ {0}, a \in Nat \ {0}, m \in Int, b \in Nat, l \in Nat :
        e = Expected(h) /\ a = Accepted(h) /\ m = Missing(h) /\ b = Bad(h) /\ l = Late(h)
  BY ScoreTypes
<1>2. PICK v \in Nat \ {0}, x \in Int, y \in Int, z \in Int :
        v = e * a /\ x = AtLeast(0, PointsOf(e, a, m, b, l)) /\ y = 10000 * (a - l) /\ z = 10000 * b
  <2>1. PICK v \in Nat \ {0}, w \in Int, y \in Int, z \in Int :
          v = e * a /\ w = PointsOf(e, a, m, b, l) /\ y = 10000 * (a - l) /\ z = 10000 * b
    <3>1. e * a \in Nat \ {0}
      OBVIOUS
    <3>2. PointsOf(e, a, m, b, l) \in Int
      BY DEF PointsOf
    <3>3. 10000 * (a - l) \in Int /\ 10000 * b \in Int
      OBVIOUS
    <3> QED BY <3>1, <3>2, <3>3
  <2>2. AtLeast(0, w) \in Int
    BY DEF AtLeast
  <2> QED BY <2>1, <2>2
<1>3. HalfEven(x, v) \in Int /\ HalfEven(y, a) \in Int /\ HalfEven(z, a) \in Int
  BY RoundedInt
<1>4. ScoreOf(h) = [score |-> HalfEven(x, v), on_time |-> HalfEven(y, a), quality |-> HalfEven(z, a)]
  <2>1. ScoreOf(h) =
           [score   |-> HalfEven(AtLeast(0, PointsOf(e, a, m, b, l)), e * a),
            on_time |-> HalfEven(10000 * (a - l), a), quality |-> HalfEven(10000 * b, a)]
    BY <1>1, ScoreFacts
  <2> QED BY <1>2, <2>1
<1> QED BY <1>3, <1>4

(* More of what is missing, bad or late is not worth more.                 *)
LEMMA PointsFall ==
  ASSUME NEW e \in Nat \ {0}, NEW a \in Nat \ {0},
         NEW m \in Int, NEW n \in Int, NEW b \in Nat, NEW c \in Nat, NEW l \in Nat, NEW k \in Nat,
         m <= n, b <= c, l <= k
  PROVE  HalfEven(AtLeast(0, PointsOf(e, a, n, c, k)), e * a)
           <= HalfEven(AtLeast(0, PointsOf(e, a, m, b, l)), e * a)
<1>1. (2500 * m) * a <= (2500 * n) * a
  BY ProductUp
<1>2. (3500 * b + 1500 * l) * e <= (3500 * c + 1500 * k) * e
  BY ProductUp
<1>3. PICK v \in Int : v = 10000 * e * a
  OBVIOUS
<1>4. /\ (2500 * m) * a \in Int /\ (2500 * n) * a \in Int
      /\ (3500 * b + 1500 * l) * e \in Int /\ (3500 * c + 1500 * k) * e \in Int
  OBVIOUS
<1>5. PICK x \in Int, y \in Int : /\ x = AtLeast(0, PointsOf(e, a, n, c, k))
                                 /\ y = AtLeast(0, PointsOf(e, a, m, b, l)) /\ x <= y
  <2>1. /\ PointsOf(e, a, n, c, k) = v - (2500 * n) * a - (3500 * c + 1500 * k) * e
        /\ PointsOf(e, a, m, b, l) = v - (2500 * m) * a - (3500 * b + 1500 * l) * e
    BY <1>3 DEF PointsOf
  <2>2. PICK n1 \in Int, n2 \in Int, m1 \in Int, m2 \in Int :
          /\ n1 = (2500 * n) * a /\ n2 = (3500 * c + 1500 * k) * e
          /\ m1 = (2500 * m) * a /\ m2 = (3500 * b + 1500 * l) * e
    BY <1>4
  <2>3. m1 <= n1 /\ m2 <= n2
    BY <1>1, <1>2, <2>2
  <2>4. PointsOf(e, a, n, c, k) = v - n1 - n2 /\ PointsOf(e, a, m, b, l) = v - m1 - m2
    BY <2>1, <2>2
  <2>5. PICK x, y \in Int : x = v - n1 - n2 /\ y = v - m1 - m2 /\ x <= y
    BY <2>3
  <2>6. AtLeast(0, x) \in Int /\ AtLeast(0, y) \in Int /\ AtLeast(0, x) <= AtLeast(0, y)
    BY <2>5 DEF AtLeast
  <2> QED BY <2>4, <2>5, <2>6
<1>6. e * a \in Nat \ {0}
  OBVIOUS
<1>7. x * (e * a) <= y * (e * a)
  BY <1>5, <1>6, ProductUp
<1> QED BY <1>5, <1>6, <1>7, RoundedInOrder

LEMMA WorseScores ==
  ASSUME NEW h \in Seq(Delivery), NEW i \in DOMAIN h, NEW x \in Delivery, Worse(x, h[i])
  PROVE  ScoreOf([h EXCEPT ![i] = x]).score <= ScoreOf(h).score
<1>1. PICK g : g = [h EXCEPT ![i] = x]
  OBVIOUS
<1>2. g \in Seq(Delivery) /\ DOMAIN g = DOMAIN h /\ g[i] = x /\ \A j \in DOMAIN h \ {i} : g[j] = h[j]
  BY <1>1
<1>3. /\ IsFiniteSet(DOMAIN h)
      /\ \A j \in DOMAIN h : /\ h[j].qty \in Int /\ h[j].short \in Int /\ h[j].back \in Int
                             /\ g[j].qty \in Int /\ g[j].short \in Int /\ g[j].back \in Int
                             /\ h[j].ok \in BOOLEAN /\ g[j].ok \in BOOLEAN
                             /\ h[j].late \in BOOLEAN /\ g[j].late \in BOOLEAN
                             /\ h[j].accepted \in BOOLEAN /\ g[j].accepted \in BOOLEAN
  BY <1>2, Deliveries
<1>4. \A j \in DOMAIN h : /\ g[j].qty = h[j].qty /\ g[j].accepted = h[j].accepted
                          /\ g[j].short >= h[j].short /\ g[j].back >= h[j].back
                          /\ (~h[j].ok => ~g[j].ok) /\ (h[j].late => g[j].late)
  BY <1>2, <1>3 DEF Worse
<1>5. Expected(g) = Expected(h)
  <2>1. [j \in DOMAIN g |-> g[j].qty] = [j \in DOMAIN h |-> h[j].qty]
    BY <1>2, <1>4
  <2> QED BY <2>1 DEF Expected, Total, Sum
<1>6. Accepted(g) = Accepted(h)
  <2>1. {j \in DOMAIN g : g[j].accepted} = {j \in DOMAIN h : h[j].accepted}
    BY <1>2, <1>4
  <2> QED BY <2>1 DEF Accepted, Count
<1>7. Missing(h) <= Missing(g)
  <2>1. PICK f1, f2, g1, g2 :
          /\ f1 = [j \in DOMAIN h |-> h[j].short] /\ f2 = [j \in DOMAIN h |-> h[j].back]
          /\ g1 = [j \in DOMAIN h |-> g[j].short] /\ g2 = [j \in DOMAIN h |-> g[j].back]
    OBVIOUS
  <2>2. /\ f1 \in [DOMAIN h -> Int] /\ f2 \in [DOMAIN h -> Int]
        /\ g1 \in [DOMAIN h -> Int] /\ g2 \in [DOMAIN h -> Int]
        /\ \A j \in DOMAIN h : f1[j] <= g1[j] /\ f2[j] <= g2[j]
    BY <1>3, <1>4, <2>1
  <2>3. SumOf(f1) <= SumOf(g1) /\ SumOf(f2) <= SumOf(g2)
    BY <1>3, <2>2, SumAtMost
  <2>4. SumOf(f1) \in Int /\ SumOf(g1) \in Int /\ SumOf(f2) \in Int /\ SumOf(g2) \in Int
    BY <1>3, <2>2, SumInt
  <2>5. Missing(h) = SumOf(f1) + SumOf(f2) /\ Missing(g) = SumOf(g1) + SumOf(g2)
    BY Zenon, <1>2, <2>1 DEF Missing, Total, Sum
  <2> QED BY <2>3, <2>4, <2>5
<1>8. Bad(h) <= Bad(g)
  <2>1. PICK S, T : /\ S = {j \in DOMAIN h : h[j].accepted /\ ~h[j].ok}
                    /\ T = {j \in DOMAIN g : g[j].accepted /\ ~g[j].ok}
    OBVIOUS
  <2>2. S \subseteq T /\ T \subseteq DOMAIN h
    BY <1>2, <1>4, <2>1
  <2>3. Cardinality(S) <= Cardinality(T)
    BY <1>3, <2>2, FS_Subset
  <2> QED BY <2>1, <2>3 DEF Bad, Count
<1>9. Late(h) <= Late(g)
  <2>1. PICK S, T : /\ S = {j \in DOMAIN h : h[j].accepted /\ h[j].late}
                    /\ T = {j \in DOMAIN g : g[j].accepted /\ g[j].late}
    OBVIOUS
  <2>2. S \subseteq T /\ T \subseteq DOMAIN h
    BY <1>2, <1>4, <2>1
  <2>3. Cardinality(S) <= Cardinality(T)
    BY <1>3, <2>2, FS_Subset
  <2> QED BY <2>1, <2>3 DEF Late, Count
<1>10. /\ Expected(h) \in Nat \ {0} /\ Accepted(h) \in Nat \ {0}
       /\ Missing(h) \in Int /\ Bad(h) \in Nat /\ Late(h) \in Nat
       /\ Missing(g) \in Int /\ Bad(g) \in Nat /\ Late(g) \in Nat
  BY <1>2, ScoreTypes
<1>11. /\ ScoreOf(h).score =
            HalfEven(AtLeast(0, PointsOf(Expected(h), Accepted(h), Missing(h), Bad(h), Late(h))),
                     Expected(h) * Accepted(h))
       /\ ScoreOf(g).score =
            HalfEven(AtLeast(0, PointsOf(Expected(h), Accepted(h), Missing(g), Bad(g), Late(g))),
                     Expected(h) * Accepted(h))
  BY <1>5, <1>6, ScoreFacts
<1>12. ScoreOf(g).score <= ScoreOf(h).score
  <2>1. PICK e \in Nat \ {0}, a \in Nat \ {0}, m \in Int, n \in Int, b \in Nat, c \in Nat,
             l \in Nat, k \in Nat :
          /\ e = Expected(h) /\ a = Accepted(h) /\ m = Missing(h) /\ n = Missing(g)
          /\ b = Bad(h) /\ c = Bad(g) /\ l = Late(h) /\ k = Late(g)
    BY <1>10
  <2>2. m <= n /\ b <= c /\ l <= k
    BY <1>7, <1>8, <1>9, <2>1
  <2>3. HalfEven(AtLeast(0, PointsOf(e, a, n, c, k)), e * a)
          <= HalfEven(AtLeast(0, PointsOf(e, a, m, b, l)), e * a)
    BY <2>2, PointsFall
  <2>4. /\ ScoreOf(h).score = HalfEven(AtLeast(0, PointsOf(e, a, m, b, l)), e * a)
        /\ ScoreOf(g).score = HalfEven(AtLeast(0, PointsOf(e, a, n, c, k)), e * a)
    BY Zenon, <1>11, <2>1
  <2> QED BY Zenon, <2>3, <2>4
<1> QED BY <1>1, <1>12

-----------------------------------------------------------------------------
LEMMA OfferedFacts ==
  ASSUME DirectoryType, NEW k, NEW o \in Offered(k)
  PROVE  /\ o.price \in Nat /\ o.supplier \in Supplier
         /\ LET s == sup[o.supplier] IN
              /\ s.lead \in Int /\ s.credit \in Int /\ s.score \in Int
              /\ s.on_time \in Int /\ s.quality \in Int
<1>1. \A i \in DOMAIN offers : offers[i] \in OfferRow
  BY DEF DirectoryType
<1>2. o \in OfferRow
  BY <1>1 DEF Offered, Range
<1> QED BY <1>2 DEF OfferRow, SupRow, DirectoryType

LEMMA BetterFigures ==
  ASSUME DirectoryType, NEW k, NEW o \in Offered(k), NEW p \in Offered(k), AtLeastAsGood(o, p)
  PROVE  LET s == sup[o.supplier]
             r == sup[p.supplier] IN
         /\ 0 < o.price /\ 0 < s.score /\ 0 < s.on_time /\ 0 < s.lead
         /\ 0 < p.price /\ 0 < r.score /\ 0 < r.on_time /\ 0 < r.lead
         /\ o.price <= p.price /\ s.score >= r.score /\ s.on_time >= r.on_time
         /\ s.quality <= r.quality /\ s.credit >= r.credit /\ s.lead <= r.lead
<1>1. PICK f, g : /\ f = Figures(o) /\ g = Figures(p)
                  /\ f.known /\ g.known /\ \A x \in DOMAIN f \ {"known"} : f[x] >= g[x]
  BY DEF AtLeastAsGood
<1>2. DOMAIN f = {"known", "price", "score", "on_time", "quality", "credit", "lead"}
  BY <1>1 DEF Figures
<1>3. /\ f.price >= g.price /\ f.score >= g.score /\ f.on_time >= g.on_time
      /\ f.quality >= g.quality /\ f.credit >= g.credit /\ f.lead >= g.lead
  BY <1>1, <1>2
<1>4. /\ o.price \in Nat /\ p.price \in Nat
      /\ sup[o.supplier].lead \in Int /\ sup[o.supplier].quality \in Int
      /\ sup[p.supplier].lead \in Int /\ sup[p.supplier].quality \in Int
  BY OfferedFacts
<1>5. /\ Figures(o).known = /\ o.price > 0 /\ sup[o.supplier].score > 0
                             /\ sup[o.supplier].on_time > 0 /\ sup[o.supplier].lead > 0
      /\ Figures(p).known = /\ p.price > 0 /\ sup[p.supplier].score > 0
                             /\ sup[p.supplier].on_time > 0 /\ sup[p.supplier].lead > 0
  BY Zenon DEF Figures
<1>6. /\ o.price > 0 /\ sup[o.supplier].score > 0
      /\ sup[o.supplier].on_time > 0 /\ sup[o.supplier].lead > 0
      /\ p.price > 0 /\ sup[p.supplier].score > 0
      /\ sup[p.supplier].on_time > 0 /\ sup[p.supplier].lead > 0
  BY Zenon, <1>1, <1>5
<1>7. /\ o.price <= p.price /\ sup[o.supplier].score >= sup[p.supplier].score
      /\ sup[o.supplier].on_time >= sup[p.supplier].on_time
      /\ sup[o.supplier].quality <= sup[p.supplier].quality
      /\ sup[o.supplier].credit >= sup[p.supplier].credit
      /\ sup[o.supplier].lead <= sup[p.supplier].lead
  BY <1>1, <1>3, <1>4 DEF Figures
<1> QED BY <1>4, <1>6, <1>7

LEMMA Compares ==
  ASSUME DirectoryType, NEW k, NEW o \in Offered(k), NEW p \in Offered(k), AtLeastAsGood(o, p),
         NEW by \in {"price", "score", "lead", "value"}
  PROVE  CompareKey(o, by) >= CompareKey(p, by)
<1>1. PICK s, r : s = sup[o.supplier] /\ r = sup[p.supplier]
  OBVIOUS
<1>2. /\ o.price \in Nat \ {0} /\ p.price \in Nat \ {0}
      /\ s.lead \in Int /\ s.score \in Nat \ {0} /\ r.lead \in Int /\ r.score \in Nat \ {0}
      /\ s.lead > 0 /\ r.lead > 0
      /\ o.price <= p.price /\ s.score >= r.score /\ s.lead <= r.lead
  BY <1>1, OfferedFacts, BetterFigures
<1>3. CASE by = "price"
  BY <1>1, <1>2, <1>3 DEF CompareKey
<1>4. CASE by = "score"
  BY <1>1, <1>2, <1>4 DEF CompareKey
<1>5. CASE by = "lead"
  BY <1>1, <1>2, <1>5 DEF CompareKey, NoHours
<1>6. CASE by = "value"
  <2>1. /\ CompareKey(o, by) = HalfEven(s.score, o.price)
        /\ CompareKey(p, by) = HalfEven(r.score, p.price)
    BY <1>1, <1>2, <1>6 DEF CompareKey
  <2>2. r.score * o.price <= s.score * o.price
    BY <1>2, ProductUp
  <2>3. o.price * s.score <= p.price * s.score
    BY <1>2, ProductUp
  <2>4. r.score * o.price <= s.score * p.price
    BY <1>2, <2>2, <2>3
  <2>5. HalfEven(r.score, p.price) <= HalfEven(s.score, o.price)
    BY <1>2, <2>4, RoundedInOrder
  <2>6. HalfEven(r.score, p.price) \in Int /\ HalfEven(s.score, o.price) \in Int
    BY <1>2, RoundedInt
  <2> QED BY <2>1, <2>5, <2>6
<1> QED BY <1>3, <1>4, <1>5, <1>6

LEMMA Recommends ==
  ASSUME DirectoryType, NEW k, NEW o \in Offered(k), NEW p \in Offered(k), AtLeastAsGood(o, p),
         NEW u \in {"urgent", "cost", "normal"}
  PROVE  RecommendKey(o, u) >= RecommendKey(p, u)
<1>1. PICK s, r : s = sup[o.supplier] /\ r = sup[p.supplier]
  OBVIOUS
<1>2. /\ o.price \in Nat \ {0} /\ p.price \in Nat \ {0}
      /\ s.lead \in Nat \ {0} /\ s.score \in Int /\ s.on_time \in Nat \ {0}
      /\ s.quality \in Int /\ s.credit \in Int
      /\ r.lead \in Nat \ {0} /\ r.score \in Int /\ r.on_time \in Nat \ {0}
      /\ r.quality \in Int /\ r.credit \in Int
      /\ o.price <= p.price /\ s.score >= r.score /\ s.on_time >= r.on_time
      /\ s.quality <= r.quality /\ s.credit >= r.credit /\ s.lead <= r.lead
  BY <1>1, OfferedFacts, BetterFigures
<1>3. /\ OnTime(s) = s.on_time /\ OnTime(r) = r.on_time /\ Lead(s) = s.lead /\ Lead(r) = r.lead
      /\ Penalty(o) \in Int /\ Penalty(p) \in Int /\ Penalty(o) >= Penalty(p)
  BY <1>2 DEF OnTime, Lead, Penalty, AtLeast, NoHours
<1>4. PICK x \in Int, y \in Int : x = Points(o, u) /\ y = Points(p, u) /\ y <= x
  <2>1. CASE u = "urgent"
    BY <1>1, <1>2, <1>3, <2>1 DEF Points
  <2>2. CASE u = "cost"
    BY <1>1, <1>2, <2>2 DEF Points
  <2>3. CASE u = "normal"
    BY <1>1, <1>2, <1>3, <2>3 DEF Points
  <2> QED BY <2>1, <2>2, <2>3
<1>5. y * 200 <= x * 200
  BY <1>4
<1>6. HalfEven(y, 200) <= HalfEven(x, 200) /\ HalfEven(x, 200) \in Int /\ HalfEven(y, 200) \in Int
  BY <1>5, RoundedInOrder, RoundedInt
<1> QED BY <1>4, <1>6 DEF RecommendKey

LEMMA DirectoryRanks == DirectoryType => RankingIsFair
<1> SUFFICES ASSUME DirectoryType PROVE RankingIsFair
  OBVIOUS
<1>1. WorseNeverScoresBetter
  <2> SUFFICES ASSUME NEW s \in Known, NEW i \in DOMAIN history[s], NEW x \in Delivery,
                      Worse(x, history[s][i])
               PROVE  ScoreOf([history[s] EXCEPT ![i] = x]).score <= ScoreOf(history[s]).score
    BY DEF WorseNeverScoresBetter
  <2>1. history[s] \in Seq(Delivery)
    BY DEF DirectoryType, Known
  <2> QED BY <2>1, WorseScores
<1>2. RankedAsTheyAre
  BY Compares, Recommends DEF RankedAsTheyAre
<1> QED BY <1>1, <1>2 DEF RankingIsFair

-----------------------------------------------------------------------------
LEMMA RowFacts ==
  /\ \A b \in BOOLEAN : [Row EXCEPT !.there = b] \in SupRow
  /\ \A l, c \in Int : [Row EXCEPT !.lead = l, !.credit = c] \in SupRow
<1>1. -1 \in Int /\ 0 \in Int
  OBVIOUS
<1>2. PICK r : r = Row
  OBVIOUS
<1>3. r \in SupRow
  BY Zenon, <1>1, <1>2 DEF Row, SupRow, NoHours
<1>4. /\ \A b \in BOOLEAN : [r EXCEPT !.there = b] \in SupRow
      /\ \A l, c \in Int : [r EXCEPT !.lead = l, !.credit = c] \in SupRow
  BY <1>3 DEF SupRow
<1> QED BY <1>2, <1>4

LEMMA DirectoryInit == ServerInit({}, <<>>) => DirectoryType
<1> SUFFICES ASSUME ServerInit({}, <<>>) PROVE DirectoryType
  OBVIOUS
<1>1. <<>> \in Seq(OfferRow) /\ <<>> \in Seq(Delivery)
  OBVIOUS
<1>2. \A b \in BOOLEAN : [Row EXCEPT !.there = b] \in SupRow
  BY RowFacts
<1>3. sup \in [Supplier -> SupRow]
  <2>1. \A s \in Supplier : sup[s] = [Row EXCEPT !.there = s \in {}]
    BY DEF ServerInit
  <2>2. \A s \in Supplier : (s \in {}) = FALSE
    OBVIOUS
  <2>3. \A s \in Supplier : sup[s] \in SupRow
    BY Zenon, <1>2, <2>1, <2>2
  <2> QED BY <2>3 DEF ServerInit
<1> QED BY <1>1, <1>3 DEF ServerInit, DirectoryType

LEMMA Changes ==
  ASSUME DirectoryType, NEW s \in Supplier, NEW row \in SupRow, Change(s, row)
  PROVE  DirectoryType'
  BY DEF DirectoryType, Change

LEMMA DirectoryStep == DirectoryType /\ [ServerNext]_server => DirectoryType'
<1> SUFFICES ASSUME DirectoryType, [ServerNext]_server PROVE DirectoryType'
  OBVIOUS
<1>1. ASSUME UNCHANGED server PROVE DirectoryType'
  BY <1>1 DEF server, DirectoryType
<1>2. ASSUME NEW s \in Supplier, NEW f \in Forms, CreateSupplier(s, f) PROVE DirectoryType'
  <2>1. f.lead \in Int /\ f.credit \in Int
    BY SupplierShapes
  <2>2. [Row EXCEPT !.lead = f.lead, !.credit = f.credit] \in SupRow
    BY <2>1, RowFacts
  <2> QED BY <1>2, <2>2, Changes DEF CreateSupplier
<1>3. ASSUME NEW s \in Known, RecalculateScore(s) PROVE DirectoryType'
  <2>1. s \in Supplier /\ sup[s] \in SupRow /\ history[s] \in Seq(Delivery)
    BY DEF Known, DirectoryType
  <2>2. PICK new : new = ScoreOf(history[s])
    OBVIOUS
  <2>3. new.score \in Int /\ new.on_time \in Int /\ new.quality \in Int
    BY <2>1, <2>2, ScoreType
  <2>4. PICK old : old = sup[s]
    OBVIOUS
  <2>5. [old EXCEPT !.score = new.score, !.on_time = new.on_time, !.quality = new.quality] \in SupRow
    BY <2>1, <2>3, <2>4 DEF SupRow
  <2>6. \/ UNCHANGED server
        \/ Change(s, [old EXCEPT !.score = new.score, !.on_time = new.on_time, !.quality = new.quality])
    BY Zenon, <1>3, <2>2, <2>4 DEF RecalculateScore
  <2> QED BY <1>1, <2>1, <2>5, <2>6, Changes
<1>4. ASSUME NEW s \in Known, NEW f \in Forms, UpdateSupplier(s, f) PROVE DirectoryType'
  <2>1. f.lead \in Int /\ f.credit \in Int /\ s \in Supplier /\ sup[s] \in SupRow
    BY SupplierShapes DEF Known, DirectoryType
  <2>2. PICK old : old = sup[s]
    OBVIOUS
  <2>3. [old EXCEPT !.lead = f.lead, !.credit = f.credit] \in SupRow
    BY <2>1, <2>2 DEF SupRow
  <2>4. Change(s, [old EXCEPT !.lead = f.lead, !.credit = f.credit])
    BY <1>4, <2>2 DEF UpdateSupplier
  <2> QED BY <2>1, <2>3, <2>4, Changes
<1>5. ASSUME NEW s \in Known, NEW k \in Sku, NEW p \in Prices, AddOffer(s, k, p) PROVE DirectoryType'
  <2>1. s \in Supplier /\ p \in Nat /\ offers \in Seq(OfferRow)
    BY SupplierShapes DEF Known, DirectoryType
  <2>2. PICK o : o = Offer(Len(offers) + 1, s, k, p)
    OBVIOUS
  <2>3. o \in OfferRow
    BY <2>1, <2>2 DEF Offer, OfferRow
  <2>4. offers' = Append(offers, o)
    BY <1>5, <2>2 DEF AddOffer
  <2> QED BY <1>5, <2>1, <2>3, <2>4 DEF AddOffer, DirectoryType
<1>6. ASSUME NEW s \in Known, NEW d \in Delivery, Deliver(s, d) PROVE DirectoryType'
  <2>1. s \in Supplier /\ history \in [Supplier -> Seq(Delivery)]
    BY DEF Known, DirectoryType
  <2>2. history' = [history EXCEPT ![s] = Append(history[s], d)] /\ UNCHANGED <<sup, offers>>
    BY <1>6 DEF Deliver
  <2>3. Append(history[s], d) \in Seq(Delivery)
    BY <2>1
  <2> QED BY <2>1, <2>2, <2>3 DEF DirectoryType
<1>7. ASSUME NEW n \in DOMAIN offers, RemoveOffer(n) PROVE DirectoryType'
  <2>1. offers \in Seq(OfferRow) /\ offers[n] \in OfferRow
    BY DEF DirectoryType
  <2>2. PICK o : o = [offers[n] EXCEPT !.there = FALSE]
    OBVIOUS
  <2>3. o \in OfferRow
    BY <2>1, <2>2 DEF OfferRow
  <2>4. offers' = [offers EXCEPT ![n] = o] /\ UNCHANGED <<sup, history>>
    BY <1>7, <2>2 DEF RemoveOffer
  <2> QED BY <2>1, <2>3, <2>4 DEF DirectoryType
<1> QED BY Zenon, <1>1, <1>2, <1>3, <1>4, <1>5, <1>6, <1>7 DEF ServerNext

(* A delivery that had been worse never scores better, and an offer that   *)
(* is at least as good in every figure known never ranks below:            *)
(* supplier_scoring.py, compare_suppliers, recommend_best_supplier.        *)
THEOREM RankingIsFairHolds == ServerSpec => []RankingIsFair
<1> QED BY DirectoryInit, DirectoryStep, DirectoryRanks, PTL DEF ServerSpec

-----------------------------------------------------------------------------
(* The limiter of logins *)

Asker == 1 .. setup.requests
Try == [by : Asker, at : Nat]
AskRow == [at : {"new", "check", "count", "decide", "add", "judge", "clear", "done"},
           key : Login!Key, from : Login!Key, time : Nat]

LoginType ==
  /\ backend \in {"memory", "redis"} /\ door \in {"staff", "admin", "wechat"}
  /\ setup \in Policies /\ now \in Nat \ {0}
  /\ asks \in [Asker -> AskRow]
  /\ tries \in [Login!Key -> SUBSET Try] /\ wrong \in [Login!Key -> SUBSET Try]
  /\ \A k \in Login!Key : IsFiniteSet(tries[k]) /\ IsFiniteSet(wrong[k])
  /\ lapse \in [Login!Key -> Nat] /\ locked \in [Login!Key -> Nat]

(* Where a request can be, and on which key.                               *)
Course(r) ==
  /\ r \in AskRow /\ r.time <= now
  /\ r.at = "new" => r = Login!New
  /\ r.at = "done" => r = Login!Done
  /\ r.at \notin {"new", "done"} => r.from \in Address /\ r.key \in {r.from, "all"}
  /\ door = "wechat" /\ r.at \notin {"new", "done"}
       => r.key = r.from /\ r.at \in {"check", "count", "add"}
  /\ backend = "redis" /\ r.at = "decide" => r.key = r.from
  /\ backend = "memory" => r.at \in {"new", "check", "decide", "done"}
  /\ backend = "memory" /\ r.at = "decide" => door = "admin"
  /\ backend = "memory" /\ door # "wechat" /\ r.at \notin {"new", "done"} => r.key = "all"

OnCourse == \A c \in Asker : Course(asks[c])
FewTogether == Cardinality(Login!UnderWay) <= MaxTogether

(* Nothing counted is of later, and Redis keeps a counter for a window.    *)
InThePast == \A k \in Login!Key : \A x \in tries[k] \cup wrong[k] : x.at <= now
Lasting ==
  backend = "redis" =>
    \A k \in Login!Key : \A x \in tries[k] : x.at + Login!Rule(k).window <= lapse[k]

(* Who may still be counted under a key: he has passed its check.          *)
MayFail(r, k) ==
  \/ r.at = "decide" /\ k \in {r.from, "all"}
  \/ r.at = "add" /\ (r.key = k \/ (door # "wechat" /\ k = "all"))
  \/ /\ door # "wechat" /\ k = "all" /\ r.at \in {"check", "count", "judge"}
     /\ r.key # "all"

LetThrough(k) == {c \in Asker : MayFail(asks[c], k)}
CountedNow(k) == {x.by : x \in Login!Within(tries[k], k, now)}
Charged(k) == CountedNow(k) \cup LetThrough(k)

FewCharged == \A k \in Login!Key : Cardinality(Charged(k)) <= Login!Rule(k).max + Login!Overlap

(* A failure is counted, or its request is about to count it.              *)
StaysCounted(x, k) == \E y \in tries[k] : y.by = x.by /\ y.at >= x.at
AllCharged ==
  \A k \in Login!Key : \A x \in Login!Within(wrong[k], k, now) :
    x.by \in LetThrough(k) \/ StaysCounted(x, k)

(* Nobody fails twice.                                                     *)
Told == IF door = "wechat" THEN {"done"} ELSE {"add", "judge", "done"}
OneFailureEach ==
  \A k \in Login!Key :
    /\ \A x, y \in wrong[k] : x.by = y.by => x = y
    /\ \A x \in wrong[k] : asks[x.by].at \in Told

(* In memory: how a lock came about, and what is counted without one.      *)
EarnedBy(W, k, from) ==
  /\ \E x \in W : x.at = from
  /\ Cardinality({x \in W : x.at <= from /\ from - x.at < Login!Rule(k).window}) >= Login!Rule(k).max

Fair(T, L, W, k) ==
  /\ T \subseteq W
  /\ L # 0 => EarnedBy(W, k, L - Login!Rule(k).lock)
  /\ L = 0 => Cardinality(Login!Within(T, k, now)) < Login!Rule(k).max
  /\ L # 0 /\ door = "staff" => \A x \in W : x.at + Login!Rule(k).lock <= L

Earned ==
  backend = "memory" /\ door # "wechat" =>
    \A k \in Login!Key : Fair(tries[k], locked[k], wrong[k], k)
NoLocks == backend = "memory" /\ door = "wechat" => \A k \in Login!Key : locked[k] = 0

LoginInv ==
  LoginType /\ OnCourse /\ FewTogether /\ InThePast /\ Lasting /\ FewCharged /\ AllCharged
    /\ OneFailureEach /\ Earned /\ NoLocks

LEMMA LoginCounts == \A S : Login!Cardinality(S) = Cardinality(S)
  BY DEF Login!Cardinality, Cardinality

LEMMA RuleFacts ==
  ASSUME setup \in Policies, NEW k \in Login!Key
  PROVE  /\ Login!Rule(k).max \in Nat \ {0} /\ Login!Rule(k).window \in Nat
         /\ Login!Rule(k).lock \in Nat /\ Login!Rule(k).window <= Login!Rule(k).lock
  BY LoginRules DEF Login!Rule

LEMMA OverlapType == Login!Overlap \in Nat
  BY LoginRules DEF Login!Overlap

(* Those who did something are at most as many as what was done.           *)
LEMMA DoersFew ==
  ASSUME NEW S, IsFiniteSet(S)
  PROVE  /\ IsFiniteSet({x.by : x \in S})
         /\ Cardinality({x.by : x \in S}) <= Cardinality(S)
<1> DEFINE T == {x.by : x \in S}
           f == [x \in S |-> x.by]
<1>1. f \in Surjection(S, T)
  BY DEF Surjection
<1> QED BY <1>1, FS_Surjection

(* ... and as many, when nobody did two things.                            *)
LEMMA DeedsFew ==
  ASSUME NEW S, NEW T, IsFiniteSet(T), \A x \in S : x.by \in T,
         \A x, y \in S : x.by = y.by => x = y
  PROVE  Cardinality(S) <= Cardinality(T)
<1> DEFINE f == [x \in S |-> x.by]
<1>1. f \in Injection(S, T)
  BY DEF Injection, IsInjective
<1> QED BY <1>1, FS_Injection

LEMMA FewerInPart ==
  ASSUME NEW T, IsFiniteSet(T), NEW S \in SUBSET T
  PROVE  /\ IsFiniteSet(S) /\ Cardinality(S) <= Cardinality(T)
         /\ Cardinality(S) \in Nat /\ Cardinality(T) \in Nat
  BY FS_Subset, FS_CardinalityType

LEMMA AskersFinite == LoginType => IsFiniteSet(Asker) /\ Asker = DOMAIN asks
<1> SUFFICES ASSUME LoginType PROVE IsFiniteSet(Asker) /\ Asker = DOMAIN asks
  OBVIOUS
<1>1. setup.requests \in Nat
  BY LoginRules DEF LoginType
<1> QED BY <1>1, FS_Interval DEF LoginType, Asker

LEMMA ChargedFinite ==
  ASSUME LoginType, NEW k \in Login!Key
  PROVE  Charged(k) \subseteq Asker /\ IsFiniteSet(Charged(k)) /\ Cardinality(Charged(k)) \in Nat
<1>1. Charged(k) \subseteq Asker
  BY DEF Charged, CountedNow, LetThrough, LoginType, Login!Within, Try
<1> QED BY <1>1, AskersFinite, FewerInPart

LEMMA LoginLimits == LoginInv => Login!LimitsAreFair
<1> SUFFICES ASSUME LoginInv PROVE Login!TriesBounded /\ Login!LockIsEarned
  BY DEF Login!LimitsAreFair
<1>1. ASSUME NEW k \in Login!Key
      PROVE  Cardinality(Login!Within(wrong[k], k, now)) <= Login!Rule(k).max + Login!Overlap
  <2> DEFINE W == Login!Within(wrong[k], k, now)
  <2>1. \A x \in W : x.by \in Charged(k)
    <3> SUFFICES ASSUME NEW x \in W, x.by \notin LetThrough(k) PROVE x.by \in CountedNow(k)
      BY DEF Charged
    <3>1. PICK y \in tries[k] : y.by = x.by /\ y.at >= x.at
      BY DEF LoginInv, AllCharged, StaysCounted
    <3>2. x.at \in Nat /\ y.at \in Nat /\ now \in Nat /\ Login!Rule(k).window \in Nat
      BY RuleFacts DEF LoginInv, LoginType, Login!Within, Try
    <3>3. now - x.at < Login!Rule(k).window
      BY DEF Login!Within
    <3>4. y \in Login!Within(tries[k], k, now)
      BY <3>1, <3>2, <3>3 DEF Login!Within
    <3> QED BY <3>1, <3>4 DEF CountedNow
  <2>2. \A x, y \in W : x.by = y.by => x = y
    BY DEF LoginInv, OneFailureEach, Login!Within
  <2>3. IsFiniteSet(Charged(k)) /\ Cardinality(Charged(k)) \in Nat
    BY ChargedFinite DEF LoginInv
  <2>4. Cardinality(W) <= Cardinality(Charged(k))
    <3> HIDE DEF W
    <3> QED BY <2>1, <2>2, <2>3, DeedsFew
  <2>5. Cardinality(Charged(k)) <= Login!Rule(k).max + Login!Overlap
    BY DEF LoginInv, FewCharged
  <2>6. IsFiniteSet(W) /\ Cardinality(W) \in Nat
    BY FewerInPart DEF LoginInv, LoginType, Login!Within
  <2>7. Login!Rule(k).max \in Nat /\ Login!Overlap \in Nat
    BY RuleFacts, OverlapType DEF LoginInv, LoginType
  <2> QED BY <2>3, <2>4, <2>5, <2>6, <2>7
<1>2. Login!TriesBounded
  BY <1>1, LoginCounts DEF Login!TriesBounded
<1>3. ASSUME backend = "memory", NEW k \in Login!Key, locked[k] > now
      PROVE  EarnedBy(wrong[k], k, locked[k] - Login!Rule(k).lock)
  <2>1. locked[k] # 0
    BY <1>3 DEF LoginInv, LoginType
  <2> QED BY <1>3, <2>1 DEF LoginInv, Earned, Fair, NoLocks
<1>4. Login!LockIsEarned
  BY <1>3, LoginCounts DEF Login!LockIsEarned, EarnedBy
<1> QED BY <1>2, <1>4

LEMMA LoginStarts == Login!Init => LoginInv
<1> SUFFICES ASSUME Login!Init PROVE LoginInv
  OBVIOUS
<1>1. /\ setup \in Policies /\ backend = setup.backend /\ door = setup.door /\ now = 1
      /\ asks = [c \in 1 .. setup.requests |-> Login!New]
      /\ tries = [k \in Login!Key |-> {}] /\ lapse = [k \in Login!Key |-> 0]
      /\ locked = [k \in Login!Key |-> 0] /\ wrong = [k \in Login!Key |-> {}]
  BY DEF Login!Init
<1>2. Login!New \in AskRow /\ Login!New.at = "new" /\ Login!New.time = 0
  BY DEF Login!New, Login!Call, AskRow, Login!Key
<1>3. LoginType
  BY <1>1, <1>2, FS_EmptySet, LoginRules DEF LoginType, Asker
<1>4. OnCourse
  BY <1>1, <1>2 DEF OnCourse, Course, Asker
<1>5. Login!UnderWay = {}
  BY <1>1 DEF Login!UnderWay
<1>6. FewTogether
  BY <1>5, FS_EmptySet, LoginRules DEF FewTogether
<1>7. \A k \in Login!Key : Charged(k) = {}
  BY <1>1, <1>2 DEF Charged, CountedNow, LetThrough, MayFail, Login!Within, Asker
<1>8. FewCharged
  <2> SUFFICES ASSUME NEW k \in Login!Key
               PROVE  Cardinality(Charged(k)) <= Login!Rule(k).max + Login!Overlap
    BY DEF FewCharged
  <2>1. Login!Rule(k).max \in Nat /\ Login!Overlap \in Nat
    BY <1>3, RuleFacts, OverlapType DEF LoginType
  <2>2. Charged(k) = {} /\ Cardinality({}) = 0
    BY <1>7, FS_EmptySet
  <2>3. Cardinality(Charged(k)) = 0
    BY <2>2
  <2> QED BY <2>1, <2>3
<1>9. \A k \in Login!Key : Cardinality(Login!Within(tries[k], k, now)) < Login!Rule(k).max
  <2> SUFFICES ASSUME NEW k \in Login!Key
               PROVE  Cardinality(Login!Within(tries[k], k, now)) < Login!Rule(k).max
    OBVIOUS
  <2>1. Login!Within(tries[k], k, now) = {}
    BY <1>1 DEF Login!Within
  <2> QED BY <1>3, <2>1, FS_EmptySet, RuleFacts DEF LoginType
<1>10. Earned
  BY <1>1, <1>9 DEF Earned, Fair
<1>11. InThePast /\ Lasting /\ AllCharged /\ OneFailureEach /\ NoLocks
  BY <1>1 DEF InThePast, Lasting, AllCharged, OneFailureEach, NoLocks, Login!Within
<1> QED BY <1>3, <1>4, <1>6, <1>8, <1>10, <1>11 DEF LoginInv

(* What stays as it is when a request moves.                               *)
SameRules == UNCHANGED <<backend, door, setup, now>>
Moved(c, r) == SameRules /\ asks' = [asks EXCEPT ![c] = r]

LEMMA AskMoves ==
  ASSUME LoginInv, NEW c \in Asker, NEW r, Course(r), Moved(c, r)
  PROVE  /\ OnCourse' /\ asks' \in [Asker -> AskRow]'
         /\ c \in Login!UnderWay \/ Cardinality(Login!UnderWay) < MaxTogether => FewTogether'
         /\ \A k : /\ MayFail(r, k) => LetThrough(k)' = LetThrough(k) \cup {c}
                   /\ ~MayFail(r, k) => LetThrough(k)' = LetThrough(k) \ {c}
<1> USE DEF Moved, SameRules
<1>1. Asker' = Asker /\ AskRow' = AskRow
  BY DEF Asker, AskRow, Login!Key
<1>2. asks \in [Asker -> AskRow] /\ r \in AskRow
  BY DEF LoginInv, LoginType, Course
<1>3. asks' \in [Asker -> AskRow]
  BY <1>2
<1>4. OnCourse'
  <2>1. \A q : Course(q)' <=> Course(q)
    BY DEF Course, AskRow, Login!Key, Login!New, Login!Done
  <2>2. \A d \in Asker : Course(asks'[d])
    BY <1>2 DEF LoginInv, OnCourse
  <2>3. \A d \in Asker : Course(asks[d])'
    BY <2>2 DEF Course, AskRow, Login!Key, Login!New, Login!Done
  <2> QED BY <1>1, <2>3 DEF OnCourse
<1>5. \A k : /\ MayFail(r, k) => LetThrough(k)' = LetThrough(k) \cup {c}
             /\ ~MayFail(r, k) => LetThrough(k)' = LetThrough(k) \ {c}
  <2> SUFFICES ASSUME NEW k
               PROVE  /\ MayFail(r, k) => LetThrough(k)' = LetThrough(k) \cup {c}
                      /\ ~MayFail(r, k) => LetThrough(k)' = LetThrough(k) \ {c}
    OBVIOUS
  <2>1. LetThrough(k)' = {d \in Asker : MayFail(asks'[d], k)}
    BY <1>1 DEF LetThrough, MayFail
  <2>2. asks'[c] = r /\ \A d \in Asker \ {c} : asks'[d] = asks[d]
    BY <1>2
  <2> QED BY <2>1, <2>2 DEF LetThrough
<1>6. ASSUME c \in Login!UnderWay \/ Cardinality(Login!UnderWay) < MaxTogether PROVE FewTogether'
  <2> DEFINE U == Login!UnderWay
  <2>1. U \subseteq Asker /\ IsFiniteSet(U) /\ Cardinality(U) \in Nat
    BY <1>2, AskersFinite, FewerInPart DEF Login!UnderWay, LoginInv, LoginType
  <2>2. U' \subseteq U \cup {c}
    BY <1>2, <1>3 DEF Login!UnderWay
  <2> HIDE DEF U
  <2>3. IsFiniteSet(U \cup {c}) /\ Cardinality(U \cup {c}) <= MaxTogether
    <3>1. Cardinality(U) <= MaxTogether
      BY DEF LoginInv, FewTogether, U
    <3>2. /\ IsFiniteSet(U \cup {c})
          /\ Cardinality(U \cup {c}) = IF c \in U THEN Cardinality(U) ELSE Cardinality(U) + 1
      BY <2>1, FS_AddElement
    <3>3. c \in U \/ Cardinality(U) < MaxTogether
      BY <1>6 DEF U
    <3> QED BY <2>1, <3>1, <3>2, <3>3, LoginRules
  <2>4. Cardinality(U') <= MaxTogether
    BY <2>2, <2>3, FewerInPart, LoginRules
  <2> QED BY <2>4 DEF FewTogether, U
<1> QED BY <1>1, <1>3, <1>4, <1>5, <1>6

(* A key to whose account nobody comes whom it did not hold already.       *)
LEMMA NoneMoreCharged ==
  ASSUME LoginInv, SameRules, NEW k \in Login!Key, Charged(k)' \subseteq Charged(k)
  PROVE  Cardinality(Charged(k)') <= (Login!Rule(k).max + Login!Overlap)'
<1>1. IsFiniteSet(Charged(k)) /\ Cardinality(Charged(k)) <= Login!Rule(k).max + Login!Overlap
  BY ChargedFinite DEF LoginInv, FewCharged
<1>2. Login!Rule(k)' = Login!Rule(k) /\ Login!Overlap' = Login!Overlap
  BY DEF SameRules, Login!Rule, Login!Overlap
<1>3. Login!Rule(k).max \in Nat /\ Login!Overlap \in Nat
  BY RuleFacts, OverlapType DEF LoginInv, LoginType
<1>4. /\ Cardinality(Charged(k)') <= Cardinality(Charged(k))
      /\ Cardinality(Charged(k)') \in Nat /\ Cardinality(Charged(k)) \in Nat
  BY <1>1, FewerInPart
<1> QED BY <1>1, <1>2, <1>3, <1>4

(* One who passes a check finds fewer than the rule counted, and besides   *)
(* him only those who are under way with him.                              *)
LEMMA PassedTheCheck ==
  ASSUME LoginType, LoginType', FewTogether', SameRules, NEW k \in Login!Key,
         backend = "redis" \/ door = "admin",
         NEW C, IsFiniteSet(C), Cardinality(C) < Login!Rule(k).max,
         Charged(k)' \subseteq {x.by : x \in C} \cup LetThrough(k)'
  PROVE  Cardinality(Charged(k)') <= (Login!Rule(k).max + Login!Overlap)'
<1> DEFINE B == {x.by : x \in C}
           L == LetThrough(k)'
           U == Login!UnderWay'
<1>1. IsFiniteSet(U) /\ Cardinality(U) <= MaxTogether
  <2>1. U \subseteq Asker'
    BY DEF Login!UnderWay, LoginType
  <2>2. IsFiniteSet(Asker')
    BY AskersFinite DEF SameRules, Asker
  <2> QED BY <2>1, <2>2, FewerInPart DEF FewTogether
<1>2. L \subseteq U
  BY DEF LetThrough, MayFail, Login!UnderWay, LoginType, Login!New, Login!Done, Login!Call
<1>3. IsFiniteSet(B) /\ Cardinality(B) <= Cardinality(C)
  BY DoersFew
<1>4. IsFiniteSet(L) /\ Cardinality(L) <= Cardinality(U) /\ Cardinality(L) \in Nat /\ Cardinality(U) \in Nat
  <2> HIDE DEF L, U
  <2> QED BY <1>1, <1>2, FewerInPart
<1>5. Login!Rule(k)' = Login!Rule(k) /\ Login!Overlap' = MaxTogether - 1
  BY DEF SameRules, Login!Rule, Login!Overlap, LoginType
<1>6. Login!Rule(k).max \in Nat
  BY RuleFacts DEF LoginType
<1> HIDE DEF B, L, U
<1>7. Cardinality(C) \in Nat /\ Cardinality(B) \in Nat
  BY <1>3, FS_CardinalityType
<1>8. /\ IsFiniteSet(B \cup L) /\ Cardinality(B \cup L) <= Cardinality(B) + Cardinality(L)
      /\ Cardinality(B \cup L) \in Nat
  <2>1. IsFiniteSet(B \cap L) /\ Cardinality(B \cap L) \in Nat
    BY <1>3, FewerInPart
  <2>2. /\ IsFiniteSet(B \cup L)
        /\ Cardinality(B \cup L) = Cardinality(B) + Cardinality(L) - Cardinality(B \cap L)
    BY <1>3, <1>4, FS_Union
  <2>3. Cardinality(B \cup L) \in Nat
    BY <2>2, FS_CardinalityType
  <2> QED BY <1>4, <1>7, <2>1, <2>2, <2>3
<1>9. Cardinality(Charged(k)') <= Cardinality(B \cup L) /\ Cardinality(Charged(k)') \in Nat
  BY <1>8, FewerInPart DEF B, L
<1> QED BY <1>1, <1>3, <1>4, <1>5, <1>6, <1>7, <1>8, <1>9, LoginRules

LEMMA FailuresMove ==
  ASSUME LoginInv, NEW c \in Asker, NEW r, Moved(c, r),
         \A k \in Login!Key : wrong'[k] \subseteq wrong[k], asks[c].at \in Told => r.at \in Told
  PROVE  OneFailureEach'
<1>1. Login!Key' = Login!Key /\ Told' = Told
  BY DEF Login!Key, Told, Moved, SameRules
<1>2. \A d : asks[d].at \in Told /\ d \in Asker => asks'[d].at \in Told
  BY DEF LoginInv, LoginType, Moved
<1>3. \A k \in Login!Key : \A x \in wrong[k] : x.by \in Asker
  BY DEF LoginInv, LoginType, Try
<1> QED BY <1>1, <1>2, <1>3 DEF OneFailureEach, LoginInv

LEMMA FailureTold ==
  ASSUME LoginInv, NEW c \in Asker, NEW r, Moved(c, r), asks[c].at \notin Told, r.at \in Told,
         NEW x, x.by = c,
         \A k \in Login!Key : wrong'[k] \subseteq wrong[k] \cup {x}
  PROVE  OneFailureEach'
<1>1. Login!Key' = Login!Key /\ Told' = Told
  BY DEF Login!Key, Told, Moved, SameRules
<1>2. /\ asks'[c].at \in Told
      /\ \A d \in Asker : asks[d].at \in Told => asks'[d].at \in Told
  BY DEF LoginInv, LoginType, Moved
<1>3. \A k \in Login!Key : \A y \in wrong[k] : y.by \in Asker /\ asks[y.by].at \in Told
  BY DEF LoginInv, LoginType, Try, OneFailureEach
<1>4. \A k \in Login!Key : \A y, z \in wrong[k] : y.by = z.by => y = z
  BY DEF LoginInv, OneFailureEach
<1>5. \A k \in Login!Key : \A y \in wrong[k] : y.by # x.by
  BY <1>3
<1> QED BY <1>1, <1>2, <1>3, <1>4, <1>5 DEF OneFailureEach

LEMMA ChargesMove ==
  ASSUME LoginInv, NEW c \in Asker, NEW r, Course(r), Moved(c, r),
         \A k \in Login!Key : \A x \in Login!Within(wrong'[k], k, now) :
           \/ x.by = c /\ MayFail(r, k)
           \/ \E y \in tries'[k] : y.by = x.by /\ y.at >= x.at
           \/ /\ x \in wrong[k] /\ (x.by = c => ~MayFail(asks[c], k))
              /\ Login!Within(tries[k], k, now) \subseteq tries'[k]
  PROVE  AllCharged'
<1> SUFFICES ASSUME NEW k \in Login!Key, NEW x \in Login!Within(wrong'[k], k, now)
             PROVE  x.by \in LetThrough(k)' \/ \E y \in tries'[k] : y.by = x.by /\ y.at >= x.at
  BY DEF AllCharged, StaysCounted, Login!Within, Login!Rule, Login!Key, Moved, SameRules
<1>1. /\ MayFail(r, k) => LetThrough(k)' = LetThrough(k) \cup {c}
      /\ ~MayFail(r, k) => LetThrough(k)' = LetThrough(k) \ {c}
  BY AskMoves
<1>2. CASE x.by = c /\ MayFail(r, k)
  BY <1>1, <1>2
<1>3. CASE /\ x \in wrong[k] /\ (x.by = c => ~MayFail(asks[c], k))
           /\ Login!Within(tries[k], k, now) \subseteq tries'[k]
  <2>1. x \in Login!Within(wrong[k], k, now)
    BY <1>3 DEF Login!Within
  <2>2. CASE x.by \in LetThrough(k)
    BY <1>1, <1>3, <2>2 DEF LetThrough
  <2>3. CASE StaysCounted(x, k)
    <3>1. PICK y \in tries[k] : y.by = x.by /\ y.at >= x.at
      BY <2>3 DEF StaysCounted
    <3>2. x.at \in Nat /\ y.at \in Nat /\ now \in Nat /\ Login!Rule(k).window \in Nat
      BY <1>3, RuleFacts DEF LoginInv, LoginType, Try
    <3>3. y \in Login!Within(tries[k], k, now)
      BY <2>1, <3>1, <3>2 DEF Login!Within
    <3> QED BY <1>3, <3>1, <3>3
  <2> QED BY <2>1, <2>2, <2>3 DEF LoginInv, AllCharged
<1> QED BY <1>2, <1>3

(* What a request that moves finds, and that it moves within the limits.   *)
LEMMA AskFacts ==
  ASSUME LoginInv, NEW c \in DOMAIN asks
  PROVE  /\ c \in Asker /\ asks[c] \in AskRow /\ Course(asks[c])
         /\ asks[c].at \notin {"new", "done"} => c \in Login!UnderWay /\ asks[c].from \in Login!Key
         /\ asks[c].key \in Login!Key /\ asks[c].from \in Login!Key
<1>1. c \in Asker /\ asks[c] \in AskRow /\ Course(asks[c])
  BY DEF LoginInv, LoginType, OnCourse
<1> QED BY <1>1 DEF AskRow, Login!UnderWay, Login!New, Login!Done, Login!Call

LEMMA RowType ==
  ASSUME NEW at \in {"new", "check", "count", "decide", "add", "judge", "clear", "done"},
         NEW k \in Login!Key, NEW from \in Login!Key, NEW t \in Nat
  PROVE  /\ Login!Call(at, k, from, t) \in AskRow
         /\ Login!Call(at, k, from, t).at = at /\ Login!Call(at, k, from, t).key = k
         /\ Login!Call(at, k, from, t).from = from /\ Login!Call(at, k, from, t).time = t
  BY DEF Login!Call, AskRow

LEMMA DoneOnCourse == LoginType => Course(Login!Done) /\ \A k : ~MayFail(Login!Done, k)
<1> SUFFICES ASSUME LoginType PROVE Course(Login!Done) /\ \A k : ~MayFail(Login!Done, k)
  OBVIOUS
<1>1. Login!Done \in AskRow /\ Login!Done.at = "done" /\ Login!Done.time = 0
  BY RowType DEF Login!Done, Login!Key
<1> QED BY <1>1 DEF Course, MayFail, LoginType

(* A step of a request which leaves the counters alone.                    *)
LEMMA OnlyMoves ==
  ASSUME LoginInv, NEW c \in Asker, NEW r, Course(r), Moved(c, r), UNCHANGED <<tries, lapse, wrong>>,
         c \in Login!UnderWay \/ Cardinality(Login!UnderWay) < MaxTogether,
         locked' \in [Login!Key -> Nat], backend = "redis" \/ locked' = locked,
         asks[c].at \in Told => r.at \in Told,
         \A k \in Login!Key : MayFail(r, k) => MayFail(asks[c], k),
         asks[c].at \in Told => \A k \in Login!Key : MayFail(asks[c], k) => MayFail(r, k)
  PROVE  LoginInv'
<1>1. Asker' = Asker /\ Try' = Try /\ Login!Key' = Login!Key
  BY DEF Moved, SameRules, Asker, Try, Login!Key
<1>2. /\ OnCourse' /\ asks' \in [Asker -> AskRow]' /\ FewTogether'
      /\ \A k : /\ MayFail(r, k) => LetThrough(k)' = LetThrough(k) \cup {c}
                /\ ~MayFail(r, k) => LetThrough(k)' = LetThrough(k) \ {c}
  BY Zenon, AskMoves
<1>3. LoginType'
  BY <1>1, <1>2 DEF LoginInv, LoginType, Moved, SameRules
<1>4. FewCharged'
  <2> SUFFICES ASSUME NEW k \in Login!Key
               PROVE  Cardinality(Charged(k)') <= (Login!Rule(k).max + Login!Overlap)'
    BY <1>1 DEF FewCharged
  <2>1. LetThrough(k)' \subseteq LetThrough(k)
    BY <1>2 DEF LetThrough
  <2>2. CountedNow(k)' = CountedNow(k)
    BY DEF CountedNow, Login!Within, Login!Rule, Moved, SameRules
  <2>3. Charged(k)' \subseteq Charged(k)
    BY <2>1, <2>2 DEF Charged
  <2> QED BY <2>3, NoneMoreCharged DEF Moved
<1>5. AllCharged'
  <2>1. ASSUME NEW k \in Login!Key, NEW x \in Login!Within(wrong'[k], k, now)
        PROVE  \/ x.by = c /\ MayFail(r, k)
               \/ /\ x \in wrong[k] /\ (x.by = c => ~MayFail(asks[c], k))
                  /\ Login!Within(tries[k], k, now) \subseteq tries'[k]
    <3>1. x \in wrong[k] /\ Login!Within(tries[k], k, now) \subseteq tries'[k]
      BY <2>1 DEF Login!Within
    <3>2. asks[x.by].at \in Told
      BY <3>1 DEF LoginInv, OneFailureEach
    <3> QED BY <3>1, <3>2
  <2> QED BY <2>1, ChargesMove
<1>6. OneFailureEach'
  BY FailuresMove
<1>7. InThePast' /\ Lasting' /\ NoLocks'
  BY DEF InThePast, Lasting, NoLocks, Moved, SameRules, LoginInv, Login!Key, Login!Rule
<1>8. Earned'
  BY DEF Earned, Fair, EarnedBy, Moved, SameRules, LoginInv, Login!Key, Login!Rule, Login!Within
<1> QED BY <1>2, <1>3, <1>4, <1>5, <1>6, <1>7, <1>8 DEF LoginInv

LEMMA Arrives ==
  ASSUME LoginInv, NEW c \in DOMAIN asks, NEW from \in setup.from, Login!Arrive(c, from)
  PROVE  LoginInv'
<1> DEFINE r == Login!Call("check", IF door = "wechat" THEN from ELSE "all", from, 0)
<1>1. Moved(c, r) /\ UNCHANGED <<tries, lapse, wrong, locked>>
  BY DEF Login!Arrive, Login!fixed, Login!counters, Moved, SameRules
<1>2. asks[c] = Login!New /\ Cardinality(Login!UnderWay) < MaxTogether
  BY LoginCounts DEF Login!Arrive
<1>3. from \in Address /\ from # "all" /\ c \in Asker
  BY LoginRules, AskFacts DEF LoginInv, LoginType
<1>4. /\ r \in AskRow /\ r.at = "check" /\ r.key = (IF door = "wechat" THEN from ELSE "all")
      /\ r.from = from /\ r.time = 0
  BY <1>3, RowType DEF Login!Key
<1>5. asks[c].at = "new"
  BY <1>2 DEF Login!New, Login!Call
<1> HIDE DEF r
<1>6. Course(r)
  BY <1>3, <1>4 DEF Course, LoginInv, LoginType
<1>7. \A k : ~MayFail(r, k)
  BY <1>4 DEF MayFail
<1>8. asks[c].at \notin Told
  BY <1>5 DEF Told
<1>9. locked' \in [Login!Key -> Nat] /\ locked' = locked
  BY <1>1 DEF LoginInv, LoginType
<1> QED BY <1>1, <1>2, <1>3, <1>6, <1>7, <1>8, <1>9, OnlyMoves

LEMMA GetsLock ==
  ASSUME LoginInv, NEW c \in DOMAIN asks, Login!GetLock(c)
  PROVE  LoginInv'
<1> DEFINE k == asks[c].key
<1>1. /\ backend = "redis" /\ asks[c].at = "check" /\ SameRules
      /\ UNCHANGED <<tries, lapse, wrong, locked>>
  BY DEF Login!GetLock, Login!fixed, Login!counters, SameRules
<1>2. PICK r \in {Login!Done, Login!Call("count", k, asks[c].from, now)} : asks' = [asks EXCEPT ![c] = r]
  BY DEF Login!GetLock, Login!End, Login!To
<1>3. c \in Asker /\ Course(asks[c]) /\ k \in Login!Key /\ asks[c].from \in Login!Key /\ c \in Login!UnderWay
  BY <1>1, AskFacts
<1>4. now \in Nat
  BY DEF LoginInv, LoginType
<1>5. Course(r) /\ \A j \in Login!Key : MayFail(r, j) => MayFail(asks[c], j)
  <2>1. CASE r = Login!Done
    BY <2>1, DoneOnCourse DEF LoginInv
  <2>2. CASE r = Login!Call("count", k, asks[c].from, now)
    <3>1. r \in AskRow /\ r.at = "count" /\ r.key = k /\ r.from = asks[c].from /\ r.time = now
      BY <1>3, <1>4, <2>2, RowType
    <3> QED BY <1>1, <1>3, <1>4, <3>1 DEF Course, MayFail
  <2> QED BY <1>2, <2>1, <2>2
<1>6. asks[c].at \notin Told /\ Moved(c, r)
  BY <1>1, <1>2 DEF Told, Moved
<1>7. locked' \in [Login!Key -> Nat]
  BY <1>1 DEF LoginInv, LoginType
<1> QED BY <1>1, <1>3, <1>5, <1>6, <1>7, OnlyMoves

LEMMA Judges ==
  ASSUME LoginInv, NEW c \in DOMAIN asks, Login!Judge(c)
  PROVE  LoginInv'
<1> DEFINE k == asks[c].key
<1>1. /\ backend = "redis" /\ asks[c].at = "judge" /\ SameRules
      /\ UNCHANGED <<tries, lapse, wrong>>
  BY DEF Login!Judge, Login!fixed, SameRules
<1>2. /\ c \in Asker /\ Course(asks[c]) /\ k \in Login!Key /\ asks[c].from \in Login!Key
      /\ c \in Login!UnderWay
  BY <1>1, AskFacts
<1>3. PICK r : /\ asks' = [asks EXCEPT ![c] = r]
               /\ r = IF k = "all" THEN Login!Done ELSE Login!Call("add", "all", asks[c].from, 0)
  BY DEF Login!Judge, Login!End, Login!To
<1>4. door # "wechat" /\ k \in {asks[c].from, "all"} /\ asks[c].from \in Address /\ "all" \in Login!Key
  BY <1>1, <1>2 DEF Course, Login!Key
<1>5. /\ Course(r) /\ r.at \in Told
      /\ \A j \in Login!Key : MayFail(r, j) <=> MayFail(asks[c], j)
  <2>1. CASE k = "all"
    <3>1. r = Login!Done /\ r.at = "done"
      BY <1>3, <2>1 DEF Login!Done, Login!Call
    <3>2. \A j : ~MayFail(asks[c], j)
      BY <1>1, <2>1 DEF MayFail
    <3> QED BY <3>1, <3>2, DoneOnCourse DEF LoginInv, Told
  <2>2. CASE k # "all"
    <3>1. r \in AskRow /\ r.at = "add" /\ r.key = "all" /\ r.from = asks[c].from /\ r.time = 0
      BY <1>2, <1>3, <1>4, <2>2, RowType
    <3>2. now \in Nat
      BY DEF LoginInv, LoginType
    <3>3. Course(r)
      BY <1>1, <1>4, <3>1, <3>2 DEF Course
    <3>4. \A j : MayFail(r, j) <=> j = "all"
      BY <1>4, <3>1 DEF MayFail
    <3>5. \A j : MayFail(asks[c], j) <=> j = "all"
      BY <1>1, <1>4, <2>2 DEF MayFail
    <3> QED BY <1>4, <3>1, <3>3, <3>4, <3>5 DEF Told
  <2> QED BY <2>1, <2>2
<1>6. locked' \in [Login!Key -> Nat]
  <2>1. Login!Rule(k).lock \in Nat /\ asks[c].time \in Nat
    BY <1>2, RuleFacts DEF LoginInv, LoginType, Course, AskRow
  <2>2. PICK t : t = asks[c].time + Login!Rule(k).lock
    OBVIOUS
  <2>3. locked' = [locked EXCEPT ![k] = t] \/ locked' = locked
    BY <2>2 DEF Login!Judge
  <2> QED BY <1>2, <2>1, <2>2, <2>3 DEF LoginInv, LoginType
<1>7. Moved(c, r)
  BY <1>1, <1>3 DEF Moved
<1> QED BY <1>1, <1>2, <1>5, <1>6, <1>7, OnlyMoves

LEMMA Ticks == LoginInv /\ Login!Tick => LoginInv'
<1> SUFFICES ASSUME LoginInv, Login!Tick PROVE LoginInv'
  OBVIOUS
<1>1. now' = now + 1 /\ UNCHANGED <<backend, door, setup, tries, lapse, locked, asks, wrong>> /\ now \in Nat
  BY DEF Login!Tick, Login!fixed, Login!counters, LoginInv, LoginType
<1>2. /\ Asker' = Asker /\ Try' = Try /\ Login!Key' = Login!Key /\ AskRow' = AskRow /\ Told' = Told
      /\ \A k : Login!Rule(k)' = Login!Rule(k)
      /\ Login!Overlap' = Login!Overlap /\ Login!UnderWay' = Login!UnderWay
      /\ \A k : LetThrough(k)' = LetThrough(k)
  BY <1>1
  DEF Asker, Try, Login!Key, AskRow, Told, Login!Rule, Login!Overlap, Login!UnderWay, LetThrough,
      MayFail
<1>3. LoginType'
  BY <1>1, <1>2 DEF LoginInv, LoginType
<1>4. OnCourse'
  <2>1. ASSUME NEW c \in Asker PROVE Course(asks[c])'
    <3>1. Course(asks[c]) /\ asks[c].time \in Nat
      BY <2>1 DEF LoginInv, OnCourse, Course, AskRow
    <3> QED BY <1>1, <1>2, <3>1 DEF Course, Login!New, Login!Done
  <2> QED BY <1>2, <2>1 DEF OnCourse
<1>5. FewTogether' /\ Lasting' /\ NoLocks' /\ OneFailureEach'
  BY <1>1, <1>2 DEF LoginInv, FewTogether, Lasting, NoLocks, OneFailureEach
<1>6. ASSUME NEW k \in Login!Key, NEW S \in SUBSET Try
      PROVE  Login!Within(S, k, now') \subseteq Login!Within(S, k, now)
  <2>1. \A x \in S : x.at \in Nat
    BY DEF Try
  <2>2. Login!Rule(k).window \in Nat
    BY RuleFacts DEF LoginInv, LoginType
  <2> QED BY <1>1, <1>2, <2>1, <2>2 DEF Login!Within
<1>7. InThePast'
  <2>1. \A k \in Login!Key : \A x \in tries[k] \cup wrong[k] : x.at \in Nat /\ x.at <= now
    BY DEF LoginInv, InThePast, LoginType, Try
  <2> QED BY <1>1, <1>2, <2>1 DEF InThePast
<1>8. \A k \in Login!Key : /\ Login!Within(tries[k], k, now)' \subseteq Login!Within(tries[k], k, now)
                           /\ Login!Within(wrong[k], k, now)' \subseteq Login!Within(wrong[k], k, now)
  <2>1. \A k \in Login!Key : tries[k] \in SUBSET Try /\ wrong[k] \in SUBSET Try
    BY DEF LoginInv, LoginType
  <2>2. \A k : /\ Login!Within(tries[k], k, now)' = Login!Within(tries[k], k, now')
             /\ Login!Within(wrong[k], k, now)' = Login!Within(wrong[k], k, now')
    BY <1>1, <1>2 DEF Login!Within
  <2> QED BY <1>6, <2>1, <2>2
<1>9. FewCharged'
  <2> SUFFICES ASSUME NEW k \in Login!Key PROVE Cardinality(Charged(k)') <= Login!Rule(k).max + Login!Overlap
    BY <1>2 DEF FewCharged
  <2>1. Charged(k)' \subseteq Charged(k)
    BY <1>2, <1>8 DEF Charged, CountedNow
  <2>2. IsFiniteSet(Charged(k)) /\ Cardinality(Charged(k)) <= Login!Rule(k).max + Login!Overlap
    BY ChargedFinite DEF LoginInv, FewCharged
  <2>3. Login!Rule(k).max \in Nat /\ Login!Overlap \in Nat
    BY RuleFacts, OverlapType DEF LoginInv, LoginType
  <2>4. /\ Cardinality(Charged(k)') <= Cardinality(Charged(k))
        /\ Cardinality(Charged(k)') \in Nat /\ Cardinality(Charged(k)) \in Nat
    BY <2>1, <2>2, FewerInPart
  <2> QED BY <2>2, <2>3, <2>4
<1>10. AllCharged'
  <2> SUFFICES ASSUME NEW k \in Login!Key, NEW x \in Login!Within(wrong[k], k, now)'
               PROVE  (x.by \in LetThrough(k) \/ StaysCounted(x, k))
    BY <1>1, <1>2 DEF AllCharged, StaysCounted
  <2> QED BY <1>8 DEF LoginInv, AllCharged
<1>11. Earned'
  <2> SUFFICES ASSUME backend = "memory", door # "wechat", NEW k \in Login!Key, locked[k] = 0
               PROVE  Cardinality(Login!Within(tries[k], k, now)') < Login!Rule(k).max
    BY <1>1, <1>2 DEF Earned, Fair, EarnedBy, LoginInv
  <2>1. IsFiniteSet(Login!Within(tries[k], k, now))
    BY FewerInPart DEF LoginInv, LoginType, Login!Within
  <2>2. Cardinality(Login!Within(tries[k], k, now)) < Login!Rule(k).max
    BY DEF LoginInv, Earned, Fair
  <2>3. Login!Rule(k).max \in Nat
    BY RuleFacts DEF LoginInv, LoginType
  <2>4. /\ Cardinality(Login!Within(tries[k], k, now)') <= Cardinality(Login!Within(tries[k], k, now))
        /\ Cardinality(Login!Within(tries[k], k, now)') \in Nat
        /\ Cardinality(Login!Within(tries[k], k, now)) \in Nat
    BY <1>8, <2>1, FewerInPart
  <2> QED BY <2>2, <2>3, <2>4
<1> QED BY <1>3, <1>4, <1>5, <1>7, <1>9, <1>10, <1>11 DEF LoginInv

LEMMA Counts ==
  ASSUME LoginInv, NEW c \in DOMAIN asks, Login!CountRecent(c)
  PROVE  LoginInv'
<1> DEFINE k == asks[c].key
           t == asks[c].time
           kept == Login!Within(Login!Held(k), k, t)
           full == Cardinality(kept) >= Login!Rule(k).max
<1>1. /\ backend = "redis" /\ asks[c].at = "count" /\ SameRules
      /\ UNCHANGED <<lapse, wrong>> /\ tries' = [tries EXCEPT ![k] = kept]
  BY DEF Login!CountRecent, Login!fixed, SameRules
<1>2. /\ c \in Asker /\ asks[c] \in AskRow /\ Course(asks[c]) /\ k \in Login!Key
      /\ asks[c].from \in Login!Key /\ c \in Login!UnderWay
  BY <1>1, AskFacts
<1>3. t \in Nat /\ t <= now /\ now \in Nat
  BY <1>2 DEF Course, AskRow, LoginInv, LoginType
<1>4. Login!Rule(k).max \in Nat /\ Login!Rule(k).window \in Nat /\ Login!Rule(k).lock \in Nat
  BY <1>2, RuleFacts DEF LoginInv, LoginType
<1>5. PICK r : /\ asks' = [asks EXCEPT ![c] = r]
               /\ r = IF full THEN Login!Done
                      ELSE IF door = "wechat" THEN Login!Call("add", k, asks[c].from, t)
                      ELSE IF k = "all" THEN Login!Call("check", asks[c].from, asks[c].from, 0)
                      ELSE Login!Call("decide", k, asks[c].from, 0)
  BY LoginCounts DEF Login!CountRecent, Login!End, Login!To
<1>6. /\ k \in {asks[c].from, "all"} /\ asks[c].from \in Address /\ asks[c].from # "all"
      /\ door = "wechat" => k = asks[c].from
  BY <1>1, <1>2, LoginRules DEF Course
<1>7. Moved(c, r) /\ asks[c].at \notin Told
  BY <1>1, <1>5 DEF Moved, Told
<1>8. /\ kept \subseteq tries[k] /\ Login!Within(tries[k], k, now) \subseteq kept
      /\ IsFiniteSet(kept) /\ Cardinality(kept) \in Nat
  <2>1. tries[k] \in SUBSET Try /\ IsFiniteSet(tries[k]) /\ lapse[k] \in Nat
    BY <1>2 DEF LoginInv, LoginType
  <2>2. kept \subseteq tries[k]
    BY DEF Login!Within, Login!Held
  <2>3. ASSUME NEW x \in tries[k], now - x.at < Login!Rule(k).window
        PROVE  x \in kept
    <3>1. x.at \in Nat /\ x.at + Login!Rule(k).window <= lapse[k]
      BY <1>1, <1>2, <2>1, <2>3 DEF LoginInv, Lasting, Try
    <3>2. now < lapse[k] /\ t - x.at < Login!Rule(k).window
      BY <1>3, <1>4, <2>1, <2>3, <3>1
    <3> QED BY <3>2 DEF Login!Held, Login!Within
  <2>4. Login!Within(tries[k], k, now) \subseteq kept
    BY <2>3 DEF Login!Within
  <2> QED BY <2>1, <2>2, <2>4, FewerInPart
<1> HIDE DEF kept
<1>9. \/ full /\ r = Login!Done
      \/ ~full /\ r \in AskRow /\ r.from = asks[c].from
           /\ \/ door = "wechat" /\ r.at = "add" /\ r.key = k /\ r.time = t
              \/ door # "wechat" /\ k = "all" /\ r.at = "check" /\ r.key = asks[c].from /\ r.time = 0
              \/ door # "wechat" /\ k # "all" /\ r.at = "decide" /\ r.key = k /\ r.time = 0
  BY <1>2, <1>3, <1>5, RowType
<1> HIDE DEF full
<1>10. Course(r)
  <2>1. CASE r = Login!Done
    BY <2>1, DoneOnCourse DEF LoginInv
  <2>2. CASE r \in AskRow /\ r.from = asks[c].from /\ r.at \in {"add", "check", "decide"} /\ r.time <= now
             /\ r.key \in {asks[c].from, "all"} /\ (door = "wechat" => r.at = "add" /\ r.key = k)
             /\ (r.at = "decide" => r.key = asks[c].from)
    BY <1>1, <1>6, <2>2 DEF Course
  <2> QED BY <1>3, <1>6, <1>9, <2>1, <2>2
<1>11. /\ \A j \in Login!Key \ {k} : MayFail(r, j) => MayFail(asks[c], j)
       /\ full => ~MayFail(r, k)
  BY <1>1, <1>6, <1>9, DoneOnCourse DEF MayFail, LoginInv
<1>12. /\ OnCourse' /\ asks' \in [Asker -> AskRow]' /\ FewTogether'
       /\ \A j : /\ MayFail(r, j) => LetThrough(j)' = LetThrough(j) \cup {c}
                 /\ ~MayFail(r, j) => LetThrough(j)' = LetThrough(j) \ {c}
  BY Zenon, <1>2, <1>7, <1>10, AskMoves
<1>13. Asker' = Asker /\ Try' = Try /\ Login!Key' = Login!Key /\ \A j : Login!Rule(j)' = Login!Rule(j)
  BY <1>1 DEF SameRules, Asker, Try, Login!Key, Login!Rule
<1>14. locked' \in [Login!Key -> Nat]
  <2>1. PICK u : u = t + Login!Rule(k).lock
    OBVIOUS
  <2>2. locked' = [locked EXCEPT ![k] = u] \/ locked' = locked
    BY <2>1 DEF Login!CountRecent
  <2> QED BY <1>2, <1>3, <1>4, <2>1, <2>2 DEF LoginInv, LoginType
<1>15. /\ tries' \in [Login!Key -> SUBSET Try] /\ \A j \in Login!Key : tries'[j] \subseteq tries[j]
       /\ \A j \in Login!Key : j # k => tries'[j] = tries[j]
       /\ tries'[k] = kept /\ \A j \in Login!Key : IsFiniteSet(tries'[j])
  BY <1>1, <1>2, <1>8 DEF LoginInv, LoginType
<1>16. LoginType'
  BY <1>1, <1>12, <1>13, <1>14, <1>15 DEF LoginInv, LoginType, SameRules
<1>17. FewCharged'
  <2> SUFFICES ASSUME NEW j \in Login!Key
               PROVE  Cardinality(Charged(j)') <= (Login!Rule(j).max + Login!Overlap)'
    BY <1>13 DEF FewCharged
  <2>1. CountedNow(j)' \subseteq CountedNow(j)
    BY <1>1, <1>13, <1>15 DEF CountedNow, Login!Within, SameRules
  <2>2. ASSUME j # k \/ full
        PROVE  Cardinality(Charged(j)') <= (Login!Rule(j).max + Login!Overlap)'
    <3>1. LetThrough(j)' \subseteq LetThrough(j)
      BY <1>2, <1>11, <1>12, <2>2 DEF LetThrough
    <3> QED BY <1>1, <2>1, <3>1, NoneMoreCharged DEF Charged
  <2>3. ASSUME j = k, ~full
        PROVE  Cardinality(Charged(j)') <= (Login!Rule(j).max + Login!Overlap)'
    <3>1. CountedNow(j)' \subseteq {x.by : x \in kept}
      BY <1>15, <2>3 DEF CountedNow, Login!Within
    <3>2. Cardinality(kept) < Login!Rule(j).max
      BY <1>4, <1>8, <2>3 DEF full
    <3> QED BY <1>1, <1>8, <1>12, <1>16, <3>1, <3>2, PassedTheCheck DEF Charged, LoginInv
  <2> QED BY <2>2, <2>3
<1>18. AllCharged'
  <2>1. ASSUME NEW j \in Login!Key, NEW x \in Login!Within(wrong'[j], j, now)
        PROVE  /\ x \in wrong[j] /\ (x.by = c => ~MayFail(asks[c], j))
               /\ Login!Within(tries[j], j, now) \subseteq tries'[j]
    <3>1. x \in wrong[j]
      BY <1>1, <2>1 DEF Login!Within
    <3>2. x.by # c
      BY <1>7, <3>1 DEF LoginInv, OneFailureEach
    <3>3. Login!Within(tries[j], j, now) \subseteq tries'[j]
      BY <1>8, <1>15 DEF Login!Within
    <3> QED BY <3>1, <3>2, <3>3
  <2> QED BY <1>2, <1>7, <1>10, <2>1, ChargesMove
<1>19. OneFailureEach'
  BY <1>1, <1>2, <1>7, FailuresMove
<1>20. InThePast' /\ Lasting'
  BY <1>1, <1>13, <1>15 DEF LoginInv, InThePast, Lasting, SameRules
<1>21. Earned' /\ NoLocks'
  BY <1>1 DEF Earned, NoLocks, SameRules
<1> QED BY <1>12, <1>16, <1>17, <1>18, <1>19, <1>20, <1>21 DEF LoginInv

LEMMA FailedFacts ==
  ASSUME LoginInv, NEW c \in Asker, NEW x, x = [by |-> c, at |-> now]
  PROVE  /\ x \in Try /\ x.by = c /\ x.at = now
         /\ Login!Failed(c) \in [Login!Key -> SUBSET Try]
         /\ \A k \in Login!Key :
              /\ Login!Failed(c)[k] = IF k \in {asks[c].from, "all"} THEN wrong[k] \cup {x} ELSE wrong[k]
              /\ IsFiniteSet(Login!Failed(c)[k])
<1>1. x \in Try /\ x.by = c /\ x.at = now
  BY DEF Try, LoginInv, LoginType
<1>2. \A k \in Login!Key : IsFiniteSet(wrong[k]) /\ IsFiniteSet(wrong[k] \cup {x}) /\ wrong[k] \in SUBSET Try
  BY FS_AddElement DEF LoginInv, LoginType
<1> QED BY <1>1, <1>2 DEF Login!Failed

LEMMA DecidesWithRedis ==
  ASSUME LoginInv, NEW c \in DOMAIN asks, NEW o \in Login!Outcome, Login!DecideWithRedis(c, o)
  PROVE  LoginInv'
<1> DEFINE from == asks[c].from
<1>1. /\ backend = "redis" /\ asks[c].at = "decide" /\ SameRules /\ UNCHANGED <<tries, lapse, locked>>
  BY DEF Login!DecideWithRedis, Login!fixed, Login!counters, SameRules
<1>2. /\ c \in Asker /\ asks[c] \in AskRow /\ Course(asks[c])
      /\ from \in Login!Key /\ c \in Login!UnderWay
  BY <1>1, AskFacts
<1>3. /\ asks[c].key = from /\ door # "wechat" /\ from \in Address /\ asks[c].at \notin Told
      /\ "all" \in Login!Key /\ from # "all"
  BY <1>1, <1>2, LoginRules DEF Course, Told, Login!Key
<1>4. PICK r : /\ asks' = [asks EXCEPT ![c] = r]
               /\ \/ o = "in" /\ r = [asks[c] EXCEPT !.at = "clear"]
                  \/ o = "wrong" /\ r = [asks[c] EXCEPT !.at = "add"]
                  \/ o = "closed" /\ r = Login!Done
  BY DEF Login!DecideWithRedis, Login!Move, Login!End, Login!Outcome
<1>5. \/ o = "in" /\ r = Login!Call("clear", from, from, asks[c].time)
      \/ o = "wrong" /\ r = Login!Call("add", from, from, asks[c].time)
      \/ o = "closed" /\ r = Login!Done
  BY <1>2, <1>3, <1>4 DEF Login!Call, AskRow
<1>6. asks[c].time \in Nat /\ asks[c].time <= now
  BY <1>2 DEF AskRow, Course
<1>7. \/ o = "closed" /\ r = Login!Done
      \/ /\ r \in AskRow /\ r.from = from /\ r.key = from /\ r.time = asks[c].time
         /\ (o = "in" /\ r.at = "clear") \/ (o = "wrong" /\ r.at = "add")
  BY <1>2, <1>5, <1>6, RowType
<1>8. Course(r)
  <2>1. CASE r = Login!Done
    BY <2>1, DoneOnCourse DEF LoginInv
  <2>2. CASE r \in AskRow /\ r.from = from /\ r.key = from /\ r.time = asks[c].time /\ r.at \in {"clear", "add"}
    BY <1>1, <1>3, <1>6, <2>2 DEF Course
  <2> QED BY <1>7, <2>1, <2>2
<1>9. /\ \A j : MayFail(r, j) => MayFail(asks[c], j)
      /\ o = "wrong" => r.at \in Told /\ MayFail(r, from) /\ MayFail(r, "all")
  <2>1. CASE o = "closed"
    BY <1>7, <2>1, DoneOnCourse DEF LoginInv
  <2>2. CASE o # "closed"
    BY <1>1, <1>3, <1>7, <2>2 DEF MayFail, Told
  <2> QED BY <2>1, <2>2
<1>10. Moved(c, r)
  BY <1>1, <1>4 DEF Moved
<1>11. /\ OnCourse' /\ asks' \in [Asker -> AskRow]' /\ FewTogether'
       /\ \A j : /\ MayFail(r, j) => LetThrough(j)' = LetThrough(j) \cup {c}
                 /\ ~MayFail(r, j) => LetThrough(j)' = LetThrough(j) \ {c}
  BY Zenon, <1>2, <1>8, <1>10, AskMoves
<1>12. Asker' = Asker /\ Try' = Try /\ Login!Key' = Login!Key /\ \A j : Login!Rule(j)' = Login!Rule(j)
  BY <1>1 DEF SameRules, Asker, Try, Login!Key, Login!Rule
<1>13. PICK x : x = [by |-> c, at |-> now]
  OBVIOUS
<1>14. /\ x \in Try /\ x.by = c /\ x.at = now
       /\ wrong' \in [Login!Key -> SUBSET Try]
       /\ \A k \in Login!Key :
            /\ IsFiniteSet(wrong'[k])
            /\ wrong'[k] = IF o = "wrong" /\ k \in {from, "all"} THEN wrong[k] \cup {x} ELSE wrong[k]
  <2>1. wrong' = IF o = "wrong" THEN Login!Failed(c) ELSE wrong
    BY DEF Login!DecideWithRedis
  <2>2. wrong \in [Login!Key -> SUBSET Try] /\ \A k \in Login!Key : IsFiniteSet(wrong[k])
    BY DEF LoginInv, LoginType
  <2>3. /\ x \in Try /\ x.by = c /\ x.at = now
        /\ Login!Failed(c) \in [Login!Key -> SUBSET Try]
        /\ \A k \in Login!Key :
             /\ Login!Failed(c)[k] = IF k \in {asks[c].from, "all"} THEN wrong[k] \cup {x} ELSE wrong[k]
             /\ IsFiniteSet(Login!Failed(c)[k])
    BY <1>2, <1>13, FailedFacts
  <2>4. CASE o = "wrong"
    BY <2>1, <2>3, <2>4
  <2>5. CASE o # "wrong"
    BY <2>1, <2>2, <2>3, <2>5
  <2> QED BY <2>4, <2>5
<1>15. LoginType'
  BY <1>1, <1>11, <1>12, <1>14 DEF LoginInv, LoginType, SameRules
<1>16. FewCharged'
  <2> SUFFICES ASSUME NEW k \in Login!Key
               PROVE  Cardinality(Charged(k)') <= (Login!Rule(k).max + Login!Overlap)'
    BY <1>12 DEF FewCharged
  <2>1. LetThrough(k)' \subseteq LetThrough(k)
    BY <1>2, <1>9, <1>11 DEF LetThrough
  <2>2. CountedNow(k)' = CountedNow(k)
    BY <1>1, <1>12 DEF CountedNow, Login!Within, SameRules
  <2> QED BY <1>1, <2>1, <2>2, NoneMoreCharged DEF Charged
<1>17. AllCharged'
  <2>1. ASSUME NEW k \in Login!Key, NEW y \in Login!Within(wrong'[k], k, now)
        PROVE  \/ y.by = c /\ MayFail(r, k)
               \/ /\ y \in wrong[k] /\ (y.by = c => ~MayFail(asks[c], k))
                  /\ Login!Within(tries[k], k, now) \subseteq tries'[k]
    <3>1. y \in wrong'[k] /\ Login!Within(tries[k], k, now) \subseteq tries'[k]
      BY <1>1 DEF Login!Within
    <3>2. CASE y \in wrong[k]
      <4>1. y.by # c
        BY <1>3, <3>2 DEF LoginInv, OneFailureEach
      <4> QED BY <3>1, <3>2, <4>1
    <3>3. CASE y \notin wrong[k]
      BY <1>9, <1>14, <3>1, <3>3
    <3> QED BY <3>2, <3>3
  <2> QED BY <1>2, <1>8, <1>10, <2>1, ChargesMove
<1>18. OneFailureEach'
  <2>1. CASE o = "wrong"
    BY <1>2, <1>3, <1>9, <1>10, <1>14, <2>1, FailureTold
  <2>2. CASE o # "wrong"
    BY <1>2, <1>3, <1>10, <1>14, <2>2, FailuresMove
  <2> QED BY <2>1, <2>2
<1>19. InThePast' /\ Lasting'
  <2>1. now \in Nat /\ x.at <= now
    BY <1>14 DEF LoginInv, LoginType
  <2> QED BY <1>1, <1>12, <1>14, <2>1 DEF LoginInv, InThePast, Lasting, SameRules
<1>20. Earned' /\ NoLocks'
  BY <1>1 DEF Earned, NoLocks, SameRules
<1> QED BY <1>11, <1>15, <1>16, <1>17, <1>18, <1>19, <1>20 DEF LoginInv

LEMMA Clears ==
  ASSUME LoginInv, NEW c \in DOMAIN asks, Login!ClearKey(c)
  PROVE  LoginInv'
<1> DEFINE k == asks[c].key
<1>1. /\ backend = "redis" /\ asks[c].at = "clear" /\ SameRules /\ UNCHANGED lapse
      /\ tries' = [tries EXCEPT ![k] = {}] /\ locked' = [locked EXCEPT ![k] = 0]
      /\ wrong' = [j \in Login!Key |-> IF j \in {k} THEN {} ELSE wrong[j]]
  BY DEF Login!ClearKey, Login!fixed, Login!Forgot, SameRules
<1>2. /\ c \in Asker /\ asks[c] \in AskRow /\ Course(asks[c]) /\ k \in Login!Key
      /\ asks[c].from \in Login!Key /\ c \in Login!UnderWay
  BY <1>1, AskFacts
<1>3. PICK r : /\ asks' = [asks EXCEPT ![c] = r]
               /\ r = IF k = "all" THEN Login!Done ELSE Login!Call("clear", "all", asks[c].from, 0)
  BY DEF Login!ClearKey, Login!End, Login!To
<1>4. door # "wechat" /\ asks[c].from \in Address /\ asks[c].at \notin Told /\ "all" \in Login!Key
  BY <1>1, <1>2 DEF Course, Told, Login!Key
<1>5. Course(r) /\ \A j : ~MayFail(r, j)
  <2>1. CASE r = Login!Done
    BY <2>1, DoneOnCourse DEF LoginInv
  <2>2. CASE r = Login!Call("clear", "all", asks[c].from, 0)
    <3>1. r \in AskRow /\ r.at = "clear" /\ r.key = "all" /\ r.from = asks[c].from /\ r.time = 0
      BY <1>2, <1>4, <2>2, RowType
    <3>2. now \in Nat
      BY DEF LoginInv, LoginType
    <3> QED BY <1>1, <1>4, <3>1, <3>2 DEF Course, MayFail
  <2> QED BY <1>3, <2>1, <2>2
<1>6. Moved(c, r)
  BY <1>1, <1>3 DEF Moved
<1>7. /\ OnCourse' /\ asks' \in [Asker -> AskRow]' /\ FewTogether'
      /\ \A j : ~MayFail(r, j) => LetThrough(j)' = LetThrough(j) \ {c}
  BY Zenon, <1>2, <1>5, <1>6, AskMoves
<1>8. Asker' = Asker /\ Try' = Try /\ Login!Key' = Login!Key /\ \A j : Login!Rule(j)' = Login!Rule(j)
  BY <1>1 DEF SameRules, Asker, Try, Login!Key, Login!Rule
<1>9. /\ tries' \in [Login!Key -> SUBSET Try] /\ wrong' \in [Login!Key -> SUBSET Try]
      /\ locked' \in [Login!Key -> Nat] /\ tries'[k] = {} /\ wrong'[k] = {}
      /\ \A j \in Login!Key : j # k => tries'[j] = tries[j] /\ wrong'[j] = wrong[j]
      /\ \A j \in Login!Key : IsFiniteSet(tries'[j]) /\ IsFiniteSet(wrong'[j])
  BY <1>1, <1>2, FS_EmptySet DEF LoginInv, LoginType
<1>10. LoginType'
  BY <1>1, <1>7, <1>8, <1>9 DEF LoginInv, LoginType, SameRules
<1>11. FewCharged'
  <2> SUFFICES ASSUME NEW j \in Login!Key
               PROVE  Cardinality(Charged(j)') <= (Login!Rule(j).max + Login!Overlap)'
    BY <1>8 DEF FewCharged
  <2>1. LetThrough(j)' \subseteq LetThrough(j)
    BY <1>5, <1>7
  <2>2. CountedNow(j)' \subseteq CountedNow(j)
    BY <1>1, <1>8, <1>9 DEF CountedNow, Login!Within, SameRules
  <2> QED BY <1>1, <2>1, <2>2, NoneMoreCharged DEF Charged
<1>12. AllCharged'
  <2>1. ASSUME NEW j \in Login!Key, NEW x \in Login!Within(wrong'[j], j, now)
        PROVE  /\ x \in wrong[j] /\ (x.by = c => ~MayFail(asks[c], j))
               /\ Login!Within(tries[j], j, now) \subseteq tries'[j]
    <3>1. j # k /\ x \in wrong[j] /\ tries'[j] = tries[j]
      BY <1>9 DEF Login!Within
    <3>2. ~MayFail(asks[c], j)
      BY <1>1 DEF MayFail
    <3> QED BY <3>1, <3>2 DEF Login!Within
  <2> QED BY <1>2, <1>5, <1>6, <2>1, ChargesMove
<1>13. OneFailureEach'
  <2>1. \A j \in Login!Key : wrong'[j] \subseteq wrong[j]
    BY <1>9
  <2> QED BY <1>2, <1>4, <1>6, <2>1, FailuresMove
<1>14. InThePast' /\ Lasting'
  BY <1>1, <1>8, <1>9 DEF LoginInv, InThePast, Lasting, SameRules
<1>15. Earned' /\ NoLocks'
  BY <1>1 DEF Earned, NoLocks, SameRules
<1> QED BY <1>7, <1>10, <1>11, <1>12, <1>13, <1>14, <1>15 DEF LoginInv

LEMMA Dies ==
  ASSUME LoginInv, NEW c \in DOMAIN asks, Login!Die(c)
  PROVE  LoginInv'
<1>1. /\ backend = "redis" /\ c \in Login!UnderWay /\ SameRules /\ UNCHANGED <<tries, lapse, locked>>
      /\ asks' = [asks EXCEPT ![c] = Login!Done]
      /\ wrong' = [j \in Login!Key |-> {x \in wrong[j] : x.by # c}]
  BY DEF Login!Die, Login!End, Login!fixed, Login!counters, SameRules
<1>2. c \in Asker
  BY AskFacts
<1>3. PICK r : r = Login!Done
  OBVIOUS
<1>4. Course(r) /\ Moved(c, r) /\ r.at \in Told /\ \A j : ~MayFail(r, j)
  BY <1>1, <1>3, DoneOnCourse DEF LoginInv, Moved, Told, Login!Done, Login!Call
<1>5. /\ OnCourse' /\ asks' \in [Asker -> AskRow]' /\ FewTogether'
      /\ \A j : ~MayFail(r, j) => LetThrough(j)' = LetThrough(j) \ {c}
  BY Zenon, <1>1, <1>2, <1>4, AskMoves
<1>6. Asker' = Asker /\ Try' = Try /\ Login!Key' = Login!Key /\ \A j : Login!Rule(j)' = Login!Rule(j)
  BY <1>1 DEF SameRules, Asker, Try, Login!Key, Login!Rule
<1>7. /\ wrong' \in [Login!Key -> SUBSET Try]
      /\ \A j \in Login!Key : wrong'[j] \in SUBSET wrong[j] /\ \A x \in wrong'[j] : x.by # c
  BY <1>1 DEF LoginInv, LoginType
<1>8. \A j \in Login!Key : IsFiniteSet(wrong'[j])
  BY <1>7, FewerInPart DEF LoginInv, LoginType
<1>9. LoginType'
  BY <1>1, <1>5, <1>6, <1>7, <1>8 DEF LoginInv, LoginType, SameRules
<1>10. FewCharged'
  <2> SUFFICES ASSUME NEW j \in Login!Key
               PROVE  Cardinality(Charged(j)') <= (Login!Rule(j).max + Login!Overlap)'
    BY <1>6 DEF FewCharged
  <2>1. LetThrough(j)' \subseteq LetThrough(j)
    BY <1>4, <1>5
  <2>2. CountedNow(j)' = CountedNow(j)
    BY <1>1, <1>6 DEF CountedNow, Login!Within, SameRules
  <2> QED BY <1>1, <2>1, <2>2, NoneMoreCharged DEF Charged
<1>11. AllCharged'
  <2>1. ASSUME NEW j \in Login!Key, NEW x \in Login!Within(wrong'[j], j, now)
        PROVE  /\ x \in wrong[j] /\ (x.by = c => ~MayFail(asks[c], j))
               /\ Login!Within(tries[j], j, now) \subseteq tries'[j]
    BY <1>1, <1>7 DEF Login!Within
  <2> QED BY <1>2, <1>4, <2>1, ChargesMove
<1>12. OneFailureEach'
  BY <1>2, <1>4, <1>7, FailuresMove
<1>13. InThePast' /\ Lasting'
  BY <1>1, <1>6, <1>7 DEF LoginInv, InThePast, Lasting, SameRules
<1>14. Earned' /\ NoLocks'
  BY <1>1 DEF Earned, NoLocks, SameRules
<1> QED BY <1>5, <1>9, <1>10, <1>11, <1>12, <1>13, <1>14 DEF LoginInv

LEMMA Adds ==
  ASSUME LoginInv, NEW c \in DOMAIN asks, Login!Add(c)
  PROVE  LoginInv'
<1> DEFINE k == asks[c].key
           at == IF door = "wechat" THEN asks[c].time ELSE now
<1>1. /\ backend = "redis" /\ asks[c].at = "add" /\ SameRules /\ UNCHANGED locked
      /\ tries' = [tries EXCEPT ![k] = Login!Held(k) \cup {[by |-> c, at |-> at]}]
      /\ lapse' = [lapse EXCEPT ![k] = now + Login!Rule(k).window]
      /\ wrong' = IF door = "wechat" THEN [wrong EXCEPT ![k] = @ \cup {[by |-> c, at |-> at]}] ELSE wrong
  BY DEF Login!Add, Login!fixed, SameRules
<1>2. /\ c \in Asker /\ asks[c] \in AskRow /\ Course(asks[c]) /\ k \in Login!Key
      /\ asks[c].from \in Login!Key /\ c \in Login!UnderWay
  BY <1>1, AskFacts
<1>3. PICK r : /\ asks' = [asks EXCEPT ![c] = r]
               /\ r = IF door = "wechat" THEN Login!Done ELSE Login!Call("judge", k, asks[c].from, now)
  BY DEF Login!Add, Login!End, Login!To
<1>4. /\ k \in {asks[c].from, "all"} /\ asks[c].from \in Address /\ "all" \in Login!Key
      /\ asks[c].time \in Nat /\ asks[c].time <= now /\ now \in Nat
      /\ at \in Nat /\ at <= now /\ (door # "wechat" => at = now)
  BY <1>1, <1>2 DEF Course, AskRow, LoginInv, LoginType, Login!Key
<1> HIDE DEF at
<1>5. Login!Rule(k).window \in Nat
  BY <1>2, RuleFacts DEF LoginInv, LoginType
<1>6. PICK x : x = [by |-> c, at |-> at]
  OBVIOUS
<1>7. x \in Try /\ x.by = c /\ x.at = at
  BY <1>2, <1>4, <1>6 DEF Try
<1>8. /\ door = "wechat" => asks[c].at \notin Told
      /\ MayFail(asks[c], k) /\ (door # "wechat" => MayFail(asks[c], "all"))
      /\ \A j : MayFail(asks[c], j) => j = k \/ (door # "wechat" /\ j = "all")
  BY <1>1 DEF Told, MayFail
<1>9. /\ Course(r) /\ r.at \in Told
      /\ \A j : MayFail(r, j) <=> door # "wechat" /\ k # "all" /\ j = "all"
  <2>1. CASE door = "wechat"
    <3>1. r = Login!Done /\ r.at = "done"
      BY <1>3, <2>1 DEF Login!Done, Login!Call
    <3> QED BY <2>1, <3>1, DoneOnCourse DEF LoginInv, Told
  <2>2. CASE door # "wechat"
    <3>1. r \in AskRow /\ r.at = "judge" /\ r.key = k /\ r.from = asks[c].from /\ r.time = now
      BY <1>2, <1>3, <1>4, <2>2, RowType
    <3>2. Course(r)
      BY <1>1, <1>4, <2>2, <3>1 DEF Course
    <3> QED BY <2>2, <3>1, <3>2 DEF Told, MayFail
  <2> QED BY <2>1, <2>2
<1>10. Moved(c, r)
  BY <1>1, <1>3 DEF Moved
<1>11. /\ OnCourse' /\ asks' \in [Asker -> AskRow]' /\ FewTogether'
       /\ \A j : /\ MayFail(r, j) => LetThrough(j)' = LetThrough(j) \cup {c}
                 /\ ~MayFail(r, j) => LetThrough(j)' = LetThrough(j) \ {c}
  BY Zenon, <1>2, <1>9, <1>10, AskMoves
<1>12. Asker' = Asker /\ Try' = Try /\ Login!Key' = Login!Key /\ \A j : Login!Rule(j)' = Login!Rule(j)
  BY <1>1 DEF SameRules, Asker, Try, Login!Key, Login!Rule
<1>13. /\ Login!Held(k) \subseteq tries[k]
       /\ \A y \in tries[k] : now - y.at < Login!Rule(k).window => y \in Login!Held(k)
       /\ tries[k] \in SUBSET Try /\ IsFiniteSet(tries[k])
  <2>1. tries[k] \in SUBSET Try /\ lapse[k] \in Nat /\ IsFiniteSet(tries[k])
    BY <1>2 DEF LoginInv, LoginType
  <2>2. ASSUME NEW y \in tries[k], now - y.at < Login!Rule(k).window PROVE y \in Login!Held(k)
    <3>1. y.at \in Nat /\ y.at + Login!Rule(k).window <= lapse[k]
      BY <1>1, <1>2, <2>1, <2>2 DEF LoginInv, Lasting, Try
    <3>2. now < lapse[k]
      BY <1>4, <1>5, <2>1, <2>2, <3>1
    <3> QED BY <3>2 DEF Login!Held
  <2> QED BY <2>1, <2>2 DEF Login!Held
<1>14. /\ tries' \in [Login!Key -> SUBSET Try] /\ lapse' \in [Login!Key -> Nat]
       /\ tries'[k] = Login!Held(k) \cup {x} /\ lapse'[k] = now + Login!Rule(k).window
       /\ \A j \in Login!Key : j # k => tries'[j] = tries[j] /\ lapse'[j] = lapse[j]
       /\ \A j \in Login!Key : IsFiniteSet(tries'[j])
  <2>1. Login!Held(k) \cup {x} \in SUBSET Try /\ IsFiniteSet(Login!Held(k) \cup {x})
    BY <1>7, <1>13, FewerInPart, FS_AddElement
  <2>2. PICK H : H = Login!Held(k) \cup {x}
    OBVIOUS
  <2>3. tries' = [tries EXCEPT ![k] = H]
    BY <1>1, <1>6, <2>2
  <2>4. PICK w : w = now + Login!Rule(k).window
    OBVIOUS
  <2>5. w \in Nat /\ lapse' = [lapse EXCEPT ![k] = w]
    BY <1>1, <1>4, <1>5, <2>4
  <2>6. /\ tries' \in [Login!Key -> SUBSET Try] /\ tries'[k] = H
        /\ \A j \in Login!Key : j # k => tries'[j] = tries[j]
    BY <1>2, <2>1, <2>2, <2>3 DEF LoginInv, LoginType
  <2>7. /\ lapse' \in [Login!Key -> Nat] /\ lapse'[k] = w
        /\ \A j \in Login!Key : j # k => lapse'[j] = lapse[j]
    BY <1>2, <2>5 DEF LoginInv, LoginType
  <2>8. \A j \in Login!Key : IsFiniteSet(tries'[j])
    BY <2>1, <2>2, <2>6 DEF LoginInv, LoginType
  <2> QED BY <2>2, <2>4, <2>6, <2>7, <2>8
<1>15. /\ wrong' \in [Login!Key -> SUBSET Try]
       /\ \A j \in Login!Key :
            /\ IsFiniteSet(wrong'[j])
            /\ wrong'[j] = IF door = "wechat" /\ j = k THEN wrong[j] \cup {x} ELSE wrong[j]
  <2>1. /\ wrong \in [Login!Key -> SUBSET Try]
        /\ \A j \in Login!Key : IsFiniteSet(wrong[j]) /\ IsFiniteSet(wrong[j] \cup {x})
    BY FS_AddElement DEF LoginInv, LoginType
  <2>2. wrong' = IF door = "wechat" THEN [wrong EXCEPT ![k] = @ \cup {x}] ELSE wrong
    BY <1>1, <1>6
  <2> QED BY <1>2, <1>7, <2>1, <2>2
<1>16. LoginType'
  BY <1>1, <1>11, <1>12, <1>14, <1>15 DEF LoginInv, LoginType, SameRules
<1>17. FewCharged'
  <2> SUFFICES ASSUME NEW j \in Login!Key
               PROVE  Cardinality(Charged(j)') <= (Login!Rule(j).max + Login!Overlap)'
    BY <1>12 DEF FewCharged
  <2>1. LetThrough(j)' \subseteq LetThrough(j)
    BY <1>2, <1>8, <1>9, <1>11 DEF LetThrough
  <2>2. CountedNow(j)' \subseteq Charged(j)
    <3>1. CASE j # k
      BY <1>1, <1>12, <1>14, <3>1 DEF Charged, CountedNow, Login!Within, SameRules
    <3>2. CASE j = k
      <4>1. c \in LetThrough(k)
        BY <1>2, <1>8 DEF LetThrough
      <4>2. \A y \in tries'[k] : y \in tries[k] \/ y.by = c
        BY <1>7, <1>13, <1>14
      <4> QED BY <1>1, <1>12, <3>2, <4>1, <4>2 DEF Charged, CountedNow, Login!Within, SameRules
    <3> QED BY <3>1, <3>2
  <2> QED BY <1>1, <2>1, <2>2, NoneMoreCharged DEF Charged
<1>18. AllCharged'
  <2>1. ASSUME NEW j \in Login!Key, NEW y \in Login!Within(wrong'[j], j, now)
        PROVE  \/ y.by = c /\ MayFail(r, j)
               \/ \E z \in tries'[j] : z.by = y.by /\ z.at >= y.at
               \/ /\ y \in wrong[j] /\ (y.by = c => ~MayFail(asks[c], j))
                  /\ Login!Within(tries[j], j, now) \subseteq tries'[j]
    <3>1. Login!Within(tries[j], j, now) \subseteq tries'[j]
      BY <1>13, <1>14 DEF Login!Within
    <3>2. y \in wrong'[j]
      BY DEF Login!Within
    <3>3. CASE y \notin wrong[j]
      <4>1. j = k /\ y = x
        BY <1>15, <3>2, <3>3
      <4> QED BY <1>4, <1>7, <1>14, <4>1
    <3>4. CASE y \in wrong[j] /\ door = "wechat"
      <4>1. y.by # c
        BY <1>8, <3>4 DEF LoginInv, OneFailureEach
      <4> QED BY <3>1, <3>4, <4>1
    <3>5. CASE y \in wrong[j] /\ door # "wechat"
      <4>1. CASE y.by = c /\ j = k
        <5>1. y.at \in Nat /\ y.at <= now
          BY <3>5 DEF LoginInv, LoginType, InThePast, Try
        <5>2. x \in tries'[j] /\ x.at = now
          BY <1>4, <1>7, <1>14, <3>5, <4>1
        <5> QED BY <1>7, <4>1, <5>1, <5>2
      <4>2. CASE y.by = c /\ j # k
        BY <1>8, <1>9, <3>1, <3>5, <4>2
      <4> QED BY <3>1, <3>5, <4>1, <4>2
    <3> QED BY <3>3, <3>4, <3>5
  <2> QED BY <1>2, <1>9, <1>10, <2>1, ChargesMove
<1>19. OneFailureEach'
  <2>1. CASE door = "wechat"
    <3>1. \A j \in Login!Key : wrong'[j] \subseteq wrong[j] \cup {x}
      BY <1>15
    <3> QED BY <1>2, <1>7, <1>8, <1>9, <1>10, <2>1, <3>1, FailureTold
  <2>2. CASE door # "wechat"
    BY <1>2, <1>9, <1>10, <1>15, <2>2, FailuresMove
  <2> QED BY <2>1, <2>2
<1>20. InThePast' /\ Lasting'
  <2>1. \A j \in Login!Key : \A y \in tries'[j] \cup wrong'[j] : y \in tries[j] \cup wrong[j] \/ y = x
    BY <1>13, <1>14, <1>15
  <2>2. InThePast'
    BY <1>1, <1>4, <1>7, <1>12, <2>1 DEF LoginInv, InThePast, SameRules
  <2>3. ASSUME NEW j \in Login!Key, NEW y \in tries'[j] PROVE y.at + Login!Rule(j).window <= lapse'[j]
    <3>1. CASE j # k
      BY <1>1, <1>14, <2>3, <3>1 DEF LoginInv, Lasting
    <3>2. CASE j = k
      <4>1. y.at \in Nat /\ y.at <= now
        BY <1>4, <1>7, <1>13, <1>14, <2>3, <3>2 DEF LoginInv, InThePast, Try
      <4> QED BY <1>4, <1>5, <1>14, <3>2, <4>1
    <3> QED BY <3>1, <3>2
  <2>4. Lasting'
    BY <1>12, <2>3 DEF Lasting
  <2> QED BY <2>2, <2>4
<1>21. Earned' /\ NoLocks'
  BY <1>1 DEF Earned, NoLocks, SameRules
<1> QED BY <1>11, <1>16, <1>17, <1>18, <1>19, <1>20, <1>21 DEF LoginInv

-----------------------------------------------------------------------------
(* In memory *)

(* A state of the counters that a check may leave of the present one.      *)
IsCounters(s) ==
  /\ s = [tries |-> s.tries, locked |-> s.locked]
  /\ s.tries \in [Login!Key -> SUBSET Try] /\ s.locked \in [Login!Key -> Nat]

Untouched(s, k) == s.tries[k] = tries[k] /\ s.locked[k] = locked[k]
Unlocked(s, k) == locked[k] # 0 /\ locked[k] <= now /\ s.tries[k] = {} /\ s.locked[k] = 0
Swept(s, k) == locked[k] = 0 /\ s.locked[k] = 0 /\ s.tries[k] = Login!Within(tries[k], k, now)
FewIn(s, k) == s.locked[k] = 0 /\ Cardinality(s.tries[k]) < Login!Rule(k).max

LEMMA ChecksOne ==
  ASSUME LoginInv, backend = "memory", door # "wechat",
         NEW k \in Login!Key, NEW s, IsCounters(s), Untouched(s, k),
         NEW t, t = Login!Check(s, k)
  PROVE  /\ IsCounters(t) /\ \A j \in Login!Key \ {k} : t.tries[j] = s.tries[j] /\ t.locked[j] = s.locked[j]
         /\ Untouched(t, k) \/ Unlocked(t, k) \/ Swept(t, k)
         /\ ~Login!IsLocked(t, k) => FewIn(t, k)
<1> DEFINE kept == IF s.locked[k] # 0 THEN {} ELSE Login!Within(s.tries[k], k, now)
           full == Cardinality(kept) >= Login!Rule(k).max
<1>1. now \in Nat /\ locked[k] \in Nat /\ tries[k] \in SUBSET Try /\ IsFiniteSet(tries[k])
  BY DEF LoginInv, LoginType
<1>2. CASE Login!IsLocked(s, k)
  <2>1. t = s
    BY <1>2 DEF Login!Check
  <2> QED BY <1>2, <2>1 DEF Login!IsLocked, Untouched
<1>3. CASE ~Login!IsLocked(s, k)
  <2>1. locked[k] <= now
    BY <1>1, <1>3 DEF Login!IsLocked, Untouched
  <2>2. Login!Rule(k).max \in Nat \ {0} /\ Cardinality({}) = 0
    BY RuleFacts, FS_EmptySet DEF LoginInv, LoginType
  <2>3. kept \in SUBSET Try /\ kept = (IF locked[k] # 0 THEN {} ELSE Login!Within(tries[k], k, now))
    BY <1>1 DEF Untouched, Login!Within
  <2>4. Cardinality(kept) < Login!Rule(k).max /\ Cardinality(kept) \in Nat
    <3>1. CASE locked[k] # 0
      BY <2>2, <2>3, <3>1
    <3>2. CASE locked[k] = 0
      <4>1. Cardinality(Login!Within(tries[k], k, now)) < Login!Rule(k).max
        BY <3>2 DEF LoginInv, Earned, Fair
      <4>2. Cardinality(Login!Within(tries[k], k, now)) \in Nat
        BY <1>1, FewerInPart DEF Login!Within
      <4> QED BY <2>3, <3>2, <4>1, <4>2
    <3> QED BY <3>1, <3>2
  <2>5. ~full
    BY <2>2, <2>4
  <2> HIDE DEF kept, full
  <2>6. t = [tries |-> [s.tries EXCEPT ![k] = kept], locked |-> [s.locked EXCEPT ![k] = 0]]
    BY <1>3, <2>5, LoginCounts DEF Login!Check, kept, full
  <2>7. PICK T, L : T = [s.tries EXCEPT ![k] = kept] /\ L = [s.locked EXCEPT ![k] = 0]
    OBVIOUS
  <2>8. t = [tries |-> T, locked |-> L] /\ t.tries = T /\ t.locked = L
    BY <2>6, <2>7
  <2>9. /\ T \in [Login!Key -> SUBSET Try] /\ L \in [Login!Key -> Nat] /\ T[k] = kept /\ L[k] = 0
        /\ \A j \in Login!Key \ {k} : T[j] = s.tries[j] /\ L[j] = s.locked[j]
    BY <2>3, <2>7 DEF IsCounters
  <2>10. Unlocked(t, k) \/ Swept(t, k)
    BY <2>1, <2>3, <2>8, <2>9 DEF Unlocked, Swept
  <2>11. FewIn(t, k) /\ ~Login!IsLocked(t, k)
    BY <1>1, <2>4, <2>8, <2>9 DEF FewIn, Login!IsLocked
  <2> QED BY <2>1, <2>8, <2>9, <2>10, <2>11 DEF IsCounters
<1> QED BY <1>2, <1>3

(* What both checks leave; who is let in finds no lock.                    *)
LEMMA ChecksBoth ==
  ASSUME LoginInv, backend = "memory", door # "wechat", NEW from \in Address,
         NEW s, s = Login!CheckBoth(Login!Here, from)
  PROVE  /\ IsCounters(s)
         /\ \A k \in Login!Key : Untouched(s, k) \/ Unlocked(s, k) \/ Swept(s, k)
         /\ \A k \in Login!Key : k \notin {from, "all"} => Untouched(s, k)
         /\ Login!LetIn(Login!Here, from) => FewIn(s, from) /\ FewIn(s, "all")
<1>1. from \in Login!Key /\ "all" \in Login!Key /\ from # "all"
  BY LoginRules DEF Login!Key
<1>2. PICK h : h = Login!Here
  OBVIOUS
<1>3. IsCounters(h) /\ \A k \in Login!Key : Untouched(h, k)
  BY <1>2 DEF Login!Here, IsCounters, Untouched, LoginInv, LoginType
<1>4. PICK a : a = Login!Check(h, "all")
  OBVIOUS
<1>5. /\ IsCounters(a) /\ \A j \in Login!Key \ {"all"} : Untouched(a, j)
      /\ Untouched(a, "all") \/ Unlocked(a, "all") \/ Swept(a, "all")
      /\ ~Login!IsLocked(a, "all") => FewIn(a, "all")
  <2>1. /\ IsCounters(a)
        /\ \A j \in Login!Key \ {"all"} : a.tries[j] = h.tries[j] /\ a.locked[j] = h.locked[j]
        /\ Untouched(a, "all") \/ Unlocked(a, "all") \/ Swept(a, "all")
        /\ ~Login!IsLocked(a, "all") => FewIn(a, "all")
    BY <1>1, <1>3, <1>4, ChecksOne
  <2> QED BY <1>3, <2>1 DEF Untouched
<1>6. PICK b : b = Login!Check(a, from)
  OBVIOUS
<1>7. /\ IsCounters(b) /\ \A j \in Login!Key \ {from} : b.tries[j] = a.tries[j] /\ b.locked[j] = a.locked[j]
      /\ Untouched(b, from) \/ Unlocked(b, from) \/ Swept(b, from)
      /\ ~Login!IsLocked(b, from) => FewIn(b, from)
  BY <1>1, <1>5, <1>6, ChecksOne
<1>8. s = IF Login!IsLocked(a, "all") THEN a ELSE b
  BY <1>2, <1>4, <1>6 DEF Login!CheckBoth
<1>9. Login!LetIn(Login!Here, from) <=> ~Login!IsLocked(s, "all") /\ ~Login!IsLocked(s, from)
  BY DEF Login!LetIn
<1>10. CASE Login!IsLocked(a, "all")
  BY <1>5, <1>8, <1>9, <1>10
<1>11. CASE ~Login!IsLocked(a, "all")
  <2>1. \A j \in Login!Key \ {from} :
          /\ Untouched(a, j) => Untouched(b, j)
          /\ Unlocked(a, j) => Unlocked(b, j)
          /\ Swept(a, j) => Swept(b, j)
          /\ FewIn(a, j) => FewIn(b, j)
    BY <1>7 DEF Untouched, Unlocked, Swept, FewIn
  <2>2. s = b
    BY <1>8, <1>11
  <2>3. \A k \in Login!Key : Untouched(b, k) \/ Unlocked(b, k) \/ Swept(b, k)
    BY <1>5, <1>7, <2>1
  <2>4. \A k \in Login!Key : k \notin {from, "all"} => Untouched(b, k)
    BY <1>5, <2>1
  <2>5. Login!LetIn(Login!Here, from) => FewIn(b, from) /\ FewIn(b, "all")
    BY <1>1, <1>5, <1>7, <1>9, <1>11, <2>1, <2>2
  <2> QED BY <1>7, <2>2, <2>3, <2>4, <2>5
<1> QED BY <1>10, <1>11

MemoryStep(c, r) ==
  /\ backend = "memory" /\ door # "wechat" /\ c \in Asker /\ c \in Login!UnderWay
  /\ Course(r) /\ Moved(c, r) /\ asks[c].at \notin Told /\ UNCHANGED lapse

LEMMA InMemory ==
  ASSUME LoginInv, NEW c, NEW r, MemoryStep(c, r),
         tries' \in [Login!Key -> SUBSET Try], locked' \in [Login!Key -> Nat],
         wrong' \in [Login!Key -> SUBSET Try],
         \A k \in Login!Key : IsFiniteSet(tries'[k]) /\ IsFiniteSet(wrong'[k]),
         \A k \in Login!Key : \A x \in tries'[k] \cup wrong'[k] : x.at <= now,
         \A k \in Login!Key : Fair(tries'[k], locked'[k], wrong'[k], k)
  PROVE  /\ LoginType' /\ OnCourse' /\ FewTogether' /\ InThePast' /\ Lasting' /\ Earned' /\ NoLocks'
         /\ \A k : /\ MayFail(r, k) => LetThrough(k)' = LetThrough(k) \cup {c}
                   /\ ~MayFail(r, k) => LetThrough(k)' = LetThrough(k) \ {c}
<1> USE DEF MemoryStep
<1>1. /\ Asker' = Asker /\ Try' = Try /\ Login!Key' = Login!Key
      /\ \A k : Login!Rule(k)' = Login!Rule(k)
  BY DEF Moved, SameRules, Asker, Try, Login!Key, Login!Rule
<1>2. /\ OnCourse' /\ asks' \in [Asker -> AskRow]' /\ FewTogether'
      /\ \A k : /\ MayFail(r, k) => LetThrough(k)' = LetThrough(k) \cup {c}
                /\ ~MayFail(r, k) => LetThrough(k)' = LetThrough(k) \ {c}
  BY AskMoves
<1>3. LoginType'
  BY <1>1, <1>2 DEF LoginInv, LoginType, Moved, SameRules
<1>4. InThePast' /\ Lasting' /\ NoLocks'
  BY <1>1 DEF InThePast, Lasting, NoLocks, Moved, SameRules
<1>5. Earned'
  BY <1>1 DEF Earned, Fair, EarnedBy, Login!Within, Moved, SameRules
<1> QED BY <1>2, <1>3, <1>4, <1>5

LEMMA ClearFair == \A k \in Login!Key : LoginType => Fair({}, 0, {}, k)
<1> SUFFICES ASSUME NEW k \in Login!Key, LoginType PROVE Fair({}, 0, {}, k)
  OBVIOUS
<1>1. Login!Within({}, k, now) = {} /\ Cardinality({}) = 0 /\ Login!Rule(k).max \in Nat \ {0}
  BY FS_EmptySet, RuleFacts DEF Login!Within, LoginType
<1> QED BY <1>1 DEF Fair

LEMMA SweptFair ==
  ASSUME LoginInv, backend = "memory", door # "wechat", NEW k \in Login!Key, NEW s,
         Untouched(s, k) \/ Unlocked(s, k) \/ Swept(s, k), NEW W,
         W = wrong[k] \/ (Unlocked(s, k) /\ W = {})
  PROVE  /\ Fair(s.tries[k], s.locked[k], W, k)
         /\ s.tries[k] \in SUBSET tries[k] /\ IsFiniteSet(s.tries[k]) /\ W \in SUBSET wrong[k]
         /\ ~Unlocked(s, k) => Login!Within(tries[k], k, now) \subseteq s.tries[k]
<1>1. Fair(tries[k], locked[k], wrong[k], k)
  BY DEF LoginInv, Earned
<1>2. IsFiniteSet(tries[k]) /\ Login!Within({}, k, now) = {} /\ Cardinality({}) = 0 /\ IsFiniteSet({})
  BY FS_EmptySet DEF LoginInv, LoginType, Login!Within
<1>3. Login!Rule(k).max \in Nat \ {0}
  BY RuleFacts DEF LoginInv, LoginType
<1>4. Login!Within(Login!Within(tries[k], k, now), k, now) = Login!Within(tries[k], k, now)
  BY DEF Login!Within
<1>5. Login!Within(tries[k], k, now) \in SUBSET tries[k] /\ IsFiniteSet(Login!Within(tries[k], k, now))
  BY <1>2, FewerInPart DEF Login!Within
<1>6. CASE Untouched(s, k) /\ ~Unlocked(s, k)
  BY <1>1, <1>2, <1>5, <1>6 DEF Untouched
<1>7. CASE Unlocked(s, k)
  BY <1>2, <1>3, <1>7 DEF Unlocked, Fair
<1>8. CASE Swept(s, k) /\ ~Unlocked(s, k)
  BY <1>1, <1>4, <1>5, <1>8 DEF Swept, Fair
<1> QED BY <1>6, <1>7, <1>8

(* A lock that is over is of failures that are too old to count.           *)
LEMMA LockOutlasts ==
  ASSUME LoginInv, backend = "memory", door = "staff", NEW k \in Login!Key, NEW s, Unlocked(s, k),
         NEW x \in wrong[k]
  PROVE  x \notin Login!Within(wrong[k], k, now)
<1>1. x.at + Login!Rule(k).lock <= locked[k] /\ locked[k] <= now
  BY DEF LoginInv, Earned, Fair, Unlocked
<1>2. x.at \in Nat /\ locked[k] \in Nat /\ now \in Nat
  BY DEF LoginInv, LoginType, Try
<1>3. /\ Login!Rule(k).lock \in Nat /\ Login!Rule(k).window \in Nat
      /\ Login!Rule(k).window <= Login!Rule(k).lock
  BY RuleFacts DEF LoginInv, LoginType
<1> QED BY <1>1, <1>2, <1>3 DEF Login!Within

LEMMA RecordFair ==
  ASSUME LoginType, NEW k \in Login!Key, NEW T \in SUBSET Try, NEW L \in Nat, NEW W \in SUBSET Try,
         Fair(T, L, W, k), IsFiniteSet(T), IsFiniteSet(W), \A y \in W : y.at <= now,
         NEW x \in Try, x.at = now, door = "staff" => L = 0,
         NEW M, M = IF Cardinality(Login!Within(T \cup {x}, k, now)) >= Login!Rule(k).max
                    THEN now + Login!Rule(k).lock ELSE L
  PROVE  Fair(T \cup {x}, M, W \cup {x}, k) /\ M \in Nat
<1> DEFINE R == Login!Within(T \cup {x}, k, now)
           full == Cardinality(R) >= Login!Rule(k).max
           rule == Login!Rule(k)
           Of(V, f) == {y \in V : y.at <= f /\ f - y.at < rule.window}
<1>1. rule.max \in Nat \ {0} /\ rule.lock \in Nat /\ rule.window \in Nat /\ now \in Nat
  BY RuleFacts DEF LoginType
<1>2. IsFiniteSet(T \cup {x}) /\ IsFiniteSet(W \cup {x}) /\ T \cup {x} \subseteq W \cup {x}
  BY FS_AddElement DEF Fair
<1>3. IsFiniteSet(R) /\ Cardinality(R) \in Nat
  BY <1>2, FewerInPart DEF Login!Within
<1>4. CASE full
  <2>1. M = now + rule.lock /\ M \in Nat
    BY <1>1, <1>4
  <2>2. M # 0 => M - rule.lock = now
    BY <1>1, <2>1
  <2>3. \A y \in T \cup {x} : y.at <= now
    BY <1>1 DEF Fair
  <2>4. R \subseteq Of(W \cup {x}, now)
    BY <1>2, <2>3 DEF Login!Within
  <2>5. /\ Cardinality(R) <= Cardinality(Of(W \cup {x}, now))
        /\ Cardinality(Of(W \cup {x}, now)) \in Nat
    <3>1. IsFiniteSet(Of(W \cup {x}, now))
      BY <1>2, FewerInPart
    <3> HIDE DEF R, Of
    <3> QED BY <2>4, <3>1, FewerInPart
  <2>6. EarnedBy(W \cup {x}, k, now)
    <3>1. Cardinality(Of(W \cup {x}, now)) >= rule.max
      BY <1>1, <1>3, <1>4, <2>5
    <3> QED BY <3>1 DEF EarnedBy
  <2>7. \A y \in W \cup {x} : y.at + rule.lock <= M
    BY <1>1, <2>1 DEF Try
  <2>8. M # 0
    <3>1. now # 0
      BY DEF LoginType
    <3> QED BY <1>1, <2>1, <3>1
  <2> QED BY <1>2, <2>1, <2>2, <2>6, <2>7, <2>8 DEF Fair
<1>5. CASE ~full
  <2>1. M = L /\ Cardinality(R) < rule.max
    BY <1>1, <1>3, <1>5
  <2>2. ASSUME L # 0 PROVE EarnedBy(W \cup {x}, k, L - rule.lock)
    <3>1. EarnedBy(W, k, L - rule.lock)
      BY <2>2 DEF Fair
    <3>2. PICK f : f = L - rule.lock
      OBVIOUS
    <3>3. IsFiniteSet(Of(W \cup {x}, f)) /\ Of(W, f) \subseteq Of(W \cup {x}, f)
      BY <1>2, FewerInPart
    <3>4. /\ Cardinality(Of(W, f)) <= Cardinality(Of(W \cup {x}, f))
          /\ Cardinality(Of(W, f)) \in Nat /\ Cardinality(Of(W \cup {x}, f)) \in Nat
      <4> HIDE DEF Of
      <4> QED BY <3>3, FewerInPart
    <3>5. Cardinality(Of(W, f)) >= rule.max
      BY <3>1, <3>2 DEF EarnedBy
    <3>6. Cardinality(Of(W \cup {x}, f)) >= rule.max
      BY <1>1, <3>4, <3>5
    <3> QED BY <3>1, <3>2, <3>6 DEF EarnedBy
  <2>3. door = "staff" => L = 0
    OBVIOUS
  <2> QED BY <1>2, <2>1, <2>2, <2>3 DEF Fair
<1> QED BY <1>4, <1>5

LEMMA ChecksMove ==
  ASSUME LoginInv, NEW c, NEW r, MemoryStep(c, r), asks[c].from \in Address,
         NEW s, s = Login!CheckBoth(Login!Here, asks[c].from), tries' = s.tries, locked' = s.locked,
         wrong' \in [Login!Key -> SUBSET Try],
         \A k \in Login!Key : wrong'[k] = IF Unlocked(s, k) /\ door = "admin" THEN {} ELSE wrong[k],
         \/ r = Login!Done
         \/ /\ r.at = "decide" /\ r.from = asks[c].from /\ door = "admin"
            /\ Login!LetIn(Login!Here, asks[c].from)
  PROVE  LoginInv'
<1> DEFINE from == asks[c].from
<1>1. /\ IsCounters(s) /\ \A k \in Login!Key : Untouched(s, k) \/ Unlocked(s, k) \/ Swept(s, k)
      /\ \A k \in Login!Key : k \notin {from, "all"} => Untouched(s, k)
      /\ Login!LetIn(Login!Here, from) => FewIn(s, from) /\ FewIn(s, "all")
  BY ChecksBoth DEF MemoryStep
<1>2. \A k \in Login!Key :
        /\ Fair(s.tries[k], s.locked[k], wrong'[k], k)
        /\ s.tries[k] \in SUBSET tries[k] /\ IsFiniteSet(s.tries[k]) /\ wrong'[k] \in SUBSET wrong[k]
        /\ ~Unlocked(s, k) => Login!Within(tries[k], k, now) \subseteq s.tries[k]
  BY <1>1, SweptFair DEF MemoryStep
<1>3. \A k \in Login!Key : IsFiniteSet(wrong'[k]) /\ \A x \in s.tries[k] \cup wrong'[k] : x.at <= now
  BY <1>2, FewerInPart DEF LoginInv, LoginType, InThePast
<1>4. /\ LoginType' /\ OnCourse' /\ FewTogether' /\ InThePast' /\ Lasting' /\ Earned' /\ NoLocks'
      /\ \A k : /\ MayFail(r, k) => LetThrough(k)' = LetThrough(k) \cup {c}
                /\ ~MayFail(r, k) => LetThrough(k)' = LetThrough(k) \ {c}
  <2>1. s.tries \in [Login!Key -> SUBSET Try] /\ s.locked \in [Login!Key -> Nat]
    BY <1>1 DEF IsCounters
  <2> QED BY <1>2, <1>3, <2>1, InMemory
<1>5. Login!Key' = Login!Key /\ \A k : Login!Rule(k)' = Login!Rule(k)
  BY DEF MemoryStep, Moved, SameRules, Login!Key, Login!Rule
<1>6. SameRules /\ c \in Asker /\ asks[c].at \notin Told /\ Moved(c, r) /\ Course(r)
  BY DEF MemoryStep, Moved
<1>7. FewCharged'
  <2> SUFFICES ASSUME NEW k \in Login!Key
               PROVE  Cardinality(Charged(k)') <= (Login!Rule(k).max + Login!Overlap)'
    BY <1>5 DEF FewCharged
  <2>1. CASE MayFail(r, k)
    <3>1. /\ r.at = "decide" /\ k \in {from, "all"} /\ door = "admin"
          /\ Login!LetIn(Login!Here, from)
      <4>1. r # Login!Done
        BY <2>1, DoneOnCourse DEF LoginInv
      <4> QED BY <2>1, <4>1 DEF MayFail
    <3>2. IsFiniteSet(s.tries[k]) /\ Cardinality(s.tries[k]) < Login!Rule(k).max
      BY <1>1, <1>2, <3>1 DEF FewIn
    <3>3. CountedNow(k)' \subseteq {x.by : x \in s.tries[k]}
      BY DEF CountedNow, Login!Within
    <3> QED BY <1>4, <1>6, <3>1, <3>2, <3>3, PassedTheCheck DEF Charged, LoginInv
  <2>2. CASE ~MayFail(r, k)
    <3>1. LetThrough(k)' \subseteq LetThrough(k)
      BY <1>4, <2>2
    <3>2. CountedNow(k)' \subseteq CountedNow(k)
      BY <1>2, <1>5, <1>6 DEF CountedNow, Login!Within, SameRules
    <3> QED BY <1>6, <3>1, <3>2, NoneMoreCharged DEF Charged
  <2> QED BY <2>1, <2>2
<1>8. AllCharged'
  <2>1. ASSUME NEW k \in Login!Key, NEW x \in Login!Within(wrong'[k], k, now)
        PROVE  /\ x \in wrong[k] /\ (x.by = c => ~MayFail(asks[c], k))
               /\ Login!Within(tries[k], k, now) \subseteq tries'[k]
    <3>1. x \in wrong'[k] /\ x \in wrong[k] /\ x \in Login!Within(wrong[k], k, now)
      BY <1>2 DEF Login!Within
    <3>2. x.by # c
      BY <1>6, <3>1 DEF LoginInv, OneFailureEach
    <3>3. ~Unlocked(s, k)
      <4> SUFFICES ASSUME Unlocked(s, k) PROVE FALSE
        OBVIOUS
      <4>1. CASE door = "admin"
        BY <3>1, <4>1
      <4>2. CASE door = "staff"
        BY <3>1, <4>2, LockOutlasts DEF MemoryStep
      <4> QED BY <4>1, <4>2 DEF MemoryStep, LoginInv, LoginType
    <3> QED BY <1>2, <3>1, <3>2, <3>3
  <2> QED BY <1>6, <2>1, ChargesMove
<1>9. OneFailureEach'
  BY <1>2, <1>6, FailuresMove
<1> QED BY <1>4, <1>7, <1>8, <1>9 DEF LoginInv

LEMMA ChecksAdmin ==
  ASSUME LoginInv, NEW c \in DOMAIN asks, Login!AdminInMemory(c)
  PROVE  LoginInv'
<1> DEFINE from == asks[c].from
<1>1. PICK s : s = Login!CheckBoth(Login!Here, from)
  OBVIOUS
<1>2. /\ backend = "memory" /\ door = "admin" /\ asks[c].at = "check" /\ SameRules /\ UNCHANGED lapse
      /\ tries' = s.tries /\ locked' = s.locked
      /\ wrong' = [k \in Login!Key |-> IF k \in {j \in Login!Key : locked[j] # 0 /\ s.locked[j] = 0}
                                      THEN {} ELSE wrong[k]]
  BY <1>1 DEF Login!AdminInMemory, Login!Become, Login!Forgot, Login!fixed, SameRules
<1>3. /\ c \in Asker /\ asks[c] \in AskRow /\ Course(asks[c])
      /\ from \in Login!Key /\ c \in Login!UnderWay
  BY <1>2, AskFacts
<1>4. from \in Address /\ asks[c].key = "all" /\ asks[c].at \notin Told /\ "all" \in Login!Key
      /\ asks[c].time \in Nat /\ asks[c].time <= now
  BY <1>2, <1>3 DEF Course, Told, Login!Key, AskRow
<1>5. PICK r : /\ asks' = [asks EXCEPT ![c] = r]
               /\ \/ r = Login!Done
                  \/ r = [asks[c] EXCEPT !.at = "decide"] /\ Login!LetIn(Login!Here, from)
  BY DEF Login!AdminInMemory, Login!Move, Login!End
<1>6. \/ r = Login!Done
      \/ /\ r \in AskRow /\ r.at = "decide" /\ r.from = from /\ r.key = "all" /\ r.time = asks[c].time
         /\ Login!LetIn(Login!Here, from)
  <2>1. [asks[c] EXCEPT !.at = "decide"] = Login!Call("decide", "all", from, asks[c].time)
    BY <1>3, <1>4 DEF Login!Call, AskRow
  <2> QED BY <1>3, <1>4, <1>5, <2>1, RowType
<1>7. Course(r)
  <2>1. CASE r = Login!Done
    BY <2>1, DoneOnCourse DEF LoginInv
  <2>2. CASE r \in AskRow /\ r.at = "decide" /\ r.from = from /\ r.key = "all" /\ r.time = asks[c].time
    BY <1>2, <1>4, <2>2 DEF Course
  <2> QED BY <1>6, <2>1, <2>2
<1>8. MemoryStep(c, r)
  BY <1>2, <1>3, <1>4, <1>5, <1>7 DEF MemoryStep, Moved
<1>9. \A k \in Login!Key : Unlocked(s, k) <=> locked[k] # 0 /\ s.locked[k] = 0
  <2>1. \A k \in Login!Key : Untouched(s, k) \/ Unlocked(s, k) \/ Swept(s, k)
    BY <1>1, <1>2, <1>4, ChecksBoth
  <2> QED BY <2>1 DEF Untouched, Unlocked, Swept
<1>10. /\ wrong' \in [Login!Key -> SUBSET Try]
       /\ \A k \in Login!Key : wrong'[k] = IF Unlocked(s, k) /\ door = "admin" THEN {} ELSE wrong[k]
  BY <1>2, <1>9 DEF LoginInv, LoginType
<1> QED BY <1>1, <1>2, <1>4, <1>6, <1>8, <1>10, ChecksMove

LockAfter(T, L, k) ==
  IF Cardinality(Login!Within(T, k, now)) >= Login!Rule(k).max THEN now + Login!Rule(k).lock ELSE L

LEMMA RecordsOne ==
  ASSUME LoginType, NEW c \in Asker, NEW x, x = [by |-> c, at |-> now], NEW s, IsCounters(s),
         NEW k \in Login!Key, NEW t, t = Login!Record(s, k, c)
  PROVE  /\ IsCounters(t) /\ x \in Try /\ x.at = now /\ x.by = c
         /\ \A j \in Login!Key \ {k} : t.tries[j] = s.tries[j] /\ t.locked[j] = s.locked[j]
         /\ t.tries[k] = s.tries[k] \cup {x}
         /\ t.locked[k] = LockAfter(s.tries[k] \cup {x}, s.locked[k], k)
<1>1. x \in Try /\ x.at = now /\ x.by = c
  BY DEF Try, LoginType
<1>2. PICK new : new = s.tries[k] \cup {x}
  OBVIOUS
<1>3. PICK m : m = LockAfter(new, s.locked[k], k)
  OBVIOUS
<1>4. new \in SUBSET Try /\ m \in Nat
  <2>1. Login!Rule(k).lock \in Nat /\ now \in Nat
    BY RuleFacts DEF LoginType
  <2> QED BY <1>1, <1>2, <1>3, <2>1 DEF IsCounters, LockAfter
<1>5. t = [tries |-> [s.tries EXCEPT ![k] = new], locked |-> [s.locked EXCEPT ![k] = m]]
  BY <1>2, <1>3, LoginCounts DEF Login!Record, LockAfter
<1>6. PICK T, L : T = [s.tries EXCEPT ![k] = new] /\ L = [s.locked EXCEPT ![k] = m]
  OBVIOUS
<1>7. t = [tries |-> T, locked |-> L] /\ t.tries = T /\ t.locked = L
  BY <1>5, <1>6
<1>8. /\ T \in [Login!Key -> SUBSET Try] /\ L \in [Login!Key -> Nat] /\ T[k] = new /\ L[k] = m
      /\ \A j \in Login!Key \ {k} : T[j] = s.tries[j] /\ L[j] = s.locked[j]
  BY <1>4, <1>6 DEF IsCounters
<1> QED BY <1>1, <1>2, <1>3, <1>7, <1>8 DEF IsCounters

LEMMA RecordsBoth ==
  ASSUME LoginType, NEW c \in Asker, NEW x, x = [by |-> c, at |-> now], NEW s, IsCounters(s),
         NEW from \in Login!Key, from # "all",
         NEW t, t = Login!Record(Login!Record(s, from, c), "all", c)
  PROVE  /\ IsCounters(t) /\ x \in Try /\ x.at = now /\ x.by = c
         /\ \A k \in Login!Key :
              /\ k \notin {from, "all"} => t.tries[k] = s.tries[k] /\ t.locked[k] = s.locked[k]
              /\ k \in {from, "all"} =>
                   /\ t.tries[k] = s.tries[k] \cup {x}
                   /\ t.locked[k] = LockAfter(s.tries[k] \cup {x}, s.locked[k], k)
<1>1. PICK u : u = Login!Record(s, from, c)
  OBVIOUS
<1>2. /\ IsCounters(u) /\ x \in Try /\ x.at = now /\ x.by = c
      /\ \A j \in Login!Key \ {from} : u.tries[j] = s.tries[j] /\ u.locked[j] = s.locked[j]
      /\ u.tries[from] = s.tries[from] \cup {x}
      /\ u.locked[from] = LockAfter(s.tries[from] \cup {x}, s.locked[from], from)
  BY <1>1, RecordsOne
<1>3. "all" \in Login!Key /\ t = Login!Record(u, "all", c)
  BY <1>1 DEF Login!Key
<1>4. /\ IsCounters(t)
      /\ \A j \in Login!Key \ {"all"} : t.tries[j] = u.tries[j] /\ t.locked[j] = u.locked[j]
      /\ t.tries["all"] = u.tries["all"] \cup {x}
      /\ t.locked["all"] = LockAfter(u.tries["all"] \cup {x}, u.locked["all"], "all")
  <2> SUFFICES ASSUME NEW a \in Login!Key, a = "all"
               PROVE  /\ IsCounters(t)
                      /\ \A j \in Login!Key \ {a} : t.tries[j] = u.tries[j] /\ t.locked[j] = u.locked[j]
                      /\ t.tries[a] = u.tries[a] \cup {x}
                      /\ t.locked[a] = LockAfter(u.tries[a] \cup {x}, u.locked[a], a)
    BY <1>3
  <2>1. t = Login!Record(u, a, c)
    BY <1>3
  <2>2. IsCounters(u)
    BY <1>2
  <2> QED BY ONLY <2>1, <2>2, LoginType, c \in Asker, x = [by |-> c, at |-> now], a \in Login!Key, RecordsOne
<1> QED BY <1>2, <1>3, <1>4

LEMMA ClearsBoth ==
  ASSUME LoginType, NEW s, IsCounters(s), NEW from \in Login!Key, from # "all",
         NEW t, t = Login!Clear(Login!Clear(s, from), "all")
  PROVE  /\ IsCounters(t)
         /\ \A k \in Login!Key :
              /\ k \notin {from, "all"} => t.tries[k] = s.tries[k] /\ t.locked[k] = s.locked[k]
              /\ k \in {from, "all"} => t.tries[k] = {} /\ t.locked[k] = 0
<1>1. PICK T, L : T = s.tries /\ L = s.locked
  OBVIOUS
<1>2. T \in [Login!Key -> SUBSET Try] /\ L \in [Login!Key -> Nat] /\ "all" \in Login!Key
  BY <1>1 DEF IsCounters, Login!Key
<1>3. t = [tries |-> [[T EXCEPT ![from] = {}] EXCEPT !["all"] = {}],
           locked |-> [[L EXCEPT ![from] = 0] EXCEPT !["all"] = 0]]
  BY <1>1 DEF Login!Clear
<1> QED BY <1>1, <1>2, <1>3 DEF IsCounters

(* The answer, of who was checked with it (staff) or before.               *)
Checked(s, from) ==
  \/ door = "admin" /\ \A k \in Login!Key : Untouched(s, k)
  \/ /\ door = "staff" /\ FewIn(s, from) /\ FewIn(s, "all")
     /\ \A k \in Login!Key : Untouched(s, k) \/ Unlocked(s, k) \/ Swept(s, k)
     /\ \A k \in Login!Key : k \notin {from, "all"} => Untouched(s, k)

LEMMA Decides ==
  ASSUME LoginInv, NEW c, MemoryStep(c, Login!Done), asks[c].from \in Address,
         door = "admin" => asks[c].at = "decide", door = "staff" => asks[c].at = "check",
         NEW s, IsCounters(s), Checked(s, asks[c].from),
         NEW o \in Login!Outcome, NEW t, t = Login!Decided(s, c, o),
         tries' = t.tries, locked' = t.locked, Login!Noted(c, o)
  PROVE  LoginInv'
<1> DEFINE from == asks[c].from
           both == {from, "all"}
<1>1. from \in Login!Key /\ from # "all" /\ "all" \in Login!Key /\ c \in Asker /\ backend = "memory"
  BY LoginRules DEF Login!Key, MemoryStep
<1>2. PICK x : x = [by |-> c, at |-> now]
  OBVIOUS
<1>3. x \in Try /\ x.by = c /\ x.at = now
  BY <1>1, <1>2 DEF Try, LoginInv, LoginType
<1>4. \A k \in Login!Key : Untouched(s, k) \/ Unlocked(s, k) \/ Swept(s, k)
  BY DEF Checked
<1>5. door \in {"staff", "admin"} /\ (o = "closed" => door = "admin") /\ o \in {"in", "wrong", "closed"}
  BY DEF MemoryStep, LoginInv, LoginType, Login!Outcome
<1>6. \A k \in Login!Key :
        /\ Fair(s.tries[k], s.locked[k], wrong[k], k)
        /\ s.tries[k] \in SUBSET tries[k] /\ IsFiniteSet(s.tries[k])
        /\ ~Unlocked(s, k) => Login!Within(tries[k], k, now) \subseteq s.tries[k]
        /\ IsFiniteSet(wrong[k]) /\ wrong[k] \in SUBSET Try /\ \A y \in wrong[k] : y.at <= now
        /\ \A y \in tries[k] : y.at <= now
  BY <1>4, SweptFair DEF MemoryStep, LoginInv, LoginType, InThePast
<1>7. /\ IsCounters(t) /\ wrong' \in [Login!Key -> SUBSET Try]
      /\ \A k \in Login!Key : k \notin both \/ o = "closed" =>
           t.tries[k] = s.tries[k] /\ t.locked[k] = s.locked[k] /\ wrong'[k] = wrong[k]
      /\ \A k \in both : o = "in" => t.tries[k] = {} /\ t.locked[k] = 0 /\ wrong'[k] = {}
      /\ \A k \in both : o = "wrong" =>
           /\ t.tries[k] = s.tries[k] \cup {x} /\ wrong'[k] = wrong[k] \cup {x}
           /\ t.locked[k] = LockAfter(s.tries[k] \cup {x}, s.locked[k], k)
  <2>1. CASE o = "closed"
    BY <2>1 DEF Login!Decided, Login!Noted, LoginInv, LoginType
  <2>2. CASE o = "in"
    <3>1. t = Login!Clear(Login!Clear(s, from), "all")
      BY <2>2 DEF Login!Decided
    <3>2. /\ IsCounters(t)
          /\ \A k \in Login!Key :
               /\ k \notin {from, "all"} => t.tries[k] = s.tries[k] /\ t.locked[k] = s.locked[k]
               /\ k \in {from, "all"} => t.tries[k] = {} /\ t.locked[k] = 0
      BY <1>1, <3>1, ClearsBoth DEF LoginInv
    <3>3. wrong' = [k \in Login!Key |-> IF k \in both THEN {} ELSE wrong[k]]
      BY <2>2 DEF Login!Noted, Login!Forgot
    <3> QED BY <1>1, <1>6, <2>2, <3>2, <3>3
  <2>3. CASE o = "wrong"
    <3>1. t = Login!Record(Login!Record(s, from, c), "all", c)
      BY <2>3 DEF Login!Decided
    <3>2. /\ IsCounters(t)
          /\ \A k \in Login!Key :
               /\ k \notin {from, "all"} => t.tries[k] = s.tries[k] /\ t.locked[k] = s.locked[k]
               /\ k \in {from, "all"} =>
                    /\ t.tries[k] = s.tries[k] \cup {x}
                    /\ t.locked[k] = LockAfter(s.tries[k] \cup {x}, s.locked[k], k)
      <4>1. LoginType
        BY DEF LoginInv
      <4>2. PICK f : f = from
        OBVIOUS
      <4>3. f \in Login!Key /\ f # "all" /\ t = Login!Record(Login!Record(s, f, c), "all", c)
        BY <1>1, <3>1, <4>2
      <4>4. c \in Asker /\ x = [by |-> c, at |-> now] /\ IsCounters(s)
        BY <1>1, <1>2
      <4>5. /\ IsCounters(t)
            /\ \A k \in Login!Key :
                 /\ k \notin {f, "all"} => t.tries[k] = s.tries[k] /\ t.locked[k] = s.locked[k]
                 /\ k \in {f, "all"} =>
                      /\ t.tries[k] = s.tries[k] \cup {x}
                      /\ t.locked[k] = LockAfter(s.tries[k] \cup {x}, s.locked[k], k)
        BY ONLY <4>1, <4>3, <4>4, RecordsBoth
      <4> QED BY ONLY <4>2, <4>5
    <3>3. wrong' = [k \in Login!Key |-> IF k \in both THEN wrong[k] \cup {x} ELSE wrong[k]]
      BY <1>2, <2>3 DEF Login!Noted, Login!Failed
    <3> QED BY <1>1, <1>3, <1>6, <2>3, <3>2, <3>3
  <2> QED BY <1>5, <2>1, <2>2, <2>3
<1>8. t.tries \in [Login!Key -> SUBSET Try] /\ t.locked \in [Login!Key -> Nat]
  BY <1>7 DEF IsCounters
<1>9. \A k \in Login!Key :
        /\ Fair(t.tries[k], t.locked[k], wrong'[k], k)
        /\ IsFiniteSet(t.tries[k]) /\ IsFiniteSet(wrong'[k])
        /\ \A y \in t.tries[k] \cup wrong'[k] : y.at <= now
  <2> SUFFICES ASSUME NEW k \in Login!Key
               PROVE  /\ Fair(t.tries[k], t.locked[k], wrong'[k], k)
                      /\ IsFiniteSet(t.tries[k]) /\ IsFiniteSet(wrong'[k])
                      /\ \A y \in t.tries[k] \cup wrong'[k] : y.at <= now
    OBVIOUS
  <2>1. CASE k \notin both \/ o = "closed"
    BY <1>6, <1>7, <2>1
  <2>2. CASE k \in both /\ o = "in"
    BY <1>7, <2>2, ClearFair, FS_EmptySet DEF LoginInv
  <2>3. CASE k \in both /\ o = "wrong"
    <3>1. door = "staff" => s.locked[k] = 0
      BY <1>1, <2>3 DEF Checked, FewIn
    <3>2. s.tries[k] \in SUBSET Try /\ s.locked[k] \in Nat /\ now \in Nat
      BY DEF IsCounters, LoginInv, LoginType
    <3>3. Fair(s.tries[k] \cup {x}, LockAfter(s.tries[k] \cup {x}, s.locked[k], k), wrong[k] \cup {x}, k)
      <4>1. PICK T, L, W : T = s.tries[k] /\ L = s.locked[k] /\ W = wrong[k]
        OBVIOUS
      <4>2. PICK M : M = LockAfter(T \cup {x}, L, k)
        OBVIOUS
      <4>3. Fair(T \cup {x}, M, W \cup {x}, k)
        BY <1>3, <1>6, <3>1, <3>2, <4>1, <4>2, RecordFair DEF LockAfter, LoginInv
      <4> QED BY <4>1, <4>2, <4>3
    <3>4. IsFiniteSet(s.tries[k] \cup {x}) /\ IsFiniteSet(wrong[k] \cup {x})
      BY <1>6, FS_AddElement
    <3>5. /\ t.tries[k] = s.tries[k] \cup {x} /\ wrong'[k] = wrong[k] \cup {x}
          /\ t.locked[k] = LockAfter(s.tries[k] \cup {x}, s.locked[k], k)
      BY <1>7, <2>3
    <3>6. Fair(t.tries[k], t.locked[k], wrong'[k], k)
      BY <3>3, <3>5
    <3>7. ASSUME NEW y \in s.tries[k] \cup {x} \cup wrong[k] PROVE y.at <= now
      <4>1. CASE y = x
        BY <1>3, <3>2, <4>1
      <4>2. CASE y \in tries[k] \/ y \in wrong[k]
        BY <1>6, <4>2
      <4> QED BY <1>6, <3>7, <4>1, <4>2
    <3> QED BY <3>4, <3>5, <3>6, <3>7
  <2> QED BY <1>5, <2>1, <2>2, <2>3
<1>10. /\ LoginType' /\ OnCourse' /\ FewTogether' /\ InThePast' /\ Lasting' /\ Earned' /\ NoLocks'
       /\ \A k : ~MayFail(Login!Done, k) => LetThrough(k)' = LetThrough(k) \ {c}
  BY <1>7, <1>8, <1>9, InMemory
<1>11. \A k : LetThrough(k)' = LetThrough(k) \ {c}
  BY <1>10, DoneOnCourse DEF LoginInv
<1>12. Login!Key' = Login!Key /\ (\A k : Login!Rule(k)' = Login!Rule(k)) /\ Login!Overlap' = Login!Overlap
  BY DEF MemoryStep, Moved, SameRules, Login!Key, Login!Rule, Login!Overlap
<1>13. SameRules /\ asks[c].at \notin Told /\ Moved(c, Login!Done) /\ Course(Login!Done) /\ Login!Done.at \in Told
  BY DEF MemoryStep, Moved, Login!Done, Login!Call, Told
<1>14. FewCharged'
  <2> SUFFICES ASSUME NEW k \in Login!Key
               PROVE  Cardinality(Charged(k)') <= (Login!Rule(k).max + Login!Overlap)'
    BY <1>12 DEF FewCharged
  <2>1. CASE k \in both /\ o = "wrong" /\ door = "staff"
    <3>1. LetThrough(k) = {}
      <4>1. ASSUME NEW d \in Asker PROVE ~MayFail(asks[d], k)
        <5>1. Course(asks[d])
          BY <4>1 DEF LoginInv, OnCourse
        <5> QED BY <1>1, <2>1, <5>1 DEF Course, MayFail
      <4> QED BY <4>1 DEF LetThrough
    <3>2. /\ IsFiniteSet(s.tries[k] \cup {x})
          /\ Cardinality(s.tries[k] \cup {x}) <= Cardinality(s.tries[k]) + 1
          /\ Cardinality(s.tries[k] \cup {x}) \in Nat /\ Cardinality(s.tries[k]) \in Nat
      <4>1. IsFiniteSet(s.tries[k])
        BY <1>6
      <4>2. /\ IsFiniteSet(s.tries[k] \cup {x}) /\ Cardinality(s.tries[k]) \in Nat
            /\ Cardinality(s.tries[k] \cup {x})
                 = IF x \in s.tries[k] THEN Cardinality(s.tries[k]) ELSE Cardinality(s.tries[k]) + 1
        BY <4>1, FS_AddElement, FS_CardinalityType
      <4> QED BY <4>2
    <3>3. Cardinality(s.tries[k]) < Login!Rule(k).max
      BY <2>1 DEF Checked, FewIn
    <3>4. Charged(k)' \subseteq {y.by : y \in s.tries[k] \cup {x}}
      BY <1>7, <1>11, <2>1, <3>1 DEF Charged, CountedNow, Login!Within
    <3>5. /\ IsFiniteSet({y.by : y \in s.tries[k] \cup {x}})
          /\ Cardinality({y.by : y \in s.tries[k] \cup {x}}) <= Cardinality(s.tries[k] \cup {x})
      BY <3>2, DoersFew
    <3>6. /\ Cardinality(Charged(k)') <= Cardinality({y.by : y \in s.tries[k] \cup {x}})
          /\ Cardinality(Charged(k)') \in Nat /\ Cardinality({y.by : y \in s.tries[k] \cup {x}}) \in Nat
      BY <3>4, <3>5, FewerInPart
    <3>7. Login!Rule(k).max \in Nat /\ Login!Overlap \in Nat
      BY RuleFacts, OverlapType DEF LoginInv, LoginType
    <3> QED BY <1>12, <3>2, <3>3, <3>5, <3>6, <3>7
  <2>2. CASE ~(k \in both /\ o = "wrong" /\ door = "staff")
    <3>1. LetThrough(k)' \subseteq LetThrough(k)
      BY <1>11
    <3>2. CountedNow(k)' \subseteq Charged(k)
      <4>1. CASE k \in both /\ o = "wrong"
        <5>1. door = "admin" /\ asks[c].at = "decide"
          BY <1>5, <2>2, <4>1
        <5>2. c \in LetThrough(k)
          BY <1>1, <4>1, <5>1 DEF LetThrough, MayFail
        <5>3. \A y \in tries'[k] : y \in tries[k] \/ y.by = c
          BY <1>3, <1>6, <1>7, <4>1
        <5> QED BY <1>12, <1>13, <5>2, <5>3 DEF Charged, CountedNow, Login!Within, SameRules
      <4>2. CASE ~(k \in both /\ o = "wrong")
        <5>1. tries'[k] \subseteq tries[k]
          BY <1>5, <1>6, <1>7, <4>2
        <5> QED BY <1>12, <1>13, <5>1 DEF Charged, CountedNow, Login!Within, SameRules
      <4> QED BY <4>1, <4>2
    <3> QED BY <1>13, <3>1, <3>2, NoneMoreCharged DEF Charged
  <2> QED BY <2>1, <2>2
<1>15. AllCharged'
  <2>1. ASSUME NEW k \in Login!Key, NEW y \in Login!Within(wrong'[k], k, now)
        PROVE  \/ \E z \in tries'[k] : z.by = y.by /\ z.at >= y.at
               \/ /\ y \in wrong[k] /\ (y.by = c => ~MayFail(asks[c], k))
                  /\ Login!Within(tries[k], k, now) \subseteq tries'[k]
    <3>1. y \in wrong'[k]
      BY <2>1 DEF Login!Within
    <3>2. CASE y \notin wrong[k]
      <4>1. y = x /\ x \in tries'[k]
        BY <1>5, <1>7, <3>1, <3>2
      <4>2. x.at >= x.at
        BY <1>3 DEF LoginInv, LoginType
      <4> QED BY <4>1, <4>2
    <3>3. CASE y \in wrong[k]
      <4>1. y.by # c
        BY <1>13, <3>3 DEF LoginInv, OneFailureEach
      <4>2. ~Unlocked(s, k)
        <5> SUFFICES ASSUME Unlocked(s, k) PROVE FALSE
          OBVIOUS
        <5>1. CASE door = "admin"
          BY <5>1 DEF Checked, Untouched, Unlocked
        <5>2. CASE door = "staff"
          <6>1. y \in Login!Within(wrong[k], k, now)
            BY <2>1, <3>3 DEF Login!Within
          <6> QED BY <1>1, <3>3, <5>2, <6>1, LockOutlasts
        <5> QED BY <1>5, <5>1, <5>2
      <4>3. s.tries[k] \subseteq tries'[k]
        BY <1>5, <1>7, <3>1
      <4> QED BY <1>6, <3>3, <4>1, <4>2, <4>3
    <3> QED BY <3>2, <3>3
  <2> QED BY <1>1, <1>13, <2>1, ChargesMove
<1>16. OneFailureEach'
  <2>1. CASE o = "wrong"
    <3>1. \A k \in Login!Key : wrong'[k] \subseteq wrong[k] \cup {x}
      BY <1>7, <2>1
    <3> QED BY <1>1, <1>3, <1>13, <3>1, FailureTold
  <2>2. CASE o # "wrong"
    <3>1. \A k \in Login!Key : wrong'[k] \subseteq wrong[k]
      BY <1>5, <1>7, <2>2
    <3> QED BY <1>1, <1>13, <3>1, FailuresMove
  <2> QED BY <2>1, <2>2
<1> QED BY <1>10, <1>14, <1>15, <1>16 DEF LoginInv

LEMMA AnswersInMemory ==
  ASSUME LoginInv, NEW c \in DOMAIN asks, NEW o \in Login!Outcome, Login!DecideInMemory(c, o)
  PROVE  LoginInv'
<1>1. /\ backend = "memory" /\ asks[c].at = "decide" /\ SameRules /\ UNCHANGED lapse
      /\ asks' = [asks EXCEPT ![c] = Login!Done] /\ Login!Noted(c, o)
  BY DEF Login!DecideInMemory, Login!Become, Login!End, Login!fixed, SameRules
<1>2. /\ c \in Asker /\ Course(asks[c]) /\ c \in Login!UnderWay
  BY <1>1, AskFacts
<1>3. door = "admin" /\ asks[c].from \in Address /\ asks[c].at \notin Told
  BY <1>1, <1>2 DEF Course, Told
<1>4. MemoryStep(c, Login!Done)
  BY <1>1, <1>2, <1>3, DoneOnCourse DEF MemoryStep, Moved, LoginInv
<1>5. PICK s : s = Login!Here
  OBVIOUS
<1>6. IsCounters(s) /\ Checked(s, asks[c].from)
  BY <1>3, <1>5 DEF Login!Here, IsCounters, Checked, Untouched, LoginInv, LoginType
<1>7. PICK t : t = Login!Decided(s, c, o)
  OBVIOUS
<1>8. tries' = t.tries /\ locked' = t.locked
  BY <1>5, <1>7 DEF Login!DecideInMemory, Login!Become
<1> QED BY <1>1, <1>3, <1>4, <1>6, <1>7, <1>8, Decides

LEMMA StaffLogsIn ==
  ASSUME LoginInv, NEW c \in DOMAIN asks, NEW o \in Login!Outcome, Login!StaffInMemory(c, o)
  PROVE  LoginInv'
<1> DEFINE from == asks[c].from
<1>1. PICK s : s = Login!CheckBoth(Login!Here, from)
  OBVIOUS
<1>2. /\ backend = "memory" /\ door = "staff" /\ asks[c].at = "check" /\ SameRules /\ UNCHANGED lapse
      /\ asks' = [asks EXCEPT ![c] = Login!Done]
      /\ IF Login!LetIn(Login!Here, from)
         THEN /\ tries' = Login!Decided(s, c, o).tries /\ locked' = Login!Decided(s, c, o).locked
              /\ Login!Noted(c, o)
         ELSE tries' = s.tries /\ locked' = s.locked /\ UNCHANGED wrong
  BY <1>1 DEF Login!StaffInMemory, Login!Become, Login!End, Login!fixed, SameRules
<1>3. /\ c \in Asker /\ Course(asks[c]) /\ c \in Login!UnderWay
  BY <1>2, AskFacts
<1>4. from \in Address /\ asks[c].at \notin Told
  BY <1>2, <1>3 DEF Course, Told
<1>5. MemoryStep(c, Login!Done)
  BY <1>2, <1>3, <1>4, DoneOnCourse DEF MemoryStep, Moved, LoginInv
<1>6. CASE Login!LetIn(Login!Here, from)
  <2>1. IsCounters(s) /\ Checked(s, from)
    BY <1>1, <1>2, <1>4, <1>6, ChecksBoth DEF Checked
  <2>2. PICK t : t = Login!Decided(s, c, o)
    OBVIOUS
  <2>3. tries' = t.tries /\ locked' = t.locked /\ Login!Noted(c, o)
    BY <1>2, <1>6, <2>2
  <2> QED BY <1>2, <1>4, <1>5, <2>1, <2>2, <2>3, Decides
<1>7. CASE ~Login!LetIn(Login!Here, from)
  <2>1. PICK r : r = Login!Done
    OBVIOUS
  <2>2. /\ wrong' \in [Login!Key -> SUBSET Try]
        /\ \A k \in Login!Key : wrong'[k] = IF Unlocked(s, k) /\ door = "admin" THEN {} ELSE wrong[k]
    BY <1>2, <1>7 DEF LoginInv, LoginType
  <2> QED BY <1>1, <1>2, <1>4, <1>5, <1>7, <2>1, <2>2, ChecksMove
<1> QED BY <1>6, <1>7

LEMMA HitsInMemory ==
  ASSUME LoginInv, NEW c \in DOMAIN asks, Login!HitInMemory(c)
  PROVE  LoginInv'
<1> DEFINE from == asks[c].from
           recent == Login!Within(tries[from], from, now)
           full == Cardinality(recent) >= Login!Rule(from).max
<1>1. /\ backend = "memory" /\ door = "wechat" /\ asks[c].at = "check" /\ SameRules
      /\ UNCHANGED <<lapse, locked>> /\ asks' = [asks EXCEPT ![c] = Login!Done]
  BY DEF Login!HitInMemory, Login!End, Login!fixed, SameRules
<1>2. /\ c \in Asker /\ Course(asks[c]) /\ c \in Login!UnderWay /\ from \in Login!Key
  BY <1>1, AskFacts
<1>3. PICK r : r = Login!Done
  OBVIOUS
<1>4. /\ asks[c].at \notin Told /\ Moved(c, r) /\ Course(r) /\ r.at \in Told /\ \A k : ~MayFail(r, k)
  BY <1>1, <1>3, DoneOnCourse DEF Told, Moved, LoginInv, Login!Done, Login!Call
<1>5. \A k \in Login!Key, d \in Asker : ~MayFail(asks[d], k)
  <2> SUFFICES ASSUME NEW k \in Login!Key, NEW d \in Asker PROVE ~MayFail(asks[d], k)
    OBVIOUS
  <2>1. Course(asks[d])
    BY DEF LoginInv, OnCourse
  <2> QED BY <1>1, <2>1 DEF Course, MayFail
<1>6. PICK x : x = [by |-> c, at |-> now]
  OBVIOUS
<1>7. x \in Try /\ x.by = c /\ x.at = now /\ now \in Nat
  BY <1>2, <1>6 DEF Try, LoginInv, LoginType
<1>8. /\ tries' = [tries EXCEPT ![from] = IF full THEN @ ELSE recent \cup {x}]
      /\ wrong' = [wrong EXCEPT ![from] = IF full THEN @ ELSE @ \cup {x}]
  BY <1>6, LoginCounts DEF Login!HitInMemory
<1>9. /\ tries \in [Login!Key -> SUBSET Try] /\ wrong \in [Login!Key -> SUBSET Try]
      /\ \A k \in Login!Key : IsFiniteSet(tries[k]) /\ IsFiniteSet(wrong[k])
  BY DEF LoginInv, LoginType
<1>10. recent \in SUBSET tries[from] /\ IsFiniteSet(recent) /\ Cardinality(recent) \in Nat
  BY <1>2, <1>9, FewerInPart DEF Login!Within
<1>11. Login!Rule(from).max \in Nat
  BY <1>2, RuleFacts DEF LoginInv, LoginType
<1>12. \A k \in Login!Key : k # from \/ full => tries'[k] = tries[k] /\ wrong'[k] = wrong[k]
  BY <1>2, <1>8, <1>9
<1>13. ~full => tries'[from] = recent \cup {x} /\ wrong'[from] = wrong[from] \cup {x}
  BY <1>2, <1>8, <1>9
<1>14. /\ tries' \in [Login!Key -> SUBSET Try] /\ wrong' \in [Login!Key -> SUBSET Try]
       /\ \A k \in Login!Key : IsFiniteSet(tries'[k]) /\ IsFiniteSet(wrong'[k])
  <2>1. recent \cup {x} \in SUBSET Try /\ \A k \in Login!Key : wrong[k] \cup {x} \in SUBSET Try
    BY <1>2, <1>7, <1>9, <1>10
  <2>2. IsFiniteSet(recent \cup {x}) /\ \A k \in Login!Key : IsFiniteSet(wrong[k] \cup {x})
    BY <1>9, <1>10, FS_AddElement
  <2>3. PICK T, W : /\ T = (IF full THEN tries[from] ELSE recent \cup {x})
                    /\ W = (IF full THEN wrong[from] ELSE wrong[from] \cup {x})
    OBVIOUS
  <2>4. T \in SUBSET Try /\ W \in SUBSET Try /\ IsFiniteSet(T) /\ IsFiniteSet(W)
    BY <1>2, <1>9, <2>1, <2>2, <2>3
  <2>5. tries' = [tries EXCEPT ![from] = T] /\ wrong' = [wrong EXCEPT ![from] = W]
    BY <1>8, <2>3
  <2> QED BY <1>2, <1>9, <2>4, <2>5
<1> HIDE DEF recent, full
<1>15. Asker' = Asker /\ Try' = Try /\ Login!Key' = Login!Key /\ \A k : Login!Rule(k)' = Login!Rule(k)
  BY <1>1 DEF SameRules, Asker, Try, Login!Key, Login!Rule
<1>16. /\ OnCourse' /\ asks' \in [Asker -> AskRow]' /\ FewTogether'
       /\ \A k : ~MayFail(r, k) => LetThrough(k)' = LetThrough(k) \ {c}
  BY Zenon, <1>2, <1>4, AskMoves
<1>17. LoginType'
  BY <1>1, <1>14, <1>15, <1>16 DEF LoginInv, LoginType, SameRules
<1>18. \A k \in Login!Key : LetThrough(k) = {} /\ LetThrough(k)' = {}
  BY <1>4, <1>5, <1>16 DEF LetThrough
<1>19. FewCharged'
  <2> SUFFICES ASSUME NEW k \in Login!Key
               PROVE  Cardinality(Charged(k)') <= (Login!Rule(k).max + Login!Overlap)'
    BY <1>15 DEF FewCharged
  <2>1. CASE k # from \/ full
    <3>1. CountedNow(k)' = CountedNow(k)
      BY <1>1, <1>12, <1>15, <2>1 DEF CountedNow, Login!Within, SameRules
    <3> QED BY <1>1, <1>18, <3>1, NoneMoreCharged DEF Charged
  <2>2. CASE k = from /\ ~full
    <3>1. PICK R : R = recent \cup {x}
      OBVIOUS
    <3>2. IsFiniteSet(R) /\ Cardinality(R) <= Cardinality(recent) + 1 /\ Cardinality(R) \in Nat
      <4>1. /\ IsFiniteSet(R)
            /\ Cardinality(R) = IF x \in recent THEN Cardinality(recent) ELSE Cardinality(recent) + 1
        BY <1>10, <3>1, FS_AddElement
      <4> QED BY <1>10, <4>1
    <3>3. Charged(k)' \subseteq {y.by : y \in R}
      BY <1>13, <1>18, <2>2, <3>1 DEF Charged, CountedNow, Login!Within
    <3>4. IsFiniteSet({y.by : y \in R}) /\ Cardinality({y.by : y \in R}) <= Cardinality(R)
      BY <3>2, DoersFew
    <3>5. /\ Cardinality(Charged(k)') <= Cardinality({y.by : y \in R})
          /\ Cardinality(Charged(k)') \in Nat /\ Cardinality({y.by : y \in R}) \in Nat
      BY <3>3, <3>4, FewerInPart
    <3>6. Cardinality(recent) < Login!Rule(from).max
      BY <1>10, <1>11, <2>2 DEF full
    <3>7. Login!Overlap' \in Nat /\ Login!Rule(k)' = Login!Rule(k)
      BY <1>15, LoginRules DEF Login!Overlap
    <3> QED BY <1>10, <1>11, <2>2, <3>2, <3>4, <3>5, <3>6, <3>7
  <2> QED BY <2>1, <2>2
<1>20. AllCharged'
  <2>1. ASSUME NEW k \in Login!Key, NEW y \in Login!Within(wrong'[k], k, now)
        PROVE  \/ \E z \in tries'[k] : z.by = y.by /\ z.at >= y.at
               \/ /\ y \in wrong[k] /\ (y.by = c => ~MayFail(asks[c], k))
                  /\ Login!Within(tries[k], k, now) \subseteq tries'[k]
    <3>1. y \in wrong'[k]
      BY <2>1 DEF Login!Within
    <3>2. CASE y \notin wrong[k]
      <4>1. y = x /\ x \in tries'[k]
        BY <1>12, <1>13, <3>1, <3>2
      <4> QED BY <1>7, <4>1
    <3>3. CASE y \in wrong[k]
      <4>1. Login!Within(tries[k], k, now) \subseteq tries'[k]
        BY <1>12, <1>13 DEF Login!Within, recent
      <4> QED BY <1>2, <1>5, <3>3, <4>1
    <3> QED BY <3>2, <3>3
  <2> QED BY <1>2, <1>4, <2>1, ChargesMove
<1>21. OneFailureEach'
  <2>1. \A k \in Login!Key : wrong'[k] \subseteq wrong[k] \cup {x}
    BY <1>12, <1>13
  <2> QED BY <1>2, <1>4, <1>7, <2>1, FailureTold
<1>22. InThePast'
  <2>1. ASSUME NEW k \in Login!Key, NEW y \in tries'[k] \cup wrong'[k] PROVE y.at <= now
    <3>1. CASE y = x
      BY <1>7, <3>1
    <3>2. CASE y \in tries[k] \cup wrong[k]
      BY <3>2 DEF LoginInv, InThePast
    <3> QED BY <1>10, <1>12, <1>13, <2>1, <3>1, <3>2
  <2> QED BY <1>1, <1>15, <2>1 DEF InThePast, SameRules
<1>23. Lasting' /\ Earned' /\ NoLocks'
  BY <1>1, <1>15 DEF LoginInv, Lasting, Earned, NoLocks, SameRules
<1> QED BY <1>16, <1>17, <1>19, <1>20, <1>21, <1>22, <1>23 DEF LoginInv

LEMMA LoginStep == LoginInv /\ [Login!Next]_(Login!vars) => LoginInv'
<1> SUFFICES ASSUME LoginInv, [Login!Next]_(Login!vars) PROVE LoginInv'
  OBVIOUS
<1>1. ASSUME UNCHANGED Login!vars PROVE LoginInv'
  <2>1. /\ UNCHANGED <<backend, door, setup, now, tries, lapse, locked, asks, wrong>>
    BY <1>1 DEF Login!vars
  <2>2. LoginType' /\ OnCourse' /\ FewTogether' /\ InThePast' /\ Lasting' /\ NoLocks'
    BY <2>1
    DEF LoginInv, LoginType, OnCourse, FewTogether, InThePast, Lasting, NoLocks, Asker, AskRow,
             Try, Course, Login!Key, Login!New, Login!Done, Login!Rule, Login!UnderWay
  <2>3. /\ Login!Key' = Login!Key /\ Asker' = Asker /\ Told' = Told /\ Login!Overlap' = Login!Overlap
        /\ \A k : /\ Login!Rule(k)' = Login!Rule(k)
                  /\ LetThrough(k)' = LetThrough(k)
    BY <2>1 DEF Login!Key, Asker, Told, Login!Overlap, Login!Rule, LetThrough, MayFail
  <2>4. \A k : Charged(k)' = Charged(k)
    BY <2>1, <2>3 DEF Charged, CountedNow, Login!Within
  <2>5. FewCharged' /\ OneFailureEach'
    BY <2>1, <2>3, <2>4 DEF LoginInv, FewCharged, OneFailureEach
  <2>6. AllCharged'
    BY <2>1, <2>3 DEF LoginInv, AllCharged, StaysCounted, Login!Within
  <2>7. Earned'
    BY <2>1 DEF LoginInv, Earned, Fair, EarnedBy, Login!Key, Login!Rule, Login!Within
  <2> QED BY <2>2, <2>5, <2>6, <2>7 DEF LoginInv
<1>2. ASSUME NEW c \in DOMAIN asks, NEW from \in setup.from, Login!Arrive(c, from) PROVE LoginInv'
  BY <1>2, Arrives
<1>3. ASSUME NEW c \in DOMAIN asks, NEW o \in Login!Outcome,
             Login!StaffInMemory(c, o) \/ Login!DecideInMemory(c, o) \/ Login!DecideWithRedis(c, o)
      PROVE  LoginInv'
  BY <1>3, StaffLogsIn, AnswersInMemory, DecidesWithRedis
<1>4. ASSUME NEW c \in DOMAIN asks, Login!AdminInMemory(c) \/ Login!HitInMemory(c) PROVE LoginInv'
  BY <1>4, ChecksAdmin, HitsInMemory
<1>5. ASSUME NEW c \in DOMAIN asks,
             \/ Login!GetLock(c) \/ Login!CountRecent(c) \/ Login!Add(c)
             \/ Login!Judge(c) \/ Login!ClearKey(c) \/ Login!Die(c)
      PROVE  LoginInv'
  BY <1>5, GetsLock, Counts, Adds, Judges, Clears, Dies
<1> QED BY Zenon, <1>1, <1>2, <1>3, <1>4, <1>5, Ticks DEF Login!Next

(* However requests, answers and time interleave, in memory and in Redis,  *)
(* since a counter was last cleared no window sees more failures (for      *)
(* WeChat: logins) than the rule lets through and those under way with the *)
(* last of them; in memory, nobody is locked out who did not fail so often.*)
THEOREM LimitsAreFairHolds == Login!Spec => []LimitsAreFair
<1>1. LoginInv => LimitsAreFair
  BY LoginLimits DEF LimitsAreFair
<1> QED BY <1>1, LoginStarts, LoginStep, PTL DEF Login!Spec

-----------------------------------------------------------------------------
(* The reports and the settlement.  What the rows of the till on a day are *)
(* worth is what its orders of that day were sold for and paid back: that  *)
(* is kept by every step, and the rest is bookkeeping by days and rows.    *)

RowKinds == {e[1] : e \in Recorded} \cup {"sale", "refund"}

LedgerRow == [kind : RowKinds, product : Product, day : Nat, qty : Int, amount : Int,
              cost : Int \cup {NoCost}, channel : {"pos", "voice", "offline"}, voided : BOOLEAN]

Payout == [day : Nat, amount : Int]

Slip == [product : Product, status : {"paid", "held", "cancelled", "refunded", "partial_refund"},
         born : Nat, sold : Nat, gross : Int, discount : Int, cost : Int \cup {NoCost},
         back : Nat, refunded : Int, payouts : Seq(Payout)]

(* What a row is, beyond its type: the till's rows are not voided, goods   *)
(* that come in are counted one by one, and no loss is negative.           *)
SoundRow(r) ==
  /\ r.channel = "pos" => ~r.voided /\ r.kind \in {"sale", "refund"}
  /\ r.kind = "purchase" => r.qty = 1
  /\ r.kind = "waste" => r.amount \in Nat

SoundSlip(o) == o.status \in {"held", "cancelled"} <=> o.sold = 0

(* What a row of the till adds to a day, an order's goods, its payouts.    *)
Posts(r, kind, d) == IF r.channel = "pos" /\ r.kind = kind /\ r.day = d THEN r.amount ELSE 0
Gone(o, d)        == IF o.sold = d THEN o.gross ELSE 0
PaidOn(ps, d)     == [i \in DOMAIN ps |-> IF ps[i].day = d THEN ps[i].amount ELSE 0]
Paid(ps, d)       == SumOf(PaidOn(ps, d))

PostsOn(L, kind, d) == [i \in DOMAIN L |-> Posts(L[i], kind, d)]
GoneOn(os, d)       == [i \in DOMAIN os |-> Gone(os[i], d)]
BackOn(os, d)       == [i \in DOMAIN os |-> Paid(os[i].payouts, d)]

RowSums(L, os) ==
  \A d \in Nat \ {0} :
    /\ SumOf(PostsOn(L, "sale", d)) = SumOf(GoneOn(os, d))
    /\ SumOf(PostsOn(L, "refund", d)) = SumOf(BackOn(os, d))

ReportInv ==
  /\ today \in Nat \ {0}
  /\ ledger \in Seq(LedgerRow) /\ \A i \in DOMAIN ledger : SoundRow(ledger[i])
  /\ slips \in Seq(Slip) /\ \A i \in DOMAIN slips : SoundSlip(slips[i])
  /\ RowSums(ledger, slips)

LEMMA ReportSums == \A f : Report!SumOf(f) = SumOf(f)
  BY DEF Report!SumOf, SumOf, Report!MapThenFoldSet, MapThenFoldSet

LEMMA Whole ==
  /\ PerRow \in Nat \ {0} /\ -PerRow \in Int /\ Amounts \subseteq Nat /\ Costs \subseteq Int
  /\ 1 .. Days \subseteq Nat
<1>1. /\ PerRow \in Nat \ {0} /\ Amounts \subseteq Nat /\ Costs \subseteq Int
  BY Zenon, SumsAreWhole
<1> QED BY <1>1

LEMMA PaidOutIs == \A o, d : Report!PaidOut(o, d) = Paid(o.payouts, d)
  BY ReportSums, Zenon DEF Report!PaidOut, Report!Sum, Paid, PaidOn

LEMMA PaidFacts ==
  ASSUME NEW ps \in Seq(Payout), NEW d
  PROVE  /\ Paid(ps, d) \in Int /\ Paid(<<>>, d) = 0
         /\ \A p \in Payout : /\ Append(ps, p) \in Seq(Payout)
                              /\ Paid(Append(ps, p), d) = Paid(ps, d) + (IF p.day = d THEN p.amount ELSE 0)
<1>1. /\ Len(ps) \in Nat /\ DOMAIN ps = 1 .. Len(ps) /\ IsFiniteSet(1 .. Len(ps))
      /\ PaidOn(ps, d) \in [1 .. Len(ps) -> Int]
  <2>1. Len(ps) \in Nat /\ DOMAIN ps = 1 .. Len(ps) /\ \A i \in DOMAIN ps : ps[i] \in Payout
    OBVIOUS
  <2>2. \A i \in 1 .. Len(ps) : (IF ps[i].day = d THEN ps[i].amount ELSE 0) \in Int
    <3>1. \A p \in Payout : p.amount \in Int
      BY DEF Payout
    <3> QED BY <2>1, <3>1
  <2>3. PaidOn(ps, d) = [i \in 1 .. Len(ps) |-> IF ps[i].day = d THEN ps[i].amount ELSE 0]
    BY Zenon, <2>1 DEF PaidOn
  <2>4. PaidOn(ps, d) \in [1 .. Len(ps) -> Int]
    BY Zenon, <2>2, <2>3
  <2>5. IsFiniteSet(1 .. Len(ps))
    BY <2>1, FS_Interval
  <2> QED BY <2>1, <2>4, <2>5
<1>2. Paid(ps, d) \in Int
  BY <1>1, SumInt DEF Paid
<1>3. Paid(<<>>, d) = 0
  <2>1. PaidOn(<<>>, d) \in [{} -> Int]
    BY DEF PaidOn
  <2> QED BY <2>1, SumEmpty DEF Paid
<1>4. ASSUME NEW p \in Payout
      PROVE  /\ Append(ps, p) \in Seq(Payout)
             /\ Paid(Append(ps, p), d) = Paid(ps, d) + (IF p.day = d THEN p.amount ELSE 0)
  <2>1. /\ Append(ps, p) \in Seq(Payout) /\ DOMAIN Append(ps, p) = 1 .. Len(ps) + 1
        /\ Append(ps, p)[Len(ps) + 1] = p
        /\ \A i \in 1 .. Len(ps) : Append(ps, p)[i] = ps[i]
    OBVIOUS
  <2>2. PICK qs : qs = Append(ps, p)
    OBVIOUS
  <2>3. \A i \in 1 .. Len(ps) + 1 : qs[i] \in Payout
    BY <1>1, <2>1, <2>2
  <2>4. /\ PaidOn(qs, d) \in [1 .. Len(ps) + 1 -> Int]
        /\ \A i \in 1 .. Len(ps) : PaidOn(ps, d)[i] = PaidOn(qs, d)[i]
        /\ PaidOn(qs, d)[Len(ps) + 1] = IF p.day = d THEN p.amount ELSE 0
    BY <1>1, <2>1, <2>2, <2>3 DEF PaidOn, Payout
  <2>5. SumOf(PaidOn(qs, d)) = SumOf(PaidOn(ps, d)) + PaidOn(qs, d)[Len(ps) + 1]
    <3> DEFINE f == PaidOn(ps, d)
               g == PaidOn(qs, d)
               n == Len(ps)
    <3>1. n \in Nat /\ f \in [1 .. n -> Int] /\ g \in [1 .. n + 1 -> Int] /\ \A i \in 1 .. n : f[i] = g[i]
      BY <1>1, <2>4
    <3> HIDE DEF f, g, n
    <3>2. SumOf(g) = SumOf(f) + g[n + 1]
      BY <3>1, SumNext
    <3> QED BY <3>2 DEF f, g, n
  <2> QED BY <2>1, <2>2, <2>4, <2>5 DEF Paid
<1> QED BY <1>2, <1>3, <1>4

Lengthened(f, x, g) == g = Append(f, x)
Swapped(f, i, x, g) == g = [f EXCEPT ![i] = x]

(* The sums over a list of numbers that gets one more, or another one.     *)
Grown(f, g, n, x) ==
  /\ f \in [1 .. n -> Int] /\ g = [i \in 1 .. n + 1 |-> IF i = n + 1 THEN x ELSE f[i]]

LEMMA GrownSum ==
  ASSUME NEW n \in Nat, NEW x \in Int, NEW f, NEW g, Grown(f, g, n, x)
  PROVE  SumOf(g) = SumOf(f) + x
<1>1. /\ f \in [1 .. n -> Int] /\ g \in [1 .. n + 1 -> Int]
      /\ (\A i \in 1 .. n : f[i] = g[i]) /\ g[n + 1] = x
  BY DEF Grown
<1> QED BY <1>1, SumNext

LEMMA LedgerFacts ==
  ASSUME NEW L \in Seq(LedgerRow)
  PROVE  /\ Len(L) \in Nat /\ DOMAIN L = 1 .. Len(L) /\ IsFiniteSet(DOMAIN L)
         /\ \A kind, d : /\ PostsOn(L, kind, d) \in [DOMAIN L -> Int]
                         /\ SumOf(PostsOn(L, kind, d)) \in Int
<1>1. Len(L) \in Nat /\ DOMAIN L = 1 .. Len(L) /\ \A i \in DOMAIN L : L[i] \in LedgerRow
  OBVIOUS
<1>2. IsFiniteSet(DOMAIN L)
  BY <1>1, FS_Interval
<1>3. ASSUME NEW kind, NEW d
      PROVE  PostsOn(L, kind, d) \in [DOMAIN L -> Int]
  <2>1. \A i \in DOMAIN L : L[i].amount \in Int
    BY <1>1 DEF LedgerRow
  <2> QED BY <2>1 DEF PostsOn, Posts
<1> QED BY <1>1, <1>2, <1>3, SumInt

LEMMA SlipFacts ==
  ASSUME NEW os \in Seq(Slip)
  PROVE  /\ Len(os) \in Nat /\ DOMAIN os = 1 .. Len(os) /\ IsFiniteSet(DOMAIN os)
         /\ \A i \in DOMAIN os : os[i] \in Slip
         /\ \A d : /\ GoneOn(os, d) \in [DOMAIN os -> Int] /\ BackOn(os, d) \in [DOMAIN os -> Int]
                   /\ SumOf(GoneOn(os, d)) \in Int /\ SumOf(BackOn(os, d)) \in Int
<1>1. Len(os) \in Nat /\ DOMAIN os = 1 .. Len(os) /\ \A i \in DOMAIN os : os[i] \in Slip
  OBVIOUS
<1>2. IsFiniteSet(DOMAIN os)
  BY <1>1, FS_Interval
<1>3. \A i \in DOMAIN os : os[i].gross \in Int /\ os[i].payouts \in Seq(Payout)
  BY <1>1 DEF Slip
<1>4. ASSUME NEW d
      PROVE  GoneOn(os, d) \in [DOMAIN os -> Int] /\ BackOn(os, d) \in [DOMAIN os -> Int]
  <2>1. \A i \in DOMAIN os : Gone(os[i], d) \in Int /\ Paid(os[i].payouts, d) \in Int
    BY <1>3, PaidFacts DEF Gone
  <2> QED BY <2>1 DEF GoneOn, BackOn
<1> QED BY <1>1, <1>2, <1>4, SumInt

LEMMA RowAppended ==
  ASSUME NEW L \in Seq(LedgerRow), NEW r \in LedgerRow, NEW M, Lengthened(L, r, M)
  PROVE  /\ M \in Seq(LedgerRow) /\ DOMAIN M = 1 .. Len(L) + 1 /\ M[Len(L) + 1] = r
         /\ \A i \in 1 .. Len(L) : M[i] = L[i]
         /\ \A kind, d : SumOf(PostsOn(M, kind, d)) = SumOf(PostsOn(L, kind, d)) + Posts(r, kind, d)
<1>1. /\ M \in Seq(LedgerRow) /\ DOMAIN M = 1 .. Len(L) + 1 /\ M[Len(L) + 1] = r
      /\ (\A i \in 1 .. Len(L) : M[i] = L[i]) /\ Len(L) \in Nat /\ DOMAIN L = 1 .. Len(L)
  BY DEF Lengthened
<1>2. ASSUME NEW kind, NEW d
      PROVE  SumOf(PostsOn(M, kind, d)) = SumOf(PostsOn(L, kind, d)) + Posts(r, kind, d)
  <2>1. Posts(r, kind, d) \in Int /\ PostsOn(L, kind, d) \in [1 .. Len(L) -> Int]
    <3>1. r.amount \in Int
      BY DEF LedgerRow
    <3>2. PostsOn(L, kind, d) \in [DOMAIN L -> Int]
      BY LedgerFacts
    <3> QED BY <1>1, <3>1, <3>2 DEF Posts
  <2>2. Grown(PostsOn(L, kind, d), PostsOn(M, kind, d), Len(L), Posts(r, kind, d))
    BY <1>1, <2>1 DEF Grown, PostsOn
  <2> QED BY <1>1, <2>1, <2>2, GrownSum
<1> QED BY <1>1, <1>2

LEMMA SlipAppended ==
  ASSUME NEW os \in Seq(Slip), NEW o \in Slip, NEW ps, Lengthened(os, o, ps)
  PROVE  /\ ps \in Seq(Slip) /\ DOMAIN ps = 1 .. Len(os) + 1 /\ ps[Len(os) + 1] = o
         /\ \A i \in 1 .. Len(os) : ps[i] = os[i]
         /\ \A d : /\ SumOf(GoneOn(ps, d)) = SumOf(GoneOn(os, d)) + Gone(o, d)
                   /\ SumOf(BackOn(ps, d)) = SumOf(BackOn(os, d)) + Paid(o.payouts, d)
<1>1. /\ ps \in Seq(Slip) /\ DOMAIN ps = 1 .. Len(os) + 1 /\ ps[Len(os) + 1] = o
      /\ (\A i \in 1 .. Len(os) : ps[i] = os[i]) /\ Len(os) \in Nat /\ DOMAIN os = 1 .. Len(os)
  BY DEF Lengthened
<1>2. ASSUME NEW d
      PROVE  /\ SumOf(GoneOn(ps, d)) = SumOf(GoneOn(os, d)) + Gone(o, d)
             /\ SumOf(BackOn(ps, d)) = SumOf(BackOn(os, d)) + Paid(o.payouts, d)
  <2>1. o.gross \in Int /\ o.payouts \in Seq(Payout)
    BY DEF Slip
  <2>2. Gone(o, d) \in Int /\ Paid(o.payouts, d) \in Int
    BY <2>1, PaidFacts DEF Gone
  <2>3. GoneOn(os, d) \in [1 .. Len(os) -> Int] /\ BackOn(os, d) \in [1 .. Len(os) -> Int]
    BY <1>1, SlipFacts
  <2>4. Grown(GoneOn(os, d), GoneOn(ps, d), Len(os), Gone(o, d))
    BY <1>1, <2>3 DEF Grown, GoneOn
  <2>5. Grown(BackOn(os, d), BackOn(ps, d), Len(os), Paid(o.payouts, d))
    BY <1>1, <2>3 DEF Grown, BackOn
  <2> QED BY <1>1, <2>2, <2>4, <2>5, GrownSum
<1> QED BY <1>1, <1>2

LEMMA SlipChanged ==
  ASSUME NEW os \in Seq(Slip), NEW i \in DOMAIN os, NEW o \in Slip, NEW ps, Swapped(os, i, o, ps)
  PROVE  /\ ps \in Seq(Slip) /\ DOMAIN ps = DOMAIN os /\ ps[i] = o
         /\ \A j \in DOMAIN os : j # i => ps[j] = os[j]
         /\ \A d : /\ SumOf(GoneOn(ps, d)) = SumOf(GoneOn(os, d)) + Gone(o, d) - Gone(os[i], d)
                   /\ SumOf(BackOn(ps, d)) = SumOf(BackOn(os, d)) + Paid(o.payouts, d)
                                               - Paid(os[i].payouts, d)
<1>1. /\ ps \in Seq(Slip) /\ DOMAIN ps = DOMAIN os /\ ps[i] = o
      /\ \A j \in DOMAIN os : j # i => ps[j] = os[j]
  BY DEF Swapped
<1>2. ASSUME NEW d
      PROVE  /\ SumOf(GoneOn(ps, d)) = SumOf(GoneOn(os, d)) + Gone(o, d) - Gone(os[i], d)
             /\ SumOf(BackOn(ps, d)) = SumOf(BackOn(os, d)) + Paid(o.payouts, d)
                                         - Paid(os[i].payouts, d)
  <2> DEFINE S == DOMAIN os
             f == GoneOn(os, d)
             g == GoneOn(ps, d)
             h == BackOn(os, d)
             k == BackOn(ps, d)
  <2>1. /\ IsFiniteSet(S) /\ i \in S /\ f \in [S -> Int] /\ g \in [S -> Int]
        /\ h \in [S -> Int] /\ k \in [S -> Int]
    BY <1>1, SlipFacts
  <2>2. /\ \A j \in S \ {i} : f[j] = g[j] /\ h[j] = k[j]
        /\ f[i] = Gone(os[i], d) /\ g[i] = Gone(o, d)
        /\ h[i] = Paid(os[i].payouts, d) /\ k[i] = Paid(o.payouts, d)
    BY <1>1 DEF GoneOn, BackOn
  <2> HIDE DEF S, f, g, h, k
  <2>3. SumOf(g) = SumOf(f) + g[i] - f[i]
    BY <2>1, <2>2, SumUpdate
  <2>4. SumOf(k) = SumOf(h) + k[i] - h[i]
    BY <2>1, <2>2, SumUpdate
  <2> QED BY <2>2, <2>3, <2>4 DEF f, g, h, k
<1> QED BY <1>1, <1>2

-----------------------------------------------------------------------------
(* Every step keeps the sums.                                              *)

LEMMA ReportInit == Report!Init => ReportInv
<1> SUFFICES ASSUME Report!Init PROVE ReportInv
  OBVIOUS
<1>1. today = 1 /\ ledger = <<>> /\ slips = <<>>
  BY DEF Report!Init
<1>2. RowSums(<<>>, <<>>)
  <2> SUFFICES ASSUME NEW d
               PROVE  /\ SumOf(PostsOn(<<>>, "sale", d)) = 0 /\ SumOf(PostsOn(<<>>, "refund", d)) = 0
                      /\ SumOf(GoneOn(<<>>, d)) = 0 /\ SumOf(BackOn(<<>>, d)) = 0
    BY DEF RowSums
  <2>1. /\ PostsOn(<<>>, "sale", d) \in [{} -> Int] /\ PostsOn(<<>>, "refund", d) \in [{} -> Int]
        /\ GoneOn(<<>>, d) \in [{} -> Int] /\ BackOn(<<>>, d) \in [{} -> Int]
    BY DEF PostsOn, GoneOn, BackOn
  <2> QED BY <2>1, SumEmpty
<1> QED BY <1>1, <1>2 DEF ReportInv

LEMMA RowPut ==
  ASSUME ReportInv, NEW r \in LedgerRow, SoundRow(r), Report!Put(r)
  PROVE  /\ ledger' \in Seq(LedgerRow) /\ \A i \in DOMAIN ledger' : SoundRow(ledger'[i])
         /\ \A kind, d : SumOf(PostsOn(ledger', kind, d)) = SumOf(PostsOn(ledger, kind, d)) + Posts(r, kind, d)
<1>1. ledger \in Seq(LedgerRow) /\ ledger' = Append(ledger, r) /\ \A i \in DOMAIN ledger : SoundRow(ledger[i])
  BY DEF ReportInv, Report!Put
<1>2. /\ ledger' \in Seq(LedgerRow) /\ DOMAIN ledger' = 1 .. Len(ledger) + 1 /\ ledger'[Len(ledger) + 1] = r
      /\ \A i \in 1 .. Len(ledger) : ledger'[i] = ledger[i]
      /\ \A kind, d : SumOf(PostsOn(ledger', kind, d)) = SumOf(PostsOn(ledger, kind, d)) + Posts(r, kind, d)
  <2>1. PICK M : M = ledger'
    OBVIOUS
  <2>2. Lengthened(ledger, r, M) /\ ledger \in Seq(LedgerRow) /\ r \in LedgerRow
    BY <1>1, <2>1 DEF Lengthened
  <2>3. /\ M \in Seq(LedgerRow) /\ DOMAIN M = 1 .. Len(ledger) + 1 /\ M[Len(ledger) + 1] = r
        /\ \A i \in 1 .. Len(ledger) : M[i] = ledger[i]
        /\ \A kind, d : SumOf(PostsOn(M, kind, d)) = SumOf(PostsOn(ledger, kind, d)) + Posts(r, kind, d)
    BY ONLY <2>2, RowAppended
  <2> QED BY <2>1, <2>3, Zenon
<1>3. Len(ledger) \in Nat /\ DOMAIN ledger = 1 .. Len(ledger)
  BY <1>1
<1>4. \A i \in DOMAIN ledger' : i \in DOMAIN ledger \/ i = Len(ledger) + 1
  BY <1>2, <1>3
<1> QED BY <1>1, <1>2, <1>3, <1>4

LEMMA RowIs ==
  ASSUME NEW kind \in RowKinds, NEW p \in Product, NEW day \in Nat, NEW qty \in Int, NEW amount \in Int,
         NEW cost \in Int \cup {NoCost}, NEW channel \in {"pos", "voice", "offline"}
  PROVE  /\ Report!Row(kind, p, day, qty, amount, cost, channel) \in LedgerRow
         /\ channel = "pos" /\ kind \in {"sale", "refund"}
              => SoundRow(Report!Row(kind, p, day, qty, amount, cost, channel))
         /\ \A k, d : Posts(Report!Row(kind, p, day, qty, amount, cost, channel), k, d)
                        = IF channel = "pos" /\ k = kind /\ d = day THEN amount ELSE 0
  BY DEF Report!Row, LedgerRow, SoundRow, Posts

LEMMA SlipPut ==
  ASSUME ReportInv, NEW o \in Slip, SoundSlip(o), slips' = Append(slips, o)
  PROVE  /\ slips' \in Seq(Slip) /\ \A i \in DOMAIN slips' : SoundSlip(slips'[i])
         /\ \A d : /\ SumOf(GoneOn(slips', d)) = SumOf(GoneOn(slips, d)) + Gone(o, d)
                   /\ SumOf(BackOn(slips', d)) = SumOf(BackOn(slips, d)) + Paid(o.payouts, d)
<1>1. slips \in Seq(Slip) /\ \A i \in DOMAIN slips : SoundSlip(slips[i])
  BY DEF ReportInv
<1>2. /\ slips' \in Seq(Slip) /\ DOMAIN slips' = 1 .. Len(slips) + 1 /\ slips'[Len(slips) + 1] = o
      /\ \A i \in 1 .. Len(slips) : slips'[i] = slips[i]
      /\ \A d : /\ SumOf(GoneOn(slips', d)) = SumOf(GoneOn(slips, d)) + Gone(o, d)
                /\ SumOf(BackOn(slips', d)) = SumOf(BackOn(slips, d)) + Paid(o.payouts, d)
  <2>1. PICK ps : ps = slips'
    OBVIOUS
  <2>2. Lengthened(slips, o, ps) /\ slips \in Seq(Slip) /\ o \in Slip
    BY <1>1, <2>1 DEF Lengthened
  <2>3. /\ ps \in Seq(Slip) /\ DOMAIN ps = 1 .. Len(slips) + 1 /\ ps[Len(slips) + 1] = o
        /\ \A i \in 1 .. Len(slips) : ps[i] = slips[i]
        /\ \A d : /\ SumOf(GoneOn(ps, d)) = SumOf(GoneOn(slips, d)) + Gone(o, d)
                  /\ SumOf(BackOn(ps, d)) = SumOf(BackOn(slips, d)) + Paid(o.payouts, d)
    BY ONLY <2>2, SlipAppended
  <2> QED BY <2>1, <2>3, Zenon
<1>3. Len(slips) \in Nat /\ DOMAIN slips = 1 .. Len(slips)
  BY <1>1
<1>4. \A i \in DOMAIN slips' : i \in DOMAIN slips \/ i = Len(slips) + 1
  BY <1>2, <1>3
<1> QED BY <1>1, <1>2, <1>3, <1>4

LEMMA SlipSet ==
  ASSUME ReportInv, NEW i \in DOMAIN slips, NEW o \in Slip, SoundSlip(o), slips' = [slips EXCEPT ![i] = o]
  PROVE  /\ slips' \in Seq(Slip) /\ \A j \in DOMAIN slips' : SoundSlip(slips'[j])
         /\ \A d : /\ SumOf(GoneOn(slips', d)) = SumOf(GoneOn(slips, d)) + Gone(o, d) - Gone(slips[i], d)
                   /\ SumOf(BackOn(slips', d)) = SumOf(BackOn(slips, d)) + Paid(o.payouts, d)
                                                   - Paid(slips[i].payouts, d)
<1>1. slips \in Seq(Slip) /\ \A j \in DOMAIN slips : SoundSlip(slips[j])
  BY DEF ReportInv
<1>2. /\ slips' \in Seq(Slip) /\ DOMAIN slips' = DOMAIN slips /\ slips'[i] = o
      /\ \A j \in DOMAIN slips : j # i => slips'[j] = slips[j]
      /\ \A d : /\ SumOf(GoneOn(slips', d)) = SumOf(GoneOn(slips, d)) + Gone(o, d) - Gone(slips[i], d)
                /\ SumOf(BackOn(slips', d)) = SumOf(BackOn(slips, d)) + Paid(o.payouts, d)
                                                - Paid(slips[i].payouts, d)
  <2>1. PICK ps : ps = slips'
    OBVIOUS
  <2>2. Swapped(slips, i, o, ps) /\ slips \in Seq(Slip) /\ o \in Slip /\ i \in DOMAIN slips
    BY <1>1, <2>1 DEF Swapped
  <2>3. /\ ps \in Seq(Slip) /\ DOMAIN ps = DOMAIN slips /\ ps[i] = o
        /\ \A j \in DOMAIN slips : j # i => ps[j] = slips[j]
        /\ \A d : /\ SumOf(GoneOn(ps, d)) = SumOf(GoneOn(slips, d)) + Gone(o, d) - Gone(slips[i], d)
                  /\ SumOf(BackOn(ps, d)) = SumOf(BackOn(slips, d)) + Paid(o.payouts, d)
                                                - Paid(slips[i].payouts, d)
    BY ONLY <2>2, SlipChanged
  <2> QED BY <2>1, <2>3, Zenon
<1> QED BY <1>1, <1>2

LEMMA NewSlip ==
  ASSUME NEW p \in Product, NEW status \in {"paid", "held"}, NEW a \in Discounts, today \in Nat \ {0},
         NEW o, o = Report!NewOrder(p, status, a)
  PROVE  /\ o \in Slip /\ o.sold = 0 /\ o.status = status /\ o.payouts = <<>> /\ o.gross = Report!GrossSum
         /\ o.cost = NoCost /\ o.gross \in Int
<1>1. Report!GrossSum \in Int /\ a \in Int /\ <<>> \in Seq(Payout)
  BY SumsAreWhole DEF Report!GrossSum
<1> QED BY <1>1 DEF Report!NewOrder, Slip

LEMMA Created ==
  ASSUME ReportInv, NEW p \in Product, NEW a \in Discounts, NEW c \in Costs \cup {NoCost},
         Report!Create(p, a, c)
  PROVE  ReportInv'
<1>1. PICK n : n = Report!NewOrder(p, "paid", a)
  OBVIOUS
<1>2. today \in Nat \ {0} /\ today' = today
  BY DEF ReportInv, Report!Create
<1>3. n \in Slip /\ n.payouts = <<>> /\ n.gross = Report!GrossSum /\ n.status = "paid" /\ n.gross \in Int
  BY <1>1, <1>2, NewSlip
<1>4. PICK x : x = Report!Scaled(c, PerUnit)
  OBVIOUS
<1>5. x \in Int \cup {NoCost}
  BY <1>4, SumsAreWhole DEF Report!Scaled, Report!Known
<1>6. PICK m : m = [n EXCEPT !.sold = today]
  OBVIOUS
<1>7. m \in Slip /\ m.payouts = <<>> /\ m.gross = n.gross /\ m.status = "paid" /\ m.sold = today
  BY <1>2, <1>3, <1>6 DEF Slip
<1>8. PICK o : o = [m EXCEPT !.cost = x]
  OBVIOUS
<1>9. o \in Slip /\ o.payouts = <<>> /\ o.gross = n.gross /\ o.status = "paid" /\ o.sold = today
  BY <1>5, <1>7, <1>8 DEF Slip
<1>10. [Report!NewOrder(p, "paid", a) EXCEPT !.sold = today, !.cost = Report!Scaled(c, PerUnit)] = o
  BY <1>1, <1>4, <1>6, <1>8
<1>11. slips' = Append(slips, o)
  BY <1>10 DEF Report!Create
<1>12. SoundSlip(o)
  BY <1>2, <1>9 DEF SoundSlip
<1>13. PICK r : r = Report!Row("sale", p, today, -(PerRow * PerUnit), Report!GrossSum, c, "pos")
  OBVIOUS
<1>14. /\ r \in LedgerRow /\ SoundRow(r) /\ Report!Put(r)
       /\ \A k, d : Posts(r, k, d) = IF k = "sale" /\ d = today THEN n.gross ELSE 0
  <2>1. /\ "sale" \in RowKinds /\ today \in Nat /\ -(PerRow * PerUnit) \in Int /\ Report!GrossSum \in Int
        /\ c \in Int \cup {NoCost}
    <3>1. PerRow * PerUnit \in Int
      BY SumsAreWhole
    <3>2. PICK v : v = PerRow * PerUnit
      OBVIOUS
    <3>3. -v \in Int
      BY <3>1, <3>2
    <3>4. c \in Int \cup {NoCost} /\ "sale" \in RowKinds
      BY SumsAreWhole DEF RowKinds
    <3> QED BY <1>2, <1>3, <3>2, <3>3, <3>4
  <2>2. Report!Put(r)
    BY <1>13 DEF Report!Create
  <2> HIDE DEF RowKinds
  <2>3. /\ r \in LedgerRow /\ SoundRow(r)
        /\ \A k, d : Posts(r, k, d) = IF "pos" = "pos" /\ k = "sale" /\ d = today THEN Report!GrossSum ELSE 0
    BY <1>13, <2>1, RowIs
  <2> QED BY <1>3, <2>2, <2>3
<1>15. /\ ledger' \in Seq(LedgerRow) /\ \A i \in DOMAIN ledger' : SoundRow(ledger'[i])
       /\ \A kind, d : SumOf(PostsOn(ledger', kind, d)) = SumOf(PostsOn(ledger, kind, d)) + Posts(r, kind, d)
  BY <1>14, RowPut
<1>16. /\ slips' \in Seq(Slip) /\ \A i \in DOMAIN slips' : SoundSlip(slips'[i])
       /\ \A d : /\ SumOf(GoneOn(slips', d)) = SumOf(GoneOn(slips, d)) + Gone(o, d)
                 /\ SumOf(BackOn(slips', d)) = SumOf(BackOn(slips, d)) + Paid(o.payouts, d)
  BY <1>9, <1>11, <1>12, SlipPut
<1>17. \A d : /\ Gone(o, d) = Posts(r, "sale", d) /\ Posts(r, "sale", d) \in Int
              /\ Paid(o.payouts, d) = 0 /\ Posts(r, "refund", d) = 0
  <2>1. \A d : Paid(<<>>, d) = 0
    <3>1. <<>> \in Seq(Payout)
      OBVIOUS
    <3> QED BY <3>1, PaidFacts
  <2> QED BY <1>3, <1>9, <1>14, <2>1 DEF Gone
<1>18. RowSums(ledger', slips')
  BY <1>15, <1>16, <1>17 DEF RowSums, ReportInv
<1> QED BY <1>2, <1>15, <1>16, <1>18 DEF ReportInv

LEMMA Held ==
  ASSUME ReportInv, NEW p \in Product, NEW a \in Discounts, Report!Hold(p, a)
  PROVE  ReportInv'
<1>1. PICK o : o = Report!NewOrder(p, "held", a)
  OBVIOUS
<1>2. today \in Nat \ {0} /\ today' = today /\ ledger' = ledger /\ slips' = Append(slips, o)
  BY <1>1 DEF ReportInv, Report!Hold
<1>3. o \in Slip /\ o.payouts = <<>> /\ o.gross \in Int /\ o.status = "held" /\ o.sold = 0
  BY <1>1, <1>2, NewSlip
<1>4. SoundSlip(o)
  BY <1>3 DEF SoundSlip
<1>5. /\ slips' \in Seq(Slip) /\ \A i \in DOMAIN slips' : SoundSlip(slips'[i])
      /\ \A d : /\ SumOf(GoneOn(slips', d)) = SumOf(GoneOn(slips, d)) + Gone(o, d)
                /\ SumOf(BackOn(slips', d)) = SumOf(BackOn(slips, d)) + Paid(o.payouts, d)
  BY <1>2, <1>3, <1>4, SlipPut
<1>6. \A d \in Nat \ {0} : Gone(o, d) = 0 /\ Paid(o.payouts, d) = 0
  <2>1. <<>> \in Seq(Payout)
    OBVIOUS
  <2> QED BY <1>3, <2>1, PaidFacts DEF Gone
<1>7. slips \in Seq(Slip)
  BY DEF ReportInv
<1>8. \A d : SumOf(GoneOn(slips, d)) \in Int /\ SumOf(BackOn(slips, d)) \in Int
  BY <1>7, SlipFacts
<1>9. RowSums(ledger', slips')
  BY <1>2, <1>5, <1>6, <1>8 DEF RowSums, ReportInv
<1> QED BY <1>2, <1>5, <1>9 DEF ReportInv

LEMMA ResumeOne ==
  ASSUME ReportInv, NEW i \in DOMAIN slips, NEW a \in Discounts, NEW c \in Costs \cup {NoCost},
         Report!Resume(i, a, c)
  PROVE  ReportInv'
<1>1. PICK o : o = slips[i]
  OBVIOUS
<1>2. /\ o \in Slip /\ SoundSlip(o) /\ o.status = "held" /\ today' = today /\ today \in Nat \ {0}
      /\ slips \in Seq(Slip)
  BY <1>1 DEF ReportInv, Report!Resume
<1>3. o.sold = 0 /\ o.gross \in Int /\ o.payouts \in Seq(Payout) /\ o.product \in Product
  BY <1>2 DEF SoundSlip, Slip
<1>4. PICK b : b = [o EXCEPT !.status = "paid"]
  OBVIOUS
<1>5. b \in Slip /\ b.status = "paid" /\ b.gross = o.gross /\ b.payouts = o.payouts
  BY <1>2, <1>4 DEF Slip
<1>6. PICK e : e = [b EXCEPT !.sold = today]
  OBVIOUS
<1>7. e \in Slip /\ e.status = "paid" /\ e.gross = o.gross /\ e.payouts = o.payouts /\ e.sold = today
  BY <1>2, <1>5, <1>6 DEF Slip
<1>8. PICK m : m = [e EXCEPT !.discount = a]
  OBVIOUS
<1>9. m \in Slip /\ m.status = "paid" /\ m.gross = o.gross /\ m.payouts = o.payouts /\ m.sold = today
  <2>1. a \in Int
    BY SumsAreWhole
  <2> QED BY <2>1, <1>7, <1>8 DEF Slip
<1>10. PICK n : n = [m EXCEPT !.cost = c]
  OBVIOUS
<1>11. n \in Slip /\ n.status = "paid" /\ n.gross = o.gross /\ n.payouts = o.payouts /\ n.sold = today
  <2>1. c \in Int \cup {NoCost}
    BY SumsAreWhole
  <2> QED BY <2>1, <1>9, <1>10 DEF Slip
<1>12. slips' = [slips EXCEPT ![i] = n]
  <2>1. slips' = [slips EXCEPT ![i].status = "paid", ![i].sold = today, ![i].discount = a, ![i].cost = c]
    BY DEF Report!Resume
  <2>2. slips' = [slips EXCEPT ![i] = [slips[i] EXCEPT !.status = "paid", !.sold = today,
                                                       !.discount = a, !.cost = c]]
    BY <2>1, <1>2
  <2>3. n = [o EXCEPT !.status = "paid", !.sold = today, !.discount = a, !.cost = c]
    BY <1>4, <1>6, <1>8, <1>10
  <2> QED BY <1>1, <2>2, <2>3
<1>13. SoundSlip(n)
  BY <1>2, <1>11 DEF SoundSlip
<1>14. PICK r : r = Report!Row("sale", o.product, today, -PerRow, o.gross, c, "pos")
  OBVIOUS
<1>15. /\ r \in LedgerRow /\ SoundRow(r) /\ Report!Put(r)
       /\ \A k, d : Posts(r, k, d) = IF k = "sale" /\ d = today THEN o.gross ELSE 0
  <2>1. "sale" \in RowKinds /\ today \in Nat /\ -PerRow \in Int /\ c \in Int \cup {NoCost}
    <3>1. "sale" \in RowKinds
      BY Zenon DEF RowKinds
    <3>2. today \in Nat /\ c \in Int \cup {NoCost}
      BY <1>2, Whole
    <3> QED BY <3>1, <3>2, Whole
  <2>2. Report!Put(r)
    BY <1>1, <1>14 DEF Report!Resume, Report!SoldOn
  <2>3. /\ r \in LedgerRow /\ SoundRow(r)
        /\ \A k, d : Posts(r, k, d) = IF "pos" = "pos" /\ k = "sale" /\ d = today THEN o.gross ELSE 0
    BY <1>3, <1>14, <2>1, RowIs
  <2> QED BY <2>2, <2>3
<1>16. /\ ledger' \in Seq(LedgerRow) /\ \A j \in DOMAIN ledger' : SoundRow(ledger'[j])
       /\ \A kind, d : SumOf(PostsOn(ledger', kind, d)) = SumOf(PostsOn(ledger, kind, d)) + Posts(r, kind, d)
  BY <1>15, RowPut
<1>17. /\ slips' \in Seq(Slip) /\ \A j \in DOMAIN slips' : SoundSlip(slips'[j])
       /\ \A d : /\ SumOf(GoneOn(slips', d)) = SumOf(GoneOn(slips, d)) + Gone(n, d) - Gone(o, d)
                 /\ SumOf(BackOn(slips', d)) = SumOf(BackOn(slips, d)) + Paid(n.payouts, d) - Paid(o.payouts, d)
  BY <1>1, <1>11, <1>12, <1>13, SlipSet
<1>18. /\ \A d : SumOf(GoneOn(slips, d)) \in Int /\ SumOf(BackOn(slips, d)) \in Int
       /\ \A d : Paid(o.payouts, d) \in Int /\ Paid(n.payouts, d) = Paid(o.payouts, d)
       /\ \A d \in Nat \ {0} : Gone(o, d) = 0 /\ Gone(n, d) = Posts(r, "sale", d)
                               /\ Gone(n, d) \in Int /\ Posts(r, "refund", d) = 0
  <2>1. \A d : SumOf(GoneOn(slips, d)) \in Int /\ SumOf(BackOn(slips, d)) \in Int
    BY <1>2, SlipFacts
  <2>2. \A d : Paid(o.payouts, d) \in Int
    BY <1>3, PaidFacts
  <2>3. \A d \in Nat \ {0} : Gone(o, d) = 0 /\ Gone(n, d) = Posts(r, "sale", d)
                             /\ Gone(n, d) \in Int /\ Posts(r, "refund", d) = 0
    BY <1>3, <1>11, <1>15 DEF Gone
  <2> QED BY <1>11, <2>1, <2>2, <2>3
<1>19. RowSums(ledger', slips')
  BY <1>16, <1>17, <1>18 DEF RowSums, ReportInv
<1> QED BY <1>2, <1>16, <1>17, <1>19 DEF ReportInv

LEMMA CancelOne ==
  ASSUME ReportInv, NEW i \in DOMAIN slips, Report!CancelHeld(i)
  PROVE  ReportInv'
<1>1. PICK o : o = slips[i]
  OBVIOUS
<1>2. /\ o \in Slip /\ SoundSlip(o) /\ o.status = "held" /\ today' = today /\ ledger' = ledger
      /\ slips \in Seq(Slip)
  BY <1>1 DEF ReportInv, Report!CancelHeld
<1>3. o.sold = 0 /\ o.payouts \in Seq(Payout)
  BY <1>2 DEF SoundSlip, Slip
<1>4. PICK n : n = [o EXCEPT !.status = "cancelled"]
  OBVIOUS
<1>5. n \in Slip /\ n.status = "cancelled" /\ n.sold = 0 /\ n.payouts = o.payouts
  BY <1>2, <1>3, <1>4 DEF Slip
<1>6. slips' = [slips EXCEPT ![i] = n]
  <2>1. slips' = [slips EXCEPT ![i].status = "cancelled"]
    BY DEF Report!CancelHeld
  <2> QED BY <1>1, <1>2, <1>4, <2>1
<1>7. SoundSlip(n)
  BY <1>5 DEF SoundSlip
<1>8. /\ slips' \in Seq(Slip) /\ \A j \in DOMAIN slips' : SoundSlip(slips'[j])
      /\ \A d : /\ SumOf(GoneOn(slips', d)) = SumOf(GoneOn(slips, d)) + Gone(n, d) - Gone(o, d)
                /\ SumOf(BackOn(slips', d)) = SumOf(BackOn(slips, d)) + Paid(n.payouts, d) - Paid(o.payouts, d)
  BY <1>1, <1>5, <1>6, <1>7, SlipSet
<1>9. /\ \A d : SumOf(GoneOn(slips, d)) \in Int /\ SumOf(BackOn(slips, d)) \in Int
      /\ \A d : Paid(o.payouts, d) \in Int /\ Paid(n.payouts, d) = Paid(o.payouts, d)
      /\ \A d \in Nat \ {0} : Gone(o, d) = 0 /\ Gone(n, d) = 0
  BY <1>2, <1>3, <1>5, SlipFacts, PaidFacts DEF Gone
<1>10. RowSums(ledger', slips')
  BY <1>2, <1>8, <1>9 DEF RowSums, ReportInv
<1> QED BY <1>2, <1>8, <1>10 DEF ReportInv

LEMMA PaidBack ==
  ASSUME NEW o \in Slip, NEW k \in Nat
  PROVE  Report!PayBack(o, k) \in Int
<1>1. PerRow \in Nat \ {0}
  BY SumsAreWhole
<1>2. o.gross \in Int /\ o.discount \in Int /\ o.refunded \in Int
  BY DEF Slip
<1>3. Report!Total(o) \in Int
  BY <1>2 DEF Report!Total
<1>4. PICK x : x = k * Report!Total(o)
  OBVIOUS
<1>5. x \in Int
  BY <1>3, <1>4
<1>6. Report!HalfEven(x, PerRow) \in Int
  <2>1. x \div PerRow \in Int
    BY <1>1, <1>5, Divided
  <2>2. PICK q : q = x \div PerRow
    OBVIOUS
  <2>3. q \in Int /\ q + 1 \in Int
    BY <2>1, <2>2
  <2> QED BY <2>2, <2>3 DEF Report!HalfEven
<1> QED BY <1>2, <1>3, <1>4, <1>6 DEF Report!PayBack

LEMMA RefundOne ==
  ASSUME ReportInv, NEW i \in DOMAIN slips, NEW k \in 1 .. PerRow, NEW restock \in BOOLEAN,
         Report!Refund(i, k, restock)
  PROVE  ReportInv'
<1>1. PICK o : o = slips[i]
  OBVIOUS
<1>2. /\ o \in Slip /\ SoundSlip(o) /\ o.status \in {"paid", "partial_refund"} /\ today' = today
      /\ today \in Nat \ {0} /\ slips \in Seq(Slip)
  BY <1>1 DEF ReportInv, Report!Refund
<1>3. /\ o.sold # 0 /\ o.gross \in Int /\ o.payouts \in Seq(Payout) /\ o.product \in Product
      /\ o.back \in Nat /\ o.refunded \in Int /\ o.cost \in Int \cup {NoCost}
  BY <1>2 DEF SoundSlip, Slip
<1>4. PICK a : a = Report!PayBack(o, k)
  OBVIOUS
<1>5. a \in Int /\ k \in Nat
  <2>1. k \in Nat
    BY SumsAreWhole
  <2> QED BY <1>2, <1>4, <2>1, PaidBack
<1>6. PICK y : y = [day |-> today, amount |-> a]
  OBVIOUS
<1>7. y \in Payout /\ y.day = today /\ y.amount = a
  BY <1>2, <1>5, <1>6 DEF Payout
<1>8. PICK status : status = IF o.back + k = PerRow THEN "refunded" ELSE "partial_refund"
  OBVIOUS
<1>9. PICK b : b = [o EXCEPT !.status = status]
  OBVIOUS
<1>10. b \in Slip /\ b.status = status /\ b.gross = o.gross /\ b.sold = o.sold /\ b.payouts = o.payouts
       /\ status \in {"refunded", "partial_refund"} /\ b.back = o.back /\ b.refunded = o.refunded
  BY <1>2, <1>8, <1>9 DEF Slip
<1>11. PICK e : e = [b EXCEPT !.back = o.back + k]
  OBVIOUS
<1>12. e \in Slip /\ e.status = status /\ e.gross = o.gross /\ e.sold = o.sold /\ e.payouts = o.payouts
       /\ e.refunded = o.refunded
  <2>1. o.back + k \in Nat
    BY <1>3, <1>5
  <2> QED BY <1>10, <1>11, <2>1 DEF Slip
<1>13. PICK m : m = [e EXCEPT !.refunded = o.refunded + a]
  OBVIOUS
<1>14. m \in Slip /\ m.status = status /\ m.gross = o.gross /\ m.sold = o.sold /\ m.payouts = o.payouts
  <2>1. o.refunded + a \in Int
    BY <1>3, <1>5
  <2> QED BY <1>12, <1>13, <2>1 DEF Slip
<1>15. PICK ps : ps = Append(o.payouts, y)
  OBVIOUS
<1>16. ps \in Seq(Payout) /\ \A d : Paid(ps, d) = Paid(o.payouts, d) + (IF today = d THEN a ELSE 0)
  BY <1>3, <1>7, <1>15, PaidFacts
<1>17. PICK n : n = [m EXCEPT !.payouts = ps]
  OBVIOUS
<1>18. n \in Slip /\ n.status = status /\ n.gross = o.gross /\ n.sold = o.sold /\ n.payouts = ps
  BY <1>14, <1>16, <1>17 DEF Slip
<1>19. slips' = [slips EXCEPT ![i] = n]
  <2>1. slips' = [slips EXCEPT ![i] =
                    [o EXCEPT !.status = IF o.back + k = PerRow THEN "refunded" ELSE "partial_refund",
                              !.back = @ + k, !.refunded = @ + a,
                              !.payouts = Append(@, [day |-> today, amount |-> a])]]
    BY <1>1, <1>4 DEF Report!Refund
  <2>2. slips' = [slips EXCEPT ![i] =
                    [o EXCEPT !.status = status, !.back = o.back + k, !.refunded = o.refunded + a,
                              !.payouts = ps]]
    BY <2>1, <1>6, <1>8, <1>15
  <2> QED BY <2>2, <1>9, <1>11, <1>13, <1>17
<1>20. SoundSlip(n)
  BY <1>2, <1>3, <1>10, <1>18 DEF SoundSlip
<1>27. PICK q : q = IF restock THEN k ELSE 0
  OBVIOUS
<1>21. PICK r : r = Report!Row("refund", o.product, today, q, a, o.cost, "pos")
  OBVIOUS
<1>22. /\ r \in LedgerRow /\ SoundRow(r) /\ Report!Put(r)
       /\ \A kind, d : Posts(r, kind, d) = IF kind = "refund" /\ d = today THEN a ELSE 0
  <2>1. /\ "refund" \in RowKinds /\ today \in Nat /\ q \in Int
        /\ o.cost \in Int \cup {NoCost}
    BY <1>2, <1>3, <1>5, <1>27 DEF RowKinds
  <2>2. Report!Put(r)
    BY <1>1, <1>4, <1>27, <1>21 DEF Report!Refund
  <2>3. /\ r \in LedgerRow /\ SoundRow(r)
        /\ \A kind, d : Posts(r, kind, d) = IF "pos" = "pos" /\ kind = "refund" /\ d = today THEN a ELSE 0
    <3>1. PICK cost : cost = o.cost
      OBVIOUS
    <3>2. PICK p : p = o.product
      OBVIOUS
    <3>3. /\ "refund" \in RowKinds /\ p \in Product /\ today \in Nat /\ q \in Int /\ a \in Int
          /\ cost \in Int \cup {NoCost} /\ r = Report!Row("refund", p, today, q, a, cost, "pos")
      BY <1>3, <1>5, <1>21, <2>1, <3>1, <3>2
    <3> QED BY ONLY <3>3, RowIs
  <2> QED BY <2>2, <2>3
<1>23. /\ ledger' \in Seq(LedgerRow) /\ \A j \in DOMAIN ledger' : SoundRow(ledger'[j])
       /\ \A kind, d : SumOf(PostsOn(ledger', kind, d)) = SumOf(PostsOn(ledger, kind, d)) + Posts(r, kind, d)
  BY <1>22, RowPut
<1>24. /\ slips' \in Seq(Slip) /\ \A j \in DOMAIN slips' : SoundSlip(slips'[j])
       /\ \A d : /\ SumOf(GoneOn(slips', d)) = SumOf(GoneOn(slips, d)) + Gone(n, d) - Gone(o, d)
                 /\ SumOf(BackOn(slips', d)) = SumOf(BackOn(slips, d)) + Paid(n.payouts, d) - Paid(o.payouts, d)
  BY <1>1, <1>18, <1>19, <1>20, SlipSet
<1>25. \A d : /\ SumOf(GoneOn(slips, d)) \in Int /\ SumOf(BackOn(slips, d)) \in Int
              /\ Paid(o.payouts, d) \in Int /\ Paid(n.payouts, d) = Paid(o.payouts, d) + Posts(r, "refund", d)
              /\ Gone(n, d) = Gone(o, d) /\ Gone(n, d) \in Int
              /\ Posts(r, "sale", d) = 0 /\ Posts(r, "refund", d) \in Int
  <2>1. \A d : SumOf(GoneOn(slips, d)) \in Int /\ SumOf(BackOn(slips, d)) \in Int
    BY <1>2, SlipFacts
  <2>2. \A d : Paid(o.payouts, d) \in Int
    BY <1>3, PaidFacts
  <2>3. \A d : Gone(n, d) = Gone(o, d) /\ Gone(n, d) \in Int
    BY <1>3, <1>18 DEF Gone
  <2>4. \A d : Posts(r, "sale", d) = 0 /\ Posts(r, "refund", d) = (IF today = d THEN a ELSE 0)
    BY <1>22
  <2> QED BY <1>5, <1>16, <1>18, <2>1, <2>2, <2>3, <2>4
<1>26. RowSums(ledger', slips')
  <2> SUFFICES ASSUME NEW d \in Nat \ {0}
               PROVE  /\ SumOf(PostsOn(ledger', "sale", d)) = SumOf(GoneOn(slips', d))
                      /\ SumOf(PostsOn(ledger', "refund", d)) = SumOf(BackOn(slips', d))
    BY DEF RowSums
  <2>1. /\ SumOf(PostsOn(ledger, "sale", d)) = SumOf(GoneOn(slips, d))
        /\ SumOf(PostsOn(ledger, "refund", d)) = SumOf(BackOn(slips, d))
    BY DEF ReportInv, RowSums
  <2>2. /\ SumOf(PostsOn(ledger', "sale", d)) = SumOf(PostsOn(ledger, "sale", d)) + Posts(r, "sale", d)
        /\ SumOf(PostsOn(ledger', "refund", d)) = SumOf(PostsOn(ledger, "refund", d)) + Posts(r, "refund", d)
    BY <1>23
  <2> QED BY <1>24, <1>25, <2>1, <2>2
<1> QED BY <1>2, <1>23, <1>24, <1>26 DEF ReportInv

LEMMA RecordOne ==
  ASSUME ReportInv, NEW e \in Recorded, NEW p \in Product, NEW d \in 1 .. Days, NEW a \in Amounts,
         NEW c \in Costs \cup {NoCost}, Report!Record(e[1], p, e[2], d, a, c)
  PROVE  ReportInv'
<1>1. PICK kind, channel : kind = e[1] /\ channel = e[2]
  OBVIOUS
<1>2. PICK q : q = IF kind \in {"sale", "waste"} THEN -1 ELSE 1
  OBVIOUS
<1>3. PICK r : r = Report!Row(kind, p, d, q, a, c, channel)
  OBVIOUS
<1>4. Report!Put(r) /\ today' = today /\ slips' = slips
  BY <1>1, <1>2, <1>3 DEF Report!Record
<1>5. /\ kind \in RowKinds /\ d \in Nat /\ q \in Int /\ a \in Nat /\ a \in Int /\ c \in Int \cup {NoCost}
      /\ channel \in {"voice", "offline"} /\ channel \in {"pos", "voice", "offline"}
  <2>1. kind \in RowKinds
    BY Zenon, <1>1 DEF RowKinds
  <2>2. channel \in {"voice", "offline"}
    BY Zenon, <1>1, SumsAreWhole
  <2>3. d \in Nat /\ a \in Nat /\ a \in Int /\ c \in Int \cup {NoCost}
    BY Whole
  <2>4. q \in Int
    BY <1>2
  <2> QED BY <2>1, <2>2, <2>3, <2>4
<1>6. r \in LedgerRow /\ \A k, n : Posts(r, k, n) = 0
  BY <1>3, <1>5, RowIs
<1>7. SoundRow(r)
  BY <1>2, <1>3, <1>5 DEF SoundRow, Report!Row
<1>8. /\ ledger' \in Seq(LedgerRow) /\ \A j \in DOMAIN ledger' : SoundRow(ledger'[j])
      /\ \A k, n : SumOf(PostsOn(ledger', k, n)) = SumOf(PostsOn(ledger, k, n)) + Posts(r, k, n)
  BY <1>4, <1>6, <1>7, RowPut
<1>9. \A k, n : SumOf(PostsOn(ledger, k, n)) \in Int
  BY LedgerFacts DEF ReportInv
<1>10. RowSums(ledger', slips')
  BY <1>4, <1>6, <1>8, <1>9 DEF RowSums, ReportInv
<1> QED BY <1>4, <1>8, <1>10 DEF ReportInv

LEMMA VoidOne ==
  ASSUME ReportInv, NEW i \in DOMAIN ledger, Report!Void(i)
  PROVE  ReportInv'
<1>1. PICK r : r = [ledger[i] EXCEPT !.voided = TRUE]
  OBVIOUS
<1>2. /\ ledger \in Seq(LedgerRow) /\ ledger[i] \in LedgerRow /\ ledger[i].channel # "pos"
      /\ today' = today /\ slips' = slips /\ SoundRow(ledger[i])
  BY DEF ReportInv, Report!Void
<1>3. ledger' = [ledger EXCEPT ![i] = r]
  <2>1. ledger' = [ledger EXCEPT ![i].voided = TRUE]
    BY DEF Report!Void
  <2> QED BY <1>1, <1>2, <2>1
<1>4. /\ r \in LedgerRow /\ r.channel # "pos" /\ r.kind = ledger[i].kind /\ r.qty = ledger[i].qty
      /\ r.amount = ledger[i].amount
  BY <1>1, <1>2 DEF LedgerRow
<1>5. SoundRow(r)
  BY <1>2, <1>4 DEF SoundRow
<1>6. /\ ledger' \in Seq(LedgerRow) /\ DOMAIN ledger' = DOMAIN ledger /\ ledger'[i] = r
      /\ \A j \in DOMAIN ledger : j # i => ledger'[j] = ledger[j]
  BY <1>2, <1>3, <1>4
<1>7. \A j \in DOMAIN ledger' : SoundRow(ledger'[j])
  BY <1>5, <1>6 DEF ReportInv
<1>8. \A kind, d : PostsOn(ledger', kind, d) = PostsOn(ledger, kind, d)
  <2>1. \A kind, d : \A j \in DOMAIN ledger : Posts(ledger'[j], kind, d) = Posts(ledger[j], kind, d)
    BY <1>2, <1>4, <1>6 DEF Posts
  <2> QED BY <1>6, <2>1 DEF PostsOn
<1>9. RowSums(ledger', slips')
  BY <1>2, <1>8 DEF RowSums, ReportInv
<1> QED BY <1>2, <1>6, <1>7, <1>9 DEF ReportInv

LEMMA ReportStep == ReportInv /\ [Report!Next]_(Report!vars) => ReportInv'
<1> SUFFICES ASSUME ReportInv, [Report!Next]_(Report!vars) PROVE ReportInv'
  OBVIOUS
<1>1. CASE \E p \in Product, a \in Discounts, c \in Costs \cup {NoCost} : Report!Create(p, a, c)
  BY <1>1, Created
<1>2. CASE \E p \in Product, a \in Discounts : Report!Hold(p, a)
  BY <1>2, Held
<1>3. CASE \E i \in DOMAIN slips, a \in Discounts, c \in Costs \cup {NoCost} : Report!Resume(i, a, c)
  BY <1>3, ResumeOne
<1>4. CASE \E i \in DOMAIN slips : Report!CancelHeld(i)
  BY <1>4, CancelOne
<1>5. CASE \E i \in DOMAIN slips, k \in 1 .. PerRow, restock \in BOOLEAN : Report!Refund(i, k, restock)
  BY <1>5, RefundOne
<1>6. CASE \E e \in Recorded, p \in Product, d \in 1 .. Days, a \in Amounts, c \in Costs \cup {NoCost} :
              Report!Record(e[1], p, e[2], d, a, c)
  BY <1>6, RecordOne
<1>7. CASE \E i \in DOMAIN ledger : Report!Void(i)
  BY <1>7, VoidOne
<1>8. CASE Report!NextDay
  BY <1>8 DEF Report!NextDay, ReportInv
<1>9. CASE UNCHANGED Report!vars
  BY <1>9 DEF Report!vars, ReportInv
<1> QED BY <1>1, <1>2, <1>3, <1>4, <1>5, <1>6, <1>7, <1>8, <1>9, Zenon DEF Report!Next

-----------------------------------------------------------------------------
(* What the reports add up.                                                *)

Worths == [i \in DOMAIN ledger |-> ledger[i].amount]
Units  == [i \in DOMAIN ledger |-> ledger[i].qty]
CostsOf == [i \in DOMAIN ledger |-> IF Report!Known(ledger[i].cost) THEN ledger[i].qty * ledger[i].cost
                                                                     ELSE 0]

LEMMA LedgerTypes ==
  ASSUME ReportInv
  PROVE  /\ IsFiniteSet(DOMAIN ledger) /\ Worths \in [DOMAIN ledger -> Int]
         /\ Units \in [DOMAIN ledger -> Int] /\ CostsOf \in [DOMAIN ledger -> Int]
<1>1. ledger \in Seq(LedgerRow) /\ IsFiniteSet(DOMAIN ledger)
  BY LedgerFacts DEF ReportInv
<1>2. \A i \in DOMAIN ledger : ledger[i] \in LedgerRow
  BY <1>1
<1>3. \A i \in DOMAIN ledger : /\ ledger[i].amount \in Int /\ ledger[i].qty \in Int
                               /\ ledger[i].cost \in Int \cup {NoCost}
  BY <1>2 DEF LedgerRow
<1>4. \A i \in DOMAIN ledger : Report!Known(ledger[i].cost) => ledger[i].qty * ledger[i].cost \in Int
  <2> SUFFICES ASSUME NEW i \in DOMAIN ledger, Report!Known(ledger[i].cost)
               PROVE  ledger[i].qty * ledger[i].cost \in Int
    OBVIOUS
  <2>1. ledger[i].qty \in Int /\ ledger[i].cost \in Int
    BY <1>3 DEF Report!Known
  <2> QED BY <2>1
<1> QED BY <1>1, <1>3, <1>4 DEF Worths, Units, CostsOf

LEMMA RowFigures ==
  ASSUME ReportInv, NEW R \in SUBSET DOMAIN ledger
  PROVE  /\ Report!Worth(R) = Over(Worths, R) /\ Over(Worths, R) \in Int
         /\ Report!Moved(R) = Over(Units, R) /\ Over(Units, R) \in Int
         /\ Report!CostOf(R) = Over(CostsOf, Report!Priced(R)) /\ Over(CostsOf, Report!Priced(R)) \in Int
         /\ Report!Priced(R) \in SUBSET DOMAIN ledger
<1>1. Report!Priced(R) \in SUBSET DOMAIN ledger
  BY DEF Report!Priced
<1>2. /\ [x \in R |-> ledger[x].amount] = [x \in R |-> Worths[x]]
      /\ [x \in R |-> ledger[x].qty] = [x \in R |-> Units[x]]
  BY DEF Worths, Units
<1>3. \A x \in Report!Priced(R) : ledger[x].qty * ledger[x].cost = CostsOf[x]
  BY <1>1 DEF CostsOf, Report!Priced
<1>4. [x \in Report!Priced(R) |-> ledger[x].qty * ledger[x].cost] = [x \in Report!Priced(R) |-> CostsOf[x]]
  BY <1>3
<1>5. Report!Worth(R) = Over(Worths, R)
  BY <1>2, ReportSums DEF Report!Worth, Report!Sum, Over
<1>6. Report!Moved(R) = Over(Units, R)
  BY <1>2, ReportSums DEF Report!Moved, Report!Sum, Over
<1>7. Report!CostOf(R) = Over(CostsOf, Report!Priced(R))
  <2>1. Report!CostOf(R) = Report!SumOf([x \in Report!Priced(R) |-> ledger[x].qty * ledger[x].cost])
    BY DEF Report!CostOf, Report!Sum
  <2> QED BY <2>1, <1>4, ReportSums DEF Over
<1>8. Over(Worths, R) \in Int /\ Over(Units, R) \in Int /\ Over(CostsOf, Report!Priced(R)) \in Int
  BY <1>1, LedgerTypes, OverFacts
<1> QED BY <1>1, <1>5, <1>6, <1>7, <1>8

(* The rows of the till and of the other channels.                         *)
LEMMA WorthSplit ==
  ASSUME ReportInv, NEW d \in Nat, NEW kind
  PROVE  /\ Report!Worth(Report!In({d}, kind))
              = SumOf(PostsOn(ledger, kind, d)) + Report!Worth(Report!OfChannel(d, kind))
         /\ Report!Worth(Report!In({d}, kind)) \in Int /\ Report!Worth(Report!OfChannel(d, kind)) \in Int
         /\ SumOf(PostsOn(ledger, kind, d)) \in Int
<1> DEFINE S == DOMAIN ledger
           till == {i \in S : ledger[i].channel = "pos" /\ ledger[i].kind = kind /\ ledger[i].day = d}
           others == Report!OfChannel(d, kind)
<1>1. /\ ledger \in Seq(LedgerRow) /\ \A i \in S : ledger[i] \in LedgerRow /\ SoundRow(ledger[i])
  BY DEF ReportInv
<1>2. \A i \in S : /\ ledger[i].channel \in {"pos", "voice", "offline"}
                   /\ ledger[i].channel = "pos" => ~ledger[i].voided
  BY <1>1 DEF LedgerRow, SoundRow
<1>3. /\ till \in SUBSET S /\ others \in SUBSET S /\ till \cap others = {}
      /\ Report!In({d}, kind) = till \cup others /\ Report!In({d}, kind) \in SUBSET S
  BY <1>2 DEF Report!OfChannel, Report!In
<1>4. Masked(Worths, S, till) = PostsOn(ledger, kind, d)
  BY DEF Masked, PostsOn, Posts, Worths
<1>5. IsFiniteSet(S) /\ Worths \in [S -> Int]
  BY LedgerTypes
<1> HIDE DEF S, till, others
<1>6. Over(Worths, till) = SumOf(PostsOn(ledger, kind, d))
  BY <1>3, <1>4, <1>5, OverMasked
<1>7. Over(Worths, till \cup others) = Over(Worths, till) + Over(Worths, others)
  BY <1>3, <1>5, OverUnion
<1>8. Over(Worths, till) \in Int /\ Over(Worths, others) \in Int /\ Over(Worths, till \cup others) \in Int
  <2>1. till \cup others \in SUBSET S
    BY <1>3
  <2> QED BY <1>3, <1>5, <2>1, OverFacts
<1>9. /\ Report!Worth(others) = Over(Worths, others)
      /\ Report!Worth(Report!In({d}, kind)) = Over(Worths, till \cup others)
  <2>1. \A R \in SUBSET S : Report!Worth(R) = Over(Worths, R)
    BY RowFigures DEF S
  <2> QED BY <1>3, <2>1
<1> QED BY <1>6, <1>7, <1>8, <1>9 DEF others

Labels    == [i \in DOMAIN slips |-> slips[i].gross]
Discounted == [i \in DOMAIN slips |-> slips[i].discount]
Totals    == [i \in DOMAIN slips |-> Report!Total(slips[i])]

LEMMA SlipFigures ==
  ASSUME ReportInv
  PROVE  /\ IsFiniteSet(DOMAIN slips) /\ Labels \in [DOMAIN slips -> Int]
         /\ Discounted \in [DOMAIN slips -> Int] /\ Totals \in [DOMAIN slips -> Int]
         /\ \A i \in DOMAIN slips : Labels[i] = Totals[i] + Discounted[i]
         /\ \A R : /\ Report!Sum(LAMBDA i : slips[i].gross, R) = SumOf([i \in R |-> slips[i].gross])
                   /\ Report!Sum(LAMBDA i : slips[i].discount, R) = SumOf([i \in R |-> slips[i].discount])
                   /\ Report!Sum(LAMBDA i : Report!Total(slips[i]), R) = SumOf([i \in R |-> Report!Total(slips[i])])
<1>1. slips \in Seq(Slip) /\ IsFiniteSet(DOMAIN slips) /\ \A i \in DOMAIN slips : slips[i] \in Slip
  BY SlipFacts DEF ReportInv
<1>2. \A i \in DOMAIN slips : slips[i].gross \in Int /\ slips[i].discount \in Int
  BY <1>1 DEF Slip
<1>3. \A i \in DOMAIN slips : /\ Report!Total(slips[i]) \in Int
                              /\ slips[i].gross = Report!Total(slips[i]) + slips[i].discount
  BY <1>2 DEF Report!Total
<1>4. \A R : /\ Report!Sum(LAMBDA i : slips[i].gross, R) = SumOf([i \in R |-> slips[i].gross])
             /\ Report!Sum(LAMBDA i : slips[i].discount, R) = SumOf([i \in R |-> slips[i].discount])
             /\ Report!Sum(LAMBDA i : Report!Total(slips[i]), R) = SumOf([i \in R |-> Report!Total(slips[i])])
  BY ReportSums, Zenon DEF Report!Sum
<1> QED BY <1>1, <1>2, <1>3, <1>4 DEF Labels, Discounted, Totals

(* The goods of a day's sales are those of its orders, but for the orders  *)
(* sold later or made earlier.                                             *)
LEMMA GoodsOfADay ==
  ASSUME ReportInv, NEW d \in Nat \ {0}
  PROVE  /\ SumOf(GoneOn(slips, d)) + Over(Labels, Report!Late(d))
              = Over(Totals, Report!Counted(d)) + Over(Discounted, Report!Counted(d))
                 + Over(Labels, Report!Early(d))
         /\ Over(Labels, Report!Late(d)) \in Int /\ Over(Labels, Report!Early(d)) \in Int
         /\ Over(Totals, Report!Counted(d)) \in Int /\ Over(Discounted, Report!Counted(d)) \in Int
         /\ SumOf(GoneOn(slips, d)) \in Int
<1> DEFINE S == DOMAIN slips
           late == Report!Late(d)
           early == Report!Early(d)
           counted == Report!Counted(d)
           gone == GoneOn(slips, d)
<1>1. /\ IsFiniteSet(S) /\ Labels \in [S -> Int] /\ Discounted \in [S -> Int] /\ Totals \in [S -> Int]
      /\ \A i \in S : Labels[i] = Totals[i] + Discounted[i]
  BY SlipFigures
<1>2. gone \in [S -> Int] /\ SumOf(gone) \in Int
  BY SlipFacts DEF ReportInv
<1>3. late \in SUBSET S /\ early \in SUBSET S /\ counted \in SUBSET S
  BY DEF Report!Late, Report!Early, Report!Counted
<1>4. \A i \in S : /\ gone[i] = IF slips[i].sold = d THEN Labels[i] ELSE 0
                   /\ i \in late <=> slips[i].sold # 0 /\ slips[i].born = d /\ slips[i].sold # d
                   /\ i \in early <=> slips[i].sold = d /\ slips[i].born # d
                   /\ i \in counted <=> slips[i].born = d /\ slips[i].sold # 0
  <2>1. \A i \in S : SoundSlip(slips[i])
    BY DEF ReportInv
  <2>2. \A i \in S : slips[i].status \notin {"cancelled", "held"} <=> slips[i].sold # 0
    BY <2>1 DEF SoundSlip
  <2> QED BY <2>2 DEF GoneOn, Gone, Labels, Report!Late, Report!Early, Report!Counted
<1> DEFINE mLate == Masked(Labels, S, late)
           mEarly == Masked(Labels, S, early)
           mAll == Masked(Labels, S, counted)
           mTotal == Masked(Totals, S, counted)
           mOff == Masked(Discounted, S, counted)
           both == [i \in S |-> gone[i] + mLate[i]]
<1> HIDE DEF S, late, early, counted, gone
<1>5. /\ mLate \in [S -> Int] /\ mEarly \in [S -> Int] /\ mAll \in [S -> Int]
      /\ mTotal \in [S -> Int] /\ mOff \in [S -> Int]
      /\ Over(Labels, late) = SumOf(mLate) /\ Over(Labels, early) = SumOf(mEarly)
      /\ Over(Totals, counted) = SumOf(mTotal) /\ Over(Discounted, counted) = SumOf(mOff)
  BY <1>1, <1>3, OverMasked
<1>6. \A i \in S : mAll[i] = mTotal[i] + mOff[i]
  BY <1>1 DEF Masked
<1>7. \A i \in S : gone[i] + mLate[i] = mAll[i] + mEarly[i]
  <2> SUFFICES ASSUME NEW i \in S PROVE gone[i] + mLate[i] = mAll[i] + mEarly[i]
    OBVIOUS
  <2>1. /\ mLate[i] = (IF i \in late THEN Labels[i] ELSE 0)
        /\ mEarly[i] = (IF i \in early THEN Labels[i] ELSE 0)
        /\ mAll[i] = (IF i \in counted THEN Labels[i] ELSE 0) /\ Labels[i] \in Int
    BY <1>1 DEF Masked
  <2> QED BY <1>4, <2>1
<1>8. both \in [S -> Int] /\ \A i \in S : both[i] = gone[i] + mLate[i] /\ both[i] = mAll[i] + mEarly[i]
  BY <1>2, <1>5, <1>7
<1> HIDE DEF mLate, mEarly, mAll, mTotal, mOff, both
<1>9. SumOf(both) = SumOf(gone) + SumOf(mLate)
  BY <1>1, <1>2, <1>5, <1>8, SumPlus
<1>10. SumOf(both) = SumOf(mAll) + SumOf(mEarly)
  BY <1>1, <1>5, <1>8, SumPlus
<1>11. SumOf(mAll) = SumOf(mTotal) + SumOf(mOff)
  BY <1>1, <1>5, <1>6, SumPlus
<1>12. SumOf(mLate) \in Int /\ SumOf(mEarly) \in Int /\ SumOf(mTotal) \in Int /\ SumOf(mOff) \in Int
  BY <1>1, <1>5, SumInt
<1> QED BY <1>2, <1>5, <1>9, <1>10, <1>11, <1>12 DEF late, early, counted, gone

LEMMA RevenueAdds == ReportInv => Report!RevenueExplained
<1> SUFFICES ASSUME ReportInv, NEW d \in 1 .. today
             PROVE  Report!DailyReport(d).revenue + Report!Sum(LAMBDA i : slips[i].gross, Report!Late(d))
                      = Report!TotalSales(d)
                         + Report!Sum(LAMBDA i : slips[i].discount, Report!Counted(d))
                         + Report!Sum(LAMBDA i : slips[i].gross, Report!Early(d))
  BY DEF Report!RevenueExplained
<1>1. d \in Nat \ {0} /\ d \in Nat
  BY DEF ReportInv
<1> DEFINE S == DOMAIN slips
           late == Report!Late(d)
           early == Report!Early(d)
           counted == Report!Counted(d)
<1>2. late \in SUBSET S /\ early \in SUBSET S /\ counted \in SUBSET S
  BY DEF Report!Late, Report!Early, Report!Counted
<1>3. /\ Report!Sum(LAMBDA i : slips[i].gross, late) = Over(Labels, late)
      /\ Report!Sum(LAMBDA i : slips[i].gross, early) = Over(Labels, early)
      /\ Report!Sum(LAMBDA i : slips[i].discount, counted) = Over(Discounted, counted)
      /\ Report!Sum(LAMBDA i : Report!Total(slips[i]), counted) = Over(Totals, counted)
  <2>1. /\ [i \in late |-> slips[i].gross] = [i \in late |-> Labels[i]]
        /\ [i \in early |-> slips[i].gross] = [i \in early |-> Labels[i]]
        /\ [i \in counted |-> slips[i].discount] = [i \in counted |-> Discounted[i]]
        /\ [i \in counted |-> Report!Total(slips[i])] = [i \in counted |-> Totals[i]]
    BY <1>2 DEF Labels, Discounted, Totals
  <2>2. /\ Report!Sum(LAMBDA i : slips[i].gross, late) = SumOf([i \in late |-> slips[i].gross])
        /\ Report!Sum(LAMBDA i : slips[i].gross, early) = SumOf([i \in early |-> slips[i].gross])
        /\ Report!Sum(LAMBDA i : slips[i].discount, counted) = SumOf([i \in counted |-> slips[i].discount])
        /\ Report!Sum(LAMBDA i : Report!Total(slips[i]), counted)
              = SumOf([i \in counted |-> Report!Total(slips[i])])
    BY ReportSums, Zenon DEF Report!Sum
  <2> HIDE DEF late, early, counted
  <2> QED BY <2>1, <2>2 DEF Over
<1>4. Report!Sum(LAMBDA i : Report!PaidOut(slips[i], d), DOMAIN slips) = SumOf(BackOn(slips, d))
  <2>1. [i \in DOMAIN slips |-> Report!PaidOut(slips[i], d)] = BackOn(slips, d)
    BY PaidOutIs DEF BackOn
  <2> QED BY <2>1, ReportSums, Zenon DEF Report!Sum
<1>5. PICK lateSum, earlySum, netSum, offSum, gone, given :
        /\ lateSum = Over(Labels, late) /\ earlySum = Over(Labels, early)
        /\ netSum = Over(Totals, counted) /\ offSum = Over(Discounted, counted)
        /\ gone = SumOf(GoneOn(slips, d)) /\ given = SumOf(BackOn(slips, d))
  OBVIOUS
<1>6. PICK ws, wr, os, or, ps, pr :
        /\ ws = Report!Worth(Report!In({d}, "sale")) /\ wr = Report!Worth(Report!In({d}, "refund"))
        /\ os = Report!Worth(Report!OfChannel(d, "sale")) /\ or = Report!Worth(Report!OfChannel(d, "refund"))
        /\ ps = SumOf(PostsOn(ledger, "sale", d)) /\ pr = SumOf(PostsOn(ledger, "refund", d))
  OBVIOUS
<1>7. /\ ws = ps + os /\ wr = pr + or /\ ws \in Int /\ wr \in Int /\ os \in Int /\ or \in Int
      /\ ps \in Int /\ pr \in Int
  BY <1>1, <1>6, WorthSplit
<1>8. ps = gone /\ pr = given
  BY <1>1, <1>5, <1>6 DEF ReportInv, RowSums
<1>9. /\ gone + lateSum = netSum + offSum + earlySum
      /\ gone \in Int /\ lateSum \in Int /\ netSum \in Int /\ offSum \in Int /\ earlySum \in Int
  BY <1>1, <1>5, GoodsOfADay
<1>10. Report!DailyReport(d).revenue = ws - wr
  BY <1>6 DEF Report!DailyReport
<1>11. Report!TotalSales(d) = netSum - given + os - or
  BY <1>3, <1>4, <1>5, <1>6 DEF Report!TotalSales
<1>12. ws - wr + lateSum = netSum - given + os - or + offSum + earlySum
  BY <1>7, <1>8, <1>9
<1> QED BY <1>3, <1>5, <1>10, <1>11, <1>12

(* What the goods of no rows cost, whatever the average is: a purchase     *)
(* moves goods, so that the average is one.                                *)
Bought(p, T) == {i \in Report!In(T, "purchase") : ledger[i].product = p /\ Report!Known(ledger[i].cost)}

LEMMA NoneCostNothing ==
  ASSUME ReportInv, NEW p, NEW T
  PROVE  Report!AtAverage(p, 0, T) = 0
<1> DEFINE bought == Bought(p, T)
           paid == Report!Sum(LAMBDA i : ledger[i].cost * ledger[i].qty, bought)
<1>1. bought \in SUBSET DOMAIN ledger /\ \A i \in bought : ledger[i].kind = "purchase"
  BY DEF Bought, Report!In
<1>2. Report!AtAverage(p, 0, T) = IF bought = {} THEN 0 ELSE (100 * 0 * paid) \div Report!Moved(bought)
  BY DEF Report!AtAverage, Bought
<1>3. ASSUME bought # {} PROVE Report!Moved(bought) \in Nat \ {0}
  <2>1. \A i \in bought : Units[i] = 1
    BY <1>1 DEF ReportInv, SoundRow, Units
  <2>2. PICK i \in bought : TRUE
    BY <1>3
  <2> DEFINE rest == [x \in bought \ {i} |-> Units[x]]
  <2>3. IsFiniteSet(DOMAIN ledger) /\ Units \in [DOMAIN ledger -> Int]
    BY LedgerTypes
  <2>4. Report!Moved(bought) = Over(Units, bought)
    BY <1>1, RowFigures
  <2>5. Over(Units, bought) = Units[i] + Over(Units, bought \ {i})
    <3> HIDE DEF bought
    <3> QED BY <1>1, <2>2, <2>3, OverFacts
  <2>6. Over(Units, bought \ {i}) \in Nat
    <3>1. rest \in [bought \ {i} -> Nat]
      BY <2>1
    <3>2. IsFiniteSet(bought \ {i})
      <4>1. bought \ {i} \in SUBSET DOMAIN ledger
        BY <1>1
      <4> HIDE DEF bought
      <4> QED BY <2>3, <4>1, FS_Subset
    <3> HIDE DEF bought, rest
    <3>3. SumOf(rest) \in Nat
      BY <3>1, <3>2, SumNat
    <3> QED BY <3>3 DEF rest, Over
  <2> QED BY <2>1, <2>2, <2>4, <2>5, <2>6
<1>4. paid \in Int
  <2>1. \A i \in bought : ledger[i].cost * ledger[i].qty = CostsOf[i]
    <3> SUFFICES ASSUME NEW i \in bought PROVE ledger[i].cost * ledger[i].qty = CostsOf[i]
      OBVIOUS
    <3>1. i \in DOMAIN ledger /\ ledger[i] \in LedgerRow /\ Report!Known(ledger[i].cost)
      BY <1>1 DEF ReportInv, Bought
    <3>2. ledger[i].cost \in Int /\ ledger[i].qty \in Int
      BY <3>1 DEF LedgerRow, Report!Known
    <3>3. ledger[i].cost * ledger[i].qty = ledger[i].qty * ledger[i].cost
      BY <3>2
    <3> QED BY <3>1, <3>3 DEF CostsOf
  <2>2. [i \in bought |-> ledger[i].cost * ledger[i].qty] = [i \in bought |-> CostsOf[i]]
    BY <2>1
  <2>3. paid = SumOf([i \in bought |-> ledger[i].cost * ledger[i].qty])
    BY ReportSums, Zenon DEF Report!Sum
  <2>4. paid = Over(CostsOf, bought)
    BY <2>2, <2>3 DEF Over
  <2> HIDE DEF bought, paid
  <2> QED BY <1>1, <2>4, LedgerTypes, OverFacts
<1>5. PICK m : m = Report!Moved(bought)
  OBVIOUS
<1>6. bought # {} => m \in Nat \ {0}
  BY <1>3, <1>5
<1>7. ASSUME m \in Nat \ {0} PROVE (100 * 0 * paid) \div m = 0
  <2> HIDE DEF paid
  <2>1. 100 * 0 * paid = 0
    BY <1>4
  <2> QED BY <1>7, <2>1
<1> HIDE DEF bought, paid
<1> QED BY <1>2, <1>5, <1>6, <1>7

(* The goods of two kinds of rows are told apart.                          *)
LEMMA TogetherOrApart ==
  ASSUME ReportInv, NEW R \in SUBSET DOMAIN ledger, NEW Q \in SUBSET DOMAIN ledger, R \cap Q = {}
  PROVE  /\ Report!CostOf(R \cup Q) = Report!CostOf(R) + Report!CostOf(Q)
         /\ \A p : Report!Moved(Report!Unpriced(R \cup Q, p))
                     = Report!Moved(Report!Unpriced(R, p)) + Report!Moved(Report!Unpriced(Q, p))
<1>1. IsFiniteSet(DOMAIN ledger) /\ Units \in [DOMAIN ledger -> Int] /\ CostsOf \in [DOMAIN ledger -> Int]
  BY LedgerTypes
<1>2. Report!CostOf(R \cup Q) = Report!CostOf(R) + Report!CostOf(Q)
  <2>1. /\ Report!Priced(R \cup Q) = Report!Priced(R) \cup Report!Priced(Q)
        /\ Report!Priced(R) \cap Report!Priced(Q) = {} /\ R \cup Q \in SUBSET DOMAIN ledger
        /\ Report!Priced(R) \in SUBSET DOMAIN ledger /\ Report!Priced(Q) \in SUBSET DOMAIN ledger
    BY DEF Report!Priced
  <2>2. Over(CostsOf, Report!Priced(R) \cup Report!Priced(Q))
          = Over(CostsOf, Report!Priced(R)) + Over(CostsOf, Report!Priced(Q))
    BY <1>1, <2>1, OverUnion
  <2>3. /\ Report!CostOf(R) = Over(CostsOf, Report!Priced(R))
        /\ Report!CostOf(Q) = Over(CostsOf, Report!Priced(Q))
        /\ Report!CostOf(R \cup Q) = Over(CostsOf, Report!Priced(R \cup Q))
    BY <2>1, RowFigures
  <2> QED BY <2>1, <2>2, <2>3
<1>3. ASSUME NEW p
      PROVE  Report!Moved(Report!Unpriced(R \cup Q, p))
               = Report!Moved(Report!Unpriced(R, p)) + Report!Moved(Report!Unpriced(Q, p))
  <2>1. PICK U, V : U = Report!Unpriced(R, p) /\ V = Report!Unpriced(Q, p)
    OBVIOUS
  <2>2. /\ Report!Unpriced(R \cup Q, p) = U \cup V /\ U \cap V = {} /\ U \cup V \in SUBSET DOMAIN ledger
        /\ U \in SUBSET DOMAIN ledger /\ V \in SUBSET DOMAIN ledger
    BY <2>1 DEF Report!Unpriced
  <2>3. Over(Units, U \cup V) = Over(Units, U) + Over(Units, V)
    BY <1>1, <2>2, OverUnion
  <2>4. /\ Report!Moved(U) = Over(Units, U) /\ Report!Moved(V) = Over(Units, V)
        /\ Report!Moved(U \cup V) = Over(Units, U \cup V)
    BY <2>2, RowFigures
  <2> QED BY <2>1, <2>2, <2>3, <2>4
<1> QED BY <1>2, <1>3

(* Goods of known cost need no average.                                    *)
LEMMA NothingUnpriced ==
  ASSUME ReportInv, NEW R \in SUBSET DOMAIN ledger, \A i \in R : Report!Known(ledger[i].cost), NEW p
  PROVE  Report!Moved(Report!Unpriced(R, p)) = 0
<1>1. Report!Unpriced(R, p) = {} /\ {} \in SUBSET DOMAIN ledger
  BY DEF Report!Unpriced
<1>2. Over(Units, {}) = 0
  BY <1>1, LedgerTypes, OverFacts
<1>3. Report!Moved({}) = Over(Units, {})
  BY <1>1, RowFigures
<1> QED BY <1>1, <1>2, <1>3

KnownCosts(T) ==
  \A cutoff :
    /\ Report!EstimateCogs(T, cutoff)
         = -100 * (Report!CostOf(Report!In(T, "sale")) + Report!CostOf(Report!In(T, "refund")))
    /\ \A d : T = {d} => Report!TrendCogs(d, cutoff) = -100 * Report!CostOf(Report!In(T, "sale"))

LEMMA KnownAreSums ==
  ASSUME ReportInv, NEW T, Report!AllKnown(T)
  PROVE  KnownCosts(T)
<1> DEFINE gone == Report!In(T, "sale")
           ret  == Report!In(T, "refund")
<1>1. /\ gone \in SUBSET DOMAIN ledger /\ ret \in SUBSET DOMAIN ledger
      /\ (\A i \in gone : Report!Known(ledger[i].cost)) /\ \A i \in ret : Report!Known(ledger[i].cost)
  BY DEF Report!In, Report!AllKnown
<1>2. Report!CostOf(gone) \in Int /\ Report!CostOf(ret) \in Int
  <2> HIDE DEF gone, ret
  <2> QED BY <1>1, RowFigures
<1>3. \A p : Report!Moved(Report!Unpriced(gone, p)) = 0 /\ Report!Moved(Report!Unpriced(ret, p)) = 0
  <2> HIDE DEF gone, ret
  <2> QED BY <1>1, NothingUnpriced
<1>4. SumOf([p \in Product |-> 0]) = 0
  <2>1. PICK z : z = [p \in Product |-> 0]
    OBVIOUS
  <2>2. z \in [Product -> Int] /\ IsFiniteSet(Product) /\ \A p \in Product : z[p] = 0
    BY <2>1, SumsAreWhole
  <2>3. SumOf(z) = 0
    BY <2>2, SumZero
  <2> QED BY <2>1, <2>3
<1>5. SUFFICES ASSUME NEW cutoff
               PROVE  /\ Report!EstimateCogs(T, cutoff) = -100 * (Report!CostOf(gone) + Report!CostOf(ret))
                      /\ \A d : T = {d} => Report!TrendCogs(d, cutoff) = -100 * Report!CostOf(gone)
  BY DEF KnownCosts
<1>6. \A p : Report!AtAverage(p, 0, Report!Since(cutoff)) = 0
  BY NoneCostNothing
<1>7. Report!EstimateCogs(T, cutoff) = -100 * (Report!CostOf(gone) + Report!CostOf(ret))
  <2>1. Report!EstimateCogs(T, cutoff) = -100 * (Report!CostOf(gone) + Report!CostOf(ret))
          + Report!SumOf([p \in Product |->
               Report!AtAverage(p, -Report!Moved(Report!Unpriced(gone, p))
                                     - Report!Moved(Report!Unpriced(ret, p)), Report!Since(cutoff))])
    BY DEF Report!EstimateCogs, Report!Sum
  <2> HIDE DEF gone, ret
  <2>2. \A p : -Report!Moved(Report!Unpriced(gone, p)) - Report!Moved(Report!Unpriced(ret, p)) = 0
    BY <1>3
  <2>3. [p \in Product |->
           Report!AtAverage(p, -Report!Moved(Report!Unpriced(gone, p))
                                 - Report!Moved(Report!Unpriced(ret, p)), Report!Since(cutoff))]
          = [p \in Product |-> 0]
    BY <1>6, <2>2
  <2>4. Report!SumOf([p \in Product |->
               Report!AtAverage(p, -Report!Moved(Report!Unpriced(gone, p))
                                     - Report!Moved(Report!Unpriced(ret, p)), Report!Since(cutoff))]) = 0
    BY <2>3, <1>4, ReportSums
  <2> QED BY <1>2, <2>1, <2>4
<1>8. ASSUME NEW d, T = {d} PROVE Report!TrendCogs(d, cutoff) = -100 * Report!CostOf(gone)
  <2>1. Report!TrendCogs(d, cutoff) = -100 * Report!CostOf(gone)
          + Report!SumOf([p \in Product |->
               Report!AtAverage(p, -Report!Moved(Report!Unpriced(gone, p)), Report!Since(cutoff))])
    BY <1>8 DEF Report!TrendCogs, Report!Sum
  <2> HIDE DEF gone, ret
  <2>2. \A p : -Report!Moved(Report!Unpriced(gone, p)) = 0
    BY <1>3
  <2>3. [p \in Product |-> Report!AtAverage(p, -Report!Moved(Report!Unpriced(gone, p)), Report!Since(cutoff))]
          = [p \in Product |-> 0]
    BY <1>6, <2>2
  <2>4. Report!SumOf([p \in Product |->
               Report!AtAverage(p, -Report!Moved(Report!Unpriced(gone, p)), Report!Since(cutoff))]) = 0
    BY <2>3, <1>4, ReportSums
  <2> QED BY <1>2, <2>1, <2>4
<1> QED BY <1>7, <1>8

LEMMA Negative == \A x \in Int : -x = 0 - x
  OBVIOUS

LEMMA CostsAdd == ReportInv => Report!CostsAgree
<1> SUFFICES ASSUME ReportInv, NEW d \in 1 .. today, Report!SameWindow(d) \/ Report!AllKnown({d})
             PROVE  Report!DailyReport(d).cogs = Report!DailyCogs(d)
  BY DEF Report!CostsAgree
<1> DEFINE gone == Report!In({d}, "sale")
           ret  == Report!In({d}, "refund")
           here == {e \in 1 .. Days : d - Window <= e /\ e <= d}
           then == Report!Since(Window)
<1>1. gone \in SUBSET DOMAIN ledger /\ ret \in SUBSET DOMAIN ledger /\ gone \cap ret = {}
  BY DEF Report!In
<1>2. /\ Report!CostOf(gone \cup ret) = Report!CostOf(gone) + Report!CostOf(ret)
      /\ \A p : Report!Moved(Report!Unpriced(gone \cup ret, p))
                  = Report!Moved(Report!Unpriced(gone, p)) + Report!Moved(Report!Unpriced(ret, p))
  <2> HIDE DEF gone, ret
  <2> QED BY <1>1, TogetherOrApart
<1>3. \A p : Report!Moved(Report!Unpriced(gone, p)) \in Int /\ Report!Moved(Report!Unpriced(ret, p)) \in Int
  <2>1. \A p : Report!Unpriced(gone, p) \in SUBSET DOMAIN ledger /\ Report!Unpriced(ret, p) \in SUBSET DOMAIN ledger
    BY <1>1 DEF Report!Unpriced
  <2> HIDE DEF gone, ret
  <2> QED BY <2>1, RowFigures
<1>4. \A p : -Report!Moved(Report!Unpriced(gone, p)) - Report!Moved(Report!Unpriced(ret, p))
               = -Report!Moved(Report!Unpriced(gone \cup ret, p))
  <2> HIDE DEF gone, ret
  <2> SUFFICES ASSUME NEW p
               PROVE  -Report!Moved(Report!Unpriced(gone, p)) - Report!Moved(Report!Unpriced(ret, p))
                        = -Report!Moved(Report!Unpriced(gone \cup ret, p))
    OBVIOUS
  <2>1. PICK x, y, z : /\ x = Report!Moved(Report!Unpriced(gone, p)) /\ y = Report!Moved(Report!Unpriced(ret, p))
                       /\ z = Report!Moved(Report!Unpriced(gone \cup ret, p))
    OBVIOUS
  <2>2. z = x + y /\ x \in Int /\ y \in Int
    BY <1>2, <1>3, <2>1
  <2>3. -x - y = -z
    BY <2>2
  <2> QED BY <2>1, <2>3
<1>5. \A p : Report!AtAverage(p, -Report!Moved(Report!Unpriced(gone \cup ret, p)), then)
               = Report!AtAverage(p, -Report!Moved(Report!Unpriced(gone \cup ret, p)), here)
  <2>1. CASE Report!SameWindow(d)
    <3>1. Report!In(then, "purchase") = Report!In(here, "purchase")
      <4>1. d \in Int /\ Window \in Int /\ Days \in Int /\ today \in Int
        BY SumsAreWhole DEF ReportInv
      <4>2. \A i \in DOMAIN ledger : ledger[i].day \in Nat
        <5>1. \A i \in DOMAIN ledger : ledger[i] \in LedgerRow
          BY DEF ReportInv
        <5> QED BY <5>1 DEF LedgerRow
      <4>3. \A e \in 1 .. Days : e \in here <=> e \in d - Window .. d
        BY <4>1
      <4>4. \A e : (e \in then => e \in 1 .. Days) /\ (e \in here => e \in 1 .. Days)
        BY DEF Report!Since
      <4>5. \A i \in DOMAIN ledger :
               ~ledger[i].voided /\ ledger[i].kind = "purchase" /\ ledger[i].day \in 1 .. Days
                 => (ledger[i].day \in then) = (ledger[i].day \in d - Window .. d)
        BY <2>1 DEF Report!SameWindow, Report!In
      <4> HIDE DEF here, then
      <4>6. \A i \in DOMAIN ledger :
               ~ledger[i].voided /\ ledger[i].kind = "purchase"
                 => (ledger[i].day \in then <=> ledger[i].day \in here)
        BY <4>3, <4>4, <4>5
      <4> QED BY <4>6 DEF Report!In
    <3> HIDE DEF here, then, gone, ret
    <3> QED BY <3>1 DEF Report!AtAverage
  <2>2. CASE Report!AllKnown({d})
    <3>1. gone \cup ret \in SUBSET DOMAIN ledger /\ \A i \in gone \cup ret : Report!Known(ledger[i].cost)
      BY <1>1, <2>2 DEF Report!AllKnown
    <3> HIDE DEF here, then, gone, ret
    <3>2. \A p : Report!Moved(Report!Unpriced(gone \cup ret, p)) = 0
      BY <3>1, NothingUnpriced
    <3>3. \A p : -Report!Moved(Report!Unpriced(gone \cup ret, p)) = 0
      <4> SUFFICES ASSUME NEW p PROVE -Report!Moved(Report!Unpriced(gone \cup ret, p)) = 0
        OBVIOUS
      <4>1. PICK x : x = Report!Moved(Report!Unpriced(gone \cup ret, p))
        OBVIOUS
      <4>2. x = 0
        BY <3>2, <4>1
      <4>3. -x = 0
        <5>1. x \in Int /\ x = 0
          BY <4>2
        <5>2. -x = 0 - x
          BY <5>1, Negative
        <5>3. 0 - x = 0
          BY <5>1
        <5> QED BY <5>2, <5>3, Zenon
      <4> QED BY <4>1, <4>3
    <3>4. \A p : Report!AtAverage(p, 0, then) = 0 /\ Report!AtAverage(p, 0, here) = 0
      BY NoneCostNothing
    <3> QED BY <3>3, <3>4
  <2> QED BY <2>1, <2>2
<1>6. Report!DailyReport(d).cogs = -100 * (Report!CostOf(gone) + Report!CostOf(ret))
        + Report!SumOf([p \in Product |->
             Report!AtAverage(p, -Report!Moved(Report!Unpriced(gone, p))
                                   - Report!Moved(Report!Unpriced(ret, p)), then)])
  <2>1. Report!DailyReport(d).cogs = Report!EstimateCogs({d}, Window)
    BY DEF Report!DailyReport
  <2> QED BY <2>1 DEF Report!EstimateCogs, Report!Sum
<1>7. Report!DailyCogs(d) = -100 * Report!CostOf(gone \cup ret)
        + Report!SumOf([p \in Product |->
             Report!AtAverage(p, -Report!Moved(Report!Unpriced(gone \cup ret, p)), here)])
  BY DEF Report!DailyCogs, Report!Sum
<1>8. [p \in Product |-> Report!AtAverage(p, -Report!Moved(Report!Unpriced(gone, p))
                                               - Report!Moved(Report!Unpriced(ret, p)), then)]
        = [p \in Product |-> Report!AtAverage(p, -Report!Moved(Report!Unpriced(gone \cup ret, p)), here)]
  <2> HIDE DEF here, then, gone, ret
  <2> QED BY <1>4, <1>5
<1> HIDE DEF here, then, gone, ret
<1> QED BY <1>2, <1>6, <1>7, <1>8

-----------------------------------------------------------------------------
(* A week and its days.                                                    *)

OnDays(Q, T) == {i \in Q : ledger[i].day \in T}

LEMMA DayByDay ==
  ASSUME ReportInv, NEW T, IsFiniteSet(T), NEW f \in [DOMAIN ledger -> Int], NEW Q \in SUBSET DOMAIN ledger
  PROVE  /\ [d \in T |-> Over(f, OnDays(Q, {d}))] \in [T -> Int]
         /\ Over(f, OnDays(Q, T)) = SumOf([d \in T |-> Over(f, OnDays(Q, {d}))])
<1> DEFINE P == [d \in T |-> OnDays(Q, {d})]
           S == DOMAIN ledger
<1>1. /\ IsFiniteSet(S) /\ P \in [T -> SUBSET S] /\ OnDays(Q, T) \in SUBSET S /\ f \in [S -> Int]
      /\ \A d, e \in T : d # e => P[d] \cap P[e] = {}
      /\ \A x \in S : x \in OnDays(Q, T) <=> \E d \in T : x \in P[d]
  BY LedgerTypes DEF OnDays
<1>2. [d \in T |-> Over(f, P[d])] = [d \in T |-> Over(f, OnDays(Q, {d}))]
  OBVIOUS
<1> HIDE DEF P, S
<1>3. /\ [d \in T |-> Over(f, P[d])] \in [T -> Int]
      /\ Over(f, OnDays(Q, T)) = SumOf([d \in T |-> Over(f, P[d])])
  <2>1. PICK U : U = OnDays(Q, T)
    OBVIOUS
  <2>2. /\ IsFiniteSet(S) /\ IsFiniteSet(T) /\ P \in [T -> SUBSET S] /\ U \in SUBSET S /\ f \in [S -> Int]
        /\ \A d, e \in T : d # e => P[d] \cap P[e] = {}
        /\ \A x \in S : x \in U <=> \E d \in T : x \in P[d]
    BY <1>1, <2>1
  <2>3. /\ [d \in T |-> Over(f, P[d])] \in [T -> Int]
        /\ Over(f, U) = SumOf([d \in T |-> Over(f, P[d])])
    BY ONLY <2>2, OverParts
  <2> QED BY <2>1, <2>3
<1> QED BY <1>2, <1>3

OfKind(kind) == {i \in DOMAIN ledger : ~ledger[i].voided /\ ledger[i].kind = kind}

LEMMA DaysOf ==
  \A kind, T, p :
    /\ OfKind(kind) \in SUBSET DOMAIN ledger /\ Report!Priced(OfKind(kind)) \in SUBSET DOMAIN ledger
    /\ Report!OfProduct(OfKind(kind), p) \in SUBSET DOMAIN ledger
    /\ Report!In(T, kind) = OnDays(OfKind(kind), T)
    /\ Report!Priced(Report!In(T, kind)) = OnDays(Report!Priced(OfKind(kind)), T)
    /\ Report!OfProduct(Report!In(T, kind), p) = OnDays(Report!OfProduct(OfKind(kind), p), T)
  BY DEF OfKind, OnDays, Report!In, Report!Priced, Report!OfProduct

LEMMA WorthByDay ==
  ASSUME ReportInv, NEW T, IsFiniteSet(T), NEW kind
  PROVE  /\ [d \in T |-> Report!Worth(Report!In({d}, kind))] \in [T -> Int]
         /\ Report!Worth(Report!In(T, kind)) = SumOf([d \in T |-> Report!Worth(Report!In({d}, kind))])
         /\ Report!Worth(Report!In(T, kind)) \in Int
<1>1. \A U : Report!In(U, kind) = OnDays(OfKind(kind), U) /\ OnDays(OfKind(kind), U) \in SUBSET DOMAIN ledger
  BY DaysOf DEF OnDays
<1>2. \A U : /\ Report!Worth(Report!In(U, kind)) = Over(Worths, OnDays(OfKind(kind), U))
             /\ Report!Worth(Report!In(U, kind)) \in Int
  BY <1>1, RowFigures
<1>3. OfKind(kind) \in SUBSET DOMAIN ledger /\ Worths \in [DOMAIN ledger -> Int]
  BY DaysOf, LedgerTypes
<1>4. /\ [d \in T |-> Over(Worths, OnDays(OfKind(kind), {d}))] \in [T -> Int]
      /\ Over(Worths, OnDays(OfKind(kind), T)) = SumOf([d \in T |-> Over(Worths, OnDays(OfKind(kind), {d}))])
  BY <1>3, DayByDay
<1>5. [d \in T |-> Over(Worths, OnDays(OfKind(kind), {d}))] = [d \in T |-> Report!Worth(Report!In({d}, kind))]
  BY <1>2
<1> QED BY <1>2, <1>4, <1>5

LEMMA ProductByDay ==
  ASSUME ReportInv, NEW T, IsFiniteSet(T), NEW kind, NEW p
  PROVE  /\ [d \in T |-> Report!Worth(Report!OfProduct(Report!In({d}, kind), p))] \in [T -> Int]
         /\ Report!Worth(Report!OfProduct(Report!In(T, kind), p))
              = SumOf([d \in T |-> Report!Worth(Report!OfProduct(Report!In({d}, kind), p))])
         /\ Report!Worth(Report!OfProduct(Report!In(T, kind), p)) \in Int
<1>1. PICK Q : Q = Report!OfProduct(OfKind(kind), p)
  OBVIOUS
<1>2. \A U : Report!OfProduct(Report!In(U, kind), p) = OnDays(Q, U) /\ OnDays(Q, U) \in SUBSET DOMAIN ledger
  BY <1>1, DaysOf DEF OnDays
<1>3. \A U : /\ Report!Worth(Report!OfProduct(Report!In(U, kind), p)) = Over(Worths, OnDays(Q, U))
             /\ Report!Worth(Report!OfProduct(Report!In(U, kind), p)) \in Int
  BY <1>2, RowFigures
<1>4. Q \in SUBSET DOMAIN ledger /\ Worths \in [DOMAIN ledger -> Int]
  BY <1>1, DaysOf, LedgerTypes
<1>5. /\ [d \in T |-> Over(Worths, OnDays(Q, {d}))] \in [T -> Int]
      /\ Over(Worths, OnDays(Q, T)) = SumOf([d \in T |-> Over(Worths, OnDays(Q, {d}))])
  BY <1>4, DayByDay
<1>6. [d \in T |-> Over(Worths, OnDays(Q, {d}))]
        = [d \in T |-> Report!Worth(Report!OfProduct(Report!In({d}, kind), p))]
  BY <1>3
<1> QED BY <1>3, <1>5, <1>6

LEMMA CostByDay ==
  ASSUME ReportInv, NEW T, IsFiniteSet(T), NEW kind
  PROVE  /\ [d \in T |-> Report!CostOf(Report!In({d}, kind))] \in [T -> Int]
         /\ Report!CostOf(Report!In(T, kind)) = SumOf([d \in T |-> Report!CostOf(Report!In({d}, kind))])
         /\ Report!CostOf(Report!In(T, kind)) \in Int
<1>1. PICK Q : Q = Report!Priced(OfKind(kind))
  OBVIOUS
<1>2. \A U : /\ Report!Priced(Report!In(U, kind)) = OnDays(Q, U) /\ OnDays(Q, U) \in SUBSET DOMAIN ledger
             /\ Report!In(U, kind) \in SUBSET DOMAIN ledger
  BY <1>1, DaysOf DEF OnDays, Report!In
<1>3. \A U : /\ Report!CostOf(Report!In(U, kind)) = Over(CostsOf, OnDays(Q, U))
             /\ Report!CostOf(Report!In(U, kind)) \in Int
  BY <1>2, RowFigures
<1>4. Q \in SUBSET DOMAIN ledger /\ CostsOf \in [DOMAIN ledger -> Int]
  BY <1>1, DaysOf, LedgerTypes
<1>5. /\ [d \in T |-> Over(CostsOf, OnDays(Q, {d}))] \in [T -> Int]
      /\ Over(CostsOf, OnDays(Q, T)) = SumOf([d \in T |-> Over(CostsOf, OnDays(Q, {d}))])
  BY <1>4, DayByDay
<1>6. [d \in T |-> Over(CostsOf, OnDays(Q, {d}))] = [d \in T |-> Report!CostOf(Report!In({d}, kind))]
  BY <1>3
<1> QED BY <1>3, <1>5, <1>6

(* The losses of one product are among all losses, and none is negative.   *)
LEMMA LossesOfOne ==
  ASSUME ReportInv, NEW T, NEW p
  PROVE  Report!Worth(Report!OfProduct(Report!In(T, "waste"), p)) <= Report!Worth(Report!In(T, "waste"))
<1> DEFINE S == DOMAIN ledger
           all == Report!In(T, "waste")
           one == Report!OfProduct(all, p)
           f == Masked(Worths, S, one)
           g == Masked(Worths, S, all)
<1>1. one \in SUBSET S /\ all \in SUBSET S /\ \A i \in one : i \in all
  BY DEF Report!In, Report!OfProduct
<1>2. \A i \in all : Worths[i] \in Nat
  BY DEF Report!In, Worths, ReportInv, SoundRow
<1>3. IsFiniteSet(S) /\ Worths \in [S -> Int]
  BY LedgerTypes
<1>4. Report!Worth(one) = Over(Worths, one) /\ Report!Worth(all) = Over(Worths, all)
  <2>1. \A R \in SUBSET S : Report!Worth(R) = Over(Worths, R)
    BY RowFigures DEF S
  <2> HIDE DEF S, all, one
  <2> QED BY <1>1, <2>1
<1> HIDE DEF S, all, one
<1>5. /\ f \in [S -> Int] /\ g \in [S -> Int] /\ Over(Worths, one) = SumOf(f) /\ Over(Worths, all) = SumOf(g)
  BY <1>1, <1>3, OverMasked
<1>6. \A i \in S : f[i] <= g[i]
  BY <1>1, <1>2, <1>3 DEF Masked
<1> HIDE DEF f, g
<1>7. SumOf(f) <= SumOf(g)
  BY <1>3, <1>5, <1>6, SumAtMost
<1> QED BY <1>4, <1>5, <1>7 DEF all, one

LEMMA WeekAdds == ReportInv => Report!WeekIsItsDays
<1> SUFFICES ASSUME ReportInv, NEW a \in 1 .. today
             PROVE  LET S == Report!Period(a, Week)
                        w == Report!PeriodReport(a, Week, Window)
                    IN /\ w.revenue = Report!Sum(LAMBDA d : Report!DailyReport(d).revenue, S)
                                        + Report!Worth(Report!In(S, "refund"))
                       /\ w.revenue = Report!Sum(LAMBDA d : Report!TrendDay(d, Window).revenue, S)
                       /\ \A p \in Product :
                            /\ Report!Ranked(S, p).sales
                                 = Report!Sum(LAMBDA d : Report!TopProduct(d, p), S)
                                    + Report!Worth(Report!OfProduct(Report!In(S, "refund"), p))
                            /\ Report!Ranked(S, p).waste <= Report!Sum(LAMBDA d : Report!DailyReport(d).waste, S)
                       /\ Report!AllKnown(S) =>
                            /\ w.gross_profit = Report!Sum(LAMBDA d : Report!DailyReport(d).gross_profit, S)
                                                  + 100 * Report!Worth(Report!In(S, "refund"))
                            /\ w.gross_profit = Report!Sum(LAMBDA d : Report!TrendDay(d, Window).gross_profit, S)
                                                  + 100 * Report!CostOf(Report!In(S, "refund"))
  BY DEF Report!WeekIsItsDays
<1>1. PICK S : S = Report!Period(a, Week)
  OBVIOUS
<1>2. IsFiniteSet(S)
  <2>1. IsFiniteSet(1 .. Days) /\ S \in SUBSET (1 .. Days)
    BY <1>1, SumsAreWhole, FS_Interval DEF Report!Period
  <2> QED BY <2>1, FS_Subset
<1>3. PICK w : w = Report!PeriodReport(a, Week, Window)
  OBVIOUS
<1> DEFINE sd == [d \in S |-> Report!Worth(Report!In({d}, "sale"))]
           rd == [d \in S |-> Report!Worth(Report!In({d}, "refund"))]
           wd == [d \in S |-> Report!Worth(Report!In({d}, "waste"))]
           cs == [d \in S |-> Report!CostOf(Report!In({d}, "sale"))]
           cr == [d \in S |-> Report!CostOf(Report!In({d}, "refund"))]
<1>4. PICK sale, refund, costGone, costBack :
        /\ sale = Report!Worth(Report!In(S, "sale")) /\ refund = Report!Worth(Report!In(S, "refund"))
        /\ costGone = Report!CostOf(Report!In(S, "sale")) /\ costBack = Report!CostOf(Report!In(S, "refund"))
  OBVIOUS
<1>5. /\ sd \in [S -> Int] /\ rd \in [S -> Int] /\ wd \in [S -> Int] /\ cs \in [S -> Int] /\ cr \in [S -> Int]
      /\ sale = SumOf(sd) /\ refund = SumOf(rd) /\ costGone = SumOf(cs) /\ costBack = SumOf(cr)
      /\ Report!Worth(Report!In(S, "waste")) = SumOf(wd)
      /\ sale \in Int /\ refund \in Int /\ costGone \in Int /\ costBack \in Int
  BY <1>2, <1>4, WorthByDay, CostByDay
<1>6. w.revenue = sale /\ w.gross_profit = 100 * sale - Report!EstimateCogs(S, Window)
  BY <1>1, <1>3, <1>4 DEF Report!PeriodReport
<1>7. \A d \in S : /\ Report!DailyReport(d).revenue = sd[d] - rd[d]
                   /\ Report!DailyReport(d).waste = wd[d]
                   /\ Report!DailyReport(d).gross_profit
                        = 100 * (sd[d] - rd[d]) - Report!EstimateCogs({d}, Window)
                   /\ Report!TrendDay(d, Window).revenue = sd[d]
                   /\ Report!TrendDay(d, Window).gross_profit = 100 * sd[d] - Report!TrendCogs(d, Window)
  BY DEF Report!DailyReport, Report!TrendDay
<1>8. /\ Report!Sum(LAMBDA d : Report!DailyReport(d).revenue, S)
            = SumOf([d \in S |-> Report!DailyReport(d).revenue])
      /\ Report!Sum(LAMBDA d : Report!DailyReport(d).waste, S)
            = SumOf([d \in S |-> Report!DailyReport(d).waste])
      /\ Report!Sum(LAMBDA d : Report!DailyReport(d).gross_profit, S)
            = SumOf([d \in S |-> Report!DailyReport(d).gross_profit])
      /\ Report!Sum(LAMBDA d : Report!TrendDay(d, Window).revenue, S)
            = SumOf([d \in S |-> Report!TrendDay(d, Window).revenue])
      /\ Report!Sum(LAMBDA d : Report!TrendDay(d, Window).gross_profit, S)
            = SumOf([d \in S |-> Report!TrendDay(d, Window).gross_profit])
      /\ \A p : Report!Sum(LAMBDA d : Report!TopProduct(d, p), S) = SumOf([d \in S |-> Report!TopProduct(d, p)])
  BY ReportSums, Zenon DEF Report!Sum
<1> HIDE DEF sd, rd, wd, cs, cr
<1>9. Report!Sum(LAMBDA d : Report!DailyReport(d).revenue, S) = sale - refund
  <2>1. PICK h : h = [d \in S |-> Report!DailyReport(d).revenue]
    OBVIOUS
  <2>2. h \in [S -> Int] /\ \A d \in S : h[d] = sd[d] - rd[d]
    <3>1. \A d \in S : sd[d] \in Int /\ rd[d] \in Int
      BY <1>5
    <3>2. \A d \in S : sd[d] - rd[d] \in Int
      BY <3>1
    <3>3. \A d \in S : h[d] = sd[d] - rd[d]
      BY <1>7, <2>1
    <3>4. h = [d \in S |-> sd[d] - rd[d]]
      BY <1>7, <2>1
    <3> QED BY <3>2, <3>3, <3>4
  <2>3. SumOf(h) = SumOf(sd) - SumOf(rd)
    BY <1>2, <1>5, <2>2, SumMinus
  <2> QED BY <1>5, <1>8, <2>1, <2>3
<1>10. Report!Sum(LAMBDA d : Report!TrendDay(d, Window).revenue, S) = sale
  <2>1. [d \in S |-> Report!TrendDay(d, Window).revenue] = sd
    BY <1>5, <1>7
  <2> QED BY <1>5, <1>8, <2>1
<1>11. ASSUME NEW p \in Product
       PROVE  /\ Report!Ranked(S, p).sales
                   = Report!Sum(LAMBDA d : Report!TopProduct(d, p), S)
                      + Report!Worth(Report!OfProduct(Report!In(S, "refund"), p))
              /\ Report!Ranked(S, p).waste <= Report!Sum(LAMBDA d : Report!DailyReport(d).waste, S)
  <2> DEFINE f == [d \in S |-> Report!Worth(Report!OfProduct(Report!In({d}, "sale"), p))]
             g == [d \in S |-> Report!Worth(Report!OfProduct(Report!In({d}, "refund"), p))]
             h == [d \in S |-> Report!TopProduct(d, p)]
  <2>1. PICK x, y : /\ x = Report!Worth(Report!OfProduct(Report!In(S, "sale"), p))
                    /\ y = Report!Worth(Report!OfProduct(Report!In(S, "refund"), p))
    OBVIOUS
  <2>2. /\ f \in [S -> Int] /\ g \in [S -> Int] /\ x = SumOf(f) /\ y = SumOf(g) /\ x \in Int /\ y \in Int
    BY <1>2, <2>1, ProductByDay
  <2>3. \A d \in S : h[d] = f[d] - g[d]
    BY DEF Report!TopProduct
  <2>4. Report!Sum(LAMBDA d : Report!TopProduct(d, p), S) = SumOf(h)
    BY <1>8
  <2>5. h \in [S -> Int]
    <3>1. \A d \in S : h[d] \in Int
      <4> HIDE DEF f, g, h
      <4> QED BY <2>2, <2>3
    <3> QED BY <3>1
  <2> HIDE DEF f, g, h
  <2>6. SumOf(h) = SumOf(f) - SumOf(g)
    <3>1. IsFiniteSet(S) /\ f \in [S -> Int] /\ g \in [S -> Int] /\ h \in [S -> Int]
      BY <1>2, <2>2, <2>5
    <3>2. \A d \in S : h[d] = f[d] - g[d]
      BY <2>3
    <3> QED BY ONLY <3>1, <3>2, SumMinus
  <2>7. Report!Ranked(S, p).sales = x
    BY <2>1 DEF Report!Ranked
  <2>8. Report!Ranked(S, p).waste = Report!Worth(Report!OfProduct(Report!In(S, "waste"), p))
    BY DEF Report!Ranked
  <2>9. [d \in S |-> Report!DailyReport(d).waste] = wd
    BY <1>5, <1>7
  <2>10. Report!Sum(LAMBDA d : Report!DailyReport(d).waste, S) = Report!Worth(Report!In(S, "waste"))
    BY <1>5, <1>8, <2>9
  <2>11. x = SumOf(h) + y
    BY <2>2, <2>6
  <2> QED BY <2>1, <2>4, <2>7, <2>8, <2>10, <2>11, LossesOfOne
<1>12. ASSUME Report!AllKnown(S)
       PROVE  /\ w.gross_profit = Report!Sum(LAMBDA d : Report!DailyReport(d).gross_profit, S) + 100 * refund
              /\ w.gross_profit = Report!Sum(LAMBDA d : Report!TrendDay(d, Window).gross_profit, S)
                                    + 100 * costBack
  <2>1. Report!EstimateCogs(S, Window) = -100 * (costGone + costBack)
    BY <1>4, <1>12, KnownAreSums DEF KnownCosts
  <2>2. \A d \in S : /\ Report!EstimateCogs({d}, Window) = -100 * (cs[d] + cr[d])
                     /\ Report!TrendCogs(d, Window) = -100 * cs[d]
    <3>1. \A d \in S : Report!AllKnown({d})
      BY <1>12 DEF Report!AllKnown, Report!In
    <3>2. \A d \in S : KnownCosts({d})
      BY <3>1, KnownAreSums
    <3> QED BY <3>2 DEF KnownCosts, cs, cr
  <2> DEFINE net == [d \in S |-> sd[d] - rd[d]]
             cost == [d \in S |-> cs[d] + cr[d]]
             kept == [d \in S |-> net[d] + cost[d]]
             plain == [d \in S |-> sd[d] + cs[d]]
  <2>3. /\ net \in [S -> Int] /\ cost \in [S -> Int] /\ kept \in [S -> Int] /\ plain \in [S -> Int]
        /\ \A d \in S : net[d] = sd[d] - rd[d] /\ cost[d] = cs[d] + cr[d] /\ kept[d] = net[d] + cost[d]
                        /\ plain[d] = sd[d] + cs[d]
    BY <1>5
  <2> HIDE DEF net, cost, kept, plain
  <2>4. /\ SumOf(net) = sale - refund /\ SumOf(cost) = costGone + costBack
        /\ SumOf(kept) = SumOf(net) + SumOf(cost) /\ SumOf(plain) = sale + costGone
    <3>1. SumOf(net) = SumOf(sd) - SumOf(rd)
      <4>1. IsFiniteSet(S) /\ sd \in [S -> Int] /\ rd \in [S -> Int] /\ net \in [S -> Int]
        BY <1>2, <1>5, <2>3
      <4>2. \A d \in S : net[d] = sd[d] - rd[d]
        BY <2>3
      <4> QED BY ONLY <4>1, <4>2, SumMinus
    <3>2. SumOf(cost) = SumOf(cs) + SumOf(cr)
      <4>1. IsFiniteSet(S) /\ cs \in [S -> Int] /\ cr \in [S -> Int] /\ cost \in [S -> Int]
        BY <1>2, <1>5, <2>3
      <4>2. \A d \in S : cost[d] = cs[d] + cr[d]
        BY <2>3
      <4> QED BY ONLY <4>1, <4>2, SumPlus
    <3>3. SumOf(kept) = SumOf(net) + SumOf(cost)
      <4>1. IsFiniteSet(S) /\ net \in [S -> Int] /\ cost \in [S -> Int] /\ kept \in [S -> Int]
        BY <1>2, <2>3
      <4>2. \A d \in S : kept[d] = net[d] + cost[d]
        BY <2>3
      <4> QED BY ONLY <4>1, <4>2, SumPlus
    <3>4. SumOf(plain) = SumOf(sd) + SumOf(cs)
      <4>1. IsFiniteSet(S) /\ sd \in [S -> Int] /\ cs \in [S -> Int] /\ plain \in [S -> Int]
        BY <1>2, <1>5, <2>3
      <4>2. \A d \in S : plain[d] = sd[d] + cs[d]
        BY <2>3
      <4> QED BY ONLY <4>1, <4>2, SumPlus
    <3> QED BY <1>5, <3>1, <3>2, <3>3, <3>4
  <2>5. PICK h : h = [d \in S |-> Report!DailyReport(d).gross_profit]
    OBVIOUS
  <2>6. h \in [S -> Int] /\ \A d \in S : h[d] = 100 * kept[d]
    <3>1. \A d \in S : Report!DailyReport(d).gross_profit = 100 * kept[d] /\ 100 * kept[d] \in Int
      <4> SUFFICES ASSUME NEW d \in S
                   PROVE  Report!DailyReport(d).gross_profit = 100 * kept[d] /\ 100 * kept[d] \in Int
        OBVIOUS
      <4>1. /\ sd[d] \in Int /\ rd[d] \in Int /\ cs[d] \in Int /\ cr[d] \in Int
            /\ kept[d] = (sd[d] - rd[d]) + (cs[d] + cr[d])
        BY <1>5, <2>3
      <4>2. Report!DailyReport(d).gross_profit = 100 * (sd[d] - rd[d]) - (-100 * (cs[d] + cr[d]))
        BY <1>7, <2>2
      <4> QED BY <4>1, <4>2
    <3> QED BY <2>5, <3>1
  <2>7. SumOf(h) = 100 * SumOf(kept)
    BY <1>2, <2>3, <2>6, SumTimes
  <2>8. PICK t : t = [d \in S |-> Report!TrendDay(d, Window).gross_profit]
    OBVIOUS
  <2>9. t \in [S -> Int] /\ \A d \in S : t[d] = 100 * plain[d]
    <3>1. \A d \in S : Report!TrendDay(d, Window).gross_profit = 100 * plain[d] /\ 100 * plain[d] \in Int
      <4> SUFFICES ASSUME NEW d \in S
                   PROVE  Report!TrendDay(d, Window).gross_profit = 100 * plain[d] /\ 100 * plain[d] \in Int
        OBVIOUS
      <4>1. sd[d] \in Int /\ cs[d] \in Int /\ plain[d] = sd[d] + cs[d]
        BY <1>5, <2>3
      <4>2. Report!TrendDay(d, Window).gross_profit = 100 * sd[d] - (-100 * cs[d])
        BY <1>7, <2>2
      <4> QED BY <4>1, <4>2
    <3> QED BY <2>8, <3>1
  <2>10. SumOf(t) = 100 * SumOf(plain)
    BY <1>2, <2>3, <2>9, SumTimes
  <2>11. w.gross_profit = 100 * sale - (-100 * (costGone + costBack))
    BY <1>6, <2>1
  <2>12. w.gross_profit = 100 * ((sale - refund) + (costGone + costBack)) + 100 * refund
    BY <1>5, <2>11
  <2>13. w.gross_profit = 100 * (sale + costGone) + 100 * costBack
    BY <1>5, <2>11
  <2> QED BY <1>8, <2>4, <2>5, <2>7, <2>8, <2>10, <2>12, <2>13
<1>13. sale = (sale - refund) + refund
  BY <1>5
<1> QED BY <1>1, <1>3, <1>4, <1>6, <1>9, <1>10, <1>11, <1>12, <1>13

(* The day's report and the day's settlement, the cost of goods, the week  *)
(* and its days: the figures add up, in every state of the till, whatever  *)
(* was sold, parked, refunded, recorded elsewhere or voided.               *)
THEOREM ReportsAddUpHolds == Report!Spec => []ReportsAddUp
<1>1. ReportInv => ReportsAddUp
  BY RevenueAdds, CostsAdd, WeekAdds DEF ReportsAddUp, Report!ReportsAddUp
<1> QED BY <1>1, ReportInit, ReportStep, PTL DEF Report!Spec

-----------------------------------------------------------------------------
(* A past day.                                                             *)

KnownDays == \A d : Report!AllKnown({d}) => KnownCosts({d})

(* What may change the report of a past day: one of its rows is voided, or *)
(* the offline queue brings one.                                           *)
Reopened(d) ==
  \E i \in DOMAIN ledger' :
     /\ ledger'[i].day \in {d, d - 1}
     /\ \/ ledger'[i].voided /\ ~ledger[i].voided
        \/ i \notin DOMAIN ledger /\ ledger'[i].channel = "offline"

(* A row that counts for neither day, or for the same sums as before.      *)
LEMMA RowsStay ==
  ASSUME ReportInv, NEW d \in 1 .. today - 1, [Report!Next]_(Report!vars), ~Reopened(d)
  PROVE  /\ \A i \in DOMAIN ledger : i \in DOMAIN ledger' /\ ledger'[i].day = ledger[i].day
         /\ \A i \in DOMAIN ledger : ledger[i].day \in {d, d - 1} => ledger'[i] = ledger[i]
         /\ \A i \in DOMAIN ledger' : ledger'[i].day \in {d, d - 1} => i \in DOMAIN ledger
<1>1. ledger \in Seq(LedgerRow) /\ today \in Nat \ {0} /\ d \in Nat /\ d < today
  BY DEF ReportInv
<1>2. Len(ledger) \in Nat /\ DOMAIN ledger = 1 .. Len(ledger) /\ \A i \in DOMAIN ledger : ledger[i] \in LedgerRow
  BY <1>1
<1>3. CASE ledger' = ledger
  BY <1>3
<1>4. ASSUME NEW r, Report!Put(r), r.day = today \/ r.channel = "offline"
      PROVE  /\ \A i \in DOMAIN ledger : i \in DOMAIN ledger' /\ ledger'[i] = ledger[i]
             /\ \A i \in DOMAIN ledger' : ledger'[i].day \in {d, d - 1} => i \in DOMAIN ledger
  <2>1. ledger' = Append(ledger, r)
    BY <1>4 DEF Report!Put
  <2>2. /\ DOMAIN ledger' = 1 .. Len(ledger) + 1 /\ ledger'[Len(ledger) + 1] = r
        /\ \A i \in 1 .. Len(ledger) : ledger'[i] = ledger[i]
    BY <1>1, <2>1
  <2>3. ASSUME NEW i \in DOMAIN ledger', ledger'[i].day \in {d, d - 1}, i \notin DOMAIN ledger
        PROVE  FALSE
    <3>1. i = Len(ledger) + 1
      BY <1>2, <2>2, <2>3
    <3>2. r.day # today
      BY <1>1, <2>2, <2>3, <3>1
    <3>3. Reopened(d)
      BY <1>4, <2>2, <2>3, <3>1, <3>2 DEF Reopened
    <3> QED BY <3>3
  <2> QED BY <1>2, <2>2, <2>3
<1>5. CASE \E p \in Product, a \in Discounts, c \in Costs \cup {NoCost} : Report!Create(p, a, c)
  <2>1. \E r : Report!Put(r) /\ r.day = today
    BY <1>5 DEF Report!Create, Report!Row
  <2> QED BY <1>4, <2>1
<1>6. CASE \E i \in DOMAIN slips, a \in Discounts, c \in Costs \cup {NoCost} : Report!Resume(i, a, c)
  <2>1. \E r : Report!Put(r) /\ r.day = today
    BY <1>6 DEF Report!Resume, Report!Row, Report!SoldOn
  <2> QED BY <1>4, <2>1
<1>7. CASE \E i \in DOMAIN slips, k \in 1 .. PerRow, restock \in BOOLEAN : Report!Refund(i, k, restock)
  <2>1. \E r : Report!Put(r) /\ r.day = today
    BY <1>7 DEF Report!Refund, Report!Row
  <2> QED BY <1>4, <2>1
<1>8. CASE \E e \in Recorded, p \in Product, n \in 1 .. Days, a \in Amounts, c \in Costs \cup {NoCost} :
              Report!Record(e[1], p, e[2], n, a, c)
  <2>1. PICK e \in Recorded, p \in Product, n \in 1 .. Days, a \in Amounts, c \in Costs \cup {NoCost} :
               Report!Record(e[1], p, e[2], n, a, c)
    BY <1>8
  <2>2. PICK r : Report!Put(r) /\ r.day = n /\ r.channel = e[2] /\ (e[2] = "voice" => n = today)
    BY <2>1 DEF Report!Record, Report!Row
  <2>3. e[2] \in {"voice", "offline"}
    BY SumsAreWhole
  <2>4. r.day = today \/ r.channel = "offline"
    BY <2>2, <2>3
  <2> QED BY <1>4, <2>2, <2>4
<1>9. CASE \E i \in DOMAIN ledger : Report!Void(i)
  <2>1. PICK i \in DOMAIN ledger : ~ledger[i].voided /\ ledger' = [ledger EXCEPT ![i].voided = TRUE]
    BY <1>9 DEF Report!Void
  <2>2. ledger[i] \in LedgerRow
    BY <1>2
  <2>3. /\ DOMAIN ledger' = DOMAIN ledger /\ ledger'[i] = [ledger[i] EXCEPT !.voided = TRUE]
        /\ \A j \in DOMAIN ledger : j # i => ledger'[j] = ledger[j]
    BY <2>1
  <2>4. ledger'[i].voided /\ ledger'[i].day = ledger[i].day
    BY <2>2, <2>3 DEF LedgerRow
  <2>5. ledger[i].day \notin {d, d - 1}
    BY <2>1, <2>3, <2>4 DEF Reopened
  <2> QED BY <2>3, <2>4, <2>5
<1>10. CASE \/ \E p \in Product, a \in Discounts : Report!Hold(p, a)
            \/ \E i \in DOMAIN slips : Report!CancelHeld(i)
            \/ Report!NextDay \/ UNCHANGED Report!vars
  <2>1. ledger' = ledger
    BY <1>10 DEF Report!Hold, Report!CancelHeld, Report!NextDay, Report!vars
  <2> QED BY <1>3, <2>1
<1> QED BY <1>5, <1>6, <1>7, <1>8, <1>9, <1>10, Zenon DEF Report!Next

LEMMA DayStays ==
  ASSUME ReportInv, KnownDays, ReportInv', KnownDays', NEW d \in 1 .. today - 1,
         [Report!Next]_(Report!vars), ~Reopened(d), Report!AllKnown({d})
  PROVE  Report!DailyReport(d)' = Report!DailyReport(d)
<1>1. /\ \A i \in DOMAIN ledger : i \in DOMAIN ledger' /\ ledger'[i].day = ledger[i].day
      /\ \A i \in DOMAIN ledger : ledger[i].day \in {d, d - 1} => ledger'[i] = ledger[i]
      /\ \A i \in DOMAIN ledger' : ledger'[i].day \in {d, d - 1} => i \in DOMAIN ledger
  BY RowsStay
<1>2. ASSUME NEW e \in {d, d - 1}, NEW kind
      PROVE  /\ Report!In({e}, kind)' = Report!In({e}, kind)
             /\ \A i \in Report!In({e}, kind) : ledger'[i] = ledger[i]
  BY <1>1, <1>2 DEF Report!In
<1>3. ASSUME NEW e \in {d, d - 1}, NEW kind
      PROVE  /\ Report!Worth(Report!In({e}, kind))' = Report!Worth(Report!In({e}, kind))
             /\ Report!CostOf(Report!In({e}, kind))' = Report!CostOf(Report!In({e}, kind))
  <2>1. PICK R : R = Report!In({e}, kind)
    OBVIOUS
  <2>2. Report!In({e}, kind)' = R /\ \A i \in R : ledger'[i] = ledger[i]
    BY <1>2, <1>3, <2>1
  <2>3. [x \in R |-> ledger'[x].amount] = [x \in R |-> ledger[x].amount]
    BY <2>2
  <2>4. Report!Worth(Report!In({e}, kind))' = Report!SumOf([x \in R |-> ledger'[x].amount])
    BY <2>2, Zenon DEF Report!Worth, Report!Sum
  <2>5. Report!Worth(Report!In({e}, kind)) = Report!SumOf([x \in R |-> ledger[x].amount])
    BY <2>1, Zenon DEF Report!Worth, Report!Sum
  <2>6. {i \in R : Report!Known(ledger'[i].cost)} = {i \in R : Report!Known(ledger[i].cost)}
    BY <2>2
  <2>7. PICK Q : Q = {i \in R : Report!Known(ledger[i].cost)}
    OBVIOUS
  <2>8. [x \in Q |-> ledger'[x].qty * ledger'[x].cost] = [x \in Q |-> ledger[x].qty * ledger[x].cost]
    BY <2>2, <2>7
  <2>9. Report!CostOf(Report!In({e}, kind))' = Report!SumOf([x \in Q |-> ledger'[x].qty * ledger'[x].cost])
    <3>1. Report!Priced(Report!In({e}, kind))' = {i \in R : Report!Known(ledger'[i].cost)}
      BY <2>2, Zenon DEF Report!Priced
    <3>2. Report!Priced(Report!In({e}, kind))' = Q
      BY <2>6, <2>7, <3>1
    <3> QED BY <3>2, Zenon DEF Report!CostOf, Report!Sum
  <2>10. Report!CostOf(Report!In({e}, kind)) = Report!SumOf([x \in Q |-> ledger[x].qty * ledger[x].cost])
    BY <2>1, <2>7, Zenon DEF Report!CostOf, Report!Sum, Report!Priced
  <2> QED BY <2>3, <2>4, <2>5, <2>8, <2>9, <2>10
<1>4. Report!AllKnown({d})'
  BY <1>2 DEF Report!AllKnown
<1>5. KnownCosts({d}) /\ KnownCosts({d})'
  BY <1>4 DEF KnownDays
<1>6. Report!EstimateCogs({d}, Window)' = Report!EstimateCogs({d}, Window)
  <2>1. Report!EstimateCogs({d}, Window) = -100 * (Report!CostOf(Report!In({d}, "sale"))
                                                      + Report!CostOf(Report!In({d}, "refund")))
    BY <1>5 DEF KnownCosts
  <2>2. Report!EstimateCogs({d}, Window)' = -100 * (Report!CostOf(Report!In({d}, "sale"))'
                                                       + Report!CostOf(Report!In({d}, "refund"))')
    BY <1>5 DEF KnownCosts
  <2> QED BY <1>3, <2>1, <2>2
<1>7. /\ Report!Worth(Report!In({d}, "sale"))' = Report!Worth(Report!In({d}, "sale"))
      /\ Report!Worth(Report!In({d}, "refund"))' = Report!Worth(Report!In({d}, "refund"))
      /\ Report!Worth(Report!In({d}, "purchase"))' = Report!Worth(Report!In({d}, "purchase"))
      /\ Report!Worth(Report!In({d}, "waste"))' = Report!Worth(Report!In({d}, "waste"))
      /\ Report!Worth(Report!In({d - 1}, "sale"))' = Report!Worth(Report!In({d - 1}, "sale"))
  BY <1>3
<1> QED BY <1>6, <1>7 DEF Report!DailyReport

(* While the costs of a past day's goods are known, its report changes     *)
(* only when one of its rows is voided or an offline row of it comes in.   *)
THEOREM PastReportsStand == Report!Spec => Report!PastStands
<1> DEFINE Stands == \A d \in 1 .. today - 1 :
                        \/ ~Report!AllKnown({d})
                        \/ Reopened(d)
                        \/ Report!DailyReport(d)' = Report!DailyReport(d)
<1>1. ReportInv => KnownDays
  BY KnownAreSums DEF KnownDays
<1>2. ReportInv /\ KnownDays /\ ReportInv' /\ KnownDays' /\ [Report!Next]_(Report!vars) => Stands
  BY DayStays
<1>3. Stands <=> \A d \in 1 .. today - 1 :
                   \/ ~Report!AllKnown({d})
                   \/ \E i \in DOMAIN ledger' :
                         /\ ledger'[i].day \in {d, d - 1}
                         /\ \/ ledger'[i].voided /\ ~ledger[i].voided
                            \/ i \notin DOMAIN ledger /\ ledger'[i].channel = "offline"
                   \/ Report!DailyReport(d)' = Report!DailyReport(d)
  BY Zenon DEF Reopened
<1> QED BY <1>1, <1>2, <1>3, ReportInit, ReportStep, PTL DEF Report!Spec, Report!PastStands

=============================================================================
