-------------------------- MODULE BackroomProofs ---------------------------
(***************************************************************************)
(* What modules Backroom and BackOffice state of stocktakes, purchases,    *)
(* subscriptions, units and prices, for any number of products, sessions,  *)
(* items, lists and payments.                                              *)
(***************************************************************************)
EXTENDS Backroom, BackOffice, AllocationProofs

-----------------------------------------------------------------------------
(* A row holds no more than all of them.                                   *)
LEMMA PartOfSum ==
  ASSUME NEW S, IsFiniteSet(S), NEW f \in [S -> Nat], NEW x \in S
  PROVE  f[x] <= SumOf(f)
<1> DEFINE g == [y \in S |-> IF y = x THEN 0 ELSE f[y]]
<1>1. /\ f \in [S -> Int] /\ g \in [S -> Int] /\ g \in [S -> Nat]
      /\ g[x] = 0 /\ \A y \in S \ {x} : f[y] = g[y]
  OBVIOUS
<1> HIDE DEF g
<1>2. SumOf(g) = SumOf(f) + g[x] - f[x]
  BY <1>1, SumUpdate
<1>3. SumOf(g) \in Nat /\ SumOf(f) \in Nat /\ f[x] \in Nat
  BY <1>1, SumNat
<1> QED BY <1>1, <1>2, <1>3

-----------------------------------------------------------------------------
(* Stocktakes: types                                                       *)

Entry == [qty : Int, book : Int]

SessionRow == [status : {"none", "in_progress", "completed", "cancelled"},
             snap : [Product -> Int], count : [Product -> Entry]]

Call == [session : 0 .. MaxSessions, product : Product \cup {"none"},
         count : Entry, phase : {"quiet", "sent", "saved"}]

Row == [session : Count!Session, product : Product, qty : Int, voided : BOOLEAN]

GoodsType ==
  /\ shelf \in [Product -> Int] /\ book \in [Product -> Int]
  /\ bought \in [Product -> Int] /\ batches \in [Product -> Int]

CountType ==
  /\ GoodsType
  /\ starting \in [{1, 2} -> [reading : BOOLEAN, snap : [Product -> Int]]]
  /\ sessions \in [Count!Session -> SessionRow]
  /\ rows \subseteq Row
  /\ page \in [session : 0 .. MaxSessions, submit : Call, flush : Call,
               kept : [Count!Session -> [Product -> Entry]]]

LEMMA CountTypeInit == Count!Init => CountType
<1> SUFFICES ASSUME Count!Init PROVE CountType
  OBVIOUS
<1>1. GoodsType
  BY BackroomConstants DEF Count!Init, GoodsType
<1>2. Count!None \in Entry
  BY DEF Count!None, Entry
<1>3. starting \in [{1, 2} -> [reading : BOOLEAN, snap : [Product -> Int]]]
  BY DEF Count!Init, Count!Idle
<1>4. sessions \in [Count!Session -> SessionRow]
  BY <1>2 DEF Count!Init, Count!Unused, SessionRow
<1>5. Count!Quiet \in Call
  BY <1>2, BackroomConstants DEF Count!Quiet, Call
<1>6. page \in [session : 0 .. MaxSessions, submit : Call, flush : Call,
               kept : [Count!Session -> [Product -> Entry]]]
  BY <1>2, <1>5, BackroomConstants DEF Count!Init
<1> QED BY <1>1, <1>3, <1>4, <1>6 DEF CountType, Count!Init

(* The row that completing session s books for product p.                  *)
Difference(s, p) ==
  [session |-> s, product |-> p, qty |-> Count!Variance(s, p), voided |-> FALSE]

(* What completing a session does.                                         *)
LEMMA CompleteAdjusts ==
  ASSUME NEW s, Count!Complete(s)
  PROVE  /\ book' = [p \in Product |-> book[p] + Count!Variance(s, p)]
         /\ bought' = [p \in Product |-> bought[p] + Count!Surplus(Count!Variance(s, p))]
         /\ batches' = [p \in Product |->
              batches[p] + Count!Surplus(Count!Variance(s, p))
              - (IF Count!Variance(s, p) < 0
                 THEN Count!Consume(p, -Count!Variance(s, p)) ELSE 0)]
         /\ rows' = rows \cup {Difference(s, p) : p \in {q \in Product : Count!Variance(s, q) # 0}}
         /\ sessions' = [sessions EXCEPT ![s].status = "completed"]
         /\ sessions[s].status = "in_progress"
         /\ UNCHANGED <<shelf, starting>>
<1> DEFINE v == [p \in Product |-> Count!Variance(s, p)]
<1>1. Count!Adjust(s)
  BY DEF Count!Complete
<1>2. /\ book' = [p \in Product |-> book[p] + Count!Variance(s, p)]
      /\ bought' = [p \in Product |-> bought[p] + Count!Surplus(Count!Variance(s, p))]
      /\ batches' = [p \in Product |->
           batches[p] + Count!Surplus(Count!Variance(s, p))
           - (IF Count!Variance(s, p) < 0
              THEN Count!Consume(p, -Count!Variance(s, p)) ELSE 0)]
  BY <1>1 DEF Count!Adjust, Count!Booked
<1>3. rows' = rows \cup {[session |-> s, product |-> p, qty |-> v[p], voided |-> FALSE]
                            : p \in {q \in Product : v[q] # 0}}
  BY <1>1 DEF Count!Adjust
<1>4. {q \in Product : v[q] # 0} = {q \in Product : Count!Variance(s, q) # 0}
  OBVIOUS
<1>5. {[session |-> s, product |-> p, qty |-> v[p], voided |-> FALSE]
         : p \in {q \in Product : v[q] # 0}}
      = {Difference(s, p) : p \in {q \in Product : Count!Variance(s, q) # 0}}
  <2>1. \A p \in Product : [session |-> s, product |-> p, qty |-> v[p], voided |-> FALSE]
                           = Difference(s, p)
    BY DEF Difference
  <2> HIDE DEF v
  <2> QED BY <1>4, <2>1
<1> QED BY <1>2, <1>3, <1>5 DEF Count!Complete, Count!MayComplete

LEMMA CountTypeStep ==
  ASSUME CountType, [Count!Next]_(Count!vars)
  PROVE  CountType'
<1> USE DEF CountType
<1>0. MaxSessions \in Nat /\ Count!None \in Entry /\ Count!Quiet \in Call
  BY BackroomConstants DEF Count!None, Entry, Count!Quiet, Call
<1>1. CASE UNCHANGED Count!vars
  BY <1>1 DEF Count!vars, Count!goods, GoodsType
<1>2. ASSUME NEW p \in Product, Count!Buy(p) \/ Count!Sell(p) \/ Count!Shrink(p) \/ Count!Find(p)
      PROVE  CountType'
  <2>1. UNCHANGED <<starting, sessions, rows, page>>
    BY <1>2 DEF Count!Buy, Count!Sell, Count!Shrink, Count!Find, Count!Moving
  <2>2. GoodsType'
    BY <1>2 DEF Count!Buy, Count!Sell, Count!Shrink, Count!Find, GoodsType
  <2> QED BY <2>1, <2>2
<1>3. ASSUME NEW p \in Product, Count!Count(p) PROVE CountType'
  <2>1. UNCHANGED <<shelf, book, bought, batches, starting, sessions, rows>>
    BY <1>3 DEF Count!Count, Count!goods
  <2>2. [session |-> page.session, product |-> p, phase |-> "sent",
         count |-> [qty |-> shelf[p], book |-> book[p]]] \in Call
    BY DEF Call, Entry, GoodsType
  <2>3. page' = [page EXCEPT !.submit =
                   [session |-> page.session, product |-> p, phase |-> "sent",
                    count |-> [qty |-> shelf[p], book |-> book[p]]]]
    BY <1>3 DEF Count!Count
  <2> QED BY <2>1, <2>2, <2>3 DEF GoodsType
<1>4. ASSUME NEW p \in Product, Count!Flush(p) PROVE CountType'
  <2>1. UNCHANGED <<shelf, book, bought, batches, starting, sessions, rows>>
    BY <1>4 DEF Count!Flush, Count!goods
  <2>2. page.session \in Count!Session
    BY <1>4, <1>0 DEF Count!Flush, Count!Session
  <2>3. [session |-> page.session, product |-> p, phase |-> "sent",
         count |-> page.kept[page.session][p]] \in Call
    BY <2>2 DEF Call
  <2>4. page' = [page EXCEPT !.flush =
                   [session |-> page.session, product |-> p, phase |-> "sent",
                    count |-> page.kept[page.session][p]]]
    BY <1>4 DEF Count!Flush
  <2> QED BY <2>1, <2>3, <2>4 DEF GoodsType
<1>5. ASSUME NEW i \in {1, 2}, Count!BeginStart(i) PROVE CountType'
  BY <1>5 DEF Count!BeginStart, Count!goods, GoodsType
<1>6. ASSUME NEW i \in {1, 2}, NEW s \in Count!Session, Count!InsertSession(i, s)
      PROVE  CountType'
  <2>1. UNCHANGED <<shelf, book, bought, batches, rows>>
    BY <1>6 DEF Count!InsertSession, Count!goods
  <2>2. [Count!Unused EXCEPT !.status = "in_progress", !.snap = starting[i].snap] \in SessionRow
    BY <1>0 DEF Count!Unused, SessionRow
  <2>3. /\ sessions' = [sessions EXCEPT ![s] =
                          [Count!Unused EXCEPT !.status = "in_progress", !.snap = starting[i].snap]]
        /\ starting' = [starting EXCEPT ![i] = Count!Idle]
        /\ page' = [page EXCEPT !.session = s]
    BY <1>6 DEF Count!InsertSession
  <2>4. Count!Idle \in [reading : BOOLEAN, snap : [Product -> Int]]
    BY DEF Count!Idle
  <2>5. s \in 0 .. MaxSessions
    BY <1>0 DEF Count!Session
  <2> QED BY <2>1, <2>2, <2>3, <2>4, <2>5 DEF GoodsType
<1>7. ASSUME NEW s \in Count!Session, Count!Cancel(s) PROVE CountType'
  <2>1. sessions' \in [Count!Session -> SessionRow]
    BY <1>7 DEF Count!Cancel, SessionRow
  <2> QED BY <1>7, <2>1 DEF Count!Cancel, Count!goods, GoodsType
<1>8. ASSUME NEW s \in Count!Session, Count!Complete(s) PROVE CountType'
  <2>1. \A p \in Product : Count!Variance(s, p) \in Int
    BY DEF Count!Variance, SessionRow, Entry
  <2>2. GoodsType'
    <3>2. \A p \in Product : /\ Count!Surplus(Count!Variance(s, p)) \in Int
                             /\ Count!Consume(p, -Count!Variance(s, p)) \in Int
      BY <2>1 DEF GoodsType, Count!Surplus, Count!Consume, Count!Least
    <3>3. book' \in [Product -> Int] /\ bought' \in [Product -> Int]
      BY <2>1, <1>8, <3>2, CompleteAdjusts DEF GoodsType
    <3>4. batches' \in [Product -> Int]
      BY <1>8, <3>2, CompleteAdjusts DEF GoodsType
    <3> QED BY <1>8, <3>3, <3>4, CompleteAdjusts DEF GoodsType
  <2>3. rows' \subseteq Row
    <3>1. \A p \in Product : Difference(s, p) \in Row
      BY <2>1 DEF Difference, Row
    <3> QED BY <1>8, <3>1, CompleteAdjusts
  <2>4. sessions' \in [Count!Session -> SessionRow]
    <3>1. sessions' = [sessions EXCEPT ![s].status = "completed"]
      BY <1>8, CompleteAdjusts
    <3> QED BY <3>1 DEF SessionRow
  <2>5. page' = [page EXCEPT !.kept[s] = [p \in Product |-> Count!None]]
    BY <1>8 DEF Count!Complete
  <2>6. UNCHANGED starting
    BY <1>8 DEF Count!Complete
  <2> QED BY <1>0, <2>2, <2>3, <2>4, <2>5, <2>6
<1>9. ASSUME NEW s \in Count!Session, Count!OpenPage(s) PROVE CountType'
  <2>1. s \in 0 .. MaxSessions
    BY <1>0 DEF Count!Session
  <2> QED BY <1>9, <2>1 DEF Count!OpenPage, Count!goods, GoodsType
<1>10. ASSUME NEW r \in rows, Count!VoidAdjustment(r) PROVE CountType'
  <2>1. r \in Row
    OBVIOUS
  <2>2. GoodsType'
    BY <1>10, <2>1 DEF Count!VoidAdjustment, Count!Least, GoodsType, Row
  <2>3. rows' \subseteq Row
    BY <1>10, <2>1 DEF Count!VoidAdjustment, Row
  <2> QED BY <1>10, <2>2, <2>3 DEF Count!VoidAdjustment
<1>11. ASSUME NEW ch \in {"submit", "flush"}, Count!Submit(ch) PROVE CountType'
  <2>1. page[ch] \in Call /\ UNCHANGED <<shelf, book, bought, batches, starting, rows>>
    BY <1>11 DEF Count!Submit, Count!goods
  <2>2. sessions' = [sessions EXCEPT ![page[ch].session].count[page[ch].product] = page[ch].count]
    BY <1>11 DEF Count!Submit, Count!Record
  <2>3. page[ch].count \in Entry
    BY <2>1 DEF Call
  <2>4. sessions' \in [Count!Session -> SessionRow]
    BY ZenonT(40), <2>2, <2>3 DEF SessionRow
  <2>5. page' = [page EXCEPT ![ch].phase = "saved"]
    BY <1>11 DEF Count!Submit
  <2>6. [page[ch] EXCEPT !.phase = "saved"] \in Call
    BY <2>1 DEF Call
  <2>7. page' \in [session : 0 .. MaxSessions, submit : Call, flush : Call,
                   kept : [Count!Session -> [Product -> Entry]]]
    BY <2>5, <2>6
  <2> QED BY <2>1, <2>4, <2>7 DEF GoodsType
<1>12. ASSUME NEW ch \in {"submit", "flush"}, Count!Saved(ch) PROVE CountType'
  <2>1. UNCHANGED <<shelf, book, bought, batches, starting, sessions, rows>>
    BY <1>12 DEF Count!Saved, Count!goods
  <2>2. page' = [page EXCEPT ![ch] = Count!Quiet,
                             !.kept[Count!KeptUnder(ch)][page[ch].product] = Count!None]
    BY <1>12 DEF Count!Saved
  <2>3. page' \in [session : 0 .. MaxSessions, submit : Call, flush : Call,
                   kept : [Count!Session -> [Product -> Entry]]]
    BY <1>0, <2>2
  <2> QED BY <2>1, <2>3 DEF GoodsType
<1>13. ASSUME NEW ch \in {"submit", "flush"}, Count!Failed(ch) PROVE CountType'
  <2>1. UNCHANGED <<shelf, book, bought, batches, starting, sessions, rows>>
    BY <1>13 DEF Count!Failed, Count!goods
  <2>2. \/ page' = [page EXCEPT !.flush = Count!Quiet]
        \/ page' = [page EXCEPT !.submit = Count!Quiet,
                      !.kept[Count!KeptUnder(ch)][page.submit.product] = page.submit.count]
    BY <1>13 DEF Count!Failed
  <2>3. page.submit.count \in Entry
    BY DEF Call
  <2>4. page' \in [session : 0 .. MaxSessions, submit : Call, flush : Call,
                   kept : [Count!Session -> [Product -> Entry]]]
    <3>1. CASE page' = [page EXCEPT !.flush = Count!Quiet]
      BY <1>0, <3>1
    <3>2. CASE page' = [page EXCEPT !.submit = Count!Quiet,
                          !.kept[Count!KeptUnder(ch)][page.submit.product] = page.submit.count]
      <4> DEFINE x == Count!KeptUnder(ch)
                 y == page.submit.product
                 c == page.submit.count
      <4>1. [page.kept EXCEPT ![x][y] = c] \in [Count!Session -> [Product -> Entry]]
        BY <2>3
      <4>2. page' = [page EXCEPT !.submit = Count!Quiet, !.kept = [page.kept EXCEPT ![x][y] = c]]
        BY <3>2
      <4> HIDE DEF x, y, c
      <4> QED BY <1>0, <4>1, <4>2
    <3> QED BY <2>2, <3>1, <3>2
  <2> QED BY <2>1, <2>4 DEF GoodsType
<1> HIDE DEF CountType
<1> QED BY <1>1, <1>2, <1>3, <1>4, <1>5, <1>6, <1>7, <1>8, <1>9, <1>10, <1>11, <1>12, <1>13
        DEF Count!Next

-----------------------------------------------------------------------------
(* Stocktakes: the invariant.  A loss that is voided brings its goods back *)
(* to the ledger, and they have to find room in the batches: the ledger    *)
(* and the losses booked by the sessions never exceed what was bought.     *)

LossIn(s, p) ==
  IF \E r \in rows : r.session = s /\ r.product = p /\ ~r.voided
  THEN Larger(0 - Count!Variance(s, p), 0) ELSE 0

Losses(p) == SumOf([s \in Count!Session |-> LossIn(s, p)])

LossesHaveRoom == \A p \in Product : book[p] + Losses(p) <= bought[p]

CountInv ==
  /\ CountType
  /\ Count!LedgerIsBacked
  /\ Count!RowsMatchCounts
  /\ LossesHaveRoom

LEMMA SessionsFinite == IsFiniteSet(Count!Session)
  BY BackroomConstants, FS_Interval DEF Count!Session

LEMMA VarianceInt ==
  ASSUME CountType, NEW s \in Count!Session, NEW p \in Product
  PROVE  Count!Variance(s, p) \in Int
  BY DEF CountType, Count!Variance, SessionRow, Entry

LEMMA LossNat ==
  ASSUME CountType, NEW p \in Product
  PROVE  /\ \A s \in Count!Session : LossIn(s, p) \in Nat
         /\ Losses(p) \in Nat
<1>1. ASSUME NEW s \in Count!Session PROVE LossIn(s, p) \in Nat
  BY VarianceInt DEF LossIn, Larger
<1> DEFINE loss == [s \in Count!Session |-> LossIn(s, p)]
<1>2. loss \in [Count!Session -> Nat]
  BY <1>1
<1> HIDE DEF loss
<1>3. SumOf(loss) \in Nat
  BY <1>2, SessionsFinite, SumNat
<1> QED BY <1>1, <1>3 DEF Losses, loss

(* While the rows stay and completed sessions keep their counts, what was  *)
(* said of them stays true.                                                *)
LEMMA RowsKept ==
  ASSUME CountType, Count!RowsMatchCounts, rows' = rows,
         \A s \in Count!Session : sessions[s].status = "completed" => sessions'[s] = sessions[s]
  PROVE  /\ Count!RowsMatchCounts'
         /\ \A p \in Product : Losses(p)' = Losses(p)
<1>1. ASSUME NEW r \in rows
      PROVE  r.session \in Count!Session /\ sessions'[r.session] = sessions[r.session]
  BY DEF CountType, Row, Count!RowsMatchCounts
<1>2. Count!RowsMatchCounts'
  BY <1>1 DEF Count!RowsMatchCounts, Count!Variance
<1>3. ASSUME NEW p \in Product, NEW s \in Count!Session PROVE LossIn(s, p)' = LossIn(s, p)
  BY <1>1 DEF LossIn, Count!Variance
<1>4. ASSUME NEW p \in Product PROVE Losses(p)' = Losses(p)
  <2>1. [s \in Count!Session |-> LossIn(s, p)]' = [s \in Count!Session |-> LossIn(s, p)]
    BY <1>3
  <2> QED BY <2>1 DEF Losses
<1> QED BY <1>2, <1>4

LEMMA CountInvInit == Count!Init => CountInv
<1> SUFFICES ASSUME Count!Init PROVE CountInv
  OBVIOUS
<1>1. CountType
  BY CountTypeInit
<1>2. rows = {} /\ \A p \in Product : /\ shelf[p] = Opening /\ book[p] = Opening
                                      /\ bought[p] = Opening /\ batches[p] = Opening
  BY DEF Count!Init
<1>3. Count!LedgerIsBacked
  BY <1>2, BackroomConstants DEF Count!LedgerIsBacked
<1>4. Count!RowsMatchCounts
  BY <1>2 DEF Count!RowsMatchCounts
<1>5. ASSUME NEW p \in Product PROVE Losses(p) = 0
  <2> DEFINE loss == [s \in Count!Session |-> LossIn(s, p)]
  <2>1. loss \in [Count!Session -> Int] /\ \A s \in Count!Session : loss[s] = 0
    BY <1>2 DEF LossIn
  <2> HIDE DEF loss
  <2>2. SumOf(loss) = 0
    BY <2>1, SessionsFinite, SumZero
  <2> QED BY <2>2 DEF Losses, loss
<1>6. LossesHaveRoom
  BY <1>2, <1>5, BackroomConstants DEF LossesHaveRoom
<1> QED BY <1>1, <1>3, <1>4, <1>6 DEF CountInv

(* Goods are bought, sold, lost and found.                                 *)
LEMMA MovesKeep ==
  ASSUME CountInv, NEW p \in Product,
         Count!Buy(p) \/ Count!Sell(p) \/ Count!Shrink(p) \/ Count!Find(p)
  PROVE  Count!LedgerIsBacked' /\ Count!RowsMatchCounts' /\ LossesHaveRoom'
<1> USE DEF CountInv
<1>1. rows' = rows /\ sessions' = sessions
  BY DEF Count!Buy, Count!Sell, Count!Shrink, Count!Find, Count!Moving
<1>2. Count!RowsMatchCounts' /\ \A q \in Product : Losses(q)' = Losses(q)
  BY <1>1, RowsKept
<1>3. \A q \in Product : Losses(q) \in Nat
  BY LossNat
<1>4. \A q \in Product : book[q] \in Int /\ bought[q] \in Int /\ batches[q] \in Int
  BY DEF CountType, GoodsType
<1>5. \A q \in Product :
        \/ book'[q] = book[q] /\ bought'[q] = bought[q] /\ batches'[q] = batches[q]
        \/ book'[q] = book[q] + 1 /\ bought'[q] = bought[q] + 1 /\ batches'[q] = batches[q] + 1
        \/ /\ book'[q] = book[q] - 1 /\ bought'[q] = bought[q] /\ batches'[q] = batches[q] - 1
           /\ batches[q] > 0
  BY DEF CountType, GoodsType, Count!Buy, Count!Sell, Count!Shrink, Count!Find
<1>6. Count!LedgerIsBacked'
  BY <1>4, <1>5 DEF Count!LedgerIsBacked
<1>7. LossesHaveRoom'
  BY <1>2, <1>3, <1>4, <1>5 DEF LossesHaveRoom
<1> QED BY <1>2, <1>6, <1>7

(* The shelf, the ledger and the batches stay, and so do the counts of     *)
(* completed sessions.                                                     *)
LEMMA GoodsKept ==
  ASSUME CountInv, rows' = rows, UNCHANGED <<book, bought, batches>>,
         \A s \in Count!Session : sessions[s].status = "completed" => sessions'[s] = sessions[s]
  PROVE  Count!LedgerIsBacked' /\ Count!RowsMatchCounts' /\ LossesHaveRoom'
<1> USE DEF CountInv
<1>1. Count!RowsMatchCounts' /\ \A q \in Product : Losses(q)' = Losses(q)
  BY RowsKept
<1>2. Count!LedgerIsBacked'
  BY DEF Count!LedgerIsBacked
<1>3. LossesHaveRoom'
  BY <1>1 DEF LossesHaveRoom
<1> QED BY <1>1, <1>2, <1>3

(* Completing a session.                                                   *)
LEMMA CompleteKeeps ==
  ASSUME CountInv, NEW s \in Count!Session, Count!Complete(s)
  PROVE  Count!LedgerIsBacked' /\ Count!RowsMatchCounts' /\ LossesHaveRoom'
<1> USE DEF CountInv
<1> DEFINE v(p) == Count!Variance(s, p)
           new == {Difference(s, p) : p \in {q \in Product : v(q) # 0}}
<1>0. /\ book' = [p \in Product |-> book[p] + v(p)]
      /\ bought' = [p \in Product |-> bought[p] + Count!Surplus(v(p))]
      /\ batches' = [p \in Product |->
           batches[p] + Count!Surplus(v(p)) - (IF v(p) < 0 THEN Count!Consume(p, -v(p)) ELSE 0)]
      /\ rows' = rows \cup new
      /\ sessions' = [sessions EXCEPT ![s].status = "completed"]
      /\ sessions[s].status = "in_progress"
  BY CompleteAdjusts
<1>1. \A r \in rows : r \in Row /\ sessions[r.session].status = "completed" /\ r.session # s
  BY <1>0 DEF CountType, Count!RowsMatchCounts
<1>2. \A t \in Count!Session : /\ t # s => sessions'[t] = sessions[t]
                               /\ sessions'[t].count = sessions[t].count
                               /\ sessions'[t].snap = sessions[t].snap
                               /\ sessions'[s].status = "completed"
  BY <1>0 DEF CountType, SessionRow
<1>3. \A t \in Count!Session, p \in Product : Count!Variance(t, p)' = Count!Variance(t, p)
  BY <1>2 DEF Count!Variance
<1>4. \A p \in Product : v(p) \in Int
  BY VarianceInt
<1>5. \A r \in new : /\ r.session = s /\ r.product \in Product /\ r.qty = v(r.product)
                     /\ ~r.voided /\ r = Difference(s, r.product)
  BY DEF Difference
<1>6. \A p \in Product : v(p) # 0 => Difference(s, p) \in new
  OBVIOUS
<1> HIDE DEF new
<1>7. Count!RowsMatchCounts'
  <2>1. ASSUME NEW r \in rows'
        PROVE  sessions'[r.session].status = "completed" /\ r.qty = Count!Variance(r.session, r.product)'
    <3>1. CASE r \in rows
      <4>1. r.session \in Count!Session /\ r.product \in Product
        BY <1>1, <3>1 DEF Row
      <4> QED BY <1>1, <1>2, <1>3, <3>1, <4>1 DEF Count!RowsMatchCounts
    <3>2. CASE r \in new
      BY <1>2, <1>3, <1>5, <3>2
    <3> QED BY <1>0, <3>1, <3>2
  <2>2. ASSUME NEW r \in rows', NEW q \in rows', r.session = q.session, r.product = q.product
        PROVE  r = q
    BY <1>0, <1>1, <1>5, <2>2 DEF Count!RowsMatchCounts
  <2> QED BY <2>1, <2>2 DEF Count!RowsMatchCounts
<1>8. ASSUME NEW p \in Product PROVE Losses(p)' = Losses(p) + Larger(0 - v(p), 0)
  <2> DEFINE f == [t \in Count!Session |-> LossIn(t, p)]
             g == [t \in Count!Session |-> LossIn(t, p)']
  <2>1. f[s] = 0
    BY <1>1 DEF LossIn
  <2>2. g[s] = Larger(0 - v(p), 0)
    <3>1. CASE v(p) # 0
      <4>1. /\ Difference(s, p) \in rows' /\ Difference(s, p).session = s
            /\ Difference(s, p).product = p /\ ~Difference(s, p).voided
        BY <1>0, <1>6, <3>1 DEF Difference
      <4>2. LossIn(s, p)' = Larger(0 - v(p), 0)
        BY <1>3, <4>1 DEF LossIn
      <4> QED BY <4>2
    <3>2. CASE v(p) = 0
      <4>1. Count!Variance(s, p)' = 0
        BY <1>3, <3>2
      <4>2. LossIn(s, p)' = 0
        BY <4>1 DEF LossIn, Larger
      <4> QED BY <3>2, <4>2 DEF Larger
    <3> QED BY <3>1, <3>2
  <2>3. ASSUME NEW t \in Count!Session \ {s} PROVE f[t] = g[t]
    <3>1. \A r : (r \in rows' /\ r.session = t) <=> (r \in rows /\ r.session = t)
      BY <1>0, <1>5
    <3>2. Count!Variance(t, p)' = Count!Variance(t, p)
      BY <1>3
    <3>3. LossIn(t, p)' = LossIn(t, p)
      BY <3>1, <3>2 DEF LossIn
    <3> QED BY <3>3
  <2>4. f \in [Count!Session -> Int] /\ SumOf(f) = Losses(p) /\ Losses(p) \in Nat
    BY LossNat DEF Losses
  <2>5. g \in [Count!Session -> Int]
    <3>1. \A t \in Count!Session : g[t] = f[t] \/ g[t] = Larger(0 - v(p), 0)
      BY <2>2, <2>3
    <3>2. Larger(0 - v(p), 0) \in Int
      BY <1>4 DEF Larger
    <3>3. \A t \in Count!Session : g[t] \in Int
      BY <2>4, <3>1, <3>2
    <3> QED BY <3>3
  <2>6. Losses(p)' = SumOf(g)
    BY DEF Losses
  <2> HIDE DEF f, g
  <2>7. SumOf(g) = SumOf(f) + g[s] - f[s]
    BY <2>3, <2>4, <2>5, SessionsFinite, SumUpdate
  <2>8. Larger(0 - v(p), 0) \in Int
    BY <1>4 DEF Larger
  <2> HIDE DEF v
  <2> QED BY <2>1, <2>2, <2>4, <2>6, <2>7, <2>8
<1>9. ASSUME NEW p \in Product
      PROVE  /\ book'[p] <= batches'[p] /\ batches'[p] \in 0 .. bought'[p]
             /\ book'[p] + Losses(p)' <= bought'[p]
  <2>1. /\ book[p] \in Int /\ bought[p] \in Int /\ batches[p] \in Int /\ v(p) \in Int
        /\ Losses(p) \in Nat
    BY <1>4, LossNat DEF CountType, GoodsType
  <2>2. /\ book[p] <= batches[p] /\ batches[p] \in 0 .. bought[p]
        /\ book[p] + Losses(p) <= bought[p]
    BY DEF Count!LedgerIsBacked, LossesHaveRoom
  <2>3. /\ book'[p] = book[p] + v(p)
        /\ bought'[p] = bought[p] + (IF v(p) > 0 THEN v(p) ELSE 0)
        /\ batches'[p] = batches[p] + (IF v(p) > 0 THEN v(p) ELSE 0)
             - (IF v(p) < 0 THEN (IF batches[p] < -v(p) THEN batches[p] ELSE -v(p)) ELSE 0)
    BY <1>0 DEF Count!Surplus, Count!Consume, Count!Least
  <2>4. Losses(p)' = Losses(p) + (IF 0 - v(p) < 0 THEN 0 ELSE 0 - v(p))
    BY <1>8 DEF Larger
  <2> HIDE DEF v
  <2>5. CASE v(p) > 0
    BY <2>1, <2>2, <2>3, <2>4, <2>5
  <2>6. CASE v(p) <= 0
    <3>1. /\ book'[p] = book[p] + v(p) /\ bought'[p] = bought[p]
          /\ Losses(p)' = Losses(p) - v(p)
      BY <2>1, <2>3, <2>4, <2>6
    <3>2. \/ batches'[p] = batches[p] + v(p) /\ ~(batches[p] < -v(p))
          \/ batches'[p] = 0 /\ batches[p] < -v(p)
      BY <2>1, <2>2, <2>3, <2>6
    <3>3. 0 <= batches[p] /\ batches[p] <= bought[p] /\ batches'[p] \in Int
      BY <2>1, <2>2, <3>2
    <3>4. book'[p] <= batches'[p] /\ 0 <= batches'[p] /\ batches'[p] <= bought'[p]
      <4>1. CASE batches'[p] = batches[p] + v(p) /\ ~(batches[p] < -v(p))
        BY <2>1, <2>2, <2>6, <3>1, <3>3, <4>1
      <4>2. CASE batches'[p] = 0 /\ batches[p] < -v(p)
        BY <2>1, <2>2, <2>6, <3>1, <3>3, <4>2
      <4> QED BY <3>2, <4>1, <4>2
    <3>5. book'[p] + Losses(p)' <= bought'[p]
      BY <2>1, <2>2, <3>1
    <3> QED BY <2>1, <3>1, <3>3, <3>4, <3>5
  <2> QED BY <2>1, <2>5, <2>6
<1> QED BY <1>7, <1>9 DEF Count!LedgerIsBacked, LossesHaveRoom

(* A row is voided: a loss gives back what it took, and there is room.     *)
LEMMA VoidKeeps ==
  ASSUME CountInv, NEW r \in rows, Count!VoidAdjustment(r)
  PROVE  Count!LedgerIsBacked' /\ Count!RowsMatchCounts' /\ LossesHaveRoom'
<1> USE DEF CountInv
<1> DEFINE p == r.product
           s == r.session
           void == [r EXCEPT !.voided = TRUE]
<1>0. /\ r \in Row /\ ~r.voided /\ UNCHANGED <<bought, sessions>>
      /\ rows' = (rows \ {r}) \cup {void}
      /\ book' = [book EXCEPT ![p] = @ - r.qty]
      /\ batches' = [batches EXCEPT ![p] =
           @ + (IF r.qty < 0 THEN Count!Least(bought[p] - @, -r.qty) ELSE 0)]
  BY DEF Count!VoidAdjustment, CountType
<1>1. /\ p \in Product /\ s \in Count!Session /\ r.qty \in Int
      /\ r.qty = Count!Variance(s, p) /\ sessions[s].status = "completed"
      /\ void.session = s /\ void.product = p /\ void.qty = r.qty /\ void.voided
  BY <1>0 DEF Row, Count!RowsMatchCounts
<1>2. \A t, q : Count!Variance(t, q)' = Count!Variance(t, q)
  BY <1>0 DEF Count!Variance
<1> HIDE DEF void
<1>3. Count!RowsMatchCounts'
  <2>1. ASSUME NEW q \in rows'
        PROVE  sessions'[q.session].status = "completed" /\ q.qty = Count!Variance(q.session, q.product)'
    BY <1>0, <1>1, <1>2 DEF Count!RowsMatchCounts
  <2>2. ASSUME NEW q \in rows', NEW t \in rows', q.session = t.session, q.product = t.product
        PROVE  q = t
    <3>1. \A u \in rows \ {r} : ~(u.session = s /\ u.product = p)
      BY DEF Count!RowsMatchCounts
    <3> QED BY <1>0, <1>1, <2>2, <3>1 DEF Count!RowsMatchCounts
  <2> QED BY <2>1, <2>2 DEF Count!RowsMatchCounts
<1>4. ASSUME NEW q \in Product, NEW t \in Count!Session, q # p \/ t # s
      PROVE  LossIn(t, q)' = LossIn(t, q)
  <2>1. \A u : (u \in rows' /\ u.session = t /\ u.product = q)
               <=> (u \in rows /\ u.session = t /\ u.product = q)
    BY <1>0, <1>1, <1>4
  <2> QED BY <1>2, <2>1 DEF LossIn
<1>5. LossIn(s, p) = Larger(0 - r.qty, 0)
  BY <1>0, <1>1 DEF LossIn
<1>6. LossIn(s, p)' = 0
  <2>1. \A u \in rows' : u.session = s /\ u.product = p => u.voided
    BY <1>0, <1>1 DEF Count!RowsMatchCounts
  <2> QED BY <2>1 DEF LossIn
<1>7. Losses(p)' = Losses(p) - Larger(0 - r.qty, 0)
  <2> DEFINE f == [t \in Count!Session |-> LossIn(t, p)]
             g == [t \in Count!Session |-> LossIn(t, p)']
  <2>1. f[s] = Larger(0 - r.qty, 0) /\ g[s] = 0 /\ \A t \in Count!Session \ {s} : f[t] = g[t]
    BY <1>1, <1>4, <1>5, <1>6
  <2>2. f \in [Count!Session -> Int] /\ SumOf(f) = Losses(p) /\ Losses(p) \in Nat
    BY <1>1, LossNat DEF Losses
  <2>3. g \in [Count!Session -> Int]
    <3>1. \A t \in Count!Session : g[t] = f[t] \/ g[t] = 0
      BY <2>1
    <3>2. \A t \in Count!Session : g[t] \in Int
      BY <2>2, <3>1
    <3> QED BY <3>2
  <2>4. Losses(p)' = SumOf(g)
    BY DEF Losses
  <2> HIDE DEF f, g, s, p
  <2>5. SumOf(g) = SumOf(f) + g[s] - f[s]
    BY <1>1, <2>1, <2>2, <2>3, SessionsFinite, SumUpdate
  <2>6. Larger(0 - r.qty, 0) \in Int
    BY <1>1 DEF Larger
  <2> QED BY <2>1, <2>2, <2>4, <2>5, <2>6
<1>8. ASSUME NEW q \in Product
      PROVE  /\ book'[q] <= batches'[q] /\ batches'[q] \in 0 .. bought'[q]
             /\ book'[q] + Losses(q)' <= bought'[q]
  <2>1. /\ book[q] \in Int /\ bought[q] \in Int /\ batches[q] \in Int /\ Losses(q) \in Nat
    BY LossNat DEF CountType, GoodsType
  <2>2. /\ book[q] <= batches[q] /\ batches[q] \in 0 .. bought[q]
        /\ book[q] + Losses(q) <= bought[q]
    BY DEF Count!LedgerIsBacked, LossesHaveRoom
  <2>3. CASE q = p
    <3>1. /\ book'[q] = book[q] - r.qty /\ bought'[q] = bought[q]
          /\ batches'[q] = batches[q] +
               (IF r.qty < 0 THEN (IF bought[q] - batches[q] < -r.qty
                                   THEN bought[q] - batches[q] ELSE -r.qty) ELSE 0)
      BY <1>0, <2>3 DEF Count!Least, CountType, GoodsType
    <3>2. Losses(q)' = Losses(q) - (IF 0 - r.qty < 0 THEN 0 ELSE 0 - r.qty)
      BY <1>7, <2>3 DEF Larger
    <3>3. r.qty \in Int
      BY <1>1
    <3>4. LossIn(s, p) <= Losses(p)
      <4> DEFINE f == [t \in Count!Session |-> LossIn(t, p)]
      <4>1. f \in [Count!Session -> Nat] /\ s \in Count!Session /\ f[s] = LossIn(s, p)
        BY <1>1, LossNat
      <4>2. SumOf(f) = Losses(p)
        BY DEF Losses
      <4> HIDE DEF f, s, p
      <4> QED BY <4>1, <4>2, SessionsFinite, PartOfSum
    <3>5. CASE r.qty < 0
      <4>1. 0 - r.qty <= Losses(q)
        BY <1>5, <2>1, <2>3, <3>3, <3>4, <3>5 DEF Larger
      <4>2. book'[q] = book[q] - r.qty /\ bought'[q] = bought[q] /\ Losses(q)' = Losses(q) + r.qty
        BY <2>1, <3>1, <3>2, <3>3, <3>5
      <4>3. \/ batches'[q] = bought[q]
            \/ batches'[q] = batches[q] - r.qty /\ batches[q] - r.qty <= bought[q]
        BY <2>1, <3>1, <3>3, <3>5
      <4>4. 0 <= batches[q] /\ batches[q] <= bought[q]
        BY <2>1, <2>2
      <4>5. book'[q] + Losses(q)' <= bought'[q]
        BY <2>1, <2>2, <3>3, <4>2
      <4>6. CASE batches'[q] = bought[q]
        BY <2>1, <2>2, <3>3, <4>1, <4>2, <4>4, <4>5, <4>6
      <4>7. CASE batches'[q] = batches[q] - r.qty /\ batches[q] - r.qty <= bought[q]
        BY <2>1, <2>2, <3>3, <3>5, <4>2, <4>4, <4>5, <4>7
      <4> QED BY <4>3, <4>6, <4>7
    <3>6. CASE r.qty >= 0
      BY <2>1, <2>2, <3>1, <3>2, <3>3, <3>6
    <3> QED BY <3>3, <3>5, <3>6
  <2>4. CASE q # p
    <3>1. book'[q] = book[q] /\ bought'[q] = bought[q] /\ batches'[q] = batches[q]
      BY <1>0, <2>4 DEF CountType, GoodsType
    <3>2. Losses(q)' = Losses(q)
      <4>1. [t \in Count!Session |-> LossIn(t, q)]' = [t \in Count!Session |-> LossIn(t, q)]
        BY <1>4, <2>4
      <4> QED BY <4>1 DEF Losses
    <3> QED BY <2>2, <3>1, <3>2
  <2> QED BY <2>3, <2>4
<1> QED BY <1>3, <1>8 DEF Count!LedgerIsBacked, LossesHaveRoom

LEMMA CountInvStep ==
  ASSUME CountInv, [Count!Next]_(Count!vars)
  PROVE  CountInv'
<1> DEFINE Kept == Count!LedgerIsBacked' /\ Count!RowsMatchCounts' /\ LossesHaveRoom'
<1>0. CountType /\ CountType'
  BY CountTypeStep DEF CountInv
<1> SUFFICES Kept
  BY <1>0 DEF CountInv
<1>1. CASE UNCHANGED Count!vars
  BY <1>1, GoodsKept DEF Count!vars, Count!goods
<1>2. ASSUME NEW p \in Product, Count!Buy(p) \/ Count!Sell(p) \/ Count!Shrink(p) \/ Count!Find(p)
      PROVE  Kept
  BY <1>2, MovesKeep
<1>3. ASSUME NEW p \in Product, Count!Count(p) \/ Count!Flush(p) PROVE Kept
  BY <1>3, GoodsKept DEF Count!Count, Count!Flush, Count!goods
<1>4. ASSUME NEW i \in {1, 2}, Count!BeginStart(i) PROVE Kept
  BY <1>4, GoodsKept DEF Count!BeginStart, Count!goods
<1>5. ASSUME NEW i \in {1, 2}, NEW s \in Count!Session, Count!InsertSession(i, s) PROVE Kept
  <2>1. /\ rows' = rows /\ UNCHANGED <<book, bought, batches>> /\ sessions[s].status = "none"
        /\ \A t \in Count!Session \ {s} : sessions'[t] = sessions[t]
    BY <1>0, <1>5 DEF Count!InsertSession, Count!goods, CountType
  <2> QED BY <2>1, GoodsKept
<1>6. ASSUME NEW s \in Count!Session, Count!Cancel(s) PROVE Kept
  <2>1. /\ rows' = rows /\ UNCHANGED <<book, bought, batches>> /\ sessions[s].status = "in_progress"
        /\ \A t \in Count!Session \ {s} : sessions'[t] = sessions[t]
    BY <1>0, <1>6 DEF Count!Cancel, Count!goods, CountType
  <2> QED BY <2>1, GoodsKept
<1>7. ASSUME NEW s \in Count!Session, Count!Complete(s) PROVE Kept
  BY <1>7, CompleteKeeps
<1>8. ASSUME NEW s \in Count!Session, Count!OpenPage(s) PROVE Kept
  BY <1>8, GoodsKept DEF Count!OpenPage, Count!goods
<1>9. ASSUME NEW r \in rows, Count!VoidAdjustment(r) PROVE Kept
  BY <1>9, VoidKeeps
<1>10. ASSUME NEW ch \in {"submit", "flush"}, Count!Submit(ch) PROVE Kept
  <2> DEFINE x == page[ch].session
             y == page[ch].product
             c == page[ch].count
  <2>1. /\ rows' = rows /\ UNCHANGED <<book, bought, batches>>
        /\ sessions[x].status = "in_progress"
        /\ sessions' = [sessions EXCEPT ![x].count[y] = c]
    BY <1>10 DEF Count!Submit, Count!Record, Count!goods
  <2> HIDE DEF x, y, c
  <2>2. \A t \in Count!Session \ {x} : sessions'[t] = sessions[t]
    BY <1>0, <2>1 DEF CountType
  <2> QED BY <2>1, <2>2, GoodsKept
<1>11. ASSUME NEW ch \in {"submit", "flush"}, Count!Saved(ch) \/ Count!Failed(ch) PROVE Kept
  BY <1>11, GoodsKept DEF Count!Saved, Count!Failed, Count!goods
<1> HIDE DEF Kept
<1> QED BY <1>1, <1>2, <1>3, <1>4, <1>5, <1>6, <1>7, <1>8, <1>9, <1>10, <1>11 DEF Count!Next

(* In every state that stocktakes reach, the ledger can be taken from the  *)
(* batches, and a session has booked what it counted, once                 *)
(* (routers/inventory.py, complete_stocktake and void_record).             *)
THEOREM StockIsCountedHolds == Count!Spec => []StockIsCounted
<1>1. CountInv => StockIsCounted
  BY DEF CountInv, StockIsCounted
<1> QED BY <1>1, CountInvInit, CountInvStep, PTL DEF Count!Spec

(* Completing a session makes the ledger say what is on the shelf, if the  *)
(* count was not overtaken.                                                *)
THEOREM CalibratedHolds == Count!Spec => Calibrated
<1>1. ASSUME CountInv, [Count!Next]_(Count!vars), NEW s \in Count!Session,
             sessions[s].status = "in_progress", sessions'[s].status = "completed",
             NEW p \in Product, Count!Undisturbed(s, p)
      PROVE  book'[p] = shelf'[p]
  <2>1. Count!Complete(s)
    <3>0. sessions \in [Count!Session -> SessionRow]
      BY <1>1 DEF CountInv, CountType
    <3>1. sessions' # sessions /\ sessions'[s].status # sessions[s].status
      BY <1>1
    <3>2. Count!Next
      BY <1>1, <3>1 DEF Count!vars
    <3>3. ASSUME NEW t \in Count!Session, Count!Complete(t) PROVE t = s
      BY <3>0, <3>1, <3>3, CompleteAdjusts
    <3>4. ASSUME NEW i \in {1, 2}, NEW t \in Count!Session, Count!InsertSession(i, t) PROVE FALSE
      BY <1>1, <3>0, <3>4 DEF Count!InsertSession, Count!Unused
    <3>5. ASSUME NEW t \in Count!Session, Count!Cancel(t) PROVE FALSE
      BY <1>1, <3>0, <3>5 DEF Count!Cancel, SessionRow
    <3>6. ASSUME NEW ch \in {"submit", "flush"}, Count!Submit(ch) PROVE FALSE
      <4> DEFINE x == page[ch].session
                 y == page[ch].product
                 c == page[ch].count
      <4>1. sessions' = [sessions EXCEPT ![x].count[y] = c]
        BY <3>6 DEF Count!Submit, Count!Record
      <4> HIDE DEF x, y, c
      <4>2. sessions'[s].status = sessions[s].status
        BY <3>0, <4>1 DEF SessionRow
      <4> QED BY <3>1, <4>2
    <3>7. ASSUME \/ \E q \in Product : \/ Count!Buy(q) \/ Count!Sell(q) \/ Count!Shrink(q)
                                       \/ Count!Find(q) \/ Count!Count(q) \/ Count!Flush(q)
                 \/ \E i \in {1, 2} : Count!BeginStart(i)
                 \/ \E t \in Count!Session : Count!OpenPage(t)
                 \/ \E r \in rows : Count!VoidAdjustment(r)
                 \/ \E ch \in {"submit", "flush"} : Count!Saved(ch) \/ Count!Failed(ch)
          PROVE  FALSE
      <4>1. sessions' = sessions
        BY <3>7 DEF Count!Buy, Count!Sell, Count!Shrink, Count!Find, Count!Moving, Count!Count,
           Count!Flush, Count!BeginStart, Count!OpenPage, Count!VoidAdjustment, Count!Saved,
           Count!Failed
      <4> QED BY <3>1, <4>1
    <3> QED BY <3>2, <3>3, <3>4, <3>5, <3>6, <3>7 DEF Count!Next
  <2>2. book' = [q \in Product |-> book[q] + Count!Variance(s, q)] /\ shelf' = shelf
    BY <2>1, CompleteAdjusts
  <2>3. /\ shelf[p] \in Int /\ book[p] \in Int /\ sessions[s].snap[p] \in Int
        /\ sessions[s].count[p] \in Entry
    BY <1>1 DEF CountInv, CountType, GoodsType, SessionRow
  <2>4. /\ sessions[s].count[p].book = sessions[s].snap[p]
        /\ shelf[p] - book[p] = sessions[s].count[p].qty - sessions[s].count[p].book
        /\ sessions[s].count[p].qty \in Int
    BY <1>1, <2>3 DEF Count!Undisturbed, Entry
  <2>5. book'[p] = book[p] + (sessions[s].count[p].qty - sessions[s].snap[p])
    BY <2>2 DEF Count!Variance
  <2> QED BY <2>2, <2>3, <2>4, <2>5
<1>2. ASSUME CountInv, [Count!Next]_(Count!vars)
      PROVE  \A s \in Count!Session : Count!Completes(s) =>
               \A p \in Product : Count!Undisturbed(s, p) => book'[p] = shelf'[p]
  BY <1>1, <1>2 DEF Count!Completes
<1> QED BY <1>2, CountInvInit, CountInvStep, PTL DEF Count!Spec, Calibrated, Count!Calibrated

-----------------------------------------------------------------------------
(* Purchases: types                                                        *)

ListRow == [status : {"none", "draft", "confirmed", "partial_arrival", "accepted", "stored",
                      "completed"},
            payment : {"unpaid", "partial", "paid"}, paid : Int, total : Int]

ItemRow == [list : 1 .. NumLists, status : {"pending", "purchased", "cancelled", "returned"},
            qty : Nat \ {0}, cost : Int, accepted : Int, returned : Int, stored : Int,
            gone : Int]

PayableRow == [list : 1 .. NumLists, item : Nat, amount : Nat \ {0}, settled : Int]

ReturnRow == [item : Nat, before : Int, qty : Nat, offset : BOOLEAN]

BuyType ==
  /\ lists \in [1 .. NumLists -> ListRow]
  /\ items \in Seq(ItemRow)
  /\ payables \in Seq(PayableRow)
  /\ credit \in Int
  /\ paid \in [Key -> Int]
  /\ returns \subseteq ReturnRow /\ IsFiniteSet(returns)

LEMMA AsSeq ==
  ASSUME NEW R, NEW n \in Nat, NEW f \in [1 .. n -> R]
  PROVE  f \in Seq(R) /\ Len(f) = n /\ DOMAIN f = 1 .. n
  OBVIOUS

LEMMA OverOut ==
  ASSUME NEW S, IsFiniteSet(S), NEW f \in [S -> Int], NEW U \in SUBSET S, NEW x \in U
  PROVE  Over(f, U) = f[x] + Over(f, U \ {x})
  BY OverFacts

(* An amount that goes to the rows in order, each up to what it holds, is  *)
(* all given when there is room, and no row gets more than it holds.       *)
LEMMA PrefixSplit ==
  ASSUME NEW n \in Nat, NEW S, Among(S, n), NEW f \in [S -> Nat], NEW a \in Nat,
         NEW g \in [S -> Int], a <= SumOf(f),
         \A p \in S : g[p] = Smaller(Larger(a - Over(f, Below(S, p)), 0), f[p])
  PROVE  /\ g \in [S -> Nat]
         /\ \A p \in S : g[p] <= f[p]
         /\ SumOf(g) = a
<1> DEFINE T == {k \in Nat : Over(g, Upto(S, k)) = Smaller(a, Over(f, Upto(S, k)))}
<1>a. /\ IsFiniteSet(S) /\ Upto(S, 0) = {} /\ Upto(S, n) = S
      /\ \A k : Upto(S, k) \in SUBSET S /\ Below(S, k) \in SUBSET S
      /\ \A k \in Nat : k + 1 \notin S => Upto(S, k + 1) = Upto(S, k)
  BY Prefixes
<1>0. IsFiniteSet(S) /\ f \in [S -> Int] /\ \A U \in SUBSET S : Over(f, U) \in Nat
  <2>1. IsFiniteSet(S) /\ f \in [S -> Int]
    BY <1>a
  <2>2. ASSUME NEW U \in SUBSET S PROVE Over(f, U) \in Nat
    <3>1. IsFiniteSet(U) /\ [x \in U |-> f[x]] \in [U -> Nat]
      BY <2>1, FS_Subset
    <3> QED BY <3>1, SumNat DEF Over
  <2> QED BY <2>1, <2>2
<1>1. ASSUME NEW p \in S PROVE g[p] \in Nat /\ g[p] <= f[p]
  <2>1. Over(f, Below(S, p)) \in Nat /\ f[p] \in Nat
    BY <1>a, <1>0
  <2> QED BY <2>1 DEF Smaller, Larger
<1>2. g \in [S -> Nat]
  BY <1>1
<1>b. ASSUME NEW U \in SUBSET S, NEW x \in U
      PROVE  /\ Over(f, U) = f[x] + Over(f, U \ {x})
             /\ Over(g, U) = g[x] + Over(g, U \ {x})
  <2>1. IsFiniteSet(S) /\ f \in [S -> Int] /\ g \in [S -> Int]
    BY <1>0
  <2>2. Over(f, U) = f[x] + Over(f, U \ {x})
    BY <2>1, OverOut
  <2>3. Over(g, U) = g[x] + Over(g, U \ {x})
    BY <2>1, OverOut
  <2> QED BY <2>2, <2>3
<1>3. 0 \in T
  <2>1. Over(g, {}) = 0 /\ Over(f, {}) = 0
    BY <1>0, OverFacts
  <2>2. Over(g, {}) = Smaller(a, Over(f, {}))
    BY <2>1 DEF Smaller
  <2> QED BY <1>a, <2>2
<1>4. ASSUME NEW k \in Nat, k \in T PROVE k + 1 \in T
  <2>1. CASE k + 1 \in S
    <3>1. /\ Upto(S, k + 1) \ {k + 1} = Upto(S, k) /\ k + 1 \in Upto(S, k + 1)
          /\ Upto(S, k) = Below(S, k + 1)
          /\ Upto(S, k) \in SUBSET S /\ Upto(S, k + 1) \in SUBSET S
      BY <2>1, Prefixes
    <3>2. g[k + 1] = Smaller(Larger(a - Over(f, Upto(S, k)), 0), f[k + 1])
      BY <2>1, <3>1
    <3>3. Over(g, Upto(S, k)) = Smaller(a, Over(f, Upto(S, k)))
      BY <1>4
    <3>4. /\ Over(f, Upto(S, k + 1)) = f[k + 1] + Over(f, Upto(S, k))
          /\ Over(g, Upto(S, k + 1)) = g[k + 1] + Over(g, Upto(S, k))
      BY <1>b, <3>1
    <3>5. Over(f, Upto(S, k)) \in Nat /\ f[k + 1] \in Nat
      BY <1>0, <2>1, <3>1
    <3>6. Over(g, Upto(S, k + 1)) = Smaller(a, Over(f, Upto(S, k + 1)))
      BY <3>2, <3>3, <3>4, <3>5 DEF Smaller, Larger
    <3> QED BY <3>6
  <2>2. CASE k + 1 \notin S
    BY <1>a, <1>4, <2>2
  <2> QED BY <2>1, <2>2
<1>5. n \in T
  <2> HIDE DEF T
  <2> QED BY <1>3, <1>4, Counting
<1>6. Upto(S, n) = S
  BY <1>a
<1>7. Over(g, S) = SumOf(g) /\ Over(f, S) = SumOf(f) /\ SumOf(f) \in Int
  BY <1>0, OverAll, SumInt
<1> QED BY <1>1, <1>2, <1>5, <1>6, <1>7 DEF Smaller

-----------------------------------------------------------------------------
(* Purchases: the invariant.  What is settled on the payables is what was  *)
(* paid and offset, less what was credited; a list that is paid has        *)
(* nothing open, and only such a list is completed.                        *)

SettledSum == Sum(LAMBDA p : payables[p].settled, DOMAIN payables)

SettledWithin == \A p \in DOMAIN payables : payables[p].settled \in 0 .. payables[p].amount

PaidHasNoOpen ==
  \A l \in 1 .. NumLists : /\ lists[l].payment = "paid" => OpenOf(l) = {}
                           /\ lists[l].status = "completed" => lists[l].payment = "paid"

ItemsAreThere == \A p \in DOMAIN payables : payables[p].item \in DOMAIN items

BuyInv ==
  /\ BuyType
  /\ SettledWithin
  /\ SettledSum = PaidOut + OffsetAmount - credit
  /\ PaidHasNoOpen
  /\ ItemsAreThere
  /\ OwedOnce

LEMMA PayableFacts ==
  ASSUME BuyType
  PROVE  /\ Len(payables) \in Nat /\ DOMAIN payables = 1 .. Len(payables)
         /\ IsFiniteSet(DOMAIN payables)
         /\ \A p \in DOMAIN payables :
              /\ payables[p].list \in 1 .. NumLists /\ payables[p].item \in Nat
              /\ payables[p].amount \in Nat /\ payables[p].amount > 0
              /\ payables[p].settled \in Int /\ payables[p] \in PayableRow
<1>1. payables \in Seq(PayableRow)
  BY DEF BuyType
<1>2. Len(payables) \in Nat /\ DOMAIN payables = 1 .. Len(payables)
  BY <1>1
<1>3. IsFiniteSet(DOMAIN payables)
  BY <1>2, FS_Interval
<1>4. \A p \in DOMAIN payables : payables[p] \in PayableRow
  BY <1>1
<1> QED BY <1>2, <1>3, <1>4 DEF PayableRow

(* What is open on some of the payables.                                   *)
LEMMA OwedFacts ==
  ASSUME BuyType, SettledWithin, NEW S \in SUBSET DOMAIN payables
  PROVE  /\ IsFiniteSet(S) /\ Among(S, Len(payables))
         /\ \A p \in S : Open(p) \in Nat
         /\ Owed(S) = SumOf([p \in S |-> Open(p)]) /\ Owed(S) \in Nat
<1>1. IsFiniteSet(S) /\ Among(S, Len(payables))
  BY PayableFacts, FS_Subset DEF Among
<1>2. ASSUME NEW p \in S PROVE Open(p) \in Nat
  BY PayableFacts DEF Open, SettledWithin
<1> DEFINE f == [p \in S |-> Open(p)]
<1>3. f \in [S -> Nat]
  BY <1>2
<1> HIDE DEF f
<1>4. SumOf(f) \in Nat
  BY <1>1, <1>3, SumNat
<1>5. Owed(S) = SumOf(f)
  BY DEF Owed, Sum, f
<1> QED BY <1>1, <1>2, <1>4, <1>5 DEF f

(* A payment of no more than is owed finds room.                           *)
LEMMA AppliedSplit ==
  ASSUME BuyType, SettledWithin, NEW S \in SUBSET DOMAIN payables,
         NEW a \in Nat, a <= Owed(S)
  PROVE  /\ \A p \in DOMAIN payables :
              /\ Applied(S, a, p) \in Nat /\ Applied(S, a, p) <= Open(p)
              /\ p \notin S => Applied(S, a, p) = 0
         /\ SumOf([p \in DOMAIN payables |-> Applied(S, a, p)]) = a
<1> DEFINE f == [p \in S |-> Open(p)]
           g == [p \in S |-> Applied(S, a, p)]
<1>1. IsFiniteSet(S) /\ Among(S, Len(payables)) /\ Len(payables) \in Nat
  BY OwedFacts, PayableFacts
<1>2. f \in [S -> Nat] /\ SumOf(f) = Owed(S)
  BY OwedFacts
<1>3. ASSUME NEW p \in S
      PROVE  g[p] = Smaller(Larger(a - Over(f, Below(S, p)), 0), f[p])
  <2>1. {q \in S : q < p} = Below(S, p)
    BY DEF Below
  <2>2. Owed(Below(S, p)) = Over(f, Below(S, p))
    <3>1. [q \in Below(S, p) |-> Open(q)] = [q \in Below(S, p) |-> f[q]]
      BY DEF Below
    <3> QED BY <3>1 DEF Owed, Sum, Over
  <2>3. Applied(S, a, p) = Smaller(Larger(a - Owed(Below(S, p)), 0), Open(p))
    BY <2>1 DEF Applied
  <2> QED BY <2>2, <2>3
<1>4. g \in [S -> Int]
  <2>1. ASSUME NEW p \in S PROVE g[p] \in Int
    <3>1. Below(S, p) \in SUBSET DOMAIN payables
      BY DEF Below
    <3>2. Owed(Below(S, p)) \in Nat /\ Open(p) \in Nat
      BY <3>1, OwedFacts
    <3>3. {q \in S : q < p} = Below(S, p)
      BY DEF Below
    <3>4. Applied(S, a, p) = Smaller(Larger(a - Owed(Below(S, p)), 0), Open(p))
      BY <3>3 DEF Applied
    <3> QED BY <3>2, <3>4 DEF Smaller, Larger
  <2> HIDE DEF g
  <2> QED BY <2>1 DEF g
<1>5. g \in [S -> Nat] /\ (\A p \in S : g[p] <= f[p]) /\ SumOf(g) = a
  <2> HIDE DEF f, g
  <2> QED BY <1>1, <1>2, <1>3, <1>4, PrefixSplit
<1>6. ASSUME NEW p \in DOMAIN payables
      PROVE  /\ Applied(S, a, p) \in Nat /\ Applied(S, a, p) <= Open(p)
             /\ p \notin S => Applied(S, a, p) = 0
  <2>1. CASE p \in S
    <3>1. g[p] = Applied(S, a, p) /\ f[p] = Open(p)
      BY <2>1
    <3> HIDE DEF f, g
    <3> QED BY <1>5, <2>1, <3>1
  <2>2. CASE p \notin S
    <3>1. Applied(S, a, p) = 0
      BY <2>2 DEF Applied
    <3>2. Open(p) \in Nat
      BY OwedFacts
    <3> QED BY <2>2, <3>1, <3>2
  <2> QED BY <2>1, <2>2
<1>7. SumOf([p \in DOMAIN payables |-> Applied(S, a, p)]) = SumOf(g)
  <2> DEFINE h == [p \in DOMAIN payables |-> Applied(S, a, p)]
  <2>1. h \in [DOMAIN payables -> Int] /\ \A p \in DOMAIN payables \ S : h[p] = 0
    BY <1>6
  <2>2. [p \in S |-> h[p]] = g
    OBVIOUS
  <2>3. IsFiniteSet(DOMAIN payables)
    BY PayableFacts
  <2> HIDE DEF h, g
  <2>4. SumOf(h) = SumOf([p \in S |-> h[p]])
    BY <2>1, <2>3, SumSupport
  <2> QED BY <2>2, <2>4 DEF h
<1> QED BY <1>5, <1>6, <1>7

(* Names for what Settle computes.                                         *)
OfList(l) == {p \in DOMAIN payables : payables[p].list = l}

Touched(S, a) == {payables[p].list : p \in {q \in S : Applied(S, a, q) > 0}}

Left(S, a, l) ==
  Owed(OfList(l)) - Sum(LAMBDA p : Applied(S, a, p), {p \in S : payables[p].list = l})

Total(l) == IF lists[l].total > 0 THEN lists[l].total
            ELSE Sum(LAMBDA p : payables[p].amount, OfList(l))

Done(S, a, l) == Larger(Total(l) - Left(S, a, l), 0)

(* What is left of a list is what will be open on its payables.            *)
LEMMA LeftFacts ==
  ASSUME BuyType, SettledWithin, NEW S \in SUBSET DOMAIN payables,
         NEW a \in Nat, a <= Owed(S), NEW l \in 1 .. NumLists
  PROVE  /\ Left(S, a, l) \in Int /\ Total(l) \in Int
         /\ Left(S, a, l) <= 0 => \A p \in OfList(l) : Open(p) = Applied(S, a, p)
<1> DEFINE L == OfList(l)
           M == {p \in S : payables[p].list = l}
           f == [p \in L |-> Open(p)]
           g == [p \in L |-> Applied(S, a, p)]
           h == [p \in L |-> Open(p) - Applied(S, a, p)]
           t == [p \in L |-> payables[p].amount]
<1>1. L \in SUBSET DOMAIN payables /\ M \in SUBSET L /\ \A p \in L \ M : p \notin S
  BY DEF OfList
<1>2. IsFiniteSet(L) /\ (\A p \in L : Open(p) \in Nat) /\ Owed(L) = SumOf(f)
  <2> HIDE DEF L
  <2> QED BY <1>1, OwedFacts
<1>3. \A p \in L : /\ Applied(S, a, p) \in Nat /\ Applied(S, a, p) <= Open(p)
                   /\ p \notin S => Applied(S, a, p) = 0
                   /\ payables[p].amount \in Nat
  <2> HIDE DEF L
  <2> QED BY <1>1, AppliedSplit, PayableFacts
<1> HIDE DEF L, M
<1>4. /\ f \in [L -> Int] /\ g \in [L -> Int] /\ h \in [L -> Nat] /\ h \in [L -> Int]
      /\ t \in [L -> Nat] /\ \A p \in L : h[p] = f[p] - g[p]
      /\ \A p \in L \ M : g[p] = 0
  BY <1>1, <1>2, <1>3
<1>5. [p \in M |-> g[p]] = [p \in M |-> Applied(S, a, p)]
  BY <1>1
<1> HIDE DEF f, g, h, t
<1>6. SumOf(g) = SumOf([p \in M |-> Applied(S, a, p)])
  <2>1. SumOf(g) = SumOf([p \in M |-> g[p]])
    BY <1>1, <1>2, <1>4, SumSupport
  <2> QED BY <1>5, <2>1
<1>7. SumOf(h) = SumOf(f) - SumOf(g)
  BY <1>2, <1>4, SumMinus
<1>8. Left(S, a, l) = SumOf(h)
  BY <1>2, <1>6, <1>7 DEF Left, Sum, L, M
<1>9. SumOf(h) \in Nat /\ SumOf(t) \in Nat
  BY <1>2, <1>4, SumNat
<1>10. Total(l) \in Int
  <2>1. lists[l].total \in Int
    BY DEF BuyType, ListRow
  <2> QED BY <1>9, <2>1 DEF Total, Sum, t, L
<1>11. ASSUME Left(S, a, l) <= 0, NEW p \in L PROVE Open(p) = Applied(S, a, p)
  <2>1. h[p] <= SumOf(h)
    BY <1>2, <1>4, PartOfSum
  <2>2. h[p] \in Nat /\ h[p] = Open(p) - Applied(S, a, p)
    BY <1>4 DEF h
  <2> QED BY <1>2, <1>3, <1>8, <1>9, <1>11, <2>1, <2>2
<1> QED BY <1>8, <1>9, <1>10, <1>11 DEF L

(* An amount is settled: the payables take it up between them, and a list  *)
(* is called paid only when nothing of it is open.                         *)
LEMMA SettleKeeps ==
  ASSUME BuyType, SettledWithin, PaidHasNoOpen, NEW S \in SUBSET DOMAIN payables,
         NEW a \in Nat, a <= Owed(S), Settle(S, a)
  PROVE  /\ payables' \in Seq(PayableRow) /\ lists' \in [1 .. NumLists -> ListRow]
         /\ DOMAIN payables' = DOMAIN payables
         /\ \A p \in DOMAIN payables : payables'[p].item = payables[p].item
         /\ SettledWithin' /\ PaidHasNoOpen' /\ SettledSum' = SettledSum + a
<1> DEFINE D == DOMAIN payables
           n == Len(payables)
           app(p) == Applied(S, a, p)
<1>0. /\ n \in Nat /\ D = 1 .. n /\ IsFiniteSet(D)
      /\ \A p \in D : /\ payables[p].list \in 1 .. NumLists /\ payables[p].amount \in Nat
                      /\ payables[p].settled \in Int /\ payables[p] \in PayableRow
  BY PayableFacts
<1>a. /\ payables' = [p \in DOMAIN payables |->
                        [payables[p] EXCEPT !.settled = @ + Applied(S, a, p)]]
      /\ lists' = [l \in 1 .. NumLists |->
           IF l \notin Touched(S, a) THEN lists[l]
           ELSE [lists[l] EXCEPT
                   !.paid = Done(S, a, l),
                   !.payment = IF Left(S, a, l) <= 0 /\ Total(l) > 0 THEN "paid"
                               ELSE IF Done(S, a, l) > 0 THEN "partial" ELSE "unpaid"]]
  BY Zenon DEF Settle, Touched, Left, Total, Done, OfList
<1>1. payables' = [p \in D |-> [payables[p] EXCEPT !.settled = @ + app(p)]]
  BY <1>a
<1>2. /\ \A p \in D : /\ app(p) \in Nat /\ app(p) <= Open(p)
                      /\ p \notin S => app(p) = 0
      /\ SumOf([p \in D |-> app(p)]) = a
  BY AppliedSplit
<1> HIDE DEF app
<1>3. \A p \in D : /\ payables'[p] \in PayableRow
                   /\ payables'[p].settled = payables[p].settled + app(p)
                   /\ payables'[p].amount = payables[p].amount
                   /\ payables'[p].list = payables[p].list
                   /\ payables'[p].item = payables[p].item
  BY <1>0, <1>1, <1>2 DEF PayableRow
<1>4. payables' \in Seq(PayableRow) /\ DOMAIN payables' = D
  <2>1. DOMAIN payables' = D
    BY <1>1
  <2>2. payables' \in [1 .. n -> PayableRow]
    BY <1>0, <1>1, <1>3
  <2> QED BY <1>0, <2>1, <2>2, AsSeq
<1>5. \A p \in D : Open(p)' = Open(p) - app(p)
  BY <1>0, <1>2, <1>3 DEF Open
<1>6. SettledWithin'
  BY SMTT(30), <1>0, <1>2, <1>3, <1>4 DEF SettledWithin, Open
<1>7. SettledSum' = SettledSum + a
  <2> DEFINE f == [p \in D |-> payables[p].settled]
             g == [p \in D |-> app(p)]
             h == [p \in D |-> payables'[p].settled]
  <2>1. /\ f \in [D -> Int] /\ g \in [D -> Int] /\ h \in [D -> Int]
        /\ \A p \in D : h[p] = f[p] + g[p]
    BY <1>0, <1>2, <1>3
  <2>2. SettledSum = SumOf(f) /\ SettledSum' = SumOf(h) /\ SumOf(g) = a
    BY <1>2, <1>4 DEF SettledSum, Sum
  <2>a. IsFiniteSet(D)
    BY <1>0
  <2> HIDE DEF f, g, h, D
  <2>3. SumOf(h) = SumOf(f) + SumOf(g)
    BY <2>a, <2>1, SumPlus
  <2> QED BY <2>2, <2>3
<1>8. ASSUME NEW l \in 1 .. NumLists
      PROVE  /\ lists'[l] \in ListRow
             /\ lists'[l].payment = "paid" => OpenOf(l)' = {}
             /\ lists'[l].status = "completed" => lists'[l].payment = "paid"
  <2>0. lists[l] \in ListRow
    BY DEF BuyType
  <2>1. \A p : p \in OpenOf(l)' <=> p \in D /\ payables[p].list = l /\ Open(p) - app(p) > 0
    BY <1>3, <1>4, <1>5 DEF OpenOf
  <2>2. \A p : p \in OpenOf(l) <=> p \in D /\ payables[p].list = l /\ Open(p) > 0
    BY DEF OpenOf
  <2>3. \A p \in D : Open(p) \in Nat
    BY OwedFacts
  <2>4. CASE l \notin Touched(S, a)
    <3>1. lists'[l] = lists[l]
      BY <1>a, <2>4
    <3>2. \A p \in D : payables[p].list = l => app(p) = 0
      <4> SUFFICES ASSUME NEW p \in D, payables[p].list = l, p \in S, app(p) > 0 PROVE FALSE
        BY <1>2
      <4> QED BY <2>4 DEF Touched, app
    <3>3. OpenOf(l)' = OpenOf(l)
      BY <2>1, <2>2, <2>3, <3>2
    <3> QED BY <2>0, <3>1, <3>3 DEF PaidHasNoOpen
  <2>5. CASE l \in Touched(S, a)
    <3>1. lists'[l] = [lists[l] EXCEPT
                         !.paid = Done(S, a, l),
                         !.payment = IF Left(S, a, l) <= 0 /\ Total(l) > 0 THEN "paid"
                                     ELSE IF Done(S, a, l) > 0 THEN "partial" ELSE "unpaid"]
      BY <1>a, <2>5
    <3>2. Left(S, a, l) \in Int /\ Total(l) \in Int /\ Done(S, a, l) \in Int
      BY LeftFacts DEF Done, Larger
    <3>3. lists'[l] \in ListRow /\ lists'[l].status = lists[l].status
      BY <2>0, <3>1, <3>2 DEF ListRow
    <3>4. lists[l].status # "completed"
      <4>1. PICK p \in S : app(p) > 0 /\ payables[p].list = l
        BY <2>5 DEF Touched, app
      <4>2. p \in OpenOf(l)
        BY <1>2, <2>2, <2>3, <4>1
      <4> QED BY <4>2 DEF PaidHasNoOpen
    <3>5. ASSUME lists'[l].payment = "paid" PROVE OpenOf(l)' = {}
      <4>1. Left(S, a, l) <= 0
        BY <2>0, <3>1, <3>5 DEF ListRow
      <4>2. \A p \in OfList(l) : Open(p) = app(p)
        BY <4>1, LeftFacts DEF app
      <4>3. \A p \in D : payables[p].list = l => Open(p) - app(p) = 0
        BY <1>2, <2>3, <4>2 DEF OfList
      <4> QED BY <2>1, <4>3
    <3> QED BY <3>3, <3>4, <3>5
  <2> QED BY <2>4, <2>5
<1>9. lists' \in [1 .. NumLists -> ListRow]
  <2>1. DOMAIN lists' = 1 .. NumLists /\ lists' = [l \in DOMAIN lists' |-> lists'[l]]
    BY <1>a
  <2> QED BY <1>8, <2>1
<1>10. PaidHasNoOpen'
  BY <1>8 DEF PaidHasNoOpen
<1> QED BY <1>3, <1>4, <1>6, <1>7, <1>9, <1>10

LEMMA ItemFacts ==
  ASSUME BuyType
  PROVE  /\ Len(items) \in Nat /\ DOMAIN items = 1 .. Len(items)
         /\ \A i \in DOMAIN items : items[i] \in ItemRow /\ items[i].list \in 1 .. NumLists
<1>1. items \in Seq(ItemRow)
  BY DEF BuyType
<1>2. \A i \in DOMAIN items : items[i] \in ItemRow
  BY <1>1
<1> QED BY <1>1, <1>2 DEF ItemRow

(* What a delivery makes the supplier's.                                   *)
LEMMA PayableAmountInt ==
  ASSUME BuyType, NEW l \in 1 .. NumLists, NEW i \in DOMAIN items
  PROVE  PayableAmount(i, l) \in Int /\ (lists[l].payment = "paid" => PayableAmount(i, l) = 0)
<1>1. items[i].cost \in Int /\ lists[l].paid \in Int /\ lists[l].total \in Int
  <2>1. items[i] \in ItemRow /\ lists[l] \in ListRow
    BY ItemFacts DEF BuyType
  <2> QED BY <2>1 DEF ItemRow, ListRow
<1>2. items[i].cost * lists[l].paid \in Int
  BY <1>1
<1>3. CASE lists[l].total > 0
  <2> DEFINE x == items[i].cost * lists[l].paid
  <2>1. x \in Int /\ lists[l].total \in Int /\ lists[l].total > 0
    BY <1>1, <1>2, <1>3
  <2> HIDE DEF x
  <2>2. x \div lists[l].total \in Int
    BY <2>1
  <2>3. items[i].cost - x \div lists[l].total \in Int
    BY <1>1, <2>2
  <2> QED BY <1>1, <2>3 DEF PayableAmount, x
<1>4. CASE ~(lists[l].total > 0)
  BY <1>1, <1>4 DEF PayableAmount
<1> QED BY <1>3, <1>4

LEMMA PayablesForFacts ==
  ASSUME BuyType, NEW l \in 1 .. NumLists, NEW S \in SUBSET DOMAIN items
  PROVE  /\ PayablesFor(S, l) \in Seq(PayableRow)
         /\ \A n \in DOMAIN PayablesFor(S, l) :
              /\ PayablesFor(S, l)[n].item \in S /\ PayablesFor(S, l)[n].list = l
              /\ PayablesFor(S, l)[n].settled = 0 /\ lists[l].payment # "paid"
         /\ \A m, n \in DOMAIN PayablesFor(S, l) :
              PayablesFor(S, l)[m].item = PayablesFor(S, l)[n].item => m = n
<1> DEFINE due == {i \in S : PayableAmount(i, l) > 0}
           k == Cardinality(due)
           row(n) == [list |-> l, item |-> Nth(due, n), amount |-> PayableAmount(Nth(due, n), l),
                      settled |-> 0]
<1>1. items \in Seq(ItemRow) /\ Len(items) \in Nat /\ DOMAIN items = 1 .. Len(items)
  BY DEF BuyType
<1>2. Among(due, Len(items))
  BY <1>1 DEF Among
<1>3. k \in Nat
  <2> HIDE DEF due
  <2> QED BY <1>1, <1>2, Prefixes
<1>4. ASSUME NEW n \in 1 .. k
      PROVE  Nth(due, n) \in due /\ Cardinality(Below(due, Nth(due, n))) = n - 1
  <2> HIDE DEF due
  <2> QED BY <1>1, <1>2, NthIn
<1>5. \A i \in due : /\ i \in S /\ i \in Nat /\ PayableAmount(i, l) \in Nat \ {0}
                     /\ lists[l].payment # "paid"
  <2> SUFFICES ASSUME NEW i \in due PROVE /\ i \in S /\ i \in Nat /\ PayableAmount(i, l) \in Nat \ {0}
                                          /\ lists[l].payment # "paid"
    OBVIOUS
  <2>1. i \in S /\ PayableAmount(i, l) > 0 /\ i \in DOMAIN items
    OBVIOUS
  <2>2. PayableAmount(i, l) \in Int /\ (lists[l].payment = "paid" => PayableAmount(i, l) = 0)
    BY <2>1, PayableAmountInt
  <2>3. i \in Nat
    BY <1>1, <2>1
  <2> HIDE DEF due
  <2> QED BY <2>1, <2>2, <2>3
<1>6. PayablesFor(S, l) = [n \in 1 .. k |-> row(n)]
  BY DEF PayablesFor
<1> HIDE DEF due, k
<1>7. ASSUME NEW n \in 1 .. k
      PROVE  /\ row(n) \in PayableRow /\ row(n).item \in S /\ row(n).list = l
             /\ row(n).settled = 0 /\ lists[l].payment # "paid"
             /\ Cardinality(Below(due, row(n).item)) = n - 1
  BY <1>4, <1>5 DEF PayableRow
<1> HIDE DEF row
<1>8. PayablesFor(S, l) \in Seq(PayableRow) /\ DOMAIN PayablesFor(S, l) = 1 .. k
  <2>1. PayablesFor(S, l) \in [1 .. k -> PayableRow]
    BY <1>6, <1>7
  <2> QED BY <1>3, <2>1, AsSeq
<1>9. \A n \in 1 .. k : PayablesFor(S, l)[n] = row(n)
  BY <1>6
<1>10. ASSUME NEW m \in 1 .. k, NEW n \in 1 .. k,
              PayablesFor(S, l)[m].item = PayablesFor(S, l)[n].item
       PROVE  m = n
  <2>1. row(m).item = row(n).item
    BY <1>9, <1>10
  <2>2. m - 1 = n - 1 /\ m \in Int /\ n \in Int
    BY <1>3, <1>7, <2>1
  <2> QED BY <2>2
<1> QED BY <1>7, <1>8, <1>9, <1>10

(* Goods come into stock: items that had no record have one, and one       *)
(* payable at most.                                                        *)
LEMMA StoreKeeps ==
  ASSUME BuyInv, NEW l \in 1 .. NumLists, NEW S \in SUBSET DOMAIN items,
         \A i \in S : items[i].stored = 0,
         items' \in Seq(ItemRow), DOMAIN items' = DOMAIN items,
         \A i \in DOMAIN items : IF i \in S THEN items'[i].stored > 0
                                 ELSE items'[i] = items[i],
         payables' = payables \o PayablesFor(S, l),
         lists' \in [1 .. NumLists -> ListRow],
         \A m \in 1 .. NumLists : /\ lists'[m].payment = lists[m].payment
                                  /\ lists'[m].status = "completed" => lists[m].status = "completed",
         UNCHANGED <<credit, paid, returns>>
  PROVE  BuyInv'
<1> USE DEF BuyInv
<1> DEFINE new == PayablesFor(S, l)
           n == Len(payables)
           k == Len(new)
           D == DOMAIN payables
<1>0. /\ n \in Nat /\ D = 1 .. n /\ payables \in Seq(PayableRow)
      /\ \A p \in D : payables[p].settled \in Int /\ payables[p] \in PayableRow
  BY PayableFacts DEF BuyType
<1>1. /\ new \in Seq(PayableRow)
      /\ \A m \in DOMAIN new : /\ new[m].item \in S /\ new[m].list = l /\ new[m].settled = 0
                               /\ lists[l].payment # "paid"
      /\ \A m, o \in DOMAIN new : new[m].item = new[o].item => m = o
  BY ZenonT(40), PayablesForFacts
<1> HIDE DEF new
<1>2. k \in Nat /\ DOMAIN new = 1 .. k /\ \A m \in DOMAIN new : new[m] \in PayableRow
  BY <1>1
<1>3. /\ payables' \in Seq(PayableRow) /\ DOMAIN payables' = 1 .. n + k
      /\ \A p \in D : payables'[p] = payables[p]
      /\ \A p \in (1 .. n + k) \ D : p - n \in DOMAIN new /\ payables'[p] = new[p - n]
  <2>1. payables' = payables \o new
    BY DEF new
  <2> QED BY <1>0, <1>1, <1>2, <2>1
<1>4. BuyType'
  BY <1>3 DEF BuyType
<1>5. \A p \in DOMAIN payables' \ D : /\ payables'[p].item \in S /\ payables'[p].list = l
                                     /\ payables'[p].settled = 0 /\ lists[l].payment # "paid"
                                     /\ payables'[p] \in PayableRow
  <2> SUFFICES ASSUME NEW p \in (1 .. n + k) \ D
               PROVE  /\ payables'[p].item \in S /\ payables'[p].list = l
                      /\ payables'[p].settled = 0 /\ lists[l].payment # "paid"
                      /\ payables'[p] \in PayableRow
    BY <1>3
  <2>1. p - n \in DOMAIN new /\ payables'[p] = new[p - n]
    BY <1>3
  <2> QED BY SMTT(30), <1>1, <1>2, <2>1
<1>6. SettledWithin'
  <2>1. ASSUME NEW p \in DOMAIN payables' PROVE payables'[p].settled \in 0 .. payables'[p].amount
    <3>1. CASE p \in D
      BY <1>3, <3>1 DEF SettledWithin
    <3>2. CASE p \notin D
      BY <1>5, <3>2 DEF PayableRow
    <3> QED BY <3>1, <3>2
  <2> QED BY <2>1 DEF SettledWithin
<1>7. SettledSum' = SettledSum
  <2> DEFINE E == DOMAIN payables'
             g == [p \in E |-> payables'[p].settled]
  <2>1. IsFiniteSet(E) /\ D \in SUBSET E
    <3>1. IsFiniteSet(1 .. n + k)
      BY <1>0, <1>2, FS_Interval
    <3> QED BY <1>0, <1>2, <1>3, <3>1
  <2>2. g \in [E -> Int] /\ \A p \in E \ D : g[p] = 0
    BY SMTT(30), <1>0, <1>3, <1>5
  <2>3. [p \in D |-> g[p]] = [p \in D |-> payables[p].settled]
    BY <1>3, <2>1
  <2> HIDE DEF g, D, E
  <2>4. SumOf(g) = SumOf([p \in D |-> g[p]])
    BY <2>1, <2>2, SumSupport
  <2> QED BY <2>3, <2>4 DEF SettledSum, Sum, g, D, E
<1>8. SettledSum' = PaidOut' + OffsetAmount' - credit'
  BY <1>7 DEF PaidOut, OffsetAmount, Sum
<1>9. PaidHasNoOpen'
  <2>1. ASSUME NEW m \in 1 .. NumLists, lists'[m].payment = "paid" PROVE OpenOf(m)' = {}
    <3>1. OpenOf(m) = {} /\ lists[m].payment = "paid"
      BY <2>1 DEF PaidHasNoOpen
    <3>2. ASSUME NEW p \in DOMAIN payables', payables'[p].list = m, Open(p)' > 0 PROVE FALSE
      <4>1. p \in D
        BY <1>5, <3>1, <3>2
      <4>2. p \in OpenOf(m)
        BY <1>3, <3>2, <4>1 DEF OpenOf, Open
      <4> QED BY <3>1, <4>2
    <3> QED BY <3>2 DEF OpenOf
  <2>2. ASSUME NEW m \in 1 .. NumLists, lists'[m].status = "completed"
        PROVE  lists'[m].payment = "paid"
    BY <2>2 DEF PaidHasNoOpen
  <2> QED BY <2>1, <2>2 DEF PaidHasNoOpen
<1>10. ItemsAreThere'
  <2>1. ASSUME NEW p \in DOMAIN payables' PROVE payables'[p].item \in DOMAIN items
    BY <1>3, <1>5 DEF ItemsAreThere
  <2> QED BY <2>1 DEF ItemsAreThere
<1>11. OwedOnce'
  <2>1. ASSUME NEW p \in D PROVE payables[p].item \notin S /\ payables[p].item \in DOMAIN items
    BY DEF OwedOnce, ItemsAreThere
  <2>2. ASSUME NEW p \in DOMAIN payables' PROVE items'[payables'[p].item].stored > 0
    <3>1. CASE p \in D
      BY SMTT(30), <1>3, <2>1, <3>1 DEF OwedOnce
    <3>2. CASE p \notin D
      BY <1>5, <3>2
    <3> QED BY <3>1, <3>2
  <2>3. ASSUME NEW p \in DOMAIN payables', NEW q \in DOMAIN payables',
               payables'[p].item = payables'[q].item
        PROVE  p = q
    <3>1. CASE p \in D /\ q \in D
      BY <1>3, <2>3, <3>1 DEF OwedOnce
    <3>2. CASE (p \in D /\ q \notin D) \/ (p \notin D /\ q \in D)
      BY <1>3, <1>5, <2>1, <2>3, <3>2
    <3>3. CASE p \notin D /\ q \notin D
      <4>1. /\ p - n \in DOMAIN new /\ q - n \in DOMAIN new
            /\ new[p - n].item = new[q - n].item
        BY <1>3, <2>3, <3>3
      <4>2. p - n = q - n /\ p \in Int /\ q \in Int
        BY <1>1, <1>3, <4>1
      <4> QED BY <1>0, <4>2
    <3> QED BY <3>1, <3>2, <3>3
  <2> QED BY <2>2, <2>3 DEF OwedOnce
<1> QED BY <1>4, <1>6, <1>8, <1>9, <1>10, <1>11

(* What is paid and offset.                                                *)
Offset(r) == IF r.offset THEN r.qty ELSE 0

LEMMA PaidFacts ==
  ASSUME BuyType
  PROVE  /\ PaidOut \in Int /\ OffsetAmount \in Int
         /\ OffsetAmount = SumOf([r \in returns |-> Offset(r)])
<1>1. PaidOut \in Int
  BY PurchasingConstants, SumInt DEF BuyType, PaidOut
<1> DEFINE f == [r \in returns |-> Offset(r)]
<1>2. f \in [returns -> Int] /\ IsFiniteSet(returns)
  BY DEF BuyType, ReturnRow, Offset
<1>3. OffsetAmount = SumOf(f)
  BY DEF OffsetAmount, Sum, Offset
<1> HIDE DEF f
<1>4. SumOf(f) \in Int
  BY <1>2, SumInt
<1> QED BY <1>1, <1>3, <1>4 DEF f

LEMMA OffsetGrows ==
  ASSUME BuyType, NEW r \in ReturnRow, r \notin returns, returns' = returns \cup {r}
  PROVE  /\ returns' \subseteq ReturnRow /\ IsFiniteSet(returns')
         /\ OffsetAmount' = OffsetAmount + Offset(r)
<1> DEFINE g == [x \in returns' |-> Offset(x)]
           f == [x \in returns |-> Offset(x)]
<1>1. returns' \subseteq ReturnRow /\ IsFiniteSet(returns')
  BY FS_AddElement DEF BuyType
<1>2. g \in [returns' -> Int]
  BY <1>1 DEF ReturnRow, Offset
<1>3. Without(g, returns', r) = f /\ g[r] = Offset(r) /\ r \in returns'
  BY DEF Without
<1>4. OffsetAmount' = SumOf(g) /\ OffsetAmount = SumOf(f)
  BY DEF OffsetAmount, Sum, Offset
<1> HIDE DEF f, g
<1>5. SumOf(g) = g[r] + SumOf(Without(g, returns', r))
  BY <1>1, <1>2, <1>3, SumOut
<1>6. SumOf(f) \in Int /\ Offset(r) \in Int
  BY <1>4, PaidFacts DEF Offset, ReturnRow
<1> QED BY <1>1, <1>3, <1>4, <1>5, <1>6

(* No payable is touched.                                                  *)
LEMMA PayablesKept ==
  ASSUME BuyInv, payables' = payables,
         items' \in Seq(ItemRow), DOMAIN items \subseteq DOMAIN items',
         \A i \in DOMAIN items : items'[i].stored = items[i].stored,
         lists' \in [1 .. NumLists -> ListRow],
         \A l \in 1 .. NumLists : /\ lists'[l].payment = lists[l].payment
                                  /\ lists'[l].status = "completed" => lists[l].payment = "paid",
         credit' \in Int, paid' \in [Key -> Int],
         returns' \subseteq ReturnRow, IsFiniteSet(returns'),
         PaidOut' + OffsetAmount' - credit' = PaidOut + OffsetAmount - credit
  PROVE  BuyInv'
<1> USE DEF BuyInv
<1>1. BuyType'
  BY DEF BuyType
<1>2. SettledWithin' /\ SettledSum' = SettledSum
  BY DEF SettledWithin, SettledSum, Sum
<1>3. \A l : OpenOf(l)' = OpenOf(l)
  BY DEF OpenOf, Open
<1>4. PaidHasNoOpen'
  BY <1>3 DEF PaidHasNoOpen
<1>5. ItemsAreThere' /\ OwedOnce'
  BY DEF ItemsAreThere, OwedOnce
<1> QED BY <1>1, <1>2, <1>4, <1>5

(* An amount is settled, and as much is paid or offset.                    *)
LEMMA PaymentKeeps ==
  ASSUME BuyInv, NEW S \in SUBSET DOMAIN payables, NEW a \in Nat, a <= Owed(S), Settle(S, a),
         items' \in Seq(ItemRow), DOMAIN items' = DOMAIN items,
         \A i \in DOMAIN items : items'[i].stored = items[i].stored,
         credit' = credit, paid' \in [Key -> Int],
         returns' \subseteq ReturnRow, IsFiniteSet(returns'),
         PaidOut' + OffsetAmount' = PaidOut + OffsetAmount + a
  PROVE  BuyInv'
<1> USE DEF BuyInv
<1>1. /\ payables' \in Seq(PayableRow) /\ lists' \in [1 .. NumLists -> ListRow]
      /\ DOMAIN payables' = DOMAIN payables
      /\ \A p \in DOMAIN payables : payables'[p].item = payables[p].item
      /\ SettledWithin' /\ PaidHasNoOpen' /\ SettledSum' = SettledSum + a
  BY SettleKeeps
<1>2. BuyType'
  BY <1>1 DEF BuyType
<1>3. SettledSum' = PaidOut' + OffsetAmount' - credit'
  <2>1. PaidOut \in Int /\ OffsetAmount \in Int /\ credit \in Int
    BY PaidFacts DEF BuyType
  <2>2. PaidOut' \in Int
    BY PurchasingConstants, SumInt DEF PaidOut
  <2>3. OffsetAmount' \in Int
    <3> DEFINE g == [r \in returns' |-> Offset(r)]
    <3>1. g \in [returns' -> Int] /\ OffsetAmount' = SumOf(g)
      BY DEF ReturnRow, Offset, OffsetAmount, Sum
    <3> HIDE DEF g
    <3> QED BY <3>1, SumInt
  <2>4. /\ SettledSum' = SettledSum + a /\ SettledSum = PaidOut + OffsetAmount - credit
        /\ PaidOut' + OffsetAmount' = PaidOut + OffsetAmount + a
        /\ credit' = credit /\ a \in Int
    BY <1>1
  <2>5. PICK p1 \in Int, o1 \in Int : p1 = PaidOut' /\ o1 = OffsetAmount'
    BY <2>2, <2>3
  <2>6. p1 + o1 = PaidOut + OffsetAmount + a
    BY <2>4, <2>5
  <2>7. SettledSum + a = p1 + o1 - credit
    <3>1. SettledSum = PaidOut + OffsetAmount - credit
      BY <2>4
    <3>2. p1 + o1 = PaidOut + OffsetAmount + a /\ a \in Int
      BY <2>6
    <3> QED BY ONLY <2>1, <3>1, <3>2
  <2> QED BY <2>4, <2>5, <2>7
<1>4. ItemsAreThere' /\ OwedOnce'
  BY <1>1 DEF ItemsAreThere, OwedOnce
<1> QED BY <1>1, <1>2, <1>3, <1>4

LEMMA BuyInvInit == Init => BuyInv
<1> SUFFICES ASSUME Init PROVE BuyInv
  OBVIOUS
<1>1. /\ items = <<>> /\ payables = <<>> /\ returns = {} /\ credit = 0
      /\ paid = [k \in Key |-> 0] /\ lists = [l \in 1 .. NumLists |-> Unlisted]
  BY DEF Init
<1>2. BuyType
  BY <1>1, FS_EmptySet DEF BuyType, Unlisted, ListRow
<1>3. DOMAIN payables = {}
  BY <1>1
<1>4. PaidOut = 0
  <2>1. paid \in [Key -> Int] /\ \A k \in Key : paid[k] = 0
    BY <1>1
  <2> QED BY <2>1, PurchasingConstants, SumZero DEF PaidOut
<1>5. OffsetAmount = 0 /\ SettledSum = 0
  <2>1. OffsetAmount = SumOf([r \in {} |-> Offset(r)])
    BY <1>1 DEF OffsetAmount, Sum, Offset
  <2>2. SettledSum = SumOf([p \in {} |-> payables[p].settled])
    BY <1>3 DEF SettledSum, Sum
  <2>3. /\ [r \in {} |-> Offset(r)] \in [{} -> Int]
        /\ [p \in {} |-> payables[p].settled] \in [{} -> Int]
    OBVIOUS
  <2> QED BY <2>1, <2>2, <2>3, SumEmpty
<1>6. PaidHasNoOpen
  BY <1>1, <1>3 DEF PaidHasNoOpen, OpenOf, Unlisted
<1>7. SettledWithin /\ ItemsAreThere /\ OwedOnce
  BY <1>3 DEF SettledWithin, ItemsAreThere, OwedOnce
<1> QED BY <1>1, <1>2, <1>4, <1>5, <1>6, <1>7 DEF BuyInv

(* Forms, orders and completions leave the payables alone.                 *)
LEMMA FormsKeep ==
  ASSUME BuyInv, UNCHANGED <<payables, credit, paid, returns>>,
         items' \in Seq(ItemRow), DOMAIN items \subseteq DOMAIN items',
         \A i \in DOMAIN items : items'[i].stored = items[i].stored,
         lists' \in [1 .. NumLists -> ListRow],
         \A l \in 1 .. NumLists : /\ lists'[l].payment = lists[l].payment
                                  /\ lists'[l].status = "completed" => lists[l].payment = "paid"
  PROVE  BuyInv'
<1>1. BuyType
  BY DEF BuyInv
<1>2. PaidOut' = PaidOut /\ OffsetAmount' = OffsetAmount
  BY DEF PaidOut, OffsetAmount, Sum
<1>3. PaidOut' + OffsetAmount' - credit' = PaidOut + OffsetAmount - credit
  BY <1>2
<1>4. payables' = payables /\ credit' \in Int /\ paid' \in [Key -> Int]
      /\ returns' \subseteq ReturnRow /\ IsFiniteSet(returns')
  BY <1>1 DEF BuyType
<1> QED BY <1>3, <1>4, PayablesKept

(* What the forms write in an item.                                        *)
Accepts(r, c)   == [r EXCEPT !.accepted = c, !.cost = c, !.returned = 0]
Orders(r, q, d) == [r EXCEPT !.qty = q, !.cost = d]

LEMMA AcceptsKeeps ==
  ASSUME NEW r \in ItemRow, NEW c \in Int
  PROVE  Accepts(r, c) \in ItemRow /\ Accepts(r, c).stored = r.stored
<1>1. Accepts(r, c) \in ItemRow
  <2> DEFINE x == [r EXCEPT !.accepted = c]
             y == [x EXCEPT !.cost = c]
             z == [y EXCEPT !.returned = 0]
  <2>1. x \in ItemRow
    BY DEF ItemRow
  <2>2. y \in ItemRow
    <3> HIDE DEF x
    <3> QED BY <2>1 DEF ItemRow
  <2>3. z \in ItemRow
    <3> HIDE DEF y
    <3> QED BY <2>2 DEF ItemRow
  <2> QED BY <2>3 DEF Accepts
<1>2. Accepts(r, c).stored = r.stored
  BY DEF ItemRow, Accepts
<1> QED BY <1>1, <1>2

LEMMA OrdersKeeps ==
  ASSUME NEW r \in ItemRow, NEW q \in Nat \ {0}, NEW d \in Int
  PROVE  Orders(r, q, d) \in ItemRow /\ Orders(r, q, d).stored = r.stored
<1>1. Orders(r, q, d) \in ItemRow
  BY DEF ItemRow, Orders
<1>2. Orders(r, q, d).stored = r.stored
  BY DEF ItemRow, Orders
<1> QED BY <1>1, <1>2

LEMMA FormStep ==
  ASSUME BuyInv, UNCHANGED vars \/ (\E l \in 1 .. NumLists :
           \/ \E q \in Quantity, priced \in BOOLEAN : AddItem(l, q, priced)
           \/ ConfirmOrder(l) \/ OpenAcceptance(l))
         \/ (\E got \in [DOMAIN items -> 0 .. MaxQty] : RecordAcceptance(got))
         \/ (\E i \in DOMAIN items : OpenItem(i))
         \/ (\E q \in Quantity : UpdateItem(q))
         \/ CancelItem \/ CompleteLists
         \/ (\E i \in DOMAIN items, q \in Quantity : MergeItem(i, q))
  PROVE  BuyInv'
<1>0. /\ BuyType /\ PaidHasNoOpen /\ items \in Seq(ItemRow) /\ lists \in [1 .. NumLists -> ListRow]
      /\ Len(items) \in Nat /\ DOMAIN items = 1 .. Len(items)
      /\ \A i \in DOMAIN items : items[i] \in ItemRow /\ items[i].list \in 1 .. NumLists
      /\ \A l \in 1 .. NumLists : lists[l].status = "completed" => lists[l].payment = "paid"
  BY ItemFacts DEF BuyInv, BuyType, PaidHasNoOpen
<1>q. \A q \in Quantity : q \in Nat \ {0}
  BY PurchasingConstants DEF Quantity
<1>1. CASE UNCHANGED vars
  BY <1>0, <1>1, FormsKeep DEF vars, books
<1>2. ASSUME NEW l \in 1 .. NumLists, NEW q \in Quantity, NEW priced \in BOOLEAN,
             AddItem(l, q, priced)
      PROVE  BuyInv'
  <2> DEFINE r == [list |-> l, status |-> "pending", qty |-> q,
                   cost |-> IF priced THEN q ELSE 0, accepted |-> -1,
                   returned |-> 0, stored |-> 0, gone |-> 0]
  <2>1. r \in ItemRow
    BY <1>q DEF ItemRow
  <2>2. items' = Append(items, r)
    BY <1>2 DEF AddItem
  <2> HIDE DEF r
  <2>3. /\ items' \in Seq(ItemRow) /\ DOMAIN items \subseteq DOMAIN items'
        /\ \A i \in DOMAIN items : items'[i] = items[i]
    BY <1>0, <2>1, <2>2
  <2>4. /\ lists' \in [1 .. NumLists -> ListRow]
        /\ \A m \in 1 .. NumLists : /\ lists'[m].payment = lists[m].payment
                                    /\ lists'[m].status = "completed" => lists[m].status = "completed"
    BY <1>0, <1>2 DEF AddItem, ListRow
  <2>5. UNCHANGED <<payables, credit, paid, returns>>
    BY <1>2 DEF AddItem
  <2> QED BY <1>0, <2>3, <2>4, <2>5, FormsKeep
<1>3. ASSUME NEW l \in 1 .. NumLists, ConfirmOrder(l) PROVE BuyInv'
  <2>1. /\ lists' \in [1 .. NumLists -> ListRow]
        /\ \A m \in 1 .. NumLists : /\ lists'[m].payment = lists[m].payment
                                    /\ lists'[m].status = "completed" => lists[m].status = "completed"
    BY <1>0, <1>3 DEF ConfirmOrder, ListRow
  <2>2. UNCHANGED <<items, payables, credit, paid, returns>>
    BY <1>3 DEF ConfirmOrder
  <2> QED BY <1>0, <2>1, <2>2, FormsKeep
<1>4. CASE (\E l \in 1 .. NumLists : OpenAcceptance(l)) \/ \E i \in DOMAIN items : OpenItem(i)
  <2>1. UNCHANGED <<lists, items, payables, credit, paid, returns>>
    BY <1>4 DEF OpenAcceptance, OpenItem, Opens, books
  <2> QED BY <1>0, <2>1, FormsKeep
<1>5. ASSUME NEW got \in [DOMAIN items -> 0 .. MaxQty], RecordAcceptance(got) PROVE BuyInv'
  <2>1. items' = [i \in DOMAIN items |->
                    IF i \in ActiveOf(form.of)
                    THEN [items[i] EXCEPT !.accepted = got[i], !.cost = got[i], !.returned = 0]
                    ELSE items[i]]
    BY <1>5 DEF RecordAcceptance
  <2>2. \A i \in DOMAIN items : items'[i] \in ItemRow /\ items'[i].stored = items[i].stored
    <3> SUFFICES ASSUME NEW i \in DOMAIN items
                 PROVE  items'[i] \in ItemRow /\ items'[i].stored = items[i].stored
      OBVIOUS
    <3>1. items[i] \in ItemRow /\ got[i] \in Int
      BY <1>0, <1>5, PurchasingConstants
    <3>2. items'[i] = Accepts(items[i], got[i]) \/ items'[i] = items[i]
      BY <2>1 DEF Accepts
    <3> QED BY <3>1, <3>2, AcceptsKeeps
  <2>3. items' \in [1 .. Len(items) -> ItemRow]
    BY <1>0, <2>1, <2>2
  <2>4. items' \in Seq(ItemRow) /\ DOMAIN items' = DOMAIN items
    BY <1>0, <2>3, AsSeq
  <2>5. /\ lists' \in [1 .. NumLists -> ListRow]
        /\ \A m \in 1 .. NumLists : /\ lists'[m].payment = lists[m].payment
                                    /\ lists'[m].status = "completed" => lists[m].status = "completed"
    BY <1>0, <1>5 DEF RecordAcceptance, ListRow
  <2>6. UNCHANGED <<payables, credit, paid, returns>>
    BY <1>5 DEF RecordAcceptance
  <2> QED BY <1>0, <2>2, <2>4, <2>5, <2>6, FormsKeep
<1>6. ASSUME NEW q \in Quantity, UpdateItem(q) PROVE BuyInv'
  <2>1. items' = [items EXCEPT ![form.of].qty = q, ![form.of].cost = q]
    BY <1>6 DEF UpdateItem
  <2>2. \A i \in DOMAIN items : items'[i] \in ItemRow /\ items'[i].stored = items[i].stored
    <3> SUFFICES ASSUME NEW i \in DOMAIN items
                 PROVE  items'[i] \in ItemRow /\ items'[i].stored = items[i].stored
      OBVIOUS
    <3>1. items[i] \in ItemRow /\ q \in Nat \ {0}
      BY <1>0, <1>q
    <3>2. items'[i] = Orders(items[i], q, q) \/ items'[i] = items[i]
      BY <2>1 DEF Orders
    <3> QED BY <3>1, <3>2, OrdersKeeps
  <2>3. items' \in [1 .. Len(items) -> ItemRow]
    BY <1>0, <2>1, <2>2
  <2>4. items' \in Seq(ItemRow) /\ DOMAIN items' = DOMAIN items
    BY <1>0, <2>3, AsSeq
  <2>5. UNCHANGED <<lists, payables, credit, paid, returns>>
    BY <1>6 DEF UpdateItem
  <2> QED BY <1>0, <2>2, <2>4, <2>5, FormsKeep
<1>7. CASE CancelItem
  <2>1. items' = [items EXCEPT ![form.of].status = "cancelled"]
    BY <1>7 DEF CancelItem
  <2>2. \A i \in DOMAIN items : items'[i] \in ItemRow /\ items'[i].stored = items[i].stored
    BY ZenonT(40), <1>0, <2>1 DEF ItemRow
  <2>3. items' \in [1 .. Len(items) -> ItemRow]
    BY <1>0, <2>1, <2>2
  <2>4. items' \in Seq(ItemRow) /\ DOMAIN items' = DOMAIN items
    BY <1>0, <2>3, AsSeq
  <2>5. UNCHANGED <<lists, payables, credit, paid, returns>>
    BY <1>7 DEF CancelItem
  <2> QED BY <1>0, <2>2, <2>4, <2>5, FormsKeep
<1>8. CASE CompleteLists
  <2>1. UNCHANGED <<items, payables, credit, paid, returns>>
    BY <1>8 DEF CompleteLists
  <2>2. lists' = [l \in 1 .. NumLists |->
                    IF Balance <= 0 /\ ItemsOf(l) # {} /\ MayComplete(l)
                    THEN [lists[l] EXCEPT !.status = "completed"] ELSE lists[l]]
    BY <1>8 DEF CompleteLists
  <2>3. /\ lists' \in [1 .. NumLists -> ListRow]
        /\ \A l \in 1 .. NumLists : /\ lists'[l].payment = lists[l].payment
                                    /\ lists'[l].status = "completed" => lists[l].payment = "paid"
    BY <1>0, <2>2 DEF ListRow, MayComplete
  <2> QED BY <1>0, <2>1, <2>3, FormsKeep
<1>9. ASSUME NEW i \in DOMAIN items, NEW q \in Quantity, MergeItem(i, q) PROVE BuyInv'
  <2>1. items' = [items EXCEPT ![i].qty = @ + q, ![i].cost = IF @ > 0 THEN items[i].qty + q ELSE 0]
    BY <1>9 DEF MergeItem
  <2>2. \A j \in DOMAIN items : items'[j] \in ItemRow /\ items'[j].stored = items[j].stored
    <3> SUFFICES ASSUME NEW j \in DOMAIN items
                 PROVE  items'[j] \in ItemRow /\ items'[j].stored = items[j].stored
      OBVIOUS
    <3>1. items[j] \in ItemRow /\ items[i] \in ItemRow /\ q \in Nat \ {0}
      BY <1>0, <1>q
    <3> DEFINE n == items[j].qty + q
               d == IF items[j].cost > 0 THEN items[i].qty + q ELSE 0
    <3>2. items'[j] = Orders(items[j], n, d) \/ items'[j] = items[j]
      BY <2>1 DEF Orders
    <3>3. n \in Nat \ {0} /\ d \in Int
      BY <3>1 DEF ItemRow
    <3> HIDE DEF n, d
    <3> QED BY ZenonT(40), <3>1, <3>2, <3>3, OrdersKeeps
  <2>3. items' \in [1 .. Len(items) -> ItemRow]
    BY <1>0, <2>1, <2>2
  <2>4. items' \in Seq(ItemRow) /\ DOMAIN items' = DOMAIN items
    BY <1>0, <2>3, AsSeq
  <2>5. UNCHANGED <<lists, payables, credit, paid, returns>>
    BY <1>9 DEF MergeItem
  <2> QED BY <1>0, <2>2, <2>4, <2>5, FormsKeep
<1> QED BY <1>1, <1>2, <1>3, <1>4, <1>5, <1>6, <1>7, <1>8, <1>9

(* What a delivery and a return write in an item.                          *)
Stores(r, n)   == [r EXCEPT !.stored = n, !.status = "purchased"]
Gives(r, q, s) == [r EXCEPT !.returned = @ + q, !.gone = @ + q, !.status = s]

LEMMA StoresKeeps ==
  ASSUME NEW r \in ItemRow, NEW n \in Int
  PROVE  Stores(r, n) \in ItemRow /\ Stores(r, n).stored = n
<1>1. Stores(r, n) \in ItemRow
  BY DEF ItemRow, Stores
<1>2. Stores(r, n).stored = n
  BY DEF ItemRow, Stores
<1> QED BY <1>1, <1>2

LEMMA GivesKeeps ==
  ASSUME NEW r \in ItemRow, NEW q \in Nat, NEW s \in {"pending", "purchased", "cancelled", "returned"}
  PROVE  Gives(r, q, s) \in ItemRow /\ Gives(r, q, s).stored = r.stored
<1>1. Gives(r, q, s) \in ItemRow
  <2> DEFINE x == [r EXCEPT !.returned = @ + q]
             y == [x EXCEPT !.gone = @ + q]
             z == [y EXCEPT !.status = s]
  <2>1. x \in ItemRow
    BY DEF ItemRow
  <2>2. y \in ItemRow
    <3> HIDE DEF x
    <3> QED BY <2>1 DEF ItemRow
  <2>3. z \in ItemRow
    <3> HIDE DEF y
    <3> QED BY <2>2 DEF ItemRow
  <2> QED BY <2>3 DEF Gives
<1>2. Gives(r, q, s).stored = r.stored
  BY DEF ItemRow, Gives
<1> QED BY <1>1, <1>2

(* Goods come into stock, f of each item, at a cost of c.                  *)
LEMMA StoreStep ==
  ASSUME BuyInv, NEW l \in 1 .. NumLists, NEW S \in SUBSET DOMAIN items,
         \A i \in S : items[i].stored = 0,
         NEW f \in [S -> Int], \A i \in S : f[i] > 0, NEW c \in [S -> Int],
         items' = [i \in DOMAIN items |-> IF i \in S THEN Stores(items[i], f[i]) ELSE items[i]],
         payables' = payables \o PayablesFor(S, l),
         lists' = [lists EXCEPT ![l].status = "stored", ![l].total = SumOf(c)],
         UNCHANGED <<credit, paid, returns>>
  PROVE  BuyInv'
<1>0. /\ BuyType /\ lists \in [1 .. NumLists -> ListRow]
      /\ Len(items) \in Nat /\ DOMAIN items = 1 .. Len(items)
      /\ \A i \in DOMAIN items : items[i] \in ItemRow
  BY ItemFacts DEF BuyInv, BuyType
<1>1. SumOf(c) \in Int
  <2>1. IsFiniteSet(S)
    <3>1. Len(items) \in Int
      BY <1>0
    <3>2. IsFiniteSet(1 .. Len(items))
      BY ONLY <3>1, FS_Interval
    <3> QED BY <1>0, <3>2, FS_Subset
  <2> QED BY <2>1, SumInt
<1>2. \A i \in DOMAIN items : /\ items'[i] \in ItemRow
                              /\ IF i \in S THEN items'[i].stored > 0 ELSE items'[i] = items[i]
  <2> SUFFICES ASSUME NEW i \in DOMAIN items
               PROVE  /\ items'[i] \in ItemRow
                      /\ IF i \in S THEN items'[i].stored > 0 ELSE items'[i] = items[i]
    OBVIOUS
  <2>1. CASE i \in S
    <3>1. items'[i] = Stores(items[i], f[i]) /\ f[i] \in Int /\ f[i] > 0
      BY <2>1
    <3>2. Stores(items[i], f[i]) \in ItemRow /\ Stores(items[i], f[i]).stored = f[i]
      BY <1>0, <3>1, StoresKeeps
    <3> QED BY <2>1, <3>1, <3>2
  <2>2. CASE i \notin S
    BY <1>0, <2>2
  <2> QED BY <2>1, <2>2
<1>3. items' \in [1 .. Len(items) -> ItemRow]
  BY <1>0, <1>2
<1>4. items' \in Seq(ItemRow) /\ DOMAIN items' = DOMAIN items
  BY <1>0, <1>3, AsSeq
<1>5. /\ lists' \in [1 .. NumLists -> ListRow]
      /\ \A m \in 1 .. NumLists : /\ lists'[m].payment = lists[m].payment
                                  /\ lists'[m].status = "completed" => lists[m].status = "completed"
  BY ZenonT(40), <1>0, <1>1 DEF ListRow
<1> QED BY <1>2, <1>4, <1>5, StoreKeeps

LEMMA ConfirmAcceptanceKeeps ==
  ASSUME BuyInv, NEW l \in 1 .. NumLists, ConfirmAcceptance(l)
  PROVE  BuyInv'
<1> DEFINE S == {i \in Unrecorded(ActiveOf(l)) : ToStore(i) > 0}
           f == [i \in S |-> ToStore(i)]
<1>1. /\ items' = [i \in DOMAIN items |->
                     IF i \in S THEN Stores(items[i], ToStore(i)) ELSE items[i]]
      /\ payables' = payables \o PayablesFor(S, l)
      /\ lists' = [lists EXCEPT ![l].status = "stored", ![l].total = SumOf(f)]
      /\ UNCHANGED <<credit, paid, returns>>
  BY DEF ConfirmAcceptance, Store, Stores, Sum
<1>2. \A i \in S : i \in DOMAIN items /\ items[i].stored = 0 /\ ToStore(i) > 0
  BY DEF Unrecorded, ActiveOf, ItemsOf
<1> HIDE DEF S
<1>3. \A i \in S : ToStore(i) \in Int
  BY <1>2, ItemFacts DEF ToStore, ItemRow, BuyInv
<1>4. f \in [S -> Int] /\ \A i \in S : f[i] > 0 /\ f[i] = ToStore(i)
  BY <1>2, <1>3
<1> HIDE DEF f
<1>5. items' = [i \in DOMAIN items |-> IF i \in S THEN Stores(items[i], f[i]) ELSE items[i]]
  BY <1>1, <1>4
<1>6. S \in SUBSET DOMAIN items /\ \A i \in S : items[i].stored = 0
  BY <1>2
<1> QED BY <1>1, <1>4, <1>5, <1>6, StoreStep

LEMMA ConfirmPurchaseKeeps ==
  ASSUME BuyInv, NEW l \in 1 .. NumLists, ConfirmPurchase(l)
  PROVE  BuyInv'
<1> DEFINE S == {i \in Unrecorded(ItemsOf(l)) : items[i].status = "pending"}
           f == [i \in S |-> items[i].qty]
           c == [i \in S |-> Cost(i)]
<1>1. /\ items' = [i \in DOMAIN items |->
                     IF i \in S THEN Stores(items[i], items[i].qty) ELSE items[i]]
      /\ payables' = payables \o PayablesFor(S, l)
      /\ lists' = [lists EXCEPT ![l].status = "stored", ![l].total = SumOf(c)]
      /\ UNCHANGED <<credit, paid, returns>>
  BY DEF ConfirmPurchase, Store, Stores, Sum
<1>2. \A i \in S : i \in DOMAIN items /\ items[i].stored = 0
  BY DEF Unrecorded, ItemsOf
<1> HIDE DEF S
<1>3. \A i \in S : items[i].qty \in Int /\ items[i].qty > 0 /\ Cost(i) \in Int
  BY <1>2, ItemFacts DEF Cost, ItemRow, BuyInv
<1>4. /\ f \in [S -> Int] /\ \A i \in S : f[i] > 0 /\ f[i] = items[i].qty
      /\ c \in [S -> Int]
  BY <1>2, <1>3
<1> HIDE DEF f, c
<1>5. items' = [i \in DOMAIN items |-> IF i \in S THEN Stores(items[i], f[i]) ELSE items[i]]
  BY <1>1, <1>4
<1>6. S \in SUBSET DOMAIN items /\ \A i \in S : items[i].stored = 0
  BY <1>2
<1> QED BY <1>1, <1>4, <1>5, <1>6, StoreStep

(* A payment is settled and booked, or is the same one again.              *)
LEMMA PaySupplierKeeps ==
  ASSUME BuyInv, NEW k \in Key, NEW S \in SUBSET DOMAIN payables, NEW a \in 1 .. NumItems * MaxQty,
         PaySupplier(k, S, a)
  PROVE  BuyInv'
<1>0. /\ BuyType /\ items \in Seq(ItemRow) /\ lists \in [1 .. NumLists -> ListRow]
      /\ paid \in [Key -> Int] /\ returns \subseteq ReturnRow /\ IsFiniteSet(returns)
      /\ \A l \in 1 .. NumLists : lists[l].status = "completed" => lists[l].payment = "paid"
      /\ a \in Nat /\ UNCHANGED <<items, credit, returns>>
  BY PurchasingConstants DEF BuyInv, BuyType, PaidHasNoOpen, PaySupplier
<1>1. CASE IsRetry(k, a)
  <2>1. UNCHANGED <<payables, lists, paid>>
    BY <1>1 DEF PaySupplier
  <2> QED BY <1>0, <2>1, FormsKeep
<1>2. CASE ~IsRetry(k, a)
  <2>1. paid[k] = 0 /\ a <= Owed(S) /\ Settle(S, a) /\ paid' = [paid EXCEPT ![k] = @ + a]
    BY <1>2 DEF PaySupplier, MayPay
  <2>2. paid' \in [Key -> Int] /\ paid'[k] = a /\ \A j \in Key \ {k} : paid[j] = paid'[j]
    BY <1>0, <2>1
  <2>3. PaidOut' = PaidOut + a
    <3>1. SumOf(paid') = SumOf(paid) + paid'[k] - paid[k]
      BY <1>0, <2>2, PurchasingConstants, SumUpdate
    <3>2. SumOf(paid) \in Int
      BY <1>0, PurchasingConstants, SumInt
    <3>3. SumOf(paid') = SumOf(paid) + a
      BY <1>0, <2>1, <2>2, <3>1, <3>2
    <3> QED BY <3>3 DEF PaidOut
  <2>4. OffsetAmount' = OffsetAmount
    BY <1>0 DEF OffsetAmount, Sum
  <2>5. PaidOut' + OffsetAmount' = PaidOut + OffsetAmount + a
    <3>1. PaidOut \in Int /\ OffsetAmount \in Int
      BY <1>0, PaidFacts
    <3> QED BY <1>0, <2>3, <2>4, <3>1
  <2>6. /\ items' \in Seq(ItemRow) /\ DOMAIN items' = DOMAIN items
        /\ \A i \in DOMAIN items : items'[i].stored = items[i].stored
        /\ credit' = credit /\ returns' \subseteq ReturnRow /\ IsFiniteSet(returns')
    BY <1>0
  <2> QED BY <1>0, <2>1, <2>2, <2>5, <2>6, PaymentKeeps
<1> QED BY <1>1, <1>2

(* Goods go back: the offset is settled, or credited.                      *)
LEMMA ReturnItemKeeps ==
  ASSUME BuyInv, NEW i \in DOMAIN items, NEW q \in Quantity, NEW offset \in BOOLEAN,
         ReturnItem(i, q, offset)
  PROVE  BuyInv'
<1> DEFINE l == items[i].list
           open == OpenOf(l)
           r == [item |-> i, before |-> items[i].returned, qty |-> q, offset |-> offset]
           s == IF items[i].returned + q >= Delivered(i) THEN "returned" ELSE items[i].status
<1>0. /\ BuyType /\ items \in Seq(ItemRow) /\ lists \in [1 .. NumLists -> ListRow]
      /\ Len(items) \in Nat /\ DOMAIN items = 1 .. Len(items)
      /\ \A j \in DOMAIN items : items[j] \in ItemRow
      /\ paid \in [Key -> Int] /\ credit \in Int
      /\ \A m \in 1 .. NumLists : lists[m].status = "completed" => lists[m].payment = "paid"
      /\ q \in Nat
  <2>1. BuyType /\ PaidHasNoOpen
    BY DEF BuyInv
  <2>2. q \in Nat
    BY DEF Quantity
  <2>3. /\ Len(items) \in Nat /\ DOMAIN items = 1 .. Len(items)
        /\ \A j \in DOMAIN items : items[j] \in ItemRow
    BY <2>1, ItemFacts
  <2> QED BY <2>1, <2>2, <2>3 DEF BuyType, PaidHasNoOpen
<1>1. /\ IF offset /\ open # {} THEN MayPay(open, q) /\ Settle(open, q)
         ELSE UNCHANGED <<payables, lists>>
      /\ credit' = IF offset /\ open = {} THEN credit + q ELSE credit
      /\ returns' = returns \cup {r}
      /\ items' = [items EXCEPT ![i].returned = @ + q, ![i].gone = @ + q, ![i].status = s]
      /\ paid' = paid
  BY DEF ReturnItem
<1>2. r \in ReturnRow /\ r \notin returns /\ Offset(r) = IF offset THEN q ELSE 0
  <2>1. r.item = i /\ r.before = items[i].returned /\ r.qty = q /\ r.offset = offset
    OBVIOUS
  <2>2. r \notin returns
    BY <2>1 DEF ReturnItem
  <2>3. i \in Nat /\ items[i].returned \in Int
    <3>1. items[i] \in ItemRow /\ i \in 1 .. Len(items)
      BY <1>0
    <3>2. i \in Nat
      BY <1>0, <3>1
    <3> QED BY <3>1, <3>2 DEF ItemRow
  <2> QED BY <1>0, <2>1, <2>2, <2>3 DEF ReturnRow, Offset
<1>3. /\ returns' \subseteq ReturnRow /\ IsFiniteSet(returns')
      /\ OffsetAmount' = OffsetAmount + Offset(r)
  <2> HIDE DEF r
  <2> QED BY <1>0, <1>1, <1>2, OffsetGrows
<1>4. \A j \in DOMAIN items : items'[j] \in ItemRow /\ items'[j].stored = items[j].stored
  <2> SUFFICES ASSUME NEW j \in DOMAIN items
               PROVE  items'[j] \in ItemRow /\ items'[j].stored = items[j].stored
    OBVIOUS
  <2>1. s \in {"pending", "purchased", "cancelled", "returned"}
    BY <1>0 DEF ItemRow
  <2> HIDE DEF s
  <2>2. items'[j] = Gives(items[j], q, s) \/ items'[j] = items[j]
    BY <1>1 DEF Gives
  <2>3. Gives(items[j], q, s) \in ItemRow /\ Gives(items[j], q, s).stored = items[j].stored
    BY <1>0, <2>1, GivesKeeps
  <2> QED BY <1>0, <2>2, <2>3
<1>5. items' \in [1 .. Len(items) -> ItemRow]
  BY <1>0, <1>1, <1>4
<1>6. items' \in Seq(ItemRow) /\ DOMAIN items' = DOMAIN items
  BY <1>0, <1>5, AsSeq
<1>7. PaidOut' = PaidOut /\ PaidOut \in Int /\ OffsetAmount \in Int
  <2>1. PaidOut' = PaidOut
    BY <1>1 DEF PaidOut
  <2> QED BY <1>0, <2>1, PaidFacts
<1>8. paid' \in [Key -> Int]
  BY <1>0, <1>1
<1> HIDE DEF r, s
<1>9. CASE offset /\ open # {}
  <2>1. q <= Owed(open) /\ Settle(open, q) /\ credit' = credit /\ OffsetAmount' = OffsetAmount + q
    BY <1>1, <1>2, <1>3, <1>9 DEF MayPay
  <2>2. open \in SUBSET DOMAIN payables
    BY DEF OpenOf
  <2>3. PaidOut' + OffsetAmount' = PaidOut + OffsetAmount + q
    <3>1. OffsetAmount' = OffsetAmount + q /\ q \in Int
      BY <1>0, <2>1
    <3> QED BY ONLY <1>7, <3>1
  <2> HIDE DEF open
  <2> QED BY <1>0, <1>3, <1>4, <1>6, <1>8, <2>1, <2>2, <2>3, PaymentKeeps
<1>10. CASE ~(offset /\ open # {})
  <2>1. payables' = payables /\ lists' = lists
    BY <1>1, <1>10
  <2>2. \/ credit' = credit + q /\ Offset(r) = q
        \/ credit' = credit /\ Offset(r) = 0
    BY <1>1, <1>2, <1>10
  <2>3. credit' \in Int
    BY <1>0, <2>2
  <2>4. PaidOut' + OffsetAmount' - credit' = PaidOut + OffsetAmount - credit
    <3>1. OffsetAmount' = OffsetAmount + Offset(r) /\ q \in Int /\ credit \in Int
      BY <1>0, <1>3
    <3> QED BY ONLY <1>7, <2>2, <3>1
  <2>5. /\ lists' \in [1 .. NumLists -> ListRow]
        /\ \A m \in 1 .. NumLists : /\ lists'[m].payment = lists[m].payment
                                    /\ lists'[m].status = "completed" => lists[m].payment = "paid"
    BY <1>0, <2>1
  <2> QED BY <1>3, <1>4, <1>6, <1>8, <2>1, <2>3, <2>4, <2>5, PayablesKept
<1> QED BY <1>9, <1>10

LEMMA BuyInvStep == BuyInv /\ [Next]_vars => BuyInv'
<1> SUFFICES ASSUME BuyInv, [Next]_vars PROVE BuyInv'
  OBVIOUS
<1>1. CASE UNCHANGED vars \/ (\E l \in 1 .. NumLists :
           \/ \E q \in Quantity, priced \in BOOLEAN : AddItem(l, q, priced)
           \/ ConfirmOrder(l) \/ OpenAcceptance(l))
         \/ (\E got \in [DOMAIN items -> 0 .. MaxQty] : RecordAcceptance(got))
         \/ (\E i \in DOMAIN items : OpenItem(i))
         \/ (\E q \in Quantity : UpdateItem(q))
         \/ CancelItem \/ CompleteLists
         \/ (\E i \in DOMAIN items, q \in Quantity : MergeItem(i, q))
  BY <1>1, FormStep
<1>2. ASSUME NEW l \in 1 .. NumLists, ConfirmAcceptance(l) PROVE BuyInv'
  BY <1>2, ConfirmAcceptanceKeeps
<1>3. ASSUME NEW l \in 1 .. NumLists, ConfirmPurchase(l) PROVE BuyInv'
  BY <1>3, ConfirmPurchaseKeeps
<1>4. ASSUME NEW k \in Key, NEW S \in SUBSET (DOMAIN payables), NEW a \in 1 .. NumItems * MaxQty,
             PaySupplier(k, S, a)
      PROVE  BuyInv'
  BY <1>4, PaySupplierKeeps
<1>5. ASSUME NEW i \in DOMAIN items, NEW q \in Quantity, NEW offset \in BOOLEAN,
             ReturnItem(i, q, offset)
      PROVE  BuyInv'
  BY <1>5, ReturnItemKeeps
<1> QED BY Zenon, <1>1, <1>2, <1>3, <1>4, <1>5 DEF Next

(* The balance is what is open, less what was credited.                    *)
LEMMA BuyInvAgrees == BuyInv => PurchasesAddUp
<1> SUFFICES ASSUME BuyInv PROVE PurchasesAddUp
  OBVIOUS
<1> DEFINE D == DOMAIN payables
           f == [p \in D |-> payables[p].amount]
           g == [p \in D |-> payables[p].settled]
           h == [p \in D |-> Open(p)]
<1>0. /\ BuyType /\ SettledWithin /\ SettledSum = PaidOut + OffsetAmount - credit
      /\ credit \in Int
  BY DEF BuyInv, BuyType
<1>1. IsFiniteSet(D) /\ f \in [D -> Int] /\ g \in [D -> Int]
  BY <1>0, PayableFacts
<1>2. h \in [D -> Int] /\ Owed(D) = SumOf(h) /\ Owed(D) \in Nat
  <2>1. D \in SUBSET DOMAIN payables
    OBVIOUS
  <2>2. (\A p \in D : Open(p) \in Nat) /\ Owed(D) = SumOf(h) /\ Owed(D) \in Nat
    BY <1>0, <2>1, OwedFacts
  <2> QED BY <2>2
<1>3. \A p \in D : h[p] = f[p] - g[p]
  BY DEF Open
<1>4. Bought = SumOf(f) /\ SettledSum = SumOf(g)
  BY DEF Bought, SettledSum, Sum
<1> HIDE DEF f, g, h, D
<1>5. SumOf(h) = SumOf(f) - SumOf(g) /\ SumOf(f) \in Int
  BY <1>1, <1>2, <1>3, SumMinus, SumInt
<1>6. PaidOut \in Int /\ OffsetAmount \in Int
  BY <1>0, PaidFacts
<1>7. Balance = Owed(D) - credit
  <2>1. /\ Balance = Bought - PaidOut - OffsetAmount /\ Bought \in Int
        /\ Owed(D) = Bought - SettledSum /\ SettledSum = PaidOut + OffsetAmount - credit
    BY <1>0, <1>2, <1>4, <1>5 DEF Balance
  <2> QED BY ONLY <1>0, <1>6, <2>1
<1>8. AccountsAgree
  <2>1. credit = 0 => Balance >= 0
    BY <1>2, <1>7
  <2> QED BY <1>0, <1>7, <2>1 DEF AccountsAgree, SettledWithin, D
<1>9. OwedOnce /\ CompletedIsPaid
  BY DEF BuyInv, PaidHasNoOpen, CompletedIsPaid
<1> QED BY <1>8, <1>9 DEF PurchasesAddUp

(* Whatever is ordered, delivered, paid, sent back and confirmed twice, in *)
(* any order, the two ways that accounts_service has to say what a         *)
(* supplier is owed agree, no payable is settled beyond its amount, an     *)
(* item is owed for once, and a completed list owes nothing.               *)
THEOREM PurchasesAddUpHolds == Spec => []PurchasesAddUp
  BY BuyInvInit, BuyInvStep, BuyInvAgrees, PTL DEF Spec


-----------------------------------------------------------------------------
(* Subscriptions                                                           *)

SubRow == [status : {"trialing", "active", "past_due", "canceled", "expired"},
           end : Int, length : Nat, renew : BOOLEAN]

InvoiceStatus == {"draft", "sent", "overdue", "paid", "void"}

InvoiceRow == [sub : Nat, from : Int, to : Int, byHand : BOOLEAN, status : InvoiceStatus]

Renewing == [sub : Nat \ {0}, from : Int, to : Int, unseen : SUBSET (Nat \X Int)]

(* What an administrator has in hand is fit to be written, and would not   *)
(* set the status of a row that was read as ended.                         *)
Fits(taken) ==
  /\ taken.on = "sub" => /\ taken.of \in Nat \ {0} /\ taken.of <= Len(subs) /\ taken.row \in SubRow
                         /\ taken.read \in Saas!EndedSub => "status" \notin taken.columns
  /\ taken.on = "new" => taken.row \in SubRow
  /\ taken.on = "invoice" => taken.status \in InvoiceStatus /\ taken.read \notin Saas!EndedInvoice

SaasType ==
  /\ day \in Nat
  /\ subs \in Seq(SubRow)
  /\ invoices \subseteq InvoiceRow
  /\ making \in [Payer -> Renewing \cup {Saas!Nothing}]
  /\ DOMAIN hands = Clerk /\ \A c \in Clerk : Fits(hands[c])

(* Who is about to make an invoice has looked at all there are, but for    *)
(* those inserted since.                                                   *)
MissesUnseen ==
  \A m \in Payer : making[m] # Saas!Nothing =>
    \A i \in invoices : ~i.byHand /\ Saas!Overlaps(i, making[m]) =>
      Saas!Period(i) \in making[m].unseen

RenewalInv == SaasType /\ MissesUnseen /\ RenewalsDisjoint

LEMMA SaasInit == Saas!Init => RenewalInv
<1> SUFFICES ASSUME Saas!Init PROVE RenewalInv
  OBVIOUS
<1>1. Fits(Saas!Free)
  BY DEF Fits, Saas!Free
<1>2. SaasType
  BY <1>1, CyclesAreDays DEF Saas!Init, SaasType, SubRow
<1> QED BY <1>2 DEF Saas!Init, RenewalInv, MissesUnseen, RenewalsDisjoint, Saas!RenewalsDisjoint

(* A step that leaves the invoices alone.                                  *)
LEMMA BillingKept ==
  ASSUME RenewalInv, day' \in Nat, subs' \in Seq(SubRow), Len(subs) <= Len(subs'),
         UNCHANGED <<invoices, making, crossed>>,
         DOMAIN hands' = Clerk, \A c \in Clerk : Fits(hands'[c])
  PROVE  RenewalInv'
<1>0. Len(subs) \in Nat /\ Len(subs') \in Nat
  BY DEF RenewalInv, SaasType
<1>1. \A c \in Clerk : Fits(hands[c])'
  BY <1>0 DEF Fits
<1> QED BY <1>1 DEF RenewalInv, SaasType, MissesUnseen, RenewalsDisjoint, Saas!RenewalsDisjoint

(* A step of the jobs, or of the clock.                                    *)
LEMMA HandsKept ==
  ASSUME RenewalInv, day' \in Nat, subs' \in Seq(SubRow), Len(subs) <= Len(subs'),
         UNCHANGED <<invoices, making, crossed, hands>>
  PROVE  RenewalInv'
  BY BillingKept DEF RenewalInv, SaasType

LEMMA SubsOverdue ==
  ASSUME SaasType, NEW states, NEW days \in Int,
         NEW status \in {"past_due", "expired"}, Saas!Overdue(states, days, status)
  PROVE  subs' \in Seq(SubRow) /\ Len(subs') = Len(subs)
<1>0. ASSUME NEW s \in DOMAIN subs PROVE subs'[s] \in SubRow
  <2>1. subs[s] \in SubRow
    BY DEF SaasType
  <2>2. [subs[s] EXCEPT !.status = status] \in SubRow
    BY <2>1 DEF SubRow
  <2>3. subs'[s] \in {subs[s], [subs[s] EXCEPT !.status = status]}
    BY DEF Saas!Overdue
  <2> QED BY <2>1, <2>2, <2>3
<1>1. \A s \in DOMAIN subs : subs'[s] \in SubRow
  BY <1>0
<1>2. DOMAIN subs' = 1 .. Len(subs) /\ Len(subs) \in Nat /\ DOMAIN subs = 1 .. Len(subs)
  BY DEF Saas!Overdue, SaasType
<1>3. subs' = [s \in 1 .. Len(subs) |-> subs'[s]]
  BY <1>2 DEF Saas!Overdue
<1> QED BY <1>1, <1>2, <1>3

LEMMA InsertFacts ==
  ASSUME SaasType, NEW row, row.sub \in Nat, row.from \in Int, row.to \in Int,
         NEW status \in {"draft", "sent"}, NEW byHand \in BOOLEAN,
         Saas!Insert(row, status, byHand)
  PROVE  /\ invoices' \subseteq InvoiceRow /\ invoices \subseteq invoices'
         /\ \A i \in invoices' :
              i \in invoices \/ i = [sub |-> row.sub, from |-> row.from, to |-> row.to,
                                     status |-> status, byHand |-> byHand]
  BY DEF SaasType, Saas!Insert, InvoiceRow, InvoiceStatus

(* A transaction takes work that fits.                                     *)
LEMMA TakesFits ==
  ASSUME RenewalInv, NEW c \in Clerk, NEW taken, Fits(taken), Saas!Takes(c, taken)
  PROVE  RenewalInv'
<1>1. /\ hands' = [hands EXCEPT ![c] = taken]
      /\ UNCHANGED <<day, subs, invoices, making, crossed>>
  BY DEF Saas!Takes, Saas!billing
<1>2. DOMAIN hands' = Clerk /\ \A b \in Clerk : Fits(hands'[b])
  BY <1>1 DEF RenewalInv, SaasType
<1> QED BY <1>1, <1>2, BillingKept DEF RenewalInv, SaasType

(* What each administrator takes fits.                                     *)
LEMMA SubFits ==
  ASSUME SaasType, NEW s \in DOMAIN subs, NEW new \in SubRow, NEW columns, NEW status,
         subs[s].status \in Saas!EndedSub => "status" \notin columns
  PROVE  Fits(Saas!Row(s, new, columns, status))
  BY DEF SaasType, Fits, Saas!Row

LEMMA InvoiceFits ==
  ASSUME NEW i, NEW status \in InvoiceStatus, status \in Saas!InvoiceMoves[i.status],
         i.status \in InvoiceStatus
  PROVE  Fits(Saas!Invoice(i, status))
<1>1. i.status \notin Saas!EndedInvoice
  BY DEF Saas!InvoiceMoves, Saas!EndedInvoice, InvoiceStatus
<1> QED BY <1>1 DEF Fits, Saas!Invoice

LEMMA AdminTakes ==
  ASSUME RenewalInv, NEW c \in Clerk,
         \/ \E i \in invoices, status \in DOMAIN Saas!InvoiceMoves : Saas!UpdateInvoice(c, i, status)
         \/ \E i \in invoices : Saas!MarkPaid(c, i)
         \/ \E length \in {Month, Year} : Saas!CreateSubscription(c, length)
         \/ \E s \in DOMAIN subs, length \in {Month, Year}, renew \in BOOLEAN :
              Saas!UpdateSubscription(c, s, length, renew)
         \/ \E s \in DOMAIN subs : Saas!CancelSubscription(c, s)
         \/ \E s \in DOMAIN subs : Saas!ActivateSubscription(c, s)
         \/ \E status \in DOMAIN Saas!TenantMoves : Saas!UpdateTenant(c, status)
  PROVE  \E taken : Fits(taken) /\ Saas!Takes(c, taken)
<1>t. SaasType /\ day \in Nat /\ \A s \in DOMAIN subs : subs[s] \in SubRow
  BY DEF RenewalInv, SaasType
<1>1. ASSUME NEW i \in invoices, NEW status \in DOMAIN Saas!InvoiceMoves,
             Saas!UpdateInvoice(c, i, status)
      PROVE  \E taken : Fits(taken) /\ Saas!Takes(c, taken)
  <2>1. status \in InvoiceStatus /\ i.status \in InvoiceStatus
    BY <1>t DEF Saas!InvoiceMoves, InvoiceStatus, SaasType, InvoiceRow
  <2> QED BY <1>1, <2>1, InvoiceFits DEF Saas!UpdateInvoice
<1>2. ASSUME NEW i \in invoices, Saas!MarkPaid(c, i)
      PROVE  \E taken : Fits(taken) /\ Saas!Takes(c, taken)
  <2>1. "paid" \in InvoiceStatus /\ i.status \in InvoiceStatus
    BY <1>t DEF InvoiceStatus, SaasType, InvoiceRow
  <2> QED BY <1>2, <2>1, InvoiceFits DEF Saas!MarkPaid
<1>3. ASSUME NEW length \in {Month, Year}, Saas!CreateSubscription(c, length)
      PROVE  \E taken : Fits(taken) /\ Saas!Takes(c, taken)
  <2>1. PICK row, status : /\ row = [status |-> "active", end |-> day + length,
                                     length |-> length, renew |-> TRUE]
                           /\ Saas!Takes(c, [on |-> "new", row |-> row, tenant |-> status])
    BY <1>3 DEF Saas!CreateSubscription
  <2>2. row \in SubRow
    BY <1>t, <2>1, CyclesAreDays DEF SubRow
  <2>3. Fits([on |-> "new", row |-> row, tenant |-> status])
    BY <2>2 DEF Fits
  <2> QED BY <2>1, <2>3
<1>4. ASSUME NEW s \in DOMAIN subs, NEW length \in {Month, Year}, NEW renew \in BOOLEAN,
             Saas!UpdateSubscription(c, s, length, renew)
      PROVE  \E taken : Fits(taken) /\ Saas!Takes(c, taken)
  <2>1. PICK new, changed : /\ new = [subs[s] EXCEPT !.length = length, !.renew = renew]
                            /\ changed \subseteq {"length", "renew"}
                            /\ Saas!Takes(c, Saas!Row(s, new, changed, "kept"))
    BY <1>4 DEF Saas!UpdateSubscription
  <2>2. new \in SubRow
    BY <1>t, <2>1, CyclesAreDays DEF SubRow
  <2> QED BY <1>t, <2>1, <2>2, SubFits
<1>5. ASSUME NEW s \in DOMAIN subs, Saas!CancelSubscription(c, s)
      PROVE  \E taken : Fits(taken) /\ Saas!Takes(c, taken)
  <2>1. PICK new, changed : /\ new = [subs[s] EXCEPT !.status = "canceled", !.renew = FALSE]
                            /\ Saas!Takes(c, Saas!Row(s, new, changed, "kept"))
    BY <1>5 DEF Saas!CancelSubscription
  <2>2. subs[s] \in SubRow /\ "canceled" \in Saas!SubMoves[subs[s].status]
    BY <1>t, <1>5 DEF Saas!CancelSubscription
  <2>3. new \in SubRow
    BY <2>1, <2>2 DEF SubRow
  <2>4. subs[s].status \notin Saas!EndedSub
    BY <2>2 DEF SubRow, Saas!SubMoves, Saas!EndedSub
  <2> QED BY <1>t, <2>1, <2>3, <2>4, SubFits
<1>6. ASSUME NEW s \in DOMAIN subs, Saas!ActivateSubscription(c, s)
      PROVE  \E taken : Fits(taken) /\ Saas!Takes(c, taken)
  <2>1. PICK end, new, changed, status :
             /\ end = day + subs[s].length
             /\ new = [subs[s] EXCEPT !.status = "active", !.end = end]
             /\ Saas!Takes(c, Saas!Row(s, new, changed, status))
    BY <1>6 DEF Saas!ActivateSubscription
  <2>2. subs[s] \in SubRow /\ "active" \in Saas!SubMoves[subs[s].status]
    BY <1>t, <1>6 DEF Saas!ActivateSubscription
  <2>3. end \in Int
    BY <1>t, <2>1, <2>2 DEF SubRow
  <2>4. new \in SubRow
    BY <2>1, <2>2, <2>3 DEF SubRow
  <2>5. subs[s].status \notin Saas!EndedSub
    BY <2>2 DEF SubRow, Saas!SubMoves, Saas!EndedSub
  <2> QED BY <1>t, <2>1, <2>4, <2>5, SubFits
<1>7. ASSUME NEW status \in DOMAIN Saas!TenantMoves, Saas!UpdateTenant(c, status)
      PROVE  \E taken : Fits(taken) /\ Saas!Takes(c, taken)
  <2>1. Fits([on |-> "tenant", tenant |-> status])
    BY DEF Fits
  <2> QED BY <1>7, <2>1 DEF Saas!UpdateTenant
<1> QED BY <1>1, <1>2, <1>3, <1>4, <1>5, <1>6, <1>7, Zenon

(* Who has committed has nothing in hand.                                  *)
LEMMA HandsDone ==
  ASSUME SaasType, NEW c \in Clerk, Saas!Done(c)
  PROVE  /\ DOMAIN hands' = Clerk /\ hands'[c] = Saas!Free
         /\ \A b \in Clerk : Fits(hands'[b])
         /\ UNCHANGED <<day, making, crossed>>
<1>1. Fits(Saas!Free)
  BY DEF Fits, Saas!Free
<1> QED BY <1>1 DEF SaasType, Saas!Done

(* The changed columns of one subscription are written.                    *)
LEMMA RowWritten ==
  ASSUME SaasType, NEW c \in Clerk, Saas!SaveSubscription(c)
  PROVE  /\ hands[c].of \in DOMAIN subs
         /\ subs' \in Seq(SubRow) /\ Len(subs') = Len(subs)
         /\ \A s \in DOMAIN subs : s # hands[c].of => subs'[s] = subs[s]
         /\ "status" \notin hands[c].columns =>
              subs'[hands[c].of].status = subs[hands[c].of].status
<1> DEFINE s == hands[c].of
           new == hands[c].row
           columns == hands[c].columns
           row == subs[s]
           written == [col \in DOMAIN row |-> IF col \in columns THEN new[col] ELSE row[col]]
<1>0. Fits(hands[c]) /\ hands[c].on = "sub" /\ subs \in Seq(SubRow)
  BY DEF SaasType, Saas!SaveSubscription
<1>1. s \in DOMAIN subs /\ new \in SubRow /\ row \in SubRow
  BY <1>0 DEF Fits
<1>2. subs' = [subs EXCEPT ![s] = written]
  BY DEF Saas!SaveSubscription
<1>3. written \in SubRow /\ ("status" \notin columns => written.status = row.status)
  <2>1. DOMAIN row = {"status", "end", "length", "renew"}
    BY <1>1 DEF SubRow
  <2> HIDE DEF row, new, columns
  <2> QED BY <1>1, <2>1 DEF SubRow
<1> HIDE DEF written
<1>4. subs' \in Seq(SubRow) /\ Len(subs') = Len(subs) /\ subs'[s] = written
  BY <1>1, <1>2, <1>3 DEF SaasType
<1> QED BY <1>1, <1>2, <1>3, <1>4 DEF SaasType

(* A new status leaves an invoice the days it bills.                       *)
LEMMA StatusWritten ==
  ASSUME SaasType, NEW c \in Clerk, Saas!SaveInvoice(c)
  PROVE  \E F \in [invoices -> InvoiceRow] :
           /\ invoices' = {F[i] : i \in invoices}
           /\ \A i \in invoices : /\ F[i].sub = i.sub /\ F[i].from = i.from /\ F[i].to = i.to
                                  /\ F[i].byHand = i.byHand
                                  /\ Saas!Period(F[i]) = Saas!Period(i)
                                  /\ Saas!Period(i) # hands[c].of => F[i] = i
<1> DEFINE F == [i \in invoices |-> IF Saas!Period(i) = hands[c].of
                                    THEN [i EXCEPT !.status = hands[c].status] ELSE i]
<1>1. invoices' = {F[i] : i \in invoices}
  BY DEF Saas!SaveInvoice
<1>2. hands[c].status \in InvoiceStatus
  BY DEF Saas!SaveInvoice, SaasType, Fits
<1>3. ASSUME NEW i \in invoices
      PROVE  /\ F[i] \in InvoiceRow
             /\ F[i].sub = i.sub /\ F[i].from = i.from /\ F[i].to = i.to
             /\ F[i].byHand = i.byHand
  <2>1. i \in InvoiceRow
    BY DEF SaasType
  <2> QED BY <1>2, <2>1 DEF InvoiceRow
<1>4. \A i \in invoices : Saas!Period(F[i]) = Saas!Period(i)
  BY <1>3 DEF Saas!Period
<1>5. \A i \in invoices : Saas!Period(i) # hands[c].of => F[i] = i
  OBVIOUS
<1>6. F \in [invoices -> InvoiceRow]
  BY <1>3
<1> HIDE DEF F
<1> QED BY <1>1, <1>3, <1>4, <1>5, <1>6

(* Whatever is inserted for `row`, who has looked already takes it for     *)
(* unseen, and nobody else's period changes.                               *)
LEMMA MissedFacts ==
  ASSUME SaasType, NEW row, row.sub \in Nat, row.from \in Int, NEW makers \in SUBSET Payer
  PROVE  /\ Saas!Missed(row, makers) \in [Payer -> Renewing \cup {Saas!Nothing}]
         /\ \A n \in Payer : Saas!Missed(row, makers)[n] # Saas!Nothing =>
              /\ making[n] # Saas!Nothing /\ n \in makers
              /\ Saas!Missed(row, makers)[n].sub = making[n].sub
              /\ Saas!Missed(row, makers)[n].from = making[n].from
              /\ Saas!Missed(row, makers)[n].to = making[n].to
              /\ making[n].unseen \subseteq Saas!Missed(row, makers)[n].unseen
              /\ ~Saas!IsMade(row) => Saas!Period(row) \in Saas!Missed(row, makers)[n].unseen
<1> DEFINE more(n) == [making[n] EXCEPT !.unseen = @ \union {Saas!Period(row)}]
<1>1. ASSUME NEW n \in Payer, making[n] # Saas!Nothing
      PROVE  /\ more(n) \in Renewing /\ more(n).sub = making[n].sub
             /\ more(n).from = making[n].from /\ more(n).to = making[n].to
             /\ more(n).unseen = making[n].unseen \cup {Saas!Period(row)}
  <2>1. making[n] \in Renewing /\ Saas!Period(row) \in Nat \X Int
    BY <1>1 DEF SaasType, Saas!Period
  <2> QED BY <2>1 DEF Renewing
<1>2. \A n \in Payer : Saas!Missed(row, makers)[n] =
        IF n \notin makers THEN Saas!Nothing
        ELSE IF making[n] = Saas!Nothing \/ Saas!IsMade(row) THEN making[n] ELSE more(n)
  BY DEF Saas!Missed
<1>3. Saas!Missed(row, makers) = [n \in Payer |-> Saas!Missed(row, makers)[n]]
  BY DEF Saas!Missed
<1> HIDE DEF more
<1>4. \A n \in Payer : Saas!Missed(row, makers)[n] \in Renewing \cup {Saas!Nothing}
  BY <1>1, <1>2 DEF SaasType
<1> QED BY <1>1, <1>2, <1>3, <1>4

LEMMA InvoiceMade ==
  ASSUME RenewalInv, NEW m \in Payer, Saas!InsertInvoice(m) PROVE RenewalInv'
<1> DEFINE r == making[m]
           status == IF m = Worker THEN "draft" ELSE "sent"
           row == [sub |-> r.sub, from |-> r.from, to |-> r.to, status |-> status,
                   byHand |-> FALSE]
<1>t. SaasType
  BY DEF RenewalInv
<1>1. /\ r \in Renewing /\ Saas!Insert(r, status, FALSE) /\ r # Saas!Nothing
      /\ making' = Saas!Missed(r, Payer \ {m}) /\ UNCHANGED <<day, subs, hands>>
      /\ crossed' = crossed \union {{p, Saas!Period(r)} : p \in r.unseen}
  BY <1>t DEF Saas!InsertInvoice, SaasType
<1>2. r.sub \in Nat /\ r.from \in Int /\ r.to \in Int /\ status \in {"draft", "sent"}
  BY <1>1 DEF Renewing
<1>3. /\ invoices' \subseteq InvoiceRow /\ \A i \in invoices' : i \in invoices \/ i = row
  BY <1>t, <1>1, <1>2, InsertFacts
<1>4. row.sub = r.sub /\ row.from = r.from /\ row.to = r.to /\ Saas!Period(row) = Saas!Period(r)
  BY DEF Saas!Period
<1>5. Saas!IsMade(r) => invoices' = invoices
  BY <1>1 DEF Saas!Insert
<1>m. PICK others \in SUBSET Payer : making' = Saas!Missed(r, others)
  BY <1>1
<1> HIDE DEF r
<1>6. \A n \in Payer : making'[n] # Saas!Nothing =>
              /\ making[n] # Saas!Nothing
              /\ making'[n].sub = making[n].sub /\ making'[n].from = making[n].from
              /\ making'[n].to = making[n].to /\ making[n].unseen \subseteq making'[n].unseen
              /\ ~Saas!IsMade(r) => Saas!Period(r) \in making'[n].unseen
  BY ONLY <1>t, <1>2, <1>m, MissedFacts
<1>7. SaasType'
  <2>1. making' \in [Payer -> Renewing \cup {Saas!Nothing}]
    BY ONLY <1>t, <1>2, <1>m, MissedFacts
  <2>2. \A c \in Clerk : Fits(hands[c])'
    BY <1>t, <1>1 DEF SaasType, Fits
  <2> QED BY <1>t, <1>1, <1>3, <2>1, <2>2 DEF SaasType
<1> HIDE DEF row
<1>8. MissesUnseen'
  <2> SUFFICES ASSUME NEW n \in Payer, making'[n] # Saas!Nothing, NEW i \in invoices',
                      ~i.byHand, Saas!Overlaps(i, making'[n])
               PROVE  Saas!Period(i) \in making'[n].unseen
    BY DEF MissesUnseen, Saas!Overlaps, Saas!Period
  <2>1. CASE i \in invoices
    <3>1. Saas!Overlaps(i, making[n])
      BY <1>6 DEF Saas!Overlaps
    <3> QED BY <1>6, <2>1, <3>1 DEF RenewalInv, MissesUnseen
  <2>2. CASE i \notin invoices
    BY <1>3, <1>4, <1>5, <1>6, <2>2
  <2> QED BY <2>1, <2>2
<1>9. RenewalsDisjoint'
  <2>1. \A i \in invoices : ~i.byHand /\ Saas!Overlaps(i, row) =>
          {Saas!Period(i), Saas!Period(row)} \in crossed'
    <3>1. \A i \in invoices : ~i.byHand /\ Saas!Overlaps(i, r) => Saas!Period(i) \in r.unseen
      BY <1>1 DEF r, RenewalInv, MissesUnseen
    <3> QED BY <1>1, <1>4, <3>1 DEF Saas!Overlaps
  <2>2. \A i \in invoices : Saas!Overlaps(row, i) => Saas!Overlaps(i, row)
    BY DEF Saas!Overlaps
  <2>3. \A i, j \in invoices :
          i # j /\ ~i.byHand /\ ~j.byHand /\ Saas!Overlaps(i, j) =>
            {Saas!Period(i), Saas!Period(j)} \in crossed'
    BY <1>1 DEF RenewalInv, RenewalsDisjoint, Saas!RenewalsDisjoint
  <2>4. \A i, j \in invoices' :
          i # j /\ ~i.byHand /\ ~j.byHand /\ Saas!Overlaps(i, j) =>
            {Saas!Period(i), Saas!Period(j)} \in crossed'
    <3> TAKE i, j \in invoices'
    <3> HAVE i # j /\ ~i.byHand /\ ~j.byHand /\ Saas!Overlaps(i, j)
    <3>1. CASE i \in invoices /\ j \in invoices
      BY <2>3, <3>1
    <3>2. CASE i \in invoices /\ j = row
      BY <2>1, <3>2
    <3>3. CASE i = row /\ j \in invoices
      <4>1. {Saas!Period(j), Saas!Period(row)} \in crossed'
        BY <2>1, <2>2, <3>3
      <4>2. {Saas!Period(j), Saas!Period(row)} = {Saas!Period(i), Saas!Period(j)}
        BY <3>3
      <4> QED BY <4>1, <4>2
    <3> QED BY <1>3, <3>1, <3>2, <3>3
  <2> QED BY <2>4 DEF RenewalsDisjoint, Saas!RenewalsDisjoint, Saas!Overlaps, Saas!Period
<1> QED BY <1>7, <1>8, <1>9 DEF RenewalInv

LEMMA SaasNext == ASSUME RenewalInv, [Saas!Next]_(Saas!vars) PROVE RenewalInv'
<1>t. /\ SaasType /\ day \in Nat /\ subs \in Seq(SubRow) /\ Len(subs) \in Nat
      /\ \A s \in DOMAIN subs : subs[s] \in SubRow
  BY DEF RenewalInv, SaasType
<1> DEFINE Still == UNCHANGED <<invoices, making, crossed, hands>>
<1>1. CASE Saas!Tick
  BY <1>1, <1>t, HandsKept DEF Saas!Tick, Saas!billing
<1>2. CASE Saas!CheckTrial \/ Saas!EndTrial
  BY <1>2, <1>t, HandsKept DEF Saas!CheckTrial, Saas!EndTrial, Saas!billing
<1>3. CASE Saas!MarkPastDue
  BY <1>3, <1>t, SubsOverdue, HandsKept DEF Saas!MarkPastDue, Saas!billing
<1>4. CASE Saas!MarkExpired
  BY <1>4, <1>t, SubsOverdue, HandsKept, CyclesAreDays DEF Saas!MarkExpired, Saas!billing
<1>5. CASE Saas!FindUnpaid \/ Saas!SuspendTenant
  BY <1>5, <1>t, HandsKept DEF Saas!FindUnpaid, Saas!SuspendTenant, Saas!billing
<1>6. ASSUME NEW m \in Payer, NEW s \in DOMAIN subs, Saas!BeginInvoice(m, s) PROVE RenewalInv'
  <2> DEFINE r == Saas!Renewal(s)
  <2>1. r \in Renewing
    <3>1. subs[s] \in SubRow /\ s \in Nat \ {0}
      BY <1>t
    <3>2. subs[s].end \in Int /\ subs[s].length \in Nat
      BY <3>1 DEF SubRow
    <3> QED BY <3>1, <3>2 DEF Saas!Renewal, Renewing
  <2>2. /\ making' = [making EXCEPT ![m] = r]
        /\ UNCHANGED <<day, subs, invoices, crossed, hands>>
    BY <1>6 DEF Saas!BeginInvoice
  <2>3. \A i \in invoices : ~Saas!Overlaps(i, r)
    BY <1>6 DEF Saas!BeginInvoice
  <2> HIDE DEF r
  <2>4. \A c \in Clerk : Fits(hands[c])'
    BY <1>t, <2>2 DEF SaasType, Fits
  <2>5. SaasType'
    BY <1>t, <2>1, <2>2, <2>4 DEF SaasType
  <2>6. MissesUnseen'
    BY <1>t, <2>2, <2>3 DEF RenewalInv, SaasType, MissesUnseen, Saas!Overlaps, Saas!Period
  <2>7. RenewalsDisjoint'
    BY <2>2 DEF RenewalInv, RenewalsDisjoint, Saas!RenewalsDisjoint
  <2> QED BY <2>5, <2>6, <2>7 DEF RenewalInv
<1>7. ASSUME NEW m \in Payer, Saas!InsertInvoice(m) PROVE RenewalInv'
  BY <1>7, InvoiceMade
<1>8. ASSUME NEW s \in DOMAIN subs, NEW from \in 0 .. MaxDay, Saas!CreateInvoice(s, from)
      PROVE  RenewalInv'
  <2> DEFINE r == [sub |-> s, from |-> from, to |-> from + Month]
             row == [sub |-> r.sub, from |-> r.from, to |-> r.to, status |-> "draft",
                     byHand |-> TRUE]
  <2>1. Saas!Insert(r, "draft", TRUE) /\ UNCHANGED <<day, subs, making, crossed, hands>>
    BY <1>8 DEF Saas!CreateInvoice
  <2>2. r.sub \in Nat /\ r.from \in Int /\ r.to \in Int
    BY <1>t, CyclesAreDays
  <2>3. /\ invoices' \subseteq InvoiceRow /\ \A i \in invoices' : i \in invoices \/ i = row
    BY <1>t, <2>1, <2>2, InsertFacts
  <2>4. row.byHand
    OBVIOUS
  <2>5. \A c \in Clerk : Fits(hands[c])'
    BY <1>t, <2>1 DEF SaasType, Fits
  <2>6. SaasType'
    BY <1>t, <2>1, <2>3, <2>5 DEF SaasType
  <2> HIDE DEF row, r
  <2>7. MissesUnseen' /\ RenewalsDisjoint'
    BY <2>1, <2>3, <2>4 DEF RenewalInv, MissesUnseen, RenewalsDisjoint, Saas!RenewalsDisjoint
  <2> QED BY <2>6, <2>7 DEF RenewalInv
<1>9. ASSUME NEW c \in Clerk, NEW taken, Fits(taken), Saas!Takes(c, taken) PROVE RenewalInv'
  BY <1>9, TakesFits
<1>10. ASSUME NEW c \in Clerk, Saas!SaveSubscription(c) PROVE RenewalInv'
  <2>1. Saas!Done(c) /\ UNCHANGED invoices
    BY <1>10 DEF Saas!SaveSubscription
  <2> QED BY <1>t, <1>10, <2>1, RowWritten, HandsDone, BillingKept
<1>11. ASSUME NEW c \in Clerk, Saas!AddSubscription(c) PROVE RenewalInv'
  <2>1. /\ Saas!Done(c) /\ UNCHANGED invoices /\ subs' = Append(subs, hands[c].row)
        /\ hands[c].row \in SubRow
    BY <1>t, <1>11 DEF Saas!AddSubscription, SaasType, Fits
  <2>2. subs' \in Seq(SubRow) /\ Len(subs) <= Len(subs')
    BY <1>t, <2>1
  <2> QED BY <1>t, <2>1, <2>2, HandsDone, BillingKept
<1>12. ASSUME NEW c \in Clerk, Saas!SaveInvoice(c) PROVE RenewalInv'
  <2>1. Saas!Done(c) /\ UNCHANGED subs
    BY <1>12 DEF Saas!SaveInvoice
  <2>2. /\ UNCHANGED <<day, making, crossed>>
        /\ DOMAIN hands' = Clerk /\ \A b \in Clerk : Fits(hands'[b])
    BY <1>t, <2>1, HandsDone
  <2>3. \A b \in Clerk : Fits(hands[b])'
    BY <2>1, <2>2 DEF Fits
  <2>4. PICK F \in [invoices -> InvoiceRow] :
           /\ invoices' = {F[i] : i \in invoices}
           /\ \A i \in invoices : /\ F[i].sub = i.sub /\ F[i].from = i.from /\ F[i].to = i.to
                                  /\ F[i].byHand = i.byHand
                                  /\ Saas!Period(F[i]) = Saas!Period(i)
    BY <1>t, <1>12, StatusWritten
  <2>5. SaasType'
    BY <1>t, <2>1, <2>2, <2>3, <2>4 DEF SaasType
  <2>6. MissesUnseen'
    BY <2>2, <2>4 DEF RenewalInv, MissesUnseen, Saas!Overlaps, Saas!Period
  <2>7. RenewalsDisjoint'
    <3>1. \A i, j \in invoices :
            F[i] # F[j] /\ ~F[i].byHand /\ ~F[j].byHand /\ Saas!Overlaps(F[i], F[j]) =>
              {Saas!Period(F[i]), Saas!Period(F[j])} \in crossed
      BY <2>4 DEF RenewalInv, RenewalsDisjoint, Saas!RenewalsDisjoint, Saas!Overlaps
    <3>2. \A i, j \in invoices' :
            i # j /\ ~i.byHand /\ ~j.byHand /\ Saas!Overlaps(i, j) =>
              {Saas!Period(i), Saas!Period(j)} \in crossed'
      BY <2>2, <2>4, <3>1
    <3> QED BY <3>2 DEF RenewalsDisjoint, Saas!RenewalsDisjoint, Saas!Overlaps, Saas!Period
  <2> QED BY <2>5, <2>6, <2>7 DEF RenewalInv
<1>13. ASSUME NEW c \in Clerk, Saas!SaveTenant(c) PROVE RenewalInv'
  <2>1. Saas!Done(c) /\ UNCHANGED <<subs, invoices>>
    BY <1>13 DEF Saas!SaveTenant
  <2> QED BY <1>t, <2>1, HandsDone, BillingKept
<1>14. CASE UNCHANGED Saas!vars
  BY <1>14, <1>t, HandsKept DEF Saas!vars, Saas!billing
<1> QED
  BY Zenon, AdminTakes, <1>1, <1>2, <1>3, <1>4, <1>5, <1>6, <1>7, <1>8, <1>9, <1>10, <1>11,
     <1>12, <1>13, <1>14 DEF Saas!Next

(* Two renewal invoices of a subscription bill the same day only if the    *)
(* one was inserted while the other's maker had looked and not inserted    *)
(* yet, however activations, lapses and administrators move the cycle.     *)
THEOREM RenewalsDisjointHolds == Saas!Spec => []RenewalsDisjoint
<1>1. RenewalInv /\ [Saas!Next]_(Saas!vars) => RenewalInv'
  BY SaasNext
<1>2. RenewalInv => RenewalsDisjoint
  BY DEF RenewalInv
<1> QED BY <1>1, <1>2, SaasInit, PTL DEF Saas!Spec

-----------------------------------------------------------------------------
(* Units                                                                   *)

(* Relations that can all be read off one scale: each unit has its place   *)
(* on it, and a relation says how far two of them are apart.               *)
OnScale(R, pot) == \A r \in R : r.log = pot[r.to] - pot[r.from]
Agreeing(R) == \E pot \in [Unit -> Int] : OnScale(R, pot)

(* No chain of relations leads from u to v: they lie on two sides of a cut *)
(* that no relation crosses.                                               *)
Cut(R, u, v) ==
  \E C \in SUBSET Unit : u \in C /\ v \notin C /\ \A r \in R : r.from \in C <=> r.to \in C

UnitInv ==
  /\ relations \in Seq(Units!Relation \cup {Units!Gone})
  /\ creating \in [Maker -> Units!Relation \cup {Units!Nothing}]
  /\ \A m, o \in Maker : creating[m] # Units!Nothing /\ creating[o] # Units!Nothing => m = o
  /\ \A scope \in Units!Scope : Agreeing(Units!Of(scope))
  /\ \A m \in Maker : creating[m] # Units!Nothing =>
       Cut(Units!Of(creating[m].scope), creating[m].from, creating[m].to)

LEMMA RelationFacts ==
  ASSUME NEW r \in Units!Relation
  PROVE  /\ r = [from |-> r.from, to |-> r.to, log |-> r.log, scope |-> r.scope]
         /\ r.from \in Unit /\ r.to \in Unit /\ r.log \in Int /\ r.scope \in Units!Scope
         /\ r.from # r.to
  BY UnitsAreMany DEF Units!Relation

LEMMA TurnedRound ==
  ASSUME NEW r \in Units!Relation, NEW x, NEW y, NEW z
  PROVE  [r EXCEPT !.from = x, !.to = y, !.log = z] =
           [from |-> x, to |-> y, log |-> z, scope |-> r.scope]
<1>0. r \in [from : Unit, to : Unit, log : Int, scope : Units!Scope]
  BY UnitsAreMany DEF Units!Relation
<1>1. PICK s : s = [r EXCEPT !.from = x]
  OBVIOUS
<1>2. s = [from |-> x, to |-> r.to, log |-> r.log, scope |-> r.scope]
  BY <1>0, <1>1
<1>3. PICK t : t = [s EXCEPT !.to = y]
  OBVIOUS
<1>4. t = [from |-> x, to |-> y, log |-> r.log, scope |-> r.scope]
  BY <1>2, <1>3
<1>5. [t EXCEPT !.log = z] = [from |-> x, to |-> y, log |-> z, scope |-> r.scope]
  BY <1>4
<1> QED BY <1>1, <1>3, <1>5

LEMMA OfFacts ==
  ASSUME relations \in Seq(Units!Relation \cup {Units!Gone}), NEW scope
  PROVE  /\ Units!Of(scope) \subseteq Units!Relation
         /\ \A r \in Units!Of(scope) : r.scope = scope
  BY DEF Units!Of, Units!Kept

-----------------------------------------------------------------------------
(* Walks                                                                   *)

Place == [at : Unit, log : Int]

Onward(places, steps) ==
  places \cup {[at |-> q[2].to, log |-> q[1].log + q[2].log] :
                 q \in {q \in places \X steps : q[1].at = q[2].from}}

Walk(g, from, steps) ==
  g = [n \in Nat |-> IF n = 0 THEN {[at |-> from, log |-> 0]} ELSE Onward(g[n - 1], steps)]

LEMMA PathsAreWalks ==
  ASSUME NEW scope, NEW from, NEW to
  PROVE  Units!Paths(scope, from, to) =
           {p.log : p \in {q \in (CHOOSE g : Walk(g, from, Units!Steps(scope)))
                                   [Cardinality(Unit) - 1] : q.at = to}}
<1>1. Units!Cardinality(Unit) = Cardinality(Unit)
  BY DEF Units!Cardinality, Cardinality
<1> QED BY <1>1, Zenon DEF Units!Paths, Walk, Onward

LEMMA OnwardPlaces ==
  ASSUME NEW places \in SUBSET Place, NEW steps,
         \A s \in steps : s.from \in Unit /\ s.to \in Unit /\ s.log \in Int
  PROVE  Onward(places, steps) \in SUBSET Place
<1>1. \A q \in places \X steps : [at |-> q[2].to, log |-> q[1].log + q[2].log] \in Place
  BY DEF Place
<1> QED BY <1>1 DEF Onward

LEMMA WalkExists ==
  ASSUME NEW from \in Unit, NEW steps,
         \A s \in steps : s.from \in Unit /\ s.to \in Unit /\ s.log \in Int
  PROVE  \E g \in [Nat -> SUBSET Place] : Walk(g, from, steps)
<1> DEFINE S == SUBSET Place
           a == {[at |-> from, log |-> 0]}
           step == [n \in Nat |-> [p \in S |-> Onward(p, steps)]]
<1>1. a \in S
  BY DEF Place
<1>2. step \in [Nat -> [S -> S]]
  <2>1. \A p \in S : Onward(p, steps) \in S
    BY OnwardPlaces
  <2> QED BY <2>1
<1>a. \E g \in [Nat -> S] : Solves(g, a, step)
  <2> HIDE DEF S, a, step
  <2> QED BY <1>1, <1>2, Recursion
<1>3. PICK g \in [Nat -> S] : g[0] = a /\ \A n \in Nat : g[n + 1] = step[n][g[n]]
  BY <1>a DEF Solves
<1>4. ASSUME NEW n \in Nat PROVE g[n + 1] = Onward(g[n], steps)
  BY <1>3
<1>5. ASSUME NEW n \in Nat PROVE g[n] = IF n = 0 THEN a ELSE Onward(g[n - 1], steps)
  <2>1. CASE n = 0
    BY <1>3, <2>1
  <2>2. CASE n # 0
    <3>1. n - 1 \in Nat /\ (n - 1) + 1 = n
      BY <2>2
    <3> QED BY <1>4, <2>2, <3>1
  <2> QED BY <2>1, <2>2
<1>6. Walk(g, from, steps)
  BY <1>5 DEF Walk
<1> QED BY <1>3, <1>6

-----------------------------------------------------------------------------
LEMMA StepsFacts ==
  ASSUME relations \in Seq(Units!Relation \cup {Units!Gone}), NEW scope
  PROVE  /\ \A s \in Units!Steps(scope) : s.from \in Unit /\ s.to \in Unit /\ s.log \in Int
         /\ \A pot \in [Unit -> Int] :
              OnScale(Units!Of(scope), pot) => OnScale(Units!Steps(scope), pot)
         /\ \A r \in Units!Of(scope) : 
              /\ \E s \in Units!Steps(scope) : s.from = r.from /\ s.to = r.to
              /\ \E s \in Units!Steps(scope) : s.from = r.to /\ s.to = r.from
<1>1. ASSUME NEW r \in Units!Of(scope)
      PROVE  /\ r.from \in Unit /\ r.to \in Unit /\ r.log \in Int
             /\ [r EXCEPT !.from = r.to, !.to = r.from, !.log = -r.log]
                  = [from |-> r.to, to |-> r.from, log |-> -r.log, scope |-> r.scope]
  <2>1. r \in Units!Relation
    BY OfFacts
  <2>2. r.from \in Unit /\ r.to \in Unit /\ r.log \in Int
    BY <2>1, RelationFacts
  <2>4. \A x, y, z : [r EXCEPT !.from = x, !.to = y, !.log = z] =
                      [from |-> x, to |-> y, log |-> z, scope |-> r.scope]
    BY <2>1, TurnedRound
  <2> QED BY ONLY <2>2, <2>4
<1>2. \A s \in Units!Steps(scope) : 
        \/ s \in Units!Of(scope)
        \/ \E r \in Units!Of(scope) :
             s = [from |-> r.to, to |-> r.from, log |-> -r.log, scope |-> r.scope]
  BY <1>1 DEF Units!Steps
<1>3. \A r \in Units!Of(scope) :
        /\ r \in Units!Steps(scope)
        /\ [from |-> r.to, to |-> r.from, log |-> -r.log, scope |-> r.scope] \in Units!Steps(scope)
  BY <1>1 DEF Units!Steps
<1>4. ASSUME NEW s \in Units!Steps(scope)
      PROVE  s.from \in Unit /\ s.to \in Unit /\ s.log \in Int
  <2>1. CASE s \in Units!Of(scope)
    BY <1>1, <2>1
  <2>2. ASSUME NEW r \in Units!Of(scope),
               s = [from |-> r.to, to |-> r.from, log |-> -r.log, scope |-> r.scope]
        PROVE  s.from \in Unit /\ s.to \in Unit /\ s.log \in Int
    <3>1. r.from \in Unit /\ r.to \in Unit /\ r.log \in Int
      BY <1>1
    <3> QED BY <2>2, <3>1
  <2> QED BY <1>2, <2>1, <2>2
<1>5. ASSUME NEW pot \in [Unit -> Int], OnScale(Units!Of(scope), pot), NEW s \in Units!Steps(scope)
      PROVE  s.log = pot[s.to] - pot[s.from]
  <2>1. CASE s \in Units!Of(scope)
    BY <1>5, <2>1 DEF OnScale
  <2>2. ASSUME NEW r \in Units!Of(scope),
               s = [from |-> r.to, to |-> r.from, log |-> -r.log, scope |-> r.scope]
        PROVE  s.log = pot[s.to] - pot[s.from]
    <3>1. r.log = pot[r.to] - pot[r.from]
      BY <1>5 DEF OnScale
    <3>2. pot[r.to] \in Int /\ pot[r.from] \in Int
      BY <1>1
    <3> QED BY <2>2, <3>1, <3>2
  <2> QED BY <1>2, <2>1, <2>2
<1>6. \A r \in Units!Of(scope) :
        /\ \E s \in Units!Steps(scope) : s.from = r.from /\ s.to = r.to
        /\ \E s \in Units!Steps(scope) : s.from = r.to /\ s.to = r.from
  BY <1>3
<1>7. \A pot \in [Unit -> Int] :
        OnScale(Units!Of(scope), pot) => OnScale(Units!Steps(scope), pot)
  BY <1>5 DEF OnScale
<1> QED BY <1>4, <1>6, <1>7

(* What a walk arrives with is what the scale says.                        *)
LEMMA WalkOnScale ==
  ASSUME NEW from \in Unit, NEW steps, NEW pot \in [Unit -> Int], OnScale(steps, pot),
         \A s \in steps : s.from \in Unit /\ s.to \in Unit /\ s.log \in Int,
         NEW g, Walk(g, from, steps), NEW n \in Nat
  PROVE  \A p \in g[n] : p.at \in Unit /\ p.log = pot[p.at] - pot[from]
<1> DEFINE T == {k \in Nat : \A p \in g[k] : p.at \in Unit /\ p.log = pot[p.at] - pot[from]}
<1>1. 0 \in T
  <2>1. g[0] = {[at |-> from, log |-> 0]}
    BY DEF Walk
  <2> QED BY <2>1
<1>2. ASSUME NEW k \in Nat, k \in T PROVE k + 1 \in T
  <2>1. g[k + 1] = Onward(g[k], steps)
    <3>1. k + 1 \in Nat /\ k + 1 # 0 /\ (k + 1) - 1 = k
      OBVIOUS
    <3> QED BY <3>1 DEF Walk
  <2>2. ASSUME NEW p \in g[k + 1] PROVE p.at \in Unit /\ p.log = pot[p.at] - pot[from]
    <3>1. CASE p \in g[k]
      BY <1>2, <3>1
    <3>2. CASE p \notin g[k]
      <4>1. PICK q \in g[k] \X steps :
              q[1].at = q[2].from /\ p = [at |-> q[2].to, log |-> q[1].log + q[2].log]
        BY <2>1, <2>2, <3>2 DEF Onward
      <4>2. PICK a \in g[k], s \in steps : q = <<a, s>>
        BY <4>1
      <4>3. a.at = s.from /\ p.at = s.to /\ p.log = a.log + s.log
        BY <4>1, <4>2
      <4>4. a.at \in Unit /\ a.log = pot[a.at] - pot[from]
        BY <1>2
      <4>5. s.to \in Unit /\ s.from \in Unit /\ s.log = pot[s.to] - pot[s.from]
        BY DEF OnScale
      <4>6. pot[s.to] \in Int /\ pot[s.from] \in Int /\ pot[from] \in Int
        BY <4>5
      <4> QED BY <4>3, <4>4, <4>5, <4>6
    <3> QED BY <3>1, <3>2
  <2> QED BY <2>2
<1> HIDE DEF T
<1>3. n \in T
  BY <1>1, <1>2, Counting
<1> QED BY <1>3 DEF T

LEMMA PathsAgree ==
  ASSUME relations \in Seq(Units!Relation \cup {Units!Gone}),
         \A scope \in Units!Scope : Agreeing(Units!Of(scope))
  PROVE  Units!RelationsAgree
<1> SUFFICES ASSUME NEW scope \in Units!Scope, NEW u \in Unit, NEW v \in Unit,
                    NEW a \in Units!Paths(scope, u, v), NEW b \in Units!Paths(scope, u, v)
             PROVE  a = b
  BY DEF Units!RelationsAgree
<1> DEFINE w == CHOOSE g : Walk(g, u, Units!Steps(scope))
           n == Cardinality(Unit) - 1
<1>1. PICK pot \in [Unit -> Int] : OnScale(Units!Of(scope), pot)
  BY DEF Agreeing
<1>2. OnScale(Units!Steps(scope), pot)
  BY <1>1, StepsFacts
<1>3. \A s \in Units!Steps(scope) : s.from \in Unit /\ s.to \in Unit /\ s.log \in Int
  BY StepsFacts
<1>4. Walk(w, u, Units!Steps(scope))
  <2>1. \E g : Walk(g, u, Units!Steps(scope))
    BY <1>3, WalkExists
  <2> QED BY <2>1
<1>5. n \in Nat
  <2>1. IsFiniteSet(Unit) /\ Unit # {}
    BY UnitsAreMany
  <2>2. Cardinality(Unit) \in Nat /\ Cardinality(Unit) # 0
    BY <2>1, FS_CardinalityType, FS_EmptySet
  <2> QED BY <2>2
<1>6. PICK p \in w[n] : p.at = v /\ p.log = a
  BY PathsAreWalks
<1>7. PICK q \in w[n] : q.at = v /\ q.log = b
  BY PathsAreWalks
<1> HIDE DEF w, n
<1>8. \A x \in w[n] : x.at \in Unit /\ x.log = pot[x.at] - pot[u]
  BY <1>2, <1>3, <1>4, <1>5, WalkOnScale
<1> QED BY <1>6, <1>7, <1>8

-----------------------------------------------------------------------------
(* Where a walk has been after as many steps as there are units but one,   *)
(* no relation leads any further.                                          *)
Been(g, n) == {p.at : p \in g[n]}

Spreads(g, from, steps) ==
  \A n \in Nat :
    /\ Been(g, n) \subseteq Unit /\ from \in Been(g, n) /\ Been(g, n) \subseteq Been(g, n + 1)
    /\ \A s \in steps : s.from \in Been(g, n) => s.to \in Been(g, n + 1)
    /\ \A u \in Been(g, n + 1) \ Been(g, n) :
         \E s \in steps : s.from \in Been(g, n) /\ s.to = u

LEMMA WalkGrows ==
  ASSUME NEW from \in Unit, NEW steps,
         \A s \in steps : s.from \in Unit /\ s.to \in Unit /\ s.log \in Int,
         NEW g \in [Nat -> SUBSET Place], Walk(g, from, steps)
  PROVE  Spreads(g, from, steps)
<1> DEFINE been(n) == Been(g, n)
<1>1. ASSUME NEW n \in Nat PROVE g[n + 1] = Onward(g[n], steps)
  <2>1. n + 1 \in Nat /\ n + 1 # 0 /\ (n + 1) - 1 = n
    OBVIOUS
  <2> QED BY <2>1 DEF Walk
<1>2. ASSUME NEW n \in Nat PROVE been(n) \subseteq Unit
  BY DEF Place, Been
<1>3. ASSUME NEW n \in Nat PROVE g[n] \subseteq g[n + 1]
  BY <1>1 DEF Onward
<1>4. ASSUME NEW n \in Nat PROVE been(n) \subseteq been(n + 1)
  BY <1>3 DEF Been
<1>5. ASSUME NEW n \in Nat PROVE from \in been(n)
  <2> DEFINE T == {k \in Nat : from \in been(k)}
  <2>1. g[0] = {[at |-> from, log |-> 0]}
    BY DEF Walk
  <2>2. 0 \in T
    BY <2>1 DEF Been
  <2>3. \A k \in Nat : k \in T => k + 1 \in T
    BY <1>4
  <2> HIDE DEF T
  <2>4. n \in T
    BY <2>2, <2>3, Counting
  <2> QED BY <2>4 DEF T
<1>6. ASSUME NEW n \in Nat, NEW s \in steps, s.from \in been(n) PROVE s.to \in been(n + 1)
  <2>1. PICK p \in g[n] : p.at = s.from
    BY <1>6 DEF Been
  <2> DEFINE q == <<p, s>>
  <2>2. q \in g[n] \X steps /\ q[1] = p /\ q[2] = s
    OBVIOUS
  <2> HIDE DEF q
  <2>a. q \in {x \in g[n] \X steps : x[1].at = x[2].from}
    BY <2>1, <2>2
  <2>3. [at |-> q[2].to, log |-> q[1].log + q[2].log] \in g[n + 1]
    BY <1>1, <2>a, Zenon DEF Onward
  <2>4. [at |-> s.to, log |-> p.log + s.log] \in g[n + 1]
    BY <2>2, <2>3
  <2> QED BY <2>4 DEF Been
<1>7. ASSUME NEW n \in Nat, NEW u \in been(n + 1) \ been(n)
      PROVE  \E s \in steps : s.from \in been(n) /\ s.to = u
  <2>1. PICK p \in g[n + 1] : p.at = u
    BY <1>7 DEF Been
  <2>2. p \notin g[n]
    BY <1>7, <2>1 DEF Been
  <2>3. PICK q \in g[n] \X steps :
          q[1].at = q[2].from /\ p = [at |-> q[2].to, log |-> q[1].log + q[2].log]
    BY <1>1, <2>1, <2>2 DEF Onward
  <2>4. PICK a \in g[n], s \in steps : q = <<a, s>>
    BY <2>3
  <2>5. a.at = s.from /\ p.at = s.to
    BY <2>3, <2>4
  <2> QED BY <2>1, <2>5 DEF Been
<1> HIDE DEF been
<1> QED BY <1>2, <1>4, <1>5, <1>6, <1>7 DEF been, Spreads

(* Sets of units that grow until they do not grow any more have stopped    *)
(* after as many steps as there are units but one.                         *)
LEMMA GrowingStops ==
  ASSUME NEW B, \A n \in Nat : B[n] \in SUBSET Unit /\ B[n] \subseteq B[n + 1],
         B[0] # {},
         \A n \in Nat : B[n + 1] = B[n] => B[n + 2] = B[n + 1],
         NEW k \in Nat, k = Cardinality(Unit) - 1
  PROVE  B[k + 1] = B[k]
<1>0. \A n \in Nat : IsFiniteSet(B[n]) /\ Cardinality(B[n]) \in Nat /\ Cardinality(B[n]) <= k + 1
  <2>1. \A X \in SUBSET Unit : /\ IsFiniteSet(X) /\ Cardinality(X) \in Nat
                               /\ Cardinality(X) <= Cardinality(Unit)
    BY UnitsAreMany, FS_Subset, FS_CardinalityType
  <2>2. Cardinality(Unit) \in Nat
    BY UnitsAreMany, FS_CardinalityType
  <2> QED BY <2>1, <2>2
<1> DEFINE T == {n \in Nat : B[n + 1] = B[n] \/ Cardinality(B[n]) >= n + 1}
<1>1. 0 \in T
  <2>1. Cardinality(B[0]) # 0
    BY <1>0, FS_EmptySet
  <2>2. Cardinality(B[0]) \in Nat
    BY <1>0
  <2> QED BY <2>1, <2>2
<1>2. ASSUME NEW n \in Nat, n \in T PROVE n + 1 \in T
  <2>1. n + 1 \in Nat /\ (n + 1) + 1 = n + 2
    OBVIOUS
  <2>2. CASE B[n + 1] = B[n]
    BY <2>1, <2>2
  <2>3. CASE B[n + 1] # B[n]
    <3>1. Cardinality(B[n]) >= n + 1
      BY <1>2, <2>3
    <3>2. Cardinality(B[n]) < Cardinality(B[n + 1])
      <4>1. B[n] \subseteq B[n + 1] /\ B[n] # B[n + 1]
        BY <2>3
      <4>2. Cardinality(B[n]) <= Cardinality(B[n + 1])
              /\ (Cardinality(B[n]) = Cardinality(B[n + 1]) => B[n] = B[n + 1])
        BY <1>0, <2>1, <4>1, FS_Subset
      <4>3. Cardinality(B[n]) \in Nat /\ Cardinality(B[n + 1]) \in Nat
        BY <1>0, <2>1
      <4> QED BY <4>1, <4>2, <4>3
    <3>3. Cardinality(B[n]) \in Nat /\ Cardinality(B[n + 1]) \in Nat
      BY <1>0, <2>1
    <3> QED BY <2>1, <3>1, <3>2, <3>3
  <2> QED BY <2>2, <2>3
<1> HIDE DEF T
<1>3. k \in T
  BY <1>1, <1>2, Counting
<1>4. B[k + 1] = B[k] \/ Cardinality(B[k]) >= k + 1
  BY <1>3 DEF T
<1>5. ASSUME Cardinality(B[k]) >= k + 1 PROVE B[k + 1] = B[k]
  <2>0. Cardinality(Unit) \in Nat
    BY UnitsAreMany, FS_CardinalityType
  <2>1. Cardinality(B[k]) = Cardinality(Unit)
    BY <1>0, <1>5, <2>0
  <2>2. B[k] = Unit
    BY <2>1, UnitsAreMany, FS_Subset
  <2>3. B[k] \subseteq B[k + 1] /\ B[k + 1] \subseteq Unit
    <3>1. k + 1 \in Nat
      OBVIOUS
    <3> QED BY <3>1
  <2> QED BY <2>2, <2>3
<1> QED BY <1>4, <1>5

(* What a unit is not known to lead to lies beyond a cut.                  *)
LEMMA UnknownIsCut ==
  ASSUME relations \in Seq(Units!Relation \cup {Units!Gone}),
         NEW r \in Units!Relation, ~Units!IsKnown(r)
  PROVE  Cut(Units!Of(r.scope), r.from, r.to)
<1> DEFINE steps == Units!Steps(r.scope)
           w == CHOOSE g : Walk(g, r.from, steps)
           k == Cardinality(Unit) - 1
<1>0. r.from \in Unit /\ r.to \in Unit
  BY RelationFacts
<1>1. \A s \in steps : s.from \in Unit /\ s.to \in Unit /\ s.log \in Int
  BY StepsFacts
<1>2. \A x \in w[k] : x.at # r.to
  <2>1. Units!Paths(r.scope, r.from, r.to) = {}
    BY DEF Units!IsKnown
  <2>2. {p.log : p \in {q \in w[k] : q.at = r.to}} = {}
    BY <2>1, PathsAreWalks
  <2> HIDE DEF w, k
  <2> QED BY <2>2
<1>3. PICK g \in [Nat -> SUBSET Place] : Walk(g, r.from, steps)
  <2> HIDE DEF steps
  <2> QED BY <1>0, <1>1, WalkExists
<1>4. w = g
  <2>1. Walk(w, r.from, steps)
    <3> HIDE DEF steps
    <3> QED BY <1>3
  <2> DEFINE T == {n \in Nat : w[n] = g[n]}
  <2> HIDE DEF w, steps
  <2>2. 0 \in T
    BY <1>3, <2>1 DEF Walk
  <2>3. ASSUME NEW n \in Nat, n \in T PROVE n + 1 \in T
    <3>1. n + 1 \in Nat /\ n + 1 # 0 /\ (n + 1) - 1 = n
      OBVIOUS
    <3>2. w[n + 1] = Onward(w[n], steps) /\ g[n + 1] = Onward(g[n], steps)
      BY <1>3, <2>1, <3>1 DEF Walk
    <3> QED BY <2>3, <3>1, <3>2
  <2> HIDE DEF T
  <2>4. Nat \subseteq T
    BY <2>2, <2>3, Counting
  <2>5. w = [n \in Nat |-> w[n]]
    BY <2>1 DEF Walk
  <2> QED BY <2>4, <2>5 DEF T
<1>5. k \in Nat
  <2>1. IsFiniteSet(Unit) /\ Unit # {}
    BY <1>0, UnitsAreMany
  <2>2. Cardinality(Unit) \in Nat /\ Cardinality(Unit) # 0
    BY <2>1, FS_CardinalityType, FS_EmptySet
  <2> QED BY <2>2
<1> DEFINE been(n) == Been(g, n)
           B == [n \in Nat |-> been(n)]
<1> HIDE DEF steps, w
<1>6. \A n \in Nat :
        /\ been(n) \subseteq Unit /\ r.from \in been(n) /\ been(n) \subseteq been(n + 1)
        /\ \A s \in steps : s.from \in been(n) => s.to \in been(n + 1)
        /\ \A u \in been(n + 1) \ been(n) : \E s \in steps : s.from \in been(n) /\ s.to = u
  <2>1. Spreads(g, r.from, steps)
    BY <1>0, <1>1, <1>3, WalkGrows
  <2> QED BY <2>1 DEF Spreads
<1> HIDE DEF been
<1>7. been(k + 1) = been(k)
  <2>1. \A n \in Nat : B[n] = been(n) /\ B[n + 1] = been(n + 1) /\ B[n + 2] = been(n + 2)
    OBVIOUS
  <2>2. \A n \in Nat : B[n] \in SUBSET Unit /\ B[n] \subseteq B[n + 1]
    BY <1>6, <2>1
  <2>3. B[0] # {}
    BY <1>6, <2>1
  <2>4. ASSUME NEW n \in Nat, been(n + 1) = been(n) PROVE been(n + 2) = been(n + 1)
    <3>1. n + 1 \in Nat /\ (n + 1) + 1 = n + 2
      OBVIOUS
    <3>2. been(n + 1) \subseteq been(n + 2)
      BY <1>6, <3>1
    <3>3. ASSUME NEW u \in been(n + 2) \ been(n + 1) PROVE FALSE
      <4>1. PICK s \in steps : s.from \in been(n + 1) /\ s.to = u
        BY <1>6, <3>1, <3>3
      <4>2. s.to \in been(n + 1)
        BY <1>6, <2>4, <4>1
      <4> QED BY <3>3, <4>1, <4>2
    <3> QED BY <3>2, <3>3
  <2>5. \A n \in Nat : B[n + 1] = B[n] => B[n + 2] = B[n + 1]
    BY <2>1, <2>4
  <2> HIDE DEF B
  <2>6. B[k + 1] = B[k]
    BY <1>5, <2>2, <2>3, <2>5, GrowingStops
  <2> QED BY <1>5, <2>1, <2>6
<1>8. r.to \notin been(k)
  BY <1>2, <1>4 DEF been, Been
<1>9. ASSUME NEW e \in Units!Of(r.scope) PROVE e.from \in been(k) <=> e.to \in been(k)
  <2>1. PICK s \in steps : s.from = e.from /\ s.to = e.to
    BY StepsFacts DEF steps
  <2>2. PICK t \in steps : t.from = e.to /\ t.to = e.from
    BY StepsFacts DEF steps
  <2>3. \A x \in steps : x.from \in been(k) => x.to \in been(k)
    BY <1>5, <1>6, <1>7
  <2> QED BY <2>1, <2>2, <2>3
<1>10. been(k) \in SUBSET Unit /\ r.from \in been(k)
  BY <1>5, <1>6
<1> QED BY <1>8, <1>9, <1>10 DEF Cut

-----------------------------------------------------------------------------
LEMMA UnitInit == Units!Init => UnitInv
<1> SUFFICES ASSUME Units!Init PROVE UnitInv
  OBVIOUS
<1>1. \A scope : Units!Of(scope) = {}
  BY DEF Units!Init, Units!Of, Units!Kept
<1>2. \A scope \in Units!Scope : Agreeing(Units!Of(scope))
  <2>1. [u \in Unit |-> 0] \in [Unit -> Int]
    OBVIOUS
  <2> QED BY <1>1, <2>1 DEF Agreeing, OnScale
<1> QED BY <1>2 DEF UnitInv, Units!Init

(* Fewer relations agree all the more, and leave every cut.                *)
LEMMA FewerAgree ==
  ASSUME NEW R, NEW Q \in SUBSET R
  PROVE  /\ Agreeing(R) => Agreeing(Q)
         /\ \A u, v : Cut(R, u, v) => Cut(Q, u, v)
<1>1. Agreeing(R) => Agreeing(Q)
  BY DEF Agreeing, OnScale
<1>2. ASSUME NEW u, NEW v, Cut(R, u, v) PROVE Cut(Q, u, v)
  <2>1. PICK C \in SUBSET Unit : u \in C /\ v \notin C /\ \A r \in R : r.from \in C <=> r.to \in C
    BY <1>2 DEF Cut
  <2> QED BY <2>1 DEF Cut
<1> QED BY <1>1, <1>2

(* A relation across a cut can be put on the scale by moving one side.     *)
LEMMA OneMoreAgrees ==
  ASSUME NEW R \in SUBSET Units!Relation, NEW r \in Units!Relation,
         Agreeing(R), Cut(R, r.from, r.to)
  PROVE  Agreeing(R \cup {r})
<1>1. PICK pot \in [Unit -> Int] : OnScale(R, pot)
  BY DEF Agreeing
<1>2. PICK C \in SUBSET Unit :
        r.from \in C /\ r.to \notin C /\ \A e \in R : e.from \in C <=> e.to \in C
  BY DEF Cut
<1>3. r.from \in Unit /\ r.to \in Unit /\ r.log \in Int
  BY RelationFacts
<1> DEFINE d == (pot[r.to] - pot[r.from]) - r.log
           moved == [u \in Unit |-> IF u \in C THEN pot[u] + d ELSE pot[u]]
<1>4. \A u \in Unit : pot[u] \in Int
  OBVIOUS
<1>5. d \in Int
  BY <1>3, <1>4
<1>6. moved \in [Unit -> Int]
  BY <1>4, <1>5
<1>7. r.log = moved[r.to] - moved[r.from]
  BY <1>2, <1>3, <1>4
<1>8. ASSUME NEW e \in R PROVE e.log = moved[e.to] - moved[e.from]
  <2>1. e.from \in Unit /\ e.to \in Unit /\ e.log = pot[e.to] - pot[e.from]
    BY <1>1, RelationFacts DEF OnScale
  <2>2. pot[e.to] \in Int /\ pot[e.from] \in Int
    BY <1>4, <2>1
  <2> HIDE DEF d
  <2>3. CASE e.from \in C /\ e.to \in C
    BY <1>5, <2>1, <2>2, <2>3
  <2>4. CASE e.from \notin C /\ e.to \notin C
    BY <2>1, <2>4
  <2> QED BY <1>2, <2>3, <2>4
<1> HIDE DEF moved
<1>9. OnScale(R \cup {r}, moved)
  BY <1>7, <1>8 DEF OnScale
<1> QED BY <1>6, <1>9 DEF Agreeing

LEMMA CreateKeeps ==
  ASSUME OneMaker, UnitInv, NEW m \in Maker, NEW r \in Units!Relation, Units!BeginCreate(m, r)
  PROVE  UnitInv'
<1>0. /\ \A o \in Maker : creating[o] = Units!Nothing
      /\ creating' = [creating EXCEPT ![m] = r]
      /\ relations' = relations
      /\ ~Units!IsKnown(r)
  BY DEF Units!BeginCreate, Units!Alone, Units!Free
<1>a. creating \in [Maker -> Units!Relation \cup {Units!Nothing}]
  BY DEF UnitInv
<1>1. creating' \in [Maker -> Units!Relation \cup {Units!Nothing}]
  BY <1>0, <1>a
<1>2. \A o \in Maker : creating'[o] # Units!Nothing => o = m
  BY <1>0, <1>a
<1>3. creating'[m] = r
  BY <1>0, <1>a
<1>4. \A scope : Units!Of(scope)' = Units!Of(scope)
  BY <1>0 DEF Units!Of, Units!Kept
<1>5. Cut(Units!Of(r.scope), r.from, r.to)
  BY <1>0, UnknownIsCut DEF UnitInv
<1>6. ASSUME NEW o \in Maker, creating'[o] # Units!Nothing
      PROVE  Cut(Units!Of(creating[o].scope), creating[o].from, creating[o].to)'
  <2>1. creating'[o] = r
    BY <1>2, <1>3, <1>6
  <2>2. Units!Of(r.scope)' = Units!Of(r.scope)
    BY <1>0 DEF Units!Of, Units!Kept
  <2>3. Cut(Units!Of(r.scope)', r.from, r.to)
    BY <1>5, <2>2
  <2> QED BY <2>1, <2>3
<1>7. \A scope \in Units!Scope : Agreeing(Units!Of(scope)')
  BY <1>4 DEF UnitInv
<1> QED BY <1>0, <1>1, <1>2, <1>6, <1>7 DEF UnitInv

LEMMA DeleteKeeps ==
  ASSUME UnitInv, NEW i \in DOMAIN relations, Units!Delete(i)
  PROVE  UnitInv'
<1>0. relations' = [relations EXCEPT ![i] = Units!Gone] /\ creating' = creating
  BY DEF Units!Delete
<1>1. relations' \in Seq(Units!Relation \cup {Units!Gone})
  BY <1>0 DEF UnitInv
<1>2. ASSUME NEW scope PROVE Units!Of(scope)' \subseteq Units!Of(scope)
  <2>1. Units!Kept' \subseteq Units!Kept /\ \A j \in Units!Kept' : relations'[j] = relations[j]
    BY <1>0 DEF Units!Kept, UnitInv
  <2> QED BY <2>1 DEF Units!Of
<1>3. \A scope \in Units!Scope : Agreeing(Units!Of(scope)')
  BY <1>2, FewerAgree DEF UnitInv
<1>4. ASSUME NEW o \in Maker, creating[o] # Units!Nothing
      PROVE  Cut(Units!Of(creating[o].scope), creating[o].from, creating[o].to)'
  <2>1. Cut(Units!Of(creating[o].scope), creating[o].from, creating[o].to)
    BY <1>4 DEF UnitInv
  <2>2. Units!Of(creating[o].scope)' \in SUBSET Units!Of(creating[o].scope)
    BY <1>0 DEF Units!Of, Units!Kept, UnitInv
  <2>3. Cut(Units!Of(creating[o].scope)', creating[o].from, creating[o].to)
    BY <2>1, <2>2, FewerAgree, Zenon
  <2> QED BY <1>0, <2>3
<1> QED BY <1>0, <1>1, <1>3, <1>4 DEF UnitInv

LEMMA InsertKeeps ==
  ASSUME UnitInv, NEW m \in Maker, Units!Insert(m)
  PROVE  UnitInv'
<1> DEFINE r == creating[m]
<1>0. /\ r # Units!Nothing
      /\ relations' = relations \/ relations' = Append(relations, r)
      /\ creating' = [creating EXCEPT ![m] = Units!Nothing]
  BY DEF Units!Insert
<1>a. /\ relations \in Seq(Units!Relation \cup {Units!Gone})
      /\ creating \in [Maker -> Units!Relation \cup {Units!Nothing}]
      /\ \A o \in Maker : creating[o] # Units!Nothing => o = m
      /\ Cut(Units!Of(r.scope), r.from, r.to)
      /\ \A scope \in Units!Scope : Agreeing(Units!Of(scope))
  BY <1>0 DEF UnitInv
<1>1. r \in Units!Relation
  BY <1>0, <1>a
<1>2. creating' \in [Maker -> Units!Relation \cup {Units!Nothing}]
  BY <1>0, <1>a
<1>3. \A o \in Maker : creating'[o] = Units!Nothing
  BY <1>0, <1>a
<1> HIDE DEF r
<1>4. relations' \in Seq(Units!Relation \cup {Units!Gone})
  BY <1>0, <1>1, <1>a
<1>5. ASSUME NEW scope PROVE Units!Of(scope)' \subseteq Units!Of(scope) \cup (IF scope = r.scope THEN {r} ELSE {})
  <2>1. CASE relations' = relations
    BY <2>1 DEF Units!Of, Units!Kept
  <2>2. CASE relations' = Append(relations, r)
    <3>1. \A j \in DOMAIN relations' :
            \/ j \in DOMAIN relations /\ relations'[j] = relations[j]
            \/ relations'[j] = r
      BY <1>a, <2>2
    <3> QED BY <3>1 DEF Units!Of, Units!Kept
  <2> QED BY <1>0, <2>1, <2>2
<1>6. ASSUME NEW scope \in Units!Scope PROVE Agreeing(Units!Of(scope)')
  <2>1. CASE scope = r.scope
    <3>1. Agreeing(Units!Of(scope) \cup {r})
      BY <1>1, <1>a, <2>1, OfFacts, OneMoreAgrees
    <3>2. Units!Of(scope)' \subseteq Units!Of(scope) \cup {r}
      BY <1>5, <2>1
    <3> QED BY <3>1, <3>2, FewerAgree
  <2>2. CASE scope # r.scope
    BY <1>5, <1>a, <2>2, FewerAgree
  <2> QED BY <2>1, <2>2
<1> QED BY <1>2, <1>3, <1>4, <1>6 DEF UnitInv

LEMMA UnitStep == ASSUME OneMaker, UnitInv, [Units!Next]_(Units!vars) PROVE UnitInv'
<1>1. ASSUME relations' = relations, creating' = creating PROVE UnitInv'
  <2>1. \A scope : Units!Of(scope)' = Units!Of(scope)
    BY <1>1 DEF Units!Of, Units!Kept
  <2> QED BY <1>1, <2>1, Zenon DEF UnitInv
<1>2. ASSUME NEW m \in Maker, NEW r \in Units!Relation, Units!Refuse(m, r) PROVE UnitInv'
  BY <1>1, <1>2 DEF Units!Refuse
<1>3. ASSUME NEW s, NEW u, Units!ChangeBase(s, u) PROVE UnitInv'
  BY <1>1, <1>3 DEF Units!ChangeBase
<1>4. ASSUME UNCHANGED Units!vars PROVE UnitInv'
  BY <1>1, <1>4 DEF Units!vars
<1> QED BY <1>2, <1>3, <1>4, CreateKeeps, InsertKeeps, DeleteKeeps, Zenon DEF Units!Next

-----------------------------------------------------------------------------
(* Prices                                                                  *)

(* Every SKU has a price, and nobody takes it away.                        *)
PricesAreGiven == Asked \subseteq Nat \ {0} /\ Unset \notin Asked

Change  == [old : Asked, new : Asked]
Target  == [sku : Sku \cup {NoSku, Malformed}, new : Asked]
Prices  == [Sku -> Asked]
Changes == [Sku -> Seq(Change)]

(* Rows that go on from one another up to the price there is.              *)
Ends(list, p) ==
  /\ \A i \in 1 .. Len(list) - 1 : list[i].new = list[i + 1].old
  /\ list # <<>> => list[Len(list)].new = p

Told(prices, log) == \A s \in Sku : Ends(log[s], prices[s])

Editing(r) == /\ r = [on |-> "edit", sku |-> r.sku, new |-> r.new, seen |-> r.seen]
              /\ r.sku \in Sku /\ r.new \in Asked /\ r.seen = price
Acting(r)  == /\ r = [on |-> "action", action |-> r.action, rejects |-> r.rejects, seen |-> r.seen]
              /\ r.action \in Shelf!Action /\ r.seen = price

PriceInv ==
  /\ price \in Prices /\ history \in Changes
  /\ \A a \in Shelf!Action : actions[a].targets \in Seq(Target)
  /\ actions = [a \in Shelf!Action |-> [kind |-> actions[a].kind, status |-> actions[a].status,
                                         targets |-> actions[a].targets]]
  /\ running = [h \in Handler |-> running[h]]
  /\ \A h \in Handler : running[h] = Shelf!Idle \/ Editing(running[h]) \/ Acting(running[h])
  /\ \A h, k \in Handler : running[h] # Shelf!Idle /\ running[k] # Shelf!Idle => h = k
  /\ Told(price, history)

LEMMA OneRowMore ==
  ASSUME NEW list \in Seq(Change), NEW p, Ends(list, p), NEW q \in Asked, p \in Asked
  PROVE  /\ Append(list, [old |-> p, new |-> q]) \in Seq(Change)
         /\ Ends(Append(list, [old |-> p, new |-> q]), q)
<1> DEFINE c == [old |-> p, new |-> q]
           more == Append(list, c)
<1>1. c \in Change /\ c.old = p /\ c.new = q
  BY DEF Change
<1> HIDE DEF c
<1>2. more \in Seq(Change) /\ Len(more) = Len(list) + 1 /\ more[Len(list) + 1] = c
        /\ \A i \in 1 .. Len(list) : more[i] = list[i]
  BY <1>1
<1> HIDE DEF more
<1>3. Len(list) \in Nat
  OBVIOUS
<1>4. ASSUME NEW i \in 1 .. Len(more) - 1 PROVE more[i].new = more[i + 1].old
  <2>1. CASE i = Len(list)
    <3>1. list # <<>> /\ list[Len(list)].new = p
      BY <1>2, <1>3, <1>4, <2>1 DEF Ends
    <3> QED BY <1>1, <1>2, <1>3, <1>4, <2>1, <3>1
  <2>2. CASE i # Len(list)
    <3>1. i \in 1 .. Len(list) - 1 /\ i + 1 \in 1 .. Len(list) /\ i \in 1 .. Len(list)
      BY <1>2, <1>3, <1>4, <2>2
    <3> QED BY <1>2, <3>1 DEF Ends
  <2> QED BY <2>1, <2>2
<1>5. more[Len(more)].new = q
  BY <1>1, <1>2
<1>6. Ends(more, q)
  BY <1>4, <1>5 DEF Ends
<1> QED BY <1>2, <1>6 DEF more, c

(* Prices together with the rows that tell of them.                        *)
PriceBook == {st \in [price : Prices, log : Changes] : Told(st.price, st.log)}

LEMMA RepriceKeeps ==
  ASSUME PricesAreGiven, NEW st \in PriceBook, NEW t \in Target
  PROVE  Shelf!Reprice(st, t) \in PriceBook
<1>1. CASE t.sku \notin Sku
  BY <1>1 DEF Shelf!Reprice
<1>2. CASE t.sku \in Sku
  <2> DEFINE s == t.sku
             p == st.price[s]
             more == Append(st.log[s], [old |-> p, new |-> t.new])
  <2>1. /\ st.price \in Prices /\ st.log \in Changes /\ Told(st.price, st.log)
        /\ t.new \in Asked
    BY DEF PriceBook, Target
  <2>2. p \in Asked /\ st.log[s] \in Seq(Change) /\ Ends(st.log[s], p)
    BY <1>2, <2>1 DEF Prices, Changes, Told
  <2>3. Shelf!Shown(p) = p
    BY <2>2 DEF Shelf!Shown, PricesAreGiven
  <2>4. more \in Seq(Change) /\ Ends(more, t.new)
    BY <2>1, <2>2, OneRowMore
  <2>5. Shelf!Reprice(st, t) = [price |-> [st.price EXCEPT ![s] = t.new],
                                log |-> [st.log EXCEPT ![s] = more]]
    BY <1>2, <2>1, <2>3, Zenon DEF Shelf!Reprice, Prices, Changes
  <2> HIDE DEF more, p
  <2>6. PICK prices : prices = [st.price EXCEPT ![s] = t.new]
    OBVIOUS
  <2>7. PICK log : log = [st.log EXCEPT ![s] = more]
    OBVIOUS
  <2>8. prices \in Prices /\ log \in Changes
    BY <2>1, <2>4, <2>6, <2>7 DEF Prices, Changes
  <2>9. Told(prices, log)
    BY <1>2, <2>1, <2>4, <2>6, <2>7 DEF Told, Prices, Changes
  <2>10. Shelf!Reprice(st, t) = [price |-> prices, log |-> log]
    BY <2>5, <2>6, <2>7
  <2> QED BY <2>8, <2>9, <2>10 DEF PriceBook
<1> QED BY <1>1, <1>2

After(f, saw, log, done) ==
  f = [n \in 0 .. Len(done) |-> IF n = 0 THEN [price |-> saw, log |-> log]
                                ELSE Shelf!Reprice(f[n - 1], done[n])]

LEMMA RepricedIs ==
  ASSUME NEW saw, NEW done
  PROVE  Shelf!Repriced(saw, done) = (CHOOSE f : After(f, saw, history, done))[Len(done)]
  BY Zenon DEF Shelf!Repriced, After

LEMMA RepricedKeeps ==
  ASSUME PricesAreGiven, price \in Prices, history \in Changes, Told(price, history),
         NEW done \in Seq(Target)
  PROVE  Shelf!Repriced(price, done) \in PriceBook
<1> DEFINE a == [price |-> price, log |-> history]
           step == [n \in Nat |-> [st \in PriceBook |->
                      IF n + 1 \in DOMAIN done THEN Shelf!Reprice(st, done[n + 1]) ELSE st]]
           w == CHOOSE f : After(f, price, history, done)
<1>1. a \in PriceBook
  BY DEF PriceBook
<1>2. \A n \in DOMAIN done : done[n] \in Target
  OBVIOUS
<1>3. step \in [Nat -> [PriceBook -> PriceBook]]
  BY <1>2, RepriceKeeps
<1>4. \E g \in [Nat -> PriceBook] : Solves(g, a, step)
  <2> HIDE DEF a, step
  <2> QED BY <1>1, <1>3, Recursion
<1>5. PICK g \in [Nat -> PriceBook] :
        g[0] = a /\ \A n \in Nat : n + 1 \in DOMAIN done => g[n + 1] = Shelf!Reprice(g[n], done[n + 1])
  BY <1>4 DEF Solves
<1> HIDE DEF a
<1> DEFINE f == [n \in 0 .. Len(done) |-> g[n]]
<1>6. After(f, price, history, done)
  <2>1. ASSUME NEW n \in 0 .. Len(done), n # 0 PROVE f[n] = Shelf!Reprice(f[n - 1], done[n])
    <3>1. n - 1 \in Nat /\ n - 1 \in 0 .. Len(done) /\ (n - 1) + 1 = n /\ n \in DOMAIN done
      BY <2>1
    <3> QED BY <1>5, <3>1
  <2>2. f[0] = a
    BY <1>5
  <2> HIDE DEF f
  <2>3. f = [n \in 0 .. Len(done) |-> f[n]]
    BY DEF f
  <2> QED BY <2>1, <2>2, <2>3 DEF After, a
<1>7. After(w, price, history, done)
  <2> HIDE DEF f
  <2> QED BY <1>6
<1> HIDE DEF w
<1> DEFINE T == {n \in Nat : n <= Len(done) => w[n] \in PriceBook}
<1>8. 0 \in T
  BY <1>1, <1>7 DEF After, a
<1>9. ASSUME NEW n \in Nat, n \in T PROVE n + 1 \in T
  <2>1. CASE n + 1 <= Len(done)
    <3>1. n + 1 \in 0 .. Len(done) /\ n + 1 # 0 /\ (n + 1) - 1 = n /\ n + 1 \in DOMAIN done
      BY <2>1
    <3>2. w[n + 1] = Shelf!Reprice(w[n], done[n + 1])
      BY <1>7, <3>1 DEF After
    <3>3. w[n] \in PriceBook
      BY <1>9, <2>1
    <3>4. w[n + 1] \in PriceBook
      BY <1>2, <3>1, <3>2, <3>3, RepriceKeeps
    <3> QED BY <3>4
  <2> QED BY <2>1
<1> HIDE DEF T
<1>10. Len(done) \in T
  BY <1>8, <1>9, Counting
<1>11. w[Len(done)] \in PriceBook
  BY <1>10 DEF T
<1> QED BY <1>11, RepricedIs DEF w

-----------------------------------------------------------------------------
LEMMA WorkedIn ==
  ASSUME NEW kind, NEW targets \in Seq(Target)
  PROVE  Shelf!Worked(kind, targets).done \in Seq(Target)
<1> DEFINE good == {i \in DOMAIN targets : \A j \in 1 .. i : ~Shelf!Stops(kind, targets[j])}
<1>1. good \subseteq 1 .. Len(targets) /\ Len(targets) \in Nat
  OBVIOUS
<1> HIDE DEF good
<1>2. Cardinality(good) \in Nat /\ Cardinality(good) <= Len(targets)
  <2>1. IsFiniteSet(1 .. Len(targets)) /\ Cardinality(1 .. Len(targets)) = Len(targets)
    BY <1>1, FS_Interval
  <2> QED BY <1>1, <2>1, FS_Subset, FS_CardinalityType
<1>3. Shelf!Cardinality(good) = Cardinality(good)
  BY DEF Shelf!Cardinality, Cardinality
<1>4. Shelf!Worked(kind, targets).done = SubSeq(targets, 1, Cardinality(good))
  BY <1>3 DEF Shelf!Worked, good
<1> QED BY <1>2, <1>4

LEMMA TargetsAre ==
  ASSUME NEW kind, NEW targets \in Shelf!Targets(kind)
  PROVE  targets \in Seq(Target)
<1> DEFINE T == [sku : Sku \cup {NoSku, Malformed}, new : Asked \ {Unset}]
<1>1. T \subseteq Target
  BY DEF Target
<1>2. CASE kind = "price"
  <2>1. PICK t \in T : targets = <<t>>
    BY <1>2 DEF Shelf!Targets
  <2> QED BY <1>1, <2>1
<1>3. CASE kind # "price"
  <2>1. targets \in Shelf!SeqOf(T, MaxTargets)
    BY <1>3 DEF Shelf!Targets
  <2>2. PICK n \in 0 .. MaxTargets : targets \in [1 .. n -> T]
    BY <2>1 DEF Shelf!SeqOf
  <2> HIDE DEF T
  <2>3. n \in Nat /\ targets \in [1 .. n -> Target]
    BY <1>1, <2>2
  <2> QED BY <2>3
<1> QED BY <1>2, <1>3

LEMMA ShelfInit == Shelf!Init => PriceInv
<1> SUFFICES ASSUME Shelf!Init PROVE PriceInv
  OBVIOUS
<1>1. price \in Prices /\ history \in Changes
  BY DEF Shelf!Init, Prices, Changes
<1>2. Told(price, history)
  BY DEF Shelf!Init, Told, Ends
<1>3. /\ \A a \in Shelf!Action : actions[a].targets \in Seq(Target)
      /\ actions = [a \in Shelf!Action |-> [kind |-> actions[a].kind, status |-> actions[a].status,
                                            targets |-> actions[a].targets]]
  <2>1. PICK row : row = Shelf!NoRow
    OBVIOUS
  <2>2. /\ row.targets \in Seq(Target)
        /\ row = [kind |-> row.kind, status |-> row.status, targets |-> row.targets]
    BY <2>1 DEF Shelf!NoRow
  <2>3. actions = [a \in Shelf!Action |-> row]
    BY <2>1 DEF Shelf!Init
  <2> QED BY <2>2, <2>3
<1> QED BY <1>1, <1>2, <1>3 DEF PriceInv, Shelf!Init

(* The handler that runs is the only one, and it ends.                     *)
LEMMA EndKeeps ==
  ASSUME PriceInv, NEW h \in Handler, running[h] # Shelf!Idle,
         running' = [running EXCEPT ![h] = Shelf!Idle],
         price' \in Prices /\ history' \in Changes, Told(price', history'),
         NEW status, NEW a, actions' = actions \/ actions' = [actions EXCEPT ![a].status = status]
  PROVE  PriceInv'
<1>1. /\ \A k \in Handler : running'[k] = Shelf!Idle
      /\ running' = [k \in Handler |-> running'[k]]
  BY DEF PriceInv
<1>2. /\ \A b \in Shelf!Action : actions'[b].targets \in Seq(Target)
      /\ actions' = [b \in Shelf!Action |-> [kind |-> actions'[b].kind, status |-> actions'[b].status,
                                            targets |-> actions'[b].targets]]
  <2>1. CASE actions' = actions
    BY <2>1, Zenon DEF PriceInv
  <2>2. CASE actions' = [actions EXCEPT ![a].status = status]
    <3>1. \A b \in Shelf!Action :
            actions[b] = [kind |-> actions[b].kind, status |-> actions[b].status,
                          targets |-> actions[b].targets]
      BY Zenon DEF PriceInv
    <3>2. DOMAIN actions = Shelf!Action /\ actions = [b \in Shelf!Action |-> actions[b]]
      BY DEF PriceInv
    <3>3. \A b \in Shelf!Action :
            actions'[b] = IF b = a THEN [actions[b] EXCEPT !.status = status] ELSE actions[b]
      BY <2>2, <3>2
    <3>4. actions' = [b \in Shelf!Action |-> actions'[b]]
      BY <2>2, <3>2
    <3>5. ASSUME NEW b \in Shelf!Action
          PROVE  /\ actions'[b].targets = actions[b].targets
                 /\ actions'[b] = [kind |-> actions'[b].kind, status |-> actions'[b].status,
                                   targets |-> actions'[b].targets]
      BY <3>1, <3>3
    <3> QED BY <3>4, <3>5 DEF PriceInv
  <2> QED BY <2>1, <2>2
<1> QED BY <1>1, <1>2 DEF PriceInv

LEMMA BeginKeeps ==
  ASSUME OneHandler, PriceInv, NEW h \in Handler, NEW r, Editing(r) \/ Acting(r),
         Shelf!Alone, running' = [running EXCEPT ![h] = r],
         UNCHANGED <<price, history, actions>>
  PROVE  PriceInv'
<1>1. \A k \in Handler : running[k] = Shelf!Idle
  BY DEF Shelf!Alone, Shelf!Free
<1>2. running' = [k \in Handler |-> running'[k]] /\ running'[h] = r
        /\ \A k \in Handler : k # h => running'[k] = Shelf!Idle
  BY <1>1 DEF PriceInv
<1>3. Editing(r)' \/ Acting(r)'
  BY DEF Editing, Acting
<1>4. \A k \in Handler : running'[k] = Shelf!Idle \/ Editing(running[k])' \/ Acting(running[k])'
  BY <1>2, <1>3 DEF Editing, Acting
<1>5. \A k, l \in Handler : running'[k] # Shelf!Idle /\ running'[l] # Shelf!Idle => k = l
  BY <1>2
<1> QED BY <1>2, <1>4, <1>5 DEF PriceInv

LEMMA EditIsTold ==
  ASSUME PricesAreGiven, PriceInv, NEW h \in Handler, Shelf!CommitEdit(h)
  PROVE  PriceInv'
<1> DEFINE s == running[h].sku
           q == running[h].new
           p == price[s]
           more == Append(history[s], [old |-> p, new |-> q])
<1>1. running[h].on = "edit"
  BY DEF Shelf!CommitEdit
<1>2. Editing(running[h]) /\ running[h] # Shelf!Idle
  <2>1. running[h] # Shelf!Idle
    BY <1>1 DEF Shelf!Idle
  <2>2. ~Acting(running[h])
    <3> SUFFICES ASSUME Acting(running[h]) PROVE FALSE
      OBVIOUS
    <3>1. running[h].on = "action"
      BY DEF Acting
    <3> QED BY <1>1, <3>1
  <2> QED BY <2>1, <2>2 DEF PriceInv
<1>3. s \in Sku /\ q \in Asked /\ running[h].seen = price
  BY <1>2 DEF Editing
<1>4. price \in Prices /\ history \in Changes /\ Told(price, history)
  BY DEF PriceInv
<1>5. p \in Asked /\ history[s] \in Seq(Change) /\ Ends(history[s], p)
  BY <1>3, <1>4 DEF Prices, Changes, Told
<1>6. Shelf!IsLogged(p, q) <=> p # q
  BY <1>3, <1>5 DEF Shelf!IsLogged, Shelf!Given, PricesAreGiven
<1>7. /\ price' = Shelf!Written(price, [price EXCEPT ![s] = q])
      /\ history' = IF p # q THEN [history EXCEPT ![s] = more] ELSE history
      /\ running' = [running EXCEPT ![h] = Shelf!Idle]
      /\ actions' = actions
  BY <1>3, <1>6 DEF Shelf!CommitEdit
<1>8. price' = [price EXCEPT ![s] = q]
  BY <1>3, <1>4, <1>7 DEF Shelf!Written, Prices
<1>9. more \in Seq(Change) /\ Ends(more, q)
  BY <1>3, <1>5, OneRowMore
<1> HIDE DEF more, p, q, s
<1>10. price' \in Prices
  BY <1>3, <1>4, <1>8 DEF Prices
<1>11. history' \in Changes /\ Told(price', history')
  <2>1. CASE p # q
    <3>1. history' = [history EXCEPT ![s] = more]
      BY <1>7, <2>1
    <3> QED BY <1>3, <1>4, <1>8, <1>9, <3>1 DEF Prices, Changes, Told
  <2>2. CASE p = q
    <3>1. history' = history
      BY <1>7, <2>2
    <3>2. price' = price
      BY <1>3, <1>4, <1>8, <2>2 DEF Prices, p
    <3> QED BY <1>4, <3>1, <3>2
  <2> QED BY <2>1, <2>2
<1> QED BY <1>2, <1>7, <1>10, <1>11, EndKeeps

LEMMA PricesAreTold ==
  ASSUME PricesAreGiven, PriceInv, NEW h \in Handler, Shelf!CommitPrices(h)
  PROVE  PriceInv'
<1> DEFINE a == running[h].action
           w == Shelf!Worked(actions[a].kind, actions[a].targets)
           st == Shelf!Repriced(price, w.done)
<1>1. running[h].on = "action"
  BY DEF Shelf!CommitPrices
<1>2. Acting(running[h]) /\ running[h] # Shelf!Idle
  <2>1. running[h] # Shelf!Idle
    BY <1>1 DEF Shelf!Idle
  <2>2. ~Editing(running[h])
    <3> SUFFICES ASSUME Editing(running[h]) PROVE FALSE
      OBVIOUS
    <3>1. running[h].on = "edit"
      BY DEF Editing
    <3> QED BY <1>1, <3>1
  <2> QED BY <2>1, <2>2 DEF PriceInv
<1>3. a \in Shelf!Action /\ running[h].seen = price
  BY <1>2 DEF Acting
<1>4. /\ price' = Shelf!Written(price, st.price)
      /\ history' = st.log
      /\ running' = [running EXCEPT ![h] = Shelf!Idle]
      /\ actions' = [actions EXCEPT ![a].status = Shelf!Outcome(w.stopped)]
  BY <1>3 DEF Shelf!CommitPrices
<1>5. w.done \in Seq(Target)
  BY <1>3, WorkedIn DEF PriceInv
<1> HIDE DEF w
<1>6. st \in PriceBook
  BY <1>5, RepricedKeeps DEF PriceInv
<1> HIDE DEF st
<1>7. st.price \in Prices /\ st.log \in Changes /\ Told(st.price, st.log)
  BY <1>6 DEF PriceBook
<1>8. price' = st.price
  <2>1. price \in Prices
    BY DEF PriceInv
  <2> QED BY <1>4, <1>7, <2>1 DEF Shelf!Written, Prices
<1> QED BY <1>2, <1>4, <1>7, <1>8, EndKeeps

LEMMA ShelfStep ==
  ASSUME OneHandler, PricesAreGiven, PriceInv, [Shelf!Next]_(Shelf!vars) PROVE PriceInv'
<1>1. ASSUME UNCHANGED Shelf!vars PROVE PriceInv'
  BY <1>1 DEF Shelf!vars, PriceInv, Editing, Acting
<1>2. ASSUME NEW h \in Handler, NEW s \in Sku, NEW p \in Asked, Shelf!BeginEdit(h, s, p)
      PROVE  PriceInv'
  <2> DEFINE r == [on |-> "edit", sku |-> s, new |-> p, seen |-> price]
  <2>1. Editing(r)
    BY DEF Editing
  <2>2. running' = [running EXCEPT ![h] = r] /\ Shelf!Alone /\ UNCHANGED <<price, history, actions>>
    BY <1>2 DEF Shelf!BeginEdit
  <2> HIDE DEF r
  <2> QED BY <2>1, <2>2, BeginKeeps
<1>3. ASSUME NEW h \in Handler, NEW a \in Shelf!Action, NEW rejects \in BOOLEAN,
             Shelf!BeginExecute(h, a, rejects)
      PROVE  PriceInv'
  <2> DEFINE r == [on |-> "action", action |-> a, rejects |-> rejects, seen |-> price]
  <2>1. Acting(r)
    BY DEF Acting
  <2>2. running' = [running EXCEPT ![h] = r] /\ Shelf!Alone /\ UNCHANGED <<price, history, actions>>
    BY <1>3 DEF Shelf!BeginExecute
  <2> HIDE DEF r
  <2> QED BY <2>1, <2>2, BeginKeeps
<1>4. ASSUME NEW a \in Shelf!Action, NEW k \in Shelf!Kind, NEW ts \in Shelf!Targets(k),
             Shelf!Suggest(a, k, ts)
      PROVE  PriceInv'
  <2>1. ts \in Seq(Target)
    BY TargetsAre
  <2> DEFINE row == [kind |-> k, status |-> "pending", targets |-> ts]
  <2>2. /\ actions' = [actions EXCEPT ![a] = row]
        /\ UNCHANGED <<price, history, running>>
    BY <1>4 DEF Shelf!Suggest
  <2>3. row.targets \in Seq(Target)
          /\ row = [kind |-> row.kind, status |-> row.status, targets |-> row.targets]
    BY <2>1
  <2> HIDE DEF row
  <2>4. /\ \A b \in Shelf!Action : actions'[b].targets \in Seq(Target)
        /\ actions' = [b \in Shelf!Action |-> [kind |-> actions'[b].kind, status |-> actions'[b].status,
                                               targets |-> actions'[b].targets]]
    <3>1. \A b \in Shelf!Action :
            actions[b] = [kind |-> actions[b].kind, status |-> actions[b].status,
                          targets |-> actions[b].targets]
      BY Zenon DEF PriceInv
    <3>2. DOMAIN actions = Shelf!Action
      BY DEF PriceInv
    <3>3. \A b \in Shelf!Action : actions'[b] = IF b = a THEN row ELSE actions[b]
      BY <2>2, <3>2
    <3>4. actions' = [b \in Shelf!Action |-> actions'[b]]
      BY <2>2, <3>2
    <3>5. \A b \in Shelf!Action :
            /\ actions'[b] = [kind |-> actions'[b].kind, status |-> actions'[b].status,
                              targets |-> actions'[b].targets]
            /\ actions'[b].targets \in Seq(Target)
      BY <2>3, <3>1, <3>3, Zenon DEF PriceInv
    <3> QED BY <3>4, <3>5
  <2> QED BY <2>2, <2>4 DEF PriceInv, Editing, Acting
<1>5. ASSUME NEW h \in Handler, Shelf!CommitReject(h) \/ Shelf!CommitList(h) PROVE PriceInv'
  <2>1. /\ UNCHANGED <<price, history>> /\ running' = [running EXCEPT ![h] = Shelf!Idle]
        /\ \E status : actions' = [actions EXCEPT ![running[h].action].status = status]
        /\ running[h].on = "action"
    BY <1>5, Zenon DEF Shelf!CommitReject, Shelf!CommitList
  <2>2. running[h] # Shelf!Idle
    BY <2>1 DEF Shelf!Idle
  <2>3. price' \in Prices /\ history' \in Changes /\ Told(price', history')
    BY <2>1 DEF PriceInv
  <2> QED BY <2>1, <2>2, <2>3, EndKeeps
<1> QED BY <1>1, <1>2, <1>3, <1>4, <1>5, EditIsTold, PricesAreTold, Zenon DEF Shelf!Next

LEMMA PriceInvExplains == PriceInv => Shelf!HistoryIsChain
<1> SUFFICES ASSUME PriceInv, NEW s \in Sku
             PROVE  /\ \A i \in 1 .. Len(history[s]) - 1 :
                         history[s][i].new = history[s][i + 1].old
                    /\ history[s] # <<>> => Shelf!Last(history[s]).new = price[s]
  BY DEF Shelf!HistoryIsChain
<1> QED BY DEF PriceInv, Told, Ends, Shelf!Last

-----------------------------------------------------------------------------
(* Both desks in one office                                                *)

officeVars == <<desk, voiceVars, tenantVars, channelVars, priceVars, unitVars>>

LEMMA OfficeSteps ==
  ASSUME [OfficeNext]_officeVars
  PROVE  /\ [Shelf!Next]_(Shelf!vars) /\ [Units!Next]_(Units!vars)
<1>1. ASSUME UNCHANGED priceVars PROVE UNCHANGED Shelf!vars
  BY <1>1 DEF priceVars, Shelf!vars
<1>2. ASSUME UNCHANGED unitVars PROVE UNCHANGED Units!vars
  BY <1>2 DEF unitVars, Units!vars
<1>3. Shelf!Next \/ UNCHANGED priceVars
  BY Zenon DEF OfficeNext, officeVars
<1>4. Units!Next \/ UNCHANGED unitVars
  BY Zenon DEF OfficeNext, officeVars
<1> QED BY <1>1, <1>2, <1>3, <1>4

(* The catalogue never contradicts itself, however many SKUs, units,       *)
(* suggestions and changes there are: the rows of price_history go on from *)
(* one another up to the price there is, and all chains of relations       *)
(* between two units give the same factor; if requests do not overlap and  *)
(* every SKU has a price.                                                  *)
THEOREM CatalogueAgreesHolds ==
  OneHandler /\ OneMaker /\ PricesAreGiven => (OfficeSpec => []CatalogueAgrees)
<1> SUFFICES ASSUME OneHandler, OneMaker, PricesAreGiven PROVE OfficeSpec => []CatalogueAgrees
  OBVIOUS
<1>1. OfficeInit => PriceInv /\ UnitInv
  BY ShelfInit, UnitInit DEF OfficeInit
<1>2. PriceInv /\ UnitInv /\ [OfficeNext]_officeVars => (PriceInv /\ UnitInv)'
  BY OfficeSteps, ShelfStep, UnitStep
<1>3. PriceInv /\ UnitInv => CatalogueAgrees
  BY PriceInvExplains, PathsAgree DEF UnitInv, CatalogueAgrees
<1> QED BY <1>1, <1>2, <1>3, PTL DEF OfficeSpec, officeVars

-----------------------------------------------------------------------------
(* Reconciliation                                                          *)

Name == Ref \cup Order \cup {NoRef}

Diff == [type : {"channel_only", "amount_mismatch", "system_only"},
         system : Name, channel : Name, status : {"open", "resolved", "ignored"},
         due : SUBSET Run]

LEMMA ChannelPicks == \A list, T : Channel!Picked(list, T) = Picked(list, T)
<1>1. \A T : Channel!Cardinality(T) = Cardinality(T)
  BY DEF Channel!Cardinality, Cardinality
<1>2. \A T, n : Channel!Nth(T, n) = Nth(T, n)
  BY <1>1 DEF Channel!Nth, Nth
<1> QED BY <1>1, <1>2 DEF Channel!Picked, Picked

(* The positions of a list at which something holds.                       *)
LEMMA PickedOf ==
  ASSUME NEW S, NEW list \in Seq(S), NEW T \in SUBSET DOMAIN list
  PROVE  /\ Channel!Picked(list, T) \in Seq(S)
         /\ \A n \in DOMAIN Channel!Picked(list, T) :
              \E i \in T : Channel!Picked(list, T)[n] = list[i]
         /\ \A i \in T : \E n \in DOMAIN Channel!Picked(list, T) :
              Channel!Picked(list, T)[n] = list[i]
<1>1. Len(list) \in Nat /\ Among(T, Len(list)) /\ \A i \in T : list[i] \in S
  BY DEF Among
<1>2. {list[i] : i \in T} \subseteq S
  BY <1>1
<1>3. /\ Picked(list, T) \in Seq({list[i] : i \in T})
      /\ \A n \in DOMAIN Picked(list, T) : \E i \in T : Picked(list, T)[n] = list[i]
      /\ \A i \in T : \E n \in DOMAIN Picked(list, T) : Picked(list, T)[n] = list[i]
  BY <1>1, PickedFacts
<1>4. Picked(list, T) \in Seq(S)
  BY <1>2, <1>3
<1> QED BY <1>3, <1>4, ChannelPicks

-----------------------------------------------------------------------------
(* Matching                                                                *)

(* A payment is matched once: what an entry has taken is used.             *)
Matched(st) ==
  /\ \A e \in DOMAIN st.match : st.match[e] \notin st.unused
  /\ \A e, f \in DOMAIN st.match : e # f /\ st.match[e] # 0 => st.match[e] # st.match[f]

Matches(got) == {st \in [unused : SUBSET DOMAIN got, match : Seq({0} \cup DOMAIN got)] : Matched(st)}

LEMMA ChoiceIn ==
  ASSUME NEW got \in Seq(Channel!Row), NEW among \in SUBSET DOMAIN got, among # {}, NEW entry
  PROVE  Channel!Choice(got, among, entry) \in among
<1> DEFINE equal == {p \in among : got[p].amount = entry.amount}
           best == IF equal # {} THEN equal ELSE among
<1>1. best \in SUBSET Nat /\ best # {} /\ best \subseteq among
  OBVIOUS
<1>2. Channel!Choice(got, among, entry) = CHOOSE p \in best : \A q \in best : p <= q
  BY Zenon DEF Channel!Choice
<1> HIDE DEF best
<1>3. (CHOOSE p \in best : \A q \in best : p <= q) \in best
  BY <1>1, LeastIn
<1> QED BY <1>1, <1>2, <1>3

LEMMA MatchOneKeeps ==
  ASSUME NEW got \in Seq(Channel!Row), NEW st \in Matches(got), NEW entry
  PROVE  /\ Channel!MatchOne(got, st, entry) \in Matches(got)
         /\ Len(Channel!MatchOne(got, st, entry).match) = Len(st.match) + 1
<1> DEFINE C == Channel!Candidates(got, st.unused, entry)
           p == IF C = {} THEN 0 ELSE Channel!Choice(got, C, entry)
           unused == st.unused \ {p}
           match == Append(st.match, p)
<1>1. /\ st.unused \in SUBSET DOMAIN got /\ st.match \in Seq({0} \cup DOMAIN got)
      /\ Matched(st)
  BY DEF Matches
<1>2. C \subseteq st.unused
  BY DEF Channel!Candidates
<1>3. C # {} => p \in st.unused
  BY <1>1, <1>2, ChoiceIn
<1>4. p = 0 \/ p \in st.unused
  BY <1>3
<1>5. Channel!MatchOne(got, st, entry) = [unused |-> unused, match |-> match]
  BY Zenon DEF Channel!MatchOne
<1> HIDE DEF p, C
<1>6. /\ match \in Seq({0} \cup DOMAIN got) /\ Len(match) = Len(st.match) + 1
      /\ DOMAIN match = DOMAIN st.match \cup {Len(st.match) + 1}
      /\ match[Len(st.match) + 1] = p
      /\ \A e \in DOMAIN st.match : match[e] = st.match[e] /\ e # Len(st.match) + 1
  BY <1>1, <1>4
<1> HIDE DEF match
<1>7. \A e \in DOMAIN match : match[e] \notin unused
  BY <1>1, <1>6 DEF Matched
<1>8. ASSUME NEW e \in DOMAIN match, NEW f \in DOMAIN match, e # f, match[e] # 0
      PROVE  match[e] # match[f]
  <2>1. CASE e \in DOMAIN st.match /\ f \in DOMAIN st.match
    BY <1>1, <1>6, <1>8, <2>1 DEF Matched
  <2>2. CASE e \in DOMAIN st.match /\ f = Len(st.match) + 1
    <3>1. match[e] = st.match[e] /\ match[f] = p /\ st.match[e] \notin st.unused
      BY <1>1, <1>6, <2>2 DEF Matched
    <3> QED BY <1>4, <1>8, <3>1
  <2>3. CASE f \in DOMAIN st.match /\ e = Len(st.match) + 1
    <3>1. match[f] = st.match[f] /\ match[e] = p /\ st.match[f] \notin st.unused
      BY <1>1, <1>6, <2>3 DEF Matched
    <3> QED BY <1>4, <1>8, <3>1
  <2> QED BY <1>6, <1>8, <2>1, <2>2, <2>3
<1>9. unused \in SUBSET DOMAIN got
  BY <1>1
<1> HIDE DEF unused
<1>10. Matched([unused |-> unused, match |-> match])
  BY <1>7, <1>8 DEF Matched
<1> QED BY <1>5, <1>6, <1>9, <1>10 DEF Matches

Pairs(f, got, lines) ==
  f = [n \in 0 .. Len(lines) |->
         IF n = 0 THEN [unused |-> DOMAIN got, match |-> <<>>]
         ELSE Channel!MatchOne(got, f[n - 1], lines[n])]

LEMMA MatchingIs ==
  ASSUME NEW got, NEW lines
  PROVE  Channel!Matching(got, lines) = (CHOOSE f : Pairs(f, got, lines))[Len(lines)]
  BY Zenon DEF Channel!Matching, Pairs

LEMMA MatchingFacts ==
  ASSUME NEW got \in Seq(Channel!Row), NEW lines \in Seq(Channel!Row)
  PROVE  /\ Channel!Matching(got, lines) \in Matches(got)
         /\ Len(Channel!Matching(got, lines).match) = Len(lines)
<1> DEFINE M == Matches(got)
           a == [unused |-> DOMAIN got, match |-> <<>>]
           step == [n \in Nat |-> [st \in M |-> Channel!MatchOne(got, st, lines[n + 1])]]
           w == CHOOSE f : Pairs(f, got, lines)
<1>1. a \in M
  BY DEF Matches, Matched
<1>2. step \in [Nat -> [M -> M]]
  BY MatchOneKeeps
<1>3. \E g \in [Nat -> M] : Solves(g, a, step)
  <2> HIDE DEF M, a, step
  <2> QED BY <1>1, <1>2, Recursion
<1>4. PICK g \in [Nat -> M] :
        g[0] = a /\ \A n \in Nat : g[n + 1] = Channel!MatchOne(got, g[n], lines[n + 1])
  BY <1>3 DEF Solves
<1> DEFINE f == [n \in 0 .. Len(lines) |-> g[n]]
<1> HIDE DEF M, a
<1>5. Pairs(f, got, lines)
  <2>1. ASSUME NEW n \in 0 .. Len(lines), n # 0
        PROVE  f[n] = Channel!MatchOne(got, f[n - 1], lines[n])
    <3>1. n - 1 \in Nat /\ n - 1 \in 0 .. Len(lines) /\ (n - 1) + 1 = n
      BY <2>1
    <3> QED BY <1>4, <3>1
  <2>2. f[0] = a
    BY <1>4
  <2> HIDE DEF f
  <2>3. f = [n \in 0 .. Len(lines) |-> f[n]]
    BY DEF f
  <2> QED BY <2>1, <2>2, <2>3 DEF Pairs, a
<1>6. Pairs(w, got, lines)
  <2> HIDE DEF f
  <2> QED BY <1>5
<1> HIDE DEF w
<1> DEFINE T == {n \in Nat : n <= Len(lines) => w[n] \in M /\ Len(w[n].match) = n}
<1>7. 0 \in T
  BY <1>1, <1>6 DEF Pairs, a
<1>8. ASSUME NEW n \in Nat, n \in T PROVE n + 1 \in T
  <2>1. CASE n + 1 <= Len(lines)
    <3>1. n + 1 \in 0 .. Len(lines) /\ n + 1 # 0 /\ (n + 1) - 1 = n
      BY <2>1
    <3>2. w[n + 1] = Channel!MatchOne(got, w[n], lines[n + 1])
      BY <1>6, <3>1 DEF Pairs
    <3>3. w[n] \in M /\ Len(w[n].match) = n
      BY <1>8, <2>1
    <3>4. w[n + 1] \in M /\ Len(w[n + 1].match) = n + 1
      BY <3>2, <3>3, MatchOneKeeps DEF M
    <3> QED BY <3>4
  <2> QED BY <2>1
<1> HIDE DEF T
<1>9. Len(lines) \in T
  BY <1>7, <1>8, Counting
<1>10. w[Len(lines)] \in M /\ Len(w[Len(lines)].match) = Len(lines)
  BY <1>9 DEF T
<1> QED BY <1>10, MatchingIs DEF w, M

-----------------------------------------------------------------------------
(* Differences                                                             *)

(* What is not paired, by name.                                            *)
Unpaired(got, lines) ==
  LET m == Channel!Matching(got, lines)
  IN {Channel!Shown(lines[e]) : e \in {e \in DOMAIN m.match :
                 m.match[e] = 0 \/ got[m.match[e]].amount # lines[e].amount}}
       \cup {Channel!Shown(got[p]) : p \in m.unused}

Names(list, n) == \E d \in DOMAIN list : n \in {list[d].system, list[d].channel}

LEMMA ShownIn == ASSUME NEW r \in Channel!Row PROVE Channel!Shown(r) \in Name
  BY DEF Channel!Shown, Channel!Row, Name

LEMMA FoundFacts ==
  ASSUME NEW got \in Seq(Channel!Row), NEW lines \in Seq(Channel!Row)
  PROVE  /\ Channel!Found(got, lines) \in Seq(Diff)
         /\ \A d \in DOMAIN Channel!Found(got, lines) :
              Channel!Found(got, lines)[d].status = "open" /\ Channel!Found(got, lines)[d].due = {}
         /\ \A n \in Unpaired(got, lines) : Names(Channel!Found(got, lines), n)
<1> DEFINE m == Channel!Matching(got, lines)
           open(e) == IF m.match[e] = 0
                      THEN Channel!Difference("channel_only", NoRef, Channel!Shown(lines[e]))
                      ELSE Channel!Difference("amount_mismatch", Channel!Shown(got[m.match[e]]),
                                              Channel!Shown(lines[e]))
           unpaired == {e \in DOMAIN lines :
                          m.match[e] # 0 => got[m.match[e]].amount # lines[e].amount}
           A == [e \in DOMAIN lines |-> open(e)]
           B == [p \in DOMAIN got |->
                   Channel!Difference("system_only", Channel!Shown(got[p]), NoRef)]
           a == Channel!Picked(A, unpaired)
           b == Channel!Picked(B, m.unused)
           New == {d \in Diff : d.status = "open" /\ d.due = {}}
<1>1. Channel!Found(got, lines) = a \o b
  BY Zenon DEF Channel!Found
<1>2. /\ m.unused \in SUBSET DOMAIN got /\ m.match \in Seq({0} \cup DOMAIN got)
      /\ DOMAIN m.match = DOMAIN lines
  <2>1. m \in Matches(got) /\ Len(m.match) = Len(lines)
    BY MatchingFacts
  <2> HIDE DEF m
  <2>2. m.unused \in SUBSET DOMAIN got /\ m.match \in Seq({0} \cup DOMAIN got)
    BY <2>1 DEF Matches
  <2> QED BY <2>1, <2>2
<1> HIDE DEF m
<1>3. ASSUME NEW e \in DOMAIN lines
      PROVE  open(e) \in New /\ open(e).channel = Channel!Shown(lines[e])
  <2>1. lines[e] \in Channel!Row /\ (m.match[e] # 0 => got[m.match[e]] \in Channel!Row)
    BY <1>2
  <2>2. Channel!Shown(lines[e]) \in Name /\ (m.match[e] # 0 => Channel!Shown(got[m.match[e]]) \in Name)
    BY <2>1, ShownIn
  <2> QED BY <2>2 DEF Channel!Difference, Diff, Name
<1>4. ASSUME NEW p \in DOMAIN got
      PROVE  B[p] \in New /\ B[p].system = Channel!Shown(got[p])
  <2>1. Channel!Shown(got[p]) \in Name
    BY ShownIn
  <2> QED BY <2>1 DEF Channel!Difference, Diff, Name
<1> HIDE DEF open
<1>5. A \in Seq(New) /\ DOMAIN A = DOMAIN lines /\ \A e \in DOMAIN lines : A[e] = open(e)
  <2>1. A \in [1 .. Len(lines) -> New]
    BY <1>3
  <2> QED BY <2>1
<1>6. B \in Seq(New) /\ DOMAIN B = DOMAIN got
  <2>1. B \in [1 .. Len(got) -> New]
    BY <1>4
  <2> QED BY <2>1
<1> HIDE DEF A, B, New
<1>7. unpaired \in SUBSET DOMAIN A /\ m.unused \in SUBSET DOMAIN B
  BY <1>2, <1>5, <1>6
<1>8. a \in Seq(New) /\ \A e \in unpaired : \E d \in DOMAIN a : a[d] = A[e]
  BY <1>5, <1>7, PickedOf
<1>9. b \in Seq(New) /\ \A p \in m.unused : \E d \in DOMAIN b : b[d] = B[p]
  BY <1>6, <1>7, PickedOf
<1> HIDE DEF a, b
<1>10. a \o b \in Seq(New) /\ \A d \in DOMAIN a : d \in DOMAIN (a \o b) /\ (a \o b)[d] = a[d]
  BY <1>8, <1>9
<1>11. \A d \in DOMAIN b : Len(a) + d \in DOMAIN (a \o b) /\ (a \o b)[Len(a) + d] = b[d]
  BY <1>8, <1>9
<1>12. ASSUME NEW n \in Unpaired(got, lines) PROVE Names(a \o b, n)
  <2>1. CASE \E e \in DOMAIN m.match :
               /\ m.match[e] = 0 \/ got[m.match[e]].amount # lines[e].amount
               /\ n = Channel!Shown(lines[e])
    <3>1. PICK e \in unpaired : n = Channel!Shown(lines[e])
      BY <1>2, <2>1
    <3>2. PICK d \in DOMAIN a : a[d] = A[e]
      BY <1>8
    <3>3. a[d].channel = n
      BY <1>3, <1>5, <3>1, <3>2
    <3> QED BY <1>10, <3>3 DEF Names
  <2>2. CASE \E p \in m.unused : n = Channel!Shown(got[p])
    <3>1. PICK p \in m.unused : n = Channel!Shown(got[p])
      BY <2>2
    <3>2. PICK d \in DOMAIN b : b[d] = B[p]
      BY <1>9
    <3>3. b[d].system = n
      BY <1>2, <1>4, <3>1, <3>2
    <3> QED BY <1>11, <3>3 DEF Names
  <2> QED BY <2>1, <2>2 DEF Unpaired, m
<1>13. \A d \in DOMAIN (a \o b) : (a \o b)[d] \in New
  BY <1>10
<1>14. a \o b \in Seq(Diff)
  BY <1>10 DEF New
<1>15. \A d \in DOMAIN (a \o b) : (a \o b)[d].status = "open" /\ (a \o b)[d].due = {}
  BY <1>13 DEF New
<1> QED BY <1>1, <1>12, <1>14, <1>15

-----------------------------------------------------------------------------
(* The task                                                                *)

(* What a run that has read holds, and what somebody who resolves holds.   *)
Bill == [Channel!Instant -> Channel!Row \cup {Channel!Absent}]

Reading(x) ==
  /\ x = [at |-> x.at, payments |-> x.payments, bill |-> x.bill, own |-> x.own,
          handled |-> x.handled, task |-> x.task, alone |-> x.alone]
  /\ x.payments \in Seq(Channel!Row) /\ x.bill \in Bill

Resolving(x) ==
  /\ x = [at |-> x.at, status |-> x.status, task |-> x.task, alone |-> x.alone,
          cleared |-> x.cleared]
  /\ x.status \in {"resolved", "ignored"}

ShapeIs(x) ==
  \/ x = Channel!Idle
  \/ x.at \in {"read", "deleting", "matched"} /\ Reading(x)
  \/ x.at = "resolving" /\ Resolving(x)

(* A run that has deleted knows the rows as the list has them: they are    *)
(* open.                                                                   *)
HoldsOpen(x, r, list) ==
  x.at = "matched" => \A d \in DOMAIN list : r \in list[d].due => list[d].status = "open"

(* While nobody else commits, what was read is so: the task, which rows    *)
(* are open, which were handled.                                           *)
UpToDate(x, r, list, now) ==
  x.at # "idle" /\ x.alone =>
    /\ x.task = now
    /\ x.at \in {"deleting", "matched"} =>
         \A d \in DOMAIN list : list[d].status = "open" => r \in list[d].due
    /\ x.at = "matched" =>
         \A k \in x.handled : \E d \in DOMAIN list :
           list[d].status # "open" /\ Channel!Key(list[d]) = k
    /\ x.at = "resolving" /\ x.cleared =>
         \A d \in DOMAIN list : r \notin list[d].due => list[d].status # "open"

Locks == {"matched", "resolving"}

(* Nobody has locked what another has locked.                              *)
Exclusive(list, who) ==
  \A d \in DOMAIN list : \A q, r \in Run :
    q \in list[d].due /\ who[q].at \in Locks /\ r \in list[d].due /\ who[r].at \in Locks => q = r

TaskInv ==
  /\ payments \in Seq(Channel!Row) /\ statement \in Bill /\ diffs \in Seq(Diff)
  /\ runs = [r \in Run |-> runs[r]]
  /\ \A r \in Run : /\ ShapeIs(runs[r]) /\ HoldsOpen(runs[r], r, diffs)
                    /\ UpToDate(runs[r], r, diffs, task)
  /\ Exclusive(diffs, runs)
  /\ seen.payments \in Seq(Channel!Row) /\ seen.entries \in Seq(Channel!Row)
  /\ Channel!ClearedHasNoOpen
  /\ ~tangled /\ seen.entries # <<>> =>
       \A n \in Unpaired(seen.payments, seen.entries) : Names(diffs, n)

LEMMA IdleIs == Channel!Idle.at = "idle"
  BY DEF Channel!Idle

LEMMA IdleKeeps ==
  ASSUME NEW x, x = Channel!Idle, NEW r, NEW list, NEW now
  PROVE  ShapeIs(x) /\ HoldsOpen(x, r, list) /\ UpToDate(x, r, list, now)
<1>1. x.at = "idle"
  BY IdleIs
<1> QED BY <1>1, Zenon DEF ShapeIs, HoldsOpen, UpToDate

LEMMA TaskInit == Channel!Init => TaskInv
<1> SUFFICES ASSUME Channel!Init PROVE TaskInv
  OBVIOUS
<1>1. /\ payments = <<>> /\ statement = [t \in Channel!Instant |-> Channel!Absent] /\ diffs = <<>>
      /\ runs = [r \in Run |-> Channel!Idle]
      /\ seen = [payments |-> <<>>, entries |-> <<>>]
  BY DEF Channel!Init
<1>2. runs = [r \in Run |-> runs[r]] /\ \A r \in Run : runs[r] = Channel!Idle
  BY <1>1
<1>3. \A r \in Run : /\ ShapeIs(runs[r]) /\ HoldsOpen(runs[r], r, diffs)
                     /\ UpToDate(runs[r], r, diffs, task)
  BY <1>2, IdleKeeps
<1>4. Channel!ClearedHasNoOpen
  BY <1>1 DEF Channel!ClearedHasNoOpen
<1>5. statement \in Bill
  BY <1>1 DEF Bill
<1>6. Exclusive(diffs, runs)
  BY <1>1 DEF Exclusive
<1>7. seen.payments = <<>> /\ seen.entries = <<>>
  BY <1>1
<1> QED BY <1>1, <1>2, <1>3, <1>4, <1>5, <1>6, <1>7 DEF TaskInv

LEMMA TaskGives ==
  ASSUME TaskInv PROVE TaskIsTrue
<1> DEFINE m == Channel!Matching(seen.payments, seen.entries)
<1>1. m \in Matches(seen.payments) /\ Len(m.match) = Len(seen.entries)
  BY MatchingFacts DEF TaskInv
<1>2. \A e, f \in DOMAIN m.match : e # f /\ m.match[e] # 0 => m.match[e] # m.match[f]
  BY <1>1 DEF Matches, Matched
<1>3. DOMAIN m.match = DOMAIN seen.entries
  BY <1>1 DEF Matches, TaskInv
<1>4. ASSUME ~tangled, NEW e \in DOMAIN m.match,
             m.match[e] = 0 \/ seen.payments[m.match[e]].amount # seen.entries[e].amount
      PROVE  Names(diffs, Channel!Shown(seen.entries[e]))
  <2>1. Channel!Shown(seen.entries[e]) \in Unpaired(seen.payments, seen.entries)
    BY <1>4, Zenon DEF Unpaired
  <2>2. seen.entries # <<>>
    BY <1>3, <1>4
  <2> QED BY <1>4, <2>1, <2>2 DEF TaskInv
<1>5. ASSUME ~tangled, seen.entries # <<>>, NEW p \in m.unused
      PROVE  Names(diffs, Channel!Shown(seen.payments[p]))
  <2>1. Channel!Shown(seen.payments[p]) \in Unpaired(seen.payments, seen.entries)
    BY <1>5, Zenon DEF Unpaired
  <2> QED BY <1>5, <2>1 DEF TaskInv
<1>6. Channel!EntriesAccounted
  BY <1>2, <1>4, <1>5, Zenon DEF Channel!EntriesAccounted, Names
<1> QED BY <1>6 DEF TaskInv, TaskIsTrue

LEMMA KeyIs ==
  ASSUME NEW c, NEW d, Channel!Key(c) = Channel!Key(d)
  PROVE  c.type = d.type /\ c.system = d.system /\ c.channel = d.channel
  BY DEF Channel!Key

(* The lines of a statement.                                               *)
LEMMA LinesAre ==
  ASSUME NEW bill \in Bill PROVE Channel!Lines(bill) \in Seq(Channel!Row)
<1> DEFINE T == {t \in Channel!Instant : bill[t] # Channel!Absent}
           S == Channel!Row \cup {Channel!Absent}
<1>1. bill \in Seq(S) /\ DOMAIN bill = Channel!Instant
  BY LinesAreFew DEF Bill, Channel!Instant
<1>2. T \in SUBSET DOMAIN bill /\ \A t \in T : bill[t] \in Channel!Row
  BY <1>1
<1>3. Channel!Lines(bill) = Channel!Picked(bill, T)
  BY Zenon DEF Channel!Lines
<1> HIDE DEF T, S
<1>4. /\ Channel!Picked(bill, T) \in Seq(S)
      /\ \A n \in DOMAIN Channel!Picked(bill, T) :
           \E t \in T : Channel!Picked(bill, T)[n] = bill[t]
  BY <1>1, <1>2, PickedOf
<1> QED BY <1>2, <1>3, <1>4

-----------------------------------------------------------------------------
(* Steps that touch nothing of the list but who means to change a row.     *)

(* The same rows; but for r, they mean to change the same ones.            *)
SameRows(list, new, r) ==
  /\ DOMAIN new = DOMAIN list
  /\ \A d \in DOMAIN list :
       /\ new[d].type = list[d].type /\ new[d].system = list[d].system
       /\ new[d].channel = list[d].channel /\ new[d].status = list[d].status
       /\ \A q \in Run \ {r} : q \in new[d].due <=> q \in list[d].due

LEMMA MarkedIs ==
  ASSUME NEW list \in Seq(Diff), NEW r \in Run, NEW D
  PROVE  /\ Channel!Marked(list, r, D) \in Seq(Diff)
         /\ SameRows(list, Channel!Marked(list, r, D), r)
         /\ \A d \in DOMAIN list : r \in Channel!Marked(list, r, D)[d].due <=> d \in D
<1> DEFINE row(d) == IF d \in D THEN [list[d] EXCEPT !.due = list[d].due \union {r}]
                     ELSE [list[d] EXCEPT !.due = list[d].due \ {r}]
           new == [d \in DOMAIN list |-> row(d)]
<1>1. Channel!Marked(list, r, D) = new
  BY DEF Channel!Marked
<1>2. ASSUME NEW d \in DOMAIN list
      PROVE  /\ row(d) \in Diff
             /\ row(d).type = list[d].type /\ row(d).system = list[d].system
             /\ row(d).channel = list[d].channel /\ row(d).status = list[d].status
             /\ r \in row(d).due <=> d \in D
             /\ \A q \in Run \ {r} : q \in row(d).due <=> q \in list[d].due
  <2>1. PICK c \in Diff : c = list[d]
    OBVIOUS
  <2>2. CASE d \in D
    <3>1. row(d) = [c EXCEPT !.due = c.due \union {r}]
      BY <2>1, <2>2
    <3>2. c.due \union {r} \in SUBSET Run
      BY DEF Diff
    <3> HIDE DEF row
    <3> QED BY <2>1, <2>2, <3>1, <3>2 DEF Diff
  <2>3. CASE d \notin D
    <3>1. row(d) = [c EXCEPT !.due = c.due \ {r}]
      BY <2>1, <2>3
    <3>2. c.due \ {r} \in SUBSET Run
      BY DEF Diff
    <3> HIDE DEF row
    <3> QED BY <2>1, <2>3, <3>1, <3>2 DEF Diff
  <2> QED BY <2>2, <2>3
<1> HIDE DEF row
<1>3. new \in [1 .. Len(list) -> Diff]
  BY <1>2
<1> QED BY <1>1, <1>2, <1>3 DEF SameRows

LEMMA OthersKept ==
  ASSUME NEW list, NEW new, NEW r \in Run, SameRows(list, new, r), NEW q \in Run \ {r},
         NEW x, NEW now, HoldsOpen(x, q, list), UpToDate(x, q, list, now)
  PROVE  HoldsOpen(x, q, new) /\ UpToDate(x, q, new, now)
<1>1. DOMAIN new = DOMAIN list /\ \A d \in DOMAIN list :
        /\ new[d].status = list[d].status /\ (q \in new[d].due <=> q \in list[d].due)
        /\ Channel!Key(new[d]) = Channel!Key(list[d])
  BY DEF SameRows, Channel!Key
<1>2. HoldsOpen(x, q, new)
  BY <1>1 DEF HoldsOpen
<1>3. UpToDate(x, q, new, now)
  <2> SUFFICES ASSUME x.at # "idle" /\ x.alone
               PROVE  /\ x.task = now
                      /\ x.at \in {"deleting", "matched"} =>
                           \A d \in DOMAIN new : new[d].status = "open" => q \in new[d].due
                      /\ x.at = "matched" =>
                           \A k \in x.handled : \E d \in DOMAIN new :
                             new[d].status # "open" /\ Channel!Key(new[d]) = k
                      /\ x.at = "resolving" /\ x.cleared =>
                           \A d \in DOMAIN new : q \notin new[d].due => new[d].status # "open"
    BY Zenon DEF UpToDate
  <2>1. /\ x.task = now
        /\ x.at \in {"deleting", "matched"} =>
             \A d \in DOMAIN list : list[d].status = "open" => q \in list[d].due
        /\ x.at = "matched" =>
             \A k \in x.handled : \E d \in DOMAIN list :
               list[d].status # "open" /\ Channel!Key(list[d]) = k
        /\ x.at = "resolving" /\ x.cleared =>
             \A d \in DOMAIN list : q \notin list[d].due => list[d].status # "open"
    BY Zenon DEF UpToDate
  <2>2. x.task = now
    BY <2>1
  <2>3. x.at \in {"deleting", "matched"} =>
          \A d \in DOMAIN new : new[d].status = "open" => q \in new[d].due
    BY <1>1, <2>1, Zenon
  <2>4. x.at = "matched" =>
          \A k \in x.handled : \E d \in DOMAIN new :
            new[d].status # "open" /\ Channel!Key(new[d]) = k
    BY <1>1, <2>1, Zenon
  <2>5. x.at = "resolving" /\ x.cleared =>
          \A d \in DOMAIN new : q \notin new[d].due => new[d].status # "open"
    BY <1>1, <2>1, Zenon
  <2> QED BY <2>2, <2>3, <2>4, <2>5
<1> QED BY <1>2, <1>3

LEMMA MarkKeeps ==
  ASSUME TaskInv, NEW r \in Run, NEW y, ShapeIs(y), HoldsOpen(y, r, diffs'),
         UpToDate(y, r, diffs', task),
         runs' = [runs EXCEPT ![r] = y], diffs' \in Seq(Diff), SameRows(diffs, diffs', r),
         y.at \in Locks => \A d \in DOMAIN diffs : r \in diffs'[d].due => ~Channel!Locked(d, r),
         UNCHANGED <<payments, statement, task, seen, tangled>>
  PROVE  /\ TaskInv'
         /\ \A d \in DOMAIN diffs : diffs[d].status # "open" =>
              \E e \in DOMAIN diffs' : Channel!Key(diffs'[e]) = Channel!Key(diffs[d])
                                         /\ diffs'[e].status # "open"
<1>1. /\ runs' = [s \in Run |-> runs'[s]] /\ runs'[r] = y
      /\ \A s \in Run \ {r} : runs'[s] = runs[s]
  BY DEF TaskInv
<1>2. ASSUME NEW s \in Run
      PROVE  ShapeIs(runs'[s]) /\ HoldsOpen(runs'[s], s, diffs') /\ UpToDate(runs'[s], s, diffs', task)
  <2>1. CASE s = r
    BY <1>1, <2>1
  <2>2. CASE s # r
    <3>1. ShapeIs(runs[s]) /\ HoldsOpen(runs[s], s, diffs) /\ UpToDate(runs[s], s, diffs, task)
      BY DEF TaskInv
    <3>2. HoldsOpen(runs[s], s, diffs') /\ UpToDate(runs[s], s, diffs', task)
      BY <2>2, <3>1, OthersKept
    <3> QED BY <1>1, <2>2, <3>1, <3>2
  <2> QED BY <2>1, <2>2
<1>3. Exclusive(diffs', runs')
  <2> SUFFICES ASSUME NEW d \in DOMAIN diffs', NEW q \in Run, NEW s \in Run,
                      q \in diffs'[d].due, runs'[q].at \in Locks,
                      s \in diffs'[d].due, runs'[s].at \in Locks, q # s
               PROVE  FALSE
    BY DEF Exclusive
  <2>1. d \in DOMAIN diffs
    BY DEF SameRows
  <2>2. CASE q # r /\ s # r
    <3>1. q \in diffs[d].due /\ s \in diffs[d].due /\ runs[q].at \in Locks /\ runs[s].at \in Locks
      BY <1>1, <2>1, <2>2 DEF SameRows
    <3> QED BY <2>1, <3>1 DEF TaskInv, Exclusive
  <2>3. CASE q = r
    <3>1. s \in diffs[d].due \ {r} /\ runs[s].at \in Locks
      BY <1>1, <2>1, <2>3 DEF SameRows
    <3>2. ~Channel!Locked(d, r)
      BY <1>1, <2>1, <2>3
    <3> QED BY <3>1, <3>2 DEF Channel!Locked, Locks
  <2>4. CASE s = r
    <3>1. q \in diffs[d].due \ {r} /\ runs[q].at \in Locks
      BY <1>1, <2>1, <2>4 DEF SameRows
    <3>2. ~Channel!Locked(d, r)
      BY <1>1, <2>1, <2>4
    <3> QED BY <3>1, <3>2 DEF Channel!Locked, Locks
  <2> QED BY <2>2, <2>3, <2>4
<1>4. /\ DOMAIN diffs' = DOMAIN diffs
      /\ \A d \in DOMAIN diffs : /\ diffs'[d].status = diffs[d].status
                                 /\ Channel!Key(diffs'[d]) = Channel!Key(diffs[d])
                                 /\ diffs'[d].system = diffs[d].system
                                 /\ diffs'[d].channel = diffs[d].channel
  BY DEF SameRows, Channel!Key
<1>5. Channel!ClearedHasNoOpen'
  <2>1. Channel!ClearedHasNoOpen
    BY DEF TaskInv
  <2> QED BY <1>4, <2>1, Zenon DEF Channel!ClearedHasNoOpen
<1>6. \A n : Names(diffs, n) => Names(diffs', n)
  BY <1>4 DEF Names
<1>7. ~tangled' /\ seen'.entries # <<>> =>
        \A n \in Unpaired(seen'.payments, seen'.entries) : Names(diffs', n)
  <2>1. ~tangled /\ seen.entries # <<>> =>
          \A n \in Unpaired(seen.payments, seen.entries) : Names(diffs, n)
    BY Zenon DEF TaskInv
  <2> QED BY <1>6, <2>1, Zenon
<1>8. /\ payments' \in Seq(Channel!Row) /\ statement' \in Bill
      /\ seen'.payments \in Seq(Channel!Row) /\ seen'.entries \in Seq(Channel!Row)
      /\ task' = task
  BY DEF TaskInv
<1>9. TaskInv'
  BY <1>1, <1>2, <1>3, <1>5, <1>7, <1>8, Zenon DEF TaskInv, Exclusive, Bill, Channel!Instant
<1> QED BY <1>4, <1>9

LEMMA SameIs == \A r : SameRows(diffs, diffs, r)
  BY DEF SameRows

LEMMA BeginTask ==
  ASSUME TaskInv, NEW r \in Run, NEW bill \in Bill, NEW own, Channel!Begin(r, bill, own)
  PROVE  TaskInv' /\ diffs' = diffs
<1> DEFINE y == [at |-> "read", payments |-> payments, bill |-> bill, own |-> own,
                 handled |-> {}, task |-> task, alone |-> TRUE]
<1>1. runs' = [runs EXCEPT ![r] = y] /\ UNCHANGED <<payments, statement, diffs, task, seen, tangled>>
  BY Zenon DEF Channel!Begin
<1>2. y.at = "read" /\ y.payments = payments /\ y.bill = bill /\ y.task = task
      /\ y = [at |-> y.at, payments |-> y.payments, bill |-> y.bill, own |-> y.own,
              handled |-> y.handled, task |-> y.task, alone |-> y.alone]
  OBVIOUS
<1> HIDE DEF y
<1>3. payments \in Seq(Channel!Row) /\ diffs \in Seq(Diff)
  BY DEF TaskInv
<1>4. ShapeIs(y)
  BY <1>2, <1>3 DEF ShapeIs, Reading
<1>5. HoldsOpen(y, r, diffs') /\ UpToDate(y, r, diffs', task) /\ y.at \notin Locks
  BY <1>2 DEF HoldsOpen, UpToDate, Locks
<1> QED BY <1>1, <1>3, <1>4, <1>5, SameIs, MarkKeeps

LEMMA DeleteTask ==
  ASSUME TaskInv, NEW r \in Run, Channel!Delete(r)
  PROVE  /\ TaskInv'
         /\ \A d \in DOMAIN diffs : diffs[d].status # "open" =>
              \E e \in DOMAIN diffs' : Channel!Key(diffs'[e]) = Channel!Key(diffs[d])
                                         /\ diffs'[e].status # "open"
<1> DEFINE D == {d \in DOMAIN diffs : diffs[d].status = "open"}
           x == runs[r]
           y == [x EXCEPT !.at = "deleting"]
<1>1. /\ x.at = "read" /\ diffs' = Channel!Marked(diffs, r, D)
      /\ runs' = [runs EXCEPT ![r] = y]
      /\ UNCHANGED <<payments, statement, task, seen, tangled>>
  BY DEF Channel!Delete
<1>2. diffs \in Seq(Diff) /\ ShapeIs(x) /\ UpToDate(x, r, diffs, task)
  BY DEF TaskInv
<1>3. Reading(x)
  BY <1>1, <1>2, IdleIs DEF ShapeIs
<1> HIDE DEF x
<1>4. /\ y = [at |-> y.at, payments |-> y.payments, bill |-> y.bill, own |-> y.own,
              handled |-> y.handled, task |-> y.task, alone |-> y.alone]
      /\ y.at = "deleting" /\ y.payments = x.payments /\ y.bill = x.bill
      /\ y.task = x.task /\ y.alone = x.alone
  BY <1>3 DEF Reading
<1> HIDE DEF y, D
<1>5. ShapeIs(y)
  BY <1>3, <1>4 DEF ShapeIs, Reading
<1>6. /\ diffs' \in Seq(Diff) /\ SameRows(diffs, diffs', r)
      /\ \A d \in DOMAIN diffs : r \in diffs'[d].due <=> d \in D
  BY <1>1, <1>2, MarkedIs
<1>7. \A d \in DOMAIN diffs' : diffs'[d].status = "open" => r \in diffs'[d].due
  BY <1>6 DEF SameRows, D
<1>8. y.alone => y.task = task
  BY <1>1, <1>2, <1>4, Zenon DEF UpToDate
<1>9. HoldsOpen(y, r, diffs') /\ UpToDate(y, r, diffs', task) /\ y.at \notin Locks
  <2>1. y.at # "matched" /\ y.at # "resolving"
    BY <1>4
  <2> QED BY <1>7, <1>8, <2>1, Zenon DEF HoldsOpen, UpToDate, Locks
<1> QED BY <1>1, <1>5, <1>6, <1>9, MarkKeeps

LEMMA MatchTask ==
  ASSUME TaskInv, NEW r \in Run, Channel!Match(r)
  PROVE  /\ TaskInv'
         /\ \A d \in DOMAIN diffs : diffs[d].status # "open" =>
              \E e \in DOMAIN diffs' : Channel!Key(diffs'[e]) = Channel!Key(diffs[d])
                                         /\ diffs'[e].status # "open"
<1> DEFINE D == {d \in DOMAIN diffs : r \in diffs[d].due /\ diffs[d].status = "open"}
           x == runs[r]
           H == Channel!Handled
           y == [x EXCEPT !.at = "matched", !.handled = H]
<1>1. /\ x.at = "deleting" /\ diffs' = Channel!Marked(diffs, r, D)
      /\ \A d \in D : ~Channel!Locked(d, r)
      /\ runs' = [runs EXCEPT ![r].at = "matched", ![r].handled = H]
      /\ UNCHANGED <<payments, statement, task, seen, tangled>>
  BY Zenon DEF Channel!Match
<1>2. /\ diffs \in Seq(Diff) /\ ShapeIs(x) /\ UpToDate(x, r, diffs, task)
      /\ runs = [s \in Run |-> runs[s]]
  BY DEF TaskInv
<1>3. Reading(x)
  BY <1>1, <1>2, IdleIs DEF ShapeIs
<1>4. runs' = [runs EXCEPT ![r] = y]
  <2> HIDE DEF H
  <2> QED BY <1>1, <1>2
<1>5. \A k \in H : \E d \in DOMAIN diffs : diffs[d].status # "open" /\ Channel!Key(diffs[d]) = k
  BY Zenon DEF Channel!Handled
<1> HIDE DEF x, H
<1>6. /\ y = [at |-> y.at, payments |-> y.payments, bill |-> y.bill, own |-> y.own,
              handled |-> y.handled, task |-> y.task, alone |-> y.alone]
      /\ y.at = "matched" /\ y.payments = x.payments /\ y.bill = x.bill
      /\ y.task = x.task /\ y.alone = x.alone /\ y.handled = H
  <2>1. PICK z : z = [x EXCEPT !.at = "matched"]
    OBVIOUS
  <2>2. /\ z = [at |-> z.at, payments |-> z.payments, bill |-> z.bill, own |-> z.own,
                handled |-> z.handled, task |-> z.task, alone |-> z.alone]
        /\ z.at = "matched" /\ z.payments = x.payments /\ z.bill = x.bill
        /\ z.task = x.task /\ z.alone = x.alone
    BY <1>3, <2>1 DEF Reading
  <2>3. y = [z EXCEPT !.handled = H]
    BY <2>1
  <2> HIDE DEF y
  <2> QED BY <2>2, <2>3
<1> HIDE DEF y, D
<1>7. ShapeIs(y)
  BY <1>3, <1>6 DEF ShapeIs, Reading
<1>8. /\ diffs' \in Seq(Diff) /\ SameRows(diffs, diffs', r)
      /\ \A d \in DOMAIN diffs : r \in diffs'[d].due <=> d \in D
  BY <1>1, <1>2, MarkedIs
<1>9. HoldsOpen(y, r, diffs')
  BY <1>8 DEF HoldsOpen, SameRows, D
<1>10. UpToDate(y, r, diffs', task)
  <2> SUFFICES ASSUME y.alone
               PROVE  /\ y.task = task
                      /\ \A d \in DOMAIN diffs' : diffs'[d].status = "open" => r \in diffs'[d].due
                      /\ \A k \in H : \E d \in DOMAIN diffs' :
                           diffs'[d].status # "open" /\ Channel!Key(diffs'[d]) = k
    <3>1. y.at # "resolving"
      BY <1>6
    <3> QED BY <1>6, <3>1, Zenon DEF UpToDate
  <2>1. x.at # "idle" /\ x.alone
    BY <1>1, <1>6
  <2>2. x.task = task /\ \A d \in DOMAIN diffs : diffs[d].status = "open" => r \in diffs[d].due
    BY <1>1, <1>2, <2>1, Zenon DEF UpToDate
  <2>3. \A d \in DOMAIN diffs' : diffs'[d].status = "open" => r \in diffs'[d].due
    BY <1>8, <2>2 DEF SameRows, D
  <2>4. \A d \in DOMAIN diffs : d \in DOMAIN diffs' /\ diffs'[d].status = diffs[d].status
                               /\ Channel!Key(diffs'[d]) = Channel!Key(diffs[d])
    BY <1>8 DEF SameRows, Channel!Key
  <2>5. \A k \in H : \E d \in DOMAIN diffs' :
          diffs'[d].status # "open" /\ Channel!Key(diffs'[d]) = k
    BY <1>5, <2>4, Zenon
  <2> QED BY <1>6, <2>2, <2>3, <2>5
<1> QED BY <1>1, <1>4, <1>7, <1>8, <1>9, <1>10, MarkKeeps

LEMMA AbortTask ==
  ASSUME TaskInv, NEW r \in Run, Channel!Abort(r)
  PROVE  /\ TaskInv'
         /\ \A d \in DOMAIN diffs : diffs[d].status # "open" =>
              \E e \in DOMAIN diffs' : Channel!Key(diffs'[e]) = Channel!Key(diffs[d])
                                         /\ diffs'[e].status # "open"
<1>1. PICK y : y = Channel!Idle
  OBVIOUS
<1>2. /\ diffs' = Channel!Marked(diffs, r, {}) /\ runs' = [runs EXCEPT ![r] = y]
      /\ UNCHANGED <<payments, statement, task, seen, tangled>>
  BY <1>1 DEF Channel!Abort
<1>3. diffs' \in Seq(Diff) /\ SameRows(diffs, diffs', r)
  <2>1. diffs \in Seq(Diff)
    BY DEF TaskInv
  <2> QED BY <1>2, <2>1, MarkedIs
<1>4. ShapeIs(y) /\ HoldsOpen(y, r, diffs') /\ UpToDate(y, r, diffs', task)
  BY <1>1, IdleKeeps
<1>5. y.at \notin Locks
  BY <1>1, IdleIs DEF Locks
<1> QED BY <1>2, <1>3, <1>4, <1>5, MarkKeeps

LEMMA ResolveTask ==
  ASSUME TaskInv, NEW r \in Run, NEW d \in DOMAIN diffs, NEW status \in {"resolved", "ignored"},
         Channel!Resolve(r, d, status)
  PROVE  /\ TaskInv'
         /\ \A i \in DOMAIN diffs : diffs[i].status # "open" =>
              \E e \in DOMAIN diffs' : Channel!Key(diffs'[e]) = Channel!Key(diffs[i])
                                         /\ diffs'[e].status # "open"
<1> DEFINE others == \A e \in DOMAIN diffs \ {d} : diffs[e].status # "open"
           y == [at |-> "resolving", status |-> status, task |-> task, alone |-> TRUE,
                 cleared |-> others]
<1>1. /\ ~Channel!Locked(d, r) /\ diffs' = Channel!Marked(diffs, r, {d})
      /\ runs' = [runs EXCEPT ![r] = y]
      /\ UNCHANGED <<payments, statement, task, seen, tangled>>
  BY Zenon DEF Channel!Resolve
<1>2. /\ y = [at |-> y.at, status |-> y.status, task |-> y.task, alone |-> y.alone,
              cleared |-> y.cleared]
      /\ y.at = "resolving" /\ y.status = status /\ y.task = task
  OBVIOUS
<1>3. y.cleared => \A e \in DOMAIN diffs \ {d} : diffs[e].status # "open"
  <2>1. y.cleared = others
    BY Zenon
  <2> HIDE DEF y
  <2> QED BY <2>1, Zenon
<1> HIDE DEF y
<1>4. ShapeIs(y)
  BY <1>2 DEF ShapeIs, Resolving
<1>5. /\ diffs' \in Seq(Diff) /\ SameRows(diffs, diffs', r)
      /\ \A i \in DOMAIN diffs : r \in diffs'[i].due <=> i = d
  <2>1. diffs \in Seq(Diff)
    BY DEF TaskInv
  <2> QED BY <1>1, <2>1, MarkedIs
<1>6. y.cleared => \A e \in DOMAIN diffs' : r \notin diffs'[e].due => diffs'[e].status # "open"
  <2>1. \A e \in DOMAIN diffs' : /\ e \in DOMAIN diffs /\ diffs'[e].status = diffs[e].status
                                 /\ (r \notin diffs'[e].due => e # d)
    BY <1>5 DEF SameRows
  <2> QED BY <1>3, <2>1, Zenon
<1>7. HoldsOpen(y, r, diffs') /\ UpToDate(y, r, diffs', task)
  <2>1. y.at # "matched" /\ y.at # "deleting"
    BY <1>2
  <2> QED BY <1>2, <1>6, <2>1, Zenon DEF HoldsOpen, UpToDate
<1> QED BY <1>1, <1>4, <1>5, <1>7, MarkKeeps

-----------------------------------------------------------------------------
(* Steps that commit.                                                      *)

(* Whoever else is at work is not alone any more, and holds what it held.  *)
LEMMA EndsAre ==
  ASSUME TaskInv, NEW r \in Run, Channel!Ends(r), NEW q \in Run, NEW list, NEW now,
         q # r /\ runs[q].at = "matched" =>
           \A d \in DOMAIN list : q \in list[d].due => list[d].status = "open"
  PROVE  /\ ShapeIs(runs'[q]) /\ HoldsOpen(runs'[q], q, list) /\ UpToDate(runs'[q], q, list, now)
         /\ runs'[q].at \in Locks => q # r /\ runs[q].at \in Locks
<1>1. runs' = [s \in Run |-> IF s = r \/ runs[s] = Channel!Idle THEN Channel!Idle
                             ELSE [runs[s] EXCEPT !.alone = FALSE]]
  BY DEF Channel!Ends
<1>2. CASE q = r \/ runs[q] = Channel!Idle
  <2>1. runs'[q] = Channel!Idle
    BY <1>1, <1>2
  <2>2. runs'[q].at \notin Locks
    BY <2>1, IdleIs DEF Locks
  <2> QED BY <2>1, <2>2, IdleKeeps
<1>3. CASE q # r /\ runs[q] # Channel!Idle
  <2>1. PICK x : x = runs[q]
    OBVIOUS
  <2>2. PICK y : y = [x EXCEPT !.alone = FALSE]
    OBVIOUS
  <2>3. runs'[q] = y
    BY <1>1, <1>3, <2>1, <2>2
  <2>4. ShapeIs(x)
    BY <2>1 DEF TaskInv
  <2>5. x # Channel!Idle
    BY <1>3, <2>1
  <2>6. ShapeIs(y) /\ y.at = x.at /\ y.alone = FALSE
    <3>1. CASE x.at \in {"read", "deleting", "matched"} /\ Reading(x)
      <4>1. /\ y = [at |-> y.at, payments |-> y.payments, bill |-> y.bill, own |-> y.own,
                    handled |-> y.handled, task |-> y.task, alone |-> y.alone]
            /\ y.at = x.at /\ y.payments = x.payments /\ y.bill = x.bill /\ y.alone = FALSE
        BY <2>2, <3>1 DEF Reading
      <4> QED BY <3>1, <4>1 DEF ShapeIs, Reading
    <3>2. CASE x.at = "resolving" /\ Resolving(x)
      <4>1. /\ y = [at |-> y.at, status |-> y.status, task |-> y.task, alone |-> y.alone,
                    cleared |-> y.cleared]
            /\ y.at = x.at /\ y.status = x.status /\ y.alone = FALSE
        BY <2>2, <3>2 DEF Resolving
      <4> QED BY <3>2, <4>1 DEF ShapeIs, Resolving
    <3> QED BY <2>4, <2>5, <3>1, <3>2 DEF ShapeIs
  <2>7. UpToDate(y, q, list, now)
    <3>1. ~y.alone
      BY <2>6
    <3> QED BY <3>1, Zenon DEF UpToDate
  <2>8. HoldsOpen(y, q, list)
    BY <1>3, <2>1, <2>6 DEF HoldsOpen
  <2> QED BY <1>3, <2>1, <2>3, <2>6, <2>7, <2>8
<1> QED BY <1>2, <1>3

LEMMA CommitTask ==
  ASSUME TaskInv, NEW r \in Run, Channel!Commit(r)
  PROVE  /\ TaskInv'
         /\ \A d \in DOMAIN diffs : diffs[d].status # "open" =>
              \E e \in DOMAIN diffs' : Channel!Key(diffs'[e]) = Channel!Key(diffs[d])
                                         /\ diffs'[e].status # "open"
<1> DEFINE run == runs[r]
           lines == Channel!Lines(run.bill)
           found == Channel!Found(run.payments, lines)
           fresh == {d \in DOMAIN found : Channel!Key(found[d]) \notin run.handled}
           new == Channel!Picked(found, fresh)
           T == {d \in DOMAIN diffs : r \notin diffs[d].due}
           kept == Channel!Picked(diffs, T)
           diff == Channel!Total(run.payments) - Channel!Total(lines)
           verdict == IF lines = <<>> THEN "pending" ELSE Channel!Verdict(new, diff)
<1>1. /\ run.at = "matched"
      /\ statement' = [t \in Channel!Instant |-> IF t \in run.own THEN run.bill[t] ELSE statement[t]]
      /\ IF lines = <<>> THEN diffs' = kept ELSE diffs' = kept \o new
      /\ Channel!Write(run.task, verdict, diff)
      /\ Channel!Ends(r)
      /\ seen' = [payments |-> run.payments, entries |-> lines]
      /\ tangled' = ~run.alone
      /\ payments' = payments
  BY Zenon DEF Channel!Commit, Channel!Kept
<1>2. /\ run.payments \in Seq(Channel!Row) /\ run.bill \in Bill
      /\ HoldsOpen(run, r, diffs) /\ UpToDate(run, r, diffs, task) /\ diffs \in Seq(Diff)
  <2>1. ShapeIs(run) /\ HoldsOpen(run, r, diffs) /\ UpToDate(run, r, diffs, task)
        /\ diffs \in Seq(Diff)
    BY DEF TaskInv
  <2> QED BY <1>1, <2>1, IdleIs DEF ShapeIs, Reading
<1>3. lines \in Seq(Channel!Row)
  BY <1>2, LinesAre
<1> HIDE DEF lines
<1>4. /\ found \in Seq(Diff)
      /\ \A d \in DOMAIN found : found[d].status = "open" /\ found[d].due = {}
      /\ \A n \in Unpaired(run.payments, lines) : Names(found, n)
  BY <1>2, <1>3, FoundFacts
<1> HIDE DEF found
<1>5. /\ new \in Seq(Diff)
      /\ \A n \in DOMAIN new : \E i \in fresh : new[n] = found[i]
      /\ \A i \in fresh : \E n \in DOMAIN new : new[n] = found[i]
  <2>1. fresh \in SUBSET DOMAIN found
    OBVIOUS
  <2> HIDE DEF fresh
  <2> QED BY <1>4, <2>1, PickedOf
<1>6. /\ kept \in Seq(Diff)
      /\ \A n \in DOMAIN kept : \E i \in T : kept[n] = diffs[i]
      /\ \A i \in T : \E n \in DOMAIN kept : kept[n] = diffs[i]
  <2>1. T \in SUBSET DOMAIN diffs
    OBVIOUS
  <2> HIDE DEF T
  <2> QED BY <1>2, <2>1, PickedOf
<1>7. \A i \in DOMAIN diffs : diffs[i].status # "open" => i \in T
  BY <1>1, <1>2 DEF HoldsOpen
<1>8. \A n \in DOMAIN new : new[n].status = "open" /\ new[n].due = {}
  BY <1>4, <1>5
<1> HIDE DEF new, kept, T, fresh
<1>9. /\ kept \o new \in Seq(Diff)
      /\ \A n \in DOMAIN kept : n \in DOMAIN (kept \o new) /\ (kept \o new)[n] = kept[n]
      /\ \A n \in DOMAIN new : Len(kept) + n \in DOMAIN (kept \o new)
                                /\ (kept \o new)[Len(kept) + n] = new[n]
      /\ \A n \in DOMAIN (kept \o new) : \/ n \in DOMAIN kept
                                         \/ n - Len(kept) \in DOMAIN new
                                              /\ (kept \o new)[n] = new[n - Len(kept)]
  BY <1>5, <1>6
<1>10. diffs' \in Seq(Diff) /\ \A n \in DOMAIN kept : n \in DOMAIN diffs' /\ diffs'[n] = kept[n]
  BY <1>1, <1>6, <1>9
<1>11. \A n \in DOMAIN diffs' : \/ \E i \in T : diffs'[n] = diffs[i]
                                \/ diffs'[n].status = "open" /\ diffs'[n].due = {}
  <2>1. CASE diffs' = kept
    BY <1>6, <2>1
  <2>2. CASE diffs' = kept \o new
    <3>1. \A n \in DOMAIN diffs' : \/ n \in DOMAIN kept /\ diffs'[n] = kept[n]
                                   \/ diffs'[n].status = "open" /\ diffs'[n].due = {}
      BY <1>8, <1>9, <2>2
    <3> QED BY <1>6, <3>1, Zenon
  <2> QED BY <1>1, <2>1, <2>2
<1>12. ASSUME NEW d \in DOMAIN diffs, diffs[d].status # "open"
       PROVE  \E e \in DOMAIN diffs' : diffs'[e] = diffs[d]
  BY <1>6, <1>7, <1>10, <1>12
<1>13. \A q \in Run : /\ ShapeIs(runs'[q]) /\ HoldsOpen(runs'[q], q, diffs')
                      /\ UpToDate(runs'[q], q, diffs', task')
                      /\ runs'[q].at \in Locks => q # r /\ runs[q].at \in Locks
  <2>1. ASSUME NEW q \in Run, runs[q].at = "matched", NEW n \in DOMAIN diffs', q \in diffs'[n].due
        PROVE  diffs'[n].status = "open"
    <3>1. HoldsOpen(runs[q], q, diffs)
      BY DEF TaskInv
    <3>2. CASE \E i \in T : diffs'[n] = diffs[i]
      BY <2>1, <3>1, <3>2 DEF HoldsOpen, T
    <3> QED BY <1>11, <3>2
  <2> SUFFICES ASSUME NEW q \in Run
               PROVE  /\ ShapeIs(runs'[q]) /\ HoldsOpen(runs'[q], q, diffs')
                      /\ UpToDate(runs'[q], q, diffs', task')
                      /\ runs'[q].at \in Locks => q # r /\ runs[q].at \in Locks
    OBVIOUS
  <2> HIDE DEF run
  <2> QED BY <1>1, <2>1, EndsAre
<1>14. Exclusive(diffs', runs')
  <2> SUFFICES ASSUME NEW n \in DOMAIN diffs', NEW q \in Run, NEW s \in Run,
                      q \in diffs'[n].due, runs'[q].at \in Locks,
                      s \in diffs'[n].due, runs'[s].at \in Locks
               PROVE  q = s
    BY DEF Exclusive
  <2>1. PICK i \in DOMAIN diffs : diffs'[n] = diffs[i]
    BY <1>11 DEF T
  <2> QED BY <1>13, <2>1 DEF TaskInv, Exclusive
<1>15. statement' \in Bill
  <2>1. statement \in Bill
    BY DEF TaskInv
  <2> HIDE DEF run
  <2> QED BY <1>1, <1>2, <2>1 DEF Bill
<1>16. ASSUME ~tangled'
       PROVE  /\ run.task = task
              /\ \A d \in DOMAIN diffs : diffs[d].status = "open" => r \in diffs[d].due
              /\ \A k \in run.handled : \E d \in DOMAIN diffs :
                   diffs[d].status # "open" /\ Channel!Key(diffs[d]) = k
  <2>1. run.alone
    BY <1>1, <1>16, Zenon
  <2>2. run.at # "idle" /\ run.at \in {"deleting", "matched"}
    BY <1>1
  <2> HIDE DEF run
  <2> QED BY <1>1, <1>2, <2>1, <2>2, Zenon DEF UpToDate
<1>17. Channel!ClearedHasNoOpen'
  <2> SUFFICES ASSUME ~tangled', task'.status \in {"balanced", "resolved"}, NEW n \in DOMAIN diffs'
               PROVE  diffs'[n].status # "open"
    BY Zenon DEF Channel!ClearedHasNoOpen
  <2>1. task'.status = verdict
    <3> HIDE DEF verdict, run, diff
    <3> QED BY <1>1, <1>16 DEF Channel!Write
  <2>2. lines # <<>> /\ new = <<>>
    BY <2>1 DEF Channel!Verdict
  <2>3. diffs' = kept
    BY <1>1, <1>6, <2>2
  <2>4. \A i \in T : diffs[i].status # "open"
    BY <1>16 DEF T
  <2> QED BY <1>6, <2>3, <2>4
<1>18. ASSUME ~tangled', lines # <<>>, NEW n \in Unpaired(run.payments, lines)
       PROVE  Names(diffs', n)
  <2>1. PICK d \in DOMAIN found : n \in {found[d].system, found[d].channel}
    BY <1>4 DEF Names
  <2>2. CASE d \in fresh
    <3>1. PICK e \in DOMAIN new : new[e] = found[d]
      BY <1>5, <2>2
    <3>2. diffs' = kept \o new
      BY <1>1, <1>18
    <3>3. Len(kept) + e \in DOMAIN diffs' /\ diffs'[Len(kept) + e] = found[d]
      BY <1>9, <3>1, <3>2
    <3> QED BY <2>1, <3>3, Zenon DEF Names
  <2>3. CASE d \notin fresh
    <3>1. Channel!Key(found[d]) \in run.handled
      BY <2>3 DEF fresh
    <3>2. PICK i \in DOMAIN diffs :
            diffs[i].status # "open" /\ Channel!Key(diffs[i]) = Channel!Key(found[d])
      BY <1>16, <1>18, <3>1
    <3>3. diffs[i].system = found[d].system /\ diffs[i].channel = found[d].channel
      BY <3>2, KeyIs
    <3>4. PICK e \in DOMAIN diffs' : diffs'[e] = diffs[i]
      BY <1>12, <3>2
    <3> QED BY <2>1, <3>3, <3>4, Zenon DEF Names
  <2> QED BY <2>2, <2>3
<1>19. seen'.payments = run.payments /\ seen'.entries = lines
  BY <1>1
<1>20. runs' = [s \in Run |-> runs'[s]]
  BY <1>1 DEF Channel!Ends
<1>21. payments' \in Seq(Channel!Row)
  BY <1>1 DEF TaskInv
<1> HIDE DEF run
<1>22. TaskInv'
  BY <1>2, <1>3, <1>10, <1>13, <1>14, <1>15, <1>17, <1>18, <1>19, <1>20, <1>21, Zenon
     DEF TaskInv, Exclusive, Bill, Channel!Instant
<1> QED BY <1>12, <1>22

LEMMA ResolvedTask ==
  ASSUME TaskInv, NEW r \in Run, Channel!CommitResolve(r)
  PROVE  /\ TaskInv'
         /\ \A d \in DOMAIN diffs : diffs[d].status # "open" =>
              \E e \in DOMAIN diffs' : Channel!Key(diffs'[e]) = Channel!Key(diffs[d])
                                         /\ diffs'[e].status # "open"
<1> DEFINE run == runs[r]
<1>1. /\ run.at = "resolving" /\ diffs' = Channel!Resolved(diffs, r, run.status)
      /\ ~run.cleared => UNCHANGED task
      /\ Channel!Ends(r)
      /\ tangled' = (tangled \/ ~run.alone)
      /\ UNCHANGED <<payments, statement, seen>>
  BY Zenon DEF Channel!CommitResolve
<1>2. /\ run.status \in {"resolved", "ignored"} /\ UpToDate(run, r, diffs, task)
      /\ diffs \in Seq(Diff)
  <2>1. ShapeIs(run) /\ UpToDate(run, r, diffs, task) /\ diffs \in Seq(Diff)
    BY DEF TaskInv
  <2> QED BY <1>1, <2>1, IdleIs DEF ShapeIs, Resolving
<1> HIDE DEF run
<1> DEFINE row(d) == IF r \in diffs[d].due
                     THEN [diffs[d] EXCEPT !.status = run.status, !.due = diffs[d].due \ {r}]
                     ELSE diffs[d]
<1>3. ASSUME NEW d \in DOMAIN diffs
      PROVE  /\ row(d) \in Diff
             /\ row(d).type = diffs[d].type /\ row(d).system = diffs[d].system
             /\ row(d).channel = diffs[d].channel
             /\ row(d).status = IF r \in diffs[d].due THEN run.status ELSE diffs[d].status
             /\ \A q \in Run : q \in row(d).due => q \in diffs[d].due
  <2>1. PICK c \in Diff : c = diffs[d]
    BY <1>2
  <2>2. CASE r \in c.due
    <3>1. row(d) = [c EXCEPT !.status = run.status, !.due = c.due \ {r}]
      BY <2>1, <2>2
    <3>2. c.due \ {r} \in SUBSET Run
      BY DEF Diff
    <3> HIDE DEF row
    <3> QED BY <1>2, <2>1, <2>2, <3>1, <3>2 DEF Diff
  <2>3. CASE r \notin c.due
    BY <2>1, <2>3
  <2> QED BY <2>2, <2>3
<1>4. diffs' = [d \in DOMAIN diffs |-> row(d)]
  BY <1>1 DEF Channel!Resolved
<1> HIDE DEF row
<1>5. diffs' \in Seq(Diff) /\ DOMAIN diffs' = DOMAIN diffs /\ \A d \in DOMAIN diffs : diffs'[d] = row(d)
  <2>1. diffs' \in [1 .. Len(diffs) -> Diff]
    BY <1>2, <1>3, <1>4
  <2> QED BY <1>2, <1>4, <2>1
<1>6. \A d \in DOMAIN diffs : diffs[d].status # "open" =>
        Channel!Key(diffs'[d]) = Channel!Key(diffs[d]) /\ diffs'[d].status # "open"
  BY <1>2, <1>3, <1>5 DEF Channel!Key
<1>7. \A q \in Run : /\ ShapeIs(runs'[q]) /\ HoldsOpen(runs'[q], q, diffs')
                     /\ UpToDate(runs'[q], q, diffs', task')
                     /\ runs'[q].at \in Locks => q # r /\ runs[q].at \in Locks
  <2>1. ASSUME NEW q \in Run, q # r, runs[q].at = "matched", NEW d \in DOMAIN diffs',
               q \in diffs'[d].due
        PROVE  diffs'[d].status = "open"
    <3>1. HoldsOpen(runs[q], q, diffs) /\ Exclusive(diffs, runs)
      BY DEF TaskInv
    <3>2. d \in DOMAIN diffs /\ q \in diffs[d].due
      BY <1>3, <1>5, <2>1
    <3>3. r \notin diffs[d].due
      BY <1>1, <2>1, <3>1, <3>2 DEF Exclusive, Locks, run
    <3> QED BY <1>3, <1>5, <2>1, <3>1, <3>2, <3>3 DEF HoldsOpen
  <2> SUFFICES ASSUME NEW q \in Run
               PROVE  /\ ShapeIs(runs'[q]) /\ HoldsOpen(runs'[q], q, diffs')
                      /\ UpToDate(runs'[q], q, diffs', task')
                      /\ runs'[q].at \in Locks => q # r /\ runs[q].at \in Locks
    OBVIOUS
  <2> QED BY <1>1, <2>1, EndsAre
<1>8. Exclusive(diffs', runs')
  <2> SUFFICES ASSUME NEW d \in DOMAIN diffs', NEW q \in Run, NEW s \in Run,
                      q \in diffs'[d].due, runs'[q].at \in Locks,
                      s \in diffs'[d].due, runs'[s].at \in Locks
               PROVE  q = s
    BY DEF Exclusive
  <2>1. d \in DOMAIN diffs /\ q \in diffs[d].due /\ s \in diffs[d].due
    BY <1>3, <1>5
  <2> QED BY <1>7, <2>1 DEF TaskInv, Exclusive
<1>9. ASSUME ~tangled' PROVE ~tangled /\ run.alone
  BY <1>1, <1>9, Zenon
<1>10. Channel!ClearedHasNoOpen'
  <2> SUFFICES ASSUME ~tangled', task'.status \in {"balanced", "resolved"}, NEW d \in DOMAIN diffs'
               PROVE  diffs'[d].status # "open"
    BY Zenon DEF Channel!ClearedHasNoOpen
  <2>1. CASE run.cleared
    <3>1. run.at # "idle"
      BY <1>1
    <3>2. \A e \in DOMAIN diffs : r \notin diffs[e].due => diffs[e].status # "open"
      BY <1>1, <1>2, <1>9, <2>1, <3>1, Zenon DEF UpToDate
    <3> QED BY <1>2, <1>3, <1>5, <3>2
  <2>2. CASE ~run.cleared
    <3>1. task' = task
      BY <1>1, <2>2
    <3>2. \A e \in DOMAIN diffs : diffs[e].status # "open"
      BY <1>9, <3>1 DEF TaskInv, Channel!ClearedHasNoOpen
    <3> QED BY <1>2, <1>3, <1>5, <3>2
  <2> QED BY <2>1, <2>2, Zenon
<1>11. \A n : Names(diffs, n) => Names(diffs', n)
  BY <1>3, <1>5 DEF Names
<1>12. ASSUME ~tangled', seen'.entries # <<>>, NEW n \in Unpaired(seen'.payments, seen'.entries)
       PROVE  Names(diffs', n)
  <2>1. Names(diffs, n)
    BY <1>1, <1>9, <1>12 DEF TaskInv
  <2> QED BY <1>11, <2>1
<1>13. runs' = [s \in Run |-> runs'[s]]
  BY <1>1 DEF Channel!Ends
<1>14. /\ payments' \in Seq(Channel!Row) /\ statement' \in Bill
       /\ seen'.payments \in Seq(Channel!Row) /\ seen'.entries \in Seq(Channel!Row)
  BY <1>1 DEF TaskInv
<1>15. TaskInv'
  BY <1>5, <1>7, <1>8, <1>10, <1>12, <1>13, <1>14, Zenon
     DEF TaskInv, Exclusive, Bill, Channel!Instant
<1> QED BY <1>5, <1>6, <1>15

LEMMA TaskStep ==
  ASSUME TaskInv, [Channel!Next]_(Channel!vars)
  PROVE  /\ TaskInv'
         /\ \A d \in DOMAIN diffs : diffs[d].status # "open" =>
              \E e \in DOMAIN diffs' : Channel!Key(diffs'[e]) = Channel!Key(diffs[d])
                                         /\ diffs'[e].status # "open"
<1> DEFINE Stays == \A d \in DOMAIN diffs : diffs[d].status # "open" =>
              \E e \in DOMAIN diffs' : Channel!Key(diffs'[e]) = Channel!Key(diffs[d])
                                         /\ diffs'[e].status # "open"
<1>1. diffs' = diffs => Stays
  OBVIOUS
<1>2. ASSUME payments' \in Seq(Channel!Row), UNCHANGED <<statement, diffs, task, runs, seen, tangled>>
      PROVE  TaskInv' /\ diffs' = diffs
  <2>1. Channel!ClearedHasNoOpen'
    BY <1>2 DEF Channel!ClearedHasNoOpen, TaskInv
  <2>2. Exclusive(diffs', runs')
    BY <1>2 DEF TaskInv
  <2> QED BY <1>2, <2>1, <2>2 DEF TaskInv, Exclusive, Bill, Channel!Instant
<1> HIDE DEF Stays
<1>3. ASSUME NEW row \in Channel!Row, Channel!Pay(row) PROVE TaskInv' /\ diffs' = diffs
  <2>1. /\ payments' \in Seq(Channel!Row)
        /\ UNCHANGED <<statement, diffs, task, runs, seen, tangled>>
    BY <1>3 DEF Channel!Pay, TaskInv
  <2> QED BY <1>2, <2>1
<1>4. ASSUME NEW r \in Run, Channel!Reconcile(r) PROVE TaskInv' /\ diffs' = diffs
  BY <1>4, BeginTask DEF Channel!Reconcile, TaskInv
<1>5. ASSUME NEW r \in Run, NEW t \in Channel!Instant, NEW line \in Channel!Row,
             Channel!Import(r, t, line)
      PROVE  TaskInv' /\ diffs' = diffs
  <2> DEFINE bill == [statement EXCEPT ![t] = line]
  <2>1. Channel!Begin(r, bill, {t})
    BY <1>5, Zenon DEF Channel!Import
  <2>2. bill \in Bill
    BY DEF TaskInv, Bill
  <2> HIDE DEF bill
  <2> QED BY <2>1, <2>2, BeginTask
<1>6. ASSUME NEW r \in Run, Channel!Delete(r) \/ Channel!Match(r) \/ Channel!Abort(r)
      PROVE  TaskInv' /\ Stays
  BY <1>6, DeleteTask, MatchTask, AbortTask, Zenon DEF Stays
<1>7. ASSUME NEW r \in Run, Channel!Commit(r) \/ Channel!CommitResolve(r) PROVE TaskInv' /\ Stays
  BY <1>7, CommitTask, ResolvedTask, Zenon DEF Stays
<1>8. ASSUME NEW r \in Run, NEW d \in DOMAIN diffs, NEW status \in {"resolved", "ignored"},
             Channel!Resolve(r, d, status)
      PROVE  TaskInv' /\ Stays
  BY <1>8, ResolveTask DEF Stays
<1>9. ASSUME UNCHANGED Channel!vars PROVE TaskInv' /\ diffs' = diffs
  <2>1. /\ payments' \in Seq(Channel!Row)
        /\ UNCHANGED <<statement, diffs, task, runs, seen, tangled>>
    BY <1>9 DEF Channel!vars, TaskInv
  <2> QED BY <1>2, <2>1
<1>10. TaskInv' /\ Stays
  BY <1>1, <1>3, <1>4, <1>5, <1>6, <1>7, <1>8, <1>9, Zenon DEF Channel!Next
<1> QED BY <1>10 DEF Stays

(* Reconciliation, for any number of payments, entries and transactions    *)
(* that begin, wait for each other's rows, fail and commit in any order: no *)
(* payment answers for two entries; and from the commit of a run that      *)
(* worked alone, until transactions commit across each other again, a      *)
(* cleared day has nothing open and what the run could not pair is on the  *)
(* list (reconcile_task and resolve_difference).                           *)
THEOREM TaskIsTrueHolds == Channel!Spec => []TaskIsTrue
<1>1. TaskInv => TaskIsTrue
  BY TaskGives
<1> QED BY <1>1, TaskInit, TaskStep, PTL DEF Channel!Spec

-----------------------------------------------------------------------------
(* The voice ledger.  The rows of a record and the lots bought for it are  *)
(* kept per record: VoiceInv says of each record what its row holds and    *)
(* what its lots hold (Follows), and of all of them that what was bought   *)
(* is either left, sold, lost or torn from the lots by a void.             *)

Lot == [log : Nat, bought : Nat, left : Nat]

Lots(bs) == bs \in Seq(Lot) /\ \A b \in DOMAIN bs : bs[b].left <= bs[b].bought

Amounts(bs)   == [b \in DOMAIN bs |-> bs[b].left]
Purchased(bs) == [b \in DOMAIN bs |-> bs[b].bought]
Share(bs, l)  == [b \in DOMAIN bs |-> IF bs[b].log = l THEN bs[b].bought ELSE 0]

Got(bs)     == SumOf(Purchased(bs))
Still(bs)   == SumOf(Amounts(bs))
From(bs, l) == SumOf(Share(bs, l))

LEMMA VoiceSums == \A f : Voice!SumOf(f) = SumOf(f)
  BY DEF Voice!SumOf, SumOf, Voice!MapThenFoldSet, MapThenFoldSet

LEMMA VoicePicks == \A list, T : Voice!Picked(list, T) = Picked(list, T)
<1>1. \A T : Voice!Cardinality(T) = Cardinality(T)
  BY DEF Voice!Cardinality, Cardinality
<1>2. \A T, n : Voice!Nth(T, n) = Nth(T, n)
  BY <1>1 DEF Voice!Nth, Nth
<1> QED BY <1>1, <1>2 DEF Voice!Picked, Picked

LEMMA VoiceLeft == \A bs : Voice!Left(bs) = Still(bs)
  BY VoiceSums DEF Voice!Left, Still, Amounts

LEMMA LotFacts ==
  ASSUME NEW bs, Lots(bs)
  PROVE  /\ Len(bs) \in Nat /\ DOMAIN bs = 1 .. Len(bs) /\ IsFiniteSet(DOMAIN bs)
         /\ \A b \in DOMAIN bs :
              /\ bs[b] \in Lot /\ bs[b].log \in Nat /\ bs[b].bought \in Nat
              /\ bs[b].left \in Nat /\ bs[b].left <= bs[b].bought
         /\ Amounts(bs) \in [DOMAIN bs -> Nat] /\ Amounts(bs) \in [DOMAIN bs -> Int]
         /\ Purchased(bs) \in [DOMAIN bs -> Nat] /\ Purchased(bs) \in [DOMAIN bs -> Int]
         /\ \A l : Share(bs, l) \in [DOMAIN bs -> Int]
         /\ Got(bs) \in Nat /\ Still(bs) \in Nat /\ \A l : From(bs, l) \in Int
<1>1. /\ Len(bs) \in Nat /\ DOMAIN bs = 1 .. Len(bs)
      /\ \A b \in DOMAIN bs : bs[b] \in Lot /\ bs[b].left <= bs[b].bought
  BY DEF Lots
<1>2. IsFiniteSet(DOMAIN bs)
  BY <1>1, FS_Interval
<1>3. \A b \in DOMAIN bs : bs[b].log \in Nat /\ bs[b].bought \in Nat /\ bs[b].left \in Nat
  BY <1>1 DEF Lot
<1>4. /\ Amounts(bs) \in [DOMAIN bs -> Nat] /\ Amounts(bs) \in [DOMAIN bs -> Int]
      /\ Purchased(bs) \in [DOMAIN bs -> Nat] /\ Purchased(bs) \in [DOMAIN bs -> Int]
      /\ \A l : Share(bs, l) \in [DOMAIN bs -> Int]
  BY <1>3 DEF Amounts, Purchased, Share
<1>5. Got(bs) \in Nat /\ Still(bs) \in Nat /\ \A l : From(bs, l) \in Int
  BY <1>2, <1>4, SumNat, SumInt DEF Got, Still, From
<1> QED BY <1>1, <1>2, <1>3, <1>4, <1>5

(* Where only what is left of the lots differs.                            *)
Alike(old, new) ==
  /\ Lots(new) /\ DOMAIN new = DOMAIN old
  /\ \A b \in DOMAIN old : new[b].log = old[b].log /\ new[b].bought = old[b].bought

LEMMA AlikeFacts ==
  ASSUME NEW old, NEW new, Alike(old, new)
  PROVE  Got(new) = Got(old) /\ \A l : From(new, l) = From(old, l)
<1>1. Purchased(new) = Purchased(old)
  BY DEF Alike, Purchased
<1>2. \A l : Share(new, l) = Share(old, l)
  BY DEF Alike, Share
<1> QED BY <1>1, <1>2 DEF Got, From

(* What is left of the lots set to the amounts of g.                       *)
LEMMA SetLeft ==
  ASSUME NEW old, Lots(old), NEW new, NEW g \in [DOMAIN old -> Nat],
         \A b \in DOMAIN old : g[b] <= old[b].bought,
         new = [b \in DOMAIN old |-> [old[b] EXCEPT !.left = g[b]]]
  PROVE  Alike(old, new) /\ Still(new) = SumOf(g)
<1>1. /\ DOMAIN old = 1 .. Len(old) /\ Len(old) \in Nat
      /\ \A b \in DOMAIN old : old[b] \in Lot
  BY LotFacts
<1>2. ASSUME NEW b \in DOMAIN old
      PROVE  /\ new[b] \in Lot /\ new[b].log = old[b].log /\ new[b].bought = old[b].bought
             /\ new[b].left = g[b]
  <2>1. PICK r \in Lot : r = old[b]
    BY <1>1
  <2>2. new[b] = [r EXCEPT !.left = g[b]] /\ g[b] \in Nat
    BY <2>1
  <2> QED BY <2>1, <2>2 DEF Lot
<1>3. DOMAIN new = DOMAIN old
  OBVIOUS
<1>4. new \in [1 .. Len(old) -> Lot]
  <2>1. new = [b \in DOMAIN old |-> new[b]]
    OBVIOUS
  <2> QED BY <1>1, <1>2, <2>1
<1>5. new \in Seq(Lot)
  BY <1>1, <1>4, AsSeq
<1>6. Alike(old, new)
  BY <1>2, <1>3, <1>5 DEF Alike, Lots
<1>7. Amounts(new) = g
  BY <1>2, <1>3 DEF Amounts
<1> QED BY <1>6, <1>7 DEF Still

LEMMA DrawnFacts ==
  ASSUME NEW bs, Lots(bs), NEW q \in Nat, q <= Still(bs)
  PROVE  Alike(bs, Voice!Drawn(bs, q)) /\ Still(Voice!Drawn(bs, q)) = Still(bs) - q
<1> DEFINE S == DOMAIN bs
           f == Amounts(bs)
           before(b) == SumOf([c \in 1 .. b - 1 |-> bs[c].left])
           take == [b \in S |-> IF q > before(b) THEN Voice!Smaller(bs[b].left, q - before(b)) ELSE 0]
           g == [b \in S |-> bs[b].left - take[b]]
<1>1. /\ Len(bs) \in Nat /\ Among(S, Len(bs)) /\ IsFiniteSet(S)
      /\ f \in [S -> Nat] /\ f \in [S -> Int]
      /\ \A b \in S : bs[b].left \in Nat /\ bs[b].left <= bs[b].bought
                      /\ bs[b].bought \in Nat /\ b \in Nat
  BY LotFacts DEF Among
<1>2. Voice!Drawn(bs, q) = [b \in S |-> [bs[b] EXCEPT !.left = g[b]]]
  <2>1. ASSUME NEW b \in S
        PROVE  [bs[b] EXCEPT !.left = @ - (IF q > before(b) THEN Voice!Smaller(bs[b].left, q - before(b)) ELSE 0)]
                 = [bs[b] EXCEPT !.left = g[b]]
    <3>1. g[b] = bs[b].left - (IF q > before(b) THEN Voice!Smaller(bs[b].left, q - before(b)) ELSE 0)
      OBVIOUS
    <3> HIDE DEF g
    <3> QED BY <3>1
  <2>2. Voice!Drawn(bs, q) = [b \in S |->
          [bs[b] EXCEPT !.left = @ - (IF q > before(b) THEN Voice!Smaller(bs[b].left, q - before(b)) ELSE 0)]]
    BY VoiceSums, Zenon DEF Voice!Drawn
  <2> QED BY <2>1, <2>2, Zenon
<1>3. ASSUME NEW b \in S PROVE before(b) = Over(f, Below(S, b)) /\ before(b) \in Int
  <2>1. Below(S, b) = 1 .. b - 1 /\ Below(S, b) \in SUBSET S
    BY LotFacts DEF Below
  <2>2. [c \in 1 .. b - 1 |-> bs[c].left] = [c \in 1 .. b - 1 |-> f[c]]
    BY <2>1 DEF Amounts
  <2>3. before(b) = Over(f, Below(S, b))
    BY <2>1, <2>2 DEF Over
  <2> HIDE DEF before, f, S
  <2>4. Over(f, Below(S, b)) \in Int
    BY <1>1, <2>1, OverFacts
  <2> QED BY <2>3, <2>4
<1>4. \A b \in S : take[b] \in Int /\ take[b] = Smaller(Larger(q - Over(f, Below(S, b)), 0), f[b])
  <2> TAKE b \in S
  <2>1. f[b] = bs[b].left /\ f[b] \in Nat
    BY <1>1 DEF Amounts
  <2>2. before(b) = Over(f, Below(S, b)) /\ before(b) \in Int
    BY <1>3
  <2>3. take[b] = IF q > before(b) THEN Voice!Smaller(bs[b].left, q - before(b)) ELSE 0
    OBVIOUS
  <2>4. PICK n : n = before(b) /\ n \in Int /\ n = Over(f, Below(S, b))
    BY <2>2
  <2>5. PICK m : m = f[b] /\ m \in Nat
    BY <2>1
  <2>6. take[b] = IF q > n THEN (IF m < q - n THEN m ELSE q - n) ELSE 0
    BY <2>1, <2>3, <2>4, <2>5 DEF Voice!Smaller
  <2> HIDE DEF take, before, f
  <2> QED BY <2>4, <2>5, <2>6 DEF Smaller, Larger
<1>5. take \in [S -> Int]
  <2>1. take = [b \in S |-> take[b]]
    OBVIOUS
  <2> QED BY <1>4, <2>1
<1>6. q <= SumOf(f) /\ \A b \in S : f[b] = bs[b].left
  BY DEF Still, Amounts
<1> HIDE DEF take, f, S
<1>7. /\ take \in [S -> Nat] /\ SumOf(take) = q
      /\ \A b \in S : take[b] <= f[b]
  BY <1>1, <1>4, <1>5, <1>6, PrefixSplit
<1>8. g \in [S -> Nat] /\ \A b \in S : g[b] = f[b] - take[b] /\ g[b] <= bs[b].bought
  BY <1>1, <1>6, <1>7
<1> HIDE DEF g
<1>a. /\ g \in [S -> Int] /\ g \in [S -> Nat]
      /\ \A b \in S : g[b] = f[b] - take[b]
  BY <1>8
<1>b. \A b \in S : g[b] <= bs[b].bought
  BY <1>8
<1>9. SumOf(g) = SumOf(f) - SumOf(take)
  <2>1. IsFiniteSet(S) /\ f \in [S -> Int] /\ take \in [S -> Int] /\ g \in [S -> Int]
    BY <1>1, <1>5, <1>a
  <2>2. \A b \in S : g[b] = f[b] - take[b]
    BY <1>a
  <2> QED BY ONLY <2>1, <2>2, SumMinus
<1>10. SumOf(f) = Still(bs)
  BY DEF f, Still
<1>11. SumOf(g) = Still(bs) - q
  BY <1>7, <1>9, <1>10
<1>12. Alike(bs, Voice!Drawn(bs, q)) /\ Still(Voice!Drawn(bs, q)) = SumOf(g)
  BY <1>2, <1>a, <1>b, SetLeft DEF S
<1> QED BY <1>11, <1>12

LEMMA SumSplit ==
  ASSUME NEW S, IsFiniteSet(S), NEW f \in [S -> Int], NEW U \in SUBSET S
  PROVE  SumOf(f) = Over(f, U) + Over(f, S \ U)
<1> DEFINE u == [x \in S |-> IF x \in U THEN f[x] ELSE 0]
           v == [x \in S |-> IF x \in S \ U THEN f[x] ELSE 0]
<1>1. u \in [S -> Int] /\ v \in [S -> Int] /\ \A x \in S : f[x] = u[x] + v[x]
  OBVIOUS
<1>2. SumOf([x \in U |-> f[x]]) = SumOf(u)
  BY SumPart
<1>3. SumOf([x \in S \ U |-> f[x]]) = SumOf(v)
  BY SumPart
<1> HIDE DEF u, v
<1>4. SumOf(f) = SumOf(u) + SumOf(v)
  BY <1>1, SumPlus
<1> QED BY <1>2, <1>3, <1>4 DEF Over

LEMMA RefilledFacts ==
  ASSUME NEW bs, Lots(bs), NEW q \in Nat, q <= Got(bs) - Still(bs)
  PROVE  Alike(bs, Voice!Refilled(bs, q)) /\ Still(Voice!Refilled(bs, q)) = Still(bs) + q
<1> DEFINE S == DOMAIN bs
           room(b) == bs[b].bought - bs[b].left
           f == [b \in S |-> room(b)]
           R == Got(bs) - Still(bs)
           after(b) == SumOf([c \in b + 1 .. Len(bs) |-> room(c)])
           give == [b \in S |-> IF q > after(b) THEN Voice!Smaller(room(b), q - after(b)) ELSE 0]
           g == [b \in S |-> bs[b].left + give[b]]
           rest == [b \in S |-> f[b] - give[b]]
<1>1. /\ Len(bs) \in Nat /\ Among(S, Len(bs)) /\ IsFiniteSet(S) /\ S = 1 .. Len(bs)
      /\ \A b \in S : bs[b].left \in Nat /\ bs[b].left <= bs[b].bought
                      /\ bs[b].bought \in Nat /\ b \in Nat
      /\ Amounts(bs) \in [S -> Int] /\ Purchased(bs) \in [S -> Int]
      /\ Got(bs) \in Nat /\ Still(bs) \in Nat
  BY LotFacts DEF Among
<1>2. f \in [S -> Nat] /\ f \in [S -> Int] /\ \A b \in S : f[b] = Purchased(bs)[b] - Amounts(bs)[b]
  BY <1>1 DEF Purchased, Amounts
<1>3. Voice!Refilled(bs, q) = [b \in S |-> [bs[b] EXCEPT !.left = g[b]]]
  <2>1. ASSUME NEW b \in S
        PROVE  [bs[b] EXCEPT !.left = @ + (IF q > after(b) THEN Voice!Smaller(room(b), q - after(b)) ELSE 0)]
                 = [bs[b] EXCEPT !.left = g[b]]
    <3>1. g[b] = bs[b].left + (IF q > after(b) THEN Voice!Smaller(room(b), q - after(b)) ELSE 0)
      OBVIOUS
    <3> HIDE DEF g
    <3> QED BY <3>1
  <2>2. Voice!Refilled(bs, q) = [b \in S |->
          [bs[b] EXCEPT !.left = @ + (IF q > after(b) THEN Voice!Smaller(room(b), q - after(b)) ELSE 0)]]
    BY VoiceSums, Zenon DEF Voice!Refilled
  <2> QED BY <2>1, <2>2, Zenon
<1>4. SumOf(f) = R
  <2> HIDE DEF f, S
  <2>a. IsFiniteSet(S) /\ f \in [S -> Int] /\ Amounts(bs) \in [S -> Int] /\ Purchased(bs) \in [S -> Int]
    BY <1>1, <1>2
  <2>b. \A b \in S : f[b] = Purchased(bs)[b] - Amounts(bs)[b]
    BY <1>2
  <2>1. SumOf(f) = SumOf(Purchased(bs)) - SumOf(Amounts(bs))
    BY ONLY <2>a, <2>b, SumMinus
  <2> QED BY <2>1 DEF Got, Still
<1>5. ASSUME NEW b \in S
      PROVE  after(b) \in Int /\ Over(f, Below(S, b)) \in Int
             /\ Over(f, Below(S, b)) + f[b] + after(b) = R
  <2>1. Below(S, b) \in SUBSET S /\ S \ Below(S, b) \in SUBSET S
        /\ b \in S \ Below(S, b) /\ (S \ Below(S, b)) \ {b} = b + 1 .. Len(bs)
        /\ b + 1 .. Len(bs) \in SUBSET S
    BY <1>1 DEF Below
  <2>2. [c \in b + 1 .. Len(bs) |-> room(c)] = [c \in b + 1 .. Len(bs) |-> f[c]]
    BY <2>1
  <2>3. after(b) = Over(f, b + 1 .. Len(bs))
    BY <2>2, Zenon DEF Over
  <2> HIDE DEF after, f, S
  <2>a. IsFiniteSet(S) /\ f \in [S -> Int]
    BY <1>1, <1>2
  <2>4. SumOf(f) = Over(f, Below(S, b)) + Over(f, S \ Below(S, b))
    BY ONLY <2>1, <2>a, SumSplit
  <2>5. Over(f, S \ Below(S, b)) = f[b] + Over(f, b + 1 .. Len(bs))
    <3>1. Over(f, S \ Below(S, b)) = f[b] + Over(f, (S \ Below(S, b)) \ {b})
      BY ONLY <2>1, <2>a, OverOut
    <3> QED BY <2>1, <3>1
  <2>6. Over(f, b + 1 .. Len(bs)) \in Int /\ Over(f, Below(S, b)) \in Int
    BY <1>1, <1>2, <2>1, OverFacts
  <2> QED BY <1>2, <1>4, <2>3, <2>4, <2>5, <2>6
<1>6. \A b \in S : rest[b] \in Int /\ give[b] \in Nat
                   /\ rest[b] = Smaller(Larger(R - q - Over(f, Below(S, b)), 0), f[b])
  <2>1. \A b \in S : f[b] = room(b) /\ f[b] \in Nat
    BY <1>2
  <2> SUFFICES ASSUME NEW b \in S
               PROVE  rest[b] \in Int /\ give[b] \in Nat
                      /\ rest[b] = Smaller(Larger(R - q - Over(f, Below(S, b)), 0), f[b])
    OBVIOUS
  <2>2. /\ give[b] = IF q > after(b) THEN Voice!Smaller(f[b], q - after(b)) ELSE 0
        /\ rest[b] = f[b] - give[b]
    BY <2>1
  <2>a. R \in Int
    BY <1>1
  <2> HIDE DEF f, after, room, R
  <2>3. /\ after(b) \in Int /\ Over(f, Below(S, b)) \in Int
        /\ Over(f, Below(S, b)) + f[b] + after(b) = R
        /\ f[b] \in Nat /\ R \in Int
    BY <1>5, <2>1, <2>a
  <2> HIDE DEF give, rest
  <2> QED BY <2>2, <2>3 DEF Voice!Smaller, Smaller, Larger
<1>7. rest \in [S -> Int] /\ give \in [S -> Nat]
  <2>1. give = [b \in S |-> give[b]] /\ rest = [b \in S |-> rest[b]]
    OBVIOUS
  <2> HIDE DEF give, rest
  <2> QED BY <1>6, <2>1
<1>8. \A b \in S : rest[b] = f[b] - give[b] /\ f[b] = bs[b].bought - bs[b].left
                   /\ g[b] = bs[b].left + give[b]
  OBVIOUS
<1>9. R - q \in Nat /\ R - q <= SumOf(f)
  BY <1>1, <1>4
<1>10. DOMAIN g = S /\ g = [b \in S |-> g[b]]
  OBVIOUS
<1> HIDE DEF give, f, S, R, rest, g
<1>11. rest \in [S -> Nat] /\ SumOf(rest) = R - q /\ \A b \in S : rest[b] <= f[b]
  <2>1. \A b \in S : rest[b] = Smaller(Larger((R - q) - Over(f, Below(S, b)), 0), f[b])
    BY <1>6
  <2>2. Len(bs) \in Nat /\ Among(S, Len(bs)) /\ f \in [S -> Nat] /\ R - q \in Nat
        /\ rest \in [S -> Int] /\ R - q <= SumOf(f)
    BY <1>1, <1>2, <1>7, <1>9
  <2> QED BY ONLY <2>1, <2>2, PrefixSplit
<1>12. /\ g \in [S -> Nat]
       /\ \A b \in S : g[b] <= bs[b].bought
       /\ \A b \in S : Purchased(bs)[b] = g[b] + rest[b]
  <2>1. ASSUME NEW b \in S
        PROVE  g[b] \in Nat /\ g[b] <= bs[b].bought /\ Purchased(bs)[b] = g[b] + rest[b]
    <3>1. rest[b] \in Nat /\ give[b] \in Nat
      BY <1>7, <1>11
    <3>2. Purchased(bs)[b] = bs[b].bought
      BY DEF Purchased, S
    <3>3. bs[b].bought \in Nat /\ bs[b].left \in Nat
      BY <1>1
    <3>4. /\ rest[b] = f[b] - give[b] /\ f[b] = bs[b].bought - bs[b].left
          /\ g[b] = bs[b].left + give[b]
      BY <1>8
    <3> QED BY ONLY <3>1, <3>2, <3>3, <3>4
  <2> QED BY <1>10, <2>1
<1>13. Got(bs) = SumOf(g) + SumOf(rest)
  <2>1. IsFiniteSet(S) /\ g \in [S -> Int] /\ rest \in [S -> Int] /\ Purchased(bs) \in [S -> Int]
    BY <1>1, <1>7, <1>12
  <2>2. \A b \in S : Purchased(bs)[b] = g[b] + rest[b]
    BY <1>12
  <2>3. SumOf(Purchased(bs)) = SumOf(g) + SumOf(rest)
    BY ONLY <2>1, <2>2, SumPlus
  <2> QED BY <2>3 DEF Got
<1>14. SumOf(g) \in Int
  BY <1>1, <1>12, SumNat
<1>15. SumOf(g) = Still(bs) + q
  <2>1. SumOf(rest) = Got(bs) - Still(bs) - q /\ Got(bs) \in Int /\ Still(bs) \in Int
    BY <1>1, <1>11 DEF R
  <2> QED BY ONLY <1>13, <1>14, <2>1, q \in Nat
<1>16. Alike(bs, Voice!Refilled(bs, q)) /\ Still(Voice!Refilled(bs, q)) = SumOf(g)
  BY <1>3, <1>12, SetLeft DEF S
<1> QED BY <1>15, <1>16

LEMMA OverUpto ==
  ASSUME NEW N \in Nat, NEW G \in [1 .. N -> Int], NEW n \in 1 .. N
  PROVE  Over(G, 1 .. n) = G[n] + Over(G, 1 .. n - 1)
<1> DEFINE f == [x \in 1 .. n - 1 |-> G[x]]
           g == [x \in 1 .. (n - 1) + 1 |-> G[x]]
<1>1. n - 1 \in Nat /\ (n - 1) + 1 = n
  OBVIOUS
<1>2. f \in [1 .. n - 1 -> Int] /\ g \in [1 .. (n - 1) + 1 -> Int]
      /\ (\A i \in 1 .. n - 1 : f[i] = g[i]) /\ g[(n - 1) + 1] = G[n]
  BY <1>1
<1>3. Over(G, 1 .. n) = SumOf(g) /\ Over(G, 1 .. n - 1) = SumOf(f)
  BY <1>1 DEF Over
<1> HIDE DEF f, g
<1>4. SumOf(g) = SumOf(f) + g[(n - 1) + 1]
  BY <1>1, <1>2, SumNext
<1>5. SumOf(f) \in Int
  <2>1. IsFiniteSet(1 .. n - 1)
    BY <1>1, FS_Interval
  <2> QED BY <1>2, <2>1, SumInt
<1> QED BY <1>2, <1>3, <1>4, <1>5

LEMMA PickedSum ==
  ASSUME NEW m \in Nat, NEW T, Among(T, m), NEW F \in [T -> Int]
  PROVE  SumOf([n \in 1 .. Cardinality(T) |-> F[Nth(T, n)]]) = SumOf(F)
<1> DEFINE N == Cardinality(T)
           G == [n \in 1 .. N |-> F[Nth(T, n)]]
           c(k) == Cardinality(Upto(T, k))
           X == {k \in Nat : Over(F, Upto(T, k)) = Over(G, 1 .. c(k))}
<1>1. /\ IsFiniteSet(T) /\ N \in Nat
      /\ Upto(T, 0) = {} /\ Upto(T, m) = T
      /\ \A k : Upto(T, k) \in SUBSET T
  BY Prefixes
<1>2. G \in [1 .. N -> Int] /\ IsFiniteSet(1 .. N)
  <2>1. \A n \in 1 .. N : Nth(T, n) \in T
    BY NthIn
  <2> QED BY <1>1, <2>1, FS_Interval
<1>3. 0 \in X
  <2>1. c(0) = 0 /\ 1 .. 0 = {}
    BY <1>1, FS_EmptySet
  <2>2. Over(F, {}) = 0 /\ Over(G, {}) = 0
    BY <1>1, <1>2, OverFacts
  <2> QED BY <1>1, <2>1, <2>2
<1>4. ASSUME NEW k \in Nat, k \in X PROVE k + 1 \in X
  <2>1. CASE k + 1 \notin T
    <3>1. Upto(T, k + 1) = Upto(T, k)
      BY <2>1, Prefixes
    <3> QED BY <1>4, <3>1
  <2>2. CASE k + 1 \in T
    <3>1. Upto(T, k + 1) \in SUBSET T /\ Upto(T, k + 1) \ {k + 1} = Upto(T, k)
          /\ k + 1 \in Upto(T, k + 1) /\ Below(T, k + 1) = Upto(T, k)
      BY <2>2, Prefixes
    <3>2. PICK n \in 1 .. N : Nth(T, n) = k + 1
      BY <2>2, NthOf
    <3>3. c(k) = n - 1
      BY <3>1, <3>2, NthIn
    <3>4. c(k + 1) = n
      <4>1. IsFiniteSet(Upto(T, k + 1))
        BY <1>1, <3>1, FS_Subset
      <4>2. c(k) = c(k + 1) - 1 /\ c(k + 1) \in Nat
        BY <3>1, <4>1, FS_RemoveElement, FS_CardinalityType
      <4> QED BY <3>2, <3>3, <4>2
    <3>5. /\ (1 .. n) \in SUBSET (1 .. N) /\ n \in 1 .. n /\ (1 .. n) \ {n} = 1 .. n - 1
      BY <1>1, <3>2
    <3>6. G[n] = F[k + 1]
      BY <3>2
    <3> HIDE DEF G, N
    <3>7. Over(F, Upto(T, k + 1)) = F[k + 1] + Over(F, Upto(T, k))
      <4>1. Over(F, Upto(T, k + 1)) = F[k + 1] + Over(F, Upto(T, k + 1) \ {k + 1})
        BY <1>1, <3>1, OverOut
      <4> QED BY <3>1, <4>1
    <3>8. Over(G, 1 .. n) = G[n] + Over(G, 1 .. n - 1)
      BY <1>1, <1>2, <3>2, OverUpto
    <3>9. Over(F, Upto(T, k)) = Over(G, 1 .. n - 1)
      BY <1>4, <3>3
    <3>10. Over(F, Upto(T, k + 1)) = Over(G, 1 .. c(k + 1))
      BY <3>4, <3>6, <3>7, <3>8, <3>9
    <3> QED BY <3>10
  <2> QED BY <2>1, <2>2
<1>5. m \in X
  <2> HIDE DEF X
  <2> QED BY <1>3, <1>4, Counting
<1>6. Over(F, T) = SumOf(F)
  BY OverAll
<1>7. Over(G, 1 .. N) = SumOf(G)
  <2> HIDE DEF G, N
  <2> QED BY <1>2, OverAll
<1>8. Over(F, T) = Over(G, 1 .. N)
  BY <1>1, <1>5
<1> QED BY <1>6, <1>7, <1>8

(* A sum over the rows of a list that were picked.                         *)
LEMMA SumPicked ==
  ASSUME NEW m \in Nat, NEW F \in [1 .. m -> Int], NEW T \in SUBSET (1 .. m),
         \A b \in (1 .. m) \ T : F[b] = 0,
         NEW K, K = [n \in 1 .. Cardinality(T) |-> F[Nth(T, n)]]
  PROVE  SumOf(K) = SumOf(F)
<1> DEFINE f == [b \in T |-> F[b]]
<1>1. Among(T, m) /\ f \in [T -> Int] /\ \A b \in T : f[b] = F[b]
  BY DEF Among
<1>2. SumOf(F) = SumOf(f)
  <2> DEFINE S == 1 .. m
  <2>1. IsFiniteSet(S) /\ F \in [S -> Int] /\ T \in SUBSET S /\ \A b \in S \ T : F[b] = 0
    BY FS_Interval
  <2> HIDE DEF S
  <2> QED BY ONLY <2>1, SumSupport
<1>3. \A n \in 1 .. Cardinality(T) : Nth(T, n) \in T
  BY <1>1, NthIn
<1> HIDE DEF f
<1>4. K = [n \in 1 .. Cardinality(T) |-> f[Nth(T, n)]]
  BY <1>1, <1>3
<1>5. SumOf([n \in 1 .. Cardinality(T) |-> f[Nth(T, n)]]) = SumOf(f)
  BY <1>1, PickedSum
<1> QED BY <1>2, <1>4, <1>5

(* What was sold of the lots of a log, which a purchase taken back leaves. *)
Tear(bs, l)  == SumOf([b \in {c \in DOMAIN bs : bs[c].log = l} |-> bs[b].bought - bs[b].left])
TearOf(bs, l) == [b \in DOMAIN bs |-> IF bs[b].log = l THEN bs[b].bought - bs[b].left ELSE 0]

LEMMA TearFacts ==
  ASSUME NEW bs, Lots(bs), NEW l \in Nat
  PROVE  TearOf(bs, l) \in [DOMAIN bs -> Int] /\ SumOf(TearOf(bs, l)) = Tear(bs, l)
<1> DEFINE S == DOMAIN bs
           T == {c \in S : bs[c].log = l}
           f == [b \in S |-> bs[b].bought - bs[b].left]
<1>1. IsFiniteSet(S) /\ f \in [S -> Int] /\ TearOf(bs, l) \in [S -> Int]
  BY LotFacts DEF TearOf
<1>2. [b \in T |-> f[b]] = [b \in T |-> bs[b].bought - bs[b].left]
  OBVIOUS
<1>3. TearOf(bs, l) = [b \in S |-> IF b \in T THEN f[b] ELSE 0]
  BY DEF TearOf
<1>4. T \in SUBSET S /\ \A b \in T : f[b] \in Int
  BY <1>1
<1> HIDE DEF T, f
<1>5. SumOf([b \in T |-> f[b]]) = SumOf([b \in S |-> IF b \in T THEN f[b] ELSE 0])
  BY <1>1, <1>4, SumPart
<1> QED BY <1>1, <1>2, <1>3, <1>5 DEF Tear, T

LEMMA ReducedFacts ==
  ASSUME NEW bs, Lots(bs), NEW l \in Nat \ {0}
  PROVE  /\ Lots(Voice!Reduced(bs, l))
         /\ Got(Voice!Reduced(bs, l)) = Got(bs) - From(bs, l) + Tear(bs, l)
         /\ Still(Voice!Reduced(bs, l)) = Still(bs) - From(bs, l) + Tear(bs, l)
         /\ From(Voice!Reduced(bs, l), l) = 0
         /\ \A k \in Nat \ {0, l} : From(Voice!Reduced(bs, l), k) = From(bs, k)
<1> DEFINE S == 1 .. Len(bs)
           kept == [b \in DOMAIN bs |->
                      IF bs[b].log = l
                      THEN [log |-> 0, bought |-> bs[b].bought - bs[b].left, left |-> 0] ELSE bs[b]]
           T == {b \in DOMAIN bs : kept[b].bought > 0}
           new == Picked(kept, T)
<1>1. Voice!Reduced(bs, l) = new
  BY VoicePicks, Zenon DEF Voice!Reduced
<1>2. /\ Len(bs) \in Nat /\ DOMAIN bs = S /\ IsFiniteSet(S)
      /\ \A b \in S : /\ bs[b] \in Lot /\ bs[b].log \in Nat /\ bs[b].bought \in Nat
                      /\ bs[b].left \in Nat /\ bs[b].left <= bs[b].bought
      /\ Amounts(bs) \in [S -> Int] /\ Purchased(bs) \in [S -> Int]
      /\ Got(bs) \in Nat /\ Still(bs) \in Nat
      /\ \A k : Share(bs, k) \in [S -> Int] /\ From(bs, k) \in Int
  BY LotFacts
<1>3. \A b \in S : /\ kept[b] \in Lot /\ kept[b].left <= kept[b].bought
                   /\ IF bs[b].log = l
                      THEN kept[b].log = 0 /\ kept[b].left = 0
                           /\ kept[b].bought = bs[b].bought - bs[b].left
                      ELSE kept[b] = bs[b]
  BY <1>2 DEF Lot
<1>4. DOMAIN kept = S /\ T \in SUBSET S /\ Among(T, Len(bs))
      /\ (\A b \in S : b \in T <=> kept[b].bought > 0)
  BY <1>2 DEF Among
<1> HIDE DEF kept, T
<1>5. /\ DOMAIN new = 1 .. Cardinality(T) /\ Cardinality(T) \in Nat
      /\ \A n \in 1 .. Cardinality(T) : Nth(T, n) \in S /\ new[n] = kept[Nth(T, n)]
  <2>1. Cardinality(T) \in Nat /\ \A n \in 1 .. Cardinality(T) : Nth(T, n) \in T
    BY <1>2, <1>4, NthIn, PickedFacts
  <2> QED BY <1>4, <2>1 DEF Picked
<1>6. Lots(new)
  <2>1. new \in [1 .. Cardinality(T) -> Lot]
    <3>1. \A n \in 1 .. Cardinality(T) : new[n] \in Lot
      BY <1>3, <1>5
    <3>2. new = [n \in 1 .. Cardinality(T) |-> new[n]]
      BY DEF Picked
    <3> QED BY <3>1, <3>2
  <2>2. new \in Seq(Lot)
    BY <1>5, <2>1, AsSeq
  <2>3. \A n \in DOMAIN new : new[n].left <= new[n].bought
    BY <1>3, <1>5
  <2> QED BY <2>2, <2>3 DEF Lots
<1>6a. \A F \in [S -> Int] : \A K :
         /\ \A b \in S \ T : F[b] = 0
         /\ K = [n \in 1 .. Cardinality(T) |-> F[Nth(T, n)]]
         => SumOf(K) = SumOf(F)
  <2>1. Len(bs) \in Nat /\ T \in SUBSET (1 .. Len(bs))
    BY <1>2, <1>4
  <2> QED BY ONLY <2>1, SumPicked
<1> HIDE DEF new, S
<1> DEFINE had == [b \in S |-> kept[b].bought]
           rest == [b \in S |-> kept[b].left]
           part(k) == [b \in S |-> IF kept[b].log = k THEN kept[b].bought ELSE 0]
           tear == TearOf(bs, l)
<1>7. /\ had \in [S -> Int] /\ rest \in [S -> Int] /\ \A k \in Nat : part(k) \in [S -> Int]
      /\ \A b \in S \ T : had[b] = 0 /\ rest[b] = 0 /\ \A k \in Nat : part(k)[b] = 0
  <2>1. \A b \in S : kept[b].log \in Nat /\ kept[b].bought \in Nat /\ kept[b].left \in Nat
    BY <1>3 DEF Lot
  <2> QED BY <1>3, <1>4, <2>1
<1>8. Got(new) = SumOf(had)
  <2>1. Purchased(new) = [n \in 1 .. Cardinality(T) |-> had[Nth(T, n)]]
    BY <1>5 DEF Purchased
  <2>2. had \in [S -> Int] /\ \A b \in S \ T : had[b] = 0
    BY <1>7
  <2> HIDE DEF had
  <2> QED BY <1>6a, <2>1, <2>2 DEF Got
<1>9. Still(new) = SumOf(rest)
  <2>1. Amounts(new) = [n \in 1 .. Cardinality(T) |-> rest[Nth(T, n)]]
    BY <1>5 DEF Amounts
  <2>2. rest \in [S -> Int] /\ \A b \in S \ T : rest[b] = 0
    BY <1>7
  <2> HIDE DEF rest
  <2> QED BY <1>6a, <2>1, <2>2 DEF Still
<1>10. ASSUME NEW k \in Nat PROVE From(new, k) = SumOf(part(k))
  <2> DEFINE F == part(k)
  <2>1. Share(new, k) = [n \in 1 .. Cardinality(T) |-> F[Nth(T, n)]]
    BY <1>5 DEF Share
  <2>2. F \in [S -> Int] /\ \A b \in S \ T : F[b] = 0
    BY <1>7
  <2> HIDE DEF F
  <2>3. SumOf(Share(new, k)) = SumOf(F)
    BY <1>6a, <2>1, <2>2
  <2> QED BY <2>3 DEF From, F
<1>11. /\ tear \in [S -> Int] /\ SumOf(tear) = Tear(bs, l)
       /\ \A b \in S : tear[b] = IF bs[b].log = l THEN bs[b].bought - bs[b].left ELSE 0
       /\ Tear(bs, l) \in Int
  <2>1. tear \in [S -> Int] /\ SumOf(tear) = Tear(bs, l)
    BY <1>2, TearFacts
  <2>2. \A b \in S : tear[b] = IF bs[b].log = l THEN bs[b].bought - bs[b].left ELSE 0
    BY <1>2 DEF TearOf
  <2> QED BY <1>2, <2>1, <2>2, SumInt
<1> DEFINE share == Share(bs, l)
           other == [b \in S |-> share[b] - tear[b]]
<1>12. share \in [S -> Int] /\ SumOf(share) = From(bs, l)
       /\ \A b \in S : share[b] = IF bs[b].log = l THEN bs[b].bought ELSE 0
  BY <1>2 DEF Share, From
<1>13. other \in [S -> Int] /\ \A b \in S : other[b] = share[b] - tear[b]
  BY <1>11, <1>12
<1>14. /\ \A b \in S : had[b] = Purchased(bs)[b] - other[b]
       /\ \A b \in S : rest[b] = Amounts(bs)[b] - other[b]
  <2>1. \A b \in S : Purchased(bs)[b] = bs[b].bought /\ Amounts(bs)[b] = bs[b].left
    BY <1>2 DEF Purchased, Amounts
  <2> SUFFICES ASSUME NEW b \in S
               PROVE  had[b] = Purchased(bs)[b] - other[b] /\ rest[b] = Amounts(bs)[b] - other[b]
    OBVIOUS
  <2>2. /\ share[b] = IF bs[b].log = l THEN bs[b].bought ELSE 0
        /\ tear[b] = IF bs[b].log = l THEN bs[b].bought - bs[b].left ELSE 0
        /\ other[b] = share[b] - tear[b]
    BY <1>11, <1>12, <1>13
  <2>3. had[b] = kept[b].bought /\ rest[b] = kept[b].left
    OBVIOUS
  <2>4. /\ bs[b].bought \in Nat /\ bs[b].left \in Nat
        /\ IF bs[b].log = l
           THEN kept[b].left = 0 /\ kept[b].bought = bs[b].bought - bs[b].left
           ELSE kept[b] = bs[b]
    BY <1>2, <1>3
  <2> HIDE DEF other, share, tear, had, rest
  <2> QED BY <2>1, <2>2, <2>3, <2>4
<1> HIDE DEF other, share, tear
<1>15. SumOf(other) = From(bs, l) - Tear(bs, l)
  <2>1. SumOf(other) = SumOf(share) - SumOf(tear)
    <3>1. share \in [S -> Int] /\ tear \in [S -> Int] /\ other \in [S -> Int]
      BY <1>11, <1>12, <1>13
    <3>2. \A b \in S : other[b] = share[b] - tear[b]
      BY <1>13
    <3>3. IsFiniteSet(S)
      BY <1>2
    <3> QED BY ONLY <3>1, <3>2, <3>3, SumMinus
  <2> QED BY <1>11, <1>12, <2>1
<1>16. SumOf(had) = Got(bs) - SumOf(other)
  <2>1. had \in [S -> Int] /\ other \in [S -> Int] /\ Purchased(bs) \in [S -> Int]
    BY <1>2, <1>7, <1>13
  <2>2. \A b \in S : had[b] = Purchased(bs)[b] - other[b]
    BY <1>14
  <2>3. IsFiniteSet(S)
    BY <1>2
  <2> HIDE DEF had
  <2>4. SumOf(had) = SumOf(Purchased(bs)) - SumOf(other)
    BY ONLY <2>1, <2>2, <2>3, SumMinus
  <2> QED BY <2>4 DEF Got
<1>17. SumOf(rest) = Still(bs) - SumOf(other)
  <2>1. rest \in [S -> Int] /\ other \in [S -> Int] /\ Amounts(bs) \in [S -> Int]
    BY <1>2, <1>7, <1>13
  <2>2. \A b \in S : rest[b] = Amounts(bs)[b] - other[b]
    BY <1>14
  <2>3. IsFiniteSet(S)
    BY <1>2
  <2> HIDE DEF rest
  <2>4. SumOf(rest) = SumOf(Amounts(bs)) - SumOf(other)
    BY ONLY <2>1, <2>2, <2>3, SumMinus
  <2> QED BY <2>4 DEF Still
<1>18. From(new, l) = 0
  <2>1. part(l) \in [S -> Int] /\ \A b \in S : part(l)[b] = 0
    BY <1>3, <1>7
  <2>2. SumOf(part(l)) = 0
    <3> HIDE DEF part
    <3> QED BY <1>2, <2>1, SumZero
  <2> QED BY <1>10, <2>2
<1>19. ASSUME NEW k \in Nat \ {0, l} PROVE From(new, k) = From(bs, k)
  <2>1. part(k) = Share(bs, k)
    BY <1>2, <1>3 DEF Share
  <2> QED BY <1>10, <2>1 DEF From
<1>20. /\ Got(new) = Got(bs) - From(bs, l) + Tear(bs, l)
       /\ Still(new) = Still(bs) - From(bs, l) + Tear(bs, l)
  <2>1. From(bs, l) \in Int
    BY <1>2
  <2> QED BY <1>2, <1>8, <1>9, <1>11, <1>15, <1>16, <1>17, <2>1
<1> QED BY <1>1, <1>6, <1>18, <1>19, <1>20

Added(new, bs, l, q) == new = Append(bs, [log |-> l, bought |-> q, left |-> q])

LEMMA AppendFacts ==
  ASSUME NEW bs, Lots(bs), NEW l \in Nat, NEW q \in Nat, NEW new, Added(new, bs, l, q)
  PROVE  /\ Lots(new)
         /\ Got(new) = Got(bs) + q /\ Still(new) = Still(bs) + q
         /\ From(new, l) = From(bs, l) + q
         /\ \A k \in Nat \ {l} : From(new, k) = From(bs, k)
<1>0. PICK lot \in Lot : lot = [log |-> l, bought |-> q, left |-> q]
  BY DEF Lot
<1>1. /\ Len(bs) \in Nat /\ DOMAIN bs = 1 .. Len(bs) /\ bs \in Seq(Lot)
      /\ \A b \in DOMAIN bs : bs[b].left <= bs[b].bought
      /\ Amounts(bs) \in [1 .. Len(bs) -> Int] /\ Purchased(bs) \in [1 .. Len(bs) -> Int]
      /\ \A k : Share(bs, k) \in [1 .. Len(bs) -> Int]
  BY LotFacts DEF Lots
<1>2. /\ new \in Seq(Lot) /\ DOMAIN new = 1 .. Len(bs) + 1
      /\ new[Len(bs) + 1] = lot /\ \A b \in 1 .. Len(bs) : new[b] = bs[b]
  BY <1>0, <1>1 DEF Added
<1>3. lot.log = l /\ lot.bought = q /\ lot.left = q
  BY <1>0
<1>4. Lots(new)
  BY <1>1, <1>2, <1>3 DEF Lots
<1>5. /\ Amounts(new) \in [1 .. Len(bs) + 1 -> Int] /\ Purchased(new) \in [1 .. Len(bs) + 1 -> Int]
      /\ \A k : Share(new, k) \in [1 .. Len(bs) + 1 -> Int]
  BY <1>2, <1>4, LotFacts
<1>6. /\ Amounts(new)[Len(bs) + 1] = q /\ Purchased(new)[Len(bs) + 1] = q
      /\ \A k \in Nat : Share(new, k)[Len(bs) + 1] = IF k = l THEN q ELSE 0
      /\ \A b \in 1 .. Len(bs) : Amounts(bs)[b] = Amounts(new)[b]
      /\ \A b \in 1 .. Len(bs) : Purchased(bs)[b] = Purchased(new)[b]
      /\ \A k : \A b \in 1 .. Len(bs) : Share(bs, k)[b] = Share(new, k)[b]
  BY <1>1, <1>2, <1>3 DEF Amounts, Purchased, Share
<1>7. \A f \in [1 .. Len(bs) -> Int], g \in [1 .. Len(bs) + 1 -> Int] :
        (\A b \in 1 .. Len(bs) : f[b] = g[b]) => SumOf(g) = SumOf(f) + g[Len(bs) + 1]
  BY <1>1, SumNext
<1>8. Got(new) = Got(bs) + q
  BY <1>1, <1>5, <1>6, <1>7 DEF Got
<1>9. Still(new) = Still(bs) + q
  BY <1>1, <1>5, <1>6, <1>7 DEF Still
<1>10. ASSUME NEW k \in Nat PROVE From(new, k) = From(bs, k) + (IF k = l THEN q ELSE 0)
  <2>1. \A b \in 1 .. Len(bs) : Share(bs, k)[b] = Share(new, k)[b]
    BY <1>6
  <2>2. SumOf(Share(new, k)) = SumOf(Share(bs, k)) + Share(new, k)[Len(bs) + 1]
    BY <1>1, <1>5, <1>7, <2>1
  <2> QED BY <1>6, <2>2 DEF From
<1>11. \A k \in Nat : From(bs, k) \in Int
  BY LotFacts
<1> QED BY <1>4, <1>8, <1>9, <1>10, <1>11

(* -------------------------------------------------------------------- *)

BookRow == [qty : Nat, kind : {"none", "purchase", "sale", "waste"}, day : Int]

In(r)  == IF r.kind = "purchase" THEN r.qty ELSE 0
Out(r) == IF r.kind \in {"sale", "waste"} THEN r.qty ELSE 0

Ins(bk)  == SumOf([l \in Voice!Log |-> In(bk[l])])
Outs(bk) == SumOf([l \in Voice!Log |-> Out(bk[l])])

(* The lots bs tell of the rows bk of the ledger, of the losses w recorded *)
(* by hand and of the goods t sold out of purchases taken back.            *)
Accounts(bs, bk, w, t) ==
  /\ Lots(bs) /\ bk \in [Voice!Log -> BookRow] /\ w \in Nat /\ t \in Int
  /\ \A l \in Voice!Log : bk[l].kind = "none" => bk[l].qty = 0
  /\ \A l \in Voice!Log : From(bs, l) = In(bk[l])
  /\ Got(bs) = Ins(bk) + t
  /\ Got(bs) - Still(bs) = Outs(bk) + w

LEMMA LogsFinite == IsFiniteSet(Voice!Log) /\ Voice!Log \subseteq Nat \ {0}
  BY VoiceConstants, FS_Interval DEF Voice!Log

LEMMA BookFacts ==
  ASSUME NEW bk \in [Voice!Log -> BookRow]
  PROVE  /\ [l \in Voice!Log |-> In(bk[l])] \in [Voice!Log -> Nat]
         /\ [l \in Voice!Log |-> Out(bk[l])] \in [Voice!Log -> Nat]
         /\ Ins(bk) \in Nat /\ Outs(bk) \in Nat
         /\ \A l \in Voice!Log : /\ bk[l].qty \in Nat /\ In(bk[l]) \in Nat
                                 /\ Out(bk[l]) \in Nat /\ Out(bk[l]) <= Outs(bk)
<1> DEFINE S == Voice!Log
           f == [l \in S |-> In(bk[l])]
           g == [l \in S |-> Out(bk[l])]
<1>1. \A l \in S : bk[l].qty \in Nat
  BY DEF BookRow
<1>2. \A l \in S : In(bk[l]) \in Nat /\ Out(bk[l]) \in Nat
  BY <1>1 DEF In, Out
<1>3. f \in [S -> Nat] /\ g \in [S -> Nat] /\ \A l \in S : g[l] = Out(bk[l])
  BY <1>2
<1> HIDE DEF f, g
<1>4. SumOf(f) \in Nat /\ SumOf(g) \in Nat /\ \A l \in S : g[l] <= SumOf(g)
  BY <1>3, LogsFinite, SumNat, PartOfSum
<1> QED BY <1>1, <1>2, <1>3, <1>4 DEF Ins, Outs, f, g

Rewritten(new, bk, l, r) == new = [bk EXCEPT ![l] = r]

LEMMA BookUpdate ==
  ASSUME NEW bk \in [Voice!Log -> BookRow], NEW l \in Voice!Log, NEW r \in BookRow, NEW new,
         Rewritten(new, bk, l, r)
  PROVE  /\ new \in [Voice!Log -> BookRow]
         /\ new[l] = r /\ \A k \in Voice!Log \ {l} : new[k] = bk[k]
         /\ Ins(new) = Ins(bk) + In(r) - In(bk[l])
         /\ Outs(new) = Outs(bk) + Out(r) - Out(bk[l])
<1> DEFINE S == Voice!Log
           f(b) == [k \in S |-> In(b[k])]
           g(b) == [k \in S |-> Out(b[k])]
<1>1. new \in [S -> BookRow] /\ new[l] = r /\ \A k \in S \ {l} : new[k] = bk[k]
  BY DEF Rewritten
<1>2. /\ f(bk) \in [S -> Nat] /\ f(new) \in [S -> Nat]
      /\ g(bk) \in [S -> Nat] /\ g(new) \in [S -> Nat]
  BY <1>1, BookFacts
<1>3. /\ f(bk) \in [S -> Int] /\ f(new) \in [S -> Int]
      /\ g(bk) \in [S -> Int] /\ g(new) \in [S -> Int]
  BY <1>2
<1>4. /\ f(new)[l] = In(r) /\ f(bk)[l] = In(bk[l]) /\ g(new)[l] = Out(r) /\ g(bk)[l] = Out(bk[l])
      /\ \A k \in S \ {l} : f(bk)[k] = f(new)[k]
      /\ \A k \in S \ {l} : g(bk)[k] = g(new)[k]
  BY <1>1
<1> HIDE DEF f, g, S
<1>5. IsFiniteSet(S) /\ l \in S
  BY LogsFinite DEF S
<1>6. SumOf(f(new)) = SumOf(f(bk)) + f(new)[l] - f(bk)[l]
  BY ONLY <1>3, <1>4, <1>5, SumUpdate
<1>7. SumOf(g(new)) = SumOf(g(bk)) + g(new)[l] - g(bk)[l]
  BY ONLY <1>3, <1>4, <1>5, SumUpdate
<1> QED BY <1>1, <1>4, <1>6, <1>7 DEF Ins, Outs, f, g, S

LEMMA NoRowIs ==
  /\ Voice!NoRow \in BookRow /\ Voice!NoRow.kind = "none" /\ Voice!NoRow.qty = 0
  /\ In(Voice!NoRow) = 0 /\ Out(Voice!NoRow) = 0
  BY DEF Voice!NoRow, BookRow, In, Out

LEMMA LotsOf ==
  ASSUME NEW bs, NEW bk, NEW w, NEW t, Accounts(bs, bk, w, t)
  PROVE  /\ Lots(bs) /\ bk \in [Voice!Log -> BookRow] /\ w \in Nat /\ t \in Int
         /\ Got(bs) \in Nat /\ Still(bs) \in Nat /\ Ins(bk) \in Nat /\ Outs(bk) \in Nat
         /\ Got(bs) = Ins(bk) + t /\ Got(bs) - Still(bs) = Outs(bk) + w
         /\ \A l \in Voice!Log : bk[l] \in BookRow /\ bk[l].qty \in Nat
         /\ \A l \in Voice!Log : From(bs, l) = In(bk[l])
         /\ \A l \in Voice!Log : bk[l].kind = "none" => bk[l].qty = 0
  BY LotFacts, BookFacts DEF Accounts

(* Lots of the same logs that hold q less.                                 *)
LEMMA LessLeft ==
  ASSUME NEW bs, NEW new, NEW bk, NEW w, NEW t, Accounts(bs, bk, w, t), NEW q \in Nat,
         Alike(bs, new), Still(new) = Still(bs) - q
  PROVE  Accounts(new, bk, w + q, t)
<1>1. Lots(new) /\ Got(new) = Got(bs) /\ \A l : From(new, l) = From(bs, l)
  BY AlikeFacts DEF Alike
<1> QED BY <1>1, LotsOf DEF Accounts

(* A row of the ledger taken back, with what it did to the lots.           *)
LEMMA BackKeeps ==
  ASSUME NEW w, Accounts(stock, booked, w, torn), NEW l \in Voice!Log, NEW bk,
         bk = [booked EXCEPT ![l] = Voice!NoRow]
  PROVE  Accounts(Voice!RolledBack(l), bk, w, torn + Voice!TornBy(l))
<1> DEFINE r == booked[l]
           new == Voice!RolledBack(l)
           q == r.qty
<1>1. /\ Lots(stock) /\ booked \in [Voice!Log -> BookRow] /\ w \in Nat /\ torn \in Int
      /\ Got(stock) \in Nat /\ Still(stock) \in Nat /\ Ins(booked) \in Nat /\ Outs(booked) \in Nat
      /\ Got(stock) = Ins(booked) + torn /\ Got(stock) - Still(stock) = Outs(booked) + w
      /\ r \in BookRow /\ q \in Nat /\ (r.kind = "none" => q = 0)
      /\ \A k \in Voice!Log : From(stock, k) = In(booked[k])
  BY LotsOf
<1>2. /\ bk \in [Voice!Log -> BookRow]
      /\ bk[l] = Voice!NoRow /\ \A k \in Voice!Log \ {l} : bk[k] = booked[k]
      /\ Ins(bk) = Ins(booked) - In(r) /\ Outs(bk) = Outs(booked) - Out(r)
      /\ Ins(bk) \in Nat /\ Outs(bk) \in Nat
  <2>0. PICK n \in BookRow : n = Voice!NoRow /\ Rewritten(bk, booked, l, n)
    BY NoRowIs DEF Rewritten
  <2>1. /\ bk \in [Voice!Log -> BookRow]
        /\ bk[l] = n /\ \A k \in Voice!Log \ {l} : bk[k] = booked[k]
        /\ Ins(bk) = Ins(booked) + In(n) - In(r)
        /\ Outs(bk) = Outs(booked) + Out(n) - Out(r)
    BY <1>1, <2>0, BookUpdate
  <2>2. In(r) \in Nat /\ Out(r) \in Nat /\ Ins(bk) \in Nat /\ Outs(bk) \in Nat
    BY <1>1, <2>1, BookFacts
  <2> QED BY <1>1, <2>0, <2>1, <2>2, NoRowIs
<1>3. \A k \in Voice!Log : bk[k].kind = "none" => bk[k].qty = 0
  <2>1. \A k \in Voice!Log : booked[k].kind = "none" => booked[k].qty = 0
    BY LotsOf
  <2> QED BY <1>2, <2>1, NoRowIs
<1>4. /\ \A k \in Voice!Log \ {l} : In(bk[k]) = In(booked[k])
      /\ In(bk[l]) = 0
  BY <1>2, NoRowIs
<1> HIDE DEF r
<1>5. CASE r.kind = "purchase"
  <2>1. new = Voice!Reduced(stock, l) /\ In(r) = q /\ Out(r) = 0
    BY <1>5 DEF Voice!RolledBack, In, Out, r
  <2>2. Voice!TornBy(l) = Tear(stock, l)
    BY <1>5, VoiceSums DEF Voice!TornBy, Tear, r
  <2>3. l \in Nat \ {0} /\ \A k \in Voice!Log \ {l} : k \in Nat \ {0, l}
    BY LogsFinite
  <2>4. /\ Lots(new)
        /\ Got(new) = Got(stock) - From(stock, l) + Tear(stock, l)
        /\ Still(new) = Still(stock) - From(stock, l) + Tear(stock, l)
        /\ From(new, l) = 0
        /\ \A k \in Nat \ {0, l} : From(new, k) = From(stock, k)
    BY <1>1, <2>1, <2>3, ReducedFacts
  <2>5. From(stock, l) = q /\ Tear(stock, l) \in Int
    <3>1. Tear(stock, l) \in Int
      BY <1>1, <2>3, TearFacts, LotFacts, SumInt
    <3> QED BY <1>1, <2>1, <3>1 DEF r
  <2>6. \A k \in Voice!Log : From(new, k) = In(bk[k])
    BY <1>1, <1>4, <2>3, <2>4
  <2> HIDE DEF new, q
  <2>7. Got(new) = Ins(bk) + (torn + Voice!TornBy(l)) /\ Got(new) - Still(new) = Outs(bk) + w
        /\ torn + Voice!TornBy(l) \in Int
    BY <1>1, <1>2, <2>1, <2>2, <2>4, <2>5
  <2> QED BY <1>1, <1>2, <1>3, <2>4, <2>6, <2>7 DEF Accounts, new
<1>6. CASE r.kind # "purchase"
  <2>1. Voice!TornBy(l) = 0 /\ In(r) = 0
    BY <1>6 DEF Voice!TornBy, In, r
  <2>2. Alike(stock, new) /\ Still(new) = Still(stock) + Out(r) /\ Out(r) \in Nat
    <3>1. CASE r.kind \in {"sale", "waste"}
      <4>1. new = Voice!Refilled(stock, q) /\ Out(r) = q
        BY <1>6, <3>1 DEF Voice!RolledBack, Out, r
      <4>2. Out(r) <= Outs(booked)
        BY <1>1, BookFacts DEF r
      <4>3. q <= Got(stock) - Still(stock)
        BY <1>1, <4>1, <4>2
      <4> QED BY <1>1, <4>1, <4>3, RefilledFacts
    <3>2. CASE r.kind \notin {"sale", "waste"}
      <4>1. new = stock /\ Out(r) = 0
        BY <1>6, <3>2 DEF Voice!RolledBack, Out, r
      <4> QED BY <1>1, <4>1 DEF Alike
    <3> QED BY <3>1, <3>2
  <2>3. Lots(new) /\ Got(new) = Got(stock) /\ \A k : From(new, k) = From(stock, k)
    BY <2>2, AlikeFacts DEF Alike
  <2>4. \A k \in Voice!Log : From(new, k) = In(bk[k])
    BY <1>1, <1>4, <2>1, <2>3 DEF r
  <2> HIDE DEF new, q
  <2>5. Got(new) = Ins(bk) + (torn + Voice!TornBy(l)) /\ Got(new) - Still(new) = Outs(bk) + w
        /\ torn + Voice!TornBy(l) \in Int
    BY <1>1, <1>2, <2>1, <2>2, <2>3
  <2> QED BY <1>1, <1>2, <1>3, <2>3, <2>4, <2>5 DEF Accounts, new
<1> QED BY <1>5, <1>6

(* A row of the ledger booked, with what it does to the lots.              *)
BookedAs(new, bk, l, kind, q, d) == new = [bk EXCEPT ![l] = [qty |-> q, kind |-> kind, day |-> d]]

LEMMA BookKeeps ==
  ASSUME NEW bs, NEW bk, NEW w, NEW t, Accounts(bs, bk, w, t), NEW l \in Voice!Log,
         bk[l].kind = "none", NEW kind \in {"purchase", "sale", "waste"}, NEW q \in Nat,
         ~Voice!Short(bs, kind, q), NEW d \in Int, NEW new, BookedAs(new, bk, l, kind, q, d)
  PROVE  Accounts(Voice!Booked(bs, l, kind, q), new, w, t)
<1> DEFINE lots == Voice!Booked(bs, l, kind, q)
<1>0. PICK r \in BookRow : r = [qty |-> q, kind |-> kind, day |-> d]
  BY DEF BookRow
<1>1. /\ Lots(bs) /\ bk \in [Voice!Log -> BookRow] /\ w \in Nat /\ t \in Int
      /\ Got(bs) \in Nat /\ Still(bs) \in Nat /\ Ins(bk) \in Nat /\ Outs(bk) \in Nat
      /\ Got(bs) = Ins(bk) + t /\ Got(bs) - Still(bs) = Outs(bk) + w
      /\ \A k \in Voice!Log : From(bs, k) = In(bk[k])
      /\ \A k \in Voice!Log : bk[k].kind = "none" => bk[k].qty = 0
      /\ In(bk[l]) = 0 /\ Out(bk[l]) = 0
  BY LotsOf DEF In, Out
<1>a. Rewritten(new, bk, l, r)
  BY <1>0 DEF Rewritten, BookedAs
<1>2. /\ new \in [Voice!Log -> BookRow]
      /\ new[l] = r /\ \A k \in Voice!Log \ {l} : new[k] = bk[k]
      /\ Ins(new) = Ins(bk) + In(r) - In(bk[l]) /\ Outs(new) = Outs(bk) + Out(r) - Out(bk[l])
  BY <1>1, <1>a, BookUpdate
<1>3. r.kind = kind /\ r.qty = q
  BY <1>0
<1>4. \A k \in Voice!Log : new[k].kind = "none" => new[k].qty = 0
  BY <1>1, <1>2, <1>3
<1>5. CASE kind = "purchase"
  <2>1. In(r) = q /\ Out(r) = 0 /\ In(new[l]) = q /\ \A k \in Voice!Log \ {l} : In(new[k]) = In(bk[k])
    BY <1>2, <1>3, <1>5 DEF In, Out
  <2>2. Added(lots, bs, l, q)
    BY <1>5 DEF Voice!Booked, Added
  <2>3. l \in Nat /\ \A k \in Voice!Log \ {l} : k \in Nat \ {l}
    BY LogsFinite
  <2> HIDE DEF lots
  <2>4. /\ Lots(lots) /\ Got(lots) = Got(bs) + q /\ Still(lots) = Still(bs) + q
        /\ From(lots, l) = From(bs, l) + q
        /\ \A k \in Nat \ {l} : From(lots, k) = From(bs, k)
    BY <1>1, <2>2, <2>3, AppendFacts
  <2>5. \A k \in Voice!Log : From(lots, k) = In(new[k])
    BY <1>1, <2>1, <2>3, <2>4
  <2>6. Got(lots) = Ins(new) + t /\ Got(lots) - Still(lots) = Outs(new) + w
    BY <1>1, <1>2, <2>1, <2>4
  <2> QED BY <1>1, <1>2, <1>4, <2>4, <2>5, <2>6 DEF Accounts, lots
<1>6. CASE kind \in {"sale", "waste"}
  <2>1. In(r) = 0 /\ Out(r) = q /\ In(new[l]) = 0 /\ \A k \in Voice!Log \ {l} : In(new[k]) = In(bk[k])
    BY <1>2, <1>3, <1>6 DEF In, Out
  <2>2. lots = Voice!Drawn(bs, q) /\ q <= Still(bs)
    BY <1>1, <1>6, VoiceLeft DEF Voice!Booked, Voice!Short
  <2> HIDE DEF lots
  <2>3. Alike(bs, lots) /\ Still(lots) = Still(bs) - q
    BY <1>1, <2>2, DrawnFacts
  <2>4. Lots(lots) /\ Got(lots) = Got(bs) /\ \A k : From(lots, k) = From(bs, k)
    BY <2>3, AlikeFacts DEF Alike
  <2>5. \A k \in Voice!Log : From(lots, k) = In(new[k])
    BY <1>1, <2>1, <2>4
  <2>6. Got(lots) = Ins(new) + t /\ Got(lots) - Still(lots) = Outs(new) + w
    BY <1>1, <1>2, <2>1, <2>3, <2>4
  <2> QED BY <1>1, <1>2, <1>4, <2>4, <2>5, <2>6 DEF Accounts, lots
<1> QED BY <1>5, <1>6

Terms == {"cash", "credit", "repay"}

LogRow == [status : {"none", "pending", "parsed", "confirmed", "voided", "deleted", "lost"},
           kind : {"none", "purchase", "sale", "waste", "expense"}, qty : Nat,
           terms : Terms, made : Int, edits : Int]

(* What a log has booked stands.                                           *)
Stands(e) == e.status \in {"confirmed", "lost"}

(* Logs are given out in order.                                            *)
InOrder(ls) ==
  \A l, m \in Voice!Log : l < m /\ ls[m].status # "none" => ls[l].status # "none"

(* A row r of the ledger, a debt n and an expense (is there one?) that a   *)
(* log e accounts for.                                                     *)
Follows(e, r, n, expense) ==
  /\ r.kind = (IF Stands(e) /\ e.kind # "expense" THEN e.kind ELSE "none")
  /\ Stands(e) => r.qty = (IF e.kind = "expense" THEN 0 ELSE e.qty)
  /\ n = (IF Stands(e) THEN Voice!Debt(e.kind, e.terms, e.qty) ELSE 0)
  /\ expense <=> Stands(e) /\ e.kind = "expense"

VoiceInv ==
  /\ logs \in [Voice!Log -> LogRow] /\ InOrder(logs)
  /\ net \in [Voice!Log -> Int] /\ expenses \subseteq Voice!Log
  /\ wasted \in [ByHand -> Nat] /\ today \in Int
  /\ Accounts(stock, booked, SumOf(wasted), torn)
  /\ \A l \in Voice!Log : booked[l].kind = "none" => booked[l] = Voice!NoRow
  /\ \A l \in Voice!Log : Follows(logs[l], booked[l], net[l], l \in expenses)

LEMMA BooksAre ==
  Voice!BooksFollowLogs <=>
    \A l \in Voice!Log : Follows(logs[l], booked[l], net[l], l \in expenses)
  BY Zenon DEF Voice!BooksFollowLogs, Follows, Stands

LEMMA DebtIs ==
  /\ \A kind, terms : \A q \in Nat : Voice!Debt(kind, terms, q) \in Int
  /\ \A kind, terms, q : kind \notin {"purchase", "sale", "waste"} => Voice!Debt(kind, terms, q) = 0
  BY DEF Voice!Debt

LEMMA VoiceGives == VoiceInv => VoiceBooks
<1> SUFFICES ASSUME VoiceInv PROVE VoiceBooks
  OBVIOUS
<1>1. Voice!BooksFollowLogs
  BY BooksAre DEF VoiceInv
<1> DEFINE S == Voice!Log
           f == [l \in S |-> In(booked[l])]
           g == [l \in S |-> Out(booked[l])]
           h == [l \in S |-> Voice!Signed(booked[l])]
<1>2. /\ booked \in [S -> BookRow] /\ SumOf(wasted) \in Nat /\ torn \in Int
      /\ Got(stock) \in Nat /\ Still(stock) \in Nat
      /\ Got(stock) = Ins(booked) + torn /\ Got(stock) - Still(stock) = Outs(booked) + SumOf(wasted)
  BY LotsOf DEF VoiceInv
<1>3. f \in [S -> Int] /\ g \in [S -> Int] /\ Ins(booked) \in Int /\ Outs(booked) \in Int
  BY <1>2, BookFacts
<1>4. \A l \in S : Voice!Signed(booked[l]) = In(booked[l]) - Out(booked[l])
  <2>1. \A l \in S : booked[l].kind = "none" => booked[l].qty = 0
    BY LotsOf DEF VoiceInv
  <2> QED BY <1>2, <2>1 DEF BookRow, Voice!Signed, In, Out
<1>5. h \in [S -> Int] /\ \A l \in S : h[l] = f[l] - g[l]
  BY <1>3, <1>4
<1>6. SumOf(h) = Ins(booked) - Outs(booked)
  <2>a. h \in [S -> Int]
    BY <1>5
  <2>b. \A l \in S : h[l] = f[l] - g[l]
    BY <1>5
  <2>c. f \in [S -> Int] /\ g \in [S -> Int] /\ IsFiniteSet(S)
    BY <1>3, LogsFinite
  <2> HIDE DEF f, g, h, S
  <2>1. SumOf(h) = SumOf(f) - SumOf(g)
    BY ONLY <2>a, <2>b, <2>c, SumMinus
  <2> QED BY <2>1 DEF f, g, S, Ins, Outs
<1>7. Voice!Stock = Still(stock) /\ Voice!Book = SumOf(h) - SumOf(wasted)
  BY VoiceLeft, VoiceSums DEF Voice!Stock, Voice!Book
<1>8. Voice!Stock = Voice!Book + torn
  <2> HIDE DEF h
  <2> QED BY <1>2, <1>3, <1>6, <1>7
<1> QED BY <1>1, <1>8 DEF VoiceBooks, Voice!StockFollowsLedger

LEMMA VoiceInit == Voice!Init => VoiceInv
<1> SUFFICES ASSUME Voice!Init PROVE VoiceInv
  OBVIOUS
<1>1. /\ logs = [l \in Voice!Log |-> Voice!Fresh] /\ booked = [l \in Voice!Log |-> Voice!NoRow]
      /\ stock = <<>> /\ net = [l \in Voice!Log |-> 0] /\ expenses = {}
      /\ wasted = [k \in ByHand |-> 0]
      /\ today = 1 /\ torn = 0
  BY DEF Voice!Init
<1>2. Voice!Fresh \in LogRow /\ Voice!Fresh.status = "none" /\ Voice!Fresh.kind = "none"
  BY DEF Voice!Fresh, LogRow, Terms
<1>3. /\ logs \in [Voice!Log -> LogRow] /\ InOrder(logs)
      /\ net \in [Voice!Log -> Int] /\ expenses \subseteq Voice!Log
      /\ wasted \in [ByHand -> Nat] /\ today \in Int
  BY <1>1, <1>2 DEF InOrder
<1>4. \A l \in Voice!Log : logs[l] = Voice!Fresh /\ booked[l] = Voice!NoRow /\ net[l] = 0
  BY <1>1
<1>5. \A l \in Voice!Log : Follows(logs[l], booked[l], net[l], l \in expenses)
  BY <1>1, <1>2, <1>4, NoRowIs DEF Follows, Stands
<1>6. SumOf(wasted) = 0
  <2>1. wasted \in [ByHand -> Int] /\ \A k \in ByHand : wasted[k] = 0
    BY <1>1
  <2> QED BY <2>1, VoiceConstants, SumZero
<1>7. Accounts(stock, booked, SumOf(wasted), torn)
  <2>1. Lots(stock) /\ Len(stock) = 0 /\ DOMAIN stock = {}
    BY <1>1 DEF Lots
  <2>2. Got(stock) = 0 /\ Still(stock) = 0 /\ \A l : From(stock, l) = 0
    <3>1. /\ Purchased(stock) \in [{} -> Int] /\ Amounts(stock) \in [{} -> Int]
          /\ \A l : Share(stock, l) \in [{} -> Int]
      BY <2>1, LotFacts
    <3> QED BY <3>1, SumEmpty DEF Got, Still, From
  <2>3. booked \in [Voice!Log -> BookRow]
    BY <1>1, NoRowIs
  <2>4. Ins(booked) = 0 /\ Outs(booked) = 0
    <3> DEFINE f == [l \in Voice!Log |-> In(booked[l])]
               g == [l \in Voice!Log |-> Out(booked[l])]
    <3>1. /\ f \in [Voice!Log -> Int] /\ g \in [Voice!Log -> Int]
          /\ (\A l \in Voice!Log : f[l] = 0) /\ \A l \in Voice!Log : g[l] = 0
      BY <1>4, NoRowIs
    <3> HIDE DEF f, g
    <3>2. SumOf(f) = 0 /\ SumOf(g) = 0
      BY <3>1, LogsFinite, SumZero
    <3> QED BY <3>2 DEF f, g, Ins, Outs
  <2> QED BY <1>1, <1>4, <1>6, <2>1, <2>2, <2>3, <2>4, NoRowIs DEF Accounts
<1> QED BY <1>3, <1>4, <1>5, <1>7 DEF VoiceInv

(* What is left of a draft that was swept away.                            *)
LEMMA DroppedIs ==
  /\ [Voice!Fresh EXCEPT !.status = "deleted"] \in LogRow
  /\ [Voice!Fresh EXCEPT !.status = "deleted"].status = "deleted"
<1>0. Voice!Fresh \in LogRow
  BY DEF Voice!Fresh, LogRow, Terms
<1>1. PICK f \in LogRow : f = Voice!Fresh
  BY <1>0
<1>2. [f EXCEPT !.status = "deleted"] \in LogRow /\ [f EXCEPT !.status = "deleted"].status = "deleted"
  BY DEF LogRow
<1> QED BY <1>1, <1>2

(* A log of which nothing stands leaves nothing.                           *)
LEMMA FollowsKept ==
  ASSUME NEW e, NEW f, NEW r, NEW n, NEW l, NEW S, Follows(e, r, n, l \in S),
         ~Stands(e), ~Stands(f)
  PROVE  Follows(f, r, n, l \in S)
  BY DEF Follows

BooksSame == UNCHANGED <<booked, stock, net, expenses, wasted, torn>>

LEMMA BooksSameKeeps ==
  ASSUME VoiceInv, BooksSame, logs' \in [Voice!Log -> LogRow], InOrder(logs'), today' \in Int,
         \A l \in Voice!Log : \/ logs'[l] = logs[l]
                              \/ ~Stands(logs[l]) /\ ~Stands(logs'[l])
  PROVE  VoiceInv'
<1>1. UNCHANGED <<booked, stock, net, expenses, wasted, torn>>
  BY DEF BooksSame
<1>2. Accounts(stock, booked, SumOf(wasted), torn)'
  BY <1>1 DEF VoiceInv, Accounts, Voice!Log
<1>3. ASSUME NEW l \in Voice!Log PROVE Follows(logs'[l], booked[l], net[l], l \in expenses)
  <2>1. Follows(logs[l], booked[l], net[l], l \in expenses)
    BY DEF VoiceInv
  <2> QED BY <2>1, FollowsKept, Zenon
<1>4. \A l \in Voice!Log : Follows(logs'[l], booked'[l], net'[l], l \in expenses')
  BY <1>1, <1>3
<1>5. InOrder(logs)'
  BY DEF InOrder, Voice!Log
<1> QED BY <1>1, <1>2, <1>4, <1>5 DEF VoiceInv, Voice!Log

Heard == [kind : {"purchase", "sale", "waste", "expense"}, qty : Nat,
          terms : Terms]

LEMMA HearKeeps ==
  ASSUME VoiceInv, NEW events, Len(events) \in Nat,
         \A n \in 1 .. Len(events) : events[n] \in Heard, Voice!Hear(events)
  PROVE  VoiceInv'
<1> DEFINE D == {l \in Voice!Log : logs[l].status # "none"}
           used == Cardinality(D)
           n == IF Len(events) = 0 THEN 1 ELSE Len(events)
           draft(l) == [status |-> IF events = <<>> THEN "pending" ELSE "parsed",
                        kind |-> IF events = <<>> THEN "none" ELSE events[l - used].kind,
                        qty |-> IF events = <<>> THEN 0 ELSE events[l - used].qty,
                        terms |-> IF events = <<>> THEN "cash" ELSE events[l - used].terms,
                        made |-> today, edits |-> 0]
           ls == [l \in Voice!Log |-> IF l \in used + 1 .. used + n THEN draft(l) ELSE logs[l]]
<1>1. logs \in [Voice!Log -> LogRow] /\ InOrder(logs) /\ today \in Int
  BY DEF VoiceInv
<1>2. Voice!Cardinality(D) = used
  BY DEF Voice!Cardinality, Cardinality
<1>3. logs' = ls /\ BooksSame /\ today' = today
  BY <1>2, Zenon DEF Voice!Hear, Voice!books, Voice!clock, BooksSame
<1>4. IsFiniteSet(D) /\ used \in Nat
  <2>1. D \in SUBSET Voice!Log
    OBVIOUS
  <2>2. IsFiniteSet(D)
    BY <2>1, LogsFinite, FS_Subset
  <2> QED BY <2>2, FS_CardinalityType
<1> HIDE DEF used
<1>5. \A l \in D : l <= used
  <2> SUFFICES ASSUME NEW l \in D PROVE l <= used
    OBVIOUS
  <2>1. l \in Nat /\ l \in 1 .. NumLogs /\ NumLogs \in Nat
    BY VoiceConstants DEF Voice!Log
  <2>2. (1 .. l) \in SUBSET D
    BY <1>1, <2>1 DEF InOrder, Voice!Log
  <2>3. Cardinality(1 .. l) = l
    BY <2>1, FS_Interval
  <2>4. Cardinality(1 .. l) <= Cardinality(D)
    BY <1>4, <2>2, FS_Subset
  <2> QED BY <2>3, <2>4 DEF used
<1>6. \A l \in Voice!Log : l <= used => l \in D
  <2>1. D \in SUBSET (1 .. used)
    <3> SUFFICES ASSUME NEW l \in D PROVE l \in 1 .. used
      OBVIOUS
    <3>1. l \in Nat \ {0} /\ l <= used
      BY <1>5, LogsFinite
    <3> QED BY <1>4, <3>1
  <2>2. IsFiniteSet(1 .. used) /\ Cardinality(1 .. used) = used
    BY <1>4, FS_Interval
  <2>3. D = 1 .. used
    <3> DEFINE U == 1 .. used
    <3>1. IsFiniteSet(U) /\ D \in SUBSET U /\ Cardinality(U) = Cardinality(D)
      BY <2>1, <2>2 DEF used
    <3> HIDE DEF U, D
    <3>2. U = D
      BY ONLY <3>1, FS_Subset
    <3> QED BY <3>2 DEF U
  <2> SUFFICES ASSUME NEW l \in Voice!Log, l <= used PROVE l \in 1 .. used
    BY <2>3
  <2>4. l \in Nat \ {0}
    BY LogsFinite
  <2> QED BY <1>4, <2>4
<1>7. ASSUME NEW l \in Voice!Log, l \in used + 1 .. used + n
      PROVE  draft(l) \in LogRow /\ draft(l).status \in {"pending", "parsed"}
             /\ logs[l].status = "none"
  <2>1. logs[l].status = "none"
    BY <1>4, <1>5, <1>7, LogsFinite
  <2>2. CASE events = <<>>
    <3>1. draft(l) = [status |-> "pending", kind |-> "none", qty |-> 0, terms |-> "cash",
                      made |-> today, edits |-> 0]
      BY <2>2
    <3> HIDE DEF draft
    <3> QED BY <1>1, <2>1, <3>1 DEF LogRow, Terms
  <2>3. CASE events # <<>>
    <3>1. Len(events) # 0
      BY <1>4, <1>7, <2>3
    <3>2. l - used \in 1 .. Len(events)
      BY <1>4, <1>7, <3>1, LogsFinite
    <3>3. PICK e \in Heard : e = events[l - used]
      BY <3>2
    <3>4. /\ e.kind \in {"purchase", "sale", "waste", "expense"} /\ e.qty \in Nat
          /\ e.terms \in Terms
      BY DEF Heard
    <3>5. draft(l) = [status |-> "parsed", kind |-> e.kind, qty |-> e.qty, terms |-> e.terms,
                      made |-> today, edits |-> 0]
      BY <2>3, <3>3, <3>4
    <3> HIDE DEF draft
    <3> QED BY <1>1, <2>1, <3>4, <3>5 DEF LogRow
  <2> QED BY <2>2, <2>3
<1> HIDE DEF draft
<1>8. /\ ls \in [Voice!Log -> LogRow]
      /\ \A l \in Voice!Log :
           IF l \in used + 1 .. used + n
           THEN ls[l].status \in {"pending", "parsed"} /\ logs[l].status = "none"
           ELSE ls[l] = logs[l]
  BY <1>1, <1>7
<1>9. InOrder(ls)
  <2> SUFFICES ASSUME NEW l \in Voice!Log, NEW m \in Voice!Log, l < m, ls[m].status # "none"
               PROVE  ls[l].status # "none"
    BY DEF InOrder
  <2>1. l \in Nat \ {0} /\ m \in Nat \ {0} /\ n \in Nat
    BY LogsFinite
  <2>2. CASE m \in used + 1 .. used + n
    BY <1>4, <1>6, <1>8, <2>1, <2>2
  <2>3. CASE m \notin used + 1 .. used + n
    BY <1>1, <1>8, <2>1, <2>3 DEF InOrder
  <2> QED BY <2>2, <2>3
<1> HIDE DEF ls, n
<1>10. \A l \in Voice!Log : \/ ls[l] = logs[l]
                            \/ ~Stands(logs[l]) /\ ~Stands(ls[l])
  <2>1. \A l \in Voice!Log : \/ ls[l] = logs[l]
                             \/ ls[l].status \in {"pending", "parsed"} /\ logs[l].status = "none"
    BY <1>8, Zenon
  <2> QED BY <2>1 DEF Stands
<1> QED BY <1>1, <1>3, <1>8, <1>9, <1>10, BooksSameKeeps

LEMMA CorrectKeeps ==
  ASSUME VoiceInv, NEW l \in Voice!Log, NEW e \in Heard, Voice!Correct(l, e)
  PROVE  VoiceInv'
<1>1. logs \in [Voice!Log -> LogRow] /\ InOrder(logs) /\ today \in Int
  BY DEF VoiceInv
<1>2. PICK d \in LogRow : d = logs[l]
  BY <1>1
<1> DEFINE f == IF d.kind = "none" THEN [d EXCEPT !.status = "parsed"]
                ELSE [d EXCEPT !.status = "parsed", !.kind = e.kind, !.qty = e.qty, !.terms = e.terms]
<1>3. /\ d.status \in {"pending", "parsed"}
      /\ logs' = [logs EXCEPT ![l] = f]
      /\ BooksSame /\ today' = today
  BY <1>2 DEF Voice!Correct, Voice!books, Voice!clock, BooksSame
<1>4. f \in LogRow /\ f.status = "parsed"
  <2>1. CASE d.kind = "none"
    BY <2>1 DEF LogRow
  <2>2. CASE d.kind # "none"
    BY <2>2 DEF LogRow, Heard
  <2> QED BY <2>1, <2>2
<1> HIDE DEF f
<1>5. /\ logs' \in [Voice!Log -> LogRow] /\ logs'[l] = f
      /\ \A k \in Voice!Log \ {l} : logs'[k] = logs[k]
  BY <1>1, <1>3, <1>4
<1>6. InOrder(logs')
  BY <1>1, <1>2, <1>3, <1>4, <1>5 DEF InOrder
<1>7. ~Stands(logs[l]) /\ ~Stands(logs'[l])
  BY <1>2, <1>3, <1>4, <1>5 DEF Stands
<1>8. ASSUME NEW k \in Voice!Log
      PROVE  logs'[k] = logs[k] \/ (~Stands(logs[k]) /\ ~Stands(logs'[k]))
  <2>1. CASE k = l
    BY <1>7, <2>1, Zenon
  <2>2. CASE k # l
    BY <1>5, <2>2
  <2> QED BY <2>1, <2>2
<1> QED BY <1>1, <1>3, <1>5, <1>6, <1>8, BooksSameKeeps

(* One log and what it accounts for are rewritten.                         *)
LEMMA OneLogKeeps ==
  ASSUME VoiceInv, NEW l \in Voice!Log, logs' \in [Voice!Log -> LogRow],
         \A k \in Voice!Log \ {l} : logs'[k] = logs[k],
         logs[l].status # "none", logs'[l].status # "none",
         \A k \in Voice!Log \ {l} : booked'[k] = booked[k] /\ net'[k] = net[k]
                                   /\ (k \in expenses' <=> k \in expenses),
         net' \in [Voice!Log -> Int], expenses' \subseteq Voice!Log,
         booked'[l].kind = "none" => booked'[l] = Voice!NoRow,
         Follows(logs'[l], booked'[l], net'[l], l \in expenses'),
         wasted' = wasted, today' = today,
         Accounts(stock', booked', SumOf(wasted), torn')
  PROVE  VoiceInv'
<1>1. logs \in [Voice!Log -> LogRow] /\ InOrder(logs)
  BY DEF VoiceInv
<1>3. InOrder(logs')
  BY <1>1 DEF InOrder
<1>4. ASSUME NEW k \in Voice!Log \ {l}
      PROVE  Follows(logs'[k], booked'[k], net'[k], k \in expenses')
  <2>1. Follows(logs[k], booked[k], net[k], k \in expenses)
    BY DEF VoiceInv
  <2>2. /\ booked'[k] = booked[k] /\ net'[k] = net[k] /\ (k \in expenses' <=> k \in expenses)
        /\ logs'[k] = logs[k]
    BY Zenon
  <2> QED BY <2>1, <2>2 DEF Follows
<1>5. \A k \in Voice!Log : Follows(logs'[k], booked'[k], net'[k], k \in expenses')
  BY <1>4
<1>6. ASSUME NEW k \in Voice!Log, booked'[k].kind = "none" PROVE booked'[k] = Voice!NoRow
  <2>1. CASE k = l
    BY <1>6, <2>1
  <2>2. CASE k # l
    <3>1. booked'[k] = booked[k]
      BY <2>2, Zenon
    <3> QED BY <1>6, <3>1 DEF VoiceInv
  <2> QED BY <2>1, <2>2
<1>7. Accounts(stock, booked, SumOf(wasted), torn)'
  BY DEF Accounts, Voice!Log
<1>8. InOrder(logs)'
  BY <1>3 DEF InOrder, Voice!Log
<1>9. /\ net' \in [Voice!Log -> Int] /\ expenses' \subseteq Voice!Log
      /\ wasted' \in [ByHand -> Nat] /\ today' \in Int
  BY DEF VoiceInv
<1> QED BY <1>3, <1>5, <1>6, <1>7, <1>8, <1>9 DEF VoiceInv, Voice!Log, Voice!NoRow

LEMMA StatusIs ==
  ASSUME NEW e \in LogRow, NEW x \in {"confirmed", "voided", "lost"}
  PROVE  \E f \in LogRow : /\ f = [e EXCEPT !.status = x]
                           /\ f.status = x /\ f.kind = e.kind /\ f.terms = e.terms /\ f.qty = e.qty
<1>1. [e EXCEPT !.status = x] \in LogRow
  BY DEF LogRow
<1>2. PICK f \in LogRow : f = [e EXCEPT !.status = x]
  BY <1>1
<1>3. f.status = x /\ f.kind = e.kind /\ f.terms = e.terms /\ f.qty = e.qty
  BY <1>2 DEF LogRow
<1> QED BY <1>2, <1>3

(* What the state says of one log.                                         *)
LEMMA LogFacts ==
  ASSUME VoiceInv, NEW l \in Voice!Log
  PROVE  /\ logs[l] \in LogRow /\ logs[l].qty \in Nat /\ booked[l] \in BookRow
         /\ net[l] \in Int /\ (booked[l].kind = "none" => booked[l] = Voice!NoRow)
         /\ Follows(logs[l], booked[l], net[l], l \in expenses)
<1>1. /\ logs[l] \in LogRow /\ booked[l] \in BookRow /\ net[l] \in Int
      /\ (booked[l].kind = "none" => booked[l] = Voice!NoRow)
  BY LotsOf DEF VoiceInv
<1>2. logs[l].qty \in Nat
  BY <1>1 DEF LogRow
<1> QED BY <1>1, <1>2 DEF VoiceInv

LEMMA WastedIs == VoiceInv => SumOf(wasted) \in Nat /\ torn \in Int
  BY LotsOf DEF VoiceInv

LEMMA ConfirmStockKeeps ==
  ASSUME VoiceInv, NEW l \in Voice!Log, Voice!ConfirmStock(l)
  PROVE  VoiceInv'
<1> DEFINE e == logs[l]
           row == [qty |-> e.qty, kind |-> e.kind, day |-> today]
<1>1. /\ e.status = "parsed" /\ e.kind \in {"purchase", "sale", "waste"}
      /\ ~Voice!Short(stock, e.kind, e.qty)
      /\ booked' = [booked EXCEPT ![l] = row]
      /\ stock' = Voice!Booked(stock, l, e.kind, e.qty)
      /\ net' = [net EXCEPT ![l] = net[l] + Voice!Debt(e.kind, e.terms, e.qty)]
      /\ logs' = [logs EXCEPT ![l].status = "confirmed"]
      /\ expenses' = expenses /\ wasted' = wasted /\ today' = today /\ torn' = torn
  BY DEF Voice!ConfirmStock, Voice!Confirmed, Voice!clock
<1>2. /\ logs \in [Voice!Log -> LogRow] /\ net \in [Voice!Log -> Int] /\ today \in Int
      /\ Accounts(stock, booked, SumOf(wasted), torn) /\ expenses \subseteq Voice!Log
  BY DEF VoiceInv
<1>3. /\ e \in LogRow /\ e.qty \in Nat /\ net[l] \in Int /\ booked[l] \in BookRow
      /\ Follows(e, booked[l], net[l], l \in expenses)
  BY LogFacts
<1>4. PICK f \in LogRow : /\ f = [e EXCEPT !.status = "confirmed"]
                         /\ f.status = "confirmed" /\ f.kind = e.kind /\ f.terms = e.terms
                         /\ f.qty = e.qty
  BY <1>3, StatusIs
<1> HIDE DEF e
<1>5. /\ logs' \in [Voice!Log -> LogRow] /\ logs'[l] = f
      /\ \A k \in Voice!Log \ {l} : logs'[k] = logs[k]
  BY <1>1, <1>2, <1>4 DEF e
<1>8. booked[l].kind = "none" /\ net[l] = 0 /\ ~(l \in expenses)
  BY <1>1, <1>3, Zenon DEF Follows, Stands
<1>9. Accounts(stock', booked', SumOf(wasted), torn')
  <2>1. BookedAs(booked', booked, l, e.kind, e.qty, today)
    BY <1>1 DEF BookedAs
  <2> QED BY <1>1, <1>2, <1>3, <1>8, <2>1, BookKeeps
<1>10. PICK n \in Int : n = Voice!Debt(e.kind, e.terms, e.qty)
  BY <1>3, DebtIs
<1>11. /\ net' \in [Voice!Log -> Int] /\ net'[l] = n
       /\ \A k \in Voice!Log \ {l} : net'[k] = net[k]
  BY <1>1, <1>2, <1>8, <1>10
<1>12. /\ booked'[l] = row /\ \A k \in Voice!Log \ {l} : booked'[k] = booked[k]
       /\ row.kind = e.kind /\ row.qty = e.qty
  <2>1. booked \in [Voice!Log -> BookRow]
    BY <1>2, LotsOf
  <2> QED BY <1>1, <2>1
<1>13. booked'[l].kind = e.kind /\ booked'[l].qty = e.qty
  BY <1>12
<1> HIDE DEF row
<1>14. Follows(logs'[l], booked'[l], net'[l], l \in expenses')
  <2>1. e.kind # "expense" /\ ~(l \in expenses')
    BY <1>1, <1>8, Zenon
  <2> QED BY <1>4, <1>5, <1>10, <1>11, <1>13, <2>1, Zenon DEF Follows, Stands
<1>15. logs[l].status # "none" /\ logs'[l].status # "none" /\ booked'[l].kind # "none"
  BY <1>1, <1>4, <1>5, <1>13 DEF e
<1>16. \A k \in Voice!Log \ {l} : booked'[k] = booked[k] /\ net'[k] = net[k]
                                 /\ (k \in expenses' <=> k \in expenses)
  BY <1>1, <1>11, <1>12, Zenon
<1>17. expenses' \subseteq Voice!Log /\ wasted' = wasted /\ today' = today
  BY <1>1, <1>2
<1> QED BY <1>1, <1>5, <1>9, <1>11, <1>14, <1>15, <1>16, <1>17, OneLogKeeps

LEMMA ConfirmExpenseKeeps ==
  ASSUME VoiceInv, NEW l \in Voice!Log, Voice!ConfirmExpense(l)
  PROVE  VoiceInv'
<1> DEFINE e == logs[l]
<1>1. /\ e.status \in {"parsed", "voided"} /\ e.kind = "expense"
      /\ expenses' = expenses \cup {l}
      /\ logs' = [logs EXCEPT ![l].status = "confirmed"]
      /\ booked' = booked /\ stock' = stock /\ net' = net
      /\ wasted' = wasted /\ today' = today /\ torn' = torn
  BY DEF Voice!ConfirmExpense, Voice!Confirmed, Voice!clock
<1>2. /\ logs \in [Voice!Log -> LogRow] /\ net \in [Voice!Log -> Int]
      /\ Accounts(stock, booked, SumOf(wasted), torn) /\ expenses \subseteq Voice!Log
  BY DEF VoiceInv
<1>3. /\ e \in LogRow /\ (booked[l].kind = "none" => booked[l] = Voice!NoRow)
      /\ Follows(e, booked[l], net[l], l \in expenses)
  BY LogFacts
<1>4. PICK f \in LogRow : /\ f = [e EXCEPT !.status = "confirmed"]
                         /\ f.status = "confirmed" /\ f.kind = e.kind /\ f.terms = e.terms
                         /\ f.qty = e.qty
  BY <1>3, StatusIs
<1> HIDE DEF e
<1>5. /\ logs' \in [Voice!Log -> LogRow] /\ logs'[l] = f
      /\ \A k \in Voice!Log \ {l} : logs'[k] = logs[k]
  BY <1>1, <1>2, <1>4 DEF e
<1>8. booked[l].kind = "none" /\ net[l] = 0 /\ booked[l].qty = 0
  <2>1. booked[l].kind = "none" /\ net[l] = 0
    BY <1>1, <1>3, Zenon DEF Follows, Stands
  <2> QED BY <1>3, <2>1, NoRowIs
<1>9. Voice!Debt(f.kind, f.terms, f.qty) = 0
  BY <1>1, <1>4, DebtIs
<1>10. Follows(logs'[l], booked'[l], net'[l], l \in expenses')
  <2>1. l \in expenses' /\ f.kind = "expense"
    BY <1>1, <1>4, Zenon
  <2>2. Follows(f, booked[l], net[l], l \in expenses')
    BY <1>4, <1>8, <1>9, <2>1, Zenon DEF Follows, Stands
  <2> QED BY <1>1, <1>5, <2>2, Zenon
<1>11. logs[l].status # "none" /\ logs'[l].status # "none"
  BY <1>1, <1>4, <1>5 DEF e
<1>12. \A k \in Voice!Log \ {l} : booked'[k] = booked[k] /\ net'[k] = net[k]
                                 /\ (k \in expenses' <=> k \in expenses)
  BY <1>1, Zenon
<1>13. /\ net' \in [Voice!Log -> Int] /\ expenses' \subseteq Voice!Log
       /\ Accounts(stock', booked', SumOf(wasted), torn')
       /\ booked'[l].kind = "none" => booked'[l] = Voice!NoRow
  BY <1>1, <1>2, <1>3
<1>14. wasted' = wasted /\ today' = today
  BY <1>1
<1> QED BY <1>1, <1>5, <1>10, <1>11, <1>12, <1>13, <1>14, OneLogKeeps

LEMMA TakeBackKeeps ==
  ASSUME VoiceInv, NEW l \in Voice!Log, Voice!TakeBack(l)
  PROVE  VoiceInv'
<1> DEFINE e == logs[l]
<1>1. /\ e.status = "confirmed" /\ logs' = [logs EXCEPT ![l].status = "voided"]
      /\ wasted' = wasted /\ today' = today
  BY DEF Voice!TakeBack, Voice!clock
<1>2. /\ logs \in [Voice!Log -> LogRow] /\ net \in [Voice!Log -> Int]
      /\ Accounts(stock, booked, SumOf(wasted), torn) /\ expenses \subseteq Voice!Log
  BY DEF VoiceInv
<1>3. /\ e \in LogRow /\ net[l] \in Int /\ (booked[l].kind = "none" => booked[l] = Voice!NoRow)
      /\ Follows(e, booked[l], net[l], l \in expenses)
  BY LogFacts
<1>4. PICK f \in LogRow : /\ f = [e EXCEPT !.status = "voided"]
                         /\ f.status = "voided" /\ f.kind = e.kind /\ f.terms = e.terms
                         /\ f.qty = e.qty
  BY <1>3, StatusIs
<1> HIDE DEF e
<1>5. /\ logs' \in [Voice!Log -> LogRow] /\ logs'[l] = f
      /\ \A k \in Voice!Log \ {l} : logs'[k] = logs[k]
  BY <1>1, <1>2, <1>4 DEF e
<1>7. CASE booked[l] = Voice!NoRow
  <2>1. expenses' = expenses \ {l} /\ booked' = booked /\ stock' = stock /\ net' = net /\ torn' = torn
    BY <1>7 DEF Voice!TakeBack
  <2>2. booked[l].kind = "none"
    BY <1>7, NoRowIs
  <2>3. net[l] = 0
    <3>1. e.kind \notin {"purchase", "sale", "waste"}
      BY <1>1, <1>3, <2>2 DEF Follows, Stands
    <3> QED BY <1>1, <1>3, <3>1, DebtIs DEF Follows, Stands
  <2>4. Follows(logs'[l], booked'[l], net'[l], l \in expenses')
    <3>1. ~(l \in expenses') /\ ~Stands(f)
      BY <1>4, <2>1 DEF Stands
    <3>2. Follows(f, booked[l], net[l], l \in expenses')
      BY <2>2, <2>3, <3>1, Zenon DEF Follows
    <3> QED BY <1>5, <2>1, <3>2, Zenon
  <2>5. \A k \in Voice!Log \ {l} : booked'[k] = booked[k] /\ net'[k] = net[k]
                                  /\ (k \in expenses' <=> k \in expenses)
    BY <2>1, Zenon
  <2>6. /\ net' \in [Voice!Log -> Int] /\ expenses' \subseteq Voice!Log
        /\ Accounts(stock', booked', SumOf(wasted), torn')
        /\ booked'[l].kind = "none" => booked'[l] = Voice!NoRow
    BY <1>2, <1>3, <2>1
  <2>7. logs[l].status # "none" /\ logs'[l].status # "none"
    BY <1>1, <1>4, <1>5 DEF e
  <2> QED BY <1>1, <1>5, <2>4, <2>5, <2>6, <2>7, OneLogKeeps
<1>8. CASE booked[l] # Voice!NoRow
  <2>1. /\ stock' = Voice!RolledBack(l) /\ torn' = torn + Voice!TornBy(l)
        /\ booked' = [booked EXCEPT ![l] = Voice!NoRow]
        /\ net' = [net EXCEPT ![l] = net[l] + (0 - net[l])] /\ expenses' = expenses
    BY <1>8 DEF Voice!TakeBack, Voice!Align
  <2>2. SumOf(wasted) \in Nat
    BY WastedIs
  <2>3. Accounts(stock', booked', SumOf(wasted), torn')
    BY <1>2, <2>1, <2>2, BackKeeps
  <2>4. booked \in [Voice!Log -> BookRow]
    BY <1>2, LotsOf
  <2>5. /\ net' \in [Voice!Log -> Int] /\ net'[l] = 0
        /\ \A k \in Voice!Log \ {l} : net'[k] = net[k]
    BY <1>2, <1>3, <2>1
  <2>6. booked'[l] = Voice!NoRow /\ \A k \in Voice!Log \ {l} : booked'[k] = booked[k]
    BY <2>1, <2>4
  <2>7. ~(l \in expenses)
    <3>1. booked[l].kind # "none"
      BY <1>3, <1>8
    <3> QED BY <1>3, <3>1 DEF Follows
  <2>8. Follows(logs'[l], booked'[l], net'[l], l \in expenses')
    <3>1. ~(l \in expenses') /\ ~Stands(f) /\ booked'[l].kind = "none"
      BY <1>4, <2>1, <2>6, <2>7, NoRowIs DEF Stands
    <3>2. Follows(f, booked'[l], net'[l], l \in expenses')
      BY <2>5, <3>1, Zenon DEF Follows
    <3> QED BY <1>5, <3>2, Zenon
  <2>9. \A k \in Voice!Log \ {l} : booked'[k] = booked[k] /\ net'[k] = net[k]
                                  /\ (k \in expenses' <=> k \in expenses)
    BY <2>1, <2>5, <2>6, Zenon
  <2>10. /\ expenses' \subseteq Voice!Log
         /\ booked'[l].kind = "none" => booked'[l] = Voice!NoRow
    BY <1>2, <2>1, <2>6
  <2>11. logs[l].status # "none" /\ logs'[l].status # "none"
    BY <1>1, <1>4, <1>5 DEF e
  <2> QED BY <1>1, <1>5, <2>3, <2>5, <2>8, <2>9, <2>10, <2>11, OneLogKeeps
<1> QED BY <1>7, <1>8

LEMMA EditKeeps ==
  ASSUME VoiceInv, NEW l \in Voice!Log, NEW q \in Nat, Voice!Edit(l, q)
  PROVE  VoiceInv'
<1> DEFINE e == logs[l]
           kind == booked[l].kind
           back == Voice!RolledBack(l)
           row == [qty |-> q, kind |-> kind, day |-> today]
           debt == Voice!Debt(kind, e.terms, q)
<1>1. /\ e.status = "confirmed" /\ booked[l] # Voice!NoRow
      /\ ~Voice!Short(back, kind, q)
      /\ stock' = Voice!Booked(back, l, kind, q)
      /\ torn' = torn + Voice!TornBy(l)
      /\ booked' = [booked EXCEPT ![l] = row]
      /\ logs' = [logs EXCEPT ![l].qty = q, ![l].edits = @ + 1]
      /\ net' = [net EXCEPT ![l] = net[l] + (debt - net[l])]
      /\ expenses' = expenses /\ wasted' = wasted /\ today' = today
  BY DEF Voice!Edit, Voice!Align, Voice!clock
<1>2. /\ logs \in [Voice!Log -> LogRow] /\ net \in [Voice!Log -> Int] /\ today \in Int
      /\ Accounts(stock, booked, SumOf(wasted), torn) /\ expenses \subseteq Voice!Log
      /\ SumOf(wasted) \in Nat /\ torn \in Int
  BY WastedIs DEF VoiceInv
<1>3. /\ e \in LogRow /\ net[l] \in Int /\ (booked[l].kind = "none" => booked[l] = Voice!NoRow)
      /\ booked[l] \in BookRow /\ Follows(e, booked[l], net[l], l \in expenses)
  BY LogFacts
<1>4. /\ kind \in {"purchase", "sale", "waste"} /\ e.kind = kind /\ ~(l \in expenses)
  <2>1. kind # "none" /\ kind \in {"none", "purchase", "sale", "waste"}
    BY <1>1, <1>3 DEF BookRow
  <2> QED BY <1>1, <1>3, <2>1 DEF Follows, Stands
<1>5. PICK f : /\ f \in LogRow /\ logs' = [logs EXCEPT ![l] = f]
               /\ f.status = "confirmed" /\ f.kind = kind /\ f.terms = e.terms /\ f.qty = q
  <2>1. PICK c \in LogRow : c = e
    BY <1>3
  <2>2. [c EXCEPT !.qty = q] \in LogRow /\ [c EXCEPT !.qty = q].edits = c.edits
    BY DEF LogRow
  <2>3. PICK a \in LogRow : a = [c EXCEPT !.qty = q] /\ a.edits = c.edits
    BY <2>2
  <2>4. a.status = c.status /\ a.kind = c.kind /\ a.terms = c.terms /\ a.qty = q /\ a.edits \in Int
    BY <2>3 DEF LogRow
  <2>5. [a EXCEPT !.edits = a.edits + 1] \in LogRow
    BY <2>4 DEF LogRow
  <2>6. PICK b \in LogRow : b = [a EXCEPT !.edits = a.edits + 1]
    BY <2>5
  <2>7. b.status = a.status /\ b.kind = a.kind /\ b.terms = a.terms /\ b.qty = a.qty
    BY <2>6 DEF LogRow
  <2>8. logs' = [logs EXCEPT ![l] = b]
    BY <1>1, <2>1, <2>3, <2>6
  <2> QED BY <1>1, <1>4, <2>1, <2>4, <2>7, <2>8
<1>6. /\ logs' \in [Voice!Log -> LogRow] /\ logs'[l] = f
      /\ \A k \in Voice!Log \ {l} : logs'[k] = logs[k]
  BY <1>2, <1>5
<1>8. booked \in [Voice!Log -> BookRow]
  BY <1>2, LotsOf
<1>9. PICK mid : mid = [booked EXCEPT ![l] = Voice!NoRow]
  OBVIOUS
<1>10. Accounts(back, mid, SumOf(wasted), torn + Voice!TornBy(l)) /\ mid[l].kind = "none"
  BY <1>2, <1>8, <1>9, BackKeeps, NoRowIs
<1>11. BookedAs(booked', mid, l, kind, q, today)
  BY <1>1, <1>8, <1>9 DEF BookedAs
<1> HIDE DEF back
<1>12. Accounts(stock', booked', SumOf(wasted), torn')
  <2> HIDE DEF kind
  <2> QED BY <1>1, <1>2, <1>4, <1>10, <1>11, BookKeeps
<1>13. debt \in Int
  BY DebtIs
<1> HIDE DEF debt
<1>14. /\ net' \in [Voice!Log -> Int] /\ net'[l] = debt
       /\ \A k \in Voice!Log \ {l} : net'[k] = net[k]
  BY <1>1, <1>2, <1>3, <1>13
<1>15. booked'[l].kind = kind /\ booked'[l].qty = q /\ \A k \in Voice!Log \ {l} : booked'[k] = booked[k]
  BY <1>1, <1>8
<1> HIDE DEF kind, e
<1>16. Follows(logs'[l], booked'[l], net'[l], l \in expenses')
  <2>1. ~(l \in expenses') /\ kind # "expense" /\ f.kind = kind /\ f.status = "confirmed" /\ f.qty = q
        /\ debt = Voice!Debt(f.kind, f.terms, f.qty)
    BY <1>1, <1>4, <1>5 DEF debt
  <2>2. Follows(f, booked'[l], net'[l], l \in expenses')
    BY <1>14, <1>15, <2>1, Zenon DEF Follows, Stands
  <2> QED BY <1>6, <2>2, Zenon
<1>17. \A k \in Voice!Log \ {l} : booked'[k] = booked[k] /\ net'[k] = net[k]
                                 /\ (k \in expenses' <=> k \in expenses)
  BY <1>1, <1>14, <1>15, Zenon
<1>18. logs[l].status # "none" /\ logs'[l].status # "none" /\ booked'[l].kind # "none"
  BY <1>1, <1>4, <1>5, <1>6, <1>15 DEF e
<1>19. expenses' \subseteq Voice!Log /\ wasted' = wasted /\ today' = today
  BY <1>1, <1>2
<1> QED BY <1>1, <1>6, <1>12, <1>14, <1>16, <1>17, <1>18, <1>19, OneLogKeeps

LEMMA WasteKeeps ==
  ASSUME VoiceInv, NEW k \in ByHand, NEW q \in Nat, Voice!RecordWaste(k, q)
  PROVE  VoiceInv'
<1>1. /\ wasted[k] = 0 /\ q <= Still(stock) /\ stock' = Voice!Drawn(stock, q)
      /\ wasted' = [wasted EXCEPT ![k] = q]
      /\ logs' = logs /\ booked' = booked /\ net' = net /\ expenses' = expenses
      /\ today' = today /\ torn' = torn
  <2>1. Voice!Stock = Still(stock) /\ Still(stock) \in Nat
    BY VoiceLeft, LotsOf DEF Voice!Stock, VoiceInv
  <2> QED BY <2>1 DEF Voice!RecordWaste, Voice!clock
<1>2. /\ wasted \in [ByHand -> Nat] /\ Accounts(stock, booked, SumOf(wasted), torn)
      /\ SumOf(wasted) \in Nat
  BY WastedIs DEF VoiceInv
<1>3. /\ wasted' \in [ByHand -> Nat] /\ wasted' \in [ByHand -> Int] /\ wasted \in [ByHand -> Int]
      /\ wasted'[k] = q /\ \A j \in ByHand \ {k} : wasted[j] = wasted'[j]
  BY <1>1, <1>2
<1>4. SumOf(wasted') = SumOf(wasted) + q
  <2>1. SumOf(wasted') = SumOf(wasted) + wasted'[k] - wasted[k]
    BY <1>3, VoiceConstants, SumUpdate
  <2> QED BY <1>1, <1>2, <1>3, <2>1
<1>5. Accounts(stock', booked, SumOf(wasted'), torn)
  <2>1. Lots(stock)
    BY <1>2, LotsOf
  <2>2. Alike(stock, stock') /\ Still(stock') = Still(stock) - q
    BY <1>1, <2>1, DrawnFacts
  <2> QED BY <1>2, <1>4, <2>2, LessLeft
<1>6. Accounts(stock, booked, SumOf(wasted), torn)'
  BY <1>1, <1>5 DEF Accounts, Voice!Log
<1>7. /\ \A l \in Voice!Log : Follows(logs'[l], booked'[l], net'[l], l \in expenses')
      /\ \A l \in Voice!Log : booked'[l].kind = "none" => booked'[l] = Voice!NoRow
      /\ InOrder(logs')
  BY <1>1 DEF VoiceInv
<1>8. /\ logs' \in [Voice!Log -> LogRow] /\ InOrder(logs)'
      /\ net' \in [Voice!Log -> Int] /\ expenses' \subseteq Voice!Log
      /\ today' \in Int
  BY <1>1 DEF VoiceInv, InOrder, Voice!Log
<1> QED BY <1>3, <1>6, <1>7, <1>8 DEF VoiceInv, Voice!Log, Voice!NoRow

(* What leaves the logs and what they account for as they are.             *)
LEMMA AsideKeeps ==
  ASSUME VoiceInv, UNCHANGED <<logs, booked, stock, net, expenses, wasted, torn>>,
         today' \in Int
  PROVE  VoiceInv'
<1>1. Accounts(stock, booked, SumOf(wasted), torn)' /\ InOrder(logs)'
  BY DEF VoiceInv, Accounts, InOrder, Voice!Log
<1>2. /\ \A l \in Voice!Log : Follows(logs'[l], booked'[l], net'[l], l \in expenses')
      /\ \A l \in Voice!Log : booked'[l].kind = "none" => booked'[l] = Voice!NoRow
  BY DEF VoiceInv
<1> QED BY <1>1, <1>2 DEF VoiceInv, Voice!Log, Voice!NoRow

(* What a sweep has found is there.                                        *)
FoundInv == \A l \in stale : l \in Voice!Log /\ logs[l].status # "none"

LEMMA SweepKeeps ==
  ASSUME VoiceInv, NEW l \in Voice!Log, logs[l].status # "none", Voice!Sweep(l)
  PROVE  VoiceInv'
<1>1. /\ logs \in [Voice!Log -> LogRow] /\ logs[l] \in LogRow /\ InOrder(logs) /\ today \in Int
      /\ Accounts(stock, booked, SumOf(wasted), torn)
      /\ (booked[l].kind = "none" => booked[l] = Voice!NoRow)
      /\ Follows(logs[l], booked[l], net[l], l \in expenses)
      /\ net \in [Voice!Log -> Int] /\ expenses \subseteq Voice!Log
  BY LogFacts DEF VoiceInv
<1>2. /\ BooksSame /\ today' = today
      /\ logs' = [logs EXCEPT ![l] = IF Stands(logs[l])
                                    THEN [logs[l] EXCEPT !.status = "lost"]
                                    ELSE [Voice!Fresh EXCEPT !.status = "deleted"]]
  BY DEF Voice!Sweep, Voice!books, Voice!clock, BooksSame, Stands
<1>3. CASE Stands(logs[l])
  <2>1. PICK f \in LogRow : /\ f = [logs[l] EXCEPT !.status = "lost"] /\ f.status = "lost"
                           /\ f.kind = logs[l].kind /\ f.terms = logs[l].terms
                           /\ f.qty = logs[l].qty
    BY <1>1, StatusIs
  <2>2. /\ logs' \in [Voice!Log -> LogRow] /\ logs'[l] = f
        /\ \A k \in Voice!Log \ {l} : logs'[k] = logs[k]
    BY <1>1, <1>2, <1>3, <2>1
  <2>3. Follows(f, booked[l], net[l], l \in expenses)
    BY <1>1, <1>3, <2>1, Zenon DEF Follows, Stands
  <2>4. UNCHANGED <<booked, stock, net, expenses, wasted, torn>>
    BY <1>2 DEF BooksSame
  <2>5. Follows(logs'[l], booked'[l], net'[l], l \in expenses')
    BY <2>2, <2>3, <2>4, Zenon
  <2>6. \A k \in Voice!Log \ {l} : booked'[k] = booked[k] /\ net'[k] = net[k]
                                  /\ (k \in expenses' <=> k \in expenses)
    BY <2>4, Zenon
  <2>7. logs[l].status # "none" /\ logs'[l].status # "none"
    BY <1>3, <2>1, <2>2 DEF Stands
  <2>8. /\ net' \in [Voice!Log -> Int] /\ expenses' \subseteq Voice!Log
        /\ Accounts(stock', booked', SumOf(wasted), torn')
        /\ booked'[l].kind = "none" => booked'[l] = Voice!NoRow
    BY <1>1, <2>4
  <2> QED BY <1>2, <2>2, <2>4, <2>5, <2>6, <2>7, <2>8, OneLogKeeps
<1>4. CASE ~Stands(logs[l])
  <2>1. PICK d \in LogRow : d = [Voice!Fresh EXCEPT !.status = "deleted"] /\ d.status = "deleted"
    BY DroppedIs
  <2>2. /\ logs' \in [Voice!Log -> LogRow] /\ logs'[l] = d
        /\ \A k \in Voice!Log \ {l} : logs'[k] = logs[k]
    BY <1>1, <1>2, <1>4, <2>1
  <2>3. ~Stands(logs[l]) /\ ~Stands(logs'[l])
    BY <1>4, <2>1, <2>2 DEF Stands
  <2>4. ASSUME NEW k \in Voice!Log
        PROVE  logs'[k] = logs[k] \/ (~Stands(logs[k]) /\ ~Stands(logs'[k]))
    <3>1. CASE k = l
      BY <2>3, <3>1, Zenon
    <3>2. CASE k # l
      BY <2>2, <3>2
    <3> QED BY <3>1, <3>2
  <2>5. InOrder(logs')
    BY <1>1, <2>1, <2>2 DEF InOrder
  <2> QED BY <1>1, <1>2, <2>2, <2>4, <2>5, BooksSameKeeps
<1> QED BY <1>3, <1>4

LEMMA FoundStep == ASSUME VoiceInv, FoundInv, [Voice!Next]_(Voice!vars) PROVE FoundInv'
<1>1. logs \in [Voice!Log -> LogRow]
  BY DEF VoiceInv
<1> DEFINE Stay == \A l \in Voice!Log : logs[l].status # "none" => logs'[l].status # "none"
<1>2. ASSUME stale' \subseteq stale, Stay PROVE FoundInv'
  BY <1>2 DEF FoundInv, Voice!Log
<1>3. ASSUME NEW events, Voice!Hear(events) PROVE FoundInv'
  <2> DEFINE used == Voice!Cardinality({l \in Voice!Log : logs[l].status # "none"})
             n == IF Len(events) = 0 THEN 1 ELSE Len(events)
             draft(l) == [status |-> IF events = <<>> THEN "pending" ELSE "parsed",
                          kind |-> IF events = <<>> THEN "none" ELSE events[l - used].kind,
                          qty |-> IF events = <<>> THEN 0 ELSE events[l - used].qty,
                          terms |-> IF events = <<>> THEN "cash" ELSE events[l - used].terms,
                          made |-> today, edits |-> 0]
  <2>1. /\ stale' = stale
        /\ logs' = [l \in Voice!Log |-> IF l \in used + 1 .. used + n THEN draft(l) ELSE logs[l]]
    BY <1>3, Zenon DEF Voice!Hear
  <2>2. \A l : draft(l).status # "none"
    OBVIOUS
  <2> HIDE DEF used, n, draft
  <2>3. Stay
    BY <2>1, <2>2
  <2> QED BY <1>2, <2>1, <2>3
<1>4. ASSUME NEW l \in Voice!Log, NEW e, Voice!Correct(l, e) PROVE FoundInv'
  <2>1. PICK d \in LogRow : d = logs[l]
    BY <1>1, <1>4
  <2>2. \/ logs' = [logs EXCEPT ![l] = [d EXCEPT !.status = "parsed"]]
        \/ logs' = [logs EXCEPT ![l] = [d EXCEPT !.status = "parsed", !.kind = e.kind,
                                                 !.qty = e.qty, !.terms = e.terms]]
    BY <1>4, <2>1 DEF Voice!Correct
  <2>3. stale' = stale
    BY <1>4 DEF Voice!Correct
  <2>4. Stay
    BY <1>1, <2>1, <2>2 DEF LogRow
  <2> QED BY <1>2, <2>3, <2>4
<1>5. ASSUME NEW l \in Voice!Log, NEW status \in {"confirmed", "voided"},
             logs' = [logs EXCEPT ![l].status = status], stale' = stale
      PROVE  FoundInv'
  <2>1. Stay
    BY <1>1, <1>5 DEF LogRow
  <2> QED BY <1>2, <1>5, <2>1
<1>6. ASSUME NEW l \in Voice!Log, Voice!ConfirmStock(l) \/ Voice!ConfirmExpense(l) PROVE FoundInv'
  <2>1. logs' = [logs EXCEPT ![l].status = "confirmed"] /\ stale' = stale
    BY <1>6, Zenon DEF Voice!ConfirmStock, Voice!ConfirmExpense, Voice!Confirmed
  <2> QED BY <1>5, <2>1
<1>7. ASSUME NEW l \in Voice!Log, Voice!VoidByVoice(l) \/ Voice!VoidByLedger(l) PROVE FoundInv'
  <2>1. logs' = [logs EXCEPT ![l].status = "voided"] /\ stale' = stale
    BY <1>7, Zenon DEF Voice!VoidByVoice, Voice!VoidByLedger, Voice!TakeBack
  <2> QED BY <1>5, <2>1
<1>8. ASSUME NEW l \in Voice!Log, NEW q, Voice!Edit(l, q) PROVE FoundInv'
  <2>1. /\ logs' = [logs EXCEPT ![l].qty = q, ![l].edits = logs[l].edits + 1] /\ stale' = stale
        /\ logs[l].status = "confirmed"
    BY <1>8 DEF Voice!Edit
  <2>2. PICK d \in LogRow : d = logs[l]
    BY <1>1, <1>8
  <2>3. logs' = [logs EXCEPT ![l] = [d EXCEPT !.qty = q, !.edits = d.edits + 1]]
    BY <1>1, <2>1, <2>2
  <2>4. Stay
    BY <1>1, <2>2, <2>3 DEF LogRow
  <2> QED BY <1>2, <2>1, <2>4
<1>9. ASSUME NEW k, NEW q, Voice!RecordWaste(k, q) PROVE FoundInv'
  <2>1. stale' = stale /\ Stay
    BY <1>9 DEF Voice!RecordWaste
  <2> QED BY <1>2, <2>1
<1>10. ASSUME Voice!Prune \/ Voice!CleanUp PROVE FoundInv'
  <2> DEFINE old == {l \in Voice!Log : /\ logs[l].status \in {"pending", "parsed"}
                                       /\ logs[l].made < today - KeptDays}
             more == {l \in Voice!Drafts : Voice!Cardinality({m \in Voice!Drafts : m >= l}) > MaxDrafts}
  <2>1. Voice!Finds(old) \/ Voice!Finds(more)
    BY <1>10, Zenon DEF Voice!Prune, Voice!CleanUp
  <2>2. \A l \in old \cup more : l \in Voice!Log /\ logs[l].status # "none"
    BY DEF Voice!Drafts
  <2> HIDE DEF old, more
  <2>3. logs' = logs /\ stale' \subseteq stale \cup (old \cup more)
    BY <2>1 DEF Voice!Finds
  <2> QED BY <2>2, <2>3 DEF FoundInv, Voice!Log
<1>11. ASSUME NEW l \in Voice!Log, Voice!Sweep(l) PROVE FoundInv'
  <2>1. PICK f : logs' = [logs EXCEPT ![l] = f]
    BY <1>11, Zenon DEF Voice!Sweep
  <2>2. stale' = stale \ {l} /\ \A k \in Voice!Log \ {l} : logs'[k] = logs[k]
    BY <1>1, <1>11, <2>1 DEF Voice!Sweep
  <2> QED BY <2>2 DEF FoundInv, Voice!Log
<1>12. ASSUME Voice!CloseDay \/ Voice!NextDay \/ UNCHANGED Voice!vars PROVE FoundInv'
  <2>1. stale' = stale /\ Stay
    BY <1>12 DEF Voice!CloseDay, Voice!NextDay, Voice!vars
  <2> QED BY <1>2, <2>1
<1> HIDE DEF Stay
<1> QED
  BY <1>3, <1>4, <1>6, <1>7, <1>8, <1>9, <1>10, <1>11, <1>12, Zenon DEF Voice!Next

LEMMA EventIs ==
  \A e \in Voice!Event : e \in Heard /\ [e EXCEPT !.kind = "expense"] \in Heard
<1> DEFINE Said == [kind : {"purchase", "sale", "waste", "expense"}, qty : Voice!Qty,
                    terms : {"cash", "credit", "repay"}]
<1>1. \A e \in Voice!Event : e \in Said
  BY Zenon DEF Voice!Event
<1>2. \A e \in Said : e \in Heard
  BY DEF Voice!Qty, Heard, Terms
<1>3. \A e \in Heard : [e EXCEPT !.kind = "expense"] \in Heard
  BY DEF Heard
<1> HIDE DEF Said
<1> QED BY <1>1, <1>2, <1>3, Zenon

LEMMA VoiceStep == ASSUME VoiceInv, FoundInv, [Voice!Next]_(Voice!vars) PROVE VoiceInv'
<1>a. \A q \in Voice!Qty : q \in Nat
  BY DEF Voice!Qty
<1>b. today \in Int
  BY DEF VoiceInv
<1>1. ASSUME NEW events \in {<<>>} \cup {<<e>> : e \in Voice!Event}, Voice!Hear(events)
      PROVE  VoiceInv'
  <2>1. CASE events = <<>>
    <3>1. Len(events) = 0
      BY <2>1
    <3>2. Len(events) \in Nat /\ \A n \in 1 .. Len(events) : events[n] \in Heard
      BY <3>1
    <3> QED BY <1>1, <3>2, HearKeeps
  <2>2. CASE events \in {<<e>> : e \in Voice!Event}
    <3>1. PICK e \in Voice!Event : events = <<e>>
      BY <2>2
    <3>2. Len(events) = 1 /\ events[1] = e
      BY <3>1
    <3>3. e \in Heard
      BY EventIs
    <3>4. Len(events) \in Nat /\ \A n \in 1 .. Len(events) : events[n] \in Heard
      BY <3>2, <3>3
    <3> QED BY <1>1, <3>4, HearKeeps
  <2> QED BY <2>1, <2>2
<1>2. ASSUME NEW e \in Voice!Event, e.kind = "sale", Voice!Hear(<<e, [e EXCEPT !.kind = "expense"]>>)
      PROVE  VoiceInv'
  <2>1. PICK f \in Heard : f = [e EXCEPT !.kind = "expense"]
    BY EventIs
  <2>2. e \in Heard
    BY EventIs
  <2>3. PICK events : events = <<e, f>>
    OBVIOUS
  <2>4. Len(events) = 2 /\ events[1] = e /\ events[2] = f
    BY <2>3
  <2>5. Len(events) \in Nat /\ \A n \in 1 .. Len(events) : events[n] \in Heard
    BY <2>2, <2>4
  <2> QED BY <1>2, <2>1, <2>3, <2>5, HearKeeps
<1>3. ASSUME NEW l \in Voice!Log, NEW e \in Voice!Event, Voice!Correct(l, e) PROVE VoiceInv'
  BY <1>3, EventIs, CorrectKeeps
<1>4. ASSUME NEW l \in Voice!Log, NEW q \in Voice!Qty, Voice!Edit(l, q) PROVE VoiceInv'
  BY <1>4, <1>a, EditKeeps
<1>5. ASSUME NEW l \in Voice!Log, Voice!ConfirmStock(l) PROVE VoiceInv'
  BY <1>5, ConfirmStockKeeps
<1>6. ASSUME NEW l \in Voice!Log, Voice!ConfirmExpense(l) PROVE VoiceInv'
  BY <1>6, ConfirmExpenseKeeps
<1>7. ASSUME NEW l \in Voice!Log, Voice!VoidByVoice(l) PROVE VoiceInv'
  BY <1>7, TakeBackKeeps DEF Voice!VoidByVoice
<1>8. ASSUME NEW l \in Voice!Log, Voice!VoidByLedger(l) PROVE VoiceInv'
  BY <1>8, TakeBackKeeps DEF Voice!VoidByLedger
<1>9. ASSUME NEW k \in ByHand, NEW q \in Voice!Qty, Voice!RecordWaste(k, q) PROVE VoiceInv'
  BY <1>9, <1>a, WasteKeeps
<1>10. ASSUME Voice!Prune \/ Voice!CleanUp PROVE VoiceInv'
  <2>1. UNCHANGED <<logs, booked, stock, net, expenses, wasted, torn>> /\ today' \in Int
    BY <1>10, <1>b DEF Voice!Prune, Voice!CleanUp, Voice!Finds, Voice!books, Voice!clock
  <2> QED BY <2>1, AsideKeeps
<1>11. ASSUME NEW l \in Voice!Log, Voice!Sweep(l) PROVE VoiceInv'
  <2>1. l \in stale
    BY <1>11 DEF Voice!Sweep
  <2> QED BY <1>11, <2>1, SweepKeeps DEF FoundInv
<1>12. ASSUME Voice!CloseDay \/ Voice!NextDay \/ UNCHANGED Voice!vars PROVE VoiceInv'
  <2>1. UNCHANGED <<logs, booked, stock, net, expenses, wasted, torn>> /\ today' \in Int
    BY <1>12, <1>b DEF Voice!CloseDay, Voice!NextDay, Voice!vars, Voice!books, Voice!clock
  <2> QED BY <2>1, AsideKeeps
<1> QED
  BY <1>1, <1>2, <1>3, <1>4, <1>5, <1>6, <1>7, <1>8, <1>9, <1>10, <1>11, <1>12, Zenon
  DEF Voice!Next

(* The books of the voice ledger agree with each other after any           *)
(* recordings, corrections, confirmations, voids and edits, and with drafts*)
(* swept away at any moment: the batches hold what the rows say, and the   *)
(* row, the debt or repayment and the expense of a record are what it says,*)
(* even when a late sweep took the record (the confirmations, update_log   *)
(* and delete_log of voice.py and operations.py, and the two sweeps).      *)
THEOREM VoiceBooksHolds == Voice!Spec => []VoiceBooks
<1>1. Voice!Init => FoundInv
  BY DEF Voice!Init, FoundInv
<1>2. VoiceInv /\ FoundInv /\ [Voice!Next]_(Voice!vars) => VoiceInv' /\ FoundInv'
  BY VoiceStep, FoundStep
<1> QED BY <1>1, <1>2, VoiceInit, VoiceGives, PTL DEF Voice!Spec

-----------------------------------------------------------------------------
(* What was dealt with stays so.                                           *)

EndedStep ==
  /\ \A s \in DOMAIN subs :
       subs[s].status \in Saas!EndedSub /\ subs'[s].status # subs[s].status =>
         \E c \in Clerk : /\ hands[c].on = "sub" /\ hands[c].of = s
                          /\ hands[c].read \notin Saas!EndedSub /\ hands'[c] = Saas!Free
  /\ \A i \in invoices :
       i.status \in Saas!EndedInvoice /\ i \notin invoices' =>
         \E c \in Clerk : /\ hands[c].on = "invoice" /\ hands[c].of = Saas!Period(i)
                          /\ hands[c].read \notin Saas!EndedInvoice /\ hands'[c] = Saas!Free

SubsStay ==
  \A s \in DOMAIN subs : subs[s].status \in Saas!EndedSub => subs'[s].status = subs[s].status

LEMMA OverdueEnds ==
  ASSUME NEW states, NEW days, NEW status, Saas!Overdue(states, days, status),
         "canceled" \notin states, "expired" \notin states
  PROVE  SubsStay
<1>1. \A t \in DOMAIN subs : subs[t].status \in Saas!EndedSub => subs'[t] = subs[t]
  BY DEF Saas!Overdue, Saas!EndedSub
<1> QED BY <1>1 DEF SubsStay

(* Only the commit of an administrator who had read the row before it      *)
(* ended writes the status of an ended row.                                *)
LEMMA EndedKept == ASSUME RenewalInv, [Saas!Next]_(Saas!vars) PROVE EndedStep
<1>t. SaasType
  BY DEF RenewalInv
<1>k. ASSUME SubsStay, invoices \subseteq invoices' PROVE EndedStep
  BY <1>k DEF SubsStay, EndedStep
<1>s. ASSUME UNCHANGED subs PROVE SubsStay
  BY <1>s DEF SubsStay
<1>1. CASE Saas!Tick \/ Saas!CheckTrial \/ Saas!EndTrial \/ Saas!FindUnpaid
             \/ Saas!SuspendTenant \/ UNCHANGED Saas!vars
  BY <1>1, <1>k, <1>s DEF Saas!Tick, Saas!CheckTrial, Saas!EndTrial, Saas!FindUnpaid,
     Saas!SuspendTenant, Saas!vars, Saas!billing
<1>2. CASE Saas!MarkPastDue
  BY <1>2, <1>k, OverdueEnds DEF Saas!MarkPastDue, Saas!billing
<1>3. CASE Saas!MarkExpired
  BY <1>3, <1>k, OverdueEnds DEF Saas!MarkExpired, Saas!billing
<1>4. ASSUME NEW m \in Payer, NEW s \in DOMAIN subs, Saas!BeginInvoice(m, s) PROVE EndedStep
  BY <1>4, <1>k, <1>s DEF Saas!BeginInvoice
<1>5. ASSUME NEW m \in Payer, Saas!InsertInvoice(m) PROVE EndedStep
  BY <1>5, <1>k, <1>s DEF Saas!InsertInvoice, Saas!Insert
<1>6. ASSUME NEW s \in DOMAIN subs, NEW from \in 0 .. MaxDay, Saas!CreateInvoice(s, from)
      PROVE  EndedStep
  BY <1>6, <1>k, <1>s DEF Saas!CreateInvoice, Saas!Insert
<1>7. ASSUME NEW c \in Clerk, NEW taken, Saas!Takes(c, taken) PROVE EndedStep
  BY <1>7, <1>k, <1>s DEF Saas!Takes, Saas!billing
<1>8. ASSUME NEW c \in Clerk, Saas!SaveSubscription(c) PROVE EndedStep
  <2>1. hands'[c] = Saas!Free /\ UNCHANGED invoices /\ hands[c].on = "sub"
    BY <1>t, <1>8, HandsDone DEF Saas!SaveSubscription
  <2>2. /\ \A s \in DOMAIN subs : s # hands[c].of => subs'[s] = subs[s]
        /\ "status" \notin hands[c].columns =>
              subs'[hands[c].of].status = subs[hands[c].of].status
    BY <1>t, <1>8, RowWritten
  <2>3. hands[c].read \in Saas!EndedSub => "status" \notin hands[c].columns
    BY <1>t, <2>1 DEF SaasType, Fits
  <2> QED BY <2>1, <2>2, <2>3 DEF EndedStep
<1>9. ASSUME NEW c \in Clerk, Saas!AddSubscription(c) PROVE EndedStep
  <2>1. UNCHANGED invoices /\ subs' = Append(subs, hands[c].row)
    BY <1>9 DEF Saas!AddSubscription
  <2>2. \A s \in DOMAIN subs : subs'[s] = subs[s]
    BY <1>t, <2>1 DEF SaasType
  <2> QED BY <1>k, <2>1, <2>2 DEF SubsStay
<1>10. ASSUME NEW c \in Clerk, Saas!SaveInvoice(c) PROVE EndedStep
  <2>1. hands'[c] = Saas!Free /\ UNCHANGED subs /\ hands[c].on = "invoice"
    BY <1>t, <1>10, HandsDone DEF Saas!SaveInvoice
  <2>2. \A i \in invoices : Saas!Period(i) # hands[c].of => i \in invoices'
    BY <1>t, <1>10, StatusWritten
  <2>3. hands[c].read \notin Saas!EndedInvoice
    BY <1>t, <2>1 DEF SaasType, Fits
  <2> QED BY <1>s, <2>1, <2>2, <2>3 DEF EndedStep, SubsStay
<1>11. ASSUME NEW c \in Clerk, Saas!SaveTenant(c) PROVE EndedStep
  BY <1>11, <1>k, <1>s DEF Saas!SaveTenant
<1> QED
  BY Zenon, AdminTakes, <1>1, <1>2, <1>3, <1>4, <1>5, <1>6, <1>7, <1>8, <1>9, <1>10, <1>11
     DEF Saas!Next

-----------------------------------------------------------------------------
Suggestion(row) == row = [kind |-> row.kind, status |-> row.status, targets |-> row.targets]

(* Nothing was done yet of what is still pending, and the only handler     *)
(* that runs has read that its suggestion is.                              *)
ActInv ==
  /\ DOMAIN actions = Shelf!Action /\ \A a \in Shelf!Action : Suggestion(actions[a])
  /\ effects \in [Shelf!Action -> Int] /\ DOMAIN running = Handler
  /\ \A a \in Shelf!Action : actions[a].status \in {"none", "pending"} => effects[a] = 0
  /\ \A h, k \in Handler : running[h] # Shelf!Idle /\ running[k] # Shelf!Idle => h = k
  /\ \A h \in Handler : running[h].on = "action" =>
       running[h].action \in Shelf!Action /\ actions[running[h].action].status = "pending"

ActedStep ==
  \A a \in Shelf!Action :
    effects'[a] # effects[a] =>
      /\ effects[a] = 0
      /\ actions[a].status = "pending" /\ actions'[a].status # "rejected"

LEMMA ActInit == Shelf!Init => ActInv
<1> SUFFICES ASSUME Shelf!Init PROVE ActInv
  OBVIOUS
<1>1. Suggestion(Shelf!NoRow) /\ Shelf!NoRow.status = "none"
  BY DEF Suggestion, Shelf!NoRow
<1>2. Shelf!Idle.on = "none"
  BY DEF Shelf!Idle
<1> QED BY <1>1, <1>2 DEF ActInv, Shelf!Init

(* A handler that begins is the only one.                                  *)
LEMMA BeginsAlone ==
  ASSUME OneHandler, ActInv, NEW h \in Handler, NEW r, Shelf!Alone,
         r.on = "action" => r.action \in Shelf!Action /\ actions[r.action].status = "pending",
         running' = [running EXCEPT ![h] = r], UNCHANGED <<actions, effects>>
  PROVE  ActInv' /\ ActedStep
<1>1. \A k \in Handler : running[k] = Shelf!Idle
  BY DEF Shelf!Alone, Shelf!Free
<1>2. DOMAIN running' = Handler /\ running'[h] = r
        /\ \A k \in Handler : k # h => running'[k] = Shelf!Idle
  BY <1>1 DEF ActInv
<1>3. Shelf!Idle.on # "action"
  BY DEF Shelf!Idle
<1>4. \A k \in Handler : running'[k].on = "action" =>
        running'[k].action \in Shelf!Action /\ actions'[running'[k].action].status = "pending"
  BY <1>2, <1>3
<1>5. ActedStep
  BY DEF ActedStep
<1> QED BY <1>2, <1>4, <1>5 DEF ActInv

(* The handler that ends leaves its suggestion done, and touches no other. *)
LEMMA EndsDone ==
  ASSUME ActInv, NEW h \in Handler, running[h].on = "action",
         running' = [running EXCEPT ![h] = Shelf!Idle],
         NEW status \in {"rejected", "executed", "failed"},
         actions' = [actions EXCEPT ![running[h].action].status = status],
         NEW n \in Int, status = "rejected" => n = 0,
         effects' = [effects EXCEPT ![running[h].action] = @ + n]
  PROVE  ActInv' /\ ActedStep
<1>1. PICK a \in Shelf!Action : a = running[h].action /\ actions[a].status = "pending"
  BY DEF ActInv
<1>2. Shelf!Idle.on = "none"
  BY DEF Shelf!Idle
<1>3. running[h] # Shelf!Idle
  BY <1>2
<1>4. DOMAIN running' = Handler /\ \A k \in Handler : running'[k] = Shelf!Idle
  BY <1>3 DEF ActInv
<1>5. /\ DOMAIN actions' = Shelf!Action
      /\ \A b \in Shelf!Action : b # a => actions'[b] = actions[b]
      /\ actions'[a] = [actions[a] EXCEPT !.status = status]
  BY <1>1 DEF ActInv
<1>6. Suggestion(actions'[a]) /\ actions'[a].status = status
  BY <1>1, <1>5 DEF ActInv, Suggestion
<1>7. /\ effects' \in [Shelf!Action -> Int] /\ effects'[a] = effects[a] + n
      /\ \A b \in Shelf!Action : b # a => effects'[b] = effects[b]
  BY <1>1 DEF ActInv
<1>8. effects[a] = 0
  BY <1>1 DEF ActInv
<1>9. ActedStep
  BY <1>1, <1>6, <1>7, <1>8 DEF ActedStep
<1>10. \A b \in Shelf!Action : Suggestion(actions'[b])
  BY <1>5, <1>6 DEF ActInv
<1>11. \A b \in Shelf!Action : actions'[b].status \in {"none", "pending"} => effects'[b] = 0
  BY <1>5, <1>6, <1>7 DEF ActInv
<1> QED BY <1>2, <1>4, <1>5, <1>7, <1>9, <1>10, <1>11 DEF ActInv

(* How executing a suggestion ends; does: it changed something.            *)
Executes(h, stopped, does) ==
  /\ running[h].on = "action" /\ running' = [running EXCEPT ![h] = Shelf!Idle]
  /\ actions' = [actions EXCEPT ![running[h].action].status = Shelf!Outcome(stopped)]
  /\ effects' = [effects EXCEPT ![running[h].action] = @ + (IF does THEN 1 ELSE 0)]

LEMMA ExecutesOnce ==
  ASSUME ActInv, NEW h \in Handler, NEW stopped, NEW does, Executes(h, stopped, does)
  PROVE  ActInv' /\ ActedStep
<1>1. PICK n : n = IF does THEN 1 ELSE 0
  OBVIOUS
<1>2. PICK status : status = Shelf!Outcome(stopped)
  OBVIOUS
<1>3. /\ status \in {"rejected", "executed", "failed"} /\ status # "rejected"
      /\ actions' = [actions EXCEPT ![running[h].action].status = status]
  BY <1>2 DEF Shelf!Outcome, Executes
<1>4. n \in Int /\ effects' = [effects EXCEPT ![running[h].action] = @ + n]
  BY <1>1 DEF Executes
<1>5. running[h].on = "action" /\ running' = [running EXCEPT ![h] = Shelf!Idle]
  BY DEF Executes
<1> QED BY ONLY ActInv, <1>3, <1>4, <1>5, EndsDone

LEMMA ActStep ==
  ASSUME OneHandler, ActInv, [Shelf!Next]_(Shelf!vars) PROVE ActInv' /\ ActedStep
<1>1. ASSUME UNCHANGED Shelf!vars PROVE ActInv' /\ ActedStep
  BY <1>1 DEF Shelf!vars, ActInv, ActedStep
<1>2. ASSUME NEW h \in Handler, NEW s \in Sku, NEW p \in Asked, Shelf!BeginEdit(h, s, p)
      PROVE  ActInv' /\ ActedStep
  <2>1. PICK r : r = [on |-> "edit", sku |-> s, new |-> p, seen |-> price]
    OBVIOUS
  <2>2. r.on # "action"
    BY <2>1
  <2>3. running' = [running EXCEPT ![h] = r] /\ Shelf!Alone /\ UNCHANGED <<actions, effects>>
    BY <1>2, <2>1 DEF Shelf!BeginEdit
  <2> QED BY <2>2, <2>3, BeginsAlone
<1>3. ASSUME NEW h \in Handler, NEW a \in Shelf!Action, NEW rejects \in BOOLEAN,
             Shelf!BeginExecute(h, a, rejects)
      PROVE  ActInv' /\ ActedStep
  <2>1. PICK r : r = [on |-> "action", action |-> a, rejects |-> rejects, seen |-> price]
    OBVIOUS
  <2>2. r.action = a /\ actions[a].status = "pending"
    BY <1>3, <2>1 DEF Shelf!BeginExecute, Shelf!MayExecute
  <2>3. running' = [running EXCEPT ![h] = r] /\ Shelf!Alone /\ UNCHANGED <<actions, effects>>
    BY <1>3, <2>1 DEF Shelf!BeginExecute
  <2> QED BY <2>2, <2>3, BeginsAlone
<1>4. ASSUME NEW a \in Shelf!Action, NEW k \in Shelf!Kind, NEW ts, Shelf!Suggest(a, k, ts)
      PROVE  ActInv' /\ ActedStep
  <2>1. PICK row : row = [kind |-> k, status |-> "pending", targets |-> ts]
    OBVIOUS
  <2>2. Suggestion(row) /\ row.status = "pending"
    BY <2>1 DEF Suggestion
  <2>3. /\ actions' = [actions EXCEPT ![a] = row] /\ actions[a] = Shelf!NoRow
        /\ UNCHANGED <<effects, running>>
    BY <1>4, <2>1 DEF Shelf!Suggest
  <2>4. actions[a].status = "none"
    BY <2>3 DEF Shelf!NoRow
  <2>5. /\ DOMAIN actions' = Shelf!Action /\ actions'[a] = row
        /\ \A b \in Shelf!Action : b # a => actions'[b] = actions[b]
    BY <2>3 DEF ActInv
  <2>6. \A h \in Handler : running[h].on = "action" =>
          running[h].action \in Shelf!Action /\ actions'[running[h].action].status = "pending"
    BY <2>4, <2>5 DEF ActInv
  <2> QED BY <2>2, <2>3, <2>4, <2>5, <2>6 DEF ActInv, ActedStep
<1>5. ASSUME NEW h \in Handler, Shelf!CommitEdit(h) PROVE ActInv' /\ ActedStep
  <2>1. running' = [running EXCEPT ![h] = Shelf!Idle] /\ UNCHANGED <<actions, effects>>
    BY <1>5 DEF Shelf!CommitEdit
  <2>2. /\ DOMAIN running' = Handler /\ running'[h] = Shelf!Idle
        /\ \A k \in Handler : k # h => running'[k] = running[k]
    BY <2>1 DEF ActInv
  <2>3. Shelf!Idle.on = "none"
    BY DEF Shelf!Idle
  <2> QED BY <2>1, <2>2, <2>3 DEF ActInv, ActedStep
<1>6. ASSUME NEW h \in Handler, Shelf!CommitReject(h) PROVE ActInv' /\ ActedStep
  <2>1. /\ running[h].on = "action" /\ running' = [running EXCEPT ![h] = Shelf!Idle]
        /\ actions' = [actions EXCEPT ![running[h].action].status = "rejected"]
        /\ effects' = effects
    BY <1>6 DEF Shelf!CommitReject
  <2>2. PICK status, n : status = "rejected" /\ n = 0
    OBVIOUS
  <2>3. effects' = [effects EXCEPT ![running[h].action] = @ + n]
    BY <2>1, <2>2 DEF ActInv
  <2>4. /\ status \in {"rejected", "executed", "failed"} /\ n \in Int
        /\ status = "rejected" => n = 0
        /\ actions' = [actions EXCEPT ![running[h].action].status = status]
    BY <2>1, <2>2
  <2> QED BY ONLY ActInv, <2>1, <2>3, <2>4, EndsDone
<1>7. ASSUME NEW h \in Handler, Shelf!CommitPrices(h) PROVE ActInv' /\ ActedStep
  <2>1. \E stopped, does : Executes(h, stopped, does)
    BY <1>7, Zenon DEF Shelf!CommitPrices, Executes
  <2> QED BY <2>1, ExecutesOnce
<1>8. ASSUME NEW h \in Handler, Shelf!CommitList(h) PROVE ActInv' /\ ActedStep
  <2>1. \E stopped, does : Executes(h, stopped, does)
    BY <1>8, Zenon DEF Shelf!CommitList, Executes
  <2> QED BY <2>1, ExecutesOnce
<1> QED BY <1>1, <1>2, <1>3, <1>4, <1>5, <1>6, <1>7, <1>8, Zenon DEF Shelf!Next

HandledStep ==
  \A d \in DOMAIN diffs : diffs[d].status # "open" =>
    \E e \in DOMAIN diffs' : Channel!Key(diffs'[e]) = Channel!Key(diffs[d])
                               /\ diffs'[e].status # "open"

LEMMA OtherSteps ==
  ASSUME [OfficeNext]_officeVars
  PROVE  [Voice!Next]_(Voice!vars) /\ [Saas!Next]_(Saas!vars) /\ [Channel!Next]_(Channel!vars)
<1>1. ASSUME UNCHANGED voiceVars PROVE UNCHANGED Voice!vars
  BY <1>1 DEF voiceVars, Voice!vars, Voice!books, Voice!clock
<1>2. ASSUME UNCHANGED tenantVars PROVE UNCHANGED Saas!vars
  BY <1>2 DEF tenantVars, Saas!vars, Saas!billing, Saas!jobs
<1>3. ASSUME UNCHANGED channelVars PROVE UNCHANGED Channel!vars
  BY <1>3 DEF channelVars, Channel!vars
<1>4. Voice!Next \/ UNCHANGED voiceVars
  BY Zenon DEF OfficeNext, officeVars
<1>5. Saas!Next \/ UNCHANGED tenantVars
  BY Zenon DEF OfficeNext, officeVars
<1>6. Channel!Next \/ UNCHANGED channelVars
  BY Zenon DEF OfficeNext, officeVars
<1> QED BY <1>1, <1>2, <1>3, <1>4, <1>5, <1>6

(* What was dealt with stays so: a difference that was resolved or ignored *)
(* is never opened again or lost, however transactions cross; a suggestion *)
(* works once, where handlers do not overlap; and what was cancelled, has  *)
(* expired, is paid or void is written again only by an administrator's    *)
(* transaction that had read the row before that (subscriptions.py and     *)
(* invoices.py read without a lock and write when they commit).            *)
THEOREM DoneStaysDoneHolds == OneHandler => (OfficeSpec => DoneStaysDone)
<1> SUFFICES ASSUME OneHandler PROVE OfficeSpec => DoneStaysDone
  OBVIOUS
<1> DEFINE Inv == RenewalInv /\ TaskInv /\ ActInv
           EachStep == /\ [EndedStep]_(Saas!vars)
                       /\ [HandledStep]_(Channel!vars) /\ [ActedStep]_(Shelf!vars)
<1>1. OfficeInit => Inv
  BY SaasInit, TaskInit, ActInit DEF OfficeInit
<1>2. Inv /\ [OfficeNext]_officeVars => Inv' /\ EachStep
  <2> SUFFICES ASSUME Inv, [OfficeNext]_officeVars PROVE Inv' /\ EachStep
    OBVIOUS
  <2>1. /\ [Saas!Next]_(Saas!vars)
        /\ [Channel!Next]_(Channel!vars) /\ [Shelf!Next]_(Shelf!vars)
    BY OtherSteps, OfficeSteps
  <2>3. RenewalInv' /\ EndedStep
    BY <2>1, SaasNext, EndedKept
  <2>4. TaskInv' /\ HandledStep
    BY <2>1, TaskStep DEF HandledStep
  <2>5. ActInv' /\ ActedStep
    BY <2>1, ActStep
  <2> QED BY <2>3, <2>4, <2>5
<1> QED
  BY <1>1, <1>2, PTL
     DEF OfficeSpec, officeVars, DoneStaysDone, Saas!EndedStays,
         Channel!HandledStays, Shelf!ActedOnce, EndedStep, HandledStep, ActedStep

====
