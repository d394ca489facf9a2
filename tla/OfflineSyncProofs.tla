-------------------------- MODULE OfflineSyncProofs --------------------------
(***************************************************************************)
(* For any events, stock, requests, replayers and bounds: the offline      *)
(* channel keeps the promise of KeyedBooking, whatever is lost, repeated,  *)
(* replayed or killed; and what the phone or a letter counts as settled is *)
(* booked.                                                                 *)
(***************************************************************************)
EXTENDS OfflineSync, SequenceTheorems, TLAPS

(* Whatever refers to an event refers to one that was queued.              *)
PhoneKnows ==
  /\ \A i \in Item : queue[i].status # "absent" => i <= made
  /\ \A i \in engine.todo : i <= made
  /\ engine.item <= made

ServerKnows == \A u \in Upload : uploads[u].phase # "free" => uploads[u].item \in 1 .. made

LettersKnow ==
  /\ \A l \in DOMAIN letters : letters[l].item \in 1 .. made
  /\ \A p \in pass : p.letter \in DOMAIN letters
  /\ \A r \in Replayer : replays[r] # Idle => replays[r].letter \in DOMAIN letters

(* The request the phone waits for is the one for its present event.       *)
CallIsItem ==
  \A u \in Upload : engine.call = u => uploads[u].phase # "free" /\ uploads[u].item = engine.item

(* An event enters the books once, and an answer that settles it is true.  *)
BookedOnce == \A i \in Item : booked[i] \in {0, 1}

AnswersAreTrue ==
  \A u \in Upload : Settles(uploads[u].answer) =>
    uploads[u].item \in 1 .. made /\ booked[uploads[u].item] = 1

EngineType == [running : BOOLEAN, todo : SUBSET Item, item : 0 .. NumItems,
               call : Upload \cup {Nobody}]

IInv ==
  /\ TypeOK /\ PhoneKnows /\ ServerKnows /\ LettersKnow /\ CallIsItem
  /\ BookedOnce /\ AnswersAreTrue /\ NothingForgotten /\ ResolvedIsBooked

(* Books only grow, and an event is booked while it is one of those queued.*)
Grows == \A i \in Item : booked[i] = 1 => booked'[i] = 1

-----------------------------------------------------------------------------
LEMMA Constants == /\ NumItems \in Nat /\ Effect \in [Item -> Int] /\ Opening \in Nat
                   /\ Nobody \notin Upload /\ 0 \in 0 .. NumItems /\ Worker \in Replayer
  BY OfflineConstants DEF Item, Replayer

LEMMA InitIInv == Init => IInv
<1> SUFFICES ASSUME Init PROVE IInv
  OBVIOUS
<1>1. TypeOK
  <2>1. letters \in Seq(Letter)
    BY EmptySeq DEF Init
  <2>2. made \in 0 .. NumItems /\ queue \in [Item -> Row] /\ uploads \in [Upload -> Task]
    BY Constants DEF Init, Item, Row, Gone, Free, Task
  <2>3. engine \in [running : BOOLEAN, todo : SUBSET Item, item : 0 .. NumItems,
                    call : Upload \cup {Nobody}]
    BY Constants DEF Init, Resting, Item
  <2>4. replays \in [Replayer -> Replay]
    BY DEF Init, Idle, Replay
  <2>5. booked \in [Item -> Nat] /\ stock \in Nat /\ pass \subseteq [letter : Nat, tries : Nat]
        /\ dayClosed \in BOOLEAN /\ kills \in Nat
    BY Constants DEF Init
  <2> QED BY <2>1, <2>2, <2>3, <2>4, <2>5 DEF TypeOK
<1>2. PhoneKnows /\ ServerKnows /\ CallIsItem
  BY Constants DEF Init, PhoneKnows, ServerKnows, CallIsItem, Gone, Resting, Free
<1>3. LettersKnow /\ ResolvedIsBooked
  BY DEF Init, LettersKnow, ResolvedIsBooked
<1>4. BookedOnce /\ AnswersAreTrue /\ NothingForgotten
  BY DEF Init, BookedOnce, AnswersAreTrue, NothingForgotten, Settles, Free
<1> QED BY <1>1, <1>2, <1>3, <1>4 DEF IInv

-----------------------------------------------------------------------------
(* What a step leaves alone stays right, while the books grow.             *)

LEMMA DeadKept ==
  ASSUME IInv, UNCHANGED <<letters, pass, replays>>, Grows, made' \in Nat, made <= made'
  PROVE  LettersKnow' /\ ResolvedIsBooked'
<1>0. TypeOK /\ LettersKnow /\ ResolvedIsBooked
  BY DEF IInv
<1>1. \A l \in DOMAIN letters : letters[l].item \in Item
  <2>1. \A l \in 1 .. Len(letters) : letters[l] \in Letter
    BY <1>0, ElementOfSeq DEF TypeOK
  <2>2. DOMAIN letters = 1 .. Len(letters)
    BY <1>0, LenProperties DEF TypeOK
  <2> QED BY <2>1, <2>2 DEF Letter
<1>2. LettersKnow'
  BY <1>0 DEF LettersKnow, TypeOK
<1>3. ResolvedIsBooked'
  BY <1>0, <1>1 DEF ResolvedIsBooked, Grows
<1> QED BY <1>2, <1>3

LEMMA PhoneKept ==
  ASSUME IInv, UNCHANGED <<made, queue, engine>>, Grows
  PROVE  PhoneKnows' /\ NothingForgotten'
<1>0. TypeOK /\ PhoneKnows /\ NothingForgotten
  BY DEF IInv
<1>1. 1 .. made \subseteq Item
  BY <1>0, Constants DEF TypeOK, Item
<1> QED BY <1>0, <1>1 DEF PhoneKnows, NothingForgotten, Grows

LEMMA UploadsKept ==
  ASSUME IInv, UNCHANGED uploads, Grows, made' \in Nat, made <= made'
  PROVE  ServerKnows' /\ AnswersAreTrue'
<1>0. TypeOK /\ ServerKnows /\ AnswersAreTrue
  BY DEF IInv
<1>1. 1 .. made \subseteq Item /\ made \in Nat
  BY <1>0, Constants DEF TypeOK, Item
<1> QED BY <1>0, <1>1 DEF ServerKnows, AnswersAreTrue, Grows, Settles

-----------------------------------------------------------------------------
(* The phone: the books and the letters stay as they are.                  *)

LEMMA EnqueueStep ==
  ASSUME IInv, Enqueue
  PROVE  IInv'
<1>0. TypeOK /\ PhoneKnows /\ ServerKnows /\ LettersKnow /\ CallIsItem /\ BookedOnce
      /\ AnswersAreTrue /\ NothingForgotten /\ ResolvedIsBooked
  BY DEF IInv
<1>1. /\ Grows /\ UNCHANGED <<letters, pass, replays, booked, stock, dayClosed>>
      /\ made' \in Nat /\ made <= made'
  BY <1>0, Constants DEF Enqueue, Grows, books, dead, phone, TypeOK
<1>t. /\ queue \in [Item -> Row] /\ engine \in EngineType /\ uploads \in [Upload -> Task]
      /\ made \in 0 .. NumItems /\ kills \in Nat
  BY <1>0 DEF TypeOK, EngineType
<1>2. TypeOK'
  <2>1. queue' \in [Item -> Row]
    BY <1>t, Constants DEF Enqueue, Row, Item
  <2>2. engine' \in EngineType
    BY <1>t, Constants DEF Enqueue, phone
  <2>3. uploads' \in [Upload -> Task]
    BY <1>t, Constants DEF Enqueue, phone
  <2>4. made' \in 0 .. NumItems /\ kills' \in Nat
    BY <1>t, Constants DEF Enqueue, phone
  <2> QED BY <1>0, <1>1, <2>1, <2>2, <2>3, <2>4 DEF TypeOK, EngineType
<1>3. PhoneKnows'
  BY <1>0, <1>1, Constants DEF Enqueue, PhoneKnows, With, TypeOK, Row, Gone, Resting, Free, Task, Idle, Item
<1>4. ServerKnows' /\ AnswersAreTrue'
  BY <1>1, UploadsKept DEF Enqueue
<1>5. CallIsItem'
  BY <1>0, Constants DEF Enqueue, CallIsItem, TypeOK, Row, Gone, Resting, Free, Task, Idle, Item
<1>6. NothingForgotten'
  BY <1>0, <1>1, Constants DEF Enqueue, NothingForgotten, AnswersAreTrue, CallIsItem, TypeOK, Row, Gone, Resting, Free, Task, Idle, Item
<1>7. LettersKnow' /\ ResolvedIsBooked'
  BY <1>1, DeadKept
<1>8. BookedOnce'
  BY <1>0, <1>1 DEF BookedOnce
<1> QED BY <1>2, <1>3, <1>4, <1>5, <1>6, <1>7, <1>8 DEF IInv

LEMMA SyncStep ==
  ASSUME IInv, Sync
  PROVE  IInv'
<1>0. TypeOK /\ PhoneKnows /\ ServerKnows /\ LettersKnow /\ CallIsItem /\ BookedOnce
      /\ AnswersAreTrue /\ NothingForgotten /\ ResolvedIsBooked
  BY DEF IInv
<1>1. /\ Grows /\ UNCHANGED <<letters, pass, replays, booked, stock, dayClosed>>
      /\ made' \in Nat /\ made <= made'
  BY <1>0, Constants DEF Sync, Grows, books, dead, phone, TypeOK
<1>t. /\ queue \in [Item -> Row] /\ engine \in EngineType /\ uploads \in [Upload -> Task]
      /\ made \in 0 .. NumItems /\ kills \in Nat
  BY <1>0 DEF TypeOK, EngineType
<1>a. /\ engine' = [running |-> TRUE, todo |-> With("pending"), item |-> 0, call |-> Nobody]
      /\ With("pending") \subseteq Item
  BY DEF Sync, Resting, With
<1>b. /\ \A i \in With("pending") : i <= made
      /\ \A i \in Item : queue'[i].status # "absent" => i <= made'
  BY <1>0 DEF Sync, With, PhoneKnows
<1>c. made' = made /\ 0 <= made
  BY <1>t DEF Sync
<1>2. TypeOK'
  <2>1. queue' \in [Item -> Row]
    BY <1>t, Constants, <1>a DEF Sync, phone
  <2>2. engine' \in EngineType
    BY <1>t, Constants, <1>a DEF Sync, EngineType, Resting, With
  <2>3. uploads' \in [Upload -> Task]
    BY <1>t, Constants, <1>a DEF Sync, phone
  <2>4. made' \in 0 .. NumItems /\ kills' \in Nat
    BY <1>t, Constants, <1>a DEF Sync, phone
  <2> QED BY <1>0, <1>1, <2>1, <2>2, <2>3, <2>4 DEF TypeOK, EngineType
<1>3. PhoneKnows'
  BY <1>a, <1>b, <1>c DEF PhoneKnows
<1>4. ServerKnows' /\ AnswersAreTrue'
  BY <1>1, UploadsKept DEF Sync
<1>5. CallIsItem'
  BY <1>0, Constants DEF Sync, CallIsItem, TypeOK, Row, Gone, Resting, Free, Task, Idle, Item
<1>6. NothingForgotten'
  BY <1>0, <1>1, Constants, <1>a DEF Sync, NothingForgotten, AnswersAreTrue, CallIsItem, TypeOK, Row, Gone, Resting, Free, Task, Idle, Item
<1>7. LettersKnow' /\ ResolvedIsBooked'
  BY <1>1, DeadKept
<1>8. BookedOnce'
  BY <1>0, <1>1 DEF BookedOnce
<1> QED BY <1>2, <1>3, <1>4, <1>5, <1>6, <1>7, <1>8 DEF IInv

LEMMA ExhaustStep ==
  ASSUME IInv, NEW i \in Item, Exhaust(i)
  PROVE  IInv'
<1>0. TypeOK /\ PhoneKnows /\ ServerKnows /\ LettersKnow /\ CallIsItem /\ BookedOnce
      /\ AnswersAreTrue /\ NothingForgotten /\ ResolvedIsBooked
  BY DEF IInv
<1>1. /\ Grows /\ UNCHANGED <<letters, pass, replays, booked, stock, dayClosed>>
      /\ made' \in Nat /\ made <= made'
  BY <1>0, Constants DEF Exhaust, Grows, books, dead, phone, TypeOK
<1>t. /\ queue \in [Item -> Row] /\ engine \in EngineType /\ uploads \in [Upload -> Task]
      /\ made \in 0 .. NumItems /\ kills \in Nat
  BY <1>0 DEF TypeOK, EngineType
<1>2. TypeOK'
  <2>1. queue' \in [Item -> Row]
    BY <1>t, Constants DEF Exhaust, IsNextItem, Row
  <2>2. engine' \in EngineType
    BY <1>t, Constants DEF Exhaust, IsNextItem, EngineType
  <2>3. uploads' \in [Upload -> Task]
    BY <1>t, Constants DEF Exhaust, IsNextItem, phone
  <2>4. made' \in 0 .. NumItems /\ kills' \in Nat
    BY <1>t, Constants DEF Exhaust, IsNextItem, phone
  <2> QED BY <1>0, <1>1, <2>1, <2>2, <2>3, <2>4 DEF TypeOK, EngineType
<1>3. PhoneKnows'
  BY <1>0, <1>1, Constants DEF Exhaust, IsNextItem, PhoneKnows, With, TypeOK, Row, Gone, Resting, Free, Task, Idle, Item
<1>4. ServerKnows' /\ AnswersAreTrue'
  BY <1>1, UploadsKept DEF Exhaust
<1>5. CallIsItem'
  BY <1>0, Constants DEF Exhaust, IsNextItem, CallIsItem, TypeOK, Row, Gone, Resting, Free, Task, Idle, Item
<1>6. NothingForgotten'
  BY <1>0, <1>1, Constants DEF Exhaust, IsNextItem, NothingForgotten, AnswersAreTrue, CallIsItem, TypeOK, Row, Gone, Resting, Free, Task, Idle, Item
<1>7. LettersKnow' /\ ResolvedIsBooked'
  BY <1>1, DeadKept
<1>8. BookedOnce'
  BY <1>0, <1>1 DEF BookedOnce
<1> QED BY <1>2, <1>3, <1>4, <1>5, <1>6, <1>7, <1>8 DEF IInv

LEMMA TransmitStep ==
  ASSUME IInv, NEW i \in Item, NEW u \in Upload \cup {Nobody}, Transmit(i, u)
  PROVE  IInv'
<1>0. TypeOK /\ PhoneKnows /\ ServerKnows /\ LettersKnow /\ CallIsItem /\ BookedOnce
      /\ AnswersAreTrue /\ NothingForgotten /\ ResolvedIsBooked
  BY DEF IInv
<1>1. /\ Grows /\ UNCHANGED <<letters, pass, replays, booked, stock, dayClosed>>
      /\ made' \in Nat /\ made <= made'
  BY <1>0, Constants DEF Transmit, Grows, books, dead, phone, TypeOK
<1>t. /\ queue \in [Item -> Row] /\ engine \in EngineType /\ uploads \in [Upload -> Task]
      /\ made \in 0 .. NumItems /\ kills \in Nat
  BY <1>0 DEF TypeOK, EngineType
<1>a. i \in 0 .. NumItems /\ i \in engine.todo /\ i <= made /\ made \in Nat /\ i \in 1 .. made
  BY <1>0, Constants DEF Transmit, IsNextItem, PhoneKnows, TypeOK, Item
<1>b. engine' = [running |-> engine.running, todo |-> engine.todo \ {i}, item |-> i, call |-> u]
  BY <1>t DEF Transmit, EngineType
<1>c. /\ u # Nobody => uploads[u] = Free
      /\ \A w \in Upload : uploads'[w] = IF w = u THEN [item |-> i, phase |-> "sent", answer |-> "none"]
                                        ELSE uploads[w]
  BY <1>t, Constants DEF Transmit
<1>d. uploads' = [w \in Upload |-> IF w = u THEN [item |-> i, phase |-> "sent", answer |-> "none"]
                                   ELSE uploads[w]]
  BY <1>t, Constants DEF Transmit
<1>2. TypeOK'
  <2>1. queue' \in [Item -> Row]
    BY <1>t, Constants, <1>a, <1>b, <1>c, <1>d DEF Transmit, Row
  <2>2. engine' \in EngineType
    BY <1>t, Constants, <1>a, <1>b, <1>c, <1>d DEF Transmit, EngineType
  <2>3. uploads' \in [Upload -> Task]
    BY <1>t, Constants, <1>a, <1>b, <1>c, <1>d DEF Transmit, Task
  <2>4. made' \in 0 .. NumItems /\ kills' \in Nat
    BY <1>t, Constants, <1>a, <1>b, <1>c, <1>d DEF Transmit, phone
  <2> QED BY <1>0, <1>1, <2>1, <2>2, <2>3, <2>4 DEF TypeOK, EngineType
<1>3. PhoneKnows'
  BY <1>0, <1>1, Constants, <1>a, <1>b, <1>c, <1>d DEF Transmit, PhoneKnows, With, TypeOK, Row, Gone, Resting, Free, Task, Idle, Item
<1>4. ServerKnows'
  BY <1>0, <1>1, Constants, <1>a, <1>b, <1>c, <1>d DEF Transmit, ServerKnows, PhoneKnows, TypeOK, Row, Gone, Resting, Free, Task, Idle, Item
<1>9. AnswersAreTrue'
  BY <1>0, <1>1, Constants, <1>a, <1>b, <1>c, <1>d DEF Transmit, AnswersAreTrue, Settles, TypeOK, Row, Gone, Resting, Free, Task, Idle, Item
<1>5. CallIsItem'
  BY <1>0, Constants DEF Transmit, CallIsItem, TypeOK, Row, Gone, Resting, Free, Task, Idle, Item
<1>6. NothingForgotten'
  BY <1>0, <1>1, Constants, <1>a, <1>b, <1>c, <1>d DEF Transmit, NothingForgotten, AnswersAreTrue, CallIsItem, TypeOK, Row, Gone, Resting, Free, Task, Idle, Item
<1>7. LettersKnow' /\ ResolvedIsBooked'
  BY <1>1, DeadKept
<1>8. BookedOnce'
  BY <1>0, <1>1 DEF BookedOnce
<1> QED BY <1>2, <1>3, <1>4, <1>5, <1>6, <1>7, <1>8, <1>9 DEF IInv

LEMMA FinishStep ==
  ASSUME IInv, Finish
  PROVE  IInv'
<1>0. TypeOK /\ PhoneKnows /\ ServerKnows /\ LettersKnow /\ CallIsItem /\ BookedOnce
      /\ AnswersAreTrue /\ NothingForgotten /\ ResolvedIsBooked
  BY DEF IInv
<1>1. /\ Grows /\ UNCHANGED <<letters, pass, replays, booked, stock, dayClosed>>
      /\ made' \in Nat /\ made <= made'
  BY <1>0, Constants DEF Finish, Grows, books, dead, phone, TypeOK
<1>t. /\ queue \in [Item -> Row] /\ engine \in EngineType /\ uploads \in [Upload -> Task]
      /\ made \in 0 .. NumItems /\ kills \in Nat
  BY <1>0 DEF TypeOK, EngineType
<1>2. TypeOK'
  <2>1. queue' \in [Item -> Row]
    BY <1>t, Constants DEF Finish, phone
  <2>2. engine' \in EngineType
    BY <1>t, Constants DEF Finish, EngineType, Resting
  <2>3. uploads' \in [Upload -> Task]
    BY <1>t, Constants DEF Finish, phone
  <2>4. made' \in 0 .. NumItems /\ kills' \in Nat
    BY <1>t, Constants DEF Finish, phone
  <2> QED BY <1>0, <1>1, <2>1, <2>2, <2>3, <2>4 DEF TypeOK, EngineType
<1>3. PhoneKnows'
  BY <1>0, <1>1, Constants DEF Finish, PhoneKnows, With, TypeOK, Row, Gone, Resting, Free, Task, Idle, Item
<1>4. ServerKnows' /\ AnswersAreTrue'
  BY <1>1, UploadsKept DEF Finish
<1>5. CallIsItem'
  BY <1>0, Constants DEF Finish, CallIsItem, TypeOK, Row, Gone, Resting, Free, Task, Idle, Item
<1>6. NothingForgotten'
  BY <1>0, <1>1, Constants DEF Finish, NothingForgotten, AnswersAreTrue, CallIsItem, TypeOK, Row, Gone, Resting, Free, Task, Idle, Item
<1>7. LettersKnow' /\ ResolvedIsBooked'
  BY <1>1, DeadKept
<1>8. BookedOnce'
  BY <1>0, <1>1 DEF BookedOnce
<1> QED BY <1>2, <1>3, <1>4, <1>5, <1>6, <1>7, <1>8 DEF IInv

LEMMA ReceiveStep ==
  ASSUME IInv, Receive
  PROVE  IInv'
<1>0. TypeOK /\ PhoneKnows /\ ServerKnows /\ LettersKnow /\ CallIsItem /\ BookedOnce
      /\ AnswersAreTrue /\ NothingForgotten /\ ResolvedIsBooked
  BY DEF IInv
<1>1. /\ Grows /\ UNCHANGED <<letters, pass, replays, booked, stock, dayClosed>>
      /\ made' \in Nat /\ made <= made'
  BY <1>0, Constants DEF Receive, Grows, books, dead, phone, TypeOK
<1>t. /\ queue \in [Item -> Row] /\ engine \in EngineType /\ uploads \in [Upload -> Task]
      /\ made \in 0 .. NumItems /\ kills \in Nat
  BY <1>0 DEF TypeOK, EngineType
<1>a. /\ engine.item \in Item /\ engine.call \in Upload /\ queue[engine.item] \in Row
      /\ uploads[engine.call].item = engine.item
  BY <1>0, Constants DEF Receive, TypeOK, Item, CallIsItem
<1>c. engine' = [running |-> engine.running, todo |-> engine.todo, item |-> 0, call |-> Nobody]
  BY <1>t DEF Receive, NextItem, EngineType
<1>b. queue' = [queue EXCEPT ![engine.item] =
        IF Settles(uploads[engine.call].answer) THEN Gone
        ELSE [status |-> "pending", tries |-> queue[engine.item].tries + 1]]
  BY DEF Receive, MarkFailed
<1>2. TypeOK'
  <2>1. queue' \in [Item -> Row]
    BY <1>t, Constants, <1>a, <1>b, <1>c DEF Receive, NextItem, Row, Gone
  <2>2. engine' \in EngineType
    BY <1>t, Constants, <1>a, <1>b, <1>c DEF Receive, NextItem, EngineType
  <2>3. uploads' \in [Upload -> Task]
    BY <1>t, Constants, <1>a, <1>b, <1>c DEF Receive, NextItem, Task, Free
  <2>4. made' \in 0 .. NumItems /\ kills' \in Nat
    BY <1>t, Constants, <1>a, <1>b, <1>c DEF Receive, NextItem, phone
  <2> QED BY <1>0, <1>1, <2>1, <2>2, <2>3, <2>4 DEF TypeOK, EngineType
<1>3. PhoneKnows'
  BY <1>0, <1>1, Constants, <1>a, <1>b, <1>c DEF Receive, NextItem, PhoneKnows, With, TypeOK, Row, Gone, Resting, Free, Task, Idle, Item
<1>4. ServerKnows'
  BY <1>0, <1>1, Constants, <1>a, <1>b, <1>c DEF Receive, NextItem, ServerKnows, PhoneKnows, TypeOK, Row, Gone, Resting, Free, Task, Idle, Item
<1>9. AnswersAreTrue'
  BY <1>0, <1>1, Constants, <1>a, <1>b, <1>c DEF Receive, NextItem, AnswersAreTrue, Settles, TypeOK, Row, Gone, Resting, Free, Task, Idle, Item
<1>5. CallIsItem'
  BY <1>0, Constants DEF Receive, NextItem, CallIsItem, TypeOK, Row, Gone, Resting, Free, Task, Idle, Item
<1>6. NothingForgotten'
  BY <1>0, <1>1, Constants, <1>a, <1>b, <1>c DEF Receive, NextItem, NothingForgotten, AnswersAreTrue, CallIsItem, TypeOK, Row, Gone, Resting, Free, Task, Idle, Item
<1>7. LettersKnow' /\ ResolvedIsBooked'
  BY <1>1, DeadKept
<1>8. BookedOnce'
  BY <1>0, <1>1 DEF BookedOnce
<1> QED BY <1>2, <1>3, <1>4, <1>5, <1>6, <1>7, <1>8, <1>9 DEF IInv

LEMMA GiveUpStep ==
  ASSUME IInv, GiveUp
  PROVE  IInv'
<1>0. TypeOK /\ PhoneKnows /\ ServerKnows /\ LettersKnow /\ CallIsItem /\ BookedOnce
      /\ AnswersAreTrue /\ NothingForgotten /\ ResolvedIsBooked
  BY DEF IInv
<1>1. /\ Grows /\ UNCHANGED <<letters, pass, replays, booked, stock, dayClosed>>
      /\ made' \in Nat /\ made <= made'
  BY <1>0, Constants DEF GiveUp, Grows, books, dead, phone, TypeOK
<1>t. /\ queue \in [Item -> Row] /\ engine \in EngineType /\ uploads \in [Upload -> Task]
      /\ made \in 0 .. NumItems /\ kills \in Nat
  BY <1>0 DEF TypeOK, EngineType
<1>a. engine.item \in Item /\ queue[engine.item] \in Row
  BY <1>0, Constants DEF GiveUp, TypeOK, Item
<1>b. engine' = [running |-> engine.running, todo |-> engine.todo, item |-> 0, call |-> Nobody]
  BY <1>t DEF GiveUp, NextItem, EngineType
<1>2. TypeOK'
  <2>1. queue' \in [Item -> Row]
    BY <1>t, Constants, <1>a, <1>b DEF GiveUp, MarkFailed, NextItem, HangUp, Row
  <2>2. engine' \in EngineType
    BY <1>t, Constants, <1>a, <1>b DEF GiveUp, MarkFailed, NextItem, HangUp, EngineType
  <2>3. uploads' \in [Upload -> Task]
    BY <1>t, Constants, <1>a, <1>b DEF GiveUp, MarkFailed, NextItem, HangUp, Task, Free
  <2>4. made' \in 0 .. NumItems /\ kills' \in Nat
    BY <1>t, Constants, <1>a, <1>b DEF GiveUp, MarkFailed, NextItem, HangUp, phone
  <2> QED BY <1>0, <1>1, <2>1, <2>2, <2>3, <2>4 DEF TypeOK, EngineType
<1>3. PhoneKnows'
  BY <1>0, <1>1, Constants, <1>a, <1>b DEF GiveUp, MarkFailed, NextItem, HangUp, PhoneKnows, With, TypeOK, Row, Gone, Resting, Free, Task, Idle, Item
<1>4. ServerKnows'
  BY <1>0, <1>1, Constants, <1>a, <1>b DEF GiveUp, MarkFailed, NextItem, HangUp, ServerKnows, PhoneKnows, TypeOK, Row, Gone, Resting, Free, Task, Idle, Item
<1>9. AnswersAreTrue'
  BY <1>0, <1>1, Constants, <1>a, <1>b DEF GiveUp, MarkFailed, NextItem, HangUp, AnswersAreTrue, Settles, TypeOK, Row, Gone, Resting, Free, Task, Idle, Item
<1>5. CallIsItem'
  BY <1>0, Constants DEF GiveUp, MarkFailed, NextItem, HangUp, CallIsItem, TypeOK, Row, Gone, Resting, Free, Task, Idle, Item
<1>6. NothingForgotten'
  BY <1>0, <1>1, Constants, <1>a, <1>b DEF GiveUp, MarkFailed, NextItem, HangUp, NothingForgotten, AnswersAreTrue, CallIsItem, TypeOK, Row, Gone, Resting, Free, Task, Idle, Item
<1>7. LettersKnow' /\ ResolvedIsBooked'
  BY <1>1, DeadKept
<1>8. BookedOnce'
  BY <1>0, <1>1 DEF BookedOnce
<1> QED BY <1>2, <1>3, <1>4, <1>5, <1>6, <1>7, <1>8, <1>9 DEF IInv

LEMMA RetryFailedStep ==
  ASSUME IInv, NEW i \in Item, RetryFailed(i)
  PROVE  IInv'
<1>0. TypeOK /\ PhoneKnows /\ ServerKnows /\ LettersKnow /\ CallIsItem /\ BookedOnce
      /\ AnswersAreTrue /\ NothingForgotten /\ ResolvedIsBooked
  BY DEF IInv
<1>1. /\ Grows /\ UNCHANGED <<letters, pass, replays, booked, stock, dayClosed>>
      /\ made' \in Nat /\ made <= made'
  BY <1>0, Constants DEF RetryFailed, Grows, books, dead, phone, TypeOK
<1>t. /\ queue \in [Item -> Row] /\ engine \in EngineType /\ uploads \in [Upload -> Task]
      /\ made \in 0 .. NumItems /\ kills \in Nat
  BY <1>0 DEF TypeOK, EngineType
<1>2. TypeOK'
  <2>1. queue' \in [Item -> Row]
    BY <1>t, Constants DEF RetryFailed, Row
  <2>2. engine' \in EngineType
    BY <1>t, Constants DEF RetryFailed, phone
  <2>3. uploads' \in [Upload -> Task]
    BY <1>t, Constants DEF RetryFailed, phone
  <2>4. made' \in 0 .. NumItems /\ kills' \in Nat
    BY <1>t, Constants DEF RetryFailed, phone
  <2> QED BY <1>0, <1>1, <2>1, <2>2, <2>3, <2>4 DEF TypeOK, EngineType
<1>3. PhoneKnows'
  BY <1>0, <1>1, Constants DEF RetryFailed, PhoneKnows, With, TypeOK, Row, Gone, Resting, Free, Task, Idle, Item
<1>4. ServerKnows' /\ AnswersAreTrue'
  BY <1>1, UploadsKept DEF RetryFailed
<1>5. CallIsItem'
  BY <1>0, Constants DEF RetryFailed, CallIsItem, TypeOK, Row, Gone, Resting, Free, Task, Idle, Item
<1>6. NothingForgotten'
  BY <1>0, <1>1, Constants DEF RetryFailed, NothingForgotten, AnswersAreTrue, CallIsItem, TypeOK, Row, Gone, Resting, Free, Task, Idle, Item
<1>7. LettersKnow' /\ ResolvedIsBooked'
  BY <1>1, DeadKept
<1>8. BookedOnce'
  BY <1>0, <1>1 DEF BookedOnce
<1> QED BY <1>2, <1>3, <1>4, <1>5, <1>6, <1>7, <1>8 DEF IInv

LEMMA KillStep ==
  ASSUME IInv, Kill
  PROVE  IInv'
<1>0. TypeOK /\ PhoneKnows /\ ServerKnows /\ LettersKnow /\ CallIsItem /\ BookedOnce
      /\ AnswersAreTrue /\ NothingForgotten /\ ResolvedIsBooked
  BY DEF IInv
<1>1. /\ Grows /\ UNCHANGED <<letters, pass, replays, booked, stock, dayClosed>>
      /\ made' \in Nat /\ made <= made'
  BY <1>0, Constants DEF Kill, Grows, books, dead, phone, TypeOK
<1>t. /\ queue \in [Item -> Row] /\ engine \in EngineType /\ uploads \in [Upload -> Task]
      /\ made \in 0 .. NumItems /\ kills \in Nat
  BY <1>0 DEF TypeOK, EngineType
<1>2. TypeOK'
  <2>1. queue' \in [Item -> Row]
    BY <1>t, Constants DEF Kill, HangUp, phone
  <2>2. engine' \in EngineType
    BY <1>t, Constants DEF Kill, HangUp, EngineType, Resting
  <2>3. uploads' \in [Upload -> Task]
    BY <1>t, Constants DEF Kill, HangUp, Task, Free
  <2>4. made' \in 0 .. NumItems /\ kills' \in Nat
    BY <1>t, Constants DEF Kill, HangUp, phone
  <2> QED BY <1>0, <1>1, <2>1, <2>2, <2>3, <2>4 DEF TypeOK, EngineType
<1>3. PhoneKnows'
  BY <1>0, <1>1, Constants DEF Kill, HangUp, PhoneKnows, With, TypeOK, Row, Gone, Resting, Free, Task, Idle, Item
<1>4. ServerKnows'
  BY <1>0, <1>1, Constants DEF Kill, HangUp, ServerKnows, PhoneKnows, TypeOK, Row, Gone, Resting, Free, Task, Idle, Item
<1>9. AnswersAreTrue'
  BY <1>0, <1>1, Constants DEF Kill, HangUp, AnswersAreTrue, Settles, TypeOK, Row, Gone, Resting, Free, Task, Idle, Item
<1>5. CallIsItem'
  BY <1>0, Constants DEF Kill, HangUp, CallIsItem, TypeOK, Row, Gone, Resting, Free, Task, Idle, Item
<1>6. NothingForgotten'
  BY <1>0, <1>1, Constants DEF Kill, HangUp, NothingForgotten, AnswersAreTrue, CallIsItem, TypeOK, Row, Gone, Resting, Free, Task, Idle, Item
<1>7. LettersKnow' /\ ResolvedIsBooked'
  BY <1>1, DeadKept
<1>8. BookedOnce'
  BY <1>0, <1>1 DEF BookedOnce
<1> QED BY <1>2, <1>3, <1>4, <1>5, <1>6, <1>7, <1>8, <1>9 DEF IInv

-----------------------------------------------------------------------------
(* The books: a booking raises one event from none to one, and needs goods. *)

LEMMA BookItemStep ==
  ASSUME IInv, NEW i \in 1 .. made, booked[i] = 0, ~Short(i), BookItem(i)
  PROVE  /\ Grows /\ BookedOnce' /\ booked' \in [Item -> Nat] /\ stock' \in Nat
         /\ booked'[i] = 1
         /\ UNCHANGED made => Promise!Book(i)
<1>0. /\ TypeOK /\ BookedOnce /\ i \in Item /\ stock \in Nat /\ Effect[i] \in Int
      /\ booked \in [Item -> Nat]
  BY Constants DEF IInv, TypeOK, Item
<1>1. booked' = [booked EXCEPT ![i] = 1] /\ stock' = stock + Effect[i] /\ stock' >= 0
  BY <1>0 DEF BookItem, Short
<1>2. {j \in Item : booked'[j] > 0} = {j \in Item : booked[j] > 0} \cup {i}
  BY <1>0, <1>1
<1>3. UNCHANGED made => Promise!Book(i)
  BY <1>0, <1>1, <1>2 DEF Promise!Book
<1>4. Grows /\ BookedOnce'
  BY <1>0, <1>1 DEF Grows, BookedOnce
<1> QED BY <1>0, <1>1, <1>3, <1>4

-----------------------------------------------------------------------------
(* The endpoint: one request moves on; the phone does not notice.          *)

UploadInv == uploads \in [Upload -> Task] /\ ServerKnows /\ CallIsItem /\ AnswersAreTrue

LEMMA BecomeStep ==
  ASSUME IInv, NEW u \in Upload, NEW phase \in {"clear", "short"}, Become(u, phase),
         uploads[u].phase # "free", UNCHANGED <<made, queue, engine>>, Grows
  PROVE  UploadInv'
<1>0. /\ uploads \in [Upload -> Task] /\ ServerKnows /\ CallIsItem /\ AnswersAreTrue
      /\ 1 .. made \subseteq Item
  BY Constants DEF IInv, TypeOK, Item
<1>1. uploads' \in [Upload -> Task]
  BY <1>0 DEF Become, Task
<1>2. \A w \in Upload : /\ uploads'[w].item = uploads[w].item
                        /\ uploads'[w].answer = uploads[w].answer
                        /\ uploads'[w].phase # "free" <=> uploads[w].phase # "free"
  BY <1>0 DEF Become, Task
<1>3. ServerKnows' /\ CallIsItem'
  BY <1>0, <1>2 DEF ServerKnows, CallIsItem
<1>4. AnswersAreTrue'
  BY <1>0, <1>2 DEF AnswersAreTrue, Grows, Settles
<1> QED BY <1>1, <1>3, <1>4 DEF UploadInv

LEMMA AnswerStep ==
  ASSUME IInv, NEW u \in Upload, NEW a \in {"created", "duplicate", "error", "locked"},
         Answer(u, a), uploads[u].phase # "free", UNCHANGED <<made, queue, engine>>, Grows,
         Settles(a) => booked'[uploads[u].item] = 1
  PROVE  UploadInv'
<1>0. /\ uploads \in [Upload -> Task] /\ ServerKnows /\ CallIsItem /\ AnswersAreTrue
      /\ 1 .. made \subseteq Item /\ uploads[u].item \in 1 .. made
  BY Constants DEF IInv, TypeOK, Item, ServerKnows
<1> DEFINE said == [uploads[u] EXCEPT !.phase = "answered", !.answer = a]
           new  == IF engine.call = u THEN said ELSE Free
<1>1. uploads' = [uploads EXCEPT ![u] = new]
  BY DEF Answer
<1>2. said \in Task /\ said.item = uploads[u].item /\ said.phase = "answered" /\ said.answer = a
  BY <1>0 DEF Task
<1>3. Free \in Task /\ Free.phase = "free" /\ ~Settles(Free.answer)
  BY Constants DEF Free, Task, Settles
<1> HIDE DEF said
<1>4. /\ uploads' \in [Upload -> Task]
      /\ \A w \in Upload : uploads'[w] = IF w = u THEN new ELSE uploads[w]
  BY <1>0, <1>1, <1>2, <1>3
<1>5. ServerKnows'
  BY <1>0, <1>2, <1>3, <1>4 DEF ServerKnows
<1>6. CallIsItem'
  BY <1>0, <1>2, <1>4 DEF CallIsItem
<1>7. AnswersAreTrue'
  <2> SUFFICES ASSUME NEW w \in Upload, Settles(uploads'[w].answer)
               PROVE  uploads'[w].item \in 1 .. made /\ booked'[uploads'[w].item] = 1
    BY DEF AnswersAreTrue, Settles
  <2>1. CASE w = u
    BY <1>0, <1>2, <1>3, <1>4, <2>1
  <2>2. CASE w # u
    BY <1>0, <1>4, <2>2 DEF AnswersAreTrue, Grows, Settles
  <2> QED BY <2>1, <2>2
<1> QED BY <1>4, <1>5, <1>6, <1>7 DEF UploadInv

LEMMA RefuseStep ==
  ASSUME IInv, NEW u \in Upload, Refuse(u), uploads[u].phase # "free",
         UNCHANGED <<made, queue, engine>>, Grows
  PROVE  UploadInv'
<1>1. Answer(u, "error") \/ Become(u, "short")
  BY DEF Refuse
<1>2. ~Settles("error")
  BY DEF Settles
<1> QED BY <1>1, <1>2, AnswerStep, BecomeStep

(* What a request has to show when it left the letters alone.              *)
LEMMA EndpointStep ==
  ASSUME IInv, UNCHANGED <<made, queue, engine, letters, pass, replays, kills, dayClosed>>,
         Grows, UploadInv', BookedOnce', booked' \in [Item -> Nat], stock' \in Nat
  PROVE  IInv'
<1>1. TypeOK'
  BY DEF IInv, TypeOK, UploadInv
<1>2. made' \in Nat /\ made <= made'
  BY Constants DEF IInv, TypeOK
<1> QED BY <1>1, <1>2, PhoneKept, DeadKept DEF IInv, UploadInv

LEMMA AdmitStep ==
  ASSUME IInv, NEW u \in Upload, Admit(u)
  PROVE  IInv'
<1>0. /\ uploads[u].phase = "sent" /\ ServerKnows /\ BookedOnce
      /\ booked \in [Item -> Nat] /\ stock \in Nat /\ 1 .. made \subseteq Item
  BY Constants DEF Admit, IInv, TypeOK, Item
<1>1. Grows /\ UNCHANGED <<made, queue, engine, letters, pass, replays, booked, stock, kills, dayClosed>>
  BY DEF Admit, phone, books, dead, Grows
<1>2. UploadInv'
  <2>1. CASE Answer(u, "locked")
    BY <1>0, <1>1, <2>1, AnswerStep DEF Settles
  <2>2. CASE booked[uploads[u].item] > 0 /\ Answer(u, "duplicate")
    <3>1. booked'[uploads[u].item] = 1
      BY <1>0, <1>1, <2>2 DEF ServerKnows, BookedOnce
    <3> QED BY <1>0, <1>1, <2>2, <3>1, AnswerStep
  <2>3. CASE Become(u, "clear")
    BY <1>0, <1>1, <2>3, BecomeStep
  <2> QED BY <2>1, <2>2, <2>3 DEF Admit
<1> QED BY <1>0, <1>1, <1>2, EndpointStep DEF BookedOnce

LEMMA WriteStep ==
  ASSUME IInv, NEW u \in Upload, Write(u)
  PROVE  IInv'
<1> DEFINE i == uploads[u].item
<1>0. /\ uploads[u].phase = "clear" /\ ServerKnows /\ BookedOnce
      /\ booked \in [Item -> Nat] /\ stock \in Nat /\ 1 .. made \subseteq Item
  BY Constants DEF Write, IInv, TypeOK, Item
<1>1. UNCHANGED <<made, queue, engine, letters, pass, replays, kills, dayClosed>>
  BY DEF Write, phone, dead
<1>2. i \in 1 .. made
  BY <1>0 DEF ServerKnows
<1>3. CASE booked[i] > 0 /\ Answer(u, "duplicate") /\ UNCHANGED books
  <2>1. Grows /\ BookedOnce' /\ UNCHANGED <<booked, stock>>
    BY <1>0, <1>3 DEF books, Grows, BookedOnce
  <2>2. booked'[i] = 1
    BY <1>0, <1>2, <1>3, <2>1 DEF BookedOnce
  <2>3. UploadInv'
    BY <1>0, <1>1, <1>3, <2>1, <2>2, AnswerStep
  <2> QED BY <1>0, <1>1, <2>1, <2>3, EndpointStep
<1>4. CASE Refuse(u) /\ UNCHANGED books
  <2>1. Grows /\ BookedOnce' /\ UNCHANGED <<booked, stock>>
    BY <1>0, <1>4 DEF books, Grows, BookedOnce
  <2>2. UploadInv'
    BY <1>0, <1>1, <1>4, <2>1, RefuseStep
  <2> QED BY <1>0, <1>1, <2>1, <2>2, EndpointStep
<1>5. CASE booked[i] = 0 /\ ~Short(i) /\ BookItem(i) /\ Answer(u, "created")
  <2>1. /\ Grows /\ BookedOnce' /\ booked' \in [Item -> Nat] /\ stock' \in Nat
        /\ booked'[i] = 1
    BY <1>2, <1>5, BookItemStep
  <2>2. UploadInv'
    BY <1>0, <1>1, <1>5, <2>1, AnswerStep
  <2> QED BY <1>1, <2>1, <2>2, EndpointStep
<1> QED BY <1>3, <1>4, <1>5 DEF Write

LEMMA DropStep ==
  ASSUME IInv, NEW u \in Upload, Drop(u)
  PROVE  IInv'
<1>0. TypeOK /\ PhoneKnows /\ ServerKnows /\ CallIsItem /\ AnswersAreTrue /\ NothingForgotten
      /\ BookedOnce
  BY DEF IInv
<1>1. /\ Grows /\ UNCHANGED <<made, queue, booked, stock, letters, pass, replays, dayClosed, kills>>
      /\ made' \in Nat /\ made <= made'
  BY <1>0, Constants DEF Drop, books, dead, Grows, TypeOK
<1>2. /\ uploads' = [uploads EXCEPT ![u] = Free]
      /\ engine' = [running |-> engine.running, todo |-> engine.todo, item |-> engine.item,
                    call |-> IF engine.call = u THEN Nobody ELSE engine.call]
  BY <1>0 DEF Drop, TypeOK
<1>3. uploads' \in [Upload -> Task] /\ engine' \in EngineType
  BY <1>0, <1>2, Constants DEF TypeOK, Task, Free, EngineType
<1>4. TypeOK'
  BY <1>0, <1>1, <1>3 DEF TypeOK, EngineType
<1>5. PhoneKnows' /\ NothingForgotten'
  BY <1>0, <1>1, <1>2 DEF PhoneKnows, NothingForgotten
<1>6. ServerKnows' /\ AnswersAreTrue'
  BY <1>0, <1>1, <1>2 DEF ServerKnows, AnswersAreTrue, Settles, Free, TypeOK
<1>7. CallIsItem'
  BY <1>0, <1>2, Constants DEF CallIsItem, TypeOK
<1>8. LettersKnow' /\ ResolvedIsBooked' /\ BookedOnce'
  BY <1>0, <1>1, DeadKept DEF BookedOnce
<1> QED BY <1>4, <1>5, <1>6, <1>7, <1>8 DEF IInv

LEMMA DayStep ==
  ASSUME IInv, CloseDay \/ ReopenDay
  PROVE  IInv'
<1>1. /\ UNCHANGED <<phone, uploads, books, dead, kills>> /\ dayClosed' \in BOOLEAN
  BY DEF CloseDay, ReopenDay
<1> QED BY <1>1
        DEF phone, books, dead, IInv, TypeOK, PhoneKnows, ServerKnows, LettersKnow, CallIsItem,
            BookedOnce, AnswersAreTrue, Settles, NothingForgotten, ResolvedIsBooked

-----------------------------------------------------------------------------
(* Dead letters: the phone and its requests do not notice.                 *)

Statuses == {"pending", "resolved", "failed"}

LEMMA LetterTypes ==
  ASSUME TypeOK
  PROVE  /\ DOMAIN letters = 1 .. Len(letters)
         /\ letters \in [DOMAIN letters -> Letter]
  BY LenProperties DEF TypeOK

(* What has to be shown of a step over the letters.                        *)
LEMMA DeadStep ==
  ASSUME IInv, UNCHANGED <<made, queue, engine, uploads, dayClosed>>, Grows, BookedOnce',
         booked' \in [Item -> Nat], stock' \in Nat, kills' \in Nat,
         letters' \in Seq(Letter), pass' \subseteq [letter : Nat, tries : Nat],
         replays' \in [Replayer -> Replay], LettersKnow', ResolvedIsBooked'
  PROVE  IInv'
<1>1. TypeOK'
  BY DEF IInv, TypeOK
<1>2. made' \in Nat /\ made <= made'
  BY Constants DEF IInv, TypeOK
<1>3. CallIsItem'
  BY DEF IInv, CallIsItem
<1> QED BY <1>1, <1>2, <1>3, PhoneKept, UploadsKept DEF IInv

Rewritten(letter, status, tries) == [letter EXCEPT !.status = status, !.tries = tries]

LEMMA RewrittenLetter ==
  ASSUME NEW letter \in Letter, NEW status \in Statuses, NEW tries \in Nat
  PROVE  /\ Rewritten(letter, status, tries) \in Letter
         /\ Rewritten(letter, status, tries).item = letter.item
         /\ Rewritten(letter, status, tries).waived = letter.waived
         /\ Rewritten(letter, status, tries).status = status
  BY DEF Letter, Statuses, Rewritten

(* A letter is rewritten: no letter changes its event, and one that is     *)
(* resolved by it is the one that was seen.                                *)
LEMMA PutStep ==
  ASSUME TypeOK, NEW seen, seen.letter \in DOMAIN letters, NEW status \in Statuses,
         NEW tries \in Nat, Put(seen, status, tries)
  PROVE  /\ letters' \in Seq(Letter) /\ DOMAIN letters' = DOMAIN letters
         /\ \A l \in DOMAIN letters :
              /\ letters'[l].item = letters[l].item /\ letters'[l].waived = letters[l].waived
              /\ \/ letters'[l].status = letters[l].status
                 \/ (l = seen.letter /\ letters'[l].status = status)
<1> DEFINE k == seen.letter
           st  == IF status = seen.status THEN letters[k].status ELSE status
           tr  == IF tries = seen.tries THEN letters[k].tries ELSE tries
           new == Rewritten(letters[k], st, tr)
<1>1. letters \in Seq(Letter) /\ k \in 1 .. Len(letters) /\ letters[k] \in Letter
      /\ DOMAIN letters = 1 .. Len(letters)
  BY LetterTypes DEF TypeOK
<1>2. st \in Statuses /\ tr \in Nat /\ (st = letters[k].status \/ st = status)
  BY <1>1 DEF Letter, Statuses
<1>4. letters' = [letters EXCEPT ![k] = new]
  BY <1>1 DEF Put, Rewritten
<1> HIDE DEF st, tr
<1>3. /\ new \in Letter /\ new.item = letters[k].item /\ new.waived = letters[k].waived
      /\ new.status = st
  BY <1>1, <1>2, RewrittenLetter, ZenonT(40)
<1> HIDE DEF new
<1>5. /\ letters' \in Seq(Letter) /\ Len(letters') = Len(letters)
      /\ \A j \in 1 .. Len(letters) : letters'[j] = IF j = k THEN new ELSE letters[j]
  BY <1>1, <1>3, <1>4, ExceptSeq
<1>6. DOMAIN letters' = DOMAIN letters
  BY <1>1, <1>5, LenProperties
<1>7. ASSUME NEW l \in DOMAIN letters
      PROVE  /\ letters'[l].item = letters[l].item /\ letters'[l].waived = letters[l].waived
             /\ \/ letters'[l].status = letters[l].status
                \/ (l = seen.letter /\ letters'[l].status = status)
  <2>1. CASE l = k
    <3>1. letters'[l] = new /\ letters[l] = letters[k]
      BY <1>1, <1>5, <2>1
    <3>2. letters'[l].status = letters[l].status \/ letters'[l].status = status
      BY <1>2, <1>3, <3>1
    <3> QED BY <1>3, <2>1, <3>1, <3>2
  <2>2. CASE l # k
    <3>1. letters'[l] = letters[l]
      BY <1>1, <1>5, <2>2
    <3> QED BY <3>1
  <2> QED BY <2>1, <2>2
<1> QED BY <1>5, <1>6, <1>7

(* ... and so the letters are right afterwards, if the event of the one    *)
(* that is resolved is booked by then.                                     *)
LEMMA PutKeeps ==
  ASSUME IInv, NEW seen, seen.letter \in DOMAIN letters, NEW status \in Statuses,
         NEW tries \in Nat, Put(seen, status, tries), UNCHANGED made, Grows,
         pass' \subseteq pass, replays' \in [Replayer -> Replay],
         \A r \in Replayer : replays'[r] # Idle => replays'[r].letter \in DOMAIN letters,
         status = "resolved" => booked'[letters[seen.letter].item] = 1
  PROVE  letters' \in Seq(Letter) /\ LettersKnow' /\ ResolvedIsBooked'
<1>0. TypeOK /\ LettersKnow /\ ResolvedIsBooked
  BY DEF IInv
<1>1. /\ letters' \in Seq(Letter) /\ DOMAIN letters' = DOMAIN letters
      /\ \A l \in DOMAIN letters :
           /\ letters'[l].item = letters[l].item /\ letters'[l].waived = letters[l].waived
           /\ \/ letters'[l].status = letters[l].status
              \/ (l = seen.letter /\ letters'[l].status = status)
  BY <1>0, PutStep
<1>2. LettersKnow'
  BY <1>0, <1>1 DEF LettersKnow, Idle
<1>3. \A l \in DOMAIN letters : letters[l].item \in Item
  BY <1>0, LetterTypes DEF Letter
<1>4. ResolvedIsBooked'
  BY <1>0, <1>1, <1>3 DEF ResolvedIsBooked, Grows
<1> QED BY <1>1, <1>2, <1>4

(* An event that is replayed or looked up is one of those queued.          *)
LEMMA LetterEvent ==
  ASSUME IInv, NEW l \in DOMAIN letters
  PROVE  /\ letters[l].item \in 1 .. made /\ letters[l].item \in Item
         /\ letters[l].status \in Statuses /\ letters[l].tries \in Nat /\ l \in Nat
<1>1. letters[l] \in Letter /\ l \in Nat
  BY LetterTypes DEF IInv
<1> QED BY <1>1 DEF IInv, LettersKnow, Letter, Statuses

LEMMA ScanStep ==
  ASSUME IInv, NEW due \in SUBSET DOMAIN letters, Scan(due)
  PROVE  IInv'
<1>1. /\ UNCHANGED <<made, queue, engine, uploads, dayClosed, booked, stock, letters, replays, kills>>
      /\ pass' = {[letter |-> l, tries |-> letters[l].tries] : l \in due}
      /\ Grows
  BY DEF Scan, phone, books, Grows
<1>2. \A p \in pass' : p.letter \in DOMAIN letters /\ p \in [letter : Nat, tries : Nat]
  BY <1>1, LetterEvent
<1>3. LettersKnow' /\ ResolvedIsBooked' /\ BookedOnce'
  BY <1>1, <1>2 DEF IInv, LettersKnow, ResolvedIsBooked, BookedOnce
<1> QED BY <1>1, <1>2, <1>3, DeadStep DEF IInv, TypeOK

(* Look, with a replayer that has nothing under way.                       *)
LEMMA LookStep ==
  ASSUME IInv, NEW r \in Replayer, NEW seen \in Replay, seen.letter \in DOMAIN letters,
         Look(r, seen), UNCHANGED <<made, queue, engine, uploads, dayClosed, booked, stock, kills>>,
         pass' \subseteq pass
  PROVE  IInv'
<1>1. TypeOK /\ LettersKnow /\ Grows /\ BookedOnce'
  BY DEF IInv, Grows, BookedOnce
<1>2. pass' \subseteq [letter : Nat, tries : Nat]
  BY <1>1 DEF TypeOK
<1>3. CASE booked[letters[seen.letter].item] > 0 /\ Resolve(seen) /\ UNCHANGED replays
  <2>1. booked'[letters[seen.letter].item] = 1
    BY <1>3, LetterEvent DEF IInv, BookedOnce
  <2>2. seen.tries \in Nat /\ "resolved" \in Statuses
    BY DEF Replay, Statuses
  <2>3. letters' \in Seq(Letter) /\ LettersKnow' /\ ResolvedIsBooked'
    BY <1>1, <1>3, <2>1, <2>2, PutKeeps DEF Resolve, TypeOK, LettersKnow
  <2> QED BY <1>1, <1>2, <1>3, <2>3, DeadStep DEF TypeOK
<1>4. CASE replays' = [replays EXCEPT ![r] = seen] /\ UNCHANGED letters
  <2>1. replays' \in [Replayer -> Replay]
    BY <1>1, <1>4 DEF TypeOK
  <2>2. LettersKnow' /\ ResolvedIsBooked'
    BY <1>1, <1>4 DEF LettersKnow, ResolvedIsBooked, IInv, TypeOK, Idle
  <2> QED BY <1>1, <1>2, <1>4, <2>1, <2>2, DeadStep DEF TypeOK
<1> QED BY <1>3, <1>4 DEF Look

LEMMA PickStep ==
  ASSUME IInv, NEW p \in pass, Pick(p)
  PROVE  IInv'
<1> DEFINE seen == [letter |-> p.letter, status |-> "pending", tries |-> p.tries]
<1>1. seen \in Replay /\ seen.letter \in DOMAIN letters
  BY DEF IInv, TypeOK, LettersKnow, Replay
<1>2. /\ Look(Worker, seen) /\ pass' \subseteq pass
      /\ UNCHANGED <<made, queue, engine, uploads, dayClosed, booked, stock, kills>>
  BY DEF Pick, phone, books
<1> HIDE DEF seen
<1> QED BY <1>1, <1>2, Constants, LookStep

LEMMA OpenStep ==
  ASSUME IInv, NEW a \in Admin, NEW l \in DOMAIN letters, Open(a, l)
  PROVE  IInv'
<1> DEFINE seen == [letter |-> l, status |-> letters[l].status, tries |-> letters[l].tries]
<1>1. seen \in Replay /\ seen.letter \in DOMAIN letters
  BY LetterEvent DEF Replay, Statuses
<1>2. /\ Look(a, seen) /\ pass' \subseteq pass /\ a \in Replayer
      /\ UNCHANGED <<made, queue, engine, uploads, dayClosed, booked, stock, kills>>
  BY DEF Open, phone, books, Replayer
<1> HIDE DEF seen
<1> QED BY <1>1, <1>2, LookStep

LEMMA RedoStep ==
  ASSUME IInv, NEW r \in Replayer, Redo(r)
  PROVE  IInv'
<1> DEFINE seen == replays[r]
           i    == letters[seen.letter].item
<1>0. TypeOK /\ LettersKnow
  BY DEF IInv
<1>1. /\ seen \in Replay /\ seen.letter \in DOMAIN letters
      /\ replays' = [replays EXCEPT ![r] = Idle]
      /\ UNCHANGED <<made, queue, engine, uploads, dayClosed, pass, kills>>
  BY <1>0 DEF Redo, Close, phone, TypeOK, LettersKnow
<1>2. i \in 1 .. made
  BY <1>1, LetterEvent
<1>3. /\ replays' \in [Replayer -> Replay]
      /\ \A s \in Replayer : replays'[s] # Idle => replays'[s].letter \in DOMAIN letters
  BY <1>0, <1>1 DEF TypeOK, LettersKnow, Replay, Idle
<1>4. seen.tries \in Nat /\ seen.tries + 1 \in Nat /\ Statuses = {"pending", "resolved", "failed"}
  BY <1>1 DEF Replay, Statuses
<1>5. CASE Postpone(seen) /\ UNCHANGED books
  <2>1. Grows /\ BookedOnce' /\ UNCHANGED <<booked, stock>>
    BY <1>5 DEF books, Grows, IInv, BookedOnce
  <2>2. PICK status \in {"pending", "failed"} : Put(seen, status, seen.tries + 1)
    BY <1>5 DEF Postpone
  <2>3. letters' \in Seq(Letter) /\ LettersKnow' /\ ResolvedIsBooked'
    BY <1>1, <1>3, <1>4, <2>1, <2>2, PutKeeps
  <2> QED BY <1>0, <1>1, <1>3, <2>1, <2>3, DeadStep DEF TypeOK
<1>6. CASE booked[i] = 0 /\ ~Short(i) /\ BookItem(i) /\ Resolve(seen)
  <2>1. /\ Grows /\ BookedOnce' /\ booked' \in [Item -> Nat] /\ stock' \in Nat
        /\ booked'[i] = 1
    BY <1>2, <1>6, BookItemStep
  <2>2. letters' \in Seq(Letter) /\ LettersKnow' /\ ResolvedIsBooked'
    BY <1>1, <1>3, <1>4, <1>6, <2>1, PutKeeps DEF Resolve
  <2> QED BY <1>0, <1>1, <1>3, <2>1, <2>2, DeadStep DEF TypeOK
<1> QED BY <1>5, <1>6 DEF Redo, Target


(* A new letter: it is about a queued event and is not resolved.           *)
LEMMA BuryStep ==
  ASSUME IInv, NEW u \in Upload, Bury(u)
  PROVE  IInv'
<1> DEFINE new == [item |-> uploads[u].item, status |-> "pending", tries |-> 0, waived |-> FALSE]
<1>0. TypeOK /\ ServerKnows /\ LettersKnow /\ ResolvedIsBooked /\ BookedOnce
  BY DEF IInv
<1>1. /\ UNCHANGED <<made, queue, engine, booked, stock, pass, replays, dayClosed, kills>>
      /\ Grows /\ uploads[u].phase # "free" /\ letters' = Append(letters, new)
      /\ Answer(u, "error")
  BY DEF Bury, phone, books, Grows
<1>2. new.item \in 1 .. made /\ made \in Nat /\ made <= NumItems
  BY <1>0, <1>1 DEF ServerKnows, TypeOK
<1>3. new \in Letter
  BY <1>2, Constants DEF Letter, Item
<1>4. new.item \in 1 .. made /\ new.status # "resolved"
  BY <1>2
<1> HIDE DEF new
<1>5. /\ letters \in Seq(Letter) /\ Len(letters) \in Nat /\ DOMAIN letters = 1 .. Len(letters)
  BY <1>0, LenProperties DEF TypeOK
<1>6. /\ letters' \in Seq(Letter) /\ Len(letters') = Len(letters) + 1
      /\ \A l \in 1 .. Len(letters) : letters'[l] = letters[l]
      /\ letters'[Len(letters) + 1] = new
  BY <1>1, <1>3, <1>5, AppendProperties
<1>7. DOMAIN letters' = 1 .. Len(letters) + 1
  BY <1>6, LenProperties
<1>8. /\ DOMAIN letters \subseteq DOMAIN letters'
      /\ \A l \in DOMAIN letters' :
           (l \in DOMAIN letters /\ letters'[l] = letters[l]) \/ letters'[l] = new
  BY <1>5, <1>6, <1>7
<1>9. LettersKnow' /\ ResolvedIsBooked'
  BY <1>0, <1>1, <1>4, <1>8 DEF LettersKnow, ResolvedIsBooked
<1>10. UploadInv'
  <2>1. ~Settles("error")
    BY DEF Settles
  <2> QED BY <1>1, <2>1, AnswerStep
<1>11. TypeOK'
  BY <1>0, <1>1, <1>6, <1>10 DEF TypeOK, UploadInv
<1>12. BookedOnce'
  BY <1>0, <1>1 DEF BookedOnce
<1> QED BY <1>1, <1>9, <1>10, <1>11, <1>12, PhoneKept DEF IInv, UploadInv

LEMMA WaiveStep ==
  ASSUME IInv, NEW l \in DOMAIN letters, Waive(l)
  PROVE  IInv'
<1> DEFINE new == [letters[l] EXCEPT !.status = "resolved", !.waived = TRUE]
<1>0. TypeOK /\ LettersKnow /\ ResolvedIsBooked
  BY DEF IInv
<1>1. /\ UNCHANGED <<made, queue, engine, uploads, booked, stock, pass, replays, dayClosed, kills>>
      /\ Grows /\ BookedOnce'
  BY DEF Waive, phone, books, Grows, IInv, BookedOnce
<1>2. letters \in Seq(Letter) /\ DOMAIN letters = 1 .. Len(letters) /\ letters[l] \in Letter
  BY <1>0, LetterTypes DEF TypeOK
<1>3. letters' = [letters EXCEPT ![l] = new]
  BY DEF Waive
<1>4. new \in Letter /\ new.item = letters[l].item /\ new.waived = TRUE
  BY <1>2 DEF Letter
<1> HIDE DEF new
<1>5. /\ letters' \in Seq(Letter) /\ Len(letters') = Len(letters)
      /\ \A j \in 1 .. Len(letters) : letters'[j] = IF j = l THEN new ELSE letters[j]
  BY <1>2, <1>3, <1>4, ExceptSeq
<1>6. DOMAIN letters' = DOMAIN letters
  BY <1>2, <1>5, LenProperties
<1>7. LettersKnow'
  BY <1>0, <1>1, <1>2, <1>4, <1>5, <1>6 DEF LettersKnow
<1>8. ResolvedIsBooked'
  BY <1>0, <1>1, <1>2, <1>4, <1>5, <1>6 DEF ResolvedIsBooked
<1> QED BY <1>0, <1>1, <1>5, <1>7, <1>8, DeadStep DEF TypeOK

LEMMA AbortStep ==
  ASSUME IInv, NEW r \in Replayer, Abort(r)
  PROVE  IInv'
<1>0. TypeOK /\ LettersKnow /\ ResolvedIsBooked
  BY DEF IInv
<1>1. /\ UNCHANGED <<made, queue, engine, uploads, booked, stock, letters, dayClosed>>
      /\ Grows /\ BookedOnce' /\ pass' \subseteq pass /\ kills' \in Nat
      /\ replays' = [replays EXCEPT ![r] = Idle]
  BY <1>0 DEF Abort, Close, phone, books, Grows, IInv, BookedOnce, TypeOK
<1>2. replays' \in [Replayer -> Replay]
  BY <1>0, <1>1 DEF TypeOK, Replay, Idle
<1>3. LettersKnow' /\ ResolvedIsBooked'
  BY <1>0, <1>1 DEF LettersKnow, ResolvedIsBooked, TypeOK
<1> QED BY <1>0, <1>1, <1>2, <1>3, DeadStep DEF TypeOK

-----------------------------------------------------------------------------
LEMMA NextStep ==
  ASSUME IInv, Next
  PROVE  IInv'
<1>1. CASE Enqueue \/ Sync \/ Finish \/ Receive \/ GiveUp \/ Kill
  BY <1>1, EnqueueStep, SyncStep, FinishStep, ReceiveStep, GiveUpStep, KillStep
<1>2. CASE \E i \in Item : Exhaust(i) \/ RetryFailed(i)
  BY <1>2, ExhaustStep, RetryFailedStep
<1>3. CASE \E i \in Item, u \in Upload \cup {Nobody} : Transmit(i, u)
  BY <1>3, TransmitStep
<1>4. CASE \E u \in Upload : Admit(u) \/ Write(u) \/ Bury(u) \/ Drop(u)
  BY <1>4, AdmitStep, WriteStep, BuryStep, DropStep
<1>5. CASE CloseDay \/ ReopenDay
  BY <1>5, DayStep
<1>6. CASE \E due \in SUBSET DOMAIN letters : Scan(due)
  BY <1>6, ScanStep
<1>7. CASE \E p \in pass : Pick(p)
  BY <1>7, PickStep
<1>8. CASE \E a \in Admin, l \in DOMAIN letters : Open(a, l)
  BY <1>8, OpenStep
<1>9. CASE \E r \in Replayer : Redo(r) \/ Abort(r)
  BY <1>9, RedoStep, AbortStep
<1>10. CASE \E l \in DOMAIN letters : Waive(l)
  BY <1>10, WaiveStep
<1> QED BY <1>1, <1>2, <1>3, <1>4, <1>5, <1>6, <1>7, <1>8, <1>9, <1>10 DEF Next

LEMMA StutterStep ==
  ASSUME IInv, UNCHANGED vars
  PROVE  IInv'
BY DEF vars, phone, books, dead, IInv, TypeOK, PhoneKnows, ServerKnows, LettersKnow, CallIsItem,
       BookedOnce, AnswersAreTrue, Settles, NothingForgotten, ResolvedIsBooked

LEMMA IInvHolds == Spec => []IInv
<1>1. IInv /\ [Next]_vars => IInv'
  BY NextStep, StutterStep
<1> QED BY InitIInv, <1>1, PTL DEF Spec

(* The variables keep their types.                                         *)
THEOREM TypeCorrect == Spec => []TypeOK
<1>1. IInv => TypeOK
  BY DEF IInv
<1> QED BY IInvHolds, <1>1, PTL

(* What the phone deletes, and what a replay or a look counts as settled,  *)
(* is in the books (offline-sync.js, services/offline_sync.py).            *)
THEOREM SettledIsBookedHolds == Spec => []SettledIsBooked
<1>1. IInv => SettledIsBooked
  BY DEF IInv, SettledIsBooked
<1> QED BY IInvHolds, <1>1, PTL

-----------------------------------------------------------------------------
(* The refinement: only Enqueue, Write and Redo are seen from above.       *)

LEMMA PromiseInit == Init => Promise!Init
<1> SUFFICES ASSUME Init PROVE Promise!Init
  OBVIOUS
<1>1. 1 .. made = {}
  BY DEF Init
<1>2. {i \in Item : booked[i] > 0} = {}
  BY DEF Init
<1> QED BY <1>1, <1>2 DEF Init, Promise!Init

LEMMA BookingIsPromised ==
  ASSUME IInv, NEW i \in 1 .. made, booked[i] = 0, ~Short(i), BookItem(i), UNCHANGED made
  PROVE  Promise!Next
<1>1. i \in Item
  BY Constants DEF IInv, TypeOK, Item
<1>2. Promise!Book(i)
  BY BookItemStep
<1> QED BY <1>1, <1>2 DEF Promise!Next

LEMMA HiddenStep ==
  ASSUME UNCHANGED <<made, booked, stock>>
  PROVE  UNCHANGED Promise!vars
BY DEF Promise!vars

LEMMA EnqueueIsPromised ==
  ASSUME TypeOK, Enqueue
  PROVE  Promise!Next
<1>1. made \in Nat /\ made + 1 \in Item /\ made' = made + 1 /\ UNCHANGED <<booked, stock>>
  BY Constants DEF TypeOK, Enqueue, Item, books
<1>2. made + 1 \notin 1 .. made /\ 1 .. made' = (1 .. made) \cup {made + 1}
  BY <1>1
<1>3. Promise!Want(made + 1)
  BY <1>1, <1>2 DEF Promise!Want
<1> QED BY <1>1, <1>3 DEF Promise!Next

LEMMA NextIsPromised ==
  ASSUME IInv, Next
  PROVE  [Promise!Next]_(Promise!vars)
<1>0. TypeOK /\ ServerKnows /\ LettersKnow
  BY DEF IInv
<1>1. CASE Enqueue
  BY <1>0, <1>1, EnqueueIsPromised
<1>2. ASSUME NEW u \in Upload, Write(u)
      PROVE  [Promise!Next]_(Promise!vars)
  <2>1. uploads[u].item \in 1 .. made /\ UNCHANGED made
    BY <1>0, <1>2 DEF Write, phone, ServerKnows
  <2>2. CASE UNCHANGED books
    BY <2>1, <2>2, HiddenStep DEF books
  <2>3. CASE /\ booked[uploads[u].item] = 0 /\ ~Short(uploads[u].item)
             /\ BookItem(uploads[u].item)
    BY <1>0, <2>1, <2>3, BookingIsPromised
  <2> QED BY <1>2, <2>2, <2>3 DEF Write
<1>3. ASSUME NEW r \in Replayer, Redo(r)
      PROVE  [Promise!Next]_(Promise!vars)
  <2>1. Target(r) \in 1 .. made /\ UNCHANGED made
    BY <1>0, <1>3 DEF Redo, Target, phone, LettersKnow
  <2>2. CASE UNCHANGED books
    BY <2>1, <2>2, HiddenStep DEF books
  <2>3. CASE booked[Target(r)] = 0 /\ ~Short(Target(r)) /\ BookItem(Target(r))
    BY <1>0, <2>1, <2>3, BookingIsPromised
  <2> QED BY <1>3, <2>2, <2>3 DEF Redo
<1>4. CASE UNCHANGED <<made, booked, stock>>
  BY <1>4, HiddenStep
<1>5. CASE Sync \/ Finish \/ Receive \/ GiveUp \/ Kill \/ CloseDay \/ ReopenDay
  BY <1>4, <1>5 DEF Sync, Finish, Receive, GiveUp, Kill, CloseDay, ReopenDay, books, phone
<1>6. CASE \E i \in Item : \/ Exhaust(i) \/ RetryFailed(i)
                           \/ \E u \in Upload \cup {Nobody} : Transmit(i, u)
  BY <1>4, <1>6 DEF Exhaust, RetryFailed, Transmit, books
<1>7. CASE \E u \in Upload : Admit(u) \/ Bury(u) \/ Drop(u)
  BY <1>4, <1>7 DEF Admit, Bury, Drop, books, phone
<1>8. CASE (\E due \in SUBSET DOMAIN letters : Scan(due)) \/ (\E p \in pass : Pick(p))
  BY <1>4, <1>8 DEF Scan, Pick, books, phone
<1>9. CASE \E l \in DOMAIN letters : Waive(l) \/ \E a \in Admin : Open(a, l)
  BY <1>4, <1>9 DEF Waive, Open, books, phone
<1>10. CASE \E r \in Replayer : Abort(r)
  BY <1>4, <1>10 DEF Abort, books, phone
<1> QED BY <1>1, <1>2, <1>3, <1>5, <1>6, <1>7, <1>8, <1>9, <1>10 DEF Next

(* The channel implements the promise made of it: however often an event   *)
(* is sent, answered, replayed or forgotten on the way, the books and the  *)
(* stock move as if it were booked at most once and whole.                 *)
THEOREM KeepsPromise == Spec => EachKeyBookedOnce
<1>1. IInv /\ [Next]_vars => [Promise!Next]_(Promise!vars)
  <2> SUFFICES ASSUME IInv, [Next]_vars PROVE [Promise!Next]_(Promise!vars)
    OBVIOUS
  <2>1. CASE Next
    BY <2>1, NextIsPromised
  <2>2. CASE UNCHANGED vars
    BY <2>2, HiddenStep DEF vars, phone, books
  <2> QED BY <2>1, <2>2
<1> QED BY IInvHolds, PromiseInit, <1>1, PTL DEF Spec, EachKeyBookedOnce, Promise!Spec

=============================================================================
