------------------------------ MODULE VoicePage ------------------------------
(***************************************************************************)
(* The voice page of the mini program (miniprogram/pages/voice/voice.js)   *)
(* and its recorder (miniprogram/utils/recorder.js): something is said or  *)
(* typed, the server parses it into one or more logs, the page shows a     *)
(* card for each, and a card is confirmed, or corrected and confirmed, by  *)
(* a tap.  Every request is answered while the user goes on using the      *)
(* page.  The server books a log once (module VoiceLedger).                *)
(***************************************************************************)
EXTENDS Integers, FiniteSets, Sequences

CONSTANTS
  Parts,       \* how many events an utterance may be parsed into
  MaxSaid,     \* bound: utterances
  MaxLogs,     \* bound: logs of the server
  MaxCalls,    \* bound: requests under way at once
  MaxFaults    \* bound: answers lost, recorder errors, presses too soon

VARIABLES
  mode, state,
  said, cancelled,   \* utterances begun, and those called off
  tapes,       \* recordings whose onStop has not been reported, oldest first
  heard,       \* the promise startRecording last gave, none or what it is for
  flag,        \* _cancelledFlag
  calls,       \* requests under way: what, about which utterance or log, what
               \* is left of the chain it belongs to, how far it is
  cards,       \* log -> log whose content its card shows
  done, running,   \* cards marked as booked, _confirmAllRunning
  fix, saving, before,   \* log of the correction card (0: none), its
               \* submitting, _stateBeforeRespeak
  path,        \* _pendingUploadPath, 0 for none
  logs,        \* the server's logs: status and missing fields
  uploaded, tapped, \* recordings sent, logs the user saw and asked to book
  again, blurred,  \* pressed before the recorder had stopped; logs whose card
               \* another log's correction was written over
  faults

entry  == <<mode, state>>
record == <<said, cancelled, tapes, heard, flag, again>>
deck   == <<cards, done, running>>
card   == <<fix, saving, before>>
ghost  == <<uploaded, tapped, blurred>>
vars   == <<entry, record, calls, deck, card, path, logs, ghost, faults>>

Shown   == "shown"     \* success and confirm_needed
NoCards == <<>>

Init ==
  /\ mode = "voice" /\ state = "idle"
  /\ said = 0 /\ cancelled = {} /\ tapes = <<>> /\ heard = "none" /\ flag = FALSE
  /\ calls = {} /\ cards = NoCards /\ done = {} /\ running = FALSE
  /\ fix = 0 /\ saving = FALSE /\ before = "none" /\ path = 0 /\ logs = <<>>
  /\ uploaded = {} /\ tapped = {} /\ again = FALSE /\ blurred = {} /\ faults = 0

Call(kind, of, rest) == [kind |-> kind, of |-> of, rest |-> rest, got |-> {}, at |-> "out"]
Busy    == Cardinality(calls) >= MaxCalls
Fault   == faults < MaxFaults /\ faults' = faults + 1
Pending == DOMAIN cards \ done
Multi   == Cardinality(DOMAIN cards) > 1
Recording == IF tapes = <<>> THEN {} ELSE {tapes[Len(tapes)]}

-----------------------------------------------------------------------------
(* The page put back: all of it (resetToIdle), or without the correction's *)
(* and the upload's memory (_clearRecordState).                            *)
NoDeck == cards' = NoCards /\ done' = {}

ResetToIdle ==
  /\ state' = "idle" /\ path' = 0 /\ running' = FALSE /\ before' = "none"
  /\ NoDeck /\ fix' = 0 /\ saving' = FALSE

Switch ==
  /\ mode' = IF mode = "voice" THEN "text" ELSE "voice"
  /\ state' = "idle" /\ NoDeck /\ fix' = 0 /\ saving' = FALSE
  /\ UNCHANGED <<record, calls, running, before, path, logs, ghost, faults>>

SayAgain ==
  /\ state = "error"
  /\ ResetToIdle
  /\ UNCHANGED <<mode, record, calls, logs, ghost, faults>>

-----------------------------------------------------------------------------
(* Speaking *)

Restored == IF before = "none" THEN Shown ELSE before

(* startRecording: a promise still open is rejected, whose handler finds   *)
(* the flag already lowered.                                               *)
Start(for, at) ==
  /\ said < MaxSaid
  /\ said' = said + 1
  /\ tapes' = Append(tapes, said + 1)
  /\ heard' = for
  /\ flag' = FALSE
  /\ again' = (again \/ tapes # <<>>)
  /\ IF tapes # <<>> THEN Fault ELSE UNCHANGED faults
  /\ state' = CASE heard = "none"  -> at
                [] heard = "entry" -> "error"
                [] heard = "item"  -> Restored
  /\ UNCHANGED cancelled

OnStart ==
  /\ state = "idle" /\ mode = "voice"
  /\ Start("entry", "listening")
  /\ UNCHANGED <<mode, calls, deck, card, path, logs, ghost>>

(* The button slid away, or the page hidden while it records.              *)
OnCancel_unflagged ==
  /\ state = "listening"
  /\ state' = "idle"
  /\ cancelled' = cancelled \cup Recording
  /\ UNCHANGED <<mode, said, tapes, heard, flag, again, calls, deck, card, path, logs, ghost, faults>>

OnCancel ==
  /\ state = "listening"
  /\ flag' = TRUE
  /\ state' = "idle"
  /\ cancelled' = cancelled \cup Recording
  /\ UNCHANGED <<mode, said, tapes, heard, again, calls, deck, card, path, logs, ghost, faults>>

(* Say one item again: an utterance of its own, for the card being         *)
(* corrected.                                                              *)
Respeak ==
  /\ fix # 0 /\ state = Shown
  /\ before' = state
  /\ Start("item", "respeaking")
  /\ UNCHANGED <<mode, calls, deck, fix, saving, path, logs, ghost>>

LeaveRespeak ==
  /\ state = "respeaking"
  /\ flag' = TRUE
  /\ state' = Restored
  /\ cancelled' = cancelled \cup Recording
  /\ fix' \in {0, fix} /\ UNCHANGED saving
  /\ UNCHANGED <<mode, said, tapes, heard, again, calls, deck, before, path, logs, ghost, faults>>

(* onStop: the finger lifted, the minute over, or the recording called     *)
(* off.  Whoever waits gets the file, whichever recording it is of.        *)
OnStop ==
  /\ tapes # <<>> /\ ~Busy
  /\ tapes' = Tail(tapes)
  /\ heard' = "none"
  /\ LET sent == heard # "none" /\ ~flag IN
     /\ state' = CASE sent -> "uploading"
                   [] heard = "item" /\ flag -> Restored
                   [] OTHER -> state
     /\ calls' = IF sent
                 THEN calls \cup {Call(IF heard = "entry" THEN "upload" ELSE "respeak", Head(tapes), <<>>)}
                 ELSE calls
     /\ uploaded' = IF sent THEN uploaded \cup {Head(tapes)} ELSE uploaded
  /\ UNCHANGED <<mode, said, cancelled, flag, again, deck, card, path, logs, tapped, blurred, faults>>

OnError ==
  /\ Fault
  /\ heard # "none" /\ tapes # <<>>
  /\ heard' = "none" /\ tapes' = Tail(tapes)
  /\ state' = CASE heard = "item" -> Restored
                [] heard = "entry" -> IF flag THEN state ELSE "error"
  /\ UNCHANGED <<mode, said, cancelled, flag, again, calls, deck, card, path, logs, ghost>>

SubmitText ==
  /\ mode = "text" /\ said < MaxSaid /\ ~Busy
  /\ said' = said + 1
  /\ state' = "processing"
  /\ calls' = calls \cup {Call("parse", said + 1, <<>>)}
  /\ UNCHANGED <<mode, cancelled, tapes, heard, flag, again, deck, card, path, logs, ghost, faults>>

RetryUpload ==
  /\ state = "pending_retry" /\ path # 0 /\ ~Busy
  /\ path' = 0 /\ state' = "uploading"
  /\ calls' = calls \cup {Call("upload", path, <<>>)}
  /\ UNCHANGED <<mode, record, deck, card, logs, ghost, faults>>

-----------------------------------------------------------------------------
(* Booking *)

Complete(l) == ~logs[l].missing

Tap(l) == tapped' = tapped \cup {cards[l]}

ConfirmRecord(l) ==
  /\ l \in Pending /\ Complete(cards[l]) /\ ~Busy
  /\ Tap(l)
  /\ calls' = calls \cup {Call("confirm", l, <<>>)}
  /\ UNCHANGED <<entry, record, deck, card, path, logs, uploaded, blurred, faults>>

(* The members of a set in ascending order.                                *)
Listed(S) ==
  {s \in UNION {[1 .. n -> S] : n \in 1 .. MaxLogs} :
     /\ \A i, j \in DOMAIN s : i < j => s[i] < s[j]
     /\ \A l \in S : \E i \in DOMAIN s : s[i] = l}

(* One after the other, those not marked yet; the first without all its    *)
(* fields ends it.                                                         *)
ConfirmAll ==
  /\ Multi /\ Pending # {} /\ ~running /\ ~Busy
  /\ running' = TRUE
  /\ \E s \in Listed(Pending) :
       /\ Complete(s[1])
       /\ calls' = calls \cup {Call("confirm", s[1], Tail(s))}
  /\ tapped' = tapped \cup {cards[l] : l \in Pending}
  /\ UNCHANGED <<entry, record, cards, done, card, path, logs, uploaded, blurred, faults>>

OpenCorrection(l) ==
  /\ l \in Pending
  /\ fix' = l /\ saving' = FALSE /\ before' = state
  /\ UNCHANGED <<entry, record, calls, deck, path, logs, ghost, faults>>

CloseCorrection ==
  /\ fix # 0 /\ state # "respeaking"
  /\ fix' = 0 /\ saving' = FALSE
  /\ UNCHANGED <<entry, record, calls, deck, before, path, logs, ghost, faults>>

(* Save and confirm.                                                       *)
SubmitCorrection ==
  /\ fix # 0 /\ ~saving /\ ~Busy
  /\ saving' = TRUE
  /\ calls' = calls \cup {Call("correct", fix, <<>>)}
  /\ tapped' = tapped \cup {fix}
  /\ UNCHANGED <<entry, record, deck, fix, before, path, logs, uploaded, blurred, faults>>

-----------------------------------------------------------------------------
(* What the page does with an answer *)

Forget(c) == calls' = calls \ {c}

(* _applyParsed: the logs of the answer are the cards.                     *)
ApplyParsed(c) ==
  /\ cards' = [l \in c.got |-> l]
  /\ done' = {}
  /\ state' = Shown

(* An upload: its logs; only the text, which is then parsed; or nothing    *)
(* that could be understood.                                               *)
UploadOk(c) ==
  /\ \/ c.got # {} /\ ApplyParsed(c) /\ Forget(c) /\ UNCHANGED mode
     \/ /\ c.got = {}
        /\ calls' = (calls \ {c}) \cup {Call("parse", c.of, <<>>)}
        /\ UNCHANGED <<entry, cards, done>>
     \/ /\ c.got = {}
        /\ mode' = "text" /\ state' = "idle" /\ Forget(c) /\ UNCHANGED <<cards, done>>
  /\ UNCHANGED path

(* A recording the network failed is kept, if it can be, unless something  *)
(* has been called off since.                                              *)
UploadFailed(c) ==
  /\ Forget(c) /\ UNCHANGED <<mode, cards, done>>
  /\ \/ flag /\ UNCHANGED <<state, path>>
     \/ ~flag /\ state' = "error" /\ UNCHANGED path
     \/ ~flag /\ c.at = "neterr" /\ state' = "pending_retry" /\ path' = c.of

UploadAnswered(c) ==
  /\ c.kind = "upload"
  /\ IF c.at = "ok" THEN UploadOk(c) ELSE UploadFailed(c)
  /\ UNCHANGED <<record, running, card, logs, ghost, faults>>

ParseAnswered(c) ==
  /\ c.kind = "parse"
  /\ Forget(c)
  /\ IF c.at = "ok" /\ c.got # {}
     THEN ApplyParsed(c)
     ELSE state' = "error" /\ UNCHANGED <<cards, done>>
  /\ UNCHANGED <<mode, record, running, card, path, logs, ghost, faults>>

RespeakAnswered(c) ==
  /\ c.kind = "respeak"
  /\ Forget(c)
  /\ state' = Restored
  /\ UNCHANGED <<mode, record, deck, card, path, logs, ghost, faults>>

Marked(l) == done \cup ({l} \cap DOMAIN cards)

(* A booked card is marked; when it was the last, or the only one, or the  *)
(* page shows something else by now, the page is put back.  Then the next  *)
(* of the chain.                                                           *)
ConfirmedOk(c) ==
  LET ended  == ~Multi \/ Marked(c.of) = DOMAIN cards
      onward == c.rest # <<>> /\ Complete(Head(c.rest))
  IN
  /\ IF ended
     THEN ResetToIdle
     ELSE done' = Marked(c.of) /\ UNCHANGED <<state, cards, fix, saving, before, path>>
  /\ running' = (onward /\ running /\ ~ended)
  /\ calls' = (calls \ {c}) \cup
              (IF onward THEN {Call("confirm", Head(c.rest), Tail(c.rest))} ELSE {})
  /\ UNCHANGED mode

(* No stock: the user is led to the text field.                            *)
ConfirmFailed(c) ==
  /\ Forget(c) /\ running' = FALSE
  /\ \/ UNCHANGED <<mode, cards, done, fix, saving>>
     \/ c.at = "refused" /\ mode' = "text" /\ NoDeck /\ fix' = 0 /\ saving' = FALSE
  /\ UNCHANGED <<state, before, path>>

ConfirmAnswered(c) ==
  /\ c.kind = "confirm"
  /\ IF c.at = "ok" THEN ConfirmedOk(c) ELSE ConfirmFailed(c)
  /\ UNCHANGED <<record, logs, ghost, faults>>

(* A correction: the card it was about takes its content, and so does a    *)
(* single card that has come in its place; then the log is confirmed.      *)
CorrectedOk(c) ==
  /\ fix' = 0 /\ saving' = FALSE
  /\ cards' = IF Multi THEN cards ELSE [l \in DOMAIN cards |-> c.of]
  /\ blurred' = IF Multi THEN blurred ELSE blurred \cup (DOMAIN cards \ {c.of})
  /\ calls' = (calls \ {c}) \cup {Call("confirm", c.of, <<>>)}

CorrectAnswered(c) ==
  /\ c.kind = "correct"
  /\ IF c.at = "ok" THEN CorrectedOk(c)
                    ELSE saving' = FALSE /\ Forget(c) /\ UNCHANGED <<fix, cards, blurred>>
  /\ UNCHANGED <<entry, record, done, running, before, path, logs, uploaded, tapped, faults>>

Answered(c) ==
  /\ c.at # "out"
  /\ \/ UploadAnswered(c) \/ ParseAnswered(c) \/ RespeakAnswered(c)
     \/ ConfirmAnswered(c) \/ CorrectAnswered(c)

-----------------------------------------------------------------------------
(* The server *)

(* Confirming a log under way is one request, whoever waits for it.        *)
Same(c) == {d \in calls : d.kind = c.kind /\ d.of = c.of /\ d.at = "out"}
Answer(S, at, got) == calls' = (calls \ S) \cup {[c EXCEPT !.at = at, !.got = got] : c \in S}

Hear(c, n, missing) ==
  /\ c.kind \in {"upload", "parse", "respeak"}
  /\ Len(logs) + n <= MaxLogs
  /\ logs' = logs \o [i \in 1 .. n |-> [status |-> "parsed", missing |-> missing]]
  /\ Answer({c}, "ok", Len(logs) + 1 .. Len(logs) + n)

(* Text without an event, or no text at all, leaves a log nobody sees.     *)
NotUnderstood(c) ==
  /\ c.kind \in {"upload", "parse", "respeak"}
  /\ Answer({c}, "ok", {})
  /\ UNCHANGED logs

Confirm(c) ==
  /\ c.kind = "confirm" /\ Complete(c.of)
  /\ logs' = [logs EXCEPT ![c.of].status = "confirmed"]
  /\ Answer(Same(c), "ok", {})

Correct(c) ==
  /\ c.kind = "correct" /\ logs[c.of].status = "parsed"
  /\ logs' = [logs EXCEPT ![c.of].missing = FALSE]
  /\ Answer({c}, "ok", {})

Refuse(c) ==
  /\ c.kind = "confirm" => logs[c.of].status # "confirmed"
  /\ Answer(Same(c), "refused", {})
  /\ UNCHANGED logs

Serve(c) ==
  /\ c.at = "out"
  /\ \/ \E n \in Parts, missing \in BOOLEAN : Hear(c, n, missing)
     \/ NotUnderstood(c) \/ Confirm(c) \/ Correct(c) \/ Refuse(c)
  /\ UNCHANGED <<entry, record, deck, card, path, ghost, faults>>

(* The answer is lost, the request done or not.                            *)
Lose(c) ==
  /\ Fault
  /\ c.at # "neterr"
  /\ Answer(IF c.at = "out" THEN Same(c) ELSE {c}, "neterr", {})
  /\ UNCHANGED <<entry, record, deck, card, path, logs, ghost>>

Next ==
  \/ Switch \/ SayAgain \/ OnStart \/ OnCancel \/ Respeak \/ LeaveRespeak \/ OnStop \/ OnError
  \/ SubmitText \/ RetryUpload \/ ConfirmAll \/ CloseCorrection \/ SubmitCorrection
  \/ \E l \in DOMAIN cards : ConfirmRecord(l) \/ OpenCorrection(l)
  \/ \E c \in calls : Answered(c) \/ Serve(c) \/ Lose(c)

Spec == Init /\ [][Next]_vars

-----------------------------------------------------------------------------
Booked == {l \in DOMAIN logs : logs[l].status = "confirmed"}

(* However late the answers come and whatever the page shows by then, a    *)
(* log is booked only if the user saw its content and asked for it, unless *)
(* another log's correction was written over its card; and a card is       *)
(* marked as booked only if it is.                                         *)
SeenIsBooked ==
  /\ Booked \ blurred \subseteq tapped
  /\ done \subseteq Booked

(* A recording that was called off is not sent, unless the button was      *)
(* pressed again before the recorder had stopped.                          *)
CancelledStays == again \/ uploaded \cap cancelled = {}

(* Known to fail (see the README): the same without the exceptions; a card *)
(* is shown until it is decided on.                                        *)
CardIsItsLog == \A l \in DOMAIN cards : cards[l] = l
CancelledNeverSent == uploaded \cap cancelled = {}
ShownUntilDecided ==
  [][\A l \in DOMAIN cards \ Booked :
        (\E c \in calls : c \notin calls' /\ c.kind = "confirm" /\ c.of # l /\ c.at = "ok")
          => l \in DOMAIN cards']_vars
=============================================================================
