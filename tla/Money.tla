------------------------------- MODULE Money -------------------------------
(***************************************************************************)
(* What becomes known of the money: the owner's reports, and the page for  *)
(* voice notes.  The two share no state here.                              *)
(***************************************************************************)
EXTENDS Integers, FiniteSets

CONSTANTS
  Product, Costs, NoCost, PerRow, UnitPrice, PerUnit, Discounts, Amounts, Recorded,
  Window, Week, Days, MaxRows, MaxSlips,            \* of Reports
  Parts, MaxSaid, MaxLogs, MaxSent, MaxBreaks       \* of VoicePage

ASSUME PartsAreNat == Parts \subseteq Nat

(* Amounts are whole cents; the till's rows do not come by another channel.*)
ASSUME SumsAreWhole ==
  /\ IsFiniteSet(Product) /\ Costs \subseteq Int /\ Discounts \subseteq Int /\ Amounts \subseteq Nat
  /\ PerRow \in Nat \ {0} /\ UnitPrice \in Int /\ PerUnit \in Int
  /\ Days \in Nat /\ Window \in Int /\ Week \in Int
  /\ \A e \in Recorded : e[2] \in {"voice", "offline"}

VARIABLES
  today, ledger, slips,
  mode, state, said, cancelled, tapes, heard, flag, sends, cards, done, running, fix,
  saving, before, path, logs, uploaded, tapped, again, blurred, breaks

reportVars == <<today, ledger, slips>>
voiceVars  == <<mode, state, said, cancelled, tapes, heard, flag, sends, cards, done, running,
                fix, saving, before, path, logs, uploaded, tapped, again, blurred, breaks>>

Report == INSTANCE Reports WITH Quantity <- PerRow, MaxOrders <- MaxSlips, orders <- slips
Voice  == INSTANCE VoicePage
            WITH calls <- sends, faults <- breaks, MaxCalls <- MaxSent, MaxFaults <- MaxBreaks

-----------------------------------------------------------------------------
(* Voice notes: only what was seen is booked, and what was called off is   *)
(* not sent.                                                               *)
VoiceHeeds == Voice!SeenIsBooked /\ Voice!CancelledStays

(* The reports: revenue, cost and profit add up to the rows and orders     *)
(* behind them, once there are any.                                        *)
ReportsAddUp == (ledger = <<>> /\ slips = <<>>) \/ Report!ReportsAddUp
=============================================================================
