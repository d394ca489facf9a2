----------------------------- MODULE BackOffice -----------------------------
(***************************************************************************)
(* Five desks of the back office that share no state: voice records,       *)
(* subscriptions, the reconciliation of a day, prices, and units.  What    *)
(* one of them does neither enables nor changes a step of another, so that *)
(* a behaviour of all of them is five behaviours shuffled.  The desk       *)
(* chosen at the start is the one that works; a property of one desk holds *)
(* of the shuffle when it holds there.                                     *)
(***************************************************************************)
EXTENDS Integers, Sequences, FiniteSets

CONSTANTS
  NumLogs, MaxVolume, MaxDrafts, KeptDays, MaxDays, MaxEdits, ByHand,    \* of VoiceLedger
  Payer, Worker, Clerk, Trial, Month, Year, Notice, Grace, MaxDay, MaxSubs, MaxInvoices,
  MaxChoices,                                                            \* of Tenancy
  Ref, NoRef, Order, Run, MaxAmount, MaxPayments, MaxLines, MaxBegun,    \* of Reconciliation
  Sku, NoSku, Malformed, Unset, Asked, Handler, MaxActions, MaxTargets, MaxChanges,
  OneHandler,                                                            \* of Pricing
  Unit, Rated, AnySku, Factor, Maker, MaxRelations, OneMaker             \* of UnitConversion

ASSUME CyclesAreDays == Trial \in Nat /\ Month \in Nat /\ Year \in Nat /\ Grace \in Nat

ASSUME VoiceConstants == NumLogs \in Nat /\ IsFiniteSet(ByHand)

ASSUME LinesAreFew == MaxLines \in Nat

ASSUME UnitsAreMany == IsFiniteSet(Unit) /\ Factor \subseteq Int

VARIABLES
  logs, stale, booked, stock, net, expenses, wasted, today, closed, torn,
  day, tenant, subs, invoices, making, crossed, hands, hourly, expiry, edits,
  payments, statement, diffs, task, runs, seen, tangled, begun,
  price, history, actions, drawn_up, effects, running,
  base, relations, creating, refused,
  desk         \* the desk that works

voiceVars   == <<logs, stale, booked, stock, net, expenses, wasted, today, closed, torn>>
tenantVars  == <<day, tenant, subs, invoices, making, crossed, hands, hourly, expiry, edits>>
channelVars == <<payments, statement, diffs, task, runs, seen, tangled, begun>>
priceVars   == <<price, history, actions, drawn_up, effects, running>>
unitVars    == <<base, relations, creating, refused>>

Voice == INSTANCE VoiceLedger
  WITH MaxQty <- MaxVolume, Key <- ByHand, rows <- booked, batches <- stock

Saas == INSTANCE Tenancy WITH Maker <- Payer, MaxEdits <- MaxChoices

Channel == INSTANCE Reconciliation WITH MaxEntries <- MaxLines, entries <- statement

Shelf == INSTANCE Pricing WITH OneAtATime <- OneHandler, lists <- drawn_up

Units == INSTANCE UnitConversion
  WITH Sku <- Rated, Log <- Factor, MaxRows <- MaxRelations, OneAtATime <- OneMaker,
       rows <- relations, making <- creating

-----------------------------------------------------------------------------
OfficeInit ==
  /\ desk \in {"voice", "saas", "channel", "shelf", "units"}
  /\ Voice!Init /\ Saas!Init /\ Channel!Init /\ Shelf!Init /\ Units!Init
  /\ desk # "shelf" => price = [s \in Sku |-> 1]
  /\ desk # "units" => base = [s \in Rated |-> CHOOSE u \in Unit : TRUE]

OfficeNext ==
  \/ /\ desk = "voice" /\ Voice!Next
     /\ UNCHANGED <<desk, tenantVars, channelVars, priceVars, unitVars>>
  \/ /\ desk = "saas" /\ Saas!Next
     /\ UNCHANGED <<desk, voiceVars, channelVars, priceVars, unitVars>>
  \/ /\ desk = "channel" /\ Channel!Next
     /\ UNCHANGED <<desk, voiceVars, tenantVars, priceVars, unitVars>>
  \/ /\ desk = "shelf" /\ Shelf!Next
     /\ UNCHANGED <<desk, voiceVars, tenantVars, channelVars, unitVars>>
  \/ /\ desk = "units" /\ Units!Next
     /\ UNCHANGED <<desk, voiceVars, tenantVars, channelVars, priceVars>>

(* Saas!Fairness, for the desk that works.                                 *)
OfficeFairness ==
  /\ WF_tenantVars(desk = "saas" /\ Saas!CheckTrial)
  /\ WF_tenantVars(desk = "saas" /\ Saas!EndTrial)
  /\ WF_tenantVars(desk = "saas" /\ Saas!MarkPastDue)
  /\ WF_tenantVars(desk = "saas" /\ Saas!MarkExpired)
  /\ WF_tenantVars(desk = "saas" /\ Saas!FindUnpaid)
  /\ WF_tenantVars(desk = "saas" /\ Saas!SuspendTenant)

OfficeSpec ==
  /\ OfficeInit
  /\ [][OfficeNext]_<<desk, voiceVars, tenantVars, channelVars, priceVars, unitVars>>
  /\ OfficeFairness

-----------------------------------------------------------------------------
(* The voice ledger: the books and the batches say what the confirmed      *)
(* records say, sales on credit and repayments included, whichever drafts  *)
(* are swept away meanwhile.                                               *)
VoiceBooks == Voice!BooksFollowLogs /\ Voice!StockFollowsLedger

(* Subscriptions: no day is billed by two renewal invoices, unless one was *)
(* inserted while the maker of the other had looked and not inserted yet;  *)
(* no period or trial runs out unnoticed.                                  *)
RenewalsDisjoint == Saas!RenewalsDisjoint
LapseIsNoticed == Saas!LapseIsNoticed /\ Saas!TrialEnds

(* Channel reconciliation: no payment answers for two entries; and once a  *)
(* run has worked alone, a cleared day has nothing open, and what that run *)
(* could not pair is on the list.                                          *)
TaskIsTrue == Channel!ClearedHasNoOpen /\ Channel!EntriesAccounted

(* The catalogue: the history explains the price, and no two chains of     *)
(* relations between units contradict each other.                          *)
CatalogueAgrees == Shelf!HistoryIsChain /\ Units!RelationsAgree

(* What was dealt with stays so: a difference that somebody handled, a     *)
(* suggestion, which works once, a subscription or an invoice that ended,  *)
(* but for the transactions that had read the row before it did.           *)
DoneStaysDone ==
  Channel!HandledStays /\ Shelf!ActedOnce /\ Saas!EndedStays
=============================================================================
