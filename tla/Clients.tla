------------------------------- MODULE Clients -------------------------------
(***************************************************************************)
(* Who calls the server over a network that loses messages: the server's   *)
(* record of a key, the request layer of the mini program, its till, first *)
(* logins, and the edge controller of a stall whose neighbour may register *)
(* the same device.  They share no state, so that their conjunction lets   *)
(* them work side by side.                                                 *)
(***************************************************************************)
EXTENDS Idempotency

CONSTANTS
  Request, Write, RetrySafe,            \* of ClientRequest
  AppRetries, AppTokens, AppFaults,
  NumEvents, Stall, Req, NoStall,       \* of EdgeIngest
  EdgeRetries, EdgeFaults, EdgeMoves,
  Good, TillOrders, TillCalls,          \* of PosPage
  Together, TillFaults,
  Login, OpenId, Old                    \* of FirstLogin

ASSUME ClientsConstants ==
  /\ Write \subseteq Request /\ RetrySafe \subseteq Write
  /\ NumEvents \in Nat /\ TillOrders \in Nat

VARIABLES
  access, staff, login, req, wire, answers, done, issued, live, faults,
  queue, pass, requests, stored, reg, failures, moves,
  scanned, cart, sending, posts, dialog, refunding, kept, sync, syncAt, count, made, goods,
  late, srv, refunded, asked, closed, blurred, used, losses,
  tenant, merchants, logins

keyVars   == vars
appVars   == <<access, staff, login, req, wire, answers, done, issued, live, faults>>
edgeVars  == <<queue, pass, requests, stored, reg, failures, moves>>
tillVars  == <<scanned, cart, sending, posts, dialog, refunding, kept, sync, syncAt, count, made,
               goods, late, srv, refunded, asked, closed, blurred, used, losses>>
loginVars == <<tenant, merchants, logins>>

App == INSTANCE ClientRequest
  WITH MaxRetries <- AppRetries, MaxTokens <- AppTokens, MaxFaults <- AppFaults,
       applied <- done

Edge == INSTANCE EdgeIngest
  WITH MaxRetries <- EdgeRetries, MaxFaults <- EdgeFaults, MaxMoves <- EdgeMoves,
       faults <- failures

Till == INSTANCE PosPage
  WITH MaxOrders <- TillOrders, MaxCalls <- TillCalls, MaxFaults <- TillFaults,
       stored <- kept, submitting <- sending, calls <- posts, buttons <- used, faults <- losses

Entry == INSTANCE FirstLogin

-----------------------------------------------------------------------------
(* A write of the mini program is carried out at most once, and success    *)
(* means that it was; what leaves the controller's queue is stored, once   *)
(* per merchant.                                                           *)
WritesArriveOnce == App!AppliedOnce /\ Edge!SyncedIsStored

(* A good is sold twice only after the till took an answer for another     *)
(* one; who is logged in has a merchant, of the tenant that is there.      *)
AnswersAreHeeded == Till!SoldOnce /\ Entry!LoginsBind

(* An order promised to the cashier stays in storage until it is booked.   *)
QueuedIsKept == Till!QueuedIsKept
=============================================================================
