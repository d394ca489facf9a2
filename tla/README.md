# TLA+ models of 千摊智脑

The repository is the back office of small market stalls: a FastAPI backend over
PostgreSQL (`qiantan-brain/backend`), a WeChat mini program that goes on selling
without a network (`qiantan-brain/miniprogram`), a controller with camera and
scale on the stall (`qiantan-brain/edge`), and a worker that runs the periodic
jobs. Its promise is that the books are right: the stock, the money received,
what customers owe and what suppliers are owed. This directory models the parts
that keep those books or stand between a user and them, checks the models with
TLC, and proves the main results for every size with TLAPS.

Paths below are relative to `src/qiantan-brain/backend/app/` unless they start
with `miniprogram/` or `edge/`, which are beside `backend/`.

## The system

| Component | State | Operations | What is hard |
|---|---|---|---|
| Batches (`services/batch.py`, `routers/food_safety.py`) | a row per delivery: bought, remaining, status | create, consume first-expired-first-out, restore, send back, lock, unlock, recall, destroy | four kinds of writer over the same rows; the food-safety handlers take no lock |
| Inventory ledger (`routers/inventory.py`) | append-only rows; the book stock is the sum of those not voided | every movement, void | the book stock is kept apart from the batches; voids in any order |
| Stocktake (`routers/inventory.py`, `miniprogram/pages/stocktake`) | sessions, frozen quantities, counts; counts kept on the phone | start, count, complete, cancel | goods move between snapshot, count and completion; old counts arrive late |
| Till (`routers/pos.py`) | orders, payments, receivables | create, hold, resume, cancel, pay, refund | retries, two tills, split payments, partial refunds, rounding |
| Till page (`miniprogram/pages/pos`) | cart, dialogs, orders kept in storage | scan, send, hold, refund, close, synchronise | lost and late answers, taps while a request runs |
| Daily settlement (`routers/pos.py`) | a row per day | statistics, close, reopen | a check without a lock, numbers read by several queries |
| Reports (`routers/reports.py`) | none of its own | daily, weekly, monthly figures | windows computed apart; voids and late rows |
| Offline channel (`services/offline_sync.py`, `worker.py`, `miniprogram/utils/offline-sync.js`) | the phone's queue, unique keys, dead letters | queue, upload, retry, replay, waive | lost answers, overlapping replays, programs that are ended |
| Purchases (`routers/purchase.py`, `services/accounts_service.py`, `miniprogram/pages/purchase`) | lists, items, payables, payments, returns; advice on the phone | import, order, accept, confirm, pay, return | two ways to accept, advisory locks in some handlers only, late answers |
| Suppliers (`routers/catalog.py`, `services/supplier_scoring.py`, `miniprogram/pages/supplier`) | suppliers, offers, history; the lists on the page | edit, blacklist, link, score, compare | answers that overtake each other, missing figures |
| Voice ledger (`routers/voice.py`, `services/voice_ledger.py`, `routers/operations.py`, `miniprogram/pages/voice`) | logs and the rows, debts and expenses made of them; the cards | upload, parse, correct, confirm, edit, void | an edit undoes and redoes stock and debt; cards and utterances get out of step |
| Catalogue and AI actions (`routers/catalog.py`, `routers/ai_actions.py`, `services/unit_conversion.py`) | prices with history, suggestions, relations of units | change, execute, reject, relate, convert | reads without locks, actions that stop half way |
| Channel reconciliation (`services/reconciliation.py`) | statements, differences, a task per day | import, match, handle | reruns must keep what was handled |
| Tenancy (`models/saas.py`, `core/invoicing.py`, `worker.py`, `routers/admin/*`) | tenants, subscriptions, invoices | renew, lapse, suspend, administer | two makers of invoices, jobs beside administrators |
| Idempotency (`core/idempotency_middleware.py`) | a row per (principal, operation, key) | around every write that carries a key | three transactions around a handler, deaths between them |
| Request layer (`miniprogram/app.js`) | tokens, the employee's identity, requests under way | log in, send, retry | one login many requests wait for; a retry as somebody else |
| Logins (`routers/auth.py`, `core/rate_limiter.py`) | tenant, merchants, counters and locks | first login, failed and successful tries | unique keys that make transactions wait; counters over several commands |
| Edge (`edge/main.py`, `routers/edge.py`, `core/device_auth.py`) | the local queue, events stored, registrations | capture, post, store, register, move | crash in a pass, the same event twice, a device that changes stalls |

The components interact through rows and transactions. A sale at the till
consumes batches, appends to the ledger, writes payments and receivables in one
transaction; settlement and reports read them; voids, refunds and returns write
them backwards. The database runs at READ COMMITTED, so two requests interleave
except where a handler takes a row lock (`with_for_update`), an advisory lock or
runs into a unique key; a step of a model is what the code does between two
points at which somebody else may be heard. The pages run one thread: a step is
what happens between two callbacks. Phone and controller talk to the server over
a network that loses, delays and, by retries, repeats.

PROJECT.json lists every component with what is left out of it, and 40 hazards,
each at the line where it bites, with the properties that would catch it.

## The modules

| Module | Models | Composition |
|---|---|---|
| `Allocation` | what every walk over batches computes, as a relation, and sums over rows | used by `ConsumeLoop`, `StockLedger`, `PosOrder`, `Settlement`, `Reports`, `Purchasing`, `VoiceLedger`, `Reconciliation` |
| `ConsumeLoop` | the deduction loop, an iteration a step | |
| `StockLedger` | batches and ledger of one product with the food-safety handlers | |
| `Stocktake` | sessions over a ledger that moves, and the page's kept counts | |
| `PosOrder` | orders, payments, refunds and debts of a till | |
| `Settlement` | business days, close and reopen | over an instance of `PosOrder` |
| `PosPage` | the till page, its storage and the server behind it | |
| `Reports` | the owner's figures next to the settlement's | |
| `KeyedBooking` | what the offline channel promises | abstract specification of `OfflineSync` |
| `OfflineSync` | queue, upload, dead letters, replays | refines `KeyedBooking` |
| `Purchasing` | lists, payables, payments, returns of a supplier | |
| `Backroom` | purchases and stocktakes side by side | `Purchasing` with an instance of `Stocktake` |
| `BackOffice` | the small desks of the back office | instances of `VoiceLedger`, `Tenancy`, `Reconciliation`, `Pricing`, `UnitConversion` |
| `PurchasePage` | the purchase page and the answers it gets | |
| `Suppliers` | the directory, scores, recommendation | |
| `SupplierPage` | the supplier page | extends `Suppliers` |
| `VoiceLedger` | drafts and what confirming, editing and voiding them does | |
| `VoicePage` | the voice page and its recorder | |
| `Pricing` | prices, history, AI suggestions | |
| `UnitConversion` | relations of units and conversion | |
| `Reconciliation` | one day's task of a channel | |
| `Tenancy` | a tenant, its subscriptions and invoices | |
| `Idempotency` | the record of a key around a handler | |
| `ClientRequest` | the mini program's request layer | |
| `FirstLogin` | logins that race to create tenant and merchant | |
| `LoginLimit` | the limits on logins, in memory and in Redis | |
| `Counter` | what is done at the counter | `ConsumeLoop` and `Suppliers` with instances of `PurchasePage`, `LoginLimit` |
| `Money` | what becomes known of a sale | instances of `Reports`, `VoicePage` |
| `EdgeIngest` | the controller's queue and the backend's endpoint | |
| `Clients` | who calls the server over a network that loses messages | `Idempotency` beside instances of `ClientRequest`, `EdgeIngest`, `PosPage`, `FirstLogin` |
| `MC...` | instances for TLC | the modules they instantiate |
| `...Proofs` | theorems and proofs | the module of that name; `CounterProofs` is of `Counter`, `Money` and `SupplierPage`, `BackroomProofs` of `Backroom` and `BackOffice`; `SettlementProofs` takes over `PosOrderProofs` through an instance |

How state and actions correspond to the code is said at the head of each module
and by "map" in PROJECT.json, definition by definition. The points at which a
reader may ask are these.

**Stock.** `_consume_qty_from_batches` and the other walks take
`min(capacity, left)` of each row in some order. `Allocation!IsSplit` states the
outcome; `StockLedger` and `PosOrder` take it in one step, because those handlers
hold their rows `FOR UPDATE`. `ConsumeLoop` is the loop itself; its run shows that
it ends with that split and that there is no other. The food-safety handlers read
with `db.get` and write at their commit, so each is `Inspect` and later
`CommitInspection` or `RejectInspection`.

**Till.** A request is `Admit` (the settlement check, which takes no lock) and then
the handler, made atomic by the order's row lock. An order keeps the sums over its
payment rows by method and by status, and over its receivables. Refunds are
rounded half to even as `Decimal.quantize` does, and the last one settles the rest.
`credited` is a history variable: how often a transaction's money was added.

**Settlement.** Every action of `PosOrder` is conjoined with the day its rows fall
on, which is the day of the transaction's start. Closing is four steps, since its
queries see different snapshots: `CountSales`, `CountPayments`, `FindRow`,
`WriteRow`.

**Offline channel.** The phone's engine takes the pending rows of its storage one by
one; `Transmit` reaches the server or not, `GiveUp` is a timeout while the server
works on, `Kill` ends the program. The endpoint reads (`Admit`), books within a
savepoint (`Write`) or leaves a dead letter (`Bury`). A replay is `Pick` or `Open` and
later `Redo`, with what was loaded written back as the ORM does: changed columns only.

**Pages.** `PosPage`, `PurchasePage`, `SupplierPage`, `VoicePage` have a set `calls` of
requests under way, each with what the page remembered when it sent it; the server
carries them out in any order, the answers arrive in any order or never. To keep
instances small, a behaviour taps one of a few sets of buttons (`Together`,
`Setups`) chosen at its start; each set holds handlers that touch the same page state.

**Purchase page.** `create_from_advice` is two steps of the server, `Find` and `Book`. An
import books the names it knows, skips a line that is bought already (both answered with
200) and is refused only if it knows none; the page then drops the whole draft. The history
variables `named` and `skipped` say which advice went that way.

**Back office.** Handlers that read without a lock are two steps, and what they write is
computed from what they read. In `Pricing` and `UnitConversion` `OneAtATime` (`OneHandler`,
`OneMaker` where the desks meet in `BackOffice`) makes the second one wait; the run sets
it, and the theorems that need it name it. Nothing of the kind is in the other desks:

- `Tenancy`: an administrator's handler reads with `db.get`, decides, and writes the columns
  it changed when it commits (`hands`; `SaveSubscription`, `SaveInvoice` and so on), over
  whatever the row has become. So do the job for trials and the suspension of tenants.
  The statuses of subscriptions fall due in one `UPDATE`. A maker of renewals looks for an
  overlapping invoice (`BeginInvoice`) and inserts it later; `crossed` remembers the pairs of
  invoices of which one was inserted in that gap of the other.
- `Reconciliation`: a run reads payments and entries, its `DELETE` finds the open
  differences (`Delete`) and waits for those that another transaction holds, then it asks
  for the handled ones (`Match`), and inserts and writes when it commits. Each payment
  starts a run of its own, so that they overlap; `resolve_difference` is two steps too.
  `tangled` says that transactions have overlapped and no run has worked alone since. The lock a
  run may take on the task by an early flush is left out, which allows more interleavings.
- `VoiceLedger`: `Prune` and `CleanUp` find logs in transactions of their own, and `Sweep` deletes
  them later, whatever they have become. A repayment by voice is booked without a look at
  the balance. Confirming, voiding and editing are one step each: they lock the log.

**Clients.** `ClientRequest`'s server answers a key it has seen from memory, as
`Idempotency` shows it does. `FirstLogin` models unique keys with the waits of
PostgreSQL: an insert waits for whoever has inserted the same row and not yet
committed. `LoginLimit` gives a request in memory one step for a check or a record; with
Redis a check is the look at the lock and then the sweep with its count and lock
(`rate_limiter.py:226-229`), a record the adding with its expiry and then the count
with its lock (`:239-243`). The two or three commands of such a step are not taken apart:
what another request does between them comes before or after all of them.

## What the runs check

Several runs put components side by side that share no table or page: a variable
`desk`, chosen at the start, says which one works. Since no desk reads or writes
another's variables, every behaviour of all of them is their behaviours shuffled, and
a property of one desk holds of the shuffle if it holds when that desk works alone.

| Run | Shows | Bounds (distinct states) |
|---|---|---|
| `Counter` | the FEFO loop loses nothing and ends with the one split (`NothingLost`, `WalkIsTheSplit`); advice is kept until a list has it or it was named as unknown or found bought, a payment is made once and to whom it was meant (`BuyingHeeds`); no more failures than the limiter lets through, no lock without them (`LimitsAreFair`); nobody ranks above a supplier who is better in every respect (`RankingIsFair`) | 3 rows, quantities to 3, every stock; 2 suppliers, 2 advices, 2 items, 2 keys, 2 calls, 1 fault; rules of 1 to 3 tries, windows 2 and 3, locks 3 and 4, 2 requests together, both back ends; 2 offers, 2 deliveries (1.8 M) |
| `Stock_shop` | no batch below nothing or above what was bought (`BatchBounds`); goods sold are covered by goods consumed (`SoldGoodsCovered`); batches hold nothing the books lack (`NoPhantomStock`); pulled batches get nothing back (`NeverRestocked`) | 2 batches, 4 ledger rows, quantities to 2, 2 labels, 1 inspector, every kind of void (1.5 M) |
| `Stock_skus` | a return never lands on another SKU | 3 batches, 2 SKUs and unowned stock, 5 rows of one unit (0.3 M) |
| `Pos_money` | received and owed make up the price (`PaidOrOwed`); refunds add up and no debt is overpaid (`RefundsAddUp`); the reports' parts add up and a past day, like a finished order, stays (`ReportsAddUp`, `PastStands`); only what was seen is booked and what was cancelled stays so (`VoiceHeeds`) | 1 order of 3 units at 4 cents, 3 methods, a cent of mismatch; 2 days, 3 rows, 1 order; 2 utterances of 2 parts, 2 calls, 1 fault (2.5 M) |
| `Pos_retries` | one order per `client_id`; a cancelled order took nothing; one booking per `transaction_id` | 2 orders, 2 terminals, 2 clients, 1 transaction, repayments at the counter (1.1 M) |
| `Settle` | a day balances but for what was parked overnight, and each cent is on one day (`DaysAddUp`); a closed row is not overwritten by a race's loser (`ClosedOnce`) | 1 order, 2 days, 2 closes, reopening (1.6 M) |
| `Offline_sync` | what phone or letter counts as settled is booked (`SettledIsBooked`); the channel implements `KeyedBooking` (`EachKeyBookedOnce`); everything comes to rest (`EverythingSettles`) | 2 events, a sale and a purchase, 1 retry, 2 replays, 1 letter, 1 kill, the day closed and opened (0.4 M) |
| `Purchasing` | lists, items and payables say the same in every way they can be read (`PurchasesAddUp`); a completed session books its counts once and the ledger can be taken from batches (`StockIsCounted`, `Calibrated`) | 2 items, 2 lists, quantities to 2, 2 keys, 2 forms, 1 return; 2 sessions, 2 moves, 2 counts (3.9 M) |
| `BackOffice` | ledger, batches, debt and expenses say what the confirmed voice records say (`VoiceBooks`); renewals overlap only if one was inserted while the other's maker was between look and insert (`RenewalsDisjoint`), and a period or trial that is over does not go on (`LapseIsNoticed`); no payment answers for two entries, and after a run that worked alone a cleared day has nothing open and what could not be paired is listed (`TaskIsTrue`); prices follow from their history and chains of units agree (`CatalogueAgrees`); what was handled stays so, and what ended is written again only by who had read it before (`DoneStaysDone`) | 2 logs over 2 days, 1 draft kept; 2 subscriptions, 2 invoices, 2 makers, 2 administrators' transactions, 3 days; 1 payment, 2 entries, 2 transactions at once, 3 in all; 2 SKUs, 1 action; 3 units, 3 relations (0.8 M) |
| `Clients` | a key's effect is applied at most once and answers about it are true (`AtMostOnce`, `AnswersAreTrue`); a write is carried out once per identity and what leaves the controller is stored (`WritesArriveOnce`); a good is not sold again unless an answer was lost, and who is let in has a merchant (`AnswersAreHeeded`); orders in storage stay until booked (`QueuedIsKept`); whoever waits is answered (`WaitingEnds`) | 4 attempts, 2 keys, 2 deaths; 2 writes, 1 retry, 2 faults; 2 events, 2 stalls, 2 posts, 2 faults, 2 moves; 2 goods, 2 orders, 1 fault; 3 first logins, 2 open ids (0.2 M) |
| `Supplier_page` | what is compared is what was asked last (`ComparedIsCurrent`); no spinner turns for ever (`SpinnersStop`) | 2 suppliers, pages of one row, 2 calls, 3 askings, 1 fault, 5 sets of buttons (1.1 M) |
| `Pos_split_retry` | ends with a counterexample, see below | |

The bounds hold the interesting cases. Two batches are the least for an order of
consumption, a purchase that shares a label and a void that hits another batch; four
rows allow two purchases, a sale and its return; three units at four cents round up
and down before the last refund; two terminals, two days, two sessions, two keys are
the least for each race and each carry-over; one lost answer is enough to repeat a
request and one kill to leave a row behind. Deadlock is not checked: each model stops
when its bounds are used up, and the real system simply has no further request.

Properties are stated where the code keeps them, with their conditions in the
formula. `NoPhantomStock` speaks of histories in which only sales are voided and
nothing is sent back; `SoldGoodsCovered` of those without supplier returns and
voided destructions; `SkuSoldCovered` of sales that name a SKU and are not voided;
`RefundsAddUp` of orders paid to the cent whose units, refunded one by one, do not round to
more than the price; `AtMostOnce` of handlers that do not fail
after their commit; `WaitingEnds` of keys in runs without a server death;
`EverythingSettles` excepts events under way when the program was ended; `Calibrated`
speaks of products whose ledger stood still between snapshot and count; `RenewalsDisjoint`
excepts two makers of which one inserted between look and insert of the other; `TaskIsTrue`
says nothing of a task from an overlap of transactions to the next run that works alone;
`DoneStaysDone` leaves out transactions that had read a row before it ended; `LapseIsNoticed`
the trial of a tenant with two subscriptions in force; `BuyingHeeds` advice noted during an
import, named as unknown, or for a line bought already. Dropping any
of these gives a counterexample that is a behaviour of the code.

### Where the code disagrees with what it says of itself

`Pos_split_retry` shows one: the rows of a combined payment keep no
`transaction_id`, so that a retry of a partial combined payment is booked again,
while the handler promises idempotence by that id.

For the others the formula that fails is kept in its module with the comment "known
to fail", "Violated" or a note of its condition. Listed in the
run that holds the module (through its instance, where it is a desk) it gives the counterexample described here.

- *Stock.* `BookNeverNegative`: a recall takes goods off the books and keeps the
  remaining quantity; the destruction takes them off again (`services/batch.py:225`).
  Voiding an offline purchase, a supplier return or a recall leaves the batches as they
  are; purchases of one minute share a label, and a void can hit the other batch; two
  inspectors overwrite each other, so that a recalled batch can be unlocked.
- *Till.* `RefundedInFull`: the last refund is said to settle the rest
  (`routers/pos.py:1067`); units refunded one by one and rounded up have by then gone beyond
  the price, and nothing is taken back. `SameChannel`: the reverse payments of a refund are allotted from the full
  receipts, so a second partial refund pays in cash what the first already paid. A
  counter repayment and a collection on the order pay the same debt twice. A day can
  be closed while an admitted sale is still to commit. An order parked overnight is a
  sale of the first day and money of no day (`routers/pos.py:1753`).
- *Till page.* `OneCartOneSale`, `OneDialogOneRefund`: a lost answer leaves cart or
  dialog as it was, and the next tap makes a new id. `ClosingIsWarned`: the warning
  looks at a count read before. `ScannedIsSomewhere`: an answer that arrives after more
  goods were scanned clears them too. Failed orders alone show no way to send them.
- *Reports.* `SnapshotStays`: the average cost behind a past day is taken at the time
  of reading. `RefundRestoresStock`: a sale takes stock units, its refund returns sale
  units. Weekly and monthly revenue do not subtract refunds, the daily one does.
- *Offline.* `EveryEventSettles`: an event under way when the program ends is never
  taken up again. `ClosedDayKeepsBooks`: replays do not look at the settlement. In the
  present pages nothing calls `enqueue`.
- *Stocktake.* `AlwaysCalibrated`: sales between snapshot and count are booked again as
  variance. `OneOpenSession`: two starts at once find none open. A count kept on the phone can
  overwrite a newer one.
- *Purchases.* `StoredStays`: a form read before the goods were stocked sets the list
  back. `NoMoreReturned`: more can be sent back of an item than went into stock.
  `AcceptedIsStocked`: the older confirmation stocks the planned quantity. `NoAdviceOvertaken`: advice noted
  while an import runs is dropped. `NoAdviceSkipped`: so is advice for a line that is bought already, of which the
  user is not told. `BoughtOnce`: an import whose answer was lost is repeated. `OneAtATime`: an import does not wait for
  other buttons.
- *Suppliers.* `PunctualFirst`, `CheapestFirst`: a punctuality of zero reads as missing,
  hence as full, and an offer without a price counts as the cheapest. `ListIsSearched`, `ListedOnce`, `DetailIsOpen`: an answer to an earlier search,
  page or supplier is shown. `EditIsAccepted`: a cleared number is refused.
- *Voice.* `ClosedDayStays`: a record of a closed day is edited. `NoneIsLost`: a sweep that found a draft
  deletes it although it was confirmed meanwhile, and its rows stay. A repayment by voice can
  exceed what is owed. A voided expense can be
  confirmed again. `CardIsItsLog`, `CancelledNeverSent`, `ShownUntilDecided`: cards
  are matched by position; a recording stopped by a cancel that comes second is sent.
- *Tenancy.* `PayingIsServed`: a tenant that subscribed again is suspended for its
  earlier subscription. Two makers at once can bill a day twice: both find no overlapping
  invoice, and the unique key compares starts only (the case `RenewalsDisjoint` excepts). A
  transaction that read an invoice before it was paid can still make it void, and one that read a
  subscription before it expired can still cancel or activate it (the case `EndedStays`
  excepts). Two administrators can make two live subscriptions, on which the worker's query
  for ended trials then raises (`Crowded`).
- *Reconciliation.* Two runs that overlap can leave a balanced task with open differences: the second
  does not see the rows the first inserted, and deletes none of them. `ClearedHasNoOpen` without
  its `tangled` fails so. `RerunIsIdempotent`: a rerun over the same rows turns a task that was
  resolved by hand back into an exception. A new difference with the key of a handled one
  is not recorded.
- *Catalogue.* `FailedDoesNothing`: an execution that fails at its second product has
  changed the first one. `RefusedIsUsable`: a relation is refused because it
  follows from a chain that conversion does not follow. With two handlers or makers at once, `ActedOnce` and
  `RelationsAgree` fail.
- *Clients.* `KeyedOnce`, `CarriedOutAsMade`: a retry is sent as whoever is logged in by
  then. `StoredOnce`: an event sent again after its device changed stalls is stored at both.
  `TriesExact`, `SuccessOpens`: overlapping requests get more tries than the rule, and in
  Redis a record read before a success sets a lock after it.

## Fairness

Weak fairness only, and only for what the system itself keeps running.

- `Idempotency`, `FirstLogin`: the server's next step on a request it has read. The
  event loop runs every task that can go on, and each step is a database call that
  returns or raises. Deaths, failures and new requests are not fair.
- `OfflineSync`: `Engine`, since passes start whenever the network returns and every
  request ends with an answer or its timeout, and `Work`, the worker's job every minute.
  Nothing is asked of the server or of users; that is why an event may end as failed.
- `ClientRequest`: the login's end, the server, the answer or timeout of a request and
  the timer of its retry. `PosPage`, `EdgeIngest`: the timer of the synchronisation or
  pass, the server and its answer; the number of faults is bounded, as a network that
  never works delivers nothing.
- `SupplierPage`: the server and the answers, by kind of call.
- `Tenancy`: the scheduler's jobs.

Strong fairness is not needed: no other actor can take a step away for good.

## What is proved

The theorems hold for all values of the constants that satisfy the module's `ASSUME`,
which TLC evaluates in the runs.

- `AllocationProofs`: what a sum over a finite set of rows is, and how it changes when rows
  are added, changed or compared. The sums are folds of the community modules, hence
  recursive functions; that their equation has a solution, and all that follows from it, is
  proved by induction in the form that a nonempty set of counterexamples has a smallest one
  (`WFMin`). The proofs about stock, till and days below cite these lemmas.
- `CounterProofs`, of the loop over the batches: `NothingLostHolds`, and
  `WalkIsTheSplitHolds`: the loop ends with `min(capacity, left)` taken of each row in order,
  which is the only split. The invariant says of each row behind the loop what it gave, by how
  much the rows before it held.
- `CounterProofs`, of the pages. `BuyingHeedsHolds`: what a request carries was on the page
  when it was sent, a form keeps the key it was opened with, and an item never goes back to a
  state before the one a payment saw (`BuyInv`). It is for pages on which an item that was sent
  back is not paid for and given another supplier as well (`PaidStays`, as in all sets of
  buttons of the run). `VoiceHeedsHolds`: what is booked was tapped by the user, and each card
  is its log's, unless an answer covered another card, which `blurred` remembers (`BookInv`);
  a tape that was uploaded was not cancelled, while no button was pressed before the recorder
  had stopped (`TapeInv`). `ComparedIsCurrentHolds`: a comparison under way carries the number
  of its asking; the one with the last number is of what the page shows, and its answer is one
  the server could have given since (`ComparedInv`).
- `CounterProofs`, of scores and limits. `RankingIsFairHolds`: each score rises with its
  figures, because rounding half to even is monotone (`RoundedInOrder`), and so does their
  weighted sum; the figures are typed by `DirectoryType`. `LimitsAreFairHolds`, for any rules
  whose lock is as long as their window, any addresses and any number of requests: those
  counted in the window now and those let through but not yet counted are never more than the
  limit and the requests that overlap (`FewCharged`); every failure in the window is one of them
  (`AllCharged`); and a lock in memory follows as many failures as it takes (`Earned`).
- `CounterProofs`, of the reports: `ReportsAddUpHolds`, for any products, prices, discounts,
  days and windows. The one thing that needs the order of events is that on every day the
  till's rows are worth what its orders of that day were sold for, and its refunds what they paid
  back (`RowSums`); each step adds the same on both sides. Revenue, cost and profit are sums by
  day, by product and by kind over the same rows, and agree because parts that do not meet make
  up the whole. `PastReportsStand`: a step that neither voids a row of a past day nor brings an
  offline one leaves all rows its report counts.
- `StockLedgerProofs`: `TypeCorrect`, `BatchBoundsHold`, `NeverRestockedHolds`,
  `LockedNeverSoldHolds`. Every action changes a batch by a part that `IsSplit` keeps
  within its capacity; that and the rows' types are the inductive invariant.
  `SoldGoodsCoveredHolds`, `SkuSoldCoveredHolds` and `NoPhantomStockHolds` compare two sums,
  one over the ledger and one over the batches, of all products' rows or one SKU's. Each is
  inductive once it also says what a row may still put back (a voided sale no more than it
  took) and what an inspection under way may still take off; every action then adds the same
  on both sides, or less on the smaller one. `RecallIsFinalHolds` and `NoPhantomStockHolds`
  are for one inspector: a pending inspection knows what its batch's status was, and only
  then it still is.
- `PosOrderProofs`: `TypeCorrect`, `PaidOrOwedHolds`. The property is not inductive: a
  collection adds to the receipts what it takes off the debt only if there is debt, and a
  combined payment a cent short can still be collected with none. `Balanced` says what each
  status knows of the gap. `FinishedIsFinalHolds` is an action property from the same
  invariant. `CancelledTookNothingHolds`: an order that is not paid has no stock and no
  money. `OneOrderPerClientHolds`: two admitted requests of a client meet at the unique key,
  so that each order's client is that of one row. `BookedOnceHolds` is proved for runs that
  make no combined payment (`SplitTxn = {}`), as the run assumes: each booking of a
  `transaction_id` left a payment row that carries it, which the next request finds.
  `RefundsAddUpHolds`: what is refunded is what the units refunded are worth, and what is
  left of the debt what the reverse payments did not pay; the invariant carries the
  allotment of every refund through its rounding.
- `SettlementProofs`: `TillUnchangedHolds`: each step of `Settlement` is a step of
  `PosOrder` or leaves the till alone, so that the theorems about the till carry over; they
  are taken over through an instance of `PosOrderProofs`. `ClosedOnceHolds`: a closed day has
  a row, and a closing that found none fails at the unique key. `DaysAddUpHolds`, for a till
  where a combined payment is to the cent (`Mismatch = 0`): the rows of every order over the
  days make up what the till has of it, and on its own day an order has received no more
  than its repayments; the totals of a day are sums of these, an order at a time.
- `ClientsProofs`: `AtMostOnceHolds`, `AnswersAreTrueHolds`: at most one attempt holds
  a key between insert and answer, a record in process was applied only by that attempt,
  a done record exactly once. `WritesArriveOnceHolds`, of any mini program and any edge
  controller side by side. For the mini program: a plain write is on the wire at most once
  and has not been carried out while it is; it is sent again only after the server has not
  known its token, and then it is nowhere (`SentOnce`). For the controller: a request that
  is accepted, a row a pass has marked and an event off the queue have all arrived
  (`Arrived`), and rows are never taken away. `LoginsBindHolds`: who holds a merchant's row
  or waits to bind it has a tenant, committed or its own. `AnswersAreHeededHolds` and
  `QueuedIsKeptHolds`, of the till page (`TillInv`): orders are numbered afresh; an order has
  one request under way, and while its answer is not lost the order is neither in storage nor
  being synchronised; it is sold or parked, not both. As long as goods of a live order are in
  the cart, its request is under way and keeps the page from sending another, so that a good
  belongs to one live order, unless an answer was taken for another one (`blurred`). An
  answer of the synchronisation is about a booked order.
- `OfflineSyncProofs`: `TypeCorrect`, `SettledIsBookedHolds` and `KeepsPromise`, the
  refinement of `KeyedBooking`. The invariant adds what makes the answers trustworthy:
  every row, request and letter is about an event that was queued; the request the phone
  waits for is about its present event; each event is booked at most once; an answer that
  settles is about a booked event. Only `Enqueue`, `Write` and `Redo` are visible from above, as
  `Want` and `Book`; all other steps stutter.
- `BackroomProofs`: `StockIsCountedHolds` and `CalibratedHolds` of a stocktake, for any
  products, sessions and movements. Voiding a booked loss brings its goods back to ledger and
  batches, and a batch takes no more than was bought into it; what keeps the ledger covered is
  that it and all losses booked and not voided stay within what was bought (`LossesHaveRoom`,
  a sum over sessions). `PurchasesAddUpHolds` of the purchases, for any items, lists and keys. The
  balance sums movements and the payables sum what is open; the invariant ties them by what
  is settled on the payables, which is what was paid and offset less what was credited. An
  amount spread over the payables in order is spread whole (`PrefixSplit`); what a list has
  left after it is the sum of what is open on each of its payables, so that a list called
  paid has nothing open, and it gets no new payable.

- `BackroomProofs`, of the back office. `RenewalsDisjointHolds`, for any number of makers at
  once: the renewal a maker is about to insert overlaps only invoices inserted since it looked,
  and it carries the periods of all of these (`RenewalInv`).
  `TaskIsTrueHolds`, for any number of transactions at once: handled differences are never deleted,
  and the keys of them that a run has read stay handled; of a run that has been alone so far,
  the open differences are those it has found, so that after its commit a task called cleared
  has no open difference, and all that the pairing leaves over is named by one (`TaskInv`).
  `CatalogueAgreesHolds`, for handlers and makers one at a time and SKUs that have a price: the
  one handler at work has read the present price, so that its row goes on from the last one
  (`PriceInv`); the relations of each scope put its units on one scale, and a relation about to
  be created joins two parts that no relation joined before, so that the scale of one part can
  be moved to fit (`UnitInv`). `VoiceBooksHolds`, of any number of logs and with sweeps at any moment: row, debt (what a repayment takes
  off included) and expense are a function of each log (`Follows`), lost ones included; what the batches got is what the booked purchases
  brought and `torn`, what had been sold out of purchases taken back; and what they gave is
  the booked sales and what was thrown away by hand (`Accounts`).
  `DoneStaysDoneHolds` (`OneHandler`) is an action property from these invariants, from what
  the one handler of a suggestion knows, that it has read it as pending (`ActInv`), and from what
  each administrator's transaction holds: a move that the state machine allowed from the status it
  read, so that whoever read an ended row writes no other status to it (`Fits`).

The assumptions are about numbers and shapes: quantities and bounds are natural numbers, cents
are whole, sets that are summed over are finite, a lock lasts at least as long as its window, as
in `core/rate_limiter.py`. A condition on how the system is used is a hypothesis of the
theorem, not an assumption: `OneHandler`, `OneMaker`, `PaidStays`,
`PricesAreGiven`, one inspector, no combined payment, and in `AtMostOnceHolds` no failure after
the commit. The disagreements listed above show most of them to be needed.

Every safety property of a passing run is the subject of a theorem; the two parts of
`PastStands` are `PastReportsStand` and `FinishedIsFinalHolds`. A theorem is about a component's
own specification where the run lets one desk work at a time: the other desks leave its
variables alone. Only model-checked is liveness, which is out of the prover's reach
(`EverythingSettles`, `WaitingEnds`, `LapseIsNoticed`, `SpinnersStop`).

## Not modelled

- Parsing of speech (`services/voice_parser.py`), recognition, vision, weather, machine
  learning: recognition by rules or by external services; the models take any result.
- Dashboards, insights, forecasts, dynamic pricing: they read the books, nothing depends on
  them, and the code does not say what would make a forecast right.
- Market administration and most of the administration API, staff records, products and
  categories: edits of single rows with no second state to agree with. Tenants, subscriptions and
  invoices, where that is not so, are in `Tenancy`.
- Permissions and the tenant filter: a table lookup and a condition on every query; all
  models are of one merchant whose callers are allowed to call.
- Expenses beyond those of the voice ledger, audit logs and archives: rows that no other handler reads.
- Heartbeats, releases and sensors of the edge; QR codes and checklists of batches; credit
  limits of customers; plans and quotas of tenants.
- Administration web pages, migrations, scripts and deployment.

## What could come next

An abstract specification of the till page, orders kept on a phone being the second
offline queue of the system, with `QueuedIsKept` and `SoldOnce` as its promise; the
food-safety handlers and the settlement check with the locks they lack, to show that these
would be enough; quotas, once the code takes a lock for them.
