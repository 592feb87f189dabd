# Mini-UPS and mini-Amazon: a TLA+ verification project

The repository holds two applications that fulfil orders together in a simulated
world. *Amazon* (FastAPI web application and a fulfilment worker, one Postgres
database) sells, packs and loads. *UPS* (Django web application and a daemon, one
Postgres database) sends trucks. Both talk to the *world simulator*, a binary, over
TCP with protobuf messages, and to each other over HTTP. `src/start_docker_only.sh`
starts everything.

Below, `U` stands for `src/erss-final-project-tl396-ldw59-hs452` and `A` for
`src/erss-project-zx158-zq65`.

## 1. Inventory

### UPS

| part | state | operations |
|---|---|---|
| world-command table (`U/ups/services.py` 122-140, 248-308, 447-471; `U/ups/models.py` 194-231) | rows with kind, shipment, truck, status PENDING/SENT/ACKED/FAILED, retry count, completed_at; `next_seq_num` of the session | queue a row, acknowledge, record an error |
| daemon poll (`run_world_daemon.py` 41-60, 149-303) | the loaded batch | query trucks, re-enqueue quiet deliveries, sweep stale SENT rows, send a FIFO batch of 20, consume answers |
| world session (`run_world_daemon.py` 70-83, 117-147, 260-336; `client.py` 24-74) | the row's `is_connected` and `world_id`; `_live_client`; the socket | handshake with two fallbacks, disconnect, restart |
| shipment life cycle (`services.py` 169-424; `client.py` 210-305) | status, destination, truck; events | `/pickup`, `/package-loaded`, redirect, world reports, callbacks, callback loop |
| HTTP interface and portal (`U/ups/views.py`) | none of its own | parsing, authorisation, pages |
| callback client (`U/ups/amazon_client.py`) | none | POST to each base URL in turn |
| framing (`U/ups/world/protocol.py`) | unread bytes of the socket | read and write length-prefixed messages |
| quotes (`services.py` 474-520) | saved quotes | price formula |
| seed commands, accounts, administration | rows | one-shot or CRUD |

### Amazon

| part | state | operations |
|---|---|---|
| order service (`A/app/services/order_service.py`, `A/app/models`) | per order: flags, derived status, last_error, truck, destination | create, `needing_*` queries, `mark_*`, redirect |
| fulfilment worker (`A/app/workers/world_worker.py` 34-128) | one ORM session per cycle | synchronise, request pickups, buy, pack, load, notify, synchronise |
| world client (`A/app/integrations/world_client.py` 55-259, `A/app/services/runtime_state_service.py`) | pending commands by key and by number, next number, acknowledgements to send; the world id in memory and saved | connect, queue, send, complete, handle responses, close |
| UPS client (`A/app/integrations/ups_client.py`) | none | POST with 3 attempts |
| HTTP interface (`A/app/api/orders.py`, `ups_callbacks.py`) | none of its own | orders, redirect, callbacks from UPS |
| storefront (`A/app/api/cart.py`, `cart_service.py`, `package_id_service.py`) | cart items, package-id counter | add, remove, check out, order directly |
| accounts (`A/app/api/auth.py`) | users | register, sign in |

### How they interact

`Amazon --/pickup--> UPS --UGoPickup--> world --UFinished or UTruck--> UPS
--/truck-arrived--> Amazon --APutOnTruck--> world --ALoaded--> Amazon
--/package-loaded--> UPS --UGoDeliver--> world --UDeliveryMade--> UPS
--/package-delivered--> Amazon`. Redirects may come from either side until the
package is out for delivery. Inside each application the web process and the
daemon or worker share nothing but rows. At UPS only `/pickup` runs in one transaction;
elsewhere every save commits on its own, and the lock on the sequence counter is given
back (`services.py:128`) before the row with that number is inserted (133).

### What is hard

* *Interleaving*: web threads of UPS read a row and save columns of it later, the daemon
  saves other columns in between (`services.py` 392-424, 341-389). At Amazon the worker
  keeps one ORM session for a whole cycle and decides from what it has read; requests of
  one customer and reads of the package-id counter interleave between commits.
* *Lost, late and repeated messages*: the simulator repeats what is not acknowledged,
  and answers may be lost (`src/world_simulator_exec/README.md:10` documents its
  flakiness); HTTP calls may be handled although they look failed. Both sides of a
  connection to the world number their own messages, and both take the number of a report
  for the number of a command (`client.py:236`, `world_client.py:227`).
* *Timeouts and retries*: the 15 s sweep of SENT rows, the re-enqueueing of deliveries
  after 30 s, the callback loop with its limit; Amazon's second without acknowledgement,
  its read that gives up in the middle of a frame, its three attempts at UPS.
* *Deaths*: several exceptions have no handler, compose does not restart the daemon,
  `is_connected` survives in the database; Amazon's commands and numbers do not survive.
* *Order*: a number is taken before its row is there; a sent batch is marked after it is
  sent; a shipment is saved before Amazon is told, and its delivery rows are closed after
  that; a report is noted for acknowledgement before it is saved; a cart is cleared after
  its orders are committed.

### What makes each part correct

| part | correct when |
|---|---|
| command table and poll | a number is given once; resends are bounded; an acknowledgement is final; the status agrees with the budget; polling does not pile up rows; every row is settled in the end |
| session | no command without handshake; the world in use has the fleet; a running daemon never abandons a live world; a broken connection is replaced |
| shipments | deliveries follow loading reports; a delivery that was made is closed; no world report moves a shipment backwards; arrivals are announced, are true, and callbacks are bounded; redirects stop when the package is out |
| Amazon orders | the status never names a stage that was not reached; a failed order is on no list of the cycle; the stock is what was bought and not packed; a saved redirect reaches UPS; every order is delivered or fails |
| Amazon world client | its two maps agree; all commands go to one world; what the world has done is saved or still reported; sending again is harmless; every command settles |
| Amazon storefront | package ids are unique and dense; nothing in a cart gets lost; nothing is ordered that was not asked for |
| both together | what happens to the goods happens in order: bought, packed, truck there, loaded, released, delivered |

## 2. Plan

Done, in this order:

1. `UpsCommands`, `UpsSession`, `UpsShipments` with their runs and proofs: the core
   that everything else hangs on.
2. `Fulfilment`, the abstract specification of what happens to the goods of an order,
   and `AmazonOrders`, the order service, worker cycle, callbacks and redirect, which
   implements it.
3. `AmazonWorld`: Amazon's side of the world protocol, with explicit numbers, and its
   proofs.
4. `AmazonStorefront`: carts, checkout and package ids.
5. A theorem for every safety invariant and action property of the runs, and for the
   refinement (section 5).

Left:

1. The composition of the whole `UpsShipments` with `AmazonOrders`, whose UPS is an
   abstraction of it. There belongs the redirect made in the UPS portal that
   `/package-loaded` overwrites (`services.py:420`).
2. The framing of UPS with a timeout in the middle of a frame, and the price formula
   against a reference definition.

## 3. Modules

`MC*` modules instantiate a module for TLC; their bounds are the constants of the
`.cfg`. `*_proofs` modules hold the theorems. Operators commented "Wrong on purpose"
are plausible mistakes that take the place of the definition after them when one asks
whether a property would notice; they are part of no specification.

### UpsCommands

`cmd` is the table, `next` the counter, `held` the number that a request thread or the
daemon has taken for a row it has not inserted yet, `pc` and `batch` the place of the
daemon in its poll, `arrived` what the world has received. Each database transaction or
socket operation is an action, so `Crash` and `WebDies` can fall between any two.
`QueuePickup` is one transaction. `QueueDelivery` of a request and `EnqueueQuery` and
`EnqueueDeliver` of the daemon take a number (`TakeNumber`), and `InsertRow` comes later:
rows may be created out of the order of their numbers (`created` stands for `created_at`,
by which the batch is sent), and a death in between leaves a gap. The poll goes on with
`RequeueStale`, `LoadBatch`, `Send`, `MarkSent`, `RejectLocally`, and the answers
`HandleCommandAck`, `HandleCompletion`, `HandleDelivered`, `HandleTruckArrived`,
`HandleError`.

Abstractions. "Older than 15 (or 30) seconds" is a free choice: a clock may always have
advanced far enough. An answer message is applied one entry at a time. A completion bears
a number of the world's, so it completes any row (`client.py:236`; `U/ups/tests.py:578-579`
use 312 and 313 for command 214). Of a shipment only its rows are here: what its status
is, and in which order it is saved, is in `UpsShipments`; `HandleDelivered` is the UPDATE
that ends the handler (`client.py:259-263`), and re-enqueueing does not ask whether the
shipment is DELIVERED, which allows more than the code. `Malformed` shipments are those
whose rows cannot be encoded, which only edits in the admin can produce.

### UpsSession

`session` is the row, `client` the `_live_client` object (none, without socket, with
socket), `link` the simulator's view of the socket, `worlds` and `fleet` what the
simulator holds. Each attempt of the handshake is an action, with every class of
result string the code distinguishes. A dead daemon may stay dead: nothing in the
deployment starts it again. `StartAgain` is the container started by hand, with the row
as it was. `RunScript` is `start_docker_only.sh`, which wipes both databases (95, 101,
120) and usually the simulator, has Amazon create a world, and writes that world's id
into the row with the flag cleared (194), whatever stood there. `started` remembers
which of the two it was, `stray` the starts after which a command was written on a
connection without handshake.

`NeedsHandshake` is written as the code evaluates it: after the client object has been
created, so `_live_client is None` is always false there.

### UpsShipments

`ship` is the shipment table, `row` the pickup and deliver rows, `call` what each
request thread has read and where it is, `daemon` the report or callback in work,
`events` the two facts the callback loop counts, `notices`, `at` and `reached` the
world, `told` what Amazon has been told. Each save is an action:
`ReportLoaded`/`SaveAssignment`/`MarkLoaded`/`TakeDeliveryNumber`/`QueueDelivery`/`MarkOut` for
`/package-loaded`, `Redirect`/`SaveRedirect`, `HandleCompletion` or
`HandleTruckStatus`/`MarkWaiting`/`TellArrival`,
`HandleDelivered`/`TellDelivered`/`CloseDeliveries`,
`FindQuietDelivery`/`TakeRequeueNumber`/`RequeueDelivery`. `Pickup` is one step because
it holds a row lock in a transaction; a thread that dies rolls nothing back elsewhere,
and the number it had taken is lost.

A completion is looked up by its own number, which the world chooses, and its truck is
that of the report: `HandleCompletion(m, n)` completes any row `n`, and
`CompletionOfNothing` none. A report that bears the number of a row it is not about
counts as one of `MaxFaults`, so that `NeverBackwards` can say it was none of these.

Abstractions. What UpsCommands does to the status of a row appears as `Accept` and
`Reject`. Each package has a warehouse of its own. LOADING is permitted by
`can_redirect` but set by no code, so it is left out. A callback that fails may have
been taken. Losses, repetitions, misnumbered reports and deaths share one budget,
`MaxFaults`. The daemon that dies is started again at once.

### Fulfilment

`happened` says per package which of six events have happened to it, each after those it
needs. Only the order is kept: an event that happens again changes nothing in a set, and
how often the world does a thing is asked in `AmazonWorld` (`RetriesAreHarmless`). Buying
and the truck's arrival need nothing: Amazon asks for the truck first and buys in the
same cycle.

### AmazonOrders

`pending` is the queue of the world client, `fresh` the part of it that the world has not
received, `torn` whether the stream has lost the beginning of a frame. `row` is the order
with its shipment as committed, `session` what the worker's ORM session holds of it, `worker` the place in the cycle with the call to UPS in progress,
`thread` the requests of the web server with the row each has read. `Written` is the
commit of an ORM object: it writes the columns that differ from what the session read,
so a stale object overwrites only what it changed, and the derived status is such a
column. `NextLoop` is the query of one of the five loops (`Wants` lists their
conditions): it selects by the table and returns the objects as the session knows
them. An object nobody refers to may have left the session, so the action chooses which
are kept. `QueueCommand`, `Answered`/`Rejected`/`AttemptFails` and `Conclude` are the
bodies of the loops; `HandleReport`, `ReportNotSaved`, `HandleError` and `Tear` belong to
the two synchronisations, in which `Synchronise` sends what is fresh unless the
connection fails; `Redirect`/`AskUps`/`SaveRedirect` and
`Callback`/`EndArrival`/`EndDelivery` are requests; `WorkerDies` and `ThreadDies` lose
what is in memory. What ends a hope for an order is remembered in `stranded`: a report
whose number was noted and whose save failed (`world_client.py:225`), a command that the
world passes over because the worker counts from one again (`restarted`, `PassOver`), a
callback that UPS has given up or never made (`CallbackLost`).

Abstractions. UPS is what it answers and calls: its truck, its destination, whether a
delivery is under way, which callback it owes; its own races are in `UpsShipments`, and
when it gives up the arrival callback is `CallbackSettles` there. Numbers are left out: a
report removes any one pending command or none, which is what numbers of two
independent sides can do, and after a restart an error may be taken for that of another
command. A save that fails leaves the SQLAlchemy session unusable, so it ends the cycle.
Whether `last_error` is written again depends on its words, so `SaveFailure` leaves it
open. All orders are for one product with quantity one, which
makes the stock a number. The waiting time between attempts and between cycles is left
out.

### AmazonWorld

Here numbers are explicit: `byKey` and `bySeq` are the two dictionaries of the client,
`acked` the commands the world has acknowledged, `toAck` the reports to acknowledge,
`got` and `reports` the world's side of each. `sync_once` is the sequence
`Connect` or `Proceed`, `Send`, any number of answers, `EndSync`; `at` says where it is,
so that everything that throws can be seen to leave the rest undone. Connecting that
fails, an id that cannot be saved, a send that breaks, a report that cannot be saved, a
read that ends in the middle of a frame and a death are actions of their own. `marked`
and `failed` stand for the order rows, from which `Wanted` finds commands again after a
death.

Abstractions. A number of the client may be used again when nobody holds it, which
keeps `Numbers` small; while the process lives this cannot confuse anyone, because the
world has forgotten it too. After a death the client counts from one, and the world may
or may not know the number from before: both are tried. A torn stream delivers no frame
any more: bytes from the middle of a frame are no valid frame except by accident. A
world that was created for an `AConnect` whose answer was lost is left out. `load` is as
`pack`, so runs may leave it out; whether its truck is there is a matter of
`AmazonOrders`.

### AmazonStorefront

A request is a thread with the item it has read or the items it has listed, and each
commit is an action: `BeginAdd`/`EndAdd` for the cart; for each item of `Checkout` and
for `Submit`, `ReadCounter`, `Reserve` (takes the row lock), `Place` or `Clash` (commits
or is refused by the unique column); then `ClearCart`. `TooMany` is the validation of
`OrderCreate` in the middle of a checkout; `Fail` is the exception that rolls the
session back. `asked`, `overlapped` and `halted` remember what customers have asked for
and how, for the properties.

Abstractions. The database reads committed rows. Listing and deleting the items of a
cart is one step. Customers are signed in. Where the order goes is left out. Listed
items come newest first by their ids, which are given in the order of `created_at`.

## 4. What the runs check

| run | question | result |
|---|---|---|
| `commands` | do budgets, verdicts and liveness survive every order of sends, sweeps, answers, rejections and two deaths? | holds |
| `commands_pileup` | do the in-flight guards of the two loops that queue rows by themselves hold? | holds |
| `session` | is the handshake right on all three paths, with any three faults, in daemons the script started? | holds |
| `session_restart` | and in those started again by hand? | `HandshakeFirst` fails: such a daemon trusts the old flag |
| `shipments` | deliveries as reported and closed, bounded retries, no step back, over interleaved requests, reports and callbacks of one package | holds |
| `shipments_callbacks` | is each of two waiting packages announced, given up, or hidden by older ones in the end? | holds |
| `shipments_redirect` | redirects rejected once out for delivery | fails: check and save are apart |
| `shipments_arrival` | arrivals announced are real | fails: a truck status is matched to the oldest pickup, whatever the warehouse |
| `amazon_orders` | do stale sessions, late and repeated calls and reports, errors and deaths keep the goods in order, failed orders off the lists of a cycle, the stock exact and redirects fresh? | holds |
| `amazon_orders_settles` | is every order delivered or failed again and again? | holds, unless it is stranded or the stream stays torn |
| `amazon_world` | does Amazon's side of the world protocol lose or repeat a command? | holds, with the exceptions named below |
| `amazon_storefront` | do package ids and carts survive concurrent requests and checkouts that break off? | holds, with the exceptions named below |

### Bounds and why they are enough

* `commands`: two rows are the least for a batch with an order and for a row that
  blocks another; a budget of one retry reaches both sides of the comparison with
  `MaxRetries`; two deaths separate "once per death" from "once". `MaxErrors = 3`
  lets errors arrive after the budget is spent.
* `commands_pileup`: three rows hold a pickup and two queries, or a pickup, a delivery
  and its copy.
* `session`: three world ids allow two losses of a world in a row, three faults allow
  a fault during the recovery from two others. Starting the daemon again is no fault; each
  start follows a death. `session_restart` needs one death only.
* `shipments`: one package, since packages meet only in trucks, and what several do to
  each other there is the subject of `shipments_arrival` and of the theorems; two trucks
  and two addresses let `/pickup`, redirects and reports
  disagree; two rows hold a pickup and a delivery, two pickups, or a delivery and its
  copy; `FailureLimit = 2` lets the two callbacks share the counter; one fault is
  enough for every repetition, misnumbered report or death alone, and its place is free.
* `shipments_callbacks`: two packages compete for the loop, two failures and one death
  or lost acknowledgement may fall on either. Packages wait without any slow request,
  so there are no threads. `Window`, 20 in the code, is one smaller than the number of
  packages: the older one, announced or exhausted, hides the younger.
* the two failing runs of `UpsShipments` have no faults at all: what they show needs
  no loss.
* `amazon_orders`: one order, because orders meet only in the stock and in the list of
  a loop; two trucks and a second address let a repeated `/pickup` and a redirect
  disagree with what was read; one thread besides the worker and UPS gives three
  writers of one row. One fault of any kind is enough for each failure alone, and its
  place is free. `Attempts = 1` makes the attempts of one call fail together; that a
  later attempt follows one that was handled is the fault after which the worker asks
  again in its next cycle. The order cannot be redirected back to its first address.
* `amazon_orders_settles`: the same with one truck and no redirects, which have no part
  in the question.
* `amazon_world`: the two kinds of command that follow each other, so one may be
  pending while the report of the other comes; two numbers are the least with which a
  report can be misread; a second world id for a world that is asked for anew. Two
  faults allow a death or lost connection after a lost acknowledgement. The same run
  with two packages that are only bought, and one fault, holds as well.
* `amazon_storefront`: two threads, a cart of two products and a direct order let two
  ids be read at once and let a cart change under its checkout; a cart quantity of two
  exceeds `MaxQuantity` (1000 in the code).

Deadlock is checked except in the runs of `UpsShipments`, where a delivered package
with nothing left to report, or bounds used up, is the end, and in `amazon_storefront`,
whose customers may stop.

### Fairness

* `UpsCommands`: the loop of the daemon runs (weak fairness of `Poll`, which the code
  justifies) and a dead daemon is started again (weak fairness of `Restart`, which nothing
  in the deployment does: `RetryingEnds` is about a daemon that an operator looks after);
  a connection is obtained again and again (strong fairness of `LoadBatch`); a row that
  stays SENT turns stale, so the sweep takes it (strong fairness of `RequeueStale(n)`).
  The world owes nothing: `RetryingEnds` holds even if it never answers.
* `UpsSession`: a poll that has come to the connection goes on, and the simulator does not
  refuse each kind of handshake for ever. Nothing makes a poll begin, since one without
  work returns before it looks at the connection (`run_world_daemon.py:254-256`), and
  nothing starts a dead daemon. `AlwaysReconnects` therefore has a condition: as long as
  polls with work begin again and again in daemons the script started, there is again and
  again a connection past its handshake.
* `UpsShipments`: the daemon finishes the job it is at; `RetryCallback(p)` has strong
  fairness because the loop opens every poll. That the daemon is there is assumed as in
  `UpsCommands`. Nothing is assumed of requests, of the world or of Amazon.
* `AmazonOrders`: the worker cycles for ever (`main` catches every exception) and
  finishes its loops; reports that are open are read in some synchronisation (strong
  fairness: between cycles, and while the stream is torn, they cannot be); the world
  carries out a command or passes it over; UPS acts on what it was told and makes its
  callbacks, unless it loses them; requests finish. No fault is fair, and none needs to
  happen.
* `AmazonWorld`: the worker calls `sync_once` for ever and queues what its rows want;
  seconds pass, so that acknowledged commands are sent again at some time; the world
  carries out what it got and repeats a report until it is acknowledged, and one of the
  repetitions meets a synchronisation. The time-out of a read has no fairness to do with
  it: a torn stream may stay torn.

### What some properties do not say

`NeverBackwards` speaks of world reports and callbacks, when nothing was lost or
repeated and no completion bore the number of another row: `/pickup` itself sets EN_ROUTE
whatever the status was, and a completion that is repeated, or that is about a delivery
and happens to be numbered like a pickup row, makes a delivered shipment WAITING, as the
code is written. It also assumes
that no truck sent for the package was sent for another one (`OwnTruck`), for the reason
`shipments_arrival` shows: the status of a truck at one warehouse completes the oldest
pickup it has, and that of another package is then left to be reported once more. It is
not enough that the shipment row names a truck of its own, as an attempt to prove it
showed: `/package-loaded` changes the truck of the row, while the pickup rows keep
theirs. With two packages and two trucks TLC finds a shipment that is moved back in that
way after a report for it came before its arrival. The run has one package; the theorem
speaks of any number.
`RetriesBounded` counts one more call for each death that hid the outcome of a
callback, since the event is written after the call. `ResendBudget` likewise counts
one more transmission for each death between the send and `mark_sent`.

`DeliveredIsClosed` does not say that a DELIVERED shipment has no open delivery row: the
status is saved first (`services.py:369`), then Amazon is called, then the rows are closed
(`client.py:259-263`), and a request may save OUT over DELIVERED (`services.py:301`). It
says that the open row of a delivery that was made is not forgotten: the world still owes
the report, and the repeated report closes the rows whatever the status is.

`LiveWorldIsKept` is about a running daemon: `start_docker_only.sh:194` puts another id
into the row, whatever the simulator holds.

`CallbackSettles` speaks of packages in the window of the callback loop. The loop takes
the 20 oldest waiting shipments whether or not they were announced, so a package beyond
them is not retried until one of them moves on.

`StockExact` speaks of states before a report has been handled twice: a repeated arrived
report adds to the stock again. `Implements` speaks of the order in which things happen
to the goods and not of how often. `FailedLeavesQueues` is about the lists of one cycle: a
shipment on a list has not failed since the loop began; in a later cycle it may be back,
because every `mark_*` clears the error, and `OrderSettles` says that it then comes to an
end again. `RedirectReachesUps` says that an address is at most one cycle old; a redirect
that is saved in the cycle that sends `/package-loaded` may miss it. `OrderSettles` says
that an order is delivered or failed again and again (a failed one may come back), and
excepts what is `stranded` and a stream that is torn and never closed: nothing in the code
ends these, and `AmazonWorld` and `CallbackSettles` have the same exceptions.

`DoneIsSaved` and `CommandsSettle` have an exception for a report whose save failed
(`lost`), `OneWorld` for a world id whose save failed, `RetriesAreHarmless` for a report
that was taken for another command's and for a new process, whose numbers the world may
know or not. `CommandsSettle` also excepts a restarted worker, whose command the world
may pass over as one it has seen, and a torn stream, which nothing closes.

`NothingLost` is about customers with one request at a time, `NothingTwice` also only
about those whose checkouts all went through: a checkout that breaks off after its first
order leaves the whole cart to be ordered again, and an item added while a checkout runs
is deleted with the rest.

## 5. What is proved

Every safety invariant and every action property of the passing runs is a theorem, and
so is the refinement of `Fulfilment`. All theorems are for any value of the constants,
from the assumptions stated in the modules, which TLC evaluates. Apart from types and
bounds these say: `None` is no shipment, customer, truck, thread, world or row, nor the
answer `"error"` of a call (`AmazonOrdersAssumption`, `NoneIsNoRow`); the packages of
`AmazonOrders` are finitely many; no thread of the UPS web server is the daemon. Each
inductive invariant was checked by TLC on small instances before it was proved.

* **`UpsCommands_proofs`.** `IInv` strengthens the properties by four facts: rows are
  stamped in the order of their insertion (`Stamped`, so that the first of a batch is one
  row although numbers and insertions are in different orders), everything that arrived has a row (so an answer finds its row), rows of the batch are
  PENDING until `mark_sent` (the daemon is the only one that changes statuses while it
  dispatches), and `SendsAreCharged`: transmissions are paid for by retries, deaths and
  the one attempt that is open. Without the last, `ResendBudget` is not inductive: a
  PENDING row that was sent more often than its retries say could be sent once more.
  `Inductive` shows Init => IInv and that every step keeps it; type correctness,
  `ResendBudget`, `AckSettles` and `BudgetMatchesStatus` are parts or consequences.
  `SpentStaysQuiet` follows because only rows of the batch are sent and those have
  budget. `QueriesDoNotPileUp` is proved from a further invariant of its own, which covers
  the query whose number the daemon holds and whose row is still to come. The part of
  `TypeOK` about numbers (a number is a row, or held once, or lost) needs that the counter
  is committed before the number is used.
* **`UpsSession_proofs`.** `ScriptHandshakesFirst` rests on `FlagMeansShaken`: while a
  process lives that the script started, `is_connected` implies an open socket past its
  handshake; `RunScript` establishes it by clearing the flag. `FleetRegistered` and
  `LiveWorldIsKept` rest on `AttemptMatches`: the attempt without trucks is only made in a
  world that has them, the request for a new world only after the id was forgotten.
* **`UpsShipments_proofs`.** `TypeInv` adds to the types what makes lookups total: rows
  below the counter have a package and a truck, a number that is held has no row and no
  other holder (`HeldOK`), a request at work carries a report that was accepted, the daemon at work has a package and a truck where its step needs one,
  notices refer to rows. `DeliverAsReported` is inductive together with `TypeInv` and
  `RequeueReported`: what the re-enqueue loop has read comes from a delivery row, so
  the copy is never the first delivery of its package and inherits a reported truck.
  `DeliveredIsClosed` is inductive with `TypeInv` and `ReportOfJob`: the daemon closes the
  rows of the package that the report in work is about, and the callbacks of an arrival
  never acknowledge the report of a delivery.
* **`UpsArrivals_proofs`.** `RetriesBounded` needs `CallsAreCharged`: every call about a
  waiting shipment that is not known to have succeeded is a failure on record, a death,
  or the call being made; the comparison with the limit, made before a call, then
  bounds the number after it. `NeverBackwards` rests on `ArrivalInv`. Its parts: the
  world reports only on commands it has received (`NoticesReached`), a truck is at a
  warehouse it was sent to (`AtWarehouse`), a package that left was reported by Amazon
  (`LeftWasReported`), a package has one pickup (`OncePicked`, without faults), and for a
  package with its own trucks, once it waits, is announced or is about to be, its pickup
  row is completed and the world has no more to say of it (`AnnouncedOnce`). So
  `mark_shipment_waiting`, which saves without looking at the status, finds a package
  that has not left: had it left, Amazon would have reported it after the announcement,
  and nothing would be left to handle.
* **`AmazonOrders_proofs`.** `TypeInv` says, besides the types, that what a session or a
  request has read of an order has passed no stage that the row has not passed, that the
  lists of the worker hold orders its session has, and that commands and reports follow
  each other. A command the world has or has carried out is for a package that was ordered,
  and a report is of a command that was carried out. `Backed`, the part of it about the status of a row, is
  `StatusNeverAhead`; it is kept although stale statuses are written, because flags are
  only ever set and a stale status was backed by the flags that were read with it.
  `RedirectReachesUps` rests on `DestInv`: row and session have an address that the row
  had in this cycle. The session is emptied at the start of a cycle; that is what the
  step from `StartCycle` needs.
* **`AmazonGoods_proofs`.** `QueueInv` says that what is on the list of a loop still has
  the flags the loop asked for and no error: flags stay, and only the two
  synchronisations, when there is no list, and the worker's own failed call write errors,
  the latter for an order that leaves the list with it. `FailedLeavesQueues` follows.
  `GoodsInv` relates what Amazon believes to what has happened: a flag implies the event,
  a command that is queued, sent or carried out implies the flags it needs, a callback on
  its way implies the arrival. `Fulfils` is the refinement: the initial states map to nothing having
  happened, `CarryOut`, `UpsArrives`, `UpsLoaded` and `UpsDelivers` map to the event of
  `Fulfilment` with its needs met by `GoodsInv`, or to a stutter when it has happened
  before, every other step to a stutter (`PassOver` and `ReportNotSaved` among them: what
  is lost on the way changes nothing of the goods). `StockExact` is inductive with `GoodsInv`: as
  long as nothing was handled twice, the stock is the cardinality of the set of orders
  that have been bought and not packed.
* **`AmazonWorld_proofs`.** `IInv` adds three facts to the types, the maps and
  `DoneIsSaved`. `WorldInv`: as long as ids could be saved, the id in memory and the
  socket are none or the saved one, and the settings, if they name a world, name that
  one; this makes `OneWorld` inductive through connections and deaths. `NotedInv`: a
  process never changes its world, the numbers noted for acknowledgement belong to
  reports of that world which are open, no two of these share a number, and what they
  tell is saved or lost. Without it `DoneIsSaved` is not inductive, since the next
  message could acknowledge a report of the same number that nobody has read.
  `OnceInv`, for a process that has read no report as another command's: a number means
  one command to both sides, what the world has still to do is queued under that number
  and not done, what it has done is in the rows or queued under a number it has seen, and
  an error is about a command that was not done. `RetriesAreHarmless` is its last part;
  the others are what keeps a second number for a done command from being taken.
  `MapsAgree` needs only the types.
* **`AmazonStorefront_proofs`.** The types need that a request with something to do has
  an item to do it with, and that whoever holds a cart item knows its customer and
  product, so that no request writes a row of another customer. `PackageIdsAreDense`
  rests on `ReadsAreOld`: what a thread has read of the counter is at most the counter.
  With density, an id that is not taken is then the counter itself, so the one insert
  that the unique column lets through is the right one. The row lock is not used: it is
  the unique column and the rollback that make the ids dense. `NothingLost` and
  `NothingTwice` follow from `CalmInv` and `AccountInv`. `CalmInv`: while a customer
  makes one request at a time, there is one row for a product, and what the request has
  read is still there; the list of a checkout is complete and has no product twice
  (its length is that of the set and its ids differ). `AccountInv`: what was asked for is
  what is *held*, orders and cart together, where the cart row of a product stops to count
  once a checkout in progress has ordered it; a checkout that breaks off makes it count
  again, which is why held may then exceed asked for (`halted`).
  The sums in these properties are folds over finite sets. The induction theorems of the
  library cannot be instantiated by the provers, but its theorem that the strict subsets
  of a finite set are well-founded can be cited: every non-empty set of subsets has a
  smallest one (`SmallestSubset`), hence the function that the fold iterates exists and is
  unique (`AddsExists`, `AddsIsUnique`), the order of summation does not matter
  (`SumOfOneMore`), and a row more or less changes the total by its quantity.

Only model-checked: the liveness properties `RetryingEnds`, `AlwaysReconnects`,
`CallbackSettles`, `OrderSettles` and `CommandsSettle`, since liveness under fairness is
beyond the prover, and the three runs that show a violation.

## 6. Where code and documents disagree

1. `run_world_daemon.py:269-271`: the comment promises a handshake "whenever this
   daemon has no active in-memory socket yet"; the test is made after the client object
   was assigned and only the flag decides (`session_restart`).
2. `U/docs/protocol-starter.md:105`: "Redirects must be rejected once the package is
   out for delivery"; the check and the save are apart and unlocked
   (`shipments_redirect`).
3. `U/docs/protocol-starter.md:94`: `/truck-arrived` is "Sent when the assigned UPS
   truck reaches the warehouse and is ready to load"; the matching ignores the
   warehouse (`shipments_arrival`).

Seen while modelling, and not the subject of a run of their own:

* `A/danger_log.txt:13` says "failed shipments are removed from worker queues until
  manually repaired". They are removed, and `FailedLeavesQueues` shows that no list of
  the present cycle holds one, but not until a repair: every `mark_*` clears `last_error`
  (`order_service.py:208` and its like), so a late report or callback puts the shipment
  back into the queries of a later cycle.
* `client.py:235` says "Match completion.seqnum back to the command that produced this
  event"; lines 236-246 look up the row that has the number of the report itself, which
  the world chooses.
  `U/ups/tests.py:578-579` answer command 214 with reports 312 and 313. A delivery's
  completion that is numbered like a pickup row makes that shipment WAITING again.
* `A/danger_log.txt:4` counts on acknowledgements: `world_client.py:225` notes a report
  for acknowledgement before it is saved, so one whose save fails is lost.
* `world_client.py:203` and 227 complete the command that has the number of a report.
  The numbers of the two sides are independent; the command that was meant stays in the
  queue, and is sent every second as long as the process lives.
* `A/app/schemas/order.py:10` limits the quantity of an order, `add_to_cart` has no
  limit: a cart item above it breaks every checkout, which orders the items before it
  again each time.
* `U/ups/services.py` 375-389: the delivered callback is made once; if it fails Amazon
  keeps the order as out for delivery (`stranded` in `AmazonOrders`).
* A worker's session that has read an order before its delivery writes its own derived
  status when it saves after it: the flags stay right, the status column falls behind.

## 7. Not modelled

The portal, accounts of both sides, administration and seed commands hold no state of
the fulfilment protocol; the pages of both web applications only read. Items, owners,
coordinates of trucks, event texts and quotes do not influence it. The framing and the
price formula of UPS are planned (section 2). Authorisation decides who may make a
request, not what it does. The simulator is a binary; it appears as the external actions
of the modules, at least as unreliable as its documentation says.
