# Pana Taxi, formally

TLA+ models of Pana Taxi: its backend (`src/back`, NestJS, TypeORM on MySQL,
BullMQ on Redis, Socket.IO), the session of its web panel (`src/front`) and the
pages a ride goes through in its two Flutter apps (`src/mobile`). They are
model-checked with TLC on small instances, and all but what must happen in the
end is also proved with TLAPS for every size. Line
numbers refer to the files named; `trips.service.ts` without a path is
`src/back/src/modules/trips/trips.service.ts`, and so on.

## 1. What the checks say, in short

Holding under every interleaving of the handlers:

- a trip has at most one selected offer, of the driver its row names; he did
  offer; a ride needed the passenger's code; a charged trip is never handed out
  or under way again; the handlers refine a custody contract: one driver for
  ever, one start, fees for rides only (`Trips`, proved);
- every wallet and every cooperative account equals the sum of its book; the
  commission of a trip is in both books or in neither; a confirmed recharge or
  settlement was posted, a pending one was not (`Ledger`, proved);
- no price asked or agreed falls below the platform's floor (`Search`, proved);
- the refresh token of an account was signed for its session, and one browser at
  a time can act for the account (`Sessions`, proved);
- no code of registration, login or recovery is accepted twice (`Accounts`,
  proved);
- a driver who is online, and whom the code did not lose by one of three known
  gaps (section 3), hears of new trips (`Presence`, proved);
- a metered ride costs no less than the base fare and no more than was driven, or
  the minimum: what pings lose to each other, the driver loses (`Rides`, proved);
- when nothing is in flight, the passenger's and the driver's page is that of
  the ride as it stands (`Passenger`, `DriverApp`, proved; without drops and
  failures, and for the driver if no event of the ride found no listener);
- what must happen in the end does, under the fairness of section 4 (checked).

Holding for any number of handlers in flight that stay apart, which for each of
these says exactly which pairs of calls must not meet (section 5; proved):

- one active trip per driver, one live trip per client, the offer limit, one
  charge per trip, BUSY exactly while on a trip, the documented state diagram
  (`Trips`);
- a confirmed recharge or settlement and the commission of a trip are on their
  books once, and no decision on one is overwritten (`Ledger`);
- the card books carry every balance and name a completed payment once, unless
  its settlement was cut short; what drivers were paid and are owed has come in,
  as long as each payment is confirmed for the trip it was made for (`Cards`);
- a price with quotes is left alone and a search only widens (`Search`); the
  meter adds up, the fare is what it shows and a deviation is reported once
  (`Rides`);
- approved taxis have approved members (`Enrollment`); hired drivers have the
  taxi they are lent (`Shifts`).

One handler at a time never meets another, so all of this holds of the handlers
in themselves. Two that do meet break the rule; section 6 says how.

Not holding, each with a run that shows how:

| run | the code | what happens |
|---|---|---|
| `trips_double_booking` | `trips.service.ts:782` | two clients select offers of one driver; each transaction locks its own trip and finds him free |
| `trips_walk_in` | `trips.service.ts:388` | a walk-in trip that a driver accepted is cancelled for lack of drivers; nobody can select his offer |
| `trips_pool` | `trips.service.ts:844` | as many selections as database connections: each holds one and queues for a second, and the application stops |
| `shifts_taxi` | `drivers.service.ts:276` | two drivers online with the same taxi, without any concurrency |
| `enrollment_deletion` | `drivers.service.ts:784` | a driver with offers loses wallet, papers and taxis to a deletion that the database then refuses |
| `passenger_code` | `active_trip_page.dart:180` | the app restarted during a search never shows the code the driver asks for |
| `driver_finish` | `trip_active_page.dart:815` | a completed ride leaves the driver on a page with nothing on it |

Of two of them the proofs say that nothing else goes wrong: drivers with one
taxi come only of going offline with it or of two starts at once
(`TaxiInOneHand`), and a driver without a wallet only of the refused deletion
(`DriversStayWhole`).

## 2. The system

### Components, their state and how they interact

| component | state | operations | works with |
|---|---|---|---|
| trip dispatch, `trips.service` | `trips`, `trip_offers`, `drivers.online_status` | create, offer, reject, select, arrive, start, complete, cancel, prices | wallet and accounting inside the transaction of `completeTrip`; stands at selection; gateway after the reply |
| expansion queue, `queues/trips` | BullMQ jobs, `trips.status`, search radius | radius job, timeout job | enqueued by `gateway.notifyNewTrip`, writes trips directly |
| scheduler, `trips.scheduler` | search radius, wait timer | every 5 s and every 15 s | trips, gateway |
| driver wallet, `wallet.service` | `driver_wallets`, `wallet_transactions`, `recharges` | request, confirm, reject; deduct a commission; card balance and payout | trips, payphone, staff |
| cooperative accounts, `accounting.service` | `cooperative_accounts`, `coop_account_txs`, `cooperative_settlements`, the platform rate | credit a commission; create, confirm, cancel a settlement | trips, staff |
| availability, `drivers.service` | `drivers` (status, vehicle, last_seen, prompt) | start-day, end-day, status, location, inactivity cron | trips set BUSY/ONLINE in the same row; gateway |
| enrolment: `cooperatives`, `drivers`, `vehicles` services | approvals, memberships, documents, taxis | register, approve, reject, suspend, delete, assign | each checks the others' rows |
| vehicle requests | `vehicle_requests`, applications, `vehicle_assignments` | publish, apply, withdraw, accept, cancel, complete | writes `drivers.active_vehicle` |
| stands | the stand queue | check in, check out | drivers, trips |
| card payments, `payphone.service` | payment status of a trip, card balance | link, confirm, charge a saved card | Payphone (HTTP), wallet |
| sessions and accounts, `auth.service` | `users` (session_id, refresh hash, one code column), limits in Redis | register, login by password or code, refresh, logout, recover | every request (JwtStrategy) |
| gateway | socket maps, rooms, meter, route | connect, disconnect, location ping | trips, drivers, both apps |
| driver safety | deviation marks on a trip | a cron every three minutes | gateway's rerouting |
| web panel | cookies, access token, interceptor, socket | sign in, refresh, sign out, be replaced | auth, gateway |
| passenger app, driver app | page, cached trip, listeners, socket | taps, answers, events, resume, restart | trips, gateway |
| fares, billing, platform, SOS, chat, ratings, terms, notifications, reports, audit, storage | their own tables | lists, crons, pushes | as named in `PROJECT.json` |

All processes share MySQL. A handler is JavaScript between awaits: two requests
interleave at each statement. Some statements share a transaction with a locking
read (`selectOffer`, `completeTrip`, `confirmRecharge`, `confirmSettlement`,
`payoutCardBalance`); most are autocommitted one by one, after a check made in
an earlier statement.

### What is hard here

1. *Check, then write by id.* Nearly every handler reads a status, awaits
   something, and updates the row by its id without repeating the condition.
   What that costs depends on which pairs of handlers overlap.
2. *Locks of the wrong row.* The lock on a trip does not protect a rule about
   its driver.
3. *Two tables that must agree*: driver status and trips; balance and book; trip
   completion and two books; assignment and `active_vehicle`; membership and
   taxi.
4. *Background work*: the timeout job is enqueued after the reply, tried once,
   and races with a selection; crons read a list and then write each row; pings
   are handled without waiting for one another.
5. *Deadlocks and retries*: InnoDB deadlocks are met by running the transaction
   again; the connection pool has no timeout.
6. *Partial failure*: several writes without a transaction; a gateway that
   charges and whose answer is lost.
7. *Copies that go stale*: access tokens after a login elsewhere, cookies shared
   by tabs, a trip cached by an app, listeners that a page took away from the
   page below it, a socket the server has not yet missed.

`PROJECT.json` lists the forty hazards that matter most at their lines, with the
properties that catch them. Seen while reading and left out of that list, in
parts outside the models: duplicate rows from get-or-create
(`chat.service.ts:52`, `fare.service.ts:63`, `ratings.service.ts:46`,
`platform.service.ts:286`); publication of terms without a transaction
(`terms.service.ts:161`); `parseFloat(...) ?? x`, which never yields `x`
(`trips.service.ts:501`).

### What makes each component correct

- *Trips*: one driver per trip and one trip per driver; a ride only with the
  passenger's code; fees for rides only, once; every request resolved.
- *Search*: prices between floor and offers left alone; the radius grows to its
  maximum and every request is shown ever farther.
- *Rides*: the meter counts each ping, the fare is the meter's; one notice per
  wait, one alert per deviation.
- *Ledger*: each book is a chain that ends at the balance; both books of a trip
  move together; each decision on a recharge or settlement is posted once.
- *Cards*: one credit per approved payment; never more owed than came in.
- *Shifts*: one driver per taxi; a hired driver drives only what is lent to him;
  who is silent is asked and, unanswered, disconnected.
- *Enrolment*: an approved taxi has an approved owner and member behind it; a
  driver is there whole or not at all.
- *Sessions*: one live session per account, on one device; nobody waits for ever
  for a refresh. *Accounts*: a code is good once; a lockout ends.
- *Presence*: who is online is told of new trips.
- *Apps*: the page is that of the ride as it stands.

## 3. The modules

| module | content |
|---|---|
| `Trips` | dispatch, timeout job, stand checkout, driver status: the core |
| `TripCustody` | abstract: who may take and ride a trip (refined under every interleaving) |
| `TripLifecycle` | abstract: the state diagram of `ARQUITECTURA.md` (refined while calls stay apart) |
| `TripsProofs`, `TripsApartProofs` | theorems about `Trips`: under every interleaving; of calls that stay apart |
| `Ledger` | wallets, recharges, accounts, settlements, the money side of `completeTrip` |
| `LedgerProofs` | theorems about `Ledger`: the books close; what was decided was posted |
| `Cards` | links, confirmations, charges, the driver's card balance and its payout |
| `Search` | the prices of a negotiated request, its search radius |
| `Rides` | wait timer, meter, route and deviation |
| `FareProofs` | theorems about `Search`, `Rides` and `Cards`: what a ride costs and what becomes of it |
| `Shifts` | availability, inactivity cron, lending taxis |
| `Enrollment` | a cooperative, an owner-driver and his taxis: registration, decisions, deletion |
| `Presence` | one driver's sockets, his status and the room of new trips |
| `DriversProofs` | theorems about `Shifts`, `Enrollment` and `Presence` |
| `Sessions` | one account signed in from several browsers and tabs |
| `Accounts` | one phone number: registration, codes, recovery, limits |
| `AccessProofs` | theorems about `Sessions` and `Accounts` |
| `Passenger` | the passenger's app during a request and a ride |
| `DriverApp` | the driver's app during offers and a ride |
| `AppsProofs` | theorems about the two apps: types, and the page that fits the trip |
| `MCTrips`, `MCShifts` | symmetry and small constants for TLC |
| `MCServices` | the modules other than `Trips` put together for TLC |
| `ServicesProofs` | theorems about them together |

### Common form

A table is a function over ids; status `"none"` is an id not inserted yet. A
call or job in flight is a slot of a request variable (`req`, `cardReq`, `wire`,
...): it holds what the handler has read and which statement comes next. A step
is one autocommitted statement, or one transaction where nothing can be seen
between its statements. So one slot means no concurrency, and with two every
pair of handlers interleaves. A definition `Xyz...` under a comment "Mutant" is
a plausible mistake that replaces `Xyz`: it shows that a property can fail, and
is used in no specification.

### Trips and the code

Each handler is an action named after it, plus one action per later write:
`CreateTrip`/`InsertTrip`/`EnqueueJobs`, `CreateWalkIn`, `MakeOffer`/
`CountOffers`/`LookupOffer`/`InsertOffer`, `RejectOffer`/`RejectWrite`, `SelectOffer`/
`SelectBegin`/`SelectCheckout`/`SelectCommit`, `DriverArrived`/`ArriveWrite`,
`StartTrip`, `CompleteTrip`/`CompleteCommit`, `CancelTrip`/`CancelCommit`,
`TimeoutRead`/`TimeoutWrite`/`TimeoutSkip`, `SetOnlineStatus`, `CheckIn`,
`CheckOut`. `Fail` ends one handler at its next statement, `Crash` all of them.

Why the steps are as coarse as they are:

- `selectOffer` takes `FOR UPDATE` on the trip row first; nobody writes the row
  until the commit, so the locked status and the snapshot of offers and trips
  read after it are one instant (`SelectBegin`). The transaction's own writes
  become visible together (`SelectCommit`); the stand checkout goes through
  another connection and commits at once (`SelectCheckout`).
- `startTrip` is one transaction whose check is under its own lock: one step.
- The reads of `makeOffer` before its first await that could matter (status,
  driver busy) are one step: a status never returns to REQUESTED.
- `InsertOffer`, `ArriveWrite` and the other single statements need the row lock
  that a selection may hold (`RowFree`): the foreign key of an offer and the
  updates by id do.
- A deadlock victim runs again from the locking read (`SelectDeadlock`), at most
  `MaxRetries` times, without the check made before the transaction.
- A connection is counted only while a selection's transaction holds it
  (`ConnectionFree`). Other statements need one for a moment; leaving them out
  of the count only adds behaviours. The waits for row locks end by MySQL's lock
  timeout, the wait for the pool does not: mysql2 has none.
- The timeout job is enqueued in the background with `attempts: 1`: `Fail` drops
  it, while a stalled worker's job is taken again after `Crash`.

Left out of `Trips`: prices (they are in `Search`), addresses, distances,
ratings, notifications, the development OTP `000000`. `staff` stands for
cooperative and platform roles. `charged` counts commissions deducted for the
trip.

### Ledger and the code

Amounts are integer cents and `Percent` rounds half up. `toFixed(2)` rounds the
binary fraction, which at exactly half a cent can go either way; no property
depends on which. A wallet or account locked by `FOR UPDATE` is read and held in
one step (`LockForCredit`, `DeductCommission`, `CreditCoopCommission`,
`LockForDebit`) and released by the commit. `InsertIgnore` keeps the shared lock
that `INSERT IGNORE` leaves on the account row, the one behind the deadlock
`runTransactionWithDeadlockRetry` is written for: two completions of one
cooperative both hold it and both want it exclusively; InnoDB rolls one back
(`AccountDeadlock`). The account row is taken as inserted from the start, with
zeros. `confirmSettlement` is not retried by the code, nor here. A settlement
sums any contiguous part of the journal. Which trips are in cash and which have
a cooperative is chosen in `LedgerInit`.

### Shifts and the code

None of the handlers opens a transaction: a check and its write are two steps,
and `acceptApplication` is five writes in a row. `seen` says
whether `last_seen_at` is NULL, set, or two hours old, `prompt` what became of
`inactivity_prompt_sent_at`; `TwoHoursPass` and `GracePasses` are time. The
handlers that write `last_seen_at` are `startDay`, `endDay`, `setOnlineStatus`,
`updateLocation`, `confirmActive` and a position over the socket
(`HandleLocationUpdate`); `acceptApplication`, `complete` and trips do not. Of a
trip only its writes to the driver's row are kept (`TripAssigned`, `TripEnds`).
All profiles and taxis are approved.

### The other services and the code

- **Cards** works in cents. Only the payout runs in a transaction; every other
  step is one statement or one call to the gateway. The gateway may charge and
  its answer be lost (`AnswerLost`): axios throws, the call ends, and the
  trip may be paid again. A payment made on a page of the gateway has an outcome
  (`paid`); `ConfirmPayment` takes a payment and a trip, as the request does, and
  the server does not compare them. The app opens the page of one trip and
  confirms what it came back with for that trip
  (`payphone_webview_page.dart:33-35`, `:89-96`): this is `PaysForItsTrip`, an
  assumption on the client that only `CreditsAreCovered` and `PlatformCovered`
  need. A settlement can end before any of its statements (`SettlingCut`: a
  failed statement, a driver without a wallet, a stop), and `cut` remembers
  where. The fees added to a card charge are computed as the code
  does, and `PlatformCovered` compares what was charged, less the gateway's
  share, with what the drivers are owed and the commission.
- **Search** counts prices in steps of 0.25 and the radius in steps of the
  configuration. A handler reads the trip, counts the pending quotes and writes
  the price; the scheduler and the queue's job both widen the radius.
  `ClientFloor` is the floor of raising and cutting, `DriverFloor` that of
  creating and quoting.
- **Rides** counts money in steps of the meter. A ping reads the trip and writes
  later; a slot holds one ping, one cron run or one `completeTrip`, which reads
  the meter (`FinishRead`), looks up the minimum fare and the wallet, and commits
  the fare it read (`FinishCommit`). Time is a few marks: the timer
  has run out, the deviation is old enough.
- **Sessions** has browsers with their cookies, tabs with an access token and an
  interceptor, and wires on which a request travels: the tab sends, the service
  handles, the answer comes back. Tokens may turn out to be expired whenever
  they are looked at. A refresh within one second signs the same token again;
  the model allows both.
- **Accounts** has the one column in which registration, login and recovery keep
  their code, and the counters of Redis. A process may stop between two
  statements.
- **Enrollment** has one cooperative and one owner-driver. Whatever is decided
  about (cooperative, profile, membership, document, taxi) is a subject with an
  approval. Foreign keys that make the database refuse a deletion are `traces`.
- **Presence** has the connections the server knows, the step each handshake is
  at, the two maps, the room, and for each status call in flight the status it
  has written and not yet synchronised with the room; any number may overlap.
  `gaps` records that one of three things happened which the code does not
  follow: `"entry"`, a newer socket's entry was removed by the late
  disconnection of an older one or overwritten by a slower handshake
  (`events.gateway.ts:140-148`); `"row"`, a handler that does not synchronise
  the room set the status (`completeTrip`, `cancelTrip`, `selectOffer`, vehicle
  requests); `"late"`, a call that took the driver offline synchronised when he
  was online again and the call that put him online had already done so
  (`drivers.service.ts:280-281`, `:332-336`, `:402-408`, `:436-442`).
- **Passenger** and **DriverApp** have the page, the trip the page and the
  provider hold, requests read by the service as they are sent and answered
  later, events on their way, the listeners that exist, and the state of the
  socket. People are slower than the socket: nobody taps while an event is on
  its way. In `DriverApp` nobody else cancels a trip while a request of the
  driver about it is in flight. Drops, ends of the process and failed requests
  are counted (`MaxTroubles`, `MaxMishaps`); the safety properties speak of
  behaviours without them, the liveness property and the runs `passenger_code`
  and `driver_finish` do not need that.

### Composition

`TripCustody` and `TripLifecycle` are instantiated in `Trips` with refinement
mappings. `Ledger` contains the money side of `completeTrip` whose dispatch side
is in `Trips`, and `Rides` its fare; `Shifts` sees trips as two writes to a
driver's row; `Presence` sees `Shifts` and `Trips` as status calls, with and
without the room. The modules other than `Trips` share no variable. Where two
have one row between them (the trip: price and meter; the wallet: balance and
card balance; the driver; the user), each has its own columns, and what one
needs of the other's is an assumption stated above or any choice of its first
state; that `save` of an entity read earlier can write back an old value of
another module's column is not modelled. An interleaving of two modules is then
a shuffle of their steps, and a property of one holds of both together exactly
when it holds of the one. `MCServices` therefore puts them together with a
variable `service`, chosen in the first state, that says which one runs: a run
visits the sum of their state spaces and not the product, under the
specification of each.

## 4. The runs

| run | instance | what it shows |
|---|---|---|
| `trips_one` | 1 trip, 2 drivers, 2 offers, 2 slots, 1 fault | types, the four custody invariants and the refinement of `TripCustody` |
| `trips_apart` | 2 trips, 2 drivers, 2 clients, 2 slots whose calls stay apart (1.58 million states) | the rules that two calls may break when they meet, and the refinement of `TripLifecycle` |
| `trips_live` | 1 trip, 1 driver, 2 offers, 2 slots, fair, no faults | `JobResolvesTrip`, `HandlersEnd` |
| `services` | below | the safety of every other module |
| `services_live` | below, fair | their liveness |
| the seven of section 1 | the smallest that show it | one violation each |

In `services`, 1.6 million states:

| service | instance | properties |
|---|---|---|
| ledger | 1 driver, 1 cooperative, 2 trips, 1 recharge, 1 settlement, 2 slots, 1 fault, rates 10 and 20 % | `WalletBooks`, `CoopBooks`, `CommissionOnBothBooks`, `PostedWhenConfirmed` |
| cards | 1 driver, 2 trips, 2 slots whose calls stay apart, 1 charge per trip, 1 payout | `CardBooks`, `PlatformCovered` |
| search | 2 drivers, 2 slots whose calls stay apart | `FaresAboveFloor`, `SearchKeeps` |
| rides | 2 slots whose calls stay apart, 3 pings, 2 deviations | `RideBooks` |
| sessions | 2 browsers of 1 tab, 2 wires, 2 logins, 4 tokens | `RefreshMatchesSession`, `OneDevice` |
| accounts | 2 slots, 2 codes, 1 fault | `CodeSpentOnce` |
| enrollment | 2 taxis, 1 slot | `TaxisHaveMembers` |
| shifts | 1 owner, 1 hired driver, 1 taxi, 1 post, 1 slot | `HiredDriveWhatIsLent` |
| passenger | 3 trips, no troubles | `ScreenFits` |
| driver app | 2 trips, 1 mishap | `DriverSeesRide` |
| presence | 2 connections, 2 status calls | `HearsNewTrips` |

`AllTypeOK` is the conjunction of their type invariants. Some properties are
conjunctions, so that one name says what one component owes: `ChecksHold` (one
trip per driver, one per client, offer limit, one charge), `CardBooks` (balance
and one credit), `SearchKeeps` (prices with quotes, settled prices, radius),
`RideBooks` (meter, fare, alerts), `CronsNotice` (wait and deviation).

The specification of `services` is `AllApartSpec`: steps after which two calls
that `CardApart`, `SearchApart` or `RideApart` names would be in flight together
are left out, as are confirmations against `PaysForItsTrip`; everything else
meets in every order. Enrolment and the drivers' days keep one slot, as two take
TLC longer than all the rest together; for them the overlapping calls are covered
by the proofs only. `VIEW MovingVars` spares TLC the fingerprint of the variables
of the services that do not run, which keep their first value; it tells the same
states apart.

`services_live` (226 thousand states) checks `SearchReachesAll` (search),
`CronsNotice` and `NeverOvercharged` (rides), `QueuedCallsEnd` (sessions),
`LockoutEnds` (accounts), `QuietIsNoticed` (shifts) and `FinishedRideLeft`
(passenger), with two slots that meet as they like (one for shifts), one post
and no status set by hand, two pings, one deviation, one ride, three tokens, one
code and two attempts at recovery before the lockout. Three tokens are a login, a
refresh that succeeds and one that is overtaken, and the queue behind a refresh
needs no more; the lockout is about the counter and its expiry, whose limit
`services` gives as in the code (3).

Why the bounds are enough. The conflicts are between two handlers, one of which
wrote after the other read, so two slots bring up each pair in every order. One
trip with two drivers gives two offers to select from and a stale handler of
each kind; rules across trips need two trips. Longer chains of three handlers,
more trips, browsers or codes are what the proofs are for. One fault hits every
handler at every step in turn. In the ledger two trips of one driver and one
cooperative meet on the same two rows, with a recharge and a settlement for the
others; `Fees = {5}` with rate 10 makes a half cent, so rounding is exercised.
Two logins are a session and its replacement, with tokens left for a refresh of
each. Two connections are one the app has given up and its successor. Two trips
of an app are one that ends while the next begins. One charge for each of two
card trips is what a payment confirmed for the wrong trip or a second credit
needs. Two status calls are one that puts the driver online and one that takes
him off. With one slot a run says that the handlers are right in themselves, and
the proof of the rule which two must not meet. Other bounds: `MaxOffers` (3 in
the code), `MaxRetries` (6), `PoolSize` (20; 3 where it must not matter, as
large as the slots where it must), `MaxFailures` (4, as in the code, in
`driver_finish`; 1 in `services`), and the ids of each set: `PoolExhausted` ends
a handler that finds no id left to insert.

The safety runs use symmetry where ids are only compared: the id sets of `Trips`,
and in `services` the trips of the ledger and the slots of every service that has
two. Liveness runs do without. `ScreenFits` speaks of behaviours without troubles,
so `services` runs the passenger's app without them and with one trip more;
`services_live` has them. `CHECK_DEADLOCK FALSE` stands
where the system comes to rest by the bounds of the model (a connection that has
been lost, a ride that is over, codes used up).

### Fairness

`trips_live`: a handler that started goes on (WF): Node runs every ready
continuation. A statement waiting for a row lock gets it in the end (SF): InnoDB
queues waiters, and other handlers may take the lock in between. The worker
takes a queued job (SF on `TimeoutRead`, as slots are shared with other calls in
the model but not in the code; WF on `TimeoutSkip`). Nothing is assumed of
clients and drivers, nor of faults: with faults the property is simply not true,
the job can be lost.

`services_live`: calls under way go on (WF), time passes (WF on the interval,
the grace period, the day), crons fire again and again (SF, because a slot may
be taken when they are due), the answers to what a page asks for come and the
passenger comes back to the app (WF). The requests that page makes may fail,
except the one made on coming back. Nobody need ever do anything else. The crons
of three services share one SF formula (the wait timer has its own): a
disjunction whose disjuncts need different values of `service`, which never
changes, so that it is infinitely often enabled exactly when its one possible
disjunct is.

## 5. The proofs

All from the assumptions stated in the modules (`NilAssumption`: NULL is no id;
the others: types and order of the bounds, and that the driver's app knows of
one trip at least, as it may start in the middle of a ride), for any sets of
trips, drivers, offers, browsers, slots and so on, finite or not. Each component
has an inductive invariant, `Init => IInv` and one lemma per handler.

Where two calls that meet break a rule, the proof says which two. A formula such
as `Apart` or `CardApart` names the pairs of calls that must not be in flight
together; the specification of the component restricted to steps that keep it
(`ApartSpec`, `CardApartSpec`, ...) implies the rule for any number of slots;
and with a single slot the restriction is void, so that the plain specification
implies it (`SerialIsApart`, `OnePingBooks`, `OneHandlerEnrols`,
`OneHandlerLends`). The conditions were
found by the proofs: each pair is there because a step of the one undoes what
the other has read.

**`TripsProofs`.** `SelectedOfferNamesDriver` is not inductive: it must be known
that a transaction which passed its checks under the lock still sees a requested
trip without a driver when it commits. `IInv` (in `Trips`) therefore adds

- `OneHolder`: at most one selection holds a trip's row;
- `RequestsOK`: what a handler in flight knows: its trip exists; a holder's trip
  is still requested and its offer is of that trip and driver; a completing
  handler's trip has a driver and a spent code;
- `TripsOK`: a requested trip has no driver, code or fee; an active or finished
  one has a driver, a ride has spent its code;
- `OffersOK`: an offer belongs to an inserted trip;
- `DriverHadOffered` and `SettledIsOver`, which the writes by id of handlers
  that read an older status must keep.

`Invariance` is `Spec => []IInv`. From it: `TypeCorrect`, `SelectionIsUnique`,
`OffersPrecedeAssignment`, `RidesAreVerified`, `SettledTripsStay`.
`ImplementsCustody` proves `Spec => KeepsCustody`: each step moves the phase of
a trip as `TripCustody` allows or leaves it. The phase is read off the code on
the row: after the assignment, a trip with its code is held, and one without has
been ridden.

**`TripsApartProofs`.** `Apart`: of two calls in flight, not both write to the
status of one trip, assign one driver, create a trip for one client or insert an
offer of one driver on one trip; `StartsApart` says the same of the start of a
ride, which is one step long. `ApartInv` (in `Trips`) is what the calls then
still know when they write (`CallFresh`: no live trip of the client, no pending
offer and room for one more, the driver free, the trip in the status that was
checked) and that a commission is booked exactly for the completed trips.
`LeavesAlone` is what a step must not touch for a call to stay fresh; each
handler leaves alone every call it may meet. From `ApartInvariance`:
`ChecksSuffice` (`ChecksHold`), `ImplementsLifecycle` (`FollowsLifecycle`, the
refinement of `TripLifecycle`) and, if drivers do not set or leave BUSY
themselves (`LeavesBusy`), `BusyMeansActive`.

**`LedgerProofs`.** `WalletBooks` says that a book is a chain and ends at the
balance. A step appends an entry whose *before* is what the call read, so the
invariant needs `AllSeenOK` (what a lock holder read is still in the row), which
needs `OneHolder` (`FOR UPDATE` excludes), which needs `CallsOK` and `RowsOK`
(who works on which row). `ChainGrows` and `AppendPlaces` are the facts about
sequences. The shared lock left by `INSERT IGNORE` plays no part in safety: the
proof does not use it. Theorems: `Invariance`, `TypeCorrect`,
`WalletBooksClose`, `CoopBooksClose`.

The postings of a recharge, settlement or trip are the
cardinality of a set of places in a book; an append adds one for its own kind
and id and none for others. On top of `IInv`, `PInv` says that a settled row was
posted and a pending one was not (`RechargesPosted`, `SettlementsPosted`), that
every call in flight agrees with the row it will write (`CallsAgree`), that two
calls never insert the same new row (`NewRowsDiffer`), and that both books have
a trip equally often. Theorems: `PostingsInvariance`, `ConfirmedWasPosted`,
`CommissionInBothBooks`. Of a recharge confirmed by two calls at once they say
that it was posted, not that it was posted once: see section 6.

Once is what two calls on one row break, and only they. `RowsApart` says that
no two calls in flight decide on one recharge, one settlement or one trip; two
that post to one wallet or one account may meet as they like, and so may
retries after a deadlock and faults. While it holds, `OnceInv` is inductive: the
row a call decides on still waits for it (`RowWaits`, what the status check
before the transaction saw), so it has no posting yet, and each decided row has
exactly one on the right book and none on any other (`EachPostedOnce`).
`MoneyPostedOnce` and, for the row that has been decided, `NoDecisionOverwritten`:
no confirmation ends as a rejection. These are the rules that section 6 says two
confirmations break; TLC checked `OnceInv` on an instance of the ledger first.

**`FareProofs`.** *Search*: a price in flight was checked against the floor when
its call began and the floor does not move: `CallsAboveFloor` and
`QuotesAboveFloor` with the property are inductive (`FaresStayAboveFloor`, under
every interleaving). `SearchApart`: while a call changes the price the search
goes on and no quote is being made, and two runs do not widen the radius
together; then what they read stands (`ReadsStand`), and `SearchKeepsItsWord`.
*Rides*: `RideApart` keeps a ping that moves the meter from another and from the
end of the ride, from the read of `completeTrip` to its commit, and two runs of
the safety cron from each other. The step such a ping carries is the only
distance the row lacks (`MeterInFlight`), and an alert under way belongs to a
deviation not reported yet (`AlertsOwed`): `RideBooksKept`.
`PassengerNeverOvercharged` needs no such care: whatever a ping or an end of the
ride has read is at most what was driven by then, and what was driven only
grows. *Cards*: `ChargeCoversFare` is arithmetic: what `CardAmount` charges
leaves the fare after the gateway's 5.75 %, and no smaller amount would. With
it, and since no call changes the amount stored for a trip that was charged,
every credit and the commission kept of it are covered by the charges of its
trip whatever calls meet and wherever a settlement is cut, if payments are
confirmed for their own trips (`CreditsAreCovered`, from `PaysForItsTrip`).
`CardApart` keeps apart two settlements of one trip, and a credit from its read
of the wallet on from another one of the same driver, `PayoutApart` from his
payout. `CompletedOnce` and `BooksCarry` (each entry starts where the one before
ended; the call between its two writes accounts for the difference of balance
and book, until a cut parts them) give `CardBooksKept`, which does not need
`PaysForItsTrip`.

`WhatIsOwedCameIn` is about totals: what the drivers were paid and are owed, with
the commission, never exceeds what the gateway settled. It needs one equation
more, `BooksBalance`: payouts and balances together are the shares of the trips
that are credited or whose credit is between its two writes (`Earned`). A write
of a balance adds the share to both sides (the balance it read still stands, by
`BooksCarry`, and the trip was not credited before, by `CompletedOnce`); the entry
that follows changes neither; a payout moves the balance into the payouts. With
`ChargesStored` each share and commission is within the charges of its trip, and
the totals follow term by term. The section on sums proves what that takes for
every finite set: a term may be taken out, a function changed at one argument
changes the sum by the difference, terms that are at most others sum to at most
their sum. Each of these looks at a smallest set that would fail
(`FS_StrictSubsetOrderingWellFounded`). The theorem asks that drivers and card
trips be finitely many, which tables are.

**`AccessProofs`.** *Sessions*: tokens in flight were issued, and each write of
the row takes session and token together or clears both (`RowIsConsistent`).
`OneHome` is the argument for one device: whatever lets a browser act for a
session (the access token of a tab, its cookie, a request or an answer on a
wire) names a session which nothing of another browser names, because only a
login draws a session and everything else is derived from something of the same
browser; `TokensDrawn` says that they all were drawn. Two tabs the guard accepts
have the session of the row, hence one browser (`OneDeviceAtATime`). *Accounts*:
`RowUnspent`: the code in the row has not been accepted. Acceptance is one
conditional UPDATE that clears the column, and a code is drawn once
(`CodesSpentOnce`).

**`DriversProofs`.** *Enrollment*: `EnrolApart` keeps apart two calls that write
or delete the driver's own row or membership, or one of them and the
registration or approval of a taxi of his; taxis may meet taxis. `CallStands`
says what lets each call in and still holds when it writes, among it that a
deletion past the taxis leaves none approved: `TaxisKeepTheirMembers`.
`DriversStayWhole` needs nothing of the sort: whatever meets, a driver without a
wallet is one whose registration is about to save it or whose deletion is about
to remove him (`WholeInv`), unless at that last step a row that `deleteDriver`
leaves alone refers to him (`NothingInTheWay`). *Shifts*:
the invariant behind `HiredKeepWhatIsLent` holds between the writes of a handler
too: a hired driver has a taxi that is lent to him or that `complete`, between
its two writes, is about to take. `DayApart` excludes only that he starts his day
on what `complete` has not ended yet. `TaxiInOneHand` asks that nobody is offline with a
taxi in his row (`OfflineWithoutTaxi`) and that two drivers are not between the
check and the write of startDay for one taxi (`StartsApart`). Then a taxi is in
one row (`InOneRow`): who is about to take it is the only one who may have it
(`TakesAlone`), for `startDay` refused him if somebody at work had it, and
those off work have none. *Presence*: `OneOpen`: the app has one socket.
`EntryOK`: unless an entry was lost, the map names the open socket once its
handshake wrote it. `RoomOK`: who is past its handshake is in the room if the
row says online and no call still has to synchronise it; a handshake that read
the row before the call wrote it is found by the call, because the maps are
written first (`OnlineDriverHears`).

**`AppsProofs`.** The types of the apps are not inductive alone: a page leads to
a request about its trip, an answer or an event leads to a page. `PassengerTyped`
adds that whatever the app knows, shows, asks or will hear of is a trip there is
(`CallRefers`, `ScreenRefers`); `DriverTyped`, that an event that announces a
trip names one. `PassengerTypedAlways`, `DriverAppTypedAlways`.

The two properties of the pages speak of moments when nothing is in flight;
their invariants have to say what everything in flight will make of the page.
`PassengerFits` (without troubles): all trips but the newest are over
(`OnlyNewest`); an event on its way tells the newest trip as it stands, because
nobody acts before it arrives (`InboxTells`); the page is the one of that trip,
or the event is there that will move it (`PageFits`); the room of a ride is
joined or asked for, so the event was sent (`LineOpens`); and each answer leads
to a page that fits (`CallFits`): a trip created waits until the app knows it, a
load reads a ride with its code, `activeTripProvider` is asked only while there
is no trip (`NothingCached`). `PassengerSeesHisTrip`. `DriverInv`: a driver has
at most one ride (`OneOfHis`), and as long as no event of it found no listener,
either the next event in the mailbox is one that the page does not hear
(`Missed`), or `Told`: the page shows the ride as it stands, or an event, an
answer or a request in flight will tell it. `DriverSeesHisRide`.

**`ServicesProofs`.** `EachServiceRuns`: a behaviour of `MCServices` is one of
every service, and one of `AllApartSpec` is one in which the calls of each stay
apart as its theorems ask (`EachStaysApart`). So the types of all hold there
(`AllTyped`), and with any number of slots everything `services` checks
(`ServicesKeep`).

TLC checked the properties and the invariants of `Trips` and `Ledger` on the
instances of section 4 before they were proved, `PassengerFits` and `Steady` on
instances of the apps with three trips without troubles and two trips, and
`OneDriverPerTaxi` under the conditions of `TaxiInOneHand` with two slots.

**Only model-checked.** Liveness: fairness and ENABLED are beyond the prover, so
`JobResolvesTrip`, `HandlersEnd` and the properties of `services_live` stay with
TLC. The violations are TLC's traces.

## 6. Disagreements seen without a run of their own

Found while modelling; those of the backend are behaviours of the models with
two slots unless said otherwise. Most share their cause, a check in one
statement and a write by id in another, with a run of section 1.

Trips and rides:

- `createTrip` (`trips.service.ts:94`): two live trips of one client.
- `makeOffer` (`:513`): more offers than the limit.
- `completeTrip` (`:1214`): two calls both pass the status check and both deduct
  the commission.
- `driverArrived` (`:1099`): overwrites a ride that has started; nothing can
  start or complete it afterwards.
- `cancelTrip` (`:1294`, `:1300`): a completed trip cancelled; a ride cancelled
  by its passenger (`ARQUITECTURA.md:537` reserves that to staff).
- The timeout job leaves the trip's offers PENDING, with one handler at a time
  (`trip-expansion.processor.ts:74`, against `ARQUITECTURA.md:539`).
- Two price calls, or a price call and a quote: the price changes under a
  pending quote (`trips.service.ts:924`).
- The notice of an expired wait is sent again every fifteen seconds, and to
  passengers who confirmed, one handler at a time: the update that should mark
  it uses `undefined`, which TypeORM leaves out (`trips.scheduler.ts:92`,
  `:112-114`).
- Two pings in flight lose one distance (`events.gateway.ts:249`). A ping between
  `completeTrip`'s read of the meter (`:1212`) and its commit (`:1247`), or a
  write that arrives after it, leaves a fare that is not what the meter shows.
- `acceptTrip`'s direct path (`trips.service.ts:391`) is reached by no fare
  mode.

Money:

- Two confirmations of one recharge both credit it (`wallet.service.ts:180`);
  two pending recharges of one driver (`:75`).
- `confirmSettlement`/`cancelSettlement`: debited and cancelled; the same period
  settled twice once the first is confirmed (`accounting.service.ts:175`).
- `gross`, `due` and `net` of an account drift apart by rounding, a change of
  the rate and the clamp at zero (`accounting.service.ts:239`), with one call at
  a time.
- Two confirmations of one card payment both credit the driver
  (`payphone.service.ts:122`); a late refusal overwrites a completed payment
  (`:232`).
- A settlement that fails or stops between the mark and the credit leaves the
  trip COMPLETED and the driver without his share, with one call at a time: a
  retry returns at `payphone.service.ts:122`, and the driver is not told either,
  though the comment at `:224-227` says he has to be.
- `confirmPayment` (`:105-147`) does not compare the payment with the trip or its
  amount: the driver of the trip named is credited for whatever was paid. Only
  the app keeps them together (`payphone_webview_page.dart:33-35`, `:89-96`).
- `payphone.controller.ts:27-55` passes `req.user.sub`, which the JWT strategy
  does not set.

Drivers, taxis, enrolment:

- The cron disconnects a driver who has just answered or got a trip
  (`drivers.service.ts:324`), though the comment at `:291-292` says that never
  happens to a driver on a trip; `acceptApplication` and `setOnlineStatus` take
  BUSY from a driver on a trip.
- Two requests for one membership at once: the later write makes an approved
  membership pending again under a taxi approved in between. A start of the day
  that read its assignment before it was completed takes the taxi after all.
- A driver never seen (`last_seen_at` NULL) whom `acceptApplication` makes
  available (`vehicle-requests.service.ts:195`; `complete` does the same at
  `:294`) is not found by `LessThanOrEqual` (`drivers.service.ts:306`) and stays
  available for ever, which is what the comment at `:288-289` wants to end.
- `registerVehicle` does not check that the cooperative is approved; the check
  for an active trip before a deletion leaves out DRIVER_ARRIVED.

Sessions and accounts:

- A second tab's login loses the cookie of the first
  (`SocketContext.tsx:39-45`); a refresh under way reinstates a session that was
  revoked (`auth.service.ts:562`).
- `verifyPhoneOtp` sets a suspended account active (`:87`); an account never
  verified, with no code left, can neither register again nor recover (`:330`).

Chat and terms (not modelled, read in the code; one call at a time):

- Both apps join `conversation:<id>` with the event `join`
  (`socket_client.dart:58` and `:118`); the gateway knows only `chat.join` and
  the room `conv:<id>` (`events.gateway.ts:37`, `:813`). Nothing reaches an open
  page of the apps before it is opened again, though `ARQUITECTURA.md:745` says
  it is in real time. Were it to join, the writer would see each of his messages
  twice: the page appends the answer and the event.
- `getOrCreateOwnerConversation` takes any conversation of the request
  (`chat.service.ts:89`): after a chat with another applicant, the driver who
  was accepted gets that one and may not write in it. So does a second operator
  of a cooperative.
- `unread_count` counts read messages too: TypeORM leaves `read_at: null` out of
  the condition.
- A process that stops between the two writes of `publish`
  (`terms.service.ts:161`) leaves no terms in force, and seeds the first draft
  as the version in force when it starts again.

Gateway and presence:

- The disconnection of an older socket removes the entry of a newer one, and
  going online does not join the room then, which the comment at
  `events.gateway.ts:663-664` says it does. A disconnection during
  `authenticate` leaves an entry behind, and price updates are then not pushed
  to that user (`:528`).
- Two status calls that overlap may synchronise the room in another order than
  they wrote the row: an online driver is then out of the room, though the
  comment at `:665` says the room follows the status.
- `refreshDriverSocketCache` (`:681`) is called by nobody, though its comment
  says after start-day and end-day; five writes of the status do not synchronise
  the room.

Passenger app:

- `_retryTrip` (`searching_page.dart:283`) drops the payment method; the
  notification of an offer opens the page of a ride that has not been taken;
  going home while the request is being sent leaves the trip behind.
- After a relaunch during a ride the trip stays cached and the panel of a
  finished ride blocks home; the page of a ride takes home's listeners with it.
- A subscription sent before `authenticate` is refused and never repeated, nor
  is one after a reconnection; ten failed reconnections end the socket for good;
  an event's trip id is ignored; two 401 at once sign the passenger out.

Driver app:

- The page of a ride does not hear a cancellation unless opened by "Ver viaje":
  home takes the listeners with it as it goes, and after the splash page there
  is no socket yet. Back home the second selection is not heard. On another tab
  a selection is missed, and the provider that remembers no ride is not read
  again.
- A colleague's `trip.cancelled` reaches every driver of the cooperative
  (`events.gateway.ts:556-562`) and drops the ride of each: the trip's id is not
  compared.
- Home offers to reject a ride the driver already has; doing so forgets it until
  a restart. A wrong boarding code leaves an error page until a restart. A
  completion that fails goes to the rating, and home, in the middle of the ride.
- A list of trips that arrives after `trip.taken` puts the trip back; the
  timeout job sends no `trip.taken`.
- Four failures of the socket in a row, of the network too, sign the driver out,
  though the comment says the token is invalid (`socket_client.dart:76-99`).
- `trip.rerouted` goes to everyone but the driver, who joins the trip's room
  only when he connects.

## 7. Not modelled, and why

The models cover the code in which state changes under rules. Most of the
repository, by lines, is something else: screens, forms and lists of the panel
and the apps, DTOs, queries for lists, report layouts, seeds. Modelling those
line by line would show nothing.

- **Fares**: a formula over distances and tariffs in decimals. Where a price is
  a state it is in `Search` and `Rides`. The configuration is cached for thirty
  days in every process (`fare.service.ts:65`), and a read in flight can put the
  old one back after a change.
- **Platform configuration, subscriptions, billing, plans, payment methods**:
  rows edited by staff, one or two saves without a transaction, read by no other
  component. The platform's rate is a variable of `Ledger`.
- **SOS, chat, ratings, terms**: rows inserted and listed, with no rule across
  rows but the get-or-create races named in section 2 and what section 6 says of
  them.
- **Notifications, reports, audit, storage, assembly**: input and output, reads,
  an append-only log, wiring.
- **Stands**: capacity and order of the queue. Check-in, check-out and the
  check-out of a selected driver are in `Trips`.
- **Gateway**: the rooms of cooperatives, trips and conversations, and the limit
  of thirty pings a second.
- **Sessions and accounts**: staff invitations, which use the same column with a
  longer code.
- **Vehicle requests**: where a post is shown; failures between the five writes
  of `acceptApplication` (each leaves the taxi half lent until the owner repeats
  it).
- **Apps and panel**: everything but what the models of section 3 name; they are
  the choice of which call comes next.

`PROJECT.json` has the reason per component.
