-------------------------------- MODULE Trips --------------------------------
(***************************************************************************)
(* Dispatch of taxi trips: trips.service.ts with the timeout job of        *)
(* trip-expansion.processor.ts.                                            *)
(*                                                                         *)
(* The tables trips, trip_offers, drivers.online_status and                *)
(* stand_driver_assignments are functions over their ids.  A handler runs  *)
(* between awaits, so an HTTP call or a queue job in flight is a slot of   *)
(* req: it remembers what the handler has read and which write it will do  *)
(* next.  A step reads or writes the tables as one autocommitted statement *)
(* or one whole transaction does.                                          *)
(***************************************************************************)
EXTENDS Naturals, FiniteSets

CONSTANTS
  Trips,        \* ids of trip rows
  Offers,       \* ids of trip_offers rows
  Drivers, Clients,
  Reqs,         \* slots for handlers in flight; one slot means no concurrency
  Nil,          \* SQL NULL
  MaxOffers,    \* offers a driver may make on one trip (3 in the code)
  MaxRetries,   \* transaction retries after a deadlock (6 in the code)
  MaxFaults,    \* bound on process crashes and failed statements
  PoolSize,     \* connections to the database (20 in the code)
  SelfService   \* statuses drivers set for themselves in the model

TripStatus == {"none", "requested", "accepted", "driver_arrived",
               "in_progress", "completed", "cancelled"}
OfferStatus == {"none", "pending", "selected", "rejected", "expired"}
OnlineStatus == {"offline", "online", "busy", "looking_for_work"}
CancelledBy == {"client", "driver", "staff", "no_drivers"}
Steps == {"idle", "create", "enqueue", "count", "lookup", "offer", "reject",
          "select", "selectTx", "selectOut", "arrive", "complete", "cancel", "timeout"}

Active == {"accepted", "driver_arrived", "in_progress"}
Live == Active \cup {"requested"}

ASSUME NilAssumption ==
  /\ Nil \notin Trips \cup Offers \cup Drivers \cup Clients
  /\ Nil \notin CancelledBy
ASSUME BoundsAssumption ==
  /\ MaxOffers \in Nat /\ MaxRetries \in Nat /\ MaxFaults \in Nat
  /\ PoolSize \in Nat \ {0}
  /\ SelfService \subseteq OnlineStatus

VARIABLES
  trip,     \* trips table; status "none" is an id not inserted yet
  offer,    \* trip_offers table
  online,   \* drivers.online_status
  queued,   \* drivers with an open stand assignment
  charged,  \* commission deductions booked for the trip (cash trips)
  jobs,     \* trips whose TRIP_TIMEOUT_JOB is in the queue
  req,      \* handlers in flight
  faults    \* crashes and failed statements so far

tables == <<trip, offer, online, queued, charged, jobs>>
vars == <<trip, offer, online, queued, charged, jobs, req, faults>>

-----------------------------------------------------------------------------
(* Rows and requests *)

TripRow == [status : TripStatus, client : Clients \cup {Nil},
            driver : Drivers \cup {Nil}, otp : BOOLEAN,
            cancelledBy : CancelledBy \cup {Nil}]
OfferRow == [trip : Trips \cup {Nil}, driver : Drivers \cup {Nil},
             status : OfferStatus]
Request == [op : Steps, trip : Trips \cup {Nil}, offer : Offers \cup {Nil},
            driver : Drivers \cup {Nil}, by : Clients \cup CancelledBy \cup {Nil},
            attempt : Nat]

NoTrip == [status |-> "none", client |-> Nil, driver |-> Nil, otp |-> FALSE,
           cancelledBy |-> Nil]
NoOffer == [trip |-> Nil, driver |-> Nil, status |-> "none"]
Idle == [op |-> "idle", trip |-> Nil, offer |-> Nil, driver |-> Nil,
         by |-> Nil, attempt |-> 0]

RequestedRow(c) == [NoTrip EXCEPT !.status = "requested", !.client = c]
AcceptedRow(row, d) ==
  [row EXCEPT !.status = "accepted", !.driver = d, !.otp = TRUE]
\* Mutant: the code is not wiped when the ride starts.
StartedRowKeepsCode(row) == [row EXCEPT !.status = "in_progress"]
StartedRow(row) == [row EXCEPT !.status = "in_progress", !.otp = FALSE]
CancelledRow(row, by) ==
  [row EXCEPT !.status = "cancelled", !.cancelledBy = by]

Begin(r, call) == req[r] = Idle /\ req' = [req EXCEPT ![r] = call]
Advance(r, op) == req' = [req EXCEPT ![r].op = op]
End(r) == req' = [req EXCEPT ![r] = Idle]

(* The client has a trip that createTrip counts as current. *)
HasLiveTrip(c) == \E t \in Trips : trip[t].client = c /\ trip[t].status \in Live

\* Mutant: DRIVER_ARRIVED is missing from the query.
DriverBusyUnlessArrived(d) ==
  \E t \in Trips : trip[t].driver = d /\ trip[t].status \in {"accepted", "in_progress"}

(* The driver is on a trip, as makeOffer and selectOffer ask the table. *)
DriverBusy(d) == \E t \in Trips : trip[t].driver = d /\ trip[t].status \in Active

(* Offers of the driver on the trip, in whatever status. *)
OffersOn(t, d) == {o \in Offers : offer[o].trip = t /\ offer[o].driver = d}

\* Mutant: the row is read without FOR UPDATE.
RowNeverLocked(t) == TRUE

(* No selectOffer transaction holds FOR UPDATE on the row; every other
   statement or transaction takes and releases its lock within one step. *)
Holds(r) == req[r].op \in {"selectTx", "selectOut"}
RowFree(t) == \A r \in Reqs : Holds(r) => req[r].trip # t

(* A transaction keeps its connection, other statements return theirs at once;
   the pool queues who finds none free, without a timeout. *)
ConnectionFree == Cardinality({r \in Reqs : Holds(r)}) < PoolSize

Init ==
  /\ trip = [t \in Trips |-> NoTrip]
  /\ offer = [o \in Offers |-> NoOffer]
  /\ online = [d \in Drivers |-> "online"]
  /\ queued = {}
  /\ charged = [t \in Trips |-> 0]
  /\ jobs = {}
  /\ req = [r \in Reqs |-> Idle]
  /\ faults = 0

-----------------------------------------------------------------------------
(* createTrip *)

(* A client's call reads that the client has no current trip. *)
CreateTrip(r, c) ==
  /\ ~HasLiveTrip(c)
  /\ Begin(r, [Idle EXCEPT !.op = "create", !.by = c])
  /\ UNCHANGED <<tables, faults>>

(* After the fare estimate the row is inserted. *)
InsertTrip(r) ==
  /\ req[r].op = "create"
  /\ \E t \in Trips :
       /\ trip[t].status = "none"
       /\ trip' = [trip EXCEPT ![t] = RequestedRow(req[r].by)]
       /\ req' = [req EXCEPT ![r] = [Idle EXCEPT !.op = "enqueue", !.trip = t]]
  /\ UNCHANGED <<offer, online, queued, charged, jobs, faults>>

(* Cooperative staff insert a walk-in trip, with no client and no check. *)
CreateWalkIn(r) ==
  \E t \in Trips :
    /\ trip[t].status = "none"
    /\ Begin(r, [Idle EXCEPT !.op = "enqueue", !.trip = t])
    /\ trip' = [trip EXCEPT ![t] = RequestedRow(Nil)]
    /\ UNCHANGED <<offer, online, queued, charged, jobs, faults>>

(* notifyNewTrip puts the timeout job in the queue, in the background. *)
EnqueueJobs(r) ==
  /\ req[r].op = "enqueue"
  /\ jobs' = jobs \cup {req[r].trip}
  /\ End(r)
  /\ UNCHANGED <<trip, offer, online, queued, charged, faults>>

-----------------------------------------------------------------------------
(* acceptTrip and makeOffer *)

MakeOffer(r, d, t) ==
  /\ ~DriverBusy(d)
  /\ trip[t].status = "requested"
  /\ Begin(r, [Idle EXCEPT !.op = "count", !.trip = t, !.driver = d])
  /\ UNCHANGED <<tables, faults>>

LimitReached(mine) == Cardinality(mine) >= MaxOffers

(* Too many offers end the call. *)
CountOffers(r) ==
  /\ req[r].op = "count"
  /\ IF LimitReached(OffersOn(req[r].trip, req[r].driver))
     THEN End(r)
     ELSE Advance(r, "lookup")
  /\ UNCHANGED <<tables, faults>>

(* Once the vehicle is found: a pending offer gets its amount updated. *)
LookupOffer(r) ==
  /\ req[r].op = "lookup"
  /\ IF \E o \in OffersOn(req[r].trip, req[r].driver) : offer[o].status = "pending"
     THEN End(r)
     ELSE Advance(r, "offer")
  /\ UNCHANGED <<tables, faults>>

(* The foreign key makes the insert wait for a lock on the trip's row. *)
InsertOffer(r) ==
  /\ req[r].op = "offer"
  /\ RowFree(req[r].trip)
  /\ \E o \in Offers :
       /\ offer[o].status = "none"
       /\ offer' = [offer EXCEPT ![o] = [trip |-> req[r].trip,
                                         driver |-> req[r].driver,
                                         status |-> "pending"]]
  /\ End(r)
  /\ UNCHANGED <<trip, online, queued, charged, jobs, faults>>

-----------------------------------------------------------------------------
(* rejectOffer: the status write does not repeat the check of the read. *)

RejectOffer(r, t, o) ==
  /\ trip[t].client # Nil
  /\ offer[o].trip = t /\ offer[o].status = "pending"
  /\ Begin(r, [Idle EXCEPT !.op = "reject", !.offer = o])
  /\ UNCHANGED <<tables, faults>>

RejectWrite(r) ==
  /\ req[r].op = "reject"
  /\ offer' = [offer EXCEPT ![req[r].offer].status = "rejected"]
  /\ End(r)
  /\ UNCHANGED <<trip, online, queued, charged, jobs, faults>>

-----------------------------------------------------------------------------
(* selectOffer *)

SelectOffer(r, t, o) ==
  /\ trip[t].client # Nil
  /\ trip[t].status = "requested"
  /\ Begin(r, [Idle EXCEPT !.op = "select", !.trip = t, !.offer = o])
  /\ UNCHANGED <<tables, faults>>

\* Mutant: the status is not looked at again under the lock.
SelectableUnchecked(t, o) ==
  /\ offer[o].trip = t /\ offer[o].status = "pending"
  /\ ~DriverBusy(offer[o].driver)

(* What the transaction requires: the status from the locking read, the
   offer and the driver's trips from the snapshot taken right after it.
   Nobody writes the locked row in between, so one instant serves for all. *)
Selectable(t, o) ==
  /\ trip[t].status = "requested"
  /\ offer[o].trip = t /\ offer[o].status = "pending"
  /\ ~DriverBusy(offer[o].driver)

SelectBegin(r) ==
  LET o == req[r].offer IN
  /\ req[r].op = "select"
  /\ ConnectionFree /\ RowFree(req[r].trip)
  /\ IF Selectable(req[r].trip, o)
     THEN req' = [req EXCEPT ![r].op = "selectTx", ![r].driver = offer[o].driver]
     ELSE End(r)
  /\ UNCHANGED <<tables, faults>>

\* Mutant: the retry is not counted.
SelectDeadlockUncounted(r) ==
  /\ req[r].op = "selectTx"
  /\ req' = [req EXCEPT ![r].op = "select", ![r].driver = Nil]
  /\ UNCHANGED <<tables, faults>>

(* InnoDB picks the transaction as deadlock victim: nothing is written and
   the whole of it runs again, up to the retry limit. *)
SelectDeadlock(r) ==
  /\ req[r].op = "selectTx"
  /\ IF req[r].attempt < MaxRetries
     THEN req' = [req EXCEPT ![r].op = "select", ![r].driver = Nil,
                             ![r].attempt = @ + 1]
     ELSE End(r)
  /\ UNCHANGED <<tables, faults>>

(* The stand checkout goes to the pool for a connection of its own, besides
   the transaction's: it commits at once. *)
SelectCheckout(r) ==
  /\ req[r].op = "selectTx"
  /\ ConnectionFree
  /\ queued' = queued \ {req[r].driver}
  /\ Advance(r, "selectOut")
  /\ UNCHANGED <<trip, offer, online, charged, jobs, faults>>

\* Mutant: a trip status is written into the offer.
OffersAfterSelectBadStatus(t, sel, d) ==
  [o \in Offers |-> IF o = sel THEN [offer[o] EXCEPT !.status = "accepted"] ELSE offer[o]]

\* Mutant: the other offers are rejected, the chosen one is left as it was.
OffersAfterSelectForgets(t, sel, d) ==
  [o \in Offers |->
     IF o # sel /\ offer[o].status = "pending" /\ offer[o].trip = t
     THEN [offer[o] EXCEPT !.status = "rejected"] ELSE offer[o]]

(* Offers as the commit leaves them: this one selected, the trip's and the
   driver's other pending ones rejected. *)
OffersAfterSelect(t, sel, d) ==
  [o \in Offers |->
     IF o = sel THEN [offer[o] EXCEPT !.status = "selected"]
     ELSE IF /\ offer[o].status = "pending"
             /\ offer[o].trip = t \/ offer[o].driver = d
          THEN [offer[o] EXCEPT !.status = "rejected"]
          ELSE offer[o]]

SelectCommit(r) ==
  LET t == req[r].trip
      d == req[r].driver IN
  /\ req[r].op = "selectOut"
  /\ trip' = [trip EXCEPT ![t] = AcceptedRow(@, d)]
  /\ offer' = OffersAfterSelect(t, req[r].offer, d)
  /\ online' = [online EXCEPT ![d] = "busy"]
  /\ End(r)
  /\ UNCHANGED <<queued, charged, jobs, faults>>

-----------------------------------------------------------------------------
(* driverArrived: reads ACCEPTED, then writes DRIVER_ARRIVED by id. *)

DriverArrived(r, t) ==
  /\ trip[t].status = "accepted"
  /\ Begin(r, [Idle EXCEPT !.op = "arrive", !.trip = t])
  /\ UNCHANGED <<tables, faults>>

ArriveWrite(r) ==
  /\ req[r].op = "arrive"
  /\ RowFree(req[r].trip)
  /\ trip' = [trip EXCEPT ![req[r].trip].status = "driver_arrived"]
  /\ End(r)
  /\ UNCHANGED <<offer, online, queued, charged, jobs, faults>>

-----------------------------------------------------------------------------
(* startTrip: locking read, checks and update in one transaction, so one
   step.  The driver types the passenger's code; a wrong one changes nothing. *)

StartTrip(r, t) ==
  /\ req[r] = Idle
  /\ RowFree(t)
  /\ trip[t].status \in {"accepted", "driver_arrived"}
  /\ trip[t].otp
  /\ trip' = [trip EXCEPT ![t] = StartedRow(@)]
  /\ UNCHANGED <<offer, online, queued, charged, jobs, req, faults>>

-----------------------------------------------------------------------------
(* completeTrip: the status is read before the transaction and not again. *)

\* Mutant: a trip whose passenger has not boarded is completed.
CompleteTripFromArrived(r, t) ==
  /\ trip[t].status \in {"driver_arrived", "in_progress"}
  /\ Begin(r, [Idle EXCEPT !.op = "complete", !.trip = t,
                           !.driver = trip[t].driver])
  /\ UNCHANGED <<tables, faults>>

CompleteTrip(r, t) ==
  /\ trip[t].status = "in_progress"
  /\ Begin(r, [Idle EXCEPT !.op = "complete", !.trip = t,
                           !.driver = trip[t].driver])
  /\ UNCHANGED <<tables, faults>>

CompleteCommit(r) ==
  /\ req[r].op = "complete"
  /\ RowFree(req[r].trip)
  /\ trip' = [trip EXCEPT ![req[r].trip].status = "completed"]
  /\ charged' = [charged EXCEPT ![req[r].trip] = @ + 1]
  /\ online' = [online EXCEPT ![req[r].driver] = "online"]
  /\ End(r)
  /\ UNCHANGED <<offer, queued, jobs, faults>>

-----------------------------------------------------------------------------
(* cancelTrip: who may cancel is decided on the row read first; the driver
   to release is remembered from that read. *)

\* Mutant: a ride under way is not protected.
MayCancelRide(row, by) ==
  /\ row.status \in Live
  /\ by = "client" => row.client # Nil
  /\ by = "driver" => row.driver # Nil

MayCancel(row, by) ==
  /\ row.status \in Live
  /\ by = "client" => row.client # Nil
  /\ by = "driver" => row.driver # Nil
  /\ by \in {"client", "driver"} => row.status # "in_progress"

\* Mutant: the driver is freed only when he had not arrived yet.
CancelTripFreesAccepted(r, t, by) ==
  /\ MayCancel(trip[t], by)
  /\ Begin(r, [Idle EXCEPT !.op = "cancel", !.trip = t, !.by = by,
                 !.driver = IF trip[t].status = "accepted"
                            THEN trip[t].driver ELSE Nil])
  /\ UNCHANGED <<tables, faults>>

CancelTrip(r, t, by) ==
  /\ MayCancel(trip[t], by)
  /\ Begin(r, [Idle EXCEPT !.op = "cancel", !.trip = t, !.by = by,
                 !.driver = IF trip[t].status \in Active
                            THEN trip[t].driver ELSE Nil])
  /\ UNCHANGED <<tables, faults>>

OffersAfterCancel(t) ==
  [o \in Offers |->
     IF offer[o].trip = t /\ offer[o].status = "pending"
     THEN [offer[o] EXCEPT !.status = "expired"] ELSE offer[o]]

CancelCommit(r) ==
  LET t == req[r].trip IN
  /\ req[r].op = "cancel"
  /\ RowFree(t)
  /\ trip' = [trip EXCEPT ![t] = CancelledRow(@, req[r].by)]
  /\ offer' = OffersAfterCancel(t)
  /\ online' = [d \in Drivers |-> IF d = req[r].driver THEN "online" ELSE online[d]]
  /\ End(r)
  /\ UNCHANGED <<queued, charged, jobs, faults>>

-----------------------------------------------------------------------------
(* TRIP_TIMEOUT_JOB: one worker takes the job, reads the trip, and cancels
   it by id if it was still REQUESTED when read. *)

TimeoutTaken(t) == \E r \in Reqs : req[r].op = "timeout" /\ req[r].trip = t

TimeoutRead(r, t) ==
  /\ t \in jobs /\ ~TimeoutTaken(t)
  /\ trip[t].status = "requested"
  /\ Begin(r, [Idle EXCEPT !.op = "timeout", !.trip = t])
  /\ UNCHANGED <<tables, faults>>

TimeoutSkip(t) ==
  /\ t \in jobs /\ ~TimeoutTaken(t)
  /\ trip[t].status # "requested"
  /\ jobs' = jobs \ {t}
  /\ UNCHANGED <<trip, offer, online, queued, charged, req, faults>>

\* Mutant: the job ends without the write.
TimeoutForgets(r) ==
  /\ req[r].op = "timeout"
  /\ jobs' = jobs \ {req[r].trip}
  /\ End(r)
  /\ UNCHANGED <<trip, offer, online, queued, charged, faults>>

TimeoutWrite(r) ==
  LET t == req[r].trip IN
  /\ req[r].op = "timeout"
  /\ RowFree(t)
  /\ trip' = [trip EXCEPT ![t] = CancelledRow(@, "no_drivers")]
  /\ jobs' = jobs \ {t}
  /\ End(r)
  /\ UNCHANGED <<offer, online, queued, charged, faults>>

-----------------------------------------------------------------------------
(* Drivers: their own status changes and the stand queue *)

SetOnlineStatus(d, s) ==
  /\ s \in SelfService /\ s # online[d]
  /\ online' = [online EXCEPT ![d] = s]
  /\ UNCHANGED <<trip, offer, queued, charged, jobs, req, faults>>

CheckIn(d) ==
  /\ d \notin queued
  /\ queued' = queued \cup {d}
  /\ UNCHANGED <<trip, offer, online, charged, jobs, req, faults>>

CheckOut(d) ==
  /\ d \in queued
  /\ queued' = queued \ {d}
  /\ UNCHANGED <<trip, offer, online, charged, jobs, req, faults>>

-----------------------------------------------------------------------------
(* Faults: the next statement of a handler fails, or the process stops.
   InnoDB rolls the open transaction back; what was autocommitted stays.  A
   timeout job is enqueued with attempts: 1, so a failed one is gone, while
   one whose worker died is taken again. *)

Fail(r) ==
  /\ faults < MaxFaults
  /\ req[r] # Idle
  /\ faults' = faults + 1
  /\ jobs' = IF req[r].op = "timeout" THEN jobs \ {req[r].trip} ELSE jobs
  /\ End(r)
  /\ UNCHANGED <<trip, offer, online, queued, charged>>

Crash ==
  /\ faults < MaxFaults
  /\ \E r \in Reqs : req[r] # Idle
  /\ faults' = faults + 1
  /\ req' = [r \in Reqs |-> Idle]
  /\ UNCHANGED tables

(* A bound of the model, not of the code: no id is left for the insert. *)
PoolExhausted(r) ==
  /\ \/ req[r].op = "create" /\ \A t \in Trips : trip[t].status # "none"
     \/ req[r].op = "offer" /\ \A o \in Offers : offer[o].status # "none"
  /\ End(r)
  /\ UNCHANGED <<tables, faults>>

-----------------------------------------------------------------------------
(* Specification *)

ClientStep(r) ==
  \/ \E c \in Clients : CreateTrip(r, c)
  \/ InsertTrip(r)
  \/ EnqueueJobs(r)
  \/ CreateWalkIn(r)
  \/ \E t \in Trips, o \in Offers : RejectOffer(r, t, o) \/ SelectOffer(r, t, o)
  \/ RejectWrite(r)

SelectStep(r) ==
  SelectBegin(r) \/ SelectDeadlock(r) \/ SelectCheckout(r) \/ SelectCommit(r)

DriverStep(r) ==
  \/ \E t \in Trips : \/ \E d \in Drivers : MakeOffer(r, d, t)
                      \/ DriverArrived(r, t) \/ StartTrip(r, t)
                      \/ CompleteTrip(r, t)
  \/ CountOffers(r) \/ LookupOffer(r) \/ InsertOffer(r)
  \/ ArriveWrite(r) \/ CompleteCommit(r)

CancelStep(r) ==
  \/ \E t \in Trips : \/ \E by \in CancelledBy \ {"no_drivers"} : CancelTrip(r, t, by)
                      \/ TimeoutRead(r, t)
  \/ CancelCommit(r) \/ TimeoutWrite(r)

Other ==
  \/ \E t \in Trips : TimeoutSkip(t)
  \/ \E d \in Drivers : \/ \E s \in OnlineStatus : SetOnlineStatus(d, s)
                        \/ CheckIn(d) \/ CheckOut(d)
  \/ \E r \in Reqs : Fail(r) \/ PoolExhausted(r)
  \/ Crash

Next ==
  \/ \E r \in Reqs : ClientStep(r) \/ SelectStep(r) \/ DriverStep(r) \/ CancelStep(r)
  \/ Other

Spec == Init /\ [][Next]_vars

(* A handler that has started goes on: the event loop runs every ready
   continuation. *)
GoOn(r) ==
  \/ InsertTrip(r) \/ EnqueueJobs(r) \/ CountOffers(r) \/ LookupOffer(r)
  \/ RejectWrite(r)
  \/ SelectCheckout(r) \/ SelectCommit(r) \/ PoolExhausted(r)

(* A statement that needs the row's lock gets it in the end: InnoDB queues
   the waiters. *)
LockGranted(r) ==
  \/ InsertOffer(r) \/ SelectBegin(r) \/ ArriveWrite(r)
  \/ CompleteCommit(r) \/ CancelCommit(r) \/ TimeoutWrite(r)

(* The timeout worker takes the jobs of its queue.  It is a process of its
   own and does not compete with HTTP calls for a slot, hence the strong form.
   Clients and drivers owe the system nothing. *)
Fairness ==
  /\ \A r \in Reqs : WF_vars(GoOn(r)) /\ SF_vars(LockGranted(r))
  /\ \A t \in Trips : WF_vars(TimeoutSkip(t))
                      /\ SF_vars(\E r \in Reqs : TimeoutRead(r, t))

FairSpec == Spec /\ Fairness

-----------------------------------------------------------------------------
(* Safety under every interleaving *)

(* Type correctness of the tables and of the requests in flight. *)
TypeOK ==
  /\ trip \in [Trips -> TripRow]
  /\ offer \in [Offers -> OfferRow]
  /\ online \in [Drivers -> OnlineStatus]
  /\ queued \subseteq Drivers
  /\ charged \in [Trips -> Nat]
  /\ jobs \subseteq Trips
  /\ req \in [Reqs -> Request]
  /\ faults \in Nat

(* The lock and the second look at the status in selectOffer let one
   selection per trip through: a SELECTED offer is the only one of its trip
   and was made by the driver the trip row names. *)
SelectedOfferNamesDriver ==
  \A o \in Offers : offer[o].status = "selected" =>
    /\ trip[offer[o].trip].driver = offer[o].driver
    /\ \A p \in Offers :
         offer[p].status = "selected" /\ offer[p].trip = offer[o].trip => p = o

(* Nobody is assigned a trip he did not offer to take: behind the driver of a
   trip there is an offer of his on that very trip. *)
DriverHadOffered ==
  \A t \in Trips : trip[t].driver # Nil =>
    \E o \in OffersOn(t, trip[t].driver) : offer[o].status \in {"selected", "rejected"}

(* No ride without the passenger's code: a trip that is under way, finished
   or charged has a driver and its one code was spent on starting it. *)
RideVerified ==
  \A t \in Trips :
    trip[t].status \in {"in_progress", "completed"} \/ charged[t] > 0 =>
      trip[t].driver # Nil /\ ~trip[t].otp

(* Whatever stale writes do to a charged trip, it is never again up for
   assignment or under way, so no second ride is booked on it. *)
SettledIsOver ==
  \A t \in Trips : charged[t] > 0 =>
    trip[t].status \notin {"none", "requested", "accepted", "in_progress"}

(* How far the passenger has handed over the trip.  After the assignment the
   code on the row tells a trip waiting for its passenger from a ride. *)
Phase(t) ==
  IF trip[t].status = "none" THEN "absent"
  ELSE IF trip[t].status = "requested" THEN "open"
  ELSE IF trip[t].driver = Nil THEN "void"
  ELSE IF trip[t].otp THEN "held" ELSE "ridden"

Custody == INSTANCE TripCustody WITH
  phase <- [t \in Trips |-> Phase(t)],
  holder <- [t \in Trips |-> trip[t].driver],
  fees <- charged

(* The handlers keep the custody contract under every interleaving: one
   driver for ever, one start per trip, fees for rides only, and a trip
   cancelled while it was open is never handed out. *)
KeepsCustody == Custody!CustodySpec

-----------------------------------------------------------------------------
(* What the code means to ensure; it does when the calls in flight stay apart *)

\* makeOffer has counted the driver's offers on the trip and may insert one.
Offering(r) == req[r].op \in {"lookup", "offer"}

\* The handler will write to the status of its trip.
Writes(r) == Holds(r) \/ req[r].op \in {"arrive", "complete", "cancel", "timeout"}

(* No two calls in flight meet: they do not write one trip, assign one driver,
   create trips for one client or insert an offer of one driver on one trip.
   A single slot is the simplest case. *)
Apart ==
  \A r, s \in Reqs : r # s =>
    /\ Writes(r) /\ Writes(s) => req[r].trip # req[s].trip
    /\ Holds(r) /\ Holds(s) => req[r].driver # req[s].driver
    /\ req[r].op = "create" /\ req[s].op = "create" => req[r].by # req[s].by
    /\ Offering(r) /\ Offering(s) =>
         req[r].trip # req[s].trip \/ req[r].driver # req[s].driver

\* startTrip, one step long, meets no call in flight either.
StartsApart ==
  \A r, s \in Reqs, t \in Trips : StartTrip(r, t) /\ Writes(s) => req[s].trip # t

ApartSpec == Init /\ [][Next /\ StartsApart /\ Apart']_vars

(* selectOffer: a driver has one active trip. *)
OneActiveTripPerDriver ==
  \A t, u \in Trips :
    /\ trip[t].status \in Active /\ trip[u].status \in Active
    /\ trip[t].driver = trip[u].driver
    => t = u

(* createTrip: a client has one trip current at a time. *)
OneLiveTripPerClient ==
  \A t, u \in Trips :
    /\ trip[t].status \in Live /\ trip[u].status \in Live
    /\ trip[t].client # Nil /\ trip[t].client = trip[u].client
    => t = u

(* makeOffer: a driver makes at most MaxOffers offers on a trip, one at a
   time. *)
OfferLimit ==
  \A t \in Trips, d \in Drivers :
    /\ Cardinality(OffersOn(t, d)) <= MaxOffers
    /\ Cardinality({o \in OffersOn(t, d) : offer[o].status = "pending"}) <= 1

(* completeTrip: a ride pays commission once. *)
ChargedOnce == \A t \in Trips : charged[t] <= 1

(* What these handlers look up before they act is still so when they have
   acted. *)
ChecksHold == OneActiveTripPerDriver /\ OneLiveTripPerClient /\ OfferLimit /\ ChargedOnce

\* Drivers who set their own status leave BUSY to the trips.
LeavesBusy ==
  \A d \in Drivers, s \in OnlineStatus :
    SetOnlineStatus(d, s) => s # "busy" /\ online[d] # "busy"

(* Assignment makes the driver BUSY; completing or cancelling the trip frees
   him, however the trip ended.  Where drivers do not set it themselves, BUSY
   means having an active trip. *)
BusyIffActive == \A d \in Drivers : online[d] = "busy" <=> DriverBusy(d)

Lifecycle == INSTANCE TripLifecycle WITH
  status <- [t \in Trips |-> trip[t].status],
  assigned <- [t \in Trips |-> trip[t].driver],
  canceller <- [t \in Trips |-> trip[t].cancelledBy]

(* Every change of a trip is an arrow of the documented state diagram, by
   somebody the documentation allows. *)
FollowsLifecycle == Lifecycle!LifecycleSpec

-----------------------------------------------------------------------------
(* What documents and comments say and interleaved handlers break *)

(* trips.controller.ts on PATCH :id/accept: accepting a trip assigns it.  So
   a walk-in trip that a driver accepted is not given up for lack of drivers. *)
AcceptedWalkInIsServed ==
  \A t \in Trips : trip[t].client = Nil /\ trip[t].cancelledBy = "no_drivers" =>
    \A d \in Drivers : OffersOn(t, d) = {}

(* trips.service.ts on selectOffer: all of its work on the database is done
   in one transaction.  Then the pool cannot be held by selections that wait
   for the pool: a connection is free, or some transaction that has one needs
   no other and gives it back. *)
SelectionsLeavePool ==
  ConnectionFree \/ \E r \in Reqs : req[r].op = "selectOut"

-----------------------------------------------------------------------------
(* Why the safety properties hold: an inductive invariant *)

\* A trip that was never handed out, and one that was.
TripOK(t) ==
  /\ trip[t].status \in {"none", "requested"} =>
       trip[t].driver = Nil /\ ~trip[t].otp /\ charged[t] = 0
  /\ trip[t].status \in Active \cup {"completed"} => trip[t].driver \in Drivers
  /\ trip[t].status \in {"in_progress", "completed"} \/ charged[t] > 0 =>
       trip[t].driver \in Drivers /\ ~trip[t].otp

\* Inserted offers belong to a driver and to an inserted trip.
OfferOK(o) ==
  offer[o].status # "none" =>
    /\ offer[o].driver \in Drivers
    /\ offer[o].trip \in Trips
    /\ trip[offer[o].trip].status # "none"

\* What a handler in flight still knows about the rows it read.
RequestOK(r) ==
  LET q == req[r] IN
  /\ q.op = "create" => q.by \in Clients
  /\ q.op = "cancel" => q.by \in CancelledBy
  /\ q.op = "reject" => q.offer \in Offers /\ offer[q.offer].status # "none"
  /\ q.op \notin {"idle", "create", "reject"} =>
       q.trip \in Trips /\ trip[q.trip].status # "none"
  /\ q.op \in {"count", "lookup", "offer"} => q.driver \in Drivers
  /\ q.op = "select" => q.offer \in Offers
  /\ Holds(r) =>
       /\ q.offer \in Offers /\ q.driver \in Drivers
       /\ trip[q.trip].status = "requested"
       /\ offer[q.offer].status # "none"
       /\ offer[q.offer].trip = q.trip /\ offer[q.offer].driver = q.driver
  /\ q.op = "arrive" => trip[q.trip].driver \in Drivers
  /\ q.op = "complete" => trip[q.trip].driver \in Drivers /\ ~trip[q.trip].otp

\* FOR UPDATE excludes.
OneHolder ==
  \A r, s \in Reqs : Holds(r) /\ Holds(s) /\ req[r].trip = req[s].trip => r = s

TripsOK == \A t \in Trips : TripOK(t)
OffersOK == \A o \in Offers : OfferOK(o)
RequestsOK == \A r \in Reqs : RequestOK(r)

(* What the handlers rely on between their statements. *)
IInv ==
  /\ TypeOK /\ TripsOK /\ OffersOK /\ RequestsOK /\ OneHolder
  /\ SelectedOfferNamesDriver /\ DriverHadOffered /\ SettledIsOver

(* Calls that stay apart find the tables as they have read them. *)
CallFresh(r) ==
  LET q == req[r] IN
  /\ q.op = "create" => ~HasLiveTrip(q.by)
  /\ Offering(r) => ~LimitReached(OffersOn(q.trip, q.driver))
  /\ q.op = "offer" =>
       \A o \in OffersOn(q.trip, q.driver) : offer[o].status # "pending"
  /\ Holds(r) => ~DriverBusy(q.driver)
  /\ q.op = "arrive" => trip[q.trip].status = "accepted"
  /\ q.op = "complete" =>
       trip[q.trip].status = "in_progress" /\ q.driver = trip[q.trip].driver
  /\ q.op = "cancel" =>
       /\ MayCancel(trip[q.trip], q.by) /\ q.by # "no_drivers"
       /\ q.driver = IF trip[q.trip].status \in Active THEN trip[q.trip].driver ELSE Nil
  /\ q.op = "timeout" => trip[q.trip].status = "requested"

\* The commission of a trip is booked when it is completed.
FeesMatch == \A t \in Trips : charged[t] = IF trip[t].status = "completed" THEN 1 ELSE 0

OffersFinite == \A t \in Trips, d \in Drivers : IsFiniteSet(OffersOn(t, d))

\* An unused id has no history.
UnusedBlank == \A t \in Trips : trip[t].status = "none" => trip[t] = NoTrip

\* What holds in addition as long as calls stay apart.
ApartInv ==
  /\ \A r \in Reqs : CallFresh(r)
  /\ FeesMatch /\ OffersFinite /\ UnusedBlank
  /\ OneActiveTripPerDriver /\ OneLiveTripPerClient /\ OfferLimit

-----------------------------------------------------------------------------
(* Liveness *)

(* Once its timeout job is in the queue, a request does not stay open: a
   driver is assigned or somebody, at last the job, cancels it. *)
JobResolvesTrip ==
  \A t \in Trips : t \in jobs ~> trip[t].status # "requested"

(* No handler waits for ever on a row lock or retries for ever. *)
HandlersEnd == \A r \in Reqs : req[r] # Idle ~> req[r] = Idle
=============================================================================
