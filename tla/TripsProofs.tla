----------------------------- MODULE TripsProofs -----------------------------
(***************************************************************************)
(* Proofs about Trips, for any number of trips, offers, drivers, clients   *)
(* and handlers in flight: the inductive invariant IInv, the safety        *)
(* properties that follow from it, and the refinement of TripCustody.      *)
(***************************************************************************)
EXTENDS Trips, TLAPS

USE NilAssumption, BoundsAssumption DEF CancelledBy

(* The initial tables are empty and nothing is in flight. *)
LEMMA InitIInv == Init => IInv
<1> SUFFICES ASSUME Init PROVE IInv
  OBVIOUS
<1> USE DEF Init
<1>1. TypeOK
  BY DEF TypeOK, TripRow, OfferRow, Request, NoTrip, NoOffer, Idle, TripStatus,
         OfferStatus, OnlineStatus, Steps
<1>2. TripsOK
  BY DEF TripsOK, TripOK, NoTrip, Active
<1>3. OffersOK
  BY DEF OffersOK, OfferOK, NoOffer
<1>4. RequestsOK /\ OneHolder
  BY DEF RequestsOK, RequestOK, OneHolder, Holds, Idle
<1>5. SelectedOfferNamesDriver /\ DriverHadOffered /\ SettledIsOver
  BY DEF SelectedOfferNamesDriver, DriverHadOffered, SettledIsOver, NoTrip, NoOffer
<1>6. QED
  BY <1>1, <1>2, <1>3, <1>4, <1>5 DEF IInv

(* What no write to the tables does to the rows a handler has read: rows do
   not disappear, a driver stays, a spent code stays spent, an offer keeps
   its trip and driver. *)
RowsKept ==
  /\ \A t \in Trips :
       /\ trip[t].status # "none" => trip'[t].status # "none"
       /\ trip[t].driver \in Drivers => trip'[t].driver \in Drivers
       /\ trip[t].driver \in Drivers /\ ~trip[t].otp => ~trip'[t].otp
  /\ \A o \in Offers : offer[o].status # "none" =>
       /\ offer'[o].status # "none"
       /\ offer'[o].trip = offer[o].trip /\ offer'[o].driver = offer[o].driver

(* A handler that takes no part in a step keeps what it knows, provided the
   row it holds, if any, stays REQUESTED. *)
LEMMA Bystander ==
  ASSUME NEW r \in Reqs, RequestOK(r), RowsKept, req'[r] = req[r],
         Holds(r) => trip'[req[r].trip].status = "requested"
  PROVE  RequestOK(r)'
BY DEF RequestOK, RowsKept, Holds

(* A step that only replaces the request of one slot, by one that knows what
   it must know and holds no row. *)
LEMMA CallStep ==
  ASSUME IInv, NEW r \in Reqs, NEW q \in Request,
         req' = [req EXCEPT ![r] = q], RequestOK(r)',
         q.op \notin {"selectTx", "selectOut"},
         UNCHANGED <<trip, offer, charged, online>>,
         queued' \subseteq Drivers, jobs' \subseteq Trips, faults' \in Nat
  PROVE  IInv'
<1>1. TypeOK'
  BY DEF IInv, TypeOK
<1>2. TripsOK' /\ OffersOK'
  BY DEF IInv, TripsOK, TripOK, OffersOK, OfferOK
<1>3. SelectedOfferNamesDriver' /\ DriverHadOffered' /\ SettledIsOver'
  BY DEF IInv, SelectedOfferNamesDriver, DriverHadOffered, OffersOn, SettledIsOver
<1>4. ASSUME NEW s \in Reqs PROVE s # r => req'[s] = req[s]
  BY DEF IInv, TypeOK
<1>5. ~Holds(r)'
  BY DEF IInv, TypeOK, Holds
<1>6. RequestsOK'
  <2> SUFFICES ASSUME NEW s \in Reqs, s # r PROVE RequestOK(s)'
    BY DEF RequestsOK
  <2>1. RequestOK(s) /\ req'[s] = req[s]
    BY <1>4 DEF IInv, RequestsOK
  <2>2. QED
    BY <2>1 DEF RequestOK, Holds
<1>7. OneHolder'
  BY <1>4, <1>5 DEF IInv, OneHolder, Holds
<1>8. QED
  BY <1>1, <1>2, <1>3, <1>6, <1>7 DEF IInv

(* The same for the requests alone, when the step also writes to tables. *)
LEMMA RequestsStep ==
  ASSUME IInv, NEW r \in Reqs, NEW q \in Request,
         req' = [req EXCEPT ![r] = q], RequestOK(r)',
         q.op \notin {"selectTx", "selectOut"}, RowsKept,
         \A s \in Reqs : Holds(s) /\ s # r => trip'[req[s].trip].status = "requested"
  PROVE  RequestsOK' /\ OneHolder'
<1>1. ASSUME NEW s \in Reqs PROVE s # r => req'[s] = req[s]
  BY DEF IInv, TypeOK
<1>2. ~Holds(r)'
  BY DEF IInv, TypeOK, Holds
<1>3. RequestsOK'
  <2> SUFFICES ASSUME NEW s \in Reqs, s # r PROVE RequestOK(s)'
    BY DEF RequestsOK
  <2>1. RequestOK(s) /\ req'[s] = req[s]
    BY <1>1 DEF IInv, RequestsOK
  <2>2. QED
    BY <2>1, Bystander
<1>4. OneHolder'
  BY <1>1, <1>2 DEF IInv, OneHolder, Holds
<1>5. QED
  BY <1>3, <1>4

(* The idle request asks for nothing. *)
LEMMA IdleOK ==
  ASSUME NEW r \in Reqs, IInv, req' = [req EXCEPT ![r] = Idle]
  PROVE  RequestOK(r)' /\ Idle \in Request /\ Idle.op \notin {"selectTx", "selectOut"}
BY DEF IInv, TypeOK, RequestOK, Idle, Request, Holds, Steps

(* A trip's row is rewritten by a handler that ends; offers may change their
   status only, and none becomes SELECTED.  The driver and his code stay. *)
LEMMA TripWriteStep ==
  ASSUME IInv, NEW r \in Reqs, NEW t \in Trips, NEW row \in TripRow,
         req' = [req EXCEPT ![r] = Idle],
         RowFree(t), trip[t].status # "none",
         trip' = [trip EXCEPT ![t] = row],
         row.driver = trip[t].driver, row.otp = trip[t].otp,
         \/ row.status = "cancelled"
         \/ row.status = "driver_arrived" /\ trip[t].driver \in Drivers
         \/ row.status = "completed" /\ trip[t].driver \in Drivers /\ ~trip[t].otp,
         \/ charged' = charged
         \/ row.status = "completed" /\ charged' = [charged EXCEPT ![t] = @ + 1],
         offer' \in [Offers -> OfferRow],
         \A o \in Offers :
           /\ offer'[o].trip = offer[o].trip /\ offer'[o].driver = offer[o].driver
           /\ \/ offer'[o].status = offer[o].status
              \/ offer[o].status = "pending" /\ offer'[o].status = "expired",
         online' \in [Drivers -> OnlineStatus],
         queued' = queued, jobs' \subseteq jobs, faults' = faults
  PROVE  IInv'
<1> USE DEF TripRow
<1>1. TypeOK'
  <2>1. req' \in [Reqs -> Request]
    BY IdleOK DEF IInv, TypeOK
  <2>2. trip' \in [Trips -> TripRow]
    BY DEF IInv, TypeOK
  <2>3. charged' \in [Trips -> Nat]
    BY DEF IInv, TypeOK
  <2>4. QED
    BY <2>1, <2>2, <2>3 DEF IInv, TypeOK
<1>2. RowsKept
  BY DEF IInv, TypeOK, RowsKept
<1>3. RequestsOK' /\ OneHolder'
  <2>1. \A s \in Reqs : Holds(s) => trip'[req[s].trip].status = "requested"
    BY DEF IInv, TypeOK, RequestsOK, RequestOK, Holds, RowFree
  <2>2. QED
    BY <2>1, <1>2, IdleOK, RequestsStep
<1>4. TripsOK' /\ SettledIsOver'
  BY DEF IInv, TypeOK, TripsOK, TripOK, SettledIsOver, Active
<1>5. OffersOK'
  BY <1>2 DEF IInv, OffersOK, OfferOK, RowsKept, TypeOK, OfferRow
<1>6. SelectedOfferNamesDriver'
  <2>1. \A u \in Trips : trip'[u].driver = trip[u].driver
    BY DEF IInv, TypeOK
  <2>2. \A o \in Offers : offer'[o].status = "selected" =>
          offer[o].status = "selected" /\ offer[o].trip \in Trips
    BY DEF IInv, OffersOK, OfferOK
  <2>3. QED
    BY <2>1, <2>2 DEF IInv, SelectedOfferNamesDriver
<1>7. DriverHadOffered'
  BY DEF IInv, TypeOK, DriverHadOffered, OffersOn
<1>8. QED
  BY <1>1, <1>3, <1>4, <1>5, <1>6, <1>7 DEF IInv

-----------------------------------------------------------------------------
(* The steps that read and remember. *)

LEMMA ReadSteps ==
  ASSUME IInv, NEW r \in Reqs
  PROVE  /\ \A c \in Clients : CreateTrip(r, c) => IInv'
         /\ \A d \in Drivers, t \in Trips : MakeOffer(r, d, t) => IInv'
         /\ \A t \in Trips, o \in Offers : RejectOffer(r, t, o) => IInv'
         /\ \A t \in Trips, o \in Offers : SelectOffer(r, t, o) => IInv'
         /\ \A t \in Trips : DriverArrived(r, t) => IInv'
         /\ \A t \in Trips : CompleteTrip(r, t) => IInv'
         /\ \A t \in Trips, by \in CancelledBy : CancelTrip(r, t, by) => IInv'
         /\ \A t \in Trips : TimeoutRead(r, t) => IInv'
<1> USE DEF tables, Begin
<1>1. ASSUME NEW c \in Clients, CreateTrip(r, c) PROVE IInv'
  <2> DEFINE q == [Idle EXCEPT !.op = "create", !.by = c]
  <2>1. q \in Request /\ q.op \notin {"selectTx", "selectOut"}
    BY DEF IInv, TypeOK, Idle, Request, Steps
  <2>2. req' = [req EXCEPT ![r] = q]
    BY <1>1 DEF CreateTrip
  <2>3. RequestOK(r)'
    BY <1>1, <2>2 DEF IInv, TypeOK, CreateTrip, RequestOK, Holds, Idle
  <2>4. QED
    BY <1>1, <2>1, <2>2, <2>3, CallStep DEF IInv, TypeOK, CreateTrip
<1>2. ASSUME NEW t \in Trips, NEW d \in Drivers, MakeOffer(r, d, t) PROVE IInv'
  <2> DEFINE q == [Idle EXCEPT !.op = "count", !.trip = t, !.driver = d]
  <2>1. q \in Request /\ q.op \notin {"selectTx", "selectOut"}
    BY DEF IInv, TypeOK, Idle, Request, Steps
  <2>2. req' = [req EXCEPT ![r] = q]
    BY <1>2 DEF MakeOffer
  <2>3. RequestOK(r)'
    BY <1>2, <2>2 DEF IInv, TypeOK, MakeOffer, RequestOK, Holds, Idle
  <2>4. QED
    BY <1>2, <2>1, <2>2, <2>3, CallStep DEF IInv, TypeOK, MakeOffer
<1>3. ASSUME NEW t \in Trips, NEW o \in Offers, RejectOffer(r, t, o) PROVE IInv'
  <2> DEFINE q == [Idle EXCEPT !.op = "reject", !.offer = o]
  <2>1. q \in Request /\ q.op \notin {"selectTx", "selectOut"}
    BY DEF IInv, TypeOK, Idle, Request, Steps
  <2>2. req' = [req EXCEPT ![r] = q]
    BY <1>3 DEF RejectOffer
  <2>3. RequestOK(r)'
    BY <1>3, <2>2 DEF IInv, TypeOK, RejectOffer, RequestOK, Holds, Idle
  <2>4. QED
    BY <1>3, <2>1, <2>2, <2>3, CallStep DEF IInv, TypeOK, RejectOffer
<1>4. ASSUME NEW t \in Trips, NEW o \in Offers, SelectOffer(r, t, o) PROVE IInv'
  <2> DEFINE q == [Idle EXCEPT !.op = "select", !.trip = t, !.offer = o]
  <2>1. q \in Request /\ q.op \notin {"selectTx", "selectOut"}
    BY DEF IInv, TypeOK, Idle, Request, Steps
  <2>2. req' = [req EXCEPT ![r] = q]
    BY <1>4 DEF SelectOffer
  <2>3. RequestOK(r)'
    BY <1>4, <2>2 DEF IInv, TypeOK, SelectOffer, RequestOK, Holds, Idle
  <2>4. QED
    BY <1>4, <2>1, <2>2, <2>3, CallStep DEF IInv, TypeOK, SelectOffer
<1>5. ASSUME NEW t \in Trips, DriverArrived(r, t) PROVE IInv'
  <2> DEFINE q == [Idle EXCEPT !.op = "arrive", !.trip = t]
  <2>1. q \in Request /\ q.op \notin {"selectTx", "selectOut"}
    BY DEF IInv, TypeOK, Idle, Request, Steps
  <2>2. req' = [req EXCEPT ![r] = q]
    BY <1>5 DEF DriverArrived
  <2>3. RequestOK(r)'
    BY <1>5, <2>2 DEF IInv, TypeOK, DriverArrived, RequestOK, Holds, Idle, TripsOK, TripOK, Active
  <2>4. QED
    BY <1>5, <2>1, <2>2, <2>3, CallStep DEF IInv, TypeOK, DriverArrived
<1>6. ASSUME NEW t \in Trips, CompleteTrip(r, t) PROVE IInv'
  <2> DEFINE q == [Idle EXCEPT !.op = "complete", !.trip = t,
                               !.driver = trip[t].driver]
  <2>1. q \in Request /\ q.op \notin {"selectTx", "selectOut"}
    BY DEF IInv, TypeOK, Idle, Request, Steps, TripRow
  <2>2. req' = [req EXCEPT ![r] = q]
    BY <1>6 DEF CompleteTrip
  <2>3. RequestOK(r)'
    BY <1>6, <2>2 DEF IInv, TypeOK, CompleteTrip, RequestOK, Holds, Idle, TripsOK, TripOK, Active
  <2>4. QED
    BY <1>6, <2>1, <2>2, <2>3, CallStep DEF IInv, TypeOK, CompleteTrip
<1>7. ASSUME NEW t \in Trips, NEW by \in CancelledBy, CancelTrip(r, t, by) PROVE IInv'
  <2> DEFINE q == [Idle EXCEPT !.op = "cancel", !.trip = t, !.by = by,
                    !.driver = IF trip[t].status \in Active
                               THEN trip[t].driver ELSE Nil]
  <2>1. q \in Request /\ q.op \notin {"selectTx", "selectOut"}
    BY DEF IInv, TypeOK, Idle, Request, Steps, TripRow
  <2>2. req' = [req EXCEPT ![r] = q]
    BY <1>7 DEF CancelTrip
  <2>3. RequestOK(r)'
    BY <1>7, <2>2 DEF IInv, TypeOK, CancelTrip, RequestOK, Holds, Idle, MayCancel, Live, Active
  <2>4. QED
    BY <1>7, <2>1, <2>2, <2>3, CallStep DEF IInv, TypeOK, CancelTrip
<1>8. ASSUME NEW t \in Trips, TimeoutRead(r, t) PROVE IInv'
  <2> DEFINE q == [Idle EXCEPT !.op = "timeout", !.trip = t]
  <2>1. q \in Request /\ q.op \notin {"selectTx", "selectOut"}
    BY DEF IInv, TypeOK, Idle, Request, Steps
  <2>2. req' = [req EXCEPT ![r] = q]
    BY <1>8 DEF TimeoutRead
  <2>3. RequestOK(r)'
    BY <1>8, <2>2 DEF IInv, TypeOK, TimeoutRead, RequestOK, Holds, Idle
  <2>4. QED
    BY <1>8, <2>1, <2>2, <2>3, CallStep DEF IInv, TypeOK, TimeoutRead
<1>9. QED
  BY <1>1, <1>2, <1>3, <1>4, <1>5, <1>6, <1>7, <1>8

(* The steps that end a call, or go on with it, and write at most the stand
   queue, the timeout jobs or a driver's own status. *)
LEMMA EndStep ==
  ASSUME IInv, NEW r \in Reqs, End(r), UNCHANGED <<trip, offer, charged, online>>,
         queued' \subseteq Drivers, jobs' \subseteq Trips, faults' \in Nat
  PROVE  IInv'
BY IdleOK, CallStep DEF End

LEMMA OffTableStep ==
  ASSUME IInv, UNCHANGED <<trip, offer, charged>>,
         req' = req \/ req' = [r \in Reqs |-> Idle],
         online' \in [Drivers -> OnlineStatus],
         queued' \subseteq Drivers, jobs' \subseteq Trips, faults' \in Nat
  PROVE  IInv'
<1>1. TypeOK'
  BY DEF IInv, TypeOK, Idle, Request, Steps
<1>2. TripsOK' /\ OffersOK'
  BY DEF IInv, TripsOK, TripOK, OffersOK, OfferOK
<1>3. SelectedOfferNamesDriver' /\ DriverHadOffered' /\ SettledIsOver'
  BY DEF IInv, SelectedOfferNamesDriver, DriverHadOffered, OffersOn, SettledIsOver
<1>4. RequestsOK' /\ OneHolder'
  <2>1. CASE req' = req
    BY <2>1 DEF IInv, RequestsOK, RequestOK, OneHolder, Holds
  <2>2. CASE req' = [r \in Reqs |-> Idle]
    BY <2>2 DEF RequestsOK, RequestOK, OneHolder, Holds, Idle
  <2>3. QED
    BY <2>1, <2>2
<1>5. QED
  BY <1>1, <1>2, <1>3, <1>4 DEF IInv

LEMMA QuietSteps ==
  ASSUME IInv, NEW r \in Reqs
  PROVE  /\ EnqueueJobs(r) => IInv'
         /\ CountOffers(r) \/ LookupOffer(r) => IInv'
         /\ SelectDeadlock(r) => IInv'
         /\ Fail(r) => IInv'
         /\ PoolExhausted(r) => IInv'
<1>1. ASSUME EnqueueJobs(r) PROVE IInv'
  <2>1. jobs' \subseteq Trips
    BY <1>1 DEF EnqueueJobs, IInv, TypeOK, RequestsOK, RequestOK
  <2>2. QED
    BY <1>1, <2>1, EndStep DEF EnqueueJobs, IInv, TypeOK
<1>2. ASSUME CountOffers(r) \/ LookupOffer(r) PROVE IInv'
  <2>1. CASE End(r)
    BY <1>2, <2>1, EndStep DEF CountOffers, LookupOffer, tables, IInv, TypeOK
  <2>2. ASSUME NEW next \in {"lookup", "offer"}, Advance(r, next) PROVE IInv'
    <3> DEFINE q == [req[r] EXCEPT !.op = next]
    <3>1. q \in Request /\ q.op \notin {"selectTx", "selectOut"}
      BY DEF IInv, TypeOK, Request, Steps
    <3>2. req' = [req EXCEPT ![r] = q]
      BY <2>2 DEF Advance, IInv, TypeOK
    <3>3. RequestOK(r)'
      BY <1>2, <3>2 DEF IInv, TypeOK, Request, CountOffers, LookupOffer, tables, RequestsOK,
                        RequestOK, Holds
    <3>4. QED
      BY <1>2, <3>1, <3>2, <3>3, CallStep DEF CountOffers, LookupOffer, tables, IInv, TypeOK
  <2>3. QED
    BY <1>2, <2>1, <2>2 DEF CountOffers, LookupOffer
<1>3. ASSUME SelectDeadlock(r) PROVE IInv'
  <2>1. CASE End(r)
    BY <1>3, <2>1, EndStep DEF SelectDeadlock, tables, IInv, TypeOK
  <2>2. CASE ~End(r)
    <3> DEFINE q == [req[r] EXCEPT !.op = "select", !.driver = Nil,
                                   !.attempt = req[r].attempt + 1]
    <3>1. q \in Request /\ q.op \notin {"selectTx", "selectOut"}
      <4>1. req[r] \in Request
        BY DEF IInv, TypeOK
      <4>2. req[r].attempt + 1 \in Nat
        BY <4>1 DEF Request
      <4>3. QED
        BY <4>1, <4>2 DEF Request, Steps
    <3>2. req' = [req EXCEPT ![r] = q]
      <4>1. req' = [req EXCEPT ![r].op = "select", ![r].driver = Nil,
                               ![r].attempt = @ + 1]
        BY <1>3, <2>2 DEF SelectDeadlock
      <4>2. req \in [Reqs -> Request]
        BY DEF IInv, TypeOK
      <4>3. QED
        BY <4>1, <4>2 DEF Request
    <3>3. RequestOK(r)'
      BY <1>3, <3>2 DEF IInv, TypeOK, Request, SelectDeadlock, tables, RequestsOK,
                        RequestOK, Holds
    <3>4. QED
      BY <1>3, <3>1, <3>2, <3>3, CallStep DEF SelectDeadlock, tables, IInv, TypeOK
  <2>3. QED
    BY <2>1, <2>2
<1>4. ASSUME Fail(r) PROVE IInv'
  <2>1. jobs' \subseteq Trips /\ faults' \in Nat
    BY <1>4 DEF Fail, IInv, TypeOK
  <2>2. QED
    BY <1>4, <2>1, EndStep DEF Fail, IInv, TypeOK
<1>5. ASSUME PoolExhausted(r) PROVE IInv'
  BY <1>5, EndStep DEF PoolExhausted, tables, IInv, TypeOK
<1>6. QED
  BY <1>1, <1>2, <1>3, <1>4, <1>5

-----------------------------------------------------------------------------
(* The steps that write the trips and offers tables. *)

\* A new row appears on an unused id.
LEMMA InsertRow ==
  ASSUME IInv, NEW r \in Reqs, NEW t \in Trips, NEW c \in Clients \cup {Nil},
         trip[t].status = "none", trip' = [trip EXCEPT ![t] = RequestedRow(c)],
         req' = [req EXCEPT ![r] = [Idle EXCEPT !.op = "enqueue", !.trip = t]],
         UNCHANGED <<offer, online, queued, charged, jobs, faults>>
  PROVE  IInv'
<1> DEFINE q == [Idle EXCEPT !.op = "enqueue", !.trip = t]
<1>1. q \in Request /\ q.op \notin {"selectTx", "selectOut"}
  BY DEF Idle, Request, Steps
<1>2. RequestedRow(c) \in TripRow
  BY DEF RequestedRow, NoTrip, TripRow, TripStatus
<1>3. trip[t].driver = Nil /\ ~trip[t].otp /\ charged[t] = 0
  BY DEF IInv, TripsOK, TripOK
<1>4. \A u \in Trips : trip'[u] = IF u = t THEN RequestedRow(c) ELSE trip[u]
  BY DEF IInv, TypeOK
<1>5. /\ RequestedRow(c).status = "requested" /\ RequestedRow(c).driver = Nil
      /\ RequestedRow(c).otp = FALSE
  BY DEF RequestedRow, NoTrip
<1>6. TypeOK'
  BY <1>1, <1>2 DEF IInv, TypeOK
<1>7. RowsKept
  BY <1>3, <1>4, <1>5 DEF RowsKept
<1>8. RequestOK(r)'
  BY <1>4, <1>5 DEF IInv, TypeOK, RequestOK, Holds, Idle
<1>9. RequestsOK' /\ OneHolder'
  <2>1. \A s \in Reqs : Holds(s) => trip'[req[s].trip].status = "requested"
    BY <1>4, <1>5 DEF IInv, RequestsOK, RequestOK, Holds
  <2>2. QED
    BY <1>1, <1>7, <1>8, <2>1, RequestsStep
<1>10. TripsOK' /\ SettledIsOver'
  BY <1>3, <1>4, <1>5 DEF IInv, TripsOK, TripOK, SettledIsOver, Active
<1>11. OffersOK'
  BY <1>7 DEF IInv, OffersOK, OfferOK, RowsKept
<1>12. SelectedOfferNamesDriver' /\ DriverHadOffered'
  BY <1>3, <1>4, <1>5 DEF IInv, SelectedOfferNamesDriver, DriverHadOffered,
                           OffersOn, OffersOK, OfferOK
<1>13. QED
  BY <1>6, <1>9, <1>10, <1>11, <1>12 DEF IInv

\* Only the offers table is written, by a call that ends: a new pending offer,
\* or a rejection.
LEMMA OfferWriteStep ==
  ASSUME IInv, NEW r \in Reqs, End(r), offer' \in [Offers -> OfferRow],
         UNCHANGED <<trip, online, queued, charged, jobs, faults>>,
         \A o \in Offers :
           \/ offer'[o] = offer[o]
           \/ /\ offer[o].status = "none" /\ offer'[o].status = "pending"
              /\ offer'[o].driver \in Drivers /\ offer'[o].trip \in Trips
              /\ trip[offer'[o].trip].status # "none"
           \/ /\ offer[o].status # "none" /\ offer'[o].status = "rejected"
              /\ offer'[o].driver = offer[o].driver /\ offer'[o].trip = offer[o].trip
  PROVE  IInv'
<1>1. TypeOK'
  BY IdleOK DEF IInv, TypeOK, End
<1>2. RowsKept
  BY DEF RowsKept
<1>3. RequestsOK' /\ OneHolder'
  <2>1. \A s \in Reqs : Holds(s) => trip'[req[s].trip].status = "requested"
    BY DEF IInv, RequestsOK, RequestOK, Holds
  <2>2. QED
    BY <1>2, <2>1, IdleOK, RequestsStep DEF End
<1>4. TripsOK' /\ SettledIsOver'
  BY DEF IInv, TripsOK, TripOK, SettledIsOver
<1>5. OffersOK'
  BY DEF IInv, OffersOK, OfferOK
<1>6. SelectedOfferNamesDriver'
  BY DEF IInv, SelectedOfferNamesDriver
<1>7. DriverHadOffered'
  BY DEF IInv, DriverHadOffered, OffersOn
<1>8. QED
  BY <1>1, <1>3, <1>4, <1>5, <1>6, <1>7 DEF IInv

LEMMA InsertSteps ==
  ASSUME IInv, NEW r \in Reqs
  PROVE  /\ InsertTrip(r) => IInv'
         /\ CreateWalkIn(r) => IInv'
         /\ InsertOffer(r) => IInv'
         /\ RejectWrite(r) => IInv'
<1>1. ASSUME InsertTrip(r) PROVE IInv'
  <2>1. req[r].by \in Clients
    BY <1>1 DEF InsertTrip, IInv, RequestsOK, RequestOK
  <2>2. QED
    BY <1>1, <2>1, InsertRow DEF InsertTrip
<1>2. ASSUME CreateWalkIn(r) PROVE IInv'
  BY <1>2, InsertRow DEF CreateWalkIn, Begin
<1>3. ASSUME InsertOffer(r) PROVE IInv'
  <2>1. PICK o \in Offers :
          /\ offer[o].status = "none"
          /\ offer' = [offer EXCEPT ![o] = [trip |-> req[r].trip,
                         driver |-> req[r].driver, status |-> "pending"]]
    BY <1>3 DEF InsertOffer
  <2>2. /\ req[r].driver \in Drivers /\ req[r].trip \in Trips
        /\ trip[req[r].trip].status # "none"
    BY <1>3 DEF InsertOffer, IInv, RequestsOK, RequestOK
  <2>3. offer' \in [Offers -> OfferRow]
    BY <2>1, <2>2 DEF IInv, TypeOK, OfferRow, OfferStatus
  <2>4. QED
    BY <1>3, <2>1, <2>2, <2>3, OfferWriteStep DEF InsertOffer, IInv, TypeOK
<1>4. ASSUME RejectWrite(r) PROVE IInv'
  <2>1. /\ req[r].offer \in Offers /\ offer[req[r].offer].status # "none"
        /\ offer' = [offer EXCEPT ![req[r].offer].status = "rejected"]
    BY <1>4 DEF RejectWrite, IInv, RequestsOK, RequestOK
  <2>2. offer' \in [Offers -> OfferRow]
    BY <2>1 DEF IInv, TypeOK, OfferRow, OfferStatus
  <2>3. QED
    BY <1>4, <2>1, <2>2, OfferWriteStep DEF RejectWrite, IInv, TypeOK, OfferRow
<1>5. QED
  BY <1>1, <1>2, <1>3, <1>4

-----------------------------------------------------------------------------
(* selectOffer: the lock is taken, the stand queue is left, the driver is
   assigned. *)

LEMMA SelectBeginStep ==
  ASSUME IInv, NEW r \in Reqs, SelectBegin(r)
  PROVE  IInv'
<1> DEFINE o == req[r].offer
           t == req[r].trip
<1>1. CASE ~Selectable(t, o)
  BY <1>1, EndStep DEF SelectBegin, tables, IInv, TypeOK
<1>2. CASE Selectable(t, o)
  <2> DEFINE q == [req[r] EXCEPT !.op = "selectTx", !.driver = offer[o].driver]
  <2>1. o \in Offers /\ t \in Trips
    BY DEF SelectBegin, IInv, RequestsOK, RequestOK
  <2>2. offer[o].driver \in Drivers /\ offer[o].trip = t
        /\ offer[o].status = "pending" /\ trip[t].status = "requested"
    BY <1>2, <2>1 DEF Selectable, IInv, OffersOK, OfferOK
  <2>3. req[r] \in Request
    BY DEF IInv, TypeOK
  <2>4. q \in Request
    BY <2>2, <2>3 DEF Request, Steps
  <2>5. req' = [req EXCEPT ![r] = q]
    <3>1. req' = [req EXCEPT ![r].op = "selectTx", ![r].driver = offer[o].driver]
      BY <1>2 DEF SelectBegin
    <3>2. req \in [Reqs -> Request]
      BY DEF IInv, TypeOK
    <3>3. QED
      BY <3>1, <3>2 DEF Request
  <2>6. \A s \in Reqs : req'[s] = IF s = r THEN q ELSE req[s]
    BY <2>5 DEF IInv, TypeOK
  <2>7. q.op = "selectTx" /\ q.trip = t /\ q.offer = o /\ q.driver = offer[o].driver
    BY <2>3 DEF Request
  <2>8. UNCHANGED <<trip, offer, online, queued, charged, jobs, faults>>
    BY DEF SelectBegin, tables
  <2>9. TypeOK'
    BY <2>4, <2>5, <2>8 DEF IInv, TypeOK
  <2>10. RequestsOK'
    <3> SUFFICES ASSUME NEW s \in Reqs PROVE RequestOK(s)'
      BY DEF RequestsOK
    <3>1. CASE s = r
      BY <3>1, <2>1, <2>2, <2>6, <2>7, <2>8 DEF RequestOK, Holds
    <3>2. CASE s # r
      <4>1. RowsKept
        BY <2>8 DEF RowsKept
      <4>2. RequestOK(s) /\ req'[s] = req[s]
        BY <3>2, <2>6 DEF IInv, RequestsOK
      <4>3. Holds(s) => trip'[req[s].trip].status = "requested"
        BY <4>2, <2>8 DEF RequestOK, Holds
      <4>4. QED
        BY <4>1, <4>2, <4>3, Bystander
    <3>3. QED
      BY <3>1, <3>2
  <2>11. OneHolder'
    <3>1. \A s \in Reqs : Holds(s) => req[s].trip # t
      BY DEF SelectBegin, RowFree
    <3>2. req'[r].trip = t
      BY <2>6, <2>7
    <3>3. \A s \in Reqs : s # r => req'[s].trip = req[s].trip /\ (Holds(s)' <=> Holds(s))
      BY <2>6 DEF Holds
    <3>4. \A s1, s2 \in Reqs : Holds(s1) /\ Holds(s2) /\ req[s1].trip = req[s2].trip => s1 = s2
      BY DEF IInv, OneHolder
    <3>5. QED
      BY <3>1, <3>2, <3>3, <3>4 DEF OneHolder
  <2>12. TripsOK' /\ OffersOK' /\ SettledIsOver'
    BY <2>8 DEF IInv, TripsOK, TripOK, OffersOK, OfferOK, SettledIsOver
  <2>13. SelectedOfferNamesDriver' /\ DriverHadOffered'
    BY <2>8 DEF IInv, SelectedOfferNamesDriver, DriverHadOffered, OffersOn
  <2>14. QED
    BY <2>9, <2>10, <2>11, <2>12, <2>13 DEF IInv
<1>3. QED
  BY <1>1, <1>2

LEMMA SelectCheckoutStep ==
  ASSUME IInv, NEW r \in Reqs, SelectCheckout(r)
  PROVE  IInv'
<1> DEFINE q == [req[r] EXCEPT !.op = "selectOut"]
<1>1. req \in [Reqs -> Request]
  BY DEF IInv, TypeOK
<1>2. q \in Request /\ req' = [req EXCEPT ![r] = q]
  BY <1>1 DEF SelectCheckout, Advance, Request, Steps
<1>3. \A s \in Reqs : /\ s # r => req'[s] = req[s]
                      /\ Holds(s)' <=> Holds(s)
                      /\ req'[s].trip = req[s].trip
  BY <1>1, <1>2 DEF SelectCheckout, Holds, Request
<1>4. UNCHANGED <<trip, offer, online, charged, jobs, faults>> /\ queued' \subseteq queued
  BY DEF SelectCheckout
<1>5. TypeOK'
  BY <1>2, <1>4 DEF IInv, TypeOK
<1>6. RequestsOK'
  <2> SUFFICES ASSUME NEW s \in Reqs PROVE RequestOK(s)'
    BY DEF RequestsOK
  <2>1. RequestOK(s)
    BY DEF IInv, RequestsOK
  <2>2. CASE s = r
    <3>1. /\ q.op = "selectOut" /\ q.trip = req[r].trip
          /\ q.offer = req[r].offer /\ q.driver = req[r].driver /\ req'[r] = q
      BY <1>1, <1>2 DEF Request
    <3>2. req[r].op = "selectTx"
      BY DEF SelectCheckout
    <3>3. QED
      BY <1>4, <2>1, <2>2, <3>1, <3>2 DEF RequestOK, Holds
  <2>3. CASE s # r
    BY <1>3, <1>4, <2>1, <2>3 DEF RequestOK, Holds
  <2>4. QED
    BY <2>2, <2>3
<1>7. OneHolder'
  BY <1>3 DEF IInv, OneHolder
<1>8. TripsOK' /\ OffersOK' /\ SettledIsOver'
  BY <1>4 DEF IInv, TripsOK, TripOK, OffersOK, OfferOK, SettledIsOver
<1>9. SelectedOfferNamesDriver' /\ DriverHadOffered'
  BY <1>4 DEF IInv, SelectedOfferNamesDriver, DriverHadOffered, OffersOn
<1>10. QED
  BY <1>5, <1>6, <1>7, <1>8, <1>9 DEF IInv

LEMMA SelectCommitStep ==
  ASSUME IInv, NEW r \in Reqs, SelectCommit(r)
  PROVE  IInv'
<1> DEFINE t == req[r].trip
           d == req[r].driver
           sel == req[r].offer
<1>1. /\ t \in Trips /\ d \in Drivers /\ sel \in Offers
      /\ trip[t].status = "requested" /\ offer[sel].status # "none"
      /\ offer[sel].trip = t /\ offer[sel].driver = d
  BY DEF SelectCommit, IInv, RequestsOK, RequestOK, Holds
<1>2. trip[t].driver = Nil /\ charged[t] = 0
  BY <1>1 DEF IInv, TripsOK, TripOK
<1>3. trip[t] \in TripRow
  BY <1>1 DEF IInv, TypeOK
<1>4. /\ AcceptedRow(trip[t], d) \in TripRow
      /\ AcceptedRow(trip[t], d).status = "accepted"
      /\ AcceptedRow(trip[t], d).driver = d
  BY <1>1, <1>3 DEF AcceptedRow, TripRow, TripStatus
<1>5. \A u \in Trips : trip'[u] = IF u = t THEN AcceptedRow(trip[t], d) ELSE trip[u]
  BY <1>1 DEF SelectCommit, IInv, TypeOK
<1>6. /\ offer' \in [Offers -> OfferRow]
      /\ offer'[sel].status = "selected"
      /\ \A o \in Offers :
           /\ offer'[o].trip = offer[o].trip /\ offer'[o].driver = offer[o].driver
           /\ o # sel => \/ offer'[o].status = offer[o].status
                         \/ offer[o].status = "pending" /\ offer'[o].status = "rejected"
  BY <1>1 DEF SelectCommit, OffersAfterSelect, IInv, TypeOK, OfferRow, OfferStatus
<1>7. TypeOK'
  <2>1. req' \in [Reqs -> Request]
    BY IdleOK DEF SelectCommit, End, IInv, TypeOK
  <2>2. trip' \in [Trips -> TripRow]
    BY <1>4 DEF SelectCommit, IInv, TypeOK
  <2>3. online' \in [Drivers -> OnlineStatus]
    BY DEF SelectCommit, IInv, TypeOK, OnlineStatus
  <2>4. QED
    BY <1>6, <2>1, <2>2, <2>3 DEF SelectCommit, IInv, TypeOK
<1>8. RowsKept
  BY <1>1, <1>2, <1>4, <1>5, <1>6 DEF RowsKept
<1>9. RequestsOK' /\ OneHolder'
  <2>1. \A s \in Reqs : Holds(s) /\ s # r => trip'[req[s].trip].status = "requested"
    BY <1>1, <1>5 DEF SelectCommit, IInv, RequestsOK, RequestOK, OneHolder, Holds
  <2>2. QED
    BY <1>8, <2>1, IdleOK, RequestsStep DEF SelectCommit, End
<1>10. TripsOK' /\ SettledIsOver'
  BY <1>1, <1>2, <1>4, <1>5 DEF SelectCommit, IInv, TypeOK, TripsOK, TripOK,
                                SettledIsOver, Active
<1>11. OffersOK'
  BY <1>1, <1>6, <1>8 DEF IInv, OffersOK, OfferOK, RowsKept
<1>12. SelectedOfferNamesDriver'
  <2>1. \A o \in Offers : offer[o].status = "selected" =>
          offer[o].trip \in Trips /\ offer[o].trip # t
    BY <1>2 DEF IInv, SelectedOfferNamesDriver, OffersOK, OfferOK
  <2>2. \A o \in Offers : offer'[o].status = "selected" =>
          o = sel \/ offer[o].status = "selected"
    BY <1>6
  <2>3. QED
    BY <1>1, <1>4, <1>5, <1>6, <2>1, <2>2 DEF IInv, SelectedOfferNamesDriver
<1>13. DriverHadOffered'
  <2> SUFFICES ASSUME NEW u \in Trips, trip'[u].driver # Nil
               PROVE \E o \in Offers : /\ offer'[o].trip = u
                                       /\ offer'[o].driver = trip'[u].driver
                                       /\ offer'[o].status \in {"selected", "rejected"}
    BY DEF DriverHadOffered, OffersOn
  <2>1. CASE u = t
    BY <1>1, <1>4, <1>5, <1>6, <2>1
  <2>2. CASE u # t
    <3>1. PICK o \in Offers : /\ offer[o].trip = u /\ offer[o].driver = trip[u].driver
                             /\ offer[o].status \in {"selected", "rejected"}
      BY <1>5, <2>2 DEF IInv, DriverHadOffered, OffersOn
    <3>2. QED
      BY <1>5, <1>6, <2>2, <3>1
  <2>3. QED
    BY <2>1, <2>2
<1>14. QED
  BY <1>7, <1>9, <1>10, <1>11, <1>12, <1>13 DEF IInv

-----------------------------------------------------------------------------
(* The ride, its end and its cancellation *)

LEMMA StartTripStep ==
  ASSUME IInv, NEW r \in Reqs, NEW t \in Trips, StartTrip(r, t)
  PROVE  IInv'
<1>1. trip[t] \in TripRow
  BY DEF IInv, TypeOK
<1>2. /\ StartedRow(trip[t]) \in TripRow
      /\ StartedRow(trip[t]).status = "in_progress" /\ ~StartedRow(trip[t]).otp
      /\ StartedRow(trip[t]).driver = trip[t].driver
  BY <1>1 DEF StartedRow, TripRow, TripStatus
<1>3. \A u \in Trips : trip'[u] = IF u = t THEN StartedRow(trip[t]) ELSE trip[u]
  BY DEF StartTrip, IInv, TypeOK
<1>4. trip[t].driver \in Drivers /\ charged[t] = 0
  BY <1>1 DEF StartTrip, IInv, TypeOK, TripsOK, TripOK, Active
<1>5. UNCHANGED <<offer, online, queued, charged, jobs, req, faults>>
  BY DEF StartTrip
<1>6. TypeOK'
  BY <1>2, <1>5 DEF StartTrip, IInv, TypeOK
<1>7. RowsKept
  BY <1>2, <1>3, <1>4, <1>5 DEF RowsKept
<1>8. RequestsOK'
  <2> SUFFICES ASSUME NEW s \in Reqs PROVE RequestOK(s)'
    BY DEF RequestsOK
  <2>1. RequestOK(s)
    BY DEF IInv, RequestsOK
  <2>2. Holds(s) => trip'[req[s].trip].status = "requested"
    BY <1>3, <2>1 DEF StartTrip, RowFree, RequestOK, Holds
  <2>3. QED
    BY <1>5, <1>7, <2>1, <2>2, Bystander
<1>9. OneHolder'
  BY <1>5 DEF IInv, OneHolder, Holds
<1>10. TripsOK' /\ SettledIsOver'
  BY <1>2, <1>3, <1>4, <1>5 DEF IInv, TripsOK, TripOK, SettledIsOver, Active
<1>11. OffersOK'
  BY <1>5, <1>7 DEF IInv, OffersOK, OfferOK, RowsKept
<1>12. SelectedOfferNamesDriver' /\ DriverHadOffered'
  BY <1>2, <1>3, <1>5 DEF IInv, SelectedOfferNamesDriver, DriverHadOffered, OffersOn,
                          OffersOK, OfferOK
<1>13. QED
  BY <1>6, <1>8, <1>9, <1>10, <1>11, <1>12 DEF IInv

LEMMA TripWriteSteps ==
  ASSUME IInv, NEW r \in Reqs
  PROVE  /\ ArriveWrite(r) => IInv'
         /\ CompleteCommit(r) => IInv'
         /\ CancelCommit(r) => IInv'
         /\ TimeoutWrite(r) => IInv'
<1> DEFINE t == req[r].trip
<1>1. ASSUME ArriveWrite(r) PROVE IInv'
  <2> DEFINE row == [trip[t] EXCEPT !.status = "driver_arrived"]
  <2>1. t \in Trips /\ trip[t].status # "none" /\ trip[t].driver \in Drivers
    BY <1>1 DEF ArriveWrite, IInv, RequestsOK, RequestOK
  <2>2. trip[t] \in TripRow
    BY <2>1 DEF IInv, TypeOK
  <2>3. /\ row \in TripRow /\ row.status = "driver_arrived"
        /\ row.driver = trip[t].driver /\ row.otp = trip[t].otp
    BY <2>2 DEF TripRow, TripStatus
  <2>4. trip' = [trip EXCEPT ![t] = row]
    BY <1>1, <2>1 DEF ArriveWrite
  <2>5. QED
    BY <1>1, <2>1, <2>3, <2>4, TripWriteStep DEF ArriveWrite, End, IInv, TypeOK
<1>2. ASSUME CompleteCommit(r) PROVE IInv'
  <2> DEFINE row == [trip[t] EXCEPT !.status = "completed"]
  <2>1. /\ t \in Trips /\ trip[t].status # "none" /\ trip[t].driver \in Drivers
        /\ ~trip[t].otp
    BY <1>2 DEF CompleteCommit, IInv, RequestsOK, RequestOK
  <2>2. trip[t] \in TripRow
    BY <2>1 DEF IInv, TypeOK
  <2>3. /\ row \in TripRow /\ row.status = "completed"
        /\ row.driver = trip[t].driver /\ row.otp = trip[t].otp
    BY <2>2 DEF TripRow, TripStatus
  <2>4. trip' = [trip EXCEPT ![t] = row]
    BY <1>2, <2>1 DEF CompleteCommit
  <2>5. online' \in [Drivers -> OnlineStatus]
    BY <1>2 DEF CompleteCommit, IInv, TypeOK, OnlineStatus
  <2>6. QED
    BY <1>2, <2>1, <2>3, <2>4, <2>5, TripWriteStep DEF CompleteCommit, End, IInv, TypeOK
<1>3. ASSUME CancelCommit(r) PROVE IInv'
  <2> DEFINE row == CancelledRow(trip[t], req[r].by)
  <2>1. t \in Trips /\ trip[t].status # "none" /\ req[r].by \in CancelledBy
    BY <1>3 DEF CancelCommit, IInv, RequestsOK, RequestOK
  <2>2. trip[t] \in TripRow
    BY <2>1 DEF IInv, TypeOK
  <2>3. /\ row \in TripRow /\ row.status = "cancelled"
        /\ row.driver = trip[t].driver /\ row.otp = trip[t].otp
    BY <2>1, <2>2 DEF CancelledRow, TripRow, TripStatus
  <2>4. trip' = [trip EXCEPT ![t] = row]
    BY <1>3, <2>1 DEF CancelCommit
  <2>5. online' \in [Drivers -> OnlineStatus]
    BY <1>3 DEF CancelCommit, IInv, TypeOK, OnlineStatus
  <2>6. offer' \in [Offers -> OfferRow]
    BY <1>3 DEF CancelCommit, OffersAfterCancel, IInv, TypeOK, OfferRow, OfferStatus
  <2>7. \A o \in Offers :
          /\ offer'[o].trip = offer[o].trip /\ offer'[o].driver = offer[o].driver
          /\ \/ offer'[o].status = offer[o].status
             \/ offer[o].status = "pending" /\ offer'[o].status = "expired"
    BY <1>3 DEF CancelCommit, OffersAfterCancel, IInv, TypeOK, OfferRow
  <2>8. QED
    BY <1>3, <2>1, <2>3, <2>4, <2>5, <2>6, <2>7, TripWriteStep
       DEF CancelCommit, End, IInv, TypeOK
<1>4. ASSUME TimeoutWrite(r) PROVE IInv'
  <2> DEFINE row == CancelledRow(trip[t], "no_drivers")
  <2>1. t \in Trips /\ trip[t].status # "none"
    BY <1>4 DEF TimeoutWrite, IInv, RequestsOK, RequestOK
  <2>2. trip[t] \in TripRow
    BY <2>1 DEF IInv, TypeOK
  <2>3. /\ row \in TripRow /\ row.status = "cancelled"
        /\ row.driver = trip[t].driver /\ row.otp = trip[t].otp
    BY <2>2 DEF CancelledRow, TripRow, TripStatus
  <2>4. trip' = [trip EXCEPT ![t] = row]
    BY <1>4, <2>1 DEF TimeoutWrite
  <2>5. QED
    BY <1>4, <2>1, <2>3, <2>4, TripWriteStep DEF TimeoutWrite, End, IInv, TypeOK
<1>5. QED
  BY <1>1, <1>2, <1>3, <1>4

-----------------------------------------------------------------------------
(* The invariant *)

LEMMA NextIInv == IInv /\ [Next]_vars => IInv'
<1> SUFFICES ASSUME IInv, [Next]_vars PROVE IInv'
  OBVIOUS
<1>1. ASSUME NEW r \in Reqs, ClientStep(r) PROVE IInv'
  BY <1>1, ReadSteps, InsertSteps, QuietSteps DEF ClientStep
<1>2. ASSUME NEW r \in Reqs, SelectStep(r) PROVE IInv'
  BY <1>2, SelectBeginStep, SelectCheckoutStep, SelectCommitStep, QuietSteps
     DEF SelectStep
<1>3. ASSUME NEW r \in Reqs, DriverStep(r) PROVE IInv'
  BY <1>3, ReadSteps, StartTripStep, QuietSteps, InsertSteps, TripWriteSteps
     DEF DriverStep
<1>4. ASSUME NEW r \in Reqs, CancelStep(r) PROVE IInv'
  BY <1>4, ReadSteps, TripWriteSteps DEF CancelStep
<1>5. CASE Other
  <2>1. ASSUME NEW t \in Trips, TimeoutSkip(t) PROVE IInv'
    BY <2>1, OffTableStep DEF TimeoutSkip, IInv, TypeOK
  <2>2. ASSUME NEW d \in Drivers, NEW s \in OnlineStatus, SetOnlineStatus(d, s)
        PROVE  IInv'
    <3>1. online' \in [Drivers -> OnlineStatus]
      BY <2>2 DEF SetOnlineStatus, IInv, TypeOK
    <3>2. QED
      BY <2>2, <3>1, OffTableStep DEF SetOnlineStatus, IInv, TypeOK
  <2>3. ASSUME NEW d \in Drivers, CheckIn(d) \/ CheckOut(d) PROVE IInv'
    BY <2>3, OffTableStep DEF CheckIn, CheckOut, IInv, TypeOK
  <2>4. ASSUME Crash PROVE IInv'
    <3>1. faults' \in Nat
      BY <2>4 DEF Crash, IInv, TypeOK
    <3>2. QED
      BY <2>4, <3>1, OffTableStep DEF Crash, tables, IInv, TypeOK
  <2>5. QED
    BY <1>5, <2>1, <2>2, <2>3, <2>4, QuietSteps DEF Other
<1>6. CASE UNCHANGED vars
  BY <1>6, OffTableStep DEF vars, IInv, TypeOK
<1>7. QED
  BY <1>1, <1>2, <1>3, <1>4, <1>5, <1>6 DEF Next

(* IInv holds in every reachable state of Spec. *)
THEOREM Invariance == Spec => []IInv
BY InitIInv, NextIInv, PTL DEF Spec

(* The tables and the requests keep their types. *)
THEOREM TypeCorrect == Spec => []TypeOK
BY Invariance, PTL DEF IInv

(* One selection per trip, of an offer by the trip's driver: selectOffer's
   lock and second look suffice, whatever the other handlers do. *)
THEOREM SelectionIsUnique == Spec => []SelectedOfferNamesDriver
BY Invariance, PTL DEF IInv

(* Nobody is assigned a trip he made no offer on. *)
THEOREM OffersPrecedeAssignment == Spec => []DriverHadOffered
BY Invariance, PTL DEF IInv

(* No ride without a driver and the passenger's code. *)
THEOREM RidesAreVerified == Spec => []RideVerified
<1>1. IInv => RideVerified
  BY DEF IInv, TripsOK, TripOK, RideVerified
<1>2. QED
  BY <1>1, Invariance, PTL

(* A charged trip is never reopened. *)
THEOREM SettledTripsStay == Spec => []SettledIsOver
BY Invariance, PTL DEF IInv

-----------------------------------------------------------------------------
(* Trips implements TripCustody *)

LEMMA CustodyInitially == Init => Custody!CustodyInit
BY DEF Init, Custody!CustodyInit, Phase, NoTrip

(* Steps that leave the trips and the commissions alone stutter. *)
LEMMA CustodyStutter ==
  ASSUME UNCHANGED <<trip, charged>>
  PROVE  UNCHANGED Custody!custodyVars
BY DEF Custody!custodyVars, Phase

(* A step that writes one row and moves its trip on, or leaves it, in the
   custody phases; the driver and the commissions stay. *)
LEMMA CustodyMove ==
  ASSUME NEW t \in Trips, \A u \in Trips : u # t => trip'[u] = trip[u],
         trip'[t].driver = trip[t].driver, charged' = charged,
         \/ Phase(t)' = Phase(t)
         \/ Phase(t) = "absent" /\ Phase(t)' = "open"
         \/ Phase(t) = "held" /\ Phase(t)' = "ridden"
         \/ Phase(t) = "open" /\ Phase(t)' = "void"
  PROVE  [Custody!CustodyNext]_(Custody!custodyVars)
<1>1. \A u \in Trips : u # t => Phase(u)' = Phase(u)
  BY DEF Phase
<1>2. [u \in Trips |-> trip[u].driver]' = [u \in Trips |-> trip[u].driver]
  OBVIOUS
<1>3. CASE Phase(t)' = Phase(t)
  BY <1>1, <1>2, <1>3 DEF Custody!custodyVars
<1>4. CASE Phase(t)' # Phase(t)
  <2>1. [u \in Trips |-> Phase(u)]' =
          [[u \in Trips |-> Phase(u)] EXCEPT ![t] = Phase(t)']
    BY <1>1
  <2>2. Custody!Open(t) \/ Custody!Ride(t) \/ Custody!Void(t)
    BY <1>2, <1>4, <2>1 DEF Custody!Open, Custody!Ride, Custody!Void, Custody!Move
  <2>3. QED
    BY <2>2 DEF Custody!CustodyNext
<1>5. QED
  BY <1>3, <1>4

LEMMA CustodyInsert ==
  ASSUME IInv, NEW t \in Trips, NEW c \in Clients \cup {Nil},
         trip[t].status = "none", trip' = [trip EXCEPT ![t] = RequestedRow(c)],
         charged' = charged
  PROVE  [Custody!CustodyNext]_(Custody!custodyVars)
<1>1. trip[t].driver = Nil
  BY DEF IInv, TripsOK, TripOK
<1>2. trip'[t] = RequestedRow(c) /\ \A u \in Trips : u # t => trip'[u] = trip[u]
  BY DEF IInv, TypeOK
<1>3. RequestedRow(c).status = "requested" /\ RequestedRow(c).driver = Nil
  BY DEF RequestedRow, NoTrip
<1>4. Phase(t) = "absent" /\ Phase(t)' = "open"
  BY <1>2, <1>3 DEF Phase
<1>5. QED
  BY <1>1, <1>2, <1>3, <1>4, CustodyMove

(* ARRIVED and CANCELLED leave the phase, but for a trip cancelled while it
   was open. *)
LEMMA CustodyOverwrite ==
  ASSUME IInv, NEW t \in Trips, NEW row \in TripRow, trip[t].status # "none",
         trip' = [trip EXCEPT ![t] = row], charged' = charged,
         row.driver = trip[t].driver, row.otp = trip[t].otp,
         \/ row.status = "cancelled"
         \/ row.status = "driver_arrived" /\ trip[t].driver \in Drivers
  PROVE  [Custody!CustodyNext]_(Custody!custodyVars)
<1>1. trip'[t] = row /\ \A u \in Trips : u # t => trip'[u] = trip[u]
  BY DEF IInv, TypeOK
<1>2. trip[t].status = "requested" => trip[t].driver = Nil
  BY DEF IInv, TripsOK, TripOK
<1>3. \/ Phase(t)' = Phase(t)
      \/ Phase(t) = "open" /\ Phase(t)' = "void"
  <2>1. CASE trip[t].status = "requested"
    BY <1>1, <1>2, <2>1 DEF Phase
  <2>2. CASE trip[t].status # "requested"
    BY <1>1, <2>2 DEF Phase
  <2>3. QED
    BY <2>1, <2>2
<1>4. QED
  BY <1>1, <1>3, CustodyMove

LEMMA CustodySelect ==
  ASSUME IInv, NEW r \in Reqs, SelectCommit(r)
  PROVE  Custody!CustodyNext
<1>1. PICK t \in Trips, d \in Drivers :
        t = req[r].trip /\ d = req[r].driver /\ trip[t].status = "requested"
  BY DEF SelectCommit, IInv, RequestsOK, RequestOK, Holds
<1>2. trip[t] \in TripRow
  BY <1>1 DEF IInv, TypeOK
<1>3. /\ trip'[t].status = "accepted" /\ trip'[t].driver = d /\ trip'[t].otp
      /\ \A u \in Trips : u # t => trip'[u] = trip[u]
  BY <1>1, <1>2 DEF SelectCommit, AcceptedRow, TripRow, IInv, TypeOK
<1>4. Phase(t) = "open" /\ Phase(t)' = "held"
  BY <1>1, <1>3 DEF Phase
<1>5. \A u \in Trips : u # t => Phase(u)' = Phase(u)
  BY <1>3 DEF Phase
<1>6. [u \in Trips |-> Phase(u)]' = [[u \in Trips |-> Phase(u)] EXCEPT ![t] = "held"]
  BY <1>4, <1>5
<1>7. [u \in Trips |-> trip[u].driver]' =
        [[u \in Trips |-> trip[u].driver] EXCEPT ![t] = d]
  BY <1>3
<1>8. Custody!Hand(t, d)
  BY <1>1, <1>4, <1>6, <1>7 DEF Custody!Hand, Custody!Move, SelectCommit
<1>9. QED
  BY <1>8 DEF Custody!CustodyNext

LEMMA CustodyStart ==
  ASSUME IInv, NEW r \in Reqs, NEW t \in Trips, StartTrip(r, t)
  PROVE  [Custody!CustodyNext]_(Custody!custodyVars)
<1>1. trip[t] \in TripRow /\ trip[t].driver \in Drivers
  BY DEF StartTrip, IInv, TypeOK, TripsOK, TripOK, Active
<1>2. /\ trip'[t].status = "in_progress" /\ ~trip'[t].otp
      /\ trip'[t].driver = trip[t].driver
      /\ \A u \in Trips : u # t => trip'[u] = trip[u]
  BY <1>1 DEF StartTrip, StartedRow, TripRow, IInv, TypeOK
<1>3. Phase(t) = "held" /\ Phase(t)' = "ridden"
  BY <1>1, <1>2 DEF StartTrip, Phase
<1>4. QED
  BY <1>2, <1>3, CustodyMove DEF StartTrip

LEMMA CustodyComplete ==
  ASSUME IInv, NEW r \in Reqs, CompleteCommit(r)
  PROVE  Custody!CustodyNext
<1> DEFINE t == req[r].trip
<1>1. /\ t \in Trips /\ trip[t].status # "none" /\ trip[t].driver \in Drivers
      /\ ~trip[t].otp
  BY DEF CompleteCommit, IInv, RequestsOK, RequestOK
<1>2. trip[t] \in TripRow /\ trip[t].status # "requested"
  BY <1>1 DEF IInv, TypeOK, TripsOK, TripOK
<1>3. /\ trip'[t].status = "completed" /\ ~trip'[t].otp
      /\ trip'[t].driver = trip[t].driver
      /\ \A u \in Trips : u # t => trip'[u] = trip[u]
  BY <1>1, <1>2 DEF CompleteCommit, TripRow, IInv, TypeOK
<1>4. Phase(t) = "ridden" /\ \A u \in Trips : Phase(u)' = Phase(u)
  BY <1>1, <1>2, <1>3 DEF Phase
<1>5. [u \in Trips |-> Phase(u)]' = [u \in Trips |-> Phase(u)]
  BY <1>4
<1>6. [u \in Trips |-> trip[u].driver]' = [u \in Trips |-> trip[u].driver]
  BY <1>3
<1>7. Custody!Charge(t)
  BY <1>1, <1>4, <1>5, <1>6 DEF Custody!Charge, CompleteCommit
<1>8. QED
  BY <1>1, <1>7 DEF Custody!CustodyNext

LEMMA CustodyOverwrites ==
  ASSUME IInv, NEW r \in Reqs, ArriveWrite(r) \/ CancelCommit(r) \/ TimeoutWrite(r)
  PROVE  [Custody!CustodyNext]_(Custody!custodyVars)
<1>1. PICK t \in Trips : t = req[r].trip /\ trip[t].status # "none"
  BY DEF ArriveWrite, CancelCommit, TimeoutWrite, IInv, RequestsOK, RequestOK
<1>2. trip[t] \in TripRow
  BY DEF IInv, TypeOK
<1>3. CASE ArriveWrite(r)
  <2> DEFINE row == [trip[t] EXCEPT !.status = "driver_arrived"]
  <2>1. trip[t].driver \in Drivers
    BY <1>1, <1>3 DEF ArriveWrite, IInv, RequestsOK, RequestOK
  <2>2. /\ row \in TripRow /\ row.status = "driver_arrived"
        /\ row.driver = trip[t].driver /\ row.otp = trip[t].otp
    BY <1>2 DEF TripRow, TripStatus
  <2>3. trip' = [trip EXCEPT ![t] = row] /\ charged' = charged
    BY <1>1, <1>3 DEF ArriveWrite
  <2>4. QED
    BY <1>1, <2>1, <2>2, <2>3, CustodyOverwrite
<1>4. ASSUME NEW by \in CancelledBy,
             trip' = [trip EXCEPT ![t] = CancelledRow(@, by)], charged' = charged
      PROVE  [Custody!CustodyNext]_(Custody!custodyVars)
  <2> DEFINE row == CancelledRow(trip[t], by)
  <2>1. /\ row \in TripRow /\ row.status = "cancelled"
        /\ row.driver = trip[t].driver /\ row.otp = trip[t].otp
    BY <1>2 DEF CancelledRow, TripRow, TripStatus
  <2>2. QED
    BY <1>1, <1>4, <2>1, CustodyOverwrite
<1>5. CASE CancelCommit(r)
  <2>1. req[r].by \in CancelledBy
    BY <1>5 DEF CancelCommit, IInv, RequestsOK, RequestOK
  <2>2. QED
    BY <1>1, <1>4, <1>5, <2>1 DEF CancelCommit
<1>6. CASE TimeoutWrite(r)
  BY <1>1, <1>4, <1>6 DEF TimeoutWrite
<1>7. QED
  BY <1>3, <1>5, <1>6

LEMMA CustodyStep ==
  ASSUME IInv, [Next]_vars
  PROVE  [Custody!CustodyNext]_(Custody!custodyVars)
<1>1. ASSUME NEW r \in Reqs, InsertTrip(r) \/ CreateWalkIn(r)
      PROVE  [Custody!CustodyNext]_(Custody!custodyVars)
  <2>1. InsertTrip(r) => req[r].by \in Clients
    BY DEF InsertTrip, IInv, RequestsOK, RequestOK
  <2>2. PICK t \in Trips, c \in Clients \cup {Nil} :
          /\ trip[t].status = "none" /\ charged' = charged
          /\ trip' = [trip EXCEPT ![t] = RequestedRow(c)]
    BY <1>1, <2>1 DEF InsertTrip, CreateWalkIn
  <2>3. QED
    BY <2>2, CustodyInsert
<1>2. ASSUME NEW r \in Reqs,
             \/ \E c \in Clients : CreateTrip(r, c)
             \/ \E t \in Trips, o \in Offers : RejectOffer(r, t, o) \/ SelectOffer(r, t, o)
             \/ EnqueueJobs(r) \/ RejectWrite(r) \/ CountOffers(r) \/ LookupOffer(r) \/ InsertOffer(r)
             \/ SelectBegin(r) \/ SelectDeadlock(r) \/ SelectCheckout(r)
             \/ \E t \in Trips : \/ \E d \in Drivers : MakeOffer(r, d, t)
                                 \/ \E by \in CancelledBy : CancelTrip(r, t, by)
                                 \/ DriverArrived(r, t) \/ CompleteTrip(r, t)
                                 \/ TimeoutRead(r, t)
      PROVE  UNCHANGED <<trip, charged>>
  BY <1>2 DEF tables, CreateTrip, RejectOffer, SelectOffer, EnqueueJobs, RejectWrite,
              CountOffers, LookupOffer, InsertOffer, SelectBegin, SelectDeadlock, SelectCheckout,
              MakeOffer, CancelTrip, DriverArrived, CompleteTrip, TimeoutRead
<1>3. ASSUME Other \/ UNCHANGED vars PROVE UNCHANGED <<trip, charged>>
  BY <1>3 DEF Other, vars, tables, TimeoutSkip, SetOnlineStatus, CheckIn, CheckOut,
              Fail, PoolExhausted, Crash
<1>4. CASE Other \/ UNCHANGED vars
  BY <1>3, <1>4, CustodyStutter
<1>5. ASSUME NEW r \in Reqs, ClientStep(r)
      PROVE  [Custody!CustodyNext]_(Custody!custodyVars)
  BY <1>1, <1>2, <1>5, CustodyStutter DEF ClientStep
<1>6. ASSUME NEW r \in Reqs, SelectStep(r)
      PROVE  [Custody!CustodyNext]_(Custody!custodyVars)
  BY <1>2, <1>6, CustodySelect, CustodyStutter DEF SelectStep
<1>7. ASSUME NEW r \in Reqs, DriverStep(r)
      PROVE  [Custody!CustodyNext]_(Custody!custodyVars)
  BY <1>2, <1>7, CustodyStart, CustodyComplete, CustodyOverwrites, CustodyStutter
     DEF DriverStep
<1>8. ASSUME NEW r \in Reqs, CancelStep(r)
      PROVE  [Custody!CustodyNext]_(Custody!custodyVars)
  BY <1>2, <1>8, CustodyOverwrites, CustodyStutter DEF CancelStep
<1>9. QED
  BY <1>4, <1>5, <1>6, <1>7, <1>8 DEF Next

(* Every behaviour of the handlers is one the custody contract allows. *)
THEOREM ImplementsCustody == Spec => KeepsCustody
BY CustodyInitially, CustodyStep, Invariance, PTL
   DEF Spec, KeepsCustody, Custody!CustodySpec

=============================================================================
