--------------------------- MODULE TripsApartProofs ---------------------------
(***************************************************************************)
(* Proofs about Trips when the calls in flight stay apart (ApartSpec): the *)
(* rules which the handlers look up before they act then hold, busy means  *)
(* on a trip, and every change of a trip is an arrow of TripLifecycle.     *)
(* They hold for any number of calls in flight that do not meet, and so    *)
(* for one at a time.                                                      *)
(***************************************************************************)
EXTENDS TripsProofs, FiniteSetTheorems

USE NilAssumption, BoundsAssumption DEF CancelledBy

-----------------------------------------------------------------------------
(* What a call has read is still so *)

\* What a step must leave alone for the call in slot s to stay fresh.
LeavesAlone(s) ==
  LET q == req[s] IN
  /\ req'[s] = q
  /\ q.op = "create" /\ HasLiveTrip(q.by)' => HasLiveTrip(q.by)
  /\ Offering(s) =>
       \A o \in Offers : offer'[o].trip = q.trip /\ offer'[o].driver = q.driver =>
         /\ offer[o].trip = q.trip /\ offer[o].driver = q.driver
         /\ offer'[o].status = "pending" => offer[o].status = "pending"
  /\ Holds(s) /\ DriverBusy(q.driver)' => DriverBusy(q.driver)
  /\ q.op \in {"arrive", "complete", "cancel", "timeout"} => trip'[q.trip] = trip[q.trip]

LEMMA FewerOffers ==
  ASSUME OffersFinite, NEW t \in Trips, NEW d \in Drivers,
         OffersOn(t, d)' \subseteq OffersOn(t, d)
  PROVE  /\ IsFiniteSet(OffersOn(t, d)')
         /\ ~LimitReached(OffersOn(t, d)) => ~LimitReached(OffersOn(t, d)')
<1>1. IsFiniteSet(OffersOn(t, d))
  BY DEF OffersFinite
<1>2. /\ IsFiniteSet(OffersOn(t, d)')
      /\ Cardinality(OffersOn(t, d)') <= Cardinality(OffersOn(t, d))
  BY <1>1, FS_Subset
<1>3. Cardinality(OffersOn(t, d)) \in Nat /\ Cardinality(OffersOn(t, d)') \in Nat
  BY <1>1, <1>2, FS_CardinalityType
<1>4. QED
  BY <1>2, <1>3 DEF LimitReached

LEMMA StaysFresh ==
  ASSUME IInv, OffersFinite, NEW s \in Reqs, CallFresh(s), LeavesAlone(s)
  PROVE  CallFresh(s)'
<1> DEFINE q == req[s]
<1>1. req'[s] = q /\ (Holds(s)' <=> Holds(s)) /\ (Offering(s)' <=> Offering(s))
  BY DEF LeavesAlone, Holds, Offering
<1>2. q.op = "create" => ~HasLiveTrip(q.by)'
  BY DEF LeavesAlone, CallFresh
<1>3. ASSUME NEW t \in Trips, NEW d \in Drivers, Offering(s), q.trip = t, q.driver = d
      PROVE  /\ ~LimitReached(OffersOn(t, d)')
             /\ q.op = "offer" => \A o \in OffersOn(t, d)' : offer'[o].status # "pending"
  <2>1. OffersOn(t, d)' \subseteq OffersOn(t, d)
    BY <1>3 DEF LeavesAlone, OffersOn
  <2>2. ~LimitReached(OffersOn(t, d))
    BY <1>3 DEF CallFresh
  <2>3. ~LimitReached(OffersOn(t, d)')
    BY <2>1, <2>2, FewerOffers
  <2>4. q.op = "offer" => \A o \in OffersOn(t, d)' : offer'[o].status # "pending"
    BY <1>3 DEF LeavesAlone, OffersOn, CallFresh
  <2>5. QED
    BY <2>3, <2>4
<1>4. Holds(s) => ~DriverBusy(q.driver)'
  BY DEF LeavesAlone, CallFresh
<1>5. q.op \in {"arrive", "complete", "cancel", "timeout"} => trip'[q.trip] = trip[q.trip]
  BY DEF LeavesAlone
<1>6. Offering(s) => q.trip \in Trips /\ q.driver \in Drivers
  BY DEF IInv, RequestsOK, RequestOK, Offering
<1>8. q.op = "offer" => Offering(s)
  BY DEF Offering
<1>7. QED
  BY <1>1, <1>2, <1>3, <1>4, <1>5, <1>6, <1>8 DEF CallFresh, MayCancel

-----------------------------------------------------------------------------
(* Steps that write no trip *)

LEMMA UnlistedFresh ==
  ASSUME NEW r \in Reqs,
         req'[r].op \notin {"create", "lookup", "offer", "selectTx", "selectOut", "arrive",
                           "complete", "cancel", "timeout"}
  PROVE  CallFresh(r)'
BY DEF CallFresh, Offering, Holds

(* The tables stay; one call is replaced by one that is fresh. *)
LEMMA ApartCallStep ==
  ASSUME IInv, ApartInv, NEW r \in Reqs, NEW q, req' = [req EXCEPT ![r] = q],
         UNCHANGED <<trip, offer, charged>>, CallFresh(r)'
  PROVE  ApartInv'
<1>1. ASSUME NEW s \in Reqs PROVE CallFresh(s)'
  <2>1. CASE s # r
    <3>1. LeavesAlone(s)
      BY <2>1 DEF LeavesAlone, HasLiveTrip, DriverBusy, IInv, TypeOK
    <3>2. QED
      BY <3>1, StaysFresh DEF ApartInv
  <2>2. QED
    BY <2>1
<1>2. /\ FeesMatch' /\ OffersFinite' /\ UnusedBlank'
      /\ OneActiveTripPerDriver' /\ OneLiveTripPerClient' /\ OfferLimit'
  BY DEF ApartInv, FeesMatch, OffersFinite, UnusedBlank, OneActiveTripPerDriver,
         OneLiveTripPerClient, OfferLimit, OffersOn
<1>3. QED
  BY <1>1, <1>2 DEF ApartInv

LEMMA ApartEndStep ==
  ASSUME IInv, ApartInv, NEW r \in Reqs, End(r), UNCHANGED <<trip, offer, charged>>
  PROVE  ApartInv'
<1>1. req'[r].op = "idle"
  BY DEF End, IInv, TypeOK, Idle
<1>2. CallFresh(r)'
  BY <1>1, UnlistedFresh
<1>3. QED
  BY <1>2, ApartCallStep DEF End

LEMMA ApartOffTableStep ==
  ASSUME IInv, ApartInv, UNCHANGED <<trip, offer, charged>>,
         req' = req \/ req' = [r \in Reqs |-> Idle]
  PROVE  ApartInv'
<1>1. ASSUME NEW s \in Reqs PROVE CallFresh(s)'
  <2>1. CASE req' = req
    <3>1. LeavesAlone(s)
      BY <2>1 DEF LeavesAlone, HasLiveTrip, DriverBusy
    <3>2. QED
      BY <3>1, StaysFresh DEF ApartInv
  <2>2. CASE req' = [r \in Reqs |-> Idle]
    BY <2>2, UnlistedFresh DEF Idle
  <2>3. QED
    BY <2>1, <2>2
<1>2. /\ FeesMatch' /\ OffersFinite' /\ UnusedBlank'
      /\ OneActiveTripPerDriver' /\ OneLiveTripPerClient' /\ OfferLimit'
  BY DEF ApartInv, FeesMatch, OffersFinite, UnusedBlank, OneActiveTripPerDriver,
         OneLiveTripPerClient, OfferLimit, OffersOn
<1>3. QED
  BY <1>1, <1>2 DEF ApartInv

(* The calls as they begin or go on: what they remember they have just read. *)
LEMMA ApartReadSteps ==
  ASSUME IInv, ApartInv, NEW r \in Reqs
  PROVE  /\ \A c \in Clients : CreateTrip(r, c) => ApartInv'
         /\ \A d \in Drivers, t \in Trips : MakeOffer(r, d, t) => ApartInv'
         /\ \A t \in Trips, o \in Offers : RejectOffer(r, t, o) => ApartInv'
         /\ \A t \in Trips, o \in Offers : SelectOffer(r, t, o) => ApartInv'
         /\ \A t \in Trips : DriverArrived(r, t) => ApartInv'
         /\ \A t \in Trips : CompleteTrip(r, t) => ApartInv'
         /\ \A t \in Trips, by \in CancelledBy \ {"no_drivers"} : CancelTrip(r, t, by) => ApartInv'
         /\ \A t \in Trips : TimeoutRead(r, t) => ApartInv'
<1> USE DEF tables, Begin
<1>1. req \in [Reqs -> Request] /\ \A t \in Trips : trip[t] \in TripRow
  BY DEF IInv, TypeOK
<1>2. ASSUME NEW c \in Clients, CreateTrip(r, c) PROVE ApartInv'
  <2>1. CallFresh(r)'
    BY <1>1, <1>2 DEF CreateTrip, CallFresh, Offering, Holds, Idle, HasLiveTrip
  <2>2. QED
    BY <1>2, <2>1, ApartCallStep DEF CreateTrip
<1>3. ASSUME NEW t \in Trips, NEW d \in Drivers, MakeOffer(r, d, t) PROVE ApartInv'
  <2>1. CallFresh(r)'
    BY <1>1, <1>3, UnlistedFresh DEF MakeOffer, Idle
  <2>2. QED
    BY <1>3, <2>1, ApartCallStep DEF MakeOffer
<1>4. ASSUME NEW t \in Trips, NEW o \in Offers, RejectOffer(r, t, o) PROVE ApartInv'
  <2>1. CallFresh(r)'
    BY <1>1, <1>4, UnlistedFresh DEF RejectOffer, Idle
  <2>2. QED
    BY <1>4, <2>1, ApartCallStep DEF RejectOffer
<1>5. ASSUME NEW t \in Trips, NEW o \in Offers, SelectOffer(r, t, o) PROVE ApartInv'
  <2>1. CallFresh(r)'
    BY <1>1, <1>5, UnlistedFresh DEF SelectOffer, Idle
  <2>2. QED
    BY <1>5, <2>1, ApartCallStep DEF SelectOffer
<1>6. ASSUME NEW t \in Trips, DriverArrived(r, t) PROVE ApartInv'
  <2>1. CallFresh(r)'
    BY <1>1, <1>6 DEF DriverArrived, CallFresh, Offering, Holds, Idle
  <2>2. QED
    BY <1>6, <2>1, ApartCallStep DEF DriverArrived
<1>7. ASSUME NEW t \in Trips, CompleteTrip(r, t) PROVE ApartInv'
  <2>1. CallFresh(r)'
    BY <1>1, <1>7 DEF CompleteTrip, CallFresh, Offering, Holds, Idle
  <2>2. QED
    BY <1>7, <2>1, ApartCallStep DEF CompleteTrip
<1>8. ASSUME NEW t \in Trips, NEW by \in CancelledBy \ {"no_drivers"}, CancelTrip(r, t, by)
      PROVE  ApartInv'
  <2>1. CallFresh(r)'
    BY <1>1, <1>8 DEF CancelTrip, CallFresh, Offering, Holds, Idle, MayCancel
  <2>2. QED
    BY <1>8, <2>1, ApartCallStep DEF CancelTrip
<1>9. ASSUME NEW t \in Trips, TimeoutRead(r, t) PROVE ApartInv'
  <2>1. CallFresh(r)'
    BY <1>1, <1>9 DEF TimeoutRead, CallFresh, Offering, Holds, Idle
  <2>2. QED
    BY <1>9, <2>1, ApartCallStep DEF TimeoutRead
<1>10. QED
  BY <1>2, <1>3, <1>4, <1>5, <1>6, <1>7, <1>8, <1>9

(* The calls that go on or end without a write to the trips. *)
LEMMA ApartQuietSteps ==
  ASSUME IInv, ApartInv, NEW r \in Reqs
  PROVE  /\ EnqueueJobs(r) => ApartInv'
         /\ CountOffers(r) => ApartInv'
         /\ LookupOffer(r) => ApartInv'
         /\ SelectBegin(r) => ApartInv'
         /\ SelectDeadlock(r) => ApartInv'
         /\ SelectCheckout(r) => ApartInv'
         /\ Fail(r) => ApartInv'
         /\ PoolExhausted(r) => ApartInv'
<1> USE DEF tables
<1>1. req \in [Reqs -> Request]
  BY DEF IInv, TypeOK
<1>2. EnqueueJobs(r) \/ Fail(r) \/ PoolExhausted(r) => ApartInv'
  BY ApartEndStep DEF EnqueueJobs, Fail, PoolExhausted
<1>0. ASSUME CountOffers(r) PROVE ApartInv'
  <2>1. CASE ~End(r)
    <3> DEFINE q == [req[r] EXCEPT !.op = "lookup"]
    <3>1. req' = [req EXCEPT ![r] = q] /\ q.op = "lookup" /\ q.trip = req[r].trip
          /\ q.driver = req[r].driver
      BY <1>1, <1>0, <2>1 DEF CountOffers, Advance, Request
    <3>2. req'[r] = q /\ UNCHANGED offer
      BY <1>1, <1>0, <3>1 DEF CountOffers
    <3>3. ~LimitReached(OffersOn(req[r].trip, req[r].driver))
      BY <1>0, <2>1 DEF CountOffers
    <3>4. CallFresh(r)'
      BY <3>1, <3>2, <3>3 DEF CallFresh, Offering, Holds, OffersOn
    <3>5. QED
      BY <1>0, <3>1, <3>4, ApartCallStep DEF CountOffers
  <2>2. QED
    BY <1>0, <2>1, ApartEndStep DEF CountOffers
<1>3. ASSUME LookupOffer(r) PROVE ApartInv'
  <2>1. CASE ~End(r)
    <3> DEFINE q == [req[r] EXCEPT !.op = "offer"]
    <3>1. req' = [req EXCEPT ![r] = q] /\ q.op = "offer" /\ q.trip = req[r].trip
          /\ q.driver = req[r].driver
      BY <1>1, <1>3, <2>1 DEF LookupOffer, Advance, Request
    <3>2. req'[r] = q /\ UNCHANGED offer
      BY <1>1, <1>3, <3>1 DEF LookupOffer
    <3>3. ~LimitReached(OffersOn(req[r].trip, req[r].driver))
      BY <1>3 DEF LookupOffer, ApartInv, CallFresh, Offering
    <3>4. \A o \in OffersOn(req[r].trip, req[r].driver) : offer[o].status # "pending"
      BY <1>3, <2>1 DEF LookupOffer
    <3>5. CallFresh(r)'
      BY <3>1, <3>2, <3>3, <3>4 DEF CallFresh, Offering, Holds, OffersOn
    <3>6. QED
      BY <1>3, <3>1, <3>5, ApartCallStep DEF LookupOffer
  <2>2. QED
    BY <1>3, <2>1, ApartEndStep DEF LookupOffer
<1>4. ASSUME SelectBegin(r) PROVE ApartInv'
  <2> DEFINE d == offer[req[r].offer].driver
             q == [req[r] EXCEPT !.op = "selectTx", !.driver = d]
  <2>1. CASE Selectable(req[r].trip, req[r].offer)
    <3>0. req' = [req EXCEPT ![r].op = "selectTx", ![r].driver = d]
      BY <1>4, <2>1 DEF SelectBegin
    <3>1. req' = [req EXCEPT ![r] = q] /\ q.op = "selectTx" /\ q.driver = d
      BY <1>1, <3>0 DEF Request
    <3>2. req'[r] = q /\ UNCHANGED trip /\ ~DriverBusy(d)
      BY <1>1, <1>4, <2>1, <3>1 DEF SelectBegin, Selectable
    <3>3. CallFresh(r)'
      BY <3>1, <3>2 DEF CallFresh, Offering, DriverBusy
    <3>4. QED
      BY <1>4, <3>1, <3>3, ApartCallStep DEF SelectBegin
  <2>2. QED
    BY <1>4, <2>1, ApartEndStep DEF SelectBegin
<1>5. ASSUME SelectDeadlock(r) PROVE ApartInv'
  <2>1. CASE ~End(r)
    <3> DEFINE q == [req[r] EXCEPT !.op = "select", !.driver = Nil,
                                   !.attempt = req[r].attempt + 1]
    <3>1. req' = [req EXCEPT ![r] = q] /\ q.op = "select"
      BY <1>1, <1>5, <2>1 DEF SelectDeadlock, Request
    <3>2. CallFresh(r)'
      BY <1>1, <3>1, UnlistedFresh
    <3>3. QED
      BY <1>5, <3>1, <3>2, ApartCallStep DEF SelectDeadlock
  <2>2. QED
    BY <1>5, <2>1, ApartEndStep DEF SelectDeadlock
<1>6. ASSUME SelectCheckout(r) PROVE ApartInv'
  <2> DEFINE q == [req[r] EXCEPT !.op = "selectOut"]
  <2>1. req' = [req EXCEPT ![r] = q] /\ q.op = "selectOut" /\ q.driver = req[r].driver
    BY <1>1, <1>6 DEF SelectCheckout, Advance, Request
  <2>2. req'[r] = q /\ UNCHANGED trip /\ ~DriverBusy(req[r].driver)
    BY <1>1, <1>6, <2>1 DEF SelectCheckout, ApartInv, CallFresh, Offering, Holds
  <2>3. CallFresh(r)'
    BY <2>1, <2>2 DEF CallFresh, Offering, DriverBusy
  <2>4. QED
    BY <1>6, <2>1, <2>3, ApartCallStep DEF SelectCheckout
<1>7. QED
  BY <1>0, <1>2, <1>3, <1>4, <1>5, <1>6

-----------------------------------------------------------------------------
(* Steps that write offers *)

\* Offers keep their trip and driver, and none becomes pending.
OffersDecided ==
  \A o \in Offers :
    /\ offer'[o].trip = offer[o].trip /\ offer'[o].driver = offer[o].driver
    /\ offer'[o].status = "pending" => offer[o].status = "pending"

LEMMA DecidedLimit ==
  ASSUME OffersFinite, OfferLimit, OffersDecided
  PROVE  OffersFinite' /\ OfferLimit'
<1> SUFFICES ASSUME NEW t \in Trips, NEW d \in Drivers
             PROVE  /\ IsFiniteSet(OffersOn(t, d)')
                    /\ Cardinality(OffersOn(t, d)') <= MaxOffers
                    /\ Cardinality({o \in OffersOn(t, d)' : offer'[o].status = "pending"}) <= 1
  BY DEF OffersFinite, OfferLimit
<1> DEFINE open == {o \in OffersOn(t, d) : offer[o].status = "pending"}
           left == {o \in OffersOn(t, d)' : offer'[o].status = "pending"}
<1>1. OffersOn(t, d)' = OffersOn(t, d)
  BY DEF OffersDecided, OffersOn
<1>2. IsFiniteSet(OffersOn(t, d)) /\ Cardinality(OffersOn(t, d)) <= MaxOffers
      /\ Cardinality(open) <= 1
  BY DEF OffersFinite, OfferLimit
<1>3. left \subseteq open /\ open \subseteq OffersOn(t, d)
  BY <1>1 DEF OffersDecided, OffersOn
<1>4. IsFiniteSet(open) /\ IsFiniteSet(left) /\ Cardinality(left) <= Cardinality(open)
  BY <1>2, <1>3, FS_Subset
<1>5. Cardinality(open) \in Nat /\ Cardinality(left) \in Nat
  BY <1>4, FS_CardinalityType
<1>6. QED
  BY <1>1, <1>2, <1>4, <1>5

LEMMA ApartReject ==
  ASSUME IInv, ApartInv, NEW r \in Reqs, RejectWrite(r)
  PROVE  ApartInv'
<1>1. req \in [Reqs -> Request] /\ offer \in [Offers -> OfferRow]
      /\ req[r].offer \in Offers
  BY DEF IInv, TypeOK, RequestsOK, RequestOK, RejectWrite
<1>2. OffersDecided
  BY <1>1 DEF RejectWrite, OffersDecided, OfferRow
<1>3. OffersFinite' /\ OfferLimit'
  BY <1>2, DecidedLimit DEF ApartInv
<1>4. ASSUME NEW s \in Reqs PROVE CallFresh(s)'
  <2>1. CASE s # r
    <3>1. LeavesAlone(s)
      BY <1>1, <1>2, <2>1 DEF LeavesAlone, RejectWrite, End, OffersDecided, HasLiveTrip, DriverBusy
    <3>2. QED
      BY <3>1, StaysFresh DEF ApartInv
  <2>2. CASE s = r
    BY <1>1, <2>2, UnlistedFresh DEF RejectWrite, End, Idle
  <2>3. QED
    BY <2>1, <2>2
<1>5. UNCHANGED <<trip, charged>>
  BY DEF RejectWrite
<1>6. FeesMatch' /\ UnusedBlank' /\ OneActiveTripPerDriver' /\ OneLiveTripPerClient'
  BY <1>5 DEF ApartInv, FeesMatch, UnusedBlank, OneActiveTripPerDriver, OneLiveTripPerClient
<1>7. QED
  BY <1>3, <1>4, <1>6 DEF ApartInv

(* The driver has had fewer than MaxOffers on the trip and none is pending, and
   nobody else inserts one of his meanwhile. *)
LEMMA ApartInsertOffer ==
  ASSUME IInv, ApartInv, Apart, NEW r \in Reqs, InsertOffer(r)
  PROVE  ApartInv'
<1> DEFINE t == req[r].trip
           d == req[r].driver
<1>1. req \in [Reqs -> Request] /\ offer \in [Offers -> OfferRow]
      /\ t \in Trips /\ d \in Drivers
  BY DEF IInv, TypeOK, RequestsOK, RequestOK, InsertOffer
<1>2. PICK o \in Offers : offer' = [offer EXCEPT ![o] = [trip |-> t, driver |-> d,
                                                        status |-> "pending"]]
  BY DEF InsertOffer
<1>3. ASSUME NEW u \in Trips, NEW e \in Drivers
      PROVE  /\ IsFiniteSet(OffersOn(u, e)')
             /\ Cardinality(OffersOn(u, e)') <= MaxOffers
             /\ Cardinality({p \in OffersOn(u, e)' : offer'[p].status = "pending"}) <= 1
  <2> DEFINE open == {p \in OffersOn(u, e) : offer[p].status = "pending"}
             left == {p \in OffersOn(u, e)' : offer'[p].status = "pending"}
  <2>1. IsFiniteSet(OffersOn(u, e)) /\ Cardinality(OffersOn(u, e)) <= MaxOffers
        /\ Cardinality(open) <= 1 /\ Cardinality(OffersOn(u, e)) \in Nat
    BY FS_CardinalityType DEF ApartInv, OffersFinite, OfferLimit
  <2>2. CASE u = t /\ e = d
    <3>1. OffersOn(u, e)' \subseteq OffersOn(u, e) \cup {o} /\ left \subseteq {o}
      BY <1>1, <1>2, <2>2 DEF OffersOn, ApartInv, CallFresh, InsertOffer
    <3>2. Cardinality(OffersOn(u, e)) < MaxOffers
      BY <2>1, <2>2 DEF ApartInv, CallFresh, Offering, InsertOffer, LimitReached
    <3>3. /\ IsFiniteSet(OffersOn(u, e) \cup {o})
          /\ Cardinality(OffersOn(u, e) \cup {o}) <= Cardinality(OffersOn(u, e)) + 1
          /\ Cardinality(OffersOn(u, e) \cup {o}) \in Nat
      BY <2>1, FS_AddElement, FS_CardinalityType
    <3>4. IsFiniteSet(OffersOn(u, e)')
          /\ Cardinality(OffersOn(u, e)') <= Cardinality(OffersOn(u, e) \cup {o})
      BY <3>1, <3>3, FS_Subset
    <3>5. IsFiniteSet({o}) /\ Cardinality({o}) = 1
      BY FS_Singleton
    <3>6. IsFiniteSet(left) /\ Cardinality(left) <= 1
      BY <3>1, <3>5, FS_Subset
    <3>7. Cardinality(OffersOn(u, e)') \in Nat
      BY <3>4, FS_CardinalityType
    <3>8. Cardinality(OffersOn(u, e)') <= MaxOffers
      BY <2>1, <3>2, <3>3, <3>4, <3>7
    <3>9. QED
      BY <3>4, <3>6, <3>8
  <2>3. CASE ~(u = t /\ e = d)
    <3>1. OffersOn(u, e)' \subseteq OffersOn(u, e) /\ left \subseteq open
          /\ open \subseteq OffersOn(u, e)
      BY <1>1, <1>2, <2>3 DEF OffersOn
    <3>2. IsFiniteSet(OffersOn(u, e)') /\ Cardinality(OffersOn(u, e)') <= Cardinality(OffersOn(u, e))
      BY <2>1, <3>1, FS_Subset
    <3>3. IsFiniteSet(open) /\ IsFiniteSet(left) /\ Cardinality(left) <= Cardinality(open)
      BY <2>1, <3>1, FS_Subset
    <3>4. Cardinality(OffersOn(u, e)') \in Nat /\ Cardinality(open) \in Nat /\ Cardinality(left) \in Nat
      BY <3>2, <3>3, FS_CardinalityType
    <3>5. QED
      BY <2>1, <3>2, <3>3, <3>4
  <2>4. QED
    BY <2>2, <2>3
<1>4. OffersFinite' /\ OfferLimit'
  BY <1>3 DEF OffersFinite, OfferLimit
<1>5. ASSUME NEW s \in Reqs PROVE CallFresh(s)'
  <2>1. CASE s # r
    <3>1. Offering(s) => req[s].trip # t \/ req[s].driver # d
      BY <2>1 DEF Apart, InsertOffer, Offering
    <3>2. LeavesAlone(s)
      BY <1>1, <1>2, <2>1, <3>1 DEF LeavesAlone, InsertOffer, End, HasLiveTrip, DriverBusy
    <3>3. QED
      BY <3>2, StaysFresh DEF ApartInv
  <2>2. CASE s = r
    BY <1>1, <2>2, UnlistedFresh DEF InsertOffer, End, Idle
  <2>3. QED
    BY <2>1, <2>2
<1>6. UNCHANGED <<trip, charged>>
  BY DEF InsertOffer
<1>7. FeesMatch' /\ UnusedBlank' /\ OneActiveTripPerDriver' /\ OneLiveTripPerClient'
  BY <1>6 DEF ApartInv, FeesMatch, UnusedBlank, OneActiveTripPerDriver, OneLiveTripPerClient
<1>8. QED
  BY <1>4, <1>5, <1>7 DEF ApartInv

-----------------------------------------------------------------------------
(* Steps that write a trip *)

(* One row is rewritten; the trip goes on for its client and driver, or ends. *)
RowMovesOn(t, row) ==
  /\ trip' = [trip EXCEPT ![t] = row]
  /\ trip[t].status # "none" /\ row.status # "none"
  /\ row.client = trip[t].client
  /\ row.status \in Live => trip[t].status \in Live
  /\ row.status \in Active => trip[t].status \in Active /\ row.driver = trip[t].driver

LEMMA RowMovesOnKeeps ==
  ASSUME IInv, ApartInv, NEW t \in Trips, NEW row \in TripRow, RowMovesOn(t, row)
  PROVE  /\ OneActiveTripPerDriver' /\ OneLiveTripPerClient' /\ UnusedBlank'
         /\ \A c \in Clients : HasLiveTrip(c)' => HasLiveTrip(c)
         /\ \A d \in Drivers : DriverBusy(d)' => DriverBusy(d)
<1>1. /\ trip'[t] = row /\ \A u \in Trips : u # t => trip'[u] = trip[u]
      /\ trip[t].status # "none" /\ row.status # "none" /\ row.client = trip[t].client
      /\ row.status \in Live => trip[t].status \in Live
      /\ row.status \in Active => trip[t].status \in Active /\ row.driver = trip[t].driver
  BY DEF IInv, TypeOK, RowMovesOn
<1>2. OneActiveTripPerDriver' /\ OneLiveTripPerClient'
  BY <1>1 DEF ApartInv, OneActiveTripPerDriver, OneLiveTripPerClient
<1>3. UnusedBlank'
  BY <1>1 DEF ApartInv, UnusedBlank
<1>4. \A c \in Clients : HasLiveTrip(c)' => HasLiveTrip(c)
  BY <1>1 DEF HasLiveTrip
<1>5. \A d \in Drivers : DriverBusy(d)' => DriverBusy(d)
  BY <1>1 DEF DriverBusy
<1>6. QED
  BY <1>2, <1>3, <1>4, <1>5

(* The step of a handler that ends, or of startTrip. *)
LEMMA ApartRowStep ==
  ASSUME IInv, ApartInv, NEW r \in Reqs, NEW t \in Trips, NEW row \in TripRow,
         RowMovesOn(t, row), OffersDecided, FeesMatch',
         \/ req' = req /\ \A s \in Reqs : Writes(s) => req[s].trip # t
         \/ req' = [req EXCEPT ![r] = Idle]
            /\ \A s \in Reqs : s # r /\ Writes(s) => req[s].trip # t
  PROVE  ApartInv'
<1>1. req \in [Reqs -> Request]
  BY DEF IInv, TypeOK
<1>2. /\ OneActiveTripPerDriver' /\ OneLiveTripPerClient' /\ UnusedBlank'
      /\ \A c \in Clients : HasLiveTrip(c)' => HasLiveTrip(c)
      /\ \A d \in Drivers : DriverBusy(d)' => DriverBusy(d)
  BY RowMovesOnKeeps
<1>3. OffersFinite' /\ OfferLimit'
  BY DecidedLimit DEF ApartInv
<1>4. ASSUME NEW s \in Reqs PROVE CallFresh(s)'
  <2>1. CASE req'[s] = req[s] /\ (Writes(s) => req[s].trip # t)
    <3>1. /\ req[s].op = "create" => req[s].by \in Clients
          /\ Holds(s) => req[s].driver \in Drivers
          /\ Writes(s) => req[s].trip \in Trips
      BY DEF IInv, RequestsOK, RequestOK, Writes, Holds
    <3>2. Writes(s) => trip'[req[s].trip] = trip[req[s].trip]
      BY <2>1, <3>1 DEF IInv, TypeOK, RowMovesOn
    <3>3. req[s].op = "create" /\ HasLiveTrip(req[s].by)' => HasLiveTrip(req[s].by)
      BY <1>2, <2>1, <3>1 DEF HasLiveTrip
    <3>4. Holds(s) /\ DriverBusy(req[s].driver)' => DriverBusy(req[s].driver)
      BY <1>2, <2>1, <3>1 DEF DriverBusy
    <3>5. LeavesAlone(s)
      BY <2>1, <3>2, <3>3, <3>4 DEF LeavesAlone, OffersDecided, Writes
    <3>6. QED
      BY <3>5, StaysFresh DEF ApartInv
  <2>2. CASE s = r /\ req'[r] = Idle
    BY <2>2, UnlistedFresh DEF Idle
  <2>3. QED
    BY <1>1, <2>1, <2>2
<1>5. QED
  BY <1>2, <1>3, <1>4 DEF ApartInv

LEMMA ApartStart ==
  ASSUME IInv, ApartInv, StartsApart, NEW r \in Reqs, NEW t \in Trips, StartTrip(r, t)
  PROVE  ApartInv'
<1> DEFINE row == StartedRow(trip[t])
<1>1. trip[t] \in TripRow /\ trip[t].status \in {"accepted", "driver_arrived"}
  BY DEF IInv, TypeOK, StartTrip
<1>2. /\ row \in TripRow /\ row.status = "in_progress"
      /\ row.driver = trip[t].driver /\ row.client = trip[t].client
  BY <1>1 DEF StartedRow, TripRow, TripStatus
<1>3. RowMovesOn(t, row)
  BY <1>1, <1>2 DEF RowMovesOn, StartTrip, Active, Live
<1>4. OffersDecided
  BY DEF OffersDecided, StartTrip
<1>5. FeesMatch'
  BY <1>1, <1>2 DEF ApartInv, FeesMatch, StartTrip, IInv, TypeOK
<1>6. req' = req /\ \A s \in Reqs : Writes(s) => req[s].trip # t
  BY DEF StartTrip, StartsApart
<1>7. QED
  BY <1>2, <1>3, <1>4, <1>5, <1>6, ApartRowStep

(* Nobody else has the trip of a handler that writes it. *)
LEMMA OnlyWriter ==
  ASSUME Apart, NEW r \in Reqs, Writes(r)
  PROVE  \A s \in Reqs : s # r /\ Writes(s) => req[s].trip # req[r].trip
BY DEF Apart

LEMMA ApartEndings ==
  ASSUME IInv, ApartInv, Apart, NEW r \in Reqs
  PROVE  /\ ArriveWrite(r) => ApartInv'
         /\ CompleteCommit(r) => ApartInv'
         /\ CancelCommit(r) => ApartInv'
         /\ TimeoutWrite(r) => ApartInv'
<1> DEFINE t == req[r].trip
<1>1. ASSUME ArriveWrite(r) PROVE ApartInv'
  <2> DEFINE row == [trip[t] EXCEPT !.status = "driver_arrived"]
  <2>1. t \in Trips /\ trip[t].status = "accepted"
    BY <1>1 DEF ArriveWrite, IInv, RequestsOK, RequestOK, ApartInv, CallFresh
  <2>2. trip[t] \in TripRow
    BY <2>1 DEF IInv, TypeOK
  <2>3. /\ row \in TripRow /\ row.status = "driver_arrived"
        /\ row.driver = trip[t].driver /\ row.client = trip[t].client
    BY <2>2 DEF TripRow, TripStatus
  <2>4. trip' = [trip EXCEPT ![t] = row]
    BY <1>1, <2>1 DEF ArriveWrite
  <2>5. RowMovesOn(t, row) /\ OffersDecided
    BY <1>1, <2>1, <2>3, <2>4 DEF RowMovesOn, Active, Live, OffersDecided, ArriveWrite
  <2>6. FeesMatch'
    BY <1>1, <2>1, <2>3, <2>4 DEF ApartInv, FeesMatch, ArriveWrite, IInv, TypeOK
  <2>7. Writes(r)
    BY <1>1 DEF ArriveWrite, Writes
  <2>8. QED
    BY <1>1, <2>1, <2>3, <2>5, <2>6, <2>7, OnlyWriter, ApartRowStep DEF ArriveWrite, End
<1>2. ASSUME CompleteCommit(r) PROVE ApartInv'
  <2> DEFINE row == [trip[t] EXCEPT !.status = "completed"]
  <2>1. t \in Trips /\ trip[t].status = "in_progress"
    BY <1>2 DEF CompleteCommit, IInv, RequestsOK, RequestOK, ApartInv, CallFresh
  <2>2. trip[t] \in TripRow
    BY <2>1 DEF IInv, TypeOK
  <2>3. /\ row \in TripRow /\ row.status = "completed" /\ row.client = trip[t].client
    BY <2>2 DEF TripRow, TripStatus
  <2>4. trip' = [trip EXCEPT ![t] = row]
    BY <1>2, <2>1 DEF CompleteCommit
  <2>5. RowMovesOn(t, row) /\ OffersDecided
    BY <1>2, <2>1, <2>3, <2>4 DEF RowMovesOn, Active, Live, OffersDecided, CompleteCommit
  <2>6. FeesMatch'
    <3>1. charged' = [charged EXCEPT ![t] = @ + 1] /\ charged[t] = 0
      BY <1>2, <2>1 DEF CompleteCommit, ApartInv, FeesMatch
    <3>2. charged \in [Trips -> Nat] /\ trip \in [Trips -> TripRow]
      BY DEF IInv, TypeOK
    <3>3. \A u \in Trips : charged[u] = IF trip[u].status = "completed" THEN 1 ELSE 0
      BY DEF ApartInv, FeesMatch
    <3>4. QED
      BY <2>1, <2>3, <2>4, <3>1, <3>2, <3>3 DEF FeesMatch
  <2>7. Writes(r)
    BY <1>2 DEF CompleteCommit, Writes
  <2>8. QED
    BY <1>2, <2>1, <2>3, <2>5, <2>6, <2>7, OnlyWriter, ApartRowStep DEF CompleteCommit, End
<1>3. ASSUME NEW by \in CancelledBy, t \in Trips, trip[t].status \in Live,
             trip' = [trip EXCEPT ![t] = CancelledRow(trip[t], by)],
             OffersDecided, charged' = charged, End(r), Writes(r)
      PROVE  ApartInv'
  <2> DEFINE row == CancelledRow(trip[t], by)
  <2>1. trip[t] \in TripRow
    BY <1>3 DEF IInv, TypeOK
  <2>2. row \in TripRow /\ row.status = "cancelled" /\ row.client = trip[t].client
    BY <2>1 DEF CancelledRow, TripRow, TripStatus
  <2>3. RowMovesOn(t, row)
    BY <1>3, <2>2 DEF RowMovesOn, Live, Active
  <2>4. FeesMatch'
    BY <1>3, <2>2 DEF ApartInv, FeesMatch, IInv, TypeOK, Live, Active
  <2>5. QED
    BY <1>3, <2>2, <2>3, <2>4, OnlyWriter, ApartRowStep DEF End
<1>4. ASSUME CancelCommit(r) PROVE ApartInv'
  <2>1. t \in Trips /\ trip[t].status \in Live /\ req[r].by \in CancelledBy
    BY <1>4 DEF CancelCommit, IInv, RequestsOK, RequestOK, ApartInv, CallFresh, MayCancel
  <2>2. offer \in [Offers -> OfferRow]
    BY DEF IInv, TypeOK
  <2>3. OffersDecided
    BY <1>4, <2>2 DEF CancelCommit, OffersAfterCancel, OffersDecided, OfferRow
  <2>4. QED
    BY <1>3, <1>4, <2>1, <2>3 DEF CancelCommit, Writes
<1>5. ASSUME TimeoutWrite(r) PROVE ApartInv'
  <2>1. t \in Trips /\ trip[t].status \in Live
    BY <1>5 DEF TimeoutWrite, IInv, RequestsOK, RequestOK, ApartInv, CallFresh, Live
  <2>2. OffersDecided
    BY <1>5 DEF TimeoutWrite, OffersDecided
  <2>3. QED
    BY <1>3, <1>5, <2>1, <2>2 DEF TimeoutWrite, Writes
<1>6. QED
  BY <1>1, <1>2, <1>4, <1>5

(* A new row appears for a client without a live trip, or for none. *)
LEMMA ApartInsertRow ==
  ASSUME IInv, ApartInv, NEW r \in Reqs, NEW t \in Trips, NEW c \in Clients \cup {Nil},
         trip[t].status = "none", trip' = [trip EXCEPT ![t] = RequestedRow(c)],
         c # Nil => ~HasLiveTrip(c),
         \A s \in Reqs : s # r /\ req[s].op = "create" => req[s].by # c,
         NEW q, req' = [req EXCEPT ![r] = q], q.op = "enqueue",
         UNCHANGED <<offer, charged>>
  PROVE  ApartInv'
<1>1. req \in [Reqs -> Request] /\ req'[r].op = "enqueue"
  BY DEF IInv, TypeOK
<1>2. \A u \in Trips : trip'[u] = IF u = t THEN RequestedRow(c) ELSE trip[u]
  BY DEF IInv, TypeOK
<1>3. /\ RequestedRow(c).status = "requested" /\ RequestedRow(c).client = c
  BY DEF RequestedRow, NoTrip
<1>4. OneActiveTripPerDriver'
  BY <1>2, <1>3 DEF ApartInv, OneActiveTripPerDriver, Active
<1>5. OneLiveTripPerClient'
  <2>1. \A u \in Trips : trip[u].client = c /\ trip[u].status \in Live => c = Nil
    BY DEF HasLiveTrip
  <2>2. QED
    BY <1>2, <1>3, <2>1 DEF ApartInv, OneLiveTripPerClient
<1>6. FeesMatch' /\ UnusedBlank'
  BY <1>2, <1>3 DEF ApartInv, FeesMatch, UnusedBlank
<1>7. OffersFinite' /\ OfferLimit'
  BY DecidedLimit DEF ApartInv, OffersDecided
<1>8. ASSUME NEW s \in Reqs PROVE CallFresh(s)'
  <2>1. CASE s # r
    <3>1. /\ req[s].op = "create" => req[s].by \in Clients /\ req[s].by # c
          /\ req[s].op \in {"arrive", "complete", "cancel", "timeout"} =>
               req[s].trip \in Trips /\ req[s].trip # t
          /\ req'[s] = req[s]
      BY <1>1, <2>1 DEF IInv, RequestsOK, RequestOK
    <3>2. req[s].op = "create" /\ HasLiveTrip(req[s].by)' => HasLiveTrip(req[s].by)
      BY <1>2, <1>3, <3>1 DEF HasLiveTrip
    <3>3. DriverBusy(req[s].driver)' => DriverBusy(req[s].driver)
      BY <1>2, <1>3, <3>1 DEF DriverBusy, Active
    <3>4. LeavesAlone(s)
      BY <1>2, <3>1, <3>2, <3>3 DEF LeavesAlone
    <3>5. QED
      BY <3>4, StaysFresh DEF ApartInv
  <2>2. CASE s = r
    BY <1>1, <2>2, UnlistedFresh
  <2>3. QED
    BY <2>1, <2>2
<1>9. QED
  BY <1>4, <1>5, <1>6, <1>7, <1>8 DEF ApartInv

LEMMA ApartInserts ==
  ASSUME IInv, ApartInv, Apart, NEW r \in Reqs, InsertTrip(r) \/ CreateWalkIn(r)
  PROVE  ApartInv'
<1>1. CASE InsertTrip(r)
  <2>1. PICK c \in Clients : c = req[r].by /\ ~HasLiveTrip(c)
    BY <1>1 DEF InsertTrip, IInv, RequestsOK, RequestOK, ApartInv, CallFresh
  <2>2. \A s \in Reqs : s # r /\ req[s].op = "create" => req[s].by # c
    BY <1>1, <2>1 DEF InsertTrip, Apart
  <2>3. PICK t \in Trips :
          /\ trip[t].status = "none"
          /\ trip' = [trip EXCEPT ![t] = RequestedRow(c)]
          /\ req' = [req EXCEPT ![r] = [Idle EXCEPT !.op = "enqueue", !.trip = t]]
    BY <1>1, <2>1 DEF InsertTrip
  <2>4. UNCHANGED <<offer, charged>> /\ c \in Clients \cup {Nil}
    BY <1>1 DEF InsertTrip
  <2>5. [Idle EXCEPT !.op = "enqueue", !.trip = t].op = "enqueue"
    BY DEF Idle
  <2>6. QED
    BY <2>1, <2>2, <2>3, <2>4, <2>5, ApartInsertRow
<1>2. CASE CreateWalkIn(r)
  <2>1. \A s \in Reqs : s # r /\ req[s].op = "create" => req[s].by # Nil
    BY DEF IInv, RequestsOK, RequestOK
  <2>2. PICK t \in Trips :
          /\ trip[t].status = "none"
          /\ trip' = [trip EXCEPT ![t] = RequestedRow(Nil)]
          /\ req' = [req EXCEPT ![r] = [Idle EXCEPT !.op = "enqueue", !.trip = t]]
    BY <1>2 DEF CreateWalkIn, Begin
  <2>3. UNCHANGED <<offer, charged>> /\ Nil \in Clients \cup {Nil}
    BY <1>2 DEF CreateWalkIn
  <2>4. Nil # Nil => ~HasLiveTrip(Nil)
    OBVIOUS
  <2>5. [Idle EXCEPT !.op = "enqueue", !.trip = t].op = "enqueue"
    BY DEF Idle
  <2>6. QED
    BY <2>1, <2>2, <2>3, <2>4, <2>5, ApartInsertRow
<1>3. QED
  BY <1>1, <1>2

(* The driver is on no trip, and no other selection of his has the lock. *)
LEMMA ApartSelectCommit ==
  ASSUME IInv, ApartInv, Apart, NEW r \in Reqs, SelectCommit(r)
  PROVE  ApartInv'
<1> DEFINE t == req[r].trip
           d == req[r].driver
           row == AcceptedRow(trip[t], d)
<1>1. /\ t \in Trips /\ d \in Drivers /\ trip[t].status = "requested"
      /\ req[r].offer \in Offers /\ Holds(r)
  BY DEF SelectCommit, IInv, RequestsOK, RequestOK, Holds
<1>2. ~DriverBusy(d)
  BY <1>1 DEF ApartInv, CallFresh
<1>3. trip[t] \in TripRow /\ req \in [Reqs -> Request] /\ offer \in [Offers -> OfferRow]
  BY <1>1 DEF IInv, TypeOK
<1>4. row.status = "accepted" /\ row.driver = d /\ row.client = trip[t].client
  BY <1>3 DEF AcceptedRow, TripRow
<1>5. \A u \in Trips : trip'[u] = IF u = t THEN row ELSE trip[u]
  BY <1>1 DEF SelectCommit, IInv, TypeOK
<1>6. OneActiveTripPerDriver'
  BY <1>1, <1>2, <1>4, <1>5 DEF ApartInv, OneActiveTripPerDriver, DriverBusy
<1>7. OneLiveTripPerClient'
  BY <1>1, <1>4, <1>5 DEF ApartInv, OneLiveTripPerClient, Live, Active
<1>8. FeesMatch' /\ UnusedBlank'
  BY <1>1, <1>4, <1>5 DEF ApartInv, FeesMatch, UnusedBlank, SelectCommit
<1>9. OffersDecided
  BY <1>1, <1>3 DEF SelectCommit, OffersAfterSelect, OffersDecided, OfferRow
<1>10. OffersFinite' /\ OfferLimit'
  BY <1>9, DecidedLimit DEF ApartInv
<1>11. ASSUME NEW s \in Reqs PROVE CallFresh(s)'
  <2>1. CASE s # r
    <3>1. req'[s] = req[s]
      BY <1>3, <2>1 DEF SelectCommit, End
    <3>2. Writes(s) => req[s].trip # t /\ req[s].trip \in Trips
      BY <1>1, <2>1 DEF Apart, Writes, IInv, RequestsOK, RequestOK, Holds
    <3>3. Holds(s) => req[s].driver # d
      BY <1>1, <2>1 DEF Apart
    <3>4. HasLiveTrip(req[s].by)' => HasLiveTrip(req[s].by)
      BY <1>1, <1>4, <1>5, <3>1 DEF HasLiveTrip, Live
    <3>5. Holds(s) /\ DriverBusy(req[s].driver)' => DriverBusy(req[s].driver)
      BY <1>4, <1>5, <3>1, <3>3 DEF DriverBusy
    <3>6. LeavesAlone(s)
      BY <1>5, <1>9, <3>1, <3>2, <3>4, <3>5 DEF LeavesAlone, OffersDecided, Writes
    <3>7. QED
      BY <3>6, StaysFresh DEF ApartInv
  <2>2. CASE s = r
    BY <1>3, <2>2, UnlistedFresh DEF SelectCommit, End, Idle
  <2>3. QED
    BY <2>1, <2>2
<1>12. QED
  BY <1>6, <1>7, <1>8, <1>10, <1>11 DEF ApartInv

-----------------------------------------------------------------------------
(* The invariant *)

LEMMA InitApart == Init => Apart /\ ApartInv
<1> SUFFICES ASSUME Init PROVE Apart /\ ApartInv
  OBVIOUS
<1>1. Apart
  BY DEF Init, Apart, Offering, Writes, Holds, Idle
<1>2. \A t \in Trips, d \in Drivers : OffersOn(t, d) = {}
  BY DEF Init, OffersOn, NoOffer
<1>3. OffersFinite /\ OfferLimit
  BY <1>2, FS_EmptySet DEF OffersFinite, OfferLimit
<1>4. \A r \in Reqs : CallFresh(r)
  BY DEF Init, CallFresh, Offering, Holds, Idle
<1>5. FeesMatch /\ UnusedBlank /\ OneActiveTripPerDriver /\ OneLiveTripPerClient
  BY DEF Init, FeesMatch, UnusedBlank, OneActiveTripPerDriver, OneLiveTripPerClient,
         NoTrip, Active, Live
<1>6. QED
  BY <1>1, <1>3, <1>4, <1>5 DEF ApartInv

LEMMA NextApart ==
  IInv /\ ApartInv /\ Apart /\ [Next /\ StartsApart /\ Apart']_vars => ApartInv' /\ Apart'
<1> SUFFICES ASSUME IInv, ApartInv, Apart, [Next /\ StartsApart /\ Apart']_vars
             PROVE  ApartInv' /\ Apart'
  OBVIOUS
<1>1. CASE UNCHANGED vars
  <2>1. Apart'
    BY <1>1 DEF vars, Apart, Offering, Writes, Holds
  <2>2. QED
    BY <1>1, <2>1, ApartOffTableStep DEF vars
<1>2. CASE Next /\ StartsApart /\ Apart'
  <2>1. ASSUME NEW r \in Reqs, ClientStep(r) PROVE ApartInv'
    BY <2>1, ApartReadSteps, ApartInserts, ApartQuietSteps, ApartReject DEF ClientStep
  <2>2. ASSUME NEW r \in Reqs, SelectStep(r) PROVE ApartInv'
    BY <2>2, ApartQuietSteps, ApartSelectCommit DEF SelectStep
  <2>3. ASSUME NEW r \in Reqs, DriverStep(r) PROVE ApartInv'
    BY <1>2, <2>3, ApartReadSteps, ApartStart, ApartQuietSteps, ApartInsertOffer, ApartEndings
       DEF DriverStep
  <2>4. ASSUME NEW r \in Reqs, CancelStep(r) PROVE ApartInv'
    BY <2>4, ApartReadSteps, ApartEndings DEF CancelStep
  <2>5. ASSUME Other PROVE ApartInv'
    <3>1. ASSUME Crash \/ (\E t \in Trips : TimeoutSkip(t))
                 \/ (\E d \in Drivers : \/ \E st \in OnlineStatus : SetOnlineStatus(d, st)
                                       \/ CheckIn(d) \/ CheckOut(d))
          PROVE  ApartInv'
      BY <3>1, ApartOffTableStep DEF Crash, TimeoutSkip, SetOnlineStatus, CheckIn, CheckOut, tables
    <3>2. QED
      BY <2>5, <3>1, ApartQuietSteps DEF Other
  <2>6. QED
    BY <1>2, <2>1, <2>2, <2>3, <2>4, <2>5 DEF Next
<1>3. QED
  BY <1>1, <1>2

LEMMA ApartIsSpec == ApartSpec => Spec
<1>1. [Next /\ StartsApart /\ Apart']_vars => [Next]_vars
  OBVIOUS
<1>2. QED
  BY <1>1, PTL DEF ApartSpec, Spec

(* Calls that stay apart find the tables as they have read them. *)
THEOREM ApartInvariance == ApartSpec => [](IInv /\ ApartInv /\ Apart)
BY InitApart, NextApart, ApartIsSpec, Invariance, PTL DEF ApartSpec

(* One active trip of a driver, one live trip of a client, the limit on offers
   and one commission for a ride: what makeOffer, selectOffer, createTrip and
   completeTrip look up before they act holds as long as no two calls in flight
   write one trip, assign one driver, create for one client or offer for one
   driver on one trip. *)
THEOREM ChecksSuffice == ApartSpec => []ChecksHold
<1>1. \A n \in Nat : n = 0 \/ n = 1 => n <= 1
  OBVIOUS
<1>2. ApartInv => ChecksHold
  BY <1>1 DEF ApartInv, ChecksHold, FeesMatch, ChargedOnce
<1>3. QED
  BY <1>2, ApartInvariance, PTL

-----------------------------------------------------------------------------
(* BUSY means having an active trip *)

\* The steps that leave the trips and the drivers' own statuses alone.
LEMMA NoTripWritten ==
  ASSUME NEW r \in Reqs,
         \/ \E c \in Clients : CreateTrip(r, c)
         \/ \E t \in Trips, o \in Offers : RejectOffer(r, t, o) \/ SelectOffer(r, t, o)
         \/ EnqueueJobs(r) \/ RejectWrite(r) \/ CountOffers(r) \/ LookupOffer(r) \/ InsertOffer(r)
         \/ SelectBegin(r) \/ SelectDeadlock(r) \/ SelectCheckout(r)
         \/ Fail(r) \/ PoolExhausted(r)
         \/ \E t \in Trips : \/ \E d \in Drivers : MakeOffer(r, d, t)
                             \/ \E by \in CancelledBy : CancelTrip(r, t, by)
                             \/ DriverArrived(r, t) \/ CompleteTrip(r, t)
                             \/ TimeoutRead(r, t)
  PROVE  UNCHANGED <<trip, online>>
BY DEF tables, CreateTrip, RejectOffer, SelectOffer, EnqueueJobs, RejectWrite,
       CountOffers, LookupOffer, InsertOffer, SelectBegin, SelectDeadlock, SelectCheckout, Fail,
       PoolExhausted, MakeOffer, CancelTrip, DriverArrived, CompleteTrip, TimeoutRead

\* A trip is written that is active before and after for the same driver, or
\* neither before nor after.
LEMMA BusyUnmoved ==
  ASSUME BusyIffActive, UNCHANGED online, NEW t \in Trips,
         \A u \in Trips : u # t => trip'[u] = trip[u],
         trip[t].status \in Active <=> trip'[t].status \in Active,
         trip[t].status \in Active => trip'[t].driver = trip[t].driver
  PROVE  BusyIffActive'
BY DEF BusyIffActive, DriverBusy

LEMMA BusyClientStep ==
  ASSUME IInv, BusyIffActive, NEW r \in Reqs, InsertTrip(r) \/ CreateWalkIn(r)
  PROVE  BusyIffActive'
<1>1. PICK t \in Trips : trip[t].status = "none" /\ \E c : trip' = [trip EXCEPT ![t] = RequestedRow(c)]
  BY DEF InsertTrip, CreateWalkIn
<1>2. /\ trip'[t].status = "requested" /\ trip[t].status \notin Active
      /\ \A u \in Trips : u # t => trip'[u] = trip[u]
  BY <1>1 DEF IInv, TypeOK, RequestedRow, NoTrip, Active
<1>3. UNCHANGED online
  BY DEF InsertTrip, CreateWalkIn
<1>4. QED
  BY <1>2, <1>3, BusyUnmoved DEF Active

LEMMA BusySelectCommit ==
  ASSUME IInv, BusyIffActive, NEW r \in Reqs, SelectCommit(r)
  PROVE  BusyIffActive'
<1> DEFINE t == req[r].trip
           d == req[r].driver
<1>1. t \in Trips /\ d \in Drivers /\ trip[t].status \notin Active
  BY DEF SelectCommit, IInv, RequestsOK, RequestOK, Holds, Active
<1>2. trip[t] \in TripRow /\ online \in [Drivers -> OnlineStatus]
  BY <1>1 DEF IInv, TypeOK
<1>3. /\ trip'[t].status = "accepted" /\ trip'[t].driver = d
      /\ \A u \in Trips : u # t => trip'[u] = trip[u]
      /\ online'[d] = "busy" /\ \A e \in Drivers : e # d => online'[e] = online[e]
  BY <1>1, <1>2 DEF SelectCommit, AcceptedRow, TripRow, IInv, TypeOK
<1>4. QED
  BY <1>1, <1>3 DEF BusyIffActive, DriverBusy, Active

LEMMA BusyDriverStep ==
  ASSUME IInv, ApartInv, BusyIffActive, NEW r \in Reqs,
         \/ \E t \in Trips : StartTrip(r, t)
         \/ ArriveWrite(r) \/ CompleteCommit(r)
  PROVE  BusyIffActive'
<1>1. ASSUME NEW t \in Trips, StartTrip(r, t) PROVE BusyIffActive'
  <2>1. trip[t] \in TripRow /\ trip[t].status \in Active /\ UNCHANGED online
    BY <1>1 DEF StartTrip, IInv, TypeOK, Active
  <2>2. /\ trip'[t].status \in Active /\ trip'[t].driver = trip[t].driver
        /\ \A u \in Trips : u # t => trip'[u] = trip[u]
    BY <1>1, <2>1 DEF StartTrip, StartedRow, TripRow, IInv, TypeOK, Active
  <2>3. QED
    BY <2>1, <2>2, BusyUnmoved
<1>2. ASSUME ArriveWrite(r) PROVE BusyIffActive'
  <2>1. PICK t \in Trips : t = req[r].trip /\ trip[t].status = "accepted"
    BY <1>2 DEF ArriveWrite, IInv, RequestsOK, RequestOK, ApartInv, CallFresh
  <2>2. trip[t] \in TripRow /\ UNCHANGED online
    BY <1>2 DEF ArriveWrite, IInv, TypeOK
  <2>3. /\ trip'[t].status = "driver_arrived" /\ trip'[t].driver = trip[t].driver
        /\ \A u \in Trips : u # t => trip'[u] = trip[u]
    BY <1>2, <2>1, <2>2 DEF ArriveWrite, TripRow, IInv, TypeOK
  <2>4. QED
    BY <2>1, <2>2, <2>3, BusyUnmoved DEF Active
<1>3. ASSUME CompleteCommit(r) PROVE BusyIffActive'
  <2>1. PICK t \in Trips, d \in Drivers :
          /\ t = req[r].trip /\ d = req[r].driver
          /\ trip[t].status = "in_progress" /\ trip[t].driver = d
    BY <1>3 DEF CompleteCommit, IInv, RequestsOK, RequestOK, ApartInv, CallFresh
  <2>2. trip[t] \in TripRow /\ online \in [Drivers -> OnlineStatus]
    BY DEF IInv, TypeOK
  <2>3. /\ trip'[t].status = "completed"
        /\ \A u \in Trips : u # t => trip'[u] = trip[u]
        /\ online'[d] = "online" /\ \A e \in Drivers : e # d => online'[e] = online[e]
    BY <1>3, <2>1, <2>2 DEF CompleteCommit, TripRow, IInv, TypeOK
  <2>4. \A u \in Trips : u # t /\ trip[u].driver = d => trip[u].status \notin Active
    BY <2>1 DEF ApartInv, OneActiveTripPerDriver, Active
  <2>5. QED
    BY <2>1, <2>3, <2>4 DEF BusyIffActive, DriverBusy, Active
<1>4. QED
  BY <1>1, <1>2, <1>3

LEMMA BusyCancelStep ==
  ASSUME IInv, ApartInv, BusyIffActive, NEW r \in Reqs, CancelCommit(r) \/ TimeoutWrite(r)
  PROVE  BusyIffActive'
<1>1. CASE CancelCommit(r)
  <2>1. PICK t \in Trips :
          /\ t = req[r].trip
          /\ req[r].driver = IF trip[t].status \in Active THEN trip[t].driver ELSE Nil
    BY <1>1 DEF CancelCommit, IInv, RequestsOK, RequestOK, ApartInv, CallFresh
  <2>2. trip[t] \in TripRow /\ online \in [Drivers -> OnlineStatus]
    BY DEF IInv, TypeOK
  <2>3. /\ trip'[t].status = "cancelled"
        /\ \A u \in Trips : u # t => trip'[u] = trip[u]
        /\ \A e \in Drivers : online'[e] = IF e = req[r].driver THEN "online" ELSE online[e]
    BY <1>1, <2>1, <2>2 DEF CancelCommit, CancelledRow, TripRow, IInv, TypeOK
  <2>4. CASE trip[t].status \in Active
    <3>1. \A u \in Trips : u # t /\ trip[u].driver = trip[t].driver => trip[u].status \notin Active
      BY <2>4 DEF ApartInv, OneActiveTripPerDriver
    <3>2. QED
      BY <2>1, <2>3, <2>4, <3>1 DEF BusyIffActive, DriverBusy, Active
  <2>5. CASE trip[t].status \notin Active
    BY <2>1, <2>3, <2>5 DEF BusyIffActive, DriverBusy, Active
  <2>6. QED
    BY <2>4, <2>5
<1>2. CASE TimeoutWrite(r)
  <2>1. PICK t \in Trips : t = req[r].trip /\ trip[t].status = "requested"
    BY <1>2 DEF TimeoutWrite, IInv, RequestsOK, RequestOK, ApartInv, CallFresh
  <2>2. trip[t] \in TripRow /\ UNCHANGED online
    BY <1>2 DEF TimeoutWrite, IInv, TypeOK
  <2>3. /\ trip'[t].status = "cancelled"
        /\ \A u \in Trips : u # t => trip'[u] = trip[u]
    BY <1>2, <2>1, <2>2 DEF TimeoutWrite, CancelledRow, TripRow, IInv, TypeOK
  <2>4. QED
    BY <2>1, <2>2, <2>3, BusyUnmoved DEF Active
<1>3. QED
  BY <1>1, <1>2

LEMMA BusyStep ==
  ASSUME IInv, ApartInv, BusyIffActive, [Next]_vars, [LeavesBusy]_vars
  PROVE  BusyIffActive'
<1>1. ASSUME UNCHANGED <<trip, online>> PROVE BusyIffActive'
  BY <1>1 DEF BusyIffActive, DriverBusy
<1>2. ASSUME NEW r \in Reqs, ClientStep(r) PROVE BusyIffActive'
  BY <1>1, <1>2, NoTripWritten, BusyClientStep DEF ClientStep
<1>3. ASSUME NEW r \in Reqs, SelectStep(r) PROVE BusyIffActive'
  BY <1>1, <1>3, NoTripWritten, BusySelectCommit DEF SelectStep
<1>4. ASSUME NEW r \in Reqs, DriverStep(r) PROVE BusyIffActive'
  BY <1>1, <1>4, NoTripWritten, BusyDriverStep DEF DriverStep
<1>5. ASSUME NEW r \in Reqs, CancelStep(r) PROVE BusyIffActive'
  BY <1>1, <1>5, NoTripWritten, BusyCancelStep DEF CancelStep
<1>6. CASE Other
  <2>1. ASSUME NEW r \in Reqs, Fail(r) \/ PoolExhausted(r) PROVE BusyIffActive'
    BY <1>1, <2>1, NoTripWritten
  <2>2. ASSUME Crash \/ (\E t \in Trips : TimeoutSkip(t))
               \/ (\E d \in Drivers : CheckIn(d) \/ CheckOut(d))
        PROVE  BusyIffActive'
    BY <1>1, <2>2 DEF Crash, TimeoutSkip, CheckIn, CheckOut, tables
  <2>3. ASSUME NEW d \in Drivers, NEW st \in OnlineStatus, SetOnlineStatus(d, st)
        PROVE  BusyIffActive'
    <3>1. online \in [Drivers -> OnlineStatus]
      BY DEF IInv, TypeOK
    <3>2. CASE LeavesBusy
      <4>1. st # "busy" /\ online[d] # "busy"
        BY <2>3, <3>2 DEF LeavesBusy
      <4>2. \A e \in Drivers : online'[e] = IF e = d THEN st ELSE online[e]
        BY <2>3, <3>1 DEF SetOnlineStatus
      <4>3. UNCHANGED trip
        BY <2>3 DEF SetOnlineStatus
      <4>4. QED
        BY <4>1, <4>2, <4>3 DEF BusyIffActive, DriverBusy
    <3>3. CASE UNCHANGED vars
      BY <1>1, <3>3 DEF vars
    <3>4. QED
      BY <3>2, <3>3
  <2>4. QED
    BY <1>6, <2>1, <2>2, <2>3 DEF Other
<1>7. QED
  BY <1>1, <1>2, <1>3, <1>4, <1>5, <1>6 DEF Next, vars

(* Assignment makes the driver BUSY and every ending of the trip frees him: as
   long as calls stay apart and drivers neither set BUSY nor leave it by
   themselves, BUSY means having an active trip. *)
THEOREM BusyMeansActive == ApartSpec /\ [][LeavesBusy]_vars => []BusyIffActive
<1>1. Init => BusyIffActive
  BY DEF Init, BusyIffActive, DriverBusy, NoTrip, Active
<1>2. IInv /\ ApartInv /\ BusyIffActive /\ [Next]_vars /\ [LeavesBusy]_vars => BusyIffActive'
  BY BusyStep
<1>3. ApartSpec => Init /\ [][Next]_vars
  BY ApartIsSpec DEF Spec
<1>4. QED
  BY <1>1, <1>2, <1>3, ApartInvariance, PTL

-----------------------------------------------------------------------------
(* The state diagram *)

\* The rows as the diagram sees them.
Statuses == [t \in Trips |-> trip[t].status]
Assigned == [t \in Trips |-> trip[t].driver]
Cancellers == [t \in Trips |-> trip[t].cancelledBy]

\* One trip changes its status, and nothing else the diagram shows.
LEMMA LifecycleMove ==
  ASSUME NEW t \in Trips, \A u \in Trips : u # t => trip'[u] = trip[u],
         trip'[t].driver = trip[t].driver, trip'[t].cancelledBy = trip[t].cancelledBy,
         \/ trip[t].status = "none" /\ trip'[t].status = "requested"
         \/ trip[t].status = "accepted" /\ trip'[t].status = "driver_arrived"
         \/ trip[t].status \in {"accepted", "driver_arrived"} /\ trip'[t].status = "in_progress"
         \/ trip[t].status = "in_progress" /\ trip'[t].status = "completed"
  PROVE  Lifecycle!LifecycleNext
<1>1. Statuses' = [Statuses EXCEPT ![t] = trip'[t].status] /\ Statuses[t] = trip[t].status
  BY DEF Statuses
<1>2. Assigned' = Assigned /\ Cancellers' = Cancellers
  BY DEF Assigned, Cancellers
<1>3. \/ Lifecycle!Requested(t) \/ Lifecycle!Arrived(t) \/ Lifecycle!Started(t)
      \/ Lifecycle!Completed(t)
  BY <1>1, <1>2 DEF Lifecycle!Requested, Lifecycle!Arrived, Lifecycle!Started,
                    Lifecycle!Completed, Lifecycle!Become, Statuses, Assigned, Cancellers
<1>4. QED
  BY <1>3 DEF Lifecycle!LifecycleNext

\* One trip is cancelled by somebody who may.
LEMMA LifecycleCancel ==
  ASSUME NEW t \in Trips, NEW by \in CancelledBy,
         \A u \in Trips : u # t => trip'[u] = trip[u],
         trip'[t].status = "cancelled", trip'[t].cancelledBy = by,
         trip'[t].driver = trip[t].driver,
         \/ by = "no_drivers" /\ trip[t].status = "requested"
         \/ by # "no_drivers" /\ MayCancel(trip[t], by)
  PROVE  Lifecycle!LifecycleNext
<1>1. Statuses' = [Statuses EXCEPT ![t] = "cancelled"] /\ Statuses[t] = trip[t].status
  BY DEF Statuses
<1>2. Cancellers' = [Cancellers EXCEPT ![t] = by]
  BY DEF Cancellers
<1>3. Assigned' = Assigned
  BY DEF Assigned
<1>4. Lifecycle!Cancelled(t, by)
  <2>1. CASE by = "no_drivers"
    BY <1>1, <1>2, <1>3, <2>1
       DEF Lifecycle!Cancelled, Lifecycle!Become, Statuses, Cancellers, Assigned
  <2>2. CASE by = "staff"
    BY <1>1, <1>2, <1>3, <2>2
       DEF Lifecycle!Cancelled, Lifecycle!Become, Statuses, Cancellers, Assigned,
           MayCancel, Live, Active
  <2>3. CASE by \in {"client", "driver"}
    BY <1>1, <1>2, <1>3, <2>3
       DEF Lifecycle!Cancelled, Lifecycle!Become, Statuses, Cancellers, Assigned,
           MayCancel, Live, Active
  <2>4. QED
    BY <2>1, <2>2, <2>3
<1>5. QED
  BY <1>4 DEF Lifecycle!LifecycleNext

LEMMA CancelledRowKeeps ==
  ASSUME IInv, NEW t \in Trips, NEW by \in CancelledBy,
         trip' = [trip EXCEPT ![t] = CancelledRow(@, by)]
  PROVE  /\ trip'[t].status = "cancelled" /\ trip'[t].cancelledBy = by
         /\ trip'[t].driver = trip[t].driver
         /\ \A u \in Trips : u # t => trip'[u] = trip[u]
<1>1. trip[t] \in TripRow
  BY DEF IInv, TypeOK
<1>2. QED
  BY <1>1 DEF CancelledRow, TripRow, IInv, TypeOK

LEMMA LifecycleInsert ==
  ASSUME IInv, ApartInv, NEW r \in Reqs, InsertTrip(r) \/ CreateWalkIn(r)
  PROVE  Lifecycle!LifecycleNext
<1>1. PICK t \in Trips : trip[t].status = "none" /\ \E c : trip' = [trip EXCEPT ![t] = RequestedRow(c)]
  BY DEF InsertTrip, CreateWalkIn
<1>2. trip[t] = NoTrip
  BY <1>1 DEF ApartInv, UnusedBlank
<1>3. /\ trip'[t].status = "requested" /\ trip'[t].driver = trip[t].driver
      /\ trip'[t].cancelledBy = trip[t].cancelledBy
      /\ \A u \in Trips : u # t => trip'[u] = trip[u]
  BY <1>1, <1>2 DEF IInv, TypeOK, RequestedRow, NoTrip
<1>4. QED
  BY <1>1, <1>3, LifecycleMove

LEMMA LifecycleSelect ==
  ASSUME IInv, ApartInv, NEW r \in Reqs, SelectCommit(r)
  PROVE  Lifecycle!LifecycleNext
<1>1. PICK t \in Trips, d \in Drivers :
        t = req[r].trip /\ d = req[r].driver /\ trip[t].status = "requested"
  BY DEF SelectCommit, IInv, RequestsOK, RequestOK, Holds
<1>2. trip[t] \in TripRow /\ \A u \in Trips : trip[u].status \in TripStatus
  BY DEF IInv, TypeOK, TripRow
<1>3. /\ trip'[t].status = "accepted" /\ trip'[t].driver = d
      /\ trip'[t].cancelledBy = trip[t].cancelledBy
      /\ \A u \in Trips : u # t => trip'[u] = trip[u]
  BY <1>1, <1>2 DEF SelectCommit, AcceptedRow, TripRow, IInv, TypeOK
<1>4. ~DriverBusy(d)
  BY <1>1 DEF SelectCommit, Holds, ApartInv, CallFresh
<1>5. \A u \in Trips : trip[u].driver = d => trip[u].status \in {"completed", "cancelled"}
  BY <1>2, <1>4 DEF DriverBusy, IInv, TripsOK, TripOK, Active, TripStatus
<1>6. /\ Statuses' = [Statuses EXCEPT ![t] = "accepted"] /\ Statuses[t] = "requested"
      /\ Assigned' = [Assigned EXCEPT ![t] = d] /\ Cancellers' = Cancellers
      /\ \A u \in Trips : Assigned[u] = d => Statuses[u] \in {"completed", "cancelled"}
  BY <1>1, <1>3, <1>5 DEF Statuses, Assigned, Cancellers
<1>7. Lifecycle!Accepted(t, d)
  BY <1>6 DEF Lifecycle!Accepted, Lifecycle!Become, Statuses, Assigned, Cancellers
<1>8. QED
  BY <1>7 DEF Lifecycle!LifecycleNext

LEMMA LifecycleRide ==
  ASSUME IInv, ApartInv, NEW r \in Reqs,
         \/ \E t \in Trips : StartTrip(r, t)
         \/ ArriveWrite(r) \/ CompleteCommit(r)
  PROVE  Lifecycle!LifecycleNext
<1>1. ASSUME NEW t \in Trips, StartTrip(r, t) PROVE Lifecycle!LifecycleNext
  <2>1. trip[t] \in TripRow /\ trip[t].status \in {"accepted", "driver_arrived"}
    BY <1>1 DEF StartTrip, IInv, TypeOK
  <2>2. /\ trip'[t].status = "in_progress" /\ trip'[t].driver = trip[t].driver
        /\ trip'[t].cancelledBy = trip[t].cancelledBy
        /\ \A u \in Trips : u # t => trip'[u] = trip[u]
    BY <1>1, <2>1 DEF StartTrip, StartedRow, TripRow, IInv, TypeOK
  <2>3. QED
    BY <2>1, <2>2, LifecycleMove
<1>2. ASSUME ArriveWrite(r) PROVE Lifecycle!LifecycleNext
  <2>1. PICK t \in Trips : t = req[r].trip /\ trip[t].status = "accepted"
    BY <1>2 DEF ArriveWrite, IInv, RequestsOK, RequestOK, ApartInv, CallFresh
  <2>2. trip[t] \in TripRow
    BY DEF IInv, TypeOK
  <2>3. /\ trip'[t].status = "driver_arrived" /\ trip'[t].driver = trip[t].driver
        /\ trip'[t].cancelledBy = trip[t].cancelledBy
        /\ \A u \in Trips : u # t => trip'[u] = trip[u]
    BY <1>2, <2>1, <2>2 DEF ArriveWrite, TripRow, IInv, TypeOK
  <2>4. QED
    BY <2>1, <2>3, LifecycleMove
<1>3. ASSUME CompleteCommit(r) PROVE Lifecycle!LifecycleNext
  <2>1. PICK t \in Trips : t = req[r].trip /\ trip[t].status = "in_progress"
    BY <1>3 DEF CompleteCommit, IInv, RequestsOK, RequestOK, ApartInv, CallFresh
  <2>2. trip[t] \in TripRow
    BY DEF IInv, TypeOK
  <2>3. /\ trip'[t].status = "completed" /\ trip'[t].driver = trip[t].driver
        /\ trip'[t].cancelledBy = trip[t].cancelledBy
        /\ \A u \in Trips : u # t => trip'[u] = trip[u]
    BY <1>3, <2>1, <2>2 DEF CompleteCommit, TripRow, IInv, TypeOK
  <2>4. QED
    BY <2>1, <2>3, LifecycleMove
<1>4. QED
  BY <1>1, <1>2, <1>3

LEMMA LifecycleEnd ==
  ASSUME IInv, ApartInv, NEW r \in Reqs, CancelCommit(r) \/ TimeoutWrite(r)
  PROVE  Lifecycle!LifecycleNext
<1>1. CASE CancelCommit(r)
  <2>1. PICK t \in Trips, by \in CancelledBy :
          /\ t = req[r].trip /\ by = req[r].by
          /\ by # "no_drivers" /\ MayCancel(trip[t], by)
    BY <1>1 DEF CancelCommit, IInv, RequestsOK, RequestOK, ApartInv, CallFresh
  <2>2. trip' = [trip EXCEPT ![t] = CancelledRow(@, by)]
    BY <1>1, <2>1 DEF CancelCommit
  <2>3. /\ trip'[t].status = "cancelled" /\ trip'[t].cancelledBy = by
        /\ trip'[t].driver = trip[t].driver
        /\ \A u \in Trips : u # t => trip'[u] = trip[u]
    BY <2>2, CancelledRowKeeps
  <2>4. QED
    BY <2>1, <2>3, LifecycleCancel
<1>2. CASE TimeoutWrite(r)
  <2>1. PICK t \in Trips : t = req[r].trip /\ trip[t].status = "requested"
    BY <1>2 DEF TimeoutWrite, IInv, RequestsOK, RequestOK, ApartInv, CallFresh
  <2>2. QED
    BY <1>2, <2>1, CancelledRowKeeps, LifecycleCancel DEF TimeoutWrite
<1>3. QED
  BY <1>1, <1>2

LEMMA LifecycleStep ==
  ASSUME IInv, ApartInv, [Next]_vars
  PROVE  [Lifecycle!LifecycleNext]_(Lifecycle!lifecycleVars)
<1>1. ASSUME UNCHANGED trip PROVE UNCHANGED Lifecycle!lifecycleVars
  BY <1>1 DEF Lifecycle!lifecycleVars
<1>2. ASSUME NEW r \in Reqs, ClientStep(r)
      PROVE  Lifecycle!LifecycleNext \/ UNCHANGED trip
  BY <1>2, NoTripWritten, LifecycleInsert DEF ClientStep
<1>3. ASSUME NEW r \in Reqs, SelectStep(r)
      PROVE  Lifecycle!LifecycleNext \/ UNCHANGED trip
  BY <1>3, NoTripWritten, LifecycleSelect DEF SelectStep
<1>4. ASSUME NEW r \in Reqs, DriverStep(r)
      PROVE  Lifecycle!LifecycleNext \/ UNCHANGED trip
  BY <1>4, NoTripWritten, LifecycleRide DEF DriverStep
<1>5. ASSUME NEW r \in Reqs, CancelStep(r)
      PROVE  Lifecycle!LifecycleNext \/ UNCHANGED trip
  BY <1>5, NoTripWritten, LifecycleEnd DEF CancelStep
<1>6. ASSUME Other PROVE UNCHANGED trip
  BY <1>6 DEF Other, tables, TimeoutSkip, SetOnlineStatus, CheckIn, CheckOut, Fail,
              PoolExhausted, Crash
<1>7. QED
  BY <1>1, <1>2, <1>3, <1>4, <1>5, <1>6 DEF Next, vars

(* Every change of a trip is an arrow of the documented diagram, by somebody
   the documentation allows, as long as calls stay apart. *)
THEOREM ImplementsLifecycle == ApartSpec => FollowsLifecycle
<1>1. Init => Lifecycle!LifecycleInit
  BY DEF Init, Lifecycle!LifecycleInit, NoTrip
<1>2. IInv /\ ApartInv /\ [Next]_vars => [Lifecycle!LifecycleNext]_(Lifecycle!lifecycleVars)
  BY LifecycleStep
<1>3. ApartSpec => Init /\ [][Next]_vars
  BY ApartIsSpec DEF Spec
<1>4. QED
  BY <1>1, <1>2, <1>3, ApartInvariance, PTL DEF FollowsLifecycle, Lifecycle!LifecycleSpec

(* One call at a time stays apart. *)
THEOREM SerialIsApart ==
  ASSUME \A r, s \in Reqs : r = s
  PROVE  Spec => ApartSpec
<1>1. Apart'
  BY DEF Apart
<1>2. ASSUME Next PROVE StartsApart
  BY DEF StartsApart, StartTrip, Writes, Holds, Idle
<1>3. [Next]_vars => [Next /\ StartsApart /\ Apart']_vars
  BY <1>1, <1>2
<1>4. QED
  BY <1>3, PTL DEF Spec, ApartSpec
=============================================================================
