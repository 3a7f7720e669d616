-------------------------------- MODULE Search --------------------------------
(***************************************************************************)
(* A negotiated request looking for a driver: the price the client asks    *)
(* and the drivers' quotes (trips.service.ts), and the search radius that  *)
(* the scheduler (trips.scheduler.ts) and the queue's job                  *)
(* (trip-expansion.processor.ts) both widen.  Trips has who gets the ride; *)
(* here it is the price and the radius.                                    *)
(*                                                                         *)
(* Prices are counted in steps of 0.25 and the radius in steps of the      *)
(* configuration.  Each step is one statement; a call in flight is a slot  *)
(* of searchReq, and one slot means no concurrency.                        *)
(***************************************************************************)
EXTENDS Naturals

CONSTANTS
  Bidders,        \* drivers
  SearchReqs,     \* slots for calls in flight
  Suggested,      \* suggested_fare
  ClientFloor,    \* the lowest price setOffer and decrementOffer allow
  DriverFloor,    \* the lowest amount createTrip and makeOffer allow
  MaxPrice,       \* bound: the highest price asked or quoted
  FirstRadius, WidenBy, MaxRadius

ASSUME SearchAssumption ==
  /\ Suggested \in Nat /\ ClientFloor \in Nat /\ DriverFloor \in Nat /\ MaxPrice \in Nat
  /\ DriverFloor <= ClientFloor /\ ClientFloor <= Suggested /\ Suggested <= MaxPrice
  /\ FirstRadius \in Nat /\ WidenBy \in Nat \ {0} /\ MaxRadius \in Nat
  /\ FirstRadius <= MaxRadius

VARIABLES
  request,     \* the trip: status, client_offer, agreed_fare, search radius
  overdue,     \* the expansion interval has passed since radius_last_expanded_at
  quote,       \* trip_offers, the last one of each driver
  expandJob,   \* the queue's expansion job has yet to run
  searchReq    \* calls in flight

searchVars == <<request, overdue, quote, expandJob, searchReq>>

RequestRow == [status : {"requested", "accepted", "cancelled"}, price : Nat, agreed : Nat,
               radius : 0..MaxRadius]
Quote == [status : {"none", "pending", "accepted", "rejected"}, amount : Nat]
SearchCall ==
  {[op |-> "idle"]}
    \cup [op : {"count", "price"}, price : Nat]
    \cup [op : {"quote"}, driver : Bidders, amount : Nat]
    \cup [op : {"recheck", "widen"}, radius : 0..MaxRadius]

SearchBegin(r, call) == searchReq[r].op = "idle" /\ searchReq' = [searchReq EXCEPT ![r] = call]
SearchStep(r, call) == searchReq' = [searchReq EXCEPT ![r] = call]
SearchEnd(r) == SearchStep(r, [op |-> "idle"])
SearchIdle(r) == searchReq[r].op = "idle" /\ UNCHANGED searchReq
Pending == {d \in Bidders : quote[d].status = "pending"}

SearchInit ==
  /\ \E price \in DriverFloor..Suggested :
       request = [status |-> "requested", price |-> price, agreed |-> 0, radius |-> FirstRadius]
  /\ overdue = FALSE
  /\ quote = [d \in Bidders |-> [status |-> "none", amount |-> 0]]
  /\ expandJob = TRUE
  /\ searchReq = [r \in SearchReqs |-> [op |-> "idle"]]

-----------------------------------------------------------------------------
(* The price: each handler reads the trip, then counts the pending quotes,
   then writes. *)

AskPrice(r, price) ==
  /\ request.status = "requested"
  /\ SearchBegin(r, [op |-> "count", price |-> price])
  /\ UNCHANGED <<request, overdue, quote, expandJob>>

IncrementOffer(r) == request.price < MaxPrice /\ AskPrice(r, request.price + 1)

SetOffer(r) == \E price \in ClientFloor..MaxPrice : AskPrice(r, price)

\* Mutant: the price is lowered without looking at the floor.
DecrementOfferUnchecked(r) == request.price > 0 /\ AskPrice(r, request.price - 1)

DecrementOffer(r) == request.price > ClientFloor /\ AskPrice(r, request.price - 1)

\* Mutant: quotes that are waiting for an answer are not counted.
CountPendingIgnored(r) ==
  /\ searchReq[r].op = "count"
  /\ SearchStep(r, [searchReq[r] EXCEPT !.op = "price"])
  /\ UNCHANGED <<request, overdue, quote, expandJob>>

CountPending(r) ==
  /\ searchReq[r].op = "count"
  /\ IF Pending = {} THEN SearchStep(r, [searchReq[r] EXCEPT !.op = "price"]) ELSE SearchEnd(r)
  /\ UNCHANGED <<request, overdue, quote, expandJob>>

WritePrice(r) ==
  /\ searchReq[r].op = "price"
  /\ request' = [request EXCEPT !.price = searchReq[r].price]
  /\ SearchEnd(r)
  /\ UNCHANGED <<overdue, quote, expandJob>>

(* makeOffer: the driver names an amount or takes the client's price. *)
MakeQuote(r, d) ==
  /\ request.status = "requested"
  /\ \E amount \in (DriverFloor..MaxPrice) \cup {request.price} :
       SearchBegin(r, [op |-> "quote", driver |-> d, amount |-> amount])
  /\ UNCHANGED <<request, overdue, quote, expandJob>>

WriteQuote(r) ==
  /\ searchReq[r].op = "quote"
  /\ quote' = [quote EXCEPT ![searchReq[r].driver] =
                 [status |-> "pending", amount |-> searchReq[r].amount]]
  /\ SearchEnd(r)
  /\ UNCHANGED <<request, overdue, expandJob>>

RejectQuote(r, d) ==
  /\ SearchIdle(r)
  /\ quote[d].status = "pending"
  /\ quote' = [quote EXCEPT ![d].status = "rejected"]
  /\ UNCHANGED <<request, overdue, expandJob>>

(* selectOffer, one transaction under the lock of the trip. *)
SelectQuote(r, d) ==
  /\ SearchIdle(r)
  /\ request.status = "requested"
  /\ quote[d].status = "pending"
  /\ request' = [request EXCEPT !.status = "accepted", !.agreed = quote[d].amount]
  /\ quote' = [b \in Bidders |->
                 IF b = d THEN [quote[b] EXCEPT !.status = "accepted"]
                 ELSE IF quote[b].status = "pending" THEN [quote[b] EXCEPT !.status = "rejected"]
                 ELSE quote[b]]
  /\ UNCHANGED <<overdue, expandJob>>

(* cancelTrip or the timeout job. *)
CancelRequest(r) ==
  /\ SearchIdle(r)
  /\ request.status = "requested"
  /\ request' = [request EXCEPT !.status = "cancelled"]
  /\ UNCHANGED <<overdue, quote, expandJob>>

-----------------------------------------------------------------------------
(* The radius *)

IntervalPasses ==
  /\ ~overdue
  /\ overdue' = TRUE
  /\ UNCHANGED <<request, quote, expandJob, searchReq>>

\* Mutant: the step is added without the ceiling.
WidenedUncapped == request.radius + WidenBy

Widened == IF request.radius + WidenBy <= MaxRadius THEN request.radius + WidenBy ELSE MaxRadius

(* expandSearchRadii, for this trip. *)
ExpandSearchRadii(r) ==
  /\ request.status = "requested"
  /\ request.radius < MaxRadius
  /\ overdue
  /\ SearchBegin(r, [op |-> "recheck", radius |-> Widened])
  /\ UNCHANGED <<request, overdue, quote, expandJob>>

(* The job does not look at when the radius last grew. *)
ProcessExpandJob(r) ==
  /\ expandJob
  /\ expandJob' = FALSE
  /\ IF request.status = "requested" /\ request.radius < MaxRadius
     THEN SearchBegin(r, [op |-> "recheck", radius |-> Widened])
     ELSE SearchIdle(r)
  /\ UNCHANGED <<request, overdue, quote>>

RecheckStatus(r) ==
  /\ searchReq[r].op = "recheck"
  /\ IF request.status = "requested" THEN SearchStep(r, [searchReq[r] EXCEPT !.op = "widen"])
                                     ELSE SearchEnd(r)
  /\ UNCHANGED <<request, overdue, quote, expandJob>>

\* Mutant: the radius is announced and never written.
WriteRadiusForgotten(r) ==
  /\ searchReq[r].op = "widen"
  /\ overdue' = FALSE
  /\ SearchEnd(r)
  /\ UNCHANGED <<request, quote, expandJob>>

WriteRadius(r) ==
  /\ searchReq[r].op = "widen"
  /\ request' = [request EXCEPT !.radius = searchReq[r].radius]
  /\ overdue' = FALSE
  /\ SearchEnd(r)
  /\ UNCHANGED <<quote, expandJob>>

-----------------------------------------------------------------------------
SearchOnward(r) ==
  CountPending(r) \/ WritePrice(r) \/ WriteQuote(r) \/ RecheckStatus(r) \/ WriteRadius(r)

SearchNext ==
  \/ \E r \in SearchReqs :
       \/ IncrementOffer(r) \/ SetOffer(r) \/ DecrementOffer(r)
       \/ \E d \in Bidders : MakeQuote(r, d) \/ RejectQuote(r, d) \/ SelectQuote(r, d)
       \/ CancelRequest(r)
       \/ ExpandSearchRadii(r) \/ ProcessExpandJob(r)
       \/ SearchOnward(r)
  \/ IntervalPasses

SearchSpec == SearchInit /\ [][SearchNext]_searchVars

(* Time passes, the scheduler runs every five seconds and calls end.  The
   scheduler runs whatever else is in flight, hence SF: other calls take the
   slot and leave it again. *)
SearchFairness ==
  /\ WF_searchVars(IntervalPasses)
  /\ \A r \in SearchReqs : /\ WF_searchVars(SearchOnward(r))
                           /\ SF_searchVars(ExpandSearchRadii(r))

SearchFairSpec == SearchSpec /\ SearchFairness

PriceCalls == {"count", "price"}
RadiusCalls == {"recheck", "widen"}

(* Calls that stay apart: no change of the price with a quote being made or with
   the end of the search, and never the scheduler's widening with the queue's. *)
SearchApart ==
  /\ \A r \in SearchReqs : searchReq[r].op \in PriceCalls =>
       /\ request.status = "requested"
       /\ \A s \in SearchReqs : searchReq[s].op # "quote"
  /\ \A r, s \in SearchReqs :
       searchReq[r].op \in RadiusCalls /\ searchReq[s].op \in RadiusCalls => r = s

SearchApartSpec == SearchInit /\ [][SearchNext /\ SearchApart']_searchVars

-----------------------------------------------------------------------------
(* Properties *)

(* Rows and calls stay within their columns. *)
SearchTypeOK ==
  /\ request \in RequestRow
  /\ overdue \in BOOLEAN
  /\ quote \in [Bidders -> Quote]
  /\ expandJob \in BOOLEAN
  /\ searchReq \in [SearchReqs -> SearchCall]

(* No sequence of raises, cuts and quotes brings the client's price or the
   agreed fare below what the platform allows, whatever the drivers take. *)
FaresAboveFloor ==
  /\ request.price >= DriverFloor
  /\ request.status = "accepted" => request.agreed >= DriverFloor

(* "Tienes ofertas de conductores pendientes. Selecciona una": what a driver
   quoted on is not changed under him, nor is the price of a settled request;
   and the two timers that widen the search neither shrink it nor pass the
   maximum. *)
SearchKeeps ==
  [][/\ Pending # {} \/ request.status # "requested" => request'.price = request.price
     /\ request'.radius \in request.radius..MaxRadius]_searchVars

(* A request that finds nobody for an interval is shown ever farther, up to
   the maximum. *)
SearchReachesAll == overdue ~> (request.radius = MaxRadius \/ request.status # "requested")
=============================================================================
