------------------------------ MODULE FareProofs ------------------------------
(***************************************************************************)
(* Proofs about what a ride costs and what becomes of the money: Search,   *)
(* where the price is made, Rides, where the meter runs, and Cards, where  *)
(* the fare is charged. Of any number of drivers, trips, pings and calls   *)
(* in flight, in any order.                                                *)
(***************************************************************************)
EXTENDS Search, Rides, Cards, FiniteSetTheorems, TLAPS

-----------------------------------------------------------------------------
(* Search: prices and quotes *)

USE SearchAssumption

(* What a call carries was checked against the floor when it began. *)
CallsAboveFloor ==
  \A r \in SearchReqs :
    /\ searchReq[r].op \in {"count", "price"} => searchReq[r].price >= DriverFloor
    /\ searchReq[r].op = "quote" => searchReq[r].amount >= DriverFloor

QuotesAboveFloor ==
  \A d \in Bidders : quote[d].status # "none" => quote[d].amount >= DriverFloor

SearchIInv == SearchTypeOK /\ CallsAboveFloor /\ QuotesAboveFloor /\ FaresAboveFloor

LEMMA SearchInitIInv == SearchInit => SearchIInv
<1> SUFFICES ASSUME SearchInit PROVE SearchIInv
  OBVIOUS
<1> USE DEF SearchInit
<1>1. request \in RequestRow /\ request.price >= DriverFloor /\ request.status = "requested"
  BY DEF RequestRow
<1>2. quote \in [Bidders -> Quote] /\ \A d \in Bidders : quote[d].status = "none"
  BY DEF Quote
<1>3. searchReq \in [SearchReqs -> SearchCall] /\ \A r \in SearchReqs : searchReq[r].op = "idle"
  BY DEF SearchCall
<1>4. QED
  BY <1>1, <1>2, <1>3
  DEF SearchIInv, SearchTypeOK, CallsAboveFloor, QuotesAboveFloor, FaresAboveFloor

(* A slot is given a call that carries nothing under the floor. *)
CallAboveFloor(call) ==
  /\ call \in SearchCall
  /\ call.op \in {"count", "price"} => call.price >= DriverFloor
  /\ call.op = "quote" => call.amount >= DriverFloor

LEMMA SlotStep ==
  ASSUME SearchIInv, NEW r \in SearchReqs, NEW call, CallAboveFloor(call), SearchStep(r, call)
  PROVE  searchReq' \in [SearchReqs -> SearchCall] /\ CallsAboveFloor'
BY DEF SearchIInv, SearchTypeOK, CallsAboveFloor, CallAboveFloor, SearchStep

(* A slot that is freed. *)
LEMMA SlotEnd ==
  ASSUME SearchIInv, NEW r \in SearchReqs, SearchEnd(r)
  PROVE  searchReq' \in [SearchReqs -> SearchCall] /\ CallsAboveFloor'
<1>1. CallAboveFloor([op |-> "idle"])
  BY DEF CallAboveFloor, SearchCall
<1>2. QED
  BY <1>1, SlotStep DEF SearchEnd

LEMMA SlotIdle ==
  ASSUME SearchIInv, UNCHANGED searchReq
  PROVE  searchReq' \in [SearchReqs -> SearchCall] /\ CallsAboveFloor'
BY DEF SearchIInv, SearchTypeOK, CallsAboveFloor

(* What a step leaves alone stays as it was. *)
LEMMA RestKept ==
  ASSUME SearchIInv
  PROVE  /\ UNCHANGED request => request' \in RequestRow /\ FaresAboveFloor'
         /\ UNCHANGED quote => quote' \in [Bidders -> Quote] /\ QuotesAboveFloor'
         /\ UNCHANGED overdue => overdue' \in BOOLEAN
         /\ UNCHANGED expandJob => expandJob' \in BOOLEAN
BY DEF SearchIInv, SearchTypeOK, FaresAboveFloor, QuotesAboveFloor

LEMMA AskPriceIInv ==
  ASSUME SearchIInv, NEW r \in SearchReqs, NEW price \in Nat, price >= DriverFloor,
         AskPrice(r, price)
  PROVE  SearchIInv'
<1> DEFINE call == [op |-> "count", price |-> price]
<1>1. CallAboveFloor(call)
  BY DEF CallAboveFloor, SearchCall
<1>2. SearchStep(r, call) /\ UNCHANGED <<request, overdue, quote, expandJob>>
  BY DEF AskPrice, SearchBegin, SearchStep
<1>3. QED
  BY <1>1, <1>2, SlotStep, RestKept DEF SearchIInv, SearchTypeOK

LEMMA SearchNextIInv == SearchIInv /\ [SearchNext]_searchVars => SearchIInv'
<1> SUFFICES ASSUME SearchIInv, [SearchNext]_searchVars PROVE SearchIInv'
  OBVIOUS
<1>t. /\ request \in RequestRow /\ quote \in [Bidders -> Quote]
      /\ overdue \in BOOLEAN /\ expandJob \in BOOLEAN
      /\ searchReq \in [SearchReqs -> SearchCall]
  BY DEF SearchIInv, SearchTypeOK
<1>f. /\ request.price \in Nat /\ request.agreed \in Nat /\ request.radius \in 0..MaxRadius
      /\ request.status \in {"requested", "accepted", "cancelled"}
      /\ request.price >= DriverFloor
      /\ request.status = "accepted" => request.agreed >= DriverFloor
  BY <1>t DEF SearchIInv, FaresAboveFloor, RequestRow
<1>1. ASSUME NEW r \in SearchReqs, IncrementOffer(r) PROVE SearchIInv'
  BY <1>1, <1>f, AskPriceIInv DEF IncrementOffer
<1>2. ASSUME NEW r \in SearchReqs, SetOffer(r) PROVE SearchIInv'
  <2>1. PICK price \in ClientFloor..MaxPrice : AskPrice(r, price)
    BY <1>2 DEF SetOffer
  <2>2. QED
    BY <2>1, AskPriceIInv
<1>3. ASSUME NEW r \in SearchReqs, DecrementOffer(r) PROVE SearchIInv'
  <2>1. request.price - 1 \in Nat /\ request.price - 1 >= DriverFloor /\ AskPrice(r, request.price - 1)
    BY <1>3, <1>f DEF DecrementOffer
  <2>2. QED
    BY <2>1, AskPriceIInv
<1>4. ASSUME NEW r \in SearchReqs, NEW d \in Bidders, MakeQuote(r, d) PROVE SearchIInv'
  <2>1. PICK amount \in (DriverFloor..MaxPrice) \cup {request.price} :
          SearchBegin(r, [op |-> "quote", driver |-> d, amount |-> amount])
    BY <1>4 DEF MakeQuote
  <2> DEFINE call == [op |-> "quote", driver |-> d, amount |-> amount]
  <2>2. amount \in Nat /\ amount >= DriverFloor
    BY <1>f
  <2>3. CallAboveFloor(call) /\ SearchStep(r, call)
    BY <2>1, <2>2 DEF CallAboveFloor, SearchCall, SearchBegin, SearchStep
  <2>4. QED
    BY <1>4, <2>3, SlotStep, RestKept DEF MakeQuote, SearchIInv, SearchTypeOK
<1>5. ASSUME NEW r \in SearchReqs, NEW d \in Bidders, RejectQuote(r, d) PROVE SearchIInv'
  <2>1. quote' \in [Bidders -> Quote] /\ QuotesAboveFloor'
    BY <1>5, <1>t DEF RejectQuote, Quote, SearchIInv, QuotesAboveFloor
  <2>2. QED
    BY <1>5, <2>1, SlotIdle, RestKept DEF RejectQuote, SearchIdle, SearchIInv, SearchTypeOK
<1>6. ASSUME NEW r \in SearchReqs, NEW d \in Bidders, SelectQuote(r, d) PROVE SearchIInv'
  <2>1. quote[d].amount \in Nat /\ quote[d].amount >= DriverFloor
    BY <1>6, <1>t DEF SelectQuote, Quote, SearchIInv, QuotesAboveFloor
  <2>2. request' \in RequestRow /\ FaresAboveFloor'
    BY <1>6, <1>t, <1>f, <2>1 DEF SelectQuote, RequestRow, FaresAboveFloor
  <2>3. quote' \in [Bidders -> Quote] /\ QuotesAboveFloor'
    <3>1. ASSUME NEW b \in Bidders
          PROVE  quote'[b] \in Quote /\ (quote'[b].status # "none" => quote'[b].amount >= DriverFloor)
      BY <1>6, <1>t DEF SelectQuote, Quote, SearchIInv, QuotesAboveFloor
    <3>2. quote' = [b \in Bidders |-> quote'[b]]
      BY <1>6 DEF SelectQuote
    <3>3. QED
      BY <3>1, <3>2 DEF QuotesAboveFloor
  <2>4. QED
    BY <1>6, <2>2, <2>3, SlotIdle, RestKept DEF SelectQuote, SearchIdle, SearchIInv, SearchTypeOK
<1>7. ASSUME NEW r \in SearchReqs, CancelRequest(r) PROVE SearchIInv'
  <2>1. request' \in RequestRow /\ FaresAboveFloor'
    BY <1>7, <1>t, <1>f DEF CancelRequest, RequestRow, FaresAboveFloor
  <2>2. QED
    BY <1>7, <2>1, SlotIdle, RestKept DEF CancelRequest, SearchIdle, SearchIInv, SearchTypeOK
<1>w. Widened \in 0..MaxRadius
  BY <1>f DEF Widened
<1>r. CallAboveFloor([op |-> "recheck", radius |-> Widened])
  BY <1>w DEF CallAboveFloor, SearchCall
<1>8. ASSUME NEW r \in SearchReqs, ExpandSearchRadii(r) PROVE SearchIInv'
  <2>1. SearchStep(r, [op |-> "recheck", radius |-> Widened])
    BY <1>8 DEF ExpandSearchRadii, SearchBegin, SearchStep
  <2>2. QED
    BY <1>8, <1>r, <2>1, SlotStep, RestKept DEF ExpandSearchRadii, SearchIInv, SearchTypeOK
<1>9. ASSUME NEW r \in SearchReqs, ProcessExpandJob(r) PROVE SearchIInv'
  <2>1. SearchStep(r, [op |-> "recheck", radius |-> Widened]) \/ UNCHANGED searchReq
    BY <1>9 DEF ProcessExpandJob, SearchBegin, SearchStep, SearchIdle
  <2>2. searchReq' \in [SearchReqs -> SearchCall] /\ CallsAboveFloor'
    BY <1>r, <2>1, SlotStep, SlotIdle
  <2>3. QED
    BY <1>9, <2>2, RestKept DEF ProcessExpandJob, SearchIInv, SearchTypeOK
<1>10. ASSUME NEW r \in SearchReqs, SearchOnward(r) PROVE SearchIInv'
  <2>c. searchReq[r] \in SearchCall
    BY <1>t
  <2>1. CASE CountPending(r)
    <3>1. CallAboveFloor([searchReq[r] EXCEPT !.op = "price"])
      BY <2>1, <2>c DEF CountPending, CallAboveFloor, SearchCall, SearchIInv, CallsAboveFloor
    <3>2. SearchStep(r, [searchReq[r] EXCEPT !.op = "price"]) \/ SearchEnd(r)
      BY <2>1 DEF CountPending
    <3>3. searchReq' \in [SearchReqs -> SearchCall] /\ CallsAboveFloor'
      BY <3>1, <3>2, SlotStep, SlotEnd
    <3>4. QED
      BY <2>1, <3>3, RestKept DEF CountPending, SearchIInv, SearchTypeOK
  <2>2. CASE WritePrice(r)
    <3>1. searchReq[r].price \in Nat /\ searchReq[r].price >= DriverFloor
      BY <2>2, <2>c DEF WritePrice, SearchCall, SearchIInv, CallsAboveFloor
    <3>2. request' \in RequestRow /\ FaresAboveFloor'
      BY <2>2, <1>t, <1>f, <3>1 DEF WritePrice, RequestRow, FaresAboveFloor
    <3>3. QED
      BY <2>2, <3>2, SlotEnd, RestKept DEF WritePrice, SearchIInv, SearchTypeOK
  <2>3. CASE WriteQuote(r)
    <3>1. /\ searchReq[r].amount \in Nat /\ searchReq[r].amount >= DriverFloor
          /\ searchReq[r].driver \in Bidders
      BY <2>3, <2>c DEF WriteQuote, SearchCall, SearchIInv, CallsAboveFloor
    <3>2. quote' \in [Bidders -> Quote] /\ QuotesAboveFloor'
      BY <2>3, <1>t, <3>1 DEF WriteQuote, Quote, SearchIInv, QuotesAboveFloor
    <3>3. QED
      BY <2>3, <3>2, SlotEnd, RestKept DEF WriteQuote, SearchIInv, SearchTypeOK
  <2>4. CASE RecheckStatus(r)
    <3>1. CallAboveFloor([searchReq[r] EXCEPT !.op = "widen"])
      BY <2>4, <2>c DEF RecheckStatus, CallAboveFloor, SearchCall
    <3>2. SearchStep(r, [searchReq[r] EXCEPT !.op = "widen"]) \/ SearchEnd(r)
      BY <2>4 DEF RecheckStatus
    <3>3. searchReq' \in [SearchReqs -> SearchCall] /\ CallsAboveFloor'
      BY <3>1, <3>2, SlotStep, SlotEnd
    <3>4. QED
      BY <2>4, <3>3, RestKept DEF RecheckStatus, SearchIInv, SearchTypeOK
  <2>5. CASE WriteRadius(r)
    <3>1. searchReq[r].radius \in 0..MaxRadius
      BY <2>5, <2>c DEF WriteRadius, SearchCall
    <3>2. request' \in RequestRow /\ FaresAboveFloor'
      BY <2>5, <1>t, <1>f, <3>1 DEF WriteRadius, RequestRow, FaresAboveFloor
    <3>3. QED
      BY <2>5, <3>2, SlotEnd, RestKept DEF WriteRadius, SearchIInv, SearchTypeOK
  <2>6. QED
    BY <1>10, <2>1, <2>2, <2>3, <2>4, <2>5 DEF SearchOnward
<1>11. CASE IntervalPasses
  BY <1>11, SlotIdle, RestKept DEF IntervalPasses, SearchIInv, SearchTypeOK
<1>12. CASE UNCHANGED searchVars
  BY <1>12, SlotIdle, RestKept DEF searchVars, SearchIInv, SearchTypeOK
<1>13. QED
  BY <1>1, <1>2, <1>3, <1>4, <1>5, <1>6, <1>7, <1>8, <1>9, <1>10, <1>11, <1>12 DEF SearchNext

-----------------------------------------------------------------------------
(* Rows and calls of a negotiated request stay within their columns. *)
THEOREM SearchTyped == SearchSpec => []SearchTypeOK
<1>1. SearchIInv => SearchTypeOK
  BY DEF SearchIInv
<1>2. QED
  BY <1>1, SearchInitIInv, SearchNextIInv, PTL DEF SearchSpec

(* However many calls of the client and of the drivers race, neither the price
   asked nor the fare agreed falls below the least the platform allows. *)
THEOREM FaresStayAboveFloor == SearchSpec => []FaresAboveFloor
<1>1. SearchIInv => FaresAboveFloor
  BY DEF SearchIInv
<1>2. QED
  BY <1>1, SearchInitIInv, SearchNextIInv, PTL DEF SearchSpec

-----------------------------------------------------------------------------
(* The request keeps its word where its calls stay apart. *)

(* What a call read still holds when it writes. *)
ReadsStand ==
  /\ \A r \in SearchReqs : searchReq[r].op = "price" => Pending = {}
  /\ \A r \in SearchReqs :
       searchReq[r].op \in RadiusCalls => searchReq[r].radius \in request.radius..MaxRadius

SearchKIInv == SearchIInv /\ SearchApart /\ ReadsStand

LEMMA SearchInitKIInv == SearchInit => SearchKIInv
<1> SUFFICES ASSUME SearchInit PROVE SearchKIInv
  OBVIOUS
<1>1. SearchIInv
  BY SearchInitIInv
<1>2. \A r \in SearchReqs : searchReq[r].op = "idle"
  BY DEF SearchInit
<1>3. QED
  BY <1>1, <1>2 DEF SearchKIInv, SearchApart, ReadsStand, PriceCalls, RadiusCalls

(* The property, of one step. *)
KeepsStep ==
  /\ Pending # {} \/ request.status # "requested" => request'.price = request.price
  /\ request'.radius \in request.radius..MaxRadius

LEMMA WidenedGrows ==
  ASSUME request.radius \in 0..MaxRadius
  PROVE  Widened \in request.radius..MaxRadius
BY DEF Widened

LEMMA SearchNextKeeps ==
  ASSUME SearchKIInv, SearchTypeOK', SearchApart', [SearchNext]_searchVars
  PROVE  ReadsStand' /\ KeepsStep
<1>t. SearchTypeOK
  BY DEF SearchKIInv, SearchIInv
<1> USE <1>t DEF SearchKIInv, SearchTypeOK, SearchApart, PriceCalls, RadiusCalls
<1>f. /\ request.price \in Nat /\ request.agreed \in Nat /\ request.radius \in 0..MaxRadius
      /\ request.status \in {"requested", "accepted", "cancelled"}
      /\ request'.radius \in 0..MaxRadius
  BY DEF RequestRow
<1>i. /\ UNCHANGED <<request.price, request.radius>> => KeepsStep
      /\ UNCHANGED <<quote>> => Pending' = Pending
  BY <1>f DEF KeepsStep, Pending
<1>c. ASSUME NEW r \in SearchReqs, NEW call \in SearchCall, searchReq' = [searchReq EXCEPT ![r] = call],
             UNCHANGED <<request.price, request.radius>>, Pending' \subseteq Pending,
             call.op = "price" => Pending' = {},
             call.op \in RadiusCalls => call.radius \in request.radius..MaxRadius
      PROVE  ReadsStand' /\ KeepsStep
  BY <1>c, <1>i DEF ReadsStand
<1>d. ASSUME UNCHANGED <<request.price, request.radius, searchReq>>, Pending' \subseteq Pending
      PROVE  ReadsStand' /\ KeepsStep
  BY <1>d, <1>i DEF ReadsStand
<1>e. [op |-> "idle"] \in SearchCall
  BY DEF SearchCall
<1>1. ASSUME NEW r \in SearchReqs, NEW price, AskPrice(r, price) PROVE ReadsStand' /\ KeepsStep
  BY <1>1, <1>i DEF AskPrice, SearchBegin, ReadsStand
<1>2. ASSUME NEW r \in SearchReqs, IncrementOffer(r) \/ SetOffer(r) \/ DecrementOffer(r)
      PROVE  ReadsStand' /\ KeepsStep
  BY <1>1, <1>2 DEF IncrementOffer, SetOffer, DecrementOffer
<1>3. ASSUME NEW r \in SearchReqs, NEW d \in Bidders, MakeQuote(r, d) PROVE ReadsStand' /\ KeepsStep
  <2>1. PICK amount :
          searchReq' = [searchReq EXCEPT ![r] = [op |-> "quote", driver |-> d, amount |-> amount]]
    BY <1>3 DEF MakeQuote, SearchBegin
  <2>2. UNCHANGED <<request, quote>>
    BY <1>3 DEF MakeQuote
  <2>3. QED
    BY <2>1, <2>2, <1>i DEF ReadsStand
<1>4. ASSUME NEW r \in SearchReqs, NEW d \in Bidders, RejectQuote(r, d) PROVE ReadsStand' /\ KeepsStep
  <2>1. Pending' \subseteq Pending
    BY <1>4 DEF RejectQuote, Pending, Quote
  <2>2. QED
    BY <1>4, <1>d, <2>1 DEF RejectQuote, SearchIdle
<1>5. ASSUME NEW r \in SearchReqs, NEW d \in Bidders, SelectQuote(r, d) PROVE ReadsStand' /\ KeepsStep
  <2>1. Pending' \subseteq Pending
    BY <1>5 DEF SelectQuote, Pending, Quote
  <2>2. UNCHANGED <<request.price, request.radius>>
    BY <1>5 DEF SelectQuote, RequestRow
  <2>3. QED
    BY <1>5, <1>d, <2>1, <2>2 DEF SelectQuote, SearchIdle
<1>6. ASSUME NEW r \in SearchReqs, CancelRequest(r) PROVE ReadsStand' /\ KeepsStep
  <2>1. UNCHANGED <<request.price, request.radius>>
    BY <1>6 DEF CancelRequest, RequestRow
  <2>2. QED
    BY <1>6, <1>d, <1>i, <2>1 DEF CancelRequest, SearchIdle
<1>7. ASSUME NEW r \in SearchReqs, ExpandSearchRadii(r) \/ ProcessExpandJob(r)
      PROVE  ReadsStand' /\ KeepsStep
  <2>1. UNCHANGED <<request, quote>>
    BY <1>7 DEF ExpandSearchRadii, ProcessExpandJob
  <2>2. \/ UNCHANGED searchReq
        \/ searchReq' = [searchReq EXCEPT ![r] = [op |-> "recheck", radius |-> Widened]]
    BY <1>7 DEF ExpandSearchRadii, ProcessExpandJob, SearchBegin, SearchIdle
  <2>3. Widened \in request.radius..MaxRadius /\ Widened \in 0..MaxRadius
    BY <1>f, WidenedGrows
  <2>4. [op |-> "recheck", radius |-> Widened] \in SearchCall
    BY <2>3 DEF SearchCall
  <2>5. QED
    BY <1>c, <1>d, <1>i, <2>1, <2>2, <2>3, <2>4
<1>8. ASSUME NEW r \in SearchReqs, CountPending(r) PROVE ReadsStand' /\ KeepsStep
  <2>1. UNCHANGED <<request, quote>> /\ searchReq[r] \in SearchCall /\ searchReq[r].op = "count"
    BY <1>8 DEF CountPending
  <2>2. \/ Pending = {} /\ searchReq' = [searchReq EXCEPT ![r] = [op |-> "price", price |-> searchReq[r].price]]
        \/ searchReq' = [searchReq EXCEPT ![r] = [op |-> "idle"]]
    BY <1>8, <2>1 DEF CountPending, SearchStep, SearchEnd, SearchCall
  <2>3. searchReq[r].price \in Nat
    BY <2>1 DEF SearchCall
  <2>4. [op |-> "price", price |-> searchReq[r].price] \in SearchCall
    BY <2>3 DEF SearchCall
  <2>5. QED
    BY <1>c, <1>e, <1>i, <2>1, <2>2, <2>4
<1>9. ASSUME NEW r \in SearchReqs, WritePrice(r) PROVE ReadsStand' /\ KeepsStep
  <2>1. Pending = {} /\ request.status = "requested" /\ request'.radius = request.radius
    BY <1>9 DEF WritePrice, ReadsStand, RequestRow
  <2>2. Pending' = {}
    BY <1>9, <1>i, <2>1 DEF WritePrice
  <2>3. searchReq' = [searchReq EXCEPT ![r] = [op |-> "idle"]]
    BY <1>9 DEF WritePrice, SearchEnd, SearchStep
  <2>4. QED
    BY <2>1, <2>2, <2>3, <1>f DEF ReadsStand, KeepsStep
<1>10. ASSUME NEW r \in SearchReqs, WriteQuote(r) PROVE ReadsStand' /\ KeepsStep
  <2>1. searchReq' = [searchReq EXCEPT ![r] = [op |-> "idle"]] /\ UNCHANGED request
    BY <1>10 DEF WriteQuote, SearchEnd, SearchStep
  <2>2. \A s \in SearchReqs : searchReq[s].op # "price"
    BY <1>10 DEF WriteQuote
  <2>3. QED
    BY <2>1, <2>2, <1>i DEF ReadsStand
<1>11. ASSUME NEW r \in SearchReqs, RecheckStatus(r) PROVE ReadsStand' /\ KeepsStep
  <2>1. UNCHANGED <<request, quote>> /\ searchReq[r] \in SearchCall /\ searchReq[r].op = "recheck"
    BY <1>11 DEF RecheckStatus
  <2>2. \/ searchReq' = [searchReq EXCEPT ![r] = [op |-> "widen", radius |-> searchReq[r].radius]]
        \/ searchReq' = [searchReq EXCEPT ![r] = [op |-> "idle"]]
    BY <1>11, <2>1 DEF RecheckStatus, SearchStep, SearchEnd, SearchCall
  <2>3. searchReq[r].radius \in request.radius..MaxRadius /\ searchReq[r].radius \in 0..MaxRadius
    BY <2>1 DEF SearchCall, ReadsStand
  <2>4. [op |-> "widen", radius |-> searchReq[r].radius] \in SearchCall
    BY <2>3 DEF SearchCall
  <2>5. QED
    BY <1>c, <1>e, <1>i, <2>1, <2>2, <2>3, <2>4
<1>12. ASSUME NEW r \in SearchReqs, WriteRadius(r) PROVE ReadsStand' /\ KeepsStep
  <2>1. /\ request'.price = request.price /\ request'.radius = searchReq[r].radius
        /\ searchReq[r].radius \in request.radius..MaxRadius /\ Pending' = Pending
    BY <1>12, <1>i DEF WriteRadius, RequestRow, ReadsStand
  <2>2. searchReq' = [searchReq EXCEPT ![r] = [op |-> "idle"]]
    BY <1>12 DEF WriteRadius, SearchEnd, SearchStep
  <2>3. \A s \in SearchReqs : searchReq'[s].op \notin RadiusCalls
    BY <1>12, <2>2 DEF WriteRadius
  <2>4. QED
    BY <2>1, <2>2, <2>3 DEF ReadsStand, KeepsStep
<1>13. CASE IntervalPasses \/ UNCHANGED searchVars
  BY <1>13, <1>d, <1>i DEF IntervalPasses, searchVars
<1>14. QED
  BY <1>2, <1>3, <1>4, <1>5, <1>6, <1>7, <1>8, <1>9, <1>10, <1>11, <1>12, <1>13
  DEF SearchNext, SearchOnward

LEMMA SearchNextKIInv == SearchKIInv /\ [SearchNext /\ SearchApart']_searchVars => SearchKIInv' /\ KeepsStep
<1> SUFFICES ASSUME SearchKIInv, [SearchNext /\ SearchApart']_searchVars PROVE SearchKIInv' /\ KeepsStep
  OBVIOUS
<1>1. [SearchNext]_searchVars
  OBVIOUS
<1>2. SearchIInv' /\ SearchTypeOK'
  BY <1>1, SearchNextIInv DEF SearchKIInv, SearchIInv
<1>3. SearchApart'
  BY DEF SearchKIInv, SearchApart, searchVars
<1>4. QED
  BY <1>1, <1>2, <1>3, SearchNextKeeps DEF SearchKIInv

(* Where no price change overlaps a quote or the end of the search, and the
   two timers do not widen at once, what a driver quoted on stands, a settled
   request keeps its price and the search only grows, up to the maximum. *)
THEOREM SearchKeepsItsWord == SearchApartSpec => SearchKeeps
<1>1. SearchKIInv /\ [SearchNext /\ SearchApart']_searchVars
        => [/\ Pending # {} \/ request.status # "requested" => request'.price = request.price
            /\ request'.radius \in request.radius..MaxRadius]_searchVars
  BY SearchNextKIInv DEF KeepsStep
<1>2. QED
  BY <1>1, SearchInitKIInv, SearchNextKIInv, PTL DEF SearchApartSpec, SearchKeeps

-----------------------------------------------------------------------------
(* Rides: meter, wait timer and watch over a ride *)

HIDE SearchAssumption
USE RideAssumption

-----------------------------------------------------------------------------
(* A ride's row, timer, watch and pings, for any number of pings in flight. *)

LEMMA RideInitTyped == RideInit => RideTypeOK
BY DEF RideInit, RideTypeOK, RideRow, Watch, PingCall

LEMMA PingStepTyped ==
  ASSUME RideTypeOK, NEW r \in Pings, NEW call \in PingCall, ping' = [ping EXCEPT ![r] = call]
  PROVE  ping' \in [Pings -> PingCall]
BY DEF RideTypeOK

LEMMA PingEndTyped ==
  ASSUME RideTypeOK, NEW r \in Pings, PingEnd(r)
  PROVE  ping' \in [Pings -> PingCall]
<1>1. [op |-> "idle"] \in PingCall
  BY DEF PingCall
<1>2. QED
  BY <1>1, PingStepTyped DEF PingEnd

LEMMA RideNextTyped == RideTypeOK /\ [RideNext]_rideVars => RideTypeOK'
<1> SUFFICES ASSUME RideTypeOK, [RideNext]_rideVars PROVE RideTypeOK'
  OBVIOUS
<1> USE DEF RideTypeOK, tripMeter, waiting, safety
<1>r. /\ ride.meter \in Nat /\ ride.fare \in Nat /\ ride.confirmed \in BOOLEAN
      /\ ride.status \in {"accepted", "driver_arrived", "in_progress", "completed"}
  BY DEF RideRow
<1>1. ASSUME NEW r \in Pings, DriverArrives(r) PROVE RideTypeOK'
  BY <1>1 DEF DriverArrives, PingIdle, RideRow
<1>2. ASSUME NEW r \in Pings, ClientReady(r) PROVE RideTypeOK'
  BY <1>2 DEF ClientReady, PingIdle, RideRow
<1>3. ASSUME NEW r \in Pings, CheckWaitTimers(r) PROVE RideTypeOK'
  <2>1. [op |-> "notice"] \in PingCall
    BY DEF PingCall
  <2>2. QED
    BY <1>3, <2>1, PingStepTyped DEF CheckWaitTimers, PingBegin
<1>4. ASSUME NEW r \in Pings, StartRide(r) PROVE RideTypeOK'
  BY <1>4 DEF StartRide, PingIdle, RideRow
<1>5. ASSUME NEW r \in Pings, MeterRead(r) PROVE RideTypeOK'
  <2>1. [op |-> "meter", meter |-> ride.meter + 1] \in PingCall
    BY <1>r DEF PingCall
  <2>2. QED
    BY <1>5, <2>1, PingStepTyped DEF MeterRead, PingBegin
<1>6. ASSUME NEW r \in Pings, OffRoute(r) PROVE RideTypeOK'
  <2>1. [op |-> "reroute"] \in PingCall
    BY DEF PingCall
  <2>2. QED
    BY <1>6, <2>1, PingStepTyped DEF OffRoute, PingBegin
<1>7. ASSUME NEW r \in Pings, FinishRead(r) PROVE RideTypeOK'
  <2>1. [op |-> "finish", fare |-> AtLeastMinimum(ride.meter)] \in PingCall
    BY <1>r DEF PingCall, AtLeastMinimum
  <2>2. QED
    BY <1>7, <2>1, PingStepTyped DEF FinishRead, PingBegin
<1>8. ASSUME NEW r \in Pings, CheckOneTrip(r) PROVE RideTypeOK'
  <2>1. [op |-> DeviationFound] \in PingCall
    BY <1>8 DEF CheckOneTrip, DeviationFound, PingCall, CronCalls
  <2>2. QED
    BY <1>8, <2>1, PingStepTyped DEF CheckOneTrip, PingBegin
<1>9. ASSUME NEW r \in Pings, PingOnward(r) PROVE RideTypeOK'
  <2>1. CASE NotifyWaitExpired(r)
    BY <2>1, PingEndTyped DEF NotifyWaitExpired
  <2>2. CASE MeterWrite(r)
    <3>1. ping[r].meter \in Nat
      BY <2>2 DEF MeterWrite, PingCall, CronCalls
    <3>2. ride' \in RideRow
      BY <2>2, <3>1 DEF MeterWrite, RideRow
    <3>3. QED
      BY <2>2, <3>2, PingEndTyped DEF MeterWrite
  <2>3. CASE Reroute(r)
    BY <2>3, PingEndTyped DEF Reroute
  <2>4. CASE WatchWrite(r)
    <3>1. watch' \in Watch
      BY <2>4 DEF WatchWrite, Watch
    <3>2. QED
      BY <2>4, <3>1, PingEndTyped DEF WatchWrite
  <2>5. CASE AlertMark(r)
    <3>1. watch' \in Watch
      BY <2>5 DEF AlertMark, Watch
    <3>2. [op |-> "save"] \in PingCall
      BY DEF PingCall, CronCalls
    <3>3. QED
      BY <2>5, <3>1, <3>2, PingStepTyped DEF AlertMark
  <2>6. CASE AlertSave(r)
    BY <2>6, PingEndTyped DEF AlertSave
  <2>7. CASE FinishCommit(r)
    <3>1. ping[r].fare \in Nat
      BY <2>7 DEF FinishCommit, PingCall, CronCalls
    <3>2. ride' \in RideRow
      BY <2>7, <3>1 DEF FinishCommit, RideRow
    <3>3. QED
      BY <2>7, <3>2, PingEndTyped DEF FinishCommit
  <2>8. CASE FinishFails(r)
    BY <2>8, PingEndTyped DEF FinishFails
  <2>9. QED
    BY <1>9, <2>1, <2>2, <2>3, <2>4, <2>5, <2>6, <2>7, <2>8 DEF PingOnward
<1>10. CASE FiveMinutesPass
  BY <1>10 DEF FiveMinutesPass
<1>11. CASE DriveOff
  BY <1>11 DEF DriveOff
<1>12. CASE DeviationLasts
  BY <1>12 DEF DeviationLasts, Watch
<1>13. CASE UNCHANGED rideVars
  BY <1>13 DEF rideVars
<1>14. QED
  BY <1>1, <1>2, <1>3, <1>4, <1>5, <1>6, <1>7, <1>8, <1>9, <1>10, <1>11, <1>12, <1>13 DEF RideNext

(* The rows of a ride stay within their columns, whatever is in flight. *)
THEOREM RideTyped == RideSpec => []RideTypeOK
BY RideInitTyped, RideNextTyped, PTL DEF RideSpec

-----------------------------------------------------------------------------
(* The books of a ride, when its calls stay apart. *)

(* A meter ping in flight is the only step the row does not show yet, and the end
   of a ride carries what the meter still shows. *)
MeterInFlight ==
  /\ ride.status \in {"accepted", "driver_arrived"} => driven = 0
  /\ \A r \in Pings : ping[r].op = "meter" =>
       ride.status = "in_progress" /\ ping[r].meter = BaseFare + driven
  /\ \A r \in Pings : ping[r].op = "finish" =>
       /\ ride.status \in {"in_progress", "completed"}
       /\ ping[r].fare = AtLeastMinimum(ride.meter)

(* An alert in flight, and one that a check would find due, each has a
   deviation of its own to answer for. *)
AlertsOwed ==
  /\ alerts <= episodes
  /\ \A r \in Pings : ping[r].op \in {"alert", "save"} => alerts < episodes
  /\ \A r \in Pings : ping[r].op = "save" => watch.alerted
  /\ where # "on" /\ ~watch.alerted => alerts < episodes
  /\ \A r \in Pings : ping[r].op = "clear" /\ where # "on" => alerts < episodes
  /\ where = "off" =>
       /\ alerts < episodes
       /\ \A r \in Pings : ping[r].op \in {"alert", "save"} => alerts + 1 < episodes

RideIInv == RideTypeOK /\ RideApart /\ MeterInFlight /\ MeterAddsUp /\ FareIsMeter /\ AlertsOwed

LEMMA RideInitIInv == RideInit => RideIInv
<1> SUFFICES ASSUME RideInit PROVE RideIInv
  OBVIOUS
<1>1. RideTypeOK
  BY RideInitTyped
<1>2. QED
  BY <1>1 DEF RideInit, RideIInv, RideApart, MeterInFlight, MeterAddsUp, FareIsMeter, AlertsOwed,
              CronCalls

LEMMA RideMeterKept ==
  ASSUME RideIInv, RideTypeOK', RideApart', [RideNext]_rideVars
  PROVE  MeterInFlight' /\ MeterAddsUp' /\ FareIsMeter'
<1> USE DEF RideIInv, RideTypeOK, RideApart, MeterInFlight, MeterAddsUp, FareIsMeter,
            tripMeter, waiting, safety
<1>r. /\ ride.meter \in Nat /\ ride.fare \in Nat /\ ride.confirmed \in BOOLEAN
      /\ ride.status \in {"accepted", "driver_arrived", "in_progress", "completed"}
  BY DEF RideRow
<1>p. \A r \in Pings : ping[r].op = "meter" => ping[r].meter \in Nat
  BY DEF PingCall, CronCalls
<1>1. ASSUME NEW r \in Pings, DriverArrives(r) \/ ClientReady(r)
      PROVE  MeterInFlight' /\ MeterAddsUp' /\ FareIsMeter'
  BY <1>1, <1>r DEF DriverArrives, ClientReady, PingIdle, RideRow
<1>4. ASSUME NEW r \in Pings, StartRide(r) PROVE MeterInFlight' /\ MeterAddsUp' /\ FareIsMeter'
  BY <1>4, <1>r DEF StartRide, PingIdle, RideRow
<1>5. ASSUME NEW r \in Pings, MeterRead(r) PROVE MeterInFlight' /\ MeterAddsUp' /\ FareIsMeter'
  <2>1. \A s \in Pings : ping'[s].op = "meter" => s = r
    BY <1>5 DEF MeterRead, PingBegin
  <2>2. /\ ping'[r] = [op |-> "meter", meter |-> ride.meter + 1]
        /\ ride' = ride /\ driven' = driven + 1 /\ ride.status = "in_progress"
    BY <1>5 DEF MeterRead, PingBegin
  <2>3. \A s \in Pings : ping[s].op # "meter"
    BY <1>5, <2>1 DEF MeterRead, PingBegin
  <2>4. ride.meter = BaseFare + driven
    BY <2>2, <2>3
  <2>5. QED
    BY <2>1, <2>2, <2>4, <1>r
<1>7. ASSUME NEW r \in Pings, FinishRead(r) PROVE MeterInFlight' /\ MeterAddsUp' /\ FareIsMeter'
  <2>1. ping[r].op = "idle" /\ UNCHANGED <<ride, driven>> /\ ride.status = "in_progress"
        /\ ping' = [ping EXCEPT ![r] = [op |-> "finish", fare |-> AtLeastMinimum(ride.meter)]]
    BY <1>7 DEF FinishRead, PingBegin
  <2>2. ping'[r] = [op |-> "finish", fare |-> AtLeastMinimum(ride.meter)]
        /\ \A s \in Pings \ {r} : ping'[s] = ping[s]
    BY <2>1
  <2>3. QED
    BY <2>1, <2>2
<1>8. ASSUME NEW r \in Pings, FinishCommit(r) PROVE MeterInFlight' /\ MeterAddsUp' /\ FareIsMeter'
  <2>1. /\ ride'.status = "completed" /\ ride'.fare = ping[r].fare /\ ride'.meter = ride.meter
        /\ ping'[r].op = "idle" /\ \A s \in Pings \ {r} : ping'[s] = ping[s]
    BY <1>8 DEF FinishCommit, PingEnd, RideRow
  <2>2. \A s \in Pings : ping'[s].op # "meter"
    BY <1>8, <2>1 DEF FinishCommit
  <2>3. ping[r].fare = AtLeastMinimum(ride.meter)
    BY <1>8 DEF FinishCommit
  <2>4. QED
    BY <2>1, <2>2, <2>3
<1>9. ASSUME NEW r \in Pings, MeterWrite(r) PROVE MeterInFlight' /\ MeterAddsUp' /\ FareIsMeter'
  <2>1. /\ ride.status = "in_progress" /\ ride'.status = "in_progress"
        /\ ride'.meter = BaseFare + driven /\ driven' = driven
    BY <1>9 DEF MeterWrite, RideRow
  <2>2. \A s \in Pings : ping'[s].op \notin {"meter", "finish"}
    BY <1>9 DEF MeterWrite, PingEnd
  <2>3. QED
    BY <2>1, <2>2
<1>10. ASSUME UNCHANGED <<ride, driven>>,
              \A s \in Pings : ping'[s].op \in {"meter", "finish"} => ping'[s] = ping[s],
              \A s \in Pings : ping[s].op = "meter" => ping'[s] = ping[s]
       PROVE  MeterInFlight' /\ MeterAddsUp' /\ FareIsMeter'
  BY <1>10
<1>11. ASSUME NEW r \in Pings, CheckWaitTimers(r) \/ OffRoute(r) \/ CheckOneTrip(r)
       PROVE  MeterInFlight' /\ MeterAddsUp' /\ FareIsMeter'
  <2>1. UNCHANGED <<ride, driven>>
    BY <1>11 DEF CheckWaitTimers, OffRoute, CheckOneTrip
  <2>2. PICK op \in {"notice", "reroute", "clear", "start", "alert", "none"} :
          ping[r].op = "idle" /\ ping' = [ping EXCEPT ![r] = [op |-> op]]
    BY <1>11 DEF CheckWaitTimers, OffRoute, CheckOneTrip, PingBegin, DeviationFound
  <2>3. QED
    BY <1>10, <2>1, <2>2
<1>12. ASSUME NEW r \in Pings,
              \/ NotifyWaitExpired(r) \/ Reroute(r) \/ FinishFails(r)
              \/ WatchWrite(r) \/ AlertMark(r) \/ AlertSave(r)
       PROVE  MeterInFlight' /\ MeterAddsUp' /\ FareIsMeter'
  <2>1. UNCHANGED <<ride, driven>>
    BY <1>12 DEF NotifyWaitExpired, Reroute, FinishFails, WatchWrite, AlertMark, AlertSave
  <2>2. PICK op \in {"idle", "save"} :
          ping[r].op # "meter" /\ ping' = [ping EXCEPT ![r] = [op |-> op]]
    BY <1>12 DEF NotifyWaitExpired, Reroute, FinishFails, WatchWrite, AlertMark, AlertSave, PingEnd,
                 CronCalls
  <2>3. QED
    BY <1>10, <2>1, <2>2
<1>13. CASE FiveMinutesPass \/ DriveOff \/ DeviationLasts \/ UNCHANGED rideVars
  BY <1>10, <1>13 DEF FiveMinutesPass, DriveOff, DeviationLasts, rideVars
<1>14. QED
  BY <1>1, <1>4, <1>5, <1>7, <1>8, <1>9, <1>11, <1>12, <1>13 DEF RideNext, PingOnward

LEMMA RideAlertsKept ==
  ASSUME RideIInv, RideTypeOK', RideApart', [RideNext]_rideVars
  PROVE  AlertsOwed'
<1> USE DEF RideIInv, RideTypeOK, RideApart, AlertsOwed, CronCalls, tripMeter, waiting, safety
<1>w. watch.started \in {"no", "recent", "sustained"} /\ watch.alerted \in BOOLEAN
  BY DEF Watch
<1>1. ASSUME UNCHANGED safety, \A s \in Pings : ping'[s].op \in CronCalls => ping'[s] = ping[s]
      PROVE  AlertsOwed'
  BY <1>1
<1>3. ASSUME NEW r \in Pings,
             \/ DriverArrives(r) \/ ClientReady(r) \/ CheckWaitTimers(r) \/ StartRide(r)
             \/ MeterRead(r) \/ OffRoute(r) \/ FinishRead(r)
      PROVE  AlertsOwed'
  BY <1>1, <1>3 DEF DriverArrives, ClientReady, CheckWaitTimers, StartRide, MeterRead, OffRoute,
                    FinishRead, PingIdle, PingBegin
<1>4. ASSUME NEW r \in Pings,
             NotifyWaitExpired(r) \/ MeterWrite(r) \/ FinishCommit(r) \/ FinishFails(r)
      PROVE  AlertsOwed'
  BY <1>1, <1>4 DEF NotifyWaitExpired, MeterWrite, FinishCommit, FinishFails, PingEnd
<1>5. ASSUME NEW r \in Pings, Reroute(r) PROVE AlertsOwed'
  BY <1>5 DEF Reroute, PingEnd
<1>6. ASSUME NEW r \in Pings, CheckOneTrip(r) PROVE AlertsOwed'
  <2>1. /\ ping' = [ping EXCEPT ![r] = [op |-> DeviationFound]] /\ UNCHANGED safety
        /\ DeviationFound \in {"clear", "start", "alert"} /\ ping[r].op = "idle"
    BY <1>6 DEF CheckOneTrip, PingBegin, DeviationFound
  <2>2. \A s \in Pings : s # r => ping'[s] = ping[s] /\ ping[s].op \notin CronCalls
    BY <2>1
  <2>3. DeviationFound = "clear" => where # "far"
    BY DEF DeviationFound
  <2>4. DeviationFound = "alert" => where = "far" /\ ~watch.alerted
    BY DEF DeviationFound
  <2>5. QED
    BY <2>1, <2>2, <2>3, <2>4
<1>7. ASSUME NEW r \in Pings, WatchWrite(r) PROVE AlertsOwed'
  <2>1. \A s \in Pings : ping'[s].op \notin CronCalls
    BY <1>7 DEF WatchWrite, PingEnd
  <2>2. watch'.alerted = (ping[r].op = "start" /\ watch.alerted)
    BY <1>7 DEF WatchWrite
  <2>3. QED
    BY <1>7, <2>1, <2>2, <1>w DEF WatchWrite
<1>8. ASSUME NEW r \in Pings, AlertMark(r) PROVE AlertsOwed'
  <2>1. watch'.alerted
    BY <1>8 DEF AlertMark, Watch
  <2>2. QED
    BY <1>8, <2>1 DEF AlertMark
<1>9. ASSUME NEW r \in Pings, AlertSave(r) PROVE AlertsOwed'
  <2>1. \A s \in Pings : ping'[s].op \notin CronCalls
    BY <1>9 DEF AlertSave, PingEnd
  <2>2. QED
    BY <1>9, <2>1 DEF AlertSave
<1>10. CASE DriveOff
  BY <1>10 DEF DriveOff
<1>11. CASE DeviationLasts
  BY <1>11, <1>w DEF DeviationLasts, Watch
<1>12. CASE FiveMinutesPass \/ UNCHANGED rideVars
  BY <1>1, <1>12 DEF FiveMinutesPass, rideVars
<1>13. QED
  BY <1>3, <1>4, <1>5, <1>6, <1>7, <1>8, <1>9, <1>10, <1>11, <1>12 DEF RideNext, PingOnward

LEMMA RideNextIInv == RideIInv /\ [RideNext /\ RideApart']_rideVars => RideIInv'
<1> SUFFICES ASSUME RideIInv, [RideNext /\ RideApart']_rideVars PROVE RideIInv'
  OBVIOUS
<1>1. [RideNext]_rideVars
  OBVIOUS
<1>2. RideTypeOK'
  BY <1>1, RideNextTyped DEF RideIInv
<1>3. RideApart'
  BY DEF RideIInv, RideApart, rideVars, tripMeter
<1>4. QED
  BY <1>1, <1>2, <1>3, RideMeterKept, RideAlertsKept DEF RideIInv

(* Where no meter ping overlaps another one or the end of the ride, from its read
   of the meter to its write of the fare, and the safety cron does not overtake
   itself, the meter loses no step, the fare is what it shows and no deviation is
   reported twice. *)
THEOREM RideBooksKept == RideApartSpec => []RideBooks
<1>1. RideIInv => RideBooks
  BY DEF RideIInv, RideBooks, AlertsOwed
<1>2. QED
  BY <1>1, RideInitIInv, RideNextIInv, PTL DEF RideApartSpec

(* One call at a time is apart. *)
THEOREM OnePingBooks ==
  ASSUME \A r, s \in Pings : r = s
  PROVE  RideSpec => []RideBooks
<1>1. RideApart /\ RideApart'
  BY DEF RideApart
<1>2. [RideNext]_rideVars => [RideNext /\ RideApart']_rideVars
  BY <1>1
<1>3. QED
  BY <1>2, RideBooksKept, PTL DEF RideSpec, RideApartSpec

-----------------------------------------------------------------------------
(* What a ride can cost, whatever meets. *)

(* The meter, a ping that will write it and an end of the ride that has read it
   lie between the base fare and what was driven. *)
MeterBounded ==
  /\ ride.status \in {"accepted", "driver_arrived"} => ride.meter <= BaseFare
  /\ ride.status \in {"in_progress", "completed"} => BaseFare <= ride.meter
  /\ \A r \in Pings : ping[r].op = "meter" =>
       /\ ride.status \in {"in_progress", "completed"}
       /\ BaseFare <= ping[r].meter /\ ping[r].meter <= BaseFare + driven
  /\ \A r \in Pings : ping[r].op = "finish" =>
       /\ ride.status \in {"in_progress", "completed"}
       /\ AtLeastMinimum(BaseFare) <= ping[r].fare
       /\ ping[r].fare <= AtLeastMinimum(BaseFare + driven)

BoundIInv == RideTypeOK /\ MeterBounded /\ NeverOvercharged

LEMMA MinimumRises ==
  ASSUME NEW a \in Nat, NEW b \in Nat, a <= b
  PROVE  AtLeastMinimum(a) <= AtLeastMinimum(b) /\ AtLeastMinimum(a) \in Nat
BY DEF AtLeastMinimum

LEMMA RideInitBound == RideInit => BoundIInv
<1> SUFFICES ASSUME RideInit PROVE BoundIInv
  OBVIOUS
<1>1. RideTypeOK
  BY RideInitTyped
<1>2. QED
  BY <1>1 DEF RideInit, BoundIInv, MeterBounded, NeverOvercharged

LEMMA RideNextBound == BoundIInv /\ [RideNext]_rideVars => BoundIInv'
<1> SUFFICES ASSUME BoundIInv, [RideNext]_rideVars PROVE BoundIInv'
  OBVIOUS
<1> USE DEF BoundIInv, MeterBounded, NeverOvercharged, tripMeter, waiting, safety
<1>t. RideTypeOK'
  BY RideNextTyped
<1>r. /\ ride.meter \in Nat /\ ride.fare \in Nat /\ ride.confirmed \in BOOLEAN /\ driven \in Nat
      /\ ride.status \in {"accepted", "driver_arrived", "in_progress", "completed"}
  BY DEF RideTypeOK, RideRow
<1>p. \A r \in Pings : /\ ping[r].op = "meter" => ping[r].meter \in Nat
                       /\ ping[r].op = "finish" => ping[r].fare \in Nat
  BY DEF RideTypeOK, PingCall, CronCalls
<1>1. ASSUME NEW r \in Pings, DriverArrives(r) \/ ClientReady(r) PROVE BoundIInv'
  BY <1>1, <1>r, <1>t DEF DriverArrives, ClientReady, PingIdle, RideTypeOK, RideRow
<1>2. ASSUME NEW r \in Pings, StartRide(r) PROVE BoundIInv'
  BY <1>2, <1>r, <1>t DEF StartRide, PingIdle, RideTypeOK, RideRow
<1>3. ASSUME NEW r \in Pings, MeterRead(r) PROVE BoundIInv'
  <2>1. /\ ping' = [ping EXCEPT ![r] = [op |-> "meter", meter |-> ride.meter + 1]]
        /\ ride' = ride /\ driven' = driven + 1 /\ ride.status = "in_progress"
    BY <1>3 DEF MeterRead, PingBegin
  <2>2. /\ ping'[r] = [op |-> "meter", meter |-> ride.meter + 1]
        /\ \A s \in Pings \ {r} : ping'[s] = ping[s]
    BY <2>1 DEF RideTypeOK
  <2>3. AtLeastMinimum(BaseFare + driven) <= AtLeastMinimum(BaseFare + driven')
        /\ AtLeastMinimum(BaseFare + driven) \in Nat
    BY <2>1, <1>r, MinimumRises
  <2>4. AtLeastMinimum(BaseFare + driven') \in Nat
    BY <2>1, <1>r, MinimumRises
  <2>5. \A s \in Pings : ping'[s].op = "meter" => BaseFare <= ping'[s].meter /\ ping'[s].meter <= BaseFare + driven'
    BY <2>1, <2>2, <1>r, <1>p
  <2>6. \A s \in Pings : ping'[s].op = "finish" =>
           AtLeastMinimum(BaseFare) <= ping'[s].fare /\ ping'[s].fare <= AtLeastMinimum(BaseFare + driven')
    BY <2>1, <2>2, <2>3, <2>4, <1>r, <1>p
  <2>7. QED
    BY <2>1, <2>2, <2>5, <2>6, <1>r, <1>t
<1>4. ASSUME NEW r \in Pings, MeterWrite(r) PROVE BoundIInv'
  <2>1. /\ ride'.meter = ping[r].meter /\ ride'.status = ride.status /\ ride'.fare = ride.fare
        /\ driven' = driven /\ ping'[r].op = "idle" /\ \A s \in Pings \ {r} : ping'[s] = ping[s]
    BY <1>4 DEF MeterWrite, PingEnd, RideTypeOK, RideRow
  <2>2. QED
    BY <1>4, <2>1, <1>t DEF MeterWrite
<1>5. ASSUME NEW r \in Pings, FinishRead(r) PROVE BoundIInv'
  <2>1. ping' = [ping EXCEPT ![r] = [op |-> "finish", fare |-> AtLeastMinimum(ride.meter)]]
        /\ ride' = ride /\ driven' = driven /\ ride.status = "in_progress"
    BY <1>5 DEF FinishRead, PingBegin
  <2>2. ping'[r] = [op |-> "finish", fare |-> AtLeastMinimum(ride.meter)]
        /\ \A s \in Pings \ {r} : ping'[s] = ping[s]
    BY <2>1 DEF RideTypeOK
  <2>3. AtLeastMinimum(BaseFare) <= AtLeastMinimum(ride.meter)
        /\ AtLeastMinimum(ride.meter) <= AtLeastMinimum(BaseFare + driven)
    BY <2>1, <1>r, MinimumRises
  <2>4. QED
    BY <2>1, <2>2, <2>3, <1>t
<1>6. ASSUME NEW r \in Pings, FinishCommit(r) PROVE BoundIInv'
  <2>1. /\ ride'.meter = ride.meter /\ ride'.status = "completed" /\ ride'.fare = ping[r].fare
        /\ driven' = driven /\ ping'[r].op = "idle" /\ \A s \in Pings \ {r} : ping'[s] = ping[s]
    BY <1>6 DEF FinishCommit, PingEnd, RideTypeOK, RideRow
  <2>2. QED
    BY <1>6, <2>1, <1>t DEF FinishCommit
<1>10. ASSUME UNCHANGED <<ride, driven>>,
              \A s \in Pings : ping'[s].op \in {"meter", "finish"} => ping'[s] = ping[s]
       PROVE  BoundIInv'
  BY <1>10, <1>t
<1>11. ASSUME NEW r \in Pings, CheckWaitTimers(r) \/ OffRoute(r) \/ CheckOneTrip(r) PROVE BoundIInv'
  <2>1. UNCHANGED <<ride, driven>>
    BY <1>11 DEF CheckWaitTimers, OffRoute, CheckOneTrip
  <2>2. PICK op \in {"notice", "reroute", "clear", "start", "alert", "none"} :
          ping' = [ping EXCEPT ![r] = [op |-> op]]
    BY <1>11 DEF CheckWaitTimers, OffRoute, CheckOneTrip, PingBegin, DeviationFound
  <2>3. QED
    BY <1>10, <2>1, <2>2 DEF RideTypeOK
<1>12. ASSUME NEW r \in Pings,
              \/ NotifyWaitExpired(r) \/ Reroute(r) \/ FinishFails(r)
              \/ WatchWrite(r) \/ AlertMark(r) \/ AlertSave(r)
       PROVE  BoundIInv'
  <2>1. UNCHANGED <<ride, driven>>
    BY <1>12 DEF NotifyWaitExpired, Reroute, FinishFails, WatchWrite, AlertMark, AlertSave
  <2>2. PICK op \in {"idle", "save"} : ping' = [ping EXCEPT ![r] = [op |-> op]]
    BY <1>12 DEF NotifyWaitExpired, Reroute, FinishFails, WatchWrite, AlertMark, AlertSave, PingEnd
  <2>3. QED
    BY <1>10, <2>1, <2>2 DEF RideTypeOK
<1>13. CASE FiveMinutesPass \/ DriveOff \/ DeviationLasts \/ UNCHANGED rideVars
  BY <1>10, <1>13 DEF FiveMinutesPass, DriveOff, DeviationLasts, rideVars
<1>14. QED
  BY <1>1, <1>2, <1>3, <1>4, <1>5, <1>6, <1>11, <1>12, <1>13 DEF RideNext, PingOnward

(* For any number of pings and ends of the ride in flight, whatever meets, the
   passenger pays between the base fare and what was driven, or the minimum. *)
THEOREM PassengerNeverOvercharged == RideSpec => []NeverOvercharged
<1>1. BoundIInv => NeverOvercharged
  BY DEF BoundIInv
<1>2. QED
  BY <1>1, RideInitBound, RideNextBound, PTL DEF RideSpec

-----------------------------------------------------------------------------
(* Cards: charges, earnings and payouts *)

HIDE RideAssumption
USE CardAssumption

-----------------------------------------------------------------------------
(* The fee: the gateway keeps 5.75 % of the total. *)

(* What a card is charged leaves the platform the whole fare after the
   gateway's fee, and a cent less would not. *)
THEOREM ChargeCoversFare ==
  \A fare \in Nat : /\ CardAmount(fare) \in Nat /\ Settled(CardAmount(fare)) \in Nat
                    /\ Settled(CardAmount(fare)) >= fare
                    /\ fare > 0 => Settled(CardAmount(fare) - 1) < fare
BY DEF CardAmount, Settled

-----------------------------------------------------------------------------
(* Rows, books and calls *)

LEMMA ShareIsNat == \A t \in CardTrips : Share(t) \in Nat /\ Fare[t] \in Nat \ {0} /\ Commission[t] \in Nat
BY DEF Share

LEMMA CardInitTyped == CardInit => CardTypeOK
<1> SUFFICES ASSUME CardInit PROVE CardTypeOK
  OBVIOUS
<1>1. payment \in [CardTrips -> PaymentRow]
  BY DEF CardInit, PaymentRow
<1>2. cardBook \in [Payees -> Seq(CardEntry)]
  <2>1. <<>> \in Seq(CardEntry)
    OBVIOUS
  <2>2. QED
    BY <2>1 DEF CardInit
<1>3. cardReq \in [CardReqs -> CardCall]
  BY DEF CardInit, CardCall
<1>4. /\ link \in [CardTrips -> {"none", "open"}] /\ paid \in [CardTrips -> SUBSET Outcomes]
      /\ cut \in [CardTrips -> {"no", "unpaid", "unbooked"}]
  BY DEF CardInit
<1>5. charges \in [CardTrips -> Nat] /\ cardBalance \in [Payees -> Int]
  BY DEF CardInit
<1>6. cardToken \in BOOLEAN
  BY DEF CardInit
<1>7. QED
  BY <1>1, <1>2, <1>3, <1>4, <1>5, <1>6 DEF CardTypeOK

LEMMA CardStepTyped ==
  ASSUME CardTypeOK, NEW r \in CardReqs, NEW call \in CardCall, CardStep(r, call)
  PROVE  cardReq' \in [CardReqs -> CardCall]
BY DEF CardTypeOK, CardStep

LEMMA CardEndTyped ==
  ASSUME CardTypeOK, NEW r \in CardReqs, CardEnd(r)
  PROVE  cardReq' \in [CardReqs -> CardCall]
<1>1. [op |-> "idle"] \in CardCall
  BY DEF CardCall
<1>2. QED
  BY <1>1, CardStepTyped DEF CardEnd

LEMMA CardBeginTyped ==
  ASSUME CardTypeOK, NEW r \in CardReqs, NEW t \in CardTrips, NEW op \in {"link", "charge"},
         CardBegin(r, [op |-> op, trip |-> t])
  PROVE  cardReq' \in [CardReqs -> CardCall]
<1>1. [op |-> op, trip |-> t] \in CardCall
  BY DEF CardCall
<1>2. QED
  BY <1>1, CardStepTyped DEF CardBegin, CardStep

LEMMA StoreTyped ==
  ASSUME CardTypeOK, NEW t \in CardTrips, StoreAmounts(t)
  PROVE  payment' \in [CardTrips -> PaymentRow]
<1>1. CardAmount(Fare[t]) \in Nat
  BY ChargeCoversFare
<1>2. payment \in [CardTrips -> PaymentRow]
  BY DEF CardTypeOK
<1>3. QED
  BY <1>1, <1>2 DEF StoreAmounts, PaymentRow

LEMMA ChargeTyped ==
  ASSUME CardTypeOK, NEW t \in CardTrips, charges' \in {charges, [charges EXCEPT ![t] = @ + 1]}
  PROVE  charges' \in [CardTrips -> Nat]
<1>1. charges[t] + 1 \in Nat
  BY DEF CardTypeOK
<1>2. QED
  BY <1>1 DEF CardTypeOK

LEMMA BookTyped ==
  ASSUME CardTypeOK, NEW d \in Payees, NEW e \in CardEntry,
         cardBook' = [cardBook EXCEPT ![d] = Append(@, e)]
  PROVE  cardBook' \in [Payees -> Seq(CardEntry)]
<1>1. Append(cardBook[d], e) \in Seq(CardEntry)
  BY DEF CardTypeOK
<1>2. QED
  BY <1>1 DEF CardTypeOK

LEMMA CardNextTyped == CardTypeOK /\ [CardNext]_cardVars => CardTypeOK'
<1> SUFFICES ASSUME CardTypeOK, [CardNext]_cardVars PROVE CardTypeOK'
  OBVIOUS
<1> USE DEF gatewayVars, payeeVars
<1>k. /\ UNCHANGED payment => payment' \in [CardTrips -> PaymentRow]
      /\ UNCHANGED link => link' \in [CardTrips -> {"none", "open"}]
      /\ UNCHANGED paid => paid' \in [CardTrips -> SUBSET Outcomes]
      /\ UNCHANGED cut => cut' \in [CardTrips -> {"no", "unpaid", "unbooked"}]
      /\ UNCHANGED charges => charges' \in [CardTrips -> Nat]
      /\ UNCHANGED cardToken => cardToken' \in BOOLEAN
      /\ UNCHANGED cardBalance => cardBalance' \in [Payees -> Int]
      /\ UNCHANGED cardBook => cardBook' \in [Payees -> Seq(CardEntry)]
      /\ UNCHANGED cardReq => cardReq' \in [CardReqs -> CardCall]
  BY DEF CardTypeOK
<1>c. \A r \in CardReqs : /\ cardReq[r] \in CardCall
                          /\ cardReq[r].op # "idle" => cardReq[r].trip \in CardTrips
                          /\ cardReq[r].op \in {"balance", "entry"} => cardReq[r].before \in Int
  BY DEF CardTypeOK, CardCall
<1>p. payment \in [CardTrips -> PaymentRow] /\ paid \in [CardTrips -> SUBSET Outcomes]
  BY DEF CardTypeOK
<1>1. ASSUME NEW r \in CardReqs, NEW t \in CardTrips, CompleteRide(r, t) PROVE CardTypeOK'
  <2>1. payment' \in [CardTrips -> PaymentRow]
    BY <1>1, <1>p DEF CompleteRide, PaymentRow
  <2>2. QED
    BY <1>1, <1>k, <2>1 DEF CompleteRide, CardTypeOK
<1>2. ASSUME NEW r \in CardReqs, NEW t \in CardTrips, EstimateCardCharge(r, t) PROVE CardTypeOK'
  BY <1>2, <1>k, StoreTyped DEF EstimateCardCharge, CardTypeOK
<1>3. ASSUME NEW r \in CardReqs, NEW t \in CardTrips,
             CreateLink(r, t) \/ ChargeWithToken(r, t)
      PROVE  CardTypeOK'
  <2>1. payment' \in [CardTrips -> PaymentRow]
    BY <1>3, <1>k, StoreTyped DEF CreateLink, ChargeWithToken
  <2>2. cardReq' \in [CardReqs -> CardCall]
    BY <1>3, CardBeginTyped DEF CreateLink, ChargeWithToken
  <2>3. QED
    BY <1>3, <1>k, <2>1, <2>2 DEF CreateLink, ChargeWithToken, CardTypeOK
<1>17. ASSUME NEW r \in CardReqs, NEW t \in CardTrips, NEW p \in CardTrips, NEW outcome \in Outcomes,
              ConfirmPayment(r, t, p, outcome)
       PROVE  CardTypeOK'
  <2>1. [op |-> "confirm", trip |-> t, paidFor |-> p, outcome |-> outcome] \in CardCall
    BY DEF CardCall
  <2>2. cardReq' \in [CardReqs -> CardCall]
    BY <1>17, <2>1, CardStepTyped DEF ConfirmPayment, CardBegin, CardStep
  <2>3. QED
    BY <1>17, <1>k, <2>2 DEF ConfirmPayment, CardTypeOK
<1>4. ASSUME NEW r \in CardReqs, LinkOpened(r) PROVE CardTypeOK'
  <2>1. link' \in [CardTrips -> {"none", "open"}]
    BY <1>4, <1>c DEF LinkOpened, CardTypeOK
  <2>2. QED
    BY <1>4, <1>k, <2>1, CardEndTyped DEF LinkOpened, CardTypeOK
<1>5. ASSUME NEW r \in CardReqs, ConfirmAnswer(r) PROVE CardTypeOK'
  <2> DEFINE t == cardReq[r].trip
  <2>1. t \in CardTrips /\ cardToken' \in BOOLEAN
    BY <1>5, <1>c DEF ConfirmAnswer, CardTypeOK
  <2>2. PICK op \in {"settle", "refused"} : CardStep(r, [op |-> op, trip |-> t])
    BY <1>5 DEF ConfirmAnswer
  <2>3. [op |-> op, trip |-> t] \in CardCall
    BY <2>1 DEF CardCall
  <2>4. cardReq' \in [CardReqs -> CardCall]
    BY <2>2, <2>3, CardStepTyped
  <2>5. QED
    BY <1>5, <1>k, <2>1, <2>4 DEF ConfirmAnswer, CardTypeOK
<1>6. ASSUME NEW r \in CardReqs, ChargeAnswer(r) PROVE CardTypeOK'
  <2> DEFINE t == cardReq[r].trip
  <2>1. t \in CardTrips
    BY <1>6, <1>c DEF ChargeAnswer
  <2>2. PICK op \in {"settle", "refused"} : CardStep(r, [op |-> op, trip |-> t])
    BY <1>6 DEF ChargeAnswer
  <2>3. [op |-> op, trip |-> t] \in CardCall
    BY <2>1 DEF CardCall
  <2>4. cardReq' \in [CardReqs -> CardCall]
    BY <2>2, <2>3, CardStepTyped
  <2>5. charges' \in [CardTrips -> Nat]
    BY <1>6, <2>1, ChargeTyped DEF ChargeAnswer
  <2>6. QED
    BY <1>6, <1>k, <2>4, <2>5 DEF ChargeAnswer, CardTypeOK
<1>7. ASSUME NEW r \in CardReqs, AnswerLost(r) PROVE CardTypeOK'
  <2>1. charges' \in [CardTrips -> Nat]
    BY <1>7, <1>k, <1>c, ChargeTyped DEF AnswerLost
  <2>2. QED
    BY <1>7, <1>k, <2>1, CardEndTyped DEF AnswerLost, CardTypeOK
<1>8. ASSUME NEW r \in CardReqs, SettleRefused(r) PROVE CardTypeOK'
  <2>1. payment' \in [CardTrips -> PaymentRow]
    BY <1>8, <1>c, <1>p DEF SettleRefused, PaymentRow
  <2>2. QED
    BY <1>8, <1>k, <2>1, CardEndTyped DEF SettleRefused, CardTypeOK
<1>9. ASSUME NEW r \in CardReqs, SettleApproved(r) PROVE CardTypeOK'
  <2>1. payment' \in [CardTrips -> PaymentRow]
    BY <1>9, <1>c, <1>p DEF SettleApproved, PaymentRow
  <2>2. [cardReq[r] EXCEPT !.op = "credit"] \in CardCall
    BY <1>9, <1>c DEF SettleApproved, CardCall
  <2>3. cardReq' \in [CardReqs -> CardCall]
    BY <1>9, <2>2, CardStepTyped, CardEndTyped DEF SettleApproved
  <2>4. QED
    BY <1>9, <1>k, <2>1, <2>3 DEF SettleApproved, CardTypeOK
<1>10. ASSUME NEW r \in CardReqs, CreditRead(r) PROVE CardTypeOK'
  <2> DEFINE t == cardReq[r].trip
  <2>1. t \in CardTrips
    BY <1>10, <1>c DEF CreditRead
  <2>2. cardBalance[PayeeOf[t]] \in Int
    BY <2>1 DEF CardTypeOK
  <2>3. [op |-> "balance", trip |-> t, before |-> cardBalance[PayeeOf[t]]] \in CardCall
    BY <2>1, <2>2 DEF CardCall
  <2>4. QED
    BY <1>10, <1>k, <2>3, CardStepTyped DEF CreditRead, CardTypeOK
<1>11. ASSUME NEW r \in CardReqs, CreditWrite(r) PROVE CardTypeOK'
  <2> DEFINE t == cardReq[r].trip
  <2>1. t \in CardTrips /\ cardReq[r].before \in Int
    BY <1>11, <1>c DEF CreditWrite
  <2>2. cardBalance' \in [Payees -> Int]
    BY <1>11, <2>1, ShareIsNat DEF CreditWrite, CardTypeOK
  <2>3. [cardReq[r] EXCEPT !.op = "entry"] \in CardCall
    BY <1>11, <1>c DEF CreditWrite, CardCall
  <2>4. QED
    BY <1>11, <1>k, <2>2, <2>3, CardStepTyped DEF CreditWrite, CardTypeOK
<1>12. ASSUME NEW r \in CardReqs, CreditEntry(r) PROVE CardTypeOK'
  <2> DEFINE t == cardReq[r].trip
             entry == [kind |-> "earning", trip |-> t, amount |-> Share(t),
                       before |-> cardReq[r].before, after |-> cardReq[r].before + Share(t)]
  <2>1. t \in CardTrips /\ cardReq[r].before \in Int
    BY <1>12, <1>c DEF CreditEntry
  <2>2. entry \in CardEntry
    BY <2>1, ShareIsNat DEF CardEntry
  <2>3. cardBook' \in [Payees -> Seq(CardEntry)]
    BY <1>12, <2>1, <2>2, BookTyped DEF CreditEntry
  <2>4. QED
    BY <1>12, <1>k, <2>3, CardEndTyped DEF CreditEntry, CardTypeOK
<1>13. ASSUME NEW r \in CardReqs, NEW d \in Payees, PayoutCardBalance(r, d) PROVE CardTypeOK'
  <2> DEFINE entry == [kind |-> "payout", amount |-> cardBalance[d], before |-> cardBalance[d],
                       after |-> 0]
  <2>1. entry \in CardEntry
    BY DEF CardEntry, CardTypeOK
  <2>2. cardBook' \in [Payees -> Seq(CardEntry)]
    BY <1>13, <2>1, BookTyped DEF PayoutCardBalance
  <2>3. cardBalance' \in [Payees -> Int]
    BY <1>13 DEF PayoutCardBalance, CardTypeOK
  <2>4. QED
    BY <1>13, <1>k, <2>2, <2>3 DEF PayoutCardBalance, CardTypeOK
<1>14. ASSUME NEW t \in CardTrips, PayLink(t) PROVE CardTypeOK'
  <2>1. link' \in [CardTrips -> {"none", "open"}]
    BY <1>14 DEF PayLink, CardTypeOK
  <2>2. charges' \in [CardTrips -> Nat]
    BY <1>14, ChargeTyped DEF PayLink
  <2>3. paid' \in [CardTrips -> SUBSET Outcomes]
    <3>1. PICK outcome \in Outcomes : paid' = [paid EXCEPT ![t] = @ \cup {outcome}]
      BY <1>14 DEF PayLink, Outcomes
    <3>2. paid[t] \cup {outcome} \in SUBSET Outcomes
      BY <1>p
    <3>3. QED
      BY <3>1, <3>2, <1>p
  <2>4. QED
    BY <1>14, <1>k, <2>1, <2>2, <2>3 DEF PayLink, CardTypeOK
<1>15. CASE UNCHANGED cardVars
  BY <1>15, <1>k DEF cardVars, CardTypeOK
<1>18. ASSUME NEW r \in CardReqs, SettlingCut(r) PROVE CardTypeOK'
  <2>1. cut' \in [CardTrips -> {"no", "unpaid", "unbooked"}]
    BY <1>18 DEF SettlingCut, CardTypeOK
  <2>2. QED
    BY <1>18, <1>k, <2>1, CardEndTyped DEF SettlingCut, CardTypeOK
<1>16. QED
  BY <1>1, <1>2, <1>3, <1>4, <1>5, <1>6, <1>7, <1>8, <1>9, <1>10, <1>11, <1>12, <1>13, <1>14, <1>15,
     <1>17, <1>18
  DEF CardNext, Settling

(* The rows, books and calls of card payments stay within their columns. *)
THEOREM CardTyped == CardSpec => []CardTypeOK
BY CardInitTyped, CardNextTyped, PTL DEF CardSpec

-----------------------------------------------------------------------------
(* What the driver is credited for has come in, however calls overlap. *)

(* A page of the gateway, a charge or a call that asks for one stands for a trip
   whose amount is stored; an approval and what follows it for a charge. *)
TripStored(t) ==
  /\ link[t] = "open" \/ charges[t] > 0 => payment[t].charged = CardAmount(Fare[t])
  /\ "approved" \in paid[t] \/ cut[t] # "no" => charges[t] > 0

CallStored(r) ==
  /\ cardReq[r].op \in {"link", "charge"} =>
       payment[cardReq[r].trip].charged = CardAmount(Fare[cardReq[r].trip])
  /\ cardReq[r].op = "confirm" /\ cardReq[r].outcome = "approved" => charges[cardReq[r].trip] > 0
  /\ cardReq[r].op \in {"settle"} \cup CreditCalls => charges[cardReq[r].trip] > 0

ChargesStored == (\A t \in CardTrips : TripStored(t)) /\ (\A r \in CardReqs : CallStored(r))

(* An entry of a driver's book is his share of a trip of his that was charged. *)
EntryEarned(d, e) ==
  e.kind = "earning" => PayeeOf[e.trip] = d /\ e.amount = Share(e.trip) /\ charges[e.trip] > 0

EntriesEarned == \A d \in Payees : \A i \in DOMAIN cardBook[d] : EntryEarned(d, cardBook[d][i])

(* Each credit, with the commission the platform keeps of the trip, is covered
   by what the gateway pays for the charges of that trip. *)
CreditsCovered ==
  \A d \in Payees : \A i \in DOMAIN cardBook[d] :
    LET e == cardBook[d][i] IN
    e.kind = "earning" =>
      e.amount + Commission[e.trip] <= charges[e.trip] * Settled(payment[e.trip].charged)

LEMMA ChargesStoredKept ==
  ASSUME CardTypeOK, CardTypeOK', ChargesStored, PaysForItsTrip', [CardNext]_cardVars
  PROVE  /\ ChargesStored'
         /\ \A t \in CardTrips : charges[t] > 0 => charges'[t] > 0
<1> USE DEF gatewayVars, payeeVars, ChargesStored, TripStored, CallStored, CreditCalls
<1>c. /\ cardReq \in [CardReqs -> CardCall]
      /\ \A r \in CardReqs : cardReq[r].op # "idle" => cardReq[r].trip \in CardTrips
  BY DEF CardTypeOK, CardCall
<1>d. /\ \A t \in CardTrips : charges[t] \in Nat /\ payment[t] \in PaymentRow
      /\ charges \in [CardTrips -> Nat] /\ link \in [CardTrips -> {"none", "open"}]
      /\ paid \in [CardTrips -> SUBSET Outcomes] /\ cut \in [CardTrips -> {"no", "unpaid", "unbooked"}]
      /\ payment \in [CardTrips -> PaymentRow]
  BY DEF CardTypeOK
<1>t. /\ \A t \in CardTrips : charges[t] \in Nat /\ payment[t] \in PaymentRow
      /\ charges \in [CardTrips -> Nat] /\ link \in [CardTrips -> {"none", "open"}]
      /\ paid \in [CardTrips -> SUBSET Outcomes] /\ cut \in [CardTrips -> {"no", "unpaid", "unbooked"}]
      /\ payment \in [CardTrips -> PaymentRow] /\ cardReq \in [CardReqs -> CardCall]
      /\ \A r \in CardReqs : cardReq[r].op # "idle" => cardReq[r].trip \in CardTrips
  BY <1>c, <1>d
<1> DEFINE Goal == ChargesStored' /\ \A t \in CardTrips : charges[t] > 0 => charges'[t] > 0
<1>s. ASSUME NEW t \in CardTrips, StoreAmounts(t)
      PROVE  /\ payment'[t].charged = CardAmount(Fare[t])
             /\ \A u \in CardTrips : u # t => payment'[u] = payment[u]
  BY <1>s, <1>t DEF StoreAmounts, PaymentRow
<1>e. ASSUME NEW r \in CardReqs, CardEnd(r)
      PROVE  cardReq'[r].op = "idle" /\ \A q \in CardReqs : q # r => cardReq'[q] = cardReq[q]
  BY <1>e, <1>t DEF CardEnd, CardStep
<1>b. ASSUME NEW r \in CardReqs, NEW call, CardStep(r, call) \/ CardBegin(r, call)
      PROVE  cardReq'[r] = call /\ \A q \in CardReqs : q # r => cardReq'[q] = cardReq[q]
  BY <1>b, <1>t DEF CardBegin, CardStep
<1>1. ASSUME NEW r \in CardReqs, NEW t \in CardTrips, CompleteRide(r, t) PROVE Goal
  <2>1. \A u \in CardTrips : payment'[u].charged = payment[u].charged
    BY <1>1, <1>t DEF CompleteRide, PaymentRow
  <2>2. QED
    BY <1>1, <1>t, <2>1 DEF CompleteRide
<1>2. ASSUME NEW r \in CardReqs, NEW t \in CardTrips, EstimateCardCharge(r, t) PROVE Goal
  BY <1>2, <1>s, <1>t DEF EstimateCardCharge
<1>3. ASSUME NEW r \in CardReqs, NEW t \in CardTrips, CreateLink(r, t) PROVE Goal
  BY <1>3, <1>s, <1>b, <1>t DEF CreateLink
<1>4. ASSUME NEW r \in CardReqs, NEW t \in CardTrips, NEW p \in CardTrips, NEW outcome \in Outcomes,
             ConfirmPayment(r, t, p, outcome)
      PROVE  Goal
  <2>1. /\ cardReq'[r] = [op |-> "confirm", trip |-> t, paidFor |-> p, outcome |-> outcome]
        /\ \A q \in CardReqs : q # r => cardReq'[q] = cardReq[q]
    BY <1>4, <1>b DEF ConfirmPayment
  <2>2. p = t
    BY <2>1 DEF PaysForItsTrip
  <2>3. QED
    BY <1>4, <1>t, <2>1, <2>2 DEF ConfirmPayment
<1>5. ASSUME NEW r \in CardReqs, NEW t \in CardTrips, ChargeWithToken(r, t) PROVE Goal
  BY <1>5, <1>s, <1>b, <1>t DEF ChargeWithToken
<1>6. ASSUME NEW r \in CardReqs, LinkOpened(r) PROVE Goal
  BY <1>6, <1>e, <1>t DEF LinkOpened
<1>7. ASSUME NEW r \in CardReqs, ConfirmAnswer(r) PROVE Goal
  BY <1>7, <1>b, <1>t DEF ConfirmAnswer
<1>8. ASSUME NEW r \in CardReqs, ChargeAnswer(r) PROVE Goal
  <2> DEFINE t == cardReq[r].trip
  <2>1. t \in CardTrips /\ payment[t].charged = CardAmount(Fare[t])
    BY <1>8, <1>t DEF ChargeAnswer
  <2>2. CASE charges' = [charges EXCEPT ![t] = @ + 1] /\ CardStep(r, [op |-> "settle", trip |-> t])
    <3>1. charges'[t] > 0 /\ \A u \in CardTrips : u # t => charges'[u] = charges[u]
      BY <2>1, <2>2, <1>t
    <3>2. QED
      BY <1>8, <1>b, <1>t, <2>1, <2>2, <3>1 DEF ChargeAnswer
  <2>3. CASE UNCHANGED charges /\ CardStep(r, [op |-> "refused", trip |-> t])
    BY <1>8, <1>b, <1>t, <2>1, <2>3 DEF ChargeAnswer
  <2>4. QED
    BY <1>8, <2>2, <2>3 DEF ChargeAnswer
<1>9. ASSUME NEW r \in CardReqs, AnswerLost(r) PROVE Goal
  <2>0. PICK t \in CardTrips : t = cardReq[r].trip
    BY <1>9, <1>t DEF AnswerLost
  <2>1. t \in CardTrips /\ (cardReq[r].op = "charge" => payment[t].charged = CardAmount(Fare[t]))
    BY <1>9, <1>t, <2>0 DEF AnswerLost
  <2>2. \A u \in CardTrips : /\ charges[u] > 0 => charges'[u] > 0
                             /\ u # t \/ cardReq[r].op # "charge" => charges'[u] = charges[u]
    BY <1>9, <1>t, <2>0, <2>1 DEF AnswerLost
  <2>3. /\ UNCHANGED <<payment, link, paid, cut>>
        /\ cardReq'[r].op = "idle" /\ \A q \in CardReqs : q # r => cardReq'[q] = cardReq[q]
    BY <1>9, <1>e DEF AnswerLost
  <2>4. \A u \in CardTrips : TripStored(u)'
    <3>1. CASE cardReq[r].op = "charge"
      <4>1. TripStored(t)'
        BY <1>t, <2>1, <2>2, <2>3, <3>1
      <4>2. \A u \in CardTrips : u # t => TripStored(u)'
        BY <1>t, <2>2, <2>3
      <4>3. QED
        BY <4>1, <4>2
    <3>2. CASE cardReq[r].op # "charge"
      BY <1>t, <2>2, <2>3, <3>2
    <3>3. QED
      BY <3>1, <3>2
  <2>5. \A q \in CardReqs : CallStored(q)'
    BY <1>t, <2>2, <2>3
  <2>6. QED
    BY <2>2, <2>4, <2>5
<1>10. ASSUME NEW r \in CardReqs, SettleRefused(r) \/ SettleApproved(r) PROVE Goal
  <2>t. cardReq[r].trip \in CardTrips
    BY <1>10, <1>t DEF SettleRefused, SettleApproved
  <2>1. \A u \in CardTrips : payment'[u].charged = payment[u].charged
    <3>1. PICK t \in CardTrips : \E verdict :
            payment' = [payment EXCEPT ![t] = [payment[t] EXCEPT !.status = verdict]]
      BY <1>10, <2>t DEF SettleRefused, SettleApproved
    <3>2. QED
      BY <3>1, <1>t DEF PaymentRow
  <2>2. UNCHANGED <<link, paid, charges, cut>>
    BY <1>10 DEF SettleRefused, SettleApproved
  <2>3. /\ \A q \in CardReqs : q # r => cardReq'[q] = cardReq[q]
        /\ cardReq'[r].op = "idle" \/ cardReq'[r].trip = cardReq[r].trip
    BY <1>10, <1>e, <1>b, <1>t DEF SettleRefused, SettleApproved, CardCall
  <2>4. cardReq[r].op \in {"refused", "settle"} /\ (cardReq[r].op = "refused" => cardReq'[r].op = "idle")
    BY <1>10, <1>e DEF SettleRefused, SettleApproved
  <2>5. QED
    BY <1>t, <2>1, <2>2, <2>3, <2>4
<1>11. ASSUME NEW r \in CardReqs, CreditRead(r) \/ CreditWrite(r) \/ CreditEntry(r) PROVE Goal
  <2>1. UNCHANGED <<payment, link, paid, charges, cut>> /\ cardReq[r].op \in CreditCalls
    BY <1>11 DEF CreditRead, CreditWrite, CreditEntry
  <2>2. PICK call : /\ call.op = "idle" \/ (call.op \in {"balance", "entry"} /\ call.trip = cardReq[r].trip)
                    /\ cardReq'[r] = call /\ \A q \in CardReqs : q # r => cardReq'[q] = cardReq[q]
    <3>1. CASE CreditRead(r)
      <4>1. PICK call : call = [op |-> "balance", trip |-> cardReq[r].trip,
                                before |-> cardBalance[PayeeOf[cardReq[r].trip]]]
        OBVIOUS
      <4>2. CardStep(r, call) /\ call.op = "balance" /\ call.trip = cardReq[r].trip
        BY <3>1, <4>1 DEF CreditRead
      <4>3. QED
        BY <4>2, <1>b
    <3>2. CASE CreditWrite(r)
      <4>1. cardReq[r] \in CardCall /\ cardReq[r].op = "balance"
        BY <3>2, <1>t DEF CreditWrite
      <4>2. PICK call : call = [cardReq[r] EXCEPT !.op = "entry"]
        OBVIOUS
      <4>3. CardStep(r, call) /\ call.op = "entry" /\ call.trip = cardReq[r].trip
        BY <3>2, <4>1, <4>2 DEF CreditWrite, CardCall
      <4>4. QED
        BY <4>3, <1>b
    <3>3. CASE CreditEntry(r)
      BY <3>3, <1>e DEF CreditEntry
    <3>4. QED
      BY <1>11, <3>1, <3>2, <3>3
  <2>3. QED
    BY <1>t, <2>1, <2>2
<1>12. ASSUME NEW r \in CardReqs, NEW d \in Payees, PayoutCardBalance(r, d) PROVE Goal
  BY <1>12, <1>t DEF PayoutCardBalance
<1>13. ASSUME NEW t \in CardTrips, PayLink(t) PROVE Goal
  <2>1. \A u \in CardTrips : /\ charges[u] > 0 => charges'[u] > 0
                             /\ u # t => charges'[u] = charges[u] /\ link'[u] = link[u] /\ paid'[u] = paid[u]
    BY <1>13, <1>t DEF PayLink
  <2>2. "approved" \in paid'[t] => charges'[t] > 0
    BY <1>13, <1>t DEF PayLink
  <2>3. UNCHANGED <<payment, cardReq, cut>> /\ link[t] = "open" /\ link'[t] = "none"
    BY <1>13, <1>t DEF PayLink
  <2>4. TripStored(t)' /\ \A u \in CardTrips : u # t => TripStored(u)'
    BY <1>t, <2>1, <2>2, <2>3
  <2>5. \A q \in CardReqs : CallStored(q)'
    BY <1>t, <2>1, <2>3
  <2>6. QED
    BY <2>1, <2>4, <2>5
<1>14. CASE UNCHANGED cardVars
  BY <1>14 DEF cardVars
<1>16. ASSUME NEW r \in CardReqs, SettlingCut(r) PROVE Goal
  <2>1. /\ UNCHANGED <<payment, link, paid, charges>>
        /\ cardReq'[r].op = "idle" /\ \A q \in CardReqs : q # r => cardReq'[q] = cardReq[q]
    BY <1>16, <1>e DEF SettlingCut
  <2>2. \A u \in CardTrips : cut'[u] = cut[u] \/ (u = cardReq[r].trip /\ cardReq[r].op \in CreditCalls)
    BY <1>16, <1>t DEF SettlingCut
  <2>3. QED
    BY <1>t, <2>1, <2>2
<1>15. QED
  BY <1>16, <1>1, <1>2, <1>3, <1>4, <1>5, <1>6, <1>7, <1>8, <1>9, <1>10, <1>11, <1>12, <1>13, <1>14
  DEF CardNext, Settling

(* The driver whose book a step adds to, if any, and the entry. *)
CreditOf(r) ==
  [kind |-> "earning", trip |-> cardReq[r].trip, amount |-> Share(cardReq[r].trip),
   before |-> cardReq[r].before, after |-> cardReq[r].before + Share(cardReq[r].trip)]

PayoutTo(d) == [kind |-> "payout", amount |-> cardBalance[d], before |-> cardBalance[d], after |-> 0]

LEMMA BookSteps ==
  ASSUME CardTypeOK, [CardNext]_cardVars
  PROVE  \/ UNCHANGED cardBook
         \/ \E r \in CardReqs :
              /\ cardReq[r].op = "entry"
              /\ cardBook' = [cardBook EXCEPT ![PayeeOf[cardReq[r].trip]] = Append(@, CreditOf(r))]
         \/ \E d \in Payees : cardBook' = [cardBook EXCEPT ![d] = Append(@, PayoutTo(d))]
<1> USE DEF payeeVars, gatewayVars
<1>1. ASSUME NEW r \in CardReqs, CreditEntry(r)
      PROVE  /\ cardReq[r].op = "entry"
             /\ cardBook' = [cardBook EXCEPT ![PayeeOf[cardReq[r].trip]] = Append(@, CreditOf(r))]
  BY <1>1 DEF CreditEntry, CreditOf
<1>2. ASSUME NEW r \in CardReqs, NEW d \in Payees, PayoutCardBalance(r, d)
      PROVE  cardBook' = [cardBook EXCEPT ![d] = Append(@, PayoutTo(d))]
  BY <1>2 DEF PayoutCardBalance, PayoutTo
<1>3. ASSUME NEW r \in CardReqs, NEW t \in CardTrips,
             \/ CompleteRide(r, t) \/ EstimateCardCharge(r, t) \/ CreateLink(r, t)
             \/ ChargeWithToken(r, t)
             \/ \E p \in CardTrips, outcome \in Outcomes : ConfirmPayment(r, t, p, outcome)
      PROVE  UNCHANGED cardBook
  BY <1>3 DEF CompleteRide, EstimateCardCharge, CreateLink, ConfirmPayment, ChargeWithToken
<1>4. ASSUME NEW r \in CardReqs,
             \/ LinkOpened(r) \/ ConfirmAnswer(r) \/ ChargeAnswer(r) \/ AnswerLost(r)
             \/ SettleRefused(r) \/ SettleApproved(r) \/ CreditRead(r) \/ CreditWrite(r) \/ SettlingCut(r)
      PROVE  UNCHANGED cardBook
  BY <1>4 DEF LinkOpened, ConfirmAnswer, ChargeAnswer, AnswerLost, SettleRefused, SettleApproved,
              CreditRead, CreditWrite, SettlingCut
<1>5. ASSUME NEW t \in CardTrips, PayLink(t) PROVE UNCHANGED cardBook
  BY <1>5 DEF PayLink
<1>6. QED
  BY <1>1, <1>2, <1>3, <1>4, <1>5 DEF CardNext, Settling, cardVars

LEMMA EntriesEarnedKept ==
  ASSUME CardTypeOK, CardTypeOK', ChargesStored, EntriesEarned, PaysForItsTrip', [CardNext]_cardVars
  PROVE  EntriesEarned'
<1>c. \A t \in CardTrips : charges[t] > 0 => charges'[t] > 0
  BY ChargesStoredKept
<1>t. \A d \in Payees : cardBook[d] \in Seq(CardEntry)
  BY DEF CardTypeOK
<1> DEFINE Later(d, e) ==
      e.kind = "earning" => PayeeOf[e.trip] = d /\ e.amount = Share(e.trip) /\ charges'[e.trip] > 0
<1>m. \A d \in Payees : \A e \in CardEntry : EntryEarned(d, e) => Later(d, e)
  BY <1>c DEF EntryEarned, CardEntry
<1>o. \A d \in Payees : \A i \in DOMAIN cardBook[d] : Later(d, cardBook[d][i])
  BY <1>t, <1>m DEF EntriesEarned
<1>a. ASSUME NEW d \in Payees, NEW e, Later(d, e), cardBook' = [cardBook EXCEPT ![d] = Append(@, e)]
      PROVE  EntriesEarned'
  <2> HIDE DEF Later
  <2>1. \A b \in Payees : b # d => cardBook'[b] = cardBook[b]
    BY <1>a DEF CardTypeOK
  <2>2. cardBook'[d] = Append(cardBook[d], e)
    BY <1>a DEF CardTypeOK
  <2>3. \A i \in DOMAIN cardBook'[d] : Later(d, cardBook'[d][i])
    BY <2>2, <1>o, <1>t, <1>a
  <2>4. \A b \in Payees : \A i \in DOMAIN cardBook'[b] : Later(b, cardBook'[b][i])
    BY <2>1, <2>3, <1>o
  <2>5. QED
    BY <2>4 DEF Later, EntriesEarned, EntryEarned
<1>1. CASE UNCHANGED cardBook
  BY <1>1, <1>o DEF EntriesEarned, EntryEarned
<1>2. ASSUME NEW r \in CardReqs, cardReq[r].op = "entry",
             cardBook' = [cardBook EXCEPT ![PayeeOf[cardReq[r].trip]] = Append(@, CreditOf(r))]
      PROVE  EntriesEarned'
  <2>1. cardReq[r].trip \in CardTrips
    BY <1>2 DEF CardTypeOK, CardCall
  <2>2. Later(PayeeOf[cardReq[r].trip], CreditOf(r))
    BY <1>2, <2>1, <1>c DEF CreditOf, ChargesStored, CallStored, CreditCalls
  <2>3. QED
    BY <1>2, <2>1, <2>2, <1>a
<1>3. ASSUME NEW d \in Payees, cardBook' = [cardBook EXCEPT ![d] = Append(@, PayoutTo(d))]
      PROVE  EntriesEarned'
  <2>1. Later(d, PayoutTo(d))
    BY DEF PayoutTo
  <2>2. QED
    BY <1>3, <2>1, <1>a
<1>4. QED
  BY <1>1, <1>2, <1>3, BookSteps

LEMMA AtLeastOne ==
  ASSUME NEW n \in Nat, n > 0, NEW s \in Nat
  PROVE  n * s >= s
BY Z3

LEMMA EarnedIsCovered ==
  ASSUME CardTypeOK, ChargesStored, EntriesEarned
  PROVE  CreditsCovered
<1> SUFFICES ASSUME NEW d \in Payees, NEW i \in DOMAIN cardBook[d], cardBook[d][i].kind = "earning"
             PROVE  cardBook[d][i].amount + Commission[cardBook[d][i].trip]
                      <= charges[cardBook[d][i].trip] * Settled(payment[cardBook[d][i].trip].charged)
  BY DEF CreditsCovered
<1>1. PICK e : e = cardBook[d][i]
  OBVIOUS
<1>2. e \in CardEntry
  BY <1>1 DEF CardTypeOK
<1>3. PICK t \in CardTrips : t = e.trip
  BY <1>1, <1>2 DEF CardEntry
<1>4. e.amount = Share(t) /\ charges[t] > 0
  BY <1>1, <1>3 DEF EntriesEarned, EntryEarned
<1>5. payment[t].charged = CardAmount(Fare[t])
  BY <1>4 DEF ChargesStored, TripStored
<1>6. PICK s \in Nat : s = Settled(payment[t].charged) /\ s >= Fare[t]
  BY <1>5, ChargeCoversFare, ShareIsNat
<1>7. charges[t] * s >= s /\ charges[t] * s \in Nat
  <2>1. PICK n \in Nat : n = charges[t]
    BY DEF CardTypeOK
  <2>2. n * s >= s /\ n * s \in Nat
    BY <2>1, <1>4, AtLeastOne
  <2>3. QED
    BY <2>1, <2>2
<1>8. Share(t) + Commission[t] = Fare[t]
  BY ShareIsNat DEF Share
<1>9. Fare[t] <= charges[t] * s
  BY <1>6, <1>7, ShareIsNat
<1>10. QED
  BY <1>1, <1>3, <1>4, <1>6, <1>8, <1>9

LEMMA CardInitEarned == CardInit => ChargesStored /\ EntriesEarned
BY DEF CardInit, ChargesStored, TripStored, CallStored, EntriesEarned, CreditCalls

(* However confirmations, charges and refusals overlap and wherever a settlement
   is cut short, no driver's book holds a credit that the gateway's charges for that
   trip do not cover, with the commission, as long as payments are confirmed for
   the trips they were made for. *)
THEOREM CreditsAreCovered == CardSpec /\ []PaysForItsTrip => []CreditsCovered
<1>1. CardTypeOK /\ ChargesStored /\ EntriesEarned /\ PaysForItsTrip' /\ [CardNext]_cardVars
        => CardTypeOK' /\ ChargesStored' /\ EntriesEarned'
  BY CardNextTyped, ChargesStoredKept, EntriesEarnedKept
<1>2. CardTypeOK /\ ChargesStored /\ EntriesEarned => CreditsCovered
  BY EarnedIsCovered
<1>3. QED
  BY <1>1, <1>2, CardInitTyped, CardInitEarned, PTL DEF CardSpec

-----------------------------------------------------------------------------
(* The books, where calls stay apart.  No assumption is made of which trip a
   payment was for: a driver credited for what another trip paid is in the book
   all the same. *)

(* A payment is marked by the call that settles it, and a completed one is in
   the book once, or its credit is on the way, unless it was cut short. *)
CallMarked(r) ==
  /\ cardReq[r].op \in AnswerCalls => payment[cardReq[r].trip].status # "completed"
  /\ cardReq[r].op \in CreditCalls =>
       /\ payment[cardReq[r].trip].status = "completed"
       /\ Earnings(cardReq[r].trip) = {} /\ cut[cardReq[r].trip] = "no"

Booked(t) == \E i \in Earnings(t) : Earnings(t) = {i}

Crediting(t) == \E r \in CardReqs : cardReq[r].op \in CreditCalls /\ cardReq[r].trip = t

TripMarked(t) ==
  Share(t) > 0 =>
    IF payment[t].status = "completed" /\ cut[t] = "no" THEN Booked(t) \/ Crediting(t)
    ELSE Earnings(t) = {} /\ (payment[t].status # "completed" => cut[t] = "no")

CompletedOnce == (\A r \in CardReqs : CallMarked(r)) /\ (\A t \in CardTrips : TripMarked(t))

(* The balance is what the book carries, but for the credit being written, and
   until a cut parts them. *)
Parted(d) == \E t \in CardTrips : PayeeOf[t] = d /\ cut[t] = "unbooked"

Ending(d) == Carried(cardBook[d], Len(cardBook[d]))

Writing(d) == \E r \in CardReqs : cardReq[r].op = "entry" /\ PayeeOf[cardReq[r].trip] = d

CallCarries(r) ==
  /\ cardReq[r].op = "balance" => cardReq[r].before = cardBalance[PayeeOf[cardReq[r].trip]]
  /\ cardReq[r].op = "entry" =>
       /\ Parted(PayeeOf[cardReq[r].trip]) \/ cardReq[r].before = Ending(PayeeOf[cardReq[r].trip])
       /\ cardBalance[PayeeOf[cardReq[r].trip]] = cardReq[r].before + Share(cardReq[r].trip)

BooksCarry ==
  /\ \A d \in Payees :
       Parted(d) \/ (EntriesChain(cardBook[d]) /\ (cardBalance[d] = Ending(d) \/ Writing(d)))
  /\ \A r \in CardReqs : CallCarries(r)

CardIInv == CardTypeOK /\ CardApart /\ CompletedOnce /\ BooksCarry

LEMMA CarriedOn ==
  ASSUME NEW book \in Seq(CardEntry), NEW e \in CardEntry, EntriesChain(book),
         e.before = Carried(book, Len(book)), EntryAdds(e)
  PROVE  /\ EntriesChain(Append(book, e))
         /\ Carried(Append(book, e), Len(Append(book, e))) = e.after
<1> DEFINE more == Append(book, e)
<1>1. /\ DOMAIN more = 1..(Len(book) + 1) /\ Len(more) = Len(book) + 1 /\ more[Len(book) + 1] = e
      /\ \A i \in 1..Len(book) : more[i] = book[i]
      /\ DOMAIN book = 1..Len(book) /\ Len(book) \in Nat
  OBVIOUS
<1>2. \A i \in 0..Len(book) : Carried(more, i) = Carried(book, i)
  BY <1>1 DEF Carried
<1> HIDE DEF more
<1>3. ASSUME NEW i \in DOMAIN more PROVE more[i].before = Carried(more, i - 1) /\ EntryAdds(more[i])
  <2>1. CASE i = Len(book) + 1
    BY <1>1, <1>2, <2>1
  <2>2. CASE i \in 1..Len(book)
    <3>1. i - 1 \in 0..Len(book)
      BY <1>1, <2>2
    <3>2. QED
      BY <1>1, <1>2, <2>2, <3>1 DEF EntriesChain
  <2>3. QED
    BY <1>1, <1>3, <2>1, <2>2
<1>4. Carried(more, Len(more)) = e.after
  BY <1>1 DEF Carried
<1>5. QED
  BY <1>3, <1>4 DEF EntriesChain, more

LEMMA CreditsAppend ==
  ASSUME NEW book \in Seq(CardEntry), NEW e, NEW t
  PROVE  Credits(Append(book, e), t) =
           Credits(book, t) \cup (IF e.kind = "earning" /\ e.trip = t THEN {Len(book) + 1} ELSE {})
<1> DEFINE more == Append(book, e)
<1>1. /\ DOMAIN more = 1..(Len(book) + 1) /\ more[Len(book) + 1] = e
      /\ \A i \in 1..Len(book) : more[i] = book[i]
      /\ DOMAIN book = 1..Len(book) /\ Len(book) \in Nat
  OBVIOUS
<1> HIDE DEF more
<1>2. Credits(more, t) = Credits(book, t) \cup (IF e.kind = "earning" /\ e.trip = t THEN {Len(book) + 1} ELSE {})
  BY <1>1 DEF Credits
<1>3. QED
  BY <1>2 DEF more

LEMMA CardInitIInv == CardInit => CardIInv
<1> SUFFICES ASSUME CardInit PROVE CardIInv
  OBVIOUS
<1>1. CardTypeOK
  BY CardInitTyped
<1>2. \A r \in CardReqs : cardReq[r].op = "idle"
  BY DEF CardInit
<1>3. \A d \in Payees : cardBook[d] = <<>> /\ cardBalance[d] = 0
  BY DEF CardInit
<1>4. \A t \in CardTrips : payment[t].status = "pending" /\ Earnings(t) = {} /\ cut[t] = "no"
  BY <1>3 DEF CardInit, Earnings, Credits
<1>5. CompletedOnce
  BY <1>2, <1>4 DEF CompletedOnce, CallMarked, TripMarked, AnswerCalls, CreditCalls
<1>6. BooksCarry
  BY <1>2, <1>3 DEF BooksCarry, EntriesChain, Carried, Ending, CallCarries
<1>7. CardApart
  BY <1>2 DEF CardApart, SettleCalls, AnswerCalls, CreditCalls, ReadCalls
<1>8. QED
  BY <1>1, <1>5, <1>6, <1>7 DEF CardIInv

LEMMA CardSlots ==
  ASSUME CardTypeOK, NEW r \in CardReqs
  PROVE  /\ \A call : CardStep(r, call) \/ CardBegin(r, call) =>
              cardReq'[r] = call /\ \A q \in CardReqs : q # r => cardReq'[q] = cardReq[q]
         /\ CardEnd(r) => cardReq'[r].op = "idle" /\ \A q \in CardReqs : q # r => cardReq'[q] = cardReq[q]
BY DEF CardTypeOK, CardStep, CardBegin, CardEnd

(* Only a credit and a payout touch a wallet or what was read of it. *)
LEMMA WalletSteps ==
  ASSUME CardTypeOK, [CardNext]_cardVars
  PROVE  \/ /\ UNCHANGED <<cardBalance, cardBook, cut>>
            /\ \A s \in CardReqs : cardReq'[s].op \in ReadCalls \/ cardReq[s].op \in ReadCalls =>
                                     cardReq'[s] = cardReq[s]
         \/ \E r \in CardReqs : \/ CreditRead(r) \/ CreditWrite(r) \/ CreditEntry(r) \/ SettlingCut(r)
                                \/ \E d \in Payees : PayoutCardBalance(r, d)
<1> USE DEF gatewayVars, payeeVars, ReadCalls
<1> DEFINE Quiet == /\ UNCHANGED <<cardBalance, cardBook, cut>>
                    /\ \A s \in CardReqs : cardReq'[s].op \in ReadCalls \/ cardReq[s].op \in ReadCalls =>
                                             cardReq'[s] = cardReq[s]
<1>1. ASSUME NEW r \in CardReqs, NEW t \in CardTrips,
             \/ CompleteRide(r, t) \/ EstimateCardCharge(r, t) \/ CreateLink(r, t)
             \/ ChargeWithToken(r, t)
      PROVE  Quiet
  <2>1. UNCHANGED <<cardBalance, cardBook, cut>>
    BY <1>1 DEF CompleteRide, EstimateCardCharge, CreateLink, ChargeWithToken
  <2>2. \/ UNCHANGED cardReq
        \/ \E op \in {"link", "charge"} : CardBegin(r, [op |-> op, trip |-> t])
    BY <1>1 DEF CompleteRide, EstimateCardCharge, CreateLink, ChargeWithToken
  <2>3. QED
    BY <2>1, <2>2, CardSlots DEF CardBegin
<1>2. ASSUME NEW r \in CardReqs,
             \/ LinkOpened(r) \/ ConfirmAnswer(r) \/ ChargeAnswer(r) \/ AnswerLost(r)
             \/ SettleRefused(r) \/ SettleApproved(r)
      PROVE  Quiet
  <2>1. UNCHANGED <<cardBalance, cardBook, cut>> /\ cardReq[r].op \notin ReadCalls
    BY <1>2 DEF LinkOpened, ConfirmAnswer, ChargeAnswer, AnswerLost, SettleRefused, SettleApproved
  <2>2. cardReq[r].op = "settle" => [cardReq[r] EXCEPT !.op = "credit"].op = "credit"
    BY DEF CardTypeOK, CardCall
  <2>3. PICK call : CardStep(r, call) /\ call.op \notin ReadCalls
    <3>1. CASE CardEnd(r)
      BY <3>1 DEF CardEnd
    <3>2. CASE \E op \in {"settle", "refused"} : CardStep(r, [op |-> op, trip |-> cardReq[r].trip])
      BY <3>2
    <3>3. CASE cardReq[r].op = "settle" /\ CardStep(r, [cardReq[r] EXCEPT !.op = "credit"])
      BY <3>3, <2>2
    <3>4. QED
      BY <1>2, <3>1, <3>2, <3>3 DEF LinkOpened, ConfirmAnswer, ChargeAnswer, AnswerLost, SettleRefused,
                                    SettleApproved
  <2>4. cardReq'[r].op \notin ReadCalls /\ \A q \in CardReqs : q # r => cardReq'[q] = cardReq[q]
    BY <2>3, CardSlots
  <2>5. QED
    BY <2>1, <2>4
<1>3. ASSUME NEW t \in CardTrips, PayLink(t) PROVE Quiet
  BY <1>3 DEF PayLink
<1>4. CASE UNCHANGED cardVars
  BY <1>4 DEF cardVars
<1>6. ASSUME NEW r \in CardReqs, NEW t \in CardTrips, NEW p \in CardTrips, NEW outcome \in Outcomes,
             ConfirmPayment(r, t, p, outcome)
      PROVE  Quiet
  <2>1. PICK call : call.op = "confirm" /\ CardBegin(r, call)
    <3>1. PICK call : call = [op |-> "confirm", trip |-> t, paidFor |-> p, outcome |-> outcome]
      OBVIOUS
    <3>2. QED
      BY <1>6, <3>1 DEF ConfirmPayment
  <2>2. UNCHANGED <<cardBalance, cardBook, cut>>
    BY <1>6 DEF ConfirmPayment
  <2>3. QED
    BY <2>1, <2>2, CardSlots DEF CardBegin
<1>5. QED
  BY <1>6, <1>1, <1>2, <1>3, <1>4 DEF CardNext, Settling

LEMMA BooksCarryKept ==
  ASSUME CardIInv, CardTypeOK', CardApart', PayoutApart, [CardNext]_cardVars
  PROVE  BooksCarry'
<1> USE DEF gatewayVars, payeeVars, ReadCalls
<1>t. CardTypeOK /\ CardApart /\ BooksCarry /\ CompletedOnce
  BY DEF CardIInv
<1>c. \A r \in CardReqs : cardReq[r].op # "idle" => cardReq[r].trip \in CardTrips
  BY <1>t DEF CardTypeOK, CardCall
<1>p. \A r \in CardReqs : cardReq[r].op \in ReadCalls => PayeeOf[cardReq[r].trip] \in Payees
  BY <1>c
<1>z. UNCHANGED cut => \A d \in Payees : Parted(d)' <=> Parted(d)
  BY DEF Parted
<1>q. ASSUME UNCHANGED <<cardBalance, cardBook, cut>>,
             \A s \in CardReqs : cardReq'[s].op \in ReadCalls \/ cardReq[s].op \in ReadCalls =>
                                   cardReq'[s] = cardReq[s]
      PROVE  BooksCarry'
  <2>1. \A d \in Payees : Ending(d)' = Ending(d) /\ (Writing(d) => Writing(d)')
    BY <1>q DEF Ending, Writing
  <2>2. \A r \in CardReqs : CallCarries(r)'
    BY <1>q, <1>z, <1>p, <1>t, <2>1 DEF BooksCarry, CallCarries
  <2>3. QED
    BY <1>q, <1>z, <1>t, <2>1, <2>2 DEF BooksCarry
<1>3. ASSUME NEW r \in CardReqs, CreditRead(r) PROVE BooksCarry'
  <2>0. PICK d : d = PayeeOf[cardReq[r].trip]
    OBVIOUS
  <2>1. /\ UNCHANGED <<cardBalance, cardBook, cut>> /\ cardReq[r].op = "credit"
        /\ CardStep(r, [op |-> "balance", trip |-> cardReq[r].trip, before |-> cardBalance[d]])
    BY <1>3, <2>0 DEF CreditRead
  <2>2. /\ cardReq'[r] = [op |-> "balance", trip |-> cardReq[r].trip, before |-> cardBalance[d]]
        /\ \A q \in CardReqs : q # r => cardReq'[q] = cardReq[q]
    BY <2>1, <1>t, CardSlots
  <2>3. \A b \in Payees : Ending(b)' = Ending(b) /\ (Writing(b) => Writing(b)')
    BY <2>1, <2>2 DEF Ending, Writing
  <2>4. CallCarries(r)'
    BY <2>0, <2>1, <2>2 DEF CallCarries
  <2>5. \A q \in CardReqs : q # r => CallCarries(q)'
    BY <2>1, <2>2, <2>3, <1>z, <1>p, <1>t DEF BooksCarry, CallCarries
  <2>6. QED
    BY <2>1, <2>3, <2>4, <2>5, <1>z, <1>t DEF BooksCarry
<1>4. ASSUME NEW r \in CardReqs, CreditWrite(r) PROVE BooksCarry'
  <2>q. cardReq[r] \in CardCall /\ cardReq[r].op = "balance"
    BY <1>4, <1>t DEF CreditWrite, CardTypeOK
  <2>0. PICK t \in CardTrips, b \in Int : cardReq[r] = [op |-> "balance", trip |-> t, before |-> b]
    BY <2>q DEF CardCall
  <2>d. PICK d \in Payees : d = PayeeOf[t]
    OBVIOUS
  <2>1. /\ UNCHANGED <<cardBook, cut>> /\ cardBalance' = [cardBalance EXCEPT ![d] = b + Share(t)]
        /\ CardStep(r, [op |-> "entry", trip |-> t, before |-> b])
    BY <1>4, <2>0, <2>d DEF CreditWrite
  <2>s. /\ cardReq'[r] = [op |-> "entry", trip |-> t, before |-> b]
        /\ \A q \in CardReqs : q # r => cardReq'[q] = cardReq[q]
    BY <2>1, <1>t, CardSlots
  <2>2. \A q \in CardReqs : q # r /\ cardReq[q].op \in ReadCalls => PayeeOf[cardReq[q].trip] # d
    BY <2>0, <2>d, <1>t DEF CardApart
  <2>3. Parted(d) \/ b = Ending(d)
    BY <2>0, <2>d, <2>2, <1>t DEF BooksCarry, CallCarries, Writing
  <2>4. cardBalance'[d] = b + Share(t) /\ \A e \in Payees : e # d => cardBalance'[e] = cardBalance[e]
    BY <2>1, <1>t DEF CardTypeOK
  <2>5. \A e \in Payees : Ending(e)' = Ending(e)
    BY <2>1 DEF Ending
  <2>6. CallCarries(r)'
    BY <2>1, <2>3, <2>4, <2>5, <2>s, <2>d, <1>z DEF CallCarries
  <2>7. \A q \in CardReqs : q # r => CallCarries(q)'
    BY <2>1, <2>2, <2>4, <2>5, <2>s, <1>z, <1>p, <1>t DEF BooksCarry, CallCarries
  <2>8. \A e \in Payees : Parted(e) \/ cardBalance'[e] = Ending(e)' \/ Writing(e)'
    BY <2>0, <2>d, <2>4, <2>5, <2>s, <1>t DEF BooksCarry, Writing
  <2>9. QED
    BY <2>1, <2>6, <2>7, <2>8, <1>z, <1>t DEF BooksCarry
<1>a. ASSUME NEW d \in Payees, NEW e \in CardEntry, Parted(d) \/ e.before = Ending(d), EntryAdds(e),
             UNCHANGED cut,
             cardBook' = [cardBook EXCEPT ![d] = Append(@, e)],
             cardBalance'[d] = e.after, \A b \in Payees : b # d => cardBalance'[b] = cardBalance[b],
             \A q \in CardReqs : cardReq'[q].op \in ReadCalls =>
                                  cardReq'[q] = cardReq[q] /\ PayeeOf[cardReq'[q].trip] # d,
             \A q \in CardReqs : cardReq[q].op = "entry" /\ PayeeOf[cardReq[q].trip] # d =>
                                  cardReq'[q] = cardReq[q]
      PROVE  BooksCarry'
  <2>1. cardBook[d] \in Seq(CardEntry) /\ (Parted(d) \/ EntriesChain(cardBook[d]))
    BY <1>t DEF CardTypeOK, BooksCarry
  <2>2. cardBook'[d] = Append(cardBook[d], e) /\ \A b \in Payees : b # d => cardBook'[b] = cardBook[b]
    BY <1>a, <1>t DEF CardTypeOK
  <2>3. Parted(d) \/ (EntriesChain(cardBook'[d]) /\ Ending(d)' = e.after)
    BY <1>a, <2>1, <2>2, CarriedOn DEF Ending
  <2>4. \A b \in Payees : Parted(b) \/ EntriesChain(cardBook'[b])
    BY <2>2, <2>3, <1>t DEF BooksCarry
  <2>5. \A b \in Payees : b # d => Ending(b)' = Ending(b) /\ (Writing(b) => Writing(b)')
    BY <1>a, <2>2 DEF Ending, Writing
  <2>6. \A b \in Payees : Parted(b) \/ cardBalance'[b] = Ending(b)' \/ Writing(b)'
    BY <1>a, <2>3, <2>5, <1>t DEF BooksCarry
  <2>7. \A q \in CardReqs : CallCarries(q)'
    BY <1>a, <2>5, <1>z, <1>p, <1>t DEF BooksCarry, CallCarries
  <2>8. QED
    BY <1>a, <1>z, <2>4, <2>6, <2>7 DEF BooksCarry
<1>5. ASSUME NEW r \in CardReqs, CreditEntry(r) PROVE BooksCarry'
  <2>q. cardReq[r] \in CardCall /\ cardReq[r].op = "entry"
    BY <1>5, <1>t DEF CreditEntry, CardTypeOK
  <2>0. PICK t \in CardTrips, b \in Int : cardReq[r] = [op |-> "entry", trip |-> t, before |-> b]
    BY <2>q DEF CardCall
  <2>d. PICK d \in Payees : d = PayeeOf[t]
    OBVIOUS
  <2> DEFINE e == [kind |-> "earning", trip |-> t, amount |-> Share(t), before |-> b, after |-> b + Share(t)]
  <2>1. e \in CardEntry /\ EntryAdds(e)
    BY ShareIsNat DEF CardEntry, EntryAdds
  <2>2. (Parted(d) \/ e.before = Ending(d)) /\ cardBalance[d] = e.after
    BY <2>0, <2>d, <1>t DEF BooksCarry, CallCarries
  <2>3. cardBook' = [cardBook EXCEPT ![d] = Append(@, e)] /\ UNCHANGED <<cardBalance, cut>>
    BY <1>5, <2>0, <2>d DEF CreditEntry
  <2>4. cardReq'[r].op = "idle" /\ \A q \in CardReqs : q # r => cardReq'[q] = cardReq[q]
    BY <1>5, <1>t, CardSlots DEF CreditEntry
  <2>5. \A q \in CardReqs : q # r /\ cardReq[q].op \in ReadCalls => PayeeOf[cardReq[q].trip] # d
    BY <2>0, <2>d, <1>t DEF CardApart
  <2> HIDE DEF e
  <2>6. \A q \in CardReqs : cardReq'[q].op \in ReadCalls =>
                             cardReq'[q] = cardReq[q] /\ PayeeOf[cardReq'[q].trip] # d
    BY <2>4, <2>5
  <2>7. \A q \in CardReqs : cardReq[q].op = "entry" /\ PayeeOf[cardReq[q].trip] # d =>
                             cardReq'[q] = cardReq[q]
    BY <2>0, <2>d, <2>4
  <2>8. QED
    BY <2>1, <2>2, <2>3, <2>6, <2>7, <1>a
<1>6. ASSUME NEW r \in CardReqs, NEW d \in Payees, PayoutCardBalance(r, d) PROVE BooksCarry'
  <2> DEFINE e == PayoutTo(d)
  <2>0. cardBalance[d] \in Int /\ cardBalance \in [Payees -> Int]
    BY <1>t DEF CardTypeOK
  <2>1. e \in CardEntry /\ EntryAdds(e) /\ e.before = cardBalance[d] /\ e.after = 0
    BY <2>0 DEF PayoutTo, CardEntry, EntryAdds
  <2>2. \A q \in CardReqs : cardReq[q].op \in ReadCalls => PayeeOf[cardReq[q].trip] # d
    BY <1>6 DEF PayoutApart
  <2>3. Parted(d) \/ cardBalance[d] = Ending(d)
    BY <2>2, <1>t DEF BooksCarry, Writing
  <2>4. cardBook' = [cardBook EXCEPT ![d] = Append(@, e)] /\ UNCHANGED <<cardReq, cut>>
    BY <1>6 DEF PayoutCardBalance, PayoutTo
  <2>5. cardBalance'[d] = 0 /\ \A b \in Payees : b # d => cardBalance'[b] = cardBalance[b]
    BY <1>6, <2>0 DEF PayoutCardBalance
  <2> HIDE DEF e
  <2>6. QED
    BY <2>1, <2>2, <2>3, <2>4, <2>5, <1>a
<1>8. ASSUME NEW r \in CardReqs, SettlingCut(r) PROVE BooksCarry'
  <2>1. /\ UNCHANGED <<cardBalance, cardBook>>
        /\ cardReq'[r].op = "idle" /\ \A q \in CardReqs : q # r => cardReq'[q] = cardReq[q]
    BY <1>8, <1>t, CardSlots DEF SettlingCut
  <2>2. PICK t \in CardTrips : t = cardReq[r].trip
    BY <1>8, <1>c DEF SettlingCut
  <2>3. /\ \A u \in CardTrips : u # t => cut'[u] = cut[u]
        /\ cardReq[r].op = "entry" => cut'[t] = "unbooked"
        /\ cut[t] = "unbooked" => cut'[t] = "unbooked"
    BY <1>8, <1>t, <2>2 DEF SettlingCut, CardTypeOK, CompletedOnce, CallMarked, CreditCalls
  <2>4. \A d \in Payees : Parted(d) => Parted(d)'
    BY <2>3 DEF Parted
  <2>5. cardReq[r].op = "entry" => Parted(PayeeOf[t])'
    BY <2>3 DEF Parted
  <2>6. \A d \in Payees : Ending(d)' = Ending(d) /\ (Writing(d) => Writing(d)' \/ Parted(d)')
    BY <2>1, <2>2, <2>5 DEF Ending, Writing
  <2>7. \A q \in CardReqs : CallCarries(q)'
    BY <2>1, <2>4, <2>6, <1>p, <1>t DEF BooksCarry, CallCarries
  <2>8. QED
    BY <2>1, <2>4, <2>6, <2>7, <1>t DEF BooksCarry
<1>7. QED
  BY <1>8, <1>q, <1>3, <1>4, <1>5, <1>6, <1>t, WalletSteps

LEMMA CompletedOnceKept ==
  ASSUME CardIInv, CardTypeOK', CardApart', [CardNext]_cardVars
  PROVE  CompletedOnce'
<1> USE DEF gatewayVars, payeeVars, SettleCalls, AnswerCalls, CreditCalls
<1>t. CardTypeOK /\ CardApart /\ CompletedOnce
  BY DEF CardIInv
<1>c. \A r \in CardReqs : cardReq[r].op # "idle" => cardReq[r].trip \in CardTrips
  BY <1>t DEF CardTypeOK, CardCall
<1>p. /\ payment \in [CardTrips -> PaymentRow]
      /\ \A t \in CardTrips : payment[t] \in PaymentRow
  BY <1>t DEF CardTypeOK
<1>b. UNCHANGED cardBook => \A t \in CardTrips : Earnings(t)' = Earnings(t)
  BY DEF Earnings
<1> DEFINE Same(t) == /\ payment'[t].status = payment[t].status /\ cut'[t] = cut[t]
                      /\ Earnings(t)' = Earnings(t)
(* A call that goes on as it was, its trip left alone. *)
<1>k. ASSUME NEW q \in CardReqs, cardReq'[q] = cardReq[q],
             cardReq[q].op \in SettleCalls => \A t \in CardTrips : t = cardReq[q].trip => Same(t)
      PROVE  CallMarked(q)'
  <2>1. CASE cardReq[q].op \in SettleCalls
    <3>1. PICK t \in CardTrips : t = cardReq[q].trip
      BY <2>1, <1>c
    <3>2. CallMarked(q) /\ Same(t)
      BY <1>k, <1>t, <2>1, <3>1 DEF CompletedOnce
    <3>3. QED
      BY <1>k, <3>1, <3>2 DEF CallMarked, Earnings
  <2>2. CASE cardReq[q].op \notin SettleCalls
    BY <1>k, <2>2 DEF CallMarked
  <2>3. QED
    BY <2>1, <2>2
(* A trip left alone, no credit of which ends. *)
<1>l. ASSUME NEW t \in CardTrips, Same(t), Crediting(t) => Crediting(t)' \/ Booked(t)' PROVE TripMarked(t)'
  <2>1. Booked(t) => Booked(t)'
    BY <1>l DEF Booked
  <2>2. TripMarked(t)
    BY <1>t DEF CompletedOnce
  <2>3. QED
    BY <1>l, <2>1, <2>2 DEF TripMarked, Share
(* A step of one call of a trip that marks no payment. *)
<1>q. ASSUME NEW r \in CardReqs, \A q \in CardReqs : q # r => cardReq'[q] = cardReq[q],
             \A t \in CardTrips : Same(t), CallMarked(r)',
             \A t \in CardTrips : cardReq[r].op \in CreditCalls /\ cardReq[r].trip = t => Crediting(t)'
      PROVE  CompletedOnce'
  <2> HIDE DEF Same
  <2>1. \A q \in CardReqs : CallMarked(q)'
    BY <1>q, <1>k
  <2>2. ASSUME NEW t \in CardTrips, Crediting(t) PROVE Crediting(t)'
    <3>1. PICK q \in CardReqs : cardReq[q].op \in CreditCalls /\ cardReq[q].trip = t
      BY <2>2 DEF Crediting
    <3>2. CASE q = r
      BY <3>1, <3>2, <1>q
    <3>3. CASE q # r
      BY <3>1, <3>3, <1>q DEF Crediting
    <3>4. QED
      BY <3>2, <3>3
  <2>3. \A t \in CardTrips : TripMarked(t)'
    BY <2>2, <1>q, <1>l
  <2>4. QED
    BY <2>1, <2>3 DEF CompletedOnce
(* A step of none. *)
<1>u. ASSUME UNCHANGED cardReq, \A t \in CardTrips : Same(t) PROVE CompletedOnce'
  <2> HIDE DEF Same
  <2>1. \A q \in CardReqs : CallMarked(q)'
    BY <1>u, <1>k
  <2>2. \A t \in CardTrips : Crediting(t) => Crediting(t)'
    BY <1>u DEF Crediting
  <2>3. \A t \in CardTrips : TripMarked(t)'
    BY <2>2, <1>u, <1>l
  <2>4. QED
    BY <2>1, <2>3 DEF CompletedOnce
<1>1. ASSUME NEW r \in CardReqs, NEW t \in CardTrips,
             \/ CompleteRide(r, t) \/ EstimateCardCharge(r, t) \/ CreateLink(r, t)
             \/ ChargeWithToken(r, t)
             \/ \E p \in CardTrips, outcome \in Outcomes : ConfirmPayment(r, t, p, outcome)
      PROVE  CompletedOnce'
  <2>1. \A u \in CardTrips : Same(u)
    <3>1. \/ UNCHANGED payment
          \/ payment' = [payment EXCEPT ![t] = [payment[t] EXCEPT !.priced = TRUE]]
          \/ payment' = [payment EXCEPT ![t] = [payment[t] EXCEPT !.charged = CardAmount(Fare[t])]]
      BY <1>1 DEF CompleteRide, EstimateCardCharge, CreateLink, ConfirmPayment, ChargeWithToken,
                  StoreAmounts
    <3>2. \A u \in CardTrips : payment'[u].status = payment[u].status
      BY <3>1, <1>p DEF PaymentRow
    <3>3. UNCHANGED <<cardBook, cut>>
      BY <1>1 DEF CompleteRide, EstimateCardCharge, CreateLink, ConfirmPayment, ChargeWithToken
    <3>4. QED
      BY <3>2, <3>3, <1>b
  <2>2. \/ UNCHANGED cardReq
        \/ /\ payment[t].status # "completed" /\ cardReq[r].op = "idle"
           /\ \E call : /\ call.op \in {"link", "confirm", "charge"} /\ call.trip = t
                        /\ CardStep(r, call)
    <3>1. CASE \E p \in CardTrips, outcome \in Outcomes : ConfirmPayment(r, t, p, outcome)
      <4>1. PICK p \in CardTrips, outcome \in Outcomes : ConfirmPayment(r, t, p, outcome)
        BY <3>1
      <4>2. PICK call : call = [op |-> "confirm", trip |-> t, paidFor |-> p, outcome |-> outcome]
        OBVIOUS
      <4>3. call.op = "confirm" /\ call.trip = t
        BY <4>2
      <4>4. QED
        BY <4>1, <4>2, <4>3 DEF ConfirmPayment, CardBegin, CardStep
    <3>2. CASE CreateLink(r, t) \/ ChargeWithToken(r, t)
      <4>1. PICK op \in {"link", "charge"} : CardBegin(r, [op |-> op, trip |-> t])
        BY <3>2 DEF CreateLink, ChargeWithToken
      <4>2. PICK call : call = [op |-> op, trip |-> t]
        OBVIOUS
      <4>3. call.op = op /\ call.trip = t
        BY <4>2
      <4>4. QED
        BY <3>2, <4>1, <4>2, <4>3 DEF CreateLink, ChargeWithToken, CardBegin, CardStep
    <3>3. QED
      BY <1>1, <3>1, <3>2 DEF CompleteRide, EstimateCardCharge
  <2>3. CASE UNCHANGED cardReq
    BY <1>u, <2>1, <2>3
  <2>4. CASE ~UNCHANGED cardReq
    <3>1. /\ payment[t].status # "completed" /\ cardReq[r].op = "idle"
          /\ cardReq'[r].op \in {"link", "confirm", "charge"} /\ cardReq'[r].trip = t
          /\ \A q \in CardReqs : q # r => cardReq'[q] = cardReq[q]
      BY <2>2, <2>4, <1>t, CardSlots
    <3>2. CallMarked(r)'
      BY <2>1, <3>1 DEF CallMarked
    <3>3. QED
      BY <1>q, <2>1, <3>1, <3>2
  <2>5. QED
    BY <2>3, <2>4
<1>2. ASSUME NEW r \in CardReqs,
             \/ LinkOpened(r) \/ ConfirmAnswer(r) \/ ChargeAnswer(r) \/ AnswerLost(r)
      PROVE  CompletedOnce'
  <2>1. UNCHANGED <<payment, cardBook, cut>> /\ cardReq[r].op \in {"link", "confirm", "charge"}
    BY <1>2 DEF LinkOpened, ConfirmAnswer, ChargeAnswer, AnswerLost
  <2>2. /\ \A q \in CardReqs : q # r => cardReq'[q] = cardReq[q]
        /\ \/ cardReq'[r].op = "idle"
           \/ /\ cardReq'[r].op \in {"settle", "refused"} /\ cardReq'[r].trip = cardReq[r].trip
              /\ cardReq[r].op \in {"confirm", "charge"}
    <3>1. CASE CardEnd(r)
      BY <3>1, <1>t, CardSlots
    <3>2. CASE /\ \E op \in {"settle", "refused"} : CardStep(r, [op |-> op, trip |-> cardReq[r].trip])
               /\ cardReq[r].op \in {"confirm", "charge"}
      BY <3>2, <1>t, CardSlots
    <3>3. QED
      BY <1>2, <3>1, <3>2 DEF LinkOpened, ConfirmAnswer, ChargeAnswer, AnswerLost
  <2>3. CallMarked(r)
    BY <1>t DEF CompletedOnce
  <2>4. CallMarked(r)'
    BY <2>1, <2>2, <2>3 DEF CallMarked
  <2>5. QED
    BY <1>q, <1>b, <2>1, <2>2, <2>4
<1>m. ASSUME NEW r \in CardReqs, SettleRefused(r) \/ SettleApproved(r)
      PROVE  \E t \in CardTrips :
               /\ t = cardReq[r].trip /\ cardReq[r].op \in {"refused", "settle"}
               /\ UNCHANGED <<cardBook, cut>> /\ payment[t].status # "completed"
               /\ payment'[t].status = IF cardReq[r].op = "settle" THEN "completed" ELSE "failed"
               /\ \A u \in CardTrips : u # t => payment'[u] = payment[u]
               /\ \A q \in CardReqs : q # r => cardReq'[q] = cardReq[q]
               /\ \A q \in CardReqs : q # r /\ cardReq[q].op \in SettleCalls => cardReq[q].trip # t
               /\ IF cardReq[r].op = "settle" /\ Share(t) > 0
                  THEN cardReq'[r].op = "credit" /\ cardReq'[r].trip = t
                  ELSE cardReq'[r].op = "idle"
  <2>1. PICK t \in CardTrips : t = cardReq[r].trip
    BY <1>m, <1>c DEF SettleRefused, SettleApproved
  <2>2. /\ payment[t].status # "completed"
        /\ \A q \in CardReqs : q # r /\ cardReq[q].op \in SettleCalls => cardReq[q].trip # t
    BY <1>m, <1>t, <2>1 DEF SettleRefused, SettleApproved, CardApart, CompletedOnce, CallMarked
  <2>3. /\ payment'[t].status = IF cardReq[r].op = "settle" THEN "completed" ELSE "failed"
        /\ \A u \in CardTrips : u # t => payment'[u] = payment[u]
    <3>1. PICK verdict :
            /\ payment' = [payment EXCEPT ![t] = [payment[t] EXCEPT !.status = verdict]]
            /\ verdict = IF cardReq[r].op = "settle" THEN "completed" ELSE "failed"
      BY <1>m, <2>1 DEF SettleRefused, SettleApproved
    <3>2. QED
      BY <3>1, <1>p DEF PaymentRow
  <2>4. cardReq[r].op = "settle" => /\ [cardReq[r] EXCEPT !.op = "credit"].op = "credit"
                                    /\ [cardReq[r] EXCEPT !.op = "credit"].trip = t
    BY <1>t, <2>1 DEF CardTypeOK, CardCall
  <2>5. /\ \A q \in CardReqs : q # r => cardReq'[q] = cardReq[q]
        /\ IF cardReq[r].op = "settle" /\ Share(t) > 0
           THEN cardReq'[r].op = "credit" /\ cardReq'[r].trip = t
           ELSE cardReq'[r].op = "idle"
    BY <1>m, <1>t, <2>1, <2>4, CardSlots DEF SettleRefused, SettleApproved
  <2>6. UNCHANGED <<cardBook, cut>> /\ cardReq[r].op \in {"refused", "settle"}
    BY <1>m DEF SettleRefused, SettleApproved
  <2>7. QED
    BY <2>1, <2>2, <2>3, <2>5, <2>6
<1>3. ASSUME NEW r \in CardReqs, SettleRefused(r) \/ SettleApproved(r) PROVE CompletedOnce'
  <2>1. PICK t \in CardTrips :
               /\ t = cardReq[r].trip /\ cardReq[r].op \in {"refused", "settle"}
               /\ UNCHANGED <<cardBook, cut>> /\ payment[t].status # "completed"
               /\ payment'[t].status = IF cardReq[r].op = "settle" THEN "completed" ELSE "failed"
               /\ \A u \in CardTrips : u # t => payment'[u] = payment[u]
               /\ \A q \in CardReqs : q # r => cardReq'[q] = cardReq[q]
               /\ \A q \in CardReqs : q # r /\ cardReq[q].op \in SettleCalls => cardReq[q].trip # t
               /\ IF cardReq[r].op = "settle" /\ Share(t) > 0
                  THEN cardReq'[r].op = "credit" /\ cardReq'[r].trip = t
                  ELSE cardReq'[r].op = "idle"
    BY <1>3, <1>m
  <2>2. \A u \in CardTrips : Earnings(u)' = Earnings(u)
    BY <2>1, <1>b
  <2>3. TripMarked(t)
    BY <1>t DEF CompletedOnce
  <2>4. CallMarked(r)'
    BY <2>1, <2>2, <2>3 DEF CallMarked, TripMarked, Earnings
  <2>5. \A q \in CardReqs : CallMarked(q)'
    <3>1. \A u \in CardTrips : u # t => Same(u)
      BY <2>1, <2>2
    <3>2. \A q \in CardReqs : q # r => CallMarked(q)'
      BY <2>1, <3>1, <1>k
    <3>3. QED
      BY <2>4, <3>2
  <2>6. TripMarked(t)'
    BY <2>1, <2>2, <2>3 DEF TripMarked, Crediting, Share
  <2>7. ASSUME NEW u \in CardTrips, u # t PROVE TripMarked(u)'
    <3>1. Same(u)
      BY <2>1, <2>2, <2>7
    <3>2. Crediting(u) => Crediting(u)'
      BY <2>1, <2>7 DEF Crediting
    <3>3. QED
      BY <3>1, <3>2, <1>l
  <2>8. QED
    BY <2>5, <2>6, <2>7 DEF CompletedOnce
<1>4. ASSUME NEW r \in CardReqs, CreditRead(r) \/ CreditWrite(r) PROVE CompletedOnce'
  <2>1. UNCHANGED <<payment, cardBook, cut>> /\ cardReq[r].op \in CreditCalls
    BY <1>4 DEF CreditRead, CreditWrite
  <2>2. cardReq[r].op = "balance" => /\ [cardReq[r] EXCEPT !.op = "entry"].op = "entry"
                                     /\ [cardReq[r] EXCEPT !.op = "entry"].trip = cardReq[r].trip
    BY <1>t DEF CardTypeOK, CardCall
  <2>3. /\ \A q \in CardReqs : q # r => cardReq'[q] = cardReq[q]
        /\ cardReq'[r].op \in CreditCalls /\ cardReq'[r].trip = cardReq[r].trip
    <3>1. PICK call : CardStep(r, call) /\ call.op \in CreditCalls /\ call.trip = cardReq[r].trip
      <4>1. CASE CreditRead(r)
        <5> DEFINE c == [op |-> "balance", trip |-> cardReq[r].trip,
                         before |-> cardBalance[PayeeOf[cardReq[r].trip]]]
        <5>1. CardStep(r, c) /\ c.op \in CreditCalls /\ c.trip = cardReq[r].trip
          BY <4>1 DEF CreditRead
        <5>2. QED
          BY <5>1
      <4>2. CASE CreditWrite(r)
        BY <4>2, <2>2 DEF CreditWrite
      <4>3. QED
        BY <1>4, <4>1, <4>2
    <3>2. QED
      BY <3>1, <1>t, CardSlots
  <2>4. CallMarked(r)
    BY <1>t DEF CompletedOnce
  <2>5. CallMarked(r)'
    BY <2>1, <2>3, <2>4 DEF CallMarked, Earnings
  <2>6. \A t \in CardTrips : cardReq[r].trip = t => Crediting(t)'
    BY <2>3 DEF Crediting
  <2>7. QED
    BY <1>q, <1>b, <2>1, <2>3, <2>5, <2>6
<1>5. ASSUME NEW r \in CardReqs, CreditEntry(r) PROVE CompletedOnce'
  <2>q. cardReq[r] \in CardCall /\ cardReq[r].op = "entry"
    BY <1>5, <1>t DEF CreditEntry, CardTypeOK
  <2>0. PICK t \in CardTrips, b \in Int : cardReq[r] = [op |-> "entry", trip |-> t, before |-> b]
    BY <2>q DEF CardCall
  <2>d. PICK d \in Payees : d = PayeeOf[t]
    OBVIOUS
  <2>b. PICK book \in Seq(CardEntry) : book = cardBook[d]
    BY <1>t DEF CardTypeOK
  <2>e. PICK e : e = [kind |-> "earning", trip |-> t, amount |-> Share(t), before |-> b, after |-> b + Share(t)]
    OBVIOUS
  <2>1. UNCHANGED <<payment, cut>> /\ cardBook' = [cardBook EXCEPT ![d] = Append(book, e)]
    BY <1>5, <2>0, <2>d, <2>b, <2>e DEF CreditEntry
  <2>2. cardReq'[r].op = "idle" /\ \A q \in CardReqs : q # r => cardReq'[q] = cardReq[q]
    BY <1>5, <1>t, CardSlots DEF CreditEntry
  <2>3. \A q \in CardReqs : q # r /\ cardReq[q].op \in SettleCalls => cardReq[q].trip # t
    BY <2>0, <1>t DEF CardApart
  <2>4. Earnings(t) = {} /\ payment[t].status = "completed" /\ cut[t] = "no"
    <3>1. CallMarked(r)
      BY <1>t DEF CompletedOnce
    <3>2. QED
      BY <2>0, <3>1 DEF CallMarked
  <2>5. ASSUME NEW u \in CardTrips
        PROVE  Earnings(u)' = IF u = t THEN {Len(book) + 1} ELSE Earnings(u)
    <3>1. CASE PayeeOf[u] = d
      <4>1. Earnings(u)' = Credits(Append(book, e), u) /\ Earnings(u) = Credits(book, u)
        BY <2>1, <2>b, <3>1, <1>t DEF Earnings, CardTypeOK
      <4>2. e.kind = "earning" /\ e.trip = t
        BY <2>e
      <4>3. Credits(Append(book, e), u) = Credits(book, u) \cup (IF u = t THEN {Len(book) + 1} ELSE {})
        BY <4>2, CreditsAppend
      <4>4. QED
        BY <4>1, <4>3, <2>4
    <3>2. CASE PayeeOf[u] # d
      BY <2>1, <2>d, <3>2, <1>t DEF Earnings, CardTypeOK
    <3>3. QED
      BY <3>1, <3>2
  <2>6. \A u \in CardTrips : u # t => Same(u)
    BY <2>1, <2>5
  <2>7. \A q \in CardReqs : CallMarked(q)'
    <3>1. CallMarked(r)'
      BY <2>2 DEF CallMarked
    <3>2. \A q \in CardReqs : q # r => CallMarked(q)'
      BY <2>2, <2>3, <2>6, <1>k
    <3>3. QED
      BY <3>1, <3>2
  <2>8. TripMarked(t)'
    <3>1. Booked(t)'
      BY <2>5 DEF Booked
    <3>2. QED
      BY <3>1, <2>1, <2>4 DEF TripMarked
  <2>9. ASSUME NEW u \in CardTrips, u # t PROVE TripMarked(u)'
    <3>1. ASSUME NEW q \in CardReqs, cardReq[q].op \in CreditCalls, cardReq[q].trip = u
          PROVE  cardReq'[q] = cardReq[q]
      BY <3>1, <2>0, <2>2, <2>9
    <3>c. Crediting(u) => Crediting(u)'
      BY <3>1 DEF Crediting
    <3>2. QED
      BY <3>c, <2>6, <2>9, <1>l
  <2>10. QED
    BY <2>7, <2>8, <2>9 DEF CompletedOnce
<1>6. ASSUME NEW r \in CardReqs, NEW d \in Payees, PayoutCardBalance(r, d) PROVE CompletedOnce'
  <2>b. PICK book \in Seq(CardEntry) : book = cardBook[d]
    BY <1>t DEF CardTypeOK
  <2>e. PICK e : e = PayoutTo(d)
    OBVIOUS
  <2>1. UNCHANGED <<payment, cardReq, cut>> /\ cardBook' = [cardBook EXCEPT ![d] = Append(book, e)]
    BY <1>6, <2>b, <2>e DEF PayoutCardBalance, PayoutTo
  <2>2. ASSUME NEW u \in CardTrips PROVE Same(u)
    <3>1. CASE PayeeOf[u] = d
      <4>1. Earnings(u)' = Credits(Append(book, e), u) /\ Earnings(u) = Credits(book, u)
        BY <2>1, <2>b, <3>1, <1>t DEF Earnings, CardTypeOK
      <4>2. e.kind # "earning"
        BY <2>e DEF PayoutTo
      <4>3. Credits(Append(book, e), u) =
              Credits(book, u) \cup (IF e.kind = "earning" /\ e.trip = u THEN {Len(book) + 1} ELSE {})
        BY CreditsAppend
      <4>4. QED
        BY <4>1, <4>2, <4>3, <2>1
    <3>2. CASE PayeeOf[u] # d
      BY <2>1, <3>2, <1>t DEF Earnings, CardTypeOK
    <3>3. QED
      BY <3>1, <3>2
  <2>3. QED
    BY <1>u, <2>1, <2>2
<1>7. CASE (\E t \in CardTrips : PayLink(t)) \/ UNCHANGED cardVars
  <2>1. UNCHANGED <<payment, cardBook, cardReq, cut>>
    BY <1>7 DEF PayLink, cardVars
  <2>2. QED
    BY <2>1, <1>b, <1>u
<1>9. ASSUME NEW r \in CardReqs, SettlingCut(r) PROVE CompletedOnce'
  <2>1. /\ UNCHANGED <<payment, cardBook>>
        /\ cardReq'[r].op = "idle" /\ \A q \in CardReqs : q # r => cardReq'[q] = cardReq[q]
    BY <1>9, <1>t, CardSlots DEF SettlingCut
  <2>2. PICK t \in CardTrips : t = cardReq[r].trip
    BY <1>9, <1>c DEF SettlingCut
  <2>3. CallMarked(r)
    BY <1>t DEF CompletedOnce
  <2>4. CASE cardReq[r].op \notin CreditCalls
    <3>1. \A u \in CardTrips : Same(u)
      BY <1>9, <1>b, <2>1, <2>4 DEF SettlingCut
    <3>2. CallMarked(r)'
      BY <2>1 DEF CallMarked
    <3>3. QED
      BY <1>q, <2>1, <2>4, <3>1, <3>2
  <2>5. CASE cardReq[r].op \in CreditCalls
    <3>1. /\ \A u \in CardTrips : u # t => cut'[u] = cut[u]
          /\ cut'[t] # "no"
      BY <1>9, <1>t, <2>2, <2>5 DEF SettlingCut, CardTypeOK
    <3>2. payment[t].status = "completed" /\ Earnings(t) = {}
      BY <2>2, <2>3, <2>5 DEF CallMarked
    <3>3. TripMarked(t)'
      BY <1>b, <2>1, <3>1, <3>2 DEF TripMarked, Share
    <3>4. \A q \in CardReqs : q # r /\ cardReq[q].op \in SettleCalls => cardReq[q].trip # t
      BY <2>2, <2>5, <1>t DEF CardApart
    <3>5. \A u \in CardTrips : u # t => Same(u)
      BY <1>b, <2>1, <3>1
    <3>6. \A q \in CardReqs : CallMarked(q)'
      <4>1. CallMarked(r)'
        BY <2>1 DEF CallMarked
      <4>2. \A q \in CardReqs : q # r => CallMarked(q)'
        BY <2>1, <3>4, <3>5, <1>k
      <4>3. QED
        BY <4>1, <4>2
    <3>7. ASSUME NEW u \in CardTrips, u # t PROVE TripMarked(u)'
      <4>1. Crediting(u) => Crediting(u)'
        BY <2>1, <2>2, <3>7 DEF Crediting
      <4>2. QED
        BY <4>1, <3>5, <3>7, <1>l
    <3>8. QED
      BY <3>3, <3>6, <3>7 DEF CompletedOnce
  <2>6. QED
    BY <2>4, <2>5
<1>8. QED
  BY <1>9, <1>1, <1>2, <1>3, <1>4, <1>5, <1>6, <1>7 DEF CardNext, Settling

(* A step that changes nothing pays nobody. *)
LEMMA PayoutKept == CardTypeOK /\ [CardNext /\ CardApart' /\ PayoutApart]_cardVars => PayoutApart
<1> SUFFICES ASSUME CardTypeOK, UNCHANGED cardVars PROVE PayoutApart
  OBVIOUS
<1>1. \A r \in CardReqs, d \in Payees : ~PayoutCardBalance(r, d)
  BY DEF PayoutCardBalance, cardVars, payeeVars, CardTypeOK
<1>2. QED
  BY <1>1 DEF PayoutApart

LEMMA CardNextIInv == CardIInv /\ [CardNext /\ CardApart' /\ PayoutApart]_cardVars => CardIInv'
<1> SUFFICES ASSUME CardIInv, [CardNext /\ CardApart' /\ PayoutApart]_cardVars PROVE CardIInv'
  OBVIOUS
<1>1. [CardNext]_cardVars
  OBVIOUS
<1>2. CardTypeOK'
  BY <1>1, CardNextTyped DEF CardIInv
<1>3. CardApart'
  BY DEF CardIInv, CardApart, cardVars
<1>4. PayoutApart
  BY PayoutKept DEF CardIInv
<1>5. QED
  BY <1>1, <1>2, <1>3, <1>4, CompletedOnceKept, BooksCarryKept DEF CardIInv

LEMMA BooksFromIInv == CardIInv => CardBooks
<1> SUFFICES ASSUME CardIInv, \A r \in CardReqs : cardReq[r].op \notin CreditCalls
             PROVE  /\ \A d \in Payees :
                         (\A t \in CardTrips : PayeeOf[t] = d => cut[t] # "unbooked") =>
                           EntriesChain(cardBook[d]) /\ cardBalance[d] = Ending(d)
                    /\ \A t \in CardTrips :
                         Share(t) > 0 =>
                           IF payment[t].status = "completed" /\ cut[t] = "no"
                           THEN \E i \in Earnings(t) : Earnings(t) = {i} ELSE Earnings(t) = {}
  BY DEF CardBooks, Ending, CreditCalls
<1>3. \A d \in Payees : (\A t \in CardTrips : PayeeOf[t] = d => cut[t] # "unbooked") => ~Parted(d)
  BY DEF Parted
<1>1. \A d \in Payees : ~Writing(d)
  BY DEF Writing, CreditCalls
<1>2. QED
  BY <1>1, <1>3 DEF CardIInv, BooksCarry, CompletedOnce, TripMarked, Booked, Crediting

(* Where no two calls settle one trip at once and nothing else touches a
   driver's wallet between a credit's read and its entry, wherever a settlement
   ends too soon and whatever trip a payment was made for: every card payment
   completed is credited once unless its settlement was cut, and a driver's book
   and balance agree until a cut falls between them. *)
THEOREM CardBooksKept == CardApartSpec => []CardBooks
BY CardInitIInv, CardNextIInv, BooksFromIInv, PTL DEF CardApartSpec

-----------------------------------------------------------------------------
(* Sums over a finite set.  The inductions of the library take an operator,
   so each proof looks at a smallest set for which its lemma would fail. *)

HIDE CardAssumption

LEMMA Smallest ==
  ASSUME NEW S, IsFiniteSet(S), NEW T, T \subseteq SUBSET S, T # {}
  PROVE  \E s \in T : \A u \in T : ~(u \subseteq s /\ u # s)
<1>1. IsWellFoundedOn(StrictSubsetOrdering(S), FiniteSubsetsOf(S))
  BY FS_StrictSubsetOrderingWellFounded
<1>2. FiniteSubsetsOf(S) = SUBSET S
  BY FS_FiniteSubsetsOfFinite
<1>3. PICK s \in T : \A u \in T : ~(<<u, s>> \in StrictSubsetOrdering(S))
  BY <1>1, <1>2, WFMin
<1>4. ASSUME NEW u \in T, u \subseteq s, u # s PROVE FALSE
  <2>1. <<u, s>> \in StrictSubsetOrdering(S)
    BY <1>4 DEF StrictSubsetOrdering
  <2>2. QED
    BY <1>3, <2>1
<1>5. QED
  BY <1>4

(* How the sum of a set is computed from those of its subsets. *)
Some(s) == CHOOSE x \in s : TRUE

Adds(f, sums, s) == IF s = {} THEN 0 ELSE f[Some(s)] + sums[s \ {Some(s)}]

SumsOf(f, S, sums) == sums = [s \in SUBSET S |-> Adds(f, sums, s)]

Sums(f, S) == CHOOSE sums : SumsOf(f, S, sums)

LEMMA SumBySums ==
  ASSUME NEW f, NEW S
  PROVE  SumFunctionOnSet(f, S) = Sums(f, S)[S]
BY DEF SumFunctionOnSet, FoldFunctionOnSet, MapThenFoldSet, Sums, SumsOf, Adds, Some

LEMMA SumsAgree ==
  ASSUME NEW f, NEW S, IsFiniteSet(S), NEW A \in SUBSET S, NEW B \in SUBSET S,
         NEW g, NEW h, SumsOf(f, A, g), SumsOf(f, B, h)
  PROVE  \A s \in SUBSET A : s \in SUBSET B => g[s] = h[s]
<1> DEFINE T == {s \in SUBSET S : s \subseteq A /\ s \subseteq B /\ g[s] # h[s]}
<1>0. T # {} => \E s \in T : \A u \in T : ~(u \subseteq s /\ u # s)
  <2>1. T \subseteq SUBSET S
    OBVIOUS
  <2> HIDE DEF T
  <2>2. QED
    BY <2>1, Smallest
<1>1. T = {}
  <2> SUFFICES ASSUME T # {} PROVE FALSE
    OBVIOUS
  <2>1. PICK s \in T : \A u \in T : ~(u \subseteq s /\ u # s)
    BY <1>0
  <2>2. s \in SUBSET A /\ s \in SUBSET B /\ g[s] # h[s]
    OBVIOUS
  <2>3. g[s] = Adds(f, g, s) /\ h[s] = Adds(f, h, s)
    BY <2>2 DEF SumsOf
  <2>4. s # {} => Some(s) \in s
    BY DEF Some
  <2>5. s # {} => g[s \ {Some(s)}] = h[s \ {Some(s)}]
    BY <2>1, <2>2, <2>4
  <2>6. QED
    BY <2>2, <2>3, <2>5 DEF Adds
<1>2. QED
  BY <1>1

LEMMA SumsThere ==
  ASSUME NEW f, NEW S, IsFiniteSet(S)
  PROVE  \A s \in SUBSET S : SumsOf(f, s, Sums(f, s))
<1> DEFINE T == {s \in SUBSET S : ~SumsOf(f, s, Sums(f, s))}
<1>0. T # {} => \E U \in T : \A u \in T : ~(u \subseteq U /\ u # U)
  <2>1. T \subseteq SUBSET S
    OBVIOUS
  <2> HIDE DEF T
  <2>2. QED
    BY <2>1, Smallest
<1>1. T = {}
  <2> SUFFICES ASSUME T # {} PROVE FALSE
    OBVIOUS
  <2>1. PICK U \in T : \A u \in T : ~(u \subseteq U /\ u # U)
    BY <1>0
  <2>2. \A s \in SUBSET U : s # U => SumsOf(f, s, Sums(f, s))
    BY <2>1
  <2> DEFINE sum(s) == Sums(f, s)[s]
  <2>3. \A s : s # {} => Some(s) \in s
    BY DEF Some
  <2>4. ASSUME NEW s \in SUBSET U, s # U
        PROVE  sum(s) = IF s = {} THEN 0 ELSE f[Some(s)] + sum(s \ {Some(s)})
    <3>1. sum(s) = Adds(f, Sums(f, s), s)
      BY <2>2, <2>4 DEF SumsOf
    <3>2. ASSUME s # {} PROVE Sums(f, s)[s \ {Some(s)}] = sum(s \ {Some(s)})
      <4> DEFINE v == s \ {Some(s)}
      <4>1. v \in SUBSET s /\ v # U /\ v \in SUBSET U /\ s \in SUBSET S /\ v \in SUBSET S
        BY <2>4, <3>2, <2>3
      <4>2. SumsOf(f, s, Sums(f, s)) /\ SumsOf(f, v, Sums(f, v))
        BY <2>2, <2>4, <4>1
      <4> HIDE DEF v
      <4>3. Sums(f, s)[v] = Sums(f, v)[v]
        BY <4>1, <4>2, SumsAgree
      <4>4. QED
        BY <4>3 DEF v
    <3>3. QED
      BY <3>1, <3>2 DEF Adds
  <2> HIDE DEF sum
  <2> DEFINE g == [s \in SUBSET U |-> IF s = U /\ U # {} THEN f[Some(U)] + sum(U \ {Some(U)})
                                     ELSE IF s = {} THEN 0 ELSE sum(s)]
  <2>5. ASSUME NEW s \in SUBSET U PROVE g[s] = Adds(f, g, s)
    <3>1. CASE s = {}
      BY <3>1 DEF Adds
    <3>2. CASE s # {}
      <4> DEFINE v == s \ {Some(s)}
      <4>1. v \in SUBSET U /\ v # U
        BY <2>3, <3>2
      <4>2. g[v] = sum(v)
        BY <2>4, <4>1
      <4>3. g[s] = f[Some(s)] + sum(v)
        BY <2>4, <3>2
      <4>4. QED
        BY <3>2, <4>2, <4>3 DEF Adds
    <3>3. QED
      BY <3>1, <3>2
  <2>6. SumsOf(f, U, g)
    <3>1. \A s \in SUBSET U : g[s] = Adds(f, g, s)
      BY <2>5
    <3>2. g = [s \in SUBSET U |-> g[s]]
      OBVIOUS
    <3> HIDE DEF g
    <3>3. QED
      BY <3>1, <3>2 DEF SumsOf
  <2>7. SumsOf(f, U, Sums(f, U))
    BY <2>6 DEF Sums
  <2>8. QED
    BY <2>7
<1>2. QED
  BY <1>1

(* The sum, one element at a time. *)
LEMMA SumAddsOne ==
  ASSUME NEW f, NEW S, IsFiniteSet(S)
  PROVE  SumFunctionOnSet(f, S) = IF S = {} THEN 0 ELSE f[Some(S)] + SumFunctionOnSet(f, S \ {Some(S)})
<1> DEFINE v == S \ {Some(S)}
<1>1. SumsOf(f, S, Sums(f, S)) /\ SumsOf(f, v, Sums(f, v))
  BY SumsThere
<1>2. Sums(f, S)[S] = Adds(f, Sums(f, S), S)
  BY <1>1 DEF SumsOf
<1>3. Sums(f, S)[v] = Sums(f, v)[v]
  <2>1. v \in SUBSET S /\ S \in SUBSET S
    OBVIOUS
  <2> HIDE DEF v
  <2>2. QED
    BY <1>1, <2>1, SumsAgree
<1>4. SumFunctionOnSet(f, S) = Sums(f, S)[S] /\ SumFunctionOnSet(f, v) = Sums(f, v)[v]
  BY SumBySums
<1>5. QED
  BY <1>2, <1>3, <1>4 DEF Adds

LEMMA SomeOfAll == \A s : s # {} => Some(s) \in s
BY DEF Some

LEMMA SumInt ==
  ASSUME NEW f, NEW S, IsFiniteSet(S), \A x \in S : f[x] \in Int
  PROVE  \A s \in SUBSET S : SumFunctionOnSet(f, s) \in Int
<1> DEFINE T == {s \in SUBSET S : SumFunctionOnSet(f, s) \notin Int}
<1>0. T # {} => \E s \in T : \A u \in T : ~(u \subseteq s /\ u # s)
  <2>1. T \subseteq SUBSET S
    OBVIOUS
  <2> HIDE DEF T
  <2>2. QED
    BY <2>1, Smallest
<1>1. T = {}
  <2> SUFFICES ASSUME T # {} PROVE FALSE
    OBVIOUS
  <2>1. PICK s \in T : \A u \in T : ~(u \subseteq s /\ u # s)
    BY <1>0
  <2>2. IsFiniteSet(s)
    BY FS_Subset
  <2>3. CASE s = {}
    <3>1. SumFunctionOnSet(f, s) = 0
      BY <2>2, <2>3, SumAddsOne
    <3>2. QED
      BY <2>1, <3>1
  <2>4. CASE s # {}
    <3>1. Some(s) \in s
      BY <2>4, SomeOfAll
    <3>2. SumFunctionOnSet(f, s \ {Some(s)}) \in Int
      BY <2>1, <3>1
    <3>3. SumFunctionOnSet(f, s) = f[Some(s)] + SumFunctionOnSet(f, s \ {Some(s)})
      BY <2>2, <2>4, SumAddsOne
    <3>4. QED
      BY <3>1, <3>2, <3>3
  <2>5. QED
    BY <2>3, <2>4
<1>2. QED
  BY <1>1

(* Whichever element is taken first. *)
LEMMA SumTakes ==
  ASSUME NEW f, NEW S, IsFiniteSet(S), \A x \in S : f[x] \in Int
  PROVE  \A x \in S : SumFunctionOnSet(f, S) = f[x] + SumFunctionOnSet(f, S \ {x})
<1> DEFINE sum(s) == SumFunctionOnSet(f, s)
           T == {s \in SUBSET S : \E x \in s : sum(s) # f[x] + sum(s \ {x})}
<1>0. T # {} => \E s \in T : \A u \in T : ~(u \subseteq s /\ u # s)
  <2>1. T \subseteq SUBSET S
    OBVIOUS
  <2> HIDE DEF T
  <2>2. QED
    BY <2>1, Smallest
<1>1. T = {}
  <2> SUFFICES ASSUME T # {} PROVE FALSE
    OBVIOUS
  <2>1. PICK s \in T : \A u \in T : ~(u \subseteq s /\ u # s)
    BY <1>0
  <2>2. PICK x \in s : sum(s) # f[x] + sum(s \ {x})
    OBVIOUS
  <2>3. PICK y \in s : y = Some(s)
    BY SomeOfAll
  <2>4. IsFiniteSet(s)
    BY FS_Subset
  <2>5. sum(s) = f[y] + sum(s \ {y})
    BY <2>3, <2>4, SumAddsOne
  <2>6. x # y
    BY <2>2, <2>5
  <2>7. s \ {y} \in SUBSET S /\ s \ {y} \notin T /\ s \ {x} \in SUBSET S /\ s \ {x} \notin T
    BY <2>1
  <2>8. sum(s \ {y}) = f[x] + sum((s \ {y}) \ {x})
    BY <2>6, <2>7
  <2>9. sum(s \ {x}) = f[y] + sum((s \ {x}) \ {y})
    BY <2>6, <2>7
  <2>10. (s \ {y}) \ {x} = (s \ {x}) \ {y} /\ (s \ {x}) \ {y} \in SUBSET S
    OBVIOUS
  <2>11. f[x] \in Int /\ f[y] \in Int /\ sum((s \ {x}) \ {y}) \in Int
    BY <2>10, SumInt
  <2>12. PICK rest \in Int : rest = sum((s \ {x}) \ {y}) /\ rest = sum((s \ {y}) \ {x})
    BY <2>10, <2>11
  <2> HIDE DEF sum, T
  <2>13. sum(s) = f[y] + (f[x] + rest) /\ sum(s \ {x}) = f[y] + rest /\ sum(s) # f[x] + sum(s \ {x})
    BY <2>2, <2>5, <2>8, <2>9, <2>12
  <2>14. QED
    BY <2>11, <2>13
<1>2. QED
  BY <1>1

LEMMA SumAdds ==
  ASSUME NEW f, NEW g, NEW h, NEW S, IsFiniteSet(S),
         \A x \in S : f[x] \in Int /\ g[x] \in Int /\ h[x] \in Int /\ f[x] + g[x] <= h[x]
  PROVE  SumFunctionOnSet(f, S) + SumFunctionOnSet(g, S) <= SumFunctionOnSet(h, S)
<1> DEFINE T == {s \in SUBSET S : ~(SumFunctionOnSet(f, s) + SumFunctionOnSet(g, s) <= SumFunctionOnSet(h, s))}
<1>0. T # {} => \E s \in T : \A u \in T : ~(u \subseteq s /\ u # s)
  <2>1. T \subseteq SUBSET S
    OBVIOUS
  <2> HIDE DEF T
  <2>2. QED
    BY <2>1, Smallest
<1>1. T = {}
  <2> SUFFICES ASSUME T # {} PROVE FALSE
    OBVIOUS
  <2>1. PICK s \in T : \A u \in T : ~(u \subseteq s /\ u # s)
    BY <1>0
  <2>2. IsFiniteSet(s)
    BY FS_Subset
  <2>3. CASE s = {}
    <3>1. SumFunctionOnSet(f, s) = 0 /\ SumFunctionOnSet(g, s) = 0 /\ SumFunctionOnSet(h, s) = 0
      BY <2>2, <2>3, SumAddsOne
    <3>2. QED
      BY <2>1, <3>1
  <2>4. CASE s # {}
    <3>1. PICK x \in s : x = Some(s)
      BY <2>4, SomeOfAll
    <3>2. PICK v \in SUBSET S : v = s \ {x}
      OBVIOUS
    <3>3. SumFunctionOnSet(f, v) + SumFunctionOnSet(g, v) <= SumFunctionOnSet(h, v)
      BY <2>1, <3>1, <3>2
    <3>4. /\ SumFunctionOnSet(f, s) = f[x] + SumFunctionOnSet(f, v)
          /\ SumFunctionOnSet(g, s) = g[x] + SumFunctionOnSet(g, v)
          /\ SumFunctionOnSet(h, s) = h[x] + SumFunctionOnSet(h, v)
      BY <2>2, <2>4, <3>1, <3>2, SumAddsOne
    <3>5. /\ SumFunctionOnSet(f, v) \in Int /\ SumFunctionOnSet(g, v) \in Int /\ SumFunctionOnSet(h, v) \in Int
          /\ f[x] \in Int /\ g[x] \in Int /\ h[x] \in Int /\ f[x] + g[x] <= h[x]
      BY SumInt
    <3>6. QED
      BY <2>1, <3>3, <3>4, <3>5
  <2>5. QED
    BY <2>3, <2>4
<1>2. QED
  BY <1>1

(* Sums of the same elements. *)
LEMMA SumSame ==
  ASSUME NEW f, NEW g, NEW S, IsFiniteSet(S), \A x \in S : f[x] = g[x]
  PROVE  \A s \in SUBSET S : SumFunctionOnSet(f, s) = SumFunctionOnSet(g, s)
<1> DEFINE T == {s \in SUBSET S : SumFunctionOnSet(f, s) # SumFunctionOnSet(g, s)}
<1>0. T # {} => \E s \in T : \A u \in T : ~(u \subseteq s /\ u # s)
  <2>1. T \subseteq SUBSET S
    OBVIOUS
  <2> HIDE DEF T
  <2>2. QED
    BY <2>1, Smallest
<1>1. T = {}
  <2> SUFFICES ASSUME T # {} PROVE FALSE
    OBVIOUS
  <2>1. PICK s \in T : \A u \in T : ~(u \subseteq s /\ u # s)
    BY <1>0
  <2>2. IsFiniteSet(s)
    BY FS_Subset
  <2>3. s # {} => Some(s) \in s /\ SumFunctionOnSet(f, s \ {Some(s)}) = SumFunctionOnSet(g, s \ {Some(s)})
    BY <2>1, SomeOfAll
  <2>4. QED
    BY <2>1, <2>2, <2>3, SumAddsOne
<1>2. QED
  BY <1>1

(* One element changes. *)
LEMMA SumChanges ==
  ASSUME NEW f, NEW g, NEW S, IsFiniteSet(S), NEW x \in S,
         \A y \in S : f[y] \in Int /\ g[y] \in Int /\ (y # x => f[y] = g[y])
  PROVE  SumFunctionOnSet(g, S) = SumFunctionOnSet(f, S) - f[x] + g[x]
<1>1. IsFiniteSet(S \ {x})
  BY FS_RemoveElement
<1>2. SumFunctionOnSet(f, S \ {x}) = SumFunctionOnSet(g, S \ {x}) /\ SumFunctionOnSet(f, S \ {x}) \in Int
  BY <1>1, SumSame, SumInt
<1>3. SumFunctionOnSet(f, S) = f[x] + SumFunctionOnSet(f, S \ {x})
  BY SumTakes
<1>4. SumFunctionOnSet(g, S) = g[x] + SumFunctionOnSet(g, S \ {x})
  BY SumTakes
<1>5. QED
  BY <1>2, <1>3, <1>4

(* What is zero outside a part of a set. *)
LEMMA SumOfPart ==
  ASSUME NEW f, NEW g, NEW S, IsFiniteSet(S), NEW P \in SUBSET S,
         \A x \in S : f[x] \in Int /\ g[x] = IF x \in P THEN f[x] ELSE 0
  PROVE  SumFunctionOnSet(g, S) = SumFunctionOnSet(f, P)
<1> DEFINE T == {s \in SUBSET S : SumFunctionOnSet(g, s) # SumFunctionOnSet(f, s \cap P)}
<1>0. T # {} => \E s \in T : \A u \in T : ~(u \subseteq s /\ u # s)
  <2>1. T \subseteq SUBSET S
    OBVIOUS
  <2> HIDE DEF T
  <2>2. QED
    BY <2>1, Smallest
<1>1. T = {}
  <2> SUFFICES ASSUME T # {} PROVE FALSE
    OBVIOUS
  <2>1. PICK s \in T : \A u \in T : ~(u \subseteq s /\ u # s)
    BY <1>0
  <2>2. IsFiniteSet(s) /\ IsFiniteSet(s \cap P)
    BY FS_Subset
  <2>3. CASE s = {}
    <3>1. s \cap P = {}
      BY <2>3
    <3>2. QED
      BY <2>1, <2>2, <2>3, <3>1, SumAddsOne
  <2>4. CASE s # {}
    <3>1. PICK x \in s : TRUE
      BY <2>4
    <3>2. PICK v \in SUBSET S : v = s \ {x}
      OBVIOUS
    <3>3. SumFunctionOnSet(g, v) = SumFunctionOnSet(f, v \cap P)
      BY <2>1, <3>1, <3>2
    <3>4. SumFunctionOnSet(g, s) = g[x] + SumFunctionOnSet(g, v)
      BY <2>2, <3>2, SumTakes
    <3>5. x \in P => SumFunctionOnSet(f, s \cap P) = f[x] + SumFunctionOnSet(f, (s \cap P) \ {x})
      BY <2>2, SumTakes
    <3>6. (x \in P => (s \cap P) \ {x} = v \cap P) /\ (x \notin P => s \cap P = v \cap P)
      BY <3>2
    <3>7. v \cap P \in SUBSET S /\ SumFunctionOnSet(f, v \cap P) \in Int
      BY SumInt
    <3>8. SumFunctionOnSet(g, s) = SumFunctionOnSet(f, s \cap P)
      <4>1. CASE x \in P
        BY <3>3, <3>4, <3>5, <3>6, <4>1
      <4>2. CASE x \notin P
        <5>1. g[x] = 0 /\ SumFunctionOnSet(f, s \cap P) = SumFunctionOnSet(f, v \cap P)
          BY <3>6, <4>2
        <5>2. QED
          BY <3>3, <3>4, <3>7, <5>1
      <4>3. QED
        BY <4>1, <4>2
    <3>9. QED
      BY <2>1, <3>8
  <2>5. QED
    BY <2>3, <2>4
<1>2. P = S \cap P
  OBVIOUS
<1>3. QED
  BY <1>1, <1>2

-----------------------------------------------------------------------------
(* What was paid and is owed adds up to what was earned. *)

USE CardAssumption

(* A trip is earned from the write of the balance on; its entry follows or is
   cut off. *)
Entering(t) == \E r \in CardReqs : cardReq[r].op = "entry" /\ cardReq[r].trip = t

IsEarned(t) == Earnings(t) # {} \/ Entering(t) \/ cut[t] = "unbooked"

Earned == [t \in CardTrips |-> IF IsEarned(t) THEN Share(t) ELSE 0]

BooksBalance == SumFunctionOnSet(PaidOrOwed, Payees) = SumFunctionOnSet(Earned, CardTrips)

LEMMA PaidAppend ==
  ASSUME NEW book \in Seq(CardEntry), NEW e \in CardEntry
  PROVE  /\ PaidOut(book) \in Int
         /\ PaidOut(Append(book, e)) = PaidOut(book) + IF e.kind = "payout" THEN e.amount ELSE 0
<1> DEFINE more == Append(book, e)
           n == Len(book) + 1
           f == [i \in DOMAIN book |-> book[i].amount]
           g == [i \in DOMAIN more |-> more[i].amount]
<1>1. /\ DOMAIN more = 1..n /\ more[n] = e /\ DOMAIN book = 1..(n - 1) /\ n \in Nat /\ n > 0
      /\ \A i \in 1..(n - 1) : more[i] = book[i] /\ i # n
      /\ \A i \in 1..(n - 1) : book[i] \in CardEntry
  OBVIOUS
<1>2. \A entry \in CardEntry : entry.amount \in Int /\ entry.kind \in {"earning", "payout"}
  BY DEF CardEntry
<1>3. /\ Payouts(book) \in SUBSET DOMAIN book
      /\ Payouts(more) = Payouts(book) \cup (IF e.kind = "payout" THEN {n} ELSE {})
      /\ n \notin Payouts(book)
  BY <1>1 DEF Payouts
<1>4. IsFiniteSet(DOMAIN book) /\ IsFiniteSet(DOMAIN more) /\ IsFiniteSet(Payouts(more))
  <2>1. IsFiniteSet(1..(n - 1)) /\ IsFiniteSet(1..n)
    BY <1>1, FS_Interval
  <2>2. Payouts(more) \in SUBSET DOMAIN more
    BY DEF Payouts
  <2>3. QED
    BY <1>1, <2>1, <2>2, FS_Subset
<1> HIDE DEF more
<1>5. /\ \A i \in DOMAIN book : f[i] \in Int /\ f[i] = g[i]
      /\ g[n] = e.amount /\ \A i \in DOMAIN more : g[i] \in Int
  <2>1. \A i \in DOMAIN more : g[i] = more[i].amount /\ more[i] \in CardEntry
    BY <1>1
  <2>2. \A i \in DOMAIN book : f[i] = book[i].amount /\ i \in DOMAIN more /\ more[i] = book[i]
    BY <1>1
  <2> HIDE DEF f, g, n
  <2>3. n \in DOMAIN more
    BY <1>1 DEF n
  <2>4. QED
    BY <1>1, <1>2, <2>1, <2>2, <2>3
<1>6. PaidOut(book) = SumFunctionOnSet(f, Payouts(book)) /\ PaidOut(more) = SumFunctionOnSet(g, Payouts(more))
  BY DEF PaidOut
<1> HIDE DEF f, g
<1>7. SumFunctionOnSet(f, Payouts(book)) \in Int
  BY <1>3, <1>4, <1>5, SumInt
<1>8. SumFunctionOnSet(f, Payouts(book)) = SumFunctionOnSet(g, Payouts(book))
  <2>1. \A s \in SUBSET DOMAIN book : SumFunctionOnSet(f, s) = SumFunctionOnSet(g, s)
    <3>1. PICK all : all = DOMAIN book
      OBVIOUS
    <3>2. IsFiniteSet(all) /\ \A i \in all : f[i] = g[i]
      BY <1>4, <1>5, <3>1
    <3>3. \A s \in SUBSET all : SumFunctionOnSet(f, s) = SumFunctionOnSet(g, s)
      BY <3>2, SumSame, Zenon
    <3>4. QED
      BY <3>1, <3>3
  <2>2. QED
    BY <1>3, <2>1
<1>9. CASE e.kind = "payout"
  <2>0. Payouts(more) \in SUBSET DOMAIN more
    BY DEF Payouts
  <2> HIDE DEF n
  <2>1. n \in Payouts(more) /\ Payouts(more) \ {n} = Payouts(book) /\ \A i \in Payouts(more) : g[i] \in Int
    BY <1>3, <1>5, <1>9, <2>0
  <2>2. SumFunctionOnSet(g, Payouts(more)) = g[n] + SumFunctionOnSet(g, Payouts(book))
    <3>1. \A i \in Payouts(more) : SumFunctionOnSet(g, Payouts(more)) = g[i] + SumFunctionOnSet(g, Payouts(more) \ {i})
      BY <1>4, <2>1, SumTakes, Zenon
    <3>2. QED
      BY <2>1, <3>1, Zenon
  <2>3. QED
    BY <1>2, <1>5, <1>6, <1>7, <1>8, <1>9, <2>2 DEF more
<1>10. CASE e.kind # "payout"
  <2>1. Payouts(more) = Payouts(book)
    BY <1>3, <1>10
  <2>2. QED
    BY <1>6, <1>7, <1>8, <1>10, <2>1 DEF more
<1>11. QED
  BY <1>9, <1>10

LEMMA SumsTyped ==
  ASSUME CardTypeOK
  PROVE  /\ \A d \in Payees : /\ PaidOut(cardBook[d]) \in Int /\ PaidOrOwed[d] \in Int
                              /\ PaidOrOwed[d] = cardBalance[d] + PaidOut(cardBook[d])
         /\ \A t \in CardTrips : Earned[t] \in Nat
<1>1. ASSUME NEW d \in Payees PROVE PaidOut(cardBook[d]) \in Int
  <2>1. cardBook[d] \in Seq(CardEntry)
    BY DEF CardTypeOK
  <2>2. PICK e : e = [kind |-> "payout", amount |-> 0, before |-> 0, after |-> 0]
    OBVIOUS
  <2>3. e \in CardEntry
    BY <2>2 DEF CardEntry
  <2>4. QED
    BY <2>1, <2>3, PaidAppend
<1>2. QED
  BY <1>1, ShareIsNat DEF CardTypeOK, PaidOrOwed, Earned

(* One trip is earned, or a driver's balance becomes a payout. *)
LEMMA BalanceMoves ==
  ASSUME IsFiniteSet(Payees), IsFiniteSet(CardTrips), CardTypeOK, CardTypeOK', BooksBalance,
         NEW d \in Payees, NEW t \in CardTrips, NEW more \in Int,
         \A b \in Payees : b # d => PaidOrOwed'[b] = PaidOrOwed[b],
         \A u \in CardTrips : u # t => Earned'[u] = Earned[u],
         PaidOrOwed'[d] = PaidOrOwed[d] + more, Earned'[t] = Earned[t] + more
  PROVE  BooksBalance'
<1>1. /\ \A b \in Payees : PaidOrOwed[b] \in Int /\ PaidOrOwed'[b] \in Int
      /\ \A u \in CardTrips : Earned[u] \in Int /\ Earned'[u] \in Int
  <2>1. /\ \A b \in Payees : PaidOrOwed[b] \in Int
        /\ \A u \in CardTrips : Earned[u] \in Int
    BY SumsTyped
  <2>2. /\ \A b \in Payees : PaidOrOwed'[b] \in Int
        /\ \A u \in CardTrips : Earned'[u] \in Int
    BY <2>1, ShareIsNat
  <2>3. QED
    BY <2>1, <2>2
<1>2. SumFunctionOnSet(PaidOrOwed', Payees) = SumFunctionOnSet(PaidOrOwed, Payees) - PaidOrOwed[d] + PaidOrOwed'[d]
  BY <1>1, SumChanges
<1>3. SumFunctionOnSet(Earned', CardTrips) = SumFunctionOnSet(Earned, CardTrips) - Earned[t] + Earned'[t]
  BY <1>1, SumChanges
<1>4. SumFunctionOnSet(PaidOrOwed, Payees) \in Int
  BY <1>1, SumInt
<1>5. QED
  BY <1>1, <1>2, <1>3, <1>4 DEF BooksBalance

LEMMA BooksBalanceKept ==
  ASSUME IsFiniteSet(Payees), IsFiniteSet(CardTrips), CardIInv, CardTypeOK', CardApart', PayoutApart,
         BooksBalance, [CardNext]_cardVars
  PROVE  BooksBalance'
<1> USE DEF gatewayVars, payeeVars, ReadCalls, SettleCalls, CreditCalls
<1>t. CardTypeOK /\ CardApart /\ CompletedOnce /\ BooksCarry
  BY DEF CardIInv
<1>p. /\ \A d \in Payees : PaidOrOwed[d] \in Int /\ PaidOrOwed[d] = cardBalance[d] + PaidOut(cardBook[d])
      /\ \A d \in Payees : PaidOrOwed'[d] = cardBalance'[d] + PaidOut(cardBook'[d])
      /\ \A d \in Payees : cardBook[d] \in Seq(CardEntry) /\ cardBalance[d] \in Int /\ PaidOut(cardBook[d]) \in Int
  <2>1. \A d \in Payees : PaidOrOwed'[d] = cardBalance'[d] + PaidOut(cardBook'[d])
    BY DEF PaidOrOwed
  <2>2. QED
    BY <1>t, <2>1, SumsTyped DEF CardTypeOK
<1>e. /\ \A t \in CardTrips :
           Earned[t] = IF Earnings(t) # {} \/ Entering(t) \/ cut[t] = "unbooked" THEN Share(t) ELSE 0
      /\ \A t \in CardTrips :
           Earned'[t] = IF Earnings(t)' # {} \/ Entering(t)' \/ cut'[t] = "unbooked" THEN Share(t) ELSE 0
  BY DEF Earned, IsEarned, Share
<1>u. UNCHANGED cardBook => \A t \in CardTrips : Earnings(t)' = Earnings(t)
  BY DEF Earnings
(* Neither side changes. *)
<1>s. ASSUME \A d \in Payees : PaidOrOwed'[d] = PaidOrOwed[d], \A t \in CardTrips : Earned'[t] = Earned[t]
      PROVE  BooksBalance'
  <2>1. SumFunctionOnSet(PaidOrOwed', Payees) = SumFunctionOnSet(PaidOrOwed, Payees)
    BY <1>s, SumSame
  <2>2. SumFunctionOnSet(Earned', CardTrips) = SumFunctionOnSet(Earned, CardTrips)
    BY <1>s, SumSame
  <2>3. QED
    BY <2>1, <2>2 DEF BooksBalance
<1>1. ASSUME UNCHANGED <<cardBalance, cardBook, cut>>,
             \A q \in CardReqs : cardReq'[q].op = "entry" \/ cardReq[q].op = "entry" => cardReq'[q] = cardReq[q]
      PROVE  BooksBalance'
  <2>1. \A t \in CardTrips : Entering(t)' <=> Entering(t)
    BY <1>1 DEF Entering
  <2>2. QED
    BY <1>1, <1>s, <1>p, <1>e, <1>u, <2>1
<1>2. ASSUME NEW r \in CardReqs, CreditRead(r) PROVE BooksBalance'
  <2>1. /\ UNCHANGED <<cardBalance, cardBook, cut>> /\ cardReq[r].op = "credit"
        /\ \E before : CardStep(r, [op |-> "balance", trip |-> cardReq[r].trip, before |-> before])
    BY <1>2 DEF CreditRead
  <2>2. cardReq'[r].op = "balance" /\ \A q \in CardReqs : q # r => cardReq'[q] = cardReq[q]
    BY <2>1, <1>t, CardSlots
  <2>3. QED
    BY <2>1, <2>2, <1>1
<1>3. ASSUME NEW r \in CardReqs, CreditWrite(r) PROVE BooksBalance'
  <2>q. cardReq[r] \in CardCall /\ cardReq[r].op = "balance"
    BY <1>3, <1>t DEF CreditWrite, CardTypeOK
  <2>0. PICK t \in CardTrips, b \in Int : cardReq[r] = [op |-> "balance", trip |-> t, before |-> b]
    BY <2>q DEF CardCall
  <2>d. PICK d \in Payees : d = PayeeOf[t]
    OBVIOUS
  <2>1. /\ UNCHANGED <<cardBook, cut>> /\ cardBalance' = [cardBalance EXCEPT ![d] = b + Share(t)]
        /\ CardStep(r, [op |-> "entry", trip |-> t, before |-> b])
    BY <1>3, <2>0, <2>d DEF CreditWrite
  <2>s. /\ cardReq'[r] = [op |-> "entry", trip |-> t, before |-> b]
        /\ \A q \in CardReqs : q # r => cardReq'[q] = cardReq[q]
    BY <2>1, <1>t, CardSlots
  <2>2. b = cardBalance[d] /\ Earnings(t) = {} /\ cut[t] = "no"
    <3>1. CallCarries(r) /\ CallMarked(r)
      BY <1>t DEF BooksCarry, CompletedOnce
    <3>2. b = cardBalance[d]
      BY <2>0, <2>d, <3>1 DEF CallCarries
    <3>3. cardReq[r].op = "balance" /\ cardReq[r].trip = t
      BY <2>0
    <3>4. Earnings(t) = {} /\ cut[t] = "no"
      BY <3>1, <3>3 DEF CallMarked
    <3>5. QED
      BY <3>2, <3>4
  <2>3. ~Entering(t) /\ Entering(t)' /\ \A u \in CardTrips : u # t => (Entering(u)' <=> Entering(u))
    BY <2>0, <2>s, <1>t DEF Entering, CardApart
  <2>4. Share(t) \in Int /\ cardBalance'[d] = cardBalance[d] + Share(t)
        /\ \A c \in Payees : c # d => cardBalance'[c] = cardBalance[c]
    BY <2>1, <2>2, <1>t, ShareIsNat DEF CardTypeOK
  <2>5. PaidOrOwed'[d] = PaidOrOwed[d] + Share(t) /\ \A c \in Payees : c # d => PaidOrOwed'[c] = PaidOrOwed[c]
    <3>1. \A c \in Payees : PaidOut(cardBook'[c]) = PaidOut(cardBook[c])
      BY <2>1
    <3>2. \A c \in Payees : PaidOrOwed'[c] = cardBalance'[c] + PaidOut(cardBook[c])
      BY <3>1, <1>p
    <3>3. \A c \in Payees : c # d => PaidOrOwed'[c] = PaidOrOwed[c]
      BY <2>4, <3>2, <1>p
    <3>4. PICK x \in Int, y \in Int, z \in Int : x = cardBalance[d] /\ y = PaidOut(cardBook[d]) /\ z = Share(t)
      BY <2>4, <1>p
    <3>5. PaidOrOwed'[d] = (x + z) + y /\ PaidOrOwed[d] = x + y
      BY <2>4, <3>2, <3>4, <1>p
    <3>6. QED
      BY <3>3, <3>4, <3>5
  <2>6. Earned'[t] = Earned[t] + Share(t) /\ \A u \in CardTrips : u # t => Earned'[u] = Earned[u]
    BY <2>1, <2>2, <2>3, <2>4, <1>e, <1>u
  <2>7. QED
    BY <2>4, <2>5, <2>6, <1>t, BalanceMoves
<1>4. ASSUME NEW r \in CardReqs, CreditEntry(r) PROVE BooksBalance'
  <2>q. cardReq[r] \in CardCall /\ cardReq[r].op = "entry"
    BY <1>4, <1>t DEF CreditEntry, CardTypeOK
  <2>0. PICK t \in CardTrips, b \in Int : cardReq[r] = [op |-> "entry", trip |-> t, before |-> b]
    BY <2>q DEF CardCall
  <2>d. PICK d \in Payees : d = PayeeOf[t]
    OBVIOUS
  <2>e. PICK e : e = [kind |-> "earning", trip |-> t, amount |-> Share(t), before |-> b, after |-> b + Share(t)]
    OBVIOUS
  <2>1. e \in CardEntry /\ e.kind = "earning" /\ e.trip = t
    BY <2>e, ShareIsNat DEF CardEntry
  <2>2. cardBook' = [cardBook EXCEPT ![d] = Append(@, e)] /\ UNCHANGED <<cardBalance, cut>>
    BY <1>4, <2>0, <2>d, <2>e DEF CreditEntry
  <2>3. cardReq'[r].op = "idle" /\ \A q \in CardReqs : q # r => cardReq'[q] = cardReq[q]
    BY <1>4, <1>t, CardSlots DEF CreditEntry
  <2>4. cardBook'[d] = Append(cardBook[d], e) /\ \A c \in Payees : c # d => cardBook'[c] = cardBook[c]
    BY <2>2, <1>t DEF CardTypeOK
  <2>5. PaidOut(cardBook'[d]) = PaidOut(cardBook[d])
    <3>1. PICK book \in Seq(CardEntry) : book = cardBook[d]
      BY <1>p
    <3>2. PaidOut(book) \in Int /\ PaidOut(Append(book, e)) = PaidOut(book) + IF e.kind = "payout" THEN e.amount ELSE 0
      BY <2>1, PaidAppend
    <3>3. QED
      BY <2>1, <2>4, <3>1, <3>2
  <2>6. \A c \in Payees : PaidOrOwed'[c] = PaidOrOwed[c]
    <3>1. \A c \in Payees : PaidOut(cardBook'[c]) = PaidOut(cardBook[c])
      BY <2>4, <2>5
    <3>2. UNCHANGED cardBalance
      BY <2>2
    <3>3. QED
      BY <3>1, <3>2, <1>p
  <2>7. \A u \in CardTrips : Earnings(u)' = Earnings(u) \cup (IF u = t THEN {Len(cardBook[d]) + 1} ELSE {})
    <3>1. \A u \in CardTrips : PayeeOf[u] # d => Earnings(u)' = Earnings(u)
      BY <2>4 DEF Earnings
    <3>2. \A u \in CardTrips : Credits(Append(cardBook[d], e), u) =
                                 Credits(cardBook[d], u) \cup (IF u = t THEN {Len(cardBook[d]) + 1} ELSE {})
      BY <2>1, <1>p, CreditsAppend
    <3>3. QED
      BY <2>4, <2>d, <3>1, <3>2 DEF Earnings
  <2>8. Entering(t) /\ \A u \in CardTrips : u # t => (Entering(u)' <=> Entering(u))
    BY <2>0, <2>3 DEF Entering
  <2>9. \A u \in CardTrips : Earned'[u] = Earned[u]
    BY <2>2, <2>7, <2>8, <1>e
  <2>10. QED
    BY <2>6, <2>9, <1>s
<1>5. ASSUME NEW r \in CardReqs, NEW d \in Payees, PayoutCardBalance(r, d) PROVE BooksBalance'
  <2>e. PICK e : e = [kind |-> "payout", amount |-> cardBalance[d], before |-> cardBalance[d], after |-> 0]
    OBVIOUS
  <2>1. e \in CardEntry /\ e.kind = "payout" /\ e.amount = cardBalance[d]
    BY <2>e, <1>p DEF CardEntry
  <2>2. /\ cardBook' = [cardBook EXCEPT ![d] = Append(@, e)] /\ UNCHANGED <<cardReq, cut>>
        /\ cardBalance' = [cardBalance EXCEPT ![d] = 0]
    BY <1>5, <2>e DEF PayoutCardBalance
  <2>3. /\ cardBook'[d] = Append(cardBook[d], e) /\ \A c \in Payees : c # d => cardBook'[c] = cardBook[c]
        /\ cardBalance'[d] = 0 /\ \A c \in Payees : c # d => cardBalance'[c] = cardBalance[c]
    BY <2>2, <1>t DEF CardTypeOK
  <2>4. PaidOut(cardBook'[d]) = PaidOut(cardBook[d]) + cardBalance[d]
    BY <2>1, <2>3, <1>p, PaidAppend
  <2>5. \A c \in Payees : PaidOrOwed'[c] = PaidOrOwed[c]
    <3>1. \A c \in Payees : c # d => PaidOrOwed'[c] = PaidOrOwed[c]
      BY <2>3, <1>p
    <3>2. PICK x \in Int, y \in Int : x = cardBalance[d] /\ y = PaidOut(cardBook[d])
      BY <1>p
    <3>3. PaidOrOwed'[d] = 0 + (y + x) /\ PaidOrOwed[d] = x + y
      BY <2>3, <2>4, <3>2, <1>p
    <3>4. QED
      BY <3>1, <3>2, <3>3
  <2>6. \A u \in CardTrips : Earnings(u)' = Earnings(u)
    <3>1. \A u \in CardTrips : PayeeOf[u] # d => Earnings(u)' = Earnings(u)
      BY <2>3 DEF Earnings
    <3>2. \A u \in CardTrips : Credits(Append(cardBook[d], e), u) = Credits(cardBook[d], u)
      <4>1. PICK book \in Seq(CardEntry) : book = cardBook[d]
        BY <1>p
      <4>2. ASSUME NEW u PROVE Credits(Append(book, e), u) = Credits(book, u)
        <5>1. Credits(Append(book, e), u) =
                Credits(book, u) \cup (IF e.kind = "earning" /\ e.trip = u THEN {Len(book) + 1} ELSE {})
          BY <4>1, CreditsAppend
        <5>2. e.kind # "earning"
          BY <2>1
        <5>3. QED
          BY <5>1, <5>2
      <4>3. QED
        BY <4>1, <4>2
    <3>3. QED
      BY <2>3, <3>1, <3>2 DEF Earnings
  <2>7. \A u \in CardTrips : Earned'[u] = Earned[u]
    BY <2>2, <2>6, <1>e DEF Entering
  <2>8. QED
    BY <2>5, <2>7, <1>s
<1>7. ASSUME NEW r \in CardReqs, SettlingCut(r) PROVE BooksBalance'
  <2>1. /\ UNCHANGED <<cardBalance, cardBook>>
        /\ cardReq'[r].op = "idle" /\ \A q \in CardReqs : q # r => cardReq'[q] = cardReq[q]
    BY <1>7, <1>t, CardSlots DEF SettlingCut
  <2>2. PICK t \in CardTrips : t = cardReq[r].trip
    BY <1>7, <1>t DEF SettlingCut, CardTypeOK, CardCall
  <2>3. CASE cardReq[r].op = "entry"
    <3>1. cut'[t] = "unbooked" /\ \A u \in CardTrips : u # t => cut'[u] = cut[u]
      BY <1>7, <1>t, <2>2, <2>3 DEF SettlingCut, CardTypeOK
    <3>2. Entering(t) /\ \A u \in CardTrips : u # t => (Entering(u)' <=> Entering(u))
      BY <2>1, <2>2, <2>3 DEF Entering
    <3>3. \A u \in CardTrips : Earned'[u] = Earned[u]
      BY <1>e, <1>u, <2>1, <3>1, <3>2
    <3>4. QED
      BY <1>p, <1>s, <2>1, <3>3
  <2>4. CASE cardReq[r].op # "entry"
    <3>1. \A u \in CardTrips : Entering(u)' <=> Entering(u)
      BY <2>1, <2>4 DEF Entering
    <3>2. \A u \in CardTrips : cut'[u] = "unbooked" <=> cut[u] = "unbooked"
      <4>1. CallMarked(r)
        BY <1>t DEF CompletedOnce
      <4>2. cut \in [CardTrips -> {"no", "unpaid", "unbooked"}]
        BY <1>t DEF CardTypeOK
      <4>3. QED
        BY <1>7, <2>2, <2>4, <4>1, <4>2 DEF SettlingCut, CallMarked
    <3>3. \A u \in CardTrips : Earned'[u] = Earned[u]
      BY <1>e, <1>u, <2>1, <3>1, <3>2
    <3>4. QED
      BY <1>p, <1>s, <2>1, <3>3
  <2>5. QED
    BY <2>3, <2>4
<1>6. QED
  BY <1>7, <1>1, <1>2, <1>3, <1>4, <1>5, <1>t, WalletSteps

LEMMA CardInitBalance ==
  ASSUME IsFiniteSet(Payees), IsFiniteSet(CardTrips), CardInit
  PROVE  BooksBalance
<1>1. \A d \in Payees : PaidOrOwed[d] = 0
  <2>1. PaidOut(<<>>) = 0
    <3>1. DOMAIN <<>> = {} /\ Payouts(<<>>) = {}
      BY DEF Payouts
    <3>2. QED
      BY <3>1, SumAddsOne, FS_EmptySet DEF PaidOut
  <2>2. QED
    BY <2>1 DEF CardInit, PaidOrOwed
<1>2. \A t \in CardTrips : Earned[t] = 0
  BY DEF CardInit, Earned, IsEarned, Earnings, Credits, Entering
<1>3. ASSUME NEW f, NEW S, IsFiniteSet(S), \A x \in S : f[x] = 0 PROVE SumFunctionOnSet(f, S) = 0
  <2>1. SumFunctionOnSet(f, S) = SumFunctionOnSet(f, {})
    BY <1>3, SumOfPart
  <2>2. QED
    BY <2>1, SumAddsOne, FS_EmptySet
<1>4. QED
  BY <1>1, <1>2, <1>3 DEF BooksBalance

(* What was earned of a trip, with the platform's commission, has come in. *)
LEMMA CoveredByBalance ==
  ASSUME IsFiniteSet(Payees), IsFiniteSet(CardTrips), CardTypeOK, ChargesStored, EntriesEarned, BooksBalance
  PROVE  PlatformCovered
<1> DEFINE credited == {t \in CardTrips : Earnings(t) # {}}
           received == [t \in CardTrips |-> charges[t] * Settled(payment[t].charged)]
           kept == [t \in CardTrips |-> IF t \in credited THEN Commission[t] ELSE 0]
<1>1. ASSUME NEW t \in CardTrips
      PROVE  /\ Earned[t] \in Int /\ kept[t] \in Int /\ received[t] \in Int
             /\ Earned[t] + kept[t] <= received[t]
  <2>1. PICK n \in Nat : n = charges[t]
    BY DEF CardTypeOK
  <2>2. PICK s \in Nat : s = Settled(payment[t].charged)
    <3>1. payment[t].charged \in Nat
      BY DEF CardTypeOK, PaymentRow
    <3>2. QED
      BY <3>1 DEF Settled
  <2>3. received[t] = n * s /\ n * s \in Nat
    <3>1. n * s \in Nat
      BY Z3
    <3>2. QED
      BY <2>1, <2>2, <3>1
  <2>4. CASE IsEarned(t)
    <3>1. n > 0
      <4>1. CASE Entering(t)
        BY <4>1, <2>1 DEF Entering, ChargesStored, CallStored, CreditCalls
      <4>4. CASE cut[t] = "unbooked"
        BY <4>4, <2>1 DEF ChargesStored, TripStored
      <4>2. CASE Earnings(t) # {}
        <5>1. PICK i \in DOMAIN cardBook[PayeeOf[t]] :
                cardBook[PayeeOf[t]][i].kind = "earning" /\ cardBook[PayeeOf[t]][i].trip = t
          BY <4>2 DEF Earnings, Credits
        <5>2. QED
          BY <5>1, <2>1 DEF EntriesEarned, EntryEarned
      <4>3. QED
        BY <2>4, <4>1, <4>2, <4>4 DEF IsEarned
    <3>2. s >= Fare[t]
      BY <2>1, <2>2, <3>1, ChargeCoversFare, ShareIsNat DEF ChargesStored, TripStored
    <3>3. n * s >= s
      BY <3>1, AtLeastOne
    <3>4. Earned[t] = Share(t) /\ kept[t] \in {0, Commission[t]}
      BY <2>4 DEF Earned
    <3>5. Share(t) + Commission[t] = Fare[t]
      BY ShareIsNat DEF Share
    <3>6. QED
      BY <2>3, <3>2, <3>3, <3>4, <3>5, ShareIsNat
  <2>5. CASE ~IsEarned(t)
    <3>1. Earned[t] = 0 /\ kept[t] = 0
      BY <2>5 DEF Earned, IsEarned
    <3>2. QED
      BY <2>3, <3>1
  <2>6. QED
    BY <2>4, <2>5
<1>2. SumFunctionOnSet(kept, CardTrips) = SumFunctionOnSet(Commission, credited)
  <2>1. credited \in SUBSET CardTrips
    OBVIOUS
  <2>2. \A t \in CardTrips : Commission[t] \in Int /\ kept[t] = IF t \in credited THEN Commission[t] ELSE 0
    BY ShareIsNat
  <2> HIDE DEF kept, credited
  <2>3. QED
    BY <2>1, <2>2, SumOfPart
<1>3. SumFunctionOnSet(Earned, CardTrips) + SumFunctionOnSet(kept, CardTrips) <= SumFunctionOnSet(received, CardTrips)
  <2> HIDE DEF kept, received
  <2>1. QED
    BY <1>1, SumAdds
<1>4. QED
  BY <1>2, <1>3 DEF PlatformCovered, BooksBalance

LEMMA CoveredStep ==
  ASSUME IsFiniteSet(Payees), IsFiniteSet(CardTrips)
  PROVE  CardIInv /\ ChargesStored /\ EntriesEarned /\ BooksBalance /\ PaysForItsTrip'
           /\ [CardNext /\ CardApart' /\ PayoutApart]_cardVars
         => CardIInv' /\ ChargesStored' /\ EntriesEarned' /\ BooksBalance'
<1> SUFFICES ASSUME CardIInv, ChargesStored, EntriesEarned, BooksBalance, PaysForItsTrip',
                    [CardNext /\ CardApart' /\ PayoutApart]_cardVars
             PROVE  CardIInv' /\ ChargesStored' /\ EntriesEarned' /\ BooksBalance'
  OBVIOUS
<1>1. CardIInv' /\ [CardNext]_cardVars
  BY CardNextIInv
<1>2. CardTypeOK /\ CardTypeOK' /\ CardApart'
  BY <1>1 DEF CardIInv
<1>3. ChargesStored' /\ EntriesEarned'
  BY <1>1, <1>2, ChargesStoredKept, EntriesEarnedKept
<1>4. PayoutApart
  BY <1>2, PayoutKept
<1>5. QED
  BY <1>1, <1>2, <1>3, <1>4, BooksBalanceKept

(* Where calls stay apart in the same way and each payment is confirmed for the
   trip it was made for, whatever the gateway, its lost answers, settlements cut
   short and the payouts do: what drivers were paid and are owed, with the
   commission on what they are credited for, has come in from the gateway. *)
THEOREM WhatIsOwedCameIn ==
  ASSUME IsFiniteSet(Payees), IsFiniteSet(CardTrips)
  PROVE  CardApartSpec /\ []PaysForItsTrip => []PlatformCovered
<1>1. CardInit => CardIInv /\ ChargesStored /\ EntriesEarned /\ BooksBalance
  BY CardInitIInv, CardInitEarned, CardInitBalance
<1>2. CardIInv /\ ChargesStored /\ EntriesEarned /\ BooksBalance /\ PaysForItsTrip'
           /\ [CardNext /\ CardApart' /\ PayoutApart]_cardVars
        => CardIInv' /\ ChargesStored' /\ EntriesEarned' /\ BooksBalance'
  BY CoveredStep
<1>3. CardIInv /\ ChargesStored /\ EntriesEarned /\ BooksBalance => PlatformCovered
  BY CoveredByBalance DEF CardIInv
<1>4. QED
  BY <1>1, <1>2, <1>3, PTL DEF CardApartSpec
=============================================================================
