------------------------------ MODULE AppsProofs ------------------------------
(***************************************************************************)
(* What holds of the two apps for every number of trips: types whatever    *)
(* troubles there are, and that the page fits the trip without them.  No   *)
(* such invariant is inductive alone: a page leads to requests about its   *)
(* trip, an answer or an event leads to a page, so each that is in flight  *)
(* must fit the trip as it stands.                                         *)
(***************************************************************************)
EXTENDS Passenger, DriverApp, TLAPS

USE PassengerAssumption

Made(t) == t \in DOMAIN orders

(* Nothing, or what is known of a trip there is. *)
Refers(known) == known = Nothing \/ Made(known.trip)

CallRefers(c) ==
  /\ Refers(c.got)
  /\ c.kind \in {"create", "retry"} /\ c.reply = "ok" => c.got # Nothing
  /\ c.kind = "select" => Made(c.trip)

ScreenRefers == screen.page \in {"searching", "ride"} => Made(screen.trip)

PassengerTyped ==
  /\ PassengerTypeOK
  /\ Refers(cached) /\ ScreenRefers
  /\ \A c \in calls : CallRefers(c)
  /\ \A i \in DOMAIN inbox : Made(inbox[i].trip)

Order == Unfinished \cup {"completed", "cancelled"}

LEMMA OrdersKnown ==
  ASSUME PassengerTypeOK
  PROVE  /\ DOMAIN orders = 1..Len(orders) /\ Len(orders) \in Nat
         /\ \A t : Made(t) => t \in Ids /\ t \in 0..MaxRides /\ orders[t] \in Order
         /\ \A t : Made(t) /\ orders[t] \in Unfinished => Read(t) \in Known /\ Read(t).trip = t /\ Read(t) # Nothing
<1>1. orders \in Seq(Order) /\ Len(orders) <= MaxRides
  BY DEF PassengerTypeOK, Order
<1>2. DOMAIN orders = 1..Len(orders) /\ Len(orders) \in Nat
  BY <1>1
<1>3. ASSUME NEW t, Made(t) PROVE t \in Ids /\ t \in 0..MaxRides /\ orders[t] \in Order
  BY <1>1, <1>2, <1>3 DEF Made, Ids
<1>4. ASSUME NEW t, Made(t), orders[t] \in Unfinished
      PROVE  Read(t) \in Known /\ Read(t).trip = t /\ Read(t) # Nothing
  BY <1>3, <1>4 DEF Read, Known, Nothing, Ids
<1>5. QED
  BY <1>2, <1>3, <1>4

LEMMA ActiveTripKnown == PassengerTypeOK => ActiveTrip \in Known /\ Refers(ActiveTrip)
<1> SUFFICES ASSUME PassengerTypeOK PROVE ActiveTrip \in Known /\ Refers(ActiveTrip)
  OBVIOUS
<1>1. CASE \E t \in DOMAIN orders : orders[t] \in Unfinished
  <2> DEFINE t == CHOOSE t \in DOMAIN orders : orders[t] \in Unfinished
  <2>1. Made(t) /\ orders[t] \in Unfinished
    BY <1>1 DEF Made
  <2>2. ActiveTrip = Read(t)
    BY <1>1 DEF ActiveTrip
  <2> HIDE DEF t
  <2>3. QED
    BY <2>1, <2>2, OrdersKnown DEF Refers
<1>2. CASE ~\E t \in DOMAIN orders : orders[t] \in Unfinished
  BY <1>2 DEF ActiveTrip, Refers, Nothing, Known
<1>3. QED
  BY <1>1, <1>2

LEMMA NothingKnown == Nothing \in Known /\ Nothing.status = "none" /\ Nothing.trip = 0 /\ Refers(Nothing)
BY DEF Nothing, Known, Refers

LEMMA PassengerInitTyped == PassengerInit => PassengerTyped
<1> SUFFICES ASSUME PassengerInit PROVE PassengerTyped
  OBVIOUS
<1>1. PassengerTypeOK
  <2>1. orders \in Seq(Unfinished \cup {"completed", "cancelled"}) /\ Len(orders) <= MaxRides
    BY DEF PassengerInit
  <2>2. screen \in [page : Page, trip : 0..MaxRides, shown : Known, checked : BOOLEAN]
    BY NothingKnown DEF PassengerInit, Page
  <2>3. line \in [state : {"off", "down", "joining", "up", "ended"}, room : 0..MaxRides, asks : 0..MaxRides]
    BY DEF PassengerInit
  <2>4. inbox \in Seq(Event)
    BY DEF PassengerInit
  <2>5. /\ cached \in Known /\ heard \in BOOLEAN /\ calls \subseteq Answer
        /\ process \in {"dead", "front", "back"} /\ troubles \in 0..MaxTroubles
    <3>1. cached \in Known /\ heard \in BOOLEAN
      BY NothingKnown DEF PassengerInit
    <3>2. calls \subseteq Answer /\ process \in {"dead", "front", "back"} /\ troubles = 0
      BY DEF PassengerInit
    <3>3. QED
      BY <3>1, <3>2
  <2>6. QED
    BY <2>1, <2>2, <2>3, <2>4, <2>5 DEF PassengerTypeOK
<1>2. QED
  BY <1>1, NothingKnown DEF PassengerInit, PassengerTyped, ScreenRefers

(* The calls and the page that the handlers make. *)
PassengerCallsOK(cs) == cs \subseteq Answer /\ \A c \in cs : CallRefers(c)

LEMMA NewCalls ==
  ASSUME PassengerTyped
  PROVE  /\ PassengerCallsOK(calls) /\ PassengerCallsOK(Provider) /\ PassengerCallsOK(Refetch) /\ PassengerCallsOK({})
         /\ \A kind \in Asks : PassengerCallsOK(AsksFor(kind))
         /\ \A cs, ds : PassengerCallsOK(cs) /\ PassengerCallsOK(ds) => PassengerCallsOK(cs \cup ds)
         /\ \A cs, ds : PassengerCallsOK(cs) => PassengerCallsOK(cs \ ds)
<1>1. PassengerCallsOK(calls)
  BY DEF PassengerTyped, PassengerTypeOK, PassengerCallsOK
<1>2. ActiveTrip \in Known /\ Refers(ActiveTrip)
  BY ActiveTripKnown DEF PassengerTyped
<1>3. screen.trip \in 0..MaxRides /\ 0 \in 0..MaxRides
  BY DEF PassengerTyped, PassengerTypeOK
<1>4. ASSUME NEW kind \in Asks, NEW t \in 0..MaxRides
      PROVE  PassengerCallsOK({[kind |-> kind, trip |-> t, reply |-> "ok", got |-> ActiveTrip]})
  BY <1>2 DEF PassengerCallsOK, CallRefers, Answer, Asks
<1>5. PassengerCallsOK(Refetch) /\ \A kind \in Asks : PassengerCallsOK(AsksFor(kind))
  BY <1>3, <1>4 DEF Refetch, AsksFor, Asks
<1>6. PassengerCallsOK(Provider) /\ PassengerCallsOK({})
  BY <1>1 DEF PassengerCallsOK, Provider
<1>7. QED
  BY <1>1, <1>5, <1>6 DEF PassengerCallsOK

(* Pages, requests and the socket after a step, as their types and what they
   refer to ask for. *)
Moved ==
  /\ screen' \in [page : Page, trip : 0..MaxRides, shown : Known, checked : BOOLEAN]
  /\ ScreenRefers'
  /\ heard' \in BOOLEAN
  /\ calls' \subseteq Answer /\ \A c \in calls' : CallRefers(c)
  /\ line' \in [state : {"off", "down", "joining", "up", "ended"}, room : 0..MaxRides, asks : 0..MaxRides]

LEMMA WaysIn ==
  ASSUME PassengerTyped, UNCHANGED orders
  PROVE  /\ \A more : PassengerCallsOK(more) /\ EnterHome(more) => Moved
         /\ \A seen \in Known : \A more : PassengerCallsOK(more) /\ Made(seen.trip) /\ EnterSearching(seen, more) => Moved
         /\ \A t : \A known \in Known : \A more : PassengerCallsOK(more) /\ Made(t) /\ EnterRide(t, known, more) => Moved
         /\ \A more : PassengerCallsOK(more) /\ Stay(more) => Moved
<1>1. /\ screen \in [page : Page, trip : 0..MaxRides, shown : Known, checked : BOOLEAN]
      /\ heard \in BOOLEAN
      /\ line \in [state : {"off", "down", "joining", "up", "ended"}, room : 0..MaxRides, asks : 0..MaxRides]
      /\ ScreenRefers
  BY DEF PassengerTyped, PassengerTypeOK
<1>2. 0 \in 0..MaxRides /\ {"gate", "home", "searching", "noDrivers", "ride", "pay"} = Page
  BY DEF Page
<1>m. \A t : Made(t)' = Made(t)
  BY DEF Made
<1>c. ASSUME NEW cs, PassengerCallsOK(cs), calls' = cs
      PROVE  calls' \subseteq Answer /\ \A c \in calls' : CallRefers(c)
  BY <1>c DEF PassengerCallsOK
<1>s. ASSUME NEW asks \in 0..MaxRides, Socket(asks)
      PROVE  line' \in [state : {"off", "down", "joining", "up", "ended"}, room : 0..MaxRides, asks : 0..MaxRides]
  BY <1>1, <1>2, <1>s DEF Socket
<1>3. ASSUME NEW more, PassengerCallsOK(more), EnterHome(more) PROVE Moved
  <2>1. screen' \in [page : Page, trip : 0..MaxRides, shown : Known, checked : BOOLEAN] /\ screen'.page = "home"
    BY <1>2, <1>3, NothingKnown DEF EnterHome
  <2>2. calls' = more /\ heard' \in BOOLEAN /\ Socket(0)
    BY <1>3 DEF EnterHome
  <2>3. QED
    BY <1>2, <1>3, <1>c, <1>s, <2>1, <2>2 DEF Moved, ScreenRefers
<1>4. ASSUME NEW seen \in Known, NEW more, PassengerCallsOK(more), Made(seen.trip), EnterSearching(seen, more) PROVE Moved
  <2>1. seen.trip \in 0..MaxRides
    BY DEF Known
  <2>2. screen' \in [page : Page, trip : 0..MaxRides, shown : Known, checked : BOOLEAN] /\ screen'.trip = seen.trip
    BY <1>2, <1>4, <2>1 DEF EnterSearching
  <2>3. calls' = more /\ heard' = heard /\ Socket(0)
    BY <1>4 DEF EnterSearching
  <2>4. QED
    BY <1>1, <1>2, <1>4, <1>c, <1>m, <1>s, <2>2, <2>3 DEF Moved, ScreenRefers
<1>5. ASSUME NEW t, NEW known \in Known, NEW more, PassengerCallsOK(more), Made(t), EnterRide(t, known, more) PROVE Moved
  <2>1. t \in 0..MaxRides
    BY <1>5, OrdersKnown DEF PassengerTyped
  <2>2. screen' \in [page : Page, trip : 0..MaxRides, shown : Known, checked : BOOLEAN] /\ screen'.trip = t
    BY <1>2, <1>5, <2>1 DEF EnterRide
  <2>3. PassengerCallsOK(more \cup IF known = Nothing THEN AsksFor("load") ELSE {})
    BY <1>5, NewCalls DEF Asks
  <2>4. calls' = more \cup IF known = Nothing THEN AsksFor("load") ELSE {}
    BY <1>5 DEF EnterRide
  <2>5. heard' = heard /\ Socket(t)
    BY <1>5 DEF EnterRide
  <2>6. calls' \subseteq Answer /\ \A c \in calls' : CallRefers(c)
    BY <2>3, <2>4, <1>c
  <2>7. QED
    BY <1>1, <1>5, <1>m, <1>s, <2>1, <2>2, <2>5, <2>6 DEF Moved, ScreenRefers
<1>6. ASSUME NEW more, PassengerCallsOK(more), Stay(more) PROVE Moved
  BY <1>1, <1>6, <1>c, <1>m DEF Stay, Moved, ScreenRefers
<1>7. QED
  BY <1>3, <1>4, <1>5, <1>6

(* The same for what leaves home or not, as it hears of the provider. *)
LEMMA InvalidateMoves ==
  ASSUME PassengerTyped, UNCHANGED orders, NEW more, PassengerCallsOK(more), Invalidate(more)
  PROVE  Moved
<1>1. CASE screen.page = "home" /\ ~screen.checked /\ cached.status \in WithDriver
  <2>1. cached \in Known /\ Made(cached.trip)
    BY <1>1, NothingKnown DEF PassengerTyped, PassengerTypeOK, Refers, WithDriver
  <2>2. EnterRide(cached.trip, cached, Refetch)
    BY <1>1 DEF Invalidate
  <2>3. PassengerCallsOK(Refetch)
    BY NewCalls
  <2>4. QED
    BY <2>1, <2>2, <2>3, WaysIn
<1>2. CASE ~(screen.page = "home" /\ ~screen.checked /\ cached.status \in WithDriver)
  <2>1. /\ calls' = (more \ Provider) \cup Refetch
        /\ screen' = IF screen.page = "home" /\ cached = Nothing THEN [screen EXCEPT !.checked = TRUE] ELSE screen
        /\ UNCHANGED <<heard, line>>
    BY <1>2 DEF Invalidate
  <2>2. PassengerCallsOK((more \ Provider) \cup Refetch)
    BY NewCalls
  <2>3. screen \in [page : Page, trip : 0..MaxRides, shown : Known, checked : BOOLEAN] /\ ScreenRefers
    BY DEF PassengerTyped, PassengerTypeOK
  <2>4. /\ screen' \in [page : Page, trip : 0..MaxRides, shown : Known, checked : BOOLEAN]
        /\ screen'.page = screen.page /\ screen'.trip = screen.trip
    BY <2>1, <2>3
  <2>5. QED
    BY <2>1, <2>2, <2>3, <2>4 DEF Moved, PassengerCallsOK, ScreenRefers, Made, PassengerTyped, PassengerTypeOK
<1>3. QED
  BY <1>1, <1>2

InboxOK(box) == box \in Seq(Event) /\ \A i \in DOMAIN box : Made(box[i].trip)

(* A step of the app alone. *)
LEMMA AppStepTyped ==
  ASSUME PassengerTyped, orders' = orders, Moved,
         cached' \in Known, Refers(cached)', InboxOK(inbox)',
         process' \in {"dead", "front", "back"}, troubles' \in 0..MaxTroubles
  PROVE  PassengerTyped'
<1>1. \A t : Made(t)' = Made(t)
  BY DEF Made
<1>2. \A c \in calls' : CallRefers(c)'
  BY <1>1 DEF Moved, CallRefers, Refers
<1>3. PassengerTypeOK'
  BY DEF PassengerTyped, PassengerTypeOK, Moved, InboxOK
<1>4. QED
  BY <1>2, <1>3 DEF PassengerTyped, Moved, InboxOK

(* A step of the service: a trip changes or a new one comes, and the app hears. *)
LEMMA ServiceStepTyped ==
  ASSUME PassengerTyped, UNCHANGED <<screen, cached, heard, line, process, troubles>>,
         orders' \in Seq(Order), Len(orders') <= MaxRides,
         \A t : Made(t) => Made(t)',
         calls' \subseteq Answer, \A c \in calls' : CallRefers(c)',
         InboxOK(inbox)'
  PROVE  PassengerTyped'
<1>1. PassengerTypeOK'
  BY DEF PassengerTyped, PassengerTypeOK, InboxOK, Order
<1>2. Refers(cached)' /\ ScreenRefers'
  BY DEF PassengerTyped, Refers, ScreenRefers
<1>3. QED
  BY <1>1, <1>2 DEF PassengerTyped, InboxOK

LEMMA InboxTyped == PassengerTyped => InboxOK(inbox)
BY DEF PassengerTyped, PassengerTypeOK, InboxOK

(* An event about a trip there is, to one room, to both or to none. *)
LEMMA PushTyped ==
  ASSUME PassengerTyped, NEW t, Made(t), \A u : Made(u) => Made(u)',
         NEW name \in {"accepted", "arrived", "started", "completed", "cancelled", "expired"}, Push(name, t)
  PROVE  InboxOK(inbox)'
<1> DEFINE e == [name |-> name, trip |-> t]
<1>1. e \in Event /\ e.trip = t
  BY OrdersKnown DEF PassengerTyped, Event
<1>2. InboxOK(inbox)
  BY InboxTyped
<1> HIDE DEF e
<1>3. PICK a \in {<<>>, <<e>>}, b \in {<<>>, <<e>>} : inbox' = inbox \o a \o b
  BY DEF Push, e
<1>4. /\ inbox \in Seq(Event) /\ a \in Seq(Event) /\ b \in Seq(Event)
      /\ \A i \in DOMAIN a : a[i] = e
      /\ \A j \in DOMAIN b : b[j] = e
  <2>1. <<e>> \in Seq(Event) /\ <<>> \in Seq(Event) /\ DOMAIN <<e>> = {1} /\ <<e>>[1] = e
    BY <1>1
  <2>2. DOMAIN <<>> = {}
    OBVIOUS
  <2>3. \A x \in {<<>>, <<e>>} : x \in Seq(Event) /\ \A i \in DOMAIN x : x[i] = e
    BY <2>1, <2>2
  <2>4. QED
    BY <1>2, <2>3 DEF InboxOK
<1>5. inbox' \in Seq(Event)
  BY <1>3, <1>4
<1>6. ASSUME NEW i \in DOMAIN inbox' PROVE inbox'[i] = e \/ \E j \in DOMAIN inbox : inbox'[i] = inbox[j]
  <2>1. DOMAIN inbox' = 1..(Len(inbox) + Len(a) + Len(b)) /\ Len(inbox) \in Nat /\ Len(a) \in Nat /\ Len(b) \in Nat
    BY <1>3, <1>4
  <2>2. CASE i <= Len(inbox)
    BY <1>3, <1>4, <1>6, <2>1, <2>2
  <2>3. CASE i > Len(inbox) /\ i <= Len(inbox) + Len(a)
    <3>1. inbox'[i] = a[i - Len(inbox)] /\ i - Len(inbox) \in DOMAIN a
      BY <1>3, <1>4, <1>6, <2>1, <2>3
    <3>2. QED
      BY <1>4, <3>1
  <2>4. CASE i > Len(inbox) + Len(a)
    <3>1. inbox'[i] = b[i - Len(inbox) - Len(a)] /\ i - Len(inbox) - Len(a) \in DOMAIN b
      BY <1>3, <1>4, <1>6, <2>1, <2>4
    <3>2. QED
      BY <1>4, <3>1
  <2>5. QED
    BY <1>6, <2>1, <2>2, <2>3, <2>4
<1>7. ASSUME NEW i \in DOMAIN inbox' PROVE Made(inbox[i].trip)'
  <2>1. CASE inbox'[i] = e
    BY <1>1, <2>1
  <2>2. CASE \E j \in DOMAIN inbox : inbox'[i] = inbox[j]
    BY <1>2, <2>2 DEF InboxOK
  <2>3. QED
    BY <1>6, <1>7, <2>1, <2>2
<1>8. QED
  BY <1>5, <1>7 DEF InboxOK

LEMMA BecomesTyped ==
  ASSUME PassengerTyped, NEW t, Made(t), NEW from, NEW to \in Order,
         NEW name \in {"accepted", "arrived", "started", "completed", "cancelled", "expired"},
         Becomes(t, from, to, name)
  PROVE  /\ orders' \in Seq(Order) /\ Len(orders') <= MaxRides
         /\ \A u : Made(u) => Made(u)'
         /\ InboxOK(inbox)'
<1>1. orders \in Seq(Order) /\ Len(orders) <= MaxRides
  BY DEF PassengerTyped, PassengerTypeOK, Order
<1>2. orders' = [orders EXCEPT ![t] = to] /\ Push(name, t)
  BY DEF Becomes
<1>3. orders' \in Seq(Order) /\ Len(orders') = Len(orders)
  BY <1>1, <1>2 DEF Made
<1>4. \A u : Made(u) => Made(u)'
  BY <1>1, <1>2, <1>3 DEF Made
<1>5. QED
  BY <1>1, <1>2, <1>3, <1>4, PushTyped

LEMMA CallsStand ==
  ASSUME PassengerTyped, \A u : Made(u) => Made(u)'
  PROVE  calls \subseteq Answer /\ \A c \in calls : CallRefers(c)'
BY DEF PassengerTyped, PassengerTypeOK, CallRefers, Refers

LEMMA EventTyped ==
  ASSUME PassengerTyped, inbox # <<>>
  PROVE  /\ Head(inbox) \in Event /\ Made(Head(inbox).trip)
         /\ orders' = orders /\ inbox' = Tail(inbox) => InboxOK(inbox)'
<1>1. InboxOK(inbox)
  BY InboxTyped
<1>2. Head(inbox) = inbox[1] /\ 1 \in DOMAIN inbox /\ inbox[1] \in Event
  BY <1>1 DEF InboxOK
<1>3. ASSUME orders' = orders, inbox' = Tail(inbox) PROVE InboxOK(inbox)'
  <2>1. inbox' \in Seq(Event)
    BY <1>1, <1>3 DEF InboxOK
  <2>2. ASSUME NEW i \in DOMAIN inbox' PROVE inbox'[i] = inbox[i + 1] /\ i + 1 \in DOMAIN inbox
    BY <1>1, <1>3, <2>2 DEF InboxOK
  <2>3. QED
    BY <1>1, <1>3, <2>1, <2>2 DEF InboxOK, Made
<1>4. QED
  BY <1>1, <1>2, <1>3 DEF InboxOK

(* The answers and the events, each on the page it finds. *)
LEMMA AnswersTyped ==
  ASSUME PassengerTyped, NEW c \in calls, Answers(c)
  PROVE  PassengerTyped'
<1>1. /\ c \in Answer /\ CallRefers(c) /\ c.got \in Known
      /\ screen \in [page : Page, trip : 0..MaxRides, shown : Known, checked : BOOLEAN] /\ ScreenRefers
      /\ cached \in Known /\ Refers(cached) /\ heard \in BOOLEAN
      /\ line \in [state : {"off", "down", "joining", "up", "ended"}, room : 0..MaxRides, asks : 0..MaxRides]
      /\ process \in {"dead", "front", "back"} /\ troubles \in 0..MaxTroubles
  BY DEF PassengerTyped, PassengerTypeOK, Answer
<1>2. UNCHANGED <<orders, inbox, process, troubles>>
  BY DEF Answers
<1>m. \A t : Made(t)' = Made(t)
  BY <1>2 DEF Made
<1>3. PassengerCallsOK(Provider) /\ PassengerCallsOK(Refetch) /\ PassengerCallsOK({}) /\ PassengerCallsOK(calls \ {c})
  BY NewCalls
<1>4. c.got.status # "none" => Made(c.got.trip)
  BY <1>1, NothingKnown DEF CallRefers, Refers
<1>5. ASSUME NEW kept, PassengerCallsOK(kept), calls' = kept
      PROVE  calls' \subseteq Answer /\ \A d \in calls' : CallRefers(d)
  BY <1>5 DEF PassengerCallsOK
<1>gate. ASSUME GateAnswer(c) PROVE Moved
  BY <1>gate, <1>1, <1>2, <1>3, <1>4, WaysIn DEF GateAnswer, Waiting, WithDriver
<1>provider. ASSUME ProviderAnswer(c) PROVE Moved
  <2>1. CASE EnterRide(c.got.trip, c.got, {}) /\ c.got.status \in WithDriver
    BY <1>1, <1>2, <1>3, <1>4, <2>1, WaysIn DEF WithDriver
  <2>2. CASE EnterHome({})
    BY <1>2, <1>3, <2>2, WaysIn
  <2>3. CASE /\ calls' = calls \ {c} /\ UNCHANGED <<heard, line>>
             /\ screen' = IF screen.page = "home" /\ c.got = Nothing THEN [screen EXCEPT !.checked = TRUE] ELSE screen
    <3>1. /\ screen' \in [page : Page, trip : 0..MaxRides, shown : Known, checked : BOOLEAN]
          /\ screen'.page = screen.page /\ screen'.trip = screen.trip
      BY <1>1, <2>3
    <3>2. QED
      BY <1>1, <1>3, <1>5, <1>m, <2>3, <3>1 DEF Moved, ScreenRefers
  <2>4. QED
    BY <1>provider, <2>1, <2>2, <2>3 DEF ProviderAnswer
<1>load. ASSUME LoadAnswer(c) PROVE Moved
  <2>1. /\ screen' \in [page : Page, trip : 0..MaxRides, shown : Known, checked : BOOLEAN]
        /\ screen'.page = screen.page /\ screen'.trip = screen.trip
    BY <1>1, <1>load DEF LoadAnswer
  <2>2. calls' = calls \ {c} /\ UNCHANGED <<heard, line>>
    BY <1>load DEF LoadAnswer
  <2>3. QED
    BY <1>1, <1>3, <1>5, <1>m, <2>1, <2>2 DEF Moved, ScreenRefers
<1>resync. ASSUME ResyncAnswer(c) PROVE Moved
  BY <1>resync, <1>2, <1>3, WaysIn DEF ResyncAnswer
<1>create. ASSUME CreateAnswer(c), c.kind \in {"create", "retry"} PROVE Moved
  <2>1. c.reply = "ok" => Made(c.got.trip)
    BY <1>1, <1>create DEF CallRefers, Refers
  <2>2. QED
    BY <1>create, <1>1, <1>2, <1>3, <2>1, WaysIn DEF CreateAnswer
<1>select. ASSUME SelectAnswer(c), c.kind = "select" PROVE Moved
  <2>1. Made(c.trip)
    BY <1>1, <1>select DEF CallRefers
  <2>2. QED
    BY <1>select, <1>1, <1>2, <1>3, <2>1, WaysIn DEF SelectAnswer
<1>cancel. ASSUME CancelAnswer(c) PROVE Moved
  BY <1>cancel, <1>2, <1>3, WaysIn DEF CancelAnswer
<1>panel. ASSUME PanelAnswer(c) PROVE Moved
  BY <1>panel, <1>2, <1>3, WaysIn, InvalidateMoves DEF PanelAnswer
<1>6. Moved
  BY <1>gate, <1>provider, <1>load, <1>resync, <1>create, <1>select, <1>cancel, <1>panel DEF Answers
<1>7. cached' \in Known /\ Refers(cached)'
  <2>1. cached' = cached \/ cached' = c.got
    BY DEF Answers
  <2>2. QED
    BY <1>1, <1>m, <2>1 DEF Refers, CallRefers
<1>8. InboxOK(inbox)'
  BY <1>2, <1>m, InboxTyped DEF InboxOK
<1>9. QED
  BY <1>1, <1>2, <1>6, <1>7, <1>8, AppStepTyped

LEMMA EventArrivesTyped ==
  ASSUME PassengerTyped, EventArrives
  PROVE  PassengerTyped'
<1> DEFINE e == Head(inbox)
<1>1. /\ screen \in [page : Page, trip : 0..MaxRides, shown : Known, checked : BOOLEAN] /\ ScreenRefers
      /\ cached \in Known /\ Refers(cached) /\ heard \in BOOLEAN
      /\ line \in [state : {"off", "down", "joining", "up", "ended"}, room : 0..MaxRides, asks : 0..MaxRides]
      /\ process \in {"dead", "front", "back"} /\ troubles \in 0..MaxTroubles
  BY DEF PassengerTyped, PassengerTypeOK
<1>2. inbox # <<>> /\ inbox' = Tail(inbox) /\ UNCHANGED <<orders, cached, process, troubles>>
  BY DEF EventArrives
<1>m. \A t : Made(t)' = Made(t)
  BY <1>2 DEF Made
<1>3. PassengerCallsOK(calls) /\ PassengerCallsOK(Provider) /\ PassengerCallsOK(Refetch)
  BY NewCalls
<1>4. e \in Event /\ Made(e.trip) /\ InboxOK(inbox)'
  BY <1>2, EventTyped
<1> HIDE DEF e
<1>5. ASSUME calls' = calls
      PROVE  calls' \subseteq Answer /\ \A d \in calls' : CallRefers(d)
  BY <1>3, <1>5 DEF PassengerCallsOK
<1>p. {"gate", "home", "searching", "noDrivers", "ride", "pay"} = Page
  BY DEF Page
<1>search. ASSUME SearchHears(e) PROVE Moved
  <2>1. CASE screen' = [screen EXCEPT !.page = "noDrivers"] /\ UNCHANGED <<heard, calls, line>>
    <3>1. /\ screen' \in [page : Page, trip : 0..MaxRides, shown : Known, checked : BOOLEAN]
          /\ screen'.page = "noDrivers"
      BY <1>1, <1>p, <2>1
    <3>2. QED
      BY <1>1, <1>5, <2>1, <3>1 DEF Moved, ScreenRefers
  <2>2. CASE EnterRide(e.trip, cached, Provider) \/ EnterHome(Provider) \/ Stay(calls)
    BY <1>1, <1>2, <1>3, <1>4, <2>2, WaysIn
  <2>3. QED
    BY <1>search, <2>1, <2>2 DEF SearchHears
<1>ride. ASSUME RideHears(e), screen.page = "ride" PROVE Moved
  <2>1. ASSUME NEW s \in Unfinished, UNCHANGED <<heard, calls, line>>,
               screen' = IF screen.shown = Nothing THEN screen ELSE [screen EXCEPT !.shown.status = s]
        PROVE  Moved
    <3> DEFINE known == [screen.shown EXCEPT !.status = s]
    <3>1. screen.shown \in Known
      BY <1>1
    <3>2. known \in Known
      BY <3>1 DEF Known
    <3>3. screen' = screen \/ screen' = [screen EXCEPT !.shown = known]
      BY <2>1
    <3> HIDE DEF known
    <3>4. /\ screen' \in [page : Page, trip : 0..MaxRides, shown : Known, checked : BOOLEAN]
          /\ screen'.page = screen.page /\ screen'.trip = screen.trip
      BY <1>1, <3>2, <3>3
    <3>5. QED
      BY <1>1, <1>5, <1>m, <2>1, <3>4 DEF Moved, ScreenRefers
  <2>2. ASSUME PayFare PROVE Moved
    <3>1. CASE EnterHome(Provider)
      BY <1>2, <1>3, <3>1, WaysIn
    <3>2. CASE /\ screen' = [page |-> "pay", trip |-> screen.shown.trip, shown |-> Nothing, checked |-> FALSE]
               /\ calls' = Provider /\ Socket(0) /\ UNCHANGED heard
      <4>1. screen.shown.trip \in 0..MaxRides
        BY <1>1 DEF Known
      <4>2. /\ screen' \in [page : Page, trip : 0..MaxRides, shown : Known, checked : BOOLEAN]
            /\ screen'.page = "pay"
        BY <1>p, <3>2, <4>1, NothingKnown
      <4>3. line' \in [state : {"off", "down", "joining", "up", "ended"}, room : 0..MaxRides, asks : 0..MaxRides]
        BY <1>1, <3>2 DEF Socket
      <4>4. QED
        BY <1>1, <1>3, <3>2, <4>2, <4>3 DEF Moved, ScreenRefers, PassengerCallsOK
    <3>3. QED
      BY <2>2, <3>1, <3>2 DEF PayFare
  <2>3. "arrived" \in Unfinished /\ "riding" \in Unfinished
    BY DEF Unfinished, WithDriver
  <2>4. EnterHome(Provider) \/ Stay(calls) => Moved
    BY <1>2, <1>3, WaysIn
  <2>5. QED
    BY <1>ride, <2>1, <2>2, <2>3, <2>4 DEF RideHears
<1>home. ASSUME HomeHears(e) PROVE Moved
  BY <1>home, <1>1, <1>2, <1>3, <1>4, WaysIn, InvalidateMoves DEF HomeHears
<1>6. Stay(calls) => Moved
  BY <1>2, <1>3, WaysIn
<1>7. Moved
  BY <1>search, <1>ride, <1>home, <1>6 DEF EventArrives, e
<1>8. cached' \in Known /\ Refers(cached)'
  BY <1>1, <1>2, <1>m DEF Refers
<1>9. QED
  BY <1>1, <1>2, <1>4, <1>7, <1>8, AppStepTyped

LEMMA PassengerNextTyped == PassengerTyped /\ [PassengerNext]_passengerVars => PassengerTyped'
<1> SUFFICES ASSUME PassengerTyped, [PassengerNext]_passengerVars PROVE PassengerTyped'
  OBVIOUS
<1>1. /\ PassengerTypeOK /\ orders \in Seq(Order) /\ Len(orders) <= MaxRides /\ Len(orders) \in Nat
      /\ DOMAIN orders = 1..Len(orders)
      /\ screen \in [page : Page, trip : 0..MaxRides, shown : Known, checked : BOOLEAN] /\ ScreenRefers
      /\ cached \in Known /\ Refers(cached) /\ heard \in BOOLEAN
      /\ line \in [state : {"off", "down", "joining", "up", "ended"}, room : 0..MaxRides, asks : 0..MaxRides]
      /\ process \in {"dead", "front", "back"} /\ troubles \in 0..MaxTroubles
  BY OrdersKnown DEF PassengerTyped, PassengerTypeOK, Order
<1>2. PassengerCallsOK(calls) /\ PassengerCallsOK(Provider) /\ PassengerCallsOK(Refetch) /\ PassengerCallsOK({})
  BY NewCalls
<1>3. InboxOK(inbox)
  BY InboxTyped
<1>m. orders' = orders => \A t : Made(t)' = Made(t)
  BY DEF Made
<1>i. orders' = orders /\ inbox' = inbox => InboxOK(inbox)'
  BY <1>3, <1>m DEF InboxOK
<1>c. orders' = orders /\ cached' = cached => cached' \in Known /\ Refers(cached)'
  BY <1>1, <1>m DEF Refers
<1>o. {"requested", "accepted", "arrived", "riding", "completed", "cancelled"} = Order
  BY DEF Order, Unfinished, Waiting, WithDriver
<1>k. ASSUME calls' = calls
      PROVE  calls' \subseteq Answer /\ \A d \in calls' : CallRefers(d)
  BY <1>2, <1>k DEF PassengerCallsOK
<1>4. ASSUME NEW t \in DOMAIN orders,
             SearchExpires(t) \/ DriverComes(t) \/ DriverStarts(t) \/ DriverCompletes(t) \/ OthersCancel(t)
      PROVE  PassengerTyped'
  <2>0. Made(t)
    BY DEF Made
  <2>1. /\ orders' \in Seq(Order) /\ Len(orders') <= MaxRides /\ (\A u : Made(u) => Made(u)')
        /\ InboxOK(inbox)'
    BY <1>4, <1>o, <2>0, BecomesTyped DEF SearchExpires, DriverComes, DriverStarts, DriverCompletes, OthersCancel
  <2>2. UNCHANGED <<screen, cached, heard, calls, line, process, troubles>>
    BY <1>4 DEF SearchExpires, DriverComes, DriverStarts, DriverCompletes, OthersCancel, ServiceOnly
  <2>3. calls' \subseteq Answer /\ \A c \in calls' : CallRefers(c)'
    BY <2>1, <2>2, CallsStand
  <2>4. QED
    BY <2>1, <2>2, <2>3, ServiceStepTyped
(* A call that is sent about a trip there is. *)
<1>p. ASSUME NEW kind \in Sends, NEW t \in 0..MaxRides, NEW reply \in {"ok", "refused", "lost"}, NEW got \in Known,
             Post(kind, t, reply, got), \A u : Made(u) => Made(u)',
             Refers(got)', kind \in {"create", "retry"} /\ reply = "ok" => got # Nothing,
             kind = "select" => Made(t)'
      PROVE  calls' \subseteq Answer /\ \A c \in calls' : CallRefers(c)'
  <2> DEFINE c == [kind |-> kind, trip |-> t, reply |-> reply, got |-> got]
  <2>1. c \in Answer /\ c.kind = kind /\ c.trip = t /\ c.reply = reply /\ c.got = got
    BY DEF Answer
  <2> HIDE DEF c
  <2>2. calls' = calls \cup {c}
    BY <1>p DEF Post, c
  <2>3. CallRefers(c)'
    BY <1>p, <2>1 DEF CallRefers, c
  <2>4. calls \subseteq Answer /\ \A d \in calls : CallRefers(d)'
    BY <1>p, CallsStand
  <2>5. QED
    BY <2>1, <2>2, <2>3, <2>4
<1>n. \A t : Refers(Nothing)'
  BY DEF Refers
<1>5. CASE RequestTrip
  <2> DEFINE kind == IF screen.page = "home" THEN "create" ELSE "retry"
             t == Len(orders) + 1
             known == [trip |-> t, status |-> Waiting, code |-> FALSE]
  <2>0. UNCHANGED <<screen, cached, heard, line, inbox, process, troubles>> /\ kind \in {"create", "retry"}
    BY <1>5 DEF RequestTrip
  <2>1. CASE t <= MaxRides /\ orders' = Append(orders, Waiting) /\ Post(kind, t, "ok", known)
    <3>1. t \in 1..MaxRides /\ t \in 0..MaxRides
      BY <1>1, <2>1
    <3>2. orders' \in Seq(Order) /\ Len(orders') = t /\ DOMAIN orders' = 1..t
      BY <1>1, <1>o, <2>1 DEF Waiting
    <3>3. (\A u : Made(u) => Made(u)') /\ t \in DOMAIN orders'
      BY <1>1, <3>1, <3>2 DEF Made
    <3>4. known \in Known /\ known # Nothing /\ known.trip = t
      BY <3>1 DEF Known, Nothing, Unfinished
    <3>5. InboxOK(inbox)'
      BY <1>3, <2>0, <3>3 DEF InboxOK
    <3>6. PICK k : k = t
      OBVIOUS
    <3>7. PICK v : v = known
      OBVIOUS
    <3>8. PICK how \in Sends : how = kind
      BY <2>0 DEF Sends
    <3>9. Refers(v)'
      BY <3>3, <3>4, <3>7 DEF Refers, Made
    <3>10. calls' \subseteq Answer /\ \A c \in calls' : CallRefers(c)'
      BY <1>p, <2>0, <2>1, <3>1, <3>3, <3>4, <3>6, <3>7, <3>8, <3>9
    <3>11. QED
      BY <2>0, <2>1, <3>2, <3>3, <3>5, <3>10, ServiceStepTyped
  <2>2. CASE Post(kind, 0, "refused", Nothing) /\ UNCHANGED orders
    <3>1. InboxOK(inbox)' /\ \A u : Made(u) => Made(u)'
      BY <1>i, <1>m, <2>0, <2>2
    <3>2. PICK how \in Sends : how = kind
      BY <2>0 DEF Sends
    <3>3. calls' \subseteq Answer /\ \A c \in calls' : CallRefers(c)'
      BY <1>n, <1>p, <2>0, <2>2, <3>1, <3>2, NothingKnown
    <3>4. QED
      BY <1>1, <2>0, <2>2, <3>1, <3>3, ServiceStepTyped
  <2>3. QED
    BY <1>5, <2>1, <2>2 DEF RequestTrip
<1>6. CASE SelectOffer
  <2> DEFINE t == screen.trip
  <2>0. UNCHANGED <<screen, cached, heard, line, process, troubles>> /\ screen.page = "searching"
    BY <1>6 DEF SelectOffer
  <2>1. PICK u \in 0..MaxRides : u = screen.trip /\ Made(u)
    BY <1>1, <2>0 DEF ScreenRefers
  <2>2. PICK reply \in {"ok", "refused"} : Post("select", u, reply, Nothing)
    BY <1>6, <2>1 DEF SelectOffer
  <2>3. Becomes(u, {Waiting}, "accepted", "accepted") \/ UNCHANGED <<orders, inbox>>
    BY <1>6, <2>1 DEF SelectOffer
  <2>4. /\ orders' \in Seq(Order) /\ Len(orders') <= MaxRides /\ (\A w : Made(w) => Made(w)')
        /\ InboxOK(inbox)'
    BY <1>1, <1>i, <1>m, <1>o, <2>1, <2>3, BecomesTyped
  <2>5. Made(u)'
    BY <2>1, <2>4
  <2>6. calls' \subseteq Answer /\ \A c \in calls' : CallRefers(c)'
    BY <1>n, <1>p, <2>2, <2>4, <2>5, NothingKnown DEF Sends
  <2>7. QED
    BY <2>0, <2>4, <2>6, ServiceStepTyped
<1>7. CASE CancelTrip
  <2> DEFINE panel == screen.page = "home" /\ cached.status \in {Waiting, "accepted"}
  <2>0. UNCHANGED <<screen, cached, heard, line, process, troubles>>
    BY <1>7 DEF CancelTrip
  <2>1. PICK u : u = IF panel THEN cached.trip ELSE screen.trip
    OBVIOUS
  <2>2. PICK kind \in {"cancelPanel", "cancel"} : kind = IF panel THEN "cancelPanel" ELSE "cancel"
    OBVIOUS
  <2>3. Made(u)
    <3>1. CASE panel
      BY <1>1, <2>1, <3>1, NothingKnown DEF Refers, Waiting
    <3>2. CASE ~panel
      BY <1>1, <1>7, <2>1, <3>2 DEF CancelTrip, ScreenRefers
    <3>3. QED
      BY <3>1, <3>2
  <2>4. PICK reply \in {"ok", "refused", "lost"} : Post(kind, u, reply, Nothing)
    BY <1>7, <2>1, <2>2 DEF CancelTrip
  <2>5. Becomes(u, Unfinished, "cancelled", "cancelled") \/ UNCHANGED <<orders, inbox>>
    BY <1>7, <2>1 DEF CancelTrip
  <2>6. /\ orders' \in Seq(Order) /\ Len(orders') <= MaxRides /\ (\A w : Made(w) => Made(w)')
        /\ InboxOK(inbox)'
    BY <1>1, <1>i, <1>m, <1>o, <2>3, <2>5, BecomesTyped
  <2>7. u \in 0..MaxRides
    BY <1>1, <2>3, OrdersKnown
  <2>8. calls' \subseteq Answer /\ \A c \in calls' : CallRefers(c)'
    BY <1>n, <1>p, <2>2, <2>4, <2>6, <2>7, NothingKnown DEF Sends
  <2>9. QED
    BY <2>0, <2>6, <2>8, ServiceStepTyped
<1>8. CASE BackHome
  <2>1. UNCHANGED <<orders, cached, inbox, process, troubles>> /\ EnterHome(Provider)
    BY <1>8 DEF BackHome
  <2>2. QED
    BY <1>1, <1>2, <1>c, <1>i, <2>1, WaysIn, AppStepTyped
<1>9. ASSUME NEW t \in DOMAIN orders, OpenSearch(t) PROVE PassengerTyped'
  <2>1. UNCHANGED <<orders, cached, inbox, process, troubles>> /\ EnterSearching(Read(t), Provider)
    BY <1>9 DEF OpenSearch
  <2>2. Read(t) \in Known /\ Made(Read(t).trip)
    BY <1>1, <1>9, OrdersKnown DEF OpenSearch, Made, Unfinished
  <2>3. QED
    BY <1>1, <1>2, <1>c, <1>i, <2>1, <2>2, WaysIn, AppStepTyped
<1>10. ASSUME NEW t \in DOMAIN orders, TapNotification(t) PROVE PassengerTyped'
  <2>1. UNCHANGED <<orders, cached, inbox, process>> /\ EnterRide(t, cached, Provider) /\ Made(t)
    BY <1>10 DEF TapNotification, Made
  <2>2. troubles' \in 0..MaxTroubles
    BY <1>1, <1>10 DEF TapNotification
  <2>3. QED
    BY <1>1, <1>2, <1>c, <1>i, <2>1, <2>2, WaysIn, AppStepTyped
<1>11. ASSUME NEW c \in calls, RequestFails(c) PROVE PassengerTyped'
  <2> DEFINE x == [c EXCEPT !.reply = "lost", !.got = Nothing]
  <2>1. c \in Answer /\ CallRefers(c)
    BY <1>2 DEF PassengerCallsOK
  <2>2. x \in Answer /\ x.reply = "lost" /\ x.got = Nothing /\ x.kind = c.kind /\ x.trip = c.trip
    BY <2>1, NothingKnown DEF Answer
  <2>3. CallRefers(x)
    BY <2>1, <2>2, NothingKnown DEF CallRefers
  <2>4. calls' = (calls \ {c}) \cup {x} /\ UNCHANGED <<orders, screen, cached, heard, line, inbox, process>>
    BY <1>11 DEF RequestFails
  <2> HIDE DEF x
  <2>5. Moved
    BY <1>1, <1>2, <1>m, <2>2, <2>3, <2>4 DEF Moved, PassengerCallsOK, ScreenRefers
  <2>6. troubles' \in 0..MaxTroubles
    BY <1>1, <1>11 DEF RequestFails
  <2>7. QED
    BY <1>1, <1>c, <1>i, <2>4, <2>5, <2>6, AppStepTyped
<1>12. CASE Connects \/ Joins \/ Subscribes
  <2>1. AppOnly /\ UNCHANGED <<inbox, process, troubles>>
    BY <1>12 DEF Connects, Joins, Subscribes
  <2>2. line' \in [state : {"off", "down", "joining", "up", "ended"}, room : 0..MaxRides, asks : 0..MaxRides]
    <3>1. 0 \in 0..MaxRides
      OBVIOUS
    <3>2. CASE Connects
      BY <1>1, <3>2 DEF Connects
    <3>3. CASE Joins
      BY <1>1, <3>3 DEF Joins
    <3>4. CASE Subscribes
      BY <1>1, <3>1, <3>4 DEF Subscribes
    <3>5. QED
      BY <1>12, <3>2, <3>3, <3>4
  <2>3. Moved
    BY <1>1, <1>k, <1>m, <2>1, <2>2 DEF Moved, AppOnly, ScreenRefers
  <2>4. QED
    BY <1>1, <1>c, <1>i, <2>1, <2>3, AppStepTyped DEF AppOnly
<1>13. CASE SocketDrops
  <2>1. AppOnly /\ UNCHANGED process /\ inbox' = <<>>
    BY <1>13 DEF SocketDrops
  <2>2. line' \in [state : {"off", "down", "joining", "up", "ended"}, room : 0..MaxRides, asks : 0..MaxRides]
    BY <1>1, <1>13 DEF SocketDrops
  <2>3. Moved
    BY <1>1, <1>k, <1>m, <2>1, <2>2 DEF Moved, AppOnly, ScreenRefers
  <2>4. troubles' \in 0..MaxTroubles
    BY <1>1, <1>13 DEF SocketDrops
  <2>5. InboxOK(inbox)'
    BY <2>1 DEF InboxOK
  <2>6. QED
    BY <1>1, <1>c, <2>1, <2>3, <2>4, <2>5, AppStepTyped DEF AppOnly
<1>14. CASE Leaves \/ Resumes
  <2>1. UNCHANGED <<orders, screen, cached, heard, line, inbox, troubles>> /\ process' \in {"dead", "front", "back"}
    BY <1>14 DEF Leaves, Resumes, AppOnly
  <2>2. PassengerCallsOK(calls \cup AsksFor("resync"))
    BY <1>2, NewCalls DEF Asks
  <2>3. calls' = calls \/ calls' = calls \cup AsksFor("resync")
    BY <1>14 DEF Leaves, Resumes, AppOnly
  <2>4. calls' \subseteq Answer /\ \A d \in calls' : CallRefers(d)
    BY <1>k, <2>2, <2>3 DEF PassengerCallsOK
  <2>5. Moved
    BY <1>1, <1>m, <2>1, <2>4 DEF Moved, ScreenRefers
  <2>6. QED
    BY <1>1, <1>c, <1>i, <2>1, <2>5, AppStepTyped
<1>15. CASE Launches
  <2>1. UNCHANGED <<orders, cached, heard, line, inbox, troubles>> /\ process' = "front"
    BY <1>15 DEF Launches
  <2>2. PassengerCallsOK(AsksFor("gate") \cup Refetch)
    BY <1>2, NewCalls DEF Asks
  <2>3. calls' = AsksFor("gate") \cup Refetch
    BY <1>15 DEF Launches
  <2>4. calls' \subseteq Answer /\ \A d \in calls' : CallRefers(d)
    BY <2>2, <2>3 DEF PassengerCallsOK
  <2>5. /\ screen' \in [page : Page, trip : 0..MaxRides, shown : Known, checked : BOOLEAN]
        /\ screen'.page = "gate"
    BY <1>15, NothingKnown DEF Launches, Page
  <2>6. Moved
    BY <1>1, <2>1, <2>4, <2>5 DEF Moved, ScreenRefers
  <2>7. QED
    BY <1>1, <1>c, <1>i, <2>1, <2>6, AppStepTyped
<1>16. CASE Dies
  <2>1. /\ UNCHANGED <<orders, screen>> /\ process' = "dead" /\ cached' = Nothing /\ heard' = FALSE
        /\ calls' = {} /\ inbox' = <<>> /\ line' = [state |-> "off", room |-> 0, asks |-> 0]
    BY <1>16 DEF Dies
  <2>2. line' \in [state : {"off", "down", "joining", "up", "ended"}, room : 0..MaxRides, asks : 0..MaxRides]
    BY <2>1
  <2>3. Moved
    BY <1>1, <1>m, <2>1, <2>2 DEF Moved, ScreenRefers
  <2>4. troubles' \in 0..MaxTroubles
    BY <1>1, <1>16 DEF Dies
  <2>5. InboxOK(inbox)'
    BY <2>1 DEF InboxOK
  <2>6. QED
    BY <1>n, <2>1, <2>3, <2>4, <2>5, AppStepTyped, NothingKnown DEF Refers
<1>17. CASE UNCHANGED passengerVars
  <2>1. Moved
    BY <1>1, <1>k, <1>m, <1>17 DEF passengerVars, Moved, ScreenRefers
  <2>2. QED
    BY <1>1, <1>c, <1>i, <1>17, <2>1, AppStepTyped DEF passengerVars
<1>18. QED
  BY <1>4, <1>5, <1>6, <1>7, <1>8, <1>9, <1>10, <1>11, <1>12, <1>13, <1>14, <1>15, <1>16, <1>17,
     AnswersTyped, EventArrivesTyped DEF PassengerNext

(* Whatever is tapped, answered, heard, lost and started again, every page and
   every request of the passenger's app is about a trip that exists. *)
THEOREM PassengerTypedAlways == PassengerSpec => []PassengerTypeOK
<1>1. PassengerTyped => PassengerTypeOK
  BY DEF PassengerTyped
<1>2. QED
  BY <1>1, PassengerInitTyped, PassengerNextTyped, PTL DEF PassengerSpec

-----------------------------------------------------------------------------
(* The page fits the trip *)

Newest == Len(orders)
NewestIs(statuses) == Newest # 0 /\ orders[Newest] \in statuses

(* One trip at a time: all but the newest are over. *)
OnlyNewest == \A t \in DOMAIN orders : t = Newest \/ Over(t)

NotLaunched ==
  /\ process = "dead" => screen.page = "gate" /\ calls = {} /\ inbox = <<>>
  /\ screen.page = "gate" => orders = <<>>
  /\ \A c \in calls : c.kind = "gate" => screen.page = "gate"

(* The socket comes up before there is a trip; the page of a ride has its room
   or asks for it, and no other page has one. *)
LineOpens ==
  /\ line.state # "ended" /\ (screen.page # "gate" => line.state # "off")
  /\ orders # <<>> => line.state = "up"
  /\ screen.page # "ride" => line.room = 0 /\ line.asks = 0
  /\ screen.page = "ride" => \/ line.asks = screen.trip
                             \/ line.asks = 0 /\ line.room = screen.trip

(* Without troubles the provider is only asked while there is no trip. *)
NothingCached == cached = Nothing /\ \A c \in calls : c.kind \in {"gate", "provider"} => c.got = Nothing

(* What is on its way is how the newest trip stands: nobody acts before it
   arrives, and nothing was sent of a trip that waits. *)
Tells(name) == CASE name = "started" -> "riding" [] name = "expired" -> "cancelled" [] OTHER -> name
InboxTells == \A i \in DOMAIN inbox : inbox[i].trip = Newest /\ NewestIs({Tells(inbox[i].name)})

PageFits ==
  /\ NewestIs(WithDriver) => screen.page \in {"searching", "ride"} /\ screen.trip = Newest
  /\ screen.page = "searching" => /\ screen.trip = Newest /\ NewestIs({Waiting, "accepted", "cancelled"})
                                  /\ inbox = <<>> => NewestIs({Waiting})
  /\ screen.page = "ride" => /\ screen.trip = Newest /\ NewestIs(WithDriver \cup {"completed", "cancelled"})
                             /\ inbox = <<>> => NewestIs(WithDriver)
                             /\ screen.shown = Nothing => \E c \in calls : c.kind = "load"
                             /\ screen.shown # Nothing => screen.shown.trip = Newest /\ screen.shown.code
  /\ screen.page = "noDrivers" => screen.trip \in DOMAIN orders /\ orders[screen.trip] = "cancelled"
  /\ screen.page = "pay" => screen.trip \in DOMAIN orders /\ orders[screen.trip] = "completed"

(* What an answer in flight will make of the page. *)
CallFits(c) ==
  /\ c.kind \in {"create", "retry"} => /\ screen.page \in {"home", "noDrivers"}
                                       /\ c.reply = "ok" => c.got.trip = Newest /\ NewestIs({Waiting})
  /\ c.kind = "select" => screen.page = "searching" /\ c.trip = Newest /\ NewestIs({"accepted"})
  /\ c.kind = "load" => screen.page = "ride" /\ c.got.trip = Newest /\ c.got.code
  /\ c.kind = "resync" => screen.page = "ride" /\ (c.got.trip = Newest \/ ~NewestIs(Unfinished))
  /\ c.kind = "cancel" => \/ screen.page = "noDrivers" \/ c.reply = "lost"
                          \/ screen.page \in {"searching", "ride"} /\ ~NewestIs(Unfinished)
  /\ c.kind # "cancelPanel"

PassengerFits ==
  OnlyNewest /\ NotLaunched /\ LineOpens /\ NothingCached /\ InboxTells /\ PageFits /\ \A c \in calls : CallFits(c)

PassengerInv == PassengerTyped /\ (troubles = 0 => PassengerFits)

LEMMA PassengerInitFits == PassengerInit => PassengerInv
<1> SUFFICES ASSUME PassengerInit PROVE PassengerFits
  BY PassengerInitTyped DEF PassengerInv
<1>1. Newest = 0 /\ DOMAIN orders = {} /\ DOMAIN inbox = {}
  BY DEF PassengerInit, Newest
<1>2. QED
  BY <1>1 DEF PassengerInit, PassengerFits, OnlyNewest, NotLaunched, LineOpens, NothingCached, InboxTells,
     PageFits, NewestIs

LEMMA NewestKnown ==
  ASSUME PassengerTypeOK, OnlyNewest
  PROVE  /\ Newest \in Nat /\ DOMAIN orders = 1..Newest /\ (orders = <<>> <=> Newest = 0)
         /\ Newest # 0 => Newest \in DOMAIN orders /\ orders[Newest] \in Order
         /\ \A t \in DOMAIN orders : orders[t] \in Unfinished => t = Newest
         /\ NewestIs(Unfinished) => ActiveTrip = Read(Newest) /\ ActiveTrip.trip = Newest /\ ActiveTrip # Nothing
         /\ ~NewestIs(Unfinished) => ActiveTrip = Nothing
<1>1. orders \in Seq(Order)
  BY DEF PassengerTypeOK, Order
<1>2. Newest \in Nat /\ DOMAIN orders = 1..Newest /\ (orders = <<>> <=> Newest = 0)
  BY <1>1 DEF Newest
<1>3. Newest # 0 => Newest \in DOMAIN orders /\ orders[Newest] \in Order
  BY <1>1, <1>2
<1>4. \A t \in DOMAIN orders : orders[t] \in Unfinished => t = Newest
  BY DEF OnlyNewest, Over, Unfinished, Waiting, WithDriver
<1>5. ASSUME NewestIs(Unfinished) PROVE ActiveTrip = Read(Newest) /\ ActiveTrip.trip = Newest /\ ActiveTrip # Nothing
  <2> DEFINE t == CHOOSE t \in DOMAIN orders : orders[t] \in Unfinished
  <2>1. Newest \in DOMAIN orders /\ orders[Newest] \in Unfinished
    BY <1>3, <1>5 DEF NewestIs
  <2>2. t \in DOMAIN orders /\ orders[t] \in Unfinished
    BY <2>1
  <2>3. ActiveTrip = Read(t)
    BY <2>1 DEF ActiveTrip
  <2> HIDE DEF t
  <2>4. t = Newest
    BY <1>4, <2>2
  <2>5. QED
    BY <2>1, <2>3, <2>4, OrdersKnown DEF Made
<1>6. ASSUME ~NewestIs(Unfinished) PROVE ActiveTrip = Nothing
  <2>1. \A t \in DOMAIN orders : orders[t] \notin Unfinished
    BY <1>2, <1>4, <1>6 DEF NewestIs
  <2>2. QED
    BY <2>1 DEF ActiveTrip
<1>7. QED
  BY <1>2, <1>3, <1>4, <1>5, <1>6

LEMMA OrdersStand ==
  ASSUME UNCHANGED orders, OnlyNewest
  PROVE  Newest' = Newest /\ (\A S : NewestIs(S)' <=> NewestIs(S)) /\ OnlyNewest'
BY DEF Newest, NewestIs, OnlyNewest, Over

(* What the app forgets and hears next. *)
LEMMA InboxStands ==
  ASSUME PassengerTyped, OnlyNewest, InboxTells, UNCHANGED orders,
         inbox' = inbox \/ inbox' = <<>> \/ (inbox # <<>> /\ inbox' = Tail(inbox))
  PROVE  InboxTells'
<1>1. Newest' = Newest /\ (\A S : NewestIs(S)' <=> NewestIs(S))
  BY OrdersStand
<1>2. \A i \in DOMAIN inbox' : \E j \in DOMAIN inbox : inbox'[i] = inbox[j]
  <2>1. inbox \in Seq(Event)
    BY DEF PassengerTyped, PassengerTypeOK
  <2>2. CASE inbox # <<>> /\ inbox' = Tail(inbox)
    <3>1. \A i \in DOMAIN Tail(inbox) : i + 1 \in DOMAIN inbox /\ Tail(inbox)[i] = inbox[i + 1]
      BY <2>1, <2>2
    <3>2. QED
      BY <2>2, <3>1
  <2>3. CASE inbox' = inbox \/ inbox' = <<>>
    BY <2>3
  <2>4. QED
    BY <2>2, <2>3
<1>3. \A i \in DOMAIN inbox' : inbox'[i].trip = Newest /\ NewestIs({Tells(inbox'[i].name)})
  BY <1>2 DEF InboxTells
<1>4. QED
  BY <1>1, <1>3 DEF InboxTells

(* A step that stays on the page, or changes what it shows. *)
LEMMA SamePage ==
  ASSUME PassengerTyped, PassengerFits, UNCHANGED orders,
         screen'.page = screen.page, screen'.trip = screen.trip,
         screen.page = "ride" => /\ screen'.shown = Nothing => \E c \in calls' : c.kind = "load"
                                 /\ screen'.shown # Nothing => screen'.shown.trip = Newest /\ screen'.shown.code,
         process' = process \/ process' # "dead", process' = "dead" => calls' = {} /\ inbox' = <<>>,
         cached' = Nothing,
         \A c \in calls' : c \in calls \/ (CallFits(c) /\ c.kind # "gate" /\ (c.kind = "provider" => c.got = Nothing)),
         InboxTells',
         inbox' = <<>> => \/ inbox = <<>> \/ screen.page \notin {"searching", "ride"}
                          \/ screen.page = "ride" /\ NewestIs(WithDriver),
         LineOpens'
  PROVE  PassengerFits'
<1>1. Newest' = Newest /\ (\A S : NewestIs(S)' <=> NewestIs(S)) /\ OnlyNewest'
  BY OrdersStand DEF PassengerFits
<1>2. NotLaunched'
  BY DEF PassengerFits, NotLaunched
<1>3. NothingCached'
  BY DEF PassengerFits, NothingCached
<1>4. \A c \in calls' : CallFits(c)'
  <2>1. \A c : CallFits(c)' <=> CallFits(c)
    BY <1>1 DEF CallFits
  <2>2. QED
    BY <2>1 DEF PassengerFits
<1>5. PageFits'
  BY <1>1 DEF PassengerFits, PageFits
<1>6. QED
  BY <1>1, <1>2, <1>3, <1>4, <1>5 DEF PassengerFits

(* What a page that is left takes with it. *)
KeptCalls(more) == \A c \in more : c.kind = "provider" /\ c.got = Nothing

LEMMA ProviderKept == PassengerFits => KeptCalls(Provider) /\ KeptCalls({})
BY DEF PassengerFits, NothingCached, Provider, KeptCalls

LEMMA RefetchKept ==
  ASSUME PassengerTyped, PassengerFits, ~NewestIs(Unfinished)
  PROVE  KeptCalls(Refetch)
BY NewestKnown DEF PassengerTyped, PassengerFits, Refetch, KeptCalls

LEMMA HomeFits ==
  ASSUME PassengerTyped, PassengerFits, UNCHANGED <<orders, process>>, process # "dead", cached' = Nothing,
         NEW more, KeptCalls(more), EnterHome(more), ~NewestIs(WithDriver), InboxTells'
  PROVE  PassengerFits'
<1>1. Newest' = Newest /\ (\A S : NewestIs(S)' <=> NewestIs(S)) /\ OnlyNewest'
  BY OrdersStand DEF PassengerFits
<1>2. screen' = [page |-> "home", trip |-> 0, shown |-> Nothing, checked |-> FALSE] /\ calls' = more
  BY DEF EnterHome
<1>3. line' = [state |-> IF line.state = "off" THEN "down" ELSE line.state, room |-> 0, asks |-> 0]
  BY DEF EnterHome, Socket
<1>4. NotLaunched' /\ NothingCached' /\ \A c \in calls' : CallFits(c)'
  BY <1>2 DEF NotLaunched, NothingCached, CallFits, KeptCalls
<1>5. LineOpens'
  BY <1>2, <1>3 DEF PassengerFits, LineOpens
<1>6. PageFits'
  BY <1>1, <1>2 DEF PageFits
<1>7. QED
  BY <1>1, <1>4, <1>5, <1>6 DEF PassengerFits

LEMMA SearchingFits ==
  ASSUME PassengerTyped, PassengerFits, UNCHANGED <<orders, process>>, process # "dead", cached' = Nothing,
         NEW seen, seen.trip = Newest, NewestIs({Waiting}), EnterSearching(seen, Provider), InboxTells'
  PROVE  PassengerFits'
<1>1. Newest' = Newest /\ (\A S : NewestIs(S)' <=> NewestIs(S)) /\ OnlyNewest'
  BY OrdersStand DEF PassengerFits
<1>2. screen' = [page |-> "searching", trip |-> seen.trip, shown |-> seen, checked |-> FALSE] /\ calls' = Provider
  BY DEF EnterSearching
<1>3. line' = [state |-> IF line.state = "off" THEN "down" ELSE line.state, room |-> 0, asks |-> 0]
  BY DEF EnterSearching, Socket
<1>4. NotLaunched' /\ NothingCached' /\ \A c \in calls' : CallFits(c)'
  BY <1>2, ProviderKept DEF NotLaunched, NothingCached, CallFits, KeptCalls
<1>5. LineOpens'
  BY <1>2, <1>3 DEF PassengerFits, LineOpens
<1>6. PageFits'
  BY <1>1, <1>2 DEF PageFits, NewestIs, WithDriver, Waiting
<1>7. QED
  BY <1>1, <1>4, <1>5, <1>6 DEF PassengerFits

(* A ride opens when its driver has been found, and loads the trip itself. *)
LEMMA RideFits ==
  ASSUME PassengerTyped, PassengerFits, UNCHANGED <<orders, process>>, process # "dead", cached' = Nothing,
         NewestIs({"accepted"}), EnterRide(Newest, Nothing, Provider), InboxTells'
  PROVE  PassengerFits'
<1>1. Newest' = Newest /\ (\A S : NewestIs(S)' <=> NewestIs(S)) /\ OnlyNewest'
  BY OrdersStand DEF PassengerFits
<1>2. screen' = [page |-> "ride", trip |-> Newest, shown |-> Nothing, checked |-> FALSE] /\ calls' = Provider \cup AsksFor("load")
  BY DEF EnterRide
<1>3. line'.state = (IF line.state = "off" THEN "down" ELSE line.state) /\ line'.asks = Newest
  BY DEF EnterRide, Socket
<1>4. ActiveTrip = Read(Newest) /\ ActiveTrip.trip = Newest /\ ActiveTrip.code
  <2>1. NewestIs(Unfinished)
    BY DEF NewestIs, Unfinished, WithDriver
  <2>2. ActiveTrip = Read(Newest) /\ ActiveTrip.trip = Newest
    BY <2>1, NewestKnown DEF PassengerTyped, PassengerFits
  <2>3. QED
    BY <2>2 DEF Read, NewestIs
<1>l. PICK c : c = [kind |-> "load", trip |-> screen.trip, reply |-> "ok", got |-> ActiveTrip]
  OBVIOUS
<1>c. calls' = Provider \cup {c} /\ c.kind = "load" /\ c.got.trip = Newest /\ c.got.code
  BY <1>2, <1>4, <1>l DEF AsksFor
<1>5. NotLaunched' /\ NothingCached'
  BY <1>2, <1>c, ProviderKept DEF NotLaunched, NothingCached, KeptCalls
<1>6. \A d \in calls' : CallFits(d)'
  BY <1>1, <1>2, <1>c, ProviderKept DEF CallFits, KeptCalls
<1>7. LineOpens'
  BY <1>2, <1>3 DEF PassengerFits, LineOpens
<1>8. PageFits'
  BY <1>1, <1>2, <1>c DEF PageFits, NewestIs, WithDriver
<1>9. QED
  BY <1>1, <1>5, <1>6, <1>7, <1>8 DEF PassengerFits

LEMMA LineStands ==
  ASSUME PassengerFits, UNCHANGED <<orders, line>>, screen'.page = screen.page, screen'.trip = screen.trip
  PROVE  LineOpens'
BY DEF PassengerFits, LineOpens

LEMMA RideMade ==
  ASSUME PassengerFits
  PROVE  /\ screen.page = "ride" => Newest # 0 /\ screen.trip = Newest
         /\ screen.page # "gate" \/ orders = <<>>
BY DEF PassengerFits, PageFits, NewestIs, NotLaunched

LEMMA AnswersFit ==
  ASSUME PassengerTyped, PassengerFits, NEW c \in calls, Answers(c)
  PROVE  PassengerFits'
<1>1. process # "dead" /\ UNCHANGED <<orders, inbox, process, troubles>>
      /\ cached' = IF c.kind = "provider" THEN c.got ELSE cached
  BY DEF Answers
<1>2. /\ cached = Nothing /\ cached' = Nothing /\ (c.kind \in {"gate", "provider"} => c.got = Nothing)
      /\ CallFits(c) /\ InboxTells /\ OnlyNewest
  BY <1>1 DEF PassengerFits, NothingCached
<1>3. InboxTells'
  BY <1>1, <1>2, InboxStands
<1>4. c.kind \in Asks \cup Sends /\ screen \in [page : Page, trip : 0..MaxRides, shown : Known, checked : BOOLEAN]
      /\ c.reply \in {"ok", "refused", "lost"}
  BY DEF PassengerTyped, PassengerTypeOK, Answer
<1>s. ASSUME calls' = calls \ {c}, c.kind # "load" \/ screen'.shown # Nothing,
             screen'.page = screen.page, screen'.trip = screen.trip, UNCHANGED line,
             \/ screen'.shown = screen.shown
             \/ screen'.shown.trip = Newest /\ screen'.shown.code
      PROVE  PassengerFits'
  <2>1. screen.page = "ride" => /\ screen'.shown = Nothing => \E d \in calls' : d.kind = "load"
                                /\ screen'.shown # Nothing => screen'.shown.trip = Newest /\ screen'.shown.code
    BY <1>s DEF PassengerFits, PageFits, Nothing
  <2>2. LineOpens'
    BY <1>1, <1>s, LineStands
  <2>3. QED
    BY <1>1, <1>2, <1>3, <1>s, <2>1, <2>2, SamePage
<1>t. ASSUME Stay(calls \ {c}), c.kind # "load" PROVE PassengerFits'
  BY <1>s, <1>t DEF Stay
<1>p. KeptCalls(Provider) /\ KeptCalls({})
  BY ProviderKept
<1>5. CASE c.kind = "gate"
  <2>1. EnterHome(Provider)
    BY <1>1, <1>2, <1>5, NothingKnown DEF Answers, GateAnswer, Waiting, WithDriver
  <2>2. ~NewestIs(WithDriver)
    BY <1>2, <1>5, NewestKnown DEF PassengerFits, NotLaunched, NewestIs, PassengerTyped
  <2>3. QED
    BY <1>1, <1>2, <1>3, <1>p, <2>1, <2>2, HomeFits
<1>6. CASE c.kind = "provider"
  <2>1. /\ calls' = calls \ {c} /\ UNCHANGED line
        /\ screen' = IF screen.page = "home" /\ c.got = Nothing THEN [screen EXCEPT !.checked = TRUE] ELSE screen
    BY <1>2, <1>6, NothingKnown DEF Answers, ProviderAnswer, WithDriver
  <2>2. screen'.page = screen.page /\ screen'.trip = screen.trip /\ screen'.shown = screen.shown
    BY <1>4, <2>1
  <2>3. QED
    BY <1>6, <1>s, <2>1, <2>2
<1>7. CASE c.kind = "load"
  <2>1. c.got.trip = Newest /\ c.got.code /\ c.got # Nothing
    BY <1>2, <1>7 DEF CallFits, Nothing
  <2>2. screen' = [screen EXCEPT !.shown = c.got] /\ calls' = calls \ {c} /\ UNCHANGED line
    BY <1>7, <2>1 DEF Answers, LoadAnswer
  <2>3. screen'.page = screen.page /\ screen'.trip = screen.trip /\ screen'.shown = c.got
    BY <1>4, <2>2
  <2>4. QED
    BY <1>s, <2>1, <2>2, <2>3
<1>8. CASE c.kind = "resync"
  <2>1. CASE c.reply = "ok" /\ c.got.trip # screen.trip
    <3>1. EnterHome(Provider)
      BY <1>8, <2>1 DEF Answers, ResyncAnswer
    <3>2. ~NewestIs(WithDriver)
      BY <1>2, <1>8, <2>1, RideMade DEF CallFits, NewestIs, Unfinished
    <3>3. QED
      BY <1>1, <1>2, <1>3, <1>p, <3>1, <3>2, HomeFits
  <2>2. CASE ~(c.reply = "ok" /\ c.got.trip # screen.trip)
    BY <1>8, <1>t, <2>2 DEF Answers, ResyncAnswer
  <2>3. QED
    BY <2>1, <2>2
<1>9. CASE c.kind \in {"create", "retry"}
  <2>1. CASE c.reply = "ok"
    <3>1. c.got.trip = Newest /\ NewestIs({Waiting})
      BY <1>2, <1>9, <2>1 DEF CallFits
    <3>2. EnterSearching(c.got, Provider)
      BY <1>9, <2>1 DEF Answers, CreateAnswer
    <3>3. QED
      BY <1>1, <1>2, <1>3, <3>1, <3>2, SearchingFits
  <2>2. CASE c.reply = "refused" /\ c.kind = "create"
    <3>1. EnterHome(Provider)
      BY <1>9, <2>2 DEF Answers, CreateAnswer
    <3>2. ~NewestIs(WithDriver)
      BY <1>2, <1>9 DEF CallFits, PassengerFits, PageFits
    <3>3. QED
      BY <1>1, <1>2, <1>3, <1>p, <3>1, <3>2, HomeFits
  <2>3. CASE c.reply # "ok" /\ ~(c.reply = "refused" /\ c.kind = "create")
    BY <1>9, <1>t, <2>3 DEF Answers, CreateAnswer
  <2>4. QED
    BY <2>1, <2>2, <2>3
<1>10. CASE c.kind = "select"
  <2>1. CASE c.reply = "ok"
    <3>1. EnterRide(Newest, Nothing, Provider) /\ NewestIs({"accepted"})
      BY <1>2, <1>10, <2>1 DEF Answers, SelectAnswer, CallFits
    <3>2. QED
      BY <1>1, <1>2, <1>3, <3>1, RideFits
  <2>2. CASE c.reply # "ok"
    BY <1>10, <1>t, <2>2 DEF Answers, SelectAnswer
  <2>3. QED
    BY <2>1, <2>2
<1>11. CASE c.kind = "cancel"
  <2>1. ASSUME screen.page \in {"searching", "ride"}, c.reply # "lost" PROVE ~NewestIs(Unfinished) /\ ~NewestIs(WithDriver)
    BY <1>2, <1>11, <2>1 DEF CallFits, NewestIs, Unfinished
  <2>2. CASE screen.page = "searching" /\ c.reply = "ok"
    <3>1. EnterHome(Refetch)
      BY <1>11, <2>2 DEF Answers, CancelAnswer
    <3>2. KeptCalls(Refetch)
      BY <2>1, <2>2, RefetchKept
    <3>3. QED
      BY <1>1, <1>2, <1>3, <2>1, <2>2, <3>1, <3>2, HomeFits
  <2>3. CASE (screen.page = "searching" /\ c.reply = "refused") \/ (screen.page = "ride" /\ c.reply = "ok")
    <3>1. EnterHome(Provider)
      BY <1>11, <2>3 DEF Answers, CancelAnswer
    <3>2. QED
      BY <1>1, <1>2, <1>3, <1>p, <2>1, <2>3, <3>1, HomeFits
  <2>4. CASE ~(screen.page = "searching" /\ c.reply \in {"ok", "refused"}) /\ ~(screen.page = "ride" /\ c.reply = "ok")
    <3>1. Stay(calls \ {c})
      BY <1>11, <2>4 DEF Answers, CancelAnswer
    <3>2. QED
      BY <1>11, <1>t, <3>1
  <2>5. QED
    BY <1>4, <2>2, <2>3, <2>4
<1>12. c.kind # "cancelPanel"
  BY <1>2 DEF CallFits
<1>13. QED
  BY <1>4, <1>5, <1>6, <1>7, <1>8, <1>9, <1>10, <1>11, <1>12 DEF Asks, Sends

(* An event finds the page it is about, and leaves it or is not news. *)
LEMMA EventArrivesFits ==
  ASSUME PassengerTyped, PassengerFits, EventArrives
  PROVE  PassengerFits'
<1> DEFINE e == Head(inbox)
<1>1. /\ inbox # <<>> /\ process # "dead" /\ inbox' = Tail(inbox) /\ UNCHANGED <<orders, cached, process, troubles>>
      /\ CASE screen.page \in {"searching", "noDrivers"} -> SearchHears(e)
           [] screen.page = "ride" -> RideHears(e)
           [] screen.page = "home" -> HomeHears(e)
           [] OTHER -> Stay(calls)
  BY DEF EventArrives
<1>2. e.trip = Newest /\ NewestIs({Tells(e.name)}) /\ e \in Event
  <2>1. inbox \in Seq(Event)
    BY DEF PassengerTyped, PassengerTypeOK
  <2>2. 1 \in DOMAIN inbox /\ e = inbox[1] /\ e \in Event
    BY <1>1, <2>1
  <2>3. QED
    BY <2>2 DEF PassengerFits, InboxTells
<1>3. cached = Nothing /\ cached' = Nothing /\ OnlyNewest /\ InboxTells /\ PageFits /\ KeptCalls(Provider)
  BY <1>1, ProviderKept DEF PassengerFits, NothingCached
<1>4. InboxTells'
  BY <1>1, <1>3, InboxStands
<1>5. /\ e.name \in {"accepted", "arrived", "started", "completed", "cancelled", "expired"}
      /\ screen \in [page : Page, trip : 0..MaxRides, shown : Known, checked : BOOLEAN]
  BY <1>2 DEF Event, PassengerTyped, PassengerTypeOK
<1>6. /\ e.name = "accepted" => NewestIs({"accepted"})
      /\ e.name = "arrived" => NewestIs({"arrived"})
      /\ e.name = "started" => NewestIs({"riding"})
      /\ e.name = "completed" => NewestIs({"completed"})
      /\ e.name \in {"cancelled", "expired"} => NewestIs({"cancelled"})
  BY <1>2 DEF Tells
<1>7. /\ e.name \in {"completed", "cancelled", "expired"} => ~NewestIs(Unfinished) /\ ~NewestIs(WithDriver)
      /\ e.name \in {"accepted", "arrived", "started"} => NewestIs(WithDriver)
  BY <1>6 DEF NewestIs, Unfinished, WithDriver, Waiting
<1>h. ASSUME EnterHome(Provider), e.name \in {"completed", "cancelled", "expired"} PROVE PassengerFits'
  BY <1>1, <1>3, <1>4, <1>7, <1>h, HomeFits
<1>s. ASSUME UNCHANGED <<screen, calls, line>>, screen.page \notin {"searching", "ride"} \/ (screen.page = "ride" /\ NewestIs(WithDriver))
      PROVE  PassengerFits'
  <2>1. LineOpens'
    BY <1>1, <1>s, LineStands
  <2>2. QED
    BY <1>1, <1>3, <1>4, <1>s, <2>1, SamePage DEF PageFits
<1>8. CASE screen.page \in {"searching", "noDrivers"}
  <2>1. SearchHears(e)
    BY <1>1, <1>8
  <2>2. CASE e.name = "accepted"
    <3>1. EnterRide(Newest, Nothing, Provider) /\ NewestIs({"accepted"})
      BY <1>2, <1>3, <1>6, <2>1, <2>2 DEF SearchHears
    <3>2. QED
      BY <1>1, <1>3, <1>4, <3>1, RideFits
  <2>3. CASE e.name = "cancelled"
    <3>1. EnterHome(Provider)
      BY <2>1, <2>3 DEF SearchHears
    <3>2. QED
      BY <1>h, <2>3, <3>1
  <2>4. CASE e.name = "expired"
    <3>1. screen' = [screen EXCEPT !.page = "noDrivers"] /\ UNCHANGED <<calls, line>>
      BY <2>1, <2>4 DEF SearchHears
    <3>2. screen'.page = "noDrivers" /\ screen'.trip = screen.trip
      BY <1>5, <3>1
    <3>3. NewestIs({"cancelled"})
      BY <1>6, <2>4
    <3>4. screen.trip \in DOMAIN orders /\ orders[screen.trip] = "cancelled"
      BY <1>3, <1>8, <3>3, NewestKnown DEF PageFits, NewestIs, PassengerTyped
    <3>5. Newest' = Newest /\ (\A S : NewestIs(S)' <=> NewestIs(S)) /\ OnlyNewest'
      BY <1>1, <1>3, OrdersStand
    <3>6. PageFits'
      BY <1>1, <1>7, <2>4, <3>2, <3>4, <3>5 DEF PageFits
    <3>7. LineOpens'
      BY <1>1, <1>8, <3>1, <3>2 DEF PassengerFits, LineOpens
    <3>8. NotLaunched' /\ NothingCached'
      BY <1>1, <1>3, <1>8, <3>1, <3>2 DEF PassengerFits, NotLaunched, NothingCached
    <3>9. ASSUME NEW c \in calls PROVE CallFits(c)'
      <4>1. CallFits(c)
        BY DEF PassengerFits
      <4>2. ~NewestIs({Waiting}) /\ ~NewestIs({"accepted"})
        BY <3>3 DEF NewestIs, Waiting
      <4>3. QED
        BY <1>8, <3>2, <3>5, <4>1, <4>2 DEF CallFits
    <3>10. QED
      BY <1>4, <3>1, <3>5, <3>6, <3>7, <3>8, <3>9 DEF PassengerFits
  <2>5. CASE e.name \notin {"accepted", "cancelled", "expired"}
    <3>1. UNCHANGED <<screen, calls, line>>
      BY <2>1, <2>5 DEF SearchHears, Stay
    <3>2. screen.page # "searching"
      BY <1>3, <1>5, <1>6, <2>5 DEF PageFits, NewestIs, Waiting
    <3>3. QED
      BY <1>8, <1>s, <3>1, <3>2
  <2>6. QED
    BY <2>2, <2>3, <2>4, <2>5
<1>9. CASE screen.page = "ride"
  <2>1. RideHears(e)
    BY <1>1, <1>9
  <2>2. ASSUME e.name \in {"arrived", "started"} PROVE PassengerFits'
    <3>1. PICK s \in {"arrived", "riding"} :
            /\ screen' = IF screen.shown = Nothing THEN screen ELSE [screen EXCEPT !.shown.status = s]
            /\ UNCHANGED <<calls, line>>
      BY <2>1, <2>2 DEF RideHears
    <3>2. screen'.page = screen.page /\ screen'.trip = screen.trip
          /\ (screen.shown = Nothing => screen'.shown = Nothing)
          /\ (screen.shown # Nothing => screen'.shown.trip = screen.shown.trip /\ screen'.shown.code = screen.shown.code)
      <4>1. CASE screen.shown = Nothing
        BY <3>1, <4>1
      <4>2. CASE screen.shown # Nothing
        <5>1. PICK shown : shown = screen.shown
          OBVIOUS
        <5>2. shown \in [trip : 0..MaxRides, status : {"none"} \cup Unfinished, code : BOOLEAN]
          BY <1>5, <5>1 DEF Known
        <5>3. PICK then : then = [shown EXCEPT !.status = s]
          OBVIOUS
        <5>4. then.trip = shown.trip /\ then.code = shown.code
          BY <5>2, <5>3
        <5>5. screen' = [screen EXCEPT !.shown = then]
          BY <3>1, <4>2, <5>1, <5>3
        <5>6. screen'.shown = then /\ screen'.page = screen.page /\ screen'.trip = screen.trip
          BY <1>5, <5>5
        <5>7. QED
          BY <4>2, <5>1, <5>4, <5>6
      <4>3. QED
        BY <4>1, <4>2
    <3>3. screen'.shown # Nothing => screen'.shown.trip = Newest /\ screen'.shown.code
      BY <1>3, <1>9, <3>2 DEF PageFits
    <3>4. screen'.shown = Nothing => \E c \in calls' : c.kind = "load"
      <4>1. CASE screen.shown = Nothing
        BY <1>3, <1>9, <3>1, <4>1 DEF PageFits
      <4>2. CASE screen.shown # Nothing
        BY <1>3, <1>9, <3>2, <4>2, RideMade DEF PageFits, Nothing
      <4>3. QED
        BY <4>1, <4>2
    <3>5. LineOpens'
      BY <1>1, <3>1, <3>2, LineStands
    <3>6. QED
      BY <1>1, <1>3, <1>4, <1>7, <1>9, <2>2, <3>1, <3>2, <3>3, <3>4, <3>5, SamePage
  <2>3. CASE e.name = "completed"
    <3>1. CASE EnterHome(Provider)
      BY <1>h, <2>3, <3>1
    <3>2. CASE ~EnterHome(Provider)
      <4>1. /\ screen.shown # Nothing
            /\ screen' = [page |-> "pay", trip |-> screen.shown.trip, shown |-> Nothing, checked |-> FALSE]
            /\ calls' = Provider /\ Socket(0)
        BY <2>1, <2>3, <3>2 DEF RideHears, PayFare
      <4>2. screen'.page = "pay" /\ screen'.trip = Newest
        BY <1>3, <1>9, <4>1 DEF PageFits
      <4>3. NewestIs({"completed"})
        BY <1>6, <2>3
      <4>4. Newest' = Newest /\ (\A S : NewestIs(S)' <=> NewestIs(S)) /\ OnlyNewest'
        BY <1>1, <1>3, OrdersStand
      <4>5. Newest \in DOMAIN orders /\ orders[Newest] = "completed"
        BY <1>3, <4>3, NewestKnown DEF NewestIs, PassengerTyped
      <4>6. PageFits'
        BY <1>1, <1>7, <2>3, <4>2, <4>4, <4>5 DEF PageFits
      <4>7. line' = [state |-> IF line.state = "off" THEN "down" ELSE line.state, room |-> 0, asks |-> 0]
        BY <4>1 DEF Socket
      <4>8. LineOpens'
        BY <1>1, <4>2, <4>7 DEF PassengerFits, LineOpens
      <4>9. NotLaunched' /\ NothingCached' /\ \A c \in calls' : CallFits(c)'
        BY <1>1, <1>3, <4>1, <4>2 DEF NotLaunched, NothingCached, CallFits, KeptCalls
      <4>10. QED
        BY <1>4, <4>4, <4>6, <4>8, <4>9 DEF PassengerFits
    <3>3. QED
      BY <3>1, <3>2
  <2>4. CASE e.name \in {"cancelled", "expired"}
    <3>1. EnterHome(Provider)
      BY <2>1, <2>4 DEF RideHears
    <3>2. QED
      BY <1>h, <2>4, <3>1
  <2>5. CASE e.name = "accepted"
    <3>1. UNCHANGED <<screen, calls, line>>
      BY <2>1, <2>5 DEF RideHears, Stay
    <3>2. QED
      BY <1>7, <1>9, <1>s, <2>5, <3>1
  <2>6. QED
    BY <1>5, <2>2, <2>3, <2>4, <2>5
<1>10. CASE screen.page = "home"
  <2>1. HomeHears(e)
    BY <1>1, <1>10
  <2>2. e.name # "accepted"
    BY <1>3, <1>7, <1>10 DEF PageFits
  <2>3. CASE e.name \in {"cancelled", "expired", "completed"} /\ heard
    <3>1. Invalidate(calls)
      BY <2>1, <2>3 DEF HomeHears
    <3>2. /\ calls' = (calls \ Provider) \cup Refetch
          /\ screen' = [screen EXCEPT !.checked = TRUE]
          /\ UNCHANGED line
      BY <1>3, <1>10, <3>1, NothingKnown DEF Invalidate, WithDriver
    <3>3. screen'.page = screen.page /\ screen'.trip = screen.trip
      BY <1>5, <3>2
    <3>4. KeptCalls(Refetch)
      BY <1>7, <2>3, RefetchKept
    <3>5. \A c \in calls' : c \in calls \/ (CallFits(c) /\ c.kind # "gate" /\ (c.kind = "provider" => c.got = Nothing))
      BY <3>2, <3>4 DEF KeptCalls, CallFits
    <3>6. LineOpens'
      BY <1>1, <3>2, <3>3, LineStands
    <3>7. QED
      BY <1>1, <1>3, <1>4, <1>10, <3>2, <3>3, <3>5, <3>6, SamePage
  <2>4. CASE ~(e.name \in {"cancelled", "expired", "completed"} /\ heard)
    <3>1. UNCHANGED <<screen, calls, line>>
      BY <2>1, <2>2, <2>4 DEF HomeHears, Stay
    <3>2. QED
      BY <1>10, <1>s, <3>1
  <2>5. QED
    BY <2>3, <2>4
<1>11. CASE screen.page \notin {"searching", "noDrivers", "ride", "home"}
  <2>1. UNCHANGED <<screen, calls, line>>
    BY <1>1, <1>11 DEF Stay
  <2>2. QED
    BY <1>11, <1>s, <2>1
<1>12. QED
  BY <1>8, <1>9, <1>10, <1>11

LEMMA AllTheSame ==
  ASSUME NEW S, NEW a \in Seq(S), NEW b \in Seq(S), NEW e,
         \A i \in DOMAIN a : a[i] = e, \A i \in DOMAIN b : b[i] = e
  PROVE  /\ \A i \in DOMAIN (a \o b) : (a \o b)[i] = e
         /\ a # <<>> => a \o b # <<>>
<1>1. Len(a) \in Nat /\ Len(b) \in Nat /\ DOMAIN (a \o b) = 1..(Len(a) + Len(b))
  OBVIOUS
<1>2. ASSUME NEW i \in DOMAIN (a \o b) PROVE (a \o b)[i] = e
  <2>1. CASE i <= Len(a)
    BY <1>1, <1>2, <2>1
  <2>2. CASE i > Len(a)
    <3>1. (a \o b)[i] = b[i - Len(a)] /\ i - Len(a) \in DOMAIN b
      BY <1>1, <1>2, <2>2
    <3>2. QED
      BY <3>1
  <2>3. QED
    BY <1>1, <1>2, <2>1, <2>2
<1>3. a # <<>> => a \o b # <<>>
  BY <1>1
<1>4. QED
  BY <1>2, <1>3

(* An event to both rooms, to one or to none, into an empty inbox. *)
LEMMA Pushed ==
  ASSUME inbox = <<>>, NEW name, NEW t, Push(name, t)
  PROVE  /\ \A i \in DOMAIN inbox' : inbox'[i] = [name |-> name, trip |-> t]
         /\ line.state = "up" /\ (name \notin {"started", "completed"} \/ line.room = t) => inbox' # <<>>
<1> DEFINE e == [name |-> name, trip |-> t]
<1> DEFINE user == line.state = "up" /\ name \notin {"started", "completed"}
<1> DEFINE room == line.state = "up" /\ name # "accepted" /\ line.room = t
<1>1. inbox' = <<>> \o (IF user THEN <<e>> ELSE <<>>) \o (IF room THEN <<e>> ELSE <<>>)
  BY DEF Push
<1>2. line.state = "up" /\ (name \notin {"started", "completed"} \/ line.room = t) => user \/ room
  OBVIOUS
<1>3. /\ \A i \in DOMAIN inbox' : inbox'[i] = e
      /\ user \/ room => inbox' # <<>>
  <2> HIDE DEF e, user, room
  <2>1. CASE user /\ room
    <3>1. PICK one \in Seq({e}) : one = <<e>>
      <4>1. <<e>> \in Seq({e})
        OBVIOUS
      <4>2. QED
        BY <4>1, Zenon
    <3>2. Len(one) = 1 /\ one[1] = e /\ <<>> \o one = one
      BY <3>1
    <3>3. inbox' = one \o one
      BY <1>1, <2>1, <3>1, <3>2
    <3>4. \A i \in DOMAIN one : one[i] = e
      BY <3>1
    <3>5. one # <<>>
      BY <3>1
    <3>6. QED
      BY <3>3, <3>4, <3>5, AllTheSame
  <2>2. CASE user /\ ~room
    BY <1>1, <2>2
  <2>3. CASE ~user /\ room
    BY <1>1, <2>3
  <2>4. CASE ~user /\ ~room
    BY <1>1, <2>4
  <2>5. QED
    BY <2>1, <2>2, <2>3, <2>4
<1>4. QED
  BY <1>1, <1>2, <1>3

(* The unfinished trip, which is the newest, goes on or ends, and the app is told. *)
LEMMA NewestBecomes ==
  ASSUME PassengerTyped, PassengerFits, UNCHANGED <<screen, cached, heard, line, process>>,
         NEW t \in DOMAIN orders, orders[t] \in Unfinished, inbox = <<>>,
         NEW to \in Order, orders' = [orders EXCEPT ![t] = to],
         NEW name, Push(name, t), Tells(name) = to,
         screen.page \in {"searching", "ride"} \/ to \notin WithDriver,
         screen.page = "searching" => to \in {"accepted", "cancelled"},
         screen.page = "ride" => to \in WithDriver \cup {"completed", "cancelled"},
         screen.page \in {"searching", "ride"} /\ name \in {"started", "completed"} => screen.page = "ride" /\ line.asks = 0,
         calls \subseteq calls',
         \A c \in calls' : \/ c \in calls /\ CallFits(c)'
                           \/ CallFits(c)' /\ c.kind \notin {"gate", "provider"}
  PROVE  PassengerFits'
<1>1. t = Newest /\ Newest # 0 /\ orders # <<>> /\ screen.page # "gate" /\ process # "dead"
  BY NewestKnown DEF PassengerTyped, PassengerFits, NotLaunched
<1>2. /\ Newest' = Newest /\ DOMAIN orders' = DOMAIN orders /\ orders'[Newest] = to
      /\ \A u \in DOMAIN orders : u # t => orders'[u] = orders[u]
  <2>1. orders \in Seq(Order)
    BY DEF PassengerTyped, PassengerTypeOK, Order
  <2>2. QED
    BY <1>1, <2>1 DEF Newest
<1>3. OnlyNewest'
  BY <1>1, <1>2 DEF OnlyNewest, Over, PassengerFits
<1>4. \A S : NewestIs(S)' <=> to \in S
  BY <1>1, <1>2 DEF NewestIs
<1>5. \A i \in DOMAIN inbox' : inbox'[i] = [name |-> name, trip |-> t]
  BY Pushed
<1>6. InboxTells'
  BY <1>1, <1>2, <1>4, <1>5 DEF InboxTells
<1>7. screen.page \in {"searching", "ride"} => inbox' # <<>>
  <2>1. ASSUME screen.page \in {"searching", "ride"} PROVE name \notin {"started", "completed"} \/ line.room = t
    BY <1>1, <2>1, RideMade DEF PassengerFits, LineOpens
  <2>2. line.state = "up"
    BY <1>1 DEF PassengerFits, LineOpens
  <2>3. QED
    BY <2>1, <2>2, Pushed
<1>8. PageFits'
  <2>1. NewestIs(WithDriver)' => screen.page \in {"searching", "ride"} /\ screen.trip = Newest
    BY <1>4, RideMade DEF PassengerFits, PageFits
  <2>2. screen.page \in {"noDrivers", "pay"} => screen.trip # t
    BY DEF PassengerFits, PageFits, Unfinished, WithDriver, Waiting
  <2>3. QED
    BY <1>2, <1>4, <1>7, <2>1, <2>2 DEF PassengerFits, PageFits
<1>9. NotLaunched' /\ NothingCached'
  BY <1>1 DEF PassengerFits, NotLaunched, NothingCached
<1>10. LineOpens'
  <2>1. orders' # <<>> => line.state = "up"
    BY <1>1 DEF PassengerFits, LineOpens
  <2>2. QED
    BY <2>1 DEF PassengerFits, LineOpens
<1>11. QED
  BY <1>3, <1>6, <1>8, <1>9, <1>10 DEF PassengerFits

(* Of a trip that waits nothing is on its way. *)
LEMMA WaitingUntold ==
  ASSUME PassengerTyped, PassengerFits, NewestIs({Waiting})
  PROVE  inbox = <<>>
<1>1. inbox \in Seq(Event)
  BY DEF PassengerTyped, PassengerTypeOK
<1>2. SUFFICES ASSUME inbox # <<>> PROVE FALSE
  OBVIOUS
<1>3. 1 \in DOMAIN inbox /\ inbox[1] \in Event
  BY <1>1, <1>2
<1>4. inbox[1].name \in {"accepted", "arrived", "started", "completed", "cancelled", "expired"}
  BY <1>3 DEF Event
<1>5. NewestIs({Tells(inbox[1].name)})
  BY <1>3 DEF PassengerFits, InboxTells
<1>6. QED
  BY <1>4, <1>5 DEF NewestIs, Tells, Waiting

(* On a quiet ride its driver is there. *)
LEMMA QuietPages ==
  ASSUME PassengerTyped, PassengerFits, inbox = <<>>
  PROVE  /\ screen.page = "ride" => NewestIs(WithDriver)
         /\ screen.page = "searching" => NewestIs({Waiting})
         /\ NewestIs(WithDriver) => screen.page = "ride"
         /\ \A c \in calls : c.kind # "select"
BY DEF PassengerFits, PageFits, CallFits, NewestIs, WithDriver, Waiting

(* What the service and the driver do to it, and when. *)
LEMMA BecomesFits ==
  ASSUME PassengerTyped, PassengerFits, troubles = 0, UNCHANGED <<screen, cached, heard, calls, line, process>>,
         NEW t \in DOMAIN orders, NEW from \in SUBSET Unfinished, NEW to \in Order, NEW name,
         Becomes(t, from, to, name), Tells(name) = to,
         \/ from = {Waiting} /\ to = "cancelled" /\ Announced /\ name = "expired"
         \/ to = "cancelled" /\ Announced /\ name = "cancelled" /\ Calm
         \/ from \subseteq WithDriver /\ to \in WithDriver \cup {"completed"} /\ to # "accepted" /\ Calm
  PROVE  PassengerFits'
<1>3. orders[t] \in from /\ orders[t] \in Unfinished /\ orders' = [orders EXCEPT ![t] = to] /\ Push(name, t)
  BY DEF Becomes
<1>4. t = Newest /\ Newest # 0
  BY <1>3, NewestKnown DEF PassengerTyped, PassengerFits
<1>5. inbox = <<>>
  BY <1>3, <1>4, WaitingUntold DEF NewestIs, Calm
<1>6. from \subseteq WithDriver => screen.page = "ride"
  BY <1>3, <1>4, <1>5, QuietPages DEF NewestIs
<1>7. /\ screen.page \in {"searching", "ride"} \/ to \notin WithDriver
      /\ screen.page = "searching" => to \in {"accepted", "cancelled"}
      /\ screen.page = "ride" => to \in WithDriver \cup {"completed", "cancelled"}
  BY <1>6 DEF WithDriver
<1>8. screen.page \in {"searching", "ride"} /\ name \in {"started", "completed"} => screen.page = "ride" /\ line.asks = 0
  <2>1. orders # <<>>
    BY <1>4, NewestKnown DEF PassengerTyped, PassengerFits
  <2>2. line.state = "up"
    BY <2>1 DEF PassengerFits, LineOpens
  <2>3. QED
    BY <1>6, <2>2 DEF Calm, WithDriver, Waiting
<1>9. Newest' = Newest /\ \A S : NewestIs(S)' <=> to \in S
  <2>1. orders \in Seq(Order)
    BY DEF PassengerTyped, PassengerTypeOK, Order
  <2>2. QED
    BY <1>3, <1>4, <2>1 DEF Newest, NewestIs
<1>10. ASSUME NEW c \in calls PROVE CallFits(c)'
  <2>1. CallFits(c) /\ c.kind # "select" /\ NewestIs(Unfinished)
    BY <1>3, <1>4, <1>5, QuietPages DEF PassengerFits, NewestIs
  <2>2. c.kind \in {"create", "retry"} => from \subseteq WithDriver
    BY <1>10 DEF Announced
  <2>3. c.kind \notin {"create", "retry"}
    BY <1>6, <2>1, <2>2 DEF CallFits
  <2>4. to \in WithDriver => to \in Unfinished
    BY DEF Unfinished
  <2>5. QED
    BY <1>9, <2>1, <2>3, <2>4 DEF CallFits
<1>11. QED
  BY <1>3, <1>5, <1>7, <1>8, <1>10, NewestBecomes

LEMMA ServiceFits ==
  ASSUME PassengerTyped, PassengerFits, troubles = 0, NEW t \in DOMAIN orders,
         SearchExpires(t) \/ DriverComes(t) \/ DriverStarts(t) \/ DriverCompletes(t) \/ OthersCancel(t)
  PROVE  PassengerFits'
<1>1. UNCHANGED <<screen, cached, heard, calls, line, process, troubles>>
  BY DEF SearchExpires, DriverComes, DriverStarts, DriverCompletes, OthersCancel, ServiceOnly
<1>2. /\ Tells("expired") = "cancelled" /\ Tells("arrived") = "arrived" /\ Tells("started") = "riding"
      /\ Tells("completed") = "completed" /\ Tells("cancelled") = "cancelled"
      /\ "cancelled" \in Order /\ "arrived" \in Order /\ "riding" \in Order /\ "completed" \in Order
      /\ "arrived" \in WithDriver /\ "riding" \in WithDriver
  BY DEF Tells, Order, Unfinished, WithDriver
<1>3. /\ {Waiting} \in SUBSET Unfinished /\ Unfinished \in SUBSET Unfinished
      /\ \A status \in {"accepted", "arrived", "riding"} : {status} \in SUBSET Unfinished /\ {status} \subseteq WithDriver
  BY DEF Unfinished, WithDriver
<1>4. CASE SearchExpires(t)
  BY <1>1, <1>2, <1>3, <1>4, BecomesFits DEF SearchExpires
<1>5. CASE DriverComes(t)
  BY <1>1, <1>2, <1>3, <1>5, BecomesFits DEF DriverComes
<1>6. CASE DriverStarts(t)
  BY <1>1, <1>2, <1>3, <1>6, BecomesFits DEF DriverStarts
<1>7. CASE DriverCompletes(t)
  BY <1>1, <1>2, <1>3, <1>7, BecomesFits DEF DriverCompletes
<1>8. CASE OthersCancel(t)
  BY <1>1, <1>2, <1>3, <1>8, BecomesFits DEF OthersCancel
<1>9. QED
  BY <1>4, <1>5, <1>6, <1>7, <1>8

(* A trip is requested where none is shown; none goes on elsewhere. *)
LEMMA RequestTripFits ==
  ASSUME PassengerTyped, PassengerFits, troubles = 0, RequestTrip
  PROVE  PassengerFits'
<1>1. /\ process = "front" /\ inbox = <<>> /\ line.state \notin {"joining", "down"}
      /\ screen.page \in {"home", "noDrivers"} /\ \A c \in calls : c.kind \notin {"create", "retry"}
      /\ UNCHANGED <<screen, cached, heard, line, inbox, process, troubles>>
  BY DEF RequestTrip, Tap, Calm
<1>2. PICK kind \in {"create", "retry"} :
        IF ActiveTrip = Nothing
        THEN /\ orders' = Append(orders, Waiting)
             /\ Post(kind, Len(orders) + 1, "ok", [trip |-> Len(orders) + 1, status |-> Waiting, code |-> FALSE])
        ELSE Post(kind, 0, "refused", Nothing) /\ UNCHANGED orders
  BY DEF RequestTrip
<1>3. line.state = "up"
  BY <1>1 DEF PassengerFits, LineOpens, PassengerTyped, PassengerTypeOK
<1>4. \A c \in calls : CallFits(c) /\ c.kind \notin {"create", "retry", "select", "load", "resync", "cancelPanel"}
  BY <1>1 DEF PassengerFits, CallFits
<1>5. CASE ActiveTrip = Nothing
  <2>n. PICK new : new = [kind |-> kind, trip |-> Len(orders) + 1, reply |-> "ok",
                          got |-> [trip |-> Len(orders) + 1, status |-> Waiting, code |-> FALSE]]
    OBVIOUS
  <2>1. orders' = Append(orders, Waiting) /\ calls' = calls \cup {new}
    BY <1>2, <1>5, <2>n DEF Post
  <2>2. orders \in Seq(Order) /\ Newest \in Nat
    BY NewestKnown DEF PassengerTyped, PassengerTypeOK, Order, PassengerFits
  <2>3. /\ Newest' = Newest + 1 /\ DOMAIN orders' = 1..(Newest + 1) /\ DOMAIN orders = 1..Newest
        /\ orders'[Newest + 1] = Waiting /\ \A u \in DOMAIN orders : orders'[u] = orders[u]
    BY <2>1, <2>2 DEF Newest
  <2>4. \A S : NewestIs(S)' <=> Waiting \in S
    BY <2>2, <2>3 DEF NewestIs
  <2>5. ~NewestIs(Unfinished)
    BY <1>5, NewestKnown DEF PassengerTyped, PassengerFits
  <2>6. OnlyNewest'
    <3>1. \A u \in DOMAIN orders : Over(u)
      BY <2>2, <2>5, NewestKnown DEF PassengerTyped, PassengerFits, OnlyNewest, NewestIs, Over, Order, Unfinished
    <3>2. QED
      BY <2>2, <2>3, <3>1 DEF OnlyNewest, Over
  <2>7. new.kind \in {"create", "retry"} /\ new.got.trip = Newest + 1 /\ new.reply = "ok"
    BY <2>n DEF Newest
  <2>8. \A c \in calls' : CallFits(c)'
    <3>1. CallFits(new)'
      BY <1>1, <2>3, <2>4, <2>7 DEF CallFits
    <3>2. ASSUME NEW c \in calls PROVE CallFits(c)'
      BY <1>1, <1>4 DEF CallFits
    <3>3. QED
      BY <2>1, <3>1, <3>2
  <2>9. PageFits'
    <3>1. ~NewestIs(WithDriver)'
      BY <2>4 DEF Waiting, WithDriver
    <3>2. QED
      BY <1>1, <2>3, <2>2, <3>1 DEF PassengerFits, PageFits
  <2>10. InboxTells' /\ LineOpens'
    <3>1. DOMAIN inbox' = {}
      BY <1>1
    <3>2. QED
      BY <1>1, <1>3, <3>1 DEF PassengerFits, InboxTells, LineOpens
  <2>11. NotLaunched' /\ NothingCached'
    BY <1>1, <2>1, <2>7 DEF PassengerFits, NotLaunched, NothingCached
  <2>12. QED
    BY <2>6, <2>8, <2>9, <2>10, <2>11 DEF PassengerFits
<1>6. CASE ActiveTrip # Nothing
  <2> DEFINE new == [kind |-> kind, trip |-> 0, reply |-> "refused", got |-> Nothing]
  <2>1. UNCHANGED orders /\ calls' = calls \cup {new}
    BY <1>2, <1>6 DEF Post
  <2>2. new.kind \in {"create", "retry"} /\ new.reply = "refused"
    OBVIOUS
  <2> HIDE DEF new
  <2>3. \A c \in calls' : c \in calls \/ (CallFits(c) /\ c.kind # "gate" /\ (c.kind = "provider" => c.got = Nothing))
    BY <1>1, <2>1, <2>2 DEF CallFits
  <2>4. LineOpens' /\ InboxTells'
    BY <1>1, <2>1, LineStands, InboxStands DEF PassengerFits
  <2>5. cached' = Nothing
    BY <1>1 DEF PassengerFits, NothingCached
  <2>6. QED
    BY <1>1, <2>1, <2>3, <2>4, <2>5, SamePage
<1>7. QED
  BY <1>5, <1>6

LEMMA SelectOfferFits ==
  ASSUME PassengerTyped, PassengerFits, SelectOffer
  PROVE  PassengerFits'
<1>1. /\ inbox = <<>> /\ screen.page = "searching" /\ (line.state = "up" => line.asks = 0)
      /\ UNCHANGED <<screen, cached, heard, line, process, troubles>>
  BY DEF SelectOffer, Tap, Calm
<1>2. NewestIs({Waiting}) /\ screen.trip = Newest
  BY <1>1 DEF PassengerFits, PageFits
<1>3. /\ Becomes(Newest, {Waiting}, "accepted", "accepted")
      /\ Post("select", Newest, "ok", Nothing)
  BY <1>2 DEF SelectOffer, NewestIs
<1>4. /\ orders[Newest] = Waiting /\ orders' = [orders EXCEPT ![Newest] = "accepted"] /\ Push("accepted", Newest)
      /\ Newest \in DOMAIN orders /\ "accepted" \in Order /\ orders[Newest] \in Unfinished
  BY <1>2, <1>3, NewestKnown DEF Becomes, PassengerTyped, PassengerFits, NewestIs, Order, Unfinished, WithDriver
<1>5. Newest' = Newest /\ \A S : NewestIs(S)' <=> "accepted" \in S
  <2>1. orders \in Seq(Order)
    BY DEF PassengerTyped, PassengerTypeOK, Order
  <2>2. QED
    BY <1>2, <1>4, <2>1 DEF Newest, NewestIs
<1>n. PICK new : new = [kind |-> "select", trip |-> Newest, reply |-> "ok", got |-> Nothing]
  OBVIOUS
<1>6. calls' = calls \cup {new} /\ new.kind = "select" /\ new.trip = Newest
  BY <1>3, <1>n DEF Post
<1>7. CallFits(new)'
  BY <1>1, <1>5, <1>6 DEF CallFits
<1>8. ASSUME NEW c \in calls PROVE CallFits(c)'
  <2>1. CallFits(c) /\ c.kind # "select" /\ NewestIs(Unfinished)
    BY <1>1, <1>2, QuietPages DEF PassengerFits, NewestIs, Unfinished
  <2>2. QED
    BY <1>1, <1>5, <2>1 DEF CallFits
<1>9. Tells("accepted") = "accepted"
  BY DEF Tells
<1>10. calls \subseteq calls' /\ \A c \in calls' : (c \in calls /\ CallFits(c)') \/ (CallFits(c)' /\ c.kind \notin {"gate", "provider"})
  BY <1>6, <1>7, <1>8
<1>11. QED
  BY <1>1, <1>4, <1>9, <1>10, NewestBecomes

LEMMA CancelTripFits ==
  ASSUME PassengerTyped, PassengerFits, CancelTrip
  PROVE  PassengerFits'
<1>1. /\ inbox = <<>> /\ (line.state = "up" => line.asks = 0) /\ process = "front"
      /\ UNCHANGED <<screen, cached, heard, line, process, troubles>>
  BY DEF CancelTrip, Tap, Calm
<1>2. cached.status = "none" /\ cached' = Nothing
  BY <1>1, NothingKnown DEF PassengerFits, NothingCached
<1>3. /\ screen.page \in {"searching", "ride"}
      /\ IF orders[screen.trip] \in Unfinished \ {"riding"}
         THEN Becomes(screen.trip, Unfinished, "cancelled", "cancelled") /\ Post("cancel", screen.trip, "ok", Nothing)
         ELSE /\ Post("cancel", screen.trip, IF Over(screen.trip) THEN "refused" ELSE "lost", Nothing)
              /\ UNCHANGED <<orders, inbox>>
  BY <1>2 DEF CancelTrip, Waiting
<1>4. screen.trip = Newest /\ NewestIs(Unfinished)
  BY <1>1, <1>3 DEF PassengerFits, PageFits, NewestIs, Unfinished
<1>5. Newest \in DOMAIN orders /\ orders[Newest] \in Unfinished
  BY <1>4, NewestKnown DEF PassengerTyped, PassengerFits, NewestIs
<1>6. CASE orders[Newest] \in Unfinished \ {"riding"}
  <2>1. orders' = [orders EXCEPT ![Newest] = "cancelled"] /\ Push("cancelled", Newest) /\ Post("cancel", Newest, "ok", Nothing)
    BY <1>3, <1>4, <1>6 DEF Becomes
  <2>2. Newest' = Newest /\ \A S : NewestIs(S)' <=> "cancelled" \in S
    <3>1. orders \in Seq(Order)
      BY DEF PassengerTyped, PassengerTypeOK, Order
    <3>2. QED
      BY <1>4, <1>5, <2>1, <3>1 DEF Newest, NewestIs
  <2>n. PICK new : new = [kind |-> "cancel", trip |-> Newest, reply |-> "ok", got |-> Nothing]
    OBVIOUS
  <2>3. calls' = calls \cup {new} /\ new.kind = "cancel"
    BY <2>1, <2>n DEF Post
  <2>4. "cancelled" \notin Unfinished /\ "cancelled" \in Order /\ "cancelled" \notin WithDriver /\ Tells("cancelled") = "cancelled"
    BY DEF Unfinished, WithDriver, Waiting, Order, Tells
  <2>5. CallFits(new)'
    BY <1>1, <1>3, <2>2, <2>3, <2>4 DEF CallFits
  <2>6. ASSUME NEW c \in calls PROVE CallFits(c)'
    <3>1. CallFits(c) /\ c.kind # "select"
      BY <1>1, QuietPages DEF PassengerFits
    <3>2. QED
      BY <1>1, <1>3, <1>4, <2>2, <2>4, <3>1 DEF CallFits
  <2>7. calls \subseteq calls' /\ \A c \in calls' : (c \in calls /\ CallFits(c)') \/ (CallFits(c)' /\ c.kind \notin {"gate", "provider"})
    BY <2>3, <2>5, <2>6
  <2>8. QED
    BY <1>1, <1>5, <2>1, <2>4, <2>7, NewestBecomes
<1>7. CASE orders[Newest] \notin Unfinished \ {"riding"}
  <2>1. ~Over(screen.trip)
    BY <1>4, <1>5, <1>7 DEF Over
  <2>n. PICK new : new = [kind |-> "cancel", trip |-> screen.trip, reply |-> "lost", got |-> Nothing]
    OBVIOUS
  <2>2. calls' = calls \cup {new} /\ new.kind = "cancel" /\ new.reply = "lost" /\ UNCHANGED <<orders, inbox>>
    BY <1>3, <1>4, <1>7, <2>1, <2>n DEF Post
  <2>3. \A c \in calls' : c \in calls \/ (CallFits(c) /\ c.kind # "gate" /\ (c.kind = "provider" => c.got = Nothing))
    BY <2>2 DEF CallFits
  <2>4. LineOpens' /\ InboxTells'
    BY <1>1, <2>2, LineStands, InboxStands DEF PassengerFits
  <2>5. screen.page = "ride" => /\ screen.shown = Nothing => \E c \in calls' : c.kind = "load"
                                /\ screen.shown # Nothing => screen.shown.trip = Newest /\ screen.shown.code
    BY <2>2 DEF PassengerFits, PageFits
  <2>6. QED
    BY <1>1, <1>2, <2>2, <2>3, <2>4, <2>5, SamePage
<1>8. QED
  BY <1>6, <1>7

LEMMA PassengerMovesFit ==
  ASSUME PassengerTyped, PassengerFits, BackHome \/ \E t \in DOMAIN orders : OpenSearch(t)
  PROVE  PassengerFits'
<1>1. process # "dead" /\ UNCHANGED <<orders, cached, inbox, process, troubles>>
  BY DEF BackHome, OpenSearch, Tap
<1>2. cached' = Nothing /\ InboxTells'
  BY <1>1, InboxStands DEF PassengerFits, NothingCached
<1>3. CASE BackHome
  <2>1. EnterHome(Provider) /\ ~NewestIs(WithDriver)
    BY <1>3 DEF BackHome, PassengerFits, PageFits
  <2>2. QED
    BY <1>1, <1>2, <2>1, ProviderKept, HomeFits
<1>4. ASSUME NEW t \in DOMAIN orders, OpenSearch(t) PROVE PassengerFits'
  <2>1. orders[t] = Waiting /\ EnterSearching(Read(t), Provider)
    BY <1>4 DEF OpenSearch
  <2>2. t = Newest
    BY <2>1, NewestKnown DEF PassengerTyped, PassengerFits, Unfinished
  <2>3. NewestIs({Waiting}) /\ Read(t).trip = Newest
    BY <2>1, <2>2, NewestKnown DEF NewestIs, Read, PassengerTyped, PassengerFits
  <2>4. QED
    BY <1>1, <1>2, <2>1, <2>3, SearchingFits
<1>5. QED
  BY <1>3, <1>4

LEMMA SocketFits ==
  ASSUME PassengerTyped, PassengerFits, Connects \/ Joins \/ Subscribes \/ Leaves \/ Resumes
  PROVE  PassengerFits'
<1>1. UNCHANGED <<orders, screen, cached, heard, inbox>>
  BY DEF Connects, Joins, Subscribes, Leaves, Resumes, AppOnly
<1>2. cached' = Nothing /\ InboxTells'
  BY <1>1, InboxStands DEF PassengerFits, NothingCached
<1>3. process' = process \/ process' # "dead"
  BY DEF Connects, Joins, Subscribes, Leaves, Resumes
<1>4. LineOpens'
  <2>1. CASE Connects
    <3>1. line' = [line EXCEPT !.state = "joining"] /\ line.state = "down"
      BY <2>1 DEF Connects
    <3>2. line'.state = "joining" /\ line'.room = line.room /\ line'.asks = line.asks
      BY <3>1 DEF PassengerTyped, PassengerTypeOK
    <3>3. QED
      BY <1>1, <3>1, <3>2 DEF PassengerFits, LineOpens
  <2>2. CASE Joins
    <3>1. line' = [line EXCEPT !.state = "up"]
      BY <2>2 DEF Joins
    <3>2. line'.state = "up" /\ line'.room = line.room /\ line'.asks = line.asks
      BY <3>1 DEF PassengerTyped, PassengerTypeOK
    <3>3. QED
      BY <1>1, <3>1, <3>2 DEF PassengerFits, LineOpens
  <2>3. CASE Subscribes
    <3>1. line.asks # 0 /\ line' = [line EXCEPT !.room = IF line.state = "up" THEN line.asks ELSE line.room, !.asks = 0]
      BY <2>3 DEF Subscribes
    <3>2. screen.page = "ride" /\ line.asks = screen.trip
      BY <3>1 DEF PassengerFits, LineOpens
    <3>3. line.state = "up"
      BY <3>2, RideMade DEF PassengerFits, LineOpens, NotLaunched, Newest
    <3>4. line'.state = "up" /\ line'.room = screen.trip /\ line'.asks = 0
      BY <3>1, <3>2, <3>3 DEF PassengerTyped, PassengerTypeOK
    <3>5. QED
      BY <1>1, <3>2, <3>4 DEF LineOpens
  <2>4. CASE Leaves \/ Resumes
    BY <1>1, <2>4, LineStands DEF Leaves, Resumes
  <2>5. QED
    BY <2>1, <2>2, <2>3, <2>4
<1>5. /\ calls \subseteq calls'
      /\ \A c \in calls' : c \in calls \/ (CallFits(c) /\ c.kind # "gate" /\ (c.kind = "provider" => c.got = Nothing))
  <2>1. CASE Resumes /\ screen.page = "ride"
    <3>n. PICK new : new = [kind |-> "resync", trip |-> screen.trip, reply |-> "ok", got |-> ActiveTrip]
      OBVIOUS
    <3>1. calls' = calls \cup {new} /\ new.kind = "resync" /\ new.got = ActiveTrip
      BY <2>1, <3>n DEF Resumes, AsksFor
    <3>2. ActiveTrip.trip = Newest \/ ~NewestIs(Unfinished)
      BY NewestKnown DEF PassengerTyped, PassengerFits
    <3>3. QED
      BY <2>1, <3>1, <3>2 DEF CallFits
  <2>2. CASE ~(Resumes /\ screen.page = "ride")
    <3>1. calls' = calls
      BY <2>2 DEF Connects, Joins, Subscribes, Leaves, Resumes, AppOnly
    <3>2. QED
      BY <3>1
  <2>3. QED
    BY <2>1, <2>2
<1>6. screen.page = "ride" => /\ screen.shown = Nothing => \E c \in calls' : c.kind = "load"
                              /\ screen.shown # Nothing => screen.shown.trip = Newest /\ screen.shown.code
  BY <1>5 DEF PassengerFits, PageFits
<1>7. process' = "dead" => calls' = {} /\ inbox' = <<>>
  <2>1. process' = "dead" => process = "dead" /\ calls' = calls
    BY DEF Connects, Joins, Subscribes, Leaves, Resumes, AppOnly
  <2>2. QED
    BY <1>1, <2>1 DEF PassengerFits, NotLaunched
<1>8. QED
  BY <1>1, <1>2, <1>3, <1>4, <1>5, <1>6, <1>7, SamePage

LEMMA LaunchesFit ==
  ASSUME PassengerTyped, PassengerFits, Launches
  PROVE  PassengerFits'
<1>1. process = "dead" /\ process' = "front" /\ UNCHANGED <<orders, cached, heard, line, inbox, troubles>>
  BY DEF Launches
<1>2. screen.page = "gate" /\ orders = <<>> /\ inbox = <<>>
  BY <1>1 DEF PassengerFits, NotLaunched
<1>3. screen' = [page |-> "gate", trip |-> 0, shown |-> Nothing, checked |-> FALSE]
  BY DEF Launches
<1>4. Newest' = Newest /\ (\A S : NewestIs(S)' <=> NewestIs(S)) /\ OnlyNewest'
  BY <1>1, OrdersStand DEF PassengerFits
<1>5. \A S : ~NewestIs(S)
  BY <1>2, NewestKnown DEF NewestIs, PassengerTyped, PassengerFits
<1>6. ActiveTrip = Nothing
  BY <1>5, NewestKnown DEF PassengerTyped, PassengerFits
<1>7. PICK gate : gate = [kind |-> "gate", trip |-> screen.trip, reply |-> "ok", got |-> ActiveTrip]
  OBVIOUS
<1>8. gate.kind = "gate" /\ gate.got = Nothing /\ calls' = {gate} \cup Refetch
  BY <1>6, <1>7 DEF Launches, AsksFor
<1>9. KeptCalls(Refetch)
  BY <1>5, RefetchKept
<1>10. NotLaunched' /\ NothingCached'
  BY <1>1, <1>2, <1>3, <1>8, <1>9 DEF NotLaunched, NothingCached, KeptCalls, PassengerFits
<1>11. LineOpens'
  BY <1>1, <1>2, <1>3, LineStands DEF PassengerFits, LineOpens
<1>12. InboxTells'
  BY <1>1, InboxStands DEF PassengerFits
<1>13. PageFits'
  BY <1>3, <1>4, <1>5 DEF PageFits
<1>14. \A c \in calls' : CallFits(c)'
  BY <1>8, <1>9 DEF CallFits, KeptCalls
<1>15. QED
  BY <1>4, <1>10, <1>11, <1>12, <1>13, <1>14 DEF PassengerFits

LEMMA NothingMoves ==
  ASSUME PassengerTyped, PassengerFits, UNCHANGED passengerVars
  PROVE  PassengerFits'
<1>1. UNCHANGED <<orders, screen, cached, calls, line, inbox, process>>
  BY DEF passengerVars
<1>2. cached' = Nothing /\ InboxTells'
  BY <1>1, InboxStands DEF PassengerFits, NothingCached
<1>3. LineOpens'
  BY <1>1, LineStands
<1>4. process' = "dead" => calls' = {} /\ inbox' = <<>>
  BY <1>1 DEF PassengerFits, NotLaunched
<1>5. screen.page = "ride" => /\ screen'.shown = Nothing => \E c \in calls' : c.kind = "load"
                              /\ screen'.shown # Nothing => screen'.shown.trip = Newest /\ screen'.shown.code
  BY <1>1 DEF PassengerFits, PageFits
<1>6. QED
  BY <1>1, <1>2, <1>3, <1>4, <1>5, SamePage

LEMMA PassengerNextInv == PassengerInv /\ [PassengerNext]_passengerVars => PassengerInv'
<1> SUFFICES ASSUME PassengerInv, [PassengerNext]_passengerVars, troubles' = 0 PROVE PassengerFits'
  BY PassengerNextTyped DEF PassengerInv
<1>1. PassengerTyped
  BY DEF PassengerInv
<1>2. troubles \in Nat
  BY <1>1, PassengerAssumption DEF PassengerTyped, PassengerTypeOK
<1>3. ASSUME troubles' = troubles + 1 PROVE FALSE
  BY <1>2, <1>3
<1>4. ~SocketDrops /\ ~Dies /\ (\A t : ~TapNotification(t)) /\ \A c : ~RequestFails(c)
  BY <1>3 DEF SocketDrops, Dies, TapNotification, RequestFails
<1>5. troubles = 0
  <2>1. ASSUME NEW t \in DOMAIN orders,
               \/ SearchExpires(t) \/ DriverComes(t) \/ DriverStarts(t) \/ DriverCompletes(t)
               \/ OthersCancel(t) \/ OpenSearch(t)
        PROVE  troubles' = troubles
    BY <2>1 DEF SearchExpires, DriverComes, DriverStarts, DriverCompletes, OthersCancel, OpenSearch, ServiceOnly
  <2>2. ASSUME RequestTrip \/ SelectOffer \/ CancelTrip \/ BackHome PROVE troubles' = troubles
    BY <2>2 DEF RequestTrip, SelectOffer, CancelTrip, BackHome
  <2>3. ASSUME NEW c \in calls, Answers(c) PROVE troubles' = troubles
    BY <2>3 DEF Answers
  <2>4. ASSUME \/ EventArrives \/ Connects \/ Joins \/ Subscribes \/ Leaves \/ Resumes \/ Launches
               \/ UNCHANGED passengerVars
        PROVE  troubles' = troubles
    BY <2>4 DEF EventArrives, Connects, Joins, Subscribes, Leaves, Resumes, Launches, passengerVars
  <2>5. QED
    BY <1>4, <2>1, <2>2, <2>3, <2>4 DEF PassengerNext
<1>6. PassengerFits
  BY <1>5 DEF PassengerInv
<1>7. QED
  BY <1>1, <1>4, <1>5, <1>6, ServiceFits, PassengerMovesFit, RequestTripFits, SelectOfferFits, CancelTripFits,
     AnswersFit, EventArrivesFits, SocketFits, LaunchesFit, NothingMoves DEF PassengerNext

(* Without drops, restarts or lost answers, however answers, events and taps
   interleave, for any number of trips: once nothing is in flight the page is the
   one of the trip as it stands, and a ride shows its own trip, with the code
   until it starts. *)
THEOREM PassengerSeesHisTrip == PassengerSpec => []ScreenFits
<1>1. PassengerInv => ScreenFits
  <2> SUFFICES ASSUME PassengerInv, troubles = 0, AppSettled PROVE ScreenFits
    BY DEF ScreenFits
  <2>1. inbox = <<>> /\ calls = {}
    BY DEF AppSettled, Calm
  <2>2. PassengerTypeOK /\ OnlyNewest /\ PageFits
    BY DEF PassengerInv, PassengerFits, PassengerTyped
  <2>3. CASE screen.page = "searching"
    BY <2>1, <2>2, <2>3 DEF ScreenFits, PageFits, NewestIs
  <2>4. CASE screen.page = "ride"
    BY <2>1, <2>2, <2>4 DEF ScreenFits, PageFits, NewestIs
  <2>5. CASE screen.page \in {"noDrivers", "pay"}
    BY <2>2, <2>5 DEF ScreenFits, PageFits
  <2>6. CASE screen.page \notin {"searching", "ride", "noDrivers", "pay"}
    <3>1. ~NewestIs(WithDriver)
      BY <2>2, <2>6 DEF PageFits
    <3>2. ActiveTrip.status \notin WithDriver
      <4>1. CASE NewestIs(Unfinished)
        BY <2>2, <3>1, <4>1, NewestKnown DEF NewestIs, Read
      <4>2. CASE ~NewestIs(Unfinished)
        BY <2>2, <4>2, NewestKnown DEF Nothing, WithDriver
      <4>3. QED
        BY <4>1, <4>2
    <3>3. QED
      BY <2>6, <3>2 DEF ScreenFits
  <2>7. QED
    BY <2>3, <2>4, <2>5, <2>6
<1>2. QED
  BY <1>1, PassengerInitFits, PassengerNextInv, PTL DEF PassengerSpec

-----------------------------------------------------------------------------
(* The driver's app *)

HIDE PassengerAssumption
USE DriverAppAssumption

(* A trip that is announced is one there is; a colleague's cancellation names none. *)
DriverTyped ==
  /\ DriverAppTypeOK
  /\ \A i \in DOMAIN mail : mail[i].name = "new" => mail[i].trip \in JobIds

Mail == [name : {"new", "taken", "rejected", "accepted", "cancelled", "started"}, trip : 0..MaxJobs]
MailOK(box) == box \in Seq(Mail) /\ \A i \in DOMAIN box : box[i].name = "new" => box[i].trip \in JobIds

(* What a page shows, asks for and hears after a step. *)
PageOK ==
  /\ view' \in [page : Pages, checked : BOOLEAN]
  /\ listed' \subseteq JobIds /\ sent' \subseteq JobIds /\ hears' \subseteq {"home", "ride", "started"}
  /\ asked' \subseteq DriverCall
  /\ driverLink' \in [state : {"off", "down", "joining", "up"}, failures : 0..MaxFailures, room : 0..MaxJobs]

HeldOK == held' \in [read : BOOLEAN, job : Job, error : BOOLEAN]

LEMMA NoJobKnown == NoJob \in Job /\ NoJob.trip = 0
BY DEF NoJob, Job

LEMMA JobsKnown ==
  ASSUME DriverAppTypeOK
  PROVE  /\ DOMAIN jobs = 1..Len(jobs) /\ Len(jobs) \in Nat /\ DOMAIN jobs \subseteq JobIds
         /\ \A t \in DOMAIN jobs : jobs[t] \in JobStatus
         /\ HisJob \in Job /\ OpenJobs \subseteq JobIds
<1>1. DOMAIN jobs = 1..Len(jobs) /\ Len(jobs) \in Nat /\ \A t \in DOMAIN jobs : jobs[t] \in JobStatus
  BY DEF DriverAppTypeOK
<1>2. DOMAIN jobs \subseteq JobIds
  BY <1>1 DEF DriverAppTypeOK, JobIds
<1>3. OpenJobs \subseteq JobIds
  BY <1>2 DEF OpenJobs
<1>4. HisJob \in Job
  <2>1. CASE \E t \in DOMAIN jobs : jobs[t] \in His
    <3> DEFINE t == CHOOSE t \in DOMAIN jobs : jobs[t] \in His
    <3>1. t \in DOMAIN jobs /\ jobs[t] \in His
      BY <2>1
    <3>2. HisJob = [trip |-> t, status |-> jobs[t]]
      BY <2>1 DEF HisJob
    <3> HIDE DEF t
    <3>3. QED
      BY <1>2, <3>1, <3>2 DEF Job, JobIds
  <2>2. CASE ~\E t \in DOMAIN jobs : jobs[t] \in His
    BY <2>2, NoJobKnown DEF HisJob
  <2>3. QED
    BY <2>1, <2>2
<1>5. QED
  BY <1>1, <1>2, <1>3, <1>4

Kinds == Gets \cup {"list", "offer", "confirm", "complete", "cancel"}

LEMMA NewAsks ==
  ASSUME DriverAppTypeOK
  PROVE  /\ \A kind \in Kinds, ok \in BOOLEAN, job \in Job : \A ts : ts \subseteq JobIds =>
              Asking(kind, ok, job, ts) \subseteq DriverCall
         /\ \A kind \in Gets : Reading(kind) \subseteq DriverCall
         /\ asked \subseteq DriverCall /\ OfProvider \subseteq DriverCall /\ Built \subseteq DriverCall
<1>1. ASSUME NEW kind \in Kinds, NEW ok \in BOOLEAN, NEW job \in Job, NEW ts, ts \subseteq JobIds
      PROVE  Asking(kind, ok, job, ts) \subseteq DriverCall
  BY <1>1 DEF Asking, DriverCall, Kinds
<1>2. ASSUME NEW kind \in Gets PROVE Reading(kind) \subseteq DriverCall
  <2>1. kind \in Kinds /\ TRUE \in BOOLEAN /\ HisJob \in Job /\ {} \subseteq JobIds
    BY JobsKnown DEF Kinds
  <2>2. QED
    BY <1>1, <2>1 DEF Reading
<1>3. asked \subseteq DriverCall /\ OfProvider \subseteq DriverCall
  BY DEF DriverAppTypeOK, OfProvider
<1>4. Built \subseteq DriverCall
  BY <1>2 DEF Built, Gets
<1>5. QED
  BY <1>1, <1>2, <1>3, <1>4

LEMMA ShowsPages ==
  ASSUME DriverAppTypeOK, NEW page \in Pages, Shows(page)
  PROVE  /\ view' \in [page : Pages, checked : BOOLEAN]
         /\ listed' \subseteq JobIds /\ sent' \subseteq JobIds /\ hears' \subseteq {"home", "ride", "started"}
BY DEF Shows

LEMMA DialledLink ==
  ASSUME DriverAppTypeOK, Dialled \/ UNCHANGED driverLink
  PROVE  driverLink' \in [state : {"off", "down", "joining", "up"}, failures : 0..MaxFailures, room : 0..MaxJobs]
<1>1. driverLink \in [state : {"off", "down", "joining", "up"}, failures : 0..MaxFailures, room : 0..MaxJobs]
      /\ 0 \in 0..MaxFailures
  BY DEF DriverAppTypeOK
<1>2. QED
  BY <1>1 DEF Dialled

LEMMA DriverWays ==
  ASSUME DriverAppTypeOK, NEW more, more \subseteq DriverCall
  PROVE  /\ OpenHome(more) => PageOK
         /\ GoHome(more) => PageOK
         /\ OpenRide(more) => PageOK
         /\ Remain(more) => PageOK
         /\ \A job : Resume(job, more) => PageOK
<1>1. /\ view \in [page : Pages, checked : BOOLEAN]
      /\ listed \subseteq JobIds /\ sent \subseteq JobIds /\ hears \subseteq {"home", "ride", "started"}
      /\ driverLink \in [state : {"off", "down", "joining", "up"}, failures : 0..MaxFailures, room : 0..MaxJobs]
  BY DEF DriverAppTypeOK
<1>2. "home" \in Pages /\ "ride" \in Pages
  BY DEF Pages
<1>3. ASSUME NEW some, some \subseteq DriverCall, OpenHome(some) PROVE PageOK
  <2>1. Asking("list", TRUE, NoJob, OpenJobs) \subseteq DriverCall /\ Built \subseteq DriverCall
    BY JobsKnown, NewAsks, NoJobKnown DEF Kinds
  <2>2. asked' = some \cup Built \cup Asking("list", TRUE, NoJob, OpenJobs) /\ Shows("home") /\ Dialled
    BY <1>3 DEF OpenHome
  <2>3. QED
    BY <1>2, <1>3, <2>1, <2>2, ShowsPages, DialledLink DEF PageOK
<1>4. ASSUME GoHome(more) PROVE PageOK
  <2>1. CASE view.page = "over"
    <3>1. /\ view' = [view EXCEPT !.page = "home"] /\ hears' = {} /\ asked' = more
          /\ UNCHANGED <<listed, sent, driverLink>>
      BY <1>4, <2>1 DEF GoHome, BackToHome
    <3>2. QED
      BY <1>1, <1>2, <3>1 DEF PageOK
  <2>2. CASE view.page # "over"
    <3>1. OpenHome(more \cap OfProvider)
      BY <1>4, <2>2 DEF GoHome
    <3>2. more \cap OfProvider \subseteq DriverCall
      OBVIOUS
    <3>3. QED
      BY <1>3, <3>1, <3>2
  <2>3. QED
    BY <2>1, <2>2
<1>5. ASSUME OpenRide(more) PROVE PageOK
  <2>1. asked' = more \cup Built /\ Built \subseteq DriverCall /\ Shows("ride") /\ Dialled
    BY <1>5, NewAsks DEF OpenRide
  <2>2. QED
    BY <1>2, <2>1, ShowsPages, DialledLink DEF PageOK
<1>6. Remain(more) => PageOK
  BY <1>1 DEF Remain, PageOK
<1>7. ASSUME NEW job, Resume(job, more) PROVE PageOK
  <2>1. CASE /\ view' = [view EXCEPT !.checked = TRUE] /\ asked' = more
             /\ UNCHANGED <<hears, listed, sent, driverLink>>
    BY <1>1, <2>1 DEF PageOK
  <2>2. CASE Shows("ride") /\ asked' = more \cap OfProvider /\ UNCHANGED driverLink
    <3>1. asked' \subseteq DriverCall
      BY <2>2
    <3>2. QED
      BY <1>2, <2>2, <3>1, ShowsPages, DialledLink DEF PageOK
  <2>3. QED
    BY <1>6, <1>7, <2>1, <2>2 DEF Resume
<1>8. QED
  BY <1>3, <1>4, <1>5, <1>6, <1>7

LEMMA DriverInitTyped == DriverAppInit => DriverTyped
<1> SUFFICES ASSUME DriverAppInit PROVE DriverTyped
  OBVIOUS
<1>1. jobs \in Seq(JobStatus) /\ Len(jobs) <= MaxJobs
  <2>0. 0 <= MaxJobs /\ 1 <= MaxJobs
    OBVIOUS
  <2>1. CASE jobs = <<>>
    BY <2>0, <2>1
  <2>2. ASSUME NEW s \in His, jobs = <<s>> PROVE jobs \in Seq(JobStatus) /\ Len(jobs) <= MaxJobs
    <3>1. s \in JobStatus
      BY DEF JobStatus
    <3>2. jobs \in Seq(JobStatus) /\ Len(jobs) = 1
      BY <2>2, <3>1
    <3>3. QED
      BY <2>0, <3>2
  <2>3. jobs = <<>> \/ \E s \in His : jobs = <<s>>
    BY DEF DriverAppInit
  <2>4. QED
    BY <2>1, <2>2, <2>3
<1>2. view \in [page : Pages, checked : BOOLEAN] /\ held \in [read : BOOLEAN, job : Job, error : BOOLEAN]
  BY NoJobKnown DEF DriverAppInit, Pages
<1>3. driverLink \in [state : {"off", "down", "joining", "up"}, failures : 0..MaxFailures, room : 0..MaxJobs]
  BY DEF DriverAppInit
<1>4. mail = <<>> /\ bids = {} /\ listed = {} /\ sent = {} /\ hears = {} /\ asked = {} /\ unheard = FALSE /\ mishaps = 0
  BY DEF DriverAppInit
<1>5. mishaps \in 0..MaxMishaps /\ unheard \in BOOLEAN
  <2>1. 0 \in 0..MaxMishaps
    OBVIOUS
  <2>2. FALSE \in BOOLEAN
    OBVIOUS
  <2>3. QED
    BY <1>4, <2>1, <2>2
<1>6. mail \in Seq(Mail) /\ DOMAIN mail = {}
  BY <1>4
<1>7. QED
  BY <1>1, <1>2, <1>3, <1>4, <1>5, <1>6 DEF DriverTyped, DriverAppTypeOK, Mail

(* What each part of a step owes to the type. *)
LEMMA DriverStepTyped ==
  ASSUME DriverTyped, PageOK, HeldOK, MailOK(mail)',
         jobs' \in Seq(JobStatus), Len(jobs') <= MaxJobs, bids' \subseteq JobIds,
         unheard' \in BOOLEAN, mishaps' \in 0..MaxMishaps
  PROVE  DriverTyped'
BY DEF DriverTyped, DriverAppTypeOK, PageOK, HeldOK, MailOK, Mail

LEMMA DriverStands ==
  ASSUME DriverTyped
  PROVE  /\ UNCHANGED <<view, listed, sent, hears, asked, driverLink>> => PageOK
         /\ UNCHANGED held => HeldOK
         /\ UNCHANGED mail => MailOK(mail)'
         /\ mail' = <<>> => MailOK(mail)'
         /\ UNCHANGED jobs => jobs' \in Seq(JobStatus) /\ Len(jobs') <= MaxJobs
         /\ UNCHANGED bids => bids' \subseteq JobIds
         /\ UNCHANGED unheard => unheard' \in BOOLEAN
         /\ UNCHANGED mishaps => mishaps' \in 0..MaxMishaps
         /\ mishaps < MaxMishaps /\ mishaps' = mishaps + 1 => mishaps' \in 0..MaxMishaps
         /\ \A job \in Job : Holds(job) => HeldOK
         /\ held' = [held EXCEPT !.error = TRUE] => HeldOK
<1>1. DriverAppTypeOK
  BY DEF DriverTyped
<1>2. UNCHANGED <<view, listed, sent, hears, asked, driverLink>> => PageOK
  BY <1>1 DEF DriverAppTypeOK, PageOK
<1>3. UNCHANGED held => HeldOK
  BY <1>1 DEF DriverAppTypeOK, HeldOK
<1>4. UNCHANGED mail => MailOK(mail)'
  BY <1>1 DEF DriverTyped, DriverAppTypeOK, MailOK, Mail
<1>5. mail' = <<>> => MailOK(mail)'
  BY DEF MailOK
<1>6. \A job \in Job : Holds(job) => HeldOK
  BY DEF Holds, HeldOK
<1>7. held' = [held EXCEPT !.error = TRUE] => HeldOK
  BY <1>1 DEF DriverAppTypeOK, HeldOK
<1>8. /\ UNCHANGED jobs => jobs' \in Seq(JobStatus) /\ Len(jobs') <= MaxJobs
      /\ UNCHANGED bids => bids' \subseteq JobIds
      /\ UNCHANGED unheard => unheard' \in BOOLEAN
      /\ UNCHANGED mishaps => mishaps' \in 0..MaxMishaps
  BY <1>1 DEF DriverAppTypeOK
<1>9. mishaps < MaxMishaps /\ mishaps' = mishaps + 1 => mishaps' \in 0..MaxMishaps
  BY <1>1 DEF DriverAppTypeOK
<1>10. QED
  BY <1>2, <1>3, <1>4, <1>5, <1>6, <1>7, <1>8, <1>9

Names == {"new", "taken", "rejected", "accepted", "cancelled", "started"}

LEMMA NotifyTyped ==
  ASSUME DriverTyped, NEW names \in Seq(Names), NEW t \in 0..MaxJobs,
         \A i \in DOMAIN names : names[i] = "new" => t \in JobIds,
         Notify(names, t)
  PROVE  MailOK(mail)'
<1> DEFINE news == IF driverLink.state = "up" THEN [i \in DOMAIN names |-> [name |-> names[i], trip |-> t]] ELSE <<>>
<1>1. mail \in Seq(Mail) /\ \A i \in DOMAIN mail : mail[i].name = "new" => mail[i].trip \in JobIds
  BY DEF DriverTyped, DriverAppTypeOK, Mail
<1>2. mail' = mail \o news
  BY DEF Notify
<1>3. news \in Seq(Mail) /\ \A i \in DOMAIN news : news[i].name = "new" => news[i].trip \in JobIds
  <2>1. CASE driverLink.state = "up"
    <3>1. news = [i \in 1..Len(names) |-> [name |-> names[i], trip |-> t]] /\ Len(names) \in Nat
      BY <2>1
    <3>2. \A i \in 1..Len(names) : names[i] \in Names
      OBVIOUS
    <3>3. \A i \in 1..Len(names) : [name |-> names[i], trip |-> t] \in Mail
      BY <3>2 DEF Mail, Names
    <3> HIDE DEF news
    <3>4. news \in Seq(Mail) /\ DOMAIN news = 1..Len(names)
      BY <3>1, <3>3
    <3>5. QED
      BY <3>1, <3>4
  <2>2. CASE driverLink.state # "up"
    BY <2>2
  <2>3. QED
    BY <2>1, <2>2
<1> HIDE DEF news
<1>4. mail' \in Seq(Mail) /\ Len(mail') = Len(mail) + Len(news)
  BY <1>1, <1>2, <1>3
<1>5. ASSUME NEW i \in DOMAIN mail', mail'[i].name = "new" PROVE mail'[i].trip \in JobIds
  <2>1. i \in 1..(Len(mail) + Len(news)) /\ Len(mail) \in Nat /\ Len(news) \in Nat
    BY <1>1, <1>3, <1>4
  <2>2. CASE i <= Len(mail)
    <3>1. i \in DOMAIN mail /\ mail'[i] = mail[i]
      BY <1>1, <1>2, <1>3, <2>1, <2>2
    <3>2. QED
      BY <1>1, <1>5, <3>1
  <2>3. CASE i > Len(mail)
    <3>1. i - Len(mail) \in DOMAIN news /\ mail'[i] = news[i - Len(mail)]
      BY <1>1, <1>2, <1>3, <2>1, <2>3
    <3>2. QED
      BY <1>3, <1>5, <3>1
  <2>4. QED
    BY <2>1, <2>2, <2>3
<1>6. QED
  BY <1>4, <1>5 DEF MailOK

LEMMA MailLeaves ==
  ASSUME DriverTyped, mail # <<>>
  PROVE  /\ Head(mail) \in Mail /\ (Head(mail).name = "new" => Head(mail).trip \in JobIds)
         /\ mail' = Tail(mail) => MailOK(mail)'
<1>1. mail \in Seq(Mail) /\ \A i \in DOMAIN mail : mail[i].name = "new" => mail[i].trip \in JobIds
  BY DEF DriverTyped, DriverAppTypeOK, Mail
<1>2. Head(mail) = mail[1] /\ 1 \in DOMAIN mail
  BY <1>1
<1>3. ASSUME mail' = Tail(mail) PROVE MailOK(mail)'
  <2>1. mail' \in Seq(Mail) /\ Len(mail') = Len(mail) - 1
    BY <1>1, <1>3
  <2>2. ASSUME NEW i \in DOMAIN mail' PROVE i + 1 \in DOMAIN mail /\ mail'[i] = mail[i + 1]
    BY <1>1, <1>3, <2>1, <2>2
  <2>3. QED
    BY <1>1, <2>1, <2>2 DEF MailOK
<1>4. QED
  BY <1>1, <1>2, <1>3

LEMMA DriverAnswersTyped ==
  ASSUME DriverTyped, NEW c \in asked, DriverAnswers(c)
  PROVE  DriverTyped'
<1>1. DriverAppTypeOK /\ c \in DriverCall
  BY DEF DriverTyped, DriverAppTypeOK
<1>2. c.got \in Job /\ c.trips \subseteq JobIds /\ c.ok \in BOOLEAN
  BY <1>1 DEF DriverCall
<1>3. UNCHANGED <<jobs, bids, mail, unheard, mishaps>>
  BY DEF DriverAnswers
<1>4. asked \ {c} \subseteq DriverCall /\ {} \subseteq DriverCall
  BY <1>1 DEF DriverAppTypeOK
<1>5. /\ view \in [page : Pages, checked : BOOLEAN]
      /\ listed \subseteq JobIds /\ sent \subseteq JobIds /\ hears \subseteq {"home", "ride", "started"}
      /\ driverLink \in [state : {"off", "down", "joining", "up"}, failures : 0..MaxFailures, room : 0..MaxJobs]
  BY <1>1 DEF DriverAppTypeOK
<1>6. PageOK /\ HeldOK
  <2>1. CASE SplashAnswer(c)
    BY <1>1, <1>4, <2>1, DriverWays, DriverStands DEF SplashAnswer
  <2>2. CASE HeldAnswer(c)
    BY <1>1, <1>2, <1>4, <2>2, DriverWays, DriverStands DEF HeldAnswer
  <2>3. CASE RefetchAnswer(c)
    BY <1>1, <1>2, <1>4, <2>3, DriverWays, DriverStands DEF RefetchAnswer
  <2>4. CASE PickupAnswer(c)
    BY <1>1, <1>2, <1>4, <2>4, DriverWays, DriverStands DEF PickupAnswer
  <2>5. CASE CompleteAnswer(c)
    <3>1. CASE c.ok
      BY <1>1, <1>4, <2>5, <3>1, DriverWays, DriverStands, NoJobKnown DEF CompleteAnswer
    <3>2. CASE ~c.ok /\ AtRide
      BY <1>1, <1>4, <2>5, <3>2, DriverWays, DriverStands DEF CompleteAnswer
    <3>3. CASE ~c.ok /\ ~AtRide
      BY <1>1, <1>4, <2>5, <3>3, DriverWays, DriverStands DEF CompleteAnswer
    <3>4. QED
      BY <3>1, <3>2, <3>3
  <2>6. CASE DriverCancelAnswer(c)
    BY <1>1, <1>4, <2>6, DriverWays, DriverStands, NoJobKnown DEF DriverCancelAnswer
  <2>7. CASE OfferAnswer(c)
    BY <1>4, <1>5, <2>7, DriverStands DEF OfferAnswer, PageOK
  <2>8. CASE ListAnswer(c)
    BY <1>2, <1>4, <1>5, <2>8, DriverStands DEF ListAnswer, PageOK
  <2>9. QED
    BY <2>1, <2>2, <2>3, <2>4, <2>5, <2>6, <2>7, <2>8 DEF DriverAnswers
<1>7. QED
  BY <1>3, <1>6, DriverStands, DriverStepTyped

LEMMA MailArrivesTyped ==
  ASSUME DriverTyped, MailArrives
  PROVE  DriverTyped'
<1>1. DriverAppTypeOK
  BY DEF DriverTyped
<1>2. PICK e : e = Head(mail)
  OBVIOUS
<1>3. e \in Mail /\ (e.name = "new" => e.trip \in JobIds) /\ MailOK(mail)'
  BY <1>2, MailLeaves DEF MailArrives
<1>4. /\ view \in [page : Pages, checked : BOOLEAN]
      /\ listed \subseteq JobIds /\ sent \subseteq JobIds /\ hears \subseteq {"home", "ride", "started"}
      /\ asked \subseteq DriverCall
      /\ driverLink \in [state : {"off", "down", "joining", "up"}, failures : 0..MaxFailures, room : 0..MaxJobs]
  BY <1>1 DEF DriverAppTypeOK
<1>5. Reading("provider") \subseteq DriverCall /\ Reading("refetch") \subseteq DriverCall
  BY <1>1, NewAsks DEF Gets
<1>6. ASSUME RideGets(e) PROVE PageOK /\ HeldOK
  <2>1. asked \cup Reading("refetch") \subseteq DriverCall
    BY <1>4, <1>5
  <2>2. CASE Holds(NoJob) /\ GoHome(asked)
    BY <1>1, <1>4, <2>2, DriverWays, DriverStands, NoJobKnown
  <2>3. CASE Remain(asked \cup Reading("refetch")) /\ UNCHANGED held
    BY <1>1, <2>1, <2>3, DriverWays, DriverStands
  <2>4. CASE Remain(asked) /\ UNCHANGED held
    BY <1>1, <1>4, <2>4, DriverWays, DriverStands
  <2>5. QED
    BY <1>6, <2>2, <2>3, <2>4 DEF RideGets
<1>7. ASSUME HomeGets(e) PROVE PageOK /\ HeldOK
  <2>1. CASE OpenRide(Reading("provider")) /\ UNCHANGED held
    BY <1>1, <1>5, <2>1, DriverWays, DriverStands
  <2>2. CASE e.name = "new" /\ listed' = listed \cup {e.trip} /\ UNCHANGED <<view, held, sent, hears, asked, driverLink>>
    BY <1>3, <1>4, <2>2, DriverStands DEF PageOK
  <2>3. CASE /\ listed' = listed \ {e.trip} /\ sent' = sent \ {e.trip}
             /\ UNCHANGED <<view, held, hears, asked, driverLink>>
    BY <1>4, <2>3, DriverStands DEF PageOK
  <2>4. CASE sent' = sent \ {e.trip} /\ UNCHANGED <<view, held, listed, hears, asked, driverLink>>
    BY <1>4, <2>4, DriverStands DEF PageOK
  <2>5. CASE Remain(asked) /\ UNCHANGED held
    BY <1>1, <1>4, <2>5, DriverWays, DriverStands
  <2>6. QED
    BY <1>7, <2>1, <2>2, <2>3, <2>4, <2>5 DEF HomeGets
<1>8. ASSUME Remain(asked), UNCHANGED held PROVE PageOK /\ HeldOK
  BY <1>1, <1>4, <1>8, DriverWays, DriverStands
<1>9. PageOK /\ HeldOK
  <2>1. RideGets(e) \/ HomeGets(e) \/ (Remain(asked) /\ UNCHANGED held)
    BY <1>2 DEF MailArrives
  <2>2. QED
    BY <1>6, <1>7, <1>8, <2>1
<1>10. unheard' \in BOOLEAN /\ UNCHANGED <<jobs, bids, mishaps>>
  BY DEF MailArrives
<1>11. QED
  BY <1>3, <1>9, <1>10, DriverStands, DriverStepTyped

LEMMA DriverNextTyped == DriverTyped /\ [DriverAppNext]_driverAppVars => DriverTyped'
<1> SUFFICES ASSUME DriverTyped, [DriverAppNext]_driverAppVars PROVE DriverTyped'
  OBVIOUS
<1>1. DriverAppTypeOK
  BY DEF DriverTyped
<1>2. /\ jobs \in Seq(JobStatus) /\ Len(jobs) <= MaxJobs /\ Len(jobs) \in Nat /\ DOMAIN jobs = 1..Len(jobs)
      /\ bids \subseteq JobIds /\ listed \subseteq JobIds /\ sent \subseteq JobIds
      /\ view \in [page : Pages, checked : BOOLEAN]
      /\ held \in [read : BOOLEAN, job : Job, error : BOOLEAN]
      /\ hears \subseteq {"home", "ride", "started"} /\ asked \subseteq DriverCall
      /\ driverLink \in [state : {"off", "down", "joining", "up"}, failures : 0..MaxFailures, room : 0..MaxJobs]
  BY <1>1 DEF DriverAppTypeOK
<1>3. /\ \A t \in DOMAIN jobs : t \in JobIds /\ t \in 0..MaxJobs
      /\ HisJob \in Job /\ OpenJobs \subseteq JobIds /\ 0 \in 0..MaxJobs
  BY <1>1, JobsKnown DEF JobIds
<1>4. {} \subseteq DriverCall /\ OfProvider \subseteq DriverCall
  BY <1>1, NewAsks
<1>s. ASSUME NEW t, NEW s \in JobStatus, jobs' = [jobs EXCEPT ![t] = s]
      PROVE  jobs' \in Seq(JobStatus) /\ Len(jobs') <= MaxJobs
  <2>1. DOMAIN jobs' = 1..Len(jobs) /\ \A i \in 1..Len(jobs) : jobs'[i] \in JobStatus
    BY <1>2, <1>s
  <2>2. jobs' = [i \in 1..Len(jobs) |-> jobs'[i]]
    BY <1>s, <2>1
  <2>3. jobs' \in Seq(JobStatus) /\ Len(jobs') = Len(jobs)
    BY <1>2, <2>1, <2>2
  <2>4. QED
    BY <1>2, <2>3
<1>u. {"over", "accepted", "requested", "riding", "arrived"} \subseteq JobStatus
  BY DEF JobStatus, His
<1>a. ASSUME ServiceActs, jobs' \in Seq(JobStatus), Len(jobs') <= MaxJobs, bids' \subseteq JobIds, MailOK(mail)'
      PROVE  DriverTyped'
  BY <1>a, DriverStands, DriverStepTyped DEF ServiceActs
<1>n. /\ <<"new">> \in Seq(Names) /\ <<>> \in Seq(Names) /\ <<"taken">> \in Seq(Names)
      /\ <<"rejected", "taken">> \in Seq(Names) /\ <<"accepted", "taken">> \in Seq(Names)
      /\ <<"cancelled", "cancelled">> \in Seq(Names) /\ <<"cancelled">> \in Seq(Names)
      /\ <<"started">> \in Seq(Names)
  BY DEF Names
<1>m. ASSUME NEW t \in 0..MaxJobs,
             NEW names \in {<<>>, <<"taken">>, <<"rejected", "taken">>, <<"accepted", "taken">>,
                            <<"cancelled">>, <<"cancelled", "cancelled">>, <<"started">>},
             Notify(names, t)
      PROVE  MailOK(mail)'
  <2>1. names \in Seq(Names)
    BY <1>n
  <2>2. \A i \in DOMAIN names : names[i] # "new"
    OBVIOUS
  <2>3. QED
    BY <1>m, <2>1, <2>2, NotifyTyped
<1>5. CASE Announce
  <2>1. /\ ServiceActs /\ UNCHANGED bids /\ Len(jobs) < MaxJobs /\ jobs' = Append(jobs, "requested")
        /\ Notify(<<"new">>, Len(jobs) + 1)
    BY <1>5 DEF Announce
  <2>2. jobs' \in Seq(JobStatus) /\ Len(jobs') <= MaxJobs
    BY <1>2, <1>u, <2>1
  <2>3. Len(jobs) + 1 \in JobIds /\ Len(jobs) + 1 \in 0..MaxJobs
    BY <1>2, <2>1 DEF JobIds
  <2>4. MailOK(mail)'
    BY <1>n, <2>1, <2>3, NotifyTyped
  <2>5. QED
    BY <1>a, <2>1, <2>2, <2>4, DriverStands
<1>6. ASSUME NEW t \in DOMAIN jobs, AnnounceAgain(t) PROVE DriverTyped'
  <2>1. ServiceActs /\ UNCHANGED <<jobs, bids>> /\ Notify(<<"new">>, t)
    BY <1>6 DEF AnnounceAgain
  <2>2. MailOK(mail)'
    BY <1>3, <1>n, <2>1, NotifyTyped
  <2>3. QED
    BY <1>a, <2>1, <2>2, DriverStands
<1>7. ASSUME NEW t \in DOMAIN jobs, SearchEnds(t) PROVE DriverTyped'
  <2>1. ServiceActs /\ jobs' = [jobs EXCEPT ![t] = "over"] /\ bids' = bids \ {t}
    BY <1>7 DEF SearchEnds
  <2>2. MailOK(mail)'
    <3>1. CASE Notify(<<>>, t)
      BY <1>3, <1>m, <3>1
    <3>2. CASE Notify(<<"taken">>, t)
      BY <1>3, <1>m, <3>2
    <3>3. CASE Notify(<<"rejected", "taken">>, t)
      BY <1>3, <1>m, <3>3
    <3>4. QED
      BY <1>7, <3>1, <3>2, <3>3 DEF SearchEnds
  <2>4. QED
    BY <1>2, <1>a, <1>s, <1>u, <2>1, <2>2
<1>8. ASSUME NEW t \in DOMAIN jobs, ChoosesHim(t) PROVE DriverTyped'
  <2>1. /\ ServiceActs /\ jobs' = [jobs EXCEPT ![t] = "accepted"] /\ bids' = bids \ {t}
        /\ Notify(<<"accepted", "taken">>, t)
    BY <1>8 DEF ChoosesHim
  <2>2. MailOK(mail)'
    BY <1>3, <1>m, <2>1
  <2>3. QED
    BY <1>2, <1>a, <1>s, <1>u, <2>1, <2>2
<1>9. ASSUME NEW t \in DOMAIN jobs, CancelsRide(t) PROVE DriverTyped'
  <2>1. /\ ServiceActs /\ jobs' = [jobs EXCEPT ![t] = "over"] /\ UNCHANGED bids
        /\ Notify(<<"cancelled", "cancelled">>, t) \/ Notify(<<"cancelled">>, t)
    BY <1>9 DEF CancelsRide
  <2>2. MailOK(mail)'
    <3>1. CASE Notify(<<"cancelled", "cancelled">>, t)
      BY <1>3, <1>m, <3>1
    <3>2. CASE Notify(<<"cancelled">>, t)
      BY <1>3, <1>m, <3>2
    <3>3. QED
      BY <2>1, <3>1, <3>2
  <2>3. QED
    BY <1>2, <1>a, <1>s, <1>u, <2>1, <2>2
<1>10. CASE ColleaguesRideCancelled
  <2>1. ServiceActs /\ UNCHANGED <<jobs, bids>> /\ Notify(<<"cancelled">>, 0)
    BY <1>10 DEF ColleaguesRideCancelled
  <2>2. MailOK(mail)'
    BY <1>3, <1>m, <2>1
  <2>3. QED
    BY <1>a, <2>1, <2>2, DriverStands
<1>11. ASSUME NEW t \in DOMAIN jobs, SendOffer(t) PROVE DriverTyped'
  <2>1. UNCHANGED <<jobs, view, held, listed, hears, driverLink, mail, unheard, mishaps>> /\ sent' = sent \cup {t}
    BY <1>11 DEF SendOffer
  <2>2. PICK ok \in BOOLEAN : /\ bids' = IF ok THEN bids \cup {t} ELSE bids
                              /\ asked' = asked \cup Asking("offer", ok, NoJob, {t})
    BY <1>11 DEF SendOffer
  <2>3. bids' \subseteq JobIds /\ sent' \subseteq JobIds
    BY <1>2, <1>3, <2>1, <2>2
  <2>4. Asking("offer", ok, NoJob, {t}) \subseteq DriverCall
    BY <1>1, <1>3, NewAsks, NoJobKnown DEF Kinds
  <2>5. PageOK
    BY <1>2, <2>1, <2>2, <2>3, <2>4 DEF PageOK
  <2>6. QED
    BY <2>1, <2>3, <2>5, DriverStands, DriverStepTyped
<1>12. CASE ConfirmPickup
  <2> DEFINE t == held.job.trip
  <2>1. /\ UNCHANGED <<bids, view, held, listed, sent, hears, driverLink, unheard, mishaps>>
        /\ held.job.status \in {"accepted", "arrived"}
    BY <1>12 DEF ConfirmPickup
  <2>2. PICK right \in BOOLEAN, here \in BOOLEAN, ok \in BOOLEAN :
          /\ jobs' = [jobs EXCEPT ![t] = IF ~here THEN jobs[t] ELSE IF right THEN "riding" ELSE "arrived"]
          /\ asked' = asked \cup Asking("confirm", ok, IF ok THEN [trip |-> t, status |-> "riding"] ELSE NoJob, {})
          /\ Notify(<<"started">>, t) \/ UNCHANGED mail
    BY <1>12 DEF ConfirmPickup
  <2>3. t \in 0..MaxJobs
    BY <1>2 DEF Job
  <2>4. jobs' \in Seq(JobStatus) /\ Len(jobs') <= MaxJobs
    <3>1. CASE ~here
      <4>1. jobs' = jobs
        BY <1>2, <2>2, <3>1
      <4>2. QED
        BY <1>2, <4>1
    <3>2. CASE here
      <4>1. PICK s \in JobStatus : s = IF right THEN "riding" ELSE "arrived"
        BY <1>u
      <4>2. jobs' = [jobs EXCEPT ![t] = s]
        BY <2>2, <3>2, <4>1
      <4>3. QED
        BY <1>s, <4>1, <4>2
    <3>3. QED
      BY <3>1, <3>2
  <2>5. PICK job \in Job : job = IF ok THEN [trip |-> t, status |-> "riding"] ELSE NoJob
    BY <2>3, NoJobKnown DEF Job, His
  <2>6. Asking("confirm", ok, job, {}) \subseteq DriverCall
    BY <1>1, NewAsks DEF Kinds
  <2>7. PageOK
    BY <1>2, <2>1, <2>2, <2>5, <2>6 DEF PageOK
  <2>8. MailOK(mail)'
    <3>1. CASE Notify(<<"started">>, t)
      BY <1>m, <2>3, <3>1
    <3>2. QED
      BY <2>2, <3>1, DriverStands
  <2>9. QED
    BY <2>1, <2>4, <2>7, <2>8, DriverStands, DriverStepTyped
<1>13. CASE EndRide
  <2>1. UNCHANGED <<bids, view, held, listed, sent, hears, driverLink, mail, unheard, mishaps>>
    BY <1>13 DEF EndRide
  <2>2. PICK t : jobs' = [jobs EXCEPT ![t] = "over"]
    BY <1>13 DEF EndRide
  <2>3. PICK ok \in BOOLEAN : asked' = asked \cup Asking("complete", ok, NoJob, {})
    BY <1>13 DEF EndRide
  <2>4. Asking("complete", ok, NoJob, {}) \subseteq DriverCall
    BY <1>1, NewAsks, NoJobKnown DEF Kinds
  <2>5. PageOK
    BY <1>2, <2>1, <2>3, <2>4 DEF PageOK
  <2>6. QED
    BY <1>s, <1>u, <2>1, <2>2, <2>5, DriverStands, DriverStepTyped
<1>14. CASE CancelRide
  <2>1. UNCHANGED <<bids, view, held, listed, sent, hears, driverLink, mail, unheard, mishaps>>
    BY <1>14 DEF CancelRide
  <2>2. PICK t : jobs' = [jobs EXCEPT ![t] = "over"] \/ UNCHANGED jobs
    BY <1>14 DEF CancelRide
  <2>3. PICK ok \in BOOLEAN : asked' = asked \cup Asking("cancel", ok, NoJob, {})
    <3> DEFINE ok == jobs[held.job.trip] \in {"accepted", "arrived"}
    <3>1. ok \in BOOLEAN
      OBVIOUS
    <3>2. asked' = asked \cup Asking("cancel", ok, NoJob, {})
      BY <1>14 DEF CancelRide
    <3> HIDE DEF ok
    <3>3. QED
      BY <3>1, <3>2
  <2>4. Asking("cancel", ok, NoJob, {}) \subseteq DriverCall
    BY <1>1, NewAsks, NoJobKnown DEF Kinds
  <2>5. PageOK
    BY <1>2, <2>1, <2>3, <2>4 DEF PageOK
  <2>6. jobs' \in Seq(JobStatus) /\ Len(jobs') <= MaxJobs
    BY <1>2, <1>s, <1>u, <2>2
  <2>7. QED
    BY <2>1, <2>5, <2>6, DriverStands, DriverStepTyped
<1>15. CASE ChangeTab
  <2>1. UNCHANGED <<jobs, bids, held, mail, unheard, mishaps>>
    BY <1>15 DEF ChangeTab
  <2>2. ASSUME Shows("tab"), asked' = OfProvider, UNCHANGED driverLink PROVE PageOK
    <3>1. "tab" \in Pages
      BY DEF Pages
    <3>2. QED
      BY <1>1, <1>4, <2>2, <3>1, ShowsPages, DialledLink DEF PageOK
  <2>3. ASSUME OpenHome(OfProvider) PROVE PageOK
    BY <1>1, <1>4, <2>3, DriverWays
  <2>4. PageOK
    BY <1>15, <2>2, <2>3 DEF ChangeTab
  <2>5. QED
    BY <2>1, <2>4, DriverStands, DriverStepTyped
<1>16. CASE TapOnNotification
  <2>1. UNCHANGED <<jobs, bids, held, mail, unheard>> /\ OpenHome(OfProvider) /\ mishaps < MaxMishaps /\ mishaps' = mishaps + 1
    BY <1>16 DEF TapOnNotification
  <2>2. PageOK
    BY <1>1, <1>4, <2>1, DriverWays
  <2>3. QED
    BY <2>1, <2>2, DriverStands, DriverStepTyped
<1>17. CASE RideOnHome
  <2>1. UNCHANGED <<jobs, bids, mail, unheard, mishaps>>
    BY <1>17 DEF RideOnHome
  <2>2. ASSUME view' = [view EXCEPT !.page = "over"], hears' = hears \cup {"ride", "started"},
               UNCHANGED <<held, listed, sent, asked, driverLink>>
        PROVE  PageOK /\ HeldOK
    <3>1. "over" \in Pages
      BY DEF Pages
    <3>2. PageOK
      BY <1>2, <2>2, <3>1 DEF PageOK
    <3>3. QED
      BY <2>2, <3>2, DriverStands
  <2>3. ASSUME held' = [held EXCEPT !.error = TRUE], OpenRide({}) PROVE PageOK /\ HeldOK
    BY <1>1, <1>4, <2>3, DriverWays, DriverStands
  <2>4. ASSUME Holds(NoJob), view' = [view EXCEPT !.checked = TRUE], UNCHANGED <<listed, sent, hears, asked, driverLink>>
        PROVE  PageOK /\ HeldOK
    <3>1. PageOK
      BY <1>2, <2>4 DEF PageOK
    <3>2. QED
      BY <2>4, <3>1, DriverStands, NoJobKnown
  <2>5. PageOK /\ HeldOK
    BY <1>17, <2>2, <2>3, <2>4 DEF RideOnHome
  <2>6. QED
    BY <2>1, <2>5, DriverStands, DriverStepTyped
<1>18. CASE BackFromRide
  <2>1. /\ UNCHANGED <<jobs, bids, held, listed, sent, asked, driverLink, mail, unheard, mishaps>>
        /\ view' = [view EXCEPT !.page = "home"] /\ hears' = {}
    BY <1>18 DEF BackFromRide, BackToHome
  <2>2. "home" \in Pages
    BY DEF Pages
  <2>3. PageOK
    BY <1>2, <2>1, <2>2 DEF PageOK
  <2>4. QED
    BY <2>1, <2>3, DriverStands, DriverStepTyped
<1>19. CASE SignsIn
  <2>1. UNCHANGED <<jobs, bids, held, mail, unheard, mishaps>> /\ OpenHome(OfProvider)
    BY <1>19 DEF SignsIn
  <2>2. PageOK
    BY <1>1, <1>4, <2>1, DriverWays
  <2>3. QED
    BY <2>1, <2>2, DriverStands, DriverStepTyped
<1>20. ASSUME NEW c \in asked, DriverAnswerLost(c) PROVE DriverTyped'
  <2>1. /\ UNCHANGED <<jobs, bids, view, held, listed, sent, hears, driverLink, mail, unheard>>
        /\ mishaps < MaxMishaps /\ mishaps' = mishaps + 1
    BY <1>20 DEF DriverAnswerLost
  <2>2. PICK ts : /\ ts = IF c.kind = "list" THEN {} ELSE c.trips
                  /\ asked' = (asked \ {c}) \cup Asking(c.kind, FALSE, NoJob, ts)
    BY <1>20 DEF DriverAnswerLost
  <2>3. c.kind \in Kinds /\ ts \subseteq JobIds
    BY <1>2, <2>2 DEF DriverCall, Kinds
  <2>4. Asking(c.kind, FALSE, NoJob, ts) \subseteq DriverCall
    BY <1>1, <2>3, NewAsks, NoJobKnown
  <2>5. PageOK
    BY <1>2, <2>1, <2>2, <2>4 DEF PageOK
  <2>6. QED
    BY <2>1, <2>5, DriverStands, DriverStepTyped
<1>21. CASE Dials \/ JoinsRooms \/ StaysUp
  <2>1. /\ UNCHANGED <<jobs, bids, held, listed, sent, asked, unheard>>
        /\ UNCHANGED <<view, hears, mail, mishaps>>
    BY <1>21 DEF Dials, JoinsRooms, StaysUp, SocketOnly
  <2>2. driverLink' \in [state : {"off", "down", "joining", "up"}, failures : 0..MaxFailures, room : 0..MaxJobs]
    <3>1. HisJob.trip \in 0..MaxJobs /\ 0 \in 0..MaxFailures
      BY <1>3 DEF Job
    <3>2. CASE Dials
      BY <1>2, <3>2 DEF Dials
    <3>3. CASE JoinsRooms
      BY <1>2, <3>1, <3>3 DEF JoinsRooms
    <3>4. CASE StaysUp
      BY <1>2, <3>1, <3>4 DEF StaysUp
    <3>5. QED
      BY <1>21, <3>2, <3>3, <3>4
  <2>3. PageOK
    BY <1>2, <2>1, <2>2 DEF PageOK
  <2>4. QED
    BY <2>1, <2>3, DriverStands, DriverStepTyped
<1>c. ASSUME CountsFailure PROVE PageOK
  <2>1. CASE driverLink.failures + 1 >= MaxFailures
    <3>1. driverLink' = [state |-> "off", failures |-> 0, room |-> 0]
      BY <1>c, <2>1 DEF CountsFailure
    <3>2. driverLink' \in [state : {"off", "down", "joining", "up"}, failures : 0..MaxFailures, room : 0..MaxJobs]
      BY <1>3, <3>1
    <3>3. CASE AtHome
      <4>1. Shows("signedOut") /\ asked' = OfProvider
        BY <1>c, <2>1, <3>3 DEF CountsFailure
      <4>2. "signedOut" \in Pages
        BY DEF Pages
      <4>3. QED
        BY <1>1, <1>4, <3>2, <4>1, <4>2, ShowsPages DEF PageOK
    <3>4. CASE ~AtHome
      <4>1. hears' = {} /\ UNCHANGED <<view, listed, sent, asked>>
        BY <1>c, <2>1, <3>4 DEF CountsFailure
      <4>2. QED
        BY <1>2, <3>2, <4>1 DEF PageOK
    <3>5. QED
      BY <3>3, <3>4
  <2>2. CASE ~(driverLink.failures + 1 >= MaxFailures)
    <3>1. /\ driverLink' = [state |-> "down", failures |-> driverLink.failures + 1, room |-> 0]
          /\ UNCHANGED <<view, hears, listed, sent, asked>>
      BY <1>c, <2>2 DEF CountsFailure
    <3>2. driverLink.failures + 1 \in 0..MaxFailures
      BY <1>2, <2>2
    <3>3. QED
      BY <1>2, <1>3, <3>1, <3>2 DEF PageOK
  <2>3. QED
    BY <2>1, <2>2
<1>22. CASE WireDrops
  BY <1>22, <1>c, DriverStands, DriverStepTyped DEF WireDrops
<1>23. CASE DialFails
  BY <1>23, <1>c, DriverStands, DriverStepTyped DEF DialFails
<1>24. CASE AppStarts
  <2>1. /\ UNCHANGED <<jobs, bids, held, listed, sent, hears, driverLink, mail, unheard, mishaps>>
        /\ view' = [page |-> "splash", checked |-> FALSE] /\ asked' = Reading("splash")
    BY <1>24 DEF AppStarts
  <2>2. Reading("splash") \subseteq DriverCall /\ "splash" \in Pages
    BY <1>1, NewAsks DEF Gets, Pages
  <2>3. PageOK
    BY <1>2, <2>1, <2>2 DEF PageOK
  <2>4. QED
    BY <2>1, <2>3, DriverStands, DriverStepTyped
<1>25. CASE AppEnds
  <2>1. /\ UNCHANGED <<jobs, bids>> /\ Shows("off") /\ asked' = {} /\ mail' = <<>> /\ unheard' = FALSE
        /\ driverLink' = [state |-> "off", failures |-> 0, room |-> 0]
        /\ held' = [read |-> FALSE, job |-> NoJob, error |-> FALSE]
        /\ mishaps < MaxMishaps /\ mishaps' = mishaps + 1
    BY <1>25 DEF AppEnds
  <2>2. "off" \in Pages
    BY DEF Pages
  <2>3. driverLink' \in [state : {"off", "down", "joining", "up"}, failures : 0..MaxFailures, room : 0..MaxJobs]
    BY <1>3, <2>1
  <2>4. PageOK
    BY <1>1, <1>4, <2>1, <2>2, <2>3, ShowsPages DEF PageOK
  <2>5. HeldOK
    BY <2>1, NoJobKnown DEF HeldOK
  <2>6. unheard' \in BOOLEAN
    BY <2>1
  <2>7. QED
    BY <2>1, <2>4, <2>5, <2>6, DriverStands, DriverStepTyped
<1>26. CASE UNCHANGED driverAppVars
  BY <1>26, DriverStands, DriverStepTyped DEF driverAppVars
<1>27. QED
  BY <1>5, <1>6, <1>7, <1>8, <1>9, <1>10, <1>11, <1>12, <1>13, <1>14, <1>15, <1>16, <1>17, <1>18, <1>19, <1>20,
     <1>21, <1>22, <1>23, <1>24, <1>25, <1>26, DriverAnswersTyped, MailArrivesTyped DEF DriverAppNext

(* Whatever is announced, tapped, answered, heard and lost, every page, request
   and event of the driver's app keeps within its type: an announced trip is
   one there is, and the count of failures stays under its limit. *)
THEOREM DriverAppTypedAlways == DriverAppSpec => []DriverAppTypeOK
<1>1. DriverTyped => DriverAppTypeOK
  BY DEF DriverTyped
<1>2. QED
  BY <1>1, DriverInitTyped, DriverNextTyped, PTL DEF DriverAppSpec

-----------------------------------------------------------------------------
(* The driver sees his ride *)

(* He has one ride at a time: he is chosen only while he has none. *)
OneOfHis == \A t, u \in DOMAIN jobs : jobs[t] \in His /\ jobs[u] \in His => t = u

(* Until the splash is answered nothing is connected, read or offered, and what
   the splash asked is still so. *)
NotStarted ==
  view.page \in {"off", "splash"} =>
    /\ mail = <<>> /\ driverLink.state = "off" /\ bids = {} /\ hears = {}
    /\ held = [read |-> FALSE, job |-> NoJob, error |-> FALSE]
    /\ view.page = "off" => asked = {}
    /\ view.page = "splash" => asked = Reading("splash")

(* Without mishaps the app knows these pages; home listens for the selection
   only while it is on top, and what a page waits for goes with it. *)
PagesKnown ==
  /\ view.page \in {"off", "splash", "home", "tab", "ride"}
  /\ hears \subseteq {"home", "started"} /\ ("home" \in hears => view.page = "home")
  /\ \A c \in asked : /\ c.kind = "splash" => view.page = "splash"
                      /\ c.kind = "cancel" => view.page = "ride"

(* The next event changes his ride and finds no listener. *)
Missed ==
  /\ mail # <<>>
  /\ LET e == Head(mail) IN
     \/ e.name = "accepted" /\ "home" \notin hears
     \/ e.name = "cancelled" /\ e.trip # 0

(* What is on its way to the page of the ride is how the ride stands. *)
AnswerStands(c) ==
  /\ c.kind \in {"provider", "complete", "cancel", "refetch"} => c.ok
  /\ c.kind = "refetch" => c.got = HisJob /\ HisJob # NoJob
  /\ c.kind = "confirm" => HisJob # NoJob /\ (c.ok => c.got = HisJob)
  /\ c.kind = "cancel" => HisJob = NoJob

(* Away from the ride he has none, or is about to hear that he was chosen. *)
OnHome ==
  /\ held.job = NoJob /\ ~held.error
  /\ \A c \in asked : /\ c.kind \in {"provider", "complete", "offer", "list"}
                      /\ c.kind = "provider" => c.ok /\ c.got = NoJob
                      /\ c.kind = "complete" => c.ok
  /\ HisJob # NoJob => mail # <<>> /\ Head(mail).name = "accepted"

(* On its page the ride is as it stands, or an answer will say so. *)
OnRidePage ==
  /\ \A c \in asked : /\ AnswerStands(c) /\ (c.kind = "provider" => c.got = HisJob)
                      /\ c.kind = "complete" => HisJob = NoJob
  /\ held.error \/ held.job = HisJob
       \/ \E c \in asked : c.kind \in {"provider", "refetch", "confirm", "complete", "cancel"}

(* Only the first event of a step can change his ride. *)
MailTold ==
  /\ \A i \in DOMAIN mail : i > 1 => mail[i].name = "taken"
  /\ mail # <<>> /\ Head(mail).name = "started" => HisJob # NoJob /\ view.page = "ride"

Told ==
  /\ MailTold
  /\ view.page \in {"home", "tab"} => OnHome
  /\ view.page = "ride" => OnRidePage

Steady == OneOfHis /\ NotStarted /\ PagesKnown /\ (Missed \/ Told)

DriverInv == DriverTyped /\ (mishaps = 0 /\ ~unheard => Steady)

JobOf(js) == IF \E t \in DOMAIN js : js[t] \in His
             THEN LET t == CHOOSE t \in DOMAIN js : js[t] \in His IN [trip |-> t, status |-> js[t]]
             ELSE NoJob

LEMMA JobOfIs ==
  ASSUME NEW js, \A t, u \in DOMAIN js : js[t] \in His /\ js[u] \in His => t = u
  PROVE  /\ \A t \in DOMAIN js : js[t] \in His => JobOf(js) = [trip |-> t, status |-> js[t]] /\ JobOf(js) # NoJob
         /\ (\A t \in DOMAIN js : js[t] \notin His) => JobOf(js) = NoJob
<1>1. ASSUME NEW t \in DOMAIN js, js[t] \in His
      PROVE  JobOf(js) = [trip |-> t, status |-> js[t]] /\ JobOf(js) # NoJob
  <2> DEFINE u == CHOOSE u \in DOMAIN js : js[u] \in His
  <2>1. u \in DOMAIN js /\ js[u] \in His
    BY <1>1
  <2>2. JobOf(js) = [trip |-> u, status |-> js[u]]
    BY <1>1 DEF JobOf
  <2> HIDE DEF u
  <2>3. u = t
    BY <1>1, <2>1
  <2>4. JobOf(js).status # NoJob.status
    BY <2>1, <2>2 DEF NoJob, His
  <2>5. QED
    BY <2>2, <2>3, <2>4
<1>2. (\A t \in DOMAIN js : js[t] \notin His) => JobOf(js) = NoJob
  BY DEF JobOf
<1>3. QED
  BY <1>1, <1>2

LEMMA HisJobIs ==
  ASSUME OneOfHis
  PROVE  /\ \A t \in DOMAIN jobs : jobs[t] \in His => HisJob = [trip |-> t, status |-> jobs[t]] /\ HisJob # NoJob
         /\ (\A t \in DOMAIN jobs : jobs[t] \notin His) => HisJob = NoJob
         /\ HisJob # NoJob => \E t \in DOMAIN jobs : jobs[t] \in His /\ HisJob = [trip |-> t, status |-> jobs[t]]
<1>1. HisJob = JobOf(jobs)
  BY DEF HisJob, JobOf
<1>2. QED
  BY <1>1, JobOfIs DEF OneOfHis

LEMMA HisJobWillBe ==
  ASSUME OneOfHis'
  PROVE  /\ \A t \in DOMAIN jobs' : jobs'[t] \in His => HisJob' = [trip |-> t, status |-> jobs'[t]] /\ HisJob' # NoJob
         /\ (\A t \in DOMAIN jobs' : jobs'[t] \notin His) => HisJob' = NoJob
<1>1. HisJob' = JobOf(jobs')
  BY DEF HisJob, JobOf
<1>2. QED
  BY <1>1, JobOfIs DEF OneOfHis

(* A step that gives him no ride, takes none from him and leaves it as it is. *)
LEMMA HisJobKept ==
  ASSUME OneOfHis,
         \A t \in DOMAIN jobs' : jobs'[t] \in His => t \in DOMAIN jobs /\ jobs'[t] = jobs[t],
         \A t \in DOMAIN jobs : jobs[t] \in His => t \in DOMAIN jobs' /\ jobs'[t] = jobs[t]
  PROVE  OneOfHis' /\ HisJob' = HisJob
<1>1. OneOfHis'
  BY DEF OneOfHis
<1>2. CASE \E t \in DOMAIN jobs : jobs[t] \in His
  <2>1. PICK t \in DOMAIN jobs : jobs[t] \in His
    BY <1>2
  <2>2. HisJob = [trip |-> t, status |-> jobs[t]]
    BY <2>1, HisJobIs
  <2>3. HisJob' = [trip |-> t, status |-> jobs'[t]] /\ jobs'[t] = jobs[t]
    BY <1>1, <2>1, HisJobWillBe
  <2>4. QED
    BY <1>1, <2>2, <2>3
<1>3. CASE \A t \in DOMAIN jobs : jobs[t] \notin His
  BY <1>1, <1>3, HisJobIs, HisJobWillBe
<1>4. QED
  BY <1>2, <1>3

LEMMA DriverInitInv == DriverAppInit => DriverInv
<1> SUFFICES ASSUME DriverAppInit PROVE DriverInv
  OBVIOUS
<1>1. OneOfHis
  <2>1. \A t, u \in DOMAIN jobs : t = u
    BY DEF DriverAppInit
  <2>2. QED
    BY <2>1 DEF OneOfHis
<1>2. NotStarted /\ PagesKnown
  BY DEF DriverAppInit, NotStarted, PagesKnown
<1>3. Told
  BY DEF DriverAppInit, Told, MailTold
<1>4. QED
  BY <1>1, <1>2, <1>3, DriverInitTyped DEF DriverInv, Steady

(* What a page, held and the requests say depends on the ride, not on the rest. *)
LEMMA AnswersKept ==
  ASSUME UNCHANGED <<asked, held>>, HisJob' = HisJob
  PROVE  OnRidePage <=> OnRidePage'
BY DEF OnRidePage, AnswerStands

(* An event in an empty mailbox. *)
LEMMA Notified ==
  ASSUME mail = <<>>, NEW names \in Seq(Names), NEW t, Notify(names, t)
  PROVE  /\ driverLink.state # "up" => mail' = <<>>
         /\ driverLink.state = "up" => /\ Len(mail') = Len(names) /\ DOMAIN mail' = 1..Len(names)
                                       /\ \A i \in 1..Len(names) : mail'[i] = [name |-> names[i], trip |-> t]
                                       /\ names # <<>> => mail' # <<>> /\ Head(mail') = [name |-> names[1], trip |-> t]
                                       /\ names = <<>> => mail' = <<>>
<1>1. CASE driverLink.state # "up"
  BY <1>1 DEF Notify
<1>2. CASE driverLink.state = "up"
  <2> DEFINE news == [i \in 1..Len(names) |-> [name |-> names[i], trip |-> t]]
  <2>1. DOMAIN names = 1..Len(names) /\ Len(names) \in Nat
    OBVIOUS
  <2>2. news \in Seq([name : Names, trip : {t}]) /\ Len(news) = Len(names) /\ DOMAIN news = 1..Len(names)
    BY <2>1
  <2>3. mail' = <<>> \o news
    BY <1>2, <2>1 DEF Notify
  <2>4. \A i \in 1..Len(names) : news[i] = [name |-> names[i], trip |-> t]
    OBVIOUS
  <2> HIDE DEF news
  <2>5. mail' = news
    BY <2>2, <2>3
  <2>6. QED
    BY <1>2, <2>1, <2>2, <2>4, <2>5
<1>3. QED
  BY <1>1, <1>2

(* A step of the service that leaves his ride alone and says nothing of it. *)
LEMMA ServiceLeavesHim ==
  ASSUME DriverTyped, Steady, mishaps = 0, ServiceActs, OneOfHis', HisJob' = HisJob,
         bids' \subseteq bids,
         NEW names \in {<<"new">>, <<>>, <<"taken">>, <<"rejected", "taken">>, <<"cancelled">>}, NEW t,
         Notify(names, t), names = <<"cancelled">> => t = 0
  PROVE  Steady'
<1>1. mail = <<>> /\ UNCHANGED <<view, held, listed, sent, hears, asked, driverLink, unheard, mishaps>>
  BY DEF ServiceActs, Quiet
<1>2. Told
  BY <1>1 DEF Steady, Missed
<1>3. /\ names \in Seq(Names)
      /\ \A i \in 1..Len(names) : i > 1 => names[i] = "taken"
      /\ names # <<>> => names[1] \in {"new", "taken", "rejected", "cancelled"}
  <2>1. CASE names = <<>>
    BY <2>1
  <2>2. ASSUME NEW name \in {"new", "taken", "cancelled"}, names = <<name>> PROVE <1>3
    <3>1. name \in Names
      BY DEF Names
    <3>2. QED
      BY <2>2, <3>1
  <2>3. CASE names = <<"rejected", "taken">>
    <3>1. "rejected" \in Names /\ "taken" \in Names
      BY DEF Names
    <3>2. QED
      BY <2>3, <3>1
  <2>4. QED
    BY <2>1, <2>2, <2>3
<1>4. NotStarted'
  <2>1. CASE view.page \in {"off", "splash"}
    <3>1. driverLink.state = "off"
      BY <2>1 DEF Steady, NotStarted
    <3>2. mail' = <<>>
      BY <1>1, <1>3, <3>1, Notified
    <3>3. Reading("splash")' = Reading("splash")
      BY DEF Reading, Asking
    <3>4. QED
      BY <1>1, <2>1, <3>2, <3>3 DEF Steady, NotStarted
  <2>2. QED
    BY <1>1, <2>1 DEF NotStarted
<1>5. PagesKnown'
  BY <1>1 DEF Steady, PagesKnown
<1>6. MailTold'
  <2>1. CASE driverLink.state = "up"
    <3>1. /\ DOMAIN mail' = 1..Len(names)
          /\ \A i \in 1..Len(names) : mail'[i] = [name |-> names[i], trip |-> t]
          /\ names = <<>> => mail' = <<>>
          /\ names # <<>> => Head(mail').name = names[1]
      BY <1>1, <1>3, <2>1, Notified
    <3>2. mail' # <<>> => Head(mail').name # "started"
      BY <1>3, <3>1
    <3>3. \A i \in DOMAIN mail' : i > 1 => mail'[i].name = "taken"
      BY <1>3, <3>1
    <3>4. QED
      BY <3>2, <3>3 DEF MailTold
  <2>2. CASE driverLink.state # "up"
    BY <1>1, <1>3, <2>2, Notified DEF MailTold
  <2>3. QED
    BY <2>1, <2>2
<1>7. OnHome => OnHome'
  BY <1>1 DEF OnHome
<1>8. Told'
  BY <1>1, <1>2, <1>6, <1>7, AnswersKept DEF Told
<1>9. QED
  BY <1>4, <1>5, <1>8 DEF Steady


LEMMA JobsStay ==
  ASSUME OneOfHis, UNCHANGED jobs
  PROVE  OneOfHis' /\ HisJob' = HisJob
BY DEF OneOfHis, HisJob

(* He is chosen on an open app: home hears of it, or nobody does. *)
LEMMA ChoosesHimSteady ==
  ASSUME DriverTyped, Steady, mishaps = 0, NEW t \in DOMAIN jobs, ChoosesHim(t)
  PROVE  Steady'
<1>1. /\ mail = <<>> /\ UNCHANGED <<view, held, listed, sent, hears, asked, driverLink, unheard, mishaps>>
      /\ t \in bids /\ HisJob = NoJob /\ jobs' = [jobs EXCEPT ![t] = "accepted"] /\ bids' = bids \ {t}
      /\ Notify(<<"accepted", "taken">>, t)
  BY DEF ChoosesHim, ServiceActs, Quiet
<1>2. view.page \notin {"off", "splash"}
  BY <1>1 DEF Steady, NotStarted
<1>3. driverLink.state = "up"
  BY <1>2 DEF ChoosesHim, ServiceActs, Quiet, Running
<1>4. Told
  BY <1>1 DEF Steady, Missed
<1>5. mail' # <<>> /\ Head(mail').name = "accepted" /\ DOMAIN mail' = 1..2 /\ mail'[2].name = "taken"
  <2>0. <<"accepted", "taken">> \in Seq(Names)
    BY DEF Names
  <2>1. PICK names \in Seq(Names) : names = <<"accepted", "taken">>
    BY <2>0, Zenon
  <2>2. Len(names) = 2 /\ names[1] = "accepted" /\ names[2] = "taken" /\ names # <<>>
    BY <2>1
  <2>3. Notify(names, t)
    BY <1>1, <2>1
  <2>4. /\ DOMAIN mail' = 1..Len(names)
        /\ \A i \in 1..Len(names) : mail'[i] = [name |-> names[i], trip |-> t]
        /\ mail' # <<>> /\ Head(mail') = [name |-> names[1], trip |-> t]
    BY <1>1, <1>3, <2>2, <2>3, Notified
  <2>5. QED
    BY <2>2, <2>4
<1>6. OneOfHis'
  <2>1. \A u \in DOMAIN jobs : jobs[u] \notin His
    BY <1>1, HisJobIs DEF Steady
  <2>2. \A u \in DOMAIN jobs' : jobs'[u] \in His => u = t
    BY <1>1, <2>1
  <2>3. QED
    BY <2>2 DEF OneOfHis
<1>7. NotStarted' /\ PagesKnown'
  BY <1>1, <1>2 DEF Steady, NotStarted, PagesKnown
<1>8. CASE "home" \notin hears
  BY <1>1, <1>5, <1>6, <1>7, <1>8 DEF Steady, Missed
<1>9. CASE "home" \in hears
  <2>1. view.page = "home"
    BY <1>9 DEF Steady, PagesKnown
  <2>2. OnHome'
    BY <1>1, <1>4, <1>5, <2>1 DEF Told, OnHome
  <2>3. MailTold'
    BY <1>5 DEF MailTold
  <2>4. QED
    BY <1>1, <1>6, <1>7, <2>1, <2>2, <2>3 DEF Steady, Told
<1>10. QED
  BY <1>8, <1>9

(* The end of his ride finds no listener. *)
LEMMA CancelsRideSteady ==
  ASSUME DriverTyped, Steady, mishaps = 0, NEW t \in DOMAIN jobs, CancelsRide(t)
  PROVE  Steady'
<1>1. /\ mail = <<>> /\ asked = {} /\ jobs' = [jobs EXCEPT ![t] = "over"] /\ bids' = bids
      /\ UNCHANGED <<view, held, listed, sent, hears, asked, driverLink, unheard, mishaps>>
  BY DEF CancelsRide, ServiceActs, Quiet
<1>2. PICK names \in {<<"cancelled", "cancelled">>, <<"cancelled">>} : Notify(names, t)
  BY DEF CancelsRide
<1>3. names \in Seq(Names) /\ names # <<>> /\ names[1] = "cancelled"
  <2>1. "cancelled" \in Names
    BY DEF Names
  <2>2. CASE names = <<"cancelled", "cancelled">>
    BY <2>1, <2>2
  <2>3. CASE names = <<"cancelled">>
    BY <2>1, <2>3
  <2>4. QED
    BY <2>2, <2>3
<1>4. t # 0
  <2>1. jobs \in Seq(JobStatus)
    BY DEF DriverTyped, DriverAppTypeOK
  <2>2. QED
    BY <2>1
<1>5. OneOfHis'
  <2>1. \A u \in DOMAIN jobs' : u \in DOMAIN jobs /\ (jobs'[u] \in His => jobs[u] \in His)
    BY <1>1 DEF His
  <2>2. QED
    BY <2>1 DEF OneOfHis, Steady
<1>6. PagesKnown'
  BY <1>1 DEF Steady, PagesKnown
<1>7. CASE driverLink.state = "up"
  <2>1. mail' # <<>> /\ Head(mail') = [name |-> names[1], trip |-> t]
    BY <1>1, <1>2, <1>3, <1>7, Notified
  <2>2. Missed'
    BY <1>3, <1>4, <2>1 DEF Missed
  <2>3. NotStarted'
    BY <1>1, <1>7 DEF Steady, NotStarted
  <2>4. QED
    BY <1>5, <1>6, <2>2, <2>3 DEF Steady
<1>8. CASE driverLink.state # "up"
  <2>1. view.page \in {"off", "splash"}
    BY <1>8 DEF CancelsRide, ServiceActs, Quiet, Running
  <2>2. view.page = "off"
    BY <1>1, <2>1 DEF Steady, NotStarted, Reading, Asking
  <2>3. mail' = <<>>
    BY <1>1, <1>2, <1>3, <1>8, Notified
  <2>4. NotStarted'
    BY <1>1, <2>2, <2>3 DEF Steady, NotStarted
  <2>5. Told'
    BY <1>1, <2>2, <2>3 DEF Told, MailTold
  <2>6. QED
    BY <1>5, <1>6, <2>4, <2>5 DEF Steady
<1>9. QED
  BY <1>7, <1>8

(* A step that stays on an open page, or opens one, and leaves the service and
   the mail alone. *)
LEMMA PageSteady ==
  ASSUME Steady, UNCHANGED <<jobs, bids, mail>>, view.page' \in {"home", "tab", "ride"}, PagesKnown',
         "home" \in hears' => "home" \in hears \/ mail = <<>>, HisJob' = HisJob => (Told => Told')
  PROVE  Steady'
<1>1. OneOfHis' /\ HisJob' = HisJob
  BY JobsStay DEF Steady
<1>2. NotStarted'
  BY DEF NotStarted
<1>3. Missed => Missed'
  BY DEF Missed
<1>4. QED
  BY <1>1, <1>2, <1>3 DEF Steady

LEMMA SendOfferSteady ==
  ASSUME DriverTyped, Steady, NEW t \in DOMAIN jobs, SendOffer(t)
  PROVE  Steady'
<1>1. UNCHANGED <<jobs, view, held, listed, hears, driverLink, mail, unheard, mishaps>> /\ view.page = "home" /\ mail = <<>>
  BY DEF SendOffer, Quiet
<1>2. PICK ok : asked' = asked \cup Asking("offer", ok, NoJob, {t})
  BY DEF SendOffer
<1>3. OneOfHis' /\ HisJob' = HisJob
  BY <1>1, JobsStay DEF Steady
<1>4. PagesKnown'
  BY <1>1, <1>2 DEF Steady, PagesKnown, Asking
<1>5. NotStarted'
  BY <1>1 DEF NotStarted
<1>6. Told
  BY <1>1 DEF Steady, Missed
<1>7. OnHome'
  BY <1>1, <1>2, <1>3, <1>6 DEF Told, OnHome, Asking
<1>8. MailTold'
  BY <1>1, <1>3, <1>6 DEF Told, MailTold
<1>9. QED
  BY <1>1, <1>3, <1>4, <1>5, <1>7, <1>8 DEF Steady, Told

(* The buttons act on the ride as it stands. *)
LEMMA ButtonsSeeRide ==
  ASSUME DriverTyped, Steady, Button
  PROVE  /\ view.page = "ride" /\ asked = {} /\ mail = <<>> /\ ~held.error /\ held.job # NoJob
         /\ held.job.trip \in DOMAIN jobs /\ jobs[held.job.trip] = held.job.status
         /\ \A u \in DOMAIN jobs : jobs[u] \in His => u = held.job.trip
<1>1. view.page = "ride" /\ asked = {} /\ mail = <<>> /\ ~held.error /\ held.job # NoJob
  BY DEF Button, OnRide, AtRide, Quiet, Steady, PagesKnown
<1>2. held.job = HisJob
  BY <1>1 DEF Steady, Missed, Told, OnRidePage
<1>3. PICK t \in DOMAIN jobs : jobs[t] \in His /\ HisJob = [trip |-> t, status |-> jobs[t]]
  BY <1>1, <1>2, HisJobIs DEF Steady
<1>4. QED
  BY <1>1, <1>2, <1>3 DEF Steady, OneOfHis

(* What follows a button: the ride of trip t is now as s says, and one answer
   is awaited. *)
LEMMA ButtonSteady ==
  ASSUME DriverTyped, Steady, Button, NEW t, t = held.job.trip, NEW s, jobs' = [jobs EXCEPT ![t] = s],
         s \in His \/ s = "over", NEW c, asked' = {c}, UNCHANGED <<view, held, hears>>,
         \/ c.kind = "confirm" /\ s \in His /\ (c.ok => c.got = [trip |-> t, status |-> s])
         \/ c.kind \in {"complete", "cancel"} /\ s = "over" /\ c.ok,
         MailTold' \/ mail' = <<>>
  PROVE  Steady'
<1>1. /\ view.page = "ride" /\ t \in DOMAIN jobs
      /\ \A u \in DOMAIN jobs : jobs[u] \in His => u = t
  BY ButtonsSeeRide
<1>2. DOMAIN jobs' = DOMAIN jobs /\ jobs'[t] = s /\ \A u \in DOMAIN jobs' : jobs'[u] \in His => u = t
  BY <1>1
<1>3. OneOfHis'
  BY <1>2 DEF OneOfHis
<1>4. /\ s \in His => HisJob' = [trip |-> t, status |-> s] /\ HisJob' # NoJob
      /\ s = "over" => HisJob' = NoJob
  <2>1. "over" \notin His
    BY DEF His
  <2>2. QED
    BY <1>1, <1>2, <1>3, <2>1, HisJobWillBe
<1>5. NotStarted' /\ PagesKnown'
  BY <1>1 DEF NotStarted, PagesKnown, Steady
<1>6. OnRidePage'
  <2>1. AnswerStands(c)'
    BY <1>4 DEF AnswerStands
  <2>2. c.kind = "complete" => HisJob' = NoJob
    BY <1>4
  <2>3. c.kind # "provider" /\ c.kind \in {"confirm", "complete", "cancel"}
    OBVIOUS
  <2>4. QED
    BY <2>1, <2>2, <2>3 DEF OnRidePage
<1>7. MailTold'
  BY DEF MailTold
<1>8. QED
  BY <1>1, <1>3, <1>5, <1>6, <1>7 DEF Steady, Told

LEMMA ConfirmPickupSteady ==
  ASSUME DriverTyped, Steady, ConfirmPickup
  PROVE  Steady'
<1> DEFINE t == held.job.trip
<1>1. /\ Button /\ held.job.status \in {"accepted", "arrived"}
      /\ UNCHANGED <<bids, view, held, listed, sent, hears, driverLink, unheard, mishaps>>
  BY DEF ConfirmPickup
<1>2. asked = {} /\ mail = <<>> /\ t \in DOMAIN jobs /\ jobs[t] = held.job.status /\ view.page = "ride"
  BY <1>1, ButtonsSeeRide
<1>3. PICK right \in BOOLEAN :
        LET here == jobs[t] = "arrived" \/ (jobs[t] = "accepted" /\ held.job.status = "accepted")
            to == IF ~here THEN jobs[t] ELSE IF right THEN "riding" ELSE "arrived"
            ok == here /\ right IN
        /\ jobs' = [jobs EXCEPT ![t] = to]
        /\ asked' = asked \cup Asking("confirm", ok, IF ok THEN [trip |-> t, status |-> "riding"] ELSE NoJob, {})
        /\ IF ok /\ driverLink.room = t THEN Notify(<<"started">>, t) ELSE UNCHANGED mail
  BY DEF ConfirmPickup
<1>4. jobs[t] = "arrived" \/ (jobs[t] = "accepted" /\ held.job.status = "accepted")
  BY <1>1, <1>2
<1>5. PICK s : s = IF right THEN "riding" ELSE "arrived"
  OBVIOUS
<1>6. jobs' = [jobs EXCEPT ![t] = s] /\ s \in His
  BY <1>3, <1>4, <1>5 DEF His
<1>7. PICK c : c = [kind |-> "confirm", ok |-> right, got |-> IF right THEN [trip |-> t, status |-> "riding"] ELSE NoJob,
                    trips |-> {}]
  OBVIOUS
<1>8. asked' = {c}
  BY <1>2, <1>3, <1>4, <1>7 DEF Asking
<1>9. (right /\ Notify(<<"started">>, t)) \/ UNCHANGED mail
  BY <1>3
<1>10. c.kind = "confirm" /\ (c.ok => c.got = [trip |-> t, status |-> s])
  BY <1>5, <1>7
<1>11. OneOfHis' /\ HisJob' # NoJob
  <2>1. \A u \in DOMAIN jobs' : jobs'[u] \in His => u = t
    BY <1>1, <1>6, ButtonsSeeRide
  <2>2. OneOfHis'
    BY <2>1 DEF OneOfHis
  <2>3. QED
    BY <1>2, <1>6, <2>2, HisJobWillBe
<1>12. MailTold' \/ mail' = <<>>
  <2>1. CASE right /\ Notify(<<"started">>, t)
    <3>0. <<"started">> \in Seq(Names)
      BY DEF Names
    <3>1. PICK names \in Seq(Names) : names = <<"started">>
      BY <3>0, Zenon
    <3>2. Notify(names, t) /\ Len(names) = 1
      BY <2>1, <3>1
    <3>3. mail' = <<>> \/ DOMAIN mail' = 1..Len(names)
      BY <1>2, <3>2, Notified
    <3>4. QED
      BY <1>1, <1>2, <1>11, <3>2, <3>3 DEF MailTold
  <2>2. QED
    BY <1>2, <1>9, <2>1
<1> HIDE DEF t
<1>13. QED
  BY <1>1, <1>6, <1>8, <1>10, <1>12, ButtonSteady DEF t

LEMMA EndRideSteady ==
  ASSUME DriverTyped, Steady, EndRide \/ CancelRide
  PROVE  Steady'
<1> DEFINE t == held.job.trip
<1>1. Button /\ UNCHANGED <<view, held, hears, mail>>
  BY DEF EndRide, CancelRide
<1>2. asked = {} /\ mail = <<>> /\ jobs[t] = held.job.status
  BY <1>1, ButtonsSeeRide
<1>3. jobs' = [jobs EXCEPT ![t] = "over"]
  BY <1>2 DEF EndRide, CancelRide
<1>4. PICK kind \in {"complete", "cancel"} : asked' = Asking(kind, TRUE, NoJob, {})
  <2>1. CASE EndRide
    BY <1>2, <2>1 DEF EndRide
  <2>2. CASE CancelRide
    BY <1>2, <2>2 DEF CancelRide
  <2>3. QED
    BY <2>1, <2>2
<1>5. PICK c : c = [kind |-> kind, ok |-> TRUE, got |-> NoJob, trips |-> {}]
  OBVIOUS
<1>6. asked' = {c} /\ c.kind \in {"complete", "cancel"} /\ c.ok
  BY <1>4, <1>5 DEF Asking
<1> HIDE DEF t
<1>7. QED
  BY <1>1, <1>2, <1>3, <1>6, ButtonSteady DEF t

LEMMA ChangeTabSteady ==
  ASSUME DriverTyped, Steady, ChangeTab
  PROVE  Steady'
<1>1. mail = <<>> /\ UNCHANGED <<jobs, bids, held, mail, unheard, mishaps>>
  BY DEF ChangeTab, Quiet
<1>2. PagesKnown /\ OneOfHis
  BY DEF Steady
<1>3. PICK page \in {"home", "tab"} :
        /\ view' = [page |-> page, checked |-> FALSE] /\ hears' \subseteq {"home"} /\ ("home" \in hears' => page = "home")
        /\ asked' \subseteq OfProvider \cup Reading("provider") \cup Asking("list", TRUE, NoJob, OpenJobs)
        /\ view.page \in {"home", "tab"}
  <2>1. CASE view.page = "home" /\ Shows("tab") /\ asked' = OfProvider
    BY <2>1 DEF Shows
  <2>2. CASE view.page = "tab" /\ OpenHome(OfProvider)
    BY <2>2 DEF OpenHome, Shows, Built
  <2>3. QED
    BY <2>1, <2>2 DEF ChangeTab
<1>4. PagesKnown'
  <2>1. \A c \in asked' : c.kind \notin {"splash", "cancel"}
    BY <1>3 DEF OfProvider, Reading, Asking
  <2>2. QED
    BY <1>3, <2>1 DEF PagesKnown
<1>5. Told /\ OnHome
  BY <1>1, <1>3 DEF Steady, Missed, Told
<1>6. HisJob = NoJob
  BY <1>1, <1>5 DEF OnHome
<1>7. ASSUME HisJob' = HisJob PROVE Told'
  <2>1. OnHome'
    BY <1>1, <1>3, <1>5, <1>6, <1>7 DEF OnHome, OfProvider, Reading, Asking
  <2>2. MailTold'
    BY <1>1 DEF MailTold
  <2>3. QED
    BY <1>3, <2>1, <2>2 DEF Told
<1>8. QED
  BY <1>1, <1>3, <1>4, <1>7, PageSteady

-----------------------------------------------------------------------------
(* What becomes of the page with an answer. *)
LEMMA ResumeWays ==
  ASSUME DriverTyped, PagesKnown, view.page \in {"home", "tab", "ride"}, NEW job, NEW more, Resume(job, more)
  PROVE  /\ view.page' \in {"home", "tab", "ride"} /\ asked' \subseteq more
         /\ "home" \in hears' => "home" \in hears /\ view.page' = view.page
         /\ hears' \subseteq {"home", "started"}
         /\ view.page' # view.page => \A c \in asked' : c.kind \in {"provider", "confirm", "complete"}
         /\ view.page # "home" \/ job = NoJob => view.page' = view.page /\ asked' = more
<1>1. view \in [page : Pages, checked : BOOLEAN]
  BY DEF DriverTyped, DriverAppTypeOK
<1>2. CASE AtHome /\ ~view.checked /\ job = NoJob
  BY <1>1, <1>2 DEF Resume, PagesKnown
<1>3. CASE AtHome /\ ~view.checked /\ job # NoJob
  <2>1. Shows("ride") /\ asked' = more \cap OfProvider /\ view.page = "home"
    BY <1>3 DEF Resume, AtHome
  <2>2. view' = [page |-> "ride", checked |-> FALSE] /\ hears' = {"started"}
    BY <2>1 DEF Shows
  <2>3. QED
    BY <1>3, <2>1, <2>2 DEF OfProvider
<1>4. CASE ~(AtHome /\ ~view.checked)
  BY <1>4 DEF Resume, Remain, PagesKnown
<1>5. QED
  BY <1>2, <1>3, <1>4

LEMMA OpenHomeWays ==
  ASSUME NEW more, OpenHome(more)
  PROVE  /\ view' = [page |-> "home", checked |-> FALSE]
         /\ hears' \subseteq {"home"} /\ (view.page = "ride" => hears' = {})
         /\ asked' \subseteq more \cup Reading("provider") \cup Asking("list", TRUE, NoJob, OpenJobs)
<1>1. view' = [page |-> "home", checked |-> FALSE] /\ hears' \subseteq {"home"} /\ (view.page = "ride" => hears' = {})
  BY DEF OpenHome, Shows
<1>2. asked' = more \cup Built \cup Asking("list", TRUE, NoJob, OpenJobs)
  BY DEF OpenHome
<1>3. QED
  BY <1>1, <1>2 DEF Built

(* The answer to the splash opens home, or the page of the ride he has. *)
LEMMA SplashSteady ==
  ASSUME DriverTyped, Steady, UNCHANGED <<jobs, bids, mail, unheard, mishaps>>, view.page = "splash",
         NEW c \in asked, SplashAnswer(c)
  PROVE  Steady'
<1>1. mail = <<>> /\ hears = {} /\ held = [read |-> FALSE, job |-> NoJob, error |-> FALSE] /\ asked = Reading("splash")
  BY DEF Steady, NotStarted
<1>2. c.ok = TRUE /\ c.got = HisJob /\ held' = held
  BY <1>1 DEF Reading, Asking, SplashAnswer
<1>3. MailTold'
  BY <1>1 DEF MailTold
<1>4. Reading("provider") = {[kind |-> "provider", ok |-> TRUE, got |-> HisJob, trips |-> {}]}
  BY DEF Reading, Asking
<1>5. CASE HisJob # NoJob
  <2>1. OpenRide({})
    BY <1>2, <1>5 DEF SplashAnswer
  <2>2. view' = [page |-> "ride", checked |-> FALSE] /\ hears' = {}
    BY <2>1 DEF OpenRide, Shows
  <2>3. asked' = Reading("provider")
    BY <1>1, <2>1 DEF OpenRide, Built
  <2>d. PICK d : d = [kind |-> "provider", ok |-> TRUE, got |-> HisJob, trips |-> {}]
    OBVIOUS
  <2>4. asked' = {d} /\ d.kind = "provider" /\ d.ok /\ d.got = HisJob
    BY <1>4, <2>3, <2>d
  <2>5. ASSUME HisJob' = HisJob PROVE OnRidePage'
    BY <2>4, <2>5 DEF OnRidePage, AnswerStands
  <2>6. PagesKnown'
    BY <2>2, <2>4 DEF PagesKnown
  <2>7. HisJob' = HisJob => Told'
    BY <1>3, <2>2, <2>5 DEF Told
  <2>8. QED
    BY <2>2, <2>6, <2>7, PageSteady
<1>6. CASE HisJob = NoJob
  <2>1. OpenHome({})
    BY <1>2, <1>6 DEF SplashAnswer
  <2>2. /\ view' = [page |-> "home", checked |-> FALSE] /\ hears' \subseteq {"home"}
        /\ asked' \subseteq Reading("provider") \cup Asking("list", TRUE, NoJob, OpenJobs)
    BY <2>1, OpenHomeWays
  <2>3. \A d \in asked' : \/ d.kind = "provider" /\ d.ok /\ d.got = NoJob
                          \/ d.kind = "list"
    BY <1>4, <1>6, <2>2 DEF Asking
  <2>4. ASSUME HisJob' = HisJob PROVE OnHome'
    BY <1>1, <1>2, <1>6, <2>3, <2>4 DEF OnHome
  <2>5. PagesKnown'
    BY <2>2, <2>3 DEF PagesKnown
  <2>6. HisJob' = HisJob => Told'
    BY <1>3, <2>2, <2>4 DEF Told
  <2>7. QED
    BY <1>1, <2>2, <2>5, <2>6, PageSteady
<1>7. QED
  BY <1>5, <1>6

(* An answer of the provider's leaves the page, or home resumes the ride. *)
LEMMA HeldSteady ==
  ASSUME DriverTyped, Steady, UNCHANGED <<jobs, bids, mail>>, view.page \in {"home", "tab", "ride"},
         NEW c \in asked, c.kind # "splash", c.kind # "cancel",
         NEW job, Resume(job, asked \ {c}) \/ Remain(asked \ {c}),
         Told /\ view.page # "ride" => job = NoJob /\ held'.job = NoJob /\ ~held'.error,
         Told /\ view.page = "ride" => held'.error \/ held'.job = HisJob
  PROVE  Steady'
<1>1. /\ view.page' \in {"home", "tab", "ride"} /\ asked' \subseteq asked \ {c}
      /\ "home" \in hears' => "home" \in hears /\ view.page' = view.page
      /\ hears' \subseteq {"home", "started"}
      /\ view.page' # view.page => \A d \in asked' : d.kind \in {"provider", "confirm", "complete"}
      /\ view.page # "home" \/ job = NoJob => view.page' = view.page /\ asked' = asked \ {c}
  <2>1. PagesKnown
    BY DEF Steady
  <2>2. CASE Resume(job, asked \ {c})
    BY <2>1, <2>2, ResumeWays
  <2>3. CASE Remain(asked \ {c})
    BY <2>1, <2>3 DEF Remain, PagesKnown
  <2>4. QED
    BY <2>2, <2>3
<1>2. PagesKnown'
  BY <1>1 DEF Steady, PagesKnown
<1>3. ASSUME Told, HisJob' = HisJob PROVE Told'
  <2>1. view.page' = view.page /\ asked' = asked \ {c}
    BY <1>1, <1>3
  <2>2. MailTold'
    BY <1>3, <2>1 DEF Told, MailTold
  <2>3. CASE view.page # "ride"
    <3>1. OnHome
      BY <1>3, <2>3 DEF Told
    <3>2. OnHome'
      BY <1>3, <2>1, <2>3, <3>1 DEF OnHome
    <3>3. QED
      BY <2>1, <2>2, <2>3, <3>2 DEF Told
  <2>4. CASE view.page = "ride"
    <3>1. OnRidePage
      BY <1>3, <2>4 DEF Told
    <3>2. held'.error \/ held'.job = HisJob'
      BY <1>3, <2>4
    <3>3. \A d \in asked : AnswerStands(d) => AnswerStands(d)'
      BY <1>3 DEF AnswerStands
    <3>4. OnRidePage'
      BY <1>3, <2>1, <3>1, <3>2, <3>3 DEF OnRidePage
    <3>5. QED
      BY <2>1, <2>2, <2>4, <3>4 DEF Told
  <2>5. QED
    BY <2>3, <2>4
<1>4. QED
  BY <1>1, <1>2, <1>3, PageSteady

LEMMA HoldsJob ==
  ASSUME NEW job, Holds(job)
  PROVE  held'.job = job /\ ~held'.error
BY DEF Holds

(* Going home from the page of a ride that is over. *)
LEMMA GoHomeSteady ==
  ASSUME DriverTyped, Steady, UNCHANGED <<jobs, bids, mail>>, view.page = "ride",
         NEW c \in asked, GoHome(asked \ {c}),
         Told /\ HisJob' = HisJob => c.kind = "cancel" /\ held'.job = NoJob /\ ~held'.error
  PROVE  Steady'
<1>1. OpenHome((asked \ {c}) \cap OfProvider)
  BY DEF GoHome
<1>2. /\ view' = [page |-> "home", checked |-> FALSE] /\ hears' = {}
      /\ asked' \subseteq ((asked \ {c}) \cap OfProvider) \cup Reading("provider") \cup Asking("list", TRUE, NoJob, OpenJobs)
  BY <1>1, OpenHomeWays
<1>3. \A d \in asked' : \/ d \in asked /\ d.kind \in {"provider", "confirm", "complete"}
                        \/ d.kind = "provider" /\ d.ok /\ d.got = HisJob
                        \/ d.kind = "list"
  BY <1>2 DEF OfProvider, Reading, Asking
<1>4. PagesKnown'
  BY <1>2, <1>3 DEF PagesKnown
<1>5. ASSUME Told, HisJob' = HisJob PROVE Told'
  <2>1. OnRidePage /\ MailTold
    BY <1>5 DEF Told
  <2>2. HisJob = NoJob
    BY <1>5, <2>1 DEF OnRidePage, AnswerStands
  <2>3. \A d \in asked' : \/ d.kind = "provider" /\ d.ok /\ d.got = NoJob
                          \/ d.kind = "complete" /\ d.ok
                          \/ d.kind = "list"
    BY <1>3, <2>1, <2>2 DEF OnRidePage, AnswerStands
  <2>4. OnHome'
    BY <1>5, <2>2, <2>3 DEF OnHome
  <2>5. MailTold'
    BY <1>5, <2>1, <2>2 DEF MailTold
  <2>6. QED
    BY <1>2, <2>4, <2>5 DEF Told
<1>6. QED
  BY <1>2, <1>4, <1>5, PageSteady

(* An offer or a list that is answered says nothing of his ride. *)
LEMMA ListSteady ==
  ASSUME DriverTyped, Steady, UNCHANGED <<jobs, bids, mail, view, held, hears>>, view.page \in {"home", "tab", "ride"},
         NEW c \in asked, c.kind \in {"offer", "list"}, asked' = asked \ {c}
  PROVE  Steady'
<1>1. PagesKnown'
  BY DEF Steady, PagesKnown
<1>2. ASSUME Told, HisJob' = HisJob PROVE Told'
  <2>1. MailTold'
    BY <1>2 DEF Told, MailTold
  <2>2. OnHome => OnHome'
    BY <1>2 DEF OnHome
  <2>3. \A d \in asked : AnswerStands(d) => AnswerStands(d)'
    BY <1>2 DEF AnswerStands
  <2>4. OnRidePage => OnRidePage'
    BY <1>2, <2>3 DEF OnRidePage
  <2>5. QED
    BY <1>2, <2>1, <2>2, <2>4 DEF Told
<1>3. QED
  BY <1>1, <1>2, PageSteady

LEMMA DriverAnswersSteady ==
  ASSUME DriverTyped, Steady, NEW c \in asked, DriverAnswers(c)
  PROVE  Steady'
<1>1. UNCHANGED <<jobs, bids, mail, unheard, mishaps>>
  BY DEF DriverAnswers
<1>2. PagesKnown /\ view.page # "off" /\ (c.kind = "splash" <=> view.page = "splash")
  BY DEF Steady, PagesKnown, NotStarted, Reading, Asking
<1>3. c.kind \in {"splash", "provider", "refetch", "confirm", "complete", "cancel", "offer", "list"}
  BY DEF DriverTyped, DriverAppTypeOK, DriverCall, Gets
<1>4. CASE c.kind = "splash"
  BY <1>1, <1>2, <1>4, SplashSteady DEF DriverAnswers
<1> SUFFICES ASSUME c.kind # "splash" PROVE Steady'
  BY <1>4
<1>5. view.page \in {"home", "tab", "ride"}
  BY <1>2 DEF PagesKnown
<1>6. /\ Told /\ view.page # "ride" => OnHome
      /\ Told /\ view.page = "ride" => OnRidePage
  BY <1>5 DEF Told
<1>7. CASE c.kind = "provider"
  <2>1. Holds(c.got) /\ Resume(c.got, asked \ {c})
    BY <1>7 DEF DriverAnswers, HeldAnswer
  <2>2. Told => /\ view.page # "ride" => c.got = NoJob
                /\ view.page = "ride" => c.got = HisJob
    BY <1>6, <1>7 DEF OnHome, OnRidePage
  <2>3. QED
    BY <1>1, <1>5, <1>7, <2>1, <2>2, HoldsJob, HeldSteady
<1>8. CASE c.kind \in {"refetch", "confirm"}
  <2>1. Told => view.page = "ride" /\ AnswerStands(c)
    BY <1>6, <1>8 DEF OnHome, OnRidePage
  <2>2. CASE c.kind = "refetch"
    <3>1. RefetchAnswer(c) /\ Remain(asked \ {c})
      BY <2>2 DEF DriverAnswers, RefetchAnswer
    <3>2. Told => held'.job = HisJob
      BY <2>1, <2>2, <3>1, HoldsJob DEF RefetchAnswer, AnswerStands
    <3>3. QED
      BY <1>1, <1>5, <2>1, <2>2, <3>1, <3>2, HeldSteady
  <2>3. CASE c.kind = "confirm" /\ c.ok
    <3>1. Holds(c.got) /\ Resume(c.got, asked \ {c})
      BY <2>3 DEF DriverAnswers, PickupAnswer
    <3>2. Told => held'.job = HisJob
      BY <2>1, <2>3, <3>1, HoldsJob DEF AnswerStands
    <3>3. QED
      BY <1>1, <1>5, <2>1, <2>3, <3>1, <3>2, HeldSteady
  <2>4. CASE c.kind = "confirm" /\ ~c.ok
    <3>1. held' = [held EXCEPT !.error = TRUE] /\ Resume(held.job, asked \ {c})
      BY <2>4 DEF DriverAnswers, PickupAnswer
    <3>2. held'.error
      BY <3>1 DEF DriverTyped, DriverAppTypeOK
    <3>3. QED
      BY <1>1, <1>5, <2>1, <2>4, <3>1, <3>2, HeldSteady
  <2>5. QED
    BY <1>8, <2>2, <2>3, <2>4
<1>9. CASE c.kind = "complete"
  <2>1. CASE c.ok
    <3>1. Holds(NoJob) /\ Resume(NoJob, asked \ {c})
      BY <1>9, <2>1 DEF DriverAnswers, CompleteAnswer
    <3>2. Told /\ view.page = "ride" => HisJob = NoJob
      BY <1>6, <1>9 DEF OnRidePage
    <3>3. QED
      BY <1>1, <1>5, <1>9, <3>1, <3>2, HoldsJob, HeldSteady
  <2>2. CASE ~c.ok
    <3>1. ~Told
      BY <1>6, <1>9, <2>2 DEF OnHome, OnRidePage, AnswerStands
    <3>2. CASE AtRide
      <4>1. GoHome(asked \ {c}) /\ view.page = "ride"
        BY <1>2, <1>9, <2>2, <3>2 DEF DriverAnswers, CompleteAnswer, AtRide, PagesKnown
      <4>2. QED
        BY <1>1, <3>1, <4>1, GoHomeSteady
    <3>3. CASE ~AtRide
      <4>1. Remain(asked \ {c})
        BY <1>9, <2>2, <3>3 DEF DriverAnswers, CompleteAnswer
      <4>2. QED
        BY <1>1, <1>5, <1>9, <3>1, <4>1, HeldSteady
    <3>4. QED
      BY <3>2, <3>3
  <2>3. QED
    BY <2>1, <2>2
<1>10. CASE c.kind = "cancel"
  <2>1. view.page = "ride"
    BY <1>10 DEF Steady, PagesKnown
  <2>2. Told => c.ok
    BY <1>6, <1>10, <2>1 DEF OnRidePage, AnswerStands
  <2>3. CASE c.ok
    <3>1. Holds(NoJob) /\ GoHome(asked \ {c})
      BY <1>10, <2>3 DEF DriverAnswers, DriverCancelAnswer
    <3>2. QED
      BY <1>1, <1>10, <2>1, <3>1, HoldsJob, GoHomeSteady
  <2>4. CASE ~c.ok
    <3>1. Remain(asked \ {c}) /\ ~Told
      BY <1>10, <2>2, <2>4 DEF DriverAnswers, DriverCancelAnswer
    <3>2. PagesKnown'
      BY <3>1 DEF Remain, Steady, PagesKnown
    <3>3. view' = view /\ hears' = hears
      BY <3>1 DEF Remain
    <3>4. QED
      BY <1>1, <1>5, <3>1, <3>2, <3>3, PageSteady
  <2>5. QED
    BY <2>3, <2>4
<1>11. CASE c.kind \in {"offer", "list"}
  <2>1. asked' = asked \ {c} /\ UNCHANGED <<view, held, hears>>
    BY <1>11 DEF DriverAnswers, OfferAnswer, ListAnswer
  <2>2. QED
    BY <1>1, <1>5, <1>11, <2>1, ListSteady
<1>12. QED
  BY <1>3, <1>7, <1>8, <1>9, <1>10, <1>11

-----------------------------------------------------------------------------
(* An event that is heard opens the ride, reads it again or says nothing of it;
   the others of its step only say that the trip is taken. *)
LEMMA MailArrivesSteady ==
  ASSUME DriverTyped, Steady, MailArrives, ~unheard'
  PROVE  Steady'
<1> DEFINE e == Head(mail)
<1>1. /\ mail # <<>> /\ mail' = Tail(mail) /\ UNCHANGED <<jobs, bids, mishaps>>
      /\ CASE IsForRide(e) -> RideGets(e)
           [] ~IsForRide(e) /\ AtHome -> HomeGets(e)
           [] OTHER -> Remain(asked) /\ UNCHANGED held
      /\ ~(e.name = "accepted" /\ "home" \notin hears)
      /\ ~(e.name = "cancelled" /\ "ride" \notin hears /\ e.trip # 0)
  BY DEF MailArrives
<1>2. PagesKnown /\ view.page \in {"home", "tab", "ride"}
  BY <1>1 DEF Steady, PagesKnown, NotStarted
<1>3. "ride" \notin hears
  BY <1>2 DEF PagesKnown
<1>4. Told
  BY <1>1, <1>3 DEF Steady, Missed
<1>5. OneOfHis' /\ HisJob' = HisJob
  BY <1>1, JobsStay DEF Steady
<1>6. /\ mail' # <<>> => Head(mail').name = "taken"
      /\ \A i \in DOMAIN mail' : mail'[i].name = "taken"
  <2>1. PICK box : box = mail
    OBVIOUS
  <2>2. box \in Seq(Mail) /\ box # <<>> /\ \A i \in DOMAIN box : i > 1 => box[i].name = "taken"
    BY <1>1, <1>4, <2>1 DEF DriverTyped, DriverAppTypeOK, Told, MailTold, Mail, Names
  <2>3. \A i \in DOMAIN Tail(box) : i + 1 \in DOMAIN box /\ i + 1 > 1 /\ Tail(box)[i] = box[i + 1]
    BY <2>2
  <2>4. Tail(box) # <<>> => 1 \in DOMAIN Tail(box) /\ Head(Tail(box)) = Tail(box)[1]
    BY <2>2
  <2>5. QED
    BY <1>1, <2>1, <2>2, <2>3, <2>4
<1>7. MailTold'
  BY <1>6 DEF MailTold
<1>8. Reading("provider") = {[kind |-> "provider", ok |-> TRUE, got |-> HisJob, trips |-> {}]}
  BY DEF Reading, Asking
<1>9. NotStarted' /\ PagesKnown' /\ (view.page' \in {"home", "tab"} => OnHome') /\ (view.page' = "ride" => OnRidePage')
  <2>1. CASE view.page = "home"
    <3>1. OnHome /\ HomeGets(e)
      BY <1>1, <1>4, <2>1 DEF Told, IsForRide, AtHome
    <3>2. CASE e.name = "accepted" /\ "home" \in hears
      <4>1. OpenRide(Reading("provider")) /\ held' = held
        BY <3>1, <3>2 DEF HomeGets
      <4>2. view' = [page |-> "ride", checked |-> FALSE] /\ hears' = {"started"}
        BY <2>1, <4>1 DEF OpenRide, Shows
      <4>3. asked' = Reading("provider")
        BY <4>1 DEF OpenRide, Built
      <4>d. PICK d : d = [kind |-> "provider", ok |-> TRUE, got |-> HisJob, trips |-> {}]
        OBVIOUS
      <4>4. asked' = {d} /\ d.kind = "provider" /\ d.ok /\ d.got = HisJob
        BY <1>8, <4>3, <4>d
      <4>5. OnRidePage'
        BY <1>5, <4>4 DEF OnRidePage, AnswerStands
      <4>6. NotStarted' /\ PagesKnown'
        BY <4>2, <4>4 DEF NotStarted, PagesKnown
      <4>7. QED
        BY <4>2, <4>5, <4>6
    <3>3. CASE ~(e.name = "accepted" /\ "home" \in hears)
      <4>1. UNCHANGED <<view, held, hears, asked>>
        BY <1>3, <3>1, <3>3 DEF HomeGets, Remain
      <4>2. HisJob = NoJob
        BY <1>1, <3>1, <3>3 DEF OnHome
      <4>3. OnHome'
        BY <1>5, <3>1, <4>1, <4>2 DEF OnHome
      <4>4. NotStarted' /\ PagesKnown'
        BY <1>2, <4>1 DEF NotStarted, PagesKnown
      <4>5. QED
        BY <2>1, <4>1, <4>3, <4>4
    <3>4. QED
      BY <3>2, <3>3
  <2>2. CASE view.page = "tab"
    <3>1. OnHome /\ UNCHANGED <<view, held, hears, asked>>
      BY <1>1, <1>4, <2>2 DEF Told, IsForRide, AtHome, Remain
    <3>2. HisJob = NoJob
      BY <1>1, <1>2, <2>2, <3>1 DEF OnHome, PagesKnown
    <3>3. OnHome'
      BY <1>5, <3>1, <3>2 DEF OnHome
    <3>4. NotStarted' /\ PagesKnown'
      BY <1>2, <3>1 DEF NotStarted, PagesKnown
    <3>5. QED
      BY <2>2, <3>1, <3>3, <3>4
  <2>3. CASE view.page = "ride"
    <3>1. OnRidePage /\ MailTold /\ RideGets(e)
      BY <1>1, <1>4, <2>3 DEF Told, IsForRide
    <3>2. /\ UNCHANGED <<view, held, hears>>
          /\ asked' = asked \/ (e.name = "started" /\ asked' = asked \cup Reading("refetch"))
      BY <1>3, <3>1 DEF RideGets, Remain
    <3>3. \A d \in asked' : \/ d \in asked
                            \/ d.kind = "refetch" /\ d.ok /\ d.got = HisJob /\ HisJob # NoJob
      BY <1>1, <3>1, <3>2 DEF Reading, Asking, MailTold
    <3>4. \A d \in asked : AnswerStands(d) => AnswerStands(d)'
      BY <1>5 DEF AnswerStands
    <3>5. \A d \in asked' : /\ AnswerStands(d)' /\ (d.kind = "provider" => d.got = HisJob')
                            /\ d.kind = "complete" => HisJob' = NoJob
      BY <1>5, <3>1, <3>3, <3>4 DEF OnRidePage, AnswerStands
    <3>6. OnRidePage'
      BY <1>5, <3>1, <3>2, <3>5 DEF OnRidePage
    <3>7. \A d \in asked' : d.kind # "splash"
      BY <1>2, <2>3, <3>3 DEF PagesKnown
    <3>8. NotStarted' /\ PagesKnown'
      BY <1>2, <2>3, <3>2, <3>7 DEF NotStarted, PagesKnown
    <3>9. QED
      BY <2>3, <3>2, <3>6, <3>8
  <2>4. QED
    BY <1>2, <2>1, <2>2, <2>3
<1>10. QED
  BY <1>5, <1>7, <1>9 DEF Steady, Told

(* The socket says nothing of the ride by itself. *)
LEMMA SocketSteady ==
  ASSUME Steady, UNCHANGED <<jobs, bids, view, held, hears, asked, mail>>,
         view.page \in {"off", "splash"} => driverLink'.state = driverLink.state
  PROVE  Steady'
<1>1. OneOfHis' /\ HisJob' = HisJob
  BY JobsStay DEF Steady
<1>2. Reading("splash")' = Reading("splash")
  BY <1>1 DEF Reading
<1>3. NotStarted'
  BY <1>2 DEF Steady, NotStarted
<1>4. PagesKnown' /\ (Missed => Missed') /\ (OnHome => OnHome') /\ (MailTold => MailTold')
  BY <1>1 DEF Steady, PagesKnown, Missed, OnHome, MailTold
<1>5. Told => Told'
  BY <1>1, <1>4, AnswersKept DEF Told
<1>6. QED
  BY <1>1, <1>3, <1>4, <1>5 DEF Steady

LEMMA AppStartsSteady ==
  ASSUME Steady, AppStarts
  PROVE  Steady'
<1>1. /\ view.page = "off" /\ view' = [page |-> "splash", checked |-> FALSE] /\ asked' = Reading("splash")
      /\ UNCHANGED <<jobs, bids, held, listed, sent, hears, driverLink, mail, unheard, mishaps>>
  BY DEF AppStarts
<1>2. OneOfHis' /\ HisJob' = HisJob
  BY <1>1, JobsStay DEF Steady
<1>3. Reading("splash")' = Reading("splash")
  BY <1>2 DEF Reading
<1>4. NotStarted' /\ mail = <<>>
  BY <1>1, <1>3 DEF Steady, NotStarted
<1>5. PagesKnown'
  BY <1>1 DEF Steady, PagesKnown, Reading, Asking
<1>6. Told'
  BY <1>1, <1>4 DEF Told, MailTold
<1>7. QED
  BY <1>2, <1>4, <1>5, <1>6 DEF Steady

(* The service's steps that are not about his ride. *)
LEMMA ServiceSteady ==
  ASSUME DriverTyped, Steady, mishaps = 0,
         \/ Announce \/ ColleaguesRideCancelled
         \/ \E t \in DOMAIN jobs : AnnounceAgain(t) \/ SearchEnds(t)
  PROVE  Steady'
<1>1. jobs \in Seq(JobStatus)
  BY DEF DriverTyped, DriverAppTypeOK
<1>2. "requested" \notin His /\ "over" \notin His
  BY DEF His
<1>3. ASSUME UNCHANGED jobs PROVE OneOfHis' /\ HisJob' = HisJob
  BY <1>3, JobsStay DEF Steady
<1>4. CASE Announce
  <2>1. ServiceActs /\ jobs' = Append(jobs, "requested") /\ Notify(<<"new">>, Len(jobs) + 1) /\ bids' = bids
    BY <1>4 DEF Announce
  <2>2. /\ DOMAIN jobs' = 1..(Len(jobs) + 1) /\ jobs'[Len(jobs) + 1] = "requested"
        /\ \A u \in DOMAIN jobs : u \in DOMAIN jobs' /\ jobs'[u] = jobs[u]
        /\ \A u \in DOMAIN jobs' : u \in DOMAIN jobs \/ u = Len(jobs) + 1
    BY <1>1, <2>1
  <2>3. OneOfHis' /\ HisJob' = HisJob
    BY <1>2, <2>2, HisJobKept DEF Steady
  <2>4. QED
    BY <2>1, <2>3, ServiceLeavesHim
<1>5. CASE ColleaguesRideCancelled
  BY <1>3, <1>5, ServiceLeavesHim DEF ColleaguesRideCancelled
<1>6. ASSUME NEW t \in DOMAIN jobs, AnnounceAgain(t) PROVE Steady'
  BY <1>3, <1>6, ServiceLeavesHim DEF AnnounceAgain
<1>7. ASSUME NEW t \in DOMAIN jobs, SearchEnds(t) PROVE Steady'
  <2>1. ServiceActs /\ jobs[t] = "requested" /\ jobs' = [jobs EXCEPT ![t] = "over"] /\ bids' = bids \ {t}
    BY <1>7 DEF SearchEnds
  <2>2. OneOfHis' /\ HisJob' = HisJob
    BY <1>2, <2>1, HisJobKept DEF Steady
  <2>3. PICK names \in {<<>>, <<"taken">>, <<"rejected", "taken">>} : Notify(names, t)
    BY <1>7 DEF SearchEnds
  <2>4. names # <<"cancelled">>
    BY <2>3
  <2>5. QED
    BY <2>1, <2>2, <2>3, <2>4, ServiceLeavesHim
<1>8. QED
  BY <1>4, <1>5, <1>6, <1>7

LEMMA DriverNextInv == DriverInv /\ [DriverAppNext]_driverAppVars => DriverInv'
<1> SUFFICES ASSUME DriverInv, [DriverAppNext]_driverAppVars, mishaps' = 0, ~unheard' PROVE Steady'
  BY DriverNextTyped DEF DriverInv
<1>1. DriverTyped
  BY DEF DriverInv
<1>2. mishaps \in Nat /\ unheard \in BOOLEAN
  BY <1>1 DEF DriverTyped, DriverAppTypeOK
<1>3. ASSUME mishaps' = mishaps + 1 PROVE FALSE
  BY <1>2, <1>3
<1>4. ~TapOnNotification /\ ~WireDrops /\ ~AppEnds /\ \A c \in asked : ~DriverAnswerLost(c)
  BY <1>3 DEF TapOnNotification, WireDrops, AppEnds, DriverAnswerLost
<1>5. mishaps = 0 /\ ~unheard
  <2>1. ASSUME NEW t \in DOMAIN jobs,
               AnnounceAgain(t) \/ SearchEnds(t) \/ ChoosesHim(t) \/ CancelsRide(t) \/ SendOffer(t)
        PROVE  mishaps' = mishaps /\ unheard' = unheard
    BY <2>1 DEF AnnounceAgain, SearchEnds, ChoosesHim, CancelsRide, SendOffer, ServiceActs
  <2>2. ASSUME Announce \/ ColleaguesRideCancelled \/ ConfirmPickup \/ EndRide \/ CancelRide \/ ChangeTab
               \/ RideOnHome \/ BackFromRide \/ SignsIn
        PROVE  mishaps' = mishaps /\ unheard' = unheard
    BY <2>2 DEF Announce, ColleaguesRideCancelled, ConfirmPickup, EndRide, CancelRide, ChangeTab,
                RideOnHome, BackFromRide, SignsIn, ServiceActs
  <2>3. ASSUME NEW c \in asked, DriverAnswers(c) PROVE mishaps' = mishaps /\ unheard' = unheard
    BY <2>3 DEF DriverAnswers
  <2>4. ASSUME MailArrives PROVE mishaps' = mishaps /\ (unheard => unheard')
    BY <2>4 DEF MailArrives
  <2>5. ASSUME Dials \/ JoinsRooms \/ StaysUp \/ DialFails \/ AppStarts \/ UNCHANGED driverAppVars
        PROVE  mishaps' = mishaps /\ unheard' = unheard
    BY <2>5 DEF Dials, JoinsRooms, StaysUp, DialFails, AppStarts, SocketOnly, driverAppVars
  <2>6. QED
    BY <1>4, <2>1, <2>2, <2>3, <2>4, <2>5 DEF DriverAppNext
<1>6. Steady
  BY <1>5 DEF DriverInv
<1>7. PagesKnown /\ NotStarted
  BY <1>6 DEF Steady
<1>8. ~DialFails /\ ~BackFromRide /\ ~SignsIn
  BY <1>5, <1>7 DEF DialFails, BackFromRide, SignsIn, PagesKnown
<1>9. ~RideOnHome
  <2>1. ASSUME RideOnHome PROVE FALSE
    <3>1. view.page = "home" /\ mail = <<>> /\ held.job # NoJob
      BY <2>1 DEF RideOnHome, Quiet
    <3>2. OnHome
      BY <1>6, <3>1 DEF Steady, Missed, Told
    <3>3. QED
      BY <3>1, <3>2 DEF OnHome
  <2>2. QED
    BY <2>1
<1>10. ASSUME Dials \/ JoinsRooms \/ StaysUp PROVE Steady'
  <2>1. view.page \notin {"off", "splash"}
    BY <1>7, <1>10 DEF Dials, JoinsRooms, StaysUp, NotStarted
  <2>2. UNCHANGED <<jobs, bids, view, held, hears, asked, mail>>
    BY <1>10 DEF Dials, JoinsRooms, StaysUp, SocketOnly
  <2>3. QED
    BY <1>6, <2>1, <2>2, SocketSteady
<1>11. ASSUME UNCHANGED driverAppVars PROVE Steady'
  BY <1>6, <1>11, SocketSteady DEF driverAppVars
<1>12. QED
  BY <1>1, <1>4, <1>5, <1>6, <1>8, <1>9, <1>10, <1>11, ServiceSteady, ChoosesHimSteady, CancelsRideSteady,
     SendOfferSteady, ConfirmPickupSteady, EndRideSteady, ChangeTabSteady, DriverAnswersSteady,
     MailArrivesSteady, AppStartsSteady DEF DriverAppNext

(* However answers, events and taps interleave, unless an event of his ride
   found no listener: once nothing is in flight, a driver with a ride is on its
   page, and the page shows the ride as it stands or the refusal of the code. *)
THEOREM DriverSeesHisRide == DriverAppSpec => []DriverSeesRide
<1>1. DriverInv => DriverSeesRide
  <2> SUFFICES ASSUME DriverInv, mishaps = 0, ~unheard, DriverSettled
               PROVE  /\ HisJob # NoJob => view.page = "ride"
                      /\ view.page = "ride" /\ ~held.error => held.job = HisJob
    BY DEF DriverSeesRide
  <2>1. mail = <<>> /\ asked = {} /\ view.page # "off"
    BY DEF DriverSettled, Quiet, Running
  <2>2. NotStarted /\ PagesKnown /\ Told
    BY <2>1 DEF DriverInv, Steady, Missed
  <2>3. view.page # "splash"
    BY <2>1, <2>2 DEF NotStarted, Reading, Asking
  <2>4. QED
    BY <2>1, <2>2, <2>3 DEF PagesKnown, Told, OnHome, OnRidePage
<1>2. QED
  BY <1>1, DriverInitInv, DriverNextInv, PTL DEF DriverAppSpec
=============================================================================
