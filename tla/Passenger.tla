------------------------------- MODULE Passenger -------------------------------
(***************************************************************************)
(* The passenger's app (src/mobile/clientes/lib): which page it is on and  *)
(* what it knows of the passenger's trip, while answers, socket events,    *)
(* the life of the process and the taps of the passenger interleave        *)
(* (auth_gate_page, home_page, confirm_trip_page, searching_page,          *)
(* active_trip_page, active_trip_provider, main, socket_client).           *)
(*                                                                         *)
(* Of the service only what it tells the app is kept: the status of each   *)
(* trip, the answers to requests, and the events it sends to the rooms of  *)
(* the user and of the trip.  A request is read by the service as it is    *)
(* sent and answered later.  People are slower than the socket: nobody     *)
(* taps or drives on while an event or a subscription is on its way.       *)
(***************************************************************************)
EXTENDS Naturals, Sequences

CONSTANTS
  MaxRides,      \* bound: trips requested
  MaxTroubles,   \* bound: drops of the socket, ends of the process, taps on
                 \* notifications and requests that fail
  MayFail        \* kinds of request that may fail

ASSUME PassengerAssumption == MaxRides \in Nat /\ MaxTroubles \in Nat

VARIABLES
  orders,    \* the status of each trip of the passenger, in order of creation
  screen,    \* the page, its trip, the _trip it shows, home's _resumeChecked
  cached,    \* the last value of activeTripProvider, which main.dart keeps alive
  heard,     \* home's listeners of trip.cancelled and trip.completed are there
  calls,     \* requests in flight with their answers
  line,      \* the socket: its state, the trip whose room it is in, and the one
             \* whose room it asks for (0: none)
  inbox,     \* events on their way to the app
  process,   \* the process: "dead", "front" or "back"
  troubles   \* how many there have been

passengerVars == <<orders, screen, cached, heard, calls, line, inbox, process, troubles>>

Ids == 1..MaxRides
Waiting == "requested"
WithDriver == {"accepted", "arrived", "riding"}
Unfinished == {Waiting} \cup WithDriver
\* A trip as the app knows it; the code is there until the ride starts.
Known == [trip : 0..MaxRides, status : {"none"} \cup Unfinished, code : BOOLEAN]
Nothing == [trip |-> 0, status |-> "none", code |-> FALSE]
Read(t) == [trip |-> t, status |-> orders[t], code |-> orders[t] \in {"accepted", "arrived"}]
Page == {"gate", "home", "searching", "noDrivers", "ride", "pay"}
Asks == {"gate", "provider", "load", "resync"}   \* GET /trips/me/active
Sends == {"create", "retry", "select", "cancel", "cancelPanel"}
Answer == [kind : Asks \cup Sends, trip : 0..MaxRides, reply : {"ok", "refused", "lost"}, got : Known]
Event == [name : {"accepted", "arrived", "started", "completed", "cancelled", "expired"}, trip : Ids]

Over(t) == orders[t] \in {"completed", "cancelled"}
\* getActiveTrip: null, or the one trip that is not over.
ActiveTrip == IF \E t \in DOMAIN orders : orders[t] \in Unfinished
              THEN Read(CHOOSE t \in DOMAIN orders : orders[t] \in Unfinished) ELSE Nothing

\* Nothing on its way, and the socket joined unless it has dropped.
Calm ==
  /\ inbox = <<>>
  /\ line.state # "joining" /\ (line.state = "up" => line.asks = 0)
  /\ line.state = "down" => troubles > 0

PassengerInit ==
  /\ orders = <<>>
  /\ screen = [page |-> "gate", trip |-> 0, shown |-> Nothing, checked |-> FALSE]
  /\ cached = Nothing
  /\ heard = FALSE
  /\ calls = {}
  /\ line = [state |-> "off", room |-> 0, asks |-> 0]
  /\ inbox = <<>>
  /\ process = "dead"
  /\ troubles = 0

-----------------------------------------------------------------------------
(* Requests *)

AsksFor(kind) == {[kind |-> kind, trip |-> screen.trip, reply |-> "ok", got |-> ActiveTrip]}
Post(kind, t, reply, got) == calls' = calls \cup {[kind |-> kind, trip |-> t, reply |-> reply, got |-> got]}
\* A page that is left drops what comes for it; the provider has no page.
Provider == {c \in calls : c.kind = "provider"}
Refetch == {[kind |-> "provider", trip |-> 0, reply |-> "ok", got |-> ActiveTrip]}

-----------------------------------------------------------------------------
(* Pages.  Each way into one leaves the page before it. *)

\* connect: the first page that needs the socket creates it.  Leaving a ride
\* leaves its room.
Socket(asks) ==
  line' = [state |-> IF line.state = "off" THEN "down" ELSE line.state,
           room |-> IF asks # 0 /\ line.room = asks THEN asks ELSE 0, asks |-> asks]

(* The page of a ride, left for home, is disposed after home has registered
   its listeners, and removes them with its own. *)
EnterHome(more) ==
  /\ screen' = [page |-> "home", trip |-> 0, shown |-> Nothing, checked |-> FALSE]
  /\ heard' = (screen.page # "ride")
  /\ calls' = more
  /\ Socket(0)

EnterSearching(seen, more) ==
  /\ screen' = [page |-> "searching", trip |-> seen.trip, shown |-> seen, checked |-> FALSE]
  /\ calls' = more
  /\ Socket(0)
  /\ UNCHANGED heard

(* _loadTrip: what the provider has, else a request of its own. *)
EnterRide(t, known, more) ==
  /\ screen' = [page |-> "ride", trip |-> t, shown |-> known, checked |-> FALSE]
  /\ calls' = more \cup IF known = Nothing THEN AsksFor("load") ELSE {}
  /\ Socket(t)
  /\ UNCHANGED heard

Stay(more) == calls' = more /\ UNCHANGED <<screen, heard, line>>

(* ref.invalidate(activeTripProvider).  Home hears that the provider loads
   again, with the value it had. *)
Invalidate(more) ==
  IF screen.page = "home" /\ ~screen.checked /\ cached.status \in WithDriver
  THEN EnterRide(cached.trip, cached, Refetch)
  ELSE /\ calls' = (more \ Provider) \cup Refetch
       /\ screen' = IF screen.page = "home" /\ cached = Nothing
                    THEN [screen EXCEPT !.checked = TRUE] ELSE screen
       /\ UNCHANGED <<heard, line>>

-----------------------------------------------------------------------------
(* The service *)

\* Which rooms hear of an event: the start and the end of a ride go to the
\* trip's room only, the driver found to the user's, the others to both.
Push(name, t) ==
  LET copy(goes) == IF line.state = "up" /\ goes THEN <<[name |-> name, trip |-> t]>> ELSE <<>> IN
  inbox' = inbox \o copy(name \notin {"started", "completed"})
                 \o copy(name # "accepted" /\ line.room = t)

Becomes(t, from, to, event) ==
  /\ orders[t] \in from
  /\ orders' = [orders EXCEPT ![t] = to]
  /\ Push(event, t)

ServiceOnly == UNCHANGED <<screen, cached, heard, calls, line, process, troubles>>

\* Nobody else ends a trip before the app knows that it was created.
Announced == \A c \in calls : c.kind \notin {"create", "retry"}

SearchExpires(t) == Announced /\ Becomes(t, {Waiting}, "cancelled", "expired") /\ ServiceOnly
DriverComes(t) == Calm /\ Becomes(t, {"accepted"}, "arrived", "arrived") /\ ServiceOnly
DriverStarts(t) == Calm /\ Becomes(t, {"arrived"}, "riding", "started") /\ ServiceOnly
DriverCompletes(t) == Calm /\ Becomes(t, {"riding"}, "completed", "completed") /\ ServiceOnly
OthersCancel(t) == Calm /\ Announced /\ Becomes(t, Unfinished, "cancelled", "cancelled") /\ ServiceOnly

-----------------------------------------------------------------------------
(* The passenger *)

Tap(kinds) == process = "front" /\ Calm /\ \A c \in calls : c.kind \notin kinds

(* createTrip, from the confirmation page (home offers it while it knows of no
   trip) or again after a search without drivers: refused with a trip under way. *)
RequestTrip ==
  /\ Tap({"create", "retry"})
  /\ \/ screen.page = "home" /\ cached = Nothing
     \/ screen.page = "noDrivers"
  /\ LET kind == IF screen.page = "home" THEN "create" ELSE "retry"
         t == Len(orders) + 1 IN
     IF ActiveTrip = Nothing
     THEN /\ t <= MaxRides
          /\ orders' = Append(orders, Waiting)
          /\ Post(kind, t, "ok", [trip |-> t, status |-> Waiting, code |-> FALSE])
     ELSE Post(kind, 0, "refused", Nothing) /\ UNCHANGED orders
  /\ UNCHANGED <<screen, cached, heard, line, inbox, process, troubles>>

SelectOffer ==
  LET t == screen.trip IN
  /\ Tap({"select"}) /\ screen.page = "searching"
  /\ IF orders[t] = Waiting
     THEN Becomes(t, {Waiting}, "accepted", "accepted") /\ Post("select", t, "ok", Nothing)
     ELSE Post("select", t, "refused", Nothing) /\ UNCHANGED <<orders, inbox>>
  /\ UNCHANGED <<screen, cached, heard, line, process, troubles>>

(* Cancelling the search, the ride that shows a driver on his way, or the trip
   of home's panel: refused (400) once it is over, an error (403) while riding. *)
CancelTrip ==
  LET panel == screen.page = "home" /\ cached.status \in {Waiting, "accepted"}
      t == IF panel THEN cached.trip ELSE screen.trip
      kind == IF panel THEN "cancelPanel" ELSE "cancel" IN
  /\ Tap({"cancel", "cancelPanel"})
  /\ \/ panel \/ screen.page = "searching"
     \/ screen.page = "ride" /\ screen.shown.status = "accepted"
  /\ IF orders[t] \in Unfinished \ {"riding"}
     THEN Becomes(t, Unfinished, "cancelled", "cancelled") /\ Post(kind, t, "ok", Nothing)
     ELSE /\ Post(kind, t, IF Over(t) THEN "refused" ELSE "lost", Nothing)
          /\ UNCHANGED <<orders, inbox>>
  /\ UNCHANGED <<screen, cached, heard, line, process, troubles>>

(* Back from the search without drivers or from the payment, paid or not. *)
BackHome ==
  /\ Tap({}) /\ screen.page \in {"noDrivers", "pay"}
  /\ EnterHome(Provider)
  /\ UNCHANGED <<orders, cached, inbox, process, troubles>>

(* The history of trips opens the search again. *)
OpenSearch(t) ==
  /\ Tap({}) /\ screen.page = "home" /\ orders[t] = Waiting
  /\ EnterSearching(Read(t), Provider)
  /\ UNCHANGED <<orders, cached, inbox, process, troubles>>

(* There is a notification of every offer, of the driver's way and of his
   arrival: a tap on it opens the page of the ride. *)
TapNotification(t) ==
  /\ Tap({}) /\ screen.page # "gate"
  /\ ~(screen.page = "ride" /\ screen.trip = t)
  /\ troubles < MaxTroubles
  /\ EnterRide(t, cached, Provider)
  /\ troubles' = troubles + 1
  /\ UNCHANGED <<orders, cached, inbox, process>>

-----------------------------------------------------------------------------
(* Answers *)

\* _checkAuth: the page of the trip there is; home if there is none or the
\* request failed.
GateAnswer(c) ==
  CASE c.got.status = Waiting -> EnterSearching(c.got, Provider)
    [] c.got.status \in WithDriver -> EnterRide(c.got.trip, cached, Provider)
    [] OTHER -> EnterHome(Provider)

\* Home resumes a trip with a driver; _onTripChange leaves for home when a
\* driver has been found or has come, wherever the app is.
ProviderAnswer(c) ==
  LET more == calls \ {c} IN
  CASE screen.page = "home" /\ ~screen.checked /\ c.got.status \in WithDriver ->
         EnterRide(c.got.trip, c.got, {})
    [] /\ cached # Nothing /\ cached.status # c.got.status /\ c.got.status \in {"accepted", "arrived"}
       /\ ~(screen.page = "home" /\ ~screen.checked) -> EnterHome({})
    [] OTHER -> /\ calls' = more
                /\ screen' = IF screen.page = "home" /\ c.got = Nothing
                             THEN [screen EXCEPT !.checked = TRUE] ELSE screen
                /\ UNCHANGED <<heard, line>>

LoadAnswer(c) ==
  /\ screen' = IF c.got = Nothing THEN screen ELSE [screen EXCEPT !.shown = c.got]
  /\ calls' = calls \ {c}
  /\ UNCHANGED <<heard, line>>

\* Mutant: the page is left for another trip, not when there is none.
ResyncAnswerNull(c) ==
  IF c.reply = "ok" /\ c.got # Nothing /\ c.got.trip # screen.trip
  THEN EnterHome(Provider) ELSE Stay(calls \ {c})

(* _resyncAfterResume: the ride is over. *)
ResyncAnswer(c) ==
  IF c.reply = "ok" /\ c.got.trip # screen.trip
  THEN EnterHome(Provider) ELSE Stay(calls \ {c})

\* A trip created; one under way sends home; after other errors the page stays.
CreateAnswer(c) ==
  CASE c.reply = "ok" -> EnterSearching(c.got, Provider)
    [] c.reply = "refused" /\ c.kind = "create" -> EnterHome(Provider)
    [] OTHER -> Stay(calls \ {c})

SelectAnswer(c) ==
  IF c.reply = "ok" THEN EnterRide(c.trip, cached, Provider) ELSE Stay(calls \ {c})

(* _doCancel of the search invalidates the provider and goes home, also when
   the trip was over; the page of the ride goes home when it is cancelled. *)
CancelAnswer(c) ==
  CASE screen.page = "searching" /\ c.reply = "ok" -> EnterHome(Refetch)
    [] screen.page = "searching" /\ c.reply = "refused" -> EnterHome(Provider)
    [] screen.page = "ride" /\ c.reply = "ok" -> EnterHome(Provider)
    [] OTHER -> Stay(calls \ {c})

PanelAnswer(c) == IF c.reply = "ok" THEN Invalidate(calls \ {c}) ELSE Stay(calls \ {c})

Answers(c) ==
  /\ process # "dead" /\ c \in calls
  /\ CASE c.kind = "gate" -> GateAnswer(c)
       [] c.kind = "provider" -> ProviderAnswer(c)
       [] c.kind = "load" -> LoadAnswer(c)
       [] c.kind = "resync" -> ResyncAnswer(c)
       [] c.kind \in {"create", "retry"} -> CreateAnswer(c)
       [] c.kind = "select" -> SelectAnswer(c)
       [] c.kind = "cancel" -> CancelAnswer(c)
       [] OTHER -> PanelAnswer(c)
  /\ cached' = IF c.kind = "provider" THEN c.got ELSE cached
  /\ UNCHANGED <<orders, inbox, process, troubles>>

(* An answer is lost; the service has done what it was asked. *)
RequestFails(c) ==
  /\ c.kind \in MayFail /\ c.reply = "ok" /\ troubles < MaxTroubles
  /\ calls' = (calls \ {c}) \cup {[c EXCEPT !.reply = "lost", !.got = Nothing]}
  /\ troubles' = troubles + 1
  /\ UNCHANGED <<orders, screen, cached, heard, line, inbox, process>>

-----------------------------------------------------------------------------
(* Events *)

\* Mutant: the search does not hear that it has ended without drivers.
SearchHearsDeaf(e) ==
  IF e.name = "accepted" THEN EnterRide(e.trip, cached, Provider) ELSE Stay(calls)

(* The handlers of the search, with or without drivers. *)
SearchHears(e) ==
  CASE e.name = "accepted" -> EnterRide(e.trip, cached, Provider)
    [] e.name = "cancelled" -> EnterHome(Provider)
    [] e.name = "expired" -> /\ screen' = [screen EXCEPT !.page = "noDrivers"]
                             /\ UNCHANGED <<heard, calls, line>>
    [] OTHER -> Stay(calls)

(* _payForCompletedTrip: the saved card is charged, or the page of the payment
   opens (without one, when it is declined, or when the charge fails). *)
PayFare ==
  \/ EnterHome(Provider)
  \/ /\ screen' = [page |-> "pay", trip |-> screen.shown.trip, shown |-> Nothing, checked |-> FALSE]
     /\ calls' = Provider /\ Socket(0) /\ UNCHANGED heard

(* The handlers of the ride; none looks at the trip of the event.  A ride that
   ends asks for the rating, then for the fare if it is known to be by card. *)
RideHears(e) ==
  LET shown == screen.shown
      becomes(s) == /\ screen' = IF shown = Nothing THEN screen ELSE [screen EXCEPT !.shown.status = s]
                    /\ UNCHANGED <<heard, calls, line>> IN
  CASE e.name = "arrived" -> becomes("arrived")
    [] e.name = "started" -> becomes("riding")
    [] e.name = "completed" ->
         \/ EnterHome(Provider)
         \/ shown # Nothing /\ PayFare
    [] e.name \in {"cancelled", "expired"} -> EnterHome(Provider)
    [] OTHER -> Stay(calls)

(* The handlers of home. *)
HomeHears(e) ==
  CASE e.name = "accepted" -> EnterRide(e.trip, cached, Refetch)
    [] e.name \in {"cancelled", "expired", "completed"} /\ heard -> Invalidate(calls)
    [] OTHER -> Stay(calls)

EventArrives ==
  /\ inbox # <<>> /\ process # "dead"
  /\ inbox' = Tail(inbox)
  /\ CASE screen.page \in {"searching", "noDrivers"} -> SearchHears(Head(inbox))
       [] screen.page = "ride" -> RideHears(Head(inbox))
       [] screen.page = "home" -> HomeHears(Head(inbox))
       [] OTHER -> Stay(calls)
  /\ UNCHANGED <<orders, cached, process, troubles>>

-----------------------------------------------------------------------------
(* The socket and the process *)

AppOnly == UNCHANGED <<orders, screen, cached, heard, calls>>

Connects ==
  /\ process # "dead" /\ line.state = "down"
  /\ line' = [line EXCEPT !.state = "joining"]
  /\ AppOnly /\ UNCHANGED <<inbox, process, troubles>>

\* handleConnection has found the user and joined his room.
Joins ==
  /\ line.state = "joining"
  /\ line' = [line EXCEPT !.state = "up"]
  /\ AppOnly /\ UNCHANGED <<inbox, process, troubles>>

(* trip.subscribe: refused while handleConnection has not found the user. *)
Subscribes ==
  /\ line.state \in {"joining", "up"} /\ line.asks # 0
  /\ line' = [line EXCEPT !.room = IF line.state = "up" THEN line.asks ELSE line.room, !.asks = 0]
  /\ AppOnly /\ UNCHANGED <<inbox, process, troubles>>

(* The socket drops, with what is on its way, and reconnects by itself; nobody
   subscribes again.  After ten attempts it is not tried any more. *)
SocketDrops ==
  /\ line.state \in {"joining", "up"} /\ troubles < MaxTroubles
  /\ \E state \in {"down", "ended"} : line' = [state |-> state, room |-> 0, asks |-> 0]
  /\ inbox' = <<>>
  /\ troubles' = troubles + 1
  /\ AppOnly /\ UNCHANGED process

Leaves == process = "front" /\ process' = "back" /\ AppOnly /\ UNCHANGED <<line, inbox, troubles>>

(* didChangeAppLifecycleState: the page of a ride asks whether it goes on. *)
Resumes ==
  /\ process = "back" /\ process' = "front"
  /\ calls' = IF screen.page = "ride" THEN calls \cup AsksFor("resync") ELSE calls
  /\ UNCHANGED <<orders, screen, cached, heard, line, inbox, troubles>>

(* The app starts: the gate and the provider ask for the trip. *)
Launches ==
  /\ process = "dead" /\ process' = "front"
  /\ screen' = [page |-> "gate", trip |-> 0, shown |-> Nothing, checked |-> FALSE]
  /\ calls' = AsksFor("gate") \cup Refetch
  /\ UNCHANGED <<orders, cached, heard, line, inbox, troubles>>

Dies ==
  /\ process # "dead" /\ process' = "dead"
  /\ troubles < MaxTroubles /\ troubles' = troubles + 1
  /\ cached' = Nothing /\ heard' = FALSE /\ calls' = {} /\ inbox' = <<>>
  /\ line' = [state |-> "off", room |-> 0, asks |-> 0]
  /\ UNCHANGED <<orders, screen>>

-----------------------------------------------------------------------------
PassengerNext ==
  \/ \E t \in DOMAIN orders :
       \/ SearchExpires(t) \/ DriverComes(t) \/ DriverStarts(t) \/ DriverCompletes(t)
       \/ OthersCancel(t) \/ OpenSearch(t) \/ TapNotification(t)
  \/ RequestTrip \/ SelectOffer \/ CancelTrip \/ BackHome
  \/ \E c \in calls : Answers(c) \/ RequestFails(c)
  \/ EventArrives \/ Connects \/ Joins \/ Subscribes \/ SocketDrops
  \/ Leaves \/ Resumes \/ Launches \/ Dies

PassengerSpec == PassengerInit /\ [][PassengerNext]_passengerVars

(* What the pages ask for is answered, whatever else the passenger sends, and he
   comes back to the app. *)
PassengerFairness ==
  /\ WF_passengerVars(\E c \in calls : c.kind \in Asks /\ Answers(c))
  /\ WF_passengerVars(Resumes)

PassengerFairSpec == PassengerSpec /\ PassengerFairness

-----------------------------------------------------------------------------
(* Properties *)

(* Trips, screen, requests and socket stay within their types. *)
PassengerTypeOK ==
  /\ orders \in Seq(Unfinished \cup {"completed", "cancelled"}) /\ Len(orders) <= MaxRides
  /\ screen \in [page : Page, trip : 0..MaxRides, shown : Known, checked : BOOLEAN]
  /\ cached \in Known /\ heard \in BOOLEAN
  /\ calls \subseteq Answer
  /\ line \in [state : {"off", "down", "joining", "up", "ended"}, room : 0..MaxRides, asks : 0..MaxRides]
  /\ inbox \in Seq(Event)
  /\ process \in {"dead", "front", "back"} /\ troubles \in 0..MaxTroubles

AppSettled == process # "dead" /\ calls = {} /\ Calm /\ line.state = "up"

(* Without drops, restarts or lost answers, however answers, events and taps
   interleave: once nothing is in flight the page is the one of the trip as it
   stands, a ride shows its own trip, with the code until it starts, and no driver
   drives to a passenger who does not see him. *)
ScreenFits ==
  troubles = 0 /\ AppSettled =>
    CASE screen.page = "searching" -> orders[screen.trip] = Waiting
      [] screen.page = "noDrivers" -> orders[screen.trip] = "cancelled"
      [] screen.page = "ride" -> /\ orders[screen.trip] \in WithDriver
                                 /\ screen.shown.trip = screen.trip
                                 /\ orders[screen.trip] # "riding" => screen.shown.code
      [] screen.page = "pay" -> orders[screen.trip] = "completed"
      [] OTHER -> ActiveTrip.status \notin WithDriver

(* "OTP -- visible mientras llega Y cuando ya llego": once nothing is in
   flight, the page of a ride whose driver is coming shows its code. *)
CodeIsShown ==
  AppSettled /\ screen.page = "ride" /\ orders[screen.trip] \in {"accepted", "arrived"}
    => screen.shown.code

(* "Al volver a primer plano, re-consultamos directo al servidor -- si este
   viaje ya no esta activo, salimos": the page of a ride that is over when the
   app is in the background is left, whatever became of the socket. *)
FinishedRideLeft ==
  \A t \in Ids :
    LET here == screen.page = "ride" /\ screen.trip = t /\ process # "dead" IN
    (here /\ process = "back" /\ Over(t)) ~> ~here
=============================================================================
