------------------------------- MODULE DriverApp -------------------------------
(***************************************************************************)
(* The driver's app (src/mobile/driver/lib): the page it is on, the trips  *)
(* it offers to him and the ride it holds, while answers, socket events    *)
(* and taps interleave (splash_page, home_page, trip_active_page,          *)
(* trip_provider, socket_client).                                          *)
(*                                                                         *)
(* As in Passenger, a request is read by the service as it is sent and     *)
(* answered later, of the service only what it tells the app is kept, and  *)
(* people are slower than the socket.  The driver is signed in and online. *)
(***************************************************************************)
EXTENDS Naturals, Sequences

CONSTANTS
  MaxJobs,       \* bound: trips that are announced
  MaxFailures,   \* _maxConsecutiveFailures
  MaxMishaps     \* bound: drops of the socket, ends of the process, requests
                 \* that fail, taps on a notification

ASSUME DriverAppAssumption == MaxJobs \in Nat \ {0} /\ MaxFailures \in Nat \ {0} /\ MaxMishaps \in Nat

VARIABLES
  jobs,      \* the status of each trip; from "accepted" to "riding" it is his
  bids,      \* trips with a pending offer of his
  view,      \* the page and home's _resumeChecked
  held,      \* activeTripProvider: read at all, its trip, whether it is an error
  listed,    \* home's _availableTrips
  sent,      \* home's _pendingOffers
  hears,     \* whose listeners of trip.offer_accepted and trip.cancelled exist, home's
             \* or the ride's, and whether the ride's of trip.started do
  asked,     \* requests in flight with their answers
  driverLink,      \* the socket, its failures in a row, the trip whose room it is in
  mail,      \* events on their way to the app
  unheard,   \* one of them changed his ride and found no listener
  mishaps    \* how many there have been

driverAppVars == <<jobs, bids, view, held, listed, sent, hears, asked, driverLink, mail, unheard, mishaps>>

JobIds == 1..MaxJobs
His == {"accepted", "arrived", "riding"}
JobStatus == {"requested", "over"} \cup His
NoJob == [trip |-> 0, status |-> "none"]
Job == [trip : 0..MaxJobs, status : {"none"} \cup His]
Pages == {"off", "splash", "home", "tab", "ride", "over", "signedOut"}   \* over: a ride upon home
Gets == {"splash", "provider", "refetch"}
DriverCall == [kind : Gets \cup {"list", "offer", "confirm", "complete", "cancel"},
            ok : BOOLEAN, got : Job, trips : SUBSET JobIds]

\* getActiveTripAsDriver and getAvailableTrips.
HisJob == IF \E t \in DOMAIN jobs : jobs[t] \in His
          THEN LET t == CHOOSE t \in DOMAIN jobs : jobs[t] \in His IN [trip |-> t, status |-> jobs[t]]
          ELSE NoJob
OpenJobs == {t \in DOMAIN jobs : jobs[t] = "requested"}

Running == view.page # "off"
Quiet == mail = <<>> /\ (Running /\ view.page # "splash" /\ mishaps = 0 => driverLink.state = "up")

\* The app may start in the middle of a ride.
DriverAppInit ==
  /\ jobs \in {<<>>} \cup {<<status>> : status \in His} /\ bids = {}
  /\ view = [page |-> "off", checked |-> FALSE]
  /\ held = [read |-> FALSE, job |-> NoJob, error |-> FALSE]
  /\ listed = {} /\ sent = {} /\ hears = {}
  /\ asked = {}
  /\ driverLink = [state |-> "off", failures |-> 0, room |-> 0]
  /\ mail = <<>> /\ unheard = FALSE /\ mishaps = 0

-----------------------------------------------------------------------------
(* Requests and pages *)

Asking(kind, ok, job, ts) == {[kind |-> kind, ok |-> ok, got |-> job, trips |-> ts]}
Reading(kind) == Asking(kind, TRUE, HisJob, {})
\* What a page waits for is dropped with it; the provider has no page.
OfProvider == {c \in asked : c.kind \in {"provider", "confirm", "complete"}}
\* build: the first page that watches the provider reads the trip.
Built == IF held.read THEN {} ELSE Reading("provider")
Dialled == driverLink' = IF driverLink.state = "off" THEN [driverLink EXCEPT !.state = "down", !.failures = 0] ELSE driverLink

\* The page that leaves is disposed after the next has registered its listeners,
\* and removes those of the same events, its own or not.  A ride that the splash
\* opens registers none: the socket does not exist yet.
Shows(page) ==
  /\ view' = [page |-> page, checked |-> FALSE]
  /\ hears' = CASE page = "home" /\ view.page \notin {"ride", "over"} -> {"home"}
                [] page = "ride" /\ view.page # "splash" -> {"started"}
                [] OTHER -> {}
  /\ listed' = {} /\ sent' = {}

\* Home is still there under a ride opened upon it.
AtHome == view.page \in {"home", "over"}
AtRide == view.page \in {"ride", "over"}
BackToHome == view' = [view EXCEPT !.page = "home"] /\ hears' = {}

OpenHome(more) ==
  /\ Shows("home")
  /\ asked' = more \cup Built \cup Asking("list", TRUE, NoJob, OpenJobs)
  /\ Dialled

\* go('/home') from the page of a ride.
GoHome(more) ==
  IF view.page = "over" THEN BackToHome /\ asked' = more /\ UNCHANGED <<listed, sent, driverLink>>
  ELSE OpenHome(more \cap OfProvider)

OpenRide(more) == Shows("ride") /\ asked' = more \cup Built /\ Dialled

Remain(more) == asked' = more /\ UNCHANGED <<view, hears, listed, sent, driverLink>>

Holds(job) == held' = [read |-> TRUE, job |-> job, error |-> FALSE]

-----------------------------------------------------------------------------
(* The service *)

Notify(names, t) ==
  mail' = mail \o IF driverLink.state = "up" THEN [i \in DOMAIN names |-> [name |-> names[i], trip |-> t]] ELSE <<>>

ServiceActs == Quiet /\ UNCHANGED <<view, held, listed, sent, hears, asked, driverLink, unheard, mishaps>>

Announce ==
  /\ ServiceActs
  /\ Len(jobs) < MaxJobs /\ jobs' = Append(jobs, "requested")
  /\ Notify(<<"new">>, Len(jobs) + 1)
  /\ UNCHANGED bids

\* The wider search announces it again.
AnnounceAgain(t) ==
  /\ ServiceActs
  /\ jobs[t] = "requested" /\ Notify(<<"new">>, t)
  /\ UNCHANGED <<jobs, bids>>

(* The search ends: without drivers nobody tells the others. *)
SearchEnds(t) ==
  /\ ServiceActs
  /\ jobs[t] = "requested" /\ jobs' = [jobs EXCEPT ![t] = "over"]
  /\ bids' = bids \ {t}
  /\ \/ Notify(<<>>, t)
     \/ Notify(<<"taken">>, t)
     \/ t \in bids /\ Notify(<<"rejected", "taken">>, t)

(* The passenger selects his offer. *)
ChoosesHim(t) ==
  /\ ServiceActs
  /\ jobs[t] = "requested" /\ t \in bids /\ HisJob = NoJob
  /\ jobs' = [jobs EXCEPT ![t] = "accepted"]
  /\ bids' = bids \ {t}
  /\ Notify(<<"accepted", "taken">>, t)

(* The passenger cancels his ride, or the staff do; the room of the trip and
   the driver's both hear of it.  Nobody does while the app reads the ride: the
   answer would bring back a ride that the event has ended. *)
CancelsRide(t) ==
  /\ ServiceActs /\ asked = {}
  /\ jobs[t] \in His /\ jobs' = [jobs EXCEPT ![t] = "over"]
  /\ Notify(IF driverLink.room = t THEN <<"cancelled", "cancelled">> ELSE <<"cancelled">>, t)
  /\ UNCHANGED bids

(* The room of his cooperative hears of the rides of its other drivers. *)
ColleaguesRideCancelled ==
  /\ ServiceActs /\ Notify(<<"cancelled">>, 0)
  /\ UNCHANGED <<jobs, bids>>

-----------------------------------------------------------------------------
(* The driver *)

\* On the ride the driver waits for what he sees.
OnRide == AtRide /\ Quiet /\ asked = {}

\* makeOffer: refused while he has a ride, and once the search is over.
SendOffer(t) ==
  /\ view.page = "home" /\ Quiet /\ t \in listed \ sent
  /\ LET ok == HisJob = NoJob /\ jobs[t] = "requested" IN
     /\ bids' = IF ok THEN bids \cup {t} ELSE bids
     /\ asked' = asked \cup Asking("offer", ok, NoJob, {t})
  /\ sent' = sent \cup {t}
  /\ UNCHANGED <<jobs, view, held, listed, hears, driverLink, mail, unheard, mishaps>>

Button == OnRide /\ held.read /\ ~held.error /\ held.job # NoJob

(* confirmArrivalAndStart: arrives unless he has, then starts with the code he
   was told, right or wrong, and reads the ride again. *)
ConfirmPickup ==
  LET t == held.job.trip IN
  /\ Button /\ held.job.status \in {"accepted", "arrived"}
  /\ \E right \in BOOLEAN :
       LET here == jobs[t] = "arrived" \/ (jobs[t] = "accepted" /\ held.job.status = "accepted")
           to == IF ~here THEN jobs[t] ELSE IF right THEN "riding" ELSE "arrived"
           ok == here /\ right IN
       /\ jobs' = [jobs EXCEPT ![t] = to]
       /\ asked' = asked \cup Asking("confirm", ok, IF ok THEN [trip |-> t, status |-> "riding"] ELSE NoJob, {})
       /\ IF ok /\ driverLink.room = t THEN Notify(<<"started">>, t) ELSE UNCHANGED mail
  /\ UNCHANGED <<bids, view, held, listed, sent, hears, driverLink, unheard, mishaps>>

EndRide ==
  LET t == held.job.trip IN
  /\ Button /\ held.job.status = "riding"
  /\ jobs' = [jobs EXCEPT ![t] = "over"]
  /\ asked' = asked \cup Asking("complete", jobs[t] = "riding", NoJob, {})
  /\ UNCHANGED <<bids, view, held, listed, sent, hears, driverLink, mail, unheard, mishaps>>

CancelRide ==
  LET t == held.job.trip IN
  /\ Button /\ held.job.status \in {"accepted", "arrived"}
  /\ LET ok == jobs[t] \in {"accepted", "arrived"} IN
     /\ jobs' = IF ok THEN [jobs EXCEPT ![t] = "over"] ELSE jobs
     /\ asked' = asked \cup Asking("cancel", ok, NoJob, {})
  /\ UNCHANGED <<bids, view, held, listed, sent, hears, driverLink, mail, unheard, mishaps>>

(* The bar at the foot leaves home for a tab and comes back. *)
ChangeTab ==
  /\ Quiet
  /\ \/ view.page = "home" /\ Shows("tab") /\ asked' = OfProvider /\ UNCHANGED driverLink
     \/ view.page = "tab" /\ OpenHome(OfProvider)
  /\ UNCHANGED <<jobs, bids, held, mail, unheard, mishaps>>

(* A notification of a trip opens home, whatever the page. *)
TapOnNotification ==
  /\ Quiet /\ view.page \in {"tab", "ride"} /\ mishaps < MaxMishaps
  /\ OpenHome(OfProvider)
  /\ mishaps' = mishaps + 1
  /\ UNCHANGED <<jobs, bids, held, mail, unheard>>

(* Home with a ride: "Ver viaje" opens it upon home, Aceptar asks for it again,
   is refused and opens its page, and Rechazar forgets it. *)
RideOnHome ==
  /\ view.page = "home" /\ Quiet /\ asked = {} /\ held.job # NoJob
  /\ \/ /\ view' = [view EXCEPT !.page = "over"] /\ hears' = hears \cup {"ride", "started"}
        /\ UNCHANGED <<held, listed, sent, asked, driverLink>>
     \/ held' = [held EXCEPT !.error = TRUE] /\ OpenRide({})
     \/ /\ Holds(NoJob) /\ view' = [view EXCEPT !.checked = TRUE]
        /\ UNCHANGED <<listed, sent, hears, asked, driverLink>>
  /\ UNCHANGED <<jobs, bids, mail, unheard, mishaps>>

BackFromRide ==
  /\ view.page = "over" /\ OnRide /\ BackToHome
  /\ UNCHANGED <<jobs, bids, held, listed, sent, asked, driverLink, mail, unheard, mishaps>>

SignsIn ==
  /\ view.page = "signedOut" /\ OpenHome(OfProvider)
  /\ UNCHANGED <<jobs, bids, held, mail, unheard, mishaps>>

-----------------------------------------------------------------------------
(* Answers *)

SplashAnswer(c) ==
  /\ IF c.ok /\ c.got # NoJob THEN OpenRide({}) ELSE OpenHome({})
  /\ UNCHANGED held

\* Home resumes the ride that comes to be held, once.
Resume(job, more) ==
  IF AtHome /\ ~view.checked
  THEN IF job = NoJob
       THEN view' = [view EXCEPT !.checked = TRUE] /\ asked' = more
            /\ UNCHANGED <<hears, listed, sent, driverLink>>
       ELSE Shows("ride") /\ asked' = more \cap OfProvider /\ UNCHANGED driverLink
  ELSE Remain(more)

HeldAnswer(c) == Holds(c.got) /\ Resume(c.got, asked \ {c})

RefetchAnswer(c) ==
  /\ IF c.got = NoJob THEN UNCHANGED held ELSE Holds(c.got)
  /\ Remain(asked \ {c})

\* AsyncValue.guard: a refusal becomes the value of the provider, over the ride.
PickupAnswer(c) ==
  IF c.ok THEN Holds(c.got) /\ Resume(c.got, asked \ {c})
  ELSE held' = [held EXCEPT !.error = TRUE] /\ Resume(held.job, asked \ {c})

(* Without a trip the page of the ride drops the view that waits for the
   rating, and with it the way home; a failure is told and goes home. *)
CompleteAnswer(c) ==
  CASE c.ok -> Holds(NoJob) /\ Resume(NoJob, asked \ {c})
    [] ~c.ok /\ AtRide -> UNCHANGED held /\ GoHome(asked \ {c})
    [] OTHER -> UNCHANGED held /\ Remain(asked \ {c})

DriverCancelAnswer(c) ==
  IF c.ok THEN Holds(NoJob) /\ GoHome(asked \ {c}) ELSE UNCHANGED held /\ Remain(asked \ {c})

OfferAnswer(c) ==
  /\ sent' = IF c.ok THEN sent ELSE sent \ c.trips
  /\ asked' = asked \ {c}
  /\ UNCHANGED <<view, held, listed, hears, driverLink>>

ListAnswer(c) ==
  /\ listed' = listed \cup c.trips
  /\ asked' = asked \ {c}
  /\ UNCHANGED <<view, held, sent, hears, driverLink>>

DriverAnswers(c) ==
  /\ c \in asked
  /\ CASE c.kind = "splash" -> SplashAnswer(c)
       [] c.kind = "provider" -> HeldAnswer(c)
       [] c.kind = "refetch" -> RefetchAnswer(c)
       [] c.kind = "confirm" -> PickupAnswer(c)
       [] c.kind = "complete" -> CompleteAnswer(c)
       [] c.kind = "cancel" -> DriverCancelAnswer(c)
       [] c.kind = "offer" -> OfferAnswer(c)
       [] OTHER -> ListAnswer(c)
  /\ UNCHANGED <<jobs, bids, mail, unheard, mishaps>>

\* getActiveTrip tells a failure from no trip as little as the list does.
DriverAnswerLost(c) ==
  /\ c \in asked /\ c.ok /\ mishaps < MaxMishaps
  /\ asked' = (asked \ {c}) \cup Asking(c.kind, FALSE, NoJob, IF c.kind = "list" THEN {} ELSE c.trips)
  /\ mishaps' = mishaps + 1
  /\ UNCHANGED <<jobs, bids, view, held, listed, sent, hears, driverLink, mail, unheard>>

-----------------------------------------------------------------------------
(* Events *)

\* Mutant: the selection is taken off the list, and home stays.
HomeGetsListOnly(e) ==
  /\ listed' = listed \ {e.trip} /\ sent' = sent \ {e.trip}
  /\ UNCHANGED <<view, held, hears, asked, driverLink>>

(* The handlers of home, and of the ride: upon home both run. *)
HomeGets(e) ==
  CASE e.name = "accepted" /\ "home" \in hears -> OpenRide(Reading("provider")) /\ UNCHANGED held
    [] e.name = "new" -> /\ listed' = listed \cup {e.trip}
                         /\ UNCHANGED <<view, held, sent, hears, asked, driverLink>>
    [] e.name = "taken" \/ (e.name = "cancelled" /\ "home" \in hears) ->
         /\ listed' = listed \ {e.trip} /\ sent' = sent \ {e.trip}
         /\ UNCHANGED <<view, held, hears, asked, driverLink>>
    [] e.name = "rejected" -> /\ sent' = sent \ {e.trip}
                              /\ UNCHANGED <<view, held, listed, hears, asked, driverLink>>
    [] OTHER -> Remain(asked) /\ UNCHANGED held

\* Whose cancellation it is, the page does not ask.
RideGets(e) ==
  CASE e.name = "cancelled" /\ "ride" \in hears -> Holds(NoJob) /\ GoHome(asked)
    [] e.name = "started" /\ "started" \in hears -> Remain(asked \cup Reading("refetch")) /\ UNCHANGED held
    [] e.name = "accepted" /\ "ride" \in hears -> Remain(asked \cup Reading("refetch")) /\ UNCHANGED held
    [] OTHER -> Remain(asked) /\ UNCHANGED held

\* Upon home a cancellation is the ride's, a selection home's if it hears.
IsForRide(e) ==
  \/ view.page = "ride"
  \/ view.page = "over" /\ \/ e.name \in {"started", "cancelled"}
                           \/ e.name = "accepted" /\ "home" \notin hears

MailArrives ==
  /\ mail # <<>>
  /\ LET e == Head(mail) IN
     /\ mail' = Tail(mail)
     /\ CASE IsForRide(e) -> RideGets(e)
          [] ~IsForRide(e) /\ AtHome -> HomeGets(e)
          [] OTHER -> Remain(asked) /\ UNCHANGED held
     /\ unheard' = (unheard \/ \/ e.name = "accepted" /\ "home" \notin hears
                               \/ e.name = "cancelled" /\ "ride" \notin hears /\ e.trip # 0)
  /\ UNCHANGED <<jobs, bids, mishaps>>

-----------------------------------------------------------------------------
(* The socket and the process *)

SocketOnly == UNCHANGED <<jobs, bids, held, listed, sent, asked, unheard>>

Dials ==
  /\ Running /\ driverLink.state = "down" /\ driverLink' = [driverLink EXCEPT !.state = "joining"]
  /\ SocketOnly /\ UNCHANGED <<view, hears, mail, mishaps>>

\* joinRoleRooms: his own room, the available drivers' and his ride's.
JoinsRooms ==
  /\ driverLink.state = "joining"
  /\ driverLink' = [driverLink EXCEPT !.state = "up", !.room = HisJob.trip]
  /\ SocketOnly /\ UNCHANGED <<view, hears, mail, mishaps>>

\* Five seconds of connection clear the count.
StaysUp ==
  /\ driverLink.state = "up" /\ driverLink.failures > 0 /\ driverLink' = [driverLink EXCEPT !.failures = 0]
  /\ SocketOnly /\ UNCHANGED <<view, hears, mail, mishaps>>

(* _scheduleReconnect: too many failures in a row, of the token or of the
   network, end the socket and, on home, the session; elsewhere the callback of
   the home that is gone fails. *)
CountsFailure ==
  IF driverLink.failures + 1 >= MaxFailures
  THEN /\ driverLink' = [state |-> "off", failures |-> 0, room |-> 0]
       /\ IF AtHome THEN Shows("signedOut") /\ asked' = OfProvider
          ELSE hears' = {} /\ UNCHANGED <<view, listed, sent, asked>>
  ELSE /\ driverLink' = [state |-> "down", failures |-> driverLink.failures + 1, room |-> 0]
       /\ UNCHANGED <<view, hears, listed, sent, asked>>

WireDrops ==
  /\ driverLink.state = "up" /\ mishaps < MaxMishaps
  /\ CountsFailure /\ mail' = <<>> /\ mishaps' = mishaps + 1
  /\ UNCHANGED <<jobs, bids, held, unheard>>

DialFails ==
  /\ driverLink.state = "joining" /\ mishaps > 0
  /\ CountsFailure
  /\ UNCHANGED <<jobs, bids, held, mail, unheard, mishaps>>

AppStarts ==
  /\ view.page = "off"
  /\ view' = [page |-> "splash", checked |-> FALSE]
  /\ asked' = Reading("splash")
  /\ UNCHANGED <<jobs, bids, held, listed, sent, hears, driverLink, mail, unheard, mishaps>>

AppEnds ==
  /\ Running /\ mishaps < MaxMishaps /\ mishaps' = mishaps + 1
  /\ Shows("off")
  /\ held' = [read |-> FALSE, job |-> NoJob, error |-> FALSE]
  /\ asked' = {} /\ mail' = <<>> /\ unheard' = FALSE
  /\ driverLink' = [state |-> "off", failures |-> 0, room |-> 0]
  /\ UNCHANGED <<jobs, bids>>

-----------------------------------------------------------------------------
DriverAppNext ==
  \/ \E t \in DOMAIN jobs :
       AnnounceAgain(t) \/ SearchEnds(t) \/ ChoosesHim(t) \/ CancelsRide(t) \/ SendOffer(t)
  \/ Announce \/ ColleaguesRideCancelled \/ ConfirmPickup \/ EndRide \/ CancelRide \/ ChangeTab
  \/ TapOnNotification \/ RideOnHome \/ BackFromRide \/ SignsIn
  \/ \E c \in asked : DriverAnswers(c) \/ DriverAnswerLost(c)
  \/ MailArrives \/ Dials \/ JoinsRooms \/ StaysUp \/ WireDrops \/ DialFails
  \/ AppStarts \/ AppEnds

DriverAppSpec == DriverAppInit /\ [][DriverAppNext]_driverAppVars

\* The service answers, and the app connects.
DriverAppFairness ==
  WF_driverAppVars((\E c \in asked : DriverAnswers(c)) \/ Dials \/ JoinsRooms \/ MailArrives)

-----------------------------------------------------------------------------
(* Properties *)

(* Trips, page, provider, requests and socket stay within their types. *)
DriverAppTypeOK ==
  /\ jobs \in Seq(JobStatus) /\ Len(jobs) <= MaxJobs
  /\ bids \subseteq JobIds /\ listed \subseteq JobIds /\ sent \subseteq JobIds
  /\ view \in [page : Pages, checked : BOOLEAN]
  /\ held \in [read : BOOLEAN, job : Job, error : BOOLEAN]
  /\ hears \subseteq {"home", "ride", "started"} /\ unheard \in BOOLEAN /\ mishaps \in 0..MaxMishaps
  /\ asked \subseteq DriverCall
  /\ driverLink \in [state : {"off", "down", "joining", "up"}, failures : 0..MaxFailures, room : 0..MaxJobs]
  /\ mail \in Seq([name : {"new", "taken", "rejected", "accepted", "cancelled", "started"}, trip : 0..MaxJobs])

DriverSettled == Running /\ asked = {} /\ Quiet /\ driverLink.state = "up"

(* However answers, events and taps interleave, unless an event of his ride
   found no listener: once nothing is in flight a driver with a ride is on its
   page, and the page shows the ride as it stands or the refusal of the code. *)
DriverSeesRide ==
  mishaps = 0 /\ ~unheard /\ DriverSettled =>
    /\ HisJob # NoJob => view.page = "ride"
    /\ view.page = "ride" /\ ~held.error => held.job = HisJob

(* "sin esto la pantalla se quedaba en un spinner infinito": the page of a ride
   does not stay without one. *)
FinishedRideCloses ==
  DriverSettled /\ AtRide => held.error \/ held.job # NoJob
=============================================================================
