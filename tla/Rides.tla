--------------------------------- MODULE Rides ---------------------------------
(***************************************************************************)
(* A ride under way: the wait at the pickup and its timer                  *)
(* (trips.service.ts, trips.scheduler.ts), the driver's pings that run the *)
(* meter and redraw the route (events.gateway.ts) and the safety cron that *)
(* watches for a sustained deviation (driver-safety.service.ts).           *)
(*                                                                         *)
(* Money is in units of one meter step.  A ping reads the trip and writes  *)
(* later, without waiting; a slot of pings holds one.  Time is a few       *)
(* Boolean marks: the timer has run out, the grace period is over.         *)
(***************************************************************************)
EXTENDS Naturals

CONSTANTS
  Pings,         \* slots for pings and cron runs in flight
  BaseFare, MinimumFare,
  MaxPings,      \* bound: pings that add to the meter
  MaxEpisodes    \* bound: deviations

ASSUME RideAssumption ==
  /\ BaseFare \in Nat \ {0} /\ MinimumFare \in Nat
  /\ MaxPings \in Nat /\ MaxEpisodes \in Nat

VARIABLES
  ride,       \* the trip: status, meter_amount, fare_amount, client_confirmed_at
  timer,      \* wait_timer_expires_at: unset, running, run out, or set to the epoch
  notices,    \* trip.wait_expired sent (counted to two)
  driven,     \* meter steps of the pings read so far
  where,      \* the driver, by the route stored: on it, off it, over 1 km away
  watch,      \* deviation_started_at, deviation_alert_sent_at
  episodes,   \* deviations that began
  alerts,     \* deviation alerts saved
  ping        \* pings and cron runs in flight

tripMeter == <<ride, driven>>
waiting == <<timer, notices>>
safety == <<where, watch, episodes, alerts>>
rideVars == <<tripMeter, waiting, safety, ping>>

RideRow == [status : {"accepted", "driver_arrived", "in_progress", "completed"},
            meter : Nat, fare : Nat, confirmed : BOOLEAN]
Watch == [started : {"no", "recent", "sustained"}, alerted : BOOLEAN]
CronCalls == {"clear", "start", "alert", "save"}
PingCall == {[op |-> "idle"], [op |-> "notice"], [op |-> "reroute"]} \cup [op : {"meter"}, meter : Nat]
              \cup [op : {"finish"}, fare : Nat] \cup [op : CronCalls]

PingBegin(r, call) == ping[r].op = "idle" /\ ping' = [ping EXCEPT ![r] = call]
PingEnd(r) == ping' = [ping EXCEPT ![r] = [op |-> "idle"]]
PingIdle(r) == ping[r].op = "idle" /\ UNCHANGED ping

RideInit ==
  /\ ride = [status |-> "accepted", meter |-> 0, fare |-> 0, confirmed |-> FALSE]
  /\ timer = "none" /\ notices = 0 /\ driven = 0
  /\ where = "on" /\ watch = [started |-> "no", alerted |-> FALSE]
  /\ episodes = 0 /\ alerts = 0
  /\ ping = [r \in Pings |-> [op |-> "idle"]]

-----------------------------------------------------------------------------
(* Waiting at the pickup *)

DriverArrives(r) ==
  /\ PingIdle(r)
  /\ ride.status = "accepted"
  /\ ride' = [ride EXCEPT !.status = "driver_arrived"]
  /\ timer' = "running"
  /\ UNCHANGED <<notices, driven, safety>>

ClientReady(r) ==
  /\ PingIdle(r)
  /\ ride.status = "driver_arrived"
  /\ ride' = [ride EXCEPT !.confirmed = TRUE]
  /\ UNCHANGED <<driven, waiting, safety>>

FiveMinutesPass ==
  /\ timer = "running"
  /\ timer' = "expired"
  /\ UNCHANGED <<tripMeter, notices, safety, ping>>

(* checkWaitTimers finds the arrived rides whose timer is in the past; an
   undefined value in where is no condition, so a confirmed client counts. *)
CheckWaitTimers(r) ==
  /\ ride.status = "driver_arrived"
  /\ timer \in {"expired", "epoch"}
  /\ PingBegin(r, [op |-> "notice"])
  /\ UNCHANGED <<tripMeter, waiting, safety>>

\* Mutant: the timer is pushed back and nobody told.
NotifyWaitExpiredMute(r) ==
  /\ ping[r].op = "notice"
  /\ timer' = "epoch"
  /\ PingEnd(r)
  /\ UNCHANGED <<tripMeter, notices, safety>>

NotifyWaitExpired(r) ==
  /\ ping[r].op = "notice"
  /\ notices' = IF notices < 2 THEN notices + 1 ELSE notices
  /\ timer' = "epoch"
  /\ PingEnd(r)
  /\ UNCHANGED <<tripMeter, safety>>

(* startTrip, one transaction under the lock of the trip. *)
StartRide(r) ==
  /\ PingIdle(r)
  /\ ride.status \in {"accepted", "driver_arrived"}
  /\ ride' = [ride EXCEPT !.status = "in_progress", !.meter = BaseFare]
  /\ UNCHANGED <<driven, waiting, safety>>

-----------------------------------------------------------------------------
(* Pings: location.update *)

(* A step of the meter: the trip is read, the increment added, the sum
   written without waiting for it. *)
MeterRead(r) ==
  /\ ride.status = "in_progress"
  /\ driven < MaxPings
  /\ driven' = driven + 1
  /\ PingBegin(r, [op |-> "meter", meter |-> ride.meter + 1])
  /\ UNCHANGED <<ride, waiting, safety>>

\* Mutant: the increment is written in place of the sum.
MeterWriteIncrement(r) ==
  /\ ping[r].op = "meter"
  /\ ride' = [ride EXCEPT !.meter = 1]
  /\ PingEnd(r)
  /\ UNCHANGED <<driven, waiting, safety>>

\* Mutant: the sum is added to the meter in place of replacing it.
MeterWriteAdds(r) ==
  /\ ping[r].op = "meter"
  /\ ride' = [ride EXCEPT !.meter = @ + ping[r].meter]
  /\ PingEnd(r)
  /\ UNCHANGED <<driven, waiting, safety>>

MeterWrite(r) ==
  /\ ping[r].op = "meter"
  /\ ride' = [ride EXCEPT !.meter = ping[r].meter]
  /\ PingEnd(r)
  /\ UNCHANGED <<driven, waiting, safety>>

(* The driver moves, away from the route or back. *)
DriveOff ==
  /\ ride.status = "in_progress"
  /\ \/ where = "on" /\ episodes < MaxEpisodes /\ where' \in {"off", "far"}
        /\ episodes' = episodes + 1
     \/ where = "off" /\ where' = "far" /\ UNCHANGED episodes
     \/ where # "on" /\ where' = "on" /\ UNCHANGED episodes
  /\ UNCHANGED <<tripMeter, waiting, watch, alerts, ping>>

(* A ping off the route asks the map service for a new one from where the
   driver is, and stores it if it came; he may have gone farther since. *)
OffRoute(r) ==
  /\ ride.status = "in_progress"
  /\ where # "on"
  /\ PingBegin(r, [op |-> "reroute"])
  /\ UNCHANGED <<tripMeter, waiting, safety>>

Reroute(r) ==
  /\ ping[r].op = "reroute"
  /\ where' \in {"on", where}
  /\ PingEnd(r)
  /\ UNCHANGED <<tripMeter, waiting, watch, episodes, alerts>>

AtLeastMinimum(amount) == IF amount < MinimumFare THEN MinimumFare ELSE amount

(* completeTrip of a metered ride, as far as the fare goes: it is what the meter
   showed when the trip was read, two lookups before it is written. *)
FinishRead(r) ==
  /\ ride.status = "in_progress"
  /\ PingBegin(r, [op |-> "finish", fare |-> AtLeastMinimum(ride.meter)])
  /\ UNCHANGED <<tripMeter, waiting, safety>>

(* The transaction writes by id and asks for no status. *)
FinishCommit(r) ==
  /\ ping[r].op = "finish"
  /\ ride' = [ride EXCEPT !.status = "completed", !.fare = ping[r].fare]
  /\ PingEnd(r)
  /\ UNCHANGED <<driven, waiting, safety>>

(* The driver has no wallet, or the transaction fails. *)
FinishFails(r) ==
  /\ ping[r].op = "finish"
  /\ PingEnd(r)
  /\ UNCHANGED <<tripMeter, waiting, safety>>

-----------------------------------------------------------------------------
(* The safety cron, every three minutes; Redis may have no recent position. *)

DeviationLasts ==
  /\ watch.started = "recent"
  /\ watch' = [watch EXCEPT !.started = "sustained"]
  /\ UNCHANGED <<tripMeter, waiting, where, episodes, alerts, ping>>

\* Mutant: whether the alert went out is not looked at.
DeviationFoundAgain ==
  IF where # "far" THEN IF watch.started # "no" THEN "clear" ELSE "none"
  ELSE IF watch.started = "no" THEN "start"
  ELSE IF watch.started = "sustained" THEN "alert" ELSE "none"

(* What checkOneTrip decides from the row and the position it read. *)
DeviationFound ==
  IF where # "far" THEN IF watch.started # "no" THEN "clear" ELSE "none"
  ELSE IF watch.started = "no" THEN "start"
  ELSE IF watch.started = "sustained" /\ ~watch.alerted THEN "alert" ELSE "none"

CheckOneTrip(r) ==
  /\ ride.status = "in_progress"
  /\ DeviationFound # "none"
  /\ PingBegin(r, [op |-> DeviationFound])
  /\ UNCHANGED <<tripMeter, waiting, safety>>

WatchWrite(r) ==
  /\ ping[r].op \in {"clear", "start"}
  /\ watch' = [started |-> IF ping[r].op = "start" THEN "recent" ELSE "no",
               alerted |-> ping[r].op = "start" /\ watch.alerted]
  /\ PingEnd(r)
  /\ UNCHANGED <<tripMeter, waiting, where, episodes, alerts>>

AlertMark(r) ==
  /\ ping[r].op = "alert"
  /\ watch' = [watch EXCEPT !.alerted = TRUE]
  /\ ping' = [ping EXCEPT ![r] = [op |-> "save"]]
  /\ UNCHANGED <<tripMeter, waiting, where, episodes, alerts>>

AlertSave(r) ==
  /\ ping[r].op = "save"
  /\ alerts' = alerts + 1
  /\ PingEnd(r)
  /\ UNCHANGED <<tripMeter, waiting, where, watch, episodes>>

-----------------------------------------------------------------------------
PingOnward(r) ==
  \/ NotifyWaitExpired(r) \/ MeterWrite(r) \/ Reroute(r) \/ FinishCommit(r) \/ FinishFails(r)
  \/ WatchWrite(r) \/ AlertMark(r) \/ AlertSave(r)

RideNext ==
  \/ \E r \in Pings :
       \/ DriverArrives(r) \/ ClientReady(r) \/ CheckWaitTimers(r) \/ StartRide(r)
       \/ MeterRead(r) \/ OffRoute(r) \/ FinishRead(r) \/ CheckOneTrip(r)
       \/ PingOnward(r)
  \/ FiveMinutesPass \/ DriveOff \/ DeviationLasts

RideSpec == RideInit /\ [][RideNext]_rideVars

(* Time passes, statements end, and the cron keeps running. *)
RideFairness ==
  /\ WF_rideVars(DeviationLasts)
  /\ \A r \in Pings : /\ WF_rideVars(PingOnward(r))
                      /\ SF_rideVars(CheckOneTrip(r)) /\ SF_rideVars(CheckWaitTimers(r))

RideFairSpec == RideSpec /\ RideFairness

(* Calls that stay apart: from its read of the meter to its write a ping meets no
   other and no end of the ride, which reads the meter too and writes the fare
   later; and no run of the safety cron overtakes another. *)
RideApart ==
  /\ \A r, s \in Pings : ping[r].op = "meter" /\ ping[s].op \in {"meter", "finish"} => r = s
  /\ \A r, s \in Pings : ping[r].op \in CronCalls /\ ping[s].op \in CronCalls => r = s

RideApartSpec == RideInit /\ [][RideNext /\ RideApart']_rideVars

-----------------------------------------------------------------------------
(* Properties *)

(* Rows, marks and pings stay within their columns. *)
RideTypeOK ==
  /\ ride \in RideRow
  /\ timer \in {"none", "running", "expired", "epoch"}
  /\ notices \in 0..2 /\ driven \in Nat
  /\ where \in {"on", "off", "far"} /\ watch \in Watch
  /\ episodes \in Nat /\ alerts \in Nat
  /\ ping \in [Pings -> PingCall]

\* With no ping in flight the meter shows the base fare and every step driven.
MeterAddsUp ==
  (\A r \in Pings : ping[r].op # "meter") /\ ride.status = "in_progress" =>
    ride.meter = BaseFare + driven

\* What a ride costs is what its meter shows, then and afterwards.
FareIsMeter == ride.status = "completed" => ride.fare = AtLeastMinimum(ride.meter)

(* What a ride leaves behind when its calls stay apart: a meter that lost no
   step, a fare no late ping changed, and one alert for one deviation, however
   many cron runs saw it. *)
RideBooks == MeterAddsUp /\ FareIsMeter /\ alerts <= episodes

(* Whatever pings and ends of the ride meet, the passenger is not charged more
   than was driven, or the minimum, and not less than the base fare: a ping lost
   to another one or to the end of the ride costs the driver, never the client. *)
NeverOvercharged ==
  /\ ride.meter <= BaseFare + driven
  /\ ride.status = "completed" =>
       ride.fare >= AtLeastMinimum(BaseFare) /\ ride.fare <= AtLeastMinimum(BaseFare + driven)

(* The crons see every row in time: who waits out the timer is told so unless
   the ride starts, and who stays far from the route as stored is reported
   unless he comes back, the route is redrawn or the ride ends. *)
CronsNotice ==
  /\ timer = "expired" ~> notices > 0 \/ ride.status \in {"in_progress", "completed"}
  /\ where = "far" ~> watch.alerted \/ where # "far" \/ ride.status = "completed"
=============================================================================
