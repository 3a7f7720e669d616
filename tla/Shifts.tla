-------------------------------- MODULE Shifts --------------------------------
(***************************************************************************)
(* A driver's working day: start-day, end-day, availability and the        *)
(* inactivity cron (drivers.service.ts), and how an owner lends a taxi to  *)
(* a hired driver (vehicle-requests.service.ts).  Of a trip only what it   *)
(* writes into the driver's row is kept; Trips has the rest.               *)
(*                                                                         *)
(* None of these handlers opens a transaction: each step is one statement, *)
(* a check that a handler makes before a write is a step of its own, and a *)
(* handler in flight is a slot of shiftReq.  All profiles and taxis are    *)
(* approved.                                                               *)
(***************************************************************************)
EXTENDS Naturals, FiniteSets

CONSTANTS
  Owners, Hired,   \* drivers of type OWNER_DRIVER and of type DRIVER
  Vehicles,
  OwnerOf,         \* the owner of each taxi
  Posts,           \* ids of vehicle_requests rows
  ShiftReqs,       \* slots for handlers in flight; one slot means no concurrency
  NoOne,           \* SQL NULL
  SelfService      \* statuses the app sends to setOnlineStatus

Drivers == Owners \cup Hired
OnlineStatus == {"offline", "online", "busy", "looking_for_work"}
Steps == {"idle", "start", "status", "prompt", "disconnect",
          "publish", "apply", "withdraw", "accept", "rejectOthers", "acceptPost",
          "assign", "looking", "cancel", "complete", "unassign", "free"}

ASSUME ShiftAssumption ==
  /\ Owners \cap Hired = {}
  /\ OwnerOf \in [Vehicles -> Owners]
  /\ NoOne \notin Drivers \cup Vehicles \cup Posts
  /\ SelfService \subseteq OnlineStatus

VARIABLES
  driver,   \* drivers table
  onTrip,   \* drivers with a trip under way
  post,     \* vehicle_requests table; status "none" is an id not inserted yet
  app,      \* vehicle_request_applications, by post and driver
  active,   \* how many ACTIVE vehicle_assignments join the driver and the taxi
  shiftReq  \* handlers in flight

shiftVars == <<driver, onTrip, post, app, active, shiftReq>>

\* seen: last_seen_at is null, set, or set two hours ago; prompt:
\* inactivity_prompt_sent_at is null, set, or set twenty minutes ago.
DriverRow == [status : OnlineStatus, vehicle : Vehicles \cup {NoOne},
              seen : {"never", "recent", "old"}, prompt : {"none", "sent", "due"}]
PostRow == [status : {"none", "open", "accepted", "cancelled", "completed"},
            vehicle : Vehicles \cup {NoOne}, hired : Hired \cup {NoOne}]
Application == {"none", "pending", "accepted", "rejected", "withdrawn"}
Handler == [op : Steps, driver : Drivers \cup {NoOne}, vehicle : Vehicles \cup {NoOne},
            post : Posts \cup {NoOne}, status : OnlineStatus \cup {NoOne},
            todo : SUBSET Drivers]

NoShiftCall == [op |-> "idle", driver |-> NoOne, vehicle |-> NoOne, post |-> NoOne,
         status |-> NoOne, todo |-> {}]

ShiftBegin(r, call) == shiftReq[r] = NoShiftCall /\ shiftReq' = [shiftReq EXCEPT ![r] = call]
ShiftAdvance(r, op) == shiftReq' = [shiftReq EXCEPT ![r].op = op]
ShiftEnd(r) == shiftReq' = [shiftReq EXCEPT ![r] = NoShiftCall]

ShiftInit ==
  /\ driver = [d \in Drivers |-> [status |-> "offline", vehicle |-> NoOne,
                                  seen |-> "never", prompt |-> "none"]]
  /\ onTrip = {}
  /\ post = [p \in Posts |-> [status |-> "none", vehicle |-> NoOne, hired |-> NoOne]]
  /\ app = [p \in Posts |-> [h \in Hired |-> "none"]]
  /\ active = [h \in Hired |-> [v \in Vehicles |-> 0]]
  /\ shiftReq = [r \in ShiftReqs |-> NoShiftCall]

-----------------------------------------------------------------------------
(* The day *)

(* An owner takes one of his taxis; a hired driver the taxi of his active
   assignment, whichever the query returns if there are several. *)
MayDrive(d, v) == IF d \in Owners THEN OwnerOf[v] = d ELSE active[d][v] > 0

(* taxiEnUso: the drivers with this taxi who are not offline.  The query
   returns one of them, and finding oneself is no conflict. *)
Using(v) == {d \in Drivers : driver[d].vehicle = v /\ driver[d].status # "offline"}

StartDay(r, d, v) ==
  /\ MayDrive(d, v)
  /\ Using(v) = {} \/ d \in Using(v)
  /\ ShiftBegin(r, [NoShiftCall EXCEPT !.op = "start", !.driver = d, !.vehicle = v])
  /\ UNCHANGED <<driver, onTrip, post, app, active>>

StartDayWrite(r) ==
  /\ shiftReq[r].op = "start"
  /\ driver' = [driver EXCEPT ![shiftReq[r].driver] =
                  [@ EXCEPT !.vehicle = shiftReq[r].vehicle, !.status = "online", !.seen = "recent"]]
  /\ ShiftEnd(r)
  /\ UNCHANGED <<onTrip, post, app, active>>

(* Nothing the handler reads first decides what it writes. *)
EndDay(r, d) ==
  /\ shiftReq[r] = NoShiftCall
  /\ driver' = [driver EXCEPT ![d] =
                  [@ EXCEPT !.vehicle = NoOne, !.status = "offline", !.seen = "recent"]]
  /\ UNCHANGED <<onTrip, post, app, active, shiftReq>>

SetOnlineStatus(r, d, s) ==
  /\ s = "looking_for_work" => d \in Hired
  /\ s = "online" => driver[d].vehicle # NoOne
  /\ ShiftBegin(r, [NoShiftCall EXCEPT !.op = "status", !.driver = d, !.status = s])
  /\ UNCHANGED <<driver, onTrip, post, app, active>>

SetOnlineStatusWrite(r) ==
  /\ shiftReq[r].op = "status"
  /\ driver' = [driver EXCEPT ![shiftReq[r].driver] =
                  [@ EXCEPT !.status = shiftReq[r].status, !.seen = "recent"]]
  /\ ShiftEnd(r)
  /\ UNCHANGED <<onTrip, post, app, active>>

UpdateLocation(r, d) ==
  /\ shiftReq[r] = NoShiftCall
  /\ driver[d].status # "offline"
  /\ driver' = [driver EXCEPT ![d].seen = "recent"]
  /\ UNCHANGED <<onTrip, post, app, active, shiftReq>>

(* A position over the socket, whatever the status: the write follows at most
   once in thirty seconds, and within them the last one is recent still. *)
HandleLocationUpdate(r, d) ==
  /\ shiftReq[r] = NoShiftCall
  /\ driver' = [driver EXCEPT ![d].seen = "recent"]
  /\ UNCHANGED <<onTrip, post, app, active, shiftReq>>

ConfirmActive(r, d) ==
  /\ shiftReq[r] = NoShiftCall
  /\ driver' = [driver EXCEPT ![d] = [@ EXCEPT !.seen = "recent", !.prompt = "none"]]
  /\ UNCHANGED <<onTrip, post, app, active, shiftReq>>

(* selectOffer and the end of a trip, as far as this row goes. *)
TripAssigned(r, d) ==
  /\ shiftReq[r] = NoShiftCall
  /\ d \notin onTrip
  /\ onTrip' = onTrip \cup {d}
  /\ driver' = [driver EXCEPT ![d].status = "busy"]
  /\ UNCHANGED <<post, app, active, shiftReq>>

TripEnds(r, d) ==
  /\ shiftReq[r] = NoShiftCall
  /\ d \in onTrip
  /\ onTrip' = onTrip \ {d}
  /\ driver' = [driver EXCEPT ![d].status = "online"]
  /\ UNCHANGED <<post, app, active, shiftReq>>

-----------------------------------------------------------------------------
(* checkInactiveDrivers: finds and then writes, driver by driver, twice. *)

Awake(d) == driver[d].status \in {"online", "looking_for_work"}

TwoHoursPass(d) ==
  /\ driver[d].seen = "recent"
  /\ driver' = [driver EXCEPT ![d].seen = "old"]
  /\ UNCHANGED <<onTrip, post, app, active, shiftReq>>

GracePasses(d) ==
  /\ driver[d].prompt = "sent"
  /\ driver' = [driver EXCEPT ![d].prompt = "due"]
  /\ UNCHANGED <<onTrip, post, app, active, shiftReq>>

(* Who was never seen is not found: null is not less than any time. *)
CheckInactiveDrivers(r) ==
  /\ ShiftBegin(r, [NoShiftCall EXCEPT !.op = "prompt",
                 !.todo = {d \in Drivers : /\ Awake(d) /\ driver[d].seen = "old"
                                           /\ driver[d].prompt = "none"}])
  /\ UNCHANGED <<driver, onTrip, post, app, active>>

\* Mutant: the prompt goes out and is not recorded.
PromptUnrecorded(r, d) ==
  /\ shiftReq[r].op = "prompt" /\ d \in shiftReq[r].todo
  /\ shiftReq' = [shiftReq EXCEPT ![r].todo = @ \ {d}]
  /\ UNCHANGED <<driver, onTrip, post, app, active>>

Prompt(r, d) ==
  /\ shiftReq[r].op = "prompt" /\ d \in shiftReq[r].todo
  /\ driver' = [driver EXCEPT ![d].prompt = "sent"]
  /\ shiftReq' = [shiftReq EXCEPT ![r].todo = @ \ {d}]
  /\ UNCHANGED <<onTrip, post, app, active>>

FindUnanswered(r) ==
  /\ shiftReq[r].op = "prompt" /\ shiftReq[r].todo = {}
  /\ shiftReq' = [shiftReq EXCEPT ![r].op = "disconnect",
               ![r].todo = {d \in Drivers : Awake(d) /\ driver[d].prompt = "due"}]
  /\ UNCHANGED <<driver, onTrip, post, app, active>>

Disconnect(r, d) ==
  /\ shiftReq[r].op = "disconnect" /\ d \in shiftReq[r].todo
  /\ driver' = [driver EXCEPT ![d] = [@ EXCEPT !.status = "offline", !.prompt = "none"]]
  /\ shiftReq' = [shiftReq EXCEPT ![r].todo = @ \ {d}]
  /\ UNCHANGED <<onTrip, post, app, active>>

CronEnds(r) ==
  /\ shiftReq[r].op = "disconnect" /\ shiftReq[r].todo = {}
  /\ ShiftEnd(r)
  /\ UNCHANGED <<driver, onTrip, post, app, active>>

-----------------------------------------------------------------------------
(* Lending a taxi *)

(* create: no open post for the taxi yet. *)
Publish(r, p, v) ==
  /\ post[p].status = "none" /\ \A q \in ShiftReqs : shiftReq[q].post # p
  /\ \A other \in Posts : post[other].vehicle = v => post[other].status # "open"
  /\ ShiftBegin(r, [NoShiftCall EXCEPT !.op = "publish", !.post = p, !.vehicle = v])
  /\ UNCHANGED <<driver, onTrip, post, app, active>>

PublishWrite(r) ==
  /\ shiftReq[r].op = "publish"
  /\ post' = [post EXCEPT ![shiftReq[r].post] =
                [status |-> "open", vehicle |-> shiftReq[r].vehicle, hired |-> NoOne]]
  /\ ShiftEnd(r)
  /\ UNCHANGED <<driver, onTrip, app, active>>

Apply(r, p, h) ==
  /\ post[p].status = "open"
  /\ app[p][h] = "none"
  /\ ShiftBegin(r, [NoShiftCall EXCEPT !.op = "apply", !.post = p, !.driver = h])
  /\ UNCHANGED <<driver, onTrip, post, app, active>>

ApplyWrite(r) ==
  /\ shiftReq[r].op = "apply"
  /\ app' = [app EXCEPT ![shiftReq[r].post][shiftReq[r].driver] = "pending"]
  /\ ShiftEnd(r)
  /\ UNCHANGED <<driver, onTrip, post, active>>

Withdraw(r, p, h) ==
  /\ app[p][h] = "pending"
  /\ ShiftBegin(r, [NoShiftCall EXCEPT !.op = "withdraw", !.post = p, !.driver = h])
  /\ UNCHANGED <<driver, onTrip, post, app, active>>

WithdrawWrite(r) ==
  /\ shiftReq[r].op = "withdraw"
  /\ app' = [app EXCEPT ![shiftReq[r].post][shiftReq[r].driver] = "withdrawn"]
  /\ ShiftEnd(r)
  /\ UNCHANGED <<driver, onTrip, post, active>>

(* acceptApplication: five writes one after the other. *)
AcceptApplication(r, p, h) ==
  /\ post[p].status = "open"
  /\ app[p][h] = "pending"
  /\ ShiftBegin(r, [NoShiftCall EXCEPT !.op = "accept", !.post = p, !.driver = h,
                           !.vehicle = post[p].vehicle])
  /\ UNCHANGED <<driver, onTrip, post, app, active>>

AcceptWrite(r) ==
  /\ shiftReq[r].op = "accept"
  /\ app' = [app EXCEPT ![shiftReq[r].post][shiftReq[r].driver] = "accepted"]
  /\ ShiftAdvance(r, "rejectOthers")
  /\ UNCHANGED <<driver, onTrip, post, active>>

RejectOthers(r) ==
  /\ shiftReq[r].op = "rejectOthers"
  /\ app' = [app EXCEPT ![shiftReq[r].post] =
               [h \in Hired |-> IF h # shiftReq[r].driver /\ @[h] = "pending"
                                THEN "rejected" ELSE @[h]]]
  /\ ShiftAdvance(r, "acceptPost")
  /\ UNCHANGED <<driver, onTrip, post, active>>

AcceptPost(r) ==
  /\ shiftReq[r].op = "acceptPost"
  /\ post' = [post EXCEPT ![shiftReq[r].post] =
                [@ EXCEPT !.status = "accepted", !.hired = shiftReq[r].driver]]
  /\ ShiftAdvance(r, "assign")
  /\ UNCHANGED <<driver, onTrip, app, active>>

Assign(r) ==
  /\ shiftReq[r].op = "assign"
  /\ active' = [active EXCEPT ![shiftReq[r].driver][shiftReq[r].vehicle] = @ + 1]
  /\ ShiftAdvance(r, "looking")
  /\ UNCHANGED <<driver, onTrip, post, app>>

LookForWork(r) ==
  /\ shiftReq[r].op = "looking"
  /\ driver' = [driver EXCEPT ![shiftReq[r].driver].status = "looking_for_work"]
  /\ ShiftEnd(r)
  /\ UNCHANGED <<onTrip, post, app, active>>

CancelPost(r, p) ==
  /\ post[p].status \in {"open", "accepted", "cancelled"}
  /\ ShiftBegin(r, [NoShiftCall EXCEPT !.op = "cancel", !.post = p])
  /\ UNCHANGED <<driver, onTrip, post, app, active>>

CancelPostWrite(r) ==
  /\ shiftReq[r].op = "cancel"
  /\ post' = [post EXCEPT ![shiftReq[r].post].status = "cancelled"]
  /\ ShiftEnd(r)
  /\ UNCHANGED <<driver, onTrip, app, active>>

(* complete: closes the post, one active assignment and the driver's day. *)
CompletePost(r, p) ==
  /\ post[p].status = "accepted"
  /\ ShiftBegin(r, [NoShiftCall EXCEPT !.op = "complete", !.post = p, !.driver = post[p].hired,
                           !.vehicle = post[p].vehicle])
  /\ UNCHANGED <<driver, onTrip, post, app, active>>

CompletePostWrite(r) ==
  /\ shiftReq[r].op = "complete"
  /\ post' = [post EXCEPT ![shiftReq[r].post].status = "completed"]
  /\ ShiftAdvance(r, "unassign")
  /\ UNCHANGED <<driver, onTrip, app, active>>

Unassign(r) ==
  LET n == active[shiftReq[r].driver][shiftReq[r].vehicle] IN
  /\ shiftReq[r].op = "unassign"
  /\ active' = IF n = 0 THEN active
               ELSE [active EXCEPT ![shiftReq[r].driver][shiftReq[r].vehicle] = n - 1]
  /\ ShiftAdvance(r, "free")
  /\ UNCHANGED <<driver, onTrip, post, app>>

\* Mutant: the driver keeps the taxi he was lent.
FreeKeepsVehicle(r) ==
  /\ shiftReq[r].op = "free"
  /\ driver' = [driver EXCEPT ![shiftReq[r].driver].status = "looking_for_work"]
  /\ ShiftEnd(r)
  /\ UNCHANGED <<onTrip, post, app, active>>

Free(r) ==
  /\ shiftReq[r].op = "free"
  /\ driver' = [driver EXCEPT ![shiftReq[r].driver] =
                  [@ EXCEPT !.status = "looking_for_work", !.vehicle = NoOne]]
  /\ ShiftEnd(r)
  /\ UNCHANGED <<onTrip, post, app, active>>

-----------------------------------------------------------------------------
Calls(r) ==
  \/ CheckInactiveDrivers(r)
  \/ \E d \in Drivers, v \in Vehicles : StartDay(r, d, v)
  \/ \E d \in Drivers, s \in SelfService : SetOnlineStatus(r, d, s)
  \/ \E p \in Posts : \/ CancelPost(r, p) \/ CompletePost(r, p)
                      \/ \E v \in Vehicles : Publish(r, p, v)
                      \/ \E h \in Hired : \/ Apply(r, p, h) \/ Withdraw(r, p, h)
                                          \/ AcceptApplication(r, p, h)

\* What a handler in flight does next.
GoOn(r) ==
  \/ StartDayWrite(r) \/ SetOnlineStatusWrite(r)
  \/ (\E d \in Drivers : Prompt(r, d)) \/ FindUnanswered(r)
  \/ (\E d \in Drivers : Disconnect(r, d)) \/ CronEnds(r)
  \/ PublishWrite(r) \/ ApplyWrite(r) \/ WithdrawWrite(r)
  \/ AcceptWrite(r) \/ RejectOthers(r) \/ AcceptPost(r) \/ Assign(r) \/ LookForWork(r)
  \/ CancelPostWrite(r) \/ CompletePostWrite(r) \/ Unassign(r) \/ Free(r)

\* Handlers of one statement: they need a free slot and leave it free.
AtOnce(r, d) ==
  \/ EndDay(r, d) \/ UpdateLocation(r, d) \/ HandleLocationUpdate(r, d) \/ ConfirmActive(r, d)
  \/ TripAssigned(r, d) \/ TripEnds(r, d)

ShiftNext ==
  \/ \E r \in ShiftReqs : Calls(r) \/ GoOn(r) \/ \E d \in Drivers : AtOnce(r, d)
  \/ \E d \in Drivers : TwoHoursPass(d) \/ GracePasses(d)

ShiftSpec == ShiftInit /\ [][ShiftNext]_shiftVars

(* No hired driver is between startDay's checks and its write just when
   complete is about to end an assignment of his. *)
DayApart ==
  \A r, q \in ShiftReqs :
    shiftReq[r].op = "start" /\ shiftReq[q].op = "unassign" => shiftReq[r].driver # shiftReq[q].driver

DayApartSpec == ShiftInit /\ [][ShiftNext /\ DayApart']_shiftVars

\* Handlers go on, the cron fires again and again, and time passes.
ShiftFairness ==
  /\ \A r \in ShiftReqs : WF_shiftVars(GoOn(r))
  /\ SF_shiftVars(\E r \in ShiftReqs : CheckInactiveDrivers(r))
  /\ \A d \in Drivers : WF_shiftVars(GracePasses(d))

ShiftFairSpec == ShiftSpec /\ ShiftFairness

-----------------------------------------------------------------------------
(* Safety *)

(* The tables and the handlers in flight keep the types of their columns. *)
ShiftTypeOK ==
  /\ driver \in [Drivers -> DriverRow]
  /\ onTrip \subseteq Drivers
  /\ post \in [Posts -> PostRow]
  /\ app \in [Posts -> [Hired -> Application]]
  /\ active \in [Hired -> [Vehicles -> Nat]]
  /\ shiftReq \in [ShiftReqs -> Handler]

(* Between handlers a hired driver has a taxi only while an active assignment
   lends it to him; complete takes both away. *)
HiredDriveWhatIsLent ==
  (\A r \in ShiftReqs : shiftReq[r] = NoShiftCall) =>
    \A h \in Hired, v \in Vehicles : driver[h].vehicle = v => active[h][v] > 0

(* A taxi is in one driver's hands at a time (startDay looks for another). *)
OneDriverPerTaxi == \A v \in Vehicles : Cardinality(Using(v)) <= 1

-----------------------------------------------------------------------------
(* Liveness *)

(* Nobody stays available for ever once his last sign of life is two hours old.
   Who has never given one is not covered: the cron does not find him. *)
QuietIsNoticed == \A d \in Drivers : []<>~(Awake(d) /\ driver[d].seen = "old")
=============================================================================
