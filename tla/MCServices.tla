------------------------------ MODULE MCServices ------------------------------
(* Small instances for TLC of the services that share no table: the first
   state chooses one, which then runs alone under its own fairness, so that a
   run visits the sum of their states and not the product. *)
EXTENDS Ledger, Cards, Search, Rides, Sessions, Accounts, Enrollment, MCShifts, Passenger, DriverApp,
        Presence

CONSTANTS Services, ShortRide, Home, Shared, HomeTab

MCPayeeOf == [t \in CardTrips |-> CHOOSE d \in Payees : TRUE]
MCFare == [t \in CardTrips |-> IF t = ShortRide THEN 100 ELSE 250]
MCCommission == [t \in CardTrips |-> IF t = ShortRide THEN 10 ELSE 25]
MCBrowserOf == [t \in Tabs |-> IF t = HomeTab THEN Home ELSE Shared]

\* Trips of the ledger and slots are only compared, and no service with one slot
\* uses the slots of these.
Symmetry == UNION {Permutations(Trips), Permutations(Reqs)}

VARIABLE service   \* the one that runs

allVars == <<service, ledgerVars, cardVars, searchVars, rideVars, sessionVars, accountVars, enrolVars, shiftVars,
             passengerVars, driverAppVars, presenceVars>>

\* What tells two states apart: the variables of the others stay as they began.
MovingVars ==
  <<service, CASE service = "ledger" -> ledgerVars
               [] service = "cards" -> cardVars
               [] service = "search" -> searchVars
               [] service = "rides" -> rideVars
               [] service = "sessions" -> sessionVars
               [] service = "accounts" -> accountVars
               [] service = "enrollment" -> enrolVars
               [] service = "shifts" -> shiftVars
               [] service = "passenger" -> passengerVars
               [] service = "driverApp" -> driverAppVars
               [] service = "presence" -> presenceVars>>

AllInit ==
  /\ service \in Services
  /\ LedgerInit /\ CardInit /\ SearchInit /\ RideInit /\ SessionInit /\ AccountInit /\ EnrolInit
  /\ ShiftInit /\ PassengerInit /\ DriverAppInit /\ PresenceInit
  /\ service # "search" => request.price = Suggested
  /\ service # "driverApp" => jobs = <<>>
  /\ service # "presence" => ~isOnline
  /\ service # "ledger" =>
       rate = (CHOOSE r \in Rates : TRUE) /\ trip = [t \in Trips |-> CHOOSE row \in TripRow : row.status = "in_progress"]

AllNext ==
  /\ UNCHANGED service
  /\ service # "ledger" => UNCHANGED ledgerVars
  /\ service # "cards" => UNCHANGED cardVars
  /\ service # "search" => UNCHANGED searchVars
  /\ service # "rides" => UNCHANGED rideVars
  /\ service # "sessions" => UNCHANGED sessionVars
  /\ service # "accounts" => UNCHANGED accountVars
  /\ service # "enrollment" => UNCHANGED enrolVars
  /\ service # "shifts" => UNCHANGED shiftVars
  /\ service # "passenger" => UNCHANGED passengerVars
  /\ service # "driverApp" => UNCHANGED driverAppVars
  /\ service # "presence" => UNCHANGED presenceVars
  /\ \/ service = "ledger" /\ LedgerNext
     \/ service = "cards" /\ CardNext
     \/ service = "search" /\ SearchNext
     \/ service = "rides" /\ RideNext
     \/ service = "sessions" /\ SessionNext
     \/ service = "accounts" /\ AccountNext
     \/ service = "enrollment" /\ EnrolNext
     \/ service = "shifts" /\ ShiftNext
     \/ service = "passenger" /\ PassengerNext
     \/ service = "driverApp" /\ DriverAppNext
     \/ service = "presence" /\ PresenceNext

(* What the invariants ask to stay apart in the service that runs, and of the
   client's app.  The calls of the services not named may meet in any way. *)
AllApart ==
  /\ service = "cards" => CardApart' /\ PayoutApart /\ PaysForItsTrip'
  /\ service = "search" => SearchApart'
  /\ service = "rides" => RideApart'
  /\ service = "enrollment" => EnrolApart'
  /\ service = "shifts" => DayApart'

(* The fairness of each module.  Since service never changes, strong fairness of
   a disjunction whose disjuncts belong to different services is strong fairness
   of each. *)
AllFairness ==
  /\ AccountFairness /\ PassengerFairness
  /\ WF_searchVars(service = "search" /\ IntervalPasses)
  /\ \A r \in SearchReqs : WF_searchVars(SearchOnward(r))
  /\ WF_rideVars(service = "rides" /\ DeviationLasts)
  /\ \A r \in Pings : WF_rideVars(PingOnward(r))
  /\ SF_rideVars(service = "rides" /\ \E r \in Pings : CheckWaitTimers(r))
  /\ \A r \in Wires : WF_sessionVars(Travel(r))
  /\ \A r \in ShiftReqs : WF_shiftVars(GoOn(r))
  /\ \A d \in Drivers : WF_shiftVars(GracePasses(d))
  /\ SF_allVars(/\ \/ service = "search" /\ \E r \in SearchReqs : ExpandSearchRadii(r)
                   \/ service = "rides" /\ \E r \in Pings : CheckOneTrip(r)
                   \/ service = "shifts" /\ \E r \in ShiftReqs : CheckInactiveDrivers(r)
                /\ AllNext)

(* Every table, key and call of the services stays within its columns. *)
AllTypeOK ==
  /\ LedgerTypeOK /\ CardTypeOK /\ SearchTypeOK /\ RideTypeOK /\ SessionTypeOK /\ AccountTypeOK /\ EnrolTypeOK
  /\ ShiftTypeOK /\ PassengerTypeOK /\ DriverAppTypeOK /\ PresenceTypeOK

AllSpec == AllInit /\ [][AllNext]_allVars
AllApartSpec == AllInit /\ [][AllNext /\ AllApart]_allVars
AllFairSpec == AllSpec /\ AllFairness
=============================================================================
