---------------------------- MODULE ServicesProofs ----------------------------
(***************************************************************************)
(* What the services keep when MCServices puts them side by side: each     *)
(* behaviour of the composition is one of every service, the ones that do  *)
(* not run included, so that what is proved of a service holds there.      *)
(***************************************************************************)
EXTENDS MCServices, LedgerProofs, AccessProofs, FareProofs, DriversProofs, AppsProofs

(* Each begins as its module says. *)
LEMMA EachBegins ==
  AllInit => /\ LedgerInit /\ CardInit /\ SearchInit /\ RideInit /\ SessionInit /\ AccountInit
             /\ EnrolInit /\ ShiftInit /\ PassengerInit /\ DriverAppInit /\ PresenceInit
BY DEF AllInit

(* No service is disturbed by another: the composition implements each. *)
THEOREM EachServiceRuns ==
  AllSpec => /\ LedgerSpec /\ CardSpec /\ SearchSpec /\ RideSpec /\ SessionSpec /\ AccountSpec
             /\ EnrolSpec /\ ShiftSpec /\ PassengerSpec /\ DriverAppSpec /\ PresenceSpec
<1>2. [AllNext]_allVars => [LedgerNext]_ledgerVars
  BY DEF AllNext, allVars
<1>3. [AllNext]_allVars => [CardNext]_cardVars
  BY DEF AllNext, allVars
<1>4. [AllNext]_allVars => [SearchNext]_searchVars
  BY DEF AllNext, allVars
<1>5. [AllNext]_allVars => [RideNext]_rideVars
  BY DEF AllNext, allVars
<1>6. [AllNext]_allVars => [SessionNext]_sessionVars
  BY DEF AllNext, allVars
<1>7. [AllNext]_allVars => [AccountNext]_accountVars
  BY DEF AllNext, allVars
<1>8. [AllNext]_allVars => [EnrolNext]_enrolVars
  BY DEF AllNext, allVars
<1>9. [AllNext]_allVars => [ShiftNext]_shiftVars
  BY DEF AllNext, allVars
<1>10. [AllNext]_allVars => [PassengerNext]_passengerVars
  BY DEF AllNext, allVars
<1>11. [AllNext]_allVars => [DriverAppNext]_driverAppVars
  BY DEF AllNext, allVars
<1>12. [AllNext]_allVars => [PresenceNext]_presenceVars
  BY DEF AllNext, allVars
<1>13. QED
  BY EachBegins, <1>2, <1>3, <1>4, <1>5, <1>6, <1>7, <1>8, <1>9, <1>10, <1>11, <1>12, PTL
  DEF AllSpec, LedgerSpec, CardSpec, SearchSpec, RideSpec, SessionSpec, AccountSpec,
      EnrolSpec, ShiftSpec, PassengerSpec, DriverAppSpec, PresenceSpec

(* And what is asked to stay apart stays apart in each service that it is asked of. *)
THEOREM EachStaysApart ==
  AllApartSpec => /\ AllSpec
                  /\ CardApartSpec /\ []PaysForItsTrip
                  /\ SearchApartSpec /\ RideApartSpec /\ EnrolApartSpec /\ DayApartSpec
<1>1. AllInit => PaysForItsTrip
  BY EachBegins DEF CardInit, PaysForItsTrip
<1>2. [AllNext /\ AllApart]_allVars => [AllNext]_allVars
  OBVIOUS
<1>3. [AllNext /\ AllApart]_allVars => [CardNext /\ CardApart' /\ PayoutApart]_cardVars
  BY DEF AllNext, AllApart, allVars
<1>4. [AllNext /\ AllApart]_allVars => [SearchNext /\ SearchApart']_searchVars
  BY DEF AllNext, AllApart, allVars
<1>5. [AllNext /\ AllApart]_allVars => [RideNext /\ RideApart']_rideVars
  BY DEF AllNext, AllApart, allVars
<1>6. [AllNext /\ AllApart]_allVars => [EnrolNext /\ EnrolApart']_enrolVars
  BY DEF AllNext, AllApart, allVars
<1>7. [AllNext /\ AllApart]_allVars => [ShiftNext /\ DayApart']_shiftVars
  BY DEF AllNext, AllApart, allVars
<1>8. PaysForItsTrip /\ [AllNext /\ AllApart]_allVars => PaysForItsTrip'
  <2>1. PaysForItsTrip /\ UNCHANGED cardVars => PaysForItsTrip'
    BY DEF PaysForItsTrip, cardVars
  <2>2. AllNext /\ AllApart => PaysForItsTrip' \/ UNCHANGED cardVars
    BY DEF AllNext, AllApart
  <2>3. UNCHANGED allVars => UNCHANGED cardVars
    BY DEF allVars
  <2>4. QED
    BY <2>1, <2>2, <2>3
<1>9. QED
  BY EachBegins, <1>1, <1>2, <1>3, <1>4, <1>5, <1>6, <1>7, <1>8, PTL
  DEF AllApartSpec, AllSpec, CardApartSpec, SearchApartSpec, RideApartSpec, EnrolApartSpec, DayApartSpec

(* The tables, keys, calls, pages and events of all the services stay within
   their types, whatever the sizes and the number of calls in flight. *)
THEOREM AllTyped == AllSpec => []AllTypeOK
<1>1. /\ LedgerTypeOK /\ CardTypeOK /\ SearchTypeOK /\ RideTypeOK /\ SessionTypeOK /\ AccountTypeOK /\ EnrolTypeOK
      /\ ShiftTypeOK /\ PassengerTypeOK /\ DriverAppTypeOK /\ PresenceTypeOK
      => AllTypeOK
  BY DEF AllTypeOK
<1>2. QED
  BY <1>1, EachServiceRuns, TypeCorrect, CardTyped, SearchTyped, RideTyped, SessionTyped, AccountTyped,
     EnrolTypedAlways, ShiftTypedAlways, PassengerTypedAlways, DriverAppTypedAlways, PresenceTyped, PTL

(* What the run services checks on a small instance, for every number of trips,
   books, drivers, taxis, posts, codes, browsers, connections and calls in flight,
   as long as the calls named in AllApart stay apart: the books and what covers
   them, the fares, the sessions, the codes, the approvals, the loans, the rooms
   and the pages. *)
THEOREM ServicesKeep ==
  ASSUME IsFiniteSet(Payees), IsFiniteSet(CardTrips)
  PROVE  AllApartSpec =>
           /\ []WalletBooks /\ []CoopBooks /\ []CommissionOnBothBooks /\ []PostedWhenConfirmed
           /\ []CardBooks /\ []PlatformCovered /\ []FaresAboveFloor /\ []RideBooks
           /\ []RefreshMatchesSession /\ []OneDevice /\ []CodeSpentOnce
           /\ []TaxisHaveMembers /\ []HiredDriveWhatIsLent /\ []HearsNewTrips
           /\ []ScreenFits /\ []DriverSeesRide
           /\ SearchKeeps
<1>1. CardApartSpec => []CardBooks
  BY CardBooksKept
<1>2. CardApartSpec /\ []PaysForItsTrip => []PlatformCovered
  BY WhatIsOwedCameIn
<1>3. RideApartSpec => []RideBooks
  BY RideBooksKept
<1>4. EnrolApartSpec => []TaxisHaveMembers
  BY TaxisKeepTheirMembers
<1>5. DayApartSpec => []HiredDriveWhatIsLent
  BY HiredKeepWhatIsLent
<1>6. SearchApartSpec => SearchKeeps
  BY SearchKeepsItsWord
<1>7. QED
  BY <1>1, <1>2, <1>3, <1>4, <1>5, <1>6, EachServiceRuns, EachStaysApart, WalletBooksClose, CoopBooksClose,
     CommissionInBothBooks, ConfirmedWasPosted, FaresStayAboveFloor, RowIsConsistent, OneDeviceAtATime,
     CodesSpentOnce, OnlineDriverHears, PassengerSeesHisTrip, DriverSeesHisRide
=============================================================================
