----------------------------- MODULE TripCustody -----------------------------
(***************************************************************************)
(* What the trips service promises about each trip under every             *)
(* interleaving: the passenger hands a trip to one driver, that driver     *)
(* alone can turn it into a ride by presenting the passenger's code, once, *)
(* and commission is booked for rides only.  Everything the statuses do    *)
(* besides is left open.                                                   *)
(***************************************************************************)
EXTENDS Naturals

CONSTANTS Trips, Drivers, Nil

Phases == {"absent", "open", "held", "ridden", "void"}

VARIABLES
  phase,    \* absent -> open -> held -> ridden, or open -> void
  holder,   \* the driver the trip was handed to
  fees      \* commissions booked for the trip

custodyVars == <<phase, holder, fees>>

CustodyInit ==
  /\ phase = [t \in Trips |-> "absent"]
  /\ holder = [t \in Trips |-> Nil]
  /\ fees = [t \in Trips |-> 0]

Move(t, from, to) == phase[t] = from /\ phase' = [phase EXCEPT ![t] = to]

Open(t) == Move(t, "absent", "open") /\ UNCHANGED <<holder, fees>>

Hand(t, d) ==
  /\ Move(t, "open", "held")
  /\ holder' = [holder EXCEPT ![t] = d]
  /\ UNCHANGED fees

Ride(t) == Move(t, "held", "ridden") /\ UNCHANGED <<holder, fees>>

Void(t) == Move(t, "open", "void") /\ UNCHANGED <<holder, fees>>

Charge(t) ==
  /\ phase[t] = "ridden"
  /\ fees' = [fees EXCEPT ![t] = @ + 1]
  /\ UNCHANGED <<phase, holder>>

CustodyNext ==
  \E t \in Trips : \/ Open(t) \/ Ride(t) \/ Void(t) \/ Charge(t)
                   \/ \E d \in Drivers : Hand(t, d)

CustodySpec == CustodyInit /\ [][CustodyNext]_custodyVars
=============================================================================
