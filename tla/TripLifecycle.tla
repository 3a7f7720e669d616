---------------------------- MODULE TripLifecycle ----------------------------
(***************************************************************************)
(* The trip states as ARQUITECTURA.md section 4 draws them, one step per   *)
(* arrow, with who may cancel when.  The handlers of Trips follow it when  *)
(* they stay apart.                                                        *)
(***************************************************************************)
CONSTANTS Trips, Drivers, Nil

VARIABLES status, assigned, canceller

lifecycleVars == <<status, assigned, canceller>>

LifecycleInit ==
  /\ status = [t \in Trips |-> "none"]
  /\ assigned = [t \in Trips |-> Nil]
  /\ canceller = [t \in Trips |-> Nil]

Become(t, from, to) ==
  /\ status[t] \in from
  /\ status' = [status EXCEPT ![t] = to]

Requested(t) == Become(t, {"none"}, "requested") /\ UNCHANGED <<assigned, canceller>>

\* A driver on another trip cannot be assigned this one.
Accepted(t, d) ==
  /\ \A u \in Trips : assigned[u] = d => status[u] \in {"completed", "cancelled"}
  /\ Become(t, {"requested"}, "accepted")
  /\ assigned' = [assigned EXCEPT ![t] = d]
  /\ UNCHANGED canceller

Arrived(t) ==
  Become(t, {"accepted"}, "driver_arrived") /\ UNCHANGED <<assigned, canceller>>

Started(t) ==
  /\ Become(t, {"accepted", "driver_arrived"}, "in_progress")
  /\ UNCHANGED <<assigned, canceller>>

Completed(t) ==
  Become(t, {"in_progress"}, "completed") /\ UNCHANGED <<assigned, canceller>>

Cancelled(t, by) ==
  /\ Become(t, CASE by = "no_drivers" -> {"requested"}
                 [] by = "staff" -> {"requested", "accepted", "driver_arrived", "in_progress"}
                 [] OTHER -> {"requested", "accepted", "driver_arrived"}, "cancelled")
  /\ canceller' = [canceller EXCEPT ![t] = by]
  /\ UNCHANGED assigned

LifecycleNext ==
  \E t \in Trips :
    \/ Requested(t) \/ Arrived(t) \/ Started(t) \/ Completed(t)
    \/ \E d \in Drivers : Accepted(t, d)
    \/ \E by \in {"client", "driver", "staff", "no_drivers"} : Cancelled(t, by)

LifecycleSpec == LifecycleInit /\ [][LifecycleNext]_lifecycleVars
=============================================================================
