------------------------------- MODULE MCShifts -------------------------------
(* Small instances of Shifts for TLC: one owner, who owns every taxi. *)
EXTENDS Shifts, TLC

MCOwnerOf == [v \in Vehicles |-> CHOOSE o \in Owners : TRUE]
=============================================================================
