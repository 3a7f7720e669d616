------------------------------- MODULE MCTrips -------------------------------
(* Small instances of Trips for TLC. *)
EXTENDS Trips, TLC

\* Ids are only compared, so any permutation of each set is a symmetry.  Used
\* by the safety runs; the liveness runs do without.
Symmetry == UNION {Permutations(Trips), Permutations(Offers),
                   Permutations(Drivers), Permutations(Clients),
                   Permutations(Reqs)}
=============================================================================
