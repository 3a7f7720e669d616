------------------------------ MODULE Enrollment ------------------------------
(***************************************************************************)
(* How a cooperative, an owner-driver, his membership, his taxis and his   *)
(* documents come to be approved, and how they are deleted again           *)
(* (cooperatives.service.ts, drivers.service.ts, vehicles.service.ts).     *)
(*                                                                         *)
(* One cooperative and one owner-driver, with the taxis he registers there *)
(* and, for the assignment of a taxi, himself as the driver assigned.      *)
(* Whatever is decided about is a subject.  Nothing runs in a transaction: *)
(* a handler's checks are one step and each later write another; a handler *)
(* in flight is a slot of enrolReq.                                        *)
(***************************************************************************)
EXTENDS Naturals, FiniteSets

CONSTANTS
  Taxis,
  EnrolReqs    \* slots for handlers in flight; one slot means no concurrency

ASSUME EnrolAssumption == Taxis \cap {"coop", "profile", "member", "paper"} = {}

Subjects == {"coop", "profile", "member", "paper"} \cup Taxis
Decision == {"none", "pending", "approved", "rejected"}

VARIABLES
  approval,    \* approval_status of each subject's row; "none": there is no row
  coopStatus,  \* cooperatives.status
  taxiStatus,  \* vehicles.status
  assigned,    \* the taxis whose assigned_driver is the driver
  hasWallet,   \* the driver's wallet row
  traces,      \* rows elsewhere that refer to the driver, or to his wallet
  enrolReq     \* handlers in flight

enrolVars == <<approval, coopStatus, taxiStatus, assigned, hasWallet, traces, enrolReq>>

EnrolOp == {"idle", "approve", "reject", "memberCheck", "saveDriver", "saveWallet", "join", "saveTaxi",
            "replace", "upload", "assign",
            "delWallet", "delPaper", "delTaxis", "delMember", "delDriver"}
EnrolCall == [op : EnrolOp, of : Subjects \cup {"-"}]
NoEnrolCall == [op |-> "idle", of |-> "-"]

EnrolBegin(r, op, s) ==
  enrolReq[r] = NoEnrolCall /\ enrolReq' = [enrolReq EXCEPT ![r] = [op |-> op, of |-> s]]
EnrolStep(r, op) == enrolReq' = [enrolReq EXCEPT ![r].op = op]
EnrolEnd(r) == enrolReq' = [enrolReq EXCEPT ![r] = NoEnrolCall]
EnrolIdle(r) == enrolReq[r] = NoEnrolCall /\ UNCHANGED enrolReq
Exists(s) == approval[s] # "none"
OnlyCall == UNCHANGED <<approval, coopStatus, taxiStatus, assigned, hasWallet, traces>>

EnrolInit ==
  /\ approval = [s \in Subjects |-> "none"]
  /\ coopStatus = "inactive"
  /\ taxiStatus = [t \in Taxis |-> "inactive"]
  /\ assigned = {} /\ hasWallet = FALSE /\ traces = {}
  /\ enrolReq = [r \in EnrolReqs |-> NoEnrolCall]

-----------------------------------------------------------------------------
(* Registering *)

(* create or registerPublic: pending and inactive. *)
RegisterCooperative(r) ==
  /\ EnrolIdle(r)
  /\ ~Exists("coop")
  /\ approval' = [approval EXCEPT !["coop"] = "pending"]
  /\ coopStatus' = "inactive"
  /\ UNCHANGED <<taxiStatus, assigned, hasWallet, traces>>

(* register: the user, the driver and the wallet are saved in turn; the phone
   keeps a second registration out. *)
RegisterDriver(r) ==
  /\ ~Exists("profile")
  /\ \A q \in EnrolReqs : enrolReq[q].op \notin {"saveDriver", "saveWallet"}
  /\ EnrolBegin(r, "saveDriver", "profile")
  /\ OnlyCall

SaveDriver(r) ==
  /\ enrolReq[r].op = "saveDriver"
  /\ approval' = [approval EXCEPT !["profile"] = "pending"]
  /\ EnrolStep(r, "saveWallet")
  /\ UNCHANGED <<coopStatus, taxiStatus, assigned, hasWallet, traces>>

SaveWallet(r) ==
  /\ enrolReq[r].op = "saveWallet"
  /\ hasWallet' = TRUE
  /\ EnrolEnd(r)
  /\ UNCHANGED <<approval, coopStatus, taxiStatus, assigned, traces>>

CoopOpen == approval["coop"] = "approved" /\ coopStatus = "active"

JoinCooperative(r) ==
  /\ approval["profile"] = "approved"
  /\ CoopOpen
  /\ ~Exists("member")
  /\ EnrolBegin(r, "join", "member")
  /\ OnlyCall

SaveMember(r) ==
  /\ enrolReq[r].op = "join"
  /\ approval' = [approval EXCEPT !["member"] = "pending"]
  /\ EnrolEnd(r)
  /\ UNCHANGED <<coopStatus, taxiStatus, assigned, hasWallet, traces>>

(* registerVehicle joins the cooperative on the way, unless that was refused. *)
RegisterVehicle(r, t) ==
  /\ approval["profile"] = "approved"
  /\ Exists("coop") /\ coopStatus = "active"
  /\ approval["member"] # "rejected"
  /\ ~Exists(t)
  /\ EnrolBegin(r, "saveTaxi", t)
  /\ approval' = IF Exists("member") THEN approval ELSE [approval EXCEPT !["member"] = "pending"]
  /\ UNCHANGED <<coopStatus, taxiStatus, assigned, hasWallet, traces>>

SaveTaxi(r) ==
  LET t == enrolReq[r].of IN
  /\ enrolReq[r].op = "saveTaxi"
  /\ approval' = [approval EXCEPT ![t] = "pending"]
  /\ taxiStatus' = [taxiStatus EXCEPT ![t] = "inactive"]
  /\ EnrolEnd(r)
  /\ UNCHANGED <<coopStatus, assigned, hasWallet, traces>>

(* uploadDocument: the document of that type is deleted and saved anew. *)
UploadDocument(r) ==
  /\ Exists("profile")
  /\ EnrolBegin(r, IF Exists("paper") THEN "replace" ELSE "upload", "paper")
  /\ OnlyCall

ReplaceDocument(r) ==
  /\ enrolReq[r].op = "replace"
  /\ approval' = [approval EXCEPT !["paper"] = "none"]
  /\ EnrolStep(r, "upload")
  /\ UNCHANGED <<coopStatus, taxiStatus, assigned, hasWallet, traces>>

SaveDocument(r) ==
  /\ enrolReq[r].op = "upload"
  /\ approval' = [approval EXCEPT !["paper"] = "pending"]
  /\ EnrolEnd(r)
  /\ UNCHANGED <<coopStatus, taxiStatus, assigned, hasWallet, traces>>

-----------------------------------------------------------------------------
(* Deciding *)

(* Only a cooperative must be pending: the others may be approved after a
   rejection, and rejected again. *)
Undecided(s) == approval[s] \in {"pending", "rejected"}

Ask(r, op, s) == EnrolBegin(r, op, s) /\ OnlyCall

ApproveCooperative(r) == approval["coop"] = "pending" /\ Ask(r, "approve", "coop")
RejectCooperative(r) == approval["coop"] = "pending" /\ Ask(r, "reject", "coop")
PlatformApprove(r) == Undecided("profile") /\ Ask(r, "approve", "profile")

PlatformReject(r) == Undecided("profile") /\ Ask(r, "reject", "profile")
CooperativeApprove(r) == Undecided("member") /\ Ask(r, "approve", "member")
CooperativeReject(r) == Undecided("member") /\ Ask(r, "reject", "member")
ApproveDocument(r) == Undecided("paper") /\ Ask(r, "approve", "paper")
RejectDocument(r) == Undecided("paper") /\ Ask(r, "reject", "paper")
ApproveVehicle(r, t) == Undecided(t) /\ Ask(r, "memberCheck", t)
RejectVehicle(r, t) == Undecided(t) /\ Ask(r, "reject", t)

\* Mutant: the owner's membership is not looked at.
CheckMemberSkipped(r) ==
  /\ enrolReq[r].op = "memberCheck"
  /\ EnrolStep(r, "approve")
  /\ OnlyCall

(* A taxi's owner must be an approved member of its cooperative. *)
CheckMember(r) ==
  /\ enrolReq[r].op = "memberCheck"
  /\ IF approval["member"] = "approved" THEN EnrolStep(r, "approve") ELSE EnrolEnd(r)
  /\ OnlyCall

(* The update is by id: of a row deleted meanwhile it changes nothing.  An
   approved cooperative is active. *)
DecisionWrite(r) ==
  LET s == enrolReq[r].of
      verdict == IF enrolReq[r].op = "approve" THEN "approved" ELSE "rejected" IN
  /\ enrolReq[r].op \in {"approve", "reject"}
  /\ approval' = IF Exists(s) THEN [approval EXCEPT ![s] = verdict] ELSE approval
  /\ coopStatus' = IF s = "coop" /\ verdict = "approved" /\ Exists(s) THEN "active" ELSE coopStatus
  /\ EnrolEnd(r)
  /\ UNCHANGED <<taxiStatus, assigned, hasWallet, traces>>

SuspendCooperative(r) ==
  /\ EnrolIdle(r)
  /\ approval["coop"] = "approved" /\ coopStatus # "suspended"
  /\ coopStatus' = "suspended"
  /\ UNCHANGED <<approval, taxiStatus, assigned, hasWallet, traces>>

ActivateCooperative(r) ==
  /\ EnrolIdle(r)
  /\ approval["coop"] = "approved" /\ coopStatus # "active"
  /\ coopStatus' = "active"
  /\ UNCHANGED <<approval, taxiStatus, assigned, hasWallet, traces>>

SuspendVehicle(r, t) ==
  /\ EnrolIdle(r)
  /\ Exists(t)
  /\ taxiStatus' = [taxiStatus EXCEPT ![t] = "suspended"]
  /\ UNCHANGED <<approval, coopStatus, assigned, hasWallet, traces>>

ActivateVehicle(r, t) ==
  /\ EnrolIdle(r)
  /\ approval[t] = "approved"
  /\ taxiStatus' = [taxiStatus EXCEPT ![t] = "active"]
  /\ UNCHANGED <<approval, coopStatus, assigned, hasWallet, traces>>

AssignDriver(r, t) ==
  /\ Exists(t) /\ approval["profile"] = "approved"
  /\ assigned \subseteq {t}
  /\ EnrolBegin(r, "assign", t)
  /\ OnlyCall

AssignWrite(r) ==
  /\ enrolReq[r].op = "assign"
  /\ assigned' = IF Exists(enrolReq[r].of) THEN assigned \cup {enrolReq[r].of} ELSE assigned
  /\ EnrolEnd(r)
  /\ UNCHANGED <<approval, coopStatus, taxiStatus, hasWallet, traces>>

UnassignDriver(r, t) ==
  /\ EnrolIdle(r)
  /\ Exists(t)
  /\ assigned' = assigned \ {t}
  /\ UNCHANGED <<approval, coopStatus, taxiStatus, hasWallet, traces>>

-----------------------------------------------------------------------------
(* Working and deleting *)

(* An offer, a trip, a rating; a recharge or a commission of the wallet. *)
DriverWorks(r) ==
  /\ EnrolIdle(r)
  /\ approval["profile"] = "approved"
  /\ \E row \in IF hasWallet THEN {"driver", "wallet"} ELSE {"driver"} : traces' = traces \cup {row}
  /\ UNCHANGED <<approval, coopStatus, taxiStatus, assigned, hasWallet>>

DeleteVehicle(r, t) ==
  /\ EnrolIdle(r)
  /\ Exists(t) /\ taxiStatus[t] # "active"
  /\ approval' = [approval EXCEPT ![t] = "none"]
  /\ assigned' = assigned \ {t}
  /\ UNCHANGED <<coopStatus, taxiStatus, hasWallet, traces>>

(* The owner may not delete one that was approved. *)
DeleteMyVehicle(r, t) == approval[t] # "approved" /\ DeleteVehicle(r, t)

(* A cooperative that is referred to cannot be deleted. *)
RemoveCooperative(r) ==
  /\ EnrolIdle(r)
  /\ Exists("coop") /\ coopStatus # "active"
  /\ ~Exists("member") /\ \A t \in Taxis : ~Exists(t)
  /\ approval' = [approval EXCEPT !["coop"] = "none"]
  /\ UNCHANGED <<coopStatus, taxiStatus, assigned, hasWallet, traces>>

(* deleteDriver, without a trip under way or money in the wallet: six deletes
   in turn, each refused by the database while another table refers to the
   row. *)
DeleteDriver(r) ==
  /\ Exists("profile")
  /\ EnrolBegin(r, IF hasWallet THEN "delWallet" ELSE "delPaper", "profile")
  /\ OnlyCall

DeleteWallet(r) ==
  /\ enrolReq[r].op = "delWallet"
  /\ IF "wallet" \in traces THEN EnrolEnd(r) /\ UNCHANGED hasWallet
                            ELSE EnrolStep(r, "delPaper") /\ hasWallet' = FALSE
  /\ UNCHANGED <<approval, coopStatus, taxiStatus, assigned, traces>>

DeleteStep(r, op, next, gone) ==
  /\ enrolReq[r].op = op
  /\ approval' = [s \in Subjects |-> IF s \in gone THEN "none" ELSE approval[s]]
  /\ assigned' = assigned \ gone
  /\ EnrolStep(r, next)
  /\ UNCHANGED <<coopStatus, taxiStatus, hasWallet, traces>>

DeleteBelongings(r) ==
  \/ DeleteStep(r, "delPaper", "delTaxis", {"paper"})
  \/ DeleteStep(r, "delTaxis", "delMember", Taxis)
  \/ DeleteStep(r, "delMember", "delDriver", {"member"})

RemoveDriver(r) ==
  /\ enrolReq[r].op = "delDriver"
  /\ approval' = IF "driver" \in traces THEN approval ELSE [approval EXCEPT !["profile"] = "none"]
  /\ EnrolEnd(r)
  /\ UNCHANGED <<coopStatus, taxiStatus, assigned, hasWallet, traces>>

-----------------------------------------------------------------------------
EnrolNext ==
  \E r \in EnrolReqs :
    \/ RegisterCooperative(r) \/ RegisterDriver(r) \/ SaveDriver(r) \/ SaveWallet(r)
    \/ JoinCooperative(r) \/ SaveMember(r) \/ SaveTaxi(r)
    \/ UploadDocument(r) \/ ReplaceDocument(r) \/ SaveDocument(r)
    \/ ApproveCooperative(r) \/ RejectCooperative(r) \/ PlatformApprove(r) \/ PlatformReject(r)
    \/ CooperativeApprove(r) \/ CooperativeReject(r) \/ ApproveDocument(r) \/ RejectDocument(r)
    \/ CheckMember(r) \/ DecisionWrite(r)
    \/ SuspendCooperative(r) \/ ActivateCooperative(r)
    \/ \E t \in Taxis :
         \/ RegisterVehicle(r, t) \/ ApproveVehicle(r, t) \/ RejectVehicle(r, t)
         \/ SuspendVehicle(r, t) \/ ActivateVehicle(r, t)
         \/ AssignDriver(r, t) \/ UnassignDriver(r, t)
         \/ DeleteVehicle(r, t) \/ DeleteMyVehicle(r, t)
    \/ AssignWrite(r) \/ DriverWorks(r) \/ RemoveCooperative(r)
    \/ DeleteDriver(r) \/ DeleteWallet(r) \/ DeleteBelongings(r) \/ RemoveDriver(r)

EnrolSpec == EnrolInit /\ [][EnrolNext]_enrolVars

(* A call that writes or deletes the driver's own row or his membership, or
   that was let in by what they say. *)
StandingCall(r) ==
  \/ enrolReq[r].op \in {"saveDriver", "join", "delWallet", "delPaper", "delTaxis", "delMember", "delDriver"}
  \/ enrolReq[r].op \in {"approve", "reject"} /\ enrolReq[r].of \in {"profile", "member"}

TaxiCall(r) ==
  \/ enrolReq[r].op \in {"saveTaxi", "memberCheck"}
  \/ enrolReq[r].op = "approve" /\ enrolReq[r].of \in Taxis

(* No two calls about the driver's standing are in flight together, nor one
   together with the registration or the approval of a taxi of his. *)
EnrolApart ==
  \A r, s \in EnrolReqs : r # s /\ StandingCall(r) => ~StandingCall(s) /\ ~TaxiCall(s)

EnrolApartSpec == EnrolInit /\ [][EnrolNext /\ EnrolApart']_enrolVars

-----------------------------------------------------------------------------
(* Properties *)

(* Rows and handlers stay within their columns. *)
EnrolTypeOK ==
  /\ approval \in [Subjects -> Decision]
  /\ coopStatus \in {"inactive", "active", "suspended"}
  /\ taxiStatus \in [Taxis -> {"inactive", "active", "suspended"}]
  /\ assigned \subseteq Taxis /\ hasWallet \in BOOLEAN /\ traces \subseteq {"driver", "wallet"}
  /\ enrolReq \in [EnrolReqs -> EnrolCall]

(* "El conductor debe ser socio aprobado de la cooperativa antes de aprobar el
   vehículo": behind an approved taxi there are an approved owner and an
   approved membership, however rows are rejected, deleted and registered
   again in between. *)
TaxisHaveMembers ==
  \A t \in Taxis :
    approval[t] = "approved" => approval["member"] = "approved" /\ approval["profile"] = "approved"

(* "Única condición bloqueante: saldo en billetera": between handlers a driver
   is there with his wallet, or gone. *)
DriversAreWhole ==
  (\A r \in EnrolReqs : enrolReq[r] = NoEnrolCall) => (Exists("profile") => hasWallet)
=============================================================================
