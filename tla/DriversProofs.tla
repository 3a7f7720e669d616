----------------------------- MODULE DriversProofs ----------------------------
(***************************************************************************)
(* Proofs about the drivers: Enrollment, who is let in and with which      *)
(* taxi, Shifts, who drives what and is online, and Presence, on which     *)
(* socket he hears of it. For any number of drivers, taxis, posts,         *)
(* handlers in flight and connections.                                     *)
(***************************************************************************)
EXTENDS Enrollment, Shifts, Presence, FiniteSetTheorems, TLAPS

-----------------------------------------------------------------------------
(* Enrollment: approvals, taxis and their members *)

USE EnrolAssumption

-----------------------------------------------------------------------------
(* Rows and handlers, for any number of taxis and of handlers in flight *)

(* A handler about a taxi names one. *)
NamesTaxi(r) == enrolReq[r].op \in {"saveTaxi", "memberCheck", "assign"} => enrolReq[r].of \in Taxis

EnrolTyped == EnrolTypeOK /\ \A r \in EnrolReqs : NamesTaxi(r)

LEMMA EnrolInitTyped == EnrolInit => EnrolTyped
<1> SUFFICES ASSUME EnrolInit PROVE EnrolTyped
  OBVIOUS
<1>1. NoEnrolCall \in EnrolCall /\ NoEnrolCall.op = "idle"
  BY DEF NoEnrolCall, EnrolCall, EnrolOp
<1>2. enrolReq \in [EnrolReqs -> EnrolCall] /\ \A r \in EnrolReqs : NamesTaxi(r)
  BY <1>1 DEF EnrolInit, NamesTaxi
<1>3. approval \in [Subjects -> Decision]
  BY DEF EnrolInit, Decision
<1>4. QED
  BY <1>2, <1>3 DEF EnrolInit, EnrolTyped, EnrolTypeOK

(* What a step does to the slot of its handler. *)
LEMMA EnrolSlots ==
  ASSUME EnrolTyped, NEW r \in EnrolReqs
  PROVE  /\ \A op \in EnrolOp : \A s \in Subjects : EnrolBegin(r, op, s) =>
              /\ enrolReq[r].op = "idle"
              /\ enrolReq'[r] = [op |-> op, of |-> s] /\ enrolReq'[r] \in EnrolCall
              /\ \A q \in EnrolReqs : q # r => enrolReq'[q] = enrolReq[q]
              /\ enrolReq' \in [EnrolReqs -> EnrolCall]
         /\ \A op \in EnrolOp : EnrolStep(r, op) =>
              /\ enrolReq'[r].op = op /\ enrolReq'[r].of = enrolReq[r].of
              /\ \A q \in EnrolReqs : q # r => enrolReq'[q] = enrolReq[q]
              /\ enrolReq' \in [EnrolReqs -> EnrolCall]
         /\ EnrolEnd(r) =>
              /\ enrolReq'[r].op = "idle"
              /\ \A q \in EnrolReqs : q # r => enrolReq'[q] = enrolReq[q]
              /\ enrolReq' \in [EnrolReqs -> EnrolCall]
<1>1. NoEnrolCall \in EnrolCall /\ NoEnrolCall.op = "idle"
  BY DEF NoEnrolCall, EnrolCall, EnrolOp
<1>t. enrolReq \in [EnrolReqs -> EnrolCall]
  BY DEF EnrolTyped, EnrolTypeOK
<1>2. ASSUME NEW op \in EnrolOp, NEW s \in Subjects, EnrolBegin(r, op, s)
      PROVE  /\ enrolReq[r].op = "idle"
             /\ enrolReq'[r] = [op |-> op, of |-> s] /\ enrolReq'[r] \in EnrolCall
             /\ \A q \in EnrolReqs : q # r => enrolReq'[q] = enrolReq[q]
             /\ enrolReq' \in [EnrolReqs -> EnrolCall]
  <2>1. [op |-> op, of |-> s] \in EnrolCall
    BY DEF EnrolCall
  <2>2. QED
    BY <1>1, <1>2, <1>t, <2>1 DEF EnrolBegin
<1>3. ASSUME NEW op \in EnrolOp, EnrolStep(r, op)
      PROVE  /\ enrolReq'[r].op = op /\ enrolReq'[r].of = enrolReq[r].of
             /\ \A q \in EnrolReqs : q # r => enrolReq'[q] = enrolReq[q]
             /\ enrolReq' \in [EnrolReqs -> EnrolCall]
  <2>1. enrolReq' = [enrolReq EXCEPT ![r] = [enrolReq[r] EXCEPT !.op = op]]
    BY <1>3 DEF EnrolStep
  <2>2. enrolReq[r] \in EnrolCall
    BY <1>t
  <2>3. [enrolReq[r] EXCEPT !.op = op] \in EnrolCall
    BY <2>2 DEF EnrolCall
  <2>4. [enrolReq[r] EXCEPT !.op = op].op = op /\ [enrolReq[r] EXCEPT !.op = op].of = enrolReq[r].of
    BY <2>2 DEF EnrolCall
  <2>5. QED
    BY <1>t, <2>1, <2>3, <2>4
<1>4. ASSUME EnrolEnd(r)
      PROVE  /\ enrolReq'[r].op = "idle"
             /\ \A q \in EnrolReqs : q # r => enrolReq'[q] = enrolReq[q]
             /\ enrolReq' \in [EnrolReqs -> EnrolCall]
  BY <1>1, <1>4, <1>t DEF EnrolEnd
<1>5. QED
  BY <1>2, <1>3, <1>4

LEMMA EnrolNextTyped == EnrolTyped /\ [EnrolNext]_enrolVars => EnrolTyped'
<1> SUFFICES ASSUME EnrolTyped, [EnrolNext]_enrolVars PROVE EnrolTyped'
  OBVIOUS
<1> USE DEF OnlyCall, EnrolIdle, Ask
<1>t. /\ EnrolTypeOK /\ \A r \in EnrolReqs : NamesTaxi(r)
      /\ {"idle", "approve", "reject", "memberCheck", "saveDriver", "saveWallet", "join", "saveTaxi",
          "replace", "upload", "assign", "delWallet", "delPaper", "delTaxis", "delMember", "delDriver"}
           = EnrolOp
      /\ {"coop", "profile", "member", "paper"} \subseteq Subjects /\ Taxis \subseteq Subjects
  BY DEF EnrolTyped, EnrolOp, Subjects
<1>k. ASSUME enrolReq' \in [EnrolReqs -> EnrolCall], \A q \in EnrolReqs : NamesTaxi(q)',
             approval' \in [Subjects -> Decision], coopStatus' \in {"inactive", "active", "suspended"},
             taxiStatus' \in [Taxis -> {"inactive", "active", "suspended"}],
             assigned' \subseteq Taxis, hasWallet' \in BOOLEAN, traces' \subseteq {"driver", "wallet"}
      PROVE  EnrolTyped'
  BY <1>k DEF EnrolTyped, EnrolTypeOK
<1>i. UNCHANGED enrolReq => enrolReq' \in [EnrolReqs -> EnrolCall] /\ \A q \in EnrolReqs : NamesTaxi(q)'
  BY <1>t DEF EnrolTypeOK, NamesTaxi
(* A handler that begins. *)
<1>b. ASSUME NEW r \in EnrolReqs, NEW op \in EnrolOp, NEW s \in Subjects, EnrolBegin(r, op, s),
             op \in {"saveTaxi", "memberCheck", "assign"} => s \in Taxis
      PROVE  enrolReq' \in [EnrolReqs -> EnrolCall] /\ \A q \in EnrolReqs : NamesTaxi(q)'
  <2>1. /\ enrolReq'[r] = [op |-> op, of |-> s] /\ enrolReq' \in [EnrolReqs -> EnrolCall]
        /\ \A q \in EnrolReqs : q # r => enrolReq'[q] = enrolReq[q]
    BY <1>b, EnrolSlots
  <2>2. QED
    BY <1>b, <1>t, <2>1 DEF NamesTaxi
(* One that goes on about the same subject, to a step that names no taxi, or ends. *)
<1>s. ASSUME NEW r \in EnrolReqs,
             EnrolEnd(r) \/ \E op \in EnrolOp \ {"saveTaxi", "memberCheck", "assign"} : EnrolStep(r, op)
      PROVE  enrolReq' \in [EnrolReqs -> EnrolCall] /\ \A q \in EnrolReqs : NamesTaxi(q)'
  <2>1. /\ enrolReq'[r].op \notin {"saveTaxi", "memberCheck", "assign"}
        /\ enrolReq' \in [EnrolReqs -> EnrolCall]
        /\ \A q \in EnrolReqs : q # r => enrolReq'[q] = enrolReq[q]
    BY <1>s, EnrolSlots
  <2>2. QED
    BY <1>t, <2>1 DEF NamesTaxi
<1>1. ASSUME NEW r \in EnrolReqs,
             \/ RegisterCooperative(r) \/ SuspendCooperative(r) \/ ActivateCooperative(r)
             \/ RemoveCooperative(r) \/ DriverWorks(r)
      PROVE  EnrolTyped'
  BY <1>1, <1>k, <1>i, <1>t
  DEF RegisterCooperative, SuspendCooperative, ActivateCooperative, RemoveCooperative, DriverWorks,
      EnrolTypeOK, Decision
<1>2. ASSUME NEW r \in EnrolReqs, NEW t \in Taxis,
             SuspendVehicle(r, t) \/ ActivateVehicle(r, t) \/ UnassignDriver(r, t)
               \/ DeleteVehicle(r, t) \/ DeleteMyVehicle(r, t)
      PROVE  EnrolTyped'
  BY <1>2, <1>k, <1>i, <1>t
  DEF SuspendVehicle, ActivateVehicle, UnassignDriver, DeleteVehicle, DeleteMyVehicle, EnrolTypeOK, Decision
<1>3. ASSUME NEW r \in EnrolReqs,
             \/ RegisterDriver(r) \/ JoinCooperative(r) \/ UploadDocument(r)
             \/ ApproveCooperative(r) \/ RejectCooperative(r) \/ PlatformApprove(r) \/ PlatformReject(r)
             \/ CooperativeApprove(r) \/ CooperativeReject(r) \/ ApproveDocument(r) \/ RejectDocument(r)
             \/ DeleteDriver(r)
      PROVE  EnrolTyped'
  <2>1. OnlyCall
    BY <1>3 DEF RegisterDriver, JoinCooperative, UploadDocument, ApproveCooperative, RejectCooperative,
      PlatformApprove, PlatformReject, CooperativeApprove, CooperativeReject, ApproveDocument,
      RejectDocument, DeleteDriver
  <2>2. PICK op \in EnrolOp \ {"saveTaxi", "memberCheck", "assign"}, s \in Subjects : EnrolBegin(r, op, s)
    BY <1>3, <1>t DEF RegisterDriver, JoinCooperative, UploadDocument, ApproveCooperative, RejectCooperative,
      PlatformApprove, PlatformReject, CooperativeApprove, CooperativeReject, ApproveDocument,
      RejectDocument, DeleteDriver
  <2>3. QED
    BY <1>b, <1>k, <1>t, <2>1, <2>2 DEF EnrolTypeOK
<1>4. ASSUME NEW r \in EnrolReqs, NEW t \in Taxis,
             ApproveVehicle(r, t) \/ RejectVehicle(r, t) \/ AssignDriver(r, t)
      PROVE  EnrolTyped'
  <2>1. PICK op \in {"memberCheck", "reject", "assign"} : EnrolBegin(r, op, t) /\ OnlyCall
    BY <1>4 DEF ApproveVehicle, RejectVehicle, AssignDriver
  <2>2. QED
    BY <1>b, <1>k, <1>t, <2>1 DEF EnrolTypeOK
<1>5. ASSUME NEW r \in EnrolReqs, NEW t \in Taxis, RegisterVehicle(r, t) PROVE EnrolTyped'
  <2>1. EnrolBegin(r, "saveTaxi", t)
    BY <1>5 DEF RegisterVehicle
  <2>2. approval' \in [Subjects -> Decision]
    BY <1>5, <1>t DEF RegisterVehicle, EnrolTypeOK, Decision
  <2>3. QED
    BY <1>5, <1>b, <1>k, <1>t, <2>1, <2>2 DEF RegisterVehicle, EnrolTypeOK
<1>6. ASSUME NEW r \in EnrolReqs, SaveDriver(r) \/ ReplaceDocument(r) PROVE EnrolTyped'
  <2>1. approval' \in [Subjects -> Decision]
    BY <1>6, <1>t DEF SaveDriver, ReplaceDocument, EnrolTypeOK, Decision
  <2>2. \E op \in EnrolOp \ {"saveTaxi", "memberCheck", "assign"} : EnrolStep(r, op)
    BY <1>6, <1>t DEF SaveDriver, ReplaceDocument
  <2>3. QED
    BY <1>6, <1>s, <1>k, <1>t, <2>1, <2>2 DEF SaveDriver, ReplaceDocument, EnrolTypeOK
<1>7. ASSUME NEW r \in EnrolReqs,
             SaveWallet(r) \/ SaveMember(r) \/ SaveDocument(r) \/ DecisionWrite(r) \/ RemoveDriver(r)
      PROVE  EnrolTyped'
  <2>1. approval' \in [Subjects -> Decision]
    BY <1>7, <1>t DEF SaveWallet, SaveMember, SaveDocument, DecisionWrite, RemoveDriver, EnrolTypeOK, Decision
  <2>2. EnrolEnd(r) /\ coopStatus' \in {coopStatus, "active"} /\ hasWallet' \in {hasWallet, TRUE}
        /\ UNCHANGED <<taxiStatus, assigned, traces>>
    BY <1>7 DEF SaveWallet, SaveMember, SaveDocument, DecisionWrite, RemoveDriver
  <2>3. QED
    BY <1>s, <1>k, <1>t, <2>1, <2>2 DEF EnrolTypeOK
<1>8. ASSUME NEW r \in EnrolReqs, SaveTaxi(r) \/ AssignWrite(r) PROVE EnrolTyped'
  <2>0. PICK t \in Taxis : t = enrolReq[r].of
    BY <1>8, <1>t DEF SaveTaxi, AssignWrite, NamesTaxi
  <2>1. /\ approval' \in [Subjects -> Decision] /\ assigned' \subseteq Taxis
        /\ taxiStatus' \in [Taxis -> {"inactive", "active", "suspended"}]
    BY <1>8, <1>t, <2>0 DEF SaveTaxi, AssignWrite, EnrolTypeOK, Decision
  <2>2. EnrolEnd(r) /\ UNCHANGED <<coopStatus, hasWallet, traces>>
    BY <1>8 DEF SaveTaxi, AssignWrite
  <2>3. QED
    BY <1>s, <1>k, <1>t, <2>1, <2>2 DEF EnrolTypeOK
<1>9. ASSUME NEW r \in EnrolReqs, CheckMember(r) PROVE EnrolTyped'
  <2>1. EnrolStep(r, "approve") \/ EnrolEnd(r)
    BY <1>9 DEF CheckMember
  <2>2. QED
    BY <1>9, <1>s, <1>k, <1>t, <2>1 DEF CheckMember, EnrolTypeOK
<1>10. ASSUME NEW r \in EnrolReqs, DeleteWallet(r) PROVE EnrolTyped'
  <2>1. (EnrolStep(r, "delPaper") \/ EnrolEnd(r)) /\ hasWallet' \in {hasWallet, FALSE}
    BY <1>10 DEF DeleteWallet
  <2>2. QED
    BY <1>10, <1>s, <1>k, <1>t, <2>1 DEF DeleteWallet, EnrolTypeOK
<1>11. ASSUME NEW r \in EnrolReqs, DeleteBelongings(r) PROVE EnrolTyped'
  <2>1. /\ approval' \in [Subjects -> Decision] /\ assigned' \subseteq Taxis
        /\ UNCHANGED <<coopStatus, taxiStatus, hasWallet, traces>>
        /\ EnrolStep(r, "delTaxis") \/ EnrolStep(r, "delMember") \/ EnrolStep(r, "delDriver")
    BY <1>11, <1>t DEF DeleteBelongings, DeleteStep, EnrolTypeOK, Decision
  <2>2. \E op \in EnrolOp \ {"saveTaxi", "memberCheck", "assign"} : EnrolStep(r, op)
    BY <1>t, <2>1
  <2>3. QED
    BY <1>s, <1>k, <1>t, <2>1, <2>2 DEF EnrolTypeOK
<1>12. CASE UNCHANGED enrolVars
  BY <1>12, <1>k, <1>i, <1>t DEF enrolVars, EnrolTypeOK
<1>13. QED
  BY <1>1, <1>2, <1>3, <1>4, <1>5, <1>6, <1>7, <1>8, <1>9, <1>10, <1>11, <1>12 DEF EnrolNext

(* Rows and handlers of an enrollment stay within their columns. *)
THEOREM EnrolTypedAlways == EnrolSpec => []EnrolTypeOK
<1>1. EnrolTyped => EnrolTypeOK
  BY DEF EnrolTyped
<1>2. QED
  BY <1>1, EnrolInitTyped, EnrolNextTyped, PTL DEF EnrolSpec

-----------------------------------------------------------------------------
(* Approved taxis and their owner *)

Approved(s) == approval[s] = "approved"
NoTaxiApproved == \A t \in Taxis : ~Approved(t)

(* What a call in flight was let in by, and its writes still rely on. *)
CallStands(r) ==
  /\ enrolReq[r].op = "approve" /\ enrolReq[r].of \in Taxis => Approved("member") /\ Approved("profile")
  /\ enrolReq[r].op = "join" => Approved("profile") /\ ~Exists("member")
  /\ enrolReq[r].op = "saveDriver" => ~Exists("profile")
  /\ enrolReq[r].op = "reject" /\ enrolReq[r].of \in {"profile", "member"} => ~Approved(enrolReq[r].of)
  /\ enrolReq[r].op \in {"delMember", "delDriver"} => NoTaxiApproved
  /\ enrolReq[r].op = "delDriver" => ~Exists("member")

EnrolInv ==
  /\ EnrolTyped /\ EnrolApart
  /\ Exists("member") => Approved("profile")
  /\ TaxisHaveMembers
  /\ \A r \in EnrolReqs : CallStands(r)

(* A step that leaves the driver's row and his membership alone, and approves
   no taxi, keeps everything but what the handler that took it relies on. *)
LEMMA StandingKept ==
  ASSUME EnrolInv, EnrolTyped', EnrolApart',
         NEW r \in EnrolReqs,
         \A q \in EnrolReqs : q # r => enrolReq'[q] = enrolReq[q],
         approval'["profile"] = approval["profile"], approval'["member"] = approval["member"],
         \A t \in Taxis : approval'[t] = "approved" => approval[t] = "approved",
         CallStands(r)'
  PROVE  EnrolInv'
<1>1. \A q \in EnrolReqs : q # r => CallStands(q)'
  BY DEF EnrolInv, CallStands, Approved, Exists, NoTaxiApproved
<1>2. TaxisHaveMembers' /\ (Exists("member") => Approved("profile"))'
  BY DEF EnrolInv, TaxisHaveMembers, Approved, Exists
<1>3. QED
  BY <1>1, <1>2 DEF EnrolInv

(* Beside a call about the driver's standing, no other one relies on it. *)
LEMMA OthersStandApart ==
  ASSUME EnrolInv, NEW r \in EnrolReqs, StandingCall(r),
         \A q \in EnrolReqs : q # r => enrolReq'[q] = enrolReq[q]
  PROVE  \A q \in EnrolReqs : q # r => CallStands(q)'
<1> SUFFICES ASSUME NEW q \in EnrolReqs, q # r PROVE CallStands(q)'
  OBVIOUS
<1>1. ~StandingCall(q) /\ ~TaxiCall(q)
  BY DEF EnrolInv, EnrolApart
<1>2. enrolReq'[q] = enrolReq[q]
  OBVIOUS
<1>3. QED
  BY <1>1, <1>2 DEF StandingCall, TaxiCall, CallStands

LEMMA EnrolInvInit == EnrolInit => EnrolInv
<1> SUFFICES ASSUME EnrolInit PROVE EnrolInv
  OBVIOUS
<1>1. \A r \in EnrolReqs : enrolReq[r].op = "idle"
  BY DEF EnrolInit, NoEnrolCall
<1>2. EnrolApart /\ \A r \in EnrolReqs : CallStands(r)
  BY <1>1 DEF EnrolApart, StandingCall, TaxiCall, CallStands
<1>3. TaxisHaveMembers /\ ~Exists("member")
  BY DEF EnrolInit, TaxisHaveMembers, Exists, Subjects
<1>4. QED
  BY <1>2, <1>3, EnrolInitTyped DEF EnrolInv

LEMMA EnrolInvNext == EnrolInv /\ [EnrolNext /\ EnrolApart']_enrolVars => EnrolInv'
<1> SUFFICES ASSUME EnrolInv, [EnrolNext /\ EnrolApart']_enrolVars PROVE EnrolInv'
  OBVIOUS
<1>t. EnrolTyped /\ EnrolTyped'
  BY EnrolNextTyped DEF EnrolInv
<1>d. /\ approval \in [Subjects -> Decision] /\ enrolReq \in [EnrolReqs -> EnrolCall]
      /\ {"coop", "profile", "member", "paper"} \subseteq Subjects /\ Taxis \subseteq Subjects
      /\ "coop" \notin Taxis /\ "profile" \notin Taxis /\ "member" \notin Taxis /\ "paper" \notin Taxis
  BY <1>t DEF EnrolTyped, EnrolTypeOK, Subjects
<1>u. CASE UNCHANGED enrolVars
  <2>1. EnrolApart' /\ \A r \in EnrolReqs : CallStands(r)'
    BY <1>u DEF enrolVars, EnrolInv, EnrolApart, StandingCall, TaxiCall, CallStands, Approved, Exists,
      NoTaxiApproved
  <2>2. QED
    BY <1>u, <1>t, <2>1 DEF enrolVars, EnrolInv, TaxisHaveMembers, Approved, Exists
<1>n. CASE EnrolNext /\ EnrolApart'
  <2>a. EnrolApart'
    BY <1>n
  <2>s. ASSUME NEW r \in EnrolReqs,
               EnrolEnd(r) \/ UNCHANGED enrolReq \/ (\E op \in EnrolOp : EnrolStep(r, op))
                 \/ \E op \in EnrolOp, s \in Subjects : EnrolBegin(r, op, s)
        PROVE  \A q \in EnrolReqs : q # r => enrolReq'[q] = enrolReq[q]
    BY <1>t, <2>s, EnrolSlots
  (* Steps of no consequence to what was promised: the row they write is
     another, and what the handler goes on to do relies on nothing. *)
  <2>k. ASSUME NEW r \in EnrolReqs,
               \A q \in EnrolReqs : q # r => enrolReq'[q] = enrolReq[q],
               approval'["profile"] = approval["profile"], approval'["member"] = approval["member"],
               \A t \in Taxis : approval'[t] = "approved" => approval[t] = "approved",
               \/ UNCHANGED enrolReq
               \/ enrolReq'[r].op \in {"idle", "saveWallet", "upload", "replace", "assign", "saveTaxi",
                     "memberCheck", "delWallet", "delPaper", "delTaxis"}
        PROVE  EnrolInv'
    <3>1. CallStands(r)'
      BY <2>k DEF EnrolInv, CallStands, Approved, Exists, NoTaxiApproved
    <3>2. QED
      BY <1>t, <2>a, <2>k, <3>1, StandingKept
  <2>1. ASSUME NEW r \in EnrolReqs,
               \/ RegisterCooperative(r) \/ SuspendCooperative(r) \/ ActivateCooperative(r)
               \/ RemoveCooperative(r) \/ DriverWorks(r)
        PROVE  EnrolInv'
    <3>1. /\ UNCHANGED enrolReq
          /\ approval'["profile"] = approval["profile"] /\ approval'["member"] = approval["member"]
          /\ \A t \in Taxis : approval'[t] = "approved" => approval[t] = "approved"
      BY <2>1, <1>d DEF RegisterCooperative, SuspendCooperative, ActivateCooperative, RemoveCooperative,
        DriverWorks, EnrolIdle
    <3>2. QED
      BY <2>k, <2>s, <3>1
  <2>2. ASSUME NEW r \in EnrolReqs, NEW t \in Taxis,
               SuspendVehicle(r, t) \/ ActivateVehicle(r, t) \/ UnassignDriver(r, t)
                 \/ DeleteVehicle(r, t) \/ DeleteMyVehicle(r, t)
        PROVE  EnrolInv'
    <3>1. /\ UNCHANGED enrolReq
          /\ approval'["profile"] = approval["profile"] /\ approval'["member"] = approval["member"]
          /\ \A v \in Taxis : approval'[v] = "approved" => approval[v] = "approved"
      BY <2>2, <1>d DEF SuspendVehicle, ActivateVehicle, UnassignDriver, DeleteVehicle, DeleteMyVehicle,
        EnrolIdle
    <3>2. QED
      BY <2>k, <2>s, <3>1
  (* A call that was let in keeps what let it in. *)
  <2>b. ASSUME NEW r \in EnrolReqs, NEW op \in EnrolOp, NEW s \in Subjects, EnrolBegin(r, op, s), OnlyCall,
               op \notin {"delMember", "delDriver"},
               op = "approve" => s \notin Taxis,
               op = "join" => Approved("profile") /\ ~Exists("member"),
               op = "saveDriver" => ~Exists("profile"),
               op = "reject" /\ s \in {"profile", "member"} => ~Approved(s)
        PROVE  EnrolInv'
    <3>1. enrolReq'[r] = [op |-> op, of |-> s] /\ \A q \in EnrolReqs : q # r => enrolReq'[q] = enrolReq[q]
      BY <1>t, <2>b, EnrolSlots
    <3>2. approval' = approval
      BY <2>b DEF OnlyCall
    <3>3. CallStands(r)'
      BY <2>b, <3>1, <3>2 DEF CallStands, Approved, Exists
    <3>4. QED
      BY <1>t, <2>a, <3>1, <3>2, <3>3, StandingKept
  <2>o. {"idle", "approve", "reject", "memberCheck", "saveDriver", "saveWallet", "join", "saveTaxi",
         "replace", "upload", "assign", "delWallet", "delPaper", "delTaxis", "delMember", "delDriver"}
           = EnrolOp
    BY DEF EnrolOp
  <2>3. ASSUME NEW r \in EnrolReqs, RegisterDriver(r) \/ JoinCooperative(r) \/ UploadDocument(r) \/ DeleteDriver(r)
        PROVE  EnrolInv'
    <3>1. CASE RegisterDriver(r)
      BY <1>d, <2>b, <2>o, <3>1 DEF RegisterDriver
    <3>2. CASE JoinCooperative(r)
      BY <1>d, <2>b, <2>o, <3>2 DEF JoinCooperative, Approved
    <3>3. CASE UploadDocument(r)
      BY <1>d, <2>b, <2>o, <3>3 DEF UploadDocument
    <3>4. CASE DeleteDriver(r)
      BY <1>d, <2>b, <2>o, <3>4 DEF DeleteDriver
    <3>5. QED
      BY <2>3, <3>1, <3>2, <3>3, <3>4
  <2>4. ASSUME NEW r \in EnrolReqs,
               \/ ApproveCooperative(r) \/ RejectCooperative(r) \/ PlatformApprove(r) \/ PlatformReject(r)
               \/ CooperativeApprove(r) \/ CooperativeReject(r) \/ ApproveDocument(r) \/ RejectDocument(r)
               \/ \E t \in Taxis : ApproveVehicle(r, t) \/ RejectVehicle(r, t)
        PROVE  EnrolInv'
    <3>1. PICK op \in {"approve", "reject", "memberCheck"}, s \in Subjects :
            /\ EnrolBegin(r, op, s) /\ OnlyCall
            /\ op = "approve" => s \notin Taxis
            /\ s \in {"profile", "member"} => Undecided(s)
      BY <1>d, <2>4 DEF ApproveCooperative, RejectCooperative, PlatformApprove, PlatformReject, CooperativeApprove,
        CooperativeReject, ApproveDocument, RejectDocument, ApproveVehicle, RejectVehicle, Ask
    <3>2. s \in {"profile", "member"} => ~Approved(s)
      BY <3>1 DEF Undecided, Approved
    <3>3. op \in EnrolOp /\ op \notin {"join", "saveDriver", "delMember", "delDriver"}
      BY <2>o, <3>1
    <3>4. QED
      BY <2>b, <3>1, <3>2, <3>3
  <2>5. ASSUME NEW r \in EnrolReqs, NEW t \in Taxis, AssignDriver(r, t) PROVE EnrolInv'
    BY <1>d, <2>5, <2>b, <2>o DEF AssignDriver
  <2>6. ASSUME NEW r \in EnrolReqs,
               SaveWallet(r) \/ SaveTaxi(r) \/ ReplaceDocument(r) \/ SaveDocument(r) \/ AssignWrite(r)
                 \/ DeleteWallet(r)
        PROVE  EnrolInv'
    <3>1. enrolReq'[r].op \in {"idle", "upload", "delPaper"} /\ \A q \in EnrolReqs : q # r => enrolReq'[q] = enrolReq[q]
      BY <1>t, <2>6, <2>o, EnrolSlots
      DEF SaveWallet, SaveTaxi, ReplaceDocument, SaveDocument, AssignWrite, DeleteWallet
    <3>2. enrolReq[r].op = "saveTaxi" => enrolReq[r].of \in Taxis
      BY <1>t DEF EnrolTyped, NamesTaxi
    <3>3. /\ approval'["profile"] = approval["profile"] /\ approval'["member"] = approval["member"]
          /\ \A t \in Taxis : approval'[t] = "approved" => approval[t] = "approved"
      BY <1>d, <2>6, <3>2
      DEF SaveWallet, SaveTaxi, ReplaceDocument, SaveDocument, AssignWrite, DeleteWallet
    <3>4. QED
      BY <2>k, <3>1, <3>3
  <2>7. ASSUME NEW r \in EnrolReqs, NEW t \in Taxis, RegisterVehicle(r, t) PROVE EnrolInv'
    <3>1. /\ enrolReq'[r] = [op |-> "saveTaxi", of |-> t]
          /\ \A q \in EnrolReqs : q # r => enrolReq'[q] = enrolReq[q]
      BY <1>t, <1>d, <2>7, <2>o, EnrolSlots DEF RegisterVehicle
    <3>2. Approved("profile") /\ (approval' = approval \/ (~Exists("member") /\ approval' = [approval EXCEPT !["member"] = "pending"]))
      BY <2>7 DEF RegisterVehicle, Approved
    <3>3. CASE approval' = approval
      BY <2>k, <3>1, <3>3
    <3>4. CASE ~Exists("member") /\ approval' = [approval EXCEPT !["member"] = "pending"]
      <4>1. NoTaxiApproved
        BY <3>4 DEF EnrolInv, TaxisHaveMembers, NoTaxiApproved, Approved, Exists
      <4>2. /\ approval'["member"] = "pending" /\ approval'["profile"] = "approved"
            /\ \A v \in Taxis : approval'[v] = approval[v]
        BY <1>d, <3>2, <3>4 DEF Approved
      <4>3. TaxisHaveMembers' /\ Approved("profile")'
        BY <4>1, <4>2 DEF TaxisHaveMembers, NoTaxiApproved, Approved
      <4>4. TaxiCall(r)'
        BY <3>1 DEF TaxiCall
      <4>5. \A q \in EnrolReqs : q # r => ~StandingCall(q)'
        BY <2>a, <4>4 DEF EnrolApart
      <4>6. ASSUME NEW q \in EnrolReqs, q # r PROVE CallStands(q)'
        <5>1. ~StandingCall(q)' /\ enrolReq'[q] = enrolReq[q] /\ CallStands(q)
          BY <3>1, <4>5, <4>6 DEF EnrolInv
        <5>2. ~(enrolReq[q].op = "approve" /\ enrolReq[q].of \in Taxis)
          BY <5>1, <3>4 DEF CallStands, Approved, Exists
        <5>3. QED
          BY <5>1, <5>2 DEF StandingCall, CallStands
      <4>7. CallStands(r)'
        BY <3>1 DEF CallStands
      <4>8. QED
        BY <1>t, <2>a, <4>3, <4>6, <4>7 DEF EnrolInv
    <3>5. QED
      BY <3>2, <3>3, <3>4
  <2>8. ASSUME NEW r \in EnrolReqs, CheckMember(r) PROVE EnrolInv'
    <3>1. \A q \in EnrolReqs : q # r => enrolReq'[q] = enrolReq[q]
      BY <1>t, <2>8, <2>o, EnrolSlots DEF CheckMember
    <3>2. approval' = approval
      BY <2>8 DEF CheckMember, OnlyCall
    <3>3. CASE Approved("member") /\ EnrolStep(r, "approve")
      <4>1. Approved("profile")
        BY <3>3 DEF EnrolInv, Approved, Exists
      <4>2. enrolReq'[r].op = "approve"
        BY <1>t, <2>o, <3>3, EnrolSlots
      <4>3. CallStands(r)'
        BY <3>2, <3>3, <4>1, <4>2 DEF CallStands, Approved
      <4>4. QED
        BY <1>t, <2>a, <3>1, <3>2, <4>3, StandingKept
    <3>4. CASE EnrolEnd(r)
      <4>1. enrolReq'[r].op = "idle"
        BY <1>t, <3>4, EnrolSlots
      <4>2. QED
        BY <2>k, <3>1, <3>2, <4>1
    <3>5. QED
      BY <2>8, <3>3, <3>4 DEF CheckMember, Approved
  (* A write about the driver's own standing. *)
  <2>w. ASSUME NEW r \in EnrolReqs, StandingCall(r),
               \A q \in EnrolReqs : q # r => enrolReq'[q] = enrolReq[q],
               CallStands(r)', (Exists("member") => Approved("profile"))', TaxisHaveMembers'
        PROVE  EnrolInv'
    <3>1. \A q \in EnrolReqs : CallStands(q)'
      BY <2>w, OthersStandApart
    <3>2. QED
      BY <1>t, <2>a, <2>w, <3>1 DEF EnrolInv
  <2>9. ASSUME NEW r \in EnrolReqs, SaveDriver(r) PROVE EnrolInv'
    <3>1. /\ enrolReq'[r].op = "saveWallet" /\ StandingCall(r)
          /\ \A q \in EnrolReqs : q # r => enrolReq'[q] = enrolReq[q]
      BY <1>t, <2>9, <2>o, EnrolSlots DEF SaveDriver, StandingCall
    <3>2. ~Exists("profile") /\ approval' = [approval EXCEPT !["profile"] = "pending"]
      BY <2>9 DEF SaveDriver, EnrolInv, CallStands
    <3>3. ~Exists("member") /\ NoTaxiApproved
      BY <3>2 DEF EnrolInv, TaxisHaveMembers, NoTaxiApproved, Approved, Exists
    <3>4. (Exists("member") => Approved("profile"))' /\ TaxisHaveMembers'
      BY <1>d, <3>2, <3>3 DEF TaxisHaveMembers, NoTaxiApproved, Approved, Exists
    <3>5. CallStands(r)'
      BY <3>1 DEF CallStands
    <3>6. QED
      BY <2>w, <3>1, <3>4, <3>5
  <2>10. ASSUME NEW r \in EnrolReqs, SaveMember(r) PROVE EnrolInv'
    <3>1. /\ enrolReq'[r].op = "idle" /\ StandingCall(r)
          /\ \A q \in EnrolReqs : q # r => enrolReq'[q] = enrolReq[q]
      BY <1>t, <2>10, <2>o, EnrolSlots DEF SaveMember, StandingCall
    <3>2. ~Exists("member") /\ Approved("profile") /\ approval' = [approval EXCEPT !["member"] = "pending"]
      BY <2>10 DEF SaveMember, EnrolInv, CallStands
    <3>3. NoTaxiApproved
      BY <3>2 DEF EnrolInv, TaxisHaveMembers, NoTaxiApproved, Approved, Exists
    <3>4. (Exists("member") => Approved("profile"))' /\ TaxisHaveMembers'
      BY <1>d, <3>2, <3>3 DEF TaxisHaveMembers, NoTaxiApproved, Approved, Exists
    <3>5. CallStands(r)'
      BY <3>1 DEF CallStands
    <3>6. QED
      BY <2>w, <3>1, <3>4, <3>5
  <2>11. ASSUME NEW r \in EnrolReqs, DeleteBelongings(r) PROVE EnrolInv'
    <3>1. CASE DeleteStep(r, "delPaper", "delTaxis", {"paper"}) \/ DeleteStep(r, "delTaxis", "delMember", Taxis)
      <4>1. /\ enrolReq'[r].op \in {"delTaxis", "delMember"}
            /\ \A q \in EnrolReqs : q # r => enrolReq'[q] = enrolReq[q]
        BY <1>t, <2>o, <3>1, EnrolSlots DEF DeleteStep
      <4>2. /\ approval'["profile"] = approval["profile"] /\ approval'["member"] = approval["member"]
            /\ \A t \in Taxis : approval'[t] = "approved" => approval[t] = "approved"
        BY <1>d, <3>1 DEF DeleteStep
      <4>3. enrolReq'[r].op = "delMember" => \A t \in Taxis : approval'[t] = "none"
        <5>1. CASE DeleteStep(r, "delPaper", "delTaxis", {"paper"})
          BY <1>t, <2>o, <5>1, EnrolSlots DEF DeleteStep
        <5>2. CASE DeleteStep(r, "delTaxis", "delMember", Taxis)
          BY <1>d, <5>2 DEF DeleteStep
        <5>3. QED
          BY <3>1, <5>1, <5>2
      <4>4. CallStands(r)'
        BY <4>1, <4>3 DEF CallStands, NoTaxiApproved, Approved
      <4>5. QED
        BY <1>t, <2>a, <4>1, <4>2, <4>4, StandingKept
    <3>2. CASE DeleteStep(r, "delMember", "delDriver", {"member"})
      <4>1. /\ enrolReq'[r].op = "delDriver" /\ StandingCall(r)
            /\ \A q \in EnrolReqs : q # r => enrolReq'[q] = enrolReq[q]
        BY <1>t, <2>o, <3>2, EnrolSlots DEF DeleteStep, StandingCall
      <4>2. NoTaxiApproved
        BY <3>2 DEF DeleteStep, EnrolInv, CallStands
      <4>3. approval'["member"] = "none" /\ \A t \in Taxis : approval'[t] = approval[t]
        BY <1>d, <3>2 DEF DeleteStep
      <4>4. ~Exists("member")' /\ NoTaxiApproved' /\ TaxisHaveMembers'
        BY <4>2, <4>3 DEF NoTaxiApproved, Approved, Exists, TaxisHaveMembers
      <4>5. CallStands(r)'
        BY <4>1, <4>4 DEF CallStands
      <4>6. QED
        BY <2>w, <4>1, <4>4, <4>5
    <3>3. QED
      BY <2>11, <3>1, <3>2 DEF DeleteBelongings
  <2>12. ASSUME NEW r \in EnrolReqs, RemoveDriver(r) PROVE EnrolInv'
    <3>1. /\ enrolReq'[r].op = "idle" /\ StandingCall(r)
          /\ \A q \in EnrolReqs : q # r => enrolReq'[q] = enrolReq[q]
      BY <1>t, <2>12, <2>o, EnrolSlots DEF RemoveDriver, StandingCall
    <3>2. NoTaxiApproved /\ ~Exists("member")
      BY <2>12 DEF RemoveDriver, EnrolInv, CallStands
    <3>3. approval'["member"] = approval["member"] /\ \A t \in Taxis : approval'[t] = approval[t]
      BY <1>d, <2>12 DEF RemoveDriver
    <3>4. (Exists("member") => Approved("profile"))' /\ TaxisHaveMembers'
      BY <3>2, <3>3 DEF TaxisHaveMembers, NoTaxiApproved, Approved, Exists
    <3>5. CallStands(r)'
      BY <3>1 DEF CallStands
    <3>6. QED
      BY <2>w, <3>1, <3>4, <3>5
  <2>13. ASSUME NEW r \in EnrolReqs, DecisionWrite(r) PROVE EnrolInv'
    <3> DEFINE s == enrolReq[r].of
               verdict == IF enrolReq[r].op = "approve" THEN "approved" ELSE "rejected"
    <3>1. /\ enrolReq[r].op \in {"approve", "reject"} /\ enrolReq'[r].op = "idle"
          /\ \A q \in EnrolReqs : q # r => enrolReq'[q] = enrolReq[q]
      BY <1>t, <2>13, EnrolSlots DEF DecisionWrite
    <3>2. approval' = IF Exists(s) THEN [approval EXCEPT ![s] = verdict] ELSE approval
      BY <2>13 DEF DecisionWrite
    <3>3. CallStands(r)' /\ CallStands(r)
      BY <3>1 DEF CallStands, EnrolInv
    <3>4. CASE s \in {"profile", "member"}
      <4>1. StandingCall(r)
        BY <3>1, <3>4 DEF StandingCall
      <4>2. enrolReq[r].op = "reject" => ~Approved(s)
        BY <3>3, <3>4 DEF CallStands
      <4>3. (Exists("member") => Approved("profile"))' /\ TaxisHaveMembers'
        <5>1. CASE ~Exists(s)
          BY <3>2, <5>1 DEF EnrolInv, TaxisHaveMembers, Approved, Exists
        <5>2. CASE Exists(s) /\ s = "profile"
          <6>1. approval'["profile"] = verdict /\ approval'["member"] = approval["member"]
                /\ \A t \in Taxis : approval'[t] = approval[t]
            BY <1>d, <3>2, <5>2
          <6>2. QED
            BY <3>1, <4>2, <5>2, <6>1 DEF EnrolInv, TaxisHaveMembers, Approved, Exists
        <5>3. CASE Exists(s) /\ s = "member"
          <6>1. approval'["member"] = verdict /\ approval'["profile"] = approval["profile"]
                /\ \A t \in Taxis : approval'[t] = approval[t]
            BY <1>d, <3>2, <5>3
          <6>2. QED
            BY <3>1, <4>2, <5>3, <6>1 DEF EnrolInv, TaxisHaveMembers, Approved, Exists
        <5>4. QED
          BY <3>4, <5>1, <5>2, <5>3
      <4>4. QED
        BY <2>w, <3>1, <3>3, <4>1, <4>3
    <3>5. CASE s \notin {"profile", "member"} /\ ~(s \in Taxis /\ enrolReq[r].op = "approve")
      <4>1. /\ approval'["profile"] = approval["profile"] /\ approval'["member"] = approval["member"]
            /\ \A t \in Taxis : approval'[t] = "approved" => approval[t] = "approved"
        BY <1>d, <3>1, <3>2, <3>5
      <4>2. QED
        BY <2>k, <3>1, <4>1
    <3>6. CASE s \in Taxis /\ enrolReq[r].op = "approve"
      <4>1. approval["member"] = "approved" /\ approval["profile"] = "approved"
        BY <3>3, <3>6 DEF CallStands, Approved
      <4>2. approval'["member"] = approval["member"] /\ approval'["profile"] = approval["profile"]
        BY <1>d, <3>2, <3>6
      <4>3. TaxisHaveMembers' /\ Approved("profile")'
        BY <4>1, <4>2 DEF TaxisHaveMembers, Approved
      <4>4. TaxiCall(r)
        BY <3>6 DEF TaxiCall
      <4>5. ASSUME NEW q \in EnrolReqs, q # r PROVE CallStands(q)'
        <5>1. ~StandingCall(q) /\ enrolReq'[q] = enrolReq[q]
          BY <3>1, <4>4, <4>5 DEF EnrolInv, EnrolApart
        <5>2. QED
          BY <5>1, <4>1, <4>2 DEF StandingCall, CallStands, Approved
      <4>6. QED
        BY <1>t, <2>a, <3>3, <4>3, <4>5 DEF EnrolInv
    <3>7. QED
      BY <3>4, <3>5, <3>6
  <2>14. QED
    BY <1>n, <2>1, <2>2, <2>3, <2>4, <2>5, <2>6, <2>7, <2>8, <2>9, <2>10, <2>11, <2>12, <2>13 DEF EnrolNext
<1>q. QED
  BY <1>u, <1>n

(* Behind an approved taxi there are an approved owner and an approved
   membership, whatever is registered, decided, rejected and deleted, as long
   as no two of the calls that decide it overlap. *)
THEOREM TaxisKeepTheirMembers == EnrolApartSpec => []TaxisHaveMembers
<1>1. EnrolInv => TaxisHaveMembers
  BY DEF EnrolInv
<1>2. QED
  BY <1>1, EnrolInvInit, EnrolInvNext, PTL DEF EnrolApartSpec

(* One handler at a time is one way of keeping them apart. *)
THEOREM OneHandlerEnrols ==
  ASSUME \A r, s \in EnrolReqs : r = s
  PROVE  EnrolSpec => []TaxisHaveMembers
<1>1. EnrolApart /\ EnrolApart'
  BY DEF EnrolApart
<1>2. EnrolInv /\ [EnrolNext]_enrolVars => EnrolInv'
  BY <1>1, EnrolInvNext
<1>3. EnrolInv => TaxisHaveMembers
  BY DEF EnrolInv
<1>4. QED
  BY <1>2, <1>3, EnrolInvInit, PTL DEF EnrolSpec

-----------------------------------------------------------------------------
(* Drivers and their wallets *)

(* No table but those deleteDriver empties refers to the driver it is about
   to remove. *)
NothingInTheWay == \A r \in EnrolReqs : enrolReq[r].op = "delDriver" => "driver" \notin traces

\* A call that is to save the wallet or to remove the driver.
Mends(r) == enrolReq[r].op \in {"saveWallet", "delPaper", "delTaxis", "delMember", "delDriver"}

WholeInv == EnrolTyped /\ (Exists("profile") /\ ~hasWallet => \E r \in EnrolReqs : Mends(r))

(* A step that neither saves the driver nor deletes his wallet, of a call that
   nobody waits for. *)
LEMMA WholeKept ==
  ASSUME WholeInv, EnrolTyped', NEW r \in EnrolReqs,
         \A q \in EnrolReqs : q # r => enrolReq'[q] = enrolReq[q],
         Mends(r) => Mends(r)', hasWallet' = hasWallet,
         approval'["profile"] # "none" => approval["profile"] # "none"
  PROVE  WholeInv'
<1>1. (\E q \in EnrolReqs : Mends(q)) => (\E q \in EnrolReqs : Mends(q)')
  BY DEF Mends
<1>2. QED
  BY <1>1 DEF WholeInv, Exists

LEMMA WholeInvNext == WholeInv /\ NothingInTheWay /\ [EnrolNext]_enrolVars => WholeInv'
<1> SUFFICES ASSUME WholeInv, NothingInTheWay, [EnrolNext]_enrolVars PROVE WholeInv'
  OBVIOUS
<1>t. EnrolTyped /\ EnrolTyped'
  BY EnrolNextTyped DEF WholeInv
<1>d. /\ approval \in [Subjects -> Decision] /\ enrolReq \in [EnrolReqs -> EnrolCall]
      /\ {"coop", "profile", "member", "paper"} \subseteq Subjects /\ Taxis \subseteq Subjects
      /\ "profile" \notin Taxis
      /\ {"idle", "approve", "reject", "memberCheck", "saveDriver", "saveWallet", "join", "saveTaxi",
          "replace", "upload", "assign", "delWallet", "delPaper", "delTaxis", "delMember", "delDriver"}
           = EnrolOp
  BY <1>t DEF EnrolTyped, EnrolTypeOK, Subjects, EnrolOp
<1>1. ASSUME NEW r \in EnrolReqs, SaveDriver(r) \/ (DeleteWallet(r) /\ "wallet" \notin traces) PROVE WholeInv'
  <2>1. enrolReq'[r].op \in {"saveWallet", "delPaper"}
    BY <1>1, <1>t, <1>d, EnrolSlots DEF SaveDriver, DeleteWallet
  <2>2. QED
    BY <1>t, <2>1 DEF WholeInv, Mends
<1>2. ASSUME NEW r \in EnrolReqs, SaveWallet(r) PROVE WholeInv'
  BY <1>2, <1>t DEF SaveWallet, WholeInv
<1>3. ASSUME NEW r \in EnrolReqs, RemoveDriver(r) PROVE WholeInv'
  <2>1. approval'["profile"] = "none"
    BY <1>3, <1>d DEF RemoveDriver, NothingInTheWay
  <2>2. QED
    BY <1>t, <2>1 DEF WholeInv, Exists
<1>4. ASSUME NEW r \in EnrolReqs, DeleteBelongings(r) PROVE WholeInv'
  <2>1. PICK op \in {"delTaxis", "delMember", "delDriver"} : EnrolStep(r, op)
    BY <1>4 DEF DeleteBelongings, DeleteStep
  <2>2. enrolReq'[r].op = op
    BY <1>t, <1>d, <2>1, EnrolSlots
  <2>3. QED
    BY <1>t, <2>2 DEF WholeInv, Mends
(* Calls that end, or go on elsewhere, and were not to mend anything. *)
<1>5. ASSUME NEW r \in EnrolReqs,
             \/ SaveMember(r) \/ SaveTaxi(r) \/ ReplaceDocument(r) \/ SaveDocument(r)
             \/ CheckMember(r) \/ DecisionWrite(r) \/ AssignWrite(r)
             \/ (DeleteWallet(r) /\ "wallet" \in traces)
      PROVE  WholeInv'
  <2>1. EnrolEnd(r) \/ \E op \in EnrolOp : EnrolStep(r, op)
    BY <1>5, <1>d DEF SaveMember, SaveTaxi, ReplaceDocument, SaveDocument, CheckMember, DecisionWrite, AssignWrite,
      DeleteWallet
  <2>2. \A q \in EnrolReqs : q # r => enrolReq'[q] = enrolReq[q]
    BY <1>t, <2>1, EnrolSlots
  <2>3. ~Mends(r)
    BY <1>5 DEF SaveMember, SaveTaxi, ReplaceDocument, SaveDocument, CheckMember, DecisionWrite, AssignWrite,
      DeleteWallet, Mends
  <2>4. hasWallet' = hasWallet
    BY <1>5 DEF SaveMember, SaveTaxi, ReplaceDocument, SaveDocument, CheckMember, DecisionWrite, AssignWrite,
      DeleteWallet, OnlyCall
  <2>5. approval'["profile"] # "none" => approval["profile"] # "none"
    <3>1. CASE SaveTaxi(r)
      <4>1. enrolReq[r].of \in Taxis
        BY <1>t, <3>1 DEF EnrolTyped, NamesTaxi, SaveTaxi
      <4>2. QED
        BY <1>d, <3>1, <4>1 DEF SaveTaxi
    <3>2. QED
      BY <1>5, <1>d, <3>1 DEF SaveMember, ReplaceDocument, SaveDocument, CheckMember, DecisionWrite, AssignWrite,
        DeleteWallet, OnlyCall, Exists
  <2>6. QED
    BY <1>t, <2>2, <2>3, <2>4, <2>5, WholeKept
(* Calls that begin, and those of one statement. *)
<1>6. ASSUME NEW r \in EnrolReqs,
             \/ RegisterDriver(r) \/ JoinCooperative(r) \/ UploadDocument(r) \/ DeleteDriver(r)
             \/ ApproveCooperative(r) \/ RejectCooperative(r) \/ PlatformApprove(r) \/ PlatformReject(r)
             \/ CooperativeApprove(r) \/ CooperativeReject(r) \/ ApproveDocument(r) \/ RejectDocument(r)
             \/ \E t \in Taxis : RegisterVehicle(r, t) \/ ApproveVehicle(r, t) \/ RejectVehicle(r, t)
                                 \/ AssignDriver(r, t)
      PROVE  WholeInv'
  <2>1. PICK op \in EnrolOp, s \in Subjects : EnrolBegin(r, op, s)
    BY <1>6, <1>d DEF RegisterDriver, JoinCooperative, UploadDocument, DeleteDriver, ApproveCooperative,
      RejectCooperative, PlatformApprove, PlatformReject, CooperativeApprove, CooperativeReject, ApproveDocument,
      RejectDocument, RegisterVehicle, ApproveVehicle, RejectVehicle, AssignDriver, Ask
  <2>2. enrolReq[r].op = "idle" /\ \A q \in EnrolReqs : q # r => enrolReq'[q] = enrolReq[q]
    BY <1>t, <2>1, EnrolSlots
  <2>3. hasWallet' = hasWallet /\ approval'["profile"] = approval["profile"]
    BY <1>6, <1>d DEF RegisterDriver, JoinCooperative, UploadDocument, DeleteDriver, ApproveCooperative,
      RejectCooperative, PlatformApprove, PlatformReject, CooperativeApprove, CooperativeReject, ApproveDocument,
      RejectDocument, RegisterVehicle, ApproveVehicle, RejectVehicle, AssignDriver, Ask, OnlyCall
  <2>4. QED
    BY <1>t, <2>2, <2>3, WholeKept DEF Mends
<1>7. ASSUME NEW r \in EnrolReqs,
             \/ RegisterCooperative(r) \/ SuspendCooperative(r) \/ ActivateCooperative(r)
             \/ DriverWorks(r) \/ RemoveCooperative(r)
             \/ \E t \in Taxis : \/ SuspendVehicle(r, t) \/ ActivateVehicle(r, t) \/ UnassignDriver(r, t)
                                 \/ DeleteVehicle(r, t) \/ DeleteMyVehicle(r, t)
      PROVE  WholeInv'
  <2>1. enrolReq' = enrolReq /\ hasWallet' = hasWallet
    BY <1>7 DEF RegisterCooperative, SuspendCooperative, ActivateCooperative, DriverWorks, RemoveCooperative,
      SuspendVehicle, ActivateVehicle, UnassignDriver, DeleteVehicle, DeleteMyVehicle, EnrolIdle
  <2>2. approval'["profile"] = approval["profile"]
    BY <1>7, <1>d DEF RegisterCooperative, SuspendCooperative, ActivateCooperative, DriverWorks,
      RemoveCooperative, SuspendVehicle, ActivateVehicle, UnassignDriver, DeleteVehicle, DeleteMyVehicle
  <2>3. QED
    BY <1>t, <2>1, <2>2, WholeKept DEF Mends
<1>8. CASE UNCHANGED enrolVars
  BY <1>8, <1>t DEF enrolVars, WholeInv, Exists, Mends
<1>9. QED
  BY <1>1, <1>2, <1>3, <1>4, <1>5, <1>6, <1>7, <1>8 DEF EnrolNext

(* Whatever calls interleave, a driver comes to be without a wallet in one way
   only: deleteDriver has deleted the wallet before the database refuses it
   the driver, because an offer, a trip or a rating of his is left
   (drivers.service.ts, deleteDriver: six deletes and no transaction).  While
   that does not happen, he is there with his wallet, or gone. *)
THEOREM DriversStayWhole == EnrolSpec /\ []NothingInTheWay => []DriversAreWhole
<1>1. EnrolInit => WholeInv
  BY EnrolInitTyped DEF EnrolInit, WholeInv, Exists, Subjects
<1>2. WholeInv => DriversAreWhole
  BY DEF WholeInv, DriversAreWhole, Mends, NoEnrolCall
<1>3. QED
  BY <1>1, <1>2, WholeInvNext, PTL DEF EnrolSpec

-----------------------------------------------------------------------------
(* Shifts: posts, assignments and online drivers *)

HIDE EnrolAssumption
USE ShiftAssumption

-----------------------------------------------------------------------------
(* Rows and handlers, for any drivers, taxis, posts and handlers in flight *)

(* What a handler carries from its checks to its writes. *)
HandlerCarries(r) ==
  /\ shiftReq[r].op \in {"accept", "rejectOthers", "acceptPost"} => shiftReq[r].driver \in Hired
  /\ shiftReq[r].op = "status" => shiftReq[r].status \in OnlineStatus

ShiftTyped == ShiftTypeOK /\ \A r \in ShiftReqs : HandlerCarries(r)

LEMMA NoShiftCallTyped == NoShiftCall \in Handler /\ NoShiftCall.op = "idle"
BY DEF NoShiftCall, Handler, Steps

LEMMA ShiftInitTyped == ShiftInit => ShiftTyped
<1> SUFFICES ASSUME ShiftInit PROVE ShiftTyped
  OBVIOUS
<1>1. shiftReq \in [ShiftReqs -> Handler] /\ \A r \in ShiftReqs : HandlerCarries(r)
  BY NoShiftCallTyped DEF ShiftInit, HandlerCarries
<1>2. driver \in [Drivers -> DriverRow]
  BY DEF ShiftInit, DriverRow, OnlineStatus
<1>3. post \in [Posts -> PostRow]
  BY DEF ShiftInit, PostRow
<1>4. app \in [Posts -> [Hired -> Application]] /\ active \in [Hired -> [Vehicles -> Nat]] /\ onTrip \subseteq Drivers
  BY DEF ShiftInit, Application
<1>5. QED
  BY <1>1, <1>2, <1>3, <1>4 DEF ShiftTyped, ShiftTypeOK

(* The slot a handler begins in, goes on in and ends in. *)
LEMMA ShiftSlots ==
  ASSUME ShiftTypeOK, NEW r \in ShiftReqs
  PROVE  /\ \A call \in Handler : ShiftBegin(r, call) =>
              /\ shiftReq[r] = NoShiftCall /\ shiftReq'[r] = call
              /\ \A q \in ShiftReqs : q # r => shiftReq'[q] = shiftReq[q]
              /\ shiftReq' \in [ShiftReqs -> Handler]
         /\ \A op \in Steps : ShiftAdvance(r, op) =>
              /\ shiftReq'[r].op = op /\ shiftReq'[r].driver = shiftReq[r].driver
              /\ shiftReq'[r].vehicle = shiftReq[r].vehicle /\ shiftReq'[r].status = shiftReq[r].status
              /\ \A q \in ShiftReqs : q # r => shiftReq'[q] = shiftReq[q]
              /\ shiftReq' \in [ShiftReqs -> Handler]
         /\ ShiftEnd(r) =>
              /\ shiftReq'[r] = NoShiftCall
              /\ \A q \in ShiftReqs : q # r => shiftReq'[q] = shiftReq[q]
              /\ shiftReq' \in [ShiftReqs -> Handler]
<1>t. shiftReq \in [ShiftReqs -> Handler]
  BY DEF ShiftTypeOK
<1>1. ASSUME NEW call \in Handler, ShiftBegin(r, call)
      PROVE  /\ shiftReq[r] = NoShiftCall /\ shiftReq'[r] = call
             /\ \A q \in ShiftReqs : q # r => shiftReq'[q] = shiftReq[q]
             /\ shiftReq' \in [ShiftReqs -> Handler]
  BY <1>t, <1>1 DEF ShiftBegin
<1>2. ASSUME NEW op \in Steps, ShiftAdvance(r, op)
      PROVE  /\ shiftReq'[r].op = op /\ shiftReq'[r].driver = shiftReq[r].driver
             /\ shiftReq'[r].vehicle = shiftReq[r].vehicle /\ shiftReq'[r].status = shiftReq[r].status
             /\ \A q \in ShiftReqs : q # r => shiftReq'[q] = shiftReq[q]
             /\ shiftReq' \in [ShiftReqs -> Handler]
  <2> DEFINE x == [shiftReq[r] EXCEPT !.op = op]
  <2>1. shiftReq' = [shiftReq EXCEPT ![r] = x]
    BY <1>2 DEF ShiftAdvance
  <2>2. shiftReq[r] \in Handler
    BY <1>t
  <2>3. /\ x \in Handler /\ x.op = op /\ x.driver = shiftReq[r].driver
        /\ x.vehicle = shiftReq[r].vehicle /\ x.status = shiftReq[r].status
    BY <2>2 DEF Handler
  <2> HIDE DEF x
  <2>4. QED
    BY <1>t, <2>1, <2>3
<1>3. ASSUME ShiftEnd(r)
      PROVE  /\ shiftReq'[r] = NoShiftCall
             /\ \A q \in ShiftReqs : q # r => shiftReq'[q] = shiftReq[q]
             /\ shiftReq' \in [ShiftReqs -> Handler]
  BY <1>t, <1>3, NoShiftCallTyped DEF ShiftEnd
<1>4. QED
  BY <1>1, <1>2, <1>3

(* What the checks of a call let in. *)
LetIn(call) ==
  /\ call \in Handler /\ call.op # "disconnect"
  /\ call.op \in {"accept", "rejectOthers", "acceptPost"} => call.driver \in Hired
  /\ call.op = "status" => call.status \in OnlineStatus
  /\ call.op = "start" =>
       /\ call.driver \in Drivers /\ call.vehicle \in Vehicles
       /\ MayDrive(call.driver, call.vehicle)
       /\ Using(call.vehicle) = {} \/ call.driver \in Using(call.vehicle)

LEMMA CallsLetIn ==
  ASSUME ShiftTypeOK, NEW r \in ShiftReqs, Calls(r)
  PROVE  /\ \E call \in Handler : ShiftBegin(r, call) /\ LetIn(call)
         /\ UNCHANGED <<driver, onTrip, post, app, active>>
<1>1. NoShiftCall = [op |-> "idle", driver |-> NoOne, vehicle |-> NoOne, post |-> NoOne,
                     status |-> NoOne, todo |-> {}]
  BY DEF NoShiftCall
<1>2. CASE CheckInactiveDrivers(r)
  <2> DEFINE who == {d \in Drivers : Awake(d) /\ driver[d].seen = "old" /\ driver[d].prompt = "none"}
             call == [NoShiftCall EXCEPT !.op = "prompt", !.todo = who]
  <2>1. LetIn(call)
    BY <1>1 DEF LetIn, Handler, Steps
  <2>2. QED
    BY <1>2, <2>1 DEF CheckInactiveDrivers, LetIn
<1>3. ASSUME NEW d \in Drivers, NEW v \in Vehicles, StartDay(r, d, v)
      PROVE  \E call \in Handler : ShiftBegin(r, call) /\ LetIn(call)
  <2>1. LetIn([NoShiftCall EXCEPT !.op = "start", !.driver = d, !.vehicle = v])
    BY <1>1, <1>3 DEF LetIn, Handler, Steps, StartDay
  <2>2. QED
    BY <1>3, <2>1 DEF StartDay, LetIn
<1>4. ASSUME NEW d \in Drivers, NEW s \in SelfService, SetOnlineStatus(r, d, s)
      PROVE  \E call \in Handler : ShiftBegin(r, call) /\ LetIn(call)
  <2>1. LetIn([NoShiftCall EXCEPT !.op = "status", !.driver = d, !.status = s])
    BY <1>1 DEF LetIn, Handler, Steps
  <2>2. QED
    BY <1>4, <2>1 DEF SetOnlineStatus, LetIn
<1>5. ASSUME NEW p \in Posts, CancelPost(r, p)
      PROVE  \E call \in Handler : ShiftBegin(r, call) /\ LetIn(call)
  <2>1. LetIn([NoShiftCall EXCEPT !.op = "cancel", !.post = p])
    BY <1>1 DEF LetIn, Handler, Steps
  <2>2. QED
    BY <1>5, <2>1 DEF CancelPost, LetIn
<1>6. ASSUME NEW p \in Posts, CompletePost(r, p)
      PROVE  \E call \in Handler : ShiftBegin(r, call) /\ LetIn(call)
  <2>1. post[p].hired \in Drivers \cup {NoOne} /\ post[p].vehicle \in Vehicles \cup {NoOne}
    BY DEF ShiftTypeOK, PostRow, Drivers
  <2>2. LetIn([NoShiftCall EXCEPT !.op = "complete", !.post = p, !.driver = post[p].hired,
                                  !.vehicle = post[p].vehicle])
    BY <1>1, <2>1 DEF LetIn, Handler, Steps
  <2>3. QED
    BY <1>6, <2>2 DEF CompletePost, LetIn
<1>7. ASSUME NEW p \in Posts, NEW v \in Vehicles, Publish(r, p, v)
      PROVE  \E call \in Handler : ShiftBegin(r, call) /\ LetIn(call)
  <2>1. LetIn([NoShiftCall EXCEPT !.op = "publish", !.post = p, !.vehicle = v])
    BY <1>1 DEF LetIn, Handler, Steps
  <2>2. QED
    BY <1>7, <2>1 DEF Publish, LetIn
<1>8. ASSUME NEW p \in Posts, NEW h \in Hired, Apply(r, p, h) \/ Withdraw(r, p, h)
      PROVE  \E call \in Handler : ShiftBegin(r, call) /\ LetIn(call)
  <2>1. /\ LetIn([NoShiftCall EXCEPT !.op = "apply", !.post = p, !.driver = h])
        /\ LetIn([NoShiftCall EXCEPT !.op = "withdraw", !.post = p, !.driver = h])
    BY <1>1 DEF LetIn, Handler, Steps, Drivers
  <2>2. QED
    BY <1>8, <2>1 DEF Apply, Withdraw, LetIn
<1>9. ASSUME NEW p \in Posts, NEW h \in Hired, AcceptApplication(r, p, h)
      PROVE  \E call \in Handler : ShiftBegin(r, call) /\ LetIn(call)
  <2>1. post[p].vehicle \in Vehicles \cup {NoOne}
    BY DEF ShiftTypeOK, PostRow
  <2>2. LetIn([NoShiftCall EXCEPT !.op = "accept", !.post = p, !.driver = h, !.vehicle = post[p].vehicle])
    BY <1>1, <2>1 DEF LetIn, Handler, Steps, Drivers
  <2>3. QED
    BY <1>9, <2>2 DEF AcceptApplication, LetIn
<1>10. UNCHANGED <<driver, onTrip, post, app, active>>
  BY DEF Calls, CheckInactiveDrivers, StartDay, SetOnlineStatus, CancelPost, CompletePost, Publish,
    Apply, Withdraw, AcceptApplication
<1>11. QED
  BY <1>2, <1>3, <1>4, <1>5, <1>6, <1>7, <1>8, <1>9, <1>10 DEF Calls

LEMMA ShiftNextTyped == ShiftTyped /\ [ShiftNext]_shiftVars => ShiftTyped'
<1> SUFFICES ASSUME ShiftTyped, [ShiftNext]_shiftVars PROVE ShiftTyped'
  OBVIOUS
<1>t. ShiftTypeOK /\ \A r \in ShiftReqs : HandlerCarries(r)
  BY DEF ShiftTyped
<1>d. /\ driver \in [Drivers -> DriverRow] /\ onTrip \subseteq Drivers /\ post \in [Posts -> PostRow]
      /\ app \in [Posts -> [Hired -> Application]] /\ active \in [Hired -> [Vehicles -> Nat]]
      /\ shiftReq \in [ShiftReqs -> Handler]
  BY <1>t DEF ShiftTypeOK
<1>h. \A r \in ShiftReqs : /\ shiftReq[r].driver \in Drivers \cup {NoOne}
                           /\ shiftReq[r].vehicle \in Vehicles \cup {NoOne}
                           /\ shiftReq[r].post \in Posts \cup {NoOne} /\ shiftReq[r].todo \in SUBSET Drivers
  BY <1>d DEF Handler
<1>k. ASSUME driver' \in [Drivers -> DriverRow], onTrip' \subseteq Drivers, post' \in [Posts -> PostRow],
             app' \in [Posts -> [Hired -> Application]], active' \in [Hired -> [Vehicles -> Nat]],
             shiftReq' \in [ShiftReqs -> Handler], \A r \in ShiftReqs : HandlerCarries(r)'
      PROVE  ShiftTyped'
  BY <1>k DEF ShiftTyped, ShiftTypeOK
<1>i. UNCHANGED shiftReq => shiftReq' \in [ShiftReqs -> Handler] /\ \A r \in ShiftReqs : HandlerCarries(r)'
  BY <1>t, <1>d DEF HandlerCarries
<1>e. ASSUME NEW r \in ShiftReqs, ShiftEnd(r)
      PROVE  shiftReq' \in [ShiftReqs -> Handler] /\ \A q \in ShiftReqs : HandlerCarries(q)'
  BY <1>t, <1>e, ShiftSlots, NoShiftCallTyped DEF HandlerCarries
<1>a. ASSUME NEW r \in ShiftReqs, NEW op \in Steps \ {"status"}, ShiftAdvance(r, op),
             op \in {"accept", "rejectOthers", "acceptPost"} =>
               shiftReq[r].op \in {"accept", "rejectOthers", "acceptPost"}
      PROVE  shiftReq' \in [ShiftReqs -> Handler] /\ \A q \in ShiftReqs : HandlerCarries(q)'
  <2>1. /\ shiftReq'[r].op = op /\ shiftReq'[r].driver = shiftReq[r].driver
        /\ \A q \in ShiftReqs : q # r => shiftReq'[q] = shiftReq[q]
        /\ shiftReq' \in [ShiftReqs -> Handler]
    BY <1>t, <1>a, ShiftSlots
  <2>2. QED
    BY <1>t, <1>a, <2>1 DEF HandlerCarries
(* One driver's row written anew. *)
<1>r. ASSUME NEW d \in Drivers \cup {NoOne}, NEW row \in DriverRow, driver' = [driver EXCEPT ![d] = row]
      PROVE  driver' \in [Drivers -> DriverRow]
  BY <1>d, <1>r
<1>w. ASSUME NEW d \in Drivers
      PROVE  /\ \A s \in OnlineStatus : [driver[d] EXCEPT !.status = s] \in DriverRow
             /\ \A s \in OnlineStatus, v \in Vehicles \cup {NoOne} :
                  /\ [driver[d] EXCEPT !.vehicle = v, !.status = s, !.seen = "recent"] \in DriverRow
                  /\ [driver[d] EXCEPT !.status = s, !.vehicle = v] \in DriverRow
             /\ \A s \in OnlineStatus, p \in {"none", "sent", "due"} :
                  /\ [driver[d] EXCEPT !.status = s, !.seen = "recent"] \in DriverRow
                  /\ [driver[d] EXCEPT !.status = s, !.prompt = p] \in DriverRow
             /\ \A p \in {"none", "sent", "due"} :
                  /\ [driver[d] EXCEPT !.seen = "recent", !.prompt = p] \in DriverRow
                  /\ [driver[d] EXCEPT !.prompt = p] \in DriverRow
             /\ \A b \in {"recent", "old"} : [driver[d] EXCEPT !.seen = b] \in DriverRow
  <2>1. driver[d] \in DriverRow
    BY <1>d
  <2>2. QED
    BY <2>1 DEF DriverRow
<1>o. /\ {"offline", "online", "busy", "looking_for_work"} = OnlineStatus
      /\ {"idle", "start", "status", "prompt", "disconnect", "publish", "apply", "withdraw", "accept",
          "rejectOthers", "acceptPost", "assign", "looking", "cancel", "complete", "unassign", "free"} = Steps
  BY DEF OnlineStatus, Steps
<1>1. ASSUME NEW r \in ShiftReqs, Calls(r) PROVE ShiftTyped'
  <2>1. PICK call \in Handler : ShiftBegin(r, call) /\ LetIn(call)
    BY <1>1, <1>t, CallsLetIn
  <2>2. UNCHANGED <<driver, onTrip, post, app, active>>
    BY <1>1, <1>t, CallsLetIn
  <2>3. shiftReq' \in [ShiftReqs -> Handler] /\ \A q \in ShiftReqs : HandlerCarries(q)'
    BY <1>t, <2>1, ShiftSlots DEF HandlerCarries, LetIn
  <2>4. QED
    BY <1>d, <1>k, <2>2, <2>3
<1>2. ASSUME NEW r \in ShiftReqs, StartDayWrite(r) \/ SetOnlineStatusWrite(r) \/ LookForWork(r) \/ Free(r)
      PROVE  ShiftTyped'
  <2> DEFINE d == shiftReq[r].driver
  <2>1. shiftReq[r].op = "status" => shiftReq[r].status \in OnlineStatus
    BY <1>t DEF HandlerCarries
  <2>2. ASSUME NEW e \in Drivers
        PROVE  driver'[e] \in DriverRow
    <3>1. CASE e = d
      <4>1. CASE StartDayWrite(r)
        <5>1. driver'[e] = [driver[e] EXCEPT !.vehicle = shiftReq[r].vehicle, !.status = "online", !.seen = "recent"]
          BY <1>d, <3>1, <4>1 DEF StartDayWrite
        <5>2. driver[e] \in DriverRow /\ shiftReq[r].vehicle \in Vehicles \cup {NoOne}
          BY <1>d, <1>h
        <5>3. QED
          BY <5>1, <5>2 DEF DriverRow, OnlineStatus
      <4>2. CASE SetOnlineStatusWrite(r)
        <5>1. driver'[e] = [driver[e] EXCEPT !.status = shiftReq[r].status, !.seen = "recent"]
          BY <1>d, <3>1, <4>2 DEF SetOnlineStatusWrite
        <5>2. shiftReq[r].status \in OnlineStatus
          BY <2>1, <4>2 DEF SetOnlineStatusWrite
        <5>3. driver[e] \in DriverRow
          BY <1>d
        <5>4. QED
          BY <5>1, <5>2, <5>3 DEF DriverRow
      <4>3. CASE LookForWork(r)
        <5>1. driver'[e] = [driver[e] EXCEPT !.status = "looking_for_work"]
          BY <1>d, <3>1, <4>3 DEF LookForWork
        <5>2. driver[e] \in DriverRow
          BY <1>d
        <5>3. QED
          BY <5>1, <5>2 DEF DriverRow, OnlineStatus
      <4>4. CASE Free(r)
        <5>1. driver'[e] = [driver[e] EXCEPT !.status = "looking_for_work", !.vehicle = NoOne]
          BY <1>d, <3>1, <4>4 DEF Free
        <5>2. driver[e] \in DriverRow
          BY <1>d
        <5>3. QED
          BY <5>1, <5>2 DEF DriverRow, OnlineStatus
      <4>5. QED
        BY <1>2, <4>1, <4>2, <4>3, <4>4
    <3>2. CASE e # d
      BY <1>2, <1>d, <3>2 DEF StartDayWrite, SetOnlineStatusWrite, LookForWork, Free
    <3>3. QED
      BY <3>1, <3>2
  <2>3. driver' \in [Drivers -> DriverRow]
    BY <1>2, <1>d, <2>2 DEF StartDayWrite, SetOnlineStatusWrite, LookForWork, Free
  <2>4. ShiftEnd(r) /\ UNCHANGED <<onTrip, post, app, active>>
    BY <1>2 DEF StartDayWrite, SetOnlineStatusWrite, LookForWork, Free
  <2>5. QED
    BY <1>d, <1>e, <1>k, <2>3, <2>4
(* The cron crosses a driver off its list. *)
<1>c. ASSUME NEW r \in ShiftReqs, NEW d \in Drivers,
             shiftReq' = [shiftReq EXCEPT ![r].todo = @ \ {d}]
      PROVE  shiftReq' \in [ShiftReqs -> Handler] /\ \A q \in ShiftReqs : HandlerCarries(q)'
  <2> DEFINE x == [shiftReq[r] EXCEPT !.todo = @ \ {d}]
  <2>1. shiftReq' = [shiftReq EXCEPT ![r] = x]
    BY <1>c
  <2>2. shiftReq[r] \in Handler
    BY <1>d
  <2>3. x \in Handler /\ x.op = shiftReq[r].op /\ x.driver = shiftReq[r].driver /\ x.status = shiftReq[r].status
    BY <2>2 DEF Handler
  <2> HIDE DEF x
  <2>4. QED
    BY <1>t, <1>d, <2>1, <2>3 DEF HandlerCarries
<1>3. ASSUME NEW r \in ShiftReqs, NEW d \in Drivers, Prompt(r, d) \/ Disconnect(r, d) PROVE ShiftTyped'
  <2>1. driver' \in [Drivers -> DriverRow]
    <3>1. CASE Prompt(r, d)
      <4>1. driver' = [driver EXCEPT ![d] = [driver[d] EXCEPT !.prompt = "sent"]]
        BY <3>1 DEF Prompt
      <4>2. QED
        BY <1>r, <1>w, <4>1
    <3>2. CASE Disconnect(r, d)
      <4>1. driver' = [driver EXCEPT ![d] = [driver[d] EXCEPT !.status = "offline", !.prompt = "none"]]
        BY <3>2 DEF Disconnect
      <4>2. QED
        BY <1>r, <1>w, <1>o, <4>1
    <3>3. QED
      BY <1>3, <3>1, <3>2
  <2>2. shiftReq' = [shiftReq EXCEPT ![r].todo = @ \ {d}] /\ UNCHANGED <<onTrip, post, app, active>>
    BY <1>3 DEF Prompt, Disconnect
  <2>3. QED
    BY <1>d, <1>c, <1>k, <2>1, <2>2
<1>4. ASSUME NEW r \in ShiftReqs, FindUnanswered(r) PROVE ShiftTyped'
  <2> DEFINE who == {d \in Drivers : Awake(d) /\ driver[d].prompt = "due"}
             x == [shiftReq[r] EXCEPT !.op = "disconnect", !.todo = who]
  <2>1. shiftReq' = [shiftReq EXCEPT ![r] = x]
    BY <1>4 DEF FindUnanswered
  <2>2. shiftReq[r] \in Handler
    BY <1>d
  <2>3. x \in Handler /\ x.op = "disconnect"
    BY <1>o, <2>2 DEF Handler
  <2> HIDE DEF x
  <2>4. shiftReq' \in [ShiftReqs -> Handler] /\ \A q \in ShiftReqs : HandlerCarries(q)'
    BY <1>t, <1>d, <2>1, <2>3 DEF HandlerCarries
  <2>5. QED
    BY <1>4, <1>d, <1>k, <2>4 DEF FindUnanswered
<1>5. ASSUME NEW r \in ShiftReqs, CronEnds(r) PROVE ShiftTyped'
  BY <1>5, <1>d, <1>e, <1>k DEF CronEnds
(* One post written anew. *)
<1>p. ASSUME NEW p, NEW row, p \in Posts => row \in PostRow, post' = [post EXCEPT ![p] = row]
      PROVE  post' \in [Posts -> PostRow]
  <2>1. ASSUME NEW o \in Posts PROVE post'[o] \in PostRow
    BY <1>d, <1>p
  <2>2. DOMAIN post' = Posts /\ post' = [o \in Posts |-> post'[o]]
    BY <1>d, <1>p
  <2>3. QED
    BY <2>1, <2>2
<1>q. ASSUME NEW p \in Posts
      PROVE  /\ \A s \in {"cancelled", "completed"} : [post[p] EXCEPT !.status = s] \in PostRow
             /\ \A h \in Hired : [post[p] EXCEPT !.status = "accepted", !.hired = h] \in PostRow
  <2>1. post[p] \in PostRow
    BY <1>d
  <2>2. QED
    BY <2>1 DEF PostRow
<1>6. ASSUME NEW r \in ShiftReqs, PublishWrite(r) \/ CancelPostWrite(r) PROVE ShiftTyped'
  <2>1. post' \in [Posts -> PostRow]
    <3>1. CASE PublishWrite(r)
      <4>1. [status |-> "open", vehicle |-> shiftReq[r].vehicle, hired |-> NoOne] \in PostRow
        BY <1>h DEF PostRow
      <4>2. QED
        BY <1>d, <1>p, <3>1, <4>1 DEF PublishWrite
    <3>2. CASE CancelPostWrite(r)
      <4>1. post' = [post EXCEPT ![shiftReq[r].post] = [post[shiftReq[r].post] EXCEPT !.status = "cancelled"]]
        BY <3>2 DEF CancelPostWrite
      <4>2. shiftReq[r].post \in Posts => [post[shiftReq[r].post] EXCEPT !.status = "cancelled"] \in PostRow
        BY <1>q
      <4>3. QED
        BY <1>p, <4>1, <4>2
    <3>3. QED
      BY <1>6, <3>1, <3>2
  <2>2. ShiftEnd(r) /\ UNCHANGED <<driver, onTrip, app, active>>
    BY <1>6 DEF PublishWrite, CancelPostWrite
  <2>3. QED
    BY <1>d, <1>e, <1>k, <2>1, <2>2
<1>7. ASSUME NEW r \in ShiftReqs, AcceptPost(r) PROVE ShiftTyped'
  <2>1. shiftReq[r].driver \in Hired
    BY <1>7, <1>t DEF AcceptPost, HandlerCarries
  <2>2. post' \in [Posts -> PostRow]
    <3>1. post' = [post EXCEPT ![shiftReq[r].post] =
                     [post[shiftReq[r].post] EXCEPT !.status = "accepted", !.hired = shiftReq[r].driver]]
      BY <1>7 DEF AcceptPost
    <3>2. QED
      BY <1>p, <1>q, <2>1, <3>1
  <2>3. ShiftAdvance(r, "assign") /\ UNCHANGED <<driver, onTrip, app, active>>
    BY <1>7 DEF AcceptPost
  <2>4. QED
    BY <1>d, <1>a, <1>o, <1>k, <2>2, <2>3
<1>8. ASSUME NEW r \in ShiftReqs, CompletePostWrite(r) PROVE ShiftTyped'
  <2>1. post' \in [Posts -> PostRow]
    <3>1. post' = [post EXCEPT ![shiftReq[r].post] = [post[shiftReq[r].post] EXCEPT !.status = "completed"]]
      BY <1>8 DEF CompletePostWrite
    <3>2. QED
      BY <1>p, <1>q, <3>1
  <2>2. ShiftAdvance(r, "unassign") /\ UNCHANGED <<driver, onTrip, app, active>>
    BY <1>8 DEF CompletePostWrite
  <2>3. QED
    BY <1>d, <1>a, <1>o, <1>k, <2>1, <2>2
<1>9. ASSUME NEW r \in ShiftReqs, ApplyWrite(r) \/ WithdrawWrite(r) \/ AcceptWrite(r) \/ RejectOthers(r)
      PROVE  ShiftTyped'
  <2>1. app' \in [Posts -> [Hired -> Application]]
    <3> DEFINE p == shiftReq[r].post
    <3>1. PICK row : /\ app' = [app EXCEPT ![p] = row]
                     /\ p \in Posts => row \in [Hired -> Application]
      <4>0. p \in Posts => app[p] \in [Hired -> Application]
        BY <1>d
      <4>1. CASE ApplyWrite(r)
        <5>1. app' = [app EXCEPT ![p] = [app[p] EXCEPT ![shiftReq[r].driver] = "pending"]]
          BY <4>1 DEF ApplyWrite
        <5>2. p \in Posts => [app[p] EXCEPT ![shiftReq[r].driver] = "pending"] \in [Hired -> Application]
          BY <4>0 DEF Application
        <5>3. QED
          BY <5>1, <5>2
      <4>2. CASE WithdrawWrite(r)
        <5>1. app' = [app EXCEPT ![p] = [app[p] EXCEPT ![shiftReq[r].driver] = "withdrawn"]]
          BY <4>2 DEF WithdrawWrite
        <5>2. p \in Posts => [app[p] EXCEPT ![shiftReq[r].driver] = "withdrawn"] \in [Hired -> Application]
          BY <4>0 DEF Application
        <5>3. QED
          BY <5>1, <5>2
      <4>3. CASE AcceptWrite(r)
        <5>1. app' = [app EXCEPT ![p] = [app[p] EXCEPT ![shiftReq[r].driver] = "accepted"]]
          BY <4>3 DEF AcceptWrite
        <5>2. p \in Posts => [app[p] EXCEPT ![shiftReq[r].driver] = "accepted"] \in [Hired -> Application]
          BY <4>0 DEF Application
        <5>3. QED
          BY <5>1, <5>2
      <4>4. CASE RejectOthers(r)
        <5> DEFINE others == [h \in Hired |-> IF h # shiftReq[r].driver /\ app[p][h] = "pending"
                                              THEN "rejected" ELSE app[p][h]]
        <5>1. app' = [app EXCEPT ![p] = others]
          BY <4>4 DEF RejectOthers
        <5>2. p \in Posts => others \in [Hired -> Application]
          BY <4>0 DEF Application
        <5>3. QED
          BY <5>1, <5>2
      <4>5. QED
        BY <1>9, <4>1, <4>2, <4>3, <4>4
    <3>2. QED
      BY <1>d, <3>1
  <2>2. UNCHANGED <<driver, onTrip, post, active>>
    BY <1>9 DEF ApplyWrite, WithdrawWrite, AcceptWrite, RejectOthers
  <2>3. shiftReq' \in [ShiftReqs -> Handler] /\ \A q \in ShiftReqs : HandlerCarries(q)'
    BY <1>9, <1>a, <1>e, <1>o DEF ApplyWrite, WithdrawWrite, AcceptWrite, RejectOthers
  <2>4. QED
    BY <1>d, <1>k, <2>1, <2>2, <2>3
<1>10. ASSUME NEW r \in ShiftReqs, Assign(r) \/ Unassign(r) PROVE ShiftTyped'
  <2> DEFINE h == shiftReq[r].driver
             v == shiftReq[r].vehicle
  <2>1. ASSUME NEW g \in Hired, NEW w \in Vehicles PROVE active[g][w] \in Nat
    BY <1>d
  <2>2. PICK m : /\ active' = active \/ active' = [active EXCEPT ![h][v] = m]
                 /\ h \in Hired /\ v \in Vehicles => m \in Nat
    <3>1. CASE Assign(r)
      <4>1. active' = [active EXCEPT ![h][v] = active[h][v] + 1]
        BY <3>1 DEF Assign
      <4>2. h \in Hired /\ v \in Vehicles => active[h][v] + 1 \in Nat
        BY <2>1
      <4>3. QED
        BY <4>1, <4>2
    <3>2. CASE Unassign(r) /\ active[h][v] # 0
      <4>1. active' = [active EXCEPT ![h][v] = active[h][v] - 1]
        BY <3>2 DEF Unassign
      <4>2. h \in Hired /\ v \in Vehicles => active[h][v] - 1 \in Nat
        BY <2>1, <3>2
      <4>3. QED
        BY <4>1, <4>2
    <3>3. CASE Unassign(r) /\ active[h][v] = 0
      <4>1. active' = active
        BY <3>3 DEF Unassign
      <4>2. 0 \in Nat
        OBVIOUS
      <4>3. QED
        BY <4>1, <4>2
    <3>4. QED
      BY <1>10, <3>1, <3>2, <3>3
  <2>3. active' \in [Hired -> [Vehicles -> Nat]]
    <3>1. CASE active' = active
      BY <1>d, <3>1
    <3>2. CASE active' = [active EXCEPT ![h][v] = m]
      <4> DEFINE g == [active[h] EXCEPT ![v] = m]
      <4>1. active' = [active EXCEPT ![h] = g]
        BY <3>2
      <4>2. h \in Hired => g \in [Vehicles -> Nat]
        <5>1. h \in Hired => active[h] \in [Vehicles -> Nat]
          BY <1>d
        <5>2. QED
          BY <2>2, <5>1
      <4> HIDE DEF g
      <4>3. QED
        BY <1>d, <4>1, <4>2
    <3>3. QED
      BY <2>2, <3>1, <3>2
  <2>4. UNCHANGED <<driver, onTrip, post, app>> /\ (ShiftAdvance(r, "looking") \/ ShiftAdvance(r, "free"))
    BY <1>10 DEF Assign, Unassign
  <2>5. QED
    BY <1>d, <1>a, <1>o, <1>k, <2>3, <2>4
<1>11. ASSUME NEW r \in ShiftReqs, NEW d \in Drivers, AtOnce(r, d) PROVE ShiftTyped'
  <2>1. driver' \in [Drivers -> DriverRow]
    BY <1>11, <1>r, <1>w, <1>o DEF AtOnce, EndDay, UpdateLocation, HandleLocationUpdate, ConfirmActive, TripAssigned, TripEnds
  <2>2. onTrip' \subseteq Drivers /\ UNCHANGED <<post, app, active, shiftReq>>
    BY <1>11, <1>d DEF AtOnce, EndDay, UpdateLocation, HandleLocationUpdate, ConfirmActive, TripAssigned, TripEnds
  <2>3. QED
    BY <1>d, <1>i, <1>k, <2>1, <2>2
<1>12. ASSUME NEW d \in Drivers, TwoHoursPass(d) \/ GracePasses(d) PROVE ShiftTyped'
  <2>1. driver' \in [Drivers -> DriverRow]
    BY <1>12, <1>r, <1>w DEF TwoHoursPass, GracePasses
  <2>2. QED
    BY <1>12, <1>d, <1>i, <1>k, <2>1 DEF TwoHoursPass, GracePasses
<1>13. CASE UNCHANGED shiftVars
  BY <1>13, <1>d, <1>i, <1>k DEF shiftVars
<1>14. QED
  BY <1>1, <1>2, <1>3, <1>4, <1>5, <1>6, <1>7, <1>8, <1>9, <1>10, <1>11, <1>12, <1>13 DEF ShiftNext, GoOn

(* The tables of a working day keep the types of their columns. *)
THEOREM ShiftTypedAlways == ShiftSpec => []ShiftTypeOK
<1>1. ShiftTyped => ShiftTypeOK
  BY DEF ShiftTyped
<1>2. QED
  BY <1>1, ShiftInitTyped, ShiftNextTyped, PTL DEF ShiftSpec

-----------------------------------------------------------------------------
(* A hired driver's taxi *)

(* complete has ended an assignment of the driver's and not yet his day. *)
Freeing(h) == \E r \in ShiftReqs : shiftReq[r].op = "free" /\ shiftReq[r].driver = h

StartsLent(r) ==
  shiftReq[r].op = "start" /\ shiftReq[r].driver \in Hired =>
    shiftReq[r].vehicle \in Vehicles /\ active[shiftReq[r].driver][shiftReq[r].vehicle] > 0

LentInv ==
  /\ ShiftTyped /\ DayApart
  /\ \A h \in Hired, v \in Vehicles : driver[h].vehicle = v => active[h][v] > 0 \/ Freeing(h)
  /\ \A r \in ShiftReqs : StartsLent(r)

LEMMA LentInvInit == ShiftInit => LentInv
<1> SUFFICES ASSUME ShiftInit PROVE LentInv
  OBVIOUS
<1>1. \A r \in ShiftReqs : shiftReq[r].op = "idle"
  BY NoShiftCallTyped DEF ShiftInit
<1>2. \A h \in Hired : driver[h].vehicle = NoOne
  BY DEF ShiftInit, Drivers
<1>3. QED
  BY <1>1, <1>2, ShiftInitTyped DEF LentInv, DayApart, StartsLent

(* A step that hands out no taxi and ends no assignment. *)
LEMMA LentKept ==
  ASSUME LentInv, ShiftTyped', DayApart', active' = active,
         NEW r \in ShiftReqs,
         \A q \in ShiftReqs : q # r => shiftReq'[q] = shiftReq[q],
         shiftReq'[r] = shiftReq[r] \/ (shiftReq[r].op # "free" /\ shiftReq'[r].op # "start"),
         \A d \in Drivers : driver'[d].vehicle \in {driver[d].vehicle, NoOne}
  PROVE  LentInv'
<1>1. \A h \in Hired : Freeing(h) => Freeing(h)'
  BY DEF Freeing
<1>2. \A h \in Hired, v \in Vehicles : driver'[h].vehicle = v => driver[h].vehicle = v
  BY DEF Drivers
<1>3. \A h \in Hired, v \in Vehicles : driver'[h].vehicle = v => active'[h][v] > 0 \/ Freeing(h)'
  BY <1>1, <1>2 DEF LentInv
<1>4. \A q \in ShiftReqs : StartsLent(q)'
  BY DEF LentInv, StartsLent
<1>5. QED
  BY <1>3, <1>4 DEF LentInv

LEMMA LentInvNext == LentInv /\ [ShiftNext /\ DayApart']_shiftVars => LentInv'
<1> SUFFICES ASSUME LentInv, [ShiftNext /\ DayApart']_shiftVars PROVE LentInv'
  OBVIOUS
<1>t. ShiftTyped /\ ShiftTyped' /\ ShiftTypeOK
  BY ShiftNextTyped DEF LentInv, ShiftTyped
<1>d. /\ driver \in [Drivers -> DriverRow] /\ active \in [Hired -> [Vehicles -> Nat]]
      /\ shiftReq \in [ShiftReqs -> Handler] /\ Hired \subseteq Drivers /\ NoOne \notin Vehicles
  BY <1>t DEF ShiftTypeOK, Drivers
<1>u. CASE UNCHANGED shiftVars
  <2>1. DayApart' /\ (\A r \in ShiftReqs : StartsLent(r)') /\ \A h \in Hired : Freeing(h) => Freeing(h)'
    BY <1>u DEF shiftVars, LentInv, DayApart, StartsLent, Freeing
  <2>2. \A h \in Hired, v \in Vehicles : driver'[h].vehicle = v => active'[h][v] > 0 \/ Freeing(h)'
    BY <1>u, <2>1 DEF shiftVars, LentInv
  <2>3. QED
    BY <1>t, <2>1, <2>2 DEF LentInv
<1>n. CASE ShiftNext /\ DayApart'
  <2>a. DayApart'
    BY <1>n
  <2>1. ASSUME NEW r \in ShiftReqs, Calls(r) PROVE LentInv'
    <3>1. PICK call \in Handler : ShiftBegin(r, call) /\ LetIn(call)
      BY <1>t, <2>1, CallsLetIn
    <3>2. UNCHANGED <<driver, onTrip, post, app, active>>
      BY <1>t, <2>1, CallsLetIn
    <3>3. /\ shiftReq[r].op = "idle" /\ shiftReq'[r] = call
          /\ \A q \in ShiftReqs : q # r => shiftReq'[q] = shiftReq[q]
      BY <1>t, <3>1, ShiftSlots, NoShiftCallTyped
    <3>4. \A h \in Hired : Freeing(h) => Freeing(h)'
      BY <3>3 DEF Freeing
    <3>5. StartsLent(r)'
      BY <3>1, <3>2, <3>3 DEF LetIn, MayDrive, StartsLent
    <3>6. \A q \in ShiftReqs : StartsLent(q)'
      BY <3>2, <3>3, <3>5 DEF LentInv, StartsLent
    <3>7. \A h \in Hired, v \in Vehicles : driver'[h].vehicle = v => active'[h][v] > 0 \/ Freeing(h)'
      BY <3>2, <3>4 DEF LentInv
    <3>8. QED
      BY <1>t, <2>a, <3>6, <3>7 DEF LentInv
  <2>2. ASSUME NEW r \in ShiftReqs, StartDayWrite(r) PROVE LentInv'
    <3> DEFINE d == shiftReq[r].driver
    <3>1. /\ shiftReq'[r].op = "idle" /\ shiftReq[r].op = "start"
          /\ \A q \in ShiftReqs : q # r => shiftReq'[q] = shiftReq[q]
      BY <1>t, <2>2, ShiftSlots, NoShiftCallTyped DEF StartDayWrite
    <3>2. active' = active
      BY <2>2 DEF StartDayWrite
    <3>3. \A h \in Hired : driver'[h].vehicle = IF h = d THEN shiftReq[r].vehicle ELSE driver[h].vehicle
      <4> TAKE h \in Hired
      <4>1. driver' = [driver EXCEPT ![d] =
                         [driver[d] EXCEPT !.vehicle = shiftReq[r].vehicle, !.status = "online", !.seen = "recent"]]
        BY <2>2 DEF StartDayWrite
      <4>2. driver[h] \in DriverRow /\ h \in Drivers
        BY <1>d
      <4>3. [driver[h] EXCEPT !.vehicle = shiftReq[r].vehicle, !.status = "online", !.seen = "recent"].vehicle
              = shiftReq[r].vehicle
        BY <4>2 DEF DriverRow
      <4>4. CASE h = d
        <5>1. driver'[h] = [driver[h] EXCEPT !.vehicle = shiftReq[r].vehicle, !.status = "online", !.seen = "recent"]
          BY <1>d, <4>1, <4>2, <4>4
        <5>2. QED
          BY <4>3, <4>4, <5>1
      <4>5. CASE h # d
        BY <1>d, <4>1, <4>2, <4>5
      <4>6. QED
        BY <4>4, <4>5
    <3>4. \A h \in Hired : Freeing(h) => Freeing(h)'
      BY <3>1 DEF Freeing
    <3>5. \A h \in Hired, v \in Vehicles : driver'[h].vehicle = v => active'[h][v] > 0 \/ Freeing(h)'
      BY <3>1, <3>2, <3>3, <3>4 DEF LentInv, StartsLent
    <3>6. \A q \in ShiftReqs : StartsLent(q)'
      BY <3>1, <3>2 DEF LentInv, StartsLent
    <3>7. QED
      BY <1>t, <2>a, <3>5, <3>6 DEF LentInv
  <2>3. ASSUME NEW r \in ShiftReqs, Free(r) PROVE LentInv'
    <3> DEFINE d == shiftReq[r].driver
    <3>1. /\ shiftReq'[r].op = "idle" /\ shiftReq[r].op = "free"
          /\ \A q \in ShiftReqs : q # r => shiftReq'[q] = shiftReq[q]
      BY <1>t, <2>3, ShiftSlots, NoShiftCallTyped DEF Free
    <3>2. active' = active
      BY <2>3 DEF Free
    <3>3. \A h \in Hired : driver'[h].vehicle = IF h = d THEN NoOne ELSE driver[h].vehicle
      <4> TAKE h \in Hired
      <4>1. driver' = [driver EXCEPT ![d] = [driver[d] EXCEPT !.status = "looking_for_work", !.vehicle = NoOne]]
        BY <2>3 DEF Free
      <4>2. driver[h] \in DriverRow /\ h \in Drivers
        BY <1>d
      <4>3. [driver[h] EXCEPT !.status = "looking_for_work", !.vehicle = NoOne].vehicle = NoOne
        BY <4>2 DEF DriverRow
      <4>4. QED
        BY <1>d, <4>1, <4>2, <4>3
    <3>4. \A h \in Hired : h # d /\ Freeing(h) => Freeing(h)'
      BY <3>1 DEF Freeing
    <3>5. \A h \in Hired, v \in Vehicles : driver'[h].vehicle = v => active'[h][v] > 0 \/ Freeing(h)'
      BY <1>d, <3>2, <3>3, <3>4 DEF LentInv
    <3>6. \A q \in ShiftReqs : StartsLent(q)'
      BY <3>1, <3>2 DEF LentInv, StartsLent
    <3>7. QED
      BY <1>t, <2>a, <3>5, <3>6 DEF LentInv
  <2>4. ASSUME NEW r \in ShiftReqs, Assign(r) PROVE LentInv'
    <3>1. /\ shiftReq'[r].op = "looking" /\ shiftReq[r].op = "assign"
          /\ \A q \in ShiftReqs : q # r => shiftReq'[q] = shiftReq[q]
      BY <1>t, <2>4, ShiftSlots DEF Assign, Steps
    <3>2. \A h \in Hired, v \in Vehicles : active[h][v] > 0 => active'[h][v] > 0
      <4> TAKE h \in Hired, v \in Vehicles
      <4>1. active[h][v] \in Nat /\ active[h] \in [Vehicles -> Nat]
        BY <1>d
      <4>2. active'[h][v] = active[h][v] \/ active'[h][v] = active[h][v] + 1
        BY <1>d, <2>4, <4>1 DEF Assign
      <4>3. QED
        BY <4>1, <4>2
    <3>3. \A h \in Hired : Freeing(h) => Freeing(h)'
      BY <3>1 DEF Freeing
    <3>4. \A h \in Hired, v \in Vehicles : driver'[h].vehicle = v => active'[h][v] > 0 \/ Freeing(h)'
      BY <2>4, <3>2, <3>3 DEF LentInv, Assign
    <3>5. \A q \in ShiftReqs : StartsLent(q)'
      BY <3>1, <3>2 DEF LentInv, StartsLent
    <3>6. QED
      BY <1>t, <2>a, <3>4, <3>5 DEF LentInv
  <2>5. ASSUME NEW r \in ShiftReqs, Unassign(r) PROVE LentInv'
    <3> DEFINE d == shiftReq[r].driver
    <3>1. /\ shiftReq'[r].op = "free" /\ shiftReq'[r].driver = d /\ shiftReq[r].op = "unassign"
          /\ \A q \in ShiftReqs : q # r => shiftReq'[q] = shiftReq[q]
      BY <1>t, <2>5, ShiftSlots DEF Unassign, Steps
    <3>2. \A h \in Hired, v \in Vehicles : h # d => active'[h][v] = active[h][v]
      BY <1>d, <2>5 DEF Unassign
    <3>3. \A h \in Hired : h = d \/ Freeing(h) => Freeing(h)'
      BY <3>1 DEF Freeing
    <3>4. \A h \in Hired, v \in Vehicles : driver'[h].vehicle = v => active'[h][v] > 0 \/ Freeing(h)'
      <4> TAKE h \in Hired, v \in Vehicles
      <4>1. driver' = driver
        BY <2>5 DEF Unassign
      <4>2. CASE h = d
        BY <3>3, <4>2
      <4>3. CASE h # d
        BY <3>2, <3>3, <4>1, <4>3 DEF LentInv
      <4>4. QED
        BY <4>2, <4>3
    <3>5. ASSUME NEW q \in ShiftReqs PROVE StartsLent(q)'
      <4>1. shiftReq[q].op = "start" => shiftReq[q].driver # d
        BY <3>1 DEF LentInv, DayApart
      <4>2. StartsLent(q)
        BY DEF LentInv
      <4>3. QED
        BY <3>1, <3>2, <4>1, <4>2 DEF StartsLent
    <3>6. QED
      BY <1>t, <2>a, <3>4, <3>5 DEF LentInv
  <2>6. ASSUME NEW r \in ShiftReqs,
               \/ SetOnlineStatusWrite(r) \/ LookForWork(r)
               \/ PublishWrite(r) \/ ApplyWrite(r) \/ WithdrawWrite(r) \/ CancelPostWrite(r) \/ CronEnds(r)
               \/ AcceptWrite(r) \/ RejectOthers(r) \/ AcceptPost(r) \/ CompletePostWrite(r)
        PROVE  LentInv'
    <3>1. /\ shiftReq'[r].op \in {"idle", "rejectOthers", "acceptPost", "assign", "unassign"}
          /\ \A q \in ShiftReqs : q # r => shiftReq'[q] = shiftReq[q]
      BY <1>t, <2>6, ShiftSlots, NoShiftCallTyped
      DEF SetOnlineStatusWrite, LookForWork, PublishWrite, ApplyWrite, WithdrawWrite, CancelPostWrite, CronEnds,
        AcceptWrite, RejectOthers, AcceptPost, CompletePostWrite, Steps
    <3>2. shiftReq[r].op # "free" /\ active' = active
      BY <2>6 DEF SetOnlineStatusWrite, LookForWork, PublishWrite, ApplyWrite, WithdrawWrite, CancelPostWrite,
        CronEnds, AcceptWrite, RejectOthers, AcceptPost, CompletePostWrite
    <3>3. ASSUME NEW d \in Drivers PROVE driver'[d].vehicle = driver[d].vehicle
      <4>1. driver[d] \in DriverRow
        BY <1>d
      <4>2. \/ driver'[d] = driver[d]
            \/ driver'[d] = [driver[d] EXCEPT !.status = shiftReq[r].status, !.seen = "recent"]
            \/ driver'[d] = [driver[d] EXCEPT !.status = "looking_for_work"]
        BY <1>d, <2>6 DEF SetOnlineStatusWrite, LookForWork, PublishWrite, ApplyWrite, WithdrawWrite,
          CancelPostWrite, CronEnds, AcceptWrite, RejectOthers, AcceptPost, CompletePostWrite
      <4>3. QED
        BY <4>1, <4>2 DEF DriverRow
    <3>4. QED
      BY <1>t, <2>a, <3>1, <3>2, <3>3, LentKept
  <2>7. ASSUME NEW r \in ShiftReqs,
               (\E d \in Drivers : Prompt(r, d) \/ Disconnect(r, d)) \/ FindUnanswered(r)
        PROVE  LentInv'
    <3>1. /\ shiftReq[r].op \in {"prompt", "disconnect"} /\ shiftReq'[r].op \in {"prompt", "disconnect"}
          /\ \A q \in ShiftReqs : q # r => shiftReq'[q] = shiftReq[q]
      <4>1. shiftReq[r] \in Handler
        BY <1>d
      <4>2. ASSUME NEW d \in Drivers, Prompt(r, d) \/ Disconnect(r, d)
            PROVE  /\ shiftReq[r].op \in {"prompt", "disconnect"} /\ shiftReq'[r].op = shiftReq[r].op
                   /\ \A q \in ShiftReqs : q # r => shiftReq'[q] = shiftReq[q]
        <5>1. shiftReq' = [shiftReq EXCEPT ![r] = [shiftReq[r] EXCEPT !.todo = @ \ {d}]]
          BY <4>2 DEF Prompt, Disconnect
        <5>2. [shiftReq[r] EXCEPT !.todo = @ \ {d}].op = shiftReq[r].op
          BY <4>1 DEF Handler
        <5>3. QED
          BY <1>d, <4>2, <5>1, <5>2 DEF Prompt, Disconnect
      <4>3. ASSUME FindUnanswered(r)
            PROVE  /\ shiftReq[r].op = "prompt" /\ shiftReq'[r].op = "disconnect"
                   /\ \A q \in ShiftReqs : q # r => shiftReq'[q] = shiftReq[q]
        <5> DEFINE x == [shiftReq[r] EXCEPT !.op = "disconnect",
                                            !.todo = {d \in Drivers : Awake(d) /\ driver[d].prompt = "due"}]
        <5>1. shiftReq' = [shiftReq EXCEPT ![r] = x] /\ shiftReq[r].op = "prompt"
          BY <4>3 DEF FindUnanswered
        <5>2. x.op = "disconnect"
          BY <4>1 DEF Handler
        <5> HIDE DEF x
        <5>3. QED
          BY <1>d, <5>1, <5>2
      <4>4. QED
        BY <2>7, <4>2, <4>3
    <3>2. active' = active
      BY <2>7 DEF Prompt, Disconnect, FindUnanswered
    <3>3. ASSUME NEW d \in Drivers PROVE driver'[d].vehicle = driver[d].vehicle
      <4>1. driver[d] \in DriverRow
        BY <1>d
      <4>2. \/ driver'[d] = driver[d]
            \/ driver'[d] = [driver[d] EXCEPT !.prompt = "sent"]
            \/ driver'[d] = [driver[d] EXCEPT !.status = "offline", !.prompt = "none"]
        BY <1>d, <2>7 DEF Prompt, Disconnect, FindUnanswered
      <4>3. QED
        BY <4>1, <4>2 DEF DriverRow
    <3>4. QED
      BY <1>t, <2>a, <3>1, <3>2, <3>3, LentKept
  <2>8. ASSUME NEW r \in ShiftReqs, NEW e \in Drivers, AtOnce(r, e) PROVE LentInv'
    <3>1. active' = active /\ shiftReq' = shiftReq
      BY <2>8 DEF AtOnce, EndDay, UpdateLocation, HandleLocationUpdate, ConfirmActive, TripAssigned, TripEnds
    <3>2. ASSUME NEW d \in Drivers PROVE driver'[d].vehicle \in {driver[d].vehicle, NoOne}
      <4>1. driver[d] \in DriverRow
        BY <1>d
      <4>2. \/ driver'[d] = driver[d]
            \/ driver'[d] = [driver[d] EXCEPT !.vehicle = NoOne, !.status = "offline", !.seen = "recent"]
            \/ driver'[d] = [driver[d] EXCEPT !.seen = "recent"]
            \/ driver'[d] = [driver[d] EXCEPT !.seen = "recent", !.prompt = "none"]
            \/ driver'[d] = [driver[d] EXCEPT !.status = "busy"]
            \/ driver'[d] = [driver[d] EXCEPT !.status = "online"]
        BY <1>d, <2>8 DEF AtOnce, EndDay, UpdateLocation, HandleLocationUpdate, ConfirmActive, TripAssigned, TripEnds
      <4>3. QED
        BY <4>1, <4>2 DEF DriverRow
    <3>3. QED
      BY <1>t, <2>a, <3>1, <3>2, LentKept
  <2>9. ASSUME NEW e \in Drivers, TwoHoursPass(e) \/ GracePasses(e) PROVE LentInv'
    <3>1. active' = active /\ shiftReq' = shiftReq
      BY <2>9 DEF TwoHoursPass, GracePasses
    <3>2. ASSUME NEW d \in Drivers PROVE driver'[d].vehicle = driver[d].vehicle
      <4>1. driver[d] \in DriverRow
        BY <1>d
      <4>2. \/ driver'[d] = driver[d]
            \/ driver'[d] = [driver[d] EXCEPT !.seen = "old"]
            \/ driver'[d] = [driver[d] EXCEPT !.prompt = "due"]
        BY <1>d, <2>9 DEF TwoHoursPass, GracePasses
      <4>3. QED
        BY <4>1, <4>2 DEF DriverRow
    <3>3. \A h \in Hired, v \in Vehicles : driver'[h].vehicle = v => active'[h][v] > 0 \/ Freeing(h)'
      BY <1>d, <3>1, <3>2 DEF LentInv, Freeing
    <3>4. \A r \in ShiftReqs : StartsLent(r)'
      BY <3>1 DEF LentInv, StartsLent
    <3>5. QED
      BY <1>t, <2>a, <3>3, <3>4 DEF LentInv
  <2>10. QED
    BY <1>n, <2>1, <2>2, <2>3, <2>4, <2>5, <2>6, <2>7, <2>8, <2>9 DEF ShiftNext, GoOn
<1>q. QED
  BY <1>u, <1>n

LEMMA LentFromInv == LentInv => HiredDriveWhatIsLent
<1> SUFFICES ASSUME LentInv, \A r \in ShiftReqs : shiftReq[r] = NoShiftCall,
                    NEW h \in Hired, NEW v \in Vehicles, driver[h].vehicle = v
             PROVE  active[h][v] > 0
  BY DEF HiredDriveWhatIsLent
<1>1. ~Freeing(h)
  BY NoShiftCallTyped DEF Freeing
<1>2. QED
  BY <1>1 DEF LentInv

(* Between handlers a hired driver has a taxi only while an active assignment
   lends it to him: two handlers at once break it only when startDay's write
   falls on the other side of complete's update of the assignment. *)
THEOREM HiredKeepWhatIsLent == DayApartSpec => []HiredDriveWhatIsLent
BY LentInvInit, LentInvNext, LentFromInv, PTL DEF DayApartSpec

(* One handler at a time is one way of keeping them apart. *)
THEOREM OneHandlerLends ==
  ASSUME \A r, s \in ShiftReqs : r = s
  PROVE  ShiftSpec => []HiredDriveWhatIsLent
<1>1. DayApart /\ DayApart'
  BY DEF DayApart
<1>2. LentInv /\ [ShiftNext]_shiftVars => LentInv'
  BY <1>1, LentInvNext
<1>3. QED
  BY <1>2, LentInvInit, LentFromInv, PTL DEF ShiftSpec

-----------------------------------------------------------------------------
(* One driver per taxi *)

(* Nobody is offline with a taxi in his row. *)
OfflineWithoutTaxi == \A d \in Drivers : driver[d].status = "offline" => driver[d].vehicle = NoOne

(* Two drivers are not between the check and the write of startDay for one
   taxi. *)
StartsApart ==
  \A r, q \in ShiftReqs :
    /\ shiftReq[r].op = "start" /\ shiftReq[q].op = "start"
    /\ shiftReq[r].vehicle = shiftReq[q].vehicle
    => shiftReq[r].driver = shiftReq[q].driver

InOneRow ==
  \A d, e \in Drivers : driver[d].vehicle \in Vehicles /\ driver[d].vehicle = driver[e].vehicle => d = e

\* A driver about to start with a taxi is the only one who may have it.
TakesAlone(r) ==
  shiftReq[r].op = "start" =>
    /\ shiftReq[r].driver \in Drivers /\ shiftReq[r].vehicle \in Vehicles
    /\ \A d \in Drivers : driver[d].vehicle = shiftReq[r].vehicle => d = shiftReq[r].driver

TaxiInv == ShiftTyped /\ InOneRow /\ \A r \in ShiftReqs : TakesAlone(r)

LEMMA TaxiInvInit == ShiftInit => TaxiInv
<1> SUFFICES ASSUME ShiftInit PROVE TaxiInv
  OBVIOUS
<1>1. \A r \in ShiftReqs : shiftReq[r].op = "idle"
  BY NoShiftCallTyped DEF ShiftInit
<1>2. \A d \in Drivers : driver[d].vehicle = NoOne
  BY DEF ShiftInit
<1>3. QED
  BY <1>1, <1>2, ShiftInitTyped DEF TaxiInv, InOneRow, TakesAlone, ShiftAssumption

(* startDay's write aside, a step of a handler leaves every driver the taxi
   he has or none, and no handler comes to its start. *)
LEMMA TaxisStay ==
  ASSUME ShiftTyped, NEW r \in ShiftReqs, GoOn(r), ~StartDayWrite(r)
  PROVE  /\ \A d \in Drivers : driver'[d].vehicle \in {driver[d].vehicle, NoOne}
         /\ \A q \in ShiftReqs : shiftReq'[q].op = "start" => shiftReq'[q] = shiftReq[q]
<1>d. /\ ShiftTypeOK /\ driver \in [Drivers -> DriverRow] /\ shiftReq \in [ShiftReqs -> Handler]
      /\ shiftReq[r] \in Handler
  BY DEF ShiftTyped, ShiftTypeOK
<1>1. ASSUME NEW d \in Drivers PROVE driver'[d].vehicle \in {driver[d].vehicle, NoOne}
  <2>1. driver[d] \in DriverRow
    BY <1>d
  <2>2. \/ driver'[d] = driver[d]
        \/ driver'[d] = [driver[d] EXCEPT !.status = shiftReq[r].status, !.seen = "recent"]
        \/ driver'[d] = [driver[d] EXCEPT !.prompt = "sent"]
        \/ driver'[d] = [driver[d] EXCEPT !.status = "offline", !.prompt = "none"]
        \/ driver'[d] = [driver[d] EXCEPT !.status = "looking_for_work"]
        \/ driver'[d] = [driver[d] EXCEPT !.status = "looking_for_work", !.vehicle = NoOne]
    BY <1>d DEF GoOn, SetOnlineStatusWrite, Prompt, FindUnanswered, Disconnect, CronEnds, PublishWrite,
      ApplyWrite, WithdrawWrite, AcceptWrite, RejectOthers, AcceptPost, Assign, LookForWork,
      CancelPostWrite, CompletePostWrite, Unassign, Free
  <2>3. QED
    BY <2>1, <2>2 DEF DriverRow
<1>2. CASE \/ SetOnlineStatusWrite(r) \/ CronEnds(r) \/ PublishWrite(r) \/ ApplyWrite(r)
           \/ WithdrawWrite(r) \/ LookForWork(r) \/ CancelPostWrite(r) \/ Free(r)
  <2>1. ShiftEnd(r)
    BY <1>2 DEF SetOnlineStatusWrite, CronEnds, PublishWrite, ApplyWrite, WithdrawWrite, LookForWork,
      CancelPostWrite, Free
  <2>2. QED
    BY <1>d, <1>1, <2>1, ShiftSlots, NoShiftCallTyped
<1>3. CASE \/ AcceptWrite(r) \/ RejectOthers(r) \/ AcceptPost(r) \/ Assign(r)
           \/ CompletePostWrite(r) \/ Unassign(r)
  <2>1. PICK op \in {"rejectOthers", "acceptPost", "assign", "looking", "unassign", "free"} :
          ShiftAdvance(r, op)
    BY <1>3 DEF AcceptWrite, RejectOthers, AcceptPost, Assign, CompletePostWrite, Unassign
  <2>2. op \in Steps /\ op # "start"
    BY DEF Steps
  <2>3. shiftReq'[r].op = op /\ \A q \in ShiftReqs : q # r => shiftReq'[q] = shiftReq[q]
    BY <1>d, <2>1, <2>2, ShiftSlots
  <2>4. QED
    BY <1>1, <2>2, <2>3
<1>4. ASSUME NEW d \in Drivers, Prompt(r, d) \/ Disconnect(r, d)
      PROVE  \A q \in ShiftReqs : shiftReq'[q].op = "start" => shiftReq'[q] = shiftReq[q]
  <2> DEFINE x == [shiftReq[r] EXCEPT !.todo = @ \ {d}]
  <2>1. shiftReq' = [shiftReq EXCEPT ![r] = x] /\ shiftReq[r].op \in {"prompt", "disconnect"}
    BY <1>4 DEF Prompt, Disconnect
  <2>2. x.op = shiftReq[r].op
    BY <1>d DEF Handler
  <2> HIDE DEF x
  <2>3. QED
    BY <1>d, <2>1, <2>2
<1>5. ASSUME FindUnanswered(r)
      PROVE  \A q \in ShiftReqs : shiftReq'[q].op = "start" => shiftReq'[q] = shiftReq[q]
  <2> DEFINE who == {d \in Drivers : Awake(d) /\ driver[d].prompt = "due"}
             x == [shiftReq[r] EXCEPT !.op = "disconnect", !.todo = who]
  <2>1. shiftReq' = [shiftReq EXCEPT ![r] = x]
    BY <1>5 DEF FindUnanswered
  <2>2. x.op = "disconnect"
    BY <1>d DEF Handler
  <2> HIDE DEF x
  <2>3. QED
    BY <1>d, <2>1, <2>2
<1>6. QED
  BY <1>1, <1>2, <1>3, <1>4, <1>5 DEF GoOn

(* What keeps everybody's taxi or takes it away, and starts nobody. *)
LEMMA TaxiInvKept ==
  ASSUME TaxiInv, ShiftTyped',
         \A d \in Drivers : driver'[d].vehicle \in {driver[d].vehicle, NoOne},
         \A q \in ShiftReqs : shiftReq'[q].op = "start" => shiftReq'[q] = shiftReq[q]
  PROVE  TaxiInv'
<1>1. InOneRow'
  BY DEF TaxiInv, InOneRow
<1>2. ASSUME NEW q \in ShiftReqs PROVE TakesAlone(q)'
  <2>1. TakesAlone(q)
    BY DEF TaxiInv
  <2>2. QED
    BY <2>1 DEF TakesAlone
<1>3. QED
  BY <1>1, <1>2 DEF TaxiInv

LEMMA TaxiInvNext ==
  TaxiInv /\ OfflineWithoutTaxi /\ StartsApart /\ [ShiftNext]_shiftVars => TaxiInv'
<1> SUFFICES ASSUME TaxiInv, OfflineWithoutTaxi, StartsApart, [ShiftNext]_shiftVars PROVE TaxiInv'
  OBVIOUS
<1>t. ShiftTyped /\ ShiftTyped' /\ ShiftTypeOK
  BY ShiftNextTyped DEF TaxiInv, ShiftTyped
<1>d. driver \in [Drivers -> DriverRow] /\ shiftReq \in [ShiftReqs -> Handler]
  BY <1>t DEF ShiftTypeOK
<1>1. ASSUME NEW r \in ShiftReqs, Calls(r) PROVE TaxiInv'
  <2>1. PICK call \in Handler : ShiftBegin(r, call) /\ LetIn(call)
    BY <1>t, <1>1, CallsLetIn
  <2>2. driver' = driver
    BY <1>t, <1>1, CallsLetIn
  <2>3. shiftReq'[r] = call /\ \A q \in ShiftReqs : q # r => shiftReq'[q] = shiftReq[q]
    BY <1>t, <2>1, ShiftSlots
  <2>4. ASSUME call.op = "start", NEW e \in Drivers, driver[e].vehicle = call.vehicle
        PROVE  e = call.driver
    <3>1. call.driver \in Drivers /\ call.vehicle \in Vehicles
      BY <2>1, <2>4 DEF LetIn
    <3>2. e \in Using(call.vehicle)
      BY <2>4, <3>1 DEF OfflineWithoutTaxi, Using
    <3>3. driver[call.driver].vehicle = call.vehicle
      BY <2>1, <2>4, <3>2 DEF LetIn, Using
    <3>4. QED
      BY <2>4, <3>1, <3>3 DEF TaxiInv, InOneRow
  <2>5. TakesAlone(r)'
    BY <2>1, <2>2, <2>3, <2>4 DEF TakesAlone, LetIn
  <2>6. \A q \in ShiftReqs : TakesAlone(q)'
    BY <2>2, <2>3, <2>5 DEF TaxiInv, TakesAlone
  <2>7. QED
    BY <1>t, <2>2, <2>6 DEF TaxiInv, InOneRow
<1>2. ASSUME NEW r \in ShiftReqs, StartDayWrite(r) PROVE TaxiInv'
  <2> DEFINE d == shiftReq[r].driver
             v == shiftReq[r].vehicle
  <2>1. /\ shiftReq'[r].op = "idle" /\ shiftReq[r].op = "start"
        /\ \A q \in ShiftReqs : q # r => shiftReq'[q] = shiftReq[q]
    BY <1>t, <1>2, ShiftSlots, NoShiftCallTyped DEF StartDayWrite
  <2>2. /\ d \in Drivers /\ v \in Vehicles
        /\ \A e \in Drivers : driver[e].vehicle = v => e = d
    BY <2>1 DEF TaxiInv, TakesAlone
  <2>3. driver' = [driver EXCEPT ![d] = [driver[d] EXCEPT !.vehicle = v, !.status = "online", !.seen = "recent"]]
    BY <1>2 DEF StartDayWrite
  <2>4. driver[d] \in DriverRow
    BY <1>d, <2>2
  <2>5. [driver[d] EXCEPT !.vehicle = v, !.status = "online", !.seen = "recent"].vehicle = v
    BY <2>4 DEF DriverRow
  <2> HIDE DEF d, v
  <2>6. driver'[d].vehicle = v /\ \A e \in Drivers : e # d => driver'[e] = driver[e]
    BY <1>d, <2>2, <2>3, <2>5
  <2>7. InOneRow'
    BY <2>2, <2>6 DEF TaxiInv, InOneRow
  <2>8. ASSUME NEW q \in ShiftReqs PROVE TakesAlone(q)'
    <3>1. CASE q = r
      BY <2>1, <3>1 DEF TakesAlone
    <3>2. CASE q # r
      <4>1. TakesAlone(q) /\ shiftReq'[q] = shiftReq[q]
        BY <2>1, <3>2 DEF TaxiInv
      <4>2. shiftReq[q].op = "start" /\ shiftReq[q].vehicle = v => shiftReq[q].driver = d
        BY <2>1 DEF StartsApart, d, v
      <4>3. QED
        BY <2>6, <4>1, <4>2 DEF TakesAlone
    <3>3. QED
      BY <3>1, <3>2
  <2>9. QED
    BY <1>t, <2>7, <2>8 DEF TaxiInv
<1>3. ASSUME NEW r \in ShiftReqs, GoOn(r), ~StartDayWrite(r) PROVE TaxiInv'
  BY <1>t, <1>3, TaxisStay, TaxiInvKept
<1>4. ASSUME NEW r \in ShiftReqs, NEW e \in Drivers, AtOnce(r, e) PROVE TaxiInv'
  <2>1. shiftReq' = shiftReq
    BY <1>4 DEF AtOnce, EndDay, UpdateLocation, HandleLocationUpdate, ConfirmActive, TripAssigned, TripEnds
  <2>2. ASSUME NEW d \in Drivers PROVE driver'[d].vehicle \in {driver[d].vehicle, NoOne}
    <3>1. driver[d] \in DriverRow
      BY <1>d
    <3>2. \/ driver'[d] = driver[d]
          \/ driver'[d] = [driver[d] EXCEPT !.vehicle = NoOne, !.status = "offline", !.seen = "recent"]
          \/ driver'[d] = [driver[d] EXCEPT !.seen = "recent"]
          \/ driver'[d] = [driver[d] EXCEPT !.seen = "recent", !.prompt = "none"]
          \/ driver'[d] = [driver[d] EXCEPT !.status = "busy"]
          \/ driver'[d] = [driver[d] EXCEPT !.status = "online"]
      BY <1>d, <1>4 DEF AtOnce, EndDay, UpdateLocation, HandleLocationUpdate, ConfirmActive, TripAssigned, TripEnds
    <3>3. QED
      BY <3>1, <3>2 DEF DriverRow
  <2>3. QED
    BY <1>t, <2>1, <2>2, TaxiInvKept
<1>5. ASSUME (\E e \in Drivers : TwoHoursPass(e) \/ GracePasses(e)) \/ UNCHANGED shiftVars PROVE TaxiInv'
  <2>1. shiftReq' = shiftReq
    BY <1>5 DEF TwoHoursPass, GracePasses, shiftVars
  <2>2. ASSUME NEW d \in Drivers PROVE driver'[d].vehicle = driver[d].vehicle
    <3>1. driver[d] \in DriverRow
      BY <1>d
    <3>2. \/ driver'[d] = driver[d]
          \/ driver'[d] = [driver[d] EXCEPT !.seen = "old"]
          \/ driver'[d] = [driver[d] EXCEPT !.prompt = "due"]
      BY <1>d, <1>5 DEF TwoHoursPass, GracePasses, shiftVars
    <3>3. QED
      BY <3>1, <3>2 DEF DriverRow
  <2>3. QED
    BY <1>t, <2>1, <2>2, TaxiInvKept
<1>6. QED
  BY <1>1, <1>2, <1>3, <1>4, <1>5 DEF ShiftNext

LEMMA TaxiFromInv == TaxiInv => OneDriverPerTaxi
<1> SUFFICES ASSUME TaxiInv, NEW v \in Vehicles PROVE Cardinality(Using(v)) <= 1
  BY DEF OneDriverPerTaxi
<1>1. \A d, e \in Using(v) : d = e
  BY DEF TaxiInv, InOneRow, Using
<1>2. CASE Using(v) = {}
  BY <1>2, FS_EmptySet
<1>3. ASSUME NEW d \in Using(v) PROVE Cardinality(Using(v)) <= 1
  <2>1. Using(v) = {d}
    BY <1>1, <1>3
  <2>2. Cardinality({d}) = 1
    BY FS_Singleton
  <2>3. QED
    BY <2>1, <2>2
<1>4. QED
  BY <1>2, <1>3

(* startDay looks for a driver who has the taxi and is not offline.  That is
   enough, for two handlers or more in flight, as long as nobody goes offline
   with the taxi still in his row and no two drivers take one taxi at once:
   the run shifts_taxi shows the first to happen with one handler at a time
   (PATCH /drivers/status and the inactivity cron leave the taxi in the row). *)
THEOREM TaxiInOneHand ==
  ShiftSpec /\ [](OfflineWithoutTaxi /\ StartsApart) => []OneDriverPerTaxi
<1>1. TaxiInv /\ (OfflineWithoutTaxi /\ StartsApart) /\ [ShiftNext]_shiftVars => TaxiInv'
  BY TaxiInvNext
<1>2. QED
  BY <1>1, TaxiInvInit, TaxiFromInv, PTL DEF ShiftSpec

-----------------------------------------------------------------------------
(* Presence: connections and rooms *)

HIDE ShiftAssumption
USE SocketsAssumption

OneOpen == \A s, t \in Sockets : Open(s) /\ Open(t) => s = t

\* The driver's entry is that of the socket in use, unless it is known to be lost.
EntryOK ==
  \A s \in Sockets : Open(s) /\ conn[s].step # "authenticate" =>
    s \in socketUsers /\ ("entry" \in gaps \/ userSockets = s)

\* No call that put the driver online is still to let his socket in.
NobodyLetIn == \A r \in StatusCalls : statusCall[r] # "online"

\* It is in the room, or about to join it, or a call is about to let it in.
RoomOK ==
  isOnline /\ gaps = {} /\ NobodyLetIn =>
    \A s \in Sockets :
      Open(s) /\ (conn[s].step = "done" \/ (conn[s].step = "join" /\ ~conn[s].seen)) =>
        s \in availableRoom

PresenceIInv == PresenceTypeOK /\ OneOpen /\ EntryOK /\ RoomOK

LEMMA PresenceInitIInv == PresenceInit => PresenceIInv
<1> SUFFICES ASSUME PresenceInit PROVE PresenceIInv
  OBVIOUS
<1>1. \A s \in Sockets : conn[s] = NoConnection /\ ~Open(s)
  BY DEF PresenceInit, Open, NoConnection
<1>2. PresenceTypeOK
  BY <1>1 DEF PresenceInit, PresenceTypeOK, Conn, NoConnection
<1>3. OneOpen /\ EntryOK /\ RoomOK
  BY <1>1 DEF OneOpen, EntryOK, RoomOK
<1>4. QED
  BY <1>2, <1>3 DEF PresenceIInv

(* One row of conn changes. *)
LEMMA ConnStep ==
  ASSUME PresenceTypeOK, NEW s \in Sockets, NEW row \in Conn, conn' = [conn EXCEPT ![s] = row]
  PROVE  /\ conn' \in [Sockets -> Conn]
         /\ conn'[s] = row /\ \A t \in Sockets \ {s} : conn'[t] = conn[t]
  BY DEF PresenceTypeOK

LEMMA ConnectStep ==
  ASSUME PresenceIInv, NEW s \in Sockets, Connect(s)
  PROVE  PresenceIInv'
<1> DEFINE row == [state |-> "open", step |-> "authenticate", seen |-> FALSE]
<1> USE DEF PresenceIInv
<1>1. row \in Conn
  BY DEF PresenceTypeOK, Conn
<1>2. conn' = [conn EXCEPT ![s] = row]
  BY DEF Connect
<1>3. row.state = "open" /\ row.step = "authenticate" /\ row.seen = FALSE
  BY DEF PresenceTypeOK, Conn
<1> HIDE DEF row
<1>4. /\ conn' \in [Sockets -> Conn]
      /\ conn'[s] = row /\ \A t \in Sockets \ {s} : conn'[t] = conn[t]
  BY <1>1, <1>2, ConnStep
<1>5. PresenceTypeOK'
  BY <1>4 DEF Connect, PresenceTypeOK
<1>6. OneOpen'
  BY <1>3, <1>4 DEF Connect, OneOpen, Open
<1>7. EntryOK'
  BY <1>3, <1>4 DEF Connect, OneOpen, EntryOK, Open, PresenceTypeOK
<1>8. RoomOK'
  BY <1>3, <1>4 DEF Connect, OneOpen, EntryOK, RoomOK, NobodyLetIn, Open, PresenceTypeOK
<1>9. QED
  BY <1>5, <1>6, <1>7, <1>8

LEMMA AuthenticatedStep ==
  ASSUME PresenceIInv, NEW s \in Sockets, Authenticated(s)
  PROVE  PresenceIInv'
<1> DEFINE row == [conn[s] EXCEPT !.step = "load"]
<1> USE DEF PresenceIInv
<1>1. row \in Conn
  BY DEF PresenceTypeOK, Conn
<1>2. conn' = [conn EXCEPT ![s] = row]
  BY DEF Authenticated
<1>3. row.state = conn[s].state /\ row.step = "load" /\ row.seen = conn[s].seen
  BY DEF PresenceTypeOK, Conn
<1> HIDE DEF row
<1>4. /\ conn' \in [Sockets -> Conn]
      /\ conn'[s] = row /\ \A t \in Sockets \ {s} : conn'[t] = conn[t]
  BY <1>1, <1>2, ConnStep
<1>5. PresenceTypeOK'
  BY <1>4 DEF Authenticated, PresenceTypeOK
<1>6. OneOpen'
  BY <1>3, <1>4 DEF Authenticated, OneOpen, Open
<1>7. EntryOK'
  BY <1>3, <1>4 DEF Authenticated, OneOpen, EntryOK, Open, PresenceTypeOK, Sockets, NoSocket
<1>8. RoomOK'
  BY <1>3, <1>4 DEF Authenticated, OneOpen, EntryOK, RoomOK, NobodyLetIn, Open, PresenceTypeOK
<1>9. QED
  BY <1>5, <1>6, <1>7, <1>8

LEMMA ReadDriverStep ==
  ASSUME PresenceIInv, NEW s \in Sockets, ReadDriver(s)
  PROVE  PresenceIInv'
<1> DEFINE row == [conn[s] EXCEPT !.step = "join", !.seen = isOnline]
<1> USE DEF PresenceIInv
<1>1. row \in Conn
  BY DEF PresenceTypeOK, Conn
<1>2. conn' = [conn EXCEPT ![s] = row]
  BY DEF ReadDriver
<1>3. row.state = conn[s].state /\ row.step = "join" /\ row.seen = isOnline
  BY DEF PresenceTypeOK, Conn
<1> HIDE DEF row
<1>4. /\ conn' \in [Sockets -> Conn]
      /\ conn'[s] = row /\ \A t \in Sockets \ {s} : conn'[t] = conn[t]
  BY <1>1, <1>2, ConnStep
<1>5. PresenceTypeOK'
  BY <1>4 DEF ReadDriver, PresenceTypeOK
<1>6. OneOpen'
  BY <1>3, <1>4 DEF ReadDriver, OneOpen, Open
<1>7. EntryOK'
  BY <1>3, <1>4 DEF ReadDriver, OneOpen, EntryOK, Open, PresenceTypeOK
<1>8. RoomOK'
  BY <1>3, <1>4 DEF ReadDriver, OneOpen, EntryOK, RoomOK, NobodyLetIn, Open, PresenceTypeOK
<1>9. QED
  BY <1>5, <1>6, <1>7, <1>8

LEMMA JoinRoomsStep ==
  ASSUME PresenceIInv, NEW s \in Sockets, JoinRooms(s)
  PROVE  PresenceIInv'
<1> DEFINE row == [conn[s] EXCEPT !.step = "done", !.seen = FALSE]
<1> USE DEF PresenceIInv
<1>1. row \in Conn
  BY DEF PresenceTypeOK, Conn
<1>2. conn' = [conn EXCEPT ![s] = row]
  BY DEF JoinRooms
<1>3. row.state = conn[s].state /\ row.step = "done" /\ row.seen = FALSE
  BY DEF PresenceTypeOK, Conn
<1> HIDE DEF row
<1>4. /\ conn' \in [Sockets -> Conn]
      /\ conn'[s] = row /\ \A t \in Sockets \ {s} : conn'[t] = conn[t]
  BY <1>1, <1>2, ConnStep
<1>5. PresenceTypeOK'
  BY <1>4 DEF JoinRooms, PresenceTypeOK
<1>6. OneOpen'
  BY <1>3, <1>4 DEF JoinRooms, OneOpen, Open
<1>7. EntryOK'
  BY <1>3, <1>4 DEF JoinRooms, OneOpen, EntryOK, Open, PresenceTypeOK
<1>8. RoomOK'
  BY <1>3, <1>4 DEF JoinRooms, OneOpen, EntryOK, RoomOK, NobodyLetIn, Open, PresenceTypeOK
<1>9. QED
  BY <1>5, <1>6, <1>7, <1>8

LEMMA RejectConnectionStep ==
  ASSUME PresenceIInv, NEW s \in Sockets, RejectConnection(s)
  PROVE  PresenceIInv'
<1> DEFINE row == [conn[s] EXCEPT !.state = "gone", !.step = "done"]
<1> USE DEF PresenceIInv
<1>1. row \in Conn
  BY DEF PresenceTypeOK, Conn
<1>2. conn' = [conn EXCEPT ![s] = row]
  BY DEF RejectConnection
<1>3. row.state = "gone" /\ row.step = "done" /\ row.seen = conn[s].seen
  BY DEF PresenceTypeOK, Conn
<1> HIDE DEF row
<1>4. /\ conn' \in [Sockets -> Conn]
      /\ conn'[s] = row /\ \A t \in Sockets \ {s} : conn'[t] = conn[t]
  BY <1>1, <1>2, ConnStep
<1>5. PresenceTypeOK'
  BY <1>4 DEF RejectConnection, HandleDisconnect, Connected, PresenceTypeOK
<1>6. OneOpen'
  BY <1>3, <1>4 DEF RejectConnection, HandleDisconnect, Connected, OneOpen, Open
<1>7. EntryOK'
  BY <1>3, <1>4 DEF RejectConnection, HandleDisconnect, Connected, OneOpen, EntryOK, Open, PresenceTypeOK
<1>8. RoomOK'
  BY <1>3, <1>4 DEF RejectConnection, HandleDisconnect, Connected, OneOpen, EntryOK, RoomOK, NobodyLetIn, Open, PresenceTypeOK
<1>9. QED
  BY <1>5, <1>6, <1>7, <1>8

LEMMA LoseConnectionStep ==
  ASSUME PresenceIInv, NEW s \in Sockets, LoseConnection(s)
  PROVE  PresenceIInv'
<1> DEFINE row == [conn[s] EXCEPT !.state = "lost"]
<1> USE DEF PresenceIInv
<1>1. row \in Conn
  BY DEF PresenceTypeOK, Conn
<1>2. conn' = [conn EXCEPT ![s] = row]
  BY DEF LoseConnection
<1>3. row.state = "lost" /\ row.step = conn[s].step /\ row.seen = conn[s].seen
  BY DEF PresenceTypeOK, Conn
<1> HIDE DEF row
<1>4. /\ conn' \in [Sockets -> Conn]
      /\ conn'[s] = row /\ \A t \in Sockets \ {s} : conn'[t] = conn[t]
  BY <1>1, <1>2, ConnStep
<1>5. PresenceTypeOK'
  BY <1>4 DEF LoseConnection, PresenceTypeOK
<1>6. OneOpen'
  BY <1>3, <1>4 DEF LoseConnection, OneOpen, Open
<1>7. EntryOK'
  BY <1>3, <1>4 DEF LoseConnection, OneOpen, EntryOK, Open, PresenceTypeOK
<1>8. RoomOK'
  BY <1>3, <1>4 DEF LoseConnection, OneOpen, EntryOK, RoomOK, NobodyLetIn, Open, PresenceTypeOK
<1>9. QED
  BY <1>5, <1>6, <1>7, <1>8

LEMMA NoticeDisconnectStep ==
  ASSUME PresenceIInv, NEW s \in Sockets, NoticeDisconnect(s)
  PROVE  PresenceIInv'
<1> DEFINE row == [conn[s] EXCEPT !.state = "gone"]
<1> USE DEF PresenceIInv
<1>1. row \in Conn
  BY DEF PresenceTypeOK, Conn
<1>2. conn' = [conn EXCEPT ![s] = row]
  BY DEF NoticeDisconnect
<1>3. row.state = "gone" /\ row.step = conn[s].step /\ row.seen = conn[s].seen
  BY DEF PresenceTypeOK, Conn
<1> HIDE DEF row
<1>4. /\ conn' \in [Sockets -> Conn]
      /\ conn'[s] = row /\ \A t \in Sockets \ {s} : conn'[t] = conn[t]
  BY <1>1, <1>2, ConnStep
<1>5. PresenceTypeOK'
  BY <1>4 DEF NoticeDisconnect, HandleDisconnect, Connected, PresenceTypeOK
<1>6. OneOpen'
  BY <1>3, <1>4 DEF NoticeDisconnect, HandleDisconnect, Connected, OneOpen, Open
<1>7. EntryOK'
  BY <1>3, <1>4 DEF NoticeDisconnect, HandleDisconnect, Connected, OneOpen, EntryOK, Open, PresenceTypeOK
<1>8. RoomOK'
  BY <1>3, <1>4 DEF NoticeDisconnect, HandleDisconnect, Connected, OneOpen, EntryOK, RoomOK, NobodyLetIn, Open, PresenceTypeOK
<1>9. QED
  BY <1>5, <1>6, <1>7, <1>8

LEMMA ForgetStep ==
  ASSUME PresenceIInv, NEW s \in Sockets, Forget(s)
  PROVE  PresenceIInv'
<1> DEFINE row == [state |-> "none", step |-> "done", seen |-> FALSE]
<1> USE DEF PresenceIInv
<1>1. row \in Conn
  BY DEF PresenceTypeOK, Conn
<1>2. conn' = [conn EXCEPT ![s] = row]
  BY DEF Forget, NoConnection
<1>3. row.state = "none" /\ row.step = "done" /\ row.seen = FALSE
  BY DEF PresenceTypeOK, Conn
<1> HIDE DEF row
<1>4. /\ conn' \in [Sockets -> Conn]
      /\ conn'[s] = row /\ \A t \in Sockets \ {s} : conn'[t] = conn[t]
  BY <1>1, <1>2, ConnStep
<1>5. PresenceTypeOK'
  BY <1>4 DEF Forget, NoConnection, PresenceTypeOK
<1>6. OneOpen'
  BY <1>3, <1>4 DEF Forget, NoConnection, OneOpen, Open
<1>7. EntryOK'
  BY <1>3, <1>4 DEF Forget, NoConnection, OneOpen, EntryOK, Open, PresenceTypeOK
<1>8. RoomOK'
  BY <1>3, <1>4 DEF Forget, NoConnection, OneOpen, EntryOK, RoomOK, NobodyLetIn, Open, PresenceTypeOK
<1>9. QED
  BY <1>5, <1>6, <1>7, <1>8

(* The connections stay as they are. *)
LEMMA StatusStep ==
  ASSUME PresenceIInv, NEW r \in StatusCalls,
         GoOnline(r) \/ GoOffline(r) \/ SyncOnline(r) \/ SyncOffline(r)
  PROVE  PresenceIInv'
<1> USE DEF PresenceIInv, GoOnline, GoOffline, WriteStatus
<1>1. UNCHANGED <<conn, socketUsers, userSockets>>
  BY DEF SyncOnline, SyncOffline
<1>2. PresenceTypeOK'
  BY <1>1 DEF SyncOnline, SyncOffline, PresenceTypeOK, FoundSockets
<1>3. OneOpen'
  BY <1>1 DEF OneOpen, Open
<1>4. ("entry" \in gaps) = ("entry" \in gaps')
  BY DEF SyncOnline, SyncOffline
<1>5. EntryOK'
  BY <1>1, <1>4 DEF EntryOK, Open
<1>6. RoomOK'
  <2>1. CASE GoOnline(r)
    <3>1. ~NobodyLetIn'
      BY <2>1 DEF NobodyLetIn, PresenceTypeOK
    <3>2. QED
      BY <3>1 DEF RoomOK
  <2>2. CASE GoOffline(r)
    BY <2>2 DEF RoomOK
  <2>3. CASE SyncOnline(r)
    <3>1. ASSUME NEW s \in Sockets, Open(s), conn[s].step # "authenticate", gaps' = {}
          PROVE  s \in availableRoom'
      BY <2>3, <3>1, <1>4 DEF SyncOnline, FoundSockets, Connected, Open, EntryOK
    <3>2. QED
      BY <3>1, <1>1 DEF RoomOK, Open
  <2>4. CASE SyncOffline(r)
    <3>1. NobodyLetIn' => NobodyLetIn
      BY <2>4 DEF SyncOffline, NobodyLetIn, PresenceTypeOK
    <3>2. isOnline' /\ NobodyLetIn' => gaps' # {}
      BY <2>4, <3>1 DEF SyncOffline, NobodyLetIn
    <3>3. QED
      BY <3>2 DEF RoomOK
  <2>5. QED
    BY <2>1, <2>2, <2>3, <2>4
<1>7. QED
  BY <1>2, <1>3, <1>5, <1>6

LEMMA OthersStep ==
  ASSUME PresenceIInv, StatusByOthers
  PROVE  PresenceIInv'
<1>1. PresenceTypeOK' /\ OneOpen' /\ EntryOK'
  BY DEF PresenceIInv, StatusByOthers, PresenceTypeOK, OneOpen, EntryOK, Open
<1>2. RoomOK'
  BY DEF PresenceIInv, StatusByOthers, RoomOK, Open, NobodyLetIn
<1>3. QED
  BY <1>1, <1>2 DEF PresenceIInv

LEMMA PresenceNextIInv == PresenceIInv /\ [PresenceNext]_presenceVars => PresenceIInv'
<1> SUFFICES ASSUME PresenceIInv, [PresenceNext]_presenceVars PROVE PresenceIInv'
  OBVIOUS
<1>1. CASE UNCHANGED presenceVars
  BY <1>1 DEF presenceVars, PresenceIInv, PresenceTypeOK, OneOpen, EntryOK, RoomOK, NobodyLetIn, Open
<1>2. ASSUME NEW s \in Sockets,
             \/ Connect(s) \/ Authenticated(s) \/ ReadDriver(s) \/ JoinRooms(s) \/ RejectConnection(s)
             \/ LoseConnection(s) \/ NoticeDisconnect(s) \/ Forget(s)
      PROVE  PresenceIInv'
  BY <1>2, ConnectStep, AuthenticatedStep, ReadDriverStep, JoinRoomsStep, RejectConnectionStep,
     LoseConnectionStep, NoticeDisconnectStep, ForgetStep
<1>3. ASSUME NEW r \in StatusCalls,
             GoOnline(r) \/ GoOffline(r) \/ SyncOnline(r) \/ SyncOffline(r)
      PROVE  PresenceIInv'
  BY <1>3, StatusStep
<1>4. CASE StatusByOthers
  BY <1>4, OthersStep
<1>5. QED
  BY <1>1, <1>2, <1>3, <1>4 DEF PresenceNext

(* The driver's connections and the gateway's entries stay within their types. *)
THEOREM PresenceTyped == PresenceSpec => []PresenceTypeOK
<1>1. PresenceIInv => PresenceTypeOK
  BY DEF PresenceIInv
<1>2. QED
  BY PresenceInitIInv, PresenceNextIInv, <1>1, PTL DEF PresenceSpec

(* Whatever the order of handshakes, disconnections and status calls, and for any
   number of calls that overlap, a driver who is online is in the room of new
   trips once nothing that lets him in is pending: but for his entry gone with an
   older socket, a status set by others, and a call that took him offline and
   synced after he was online again. *)
THEOREM OnlineDriverHears == PresenceSpec => []HearsNewTrips
<1>1. PresenceIInv => HearsNewTrips
  BY DEF PresenceIInv, RoomOK, NobodyLetIn, HearsNewTrips
<1>2. QED
  BY PresenceInitIInv, PresenceNextIInv, <1>1, PTL DEF PresenceSpec
=============================================================================
