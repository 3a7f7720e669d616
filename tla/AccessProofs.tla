----------------------------- MODULE AccessProofs -----------------------------
(***************************************************************************)
(* Proofs about Sessions and Accounts, for any number of browsers, tabs,   *)
(* requests, sessions, calls and codes: the refresh token in the row       *)
(* always belongs to the session in the row, one browser at a time is let  *)
(* in, and a code is accepted once at most.                                *)
(***************************************************************************)
EXTENDS Sessions, Accounts, TLAPS

-----------------------------------------------------------------------------
(* Sessions (auth.service, jwt.strategy, the panel) *)

USE SessionAssumption

(* A token that travels was issued. *)
TokensIssued ==
  \A r \in Wires : wire[r].op \in {"refresh", "answered"} => wire[r].token \in 1..Len(issued)

SessionIInv == SessionTypeOK /\ TokensIssued /\ RefreshMatchesSession

LEMMA SessionInitIInv == SessionInit => SessionIInv
<1> SUFFICES ASSUME SessionInit PROVE SessionIInv
  OBVIOUS
<1> USE DEF SessionInit
<1>1. issued \in Seq(Nat) /\ Len(issued) = 0 /\ cookie \in [Browsers -> 0..Len(issued)]
  OBVIOUS
<1>2. tab \in [Tabs -> TabState]
  BY DEF SignedOut, TabState
<1>3. wire \in [Wires -> Request] /\ \A r \in Wires : wire[r].op = "free"
  BY DEF NoCall, Request
<1>4. account \in [session : Nat, refresh : Nat] /\ account.refresh = 0
  OBVIOUS
<1>5. QED
  BY <1>1, <1>2, <1>3, <1>4
  DEF SessionIInv, SessionTypeOK, TokensIssued, RefreshMatchesSession

(* A request is put in a slot. *)
LEMMA WireStep ==
  ASSUME SessionIInv, NEW r \in Wires, NEW q \in Request, wire' = [wire EXCEPT ![r] = q],
         issued' \in Seq(Nat), Len(issued') >= Len(issued),
         q.op \in {"refresh", "answered"} => q.token \in 1..Len(issued')
  PROVE  wire' \in [Wires -> Request] /\ TokensIssued'
<1>1. wire \in [Wires -> Request] /\ TokensIssued /\ issued \in Seq(Nat)
  BY DEF SessionIInv, SessionTypeOK
<1>2. wire' \in [Wires -> Request] /\ wire'[r] = q /\ \A s \in Wires \ {r} : wire'[s] = wire[s]
  BY <1>1
<1>3. Len(issued) \in Nat /\ Len(issued') \in Nat
  BY <1>1
<1>4. ASSUME NEW s \in Wires, wire'[s].op \in {"refresh", "answered"}
      PROVE  wire'[s].token \in 1..Len(issued')
  BY <1>1, <1>2, <1>3, <1>4 DEF TokensIssued
<1>5. QED
  BY <1>2, <1>4 DEF TokensIssued

LEMMA WireSend ==
  ASSUME SessionIInv, NEW r \in Wires, NEW q \in Request, wire' = [wire EXCEPT ![r] = q],
         UNCHANGED issued, q.op \in {"refresh", "answered"} => q.token \in 1..Len(issued)
  PROVE  wire' \in [Wires -> Request] /\ TokensIssued'
<1>1. issued' \in Seq(Nat) /\ Len(issued') \in Nat /\ Len(issued') = Len(issued)
  BY DEF SessionIInv, SessionTypeOK
<1>2. Len(issued') >= Len(issued)
  BY <1>1
<1>3. q.op \in {"refresh", "answered"} => q.token \in 1..Len(issued')
  BY <1>1
<1>4. QED
  BY <1>1, <1>2, <1>3, WireStep

(* The slots and the tokens are as they were. *)
LEMMA WireKept ==
  ASSUME SessionIInv, UNCHANGED <<wire, issued>>
  PROVE  wire' \in [Wires -> Request] /\ TokensIssued'
BY DEF SessionIInv, SessionTypeOK, TokensIssued

(* What a step leaves alone stays as it was. *)
LEMMA TablesKept ==
  ASSUME SessionIInv
  PROVE  /\ UNCHANGED <<account, issued>> =>
              account' \in [session : Nat, refresh : Nat] /\ RefreshMatchesSession'
         /\ UNCHANGED issued => issued' \in Seq(Nat)
         /\ UNCHANGED <<issued, cookie>> => cookie' \in [Browsers -> 0..Len(issued')]
         /\ UNCHANGED logins => logins' \in Nat
         /\ UNCHANGED tab => tab' \in [Tabs -> TabState]
         /\ UNCHANGED revoked => revoked' \subseteq Tabs
BY DEF SessionIInv, SessionTypeOK, RefreshMatchesSession

(* generateTokens writes the token and its session together. *)
LEMMA IssueKeeps ==
  ASSUME SessionIInv, NEW r \in Wires, NEW session \in Nat, Issue(r, session),
         wire[r].op \in {"loginWrite", "refreshWrite"}
  PROVE  /\ account' \in [session : Nat, refresh : Nat] /\ RefreshMatchesSession'
         /\ issued' \in Seq(Nat) /\ Len(issued') >= Len(issued)
         /\ wire' \in [Wires -> Request] /\ TokensIssued'
<1>1. issued \in Seq(Nat) /\ Len(issued) \in Nat /\ wire[r] \in Request
  BY DEF SessionIInv, SessionTypeOK
<1>2. PICK n \in 1..(Len(issued) + 1) :
        /\ n <= Len(issued) => n = Len(issued) /\ issued[n] = session
        /\ issued' = IF n > Len(issued) THEN Append(issued, session) ELSE issued
        /\ account' = [session |-> session, refresh |-> n]
        /\ Pass(r, [op |-> "answered", tab |-> wire[r].tab, by |-> wire[r].by, token |-> n])
  BY DEF Issue
<1>3. issued' \in Seq(Nat) /\ Len(issued') >= Len(issued) /\ n <= Len(issued') /\ issued'[n] = session
  <2>1. CASE n > Len(issued)
    <3>1. issued' = Append(issued, session) /\ n = Len(issued) + 1
      BY <1>1, <1>2, <2>1
    <3>2. QED
      BY <1>1, <3>1
  <2>2. CASE ~(n > Len(issued))
    BY <1>1, <1>2, <2>2
  <2>3. QED
    BY <2>1, <2>2
<1>4. n \in Nat /\ account' \in [session : Nat, refresh : Nat] /\ account'.session = session /\ account'.refresh = n
  BY <1>1, <1>2
<1>5. RefreshMatchesSession'
  BY <1>3, <1>4 DEF RefreshMatchesSession
<1> DEFINE q == [op |-> "answered", tab |-> wire[r].tab, by |-> wire[r].by, token |-> n]
<1>6. wire[r].tab \in Tabs /\ wire[r].by \in Caller
  BY <1>1 DEF Request
<1>7. q \in Request /\ q.token \in 1..Len(issued')
  BY <1>1, <1>3, <1>4, <1>6 DEF Request
<1>8. wire' = [wire EXCEPT ![r] = q]
  BY <1>2 DEF Pass
<1>9. wire' \in [Wires -> Request] /\ TokensIssued'
  BY <1>3, <1>7, <1>8, WireStep
<1>10. QED
  BY <1>3, <1>4, <1>5, <1>9

(* The steps of a request. *)
LEMMA TravelIInv ==
  ASSUME SessionIInv, NEW r \in Wires, Travel(r)
  PROVE  SessionIInv'
<1>t. /\ account \in [session : Nat, refresh : Nat] /\ logins \in Nat
      /\ issued \in Seq(Nat) /\ Len(issued) \in Nat
      /\ cookie \in [Browsers -> 0..Len(issued)] /\ tab \in [Tabs -> TabState]
      /\ revoked \subseteq Tabs /\ wire \in [Wires -> Request] /\ wire[r] \in Request
  BY DEF SessionIInv, SessionTypeOK
<1>b. BrowserOf \in [Tabs -> Browsers]
  OBVIOUS
<1> USE DEF Pass
<1>f. ASSUME wire[r].op \in {"loginWrite", "refresh", "refreshWrite", "refused", "login"}
      PROVE  wire[r].tab \in Tabs /\ wire[r].by \in Caller
  BY <1>t, <1>f DEF Request
<1>1. CASE LoginWithPassword(r)
  <2> DEFINE q == [op |-> "loginWrite", tab |-> wire[r].tab, by |-> "form", session |-> account.session]
  <2>1. wire[r].tab \in Tabs /\ wire' = [wire EXCEPT ![r] = q]
    BY <1>1, <1>t, <1>f DEF LoginWithPassword
  <2>2. q \in Request /\ account.session \in Nat
    BY <1>t, <2>1 DEF Request, Caller
  <2>3. wire' \in [Wires -> Request] /\ TokensIssued'
    <3>1. UNCHANGED issued /\ q.op = "loginWrite"
      BY <1>1 DEF LoginWithPassword
    <3> HIDE DEF q
    <3>2. QED
      BY <2>1, <2>2, <3>1, WireSend
  <2>4. QED
    BY <1>1, <2>3, TablesKept DEF LoginWithPassword, SessionIInv, SessionTypeOK
<1>2. CASE LoginWrite(r)
  <2>1. logins + 1 \in Nat /\ logins' = logins + 1 /\ Issue(r, logins + 1)
    BY <1>2, <1>t DEF LoginWrite
  <2>2. /\ account' \in [session : Nat, refresh : Nat] /\ RefreshMatchesSession'
        /\ issued' \in Seq(Nat) /\ Len(issued') >= Len(issued)
        /\ wire' \in [Wires -> Request] /\ TokensIssued'
    BY <1>2, <2>1, IssueKeeps DEF LoginWrite
  <2>3. revoked' \subseteq Tabs
    BY <1>2, <1>t DEF LoginWrite, NotifyRevoked
  <2>4. cookie' \in [Browsers -> 0..Len(issued')]
    BY <1>2, <1>t, <2>2 DEF LoginWrite
  <2>5. QED
    BY <1>2, <2>1, <2>2, <2>3, <2>4, TablesKept DEF LoginWrite, SessionIInv, SessionTypeOK
<1>3. CASE Refresh(r)
  <2>1. wire[r].tab \in Tabs /\ wire[r].by \in Caller /\ account.session \in Nat
    BY <1>3, <1>t, <1>f DEF Refresh
  <2>2. Refusal(r) \in Request /\ Refusal(r).op = "refused"
    BY <2>1 DEF Refusal, Request
  <2> DEFINE q == [op |-> "refreshWrite", tab |-> wire[r].tab, by |-> wire[r].by,
                   session |-> account.session]
  <2>3. q \in Request /\ q.op = "refreshWrite"
    BY <2>1 DEF Request
  <2>4. wire' = [wire EXCEPT ![r] = q] \/ wire' = [wire EXCEPT ![r] = Refusal(r)]
    BY <1>3 DEF Refresh
  <2>5. wire' \in [Wires -> Request] /\ TokensIssued'
    BY <1>3, <1>t, <2>2, <2>3, <2>4, WireStep DEF Refresh
  <2>6. account' \in [session : Nat, refresh : Nat] /\ RefreshMatchesSession'
    <3>1. account' = account \/ account' = [account EXCEPT !.refresh = 0]
      BY <1>3 DEF Refresh
    <3>2. QED
      BY <1>3, <1>t, <3>1 DEF Refresh, SessionIInv, RefreshMatchesSession
  <2>7. QED
    BY <1>3, <2>5, <2>6, TablesKept DEF Refresh, SessionIInv, SessionTypeOK
<1>4. CASE RefreshWrite(r)
  <2>1. wire[r].session \in Nat /\ Issue(r, wire[r].session)
    BY <1>4, <1>t DEF RefreshWrite, Request
  <2>2. /\ account' \in [session : Nat, refresh : Nat] /\ RefreshMatchesSession'
        /\ issued' \in Seq(Nat) /\ Len(issued') >= Len(issued)
        /\ wire' \in [Wires -> Request] /\ TokensIssued'
    BY <1>4, <2>1, IssueKeeps DEF RefreshWrite
  <2>3. cookie' \in [Browsers -> 0..Len(issued')]
    BY <1>4, <1>t, <2>2 DEF RefreshWrite
  <2>4. QED
    BY <1>4, <2>2, <2>3, TablesKept DEF RefreshWrite, SessionIInv, SessionTypeOK
<1>5. CASE LogoutGuard(r)
  <2> DEFINE q == [op |-> IF Accepted(wire[r].session) THEN "leaving" ELSE "left", tab |-> wire[r].tab]
  <2>1. wire[r].tab \in Tabs /\ wire' = [wire EXCEPT ![r] = q]
    BY <1>5, <1>t DEF LogoutGuard, Request
  <2>2. q \in Request /\ q.op \in {"leaving", "left"}
    BY <2>1 DEF Request
  <2>3. wire' \in [Wires -> Request] /\ TokensIssued'
    <3>1. UNCHANGED issued
      BY <1>5 DEF LogoutGuard
    <3> HIDE DEF q
    <3>2. QED
      BY <2>1, <2>2, <3>1, WireSend
  <2>4. QED
    BY <1>5, <2>3, TablesKept DEF LogoutGuard, SessionIInv, SessionTypeOK
<1>6. CASE Logout(r)
  <2> DEFINE q == [op |-> "left", tab |-> wire[r].tab]
  <2>1. wire[r].tab \in Tabs /\ wire' = [wire EXCEPT ![r] = q]
    BY <1>6, <1>t DEF Logout, Request
  <2>2. q \in Request
    BY <2>1 DEF Request
  <2>3. wire' \in [Wires -> Request] /\ TokensIssued'
    <3>1. UNCHANGED issued /\ q.op = "left"
      BY <1>6 DEF Logout
    <3> HIDE DEF q
    <3>2. QED
      BY <2>1, <2>2, <3>1, WireSend
  <2>4. account' \in [session : Nat, refresh : Nat] /\ RefreshMatchesSession'
    BY <1>6, <1>t DEF Logout, RefreshMatchesSession
  <2>5. QED
    BY <1>6, <2>3, <2>4, TablesKept DEF Logout, SessionIInv, SessionTypeOK
<1>n. NoCall \in Request /\ NoCall.op = "free"
  BY DEF NoCall, Request
<1>7. CASE Answered(r)
  <2>1. /\ wire[r].tab \in Tabs /\ wire[r].by \in Caller
        /\ wire[r].token \in 1..Len(issued)
    BY <1>7, <1>t DEF Answered, Request, SessionIInv, TokensIssued
  <2>2. issued[wire[r].token] \in Nat
    BY <1>t, <2>1
  <2> DEFINE t == wire[r].tab
             received == ReceiveToken(t, wire[r].by, issued[wire[r].token])
  <2>3. received \in TabState
    BY <1>t, <2>1, <2>2 DEF ReceiveToken, TabState
  <2>4. tab' \in [Tabs -> TabState]
    <3>1. tab' = [tab EXCEPT ![t] = received]
      BY <1>7 DEF Answered
    <3> HIDE DEF received
    <3>2. QED
      BY <1>t, <2>3, <3>1
  <2>5. cookie' \in [Browsers -> 0..Len(issued)]
    BY <1>7, <1>t, <2>1 DEF Answered, SetCookie
  <2>6. wire' \in [Wires -> Request] /\ TokensIssued'
    BY <1>7, <1>n, WireSend DEF Answered
  <2>7. QED
    BY <1>7, <2>4, <2>5, <2>6, TablesKept DEF Answered, SessionIInv, SessionTypeOK
<1>s. SignedOut \in TabState
  BY DEF SignedOut, TabState
<1>g. ASSUME GiveUp(r), wire[r].op \in {"refresh", "refused"}
      PROVE  /\ tab' \in [Tabs -> TabState] /\ revoked' \subseteq Tabs
             /\ wire' \in [Wires -> Request] /\ TokensIssued'
  <2>1. wire[r].tab \in Tabs
    BY <1>g, <1>f
  <2>2. tab' \in [Tabs -> TabState] /\ revoked' \subseteq Tabs
    BY <1>g, <1>s, <1>t, <2>1 DEF GiveUp
  <2>3. wire' \in [Wires -> Request] /\ TokensIssued'
    BY <1>g, <1>n, WireSend DEF GiveUp
  <2>4. QED
    BY <2>2, <2>3
<1>8. CASE Refused(r)
  <2>1. cookie' \in [Browsers -> 0..Len(issued)]
    <3>1. 0 \in 0..Len(issued) /\ cookie' = [cookie EXCEPT ![BrowserOf[wire[r].tab]] = 0]
      BY <1>8, <1>t DEF Refused, SetCookie
    <3>2. QED
      BY <1>t, <3>1
  <2>2. QED
    BY <1>8, <1>g, <2>1, TablesKept DEF Refused, GiveUp, SessionIInv, SessionTypeOK
<1>9. CASE Unreachable(r)
  BY <1>9, <1>g, TablesKept DEF Unreachable, GiveUp, SessionIInv, SessionTypeOK
<1>10. CASE SignedOff(r)
  <2>1. wire[r].tab \in Tabs
    BY <1>10, <1>t DEF SignedOff, Request
  <2> DEFINE left == [tab[wire[r].tab] EXCEPT !.page = "signin", !.access = 0]
  <2>2. left \in TabState
    BY <1>t, <2>1 DEF TabState
  <2>3. tab' \in [Tabs -> TabState]
    <3>1. tab' = [tab EXCEPT ![wire[r].tab] = left]
      BY <1>10 DEF SignedOff
    <3> HIDE DEF left
    <3>2. QED
      BY <1>t, <2>2, <3>1
  <2>4. cookie' \in [Browsers -> 0..Len(issued)] /\ revoked' \subseteq Tabs
    <3>1. /\ 0 \in 0..Len(issued) /\ cookie' = [cookie EXCEPT ![BrowserOf[wire[r].tab]] = 0]
          /\ revoked' = revoked \ {wire[r].tab}
      BY <1>10, <1>t DEF SignedOff, SetCookie
    <3>2. QED
      BY <1>t, <3>1
  <2>5. wire' \in [Wires -> Request] /\ TokensIssued'
    BY <1>10, <1>n, WireSend DEF SignedOff
  <2>6. QED
    BY <1>10, <2>3, <2>4, <2>5, TablesKept DEF SignedOff, SessionIInv, SessionTypeOK
<1>11. QED
  BY <1>1, <1>2, <1>3, <1>4, <1>5, <1>6, <1>7, <1>8, <1>9, <1>10 DEF Travel

(* What the user and the page begin. *)
LEMMA StartIInv ==
  ASSUME SessionIInv, NEW t \in Tabs, Start(t)
  PROVE  SessionIInv'
<1>t. /\ tab \in [Tabs -> TabState] /\ tab[t] \in TabState /\ revoked \subseteq Tabs
      /\ issued \in Seq(Nat) /\ Len(issued) \in Nat
      /\ cookie \in [Browsers -> 0..Len(issued)] /\ cookie[BrowserOf[t]] \in 0..Len(issued)
  BY DEF SessionIInv, SessionTypeOK
<1>s. SignedOut \in TabState
  BY DEF SignedOut, TabState
<1> USE DEF Send
<1>1. ASSUME NEW r \in Wires, SignIn(r, t) PROVE SessionIInv'
  <2> DEFINE q == [op |-> "login", tab |-> t, by |-> "form"]
  <2>1. q \in Request /\ q.op = "login"
    BY DEF Request, Caller
  <2>2. wire' \in [Wires -> Request] /\ TokensIssued'
    <3>1. UNCHANGED issued /\ wire' = [wire EXCEPT ![r] = q]
      BY <1>1 DEF SignIn
    <3> HIDE DEF q
    <3>2. QED
      BY <2>1, <3>1, WireSend
  <2>3. QED
    BY <1>1, <2>2, TablesKept DEF SignIn, SessionIInv, SessionTypeOK
<1>2. ASSUME NEW r \in Wires, LoadPage(r, t) PROVE SessionIInv'
  <2> DEFINE q == [op |-> "refresh", tab |-> t, by |-> "page", token |-> cookie[BrowserOf[t]]]
  <2>1. wire' \in [Wires -> Request] /\ TokensIssued'
    <3>1. CASE cookie[BrowserOf[t]] # 0
      <4>1. q \in Request /\ q.token \in 1..Len(issued)
        BY <1>t, <3>1 DEF Request, Caller
      <4>2. wire' = [wire EXCEPT ![r] = q] /\ UNCHANGED issued
        BY <1>2, <3>1 DEF LoadPage
      <4> HIDE DEF q
      <4>3. QED
        BY <4>1, <4>2, WireSend
    <3>2. CASE cookie[BrowserOf[t]] = 0
      BY <1>2, <3>2, WireKept DEF LoadPage
    <3>3. QED
      BY <3>1, <3>2
  <2>2. tab' \in [Tabs -> TabState] /\ revoked' \subseteq Tabs
    BY <1>2, <1>s, <1>t DEF LoadPage
  <2>3. QED
    BY <1>2, <2>1, <2>2, TablesKept DEF LoadPage, SessionIInv, SessionTypeOK
<1>3. ASSUME NEW r \in Wires, Unauthorized(r, t) PROVE SessionIInv'
  <2> DEFINE q == [op |-> "refresh", tab |-> t, by |-> "interceptor", token |-> cookie[BrowserOf[t]]]
  <2>1. q \in Request /\ q.token \in 1..Len(issued)
    BY <1>3, <1>t DEF Unauthorized, Request, Caller
  <2>2. wire' \in [Wires -> Request] /\ TokensIssued'
    <3>1. UNCHANGED issued /\ wire' = [wire EXCEPT ![r] = q]
      BY <1>3 DEF Unauthorized
    <3> HIDE DEF q
    <3>2. QED
      BY <2>1, <3>1, WireSend
  <2>3. tab' \in [Tabs -> TabState]
    BY <1>3, <1>t DEF Unauthorized, TabState
  <2>4. QED
    BY <1>3, <2>2, <2>3, TablesKept DEF Unauthorized, SessionIInv, SessionTypeOK
<1>4. ASSUME NEW r \in Wires, SignOut(r, t) PROVE SessionIInv'
  <2> DEFINE q == IF tab[t].access # 0 THEN [op |-> "logout", tab |-> t, session |-> tab[t].access]
                                      ELSE [op |-> "left", tab |-> t]
  <2>1. tab[t].access \in Nat
    BY <1>t DEF TabState
  <2>2. q \in Request /\ q.op \in {"logout", "left"}
    BY <2>1 DEF Request
  <2>3. wire' = [wire EXCEPT ![r] = q] /\ UNCHANGED issued /\ revoked' \subseteq Tabs
    BY <1>4, <1>t DEF SignOut
  <2> HIDE DEF q
  <2>4. wire' \in [Wires -> Request] /\ TokensIssued'
    BY <2>2, <2>3, WireSend
  <2>5. QED
    BY <1>4, <2>3, <2>4, TablesKept DEF SignOut, SessionIInv, SessionTypeOK
<1>5. CASE UnauthorizedNoCookie(t)
  <2>1. tab' \in [Tabs -> TabState] /\ revoked' \subseteq Tabs
    BY <1>5, <1>s, <1>t DEF UnauthorizedNoCookie
  <2>2. QED
    BY <1>5, <2>1, WireKept, TablesKept DEF UnauthorizedNoCookie, SessionIInv, SessionTypeOK
<1>6. CASE UnauthorizedQueued(t)
  <2>1. tab' \in [Tabs -> TabState]
    BY <1>6, <1>t DEF UnauthorizedQueued, TabState
  <2>2. QED
    BY <1>6, <2>1, WireKept, TablesKept DEF UnauthorizedQueued, SessionIInv, SessionTypeOK
<1>7. QED
  BY <1>1, <1>2, <1>3, <1>4, <1>5, <1>6 DEF Start

LEMMA SessionNextIInv == SessionIInv /\ [SessionNext]_sessionVars => SessionIInv'
<1> SUFFICES ASSUME SessionIInv, [SessionNext]_sessionVars PROVE SessionIInv'
  OBVIOUS
<1>1. CASE UNCHANGED sessionVars
  BY <1>1, WireKept, TablesKept DEF sessionVars, SessionIInv, SessionTypeOK
<1>2. QED
  BY <1>1, TravelIInv, StartIInv DEF SessionNext

-----------------------------------------------------------------------------
(* The row, the cookies, the tabs and the requests keep their types. *)
THEOREM SessionTyped == SessionSpec => []SessionTypeOK
<1>1. SessionIInv => SessionTypeOK
  BY DEF SessionIInv
<1>2. QED
  BY <1>1, SessionInitIInv, SessionNextIInv, PTL DEF SessionSpec

(* However logins, refreshes and logouts of one account race, the refresh
   token in its row was signed for the session in its row. *)
THEOREM RowIsConsistent == SessionSpec => []RefreshMatchesSession
<1>1. SessionIInv => RefreshMatchesSession
  BY DEF SessionIInv
<1>2. QED
  BY <1>1, SessionInitIInv, SessionNextIInv, PTL DEF SessionSpec

-----------------------------------------------------------------------------
(* The invariant *)

\* The request in slot r lets the browser b act for session s.
Carries(r, b, s) ==
  /\ wire[r].op \in {"refresh", "answered", "refreshWrite"}
  /\ BrowserOf[wire[r].tab] = b
  /\ wire[r].op \in {"refresh", "answered"} => issued[wire[r].token] = s
  /\ wire[r].op = "refreshWrite" => wire[r].session = s

InTab(b, s) == \E t \in Tabs : BrowserOf[t] = b /\ tab[t].access = s
InCookie(b, s) == cookie[b] # 0 /\ issued[cookie[b]] = s
InFlightFor(b, s) == \E r \in Wires : Carries(r, b, s)

TokenHeld(b, s) == InTab(b, s) \/ InCookie(b, s) \/ InFlightFor(b, s)

\* Sessions were drawn by a login.
TokensDrawn ==
  /\ account.session \in 0..logins
  /\ \A n \in 1..Len(issued) : issued[n] \in 1..logins
  /\ \A t \in Tabs : tab[t].access \in 0..logins
  /\ \A r \in Wires : wire[r].op = "refreshWrite" => wire[r].session \in 1..logins

OneHome == \A b, c \in Browsers : \A s \in 1..logins : TokenHeld(b, s) /\ TokenHeld(c, s) => b = c

DeviceInv == SessionIInv /\ TokensDrawn /\ OneHome

LEMMA InitDevice == SessionInit => DeviceInv
<1> SUFFICES ASSUME SessionInit PROVE DeviceInv
  OBVIOUS
<1>1. SessionIInv
  BY SessionInitIInv
<1>2. /\ logins = 0 /\ account.session = 0 /\ Len(issued) = 0
      /\ \A t \in Tabs : tab[t].access = 0
      /\ \A r \in Wires : wire[r].op = "free"
  BY DEF SessionInit, SignedOut, NoCall
<1>3. TokensDrawn /\ OneHome
  BY <1>2 DEF TokensDrawn, OneHome
<1>4. QED
  BY <1>1, <1>3 DEF DeviceInv

LEMMA DeviceTypes ==
  ASSUME DeviceInv
  PROVE  /\ account \in [session : Nat, refresh : Nat] /\ logins \in Nat
         /\ issued \in Seq(Nat) /\ Len(issued) \in Nat
         /\ cookie \in [Browsers -> 0..Len(issued)] /\ tab \in [Tabs -> TabState]
         /\ wire \in [Wires -> Request]
         /\ \A r \in Wires : wire[r].op \in {"refresh", "answered"} => wire[r].token \in 1..Len(issued)
BY DEF DeviceInv, SessionIInv, SessionTypeOK, TokensIssued

-----------------------------------------------------------------------------
(* Steps that draw no session *)

\* A message whose browser already holds what it carries.
Backed(m) ==
  /\ m.op \in {"refresh", "answered"} =>
       m.token \in 1..Len(issued) /\ TokenHeld(BrowserOf[m.tab], issued[m.token])
  /\ m.op = "refreshWrite" => m.session \in 1..logins /\ TokenHeld(BrowserOf[m.tab], m.session)

(* A step that gives no browser what it does not hold already. *)
LEMMA MoveStep ==
  ASSUME DeviceInv, SessionIInv', UNCHANGED <<issued, logins>>,
         account'.session = account.session,
         \A t \in Tabs :
           \/ tab'[t].access \in {0, tab[t].access}
           \/ tab'[t].access \in 1..logins /\ TokenHeld(BrowserOf[t], tab'[t].access),
         \A b \in Browsers :
           \/ cookie'[b] \in {0, cookie[b]}
           \/ TokenHeld(b, issued[cookie'[b]]),
         \A r \in Wires : wire'[r] = wire[r] \/ Backed(wire'[r])
  PROVE  DeviceInv'
<1>1. TokensDrawn'
  <2>1. logins' = logins /\ issued' = issued /\ logins \in Nat
    BY DeviceTypes
  <2>2. account'.session \in 0..logins'
    BY <2>1 DEF DeviceInv, TokensDrawn
  <2>3. \A n \in 1..Len(issued') : issued'[n] \in 1..logins'
    BY <2>1 DEF DeviceInv, TokensDrawn
  <2>4. \A t \in Tabs : tab'[t].access \in 0..logins'
    BY <2>1 DEF DeviceInv, TokensDrawn
  <2>5. \A r \in Wires : wire'[r].op = "refreshWrite" => wire'[r].session \in 1..logins'
    BY <2>1 DEF DeviceInv, TokensDrawn, Backed
  <2>6. QED
    BY <2>2, <2>3, <2>4, <2>5 DEF TokensDrawn
<1>2. ASSUME NEW b \in Browsers, NEW s \in 1..logins, TokenHeld(b, s)' PROVE TokenHeld(b, s)
  <2>1. CASE InTab(b, s)'
    <3>1. PICK t \in Tabs : BrowserOf[t] = b /\ tab'[t].access = s
      BY <2>1 DEF InTab
    <3>2. CASE tab[t].access = s
      BY <3>1, <3>2 DEF TokenHeld, InTab
    <3>3. CASE tab[t].access # s
      BY <1>2, <3>1, <3>3
    <3>4. QED
      BY <3>2, <3>3
  <2>2. CASE InCookie(b, s)'
    BY <1>2, <2>2 DEF TokenHeld, InCookie
  <2>3. CASE InFlightFor(b, s)'
    <3>1. PICK r \in Wires : Carries(r, b, s)'
      BY <2>3 DEF InFlightFor
    <3>2. CASE wire'[r] = wire[r]
      BY <3>1, <3>2 DEF TokenHeld, InFlightFor, Carries
    <3>3. CASE Backed(wire'[r])
      BY <3>1, <3>3 DEF Backed, Carries
    <3>4. QED
      BY <3>2, <3>3
  <2>4. QED
    BY <1>2, <2>1, <2>2, <2>3 DEF TokenHeld
<1>3. OneHome'
  BY <1>2 DEF DeviceInv, OneHome
<1>4. QED
  BY <1>1, <1>3 DEF DeviceInv

(* What travels lets its browser act for what it carries. *)
LEMMA CarriedIsHeld ==
  ASSUME DeviceInv, NEW r \in Wires
  PROVE  /\ wire[r].op \in {"refresh", "answered"} =>
              /\ issued[wire[r].token] \in 1..logins
              /\ TokenHeld(BrowserOf[wire[r].tab], issued[wire[r].token])
         /\ wire[r].op = "refreshWrite" =>
              wire[r].session \in 1..logins /\ TokenHeld(BrowserOf[wire[r].tab], wire[r].session)
<1>1. wire[r].op \in {"refresh", "answered"} => issued[wire[r].token] \in 1..logins
  BY DeviceTypes DEF DeviceInv, TokensDrawn
<1>2. QED
  BY <1>1 DEF DeviceInv, TokensDrawn, TokenHeld, InFlightFor, Carries

(* So does a cookie. *)
LEMMA CookieIsHeld ==
  ASSUME DeviceInv, NEW b \in Browsers, cookie[b] # 0
  PROVE  cookie[b] \in 1..Len(issued) /\ TokenHeld(b, issued[cookie[b]])
BY DeviceTypes DEF TokenHeld, InCookie

-----------------------------------------------------------------------------
(* Steps that draw a session or a token *)

(* A session that was not drawn is held nowhere. *)
LEMMA HeldWasDrawn ==
  ASSUME DeviceInv, NEW b \in Browsers, NEW s \in Nat \ {0}, TokenHeld(b, s)
  PROVE  s \in 1..logins
<1>1. CASE InTab(b, s)
  BY <1>1, DeviceTypes DEF InTab, DeviceInv, TokensDrawn
<1>2. CASE InCookie(b, s)
  BY <1>2, CookieIsHeld DEF InCookie, DeviceInv, TokensDrawn
<1>3. CASE InFlightFor(b, s)
  BY <1>3, CarriedIsHeld DEF InFlightFor, Carries
<1>4. QED
  BY <1>1, <1>2, <1>3 DEF TokenHeld

(* generateTokens for a session the browser holds, or for a new one. *)
LEMMA IssueStep ==
  ASSUME DeviceInv, SessionIInv', NEW r \in Wires, NEW session \in Nat, Issue(r, session),
         UNCHANGED <<cookie, tab>>, wire[r].op \in {"loginWrite", "refreshWrite"},
         \/ /\ session \in 1..logins /\ logins' = logins
            /\ TokenHeld(BrowserOf[wire[r].tab], session)
         \/ session = logins + 1 /\ logins' = logins + 1
  PROVE  DeviceInv'
<1> DEFINE home == BrowserOf[wire[r].tab]
<1>t. /\ issued \in Seq(Nat) /\ Len(issued) \in Nat /\ logins \in Nat
      /\ cookie \in [Browsers -> 0..Len(issued)] /\ wire \in [Wires -> Request]
      /\ wire[r].tab \in Tabs /\ home \in Browsers
  BY DeviceTypes, SessionAssumption DEF Request
<1>1. PICK n \in 1..(Len(issued) + 1) :
        /\ n <= Len(issued) => n = Len(issued) /\ issued[n] = session
        /\ issued' = IF n > Len(issued) THEN Append(issued, session) ELSE issued
        /\ account' = [session |-> session, refresh |-> n]
        /\ Pass(r, [op |-> "answered", tab |-> wire[r].tab, by |-> wire[r].by, token |-> n])
  BY DEF Issue
<1>2. /\ \A m \in 1..Len(issued) : issued'[m] = issued[m]
      /\ \A m \in 1..Len(issued') : m \in 1..Len(issued) \/ issued'[m] = session
      /\ issued'[n] = session
  <2>1. CASE n > Len(issued)
    <3>1. issued' = Append(issued, session) /\ n = Len(issued) + 1
      BY <1>t, <1>1, <2>1
    <3>2. QED
      BY <1>t, <3>1
  <2>2. CASE ~(n > Len(issued))
    BY <1>t, <1>1, <2>2
  <2>3. QED
    BY <2>1, <2>2
<1>3. /\ wire'[r].op = "answered" /\ wire'[r].tab = wire[r].tab /\ wire'[r].token = n
      /\ \A q \in Wires \ {r} : wire'[q] = wire[q]
  BY <1>t, <1>1 DEF Pass
<1>4. session \in 1..logins' /\ logins' \in Nat /\ logins <= logins'
  BY <1>t
<1>5. TokensDrawn'
  <2>1. account'.session \in 0..logins'
    BY <1>1, <1>4
  <2>2. \A m \in 1..Len(issued') : issued'[m] \in 1..logins'
    BY <1>t, <1>2, <1>4 DEF DeviceInv, TokensDrawn
  <2>3. \A t \in Tabs : tab'[t].access \in 0..logins'
    BY <1>t, <1>4 DEF DeviceInv, TokensDrawn
  <2>4. \A q \in Wires : wire'[q].op = "refreshWrite" => wire'[q].session \in 1..logins'
    BY <1>t, <1>3, <1>4 DEF DeviceInv, TokensDrawn
  <2>5. QED
    BY <2>1, <2>2, <2>3, <2>4 DEF TokensDrawn
<1>6. ASSUME NEW b \in Browsers, NEW s \in 1..logins', TokenHeld(b, s)'
      PROVE  TokenHeld(b, s) \/ (b = home /\ s = session)
  <2>1. CASE InTab(b, s)'
    BY <2>1 DEF InTab, TokenHeld
  <2>2. CASE InCookie(b, s)'
    <3>1. cookie[b] \in 1..Len(issued) /\ issued'[cookie[b]] = s
      BY <1>t, <2>2 DEF InCookie
    <3>2. QED
      BY <1>2, <3>1 DEF InCookie, TokenHeld
  <2>3. CASE InFlightFor(b, s)'
    <3>1. PICK q \in Wires : Carries(q, b, s)'
      BY <2>3 DEF InFlightFor
    <3>2. CASE q = r
      BY <1>2, <1>3, <3>1, <3>2 DEF Carries
    <3>3. CASE q # r
      <4>1. wire'[q] = wire[q]
        BY <1>3, <3>3
      <4>2. wire[q].op \in {"refresh", "answered"} => wire[q].token \in 1..Len(issued)
        BY DeviceTypes
      <4>3. Carries(q, b, s)
        BY <1>2, <3>1, <4>1, <4>2 DEF Carries
      <4>4. QED
        BY <4>3 DEF InFlightFor, TokenHeld
    <3>4. QED
      BY <3>2, <3>3
  <2>4. QED
    BY <1>6, <2>1, <2>2, <2>3 DEF TokenHeld
<1>7. OneHome'
  <2> SUFFICES ASSUME NEW b \in Browsers, NEW c \in Browsers, NEW s \in 1..logins',
                      TokenHeld(b, s)', TokenHeld(c, s)'
               PROVE  b = c
    BY DEF OneHome
  <2>1. /\ TokenHeld(b, s) \/ (b = home /\ s = session)
        /\ TokenHeld(c, s) \/ (c = home /\ s = session)
    BY <1>6
  <2>2. CASE session \in 1..logins /\ logins' = logins /\ TokenHeld(home, session)
    <3>1. TokenHeld(b, s) /\ TokenHeld(c, s)
      BY <2>1, <2>2
    <3>2. QED
      BY <2>2, <3>1 DEF DeviceInv, OneHome
  <2>3. CASE session = logins + 1 /\ logins' = logins + 1
    <3>1. CASE s = session
      <4>1. ~TokenHeld(b, s) /\ ~TokenHeld(c, s)
        BY <1>t, <2>3, <3>1, HeldWasDrawn
      <4>2. QED
        BY <2>1, <4>1
    <3>2. CASE s # session
      BY <1>t, <2>1, <2>3, <3>2 DEF DeviceInv, OneHome
    <3>3. QED
      BY <3>1, <3>2
  <2>4. QED
    BY <2>2, <2>3
<1>8. QED
  BY <1>5, <1>7 DEF DeviceInv

-----------------------------------------------------------------------------
(* The steps *)

LEMMA TravelDevice ==
  ASSUME DeviceInv, SessionIInv', NEW r \in Wires, Travel(r)
  PROVE  DeviceInv'
<1>t. /\ account \in [session : Nat, refresh : Nat] /\ logins \in Nat
      /\ tab \in [Tabs -> TabState] /\ wire \in [Wires -> Request] /\ wire[r] \in Request
      /\ cookie \in [Browsers -> 0..Len(issued)]
  BY DeviceTypes
<1>b. wire[r].op # "free" => wire[r].tab \in Tabs /\ BrowserOf[wire[r].tab] \in Browsers
  BY <1>t, SessionAssumption DEF Request
<1> USE DEF Pass
<1>1. CASE LoginWrite(r)
  <2>1. logins + 1 \in Nat
    BY <1>t
  <2>2. QED
    BY <1>1, <2>1, IssueStep DEF LoginWrite
<1>2. CASE RefreshWrite(r)
  <2>1. wire[r].session \in 1..logins /\ TokenHeld(BrowserOf[wire[r].tab], wire[r].session)
    BY <1>2, CarriedIsHeld DEF RefreshWrite
  <2>2. wire[r].session \in Nat
    BY <2>1
  <2>3. QED
    BY <1>2, <2>1, <2>2, IssueStep DEF RefreshWrite
<1>3. ASSUME UNCHANGED <<issued, logins, cookie, tab>>, account'.session = account.session,
             NEW q, wire' = [wire EXCEPT ![r] = q], Backed(q)
      PROVE  DeviceInv'
  <2>1. \A s \in Wires : wire'[s] = wire[s] \/ Backed(wire'[s])
    BY <1>t, <1>3
  <2>2. QED
    BY <1>3, <2>1, MoveStep
<1>4. CASE LoginWithPassword(r)
  <2> DEFINE q == [op |-> "loginWrite", tab |-> wire[r].tab, by |-> "form", session |-> account.session]
  <2>1. Backed(q)
    BY DEF Backed
  <2> HIDE DEF q
  <2>2. QED
    BY <1>3, <1>4, <2>1 DEF LoginWithPassword, q
<1>5. CASE Refresh(r)
  <2> DEFINE q == [op |-> "refreshWrite", tab |-> wire[r].tab, by |-> wire[r].by,
                   session |-> account.session]
  <2>1. account'.session = account.session /\ UNCHANGED <<issued, logins, cookie, tab>>
    BY <1>5, <1>t DEF Refresh
  <2>2. Backed(Refusal(r))
    BY DEF Refusal, Backed
  <2>3. CASE wire' = [wire EXCEPT ![r] = q] /\ account.refresh = wire[r].token
    <3>1. account.session = issued[wire[r].token]
      BY <1>5, <2>3, DeviceTypes DEF Refresh, DeviceInv, SessionIInv, RefreshMatchesSession
    <3>2. Backed(q)
      BY <1>5, <3>1, CarriedIsHeld DEF Refresh, Backed
    <3> HIDE DEF q
    <3>3. QED
      BY <1>3, <2>1, <2>3, <3>2
  <2>4. CASE wire' = [wire EXCEPT ![r] = Refusal(r)]
    BY <1>3, <2>1, <2>2, <2>4
  <2>5. QED
    BY <1>5, <2>3, <2>4 DEF Refresh
<1>6. CASE LogoutGuard(r)
  <2> DEFINE op == IF Accepted(wire[r].session) THEN "leaving" ELSE "left"
             q == [op |-> op, tab |-> wire[r].tab]
  <2>1. op \in {"leaving", "left"} /\ q.op = op
    OBVIOUS
  <2>2. wire' = [wire EXCEPT ![r] = q]
    BY <1>6 DEF LogoutGuard
  <2> HIDE DEF q, op
  <2>3. Backed(q)
    BY <2>1 DEF Backed
  <2>4. QED
    BY <1>3, <1>6, <2>2, <2>3 DEF LogoutGuard
<1>7. CASE Logout(r)
  <2> DEFINE q == [op |-> "left", tab |-> wire[r].tab]
  <2>1. Backed(q)
    BY DEF Backed
  <2>2. wire' = [wire EXCEPT ![r] = q] /\ account'.session = account.session
    BY <1>7, <1>t DEF Logout
  <2> HIDE DEF q
  <2>3. QED
    BY <1>3, <1>7, <2>1, <2>2 DEF Logout
<1>n. Backed(NoCall)
  BY DEF NoCall, Backed
<1>8. ASSUME UNCHANGED <<issued, logins, account>>, wire' = [wire EXCEPT ![r] = NoCall],
             \A t \in Tabs :
               \/ tab'[t].access \in {0, tab[t].access}
               \/ tab'[t].access \in 1..logins /\ TokenHeld(BrowserOf[t], tab'[t].access),
             \A b \in Browsers : cookie'[b] \in {0, cookie[b]} \/ TokenHeld(b, issued[cookie'[b]])
      PROVE  DeviceInv'
  <2>1. \A s \in Wires : wire'[s] = wire[s] \/ Backed(wire'[s])
    BY <1>t, <1>8, <1>n
  <2>2. QED
    BY <1>8, <2>1, MoveStep
<1>9. CASE Answered(r)
  <2> DEFINE t == wire[r].tab
             s == issued[wire[r].token]
             received == ReceiveToken(t, wire[r].by, s)
  <2>1. t \in Tabs /\ s \in 1..logins /\ TokenHeld(BrowserOf[t], s)
    BY <1>9, <1>b, CarriedIsHeld DEF Answered
  <2>2. tab' = [tab EXCEPT ![t] = received] /\ cookie' = [cookie EXCEPT ![BrowserOf[t]] = wire[r].token]
    BY <1>9 DEF Answered, SetCookie
  <2>3. received.access = s
    <3>1. tab[t] \in TabState
      BY <1>t, <2>1
    <3> HIDE DEF s, t
    <3>2. QED
      BY <3>1 DEF ReceiveToken, TabState
  <2> HIDE DEF received
  <2>4. \A u \in Tabs :
          \/ tab'[u].access \in {0, tab[u].access}
          \/ tab'[u].access \in 1..logins /\ TokenHeld(BrowserOf[u], tab'[u].access)
    BY <1>t, <2>1, <2>2, <2>3
  <2>5. \A b \in Browsers : cookie'[b] \in {0, cookie[b]} \/ TokenHeld(b, issued[cookie'[b]])
    BY <1>t, <2>1, <2>2
  <2>6. QED
    BY <1>8, <1>9, <2>4, <2>5 DEF Answered
<1>10. ASSUME GiveUp(r)
       PROVE  \A t \in Tabs : tab'[t].access \in {0, tab[t].access}
  BY <1>t, <1>10 DEF GiveUp, SignedOut
<1>11. CASE Refused(r)
  <2>1. \A b \in Browsers : cookie'[b] \in {0, cookie[b]}
    BY <1>11, <1>t DEF Refused, SetCookie
  <2>2. QED
    BY <1>8, <1>10, <1>11, <2>1 DEF Refused, GiveUp
<1>12. CASE Unreachable(r)
  BY <1>8, <1>10, <1>12 DEF Unreachable, GiveUp
<1>13. CASE SignedOff(r)
  <2>1. \A b \in Browsers : cookie'[b] \in {0, cookie[b]}
    BY <1>13, <1>t DEF SignedOff, SetCookie
  <2>2. \A t \in Tabs : tab'[t].access \in {0, tab[t].access}
    <3> DEFINE out == [tab[wire[r].tab] EXCEPT !.page = "signin", !.access = 0]
    <3>1. out.access = 0
      BY <1>13, <1>b, <1>t DEF SignedOff, TabState
    <3>2. tab' = [tab EXCEPT ![wire[r].tab] = out]
      BY <1>13 DEF SignedOff
    <3> HIDE DEF out
    <3>3. QED
      BY <1>t, <3>1, <3>2
  <2>3. QED
    BY <1>8, <1>13, <2>1, <2>2 DEF SignedOff
<1>14. QED
  BY <1>1, <1>2, <1>4, <1>5, <1>6, <1>7, <1>9, <1>11, <1>12, <1>13 DEF Travel

LEMMA StartDevice ==
  ASSUME DeviceInv, SessionIInv', NEW t \in Tabs, Start(t)
  PROVE  DeviceInv'
<1>t. /\ tab \in [Tabs -> TabState] /\ tab[t] \in TabState /\ wire \in [Wires -> Request]
      /\ BrowserOf[t] \in Browsers
  BY DeviceTypes, SessionAssumption
<1> USE DEF Send
<1>1. ASSUME UNCHANGED <<issued, logins, account, cookie>>,
             \A u \in Tabs : tab'[u].access \in {0, tab[u].access},
             \/ UNCHANGED wire
             \/ \E r \in Wires : \E q : wire' = [wire EXCEPT ![r] = q] /\ Backed(q)
      PROVE  DeviceInv'
  <2>1. \A s \in Wires : wire'[s] = wire[s] \/ Backed(wire'[s])
    BY <1>t, <1>1
  <2>2. QED
    BY <1>1, <2>1, MoveStep
<1>2. ASSUME NEW by
      PROVE  cookie[BrowserOf[t]] # 0 =>
               Backed([op |-> "refresh", tab |-> t, by |-> by, token |-> cookie[BrowserOf[t]]])
  BY <1>t, CookieIsHeld DEF Backed
<1>3. ASSUME NEW r \in Wires, SignIn(r, t) PROVE DeviceInv'
  <2> DEFINE q == [op |-> "login", tab |-> t, by |-> "form"]
  <2>1. Backed(q)
    BY DEF Backed
  <2> HIDE DEF q
  <2>2. QED
    BY <1>1, <1>3, <2>1 DEF SignIn, q
<1>4. ASSUME NEW r \in Wires, LoadPage(r, t) PROVE DeviceInv'
  <2>1. \A u \in Tabs : tab'[u].access \in {0, tab[u].access}
    BY <1>4, <1>t DEF LoadPage, SignedOut
  <2> DEFINE q == [op |-> "refresh", tab |-> t, by |-> "page", token |-> cookie[BrowserOf[t]]]
  <2>2. UNCHANGED wire \/ (wire' = [wire EXCEPT ![r] = q] /\ cookie[BrowserOf[t]] # 0)
    BY <1>4 DEF LoadPage
  <2>3. cookie[BrowserOf[t]] # 0 => Backed(q)
    BY <1>2
  <2> HIDE DEF q
  <2>4. QED
    BY <1>1, <1>4, <2>1, <2>2, <2>3 DEF LoadPage
<1>5. ASSUME NEW r \in Wires, Unauthorized(r, t) PROVE DeviceInv'
  <2>1. \A u \in Tabs : tab'[u].access \in {0, tab[u].access}
    BY <1>5, <1>t DEF Unauthorized, TabState
  <2> DEFINE q == [op |-> "refresh", tab |-> t, by |-> "interceptor", token |-> cookie[BrowserOf[t]]]
  <2>2. wire' = [wire EXCEPT ![r] = q] /\ cookie[BrowserOf[t]] # 0
    BY <1>5 DEF Unauthorized
  <2>3. cookie[BrowserOf[t]] # 0 => Backed(q)
    BY <1>2
  <2> HIDE DEF q
  <2>4. QED
    BY <1>1, <1>5, <2>1, <2>2, <2>3 DEF Unauthorized
<1>6. ASSUME NEW r \in Wires, SignOut(r, t) PROVE DeviceInv'
  <2> DEFINE q == IF tab[t].access # 0 THEN [op |-> "logout", tab |-> t, session |-> tab[t].access]
                                      ELSE [op |-> "left", tab |-> t]
  <2>1. q.op \in {"logout", "left"}
    OBVIOUS
  <2>2. wire' = [wire EXCEPT ![r] = q]
    BY <1>6 DEF SignOut
  <2> HIDE DEF q
  <2>3. Backed(q)
    BY <2>1 DEF Backed
  <2>4. QED
    BY <1>1, <1>6, <2>2, <2>3 DEF SignOut
<1>7. CASE UnauthorizedNoCookie(t)
  <2>1. \A u \in Tabs : tab'[u].access \in {0, tab[u].access}
    BY <1>7, <1>t DEF UnauthorizedNoCookie, SignedOut
  <2>2. QED
    BY <1>1, <1>7, <2>1 DEF UnauthorizedNoCookie
<1>8. CASE UnauthorizedQueued(t)
  <2>1. \A u \in Tabs : tab'[u].access \in {0, tab[u].access}
    BY <1>8, <1>t DEF UnauthorizedQueued, TabState
  <2>2. QED
    BY <1>1, <1>8, <2>1 DEF UnauthorizedQueued
<1>9. QED
  BY <1>3, <1>4, <1>5, <1>6, <1>7, <1>8 DEF Start

LEMMA NextDevice == DeviceInv /\ [SessionNext]_sessionVars => DeviceInv'
<1> SUFFICES ASSUME DeviceInv, [SessionNext]_sessionVars PROVE DeviceInv'
  OBVIOUS
<1>1. SessionIInv'
  BY SessionNextIInv DEF DeviceInv
<1>2. CASE UNCHANGED sessionVars
  BY <1>1, <1>2, MoveStep DEF sessionVars
<1>3. QED
  BY <1>1, <1>2, TravelDevice, StartDevice DEF SessionNext

-----------------------------------------------------------------------------
(* However logins, refreshes and logouts of one account race, the tabs whose
   calls the JWT guard accepts all run in one browser (auth.service.ts,
   generateTokens; jwt.strategy.ts, validate). *)
THEOREM OneDeviceAtATime == SessionSpec => []OneDevice
<1>1. DeviceInv => OneDevice
  <2> SUFFICES ASSUME DeviceInv, NEW t \in Tabs, NEW u \in Tabs, Live(t), Live(u)
               PROVE  BrowserOf[t] = BrowserOf[u]
    BY DEF OneDevice
  <2>1. account.session \in 1..logins
    BY DeviceTypes DEF DeviceInv, TokensDrawn, Live
  <2>2. TokenHeld(BrowserOf[t], account.session) /\ TokenHeld(BrowserOf[u], account.session)
    BY DEF TokenHeld, InTab, Live
  <2>3. BrowserOf[t] \in Browsers /\ BrowserOf[u] \in Browsers
    BY SessionAssumption
  <2>4. QED
    BY <2>1, <2>2, <2>3 DEF DeviceInv, OneHome
<1>2. QED
  BY <1>1, InitDevice, NextDevice, PTL DEF SessionSpec

-----------------------------------------------------------------------------
(* Accounts (registration, login, recovery) *)

HIDE SessionAssumption
USE AccountAssumption

(* codes counts the acceptances of every code drawn. *)
Counted == codes \in [Drawn -> Nat]

(* The code in the row has not been accepted yet. *)
RowUnspent == user.code # 0 => codes[user.code] = 0

(* A password is written with a code that was drawn. *)
PasswordCalls ==
  \A r \in AccountReqs :
    /\ accountReq[r].code \in Drawn \cup {0}
    /\ accountReq[r].op = "password" => accountReq[r].code \in Drawn

AccountIInv == AccountTypeOK /\ Counted /\ RowUnspent /\ PasswordCalls /\ CodeSpentOnce

LEMMA AccountInitIInv == AccountInit => AccountIInv
<1> SUFFICES ASSUME AccountInit PROVE AccountIInv
  OBVIOUS
<1> USE DEF AccountInit
<1>1. Drawn = {} /\ codes \in [Drawn -> Nat]
  BY DEF Drawn
<1>2. user \in UserRow /\ user.code = 0
  BY DEF UserRow
<1>3. /\ accountReq \in [AccountReqs -> AccountCall]
      /\ \A r \in AccountReqs : accountReq[r].code = 0 /\ accountReq[r].op = "idle"
  BY DEF AccountCall, NoAccountCall
<1>4. attempts \in [count : 0..(MaxForgot + 1), expires : BOOLEAN]
  <2>1. 0 \in 0..(MaxForgot + 1)
    OBVIOUS
  <2>2. QED
    BY <2>1
<1>5. QED
  BY <1>1, <1>2, <1>3, <1>4
  DEF AccountIInv, AccountTypeOK, Counted, RowUnspent, PasswordCalls, CodeSpentOnce

(* The codes and the row are as they were. *)
LEMMA CodesKept ==
  ASSUME AccountIInv, UNCHANGED codes, user'.code = user.code, user' \in UserRow
  PROVE  /\ Drawn' = Drawn /\ Counted' /\ RowUnspent' /\ CodeSpentOnce'
         /\ Drawn' \subseteq 1..MaxCodes /\ user'.code \in Drawn' \cup {0}
BY DEF AccountIInv, AccountTypeOK, Counted, RowUnspent, CodeSpentOnce, Drawn

(* The code in the row is accepted and erased. *)
LEMMA CodesSpent ==
  ASSUME AccountIInv, NEW n \in Drawn, user.code = n,
         codes' = [codes EXCEPT ![n] = @ + 1], user'.code = 0, user' \in UserRow
  PROVE  /\ Drawn' = Drawn /\ Counted' /\ RowUnspent' /\ CodeSpentOnce'
         /\ Drawn' \subseteq 1..MaxCodes /\ user'.code \in Drawn' \cup {0}
<1>1. n # 0 /\ codes[n] = 0 /\ codes \in [Drawn -> Nat]
  BY DEF AccountIInv, AccountTypeOK, Counted, RowUnspent
<1>2. codes' = [codes EXCEPT ![n] = 1]
  BY <1>1
<1>3. Drawn' = Drawn
  BY <1>2 DEF Drawn
<1>4. Counted' /\ CodeSpentOnce'
  BY <1>1, <1>2, <1>3 DEF AccountIInv, Counted, CodeSpentOnce, Drawn
<1>5. QED
  BY <1>3, <1>4 DEF RowUnspent, AccountIInv, AccountTypeOK

(* A slot changes its step, keeping the code it has. *)
LEMMA SlotMoves ==
  ASSUME AccountIInv, NEW r \in AccountReqs,
         NEW op \in {"saveClient", "code", "expire", "lookup", "reset", "cooldown"},
         accountReq' = [accountReq EXCEPT ![r].op = op], Drawn' = Drawn
  PROVE  accountReq' \in [AccountReqs -> AccountCall] /\ PasswordCalls'
<1>1. accountReq \in [AccountReqs -> AccountCall] /\ PasswordCalls
  BY DEF AccountIInv, AccountTypeOK
<1>2. accountReq[r] \in AccountCall
  BY <1>1
<1> DEFINE moved == [accountReq[r] EXCEPT !.op = op]
<1>3. moved \in AccountCall /\ moved.op = op /\ moved.code = accountReq[r].code
  BY <1>2 DEF AccountCall
<1>4. accountReq' = [accountReq EXCEPT ![r] = moved]
  OBVIOUS
<1> HIDE DEF moved
<1>5. accountReq' \in [AccountReqs -> AccountCall]
  BY <1>1, <1>3, <1>4
<1>6. accountReq'[r] = moved /\ \A s \in AccountReqs \ {r} : accountReq'[s] = accountReq[s]
  BY <1>1, <1>4
<1>7. PasswordCalls'
  <2>1. ASSUME NEW s \in AccountReqs
        PROVE  /\ accountReq'[s].code \in Drawn' \cup {0}
               /\ accountReq'[s].op = "password" => accountReq'[s].code \in Drawn'
    BY <1>1, <1>3, <1>6 DEF PasswordCalls
  <2>2. QED
    BY <2>1 DEF PasswordCalls
<1>8. QED
  BY <1>5, <1>7

LEMMA SlotFreed ==
  ASSUME AccountIInv, NEW r \in AccountReqs, AccountEnd(r), Drawn \subseteq Drawn'
  PROVE  accountReq' \in [AccountReqs -> AccountCall] /\ PasswordCalls'
BY DEF AccountIInv, AccountTypeOK, AccountEnd, NoAccountCall, AccountCall, PasswordCalls

LEMMA SlotsKept ==
  ASSUME AccountIInv, UNCHANGED accountReq, Drawn' = Drawn
  PROVE  accountReq' \in [AccountReqs -> AccountCall] /\ PasswordCalls'
BY DEF AccountIInv, AccountTypeOK, PasswordCalls

(* A step that draws and spends nothing. *)
LEMMA LimitStep ==
  ASSUME AccountIInv, UNCHANGED <<codes, passwords>>, user'.code = user.code, user' \in UserRow,
         client' \in BOOLEAN, cooldown' \in BOOLEAN,
         attempts' \in [count : 0..(MaxForgot + 1), expires : BOOLEAN],
         accountReq' \in [AccountReqs -> AccountCall], PasswordCalls'
  PROVE  AccountIInv'
BY CodesKept DEF AccountIInv, AccountTypeOK

LEMMA AccountNextIInv == AccountIInv /\ [AccountNext]_accountVars => AccountIInv'
<1> SUFFICES ASSUME AccountIInv, [AccountNext]_accountVars PROVE AccountIInv'
  OBVIOUS
<1>t. /\ user \in UserRow /\ client \in BOOLEAN /\ cooldown \in BOOLEAN
      /\ attempts \in [count : 0..(MaxForgot + 1), expires : BOOLEAN]
      /\ accountReq \in [AccountReqs -> AccountCall] /\ passwords \subseteq Drawn
      /\ Drawn \subseteq 1..MaxCodes /\ user.code \in Drawn \cup {0}
  BY DEF AccountIInv, AccountTypeOK
<1>k. UNCHANGED codes => Drawn' = Drawn
  BY DEF Drawn
<1>a. attempts = [count |-> attempts.count, expires |-> attempts.expires] /\ attempts.count \in Nat
  BY <1>t
<1> USE DEF codeVars, limitVars
<1>1. ASSUME NEW r \in AccountReqs, RegisterClient(r) PROVE AccountIInv'
  <2>1. user' \in UserRow /\ user'.code = user.code
    BY <1>1, <1>t DEF RegisterClient, UserRow
  <2>2. accountReq' \in [AccountReqs -> AccountCall] /\ PasswordCalls'
    BY <1>1, <1>k, SlotMoves DEF RegisterClient, AccountBegin
  <2>3. QED
    BY <1>1, <1>t, <2>1, <2>2, LimitStep DEF RegisterClient
<1>2. ASSUME NEW r \in AccountReqs, AskCode(r) PROVE AccountIInv'
  <2>2. accountReq' \in [AccountReqs -> AccountCall] /\ PasswordCalls'
    BY <1>2, <1>k, SlotMoves
    DEF AskCode, RegisterAgain, LoginWithPhone, RequestPhoneOtp, AccountBegin
  <2>3. QED
    BY <1>2, <1>t, <2>2, LimitStep DEF AskCode
<1>3. ASSUME NEW r \in AccountReqs, NEW n \in Drawn, VerifyPhoneOtp(r, n) PROVE AccountIInv'
  <2>1. user' \in UserRow /\ user'.code = 0
    BY <1>3 DEF VerifyPhoneOtp, UserRow
  <2>2. /\ Drawn' = Drawn /\ Counted' /\ RowUnspent' /\ CodeSpentOnce'
        /\ Drawn' \subseteq 1..MaxCodes /\ user'.code \in Drawn' \cup {0}
    BY <1>3, <2>1, CodesSpent DEF VerifyPhoneOtp
  <2>3. accountReq' \in [AccountReqs -> AccountCall] /\ PasswordCalls'
    BY <1>3, <2>2, SlotsKept DEF VerifyPhoneOtp, AccountIdle
  <2>4. QED
    BY <1>3, <1>t, <2>1, <2>2, <2>3 DEF VerifyPhoneOtp, AccountIInv, AccountTypeOK
<1>4. ASSUME NEW r \in AccountReqs, BlockClient(r) \/ UnblockClient(r) PROVE AccountIInv'
  <2>1. user' \in UserRow /\ user'.code = user.code
    BY <1>4, <1>t DEF BlockClient, UnblockClient, UserRow
  <2>2. accountReq' \in [AccountReqs -> AccountCall] /\ PasswordCalls'
    BY <1>4, <1>k, SlotsKept DEF BlockClient, UnblockClient, AccountIdle
  <2>3. QED
    BY <1>4, <1>t, <2>1, <2>2, LimitStep DEF BlockClient, UnblockClient
<1>5. ASSUME NEW r \in AccountReqs, ForgotPasswordPhone(r) PROVE AccountIInv'
  <2>1. attempts' \in [count : 0..(MaxForgot + 1), expires : BOOLEAN]
    BY <1>5, <1>a, <1>t DEF ForgotPasswordPhone
  <2>2. accountReq' \in [AccountReqs -> AccountCall] /\ PasswordCalls'
    BY <1>5, <1>k, SlotMoves, SlotsKept DEF ForgotPasswordPhone, AccountBegin, AccountIdle
  <2>3. QED
    BY <1>5, <1>t, <2>1, <2>2, LimitStep DEF ForgotPasswordPhone
<1>6. ASSUME NEW r \in AccountReqs, ResetPasswordPhone(r) PROVE AccountIInv'
  <2>1. accountReq' \in [AccountReqs -> AccountCall] /\ PasswordCalls'
    BY <1>6, <1>k, SlotMoves DEF ResetPasswordPhone, AccountBegin
  <2>2. QED
    BY <1>6, <1>t, <2>1, LimitStep DEF ResetPasswordPhone
<1>7. ASSUME NEW r \in AccountReqs, AccountOnward(r) PROVE AccountIInv'
  <2>1. CASE DrawCode(r)
    <3>1. PICK n \in (1..MaxCodes) \ Drawn :
            /\ codes' = [k \in Drawn \cup {n} |-> IF k = n THEN 0 ELSE codes[k]]
            /\ user' = [user EXCEPT !.code = n, !.fresh = TRUE]
      BY <2>1 DEF DrawCode
    <3>2. Drawn' = Drawn \cup {n}
      BY <3>1 DEF Drawn
    <3>3. user' \in UserRow /\ user'.code = n
      <4>1. n \in Nat
        OBVIOUS
      <4> DEFINE drawn == [user EXCEPT !.code = n, !.fresh = TRUE]
      <4>2. drawn.status = user.status /\ drawn.code = n /\ drawn \in UserRow
        BY <1>t, <4>1 DEF UserRow
      <4>3. QED
        BY <3>1, <4>2
    <3>4. codes \in [Drawn -> Nat] /\ \A k \in Drawn : codes[k] <= 1
      BY DEF AccountIInv, Counted, CodeSpentOnce
    <3>5. \A k \in Drawn \cup {n} : codes'[k] \in Nat /\ codes'[k] <= 1
      BY <3>1, <3>4
    <3>6. codes' = [k \in Drawn \cup {n} |-> codes'[k]]
      BY <3>1
    <3>7. Counted' /\ CodeSpentOnce'
      BY <3>2, <3>5, <3>6 DEF Counted, CodeSpentOnce
    <3>8. RowUnspent'
      BY <3>1, <3>3 DEF RowUnspent
    <3>9. accountReq' \in [AccountReqs -> AccountCall] /\ PasswordCalls'
      BY <2>1, <3>2, SlotFreed DEF DrawCode
    <3>10. QED
      BY <2>1, <1>t, <3>2, <3>3, <3>7, <3>8, <3>9 DEF DrawCode, AccountIInv, AccountTypeOK
  <2>2. CASE SaveClient(r)
    <3>1. accountReq' \in [AccountReqs -> AccountCall] /\ PasswordCalls'
      BY <2>2, <1>k, SlotMoves DEF SaveClient, AccountStep
    <3>2. QED
      BY <2>2, <1>t, <3>1, LimitStep DEF SaveClient
  <2>3. CASE ExpireAttempts(r)
    <3>1. attempts' \in [count : 0..(MaxForgot + 1), expires : BOOLEAN]
      <4>1. (attempts.count > 0) \in BOOLEAN
        OBVIOUS
      <4>2. attempts' = [count |-> attempts.count, expires |-> attempts.count > 0]
        BY <2>3, <1>a DEF ExpireAttempts
      <4>3. attempts.count \in 0..(MaxForgot + 1)
        BY <1>t
      <4>4. QED
        BY <4>1, <4>2, <4>3, Zenon
    <3>2. accountReq' \in [AccountReqs -> AccountCall] /\ PasswordCalls'
      BY <2>3, <1>k, SlotMoves DEF ExpireAttempts, AccountStep
    <3>3. QED
      BY <2>3, <1>t, <3>1, <3>2, LimitStep DEF ExpireAttempts
  <2>4. CASE ForgotLookup(r)
    <3>1. accountReq' \in [AccountReqs -> AccountCall] /\ PasswordCalls'
      BY <2>4, <1>k, SlotMoves, SlotFreed DEF ForgotLookup, AccountStep
    <3>2. QED
      BY <2>4, <1>t, <3>1, LimitStep DEF ForgotLookup
  <2>5. ASSUME NEW n \in Drawn, ResetSpend(r, n) PROVE AccountIInv'
    <3>1. user' \in UserRow /\ user'.code = 0
      BY <2>5, <1>t DEF ResetSpend, Spend, UserRow
    <3>2. /\ Drawn' = Drawn /\ Counted' /\ RowUnspent' /\ CodeSpentOnce'
          /\ Drawn' \subseteq 1..MaxCodes /\ user'.code \in Drawn' \cup {0}
      BY <2>5, <3>1, CodesSpent DEF ResetSpend, Spend
    <3>3. accountReq' \in [AccountReqs -> AccountCall] /\ PasswordCalls'
      <4>1. accountReq' = [accountReq EXCEPT ![r] = [op |-> "password", code |-> n]] /\ n \in Nat
        BY <2>5, <1>t DEF ResetSpend
      <4>2. [op |-> "password", code |-> n] \in AccountCall
        BY <4>1 DEF AccountCall
      <4>3. QED
        BY <1>t, <3>2, <4>1, <4>2 DEF AccountIInv, PasswordCalls
    <3>4. QED
      BY <2>5, <1>t, <3>1, <3>2, <3>3 DEF ResetSpend, AccountIInv, AccountTypeOK
  <2>6. CASE ResetWrongCode(r)
    <3>1. accountReq' \in [AccountReqs -> AccountCall] /\ PasswordCalls'
      BY <2>6, <1>k, SlotFreed DEF ResetWrongCode
    <3>2. QED
      BY <2>6, <1>t, <3>1, LimitStep DEF ResetWrongCode
  <2>7. CASE ResetPassword(r)
    <3>1. accountReq' \in [AccountReqs -> AccountCall] /\ PasswordCalls'
      BY <2>7, <1>k, SlotMoves DEF ResetPassword, AccountStep
    <3>2. accountReq[r].code \in Drawn
      BY <2>7 DEF ResetPassword, AccountIInv, PasswordCalls
    <3>3. /\ Drawn' = Drawn /\ Counted' /\ RowUnspent' /\ CodeSpentOnce'
          /\ Drawn' \subseteq 1..MaxCodes /\ user'.code \in Drawn' \cup {0}
      BY <2>7, <1>t, CodesKept DEF ResetPassword
    <3>4. QED
      BY <2>7, <1>t, <3>1, <3>2, <3>3 DEF ResetPassword, AccountIInv, AccountTypeOK
  <2>8. CASE ResetCooldown(r)
    <3>1. accountReq' \in [AccountReqs -> AccountCall] /\ PasswordCalls'
      BY <2>8, <1>k, SlotFreed DEF ResetCooldown
    <3>2. QED
      BY <2>8, <1>t, <3>1, LimitStep DEF ResetCooldown
  <2>9. QED
    BY <1>7, <2>1, <2>2, <2>3, <2>4, <2>5, <2>6, <2>7, <2>8 DEF AccountOnward
<1>8. ASSUME NEW r \in AccountReqs, CallFails(r) PROVE AccountIInv'
  <2>1. accountReq' \in [AccountReqs -> AccountCall] /\ PasswordCalls'
    BY <1>8, <1>k, SlotFreed DEF CallFails
  <2>2. QED
    BY <1>8, <1>t, <2>1, LimitStep DEF CallFails
<1>9. CASE CodeExpires
  <2>1. user' \in UserRow /\ user'.code = user.code
    BY <1>9, <1>t DEF CodeExpires, UserRow
  <2>2. QED
    BY <1>9, <1>k, <1>t, <2>1, SlotsKept, LimitStep DEF CodeExpires
<1>10. CASE ADayPasses
  BY <1>10, <1>k, <1>t, SlotsKept, LimitStep DEF ADayPasses
<1>11. CASE AWeekPasses
  BY <1>11, <1>k, <1>t, SlotsKept, LimitStep DEF AWeekPasses
<1>12. CASE UNCHANGED accountVars
  BY <1>12, <1>k, <1>t, SlotsKept, LimitStep DEF accountVars
<1>13. QED
  BY <1>1, <1>2, <1>3, <1>4, <1>5, <1>6, <1>7, <1>8, <1>9, <1>10, <1>11, <1>12 DEF AccountNext

-----------------------------------------------------------------------------
(* Rows, keys and calls stay within their columns. *)
THEOREM AccountTyped == AccountSpec => []AccountTypeOK
<1>1. AccountIInv => AccountTypeOK
  BY DEF AccountIInv
<1>2. QED
  BY <1>1, AccountInitIInv, AccountNextIInv, PTL DEF AccountSpec

(* The three flows that share users.otp_code accept no code twice, whichever
   calls race and wherever they are cut short. *)
THEOREM CodesSpentOnce == AccountSpec => []CodeSpentOnce
<1>1. AccountIInv => CodeSpentOnce
  BY DEF AccountIInv
<1>2. QED
  BY <1>1, AccountInitIInv, AccountNextIInv, PTL DEF AccountSpec
=============================================================================
