------------------------------- MODULE Sessions -------------------------------
(***************************************************************************)
(* One account of the web panel, signed in from several browsers: the      *)
(* session id and the refresh token in its users row (auth.service.ts,     *)
(* jwt.strategy.ts), the cookie each browser keeps and the route handlers  *)
(* that set and delete it (app/api/auth), and in every tab the access      *)
(* token, the interceptor that refreshes it (lib/api.ts), AuthContext and  *)
(* the socket that closes a replaced session (SocketContext.tsx).          *)
(*                                                                         *)
(* A request travels from the tab to the service and back in steps; a slot *)
(* of wire holds one in flight.  The account is active throughout.  Access *)
(* and refresh tokens may expire whenever they are looked at.              *)
(***************************************************************************)
EXTENDS Naturals, Sequences, FiniteSets

CONSTANTS
  Browsers, Tabs,
  BrowserOf,     \* the browser of each tab
  Wires,         \* slots for requests in flight
  MaxLogins,     \* bound: sessions created
  MaxTokens      \* bound: refresh tokens issued

ASSUME SessionAssumption ==
  /\ BrowserOf \in [Tabs -> Browsers]
  /\ MaxLogins \in Nat /\ MaxTokens \in Nat

VARIABLES
  account,   \* users.session_id and users.refresh_token; 0 is null
  logins,    \* session ids drawn so far: 1, 2, ...
  issued,    \* the refresh tokens signed so far; issued[n] is the session of token n
  cookie,    \* each browser's refresh_token and has_session cookies; 0 is none
  tab,       \* each tab's page, the session of its access token (0: none), its
             \* interceptor (isRefreshing, refreshQueue)
  revoked,   \* tabs whose socket has session.revoked to handle
  wire       \* requests in flight

sessionVars == <<account, logins, issued, cookie, tab, revoked, wire>>

TabState == [page : {"signin", "app"}, access : Nat, refreshing : BOOLEAN, queued : BOOLEAN]
\* Who asked: the sign-in form, the page as it loads, or the interceptor.
Caller == {"form", "page", "interceptor"}
Request ==
  {[op |-> "free"]}
    \cup [op : {"leaving", "left"}, tab : Tabs]
    \cup [op : {"logout"}, tab : Tabs, session : Nat]
    \cup [op : {"login", "refused"}, tab : Tabs, by : Caller]
    \cup [op : {"loginWrite", "refreshWrite"}, tab : Tabs, by : Caller, session : Nat]
    \cup [op : {"refresh", "answered"}, tab : Tabs, by : Caller, token : Nat]

NoCall == [op |-> "free"]
Send(r, request) == wire[r] = NoCall /\ wire' = [wire EXCEPT ![r] = request]
Pass(r, request) == wire' = [wire EXCEPT ![r] = request]
Refusal(r) == [op |-> "refused", tab |-> wire[r].tab, by |-> wire[r].by]
SignedOut == [page |-> "signin", access |-> 0, refreshing |-> FALSE, queued |-> FALSE]

\* Room for the requests in flight, so that none stops at a bound.
InFlight(ops) == Cardinality({r \in Wires : wire[r].op \in ops})
TokensLeft == Len(issued) + InFlight({"login", "loginWrite", "refresh", "refreshWrite"}) < MaxTokens
LoginsLeft == logins + InFlight({"login", "loginWrite"}) < MaxLogins

SessionInit ==
  /\ account = [session |-> 0, refresh |-> 0]
  /\ logins = 0
  /\ issued = <<>>
  /\ cookie = [b \in Browsers |-> 0]
  /\ tab = [t \in Tabs |-> SignedOut]
  /\ revoked = {}
  /\ wire = [r \in Wires |-> NoCall]

-----------------------------------------------------------------------------
(* The service *)

(* generateTokens: the token is signed over the session and the second it is
   signed in, so two in one second are the same token; its hash and the
   session are written into the row by id. *)
Issue(r, session) ==
  \E n \in 1..(Len(issued) + 1) :
    /\ n <= Len(issued) => n = Len(issued) /\ issued[n] = session
    /\ issued' = IF n > Len(issued) THEN Append(issued, session) ELSE issued
    /\ account' = [session |-> session, refresh |-> n]
    /\ Pass(r, [op |-> "answered", tab |-> wire[r].tab, by |-> wire[r].by, token |-> n])

(* Sockets of the account that are connected just now hear session.revoked. *)
NotifyRevoked ==
  \E heard \in SUBSET {t \in Tabs : tab[t].page = "app"} : revoked' = revoked \cup heard

LoginWithPassword(r) ==
  /\ wire[r].op = "login"
  /\ Pass(r, [op |-> "loginWrite", tab |-> wire[r].tab, by |-> "form",
               session |-> account.session])
  /\ UNCHANGED <<account, logins, issued, cookie, tab, revoked>>

\* Mutant: a login keeps the session there is.
LoginWriteSameSession(r) ==
  /\ wire[r].op = "loginWrite"
  /\ logins' = IF wire[r].session = 0 THEN logins + 1 ELSE logins
  /\ Issue(r, IF wire[r].session = 0 THEN logins + 1 ELSE wire[r].session)
  /\ UNCHANGED <<cookie, tab, revoked>>

(* The password compared, the tokens are generated for a new session. *)
LoginWrite(r) ==
  /\ wire[r].op = "loginWrite"
  /\ logins' = logins + 1
  /\ Issue(r, logins + 1)
  /\ IF wire[r].session # 0 THEN NotifyRevoked ELSE UNCHANGED revoked
  /\ UNCHANGED <<cookie, tab>>

(* refresh: the row is found by the token's hash; an expired token is erased. *)
Refresh(r) ==
  /\ wire[r].op = "refresh"
  /\ IF account.refresh = wire[r].token
     THEN \/ /\ Pass(r, [op |-> "refreshWrite", tab |-> wire[r].tab, by |-> wire[r].by,
                         session |-> account.session])
             /\ UNCHANGED account
          \/ /\ account' = [account EXCEPT !.refresh = 0]
             /\ Pass(r, Refusal(r))
     ELSE /\ Pass(r, Refusal(r))
          /\ UNCHANGED account
  /\ UNCHANGED <<logins, issued, cookie, tab, revoked>>

\* Mutant: the row keeps the session, the token is signed for the old one.
RefreshWriteTokenOnly(r) ==
  /\ wire[r].op = "refreshWrite"
  /\ issued' = Append(issued, wire[r].session)
  /\ account' = [account EXCEPT !.refresh = Len(issued) + 1]
  /\ Pass(r, [op |-> "answered", tab |-> wire[r].tab, by |-> wire[r].by, token |-> Len(issued) + 1])
  /\ UNCHANGED <<logins, cookie, tab, revoked>>

RefreshWrite(r) ==
  /\ wire[r].op = "refreshWrite"
  /\ Issue(r, wire[r].session)
  /\ UNCHANGED <<logins, cookie, tab, revoked>>

(* validate: the access token must carry the row's session. *)
Accepted(session) == account.session \in {0, session}

(* logout behind the JWT guard: the guard reads the row, the handler erases
   the refresh token by id. *)
LogoutGuard(r) ==
  /\ wire[r].op = "logout"
  /\ Pass(r, [op |-> IF Accepted(wire[r].session) THEN "leaving" ELSE "left", tab |-> wire[r].tab])
  /\ UNCHANGED <<account, logins, issued, cookie, tab, revoked>>

Logout(r) ==
  /\ wire[r].op = "leaving"
  /\ account' = [account EXCEPT !.refresh = 0]
  /\ Pass(r, [op |-> "left", tab |-> wire[r].tab])
  /\ UNCHANGED <<logins, issued, cookie, tab, revoked>>

-----------------------------------------------------------------------------
(* The panel *)

SignIn(r, t) ==
  /\ tab[t].page = "signin"
  /\ LoginsLeft /\ TokensLeft
  /\ Send(r, [op |-> "login", tab |-> t, by |-> "form"])
  /\ UNCHANGED <<account, logins, issued, cookie, tab, revoked>>

(* The page loads, with no request of the tab in flight: nothing is left in
   memory, and a browser with cookies restores the session. *)
LoadPage(r, t) ==
  /\ \A q \in Wires : wire[q] # NoCall => wire[q].tab # t
  /\ IF cookie[BrowserOf[t]] # 0
     THEN TokensLeft /\ Send(r, [op |-> "refresh", tab |-> t, by |-> "page",
                                token |-> cookie[BrowserOf[t]]])
     ELSE UNCHANGED wire
  /\ tab' = [tab EXCEPT ![t] = SignedOut]
  /\ revoked' = revoked \ {t}
  /\ UNCHANGED <<account, logins, issued, cookie>>

(* A call is answered 401, for the session was replaced or the access token
   has expired: the tab refreshes once, and the calls that fail meanwhile
   queue.  Without a token in memory the call fails and that is all. *)
Unauthorized(r, t) ==
  /\ tab[t].access # 0
  /\ ~tab[t].refreshing
  /\ cookie[BrowserOf[t]] # 0
  /\ TokensLeft
  /\ Send(r, [op |-> "refresh", tab |-> t, by |-> "interceptor", token |-> cookie[BrowserOf[t]]])
  /\ tab' = [tab EXCEPT ![t].refreshing = TRUE]
  /\ UNCHANGED <<account, logins, issued, cookie, revoked>>

\* Without a refresh cookie the route answers 401 by itself.
UnauthorizedNoCookie(t) ==
  /\ tab[t].access # 0
  /\ ~tab[t].refreshing
  /\ cookie[BrowserOf[t]] = 0
  /\ tab' = [tab EXCEPT ![t] = SignedOut]
  /\ revoked' = revoked \ {t}
  /\ UNCHANGED <<account, logins, issued, cookie, wire>>

UnauthorizedQueued(t) ==
  /\ tab[t].access # 0
  /\ tab[t].refreshing
  /\ tab' = [tab EXCEPT ![t].queued = TRUE]
  /\ UNCHANGED <<account, logins, issued, cookie, revoked, wire>>

\* Mutant: the queue is not run when the token arrives.
ReceiveTokenQueueKept(t, by, session) ==
  IF by = "interceptor" THEN [tab[t] EXCEPT !.access = session, !.refreshing = FALSE]
                        ELSE [tab[t] EXCEPT !.access = session, !.page = "app"]

(* The tab keeps the access token; the interceptor repeats the queued calls,
   the form and the page load the user. *)
ReceiveToken(t, by, session) ==
  IF by = "interceptor"
  THEN [tab[t] EXCEPT !.access = session, !.refreshing = FALSE, !.queued = FALSE]
  ELSE [tab[t] EXCEPT !.access = session, !.page = "app"]

SetCookie(b, token) == cookie' = [cookie EXCEPT ![b] = token]

(* The tokens arrive: the route sets both cookies. *)
Answered(r) ==
  LET t == wire[r].tab IN
  /\ wire[r].op = "answered"
  /\ tab' = [tab EXCEPT ![t] = ReceiveToken(t, wire[r].by, issued[wire[r].token])]
  /\ SetCookie(BrowserOf[t], wire[r].token)
  /\ Pass(r, NoCall)
  /\ UNCHANGED <<account, logins, issued, revoked>>

(* Nothing arrived: the interceptor forgets the token, drops the queue and
   opens the sign-in page. *)
GiveUp(r) ==
  /\ tab' = IF wire[r].by = "interceptor" THEN [tab EXCEPT ![wire[r].tab] = SignedOut] ELSE tab
  /\ revoked' = IF wire[r].by = "interceptor" THEN revoked \ {wire[r].tab} ELSE revoked
  /\ Pass(r, NoCall)
  /\ UNCHANGED <<account, logins, issued>>

(* A refresh is refused: the route deletes both cookies. *)
Refused(r) ==
  /\ wire[r].op = "refused"
  /\ SetCookie(BrowserOf[wire[r].tab], 0)
  /\ GiveUp(r)

(* The service cannot be reached: the route answers 401 and keeps the cookies. *)
Unreachable(r) ==
  /\ wire[r].op = "refresh"
  /\ GiveUp(r)
  /\ UNCHANGED cookie

(* The user signs out, or the tab handles session.revoked, in the same way. *)
SignOut(r, t) ==
  /\ tab[t].page = "app"
  /\ revoked' = revoked \ {t}
  /\ Send(r, IF tab[t].access # 0 THEN [op |-> "logout", tab |-> t, session |-> tab[t].access]
                                  ELSE [op |-> "left", tab |-> t])
  /\ UNCHANGED <<account, logins, issued, cookie, tab>>

(* The route deletes the cookies of the browser whatever the service said. *)
SignedOff(r) ==
  LET t == wire[r].tab IN
  /\ wire[r].op = "left"
  /\ SetCookie(BrowserOf[t], 0)
  /\ tab' = [tab EXCEPT ![t] = [tab[t] EXCEPT !.page = "signin", !.access = 0]]
  /\ revoked' = revoked \ {t}
  /\ Pass(r, NoCall)
  /\ UNCHANGED <<account, logins, issued>>

-----------------------------------------------------------------------------
\* The steps of a request under way.
Travel(r) ==
  \/ LoginWithPassword(r) \/ LoginWrite(r)
  \/ Refresh(r) \/ RefreshWrite(r)
  \/ LogoutGuard(r) \/ Logout(r)
  \/ Answered(r) \/ Refused(r) \/ Unreachable(r) \/ SignedOff(r)

Start(t) ==
  \/ \E r \in Wires : SignIn(r, t) \/ LoadPage(r, t) \/ Unauthorized(r, t) \/ SignOut(r, t)
  \/ UnauthorizedNoCookie(t) \/ UnauthorizedQueued(t)

SessionNext ==
  \/ \E r \in Wires : Travel(r)
  \/ \E t \in Tabs : Start(t)

SessionSpec == SessionInit /\ [][SessionNext]_sessionVars

(* Requests are carried out and answered; users need not do anything. *)
SessionFairSpec == SessionSpec /\ \A r \in Wires : WF_sessionVars(Travel(r))

-----------------------------------------------------------------------------
(* Properties *)

(* Rows, cookies, tabs and requests stay within their types. *)
SessionTypeOK ==
  /\ account \in [session : Nat, refresh : Nat]
  /\ logins \in Nat
  /\ issued \in Seq(Nat)
  /\ cookie \in [Browsers -> 0..Len(issued)]
  /\ tab \in [Tabs -> TabState]
  /\ revoked \subseteq Tabs
  /\ wire \in [Wires -> Request]

(* The refresh token in the row was signed for the session in the row: what
   it renews is a session the guard accepts, under every race of logins,
   refreshes and logouts. *)
RefreshMatchesSession ==
  account.refresh # 0 => account.refresh <= Len(issued) /\ issued[account.refresh] = account.session

Live(t) == tab[t].access # 0 /\ tab[t].access = account.session

(* Single session per account (generateTokens, jwt.strategy): however requests
   race, the tabs whose calls the guard accepts all run in one browser. *)
OneDevice == \A t, u \in Tabs : Live(t) /\ Live(u) => BrowserOf[t] = BrowserOf[u]

(* The calls queued behind a refresh are repeated or their page is left: no
   screen waits for ever on a promise nobody settles. *)
QueuedCallsEnd == \A t \in Tabs : []<>~tab[t].queued
=============================================================================
