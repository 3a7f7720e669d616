-------------------------------- MODULE Presence --------------------------------
(***************************************************************************)
(* The sockets of one driver and his status (events.gateway,               *)
(* drivers.service): which of them is in the room that hears of new trips, *)
(* while handshakes, disconnections noticed late and status calls          *)
(* interleave.  Of the status only whether it is OFFLINE is kept.          *)
(***************************************************************************)
EXTENDS Naturals

CONSTANTS
  MaxSockets,   \* bound: connections the server knows at a time
  StatusCalls   \* slots for calls between their write of the status and their sync

SocketsAssumption == MaxSockets \in Nat \ {0}
ASSUME SocketsAssumption

VARIABLES
  isOnline,       \* online_status is not OFFLINE
  conn,           \* the connections, with the step of handleConnection
  socketUsers,    \* the sockets whose user is known
  userSockets,    \* the socket entered for the driver, or none
  availableRoom,
  statusCall,     \* the status a call has written and syncAvailableRoom not yet followed
  gaps            \* what the code is known not to follow: a newer socket whose entry
                  \* is gone ("entry"), a row set by a handler that does not sync
                  \* ("row"), a call that took him offline and syncs when he is online
                  \* again ("late")

presenceVars == <<isOnline, conn, socketUsers, userSockets, availableRoom, statusCall, gaps>>

Sockets == 1..MaxSockets
NoSocket == 0
\* open: the app uses it; lost: the app gave it up and the server does not know.
Conn == [state : {"none", "open", "lost", "gone"},
         step : {"authenticate", "load", "join", "done"}, seen : BOOLEAN]
NoConnection == [state |-> "none", step |-> "done", seen |-> FALSE]
Open(s) == conn[s].state = "open"
Connected(s) == conn[s].state \in {"open", "lost"}   \* getLocalSocket finds it

PresenceInit ==
  /\ isOnline \in BOOLEAN
  /\ conn = [s \in Sockets |-> NoConnection]
  /\ socketUsers = {} /\ userSockets = NoSocket /\ availableRoom = {}
  /\ statusCall = [r \in StatusCalls |-> "none"] /\ gaps = {}

-----------------------------------------------------------------------------
(* Connections *)

\* The app has one socket at a time.
Connect(s) ==
  /\ conn[s] = NoConnection /\ \A other \in Sockets : ~Open(other)
  /\ conn' = [conn EXCEPT ![s] = [state |-> "open", step |-> "authenticate", seen |-> FALSE]]
  /\ UNCHANGED <<isOnline, socketUsers, userSockets, availableRoom, statusCall, gaps>>

(* The user has been read: the maps are written, whether or not the socket is
   still there, and the driver is asked for. *)
Authenticated(s) ==
  /\ conn[s].step = "authenticate"
  /\ conn' = [conn EXCEPT ![s].step = "load"]
  /\ socketUsers' = socketUsers \cup {s}
  /\ userSockets' = s
  /\ gaps' = IF Open(s) THEN gaps \ {"entry"}
             ELSE IF userSockets # NoSocket /\ Open(userSockets) THEN gaps \cup {"entry"} ELSE gaps
  /\ UNCHANGED <<isOnline, availableRoom, statusCall>>

ReadDriver(s) ==
  /\ conn[s].step = "load"
  /\ conn' = [conn EXCEPT ![s].step = "join", ![s].seen = isOnline]
  /\ UNCHANGED <<isOnline, socketUsers, userSockets, availableRoom, statusCall, gaps>>

JoinRooms(s) ==
  /\ conn[s].step = "join"
  /\ conn' = [conn EXCEPT ![s].step = "done", ![s].seen = FALSE]
  /\ availableRoom' = IF conn[s].seen THEN availableRoom \cup {s} ELSE availableRoom
  /\ gaps' = IF conn[s].seen /\ Open(s) THEN gaps \ {"row", "late"} ELSE gaps
  /\ UNCHANGED <<isOnline, socketUsers, userSockets, statusCall>>

\* handleDisconnect, after Socket.IO has taken the socket out of its rooms.
HandleDisconnect(s) ==
  /\ availableRoom' = availableRoom \ {s}
  /\ socketUsers' = socketUsers \ {s}
  /\ userSockets' = IF s \in socketUsers THEN NoSocket ELSE userSockets
  /\ gaps' = IF s \in socketUsers /\ userSockets \notin {s, NoSocket} THEN gaps \cup {"entry"} ELSE gaps

(* The token is refused, the account is not active, or a query fails. *)
RejectConnection(s) ==
  /\ conn[s].step \in {"authenticate", "load"} /\ Connected(s)
  /\ conn' = [conn EXCEPT ![s].state = "gone", ![s].step = "done"]
  /\ HandleDisconnect(s)
  /\ UNCHANGED <<isOnline, statusCall>>

LoseConnection(s) ==
  /\ Open(s)
  /\ conn' = [conn EXCEPT ![s].state = "lost"]
  /\ UNCHANGED <<isOnline, socketUsers, userSockets, availableRoom, statusCall, gaps>>

\* At once, or when the ping times out; the handshake may still be running.
NoticeDisconnect(s) ==
  /\ Connected(s)
  /\ conn' = [conn EXCEPT ![s].state = "gone"]
  /\ HandleDisconnect(s)
  /\ UNCHANGED <<isOnline, statusCall>>

\* A connection of which nothing is left: its id stands for a later one.
Forget(s) ==
  /\ conn[s].state = "gone" /\ conn[s].step = "done"
  /\ s \notin socketUsers /\ userSockets # s
  /\ conn' = [conn EXCEPT ![s] = NoConnection]
  /\ availableRoom' = availableRoom \ {s}
  /\ UNCHANGED <<isOnline, socketUsers, userSockets, statusCall, gaps>>

-----------------------------------------------------------------------------
(* The status: a call writes the row, awaits, and syncs the room.  No lock
   keeps two calls about one driver apart. *)

WriteStatus(r, status) ==
  /\ statusCall[r] = "none"
  /\ statusCall' = [statusCall EXCEPT ![r] = status]
  /\ isOnline' = (status = "online")
  /\ UNCHANGED <<conn, socketUsers, userSockets, availableRoom, gaps>>

\* setOnlineStatus and startDay.
GoOnline(r) == WriteStatus(r, "online")

\* setOnlineStatus, endDay and the inactivity cron.
GoOffline(r) == WriteStatus(r, "offline")

\* Mutant: only sockets that have joined their rooms are found.
JoinedSockets == {s \in Sockets : s = userSockets /\ Connected(s) /\ conn[s].step = "done"}

FoundSockets == {s \in Sockets : s = userSockets /\ Connected(s)}

SyncOnline(r) ==
  /\ statusCall[r] = "online"
  /\ statusCall' = [statusCall EXCEPT ![r] = "none"]
  /\ availableRoom' = availableRoom \cup FoundSockets
  /\ gaps' = gaps \ {"row", "late"}
  /\ UNCHANGED <<isOnline, conn, socketUsers, userSockets>>

SyncOffline(r) ==
  /\ statusCall[r] = "offline"
  /\ statusCall' = [statusCall EXCEPT ![r] = "none"]
  /\ availableRoom' = availableRoom \ FoundSockets
  /\ gaps' = IF isOnline /\ \A other \in StatusCalls : statusCall[other] # "online"
             THEN gaps \cup {"late"} ELSE gaps
  /\ UNCHANGED <<isOnline, conn, socketUsers, userSockets>>

(* A selected offer, the end of a ride and the end of a post each set a status
   of their own, whatever the driver chose meanwhile, and do not sync. *)
StatusByOthers ==
  /\ isOnline' = TRUE
  /\ gaps' = IF isOnline THEN gaps ELSE gaps \cup {"row"}
  /\ UNCHANGED <<conn, socketUsers, userSockets, availableRoom, statusCall>>

PresenceNext ==
  \/ \E s \in Sockets :
       \/ Connect(s) \/ Authenticated(s) \/ ReadDriver(s) \/ JoinRooms(s) \/ RejectConnection(s)
       \/ LoseConnection(s) \/ NoticeDisconnect(s) \/ Forget(s)
  \/ \E r \in StatusCalls : GoOnline(r) \/ GoOffline(r) \/ SyncOnline(r) \/ SyncOffline(r)
  \/ StatusByOthers

PresenceSpec == PresenceInit /\ [][PresenceNext]_presenceVars

-----------------------------------------------------------------------------
(* The columns of the maps, the rooms and the handshakes. *)
PresenceTypeOK ==
  /\ isOnline \in BOOLEAN
  /\ conn \in [Sockets -> Conn]
  /\ socketUsers \subseteq Sockets /\ userSockets \in Sockets \cup {NoSocket}
  /\ availableRoom \subseteq Sockets
  /\ statusCall \in [StatusCalls -> {"none", "online", "offline"}]
  /\ gaps \subseteq {"entry", "row", "late"}

(* Whatever the order of handshakes and changes of status, two of which may
   overlap, a driver who is online hears of new trips on the socket he has, once
   its handshake and the calls that put him online are over: a connection that
   read him offline is found by the call that puts him online (the maps are
   written before the row is read).  Except when his entry went with an older
   socket, others put him online, or a call that took him offline synced after
   the one that put him online again. *)
HearsNewTrips ==
  isOnline /\ gaps = {} /\ (\A r \in StatusCalls : statusCall[r] # "online") =>
    \A s \in Sockets : Open(s) /\ conn[s].step = "done" => s \in availableRoom
=============================================================================
