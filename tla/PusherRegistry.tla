---------------------------- MODULE PusherRegistry ----------------------------
(***************************************************************************)
(* The MDU's pulls and its registry of pushers: the StreamStart and       *)
(* StreamStop handlers (cvds-mdu/routers/streams.go), the Server's        *)
(* pushers map (cvds-mdu/rtsp/rtsp-server.go), the RTSP client that a     *)
(* pull runs (Start, startStream, Stop of cvds-mdu/rtsp/client.go) and the *)
(* restart of the RTSP server by /restart (cvds-mdu/main.go), and the UDP *)
(* sockets of a pull in UDP mode (UDPServer of cvds-mdu/rtsp/udp-server.go).*)
(*                                                                         *)
(* Each StreamStart request makes one client and its pusher, named by the *)
(* request.  The RTSP exchange of requestStream is one step that succeeds *)
(* or fails; the read loop is a goroutine that ends when its connection   *)
(* fails, upstream or because Stop closed it.  Pusher is not under src/:  *)
(* as the spec says (sections 2, 4.4), stopping a pusher stops its client *)
(* and the client's stop handler takes the pusher out of the registry.    *)
(***************************************************************************)
EXTENDS Naturals

CONSTANTS
    Reqs,          \* StreamStart requests; each names its client and pusher
    Paths,         \* pusher paths
    None,          \* no pusher
    MaxRestarts    \* /restart calls explored

ASSUME RegistryAssumption ==
    /\ None \notin Reqs
    /\ MaxRestarts \in Nat

\* The goroutines that call Client.Stop: StreamStop (through Pusher.Stop)
\* and the deferred Stop of startStream.
Stoppers == {"api", "reader"}

\* StreamStart's place: "idle" before, "checked" past GetPusher, "started"
\* past client.Start, "done" answered.
ReqPcs == {"idle", "checked", "started", "done"}

\* A Stop call: "idle", "enter" (before `if client.Stopped`), "run" (past
\* it), "conn" (before `if client.Conn != nil`), "close" (inside that if),
\* "udp" (before `if client.UDPServer != nil`), "udpstop" (inside it).
StopPcs == {"idle", "enter", "run", "conn", "close", "udp", "udpstop"}

\* StreamStart's transType, and how requestStream ends: the dial fails,
\* a later request fails, or the stream plays.
Transports == {"tcp", "udp"}
Outcomes == {"dialFailed", "failed", "ok"}

VARIABLES
    pushers,    \* Server.pushers: path -> pusher
    rpc,        \* each StreamStart's place
    rpath,      \* the path each StreamStart asked for
    reading,    \* the client's startStream goroutine runs
    stopped,    \* client.Stopped
    stopPc,     \* each Stop call in progress, per client and caller
    conn,       \* client.Conn is not nil
    udpSrv,     \* client.UDPServer is not nil
    udpStoped,  \* its Stoped flag
    udpReading, \* its socket reader goroutines run
    panicked,   \* the Stop calls that dereferenced a nil client.Conn
    restarts    \* /restart calls so far

vars == <<pushers, rpc, rpath, reading, stopped, stopPc, conn, udpSrv,
          udpStoped, udpReading, panicked, restarts>>
udpVars == <<udpSrv, udpStoped, udpReading>>

Registered(id) == \E p \in Paths : pushers[p] = id

-----------------------------------------------------------------------------
(* Mutants (PROJECT.json "mutants").                                      *)
UDPServerStopKeepsReaders(id) ==      \* Stoped never set
    /\ udpSrv' = [udpSrv EXCEPT ![id] = FALSE]
    /\ UNCHANGED <<udpStoped, udpReading>>
StopCheckInverted(id, c) ==           \* `if !client.Stopped { return }`
    /\ stopPc[id][c] = "enter"
    /\ stopPc' = [stopPc EXCEPT ![id][c] = IF stopped[id] THEN "run" ELSE "idle"]
    /\ UNCHANGED <<pushers, rpc, rpath, reading, stopped, conn, udpVars,
                   panicked, restarts>>

-----------------------------------------------------------------------------
(* RemovePusher: delete the path's entry if it is this pusher.            *)
RemovePusher(id) ==
    pushers' = IF pushers[rpath[id]] = id
               THEN [pushers EXCEPT ![rpath[id]] = None] ELSE pushers

(* GetPusher: the pusher registered at a path, under the read lock.       *)
GetPusher(path) == pushers[path]

(* SetupVideo and SetupAudio: the UDPServer is made, its sockets opened   *)
(* and a reader goroutine started on each.                                 *)
SetupUDP(r) ==
    /\ udpSrv' = [udpSrv EXCEPT ![r] = TRUE]
    /\ udpReading' = [udpReading EXCEPT ![r] = TRUE]
    /\ UNCHANGED udpStoped

(* UDPServer.Stop and `client.UDPServer = nil`: Stoped is set and the     *)
(* sockets closed, which ends the readers' loops.                          *)
UDPServerStop(id) ==
    /\ udpSrv' = [udpSrv EXCEPT ![id] = FALSE]
    /\ udpStoped' = [udpStoped EXCEPT ![id] = TRUE]
    /\ UNCHANGED udpReading

Init ==
    /\ pushers = [p \in Paths |-> None]
    /\ rpc = [r \in Reqs |-> "idle"]
    /\ rpath \in [Reqs -> Paths]
    /\ reading = [r \in Reqs |-> FALSE]
    /\ stopped = [r \in Reqs |-> FALSE]
    /\ stopPc = [r \in Reqs |-> [c \in Stoppers |-> "idle"]]
    /\ conn = [r \in Reqs |-> FALSE]
    /\ udpSrv = [r \in Reqs |-> FALSE]
    /\ udpStoped = [r \in Reqs |-> FALSE]
    /\ udpReading = [r \in Reqs |-> FALSE]
    /\ panicked = {}
    /\ restarts = 0

(* StreamStart up to GetPusher: a path that has a pusher is refused.      *)
StreamStartCheck(r) ==
    /\ rpc[r] = "idle"
    /\ rpc' = [rpc EXCEPT ![r] = IF GetPusher(rpath[r]) # None
                                 THEN "done" ELSE "checked"]
    /\ UNCHANGED <<pushers, rpath, reading, stopped, stopPc, conn, udpVars,
                   panicked, restarts>>

(* client.Start: requestStream dials, sends OPTIONS, DESCRIBE, a SETUP   *)
(* per medium (in UDP mode each SETUP first opens the UDPServer's sockets) *)
(* and PLAY.  A failure answers 400 and leaves what was opened so far:    *)
(* nobody closes client.Conn or stops the UDPServer of a failed client.    *)
(* Success starts `go client.startStream()`.                               *)
ClientStart(r) ==
    /\ rpc[r] = "checked"
    /\ \E t \in Transports, o \in Outcomes, udpOpened \in BOOLEAN :
          /\ udpOpened => (t = "udp" /\ o # "dialFailed")
          /\ o = "ok" => udpOpened = (t = "udp")
          /\ rpc' = [rpc EXCEPT ![r] = IF o = "ok" THEN "started" ELSE "done"]
          /\ conn' = [conn EXCEPT ![r] = (o # "dialFailed")]
          /\ reading' = [reading EXCEPT ![r] = (o = "ok")]
          /\ IF udpOpened THEN SetupUDP(r) ELSE UNCHANGED udpVars
    /\ UNCHANGED <<pushers, rpath, stopped, stopPc, panicked, restarts>>

(* AddPusher: the pusher is registered if its path is still free; its     *)
(* false result is ignored and the handler answers 200 with the ID.       *)
AddPusher(r) ==
    /\ rpc[r] = "started"
    /\ pushers' = IF pushers[rpath[r]] = None
                  THEN [pushers EXCEPT ![rpath[r]] = r] ELSE pushers
    /\ rpc' = [rpc EXCEPT ![r] = "done"]
    /\ UNCHANGED <<rpath, reading, stopped, stopPc, conn, udpVars, panicked,
                   restarts>>

(* StreamStop: a pusher found in the GetPushers snapshot is stopped.      *)
StreamStop(id) ==
    /\ Registered(id)
    /\ stopPc[id]["api"] = "idle"
    /\ stopPc' = [stopPc EXCEPT ![id]["api"] = "enter"]
    /\ UNCHANGED <<pushers, rpc, rpath, reading, stopped, conn, udpVars,
                   panicked, restarts>>

(* startStream returns on a read error (the upstream failed, or Stop      *)
(* closed the connection) and its deferred client.Stop() begins.          *)
ReadError(id) ==
    /\ reading[id]
    /\ reading' = [reading EXCEPT ![id] = FALSE]
    /\ stopPc' = [stopPc EXCEPT ![id]["reader"] = "enter"]
    /\ UNCHANGED <<pushers, rpc, rpath, stopped, conn, udpVars, panicked,
                   restarts>>

(* Client.Stop's `if client.Stopped { return }`: a plain read, not a      *)
(* test-and-set.                                                          *)
StopCheck(id, c) ==
    /\ stopPc[id][c] = "enter"
    /\ stopPc' = [stopPc EXCEPT ![id][c] = IF stopped[id] THEN "idle" ELSE "run"]
    /\ UNCHANGED <<pushers, rpc, rpath, reading, stopped, conn, udpVars,
                   panicked, restarts>>

(* Client.Stop goes on: Stopped = true and the stop handlers (the         *)
(* pusher's: RemovePusher).                                                *)
StopRun(id, c) ==
    /\ stopPc[id][c] = "run"
    /\ stopped' = [stopped EXCEPT ![id] = TRUE]
    /\ RemovePusher(id)
    /\ stopPc' = [stopPc EXCEPT ![id][c] = "conn"]
    /\ UNCHANGED <<rpc, rpath, reading, conn, udpVars, panicked, restarts>>

(* `if client.Conn != nil`.                                                *)
StopConnCheck(id, c) ==
    /\ stopPc[id][c] = "conn"
    /\ stopPc' = [stopPc EXCEPT ![id][c] = IF conn[id] THEN "close" ELSE "udp"]
    /\ UNCHANGED <<pushers, rpc, rpath, reading, stopped, conn, udpVars,
                   panicked, restarts>>

(* `client.connRW.Flush(); client.Conn.Close(); client.Conn = nil`: the    *)
(* Close reads client.Conn again, and panics if another Stop has set it   *)
(* to nil since the test.                                                  *)
StopClose(id, c) ==
    /\ stopPc[id][c] = "close"
    /\ IF conn[id]
         THEN /\ conn' = [conn EXCEPT ![id] = FALSE]
              /\ UNCHANGED panicked
         ELSE /\ panicked' = panicked \cup {<<id, c>>}
              /\ UNCHANGED conn
    /\ stopPc' = [stopPc EXCEPT ![id][c] = IF conn[id] THEN "udp" ELSE "idle"]
    /\ UNCHANGED <<pushers, rpc, rpath, reading, stopped, udpVars, restarts>>

(* `if client.UDPServer != nil`.                                           *)
StopUdpCheck(id, c) ==
    /\ stopPc[id][c] = "udp"
    /\ stopPc' = [stopPc EXCEPT ![id][c] = IF udpSrv[id] THEN "udpstop" ELSE "idle"]
    /\ UNCHANGED <<pushers, rpc, rpath, reading, stopped, conn, udpVars,
                   panicked, restarts>>

(* `client.UDPServer.Stop(); client.UDPServer = nil`: a nil UDPServer, set *)
(* so by another Stop since the test, panics on its Stoped field.          *)
StopUdp(id, c) ==
    /\ stopPc[id][c] = "udpstop"
    /\ IF udpSrv[id]
         THEN /\ UDPServerStop(id)
              /\ UNCHANGED panicked
         ELSE /\ panicked' = panicked \cup {<<id, c>>}
              /\ UNCHANGED udpVars
    /\ stopPc' = [stopPc EXCEPT ![id][c] = "idle"]
    /\ UNCHANGED <<pushers, rpc, rpath, reading, stopped, conn, restarts>>

(* A socket reader of SetupVideo/SetupAudio: `for !s.Stoped`, its read     *)
(* failing on the closed socket once Stop has run.                         *)
UdpReaderExit(id) ==
    /\ udpReading[id] /\ udpStoped[id]
    /\ udpReading' = [udpReading EXCEPT ![id] = FALSE]
    /\ UNCHANGED <<pushers, rpc, rpath, reading, stopped, stopPc, conn,
                   udpSrv, udpStoped, panicked, restarts>>

(* /restart: StopRTSP empties the pushers map (Server.Stop); the clients  *)
(* are not stopped.                                                        *)
ServerRestart ==
    /\ restarts < MaxRestarts
    /\ restarts' = restarts + 1
    /\ pushers' = [p \in Paths |-> None]
    /\ UNCHANGED <<rpc, rpath, reading, stopped, stopPc, conn, udpVars, panicked>>

Next ==
    \/ \E r \in Reqs : StreamStartCheck(r) \/ ClientStart(r) \/ AddPusher(r)
    \/ \E id \in Reqs : StreamStop(id) \/ ReadError(id)
    \/ \E id \in Reqs, c \in Stoppers :
          \/ StopCheck(id, c) \/ StopRun(id, c)
          \/ StopConnCheck(id, c) \/ StopClose(id, c)
          \/ StopUdpCheck(id, c) \/ StopUdp(id, c)
    \/ \E id \in Reqs : UdpReaderExit(id)
    \/ ServerRestart

(* A handler that has started runs to its end, a Stop call completes, and *)
(* a read loop whose connection Stop has closed returns.  Requests, the  *)
(* upstream failing and /restart are not required.                       *)
Fairness ==
    /\ \A r \in Reqs : WF_vars(ClientStart(r)) /\ WF_vars(AddPusher(r))
    /\ \A id \in Reqs : WF_vars(stopped[id] /\ ReadError(id))
    /\ \A id \in Reqs, c \in Stoppers :
          /\ WF_vars(StopCheck(id, c)) /\ WF_vars(StopRun(id, c))
          /\ WF_vars(StopConnCheck(id, c)) /\ WF_vars(StopClose(id, c))
          /\ WF_vars(StopUdpCheck(id, c)) /\ WF_vars(StopUdp(id, c))
    /\ \A id \in Reqs : WF_vars(UdpReaderExit(id))

Spec == Init /\ [][Next]_vars /\ Fairness

-----------------------------------------------------------------------------
(* Type invariant.                                                        *)
TypeOK ==
    /\ pushers \in [Paths -> Reqs \cup {None}]
    /\ rpc \in [Reqs -> ReqPcs]
    /\ rpath \in [Reqs -> Paths]
    /\ reading \in [Reqs -> BOOLEAN] /\ stopped \in [Reqs -> BOOLEAN]
    /\ stopPc \in [Reqs -> [Stoppers -> StopPcs]]
    /\ conn \in [Reqs -> BOOLEAN]
    /\ udpSrv \in [Reqs -> BOOLEAN] /\ udpStoped \in [Reqs -> BOOLEAN]
    /\ udpReading \in [Reqs -> BOOLEAN]
    /\ panicked \subseteq Reqs \X Stoppers
    /\ restarts \in 0..MaxRestarts

(* StreamStop frees the path: once it has found a pusher whose client is *)
(* live, that client is eventually stopped and its pusher out of the     *)
(* registry, even when the read loop's deferred Stop runs at the same    *)
(* time (Client.Stop is not guarded, both calls may run the handlers).    *)
StreamStopFreesPath ==
    \A id \in Reqs :
        (stopPc[id]["api"] = "enter" /\ ~stopped[id])
            ~> (stopped[id] /\ ~Registered(id))

(* A stopped pull lets go of everything it holds: its TCP connection is  *)
(* closed, its read loop returns and its UDP readers end, whichever Stop *)
(* calls ran or panicked (spec section 4.4: Stop closes the connection   *)
(* and the UDP sockets).                                                   *)
StopReleases ==
    \A id \in Reqs :
        stopped[id] ~> (~conn[id] /\ ~reading[id] /\ ~udpReading[id])

(* The registry tracks the pulls: once StreamStart has answered and no   *)
(* Stop is under way, a client is pulling exactly when its pusher is     *)
(* registered, so every running pull can be found and stopped by         *)
(* StreamStop and no path is held by a dead pull (spec section 3: a path *)
(* maps to the live pusher that serves it).                               *)
RegistryTracksPulls ==
    \A r \in Reqs :
        (rpc[r] = "done" /\ \A c \in Stoppers : stopPc[r][c] = "idle")
            => ((reading[r] /\ ~stopped[r]) <=> Registered(r))

(* Client.Stop is idempotent (spec section 4.4): however the calls of    *)
(* StreamStop and of the read loop's deferred Stop interleave, none of   *)
(* them closes a nil connection or stops a nil UDPServer.                 *)
StopNeverPanics ==
    panicked = {}
=============================================================================
