-------------------------- MODULE ChannelRegistry --------------------------
(***************************************************************************)
(* The MSU channel registry (cvds-msu/service/channel.go) and the HTTP    *)
(* handlers that drive it (cvds-msu/controller/channel.go, and StopAll    *)
(* from the server's OnShutdown hook).  Each registry method holds         *)
(* channelsLock for its whole body and is one step; the handlers run      *)
(* concurrently, one goroutine per request.                               *)
(*                                                                         *)
(* A recording channel is abstracted to what the registry's users can     *)
(* observe of it (the RecordingChannel module has the detail): its        *)
(* lifecycle is closed, running or closing; Start succeeds on a closed,   *)
(* undestroyed channel unless doStart fails; Destroy sets destroyRequest  *)
(* and closes a running channel, waiting until it is closed, but returns  *)
(* the closed error at once on a closed one; the terminal close sets      *)
(* destroyed when destroyRequest is set.                                  *)
(***************************************************************************)
EXTENDS FiniteSets

CONSTANTS
    Reqs,   \* concurrent HTTP requests (handler goroutines)
    Ids,    \* the UUIDs NewChannel may draw
    Names,  \* channel names a request may carry
    None    \* no channel

\* Names is not empty: a channel name is any string.
ASSUME RegistryAssumption == None \notin Ids /\ Names # {}

LcStates == {"closed", "running", "closing"}
ReqPcs == {"idle", "starting", "failRemove", "destroyWait"}
ShutdownPcs == {"serving", "destroyNext", "destroyWait", "done"}

VARIABLES
    used,          \* the UUIDs of the channels created so far
    chName,        \* chName[id]: the channel's name
    channels,      \* the keys of Channel.channels
    channelNames,  \* the keys of Channel.channelNames
    lc,            \* lc[id]: the channel's lifecycle
    destroyRequest,
    destroyed,
    pc,            \* pc[r]: where request r's handler is
    cur,           \* cur[r]: the channel handler r works on
    sdPc,          \* the OnShutdown hook: StopAll, then done
    pending,       \* StopAll's `removed` list, not yet destroyed
    sdCur,         \* the channel StopAll is destroying
    published      \* the UUIDs StartChannel has answered with

chanVars == <<used, chName, lc, destroyRequest, destroyed>>
vars == <<used, chName, channels, channelNames, lc, destroyRequest, destroyed,
          pc, cur, sdPc, pending, sdCur, published>>

-----------------------------------------------------------------------------
(* Mutants (PROJECT.json "mutants").                                      *)
addChannelByName(id) ==                   \* channels keyed by name
    /\ channels' = channels \cup {chName'[id]}
    /\ channelNames' = channelNames \cup {id}
removeChannelKeepsEntry(id) == channels' = channels   \* delete forgotten
DestroyCallNoClose(id) ==                  \* DoClose never reached
    /\ destroyRequest' = [destroyRequest EXCEPT ![id] = TRUE]
    /\ lc' = lc

-----------------------------------------------------------------------------
(* addChannel: refuse a known UUID or a known name (CanAdd); else add the *)
(* channel to channels, and to channelNames under its UUID (line 39).     *)
CanAdd(id, n) == id \notin channels /\ n \notin channelNames
addChannel(id) ==
    /\ channels' = channels \cup {id}
    /\ channelNames' = channelNames \cup {id}

(* removeChannel's effect on the maps when the channel is there: the       *)
(* second delete is on channels again (line 51), so channelNames keeps its *)
(* entry.                                                                 *)
removeChannel(id) == channels' = channels \ {id}

(* Channel.Destroy, up to where CloseWait blocks: destroyRequest := true, *)
(* and a running channel starts closing.  It returns at once (the closed  *)
(* error) when the channel is closed.                                     *)
DestroyCall(id) ==
    /\ destroyRequest' = [destroyRequest EXCEPT ![id] = TRUE]
    /\ lc' = [lc EXCEPT ![id] = IF @ = "running" THEN "closing" ELSE @]

MustWait(id) == lc[id] # "closed"

Init ==
    /\ used = {}
    /\ chName = [id \in Ids |-> CHOOSE n \in Names : TRUE]
    /\ channels = {}
    /\ channelNames = {}
    /\ lc = [id \in Ids |-> "closed"]
    /\ destroyRequest = [id \in Ids |-> FALSE]
    /\ destroyed = [id \in Ids |-> FALSE]
    /\ pc = [r \in Reqs |-> "idle"]
    /\ cur = [r \in Reqs |-> None]
    /\ sdPc = "serving"
    /\ pending = {}
    /\ sdCur = None
    /\ published = {}

(* StartChannel up to CreateChannel: a URL that is not rtsp is refused;   *)
(* else NewChannel draws a fresh UUID and addChannel registers it or the  *)
(* handler answers ChannelExistError.                                     *)
CreateChannel(r, n) ==
    /\ pc[r] = "idle"
    /\ \E id \in Ids \ used :
          /\ used' = used \cup {id}
          /\ chName' = [chName EXCEPT ![id] = n]
          /\ \/ /\ CanAdd(id, n)
                /\ addChannel(id)
                /\ pc' = [pc EXCEPT ![r] = "starting"]
                /\ cur' = [cur EXCEPT ![r] = id]
             \/ /\ ~CanAdd(id, n)
                /\ UNCHANGED <<channels, channelNames, pc, cur>>
    /\ UNCHANGED <<lc, destroyRequest, destroyed, sdPc, pending, sdCur, published>>

(* StartChannel: channel.Start(); on an error, RemoveChannel follows.     *)
StartStep(r) ==
    /\ pc[r] = "starting"
    /\ LET id == cur[r] IN
       \/ /\ lc[id] = "closed" /\ ~destroyed[id]
          /\ lc' = [lc EXCEPT ![id] = "running"]
          /\ pc' = [pc EXCEPT ![r] = "idle"]
          /\ cur' = [cur EXCEPT ![r] = None]
          /\ published' = published \cup {id}
       \/ /\ pc' = [pc EXCEPT ![r] = "failRemove"]
          /\ UNCHANGED <<lc, cur, published>>
    /\ UNCHANGED <<used, chName, channels, channelNames, destroyRequest,
                   destroyed, sdPc, pending, sdCur>>

(* RemoveChannel(id) by request r: removeChannel under the lock, then     *)
(* Destroy; ChannelNotFoundError when the channel is gone.                *)
RemoveChannel(r, id) ==
    \/ /\ id \in channels
       /\ removeChannel(id)
       /\ DestroyCall(id)
       /\ pc' = [pc EXCEPT ![r] = IF MustWait(id) THEN "destroyWait" ELSE "idle"]
       /\ cur' = [cur EXCEPT ![r] = IF MustWait(id) THEN id ELSE None]
    \/ /\ id \notin channels
       /\ pc' = [pc EXCEPT ![r] = "idle"]
       /\ cur' = [cur EXCEPT ![r] = None]
       /\ UNCHANGED <<channels, lc, destroyRequest>>

(* StartChannel's error path: s.svc.RemoveChannel(channel.UUID()).       *)
StartFailRemove(r) ==
    /\ pc[r] = "failRemove"
    /\ RemoveChannel(r, cur[r])
    /\ UNCHANGED <<used, chName, channelNames, destroyed, sdPc, pending, sdCur, published>>

(* StopChannel: RemoveChannel(uuid) for a UUID a client has been given.  *)
StopChannel(r) ==
    /\ pc[r] = "idle"
    /\ \E id \in published : RemoveChannel(r, id)
    /\ UNCHANGED <<used, chName, channelNames, destroyed, sdPc, pending, sdCur, published>>

(* Destroy's CloseWait returns once the channel is closed.                *)
DestroyReturn(r) ==
    /\ pc[r] = "destroyWait" /\ lc[cur[r]] = "closed"
    /\ pc' = [pc EXCEPT ![r] = "idle"]
    /\ cur' = [cur EXCEPT ![r] = None]
    /\ UNCHANGED <<used, chName, channels, channelNames, lc, destroyRequest,
                   destroyed, sdPc, pending, sdCur, published>>

(* A closing channel's doRun finishes: closed, destroyed if requested.    *)
ChannelClosed(id) ==
    /\ lc[id] = "closing"
    /\ lc' = [lc EXCEPT ![id] = "closed"]
    /\ destroyed' = [destroyed EXCEPT ![id] = destroyRequest[id]]
    /\ UNCHANGED <<used, chName, channels, channelNames, destroyRequest,
                   pc, cur, sdPc, pending, sdCur, published>>

(* OnShutdown -> StopAll -> RemoveAll: empty both maps under the lock.    *)
RemoveAll ==
    /\ sdPc = "serving"
    /\ pending' = channels
    /\ channels' = {}
    /\ channelNames' = {}
    /\ sdPc' = "destroyNext"
    /\ UNCHANGED <<chanVars, pc, cur, sdCur, published>>

(* RemoveAll's loop: Destroy the next removed channel, in map order.      *)
RemoveAllDestroy ==
    /\ sdPc = "destroyNext"
    /\ \/ /\ pending = {}
          /\ sdPc' = "done"
          /\ UNCHANGED <<lc, destroyRequest, pending, sdCur>>
       \/ \E id \in pending :
             /\ DestroyCall(id)
             /\ pending' = pending \ {id}
             /\ sdPc' = IF MustWait(id) THEN "destroyWait" ELSE "destroyNext"
             /\ sdCur' = IF MustWait(id) THEN id ELSE None
    /\ UNCHANGED <<used, chName, channels, channelNames, destroyed, pc, cur, published>>

RemoveAllDestroyReturn ==
    /\ sdPc = "destroyWait" /\ lc[sdCur] = "closed"
    /\ sdPc' = "destroyNext"
    /\ sdCur' = None
    /\ UNCHANGED <<used, chName, channels, channelNames, lc, destroyRequest,
                   destroyed, pc, cur, pending, published>>

Next ==
    \/ \E r \in Reqs :
          \/ \E n \in Names : CreateChannel(r, n)
          \/ StartStep(r) \/ StartFailRemove(r) \/ StopChannel(r)
          \/ DestroyReturn(r)
    \/ \E id \in Ids : ChannelClosed(id)
    \/ RemoveAll \/ RemoveAllDestroy \/ RemoveAllDestroyReturn

(* A handler that has work to do is scheduled; a closing channel closes   *)
(* (RecordingChannel shows that under its own fairness).  Requests and    *)
(* the shutdown need not come.                                            *)
Fairness ==
    /\ \A r \in Reqs : WF_vars(StartStep(r)) /\ WF_vars(StartFailRemove(r))
                       /\ WF_vars(DestroyReturn(r))
    /\ \A id \in Ids : WF_vars(ChannelClosed(id))
    /\ WF_vars(RemoveAllDestroy) /\ WF_vars(RemoveAllDestroyReturn)

Spec == Init /\ [][Next]_vars /\ Fairness

-----------------------------------------------------------------------------
(* Type invariant.                                                        *)
TypeOK ==
    /\ used \subseteq Ids /\ chName \in [Ids -> Names]
    /\ channels \subseteq used /\ channelNames \subseteq Ids \cup Names
    /\ lc \in [Ids -> LcStates]
    /\ destroyRequest \in [Ids -> BOOLEAN] /\ destroyed \in [Ids -> BOOLEAN]
    /\ pc \in [Reqs -> ReqPcs] /\ cur \in [Reqs -> Ids \cup {None}]
    /\ sdPc \in ShutdownPcs /\ pending \subseteq used
    /\ sdCur \in Ids \cup {None} /\ published \subseteq used

(* A channel the registry hands out is never one being destroyed: every  *)
(* path that destroys a channel (StopChannel, StartChannel's error path,  *)
(* StopAll) takes it out of the registry first, under the lock, and only *)
(* one of them can take it.                                               *)
RegisteredNotDestroyed ==
    /\ \A id \in channels : ~destroyRequest[id]
    /\ \A r, q \in Reqs :
          r # q /\ pc[r] = "destroyWait" /\ pc[q] = "destroyWait" => cur[r] # cur[q]

(* Every Destroy a handler or StopAll starts returns, and StopAll         *)
(* finishes once it has started.                                          *)
DestroysComplete ==
    /\ \A r \in Reqs : pc[r] = "destroyWait" ~> pc[r] = "idle"
    /\ sdPc = "destroyNext" ~> sdPc = "done"

(* Once StopAll has returned, no recording channel is running: shutdown  *)
(* stops every recording.                                                 *)
ShutdownStopsAll ==
    sdPc = "done" => \A id \in used : lc[id] # "running"
=============================================================================
