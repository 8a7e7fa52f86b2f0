-------------------------- MODULE RecordingChannel --------------------------
(***************************************************************************)
(* The recording channel of cvds-msu/storage/channel.go, composed with the *)
(* lifecycle that drives it.  The channel is the lifecycle's runner:      *)
(*   DoStart = doStart   (ensure the directories; may fail on I/O),       *)
(*   DoRun   = doRun     (three goroutines, then wait for closeSignal),   *)
(*   DoClose = doClose   (send on closeSignal, return nil),               *)
(*   start checker = startChecker (refuse once destroyed).                *)
(* Users call Channel.Start and Channel.Destroy (destroyRequest := true,  *)
(* then CloseWait): these are what the controller's StartChannel,         *)
(* StopChannel and StopAll reach.  The lifecycle part is Lifecycle's own  *)
(* actions, conjoined with what the channel's runner does in them.        *)
(*                                                                         *)
(* doRun is modelled by its control: the mover and the deleter (tasks     *)
(* that loop until their stop channel holds a value), the ffmpeg          *)
(* supervisor (its select over restartTimer, exitChan, ffmpegSignal and   *)
(* killChan), the ffmpeg process itself, and the close sequence.  What    *)
(* the mover and the deleter do to the files is the Archive module.       *)
(***************************************************************************)
EXTENDS Lifecycle

(* The goroutines doRun starts besides the ffmpeg supervisor.             *)
Tasks == {"mover", "deleter"}

(* The ffmpeg process as the supervisor's cmd sees it: none, running,     *)
(* running after an interrupt, running after a kill, or exited with its   *)
(* Wait result sitting in exitChan.                                       *)
Procs == {"none", "alive", "interrupted", "killed", "exited"}

(* What doStart returns to the lifecycle: nil, or the error of parsing    *)
(* the file-name template or of ensuring the root, data or .tmp          *)
(* directory.  Its closing moveTmpToData pass acts on the files only,    *)
(* which is the Archive module's part.                                    *)
doStartResults == {"nil", "err"}

VARIABLES
    destroyRequest,  \* Channel.destroyRequest
    destroyed,       \* Channel.destroyed
    closeSignal,     \* Channel.closeSignal (buffer 1) holds a value
    draining,        \* doRun got the close signal and waits for its goroutines
    task,            \* task[t]: the mover / deleter goroutine is running
    stopChan,        \* stopChan[t]: moverStopChan / deleterStopChan holds a value
    sup,             \* the ffmpeg supervisor goroutine is running
    started,         \* the supervisor's `started`
    closing,         \* the supervisor's `closing`
    timer,           \* restartTimer is armed
    ffmpegSignal,    \* ffmpegSignal (buffer 1) holds the interrupt
    killTimer,       \* the time.AfterFunc that sends on killChan is pending
    killChan,        \* killChan (buffer 1) holds a value
    proc             \* the ffmpeg process

chVars == <<destroyRequest, destroyed, closeSignal, draining, task, stopChan,
            sup, started, closing, timer, ffmpegSignal, killTimer, killChan, proc>>
doRunVars == <<draining, task, stopChan, sup, started, closing, timer,
               ffmpegSignal, killTimer, killChan, proc>>
allVars == <<vars, chVars>>

-----------------------------------------------------------------------------
(* Mutants (PROJECT.json "mutants").                                      *)
SupSignalKeepsOpen ==                  \* `closing = true` forgotten
    /\ sup /\ ffmpegSignal
    /\ ffmpegSignal' = FALSE
    /\ IF ~started
          THEN sup' = FALSE /\ UNCHANGED <<proc, killTimer>>
          ELSE /\ proc' = IF proc = "alive" THEN "interrupted" ELSE proc
               /\ killTimer' = TRUE
               /\ UNCHANGED sup
    /\ UNCHANGED <<vars, destroyRequest, destroyed, closeSignal, draining, task,
                   stopChan, started, closing, timer, killChan>>
SupKillReturns ==                      \* `return` after Kill, not `continue`
    /\ sup /\ killChan
    /\ killChan' = FALSE
    /\ sup' = FALSE
    /\ proc' = IF started /\ proc \in {"alive", "interrupted"} THEN "killed" ELSE proc
    /\ UNCHANGED <<vars, destroyRequest, destroyed, closeSignal, draining, task,
                   stopChan, started, closing, timer, ffmpegSignal, killTimer>>
CloseReceivedKeepsSignal ==            \* the receive does not drain the channel
    /\ nRun = 1 /\ ~draining /\ closeSignal
    /\ draining' = TRUE
    /\ ffmpegSignal' = TRUE
    /\ stopChan' = [t \in Tasks |-> TRUE]
    /\ UNCHANGED <<vars, destroyRequest, destroyed, closeSignal, task, sup, started,
                   closing, timer, killTimer, killChan, proc>>

-----------------------------------------------------------------------------
(* What `go l.run()` starts: doRun and its three goroutines, with fresh    *)
(* stop, signal, exit and kill channels, and restartTimer.Trigger().      *)
SpawnDoRun ==
    /\ draining' = FALSE
    /\ task' = [t \in Tasks |-> TRUE]
    /\ stopChan' = [t \in Tasks |-> FALSE]
    /\ sup' = TRUE
    /\ started' = FALSE
    /\ closing' = FALSE
    /\ timer' = TRUE
    /\ ffmpegSignal' = FALSE
    /\ killTimer' = FALSE
    /\ killChan' = FALSE
    /\ proc' = "none"

ChInit ==
    /\ Init
    /\ destroyRequest = FALSE
    /\ destroyed = FALSE
    /\ closeSignal = FALSE
    /\ draining = FALSE
    /\ task = [t \in Tasks |-> FALSE]
    /\ stopChan = [t \in Tasks |-> FALSE]
    /\ sup = FALSE
    /\ started = FALSE
    /\ closing = FALSE
    /\ timer = FALSE
    /\ ffmpegSignal = FALSE
    /\ killTimer = FALSE
    /\ killChan = FALSE
    /\ proc = "none"

(* Channel.Start: Lifecycle.Start with startChecker's verdict; when it    *)
(* starts the lifecycle, the run goroutine and doRun's goroutines begin.  *)
ChannelStart(c) ==
    /\ StartWith(c, IF destroyed THEN "err" ELSE "nil")
    /\ IF nRun' = nRun + 1 THEN SpawnDoRun ELSE UNCHANGED doRunVars
    /\ UNCHANGED <<destroyRequest, destroyed, closeSignal>>

(* doClose: when the lifecycle's close calls DoClose (the step that adds *)
(* Closing), it sends on closeSignal.                                     *)
doClose == closeSignal' = (closeSignal \/ "Closing" \in state' \ state)

(* Channel.Destroy: set destroyRequest, then CloseWait.                   *)
ChannelDestroy(c) ==
    /\ destroyRequest' = TRUE
    /\ Close(c)
    /\ doClose
    /\ UNCHANGED <<destroyed, doRunVars>>

(* doRun: `<-c.closeSignal`, then send the interrupt to the supervisor    *)
(* and the stop values to the deleter and the mover (buffered, so none    *)
(* of the sends blocks).                                                  *)
CloseReceived ==
    /\ nRun = 1 /\ ~draining /\ closeSignal
    /\ closeSignal' = FALSE
    /\ draining' = TRUE
    /\ ffmpegSignal' = TRUE
    /\ stopChan' = [t \in Tasks |-> TRUE]
    /\ UNCHANGED <<vars, destroyRequest, destroyed, task, sup, started, closing,
                   timer, killTimer, killChan, proc>>

(* The mover or the deleter selects its stop channel and returns.         *)
TaskStop(t) ==
    /\ task[t] /\ stopChan[t]
    /\ task' = [task EXCEPT ![t] = FALSE]
    /\ stopChan' = [stopChan EXCEPT ![t] = FALSE]
    /\ UNCHANGED <<vars, destroyRequest, destroyed, closeSignal, draining, sup,
                   started, closing, timer, ffmpegSignal, killTimer, killChan, proc>>

(* The supervisor's restartTimer case: start ffmpeg, or on a start error  *)
(* re-arm the timer.                                                      *)
SupTimer ==
    /\ sup /\ timer
    /\ \/ /\ proc' = "alive"
          /\ started' = TRUE
          /\ timer' = FALSE
       \/ /\ UNCHANGED <<proc, started, timer>>
    /\ UNCHANGED <<vars, destroyRequest, destroyed, closeSignal, draining, task,
                   stopChan, sup, closing, ffmpegSignal, killTimer, killChan>>

(* The supervisor's exitChan case: ffmpeg has exited; return if closing,  *)
(* else arm restartTimer.                                                 *)
SupExit ==
    /\ sup /\ proc = "exited"
    /\ proc' = "none"
    /\ started' = FALSE
    /\ IF closing THEN sup' = FALSE /\ UNCHANGED timer
                  ELSE timer' = TRUE /\ UNCHANGED sup
    /\ UNCHANGED <<vars, destroyRequest, destroyed, closeSignal, draining, task,
                   stopChan, closing, ffmpegSignal, killTimer, killChan>>

(* The supervisor's ffmpegSignal case: set closing; return when ffmpeg is *)
(* not started, else interrupt it and schedule the kill.                  *)
SupSignal ==
    /\ sup /\ ffmpegSignal
    /\ ffmpegSignal' = FALSE
    /\ closing' = TRUE
    /\ IF ~started
          THEN sup' = FALSE /\ UNCHANGED <<proc, killTimer>>
          ELSE /\ proc' = IF proc = "alive" THEN "interrupted" ELSE proc
               /\ killTimer' = TRUE
               /\ UNCHANGED sup
    /\ UNCHANGED <<vars, destroyRequest, destroyed, closeSignal, draining, task,
                   stopChan, started, timer, killChan>>

(* The supervisor's killChan case: return when ffmpeg is not started,     *)
(* else kill it and keep waiting for its exit.                            *)
SupKill ==
    /\ sup /\ killChan
    /\ killChan' = FALSE
    /\ IF ~started
          THEN sup' = FALSE /\ UNCHANGED proc
          ELSE /\ proc' = IF proc \in {"alive", "interrupted"} THEN "killed" ELSE proc
               /\ UNCHANGED sup
    /\ UNCHANGED <<vars, destroyRequest, destroyed, closeSignal, draining, task,
                   stopChan, started, closing, timer, ffmpegSignal, killTimer>>

(* The interrupt timeout elapses: the AfterFunc sends on killChan.        *)
KillTimerFire ==
    /\ killTimer /\ ~killChan
    /\ killTimer' = FALSE
    /\ killChan' = TRUE
    /\ UNCHANGED <<vars, destroyRequest, destroyed, closeSignal, draining, task,
                   stopChan, sup, started, closing, timer, ffmpegSignal, proc>>

(* ffmpeg exits (unreachable source, interrupt, kill) and the Wait        *)
(* goroutine puts the result in exitChan.                                 *)
ProcExit ==
    /\ proc \in {"alive", "interrupted", "killed"}
    /\ proc' = "exited"
    /\ UNCHANGED <<vars, destroyRequest, destroyed, closeSignal, draining, task,
                   stopChan, sup, started, closing, timer, ffmpegSignal,
                   killTimer, killChan>>

(* doRun's three Done waits succeed, it records the destroy (lines        *)
(* 499-501) and returns nil; run() then does Lifecycle's RunExit.         *)
ChannelRunExit ==
    /\ nRun = 1 /\ draining
    /\ ~sup /\ \A t \in Tasks : ~task[t]
    /\ destroyed' = (destroyed \/ destroyRequest)
    /\ draining' = FALSE
    /\ RunExit
    /\ UNCHANGED <<destroyRequest, closeSignal, task, stopChan, sup, started,
                   closing, timer, ffmpegSignal, killTimer, killChan, proc>>

ChNext ==
    \/ \E c \in Callers :
          \/ ChannelStart(c)
          \/ ChannelDestroy(c)
          \/ FutureReturn(c) /\ UNCHANGED chVars
    \/ CloseReceived
    \/ \E t \in Tasks : TaskStop(t)
    \/ SupTimer
    \/ SupExit
    \/ SupSignal
    \/ SupKill
    \/ KillTimerFire
    \/ ProcExit
    \/ ChannelRunExit

(* Fairness.  Every goroutine that can proceed is eventually scheduled    *)
(* (doRun, the tasks, the supervisor, a caller whose future holds its     *)
(* value); timers fire; a killed process exits.  A running or merely      *)
(* interrupted ffmpeg need not exit, and nobody has to call anything.     *)
ChFairness ==
    /\ \A c \in Callers : WF_allVars(FutureReturn(c) /\ UNCHANGED chVars)
    /\ WF_allVars(CloseReceived)
    /\ \A t \in Tasks : WF_allVars(TaskStop(t))
    /\ WF_allVars(SupExit) /\ WF_allVars(SupSignal) /\ WF_allVars(SupKill)
    /\ WF_allVars(KillTimerFire)
    /\ WF_allVars(proc = "killed" /\ ProcExit)
    /\ WF_allVars(ChannelRunExit)

ChSpec == ChInit /\ [][ChNext]_allVars /\ ChFairness

-----------------------------------------------------------------------------
(* Type invariant of the composition.                                     *)
ChTypeOK ==
    /\ TypeOK
    /\ destroyRequest \in BOOLEAN /\ destroyed \in BOOLEAN
    /\ closeSignal \in BOOLEAN /\ draining \in BOOLEAN
    /\ task \in [Tasks -> BOOLEAN] /\ stopChan \in [Tasks -> BOOLEAN]
    /\ sup \in BOOLEAN /\ started \in BOOLEAN /\ closing \in BOOLEAN
    /\ timer \in BOOLEAN /\ ffmpegSignal \in BOOLEAN
    /\ killTimer \in BOOLEAN /\ killChan \in BOOLEAN
    /\ proc \in Procs

(* doClose's send on closeSignal runs under the lifecycle mutex: if the   *)
(* one-slot buffer were full it would block with the mutex held and hang *)
(* every later call.  A pending close signal always belongs to a run      *)
(* that is Closing and has not consumed it, so the next DoClose, which    *)
(* only happens when not Closing, finds the buffer empty.                 *)
CloseSignalNeverBlocks ==
    closeSignal => ("Closing" \in state /\ nRun = 1 /\ ~draining)

(* When the lifecycle reports the channel closed, no ffmpeg it started is *)
(* still running: the supervisor waits for the process to exit (kill     *)
(* fallback included) before doRun returns.                               *)
NoOrphanFfmpeg ==
    "Running" \notin state => (proc = "none" /\ ~sup)

(* Every Destroy returns: once the close has been requested, the          *)
(* supervisor stops ffmpeg (interrupt, then kill), the tasks stop, doRun  *)
(* returns and the close future fires.                                    *)
DestroyCompletes ==
    \A c \in Callers : pc[c] = "closeWait" ~> pc[c] = "idle"


=============================================================================
