----------------------------- MODULE Lifecycle -----------------------------
(***************************************************************************)
(* The start/run/close state machine of common/lifecycle (lifecycle.go,    *)
(* once-lifecycle.go, state.go).  Every public method takes the lifecycle  *)
(* mutex for its whole critical section, so each critical section is one  *)
(* atomic step here.  Restart is the only method that releases the mutex  *)
(* in the middle: it waits on a close future with the mutex released and  *)
(* takes it again afterwards, so it is two steps (RestartBegin and        *)
(* RestartResume).  The goroutine started by Start runs DoRun and then,   *)
(* under the mutex, moves the state to Closed and fires the closed        *)
(* futures (abstractOnceLifecycle.run): that is RunExit.                  *)
(*                                                                         *)
(* The runner (DoStart, DoRun, DoClose and the start checker) is abstract: *)
(* each returns a nondeterministic member of its result set.              *)
(***************************************************************************)
EXTENDS Naturals

CONSTANTS
    Callers,            \* goroutines calling the public methods
    Restarters,         \* the callers that may call Restart
    StartCheckResults,  \* what the start checker may return
    DoStartResults,     \* what the runner's DoStart may return
    DoRunResults,       \* what the runner's DoRun may return
    DoCloseResults      \* what the runner's DoClose may return

(* An error value is nil or some error; the runner's results are such.    *)
Errors == {"nil", "err"}

ASSUME LifecycleAssumption ==
    /\ Restarters \subseteq Callers
    /\ StartCheckResults \subseteq Errors /\ StartCheckResults # {}
    /\ DoStartResults \subseteq Errors /\ DoStartResults # {}
    /\ DoRunResults \subseteq Errors /\ DoRunResults # {}
    /\ DoCloseResults \subseteq Errors /\ DoCloseResults # {}

(* The bits of State (state.go): a state is the set of its bits.          *)
Flags == {"Closed", "Running", "Closing", "Restarting"}

(* The combinations state.go allows: Closed conflicts with Running and    *)
(* Closing, Closing must coexist with Running, Restarting with anything.  *)
LegalStates ==
    LET base == {{"Closed"}, {"Running"}, {"Running", "Closing"}}
    IN  base \cup {s \cup {"Restarting"} : s \in base}

(* A value a caller gets back: an error from the runner, a StateError by  *)
(* its TypeId (error.go), or "none" before the caller's first call.       *)
Returns == Errors \cup {"none", "StateRunningErrorTypeId",
                        "StateRestartingErrorTypeId",
                        "StateClosingErrorTypeId", "StateClosedErrorTypeId"}

(* What a caller is blocked on: nothing, a future of AddRunningFuture,   *)
(* the future CloseWait passed to Close, one of AddClosedFutureIfRunning, *)
(* or Restart's own close future.                                         *)
Pcs == {"idle", "runningWait", "closeWait", "closedWait", "restartWait"}

VARIABLES
    state,           \* abstractOnceLifecycle.State
    nRun,            \* goroutines executing run(), i.e. DoRun
    runningFutures,  \* abstractLifecycle.runningFutures: whose future is in it
    closedFutures,   \* abstractOnceLifecycle.closedFutures
    fut,             \* fut[c]: the value buffered in c's future channel
    pc,              \* what each caller is doing
    ret              \* ret[c]: what c's last call returned

vars == <<state, nRun, runningFutures, closedFutures, fut, pc, ret>>

-----------------------------------------------------------------------------
(* Mutants: each is a plausible slip in the code next to it, used to show *)
(* that a property can fail (PROJECT.json "mutants").                     *)
ToClosedKeepsBits(s) == s \cup {"Closed"}      \* `*s |= StateClosed`
StartCheckNoRunning(s) ==                      \* running check dropped
    IF "Restarting" \in s THEN "StateRestartingErrorTypeId" ELSE "nil"
BroadcastClosedKeepList(e) ==                  \* list not truncated
    /\ fut' = [c \in Callers |-> IF c \in closedFutures THEN e ELSE fut[c]]
    /\ UNCHANGED closedFutures
RunExitOffByOne ==                             \* `nRun > 1`
    /\ nRun > 1
    /\ \E e \in DoRunResults :
          /\ state' = {"Closed"}
          /\ fut' = [c \in Callers |-> IF c \in closedFutures THEN e ELSE fut[c]]
          /\ closedFutures' = {}
    /\ nRun' = nRun - 1
    /\ UNCHANGED <<runningFutures, pc, ret>>

-----------------------------------------------------------------------------
(* State transitions of state.go.                                          *)
ToClosed(s) == {"Closed"}
ToRunning(s) == (s \ {"Closed"}) \cup {"Running"}
ToClosing(s) == s \cup {"Closing"}
ToRestarting(s) == s \cup {"Restarting"}
ToRestarted(s) == s \ {"Restarting"}

(* The state after doStart when DoStart returned r.                       *)
AfterDoStart(s, r) == IF r = "nil" THEN ToRunning(s) ELSE s

(* broadcastRunning(r): send r to every running future and empty the list.*)
BroadcastRunning(r) ==
    /\ fut' = [c \in Callers |-> IF c \in runningFutures THEN r ELSE fut[c]]
    /\ runningFutures' = {}

(* broadcastClosed(e) likewise for the closed futures.                     *)
BroadcastClosed(e) ==
    /\ fut' = [c \in Callers |-> IF c \in closedFutures THEN e ELSE fut[c]]
    /\ closedFutures' = {}

Return(c, v) == ret' = [ret EXCEPT ![c] = v]

(* startCheck(): the StateError a start is refused with, or "nil".         *)
StartCheck(s) ==
    IF "Restarting" \in s THEN "StateRestartingErrorTypeId"
    ELSE IF "Running" \in s THEN "StateRunningErrorTypeId"
    ELSE "nil"

(* closeCheck(): NewStateClosedError builds its error with                *)
(* StateClosingErrorTypeId (error.go line 35), and that is what a close   *)
(* of a closed lifecycle returns.                                         *)
CloseCheck(s) ==
    IF "Restarting" \in s THEN "StateRestartingErrorTypeId"
    ELSE IF "Closed" \in s THEN "StateClosingErrorTypeId"
    ELSE "nil"

-----------------------------------------------------------------------------
Init ==
    /\ state = {"Closed"}
    /\ nRun = 0
    /\ runningFutures = {}
    /\ closedFutures = {}
    /\ fut = [c \in Callers |-> "none"]
    /\ pc = [c \in Callers |-> "idle"]
    /\ ret = [c \in Callers |-> "none"]

(* Start(): start() under the mutex, then `go l.run()`, when the start   *)
(* checker returns chk.  A refusal by startCheck or by the checker        *)
(* changes nothing; a DoStart error is broadcast to the running futures.  *)
StartWith(c, chk) ==
    /\ pc[c] = "idle"
    /\ \/ /\ StartCheck(state) # "nil"
          /\ Return(c, StartCheck(state))
          /\ UNCHANGED <<state, nRun, runningFutures, closedFutures, fut>>
       \/ /\ StartCheck(state) = "nil"
          /\ chk = "err"
          /\ Return(c, "err")
          /\ UNCHANGED <<state, nRun, runningFutures, closedFutures, fut>>
       \/ /\ StartCheck(state) = "nil"
          /\ chk = "nil"
          /\ \E r \in DoStartResults :
                /\ state' = AfterDoStart(state, r)
                /\ BroadcastRunning(r)
                /\ nRun' = IF r = "nil" THEN nRun + 1 ELSE nRun
                /\ Return(c, r)
                /\ UNCHANGED closedFutures
    /\ UNCHANGED pc

(* The lifecycle's start checker is abstract: any of its results.         *)
Start(c) == \E chk \in StartCheckResults : StartWith(c, chk)

(* doClose(future) with c's future: coalesce onto a close in progress, or *)
(* call DoClose, move to Closing and register the future.  `wait` is the  *)
(* pc the caller blocks in.                                               *)
DoClose(c, wait) ==
    \/ /\ "Closing" \in state
       /\ closedFutures' = closedFutures \cup {c}
       /\ pc' = [pc EXCEPT ![c] = wait]
       /\ UNCHANGED <<state, ret>>
    \/ /\ "Closing" \notin state
       /\ \E r \in DoCloseResults :
             \/ /\ r = "err"
                /\ Return(c, "err")
                /\ UNCHANGED <<state, closedFutures, pc>>
             \/ /\ r = "nil"
                /\ state' = ToClosing(state)
                /\ closedFutures' = closedFutures \cup {c}
                /\ pc' = [pc EXCEPT ![c] = wait]
                /\ UNCHANGED ret

(* CloseWait(): Close(future) under the mutex, then block on the future.  *)
(* A refused close returns its StateError at once.                        *)
Close(c) ==
    /\ pc[c] = "idle"
    /\ \/ /\ CloseCheck(state) # "nil"
          /\ Return(c, CloseCheck(state))
          /\ UNCHANGED <<state, closedFutures, pc>>
       \/ /\ CloseCheck(state) = "nil"
          /\ DoClose(c, "closeWait")
    /\ UNCHANGED <<nRun, runningFutures, fut>>

(* AddRunningFuture(nil): nil when already running, else a fresh future   *)
(* the caller then waits on.                                              *)
AddRunningFuture(c) ==
    /\ pc[c] = "idle"
    /\ \/ /\ "Running" \in state
          /\ Return(c, "nil")
          /\ UNCHANGED <<runningFutures, pc>>
       \/ /\ "Running" \notin state
          /\ runningFutures' = runningFutures \cup {c}
          /\ pc' = [pc EXCEPT ![c] = "runningWait"]
          /\ UNCHANGED ret
    /\ UNCHANGED <<state, nRun, closedFutures, fut>>

(* AddClosedFutureIfRunning(nil): nil unless running, else a fresh future *)
(* the caller then waits on.                                              *)
AddClosedFutureIfRunning(c) ==
    /\ pc[c] = "idle"
    /\ \/ /\ "Running" \notin state
          /\ Return(c, "nil")
          /\ UNCHANGED <<closedFutures, pc>>
       \/ /\ "Running" \in state
          /\ closedFutures' = closedFutures \cup {c}
          /\ pc' = [pc EXCEPT ![c] = "closedWait"]
          /\ UNCHANGED ret
    /\ UNCHANGED <<state, nRun, runningFutures, fut>>

(* A blocked caller receives the value sent to its future and returns it. *)
FutureReturn(c) ==
    /\ pc[c] \in {"runningWait", "closeWait", "closedWait"}
    /\ fut[c] # "none"
    /\ Return(c, fut[c])
    /\ fut' = [fut EXCEPT ![c] = "none"]
    /\ pc' = [pc EXCEPT ![c] = "idle"]
    /\ UNCHANGED <<state, nRun, runningFutures, closedFutures>>

(* run(): DoRun returns e; then, under the mutex, ToClosed and            *)
(* broadcastClosed(e).                                                    *)
RunExit ==
    /\ nRun > 0
    /\ \E e \in DoRunResults :
          /\ state' = ToClosed(state)
          /\ BroadcastClosed(e)
    /\ nRun' = nRun - 1
    /\ UNCHANGED <<runningFutures, pc, ret>>

(* Restart(), up to the point where it releases the mutex to wait on its  *)
(* close future; when not running it completes here with doStart, and    *)
(* no goroutine runs DoRun afterwards (Restart never calls `go l.run()`). *)
RestartBegin(c) ==
    /\ c \in Restarters
    /\ pc[c] = "idle"
    /\ \/ /\ "Restarting" \in state
          /\ Return(c, "StateRestartingErrorTypeId")
          /\ UNCHANGED <<state, runningFutures, closedFutures, fut, pc>>
       \/ /\ "Restarting" \notin state
          /\ "Running" \in state
          /\ \/ /\ "Closing" \in state
                /\ state' = ToRestarting(state)
                /\ closedFutures' = closedFutures \cup {c}
                /\ pc' = [pc EXCEPT ![c] = "restartWait"]
                /\ UNCHANGED ret
             \/ /\ "Closing" \notin state
                /\ \E r \in DoCloseResults :
                      \/ /\ r = "err"
                         /\ Return(c, "err")
                         /\ UNCHANGED <<state, closedFutures, pc>>
                      \/ /\ r = "nil"
                         /\ state' = ToClosing(ToRestarting(state))
                         /\ closedFutures' = closedFutures \cup {c}
                         /\ pc' = [pc EXCEPT ![c] = "restartWait"]
                         /\ UNCHANGED ret
          /\ UNCHANGED <<runningFutures, fut>>
       \/ /\ "Restarting" \notin state
          /\ "Running" \notin state
          /\ \E r \in DoStartResults :
                /\ state' = ToRestarted(AfterDoStart(ToRestarting(state), r))
                /\ BroadcastRunning(r)
                /\ Return(c, r)
          /\ UNCHANGED <<closedFutures, pc>>
    /\ UNCHANGED nRun

(* The rest of Restart(): receive the close future, take the mutex again, *)
(* and either give up on a DoRun error or doStart; clear Restarting.      *)
RestartResume(c) ==
    /\ pc[c] = "restartWait"
    /\ fut[c] # "none"
    /\ \/ /\ fut[c] = "err"
          /\ state' = ToRestarted(state)
          /\ fut' = [fut EXCEPT ![c] = "none"]
          /\ Return(c, "err")
          /\ UNCHANGED runningFutures
       \/ /\ fut[c] = "nil"
          /\ \E r \in DoStartResults :
                /\ state' = ToRestarted(AfterDoStart(state, r))
                /\ fut' = [x \in Callers |->
                              IF x = c THEN "none"
                              ELSE IF x \in runningFutures THEN r ELSE fut[x]]
                /\ runningFutures' = {}
                /\ Return(c, r)
    /\ pc' = [pc EXCEPT ![c] = "idle"]
    /\ UNCHANGED <<nRun, closedFutures>>

-----------------------------------------------------------------------------
Next ==
    \/ \E c \in Callers :
          \/ Start(c)
          \/ Close(c)
          \/ AddRunningFuture(c)
          \/ AddClosedFutureIfRunning(c)
          \/ FutureReturn(c)
          \/ RestartBegin(c)
          \/ RestartResume(c)
    \/ RunExit

(* Fairness.  A goroutine whose future holds a value is runnable and is  *)
(* eventually scheduled.  DoRun is assumed to return once DoClose has     *)
(* been called: that is the contract the runner's DoClose implements (the *)
(* recording channel's doClose signals its doRun to stop).  The callers'  *)
(* own calls are not fair: nobody has to call anything.                   *)
Fairness ==
    /\ \A c \in Callers : WF_vars(FutureReturn(c)) /\ WF_vars(RestartResume(c))
    /\ WF_vars("Closing" \in state /\ RunExit)

Spec == Init /\ [][Next]_vars /\ Fairness

-----------------------------------------------------------------------------
(* Type invariant; the state is always a combination state.go allows.     *)
TypeOK ==
    /\ state \in LegalStates
    /\ nRun \in Nat
    /\ runningFutures \subseteq Callers
    /\ closedFutures \subseteq Callers
    /\ fut \in [Callers -> Errors \cup {"none"}]
    /\ pc \in [Callers -> Pcs]
    /\ ret \in [Callers -> Returns]

(* The lifecycle reports Running exactly when one goroutine is executing *)
(* DoRun, and never more than one: Start must not spawn a second run       *)
(* goroutine, and run's ToClosed must leave no Running state behind.      *)
RunGoroutineIffRunning ==
    /\ nRun \in {0, 1}
    /\ ("Running" \in state) <=> (nRun = 1)

(* Every blocked caller's future is accounted for: it is registered in    *)
(* exactly the list that will fire it or already holds its value, never   *)
(* both (a second send to the one-slot channel would block broadcast      *)
(* while it holds the mutex) and never neither (the caller would hang).   *)
(* Registered closed futures exist only while the lifecycle is Running.   *)
WaitersAccounted ==
    /\ \A c \in Callers :
          /\ pc[c] = "idle" =>
                c \notin runningFutures \cup closedFutures /\ fut[c] = "none"
          /\ pc[c] = "runningWait" =>
                /\ c \notin closedFutures
                /\ (c \in runningFutures) # (fut[c] # "none")
          /\ pc[c] \in {"closeWait", "closedWait", "restartWait"} =>
                /\ c \notin runningFutures
                /\ (c \in closedFutures) # (fut[c] # "none")
    /\ closedFutures # {} => "Running" \in state

(* Every CloseWait returns: the close future of a caller that closed the  *)
(* lifecycle (or joined a close in progress) is eventually fired.         *)
CloseWaitCompletes ==
    \A c \in Callers : pc[c] = "closeWait" ~> pc[c] = "idle"


=============================================================================
