----------------------- MODULE RecordingChannelProofs -----------------------
(***************************************************************************)
(* Proofs about RecordingChannel, the recording channel composed with its *)
(* lifecycle, for every set of callers and runner results.                *)
(***************************************************************************)
EXTENDS RecordingChannel, LifecycleProofs, TLAPS

(* A doRun that has received the close signal belongs to a Closing run.   *)
DrainingClosing == draining => "Closing" \in state /\ nRun = 1

(* Without its supervisor goroutine, no ffmpeg is started or running.     *)
SupHoldsProc == ~sup => ~started /\ proc = "none"

(* The supervisor's `started` is false only while there is no process.    *)
StartedHoldsProc == ~started => proc = "none"

(* Without a run goroutine there is neither a supervisor nor a drain.     *)
IdleRun == nRun = 0 => ~sup /\ ~draining

(* The type of doRun's variables, apart from the lifecycle's.           *)
RunTypeOK ==
    /\ destroyRequest \in BOOLEAN /\ destroyed \in BOOLEAN
    /\ closeSignal \in BOOLEAN /\ draining \in BOOLEAN
    /\ task \in [Tasks -> BOOLEAN] /\ stopChan \in [Tasks -> BOOLEAN]
    /\ sup \in BOOLEAN /\ started \in BOOLEAN /\ closing \in BOOLEAN
    /\ timer \in BOOLEAN /\ ffmpegSignal \in BOOLEAN
    /\ killTimer \in BOOLEAN /\ killChan \in BOOLEAN
    /\ proc \in Procs

(* The parts of the invariant about doRun's goroutines.                  *)
RunParts == DrainingClosing /\ SupHoldsProc /\ StartedHoldsProc /\ IdleRun

ChIInv ==
    /\ TypeOK /\ RunTypeOK /\ RunGoroutineIffRunning
    /\ CloseSignalNeverBlocks /\ RunParts

LEMMA ChTypeSplit == ChTypeOK <=> TypeOK /\ RunTypeOK
BY DEF ChTypeOK, RunTypeOK

LEMMA InitChIInv == ChInit => ChIInv
<1> SUFFICES ASSUME ChInit PROVE ChIInv
  OBVIOUS
<1>1. TypeOK /\ RunGoroutineIffRunning
  BY DEF ChInit, Init, TypeOK, LegalStates, Returns, Pcs, RunGoroutineIffRunning
<1>2. RunTypeOK
  BY DEF ChInit, RunTypeOK, Procs
<1>3. CloseSignalNeverBlocks /\ RunParts
  BY DEF ChInit, Init, CloseSignalNeverBlocks, RunParts, DrainingClosing,
         SupHoldsProc, StartedHoldsProc, IdleRun
<1>4. QED
  BY <1>1, <1>2, <1>3 DEF ChIInv

(* A step of doRun's goroutines leaves the lifecycle's half of ChIInv.    *)
LEMMA LifecycleKept ==
    ASSUME TypeOK, RunGoroutineIffRunning, UNCHANGED vars
    PROVE  TypeOK' /\ RunGoroutineIffRunning'
BY DEF vars, TypeOK, RunGoroutineIffRunning

(* Lifecycle.StartWith with either verdict of the start checker keeps the *)
(* type; a start that spawns no run goroutine leaves state and nRun as     *)
(* they were, and one that does starts from a Closed lifecycle with no     *)
(* run goroutine.                                                         *)
LEMMA StartWithStep ==
    ASSUME TypeOK, RunGoroutineIffRunning, NEW c \in Callers,
           NEW chk \in Errors, StartWith(c, chk)
    PROVE  /\ TypeOK' /\ RunGoroutineIffRunning'
           /\ nRun' # nRun + 1 => state' = state /\ nRun' = nRun
           /\ nRun' = nRun + 1 => nRun = 0 /\ "Closing" \notin state
<1> USE LifecycleAssumption
<1>1. TypeOK'
  BY AfterDoStartLegal
     DEF StartWith, StartCheck, BroadcastRunning, Return, TypeOK, Returns
<1>2. CASE StartCheck(state) # "nil" \/ chk = "err"
  <2>1. state' = state /\ nRun' = nRun
    BY <1>2 DEF StartWith
  <2>2. QED
    BY <1>1, <2>1 DEF RunGoroutineIffRunning
<1>3. CASE StartCheck(state) = "nil" /\ chk = "nil"
  <2>1. "Running" \notin state /\ "Closing" \notin state /\ nRun = 0
    BY <1>3, LegalStatesCases DEF StartCheck, TypeOK, RunGoroutineIffRunning
  <2>2. PICK r \in DoStartResults :
           /\ state' = AfterDoStart(state, r)
           /\ nRun' = IF r = "nil" THEN nRun + 1 ELSE nRun
    BY <1>3 DEF StartWith
  <2>3. QED
    BY <1>1, <2>1, <2>2 DEF AfterDoStart, ToRunning, RunGoroutineIffRunning
<1>4. QED
  BY <1>1, <1>2, <1>3 DEF Errors

(* A step that keeps the lifecycle's variables keeps ChIInv when it keeps *)
(* the type of doRun's variables and the invariants about them.           *)
LEMMA StepKept ==
    ASSUME ChIInv, UNCHANGED vars, RunTypeOK',
           CloseSignalNeverBlocks', RunParts'
    PROVE  ChIInv'
<1>1. TypeOK' /\ RunGoroutineIffRunning'
  BY LifecycleKept DEF ChIInv
<1>2. QED
  BY <1>1 DEF ChIInv

LEMMA ChIInvStep == ChIInv /\ [ChNext]_allVars => ChIInv'
<1> SUFFICES ASSUME ChIInv, [ChNext]_allVars PROVE ChIInv'
  OBVIOUS
<1> USE LifecycleAssumption
<1>0. TypeOK /\ RunTypeOK /\ RunGoroutineIffRunning
  BY DEF ChIInv
<1>1. ASSUME NEW c \in Callers, ChannelStart(c) PROVE ChIInv'
  <2> DEFINE chk == IF destroyed THEN "err" ELSE "nil"
  <2>1. /\ TypeOK' /\ RunGoroutineIffRunning'
        /\ nRun' # nRun + 1 => state' = state /\ nRun' = nRun
        /\ nRun' = nRun + 1 => nRun = 0 /\ "Closing" \notin state
    BY <1>0, <1>1, StartWithStep DEF ChannelStart, Errors
  <2>2. UNCHANGED <<destroyRequest, destroyed, closeSignal>>
    BY <1>1 DEF ChannelStart
  <2>3. CASE nRun' = nRun + 1
    <3>1. SpawnDoRun
      BY <1>1, <2>3 DEF ChannelStart
    <3>2. ~closeSignal
      BY <2>1, <2>3 DEF ChIInv, CloseSignalNeverBlocks
    <3>3. RunTypeOK'
      BY <1>0, <2>2, <3>1 DEF SpawnDoRun, RunTypeOK, Procs
    <3>4. CloseSignalNeverBlocks' /\ RunParts'
      BY <2>1, <2>2, <2>3, <3>1, <3>2
         DEF SpawnDoRun, CloseSignalNeverBlocks, RunParts, DrainingClosing, SupHoldsProc, StartedHoldsProc, IdleRun
    <3>5. QED
      BY <2>1, <3>3, <3>4 DEF ChIInv
  <2>4. CASE nRun' # nRun + 1
    <3>1. UNCHANGED doRunVars
      BY <1>1, <2>4 DEF ChannelStart
    <3>2. RunTypeOK'
      BY <1>0, <2>2, <3>1 DEF doRunVars, RunTypeOK
    <3>3. CloseSignalNeverBlocks' /\ RunParts'
      BY <2>1, <2>2, <2>4, <3>1
         DEF doRunVars, ChIInv, CloseSignalNeverBlocks, RunParts, DrainingClosing, SupHoldsProc, StartedHoldsProc, IdleRun
    <3>4. QED
      BY <2>1, <3>2, <3>3 DEF ChIInv
  <2>5. QED
    BY <2>3, <2>4
<1>2. ASSUME NEW c \in Callers, ChannelDestroy(c) PROVE ChIInv'
  <2>1. TypeOK'
    BY <1>0, <1>2, TypeStep DEF ChannelDestroy, Next
  <2>2. /\ UNCHANGED <<nRun, destroyed, doRunVars>>
        /\ destroyRequest' = TRUE
        /\ closeSignal' = (closeSignal \/ "Closing" \in state' \ state)
        /\ state' \in {state, ToClosing(state)}
        /\ "Closing" \in state' \ state =>
              "Closing" \notin state /\ CloseCheck(state) = "nil"
    BY <1>2 DEF ChannelDestroy, Close, DoClose, doClose
  <2>3. state' = state \/ state' = state \cup {"Closing"}
    BY <2>2 DEF ToClosing
  <2>4. RunGoroutineIffRunning'
    BY <1>0, <2>2, <2>3 DEF RunGoroutineIffRunning
  <2>5. RunTypeOK'
    BY <1>0, <2>2 DEF doRunVars, RunTypeOK
  <2>6. CASE "Closing" \in state' \ state
    <3>1. "Closed" \notin state
      BY <2>2, <2>6 DEF CloseCheck
    <3>2. "Running" \in state /\ nRun = 1 /\ ~draining
      BY <1>0, <2>2, <2>6, <3>1, NotClosedIsRunning
         DEF ChIInv, TypeOK, RunParts, RunGoroutineIffRunning, DrainingClosing
    <3>3. CloseSignalNeverBlocks' /\ RunParts'
      BY <2>2, <2>6, <3>2
         DEF doRunVars, ChIInv, CloseSignalNeverBlocks, RunParts, DrainingClosing, SupHoldsProc, StartedHoldsProc, IdleRun
    <3>4. QED
      BY <2>1, <2>4, <2>5, <3>3 DEF ChIInv
  <2>7. CASE "Closing" \notin state' \ state
    <3>1. state' = state /\ closeSignal' = closeSignal
      <4>1. "Closing" \in state' => "Closing" \in state
        BY <2>7
      <4>2. state' = state
        <5>1. CASE state' = state \cup {"Closing"}
          <6>1. "Closing" \in state
            BY <4>1, <5>1
          <6>2. QED
            BY <5>1, <6>1, Zenon
        <5>2. QED
          BY <5>1, <2>3
      <4>3. QED
        BY <1>0, <2>2, <2>7, <4>2 DEF RunTypeOK
    <3>2. CloseSignalNeverBlocks' /\ RunParts'
      BY <2>2, <3>1
         DEF doRunVars, ChIInv, CloseSignalNeverBlocks, RunParts, DrainingClosing, SupHoldsProc, StartedHoldsProc, IdleRun
    <3>3. QED
      BY <2>1, <2>4, <2>5, <3>2 DEF ChIInv
  <2>8. QED
    BY <2>6, <2>7
<1>3. ASSUME NEW c \in Callers, FutureReturn(c), UNCHANGED chVars PROVE ChIInv'
  <2>1. TypeOK'
    BY <1>0, <1>3, TypeStep DEF Next
  <2>2. UNCHANGED <<state, nRun>>
    BY <1>3 DEF FutureReturn
  <2>3. RunTypeOK' /\ CloseSignalNeverBlocks' /\ RunParts'
    BY <1>0, <1>3, <2>2
       DEF chVars, ChIInv, RunTypeOK, CloseSignalNeverBlocks, RunParts, DrainingClosing, SupHoldsProc, StartedHoldsProc, IdleRun
  <2>4. RunGoroutineIffRunning'
    BY <1>0, <2>2 DEF RunGoroutineIffRunning
  <2>5. QED
    BY <2>1, <2>3, <2>4 DEF ChIInv
<1>4. CASE CloseReceived
  <2>1. UNCHANGED vars /\ state' = state /\ nRun' = nRun
    BY <1>4 DEF CloseReceived, vars
  <2>2. RunTypeOK'
    BY <1>4 DEF CloseReceived, ChIInv, RunTypeOK
  <2>3. CloseSignalNeverBlocks' /\ RunParts'
    BY <1>4, <2>1 DEF CloseReceived, ChIInv,
       CloseSignalNeverBlocks, RunParts, DrainingClosing, SupHoldsProc, StartedHoldsProc, IdleRun
  <2>4. QED
    BY <2>1, <2>2, <2>3, StepKept
<1>5. ASSUME NEW t \in Tasks, TaskStop(t) PROVE ChIInv'
  <2>1. UNCHANGED vars /\ state' = state /\ nRun' = nRun
    BY <1>5 DEF TaskStop, vars
  <2>2. RunTypeOK'
    BY <1>5 DEF TaskStop, ChIInv, RunTypeOK
  <2>3. CloseSignalNeverBlocks' /\ RunParts'
    BY <1>5, <2>1 DEF TaskStop, ChIInv,
       CloseSignalNeverBlocks, RunParts, DrainingClosing, SupHoldsProc, StartedHoldsProc, IdleRun
  <2>4. QED
    BY <2>1, <2>2, <2>3, StepKept
<1>6. CASE SupTimer
  <2>1. UNCHANGED vars /\ state' = state /\ nRun' = nRun
    BY <1>6 DEF SupTimer, vars
  <2>2. RunTypeOK'
    BY <1>6 DEF SupTimer, ChIInv, RunTypeOK, Procs
  <2>a. /\ sup /\ sup' = sup /\ UNCHANGED <<closeSignal, draining>>
        /\ \/ started' = TRUE
           \/ UNCHANGED <<proc, started>>
    BY <1>6 DEF SupTimer
  <2>3. CloseSignalNeverBlocks' /\ RunParts'
    BY <2>a, <2>1 DEF ChIInv,
       CloseSignalNeverBlocks, RunParts, DrainingClosing, SupHoldsProc, StartedHoldsProc, IdleRun
  <2>4. QED
    BY <2>1, <2>2, <2>3, StepKept
<1>7. CASE SupExit
  <2>1. UNCHANGED vars /\ state' = state /\ nRun' = nRun
    BY <1>7 DEF SupExit, vars
  <2>2. RunTypeOK'
    BY <1>7 DEF SupExit, ChIInv, RunTypeOK, Procs
  <2>3. CloseSignalNeverBlocks' /\ RunParts'
    BY <1>7, <2>1 DEF SupExit, ChIInv,
       CloseSignalNeverBlocks, RunParts, DrainingClosing, SupHoldsProc, StartedHoldsProc, IdleRun
  <2>4. QED
    BY <2>1, <2>2, <2>3, StepKept
<1>8. CASE SupSignal
  <2>1. UNCHANGED vars /\ state' = state /\ nRun' = nRun
    BY <1>8 DEF SupSignal, vars
  <2>2. RunTypeOK'
    BY <1>8 DEF SupSignal, ChIInv, RunTypeOK, Procs
  <2>3. CloseSignalNeverBlocks' /\ RunParts'
    BY <1>8, <2>1 DEF SupSignal, ChIInv,
       CloseSignalNeverBlocks, RunParts, DrainingClosing, SupHoldsProc, StartedHoldsProc, IdleRun
  <2>4. QED
    BY <2>1, <2>2, <2>3, StepKept
<1>9. CASE SupKill
  <2>1. UNCHANGED vars /\ state' = state /\ nRun' = nRun
    BY <1>9 DEF SupKill, vars
  <2>2. RunTypeOK'
    BY <1>9 DEF SupKill, ChIInv, RunTypeOK, Procs
  <2>3. CloseSignalNeverBlocks' /\ RunParts'
    BY <1>9, <2>1 DEF SupKill, ChIInv,
       CloseSignalNeverBlocks, RunParts, DrainingClosing, SupHoldsProc, StartedHoldsProc, IdleRun
  <2>4. QED
    BY <2>1, <2>2, <2>3, StepKept
<1>10. CASE KillTimerFire
  <2>1. UNCHANGED vars /\ state' = state /\ nRun' = nRun
    BY <1>10 DEF KillTimerFire, vars
  <2>2. RunTypeOK'
    BY <1>10 DEF KillTimerFire, ChIInv, RunTypeOK
  <2>3. CloseSignalNeverBlocks' /\ RunParts'
    BY <1>10, <2>1 DEF KillTimerFire, ChIInv,
       CloseSignalNeverBlocks, RunParts, DrainingClosing, SupHoldsProc, StartedHoldsProc, IdleRun
  <2>4. QED
    BY <2>1, <2>2, <2>3, StepKept
<1>11. CASE ProcExit
  <2>1. UNCHANGED vars /\ state' = state /\ nRun' = nRun
    BY <1>11 DEF ProcExit, vars
  <2>2. RunTypeOK'
    BY <1>11 DEF ProcExit, ChIInv, RunTypeOK, Procs
  <2>3. CloseSignalNeverBlocks' /\ RunParts'
    BY <1>11, <2>1 DEF ProcExit, ChIInv,
       CloseSignalNeverBlocks, RunParts, DrainingClosing, SupHoldsProc, StartedHoldsProc, IdleRun
  <2>4. QED
    BY <2>1, <2>2, <2>3, StepKept
<1>12. CASE ChannelRunExit
  <2>1. TypeOK'
    BY <1>0, <1>12, TypeStep DEF ChannelRunExit, Next
  <2>2. /\ nRun = 1 /\ draining /\ ~sup /\ ~closeSignal
        /\ state' = {"Closed"} /\ nRun' = 0 /\ draining' = FALSE
        /\ UNCHANGED <<closeSignal, task, stopChan, sup, started, closing,
                       timer, ffmpegSignal, killTimer, killChan, proc,
                       destroyRequest>>
        /\ destroyed' = (destroyed \/ destroyRequest)
    BY <1>12 DEF ChannelRunExit, RunExit, ToClosed, ChIInv,
                 CloseSignalNeverBlocks
  <2>3. RunGoroutineIffRunning'
    BY <2>2 DEF RunGoroutineIffRunning
  <2>4. RunTypeOK'
    BY <1>0, <2>2 DEF RunTypeOK
  <2>5. CloseSignalNeverBlocks' /\ RunParts'
    BY <2>2 DEF ChIInv, CloseSignalNeverBlocks, RunParts, DrainingClosing, SupHoldsProc, StartedHoldsProc, IdleRun
  <2>6. QED
    BY <2>1, <2>3, <2>4, <2>5 DEF ChIInv
<1>13. CASE UNCHANGED allVars
  <2>1. UNCHANGED vars /\ UNCHANGED chVars
    BY <1>13 DEF allVars
  <2>2. RunTypeOK' /\ CloseSignalNeverBlocks' /\ RunParts'
    BY <1>0, <2>1 DEF vars, chVars, ChIInv, RunTypeOK, CloseSignalNeverBlocks, RunParts, DrainingClosing, SupHoldsProc, StartedHoldsProc, IdleRun
  <2>3. QED
    BY <2>1, <2>2, StepKept
<1>14. QED
  BY <1>1, <1>2, <1>3, <1>4, <1>5, <1>6, <1>7, <1>8, <1>9, <1>10, <1>11,
     <1>12, <1>13 DEF ChNext

(* The strengthened invariant holds in every reachable state.             *)
THEOREM ChIInvHolds == ChSpec => []ChIInv
BY InitChIInv, ChIInvStep, PTL DEF ChSpec

(* Type correctness of the channel composed with its lifecycle.          *)
THEOREM ChTypeCorrect == ChSpec => []ChTypeOK
<1>1. ChIInv => ChTypeOK
  BY ChTypeSplit DEF ChIInv
<1>2. QED
  BY <1>1, ChIInvHolds, PTL

(* doClose's send on the one-slot closeSignal, made with the lifecycle    *)
(* mutex held, never finds the buffer full, for every set of callers and *)
(* runner results: a pending signal belongs to the one Closing run that   *)
(* has not drained it, and no second DoClose happens while Closing.      *)
THEOREM CloseSignalFree == ChSpec => []CloseSignalNeverBlocks
BY ChIInvHolds, PTL DEF ChIInv

(* Whenever the lifecycle is not Running, no ffmpeg process and no        *)
(* supervisor goroutine is left: doRun returns only after the supervisor, *)
(* and the supervisor only after its process has exited.                  *)
THEOREM NoOrphanProcess == ChSpec => []NoOrphanFfmpeg
<1>1. ChIInv => NoOrphanFfmpeg
  BY DEF ChIInv, RunParts, RunGoroutineIffRunning, IdleRun, SupHoldsProc, NoOrphanFfmpeg
<1>2. QED
  BY <1>1, ChIInvHolds, PTL
=============================================================================
