-------------------------- MODULE LifecycleProofs --------------------------
(***************************************************************************)
(* Proofs about Lifecycle for every set of callers and runner results.    *)
(***************************************************************************)
EXTENDS Lifecycle, TLAPS

(* The six legal states, one by one.                                       *)
LEMMA LegalStatesCases ==
    ASSUME NEW s \in LegalStates
    PROVE  \/ s = {"Closed"}
           \/ s = {"Running"}
           \/ s = {"Running", "Closing"}
           \/ s = {"Closed", "Restarting"}
           \/ s = {"Running", "Restarting"}
           \/ s = {"Running", "Closing", "Restarting"}
BY DEF LegalStates

(* Every transition of state.go but ToClosing keeps a state legal, and    *)
(* ToClosing does when the state is not Closed (the panic in ToClosing).  *)
LEMMA TransitionsLegal ==
    ASSUME NEW s \in LegalStates
    PROVE  /\ ToClosed(s) \in LegalStates
           /\ ToRunning(s) \in LegalStates
           /\ "Closed" \notin s => ToClosing(s) \in LegalStates
           /\ ToRestarting(s) \in LegalStates
           /\ ToRestarted(s) \in LegalStates
<1>1. CASE s = {"Closed"}
  BY <1>1 DEF LegalStates, ToClosed, ToRunning, ToClosing, ToRestarting, ToRestarted
<1>2. CASE s = {"Running"}
  BY <1>2 DEF LegalStates, ToClosed, ToRunning, ToClosing, ToRestarting, ToRestarted
<1>3. CASE s = {"Running", "Closing"}
  BY <1>3 DEF LegalStates, ToClosed, ToRunning, ToClosing, ToRestarting, ToRestarted
<1>4. CASE s = {"Closed", "Restarting"}
  BY <1>4 DEF LegalStates, ToClosed, ToRunning, ToClosing, ToRestarting, ToRestarted
<1>5. CASE s = {"Running", "Restarting"}
  BY <1>5 DEF LegalStates, ToClosed, ToRunning, ToClosing, ToRestarting, ToRestarted
<1>6. CASE s = {"Running", "Closing", "Restarting"}
  BY <1>6 DEF LegalStates, ToClosed, ToRunning, ToClosing, ToRestarting, ToRestarted
<1>7. QED
  BY <1>1, <1>2, <1>3, <1>4, <1>5, <1>6, LegalStatesCases

(* doStart keeps a state legal whatever DoStart returns.                  *)
LEMMA AfterDoStartLegal ==
    ASSUME NEW s \in LegalStates, NEW r \in Errors
    PROVE  AfterDoStart(s, r) \in LegalStates
BY TransitionsLegal DEF AfterDoStart

(* In a legal state, not Closed means Running.                             *)
LEMMA NotClosedIsRunning ==
    ASSUME NEW s \in LegalStates
    PROVE  ("Closed" \notin s) <=> ("Running" \in s)
BY LegalStatesCases

-----------------------------------------------------------------------------
(* First the step: every action keeps TypeOK.                              *)
LEMMA TypeStep == TypeOK /\ [Next]_vars => TypeOK'
  <2> SUFFICES ASSUME TypeOK, [Next]_vars PROVE TypeOK'
    OBVIOUS
  <2> USE LifecycleAssumption
  <2>1. ASSUME NEW c \in Callers, Start(c) PROVE TypeOK'
    BY <2>1, AfterDoStartLegal
       DEF Start, StartWith, StartCheck, BroadcastRunning, Return, TypeOK, Returns
  <2>2. ASSUME NEW c \in Callers, Close(c) PROVE TypeOK'
    <3>1. CASE CloseCheck(state) # "nil"
      BY <2>2, <3>1 DEF Close, CloseCheck, Return, TypeOK, Returns
    <3>2. CASE CloseCheck(state) = "nil"
      <4>1. "Closed" \notin state
        BY <3>2 DEF CloseCheck
      <4>2. ToClosing(state) \in LegalStates
        BY <4>1, TransitionsLegal DEF TypeOK
      <4>3. QED
        BY <2>2, <3>2, <4>2 DEF Close, DoClose, Return, TypeOK, Returns, Pcs
    <3>3. QED
      BY <3>1, <3>2
  <2>3. ASSUME NEW c \in Callers, AddRunningFuture(c) PROVE TypeOK'
    BY <2>3 DEF AddRunningFuture, Return, TypeOK, Returns, Errors, Pcs
  <2>4. ASSUME NEW c \in Callers, AddClosedFutureIfRunning(c) PROVE TypeOK'
    BY <2>4 DEF AddClosedFutureIfRunning, Return, TypeOK, Returns, Errors, Pcs
  <2>5. ASSUME NEW c \in Callers, FutureReturn(c) PROVE TypeOK'
    BY <2>5 DEF FutureReturn, Return, TypeOK, Returns, Pcs
  <2>6. ASSUME NEW c \in Callers, RestartBegin(c) PROVE TypeOK'
    <3>1. ToClosing(ToRestarting(state)) \in LegalStates
          \/ "Running" \notin state
      BY NotClosedIsRunning, TransitionsLegal DEF TypeOK, ToRestarting
    <3>2. \A r \in Errors :
            ToRestarted(AfterDoStart(ToRestarting(state), r)) \in LegalStates
      BY TransitionsLegal, AfterDoStartLegal DEF TypeOK
    <3>3. ToRestarting(state) \in LegalStates
      BY TransitionsLegal DEF TypeOK
    <3>4. QED
      BY <2>6, <3>1, <3>2, <3>3
         DEF RestartBegin, BroadcastRunning, Return, TypeOK, Returns, Pcs
  <2>7. ASSUME NEW c \in Callers, RestartResume(c) PROVE TypeOK'
    <3>1. \A r \in Errors : ToRestarted(AfterDoStart(state, r)) \in LegalStates
      BY TransitionsLegal, AfterDoStartLegal DEF TypeOK
    <3>2. ToRestarted(state) \in LegalStates
      BY TransitionsLegal DEF TypeOK
    <3>3. QED
      BY <2>7, <3>1, <3>2 DEF RestartResume, Return, TypeOK, Returns, Pcs
  <2>8. CASE RunExit
    BY <2>8, TransitionsLegal DEF RunExit, BroadcastClosed, TypeOK
  <2>9. CASE UNCHANGED vars
    BY <2>9 DEF vars, TypeOK
  <2>10. QED
    BY <2>1, <2>2, <2>3, <2>4, <2>5, <2>6, <2>7, <2>8, <2>9 DEF Next

(* The state is always a combination state.go allows, and every variable *)
(* keeps its type, for every set of callers and runner results.           *)
THEOREM TypeCorrect == Spec => []TypeOK
<1>1. Init => TypeOK
  BY DEF Init, TypeOK, LegalStates, Returns, Pcs
<1>2. QED
  BY <1>1, TypeStep, PTL DEF Spec

-----------------------------------------------------------------------------
(* Without Restart, the run goroutine and the Running bit go together.    *)
(* The inductive invariant adds that no caller is inside Restart.          *)
RunnerInv ==
    /\ TypeOK
    /\ RunGoroutineIffRunning
    /\ \A c \in Callers : pc[c] = "restartWait" => c \in Restarters

(* The lifecycle reports Running exactly when one goroutine executes      *)
(* DoRun, for every set of callers, as long as nobody calls Restart (the  *)
(* repository never does; with Restart it fails, see restart_close_hang).  *)
THEOREM RunnerMatchesState ==
    ASSUME Restarters = {}
    PROVE  Spec => []RunGoroutineIffRunning
<1>1. Init => RunnerInv
  BY DEF Init, RunnerInv, TypeOK, RunGoroutineIffRunning, LegalStates,
         Returns, Pcs
<1>2. RunnerInv /\ [Next]_vars => RunnerInv'
  <2> SUFFICES ASSUME RunnerInv, [Next]_vars PROVE RunnerInv'
    OBVIOUS
  <2>0. TypeOK'
    BY TypeStep DEF RunnerInv
  <2>1. ASSUME NEW c \in Callers, Start(c)
        PROVE  RunnerInv'
    BY <2>0, <2>1 DEF Start, StartWith, StartCheck, BroadcastRunning, Return, AfterDoStart,
                     ToRunning, RunnerInv, TypeOK, RunGoroutineIffRunning
  <2>2. ASSUME NEW c \in Callers, Close(c)
        PROVE  RunnerInv'
    BY <2>0, <2>2 DEF Close, DoClose, CloseCheck, ToClosing, Return,
                     RunnerInv, TypeOK, RunGoroutineIffRunning
  <2>3. ASSUME NEW c \in Callers, AddRunningFuture(c)
        PROVE  RunnerInv'
    BY <2>0, <2>3 DEF AddRunningFuture, Return, RunnerInv, TypeOK, RunGoroutineIffRunning
  <2>4. ASSUME NEW c \in Callers, AddClosedFutureIfRunning(c)
        PROVE  RunnerInv'
    BY <2>0, <2>4 DEF AddClosedFutureIfRunning, Return, RunnerInv, TypeOK,
                     RunGoroutineIffRunning
  <2>5. ASSUME NEW c \in Callers, FutureReturn(c)
        PROVE  RunnerInv'
    BY <2>0, <2>5 DEF FutureReturn, Return, RunnerInv, TypeOK, RunGoroutineIffRunning
  <2>6. ASSUME NEW c \in Callers, RestartBegin(c)
        PROVE  RunnerInv'
    BY <2>6 DEF RestartBegin
  <2>7. ASSUME NEW c \in Callers, RestartResume(c)
        PROVE  RunnerInv'
    BY <2>7 DEF RestartResume, RunnerInv
  <2>8. CASE RunExit
    BY <2>0, <2>8 DEF RunExit, BroadcastClosed, ToClosed, RunnerInv, TypeOK,
                     RunGoroutineIffRunning
  <2>9. CASE UNCHANGED vars
    BY <2>9 DEF vars, RunnerInv, TypeOK, RunGoroutineIffRunning
  <2>10. QED
    BY <2>1, <2>2, <2>3, <2>4, <2>5, <2>6, <2>7, <2>8, <2>9 DEF Next
<1>3. RunnerInv => RunGoroutineIffRunning
  BY DEF RunnerInv
<1>4. QED
  BY <1>1, <1>2, <1>3, PTL DEF Spec

-----------------------------------------------------------------------------
(* Future bookkeeping.  WaitersAccounted is inductive together with       *)
(* TypeOK: every action either registers an idle caller's fresh future,   *)
(* fires a whole list and empties it, or lets a caller whose future holds *)
(* a value return.                                                        *)
WaitInv == TypeOK /\ WaitersAccounted

LEMMA WaitStep == WaitInv /\ [Next]_vars => WaitInv'
<1> SUFFICES ASSUME WaitInv, [Next]_vars PROVE WaitInv'
  OBVIOUS
<1> USE LifecycleAssumption
<1>0. TypeOK'
  BY TypeStep DEF WaitInv
<1>1. ASSUME NEW c \in Callers, Start(c) PROVE WaitInv'
  BY <1>0, <1>1 DEF Start, StartWith, StartCheck, BroadcastRunning, Return, AfterDoStart,
                   ToRunning, WaitInv, WaitersAccounted, TypeOK, Errors
<1>2. ASSUME NEW c \in Callers, Close(c) PROVE WaitInv'
  <2>1. CloseCheck(state) = "nil" => "Running" \in state
    BY NotClosedIsRunning DEF CloseCheck, WaitInv, TypeOK
  <2>2. QED
    BY <1>0, <1>2, <2>1 DEF Close, DoClose, ToClosing, Return, WaitInv,
                          WaitersAccounted, TypeOK
<1>3. ASSUME NEW c \in Callers, AddRunningFuture(c) PROVE WaitInv'
  BY <1>0, <1>3 DEF AddRunningFuture, Return, WaitInv, WaitersAccounted, TypeOK
<1>4. ASSUME NEW c \in Callers, AddClosedFutureIfRunning(c) PROVE WaitInv'
  BY <1>0, <1>4 DEF AddClosedFutureIfRunning, Return, WaitInv, WaitersAccounted,
                   TypeOK
<1>5. ASSUME NEW c \in Callers, FutureReturn(c) PROVE WaitInv'
  BY <1>0, <1>5 DEF FutureReturn, Return, WaitInv, WaitersAccounted, TypeOK
<1>6. ASSUME NEW c \in Callers, RestartBegin(c) PROVE WaitInv'
  BY <1>0, <1>6 DEF RestartBegin, BroadcastRunning, Return, AfterDoStart,
                   ToRunning, ToRestarting, ToRestarted, ToClosing, WaitInv,
                   WaitersAccounted, TypeOK, Errors
<1>7. ASSUME NEW c \in Callers, RestartResume(c) PROVE WaitInv'
  BY <1>0, <1>7 DEF RestartResume, Return, AfterDoStart, ToRunning,
                   ToRestarted, WaitInv, WaitersAccounted, TypeOK, Errors
<1>8. CASE RunExit
  BY <1>0, <1>8 DEF RunExit, BroadcastClosed, WaitInv, WaitersAccounted,
                   TypeOK, Errors
<1>9. CASE UNCHANGED vars
  BY <1>9 DEF vars, WaitInv, WaitersAccounted, TypeOK
<1>10. QED
  BY <1>1, <1>2, <1>3, <1>4, <1>5, <1>6, <1>7, <1>8, <1>9 DEF Next

(* Every blocked caller's future is registered in exactly the list that  *)
(* fires it or already holds its value, and registered close futures only *)
(* exist while Running: for every set of callers, Restart included.       *)
THEOREM FuturesAccounted == Spec => []WaitersAccounted
<1>1. Init => WaitInv
  BY DEF Init, WaitInv, WaitersAccounted, TypeOK, LegalStates, Returns, Pcs
<1>2. QED
  BY <1>1, WaitStep, PTL DEF Spec, WaitInv
=============================================================================
