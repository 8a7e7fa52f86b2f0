------------------------ MODULE PusherRegistryProofs ------------------------
(***************************************************************************)
(* Proofs about PusherRegistry for every set of requests and paths and    *)
(* every bound on /restart.                                               *)
(***************************************************************************)
EXTENDS PusherRegistry, TLAPS

(* RemovePusher leaves the map a function to pushers or None.             *)
LEMMA RemovePusherType ==
    ASSUME TypeOK, NEW id \in Reqs, RemovePusher(id)
    PROVE  pushers' \in [Paths -> Reqs \cup {None}]
BY DEF RemovePusher, TypeOK

(* Every step keeps the type invariant.                                   *)
LEMMA TypeStep == TypeOK /\ [Next]_vars => TypeOK'
<1> SUFFICES ASSUME TypeOK, [Next]_vars PROVE TypeOK'
  OBVIOUS
<1> USE RegistryAssumption
<1>1. ASSUME NEW r \in Reqs, StreamStartCheck(r) PROVE TypeOK'
  BY <1>1 DEF StreamStartCheck, TypeOK, ReqPcs, udpVars
<1>2. ASSUME NEW r \in Reqs, ClientStart(r) PROVE TypeOK'
  <2>1. PICK t \in Transports, o \in Outcomes, u \in BOOLEAN :
          /\ rpc' = [rpc EXCEPT ![r] = IF o = "ok" THEN "started" ELSE "done"]
          /\ conn' = [conn EXCEPT ![r] = (o # "dialFailed")]
          /\ reading' = [reading EXCEPT ![r] = (o = "ok")]
          /\ IF u THEN SetupUDP(r) ELSE UNCHANGED udpVars
    BY <1>2 DEF ClientStart
  <2>2. /\ udpSrv' \in [Reqs -> BOOLEAN] /\ udpStoped' \in [Reqs -> BOOLEAN]
        /\ udpReading' \in [Reqs -> BOOLEAN]
    BY <2>1 DEF SetupUDP, udpVars, TypeOK
  <2>3. QED
    BY <1>2, <2>1, <2>2 DEF ClientStart, TypeOK, ReqPcs
<1>3. ASSUME NEW r \in Reqs, AddPusher(r) PROVE TypeOK'
  BY <1>3 DEF AddPusher, TypeOK, ReqPcs, udpVars
<1>4. ASSUME NEW id \in Reqs, StreamStop(id) PROVE TypeOK'
  BY <1>4 DEF StreamStop, TypeOK, StopPcs, Stoppers, udpVars
<1>5. ASSUME NEW id \in Reqs, ReadError(id) PROVE TypeOK'
  BY <1>5 DEF ReadError, TypeOK, StopPcs, Stoppers, udpVars
<1>6. ASSUME NEW id \in Reqs, NEW c \in Stoppers, StopCheck(id, c) PROVE TypeOK'
  BY <1>6 DEF StopCheck, TypeOK, StopPcs, udpVars
<1>7. ASSUME NEW id \in Reqs, NEW c \in Stoppers, StopRun(id, c) PROVE TypeOK'
  BY <1>7, RemovePusherType DEF StopRun, TypeOK, StopPcs, udpVars
<1>8. ASSUME NEW id \in Reqs, NEW c \in Stoppers, StopConnCheck(id, c)
      PROVE TypeOK'
  BY <1>8 DEF StopConnCheck, TypeOK, StopPcs, udpVars
<1>9. ASSUME NEW id \in Reqs, NEW c \in Stoppers, StopClose(id, c) PROVE TypeOK'
  <2>1. CASE conn[id]
    BY <1>9, <2>1 DEF StopClose, TypeOK, StopPcs, udpVars
  <2>2. CASE ~conn[id]
    BY <1>9, <2>2 DEF StopClose, TypeOK, StopPcs, udpVars
  <2>3. QED
    BY <2>1, <2>2
<1>10. ASSUME NEW id \in Reqs, NEW c \in Stoppers, StopUdpCheck(id, c)
       PROVE TypeOK'
  BY <1>10 DEF StopUdpCheck, TypeOK, StopPcs, udpVars
<1>11. ASSUME NEW id \in Reqs, NEW c \in Stoppers, StopUdp(id, c) PROVE TypeOK'
  <2>1. CASE udpSrv[id]
    BY <1>11, <2>1 DEF StopUdp, UDPServerStop, TypeOK, StopPcs, udpVars
  <2>2. CASE ~udpSrv[id]
    BY <1>11, <2>2 DEF StopUdp, TypeOK, StopPcs, udpVars
  <2>3. QED
    BY <2>1, <2>2
<1>12. ASSUME NEW id \in Reqs, UdpReaderExit(id) PROVE TypeOK'
  BY <1>12 DEF UdpReaderExit, TypeOK
<1>13. CASE ServerRestart
  BY <1>13 DEF ServerRestart, TypeOK, udpVars
<1>14. CASE UNCHANGED vars
  BY <1>14 DEF vars, TypeOK
<1>15. QED
  BY <1>1, <1>2, <1>3, <1>4, <1>5, <1>6, <1>7, <1>8, <1>9, <1>10, <1>11,
     <1>12, <1>13, <1>14 DEF Next

(* The type invariant holds in every reachable state.                     *)
THEOREM TypeCorrect == Spec => []TypeOK
<1>1. Init => TypeOK
  BY RegistryAssumption DEF Init, TypeOK, Stoppers, StopPcs, ReqPcs
<1>2. QED
  BY <1>1, TypeStep, PTL DEF Spec

=============================================================================
