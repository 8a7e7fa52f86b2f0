------------------------ MODULE ChannelRegistryProofs ------------------------
(***************************************************************************)
(* Proofs about ChannelRegistry for every set of requests, UUIDs and      *)
(* names.                                                                  *)
(***************************************************************************)
EXTENDS ChannelRegistry, TLAPS

(* A UUID NewChannel has not drawn yet has never been destroyed.          *)
FreshClean == \A id \in Ids \ used : ~destroyRequest[id]

(* A handler that is not idle works on a channel it created or was given. *)
CurUsed == \A r \in Reqs : pc[r] # "idle" => cur[r] \in used

(* A handler waiting in Destroy has taken its channel out of the map.     *)
WaitOffMap == \A r \in Reqs : pc[r] = "destroyWait" => cur[r] \notin channels

(* The channels StopAll still has to destroy are no longer in the map.    *)
PendingOffMap == pending \cap channels = {}

IInv == /\ TypeOK /\ RegisteredNotDestroyed
        /\ FreshClean /\ CurUsed /\ WaitOffMap /\ PendingOffMap

LEMMA InitIInv == Init => IInv
BY RegistryAssumption
   DEF Init, IInv, TypeOK, RegisteredNotDestroyed, FreshClean, CurUsed,
       WaitOffMap, PendingOffMap, LcStates, ReqPcs, ShutdownPcs

(* RemoveChannel, from StopChannel or StartChannel's error path, keeps    *)
(* the invariant: the channel leaves the map in the step that marks it    *)
(* destroyed, so no other handler can reach it afterwards.                *)
LEMMA RemoveChannelStep ==
    ASSUME IInv, NEW r \in Reqs, NEW id \in used, RemoveChannel(r, id),
           UNCHANGED <<used, chName, channelNames, destroyed, sdPc, pending,
                       sdCur, published>>
    PROVE  IInv'
<1>1. CASE id \in channels
  <2>1. /\ channels' = channels \ {id}
        /\ destroyRequest' = [destroyRequest EXCEPT ![id] = TRUE]
        /\ lc' = [lc EXCEPT ![id] = IF @ = "running" THEN "closing" ELSE @]
        /\ pc' = [pc EXCEPT ![r] = IF MustWait(id) THEN "destroyWait" ELSE "idle"]
        /\ cur' = [cur EXCEPT ![r] = IF MustWait(id) THEN id ELSE None]
    BY <1>1 DEF RemoveChannel, removeChannel, DestroyCall
  <2>2. TypeOK'
    BY <2>1 DEF IInv, TypeOK, LcStates, ReqPcs
  <2>3. RegisteredNotDestroyed'
    <3>1. \A x \in channels' : ~destroyRequest'[x]
      BY <2>1 DEF IInv, TypeOK, RegisteredNotDestroyed
    <3>2. \A q \in Reqs : q # r /\ pc'[q] = "destroyWait" => cur'[q] # id
      BY <1>1, <2>1 DEF IInv, TypeOK, WaitOffMap
    <3>3. QED
      BY <2>1, <3>1, <3>2 DEF IInv, TypeOK, RegisteredNotDestroyed
  <2>4. FreshClean' /\ CurUsed' /\ WaitOffMap' /\ PendingOffMap'
    BY <2>1 DEF IInv, TypeOK, FreshClean, CurUsed, WaitOffMap, PendingOffMap
  <2>5. QED
    BY <2>2, <2>3, <2>4 DEF IInv
<1>2. CASE id \notin channels
  <2>1. /\ pc' = [pc EXCEPT ![r] = "idle"]
        /\ cur' = [cur EXCEPT ![r] = None]
        /\ UNCHANGED <<channels, lc, destroyRequest>>
    BY <1>2 DEF RemoveChannel
  <2>2. QED
    BY <2>1 DEF IInv, TypeOK, ReqPcs, RegisteredNotDestroyed, FreshClean,
                CurUsed, WaitOffMap, PendingOffMap
<1>3. QED
  BY <1>1, <1>2

LEMMA IInvStep == IInv /\ [Next]_vars => IInv'
<1> SUFFICES ASSUME IInv, [Next]_vars PROVE IInv'
  OBVIOUS
<1> USE RegistryAssumption
<1>1. ASSUME NEW r \in Reqs, NEW n \in Names, CreateChannel(r, n) PROVE IInv'
  <2>1. PICK id \in Ids \ used :
           /\ used' = used \cup {id}
           /\ chName' = [chName EXCEPT ![id] = n]
           /\ \/ /\ CanAdd(id, n)
                 /\ addChannel(id)
                 /\ pc' = [pc EXCEPT ![r] = "starting"]
                 /\ cur' = [cur EXCEPT ![r] = id]
              \/ /\ ~CanAdd(id, n)
                 /\ UNCHANGED <<channels, channelNames, pc, cur>>
    BY <1>1 DEF CreateChannel
  <2>2. UNCHANGED <<lc, destroyRequest, destroyed, sdPc, pending, sdCur, published>>
    BY <1>1 DEF CreateChannel
  <2>3. \A q \in Reqs : pc[q] # "idle" => cur[q] # id
    BY DEF IInv, CurUsed
  <2>4. CASE CanAdd(id, n)
    <3>1. /\ channels' = channels \cup {id}
          /\ channelNames' = channelNames \cup {id}
          /\ pc' = [pc EXCEPT ![r] = "starting"]
          /\ cur' = [cur EXCEPT ![r] = id]
      BY <2>1, <2>4 DEF addChannel
    <3>2. TypeOK'
      BY <2>1, <2>2, <3>1 DEF IInv, TypeOK, ReqPcs
    <3>3. RegisteredNotDestroyed'
      <4>1. \A x \in channels' : ~destroyRequest'[x]
        BY <2>1, <2>2, <3>1 DEF IInv, FreshClean, RegisteredNotDestroyed
      <4>2. \A q \in Reqs : pc'[q] = "destroyWait" => pc[q] = "destroyWait" /\ cur'[q] = cur[q]
        BY <3>1 DEF IInv, TypeOK
      <4>3. QED
        BY <4>1, <4>2 DEF IInv, RegisteredNotDestroyed
    <3>4. FreshClean' /\ CurUsed' /\ PendingOffMap'
      BY <2>1, <2>2, <3>1 DEF IInv, TypeOK, FreshClean, CurUsed, PendingOffMap
    <3>5. WaitOffMap'
      BY <1>1, <2>3, <3>1 DEF IInv, TypeOK, WaitOffMap
    <3>6. QED
      BY <3>2, <3>3, <3>4, <3>5 DEF IInv
  <2>5. CASE ~CanAdd(id, n)
    BY <2>1, <2>2, <2>5
       DEF IInv, TypeOK, RegisteredNotDestroyed, FreshClean, CurUsed,
           WaitOffMap, PendingOffMap
  <2>6. QED
    BY <2>4, <2>5
<1>2. ASSUME NEW r \in Reqs, StartStep(r) PROVE IInv'
  <2>1. UNCHANGED <<used, chName, channels, channelNames, destroyRequest,
                    destroyed, sdPc, pending, sdCur>>
    BY <1>2 DEF StartStep
  <2>2. cur[r] \in used
    BY <1>2 DEF StartStep, IInv, CurUsed
  <2>3. CASE /\ lc[cur[r]] = "closed" /\ ~destroyed[cur[r]]
             /\ lc' = [lc EXCEPT ![cur[r]] = "running"]
             /\ pc' = [pc EXCEPT ![r] = "idle"]
             /\ cur' = [cur EXCEPT ![r] = None]
             /\ published' = published \cup {cur[r]}
    BY <2>1, <2>2, <2>3
       DEF IInv, TypeOK, LcStates, ReqPcs, RegisteredNotDestroyed,
           FreshClean, CurUsed, WaitOffMap, PendingOffMap
  <2>4. CASE /\ pc' = [pc EXCEPT ![r] = "failRemove"]
             /\ UNCHANGED <<lc, cur, published>>
    BY <1>2, <2>1, <2>2, <2>4
       DEF StartStep, IInv, TypeOK, ReqPcs, RegisteredNotDestroyed,
           FreshClean, CurUsed, WaitOffMap, PendingOffMap
  <2>5. QED
    BY <1>2, <2>3, <2>4 DEF StartStep
<1>3. ASSUME NEW r \in Reqs, StartFailRemove(r) PROVE IInv'
  <2>1. cur[r] \in used
    BY <1>3 DEF StartFailRemove, IInv, CurUsed
  <2>2. QED
    BY <1>3, <2>1, RemoveChannelStep DEF StartFailRemove
<1>4. ASSUME NEW r \in Reqs, StopChannel(r) PROVE IInv'
  <2>1. PICK id \in published : RemoveChannel(r, id)
    BY <1>4 DEF StopChannel
  <2>2. id \in used
    BY DEF IInv, TypeOK
  <2>3. QED
    BY <1>4, <2>1, <2>2, RemoveChannelStep DEF StopChannel
<1>5. ASSUME NEW r \in Reqs, DestroyReturn(r) PROVE IInv'
  BY <1>5 DEF DestroyReturn, IInv, TypeOK, ReqPcs, RegisteredNotDestroyed,
              FreshClean, CurUsed, WaitOffMap, PendingOffMap
<1>6. ASSUME NEW id \in Ids, ChannelClosed(id) PROVE IInv'
  BY <1>6 DEF ChannelClosed, IInv, TypeOK, LcStates, RegisteredNotDestroyed,
              FreshClean, CurUsed, WaitOffMap, PendingOffMap
<1>7. CASE RemoveAll
  BY <1>7 DEF RemoveAll, chanVars, IInv, TypeOK, ShutdownPcs,
              RegisteredNotDestroyed, FreshClean, CurUsed, WaitOffMap,
              PendingOffMap
<1>8. CASE RemoveAllDestroy
  <2>1. UNCHANGED <<used, chName, channels, channelNames, destroyed, pc, cur, published>>
    BY <1>8 DEF RemoveAllDestroy
  <2>2. CASE /\ pending = {}
             /\ sdPc' = "done"
             /\ UNCHANGED <<lc, destroyRequest, pending, sdCur>>
    BY <2>1, <2>2 DEF IInv, TypeOK, ShutdownPcs, RegisteredNotDestroyed,
                      FreshClean, CurUsed, WaitOffMap, PendingOffMap
  <2>3. CASE \E id \in pending :
               /\ DestroyCall(id)
               /\ pending' = pending \ {id}
               /\ sdPc' = IF MustWait(id) THEN "destroyWait" ELSE "destroyNext"
               /\ sdCur' = IF MustWait(id) THEN id ELSE None
    <3>1. PICK id \in pending :
               /\ destroyRequest' = [destroyRequest EXCEPT ![id] = TRUE]
               /\ lc' = [lc EXCEPT ![id] = IF @ = "running" THEN "closing" ELSE @]
               /\ pending' = pending \ {id}
               /\ sdPc' = IF MustWait(id) THEN "destroyWait" ELSE "destroyNext"
               /\ sdCur' = IF MustWait(id) THEN id ELSE None
      BY <2>3 DEF DestroyCall
    <3>2. id \in used /\ id \notin channels
      BY DEF IInv, TypeOK, PendingOffMap
    <3>3. QED
      BY <2>1, <3>1, <3>2
         DEF IInv, TypeOK, LcStates, ShutdownPcs, RegisteredNotDestroyed,
             FreshClean, CurUsed, WaitOffMap, PendingOffMap
  <2>4. QED
    BY <1>8, <2>2, <2>3 DEF RemoveAllDestroy
<1>9. CASE RemoveAllDestroyReturn
  BY <1>9 DEF RemoveAllDestroyReturn, IInv, TypeOK, ShutdownPcs,
              RegisteredNotDestroyed, FreshClean, CurUsed, WaitOffMap,
              PendingOffMap
<1>10. CASE UNCHANGED vars
  BY <1>10 DEF vars, IInv, TypeOK, RegisteredNotDestroyed, FreshClean,
               CurUsed, WaitOffMap, PendingOffMap
<1>11. QED
  BY <1>1, <1>2, <1>3, <1>4, <1>5, <1>6, <1>7, <1>8, <1>9, <1>10 DEF Next

(* The strengthened invariant holds in every reachable state.             *)
THEOREM IInvHolds == Spec => []IInv
BY InitIInv, IInvStep, PTL DEF Spec

(* Type correctness of the registry and its handlers, for every instance. *)
THEOREM TypeCorrect == Spec => []TypeOK
BY IInvHolds, PTL DEF IInv

(* No channel in Channel.channels has been destroyed, and no two handlers *)
(* wait in Destroy on the same channel: StopChannel, StartChannel's error *)
(* path and StopAll each take the channel out of the map under the lock  *)
(* before destroying it, for any number of requests and channels.        *)
THEOREM NeverHandsOutDestroyed == Spec => []RegisteredNotDestroyed
BY IInvHolds, PTL DEF IInv
=============================================================================
