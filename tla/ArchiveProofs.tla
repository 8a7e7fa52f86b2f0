---------------------------- MODULE ArchiveProofs ----------------------------
(***************************************************************************)
(* Proofs about Archive for every clock bound, day length and cover.      *)
(***************************************************************************)
EXTENDS Archive, WellFoundedInduction, TLAPS

(* A non-empty set of clock readings below a bound has a largest element, *)
(* and Max (of FiniteSetsExt) is that element: the mover's maxTime is one *)
(* of the files it scanned.                                                *)
LEMMA MaxOfBounded ==
    ASSUME NEW S \in SUBSET Nat, S # {}, NEW n \in Nat, \A s \in S : s <= n
    PROVE  Max(S) \in S /\ \A s \in S : s <= Max(S)
<1> DEFINE T == {n - s : s \in S}
<1>1. \A s \in S : n - s \in Nat
  OBVIOUS
<1>2. T \subseteq Nat /\ T # {}
  BY <1>1, Zenon
<1>3. PICK m \in T : \A y \in T : ~(<<y, m>> \in OpToRel(<, Nat))
  BY <1>2, WFMin, NatLessThanWellFounded
<1>4. PICK x \in S : m = n - x
  BY <1>3
<1>5. \A s \in S : ~(n - s < m)
  <2> SUFFICES ASSUME NEW s \in S, n - s < m PROVE FALSE
    OBVIOUS
  <2>1. <<n - s, m>> \in OpToRel(<, Nat)
    BY <1>1, <1>2, <1>3 DEF OpToRel
  <2>2. n - s \in T
    OBVIOUS
  <2>3. QED
    BY <2>1, <2>2, <1>3
<1>6. \A s \in S : s <= x
  BY <1>4, <1>5
<1>7. \E y \in S : \A s \in S : y >= s
  BY <1>6
<1>8. QED
  BY <1>7 DEF Max

-----------------------------------------------------------------------------
(* Every file was created at or before the current clock reading.         *)
TimesBelowNow == \A t \in tmp \cup data : t <= now

(* The segment ffmpeg is writing is in .tmp and is the newest file there. *)
WritingNewest == writing # NoFile => writing \in tmp /\ \A t \in tmp : t <= writing

IInv == TypeOK /\ TimesBelowNow /\ WritingNewest

LEMMA InitIInv == Init => IInv
BY ArchiveAssumption DEF Init, IInv, TypeOK, TimesBelowNow, WritingNewest, Times, NoFile

(* A day directory of a file of Times is within the type's bound.         *)
LEMMA DayBound ==
    ASSUME NEW t \in Times
    PROVE  Day(t) \in 0..(MaxTime \div SlotsPerDay)
BY ArchiveAssumption DEF Day, Times

LEMMA IInvStep == IInv /\ [Next]_vars => IInv'
<1> SUFFICES ASSUME IInv, [Next]_vars PROVE IInv'
  OBVIOUS
<1> USE ArchiveAssumption
<1>1. CASE Tick
  BY <1>1 DEF Tick, IInv, TypeOK, TimesBelowNow, WritingNewest, Times
<1>2. CASE SegmentStart
  BY <1>2 DEF SegmentStart, IInv, TypeOK, TimesBelowNow, WritingNewest, Times, NoFile
<1>3. CASE SegmenterExit
  BY <1>3 DEF SegmenterExit, IInv, TypeOK, TimesBelowNow, WritingNewest, Times, NoFile
<1>4. CASE moveTmpToData
  <2> DEFINE older == {t \in tmp : t < Latest}
  <2>a. PICK ensured \in SUBSET older :
             \E moved \in SUBSET ensured :
                /\ dirs' = dirs \cup {Day(t) : t \in ensured}
                /\ tmp' = tmp \ moved
                /\ data' = data \cup moved
    BY <1>4 DEF moveTmpToData
  <2>1. PICK moved \in SUBSET ensured :
             /\ dirs' = dirs \cup {Day(t) : t \in ensured}
             /\ tmp' = tmp \ moved
             /\ data' = data \cup moved
    BY <2>a
  <2>0. now' = now /\ writing' = writing
    BY <1>4 DEF moveTmpToData
  <2>2. tmp' \cup data' = tmp \cup data /\ tmp' \subseteq tmp
    BY <2>1
  <2>3. TypeOK'
    <3>1. \A t \in ensured : Day(t) \in 0..(MaxTime \div SlotsPerDay)
      BY <2>a, DayBound DEF IInv, TypeOK
    <3>2. QED
      BY <2>0, <2>1, <2>2, <3>1 DEF IInv, TypeOK
  <2>4. TimesBelowNow'
    BY <2>0, <2>1, <2>2 DEF IInv, TimesBelowNow
  <2>5. WritingNewest'
    <3>1. SUFFICES ASSUME writing # NoFile PROVE writing \notin moved
      BY <2>0, <2>1, <2>2 DEF IInv, WritingNewest
    <3>2. tmp \subseteq Nat /\ tmp # {} /\ MaxTime \in Nat /\ \A s \in tmp : s <= MaxTime
      BY <3>1 DEF IInv, TypeOK, WritingNewest, Times
    <3>3. Latest \in tmp
      BY <3>2, MaxOfBounded DEF Latest
    <3>4. ~(writing < Latest)
      <4>1. writing \in tmp /\ Latest <= writing
        BY <3>1, <3>3 DEF IInv, WritingNewest
      <4>2. QED
        BY <4>1, <3>2, <3>3
    <3>5. QED
      BY <2>1, <3>4
  <2>6. QED
    BY <2>3, <2>4, <2>5 DEF IInv
<1>5. CASE checkAndDelete
  <2>1. data' \subseteq data /\ UNCHANGED <<now, tmp, dirs, writing>>
    BY <1>5 DEF checkAndDelete
  <2>2. QED
    BY <2>1 DEF IInv, TypeOK, TimesBelowNow, WritingNewest
<1>6. CASE UNCHANGED vars
  BY <1>6 DEF vars, IInv, TypeOK, TimesBelowNow, WritingNewest
<1>7. QED
  BY <1>1, <1>2, <1>3, <1>4, <1>5, <1>6 DEF Next

(* The strengthened invariant holds in every reachable state.             *)
THEOREM IInvHolds == Spec => []IInv
BY InitIInv, IInvStep, PTL DEF Spec

(* Type correctness of the mover, the deleter and the segmenter, for      *)
(* every instance.                                                         *)
THEOREM TypeCorrect == Spec => []TypeOK
BY IInvHolds, PTL DEF IInv

(* moveTmpToData never moves the segment ffmpeg is writing, for every     *)
(* clock bound, day length and cover: it is the newest file in .tmp and  *)
(* the mover takes only files strictly older than the newest.            *)
THEOREM WritingStaysInTmp == Spec => []CurrentNeverMoved
BY IInvHolds, PTL DEF IInv, WritingNewest, CurrentNeverMoved

=============================================================================
