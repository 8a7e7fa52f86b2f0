------------------------------- MODULE Archive -------------------------------
(***************************************************************************)
(* What the recording channel does to its files (cvds-msu/storage/         *)
(* channel.go): ffmpeg writes segments named by the local wall clock into *)
(* <dataDir>/.tmp, the mover (moveTmpToData) moves every segment older     *)
(* than the newest one into the directory of its day, and the deleter     *)
(* (checkAndDelete) removes the expired files of the smallest day         *)
(* directory.  A file is its timestamp: a name that the code parses back  *)
(* into the same time (the default layouts do), in slots of the clock.    *)
(* Each scan-and-act pass of the mover or the deleter is one step: it     *)
(* reads the directory and acts on what it read.                          *)
(***************************************************************************)
EXTENDS Naturals, FiniteSetsExt

CONSTANTS
    MaxTime,        \* the last clock reading explored
    SlotsPerDay,    \* clock slots in a day directory
    Cover           \* the channel's cover: a file older than this expires


ASSUME ArchiveAssumption ==
    /\ MaxTime \in Nat /\ SlotsPerDay \in Nat \ {0}
    /\ Cover \in Nat

Times == 0..MaxTime
NoFile == -1


(* `time.Now().Sub(createTime) > cover`.                                  *)
Expired(t, now) == now - t > Cover

VARIABLES
    now,      \* the local wall clock
    tmp,      \* the segments in .tmp
    data,     \* the segments archived under their day directory
    dirs,     \* the day directories that exist
    writing   \* the segment ffmpeg is writing, or NoFile

vars == <<now, tmp, data, dirs, writing>>

-----------------------------------------------------------------------------
(* Mutants (PROJECT.json "mutants").                                      *)
DayFromOne(t) == t \div SlotsPerDay + 1   \* days counted from one

(* The directory a file is archived under: createTime.Format("2006-01-02").*)
Day(t) == t \div SlotsPerDay

MoveIncludesLatest ==                  \* `!createTime.After(maxTime)`
    /\ tmp # {}
    /\ \E ensured \in SUBSET tmp :
          \E moved \in SUBSET ensured :
             /\ dirs' = dirs \cup {Day(t) : t \in ensured}
             /\ tmp' = tmp \ moved
             /\ data' = data \cup moved
    /\ UNCHANGED <<now, writing>>

-----------------------------------------------------------------------------
(* The newest segment in .tmp: the mover's maxTime.                       *)
Latest == Max(tmp)

Init ==
    /\ now = 0
    /\ tmp = {}
    /\ data = {}
    /\ dirs = {}
    /\ writing = NoFile

(* The clock advances.                                                    *)
Tick ==
    /\ now < MaxTime
    /\ now' = now + 1
    /\ UNCHANGED <<tmp, data, dirs, writing>>

(* ffmpeg opens a new segment, %Y%m%d%H%M%S.<fmt> of the current time      *)
(* (a start by the supervisor or the segmenter's rollover).               *)
SegmentStart ==
    /\ writing # now /\ now \notin tmp \cup data
    /\ tmp' = tmp \cup {now}
    /\ writing' = now
    /\ UNCHANGED <<now, data, dirs>>

(* ffmpeg exits (closed, killed, or lost its source).                     *)
SegmenterExit ==
    /\ writing # NoFile
    /\ writing' = NoFile
    /\ UNCHANGED <<now, tmp, data, dirs>>

(* moveTmpToData: every segment before maxTime gets its day directory     *)
(* ensured and is renamed into it; an EnsureDir or a Rename error skips   *)
(* that file.                                                             *)
moveTmpToData ==
    /\ tmp # {}
    /\ LET older == {t \in tmp : t < Latest}
       IN  \E ensured \in SUBSET older :
              \E moved \in SUBSET ensured :
                 /\ dirs' = dirs \cup {Day(t) : t \in ensured}
                 /\ tmp' = tmp \ moved
                 /\ data' = data \cup moved
    /\ UNCHANGED <<now, writing>>

(* The expiry test of checkAndDelete (line 273).                          *)
IsExpired(t, n) == Expired(t, n)

(* checkAndDelete: find the smallest day directory and remove its expired *)
(* files; nothing else is looked at, and no directory is removed.         *)
checkAndDelete ==
    /\ dirs # {}
    /\ LET minDataDir == Min(dirs)
       IN  data' = data \ {t \in data : Day(t) = minDataDir /\ IsExpired(t, now)}
    /\ UNCHANGED <<now, tmp, dirs, writing>>

Next ==
    \/ Tick
    \/ SegmentStart \/ SegmenterExit
    \/ moveTmpToData \/ checkAndDelete

(* The mover and the deleter run on their timers for as long as the       *)
(* channel runs, and time passes.                                         *)
Fairness == WF_vars(Tick) /\ WF_vars(moveTmpToData) /\ WF_vars(checkAndDelete)

Spec == Init /\ [][Next]_vars /\ Fairness

-----------------------------------------------------------------------------
(* Type invariant.                                                        *)
TypeOK ==
    /\ now \in Times
    /\ tmp \subseteq Times /\ data \subseteq Times
    /\ dirs \subseteq 0..(MaxTime \div SlotsPerDay)
    /\ writing \in Times \cup {NoFile}

(* The segment ffmpeg is writing stays in .tmp: the mover leaves the      *)
(* newest file alone "to avoid racing the segmenter" (spec 4.7, mover     *)
(* comment at line 214).                                                  *)
CurrentNeverMoved ==
    writing # NoFile => writing \in tmp

(* Retention: every archived file that has expired is eventually deleted  *)
(* (spec section 8, property 7).                                          *)
ExpiredEventuallyDeleted ==
    \A t \in Times : (t \in data /\ Expired(t, now)) ~> (t \notin data)
=============================================================================
