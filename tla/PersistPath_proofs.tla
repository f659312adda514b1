--------------------------- MODULE PersistPath_proofs ---------------------------
(* Kept footage is not lost and rows are good, for every set of segments, start    *)
(* times and circumstances, faults and crashes included.                            *)
EXTENDS PersistPath, WellFoundedInduction, TLAPS

Copying == {"copying", "copied", "indexed"}
InHands == listed \cup ring \cup queue \cup retries \cup fresh \cup drop
Todos == retries \cup fresh

\* Whatever holds a segment holds one of its start time that was recorded.
FilesOK ==
    /\ \A k \in Starts : cache[k] # None => cache[k] \in recorded /\ StartOf[cache[k]] = k
    /\ \A n \in Names : live[n] # None => live[n].seg \in recorded /\ StartOf[live[n].seg] = n[1]
    /\ \A n \in Names : archive[n] # None => archive[n].seg \in recorded /\ StartOf[archive[n].seg] = n[1]
    /\ \A k \in Starts : row[k] # None => row[k].name[1] = k

\* The copy under way and the one left behind have a file each, whole once it is copied.
CopyOK ==
    /\ pc \in Copying => cur \in Todos /\ dst \in Names /\ dst[1] = StartOf[cur] /\ live[dst] # None
    /\ pc \notin Copying => dst = None
    /\ pc = "copying" => ~live[dst].whole /\ ~live[dst].synced
    /\ pc \in {"copied", "indexed"} => live[dst].whole
    /\ bg # None => live[bg] # None /\ bg # dst
    /\ pc \in {"down", "idle"} => Todos = {} /\ drop = {}
    /\ pc = "down" => ring = {} /\ listed = {}

\* A segment is in one list at a time.
HandsOK ==
    /\ listed \cap (ring \cup queue \cup Todos \cup drop) = {}
    /\ ring \cap (queue \cup Todos \cup drop) = {}
    /\ queue \cap (Todos \cup drop) = {}
    /\ Todos \cap drop = {}

BaseInv == TypeOK /\ FilesOK /\ CopyOK /\ HandsOK

\* What the circumstances are, and that they tell a name, a segment and a file from None.
LEMMA Circumstances ==
    ASSUME TypeOK
    PROVE  /\ StartOf \in [Segments -> Starts]
           /\ None \notin Segments /\ None \notin Names /\ None \notin File
BY PersistAssumption DEF TypeOK, Setting, StartOf, Names, File

\* A set of numbers has a least one.
LEMMA LeastNatural ==
    ASSUME NEW S, S \subseteq Nat, S # {}
    PROVE  \E i \in S : \A j \in S : i <= j
<1>1. PICK i \in S : \A j \in S : ~(<<j, i>> \in OpToRel(<, Nat))
  BY NatLessThanWellFounded, WFMin
<1>2. \A j \in S : ~(j < i)
  BY <1>1 DEF OpToRel
<1> QED BY <1>2

\* The name chosen is one of the start time and free; a suffix means the plain name is taken.
LEMMA DstIsFree ==
    ASSUME TypeOK, NEW k \in Starts, HasRoom(k)
    PROVE  /\ DstFor(k) \in Names /\ DstFor(k)[1] = k /\ ~Taken(DstFor(k))
           /\ Collided(DstFor(k)) <=> Taken(<<k, 0>>)
<1>1. CASE ~Taken(<<k, 0>>)
  BY <1>1, PersistAssumption DEF DstFor, Names, Collided
<1>2. CASE Taken(<<k, 0>>)
  <2>1. FreeSuffixes(k) # {} /\ FreeSuffixes(k) \subseteq Nat
      BY <1>2 DEF HasRoom, FreeSuffixes
  <2>2. \E i \in FreeSuffixes(k) : \A j \in FreeSuffixes(k) : i <= j
      BY <2>1, LeastNatural
  <2>3. PICK i \in FreeSuffixes(k) : DstFor(k) = <<k, i>>
      BY <1>2, <2>2 DEF DstFor
  <2>4. i \in 1..MaxSuffix /\ ~Taken(<<k, i>>)
      BY <2>3 DEF FreeSuffixes
  <2> QED BY <1>2, <2>3, <2>4, PersistAssumption DEF Names, Collided
<1> QED BY <1>1, <1>2

LEMMA InitBase == Init => BaseInv
<1> SUFFICES ASSUME Init PROVE BaseInv
    OBVIOUS
<1>1. TypeOK
  BY PersistAssumption DEF Init, TypeOK, Steps
<1> QED BY <1>1 DEF Init, BaseInv, FilesOK, CopyOK, HandsOK, Copying, Todos

-----------------------------------------------------------------------------

\* ffmpeg and the verdict.
LEMMA RecordKeepsBase ==
    ASSUME BaseInv, NEW s \in Segments, Record(s), UNCHANGED setting
    PROVE  BaseInv'
<1> USE DEF BaseInv
<1>0. StartOf' = StartOf /\ StartOf[s] \in Starts
  BY Circumstances DEF StartOf
<1>1. TypeOK'
  BY <1>0 DEF Record, TypeOK, work, disk
<1>2. FilesOK'
  BY <1>0 DEF Record, TypeOK, FilesOK, disk
<1>3. CopyOK' /\ HandsOK'
  BY <1>0 DEF Record, TypeOK, CopyOK, HandsOK, Copying, Todos, work, disk
<1> QED BY <1>1, <1>2, <1>3

LEMMA JudgeKeepsBase ==
    ASSUME BaseInv, UNCHANGED setting, NEW judged, NEW keep, NEW discard, NEW due,
           due \subseteq queue, keep \subseteq judged, discard \subseteq judged, keep \cap discard = {},
           Judge(judged, keep, discard, due),
           listed' \subseteq listed, judged \subseteq ring \cup (listed \ listed')
    PROVE  BaseInv'
<1> USE DEF BaseInv
<1>0. StartOf' = StartOf
  BY DEF StartOf
<1>2. /\ pc = "idle" /\ Todos = {} /\ drop = {}
      /\ fresh' = keep /\ drop' = discard /\ ring' = judged \ (keep \cup discard)
      /\ retries' = due /\ queue' = queue \ due /\ kept' = kept \cup keep /\ pc' = "persist"
      /\ UNCHANGED <<cache, recorded, cur, dst, bg, disk, lost, abandoned>>
  BY DEF Judge, CopyOK
<1>3. TypeOK'
  BY <1>2 DEF TypeOK, Steps, disk
<1>4. FilesOK'
  BY <1>0, <1>2 DEF FilesOK, disk
<1>5. CopyOK'
  BY <1>0, <1>2 DEF CopyOK, Copying, Todos, disk
<1>6. HandsOK'
  BY <1>2 DEF HandsOK, Todos
<1> QED BY <1>3, <1>4, <1>5, <1>6

LEMMA VerdictKeepsBase ==
    ASSUME BaseInv, UNCHANGED setting, (\E s \in Segments : Finish(s)) \/ QuietBoundary
    PROVE  BaseInv'
<1>1. ASSUME NEW s \in Segments, Finish(s) PROVE BaseInv'
  <2>1. s \in listed /\ listed' = listed \ {s}
      BY <1>1 DEF Finish
  <2>2. PICK keep \in SUBSET (ring \cup {s}), due \in SUBSET queue :
            \E discard \in SUBSET ((ring \cup {s}) \ keep) : Judge(ring \cup {s}, keep, discard, due)
      BY <1>1 DEF Finish
  <2>3. PICK discard \in SUBSET ((ring \cup {s}) \ keep) : Judge(ring \cup {s}, keep, discard, due)
      BY <2>2
  <2>4. keep \cap discard = {} /\ ring \cup {s} \subseteq ring \cup (listed \ listed')
      BY <2>1, <2>3
  <2> QED BY <2>1, <2>2, <2>3, <2>4, JudgeKeepsBase
<1>2. CASE QuietBoundary
  <2>1. PICK due \in SUBSET queue : Judge(ring, {}, {}, due) /\ listed' = listed
      BY <1>2 DEF QuietBoundary
  <2> QED BY <2>1, JudgeKeepsBase
<1> QED BY <1>1, <1>2

-----------------------------------------------------------------------------

\* A segment settled or put back: the lists of the finish call lose it.
LEMMA SettledKeepsBase ==
    ASSUME BaseInv, NEW s \in Segments, ReportVanished(s) \/ Refuse(s), UNCHANGED setting
    PROVE  BaseInv'
<1> USE DEF BaseInv
<1>0. StartOf' = StartOf
  BY DEF StartOf
<1>1. /\ pc = "persist" /\ s \in Todos /\ retries' = retries \ {s} /\ fresh' = fresh \ {s}
      /\ queue' \subseteq queue \cup {s} /\ lost' \subseteq lost \cup {s}
      /\ UNCHANGED <<cache, recorded, listed, ring, drop, pc, cur, dst, bg, disk, kept, abandoned>>
  BY DEF ReportVanished, Refuse, Settle, Todos, Todo, Queued
<1>2. TypeOK'
  BY <1>1 DEF TypeOK, Todos, disk
<1>3. FilesOK' /\ CopyOK' /\ HandsOK'
  BY <1>0, <1>1 DEF FilesOK, CopyOK, HandsOK, Copying, Todos, disk
<1> QED BY <1>2, <1>3

\* What BeginCopy writes and where.
Begun(s) ==
    /\ StartOf[s] \in Starts /\ s \in Todos /\ pc = "persist"
    /\ cache[StartOf[s]] \in recorded /\ StartOf[cache[StartOf[s]]] = StartOf[s]
    /\ pc' = "copying" /\ cur' = s /\ dst' \in Names /\ dst'[1] = StartOf[s]
    /\ live[dst'] = None /\ (Collided(dst') <=> Taken(<<StartOf[s], 0>>))
    /\ live' = [live EXCEPT ![dst'] = [seg |-> cache[StartOf[s]], whole |-> FALSE, synced |-> FALSE]]
    /\ UNCHANGED <<cache, recorded, listed, ring, queue, retries, fresh, drop, bg,
                   archive, parked, row, kept, lost, abandoned>>

LEMMA BeginSays ==
    ASSUME BaseInv, NEW s \in Segments, BeginCopy(s)
    PROVE  Begun(s)
<1>1. StartOf[s] \in Starts
  BY Circumstances DEF BaseInv
<1>2. cache[StartOf[s]] \in recorded /\ StartOf[cache[StartOf[s]]] = StartOf[s]
  BY <1>1 DEF BeginCopy, BaseInv, FilesOK
<1>3. dst' = DstFor(StartOf[s]) /\ HasRoom(StartOf[s])
  BY DEF BeginCopy
<1>4. /\ dst' \in Names /\ dst'[1] = StartOf[s]
      /\ live[dst'] = None /\ (Collided(dst') <=> Taken(<<StartOf[s], 0>>))
  BY <1>1, <1>3, DstIsFree DEF BaseInv, Taken
<1> QED BY <1>1, <1>2, <1>4 DEF Begun, BeginCopy, Todo, Todos

LEMMA CopyStepKeepsBase ==
    ASSUME BaseInv, UNCHANGED setting,
           (\E s \in Segments : BeginCopy(s)) \/ FinishCopy \/ FailCopy \/ Index \/ DeleteCached
    PROVE  BaseInv'
<1> USE DEF BaseInv
<1>0. StartOf' = StartOf /\ None \notin Names /\ None \notin File /\ None \notin Segments
  BY Circumstances DEF StartOf
<1>1. ASSUME NEW s \in Segments, BeginCopy(s) PROVE BaseInv'
  <2>0. Begun(s)
      BY <1>1, BeginSays
  <2>1. /\ live'[dst'] \in File /\ live'[dst'].seg = cache[StartOf[s]]
        /\ ~live'[dst'].whole /\ ~live'[dst'].synced
        /\ live' \in [Names -> File \cup {None}] /\ \A n \in Names \ {dst'} : live'[n] = live[n]
      BY <2>0 DEF Begun, TypeOK, File
  <2>2. TypeOK'
      BY <2>0, <2>1 DEF Begun, TypeOK, Steps
  <2>3. FilesOK'
      BY <1>0, <2>0, <2>1 DEF Begun, FilesOK
  <2>4. CopyOK'
    <3>1. dst = None /\ (bg # None => bg \in Names /\ live[bg] # None /\ bg # dst')
        BY <2>0 DEF Begun, CopyOK, TypeOK, Copying
    <3> QED BY <1>0, <2>0, <2>1, <3>1 DEF Begun, CopyOK, Copying, Todos
  <2>5. HandsOK'
      BY <2>0 DEF Begun, HandsOK, Todos
  <2> QED BY <2>2, <2>3, <2>4, <2>5
<1>2. CASE FinishCopy \/ Index
  <2>0. dst \in Names /\ live[dst] \in File
      BY <1>2 DEF FinishCopy, Index, CopyOK, TypeOK, Copying
  <2>1. /\ (pc = "copying" /\ pc' = "copied") \/ (pc = "copied" /\ pc' = "indexed")
        /\ UNCHANGED <<cache, recorded, listed, ring, queue, retries, fresh, drop, cur, dst, bg,
                       archive, parked, kept, lost, abandoned>>
      BY <1>2 DEF FinishCopy, Index
  <2>2. row' \in [Starts -> Row \cup {None}] /\ \A k \in Starts : row'[k] # None => row'[k].name[1] = k
    <3>1. CASE row' = row
        BY <3>1 DEF TypeOK, FilesOK
    <3>2. CASE Insert(dst, "worker", Collided(dst))
      <4>1. dst[1] \in Starts /\ [at |-> "live", name |-> dst, by |-> "worker"] \in Row
          BY <2>0 DEF Names, Row
      <4> QED BY <3>2, <4>1 DEF Insert, TypeOK, FilesOK
    <3> QED BY <1>2, <3>1, <3>2 DEF FinishCopy, Index
  <2>3. /\ live' \in [Names -> File \cup {None}] /\ live'[dst] \in File /\ live'[dst].seg = live[dst].seg
        /\ live'[dst].whole /\ \A n \in Names \ {dst} : live'[n] = live[n]
    <3>1. CASE FinishCopy
        BY <2>0, <3>1 DEF FinishCopy, TypeOK, File
    <3>2. CASE Index
      <4>1. live[dst].whole /\ live' \in {live, [live EXCEPT ![dst].synced = TRUE]}
          BY <3>2 DEF Index, CopyOK
      <4>2. CASE live' = live
          BY <2>0, <4>1, <4>2 DEF TypeOK
      <4>3. CASE live' = [live EXCEPT ![dst].synced = TRUE]
          BY <2>0, <4>1, <4>3 DEF TypeOK, File
      <4> QED BY <4>1, <4>2, <4>3
    <3> QED BY <1>2, <3>1, <3>2
  <2>4. TypeOK'
      BY <2>1, <2>2, <2>3 DEF TypeOK, Steps
  <2>5. FilesOK'
      BY <1>0, <2>0, <2>1, <2>2, <2>3 DEF FilesOK
  <2>6. CopyOK' /\ HandsOK'
      BY <1>0, <2>0, <2>1, <2>3 DEF CopyOK, HandsOK, Copying, Todos, TypeOK
  <2> QED BY <2>4, <2>5, <2>6
<1>3. CASE FailCopy
  <2>1. /\ pc = "copying" /\ pc' = "persist" /\ cur \in Todos /\ dst \in Names
        /\ retries' = retries \ {cur} /\ fresh' = fresh \ {cur} /\ queue' \subseteq queue \cup {cur}
        /\ cur' = None /\ dst' = None /\ live' \in {live, [live EXCEPT ![dst] = None]}
        /\ UNCHANGED <<cache, recorded, listed, ring, drop, bg, archive, parked, row, kept, lost, abandoned>>
      BY <1>3 DEF FailCopy, Settle, Queued, CopyOK, Copying
  <2>2. live' \in [Names -> File \cup {None}] /\ \A n \in Names : n # dst => live'[n] = live[n]
        /\ (live'[n] = None \/ live'[n] = live[n])
      BY <2>1 DEF TypeOK
  <2>3. TypeOK'
      BY <2>1, <2>2 DEF TypeOK, Steps, Todos
  <2>4. FilesOK'
      BY <1>0, <2>1, <2>2 DEF FilesOK
  <2>5. CopyOK' /\ HandsOK'
      BY <1>0, <2>1, <2>2 DEF CopyOK, HandsOK, Copying, Todos, TypeOK
  <2> QED BY <2>3, <2>4, <2>5
<1>4. CASE DeleteCached
  <2>1. /\ pc = "indexed" /\ pc' = "persist" /\ cur \in Todos /\ StartOf[cur] \in Starts
        /\ retries' = retries \ {cur} /\ fresh' = fresh \ {cur} /\ cur' = None /\ dst' = None
        /\ cache' \in {cache, [cache EXCEPT ![StartOf[cur]] = None]}
        /\ UNCHANGED <<recorded, listed, ring, queue, drop, bg, disk, kept, lost, abandoned>>
      BY <1>4, Circumstances DEF DeleteCached, Settle, CopyOK, Copying, TypeOK, Todos
  <2>2. cache' \in [Starts -> Segments \cup {None}] /\ \A k \in Starts : cache'[k] \in {cache[k], None}
      BY <2>1 DEF TypeOK
  <2>3. TypeOK'
      BY <2>1, <2>2 DEF TypeOK, Steps, Todos, disk
  <2>4. FilesOK'
      BY <1>0, <2>1, <2>2 DEF FilesOK, disk
  <2>5. CopyOK' /\ HandsOK'
      BY <1>0, <2>1 DEF CopyOK, HandsOK, Copying, Todos, TypeOK, disk
  <2> QED BY <2>3, <2>4, <2>5
<1> QED BY <1>1, <1>2, <1>3, <1>4

-----------------------------------------------------------------------------

\* The end of a call, runs, workers and the process: the lists shrink, the cache loses names.
LEMMA LifeKeepsBase ==
    ASSUME BaseInv, UNCHANGED setting, EndFinish \/ Reconnect \/ Stop \/ Abort \/ Spawn \/ Crash
    PROVE  BaseInv'
<1> USE DEF BaseInv
<1>0. StartOf' = StartOf /\ None \notin Names
  BY Circumstances DEF StartOf
<1>1. cache' \in [Starts -> Segments \cup {None}] /\ \A k \in Starts : cache'[k] \in {cache[k], None}
  <2>1. CASE cache' = cache
      BY <2>1 DEF TypeOK
  <2>2. CASE cache' = [k \in Starts |-> IF \E s \in drop : StartOf[s] = k THEN None ELSE cache[k]]
      BY <2>2 DEF TypeOK
  <2>3. CASE Sweep
      BY <2>3 DEF Sweep, TypeOK
  <2>4. CASE cache' = [k \in Starts |-> None]
      BY <2>4
  <2> QED BY <2>1, <2>2, <2>3, <2>4 DEF EndFinish, Reconnect, Stop, Abort, Spawn, Crash
<1>2. /\ listed' \subseteq listed /\ ring' \subseteq ring /\ queue' \subseteq queue
      /\ retries' \subseteq retries /\ fresh' \subseteq fresh /\ drop' \subseteq drop
      /\ kept' = kept /\ lost' = lost /\ recorded' = recorded
  BY DEF EndFinish, Reconnect, Stop, Abort, Spawn, Crash, Forget, work
<1>3. /\ pc' \in {"down", "idle"} /\ dst' = None /\ cur' \in {cur, None}
      /\ retries' = {} /\ fresh' = {} /\ drop' = {}
      /\ pc' = "down" => ring' = {} /\ listed' = {}
  BY DEF EndFinish, Reconnect, Stop, Abort, Spawn, Crash, Forget, work, CopyOK, Copying, Todos
<1>4. archive' = archive /\ parked' = parked /\ row' = row
  BY DEF EndFinish, Reconnect, Stop, Abort, Spawn, Crash, disk
<1>5. live' \in [Names -> File \cup {None}] /\ \A n \in Names : live'[n] \in {live[n], None}
  BY DEF EndFinish, Reconnect, Stop, Abort, Spawn, Crash, disk, TypeOK
<1>6. bg' \in Names \cup {None} /\ (bg' # None => live'[bg'] # None)
  BY <1>0 DEF EndFinish, Reconnect, Stop, Abort, Spawn, Crash, disk, TypeOK, CopyOK, Copying
<1>7. abandoned' \subseteq recorded
  <2>1. \A n \in Names : Unsynced(n) => live[n].seg \in recorded
      BY DEF Unsynced, Taken, FilesOK
  <2> QED BY <2>1 DEF EndFinish, Reconnect, Stop, Abort, Spawn, Crash, TypeOK
<1>8. TypeOK'
  BY <1>1, <1>2, <1>3, <1>4, <1>5, <1>6, <1>7 DEF TypeOK, Steps
<1>9. FilesOK'
  BY <1>0, <1>1, <1>2, <1>4, <1>5 DEF FilesOK
<1>10. CopyOK'
  BY <1>0, <1>3, <1>6 DEF CopyOK, Copying, Todos
<1>11. HandsOK'
  BY <1>2 DEF HandsOK, Todos
<1> QED BY <1>8, <1>9, <1>10, <1>11

\* Others on the same files.
LEMMA OthersKeepBase ==
    ASSUME BaseInv, UNCHANGED setting,
           BackgroundCopyEnds \/ (\E k \in Starts : Adopt(k) \/ MoveToArchive(k))
           \/ (\E n \in Names : Quarantine(n))
    PROVE  BaseInv'
<1> USE DEF BaseInv
<1>0. StartOf' = StartOf /\ None \notin Names /\ None \notin File
  BY Circumstances DEF StartOf
<1>1. UNCHANGED <<cache, recorded, listed, ring, queue, retries, fresh, drop, pc, cur, dst, kept, lost, abandoned>>
  BY DEF BackgroundCopyEnds, Adopt, MoveToArchive, Quarantine, work
<1>2. HandsOK'
  BY <1>1 DEF HandsOK, Todos
<1>3. CASE BackgroundCopyEnds
  <2>1. /\ bg \in Names /\ live[bg] \in File /\ bg' = None /\ bg # dst
        /\ live' \in {live, [live EXCEPT ![bg].whole = TRUE]} /\ UNCHANGED <<archive, parked, row>>
      BY <1>3 DEF BackgroundCopyEnds, TypeOK, CopyOK
  <2>2. /\ live' \in [Names -> File \cup {None}] /\ live'[bg] \in File /\ live'[bg].seg = live[bg].seg
        /\ \A n \in Names \ {bg} : live'[n] = live[n]
      BY <2>1 DEF TypeOK, File
  <2>3. TypeOK'
      BY <1>1, <2>1, <2>2 DEF TypeOK
  <2>4. FilesOK' /\ CopyOK'
      BY <1>0, <1>1, <2>1, <2>2 DEF FilesOK, CopyOK, Copying, Todos
  <2> QED BY <1>2, <2>3, <2>4
<1>4. ASSUME NEW k \in Starts, Adopt(k) PROVE BaseInv'
  <2>1. [at |-> "live", name |-> <<k, 0>>, by |-> "reconcile"] \in Row
      BY PersistAssumption DEF Row, Names
  <2>2. /\ row' = [row EXCEPT ![k] = [at |-> "live", name |-> <<k, 0>>, by |-> "reconcile"]]
        /\ UNCHANGED <<live, archive, parked, bg>>
      BY <1>4 DEF Adopt, Insert
  <2>3. TypeOK'
      BY <1>1, <2>1, <2>2 DEF TypeOK
  <2>4. FilesOK' /\ CopyOK'
      BY <1>0, <1>1, <2>2 DEF FilesOK, CopyOK, Copying, Todos, TypeOK
  <2> QED BY <1>2, <2>3, <2>4
<1>5. ASSUME NEW k \in Starts, MoveToArchive(k) PROVE BaseInv'
  <2> DEFINE n == row[k].name
  <2>1. /\ row[k] \in Row /\ n \in Names /\ live[n] \in File /\ n # dst /\ n # bg
        /\ archive' = [archive EXCEPT ![n] = [live[n] EXCEPT !.synced = TRUE]]
        /\ live' = [live EXCEPT ![n] = None] /\ row' = [row EXCEPT ![k].at = "archive"]
        /\ UNCHANGED <<parked, bg>>
      BY <1>5 DEF MoveToArchive, TypeOK, Row, Taken, InFlight
  <2> HIDE DEF n
  <2>2. /\ archive' \in [Names -> File \cup {None}] /\ archive'[n].seg = live[n].seg
        /\ \A m \in Names \ {n} : archive'[m] = archive[m] /\ live'[m] = live[m]
        /\ live' \in [Names -> File \cup {None}] /\ live'[n] = None
      BY <2>1 DEF TypeOK, File
  <2>3. row' \in [Starts -> Row \cup {None}] /\ row'[k].name = row[k].name
        /\ \A j \in Starts \ {k} : row'[j] = row[j]
      BY <2>1 DEF TypeOK, Row
  <2>4. TypeOK'
      BY <1>1, <2>1, <2>2, <2>3 DEF TypeOK
  <2>5. FilesOK'
      BY <1>0, <1>1, <2>1, <2>2, <2>3, <1>5 DEF FilesOK, MoveToArchive
  <2>6. CopyOK'
      BY <1>1, <1>0, <2>1, <2>2 DEF CopyOK, Copying, Todos, TypeOK
  <2> QED BY <1>2, <2>4, <2>5, <2>6
<1>6. ASSUME NEW n \in Names, Quarantine(n) PROVE BaseInv'
  <2>1. /\ live[n] \in File /\ n # dst /\ n # bg /\ live' = [live EXCEPT ![n] = None]
        /\ parked' \in {parked, parked \cup {live[n].seg}} /\ UNCHANGED <<archive, row, bg>>
      BY <1>6 DEF Quarantine, TypeOK, Taken, InFlight
  <2>2. live' \in [Names -> File \cup {None}] /\ live'[n] = None
        /\ \A m \in Names \ {n} : live'[m] = live[m]
      BY <2>1 DEF TypeOK
  <2>3. live[n].seg \in recorded
      BY <1>0, <2>1 DEF FilesOK
  <2>4. TypeOK'
      BY <1>1, <2>1, <2>2, <2>3 DEF TypeOK
  <2>5. FilesOK' /\ CopyOK'
      BY <1>0, <1>1, <2>1, <2>2 DEF FilesOK, CopyOK, Copying, Todos, TypeOK
  <2> QED BY <1>2, <2>4, <2>5
<1> QED BY <1>3, <1>4, <1>5, <1>6

LEMMA NextBase == BaseInv /\ [Next]_vars => BaseInv'
<1> SUFFICES ASSUME BaseInv, [Next]_vars PROVE BaseInv'
    OBVIOUS
<1>1. CASE UNCHANGED vars
  BY <1>1 DEF vars, state, work, disk, BaseInv, TypeOK, FilesOK, CopyOK, HandsOK, Copying, Todos, StartOf
<1>2. CASE Act /\ UNCHANGED setting
  BY <1>2, RecordKeepsBase, VerdictKeepsBase, SettledKeepsBase, CopyStepKeepsBase, LifeKeepsBase,
     OthersKeepBase DEF Act, PersistStep
<1> QED BY <1>1, <1>2 DEF Next

LEMMA BaseHolds == Spec => []BaseInv
BY InitBase, NextBase, PTL DEF Spec

\* Type correctness: lists hold recorded segments, the table names of its own start times.
THEOREM TypeCorrect == Spec => []TypeOK
<1>1. BaseInv => TypeOK
  BY DEF BaseInv
<1> QED BY <1>1, BaseHolds, PTL

-----------------------------------------------------------------------------
(* Stored footage stays.                                                       *)

\* A step that keeps whole files, archived files and parked footage keeps what is stored.
LEMMA FilesKeepStored ==
    ASSUME \A n \in Names : live[n] # None /\ live[n].whole =>
              live'[n] # None /\ live'[n].whole /\ live'[n].seg = live[n].seg,
           archive' = archive, parked \subseteq parked', NEW s, Stored(s)
    PROVE  Stored(s)'
BY DEF Stored, Whole

LEMMA StoredIsKept ==
    ASSUME BaseInv, Act, ~Crash, NEW s \in Segments, Stored(s)
    PROVE  Stored(s)'
<1> USE DEF BaseInv
<1>0. None \notin Names /\ None \notin File
  BY Circumstances
<1>1. CASE UNCHANGED disk
  BY <1>1 DEF disk, Stored, Whole
<1>2. ASSUME NEW t \in Segments, BeginCopy(t) PROVE Stored(s)'
  <2>1. Begun(t)
      BY <1>2, BeginSays
  <2>2. \A n \in Names : live[n] # None => live'[n] = live[n]
      BY <2>1 DEF Begun, TypeOK
  <2> QED BY <2>1, <2>2, FilesKeepStored DEF Begun
<1>3. CASE FinishCopy \/ Index
  <2>1. dst \in Names /\ live[dst] \in File /\ UNCHANGED <<archive, parked>>
      BY <1>3 DEF FinishCopy, Index, CopyOK, TypeOK, Copying
  <2>2. \/ live' = [live EXCEPT ![dst].whole = TRUE]
        \/ live' = [live EXCEPT ![dst].synced = TRUE] \/ live' = live
      BY <1>3 DEF FinishCopy, Index
  <2>3. \A n \in Names : live[n] # None /\ live[n].whole =>
           live'[n] # None /\ live'[n].whole /\ live'[n].seg = live[n].seg
    <3>1. CASE live' = [live EXCEPT ![dst].whole = TRUE]
        BY <1>0, <2>1, <3>1 DEF TypeOK, File
    <3>2. CASE live' = [live EXCEPT ![dst].synced = TRUE]
        BY <1>0, <2>1, <3>2 DEF TypeOK, File
    <3>3. CASE live' = live
        BY <3>3
    <3> QED BY <2>2, <3>1, <3>2, <3>3
  <2> QED BY <2>1, <2>3, FilesKeepStored
<1>4. CASE FailCopy
  <2>1. ~live[dst].whole /\ live' \in {live, [live EXCEPT ![dst] = None]} /\ UNCHANGED <<archive, parked>>
      BY <1>4 DEF FailCopy, CopyOK
  <2>2. \A n \in Names : live[n].whole => live'[n] = live[n]
      BY <2>1 DEF TypeOK
  <2> QED BY <2>1, <2>2, FilesKeepStored
<1>5. CASE BackgroundCopyEnds
  <2>1. /\ bg \in Names /\ live[bg] \in File /\ UNCHANGED <<archive, parked>>
        /\ live' = [live EXCEPT ![bg].whole = TRUE] \/ live' = live
      BY <1>5 DEF BackgroundCopyEnds, TypeOK, CopyOK
  <2>2. \A n \in Names : live[n] # None /\ live[n].whole =>
           live'[n] # None /\ live'[n].whole /\ live'[n].seg = live[n].seg
    <3>1. CASE live' = [live EXCEPT ![bg].whole = TRUE]
        BY <1>0, <2>1, <3>1 DEF TypeOK, File
    <3>2. CASE live' = live
        BY <3>2
    <3> QED BY <2>1, <3>1, <3>2
  <2> QED BY <2>1, <2>2, FilesKeepStored
<1>6. ASSUME NEW k \in Starts, Adopt(k) PROVE Stored(s)'
  BY <1>6 DEF Adopt, Stored, Whole
<1>7. ASSUME NEW k \in Starts, MoveToArchive(k) PROVE Stored(s)'
  <2> DEFINE n == row[k].name
  <2>1. /\ n \in Names /\ live[n] \in File /\ archive[n] = None
        /\ archive' = [archive EXCEPT ![n] = [live[n] EXCEPT !.synced = TRUE]]
        /\ live' = [live EXCEPT ![n] = None] /\ parked' = parked
      BY <1>7 DEF MoveToArchive, TypeOK, Row, Taken
  <2> HIDE DEF n
  <2>2. /\ archive'[n] # None /\ archive'[n].seg = live[n].seg /\ archive'[n].whole = live[n].whole
        /\ \A m \in Names \ {n} : archive'[m] = archive[m] /\ live'[m] = live[m]
      BY <1>0, <2>1 DEF TypeOK, File
  <2> QED BY <2>1, <2>2 DEF Stored, Whole
<1>8. ASSUME NEW n \in Names, Quarantine(n) PROVE Stored(s)'
  <2>1. /\ archive' = archive /\ \A m \in Names \ {n} : live'[m] = live[m]
        /\ parked \subseteq parked' /\ (live[n].whole => live[n].seg \in parked')
      BY <1>8 DEF Quarantine, TypeOK
  <2> QED BY <2>1 DEF Stored, Whole
<1> QED BY <1>1, <1>2, <1>3, <1>4, <1>5, <1>6, <1>7, <1>8
        DEF Act, PersistStep, Record, Finish, QuietBoundary, Judge, ReportVanished, Refuse,
            DeleteCached, EndFinish, Reconnect, Stop, Abort, Spawn

-----------------------------------------------------------------------------
(* Kept footage is in safe hands.                                              *)

\* As long as ffmpeg overwrites nothing, the cache holds what is in anybody's hands, a copy is
\* of the segment it is meant to be of, and what was kept is stored or to be copied.
InCache == \A s \in InHands : cache[StartOf[s]] = s
CopiesCur == pc \in Copying => live[dst].seg = cur
CaredFor == \A s \in kept \ abandoned : Stored(s) \/ s \in queue \cup Todos \/ s \in lost

SafeInv == "overwrite" \notin Faults => InCache /\ CopiesCur /\ CaredFor

LEMMA InitSafe == Init => SafeInv
BY DEF Init, SafeInv, InCache, InHands, CopiesCur, CaredFor, Copying

\* What the cache keeps for those in hand.
LEMMA InCacheStays ==
    ASSUME BaseInv, InCache, "overwrite" \notin Faults, Act, UNCHANGED setting
    PROVE  InCache'
<1> USE DEF BaseInv
<1>0. StartOf' = StartOf /\ StartOf \in [Segments -> Starts] /\ None \notin Segments
  BY Circumstances DEF StartOf
<1>1. InHands \subseteq Segments
  BY DEF InHands, TypeOK
<1>2. ASSUME UNCHANGED cache, InHands' \subseteq InHands PROVE InCache'
  BY <1>0, <1>2 DEF InCache
<1>3. ASSUME NEW s \in Segments, Record(s) PROVE InCache'
  <2>1. /\ cache[StartOf[s]] = None /\ cache' = [cache EXCEPT ![StartOf[s]] = s]
        /\ InHands' \subseteq InHands \cup {s}
      BY <1>3 DEF Record, InHands, work
  <2> QED BY <1>0, <1>1, <2>1 DEF InCache, TypeOK
<1>4. ASSUME NEW s \in Segments, Finish(s) PROVE InCache'
  <2>1. UNCHANGED cache /\ InHands' \subseteq InHands
      BY <1>4 DEF Finish, Judge, InHands
  <2> QED BY <1>2, <2>1
<1>5. CASE QuietBoundary
  <2>1. UNCHANGED cache /\ InHands' \subseteq InHands
      BY <1>5 DEF QuietBoundary, Judge, InHands
  <2> QED BY <1>2, <2>1
<1>6. ASSUME NEW s \in Segments, ReportVanished(s) \/ BeginCopy(s) \/ Refuse(s) PROVE InCache'
  <2>1. UNCHANGED cache /\ InHands' \subseteq InHands
      BY <1>6 DEF ReportVanished, BeginCopy, Refuse, Todo, Settle, Queued, InHands
  <2> QED BY <1>2, <2>1
<1>7. CASE FinishCopy \/ FailCopy \/ Index
  <2>1. UNCHANGED cache /\ InHands' \subseteq InHands
      BY <1>7 DEF FinishCopy, FailCopy, Index, Settle, Queued, InHands, CopyOK, Copying, Todos
  <2> QED BY <1>2, <2>1
<1>8. CASE DeleteCached
  <2>1. /\ cur \in Todos /\ cache' \in {cache, [cache EXCEPT ![StartOf[cur]] = None]}
        /\ InHands' = InHands \ {cur}
      BY <1>8 DEF DeleteCached, Settle, InHands, CopyOK, HandsOK, Copying, Todos
  <2> QED BY <1>0, <1>1, <2>1 DEF InCache, TypeOK, InHands, Todos
<1>9. CASE EndFinish
  <2>1. InHands' = InHands \ drop
      BY <1>9 DEF EndFinish, InHands, HandsOK, Todos
  <2>2. CASE UNCHANGED cache
      BY <1>2, <2>1, <2>2
  <2>3. CASE cache' = [k \in Starts |-> IF \E s \in drop : StartOf[s] = k THEN None ELSE cache[k]]
    <3>1. ASSUME NEW t \in InHands \ drop PROVE cache'[StartOf[t]] = t
      <4>1. \A d \in drop : cache[StartOf[d]] = d
          BY DEF InCache, InHands
      <4> QED BY <1>0, <1>1, <2>3, <4>1 DEF InCache
    <3> QED BY <1>0, <2>1, <3>1 DEF InCache
  <2> QED BY <1>9, <2>2, <2>3 DEF EndFinish
<1>10. CASE Reconnect \/ Spawn
  <2>1. InHands' \subseteq KeepSet /\ KeepSet \subseteq InHands /\ Sweep
      BY <1>10 DEF Reconnect, Spawn, InHands, KeepSet, CopyOK, Todos, work
  <2> QED BY <1>0, <1>1, <2>1 DEF InCache, Sweep
<1>11. CASE Stop \/ Abort
  <2>1. UNCHANGED cache /\ InHands' \subseteq InHands
      BY <1>11 DEF Stop, Abort, Forget, InHands
  <2> QED BY <1>2, <2>1
<1>12. CASE Crash
  BY <1>12 DEF Crash, Forget, InHands, InCache
<1>13. CASE BackgroundCopyEnds \/ (\E k \in Starts : Adopt(k) \/ MoveToArchive(k)) \/ \E n \in Names : Quarantine(n)
  <2>1. UNCHANGED cache /\ InHands' = InHands
      BY <1>13 DEF BackgroundCopyEnds, Adopt, MoveToArchive, Quarantine, InHands, work
  <2> QED BY <1>2, <2>1
<1> QED BY <1>3, <1>4, <1>5, <1>6, <1>7, <1>8, <1>9, <1>10, <1>11, <1>12, <1>13 DEF Act, PersistStep

LEMMA CopiesCurStays ==
    ASSUME BaseInv, InCache, CopiesCur, Act
    PROVE  CopiesCur'
<1> USE DEF BaseInv
<1>1. ASSUME pc' \notin Copying PROVE CopiesCur'
  BY <1>1 DEF CopiesCur
<1>2. ASSUME pc' = pc \/ pc \in Copying, UNCHANGED <<cur, dst>>,
             pc \in Copying => live'[dst].seg = live[dst].seg
      PROVE  CopiesCur'
  BY <1>2 DEF CopiesCur
<1>3. ASSUME NEW s \in Segments, BeginCopy(s) PROVE CopiesCur'
  <2>1. Begun(s) /\ s \in InHands
      BY <1>3, BeginSays DEF Begun, InHands, Todos
  <2> QED BY <2>1 DEF Begun, InCache, CopiesCur, TypeOK
<1>4. CASE FinishCopy \/ Index
  <2>1. /\ pc \in Copying /\ dst \in Names /\ live[dst] \in File /\ UNCHANGED <<cur, dst>>
        /\ \/ live' = [live EXCEPT ![dst].whole = TRUE]
           \/ live' = [live EXCEPT ![dst].synced = TRUE] \/ live' = live
      BY <1>4 DEF FinishCopy, Index, CopyOK, TypeOK, Copying
  <2>2. live'[dst].seg = live[dst].seg
      BY <2>1 DEF TypeOK, File
  <2> QED BY <1>2, <2>1, <2>2
<1>5. CASE BackgroundCopyEnds
  <2>1. bg # dst /\ (live' = [live EXCEPT ![bg].whole = TRUE] \/ live' = live) /\ UNCHANGED work
      BY <1>5 DEF BackgroundCopyEnds, CopyOK
  <2>2. pc \in Copying => live'[dst] = live[dst]
      BY <2>1 DEF TypeOK, CopyOK
  <2> QED BY <1>2, <2>1, <2>2 DEF work
<1>6. ASSUME NEW k \in Starts, Adopt(k) \/ MoveToArchive(k) PROVE CopiesCur'
  <2>1. UNCHANGED work /\ (pc \in Copying => live'[dst] = live[dst])
      BY <1>6 DEF Adopt, MoveToArchive, InFlight, TypeOK, CopyOK
  <2> QED BY <1>2, <2>1 DEF work
<1>7. ASSUME NEW n \in Names, Quarantine(n) PROVE CopiesCur'
  <2>1. UNCHANGED work /\ (pc \in Copying => live'[dst] = live[dst])
      BY <1>7 DEF Quarantine, InFlight, TypeOK, CopyOK
  <2> QED BY <1>2, <2>1 DEF work
<1>8. ASSUME NEW s \in Segments, Record(s) PROVE CopiesCur'
  <2>1. UNCHANGED <<work, disk>>
      BY <1>8 DEF Record
  <2> QED BY <1>2, <2>1 DEF work, disk
<1> QED BY <1>1, <1>3, <1>4, <1>5, <1>6, <1>7, <1>8
        DEF Act, PersistStep, Finish, QuietBoundary, Judge, ReportVanished, Refuse, FailCopy, DeleteCached,
            EndFinish, Reconnect, Stop, Abort, Spawn, Crash, Forget, work, Copying

\* Who is put back into the queue is in it: an entry under its name is its own.
LEMMA QueuedHolds ==
    ASSUME BaseInv, InCache, NEW s \in Todos
    PROVE  s \in Queued(s) /\ queue \subseteq Queued(s)
BY DEF InCache, InHands, Queued, Todos

LEMMA CaredForStays ==
    ASSUME BaseInv, InCache, CopiesCur, CaredFor, Act
    PROVE  CaredFor'
<1> USE DEF BaseInv
<1>1. ASSUME ~Crash, abandoned \subseteq abandoned', lost \subseteq lost',
             \A s \in kept' \ abandoned' :
                \/ s \in queue' \cup Todos' \cup lost'
                \/ s \in kept /\ (Stored(s) \/ s \notin queue \cup Todos)
      PROVE  CaredFor'
  <2> SUFFICES ASSUME NEW s \in kept', s \notin abandoned'
               PROVE  Stored(s)' \/ s \in queue' \cup Todos' \cup lost'
      BY DEF CaredFor
  <2>1. CASE s \in kept /\ Stored(s)
      BY <1>1, <2>1, StoredIsKept DEF TypeOK
  <2>2. CASE s \in kept /\ s \notin queue \cup Todos
    <3>1. Stored(s) \/ s \in lost
        BY <1>1, <2>2 DEF CaredFor
    <3> QED BY <1>1, <2>1, <2>2, <3>1
  <2> QED BY <1>1, <2>1, <2>2
<1>2. ASSUME ~Crash, UNCHANGED <<queue, retries, fresh, kept, lost, abandoned>> PROVE CaredFor'
  BY <1>1, <1>2 DEF Todos
<1>3. ASSUME NEW s \in Segments, Finish(s), ~Crash PROVE CaredFor'
  <2>1. queue \subseteq queue' \cup retries' /\ kept' = kept \cup fresh' /\ UNCHANGED <<lost, abandoned>>
        /\ Todos = {}
      BY <1>3 DEF Finish, Judge, CopyOK
  <2> QED BY <1>1, <1>3, <2>1 DEF Todos
<1>4. CASE QuietBoundary /\ ~Crash
  <2>1. queue \subseteq queue' \cup retries' /\ kept' = kept /\ UNCHANGED <<lost, abandoned>>
        /\ Todos = {}
      BY <1>4 DEF QuietBoundary, Judge, CopyOK
  <2> QED BY <1>1, <1>4, <2>1 DEF Todos
<1>5. ASSUME NEW s \in Segments, ReportVanished(s), ~Crash PROVE CaredFor'
  BY <1>1, <1>5 DEF ReportVanished, Settle, Todos
<1>6. ASSUME NEW s \in Segments, Refuse(s), ~Crash PROVE CaredFor'
  <2>1. s \in Todos
      BY <1>6 DEF Refuse, Todo, Todos
  <2> QED BY <1>1, <1>6, <2>1, QueuedHolds DEF Refuse, Settle, Todos
<1>7. CASE FailCopy /\ ~Crash
  <2>1. cur \in Todos
      BY <1>7 DEF FailCopy, CopyOK, Copying
  <2> QED BY <1>1, <1>7, <2>1, QueuedHolds DEF FailCopy, Settle, Todos
<1>8. CASE DeleteCached /\ ~Crash
  <2>1. Stored(cur)
      BY <1>8 DEF DeleteCached, CopyOK, CopiesCur, Copying, Stored, Whole
  <2> QED BY <1>1, <1>8, <2>1 DEF DeleteCached, Settle, Todos
<1>9. CASE Stop /\ ~Crash
  <2>1. Todos = {}
      BY <1>9 DEF Stop, CopyOK
  <2> QED BY <1>1, <1>9, <2>1 DEF Stop, Forget
<1>10. CASE Abort /\ ~Crash
  BY <1>1, <1>10 DEF Abort, Forget, Todos
<1>11. CASE Crash
  <2>1. \A s \in kept \ abandoned' : s \in kept \ abandoned /\ s \notin queue \cup Todos
      BY <1>11 DEF Crash, Todos
  <2>2. ASSUME NEW s \in kept \ abandoned', Stored(s) PROVE Stored(s)'
    <3>1. CASE live' = live
        BY <1>11, <2>2, <3>1 DEF Crash, Stored, Whole
    <3>2. CASE /\ live' = [n \in Names |-> IF Unsynced(n) THEN None ELSE live[n]]
               /\ abandoned' = abandoned \cup queue \cup retries \cup fresh
                               \cup {live[n].seg : n \in {m \in Names : Unsynced(m)}}
      <4>1. \A n \in Names : live[n].seg = s => ~Unsynced(n)
          BY <2>2, <3>2
      <4> QED BY <1>11, <2>2, <3>2, <4>1 DEF Crash, Stored, Whole
    <3> QED BY <1>11, <3>1, <3>2 DEF Crash
  <2> QED BY <1>11, <2>1, <2>2 DEF Crash, CaredFor
<1> QED BY <1>2, <1>3, <1>4, <1>5, <1>6, <1>7, <1>8, <1>9, <1>10, <1>11
        DEF Act, PersistStep, Record, BeginCopy, FinishCopy, Index, EndFinish, Reconnect, Spawn,
            BackgroundCopyEnds, Adopt, MoveToArchive, Quarantine, work

LEMMA NextSafe == BaseInv /\ SafeInv /\ [Next]_vars => SafeInv'
<1> SUFFICES ASSUME BaseInv, SafeInv, [Next]_vars, "overwrite" \notin Faults'
             PROVE  InCache' /\ CopiesCur' /\ CaredFor'
    BY DEF SafeInv
<1>1. Faults' = Faults
  BY DEF Next, vars, Faults
<1>2. CASE UNCHANGED vars
  BY <1>1, <1>2 DEF vars, state, work, disk, SafeInv, InCache, InHands, CopiesCur, CaredFor, Copying, Todos,
                    StartOf, Stored, Whole
<1>3. CASE Act /\ UNCHANGED setting
  BY <1>1, <1>3, InCacheStays, CopiesCurStays, CaredForStays DEF SafeInv
<1> QED BY <1>2, <1>3 DEF Next

LEMMA SafeHolds == Spec => []SafeInv
BY InitSafe, NextSafe, BaseHolds, PTL DEF Spec

\* Item 20 of RECORDER-CORRECTNESS.md (recording.rs persist_cached_segment, queue_unpersisted,
\* motion_cache_keep_set): where ffmpeg overwrites nothing in the cache, a kept segment is whole in
\* storage, or in the cache with somebody who retries it, or given up by an abort or a crash.
THEOREM KeptStaysSafe == Spec => []KeptIsSafe
<1>1. BaseInv /\ SafeInv => KeptIsSafe
  BY DEF SafeInv, KeptIsSafe, Owned, InCache, CaredFor, InHands, Todos
<1> QED BY <1>1, BaseHolds, SafeHolds, PTL

-----------------------------------------------------------------------------
(* Rows.                                                                       *)

\* What the row of a start time can become: the archive's, or that of the copy that has just been
\* made durable, or of a plain file nobody writes; in the latter two a row that is there stays
\* unless the copy has the plain name.
Archived(k) == row'[k] = [row[k] EXCEPT !.at = "archive"]
Committed(k) ==
    /\ pc = "copied" /\ pc' = "indexed" /\ k = dst[1] /\ (Collided(dst) => row[k] = None)
    /\ row'[k] = [at |-> "live", name |-> dst, by |-> "worker"]
    /\ live' = [live EXCEPT ![dst].synced = TRUE]
Adopted(k) ==
    /\ row[k] = None /\ Taken(<<k, 0>>) /\ <<k, 0>> # dst /\ <<k, 0>> # bg /\ UNCHANGED live
    /\ row'[k] = [at |-> "live", name |-> <<k, 0>>, by |-> "reconcile"]

\* What the live file of a name can become.
Written(n) ==
    \/ live'[n] = live[n]
    \/ /\ live[n] # None /\ live'[n] # None /\ live'[n].seg = live[n].seg
       /\ (live[n].whole => live'[n].whole) /\ (live[n].synced => live'[n].synced)
    \/ live[n] = None /\ n = dst' /\ pc' = "copying" /\ pc = "persist"

LEMMA CrashSays ==
    ASSUME BaseInv, Crash, NEW n \in Names
    PROVE  live'[n] = live[n] \/ ("power" \in Faults /\ live'[n] = None /\ ~live[n].synced)
BY DEF Crash, Unsynced

LEMMA RowChanges ==
    ASSUME BaseInv, Act, NEW k \in Starts
    PROVE  \/ row'[k] = row[k]
           \/ (MoveToArchive(k) /\ Archived(k))
           \/ Committed(k) \/ Adopted(k)
<1> USE DEF BaseInv
<1>1. CASE UNCHANGED row
  BY <1>1
<1>2. CASE Index
  <2>1. CASE Insert(dst, "worker", Collided(dst)) /\ live' = [live EXCEPT ![dst].synced = TRUE]
      BY <1>2, <2>1 DEF Index, Insert, TypeOK, Committed
  <2> QED BY <1>1, <1>2, <2>1 DEF Index
<1>3. ASSUME NEW j \in Starts, Adopt(j) PROVE row'[k] = row[k] \/ Adopted(k)
  BY <1>3 DEF Adopt, Insert, InFlight, Adopted, TypeOK
<1>4. ASSUME NEW j \in Starts, MoveToArchive(j) PROVE row'[k] = row[k] \/ (MoveToArchive(k) /\ Archived(k))
  BY <1>4 DEF MoveToArchive, Archived, TypeOK
<1> QED BY <1>1, <1>2, <1>3, <1>4
        DEF Act, PersistStep, Record, Finish, QuietBoundary, Judge, ReportVanished, Refuse, BeginCopy,
            FinishCopy, FailCopy, DeleteCached, EndFinish, Reconnect, Stop, Abort, Spawn, Crash,
            BackgroundCopyEnds, Quarantine, disk

LEMMA FileChanges ==
    ASSUME BaseInv, Act, NEW n \in Names
    PROVE  \/ Written(n)
           \/ FailCopy /\ n = dst /\ live'[n] = None
           \/ Crash
           \/ (\E k \in Starts : MoveToArchive(k) /\ n = row[k].name)
           \/ Quarantine(n)
<1> USE DEF BaseInv
<1>0. None \notin Names /\ None \notin File
  BY Circumstances
<1>1. CASE UNCHANGED live
  BY <1>1 DEF Written
<1>2. ASSUME NEW s \in Segments, BeginCopy(s) PROVE Written(n)
  <2>1. Begun(s)
      BY <1>2, BeginSays
  <2> QED BY <2>1 DEF Begun, Written, TypeOK
<1>3. CASE FinishCopy \/ Index
  <2>1. /\ dst \in Names /\ live[dst] \in File
        /\ \/ live' = [live EXCEPT ![dst].whole = TRUE]
           \/ live' = [live EXCEPT ![dst].synced = TRUE] \/ live' = live
      BY <1>3 DEF FinishCopy, Index, CopyOK, TypeOK, Copying
  <2>2. CASE live' = [live EXCEPT ![dst].whole = TRUE]
      BY <1>0, <2>1, <2>2 DEF TypeOK, File, Written
  <2>3. CASE live' = [live EXCEPT ![dst].synced = TRUE]
      BY <1>0, <2>1, <2>3 DEF TypeOK, File, Written
  <2> QED BY <1>1, <2>1, <2>2, <2>3
<1>4. CASE FailCopy
  <2>1. CASE live' = [live EXCEPT ![dst] = None]
      BY <1>4, <2>1 DEF TypeOK, Written
  <2> QED BY <1>1, <1>4, <2>1 DEF FailCopy
<1>5. CASE BackgroundCopyEnds
  <2>1. bg \in Names /\ live[bg] \in File
      BY <1>5 DEF BackgroundCopyEnds, TypeOK, CopyOK
  <2>2. CASE live' = [live EXCEPT ![bg].whole = TRUE]
      BY <1>0, <2>1, <2>2 DEF TypeOK, File, Written
  <2> QED BY <1>1, <1>5, <2>2 DEF BackgroundCopyEnds
<1>6. ASSUME NEW k \in Starts, MoveToArchive(k) PROVE Written(n) \/ n = row[k].name
  BY <1>6 DEF MoveToArchive, Written, TypeOK
<1>7. ASSUME NEW m \in Names, Quarantine(m) PROVE Written(n) \/ n = m
  BY <1>7 DEF Quarantine, Written, TypeOK
<1> QED BY <1>1, <1>2, <1>3, <1>4, <1>5, <1>6, <1>7
        DEF Act, PersistStep, Record, Finish, QuietBoundary, Judge, ReportVanished, Refuse,
            DeleteCached, EndFinish, Reconnect, Stop, Abort, Spawn, Adopt, disk

\* The bytes before the row.
LEMMA InitDurable == Init => CommittedRowsAreDurable
BY DEF Init, CommittedRowsAreDurable

LEMMA NextDurable == BaseInv /\ CommittedRowsAreDurable /\ [Next]_vars => CommittedRowsAreDurable'
<1> SUFFICES ASSUME BaseInv, CommittedRowsAreDurable, [Next]_vars PROVE CommittedRowsAreDurable'
    OBVIOUS
<1>0. None \notin Names /\ None \notin File
  BY Circumstances DEF BaseInv
<1>1. CASE UNCHANGED vars
  BY <1>1 DEF vars, state, disk, CommittedRowsAreDurable
<1>2. CASE Act
  <2> SUFFICES ASSUME NEW k \in Starts, row'[k] # None, row'[k].by = "worker", row'[k].at = "live"
               PROVE  /\ live'[row'[k].name] # None
                      /\ live'[row'[k].name].whole /\ live'[row'[k].name].synced
      BY DEF CommittedRowsAreDurable
  <2>1. CASE row'[k] = row[k] /\ ~MoveToArchive(k)
    <3> DEFINE n == row[k].name
    <3>1. /\ row[k] \in Row /\ n \in Names /\ n[1] = k
          /\ live[n] # None /\ live[n].whole /\ live[n].synced
        BY <2>1 DEF BaseInv, TypeOK, Row, FilesOK, CommittedRowsAreDurable
    <3>2. ~(FailCopy /\ n = dst)
        BY <3>1 DEF FailCopy, BaseInv, CopyOK
    <3>3. \A j \in Starts : MoveToArchive(j) => n # row[j].name
      <4> SUFFICES ASSUME NEW j \in Starts, MoveToArchive(j), n = row[j].name PROVE FALSE
          OBVIOUS
      <4>1. row[j].name[1] = j
          BY DEF MoveToArchive, BaseInv, FilesOK
      <4>2. j = k
          BY <3>1, <4>1
      <4> QED BY <2>1, <4>2
    <3>4. ~Quarantine(n)
        BY <2>1, <3>1 DEF Quarantine, Referenced
    <3>5. CASE Crash
        BY <2>1, <3>1, <3>5, CrashSays
    <3>6. CASE Written(n)
        BY <2>1, <3>1, <3>6 DEF Written
    <3> QED BY <1>2, <3>1, <3>2, <3>3, <3>4, <3>5, <3>6, FileChanges
  <2>2. CASE Committed(k)
    <3>1. dst \in Names /\ live[dst] \in File /\ live[dst].whole
        BY <2>2 DEF Committed, BaseInv, CopyOK, TypeOK, Copying
    <3>2. live'[dst] = [live[dst] EXCEPT !.synced = TRUE]
        BY <2>2, <3>1 DEF Committed, BaseInv, TypeOK
    <3>3. live'[dst] # None /\ live'[dst].whole /\ live'[dst].synced
        BY <1>0, <3>1, <3>2 DEF File
    <3> QED BY <2>2, <3>3 DEF Committed
  <2>3. ~MoveToArchive(k) /\ ~Adopted(k)
    <3>1. CASE MoveToArchive(k)
        BY <3>1 DEF MoveToArchive, BaseInv, TypeOK, Row
    <3>2. CASE Adopted(k)
        BY <3>2 DEF Adopted
    <3> QED BY <3>1, <3>2
  <2> QED BY <1>2, <2>1, <2>2, <2>3, RowChanges
<1> QED BY <1>1, <1>2 DEF Next

\* Where only failures pass no copy is cut short: what is not whole is the copy under way, and
\* a row has its file, of a kept segment, in the live storage.
PassInv ==
    Passing =>
        /\ bg = None /\ \A n \in Names : archive[n] = None
        /\ \A n \in Names : live[n] # None =>
              live[n].seg \in kept /\ (live[n].whole \/ (n = dst /\ pc = "copying"))
        /\ \A k \in Starts : row[k] # None =>
              row[k].at = "live" /\ live[row[k].name] # None /\ live[row[k].name].whole
        /\ parked \subseteq kept

LEMMA InitPass == Init => PassInv
BY DEF Init, PassInv

LEMMA NextPass == BaseInv /\ SafeInv /\ PassInv /\ [Next]_vars => PassInv'
<1> SUFFICES ASSUME BaseInv, SafeInv, PassInv, [Next]_vars, Passing' PROVE PassInv'
    BY DEF PassInv
<1>0. Faults' = Faults /\ None \notin Names /\ None \notin File /\ "overwrite" \notin Faults
      /\ Faults \subseteq {"copy", "index", "sync"} /\ PassInv /\ Passing
  BY Circumstances DEF BaseInv, Next, vars, Faults, Passing
<1>1. CASE UNCHANGED vars
  BY <1>0, <1>1 DEF vars, state, work, disk, PassInv
<1>2. CASE Act
  <2>1. bg' = None /\ archive' = archive /\ ~Abort /\ ~Crash
      /\ (\A k \in Starts : ~MoveToArchive(k)) /\ kept \subseteq kept'
      BY <1>0, <1>2 DEF PassInv, Act, PersistStep, Record, Finish, QuietBoundary, Judge, ReportVanished,
         Refuse, BeginCopy, FinishCopy, FailCopy, Index, DeleteCached, EndFinish, Reconnect, Stop, Abort,
         Spawn, Crash, BackgroundCopyEnds, Adopt, MoveToArchive, Quarantine, disk, work
  <2>2. ASSUME NEW n \in Names, live'[n] # None
        PROVE  live'[n].seg \in kept' /\ (live'[n].whole \/ (n = dst' /\ pc' = "copying"))
    <3>1. CASE FinishCopy \/ Index
      <4>1. /\ dst \in Names /\ live[dst] \in File /\ live[dst].seg \in kept
            /\ \/ FinishCopy /\ live' = [live EXCEPT ![dst].whole = TRUE]
               \/ Index /\ (live' = [live EXCEPT ![dst].synced = TRUE] \/ live' = live)
          BY <1>0, <3>1 DEF FinishCopy, Index, BaseInv, CopyOK, TypeOK, Copying, PassInv
      <4>2. live'[n].seg = live[n].seg /\ live[n] # None /\ (live[n].whole => live'[n].whole)
          BY <1>0, <2>2, <4>1 DEF BaseInv, TypeOK, File
      <4>3. pc = "copying" => live'[dst].whole
          BY <4>1, <3>1 DEF Index, BaseInv, TypeOK, File
      <4> QED BY <1>0, <2>1, <3>1, <4>2, <4>3 DEF PassInv, FinishCopy, Index
    <3>2. CASE FailCopy
      <4>1. live' = [live EXCEPT ![dst] = None]
          BY <1>0, <3>2 DEF FailCopy
      <4> QED BY <1>0, <2>1, <2>2, <3>2, <4>1 DEF PassInv, BaseInv, TypeOK
    <3>3. ASSUME NEW s \in Segments, BeginCopy(s)
          PROVE  live'[n].seg \in kept' /\ (live'[n].whole \/ (n = dst' /\ pc' = "copying"))
      <4>1. Begun(s)
          BY <3>3, BeginSays
      <4>2. cache[StartOf[s]] = s /\ s \in kept
          BY <1>0, <4>1 DEF Begun, SafeInv, InCache, InHands, Todos, BaseInv, TypeOK
      <4>3. live'[dst'].seg = s /\ \A m \in Names \ {dst'} : live'[m] = live[m]
          BY <4>1, <4>2 DEF Begun, BaseInv, TypeOK
      <4> QED BY <1>0, <2>1, <2>2, <4>1, <4>2, <4>3 DEF PassInv, Begun
    <3>4. CASE live'[n] = live[n] /\ (pc = "copying" => UNCHANGED <<pc, dst>>)
        BY <1>0, <2>1, <2>2, <3>4 DEF PassInv
    <3>5. ASSUME NEW m \in Names, Quarantine(m) PROVE live'[n] = live[n] /\ UNCHANGED <<pc, dst>>
        BY <2>2, <3>5 DEF Quarantine, BaseInv, TypeOK, work
    <3> QED BY <1>0, <1>2, <2>1, <3>1, <3>2, <3>3, <3>4, <3>5
            DEF Act, PersistStep, Record, Finish, QuietBoundary, Judge, ReportVanished, Refuse,
                DeleteCached, EndFinish, Reconnect, Stop, Spawn, BackgroundCopyEnds, Adopt, disk, work, PassInv
  <2>3. parked' \subseteq kept'
    <3>1. ASSUME NEW n \in Names, Quarantine(n) PROVE parked' \subseteq kept'
        BY <1>0, <2>1, <3>1 DEF Quarantine, Taken, PassInv
    <3>2. parked' = parked \/ \E n \in Names : Quarantine(n)
        BY <1>2, <2>1 DEF Act, PersistStep, Record, Finish, QuietBoundary, Judge, ReportVanished,
           Refuse, BeginCopy, FinishCopy, FailCopy, Index, DeleteCached, EndFinish, Reconnect, Stop,
           Spawn, BackgroundCopyEnds, Adopt, disk
    <3> QED BY <1>0, <2>1, <3>1, <3>2 DEF PassInv
  <2>4. ASSUME NEW k \in Starts, row'[k] # None
        PROVE  row'[k].at = "live" /\ live'[row'[k].name] # None /\ live'[row'[k].name].whole
    <3>1. CASE row'[k] = row[k]
      <4> DEFINE n == row[k].name
      <4>1. n \in Names /\ row[k].at = "live" /\ live[n] # None /\ live[n].whole /\ n[1] = k
          BY <1>0, <2>4, <3>1 DEF PassInv, BaseInv, TypeOK, Row, FilesOK
      <4>2. ~(FailCopy /\ n = dst) /\ ~Quarantine(n)
          BY <2>4, <3>1, <4>1 DEF FailCopy, Quarantine, Referenced, BaseInv, CopyOK
      <4>3. Written(n)
          BY <1>2, <2>1, <4>1, <4>2, FileChanges
      <4> QED BY <3>1, <4>1, <4>3 DEF Written
    <3>2. CASE Committed(k)
      <4>1. dst \in Names /\ live[dst] \in File /\ live[dst].whole
          BY <3>2 DEF Committed, BaseInv, CopyOK, TypeOK, Copying
      <4>2. live'[dst] = [live[dst] EXCEPT !.synced = TRUE]
          BY <3>2, <4>1 DEF Committed, BaseInv, TypeOK
      <4>3. live'[dst] # None /\ live'[dst].whole
          BY <1>0, <4>1, <4>2 DEF File
      <4> QED BY <3>2, <4>3 DEF Committed
    <3>3. CASE Adopted(k)
      <4>1. <<k, 0>> \in Names
          BY PersistAssumption DEF Names
      <4> QED BY <1>0, <3>3, <4>1 DEF Adopted, Taken, PassInv
    <3> QED BY <1>2, <2>1, <3>1, <3>2, <3>3, RowChanges
  <2> QED BY <1>0, <2>1, <2>2, <2>3, <2>4 DEF PassInv
<1> QED BY <1>1, <1>2 DEF Next

LEMMA PassHolds == Spec => [](CommittedRowsAreDurable /\ PassInv)
<1>1. Init => CommittedRowsAreDurable /\ PassInv
  BY InitDurable, InitPass
<1>2. BaseInv /\ SafeInv /\ CommittedRowsAreDurable /\ PassInv /\ [Next]_vars
         => (CommittedRowsAreDurable /\ PassInv)'
  BY NextDurable, NextPass
<1> QED BY <1>1, <1>2, BaseHolds, SafeHolds, PTL DEF Spec

\* Items 17 and 20 of RECORDER-CORRECTNESS.md (recording.rs index_segment): the file behind a row
\* the recording task committed is whole and fsynced, whatever crash or power loss comes, and where
\* only failures pass every row has a whole file.
THEOREM RowsStayGood == Spec => []RowsAreGood
<1>1. CommittedRowsAreDurable /\ PassInv => RowsAreGood
  BY DEF PassInv, RowsAreGood, RowsShowWholeSegments
<1> QED BY <1>1, PassHolds, PTL

-----------------------------------------------------------------------------
(* Indexed footage wins.                                                       *)

\* No file leaves the live storage but by a failed copy or the orphan pass.
Still == {"archive", "power"} \cap Faults = {}
Distinct == \A s, t \in Segments : StartOf[s] = StartOf[t] => s = t

\* A row's file is there, and so is the file of the plain name; a copy to a plain name is of a
\* start time without a row.
WinsInv ==
    Still =>
        /\ \A k \in Starts : row[k] # None =>
              row[k].at = "live" /\ live[row[k].name] # None /\ live[<<k, 0>>] # None
        /\ pc \in {"copying", "copied"} =>
              (IF Collided(dst) THEN live[<<dst[1], 0>>] # None ELSE row[dst[1]] = None)
        /\ pc \in {"copying", "copied"} => \A k \in Starts : row[k] # None => row[k].name # dst

LEMMA InitWins == Init => WinsInv
BY DEF Init, WinsInv

\* Where files stay, so does whatever is behind a row and under a plain name.
LEMMA FilesStay ==
    ASSUME BaseInv, Still, Act, NEW n \in Names, live[n] # None,
           ~(FailCopy /\ n = dst), ~Quarantine(n)
    PROVE  live'[n] # None /\ live'[n].seg = live[n].seg
<1>1. \A k \in Starts : ~MoveToArchive(k)
  BY DEF Still, MoveToArchive
<1>2. Crash => live'[n] = live[n]
  BY CrashSays DEF Still
<1> QED BY <1>1, <1>2, FileChanges DEF Written

LEMMA RowStays ==
    ASSUME BaseInv, WinsInv, Still, Act, NEW k \in Starts, row[k] # None
    PROVE  /\ row'[k] = row[k] /\ live'[row[k].name] # None /\ live'[<<k, 0>>] # None
           /\ live'[row[k].name].seg = live[row[k].name].seg
<1>1. /\ row[k] \in Row /\ row[k].name \in Names /\ <<k, 0>> \in Names /\ row[k].name[1] = k
      /\ row[k].at = "live" /\ live[row[k].name] # None /\ live[<<k, 0>>] # None
  BY PersistAssumption DEF BaseInv, TypeOK, FilesOK, Row, Names, WinsInv
<1>2. row'[k] = row[k]
  <2>1. ~Committed(k)
      BY DEF Committed, WinsInv
  <2> QED BY <2>1, RowChanges DEF MoveToArchive, Still, Adopted
<1>3. ~(FailCopy /\ row[k].name = dst) /\ ~Quarantine(row[k].name)
  BY <1>1 DEF FailCopy, WinsInv, Quarantine, Referenced
<1>4. ~(FailCopy /\ <<k, 0>> = dst) /\ ~Quarantine(<<k, 0>>)
  BY <1>1 DEF FailCopy, WinsInv, Quarantine, Collided
<1> QED BY <1>1, <1>2, <1>3, <1>4, FilesStay

LEMMA NextWins == BaseInv /\ BaseInv' /\ WinsInv /\ [Next]_vars => WinsInv'
<1> SUFFICES ASSUME BaseInv, BaseInv', WinsInv, [Next]_vars, Still PROVE WinsInv'
    BY DEF WinsInv, Next, vars, Still, Faults
<1>1. CASE UNCHANGED vars
  BY <1>1 DEF vars, state, work, disk, WinsInv, Still, Faults
<1>2. CASE Act /\ UNCHANGED setting
  <2>0. pc' \in {"copying", "copied"} =>
        (\E s \in Segments : BeginCopy(s)) \/ (pc \in {"copying", "copied"} /\ dst' = dst)
      BY <1>2 DEF Act, PersistStep, Record, Finish, QuietBoundary, Judge, ReportVanished, Refuse,
         FinishCopy, FailCopy, Index, DeleteCached, EndFinish, Reconnect, Stop, Abort, Spawn, Crash,
         Forget, BackgroundCopyEnds, Adopt, MoveToArchive, Quarantine, disk, work
  <2>1. ASSUME NEW k \in Starts, row'[k] # None
        PROVE  row'[k].at = "live" /\ live'[row'[k].name] # None /\ live'[<<k, 0>>] # None
    <3>1. CASE row[k] # None
        BY <1>2, <3>1, RowStays DEF WinsInv
    <3>2. CASE Committed(k)
      <4>1. dst \in Names /\ dst[1] = k /\ live[dst] # None /\ <<k, 0>> \in Names
          BY <3>2, PersistAssumption DEF Committed, BaseInv, CopyOK, Copying, Names
      <4>2. live[<<k, 0>>] # None
          BY <3>2, <4>1 DEF Committed, WinsInv, Collided, Names
      <4>3. ~FailCopy /\ ~Quarantine(dst) /\ ~Quarantine(<<k, 0>>)
          BY <3>2 DEF Committed, FailCopy, Quarantine, work
      <4>4. live'[dst] # None /\ live'[<<k, 0>>] # None
          BY <1>2, <4>1, <4>2, <4>3, FilesStay
      <4> QED BY <3>2, <4>4 DEF Committed
    <3>3. CASE Adopted(k)
        BY <3>3 DEF Adopted, Taken
    <3> QED BY <1>2, <2>1, <3>1, <3>2, <3>3, RowChanges DEF Archived, MoveToArchive
  <2>2. ASSUME pc' \in {"copying", "copied"}
        PROVE  IF Collided(dst') THEN live'[<<dst'[1], 0>>] # None ELSE row'[dst'[1]] = None
    <3>1. ASSUME NEW s \in Segments, BeginCopy(s)
          PROVE  IF Collided(dst') THEN live'[<<dst'[1], 0>>] # None ELSE row'[dst'[1]] = None
      <4>1. Begun(s)
          BY <3>1, BeginSays
      <4>2. <<StartOf[s], 0>> \in Names
          BY <4>1, PersistAssumption DEF Begun, Names
      <4>3. CASE Collided(dst')
        <5>1. live[<<StartOf[s], 0>>] # None /\ ~FailCopy /\ ~Quarantine(<<StartOf[s], 0>>)
            BY <4>1, <4>3, <3>1 DEF Begun, Taken, BeginCopy, FailCopy, Quarantine, Collided
        <5> QED BY <1>2, <4>1, <4>2, <4>3, <5>1, FilesStay DEF Begun
      <4>4. CASE ~Collided(dst')
          BY <4>1, <4>4 DEF Begun, Taken, WinsInv
      <4> QED BY <4>3, <4>4
    <3>2. CASE pc \in {"copying", "copied"} /\ dst' = dst
      <4>1. dst \in Names /\ dst[1] \in Starts /\ <<dst[1], 0>> \in Names
          BY <3>2, PersistAssumption DEF BaseInv, CopyOK, Copying, Names
      <4>2. CASE Collided(dst)
        <5>1. ~FailCopy /\ ~Quarantine(<<dst[1], 0>>)
            BY <2>2 DEF FailCopy, Quarantine, Collided
        <5> QED BY <1>2, <3>2, <4>1, <4>2, <5>1, FilesStay DEF WinsInv
      <4>3. CASE ~Collided(dst)
        <5>1. ~Committed(dst[1]) /\ ~Adopted(dst[1])
            BY <2>2, <4>1, <4>3 DEF Committed, Adopted, Collided, Names
        <5>2. row[dst[1]] = None
            BY <3>2, <4>3 DEF WinsInv
        <5> QED BY <1>2, <3>2, <4>1, <4>3, <5>1, <5>2, RowChanges DEF MoveToArchive
      <4> QED BY <4>2, <4>3
    <3> QED BY <2>0, <2>2, <3>1, <3>2
  <2>3. ASSUME pc' \in {"copying", "copied"}, NEW k \in Starts, row'[k] # None
        PROVE  row'[k].name # dst'
    <3>1. ASSUME NEW s \in Segments, BeginCopy(s) PROVE row'[k].name # dst'
      <4>1. Begun(s)
          BY <3>1, BeginSays
      <4> QED BY <2>3, <4>1 DEF Begun, WinsInv
    <3>2. CASE pc \in {"copying", "copied"} /\ dst' = dst
      <4>1. ~Committed(k)
          BY <2>3 DEF Committed
      <4>2. CASE row'[k] = row[k]
          BY <2>3, <3>2, <4>2 DEF WinsInv
      <4>3. CASE Adopted(k)
          BY <3>2, <4>3 DEF Adopted
      <4> QED BY <1>2, <4>1, <4>2, <4>3, RowChanges DEF MoveToArchive, Still
    <3> QED BY <2>0, <2>3, <3>1, <3>2
  <2> QED BY <2>1, <2>2, <2>3 DEF WinsInv
<1> QED BY <1>1, <1>2 DEF Next

LEMMA WinsHolds == Spec => [](BaseInv /\ WinsInv)
BY InitWins, NextWins, BaseHolds, PTL DEF Spec

\* What a row shows is a recorded segment of its start time.
LEMMA ShownIs ==
    ASSUME BaseInv, NEW k \in Starts, Shown(k) # None
    PROVE  /\ Shown(k) \in Segments /\ StartOf[Shown(k)] = k /\ row[k] # None
           /\ row[k].at = "live" => live[row[k].name] # None /\ Shown(k) = live[row[k].name].seg
<1>1. row[k] \in Row /\ row[k].name \in Names /\ row[k].name[1] = k
  BY DEF Shown, BaseInv, TypeOK, FilesOK, Row
<1> QED BY <1>1 DEF Shown, BaseInv, TypeOK, FilesOK

LEMMA StepWins ==
    ASSUME BaseInv, BaseInv', WinsInv, [Next]_vars, Still \/ Distinct
    PROVE  StoredStays /\ RowsStay
<1>1. CASE UNCHANGED vars
  BY <1>1 DEF vars, state, disk, StoredStays, RowsStay, Stored, Whole, Shown
<1>2. CASE Act /\ UNCHANGED setting
  <2>1. StoredStays
      BY <1>2, StoredIsKept DEF StoredStays
  <2>2. CASE Still
    <3> SUFFICES ASSUME NEW k \in Starts, Shown(k) # None PROVE Shown(k)' = Shown(k)
        BY <2>1 DEF RowsStay
    <3>1. row[k] # None /\ row[k].at = "live" /\ Shown(k) = live[row[k].name].seg
        BY <2>2, ShownIs DEF WinsInv
    <3>2. /\ row'[k] = row[k] /\ live'[row[k].name] # None
          /\ live'[row[k].name].seg = live[row[k].name].seg
        BY <1>2, <2>2, <3>1, RowStays
    <3> QED BY <3>1, <3>2 DEF Shown
  <2>3. CASE Distinct
    <3> SUFFICES ASSUME NEW k \in Starts, Shown(k) # None, Shown(k)' # None
                 PROVE  Shown(k)' = Shown(k)
        BY <2>1 DEF RowsStay
    <3>1. Shown(k) \in Segments /\ StartOf[Shown(k)] = k
        BY ShownIs
    <3>2. Shown(k)' \in Segments /\ StartOf'[Shown(k)'] = k
      <4>1. row'[k] # None
          BY DEF Shown
      <4>2. row'[k] \in Row /\ row'[k].name \in Names /\ row'[k].name[1] = k
          BY <4>1 DEF BaseInv, TypeOK, FilesOK, Row
      <4> QED BY <4>1, <4>2 DEF Shown, BaseInv, TypeOK, FilesOK
    <3>3. StartOf' = StartOf
        BY <1>2 DEF StartOf
    <3> QED BY <2>3, <3>1, <3>2, <3>3 DEF Distinct
  <2> QED BY <2>1, <2>2, <2>3
<1> QED BY <1>1, <1>2 DEF Next

\* Issue #144 (recording.rs persist_cached_segment and index_segment, reconcile.rs): stored footage
\* is never overwritten or removed and a row never shows another segment, provided that segments
\* have distinct start times, or that the archiver takes no file and the power stays on. Without
\* that it is not so: once the older file has been moved, the collision is not seen.
THEOREM FootageWins ==
    ASSUME \A st \in Settings :
              \/ \A s, t \in Segments : st.startOf[s] = st.startOf[t] => s = t
              \/ {"archive", "power"} \cap st.faults = {}
    PROVE  Spec => IndexedFootageWins
<1>1. BaseInv => Still \/ Distinct
  BY DEF BaseInv, TypeOK, Still, Distinct, Faults, StartOf
<1>2. BaseInv /\ BaseInv' /\ WinsInv /\ [Next]_vars => [StoredStays /\ RowsStay]_vars
  BY <1>1, StepWins
<1> QED BY <1>2, WinsHolds, PTL DEF Spec, IndexedFootageWins

-----------------------------------------------------------------------------
(* The detailed specification implements the safety part of Footage.           *)

LEMMA StepIsFootage ==
    ASSUME BaseInv, PassInv, [Next]_vars
    PROVE  [F!Next]_FootageStatus
<1>1. CASE UNCHANGED vars
  BY <1>1 DEF vars, state, disk, FootageStatus, Passing, Faults, Stored, Whole
<1>2. CASE Act /\ UNCHANGED setting /\ ~Passing
  BY <1>2 DEF FootageStatus, Passing, Faults
<1>3. CASE Act /\ UNCHANGED setting /\ Passing
  <2>0. Passing' /\ ~Crash
      BY <1>3 DEF Passing, Faults, Crash
  <2>1. CASE kept' = kept
    <3> DEFINE some == {s \in kept : ~Stored(s) /\ Stored(s)'}
    <3>1. some \subseteq {s \in Segments : FootageStatus[s] = "kept"}
        BY <1>3 DEF FootageStatus, BaseInv, TypeOK
    <3>2. FootageStatus' = [s \in Segments |-> IF s \in some THEN "stored" ELSE FootageStatus[s]]
      <4>1. ASSUME NEW s \in Segments
            PROVE  FootageStatus'[s] = IF s \in some THEN "stored" ELSE FootageStatus[s]
        <5>1. Stored(s) => Stored(s)'
            BY <1>3, <2>0, StoredIsKept
        <5> QED BY <1>3, <2>0, <2>1, <5>1 DEF FootageStatus
      <4> QED BY <4>1 DEF FootageStatus
    <3>3. F!Store(some)
        BY <3>1, <3>2 DEF F!Store
    <3>4. some \in SUBSET Segments
        BY DEF BaseInv, TypeOK
    <3> QED BY <3>3, <3>4 DEF F!Next
  <2>2. CASE kept' # kept
    <3> DEFINE judged == kept' \ kept
    <3>1. kept \subseteq kept' /\ UNCHANGED disk /\ kept' \subseteq Segments
      <4>1. (\E s \in Segments : Finish(s)) \/ QuietBoundary
          BY <1>3, <2>2 DEF Act, PersistStep, Record, ReportVanished, Refuse, BeginCopy, FinishCopy, FailCopy,
             Index, DeleteCached, EndFinish, Reconnect, Stop, Abort, Spawn, Crash, BackgroundCopyEnds, Adopt,
             MoveToArchive, Quarantine
      <4>2. BaseInv'
          BY <1>3, <4>1, VerdictKeepsBase
      <4> QED BY <4>1, <4>2 DEF Finish, QuietBoundary, Judge, BaseInv, TypeOK
    <3>2. \A s \in Segments : (Stored(s)' <=> Stored(s)) /\ (Stored(s) => s \in kept)
      <4>1. \A s \in Segments : Stored(s) => s \in kept
          BY <1>3 DEF PassInv, Stored, Whole
      <4> QED BY <3>1, <4>1 DEF disk, Stored, Whole
    <3>3. judged \subseteq {s \in Segments : FootageStatus[s] = "pending"}
        BY <3>1 DEF FootageStatus
    <3>4. FootageStatus' = [s \in Segments |-> IF s \in judged THEN "kept" ELSE FootageStatus[s]]
      <4>1. ASSUME NEW s \in Segments
            PROVE  FootageStatus'[s] = IF s \in judged THEN "kept" ELSE FootageStatus[s]
          BY <1>3, <2>0, <3>1, <3>2 DEF FootageStatus
      <4> QED BY <4>1 DEF FootageStatus
    <3>5. F!Keep(judged)
        BY <3>3, <3>4 DEF F!Keep
    <3> QED BY <3>1, <3>5 DEF F!Next
  <2> QED BY <2>1, <2>2
<1> QED BY <1>1, <1>2, <1>3 DEF Next

\* Every step from verdict to file and row is a step of Footage or none: where only failures pass,
\* a segment is judged, then stored, and what is stored stays so; its liveness is left to TLC.
THEOREM PersistIsFootage == Spec => F!Init /\ [][F!Next]_FootageStatus
<1>1. Init => F!Init
  BY DEF Init, F!Init, FootageStatus
<1>2. BaseInv /\ PassInv /\ [Next]_vars => [F!Next]_FootageStatus
  BY StepIsFootage
<1> QED BY <1>1, <1>2, BaseHolds, PassHolds, PTL DEF Spec
=============================================================================
