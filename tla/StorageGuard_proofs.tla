-------------------------- MODULE StorageGuard_proofs --------------------------
(* What a reconcile pass may prune, for every number of segments, mounts,        *)
(* restarts and every setting of the breaker: type correctness, the bound on the *)
(* rows a vanishing disk can cost, the latch, and that a pass with a steady mount*)
(* prunes no row whose file is there.                                            *)
EXTENDS StorageGuard, FiniteSetTheorems, TLAPS

(***************************************************************************)
(* Type correctness.                                                        *)
(***************************************************************************)

\* Any subset of the segments is finite.
LEMMA SubsetsAreFinite ==
    \A S : S \subseteq Segs => IsFiniteSet(S) /\ Cardinality(S) \in Nat
BY GuardAssumption, FS_Subset, FS_CardinalityType

\* The row being visited, and those still to be visited, were recorded; a row is visited
\* only in the rows stage of a pass that has found the marker.
Visiting ==
    /\ step = "next" <=> seg = NoSeg
    /\ step # "next" => stage = "rows" /\ guard.marker = "present"
    /\ \A s \in Segs : s \in todo \/ s = seg => row[s] # "unborn"

TypeInv == TypeOK /\ Visiting

\* A process starts type correct.
LEMMA InitTypeInv == Init => TypeInv
<1> SUFFICES ASSUME Init PROVE TypeInv
    OBVIOUS
<1>1. files \in [Dirs -> SUBSET Segs] /\ marker \subseteq Dirs
    BY GuardAssumption DEF Init, Dirs
<1>2. guard \in Guard
    BY DEF Init, NewGuard, Guard
<1>3. row \in [Segs -> Places] /\ vouch \in [Writers -> {"rest", "look", "write"}]
    BY DEF Init, Places
<1>4. flips \in 0..MaxFlips /\ restarts \in 0..MaxRestarts
    BY GuardAssumption DEF Init
<1>5. TypeOK
    BY <1>1, <1>2, <1>3, <1>4 DEF Init, TypeOK
<1>6. Visiting
    BY GuardAssumption DEF Init, Visiting
<1> QED BY <1>5, <1>6 DEF TypeInv

\* Every step preserves the type invariant and what it rests on.
LEMMA NextTypeInv == TypeInv /\ [Next]_vars => TypeInv'
<1> SUFFICES ASSUME TypeInv, [Next]_vars PROVE TypeInv'
    OBVIOUS
<1> USE GuardAssumption DEF TypeInv
<1>0. Root \in Dirs /\ \A p : DirAt(p) \in Dirs
    BY DEF Root, DirAt, Dirs
<1>1. CASE Flip
  <2>1. mounted' \in BOOLEAN /\ flips' \in 0..MaxFlips
      BY <1>1 DEF Flip, TypeOK
  <2> QED BY <1>1, <2>1 DEF Flip, TypeOK, Visiting, marking, visit
<1>2. CASE Restart
  <2>1. restarts' \in 0..MaxRestarts /\ guard' \in Guard
      BY <1>2 DEF Restart, TypeOK, NewGuard, Guard
  <2>2. vouch' \in [Writers -> {"rest", "look", "write"}]
      BY <1>2 DEF Restart
  <2> QED BY <1>2, <2>1, <2>2 DEF Restart, TypeOK, Visiting
<1>3. ASSUME NEW s \in Segs, LoseFile(s) PROVE TypeInv'
    BY <1>3 DEF LoseFile, TypeOK, Visiting, env, marking, pass, visit, Dirs
<1>4. ASSUME NEW s \in Segs, Record(s) PROVE TypeInv'
    BY <1>0, <1>4 DEF Record, TypeOK, Visiting, env, pass, visit, Places, Writers
<1>5. ASSUME NEW s \in Segs, MoveCopy(s) PROVE TypeInv'
    BY <1>5 DEF MoveCopy, TypeOK, Visiting, env, marking, pass, visit, Dirs
<1>6. ASSUME NEW s \in Segs, Expire(s) PROVE TypeInv'
    BY <1>0, <1>6 DEF Expire, TypeOK, Visiting, env, marking, pass, visit, Places
<1>7. CASE MoveRow
  <2>1. moving \in Segs \X BOOLEAN
      BY <1>7 DEF MoveRow, TypeOK
  <2>2. moving[1] \in Segs
      BY <2>1
  <2>3. moving' \in {<<moving[1], TRUE>>, NoSeg}
      BY <1>7 DEF MoveRow
  <2>4. <<moving[1], TRUE>> \in Segs \X BOOLEAN
      BY <2>2
  <2>5. moving' \in (Segs \X BOOLEAN) \cup {NoSeg}
      BY <2>3, <2>4
  <2> QED BY <1>7, <2>2, <2>5 DEF MoveRow, TypeOK, Visiting, env, marking, pass, visit, Places
<1>8. CASE MoveDelete
    BY <1>0, <1>8 DEF MoveDelete, TypeOK, Visiting, env, marking, pass, visit
<1>9. ASSUME NEW w \in Writers, Look(w) PROVE TypeInv'
    BY <1>9 DEF Look, TypeOK, Visiting, env, pass, visit
<1>10. ASSUME NEW w \in Writers, EnsureMarker(w) PROVE TypeInv'
    BY <1>0, <1>10 DEF EnsureMarker, TypeOK, Visiting, env, pass, visit
<1>11. CASE StartPass
    BY <1>11 DEF StartPass, TypeOK, Visiting, env, visit, Writers
<1>12. CASE ReadPage
  <2>1. LiveRows \subseteq Segs /\ Cardinality(LiveRows) \in Nat
      BY SubsetsAreFinite DEF LiveRows
  <2>2. \A s \in LiveRows : row[s] # "unborn"
      BY DEF LiveRows
  <2> QED BY <1>12, <2>1, <2>2 DEF ReadPage, TypeOK, Visiting, env, marking, visit, NewGuard, Guard
<1>13. CASE LoadGuard
    BY <1>13 DEF LoadGuard, TypeOK, Visiting, env, marking, visit, Guard
<1>14. ASSUME NEW s \in Segs, Visit(s) PROVE TypeInv'
  <2>1. guard' \in Guard /\ guard'.marker = guard.marker
    <3>1. CASE guard.marker = "absent"
        BY <1>14, <3>1 DEF Visit, TypeOK
    <3>2. ASSUME NEW n \in {guard.missing, guard.missing + 1},
                 guard' = [guard EXCEPT !.checked = @ + 1, !.missing = n]
          PROVE  guard' \in Guard /\ guard'.marker = guard.marker
      <4>1. guard \in Guard /\ guard.checked + 1 \in Nat /\ n \in Nat
          BY <3>2 DEF TypeOK, Guard
      <4> QED BY <3>2, <4>1 DEF Guard
    <3>3. CASE guard.marker # "absent" /\ guard.marker = "present" /\ s \notin files[Root]
      <4>1. guard' = [guard EXCEPT !.checked = @ + 1, !.missing = @ + 1]
          BY <1>14, <3>3 DEF Visit
      <4> QED BY <4>1, <3>2
    <3>4. CASE guard.marker # "absent" /\ ~(guard.marker = "present" /\ s \notin files[Root])
      <4>1. guard' = [guard EXCEPT !.checked = @ + 1, !.missing = @]
          BY <1>14, <3>4 DEF Visit
      <4> QED BY <4>1, <3>2
    <3> QED BY <3>1, <3>3, <3>4
  <2>2. \/ seg' = s /\ step' = "refetch" /\ guard.marker = "present"
        \/ seg' = seg /\ step' = step
    <3>1. CASE guard.marker = "present" /\ s \notin files[Root]
        BY <1>14, <3>1 DEF Visit
    <3>2. CASE ~(guard.marker = "present" /\ s \notin files[Root])
        BY <1>14, <3>2 DEF Visit
    <3> QED BY <3>1, <3>2
  <2> QED BY <1>14, <2>1, <2>2 DEF Visit, TypeOK, Visiting, env, marking
<1>15. CASE Refetch
  <2>0. seg \in Segs /\ row[seg] \in {"live", "archive", "gone"}
      BY <1>15 DEF Refetch, TypeOK, Visiting, Places
  <2>1. CASE row[seg] = "gone"
      BY <1>15, <2>1 DEF Refetch, Leave, TypeOK, Visiting, env, marking
  <2>2. CASE row[seg] # "gone"
      BY <1>15, <2>0, <2>2 DEF Refetch, TypeOK, Visiting, env, marking
  <2> QED BY <2>1, <2>2
<1>16. CASE Restat
  <2>1. guard' \in Guard /\ guard'.marker = guard.marker /\ latched' \in BOOLEAN
    <3>1. CASE guard' = guard /\ latched' = latched
        BY <3>1 DEF TypeOK
    <3>2. CASE guard' = [guard EXCEPT !.tripped = TRUE] /\ latched' = TRUE
        BY <3>2 DEF TypeOK, Guard
    <3> QED BY <1>16, <3>1, <3>2 DEF Restat
  <2>2. Leave \/ (step' = "delete" /\ UNCHANGED <<seg, at>>)
      BY <1>16 DEF Restat
  <2> QED BY <1>16, <2>1, <2>2 DEF Restat, Leave, TypeOK, Visiting, env, marking
<1>17. CASE DeleteRow
  <2>1. row' \in [Segs -> Places] /\ lost' \subseteq Segs
      BY <1>17 DEF DeleteRow, TypeOK, Visiting, Places
  <2>2. \A s \in Segs : row'[s] = "unborn" => row[s] = "unborn"
      BY <1>17 DEF DeleteRow, TypeOK, Visiting
  <2> QED BY <1>17, <2>1, <2>2 DEF DeleteRow, Leave, TypeOK, Visiting, env, marking
<1>18. CASE DeleteFails
    BY <1>18 DEF DeleteFails, Leave, TypeOK, Visiting, env, marking
<1>19. CASE EndRows
    BY <1>19 DEF EndRows, TypeOK, Visiting, env, marking, visit
<1>20. ASSUME NEW s \in Segs, NEW p \in {"live", "archive"}, Adopt(s, p) PROVE TypeInv'
    BY <1>20 DEF Adopt, TypeOK, Visiting, env, marking, pass, visit, Places
<1>21. CASE EndPass
    BY <1>21 DEF EndPass, TypeOK, Visiting, env, marking, visit
<1>22. CASE UNCHANGED vars
    BY <1>22 DEF vars, TypeOK, Visiting, env, marking, pass, visit
<1> QED
    BY <1>1, <1>2, <1>3, <1>4, <1>5, <1>6, <1>7, <1>8, <1>9, <1>10, <1>11, <1>12, <1>13,
       <1>14, <1>15, <1>16, <1>17, <1>18, <1>19, <1>20, <1>21, <1>22 DEF Next

\* Reconcile and everything it works next to are type correct.
THEOREM TypeCorrect == Spec => []TypeOK
<1>1. Spec => []TypeInv
    BY InitTypeInv, NextTypeInv, PTL DEF Spec
<1> QED BY <1>1, PTL DEF TypeInv

(***************************************************************************)
(* The world leaves the pass alone.                                         *)
(***************************************************************************)
\* Everything that is not a step of the pass, nor the end of the process.
World ==
    \/ Flip \/ MoveRow \/ MoveDelete
    \/ \E s \in Segs : LoseFile(s) \/ Record(s) \/ MoveCopy(s) \/ Expire(s)
    \/ \E w \in Writers : Look(w) \/ EnsureMarker(w)
    \/ \E s \in Segs, place \in {"live", "archive"} : Adopt(s, place)
    \/ UNCHANGED vars

\* A step of the program is one of the world's, or one of the pass's.
LEMMA NextSplits ==
    [Next]_vars => \/ World \/ Restart \/ StartPass \/ ReadPage \/ LoadGuard
                   \/ (\E s \in Segs : Visit(s)) \/ Refetch \/ Restat \/ DeleteRow
                   \/ DeleteFails \/ EndRows \/ EndPass
BY DEF Next, World

\* The world changes neither the pass nor the latch.
LEMMA WorldLeavesPass ==
    World => UNCHANGED <<latched, stage, todo, guard, seg, step, at, lost>>
<1> SUFFICES ASSUME World PROVE UNCHANGED <<latched, stage, todo, guard, seg, step, at, lost>>
    OBVIOUS
<1>1. CASE Flip
    BY <1>1 DEF Flip, visit
<1>2. CASE MoveRow \/ MoveDelete
    BY <1>2 DEF MoveRow, MoveDelete, pass, visit
<1>3. ASSUME NEW s \in Segs, LoseFile(s) \/ Record(s) \/ MoveCopy(s) \/ Expire(s)
      PROVE  UNCHANGED <<latched, stage, todo, guard, seg, step, at, lost>>
    BY <1>3 DEF LoseFile, Record, MoveCopy, Expire, pass, visit
<1>4. ASSUME NEW w \in Writers, Look(w) \/ EnsureMarker(w)
      PROVE  UNCHANGED <<latched, stage, todo, guard, seg, step, at, lost>>
    BY <1>4 DEF Look, EnsureMarker, pass, visit
<1>5. ASSUME NEW s \in Segs, NEW p \in {"live", "archive"}, Adopt(s, p)
      PROVE  UNCHANGED <<latched, stage, todo, guard, seg, step, at, lost>>
    BY <1>5 DEF Adopt, pass, visit
<1>6. CASE UNCHANGED vars
    BY <1>6 DEF vars, pass, visit
<1> QED BY <1>1, <1>2, <1>3, <1>4, <1>5, <1>6 DEF World

(***************************************************************************)
(* The breaker.                                                             *)
(***************************************************************************)

\* A pass that began latched has no confirmed guard, and one that trips stops deleting.
LatchInv ==
    /\ latched /\ stage = "rows" /\ guard.marker = "present" => guard.tripped
    /\ step = "delete" => ~guard.tripped

\* Every step preserves it.
LEMMA NextLatchInv == TypeInv /\ LatchInv /\ [Next]_vars => LatchInv'
<1> SUFFICES ASSUME TypeInv, LatchInv, [Next]_vars PROVE LatchInv'
    OBVIOUS
<1>1. CASE World
    BY <1>1, WorldLeavesPass DEF LatchInv
<1>2. CASE Restart
    BY <1>2 DEF Restart, LatchInv
<1>3. CASE StartPass
    BY <1>3 DEF StartPass, LatchInv, visit
<1>4. CASE ReadPage
  <2>1. step = "next"
      BY <1>4 DEF ReadPage, TypeInv, Visiting
  <2> QED BY <1>4, <2>1 DEF ReadPage, LatchInv, NewGuard, visit
<1>5. CASE LoadGuard
  <2>1. step = "next"
      BY <1>5 DEF LoadGuard, TypeInv, Visiting
  <2>2. guard'.marker = "present" => ~latched
      BY <1>5 DEF LoadGuard, TypeInv, TypeOK, Guard
  <2> QED BY <1>5, <2>1, <2>2 DEF LoadGuard, LatchInv, visit
<1>6. ASSUME NEW s \in Segs, Visit(s) PROVE LatchInv'
  <2>1. guard'.marker = guard.marker /\ guard'.tripped = guard.tripped
      BY <1>6 DEF Visit, TypeInv, TypeOK, Guard
  <2>2. step' # "delete"
      BY <1>6 DEF Visit, TypeInv, Visiting
  <2> QED BY <1>6, <2>1, <2>2 DEF Visit, LatchInv
<1>7. CASE Refetch
    BY <1>7 DEF Refetch, Leave, LatchInv
<1>8. CASE Restat
  <2>1. CASE Leave /\ UNCHANGED <<guard, latched>>
      BY <1>8, <2>1 DEF Restat, Leave, LatchInv
  <2>2. CASE Leave /\ guard' = [guard EXCEPT !.tripped = TRUE]
      BY <1>8, <2>2 DEF Restat, Leave, LatchInv, TypeInv, TypeOK, Guard
  <2>3. CASE ~guard.tripped /\ UNCHANGED <<guard, latched>>
      BY <1>8, <2>3 DEF Restat, LatchInv
  <2> QED BY <1>8, <2>1, <2>2, <2>3 DEF Restat
<1>9. CASE DeleteRow \/ DeleteFails
    BY <1>9 DEF DeleteRow, DeleteFails, Leave, LatchInv
<1>10. CASE EndRows \/ EndPass
    BY <1>10 DEF EndRows, EndPass, LatchInv, visit
<1> QED BY NextSplits, <1>1, <1>2, <1>3, <1>4, <1>5, <1>6, <1>7, <1>8, <1>9, <1>10

\* Once the breaker has tripped no row is pruned until the process restarts
\* (latch_storage_breaker, and the latch read by run_background).
THEOREM LatchHolds == Spec => LatchedIsNotPruned
<1>1. Init => LatchInv
    BY DEF Init, LatchInv
<1>2. TypeInv /\ LatchInv /\ [Next]_vars => [\A s \in Segs : Pruned(s) => ~latched]_vars
    BY DEF TypeInv, Visiting, LatchInv, Pruned
<1>3. Spec => []TypeInv
    BY InitTypeInv, NextTypeInv, PTL DEF Spec
<1>4. Spec => []LatchInv
    BY <1>1, <1>3, NextLatchInv, PTL DEF Spec
<1> QED BY <1>2, <1>3, <1>4, PTL DEF Spec, LatchedIsNotPruned

\* The row being visited is counted before it can be lost, every missing row was checked,
\* and every checked one was on the page; a delete was let through by the breaker.
Pending == IF step = "next" THEN 0 ELSE 1
LossInv ==
    /\ stage = "seed" => lost = {}
    /\ stage = "rows" =>
         /\ Cardinality(lost) + Pending <= guard.missing
         /\ guard.missing <= guard.checked
         /\ guard.checked + Cardinality(todo) <= guard.rows
    /\ step = "delete" => ~Trips(guard)
    /\ LossBounded

\* A type correct counter is a number.
LEMMA Counters ==
    TypeOK => /\ guard.rows \in Nat /\ guard.checked \in Nat /\ guard.missing \in Nat
              /\ Cardinality(lost) \in Nat /\ Cardinality(todo) \in Nat
              /\ IsFiniteSet(lost) /\ IsFiniteSet(todo)
BY SubsetsAreFinite DEF TypeOK, Guard

\* The breaker's product is monotone in the rows checked.
LEMMA ShareIsMonotone ==
    ASSUME NEW n \in Nat, NEW m \in Nat, n <= m
    PROVE  n * MissingPct <= m * MissingPct
<1>1. MissingPct \in Nat
    BY GuardAssumption
<1> QED BY <1>1

\* A visit takes one row off the page and counts it, and counts it missing if it is left
\* to be looked at again.
LEMMA VisitCounts ==
    ASSUME TypeInv, NEW s \in Segs, Visit(s)
    PROVE  /\ Cardinality(todo') = Cardinality(todo) - 1 /\ step = "next"
           /\ UNCHANGED <<lost, stage>> /\ guard'.rows = guard.rows
           /\ step' \in {"next", "refetch"}
           /\ \/ guard'.checked = guard.checked /\ guard'.missing = guard.missing /\ step' = "next"
              \/ guard'.checked = guard.checked + 1 /\ guard'.missing = guard.missing /\ step' = "next"
              \/ guard'.checked = guard.checked + 1 /\ guard'.missing = guard.missing + 1
<1>1. step = "next" /\ UNCHANGED <<lost, stage>>
    BY DEF Visit, TypeInv, Visiting
<1>2. Cardinality(todo') = Cardinality(todo) - 1
    BY Counters, FS_RemoveElement DEF Visit, TypeInv
<1>3. CASE guard.marker = "absent"
    BY <1>1, <1>2, <1>3 DEF Visit
<1>4. CASE guard.marker # "absent" /\ guard.marker = "present" /\ s \notin files[Root]
  <2>1. guard' = [guard EXCEPT !.checked = @ + 1, !.missing = @ + 1] /\ step' = "refetch"
      BY <1>4 DEF Visit
  <2> QED BY <1>1, <1>2, <2>1 DEF TypeInv, TypeOK, Guard
<1>5. CASE guard.marker # "absent" /\ ~(guard.marker = "present" /\ s \notin files[Root])
  <2>1. guard' = [guard EXCEPT !.checked = @ + 1, !.missing = @] /\ step' = step
      BY <1>5 DEF Visit
  <2> QED BY <1>1, <1>2, <2>1 DEF TypeInv, TypeOK, Guard
<1> QED BY <1>3, <1>4, <1>5

\* Every step preserves it.
LEMMA NextLossInv == TypeInv /\ TypeInv' /\ LossInv /\ [Next]_vars => LossInv'
<1> SUFFICES ASSUME TypeInv, TypeInv', LossInv, [Next]_vars PROVE LossInv'
    OBVIOUS
<1>0. /\ guard.rows \in Nat /\ guard.checked \in Nat /\ guard.missing \in Nat
      /\ Cardinality(lost) \in Nat /\ Cardinality(todo) \in Nat
      /\ IsFiniteSet(lost) /\ IsFiniteSet(todo)
    BY Counters DEF TypeInv
<1>1. CASE World
    BY <1>1, WorldLeavesPass DEF LossInv, Pending, LossBounded, Trips
<1>2. CASE Restart
  <2>1. Cardinality(lost') <= MinMissing
      BY <1>2, FS_EmptySet, GuardAssumption DEF Restart
  <2> QED BY <1>2, <2>1 DEF Restart, LossInv, LossBounded
<1>3. CASE StartPass
  <2>1. Cardinality(lost') <= MinMissing
      BY <1>3, FS_EmptySet, GuardAssumption DEF StartPass
  <2>2. step' = "next" /\ stage' = "seed" /\ lost' = {}
      BY <1>3 DEF StartPass, visit, TypeInv, Visiting
  <2> QED BY <2>1, <2>2 DEF LossInv, LossBounded
<1>4. CASE ReadPage
  <2>1. Cardinality(LiveRows) \in Nat
      BY SubsetsAreFinite DEF LiveRows
  <2>2. Cardinality(lost') = 0
      BY <1>4, FS_EmptySet DEF ReadPage, LossInv
  <2>3. step' = "next" /\ stage' = "rows"
      BY <1>4 DEF ReadPage, visit, TypeInv, Visiting
  <2>4. /\ guard'.rows = Cardinality(LiveRows) /\ Cardinality(todo') = Cardinality(LiveRows)
        /\ guard'.checked = 0 /\ guard'.missing = 0
      BY <1>4 DEF ReadPage, NewGuard
  <2>5. LossBounded'
      BY <2>2, GuardAssumption DEF LossBounded
  <2> QED BY <2>1, <2>2, <2>3, <2>4, <2>5 DEF LossInv, Pending
<1>5. CASE LoadGuard
  <2>1. /\ guard'.rows = guard.rows /\ guard'.checked = guard.checked
        /\ guard'.missing = guard.missing
      BY <1>5 DEF LoadGuard, TypeInv, TypeOK, Guard
  <2> QED BY <1>5, <2>1 DEF LoadGuard, LossInv, Pending, LossBounded, Trips, visit
<1>6. ASSUME NEW s \in Segs, Visit(s) PROVE LossInv'
  <2>1. stage = "rows"
      BY <1>6 DEF Visit
  <2> QED BY <1>0, <1>6, <2>1, VisitCounts DEF LossInv, Pending, LossBounded
<1>7. CASE Refetch
    BY <1>0, <1>7 DEF Refetch, Leave, LossInv, Pending, LossBounded
<1>8. CASE Restat
  <2>1. /\ guard'.rows = guard.rows /\ guard'.checked = guard.checked
        /\ guard'.missing = guard.missing
      BY <1>8 DEF Restat, TypeInv, TypeOK, Guard
  <2>2. step' = "next" \/ (step' = "delete" /\ ~Trips(guard))
      BY <1>8 DEF Restat, Leave
  <2> QED BY <1>0, <1>8, <2>1, <2>2 DEF Restat, LossInv, Pending, LossBounded, Trips
<1>9. CASE DeleteRow
  <2>1. stage = "rows" /\ step = "delete"
      BY <1>9 DEF DeleteRow, TypeInv, Visiting
  <2>2. Cardinality(lost') \in Nat /\ Cardinality(lost') <= Cardinality(lost) + 1
    <3>1. \/ Cardinality(lost \cup {seg}) = Cardinality(lost)
          \/ Cardinality(lost \cup {seg}) = Cardinality(lost) + 1
        BY <1>0, FS_AddElement
    <3>2. lost' = lost \/ lost' = lost \cup {seg}
        BY <1>9 DEF DeleteRow
    <3>3. CASE lost' = lost
        BY <1>0, <3>3
    <3>4. CASE lost' = lost \cup {seg}
        BY <1>0, <3>1, <3>4
    <3> QED BY <3>2, <3>3, <3>4
  <2>3. Cardinality(lost') <= guard.missing
      BY <1>0, <2>1, <2>2 DEF LossInv, Pending
  <2>4. guard.checked * MissingPct <= guard.rows * MissingPct
      BY <1>0, <2>1, ShareIsMonotone DEF LossInv
  <2>5. guard.missing <= MinMissing \/ guard.missing * 100 <= guard.checked * MissingPct
      BY <1>0, <2>1, GuardAssumption DEF LossInv, Trips
  <2>6. LossBounded'
    <3>1. UNCHANGED guard
        BY <1>9 DEF DeleteRow
    <3>2. CASE guard.missing <= MinMissing
        BY <1>0, <2>2, <2>3, <3>2, GuardAssumption DEF LossBounded
    <3>3. CASE guard.missing * 100 <= guard.checked * MissingPct
        BY <1>0, <2>2, <2>3, <2>4, <3>1, <3>3, GuardAssumption DEF LossBounded
    <3> QED BY <2>5, <3>2, <3>3
  <2>7. step' = "next" /\ UNCHANGED <<stage, todo, guard>>
      BY <1>9 DEF DeleteRow, Leave
  <2> QED BY <1>0, <2>1, <2>2, <2>3, <2>6, <2>7 DEF LossInv, Pending
<1>10. CASE DeleteFails
    BY <1>0, <1>10 DEF DeleteFails, Leave, LossInv, Pending, LossBounded
<1>11. CASE EndRows \/ EndPass
  <2>1. step' = "next"
      BY <1>11 DEF EndRows, EndPass, visit, TypeInv, Visiting
  <2> QED BY <1>11, <2>1 DEF EndRows, EndPass, LossInv, LossBounded
<1> QED BY NextSplits, <1>1, <1>2, <1>3, <1>4, <1>5, <1>6, <1>7, <1>8, <1>9, <1>10, <1>11

\* A disk that goes away under a pass costs at most MinMissing rows, or the share
\* MissingPct of the rows of the pass (dangling_breaker_trips).
THEOREM LossIsBounded == Spec => []LossBounded
<1>1. Init => LossInv
    BY FS_EmptySet, GuardAssumption DEF Init, LossInv, LossBounded
<1>2. Spec => []TypeInv
    BY InitTypeInv, NextTypeInv, PTL DEF Spec
<1>3. Spec => []LossInv
    BY <1>1, <1>2, NextLossInv, PTL DEF Spec
<1> QED BY <1>3, PTL DEF LossInv

(***************************************************************************)
(* The second look.                                                         *)
(***************************************************************************)
\* While the mount has not changed and the mountpoint is unmarked, the disk is there, the
\* row being visited has no file on it, and the archiver, which starts from the file,
\* can neither flip that row behind the second look nor copy its file again.
Trusted == steady /\ "bare" \notin marker
SteadyInv ==
    /\ Trusted /\ stage = "rows" /\ guard.marker = "present" => mounted
    /\ Trusted /\ step # "next" => seg \notin files["disk"]
    /\ \A s \in Segs : moving = <<s, FALSE>> /\ s \notin stray => s \in files["disk"]
    /\ files["bare"] \subseteq stray
    /\ Trusted /\ step \in {"restat", "delete"} /\ seg \notin stray /\ row[seg] = "archive"
         => at = "archive"
    /\ Trusted /\ step = "delete" /\ at = "archive" /\ seg \notin stray
         => seg \notin files["archive"]

\* Trust is lost but never gained while a pass is visiting rows.
LEMMA TrustOnlyFades ==
    [Next]_vars /\ Trusted' => Trusted \/ stage' # "rows"
<1> SUFFICES ASSUME [Next]_vars, Trusted', ~Trusted PROVE stage' # "rows"
    OBVIOUS
<1>1. CASE World
  <2>1. CASE Flip
      BY <2>1 DEF Flip, Trusted
  <2>2. ASSUME NEW w \in Writers, EnsureMarker(w) PROVE FALSE
      BY <2>2 DEF EnsureMarker, Trusted, pass
  <2>3. ASSUME NEW w \in Writers, Look(w) PROVE FALSE
      BY <2>3 DEF Look, Trusted, pass
  <2>4. ASSUME NEW s \in Segs, LoseFile(s) \/ Record(s) \/ MoveCopy(s) \/ Expire(s) PROVE FALSE
      BY <2>4 DEF LoseFile, Record, MoveCopy, Expire, Trusted, pass
  <2>5. ASSUME NEW s \in Segs, NEW p \in {"live", "archive"}, Adopt(s, p) PROVE FALSE
      BY <2>5 DEF Adopt, Trusted, pass
  <2>6. CASE MoveRow \/ MoveDelete \/ UNCHANGED vars
      BY <2>6 DEF MoveRow, MoveDelete, vars, Trusted, pass
  <2> QED BY <1>1, <2>1, <2>2, <2>3, <2>4, <2>5, <2>6 DEF World
<1>2. CASE Restart \/ StartPass
    BY <1>2 DEF Restart, StartPass
<1>3. CASE \/ ReadPage \/ LoadGuard \/ (\E s \in Segs : Visit(s)) \/ Refetch \/ Restat
           \/ DeleteRow \/ DeleteFails \/ EndRows \/ EndPass
    BY <1>3 DEF ReadPage, LoadGuard, Visit, Refetch, Restat, DeleteRow, DeleteFails, EndRows,
                EndPass, Trusted
<1> QED BY NextSplits, <1>1, <1>2, <1>3

\* While rows are visited and trusted, the row in hand has no file that the archiver
\* could start from, or be in the middle of moving.
LEMMA InHandIsNotMoved ==
    ASSUME TypeInv, SteadyInv, Trusted, step # "next", seg \notin stray
    PROVE  mounted /\ seg \in Segs /\ seg \notin files[Root] /\ moving # <<seg, FALSE>>
<1>1. stage = "rows" /\ guard.marker = "present" /\ seg \in Segs
    BY DEF TypeInv, TypeOK, Visiting
<1>2. mounted /\ seg \notin files["disk"]
    BY <1>1 DEF SteadyInv
<1> QED BY <1>1, <1>2 DEF SteadyInv, Root

\* No move under way is not the move of a segment.
LEMMA NoMove == \A t \in Segs : NoSeg # <<t, FALSE>>
<1> SUFFICES ASSUME NEW t \in Segs PROVE NoSeg # <<t, FALSE>>
    OBVIOUS
<1>1. <<t, FALSE>> \in Segs \X BOOLEAN
    OBVIOUS
<1> QED BY <1>1, GuardAssumption

\* The world preserves it.
LEMMA WorldSteadyInv == TypeInv /\ SteadyInv /\ World => SteadyInv'
<1> SUFFICES ASSUME TypeInv, SteadyInv, World PROVE SteadyInv'
    OBVIOUS
<1> USE DEF SteadyInv, Trusted
<1>0. /\ UNCHANGED <<stage, guard, seg, step, at>>
      /\ files \in [Dirs -> SUBSET Segs] /\ row \in [Segs -> Places]
      /\ step # "next" => seg \in Segs /\ row[seg] # "unborn" /\ stage = "rows"
    BY WorldLeavesPass DEF TypeInv, TypeOK, Visiting
<1>1. CASE Flip
    BY <1>1 DEF Flip
<1>2. ASSUME NEW s \in Segs, LoseFile(s) PROVE SteadyInv'
    BY <1>0, <1>2 DEF LoseFile, env, pass, Dirs
<1>3. ASSUME NEW s \in Segs, Record(s) PROVE SteadyInv'
  <2>1. step # "next" => s # seg
      BY <1>0, <1>3 DEF Record
  <2>2. UNCHANGED <<mounted, marker, steady, moving>>
      BY <1>3 DEF Record, env, pass
  <2>3. CASE mounted
      BY <1>0, <1>3, <2>1, <2>2, <2>3 DEF Record, Root, Dirs
  <2>4. CASE ~mounted
      BY <1>0, <1>3, <2>1, <2>2, <2>4 DEF Record, Root, Dirs
  <2> QED BY <2>3, <2>4
<1>4. ASSUME NEW s \in Segs, MoveCopy(s) PROVE SteadyInv'
  <2>1. Trusted /\ step # "next" /\ seg \notin stray => s # seg
      BY <1>4, InHandIsNotMoved DEF MoveCopy
  <2>2. s \in stray \/ s \in files["disk"]
      BY <1>4 DEF MoveCopy, Root
  <2>3. /\ files'["disk"] = files["disk"] /\ files'["bare"] = files["bare"]
        /\ files'["archive"] = files["archive"] \cup {s} /\ moving' = <<s, FALSE>>
      BY <1>0, <1>4 DEF MoveCopy, Dirs
  <2> QED BY <1>0, <1>4, <2>1, <2>2, <2>3 DEF MoveCopy, env, pass
<1>5. ASSUME NEW s \in Segs, Expire(s) PROVE SteadyInv'
  <2>1. \A d \in Dirs : files'[d] \subseteq files[d] /\ files[d] \ {s} \subseteq files'[d]
      BY <1>0, <1>5 DEF Expire
  <2>2. \A t \in Segs : row'[t] = "archive" => row[t] = "archive"
      BY <1>0, <1>5 DEF Expire
  <2>3. UNCHANGED <<mounted, marker, steady, moving, stray>> /\ moving # <<s, FALSE>>
      BY <1>5 DEF Expire, env, pass
  <2> QED BY <1>0, <2>1, <2>2, <2>3 DEF Dirs
<1>6. CASE MoveRow
  <2>1. Trusted /\ step # "next" /\ seg \notin stray => moving[1] # seg
    <3> SUFFICES ASSUME Trusted, step # "next", seg \notin stray, moving[1] = seg PROVE FALSE
        OBVIOUS
    <3>1. moving # <<seg, FALSE>>
        BY InHandIsNotMoved
    <3>2. moving \in Segs \X BOOLEAN /\ moving[2] = FALSE
        BY <1>6 DEF MoveRow, TypeInv, TypeOK
    <3>3. moving = <<moving[1], moving[2]>>
        BY <3>2
    <3> QED BY <3>1, <3>2, <3>3
  <2>2. \A t \in Segs : t # moving[1] => row'[t] = row[t]
      BY <1>0, <1>6 DEF MoveRow
  <2>3. \A t \in Segs : moving' # <<t, FALSE>>
    <3>1. moving' = NoSeg \/ moving' = <<moving[1], TRUE>>
        BY <1>6 DEF MoveRow
    <3>2. \A t \in Segs : <<moving[1], TRUE>> # <<t, FALSE>>
        OBVIOUS
    <3> QED BY <3>1, <3>2, NoMove
  <2>4. UNCHANGED <<mounted, marker, steady, files, stray>>
      BY <1>6 DEF MoveRow, env, pass
  <2> QED BY <1>0, <2>1, <2>2, <2>3, <2>4
<1>7. CASE MoveDelete
  <2>1. \A d \in Dirs : files'[d] \subseteq files[d]
      BY <1>0, <1>7 DEF MoveDelete
  <2>2. \A t \in Segs : moving' # <<t, FALSE>>
      BY <1>7, NoMove DEF MoveDelete
  <2>3. UNCHANGED <<mounted, marker, steady, row, stray>>
      BY <1>7 DEF MoveDelete, env, pass
  <2> QED BY <1>0, <2>1, <2>2, <2>3 DEF Dirs
<1>8. ASSUME NEW w \in Writers, Look(w) \/ EnsureMarker(w) PROVE SteadyInv'
  <2>1. marker \subseteq marker' /\ UNCHANGED <<mounted, steady, files, row, moving, stray>>
      BY <1>8 DEF Look, EnsureMarker, env, pass
  <2> QED BY <1>0, <2>1
<1>9. ASSUME NEW s \in Segs, NEW p \in {"live", "archive"}, Adopt(s, p) PROVE SteadyInv'
  <2>1. step = "next" /\ stage = "orphans"
      BY <1>9 DEF Adopt, TypeInv, Visiting
  <2> QED BY <1>0, <1>9, <2>1 DEF Adopt, env, pass
<1>10. CASE UNCHANGED vars
    BY <1>0, <1>10 DEF vars, env, pass
<1> QED BY <1>1, <1>2, <1>3, <1>4, <1>5, <1>6, <1>7, <1>8, <1>9, <1>10 DEF World

\* A step of the pass leaves the world alone.
LEMMA PassLeavesWorld ==
    ReadPage \/ LoadGuard \/ (\E s \in Segs : Visit(s)) \/ Refetch \/ Restat \/ DeleteFails
        \/ EndRows \/ EndPass
    => UNCHANGED <<mounted, marker, steady, files, row, moving, stray>>
BY DEF ReadPage, LoadGuard, Visit, Refetch, Restat, DeleteFails, EndRows, EndPass, env

\* Every step preserves it.
LEMMA NextSteadyInv == TypeInv /\ TypeInv' /\ SteadyInv /\ [Next]_vars => SteadyInv'
<1> SUFFICES ASSUME TypeInv, TypeInv', SteadyInv, [Next]_vars PROVE SteadyInv'
    OBVIOUS
<1>1. CASE World
    BY <1>1, WorldSteadyInv
<1> USE DEF SteadyInv, Trusted
<1>2. CASE Restart
  <2>1. \A t \in Segs : moving' # <<t, FALSE>>
      BY <1>2, NoMove DEF Restart
  <2> QED BY <1>2, <2>1 DEF Restart
<1>3. CASE StartPass
  <2>1. step' = "next" /\ stage' = "seed"
      BY <1>3 DEF StartPass, TypeInv, Visiting, visit
  <2> QED BY <1>3, <2>1 DEF StartPass, env
<1>4. CASE ReadPage
  <2>1. step' = "next" /\ guard'.marker = "unread"
      BY <1>4 DEF ReadPage, TypeInv, Visiting, visit, NewGuard
  <2> QED BY <1>4, <2>1, PassLeavesWorld
<1>5. CASE LoadGuard
  <2>1. step' = "next"
      BY <1>5 DEF LoadGuard, TypeInv, Visiting, visit
  <2>2. guard'.marker = "present" => Root \in marker
      BY <1>5 DEF LoadGuard, TypeInv, TypeOK, Guard
  <2> QED BY <1>5, <2>1, <2>2, PassLeavesWorld DEF Root
<1>6. ASSUME NEW s \in Segs, Visit(s) PROVE SteadyInv'
  <2>1. stage = "rows" /\ stage' = stage /\ step = "next"
      BY <1>6 DEF Visit, TypeInv, Visiting
  <2>2. guard'.marker = guard.marker
      BY <1>6 DEF Visit, TypeInv, TypeOK, Guard
  <2>3. \/ seg' = s /\ step' = "refetch" /\ guard.marker = "present" /\ s \notin files[Root]
        \/ step' = "next"
    <3>1. CASE guard.marker = "present" /\ s \notin files[Root]
        BY <1>6, <3>1 DEF Visit
    <3>2. CASE ~(guard.marker = "present" /\ s \notin files[Root])
        BY <1>6, <2>1, <3>2 DEF Visit
    <3> QED BY <3>1, <3>2
  <2>4. UNCHANGED <<mounted, marker, steady, files, row, moving, stray>>
      BY <1>6, PassLeavesWorld
  <2>5. CASE step' = "next"
      BY <2>1, <2>2, <2>4, <2>5
  <2>6. CASE seg' = s /\ step' = "refetch" /\ guard.marker = "present" /\ s \notin files[Root]
    <3>1. Trusted => s \notin files["disk"]
        BY <2>1, <2>6 DEF Root
    <3> QED BY <2>1, <2>2, <2>4, <2>6, <3>1
  <2> QED BY <2>3, <2>5, <2>6
<1>7. CASE Refetch
  <2>1. UNCHANGED <<stage, guard>> /\ (step' = "next" \/ (step' = "restat" /\ at' = row[seg] /\ seg' = seg))
      BY <1>7 DEF Refetch, Leave
  <2>2. step = "refetch" /\ UNCHANGED <<mounted, marker, steady, files, row, moving, stray>>
      BY <1>7, PassLeavesWorld DEF Refetch
  <2>3. CASE step' = "next"
      BY <2>1, <2>2, <2>3
  <2>4. CASE step' = "restat" /\ at' = row[seg] /\ seg' = seg
      BY <2>1, <2>2, <2>4
  <2> QED BY <2>1, <2>3, <2>4
<1>8. CASE Restat
  <2>1. stage' = stage /\ step = "restat" /\ guard'.marker = guard.marker
      BY <1>8 DEF Restat, TypeInv, TypeOK, Guard
  <2>2. \/ step' = "next"
        \/ step' = "delete" /\ UNCHANGED <<seg, at>> /\ seg \notin files[DirAt(at)]
      BY <1>8 DEF Restat, Leave
  <2>3. UNCHANGED <<mounted, marker, steady, files, row, moving, stray>>
      BY <1>8, PassLeavesWorld
  <2>4. CASE step' = "next"
      BY <2>1, <2>3, <2>4
  <2>5. CASE step' = "delete" /\ UNCHANGED <<seg, at>> /\ seg \notin files[DirAt(at)]
    <3>1. at = "archive" => seg \notin files["archive"]
        BY <2>5 DEF DirAt
    <3> QED BY <2>1, <2>3, <2>5, <3>1
  <2> QED BY <2>2, <2>4, <2>5
<1>9. CASE DeleteRow
    BY <1>9 DEF DeleteRow, Leave, env
<1>10. CASE DeleteFails
    BY <1>10, PassLeavesWorld DEF DeleteFails, Leave
<1>11. CASE EndRows \/ EndPass
  <2>1. step' = "next" /\ stage' # "rows"
      BY <1>11 DEF EndRows, EndPass, TypeInv, Visiting, visit
  <2> QED BY <1>11, <2>1, PassLeavesWorld
<1> QED BY NextSplits, <1>1, <1>2, <1>3, <1>4, <1>5, <1>6, <1>7, <1>8, <1>9, <1>10, <1>11

\* A pass with a steady mount prunes no row whose file is where the row points, unless the
\* bare mountpoint was given a marker or the footage was recorded there (run_background).
THEOREM SteadyMountIsSafe == Spec => SteadyMountKeepsRows
<1>1. Init => SteadyInv
    BY NoMove DEF Init, SteadyInv, Dirs
<1>2. ASSUME TypeInv, SteadyInv, NEW s \in Segs, Pruned(s), HasFile(s)
      PROVE  ~steady \/ "bare" \in marker \/ s \in stray
  <2> SUFFICES ASSUME Trusted, s \notin stray PROVE FALSE
      BY DEF Trusted
  <2>1. step = "delete" /\ seg = s /\ seg \notin files["disk"]
      BY <1>2 DEF Pruned, SteadyInv
  <2>2. row[s] = "archive" => seg \notin files["archive"]
      BY <1>2, <2>1 DEF SteadyInv
  <2> QED BY <1>2, <2>1, <2>2 DEF HasFile
<1>3. TypeInv /\ SteadyInv /\ [Next]_vars
      => [\A s \in Segs : Pruned(s) /\ HasFile(s) => ~steady \/ "bare" \in marker \/ s \in stray]_vars
    BY <1>2
<1>4. Spec => []TypeInv
    BY InitTypeInv, NextTypeInv, PTL DEF Spec
<1>5. Spec => []SteadyInv
    BY <1>1, <1>4, NextSteadyInv, PTL DEF Spec
<1> QED BY <1>3, <1>4, <1>5, PTL DEF Spec, SteadyMountKeepsRows

\* Both layers of the guard hold together (storage_guard.rs, reconcile.rs: run_background).
THEOREM OnlyJustifiedPrunes == Spec => PrunesAreJustified
BY LatchHolds, SteadyMountIsSafe DEF PrunesAreJustified
=============================================================================
