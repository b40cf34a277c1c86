-------------------------- MODULE LockManagerProofs --------------------------
(***************************************************************************)
(* Proofs about LockManager, for every finite set of threads and both      *)
(* policies.  The inductive invariant joins the counters to the sets of    *)
(* threads they count, the wait sets to the threads that may sleep there,  *)
(* and mutual exclusion; none of these is inductive alone, since acquire   *)
(* and release look at the counters only.                                  *)
(***************************************************************************)
EXTENDS LockManager, FiniteSetTheorems, TLAPS

\* A thread in a wait loop is there because of its effective mode.
LoopModes ==
  \A t \in Threads :
    /\ call[t] = "reader" => Governing(mode[t]) = "read"
    /\ call[t] = "writer" => Governing(mode[t]) = "write"

\* Only threads in the matching wait loop sleep on a condition variable.
Sleepers ==
  /\ readers_cv \subseteq {t \in Threads : call[t] = "reader"}
  /\ writers_cv \subseteq Queued

OneSide ==
  /\ \A t, u \in Writers : t = u
  /\ Writers = {} \/ Readers = {}

LockInv ==
  /\ TypeOK
  /\ LoopModes
  /\ Sleepers
  /\ CountersAgree
  /\ OneSide
  /\ NoLostWakeup
-----------------------------------------------------------------------------
\* The sets the counters count are finite, so Cardinality says what it should.
LEMMA FiniteParts ==
  IsFiniteSet(Readers) /\ IsFiniteSet(Writers) /\ IsFiniteSet(Queued)
<1>1. /\ Readers \subseteq Threads
      /\ Writers \subseteq Threads
      /\ Queued \subseteq Threads
  BY DEF Readers, Writers, Queued
<1> QED
  BY <1>1, LockManagerAssumption, FS_Subset

\* effective_lock_mode and the ready check map modes to modes.
LEMMA GoverningType ==
  ASSUME TypeOK, NEW m \in Modes
  PROVE  Governing(m) \in Modes
BY DEF TypeOK, Governing, effective_lock_mode, Modes

\* A counter is zero exactly when nobody is in the set it counts.
LEMMA CountZero ==
  ASSUME NEW S, IsFiniteSet(S)
  PROVE  /\ Cardinality(S) \in Nat
         /\ Cardinality(S) = 0 <=> S = {}
BY FS_CardinalityType, FS_EmptySet
-----------------------------------------------------------------------------
(***************************************************************************)
(* What each step does to the sets Readers, Writers and Queued.            *)
(***************************************************************************)

\* acquire or release of a thread that locks nothing moves nobody.
LEMMA NothingMoves ==
  ASSUME TypeOK, NEW t \in Threads,
         (\E m \in Modes : AcquireNothing(t, m)) \/ ReleaseNothing(t)
  PROVE  Readers' = Readers /\ Writers' = Writers /\ Queued' = Queued
<1> USE DEF TypeOK, Readers, Writers, Queued, Governing
<1>1. CASE ReleaseNothing(t)
  BY <1>1 DEF ReleaseNothing, Leave
<1>2. ASSUME NEW m \in Modes, AcquireNothing(t, m)
      PROVE  Readers' = Readers /\ Writers' = Writers /\ Queued' = Queued
  BY <1>2 DEF AcquireNothing, effective_lock_mode
<1> QED
  BY <1>1, <1>2

\* The read loop lets the caller in, or leaves the sets as they were.
LEMMA ReadMoves ==
  ASSUME TypeOK, NEW t \in Threads,
         (\E m \in Modes : AcquireRead(t, m))
           \/ (RecheckRead(t) /\ Governing(mode[t]) = "read")
  PROVE  /\ Writers' = Writers
         /\ Queued' = Queued
         /\ t \notin Readers
         /\ t \notin Queued
         /\ Readers' = IF ReadBlocked THEN Readers ELSE Readers \union {t}
<1> USE DEF TypeOK, Readers, Writers, Queued, Governing, effective_lock_mode, ReadLoop
<1>1. CASE RecheckRead(t) /\ Governing(mode[t]) = "read"
  BY <1>1 DEF RecheckRead
<1>2. ASSUME NEW m \in Modes, AcquireRead(t, m)
      PROVE  /\ Writers' = Writers
             /\ Queued' = Queued
             /\ t \notin Readers
             /\ t \notin Queued
             /\ Readers' = IF ReadBlocked THEN Readers ELSE Readers \union {t}
  BY <1>2 DEF AcquireRead
<1> QED
  BY <1>1, <1>2

\* The write loop lets the caller in, or queues it.
LEMMA WriteMoves ==
  ASSUME TypeOK, NEW t \in Threads,
         (\E m \in Modes : AcquireWrite(t, m))
           \/ (RecheckWrite(t) /\ Governing(mode[t]) = "write")
  PROVE  /\ Readers' = Readers
         /\ t \notin Readers
         /\ t \notin Writers
         /\ Writers' = IF WriteBlocked THEN Writers ELSE Writers \union {t}
         /\ Queued' = IF WriteBlocked THEN Queued \union {t} ELSE Queued \ {t}
<1> USE DEF TypeOK, Readers, Writers, Queued, Governing, effective_lock_mode, WriteLoop
<1>1. CASE RecheckWrite(t) /\ Governing(mode[t]) = "write"
  BY <1>1 DEF RecheckWrite
<1>2. ASSUME NEW m \in Modes, AcquireWrite(t, m)
      PROVE  /\ Readers' = Readers
             /\ t \notin Readers
             /\ t \notin Writers
             /\ Writers' = IF WriteBlocked THEN Writers ELSE Writers \union {t}
             /\ Queued' = IF WriteBlocked THEN Queued \union {t} ELSE Queued \ {t}
  BY <1>2 DEF AcquireWrite
<1> QED
  BY <1>1, <1>2

\* release takes its caller out of the set of its effective mode.
LEMMA ReleaseMoves ==
  ASSUME TypeOK, NEW t \in Threads
  PROVE  /\ ReleaseRead(t)  => /\ t \in Readers /\ Readers' = Readers \ {t}
                               /\ Writers' = Writers /\ Queued' = Queued
         /\ ReleaseWrite(t) => /\ t \in Writers /\ Writers' = Writers \ {t}
                               /\ Readers' = Readers /\ Queued' = Queued
BY DEF TypeOK, Readers, Writers, Queued, Governing, ReleaseRead, ReleaseWrite, Leave

\* init, destroy and spurious wake-ups move nobody.
LEMMA ManagerMoves ==
  ASSUME TypeOK
  PROVE  /\ Quiescent /\ (InitManager \/ DestroyManager) =>
              /\ Readers = {} /\ Writers = {} /\ Queued = {}
              /\ Readers' = {} /\ Writers' = {} /\ Queued' = {}
         /\ \A t \in Threads : SpuriousWake(t) =>
              Readers' = Readers /\ Writers' = Writers /\ Queued' = Queued
BY DEF TypeOK, Readers, Writers, Queued, Governing, Quiescent, InitManager,
       DestroyManager, SpuriousWake
-----------------------------------------------------------------------------
(***************************************************************************)
(* The invariant is preserved.                                             *)
(***************************************************************************)

\* Under the invariant the loop conditions speak of the sets.
LEMMA BlockedMeaning ==
  ASSUME LockInv
  PROVE  /\ ReadBlocked <=> (Writers # {} \/ Queued # {})
         /\ WriteBlocked <=> (Writers # {} \/ Readers # {})
         /\ waiting_writers > 0 <=> Queued # {}
         /\ active_readers = 0 <=> Readers = {}
<1>1. /\ active_readers = Cardinality(Readers)
      /\ writer_active <=> Writers # {}
      /\ waiting_writers = Cardinality(Queued)
  BY DEF LockInv, CountersAgree
<1>2. /\ Cardinality(Readers) \in Nat /\ (Cardinality(Readers) = 0 <=> Readers = {})
      /\ Cardinality(Queued) \in Nat /\ (Cardinality(Queued) = 0 <=> Queued = {})
  BY FiniteParts, CountZero
<1> QED
  BY <1>1, <1>2 DEF ReadBlocked, WriteBlocked

\* A thread that locks nothing keeps the invariant.
LEMMA NothingKeepsInv ==
  ASSUME LockInv, NEW t \in Threads,
         (\E m \in Modes : AcquireNothing(t, m)) \/ ReleaseNothing(t)
  PROVE  LockInv'
<1>1. Readers' = Readers /\ Writers' = Writers /\ Queued' = Queued
  BY NothingMoves DEF LockInv
<1>2. UNCHANGED <<ready, counters, readers_cv, writers_cv>>
  BY DEF AcquireNothing, ReleaseNothing, Leave
<1>3. TypeOK'
  BY <1>2 DEF LockInv, TypeOK, AcquireNothing, ReleaseNothing, Leave, counters, Places, Modes
<1>4. LoopModes'
  BY <1>2 DEF LockInv, LoopModes, TypeOK, AcquireNothing, ReleaseNothing, Leave, Governing
<1>5. Sleepers'
  BY <1>1, <1>2 DEF LockInv, Sleepers, TypeOK, AcquireNothing, ReleaseNothing, Leave
<1>6. CountersAgree' /\ OneSide'
  BY <1>1, <1>2 DEF LockInv, CountersAgree, OneSide, counters
<1>7. NoLostWakeup'
  BY <1>1, <1>2 DEF LockInv, NoLostWakeup, ReadBlocked, WriteBlocked, counters
<1> QED
  BY <1>3, <1>4, <1>5, <1>6, <1>7 DEF LockInv

\* The read branch of acquire keeps the invariant.
LEMMA ReadKeepsInv ==
  ASSUME LockInv, NEW t \in Threads,
         (\E m \in Modes : AcquireRead(t, m)) \/ RecheckRead(t)
  PROVE  LockInv'
<1>1. /\ Writers' = Writers /\ Queued' = Queued
      /\ t \notin Readers
      /\ Readers' = IF ReadBlocked THEN Readers ELSE Readers \union {t}
  BY ReadMoves DEF LockInv, LoopModes, RecheckRead
<1>2. /\ ReadLoop(t)
      /\ UNCHANGED <<ready, writers_cv>>
  BY DEF AcquireRead, RecheckRead
<1>3. TypeOK'
  BY <1>2 DEF LockInv, TypeOK, ReadLoop, AcquireRead, RecheckRead, counters, Places
<1>4. LoopModes'
  BY <1>2 DEF LockInv, LoopModes, TypeOK, ReadLoop, AcquireRead, RecheckRead, Governing
<1>5. Sleepers'
  <2>1. readers_cv' \subseteq {u \in Threads : call'[u] = "reader"}
    BY <1>2 DEF LockInv, Sleepers, TypeOK, ReadLoop, AcquireRead, RecheckRead
  <2> QED
    BY <1>1, <1>2, <2>1 DEF LockInv, Sleepers
<1>6. CountersAgree'
  <2>1. CASE ReadBlocked
    BY <1>1, <1>2, <2>1 DEF LockInv, CountersAgree, ReadLoop, counters
  <2>2. CASE ~ReadBlocked
    <3>1. Cardinality(Readers \union {t}) = Cardinality(Readers) + 1
      BY <1>1, FiniteParts, FS_AddElement
    <3> QED
      BY <1>1, <1>2, <2>2, <3>1 DEF LockInv, CountersAgree, ReadLoop
  <2> QED
    BY <2>1, <2>2
<1>7. OneSide'
  BY <1>1, BlockedMeaning DEF LockInv, OneSide
<1>8. NoLostWakeup'
  BY <1>1, <1>2 DEF LockInv, TypeOK, NoLostWakeup, ReadBlocked, WriteBlocked, ReadLoop, counters
<1> QED
  BY <1>3, <1>4, <1>5, <1>6, <1>7, <1>8 DEF LockInv

\* The write branch of acquire keeps the invariant; waiting_writers cannot
\* underflow because the caller is among those it counts.
LEMMA WriteKeepsInv ==
  ASSUME LockInv, NEW t \in Threads,
         (\E m \in Modes : AcquireWrite(t, m)) \/ RecheckWrite(t)
  PROVE  LockInv'
<1>1. /\ Readers' = Readers
      /\ t \notin Writers
      /\ Writers' = IF WriteBlocked THEN Writers ELSE Writers \union {t}
      /\ Queued' = IF WriteBlocked THEN Queued \union {t} ELSE Queued \ {t}
  BY WriteMoves DEF LockInv, LoopModes, RecheckWrite
<1>2. UNCHANGED <<ready, readers_cv>>
  BY DEF AcquireWrite, RecheckWrite
<1>3. PICK w : /\ WriteLoop(t, w)
               /\ w = Cardinality(Queued \union {t})
  <2>1. CASE RecheckWrite(t)
    <3>1. t \in Queued
      BY <2>1 DEF RecheckWrite, Queued
    <3>2. Queued \union {t} = Queued
      BY <3>1
    <3> QED
      BY <2>1, <3>2 DEF RecheckWrite, LockInv, CountersAgree
  <2>2. ASSUME NEW m \in Modes, AcquireWrite(t, m)
        PROVE  \E w : WriteLoop(t, w) /\ w = Cardinality(Queued \union {t})
    <3>1. t \notin Queued
      BY <2>2 DEF AcquireWrite, Queued
    <3>2. Cardinality(Queued \union {t}) = waiting_writers + 1
      BY <3>1, FiniteParts, FS_AddElement DEF LockInv, CountersAgree
    <3> QED
      BY <2>2, <3>2 DEF AcquireWrite
  <2> QED
    BY <2>1, <2>2
<1>4. /\ w \in Nat
      /\ Cardinality(Queued \ {t}) \in Nat
      /\ Cardinality(Queued \ {t}) = w - 1
  <2> DEFINE Q == Queued \ {t}
  <2>1. IsFiniteSet(Q) /\ t \notin Q /\ Queued \union {t} = Q \union {t}
    BY FiniteParts, FS_Subset
  <2> HIDE DEF Q
  <2>2. Cardinality(Q) \in Nat /\ Cardinality(Q \union {t}) = Cardinality(Q) + 1
    BY <2>1, FS_AddElement, FS_CardinalityType
  <2>3. w = Cardinality(Q) + 1
    BY <1>3, <2>1, <2>2
  <2>4. w \in Nat /\ Cardinality(Q) \in Nat /\ Cardinality(Q) = w - 1
    BY <2>2, <2>3
  <2> QED
    BY <2>4 DEF Q
<1>5. TypeOK'
  BY <1>2, <1>3, <1>4 DEF LockInv, TypeOK, WriteLoop, AcquireWrite, RecheckWrite, Places
<1>6. LoopModes'
  BY <1>2, <1>3 DEF LockInv, LoopModes, TypeOK, WriteLoop, AcquireWrite, RecheckWrite, Governing
<1>7. Sleepers'
  BY <1>2, <1>3 DEF LockInv, Sleepers, TypeOK, WriteLoop, AcquireWrite, RecheckWrite, Queued
<1>8. CountersAgree'
  BY <1>1, <1>3, <1>4 DEF LockInv, CountersAgree, WriteLoop
<1>9. OneSide'
  BY <1>1, BlockedMeaning DEF LockInv, OneSide
<1>10. NoLostWakeup'
  <2>1. CASE WriteBlocked
    <3>1. WriteBlocked'
      BY <2>1, <1>3 DEF WriteBlocked, WriteLoop
    <3>2. waiting_writers' > 0 
      <4>1. Queued \union {t} # {}
        OBVIOUS
      <4>2. IsFiniteSet(Queued \union {t})
        BY FiniteParts, FS_AddElement
      <4>3. w # 0
        BY <1>3, <4>1, <4>2, CountZero
      <4> QED
        BY <1>3, <1>4, <2>1, <4>3 DEF WriteLoop
    <3> QED
      BY <3>1, <3>2 DEF NoLostWakeup, ReadBlocked
  <2>2. CASE ~WriteBlocked
    BY <2>2, <1>3 DEF NoLostWakeup, ReadBlocked, WriteBlocked, WriteLoop
  <2> QED
    BY <2>1, <2>2
<1> QED
  BY <1>5, <1>6, <1>7, <1>8, <1>9, <1>10 DEF LockInv

\* A broadcast or a signal leaves a subset of the sleepers, and a signal on a
\* condition variable somebody sleeps on wakes one of them.
LEMMA WakeNextEffect ==
  ASSUME LockInv, WakeNext
  PROVE  /\ readers_cv' \subseteq readers_cv
         /\ writers_cv' \subseteq writers_cv
         /\ Queued # {} => Queued \ writers_cv' # {}
         /\ Queued = {} => readers_cv' = {}
<1>1. CASE Queued # {}
  <2>1. writers_cv' \in Signalled(writers_cv) /\ readers_cv' = readers_cv
    BY <1>1, BlockedMeaning DEF WakeNext
  <2>2. CASE writers_cv = {}
    BY <1>1, <2>1, <2>2 DEF Signalled
  <2>3. CASE writers_cv # {}
    <3>1. PICK u \in writers_cv : writers_cv' = writers_cv \ {u}
      BY <2>1, <2>3 DEF Signalled
    <3> QED
      BY <1>1, <2>1, <3>1 DEF LockInv, Sleepers
  <2> QED
    BY <2>2, <2>3
<1>2. CASE Queued = {}
  BY <1>2, BlockedMeaning DEF WakeNext, Broadcast
<1> QED
  BY <1>1, <1>2

\* Taking one element out of a finite set lowers its cardinality by one.
LEMMA CountDown ==
  ASSUME NEW S, IsFiniteSet(S), NEW t \in S
  PROVE  /\ Cardinality(S) \in Nat
         /\ Cardinality(S) > 0
         /\ Cardinality(S \ {t}) = Cardinality(S) - 1
BY FS_RemoveElement, FS_CardinalityType, FS_EmptySet

\* release of a shared lock keeps the invariant.
LEMMA ReleaseReadKeepsInv ==
  ASSUME LockInv, NEW t \in Threads, ReleaseRead(t)
  PROVE  LockInv'
<1>1. /\ t \in Readers /\ Readers' = Readers \ {t}
      /\ Writers' = Writers /\ Queued' = Queued
  BY ReleaseMoves DEF LockInv
<1>2. /\ active_readers = Cardinality(Readers)
      /\ active_readers' = Cardinality(Readers')
      /\ active_readers' \in Nat
  BY <1>1, FiniteParts, CountDown DEF ReleaseRead, LockInv, CountersAgree
<1>3. active_readers' = 0 <=> Readers' = {}
  BY <1>1, <1>2, FiniteParts, FS_Subset, CountZero
<1>4. UNCHANGED <<ready, waiting_writers, writer_active>>
  BY DEF ReleaseRead
<1>5. /\ readers_cv' \subseteq readers_cv
      /\ writers_cv' \subseteq writers_cv
  BY WakeNextEffect DEF ReleaseRead
<1>6. TypeOK'
  BY <1>2, <1>4, <1>5 DEF LockInv, TypeOK, ReleaseRead, Leave, Places, Modes
<1>7. LoopModes'
  BY <1>4 DEF LockInv, LoopModes, TypeOK, ReleaseRead, Leave, Governing
<1>8. Sleepers'
  BY <1>1, <1>5 DEF LockInv, Sleepers, TypeOK, ReleaseRead, Leave
<1>9. CountersAgree'
  BY <1>1, <1>2, <1>4 DEF LockInv, CountersAgree
<1>10. OneSide'
  BY <1>1 DEF LockInv, OneSide
<1>11. NoLostWakeup'
  <2>1. Writers = {}
    BY <1>1 DEF LockInv, OneSide
  <2>2. CASE Readers' = {}
    <3>1. WakeNext
      BY <1>3, <2>2 DEF ReleaseRead
    <3>2. Queued' # {} => ReadBlocked'
      BY <1>1, <1>4, BlockedMeaning DEF ReadBlocked
    <3> QED
      BY <1>1, <3>1, <3>2, WakeNextEffect DEF NoLostWakeup, LockInv, Sleepers
  <2>3. CASE Readers' # {}
    <3>1. WriteBlocked'
      BY <1>2, <1>3, <2>3 DEF WriteBlocked
    <3>2. UNCHANGED <<readers_cv, writers_cv>>
      BY <1>3, <2>3 DEF ReleaseRead
    <3> QED
      BY <1>4, <3>1, <3>2 DEF NoLostWakeup, ReadBlocked, LockInv
  <2> QED
    BY <2>2, <2>3
<1> QED
  BY <1>6, <1>7, <1>8, <1>9, <1>10, <1>11 DEF LockInv

\* release of an exclusive lock keeps the invariant.
LEMMA ReleaseWriteKeepsInv ==
  ASSUME LockInv, NEW t \in Threads, ReleaseWrite(t)
  PROVE  LockInv'
<1>1. /\ t \in Writers /\ Writers' = Writers \ {t}
      /\ Readers' = Readers /\ Queued' = Queued
  BY ReleaseMoves DEF LockInv
<1>2. Writers' = {} /\ Readers' = {}
  BY <1>1 DEF LockInv, OneSide
<1>3. /\ UNCHANGED <<ready, active_readers, waiting_writers>>
      /\ ~writer_active'
      /\ WakeNext
  BY DEF ReleaseWrite
<1>4. TypeOK'
  BY <1>3, WakeNextEffect DEF LockInv, TypeOK, ReleaseWrite, Leave, Places, Modes
<1>5. LoopModes'
  BY <1>3 DEF LockInv, LoopModes, TypeOK, ReleaseWrite, Leave, Governing
<1>6. Sleepers'
  BY <1>1, <1>3, WakeNextEffect DEF LockInv, Sleepers, TypeOK, ReleaseWrite, Leave
<1>7. CountersAgree' /\ OneSide'
  BY <1>1, <1>2, <1>3 DEF LockInv, CountersAgree, OneSide
<1>8. NoLostWakeup'
  <2>1. Queued' # {} => ReadBlocked'
    BY <1>1, <1>3, BlockedMeaning DEF ReadBlocked
  <2> QED
    BY <1>1, <1>3, <2>1, WakeNextEffect DEF NoLostWakeup, LockInv, Sleepers
<1> QED
  BY <1>4, <1>5, <1>6, <1>7, <1>8 DEF LockInv

\* A spurious wake-up keeps the invariant: it only adds threads that re-check.
LEMMA SpuriousKeepsInv ==
  ASSUME LockInv, NEW t \in Threads, SpuriousWake(t)
  PROVE  LockInv'
<1>1. Readers' = Readers /\ Writers' = Writers /\ Queued' = Queued
  BY ManagerMoves DEF LockInv
<1>2. /\ UNCHANGED <<ready, counters, call, mode>>
      /\ readers_cv' \subseteq readers_cv
      /\ writers_cv' \subseteq writers_cv
      /\ writers_cv' # writers_cv => t \in writers_cv /\ t \notin writers_cv'
  BY DEF SpuriousWake
<1>3. TypeOK' /\ LoopModes'
  BY <1>2 DEF LockInv, TypeOK, LoopModes, Governing, counters
<1>4. Sleepers'
  BY <1>1, <1>2 DEF LockInv, Sleepers
<1>5. CountersAgree' /\ OneSide'
  BY <1>1, <1>2 DEF LockInv, CountersAgree, OneSide, counters
<1>6. NoLostWakeup'
  BY <1>1, <1>2 DEF LockInv, Sleepers, NoLostWakeup, ReadBlocked, WriteBlocked, counters
<1> QED
  BY <1>3, <1>4, <1>5, <1>6 DEF LockInv

\* init and destroy with no thread inside keep the invariant.
LEMMA ManagerKeepsInv ==
  ASSUME LockInv, Quiescent, InitManager \/ DestroyManager
  PROVE  LockInv'
<1>1. /\ Readers = {} /\ Writers = {} /\ Queued = {}
      /\ Readers' = {} /\ Writers' = {} /\ Queued' = {}
  BY ManagerMoves DEF LockInv
<1>2. /\ active_readers' = 0 /\ waiting_writers' = 0 /\ writer_active' = FALSE
      /\ UNCHANGED <<call, mode>>
      /\ ready' \in BOOLEAN
  BY DEF InitManager, DestroyManager
<1>3. readers_cv' = {} /\ writers_cv' = {}
  <2>1. readers_cv = {} /\ writers_cv = {}
    BY DEF LockInv, Sleepers, Quiescent, Queued
  <2> QED
    BY <2>1 DEF InitManager, DestroyManager
<1>4. TypeOK' /\ LoopModes'
  BY <1>2, <1>3 DEF LockInv, TypeOK, LoopModes, Quiescent
<1>5. Sleepers' /\ OneSide' /\ NoLostWakeup'
  BY <1>1, <1>3 DEF Sleepers, OneSide, NoLostWakeup
<1>6. CountersAgree'
  BY <1>1, <1>2, FS_EmptySet DEF CountersAgree
<1> QED
  BY <1>4, <1>5, <1>6 DEF LockInv
-----------------------------------------------------------------------------
\* The invariant holds initially.
LEMMA InitInv == Init => LockInv
<1> SUFFICES ASSUME Init PROVE LockInv
  OBVIOUS
<1>1. Readers = {} /\ Writers = {} /\ Queued = {}
  BY DEF Init, Readers, Writers, Queued
<1>2. TypeOK /\ LoopModes
  BY DEF Init, TypeOK, LoopModes, Places, Modes
<1>3. Sleepers /\ OneSide /\ NoLostWakeup
  BY <1>1 DEF Init, Sleepers, OneSide, NoLostWakeup
<1>4. CountersAgree
  BY <1>1, FS_EmptySet DEF Init, CountersAgree
<1> QED
  BY <1>2, <1>3, <1>4 DEF LockInv

\* Every step of every thread, and init and destroy, keep the invariant.
LEMMA NextKeepsInv == LockInv /\ [Next]_lockVars => LockInv'
<1> SUFFICES ASSUME LockInv, [Next]_lockVars PROVE LockInv'
  OBVIOUS
<1>1. CASE Quiescent /\ (InitManager \/ DestroyManager)
  BY <1>1, ManagerKeepsInv
<1>2. ASSUME NEW t \in Threads, NEW m \in Modes, Acquire(t, m)
      PROVE  LockInv'
  BY <1>2, NothingKeepsInv, ReadKeepsInv, WriteKeepsInv DEF Acquire
<1>3. ASSUME NEW t \in Threads, Recheck(t)
      PROVE  LockInv'
  BY <1>3, ReadKeepsInv, WriteKeepsInv DEF Recheck
<1>4. ASSUME NEW t \in Threads, SpuriousWake(t)
      PROVE  LockInv'
  BY <1>4, SpuriousKeepsInv
<1>5. ASSUME NEW t \in Threads, Release(t)
      PROVE  LockInv'
  BY <1>5, NothingKeepsInv, ReleaseReadKeepsInv, ReleaseWriteKeepsInv DEF Release
<1>6. CASE UNCHANGED lockVars
  BY <1>6 DEF lockVars, LockInv, TypeOK, LoopModes, Sleepers, CountersAgree, OneSide,
              NoLostWakeup, Readers, Writers, Queued, Governing, ReadBlocked, WriteBlocked
<1> QED
  BY <1>1, <1>2, <1>3, <1>4, <1>5, <1>6 DEF Next, ThreadStep

(***************************************************************************)
(* lock_manager.c keeps LockInv whatever the threads do.                   *)
(***************************************************************************)
THEOREM LockInvariance == Spec => []LockInv
BY InitInv, NextKeepsInv, PTL DEF Spec

(***************************************************************************)
(* No counter of lock_manager.c, all of them unsigned, is ever taken below *)
(* zero, however acquires, releases and waits interleave.                  *)
(***************************************************************************)
THEOREM CountersInRange == Spec => []TypeOK
<1>1. LockInv => TypeOK
  BY DEF LockInv
<1> QED
  BY <1>1, LockInvariance, PTL

(***************************************************************************)
(* The counters never wrap, and count exactly the threads inside and the   *)
(* writers queued.                                                         *)
(***************************************************************************)
THEOREM CountersCorrect == Spec => [](TypeOK /\ CountersAgree)
<1>1. LockInv => TypeOK /\ CountersAgree
  BY DEF LockInv
<1> QED
  BY <1>1, LockInvariance, PTL

(***************************************************************************)
(* Callers exclude each other as their modes and the policy demand.        *)
(***************************************************************************)
THEOREM MutualExclusion == Spec => []Exclusion
<1>1. LockInv => Exclusion
  <2> SUFFICES ASSUME LockInv, ready,
                      NEW t \in Threads, NEW u \in Threads, t # u,
                      call[t] = "in", mode[t] # "none",
                      call[u] = "in", mode[u] # "none"
               PROVE  Policy = "readers_parallel" /\ mode[t] = "read" /\ mode[u] = "read"
    BY DEF Exclusion
  <2>1. mode[t] \in {"read", "write"} /\ mode[u] \in {"read", "write"}
    BY DEF LockInv, TypeOK, Modes
  <2>2. /\ t \in Readers \/ t \in Writers
        /\ u \in Readers \/ u \in Writers
    BY <2>1 DEF Readers, Writers, Governing, effective_lock_mode
  <2>3. t \in Readers /\ u \in Readers
    BY <2>2 DEF LockInv, OneSide
  <2> QED
    BY <2>1, <2>3, LockManagerAssumption
       DEF Readers, Governing, effective_lock_mode, Policies
<1> QED
  BY <1>1, LockInvariance, PTL

(***************************************************************************)
(* No release leaves a sleeper behind that nobody will wake.               *)
(***************************************************************************)
THEOREM WakeupsNotLost == Spec => []NoLostWakeup
<1>1. LockInv => NoLostWakeup
  BY DEF LockInv
<1> QED
  BY <1>1, LockInvariance, PTL

(***************************************************************************)
(* lock_manager.c implements the readers-writer lock of RWLock.            *)
(***************************************************************************)
THEOREM ImplementsRWLock == Spec => RefinesRWLock
<1>1. Init => RW!Init
  BY DEF Init, RW!Init, Readers, Writers, Queued
<1>2. LockInv /\ [Next]_lockVars => [RW!Next]_RW!rwVars
  <2> SUFFICES ASSUME LockInv, [Next]_lockVars
               PROVE  RW!Next \/ UNCHANGED RW!rwVars
    OBVIOUS
  <2> USE DEF RW!rwVars
  <2>1. CASE Quiescent /\ (InitManager \/ DestroyManager)
    BY <2>1, ManagerMoves DEF LockInv
  <2>2. ASSUME NEW t \in Threads,
               (\E m \in Modes : AcquireNothing(t, m)) \/ ReleaseNothing(t)
        PROVE  UNCHANGED RW!rwVars
    BY <2>2, NothingMoves DEF LockInv
  <2>3. ASSUME NEW t \in Threads,
               (\E m \in Modes : AcquireRead(t, m)) \/ RecheckRead(t)
        PROVE  RW!EnterRead(t) \/ UNCHANGED RW!rwVars
    <3>1. /\ Writers' = Writers /\ Queued' = Queued
          /\ t \notin Readers /\ t \notin Queued
          /\ Readers' = IF ReadBlocked THEN Readers ELSE Readers \union {t}
      BY <2>3, ReadMoves DEF LockInv, LoopModes, RecheckRead
    <3> QED
      BY <3>1, BlockedMeaning DEF RW!EnterRead, RW!Free
  <2>4. ASSUME NEW t \in Threads,
               (\E m \in Modes : AcquireWrite(t, m)) \/ RecheckWrite(t)
        PROVE  RW!EnterWrite(t) \/ RW!QueueWrite(t) \/ UNCHANGED RW!rwVars
    <3>1. /\ Readers' = Readers
          /\ t \notin Readers /\ t \notin Writers
          /\ Writers' = IF WriteBlocked THEN Writers ELSE Writers \union {t}
          /\ Queued' = IF WriteBlocked THEN Queued \union {t} ELSE Queued \ {t}
      BY <2>4, WriteMoves DEF LockInv, LoopModes, RecheckWrite
    <3>2. CASE WriteBlocked /\ t \in Queued
      BY <3>1, <3>2
    <3>3. CASE WriteBlocked /\ t \notin Queued
      BY <3>1, <3>3, BlockedMeaning DEF RW!QueueWrite, RW!Free
    <3>4. CASE ~WriteBlocked
      BY <3>1, <3>4, BlockedMeaning DEF RW!EnterWrite, RW!Free
    <3> QED
      BY <3>2, <3>3, <3>4
  <2>5. ASSUME NEW t \in Threads, SpuriousWake(t)
        PROVE  UNCHANGED RW!rwVars
    BY <2>5, ManagerMoves DEF LockInv
  <2>6. ASSUME NEW t \in Threads, ReleaseRead(t)
        PROVE  RW!LeaveRead(t)
    BY <2>6, ReleaseMoves DEF LockInv, RW!LeaveRead
  <2>7. ASSUME NEW t \in Threads, ReleaseWrite(t)
        PROVE  RW!LeaveWrite(t)
    BY <2>7, ReleaseMoves DEF LockInv, OneSide, RW!LeaveWrite
  <2>8. CASE UNCHANGED lockVars
    BY <2>8 DEF lockVars, Readers, Writers, Queued, Governing
  <2> QED
    BY <2>1, <2>2, <2>3, <2>4, <2>5, <2>6, <2>7, <2>8
       DEF Next, ThreadStep, Acquire, Recheck, Release, RW!Next
<1> QED
  BY <1>1, <1>2, LockInvariance, PTL DEF Spec, RefinesRWLock, RW!Spec
=============================================================================
