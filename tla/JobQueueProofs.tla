--------------------------- MODULE JobQueueProofs ---------------------------
(***************************************************************************)
(* Proofs about JobQueue, for every finite set of threads, every set of    *)
(* jobs and every capacity.  The ring is in shape as long as nobody stores *)
(* what is no job, so the jobs that sleeping producers hold belong to the  *)
(* invariant; wake-ups are counted against the threads in the matching     *)
(* wait loop, so the wait sets have to lie inside those loops; and init    *)
(* and destroy may forget the ring only because nobody else is inside.     *)
(***************************************************************************)
EXTENDS JobQueue, FiniteSetTheorems, SequenceTheorems, TLAPS

\* Only threads in the matching wait loop sleep on a condition variable.
Sleepers ==
  /\ \A t \in not_empty : op[t] = "pop"
  /\ \A t \in not_full : op[t] = "push"

\* A producer in its wait loop holds a valid job.
Holding == \A t \in Threads : op[t] = "push" => arg[t] \in Jobs

\* A queue that does not exist is empty and unused.
Unborn == ~ready => ~closed /\ ~destroying /\ size = 0 /\ \A t \in Threads : op[t] = "out"

\* The queue is destroyed by one thread, and nobody else is inside.
Dying ==
  destroying =>
    /\ closed
    /\ \A t \in Threads : op[t] \in {"out", "cancel", "finish"}
    /\ \A t, u \in Threads : op[t] # "out" /\ op[u] # "out" => t = u

\* The three parts of NoLostWakeup.
ConsumersHelped == not_empty # {} => size <= Cardinality(AwakePoppers)
ProducersHelped == not_full # {} => Capacity - size <= Cardinality(AwakePushers)
NobodySleeps    == closed => not_empty = {} /\ not_full = {}

Quiet == ConsumersHelped /\ ProducersHelped /\ NobodySleeps

QueueInv ==
  /\ TypeOK
  /\ RingShape
  /\ Sleepers /\ Holding /\ Unborn /\ Dying
  /\ Quiet
-----------------------------------------------------------------------------
\* An index of the ring is taken modulo the capacity at most once around.
LEMMA Around ==
  ASSUME NEW h \in Slots, NEW n \in 0 .. Capacity
  PROVE  (h + n) % Capacity = IF h + n < Capacity THEN h + n ELSE h + n - Capacity
<1>1. Capacity \in Nat \ {0}
  BY JobQueueAssumption
<1>2. h \in Nat /\ n \in Nat /\ h + n \in Nat /\ h < Capacity /\ n <= Capacity
  BY <1>1 DEF Slots
<1>3. CASE h + n < Capacity
  BY <1>1, <1>2, <1>3
<1>4. CASE h + n >= Capacity
  <2>1. Capacity <= h + n /\ h + n < 2 * Capacity
    BY <1>1, <1>2, <1>4
  <2>2. (h + n) % Capacity = (h + n) - Capacity
    BY <1>1, <1>2, <2>1
  <2>. QED
    BY <1>1, <1>2, <1>4, <2>2
<1>. QED
  BY <1>1, <1>2, <1>3, <1>4

\* push, try_push: a job stored at the tail lengthens the ring by one slot.
LEMMA StoreRing ==
  ASSUME TypeOK, RingShape, NEW j \in Jobs, size # Capacity,
         items' = [items EXCEPT ![tail] = j],
         tail' = (tail + 1) % Capacity, size' = size + 1, head' = head
  PROVE  /\ RingShape'
         /\ items' \in [Slots -> Jobs \union {NoJob}]
         /\ head' \in Slots /\ tail' \in Slots /\ size' \in 0 .. Capacity
<1>1. Capacity \in Nat \ {0}
  BY JobQueueAssumption
<1>2. /\ items \in [Slots -> Jobs \union {NoJob}] /\ size \in Nat /\ size < Capacity
      /\ head \in Nat /\ head < Capacity /\ tail \in Nat /\ tail < Capacity
      /\ head \in Slots /\ tail \in Slots
  BY <1>1 DEF TypeOK, Slots
<1>3. tail = IF head + size < Capacity THEN head + size ELSE head + size - Capacity
  BY <1>1, <1>2, Around DEF RingShape
<1>4. tail' = IF tail + 1 < Capacity THEN tail + 1 ELSE 0
  <2>1. (tail + 1) % Capacity = IF tail + 1 < Capacity THEN tail + 1 ELSE tail + 1 - Capacity
    BY <1>1, <1>2, Around
  <2>. QED
    BY <1>1, <1>2, <2>1
<1>5. (head + (size + 1)) % Capacity
        = IF head + (size + 1) < Capacity THEN head + (size + 1) ELSE head + (size + 1) - Capacity
  BY <1>1, <1>2, Around
<1>6. tail' = (head' + size') % Capacity
  BY <1>1, <1>2, <1>3, <1>4, <1>5
<1>7. ASSUME NEW i \in 0 .. size' - 1
      PROVE  items'[(head' + i) % Capacity] \in Jobs
  <2>1. i \in Nat /\ i <= size
    BY <1>2
  <2>2. (head + i) % Capacity = IF head + i < Capacity THEN head + i ELSE head + i - Capacity
    BY <1>1, <1>2, <2>1, Around
  <2>3. CASE i = size
    BY <1>2, <1>3, <2>2, <2>3
  <2>4. CASE i # size
    <3>1. i \in 0 .. size - 1
      BY <1>2, <2>1, <2>4
    <3>2. items[(head + i) % Capacity] \in Jobs
      BY <3>1 DEF RingShape
    <3>3. (head + i) % Capacity \in Slots /\ (head + i) % Capacity # tail
      BY <1>1, <1>2, <1>3, <2>1, <2>2, <3>1 DEF Slots
    <3>. QED
      BY <1>2, <3>2, <3>3
  <2>. QED
    BY <2>3, <2>4
<1>8. tail' \in Slots /\ size' \in 0 .. Capacity
  BY <1>1, <1>2, <1>4 DEF Slots
<1>. QED
  BY <1>2, <1>6, <1>7, <1>8 DEF RingShape

\* pop and cancel_pending: the oldest job leaves and the others keep their slots.
LEMMA TakeRing ==
  ASSUME TypeOK, RingShape, size # 0,
         head' = (head + 1) % Capacity, size' = size - 1, items' = items, tail' = tail
  PROVE  /\ RingShape'
         /\ items[head] \in Jobs
         /\ head' \in Slots /\ tail' \in Slots /\ size' \in 0 .. Capacity
         /\ \A i \in 0 .. size - 1 : (head' + i) % Capacity = (head + (i + 1)) % Capacity
<1>1. Capacity \in Nat \ {0}
  BY JobQueueAssumption
<1>2. /\ size \in Nat /\ size <= Capacity /\ size >= 1
      /\ head \in Nat /\ head < Capacity /\ head \in Slots /\ tail \in Slots
  BY <1>1 DEF TypeOK, Slots
<1>3. head' = IF head + 1 < Capacity THEN head + 1 ELSE 0
  <2>1. (head + 1) % Capacity = IF head + 1 < Capacity THEN head + 1 ELSE head + 1 - Capacity
    BY <1>1, <1>2, Around
  <2>. QED
    BY <1>1, <1>2, <2>1
<1>4. head' \in Slots
  BY <1>1, <1>2, <1>3 DEF Slots
<1>5. ASSUME NEW i \in 0 .. size - 1
      PROVE  (head' + i) % Capacity = (head + (i + 1)) % Capacity
  <2>1. i \in 0 .. Capacity /\ i + 1 \in 0 .. Capacity /\ i \in Nat /\ i < Capacity
    BY <1>1, <1>2
  <2>2. (head' + i) % Capacity = IF head' + i < Capacity THEN head' + i ELSE head' + i - Capacity
    BY <1>4, <2>1, Around
  <2>3. (head + (i + 1)) % Capacity
          = IF head + (i + 1) < Capacity THEN head + (i + 1) ELSE head + (i + 1) - Capacity
    BY <1>2, <2>1, Around
  <2>. QED
    BY <1>1, <1>2, <1>3, <2>1, <2>2, <2>3
<1>6. items[head] \in Jobs
  <2>1. (head + 0) % Capacity = head
    BY <1>1, <1>2, Around
  <2>2. 0 \in 0 .. size - 1
    BY <1>2
  <2>. QED
    BY <2>1, <2>2 DEF RingShape
<1>7. tail' = (head' + size') % Capacity
  <2>1. size - 1 \in 0 .. size - 1 /\ (size - 1) + 1 = size
    BY <1>2
  <2>2. (head' + (size - 1)) % Capacity = (head + ((size - 1) + 1)) % Capacity
    BY <1>5, <2>1
  <2>. QED
    BY <2>1, <2>2 DEF RingShape
<1>8. ASSUME NEW i \in 0 .. size' - 1
      PROVE  items'[(head' + i) % Capacity] \in Jobs
  <2>1. i \in 0 .. size - 1 /\ i + 1 \in 0 .. size - 1
    BY <1>2
  <2>. QED
    BY <1>5, <2>1 DEF RingShape
<1>9. size' \in 0 .. Capacity
  BY <1>1, <1>2
<1>. QED
  BY <1>2, <1>4, <1>5, <1>6, <1>7, <1>8, <1>9 DEF RingShape
-----------------------------------------------------------------------------
(* How the steps move the threads that are awake in the wait loops.        *)

\* The sets that NoLostWakeup counts are finite.
LEMMA AwakeFinite ==
  /\ IsFiniteSet(AwakePoppers) /\ IsFiniteSet(AwakePushers)
  /\ Cardinality(AwakePoppers) \in Nat /\ Cardinality(AwakePushers) \in Nat
<1>1. AwakePoppers \subseteq Threads /\ AwakePushers \subseteq Threads
  BY DEF AwakePoppers, AwakePushers
<1>2. IsFiniteSet(AwakePoppers) /\ IsFiniteSet(AwakePushers)
  BY <1>1, JobQueueAssumption, FS_Subset
<1>. QED
  BY <1>2, FS_CardinalityType

\* Who is in which wait loop, and who sleeps there, is left alone.
PoppersStay == not_empty' = not_empty /\ \A u \in Threads : (op'[u] = "pop") = (op[u] = "pop")
PushersStay == not_full' = not_full /\ \A u \in Threads : (op'[u] = "push") = (op[u] = "push")

\* A step that leaves a wait loop alone leaves its awake threads alone.
LEMMA AwakeStay ==
  /\ PoppersStay => AwakePoppers' = AwakePoppers
  /\ PushersStay => AwakePushers' = AwakePushers
BY DEF PoppersStay, PushersStay, AwakePoppers, AwakePushers

\* pthread_cond_signal(&not_empty), or a spurious wake-up, when somebody sleeps.
LEMMA PopperWoken ==
  ASSUME Sleepers, NEW u \in not_empty, not_empty \subseteq Threads,
         not_empty' = not_empty \ {u},
         \A v \in Threads : (op'[v] = "pop") = (op[v] = "pop")
  PROVE  Cardinality(AwakePoppers') = Cardinality(AwakePoppers) + 1
<1>1. op[u] = "pop" /\ u \notin AwakePoppers
  BY DEF Sleepers, AwakePoppers
<1>2. AwakePoppers' = AwakePoppers \cup {u}
  BY <1>1 DEF AwakePoppers
<1>. QED
  BY <1>1, <1>2, AwakeFinite, FS_AddElement

\* The same for not_full.
LEMMA PusherWoken ==
  ASSUME Sleepers, NEW u \in not_full, not_full \subseteq Threads,
         not_full' = not_full \ {u},
         \A v \in Threads : (op'[v] = "push") = (op[v] = "push")
  PROVE  Cardinality(AwakePushers') = Cardinality(AwakePushers) + 1
<1>1. op[u] = "push" /\ u \notin AwakePushers
  BY DEF Sleepers, AwakePushers
<1>2. AwakePushers' = AwakePushers \cup {u}
  BY <1>1 DEF AwakePushers
<1>. QED
  BY <1>1, <1>2, AwakeFinite, FS_AddElement

\* A consumer that was awake leaves pop; one that was not in its loop changes
\* nothing.
LEMMA PopperLeaves ==
  ASSUME TypeOK, NEW t \in Threads, t \notin not_empty, not_empty' = not_empty,
         op' = [op EXCEPT ![t] = "out"]
  PROVE  Cardinality(AwakePoppers') = IF op[t] = "pop" THEN Cardinality(AwakePoppers) - 1
                                      ELSE Cardinality(AwakePoppers)
<1>0. op \in [Threads -> Ops]
  BY DEF TypeOK
<1>1. CASE op[t] = "pop"
  <2>1. t \in AwakePoppers /\ AwakePoppers' = AwakePoppers \ {t}
    BY <1>0, <1>1 DEF AwakePoppers
  <2>. QED
    BY <1>1, <2>1, AwakeFinite, FS_RemoveElement
<1>2. CASE op[t] # "pop"
  <2>1. AwakePoppers' = AwakePoppers
    BY <1>0, <1>2 DEF AwakePoppers
  <2>. QED
    BY <1>2, <2>1
<1>. QED
  BY <1>1, <1>2

\* The same for a producer and push.
LEMMA PusherLeaves ==
  ASSUME TypeOK, NEW t \in Threads, t \notin not_full, not_full' = not_full,
         op' = [op EXCEPT ![t] = "out"]
  PROVE  Cardinality(AwakePushers') = IF op[t] = "push" THEN Cardinality(AwakePushers) - 1
                                      ELSE Cardinality(AwakePushers)
<1>0. op \in [Threads -> Ops]
  BY DEF TypeOK
<1>1. CASE op[t] = "push"
  <2>1. t \in AwakePushers /\ AwakePushers' = AwakePushers \ {t}
    BY <1>0, <1>1 DEF AwakePushers
  <2>. QED
    BY <1>1, <2>1, AwakeFinite, FS_RemoveElement
<1>2. CASE op[t] # "push"
  <2>1. AwakePushers' = AwakePushers
    BY <1>0, <1>2 DEF AwakePushers
  <2>. QED
    BY <1>2, <2>1
<1>. QED
  BY <1>1, <1>2
-----------------------------------------------------------------------------
(* Each step keeps the invariant.                                          *)

\* The sleepers a signal leaves behind slept before.
LEMMA SignalledSleepers ==
  ASSUME NEW cv, NEW after \in Signalled(cv)
  PROVE  after \subseteq cv /\ (after # {} => \E u \in cv : after = cv \ {u})
BY DEF Signalled

\* push and try_push with room: the job is stored, one consumer signalled.
LEMMA StoreKeeps ==
  ASSUME QueueInv, NEW t \in Threads, NEW j \in Jobs, ready, ~closed, size # Capacity,
         op[t] \in {"out", "push"}, t \notin not_full,
         Store(j), Returns(t, "ok"), UNCHANGED <<ready, closed, not_full, got, destroying>>
  PROVE  QueueInv'
<1>1. TypeOK /\ RingShape /\ Sleepers /\ Capacity \in Nat \ {0}
  BY JobQueueAssumption DEF QueueInv
<1>2. /\ op' = [op EXCEPT ![t] = "out"] /\ arg' = [arg EXCEPT ![t] = NoJob] /\ ret' = "ok"
      /\ items' = [items EXCEPT ![tail] = j] /\ tail' = (tail + 1) % Capacity
      /\ size' = size + 1 /\ head' = head /\ not_empty' \in Signalled(not_empty)
  BY DEF Store, Returns
<1>3. /\ RingShape' /\ items' \in [Slots -> Jobs \union {NoJob}]
      /\ head' \in Slots /\ tail' \in Slots /\ size' \in 0 .. Capacity
  BY <1>1, <1>2, StoreRing
<1>4. not_empty' \subseteq not_empty /\ (not_empty' # {} => \E u \in not_empty : not_empty' = not_empty \ {u})
  BY <1>2, SignalledSleepers
<1>5. TypeOK'
  BY <1>1, <1>2, <1>3, <1>4 DEF TypeOK, Ops, Statuses
<1>6. (Sleepers /\ Holding /\ Unborn /\ Dying)'
  BY <1>1, <1>2, <1>4 DEF QueueInv, TypeOK, Sleepers, Holding, Unborn, Dying
<1>7. ConsumersHelped'
  <2>1. SUFFICES ASSUME not_empty' # {} PROVE size' <= Cardinality(AwakePoppers')
    BY DEF ConsumersHelped
  <2>2. PICK u \in not_empty : not_empty' = not_empty \ {u}
    BY <1>4, <2>1
  <2>3. \A v \in Threads : (op'[v] = "pop") = (op[v] = "pop")
    BY <1>1, <1>2 DEF TypeOK
  <2>4. Cardinality(AwakePoppers') = Cardinality(AwakePoppers) + 1
    BY <1>1, <2>2, <2>3, PopperWoken DEF TypeOK
  <2>5. size <= Cardinality(AwakePoppers)
    BY DEF QueueInv, Quiet, ConsumersHelped
  <2>. QED
    BY <1>1, <1>2, <2>4, <2>5, AwakeFinite DEF TypeOK
<1>8. ProducersHelped'
  <2>1. Cardinality(AwakePushers') = IF op[t] = "push" THEN Cardinality(AwakePushers) - 1
                                     ELSE Cardinality(AwakePushers)
    BY <1>1, <1>2, PusherLeaves
  <2>2. not_full # {} => Capacity - size <= Cardinality(AwakePushers)
    BY DEF QueueInv, Quiet, ProducersHelped
  <2>3. Cardinality(AwakePushers) \in Nat /\ size \in Nat
    BY <1>1, AwakeFinite DEF TypeOK
  <2>. QED
    BY <1>1, <1>2, <2>1, <2>2, <2>3 DEF ProducersHelped
<1>9. NobodySleeps'
  BY DEF NobodySleeps
<1>. QED
  BY <1>3, <1>5, <1>6, <1>7, <1>8, <1>9 DEF QueueInv, Quiet

\* pop, and cancel_pending: the oldest job is taken, one producer signalled.
\* next is where the thread goes on.
LEMMA TakeKeeps ==
  ASSUME QueueInv, NEW t \in Threads, size # 0, ready,
         NEW next \in {"out", "finish"},
         \/ next = "out" /\ op[t] \in {"out", "pop"} /\ t \notin not_empty /\ ~destroying
         \/ next = "finish" /\ op[t] = "cancel",
         pop_front_locked,
         got' = [got EXCEPT ![t] = items[head]],
         op' = [op EXCEPT ![t] = next],
         arg' \in {[arg EXCEPT ![t] = NoJob], [arg EXCEPT ![t] = items[head]]},
         ret' \in {ret, "ok"},
         UNCHANGED <<ready, closed, not_empty, destroying>>
  PROVE  QueueInv'
<1>1. TypeOK /\ RingShape /\ Sleepers /\ Capacity \in Nat \ {0}
  BY JobQueueAssumption DEF QueueInv
<1>2. /\ head' = (head + 1) % Capacity /\ size' = size - 1 /\ items' = items /\ tail' = tail
      /\ not_full' \in Signalled(not_full)
  BY DEF pop_front_locked
<1>3. /\ RingShape' /\ items[head] \in Jobs
      /\ head' \in Slots /\ tail' \in Slots /\ size' \in 0 .. Capacity
  BY <1>1, <1>2, TakeRing
<1>4. not_full' \subseteq not_full /\ (not_full' # {} => \E u \in not_full : not_full' = not_full \ {u})
  BY <1>2, SignalledSleepers
<1>5. TypeOK'
  BY <1>1, <1>2, <1>3, <1>4 DEF TypeOK, Ops, Statuses
<1>6. (Sleepers /\ Holding /\ Unborn /\ Dying)'
  BY <1>1, <1>2, <1>3, <1>4 DEF QueueInv, TypeOK, Sleepers, Holding, Unborn, Dying
<1>7. ProducersHelped'
  <2>1. SUFFICES ASSUME not_full' # {} PROVE Capacity - size' <= Cardinality(AwakePushers')
    BY DEF ProducersHelped
  <2>2. PICK u \in not_full : not_full' = not_full \ {u}
    BY <1>4, <2>1
  <2>3. \A v \in Threads : (op'[v] = "push") = (op[v] = "push")
    BY <1>1, <1>2 DEF TypeOK
  <2>4. Cardinality(AwakePushers') = Cardinality(AwakePushers) + 1
    BY <1>1, <2>2, <2>3, PusherWoken DEF TypeOK
  <2>5. Capacity - size <= Cardinality(AwakePushers)
    BY DEF QueueInv, Quiet, ProducersHelped
  <2>. QED
    BY <1>1, <1>2, <2>4, <2>5, AwakeFinite DEF TypeOK
<1>8. ConsumersHelped'
  <2>1. Cardinality(AwakePoppers') \in {Cardinality(AwakePoppers), Cardinality(AwakePoppers) - 1}
    <3>1. CASE next = "out"
      BY <1>1, <3>1, PopperLeaves
    <3>2. CASE next = "finish"
      <4>1. PoppersStay
        BY <1>1, <3>2 DEF PoppersStay, TypeOK
      <4>. QED
        BY <4>1, AwakeStay
    <3>. QED
      BY <3>1, <3>2
  <2>2. not_empty # {} => size <= Cardinality(AwakePoppers)
    BY DEF QueueInv, Quiet, ConsumersHelped
  <2>3. Cardinality(AwakePoppers) \in Nat /\ size \in Nat
    BY <1>1, AwakeFinite DEF TypeOK
  <2>. QED
    BY <1>1, <1>2, <2>1, <2>2, <2>3 DEF ConsumersHelped
<1>9. NobodySleeps'
  BY <1>4 DEF QueueInv, Quiet, NobodySleeps
<1>. QED
  BY <1>3, <1>5, <1>6, <1>7, <1>8, <1>9 DEF QueueInv, Quiet

\* A call that returns without touching the ring: closed, full, invalid.
LEMMA ReturnKeeps ==
  ASSUME QueueInv, NEW t \in Threads, NEW s \in Statuses,
         op[t] = "out" \/ (closed /\ ~destroying),
         Returns(t, s),
         UNCHANGED <<ready, items, head, tail, size, closed, not_empty, not_full, got, destroying>>
  PROVE  QueueInv'
<1>1. TypeOK /\ RingShape /\ Sleepers
  BY DEF QueueInv
<1>2. op' = [op EXCEPT ![t] = "out"] /\ arg' = [arg EXCEPT ![t] = NoJob] /\ ret' = s
  BY DEF Returns
<1>3. TypeOK' /\ RingShape'
  BY <1>1, <1>2 DEF TypeOK, RingShape, Ops
<1>4. Holding' /\ Unborn' /\ Dying'
  BY <1>1, <1>2 DEF QueueInv, TypeOK, Holding, Unborn, Dying
<1>5. Sleepers' /\ Quiet'
  <2>1. CASE closed
    BY <2>1 DEF QueueInv, Quiet, Sleepers, ConsumersHelped, ProducersHelped, NobodySleeps
  <2>2. CASE op[t] = "out"
    <3>1. PoppersStay /\ PushersStay
      BY <1>1, <1>2, <2>2 DEF TypeOK, PoppersStay, PushersStay
    <3>2. AwakePoppers' = AwakePoppers /\ AwakePushers' = AwakePushers
      BY <3>1, AwakeStay
    <3>. QED
      BY <1>1, <1>2, <2>2, <3>2
      DEF QueueInv, TypeOK, Quiet, Sleepers, ConsumersHelped, ProducersHelped, NobodySleeps
  <2>. QED
    BY <2>1, <2>2
<1>. QED
  BY <1>3, <1>4, <1>5 DEF QueueInv

\* push on a full queue: the caller goes to sleep.
LEMMA PushWaitKeeps ==
  ASSUME QueueInv, NEW t \in Threads, NEW j \in Jobs, ready, ~destroying, FullAndOpen,
         op[t] \in {"out", "push"},
         not_full' = not_full \union {t},
         op' = [op EXCEPT ![t] = "push"], arg' = [arg EXCEPT ![t] = j],
         UNCHANGED <<ready, items, head, tail, size, closed, not_empty, ret, got, destroying>>
  PROVE  QueueInv'
<1>1. TypeOK /\ RingShape /\ Sleepers /\ Capacity \in Nat /\ size = Capacity /\ ~closed
  BY JobQueueAssumption DEF QueueInv, FullAndOpen
<1>2. TypeOK' /\ RingShape'
  BY <1>1 DEF TypeOK, RingShape, Ops
<1>3. Sleepers' /\ Holding' /\ Unborn' /\ Dying' /\ NobodySleeps'
  BY <1>1 DEF QueueInv, TypeOK, Sleepers, Holding, Unborn, Dying, NobodySleeps
<1>4. ProducersHelped'
  <2>1. IsFiniteSet(AwakePushers')
    <3>1. AwakePushers' \subseteq Threads
      BY DEF AwakePushers
    <3>. QED
      BY <3>1, JobQueueAssumption, FS_Subset
  <2>2. Cardinality(AwakePushers') \in Nat
    BY <2>1, FS_CardinalityType
  <2>. QED
    BY <1>1, <2>2 DEF ProducersHelped
<1>5. ConsumersHelped'
  <2>1. PoppersStay
    BY <1>1 DEF TypeOK, PoppersStay
  <2>. QED
    BY <2>1, AwakeStay DEF QueueInv, Quiet, ConsumersHelped
<1>. QED
  BY <1>2, <1>3, <1>4, <1>5 DEF QueueInv, Quiet

\* pop on an empty queue: the caller goes to sleep.
LEMMA PopWaitKeeps ==
  ASSUME QueueInv, NEW t \in Threads, ready, ~destroying, EmptyAndOpen,
         op[t] \in {"out", "pop"},
         not_empty' = not_empty \union {t},
         op' = [op EXCEPT ![t] = "pop"],
         UNCHANGED <<ready, items, head, tail, size, closed, not_full, arg, ret, got, destroying>>
  PROVE  QueueInv'
<1>1. TypeOK /\ RingShape /\ Sleepers /\ size = 0 /\ ~closed
  BY DEF QueueInv, EmptyAndOpen
<1>2. TypeOK' /\ RingShape'
  BY <1>1 DEF TypeOK, RingShape, Ops
<1>3. Sleepers' /\ Holding' /\ Unborn' /\ Dying' /\ NobodySleeps'
  BY <1>1 DEF QueueInv, TypeOK, Sleepers, Holding, Unborn, Dying, NobodySleeps
<1>4. ConsumersHelped'
  <2>1. IsFiniteSet(AwakePoppers')
    <3>1. AwakePoppers' \subseteq Threads
      BY DEF AwakePoppers
    <3>. QED
      BY <3>1, JobQueueAssumption, FS_Subset
  <2>. QED
    BY <1>1, <2>1, FS_CardinalityType DEF ConsumersHelped
<1>5. ProducersHelped'
  <2>1. PushersStay
    BY <1>1 DEF TypeOK, PushersStay
  <2>. QED
    BY <2>1, AwakeStay DEF QueueInv, Quiet, ProducersHelped
<1>. QED
  BY <1>2, <1>3, <1>4, <1>5 DEF QueueInv, Quiet

\* The loop of push, entered or woken.
LEMMA PushLoopKeeps ==
  ASSUME QueueInv, NEW t \in Threads, NEW j \in Jobs, ready, ~destroying,
         op[t] \in {"out", "push"}, t \notin not_full, PushLoop(t, j)
  PROVE  QueueInv'
<1>1. CASE FullAndOpen
  BY <1>1, PushWaitKeeps DEF PushLoop, ring
<1>2. CASE ~FullAndOpen /\ closed
  BY <1>2, ReturnKeeps DEF PushLoop, ring, Statuses
<1>3. CASE ~FullAndOpen /\ ~closed
  <2>1. size # Capacity /\ Store(j) /\ Returns(t, "ok") /\ UNCHANGED <<ready, closed, not_full, got, destroying>>
    BY <1>3 DEF PushLoop, FullAndOpen
  <2>. QED
    BY <1>3, <2>1, StoreKeeps
<1>. QED
  BY <1>1, <1>2, <1>3

\* The loop of pop, entered or woken.
LEMMA PopLoopKeeps ==
  ASSUME QueueInv, NEW t \in Threads, ready, ~destroying,
         op[t] \in {"out", "pop"}, t \notin not_empty, PopLoop(t)
  PROVE  QueueInv'
<1>1. CASE EmptyAndOpen
  BY <1>1, PopWaitKeeps DEF PopLoop, ring
<1>2. CASE ~EmptyAndOpen /\ size = 0
  BY <1>2, ReturnKeeps DEF PopLoop, ring, Statuses, EmptyAndOpen
<1>3. CASE ~EmptyAndOpen /\ size # 0
  <2>1. /\ got' = [got EXCEPT ![t] = items[head]] /\ pop_front_locked
        /\ op' = [op EXCEPT ![t] = "out"] /\ arg' = [arg EXCEPT ![t] = NoJob] /\ ret' = "ok"
        /\ UNCHANGED <<ready, closed, not_empty, destroying>>
    BY <1>3 DEF PopLoop, Returns
  <2>. QED
    BY <1>3, <2>1, TakeKeeps
<1>. QED
  BY <1>1, <1>2, <1>3

\* A thread that is out, or awake in its loop, does not sleep on the other
\* condition variable.
LEMMA AwakeOutside ==
  ASSUME QueueInv, NEW t \in Threads
  PROVE  /\ op[t] # "push" => t \notin not_full
         /\ op[t] # "pop" => t \notin not_empty
         /\ op[t] # "out" => ready
         /\ op[t] \in {"push", "pop"} => ~destroying
BY DEF QueueInv, Sleepers, Unborn, Dying

\* The calls that other threads may make while the queue is in use.
LEMMA CallKeeps ==
  ASSUME QueueInv, NEW t \in Threads, ~destroying, CallStep(t)
  PROVE  QueueInv'
<1>1. ASSUME NEW j, op[t] = "out", Invalid(t) PROVE QueueInv'
  BY <1>1, ReturnKeeps DEF Invalid, ring, Statuses
<1>2. ASSUME NEW j \in Jobs \union {NoJob}, Push(t, j) PROVE QueueInv'
  <2>1. CASE ready /\ job_is_valid(j)
    BY <1>2, <2>1, PushLoopKeeps, AwakeOutside DEF Push, job_is_valid
  <2>2. CASE ~(ready /\ job_is_valid(j))
    BY <1>1, <1>2, <2>2 DEF Push
  <2>. QED
    BY <2>1, <2>2
<1>3. ASSUME NEW j \in Jobs \union {NoJob}, TryPush(t, j) PROVE QueueInv'
  <2>1. CASE ready /\ job_is_valid(j) /\ ~closed /\ size # Capacity
    <3>1. Store(j) /\ Returns(t, "ok") /\ UNCHANGED <<ready, closed, not_full, got, destroying>>
      BY <1>3, <2>1 DEF TryPush
    <3>. QED
      BY <1>3, <2>1, <3>1, StoreKeeps, AwakeOutside DEF TryPush, job_is_valid
  <2>2. CASE ready /\ job_is_valid(j) /\ (closed \/ size = Capacity)
    <3>1. \E s \in {"closed", "full"} : Returns(t, s)
      BY <1>3, <2>2 DEF TryPush
    <3>2. UNCHANGED <<ready, items, head, tail, size, closed, not_empty, not_full, got, destroying>>
      BY <1>3, <2>2 DEF TryPush, ring
    <3>. QED
      BY <1>3, <3>1, <3>2, ReturnKeeps DEF TryPush, Statuses
  <2>3. CASE ~(ready /\ job_is_valid(j))
    BY <1>1, <1>3, <2>3 DEF TryPush
  <2>. QED
    BY <2>1, <2>2, <2>3
<1>4. CASE Pop(t)
  <2>1. CASE ready
    BY <1>4, <2>1, PopLoopKeeps, AwakeOutside DEF Pop
  <2>2. CASE ~ready
    BY <1>1, <1>4, <2>2 DEF Pop
  <2>. QED
    BY <2>1, <2>2
<1>5. CASE Close(t)
  <2>1. CASE ready
    BY <1>5, <2>1
    DEF Close, Shut, Broadcast, ring, QueueInv, TypeOK, RingShape, Sleepers, Holding, Unborn, Dying,
        Quiet, ConsumersHelped, ProducersHelped, NobodySleeps
  <2>2. CASE ~ready
    <3>1. UNCHANGED queueVars
      BY <1>5, <2>2 DEF Close, ring, queueVars
    <3>. QED
      BY <3>1 DEF queueVars, QueueInv, TypeOK, RingShape, Sleepers, Holding, Unborn, Dying,
        Quiet, ConsumersHelped, ProducersHelped, NobodySleeps, AwakePoppers, AwakePushers
  <2>. QED
    BY <2>1, <2>2
<1>6. CASE CancelPending(t)
  <2>1. PoppersStay /\ PushersStay
    BY <1>6 DEF CancelPending, QueueInv, TypeOK, PoppersStay, PushersStay
  <2>2. AwakePoppers' = AwakePoppers /\ AwakePushers' = AwakePushers
    BY <2>1, AwakeStay
  <2>3. Quiet'
    BY <1>6, <2>2 DEF CancelPending, ring, QueueInv, Quiet, ConsumersHelped, ProducersHelped, NobodySleeps
  <2>. QED
    BY <1>6, <2>3
    DEF CancelPending, ring, QueueInv, TypeOK, Ops, RingShape, Sleepers, Holding, Unborn, Dying
<1>7. CASE Forget(t)
  <2>1. AwakePoppers' = AwakePoppers /\ AwakePushers' = AwakePushers
    BY <1>7 DEF Forget, AwakePoppers, AwakePushers
  <2>2. Quiet'
    BY <1>7, <2>1 DEF Forget, ring, QueueInv, Quiet, ConsumersHelped, ProducersHelped, NobodySleeps
  <2>. QED
    BY <1>7, <2>2
    DEF Forget, ring, QueueInv, TypeOK, RingShape, Sleepers, Holding, Unborn, Dying
<1>. QED
  BY <1>2, <1>3, <1>4, <1>5, <1>6, <1>7 DEF CallStep

\* cancel_pending, by itself and inside destroy.
LEMMA CancelKeeps ==
  ASSUME QueueInv, NEW t \in Threads, CancelLoop(t)
  PROVE  QueueInv'
<1>0. op[t] \in {"cancel", "finish"} /\ TypeOK
  BY DEF CancelLoop, CancelTake, CancelFinish, CancelDone, DestroyDone, QueueInv
<1>1. ready /\ t \notin not_full /\ t \notin not_empty
  BY <1>0, AwakeOutside
<1>2. CASE CancelTake(t)
  <2>1. size # 0
    BY <1>0, <1>2 DEF CancelTake, TypeOK
  <2>2. /\ op[t] = "cancel" /\ got' = [got EXCEPT ![t] = items[head]]
        /\ arg' = [arg EXCEPT ![t] = items[head]]
        /\ pop_front_locked /\ op' = [op EXCEPT ![t] = "finish"]
        /\ ret' = ret /\ UNCHANGED <<ready, closed, not_empty, destroying>>
    BY <1>2 DEF CancelTake
  <2>. QED
    BY <1>1, <2>1, <2>2, TakeKeeps
<1>3. CASE CancelFinish(t) \/ CancelDone(t)
  <2>1. PoppersStay /\ PushersStay
    BY <1>0, <1>3 DEF CancelFinish, CancelDone, TypeOK, PoppersStay, PushersStay
  <2>2. AwakePoppers' = AwakePoppers /\ AwakePushers' = AwakePushers
    BY <2>1, AwakeStay
  <2>3. Quiet'
    BY <1>3, <2>2
    DEF CancelFinish, CancelDone, ring, QueueInv, Quiet, ConsumersHelped, ProducersHelped, NobodySleeps
  <2>4. TypeOK' /\ RingShape'
    BY <1>0, <1>3 DEF CancelFinish, CancelDone, ring, QueueInv, TypeOK, Ops, RingShape
  <2>5. (Sleepers /\ Holding)'
    BY <1>0, <1>1, <1>3 DEF CancelFinish, CancelDone, QueueInv, TypeOK, Sleepers, Holding
  <2>6. (Unborn /\ Dying)'
    <3>1. /\ ready' = ready /\ destroying' = destroying /\ closed' = closed
          /\ \A u \in Threads : /\ op'[u] # "out" => op[u] # "out"
                                /\ op'[u] \in {op[u], "out", "cancel"}
      BY <1>0, <1>3 DEF CancelFinish, CancelDone, TypeOK
    <3>2. Unborn'
      BY <1>1, <3>1 DEF Unborn
    <3>3. Dying'
      BY <3>1 DEF QueueInv, Dying
    <3>. QED
      BY <3>2, <3>3
  <2>. QED
    BY <2>3, <2>4, <2>5, <2>6 DEF QueueInv
<1>4. CASE DestroyDone(t)
  <2>1. not_empty = {} /\ not_full = {} /\ \A u \in Threads : op'[u] = "out"
    BY <1>0, <1>4 DEF DestroyDone, QueueInv, Dying, Quiet, NobodySleeps, TypeOK
  <2>2. TypeOK' /\ RingShape'
    <3>1. Capacity \in Nat \ {0}
      BY JobQueueAssumption
    <3>2. 0 \in Slots /\ 0 \in 0 .. Capacity
      BY <3>1 DEF Slots
    <3>3. TypeOK'
      BY <1>0, <1>4, <3>2 DEF DestroyDone, TypeOK, Ops
    <3>4. tail' = (head' + size') % Capacity
      BY <1>4, <3>1 DEF DestroyDone
    <3>. QED
      BY <1>4, <3>3, <3>4 DEF DestroyDone, RingShape
  <2>. QED
    BY <1>4, <2>1, <2>2
    DEF DestroyDone, QueueInv, Sleepers, Holding, Unborn, Dying, Quiet, ConsumersHelped,
        ProducersHelped, NobodySleeps
<1>. QED
  BY <1>2, <1>3, <1>4 DEF CancelLoop

\* A sleeper wakes although nobody signalled.
LEMMA SpuriousKeeps ==
  ASSUME QueueInv, NEW t \in Threads, SpuriousWake(t)
  PROVE  QueueInv'
<1>1. TypeOK /\ Sleepers /\ Capacity \in Nat /\ size \in Nat
  BY JobQueueAssumption DEF QueueInv, TypeOK
<1>2. UNCHANGED <<ready, items, head, tail, size, closed, op, arg, ret, got, destroying>>
  BY DEF SpuriousWake, ring
<1>3. ConsumersHelped' /\ ProducersHelped'
  <2>1. CASE t \in not_empty /\ not_empty' = not_empty \ {t} /\ not_full' = not_full
    <3>1. Cardinality(AwakePoppers') = Cardinality(AwakePoppers) + 1
      BY <1>1, <1>2, <2>1, PopperWoken DEF TypeOK
    <3>2. AwakePushers' = AwakePushers
      BY <1>2, <2>1 DEF AwakePushers
    <3>. QED
      BY <1>1, <1>2, <2>1, <3>1, <3>2, AwakeFinite DEF QueueInv, Quiet, ConsumersHelped, ProducersHelped
  <2>2. CASE t \in not_full /\ not_full' = not_full \ {t} /\ not_empty' = not_empty
    <3>1. Cardinality(AwakePushers') = Cardinality(AwakePushers) + 1
      BY <1>1, <1>2, <2>2, PusherWoken DEF TypeOK
    <3>2. AwakePoppers' = AwakePoppers
      BY <1>2, <2>2 DEF AwakePoppers
    <3>. QED
      BY <1>1, <1>2, <2>2, <3>1, <3>2, AwakeFinite DEF QueueInv, Quiet, ConsumersHelped, ProducersHelped
  <2>. QED
    BY <2>1, <2>2 DEF SpuriousWake
<1>4. not_empty' \subseteq not_empty /\ not_full' \subseteq not_full
  BY DEF SpuriousWake
<1>. QED
  BY <1>2, <1>3, <1>4
  DEF QueueInv, TypeOK, RingShape, Sleepers, Holding, Unborn, Dying, Quiet, NobodySleeps

\* init finds a queue nobody uses; destroy shuts one nobody else is in.
LEMMA InitKeeps ==
  ASSUME QueueInv, InitQueue, \A t \in Threads : op[t] = "out"
  PROVE  QueueInv'
<1>0. Capacity \in Nat \ {0}
  BY JobQueueAssumption
<1>1. TypeOK' /\ RingShape'
  <2>0. 0 \in Slots /\ 0 \in 0 .. Capacity
    BY <1>0 DEF Slots
  <2>1. TypeOK'
    BY <2>0 DEF InitQueue, QueueInv, TypeOK
  <2>2. tail' = (head' + size') % Capacity
    BY <1>0 DEF InitQueue
  <2>. QED
    BY <2>1, <2>2 DEF InitQueue, RingShape
<1>2. not_empty' = {} /\ not_full' = {}
  BY DEF InitQueue, QueueInv, TypeOK, Sleepers
<1>. QED
  BY <1>1, <1>2
  DEF InitQueue, QueueInv, Sleepers, Holding, Unborn, Dying, Quiet, ConsumersHelped, ProducersHelped,
      NobodySleeps

\* destroy, while nobody else is inside: everybody is woken and kept out.
LEMMA DestroyKeeps ==
  ASSUME QueueInv, NEW t \in Threads, Alone(t), Destroy(t)
  PROVE  QueueInv'
BY DEF Alone, Destroy, Shut, Broadcast, ring, QueueInv, TypeOK, Ops, RingShape, Sleepers, Holding,
       Unborn, Dying, Quiet, ConsumersHelped, ProducersHelped, NobodySleeps

\* A thread that was woken looks at the queue again.
LEMMA RecheckKeeps ==
  ASSUME QueueInv, NEW t \in Threads, Recheck(t)
  PROVE  QueueInv'
<1>1. CASE RecheckPush(t)
  <2>1. ready /\ ~destroying /\ arg[t] \in Jobs
    BY <1>1, AwakeOutside DEF RecheckPush, QueueInv, Holding
  <2>. QED
    BY <1>1, <2>1, PushLoopKeeps DEF RecheckPush
<1>2. CASE RecheckPop(t)
  <2>1. ready /\ ~destroying
    BY <1>2, AwakeOutside DEF RecheckPop
  <2>. QED
    BY <1>2, <2>1, PopLoopKeeps DEF RecheckPop
<1>. QED
  BY <1>1, <1>2 DEF Recheck

\* The queue before init satisfies the invariant.
LEMMA InitInv == Init => QueueInv
<1>. SUFFICES ASSUME Init PROVE QueueInv
  OBVIOUS
<1>0. Capacity \in Nat \ {0}
  BY JobQueueAssumption
<1>1. TypeOK
  <2>1. 0 \in Slots /\ 0 \in 0 .. Capacity
    BY <1>0 DEF Slots
  <2>. QED
    BY <2>1 DEF Init, TypeOK, Ops, Statuses
<1>2. tail = (head + size) % Capacity
  BY <1>0 DEF Init
<1>3. RingShape
  BY <1>2 DEF Init, RingShape
<1>. QED
  BY <1>1, <1>3
  DEF Init, QueueInv, Sleepers, Holding, Unborn, Dying, Quiet, ConsumersHelped, ProducersHelped,
      NobodySleeps

\* Every step of every thread keeps the invariant.
LEMMA NextKeepsInv == QueueInv /\ [Next]_queueVars => QueueInv'
<1>. SUFFICES ASSUME QueueInv, [Next]_queueVars PROVE QueueInv'
  OBVIOUS
<1>1. CASE UNCHANGED queueVars
  BY <1>1 DEF queueVars, QueueInv, TypeOK, RingShape, Sleepers, Holding, Unborn, Dying,
     Quiet, ConsumersHelped, ProducersHelped, NobodySleeps, AwakePoppers, AwakePushers
<1>2. CASE InitQueue /\ \A t \in Threads : op[t] = "out"
  BY <1>2, InitKeeps
<1>3. ASSUME NEW t \in Threads,
             \/ ~destroying /\ CallStep(t)
             \/ Alone(t) /\ Destroy(t)
             \/ Recheck(t)
             \/ CancelLoop(t)
             \/ SpuriousWake(t)
      PROVE  QueueInv'
  BY <1>3, CallKeeps, DestroyKeeps, RecheckKeeps, CancelKeeps, SpuriousKeeps
<1>. QED
  BY <1>1, <1>2, <1>3 DEF Next

\* The inductive invariant of the queue, for every set of threads and jobs and
\* every capacity: job_queue.c keeps head, tail and size in the array.
THEOREM QueueInvariance == Spec => []QueueInv
BY InitInv, NextKeepsInv, PTL DEF Spec

\* The ring buffer of job_queue.c keeps its shape over every wrap-around.
THEOREM RingInShape == Spec => [](TypeOK /\ RingShape)
<1>1. QueueInv => TypeOK /\ RingShape
  BY DEF QueueInv
<1>. QED
  BY <1>1, QueueInvariance, PTL

\* No signal of push, try_push, pop, cancel_pending or close is lost: whoever
\* sleeps has nothing to do, or somebody awake will do it.
THEOREM WakeupsNotLost == Spec => []NoLostWakeup
<1>1. QueueInv => NoLostWakeup
  BY DEF QueueInv, Quiet, ConsumersHelped, ProducersHelped, NobodySleeps, NoLostWakeup
<1>. QED
  BY <1>1, QueueInvariance, PTL
-----------------------------------------------------------------------------
(* The refinement: what the steps do to the contents of the ring.          *)

\* The ring read from head on is a sequence of jobs.
LEMMA ContentsType ==
  ASSUME TypeOK, RingShape
  PROVE  /\ Contents \in Seq(Jobs) /\ Len(Contents) = size
         /\ \A i \in 1 .. size : Contents[i] = items[(head + (i - 1)) % Capacity]
<1>1. size \in Nat /\ head \in Nat
  BY JobQueueAssumption DEF TypeOK, Slots
<1>2. \A i \in 1 .. size : head + i - 1 = head + (i - 1) /\ i - 1 \in 0 .. size - 1
  BY <1>1
<1>3. \A i \in 1 .. size : items[(head + i - 1) % Capacity] \in Jobs
  BY <1>2 DEF RingShape
<1>4. Contents \in [1 .. size -> Jobs]
  BY <1>3 DEF Contents
<1>5. Contents \in Seq(Jobs)
  BY <1>1, <1>4
<1>6. Len(Contents) = size
  BY <1>1, <1>4
<1>. QED
  BY <1>2, <1>5, <1>6 DEF Contents

\* A sequence is the function that lists its elements.
LEMMA SeqListed ==
  ASSUME NEW S, NEW s \in Seq(S), NEW n \in Nat, Len(s) = n
  PROVE  s = [i \in 1 .. n |-> s[i]]
OBVIOUS

\* A job stored at the tail is appended to the contents.
LEMMA StoreContents ==
  ASSUME TypeOK, RingShape, NEW j \in Jobs, size # Capacity, Store(j)
  PROVE  Contents' = Append(Contents, j)
<1>0. /\ items' = [items EXCEPT ![tail] = j]
      /\ tail' = (tail + 1) % Capacity /\ size' = size + 1 /\ head' = head
  BY DEF Store
<1>1. Contents \in Seq(Jobs) /\ Len(Contents) = size
  BY ContentsType
<1>2. /\ RingShape' /\ items' \in [Slots -> Jobs \union {NoJob}]
      /\ head' \in Slots /\ size' \in 0 .. Capacity
  BY <1>0, StoreRing
<1>3. /\ Capacity \in Nat \ {0} /\ size \in Nat /\ size < Capacity /\ head \in Nat /\ head \in Slots
      /\ items \in [Slots -> Jobs \union {NoJob}] /\ tail \in Slots
  BY JobQueueAssumption DEF TypeOK, Slots
<1>4. ASSUME NEW i \in 1 .. size + 1
      PROVE  items'[(head' + i - 1) % Capacity] = Append(Contents, j)[i]
  <2>1. i - 1 \in 0 .. Capacity /\ head + i - 1 = head + (i - 1)
    BY <1>3
  <2>2. (head + (i - 1)) % Capacity
          = IF head + (i - 1) < Capacity THEN head + (i - 1) ELSE head + (i - 1) - Capacity
    BY <1>3, <2>1, Around
  <2>3. tail = (head + size) % Capacity
    BY DEF RingShape
  <2>4. (head + size) % Capacity = IF head + size < Capacity THEN head + size ELSE head + size - Capacity
    BY <1>3, Around
  <2>5. CASE i = size + 1
    <3>1. i - 1 = size
      BY <1>3, <2>5
    <3>2. items'[(head' + i - 1) % Capacity] = j
      BY <1>0, <1>3, <2>1, <2>3, <3>1
    <3>. QED
      BY <1>1, <2>5, <3>2
  <2>6. CASE i # size + 1
    <3>1. i \in 1 .. size
      BY <1>3, <2>6
    <3>2. (head + (i - 1)) % Capacity # tail
      BY <1>3, <2>1, <2>2, <2>3, <2>4, <3>1
    <3>3. items'[(head' + i - 1) % Capacity] = items[(head + (i - 1)) % Capacity]
      BY <1>0, <1>3, <2>1, <3>2
    <3>4. Append(Contents, j)[i] = Contents[i]
      BY <1>1, <3>1
    <3>. QED
      BY <3>1, <3>3, <3>4, ContentsType
  <2>. QED
    BY <2>5, <2>6
<1>5. Contents' = [i \in 1 .. size + 1 |-> Append(Contents, j)[i]]
  BY <1>0, <1>4 DEF Contents
<1>6. Append(Contents, j) \in Seq(Jobs) /\ Len(Append(Contents, j)) = size + 1
  BY <1>1, <1>3
<1>7. Append(Contents, j) = [i \in 1 .. size + 1 |-> Append(Contents, j)[i]]
  <2>1. size + 1 \in Nat
    BY <1>3
  <2>. QED
    BY <1>6, <2>1, SeqListed
<1>. QED
  BY <1>5, <1>7

\* A job taken at the head is the first of the contents.
LEMMA TakeContents ==
  ASSUME TypeOK, RingShape, size # 0, pop_front_locked
  PROVE  Contents # <<>> /\ Head(Contents) = items[head] /\ Contents' = Tail(Contents)
<1>0. head' = (head + 1) % Capacity /\ size' = size - 1 /\ items' = items /\ tail' = tail
  BY DEF pop_front_locked
<1>1. /\ Contents \in Seq(Jobs) /\ Len(Contents) = size
      /\ \A i \in 1 .. size : Contents[i] = items[(head + (i - 1)) % Capacity]
  BY ContentsType
<1>2. /\ Capacity \in Nat \ {0} /\ size \in Nat /\ size >= 1 /\ head \in Nat /\ head \in Slots
  BY JobQueueAssumption DEF TypeOK, Slots
<1>3. \A i \in 0 .. size - 1 : (head' + i) % Capacity = (head + (i + 1)) % Capacity
  BY <1>0, TakeRing
<1>4. Contents # <<>> /\ Head(Contents) = Contents[1]
  BY <1>1, <1>2
<1>5. Contents[1] = items[head]
  <2>1. (head + (1 - 1)) % Capacity = head
    BY <1>2, Around
  <2>2. 1 \in 1 .. size
    BY <1>2
  <2>3. Contents[1] = items[(head + (1 - 1)) % Capacity]
    BY <1>1, <2>2
  <2>. QED
    BY <2>1, <2>3
<1>6. ASSUME NEW i \in 1 .. size - 1
      PROVE  items'[(head' + i - 1) % Capacity] = Tail(Contents)[i]
  <2>1. i - 1 \in 0 .. size - 1 /\ i + 1 \in 1 .. size /\ (i - 1) + 1 = i /\ (i + 1) - 1 = i
    BY <1>2
  <2>2. (head' + (i - 1)) % Capacity = (head + i) % Capacity
    BY <1>3, <2>1
  <2>3. head' + i - 1 = head' + (i - 1)
    BY <1>0, <1>2
  <2>4. Contents[i + 1] = items[(head + i) % Capacity]
    BY <1>1, <2>1
  <2>5. Tail(Contents)[i] = Contents[i + 1]
    BY <1>1, <1>2, <1>4, HeadTailProperties
  <2>. QED
    BY <1>0, <2>2, <2>3, <2>4, <2>5
<1>7. Contents' = [i \in 1 .. size - 1 |-> Tail(Contents)[i]]
  BY <1>0, <1>6 DEF Contents
<1>8. Tail(Contents) \in Seq(Jobs) /\ Len(Tail(Contents)) = size - 1
  BY <1>1, <1>4, HeadTailProperties
<1>9. Tail(Contents) = [i \in 1 .. size - 1 |-> Tail(Contents)[i]]
  <2>1. size - 1 \in Nat
    BY <1>2
  <2>. QED
    BY <1>8, <2>1, SeqListed
<1>. QED
  BY <1>4, <1>5, <1>7, <1>9

\* What leaves the ring, its life and the jobs handed out alone is a stutter.
LEMMA QuietStep ==
  ASSUME UNCHANGED <<ready, items, head, size, closed, got>>
  PROVE  UNCHANGED BQ!bqVars
BY DEF BQ!bqVars, Contents

\* A job stored by push or try_push is a Put.
LEMMA StorePuts ==
  ASSUME QueueInv, NEW j \in Jobs, ready, ~closed, size # Capacity, Store(j),
         UNCHANGED <<ready, closed, got>>
  PROVE  BQ!Next
<1>1. Contents' = Append(Contents, j) /\ Len(Contents) = size
  BY StoreContents, ContentsType DEF QueueInv
<1>2. size < Capacity
  BY JobQueueAssumption DEF QueueInv, TypeOK
<1>3. BQ!Put(j)
  BY <1>1, <1>2 DEF BQ!Put
<1>. QED
  BY <1>3 DEF BQ!Next

\* A job taken by pop or cancel_pending is a Take.
LEMMA PopTakes ==
  ASSUME QueueInv, NEW t \in Threads, size # 0, pop_front_locked,
         got' = [got EXCEPT ![t] = items[head]], UNCHANGED <<ready, closed>>
  PROVE  BQ!Next
<1>1. Contents # <<>> /\ Head(Contents) = items[head] /\ Contents' = Tail(Contents)
  BY TakeContents DEF QueueInv
<1>2. BQ!Take(t)
  BY <1>1 DEF BQ!Take
<1>. QED
  BY <1>2 DEF BQ!Next

\* An empty ring has no contents.
LEMMA EmptyRing == size = 0 => Contents = <<>>
BY DEF Contents

\* The loops of push and pop.
LEMMA LoopsRefine ==
  ASSUME QueueInv, NEW t \in Threads, ready
  PROVE  /\ \A j \in Jobs : PushLoop(t, j) => [BQ!Next]_(BQ!bqVars)
         /\ PopLoop(t) => [BQ!Next]_(BQ!bqVars)
<1>1. ASSUME NEW j \in Jobs, PushLoop(t, j) PROVE [BQ!Next]_(BQ!bqVars)
  <2>1. CASE ~FullAndOpen /\ ~closed
    BY <1>1, <2>1, StorePuts DEF PushLoop, FullAndOpen
  <2>2. CASE FullAndOpen \/ closed
    <3>1. UNCHANGED <<ready, items, head, size, closed, got>>
      BY <1>1, <2>2 DEF PushLoop, ring, FullAndOpen
    <3>. QED
      BY <3>1, QuietStep
  <2>. QED
    BY <2>1, <2>2
<1>2. ASSUME PopLoop(t) PROVE [BQ!Next]_(BQ!bqVars)
  <2>1. CASE ~EmptyAndOpen /\ size # 0
    BY <1>2, <2>1, PopTakes DEF PopLoop
  <2>2. CASE EmptyAndOpen \/ size = 0
    <3>1. UNCHANGED <<ready, items, head, size, closed, got>>
      BY <1>2, <2>2 DEF PopLoop, ring, EmptyAndOpen
    <3>. QED
      BY <3>1, QuietStep
  <2>. QED
    BY <2>1, <2>2
<1>. QED
  BY <1>1, <1>2

\* Every call of another thread is a step of the abstract queue or none.
LEMMA CallRefines ==
  ASSUME QueueInv, NEW t \in Threads, ~destroying, CallStep(t)
  PROVE  [BQ!Next]_(BQ!bqVars)
<1>0. Invalid(t) => UNCHANGED BQ!bqVars
  BY QuietStep DEF Invalid, ring
<1>1. ASSUME NEW j \in Jobs \union {NoJob}, Push(t, j) PROVE [BQ!Next]_(BQ!bqVars)
  BY <1>0, <1>1, LoopsRefine DEF Push, job_is_valid
<1>2. ASSUME NEW j \in Jobs \union {NoJob}, TryPush(t, j) PROVE [BQ!Next]_(BQ!bqVars)
  <2>1. CASE ready /\ job_is_valid(j) /\ ~closed /\ size # Capacity
    BY <1>2, <2>1, StorePuts DEF TryPush, job_is_valid
  <2>2. CASE ready /\ job_is_valid(j) /\ (closed \/ size = Capacity)
    <3>1. UNCHANGED <<ready, items, head, size, closed, got>>
      BY <1>2, <2>2 DEF TryPush, ring
    <3>. QED
      BY <3>1, QuietStep
  <2>3. CASE ~(ready /\ job_is_valid(j))
    BY <1>0, <1>2, <2>3 DEF TryPush
  <2>. QED
    BY <2>1, <2>2, <2>3
<1>3. CASE Pop(t)
  BY <1>0, <1>3, LoopsRefine DEF Pop
<1>4. CASE Close(t)
  <2>1. CASE ready
    <3>1. BQ!Close
      BY <1>4, <2>1 DEF Close, Shut, ring, BQ!Close, Contents
    <3>. QED
      BY <3>1 DEF BQ!Next
  <2>2. CASE ~ready
    BY <1>4, <2>2, QuietStep DEF Close, ring
  <2>. QED
    BY <2>1, <2>2
<1>5. CASE CancelPending(t)
  BY <1>5, QuietStep DEF CancelPending, ring
<1>6. CASE Forget(t)
  <2>1. BQ!Forget(t)
    BY <1>6 DEF Forget, ring, BQ!Forget, Contents
  <2>. QED
    BY <2>1 DEF BQ!Next
<1>. QED
  BY <1>1, <1>2, <1>3, <1>4, <1>5, <1>6 DEF CallStep

\* So is every pass of cancel_pending, and the end of destroy, which finds the
\* queue closed and empty.
LEMMA CancelRefines ==
  ASSUME QueueInv, NEW t \in Threads, CancelLoop(t)
  PROVE  [BQ!Next]_(BQ!bqVars)
<1>1. CASE CancelTake(t)
  <2>1. size # 0
    BY <1>1 DEF CancelTake, QueueInv, TypeOK
  <2>. QED
    BY <1>1, <2>1, PopTakes DEF CancelTake
<1>2. CASE CancelFinish(t) \/ CancelDone(t)
  BY <1>2, QuietStep DEF CancelFinish, CancelDone, ring
<1>3. CASE DestroyDone(t)
  <2>1. closed /\ size = 0 /\ size' = 0 /\ ready' = FALSE /\ got' = got
    BY <1>3 DEF DestroyDone, QueueInv, Dying
  <2>2. Contents = <<>> /\ Contents' = <<>>
    BY <2>1, EmptyRing DEF Contents
  <2>3. (ready /\ ~closed)' = (ready /\ ~closed)
    BY <2>1
  <2>. QED
    BY <2>1, <2>2, <2>3 DEF BQ!bqVars
<1>. QED
  BY <1>1, <1>2, <1>3 DEF CancelLoop

\* Every step of the ring buffer is a step of the abstract queue or none.
LEMMA StepRefines ==
  ASSUME QueueInv, [Next]_queueVars
  PROVE  [BQ!Next]_(BQ!bqVars)
<1>1. CASE UNCHANGED queueVars
  BY <1>1, QuietStep DEF queueVars
<1>2. CASE InitQueue
  <2>1. ~ready /\ size = 0 /\ size' = 0 /\ ready' = TRUE /\ closed' = FALSE /\ got' = got
    BY <1>2 DEF InitQueue, QueueInv, Unborn
  <2>2. Contents = <<>> /\ Contents' = <<>>
    BY <2>1, EmptyRing DEF Contents
  <2>3. BQ!Open
    BY <2>1, <2>2 DEF BQ!Open
  <2>. QED
    BY <2>3 DEF BQ!Next
<1>3. ASSUME NEW t \in Threads, ~destroying /\ CallStep(t) PROVE [BQ!Next]_(BQ!bqVars)
  BY <1>3, CallRefines
<1>4. ASSUME NEW t \in Threads, Destroy(t) PROVE [BQ!Next]_(BQ!bqVars)
  <2>1. BQ!Close
    BY <1>4 DEF Destroy, Shut, ring, BQ!Close, Contents
  <2>. QED
    BY <2>1 DEF BQ!Next
<1>5. ASSUME NEW t \in Threads, Recheck(t) PROVE [BQ!Next]_(BQ!bqVars)
  <2>1. CASE RecheckPush(t)
    BY <2>1, LoopsRefine, AwakeOutside DEF RecheckPush, QueueInv, Holding
  <2>2. CASE RecheckPop(t)
    BY <2>2, LoopsRefine, AwakeOutside DEF RecheckPop
  <2>. QED
    BY <1>5, <2>1, <2>2 DEF Recheck
<1>6. ASSUME NEW t \in Threads, CancelLoop(t) PROVE [BQ!Next]_(BQ!bqVars)
  BY <1>6, CancelRefines
<1>7. ASSUME NEW t \in Threads, SpuriousWake(t) PROVE [BQ!Next]_(BQ!bqVars)
  BY <1>7, QuietStep DEF SpuriousWake, ring
<1>. QED
  BY <1>1, <1>2, <1>3, <1>4, <1>5, <1>6, <1>7 DEF Next

\* job_queue.c implements the closable FIFO of BoundedQueue.
THEOREM ImplementsBoundedQueue == Spec => RefinesBoundedQueue
<1>1. Init => BQ!Init
  BY EmptyRing DEF Init, BQ!Init
<1>2. QueueInv /\ [Next]_queueVars => [BQ!Next]_(BQ!bqVars)
  BY StepRefines
<1>. QED
  BY <1>1, <1>2, QueueInvariance, PTL DEF Spec, BQ!Spec, RefinesBoundedQueue
=============================================================================
