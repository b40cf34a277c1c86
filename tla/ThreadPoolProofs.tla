-------------------------- MODULE ThreadPoolProofs --------------------------
(***************************************************************************)
(* Proofs about ThreadPool, with the queue and the lock inside it step by  *)
(* step: for every set of workers and jobs, every queue capacity and lock  *)
(* mode.  The pool's invariant says where each job is, which calls its     *)
(* threads are in, and what each phase of init, shutdown and destroy       *)
(* leaves possible.                                                        *)
(***************************************************************************)
EXTENDS ThreadPool, FiniteSetTheorems, TLAPS

\* The jobs in the ring of the queue.
Stored == {items[(head + i) % Capacity] : i \in 0 .. size - 1}

\* The ring is in shape, and no job is in it twice.
RingOK ==
  /\ items \in [Q!Slots -> Jobs \union {NoJob}]
  /\ head \in Q!Slots /\ tail \in Q!Slots /\ size \in 0 .. Capacity
  /\ tail = (head + size) % Capacity
  /\ \A i \in 0 .. size - 1 : items[(head + i) % Capacity] \in Jobs
  /\ \A i, k \in 0 .. size - 1 :
       items[(head + i) % Capacity] = items[(head + k) % Capacity] => i = k

Typed ==
  /\ queue_ready \in BOOLEAN /\ closed \in BOOLEAN /\ destroying \in BOOLEAN
  /\ accepting_jobs \in BOOLEAN
  /\ op \in [Threads -> Q!Ops]
  /\ arg \in [Threads -> Jobs \union {NoJob}]
  /\ got \in [Threads -> Jobs \union {NoJob}]
  /\ call \in [Workers -> L!Places]
  /\ phase \in Phases
  /\ stop_mode \in {"none", "drain", "cancel_pending"}
  /\ worker \in [Workers -> {"unborn", "loop", "assigned", "running", "ran", "exited"}]
  /\ submitter \in [Jobs -> {"new", "checked", "waiting", "accepted", "refused"}]
  /\ started \in [Jobs -> 0 .. 1]
  /\ finished \in [Jobs -> 0 .. 1]
  /\ result \in [Jobs -> Results]

\* Which call of the queue, and of the lock, each thread can be in.
Callers ==
  /\ \A j \in Jobs : op[j] = IF submitter[j] = "waiting" THEN "push" ELSE "out"
  /\ \A j \in Jobs : submitter[j] = "waiting" => arg[j] = j
  /\ \A w \in Workers : op[w] = "out" \/ (op[w] = "pop" /\ worker[w] = "loop")
  /\ \A w \in Workers : call[w] = "out" <=> worker[w] # "running"
  /\ op[Controller] \in {"out", "cancel", "finish"}
  /\ op[Controller] # "out" => phase \in {"cancelling", "freeing"}
  /\ op[Controller] = "finish" <=> arg[Controller] # NoJob

\* What each phase of the controller means for the queue and the submitters.
Life ==
  /\ queue_ready <=> phase \notin {"raw", "gone"}
  /\ lock_manager_ready <=> phase \notin {"raw", "gone"}
  /\ destroying <=> phase = "freeing"
  /\ closed <=> phase \in {"cancelling", "joining", "stopped", "freeing"}
  /\ accepting_jobs <=> phase \in {"creating", "serving"}
  /\ stop_mode = "none" <=> phase \in {"raw", "creating", "serving"}
  /\ phase = "cancelling" => stop_mode = "cancel_pending"
  /\ phase \in {"raw", "creating"} => \A j \in Jobs : submitter[j] = "new"
  /\ phase \in {"freeing", "gone"} => NobodySubmitting
  /\ phase = "serving" => \A w \in Workers : worker[w] # "unborn"
  /\ \A w \in Workers : worker[w] = "unborn" => \A j \in Jobs : submitter[j] \in {"new", "refused"}

\* A worker leaves an empty queue that stays empty; shutdown returns when all
\* workers that exist have left.
Quiet ==
  /\ \A w \in Workers : worker[w] = "exited" =>
       size = 0 /\ phase \in {"cancelling", "joining", "stopped", "freeing", "gone"}
  /\ phase \in {"raw", "stopped", "freeing", "gone"} =>
       size = 0 /\ \A w \in Workers : worker[w] \in {"unborn", "exited"}

Held(j) == \E w \in Workers : got[w] = j

\* A job that was accepted is in one place, or finished; any other in none.
Placed ==
  /\ \A w \in Workers : got[w] # NoJob <=> worker[w] \in {"assigned", "running", "ran"}
  /\ \A v, w \in Workers : got[v] = got[w] /\ got[w] # NoJob => v = w
  /\ \A j \in Jobs :
       /\ submitter[j] = "accepted" <=>
            j \in Stored \/ Held(j) \/ arg[Controller] = j \/ finished[j] = 1
       /\ j \in Stored => ~Held(j) /\ arg[Controller] # j /\ finished[j] = 0
       /\ Held(j) => arg[Controller] # j /\ finished[j] = 0
       /\ arg[Controller] = j => finished[j] = 0

\* The run callback was entered by the worker that holds the job, after its
\* acquire returned, and by nobody else.
Entered ==
  /\ \A w \in Workers : got[w] # NoJob =>
       started[got[w]] = IF worker[w] = "ran" \/ call[w] = "in" THEN 1 ELSE 0
  /\ \A j \in Jobs : finished[j] = 0 /\ ~Held(j) => started[j] = 0
  /\ ResultHonest

\* Only a shutdown in mode cancel_pending cancels.
Cancelling ==
  /\ op[Controller] = "finish" => phase = "cancelling"
  /\ \A j \in Jobs : finished[j] = 1 /\ result[j] = "cancelled" => stop_mode = "cancel_pending"

PoolInv ==
  Typed /\ RingOK /\ Callers /\ Life /\ Quiet /\ Placed /\ Entered /\ Cancelling
-----------------------------------------------------------------------------
(* The ring.                                                               *)

\* An index of the ring is taken modulo the capacity at most once around.
LEMMA Around ==
  ASSUME NEW h \in Q!Slots, NEW n \in 0 .. Capacity
  PROVE  (h + n) % Capacity = IF h + n < Capacity THEN h + n ELSE h + n - Capacity
<1>1. Capacity \in Nat \ {0} /\ h \in Nat /\ n \in Nat /\ h < Capacity /\ n <= Capacity
  BY ThreadPoolAssumption DEF Q!Slots
<1>2. CASE h + n < Capacity
  BY <1>1, <1>2
<1>3. CASE Capacity <= h + n
  <2>1. h + n \in Nat /\ h + n < 2 * Capacity
    BY <1>1, <1>3
  <2>2. (h + n) % Capacity = (h + n) - Capacity
    BY <1>1, <1>3, <2>1
  <2>. QED
    BY <1>1, <1>3, <2>2
<1>. QED
  BY <1>1, <1>2, <1>3

\* Slots less than once around apart are different.
LEMMA Apart ==
  ASSUME NEW h \in Q!Slots, NEW i \in 0 .. Capacity - 1, NEW k \in 0 .. Capacity - 1
  PROVE  /\ (h + i) % Capacity \in Q!Slots
         /\ (h + i) % Capacity = (h + k) % Capacity => i = k
<1>1. Capacity \in Nat \ {0} /\ i \in 0 .. Capacity /\ k \in 0 .. Capacity /\ h \in Nat /\ h < Capacity
  BY ThreadPoolAssumption DEF Q!Slots
<1>2. /\ (h + i) % Capacity = IF h + i < Capacity THEN h + i ELSE h + i - Capacity
      /\ (h + k) % Capacity = IF h + k < Capacity THEN h + k ELSE h + k - Capacity
  BY <1>1, Around
<1>. QED
  BY <1>1, <1>2 DEF Q!Slots

\* A job stored at the tail joins the ring.
LEMMA StoreEffect ==
  ASSUME RingOK, NEW j \in Jobs, j \notin Stored, size # Capacity, Q!Store(j)
  PROVE  RingOK' /\ Stored' = Stored \union {j}
<1>1. /\ Capacity \in Nat \ {0} /\ size \in Nat /\ size < Capacity /\ size' = size + 1
      /\ head' = head /\ head \in Q!Slots /\ tail' = (tail + 1) % Capacity
      /\ items' = [items EXCEPT ![tail] = j] /\ items \in [Q!Slots -> Jobs \union {NoJob}]
      /\ tail \in Q!Slots /\ tail = (head + size) % Capacity
      /\ 1 \in 0 .. Capacity /\ size \in 0 .. Capacity /\ size + 1 \in 0 .. Capacity
  BY ThreadPoolAssumption DEF RingOK, Q!Store
<1>2. items'[(head' + size) % Capacity] = j
  BY <1>1
<1>3. ASSUME NEW i \in 0 .. size - 1
      PROVE  items'[(head' + i) % Capacity] = items[(head + i) % Capacity]
  <2>1. i \in 0 .. Capacity - 1 /\ size \in 0 .. Capacity - 1 /\ i # size
    BY <1>1
  <2>2. (head + i) % Capacity # tail /\ (head + i) % Capacity \in Q!Slots
    BY <1>1, <2>1, Apart
  <2>. QED
    BY <1>1, <2>2
<1>4. \A i \in 0 .. size' - 1 : i \in 0 .. size - 1 \/ i = size
  BY <1>1
<1>5. tail' = (head' + size') % Capacity /\ tail' \in Q!Slots
  <2>1. tail = IF head + size < Capacity THEN head + size ELSE head + size - Capacity
    BY <1>1, Around
  <2>2. (head + (size + 1)) % Capacity
          = IF head + (size + 1) < Capacity THEN head + (size + 1) ELSE head + (size + 1) - Capacity
    BY <1>1, Around
  <2>3. (tail + 1) % Capacity = IF tail + 1 < Capacity THEN tail + 1 ELSE tail + 1 - Capacity
    BY <1>1, Around
  <2>. QED
    BY <1>1, <2>1, <2>2, <2>3 DEF Q!Slots
<1>6. items' \in [Q!Slots -> Jobs \union {NoJob}]
  BY <1>1
<1>7. size' \in 0 .. Capacity
  BY <1>1
<1>8. \A i \in 0 .. size' - 1 : items'[(head' + i) % Capacity] \in Jobs
  BY <1>2, <1>3, <1>4 DEF RingOK
<1>9. ASSUME NEW i \in 0 .. size' - 1, NEW k \in 0 .. size' - 1,
             items'[(head' + i) % Capacity] = items'[(head' + k) % Capacity]
      PROVE  i = k
  BY <1>2, <1>3, <1>4, <1>9 DEF RingOK, Stored
<1>10. Stored' = Stored \union {j}
  <2>1. \A i \in 0 .. size - 1 : i \in 0 .. size' - 1
    BY <1>1
  <2>2. size \in 0 .. size' - 1
    BY <1>1
  <2>. QED
    BY <1>2, <1>3, <1>4, <2>1, <2>2 DEF Stored
<1>. QED
  BY <1>1, <1>5, <1>6, <1>7, <1>8, <1>9, <1>10 DEF RingOK

\* The job at the head leaves the ring.
LEMMA TakeEffect ==
  ASSUME RingOK, size # 0, Q!pop_front_locked
  PROVE  /\ RingOK' /\ Stored' = Stored \ {items[head]}
         /\ items[head] \in Jobs /\ items[head] \in Stored /\ size' = size - 1
<1>1. /\ Capacity \in Nat \ {0} /\ size \in Nat /\ size >= 1 /\ size <= Capacity /\ size' = size - 1
      /\ head' = (head + 1) % Capacity /\ head \in Q!Slots /\ tail' = tail /\ items' = items
      /\ tail = (head + size) % Capacity /\ 1 \in 0 .. Capacity /\ 0 \in 0 .. Capacity
      /\ size \in 0 .. Capacity
  BY ThreadPoolAssumption DEF RingOK, Q!pop_front_locked
<1>2. head' = IF head + 1 < Capacity THEN head + 1 ELSE head + 1 - Capacity
  BY <1>1, Around
<1>3. head' \in Q!Slots
  BY <1>1, <1>2 DEF Q!Slots
<1>4. ASSUME NEW i \in 0 .. size - 1
      PROVE  (head' + i) % Capacity = (head + (i + 1)) % Capacity /\ i + 1 \in 1 .. size
  <2>1. i \in 0 .. Capacity /\ i + 1 \in 0 .. Capacity /\ i + 1 \in 1 .. size
    BY <1>1
  <2>2. (head' + i) % Capacity = IF head' + i < Capacity THEN head' + i ELSE head' + i - Capacity
    BY <1>3, <2>1, Around
  <2>3. (head + (i + 1)) % Capacity
          = IF head + (i + 1) < Capacity THEN head + (i + 1) ELSE head + (i + 1) - Capacity
    BY <1>1, <2>1, Around
  <2>. QED
    BY <1>1, <1>2, <2>1, <2>2, <2>3 DEF Q!Slots
<1>5. (head + 0) % Capacity = head /\ 0 \in 0 .. size - 1
  <2>1. head \in Nat /\ head < Capacity
    BY <1>1 DEF Q!Slots
  <2>. QED
    BY <1>1, <2>1, Around
<1>6. tail' = (head' + size') % Capacity
  <2>1. size - 1 \in 0 .. size - 1 /\ (size - 1) + 1 = size
    BY <1>1
  <2>. QED
    BY <1>1, <1>4, <2>1
<1>7. \A i \in 0 .. size' - 1 : /\ i \in 0 .. size - 1 /\ i + 1 \in 0 .. size - 1 /\ i + 1 # 0
                                /\ items'[(head' + i) % Capacity] = items[(head + (i + 1)) % Capacity]
  BY <1>1, <1>4
<1>8. \A i \in 0 .. size' - 1 : items'[(head' + i) % Capacity] \in Jobs
  BY <1>7 DEF RingOK
<1>9. ASSUME NEW i \in 0 .. size' - 1, NEW k \in 0 .. size' - 1,
             items'[(head' + i) % Capacity] = items'[(head' + k) % Capacity]
      PROVE  i = k
  <2>1. i + 1 = k + 1
    BY <1>7, <1>9 DEF RingOK
  <2>. QED
    BY <2>1
<1>10. items[head] \in Jobs /\ items[head] \in Stored
  BY <1>5 DEF RingOK, Stored
<1>11. Stored' = Stored \ {items[head]}
  <2>1. ASSUME NEW x \in Stored' PROVE x \in Stored /\ x # items[head]
    <3>1. PICK i \in 0 .. size' - 1 : x = items'[(head' + i) % Capacity]
      BY <2>1 DEF Stored
    <3>. QED
      BY <1>5, <1>7, <3>1 DEF Stored, RingOK
  <2>2. ASSUME NEW x \in Stored, x # items[head] PROVE x \in Stored'
    <3>1. PICK i \in 0 .. size - 1 : x = items[(head + i) % Capacity]
      BY <2>2 DEF Stored
    <3>2. i # 0
      BY <1>5, <2>2, <3>1
    <3>3. i - 1 \in 0 .. size' - 1 /\ (i - 1) + 1 = i
      BY <1>1, <3>2
    <3>4. items'[(head' + (i - 1)) % Capacity] = x
      BY <1>7, <3>1, <3>3
    <3>. QED
      BY <3>3, <3>4 DEF Stored
  <2>. QED
    BY <2>1, <2>2
<1>12. size' \in 0 .. Capacity
  BY <1>1
<1>. QED
  BY <1>1, <1>3, <1>6, <1>8, <1>9, <1>10, <1>11, <1>12 DEF RingOK

\* A step that leaves the ring alone, and a ring that is empty.
LEMMA RingStays == RingOK /\ UNCHANGED <<items, head, tail, size>> => RingOK' /\ Stored' = Stored
BY DEF RingOK, Stored

\* What makes a cleared ring, after init and destroy, one in shape.
LEMMA Cleared ==
  /\ 0 \in Q!Slots /\ 0 \in 0 .. Capacity /\ (0 + 0) % Capacity = 0
  /\ [i \in Q!Slots |-> NoJob] \in [Q!Slots -> Jobs \union {NoJob}]
  /\ 0 .. 0 - 1 = {}
BY ThreadPoolAssumption DEF Q!Slots

\* Nothing is stored in an empty ring, and something in any other.
LEMMA StoredEmpty == (size = 0 => Stored = {}) /\ (RingOK /\ Stored \intersect Jobs = {} => size = 0)
<1>1. size = 0 => Stored = {}
  BY DEF Stored
<1>2. ASSUME RingOK, Stored \intersect Jobs = {} PROVE size = 0
  <2>1. size # 0 => 0 \in 0 .. size - 1
    BY <1>2, ThreadPoolAssumption DEF RingOK
  <2>. QED
    BY <1>2, <2>1 DEF RingOK, Stored
<1>. QED
  BY <1>1, <1>2
-----------------------------------------------------------------------------
(* The calls of the queue and of the lock, as the pool sees them.          *)

\* The submitter of j sleeps until there is room.
Sleeps(j) ==
  /\ op' = [op EXCEPT ![j] = "push"] /\ arg' = [arg EXCEPT ![j] = j]
  /\ UNCHANGED <<items, head, tail, size>>

\* The submitter of j returns with its job refused, or stored.
Turned(j) ==
  /\ op' = [op EXCEPT ![j] = "out"] /\ arg' = [arg EXCEPT ![j] = NoJob] /\ ret' # "ok"
  /\ UNCHANGED <<items, head, tail, size>>

Taken(j) ==
  /\ op' = [op EXCEPT ![j] = "out"] /\ arg' = [arg EXCEPT ![j] = NoJob] /\ ret' = "ok"
  /\ ~closed /\ queue_ready /\ size # Capacity /\ Q!Store(j)

\* push, try_push and the wait loop of push.
LEMMA PushEffect ==
  ASSUME NEW j \in Jobs,
         Q!Push(j, j) \/ Q!TryPush(j, j) \/ (Q!RecheckPush(j) /\ arg[j] = j /\ queue_ready)
  PROVE  /\ Sleeps(j) \/ Turned(j) \/ Taken(j)
         /\ UNCHANGED <<queue_ready, closed, destroying, got>>
<1>1. ASSUME Q!PushLoop(j, j), queue_ready
      PROVE  (Sleeps(j) \/ Turned(j) \/ Taken(j)) /\ UNCHANGED <<queue_ready, closed, destroying, got>>
  BY <1>1 DEF Q!PushLoop, Q!FullAndOpen, Q!Returns, Q!ring, Sleeps, Turned, Taken
<1>2. ASSUME Q!Invalid(j)
      PROVE  Turned(j) /\ UNCHANGED <<queue_ready, closed, destroying, got>>
  BY <1>2 DEF Q!Invalid, Q!Returns, Q!ring, Turned
<1>3. CASE Q!Push(j, j)
  BY <1>1, <1>2, <1>3 DEF Q!Push
<1>4. CASE Q!TryPush(j, j)
  BY <1>2, <1>4 DEF Q!TryPush, Q!Returns, Q!ring, Turned, Taken
<1>5. CASE Q!RecheckPush(j) /\ arg[j] = j /\ queue_ready
  BY <1>1, <1>5 DEF Q!RecheckPush
<1>. QED
  BY <1>3, <1>4, <1>5

\* The worker sleeps until there is a job; its pop fails; or it has a job.
Waits(w) ==
  /\ op' = [op EXCEPT ![w] = "pop"]
  /\ UNCHANGED <<items, head, tail, size, arg, got>>

Empty(w) ==
  /\ op' = [op EXCEPT ![w] = "out"] /\ arg' = [arg EXCEPT ![w] = NoJob]
  /\ \/ ret' = "closed" /\ closed /\ size = 0
     \/ ret' = "invalid" /\ ~queue_ready
  /\ UNCHANGED <<items, head, tail, size, got>>

Gets(w) ==
  /\ op' = [op EXCEPT ![w] = "out"] /\ arg' = [arg EXCEPT ![w] = NoJob] /\ ret' = "ok"
  /\ size # 0 /\ Q!pop_front_locked
  /\ got' = [got EXCEPT ![w] = items[head]]

\* pop and its wait loop.
LEMMA PopEffect ==
  ASSUME NEW w \in Workers, closed \in BOOLEAN, Q!Pop(w) \/ Q!RecheckPop(w)
  PROVE  /\ Waits(w) \/ Empty(w) \/ Gets(w)
         /\ UNCHANGED <<queue_ready, closed, destroying>>
<1>1. ASSUME Q!PopLoop(w)
      PROVE  (Waits(w) \/ Empty(w) \/ Gets(w)) /\ UNCHANGED <<queue_ready, closed, destroying>>
  BY <1>1 DEF Q!PopLoop, Q!EmptyAndOpen, Q!Returns, Q!ring, Waits, Empty, Gets
<1>2. ASSUME Q!Invalid(w), ~queue_ready
      PROVE  Empty(w) /\ UNCHANGED <<queue_ready, closed, destroying>>
  BY <1>2 DEF Q!Invalid, Q!Returns, Q!ring, Empty
<1>. QED
  BY <1>1, <1>2 DEF Q!Pop, Q!RecheckPop

\* The lock: acquire goes in or to sleep, the wait loops likewise, release out.
LEMMA LockEffect ==
  ASSUME NEW w \in Workers
  PROVE  /\ \A m : L!Acquire(w, m) =>
              /\ call[w] = "out"
              /\ \E p \in {"in", "reader", "writer"} : call' = [call EXCEPT ![w] = p]
              /\ UNCHANGED lock_manager_ready
         /\ L!Recheck(w) =>
              /\ call[w] \in {"reader", "writer"}
              /\ \E p \in {"in", "reader", "writer"} : call' = [call EXCEPT ![w] = p]
              /\ UNCHANGED lock_manager_ready
         /\ L!Release(w) =>
              call[w] = "in" /\ call' = [call EXCEPT ![w] = "out"] /\ UNCHANGED lock_manager_ready
<1>1. ASSUME L!ReadLoop(w) \/ \E n : L!WriteLoop(w, n)
      PROVE  \E p \in {"in", "reader", "writer"} : call' = [call EXCEPT ![w] = p]
  BY <1>1 DEF L!ReadLoop, L!WriteLoop
<1>2. ASSUME NEW m, L!Acquire(w, m)
      PROVE  /\ call[w] = "out"
             /\ \E p \in {"in", "reader", "writer"} : call' = [call EXCEPT ![w] = p]
             /\ UNCHANGED lock_manager_ready
  BY <1>1, <1>2 DEF L!Acquire, L!AcquireNothing, L!AcquireRead, L!AcquireWrite
<1>3. ASSUME L!Recheck(w)
      PROVE  /\ call[w] \in {"reader", "writer"}
             /\ \E p \in {"in", "reader", "writer"} : call' = [call EXCEPT ![w] = p]
             /\ UNCHANGED lock_manager_ready
  BY <1>1, <1>3 DEF L!Recheck, L!RecheckRead, L!RecheckWrite
<1>4. ASSUME L!Release(w)
      PROVE  call[w] = "in" /\ call' = [call EXCEPT ![w] = "out"] /\ UNCHANGED lock_manager_ready
  BY <1>4 DEF L!Release, L!ReleaseNothing, L!ReleaseRead, L!ReleaseWrite, L!Leave
<1>. QED
  BY <1>2, <1>3, <1>4
-----------------------------------------------------------------------------
(* Every step keeps the invariant.                                       *)

\* When every worker that was created has left, the queue is empty: a worker
\* left it so, or there never was a worker and nobody was accepted.
LEMMA JoinedEmpty ==
  ASSUME PoolInv, \A w \in Workers : worker[w] \in {"unborn", "exited"}
  PROVE  size = 0
<1>1. CASE \E w \in Workers : worker[w] = "exited"
  BY <1>1 DEF PoolInv, Quiet
<1>2. CASE \A w \in Workers : worker[w] = "unborn"
  <2>1. \A j \in Jobs : submitter[j] # "accepted"
    BY <1>2, ThreadPoolAssumption DEF PoolInv, Life
  <2>2. Stored \intersect Jobs = {}
    BY <2>1 DEF PoolInv, Placed
  <2>. QED
    BY <2>2, StoredEmpty DEF PoolInv
<1>. QED
  BY <1>1, <1>2

\* init: the ring is cleared, and was empty.
LEMMA PoolInitKeeps ==
  ASSUME PoolInv, PoolInit
  PROVE  PoolInv'
<1>. USE DEF PoolInv
<1>1. /\ phase = "raw" /\ phase' = "creating" /\ queue_ready' = TRUE /\ lock_manager_ready' =
         TRUE
      /\ closed' = FALSE /\ accepting_jobs' = TRUE
      /\ items' = [i \in Q!Slots |-> NoJob] /\ head' = 0 /\ tail' = 0 /\ size' = 0
      /\ UNCHANGED <<op, arg, got, destroying, call, stop_mode, worker, submitter, started,
         finished, result>>
  BY DEF PoolInit, L!InitManager, Q!InitQueue, jobVars
<1>2. RingOK' /\ Stored' = Stored /\ Stored = {}
  BY <1>1, Cleared DEF RingOK, Stored, Quiet
<1>3. Typed'
  BY <1>1, <1>2, ThreadPoolAssumption DEF Typed, Phases, Results, Threads, Q!Ops, L!Places
<1>4. Callers'
  BY <1>1, <1>2, ThreadPoolAssumption DEF Typed, Callers, Threads
<1>5. Life'
  BY <1>1, <1>2 DEF Typed, Life, NobodySubmitting
<1>6. Quiet'
  BY <1>1, <1>2, ThreadPoolAssumption DEF Typed, Life, Quiet, RingOK
<1>7. Placed'
  BY <1>1, <1>2, ThreadPoolAssumption DEF Typed, Threads, Callers, Placed, Held
<1>8. Entered'
  BY <1>1, <1>2, ThreadPoolAssumption DEF Typed, Threads, Callers, Placed, Held, Entered, ResultHonest
<1>9. Cancelling'
  BY <1>1, <1>2 DEF Typed, Callers, Life, Cancelling
<1>. QED
  BY <1>2, <1>3, <1>4, <1>5, <1>6, <1>7, <1>8, <1>9

\* init: a worker is created.
LEMMA CreateWorkerKeeps ==
  ASSUME PoolInv, NEW w \in Workers, CreateWorker(w)
  PROVE  PoolInv'
<1>. USE DEF PoolInv
<1>1. /\ phase = "creating" /\ phase' \in {"creating", "serving"} /\ worker[w] = "unborn"
      /\ phase' = "serving" => \A v \in Workers \ {w} : worker[v] # "unborn"
      /\ worker' = [worker EXCEPT ![w] = "loop"]
      /\ UNCHANGED <<queue_ready, items, head, tail, size, closed, op, arg, got, destroying,
         lock_manager_ready, call, accepting_jobs, stop_mode, submitter, started, finished,
         result>>
  BY DEF CreateWorker, queueVars, lockVars, jobVars
<1>2. RingOK' /\ Stored' = Stored
  BY <1>1, RingStays
<1>3. Typed'
  BY <1>1, <1>2, ThreadPoolAssumption DEF Typed, Phases, Results, Threads, Q!Ops, L!Places
<1>4. Callers'
  BY <1>1, <1>2, ThreadPoolAssumption DEF Typed, Callers, Threads
<1>5. Life'
  BY <1>1, <1>2 DEF Typed, Life, NobodySubmitting
<1>6. Quiet'
  BY <1>1, <1>2, ThreadPoolAssumption DEF Typed, Life, Quiet, RingOK
<1>7. Placed'
  BY <1>1, <1>2, ThreadPoolAssumption DEF Typed, Threads, Callers, Placed, Held
<1>8. Entered'
  BY <1>1, <1>2, ThreadPoolAssumption DEF Typed, Threads, Callers, Placed, Held, Entered, ResultHonest
<1>9. Cancelling'
  BY <1>1, <1>2 DEF Typed, Callers, Life, Cancelling
<1>. QED
  BY <1>2, <1>3, <1>4, <1>5, <1>6, <1>7, <1>8, <1>9

\* shutdown, first critical section.
LEMMA BeginShutdownKeeps ==
  ASSUME PoolInv, NEW m \in {"drain", "cancel_pending"}, BeginShutdown(m)
  PROVE  PoolInv'
<1>. USE DEF PoolInv
<1>1. /\ phase \in {"creating", "serving"} /\ phase' = "closing" /\ accepting_jobs' = FALSE /\
         stop_mode' = m
      /\ UNCHANGED <<queue_ready, items, head, tail, size, closed, op, arg, got, destroying,
         lock_manager_ready, call, worker, submitter, started, finished, result>>
  BY DEF BeginShutdown, queueVars, lockVars, jobVars
<1>2. RingOK' /\ Stored' = Stored
  BY <1>1, RingStays
<1>3. Typed'
  BY <1>1, <1>2, ThreadPoolAssumption DEF Typed, Phases, Results, Threads, Q!Ops, L!Places
<1>4. Callers'
  BY <1>1, <1>2, ThreadPoolAssumption DEF Typed, Callers, Threads
<1>5. Life'
  BY <1>1, <1>2 DEF Typed, Life, NobodySubmitting
<1>6. Quiet'
  BY <1>1, <1>2, ThreadPoolAssumption DEF Typed, Life, Quiet, RingOK
<1>7. Placed'
  BY <1>1, <1>2, ThreadPoolAssumption DEF Typed, Threads, Callers, Placed, Held
<1>8. Entered'
  BY <1>1, <1>2, ThreadPoolAssumption DEF Typed, Threads, Callers, Placed, Held, Entered, ResultHonest
<1>9. Cancelling'
  BY <1>1, <1>2 DEF Typed, Callers, Life, Cancelling
<1>. QED
  BY <1>2, <1>3, <1>4, <1>5, <1>6, <1>7, <1>8, <1>9

\* shutdown: the queue is closed.
LEMMA CloseQueueKeeps ==
  ASSUME PoolInv, CloseQueue
  PROVE  PoolInv'
<1>. USE DEF PoolInv
<1>1. /\ phase = "closing" /\ closed' = TRUE
      /\ phase' = IF stop_mode = "cancel_pending" THEN "cancelling" ELSE "joining"
      /\ UNCHANGED <<queue_ready, items, head, tail, size, op, arg, got, destroying,
         lock_manager_ready, call, accepting_jobs, stop_mode, worker, submitter, started,
         finished, result>>
  BY DEF CloseQueue, Q!Close, Q!Shut, Q!ring, lockVars, jobVars, Life
<1>2. RingOK' /\ Stored' = Stored
  BY <1>1, RingStays
<1>3. Typed'
  BY <1>1, <1>2, ThreadPoolAssumption DEF Typed, Phases, Results, Threads, Q!Ops, L!Places
<1>4. Callers'
  BY <1>1, <1>2, ThreadPoolAssumption DEF Typed, Callers, Threads
<1>5. Life'
  BY <1>1, <1>2 DEF Typed, Life, NobodySubmitting
<1>6. Quiet'
  BY <1>1, <1>2, ThreadPoolAssumption DEF Typed, Life, Quiet, RingOK
<1>7. Placed'
  BY <1>1, <1>2, ThreadPoolAssumption DEF Typed, Threads, Callers, Placed, Held
<1>8. Entered'
  BY <1>1, <1>2, ThreadPoolAssumption DEF Typed, Threads, Callers, Placed, Held, Entered, ResultHonest
<1>9. Cancelling'
  BY <1>1, <1>2 DEF Typed, Callers, Life, Cancelling
<1>. QED
  BY <1>2, <1>3, <1>4, <1>5, <1>6, <1>7, <1>8, <1>9

\* shutdown: cancel_pending is entered.
LEMMA CancelBeginKeeps ==
  ASSUME PoolInv, CancelBegin
  PROVE  PoolInv'
<1>. USE DEF PoolInv
<1>1. /\ phase = "cancelling" /\ op[Controller] = "out"
      /\ op' = [op EXCEPT ![Controller] = "cancel"]
      /\ UNCHANGED <<queue_ready, items, head, tail, size, closed, arg, got, destroying,
         lock_manager_ready, call, accepting_jobs, phase, stop_mode, worker, submitter,
         started, finished, result>>
  BY DEF CancelBegin, Q!CancelPending, Q!ring, lockVars, ctlVars, jobVars
<1>2. RingOK' /\ Stored' = Stored
  BY <1>1, RingStays
<1>3. Typed'
  BY <1>1, <1>2, ThreadPoolAssumption DEF Typed, Phases, Results, Threads, Q!Ops, L!Places
<1>4. Callers'
  BY <1>1, <1>2, ThreadPoolAssumption DEF Typed, Callers, Threads
<1>5. Life'
  BY <1>1, <1>2 DEF Typed, Life, NobodySubmitting
<1>6. Quiet'
  BY <1>1, <1>2, ThreadPoolAssumption DEF Typed, Life, Quiet, RingOK
<1>7. Placed'
  BY <1>1, <1>2, ThreadPoolAssumption DEF Typed, Threads, Callers, Placed, Held
<1>8. Entered'
  BY <1>1, <1>2, ThreadPoolAssumption DEF Typed, Threads, Callers, Placed, Held, Entered, ResultHonest
<1>9. Cancelling'
  BY <1>1, <1>2 DEF Typed, Callers, Life, Cancelling
<1>. QED
  BY <1>2, <1>3, <1>4, <1>5, <1>6, <1>7, <1>8, <1>9

\* cancel_pending takes a job out of the ring.
LEMMA CancelTakeKeeps ==
  ASSUME PoolInv, CancelTake
  PROVE  PoolInv'
<1>. USE DEF PoolInv
<1>1. /\ op[Controller] = "cancel" /\ size # 0 /\ Q!pop_front_locked
      /\ op' = [op EXCEPT ![Controller] = "finish"]
      /\ arg' = [arg EXCEPT ![Controller] = items[head]]
      /\ got' = [got EXCEPT ![Controller] = items[head]]
      /\ UNCHANGED <<queue_ready, closed, destroying, lock_manager_ready, call, accepting_jobs,
         phase, stop_mode, worker, submitter, started, finished, result>>
  BY ThreadPoolAssumption DEF CancelTake, Q!CancelTake, RingOK, lockVars, ctlVars, jobVars
<1>2. /\ RingOK' /\ Stored' = Stored \ {items[head]} /\ size' = size - 1
      /\ items[head] \in Jobs /\ items[head] \in Stored
  BY <1>1, TakeEffect
<1>3. Typed'
  BY <1>1, <1>2, ThreadPoolAssumption DEF Typed, Phases, Results, Threads, Q!Ops, L!Places
<1>4. Callers'
  BY <1>1, <1>2, ThreadPoolAssumption DEF Typed, Callers, Threads
<1>5. Life'
  BY <1>1, <1>2 DEF Typed, Life, NobodySubmitting
<1>6. Quiet'
  BY <1>1, <1>2, ThreadPoolAssumption DEF Typed, Life, Quiet, RingOK
<1>7. Placed'
  BY <1>1, <1>2, ThreadPoolAssumption DEF Typed, Threads, Callers, Placed, Held
<1>8. Entered'
  BY <1>1, <1>2, ThreadPoolAssumption DEF Typed, Threads, Callers, Placed, Held, Entered, ResultHonest
<1>9. Cancelling'
  BY <1>1, <1>2 DEF Typed, Callers, Life, Quiet, Cancelling
<1>. QED
  BY <1>2, <1>3, <1>4, <1>5, <1>6, <1>7, <1>8, <1>9

\* cancel_pending reports the job it took as cancelled.
LEMMA CancelFinishKeeps ==
  ASSUME PoolInv, CancelFinish
  PROVE  PoolInv'
<1>. USE DEF PoolInv
<1>1. /\ op[Controller] = "finish"
      /\ op' = [op EXCEPT ![Controller] = "cancel"]
      /\ arg' = [arg EXCEPT ![Controller] = NoJob]
      /\ finished' = [finished EXCEPT ![arg[Controller]] = @ + 1]
      /\ result' = [result EXCEPT ![arg[Controller]] = "cancelled"]
      /\ UNCHANGED <<queue_ready, items, head, tail, size, closed, got, destroying,
         lock_manager_ready, call, accepting_jobs, phase, stop_mode, worker, submitter,
         started>>
  BY DEF CancelFinish, Q!CancelFinish, FinishJob, Q!ring, lockVars, ctlVars
<1>2. RingOK' /\ Stored' = Stored
  BY <1>1, RingStays
<1>3. arg[Controller] \in Jobs /\ finished[arg[Controller]] = 0 /\ ~Held(arg[Controller])
  BY <1>1 DEF Typed, Threads, Callers, Placed
<1>4. Typed'
  BY <1>1, <1>2, <1>3, ThreadPoolAssumption DEF Typed, Phases, Results, Threads, Q!Ops, L!Places
<1>5. Callers'
  BY <1>1, <1>2, <1>3, ThreadPoolAssumption DEF Typed, Callers, Threads
<1>6. Life'
  BY <1>1, <1>2, <1>3 DEF Typed, Life, NobodySubmitting
<1>7. Quiet'
  BY <1>1, <1>2, <1>3, ThreadPoolAssumption DEF Typed, Life, Quiet, RingOK
<1>8. Placed'
  BY <1>1, <1>2, <1>3, ThreadPoolAssumption DEF Typed, Threads, Callers, Placed, Held
<1>9. Entered'
  BY <1>1, <1>2, <1>3, ThreadPoolAssumption DEF Typed, Threads, Callers, Placed, Held, Entered, ResultHonest
<1>10. Cancelling'
  BY <1>1, <1>2, <1>3 DEF Typed, Callers, Life, Cancelling
<1>. QED
  BY <1>2, <1>4, <1>5, <1>6, <1>7, <1>8, <1>9, <1>10

\* cancel_pending found the queue empty.
LEMMA CancelDoneKeeps ==
  ASSUME PoolInv, CancelDone
  PROVE  PoolInv'
<1>. USE DEF PoolInv
<1>1. /\ phase = "cancelling" /\ phase' = "joining"
      /\ op[Controller] = "cancel" /\ op' = [op EXCEPT ![Controller] = "out"]
      /\ UNCHANGED <<queue_ready, items, head, tail, size, closed, arg, got, destroying,
         lock_manager_ready, call, accepting_jobs, stop_mode, worker, submitter, started,
         finished, result>>
  BY DEF CancelDone, Q!CancelDone, Q!ring, lockVars, jobVars
<1>2. RingOK' /\ Stored' = Stored
  BY <1>1, RingStays
<1>3. Typed'
  BY <1>1, <1>2, ThreadPoolAssumption DEF Typed, Phases, Results, Threads, Q!Ops, L!Places
<1>4. Callers'
  BY <1>1, <1>2, ThreadPoolAssumption DEF Typed, Callers, Threads
<1>5. Life'
  BY <1>1, <1>2 DEF Typed, Life, NobodySubmitting
<1>6. Quiet'
  BY <1>1, <1>2, ThreadPoolAssumption DEF Typed, Life, Quiet, RingOK
<1>7. Placed'
  BY <1>1, <1>2, ThreadPoolAssumption DEF Typed, Threads, Callers, Placed, Held
<1>8. Entered'
  BY <1>1, <1>2, ThreadPoolAssumption DEF Typed, Threads, Callers, Placed, Held, Entered, ResultHonest
<1>9. Cancelling'
  BY <1>1, <1>2 DEF Typed, Callers, Life, Cancelling
<1>. QED
  BY <1>2, <1>3, <1>4, <1>5, <1>6, <1>7, <1>8, <1>9

\* Every worker has left, so the queue is empty.
LEMMA JoinWorkersKeeps ==
  ASSUME PoolInv, JoinWorkers
  PROVE  PoolInv'
<1>. USE DEF PoolInv
<1>1. /\ phase = "joining" /\ phase' = "stopped"
      /\ \A w \in Workers : worker[w] \in {"unborn", "exited"}
      /\ UNCHANGED <<queue_ready, items, head, tail, size, closed, op, arg, got, destroying,
         lock_manager_ready, call, accepting_jobs, stop_mode, worker, submitter, started,
         finished, result>>
  BY DEF JoinWorkers, queueVars, lockVars, jobVars
<1>2. RingOK' /\ Stored' = Stored
  BY <1>1, RingStays
<1>3. size = 0
  BY <1>1, JoinedEmpty
<1>4. Typed'
  BY <1>1, <1>2, <1>3, ThreadPoolAssumption DEF Typed, Phases, Results, Threads, Q!Ops, L!Places
<1>5. Callers'
  BY <1>1, <1>2, <1>3, ThreadPoolAssumption DEF Typed, Callers, Threads
<1>6. Life'
  BY <1>1, <1>2, <1>3 DEF Typed, Life, NobodySubmitting
<1>7. Quiet'
  BY <1>1, <1>2, <1>3, ThreadPoolAssumption DEF Typed, Life, Quiet, RingOK
<1>8. Placed'
  BY <1>1, <1>2, <1>3, ThreadPoolAssumption DEF Typed, Threads, Callers, Placed, Held
<1>9. Entered'
  BY <1>1, <1>2, <1>3, ThreadPoolAssumption DEF Typed, Threads, Callers, Placed, Held, Entered, ResultHonest
<1>10. Cancelling'
  BY <1>1, <1>2, <1>3 DEF Typed, Callers, Life, Cancelling
<1>. QED
  BY <1>2, <1>4, <1>5, <1>6, <1>7, <1>8, <1>9, <1>10

\* destroy: the queue's destroy begins.
LEMMA BeginDestroyKeeps ==
  ASSUME PoolInv, BeginDestroy
  PROVE  PoolInv'
<1>. USE DEF PoolInv
<1>1. /\ phase = "stopped" /\ phase' = "freeing" /\ NobodySubmitting
      /\ closed' = TRUE /\ destroying' = TRUE
      /\ op[Controller] = "out" /\ op' = [op EXCEPT ![Controller] = "cancel"]
      /\ UNCHANGED <<queue_ready, items, head, tail, size, arg, got, lock_manager_ready, call,
         accepting_jobs, stop_mode, worker, submitter, started, finished, result>>
  BY DEF BeginDestroy, Q!Destroy, Q!Shut, Q!ring, lockVars, jobVars
<1>2. RingOK' /\ Stored' = Stored
  BY <1>1, RingStays
<1>3. Typed'
  BY <1>1, <1>2, ThreadPoolAssumption DEF Typed, Phases, Results, Threads, Q!Ops, L!Places
<1>4. Callers'
  BY <1>1, <1>2, ThreadPoolAssumption DEF Typed, Callers, Threads
<1>5. Life'
  BY <1>1, <1>2 DEF Typed, Life, NobodySubmitting
<1>6. Quiet'
  BY <1>1, <1>2, ThreadPoolAssumption DEF Typed, Life, Quiet, RingOK
<1>7. Placed'
  BY <1>1, <1>2, ThreadPoolAssumption DEF Typed, Threads, Callers, Placed, Held
<1>8. Entered'
  BY <1>1, <1>2, ThreadPoolAssumption DEF Typed, Threads, Callers, Placed, Held, Entered, ResultHonest
<1>9. Cancelling'
  BY <1>1, <1>2 DEF Typed, Callers, Life, Cancelling
<1>. QED
  BY <1>2, <1>3, <1>4, <1>5, <1>6, <1>7, <1>8, <1>9

\* destroy: the queue and the lock are gone.
LEMMA EndDestroyKeeps ==
  ASSUME PoolInv, EndDestroy
  PROVE  PoolInv'
<1>. USE DEF PoolInv
<1>1. /\ phase = "freeing" /\ phase' = "gone" /\ queue_ready' = FALSE /\ lock_manager_ready' =
         FALSE
      /\ closed' = FALSE /\ destroying' = FALSE /\ size = 0
      /\ op[Controller] = "cancel" /\ op' = [op EXCEPT ![Controller] = "out"]
      /\ items' = [i \in Q!Slots |-> NoJob] /\ head' = 0 /\ tail' = 0 /\ size' = 0
      /\ UNCHANGED <<arg, got, call, accepting_jobs, stop_mode, worker, submitter, started,
         finished, result>>
  BY DEF EndDestroy, Q!DestroyDone, L!DestroyManager, jobVars
<1>2. RingOK' /\ Stored' = Stored /\ Stored = {}
  BY <1>1, Cleared DEF RingOK, Stored, Quiet
<1>3. Typed'
  BY <1>1, <1>2, ThreadPoolAssumption DEF Typed, Phases, Results, Threads, Q!Ops, L!Places
<1>4. Callers'
  BY <1>1, <1>2, ThreadPoolAssumption DEF Typed, Callers, Threads
<1>5. Life'
  BY <1>1, <1>2 DEF Typed, Life, NobodySubmitting
<1>6. Quiet'
  BY <1>1, <1>2, ThreadPoolAssumption DEF Typed, Life, Quiet, RingOK
<1>7. Placed'
  BY <1>1, <1>2, ThreadPoolAssumption DEF Typed, Threads, Callers, Placed, Held
<1>8. Entered'
  BY <1>1, <1>2, ThreadPoolAssumption DEF Typed, Threads, Callers, Placed, Held, Entered, ResultHonest
<1>9. Cancelling'
  BY <1>1, <1>2 DEF Typed, Callers, Life, Cancelling
<1>. QED
  BY <1>2, <1>3, <1>4, <1>5, <1>6, <1>7, <1>8, <1>9

\* A submitter reads accepting_jobs.
LEMMA SubmitKeeps ==
  ASSUME PoolInv, NEW j \in Jobs, Submit(j)
  PROVE  PoolInv'
<1>. USE DEF PoolInv
<1>1. /\ Published /\ submitter[j] = "new"
      /\ submitter' = [submitter EXCEPT ![j] = IF accepting_jobs THEN "checked" ELSE "refused"]
      /\ UNCHANGED <<queue_ready, items, head, tail, size, closed, op, arg, got, destroying,
         lock_manager_ready, call, accepting_jobs, phase, stop_mode, worker, started, finished,
         result>>
  BY DEF Submit, queueVars, lockVars, ctlVars, jobVars
<1>2. RingOK' /\ Stored' = Stored
  BY <1>1, RingStays
<1>3. Typed'
  BY <1>1, <1>2, ThreadPoolAssumption DEF Typed, Phases, Results, Threads, Q!Ops, L!Places
<1>4. Callers'
  BY <1>1, <1>2, ThreadPoolAssumption DEF Typed, Callers, Threads
<1>5. Life'
  BY <1>1 DEF Typed, Life, Published, Phases, NobodySubmitting
<1>6. Quiet'
  BY <1>1, <1>2, ThreadPoolAssumption DEF Typed, Life, Quiet, RingOK
<1>7. Placed'
  BY <1>1, <1>2, ThreadPoolAssumption DEF Typed, Threads, Callers, Placed, Held
<1>8. Entered'
  BY <1>1, <1>2, ThreadPoolAssumption DEF Typed, Threads, Callers, Placed, Held, Entered, ResultHonest
<1>9. Cancelling'
  BY <1>1, <1>2 DEF Typed, Callers, Life, Cancelling
<1>. QED
  BY <1>2, <1>3, <1>4, <1>5, <1>6, <1>7, <1>8, <1>9

\* A worker asks for the lock of its job; if it is let in it enters run.
LEMMA AcquireLockKeeps ==
  ASSUME PoolInv, NEW w \in Workers, AcquireLock(w)
  PROVE  PoolInv'
<1>. USE DEF PoolInv
<1>1. /\ worker[w] = "assigned" /\ worker' = [worker EXCEPT ![w] = "running"]
      /\ call[w] = "out" /\ \E p \in {"in", "reader", "writer"} : call' = [call EXCEPT ![w] =
         p]
      /\ EnterRun(w)
      /\ UNCHANGED <<queue_ready, items, head, tail, size, closed, op, arg, got, destroying,
         lock_manager_ready, accepting_jobs, phase, stop_mode, submitter, finished, result>>
  BY LockEffect DEF AcquireLock, queueVars, ctlVars
<1>2. RingOK' /\ Stored' = Stored
  BY <1>1, RingStays
<1>3. got[w] \in Jobs /\ finished[got[w]] = 0 /\ started[got[w]] = 0 /\ worker'[w] = "running"
      /\ call'[w] # "out" /\ started' = [started EXCEPT ![got[w]] = IF call'[w] = "in" THEN 1 ELSE 0]
  <2>1. got[w] \in Jobs /\ finished[got[w]] = 0 /\ started[got[w]] = 0
    BY <1>1 DEF Typed, Threads, Callers, Placed, Held, Entered
  <2>2. call'[w] \in {"in", "reader", "writer"} /\ worker'[w] = "running"
    BY <1>1 DEF Typed, Callers
  <2>. QED
    BY <1>1, <2>1, <2>2 DEF Typed, EnterRun
<1>4. Typed'
  BY <1>1, <1>2, <1>3, ThreadPoolAssumption DEF Typed, Phases, Results, Threads, Q!Ops, L!Places
<1>5. Callers'
  BY <1>1, <1>2, <1>3, ThreadPoolAssumption DEF Typed, Callers, Threads
<1>6. Life'
  BY <1>1, <1>2, <1>3 DEF Typed, Life, NobodySubmitting
<1>7. Quiet'
  BY <1>1, <1>2, <1>3, ThreadPoolAssumption DEF Typed, Life, Quiet, RingOK
<1>8. Placed'
  BY <1>1, <1>2, <1>3, ThreadPoolAssumption DEF Typed, Threads, Callers, Placed, Held
<1>9. Entered'
  BY <1>1, <1>2, <1>3, ThreadPoolAssumption DEF Typed, Threads, Callers, Placed, Held, Entered, ResultHonest
<1>10. Cancelling'
  BY <1>1, <1>2, <1>3 DEF Typed, Callers, Life, Cancelling
<1>. QED
  BY <1>2, <1>4, <1>5, <1>6, <1>7, <1>8, <1>9, <1>10

\* A worker in a wait loop of the lock; if it is let in it enters run.
LEMMA RecheckLockKeeps ==
  ASSUME PoolInv, NEW w \in Workers, RecheckLock(w)
  PROVE  PoolInv'
<1>. USE DEF PoolInv
<1>1. /\ call[w] \in {"reader", "writer"} /\ \E p \in {"in", "reader", "writer"} : call' =
         [call EXCEPT ![w] = p]
      /\ EnterRun(w)
      /\ UNCHANGED <<queue_ready, items, head, tail, size, closed, op, arg, got, destroying,
         lock_manager_ready, accepting_jobs, phase, stop_mode, worker, submitter, finished,
         result>>
  BY LockEffect DEF RecheckLock, queueVars, ctlVars
<1>2. RingOK' /\ Stored' = Stored
  BY <1>1, RingStays
<1>3. got[w] \in Jobs /\ finished[got[w]] = 0 /\ started[got[w]] = 0 /\ worker'[w] = "running"
      /\ call'[w] # "out" /\ started' = [started EXCEPT ![got[w]] = IF call'[w] = "in" THEN 1 ELSE 0]
  <2>1. got[w] \in Jobs /\ finished[got[w]] = 0 /\ started[got[w]] = 0
    BY <1>1 DEF Typed, Threads, Callers, Placed, Held, Entered
  <2>2. call'[w] \in {"in", "reader", "writer"} /\ worker'[w] = "running"
    BY <1>1 DEF Typed, Callers
  <2>. QED
    BY <1>1, <2>1, <2>2 DEF Typed, EnterRun
<1>4. Typed'
  BY <1>1, <1>2, <1>3, ThreadPoolAssumption DEF Typed, Phases, Results, Threads, Q!Ops, L!Places
<1>5. Callers'
  BY <1>1, <1>2, <1>3, ThreadPoolAssumption DEF Typed, Callers, Threads
<1>6. Life'
  BY <1>1, <1>2, <1>3 DEF Typed, Life, NobodySubmitting
<1>7. Quiet'
  BY <1>1, <1>2, <1>3, ThreadPoolAssumption DEF Typed, Life, Quiet, RingOK
<1>8. Placed'
  BY <1>1, <1>2, <1>3, ThreadPoolAssumption DEF Typed, Threads, Callers, Placed, Held
<1>9. Entered'
  BY <1>1, <1>2, <1>3, ThreadPoolAssumption DEF Typed, Threads, Callers, Placed, Held, Entered, ResultHonest
<1>10. Cancelling'
  BY <1>1, <1>2, <1>3 DEF Typed, Callers, Life, Cancelling
<1>. QED
  BY <1>2, <1>4, <1>5, <1>6, <1>7, <1>8, <1>9, <1>10

\* The run callback has returned.
LEMMA ReleaseLockKeeps ==
  ASSUME PoolInv, NEW w \in Workers, ReleaseLock(w)
  PROVE  PoolInv'
<1>. USE DEF PoolInv
<1>1. /\ worker[w] = "running" /\ worker' = [worker EXCEPT ![w] = "ran"]
      /\ call[w] = "in" /\ call' = [call EXCEPT ![w] = "out"]
      /\ UNCHANGED <<queue_ready, items, head, tail, size, closed, op, arg, got, destroying,
         lock_manager_ready, accepting_jobs, phase, stop_mode, submitter, started, finished,
         result>>
  BY LockEffect DEF ReleaseLock, queueVars, ctlVars, jobVars
<1>2. RingOK' /\ Stored' = Stored
  BY <1>1, RingStays
<1>3. Typed'
  BY <1>1, <1>2, ThreadPoolAssumption DEF Typed, Phases, Results, Threads, Q!Ops, L!Places
<1>4. Callers'
  BY <1>1, <1>2, ThreadPoolAssumption DEF Typed, Callers, Threads
<1>5. Life'
  BY <1>1, <1>2 DEF Typed, Life, NobodySubmitting
<1>6. Quiet'
  BY <1>1, <1>2, ThreadPoolAssumption DEF Typed, Life, Quiet, RingOK
<1>7. Placed'
  BY <1>1, <1>2, ThreadPoolAssumption DEF Typed, Threads, Callers, Placed, Held
<1>8. Entered'
  BY <1>1, <1>2, ThreadPoolAssumption DEF Typed, Threads, Callers, Placed, Held, Entered, ResultHonest
<1>9. Cancelling'
  BY <1>1, <1>2 DEF Typed, Callers, Life, Cancelling
<1>. QED
  BY <1>2, <1>3, <1>4, <1>5, <1>6, <1>7, <1>8, <1>9

\* A worker reports the result of its job and forgets it.
LEMMA FinishRunKeeps ==
  ASSUME PoolInv, NEW w \in Workers, FinishRun(w)
  PROVE  PoolInv'
<1>. USE DEF PoolInv
<1>1. /\ worker[w] = "ran" /\ worker' = [worker EXCEPT ![w] = "loop"]
      /\ got' = [got EXCEPT ![w] = NoJob]
      /\ finished' = [finished EXCEPT ![got[w]] = @ + 1]
      /\ \E r \in {"ok", "failed"} : result' = [result EXCEPT ![got[w]] = r]
      /\ UNCHANGED <<queue_ready, items, head, tail, size, closed, op, arg, destroying,
         lock_manager_ready, call, accepting_jobs, phase, stop_mode, submitter, started>>
  BY DEF FinishRun, FinishJob, Q!Forget, Q!ring, lockVars, ctlVars
<1>2. RingOK' /\ Stored' = Stored
  BY <1>1, RingStays
<1>3. got[w] \in Jobs /\ finished[got[w]] = 0 /\ started[got[w]] = 1
  BY <1>1 DEF Typed, Threads, Placed, Held, Entered
<1>4. Typed'
  BY <1>1, <1>2, <1>3, ThreadPoolAssumption DEF Typed, Phases, Results, Threads, Q!Ops, L!Places
<1>5. Callers'
  BY <1>1, <1>2, <1>3, ThreadPoolAssumption DEF Typed, Callers, Threads
<1>6. Life'
  BY <1>1, <1>2, <1>3 DEF Typed, Life, NobodySubmitting
<1>7. Quiet'
  BY <1>1, <1>2, <1>3, ThreadPoolAssumption DEF Typed, Life, Quiet, RingOK
<1>8. Placed'
  BY <1>1, <1>2, <1>3, ThreadPoolAssumption DEF Typed, Threads, Callers, Placed, Held
<1>9. Entered'
  BY <1>1, <1>2, <1>3, ThreadPoolAssumption DEF Typed, Threads, Callers, Placed, Held, Entered, ResultHonest
<1>10. Cancelling'
  BY <1>1, <1>2, <1>3 DEF Typed, Callers, Life, Cancelling
<1>. QED
  BY <1>2, <1>4, <1>5, <1>6, <1>7, <1>8, <1>9, <1>10

\* The submitter of j inside the queue: it sleeps, is turned away, or its job
\* is stored while no worker has left.
LEMMA OfferKeeps ==
  ASSUME PoolInv, NEW j \in Jobs, EnterQueue(j) \/ RecheckRoom(j)
  PROVE  PoolInv'
<1>. USE DEF PoolInv
<1>1. submitter[j] \in {"checked", "waiting"} /\ submitter' = [submitter EXCEPT ![j] = Outcome(j)]
  BY DEF EnterQueue, RecheckRoom, Q!RecheckPush, Callers
<1>2. /\ phase \in {"serving", "closing", "cancelling", "joining", "stopped"} /\ queue_ready
      /\ \A w \in Workers : worker[w] # "unborn"
      /\ j \notin Stored /\ ~Held(j) /\ arg[Controller] # j /\ finished[j] = 0
  BY <1>1 DEF Typed, Phases, Life, NobodySubmitting, Placed
<1>3. /\ Sleeps(j) \/ Turned(j) \/ Taken(j)
      /\ UNCHANGED <<queue_ready, closed, destroying, got, lock_manager_ready, call, accepting_jobs,
                     phase, stop_mode, worker, started, finished, result>>
  BY <1>1, <1>2, PushEffect
     DEF EnterQueue, RecheckRoom, Q!RecheckPush, Callers, lockVars, ctlVars, jobVars
<1>4. CASE Sleeps(j)
  <2>1. /\ op' = [op EXCEPT ![j] = "push"] /\ arg' = [arg EXCEPT ![j] = j]
        /\ UNCHANGED <<items, head, tail, size>>
    BY <1>4 DEF Sleeps
  <2>2. submitter' = [submitter EXCEPT ![j] = "waiting"]
    BY <1>1, <2>1 DEF Outcome, Typed, Threads
  <2>3. RingOK' /\ Stored' = Stored
    BY <2>1, RingStays
  <2>4. Typed'
    BY <1>3, <2>1, <2>2 DEF Typed, Threads, Q!Ops
  <2>5. Callers'
    BY <1>3, <2>1, <2>2, ThreadPoolAssumption DEF Typed, Threads, Callers
  <2>6. Life'
    BY <1>2, <1>3, <2>1, <2>2 DEF Typed, Life, NobodySubmitting
  <2>7. Quiet'
    BY <1>3, <2>1 DEF Quiet
  <2>8. Placed'
    BY <1>1, <1>2, <1>3, <2>1, <2>2, <2>3, ThreadPoolAssumption DEF Typed, Threads, Placed, Held
  <2>9. Entered' /\ Cancelling'
    BY <1>3, <2>1, ThreadPoolAssumption DEF Typed, Threads, Entered, ResultHonest, Held, Cancelling
  <2>. QED
    BY <2>3, <2>4, <2>5, <2>6, <2>7, <2>8, <2>9
<1>5. CASE Turned(j)
  <2>1. /\ op' = [op EXCEPT ![j] = "out"] /\ arg' = [arg EXCEPT ![j] = NoJob] /\ ret' # "ok"
        /\ UNCHANGED <<items, head, tail, size>>
    BY <1>5 DEF Turned
  <2>2. submitter' = [submitter EXCEPT ![j] = "refused"]
    BY <1>1, <2>1 DEF Outcome, Typed, Threads
  <2>3. RingOK' /\ Stored' = Stored
    BY <2>1, RingStays
  <2>4. Typed'
    BY <1>3, <2>1, <2>2 DEF Typed, Threads, Q!Ops
  <2>5. Callers'
    BY <1>3, <2>1, <2>2, ThreadPoolAssumption DEF Typed, Threads, Callers
  <2>6. Life'
    BY <1>2, <1>3, <2>1, <2>2 DEF Typed, Life, NobodySubmitting
  <2>7. Quiet'
    BY <1>3, <2>1 DEF Quiet
  <2>8. Placed'
    BY <1>1, <1>2, <1>3, <2>1, <2>2, <2>3, ThreadPoolAssumption DEF Typed, Threads, Placed, Held
  <2>9. Entered' /\ Cancelling'
    BY <1>3, <2>1, ThreadPoolAssumption DEF Typed, Threads, Entered, ResultHonest, Held, Cancelling
  <2>. QED
    BY <2>3, <2>4, <2>5, <2>6, <2>7, <2>8, <2>9
<1>6. CASE Taken(j)
  <2>1. /\ op' = [op EXCEPT ![j] = "out"] /\ arg' = [arg EXCEPT ![j] = NoJob] /\ ret' = "ok"
        /\ ~closed /\ size # Capacity /\ Q!Store(j)
    BY <1>6 DEF Taken
  <2>2. submitter' = [submitter EXCEPT ![j] = "accepted"]
    BY <1>1, <2>1 DEF Outcome, Typed, Threads
  <2>3. RingOK' /\ Stored' = Stored \union {j}
    BY <1>2, <2>1, StoreEffect
  <2>4. Typed'
    BY <1>3, <2>1, <2>2 DEF Typed, Threads, Q!Ops
  <2>5. Callers'
    BY <1>3, <2>1, <2>2, ThreadPoolAssumption DEF Typed, Threads, Callers
  <2>6. Life'
    BY <1>2, <1>3, <2>1, <2>2 DEF Typed, Life, NobodySubmitting
  <2>7. phase \in {"serving", "closing"}
    BY <1>2, <2>1 DEF Life
  <2>8. Quiet'
    BY <1>3, <2>7 DEF Quiet
  <2>9. Placed'
    BY <1>1, <1>2, <1>3, <2>1, <2>2, <2>3, ThreadPoolAssumption DEF Typed, Threads, Placed, Held
  <2>10. Entered' /\ Cancelling'
    BY <1>3, <2>1, ThreadPoolAssumption DEF Typed, Threads, Entered, ResultHonest, Held, Cancelling
  <2>. QED
    BY <2>3, <2>4, <2>5, <2>6, <2>8, <2>9, <2>10
<1>. QED
  BY <1>3, <1>4, <1>5, <1>6

\* A worker inside pop: it sleeps, leaves the closed and empty queue, or gets
\* the job at the head.
LEMMA PopJobKeeps ==
  ASSUME PoolInv, NEW w \in Workers, PopJob(w)
  PROVE  PoolInv'
<1>. USE DEF PoolInv
<1>1. /\ worker[w] = "loop" /\ worker' = [worker EXCEPT ![w] = AfterPop(w)]
      /\ got[w] = NoJob /\ call[w] = "out"
  BY DEF PopJob, Placed, Callers
<1>2. /\ Waits(w) \/ Empty(w) \/ Gets(w)
      /\ UNCHANGED <<queue_ready, closed, destroying, lock_manager_ready, call, accepting_jobs,
                     phase, stop_mode, submitter, started, finished, result>>
  BY PopEffect DEF PopJob, Typed, lockVars, ctlVars, jobVars
<1>3. phase \notin {"raw", "stopped", "freeing", "gone"} /\ queue_ready
  BY <1>1 DEF Life, Quiet
<1>4. CASE Waits(w)
  <2>1. op' = [op EXCEPT ![w] = "pop"] /\ UNCHANGED <<items, head, tail, size, arg, got>>
    BY <1>4 DEF Waits
  <2>2. worker' = worker
    BY <1>1, <2>1 DEF AfterPop, Typed, Threads
  <2>3. RingOK' /\ Stored' = Stored
    BY <2>1, RingStays
  <2>4. Typed'
    BY <1>2, <2>1, <2>2 DEF Typed, Threads, Q!Ops
  <2>5. Callers'
    BY <1>1, <1>2, <2>1, <2>2, ThreadPoolAssumption DEF Typed, Threads, Callers
  <2>6. Life' /\ Quiet'
    BY <1>2, <2>1, <2>2 DEF Life, NobodySubmitting, Quiet
  <2>7. Placed'
    BY <1>2, <2>1, <2>2, <2>3 DEF Placed, Held
  <2>8. Entered' /\ Cancelling'
    BY <1>2, <2>1, <2>2, ThreadPoolAssumption DEF Typed, Threads, Entered, ResultHonest, Held, Cancelling
  <2>. QED
    BY <2>3, <2>4, <2>5, <2>6, <2>7, <2>8
<1>5. CASE Empty(w)
  <2>1. /\ op' = [op EXCEPT ![w] = "out"] /\ arg' = [arg EXCEPT ![w] = NoJob]
        /\ ret' = "closed" /\ closed /\ size = 0 /\ UNCHANGED <<items, head, tail, size, got>>
    BY <1>3, <1>5 DEF Empty
  <2>2. worker' = [worker EXCEPT ![w] = "exited"]
    BY <1>1, <2>1 DEF AfterPop, Typed, Threads
  <2>3. RingOK' /\ Stored' = Stored
    BY <2>1, RingStays
  <2>4. Typed'
    BY <1>2, <2>1, <2>2 DEF Typed, Threads, Q!Ops
  <2>5. Callers'
    BY <1>1, <1>2, <2>1, <2>2, ThreadPoolAssumption DEF Typed, Threads, Callers
  <2>6. Life' /\ Quiet'
    BY <1>2, <1>3, <2>1, <2>2 DEF Typed, Life, NobodySubmitting, Quiet
  <2>7. Placed'
    BY <1>1, <1>2, <2>1, <2>2, <2>3, ThreadPoolAssumption DEF Typed, Threads, Placed, Held
  <2>8. Entered' /\ Cancelling'
    BY <1>1, <1>2, <2>1, <2>2, ThreadPoolAssumption
       DEF Typed, Threads, Entered, ResultHonest, Held, Cancelling
  <2>. QED
    BY <2>3, <2>4, <2>5, <2>6, <2>7, <2>8
<1>6. CASE Gets(w)
  <2>1. /\ op' = [op EXCEPT ![w] = "out"] /\ arg' = [arg EXCEPT ![w] = NoJob] /\ ret' = "ok"
        /\ size # 0 /\ Q!pop_front_locked /\ got' = [got EXCEPT ![w] = items[head]]
    BY <1>6 DEF Gets
  <2>2. worker' = [worker EXCEPT ![w] = "assigned"]
    BY <1>1, <2>1 DEF AfterPop, Typed, Threads
  <2>3. /\ RingOK' /\ Stored' = Stored \ {items[head]}
        /\ items[head] \in Jobs /\ items[head] \in Stored
    BY <2>1, TakeEffect
  <2>4. Typed'
    BY <1>2, <2>1, <2>2, <2>3 DEF Typed, Threads, Q!Ops
  <2>5. Callers'
    BY <1>1, <1>2, <2>1, <2>2, ThreadPoolAssumption DEF Typed, Threads, Callers
  <2>6. Life' /\ Quiet'
    BY <1>2, <1>3, <2>1, <2>2 DEF Typed, Life, NobodySubmitting, Quiet
  <2>7. Placed'
    BY <1>1, <1>2, <2>1, <2>2, <2>3, ThreadPoolAssumption DEF Typed, Threads, Placed, Held
  <2>8. Entered'
    BY <1>1, <1>2, <2>1, <2>2, <2>3, ThreadPoolAssumption
       DEF Typed, Threads, Placed, Entered, ResultHonest, Held
  <2>9. Cancelling'
    BY <1>2, <2>1, ThreadPoolAssumption DEF Typed, Threads, Cancelling
  <2>. QED
    BY <2>3, <2>4, <2>5, <2>6, <2>7, <2>8, <2>9
<1>. QED
  BY <1>2, <1>4, <1>5, <1>6

\* Spurious wake-ups and stuttering change nothing the invariant reads.
LEMMA NothingKeeps ==
  ASSUME PoolInv,
         UNCHANGED <<queue_ready, items, head, tail, size, closed, op, arg, got, destroying,
                     lock_manager_ready, call, accepting_jobs, phase, stop_mode, worker, submitter,
                     started, finished, result>>
  PROVE  PoolInv'
BY DEF PoolInv, Typed, RingOK, Callers, Life, NobodySubmitting, Quiet, Placed, Held, Stored, Entered,
       ResultHonest, Cancelling

\* The pool starts with nothing created and nothing submitted.
LEMMA InitInv == Init => PoolInv
<1>. SUFFICES ASSUME Init PROVE PoolInv
  OBVIOUS
<1>. USE DEF Init, Q!Init, L!Init
<1>1. RingOK /\ Stored = {}
  BY Cleared DEF RingOK, Stored
<1>2. Typed
  <2>1. started \in [Jobs -> 0 .. 1] /\ finished \in [Jobs -> 0 .. 1]
    OBVIOUS
  <2>2. op \in [Threads -> Q!Ops] /\ call \in [Workers -> L!Places]
    BY DEF Q!Ops, L!Places
  <2>. QED
    BY <2>1, <2>2 DEF Typed, Phases, Results
<1>3. Callers
  BY DEF Callers, Threads
<1>4. Life /\ Quiet
  BY DEF Life, Quiet
<1>5. Placed /\ Entered /\ Cancelling
  BY <1>1, ThreadPoolAssumption DEF Placed, Held, Entered, ResultHonest, Cancelling, Threads
<1>. QED
  BY <1>1, <1>2, <1>3, <1>4, <1>5 DEF PoolInv

\* Every step of the controller, a submitter, a worker or a condition variable.
LEMMA NextKeepsInv == PoolInv /\ [Next]_vars => PoolInv'
<1>. SUFFICES ASSUME PoolInv, [Next]_vars PROVE PoolInv'
  OBVIOUS
<1>1. CASE ControllerStep
  BY <1>1, PoolInitKeeps, CreateWorkerKeeps, BeginShutdownKeeps, CloseQueueKeeps, CancelBeginKeeps,
     CancelTakeKeeps, CancelFinishKeeps, CancelDoneKeeps, JoinWorkersKeeps, BeginDestroyKeeps,
     EndDestroyKeeps DEF ControllerStep
<1>2. ASSUME NEW j \in Jobs, Submit(j) \/ EnterQueue(j) \/ RecheckRoom(j) PROVE PoolInv'
  BY <1>2, SubmitKeeps, OfferKeeps
<1>3. ASSUME NEW w \in Workers, WorkerStep(w) PROVE PoolInv'
  BY <1>3, PopJobKeeps, AcquireLockKeeps, RecheckLockKeeps, ReleaseLockKeeps, FinishRunKeeps
     DEF WorkerStep
<1>4. ASSUME NEW t \in Threads, QueueSpurious(t) PROVE PoolInv'
  BY <1>4, NothingKeeps DEF QueueSpurious, Q!SpuriousWake, Q!ring, lockVars, ctlVars, jobVars
<1>5. ASSUME NEW w \in Workers, LockSpurious(w) PROVE PoolInv'
  BY <1>5, NothingKeeps DEF LockSpurious, L!SpuriousWake, queueVars, ctlVars, jobVars
<1>6. CASE UNCHANGED vars
  BY <1>6, NothingKeeps DEF vars, queueVars, lockVars, ctlVars, jobVars
<1>. QED
  BY <1>1, <1>2, <1>3, <1>4, <1>5, <1>6 DEF Next, Terminated

\* The inductive invariant of the pool: where every job is, which call every
\* thread is in, and what init, shutdown and destroy leave possible.
THEOREM PoolInvariance == Spec => []PoolInv
BY InitInv, NextKeepsInv, PTL DEF Spec
-----------------------------------------------------------------------------
(* What the pool promises.                                                 *)

\* A set with at most one element.
LEMMA AtMostOne ==
  ASSUME NEW S, \A x, y \in S : x = y
  PROVE  Cardinality(S) = IF S = {} THEN 0 ELSE 1
<1>1. CASE S = {}
  BY <1>1, FS_EmptySet
<1>2. CASE S # {}
  <2>1. PICK x : S = {x}
    BY <1>2
  <2>2. Cardinality({x}) = 1
    BY FS_Singleton
  <2>. QED
    BY <1>2, <2>1, <2>2
<1>. QED
  BY <1>1, <1>2

\* Copies counts the places of a job: each of them holds it once or not.
LEMMA CopiesCounted ==
  ASSUME PoolInv, NEW j \in Jobs
  PROVE  Copies(j) = (IF j \in Stored THEN 1 ELSE 0) + (IF Held(j) THEN 1 ELSE 0)
                     + (IF arg[Controller] = j THEN 1 ELSE 0)
<1>. DEFINE InRing == {i \in 1 .. size : Q!Contents[i] = j}
            AtWork == {w \in Workers : got[w] = j}
<1>1. size \in Nat
  BY ThreadPoolAssumption DEF PoolInv, RingOK
<1>2. \A i \in 1 .. size : Q!Contents[i] = items[(head + (i - 1)) % Capacity] /\ i - 1 \in 0 .. size - 1
  <2>1. \A i \in 1 .. size : head + i - 1 = head + (i - 1) /\ i - 1 \in 0 .. size - 1
    BY <1>1 DEF PoolInv, RingOK, Q!Slots
  <2>. QED
    BY <2>1 DEF Q!Contents
<1>3. Cardinality(InRing) = IF j \in Stored THEN 1 ELSE 0
  <2>1. ASSUME NEW i \in InRing, NEW k \in InRing PROVE i = k
    <3>1. i - 1 = k - 1
      BY <1>2 DEF PoolInv, RingOK
    <3>. QED
      BY <1>1, <3>1
  <2>2. InRing # {} => j \in Stored
    BY <1>2 DEF Stored
  <2>3. ASSUME j \in Stored PROVE InRing # {}
    <3>1. PICK i \in 0 .. size - 1 : j = items[(head + i) % Capacity]
      BY <2>3 DEF Stored
    <3>2. i + 1 \in 1 .. size /\ (i + 1) - 1 = i
      BY <1>1
    <3>3. Q!Contents[i + 1] = j
      BY <1>2, <3>1, <3>2
    <3>. QED
      BY <3>2, <3>3
  <2>. QED
    BY <2>1, <2>2, <2>3, AtMostOne
<1>4. Cardinality(AtWork) = IF Held(j) THEN 1 ELSE 0
  <2>1. \A v, w \in AtWork : v = w
    BY ThreadPoolAssumption DEF PoolInv, Placed
  <2>2. AtWork = {} <=> ~Held(j)
    BY DEF Held
  <2>. QED
    BY <2>1, <2>2, AtMostOne
<1>. QED
  BY <1>3, <1>4 DEF Copies

\* No accepted job is lost or duplicated between the queue, the workers and
\* the cancel loop, and none is finished twice.
THEOREM JobsConserved == Spec => []JobConservation
<1>1. ASSUME PoolInv PROVE JobConservation
  <2>1. ASSUME NEW j \in Jobs
        PROVE  Copies(j) + finished[j] = IF submitter[j] = "accepted" THEN 1 ELSE 0
    <3>1. Copies(j) = (IF j \in Stored THEN 1 ELSE 0) + (IF Held(j) THEN 1 ELSE 0)
                      + (IF arg[Controller] = j THEN 1 ELSE 0)
      BY <1>1, CopiesCounted
    <3>2. finished[j] \in 0 .. 1
      BY <1>1 DEF PoolInv, Typed
    <3>3. /\ submitter[j] = "accepted" <=>
               j \in Stored \/ Held(j) \/ arg[Controller] = j \/ finished[j] = 1
          /\ j \in Stored => ~Held(j) /\ arg[Controller] # j /\ finished[j] = 0
          /\ Held(j) => arg[Controller] # j /\ finished[j] = 0
          /\ arg[Controller] = j => finished[j] = 0
      BY <1>1 DEF PoolInv, Placed
    <3>. QED
      BY <3>1, <3>2, <3>3
  <2>. QED
    BY <2>1 DEF JobConservation
<1>. QED
  BY <1>1, PoolInvariance, PTL

\* A job is reported as cancelled exactly when its run callback never began.
THEOREM ResultsHonest == Spec => []ResultHonest
<1>1. PoolInv => ResultHonest
  BY DEF PoolInv, Entered
<1>. QED
  BY <1>1, PoolInvariance, PTL

\* When shutdown has returned every worker has left and every accepted job
\* was finished, after a drain by its run callback.
THEOREM ShutdownsComplete == Spec => []ShutdownComplete
<1>1. ASSUME PoolInv, phase \in {"stopped", "freeing", "gone"}
      PROVE  /\ \A w \in Workers : worker[w] \in {"unborn", "exited"}
             /\ \A j \in Jobs : submitter[j] = "accepted" =>
                  finished[j] = 1 /\ (stop_mode = "drain" => started[j] = 1)
  <2>1. size = 0 /\ \A w \in Workers : worker[w] \in {"unborn", "exited"}
    BY <1>1 DEF PoolInv, Quiet
  <2>2. ASSUME NEW j \in Jobs, submitter[j] = "accepted"
        PROVE  finished[j] = 1 /\ (stop_mode = "drain" => started[j] = 1)
    <3>1. j \notin Stored
      BY <2>1, StoredEmpty
    <3>2. ~Held(j)
      BY <1>1, <2>1, ThreadPoolAssumption DEF PoolInv, Placed, Held
    <3>3. arg[Controller] # j
      BY <1>1, ThreadPoolAssumption DEF PoolInv, Callers, Cancelling
    <3>4. finished[j] = 1
      BY <1>1, <2>2, <3>1, <3>2, <3>3 DEF PoolInv, Placed
    <3>5. stop_mode = "drain" => result[j] # "cancelled"
      BY <1>1, <3>4 DEF PoolInv, Cancelling
    <3>6. started[j] \in 0 .. 1
      BY <1>1 DEF PoolInv, Typed
    <3>. QED
      BY <1>1, <3>4, <3>5, <3>6 DEF PoolInv, Entered, ResultHonest
  <2>. QED
    BY <2>1, <2>2
<1>2. PoolInv => ShutdownComplete
  BY <1>1 DEF ShutdownComplete
<1>. QED
  BY <1>2, PoolInvariance, PTL

\* The controller's steps as steps of the queue: init finds nobody inside,
\* and so does destroy.
LEMMA ControllerInQueue ==
  ASSUME PoolInv, ControllerStep
  PROVE  [Q!Next]_(Q!queueVars)
<1>. USE DEF PoolInv
<1>0. Controller \in Threads
  BY DEF Threads
<1>1. ASSUME queueVars' = queueVars PROVE UNCHANGED Q!queueVars
  BY <1>1 DEF queueVars, Q!queueVars
<1>2. CASE PoolInit
  <2>1. \A t \in Threads : op[t] = "out"
    <3>1. phase = "raw"
      BY <1>2 DEF PoolInit
    <3>2. \A j \in Jobs : op[j] = "out"
      BY <3>1 DEF Callers, Life
    <3>3. \A w \in Workers : op[w] = "out"
      BY <3>1 DEF Callers, Quiet
    <3>4. op[Controller] = "out"
      BY <3>1 DEF Callers
    <3>. QED
      BY <3>2, <3>3, <3>4 DEF Threads
  <2>. QED
    BY <1>2, <2>1 DEF PoolInit, Q!Next
<1>3. CASE (\E w \in Workers : CreateWorker(w)) \/ (\E m \in {"drain", "cancel_pending"} : BeginShutdown(m))
           \/ JoinWorkers
  BY <1>1, <1>3 DEF CreateWorker, BeginShutdown, JoinWorkers
<1>4. CASE CloseQueue
  <2>1. ~destroying
    BY <1>4 DEF CloseQueue, Life
  <2>. QED
    BY <1>0, <1>4, <2>1 DEF CloseQueue, Q!Next, Q!CallStep
<1>5. CASE CancelBegin
  <2>1. ~destroying
    BY <1>5 DEF CancelBegin, Life
  <2>. QED
    BY <1>0, <1>5, <2>1 DEF CancelBegin, Q!Next, Q!CallStep
<1>6. CASE CancelTake \/ CancelFinish \/ CancelDone \/ EndDestroy
  BY <1>0, <1>6 DEF CancelTake, CancelFinish, CancelDone, EndDestroy, Q!Next, Q!CancelLoop
<1>7. CASE BeginDestroy
  <2>1. Q!Alone(Controller)
    <3>1. \A j \in Jobs : op[j] = "out"
      BY <1>7 DEF BeginDestroy, NobodySubmitting, Callers
    <3>2. \A w \in Workers : op[w] = "out"
      BY <1>7 DEF BeginDestroy, Callers, Quiet
    <3>. QED
      BY <3>1, <3>2 DEF Q!Alone, Threads
  <2>. QED
    BY <1>0, <1>7, <2>1 DEF BeginDestroy, Q!Next
<1>. QED
  BY <1>2, <1>3, <1>4, <1>5, <1>6, <1>7 DEF ControllerStep

\* The pool makes only calls that job_queue.c allows: nobody calls a queue
\* that is being destroyed, and nobody is inside at init and destroy.
THEOREM QueueContractKept == Spec => KeepsQueueContract
<1>1. Init => Q!Init
  BY DEF Init
<1>2. PoolInv /\ [Next]_vars => [Q!Next]_(Q!queueVars)
  <2>. SUFFICES ASSUME PoolInv, [Next]_vars PROVE [Q!Next]_(Q!queueVars)
    OBVIOUS
  <2>1. ASSUME queueVars' = queueVars PROVE UNCHANGED Q!queueVars
    BY <2>1 DEF queueVars, Q!queueVars
  <2>2. CASE ControllerStep
    BY <2>2, ControllerInQueue
  <2>3. ASSUME NEW j \in Jobs, Submit(j) PROVE UNCHANGED Q!queueVars
    BY <2>1, <2>3 DEF Submit
  <2>4. ASSUME NEW j \in Jobs, EnterQueue(j) PROVE Q!Next
    <3>1. ~destroying /\ j \in Threads
      BY <2>4 DEF PoolInv, Life, EnterQueue, NobodySubmitting, Threads
    <3>. QED
      BY <2>4, <3>1 DEF EnterQueue, Q!Next, Q!CallStep
  <2>5. ASSUME NEW j \in Jobs, RecheckRoom(j) PROVE Q!Next
    BY <2>5 DEF RecheckRoom, Q!Next, Q!Recheck, Threads
  <2>6. ASSUME NEW w \in Workers, PopJob(w) PROVE Q!Next
    <3>1. ~destroying /\ w \in Threads
      BY <2>6 DEF PoolInv, Life, Quiet, PopJob, Threads
    <3>. QED
      BY <2>6, <3>1 DEF PopJob, Q!Next, Q!CallStep, Q!Recheck
  <2>7. ASSUME NEW w \in Workers, FinishRun(w) PROVE Q!Next
    <3>1. ~destroying /\ w \in Threads
      BY <2>7 DEF PoolInv, Life, Quiet, FinishRun, Threads
    <3>. QED
      BY <2>7, <3>1 DEF FinishRun, Q!Next, Q!CallStep
  <2>8. ASSUME NEW w \in Workers, AcquireLock(w) \/ RecheckLock(w) \/ ReleaseLock(w) \/ LockSpurious(w)
        PROVE  UNCHANGED Q!queueVars
    BY <2>1, <2>8 DEF AcquireLock, RecheckLock, ReleaseLock, LockSpurious
  <2>9. ASSUME NEW t \in Threads, QueueSpurious(t) PROVE Q!Next
    BY <2>9 DEF QueueSpurious, Q!Next
  <2>10. CASE UNCHANGED vars
    BY <2>1, <2>10 DEF vars
  <2>. QED
    BY <2>2, <2>3, <2>4, <2>5, <2>6, <2>7, <2>8, <2>9, <2>10 DEF Next, WorkerStep, Terminated
<1>. QED
  BY <1>1, <1>2, PoolInvariance, PTL DEF Spec, KeepsQueueContract, Q!Spec

\* The pool makes only calls that lock_manager.c allows, and creates and
\* destroys the manager while no worker is between acquire and release.
THEOREM LockContractKept == Spec => KeepsLockContract
<1>1. Init => L!Init
  BY DEF Init
<1>2. PoolInv /\ [Next]_vars => [L!Next]_(L!lockVars)
  <2>. SUFFICES ASSUME PoolInv, [Next]_vars PROVE [L!Next]_(L!lockVars)
    OBVIOUS
  <2>1. ASSUME lockVars' = lockVars PROVE UNCHANGED L!lockVars
    BY <2>1 DEF lockVars, L!lockVars
  <2>2. ASSUME PoolInit \/ EndDestroy PROVE L!Next
    <3>1. L!Quiescent
      BY <2>2 DEF PoolInv, PoolInit, EndDestroy, Callers, Quiet, L!Quiescent
    <3>. QED
      BY <2>2, <3>1 DEF PoolInit, EndDestroy, L!Next
  <2>3. ASSUME ControllerStep, ~PoolInit, ~EndDestroy PROVE UNCHANGED L!lockVars
    BY <2>1, <2>3 DEF ControllerStep, CreateWorker, BeginShutdown, CloseQueue, CancelBegin, CancelTake,
       CancelFinish, CancelDone, JoinWorkers, BeginDestroy
  <2>4. ASSUME NEW j \in Jobs, Submit(j) \/ EnterQueue(j) \/ RecheckRoom(j) PROVE UNCHANGED L!lockVars
    BY <2>1, <2>4 DEF Submit, EnterQueue, RecheckRoom
  <2>5. ASSUME NEW w \in Workers, AcquireLock(w) PROVE L!Next
    <3>1. got[w] \in Jobs
      BY <2>5 DEF PoolInv, Typed, Threads, Placed, AcquireLock
    <3>2. LockMode[got[w]] \in L!Modes
      BY <3>1, ThreadPoolAssumption DEF L!Modes
    <3>. QED
      BY <2>5, <3>2 DEF AcquireLock, L!Next, L!ThreadStep
  <2>6. ASSUME NEW w \in Workers, RecheckLock(w) \/ ReleaseLock(w) \/ LockSpurious(w) PROVE L!Next
    BY <2>6 DEF RecheckLock, ReleaseLock, LockSpurious, L!Next, L!ThreadStep
  <2>7. ASSUME NEW w \in Workers, PopJob(w) \/ FinishRun(w) PROVE UNCHANGED L!lockVars
    BY <2>1, <2>7 DEF PopJob, FinishRun
  <2>8. ASSUME NEW t \in Threads, QueueSpurious(t) PROVE UNCHANGED L!lockVars
    BY <2>1, <2>8 DEF QueueSpurious
  <2>9. CASE UNCHANGED vars
    BY <2>1, <2>9 DEF vars
  <2>. QED
    BY <2>2, <2>3, <2>4, <2>5, <2>6, <2>7, <2>8, <2>9 DEF Next, WorkerStep, Terminated
<1>. QED
  BY <1>1, <1>2, PoolInvariance, PTL DEF Spec, KeepsLockContract, L!Spec
=============================================================================
