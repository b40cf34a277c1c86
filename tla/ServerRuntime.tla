---------------------------- MODULE ServerRuntime ----------------------------
(***************************************************************************)
(* SERVER-RUNTIME/src/db_server_runtime.c over SERVER-HTTP/src/            *)
(* http_server.c: the accept loop of the main thread, the stop signal that *)
(* interrupts it, and the life of each connection from the backlog to the  *)
(* one close of its descriptor.  The pool appears as what ThreadPool shows *)
(* of it (a bounded FIFO, workers that loop over it, the two shutdowns),   *)
(* the lock as LockManager under serial_all.  Requests and SQL are data:   *)
(* which way a handler takes is a choice, its responses are one value.     *)
(***************************************************************************)
EXTENDS Naturals, Sequences, FiniteSets

CONSTANTS Clients, Workers,
          Capacity,    \* of the job queue
          Nobody       \* no client

ASSUME ServerRuntimeAssumption ==
  /\ IsFiniteSet(Clients) /\ IsFiniteSet(Workers) /\ Workers # {}
  /\ Capacity \in Nat \ {0}
  /\ Nobody \notin Clients

VARIABLES
  phase,            \* where the main thread is
  stop_requested,
  listener,         \* listener_fd: "none" before it exists, then "open", "closed"
  signals,          \* g_signal_runtime is set and the handlers are installed
  mode,             \* the shutdown mode, once one was chosen
  hand,             \* the client between accept and submit
  queue, qclosed,   \* the pool's queue; the pool no longer takes jobs
  stage, serving,   \* per worker: what it does, and for whom
  conn,             \* per client: the connection as the client sees it
  talk,             \* per client: what it has done on the connection
  reply,            \* per client: the answer it was given
  ctx,              \* per client: its DbServerClientJob
  closes            \* per client: how often its descriptor was closed

mainVars    == <<phase, stop_requested, listener, signals, mode, hand>>
poolVars    == <<queue, qclosed, stage, serving>>
clientVars  == <<conn, talk, reply, ctx, closes>>
runtimeVars == <<mainVars, poolVars, clientVars>>

Phases == {"boot", "check", "accept", "submit", "refused", "cancel", "join",
           "stopped"}
Stages == {"idle", "read", "lock", "execute", "close", "finish", "exited"}

\* "sent" stands for every response, of the HTTP layer (200, the 4xx, the 500)
\* and of the runtime (503 server_busy, 503 server_stopping, 500); "lost" is one
\* that could not be built or not be sent whole.  A client whose job was
\* cancelled is told nothing.
Replies == {"none", "sent", "lost", "cancelled"}

Init ==
  /\ phase = "boot" /\ stop_requested = FALSE
  /\ listener = "none" /\ signals = FALSE /\ mode = "none"
  /\ hand = Nobody
  /\ queue = <<>> /\ qclosed = FALSE
  /\ stage = [w \in Workers |-> "idle"]
  /\ serving = [w \in Workers |-> Nobody]
  /\ conn = [c \in Clients |-> "away"]
  /\ talk = [c \in Clients |-> "silent"]
  /\ reply = [c \in Clients |-> "none"]
  /\ ctx = [c \in Clients |-> "none"]
  /\ closes = [c \in Clients |-> 0]
-----------------------------------------------------------------------------
(* Clients: they connect, send a request, or hang up.                      *)

Connect(c) ==
  /\ listener = "open" /\ conn[c] = "away"
  /\ conn' = [conn EXCEPT ![c] = "backlog"]
  /\ UNCHANGED <<mainVars, poolVars, talk, reply, ctx, closes>>

\* What a client does is seen only by the recv of the worker that serves it.
Talk(c) ==
  /\ talk[c] = "silent"
  /\ \E w \in Workers : serving[w] = c /\ stage[w] = "read"
  /\ \E t \in {"sent", "gone"} : talk' = [talk EXCEPT ![c] = t]
  /\ UNCHANGED <<mainVars, poolVars, conn, reply, ctx, closes>>

\* close(listener_fd): connections nobody accepted are reset by the kernel.
CloseListener ==
  /\ listener' = "closed"
  /\ conn' = [c \in Clients |-> IF conn[c] = "backlog" THEN "reset" ELSE conn[c]]
-----------------------------------------------------------------------------
(* The main thread.                                                        *)

\* A shutdown that leaves the queue open; the body of a mutant.
BeginShutdown_LeavesQueueOpen(m) ==
  /\ stop_requested' = TRUE
  /\ CloseListener
  /\ mode' = m
  /\ qclosed' = qclosed
  /\ phase' = IF m = "cancel_pending" THEN "cancel" ELSE "join"

\* shutdown_runtime up to the pool's first step: no more jobs are taken.
BeginShutdown(m) ==
  /\ stop_requested' = TRUE
  /\ CloseListener
  /\ mode' = m
  /\ qclosed' = TRUE
  /\ phase' = IF m = "cancel_pending" THEN "cancel" ELSE "join"

\* db_server_runtime_start, when all of it succeeds.
Start ==
  /\ phase = "boot"
  /\ listener = "open"
  /\ signals' = TRUE
  /\ phase' = "check"
  /\ UNCHANGED <<stop_requested, listener, mode, hand, poolVars, clientVars>>

\* The pool runs and the socket listens; clients may connect already.
Listen ==
  /\ phase = "boot" /\ listener = "none"
  /\ listener' = "open"
  /\ UNCHANGED <<phase, stop_requested, signals, mode, hand, poolVars, clientVars>>

\* No socket, or no signal handlers: what was started is shut down again.
StartFails ==
  /\ phase = "boot"
  /\ BeginShutdown("cancel_pending")
  /\ UNCHANGED <<signals, hand, queue, stage, serving, talk, reply, ctx, closes>>

\* signal_stop_handler, on the main thread.  In accept it either interrupts
\* the call (EINTR) or comes just before it.
Signal ==
  /\ signals
  /\ stop_requested' = TRUE
  /\ IF listener = "open" THEN CloseListener ELSE UNCHANGED <<listener, conn>>
  /\ phase' \in {phase} \cup (IF phase = "accept" THEN {"check"} ELSE {})
  /\ UNCHANGED <<signals, mode, hand, poolVars, talk, reply, ctx, closes>>

CheckStop ==
  /\ phase = "check"
  /\ IF stop_requested
     THEN BeginShutdown("drain")
     ELSE /\ phase' = "accept"
          /\ UNCHANGED <<stop_requested, listener, mode, qclosed, conn>>
  /\ UNCHANGED <<signals, hand, queue, stage, serving, talk, reply, ctx, closes>>

Accept(c) ==
  /\ phase = "accept" /\ listener = "open" /\ conn[c] = "backlog"
  /\ conn' = [conn EXCEPT ![c] = "open"]
  /\ hand' = c
  /\ phase' = "submit"
  /\ UNCHANGED <<stop_requested, listener, signals, mode, poolVars,
                 talk, reply, ctx, closes>>

\* accept on the descriptor the handler closed: EBADF ends the loop.
AcceptBadFd ==
  /\ phase = "accept" /\ listener = "closed"
  /\ BeginShutdown("drain")
  /\ UNCHANGED <<signals, hand, queue, stage, serving, talk, reply, ctx, closes>>

\* Any other error of accept ends the server, and the pending jobs with it.
AcceptFails ==
  /\ phase = "accept" /\ listener = "open"
  /\ BeginShutdown("cancel_pending")
  /\ UNCHANGED <<signals, hand, queue, stage, serving, talk, reply, ctx, closes>>

CloseFd(c) ==
  /\ closes' = [closes EXCEPT ![c] = @ + 1]
  /\ conn' = [conn EXCEPT ![c] = "closed"]

\* accept_client, the job taken by the queue.
Submit ==
  /\ phase = "submit"
  /\ ~qclosed /\ Len(queue) < Capacity
  /\ queue' = Append(queue, hand)
  /\ ctx' = [ctx EXCEPT ![hand] = "fd"]
  /\ hand' = Nobody
  /\ phase' = "check"
  /\ UNCHANGED <<stop_requested, listener, signals, mode, qclosed, stage, serving,
                 conn, talk, reply, closes>>

\* write_error_and_close_client and the http_write functions: an answer that
\* cannot be built, for want of memory, or sent is given up, and the client is
\* closed as if it had been told.
Answer(c) == \E r \in {"sent", "lost"} : reply' = [reply EXCEPT ![c] = r]

\* accept_client, the job refused: reject_client_with_status tells the client
\* and closes it, while the context still holds the descriptor.
TurnAway ==
  /\ phase = "submit"
  /\ qclosed \/ Len(queue) = Capacity       \* server_stopping, server_busy
  /\ Answer(hand)
  /\ CloseFd(hand)
  /\ ctx' = [ctx EXCEPT ![hand] = "fd"]
  /\ phase' = "refused"
  /\ UNCHANGED <<stop_requested, listener, signals, mode, hand, poolVars, talk>>

\* cleanup_client_job: what the context still holds is closed, and it is freed.
cleanup_client_job(c) ==
  /\ IF ctx[c] = "fd" THEN CloseFd(c) ELSE UNCHANGED <<conn, closes>>
  /\ ctx' = [ctx EXCEPT ![c] = "freed"]

\* The context keeps the descriptor, and its cleanup closes it again.
FinishRefused_LeavesFd ==
  /\ phase = "refused"
  /\ cleanup_client_job(hand)
  /\ hand' = Nobody
  /\ phase' = "check"
  /\ UNCHANGED <<stop_requested, listener, signals, mode, poolVars, talk, reply>>

\* accept_client then takes the descriptor out of the context and finishes the
\* job as rejected: cleanup_client_job finds nothing to close.
FinishRefused ==
  /\ phase = "refused"
  /\ ctx' = [ctx EXCEPT ![hand] = "freed"]
  /\ hand' = Nobody
  /\ phase' = "check"
  /\ UNCHANGED <<stop_requested, listener, signals, mode, poolVars, conn, talk, reply, closes>>

\* No return after the error: the closed client is submitted all the same.
NoContext_GoesOn ==
  /\ phase = "submit"
  /\ Answer(hand)
  /\ CloseFd(hand)
  /\ queue' = IF qclosed \/ Len(queue) = Capacity THEN queue ELSE Append(queue, hand)
  /\ hand' = Nobody
  /\ phase' = "check"
  /\ UNCHANGED <<stop_requested, listener, signals, mode, qclosed, stage, serving, talk, ctx>>

\* accept_client without memory for a context.
NoContext ==
  /\ phase = "submit"
  /\ Answer(hand)
  /\ CloseFd(hand)
  /\ hand' = Nobody
  /\ phase' = "check"
  /\ UNCHANGED <<stop_requested, listener, signals, mode, poolVars, talk, ctx>>

\* cancel_pending finishes a job unrun: the client is closed, and not told.
CancelOne ==
  /\ phase = "cancel" /\ queue # <<>>
  /\ cleanup_client_job(Head(queue))
  /\ reply' = [reply EXCEPT ![Head(queue)] = "cancelled"]
  /\ queue' = Tail(queue)
  /\ UNCHANGED <<mainVars, qclosed, stage, serving, talk>>

CancelDone ==
  /\ phase = "cancel" /\ queue = <<>>
  /\ phase' = "join"
  /\ UNCHANGED <<stop_requested, listener, signals, mode, hand, poolVars, clientVars>>

\* The workers are joined, the pool destroyed, the engine reset.
Join ==
  /\ phase = "join"
  /\ \A w \in Workers : stage[w] = "exited"
  /\ phase' = "stopped"
  /\ signals' = FALSE
  /\ UNCHANGED <<stop_requested, listener, mode, hand, poolVars, clientVars>>
-----------------------------------------------------------------------------
(* The workers: worker_main around run_client_job.                         *)

MoveTo(w, s) == stage' = [stage EXCEPT ![w] = s]

\* A job is popped; run_client_job takes the descriptor out of the context.
Take(w) ==
  /\ stage[w] = "idle" /\ queue # <<>>
  /\ serving' = [serving EXCEPT ![w] = Head(queue)]
  /\ ctx' = [ctx EXCEPT ![Head(queue)] = "taken"]
  /\ queue' = Tail(queue)
  /\ MoveTo(w, "read")
  /\ UNCHANGED <<mainVars, qclosed, conn, talk, reply, closes>>

\* The receive loop ends with an answer: too large, malformed, unreadable,
\* incomplete, or a request that is routed without running a query.
AnswerAtOnce(w) ==
  /\ stage[w] = "read" /\ talk[serving[w]] # "silent"
  /\ Answer(serving[w])
  /\ MoveTo(w, "close")
  /\ UNCHANGED <<mainVars, queue, qclosed, serving, conn, talk, ctx, closes>>

\* The client hung up before it sent a byte: nothing is answered.
ClientGone(w) ==
  /\ stage[w] = "read" /\ talk[serving[w]] = "gone"
  /\ MoveTo(w, "close")
  /\ UNCHANGED <<mainVars, queue, qclosed, serving, clientVars>>

\* POST /query with a statement: execute_query is called.
StartQuery(w) ==
  /\ stage[w] = "read" /\ talk[serving[w]] = "sent"
  /\ MoveTo(w, "lock")
  /\ UNCHANGED <<mainVars, queue, qclosed, serving, clientVars>>

\* Under serial_all every statement, SELECT too, takes the lock alone.
AcquireLock(w) ==
  /\ stage[w] = "lock"
  /\ \A v \in Workers : stage[v] # "execute"
  /\ MoveTo(w, "execute")
  /\ UNCHANGED <<mainVars, queue, qclosed, serving, clientVars>>

\* A query whose failure is dropped instead of answered.
Execute_DropsFailure(w) ==
  /\ stage[w] = "execute"
  /\ Answer(serving[w]) \/ UNCHANGED reply
  /\ MoveTo(w, "close")
  /\ UNCHANGED <<mainVars, queue, qclosed, serving, conn, talk, ctx, closes>>

\* server_core_execute, release, and the answer: 200, 400 when the engine
\* said no, 500 when the call around it failed.
Execute(w) ==
  /\ stage[w] = "execute"
  /\ Answer(serving[w])
  /\ MoveTo(w, "close")
  /\ UNCHANGED <<mainVars, queue, qclosed, serving, conn, talk, ctx, closes>>

\* http_close_client, on every path out of http_server_handle_client.
CloseClient(w) ==
  /\ stage[w] = "close"
  /\ CloseFd(serving[w])
  /\ MoveTo(w, "finish")
  /\ UNCHANGED <<mainVars, queue, qclosed, serving, talk, reply, ctx>>

\* concurrency_job_finish, after run_client_job has returned.
FinishJob(w) ==
  /\ stage[w] = "finish"
  /\ cleanup_client_job(serving[w])
  /\ serving' = [serving EXCEPT ![w] = Nobody]
  /\ MoveTo(w, "idle")
  /\ UNCHANGED <<mainVars, queue, qclosed, talk, reply>>

\* A worker that leaves with jobs still queued; the body of a mutant.
WorkerExit_Early(w) ==
  /\ stage[w] = "idle" /\ qclosed
  /\ MoveTo(w, "exited")
  /\ UNCHANGED <<mainVars, queue, qclosed, serving, clientVars>>

\* pop says no: the queue is closed and empty.
WorkerExit(w) ==
  /\ stage[w] = "idle" /\ qclosed /\ queue = <<>>
  /\ MoveTo(w, "exited")
  /\ UNCHANGED <<mainVars, queue, qclosed, serving, clientVars>>

\* The server has stopped; nothing more is asked of it.
Stopped == phase = "stopped" /\ UNCHANGED runtimeVars
-----------------------------------------------------------------------------
Main ==
  \/ Start \/ Listen \/ CheckStop
  \/ \E c \in Clients : Accept(c)
  \/ AcceptBadFd
  \/ Submit \/ TurnAway \/ FinishRefused \/ NoContext
  \/ CancelOne \/ CancelDone \/ Join

Mishap == StartFails \/ AcceptFails \/ Signal

Worker(w) ==
  \/ Take(w) \/ AnswerAtOnce(w) \/ ClientGone(w) \/ StartQuery(w)
  \/ AcquireLock(w) \/ Execute(w) \/ CloseClient(w) \/ FinishJob(w) \/ WorkerExit(w)

Client(c) == Connect(c) \/ Talk(c)

Next ==
  \/ Main \/ Mishap
  \/ \E w \in Workers : Worker(w)
  \/ \E c \in Clients : Client(c)
  \/ Stopped

Spec == Init /\ [][Next]_runtimeVars

(***************************************************************************)
(* Threads that can run do run, and a client that has connected says       *)
(* something or hangs up: recv has no timeout, so without that nothing     *)
(* below would hold.  Nor has send, in the workers and in the main thread: *)
(* that a thread which answers comes to its next step assumes that the     *)
(* client reads, hangs up, or leaves room in the socket's buffer.  Nothing *)
(* is assumed of the lock: each client runs one statement, so a worker     *)
(* waits for finitely many others.                                         *)
(***************************************************************************)
FairSpec ==
  /\ Spec
  /\ WF_runtimeVars(Main)
  /\ \A w \in Workers : WF_runtimeVars(Worker(w))
  /\ \A c \in Clients : WF_runtimeVars(Talk(c))
-----------------------------------------------------------------------------
\* Every variable stays in its type.
TypeOK ==
  /\ phase \in Phases /\ stop_requested \in BOOLEAN /\ signals \in BOOLEAN
  /\ listener \in {"none", "open", "closed"}
  /\ mode \in {"none", "drain", "cancel_pending"}
  /\ hand \in Clients \cup {Nobody}
  /\ (phase \in {"submit", "refused"}) = (hand # Nobody)
  /\ queue \in Seq(Clients) /\ Len(queue) <= Capacity /\ qclosed \in BOOLEAN
  /\ stage \in [Workers -> Stages]
  /\ serving \in [Workers -> Clients \cup {Nobody}]
  /\ conn \in [Clients -> {"away", "backlog", "open", "closed", "reset"}]
  /\ talk \in [Clients -> {"silent", "sent", "gone"}]
  /\ reply \in [Clients -> Replies]
  /\ ctx \in [Clients -> {"none", "fd", "taken", "freed"}]
  /\ closes \in [Clients -> Nat]

(***************************************************************************)
(* Through every exit (served, refused, cancelled, no memory) the          *)
(* descriptor of a client is closed once and never twice: a second close   *)
(* would hit whoever was given the number next.  When the server has       *)
(* stopped, no accepted client is left open and no context unfreed.        *)
(***************************************************************************)
FdClosedOnce ==
  /\ \A c \in Clients : closes[c] = IF conn[c] = "closed" THEN 1 ELSE 0
  /\ phase = "stopped" =>
       \A c \in Clients : conn[c] # "open" /\ ctx[c] \in {"none", "freed"}

(***************************************************************************)
(* No path from accept to close forgets the answer: a client the server    *)
(* closed was given one, which may have been lost on the way, unless it    *)
(* hung up without a byte sent; only a job that cancel_pending took from   *)
(* the queue ends without, and a drain cancels nobody.  (A client that was *)
(* never accepted is not closed but reset, and told nothing.)              *)
(***************************************************************************)
NoSilentClose ==
  \A c \in Clients : conn[c] = "closed" =>
    /\ reply[c] = "none" => talk[c] = "gone"
    /\ reply[c] = "cancelled" => mode = "cancel_pending"

(***************************************************************************)
(* A client is answered once, and while its descriptor is open: no thread  *)
(* sends on a number that another thread has closed, which may by then be  *)
(* another client or a data file (send_all, http_send_all).                *)
(***************************************************************************)
AnswersOpenClient ==
  [][\A c \in Clients :
       reply'[c] # reply[c] => reply[c] = "none" /\ conn[c] = "open"]_runtimeVars

\* A client that was accepted is closed in the end: the server forgets nobody.
AcceptedIsClosed ==
  \A c \in Clients : (conn[c] = "open") ~> (conn[c] = "closed")

(***************************************************************************)
(* A stop signal, whenever it comes (before accept, inside it, during a    *)
(* submit), or a failed start or accept, ends the server.                  *)
(***************************************************************************)
StopEndsServer == stop_requested ~> (phase = "stopped")
=============================================================================
