------------------------- MODULE ServerRuntimeProofs -------------------------
(***************************************************************************)
(* Proofs about ServerRuntime, for every finite set of clients and         *)
(* workers and every queue capacity.  A descriptor is closed once because  *)
(* an accepted client has one owner at a time: the main thread, the queue, *)
(* or one worker; ctx and conn say which.  The invariant follows the       *)
(* client from owner to owner.                                             *)
(***************************************************************************)
EXTENDS ServerRuntime, SequenceTheorems, TLAPS

\* TypeOK in its three parts.
MainTyped ==
  /\ phase \in Phases /\ stop_requested \in BOOLEAN /\ signals \in BOOLEAN
  /\ listener \in {"none", "open", "closed"}
  /\ mode \in {"none", "drain", "cancel_pending"}
  /\ hand \in Clients \cup {Nobody}
  /\ phase \in {"submit", "refused"} <=> hand # Nobody

PoolTyped ==
  /\ queue \in Seq(Clients) /\ Len(queue) <= Capacity /\ qclosed \in BOOLEAN
  /\ stage \in [Workers -> Stages]
  /\ serving \in [Workers -> Clients \cup {Nobody}]

ClientTyped ==
  /\ conn \in [Clients -> {"away", "backlog", "open", "closed", "reset"}]
  /\ talk \in [Clients -> {"silent", "sent", "gone"}]
  /\ reply \in [Clients -> Replies]
  /\ ctx \in [Clients -> {"none", "fd", "taken", "freed"}]
  /\ closes \in [Clients -> Nat]

Queued(q)   == {q[i] : i \in 1 .. Len(q)}
Distinct(q) == \A i, j \in 1 .. Len(q) : q[i] = q[j] => i = j

\* The main thread holds a client that has no context yet, or that it has
\* refused and closed and whose context still holds the descriptor.
HandOwns ==
  hand # Nobody =>
    /\ \A w \in Workers : serving[w] # hand
    /\ phase = "submit" => conn[hand] = "open" /\ ctx[hand] = "none" /\ reply[hand] = "none"
    /\ phase = "refused" => conn[hand] = "closed" /\ ctx[hand] = "fd"

\* A queued client is open and unanswered, and its context holds the
\* descriptor; no client is queued twice.
QueueOwns ==
  /\ \A c \in Queued(queue) : conn[c] = "open" /\ ctx[c] = "fd" /\ reply[c] = "none"
  /\ Distinct(queue)

\* A worker serves a client that nobody else serves, and has taken the
\* descriptor out of the context; it is open until http_close_client, and not
\* answered before the handler comes to its close.
WorkerOwns ==
  /\ \A w \in Workers :
       IF serving[w] = Nobody
       THEN stage[w] \in {"idle", "exited"}
       ELSE /\ stage[w] \notin {"idle", "exited"}
            /\ ctx[serving[w]] = "taken"
            /\ conn[serving[w]] = IF stage[w] = "finish" THEN "closed" ELSE "open"
            /\ stage[w] \in {"read", "lock", "execute"} => reply[serving[w]] = "none"
  /\ \A v, w \in Workers : serving[v] = serving[w] /\ serving[w] # Nobody => v = w

\* The other way round: whoever is open, or has a context, has its owner.
Owned ==
  \A c \in Clients :
    /\ conn[c] = "open" => c = hand \/ ctx[c] \in {"fd", "taken"}
    /\ conn[c] \notin {"open", "closed"} => ctx[c] = "none" /\ reply[c] = "none"
    /\ ctx[c] = "fd" => c \in Queued(queue) \/ c = hand
    /\ ctx[c] = "taken" => \E w \in Workers : serving[w] = c

ClosedOnce == \A c \in Clients : closes[c] = IF conn[c] = "closed" THEN 1 ELSE 0

\* Workers leave only a queue that is closed and empty, and the server stops
\* only when all of them have left.
Leaving ==
  /\ \A w \in Workers : stage[w] = "exited" => qclosed /\ queue = <<>>
  /\ phase = "stopped" => \A w \in Workers : stage[w] = "exited"

\* The mode is chosen once, and only cancel_pending cancels.
ModeChosen ==
  /\ mode # "none" => phase \in {"cancel", "join", "stopped"}
  /\ phase = "cancel" => mode = "cancel_pending"

\* A handler reaches its close with an answer tried or the client gone; only
\* cancel_pending cancels.
Answered ==
  /\ \A w \in Workers :
       stage[w] \in {"close", "finish"} =>
         reply[serving[w]] # "none" \/ talk[serving[w]] = "gone"
  /\ \A c \in Clients : reply[c] = "cancelled" => mode = "cancel_pending"
  /\ NoSilentClose

Typed     == MainTyped /\ PoolTyped /\ ClientTyped
Ownership == HandOwns /\ QueueOwns /\ WorkerOwns /\ Owned
Conduct   == ClosedOnce /\ Leaving /\ ModeChosen /\ Answered

RuntimeInv == Typed /\ Ownership /\ Conduct
-----------------------------------------------------------------------------
\* A client that is appended joins the queued ones, and stays distinct if it
\* was not queued before.
LEMMA PutQueue ==
  ASSUME NEW q \in Seq(Clients), NEW c \in Clients
  PROVE  /\ Append(q, c) \in Seq(Clients) /\ Len(Append(q, c)) = Len(q) + 1
         /\ Queued(Append(q, c)) = Queued(q) \cup {c}
         /\ Distinct(q) /\ c \notin Queued(q) => Distinct(Append(q, c))
<1>1. /\ Append(q, c) \in Seq(Clients) /\ Len(Append(q, c)) = Len(q) + 1
      /\ \A i \in 1 .. Len(q) : Append(q, c)[i] = q[i]
      /\ Append(q, c)[Len(q) + 1] = c
      /\ Len(q) \in Nat
  OBVIOUS
<1>2. \A i \in 1 .. Len(q) + 1 : i \in 1 .. Len(q) \/ i = Len(q) + 1
  BY <1>1
<1>3. Queued(Append(q, c)) = Queued(q) \cup {c}
  BY <1>1, <1>2 DEF Queued
<1>4. ASSUME Distinct(q), c \notin Queued(q) PROVE Distinct(Append(q, c))
  BY <1>1, <1>2, <1>4 DEF Queued, Distinct
<1>. QED
  BY <1>1, <1>3, <1>4

\* The client at the head leaves the queue; of distinct clients none stays
\* behind under its name.
LEMMA TakeQueue ==
  ASSUME NEW q \in Seq(Clients), q # <<>>, Distinct(q)
  PROVE  /\ Head(q) \in Clients /\ Head(q) \in Queued(q)
         /\ Tail(q) \in Seq(Clients) /\ Len(Tail(q)) = Len(q) - 1
         /\ Queued(Tail(q)) = Queued(q) \ {Head(q)}
         /\ Distinct(Tail(q))
<1>1. /\ Len(q) \in Nat /\ Len(q) >= 1 /\ Head(q) = q[1] /\ Head(q) \in Clients
      /\ Tail(q) \in Seq(Clients) /\ Len(Tail(q)) = Len(q) - 1
  OBVIOUS
<1>2. \A i \in 1 .. Len(q) - 1 : Tail(q)[i] = q[i + 1] /\ i + 1 \in 1 .. Len(q) /\ i + 1 # 1
  BY <1>1
<1>3. \A i \in 1 .. Len(q) : i = 1 \/ (i - 1 \in 1 .. Len(q) - 1 /\ (i - 1) + 1 = i)
  BY <1>1
<1>4. 1 \in 1 .. Len(q)
  BY <1>1
<1>5. Queued(Tail(q)) = Queued(q) \ {Head(q)}
  <2>1. ASSUME NEW x \in Queued(Tail(q)) PROVE x \in Queued(q) \ {Head(q)}
    BY <1>1, <1>2, <1>4, <2>1 DEF Queued, Distinct
  <2>2. ASSUME NEW x \in Queued(q), x # Head(q) PROVE x \in Queued(Tail(q))
    <3>1. PICK i \in 1 .. Len(q) : x = q[i]
      BY <2>2 DEF Queued
    <3>2. i - 1 \in 1 .. Len(q) - 1 /\ (i - 1) + 1 = i
      BY <1>1, <1>3, <2>2, <3>1
    <3>3. Tail(q)[i - 1] = x
      BY <1>2, <3>1, <3>2
    <3>. QED
      BY <1>1, <3>2, <3>3 DEF Queued
  <2>. QED
    BY <2>1, <2>2
<1>6. Distinct(Tail(q))
  BY <1>1, <1>2 DEF Distinct
<1>. QED
  BY <1>1, <1>4, <1>5, <1>6 DEF Queued

\* Whoever is queued is a client.
LEMMA QueuedClients == ASSUME NEW q \in Seq(Clients) PROVE Queued(q) \subseteq Clients
BY DEF Queued

\* Nobody waits in an empty queue.
LEMMA EmptyQueue == Queued(<<>>) = {} /\ Distinct(<<>>)
BY DEF Queued, Distinct

\* The server starts with every client away and every worker idle.
LEMMA InitInv == Init => RuntimeInv
<1> SUFFICES ASSUME Init PROVE RuntimeInv
  OBVIOUS
<1>1. MainTyped
  BY DEF Init, MainTyped, Phases
<1>2. PoolTyped
  <2>1. queue \in Seq(Clients) /\ Len(queue) = 0 /\ 0 <= Capacity
    BY ServerRuntimeAssumption DEF Init
  <2>. QED
    BY <2>1 DEF Init, PoolTyped, Stages
<1>3. ClientTyped
  BY DEF Init, ClientTyped, Replies
<1>4. Ownership
  BY EmptyQueue DEF Init, Ownership, HandOwns, QueueOwns, WorkerOwns, Owned
<1>5. Conduct
  BY DEF Init, Conduct, ClosedOnce, Leaving, ModeChosen, Answered, NoSilentClose
<1>. QED
  BY <1>1, <1>2, <1>3, <1>4, <1>5 DEF RuntimeInv, Typed

\* A client joins the backlog.
LEMMA ConnectKeeps ==
  ASSUME RuntimeInv, NEW c \in Clients, Connect(c)
  PROVE  RuntimeInv'
<1>. USE DEF RuntimeInv, Typed, Ownership, Conduct
<1>1. Typed'
  BY DEF Connect, mainVars, poolVars, MainTyped, PoolTyped, ClientTyped
<1>2. Ownership'
  BY DEF Connect, mainVars, poolVars, HandOwns, QueueOwns, WorkerOwns, Owned
<1>3. Conduct'
  BY DEF Connect, mainVars, poolVars, ClosedOnce, Leaving, ModeChosen, Answered, NoSilentClose
<1>. QED
  BY <1>1, <1>2, <1>3

\* A client sends its request or hangs up.
LEMMA TalkKeeps ==
  ASSUME RuntimeInv, NEW c \in Clients, Talk(c)
  PROVE  RuntimeInv'
<1>. USE DEF RuntimeInv, Typed, Ownership, Conduct
<1>1. Typed'
  BY DEF Talk, mainVars, poolVars, MainTyped, PoolTyped, ClientTyped
<1>2. Ownership'
  BY DEF Talk, mainVars, poolVars, HandOwns, QueueOwns, WorkerOwns, Owned
<1>3. Conduct'
  BY DEF Talk, mainVars, poolVars, ClosedOnce, Leaving, ModeChosen, Answered, NoSilentClose
<1>. QED
  BY <1>1, <1>2, <1>3

\* The server starts to listen, and its main loop.
LEMMA StartKeeps ==
  ASSUME RuntimeInv, Start \/ Listen
  PROVE  RuntimeInv'
<1>. USE DEF RuntimeInv, Typed, Ownership, Conduct
<1>1. Typed'
  BY DEF Start, Listen, poolVars, clientVars, MainTyped, PoolTyped, ClientTyped, Phases
<1>2. Ownership'
  BY DEF Start, Listen, poolVars, clientVars, HandOwns, QueueOwns, WorkerOwns, Owned
<1>3. Conduct'
  BY DEF Start, Listen, poolVars, clientVars, ClosedOnce, Leaving, ModeChosen, Answered,
         NoSilentClose
<1>. QED
  BY <1>1, <1>2, <1>3

\* shutdown_runtime up to the close of the queue, wherever it is called from:
\* only connections nobody accepted are reset, so no owned client is touched.
LEMMA ShutdownKeeps ==
  ASSUME RuntimeInv, NEW m \in {"drain", "cancel_pending"},
         phase \in {"boot", "check", "accept"}, BeginShutdown(m),
         UNCHANGED <<signals, hand, queue, stage, serving, talk, reply, ctx, closes>>
  PROVE  RuntimeInv'
<1>. USE DEF RuntimeInv, Typed, Ownership, Conduct
<1>1. Typed'
  BY DEF BeginShutdown, CloseListener, MainTyped, PoolTyped, ClientTyped, Phases
<1>2. Ownership'
  BY QueuedClients
     DEF BeginShutdown, CloseListener, MainTyped, PoolTyped, HandOwns, QueueOwns, WorkerOwns,
         Owned
<1>3. Conduct'
  BY DEF BeginShutdown, CloseListener, ClosedOnce, Leaving, ModeChosen, Answered, NoSilentClose
<1>. QED
  BY <1>1, <1>2, <1>3

\* signal_stop_handler, in the middle of whatever the main thread does.
LEMMA SignalKeeps ==
  ASSUME RuntimeInv, Signal
  PROVE  RuntimeInv'
<1>. USE DEF RuntimeInv, Typed, Ownership, Conduct
<1>1. Typed'
  BY DEF Signal, CloseListener, poolVars, MainTyped, PoolTyped, ClientTyped, Phases
<1>2. Ownership'
  BY QueuedClients
     DEF Signal, CloseListener, poolVars, MainTyped, PoolTyped, HandOwns, QueueOwns, WorkerOwns,
         Owned
<1>3. Conduct'
  BY DEF Signal, CloseListener, poolVars, ClosedOnce, Leaving, ModeChosen, Answered,
         NoSilentClose
<1>. QED
  BY <1>1, <1>2, <1>3

\* The main loop found no stop request.
LEMMA EnterAcceptKeeps ==
  ASSUME RuntimeInv, phase = "check", phase' = "accept",
         UNCHANGED <<stop_requested, signals, listener, mode, hand, poolVars, clientVars>>
  PROVE  RuntimeInv'
<1>. USE DEF RuntimeInv, Typed, Ownership, Conduct
<1>1. Typed'
  BY DEF poolVars, clientVars, MainTyped, PoolTyped, ClientTyped, Phases
<1>2. Ownership'
  BY DEF poolVars, clientVars, HandOwns, QueueOwns, WorkerOwns, Owned
<1>3. Conduct'
  BY DEF poolVars, clientVars, ClosedOnce, Leaving, ModeChosen, Answered, NoSilentClose
<1>. QED
  BY <1>1, <1>2, <1>3

\* The kernel hands a client over: it is open and in the main thread's hand.
LEMMA AcceptKeeps ==
  ASSUME RuntimeInv, NEW c \in Clients, Accept(c)
  PROVE  RuntimeInv'
<1>. USE DEF RuntimeInv, Typed, Ownership, Conduct
<1>1. Typed'
  BY ServerRuntimeAssumption DEF Accept, poolVars, MainTyped, PoolTyped, ClientTyped, Phases
<1>2. Ownership'
  BY ServerRuntimeAssumption
     DEF Accept, poolVars, MainTyped, ClientTyped, HandOwns, QueueOwns, WorkerOwns, Owned
<1>3. Conduct'
  BY DEF Accept, poolVars, ClosedOnce, Leaving, ModeChosen, Answered, NoSilentClose
<1>. QED
  BY <1>1, <1>2, <1>3

\* The client in hand goes to the tail of the queue, into a context of its own.
LEMMA SubmitKeeps ==
  ASSUME RuntimeInv, Submit
  PROVE  RuntimeInv'
<1>. USE DEF RuntimeInv, Typed, Ownership, Conduct
<1>1. Typed'
  BY ServerRuntimeAssumption DEF Submit, MainTyped, PoolTyped, ClientTyped, Phases
<1>2. Ownership'
  BY PutQueue
     DEF Submit, MainTyped, PoolTyped, ClientTyped, HandOwns, QueueOwns, WorkerOwns, Owned
<1>3. Conduct'
  BY DEF Submit, ClosedOnce, Leaving, ModeChosen, Answered, NoSilentClose
<1>. QED
  BY <1>1, <1>2, <1>3

\* The client in hand is answered, or not, and closed by the main thread.
LEMMA TurnAwayKeeps ==
  ASSUME RuntimeInv, TurnAway
  PROVE  RuntimeInv'
<1>. USE DEF RuntimeInv, Typed, Ownership, Conduct
<1>1. Typed'
  BY DEF TurnAway, Answer, CloseFd, poolVars, MainTyped, PoolTyped, ClientTyped, Phases, Replies
<1>2. Ownership'
  BY ServerRuntimeAssumption
     DEF TurnAway, Answer, CloseFd, poolVars, MainTyped, ClientTyped, HandOwns, QueueOwns,
         WorkerOwns, Owned
<1>3. Conduct'
  BY ServerRuntimeAssumption
     DEF TurnAway, Answer, CloseFd, poolVars, MainTyped, ClientTyped, HandOwns, ClosedOnce,
         Leaving, ModeChosen, Answered, NoSilentClose
<1>. QED
  BY <1>1, <1>2, <1>3

\* Its context gives up the descriptor and is freed.
LEMMA FinishRefusedKeeps ==
  ASSUME RuntimeInv, FinishRefused
  PROVE  RuntimeInv'
<1>. USE DEF RuntimeInv, Typed, Ownership, Conduct
<1>1. Typed'
  BY DEF FinishRefused, poolVars, MainTyped, PoolTyped, ClientTyped, Phases
<1>2. Ownership'
  BY ServerRuntimeAssumption, QueuedClients
     DEF FinishRefused, poolVars, MainTyped, ClientTyped, HandOwns, QueueOwns, WorkerOwns, Owned
<1>3. Conduct'
  BY DEF FinishRefused, poolVars, ClosedOnce, Leaving, ModeChosen, Answered, NoSilentClose
<1>. QED
  BY <1>1, <1>2, <1>3

\* So is one for which there is no memory.
LEMMA NoContextKeeps ==
  ASSUME RuntimeInv, NoContext
  PROVE  RuntimeInv'
<1>. USE DEF RuntimeInv, Typed, Ownership, Conduct
<1>1. Typed'
  BY DEF NoContext, Answer, CloseFd, poolVars, MainTyped, PoolTyped, ClientTyped, Phases, Replies
<1>2. Ownership'
  BY ServerRuntimeAssumption
     DEF NoContext, Answer, CloseFd, poolVars, ClientTyped, HandOwns, QueueOwns, WorkerOwns, Owned
<1>3. Conduct'
  BY ServerRuntimeAssumption
     DEF NoContext, Answer, CloseFd, poolVars, ClientTyped, HandOwns, ClosedOnce, Leaving, ModeChosen,
         Answered, NoSilentClose
<1>. QED
  BY <1>1, <1>2, <1>3

\* cancel_pending closes the client at the head, whose context no worker saw.
LEMMA CancelOneKeeps ==
  ASSUME RuntimeInv, CancelOne
  PROVE  RuntimeInv'
<1>. USE DEF RuntimeInv, Typed, Ownership, Conduct
<1>. DEFINE c == Head(queue)
<1>1. /\ c \in Clients /\ c \in Queued(queue)
      /\ Tail(queue) \in Seq(Clients) /\ Len(Tail(queue)) = Len(queue) - 1
      /\ Queued(Tail(queue)) = Queued(queue) \ {c} /\ Distinct(Tail(queue))
  BY TakeQueue DEF CancelOne, PoolTyped, QueueOwns
<1>2. conn[c] = "open" /\ ctx[c] = "fd" /\ reply[c] = "none"
  BY <1>1 DEF QueueOwns
<1>3. /\ conn' = [conn EXCEPT ![c] = "closed"] /\ closes' = [closes EXCEPT ![c] = @ + 1]
      /\ ctx' = [ctx EXCEPT ![c] = "freed"] /\ reply' = [reply EXCEPT ![c] = "cancelled"]
      /\ queue' = Tail(queue) /\ phase = "cancel"
      /\ UNCHANGED <<mainVars, qclosed, stage, serving, talk>>
  BY <1>2 DEF CancelOne, cleanup_client_job, CloseFd
<1>. HIDE DEF c
<1>4. Typed'
  <2>1. Len(queue) \in Nat /\ Len(queue) - 1 <= Capacity
    BY ServerRuntimeAssumption DEF PoolTyped
  <2>2. PoolTyped'
    BY <1>1, <1>3, <2>1 DEF PoolTyped
  <2>3. ClientTyped'
    BY <1>1, <1>3 DEF ClientTyped, Replies
  <2>. QED
    BY <1>3, <2>2, <2>3 DEF mainVars, MainTyped
<1>5. Ownership'
  BY <1>1, <1>2, <1>3
     DEF mainVars, PoolTyped, ClientTyped, HandOwns, QueueOwns, WorkerOwns, Owned
<1>6. ClosedOnce'
  BY <1>1, <1>2, <1>3 DEF ClientTyped, ClosedOnce
<1>7. Leaving' /\ ModeChosen'
  BY <1>1, <1>3, EmptyQueue DEF mainVars, Leaving, ModeChosen
<1>8. Answered'
  BY <1>1, <1>2, <1>3
     DEF mainVars, PoolTyped, ClientTyped, WorkerOwns, ModeChosen, Answered, NoSilentClose
<1>. QED
  BY <1>4, <1>5, <1>6, <1>7, <1>8

\* The end of cancel_pending, and the join of the workers.
LEMMA EndsKeep ==
  ASSUME RuntimeInv, CancelDone \/ Join
  PROVE  RuntimeInv'
<1>. USE DEF RuntimeInv, Typed, Ownership, Conduct
<1>1. Typed'
  BY DEF CancelDone, Join, poolVars, clientVars, MainTyped, PoolTyped, ClientTyped, Phases
<1>2. Ownership'
  BY DEF CancelDone, Join, poolVars, clientVars, HandOwns, QueueOwns, WorkerOwns, Owned
<1>3. Conduct'
  BY DEF CancelDone, Join, poolVars, clientVars, ClosedOnce, Leaving, ModeChosen, Answered,
         NoSilentClose
<1>. QED
  BY <1>1, <1>2, <1>3

\* A worker takes the client at the head, and the descriptor from its context.
LEMMA TakeKeeps ==
  ASSUME RuntimeInv, NEW w \in Workers, Take(w)
  PROVE  RuntimeInv'
<1>. USE DEF RuntimeInv, Typed, Ownership, Conduct
<1>1. Typed'
  BY ServerRuntimeAssumption
     DEF Take, MoveTo, mainVars, MainTyped, PoolTyped, ClientTyped, Stages
<1>. DEFINE c == Head(queue)
<1>2. /\ c \in Clients /\ c \in Queued(queue)
      /\ Queued(Tail(queue)) = Queued(queue) \ {c} /\ Distinct(Tail(queue))
  BY TakeQueue DEF Take, PoolTyped, QueueOwns
<1>3. /\ conn[c] = "open" /\ ctx[c] = "fd" /\ reply[c] = "none" /\ c # hand
      /\ \A v \in Workers : serving[v] # c
  BY <1>2, ServerRuntimeAssumption DEF MainTyped, HandOwns, QueueOwns, WorkerOwns
<1>4. /\ serving[w] = Nobody /\ stage' = [stage EXCEPT ![w] = "read"]
      /\ serving' = [serving EXCEPT ![w] = c] /\ ctx' = [ctx EXCEPT ![c] = "taken"]
      /\ queue' = Tail(queue) /\ UNCHANGED <<mainVars, qclosed, conn, talk, reply, closes>>
  BY DEF Take, MoveTo, WorkerOwns
<1>. HIDE DEF c
<1>5. HandOwns' /\ QueueOwns'
  BY <1>2, <1>3, <1>4 DEF mainVars, PoolTyped, ClientTyped, HandOwns, QueueOwns
<1>6. WorkerOwns'
  BY <1>2, <1>3, <1>4, ServerRuntimeAssumption DEF PoolTyped, ClientTyped, WorkerOwns
<1>7. Owned'
  <2>1. serving'[w] = c /\ \A v \in Workers : v # w => serving'[v] = serving[v]
    BY <1>4 DEF PoolTyped
  <2>2. ASSUME NEW d \in Clients, ctx'[d] = "taken"
        PROVE  \E v \in Workers : serving'[v] = d
    <3>1. CASE d = c
      BY <2>1, <3>1
    <3>2. CASE d # c
      <4>1. ctx[d] = "taken"
        BY <1>4, <2>2, <3>2 DEF ClientTyped
      <4>2. PICK v \in Workers : serving[v] = d
        BY <4>1 DEF Owned
      <4>. QED
        BY <1>4, <2>1, <4>2, ServerRuntimeAssumption
    <3>. QED
      BY <3>1, <3>2
  <2>3. ASSUME NEW d \in Clients
        PROVE  /\ conn'[d] = "open" => d = hand' \/ ctx'[d] \in {"fd", "taken"}
               /\ conn'[d] \notin {"open", "closed"} => ctx'[d] = "none" /\ reply'[d] = "none"
               /\ ctx'[d] = "fd" => d \in Queued(queue)' \/ d = hand'
    BY <1>2, <1>3, <1>4 DEF mainVars, ClientTyped, Owned
  <2>. QED
    BY <2>2, <2>3 DEF Owned
<1>8. Conduct'
  BY DEF Take, MoveTo, mainVars, WorkerOwns, ClosedOnce, Leaving, ModeChosen, Answered,
         NoSilentClose
<1>. QED
  BY <1>1, <1>5, <1>6, <1>7, <1>8

\* A worker answers its client.
LEMMA AnswerKeeps ==
  ASSUME RuntimeInv, NEW w \in Workers, stage[w] \in {"read", "execute"},
         Answer(serving[w]), MoveTo(w, "close"),
         UNCHANGED <<mainVars, queue, qclosed, serving, conn, talk, ctx, closes>>
  PROVE  RuntimeInv'
<1>. USE DEF RuntimeInv, Typed, Ownership, Conduct
<1>. DEFINE c == serving[w]
<1>1. c \in Clients /\ conn[c] = "open" /\ ctx[c] = "taken" /\ c # hand /\ c \notin Queued(queue)
  BY DEF PoolTyped, HandOwns, QueueOwns, WorkerOwns
<1>2. PICK r \in {"sent", "lost"} : reply' = [reply EXCEPT ![c] = r]
  BY DEF Answer
<1>3. Typed'
  BY <1>1, <1>2 DEF MoveTo, mainVars, MainTyped, PoolTyped, ClientTyped, Stages, Replies
<1>4. HandOwns' /\ QueueOwns' /\ Owned'
  BY <1>1, <1>2, QueuedClients
     DEF mainVars, MainTyped, PoolTyped, ClientTyped, HandOwns, QueueOwns, Owned
<1>5. WorkerOwns'
  BY <1>1, <1>2 DEF MoveTo, mainVars, PoolTyped, ClientTyped, WorkerOwns
<1>6. Conduct'
  BY <1>1, <1>2
     DEF MoveTo, mainVars, ClientTyped, ClosedOnce, Leaving, ModeChosen, Answered, NoSilentClose
<1>. QED
  BY <1>3, <1>4, <1>5, <1>6

\* The client hung up, and is not answered.
LEMMA ClientGoneKeeps ==
  ASSUME RuntimeInv, NEW w \in Workers, ClientGone(w)
  PROVE  RuntimeInv'
<1>. USE DEF RuntimeInv, Typed, Ownership, Conduct
<1>0. serving[w] \in Clients
  BY DEF ClientGone, WorkerOwns, PoolTyped
<1>1. Typed'
  BY DEF ClientGone, MoveTo, mainVars, clientVars, MainTyped, PoolTyped, ClientTyped, Stages
<1>2. Ownership'
  BY DEF ClientGone, MoveTo, mainVars, clientVars, HandOwns, QueueOwns, WorkerOwns, Owned
<1>3. Conduct'
  BY DEF ClientGone, MoveTo, mainVars, clientVars, ClosedOnce, Leaving, ModeChosen, Answered,
         NoSilentClose
<1>. QED
  BY <1>1, <1>2, <1>3

\* A worker asks for the lock.
LEMMA StartQueryKeeps ==
  ASSUME RuntimeInv, NEW w \in Workers, StartQuery(w)
  PROVE  RuntimeInv'
<1>. USE DEF RuntimeInv, Typed, Ownership, Conduct
<1>0. serving[w] \in Clients
  BY DEF StartQuery, WorkerOwns, PoolTyped
<1>1. Typed'
  BY DEF StartQuery, MoveTo, mainVars, clientVars, MainTyped, PoolTyped, ClientTyped, Stages
<1>2. Ownership'
  BY DEF StartQuery, MoveTo, mainVars, clientVars, HandOwns, QueueOwns, WorkerOwns, Owned
<1>3. Conduct'
  BY DEF StartQuery, MoveTo, mainVars, clientVars, ClosedOnce, Leaving, ModeChosen, Answered,
         NoSilentClose
<1>. QED
  BY <1>1, <1>2, <1>3

\* A worker is given the lock, which nobody else holds.
LEMMA AcquireLockKeeps ==
  ASSUME RuntimeInv, NEW w \in Workers, AcquireLock(w)
  PROVE  RuntimeInv'
<1>. USE DEF RuntimeInv, Typed, Ownership, Conduct
<1>0. serving[w] \in Clients
  BY DEF AcquireLock, WorkerOwns, PoolTyped
<1>1. Typed'
  BY DEF AcquireLock, MoveTo, mainVars, clientVars, MainTyped, PoolTyped, ClientTyped, Stages
<1>2. Ownership'
  BY DEF AcquireLock, MoveTo, mainVars, clientVars, HandOwns, QueueOwns, WorkerOwns, Owned
<1>3. Conduct'
  BY DEF AcquireLock, MoveTo, mainVars, clientVars, ClosedOnce, Leaving, ModeChosen, Answered,
         NoSilentClose
<1>. QED
  BY <1>1, <1>2, <1>3

\* http_close_client closes the descriptor the worker took.
LEMMA CloseClientKeeps ==
  ASSUME RuntimeInv, NEW w \in Workers, CloseClient(w)
  PROVE  RuntimeInv'
<1>. USE DEF RuntimeInv, Typed, Ownership, Conduct
<1>0. serving[w] \in Clients
  BY DEF CloseClient, WorkerOwns, PoolTyped
<1>1. Typed'
  BY <1>0 DEF CloseClient, CloseFd, MoveTo, mainVars, MainTyped, PoolTyped, ClientTyped, Stages
<1>2. Ownership'
  BY DEF CloseClient, CloseFd, MoveTo, mainVars, PoolTyped, ClientTyped, HandOwns, QueueOwns,
         WorkerOwns, Owned
<1>3. ClosedOnce'
  <2>1. closes[serving[w]] = 0
    BY <1>0, ServerRuntimeAssumption DEF CloseClient, WorkerOwns, ClosedOnce
  <2>. QED
    BY <2>1 DEF CloseClient, CloseFd, ClientTyped, ClosedOnce
<1>4. Leaving' /\ ModeChosen'
  BY DEF CloseClient, MoveTo, mainVars, Leaving, ModeChosen
<1>5. Answered'
  BY DEF CloseClient, CloseFd, MoveTo, mainVars, Answered, NoSilentClose
<1>. QED
  BY <1>1, <1>2, <1>3, <1>4, <1>5

\* cleanup_client_job finds no descriptor left in the context and frees it.
LEMMA FinishJobKeeps ==
  ASSUME RuntimeInv, NEW w \in Workers, FinishJob(w)
  PROVE  RuntimeInv'
<1>. USE DEF RuntimeInv, Typed, Ownership, Conduct
<1>0. serving[w] \in Clients /\ ctx[serving[w]] = "taken"
  BY DEF FinishJob, WorkerOwns, PoolTyped
<1>1. conn' = conn /\ closes' = closes
  BY <1>0 DEF FinishJob, cleanup_client_job
<1>2. Typed'
  BY <1>1 DEF FinishJob, cleanup_client_job, MoveTo, mainVars, MainTyped, PoolTyped, ClientTyped, Stages
<1>3. Ownership'
  BY DEF FinishJob, cleanup_client_job, MoveTo, mainVars, PoolTyped, ClientTyped, HandOwns, QueueOwns, WorkerOwns,
         Owned
<1>4. Conduct'
  BY <1>1
     DEF FinishJob, cleanup_client_job, MoveTo, mainVars, PoolTyped, ClosedOnce, Leaving, ModeChosen, Answered,
         NoSilentClose
<1>. QED
  BY <1>2, <1>3, <1>4

\* A worker leaves the closed and empty queue.
LEMMA WorkerExitKeeps ==
  ASSUME RuntimeInv, NEW w \in Workers, WorkerExit(w)
  PROVE  RuntimeInv'
<1>. USE DEF RuntimeInv, Typed, Ownership, Conduct
<1>1. Typed'
  BY DEF WorkerExit, MoveTo, mainVars, clientVars, MainTyped, PoolTyped, ClientTyped, Stages
<1>2. Ownership'
  BY DEF WorkerExit, MoveTo, mainVars, clientVars, HandOwns, QueueOwns, WorkerOwns, Owned
<1>3. Conduct'
  BY DEF WorkerExit, MoveTo, mainVars, clientVars, ClosedOnce, Leaving, ModeChosen, Answered,
         NoSilentClose
<1>. QED
  BY <1>1, <1>2, <1>3

\* Whatever the clients, the main thread, the signal and the workers do.
LEMMA NextKeepsInv == RuntimeInv /\ [Next]_runtimeVars => RuntimeInv'
<1>. SUFFICES ASSUME RuntimeInv, [Next]_runtimeVars PROVE RuntimeInv'
  OBVIOUS
<1>1. CASE CheckStop
  <2>1. CASE stop_requested
    BY <1>1, <2>1, ShutdownKeeps DEF CheckStop
  <2>2. CASE ~stop_requested
    BY <1>1, <2>2, EnterAcceptKeeps DEF CheckStop, poolVars, clientVars
  <2>. QED
    BY <2>1, <2>2
<1>2. CASE AcceptBadFd \/ StartFails \/ AcceptFails
  BY <1>2, ShutdownKeeps DEF AcceptBadFd, StartFails, AcceptFails
<1>3. CASE Main
  BY <1>1, <1>2, <1>3, StartKeeps, AcceptKeeps, SubmitKeeps, TurnAwayKeeps, FinishRefusedKeeps,
     NoContextKeeps, CancelOneKeeps, EndsKeep DEF Main
<1>4. CASE Mishap
  BY <1>2, <1>4, SignalKeeps DEF Mishap
<1>5. ASSUME NEW w \in Workers, AnswerAtOnce(w) \/ Execute(w) PROVE RuntimeInv'
  BY <1>5, AnswerKeeps DEF AnswerAtOnce, Execute
<1>6. ASSUME NEW w \in Workers, Worker(w) PROVE RuntimeInv'
  BY <1>5, <1>6, TakeKeeps, ClientGoneKeeps, StartQueryKeeps, AcquireLockKeeps,
     CloseClientKeeps, FinishJobKeeps, WorkerExitKeeps DEF Worker
<1>7. ASSUME NEW c \in Clients, Client(c) PROVE RuntimeInv'
  BY <1>7, ConnectKeeps, TalkKeeps DEF Client
<1>8. CASE UNCHANGED runtimeVars
  BY <1>8 DEF runtimeVars, mainVars, poolVars, clientVars, RuntimeInv, Typed, MainTyped,
     PoolTyped, ClientTyped, Ownership, HandOwns, QueueOwns, WorkerOwns, Owned, Conduct,
     ClosedOnce, Leaving, ModeChosen, Answered, NoSilentClose
<1>. QED
  BY <1>3, <1>4, <1>6, <1>7, <1>8 DEF Next, Stopped

\* The inductive invariant of the runtime: every accepted client has one owner,
\* main thread, queue or worker, at every point of every interleaving with
\* the signal handler and the shutdowns.
THEOREM RuntimeInvariance == Spec => []RuntimeInv
BY InitInv, NextKeepsInv, PTL DEF Spec

\* Every descriptor db_server_runtime.c accepts is closed once, whichever way
\* the client leaves, and none is left when the server has stopped.
THEOREM DescriptorsClosedOnce == Spec => []FdClosedOnce
<1>1. ASSUME RuntimeInv PROVE FdClosedOnce
  <2>. USE <1>1 DEF RuntimeInv, Typed, Ownership, Conduct
  <2>1. ASSUME phase = "stopped", NEW c \in Clients
        PROVE  conn[c] # "open" /\ ctx[c] \in {"none", "freed"}
    <3>1. hand = Nobody
      BY <2>1 DEF MainTyped
    <3>2. queue = <<>> /\ \A w \in Workers : serving[w] = Nobody
      BY <2>1, ServerRuntimeAssumption DEF Leaving, WorkerOwns
    <3>3. Queued(queue) = {}
      BY <3>2, EmptyQueue
    <3>. QED
      BY <3>1, <3>2, <3>3, ServerRuntimeAssumption DEF Owned, ClientTyped
  <2>. QED
    BY <2>1 DEF FdClosedOnce, ClosedOnce
<1>. QED
  BY <1>1, RuntimeInvariance, PTL

\* No path of db_server_runtime.c or of the handler closes a client without
\* having tried to answer it, unless it hung up; only cancel_pending cancels.
THEOREM ClosesAnswered == Spec => []NoSilentClose
<1>1. RuntimeInv => NoSilentClose
  BY DEF RuntimeInv, Conduct, Answered
<1>. QED
  BY <1>1, RuntimeInvariance, PTL

\* Every answer is the client's first and goes to an open descriptor: neither
\* the main thread nor a worker sends on a number that was closed.
THEOREM AnswersToOpenClients == Spec => AnswersOpenClient
<1>. DEFINE Fresh == \A c \in Clients :
                       reply'[c] # reply[c] => reply[c] = "none" /\ conn[c] = "open"
<1>1. ASSUME RuntimeInv, Next PROVE Fresh
  <2>. USE <1>1 DEF RuntimeInv, Typed, Ownership, Conduct
  <2>1. CASE TurnAway \/ NoContext
    BY <2>1 DEF TurnAway, NoContext, Answer, MainTyped, ClientTyped, HandOwns
  <2>2. CASE CancelOne
    BY <2>2, TakeQueue DEF CancelOne, PoolTyped, ClientTyped, QueueOwns
  <2>3. ASSUME NEW w \in Workers, AnswerAtOnce(w) \/ Execute(w) PROVE Fresh
    BY <2>3, ServerRuntimeAssumption
       DEF AnswerAtOnce, Execute, Answer, PoolTyped, ClientTyped, WorkerOwns
  <2>4. CASE Main
    BY <2>1, <2>2, <2>4
       DEF Main, Start, Listen, CheckStop, BeginShutdown, Accept, AcceptBadFd, Submit,
           FinishRefused, CancelDone, Join, clientVars
  <2>5. CASE Mishap
    BY <2>5 DEF Mishap, StartFails, AcceptFails, Signal
  <2>6. ASSUME NEW w \in Workers, Worker(w) PROVE Fresh
    BY <2>3, <2>6
       DEF Worker, Take, ClientGone, StartQuery, AcquireLock, CloseClient, FinishJob,
           WorkerExit, clientVars
  <2>7. ASSUME NEW c \in Clients, Client(c) PROVE Fresh
    BY <2>7 DEF Client, Connect, Talk
  <2>. QED
    BY <2>4, <2>5, <2>6, <2>7 DEF Next, Stopped, runtimeVars, clientVars
<1>2. RuntimeInv /\ [Next]_runtimeVars => [Fresh]_runtimeVars
  BY <1>1
<1>. QED
  BY <1>2, RuntimeInvariance, PTL DEF Spec, AnswersOpenClient
=============================================================================
