---------------------- MODULE TrackingRelayOrderProofs ----------------------
(* Proofs about TrackingRelay: in which order its handlers decide, publish *)
(* and record, for any connections, characters and messages.               *)
EXTENDS TrackingRelayProofs

-----------------------------------------------------------------------------
(* Queues as sequences. *)

\* Taking the first element comes to the same before and after appending.
LEMMA TailConcat ==
    ASSUME NEW S, NEW r \in Seq(S), NEW p \in Seq(S), r # <<>>
    PROVE  Tail(r) \o p = Tail(r \o p) /\ r \o p # <<>> /\ (r \o p)[1] = r[1]
<1>1. /\ Len(r) \in Nat \ {0} /\ Len(p) \in Nat
      /\ Tail(r) \in Seq(S) /\ Len(Tail(r)) = Len(r) - 1
      /\ \A i \in 1 .. Len(Tail(r)) : Tail(r)[i] = r[i + 1]
  BY EmptySeq, LenProperties, HeadTailProperties
<1>2. /\ r \o p \in Seq(S) /\ Len(r \o p) = Len(r) + Len(p)
      /\ \A i \in 1 .. Len(r) + Len(p) :
           (r \o p)[i] = IF i <= Len(r) THEN r[i] ELSE p[i - Len(r)]
  BY ConcatProperties
<1>3. /\ Tail(r) \o p \in Seq(S) /\ Len(Tail(r) \o p) = Len(Tail(r)) + Len(p)
      /\ \A i \in 1 .. Len(Tail(r)) + Len(p) :
           (Tail(r) \o p)[i] =
              IF i <= Len(Tail(r)) THEN Tail(r)[i] ELSE p[i - Len(Tail(r))]
  BY <1>1, ConcatProperties
<1>4. r \o p # <<>>
  BY <1>1, <1>2, EmptySeq
<1>5. /\ Tail(r \o p) \in Seq(S) /\ Len(Tail(r \o p)) = Len(r \o p) - 1
      /\ \A i \in 1 .. Len(Tail(r \o p)) : Tail(r \o p)[i] = (r \o p)[i + 1]
  BY <1>2, <1>4, HeadTailProperties
<1> DEFINE m == Len(r)
           n == Len(p)
           t == Tail(r)
           q == r \o p
           u == Tail(r) \o p
           v == Tail(r \o p)
<1>6. /\ m \in Nat \ {0} /\ n \in Nat /\ Len(t) = m - 1 /\ Len(q) = m + n
      /\ Len(u) = (m - 1) + n /\ Len(v) = (m + n) - 1
      /\ \A i \in 1 .. m - 1 : t[i] = r[i + 1]
      /\ \A i \in 1 .. m + n : q[i] = IF i <= m THEN r[i] ELSE p[i - m]
      /\ \A i \in 1 .. (m - 1) + n :
           u[i] = IF i <= m - 1 THEN t[i] ELSE p[i - (m - 1)]
      /\ \A i \in 1 .. (m + n) - 1 : v[i] = q[i + 1]
  BY <1>1, <1>2, <1>3, <1>5
<1> HIDE DEF m, n, t, q, u, v
<1>7. \A i \in 1 .. Len(u) : u[i] = v[i]
  <2> SUFFICES ASSUME NEW i \in 1 .. (m - 1) + n PROVE u[i] = v[i]
    BY <1>6
  <2>1. CASE i <= m - 1
    <3>1. i + 1 \in 1 .. m + n /\ i + 1 <= m /\ i \in 1 .. m - 1
          /\ i \in 1 .. (m + n) - 1
      BY <1>6, <2>1
    <3> QED
      BY <1>6, <2>1, <3>1
  <2>2. CASE ~(i <= m - 1)
    <3>1. i + 1 \in 1 .. m + n /\ ~(i + 1 <= m) /\ (i + 1) - m = i - (m - 1)
          /\ i \in 1 .. (m + n) - 1
      BY <1>6, <2>2
    <3> QED
      BY <1>6, <2>2, <3>1
  <2> QED
    BY <2>1, <2>2
<1>8. q[1] = r[1] /\ Len(u) = Len(v)
  BY <1>6
<1>9. u \in Seq(S) /\ v \in Seq(S)
  BY <1>3, <1>5 DEF u, v
<1> QED
  BY <1>4, <1>7, <1>8, <1>9, SeqEqual DEF u, v, q

LEMMA AppendConcat ==
    ASSUME NEW S, NEW r \in Seq(S), NEW p \in Seq(S), NEW h \in S
    PROVE  r \o Append(p, h) = Append(r \o p, h)
<1>1. /\ <<h>> \in Seq(S) /\ r \o p \in Seq(S)
  BY ConcatProperties
<1> QED
  BY <1>1, AppendIsConcat, ConcatAssociative

\* A queue of which the first d elements go, ...
LEMMA SequenceShifts ==
    ASSUME NEW S, NEW q \in Seq(S), NEW d \in {0, 1}, NEW b,
           d = 0 => b = q, d = 1 => q # <<>> /\ b = Tail(q)
    PROVE  /\ b \in Seq(S) /\ Len(q) \in Nat /\ Len(b) \in Nat
           /\ Len(b) = Len(q) - d
           /\ \A i \in 1 .. Len(b) : i + d \in 1 .. Len(q) /\ b[i] = q[i + d]
           /\ \A j \in 1 .. Len(q) : j > d => j - d \in 1 .. Len(b)
<1>1. CASE d = 0
  BY <1>1, LenProperties
<1>2. CASE d = 1
  <2>1. /\ b \in Seq(S) /\ Len(b) = Len(q) - 1 /\ Len(q) \in Nat \ {0}
        /\ \A i \in 1 .. Len(b) : b[i] = q[i + 1]
    BY <1>2, HeadTailProperties, EmptySeq
  <2> QED
    BY <1>2, <2>1
<1> QED
  BY <1>1, <1>2

\* ... and which gets h at the end.
LEMMA SequenceGrows ==
    ASSUME NEW S, NEW q \in Seq(S), NEW h \in S, NEW d \in {0, 1}, NEW b,
           d = 0 => b = q, d = 1 => q # <<>> /\ b = Tail(q)
    PROVE  /\ \A j \in 1 .. Len(q) : j > d => j - d \in 1 .. Len(Append(b, h))
           /\ \A i \in 1 .. Len(Append(b, h)) :
                \/ i + d \in 1 .. Len(q) /\ Append(b, h)[i] = q[i + d]
                \/ i + d = Len(q) + 1 /\ Append(b, h)[i] = h
<1>1. /\ b \in Seq(S) /\ Len(q) \in Nat /\ Len(b) \in Nat
      /\ Len(b) = Len(q) - d
      /\ \A i \in 1 .. Len(b) : i + d \in 1 .. Len(q) /\ b[i] = q[i + d]
      /\ \A j \in 1 .. Len(q) : j > d => j - d \in 1 .. Len(b)
  BY SequenceShifts
<1>2. /\ Len(Append(b, h)) = Len(b) + 1 /\ Append(b, h)[Len(b) + 1] = h
      /\ \A i \in 1 .. Len(b) : Append(b, h)[i] = b[i]
  BY <1>1, AppendProperties
<1>3. ASSUME NEW i \in 1 .. Len(Append(b, h))
      PROVE  \/ i + d \in 1 .. Len(q) /\ Append(b, h)[i] = q[i + d]
             \/ i + d = Len(q) + 1 /\ Append(b, h)[i] = h
  <2>1. CASE i \in 1 .. Len(b)
    BY <1>1, <1>2, <2>1
  <2>2. CASE i = Len(b) + 1
    BY <1>1, <1>2, <2>2
  <2> QED
    BY <1>1, <1>2, <1>3, <2>1, <2>2
<1> QED
  BY <1>1, <1>2, <1>3

-----------------------------------------------------------------------------
(* The queue of a client. *)

LEMMA QueueType ==
    ASSUME QueuesOK, NEW c \in Clients
    PROVE  /\ replies[c] \in Seq(Handlers) /\ pipe[c] \in Seq(Handlers)
           /\ Queue(c) \in Seq(Handlers)
           /\ \A i \in Slots(c) : Queue(c)[i] \in Handlers
<1>1. replies[c] \in Seq(Handlers) /\ pipe[c] \in Seq(Handlers)
  BY DEF QueuesOK
<1>2. Queue(c) \in Seq(Handlers)
  BY <1>1, ConcatProperties DEF Queue
<1> QED
  BY <1>1, <1>2, ElementOfSeq DEF Slots

\* Handler h takes a step: it leaves the head of a client's queue, if it was
\* there, and takes its place behind the others with its next command.
Moved(c, h, d) ==
    /\ \A j \in Slots(c) : j > d => Queue(c)[j] # h /\ j - d \in Slots(c)'
    /\ \A i \in Slots(c)' :
        \/ i + d \in Slots(c) /\ Queue(c)'[i] = Queue(c)[i + d]
        \/ /\ i + d = Len(Queue(c)) + 1 /\ Queue(c)'[i] = h
           /\ pc'[h] \in Commands /\ ClientOf(pc'[h]) = c

Moves(h) ==
    \A c \in Clients : \E d \in {0, 1} :
        Moved(c, h, d) /\ (d = 1 => Queue(c)[1] = h)

LEMMA QueueMoved ==
    ASSUME QueuesOK, NEW c \in Clients, NEW h \in Handlers, NEW d \in {0, 1},
           d = 0 => replies'[c] = replies[c],
           d = 1 => replies[c] # <<>> /\ replies'[c] = Tail(replies[c]),
           \/ pipe'[c] = pipe[c]
           \/ /\ pipe'[c] = Append(pipe[c], h)
              /\ pc'[h] \in Commands /\ ClientOf(pc'[h]) = c,
           \A j \in Slots(c) : j > d => Queue(c)[j] # h
    PROVE  Moved(c, h, d)
<1> DEFINE q == Queue(c)
           b == replies'[c] \o pipe[c]
           t == Queue(c)'
<1>1. /\ replies[c] \in Seq(Handlers) /\ pipe[c] \in Seq(Handlers)
      /\ q \in Seq(Handlers) /\ replies'[c] \in Seq(Handlers)
  BY QueueType, HeadTailProperties
<1>2. d = 0 => b = q
  BY DEF Queue
<1>3. d = 1 => q # <<>> /\ b = Tail(q)
  <2>1. \A r, p \in Seq(Handlers) : r # <<>> =>
          Tail(r) \o p = Tail(r \o p) /\ r \o p # <<>>
    BY TailConcat
  <2>2. q = replies[c] \o pipe[c]
    BY DEF Queue
  <2> HIDE DEF q
  <2> QED
    BY <1>1, <2>1, <2>2
<1> HIDE DEF q, b, t
<1>4. CASE pipe'[c] = pipe[c]
  <2>1. t = b
    BY <1>4 DEF Queue, t, b
  <2>2. /\ \A i \in 1 .. Len(t) : i + d \in 1 .. Len(q) /\ t[i] = q[i + d]
        /\ \A j \in 1 .. Len(q) : j > d => j - d \in 1 .. Len(t)
    BY <1>1, <1>2, <1>3, <2>1, SequenceShifts
  <2> QED
    BY <2>2 DEF Moved, Slots, q, t
<1>5. CASE /\ pipe'[c] = Append(pipe[c], h)
           /\ pc'[h] \in Commands /\ ClientOf(pc'[h]) = c
  <2>1. t = Append(b, h)
    <3>1. \A r, p \in Seq(Handlers) : r \o Append(p, h) = Append(r \o p, h)
      BY AppendConcat
    <3>2. replies'[c] \o Append(pipe[c], h) = Append(replies'[c] \o pipe[c], h)
      BY <1>1, <3>1
    <3> QED
      BY <1>5, <3>2 DEF Queue, t, b
  <2>2. /\ \A j \in 1 .. Len(q) : j > d => j - d \in 1 .. Len(t)
        /\ \A i \in 1 .. Len(t) :
             \/ i + d \in 1 .. Len(q) /\ t[i] = q[i + d]
             \/ i + d = Len(q) + 1 /\ t[i] = h
    <3>1. /\ \A j \in 1 .. Len(q) : j > d => j - d \in 1 .. Len(Append(b, h))
          /\ \A i \in 1 .. Len(Append(b, h)) :
               \/ i + d \in 1 .. Len(q) /\ Append(b, h)[i] = q[i + d]
               \/ i + d = Len(q) + 1 /\ Append(b, h)[i] = h
      <4>1. ASSUME NEW x \in Seq(Handlers), NEW y,
                   d = 0 => y = x, d = 1 => x # <<>> /\ y = Tail(x)
            PROVE  /\ \A j \in 1 .. Len(x) : j > d => j - d \in 1 .. Len(Append(y, h))
                   /\ \A i \in 1 .. Len(Append(y, h)) :
                        \/ i + d \in 1 .. Len(x) /\ Append(y, h)[i] = x[i + d]
                        \/ i + d = Len(x) + 1 /\ Append(y, h)[i] = h
        BY <4>1, SequenceGrows
      <4> QED
        BY <1>1, <1>2, <1>3, <4>1
    <3> QED
      BY <2>1, <3>1
  <2>3. \A j \in Slots(c) : j > d => Queue(c)[j] # h /\ j - d \in Slots(c)'
    BY <2>2 DEF Slots, q, t
  <2>4. \A i \in Slots(c)' :
          \/ i + d \in Slots(c) /\ Queue(c)'[i] = Queue(c)[i + d]
          \/ i + d = Len(Queue(c)) + 1 /\ Queue(c)'[i] = h
    BY <2>2 DEF Slots, q, t
  <2> QED
    BY <1>5, <2>3, <2>4 DEF Moved
<1> QED
  BY <1>4, <1>5

\* The handler that resumes is the oldest of its client, and in no other queue.
LEMMA ResumeHead ==
    ASSUME QueuesOK, QueuesExact, NEW h \in Handlers, NEW command, Resume(h, command)
    PROVE  LET c == ClientOf(command) IN
             /\ c \in Clients /\ pc[h] = command
             /\ replies[c] # <<>> /\ replies'[c] = Tail(replies[c])
             /\ 1 \in Slots(c) /\ Queue(c)[1] = h
             /\ \A d \in Clients \ {c} : replies'[d] = replies[d]
             /\ \A d \in Clients : \A j \in Slots(d) :
                    Queue(d)[j] = h => d = c /\ j = 1
<1> DEFINE c == ClientOf(command)
<1>1. c \in Clients
  BY ClientOfType
<1>2. /\ replies[c] \in Seq(Handlers) /\ replies[c] # <<>> /\ h = replies[c][1]
      /\ replies'[c] = Tail(replies[c])
      /\ \A d \in Clients \ {c} : replies'[d] = replies[d]
      /\ pc[h] = command
  BY <1>1 DEF QueuesOK, Resume
<1>3. /\ Queue(c) \in Seq(Handlers) /\ Queue(c) # <<>> /\ Queue(c)[1] = h
  BY <1>1, <1>2, QueueType, TailConcat DEF Queue
<1>4. 1 \in Slots(c)
  BY <1>3, EmptySeq DEF Slots
<1>5. ASSUME NEW d \in Clients, NEW j \in Slots(d), Queue(d)[j] = h
      PROVE  d = c /\ j = 1
  BY <1>2, <1>3, <1>4, <1>5 DEF QueuesExact
<1> QED
  BY <1>1, <1>2, <1>3, <1>4, <1>5

LEMMA SendEffect ==
    ASSUME QueuesOK, NEW h \in Handlers, NEW command, Send(h, command),
           pc \in [Handlers -> Commands \cup Outcomes]
    PROVE  /\ pc'[h] = command /\ \A g \in Handlers \ {h} : pc'[g] = pc[g]
           /\ LET c == ClientOf(command) IN
                /\ c \in Clients /\ pipe'[c] = Append(pipe[c], h)
                /\ \A d \in Clients \ {c} : pipe'[d] = pipe[d]
BY ClientOfType DEF QueuesOK, Send

LEMMA ResumeMoves ==
    ASSUME TypeOK, QueuesExact, NEW h \in Handlers, NEW command, Resume(h, command),
           \/ UNCHANGED pipe
           \/ \E next \in Commands : Send(h, next)
    PROVE  Moves(h)
<1> SUFFICES ASSUME NEW c \in Clients
               PROVE  \E d \in {0, 1} : Moved(c, h, d) /\ (d = 1 => Queue(c)[1] = h)
  BY DEF Moves
<1>1. \/ pipe'[c] = pipe[c]
      \/ /\ pipe'[c] = Append(pipe[c], h)
         /\ pc'[h] \in Commands /\ ClientOf(pc'[h]) = c
  BY SendEffect DEF TypeOK, MemoryOK
<1>2. QueuesOK
  BY DEF TypeOK
<1>3. CASE c = ClientOf(command)
  <2>1. \A j \in Slots(c) : j > 1 => Queue(c)[j] # h
    BY <1>2, ResumeHead
  <2>2. Moved(c, h, 1)
    BY <1>1, <1>2, <1>3, <2>1, ResumeHead, QueueMoved
  <2> QED
    BY <1>2, <1>3, <2>2, ResumeHead
<1>4. CASE c # ClientOf(command)
  <2>1. \A j \in Slots(c) : j > 0 => Queue(c)[j] # h
    BY <1>2, <1>4, ResumeHead
  <2>2. Moved(c, h, 0)
    BY <1>1, <1>2, <1>4, <2>1, ResumeHead, QueueMoved
  <2> QED
    BY <2>2
<1> QED
  BY <1>3, <1>4

\* A handler that starts is in no queue.
LEMMA ArriveMoves ==
    ASSUME TypeOK, QueuesExact, NEW h \in Handlers, pc[h] = "idle",
           UNCHANGED replies,
           \/ UNCHANGED pipe
           \/ \E next \in Commands : Send(h, next)
    PROVE  Moves(h)
<1> SUFFICES ASSUME NEW c \in Clients PROVE Moved(c, h, 0)
  BY DEF Moves
<1>1. \/ pipe'[c] = pipe[c]
      \/ /\ pipe'[c] = Append(pipe[c], h)
         /\ pc'[h] \in Commands /\ ClientOf(pc'[h]) = c
  BY SendEffect DEF TypeOK, MemoryOK
<1>2. "idle" \notin Commands \cup Asking
  BY CommandTypes DEF Commands, ConnectionCommands, UserCommands, TrackerCommands, Asking
<1>3. \A j \in Slots(c) : j > 0 => Queue(c)[j] # h
  BY <1>2 DEF QueuesExact
<1> QED
  BY <1>1, <1>3, QueueMoved DEF TypeOK

\* Redis executes a command: the queue stays, and the pipe gets shorter.
LEMMA ExecuteQueues ==
    ASSUME QueuesOK, NEW h \in Handlers, NEW command, Execute(h, command)
    PROVE  /\ \A c \in Clients : Queue(c)' = Queue(c)
           /\ LET c == ClientOf(command) IN
                /\ c \in Clients /\ pc[h] = command
                /\ pipe[c] # <<>> /\ h = pipe[c][1] /\ pipe'[c] = Tail(pipe[c])
                /\ \A d \in Clients \ {c} : pipe'[d] = pipe[d]
<1> DEFINE c == ClientOf(command)
           r == replies[c]
           p == pipe[c]
<1>1. /\ c \in Clients /\ pc[h] = command
      /\ p \in Seq(Handlers) /\ p # <<>> /\ h = p[1] /\ r \in Seq(Handlers)
      /\ pipe'[c] = Tail(p) /\ replies'[c] = Append(r, h)
      /\ \A d \in Clients \ {c} : pipe'[d] = pipe[d] /\ replies'[d] = replies[d]
  BY ClientOfType DEF QueuesOK, Execute
<1> HIDE DEF r, p
<1>2. Append(r, h) \o Tail(p) = r \o p
  <2>1. <<h>> \in Seq(Handlers) /\ Tail(p) \in Seq(Handlers)
    BY <1>1, HeadTailProperties
  <2>2. Append(r, h) \o Tail(p) = r \o (<<h>> \o Tail(p))
    BY <1>1, <2>1, AppendIsConcat, ConcatAssociative
  <2>3. <<h>> \o Tail(p) = p
    BY <1>1, <2>1
  <2> QED
    BY <2>2, <2>3
<1>3. \A d \in Clients : Queue(d)' = Queue(d)
  BY <1>1, <1>2 DEF Queue, r, p
<1> QED
  BY <1>1, <1>3 DEF p

-----------------------------------------------------------------------------
(* A handler that starts or resumes. *)

Unsent(h) == \A c \in Clients : \A i \in 1 .. Len(pipe[c]) : pipe[c][i] # h

ActorStep(h) ==
    /\ Moves(h) /\ Unsent(h)
    /\ \A g \in Handlers \ {h} : pc'[g] = pc[g]
    /\ \A c \in Clients :
        \/ pipe'[c] = pipe[c]
        \/ /\ pipe'[c] = Append(pipe[c], h)
           /\ pc'[h] \in Commands /\ ClientOf(pc'[h]) = c
    /\ \A g \in Consumed : g \in Consumed' /\ log'[g] = log[g] /\ seen'[g] = seen[g]
    /\ UNCHANGED store

\* What is in a pipe.
LEMMA PipeEntries ==
    ASSUME QueuesOK, QueuesExact, NEW c \in Clients, NEW i \in 1 .. Len(pipe[c])
    PROVE  /\ pipe[c][i] \in Handlers
           /\ pc[pipe[c][i]] \in Commands \cup Asking
           /\ ClientOf(pc[pipe[c][i]]) = c
           /\ replies[c] # <<>> => pipe[c][i] # replies[c][1]
           /\ \A j \in 1 .. Len(pipe[c]) : pipe[c][i] = pipe[c][j] => i = j
<1> DEFINE r == replies[c]
           p == pipe[c]
           q == Queue(c)
<1>1. /\ r \in Seq(Handlers) /\ p \in Seq(Handlers) /\ Len(r) \in Nat /\ Len(p) \in Nat
      /\ i \in 1 .. Len(p)
  BY QueueType, LenProperties
<1>2. /\ Len(q) = Len(r) + Len(p)
      /\ \A k \in 1 .. Len(r) + Len(p) :
           q[k] = IF k <= Len(r) THEN r[k] ELSE p[k - Len(r)]
  BY <1>1, ConcatProperties DEF Queue
<1>3. /\ \A j, k \in 1 .. Len(q) : q[j] = q[k] => j = k
      /\ \A k \in 1 .. Len(q) : pc[q[k]] \in Commands \cup Asking /\ ClientOf(pc[q[k]]) = c
  BY DEF QueuesExact, Slots
<1>4. p[i] \in Handlers
  BY <1>1, ElementOfSeq
<1>5. r # <<>> => Len(r) \in Nat \ {0}
  BY <1>1, EmptySeq
<1> HIDE DEF r, p, q
<1>6. \A j \in 1 .. Len(p) : Len(r) + j \in 1 .. Len(q) /\ q[Len(r) + j] = p[j]
  <2> SUFFICES ASSUME NEW j \in 1 .. Len(p)
               PROVE  Len(r) + j \in 1 .. Len(q) /\ q[Len(r) + j] = p[j]
    OBVIOUS
  <2>1. /\ Len(r) + j \in 1 .. Len(r) + Len(p) /\ ~(Len(r) + j <= Len(r))
        /\ (Len(r) + j) - Len(r) = j
    BY <1>1
  <2> QED
    BY <1>2, <2>1
<1>7. pc[p[i]] \in Commands \cup Asking /\ ClientOf(pc[p[i]]) = c
  BY <1>1, <1>3, <1>6
<1>8. r # <<>> => p[i] # r[1]
  <2> SUFFICES ASSUME r # <<>> PROVE p[i] # r[1]
    OBVIOUS
  <2>1. /\ 1 \in 1 .. Len(r) + Len(p) /\ 1 <= Len(r) /\ Len(r) + i # 1
    BY <1>1, <1>5
  <2>2. q[1] = r[1] /\ 1 \in 1 .. Len(q)
    BY <1>2, <2>1
  <2> QED
    BY <1>1, <1>3, <1>6, <2>1, <2>2
<1>9. \A j \in 1 .. Len(p) : p[i] = p[j] => i = j
  <2> SUFFICES ASSUME NEW j \in 1 .. Len(p), p[i] = p[j] PROVE i = j
    OBVIOUS
  <2>1. Len(r) + i = Len(r) + j
    BY <1>1, <1>3, <1>6
  <2> QED
    BY <1>1, <2>1
<1> QED
  BY <1>4, <1>7, <1>8, <1>9 DEF p, r

\* A pipe that keeps, or gets one more.
LEMMA PipeKeeps ==
    ASSUME QueuesOK, NEW c \in Clients, NEW h \in Handlers,
           pipe'[c] = pipe[c] \/ pipe'[c] = Append(pipe[c], h)
    PROVE  /\ \A i \in 1 .. Len(pipe[c]) :
                i \in 1 .. Len(pipe'[c]) /\ pipe'[c][i] = pipe[c][i]
           /\ \A i \in 1 .. Len(pipe'[c]) :
                \/ i \in 1 .. Len(pipe[c]) /\ pipe'[c][i] = pipe[c][i]
                \/ /\ i = Len(pipe[c]) + 1 /\ pipe'[c][i] = h
                   /\ pipe'[c] = Append(pipe[c], h) /\ pipe'[c] # pipe[c]
<1> DEFINE p == pipe[c]
<1>1. p \in Seq(Handlers) /\ Len(p) \in Nat
  BY LenProperties DEF QueuesOK
<1>2. CASE pipe'[c] = p
  BY <1>2
<1>3. CASE pipe'[c] = Append(p, h)
  <2>1. /\ Len(pipe'[c]) = Len(p) + 1 /\ pipe'[c][Len(p) + 1] = h
        /\ \A i \in 1 .. Len(p) : pipe'[c][i] = p[i]
    BY <1>1, <1>3, AppendProperties
  <2> HIDE DEF p
  <2>2. \A i \in 1 .. Len(pipe'[c]) : i \in 1 .. Len(p) \/ i = Len(p) + 1
    BY <1>1, <2>1
  <2>3. \A i \in 1 .. Len(p) : i \in 1 .. Len(pipe'[c])
    BY <1>1, <2>1
  <2>4. pipe'[c] # p
    BY <1>1, <2>1
  <2> QED
    BY <1>3, <2>1, <2>2, <2>3, <2>4 DEF p
<1> QED
  BY <1>2, <1>3

LEMMA ResumptionForms ==
    ASSUME NEW h \in Handlers, ResumeAny(h) \/ FailPoint(h)
    PROVE  \E command \in Commands \cup {"granted", "refused"} :
             /\ Resume(h, command)
             /\ \/ /\ command = "granted" /\ Send(h, "setCurrent") /\ up' = up
                   /\ players' = [players EXCEPT ![Conn(h)] = log[h].name]
                \/ /\ command \in {"refused", "increase", "expire", "addPoint"}
                   /\ Finish(h) /\ UNCHANGED <<players, up>>
                   /\ command = "increase" => ~ConnectionStoreTtl
                \/ /\ command \in Commands \ {"getAllowed"} /\ UNCHANGED <<players, up>>
                   /\ \E next \in Commands \ {"getAllowed", "setCurrent"} :
                        /\ Send(h, next)
                        /\ next \in Announcing \cup {"keepAlive", "removePosition"} =>
                             command \in Announcing \cup {"keepAlive", "removePosition"}
                        /\ next = "broadcast" => command = "removePosition"
                        /\ next = "expire" <=> command = "increase" /\ ConnectionStoreTtl
                \/ command = "addPoint" /\ UNCHANGED <<pc, pipe>>
                   /\ up' = FALSE /\ players' = Unknown
<1> USE CommandTypes DEF Announcing
<1>1. CASE Refuse(h)
  BY <1>1 DEF Refuse
<1>2. CASE Grant(h)
  BY <1>2 DEF Grant
<1>3. CASE Continue(h)
  BY <1>3 DEF Continue, Publication
<1>4. CASE Recheck(h)
  <2>1. PICK command \in {"expire", "increase"} :
          Resume(h, command) /\ (command = "increase" => ~ConnectionStoreTtl)
    BY <1>4 DEF Recheck
  <2>2. CASE StillPlays(h)
    BY <1>4, <2>1, <2>2 DEF Recheck
  <2>3. CASE ~StillPlays(h)
    BY <1>4, <2>1, <2>3 DEF Recheck
  <2> QED
    BY <2>2, <2>3
<1>5. CASE Complete(h)
  BY <1>5 DEF Complete
<1>6. CASE FailPoint(h)
  BY <1>6 DEF FailPoint, Die
<1> QED
  BY <1>1, <1>2, <1>3, <1>4, <1>5, <1>6 DEF ResumeAny

LEMMA ResumptionActs ==
    ASSUME TypeOK, QueuesExact, NEW h \in Handlers, NEW command, Resume(h, command),
           \/ \E next \in Commands : Send(h, next)
           \/ Finish(h)
           \/ UNCHANGED <<pc, pipe>>
    PROVE  ActorStep(h)
<1>1. Moves(h)
  BY ResumeMoves DEF Finish
<1>2. QueuesOK /\ pc \in [Handlers -> Commands \cup Outcomes]
  BY DEF TypeOK, MemoryOK
<1>3. Unsent(h)
  <2> SUFFICES ASSUME NEW c \in Clients, NEW i \in 1 .. Len(pipe[c]), pipe[c][i] = h
               PROVE  FALSE
    BY DEF Unsent
  <2>1. ClientOf(pc[h]) = c /\ (replies[c] # <<>> => h # replies[c][1])
    BY <1>2, PipeEntries
  <2>2. c = ClientOf(command) /\ replies[c] # <<>> /\ h = Head(replies[c])
    BY <2>1 DEF Resume
  <2>3. Head(replies[c]) = replies[c][1]
    OBVIOUS
  <2> QED
    BY <2>1, <2>2, <2>3
<1>4. /\ \A g \in Handlers \ {h} : pc'[g] = pc[g]
      /\ \A c \in Clients :
          \/ pipe'[c] = pipe[c]
          \/ /\ pipe'[c] = Append(pipe[c], h)
             /\ pc'[h] \in Commands /\ ClientOf(pc'[h]) = c
  BY <1>2, SendEffect DEF Finish
<1>5. Consumed' = Consumed /\ UNCHANGED <<log, seen, store>>
  BY DEF Resume, Consumed
<1> QED
  BY <1>1, <1>3, <1>4, <1>5 DEF ActorStep

LEMMA ArrivalForms ==
    ASSUME TypeOK, NEW m \in Messages, NEW h, h = Len(log) + 1,
           Discard(m) \/ Ignore(m) \/ AskAllowed(m) \/ Relay(m)
    PROVE  /\ Arrive(m)
           /\ \/ Finish(h) /\ ~Asks(h)'
              \/ Send(h, "getAllowed") /\ Asks(h)'
              \/ /\ ~Switching(h)'
                 /\ \E next \in {"broadcast", "increase"} : Send(h, next)
<1>1. Arrive(m)
  BY DEF Discard, Ignore, AskAllowed, Relay
<1>2. log'[h] = m /\ h \in Handlers
  BY <1>1, ArriveType, ArriveAppends
<1>3. seen'[h] = players[m.conn]
  BY <1>1, <1>2 DEF Arrive, TypeOK, MemoryOK
<1>4. CASE Discard(m) \/ Ignore(m)
  BY <1>1, <1>2, <1>3, <1>4, NamesAssumption
     DEF Discard, Ignore, Asks, Switching, Named
<1>5. CASE AskAllowed(m)
  BY <1>1, <1>2, <1>3, <1>5 DEF AskAllowed, Asks, Switching, Named
<1>6. CASE Relay(m)
  BY <1>1, <1>2, <1>3, <1>6, NamesAssumption
     DEF Relay, Publication, Switching, Named
<1> QED
  BY <1>4, <1>5, <1>6

LEMMA ArrivalActs ==
    ASSUME TypeOK, HandlersConsumed, QueuesExact, NEW m \in Messages,
           NEW h, h = Len(log) + 1,
           Discard(m) \/ Ignore(m) \/ AskAllowed(m) \/ Relay(m)
    PROVE  /\ ActorStep(h) /\ h \in Handlers /\ pc[h] = "idle"
           /\ Consumed' = Consumed \cup {h} /\ UNCHANGED <<players, up>>
           /\ \A g \in Consumed : g < h
<1>1. /\ Arrive(m)
      /\ Finish(h) \/ \E next \in Commands : Send(h, next)
  BY ArrivalForms, CommandTypes
<1>2. /\ h \in Handlers /\ h \notin Consumed /\ Consumed' = Consumed \cup {h}
      /\ \A g \in Consumed : log'[g] = log[g]
  BY <1>1, ArriveType, ArriveAppends
<1>3. pc[h] = "idle"
  BY <1>2 DEF HandlersConsumed
<1>4. QueuesOK /\ pc \in [Handlers -> Commands \cup Outcomes]
      /\ seen \in [Handlers -> Characters \cup {Nobody}]
  BY DEF TypeOK, MemoryOK
<1>5. Moves(h)
  BY <1>1, <1>2, <1>3, ArriveMoves DEF Arrive, Finish
<1>6. Unsent(h)
  <2> SUFFICES ASSUME NEW c \in Clients, NEW i \in 1 .. Len(pipe[c]), pipe[c][i] = h
               PROVE  FALSE
    BY DEF Unsent
  <2>1. pc[h] \in Commands \cup Asking
    BY <1>4, PipeEntries
  <2> QED
    BY <1>3, <2>1 DEF Commands, ConnectionCommands, UserCommands, TrackerCommands, Asking
<1>7. /\ \A g \in Handlers \ {h} : pc'[g] = pc[g]
      /\ \A c \in Clients :
          \/ pipe'[c] = pipe[c]
          \/ /\ pipe'[c] = Append(pipe[c], h)
             /\ pc'[h] \in Commands /\ ClientOf(pc'[h]) = c
  <2>1. CASE Finish(h)
    BY <1>2, <1>4, <2>1 DEF Finish
  <2>2. ASSUME NEW next \in Commands, Send(h, next)
        PROVE  /\ pc'[h] = next /\ \A g \in Handlers \ {h} : pc'[g] = pc[g]
               /\ \A c \in Clients :
                   pipe'[c] = pipe[c] \/ (pipe'[c] = Append(pipe[c], h) /\ ClientOf(next) = c)
    BY <1>2, <1>4, <2>2, SendEffect
  <2> QED
    BY <1>1, <2>1, <2>2
<1>8. \A g \in Consumed : g < h /\ seen'[g] = seen[g]
  <2>1. Len(log) \in Nat /\ \A g \in Consumed : g < h /\ g \in Handlers
    BY ConsumedHandlers DEF TypeOK, MemoryOK, Consumed
  <2> QED
    BY <1>1, <1>4, <2>1 DEF Arrive
<1> QED
  BY <1>1, <1>2, <1>3, <1>5, <1>6, <1>7, <1>8 DEF ActorStep, Arrive

\* Messages and what was read before stay.
LEMMA Same ==
    ASSUME NEW g, log'[g] = log[g], seen'[g] = seen[g]
    PROVE  /\ Conn(g)' = Conn(g) /\ (Named(log[g]) <=> Named(log[g])')
           /\ Switching(g)' <=> Switching(g)
           /\ Asks(g)' <=> Asks(g)
           /\ log'[g].name = log[g].name
BY DEF Conn, Named, Switching, Asks

LEMMA QueuesStep ==
    ASSUME QueuesOK, QueuesOK', QueuesExact, NEW h \in Handlers, ActorStep(h),
           pc'[h] \in Asking =>
               \E i \in Slots("connection")' : Queue("connection")'[i] = h
    PROVE  QueuesExact'
<1>1. ASSUME NEW c \in Clients, NEW i \in Slots(c)', NEW j \in Slots(c)'
      PROVE  /\ pc'[Queue(c)'[i]] \in Commands \cup Asking
             /\ ClientOf(pc'[Queue(c)'[i]]) = c
             /\ Queue(c)'[i] = Queue(c)'[j] => i = j
  <2> DEFINE q == Queue(c)
             t == Queue(c)'
  <2>1. PICK d \in {0, 1} : Moved(c, h, d)
    BY DEF ActorStep, Moves
  <2>2. /\ q \in Seq(Handlers) /\ Len(q) \in Nat /\ \A k \in Slots(c) : q[k] \in Handlers
        /\ Slots(c) = 1 .. Len(q) /\ Slots(c)' = 1 .. Len(t) /\ Len(t) \in Nat
    <3>1. t \in Seq(Handlers)
      BY ConcatProperties DEF QueuesOK, Queue
    <3> QED
      BY <3>1, QueueType, LenProperties DEF Slots
  <2>3. /\ \A k \in Slots(c) : k > d => q[k] # h /\ k - d \in Slots(c)'
        /\ \A k \in Slots(c)' :
            \/ k + d \in Slots(c) /\ t[k] = q[k + d]
            \/ /\ k + d = Len(q) + 1 /\ t[k] = h
               /\ pc'[h] \in Commands /\ ClientOf(pc'[h]) = c
    BY <2>1 DEF Moved
  <2>4. /\ \A k, l \in Slots(c) : q[k] = q[l] => k = l
        /\ \A k \in Slots(c) : pc[q[k]] \in Commands \cup Asking /\ ClientOf(pc[q[k]]) = c
    BY DEF QueuesExact
  <2>5. \A g \in Handlers \ {h} : pc'[g] = pc[g]
    BY DEF ActorStep
  <2> HIDE DEF q, t
  <2>6. \A k \in Slots(c)' :
          \/ k + d \in Slots(c) /\ t[k] = q[k + d] /\ t[k] \in Handlers \ {h}
          \/ /\ k + d = Len(q) + 1 /\ t[k] = h
             /\ pc'[h] \in Commands /\ ClientOf(pc'[h]) = c
    <3> SUFFICES ASSUME NEW k \in Slots(c)', k + d \in Slots(c), t[k] = q[k + d]
                 PROVE  t[k] \in Handlers \ {h}
      BY <2>3
    <3>1. k + d > d
      BY <2>2
    <3> QED
      BY <2>2, <2>3, <3>1
  <2>7. pc'[t[i]] \in Commands \cup Asking /\ ClientOf(pc'[t[i]]) = c
    BY <2>4, <2>5, <2>6
  <2>8. t[i] = t[j] => i = j
    <3> SUFFICES ASSUME t[i] = t[j] PROVE i = j
      OBVIOUS
    <3>1. i + d = j + d
      BY <2>4, <2>6
    <3> QED
      BY <2>2, <3>1
  <2> QED
    BY <2>7, <2>8 DEF t
<1>2. ASSUME NEW g \in Handlers, pc'[g] \in Asking
      PROVE  \E i \in Slots("connection")' : Queue("connection")'[i] = g
  <2>1. CASE g = h
    BY <1>2, <2>1
  <2>2. CASE g # h
    <3>1. PICK j \in Slots("connection") : Queue("connection")[j] = g
      BY <1>2, <2>2 DEF ActorStep, QueuesExact
    <3>2. PICK d \in {0, 1} : Moved("connection", h, d)
                            /\ (d = 1 => Queue("connection")[1] = h)
      BY DEF ActorStep, Moves, Clients
    <3> DEFINE q == Queue("connection")
               t == Queue("connection")'
    <3>3. /\ q \in Seq(Handlers) /\ Len(q) \in Nat /\ j \in 1 .. Len(q)
          /\ d = 1 => q[1] = h
          /\ j > d => j - d \in Slots("connection")'
          /\ \A k \in Slots("connection")' :
              (k + d \in 1 .. Len(q) /\ t[k] = q[k + d]) \/ k + d = Len(q) + 1
      BY <3>1, <3>2, QueueType, LenProperties DEF Moved, Slots, Clients
    <3>4. j \in Nat \ {0} /\ (j - d) + d = j /\ j # Len(q) + 1
      BY <3>3
    <3>5. j > d
      BY <2>2, <3>1, <3>3, <3>4
    <3> HIDE DEF q, t
    <3>6. j - d \in Slots("connection")' /\ t[j - d] = q[j]
      BY <3>3, <3>4, <3>5
    <3> QED
      BY <3>1, <3>6 DEF q, t
  <2> QED
    BY <2>1, <2>2
<1> QED
  BY <1>1, <1>2 DEF QueuesExact

-----------------------------------------------------------------------------
(* What the step of a handler does to each part of the invariant. *)

LEMMA AskedStep ==
    ASSUME QueuesOK, QueuesOK', HandlersConsumed, QueuesExact, AskedInOrder,
           NEW h \in Handlers, ActorStep(h), Consumed' \subseteq Consumed \cup {h},
           Consumed \subseteq Handlers,
           pc'[h] \in Asking => \A g \in Consumed : g < h,
           \A g \in Consumed : g < h /\ pc[g] \in Asking /\ Asks(h)' => pc'[h] \in Asking
    PROVE  AskedInOrder'
<1> Handlers \subseteq Nat
  BY DEF Handlers
<1>1. \A g \in Handlers \ {h} : pc'[g] = pc[g]
  BY DEF ActorStep
<1>2. ASSUME NEW i \in Slots("connection")', NEW j \in Slots("connection")', i < j,
             pc'[Queue("connection")'[i]] \in Asking,
             pc'[Queue("connection")'[j]] \in Asking
      PROVE  Queue("connection")'[i] < Queue("connection")'[j]
  <2> DEFINE q == Queue("connection")
             t == Queue("connection")'
             S == Slots("connection")
  <2>1. PICK d \in {0, 1} : Moved("connection", h, d)
    BY DEF ActorStep, Moves, Clients
  <2>2. /\ Len(q) \in Nat /\ S = 1 .. Len(q) /\ i \in Nat /\ j \in Nat
        /\ \A k \in S : q[k] \in Handlers
    BY QueueType, LenProperties DEF Slots, Clients
  <2>3. /\ \A k \in S : k > d => q[k] # h
        /\ \/ i + d \in S /\ t[i] = q[i + d]
           \/ i + d = Len(q) + 1 /\ t[i] = h
        /\ \/ j + d \in S /\ t[j] = q[j + d]
           \/ j + d = Len(q) + 1 /\ t[j] = h
    BY <2>1 DEF Moved
  <2>4. \A k, l \in S : k < l /\ pc[q[k]] \in Asking /\ pc[q[l]] \in Asking => q[k] < q[l]
    BY DEF AskedInOrder
  <2>5. \A g \in Handlers : pc[g] \in Asking => g \in Consumed
    BY DEF HandlersConsumed, Asking
  <2>6. i \in Nat \ {0} /\ j \in Nat \ {0}
    <3>1. Queue("connection")' \in Seq(Handlers)
      BY ConcatProperties DEF QueuesOK, Queue, Clients
    <3> QED
      BY <3>1, LenProperties DEF Slots
  <2> HIDE DEF q, t, S
  <2>7. i + d \in S /\ t[i] = q[i + d] /\ q[i + d] \in Handlers \ {h}
    <3>1. i + d # Len(q) + 1
      BY <1>2, <2>2, <2>3
    <3>2. i + d > d
      BY <2>6
    <3> QED
      BY <2>2, <2>3, <3>1, <3>2
  <2>8. pc[q[i + d]] \in Asking /\ q[i + d] \in Consumed
    BY <1>1, <1>2, <2>5, <2>7 DEF t
  <2>9. CASE j + d \in S /\ t[j] = q[j + d]
    <3>1. j + d > d /\ i + d < j + d
      BY <1>2, <2>6
    <3>2. q[j + d] \in Handlers \ {h}
      BY <2>2, <2>3, <2>9, <3>1
    <3>3. pc[q[j + d]] \in Asking
      BY <1>1, <1>2, <2>9, <3>2 DEF t
    <3> QED
      BY <2>4, <2>7, <2>8, <2>9, <3>1, <3>3 DEF t
  <2>10. CASE t[j] = h
    BY <1>2, <2>7, <2>8, <2>10 DEF t
  <2> QED
    BY <2>3, <2>9, <2>10
<1>3. ASSUME NEW f \in Consumed', NEW g \in Consumed', f < g,
             pc'[f] \in Asking, Asks(g)'
      PROVE  pc'[g] \in Asking
  <2>1. f \in Handlers /\ g \in Handlers
    OBVIOUS
  <2>2. CASE f = h
    BY <1>3, <2>1, <2>2
  <2>3. CASE f # h /\ g = h
    <3>1. f \in Consumed /\ pc[f] \in Asking
      BY <1>1, <1>3, <2>1, <2>3
    <3> QED
      BY <1>3, <2>3, <3>1
  <2>4. CASE f # h /\ g # h
    <3>1. /\ f \in Consumed /\ g \in Consumed /\ pc'[f] = pc[f] /\ pc'[g] = pc[g]
          /\ log'[g] = log[g] /\ seen'[g] = seen[g]
      BY <1>1, <2>1, <2>4 DEF ActorStep
    <3>2. Asks(g)
      BY <1>3, <3>1, Same
    <3> QED
      BY <1>3, <3>1, <3>2 DEF AskedInOrder
  <2> QED
    BY <2>2, <2>3, <2>4
<1> QED
  BY <1>2, <1>3 DEF AskedInOrder

LEMMA CurrentsStep ==
    ASSUME QueuesOK, QueuesExact, HandlersConsumed, CurrentsInOrder,
           NEW h \in Handlers, ActorStep(h),
           pc'[h] = "setCurrent" =>
               \A g \in Handlers : pc[g] = "setCurrent" => g < h
    PROVE  CurrentsInOrder'
<1> DEFINE p == pipe["connection"]
           t == pipe'["connection"]
<1> SUFFICES ASSUME NEW i \in 1 .. Len(t), NEW j \in 1 .. Len(t), i < j,
                    pc'[t[i]] = "setCurrent", pc'[t[j]] = "setCurrent"
             PROVE  t[i] < t[j]
  BY DEF CurrentsInOrder
<1>1. /\ \A k \in 1 .. Len(p) : p[k] \in Handlers \ {h}
      /\ \A g \in Handlers \ {h} : pc'[g] = pc[g]
      /\ \A k \in 1 .. Len(t) :
           \/ k \in 1 .. Len(p) /\ t[k] = p[k]
           \/ k = Len(p) + 1 /\ t[k] = h
  BY PipeEntries, PipeKeeps DEF ActorStep, Unsent, Clients
<1>2. /\ Len(p) \in Nat
      /\ \A k, l \in 1 .. Len(p) :
            k < l /\ pc[p[k]] = "setCurrent" /\ pc[p[l]] = "setCurrent" => p[k] < p[l]
  BY LenProperties DEF CurrentsInOrder, QueuesOK, Clients
<1> HIDE DEF p, t
<1>3. CASE j \in 1 .. Len(p) /\ t[j] = p[j]
  <2>1. i \in 1 .. Len(p) /\ t[i] = p[i]
    BY <1>1, <1>2, <1>3
  <2> QED
    BY <1>1, <1>2, <1>3, <2>1
<1>4. CASE j = Len(p) + 1 /\ t[j] = h
  <2>1. i \in 1 .. Len(p) /\ t[i] = p[i]
    BY <1>1, <1>2, <1>4
  <2> QED
    BY <1>1, <1>4, <2>1
<1> QED
  BY <1>1, <1>3, <1>4

LEMMA PublicationsStep ==
    ASSUME QueuesOK, QueuesExact, HandlersConsumed, EffectsConsumed, PublicationsInOrder,
           NEW h \in Handlers, ActorStep(h),
           pc'[h] = "broadcast" => Switching(h)' \/ \A g \in Consumed : g < h
    PROVE  PublicationsInOrder'
<1> DEFINE p == pipe["publisher"]
           t == pipe'["publisher"]
<1>0. feed' = feed
  BY DEF ActorStep, store
<1> SUFFICES ASSUME NEW i \in 1 .. Len(t), NEW g \in Handlers, g = t[i], ~Switching(g)'
             PROVE  /\ \A j \in 1 .. i - 1 : t[j] < t[i]
                    /\ \A j \in 1 .. Len(feed) : feed[j] < t[i]
  <2>1. \A i \in 1 .. Len(t) : t[i] \in Handlers
    BY PipeEntries, PipeKeeps DEF ActorStep, Clients
  <2>2. ASSUME NEW i \in 1 .. Len(t), ~Switching(pipe["publisher"][i])'
        PROVE  \E g \in Handlers : g = t[i] /\ ~Switching(g)'
    BY <2>1, <2>2
  <2> QED
    BY <1>0, <2>2 DEF PublicationsInOrder
<1>1. /\ \A k \in 1 .. Len(p) : p[k] \in Handlers \ {h} /\ p[k] \in Consumed
      /\ \A k \in 1 .. Len(t) :
           \/ k \in 1 .. Len(p) /\ t[k] = p[k]
           \/ k = Len(p) + 1 /\ t[k] = h /\ t # p
  <2>1. \A k \in 1 .. Len(p) :
          p[k] \in Handlers \ {h} /\ pc[p[k]] \in Commands \cup Asking
    BY PipeEntries DEF ActorStep, Unsent, Clients
  <2>2. "idle" \notin Commands \cup Asking
    BY CommandTypes
       DEF Commands, ConnectionCommands, UserCommands, TrackerCommands, Asking
  <2> QED
    BY <2>1, <2>2, PipeKeeps DEF ActorStep, HandlersConsumed, Clients
<1>2. /\ Len(p) \in Nat
      /\ \A k \in 1 .. Len(p) : ~Switching(p[k]) =>
           /\ \A j \in 1 .. k - 1 : p[j] < p[k]
           /\ \A j \in 1 .. Len(feed) : feed[j] < p[k]
  BY LenProperties DEF PublicationsInOrder, QueuesOK, Clients
<1>3. CASE i \in 1 .. Len(p) /\ t[i] = p[i]
  <2>1. ~Switching(p[i])
    BY <1>1, <1>3, Same DEF ActorStep
  <2> HIDE DEF p, t
  <2>2. \A j \in 1 .. i - 1 : j \in 1 .. Len(p) /\ j # Len(p) + 1 /\ j \in 1 .. Len(t)
    BY <1>2, <1>3
  <2> QED
    BY <1>1, <1>2, <1>3, <2>1, <2>2
<1>4. CASE i = Len(p) + 1 /\ t[i] = h /\ t # p
  <2>1. pc'[h] \in Commands /\ ClientOf(pc'[h]) = "publisher"
    BY <1>4 DEF ActorStep, Clients
  <2>2. pc'[h] = "broadcast"
    BY <2>1 DEF Commands, ConnectionCommands, UserCommands, TrackerCommands, ClientOf
  <2>3. \A f \in Consumed : f < h
    BY <1>4, <2>2
  <2> HIDE DEF p, t
  <2>4. \A j \in 1 .. i - 1 : j \in 1 .. Len(p) /\ j # Len(p) + 1 /\ j \in 1 .. Len(t)
    BY <1>2, <1>4
  <2> QED
    BY <1>1, <1>4, <2>3, <2>4 DEF EffectsConsumed
<1> QED
  BY <1>1, <1>3, <1>4

\* A handler that a reply to the check resumes is the first of those that ask,
\* and whoever asked after it still does.
LEMMA FirstAsking ==
    ASSUME QueuesOK, HandlersConsumed, QueuesExact, AskedInOrder,
           NEW h \in Handlers, NEW command \in {"granted", "refused"}, Resume(h, command)
    PROVE  /\ h \in Consumed
           /\ \A g \in Handlers : pc[g] \in Asking => g = h \/ h < g
           /\ \A g \in Consumed : h < g /\ Asks(g) => pc[g] \in Asking
<1>1. /\ ClientOf(command) = "connection" /\ "connection" \in Clients
      /\ command \in Asking /\ command # "idle"
  BY DEF ClientOf, UserCommands, TrackerCommands, Clients, Asking
<1>2. pc[h] = command /\ 1 \in Slots("connection") /\ Queue("connection")[1] = h
  BY <1>1, ResumeHead
<1>3. h \in Consumed
  BY <1>1, <1>2 DEF HandlersConsumed
<1>4. ASSUME NEW g \in Handlers, pc[g] \in Asking, g # h
      PROVE  h < g
  <2>1. PICK j \in Slots("connection") : Queue("connection")[j] = g
    BY <1>4 DEF QueuesExact
  <2>2. j \in Nat \ {0} /\ j # 1
    BY <1>1, <1>2, <1>4, <2>1, QueueType, LenProperties DEF Slots
  <2>3. 1 < j
    BY <2>2
  <2> QED
    BY <1>1, <1>2, <1>4, <2>1, <2>3 DEF AskedInOrder
<1>5. \A g \in Consumed : h < g /\ Asks(g) => pc[g] \in Asking
  BY <1>1, <1>2, <1>3 DEF AskedInOrder
<1> QED
  BY <1>3, <1>4, <1>5

LEMMA PendingStep ==
    ASSUME QueuesOK, QueuesExact, NEW h \in Handlers, ActorStep(h),
           Consumed \subseteq Handlers, Consumed' \subseteq Consumed \cup {h},
           NEW k \in Connections
    PROVE  /\ PendingCurrent(k)' \ {h} = PendingCurrent(k)
           /\ pc'[h] # "setCurrent" => h \notin PendingCurrent(k)'
<1> DEFINE p == pipe["connection"]
           t == pipe'["connection"]
<1>1. /\ \A i \in 1 .. Len(p) : p[i] # h /\ i \in 1 .. Len(t) /\ t[i] = p[i]
      /\ \A i \in 1 .. Len(t) : t[i] # h => i \in 1 .. Len(p) /\ t[i] = p[i]
  BY PipeKeeps DEF ActorStep, Unsent, Clients
<1>2. h \notin PendingCurrent(k)
  BY <1>1 DEF PendingCurrent
<1>3. ASSUME NEW g, g # h
      PROVE  g \in PendingCurrent(k)' <=> g \in PendingCurrent(k)
  <2>1. g \in Consumed' <=> g \in Consumed
    BY <1>3 DEF ActorStep
  <2>2. CASE g \notin Consumed
    BY <2>1, <2>2 DEF PendingCurrent
  <2>3. CASE g \in Consumed
    <3>1. pc'[g] = pc[g] /\ Conn(g)' = Conn(g)
      BY <1>3, <2>3, Same DEF ActorStep
    <3>2. (\E i \in 1 .. Len(t) : t[i] = g) <=> (\E i \in 1 .. Len(p) : p[i] = g)
      BY <1>1, <1>3
    <3> HIDE DEF p, t
    <3>3. g \in PendingCurrent(k) <=>
            pc[g] = "setCurrent" /\ Conn(g) = k /\ \E i \in 1 .. Len(p) : p[i] = g
      BY <2>3 DEF PendingCurrent, p
    <3>4. g \in PendingCurrent(k)' <=>
            pc'[g] = "setCurrent" /\ Conn(g)' = k /\ \E i \in 1 .. Len(t) : t[i] = g
      BY <2>1, <2>3 DEF PendingCurrent, t
    <3> QED
      BY <3>1, <3>2, <3>3, <3>4
  <2> QED
    BY <2>2, <2>3
<1>4. pc'[h] # "setCurrent" => h \notin PendingCurrent(k)'
  BY DEF PendingCurrent
<1> QED
  BY <1>2, <1>3, <1>4

\* Steps that write neither the map nor the record.
LEMMA CurrentStays ==
    ASSUME QueuesOK, QueuesExact, CurrentFollowsMap, NEW h \in Handlers, ActorStep(h),
           Consumed \subseteq Handlers, Consumed' \subseteq Consumed \cup {h},
           pc'[h] # "setCurrent", NEW k \in Connections,
           players'[k] = players[k], sessions'[k].current = sessions[k].current
    PROVE  players'[k] # Nobody =>
             IF PendingCurrent(k)' = {}
             THEN \/ sessions'[k].current = players'[k]
                  \/ sessions'[k].current = Nobody /\ ConnectionStoreTtl
             ELSE \E g \in PendingCurrent(k)' :
                     /\ log'[g].name = players'[k]
                     /\ \A f \in PendingCurrent(k)' : f <= g
<1>1. PendingCurrent(k)' = PendingCurrent(k)
  BY PendingStep
<1>2. \A g \in PendingCurrent(k) : log'[g] = log[g]
  BY DEF PendingCurrent, ActorStep
<1> QED
  BY <1>1, <1>2 DEF CurrentFollowsMap

LEMMA GrantsStep ==
    ASSUME NEW h \in Handlers, ActorStep(h), Consumed \subseteq Handlers,
           Consumed' \subseteq Consumed \cup {h}, NEW k \in Connections
    PROVE  GrantsOf(k)' \ {h} = GrantsOf(k) \ {h}
<1> SUFFICES ASSUME NEW g, g # h
             PROVE  g \in GrantsOf(k)' <=> g \in GrantsOf(k)
  OBVIOUS
<1>1. g \in Consumed' <=> g \in Consumed
  BY DEF ActorStep
<1>2. CASE g \notin Consumed
  BY <1>1, <1>2 DEF GrantsOf
<1>3. CASE g \in Consumed
  <2>1. pc'[g] = pc[g] /\ log'[g] = log[g] /\ Conn(g)' = Conn(g)
        /\ (Switching(g)' <=> Switching(g))
    BY <1>3, Same DEF ActorStep
  <2>2. Decided(g)' <=> Decided(g)
    BY <2>1 DEF Decided
  <2> QED
    BY <1>1, <1>3, <2>1, <2>2 DEF GrantsOf
<1> QED
  BY <1>2, <1>3

LEMMA MapStays ==
    ASSUME MapFollowsGrants, ~ConnectionStoreTtl, NEW h \in Handlers, ActorStep(h),
           Consumed \subseteq Handlers, Consumed' \subseteq Consumed \cup {h},
           NEW k \in Connections, h \in GrantsOf(k)' <=> h \in GrantsOf(k),
           players'[k] = players[k]
    PROVE  players'[k] # Nobody =>
             \E g \in GrantsOf(k)' : /\ players'[k] = log'[g].name
                                     /\ \A f \in GrantsOf(k)' : f <= g
<1>1. GrantsOf(k)' = GrantsOf(k)
  BY GrantsStep
<1>2. \A g \in GrantsOf(k) : log'[g] = log[g]
  BY DEF GrantsOf, ActorStep
<1> QED
  BY <1>1, <1>2 DEF MapFollowsGrants

LEMMA CountsStep ==
    ASSUME QueuesOK, HandlersConsumed, CountsExpire, NEW h \in Handlers, ActorStep(h),
           Consumed \subseteq Handlers, pc[h] # "lost",
           pc[h] = "increase" /\ ConnectionStoreTtl =>
               pc'[h] = "expire" /\ pipe'["connection"] = Append(pipe["connection"], h)
    PROVE  CountsExpire'
<1> DEFINE p == pipe["connection"]
           t == pipe'["connection"]
<1> SUFFICES ASSUME ConnectionStoreTtl, NEW k \in Connections,
                    sessions[k].counted, ~sessions[k].ttl
             PROVE  \E g \in Consumed' :
                      /\ Conn(g)' = k
                      /\ \/ pc'[g] \in {"increase", "lost"}
                         \/ pc'[g] = "expire" /\ \E i \in 1 .. Len(t) : t[i] = g
  BY DEF CountsExpire, ActorStep, store
<1>1. PICK g \in Consumed :
        /\ Conn(g) = k
        /\ \/ pc[g] \in {"increase", "lost"}
           \/ pc[g] = "expire" /\ \E i \in 1 .. Len(p) : p[i] = g
  BY DEF CountsExpire
<1>2. g \in Consumed' /\ g \in Handlers /\ Conn(g)' = Conn(g)
  BY Same DEF ActorStep
<1>3. /\ \A i \in 1 .. Len(p) : p[i] # h /\ i \in 1 .. Len(t) /\ t[i] = p[i]
  BY PipeKeeps DEF ActorStep, Unsent, Clients
<1>4. CASE g # h
  <2>1. pc'[g] = pc[g]
    BY <1>2, <1>4 DEF ActorStep
  <2> HIDE DEF p, t
  <2> QED
    BY <1>1, <1>2, <1>3, <2>1
<1>5. CASE g = h
  <2>1. pc[h] = "increase"
    BY <1>1, <1>3, <1>5
  <2>2. pc'[h] = "expire" /\ t = Append(p, h)
    BY <2>1
  <2>3. p \in Seq(Handlers)
    BY DEF QueuesOK, Clients
  <2> HIDE DEF p, t
  <2>4. Len(p) + 1 \in 1 .. Len(t) /\ t[Len(p) + 1] = h
    BY <2>2, <2>3, AppendProperties, LenProperties
  <2> QED
    BY <1>1, <1>2, <1>5, <2>2, <2>4
<1> QED
  BY <1>4, <1>5

LEMMA FeedStays ==
    ASSUME EffectsConsumed, FeedInOrder, UNCHANGED feed,
           \A g \in Consumed : log'[g] = log[g] /\ seen'[g] = seen[g]
    PROVE  FeedInOrder'
<1>1. \A i \in 1 .. Len(feed) : Switching(feed[i])' <=> Switching(feed[i])
  BY Same DEF EffectsConsumed
<1> QED
  BY <1>1 DEF FeedInOrder

Ordered ==
    /\ QueuesExact /\ AskersAsk /\ AskedInOrder /\ CurrentsInOrder
    /\ PublicationsInOrder /\ AnswersTrue /\ CountsExpire
    /\ FeedInOrder /\ MapFollowsGrants /\ CurrentFollowsMap

LEMMA PcNames ==
    /\ Asking \cap Commands = {"getAllowed"} /\ "idle" \notin Commands \cup Asking
    /\ "lost" \notin Commands \cup Asking /\ "done" \notin Commands \cup Asking
    /\ "granted" \notin Commands /\ "refused" \notin Commands
    /\ {"broadcast", "setCurrent", "increase", "expire", "addPoint",
        "removePosition", "keepAlive"} \subseteq Commands \ Asking
BY DEF Asking, Commands, ConnectionCommands, UserCommands, TrackerCommands

\* A handler that resumes leaves its question, and the queues stay exact.
LEMMA ResumptionQueues ==
    ASSUME TypeOK, QueuesOK', QueuesExact, NEW h \in Handlers, ResumeAny(h) \/ FailPoint(h)
    PROVE  /\ QueuesExact' /\ ActorStep(h)
           /\ pc'[h] \notin Asking
           /\ up /\ UNCHANGED <<log, seen, store>>
<1>1. PICK command \in Commands \cup {"granted", "refused"} :
        /\ Resume(h, command)
        /\ \/ Finish(h)
           \/ \E next \in Commands \ {"getAllowed"} : Send(h, next)
           \/ command = "addPoint" /\ UNCHANGED <<pc, pipe>>
  BY ResumptionForms, CommandTypes
<1>2. ActorStep(h)
  BY <1>1, CommandTypes, ResumptionActs
<1>3. QueuesOK /\ pc \in [Handlers -> Commands \cup Outcomes] /\ pc[h] = command
  BY <1>1 DEF TypeOK, MemoryOK, Resume
<1>4. pc'[h] \in {"done", "addPoint"} \cup (Commands \ {"getAllowed"})
  BY <1>1, <1>3, SendEffect DEF Finish
<1>5. pc'[h] \notin Asking
  BY <1>4, PcNames
<1>6. QueuesExact'
  BY <1>2, <1>3, <1>5, QueuesStep
<1> QED
  BY <1>1, <1>2, <1>5, <1>6 DEF Resume

LEMMA ResumptionOrder ==
    ASSUME AuthorisedInv, Ordered, QueuesOK',
           NEW h \in Handlers, ResumeAny(h) \/ FailPoint(h)
    PROVE  Ordered'
<1>1. /\ TypeOK /\ QueuesOK /\ HandlersConsumed /\ EffectsConsumed /\ NamesAllowed
      /\ QueuesExact /\ AskersAsk /\ AskedInOrder /\ CurrentsInOrder
      /\ PublicationsInOrder /\ AnswersTrue /\ CountsExpire
      /\ FeedInOrder /\ MapFollowsGrants /\ CurrentFollowsMap
  BY DEF AuthorisedInv, Ordered, TypeOK
<1>2. PICK command \in Commands \cup {"granted", "refused"} :
        /\ Resume(h, command)
        /\ \/ /\ command = "granted" /\ Send(h, "setCurrent") /\ up' = up
              /\ players' = [players EXCEPT ![Conn(h)] = log[h].name]
           \/ /\ command \in {"refused", "increase", "expire", "addPoint"}
              /\ Finish(h) /\ UNCHANGED <<players, up>>
              /\ command = "increase" => ~ConnectionStoreTtl
           \/ /\ command \in Commands \ {"getAllowed"} /\ UNCHANGED <<players, up>>
              /\ \E next \in Commands \ {"getAllowed", "setCurrent"} :
                   /\ Send(h, next)
                   /\ next \in Announcing \cup {"keepAlive", "removePosition"} =>
                        command \in Announcing \cup {"keepAlive", "removePosition"}
                   /\ next = "broadcast" => command = "removePosition"
                   /\ next = "expire" <=> command = "increase" /\ ConnectionStoreTtl
           \/ command = "addPoint" /\ UNCHANGED <<pc, pipe>>
              /\ up' = FALSE /\ players' = Unknown
  BY ResumptionForms
<1>3. /\ pc[h] = command /\ up
      /\ pc \in [Handlers -> Commands \cup Outcomes]
      /\ h \in Consumed /\ Consumed \subseteq Handlers /\ Consumed' = Consumed
      /\ UNCHANGED <<log, seen, store>>
  BY <1>1, <1>2, ConsumedHandlers, PcNames
     DEF Resume, TypeOK, MemoryOK, HandlersConsumed, Consumed
<1>4. ActorStep(h)
  BY <1>1, <1>2, CommandTypes, ResumptionActs
<1>5. \/ /\ command = "granted" /\ pc'[h] = "setCurrent" /\ up' = up
         /\ players' = [players EXCEPT ![Conn(h)] = log[h].name]
         /\ pipe'["connection"] = Append(pipe["connection"], h)
      \/ /\ command \in {"refused", "increase", "expire", "addPoint"}
         /\ pc'[h] = "done" /\ UNCHANGED <<players, up>>
         /\ command = "increase" => ~ConnectionStoreTtl
      \/ /\ command \in Commands \ {"getAllowed"} /\ UNCHANGED <<players, up>>
         /\ pc'[h] \in Commands \ {"getAllowed", "setCurrent"}
         /\ pc'[h] \in Announcing \cup {"keepAlive", "removePosition"} =>
              command \in Announcing \cup {"keepAlive", "removePosition"}
         /\ pc'[h] = "broadcast" => command = "removePosition"
         /\ command = "increase" /\ ConnectionStoreTtl =>
              /\ pc'[h] = "expire"
              /\ pipe'["connection"] = Append(pipe["connection"], h)
         /\ pc'[h] = "expire" => ConnectionStoreTtl
      \/ /\ command = "addPoint" /\ UNCHANGED pc
         /\ up' = FALSE /\ players' = Unknown
  <2>1. /\ ClientOf("setCurrent") = "connection" /\ ClientOf("expire") = "connection"
        /\ "setCurrent" \in Commands
    BY CommandTypes DEF ClientOf, UserCommands, TrackerCommands
  <2>2. CASE /\ command = "granted" /\ Send(h, "setCurrent") /\ up' = up
             /\ players' = [players EXCEPT ![Conn(h)] = log[h].name]
    BY <1>1, <1>3, <2>1, <2>2, SendEffect
  <2>3. CASE /\ command \in {"refused", "increase", "expire", "addPoint"}
             /\ Finish(h) /\ UNCHANGED <<players, up>>
             /\ command = "increase" => ~ConnectionStoreTtl
    BY <1>3, <2>3 DEF Finish
  <2>4. ASSUME NEW next \in Commands \ {"getAllowed", "setCurrent"}, Send(h, next),
               command \in Commands \ {"getAllowed"}, UNCHANGED <<players, up>>,
               next \in Announcing \cup {"keepAlive", "removePosition"} =>
                 command \in Announcing \cup {"keepAlive", "removePosition"},
               next = "broadcast" => command = "removePosition",
               next = "expire" <=> command = "increase" /\ ConnectionStoreTtl
        PROVE  /\ pc'[h] = next
               /\ next = "expire" =>
                    pipe'["connection"] = Append(pipe["connection"], h)
    BY <1>1, <1>3, <2>1, <2>4, SendEffect
  <2> QED
    BY <1>2, <2>2, <2>3, <2>4
<1>6. pc'[h] \notin Asking /\ \A g \in Handlers \ {h} : pc'[g] = pc[g]
  BY <1>3, <1>4, <1>5, PcNames DEF ActorStep, Asking
<1>a. pc'[h] = "setCurrent" => command = "granted"
  <2>1. "done" # "setCurrent" /\ "addPoint" # "setCurrent"
    OBVIOUS
  <2>2. CASE UNCHANGED pc
    BY <1>3, <1>5, <2>1, <2>2
  <2>3. CASE pc'[h] = "done"
    BY <2>1, <2>3
  <2>4. CASE pc'[h] \in Commands \ {"getAllowed", "setCurrent"}
    BY <2>4
  <2> QED
    BY <1>5, <2>2, <2>3, <2>4
<1>7. QueuesExact'
  BY <1>1, ResumptionQueues
<1>8. \A g \in Handlers : (Asks(g)' <=> Asks(g)) /\ (Switching(g)' <=> Switching(g))
                          /\ Conn(g)' = Conn(g)
  BY <1>3, Same
<1>9. AskersAsk'
  <2>1. ASSUME pc'[h] \in Announcing \cup {"refused", "keepAlive", "removePosition"}
        PROVE  pc[h] \in Announcing \cup {"refused", "keepAlive", "removePosition"}
    BY <1>3, <1>5, <2>1, PcNames DEF Announcing
  <2> QED
    BY <1>1, <1>6, <1>8, <2>1 DEF AskersAsk
<1>10. ASSUME NEW g \in Consumed, g < h, pc[g] \in Asking, Asks(h)
       PROVE  FALSE
  <2>1. CASE command \in {"granted", "refused"}
    <3>1. g \in Handlers /\ (g = h \/ h < g)
      BY <1>1, <1>2, <1>3, <1>10, <2>1, FirstAsking
    <3> QED
      BY <1>10, <3>1 DEF Handlers
  <2>2. CASE command \notin {"granted", "refused"}
    <3>1. pc[h] \notin Asking
      BY <1>2, <1>3, <1>5, <2>2, PcNames DEF Asking
    <3> QED
      BY <1>1, <1>3, <1>10, <3>1 DEF AskedInOrder
  <2> QED
    BY <2>1, <2>2
<1>11. AskedInOrder'
  BY <1>1, <1>3, <1>4, <1>6, <1>8, <1>10, AskedStep
<1>12. ASSUME command = "granted", NEW g \in Consumed, pc[g] \notin Asking, Asks(g)
       PROVE  g < h
  <2>1. ~(h < g)
    BY <1>1, <1>2, <1>12, FirstAsking
  <2>2. g # h
    BY <1>3, <1>12 DEF Asking
  <2> QED
    BY <1>3, <2>1, <2>2 DEF Handlers
<1>13. CurrentsInOrder'
  <2>1. ASSUME pc'[h] = "setCurrent", NEW g \in Handlers, pc[g] = "setCurrent"
        PROVE  g < h
    <3>2. command = "granted"
      BY <1>a, <2>1
    <3>3. Asks(g) /\ g \in Consumed /\ pc[g] \notin Asking
      BY <1>1, <2>1, PcNames DEF AskersAsk, Announcing, HandlersConsumed
    <3> QED
      BY <1>12, <3>2, <3>3
  <2> QED
    BY <1>1, <1>4, <2>1, CurrentsStep
<1>14. PublicationsInOrder'
  <2>1. ASSUME pc'[h] = "broadcast" PROVE Switching(h)'
    <3>1. command = "removePosition"
      BY <1>3, <1>5, <2>1
    <3> QED
      BY <1>1, <1>3, <1>8, <3>1 DEF AskersAsk, Asks
  <2> QED
    BY <1>1, <1>4, <2>1, PublicationsStep
<1>15. FeedInOrder'
  BY <1>1, <1>3, FeedStays DEF store
<1>16. CountsExpire'
  <2>1. pc[h] # "lost"
    BY <1>3, PcNames, <1>5
  <2>2. pc[h] = "increase" /\ ConnectionStoreTtl =>
          pc'[h] = "expire" /\ pipe'["connection"] = Append(pipe["connection"], h)
    BY <1>3, <1>5
  <2> QED
    BY <1>1, <1>3, <1>4, <2>1, <2>2, CountsStep
<1>17. AnswersTrue'
  <2>1. ASSUME ~ConnectionStoreTtl, NEW g \in Handlers
        PROVE  /\ pc'[g] # "expire"
               /\ pc'[g] = "refused" => log'[g].name \notin Allowed[Conn(g)']
    <3>1. CASE g # h
      BY <1>1, <1>3, <1>6, <1>8, <2>1, <3>1 DEF AnswersTrue
    <3>2. CASE g = h
      BY <1>3, <1>5, <1>6, <2>1, <3>2, PcNames DEF Asking
    <3> QED
      BY <3>1, <3>2
  <2>2. up' = FALSE => players' = Unknown
    BY <1>3, <1>5
  <2>3. up' \in BOOLEAN
    BY <1>1, <1>3, <1>5 DEF TypeOK, MemoryOK
  <2> QED
    BY <1>1, <1>3, <2>1, <2>2, <2>3 DEF AnswersTrue, store
<1>18. MapFollowsGrants'
  <2> SUFFICES ASSUME ~ConnectionStoreTtl, NEW k \in Connections, players'[k] # Nobody
               PROVE  \E g \in GrantsOf(k)' : /\ players'[k] = log'[g].name
                                              /\ \A f \in GrantsOf(k)' : f <= g
    BY DEF MapFollowsGrants
  <2>1. CASE players'[k] = players[k] /\ (h \in GrantsOf(k)' <=> h \in GrantsOf(k))
    BY <1>1, <1>3, <1>4, <2>1, MapStays
  <2>2. CASE command = "granted" /\ Conn(h) = k
    <3>1. /\ pc[h] = "granted" /\ pc'[h] = "setCurrent" /\ players'[k] = log[h].name
          /\ players \in [Connections -> Characters \cup {Nobody}]
      BY <1>1, <1>3, <1>5, <2>2, PcNames DEF TypeOK, MemoryOK
    <3>2. Asks(h) /\ log[h].name \in Allowed[k]
      <4>1. Named(log[h]) /\ Asks(h) /\ MayCarry(h)
        BY <1>1, <1>3, <3>1
           DEF AskersAsk, HandlersConsumed, Announcing, NamesAllowed, Cleared
      <4> QED
        BY <2>2, <4>1, NamesAssumption DEF MayCarry, Label, Named
    <3>3. h \in GrantsOf(k)'
      BY <1>3, <1>8, <2>2, <3>1, <3>2 DEF GrantsOf, Decided, Asks
    <3>4. ASSUME NEW g \in GrantsOf(k)' PROVE g <= h
      <4>1. CASE g = h
        BY <4>1 DEF Handlers
      <4>2. CASE g # h
        <5>1. g \in GrantsOf(k)
          BY <1>3, <1>4, <3>4, <4>2, GrantsStep
        <5>2. g \in Consumed /\ pc[g] \notin Asking /\ Asks(g)
          BY <5>1 DEF GrantsOf, Decided, Asking, Asks
        <5> QED
          BY <1>3, <1>12, <2>2, <5>2 DEF Handlers
      <4> QED
        BY <4>1, <4>2
    <3> QED
      BY <1>3, <3>1, <3>3, <3>4
  <2>3. CASE command = "granted" /\ Conn(h) # k
    <3>1. players'[k] = players[k]
      BY <1>1, <1>3, <1>5, <2>3, PcNames DEF TypeOK, MemoryOK
    <3>2. h \notin GrantsOf(k) /\ h \notin GrantsOf(k)'
      BY <1>8, <2>3 DEF GrantsOf
    <3> QED
      BY <2>1, <3>1, <3>2
  <2>4. CASE command = "refused"
    <3>1. players'[k] = players[k]
      BY <1>5, <2>4, PcNames
    <3>2. h \notin GrantsOf(k) /\ h \notin GrantsOf(k)'
      BY <1>1, <1>3, <1>8, <2>4 DEF GrantsOf, AnswersTrue
    <3> QED
      BY <2>1, <3>1, <3>2
  <2>5. CASE command \notin {"granted", "refused"}
    <3>1. players' # Unknown
      BY DEF Unknown
    <3>2. players'[k] = players[k] /\ Decided(h) /\ Decided(h)'
      BY <1>3, <1>5, <1>6, <2>5, <3>1, PcNames DEF Decided, Asking
    <3>3. h \in GrantsOf(k)' <=> h \in GrantsOf(k)
      BY <1>3, <1>8, <3>2 DEF GrantsOf
    <3> QED
      BY <2>1, <3>2, <3>3
  <2> QED
    BY <2>2, <2>3, <2>4, <2>5
<1>19. CurrentFollowsMap'
  <2> SUFFICES ASSUME NEW k \in Connections, players'[k] # Nobody
               PROVE  IF PendingCurrent(k)' = {}
                      THEN \/ sessions'[k].current = players'[k]
                           \/ sessions'[k].current = Nobody /\ ConnectionStoreTtl
                      ELSE \E g \in PendingCurrent(k)' :
                              /\ log'[g].name = players'[k]
                              /\ \A f \in PendingCurrent(k)' : f <= g
    BY DEF CurrentFollowsMap
  <2>1. sessions' = sessions
    BY <1>3 DEF store
  <2>2. CASE command = "granted"
    <3>1. /\ pc'[h] = "setCurrent" /\ pipe'["connection"] = Append(pipe["connection"], h)
          /\ players' = [players EXCEPT ![Conn(h)] = log[h].name]
          /\ players \in [Connections -> Characters \cup {Nobody}]
      BY <1>1, <1>3, <1>5, <2>2, PcNames DEF TypeOK, MemoryOK
    <3>2. PendingCurrent(k)' \ {h} = PendingCurrent(k)
      BY <1>1, <1>3, <1>4, PendingStep
    <3>3. CASE Conn(h) = k
      <4>1. \E i \in 1 .. Len(pipe'["connection"]) : pipe'["connection"][i] = h
        <5>1. pipe["connection"] \in Seq(Handlers)
          BY <1>1 DEF QueuesOK, Clients
        <5> QED
          BY <3>1, <5>1, AppendProperties, LenProperties
      <4>2. h \in PendingCurrent(k)'
        BY <1>3, <1>8, <3>1, <3>3, <4>1 DEF PendingCurrent
      <4>3. ASSUME NEW f \in PendingCurrent(k)' PROVE f <= h
        <5>1. CASE f = h
          BY <5>1 DEF Handlers
        <5>2. CASE f # h
          <6>1. f \in Consumed /\ pc[f] = "setCurrent"
            BY <3>2, <4>3, <5>2 DEF PendingCurrent
          <6>2. Asks(f) /\ pc[f] \notin Asking
            BY <1>1, <1>3, <6>1, PcNames DEF AskersAsk, Announcing
          <6> QED
            BY <1>3, <1>12, <2>2, <6>1, <6>2 DEF Handlers
        <5> QED
          BY <5>1, <5>2
      <4>4. log'[h].name = players'[k]
        BY <1>3, <3>1, <3>3
      <4> QED
        BY <4>2, <4>3, <4>4
    <3>4. CASE Conn(h) # k
      <4>1. PendingCurrent(k)' = PendingCurrent(k)
        BY <1>8, <3>2, <3>4 DEF PendingCurrent
      <4>2. players'[k] = players[k]
        BY <3>1, <3>4
      <4> QED
        BY <1>1, <1>3, <2>1, <4>1, <4>2 DEF CurrentFollowsMap
    <3> QED
      BY <3>3, <3>4
  <2>3. CASE command # "granted"
    <3>1. players' # Unknown
      BY DEF Unknown
    <3>2. players' = players /\ pc'[h] # "setCurrent"
      BY <1>3, <1>5, <2>3, <3>1, PcNames
    <3> QED
      BY <1>1, <1>3, <1>4, <2>1, <3>2, CurrentStays
  <2> QED
    BY <2>2, <2>3
<1> QED
  BY <1>7, <1>9, <1>11, <1>13, <1>14, <1>15, <1>16, <1>17, <1>18, <1>19 DEF Ordered

LEMMA ArrivalQueues ==
    ASSUME TypeOK, QueuesOK', HandlersConsumed, QueuesExact, NEW m \in Messages,
           Discard(m) \/ Ignore(m) \/ AskAllowed(m) \/ Relay(m)
    PROVE  QueuesExact'
<1>1. PICK h : h = Len(log) + 1
  OBVIOUS
<1>2. QueuesOK /\ ActorStep(h) /\ h \in Handlers
  BY <1>1, ArrivalActs DEF TypeOK
<1>3. /\ UNCHANGED replies
      /\ Finish(h) \/ \E next \in {"getAllowed", "broadcast", "increase"} : Send(h, next)
  BY <1>1, ArrivalForms DEF Arrive
<1>4. pc'[h] \in Asking => pipe'["connection"] = Append(pipe["connection"], h)
  <2>1. pc \in [Handlers -> Commands \cup Outcomes]
    BY DEF TypeOK, MemoryOK
  <2>2. CASE Finish(h)
    BY <1>2, <2>1, <2>2 DEF Finish, Asking
  <2>3. ASSUME NEW next \in {"broadcast", "increase"}, Send(h, next)
        PROVE  pc'[h] \notin Asking
    BY <1>2, <2>1, <2>3, SendEffect DEF Asking
  <2>4. CASE Send(h, "getAllowed")
    <3>1. ClientOf("getAllowed") = "connection"
      BY DEF ClientOf, UserCommands, TrackerCommands
    <3> QED
      BY <1>2, <2>1, <2>4, <3>1, SendEffect
  <2> QED
    BY <1>3, <2>2, <2>3, <2>4
<1>5. ASSUME pc'[h] \in Asking
      PROVE  \E i \in Slots("connection")' : Queue("connection")'[i] = h
  <2> DEFINE q == Queue("connection")
             t == Queue("connection")'
  <2>1. /\ replies["connection"] \in Seq(Handlers) /\ pipe["connection"] \in Seq(Handlers)
        /\ q \in Seq(Handlers)
    BY <1>2, QueueType DEF Clients
  <2>2. \A r, p \in Seq(Handlers) : r \o Append(p, h) = Append(r \o p, h)
    BY <1>2, AppendConcat
  <2>3. t = Append(q, h)
    BY <1>3, <1>4, <1>5, <2>1, <2>2 DEF Queue
  <2> HIDE DEF q, t
  <2>4. Len(t) \in 1 .. Len(t) /\ t[Len(t)] = h
    BY <1>2, <2>1, <2>3, AppendProperties, LenProperties
  <2> QED
    BY <2>4 DEF Slots, t
<1> QED
  BY <1>2, <1>5, QueuesStep

LEMMA ArrivalOrder ==
    ASSUME AuthorisedInv, Ordered, QueuesOK', NEW m \in Messages,
           Discard(m) \/ Ignore(m) \/ AskAllowed(m) \/ Relay(m)
    PROVE  Ordered'
<1>1. /\ TypeOK /\ QueuesOK /\ HandlersConsumed /\ EffectsConsumed
      /\ QueuesExact /\ AskersAsk /\ AskedInOrder /\ CurrentsInOrder
      /\ PublicationsInOrder /\ AnswersTrue /\ CountsExpire
      /\ FeedInOrder /\ MapFollowsGrants /\ CurrentFollowsMap
  BY DEF AuthorisedInv, Ordered, TypeOK
<1>2. PICK h : h = Len(log) + 1
  OBVIOUS
<1>3. /\ ActorStep(h) /\ h \in Handlers /\ pc[h] = "idle"
      /\ Consumed' = Consumed \cup {h} /\ UNCHANGED <<players, up>>
      /\ \A g \in Consumed : g < h
  BY <1>1, <1>2, ArrivalActs
<1>4. /\ Consumed \subseteq Handlers /\ Handlers \subseteq Nat /\ h \notin Consumed
      /\ pc \in [Handlers -> Commands \cup Outcomes] /\ UNCHANGED store
  <2>1. Consumed \subseteq Handlers /\ Handlers \subseteq Nat
    BY <1>1, ConsumedHandlers DEF Handlers
  <2> QED
    BY <1>1, <1>3, <2>1 DEF TypeOK, MemoryOK, ActorStep
<1>5. \/ pc'[h] = "done" /\ ~Asks(h)'
      \/ /\ pc'[h] = "getAllowed" /\ Asks(h)'
         /\ pipe'["connection"] = Append(pipe["connection"], h) /\ UNCHANGED replies
      \/ pc'[h] \in {"broadcast", "increase"} /\ ~Switching(h)'
  <2>1. /\ Arrive(m)
        /\ \/ Finish(h) /\ ~Asks(h)'
           \/ Send(h, "getAllowed") /\ Asks(h)'
           \/ /\ ~Switching(h)'
              /\ \E next \in {"broadcast", "increase"} : Send(h, next)
    BY <1>1, <1>2, ArrivalForms
  <2>2. CASE Finish(h) /\ ~Asks(h)'
    BY <1>3, <1>4, <2>2 DEF Finish
  <2>3. CASE Send(h, "getAllowed") /\ Asks(h)'
    <3>1. ClientOf("getAllowed") = "connection"
      BY DEF ClientOf, UserCommands, TrackerCommands
    <3> QED
      BY <1>1, <1>3, <1>4, <2>1, <2>3, <3>1, SendEffect DEF Arrive
  <2>4. CASE ~Switching(h)' /\ \E next \in {"broadcast", "increase"} : Send(h, next)
    BY <1>1, <1>3, <1>4, <2>4, SendEffect
  <2> QED
    BY <2>1, <2>2, <2>3, <2>4
<1>6. /\ \A g \in Handlers \ {h} : pc'[g] = pc[g]
      /\ pc'[h] \notin {"setCurrent", "expire", "granted", "refused"}
      /\ pc'[h] \in Asking => pc'[h] = "getAllowed"
  BY <1>3, <1>5 DEF ActorStep, Asking
<1>7. \A g \in Consumed : (Asks(g)' <=> Asks(g)) /\ (Switching(g)' <=> Switching(g))
                          /\ Conn(g)' = Conn(g) /\ log'[g] = log[g] /\ seen'[g] = seen[g]
  BY <1>3, Same DEF ActorStep
<1>8. QueuesExact'
  BY <1>1, ArrivalQueues
<1>9. AskersAsk'
  <2> SUFFICES ASSUME NEW g \in Handlers,
                      pc'[g] \in Announcing \cup {"refused", "keepAlive", "removePosition"}
               PROVE  Asks(g)'
    BY DEF AskersAsk
  <2>1. CASE g = h
    BY <1>5, <2>1 DEF Announcing
  <2>2. CASE g # h
    <3>1. pc'[g] = pc[g] /\ pc[g] # "idle"
      BY <1>6, <2>2 DEF Announcing
    <3> QED
      BY <1>1, <1>7, <3>1 DEF AskersAsk, HandlersConsumed
  <2> QED
    BY <2>1, <2>2
<1>10. AskedInOrder'
  <2>1. Asks(h)' => pc'[h] \in Asking
    BY <1>5 DEF Asking, Asks
  <2> QED
    BY <1>1, <1>3, <1>4, <2>1, AskedStep
<1>11. CurrentsInOrder'
  BY <1>1, <1>3, <1>6, CurrentsStep
<1>12. PublicationsInOrder'
  BY <1>1, <1>3, PublicationsStep
<1>13. FeedInOrder'
  BY <1>1, <1>4, <1>7, FeedStays DEF store
<1>14. CountsExpire'
  BY <1>1, <1>3, <1>4, CountsStep
<1>15. AnswersTrue'
  <2>1. ASSUME ~ConnectionStoreTtl, NEW g \in Handlers
        PROVE  /\ pc'[g] # "expire"
               /\ pc'[g] = "refused" => log'[g].name \notin Allowed[Conn(g)']
    <3>1. CASE g = h
      BY <1>6, <3>1
    <3>2. CASE g # h
      BY <1>1, <1>6, <1>7, <2>1, <3>2 DEF AnswersTrue, HandlersConsumed
    <3> QED
      BY <3>1, <3>2
  <2> QED
    BY <1>1, <1>3, <1>4, <2>1 DEF AnswersTrue, store
<1>16. MapFollowsGrants'
  <2> SUFFICES ASSUME ~ConnectionStoreTtl, NEW k \in Connections, players'[k] # Nobody
               PROVE  \E g \in GrantsOf(k)' : /\ players'[k] = log'[g].name
                                              /\ \A f \in GrantsOf(k)' : f <= g
    BY DEF MapFollowsGrants
  <2>1. h \notin GrantsOf(k)
    BY <1>4 DEF GrantsOf
  <2>2. h \notin GrantsOf(k)'
    BY <1>5 DEF GrantsOf, Decided, Asks
  <2>3. players'[k] = players[k] /\ Consumed' \subseteq Consumed \cup {h}
    BY <1>3
  <2> QED
    BY <1>1, <1>3, <1>4, <2>1, <2>2, <2>3, MapStays
<1>17. CurrentFollowsMap'
  <2> SUFFICES ASSUME NEW k \in Connections, players'[k] # Nobody
               PROVE  IF PendingCurrent(k)' = {}
                      THEN \/ sessions'[k].current = players'[k]
                           \/ sessions'[k].current = Nobody /\ ConnectionStoreTtl
                      ELSE \E g \in PendingCurrent(k)' :
                              /\ log'[g].name = players'[k]
                              /\ \A f \in PendingCurrent(k)' : f <= g
    BY DEF CurrentFollowsMap
  <2>1. /\ players'[k] = players[k] /\ sessions'[k].current = sessions[k].current
        /\ Consumed' \subseteq Consumed \cup {h} /\ pc'[h] # "setCurrent"
    BY <1>3, <1>4, <1>6 DEF store
  <2> QED
    BY <1>1, <1>3, <1>4, <2>1, CurrentStays
<1> QED
  BY <1>8, <1>9, <1>10, <1>11, <1>12, <1>13, <1>14, <1>15, <1>16, <1>17 DEF Ordered

-----------------------------------------------------------------------------
(* Redis executes a command. *)

LEMMA ExecutionForms ==
    ASSUME NEW h \in Handlers, ExecuteAny(h)
    PROVE  \E command \in Commands :
             /\ Execute(h, command)
             /\ \/ /\ command = "getAllowed"
                   /\ pc' = [pc EXCEPT ![h] =
                               IF log[h].name \in AllowedCharacters(Conn(h))
                               THEN "granted" ELSE "refused"]
                \/ command # "getAllowed" /\ pc' = pc
             /\ \/ command = "broadcast" /\ feed' = Append(feed, h)
                \/ command # "broadcast" /\ feed' = feed
             /\ \/ /\ command = "setCurrent"
                   /\ sessions' = [sessions EXCEPT ![Conn(h)].current = log[h].name]
                \/ /\ command = "increase"
                   /\ sessions' = [sessions EXCEPT ![Conn(h)].counted = TRUE]
                \/ /\ command = "expire"
                   /\ sessions' = [sessions EXCEPT ![Conn(h)].ttl =
                                     Present(sessions[Conn(h)])]
                \/ /\ command \notin {"setCurrent", "increase", "expire"}
                   /\ sessions' = sessions
<1>1. CASE ExecuteGetAllowed(h)
  BY <1>1, CommandTypes DEF ExecuteGetAllowed, store
<1>2. CASE ExecuteSetCurrent(h)
  BY <1>2, CommandTypes DEF ExecuteSetCurrent
<1>3. CASE ExecutePersistCurrent(h)
  BY <1>3, CommandTypes DEF ExecutePersistCurrent, store
<1>4. CASE ExecuteKeepAlive(h)
  BY <1>4, CommandTypes DEF ExecuteKeepAlive
<1>5. CASE ExecuteRemovePosition(h)
  BY <1>5, CommandTypes DEF ExecuteRemovePosition
<1>6. CASE ExecuteBroadcast(h)
  BY <1>6, CommandTypes DEF ExecuteBroadcast
<1>7. CASE ExecuteIncrease(h)
  BY <1>7, CommandTypes DEF ExecuteIncrease
<1>8. CASE ExecuteExpire(h)
  BY <1>8, CommandTypes DEF ExecuteExpire
<1>9. CASE ExecuteSetAttributes(h)
  BY <1>9, CommandTypes DEF ExecuteSetAttributes
<1>10. CASE ExecutePersistUser(h)
  BY <1>10, CommandTypes DEF ExecutePersistUser
<1>11. CASE ExecuteAddPoint(h)
  BY <1>11, CommandTypes DEF ExecuteAddPoint
<1> QED
  BY <1>1, <1>2, <1>3, <1>4, <1>5, <1>6, <1>7, <1>8, <1>9, <1>10, <1>11 DEF ExecuteAny

\* Of a client's commands the first is executed: its handler has no other.
LEMMA ExecutionTakes ==
    ASSUME QueuesOK, QueuesExact, NEW h \in Handlers, NEW command, Execute(h, command),
           NEW c \in Clients, c = ClientOf(command)
    PROVE  /\ Len(pipe[c]) \in Nat /\ Len(pipe'[c]) \in Nat
           /\ 1 \in 1 .. Len(pipe[c]) /\ pipe[c][1] = h
           /\ \A i \in 1 .. Len(pipe'[c]) :
                i + 1 \in 1 .. Len(pipe[c]) /\ pipe'[c][i] = pipe[c][i + 1]
           /\ \A i \in 1 .. Len(pipe'[c]) : pipe'[c][i] # h
           /\ \A j \in 1 .. Len(pipe[c]) : pipe[c][j] # h =>
                j - 1 \in 1 .. Len(pipe'[c]) /\ pipe'[c][j - 1] = pipe[c][j]
<1> DEFINE p == pipe[c]
           t == pipe'[c]
<1>1. p \in Seq(Handlers) /\ p # <<>> /\ h = p[1] /\ t = Tail(p)
  BY ExecuteQueues, QueueType
<1>2. \A i, j \in 1 .. Len(p) : p[i] = p[j] => i = j
  BY PipeEntries
<1> HIDE DEF p, t
<1>3. /\ Len(p) \in Nat /\ Len(t) \in Nat /\ Len(t) = Len(p) - 1
      /\ \A i \in 1 .. Len(t) : i + 1 \in 1 .. Len(p) /\ t[i] = p[i + 1]
      /\ \A j \in 1 .. Len(p) : j > 1 => j - 1 \in 1 .. Len(t)
  <2>1. \A b : b = Tail(p) =>
          /\ b \in Seq(Handlers) /\ Len(p) \in Nat /\ Len(b) \in Nat
          /\ Len(b) = Len(p) - 1
          /\ \A i \in 1 .. Len(b) : i + 1 \in 1 .. Len(p) /\ b[i] = p[i + 1]
          /\ \A j \in 1 .. Len(p) : j > 1 => j - 1 \in 1 .. Len(b)
    BY <1>1, SequenceShifts
  <2> QED
    BY <1>1, <2>1
<1>4. 1 \in 1 .. Len(p)
  BY <1>1, <1>3, EmptySeq
<1>5. \A i \in 1 .. Len(t) : t[i] # h
  BY <1>1, <1>2, <1>3, <1>4
<1>6. ASSUME NEW j \in 1 .. Len(p), p[j] # h
      PROVE  j - 1 \in 1 .. Len(t) /\ t[j - 1] = p[j]
  <2>1. j > 1
    BY <1>1, <1>3, <1>6
  <2> QED
    BY <1>3, <2>1
<1> QED
  BY <1>1, <1>3, <1>4, <1>5, <1>6 DEF p, t

LEMMA ExecutionQueues ==
    ASSUME TypeOK, QueuesExact, NEW h \in Handlers, ExecuteAny(h)
    PROVE  QueuesExact'
<1>1. PICK command \in Commands :
        /\ Execute(h, command)
        /\ \/ /\ command = "getAllowed"
              /\ \E answer \in {"granted", "refused"} : pc' = [pc EXCEPT ![h] = answer]
           \/ command # "getAllowed" /\ pc' = pc
  BY ExecutionForms
<1>2. QueuesOK /\ pc[h] = command /\ pc \in [Handlers -> Commands \cup Outcomes]
  BY <1>1 DEF Execute, TypeOK, MemoryOK
<1>3. \A c \in Clients : Queue(c)' = Queue(c) /\ Slots(c)' = Slots(c)
  BY <1>1, <1>2, ExecuteQueues DEF Slots
<1>4. \A g \in Handlers : pc'[g] = pc[g] \/ {pc[g], pc'[g]} \subseteq Asking
  BY <1>1, <1>2 DEF Asking
<1>5. \A point \in Asking : ClientOf(point) = "connection"
  BY DEF Asking, ClientOf, UserCommands, TrackerCommands
<1>6. ASSUME NEW c \in Clients, NEW i \in Slots(c), NEW j \in Slots(c)
      PROVE  /\ pc'[Queue(c)[i]] \in Commands \cup Asking
             /\ ClientOf(pc'[Queue(c)[i]]) = c
             /\ Queue(c)[i] = Queue(c)[j] => i = j
  <2>1. /\ pc[Queue(c)[i]] \in Commands \cup Asking
        /\ ClientOf(pc[Queue(c)[i]]) = c /\ Queue(c)[i] \in Handlers
        /\ Queue(c)[i] = Queue(c)[j] => i = j
    BY <1>2, QueueType DEF QueuesExact
  <2> QED
    BY <1>4, <1>5, <2>1
<1>7. \A g \in Handlers : pc'[g] \in Asking =>
        \E i \in Slots("connection") : Queue("connection")[i] = g
  BY <1>4 DEF QueuesExact
<1> QED
  BY <1>3, <1>6, <1>7 DEF QueuesExact, Clients

LEMMA ExecutionOrder ==
    ASSUME AuthorisedInv, Ordered, QueuesOK', NEW h \in Handlers, ExecuteAny(h)
    PROVE  Ordered'
<1>1. /\ TypeOK /\ QueuesOK /\ HandlersConsumed /\ EffectsConsumed
      /\ QueuesExact /\ AskersAsk /\ AskedInOrder /\ CurrentsInOrder
      /\ PublicationsInOrder /\ AnswersTrue /\ CountsExpire
      /\ FeedInOrder /\ MapFollowsGrants /\ CurrentFollowsMap
  BY DEF AuthorisedInv, Ordered, TypeOK
<1>2. PICK command \in Commands :
        /\ Execute(h, command)
        /\ \/ /\ command = "getAllowed"
              /\ pc' = [pc EXCEPT ![h] =
                          IF log[h].name \in AllowedCharacters(Conn(h))
                          THEN "granted" ELSE "refused"]
           \/ command # "getAllowed" /\ pc' = pc
        /\ \/ command = "broadcast" /\ feed' = Append(feed, h)
           \/ command # "broadcast" /\ feed' = feed
        /\ \/ /\ command = "setCurrent"
              /\ sessions' = [sessions EXCEPT ![Conn(h)].current = log[h].name]
           \/ /\ command = "increase"
              /\ sessions' = [sessions EXCEPT ![Conn(h)].counted = TRUE]
           \/ /\ command = "expire"
              /\ sessions' = [sessions EXCEPT ![Conn(h)].ttl =
                                Present(sessions[Conn(h)])]
           \/ /\ command \notin {"setCurrent", "increase", "expire"}
              /\ sessions' = sessions
  BY ExecutionForms
<1>3. /\ pc[h] = command /\ UNCHANGED <<log, seen, players, up>>
      /\ pc \in [Handlers -> Commands \cup Outcomes]
      /\ h \in Consumed /\ Consumed \subseteq Handlers /\ Consumed' = Consumed
  BY <1>1, <1>2, ConsumedHandlers, PcNames
     DEF Execute, TypeOK, MemoryOK, HandlersConsumed, Consumed
<1>4. \A g : /\ (Asks(g)' <=> Asks(g)) /\ (Switching(g)' <=> Switching(g))
             /\ Conn(g)' = Conn(g)
  BY <1>3, Same
<1>5. /\ \A c \in Clients : Queue(c)' = Queue(c) /\ Slots(c)' = Slots(c)
      /\ \A c \in Clients \ {ClientOf(command)} : pipe'[c] = pipe[c]
  BY <1>1, <1>2, ExecuteQueues DEF Slots
<1>6. /\ ClientOf("getAllowed") = "connection" /\ ClientOf("granted") = "connection"
      /\ ClientOf("refused") = "connection" /\ ClientOf("setCurrent") = "connection"
      /\ ClientOf("expire") = "connection" /\ ClientOf("broadcast") = "publisher"
      /\ "connection" \in Clients /\ "publisher" \in Clients
  BY DEF ClientOf, UserCommands, TrackerCommands, Clients
\* The state of a handler changes only when its question is answered.
<1>7. \A g \in Handlers :
        \/ pc'[g] = pc[g]
        \/ /\ g = h /\ pc[g] = "getAllowed" /\ pc'[g] \in {"granted", "refused"}
           /\ pc'[g] = "refused" <=> log[g].name \notin AllowedCharacters(Conn(g))
  BY <1>2, <1>3
<1>8. \A g \in Handlers :
        /\ pc'[g] \in Asking <=> pc[g] \in Asking
        /\ pc'[g] \notin Asking => pc'[g] = pc[g]
        /\ ClientOf(pc'[g]) = ClientOf(pc[g])
  BY <1>6, <1>7 DEF Asking
<1>9. QueuesExact'
  BY <1>1, ExecutionQueues
<1>10. AskersAsk'
  <2> SUFFICES ASSUME NEW g \in Handlers,
                      pc'[g] \in Announcing \cup {"refused", "keepAlive", "removePosition"}
               PROVE  Asks(g)
    BY <1>4 DEF AskersAsk
  <2>1. pc[g] \in Announcing \cup {"refused", "keepAlive", "removePosition"}
    BY <1>7 DEF Announcing
  <2> QED
    BY <1>1, <2>1 DEF AskersAsk
<1>11. AskedInOrder'
  <2>1. ASSUME NEW i \in Slots("connection"), NEW j \in Slots("connection"), i < j,
               pc'[Queue("connection")[i]] \in Asking,
               pc'[Queue("connection")[j]] \in Asking
        PROVE  Queue("connection")[i] < Queue("connection")[j]
    <3>1. Queue("connection")[i] \in Handlers /\ Queue("connection")[j] \in Handlers
      BY <1>1, <1>6, QueueType
    <3> QED
      BY <1>1, <1>8, <2>1, <3>1 DEF AskedInOrder
  <2>2. \A f, g \in Consumed :
          f < g /\ pc'[f] \in Asking /\ Asks(g) => pc'[g] \in Asking
    BY <1>1, <1>3, <1>8 DEF AskedInOrder
  <2> QED
    BY <1>3, <1>4, <1>5, <1>6, <2>1, <2>2 DEF AskedInOrder
<1>12. \A g \in Handlers : pc'[g] = "setCurrent" <=> pc[g] = "setCurrent"
  BY <1>7
<1>13. CurrentsInOrder'
  <2> DEFINE p == pipe["connection"]
             t == pipe'["connection"]
  <2> SUFFICES ASSUME NEW i \in 1 .. Len(t), NEW j \in 1 .. Len(t), i < j,
                      pc'[t[i]] = "setCurrent", pc'[t[j]] = "setCurrent"
               PROVE  t[i] < t[j]
    BY DEF CurrentsInOrder
  <2>1. /\ \A k \in 1 .. Len(p) : p[k] \in Handlers
        /\ \A k, l \in 1 .. Len(p) :
             k < l /\ pc[p[k]] = "setCurrent" /\ pc[p[l]] = "setCurrent" => p[k] < p[l]
    BY <1>1, <1>6, PipeEntries DEF CurrentsInOrder
  <2>2. CASE ClientOf(command) = "connection"
    <3>1. /\ Len(t) \in Nat
          /\ \A k \in 1 .. Len(t) : k + 1 \in 1 .. Len(p) /\ t[k] = p[k + 1]
      BY <1>1, <1>2, <1>6, <2>2, ExecutionTakes
    <3> HIDE DEF p, t
    <3>2. i + 1 < j + 1
      BY <3>1
    <3> QED
      BY <1>12, <2>1, <3>1, <3>2
  <2>3. CASE ClientOf(command) # "connection"
    <3>1. t = p
      BY <1>5, <1>6, <2>3
    <3> HIDE DEF p, t
    <3> QED
      BY <1>12, <2>1, <3>1
  <2> QED
    BY <2>2, <2>3
<1>14. PublicationsInOrder' /\ FeedInOrder'
  <2>1. CASE command # "broadcast"
    <3>1. ClientOf(command) # "publisher"
      BY <2>1 DEF Commands, ConnectionCommands, UserCommands, TrackerCommands, ClientOf
    <3>2. pipe'["publisher"] = pipe["publisher"] /\ feed' = feed
      BY <1>2, <1>5, <1>6, <2>1, <3>1
    <3>3. PublicationsInOrder'
      BY <1>1, <1>4, <3>2 DEF PublicationsInOrder
    <3> QED
      BY <1>1, <1>3, <3>2, <3>3, FeedStays
  <2>2. CASE command = "broadcast"
    <3> DEFINE p == pipe["publisher"]
               t == pipe'["publisher"]
               n == Len(feed)
    <3>1. /\ Len(p) \in Nat /\ Len(t) \in Nat /\ 1 \in 1 .. Len(p) /\ p[1] = h
          /\ \A i \in 1 .. Len(t) : i + 1 \in 1 .. Len(p) /\ t[i] = p[i + 1]
      BY <1>1, <1>2, <1>6, <2>2, ExecutionTakes
    <3>2. /\ n \in Nat /\ Len(feed') = n + 1 /\ feed'[n + 1] = h
          /\ \A i \in 1 .. n : feed'[i] = feed[i]
      BY <1>1, <1>2, <2>2, AppendProperties, LenProperties DEF TypeOK, StoreOK
    <3>3. \A i \in 1 .. Len(p) : ~Switching(p[i]) =>
            /\ \A j \in 1 .. i - 1 : p[j] < p[i]
            /\ \A j \in 1 .. n : feed[j] < p[i]
      BY <1>1 DEF PublicationsInOrder
    <3>4. \A i, j \in 1 .. n : i < j /\ feed[j] < feed[i] => Switching(feed[j])
      BY <1>1 DEF FeedInOrder
    <3>5. /\ \A i \in 1 .. n : feed[i] \in Nat
          /\ \A i \in 1 .. Len(p) : p[i] \in Nat
      <4>1. Handlers \subseteq Nat
        BY DEF Handlers
      <4> QED
        BY <1>1, <1>3, <1>6, <4>1, PipeEntries DEF EffectsConsumed
    <3> HIDE DEF p, t, n
    <3>6. ASSUME NEW i \in 1 .. Len(t), ~Switching(t[i])
          PROVE  /\ \A j \in 1 .. i - 1 : t[j] < t[i]
                 /\ \A j \in 1 .. Len(feed') : feed'[j] < t[i]
      <4>1. /\ i + 1 \in 1 .. Len(p) /\ t[i] = p[i + 1] /\ 1 \in 1 .. (i + 1) - 1
            /\ \A j \in 1 .. i - 1 : j \in 1 .. Len(t) /\ j + 1 \in 1 .. (i + 1) - 1
        BY <3>1
      <4>2. /\ \A j \in 1 .. (i + 1) - 1 : p[j] < p[i + 1]
            /\ \A j \in 1 .. n : feed[j] < p[i + 1]
        BY <3>3, <3>6, <4>1
      <4>3. \A j \in 1 .. n + 1 : j \in 1 .. n \/ j = n + 1
        BY <3>2
      <4> QED
        BY <3>1, <3>2, <4>1, <4>2, <4>3
    <3>7. PublicationsInOrder'
      BY <1>4, <3>6 DEF PublicationsInOrder, t
    <3>8. ASSUME NEW i \in 1 .. n + 1, NEW j \in 1 .. n + 1, i < j, feed'[j] < feed'[i]
          PROVE  Switching(feed'[j])
      <4>1. CASE j \in 1 .. n
        <5>1. i \in 1 .. n
          BY <3>2, <3>8, <4>1
        <5> QED
          BY <3>2, <3>4, <3>8, <4>1, <5>1
      <4>2. CASE j = n + 1
        <5>1. i \in 1 .. n /\ feed'[i] = feed[i] /\ feed'[j] = h
          BY <3>2, <3>8, <4>2
        <5>2. ~(feed[i] < p[1])
          BY <3>1, <3>5, <3>8, <5>1
        <5> QED
          BY <3>1, <3>3, <5>1, <5>2
      <4> QED
        BY <3>2, <4>1, <4>2
    <3>9. FeedInOrder'
      BY <1>4, <3>2, <3>8 DEF FeedInOrder
    <3> QED
      BY <3>7, <3>9
  <2> QED
    BY <2>1, <2>2
<1>15. /\ sessions \in [Connections -> [setUp : BOOLEAN,
                                        current : Characters \cup {Nobody},
                                        counted : BOOLEAN, ttl : BOOLEAN]]
       /\ Conn(h) \in Connections
  <2>1. log[h] \in Messages
    BY <1>1, <1>3, ElementOfSeq DEF TypeOK, MemoryOK, Consumed
  <2> QED
    BY <1>1, <2>1, MessagesAssumption DEF TypeOK, StoreOK, Conn
<1>16. AnswersTrue'
  <2>1. up' = up /\ players' = players
    BY <1>3
  <2>2. ASSUME ~ConnectionStoreTtl, NEW k \in Connections
        PROVE  sessions'[k].setUp /\ ~sessions'[k].ttl
    <3>1. command # "expire" /\ sessions[k].setUp /\ ~sessions[k].ttl
      BY <1>1, <1>3, <2>2 DEF AnswersTrue
    <3> QED
      BY <1>2, <1>15, <3>1
  <2>3. ASSUME ~ConnectionStoreTtl, NEW g \in Handlers
        PROVE  /\ pc'[g] # "expire"
               /\ pc'[g] = "refused" => log[g].name \notin Allowed[Conn(g)]
    <3>1. CASE pc'[g] = pc[g]
      BY <1>1, <2>3, <3>1 DEF AnswersTrue
    <3>2. CASE /\ g = h /\ pc'[g] \in {"granted", "refused"}
               /\ pc'[g] = "refused" <=> log[g].name \notin AllowedCharacters(Conn(g))
      BY <1>1, <1>15, <2>3, <3>2 DEF AnswersTrue, AllowedCharacters
    <3> QED
      BY <1>7, <3>1, <3>2
  <2> QED
    BY <1>1, <1>3, <1>4, <2>1, <2>2, <2>3 DEF AnswersTrue
<1>17. CountsExpire'
  <2> DEFINE p == pipe["connection"]
             t == pipe'["connection"]
  <2> SUFFICES ASSUME ConnectionStoreTtl, NEW k \in Connections,
                      sessions'[k].counted, ~sessions'[k].ttl
               PROVE  \E g \in Consumed :
                        /\ Conn(g) = k
                        /\ \/ pc'[g] \in {"increase", "lost"}
                           \/ pc'[g] = "expire" /\ \E i \in 1 .. Len(t) : t[i] = g
    BY <1>3, <1>4 DEF CountsExpire
  <2>1. CASE command = "increase" /\ Conn(h) = k
    <3>1. pc'[h] = "increase"
      BY <1>2, <1>3, <2>1
    <3> QED
      BY <1>3, <2>1, <3>1
  <2>2. CASE command = "expire" /\ Conn(h) = k
    <3>1. sessions' = [sessions EXCEPT ![k].ttl = Present(sessions[k])]
      BY <1>2, <2>2
    <3>2. sessions'[k].counted = sessions[k].counted
          /\ sessions'[k].ttl = Present(sessions[k])
      BY <1>15, <3>1
    <3> QED
      BY <3>2 DEF Present
  <2>3. CASE ~(command \in {"increase", "expire"} /\ Conn(h) = k)
    <3>1. sessions[k].counted /\ ~sessions[k].ttl
      BY <1>2, <1>15, <2>3
    <3>2. PICK g \in Consumed :
            /\ Conn(g) = k
            /\ \/ pc[g] \in {"increase", "lost"}
               \/ pc[g] = "expire" /\ \E i \in 1 .. Len(p) : p[i] = g
      BY <1>1, <3>1 DEF CountsExpire
    <3>3. pc'[g] = pc[g]
      BY <1>3, <1>7, <3>2
    <3>4. CASE pc[g] \in {"increase", "lost"}
      BY <3>2, <3>3, <3>4
    <3>5. CASE pc[g] = "expire" /\ \E i \in 1 .. Len(p) : p[i] = g
      <4>1. g # h
        BY <1>3, <2>3, <3>2, <3>5
      <4>2. PICK i \in 1 .. Len(p) : p[i] = g
        BY <3>5
      <4>3. \E j \in 1 .. Len(t) : t[j] = g
        <5>1. CASE ClientOf(command) = "connection"
          BY <1>1, <1>2, <1>6, <4>1, <4>2, <5>1, ExecutionTakes
        <5>2. CASE ClientOf(command) # "connection"
          BY <1>5, <1>6, <4>2, <5>2
        <5> QED
          BY <5>1, <5>2
      <4> QED
        BY <3>2, <3>3, <3>5, <4>3
    <3> QED
      BY <3>2, <3>4, <3>5
  <2> QED
    BY <2>1, <2>2, <2>3
<1>18. MapFollowsGrants'
  <2>1. ASSUME NEW k, NEW g
        PROVE  g \in GrantsOf(k)' <=> g \in GrantsOf(k)
    <3>1. CASE g \in Consumed
      <4>1. Decided(g)' <=> Decided(g)
        BY <1>3, <1>8, <3>1 DEF Decided, Asking
      <4> QED
        BY <1>3, <1>4, <4>1 DEF GrantsOf
    <3>2. CASE g \notin Consumed
      BY <1>3, <3>2 DEF GrantsOf
    <3> QED
      BY <3>1, <3>2
  <2>2. \A k : GrantsOf(k)' = GrantsOf(k)
    BY <2>1
  <2> QED
    BY <1>1, <1>3, <2>2 DEF MapFollowsGrants
<1>19. CurrentFollowsMap'
  <2> SUFFICES ASSUME NEW k \in Connections, players[k] # Nobody
               PROVE  IF PendingCurrent(k)' = {}
                      THEN \/ sessions'[k].current = players[k]
                           \/ sessions'[k].current = Nobody /\ ConnectionStoreTtl
                      ELSE \E g \in PendingCurrent(k)' :
                              /\ log[g].name = players[k]
                              /\ \A f \in PendingCurrent(k)' : f <= g
    BY <1>3 DEF CurrentFollowsMap
  <2> DEFINE p == pipe["connection"]
             t == pipe'["connection"]
  <2>1. IF PendingCurrent(k) = {}
        THEN \/ sessions[k].current = players[k]
             \/ sessions[k].current = Nobody /\ ConnectionStoreTtl
        ELSE \E g \in PendingCurrent(k) :
                /\ log[g].name = players[k]
                /\ \A f \in PendingCurrent(k) : f <= g
    BY <1>1 DEF CurrentFollowsMap
  \* What the execution of a command leaves pending is what it does not execute.
  <2>2. ASSUME NEW g
        PROVE  g \in PendingCurrent(k)' <=>
                 g \in PendingCurrent(k) /\ ~(g = h /\ command = "setCurrent")
    <3>1. CASE g \notin Consumed
      BY <1>3, <3>1 DEF PendingCurrent
    <3>2. CASE g \in Consumed
      <4>1. (\E i \in 1 .. Len(t) : t[i] = g) /\ pc[g] = "setCurrent" <=>
              (\E i \in 1 .. Len(p) : p[i] = g) /\ pc[g] = "setCurrent"
                  /\ ~(g = h /\ command = "setCurrent")
        <5>1. CASE ClientOf(command) = "connection"
          <6>1. /\ \A i \in 1 .. Len(t) : /\ i + 1 \in 1 .. Len(p) /\ t[i] = p[i + 1]
                                          /\ t[i] # h
                /\ \A j \in 1 .. Len(p) : p[j] # h =>
                     j - 1 \in 1 .. Len(t) /\ t[j - 1] = p[j]
            BY <1>1, <1>2, <1>6, <5>1, ExecutionTakes
          <6> HIDE DEF p, t
          <6>2. CASE g = h
            BY <1>3, <6>1, <6>2
          <6>3. CASE g # h
            BY <6>1, <6>3
          <6> QED
            BY <6>2, <6>3
        <5>2. CASE ClientOf(command) # "connection"
          BY <1>5, <1>6, <5>2
        <5> QED
          BY <5>1, <5>2
      <4>2. g \in PendingCurrent(k) <=>
              pc[g] = "setCurrent" /\ Conn(g) = k /\ \E i \in 1 .. Len(p) : p[i] = g
        BY <3>2 DEF PendingCurrent
      <4>3. g \in PendingCurrent(k)' <=>
              pc[g] = "setCurrent" /\ Conn(g) = k /\ \E i \in 1 .. Len(t) : t[i] = g
        BY <1>3, <1>4, <1>12, <3>2 DEF PendingCurrent
      <4> HIDE DEF p, t
      <4> QED
        BY <4>1, <4>2, <4>3
    <3> QED
      BY <3>1, <3>2
  <2>3. CASE ~(command = "setCurrent" /\ Conn(h) = k)
    <3>1. PendingCurrent(k)' = PendingCurrent(k)
      <4>1. command = "setCurrent" => h \notin PendingCurrent(k)
        BY <2>3 DEF PendingCurrent
      <4> QED
        BY <2>2, <4>1
    <3>2. sessions'[k].current = sessions[k].current
      BY <1>2, <1>15, <2>3
    <3> QED
      BY <2>1, <3>1, <3>2
  <2>4. CASE command = "setCurrent" /\ Conn(h) = k
    <3>1. /\ PendingCurrent(k)' = PendingCurrent(k) \ {h}
          /\ sessions'[k].current = log[h].name
      BY <1>2, <1>15, <2>2, <2>4
    <3>2. /\ Len(p) \in Nat /\ 1 \in 1 .. Len(p) /\ p[1] = h
      BY <1>1, <1>2, <1>6, <2>4, ExecutionTakes
    <3>3. h \in PendingCurrent(k)
      BY <1>3, <2>4, <3>2 DEF PendingCurrent
    <3>4. ASSUME NEW g \in PendingCurrent(k), g # h PROVE h < g
      <4>1. PICK i \in 1 .. Len(p) : p[i] = g /\ pc[g] = "setCurrent"
        BY <3>4 DEF PendingCurrent
      <4>2. 1 < i
        BY <3>2, <3>4, <4>1
      <4> QED
        BY <1>1, <1>3, <2>4, <3>2, <4>1, <4>2 DEF CurrentsInOrder
    <3>5. PICK g \in PendingCurrent(k) : /\ log[g].name = players[k]
                                         /\ \A f \in PendingCurrent(k) : f <= g
      BY <2>1, <3>3
    <3>6. CASE g = h
      <4>1. \A f \in PendingCurrent(k) : f = h
        <5>1. \A f \in PendingCurrent(k) : f \in Nat /\ h \in Nat
          BY <1>3 DEF PendingCurrent, Handlers
        <5> QED
          BY <3>4, <3>5, <3>6, <5>1
      <4> QED
        BY <3>1, <3>5, <3>6, <4>1
    <3>7. CASE g # h
      BY <3>1, <3>5, <3>7
    <3> QED
      BY <3>6, <3>7
  <2> QED
    BY <2>3, <2>4
<1> QED
  BY <1>9, <1>10, <1>11, <1>13, <1>14, <1>16, <1>17, <1>18, <1>19 DEF Ordered

-----------------------------------------------------------------------------
(* The process and the records end. *)

LEMMA FaultQueues ==
    ASSUME QueuesExact, \/ Restart
                        \/ UNCHANGED <<pc, pipe, replies>>
    PROVE  QueuesExact'
<1>1. CASE UNCHANGED <<pc, pipe, replies>>
  <2>1. \A c \in Clients : Queue(c)' = Queue(c) /\ Slots(c)' = Slots(c)
    BY <1>1 DEF Queue, Slots
  <2> QED
    BY <1>1, <2>1 DEF QueuesExact, Clients
<1>2. CASE Restart
  <2>1. /\ \A c \in Clients : pipe'[c] = <<>> /\ replies'[c] = <<>>
        /\ \A g \in Handlers : pc'[g] \in {"idle", "done", "lost"}
    BY <1>2 DEF Restart, Quiet
  <2>2. \A c \in Clients : Slots(c)' = {}
    <3>1. \A c \in Clients : Queue(c)' = <<>>
      BY <2>1 DEF Queue
    <3> QED
      BY <3>1 DEF Slots
  <2> QED
    BY <2>1, <2>2 DEF QueuesExact, Asking
<1> QED
  BY <1>1, <1>2

\* The queues and the log tell all of Ordered but what is said of the map and
\* of the records.
LEMMA QueuesKept ==
    ASSUME Ordered, UNCHANGED <<log, pc, seen, pipe, replies, feed>>
    PROVE  /\ QueuesExact' /\ AskersAsk' /\ AskedInOrder' /\ CurrentsInOrder'
           /\ PublicationsInOrder' /\ FeedInOrder'
           /\ \A k : GrantsOf(k)' = GrantsOf(k) /\ PendingCurrent(k)' = PendingCurrent(k)
<1>1. /\ \A h : Switching(h)' = Switching(h) /\ Asks(h)' = Asks(h)
                /\ Conn(h)' = Conn(h) /\ Decided(h)' = Decided(h)
      /\ \A c : Queue(c)' = Queue(c) /\ Slots(c)' = Slots(c)
      /\ Consumed' = Consumed
  BY DEF Switching, Asks, Named, Conn, Decided, Queue, Slots, Consumed
<1>2. QueuesExact'
  BY FaultQueues DEF Ordered
<1>3. AskersAsk' /\ AskedInOrder'
  BY <1>1 DEF Ordered, AskersAsk, AskedInOrder
<1>4. CurrentsInOrder' /\ PublicationsInOrder' /\ FeedInOrder'
  BY <1>1 DEF Ordered, CurrentsInOrder, PublicationsInOrder, FeedInOrder
<1>5. \A k : GrantsOf(k)' = GrantsOf(k) /\ PendingCurrent(k)' = PendingCurrent(k)
  BY <1>1 DEF GrantsOf, PendingCurrent
<1> QED
  BY <1>2, <1>3, <1>4, <1>5

LEMMA RestartOrder ==
    ASSUME AuthorisedInv, Ordered, Restart
    PROVE  Ordered'
<1>1. /\ players = Unknown /\ UNCHANGED <<log, seen, players, store>>
      /\ \A g \in Handlers : pc'[g] = IF pc[g] \in {"idle", "done"} THEN pc[g] ELSE "lost"
      /\ \A c \in Clients : pipe'[c] = <<>> /\ replies'[c] = <<>>
      /\ up' = TRUE
  BY DEF Restart, Ordered, AnswersTrue, Quiet
<1>2. /\ Consumed \subseteq Handlers /\ Consumed' = Consumed
  BY <1>1, ConsumedHandlers DEF AuthorisedInv, Consumed
<1>3. \A c \in Clients : Len(pipe'[c]) = 0 /\ Slots(c)' = {}
  <2>1. \A c \in Clients : Queue(c)' = <<>>
    BY <1>1 DEF Queue
  <2> QED
    BY <1>1, <2>1 DEF Slots
<1>4. "connection" \in Clients /\ "publisher" \in Clients
  BY DEF Clients
<1>5. \A g \in Handlers : pc'[g] \in {"idle", "done", "lost"}
  BY <1>1
<1>6. QueuesExact'
  BY FaultQueues DEF Ordered
<1>7. AskersAsk'
  BY <1>5 DEF AskersAsk, Announcing
<1>8. AskedInOrder'
  BY <1>2, <1>3, <1>4, <1>5 DEF AskedInOrder, Asking
<1>9. CurrentsInOrder' /\ PublicationsInOrder'
  BY <1>3, <1>4 DEF CurrentsInOrder, PublicationsInOrder
<1>10. FeedInOrder'
  <2>1. \A g \in Consumed : log'[g] = log[g] /\ seen'[g] = seen[g]
    BY <1>1
  <2> QED
    BY <1>1, <2>1, FeedStays DEF Ordered, AuthorisedInv, store
<1>11. AnswersTrue'
  BY <1>1, <1>5 DEF Ordered, AnswersTrue, store
<1>12. CountsExpire'
  <2> SUFFICES ASSUME ConnectionStoreTtl, NEW k \in Connections,
                      sessions[k].counted, ~sessions[k].ttl
               PROVE  \E g \in Consumed : Conn(g) = k /\ pc'[g] = "lost"
    BY <1>1, <1>2 DEF CountsExpire, Conn, store
  <2>1. PICK g \in Consumed : Conn(g) = k /\ pc[g] \in {"increase", "lost", "expire"}
    BY DEF Ordered, CountsExpire
  <2> QED
    BY <1>1, <1>2, <2>1
<1>13. \A k \in Connections : players'[k] = Nobody
  BY <1>1 DEF Unknown
<1>14. MapFollowsGrants' /\ CurrentFollowsMap'
  BY <1>13 DEF MapFollowsGrants, CurrentFollowsMap
<1> QED
  BY <1>6, <1>7, <1>8, <1>9, <1>10, <1>11, <1>12, <1>14 DEF Ordered

LEMMA EnvironmentOrder ==
    ASSUME AuthorisedInv, Ordered,
           \/ Crash
           \/ \E k \in Connections : SessionExpires(k)
           \/ \E c \in Characters : ProfileExpires(c)
           \/ UNCHANGED vars
    PROVE  Ordered'
<1>1. /\ UNCHANGED <<log, pc, seen, pipe, feed>>
      /\ ~Crash => UNCHANGED <<players, up, replies>>
      /\ Crash => players' = Unknown /\ up' = FALSE /\ UNCHANGED replies
  BY DEF Crash, Die, SessionExpires, ProfileExpires, vars, memory, queues, store
<1>2. /\ QueuesExact' /\ AskersAsk' /\ AskedInOrder' /\ CurrentsInOrder'
      /\ PublicationsInOrder' /\ FeedInOrder'
      /\ \A k : GrantsOf(k)' = GrantsOf(k) /\ PendingCurrent(k)' = PendingCurrent(k)
  BY <1>1, QueuesKept
<1>3. /\ AnswersTrue /\ CountsExpire /\ MapFollowsGrants /\ CurrentFollowsMap
  BY DEF Ordered
\* A record that goes had a time to live, so one is configured.
<1>4. \A k \in Connections :
        \/ sessions'[k] = sessions[k]
        \/ sessions'[k] = NoSession /\ ConnectionStoreTtl
  <2>1. CASE UNCHANGED sessions
    BY <2>1
  <2>2. ASSUME NEW k \in Connections, SessionExpires(k)
        PROVE  /\ sessions' = [sessions EXCEPT ![k] = NoSession]
               /\ ConnectionStoreTtl
    BY <1>3, <2>2, MessagesAssumption DEF SessionExpires, AnswersTrue
  <2>3. sessions \in [Connections -> [setUp : BOOLEAN,
                                      current : Characters \cup {Nobody},
                                      counted : BOOLEAN, ttl : BOOLEAN]]
    BY DEF AuthorisedInv, TypeOK, StoreOK
  <2>4. (\E k \in Connections : SessionExpires(k)) \/ UNCHANGED sessions
    BY DEF Crash, Die, ProfileExpires, vars, store
  <2> QED
    BY <2>1, <2>2, <2>3, <2>4
<1>5. \A h : Conn(h)' = Conn(h)
  BY <1>1 DEF Conn
<1>6. AnswersTrue'
  <2>1. ~up' => players' = Unknown
    BY <1>1, <1>3 DEF AnswersTrue
  <2>2. ~ConnectionStoreTtl =>
          /\ \A k \in Connections : sessions'[k].setUp /\ ~sessions'[k].ttl
          /\ \A h \in Handlers :
              /\ pc'[h] # "expire"
              /\ pc'[h] = "refused" => log'[h].name \notin Allowed[Conn(h)']
    BY <1>1, <1>3, <1>4, <1>5 DEF AnswersTrue
  <2> QED
    BY <2>1, <2>2 DEF AnswersTrue
<1>7. CountsExpire'
  <2>1. Consumed' = Consumed /\ ~NoSession.counted
    BY <1>1 DEF Consumed, NoSession
  <2> SUFFICES ASSUME ConnectionStoreTtl, NEW k \in Connections,
                      sessions'[k].counted, ~sessions'[k].ttl
               PROVE  \E h \in Consumed :
                        /\ Conn(h) = k
                        /\ \/ pc[h] \in {"increase", "lost"}
                           \/ pc[h] = "expire" /\ \E i \in 1 .. Len(pipe["connection"]) :
                                                      pipe["connection"][i] = h
    BY <1>1, <1>5, <2>1 DEF CountsExpire
  <2>2. sessions[k].counted /\ ~sessions[k].ttl
    BY <1>4, <2>1
  <2> QED
    BY <1>3, <2>2 DEF CountsExpire
<1>8. players' = players \/ \A k \in Connections : players'[k] = Nobody
  BY <1>1 DEF Unknown
<1>9. MapFollowsGrants'
  BY <1>1, <1>2, <1>3, <1>8 DEF MapFollowsGrants
<1>10. CurrentFollowsMap'
  <2>1. NoSession.current = Nobody
    BY DEF NoSession
  <2> SUFFICES ASSUME NEW k \in Connections, players'[k] # Nobody
               PROVE  IF PendingCurrent(k) = {}
                      THEN \/ sessions'[k].current = players[k]
                           \/ sessions'[k].current = Nobody /\ ConnectionStoreTtl
                      ELSE \E h \in PendingCurrent(k) :
                              /\ log[h].name = players[k]
                              /\ \A g \in PendingCurrent(k) : g <= h
    BY <1>1, <1>2, <1>8 DEF CurrentFollowsMap
  <2>2. players[k] # Nobody
    BY <1>8
  <2>3. IF PendingCurrent(k) = {}
        THEN \/ sessions[k].current = players[k]
             \/ sessions[k].current = Nobody /\ ConnectionStoreTtl
        ELSE \E h \in PendingCurrent(k) :
                /\ log[h].name = players[k]
                /\ \A g \in PendingCurrent(k) : g <= h
    BY <1>3, <2>2 DEF CurrentFollowsMap
  <2> QED
    BY <1>4, <2>1, <2>3
<1> QED
  BY <1>2, <1>6, <1>7, <1>9, <1>10 DEF Ordered

-----------------------------------------------------------------------------
(* The theorems. *)

LEMMA InitOrder == Init => Ordered
<1> SUFFICES ASSUME Init PROVE Ordered
  OBVIOUS
<1>1. /\ \A c \in Clients : Len(pipe[c]) = 0 /\ Slots(c) = {}
      /\ \A h \in Handlers : pc[h] = "idle"
      /\ \A k \in Connections : sessions[k] = Fresh
      /\ Len(feed) = 0 /\ Consumed = {} /\ players = Unknown /\ up
      /\ "connection" \in Clients /\ "publisher" \in Clients
  <2>1. \A c \in Clients : pipe[c] = <<>> /\ replies[c] = <<>> /\ Queue(c) = <<>>
    BY DEF Init, Quiet, Queue
  <2> QED
    BY <2>1 DEF Init, Slots, Consumed, Clients
<1>2. QueuesExact /\ AskersAsk /\ AskedInOrder
  BY <1>1 DEF QueuesExact, AskersAsk, AskedInOrder, Asking, Announcing
<1>3. CurrentsInOrder /\ PublicationsInOrder /\ FeedInOrder
  BY <1>1 DEF CurrentsInOrder, PublicationsInOrder, FeedInOrder
<1>4. AnswersTrue /\ CountsExpire
  BY <1>1 DEF AnswersTrue, CountsExpire, Fresh
<1>5. MapFollowsGrants /\ CurrentFollowsMap
  BY <1>1 DEF MapFollowsGrants, CurrentFollowsMap, Unknown
<1> QED
  BY <1>2, <1>3, <1>4, <1>5 DEF Ordered

LEMMA OrderInvariant == Spec => []OrderInv
<1>1. AuthorisedInv /\ AuthorisedInv' /\ Ordered /\ [Next]_vars => Ordered'
  <2> SUFFICES ASSUME AuthorisedInv, AuthorisedInv', Ordered, [Next]_vars
               PROVE  Ordered'
    OBVIOUS
  <2>1. QueuesOK'
    BY DEF AuthorisedInv, TypeOK
  <2>2. ASSUME NEW m \in Messages, Discard(m) \/ Ignore(m) \/ AskAllowed(m) \/ Relay(m)
        PROVE  Ordered'
    BY <2>1, <2>2, ArrivalOrder
  <2>3. ASSUME NEW h \in Handlers, ExecuteAny(h) \/ ResumeAny(h) \/ FailPoint(h)
        PROVE  Ordered'
    BY <2>1, <2>3, ExecutionOrder, ResumptionOrder
  <2> QED
    BY <2>2, <2>3, RestartOrder, EnvironmentOrder DEF Next
<1>2. AuthorisedInv /\ Ordered => OrderInv
  BY DEF Ordered, OrderInv
<1> QED
  BY <1>1, <1>2, InitOrder, AuthorisedInvariant, PTL DEF Spec

\* On the feed a message is overtaken only if it announced a character that
\* the map did not hold (index.ts:94-136): for any connections and messages,
\* whatever crashes and whatever expires.
THEOREM FeedKeepsOrder == Spec => []FeedInOrder
BY OrderInvariant, PTL DEF OrderInv

\* Without CONNECTION_STORE_TTL the map holds the name of the latest
\* announcement granted, or nothing since a restart (index.ts:97-107).
THEOREM MapDoesFollowGrants == Spec => []MapFollowsGrants
BY OrderInvariant, PTL DEF OrderInv

\* The record's current_character catches up with the map: the last of the
\* writes under way is the map's (index.ts:107-108).
THEOREM CurrentDoesFollowMap == Spec => []CurrentFollowsMap
BY OrderInvariant, PTL DEF OrderInv

\* With CONNECTION_STORE_TTL no record keeps a count for ever, unless the
\* process dies between the count and the expiry (index.ts:137-140).
THEOREM CountedSessionsDoExpire == Spec => []CountedSessionsExpire
<1>1. CountsExpire => CountedSessionsExpire
  BY DEF CountsExpire, CountedSessionsExpire
<1> QED
  BY <1>1, OrderInvariant, PTL DEF OrderInv

-----------------------------------------------------------------------------
(* Positions are recorded in the order of publication. *)

LEMMA LateNames ==
    /\ Late = {"broadcast", "increase", "expire", "setAttributes", "persistUser", "addPoint"}
    /\ Late \subseteq Commands /\ Late \cap Asking = {}
    /\ "done" \notin Late /\ "lost" \notin Late /\ "idle" \notin Late
    /\ \A command \in Late : Phase[command] \in 1 .. 6
    /\ \A command \in Late : Phase[command] = 6 <=> command = "addPoint"
    /\ Phase["broadcast"] = 1 /\ Phase["increase"] = 2 /\ Phase["expire"] = 3
    /\ Phase["setAttributes"] = 4 /\ Phase["persistUser"] = 5
    /\ \A command, other \in Late : Phase[command] = Phase[other] <=> command = other
<1>1. /\ Late = {"broadcast", "increase", "expire", "setAttributes", "persistUser", "addPoint"}
      /\ Late \subseteq Commands /\ Late \cap Asking = {}
  BY DEF Late, Recording, Asking, Commands, ConnectionCommands, UserCommands, TrackerCommands
<1>2. /\ Phase["broadcast"] = 1 /\ Phase["increase"] = 2 /\ Phase["expire"] = 3
      /\ Phase["setAttributes"] = 4 /\ Phase["persistUser"] = 5 /\ Phase["addPoint"] = 6
  BY DEF Phase
<1> QED
  BY <1>1, <1>2

\* From publication on a handler goes through the phases one after another.
LEMMA PhaseForms ==
    ASSUME NEW h \in Handlers, ResumeAny(h) \/ FailPoint(h)
    PROVE  \E command \in Commands \cup {"granted", "refused"} :
             /\ Resume(h, command)
             /\ \/ Finish(h)
                \/ UNCHANGED <<pc, pipe>> /\ up' = FALSE /\ command = "addPoint"
                \/ \E next \in Commands :
                     /\ Send(h, next)
                     /\ command \in Late =>
                          /\ next \in Late /\ command # "addPoint"
                          /\ \/ Phase[next] = Phase[command] + 1
                             \/ /\ command = "increase" /\ next = "setAttributes"
                                /\ ~ConnectionStoreTtl
                     /\ command \notin Late /\ next \in Late =>
                          command = "removePosition" /\ next = Publication(log[h])
<1> USE CommandTypes, LateNames
<1>0. Phase["addPoint"] = 6
  OBVIOUS
<1>1. CASE Refuse(h) \/ Complete(h)
  BY <1>1 DEF Refuse, Complete
<1>2. CASE Grant(h)
  BY <1>2 DEF Grant
<1>3. CASE Continue(h)
  BY <1>0, <1>3 DEF Continue
<1>4. CASE Recheck(h)
  <2>1. PICK command \in {"expire", "increase"} :
          Resume(h, command) /\ (command = "increase" => ~ConnectionStoreTtl)
    BY <1>4 DEF Recheck
  <2>2. CASE StillPlays(h)
    BY <1>4, <2>1, <2>2 DEF Recheck
  <2>3. CASE ~StillPlays(h)
    BY <1>4, <2>1, <2>3 DEF Recheck
  <2> QED
    BY <2>2, <2>3
<1>5. CASE FailPoint(h)
  BY <1>5 DEF FailPoint, Die
<1> QED
  BY <1>1, <1>2, <1>3, <1>4, <1>5 DEF ResumeAny

\* Of the entries of a queue after a step those of others keep their order,
\* and an entry of the handler that took the step is behind all of them.
LEMMA MovedBehind ==
    ASSUME QueuesOK, NEW c \in Clients, NEW h \in Handlers, Moves(h)
    PROVE  \E d \in {0, 1} :
             /\ \A j \in Slots(c) : Queue(c)[j] # h =>
                    j - d \in Slots(c)' /\ Queue(c)'[j - d] = Queue(c)[j]
             /\ \A i \in Slots(c)' : Queue(c)'[i] # h =>
                    i + d \in Slots(c) /\ Queue(c)'[i] = Queue(c)[i + d]
             /\ \A i, j \in Slots(c)' :
                    Queue(c)'[i] # h /\ Queue(c)'[j] = h => i < j
<1> DEFINE q == Queue(c)
           t == Queue(c)'
<1>1. PICK d \in {0, 1} : Moved(c, h, d) /\ (d = 1 => q[1] = h)
  BY DEF Moves
<1>2. /\ \A j \in Slots(c) : j > d => q[j] # h /\ j - d \in Slots(c)'
      /\ \A i \in Slots(c)' :
          \/ i + d \in Slots(c) /\ t[i] = q[i + d]
          \/ i + d = Len(q) + 1 /\ t[i] = h
  BY <1>1 DEF Moved
<1>3. Slots(c) = 1 .. Len(q) /\ Len(q) \in Nat /\ Slots(c)' \subseteq Nat \ {0}
  <2>1. Len(q) \in Nat
    BY QueueType, LenProperties
  <2> QED
    BY <2>1 DEF Slots
<1> HIDE DEF q, t
<1>4. \A i \in Slots(c)' : \/ i + d \in Slots(c) /\ t[i] = q[i + d] /\ t[i] # h
                           \/ i + d = Len(q) + 1 /\ t[i] = h
  <2> SUFFICES ASSUME NEW i \in Slots(c)', i + d \in Slots(c), t[i] = q[i + d]
               PROVE  t[i] # h
    BY <1>2
  <2>1. i + d > d
    BY <1>3
  <2> QED
    BY <1>2, <2>1
<1>5. ASSUME NEW j \in Slots(c), q[j] # h
      PROVE  j - d \in Slots(c)' /\ t[j - d] = q[j]
  <2>1. j > d
    BY <1>1, <1>3, <1>5
  <2>2. j - d \in Slots(c)' /\ (j - d) + d = j /\ j # Len(q) + 1
    BY <1>2, <1>3, <2>1
  <2> QED
    BY <1>4, <2>2
<1>6. ASSUME NEW i \in Slots(c)', NEW j \in Slots(c)', t[i] # h, t[j] = h
      PROVE  i < j
  <2>1. i + d \in Slots(c) /\ j + d = Len(q) + 1
    BY <1>4, <1>6
  <2> QED
    BY <1>3, <2>1
<1> QED
  BY <1>4, <1>5, <1>6 DEF q, t

LEMMA FollowsStays ==
    ASSUME NEW g, NEW h, log'[g] = log[g], seen'[g] = seen[g], log'[h] = log[h]
    PROVE  Follows(g, h)' <=> Follows(g, h)
BY Same DEF Follows

\* What the step of a handler does to its phase.
Advances(h) ==
    /\ pc[h] \in Late /\ pc[h] # "addPoint" /\ pc'[h] \in Late
    /\ \/ Phase[pc'[h]] = Phase[pc[h]] + 1
       \/ pc[h] = "increase" /\ pc'[h] = "setAttributes" /\ ~ConnectionStoreTtl
    /\ \A c \in Clients : \A i \in Slots(c) : Queue(c)[i] = h => i = 1
Publishes(h) ==
    /\ pc[h] \notin Late /\ pc'[h] = Publication(log'[h])
    /\ Switching(h)' \/ \A g \in Consumed : g < h
Perishes(h) ==
    /\ pc[h] = "addPoint" /\ pc'[h] = "addPoint" /\ ~up' /\ UNCHANGED pipe
    /\ \A c \in Clients : \A i \in Slots(c)' : Queue(c)'[i] # h

PhaseStep(h) ==
    /\ up
    /\ pc'[h] \in Late => Advances(h) \/ Publishes(h) \/ Perishes(h)
    /\ pc'[h] \in Late /\ up' => \E c \in Clients : pipe'[c] = Append(pipe[c], h)

\* Handlers in the same phase are in the same queue.
LEMMA SamePhase ==
    ASSUME QueuesExact, LateQueued, up, NEW g \in Handlers, NEW h \in Handlers,
           pc[g] \in Late, pc[h] = pc[g]
    PROVE  \E c \in Clients : \E i, j \in Slots(c) : Queue(c)[i] = g /\ Queue(c)[j] = h
<1>1. PICK c \in Clients : \E i \in Slots(c) : Queue(c)[i] = g
  BY DEF LateQueued
<1>2. PICK b \in Clients : \E j \in Slots(b) : Queue(b)[j] = h
  BY DEF LateQueued
<1>3. c = ClientOf(pc[g]) /\ b = ClientOf(pc[h])
  BY <1>1, <1>2 DEF QueuesExact
<1> QED
  BY <1>1, <1>2, <1>3

\* No handler that goes on to publish is in a lower phase than a later one,
\* and of two in the same phase the earlier one is first in the queue.
LEMMA PhasesMove ==
    ASSUME QueuesOK, QueuesOK', HandlersConsumed, QueuesExact, AnswersTrue,
           LateQueued, PhasesInOrder, NEW h \in Handlers, ActorStep(h), PhaseStep(h),
           Consumed \subseteq Handlers, Consumed' \subseteq Consumed \cup {h}
    PROVE  LateQueued' /\ PhasesInOrder'
<1>1. /\ \A g \in Handlers \ {h} : pc'[g] = pc[g]
      /\ \A g \in Consumed : log'[g] = log[g] /\ seen'[g] = seen[g]
      /\ Moves(h) /\ up
  BY DEF ActorStep, PhaseStep
<1>2. LateQueued'
  <2> SUFFICES ASSUME up', NEW g \in Handlers, pc'[g] \in Late
               PROVE  \E c \in Clients : \E i \in Slots(c)' : Queue(c)'[i] = g
    BY DEF LateQueued
  <2>1. CASE g = h
    <3>1. PICK c \in Clients : pipe'[c] = Append(pipe[c], h)
      BY <2>1 DEF PhaseStep
    <3>2. pipe[c] \in Seq(Handlers) /\ replies'[c] \in Seq(Handlers)
      BY DEF QueuesOK
    <3>3. \A r, q \in Seq(Handlers) :
            r \o Append(q, h) = Append(r \o q, h) /\ r \o q \in Seq(Handlers)
      BY AppendConcat, ConcatProperties
    <3> DEFINE t == Queue(c)'
               u == replies'[c] \o pipe[c]
    <3>4. t = Append(u, h) /\ u \in Seq(Handlers)
      BY <3>1, <3>2, <3>3 DEF Queue
    <3> HIDE DEF t, u
    <3>5. Len(t) \in 1 .. Len(t) /\ t[Len(t)] = h
      BY <3>4, AppendProperties, LenProperties
    <3> QED
      BY <2>1, <3>5 DEF Slots, t
  <2>2. CASE g # h
    <3>1. PICK c \in Clients : \E i \in Slots(c) : Queue(c)[i] = g
      BY <1>1, <2>2 DEF LateQueued
    <3> QED
      BY <1>1, <2>2, <3>1, MovedBehind
  <2> QED
    BY <2>1, <2>2
<1>3. PhasesInOrder'
  <2> SUFFICES ASSUME NEW g \in Consumed', NEW n \in Consumed',
                      Follows(g, n)', pc'[g] \in Late, pc'[n] \in Late
               PROVE  /\ Phase[pc'[n]] <= Phase[pc'[g]]
                      /\ pc'[n] = pc'[g] =>
                          \A c \in Clients : \A i, j \in Slots(c)' :
                              Queue(c)'[i] = g /\ Queue(c)'[j] = n => i < j
    BY DEF PhasesInOrder
  <2>1. g < n /\ ~Switching(g)' /\ log'[n].kind = "good" /\ g \in Nat /\ n \in Nat /\ g # n
    <3>1. g \in Nat /\ n \in Nat
      BY DEF Handlers
    <3> QED
      BY <3>1 DEF Follows
  <2>2. CASE g # h /\ n # h
    <3>1. /\ g \in Consumed /\ n \in Consumed /\ g \in Handlers /\ n \in Handlers
          /\ Follows(g, n) /\ pc'[g] = pc[g] /\ pc'[n] = pc[n]
      BY <1>1, <2>2, FollowsStays
    <3>2. ASSUME pc[n] = pc[g], NEW c \in Clients, NEW i \in Slots(c)', NEW j \in Slots(c)',
                 Queue(c)'[i] = g, Queue(c)'[j] = n
          PROVE  i < j
      <4>1. PICK d \in {0, 1} : /\ i + d \in Slots(c) /\ Queue(c)[i + d] = g
                                /\ j + d \in Slots(c) /\ Queue(c)[j + d] = n
        BY <1>1, <2>2, <3>2, MovedBehind
      <4>2. i + d < j + d
        BY <3>1, <3>2, <4>1 DEF PhasesInOrder
      <4>3. i \in Nat /\ j \in Nat
        BY DEF Slots
      <4> QED
        BY <4>2, <4>3
    <3> QED
      BY <3>1, <3>2 DEF PhasesInOrder
  <2>3. CASE n = h
    <3>1. g \in Consumed /\ g \in Handlers /\ g # h /\ pc'[g] = pc[g]
      BY <1>1, <2>1, <2>3
    <3>2. \A c \in Clients : \A i, j \in Slots(c)' :
            Queue(c)'[i] = g /\ Queue(c)'[j] = n => i < j
      BY <1>1, <2>3, <3>1, MovedBehind
    <3>3. Phase[pc'[n]] <= Phase[pc'[g]]
      <4>1. CASE Publishes(h)
        <5>1. pc'[n] = "broadcast"
          BY <2>1, <2>3, <4>1 DEF Publishes, Publication
        <5> QED
          BY <3>1, <5>1, LateNames
      <4>2. CASE Perishes(h) \/ Advances(h)
        <5>1. pc[h] \in Late
          BY <4>2, LateNames DEF Perishes, Advances
        <5>2. h \in Consumed
          BY <5>1, LateNames DEF HandlersConsumed
        <5>3. Follows(g, h) /\ Phase[pc[h]] <= Phase[pc[g]]
          BY <1>1, <2>3, <3>1, <5>1, <5>2, FollowsStays DEF PhasesInOrder
        <5>4. CASE Perishes(h)
          BY <2>3, <3>1, <5>3, <5>4 DEF Perishes
        <5>5. CASE Advances(h)
          <6>1. ASSUME pc[h] = pc[g] PROVE FALSE
            <7>1. PICK c \in Clients : \E i, j \in Slots(c) :
                    Queue(c)[i] = g /\ Queue(c)[j] = h
              BY <1>1, <3>1, <5>1, <6>1, SamePhase
            <7>2. PICK i \in Slots(c), j \in Slots(c) :
                    Queue(c)[i] = g /\ Queue(c)[j] = h
              BY <7>1
            <7>3. j = 1 /\ i < j
              BY <3>1, <5>1, <5>2, <5>3, <5>5, <6>1, <7>2 DEF Advances, PhasesInOrder
            <7> QED
              BY <7>3 DEF Slots
          <6> QED
            BY <2>3, <3>1, <5>1, <5>3, <5>5, <6>1, LateNames DEF Advances, AnswersTrue
        <5> QED
          BY <4>2, <5>4, <5>5
      <4> QED
        BY <2>3, <4>1, <4>2 DEF PhaseStep
    <3> QED
      BY <3>2, <3>3
  <2>4. CASE g = h
    <3>1. n \in Consumed /\ n \in Handlers /\ pc'[n] = pc[n]
      BY <1>1, <2>1, <2>4
    <3>2. ~Publishes(h)
      BY <2>1, <2>4, <3>1 DEF Publishes
    <3>3. pc[h] \in Late
      BY <2>4, <3>2, LateNames DEF PhaseStep, Perishes, Advances
    <3>4. h \in Consumed
      BY <3>3, LateNames DEF HandlersConsumed
    <3>5. Phase[pc[n]] <= Phase[pc[h]]
      BY <1>1, <2>4, <3>1, <3>3, <3>4, FollowsStays DEF PhasesInOrder
    <3>6. CASE Perishes(h)
      BY <2>4, <3>1, <3>5, <3>6 DEF Perishes
    <3>7. CASE Advances(h)
      <4>1. Phase[pc[h]] < Phase[pc'[h]]
        BY <3>7, LateNames DEF Advances
      <4>2. Phase[pc'[n]] < Phase[pc'[g]]
        BY <2>4, <3>1, <3>3, <3>5, <4>1, LateNames
      <4> QED
        BY <4>2, LateNames
    <3> QED
      BY <2>4, <3>2, <3>6, <3>7 DEF PhaseStep
  <2> QED
    BY <2>2, <2>3, <2>4
<1> QED
  BY <1>2, <1>3

\* An older handler has its position on the way to Redis no longer.
LEMMA RecordsMove ==
    ASSUME QueuesOK, HandlersConsumed, EffectsConsumed, RecordsInOrder,
           NEW h \in Handlers, ActorStep(h), PhaseStep(h),
           Consumed \subseteq Handlers, Consumed' \subseteq Consumed \cup {h}
    PROVE  RecordsInOrder'
<1>1. /\ \A g \in Handlers \ {h} : pc'[g] = pc[g]
      /\ \A g \in Consumed : log'[g] = log[g] /\ seen'[g] = seen[g]
      /\ geo' = geo /\ Unsent(h)
  BY DEF ActorStep, store
<1> SUFFICES ASSUME NEW c \in Characters, NEW g \in Consumed',
                    geo'[c] # 0, Follows(g, geo[c])', pc'[g] \in Late
             PROVE  /\ pc'[g] = "addPoint"
                    /\ \A i \in 1 .. Len(pipe'["tracker"]) : pipe'["tracker"][i] # g
  BY <1>1 DEF RecordsInOrder
<1>2. geo[c] \in Consumed /\ geo[c] \in Nat /\ g \in Nat /\ g < geo[c] /\ ~Switching(g)'
  <2>1. geo[c] \in Consumed /\ Consumed' \subseteq Handlers /\ Handlers \subseteq Nat
    BY <1>1 DEF EffectsConsumed, Handlers
  <2> QED
    BY <1>1, <2>1 DEF Follows
<1>3. ~(g = h /\ Publishes(h))
  BY <1>2 DEF Publishes
<1>4. g \in Consumed /\ pc[g] \in Late
  BY <1>1, <1>3, LateNames DEF PhaseStep, Advances, Perishes, HandlersConsumed
<1>5. /\ pc[g] = "addPoint"
      /\ \A i \in 1 .. Len(pipe["tracker"]) : pipe["tracker"][i] # g
  BY <1>1, <1>2, <1>4, FollowsStays DEF RecordsInOrder
<1>6. pc'[g] = "addPoint"
  BY <1>1, <1>3, <1>5 DEF PhaseStep, Advances, Perishes
<1>7. g = h => pipe'["tracker"] = pipe["tracker"]
  BY <1>3, <1>5, <1>6, LateNames DEF PhaseStep, Advances, Perishes
<1>8. \A i \in 1 .. Len(pipe'["tracker"]) :
        pipe'["tracker"][i] # h => pipe'["tracker"][i] # g
  <2>1. "tracker" \in Clients
    BY DEF Clients
  <2> QED
    BY <1>5, <2>1, PipeKeeps DEF ActorStep
<1> QED
  BY <1>5, <1>6, <1>7, <1>8

LEMMA ResumptionPhase ==
    ASSUME TypeOK, HandlersConsumed, QueuesExact, AskersAsk,
           NEW h \in Handlers, ResumeAny(h) \/ FailPoint(h)
    PROVE  /\ ActorStep(h) /\ PhaseStep(h)
           /\ Consumed \subseteq Handlers /\ Consumed' = Consumed
<1>1. PICK command \in Commands \cup {"granted", "refused"} :
        /\ Resume(h, command)
        /\ \/ Finish(h)
           \/ UNCHANGED <<pc, pipe>> /\ up' = FALSE /\ command = "addPoint"
           \/ \E next \in Commands :
                /\ Send(h, next)
                /\ command \in Late =>
                     /\ next \in Late /\ command # "addPoint"
                     /\ \/ Phase[next] = Phase[command] + 1
                        \/ /\ command = "increase" /\ next = "setAttributes"
                           /\ ~ConnectionStoreTtl
                /\ command \notin Late /\ next \in Late =>
                     command = "removePosition" /\ next = Publication(log[h])
  BY PhaseForms
<1>2. /\ QueuesOK /\ pc \in [Handlers -> Commands \cup Outcomes]
      /\ Consumed \subseteq Handlers /\ Consumed' = Consumed
      /\ pc[h] = command /\ up /\ UNCHANGED <<log, seen>>
  BY <1>1, ConsumedHandlers DEF TypeOK, MemoryOK, Resume, Consumed
<1>3. ActorStep(h)
  BY <1>1, <1>2, ResumptionActs
<1>4. \A c \in Clients : \A i \in Slots(c) : Queue(c)[i] = h => i = 1
  BY <1>1, <1>2, ResumeHead
<1>5. PhaseStep(h)
  <2>1. CASE Finish(h)
    BY <1>2, <2>1, LateNames DEF Finish, PhaseStep
  <2>2. CASE UNCHANGED <<pc, pipe>> /\ up' = FALSE /\ command = "addPoint"
    <3>1. ASSUME NEW c \in Clients, NEW i \in Slots(c)' PROVE Queue(c)'[i] # h
      <4>1. CASE c = ClientOf(command)
        <5>1. /\ replies[c] # <<>> /\ replies'[c] = Tail(replies[c]) /\ pipe'[c] = pipe[c]
              /\ replies[c] \in Seq(Handlers) /\ pipe[c] \in Seq(Handlers)
              /\ Queue(c) \in Seq(Handlers)
          BY <1>1, <1>2, <2>2, <4>1, ResumeHead, QueueType
        <5> DEFINE q == Queue(c)
                   t == Queue(c)'
        <5>2. q # <<>> /\ t = Tail(q) /\ q \in Seq(Handlers)
          BY <5>1, TailConcat DEF Queue
        <5> HIDE DEF q, t
        <5>3. \A b : b = Tail(q) => \A k \in 1 .. Len(b) :
                k \in Nat \ {0} /\ k + 1 \in 1 .. Len(q) /\ b[k] = q[k + 1]
          BY <5>2, SequenceShifts
        <5>4. i \in 1 .. Len(t) /\ Slots(c) = 1 .. Len(q)
          BY DEF Slots, q, t
        <5>5. i \in Nat \ {0} /\ i + 1 \in Slots(c) /\ t[i] = q[i + 1]
          BY <5>2, <5>3, <5>4
        <5> QED
          BY <1>4, <5>5 DEF q, t
      <4>2. CASE c # ClientOf(command)
        <5>1. replies'[c] = replies[c] /\ pipe'[c] = pipe[c]
          BY <1>1, <1>2, <2>2, <4>2, ResumeHead
        <5>2. Queue(c)' = Queue(c)
          BY <5>1 DEF Queue
        <5>3. i \in Slots(c)
          BY <5>2 DEF Slots
        <5> QED
          BY <1>1, <1>2, <4>2, <5>2, <5>3, ResumeHead
      <4> QED
        BY <4>1, <4>2
    <3> QED
      BY <1>2, <2>2, <3>1 DEF PhaseStep, Perishes
  <2>3. CASE \E next \in Commands :
               /\ Send(h, next)
               /\ command \in Late =>
                    /\ next \in Late /\ command # "addPoint"
                    /\ \/ Phase[next] = Phase[command] + 1
                       \/ /\ command = "increase" /\ next = "setAttributes"
                          /\ ~ConnectionStoreTtl
               /\ command \notin Late /\ next \in Late =>
                    command = "removePosition" /\ next = Publication(log[h])
    <3>1. PICK next \in Commands :
               /\ Send(h, next)
               /\ command \in Late =>
                    /\ next \in Late /\ command # "addPoint"
                    /\ \/ Phase[next] = Phase[command] + 1
                       \/ /\ command = "increase" /\ next = "setAttributes"
                          /\ ~ConnectionStoreTtl
               /\ command \notin Late /\ next \in Late =>
                    command = "removePosition" /\ next = Publication(log[h])
      BY <2>3
    <3>2. pc'[h] = next /\ \E c \in Clients : pipe'[c] = Append(pipe[c], h)
      BY <1>2, <3>1, SendEffect
    <3>3. command = "removePosition" => Switching(h)'
      BY <1>2 DEF AskersAsk, Asks, Switching, Named
    <3> QED
      BY <1>2, <1>4, <3>1, <3>2, <3>3 DEF PhaseStep, Advances, Publishes
  <2> QED
    BY <1>1, <2>1, <2>2, <2>3
<1> QED
  BY <1>2, <1>3, <1>5

LEMMA ArrivalPhase ==
    ASSUME TypeOK, HandlersConsumed, QueuesExact, NEW m \in Messages,
           NEW h, h = Len(log) + 1,
           Discard(m) \/ Ignore(m) \/ AskAllowed(m) \/ Relay(m)
    PROVE  /\ h \in Handlers /\ ActorStep(h) /\ PhaseStep(h)
           /\ Consumed \subseteq Handlers /\ Consumed' = Consumed \cup {h}
<1>1. /\ ActorStep(h) /\ h \in Handlers /\ pc[h] = "idle"
      /\ Consumed' = Consumed \cup {h} /\ \A g \in Consumed : g < h
  BY ArrivalActs
<1>2. /\ Arrive(m) /\ log'[h] = m /\ QueuesOK /\ Consumed \subseteq Handlers
      /\ pc \in [Handlers -> Commands \cup Outcomes]
  <2>1. Arrive(m)
    BY DEF Discard, Ignore, AskAllowed, Relay
  <2> QED
    BY <2>1, ArriveAppends, ConsumedHandlers DEF TypeOK, MemoryOK
<1>3. \/ Finish(h)
      \/ \E next \in Commands : Send(h, next) /\ next \in {"getAllowed", Publication(m)}
  BY CommandTypes DEF Discard, Ignore, AskAllowed, Relay
<1>4. \/ pc'[h] = "done"
      \/ /\ pc'[h] \in {"getAllowed", Publication(m)}
         /\ \E c \in Clients : pipe'[c] = Append(pipe[c], h)
  BY <1>1, <1>2, <1>3, SendEffect DEF Finish
<1>5. "getAllowed" \notin Late /\ "idle" \notin Late /\ "done" \notin Late
  BY LateNames DEF Asking
<1>6. PhaseStep(h)
  BY <1>1, <1>2, <1>4, <1>5 DEF PhaseStep, Publishes, Arrive
<1> QED
  BY <1>1, <1>2, <1>6

\* Redis executes a command: no position is put but that of addPoint.
LEMMA PositionForms ==
    ASSUME TypeOK, NEW h \in Handlers, ExecuteAny(h), NEW c \in Characters,
           geo'[c] # 0, geo'[c] # geo[c]
    PROVE  ExecuteAddPoint(h) /\ geo'[c] = h
<1>1. geo \in [Characters -> 0 .. MaxMessages]
  BY DEF TypeOK, StoreOK
<1>2. CASE \/ ExecuteGetAllowed(h) \/ ExecuteSetCurrent(h)
           \/ ExecutePersistCurrent(h) \/ ExecuteKeepAlive(h)
           \/ ExecuteBroadcast(h) \/ ExecuteIncrease(h) \/ ExecuteExpire(h)
           \/ ExecuteSetAttributes(h) \/ ExecutePersistUser(h)
  BY <1>2 DEF ExecuteGetAllowed, ExecuteSetCurrent, ExecutePersistCurrent,
     ExecuteKeepAlive, ExecuteBroadcast, ExecuteIncrease, ExecuteExpire,
     ExecuteSetAttributes, ExecutePersistUser, store
<1>3. CASE ExecuteRemovePosition(h)
  BY <1>1, <1>3 DEF ExecuteRemovePosition
<1>4. CASE ExecuteAddPoint(h)
  BY <1>1, <1>4 DEF ExecuteAddPoint
<1> QED
  BY <1>2, <1>3, <1>4 DEF ExecuteAny

\* A position that replaces another is the head of the pipe, so that of an
\* older handler is not behind it.
LEMMA ExecutionKeeps ==
    ASSUME TypeOK, HandlersConsumed, EffectsConsumed, QueuesExact, PositionsInv,
           NEW h \in Handlers, ExecuteAny(h)
    PROVE  PositionsInv'
<1>1. PICK command \in Commands :
        /\ Execute(h, command)
        /\ \/ /\ command = "getAllowed"
              /\ pc' = [pc EXCEPT ![h] =
                          IF log[h].name \in AllowedCharacters(Conn(h))
                          THEN "granted" ELSE "refused"]
           \/ command # "getAllowed" /\ pc' = pc
  BY ExecutionForms
<1>2. /\ QueuesOK /\ pc \in [Handlers -> Commands \cup Outcomes]
      /\ Consumed \subseteq Handlers /\ Consumed' = Consumed
      /\ pc[h] = command /\ UNCHANGED <<log, seen, up>>
  BY <1>1, ConsumedHandlers DEF TypeOK, MemoryOK, Execute, Consumed
<1>3. /\ \A c \in Clients : Queue(c)' = Queue(c) /\ Slots(c)' = Slots(c)
      /\ \A c \in Clients \ {ClientOf(command)} : pipe'[c] = pipe[c]
  BY <1>1, <1>2, ExecuteQueues DEF Slots
<1>4. \A g \in Handlers : /\ pc'[g] \in Late <=> pc[g] \in Late
                          /\ pc'[g] \in Late => pc'[g] = pc[g]
  <2>1. {"getAllowed", "granted", "refused"} \cap Late = {}
    BY LateNames DEF Asking
  <2> QED
    BY <1>1, <1>2, <2>1
<1>5. \A g, n : Follows(g, n)' <=> Follows(g, n)
  BY <1>2, FollowsStays
<1>6. LateQueued'
  BY <1>2, <1>3, <1>4 DEF PositionsInv, LateQueued
<1>7. PhasesInOrder'
  <2> SUFFICES ASSUME NEW g \in Consumed, NEW n \in Consumed,
                      Follows(g, n), pc'[g] \in Late, pc'[n] \in Late
               PROVE  /\ Phase[pc'[n]] <= Phase[pc'[g]]
                      /\ pc'[n] = pc'[g] =>
                          \A c \in Clients : \A i, j \in Slots(c)' :
                              Queue(c)'[i] = g /\ Queue(c)'[j] = n => i < j
    BY <1>2, <1>5 DEF PhasesInOrder
  <2>1. /\ pc[g] \in Late /\ pc[n] \in Late /\ pc'[g] = pc[g] /\ pc'[n] = pc[n]
    BY <1>2, <1>4
  <2> QED
    BY <1>3, <2>1 DEF PositionsInv, PhasesInOrder
<1>8. RecordsInOrder'
  <2> SUFFICES ASSUME NEW c \in Characters, NEW g \in Consumed,
                      geo'[c] # 0, Follows(g, geo'[c]), pc'[g] \in Late
               PROVE  /\ pc'[g] = "addPoint"
                      /\ \A i \in 1 .. Len(pipe'["tracker"]) : pipe'["tracker"][i] # g
    BY <1>2, <1>5 DEF RecordsInOrder
  <2>1. g \in Handlers /\ pc[g] \in Late /\ pc'[g] = pc[g]
    BY <1>2, <1>4
  <2>2. \A i \in 1 .. Len(pipe'["tracker"]) : \E j \in 1 .. Len(pipe["tracker"]) :
          pipe'["tracker"][i] = pipe["tracker"][j]
    <3>1. PICK c1 \in Clients : c1 = "tracker"
      BY DEF Clients
    <3>2. CASE ClientOf(command) = c1
      BY <1>1, <1>2, <3>1, <3>2, ExecutionTakes
    <3>3. CASE ClientOf(command) # c1
      BY <1>3, <3>1, <3>3
    <3> QED
      BY <3>2, <3>3
  <2>3. CASE geo'[c] = geo[c]
    BY <2>1, <2>2, <2>3 DEF PositionsInv, RecordsInOrder
  <2>4. CASE geo'[c] # geo[c]
    <3>1. geo'[c] = h /\ command = "addPoint"
      BY <1>1, <2>4, PositionForms DEF ExecuteAddPoint, Execute
    <3>2. ClientOf(command) = "tracker" /\ "tracker" \in Clients /\ "addPoint" \in Late
      BY <3>1, LateNames DEF ClientOf, UserCommands, TrackerCommands, Clients
    <3>3. h \in Consumed /\ pc[h] = "addPoint"
      BY <1>2, <3>1, PcNames DEF HandlersConsumed
    <3>4. Phase[pc[h]] <= Phase[pc[g]]
      BY <2>1, <3>1, <3>2, <3>3 DEF PositionsInv, PhasesInOrder
    <3>5. pc[g] = "addPoint"
      BY <2>1, <3>3, <3>4, LateNames
    <3>6. g < h /\ g # h
      BY <1>2, <2>1, <3>1 DEF Follows, Handlers
    <3>7. ASSUME NEW j \in 1 .. Len(pipe["tracker"]), pipe["tracker"][j] = g
          PROVE  FALSE
      <4> DEFINE r == replies["tracker"]
                 p == pipe["tracker"]
                 q == Queue("tracker")
      <4>1. r \in Seq(Handlers) /\ p \in Seq(Handlers) /\ q = r \o p
        BY <1>2, <3>2, QueueType DEF Queue
      <4>2. 1 \in 1 .. Len(p) /\ p[1] = h /\ p[j] = g /\ j \in 1 .. Len(p)
        BY <1>1, <1>2, <3>2, <3>7, ExecutionTakes
      <4>3. Slots("tracker") = 1 .. Len(q)
        BY DEF Slots
      <4> HIDE DEF r, p, q
      <4>4. /\ Len(r) \in Nat /\ Len(p) \in Nat /\ Len(q) = Len(r) + Len(p)
            /\ \A k \in 1 .. Len(r) + Len(p) :
                  q[k] = IF k <= Len(r) THEN r[k] ELSE p[k - Len(r)]
        BY <4>1, ConcatProperties, LenProperties
      <4>5. /\ Len(r) + 1 \in 1 .. Len(q) /\ q[Len(r) + 1] = h
            /\ Len(r) + j \in 1 .. Len(q) /\ q[Len(r) + j] = g
        BY <4>2, <4>4
      <4>6. \A i, k \in 1 .. Len(q) : q[i] = g /\ q[k] = h => i < k
        BY <2>1, <3>1, <3>2, <3>3, <3>5, <4>3 DEF PositionsInv, PhasesInOrder, q
      <4>7. Len(r) + j < Len(r) + 1
        BY <4>5, <4>6
      <4> QED
        BY <4>2, <4>4, <4>7
    <3> QED
      BY <2>1, <2>2, <3>5, <3>7
  <2> QED
    BY <2>3, <2>4
<1> QED
  BY <1>6, <1>7, <1>8 DEF PositionsInv

\* The process dies and starts again, and what is stored expires.
LEMMA EnvironmentKeeps ==
    ASSUME TypeOK, PositionsInv,
           \/ Crash \/ Restart
           \/ \E k \in Connections : SessionExpires(k)
           \/ \E c \in Characters : ProfileExpires(c)
           \/ UNCHANGED vars
    PROVE  PositionsInv'
<1>1. CASE Restart
  <2>1. \A g \in Handlers : pc'[g] \notin Late
    BY <1>1, LateNames DEF Restart
  <2>2. Consumed' \subseteq Handlers
    BY <1>1, ConsumedHandlers DEF Restart, Consumed
  <2> QED
    BY <2>1, <2>2 DEF PositionsInv, LateQueued, PhasesInOrder, RecordsInOrder
<1>2. CASE ~Restart
  <2>1. UNCHANGED <<log, pc, seen, pipe, replies, geo>> /\ (up' => up)
    BY <1>2 DEF Crash, Die, SessionExpires, ProfileExpires, vars, memory, queues, store
  <2>2. /\ \A g, n : Follows(g, n)' <=> Follows(g, n)
        /\ \A c : Queue(c)' = Queue(c) /\ Slots(c)' = Slots(c)
        /\ Consumed' = Consumed
    BY <2>1, FollowsStays DEF Queue, Slots, Consumed
  <2>3. LateQueued' /\ PhasesInOrder'
    BY <2>1, <2>2 DEF PositionsInv, LateQueued, PhasesInOrder
  <2>4. RecordsInOrder'
    BY <2>1, <2>2 DEF PositionsInv, RecordsInOrder
  <2> QED
    BY <2>3, <2>4 DEF PositionsInv
<1> QED
  BY <1>1, <1>2

LEMMA PositionsStep ==
    ASSUME OrderInv, OrderInv', PositionsInv, [Next]_vars
    PROVE  PositionsInv'
<1>1. /\ TypeOK /\ QueuesOK /\ QueuesOK' /\ HandlersConsumed /\ EffectsConsumed
      /\ QueuesExact /\ AskersAsk /\ AnswersTrue
      /\ LateQueued /\ PhasesInOrder /\ RecordsInOrder
  BY DEF OrderInv, AuthorisedInv, TypeOK, PositionsInv
<1>2. ASSUME NEW h \in Handlers, ActorStep(h), PhaseStep(h),
             Consumed \subseteq Handlers, Consumed' \subseteq Consumed \cup {h}
      PROVE  PositionsInv'
  BY <1>1, <1>2, PhasesMove, RecordsMove DEF PositionsInv
<1>3. ASSUME NEW m \in Messages, Discard(m) \/ Ignore(m) \/ AskAllowed(m) \/ Relay(m)
      PROVE  PositionsInv'
  BY <1>1, <1>2, <1>3, ArrivalPhase
<1>4. ASSUME NEW h \in Handlers, ResumeAny(h) \/ FailPoint(h)
      PROVE  PositionsInv'
  BY <1>1, <1>2, <1>4, ResumptionPhase
<1>5. ASSUME NEW h \in Handlers, ExecuteAny(h)
      PROVE  PositionsInv'
  BY <1>1, <1>5, ExecutionKeeps
<1> QED
  BY <1>1, <1>3, <1>4, <1>5, EnvironmentKeeps DEF Next

LEMMA InitPositions == Init => PositionsInv
<1> SUFFICES ASSUME Init PROVE PositionsInv
  OBVIOUS
<1>1. /\ \A h \in Handlers : pc[h] \notin Late
      /\ Consumed = {} /\ \A c \in Characters : geo[c] = 0
  BY LateNames DEF Init, Consumed
<1> QED
  BY <1>1 DEF PositionsInv, LateQueued, PhasesInOrder, RecordsInOrder

\* The step of an invariant state replaces a position by an older one only as
\* PositionsKeepOrder allows.
LEMMA PositionsStepKeeps ==
    ASSUME OrderInv, OrderInv', PositionsInv, [Next]_vars, NEW c \in Characters,
           0 < geo'[c], geo'[c] < geo[c]
    PROVE  Switching(geo'[c]) \/ log[geo[c]].kind # "good"
<1>1. /\ TypeOK /\ QueuesOK /\ HandlersConsumed /\ EffectsConsumed /\ QueuesExact
      /\ RecordsInOrder /\ Consumed \subseteq Handlers
  BY ConsumedHandlers DEF OrderInv, AuthorisedInv, TypeOK, PositionsInv
<1>2. geo[c] \in Nat /\ geo'[c] # 0 /\ geo'[c] # geo[c] /\ geo[c] # 0
  <2>1. geo[c] \in Nat
    BY <1>1, MessagesAssumption DEF TypeOK, StoreOK
  <2>2. geo'[c] \in Nat
    BY DEF OrderInv, AuthorisedInv, TypeOK, StoreOK
  <2> QED
    BY <2>1, <2>2
<1>3. PICK h \in Handlers : ExecuteAny(h)
  <2>1. ASSUME NEW h \in Handlers, ResumeAny(h) \/ FailPoint(h)
        PROVE  geo' = geo
    BY <2>1, PhaseForms DEF Resume, store
  <2>2. ASSUME NEW m \in Messages, Discard(m) \/ Ignore(m) \/ AskAllowed(m) \/ Relay(m)
        PROVE  geo' = geo
    BY <2>2 DEF Discard, Ignore, AskAllowed, Relay, Arrive, store
  <2>3. ASSUME \/ Crash \/ Restart
               \/ \E k \in Connections : SessionExpires(k)
               \/ \E e \in Characters : ProfileExpires(e)
               \/ UNCHANGED vars
        PROVE  geo' = geo
    BY <2>3 DEF Crash, Die, Restart, SessionExpires, ProfileExpires, vars, store
  <2> QED
    BY <1>2, <2>1, <2>2, <2>3 DEF Next
<1>4. ExecuteAddPoint(h) /\ geo'[c] = h
  BY <1>1, <1>2, <1>3, PositionForms
<1>5. pc[h] = "addPoint" /\ 1 \in 1 .. Len(pipe["tracker"]) /\ pipe["tracker"][1] = h
  <2>1. ClientOf("addPoint") = "tracker" /\ "tracker" \in Clients
    BY DEF ClientOf, UserCommands, TrackerCommands, Clients
  <2>2. Execute(h, "addPoint")
    BY <1>4 DEF ExecuteAddPoint
  <2> QED
    BY <1>1, <2>1, <2>2, ExecutionTakes DEF Execute
<1>6. h \in Consumed /\ "addPoint" \in Late
  BY <1>1, <1>5, PcNames, LateNames DEF HandlersConsumed
<1>7. ~Follows(h, geo[c])
  BY <1>1, <1>2, <1>5, <1>6 DEF RecordsInOrder
<1> QED
  BY <1>4, <1>7 DEF Follows

\* A position recorded is not replaced by an older one, unless that one
\* announced a new character or the newer one was not published
\* (index.ts:128-151).
THEOREM PositionsDoKeepOrder == Spec => PositionsKeepOrder
<1>1. OrderInv /\ OrderInv' /\ PositionsInv /\ [Next]_vars => PositionsInv'
  BY PositionsStep
<1>2. OrderInv /\ OrderInv' /\ PositionsInv /\ [Next]_vars =>
        [\A c \in Characters : 0 < geo'[c] /\ geo'[c] < geo[c] =>
            Switching(geo'[c]) \/ log[geo[c]].kind # "good"]_vars
  BY PositionsStepKeeps
<1> QED
  BY <1>1, <1>2, InitPositions, OrderInvariant, PTL DEF Spec, PositionsKeepOrder

-----------------------------------------------------------------------------
(* Nothing of a player is shown before its name is on its way to the record. *)

LEMMA ConnectionClient ==
    /\ "connection" \in Clients
    /\ \A command \in {"setCurrent", "increase"} : ClientOf(command) = "connection"
BY DEF Clients, ClientOf, UserCommands, TrackerCommands

\* The actor of a step takes nothing from the pipe, and comes to its end.
LEMMA ActorWrites ==
    ASSUME TypeOK, HandlersConsumed, QueuesExact, NEW h \in Handlers, ActorStep(h), NEW k
    PROVE  /\ \A j \in Writes(k) : j \in Writes(k)' /\ j < Len(pipe["connection"]) + 1
           /\ \A g \in Handlers \ {h} : Sent(g) \subseteq Sent(g)'
           /\ Sent(h) = {}
           /\ pipe'["connection"] = Append(pipe["connection"], h) =>
                Len(pipe["connection"]) + 1 \in Sent(h)'
<1> DEFINE p == pipe["connection"]
           t == pipe'["connection"]
<1>1. /\ QueuesOK /\ p \in Seq(Handlers) /\ Len(p) \in Nat
      /\ \A i \in 1 .. Len(p) : p[i] \in Handlers
  BY ConnectionClient, QueueType, LenProperties, ElementOfSeq DEF TypeOK
<1>2. t = p \/ t = Append(p, h)
  BY ConnectionClient DEF ActorStep
<1>3. \A i \in 1 .. Len(p) : i \in 1 .. Len(t) /\ t[i] = p[i]
  BY <1>1, <1>2, ConnectionClient, PipeKeeps
<1>4. \A i \in 1 .. Len(p) : p[i] # h
  BY ConnectionClient DEF ActorStep, Unsent
<1>5. ASSUME NEW j \in Writes(k)
      PROVE  j \in Writes(k)' /\ j < Len(p) + 1
  <2>1. /\ j \in 1 .. Len(p) /\ p[j] \in Handlers \ {h}
        /\ pc[p[j]] = "setCurrent" /\ Conn(p[j]) = k
    BY <1>1, <1>4, <1>5 DEF Writes
  <2>2. p[j] \in Consumed
    BY <2>1 DEF HandlersConsumed
  <2>3. pc'[p[j]] = "setCurrent" /\ log'[p[j]] = log[p[j]]
    BY <2>1, <2>2 DEF ActorStep
  <2> QED
    BY <1>1, <1>3, <2>1, <2>3 DEF Writes, Conn
<1>6. \A g \in Handlers \ {h} : Sent(g) \subseteq Sent(g)'
  BY <1>3 DEF Sent
<1>7. Sent(h) = {}
  BY <1>4 DEF Sent
<1>8. ASSUME t = Append(p, h)
      PROVE  Len(p) + 1 \in Sent(h)'
  <2>1. Len(p) + 1 \in 1 .. Len(t) /\ t[Len(p) + 1] = h
    BY <1>1, <1>8, AppendProperties
  <2> QED
    BY <2>1 DEF Sent
<1> QED
  BY <1>5, <1>6, <1>7, <1>8

LEMMA ActorRecords ==
    ASSUME TypeOK, HandlersConsumed, EffectsConsumed, QueuesExact,
           NEW k \in Connections, RecordedFirst(k),
           NEW h \in Handlers, ActorStep(h), Consumed' \subseteq Consumed \cup {h},
           players'[k] # Nobody /\ players[k] = Nobody => Writes(k)' # {},
           /\ ~Recorded(k) /\ h \in Consumed' /\ Conn(h)' = k /\ Label(h)' # Nobody
               => AheadOf(h)'
    PROVE  RecordedFirst(k)'
<1>1. /\ sessions' = sessions /\ profiles' = profiles /\ geo' = geo
      /\ \A g \in Consumed : log'[g] = log[g] /\ seen'[g] = seen[g]
      /\ \A g \in Handlers \ {h} : pc'[g] = pc[g]
      /\ Consumed \subseteq Handlers
  BY ConsumedHandlers DEF ActorStep, store
<1>2. Recorded(k)' <=> Recorded(k)
  BY <1>1 DEF Recorded
<1> SUFFICES ASSUME ~Recorded(k)
             PROVE  /\ Shown(k)' = {}
                    /\ players'[k] # Nobody => Writes(k)' # {}
                    /\ \A g \in Consumed' :
                         Conn(g)' = k /\ Label(g)' # Nobody => AheadOf(g)'
  BY <1>2 DEF RecordedFirst
<1>3. /\ Shown(k) = {}
      /\ players[k] # Nobody => Writes(k) # {}
      /\ \A g \in Consumed : Conn(g) = k /\ Label(g) # Nobody => AheadOf(g)
  BY DEF RecordedFirst
<1>4. Shown(k)' = {}
  <2>1. \A c \in Characters : geo[c] # 0 => Conn(geo[c])' = Conn(geo[c])
    BY <1>1 DEF EffectsConsumed, Conn
  <2> QED
    BY <1>1, <1>3, <2>1 DEF Shown
<1>5. /\ Writes(k) \subseteq Writes(k)'
      /\ \A g \in Handlers \ {h} : Sent(g) \subseteq Sent(g)'
  BY ActorWrites
<1>6. ASSUME NEW g \in Consumed', Conn(g)' = k, Label(g)' # Nobody
      PROVE  AheadOf(g)'
  <2>1. CASE g = h
    BY <1>6, <2>1
  <2>2. CASE g # h
    <3>1. g \in Consumed /\ g \in Handlers \ {h} /\ pc'[g] = pc[g]
      BY <1>1, <1>6, <2>2
    <3>2. Conn(g) = k /\ Label(g) # Nobody
      BY <1>1, <1>6, <3>1 DEF Conn, Label, Named
    <3>3. AheadOf(g)
      BY <1>3, <3>1, <3>2
    <3> QED
      BY <1>5, <1>6, <3>1, <3>2, <3>3 DEF AheadOf
  <2> QED
    BY <2>1, <2>2
<1> QED
  BY <1>3, <1>4, <1>5, <1>6

\* A handler that published goes on to count.
LEMMA BroadcastResumes ==
    ASSUME NEW h, ResumeAny(h) \/ FailPoint(h), pc[h] = "broadcast"
    PROVE  Send(h, "increase")
BY DEF ResumeAny, FailPoint, Refuse, Grant, Continue, Recheck, Complete, Resume

LEMMA ResumptionRecords ==
    ASSUME AuthorisedInv, QueuesOK', QueuesExact,
           NEW k \in Connections, RecordedFirst(k),
           NEW h \in Handlers, ResumeAny(h) \/ FailPoint(h)
    PROVE  RecordedFirst(k)'
<1>1. /\ TypeOK /\ HandlersConsumed /\ EffectsConsumed /\ QueuesOK
      /\ pc \in [Handlers -> Commands \cup Outcomes]
      /\ players \in [Connections -> Characters \cup {Nobody}]
  BY DEF AuthorisedInv, TypeOK, MemoryOK
<1>2. /\ ActorStep(h) /\ UNCHANGED <<log, seen>>
      /\ pc'[h] \notin Asking /\ Consumed' = Consumed
  BY <1>1, ResumptionQueues DEF Consumed
<1>3. PICK command \in Commands \cup {"granted", "refused"} :
        /\ Resume(h, command)
        /\ \/ /\ command = "granted" /\ Send(h, "setCurrent")
              /\ players' = [players EXCEPT ![Conn(h)] = log[h].name]
           \/ Finish(h) /\ UNCHANGED players
           \/ /\ command \in Commands \ {"getAllowed"} /\ UNCHANGED players
              /\ \E next \in Commands \ {"getAllowed", "setCurrent"} : Send(h, next)
           \/ UNCHANGED <<pc, pipe>> /\ players' = Unknown /\ command = "addPoint"
  BY ResumptionForms
<1>4. /\ pc[h] = command /\ Sent(h) = {}
      /\ \A j \in Writes(k) : j \in Writes(k)' /\ j < Len(pipe["connection"]) + 1
      /\ pipe'["connection"] = Append(pipe["connection"], h) =>
            Len(pipe["connection"]) + 1 \in Sent(h)'
      /\ Conn(h)' = Conn(h) /\ Label(h)' = Label(h)
  BY <1>1, <1>2, <1>3, ActorWrites DEF Resume, Conn, Label, Named
<1>5. CASE /\ command = "granted" /\ Send(h, "setCurrent")
           /\ players' = [players EXCEPT ![Conn(h)] = log[h].name]
  <2>1. /\ pc'[h] = "setCurrent"
        /\ pipe'["connection"] = Append(pipe["connection"], h)
    BY <1>1, <1>5, SendEffect, ConnectionClient
  <2>2. Len(pipe["connection"]) + 1 \in Sent(h)'
    BY <1>4, <2>1
  <2>3. Conn(h) = k => Writes(k)' # {}
    BY <1>4, <2>1, <2>2 DEF Sent, Writes, Conn
  <2>4. Conn(h) # k => players'[k] = players[k]
    BY <1>1, <1>5
  <2>5. AheadOf(h)'
    BY <2>1, <2>2 DEF AheadOf, PastWrite, Recording
  <2> QED
    BY <1>1, <1>2, <2>3, <2>4, <2>5, ActorRecords
<1>6. CASE Finish(h) /\ UNCHANGED players
  <2>1. pc'[h] = "done"
    BY <1>1, <1>6 DEF Finish
  <2>2. AheadOf(h)'
    BY <2>1 DEF AheadOf, PastWrite, Recording
  <2> QED
    BY <1>1, <1>2, <1>6, <2>2, ActorRecords
<1>7. ASSUME ~Recorded(k), Conn(h) = k, Label(h) # Nobody
      PROVE  /\ command \notin PastWrite \cup {"setCurrent", "increase"}
             /\ command = "broadcast" => Writes(k) # {}
  <2>1. h \in Consumed
    BY <1>1, <1>3, <1>4, PcNames DEF HandlersConsumed
  <2>2. AheadOf(h)
    BY <1>7, <2>1 DEF RecordedFirst
  <2> QED
    BY <1>4, <1>7, <2>2 DEF AheadOf
<1>8. CASE /\ command \in Commands \ {"getAllowed"} /\ UNCHANGED players
           /\ \E next \in Commands \ {"getAllowed", "setCurrent"} : Send(h, next)
  <2>1. ASSUME ~Recorded(k), Conn(h) = k, Label(h) # Nobody
        PROVE  AheadOf(h)'
    <3>1. command = "broadcast" /\ Writes(k) # {}
      BY <1>7, <1>8, <2>1, CommandTypes DEF PastWrite, Recording
    <3>2. Send(h, "increase")
      BY <1>4, <3>1, BroadcastResumes
    <3>3. /\ pc'[h] = "increase"
          /\ pipe'["connection"] = Append(pipe["connection"], h)
      BY <1>1, <3>2, SendEffect, ConnectionClient
    <3>4. PICK j \in Writes(k) : TRUE
      BY <3>1
    <3>5. \E i \in Sent(h)', l \in Writes(k)' : l < i
      BY <1>4, <3>3, <3>4
    <3> QED
      BY <1>4, <2>1, <3>3, <3>5 DEF AheadOf, PastWrite, Recording
  <2> QED
    BY <1>1, <1>2, <1>4, <1>8, <2>1, ActorRecords
<1>9. CASE UNCHANGED <<pc, pipe>> /\ players' = Unknown /\ command = "addPoint"
  <2>1. players'[k] = Nobody
    BY <1>9 DEF Unknown
  <2>2. "addPoint" \in PastWrite
    BY DEF PastWrite, Recording
  <2> QED
    BY <1>1, <1>2, <1>4, <1>7, <1>9, <2>1, <2>2, ActorRecords
<1> QED
  BY <1>3, <1>5, <1>6, <1>8, <1>9

LEMMA ArrivalRecords ==
    ASSUME AuthorisedInv, QueuesExact, NEW k \in Connections, RecordedFirst(k),
           NEW m \in Messages, Discard(m) \/ Ignore(m) \/ AskAllowed(m) \/ Relay(m)
    PROVE  RecordedFirst(k)'
<1>1. /\ TypeOK /\ HandlersConsumed /\ EffectsConsumed /\ QueuesOK
      /\ pc \in [Handlers -> Commands \cup Outcomes]
  BY DEF AuthorisedInv, TypeOK, MemoryOK
<1>2. PICK h : h = Len(log) + 1
  OBVIOUS
<1>3. /\ ActorStep(h) /\ h \in Handlers
      /\ Consumed' = Consumed \cup {h} /\ UNCHANGED players
  BY <1>1, <1>2, ArrivalActs
<1>4. /\ Arrive(m)
      /\ \/ Finish(h)
         \/ Send(h, "getAllowed")
         \/ /\ Relay(m)
            /\ \E next \in {"broadcast", "increase"} : Send(h, next)
  BY <1>2 DEF Discard, Ignore, AskAllowed, Relay, Publication
<1>5. log'[h] = m /\ seen'[h] = players[m.conn]
  BY <1>1, <1>2, <1>3, <1>4, ArriveAppends DEF Arrive, TypeOK, MemoryOK
<1>6. CASE Finish(h) \/ Send(h, "getAllowed")
  <2>1. pc'[h] \in {"done", "getAllowed"}
    BY <1>1, <1>3, <1>6, SendEffect DEF Finish
  <2>2. AheadOf(h)'
    BY <2>1 DEF AheadOf, PastWrite, Recording
  <2> QED
    BY <1>1, <1>3, <2>2, ActorRecords
<1>7. ASSUME Relay(m), NEW next \in {"broadcast", "increase"}, Send(h, next)
      PROVE  RecordedFirst(k)'
  <2>1. ASSUME ~Recorded(k), Conn(h)' = k, Label(h)' # Nobody
        PROVE  AheadOf(h)'
    <3>1. players[k] # Nobody
      BY <1>5, <1>7, <2>1, NamesAssumption DEF Conn, Label, Named, Relay
    <3>2. PICK j \in Writes(k) : TRUE
      BY <2>1, <3>1 DEF RecordedFirst
    <3>3. j \in Writes(k)' /\ j < Len(pipe["connection"]) + 1
      BY <1>1, <1>3, <3>2, ActorWrites
    <3>4. CASE next = "broadcast"
      <4>1. pc'[h] = "broadcast"
        BY <1>1, <1>3, <1>7, <3>4, SendEffect
      <4> QED
        BY <2>1, <3>3, <4>1 DEF AheadOf, PastWrite, Recording
    <3>5. CASE next = "increase"
      <4>1. /\ pc'[h] = "increase"
            /\ pipe'["connection"] = Append(pipe["connection"], h)
        BY <1>1, <1>3, <1>7, <3>5, SendEffect, ConnectionClient
      <4>2. Len(pipe["connection"]) + 1 \in Sent(h)'
        BY <1>1, <1>3, <4>1, ActorWrites
      <4> QED
        BY <2>1, <3>3, <4>1, <4>2 DEF AheadOf, PastWrite, Recording
    <3> QED
      BY <3>4, <3>5
  <2> QED
    BY <1>1, <1>3, <2>1, ActorRecords
<1> QED
  BY <1>4, <1>6, <1>7

\* Only the commands that record a position give a character anything to show.
LEMMA ExecutionShows ==
    ASSUME StoreOK, NEW h \in Handlers, ExecuteAny(h), NEW c \in Characters
    PROVE  /\ \/ geo'[c] \in {geo[c], 0}
              \/ geo'[c] = h /\ pc[h] \in Recording
           /\ \/ profiles'[c].by = profiles[c].by
              \/ profiles'[c].by = Conn(h) /\ pc[h] \in Recording
<1>1. CASE ExecuteKeepAlive(h)
  BY <1>1 DEF StoreOK, ExecuteKeepAlive
<1>2. CASE ExecuteRemovePosition(h)
  BY <1>2 DEF ExecuteRemovePosition
<1>3. CASE ExecuteSetAttributes(h)
  BY <1>3 DEF StoreOK, ExecuteSetAttributes, Execute, Recording
<1>4. CASE ExecutePersistUser(h)
  BY <1>4 DEF StoreOK, ExecutePersistUser
<1>5. CASE ExecuteAddPoint(h)
  BY <1>5 DEF StoreOK, ExecuteAddPoint, Execute, Recording
<1> QED
  BY <1>1, <1>2, <1>3, <1>4, <1>5
  DEF ExecuteAny, ExecuteGetAllowed, ExecuteSetCurrent, ExecutePersistCurrent,
      ExecuteBroadcast, ExecuteIncrease, ExecuteExpire, store

\* A command that Redis executes is the first of its pipe: behind a write of
\* current_character comes nothing of the player before that one is done.
LEMMA ExecutionRecords ==
    ASSUME AuthorisedInv, QueuesExact, NEW k \in Connections, RecordedFirst(k),
           NEW h \in Handlers, ExecuteAny(h)
    PROVE  RecordedFirst(k)'
<1>1. /\ TypeOK /\ HandlersConsumed /\ EffectsConsumed /\ QueuesOK /\ NamesAllowed
      /\ pc \in [Handlers -> Commands \cup Outcomes] /\ Consumed \subseteq Handlers
      /\ log \in Seq(Messages) /\ StoreOK
      /\ sessions \in [Connections -> [setUp : BOOLEAN,
                                       current : Characters \cup {Nobody},
                                       counted : BOOLEAN, ttl : BOOLEAN]]
  BY ConsumedHandlers DEF AuthorisedInv, TypeOK, MemoryOK, StoreOK
<1>2. PICK command \in Commands :
        /\ Execute(h, command)
        /\ \/ /\ command = "getAllowed"
              /\ \E answer \in {"granted", "refused"} : pc' = [pc EXCEPT ![h] = answer]
           \/ command # "getAllowed" /\ pc' = pc
        /\ \/ /\ command = "setCurrent"
              /\ sessions' = [sessions EXCEPT ![Conn(h)].current = log[h].name]
           \/ /\ command # "setCurrent"
              /\ sessions'[k].current = sessions[k].current
  BY <1>1, ExecutionForms
<1>3. /\ pc[h] = command /\ UNCHANGED <<log, seen, players>> /\ Consumed' = Consumed
      /\ h \in Consumed /\ Conn(h) \in Connections
      /\ \A g : Conn(g)' = Conn(g) /\ Label(g)' = Label(g)
  <2>1. pc[h] = command /\ UNCHANGED <<log, seen, players>> /\ h \in Consumed
    BY <1>1, <1>2, PcNames DEF Execute, HandlersConsumed
  <2>2. log[h] \in Messages
    BY <1>1, <2>1 DEF Consumed
  <2> QED
    BY <2>1, <2>2, MessagesAssumption DEF Conn, Label, Named, Consumed
<1>4. CASE Recorded(k)
  <2>1. command = "setCurrent" => log[h].name \in Characters
    BY <1>1, <1>3 DEF HandlersConsumed, Announcing, Named
  <2>2. sessions'[k].current # Nobody
    BY <1>1, <1>2, <1>4, <2>1, NamesAssumption DEF Recorded
  <2> QED
    BY <2>2 DEF RecordedFirst, Recorded
<1>5. CASE command = "setCurrent" /\ Conn(h) = k
  <2>1. sessions'[k].current = log[h].name /\ log[h].name \in Characters
    BY <1>1, <1>2, <1>3, <1>5 DEF HandlersConsumed, Announcing, Named
  <2> QED
    BY <2>1, NamesAssumption DEF RecordedFirst, Recorded
<1>6. CASE ~Recorded(k) /\ ~(command = "setCurrent" /\ Conn(h) = k)
  <2>1. /\ Shown(k) = {}
        /\ players[k] # Nobody => Writes(k) # {}
        /\ \A g \in Consumed : Conn(g) = k /\ Label(g) # Nobody => AheadOf(g)
    BY <1>6 DEF RecordedFirst
  <2> DEFINE q == pipe["connection"]
             t == pipe'["connection"]
  <2>2. PICK d \in {0, 1} :
          /\ \A i \in 1 .. Len(q) :
               q[i] # h => i - d \in 1 .. Len(t) /\ t[i - d] = q[i]
          /\ command = "increase" => Sent(h) \subseteq {1}
    <3>1. CASE ClientOf(command) = "connection"
      <4>1. \A i \in 1 .. Len(q) : q[i] # h => i - 1 \in 1 .. Len(t) /\ t[i - 1] = q[i]
        BY <1>1, <1>2, <3>1, ConnectionClient, ExecutionTakes
      <4>2. 1 \in 1 .. Len(q) /\ q[1] = h
        BY <1>1, <1>2, <3>1, ConnectionClient, ExecutionTakes
      <4>3. Sent(h) \subseteq {1}
        BY <1>1, <4>2, ConnectionClient, PipeEntries DEF Sent
      <4> QED
        BY <4>1, <4>3
    <3>2. CASE ClientOf(command) # "connection"
      <4>1. t = q
        BY <1>1, <1>2, <3>2, ConnectionClient, ExecuteQueues
      <4>2. \A i \in 1 .. Len(q) : i - 0 = i
        OBVIOUS
      <4> QED
        BY <3>2, <4>1, <4>2, ConnectionClient
    <3> QED
      BY <3>1, <3>2
  <2>3. \A j \in Writes(k) : j \in 1 .. Len(q) /\ j - d \in Writes(k)'
    <3> SUFFICES ASSUME NEW j \in Writes(k)
                 PROVE  j \in 1 .. Len(q) /\ j - d \in Writes(k)'
      OBVIOUS
    <3>1. /\ j \in 1 .. Len(q) /\ pc[q[j]] = "setCurrent" /\ Conn(q[j]) = k
          /\ q[j] \in Handlers
      BY <1>1, ConnectionClient, PipeEntries DEF Writes
    <3>2. q[j] # h
      BY <1>3, <1>6, <3>1
    <3>3. pc'[q[j]] = "setCurrent"
      BY <1>1, <1>2, <3>1, <3>2
    <3> QED
      BY <1>3, <2>2, <3>1, <3>2, <3>3 DEF Writes
  <2>4. \A g \in Handlers \ {h} : \A i \in Sent(g) :
          i \in 1 .. Len(q) /\ i - d \in Sent(g)'
    BY <2>2 DEF Sent
  <2>5. Shown(k)' = {}
    <3>1. Conn(h) = k /\ Label(h) # Nobody => command \notin Recording
      BY <1>3, <2>1 DEF AheadOf, PastWrite
    <3>2. command \in Recording => Conn(h) # k
      BY <1>3, <3>1 DEF NamesAllowed, AuthorisedInv
    <3>3. ASSUME NEW c \in Characters
          PROVE  /\ geo'[c] # 0 => log'[geo'[c]].conn # k
                 /\ profiles'[c].by # k
      <4>1. /\ geo[c] # 0 => Conn(geo[c]) # k
            /\ profiles[c].by # k
        BY <2>1 DEF Shown
      <4>2. /\ \/ geo'[c] \in {geo[c], 0}
               \/ geo'[c] = h /\ Conn(h) # k
            /\ \/ profiles'[c].by = profiles[c].by
               \/ profiles'[c].by = Conn(h) /\ Conn(h) # k
        BY <1>1, <1>3, <3>2, ExecutionShows
      <4> QED
        BY <1>3, <4>1, <4>2 DEF Conn
    <3> QED
      BY <3>3 DEF Shown, Conn
  <2>6. ASSUME NEW g \in Consumed, Conn(g) = k, Label(g) # Nobody
        PROVE  AheadOf(g)'
    <3>1. AheadOf(g) /\ g \in Handlers
      BY <1>1, <2>1, <2>6
    <3>2. CASE g = h
      <4>1. command \notin PastWrite \cup {"setCurrent"}
        BY <1>3, <1>6, <2>6, <3>1, <3>2 DEF AheadOf
      <4>2. command # "increase"
        BY <1>3, <2>2, <2>3, <2>6, <3>1, <3>2 DEF AheadOf
      <4>3. command = "broadcast" => Writes(k)' # {}
        BY <1>3, <2>3, <2>6, <3>1, <3>2 DEF AheadOf
      <4>4. pc'[h] \in {command, "granted", "refused"}
        BY <1>1, <1>2, <1>3
      <4> QED
        BY <1>3, <2>6, <3>2, <4>1, <4>2, <4>3, <4>4 DEF AheadOf, PastWrite, Recording
    <3>3. CASE g # h
      <4>1. pc'[g] = pc[g]
        BY <1>1, <1>2, <3>1, <3>3
      <4>2. pc[g] = "setCurrent" => Sent(g)' # {}
        BY <2>4, <3>1, <3>3 DEF AheadOf
      <4>3. pc[g] = "broadcast" => Writes(k)' # {}
        BY <2>3, <2>6, <3>1 DEF AheadOf
      <4>4. ASSUME pc[g] = "increase"
            PROVE  \E i \in Sent(g)', j \in Writes(k)' : j < i
        <5>1. PICK i \in Sent(g), j \in Writes(k) : j < i
          BY <2>6, <3>1, <4>4 DEF AheadOf
        <5>2. i - d \in Sent(g)' /\ j - d \in Writes(k)' /\ j - d < i - d
          BY <2>3, <2>4, <3>1, <3>3, <5>1
        <5> QED
          BY <5>2
      <4> QED
        BY <1>3, <2>6, <3>1, <4>1, <4>2, <4>3, <4>4 DEF AheadOf
    <3> QED
      BY <3>2, <3>3
  <2>7. ASSUME players'[k] # Nobody
        PROVE  Writes(k)' # {}
    <3>1. PICK j \in Writes(k) : TRUE
      BY <1>3, <2>1, <2>7
    <3> QED
      BY <2>3, <3>1
  <2>8. \A g \in Consumed' : Conn(g)' = k /\ Label(g)' # Nobody => AheadOf(g)'
    BY <1>3, <2>6
  <2> QED
    BY <2>5, <2>7, <2>8 DEF RecordedFirst
<1> QED
  BY <1>4, <1>5, <1>6

LEMMA FaultRecords ==
    ASSUME TypeOK, NEW k \in Connections, RecordedFirst(k), Crash \/ Restart,
           ~up => players = Unknown
    PROVE  RecordedFirst(k)'
<1>1. /\ UNCHANGED <<log, seen, sessions, profiles, geo>>
      /\ players'[k] = Nobody
  BY DEF Crash, Restart, Die, Unknown, store
<1>2. /\ Recorded(k)' <=> Recorded(k)
      /\ Shown(k)' = Shown(k) /\ Consumed' = Consumed
      /\ \A h : Conn(h)' = Conn(h) /\ Label(h)' = Label(h)
  BY <1>1 DEF Recorded, Shown, Conn, Label, Named, Consumed
<1>3. CASE Crash
  <2>1. UNCHANGED <<pc, pipe>>
    BY <1>3 DEF Crash, Die
  <2>2. \A h : AheadOf(h)' <=> AheadOf(h)
    BY <1>2, <2>1 DEF AheadOf, Sent, Writes
  <2> QED
    BY <1>1, <1>2, <2>2 DEF RecordedFirst
<1>4. CASE Restart
  <2>1. \A h \in Handlers : pc'[h] \in {"idle", "done", "lost"}
    BY <1>4 DEF Restart
  <2>2. \A h \in Handlers : AheadOf(h)'
    BY <2>1 DEF AheadOf, PastWrite, Recording
  <2> QED
    BY <1>1, <1>2, <2>2, ConsumedHandlers DEF RecordedFirst
<1> QED
  BY <1>3, <1>4
=============================================================================
