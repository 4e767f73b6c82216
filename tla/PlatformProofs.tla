--------------------------- MODULE PlatformProofs ---------------------------
(* Proofs about Platform, for any connections, sockets, characters, tokens *)
(* and messages, and any number of them in Kafka.                          *)
EXTENDS Platform, SequenceTheorems, TLAPS

-----------------------------------------------------------------------------
(* The station's steps, and what expires, are steps of GroundStation. *)

LEMMA InitKept == Init => Station!Init
<1> SUFFICES ASSUME Init PROVE Station!Init
  OBVIOUS
<1>1. Relay!Consumed = {}
  BY EmptySeq DEF Init, Relay!Consumed
<1>2. Pending = {}
  BY <1>1 DEF Init, Pending, Handling
<1> QED
  BY <1>2 DEF Init, Station!Init, Relay!NoSession, Relay!NoProfile,
              Station!NoSession, Station!NoProfile

LEMMA StationStepKept ==
    ASSUME NEW s \in Sockets, StationStep(s) \/ Publish(s)
    PROVE  Station!Next
BY DEF StationStep, Publish, Station!Next

LEMMA StopsKept == StationStops => Station!Next
BY DEF StationStops, Station!Next

LEMMA ExpiryKept == Expiry => Station!Next
BY DEF Expiry, Station!Next, Station!Environment

-----------------------------------------------------------------------------
(* What the relay and Kafka do to the pending connections. *)

\* A step after which fewer connections have messages under way.
LEMMA SettlingKept ==
    ASSUME Pending' \subseteq Pending,
           UNCHANGED stationMemory, UNCHANGED <<sessions, profiles, geo>>
    PROVE  Station!Next
BY DEF stationMemory, Station!Next, Station!Environment, Station!RelaySettles,
       Station!process, Station!records

LEMMA SamePending ==
    ASSUME UNCHANGED <<inFlight, log, pc>>
    PROVE  Pending' = Pending
BY DEF Pending, Handling, Relay!Consumed, Relay!Conn

\* A handler that waits for Redis keeps its connection pending.
LEMMA WriterPending ==
    ASSUME PlatformInv, NEW h \in Relay!Handlers,
           pc[h] \notin {"idle", "done", "lost"}
    PROVE  /\ h \in Relay!Consumed
           /\ log[h] \in Messages
           /\ Relay!Conn(h) \in Connections
           /\ Relay!Conn(h) \in Pending
<1>1. h \in Relay!Consumed
  BY DEF PlatformInv, WritersPending, Relay!HandlersConsumed
<1>2. log[h] \in Messages
  BY <1>1, ElementOfSeq DEF PlatformInv, WritersPending, Relay!Consumed
<1>3. Relay!Conn(h) \in Connections
  BY <1>2, PlatformAssumption DEF Relay!Conn
<1>4. h \in Handling(Relay!Conn(h))
  BY <1>1 DEF Handling
<1> QED
  BY <1>1, <1>2, <1>3, <1>4 DEF Pending

LEMMA FewerPending ==
    ASSUME PlatformInv, NEW h \in Relay!Handlers, NEW point,
           pc[h] \notin {"idle", "done", "lost"},
           pc' = [pc EXCEPT ![h] = point],
           UNCHANGED <<inFlight, log>>
    PROVE  Pending' \subseteq Pending
<1>1. ASSUME NEW k \in Connections, NEW g \in Handling(k)'
      PROVE  g \in Handling(k)
  <2>1. /\ g \in Relay!Consumed /\ Relay!Conn(g) = k
        /\ pc'[g] \notin {"done", "lost"}
    BY DEF Handling, Relay!Consumed, Relay!Conn
  <2>2. pc[g] \notin {"done", "lost"}
    BY <2>1 DEF PlatformInv, WritersPending
  <2> QED
    BY <2>1, <2>2 DEF Handling
<1> QED
  BY <1>1 DEF Pending

-----------------------------------------------------------------------------
(* The relay's writes are among those GroundStation lets it make. *)

LEMMA ExecutionKept ==
    ASSUME PlatformInv, NEW h \in Relay!Handlers, Relay!ExecuteAny(h),
           UNCHANGED stationMemory, UNCHANGED inFlight
    PROVE  Station!Next
<1> DEFINE k == Relay!Conn(h)
<1>1. UNCHANGED log
  BY DEF Relay!ExecuteAny, Relay!Execute, Relay!ExecuteGetAllowed,
         Relay!ExecuteSetCurrent, Relay!ExecutePersistCurrent,
         Relay!ExecuteKeepAlive, Relay!ExecuteRemovePosition,
         Relay!ExecuteBroadcast, Relay!ExecuteIncrease, Relay!ExecuteExpire,
         Relay!ExecuteSetAttributes, Relay!ExecutePersistUser,
         Relay!ExecuteAddPoint
<1>2. CASE Relay!ExecuteGetAllowed(h)
  <2>1. /\ pc[h] = "getAllowed"
        /\ pc' = [pc EXCEPT ![h] = IF log[h].name \in Relay!AllowedCharacters(k)
                                   THEN "granted" ELSE "refused"]
        /\ UNCHANGED <<sessions, profiles, geo>>
    BY <1>2 DEF Relay!ExecuteGetAllowed, Relay!Execute, Relay!store
  <2>2. Pending' \subseteq Pending
    BY <1>1, <2>1, FewerPending
  <2> QED
    BY <2>1, <2>2, SettlingKept
<1>3. ASSUME UNCHANGED pc, pc[h] \in {"setCurrent", "increase"},
             \/ Relay!ExecuteSetCurrent(h)
             \/ Relay!ExecuteIncrease(h)
      PROVE  Station!Next
  <2>1. k \in Connections /\ k \in Pending
    BY <1>3, WriterPending
  <2>2. Pending' = Pending
    BY <1>1, <1>3, SamePending
  <2>3. UNCHANGED <<profiles, geo>>
    BY <1>3 DEF Relay!ExecuteSetCurrent, Relay!ExecuteIncrease
  <2>4. \/ \E c \in Characters : sessions' = [sessions EXCEPT ![k].current = c]
        \/ sessions' = [sessions EXCEPT ![k].counted = TRUE]
    <3>1. CASE Relay!ExecuteSetCurrent(h)
      <4>1. log[h].name \in Characters
        BY <3>1 DEF PlatformInv, WritersPending, Relay!HandlersConsumed,
                    Relay!Announcing, Relay!Named, Relay!ExecuteSetCurrent,
                    Relay!Execute
      <4> QED
        BY <3>1, <4>1 DEF Relay!ExecuteSetCurrent
    <3>2. CASE Relay!ExecuteIncrease(h)
      BY <3>2 DEF Relay!ExecuteIncrease
    <3> QED
      BY <1>3, <3>1, <3>2
  <2>5. Station!RelayWritesSession(k)
    BY <2>1, <2>2, <2>3, <2>4
    DEF Station!RelayWritesSession, Station!process, stationMemory
  <2> QED
    BY <2>1, <2>5 DEF Station!Next, Station!Environment
<1>4. ASSUME UNCHANGED pc, UNCHANGED <<sessions, profiles, geo>>
      PROVE  Station!Next
  <2>1. Pending' \subseteq Pending
    BY <1>1, <1>4, SamePending
  <2> QED
    BY <1>4, <2>1, SettlingKept
<1>5. ASSUME UNCHANGED pc, UNCHANGED <<sessions, geo>>,
             pc[h] \notin {"idle", "done", "lost"}, NEW c \in Characters,
             \/ profiles' = [profiles EXCEPT ![c].by = k]
             \/ /\ profiles[c] # Station!NoProfile
                /\ \E ttl \in BOOLEAN : profiles' = [profiles EXCEPT ![c].ttl = ttl]
      PROVE  Station!Next
  <2>1. k \in Connections /\ k \in Pending
    BY <1>5, WriterPending
  <2>2. Pending' = Pending
    BY <1>1, <1>5, SamePending
  <2>3. Station!RelayWritesProfile(c)
    BY <1>5, <2>1, <2>2
    DEF Station!RelayWritesProfile, Station!process, stationMemory
  <2> QED
    BY <2>3 DEF Station!Next, Station!Environment
<1>6. ASSUME UNCHANGED pc, UNCHANGED <<sessions, profiles>>,
             pc[h] \notin {"idle", "done", "lost"}, NEW c \in Characters,
             \E n \in 0 .. MaxMessages : geo' = [geo EXCEPT ![c] = n]
      PROVE  Station!Next
  <2>1. k \in Connections /\ k \in Pending
    BY <1>6, WriterPending
  <2>2. Pending' = Pending
    BY <1>1, <1>6, SamePending
  <2>3. PICK n \in 0 .. MaxMessages : geo' = [geo EXCEPT ![c] = n]
    BY <1>6
  <2>4. n \in (1 .. MaxMessages) \cup {0}
    BY PlatformAssumption
  <2>5. Station!RelayWritesPosition(c)
    BY <1>6, <2>1, <2>2, <2>3, <2>4
    DEF Station!RelayWritesPosition, Station!process, stationMemory
  <2> QED
    BY <2>5 DEF Station!Next, Station!Environment
<1>7. CASE Relay!ExecuteSetCurrent(h) \/ Relay!ExecuteIncrease(h)
  <2>1. UNCHANGED pc /\ pc[h] \in {"setCurrent", "increase"}
    BY <1>7 DEF Relay!ExecuteSetCurrent, Relay!ExecuteIncrease, Relay!Execute
  <2> QED
    BY <1>3, <1>7, <2>1
<1>8. CASE Relay!ExecutePersistCurrent(h) \/ Relay!ExecuteBroadcast(h)
  <2>1. UNCHANGED pc /\ UNCHANGED <<sessions, profiles, geo>>
    BY <1>8 DEF Relay!ExecutePersistCurrent, Relay!ExecuteBroadcast, Relay!store
  <2> QED
    BY <1>4, <2>1
<1>9. CASE Relay!ExecuteKeepAlive(h)
  <2>1. /\ UNCHANGED pc /\ UNCHANGED <<sessions, geo>> /\ pc[h] = "keepAlive"
        /\ profiles' = [c \in Characters |->
                          IF c = seen[h] /\ profiles[c] # Relay!NoProfile
                          THEN [profiles[c] EXCEPT !.ttl = TRUE]
                          ELSE profiles[c]]
    BY <1>9 DEF Relay!ExecuteKeepAlive, Relay!Execute
  <2>2. profiles = [c \in Characters |-> profiles[c]]
    BY DEF PlatformInv, RecordsShaped
  <2>3. CASE seen[h] \in Characters /\ profiles[seen[h]] # Relay!NoProfile
    <3>1. profiles' = [profiles EXCEPT ![seen[h]].ttl = TRUE]
      BY <2>1, <2>2, <2>3
    <3>2. profiles[seen[h]] # Station!NoProfile
      BY <2>3 DEF Relay!NoProfile, Station!NoProfile
    <3> QED
      BY <1>5, <2>1, <2>3, <3>1, <3>2
  <2>4. CASE ~(seen[h] \in Characters /\ profiles[seen[h]] # Relay!NoProfile)
    <3>1. profiles' = profiles
      BY <2>1, <2>2, <2>4
    <3> QED
      BY <1>4, <2>1, <3>1
  <2> QED
    BY <2>3, <2>4
<1>10. CASE Relay!ExecuteRemovePosition(h)
  <2>1. /\ UNCHANGED pc /\ UNCHANGED <<sessions, profiles>>
        /\ pc[h] = "removePosition"
        /\ geo' = [c \in Characters |-> IF c = seen[h] THEN 0 ELSE geo[c]]
    BY <1>10 DEF Relay!ExecuteRemovePosition, Relay!Execute
  <2>2. geo = [c \in Characters |-> geo[c]]
    BY DEF PlatformInv, RecordsShaped
  <2>3. CASE seen[h] \in Characters
    <3>1. geo' = [geo EXCEPT ![seen[h]] = 0]
      BY <2>1, <2>2, <2>3
    <3>2. 0 \in 0 .. MaxMessages
      BY PlatformAssumption
    <3> QED
      BY <1>6, <2>1, <2>3, <3>1, <3>2
  <2>4. CASE seen[h] \notin Characters
    <3>1. geo' = geo
      BY <2>1, <2>2, <2>4
    <3> QED
      BY <1>4, <2>1, <3>1
  <2> QED
    BY <2>3, <2>4
<1>11. CASE Relay!ExecuteExpire(h)
  BY <1>11 DEF Relay!ExecuteExpire, Relay!Execute, PlatformInv, WritersPending
<1>12. CASE Relay!ExecuteSetAttributes(h)
  <2>1. /\ UNCHANGED pc /\ UNCHANGED <<sessions, geo>> /\ pc[h] = "setAttributes"
        /\ profiles' = [profiles EXCEPT ![Relay!Label(h)].by = k]
    BY <1>12 DEF Relay!ExecuteSetAttributes, Relay!Execute
  <2>2. CASE Relay!Label(h) \in Characters
    BY <1>5, <2>1, <2>2
  <2>3. CASE Relay!Label(h) \notin Characters
    <3>1. profiles' = profiles
      BY <2>1, <2>3 DEF PlatformInv, RecordsShaped
    <3> QED
      BY <1>4, <2>1, <3>1
  <2> QED
    BY <2>2, <2>3
<1>13. CASE Relay!ExecutePersistUser(h)
  <2>1. /\ UNCHANGED pc /\ UNCHANGED <<sessions, geo>> /\ pc[h] = "persistUser"
        /\ profiles' = [profiles EXCEPT ![Relay!Label(h)].ttl = FALSE]
    BY <1>13 DEF Relay!ExecutePersistUser, Relay!Execute
  <2>2. CASE /\ Relay!Label(h) \in Characters
             /\ profiles[Relay!Label(h)] # Station!NoProfile
    BY <1>5, <2>1, <2>2
  <2>3. CASE /\ Relay!Label(h) \in Characters
             /\ profiles[Relay!Label(h)] = Station!NoProfile
    <3>1. profiles[Relay!Label(h)] \in [by : {Nobody}, ttl : {FALSE}]
      BY <2>3 DEF Station!NoProfile
    <3>2. [profiles[Relay!Label(h)] EXCEPT !.ttl = FALSE] = profiles[Relay!Label(h)]
      BY <3>1
    <3>3. profiles' = profiles
      BY <2>1, <2>3, <3>2 DEF PlatformInv, RecordsShaped
    <3> QED
      BY <1>4, <2>1, <3>3
  <2>4. CASE Relay!Label(h) \notin Characters
    <3>1. profiles' = profiles
      BY <2>1, <2>4 DEF PlatformInv, RecordsShaped
    <3> QED
      BY <1>4, <2>1, <3>1
  <2> QED
    BY <2>2, <2>3, <2>4
<1>14. CASE Relay!ExecuteAddPoint(h)
  <2>1. /\ UNCHANGED pc /\ UNCHANGED <<sessions, profiles>> /\ pc[h] = "addPoint"
    BY <1>14 DEF Relay!ExecuteAddPoint, Relay!Execute
  <2>2. log[h] \in Messages
    BY <2>1, WriterPending
  <2>3. log[h].kind # "offMap"
    BY <2>2, PlatformAssumption
  <2>4. geo' = [geo EXCEPT ![Relay!Label(h)] = h]
    BY <1>14, <2>3 DEF Relay!ExecuteAddPoint
  <2>5. h \in 0 .. MaxMessages
    BY PlatformAssumption DEF Relay!Handlers
  <2>6. CASE Relay!Label(h) \in Characters
    BY <1>6, <2>1, <2>4, <2>5, <2>6
  <2>7. CASE Relay!Label(h) \notin Characters
    <3>1. geo' = geo
      BY <2>4, <2>7 DEF PlatformInv, RecordsShaped
    <3> QED
      BY <1>4, <2>1, <3>1
  <2> QED
    BY <2>6, <2>7
<1> QED
  BY <1>2, <1>7, <1>8, <1>9, <1>10, <1>11, <1>12, <1>13, <1>14
  DEF Relay!ExecuteAny

LEMMA ResumptionKept ==
    ASSUME PlatformInv, NEW h \in Relay!Handlers, Relay!ResumeAny(h),
           UNCHANGED stationMemory, UNCHANGED inFlight
    PROVE  Station!Next
<1>1. /\ UNCHANGED log /\ UNCHANGED <<sessions, profiles, geo>>
      /\ pc[h] \notin {"idle", "done", "lost"}
      /\ \E point : pc' = [pc EXCEPT ![h] = point]
  BY DEF Relay!ResumeAny, Relay!Refuse, Relay!Grant, Relay!Continue,
         Relay!Recheck, Relay!Complete, Relay!Resume, Relay!Send, Relay!Finish,
         Relay!store
<1>2. Pending' \subseteq Pending
  BY <1>1, FewerPending
<1> QED
  BY <1>1, <1>2, SettlingKept

\* A message that Kafka hands over leaves Kafka, and its handler is new.
LEMMA ConsumptionKept ==
    ASSUME PlatformInv, NEW m \in Messages, Consume(m)
    PROVE  Station!Next
<1> DEFINE h == Len(log) + 1
<1>1. /\ inFlight[m.conn] > 0
      /\ inFlight' = [inFlight EXCEPT ![m.conn] = @ - 1]
      /\ UNCHANGED stationMemory
  BY DEF Consume
<1>2. /\ log' = Append(log, m)
      /\ UNCHANGED <<sessions, profiles, geo>>
      /\ \E point : pc' = [pc EXCEPT ![h] = point]
  BY DEF Consume, Relay!Ignore, Relay!AskAllowed, Relay!Relay, Relay!Arrive,
         Relay!Send, Relay!Finish, Relay!store
<1>3. m.conn \in Connections
  BY PlatformAssumption
<1>4. m.conn \in Pending
  BY <1>1, <1>3 DEF Pending
<1>5. ASSUME NEW k \in Connections, k # m.conn, k \in Pending'
      PROVE  k \in Pending
  <2>1. inFlight'[k] = inFlight[k] \/ inFlight'[k] # inFlight[k]
    OBVIOUS
  <2>2. inFlight' [k] = inFlight[k]
    BY <1>1, <1>5
  <2>3. CASE inFlight'[k] > 0
    BY <2>2, <2>3 DEF Pending
  <2>4. CASE Handling(k)' # {}
    <3>1. PICK g \in Handling(k)' : TRUE
      BY <2>4
    <3>2. /\ g \in 1 .. Len(log') /\ log'[g].conn = k
          /\ pc'[g] \notin {"done", "lost"}
      BY <3>1 DEF Handling, Relay!Consumed, Relay!Conn
    <3>3. Len(log') = Len(log) + 1 /\ Len(log) \in Nat
      BY <1>2 DEF PlatformInv, WritersPending
    <3>4. g # h
      BY <1>2, <1>5, <3>2 DEF PlatformInv, WritersPending
    <3>5. g \in 1 .. Len(log)
      BY <3>2, <3>3, <3>4
    <3>6. log'[g] = log[g]
      BY <1>2, <3>5 DEF PlatformInv, WritersPending
    <3>7. pc[g] \notin {"done", "lost"}
      BY <1>2, <3>2, <3>4 DEF PlatformInv, WritersPending
    <3>8. g \in Handling(k)
      BY <3>2, <3>5, <3>6, <3>7 DEF Handling, Relay!Consumed, Relay!Conn
    <3> QED
      BY <3>8 DEF Pending
  <2> QED
    BY <1>5, <2>3, <2>4 DEF Pending
<1>6. Pending' \subseteq Pending
  BY <1>4, <1>5 DEF Pending
<1> QED
  BY <1>1, <1>2, <1>6, SettlingKept

LEMMA LossKept ==
    ASSUME PlatformInv, NEW k \in Connections, Lose(k)
    PROVE  Station!Next
<1>1. UNCHANGED <<log, pc>> /\ UNCHANGED <<sessions, profiles, geo>>
  BY DEF Lose, relayMemory
<1>2. \A i \in Connections : Handling(i)' = Handling(i)
  BY <1>1 DEF Handling, Relay!Consumed, Relay!Conn
<1>3. \A i \in Connections : inFlight'[i] > 0 => inFlight[i] > 0
  BY DEF Lose, PlatformInv, WritersPending
<1>4. Pending' \subseteq Pending
  BY <1>2, <1>3 DEF Pending
<1> QED
  BY <1>1, <1>4, SettlingKept DEF Lose

LEMMA FaultKept ==
    ASSUME PlatformInv, RelayFault
    PROVE  Station!Next
<1>1. /\ UNCHANGED inFlight /\ UNCHANGED stationMemory /\ UNCHANGED log
      /\ UNCHANGED <<sessions, profiles, geo>>
  BY DEF RelayFault, Relay!Crash, Relay!Die, Relay!Restart, Relay!store
<1>2. \A g \in Relay!Handlers :
        pc'[g] \notin {"done", "lost"} => pc[g] \notin {"done", "lost"}
  BY DEF RelayFault, Relay!Crash, Relay!Die, Relay!Restart, PlatformInv,
         WritersPending
<1>3. ASSUME NEW k \in Connections, NEW g \in Handling(k)'
      PROVE  g \in Handling(k)
  <2>1. g \in 1 .. Len(log) /\ log[g].conn = k /\ pc'[g] \notin {"done", "lost"}
    BY <1>1, <1>3 DEF Handling, Relay!Consumed, Relay!Conn
  <2>2. g \in Relay!Handlers
    BY <2>1, PlatformAssumption DEF PlatformInv, WritersPending, Relay!Handlers
  <2> QED
    BY <1>2, <2>1, <2>2 DEF Handling, Relay!Consumed, Relay!Conn
<1>4. Pending' \subseteq Pending
  BY <1>1, <1>3 DEF Pending
<1> QED
  BY <1>1, <1>4, SettlingKept

\* A step of both processes, Kafka or Redis is a step of GroundStation.
LEMMA StepKept ==
    ASSUME PlatformInv, [Next]_vars
    PROVE  [Station!Next]_(Station!vars)
<1>1. CASE Next
  <2>1. ASSUME NEW s \in Sockets, StationStep(s) \/ Publish(s)
        PROVE  Station!Next
    BY <2>1, StationStepKept
  <2>2. ASSUME NEW m \in Messages, Consume(m)
        PROVE  Station!Next
    BY <2>2, ConsumptionKept
  <2>3. ASSUME NEW k \in Connections, Lose(k)
        PROVE  Station!Next
    BY <2>3, LossKept
  <2>4. ASSUME NEW h \in Relay!Handlers, RelayStep(h)
        PROVE  Station!Next
    BY <2>4, ExecutionKept, ResumptionKept DEF RelayStep
  <2>5. CASE RelayFault
    BY <2>5, FaultKept
  <2>6. CASE Expiry
    BY <2>6, ExpiryKept
  <2> QED
    BY <1>1, <2>1, <2>2, <2>3, <2>4, <2>5, <2>6, StopsKept DEF Next
<1>2. CASE UNCHANGED vars
  <2>1. /\ UNCHANGED <<status, stage, conn, aborted, served, task, current, failures>>
        /\ UNCHANGED <<sessions, profiles, geo>>
        /\ UNCHANGED <<inFlight, log, pc>>
    BY <1>2 DEF vars, stationMemory, relayMemory
  <2>2. Pending' = Pending
    BY <2>1, SamePending
  <2> QED
    BY <2>1, <2>2 DEF Station!vars, Station!process, Station!records
<1> QED
  BY <1>1, <1>2

-----------------------------------------------------------------------------
(* PlatformInv is inductive. *)

LEMMA InitEstablishes == Init => PlatformInv
<1> SUFFICES ASSUME Init PROVE PlatformInv
  OBVIOUS
<1>1. RecordsShaped
  BY DEF Init, RecordsShaped
<1>2. /\ log \in Seq(Messages) /\ Len(log) <= MaxMessages
      /\ inFlight \in [Connections -> Nat]
  BY PlatformAssumption, EmptySeq DEF Init
<1>3. WritersPending
  BY <1>2 DEF Init, WritersPending, Relay!Outcomes, Relay!HandlersConsumed,
              Relay!Announcing
<1> QED
  BY <1>1, <1>3 DEF PlatformInv

\* The writers of both processes write fields of hashes, and members of the
\* sorted set, that stay hashes and a set.
LEMMA ShapeKept ==
    ASSUME RecordsShaped, Station!Next
    PROVE  RecordsShaped'
<1>1. UNCHANGED sessions \/ sessions' = [k \in Connections |-> sessions'[k]]
  BY DEF RecordsShaped, Station!Next, Station!Upgrade, Station!Abort,
         Station!Publish, Station!Close, Station!Stop, Station!Exit,
         Station!StopAgain,
         Station!UpgradeSteps, Station!SetUp, Station!Open, Station!DropAborted,
         Station!Delete, Station!CloseSteps, Station!CloseReadCurrent,
         Station!CloseRemovePosition, Station!CloseKeepAlive,
         Station!CloseExpire, Station!ExpireSession, Station!DrainSteps,
         Station!DrainReadCurrent, Station!DrainExpire,
         Station!DrainRemovePosition, Station!DrainKeepAlive, Station!Failures,
         Station!FailUpgrade, Station!FailTask, Station!Environment,
         Station!RelayWritesSession, Station!RelayWritesProfile,
         Station!RelayWritesPosition, Station!RelaySettles,
         Station!SessionExpires, Station!ProfileExpires, Station!records
<1>2. UNCHANGED profiles \/ profiles' = [c \in Characters |-> profiles'[c]]
  BY DEF RecordsShaped, Station!Next, Station!Upgrade, Station!Abort,
         Station!Publish, Station!Close, Station!Stop, Station!Exit,
         Station!StopAgain,
         Station!UpgradeSteps, Station!SetUp, Station!Open, Station!DropAborted,
         Station!Delete, Station!CloseSteps, Station!CloseReadCurrent,
         Station!CloseRemovePosition, Station!CloseKeepAlive, Station!KeepProfile,
         Station!CloseExpire, Station!DrainSteps,
         Station!DrainReadCurrent, Station!DrainExpire,
         Station!DrainRemovePosition, Station!DrainKeepAlive, Station!Failures,
         Station!FailUpgrade, Station!FailTask, Station!Environment,
         Station!RelayWritesSession, Station!RelayWritesProfile,
         Station!RelayWritesPosition, Station!RelaySettles,
         Station!SessionExpires, Station!ProfileExpires, Station!records
<1>3. UNCHANGED geo \/ geo' = [c \in Characters |-> geo'[c]]
  BY DEF RecordsShaped, Station!Next, Station!Upgrade, Station!Abort,
         Station!Publish, Station!Close, Station!Stop, Station!Exit,
         Station!StopAgain,
         Station!UpgradeSteps, Station!SetUp, Station!Open, Station!DropAborted,
         Station!Delete, Station!CloseSteps, Station!CloseReadCurrent,
         Station!CloseRemovePosition, Station!RemovePosition,
         Station!CloseKeepAlive, Station!CloseExpire, Station!DrainSteps,
         Station!DrainReadCurrent, Station!DrainExpire,
         Station!DrainRemovePosition, Station!DrainKeepAlive, Station!Failures,
         Station!FailUpgrade, Station!FailTask, Station!Environment,
         Station!RelayWritesSession, Station!RelayWritesProfile,
         Station!RelayWritesPosition, Station!RelaySettles,
         Station!SessionExpires, Station!ProfileExpires, Station!records
<1> QED
  BY <1>1, <1>2, <1>3 DEF RecordsShaped

\* A handler's step leaves it consumed, and never sends it to "expire".
LEMMA StepOfHandler ==
    ASSUME WritersPending, NEW h \in Relay!Handlers,
           pc[h] # "idle", UNCHANGED <<log, inFlight>>,
           NEW point \in Relay!Commands \cup Relay!Outcomes, point # "expire",
           point \in Relay!Announcing => pc[h] \in Relay!Announcing,
           pc' = [pc EXCEPT ![h] = point]
    PROVE  WritersPending'
BY DEF WritersPending, Relay!HandlersConsumed, Relay!Consumed, Relay!Named

LEMMA ExecutionOrdered ==
    ASSUME WritersPending, NEW h \in Relay!Handlers, Relay!ExecuteAny(h),
           UNCHANGED inFlight
    PROVE  WritersPending'
<1>1. UNCHANGED log
  BY DEF Relay!ExecuteAny, Relay!Execute, Relay!ExecuteGetAllowed,
         Relay!ExecuteSetCurrent, Relay!ExecutePersistCurrent,
         Relay!ExecuteKeepAlive, Relay!ExecuteRemovePosition,
         Relay!ExecuteBroadcast, Relay!ExecuteIncrease, Relay!ExecuteExpire,
         Relay!ExecuteSetAttributes, Relay!ExecutePersistUser,
         Relay!ExecuteAddPoint
<1>2. CASE UNCHANGED pc
  BY <1>1, <1>2 DEF WritersPending, Relay!HandlersConsumed, Relay!Consumed,
                    Relay!Named
<1>3. CASE Relay!ExecuteGetAllowed(h)
  <2> DEFINE point == IF log[h].name \in Relay!AllowedCharacters(Relay!Conn(h))
                      THEN "granted" ELSE "refused"
  <2>1. pc[h] = "getAllowed" /\ pc' = [pc EXCEPT ![h] = point]
    BY <1>3 DEF Relay!ExecuteGetAllowed, Relay!Execute
  <2>2. /\ point \in Relay!Commands \cup Relay!Outcomes /\ point # "expire"
        /\ point \in Relay!Announcing => pc[h] \in Relay!Announcing
    BY <2>1 DEF Relay!Outcomes, Relay!Announcing
  <2> HIDE DEF point
  <2> QED
    BY <1>1, <2>1, <2>2, StepOfHandler
<1> QED
  BY <1>2, <1>3
  DEF Relay!ExecuteAny, Relay!Execute,
      Relay!ExecuteSetCurrent, Relay!ExecutePersistCurrent,
      Relay!ExecuteKeepAlive, Relay!ExecuteRemovePosition,
      Relay!ExecuteBroadcast, Relay!ExecuteIncrease, Relay!ExecuteExpire,
      Relay!ExecuteSetAttributes, Relay!ExecutePersistUser,
      Relay!ExecuteAddPoint

LEMMA ResumptionOrdered ==
    ASSUME WritersPending, NEW h \in Relay!Handlers, Relay!ResumeAny(h),
           UNCHANGED inFlight
    PROVE  WritersPending'
<1>1. UNCHANGED log /\ pc[h] # "idle"
  BY DEF Relay!ResumeAny, Relay!Refuse, Relay!Grant, Relay!Continue,
         Relay!Recheck, Relay!Complete, Relay!Resume
<1>2. \E point \in Relay!Commands \cup Relay!Outcomes :
        /\ pc' = [pc EXCEPT ![h] = point] /\ point # "expire"
        /\ point \in Relay!Announcing => pc[h] \in Relay!Announcing
  BY DEF Relay!ResumeAny, Relay!Refuse, Relay!Grant, Relay!Continue,
         Relay!Recheck, Relay!Complete, Relay!Resume, Relay!Send, Relay!Finish,
         Relay!Publication, Relay!Commands, Relay!ConnectionCommands,
         Relay!UserCommands, Relay!TrackerCommands, Relay!Outcomes,
         Relay!Announcing
<1> QED
  BY <1>1, <1>2, StepOfHandler

LEMMA ConsumptionOrdered ==
    ASSUME WritersPending, NEW m \in Messages, Consume(m)
    PROVE  WritersPending'
<1> DEFINE h == Len(log) + 1
<1>1. /\ log' = Append(log, m) /\ Len(log) < MaxMessages
      /\ inFlight[m.conn] > 0
      /\ inFlight' = [inFlight EXCEPT ![m.conn] = @ - 1]
  BY DEF Consume, Relay!Ignore, Relay!AskAllowed, Relay!Relay, Relay!Arrive
<1>2. \E point \in Relay!Commands \cup Relay!Outcomes :
        /\ pc' = [pc EXCEPT ![h] = point] /\ point # "expire"
        /\ point \in Relay!Announcing => Relay!Named(m)
  BY DEF Consume, Relay!Ignore, Relay!AskAllowed, Relay!Relay,
         Relay!Send, Relay!Finish, Relay!Publication, Relay!Commands,
         Relay!ConnectionCommands, Relay!Outcomes, Relay!Announcing
<1>3. /\ log' \in Seq(Messages) /\ Len(log') = h
      /\ \A g \in Relay!Consumed : log'[g] = log[g]
      /\ log'[h] = m
      /\ Len(log) \in Nat
  BY <1>1 DEF WritersPending, Relay!Consumed
<1>4. Len(log') <= MaxMessages
  BY <1>1, <1>3, PlatformAssumption
<1>5. inFlight' \in [Connections -> Nat]
  <2>1. inFlight[m.conn] - 1 \in Nat
    BY <1>1, PlatformAssumption DEF WritersPending
  <2> QED
    BY <1>1, <2>1, PlatformAssumption DEF WritersPending
<1>6. /\ pc' \in [Relay!Handlers -> Relay!Commands \cup Relay!Outcomes]
      /\ \A g \in Relay!Handlers : pc'[g] # "expire"
  BY <1>2 DEF WritersPending
<1>7. Relay!HandlersConsumed'
  <2> SUFFICES ASSUME NEW g \in Relay!Handlers
               PROVE  /\ pc'[g] # "idle" => g \in 1 .. Len(log')
                      /\ pc'[g] \in Relay!Announcing => Relay!Named(log'[g])
    BY DEF Relay!HandlersConsumed, Relay!Consumed, Relay!Named
  <2>1. CASE g = h
    BY <1>2, <1>3, <2>1 DEF WritersPending
  <2>2. CASE g # h
    <3>1. pc'[g] = pc[g]
      BY <1>2, <2>2 DEF WritersPending
    <3>2. /\ pc[g] # "idle" => g \in 1 .. Len(log)
          /\ pc[g] \in Relay!Announcing => Relay!Named(log[g])
      BY DEF WritersPending, Relay!HandlersConsumed, Relay!Consumed
    <3>3. pc[g] \in Relay!Announcing => pc[g] # "idle"
      BY DEF Relay!Announcing
    <3> QED
      BY <1>3, <3>1, <3>2, <3>3 DEF Relay!Consumed
  <2> QED
    BY <2>1, <2>2
<1> QED
  BY <1>3, <1>4, <1>5, <1>6, <1>7 DEF WritersPending

LEMMA FaultOrdered ==
    ASSUME WritersPending, RelayFault
    PROVE  WritersPending'
<1>1. UNCHANGED <<inFlight, log>>
  BY DEF RelayFault, Relay!Crash, Relay!Die, Relay!Restart
<1>2. \/ UNCHANGED pc
      \/ pc' = [h \in Relay!Handlers |->
                  IF pc[h] \in {"idle", "done"} THEN pc[h] ELSE "lost"]
  BY DEF RelayFault, Relay!Crash, Relay!Die, Relay!Restart
<1>3. CASE UNCHANGED pc
  BY <1>1, <1>3 DEF WritersPending, Relay!HandlersConsumed, Relay!Consumed,
                    Relay!Named
<1>4. CASE pc' = [h \in Relay!Handlers |->
                    IF pc[h] \in {"idle", "done"} THEN pc[h] ELSE "lost"]
  BY <1>1, <1>4 DEF WritersPending, Relay!HandlersConsumed, Relay!Consumed,
                    Relay!Named, Relay!Outcomes, Relay!Announcing
<1> QED
  BY <1>2, <1>3, <1>4

LEMMA StepEstablishes ==
    ASSUME PlatformInv, [Next]_vars
    PROVE  PlatformInv'
<1>1. RecordsShaped'
  <2>1. CASE Station!Next
    BY <2>1, ShapeKept DEF PlatformInv
  <2>2. CASE UNCHANGED Station!vars
    BY <2>2 DEF Station!vars, Station!records, PlatformInv, RecordsShaped
  <2> QED
    BY <2>1, <2>2, StepKept
<1>2. WritersPending'
  <2> USE DEF PlatformInv
  <2>1. ASSUME UNCHANGED <<log, pc>>, inFlight' \in [Connections -> Nat]
        PROVE  WritersPending'
    BY <2>1 DEF WritersPending, Relay!HandlersConsumed, Relay!Consumed,
                Relay!Named
  <2>2. ASSUME NEW s \in Sockets, StationStep(s)
        PROVE  WritersPending'
    BY <2>1, <2>2 DEF StationStep, relayMemory, WritersPending
  <2>3. ASSUME NEW s \in Sockets, Publish(s)
        PROVE  WritersPending'
    <3>1. /\ UNCHANGED <<log, pc>>
          /\ inFlight' = [inFlight EXCEPT ![conn[s]] = @ + 1]
      BY <2>3 DEF Publish, relayMemory
    <3>2. inFlight' \in [Connections -> Nat]
      <4>1. CASE conn[s] \in Connections
        <5>1. inFlight[conn[s]] + 1 \in Nat
          BY <4>1 DEF WritersPending
        <5> QED
          BY <3>1, <5>1 DEF WritersPending
      <4>2. CASE conn[s] \notin Connections
        BY <3>1, <4>2 DEF WritersPending
      <4> QED
        BY <4>1, <4>2
    <3> QED
      BY <2>1, <3>1, <3>2
  <2>4. ASSUME NEW m \in Messages, Consume(m)
        PROVE  WritersPending'
    BY <2>4, ConsumptionOrdered
  <2>5. ASSUME NEW k \in Connections, Lose(k)
        PROVE  WritersPending'
    BY <2>1, <2>5 DEF Lose, relayMemory, WritersPending
  <2>6. ASSUME NEW h \in Relay!Handlers, RelayStep(h)
        PROVE  WritersPending'
    BY <2>6, ExecutionOrdered, ResumptionOrdered DEF RelayStep
  <2>7. CASE RelayFault
    BY <2>7, FaultOrdered
  <2>8. CASE Expiry \/ StationStops
    BY <2>1, <2>8 DEF Expiry, StationStops, relayMemory, WritersPending
  <2>9. CASE UNCHANGED vars
    BY <2>1, <2>9 DEF vars, relayMemory, WritersPending
  <2> QED
    BY <2>2, <2>3, <2>4, <2>5, <2>6, <2>7, <2>8, <2>9 DEF Next
<1> QED
  BY <1>1, <1>2 DEF PlatformInv

-----------------------------------------------------------------------------

\* With the relay at work, the station and its records behave as
\* GroundStation says: every command the relay sends while it handles the
\* messages of a connection (index.ts:94-153) is one GroundStation leaves to
\* it, so what holds of every behaviour of GroundStation holds here.
THEOREM StationIsKept == Spec => StationKept
<1>1. Init => PlatformInv
  BY InitEstablishes
<1>2. PlatformInv /\ [Next]_vars => PlatformInv'
  BY StepEstablishes
<1>3. Init => Station!Init
  BY InitKept
<1>4. PlatformInv /\ [Next]_vars => [Station!Next]_(Station!vars)
  BY StepKept
<1> QED
  BY <1>1, <1>2, <1>3, <1>4, PTL DEF Spec, StationKept, Station!Safety

-----------------------------------------------------------------------------
(* What is proved of GroundStation, instantiated as Platform does. *)

Records == INSTANCE GroundStationRecordProofs WITH
    pc <- task, None <- Nobody, Positions <- 1 .. MaxMessages,
    pending <- Pending

LEMMA RecordsAssumption == Records!StationAssumption
<1>1. Nobody \notin Connections \cup Sockets \cup Characters
  BY PlatformAssumption
<1> QED
  BY <1>1, PlatformAssumption DEF Records!StationAssumption

\* The two instances name the same operators.
LEMMA SameInit == Station!Init => Records!Init
BY Zenon
DEF Records!Tasks, Station!Tasks, Records!NoSession, Station!NoSession,
    Records!NoProfile, Station!NoProfile, Records!Init, Station!Init

LEMMA SameNext == Station!Next => Records!Next
BY Zenon
DEF Records!Tasks, Station!Tasks, Records!Upgrading, Station!Upgrading,
    Records!Closing, Station!Closing, Records!Draining, Station!Draining,
    Records!process, Station!process, Records!records, Station!records,
    Records!Alive, Station!Alive, Records!Connection, Station!Connection,
    Records!SocketsOf, Station!SocketsOf, Records!NoSession, Station!NoSession,
    Records!NoProfile, Station!NoProfile, Records!Present, Station!Present,
    Records!Step, Station!Step, Records!ReadCurrent, Station!ReadCurrent,
    Records!RemovePosition, Station!RemovePosition, Records!KeepProfile,
    Station!KeepProfile, Records!ExpireSession, Station!ExpireSession,
    Records!Upgrade, Station!Upgrade, Records!Abort, Station!Abort,
    Records!SetUp, Station!SetUp, Records!Open, Station!Open,
    Records!DropAborted, Station!DropAborted, Records!Delete, Station!Delete,
    Records!Publish, Station!Publish, Records!Close, Station!Close,
    Records!CloseReadCurrent, Station!CloseReadCurrent,
    Records!CloseRemovePosition, Station!CloseRemovePosition,
    Records!CloseKeepAlive, Station!CloseKeepAlive, Records!CloseExpire,
    Station!CloseExpire, Records!Stop, Station!Stop, Records!DrainReadCurrent,
    Station!DrainReadCurrent, Records!DrainExpire, Station!DrainExpire,
    Records!DrainRemovePosition, Station!DrainRemovePosition,
    Records!DrainKeepAlive, Station!DrainKeepAlive, Records!Exit, Station!Exit,
    Records!StopAgain, Station!StopAgain,
    Records!Waiting, Station!Waiting, Records!FailUpgrade, Station!FailUpgrade,
    Records!FailTask, Station!FailTask, Records!RelayWritesSession,
    Station!RelayWritesSession, Records!RelayWritesProfile,
    Station!RelayWritesProfile, Records!RelayWritesPosition,
    Station!RelayWritesPosition, Records!RelaySettles, Station!RelaySettles,
    Records!SessionExpires, Station!SessionExpires, Records!ProfileExpires,
    Station!ProfileExpires, Records!UpgradeSteps, Station!UpgradeSteps,
    Records!CloseSteps, Station!CloseSteps, Records!DrainSteps,
    Station!DrainSteps, Records!Failures, Station!Failures,
    Records!Environment, Station!Environment, Records!Next, Station!Next

LEMMA SameStutter == UNCHANGED Station!vars => UNCHANGED Records!vars
BY DEF Records!process, Station!process, Records!records, Station!records,
       Records!vars, Station!vars

LEMMA SameProperties ==
    Records!LiveSessionsKept /\ Records!AbandonedSessionsExpire
        /\ Records!ServedAreOpen /\ Records!DrainedSessionsExpire => SessionsKept
BY Zenon
DEF SessionsKept,
      Records!Upgrading, Station!Upgrading, Records!Closing, Station!Closing,
      Records!SocketsOf, Station!SocketsOf,
      Records!OpenSockets, Station!OpenSockets, Records!Settled,
      Station!Settled, Records!LiveSessionsKept, Station!LiveSessionsKept,
      Records!AbandonedSessionsExpire, Station!AbandonedSessionsExpire,
      Records!ServedAreOpen, Station!ServedAreOpen,
      Records!DrainedSessionsExpire, Station!DrainedSessionsExpire,
      Records!Draining, Station!Draining, Records!Present, Station!Present,
      Records!Stages, Station!Stages

\* With the relay at work, for any connections, sockets, tokens and messages:
\* the records of open sockets are kept, abandoned and drained ones expire,
\* and a shutdown finds only sockets it can close.
THEOREM SessionsAreKept == Spec => []SessionsKept
<1>1. [Station!Next]_(Station!vars) => [Records!Next]_(Records!vars)
  BY SameNext, SameStutter
<1>2. Station!Safety => Records!Safety
  BY <1>1, SameInit, PTL DEF Station!Safety, Records!Safety
<1>3. Records!Safety => []Records!RecordInv
  BY Records!RecordInvHolds, RecordsAssumption
<1>4. Records!RecordInv => /\ Records!LiveSessionsKept
                           /\ Records!AbandonedSessionsExpire
                           /\ Records!ServedAreOpen
                           /\ Records!DrainedSessionsExpire
  BY Records!RecordInvSuffices, RecordsAssumption
<1> QED
  BY <1>2, <1>3, <1>4, SameProperties, StationIsKept, PTL DEF StationKept
=============================================================================
