---------------------- MODULE GroundStationRecordProofs ----------------------
(* Proofs about what GroundStation leaves when its handlers are done: the   *)
(* map of connections, the records' times to live, and the shutdown.        *)
EXTENDS GroundStationProofs

-----------------------------------------------------------------------------
(* What one handler leaves alone. *)

\* Socket r, and the handlers of its events, stay as they are.
Same(r) ==
    /\ stage'[r] = stage[r] /\ conn'[r] = conn[r]
    /\ pc'[Upgrading(r)] = pc[Upgrading(r)] /\ pc'[Closing(r)] = pc[Closing(r)]

LEMMA UpgradeTouches ==
    ASSUME TypeOK, TasksPlaced, NEW s \in Sockets,
           \/ \E k \in Connections : Upgrade(s, k)
           \/ Abort(s)
           \/ UpgradeSteps(s)
           \/ FailUpgrade(s)
    PROVE  /\ status' = "running" => status = "running"
           /\ \A r \in Sockets : r # s => Same(r)
           /\ \A k \in Connections : pc'[Draining(k)] = pc[Draining(k)]
           /\ UNCHANGED pending
           /\ stage[s] \notin {"open", "closed"}
<1> USE TaskNames DEF TypeOK, ProcessOK, Same
<1>1. ASSUME NEW k \in Connections, Upgrade(s, k)
      PROVE  /\ status' = "running" => status = "running"
             /\ \A r \in Sockets : r # s => Same(r)
             /\ \A j \in Connections : pc'[Draining(j)] = pc[Draining(j)]
             /\ UNCHANGED pending
             /\ stage[s] \notin {"open", "closed"}
  BY <1>1 DEF Upgrade
<1>2. CASE Abort(s)
  BY <1>2 DEF Abort
<1>3. CASE SetUp(s) \/ Delete(s)
  BY <1>3 DEF SetUp, Delete, Step, TasksPlaced
<1>4. CASE Open(s) \/ DropAborted(s)
  BY <1>4 DEF Open, DropAborted, Step, TasksPlaced
<1>5. CASE FailUpgrade(s)
  BY <1>5 DEF FailUpgrade, Waiting, TasksPlaced
<1> QED
  BY <1>1, <1>2, <1>3, <1>4, <1>5 DEF UpgradeSteps

LEMMA CloseTouches ==
    ASSUME TypeOK, TasksPlaced, NEW s \in Sockets,
           Close(s) \/ CloseSteps(s) \/ FailTask(Closing(s))
    PROVE  /\ UNCHANGED <<status, conn, pending>>
           /\ \A r \in Sockets : r # s => Same(r)
           /\ \A k \in Connections : pc'[Draining(k)] = pc[Draining(k)]
           /\ pc'[Upgrading(s)] = pc[Upgrading(s)]
           /\ stage[s] \in {"open", "closed"} /\ stage'[s] = "closed"
           /\ conn[s] \in Connections
           /\ pc'[Closing(s)] # "idle"
           /\ pc'[Closing(s)] = "done" => CloseExpire(s)
<1> USE TaskNames DEF TypeOK, ProcessOK, Same
<1>1. CASE Close(s)
  BY <1>1 DEF Close, TasksPlaced
<1>2. CASE CloseSteps(s)
  <2>1. /\ pc[Closing(s)] \in {"getCurrent", "removePosition", "keepAlive", "expire"}
        /\ UNCHANGED <<status, stage, conn, pending>>
        /\ \E to : to # "idle" /\ pc' = [pc EXCEPT ![Closing(s)] = to]
    BY <1>2 DEF CloseSteps, CloseReadCurrent, CloseRemovePosition,
                CloseKeepAlive, CloseExpire, Step
  <2>2. pc'[Closing(s)] = "done" => CloseExpire(s)
    BY <1>2 DEF CloseSteps, CloseReadCurrent, CloseRemovePosition,
                CloseKeepAlive, Step
  <2> QED
    BY <2>1, <2>2 DEF TasksPlaced
<1>3. CASE FailTask(Closing(s))
  BY <1>3 DEF FailTask, Waiting, TasksPlaced
<1> QED
  BY <1>1, <1>2, <1>3

LEMMA EnvironmentTouches ==
    ASSUME Environment \/ \E s \in Sockets : Publish(s)
    PROVE  UNCHANGED <<status, stage, conn, aborted, served, pc>>
BY DEF Environment, RelayWritesSession, RelayWritesProfile, RelayWritesPosition,
       RelaySettles, SessionExpires, ProfileExpires, Publish, process

\* An hour's time to live is given to a record that has anything in it.
LEMMA ExpiredSession ==
    ASSUME TypeOK, NEW k \in Connections, ExpireSession(k)
    PROVE  /\ sessions'[k].setUp = sessions[k].setUp
           /\ sessions'[k].ttl = Present(sessions[k])
           /\ Present(sessions'[k]) = Present(sessions[k])
           /\ sessions[k] = NoSession => sessions'[k] = NoSession
           /\ \A j \in Connections : j # k => sessions'[j] = sessions[j]
<1>1. /\ sessions[k] \in Session
      /\ sessions'[k] = [sessions[k] EXCEPT !.ttl = Present(sessions[k])]
      /\ \A j \in Connections : j # k => sessions'[j] = sessions[j]
  BY DEF TypeOK, RecordsOK, ExpireSession
<1>2. Present(sessions[k]) \in BOOLEAN
  BY <1>1, PresentType
<1>3. /\ sessions'[k].setUp = sessions[k].setUp
      /\ sessions'[k].current = sessions[k].current
      /\ sessions'[k].counted = sessions[k].counted
      /\ sessions'[k].ttl = Present(sessions[k])
      /\ sessions'[k] \in Session
  BY <1>1, <1>2 DEF Session
<1>4. Present(sessions'[k]) = Present(sessions[k])
  BY <1>3 DEF Present
<1>5. ASSUME sessions[k] = NoSession PROVE sessions'[k] = NoSession
  <2>1. Present(sessions[k]) = FALSE
    BY <1>5 DEF NoSession, Present
  <2>2. [NoSession EXCEPT !.ttl = FALSE] = NoSession
    <3>1. NoSession \in [setUp : {FALSE}, current : {None},
                         counted : {FALSE}, ttl : {FALSE}]
      BY DEF NoSession
    <3> QED
      BY <3>1
  <2> QED
    BY <1>1, <1>5, <2>1, <2>2
<1> QED
  BY <1>1, <1>3, <1>4, <1>5

-----------------------------------------------------------------------------
(* The map holds open sockets, or sockets whose close handler is at work. *)

LEMMA InitServed == Init => ServedPlaced
BY DEF Init, ServedPlaced

\* An entry that stays keeps its place if its socket does.
LEMMA ServedFrame ==
    ASSUME TypeOK, ServedPlaced, status' = "running" => status = "running",
           \A k \in Connections :
             served'[k] # None =>
               /\ served'[k] = served[k]
               /\ \A r \in SocketsOf(k, {"open", "closed"}) :
                    (stage[r] = "closed" => Unfinished(Closing(r))) =>
                      /\ stage'[r] \in {"open", "closed"} /\ conn'[r] = k
                      /\ stage'[r] = "closed" => Unfinished(Closing(r))'
    PROVE  ServedPlaced'
BY DEF ServedPlaced, SocketsOf, Unfinished

LEMMA UpgradesServed ==
    ASSUME TypeOK, TasksPlaced, ServedPlaced, NEW s \in Sockets,
           \/ \E k \in Connections : Upgrade(s, k)
           \/ Abort(s)
           \/ UpgradeSteps(s)
           \/ FailUpgrade(s)
    PROVE  ServedPlaced'
<1>1. /\ status' = "running" => status = "running"
      /\ \A r \in Sockets : stage[r] \in {"open", "closed"} => Same(r)
  BY UpgradeTouches
<1>2. CASE Open(s)
  <2>1. /\ stage'[s] = "open" /\ conn'[s] = conn[s]
        /\ served'[conn[s]] = s \/ conn[s] \notin Connections
        /\ \A k \in Connections : k # conn[s] => served'[k] = served[k]
    BY <1>2 DEF Open, TypeOK, ProcessOK
  <2> SUFFICES ASSUME status' = "running", NEW k \in Connections, served'[k] # None
               PROVE  /\ served'[k] \in SocketsOf(k, {"open", "closed"})'
                      /\ stage'[served'[k]] = "closed" =>
                            pc'[Closing(served'[k])] \notin {"idle", "done"}
    BY DEF ServedPlaced, Unfinished
  <2>2. CASE k = conn[s]
    BY <2>1, <2>2 DEF SocketsOf
  <2>3. CASE k # conn[s]
    BY <1>1, <2>1, <2>3 DEF ServedPlaced, SocketsOf, Same, Unfinished
  <2> QED
    BY <2>2, <2>3
<1>3. CASE UNCHANGED served
  BY <1>1, <1>3, ServedFrame DEF SocketsOf, Same, Unfinished
<1> QED
  BY <1>2, <1>3
  DEF UpgradeSteps, Upgrade, Abort, SetUp, DropAborted, Delete, FailUpgrade

LEMMA ClosesServed ==
    ASSUME TypeOK, TasksPlaced, ServedPlaced, NEW s \in Sockets,
           Close(s) \/ CloseSteps(s) \/ FailTask(Closing(s))
    PROVE  ServedPlaced'
<1>1. /\ UNCHANGED <<status, conn>>
      /\ \A r \in Sockets : r # s => Same(r)
      /\ stage'[s] = "closed" /\ conn[s] \in Connections
      /\ pc'[Closing(s)] # "idle"
      /\ pc'[Closing(s)] = "done" => CloseExpire(s)
  BY CloseTouches
<1>2. CASE CloseExpire(s)
  <2>1. served' = [served EXCEPT ![conn[s]] = None]
    BY <1>2 DEF CloseExpire
  <2>2. \A k \in Connections : served'[k] # None => k # conn[s] /\ served'[k] = served[k]
    BY <2>1 DEF TypeOK, ProcessOK
  <2> QED
    BY <1>1, <2>2, ServedFrame DEF SocketsOf, Same, Unfinished
<1>3. CASE pc'[Closing(s)] # "done" /\ UNCHANGED served
  BY <1>1, <1>3, ServedFrame DEF SocketsOf, Same, Unfinished
<1> QED
  BY <1>1, <1>2, <1>3
  DEF Close, CloseSteps, CloseReadCurrent, CloseRemovePosition, CloseKeepAlive,
      FailTask

LEMMA NextServed ==
    TypeOK /\ TasksPlaced /\ ServedPlaced /\ [Next]_vars => ServedPlaced'
<1> SUFFICES ASSUME TypeOK, TasksPlaced, ServedPlaced, [Next]_vars
             PROVE  ServedPlaced'
  OBVIOUS
<1>1. CASE UNCHANGED vars
  BY <1>1 DEF vars, process, ServedPlaced, SocketsOf, Unfinished
<1>2. CASE Environment \/ \E s \in Sockets : Publish(s)
  BY <1>2, EnvironmentTouches DEF ServedPlaced, SocketsOf, Unfinished
<1>3. CASE Stop \/ Exit \/ StopAgain
  BY <1>3 DEF Stop, Exit, StopAgain, ServedPlaced
<1>4. CASE \E k \in Connections : DrainSteps(k) \/ FailTask(Draining(k))
  <2>1. UNCHANGED status
    BY <1>4 DEF DrainSteps, DrainReadCurrent, DrainExpire, DrainRemovePosition,
                DrainKeepAlive, FailTask
  <2> QED
    BY <1>4, <2>1, DrainsStopping DEF ServedPlaced
<1> QED
  BY <1>1, <1>2, <1>3, <1>4, UpgradesServed, ClosesServed DEF Next, Failures

-----------------------------------------------------------------------------
(* A record that does not expire has a socket to answer for it. *)

LEMMA InitHeld == Init => RecordsHeld
BY DEF Init, RecordsHeld, NoSession

\* The socket that holds a record goes on holding it.
LEMMA HeldFrame ==
    ASSUME TypeOK, TypeOK', RecordsHeld,
           status' = "running" => status = "running",
           \A k \in Connections :
             sessions'[k].setUp /\ ~sessions'[k].ttl =>
               /\ sessions[k].setUp /\ ~sessions[k].ttl
               /\ \A r \in Sockets : conn[r] = k /\ Holding(r) =>
                                       conn'[r] = k /\ Holding(r)'
    PROVE  RecordsHeld'
BY DEF RecordsHeld, SocketsOf, TypeOK, ProcessOK

LEMMA SameHolding ==
    ASSUME NEW r \in Sockets, Same(r)
    PROVE  conn'[r] = conn[r] /\ Holding(r)' = Holding(r)
BY DEF Same, Holding, Unfinished

\* A socket that begins to hold the record it writes.
LEMMA HeldByWriter ==
    ASSUME TypeOK, TypeOK', RecordsHeld,
           status' = "running" => status = "running", NEW s \in Sockets,
           \A r \in Sockets : r # s => Same(r),
           conn'[s] = conn[s], Holding(s)',
           \A k \in Connections : k # conn[s] => sessions'[k] = sessions[k]
    PROVE  RecordsHeld'
<1> SUFFICES ASSUME status' = "running", NEW k \in Connections,
                    sessions'[k].setUp, ~sessions'[k].ttl
             PROVE  \E r \in Sockets : /\ conn'[r] = k /\ stage'[r] \in Stages
                                       /\ Holding(r)'
  BY DEF RecordsHeld, SocketsOf
<1>1. \A r \in Sockets : stage'[r] \in Stages
  BY DEF TypeOK, ProcessOK
<1>2. CASE k = conn[s]
  BY <1>1, <1>2
<1>3. CASE k # conn[s]
  <2>1. PICK r \in Sockets : conn[r] = k /\ Holding(r)
    BY <1>3 DEF RecordsHeld, SocketsOf
  <2> QED
    BY <1>1, <1>3, <2>1, SameHolding
<1> QED
  BY <1>2, <1>3

LEMMA UpgradesHeld ==
    ASSUME TypeOK, TypeOK', TasksPlaced, RecordsHeld, NEW s \in Sockets,
           \/ \E k \in Connections : Upgrade(s, k)
           \/ Abort(s)
           \/ UpgradeSteps(s)
           \/ FailUpgrade(s)
    PROVE  RecordsHeld'
<1> USE TaskNames
<1>1. /\ status' = "running" => status = "running"
      /\ \A r \in Sockets : r # s => Same(r)
      /\ stage[s] \notin {"open", "closed"}
  BY UpgradeTouches
<1>2. ASSUME NEW k \in Connections, Upgrade(s, k) PROVE RecordsHeld'
  <2>1. ~Holding(s)
    BY <1>2 DEF Upgrade, Holding
  <2>2. UNCHANGED sessions
    BY <1>2 DEF Upgrade, records
  <2> QED
    BY <1>1, <2>1, <2>2, HeldFrame, SameHolding
<1>3. CASE Abort(s)
  BY <1>1, <1>3, HeldFrame, SameHolding DEF Abort, records, Holding, Unfinished
<1>4. CASE SetUp(s) \/ Open(s) \/ DropAborted(s) \/ FailUpgrade(s)
  <2>1. conn' = conn /\ Holding(s)'
    BY <1>4 DEF SetUp, Open, DropAborted, FailUpgrade, Step, Holding,
                Unfinished, TypeOK, ProcessOK, TasksPlaced
  <2>2. \A k \in Connections : k # conn[s] => sessions'[k] = sessions[k]
    BY <1>4 DEF SetUp, Open, DropAborted, FailUpgrade, records, TypeOK, RecordsOK
  <2> QED
    BY <1>1, <2>1, <2>2, HeldByWriter
<1>5. CASE Delete(s)
  <2>1. conn' = conn /\ conn[s] \in Connections
    BY <1>5 DEF Delete, Step, TasksPlaced
  <2>2. \A k \in Connections : IF k = conn[s] THEN ~sessions'[k].setUp
                               ELSE sessions'[k] = sessions[k]
    BY <1>5 DEF Delete, TypeOK, RecordsOK, NoSession
  <2> QED
    BY <1>1, <2>1, <2>2, HeldFrame, SameHolding
<1> QED
  BY <1>2, <1>3, <1>4, <1>5 DEF UpgradeSteps

LEMMA ClosesHeld ==
    ASSUME TypeOK, TypeOK', TasksPlaced, RecordsHeld, NEW s \in Sockets,
           Close(s) \/ CloseSteps(s) \/ FailTask(Closing(s))
    PROVE  RecordsHeld'
<1>1. /\ UNCHANGED <<status, conn>>
      /\ \A r \in Sockets : r # s => Same(r)
      /\ stage'[s] = "closed" /\ conn[s] \in Connections
      /\ pc'[Closing(s)] # "idle"
      /\ pc'[Closing(s)] = "done" => CloseExpire(s)
  BY CloseTouches
<1>2. CASE CloseExpire(s)
  <2>1. ExpireSession(conn[s])
    BY <1>2 DEF CloseExpire
  <2>2. /\ sessions'[conn[s]].setUp => sessions'[conn[s]].ttl
        /\ \A k \in Connections : k # conn[s] => sessions'[k] = sessions[k]
    BY <1>1, <2>1, ExpiredSession DEF Present
  <2> QED
    BY <1>1, <2>2, HeldFrame, SameHolding
<1>3. CASE pc'[Closing(s)] # "done" /\ UNCHANGED sessions
  BY <1>1, <1>3, HeldByWriter DEF Holding, Unfinished
<1> QED
  BY <1>1, <1>2, <1>3
  DEF Close, CloseSteps, CloseReadCurrent, CloseRemovePosition, CloseKeepAlive,
      FailTask, records

LEMMA NextHeld ==
    TypeOK /\ TasksPlaced /\ RecordsHeld /\ [Next]_vars => RecordsHeld'
<1> SUFFICES ASSUME TypeOK, TasksPlaced, RecordsHeld, [Next]_vars
             PROVE  RecordsHeld'
  OBVIOUS
<1>0. TypeOK'
  BY NextType
<1>1. CASE UNCHANGED vars
  BY <1>1 DEF vars, process, records, RecordsHeld, SocketsOf, Holding, Unfinished
<1>2. CASE Environment \/ \E s \in Sockets : Publish(s)
  <2>1. UNCHANGED <<status, stage, conn, pc>>
    BY <1>2, EnvironmentTouches
  <2>2. \A k \in Connections :
          sessions'[k].setUp /\ ~sessions'[k].ttl =>
             sessions[k].setUp /\ ~sessions[k].ttl
    <3>1. CASE UNCHANGED sessions
      BY <3>1
    <3>2. ASSUME NEW j \in Connections, RelayWritesSession(j), NEW k \in Connections
          PROVE  sessions'[k].setUp = sessions[k].setUp
                 /\ sessions'[k].ttl = sessions[k].ttl
      BY <3>2 DEF RelayWritesSession, TypeOK, RecordsOK, Session
    <3>3. ASSUME NEW j \in Connections, SessionExpires(j), NEW k \in Connections
          PROVE  sessions'[k] = sessions[k] \/ ~sessions'[k].setUp
      BY <3>3 DEF SessionExpires, TypeOK, RecordsOK, NoSession
    <3> QED
      BY <1>2, <3>1, <3>2, <3>3
      DEF Environment, RelayWritesProfile, RelayWritesPosition, RelaySettles,
          ProfileExpires, Publish, records
  <2>3. \A r \in Sockets : Holding(r)' = Holding(r)
    BY <2>1 DEF Holding, Unfinished
  <2> QED
    BY <1>0, <2>1, <2>2, <2>3, HeldFrame
<1>3. CASE Stop \/ Exit \/ StopAgain
  BY <1>3 DEF Stop, Exit, StopAgain, RecordsHeld
<1>4. CASE \E k \in Connections : DrainSteps(k) \/ FailTask(Draining(k))
  <2>1. UNCHANGED status
    BY <1>4 DEF DrainSteps, DrainReadCurrent, DrainExpire, DrainRemovePosition,
                DrainKeepAlive, FailTask
  <2> QED
    BY <1>4, <2>1, DrainsStopping DEF RecordsHeld
<1> QED
  BY <1>0, <1>1, <1>2, <1>3, <1>4, UpgradesHeld, ClosesHeld DEF Next, Failures

-----------------------------------------------------------------------------
(* A connection that is drained and had one socket. *)

Drained(k) ==
    /\ SocketsOf(k, {"closed"}) # {}
    /\ \/ sessions[k].setUp
       \/ sessions[k] = NoSession /\ k \notin pending
    /\ pc[Draining(k)] \notin {"getCurrent", "expire"} =>
           (Present(sessions[k]) => sessions[k].ttl)

LEMMA DrainedKeptAlt ==
    DrainedKept <=>
        \A k \in Connections :
            pc[Draining(k)] \notin {"idle", "failed"} /\ Once(k) => Drained(k)
BY DEF DrainedKept, Drained

LEMMA InitDrained == Init => DrainedKept
BY TaskNames DEF Init, DrainedKept

\* The sockets of a connection are those of its tokens, whatever their stage.
LEMMA OnceAlt ==
    ASSUME TypeOK, NEW k \in Connections
    PROVE  Once(k) <=> \A r, s \in Sockets : conn[r] = k /\ conn[s] = k => r = s
BY DEF Once, SocketsOf, TypeOK, ProcessOK

LEMMA OnceSame ==
    ASSUME TypeOK, TypeOK', UNCHANGED conn, NEW k \in Connections
    PROVE  Once(k)' = Once(k)
BY DEF Once, SocketsOf, TypeOK, ProcessOK

\* What keeps a drained connection drained.
LEMMA DrainedFrame ==
    ASSUME NEW k \in Connections, Drained(k),
           \A r \in Sockets : stage[r] = "closed" /\ conn[r] = k =>
                                stage'[r] = "closed" /\ conn'[r] = k,
           sessions'[k] = sessions[k], k \in pending' => k \in pending,
           \/ pc'[Draining(k)] = pc[Draining(k)]
           \/ pc'[Draining(k)] \in {"getCurrent", "expire"}
           \/ pc[Draining(k)] \notin {"getCurrent", "expire"}
    PROVE  Drained(k)'
BY DEF Drained, SocketsOf

\* The step that gives the record its time to live, in either handler.
LEMMA DrainedExpiring ==
    ASSUME TypeOK, NEW k \in Connections, Drained(k), ExpireSession(k),
           \A r \in Sockets : stage[r] = "closed" /\ conn[r] = k =>
                                stage'[r] = "closed" /\ conn'[r] = k,
           k \in pending' => k \in pending
    PROVE  Drained(k)'
BY ExpiredSession DEF Drained, SocketsOf

LEMMA UpgradesDrained ==
    ASSUME TypeOK, TypeOK', TasksPlaced, DrainedKept, NEW s \in Sockets,
           \/ \E k \in Connections : Upgrade(s, k)
           \/ Abort(s)
           \/ UpgradeSteps(s)
           \/ FailUpgrade(s)
    PROVE  DrainedKept'
<1> USE TaskNames
<1>1. /\ \A r \in Sockets : r # s => Same(r)
      /\ \A k \in Connections : pc'[Draining(k)] = pc[Draining(k)]
      /\ UNCHANGED pending
      /\ stage[s] \notin {"open", "closed"}
  BY UpgradeTouches
<1>2. ASSUME NEW k \in Connections, Upgrade(s, k) PROVE DrainedKept'
  BY <1>1, <1>2 DEF Upgrade, TasksPlaced, DrainedKept
<1>3. ASSUME UNCHANGED conn,
             \A k \in Connections : k # conn[s] => sessions'[k] = sessions[k]
      PROVE  DrainedKept'
  <2> SUFFICES ASSUME NEW k \in Connections, Once(k)',
                      pc'[Draining(k)] \notin {"idle", "failed"}
               PROVE  Drained(k)'
    BY DrainedKeptAlt DEF DrainedKept, Drained
  <2>1. Once(k)
    BY <1>3, OnceSame
  <2>2. Drained(k)
    BY <1>1, <2>1, DrainedKeptAlt
  <2>3. PICK r \in Sockets : conn[r] = k /\ stage[r] = "closed"
    BY <2>2 DEF Drained, SocketsOf
  <2>4. conn[s] # k
    BY <1>1, <2>1, <2>3, OnceAlt
  <2> QED
    BY <1>1, <1>3, <2>2, <2>4, DrainedFrame DEF Same
<1>4. CASE Abort(s) \/ SetUp(s) \/ Open(s) \/ DropAborted(s) \/ Delete(s)
           \/ FailUpgrade(s)
  <2>1. UNCHANGED conn
    BY <1>4 DEF Abort, SetUp, Open, DropAborted, Delete, FailUpgrade
  <2>2. \A k \in Connections : k # conn[s] => sessions'[k] = sessions[k]
    BY <1>4 DEF Abort, SetUp, Open, DropAborted, Delete, FailUpgrade, records,
                TypeOK, RecordsOK
  <2> QED
    BY <1>3, <2>1, <2>2
<1> QED
  BY <1>2, <1>4 DEF UpgradeSteps

LEMMA ClosesDrained ==
    ASSUME TypeOK, TypeOK', TasksPlaced, DrainedKept, NEW s \in Sockets,
           Close(s) \/ CloseSteps(s) \/ FailTask(Closing(s))
    PROVE  DrainedKept'
<1>1. /\ UNCHANGED <<status, conn, pending>>
      /\ \A r \in Sockets : r # s => Same(r)
      /\ \A k \in Connections : pc'[Draining(k)] = pc[Draining(k)]
      /\ stage'[s] = "closed" /\ conn[s] \in Connections
  BY CloseTouches
<1> SUFFICES ASSUME NEW k \in Connections, Once(k)',
                    pc'[Draining(k)] \notin {"idle", "failed"}
             PROVE  Drained(k)'
  BY DrainedKeptAlt DEF DrainedKept, Drained
<1>2. Drained(k)
  BY <1>1, OnceSame, DrainedKeptAlt
<1>3. \A r \in Sockets : stage[r] = "closed" /\ conn[r] = k =>
                           stage'[r] = "closed" /\ conn'[r] = k
  BY <1>1 DEF Same
<1>4. CASE CloseExpire(s)
  <2>1. ExpireSession(conn[s])
    BY <1>4 DEF CloseExpire
  <2>2. CASE k = conn[s]
    BY <1>1, <1>2, <1>3, <2>1, <2>2, DrainedExpiring
  <2>3. CASE k # conn[s]
    BY <1>1, <1>2, <1>3, <2>1, <2>3, ExpiredSession, DrainedFrame
  <2> QED
    BY <2>2, <2>3
<1>5. CASE UNCHANGED sessions
  BY <1>1, <1>2, <1>3, <1>5, DrainedFrame
<1> QED
  BY <1>4, <1>5
  DEF Close, CloseSteps, CloseReadCurrent, CloseRemovePosition, CloseKeepAlive,
      FailTask, records

LEMMA DrainsDrained ==
    ASSUME TypeOK, TypeOK', TasksPlaced, DrainedKept, NEW i \in Connections,
           DrainSteps(i) \/ FailTask(Draining(i))
    PROVE  DrainedKept'
<1> USE TaskNames
<1>1. /\ UNCHANGED <<stage, conn, pending>>
      /\ \A k \in Connections : k # i => pc'[Draining(k)] = pc[Draining(k)]
  BY DEF DrainSteps, DrainReadCurrent, DrainExpire, DrainRemovePosition,
         DrainKeepAlive, Step, FailTask, TypeOK, ProcessOK, Draining
<1>2. pc[Draining(i)] \notin {"idle", "failed"}
  BY DEF DrainSteps, DrainReadCurrent, DrainExpire, DrainRemovePosition,
         DrainKeepAlive, Step, FailTask, Waiting
<1> SUFFICES ASSUME NEW k \in Connections, Once(k)',
                    pc'[Draining(k)] \notin {"idle", "failed"}
             PROVE  Drained(k)'
  BY DrainedKeptAlt DEF DrainedKept, Drained
<1>3. Drained(k)
  BY <1>1, <1>2, OnceSame, DrainedKeptAlt
<1>4. CASE DrainExpire(i)
  <2>1. ExpireSession(i)
    BY <1>4 DEF DrainExpire
  <2>2. CASE k = i
    BY <1>1, <1>3, <2>1, <2>2, DrainedExpiring
  <2>3. CASE k # i
    BY <1>1, <1>3, <2>1, <2>3, ExpiredSession, DrainedFrame
  <2> QED
    BY <2>2, <2>3
<1>5. ASSUME UNCHANGED sessions,
             \/ pc'[Draining(i)] \in {"getCurrent", "expire", "failed"}
             \/ pc[Draining(i)] \notin {"getCurrent", "expire"}
      PROVE  Drained(k)'
  BY <1>1, <1>3, <1>5, DrainedFrame
<1>6. CASE DrainReadCurrent(i)
  BY <1>5, <1>6 DEF DrainReadCurrent, Step, records, TypeOK, ProcessOK
<1>7. CASE DrainRemovePosition(i) \/ DrainKeepAlive(i)
  BY <1>5, <1>7 DEF DrainRemovePosition, DrainKeepAlive, Step
<1>8. CASE FailTask(Draining(i))
  BY <1>5, <1>8 DEF FailTask, records, TypeOK, ProcessOK
<1> QED
  BY <1>4, <1>6, <1>7, <1>8 DEF DrainSteps

\* At a shutdown the drained connections have an open socket, so that one
\* that had no other has its record.
LEMMA StopDrained ==
    ASSUME TypeOK, TypeOK', TasksPlaced, UntroubledKept, ServedPlaced, Stop
    PROVE  DrainedKept'
<1> USE TaskNames
<1> DEFINE open(k) == served[k] # None /\ stage[served[k]] = "open"
<1>1. /\ status = "running" /\ UNCHANGED <<conn, served, sessions, pending>>
      /\ stage' = [r \in Sockets |->
                     IF r \in {served[k] : k \in {k \in Connections : open(k)}}
                     THEN "closed" ELSE stage[r]]
  BY DEF Stop, records
<1> SUFFICES ASSUME NEW k \in Connections, Once(k)',
                    pc'[Draining(k)] \notin {"idle", "failed"}
             PROVE  Drained(k)'
  BY DrainedKeptAlt DEF DrainedKept, Drained
<1>2. pc[Draining(k)] = "idle"
  BY <1>1 DEF TasksPlaced
<1>3. /\ Draining(k)[1] = "drain" /\ Draining(k)[2] = k
      /\ Draining(k) \in Tasks
  BY DEF Draining
<1>4. open(k) /\ pc'[Draining(k)] = "getCurrent"
  BY <1>2, <1>3 DEF Stop
<1>5. served[k] \in Sockets /\ conn[served[k]] = k /\ stage[served[k]] = "open"
  BY <1>1, <1>4 DEF ServedPlaced, SocketsOf
<1>6. \A r \in Sockets : conn[r] = k => r = served[k]
  BY <1>1, <1>5, OnceSame, OnceAlt
<1>7. Untroubled(k) /\ OpenSockets(k) # {}
  BY <1>5, <1>6 DEF Untroubled, OpenSockets, SocketsOf
<1>8. sessions[k].setUp
  BY <1>1, <1>7 DEF UntroubledKept, Kept
<1>9. served[k] \in SocketsOf(k, {"closed"})'
  BY <1>1, <1>4, <1>5 DEF SocketsOf
<1> QED
  BY <1>1, <1>4, <1>8, <1>9 DEF Drained

LEMMA PublishDrained ==
    ASSUME TypeOK, TypeOK', DrainedKept, NEW s \in Sockets, Publish(s)
    PROVE  DrainedKept'
<1>1. /\ UNCHANGED <<stage, conn, pc, sessions>>
      /\ stage[s] = "open" /\ pending' = pending \cup {conn[s]}
  BY DEF Publish, process, records
<1> SUFFICES ASSUME NEW k \in Connections, Once(k)',
                    pc'[Draining(k)] \notin {"idle", "failed"}
             PROVE  Drained(k)'
  BY DrainedKeptAlt DEF DrainedKept, Drained
<1>2. Drained(k) /\ Once(k)
  BY <1>1, OnceSame, DrainedKeptAlt
<1>3. PICK r \in Sockets : conn[r] = k /\ stage[r] = "closed"
  BY <1>2 DEF Drained, SocketsOf
<1>4. conn[s] # k
  BY <1>1, <1>2, <1>3, OnceAlt
<1> QED
  BY <1>1, <1>2, <1>4, DrainedFrame

LEMMA EnvironmentDrained ==
    ASSUME TypeOK, TypeOK', DrainedKept, Environment
    PROVE  DrainedKept'
<1>1. UNCHANGED <<status, stage, conn, pc>>
  BY EnvironmentTouches
<1> SUFFICES ASSUME NEW k \in Connections, Once(k)',
                    pc'[Draining(k)] \notin {"idle", "failed"}
             PROVE  Drained(k)'
  BY DrainedKeptAlt DEF DrainedKept, Drained
<1>2. Drained(k)
  BY <1>1, OnceSame, DrainedKeptAlt
<1>3. ASSUME NEW j \in Connections, RelayWritesSession(j)
      PROVE  Drained(k)'
  <2>1. j \in pending /\ UNCHANGED pending
    BY <1>3 DEF RelayWritesSession
  <2>2. CASE k # j
    <3>1. sessions'[k] = sessions[k]
      BY <1>3, <2>2 DEF RelayWritesSession, TypeOK, RecordsOK
    <3> QED
      BY <1>1, <1>2, <2>1, <3>1, DrainedFrame
  <2>3. CASE k = j
    <3>1. sessions[k].setUp
      BY <1>2, <2>1, <2>3 DEF Drained
    <3>2. sessions'[k].setUp = sessions[k].setUp /\ sessions'[k].ttl = sessions[k].ttl
      BY <1>3, <2>3 DEF RelayWritesSession, TypeOK, RecordsOK, Session
    <3> QED
      BY <1>1, <1>2, <3>1, <3>2 DEF Drained, SocketsOf, Present
  <2> QED
    BY <2>2, <2>3
<1>4. ASSUME NEW j \in Connections, SessionExpires(j)
      PROVE  Drained(k)'
  <2>1. UNCHANGED pending /\ j \notin pending
    BY <1>4 DEF SessionExpires
  <2>2. CASE k # j
    <3>1. sessions'[k] = sessions[k]
      BY <1>4, <2>2 DEF SessionExpires, TypeOK, RecordsOK
    <3> QED
      BY <1>1, <1>2, <2>1, <3>1, DrainedFrame
  <2>3. CASE k = j
    <3>1. sessions'[k] = NoSession
      BY <1>4, <2>3 DEF SessionExpires, TypeOK, RecordsOK
    <3>2. SocketsOf(k, {"closed"})' # {}
      BY <1>1, <1>2 DEF Drained, SocketsOf
    <3> QED
      BY <2>1, <2>3, <3>1, <3>2 DEF Drained, NoSession, Present
  <2> QED
    BY <2>2, <2>3
<1>5. ASSUME UNCHANGED sessions, pending' \subseteq pending
      PROVE  Drained(k)'
  BY <1>1, <1>2, <1>5, DrainedFrame
<1> QED
  BY <1>3, <1>4, <1>5
  DEF Environment, RelayWritesProfile, RelayWritesPosition, RelaySettles,
      ProfileExpires, records

LEMMA NextDrained ==
    TypeOK /\ TasksPlaced /\ UntroubledKept /\ ServedPlaced /\ DrainedKept
        /\ [Next]_vars => DrainedKept'
<1> SUFFICES ASSUME TypeOK, TasksPlaced, UntroubledKept, ServedPlaced,
                    DrainedKept, [Next]_vars
             PROVE  DrainedKept'
  OBVIOUS
<1>0. TypeOK'
  BY NextType
<1>1. CASE UNCHANGED vars \/ Exit
  <2>1. UNCHANGED <<stage, conn, pc, sessions, pending>>
    BY <1>1 DEF vars, process, records, Exit
  <2> QED
    BY <2>1 DEF DrainedKept, Once, SocketsOf
<1>2. CASE StopAgain
  <2>1. /\ UNCHANGED <<stage, conn, sessions, pending>>
        /\ \A k \in Connections : pc'[Draining(k)] \in {pc[Draining(k)], "failed"}
    BY <1>2, TaskNames DEF StopAgain, records
  <2> QED
    BY <2>1 DEF DrainedKept, Once, SocketsOf
<1> QED
  BY <1>0, <1>1, <1>2, UpgradesDrained, ClosesDrained, DrainsDrained, StopDrained,
     PublishDrained, EnvironmentDrained
  DEF Next, Failures

-----------------------------------------------------------------------------

LEMMA RecordInvHolds == Safety => []RecordInv
<1>1. Init => RecordInv
  BY InitType, InitPlaced, InitKept, InitServed, InitHeld, InitDrained
  DEF RecordInv, LiveInv
<1>2. RecordInv /\ [Next]_vars => RecordInv'
  BY NextType, NextPlaced, NextKept, NextServed, NextHeld, NextDrained
  DEF RecordInv, LiveInv
<1> QED
  BY <1>1, <1>2, PTL DEF Safety

\* The properties follow from the invariant, behaviours apart.
LEMMA RecordInvSuffices ==
    RecordInv => /\ LiveSessionsKept
                 /\ ServedAreOpen
                 /\ AbandonedSessionsExpire
                 /\ DrainedSessionsExpire
<1> SUFFICES ASSUME RecordInv
             PROVE  /\ LiveSessionsKept
                    /\ ServedAreOpen
                    /\ AbandonedSessionsExpire
                    /\ DrainedSessionsExpire
  OBVIOUS
<1>0. \A s \in Sockets : stage[s] \in Stages
  BY DEF RecordInv, LiveInv, TypeOK, ProcessOK
<1>1. LiveSessionsKept
  BY LiveInvSuffices DEF RecordInv
<1>2. ServedAreOpen
  <2> SUFFICES ASSUME NEW k \in Connections, Settled(k), served[k] # None
               PROVE  served[k] \in OpenSockets(k)
    BY DEF ServedAreOpen
  <2>1. /\ served[k] \in SocketsOf(k, {"open", "closed"})
        /\ stage[served[k]] = "closed" => Unfinished(Closing(served[k]))
    BY DEF RecordInv, ServedPlaced, Settled
  <2>2. ~Unfinished(Closing(served[k]))
    BY <2>1, <1>0 DEF Settled, Unfinished, SocketsOf
  <2> QED
    BY <2>1, <2>2 DEF OpenSockets, SocketsOf
<1>3. AbandonedSessionsExpire
  <2> SUFFICES ASSUME NEW k \in Connections, Settled(k),
                      sessions[k].setUp, OpenSockets(k) = {}, ~sessions[k].ttl
               PROVE  FALSE
    BY DEF AbandonedSessionsExpire
  <2>1. PICK s \in Sockets : conn[s] = k /\ Holding(s)
    BY DEF RecordInv, RecordsHeld, Settled, SocketsOf
  <2>2. stage[s] # "open"
    BY <2>1 DEF OpenSockets, SocketsOf
  <2>3. pc[Upgrading(s)] \in {"idle", "done"} /\ pc[Closing(s)] \in {"idle", "done"}
    BY <2>1, <1>0 DEF Settled, SocketsOf
  <2> QED
    BY <2>1, <2>2, <2>3 DEF Holding, Unfinished
<1>4. DrainedSessionsExpire
  BY DEF RecordInv, DrainedKept, DrainedSessionsExpire, Once
<1> QED
  BY <1>1, <1>2, <1>3, <1>4

\* When the handlers of a connection's sockets are done, a shutdown finds in
\* the map only a socket it can close, also when sockets of one token
\* overlapped and other connections' handlers failed.
THEOREM EntriesAreOpen == Spec => []ServedAreOpen
BY RecordInvHolds, RecordInvSuffices, PTL DEF Spec

\* When the handlers of a connection's sockets are done, its record has its
\* time to live once it has no socket, whatever retries, lost upgrades,
\* messages of the relay and failures elsewhere came in which order.
THEOREM AbandonedSessionsDoExpire == Spec => []AbandonedSessionsExpire
BY RecordInvHolds, RecordInvSuffices, PTL DEF Spec

\* What a shutdown has drained expires, although it may cut off the close
\* handlers, which would have seen to it, and fail for other connections.
THEOREM DrainedSessionsDoExpire == Spec => []DrainedSessionsExpire
BY RecordInvHolds, RecordInvSuffices, PTL DEF Spec
=============================================================================
