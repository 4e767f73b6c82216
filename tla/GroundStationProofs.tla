------------------------ MODULE GroundStationProofs ------------------------
(* Proofs about GroundStation, for any connections, sockets and characters, *)
(* any number of messages under way and of commands that fail.              *)
EXTENDS GroundStation, TLAPS

-----------------------------------------------------------------------------
(* Tasks. *)

LEMMA TaskNames ==
    /\ \A s \in Sockets : Upgrading(s) \in Tasks /\ Closing(s) \in Tasks
    /\ \A k \in Connections : Draining(k) \in Tasks
    /\ \A r, s \in Sockets : /\ Upgrading(r) # Closing(s)
                             /\ Upgrading(r) = Upgrading(s) => r = s
                             /\ Closing(r) = Closing(s) => r = s
    /\ \A s \in Sockets, k \in Connections : /\ Upgrading(s) # Draining(k)
                                             /\ Closing(s) # Draining(k)
BY DEF Tasks, Upgrading, Closing, Draining

LEMMA TaskOwners ==
    /\ \A s \in Sockets : Connection(Closing(s)) = conn[s]
    /\ \A k \in Connections : Connection(Draining(k)) = k
BY DEF Connection, Closing, Draining

\* Only the task that steps moves.
LEMMA StepType ==
    ASSUME TypeOK, NEW t \in Tasks, NEW from, NEW to \in Points, Step(t, from, to)
    PROVE  pc' \in [Tasks -> Points]
BY DEF TypeOK, ProcessOK, Step

LEMMA PresentType == \A session \in Session : Present(session) \in BOOLEAN
BY DEF Present, Session

LEMMA SessionFields ==
    \A session \in Session :
        /\ [session EXCEPT !.setUp = TRUE] \in Session
        /\ [session EXCEPT !.counted = TRUE] \in Session
        /\ [session EXCEPT !.ttl = FALSE] \in Session
        /\ \A c \in Characters : [session EXCEPT !.current = c] \in Session
        /\ \A b \in BOOLEAN : [session EXCEPT !.ttl = b] \in Session
BY DEF Session

LEMMA NoSessionType == NoSession \in Session
BY DEF NoSession, Session

LEMMA ExpireSessionType ==
    ASSUME TypeOK, NEW k \in Connections, ExpireSession(k)
    PROVE  sessions' \in [Connections -> Session]
<1>1. Present(sessions[k]) \in BOOLEAN
  BY PresentType DEF TypeOK, RecordsOK
<1> QED
  BY <1>1, SessionFields DEF TypeOK, RecordsOK, ExpireSession

LEMMA KeepProfileType ==
    ASSUME TypeOK, NEW t \in Tasks, KeepProfile(t)
    PROVE  profiles' \in [Characters -> [by : Connections \cup {None}, ttl : BOOLEAN]]
BY DEF TypeOK, RecordsOK, KeepProfile

LEMMA ReadCurrentType ==
    ASSUME TypeOK, NEW t \in Tasks, Connection(t) \in Connections, ReadCurrent(t)
    PROVE  current' \in [Tasks -> Characters \cup {None}]
BY DEF TypeOK, ProcessOK, RecordsOK, ReadCurrent, Session

LEMMA RemovePositionType ==
    ASSUME TypeOK, NEW t \in Tasks, RemovePosition(t)
    PROVE  geo' \in [Characters -> Positions \cup {0}]
BY DEF TypeOK, RecordsOK, RemovePosition

-----------------------------------------------------------------------------
(* Type correctness. *)

LEMMA InitType == Init => TypeOK
BY StationAssumption
   DEF Init, TypeOK, ProcessOK, RecordsOK, Statuses, Stages, Points,
       NoSession, NoProfile, Session

LEMMA UpgradesType ==
    ASSUME TypeOK, TasksPlaced, NEW s \in Sockets,
           \/ \E k \in Connections : Upgrade(s, k)
           \/ Abort(s)
           \/ UpgradeSteps(s)
           \/ FailUpgrade(s)
    PROVE  TypeOK'
<1> USE TaskNames DEF TypeOK, process, records
<1>1. ASSUME NEW k \in Connections, Upgrade(s, k) PROVE TypeOK'
  BY <1>1 DEF Upgrade, ProcessOK, RecordsOK, Stages, Points
<1>2. CASE Abort(s)
  BY <1>2 DEF Abort, ProcessOK, RecordsOK
<1>3. ASSUME SetUp(s) \/ Open(s) \/ DropAborted(s) \/ Delete(s)
      PROVE  conn[s] \in Connections
  BY <1>3 DEF TasksPlaced, SetUp, Open, DropAborted, Delete, Step
<1>4. CASE SetUp(s)
  <2>1. pc' \in [Tasks -> Points]
    BY <1>4, StepType DEF SetUp, Points
  <2> QED
    BY <1>3, <1>4, <2>1, SessionFields DEF SetUp, ProcessOK, RecordsOK
<1>5. CASE Open(s)
  <2>1. pc' \in [Tasks -> Points]
    BY <1>5, StepType DEF Open, Points
  <2> QED
    BY <1>3, <1>5, <2>1, SessionFields DEF Open, ProcessOK, RecordsOK, Stages
<1>6. CASE DropAborted(s)
  <2>1. pc' \in [Tasks -> Points]
    BY <1>6, StepType DEF DropAborted, Points
  <2> QED
    BY <1>3, <1>6, <2>1, SessionFields DEF DropAborted, ProcessOK, RecordsOK, Stages
<1>7. CASE Delete(s)
  <2>1. pc' \in [Tasks -> Points]
    BY <1>7, StepType DEF Delete, Points
  <2> QED
    BY <1>3, <1>7, <2>1, NoSessionType DEF Delete, ProcessOK, RecordsOK
<1>8. CASE FailUpgrade(s)
  <2>1. pc' \in [Tasks -> Points]
    BY <1>8 DEF FailUpgrade, ProcessOK, Points
  <2>2. failures' \in 0 .. MaxFailures
    BY <1>8, StationAssumption DEF FailUpgrade, ProcessOK
  <2> QED
    BY <1>8, <2>1, <2>2 DEF FailUpgrade, ProcessOK, RecordsOK, Stages, Statuses
<1> QED
  BY <1>1, <1>2, <1>4, <1>5, <1>6, <1>7, <1>8 DEF UpgradeSteps

LEMMA ClosesType ==
    ASSUME TypeOK, TasksPlaced, NEW s \in Sockets,
           Publish(s) \/ Close(s) \/ CloseSteps(s)
    PROVE  TypeOK'
<1> DEFINE t == Closing(s)
<1> USE TaskNames DEF TypeOK, process, records
<1>1. CASE Publish(s)
  <2>1. conn[s] \in Connections
    BY <1>1 DEF Publish, TasksPlaced
  <2> QED
    BY <1>1, <2>1, StationAssumption
    DEF Publish, ProcessOK, RecordsOK
<1>2. CASE Close(s)
  BY <1>2 DEF Close, ProcessOK, RecordsOK, Stages, Points
<1>3. ASSUME CloseSteps(s) PROVE Connection(t) = conn[s] /\ conn[s] \in Connections
  BY <1>3, TaskOwners
  DEF CloseSteps, CloseReadCurrent, CloseRemovePosition, CloseKeepAlive,
      CloseExpire, Step, TasksPlaced
<1>4. ASSUME CloseSteps(s) PROVE pc' \in [Tasks -> Points]
  BY <1>4, StepType
  DEF CloseSteps, CloseReadCurrent, CloseRemovePosition, CloseKeepAlive,
      CloseExpire, Points
<1>5. CASE CloseReadCurrent(s)
  BY <1>3, <1>4, <1>5, ReadCurrentType
  DEF CloseSteps, CloseReadCurrent, ProcessOK, RecordsOK
<1>6. CASE CloseRemovePosition(s)
  BY <1>4, <1>6, RemovePositionType
  DEF CloseSteps, CloseRemovePosition, ProcessOK, RecordsOK
<1>7. CASE CloseKeepAlive(s)
  BY <1>4, <1>7, KeepProfileType
  DEF CloseSteps, CloseKeepAlive, ProcessOK, RecordsOK
<1>8. CASE CloseExpire(s)
  <2>1. sessions' \in [Connections -> Session]
    BY <1>3, <1>8, ExpireSessionType DEF CloseSteps, CloseExpire
  <2> QED
    BY <1>4, <1>8, <2>1 DEF CloseSteps, CloseExpire, ProcessOK, RecordsOK
<1> QED
  BY <1>1, <1>2, <1>5, <1>6, <1>7, <1>8 DEF CloseSteps

LEMMA DrainsType ==
    ASSUME TypeOK, NEW k \in Connections, DrainSteps(k)
    PROVE  TypeOK'
<1> DEFINE t == Draining(k)
<1> USE TaskNames, TaskOwners DEF TypeOK, process, records
<1>1. pc' \in [Tasks -> Points]
  BY StepType
  DEF DrainSteps, DrainReadCurrent, DrainExpire, DrainRemovePosition,
      DrainKeepAlive, Points
<1>2. CASE DrainReadCurrent(k)
  BY <1>1, <1>2, ReadCurrentType
  DEF DrainReadCurrent, ProcessOK, RecordsOK
<1>3. CASE DrainExpire(k)
  BY <1>1, <1>3, ExpireSessionType DEF DrainExpire, ProcessOK, RecordsOK
<1>4. CASE DrainRemovePosition(k)
  BY <1>1, <1>4, RemovePositionType
  DEF DrainRemovePosition, ProcessOK, RecordsOK
<1>5. CASE DrainKeepAlive(k)
  BY <1>1, <1>5, KeepProfileType
  DEF DrainKeepAlive, ProcessOK, RecordsOK
<1> QED
  BY <1>2, <1>3, <1>4, <1>5 DEF DrainSteps

LEMMA FailTaskType ==
    ASSUME TypeOK, NEW t \in Tasks, FailTask(t)
    PROVE  TypeOK'
<1>1. pc' \in [Tasks -> Points]
  BY DEF FailTask, TypeOK, ProcessOK, Points
<1>2. failures' \in 0 .. MaxFailures
  BY StationAssumption DEF FailTask, TypeOK, ProcessOK
<1> QED
  BY <1>1, <1>2 DEF FailTask, TypeOK, ProcessOK, RecordsOK, records

LEMMA StopType == TypeOK /\ Stop => TypeOK'
<1> SUFFICES ASSUME TypeOK, Stop PROVE TypeOK'
  OBVIOUS
<1>1. pc' \in [Tasks -> Points]
  BY DEF Stop, TypeOK, ProcessOK, Points
<1>2. stage' \in [Sockets -> Stages] /\ status' \in Statuses
  BY DEF Stop, TypeOK, ProcessOK, Stages, Statuses
<1>3. UNCHANGED <<conn, aborted, served, current, failures, pending>>
  BY DEF Stop
<1>4. ProcessOK'
  BY <1>1, <1>2, <1>3 DEF TypeOK, ProcessOK
<1>5. RecordsOK'
  BY DEF Stop, TypeOK, RecordsOK, records
<1> QED
  BY <1>3, <1>4, <1>5 DEF TypeOK

LEMMA ExitType == TypeOK /\ Exit => TypeOK'
BY DEF Exit, TypeOK, ProcessOK, RecordsOK, records, Statuses

LEMMA StopAgainType == TypeOK /\ StopAgain => TypeOK'
<1> SUFFICES ASSUME TypeOK, StopAgain PROVE TypeOK'
  OBVIOUS
<1>1. pc' \in [Tasks -> Points]
  BY DEF StopAgain, TypeOK, ProcessOK, Points
<1> QED
  BY <1>1 DEF StopAgain, TypeOK, ProcessOK, RecordsOK, records, Statuses

LEMMA EnvironmentType == TypeOK /\ Environment => TypeOK'
<1> SUFFICES ASSUME TypeOK, Environment PROVE TypeOK'
  OBVIOUS
<1> USE DEF TypeOK, ProcessOK, RecordsOK, process, records
<1>1. ASSUME NEW k \in Connections, RelayWritesSession(k) PROVE TypeOK'
  <2>1. sessions' \in [Connections -> Session]
    <3>1. ASSUME NEW c \in Characters,
                 sessions' = [sessions EXCEPT ![k].current = c]
          PROVE  sessions' \in [Connections -> Session]
      BY <3>1, SessionFields
    <3>2. ASSUME sessions' = [sessions EXCEPT ![k].counted = TRUE]
          PROVE  sessions' \in [Connections -> Session]
      BY <3>2, SessionFields
    <3> QED
      BY <1>1, <3>1, <3>2 DEF RelayWritesSession
  <2> QED
    BY <1>1, <2>1 DEF RelayWritesSession
<1>2. ASSUME NEW c \in Characters, RelayWritesProfile(c) PROVE TypeOK'
  <2>1. profiles' \in [Characters -> [by : Connections \cup {None}, ttl : BOOLEAN]]
    BY <1>2 DEF RelayWritesProfile
  <2> QED
    BY <1>2, <2>1 DEF RelayWritesProfile
<1>3. ASSUME NEW c \in Characters, RelayWritesPosition(c) PROVE TypeOK'
  BY <1>3 DEF RelayWritesPosition
<1>4. CASE RelaySettles
  BY <1>4 DEF RelaySettles
<1>5. ASSUME NEW k \in Connections, SessionExpires(k) PROVE TypeOK'
  BY <1>5, NoSessionType DEF SessionExpires
<1>6. ASSUME NEW c \in Characters, ProfileExpires(c) PROVE TypeOK'
  BY <1>6 DEF ProfileExpires, NoProfile
<1> QED
  BY <1>1, <1>2, <1>3, <1>4, <1>5, <1>6 DEF Environment

LEMMA NextType == TypeOK /\ TasksPlaced /\ [Next]_vars => TypeOK'
<1> SUFFICES ASSUME TypeOK, TasksPlaced, [Next]_vars PROVE TypeOK'
  OBVIOUS
<1>1. CASE UNCHANGED vars
  BY <1>1 DEF TypeOK, ProcessOK, RecordsOK, vars, process, records
<1>2. CASE Failures
  BY <1>2, TaskNames, UpgradesType, FailTaskType DEF Failures
<1> QED
  BY <1>1, <1>2, UpgradesType, ClosesType, DrainsType, StopType, ExitType,
     StopAgainType, EnvironmentType DEF Next

-----------------------------------------------------------------------------
(* Handlers run for sockets in the stage that started them. *)

LEMMA InitPlaced == Init => TasksPlaced
BY TaskNames DEF Init, TasksPlaced

\* A step of an upgrade leaves the closes and the drains alone.
LEMMA UpgradesPlaced ==
    ASSUME TypeOK, TasksPlaced, NEW s \in Sockets,
           \/ \E k \in Connections : Upgrade(s, k)
           \/ Abort(s)
           \/ UpgradeSteps(s)
           \/ FailUpgrade(s)
    PROVE  TasksPlaced'
<1> USE TaskNames DEF TypeOK, ProcessOK, TasksPlaced, Step
<1>1. ASSUME NEW k \in Connections, Upgrade(s, k) PROVE TasksPlaced'
  BY <1>1 DEF Upgrade
<1>2. CASE Abort(s)
  BY <1>2 DEF Abort
<1>3. CASE SetUp(s)
  BY <1>3 DEF SetUp
<1>4. CASE Open(s)
  BY <1>4 DEF Open
<1>5. CASE DropAborted(s)
  BY <1>5 DEF DropAborted
<1>6. CASE Delete(s)
  BY <1>6 DEF Delete
<1>7. CASE FailUpgrade(s)
  <2>1. /\ stage[s] \in {"upgrading", "refused"}
        /\ pc'[Upgrading(s)] \in {"delete", "failed"}
        /\ stage' = [stage EXCEPT ![s] = "refused"]
        /\ \A t \in Tasks : t # Upgrading(s) => pc'[t] = pc[t]
    BY <1>7 DEF FailUpgrade, Waiting
  <2>2. status' = "running" => status = "running"
    BY <1>7 DEF FailUpgrade
  <2>3. conn' = conn
    BY <1>7 DEF FailUpgrade
  <2> QED
    BY <2>1, <2>2, <2>3
<1> QED
  BY <1>1, <1>2, <1>3, <1>4, <1>5, <1>6, <1>7 DEF UpgradeSteps

LEMMA ClosesPlaced ==
    ASSUME TypeOK, TasksPlaced, NEW s \in Sockets,
           Publish(s) \/ Close(s) \/ CloseSteps(s)
    PROVE  TasksPlaced'
<1> USE TaskNames DEF TypeOK, ProcessOK, TasksPlaced, Step
<1>1. CASE Publish(s)
  BY <1>1 DEF Publish, process
<1>2. CASE Close(s)
  BY <1>2 DEF Close
<1>3. CASE CloseReadCurrent(s)
  BY <1>3 DEF CloseReadCurrent
<1>4. CASE CloseRemovePosition(s)
  BY <1>4 DEF CloseRemovePosition
<1>5. CASE CloseKeepAlive(s)
  BY <1>5 DEF CloseKeepAlive
<1>6. CASE CloseExpire(s)
  BY <1>6 DEF CloseExpire
<1> QED
  BY <1>1, <1>2, <1>3, <1>4, <1>5, <1>6 DEF CloseSteps

\* Nothing drains while the process runs.
LEMMA DrainsStopping ==
    ASSUME TypeOK, TasksPlaced, NEW k \in Connections,
           DrainSteps(k) \/ FailTask(Draining(k))
    PROVE  status # "running"
BY DEF TasksPlaced, DrainSteps, DrainReadCurrent, DrainExpire,
       DrainRemovePosition, DrainKeepAlive, Step, FailTask, Waiting

LEMMA DrainsPlaced ==
    ASSUME TypeOK, TasksPlaced, NEW k \in Connections,
           DrainSteps(k) \/ FailTask(Draining(k))
    PROVE  TasksPlaced'
<1>1. /\ UNCHANGED <<status, stage, conn>>
      /\ \A t \in Tasks : t # Draining(k) => pc'[t] = pc[t]
  BY DEF DrainSteps, DrainReadCurrent, DrainExpire, DrainRemovePosition,
         DrainKeepAlive, Step, FailTask, TypeOK, ProcessOK
<1> QED
  BY <1>1, DrainsStopping, TaskNames DEF TasksPlaced

LEMMA FailClosePlaced ==
    ASSUME TypeOK, TasksPlaced, NEW s \in Sockets, FailTask(Closing(s))
    PROVE  TasksPlaced'
BY TaskNames DEF FailTask, Waiting, TypeOK, ProcessOK, TasksPlaced

LEMMA StopPlaced == TypeOK /\ TasksPlaced /\ Stop => TasksPlaced'
<1> SUFFICES ASSUME TypeOK, TasksPlaced, Stop PROVE TasksPlaced'
  OBVIOUS
<1> DEFINE closing == {served[k] : k \in {k \in Connections :
                            served[k] # None /\ stage[served[k]] = "open"}}
<1>1. /\ status' = "stopping"
      /\ conn' = conn
      /\ stage' = [s \in Sockets |-> IF s \in closing THEN "closed" ELSE stage[s]]
  BY DEF Stop
<1>2. \A s \in Sockets : /\ pc'[Upgrading(s)] = pc[Upgrading(s)]
                         /\ s \notin closing => pc'[Closing(s)] = pc[Closing(s)]
  BY TaskNames DEF Stop, Upgrading, Closing
<1>3. \A s \in closing : stage[s] = "open"
  OBVIOUS
<1> HIDE DEF closing
<1>4. ASSUME NEW s \in Sockets
      PROVE  /\ stage'[s] # stage[s] => stage[s] = "open" /\ stage'[s] = "closed"
             /\ pc'[Upgrading(s)] = pc[Upgrading(s)]
             /\ pc'[Closing(s)] # "idle" => stage'[s] = "closed"
  <2>1. CASE s \in closing
    <3>1. stage[s] = "open" /\ stage'[s] = "closed"
      BY <1>1, <1>3, <2>1
    <3> QED
      BY <1>2, <3>1
  <2>2. CASE s \notin closing
    <3>1. stage'[s] = stage[s]
      BY <1>1, <2>2
    <3>2. pc[Closing(s)] # "idle" => stage[s] = "closed"
      BY DEF TasksPlaced
    <3> QED
      BY <1>2, <2>2, <3>1, <3>2
  <2> QED
    BY <2>1, <2>2
<1>5. ASSUME NEW s \in Sockets
      PROVE  /\ pc'[Upgrading(s)] \in {"idle", "setup", "persist", "delete",
                                        "done", "failed"}
             /\ pc'[Upgrading(s)] \in {"setup", "persist"}
                  => stage'[s] = "upgrading"
             /\ pc'[Upgrading(s)] = "delete" => stage'[s] = "refused"
             /\ pc'[Closing(s)] # "idle" => stage'[s] = "closed"
             /\ stage'[s] # "new" => conn'[s] \in Connections
  BY <1>1, <1>4 DEF TasksPlaced
<1> QED
  BY <1>1, <1>5 DEF TasksPlaced

LEMMA NextPlaced == TypeOK /\ TasksPlaced /\ [Next]_vars => TasksPlaced'
<1> SUFFICES ASSUME TypeOK, TasksPlaced, [Next]_vars PROVE TasksPlaced'
  OBVIOUS
<1>1. CASE UNCHANGED vars
  BY <1>1 DEF TasksPlaced, vars, process
<1>2. CASE Failures
  BY <1>2, UpgradesPlaced, FailClosePlaced, DrainsPlaced DEF Failures
<1>3. CASE Environment
  BY <1>3 DEF Environment, RelayWritesSession, RelayWritesProfile,
              RelayWritesPosition, RelaySettles, SessionExpires, ProfileExpires,
              process, TasksPlaced
<1>4. CASE Exit
  BY <1>4 DEF Exit, TasksPlaced
<1>5. CASE StopAgain
  <2>1. \A s \in Sockets : /\ pc'[Upgrading(s)] = pc[Upgrading(s)]
                           /\ pc'[Closing(s)] = pc[Closing(s)]
    BY <1>5, TaskNames DEF StopAgain, Upgrading, Closing
  <2> QED
    BY <1>5, <2>1 DEF StopAgain, TasksPlaced
<1> QED
  BY <1>1, <1>2, <1>3, <1>4, <1>5, UpgradesPlaced, ClosesPlaced, DrainsPlaced,
     StopPlaced DEF Next

\* Every variable of the ground station has the values the code can give it.
THEOREM TypeCorrect == Spec => []TypeOK
<1>1. Init => TypeOK /\ TasksPlaced
  BY InitType, InitPlaced
<1>2. TypeOK /\ TasksPlaced /\ [Next]_vars => (TypeOK /\ TasksPlaced)'
  BY NextType, NextPlaced
<1> QED
  BY <1>1, <1>2, PTL DEF Spec, Safety

-----------------------------------------------------------------------------
(* A connection none of whose sockets closed or failed is kept. *)

LEMMA InitKept == Init => UntroubledKept
BY TaskNames DEF Init, UntroubledKept, Kept, OpenSockets, SocketsOf, NoSession

\* What keeps a connection kept: its record loses neither its fields nor its
\* permanence, its entry stays, and its sockets stay as they are.
LEMMA KeptFrame ==
    ASSUME NEW k \in Connections, Kept(k),
           sessions[k].setUp => sessions'[k].setUp,
           sessions'[k].ttl => sessions[k].ttl,
           served'[k] = served[k],
           \A s \in Sockets :
             /\ stage'[s] = "open" /\ conn'[s] = k <=> stage[s] = "open" /\ conn[s] = k
             /\ conn'[s] = k /\ pc'[Upgrading(s)] = "persist"
                  => conn[s] = k /\ pc[Upgrading(s)] = "persist"
    PROVE  Kept(k)'
<1>1. OpenSockets(k)' = OpenSockets(k)
  BY DEF OpenSockets, SocketsOf
<1> QED
  BY <1>1 DEF Kept

\* A socket that closed or failed stays so, for the same connection.
LEMMA UpgradeTroubles ==
    ASSUME TypeOK, TasksPlaced, NEW s \in Sockets,
           \/ \E k \in Connections : Upgrade(s, k)
           \/ Abort(s)
           \/ UpgradeSteps(s)
           \/ FailUpgrade(s),
           NEW r \in Sockets, stage[r] \in {"closed", "refused"}
    PROVE  stage'[r] \in {"closed", "refused"} /\ conn'[r] = conn[r]
<1> USE TaskNames DEF TypeOK, ProcessOK
<1>1. ASSUME NEW k \in Connections, Upgrade(s, k)
      PROVE  stage'[r] \in {"closed", "refused"} /\ conn'[r] = conn[r]
  BY <1>1 DEF Upgrade
<1>2. CASE Abort(s) \/ SetUp(s) \/ Delete(s)
  BY <1>2 DEF Abort, SetUp, Delete
<1>3. CASE Open(s)
  BY <1>3 DEF Open, Step, TasksPlaced
<1>4. CASE DropAborted(s) \/ FailUpgrade(s)
  BY <1>4 DEF DropAborted, FailUpgrade
<1> QED
  BY <1>1, <1>2, <1>3, <1>4 DEF UpgradeSteps

LEMMA UpgradesKept ==
    ASSUME TypeOK, TasksPlaced, UntroubledKept, NEW s \in Sockets,
           \/ \E k \in Connections : Upgrade(s, k)
           \/ Abort(s)
           \/ UpgradeSteps(s)
           \/ FailUpgrade(s)
    PROVE  UntroubledKept'
<1> USE TaskNames
<1>0. status' = "running" => status = "running"
  BY DEF UpgradeSteps, Upgrade, Abort, SetUp, Open, DropAborted, Delete, FailUpgrade
<1> SUFFICES ASSUME status' = "running", NEW k \in Connections, Untroubled(k)'
             PROVE  Kept(k)'
  BY DEF UntroubledKept
<1>1. Untroubled(k)
  BY UpgradeTroubles DEF Untroubled, SocketsOf
<1>2. Kept(k)
  BY <1>0, <1>1 DEF UntroubledKept
<1>3. ASSUME conn'[s] = k PROVE stage'[s] \notin {"closed", "refused"}
  BY <1>3 DEF Untroubled, SocketsOf
<1>4. ASSUME NEW j \in Connections, Upgrade(s, j) PROVE Kept(k)'
  <2>1. \A r \in Sockets :
          /\ stage'[r] = "open" /\ conn'[r] = k <=> stage[r] = "open" /\ conn[r] = k
          /\ conn'[r] = k /\ pc'[Upgrading(r)] = "persist"
               => conn[r] = k /\ pc[Upgrading(r)] = "persist"
    BY <1>4 DEF Upgrade, TypeOK, ProcessOK
  <2> QED
    BY <1>2, <1>4, <2>1, KeptFrame DEF Upgrade, records
<1>5. CASE Abort(s)
  BY <1>2, <1>5, KeptFrame DEF Abort, records
<1>6. CASE SetUp(s)
  <2>1. conn[s] \in Connections /\ sessions[k] \in Session
    BY <1>6 DEF SetUp, Step, TasksPlaced, TypeOK, RecordsOK
  <2>2. /\ OpenSockets(k)' = OpenSockets(k)
        /\ sessions'[k].ttl = sessions[k].ttl
        /\ sessions[k].setUp => sessions'[k].setUp
        /\ conn[s] = k => sessions'[k].setUp
    BY <1>6, <2>1 DEF SetUp, OpenSockets, SocketsOf, TypeOK, RecordsOK, Session
  <2>3. \A r \in Sockets : r # s => pc'[Upgrading(r)] = pc[Upgrading(r)]
    BY <1>6 DEF SetUp, Step, TypeOK, ProcessOK
  <2> QED
    BY <1>2, <1>6, <2>2, <2>3 DEF Kept, SetUp
<1>7. CASE Open(s)
  <2>1. /\ conn[s] \in Connections /\ pc[Upgrading(s)] = "persist"
        /\ \A r \in Sockets :
             /\ conn'[r] = conn[r]
             /\ r # s => stage'[r] = stage[r]
             /\ pc'[Upgrading(r)] = "persist" => pc[Upgrading(r)] = "persist"
    BY <1>7 DEF Open, Step, TasksPlaced, TypeOK, ProcessOK
  <2>2. stage'[s] = "open"
    BY <1>7 DEF Open, TypeOK, ProcessOK
  <2>3. CASE conn[s] = k
    <3>1. ~sessions'[k].ttl /\ sessions'[k].setUp = sessions[k].setUp
      BY <1>7, <2>3 DEF Open, TypeOK, RecordsOK, Session
    <3>2. sessions[k].setUp
      BY <1>2, <2>1, <2>3 DEF Kept
    <3>3. served'[k] = s
      BY <1>7, <2>3 DEF Open, TypeOK, ProcessOK
    <3>4. s \in OpenSockets(k)'
      BY <2>1, <2>2, <2>3 DEF OpenSockets, SocketsOf
    <3> QED
      BY <3>1, <3>2, <3>3, <3>4 DEF Kept
  <2>4. CASE conn[s] # k
    <3>1. sessions'[k] = sessions[k] /\ served'[k] = served[k]
      BY <1>7, <2>4 DEF Open, TypeOK, ProcessOK, RecordsOK
    <3> QED
      BY <1>2, <2>1, <2>4, <3>1, KeptFrame
  <2> QED
    BY <2>3, <2>4
<1>8. CASE DropAborted(s) \/ Delete(s) \/ FailUpgrade(s)
  <2>1. stage[s] # "open" /\ stage'[s] = "refused" /\ conn'[s] = conn[s]
    BY <1>8
    DEF DropAborted, Delete, FailUpgrade, Waiting, Step, TasksPlaced, TypeOK, ProcessOK
  <2>2. conn[s] # k
    BY <1>3, <2>1
  <2>3. sessions'[k] = sessions[k] /\ served'[k] = served[k]
    BY <1>8, <2>2
    DEF DropAborted, Delete, FailUpgrade, records, TypeOK, RecordsOK
  <2>4. \A r \in Sockets \ {s} :
          /\ stage'[r] = stage[r] /\ conn'[r] = conn[r]
          /\ pc'[Upgrading(r)] = pc[Upgrading(r)]
    BY <1>8 DEF DropAborted, Delete, FailUpgrade, Step, TypeOK, ProcessOK
  <2> QED
    BY <1>2, <2>1, <2>2, <2>3, <2>4, KeptFrame
<1> QED
  BY <1>4, <1>5, <1>6, <1>7, <1>8 DEF UpgradeSteps

\* The close of a socket touches the connection of that socket only.
LEMMA ClosesKept ==
    ASSUME TypeOK, TasksPlaced, UntroubledKept, NEW s \in Sockets,
           Close(s) \/ CloseSteps(s) \/ FailTask(Closing(s))
    PROVE  UntroubledKept'
<1> USE TaskNames
<1>1. /\ UNCHANGED <<status, conn>>
      /\ stage[s] \in {"open", "closed"} /\ stage'[s] = "closed"
      /\ \A r \in Sockets : /\ r # s => stage'[r] = stage[r]
                             /\ pc'[Upgrading(r)] = pc[Upgrading(r)]
  BY DEF Close, CloseSteps, CloseReadCurrent, CloseRemovePosition, CloseKeepAlive,
         CloseExpire, FailTask, Waiting, Step, TasksPlaced, TypeOK, ProcessOK
<1>2. \A k \in Connections :
        k # conn[s] => sessions'[k] = sessions[k] /\ served'[k] = served[k]
  BY DEF Close, CloseSteps, CloseReadCurrent, CloseRemovePosition, CloseKeepAlive,
         CloseExpire, ExpireSession, FailTask, records, TypeOK, ProcessOK, RecordsOK
<1> SUFFICES ASSUME status' = "running", NEW k \in Connections, Untroubled(k)'
             PROVE  Kept(k)'
  BY DEF UntroubledKept
<1>3. k # conn[s] /\ Untroubled(k)
  BY <1>1 DEF Untroubled, SocketsOf
<1>4. Kept(k)
  BY <1>1, <1>3 DEF UntroubledKept
<1> QED
  BY <1>1, <1>2, <1>3, <1>4, KeptFrame

LEMMA EnvironmentKept ==
    ASSUME TypeOK, UntroubledKept, Environment
    PROVE  UntroubledKept'
<1>1. UNCHANGED process
  BY DEF Environment, RelayWritesSession, RelayWritesProfile,
         RelayWritesPosition, RelaySettles, SessionExpires, ProfileExpires
<1>2. ASSUME NEW k \in Connections, ~sessions[k].ttl
      PROVE  sessions'[k].setUp = sessions[k].setUp /\ ~sessions'[k].ttl
  <2>1. CASE UNCHANGED sessions
    BY <1>2, <2>1
  <2>2. ASSUME NEW j \in Connections, RelayWritesSession(j)
        PROVE  sessions'[k].setUp = sessions[k].setUp /\ ~sessions'[k].ttl
    BY <1>2, <2>2 DEF RelayWritesSession, TypeOK, RecordsOK, Session
  <2>3. ASSUME NEW j \in Connections, SessionExpires(j)
        PROVE  sessions'[k].setUp = sessions[k].setUp /\ ~sessions'[k].ttl
    BY <1>2, <2>3 DEF SessionExpires, TypeOK, RecordsOK
  <2> QED
    BY <2>1, <2>2, <2>3
    DEF Environment, RelayWritesProfile, RelayWritesPosition, RelaySettles,
        ProfileExpires, records
<1> SUFFICES ASSUME status' = "running", NEW k \in Connections, Untroubled(k)'
             PROVE  Kept(k)'
  BY DEF UntroubledKept
<1>3. Kept(k)
  BY <1>1 DEF UntroubledKept, Untroubled, SocketsOf, process
<1> QED
  BY <1>1, <1>2, <1>3, KeptFrame DEF Kept, process

LEMMA NextKept ==
    TypeOK /\ TasksPlaced /\ UntroubledKept /\ [Next]_vars => UntroubledKept'
<1> SUFFICES ASSUME TypeOK, TasksPlaced, UntroubledKept, [Next]_vars
             PROVE  UntroubledKept'
  OBVIOUS
<1>1. CASE UNCHANGED vars \/ \E s \in Sockets : Publish(s)
  BY <1>1
  DEF vars, process, records, Publish, UntroubledKept, Untroubled, Kept,
      OpenSockets, SocketsOf
<1>2. CASE Stop \/ Exit \/ StopAgain
  BY <1>2 DEF Stop, Exit, StopAgain, UntroubledKept
<1>3. CASE \E k \in Connections : DrainSteps(k) \/ FailTask(Draining(k))
  <2>1. UNCHANGED status
    BY <1>3 DEF DrainSteps, DrainReadCurrent, DrainExpire, DrainRemovePosition,
                DrainKeepAlive, FailTask
  <2> QED
    BY <1>3, <2>1, DrainsStopping DEF UntroubledKept
<1> QED
  BY <1>1, <1>2, <1>3, UpgradesKept, ClosesKept, EnvironmentKept
  DEF Next, Failures

LEMMA LiveInvSuffices == LiveInv => LiveSessionsKept
<1> SUFFICES ASSUME LiveInv, status = "running", NEW s \in Sockets,
                    stage[s] = "open", Untroubled(conn[s])
             PROVE  /\ sessions[conn[s]].setUp /\ ~sessions[conn[s]].ttl
                    /\ served[conn[s]] \in OpenSockets(conn[s])
  BY DEF LiveSessionsKept, Untroubled
<1>1. conn[s] \in Connections
  BY DEF LiveInv, TasksPlaced
<1>2. s \in OpenSockets(conn[s])
  BY DEF OpenSockets, SocketsOf
<1> QED
  BY <1>1, <1>2 DEF LiveInv, UntroubledKept, Kept

\* A live connection whose other sockets never closed or failed can be found
\* for a shutdown, and its record stays set up and does not expire.
THEOREM LiveSessionsAreKept == Spec => []LiveSessionsKept
<1>1. Init => LiveInv
  BY InitType, InitPlaced, InitKept DEF LiveInv
<1>2. LiveInv /\ [Next]_vars => LiveInv'
  BY NextType, NextPlaced, NextKept DEF LiveInv
<1> QED
  BY <1>1, <1>2, LiveInvSuffices, PTL DEF Spec, Safety
=============================================================================
