------------------------ MODULE PlatformNamesProofs ------------------------
(* Proofs about Platform: the names that the feed and the store carry, and *)
(* that the record names who is shown, for any connections, sockets,       *)
(* tokens and messages.                                                    *)
EXTENDS PlatformProofs

\* What is proved of TrackingRelay, instantiated as Platform does.
Names == INSTANCE TrackingRelayOrderProofs WITH ConnectionStoreTtl <- FALSE

LEMMA NamesAssumptions == Names!NamesAssumption /\ Names!MessagesAssumption
BY PlatformAssumption DEF Names!NamesAssumption, Names!MessagesAssumption, Names!Kinds

\* The two instances name the same operators.
LEMMA SameArrivals ==
    \A m : /\ Relay!Ignore(m) => Names!Ignore(m)
           /\ Relay!AskAllowed(m) => Names!AskAllowed(m)
           /\ Relay!Relay(m) => Names!Relay(m)
BY Zenon
DEF Relay!Ignore, Names!Ignore, Relay!AskAllowed, Names!AskAllowed,
    Relay!Relay, Names!Relay, Relay!Arrive, Names!Arrive, Relay!Finish,
    Names!Finish, Relay!Send, Names!Send, Relay!ClientOf, Names!ClientOf,
    Relay!UserCommands, Names!UserCommands, Relay!TrackerCommands,
    Names!TrackerCommands, Relay!Publication, Names!Publication,
    Relay!Named, Names!Named, Relay!store, Names!store

LEMMA SameExecutions == \A h : Relay!ExecuteAny(h) => Names!ExecuteAny(h)
<1> SUFFICES ASSUME NEW h, Relay!ExecuteAny(h) PROVE Names!ExecuteAny(h)
  OBVIOUS
<1>1. /\ \A command : Relay!ClientOf(command) = Names!ClientOf(command)
      /\ Relay!Conn(h) = Names!Conn(h) /\ Relay!Label(h) = Names!Label(h)
      /\ Relay!store = Names!store /\ Relay!NoProfile = Names!NoProfile
      /\ \A k : Relay!AllowedCharacters(k) = Names!AllowedCharacters(k)
      /\ \A session : Relay!Present(session) = Names!Present(session)
  BY DEF Relay!ClientOf, Names!ClientOf, Relay!UserCommands, Names!UserCommands,
         Relay!TrackerCommands, Names!TrackerCommands, Relay!Conn, Names!Conn,
         Relay!store, Names!store, Relay!Label, Names!Label, Relay!Named,
         Names!Named, Relay!AllowedCharacters, Names!AllowedCharacters,
         Relay!Present, Names!Present, Relay!NoProfile, Names!NoProfile
<1>2. \A command : Relay!Execute(h, command) => Names!Execute(h, command)
  BY <1>1 DEF Relay!Execute, Names!Execute
<1>3. /\ Relay!ExecuteSetCurrent(h) => Names!ExecuteSetCurrent(h)
      /\ Relay!ExecutePersistCurrent(h) => Names!ExecutePersistCurrent(h)
  BY <1>1, <1>2
  DEF Relay!ExecuteSetCurrent, Names!ExecuteSetCurrent,
      Relay!ExecutePersistCurrent, Names!ExecutePersistCurrent,
      Relay!store, Names!store
<1>a. Relay!ExecuteGetAllowed(h) => Names!ExecuteGetAllowed(h)
  BY <1>1, <1>2 DEF Relay!ExecuteGetAllowed, Names!ExecuteGetAllowed,
                    Relay!store, Names!store
<1>b. Relay!ExecuteKeepAlive(h) => Names!ExecuteKeepAlive(h)
  BY <1>1, <1>2, Zenon DEF Relay!ExecuteKeepAlive, Names!ExecuteKeepAlive
<1>4. /\ Relay!ExecuteRemovePosition(h) => Names!ExecuteRemovePosition(h)
      /\ Relay!ExecuteBroadcast(h) => Names!ExecuteBroadcast(h)
      /\ Relay!ExecuteIncrease(h) => Names!ExecuteIncrease(h)
      /\ Relay!ExecuteExpire(h) => Names!ExecuteExpire(h)
  BY <1>1, <1>2
  DEF Relay!ExecuteRemovePosition, Names!ExecuteRemovePosition,
      Relay!ExecuteBroadcast, Names!ExecuteBroadcast,
      Relay!ExecuteIncrease, Names!ExecuteIncrease,
      Relay!ExecuteExpire, Names!ExecuteExpire
<1>5. /\ Relay!ExecuteSetAttributes(h) => Names!ExecuteSetAttributes(h)
      /\ Relay!ExecutePersistUser(h) => Names!ExecutePersistUser(h)
      /\ Relay!ExecuteAddPoint(h) => Names!ExecuteAddPoint(h)
  BY <1>1, <1>2
  DEF Relay!ExecuteSetAttributes, Names!ExecuteSetAttributes,
      Relay!ExecutePersistUser, Names!ExecutePersistUser,
      Relay!ExecuteAddPoint, Names!ExecuteAddPoint
<1> QED
  BY <1>3, <1>a, <1>b, <1>4, <1>5 DEF Relay!ExecuteAny, Names!ExecuteAny

LEMMA SameResumptions == \A h : Relay!ResumeAny(h) => Names!ResumeAny(h)
<1> SUFFICES ASSUME NEW h, Relay!ResumeAny(h) PROVE Names!ResumeAny(h)
  OBVIOUS
<1>1. /\ \A command : Relay!ClientOf(command) = Names!ClientOf(command)
      /\ Relay!Conn(h) = Names!Conn(h) /\ Relay!store = Names!store
      /\ Relay!Publication(log[h]) = Names!Publication(log[h])
      /\ Relay!StillPlays(h) <=> Names!StillPlays(h)
  BY DEF Relay!ClientOf, Names!ClientOf, Relay!UserCommands, Names!UserCommands,
         Relay!TrackerCommands, Names!TrackerCommands, Relay!Conn, Names!Conn,
         Relay!store, Names!store, Relay!Publication, Names!Publication,
         Relay!StillPlays, Names!StillPlays, Relay!Label, Names!Label,
         Relay!Named, Names!Named
<1>2. /\ \A command : Relay!Send(h, command) => Names!Send(h, command)
      /\ \A command : Relay!Resume(h, command) => Names!Resume(h, command)
      /\ Relay!Finish(h) => Names!Finish(h)
  BY <1>1 DEF Relay!Send, Names!Send, Relay!Resume, Names!Resume, Relay!Finish,
              Names!Finish, Relay!store, Names!store
<1> QED
  BY <1>1, <1>2, Zenon
  DEF Relay!ResumeAny, Names!ResumeAny, Relay!Refuse, Names!Refuse,
      Relay!Grant, Names!Grant, Relay!Continue, Names!Continue,
      Relay!Recheck, Names!Recheck, Relay!Complete, Names!Complete

LEMMA SameRelay ==
    /\ Relay!Crash => Names!Crash
    /\ Relay!Restart => Names!Restart
    /\ Relay!Handlers = Names!Handlers
BY DEF Relay!Crash, Names!Crash, Relay!Die, Names!Die, Relay!Restart,
       Names!Restart, Relay!Unknown, Names!Unknown, Relay!Quiet, Names!Quiet,
       Relay!Clients, Names!Clients, Relay!Handlers, Names!Handlers,
       Relay!store, Names!store

LEMMA SameProperty ==
    Names!FeedAuthorised /\ Names!StoreAuthorised => PlatformAuthorised
BY Zenon
DEF PlatformAuthorised, Relay!FeedAuthorised, Names!FeedAuthorised,
    Relay!StoreAuthorised, Names!StoreAuthorised, Relay!MayCarry, Names!MayCarry,
    Relay!Label, Names!Label, Relay!Named, Names!Named, Relay!Conn, Names!Conn

-----------------------------------------------------------------------------

\* What the relay does on the platform it does by itself.
LEMMA RelayStepsNamed ==
    ASSUME \/ \E m \in Messages : Consume(m)
           \/ \E h \in Relay!Handlers : RelayStep(h)
           \/ RelayFault
    PROVE  Names!Next
BY SameArrivals, SameExecutions, SameResumptions, SameRelay
DEF Consume, RelayStep, RelayFault, Names!Next

\* A shutdown, and a refused command, write nothing else than a time to live
\* or take a position away.
LEMMA StopWrites ==
    ASSUME StationStops
    PROVE  /\ UNCHANGED <<relayMemory, feed>>
           /\ \/ UNCHANGED sessions
              \/ \E k \in Connections :
                    /\ task[Station!Draining(k)] = "expire"
                    /\ sessions' = [sessions EXCEPT ![k].ttl = Station!Present(sessions[k])]
           /\ UNCHANGED profiles \/ \E t : Station!KeepProfile(t)
           /\ UNCHANGED geo \/ \E t : Station!RemovePosition(t)
<1>1. ASSUME NEW k \in Connections, Station!DrainSteps(k)
      PROVE  /\ \/ UNCHANGED sessions
                \/ /\ task[Station!Draining(k)] = "expire"
                   /\ sessions' = [sessions EXCEPT ![k].ttl = Station!Present(sessions[k])]
             /\ UNCHANGED profiles \/ \E t : Station!KeepProfile(t)
             /\ UNCHANGED geo \/ \E t : Station!RemovePosition(t)
  BY <1>1 DEF Station!DrainSteps, Station!DrainReadCurrent, Station!DrainExpire,
              Station!DrainRemovePosition, Station!DrainKeepAlive, Station!Step,
              Station!ExpireSession, Station!records
<1>2. CASE \/ Station!Stop \/ Station!Exit \/ Station!StopAgain
           \/ Station!Failures
  BY <1>2 DEF StationStops, Station!Stop, Station!Exit, Station!StopAgain,
              Station!Failures, Station!FailUpgrade, Station!FailTask, Station!records
<1> QED
  BY <1>1, <1>2 DEF StationStops

\* The station, and Redis' clock, only take names away.
LEMMA StationWrites ==
    ASSUME Names!StoreOK,
           \/ \E s \in Sockets : StationStep(s) \/ Publish(s)
           \/ \E k \in Connections : Lose(k)
           \/ Expiry \/ StationStops
           \/ UNCHANGED vars
    PROVE  /\ UNCHANGED <<relayMemory, feed>> /\ Names!StoreOK'
           /\ \A k \in Connections : sessions'[k].current \in {sessions[k].current, Nobody}
           /\ \A c \in Characters : /\ profiles'[c].by \in {profiles[c].by, Nobody}
                                    /\ geo'[c] \in {geo[c], 0}
<1>1. UNCHANGED <<relayMemory, feed>>
  BY StopWrites DEF StationStep, Publish, Lose, Expiry, vars
<1>2. /\ sessions' \in [Connections -> [setUp : BOOLEAN,
                                         current : Characters \cup {Nobody},
                                         counted : BOOLEAN, ttl : BOOLEAN]]
      /\ \A k \in Connections : sessions'[k].current \in {sessions[k].current, Nobody}
  <2>1. \/ UNCHANGED sessions
        \/ \E k : \/ sessions' = [sessions EXCEPT ![k].setUp = TRUE]
                  \/ sessions' = [sessions EXCEPT ![k].ttl = FALSE]
                  \/ sessions' = [sessions EXCEPT ![k].ttl = Station!Present(sessions[k])]
                  \/ sessions' = [sessions EXCEPT ![k] = Station!NoSession]
    BY StopWrites
       DEF StationStep, Publish, Lose, Expiry, vars, Station!Upgrade, Station!Abort,
           Station!Publish, Station!Close, Station!UpgradeSteps, Station!SetUp,
           Station!Open, Station!DropAborted, Station!Delete, Station!CloseSteps,
           Station!CloseReadCurrent, Station!CloseRemovePosition,
           Station!CloseKeepAlive, Station!CloseExpire, Station!ExpireSession,
           Station!SessionExpires, Station!ProfileExpires, Station!records
  <2>2. CASE UNCHANGED sessions
    BY <2>2 DEF Names!StoreOK
  <2>3. ASSUME NEW k,
               \/ sessions' = [sessions EXCEPT ![k].setUp = TRUE]
               \/ sessions' = [sessions EXCEPT ![k].ttl = FALSE]
               \/ sessions' = [sessions EXCEPT ![k].ttl = Station!Present(sessions[k])]
               \/ sessions' = [sessions EXCEPT ![k] = Station!NoSession]
        PROVE  <1>2
    <3>1. CASE k \in Connections
      <4>1. Station!Present(sessions[k]) \in BOOLEAN
        BY <3>1 DEF Names!StoreOK, Station!Present
      <4>2. sessions' \in [Connections -> [setUp : BOOLEAN,
                                           current : Characters \cup {Nobody},
                                           counted : BOOLEAN, ttl : BOOLEAN]]
        <5>1. CASE sessions' = [sessions EXCEPT ![k].setUp = TRUE]
          BY <3>1, <5>1 DEF Names!StoreOK
        <5>2. CASE sessions' = [sessions EXCEPT ![k].ttl = FALSE]
          BY <3>1, <5>2 DEF Names!StoreOK
        <5>3. CASE sessions' = [sessions EXCEPT ![k].ttl = Station!Present(sessions[k])]
          BY <3>1, <4>1, <5>3 DEF Names!StoreOK
        <5>4. CASE sessions' = [sessions EXCEPT ![k] = Station!NoSession]
          BY <3>1, <5>4 DEF Names!StoreOK, Station!NoSession
        <5> QED
          BY <2>3, <5>1, <5>2, <5>3, <5>4
      <4>3. /\ \A j \in Connections \ {k} : sessions'[j] = sessions[j]
            /\ sessions'[k].current \in {sessions[k].current, Nobody}
        BY <2>3, <3>1 DEF Names!StoreOK, Station!NoSession
      <4> QED
        BY <4>2, <4>3
    <3>2. CASE k \notin Connections
      BY <2>3, <3>2 DEF Names!StoreOK
    <3> QED
      BY <3>1, <3>2
  <2> QED
    BY <2>1, <2>2, <2>3
<1>3. /\ profiles' \in [Characters -> [by : Connections \cup {Nobody}, ttl : BOOLEAN]]
      /\ \A c \in Characters : profiles'[c].by \in {profiles[c].by, Nobody}
  <2>1. \/ UNCHANGED profiles
        \/ \E t : Station!KeepProfile(t)
        \/ \E c \in Characters : profiles' = [profiles EXCEPT ![c] = Station!NoProfile]
    BY StopWrites
       DEF StationStep, Publish, Lose, Expiry, vars, Station!Upgrade, Station!Abort,
           Station!Publish, Station!Close, Station!UpgradeSteps, Station!SetUp,
           Station!Open, Station!DropAborted, Station!Delete, Station!CloseSteps,
           Station!CloseReadCurrent, Station!CloseRemovePosition,
           Station!CloseKeepAlive, Station!CloseExpire,
           Station!SessionExpires, Station!ProfileExpires, Station!records
  <2>2. CASE UNCHANGED profiles
    BY <2>2 DEF Names!StoreOK
  <2>3. ASSUME NEW t, Station!KeepProfile(t) PROVE <1>3
    BY <2>3 DEF Names!StoreOK, Station!KeepProfile
  <2>4. ASSUME NEW c \in Characters,
               profiles' = [profiles EXCEPT ![c] = Station!NoProfile]
        PROVE  <1>3
    BY <2>4 DEF Names!StoreOK, Station!NoProfile
  <2> QED
    BY <2>1, <2>2, <2>3, <2>4
<1>4. /\ geo' \in [Characters -> 0 .. MaxMessages]
      /\ \A c \in Characters : geo'[c] \in {geo[c], 0}
  <2>1. \/ UNCHANGED geo
        \/ \E t : Station!RemovePosition(t)
    BY StopWrites
       DEF StationStep, Publish, Lose, Expiry, vars, Station!Upgrade, Station!Abort,
           Station!Publish, Station!Close, Station!UpgradeSteps, Station!SetUp,
           Station!Open, Station!DropAborted, Station!Delete, Station!CloseSteps,
           Station!CloseReadCurrent, Station!CloseRemovePosition,
           Station!CloseKeepAlive, Station!CloseExpire,
           Station!SessionExpires, Station!ProfileExpires, Station!records
  <2> QED
    BY <2>1, PlatformAssumption DEF Names!StoreOK, Station!RemovePosition
<1> QED
  BY <1>1, <1>2, <1>3, <1>4 DEF Names!StoreOK

LEMMA StationSafe ==
    ASSUME Names!AuthorisedInv,
           \/ \E s \in Sockets : StationStep(s) \/ Publish(s)
           \/ \E k \in Connections : Lose(k)
           \/ Expiry \/ StationStops
           \/ UNCHANGED vars
    PROVE  Names!AuthorisedInv'
<1>1. /\ UNCHANGED <<relayMemory, feed>> /\ Names!StoreOK'
      /\ \A k \in Connections : sessions'[k].current \in {sessions[k].current, Nobody}
      /\ \A c \in Characters : /\ profiles'[c].by \in {profiles[c].by, Nobody}
                               /\ geo'[c] \in {geo[c], 0}
  BY StationWrites DEF Names!AuthorisedInv, Names!TypeOK
<1>2. /\ UNCHANGED <<log, pc, seen, players, up, pipe, replies, feed>>
      /\ Names!Consumed' = Names!Consumed
      /\ \A h : /\ Names!Conn(h)' = Names!Conn(h) /\ Names!Label(h)' = Names!Label(h)
                /\ Names!MayCarry(h)' <=> Names!MayCarry(h)
  BY <1>1 DEF relayMemory, Names!Consumed, Names!Conn, Names!Label, Names!Named,
              Names!MayCarry
<1>3. Names!TypeOK'
  BY <1>1, <1>2 DEF Names!AuthorisedInv, Names!TypeOK, Names!MemoryOK, Names!QueuesOK
<1>4. Names!HandlersConsumed' /\ Names!NamesAllowed' /\ Names!FeedAuthorised'
  BY <1>2 DEF Names!AuthorisedInv, Names!HandlersConsumed, Names!NamesAllowed,
              Names!FeedAuthorised, Names!Named
<1>5. Names!EffectsConsumed'
  BY <1>1, <1>2 DEF Names!AuthorisedInv, Names!EffectsConsumed
<1>6. Names!StoreAuthorised'
  BY <1>1, <1>2 DEF Names!AuthorisedInv, Names!StoreAuthorised
<1> QED
  BY <1>3, <1>4, <1>5, <1>6 DEF Names!AuthorisedInv

-----------------------------------------------------------------------------

LEMMA NamesAuthorised == Spec => []Names!AuthorisedInv
<1>1. Init => Names!AuthorisedInv
  <2> SUFFICES ASSUME Init PROVE Names!AuthorisedInv
    OBVIOUS
  <2>1. /\ log = <<>> /\ Len(log) = 0 /\ Names!Consumed = {} /\ Len(feed) = 0
        /\ \A h \in Names!Handlers : pc[h] = "idle"
    BY SameRelay DEF Init, Names!Consumed
  <2>2. Names!TypeOK
    BY SameRelay, PlatformAssumption
       DEF Init, Names!TypeOK, Names!MemoryOK, Names!QueuesOK, Names!StoreOK,
           Names!Outcomes, Relay!Unknown, Relay!Quiet, Relay!Clients, Names!Clients,
           Relay!NoSession, Relay!NoProfile
  <2>3. Names!HandlersConsumed /\ Names!EffectsConsumed /\ Names!FeedAuthorised
    BY <2>1 DEF Init, Names!HandlersConsumed, Names!Announcing,
                Names!EffectsConsumed, Names!FeedAuthorised
  <2>4. Names!NamesAllowed /\ Names!StoreAuthorised
    BY <2>1 DEF Init, Names!NamesAllowed, Names!StoreAuthorised, Relay!Unknown,
                Relay!NoSession, Relay!NoProfile
  <2> QED
    BY <2>2, <2>3, <2>4 DEF Names!AuthorisedInv
<1>2. Names!AuthorisedInv /\ [Next]_vars => Names!AuthorisedInv'
  <2>1. Names!AuthorisedInv /\ Names!Next => Names!AuthorisedInv'
    BY Names!AuthorisedStep, NamesAssumptions
  <2> QED
    BY <2>1, RelayStepsNamed, StationSafe DEF Next
<1> QED
  BY <1>1, <1>2, PTL DEF Spec

\* For any tokens, and any number of sockets, messages and handlers: whatever
\* the station does to the records while the relay's handlers wait, the feed
\* and the store only carry names of the token (index.ts:94-161).
THEOREM PlatformIsAuthorised == Spec => []PlatformAuthorised
<1>1. Names!AuthorisedInv => PlatformAuthorised
  BY SameProperty DEF Names!AuthorisedInv
<1> QED
  BY <1>1, NamesAuthorised, PTL

-----------------------------------------------------------------------------
(* What a step of the station, or of the clock, does to a connection whose   *)
(* record is not spoilt: nothing.                                            *)

\* What LiveInv says of the sockets' handlers, task by task.
LEMMA TasksAt ==
    ASSUME Records!LiveInv
    PROVE  /\ DOMAIN stage = Sockets /\ DOMAIN conn = Sockets
           /\ task = [t \in Station!Tasks |-> task[t]]
           /\ \A k \in Connections :
                /\ Station!Draining(k) \in Station!Tasks
                /\ status = "running" => task[Station!Draining(k)] = "idle"
                /\ \A s \in Sockets : /\ Station!Draining(k) # Station!Upgrading(s)
                                     /\ Station!Draining(k) # Station!Closing(s)
                /\ \A j \in Connections :
                    Station!Draining(j) = Station!Draining(k) => j = k
           /\ \A s \in Sockets :
                /\ Station!Upgrading(s) \in Station!Tasks
                /\ Station!Closing(s) \in Station!Tasks
                /\ task[Station!Upgrading(s)] = "persist" => stage[s] = "upgrading"
                /\ task[Station!Upgrading(s)] = "delete" => stage[s] = "refused"
                /\ Station!Waiting(Station!Upgrading(s)) =>
                    stage[s] \in {"upgrading", "refused"}
                /\ task[Station!Closing(s)] # "idle" => stage[s] = "closed"
                /\ \A r \in Sockets :
                    /\ Station!Upgrading(s) # Station!Closing(r)
                    /\ Station!Closing(s) = Station!Closing(r) => s = r
BY DEF Records!LiveInv, Records!TypeOK, Records!ProcessOK, Records!TasksPlaced,
       Records!Tasks, Station!Tasks, Records!Upgrading, Station!Upgrading,
       Records!Closing, Station!Closing, Records!Draining, Station!Draining,
       Station!Waiting

\* A drain that has read the record goes on from there.
LEMMA DrainedStays ==
    ASSUME Records!LiveInv, NEW k \in Connections,
           task'[Station!Draining(k)] \in {"idle", "getCurrent"},
           \/ \E s \in Sockets : StationStep(s) \/ Publish(s)
           \/ StationStops
           \/ UNCHANGED stationMemory
    PROVE  task[Station!Draining(k)] \in {"idle", "getCurrent"}
<1>1. CASE \/ UNCHANGED task
           \/ \E s \in Sockets : \E point :
                \/ task' = [task EXCEPT ![Station!Upgrading(s)] = point]
                \/ task' = [task EXCEPT ![Station!Closing(s)] = point]
  BY <1>1, TasksAt
<1>2. CASE Station!Stop
  BY <1>2, TasksAt DEF Station!Stop
<1>3. ASSUME NEW j \in Connections, NEW point,
             task' = [task EXCEPT ![Station!Draining(j)] = point],
             point \notin {"idle", "getCurrent"}
      PROVE  task[Station!Draining(k)] \in {"idle", "getCurrent"}
  BY <1>3, TasksAt
<1>4. ASSUME NEW j \in Connections,
             Station!DrainSteps(j) \/ Station!FailTask(Station!Draining(j))
      PROVE  task[Station!Draining(k)] \in {"idle", "getCurrent"}
  <2>1. \E point : /\ task' = [task EXCEPT ![Station!Draining(j)] = point]
                   /\ point \notin {"idle", "getCurrent"}
    BY <1>4 DEF Station!DrainSteps, Station!DrainReadCurrent, Station!DrainExpire,
                Station!DrainRemovePosition, Station!DrainKeepAlive, Station!Step,
                Station!FailTask
  <2> QED
    BY <1>3, <2>1
<1>5. ASSUME NEW s \in Sockets, StationStep(s) \/ Publish(s)
      PROVE  \/ UNCHANGED task
             \/ \E point : \/ task' = [task EXCEPT ![Station!Upgrading(s)] = point]
                           \/ task' = [task EXCEPT ![Station!Closing(s)] = point]
  BY <1>5
  DEF StationStep, Publish, Station!Publish, Station!process, Station!Upgrade,
      Station!Abort, Station!UpgradeSteps, Station!SetUp, Station!Open,
      Station!DropAborted, Station!Delete, Station!Step, Station!Close,
      Station!CloseSteps, Station!CloseReadCurrent, Station!CloseRemovePosition,
      Station!CloseKeepAlive, Station!CloseExpire
<1>6. ASSUME NEW s \in Sockets,
             Station!FailUpgrade(s) \/ Station!FailTask(Station!Closing(s))
      PROVE  \E point : \/ task' = [task EXCEPT ![Station!Upgrading(s)] = point]
                        \/ task' = [task EXCEPT ![Station!Closing(s)] = point]
  BY <1>6 DEF Station!FailUpgrade, Station!FailTask
<1>7. CASE Station!Exit \/ UNCHANGED stationMemory
  BY <1>1, <1>7 DEF Station!Exit, stationMemory
<1>8. CASE Station!StopAgain
  BY <1>8, TasksAt DEF Station!StopAgain
<1> QED
  BY <1>1, <1>2, <1>4, <1>5, <1>6, <1>7, <1>8 DEF StationStops, Station!Failures

\* A socket that spoils its connection's record goes on doing so.
LEMMA SpoiltStays ==
    ASSUME Records!LiveInv, NEW k \in Connections, Unspoilt(k)',
           \/ \E s \in Sockets : StationStep(s) \/ Publish(s)
           \/ StationStops
           \/ UNCHANGED stationMemory
    PROVE  Unspoilt(k)
<1> SUFFICES ASSUME NEW r \in Sockets, conn[r] = k,
                    stage[r] \notin {"new", "upgrading", "open"},
                    task[Station!Closing(r)] # "getCurrent"
             PROVE  /\ conn'[r] = k /\ stage'[r] = stage[r]
                    /\ task'[Station!Closing(r)] # "getCurrent"
  BY DrainedStays DEF Unspoilt, Station!Closing, Station!Draining
<1> DEFINE Stays == /\ conn'[r] = k /\ stage'[r] = stage[r]
                    /\ task'[Station!Closing(r)] # "getCurrent"
<1>1. CASE UNCHANGED stationMemory
  BY <1>1 DEF stationMemory
<1>2. ASSUME NEW s \in Sockets, NEW j, Station!Upgrade(s, j)
      PROVE  Stays
  BY <1>2, TasksAt DEF Station!Upgrade
<1>3. ASSUME NEW s \in Sockets, Station!Abort(s) \/ Publish(s)
      PROVE  Stays
  BY <1>3 DEF Station!Abort, Publish, Station!Publish, Station!process
<1>4. ASSUME NEW s \in Sockets, Station!UpgradeSteps(s)
      PROVE  Stays
  <2>1. /\ conn' = conn
        /\ \/ stage' = stage
           \/ /\ task[Station!Upgrading(s)] = "persist"
              /\ \E place : stage' = [stage EXCEPT ![s] = place]
        /\ \E point : task' = [task EXCEPT ![Station!Upgrading(s)] = point]
    BY <1>4 DEF Station!UpgradeSteps, Station!SetUp, Station!Open,
                Station!DropAborted, Station!Delete, Station!Step
  <2> QED
    BY <2>1, TasksAt
<1>5. ASSUME NEW s \in Sockets, Station!Close(s)
      PROVE  Stays
  BY <1>5, TasksAt DEF Station!Close
<1>6. ASSUME NEW s \in Sockets, Station!CloseSteps(s)
      PROVE  Stays
  <2>1. /\ conn' = conn /\ stage' = stage
        /\ \E point : /\ task' = [task EXCEPT ![Station!Closing(s)] = point]
                      /\ point # "getCurrent"
    BY <1>6 DEF Station!CloseSteps, Station!CloseReadCurrent,
                Station!CloseRemovePosition, Station!CloseKeepAlive,
                Station!CloseExpire, Station!Step
  <2> QED
    BY <2>1, TasksAt
<1>7. CASE Station!Stop
  BY <1>7, TasksAt DEF Station!Stop, Station!Closing
<1>8. ASSUME NEW j \in Connections,
             Station!DrainSteps(j) \/ Station!FailTask(Station!Draining(j))
      PROVE  Stays
  <2>1. /\ conn' = conn /\ stage' = stage
        /\ \E point : task' = [task EXCEPT ![Station!Draining(j)] = point]
    BY <1>8 DEF Station!DrainSteps, Station!DrainReadCurrent, Station!DrainExpire,
                Station!DrainRemovePosition, Station!DrainKeepAlive, Station!Step,
                Station!FailTask
  <2> QED
    BY <2>1, TasksAt
<1>9. CASE Station!Exit \/ Station!StopAgain
  BY <1>9, TasksAt DEF Station!Exit, Station!StopAgain, Station!Closing
<1>10. ASSUME NEW s \in Sockets, Station!FailUpgrade(s)
       PROVE  Stays
  <2>1. /\ conn' = conn /\ Station!Waiting(Station!Upgrading(s))
        /\ stage' = [stage EXCEPT ![s] = "refused"]
        /\ \E point : task' = [task EXCEPT ![Station!Upgrading(s)] = point]
    BY <1>10 DEF Station!FailUpgrade
  <2> QED
    BY <2>1, TasksAt
<1>11. ASSUME NEW s \in Sockets, Station!FailTask(Station!Closing(s))
       PROVE  Stays
  BY <1>11, TasksAt DEF Station!FailTask
<1>12. CASE StationStops
  BY <1>7, <1>8, <1>9, <1>10, <1>11, <1>12 DEF StationStops, Station!Failures
<1> QED
  BY <1>1, <1>2, <1>3, <1>4, <1>5, <1>6, <1>12 DEF StationStep

\* While nothing spoilt it, only an upgrade of its own touches the record: the
\* deletion and the time to live are those of a socket that was dropped, or
\* of a close handler or a shutdown that read the record already
\* (server.ts:66-77, 117-122, 187-202).
LEMMA UnspoiltStays ==
    ASSUME Records!LiveInv, Names!StoreOK, NEW k \in Connections, Unspoilt(k)',
           Unspoilt(k) => ~sessions[k].ttl,
           \/ \E s \in Sockets : StationStep(s) \/ Publish(s)
           \/ \E j \in Connections : Lose(j)
           \/ Expiry \/ StationStops
           \/ UNCHANGED vars
    PROVE  /\ Unspoilt(k) /\ ~sessions'[k].ttl
           /\ sessions'[k].current = sessions[k].current
<1>1. Unspoilt(k)
  BY SpoiltStays DEF Lose, Expiry, vars, stationMemory, Station!SessionExpires,
                     Station!ProfileExpires, Station!process
<1>2. ~sessions[k].ttl
  BY <1>1
<1> DEFINE Same == ~sessions'[k].ttl /\ sessions'[k].current = sessions[k].current
<1>3. ASSUME UNCHANGED sessions
      PROVE  Same
  BY <1>2, <1>3
<1>4. ASSUME NEW s \in Sockets, Station!SetUp(s) \/ Station!Open(s) \/ Station!DropAborted(s)
      PROVE  Same
  <2>1. \/ sessions' = [sessions EXCEPT ![conn[s]].setUp = TRUE]
        \/ sessions' = [sessions EXCEPT ![conn[s]].ttl = FALSE]
    BY <1>4 DEF Station!SetUp, Station!Open, Station!DropAborted
  <2>2. CASE sessions' = [sessions EXCEPT ![conn[s]].setUp = TRUE]
    BY <1>2, <2>2 DEF Names!StoreOK
  <2>3. CASE sessions' = [sessions EXCEPT ![conn[s]].ttl = FALSE]
    BY <1>2, <2>3 DEF Names!StoreOK
  <2> QED
    BY <2>1, <2>2, <2>3
<1>5. ASSUME NEW s \in Sockets, Station!Delete(s)
      PROVE  Same
  <2>1. /\ task[Station!Upgrading(s)] = "delete"
        /\ task' = [task EXCEPT ![Station!Upgrading(s)] = "done"]
        /\ UNCHANGED <<stage, conn>>
        /\ sessions' = [sessions EXCEPT ![conn[s]] = Station!NoSession]
    BY <1>5 DEF Station!Delete, Station!Step
  <2>2. /\ stage'[s] = "refused"
        /\ task'[Station!Closing(s)] = "idle"
    BY <2>1, TasksAt
  <2>3. conn[s] # k
    BY <2>1, <2>2 DEF Unspoilt, Station!Closing
  <2> QED
    BY <1>2, <2>1, <2>3 DEF Names!StoreOK
<1>6. ASSUME NEW s \in Sockets, Station!CloseExpire(s)
      PROVE  Same
  <2>1. /\ task[Station!Closing(s)] = "expire"
        /\ conn' = conn
        /\ sessions' = [sessions EXCEPT ![conn[s]].ttl = Station!Present(sessions[conn[s]])]
    BY <1>6 DEF Station!CloseExpire, Station!ExpireSession, Station!Step
  <2>2. stage[s] = "closed"
    BY <2>1, TasksAt
  <2>3. conn[s] # k
    BY <1>1, <2>1, <2>2 DEF Unspoilt
  <2> QED
    BY <1>2, <2>1, <2>3 DEF Names!StoreOK
<1>7. ASSUME NEW j \in Connections, Station!SessionExpires(j)
      PROVE  Same
  <2>1. /\ sessions[j].ttl
        /\ sessions' = [sessions EXCEPT ![j] = Station!NoSession]
    BY <1>7 DEF Station!SessionExpires
  <2> QED
    BY <1>2, <2>1 DEF Names!StoreOK
<1>9. ASSUME NEW j \in Connections, task[Station!Draining(j)] = "expire",
             sessions' = [sessions EXCEPT ![j].ttl = Station!Present(sessions[j])]
      PROVE  Same
  <2>1. j # k
    BY <1>1, <1>9 DEF Unspoilt
  <2> QED
    BY <1>2, <1>9, <2>1 DEF Names!StoreOK
<1>8. \/ UNCHANGED sessions
      \/ \E j \in Connections :
            /\ task[Station!Draining(j)] = "expire"
            /\ sessions' = [sessions EXCEPT ![j].ttl = Station!Present(sessions[j])]
      \/ \E s \in Sockets : \/ Station!SetUp(s) \/ Station!Open(s)
                            \/ Station!DropAborted(s) \/ Station!Delete(s)
                            \/ Station!CloseExpire(s)
      \/ \E j \in Connections : Station!SessionExpires(j)
  BY StopWrites
     DEF StationStep, Publish, Lose, Expiry, vars, Station!Upgrade, Station!Abort,
         Station!Publish, Station!Close, Station!UpgradeSteps, Station!CloseSteps,
         Station!CloseReadCurrent, Station!CloseRemovePosition,
         Station!CloseKeepAlive, Station!ProfileExpires, Station!records
<1> QED
  BY <1>1, <1>3, <1>4, <1>5, <1>6, <1>7, <1>8, <1>9

-----------------------------------------------------------------------------
(* RecordingInv, in the names of the relay's proofs, step by step.           *)

RecordingNamed ==
    /\ Names!QueuesExact
    /\ ~up => players = Names!Unknown
    /\ \A k \in Connections :
        Unspoilt(k) => ~sessions[k].ttl /\ Names!RecordedFirst(k)

LEMMA InitRecording == Init => RecordingNamed
<1> SUFFICES ASSUME Init PROVE RecordingNamed
  OBVIOUS
<1>1. /\ \A c \in Names!Clients : pipe[c] = <<>> /\ replies[c] = <<>>
      /\ \A h \in Names!Handlers : pc[h] = "idle"
      /\ Names!Consumed = {} /\ players = Names!Unknown
  BY SameRelay DEF Init, Relay!Quiet, Relay!Clients, Names!Clients, Names!Consumed,
                   Relay!Unknown, Names!Unknown
<1>2. Names!QueuesExact
  <2>1. \A c \in Names!Clients : Names!Queue(c) = <<>>
    BY <1>1 DEF Names!Queue
  <2>2. \A c \in Names!Clients : Names!Slots(c) = {}
    BY <2>1 DEF Names!Slots
  <2> QED
    BY <1>1, <2>2 DEF Names!QueuesExact, Names!Asking
<1>3. \A k \in Connections : ~sessions[k].ttl
  BY DEF Init, Relay!NoSession
<1>4. ASSUME NEW k \in Connections
      PROVE  Names!RecordedFirst(k)
  <2>1. Names!Shown(k) = {}
    BY PlatformAssumption DEF Init, Names!Shown, Relay!NoProfile
  <2>2. players[k] = Nobody
    BY <1>1 DEF Names!Unknown
  <2> QED
    BY <1>1, <2>1, <2>2 DEF Names!RecordedFirst
<1> QED
  BY <1>1, <1>2, <1>3, <1>4 DEF RecordingNamed

\* The relay keeps it by itself: it gives no record a time to live.
LEMMA RelayRecording ==
    ASSUME Names!AuthorisedInv, Names!AuthorisedInv', RecordingNamed, WritersPending,
           \/ \E m \in Messages : Consume(m)
           \/ \E h \in Relay!Handlers : RelayStep(h)
           \/ RelayFault
    PROVE  RecordingNamed'
<1>1. /\ Names!TypeOK /\ Names!QueuesOK' /\ Names!HandlersConsumed
      /\ Names!NamesAssumption /\ Names!MessagesAssumption
  BY NamesAssumptions DEF Names!AuthorisedInv, Names!TypeOK
<1>2. /\ Names!QueuesExact'
      /\ \A k \in Connections : Names!RecordedFirst(k) => Names!RecordedFirst(k)'
  <2>1. ASSUME NEW m \in Messages, Consume(m)
        PROVE  <1>2
    <3>1. Names!Ignore(m) \/ Names!AskAllowed(m) \/ Names!Relay(m)
      BY <2>1, SameArrivals DEF Consume
    <3> QED
      BY <1>1, <3>1, Names!ArrivalQueues, Names!ArrivalRecords DEF RecordingNamed
  <2>2. ASSUME NEW h \in Relay!Handlers, RelayStep(h)
        PROVE  <1>2
    <3>1. h \in Names!Handlers
      BY SameRelay
    <3>2. CASE Names!ExecuteAny(h)
      BY <1>1, <3>1, <3>2, Names!ExecutionQueues, Names!ExecutionRecords
      DEF RecordingNamed
    <3>3. CASE Names!ResumeAny(h)
      BY <1>1, <3>1, <3>3, Names!ResumptionQueues, Names!ResumptionRecords
      DEF RecordingNamed
    <3> QED
      BY <2>2, <3>2, <3>3, SameExecutions, SameResumptions DEF RelayStep
  <2>3. CASE RelayFault
    <3>1. Names!Crash \/ Names!Restart
      BY <2>3, SameRelay DEF RelayFault
    <3>2. Names!Crash => UNCHANGED <<pc, pipe, replies>>
      BY DEF Names!Crash, Names!Die
    <3> QED
      BY <1>1, <3>1, <3>2, Names!FaultQueues, Names!FaultRecords DEF RecordingNamed
  <2> QED
    BY <2>1, <2>2, <2>3
<1>3. UNCHANGED stationMemory
  BY DEF Consume, RelayStep, RelayFault
<1>4. \A k \in Connections : Unspoilt(k)' => Unspoilt(k)
  BY <1>3 DEF stationMemory, Unspoilt
<1>5. \A k \in Connections : sessions'[k].ttl = sessions[k].ttl
  <2>1. ASSUME NEW h \in Names!Handlers, Names!ExecuteAny(h), pc[h] # "expire"
        PROVE  \A j \in Connections : sessions'[j].ttl = sessions[j].ttl
    <3>1. \/ \E k : sessions' = [sessions EXCEPT ![k].current = log[h].name]
          \/ \E k : sessions' = [sessions EXCEPT ![k].counted = TRUE]
          \/ sessions' = sessions
      BY <2>1, Names!ExecutionForms, <1>1 DEF Names!Execute
    <3>2. ASSUME NEW k, sessions' = [sessions EXCEPT ![k].current = log[h].name]
          PROVE  \A j \in Connections : sessions'[j].ttl = sessions[j].ttl
      BY <1>1, <3>2 DEF Names!TypeOK, Names!StoreOK
    <3>3. ASSUME NEW k, sessions' = [sessions EXCEPT ![k].counted = TRUE]
          PROVE  \A j \in Connections : sessions'[j].ttl = sessions[j].ttl
      BY <1>1, <3>3 DEF Names!TypeOK, Names!StoreOK
    <3> QED
      BY <3>1, <3>2, <3>3
  <2>2. \/ UNCHANGED sessions
        \/ \E h \in Relay!Handlers : Relay!ExecuteAny(h)
    BY DEF Consume, RelayStep, RelayFault, Relay!Ignore, Relay!AskAllowed,
           Relay!Relay, Relay!Arrive, Relay!ResumeAny, Relay!Refuse,
           Relay!Grant, Relay!Continue, Relay!Recheck, Relay!Complete,
           Relay!Resume, Relay!Crash, Relay!Restart, Relay!Die, Relay!store
  <2> QED
    BY <2>1, <2>2, SameExecutions, SameRelay DEF WritersPending
<1>6. ~up' => players' = Names!Unknown'
  <2>1. ASSUME NEW m \in Messages, Consume(m)
        PROVE  UNCHANGED <<up, players>>
    BY <2>1 DEF Consume, Relay!Ignore, Relay!AskAllowed, Relay!Relay, Relay!Arrive
  <2>2. ASSUME NEW h, Relay!ExecuteAny(h)
        PROVE  UNCHANGED <<up, players>>
    BY <2>2
    DEF Relay!ExecuteAny, Relay!Execute, Relay!ExecuteGetAllowed,
        Relay!ExecuteSetCurrent, Relay!ExecutePersistCurrent,
        Relay!ExecuteKeepAlive, Relay!ExecuteRemovePosition,
        Relay!ExecuteBroadcast, Relay!ExecuteIncrease, Relay!ExecuteExpire,
        Relay!ExecuteSetAttributes, Relay!ExecutePersistUser,
        Relay!ExecuteAddPoint
  <2>3. ASSUME NEW h, Relay!ResumeAny(h)
        PROVE  up /\ UNCHANGED up
    BY <2>3 DEF Relay!ResumeAny, Relay!Refuse, Relay!Grant, Relay!Continue,
                Relay!Recheck, Relay!Complete, Relay!Resume
  <2>4. CASE RelayFault
    BY <2>4 DEF RecordingNamed, RelayFault, Relay!Crash, Relay!Die,
                Relay!Restart, Relay!Unknown, Names!Unknown
  <2> QED
    BY <2>1, <2>2, <2>3, <2>4 DEF RecordingNamed, RelayStep, Names!Unknown
<1> QED
  BY <1>2, <1>4, <1>5, <1>6 DEF RecordingNamed

LEMMA StationRecording ==
    ASSUME Names!AuthorisedInv, RecordingNamed, Records!LiveInv,
           \/ \E s \in Sockets : StationStep(s) \/ Publish(s)
           \/ \E k \in Connections : Lose(k)
           \/ Expiry \/ StationStops
           \/ UNCHANGED vars
    PROVE  RecordingNamed'
<1>1. /\ UNCHANGED <<relayMemory, feed>> /\ Names!StoreOK
      /\ \A c \in Characters : /\ profiles'[c].by \in {profiles[c].by, Nobody}
                               /\ geo'[c] \in {geo[c], 0}
  BY StationWrites DEF Names!AuthorisedInv, Names!TypeOK
<1>2. UNCHANGED <<log, pc, seen, players, up, pipe, replies>>
  BY <1>1 DEF relayMemory
<1>3. Names!QueuesExact' /\ (~up' => players' = Names!Unknown')
  BY <1>2, Names!FaultQueues, NamesAssumptions DEF RecordingNamed, Names!Unknown
<1>4. ASSUME NEW k \in Connections, Unspoilt(k)'
      PROVE  ~sessions'[k].ttl /\ Names!RecordedFirst(k)'
  <2>1. /\ Unspoilt(k) /\ ~sessions'[k].ttl
        /\ sessions'[k].current = sessions[k].current
    BY <1>1, <1>4, UnspoiltStays DEF RecordingNamed
  <2>2. Names!RecordedFirst(k)
    BY <2>1 DEF RecordingNamed
  <2>3. Names!Shown(k)' \subseteq Names!Shown(k)
    BY <1>1, <1>2, PlatformAssumption DEF Names!Shown, Names!Conn
  <2>4. /\ Names!Recorded(k)' <=> Names!Recorded(k)
        /\ Names!Writes(k)' = Names!Writes(k) /\ Names!Consumed' = Names!Consumed
        /\ \A h : /\ Names!Conn(h)' = Names!Conn(h)
                  /\ Names!Label(h)' = Names!Label(h)
                  /\ Names!AheadOf(h)' <=> Names!AheadOf(h)
    BY <1>2, <2>1 DEF Names!Recorded, Names!Writes, Names!Sent, Names!Consumed,
                      Names!Conn, Names!Label, Names!Named, Names!AheadOf
  <2> QED
    BY <1>2, <2>1, <2>2, <2>3, <2>4 DEF Names!RecordedFirst
<1> QED
  BY <1>3, <1>4 DEF RecordingNamed

-----------------------------------------------------------------------------

\* The two instances say the same of the record.
LEMMA SameFirst ==
    /\ \A k : Relay!Shown(k) = Names!Shown(k)
    /\ \A k : Names!RecordedFirst(k) => Relay!RecordedFirst(k)
<1>1. \A k : Relay!Shown(k) = Names!Shown(k)
  BY DEF Relay!Shown, Names!Shown, Relay!Conn, Names!Conn
<1>2. /\ Relay!Consumed = Names!Consumed /\ Relay!PastWrite = Names!PastWrite
      /\ \A h : /\ Relay!Conn(h) = Names!Conn(h) /\ Relay!Label(h) = Names!Label(h)
                /\ Relay!Sent(h) = Names!Sent(h)
      /\ \A k : /\ Relay!Writes(k) = Names!Writes(k)
                /\ Relay!Recorded(k) <=> Names!Recorded(k)
  BY DEF Relay!Consumed, Names!Consumed, Relay!PastWrite, Names!PastWrite,
         Relay!Recording, Names!Recording, Relay!Conn, Names!Conn, Relay!Label,
         Names!Label, Relay!Named, Names!Named, Relay!Sent, Names!Sent,
         Relay!Writes, Names!Writes, Relay!Recorded, Names!Recorded
<1>3. \A h : Names!AheadOf(h) => Relay!AheadOf(h)
  BY <1>2, Zenon DEF Relay!AheadOf, Names!AheadOf
<1>4. \A k : Names!RecordedFirst(k) => Relay!RecordedFirst(k)
  BY <1>1, <1>2, <1>3, Zenon DEF Relay!RecordedFirst, Names!RecordedFirst
<1> QED
  BY <1>1, <1>4

LEMMA SameRecording == RecordingNamed => RecordingInv
<1>1. Names!QueuesExact => Relay!QueuesExact
  BY Zenon
  DEF Relay!QueuesExact, Names!QueuesExact, Relay!Queue, Names!Queue, Relay!Slots,
      Names!Slots, Relay!Clients, Names!Clients, Relay!Commands, Names!Commands,
      Relay!ConnectionCommands, Names!ConnectionCommands, Relay!UserCommands,
      Names!UserCommands, Relay!TrackerCommands, Names!TrackerCommands,
      Relay!Asking, Names!Asking, Relay!ClientOf, Names!ClientOf,
      Relay!Handlers, Names!Handlers
<1> QED
  BY <1>1, SameFirst DEF RecordingNamed, RecordingInv, Relay!Unknown, Names!Unknown

\* For any tokens, sockets and messages: until a socket of a connection is
\* dropped, or its close handler or a shutdown has read the record, the record
\* names a character when anything of the player is shown, and the right one if
\* the token has just one, so whoever asks it next takes the player off the map
\* (server.ts:66-73, 191-195, index.ts:107-108).
THEOREM PlayersShownAreRecorded == Spec => []ShownIsRecorded
<1>1. Names!AuthorisedInv /\ RecordingInv => ShownIsRecorded
  <2> SUFFICES ASSUME Names!AuthorisedInv, RecordingInv, NEW k \in Connections,
                      Unspoilt(k), Relay!Shown(k) # {}
               PROVE  /\ Relay!Recorded(k)
                      /\ \A c \in Characters : Allowed[k] = {c} =>
                            Relay!Shown(k) \subseteq {sessions[k].current}
    BY DEF ShownIsRecorded
  <2>1. Relay!Recorded(k)
    BY DEF RecordingInv, Relay!RecordedFirst
  <2>2. sessions[k].current \in Allowed[k]
    BY <2>1 DEF Names!AuthorisedInv, Names!StoreAuthorised, Relay!Recorded
  <2>3. Relay!Shown(k) \subseteq Allowed[k]
    BY SameFirst, PlatformAssumption
    DEF Names!AuthorisedInv, Names!StoreAuthorised, Names!Shown
  <2> QED
    BY <2>1, <2>2, <2>3
<1>2. Names!AuthorisedInv /\ Names!AuthorisedInv' /\ Records!LiveInv /\ PlatformInv
        /\ RecordingNamed /\ [Next]_vars => RecordingNamed'
  BY RelayRecording, StationRecording DEF Next, PlatformInv
<1>3. Spec => []Records!LiveInv
  <2>1. [Station!Next]_(Station!vars) => [Records!Next]_(Records!vars)
    BY SameNext, SameStutter
  <2>2. Station!Safety => Records!Safety
    BY <2>1, SameInit, PTL DEF Station!Safety, Records!Safety
  <2>3. Records!Safety => []Records!RecordInv
    BY Records!RecordInvHolds, RecordsAssumption
  <2>4. Records!RecordInv => Records!LiveInv
    BY DEF Records!RecordInv
  <2> QED
    BY <2>2, <2>3, <2>4, StationIsKept, PTL DEF StationKept
<1>4. Spec => []PlatformInv
  <2>1. PlatformInv /\ [Next]_vars => PlatformInv'
    BY StepEstablishes
  <2> QED
    BY <2>1, InitEstablishes, PTL DEF Spec
<1> QED
  BY <1>1, <1>2, <1>3, <1>4, SameRecording, InitRecording, NamesAuthorised, PTL
  DEF Spec
=============================================================================
