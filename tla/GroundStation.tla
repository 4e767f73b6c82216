--------------------------- MODULE GroundStation ---------------------------
(***************************************************************************)
(* The ground station (apps/ground-station/src/server.ts and index.ts):    *)
(* one Node process accepts web sockets for connections named by a token,  *)
(* passes their messages on to Kafka, and keeps the record of each         *)
(* connection in Redis while its socket is open.                           *)
(*                                                                         *)
(* Sockets come and go while the handlers of earlier events wait for       *)
(* Redis, a token may be used for several sockets, and the process may be  *)
(* told to stop at any moment.  A task is one run of a handler: an upgrade *)
(* or a close of a socket, or the draining of a connection at shutdown.    *)
(* pc[t] is the Redis command task t waits for; a step of a task executes  *)
(* that command and runs the handler up to its next await.                 *)
(***************************************************************************)
EXTENDS Naturals, FiniteSets

CONSTANTS
    Connections,    \* connection ids: the jti of a token
    Sockets,        \* HTTP requests for a web socket, each used once
    Characters,     \* character names
    Positions,      \* what the map may show of a character
    MaxFailures,    \* bound: Redis commands answered with an error
    None            \* no socket, no connection, no character

ASSUME StationAssumption ==
    /\ Positions \subseteq Nat \ {0}
    /\ MaxFailures \in Nat
    /\ None \notin Connections \cup Sockets \cup Characters

Tasks == ({"upgrade", "close"} \X Sockets) \cup ({"drain"} \X Connections)
Upgrading(s) == <<"upgrade", s>>
Closing(s) == <<"close", s>>
Draining(k) == <<"drain", k>>

VARIABLES
    status,     \* "running", "stopping" after SIGINT, "exited" or "crashed"
    stage,      \* where each socket is: new, upgrading, open, closed, refused
    conn,       \* the connection of each socket, from its token
    aborted,    \* whether the client gave up before the upgrade
    served,     \* the map connectionsServed
    pc,         \* what each task waits for
    current,    \* the character each task read from its connection's record
    failures,   \* Redis commands that failed so far
    sessions,   \* the hashes connections:<connection id>
    profiles,   \* the hashes users:<character>
    geo,        \* the sorted set tracking:positions; 0 is no position
    pending     \* the connections with messages under way to the records

process == <<status, stage, conn, aborted, served, pc, current>>
records == <<sessions, profiles, geo>>
vars    == <<process, failures, records, pending>>

-----------------------------------------------------------------------------

Alive == status \in {"running", "stopping"}
Connection(t) == IF t[1] = "drain" THEN t[2] ELSE conn[t[2]]

SocketsOf(k, stages) == {s \in Sockets : conn[s] = k /\ stage[s] \in stages}

NoSession == [setUp |-> FALSE, current |-> None, counted |-> FALSE, ttl |-> FALSE]
NoProfile == [by |-> None, ttl |-> FALSE]
Present(session) ==
    session.setUp \/ session.current # None \/ session.counted

\* A step of task t: from the command it waits for to the next.
Step(t, from, to) ==
    /\ Alive
    /\ pc[t] = from
    /\ pc' = [pc EXCEPT ![t] = to]

\* The commands several handlers share.
ReadCurrent(t) ==
    current' = [current EXCEPT ![t] = sessions[Connection(t)].current]
RemovePosition(t) ==
    geo' = [c \in Characters |-> IF c = current[t] THEN 0 ELSE geo[c]]
KeepProfile(t) ==
    profiles' = [c \in Characters |->
                   IF c = current[t] /\ profiles[c] # NoProfile
                   THEN [profiles[c] EXCEPT !.ttl = TRUE] ELSE profiles[c]]
ExpireSession(k) ==
    sessions' = [sessions EXCEPT ![k].ttl = Present(sessions[k])]

-----------------------------------------------------------------------------
(* upgrade and open *)

\* A token that is not valid, or has expired, is answered 401.
Upgrade(s, k) ==
    /\ status = "running"
    /\ stage[s] = "new"
    /\ stage' = [stage EXCEPT ![s] = "upgrading"]
    /\ conn' = [conn EXCEPT ![s] = k]
    /\ pc' = [pc EXCEPT ![Upgrading(s)] = "setup"]
    /\ UNCHANGED <<status, aborted, served, current, failures, records, pending>>

Abort(s) ==
    /\ Alive
    /\ stage[s] = "upgrading" /\ ~aborted[s]
    /\ aborted' = [aborted EXCEPT ![s] = TRUE]
    /\ UNCHANGED <<status, stage, conn, served, pc, current, failures, records,
                   pending>>

\* HSET leaves the other fields, and a time to live, of an earlier record.
SetUp(s) ==
    /\ Step(Upgrading(s), "setup", "persist")
    /\ sessions' = [sessions EXCEPT ![conn[s]].setUp = TRUE]
    /\ UNCHANGED <<status, stage, conn, aborted, served, current, failures,
                   profiles, geo, pending>>

\* MUTANT: the socket is not remembered for the shutdown.
OpenUnserved(s) ==
    /\ ~aborted[s]
    /\ Step(Upgrading(s), "persist", "done")
    /\ sessions' = [sessions EXCEPT ![conn[s]].ttl = FALSE]
    /\ stage' = [stage EXCEPT ![s] = "open"]
    /\ UNCHANGED <<status, conn, aborted, served, current, failures, profiles,
                   geo, pending>>

\* MUTANT: the map is given the connection for the socket.
OpenByName(s) ==
    /\ ~aborted[s]
    /\ Step(Upgrading(s), "persist", "done")
    /\ sessions' = [sessions EXCEPT ![conn[s]].ttl = FALSE]
    /\ stage' = [stage EXCEPT ![s] = "open"]
    /\ served' = [served EXCEPT ![conn[s]] = conn[s]]
    /\ UNCHANGED <<status, conn, aborted, current, failures, profiles, geo, pending>>

Open(s) ==
    /\ ~aborted[s]
    /\ Step(Upgrading(s), "persist", "done")
    /\ sessions' = [sessions EXCEPT ![conn[s]].ttl = FALSE]
    /\ stage' = [stage EXCEPT ![s] = "open"]
    /\ served' = [served EXCEPT ![conn[s]] = s]
    /\ UNCHANGED <<status, conn, aborted, current, failures, profiles, geo, pending>>

DropAborted(s) ==
    /\ aborted[s]
    /\ Step(Upgrading(s), "persist", "delete")
    /\ sessions' = [sessions EXCEPT ![conn[s]].ttl = FALSE]
    /\ stage' = [stage EXCEPT ![s] = "refused"]
    /\ UNCHANGED <<status, conn, aborted, served, current, failures, profiles,
                   geo, pending>>

Delete(s) ==
    /\ Step(Upgrading(s), "delete", "done")
    /\ sessions' = [sessions EXCEPT ![conn[s]] = NoSession]
    /\ UNCHANGED <<status, stage, conn, aborted, served, current, failures,
                   profiles, geo, pending>>

-----------------------------------------------------------------------------
(* message and close *)

Publish(s) ==
    /\ Alive
    /\ stage[s] = "open"
    /\ pending' = pending \cup {conn[s]}
    /\ UNCHANGED <<process, failures, records>>

\* The client leaves, too much is buffered, or the producer refuses a message.
Close(s) ==
    /\ Alive
    /\ stage[s] = "open"
    /\ stage' = [stage EXCEPT ![s] = "closed"]
    /\ pc' = [pc EXCEPT ![Closing(s)] = "getCurrent"]
    /\ UNCHANGED <<status, conn, aborted, served, current, failures, records,
                   pending>>

\* MUTANT: without a character there is nothing to do.
CloseReadCurrentOnly(s) ==
    /\ Step(Closing(s), "getCurrent",
            IF sessions[conn[s]].current = None THEN "done" ELSE "removePosition")
    /\ ReadCurrent(Closing(s))
    /\ UNCHANGED <<status, stage, conn, aborted, served, failures, records, pending>>

CloseReadCurrent(s) ==
    /\ Step(Closing(s), "getCurrent",
            IF sessions[conn[s]].current = None THEN "expire" ELSE "removePosition")
    /\ ReadCurrent(Closing(s))
    /\ UNCHANGED <<status, stage, conn, aborted, served, failures, records, pending>>

\* MUTANT: the profile of the player who left is kept.
CloseRemovePositionOnly(s) ==
    /\ Step(Closing(s), "removePosition", "expire")
    /\ RemovePosition(Closing(s))
    /\ UNCHANGED <<status, stage, conn, aborted, served, current, failures,
                   sessions, profiles, pending>>

CloseRemovePosition(s) ==
    /\ Step(Closing(s), "removePosition", "keepAlive")
    /\ RemovePosition(Closing(s))
    /\ UNCHANGED <<status, stage, conn, aborted, served, current, failures,
                   sessions, profiles, pending>>

\* MUTANT: only the profile gets a time to live.
CloseKeepAliveOnly(s) ==
    /\ Step(Closing(s), "keepAlive", "done")
    /\ KeepProfile(Closing(s))
    /\ UNCHANGED <<status, stage, conn, aborted, served, current, failures,
                   sessions, geo, pending>>

CloseKeepAlive(s) ==
    /\ Step(Closing(s), "keepAlive", "expire")
    /\ KeepProfile(Closing(s))
    /\ UNCHANGED <<status, stage, conn, aborted, served, current, failures,
                   sessions, geo, pending>>

\* MUTANT: the entry stays.
CloseExpireServed(s) ==
    /\ Step(Closing(s), "expire", "done")
    /\ ExpireSession(conn[s])
    /\ UNCHANGED <<status, stage, conn, aborted, served, current, failures,
                   profiles, geo, pending>>

\* The entry goes whichever socket it holds.
CloseExpire(s) ==
    /\ Step(Closing(s), "expire", "done")
    /\ ExpireSession(conn[s])
    /\ served' = [served EXCEPT ![conn[s]] = None]
    /\ UNCHANGED <<status, stage, conn, aborted, current, failures, profiles,
                   geo, pending>>

-----------------------------------------------------------------------------
(* shutdown *)

\* Closing a socket that has closed already throws: its task fails at once.
Stop ==
    LET open(k) == served[k] # None /\ stage[served[k]] = "open"
        gone(k) == served[k] # None /\ stage[served[k]] # "open"
        closing == {served[k] : k \in {k \in Connections : open(k)}}
    IN
    /\ status = "running"
    /\ status' = "stopping"
    /\ stage' = [s \in Sockets |-> IF s \in closing THEN "closed" ELSE stage[s]]
    /\ pc' = [t \in Tasks |->
                IF \/ t[1] = "close" /\ t[2] \in closing
                   \/ t[1] = "drain" /\ open(t[2])
                THEN "getCurrent"
                ELSE IF t[1] = "drain" /\ gone(t[2]) THEN "failed" ELSE pc[t]]
    /\ UNCHANGED <<conn, aborted, served, current, failures, records, pending>>

DrainReadCurrent(k) ==
    /\ Step(Draining(k), "getCurrent", "expire")
    /\ ReadCurrent(Draining(k))
    /\ UNCHANGED <<status, stage, conn, aborted, served, failures, records, pending>>

\* MUTANT: the record's time to live is left to the close handler.
DrainForget(k) ==
    LET t == Draining(k) IN
    /\ Step(t, "expire", IF current[t] = None THEN "done" ELSE "both")
    /\ served' = IF current[t] = None THEN [served EXCEPT ![k] = None] ELSE served
    /\ UNCHANGED <<status, stage, conn, aborted, current, failures, records, pending>>

DrainExpire(k) ==
    LET t == Draining(k) IN
    /\ Step(t, "expire", IF current[t] = None THEN "done" ELSE "both")
    /\ ExpireSession(k)
    /\ served' = IF current[t] = None THEN [served EXCEPT ![k] = None] ELSE served
    /\ UNCHANGED <<status, stage, conn, aborted, current, failures, profiles,
                   geo, pending>>

\* Both commands are sent at once: the second to be answered ends the task.
DrainRemovePosition(k) ==
    /\ \/ Step(Draining(k), "both", "keepAlive") /\ UNCHANGED served
       \/ /\ Step(Draining(k), "removePosition", "done")
          /\ served' = [served EXCEPT ![k] = None]
    /\ RemovePosition(Draining(k))
    /\ UNCHANGED <<status, stage, conn, aborted, current, failures, sessions,
                   profiles, pending>>

DrainKeepAlive(k) ==
    /\ \/ Step(Draining(k), "both", "removePosition") /\ UNCHANGED served
       \/ /\ Step(Draining(k), "keepAlive", "done")
          /\ served' = [served EXCEPT ![k] = None]
    /\ KeepProfile(Draining(k))
    /\ UNCHANGED <<status, stage, conn, aborted, current, failures, sessions,
                   geo, pending>>

\* The first task to fail ends the wait for the others.
Exit ==
    /\ status = "stopping"
    /\ \/ \A k \in Connections : pc[Draining(k)] \in {"idle", "done"}
       \/ \E k \in Connections : pc[Draining(k)] = "failed"
    /\ status' = "exited"
    /\ UNCHANGED <<stage, conn, aborted, served, pc, current, failures, records,
                   pending>>

\* A second SIGINT closes the sockets of all entries that are left again: if one
\* has closed that throws, and with none left there is nothing to wait for.
\* Either way the process exits in the middle of the first drain.
StopAgain ==
    LET gone(k) == served[k] # None /\ stage[served[k]] # "open" IN
    /\ status = "stopping"
    /\ \/ \E k \in Connections : gone(k)
       \/ \A k \in Connections : served[k] = None
    /\ status' = "exited"
    /\ pc' = [t \in Tasks |->
                IF t[1] = "drain" /\ gone(t[2]) THEN "failed" ELSE pc[t]]
    /\ UNCHANGED <<stage, conn, aborted, served, current, failures, records, pending>>

-----------------------------------------------------------------------------
(* Redis answers a command with an error. *)

Waiting(t) == pc[t] \notin {"idle", "done", "failed"}

\* A failed upgrade is answered 500, unless nobody is there to answer: that
\* throws, as a failed deletion does, where nothing catches it.
FailUpgrade(s) ==
    LET t == Upgrading(s)
        fatal == aborted[s] \/ pc[t] = "delete"
    IN
    /\ Alive
    /\ Waiting(t) /\ failures < MaxFailures
    /\ failures' = failures + 1
    /\ pc' = [pc EXCEPT ![t] = IF pc[t] = "delete" THEN "failed" ELSE "delete"]
    /\ stage' = [stage EXCEPT ![s] = "refused"]
    /\ status' = IF fatal THEN "crashed" ELSE status
    /\ UNCHANGED <<conn, aborted, served, current, records, pending>>

\* A failed close, or drain, is logged, and the rest of it is not done.
FailTask(t) ==
    /\ Alive
    /\ Waiting(t) /\ failures < MaxFailures
    /\ failures' = failures + 1
    /\ pc' = [pc EXCEPT ![t] = "failed"]
    /\ UNCHANGED <<status, stage, conn, aborted, served, current, records, pending>>

-----------------------------------------------------------------------------
(* The tracking relay as the records see it, and Redis' clock: while messages *)
(* of a connection are in Kafka or being handled, the relay may write to its  *)
(* record, and to the profiles and positions of characters, one command at a  *)
(* time.  Platform shows that the relay of TrackingRelay does no more.        *)

RelayWritesSession(k) ==
    /\ k \in pending
    /\ \/ \E c \in Characters : sessions' = [sessions EXCEPT ![k].current = c]
       \/ sessions' = [sessions EXCEPT ![k].counted = TRUE]
    /\ UNCHANGED <<process, failures, profiles, geo, pending>>

RelayWritesProfile(c) ==
    /\ \/ \E k \in pending : profiles' = [profiles EXCEPT ![c].by = k]
       \/ /\ pending # {} /\ profiles[c] # NoProfile
          /\ \E ttl \in BOOLEAN : profiles' = [profiles EXCEPT ![c].ttl = ttl]
    /\ UNCHANGED <<process, failures, sessions, geo, pending>>

RelayWritesPosition(c) ==
    /\ pending # {}
    /\ \E n \in Positions \cup {0} : geo' = [geo EXCEPT ![c] = n]
    /\ UNCHANGED <<process, failures, sessions, profiles, pending>>

\* Messages are handled, refused, or lost.
RelaySettles ==
    /\ pending' \in SUBSET pending
    /\ UNCHANGED <<process, failures, records>>

\* An hour is longer than a message waits in Kafka, and than the ten seconds a
\* token is valid (authenticationService.ts:18), so no upgrade is under way.
SessionExpires(k) ==
    /\ sessions[k].ttl
    /\ k \notin pending /\ SocketsOf(k, {"upgrading"}) = {}
    /\ sessions' = [sessions EXCEPT ![k] = NoSession]
    /\ UNCHANGED <<process, failures, profiles, geo, pending>>

ProfileExpires(c) ==
    /\ profiles[c].ttl
    /\ profiles' = [profiles EXCEPT ![c] = NoProfile]
    /\ UNCHANGED <<process, failures, sessions, geo, pending>>

-----------------------------------------------------------------------------

Init ==
    /\ status = "running"
    /\ stage = [s \in Sockets |-> "new"]
    /\ conn = [s \in Sockets |-> None]
    /\ aborted = [s \in Sockets |-> FALSE]
    /\ served = [k \in Connections |-> None]
    /\ pc = [t \in Tasks |-> "idle"]
    /\ current = [t \in Tasks |-> None]
    /\ failures = 0
    /\ sessions = [k \in Connections |-> NoSession]
    /\ profiles = [c \in Characters |-> NoProfile]
    /\ geo = [c \in Characters |-> 0]
    /\ pending = {}

UpgradeSteps(s) == SetUp(s) \/ Open(s) \/ DropAborted(s) \/ Delete(s)
CloseSteps(s) ==
    \/ CloseReadCurrent(s)
    \/ CloseRemovePosition(s)
    \/ CloseKeepAlive(s)
    \/ CloseExpire(s)
DrainSteps(k) ==
    \/ DrainReadCurrent(k)
    \/ DrainExpire(k)
    \/ DrainRemovePosition(k)
    \/ DrainKeepAlive(k)
Failures ==
    \/ \E s \in Sockets : FailUpgrade(s) \/ FailTask(Closing(s))
    \/ \E k \in Connections : FailTask(Draining(k))
Environment ==
    \/ \E k \in Connections : RelayWritesSession(k) \/ SessionExpires(k)
    \/ \E c \in Characters : \/ RelayWritesProfile(c) \/ RelayWritesPosition(c)
                             \/ ProfileExpires(c)
    \/ RelaySettles

Next ==
    \/ \E s \in Sockets, k \in Connections : Upgrade(s, k)
    \/ \E s \in Sockets : \/ Abort(s) \/ Publish(s) \/ Close(s)
                          \/ UpgradeSteps(s) \/ CloseSteps(s)
    \/ Stop
    \/ \E k \in Connections : DrainSteps(k)
    \/ Exit \/ StopAgain
    \/ Failures
    \/ Environment

\* Redis answers and Node resumes; clients and messages come as they please.
Fairness ==
    /\ \A s \in Sockets : WF_vars(UpgradeSteps(s)) /\ WF_vars(CloseSteps(s))
    /\ \A k \in Connections : WF_vars(DrainSteps(k))
    /\ WF_vars(Exit)

Safety == Init /\ [][Next]_vars
Spec == Safety /\ Fairness

-----------------------------------------------------------------------------
(* Types. *)

Statuses == {"running", "stopping", "exited", "crashed"}
Stages == {"new", "upgrading", "open", "closed", "refused"}
Session == [setUp : BOOLEAN, current : Characters \cup {None},
            counted : BOOLEAN, ttl : BOOLEAN]
Points == {"idle", "setup", "persist", "delete", "getCurrent", "removePosition",
           "keepAlive", "expire", "both", "done", "failed"}

ProcessOK ==
    /\ status \in Statuses
    /\ stage \in [Sockets -> Stages]
    /\ conn \in [Sockets -> Connections \cup {None}]
    /\ aborted \in [Sockets -> BOOLEAN]
    /\ served \in [Connections -> Sockets \cup {None}]
    /\ pc \in [Tasks -> Points]
    /\ current \in [Tasks -> Characters \cup {None}]
    /\ failures \in 0 .. MaxFailures

RecordsOK ==
    /\ sessions \in [Connections -> Session]
    /\ profiles \in [Characters -> [by : Connections \cup {None}, ttl : BOOLEAN]]
    /\ geo \in [Characters -> Positions \cup {0}]

\* Every variable has the values the code can give it.
TypeOK == ProcessOK /\ RecordsOK /\ pending \subseteq Connections

-----------------------------------------------------------------------------
(* Safety. *)

OpenSockets(k) == SocketsOf(k, {"open"})
Settled(k) ==
    /\ status = "running"
    /\ \A s \in SocketsOf(k, Stages) :
        pc[Upgrading(s)] \in {"idle", "done"} /\ pc[Closing(s)] \in {"idle", "done"}

\* While a socket is open its connection can be found for a shutdown and its
\* record stays set up and does not expire, whatever happens to the sockets of
\* other connections: only another socket of the same token can spoil it.
LiveSessionsKept ==
    status = "running" =>
        \A s \in Sockets :
            (/\ stage[s] = "open"
             /\ SocketsOf(conn[s], {"closed", "refused"}) = {}) =>
                /\ sessions[conn[s]].setUp /\ ~sessions[conn[s]].ttl
                /\ served[conn[s]] \in OpenSockets(conn[s])

\* When the handlers of its sockets are done, the record a connection was set
\* up with has a time to live once it has no socket, although the relay goes on
\* writing to it, a retry may have removed its time to live or be undone, and
\* the handlers of other connections may be under way or have failed
\* (server.ts:108-129, 187-206).
AbandonedSessionsExpire ==
    \A k \in Connections :
        Settled(k) /\ sessions[k].setUp /\ OpenSockets(k) = {} => sessions[k].ttl

\* When the handlers of its sockets are done, the entry of a connection in the
\* map is an open socket, also when the sockets of one token overlapped: a
\* shutdown does not throw at it, whatever failed elsewhere.
ServedAreOpen ==
    \A k \in Connections :
        Settled(k) /\ served[k] # None => served[k] \in OpenSockets(k)

\* A connection that was drained expires if its token served once, although its
\* close handler may be cut off, the relay goes on writing, and the shutdown
\* may fail for other connections or be interrupted.
DrainedSessionsExpire ==
    \A k \in Connections :
        (/\ pc[Draining(k)] = "done" /\ Present(sessions[k])
         /\ \A r, s \in SocketsOf(k, Stages) : r = s) =>
            sessions[k].ttl

\* The close handler of a socket of k met a refused command.
CloseFailed(k) == \E s \in SocketsOf(k, Stages) : pc[Closing(s)] = "failed"

\* The record of a connection that no socket uses gets its time to live, or
\* goes, unless the process stops or a close handler of its own fails; a
\* failed upgrade undoes what it wrote (server.ts:124-130, 187-206).
AbandonedSessionsEventuallyExpire ==
    \A k \in Connections :
        (sessions[k].setUp /\ SocketsOf(k, {"upgrading", "open"}) = {}) ~>
            \/ ~sessions[k].setUp \/ sessions[k].ttl
            \/ SocketsOf(k, {"upgrading", "open"}) # {}
            \/ ~Alive
            \/ CloseFailed(k)

\* A player leaves the map: when the only socket of a connection closes, the
\* character its record names loses its position and its profile gets a time
\* to live, unless other messages are under way, the process stops or the
\* handler fails (server.ts:187-196).
PlayersLeave ==
    \A s \in Sockets, c \in Characters :
        (pc[Closing(s)] = "getCurrent" /\ sessions[conn[s]].current = c) ~>
            \/ geo[c] = 0 /\ (profiles[c] # NoProfile => profiles[c].ttl)
            \/ pending # {} \/ SocketsOf(conn[s], Stages) # {s}
            \/ ~Alive
            \/ pc[Closing(s)] = "failed"

-----------------------------------------------------------------------------
(* Inductive invariants.  Behind LiveSessionsKept: handlers run for sockets  *)
(* in the stage that started them, so the record of a connection none of     *)
(* whose sockets closed or failed is set up, kept, and served.               *)

TasksPlaced ==
    /\ \A s \in Sockets :
        /\ pc[Upgrading(s)] \in {"idle", "setup", "persist", "delete", "done",
                                 "failed"}
        /\ pc[Upgrading(s)] \in {"setup", "persist"} => stage[s] = "upgrading"
        /\ pc[Upgrading(s)] = "delete" => stage[s] = "refused"
        /\ pc[Closing(s)] # "idle" => stage[s] = "closed"
        /\ stage[s] # "new" => conn[s] \in Connections
    /\ status = "running" => \A k \in Connections : pc[Draining(k)] = "idle"

Untroubled(k) == SocketsOf(k, {"closed", "refused"}) = {}

Kept(k) ==
    /\ ~sessions[k].ttl
    /\ \A s \in Sockets :
        conn[s] = k /\ pc[Upgrading(s)] = "persist" => sessions[k].setUp
    /\ OpenSockets(k) # {} =>
        sessions[k].setUp /\ served[k] \in OpenSockets(k)

UntroubledKept ==
    status = "running" => \A k \in Connections : Untroubled(k) => Kept(k)

LiveInv == TypeOK /\ TasksPlaced /\ UntroubledKept

Unfinished(t) == pc[t] \notin {"idle", "done"}

\* ... behind ServedAreOpen: an entry of the map names a socket of its
\* connection that is open, or whose close handler has yet to remove it;
ServedPlaced ==
    status = "running" =>
        \A k \in Connections : served[k] # None =>
            /\ served[k] \in SocketsOf(k, {"open", "closed"})
            /\ stage[served[k]] = "closed" => Unfinished(Closing(served[k]))

\* ... behind AbandonedSessionsExpire: while a record that was set up does not
\* expire, some socket of its connection is open or has a handler to finish;
Holding(s) ==
    \/ stage[s] = "open"
    \/ stage[s] = "closed" /\ Unfinished(Closing(s))
    \/ stage[s] \in {"upgrading", "refused"} /\ Unfinished(Upgrading(s))
RecordsHeld ==
    status = "running" =>
        \A k \in Connections :
            sessions[k].setUp /\ ~sessions[k].ttl =>
                \E s \in SocketsOf(k, Stages) : Holding(s)

\* ... and behind DrainedSessionsExpire: a connection that is drained and had
\* one socket has its record, or lost it for good.
Once(k) == \A r, s \in SocketsOf(k, Stages) : r = s
DrainedKept ==
    \A k \in Connections :
        pc[Draining(k)] \notin {"idle", "failed"} /\ Once(k) =>
            /\ SocketsOf(k, {"closed"}) # {}
            /\ \/ sessions[k].setUp
               \/ sessions[k] = NoSession /\ k \notin pending
            /\ pc[Draining(k)] \notin {"getCurrent", "expire"} =>
                   (Present(sessions[k]) => sessions[k].ttl)

RecordInv == LiveInv /\ ServedPlaced /\ RecordsHeld /\ DrainedKept

-----------------------------------------------------------------------------
(* What the code's documents say of it, and the code does not do. *)

\* The store holds the state of the connections (README.md:86): when all is
\* handled, an open socket has its record.
OpenSocketsHaveRecords ==
    \A s \in Sockets :
        stage[s] = "open" /\ Settled(conn[s]) => sessions[conn[s]].setUp

\* Shutting down disposes of all the connections in the store (server.ts:77).
ShutdownDisposesOfAll ==
    (status = "exited" /\ failures = 0) =>
        \A k \in Connections : sessions[k].setUp => sessions[k].ttl
=============================================================================
