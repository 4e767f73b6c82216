------------------------------ MODULE Platform ------------------------------
(***************************************************************************)
(* The ground station and the tracking relay together, as they run: the    *)
(* station publishes what comes through its sockets to Kafka, the relay    *)
(* consumes it, and both write the records, profiles and positions in      *)
(* Redis, each without seeing what the other is about to do.               *)
(*                                                                         *)
(* Station and Relay are the modules of the two processes.  What Station   *)
(* leaves to a relay it knows little of, Relay does in detail: StationKept *)
(* says that this is all GroundStation assumed.  Redis may refuse what the *)
(* station asks; a relay that is refused anything dies, as it may anyway.  *)
(* CONNECTION_STORE_TTL is not configured.                                 *)
(***************************************************************************)
EXTENDS Naturals, Sequences

CONSTANTS
    Connections, Sockets, Characters,
    Allowed,        \* the characters in the token of each connection
    Messages,       \* what may come through a socket
    MaxMessages,    \* bound: messages consumed in a behaviour
    MaxInFlight,    \* bound: messages of a connection waiting in Kafka
    MaxFailures,    \* bound: commands of the station answered with an error
    Absent, Blank, Nobody

\* The station does not pass on an invalid message.  A position off the globe
\* ends the relay, as RelayFault may at any moment.
ASSUME PlatformAssumption ==
    /\ MaxInFlight \in Nat /\ MaxMessages \in Nat /\ MaxFailures \in Nat
    /\ Nobody \notin Characters \cup Connections \cup Sockets
    /\ Absent \notin Characters /\ Blank \notin Characters
    /\ Absent # Blank /\ Nobody \notin {Absent, Blank}
    /\ Allowed \in [Connections -> SUBSET Characters]
    /\ Messages \subseteq [conn : Connections,
                           name : Characters \cup {Absent, Blank},
                           kind : {"good", "unlisted"}]

VARIABLES
    status, stage, conn, aborted, served, task, current, failures,
    inFlight,   \* messages in Kafka, by connection
    log, pc, seen, players, up, pipe, replies,
    sessions, profiles, geo, feed

stationMemory == <<status, stage, conn, aborted, served, task, current, failures>>
relayMemory   == <<log, pc, seen, players, up, pipe, replies>>
vars == <<stationMemory, inFlight, relayMemory, sessions, profiles, geo, feed>>

Relay == INSTANCE TrackingRelay WITH ConnectionStoreTtl <- FALSE

\* A connection has messages under way while some are in Kafka, or have
\* handlers that may still write.
Handling(k) ==
    {h \in Relay!Consumed : Relay!Conn(h) = k /\ pc[h] \notin {"done", "lost"}}
Pending == {k \in Connections : inFlight[k] > 0 \/ Handling(k) # {}}

Station == INSTANCE GroundStation WITH
    pc <- task, None <- Nobody, Positions <- 1 .. MaxMessages,
    pending <- Pending

-----------------------------------------------------------------------------

StationStep(s) ==
    /\ UNCHANGED <<inFlight, relayMemory, feed>>
    /\ \/ \E k \in Connections : Station!Upgrade(s, k)
       \/ Station!Abort(s)
       \/ Station!UpgradeSteps(s)
       \/ Station!Close(s)
       \/ Station!CloseSteps(s)

\* SIGINT, the shutdown, and commands that Redis refuses.
StationStops ==
    /\ UNCHANGED <<inFlight, relayMemory, feed>>
    /\ \/ Station!Stop
       \/ \E k \in Connections : Station!DrainSteps(k)
       \/ Station!Exit \/ Station!StopAgain
       \/ Station!Failures

Publish(s) ==
    /\ stage[s] = "open" /\ inFlight[conn[s]] < MaxInFlight
    /\ inFlight' = [inFlight EXCEPT ![conn[s]] = @ + 1]
    /\ UNCHANGED <<relayMemory, feed>>
    /\ Station!Publish(s)

\* Kafka hands over a message; what it says is only chosen now.
Consume(m) ==
    /\ inFlight[m.conn] > 0
    /\ inFlight' = [inFlight EXCEPT ![m.conn] = @ - 1]
    /\ UNCHANGED stationMemory
    /\ Relay!Ignore(m) \/ Relay!AskAllowed(m) \/ Relay!Relay(m)

\* The broker loses a message it was sent.
Lose(k) ==
    /\ inFlight[k] > 0
    /\ inFlight' = [inFlight EXCEPT ![k] = @ - 1]
    /\ UNCHANGED <<stationMemory, relayMemory, sessions, profiles, geo, feed>>

RelayStep(h) ==
    /\ UNCHANGED <<stationMemory, inFlight>>
    /\ Relay!ExecuteAny(h) \/ Relay!ResumeAny(h)

RelayFault ==
    /\ UNCHANGED <<stationMemory, inFlight>>
    /\ Relay!Crash \/ Relay!Restart

Expiry ==
    /\ UNCHANGED <<inFlight, relayMemory, feed>>
    /\ \/ \E k \in Connections : Station!SessionExpires(k)
       \/ \E c \in Characters : Station!ProfileExpires(c)

\* No record and no profile yet.
Init ==
    /\ status = "running"
    /\ stage = [s \in Sockets |-> "new"]
    /\ conn = [s \in Sockets |-> Nobody]
    /\ aborted = [s \in Sockets |-> FALSE]
    /\ served = [k \in Connections |-> Nobody]
    /\ task = [t \in Station!Tasks |-> "idle"]
    /\ current = [t \in Station!Tasks |-> Nobody]
    /\ failures = 0
    /\ inFlight = [k \in Connections |-> 0]
    /\ log = <<>>
    /\ pc = [h \in Relay!Handlers |-> "idle"]
    /\ seen = [h \in Relay!Handlers |-> Nobody]
    /\ players = Relay!Unknown
    /\ up = TRUE
    /\ pipe = Relay!Quiet
    /\ replies = Relay!Quiet
    /\ sessions = [k \in Connections |-> Relay!NoSession]
    /\ profiles = [c \in Characters |-> Relay!NoProfile]
    /\ geo = [c \in Characters |-> 0]
    /\ feed = <<>>

Next ==
    \/ \E s \in Sockets : StationStep(s) \/ Publish(s)
    \/ StationStops
    \/ \E m \in Messages : Consume(m)
    \/ \E k \in Connections : Lose(k)
    \/ \E h \in Relay!Handlers : RelayStep(h)
    \/ RelayFault
    \/ Expiry

Spec == Init /\ [][Next]_vars

-----------------------------------------------------------------------------

\* The relay does no more to the records than GroundStation lets it, so that
\* what is shown of GroundStation is true with the relay at work.
StationKept == Station!Safety

\* Among it: whatever the relay writes, and whenever, the record of an open
\* socket is kept, that of a connection without a socket gets its time to
\* live, the map of connections holds open sockets, and what a shutdown
\* drained expires (server.ts:61-96, 108-202).
SessionsKept ==
    /\ Station!LiveSessionsKept
    /\ Station!AbandonedSessionsExpire
    /\ Station!ServedAreOpen
    /\ Station!DrainedSessionsExpire

\* Whatever happens to the records (they are set up, deleted after a retry,
\* expire, and are written again by handlers that come late), the feed and
\* the store only carry names that the token of the connection has.
PlatformAuthorised == Relay!FeedAuthorised /\ Relay!StoreAuthorised

\* What the relay showed of a player can be taken back.  Until a socket of a
\* connection is dropped, or its close handler or a shutdown has read the
\* record, no command deletes that record and nothing lets it expire; once
\* anything of a player is shown the record names a character, also if messages
\* are under way, a command failed or the relay died in between, and if the
\* token has one character it is that one.  The close handler and the shutdown
\* know of no other source (server.ts:66-73, 191-195, index.ts:107-108).
Unspoilt(k) ==
    /\ task[Station!Draining(k)] \in {"idle", "getCurrent"}
    /\ \A s \in Sockets : conn[s] = k =>
        \/ stage[s] \in {"new", "upgrading", "open"}
        \/ task[Station!Closing(s)] = "getCurrent"
ShownIsRecorded ==
    \A k \in Connections :
        Unspoilt(k) /\ Relay!Shown(k) # {} =>
            /\ Relay!Recorded(k)
            /\ \A c \in Characters :
                Allowed[k] = {c} => Relay!Shown(k) \subseteq {sessions[k].current}

-----------------------------------------------------------------------------
(* The inductive invariant behind StationKept: a handler that may write has  *)
(* consumed a message, which keeps its connection pending, and one that      *)
(* writes a character's name has found it in its message.                    *)

RecordsShaped ==
    /\ sessions = [k \in Connections |-> sessions[k]]
    /\ profiles = [c \in Characters |-> profiles[c]]
    /\ geo = [c \in Characters |-> geo[c]]

WritersPending ==
    /\ log \in Seq(Messages) /\ Len(log) <= MaxMessages
    /\ inFlight \in [Connections -> Nat]
    /\ pc \in [Relay!Handlers -> Relay!Commands \cup Relay!Outcomes]
    /\ \A h \in Relay!Handlers : pc[h] # "expire"
    /\ Relay!HandlersConsumed

PlatformInv == RecordsShaped /\ WritersPending

\* ... and the one behind ShownIsRecorded.
RecordingInv ==
    /\ Relay!QueuesExact
    /\ ~up => players = Relay!Unknown
    /\ \A k \in Connections :
        Unspoilt(k) => ~sessions[k].ttl /\ Relay!RecordedFirst(k)
=============================================================================
