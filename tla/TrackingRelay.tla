--------------------------- MODULE TrackingRelay ---------------------------
(***************************************************************************)
(* The tracking relay (apps/tracking-relay/src/index.ts): one Node process *)
(* consumes player positions from Kafka, checks that the connection a      *)
(* position came through may speak for the character it names, publishes   *)
(* it on the feed of its grid room and records it in Redis.                *)
(*                                                                         *)
(* The Kafka adapter calls the message handler and does not wait for it,   *)
(* so handlers interleave at every `await'.  Each await is a command sent  *)
(* to Redis on one of four connections (clients).  A client is a pair of   *)
(* FIFO queues: pipe[c], the commands Redis has yet to execute, and        *)
(* replies[c], the replies the handlers have yet to see.  A handler has at *)
(* most one command outstanding, so the queues hold handlers and pc[h]     *)
(* names the command.                                                      *)
(***************************************************************************)
EXTENDS Naturals, Sequences

CONSTANTS
    Connections,        \* connection ids: the jti of a broadcasting token
    Characters,         \* character names
    Allowed,            \* the characters each connection was set up with
    Messages,           \* the messages that may arrive
    MaxMessages,        \* bound: messages consumed in a behaviour
    ConnectionStoreTtl, \* whether CONNECTION_STORE_TTL is configured
    Absent,             \* a message without a character name (undefined)
    Blank,              \* a message whose character name is ""
    Nobody              \* no character; String(null) when used as a label

ASSUME NamesAssumption ==
    /\ Absent \notin Characters
    /\ Blank \notin Characters
    /\ Nobody \notin Characters \cup Connections
    /\ Absent # Blank
    /\ Nobody \notin {Absent, Blank}

\* "good"     satisfies both the protobuf and the feed's schema
\* "unlisted" fails the feed's schema (say an unknown flag), on the globe
\* "offMap"   fails the feed's schema and is off the globe GEOADD accepts
\* "invalid"  fails protobuf validation or carries no key
Kinds == {"good", "unlisted", "offMap", "invalid"}

ASSUME MessagesAssumption ==
    /\ MaxMessages \in Nat
    /\ Allowed \in [Connections -> SUBSET Characters]
    /\ ConnectionStoreTtl \in BOOLEAN
    /\ Messages \subseteq [conn : Connections,
                           name : Characters \cup {Absent, Blank},
                           kind : Kinds]

\* The handler of the h-th message consumed is h.
Handlers == 1 .. MaxMessages

Clients == {"connection", "user", "tracker", "publisher"}

\* The commands a handler waits for, in the order it sends them.
ConnectionCommands ==
    {"getAllowed", "setCurrent", "persistCurrent", "increase", "expire"}
UserCommands == {"keepAlive", "setAttributes", "persistUser"}
TrackerCommands == {"removePosition", "addPoint"}
Commands == ConnectionCommands \cup UserCommands \cup TrackerCommands
                \cup {"broadcast"}

ClientOf(command) ==
    IF command \in UserCommands THEN "user"
    ELSE IF command \in TrackerCommands THEN "tracker"
    ELSE IF command = "broadcast" THEN "publisher" ELSE "connection"

VARIABLES
    log,       \* the messages consumed so far
    pc,        \* what each handler waits for
    seen,      \* the character each handler read from the map (playerName)
    players,   \* the in-memory map playerConnections
    up,        \* whether the process runs
    pipe,      \* commands sent on each client and not executed
    replies,   \* replies of each client not seen by their handler
    sessions,  \* the hashes connections:<connection id>
    profiles,  \* the hashes users:<character>
    geo,       \* the sorted set tracking:positions
    feed       \* messages published, in order

memory == <<log, pc, seen, players, up>>
queues == <<pipe, replies>>
store  == <<sessions, profiles, geo, feed>>
vars   == <<memory, queues, store>>

-----------------------------------------------------------------------------
(* What the rest of the module is said with. *)

Conn(h) == log[h].conn
Named(m) == m.name \in Characters

\* characterName || playerName
Label(h) == IF Named(log[h]) THEN log[h].name ELSE seen[h]

\* A handler that found another name in the map than its message announces.
Switching(h) == Named(log[h]) /\ seen[h] # log[h].name

Unknown == [c \in Connections |-> Nobody]
Quiet   == [c \in Clients |-> <<>>]
NoSession == [setUp |-> FALSE, current |-> Nobody,
              counted |-> FALSE, ttl |-> FALSE]
Fresh     == [setUp |-> TRUE, current |-> Nobody,
              counted |-> FALSE, ttl |-> FALSE]
NoProfile == [by |-> Nobody, ttl |-> FALSE]

Present(session) ==
    session.setUp \/ session.current # Nobody \/ session.counted

\* The field allowed_characters, which the ground station sets up.
AllowedCharacters(k) == IF sessions[k].setUp THEN Allowed[k] ELSE {}

Send(h, command) ==
    /\ pc' = [pc EXCEPT ![h] = command]
    /\ pipe' = [pipe EXCEPT ![ClientOf(command)] = Append(@, h)]

\* Redis takes the next command of a client, which is handler h's, ...
Execute(h, command) ==
    LET c == ClientOf(command) IN
    /\ pc[h] = command
    /\ pipe[c] # <<>> /\ Head(pipe[c]) = h
    /\ pipe' = [pipe EXCEPT ![c] = Tail(@)]
    /\ replies' = [replies EXCEPT ![c] = Append(@, h)]
    /\ UNCHANGED <<log, seen, players, up>>

\* ... and h resumes when the reply comes to the head of the client.
Resume(h, command) ==
    LET c == ClientOf(command) IN
    /\ up
    /\ pc[h] = command
    /\ replies[c] # <<>> /\ Head(replies[c]) = h
    /\ replies' = [replies EXCEPT ![c] = Tail(@)]
    /\ UNCHANGED <<log, seen, store>>

\* A publication that the feed's schema refuses sends nothing.
Publication(m) == IF m.kind = "good" THEN "broadcast" ELSE "increase"

Finish(h) == pc' = [pc EXCEPT ![h] = "done"] /\ UNCHANGED pipe

-----------------------------------------------------------------------------
(* A message arrives: the handler runs up to its first await. *)

\* MUTANT: without `|| null' an unknown connection reads undefined.
ArriveUndefined(m) ==
    /\ up
    /\ Len(log) < MaxMessages
    /\ log' = Append(log, m)
    /\ seen' = [seen EXCEPT ![Len(log) + 1] =
                  IF players[m.conn] = Nobody THEN Absent ELSE players[m.conn]]
    /\ UNCHANGED <<players, up, replies, store>>

Arrive(m) ==
    /\ up
    /\ Len(log) < MaxMessages
    /\ log' = Append(log, m)
    /\ seen' = [seen EXCEPT ![Len(log) + 1] = players[m.conn]]
    /\ UNCHANGED <<players, up, replies, store>>

Discard(m) ==
    /\ m.kind = "invalid"
    /\ Arrive(m)
    /\ Finish(Len(log) + 1)

\* "No character broadcasting in <connection>"
Ignore(m) ==
    /\ m.kind # "invalid"
    /\ m.name = Absent /\ players[m.conn] = Nobody
    /\ Arrive(m)
    /\ Finish(Len(log) + 1)

\* The message names another character than the map: may it?
AskAllowed(m) ==
    /\ m.kind # "invalid"
    /\ Named(m) /\ m.name # players[m.conn]
    /\ Arrive(m)
    /\ Send(Len(log) + 1, "getAllowed")

\* MUTANT: a connection with any character is not checked again.
RelayUnchecked(m) ==
    /\ m.kind # "invalid"
    /\ players[m.conn] # Nobody \/ m.name = Blank
    /\ Arrive(m)
    /\ Send(Len(log) + 1, Publication(m))

\* MUTANT: a message with a name keeps the profile alive before publishing.
RelayRefreshing(m) ==
    /\ m.kind # "invalid"
    /\ \/ m.name = players[m.conn]
       \/ m.name = Absent /\ players[m.conn] # Nobody
       \/ m.name = Blank
    /\ Arrive(m)
    /\ Send(Len(log) + 1, IF Named(m) THEN "keepAlive" ELSE Publication(m))

\* The character is known, or the name is empty: publish at once.
Relay(m) ==
    /\ m.kind # "invalid"
    /\ \/ m.name = players[m.conn]
       \/ m.name = Absent /\ players[m.conn] # Nobody
       \/ m.name = Blank
    /\ Arrive(m)
    /\ Send(Len(log) + 1, Publication(m))

-----------------------------------------------------------------------------
(* Redis executes a command. *)

\* MUTANT: any list of names will do.
ExecuteGetAllowedAny(h) ==
    /\ Execute(h, "getAllowed")
    /\ pc' = [pc EXCEPT ![h] =
                IF AllowedCharacters(Conn(h)) # {} THEN "granted" ELSE "refused"]
    /\ UNCHANGED store

ExecuteGetAllowed(h) ==
    /\ Execute(h, "getAllowed")
    /\ pc' = [pc EXCEPT ![h] =
                IF log[h].name \in AllowedCharacters(Conn(h))
                THEN "granted" ELSE "refused"]
    /\ UNCHANGED store

ExecuteSetCurrent(h) ==
    /\ Execute(h, "setCurrent")
    /\ sessions' = [sessions EXCEPT ![Conn(h)].current = log[h].name]
    /\ UNCHANGED <<pc, profiles, geo, feed>>

\* The field has no time to live of its own: HPERSIST changes nothing.
ExecutePersistCurrent(h) ==
    /\ Execute(h, "persistCurrent")
    /\ UNCHANGED <<pc, store>>

\* EXPIRE of the abandoned character's profile; none for users:null.
ExecuteKeepAlive(h) ==
    /\ Execute(h, "keepAlive")
    /\ profiles' = [c \in Characters |->
                      IF c = seen[h] /\ profiles[c] # NoProfile
                      THEN [profiles[c] EXCEPT !.ttl = TRUE]
                      ELSE profiles[c]]
    /\ UNCHANGED <<pc, sessions, geo, feed>>

ExecuteRemovePosition(h) ==
    /\ Execute(h, "removePosition")
    /\ geo' = [c \in Characters |-> IF c = seen[h] THEN 0 ELSE geo[c]]
    /\ UNCHANGED <<pc, sessions, profiles, feed>>

ExecuteBroadcast(h) ==
    /\ Execute(h, "broadcast")
    /\ feed' = Append(feed, h)
    /\ UNCHANGED <<pc, sessions, profiles, geo>>

\* MUTANT: a record that counts is given a time to live with the count.
ExecuteIncreaseExpiring(h) ==
    /\ Execute(h, "increase")
    /\ sessions' = [sessions EXCEPT ![Conn(h)].counted = TRUE, ![Conn(h)].ttl = TRUE]
    /\ UNCHANGED <<pc, profiles, geo, feed>>

\* HINCRBY creates the hash, without its other fields, when it is gone.
ExecuteIncrease(h) ==
    /\ Execute(h, "increase")
    /\ sessions' = [sessions EXCEPT ![Conn(h)].counted = TRUE]
    /\ UNCHANGED <<pc, profiles, geo, feed>>

ExecuteExpire(h) ==
    /\ Execute(h, "expire")
    /\ sessions' = [sessions EXCEPT ![Conn(h)].ttl = Present(sessions[Conn(h)])]
    /\ UNCHANGED <<pc, profiles, geo, feed>>

\* HSET keeps the time to live the hash has until PERSIST follows.
ExecuteSetAttributes(h) ==
    /\ Execute(h, "setAttributes")
    /\ profiles' = [profiles EXCEPT ![Label(h)].by = Conn(h)]
    /\ UNCHANGED <<pc, sessions, geo, feed>>

ExecutePersistUser(h) ==
    /\ Execute(h, "persistUser")
    /\ profiles' = [profiles EXCEPT ![Label(h)].ttl = FALSE]
    /\ UNCHANGED <<pc, sessions, geo, feed>>

\* The transaction's GEOADD refuses a position off the globe.
ExecuteAddPoint(h) ==
    /\ Execute(h, "addPoint")
    /\ geo' = IF log[h].kind = "offMap" THEN geo
              ELSE [geo EXCEPT ![Label(h)] = h]
    /\ UNCHANGED <<pc, sessions, profiles, feed>>

ExecuteAny(h) ==
    \/ ExecuteGetAllowed(h)
    \/ ExecuteSetCurrent(h)
    \/ ExecutePersistCurrent(h)
    \/ ExecuteKeepAlive(h)
    \/ ExecuteRemovePosition(h)
    \/ ExecuteBroadcast(h)
    \/ ExecuteIncrease(h)
    \/ ExecuteExpire(h)
    \/ ExecuteSetAttributes(h)
    \/ ExecutePersistUser(h)
    \/ ExecuteAddPoint(h)

-----------------------------------------------------------------------------
(* A handler resumes after an await and runs up to the next. *)

Refuse(h) ==
    /\ Resume(h, "refused")
    /\ Finish(h)
    /\ UNCHANGED <<players, up>>

\* MUTANT: the record is not told of the new character.
GrantUnrecorded(h) ==
    /\ Resume(h, "granted")
    /\ players' = [players EXCEPT ![Conn(h)] = log[h].name]
    /\ Send(h, "keepAlive")
    /\ UNCHANGED up

\* MUTANT: the map is written only if it is as the handler read it.
GrantIfUnchanged(h) ==
    /\ Resume(h, "granted")
    /\ players' = IF players[Conn(h)] = seen[h]
                  THEN [players EXCEPT ![Conn(h)] = log[h].name] ELSE players
    /\ Send(h, "setCurrent")
    /\ UNCHANGED up

Grant(h) ==
    /\ Resume(h, "granted")
    /\ players' = [players EXCEPT ![Conn(h)] = log[h].name]
    /\ Send(h, "setCurrent")
    /\ UNCHANGED up

\* The awaits that are followed by just one other.
Continue(h) ==
    /\ \/ Resume(h, "setCurrent")     /\ Send(h, "persistCurrent")
       \/ Resume(h, "persistCurrent") /\ Send(h, "keepAlive")
       \/ Resume(h, "keepAlive")      /\ Send(h, "removePosition")
       \/ Resume(h, "removePosition") /\ Send(h, Publication(log[h]))
       \/ Resume(h, "broadcast")      /\ Send(h, "increase")
       \/ Resume(h, "increase")       /\ ConnectionStoreTtl /\ Send(h, "expire")
       \/ Resume(h, "setAttributes")  /\ Send(h, "persistUser")
       \/ Resume(h, "persistUser")    /\ Send(h, "addPoint")
    /\ UNCHANGED <<players, up>>

\* The label is still the connection's character ("null" never is).
StillPlays(h) == Label(h) # Nobody /\ players[Conn(h)] = Label(h)

\* MUTANT: the check comes before the record's time to live is renewed.
RecheckBeforeExpire(h) ==
    /\ \/ Resume(h, "expire")
       \/ Resume(h, "increase") /\ (~ConnectionStoreTtl \/ ~StillPlays(h))
    /\ IF StillPlays(h) THEN Send(h, "setAttributes") ELSE Finish(h)
    /\ UNCHANGED <<players, up>>

\* MUTANT: the handler waits for its character to come back.
RecheckWaiting(h) ==
    /\ \/ Resume(h, "expire")
       \/ Resume(h, "increase") /\ ~ConnectionStoreTtl
    /\ StillPlays(h)
    /\ Send(h, "setAttributes")
    /\ UNCHANGED <<players, up>>

\* Counted: record the position if the character has not changed.
Recheck(h) ==
    /\ \/ Resume(h, "expire")
       \/ Resume(h, "increase") /\ ~ConnectionStoreTtl
    /\ IF StillPlays(h) THEN Send(h, "setAttributes") ELSE Finish(h)
    /\ UNCHANGED <<players, up>>

Complete(h) ==
    /\ Resume(h, "addPoint")
    /\ log[h].kind # "offMap"
    /\ Finish(h)
    /\ UNCHANGED <<players, up>>

ResumeAny(h) ==
    \/ Refuse(h)
    \/ Grant(h)
    \/ Continue(h)
    \/ Recheck(h)
    \/ Complete(h)

-----------------------------------------------------------------------------
(* The process dies and is started again; Redis keeps its data. *)

Die ==
    /\ up' = FALSE
    /\ players' = Unknown
    /\ UNCHANGED <<log, pc, seen, pipe, store>>

Crash == up /\ Die /\ UNCHANGED replies

\* The handler's promise is rejected and nothing catches it.
FailPoint(h) ==
    /\ Resume(h, "addPoint")
    /\ log[h].kind = "offMap"
    /\ Die

\* What has not reached Redis by now is gone, and the handlers with it.
Restart ==
    /\ ~up
    /\ up' = TRUE
    /\ pc' = [h \in Handlers |->
                IF pc[h] \in {"idle", "done"} THEN pc[h] ELSE "lost"]
    /\ pipe' = Quiet
    /\ replies' = Quiet
    /\ UNCHANGED <<log, seen, players, store>>

SessionExpires(k) ==
    /\ sessions[k].ttl
    /\ sessions' = [sessions EXCEPT ![k] = NoSession]
    /\ UNCHANGED <<memory, queues, profiles, geo, feed>>

ProfileExpires(c) ==
    /\ profiles[c].ttl
    /\ profiles' = [profiles EXCEPT ![c] = NoProfile]
    /\ UNCHANGED <<memory, queues, sessions, geo, feed>>

-----------------------------------------------------------------------------

Init ==
    /\ log = <<>>
    /\ pc = [h \in Handlers |-> "idle"]
    /\ seen = [h \in Handlers |-> Nobody]
    /\ players = Unknown
    /\ up = TRUE
    /\ pipe = Quiet
    /\ replies = Quiet
    /\ sessions = [k \in Connections |-> Fresh]
    /\ profiles = [c \in Characters |-> NoProfile]
    /\ geo = [c \in Characters |-> 0]
    /\ feed = <<>>

Next ==
    \/ \E m \in Messages : Discard(m) \/ Ignore(m) \/ AskAllowed(m) \/ Relay(m)
    \/ \E h \in Handlers : ExecuteAny(h) \/ ResumeAny(h) \/ FailPoint(h)
    \/ Crash
    \/ Restart
    \/ \E k \in Connections : SessionExpires(k)
    \/ \E c \in Characters : ProfileExpires(c)

\* Redis executes what it is sent and Node resumes what is answered.
Fairness ==
    \A h \in Handlers :
        /\ WF_vars(ExecuteAny(h))
        /\ WF_vars(ResumeAny(h) \/ FailPoint(h))

Spec == Init /\ [][Next]_vars /\ Fairness

-----------------------------------------------------------------------------
(* Types. *)

Outcomes == {"idle", "granted", "refused", "done", "lost"}
Consumed == 1 .. Len(log)

MemoryOK ==
    /\ log \in Seq(Messages) /\ Len(log) <= MaxMessages
    /\ pc \in [Handlers -> Commands \cup Outcomes]
    /\ seen \in [Handlers -> Characters \cup {Nobody}]
    /\ players \in [Connections -> Characters \cup {Nobody}]
    /\ up \in BOOLEAN

QueuesOK ==
    /\ pipe \in [Clients -> Seq(Handlers)]
    /\ replies \in [Clients -> Seq(Handlers)]

StoreOK ==
    /\ sessions \in [Connections -> [setUp : BOOLEAN,
                                     current : Characters \cup {Nobody},
                                     counted : BOOLEAN, ttl : BOOLEAN]]
    /\ profiles \in [Characters -> [by : Connections \cup {Nobody}, ttl : BOOLEAN]]
    /\ geo \in [Characters -> 0 .. MaxMessages]
    /\ feed \in Seq(Handlers)

\* Every variable has the values the code can give it.
TypeOK == MemoryOK /\ QueuesOK /\ StoreOK

-----------------------------------------------------------------------------
(* Safety. *)

MayCarry(h) ==
    \/ Label(h) \in Allowed[Conn(h)]
    \/ Label(h) = Nobody /\ log[h].name = Blank

\* Whatever name the feed carries, the connection it came through is allowed
\* to use it; "null" stands in only for an empty name.  The check reads the
\* map before an await and publishes after several more (index.ts:94-136).
FeedAuthorised ==
    \A i \in 1 .. Len(feed) : MayCarry(feed[i])

\* The same of what outlives the message: no profile, position or current
\* character is recorded through a connection not allowed to use that name.
StoreAuthorised ==
    /\ \A k \in Connections : sessions[k].current \in Allowed[k] \cup {Nobody}
    /\ \A c \in Characters :
        /\ profiles[c].by # Nobody => c \in Allowed[profiles[c].by]
        /\ geo[c] # 0 => c \in Allowed[Conn(geo[c])]

\* The connection record's current_character is the map's, up to the writes
\* under way, of which the last one sent is the map's (index.ts:107-108):
\* the ground station removes the position of the one it finds there.
PendingCurrent(k) ==
    {h \in Consumed : pc[h] = "setCurrent" /\ Conn(h) = k
                      /\ \E i \in 1 .. Len(pipe["connection"]) :
                            pipe["connection"][i] = h}
CurrentFollowsMap ==
    \A k \in Connections : players[k] # Nobody =>
        IF PendingCurrent(k) = {}
        THEN \/ sessions[k].current = players[k]
             \/ sessions[k].current = Nobody /\ ConnectionStoreTtl
        ELSE \E h \in PendingCurrent(k) :
                /\ log[h].name = players[k]
                /\ \A g \in PendingCurrent(k) : g <= h

\* Grants take effect in the order the announcements were consumed: the map
\* holds the name of the latest announcement that was granted, or nothing
\* after a restart (index.ts:97-107).
Decided(h) == pc[h] \notin {"getAllowed", "granted", "refused"}
GrantsOf(k) ==
    {h \in Consumed : /\ Conn(h) = k /\ Switching(h) /\ Decided(h)
                      /\ log[h].kind # "invalid"
                      /\ log[h].name \in Allowed[k]}
MapFollowsGrants ==
    ~ConnectionStoreTtl =>
        \A k \in Connections : players[k] # Nobody =>
            \E h \in GrantsOf(k) : /\ players[k] = log[h].name
                                   /\ \A g \in GrantsOf(k) : g <= h

\* Messages overtake one another on the feed only while a character change
\* is being checked: the handlers of the others keep their order.
FeedInOrder ==
    \A i, j \in 1 .. Len(feed) :
        i < j /\ feed[j] < feed[i] => Switching(feed[j])

\* A position is replaced by an older one only if that one announced a new
\* character, or the newer one was not published.
PositionsKeepOrder ==
    [][\A c \in Characters :
        0 < geo'[c] /\ geo'[c] < geo[c] =>
            Switching(geo'[c]) \/ log[geo[c]].kind # "good"]_vars

\* With CONNECTION_STORE_TTL a record that counts positions has a time to
\* live, or a handler is about to give it one, or died before it could.
CountedSessionsExpire ==
    ConnectionStoreTtl =>
        \A k \in Connections : sessions[k].counted =>
            \/ sessions[k].ttl
            \/ \E h \in Consumed :
                Conn(h) = k /\ pc[h] \in {"increase", "expire", "lost"}

\* Every message consumed is handled to the end unless the process dies.
HandlersFinish ==
    \A h \in Handlers :
        pc[h] # "idle" ~> (pc[h] \in {"done", "lost"} \/ ~up)

-----------------------------------------------------------------------------
(* The inductive invariant behind FeedAuthorised and StoreAuthorised: a name *)
(* is allowed from the moment Redis granted it, in the map, in what handlers *)
(* read from the map, and in every handler that goes on to publish.          *)

Announcing == {"getAllowed", "granted", "setCurrent", "persistCurrent"}
Cleared == (Commands \ {"getAllowed"}) \cup {"granted"}
Recording == {"setAttributes", "persistUser", "addPoint"}

HandlersConsumed ==
    \A h \in Handlers : /\ pc[h] # "idle" => h \in Consumed
                        /\ pc[h] \in Announcing => Named(log[h])

EffectsConsumed ==
    /\ \A i \in 1 .. Len(feed) : feed[i] \in Consumed
    /\ \A c \in Characters : geo[c] \in Consumed \cup {0}

NamesAllowed ==
    /\ \A k \in Connections : players[k] \in Allowed[k] \cup {Nobody}
    /\ \A h \in Consumed : seen[h] \in Allowed[Conn(h)] \cup {Nobody}
    /\ \A h \in Consumed : /\ pc[h] \in Cleared => MayCarry(h)
                           /\ pc[h] \in Recording => Label(h) # Nobody

AuthorisedInv ==
    /\ TypeOK
    /\ HandlersConsumed
    /\ EffectsConsumed
    /\ NamesAllowed
    /\ FeedAuthorised
    /\ StoreAuthorised

-----------------------------------------------------------------------------
(* The inductive invariant behind the order properties: a client answers in  *)
(* the order it was asked, so of two handlers that ask, the earlier decides  *)
(* first; the handlers that do not ask publish in the order they arrived.    *)

\* The handlers with a command outstanding on a client, the oldest first.
Queue(c) == replies[c] \o pipe[c]
Slots(c) == 1 .. Len(Queue(c))

Asking == {"getAllowed", "granted", "refused"}
Asks(h) == Switching(h) /\ log[h].kind # "invalid"

QueuesExact ==
    /\ \A c \in Clients : \A i, j \in Slots(c) :
        /\ pc[Queue(c)[i]] \in Commands \cup Asking
        /\ ClientOf(pc[Queue(c)[i]]) = c
        /\ Queue(c)[i] = Queue(c)[j] => i = j
    /\ \A h \in Handlers : pc[h] \in Asking =>
        \E i \in Slots("connection") : Queue("connection")[i] = h

AskersAsk ==
    \A h \in Handlers :
        pc[h] \in Announcing \cup {"refused", "keepAlive", "removePosition"} => Asks(h)

AskedInOrder ==
    /\ \A i, j \in Slots("connection") :
        (i < j /\ {pc[Queue("connection")[i]], pc[Queue("connection")[j]]} \subseteq Asking)
            => Queue("connection")[i] < Queue("connection")[j]
    /\ \A g, h \in Consumed :
        g < h /\ pc[g] \in Asking /\ Asks(h) => pc[h] \in Asking

CurrentsInOrder ==
    \A i, j \in 1 .. Len(pipe["connection"]) :
        (i < j /\ pc[pipe["connection"][i]] = "setCurrent"
               /\ pc[pipe["connection"][j]] = "setCurrent")
            => pipe["connection"][i] < pipe["connection"][j]

PublicationsInOrder ==
    \A i \in 1 .. Len(pipe["publisher"]) :
        ~Switching(pipe["publisher"][i]) =>
            /\ \A j \in 1 .. i - 1 : pipe["publisher"][j] < pipe["publisher"][i]
            /\ \A j \in 1 .. Len(feed) : feed[j] < pipe["publisher"][i]

AnswersTrue ==
    /\ ~up => players = Unknown
    /\ ~ConnectionStoreTtl =>
        /\ \A k \in Connections : sessions[k].setUp /\ ~sessions[k].ttl
        /\ \A h \in Handlers :
            /\ pc[h] # "expire"
            /\ pc[h] = "refused" => log[h].name \notin Allowed[Conn(h)]

\* A record that counts and does not expire is about to.
CountsExpire ==
    ConnectionStoreTtl =>
        \A k \in Connections : sessions[k].counted /\ ~sessions[k].ttl =>
            \E h \in Consumed :
                /\ Conn(h) = k
                /\ \/ pc[h] \in {"increase", "lost"}
                   \/ pc[h] = "expire" /\ \E i \in 1 .. Len(pipe["connection"]) :
                                              pipe["connection"][i] = h

OrderInv ==
    /\ AuthorisedInv
    /\ QueuesExact /\ AskersAsk /\ AskedInOrder /\ CurrentsInOrder
    /\ PublicationsInOrder /\ AnswersTrue /\ CountsExpire
    /\ FeedInOrder /\ MapFollowsGrants /\ CurrentFollowsMap

-----------------------------------------------------------------------------
(* The invariant behind PositionsKeepOrder: from publication on a handler is *)
(* not passed by a later one, unless that one has nothing to publish.        *)

Late == {"broadcast", "increase", "expire"} \cup Recording
Phase == [broadcast |-> 1, increase |-> 2, expire |-> 3,
          setAttributes |-> 4, persistUser |-> 5, addPoint |-> 6]

Follows(g, h) == g < h /\ ~Switching(g) /\ log[h].kind = "good"

LateQueued ==
    up => \A h \in Handlers : pc[h] \in Late =>
            \E c \in Clients : \E i \in Slots(c) : Queue(c)[i] = h

PhasesInOrder ==
    \A g, h \in Consumed : Follows(g, h) /\ pc[g] \in Late /\ pc[h] \in Late =>
        /\ Phase[pc[h]] <= Phase[pc[g]]
        /\ pc[h] = pc[g] =>
            \A c \in Clients : \A i, j \in Slots(c) :
                Queue(c)[i] = g /\ Queue(c)[j] = h => i < j

RecordsInOrder ==
    \A c \in Characters : \A g \in Consumed :
        geo[c] # 0 /\ Follows(g, geo[c]) /\ pc[g] \in Late =>
            /\ pc[g] = "addPoint"
            /\ \A i \in 1 .. Len(pipe["tracker"]) : pipe["tracker"][i] # g

PositionsInv == LateQueued /\ PhasesInOrder /\ RecordsInOrder

-----------------------------------------------------------------------------
(* The invariant behind Platform's ShownIsRecorded: a connection's record    *)
(* names a character, or the write that will do it is ahead of everything a  *)
(* handler may still show of the player.                                     *)

Shown(k) == {c \in Characters : \/ geo[c] # 0 /\ Conn(geo[c]) = k
                               \/ profiles[c].by = k}
Recorded(k) == sessions[k].current # Nobody

\* Where the pipe holds handler h, and the writes of current_character for k.
Sent(h) == {i \in 1 .. Len(pipe["connection"]) : pipe["connection"][i] = h}
Writes(k) ==
    {i \in 1 .. Len(pipe["connection"]) :
        LET g == pipe["connection"][i] IN pc[g] = "setCurrent" /\ Conn(g) = k}

\* Handlers of a character that come here do after their write, or after the
\* write of another (EXPIRE and HINCRBY go through the client that writes).
PastWrite == {"persistCurrent", "keepAlive", "removePosition", "expire"}
                \cup Recording
AheadOf(h) ==
    /\ pc[h] \notin PastWrite
    /\ pc[h] = "setCurrent" => Sent(h) # {}
    /\ pc[h] = "broadcast" => Writes(Conn(h)) # {}
    /\ pc[h] = "increase" => \E i \in Sent(h), j \in Writes(Conn(h)) : j < i

RecordedFirst(k) ==
    \/ Recorded(k)
    \/ /\ Shown(k) = {}
       /\ players[k] # Nobody => Writes(k) # {}
       /\ \A h \in Consumed : Conn(h) = k /\ Label(h) # Nobody => AheadOf(h)

-----------------------------------------------------------------------------
(* What the code's documents say of it, and the code does not do. *)

\* The label is the name of the character the position belongs to
\* (contracts/src/player.ts:28): the one its connection announced last.
Announced(h) ==
    {g \in 1 .. h : /\ Conn(g) = Conn(h) /\ log[g].kind # "invalid"
                    /\ log[g].name \in Allowed[Conn(h)]}
FeedNamesLatest ==
    \A i \in 1 .. Len(feed) :
        \A g \in Announced(feed[i]) :
            (\A f \in Announced(feed[i]) : f <= g) =>
                Label(feed[i]) = log[g].name

\* Positions are converted for the geospatial store only from the ranges the
\* conversion is documented for (core/src/geo-coordinates.ts:17-18).
PointsOnMap ==
    \A h \in Consumed : pc[h] = "addPoint" => log[h].kind # "offMap"
=============================================================================
