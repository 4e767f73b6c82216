------------------------ MODULE TrackingRelayProofs ------------------------
(* Proofs about TrackingRelay, for any connections, characters, messages *)
(* and number of messages.                                               *)
EXTENDS TrackingRelay, TLAPS, SequenceTheorems

-----------------------------------------------------------------------------
(* Commands go to clients. *)

LEMMA ClientOfType == \A command : ClientOf(command) \in Clients
BY DEF ClientOf, Clients

\* Sending a command appends its handler to one pipe.
LEMMA SendType ==
    ASSUME QueuesOK, NEW h \in Handlers, NEW command, Send(h, command)
    PROVE  pipe' \in [Clients -> Seq(Handlers)]
BY ClientOfType DEF QueuesOK, Send

LEMMA ExecuteType ==
    ASSUME QueuesOK, NEW h \in Handlers, NEW command, Execute(h, command)
    PROVE  QueuesOK'
<1> DEFINE c == ClientOf(command)
<1>1. c \in Clients
  BY ClientOfType
<1>2. pipe[c] \in Seq(Handlers) /\ pipe[c] # <<>> /\ replies[c] \in Seq(Handlers)
  BY <1>1 DEF QueuesOK, Execute
<1>3. Tail(pipe[c]) \in Seq(Handlers) /\ Append(replies[c], h) \in Seq(Handlers)
  BY <1>2
<1> QED
  BY <1>1, <1>3 DEF QueuesOK, Execute

LEMMA ResumeType ==
    ASSUME QueuesOK, NEW h \in Handlers, NEW command, Resume(h, command)
    PROVE  replies' \in [Clients -> Seq(Handlers)]
<1> DEFINE c == ClientOf(command)
<1>1. c \in Clients
  BY ClientOfType
<1>2. replies[c] \in Seq(Handlers) /\ replies[c] # <<>>
  BY <1>1 DEF QueuesOK, Resume
<1>3. Tail(replies[c]) \in Seq(Handlers)
  BY <1>2
<1> QED
  BY <1>1, <1>3 DEF QueuesOK, Resume

-----------------------------------------------------------------------------
(* Type correctness. *)

LEMMA CommandTypes ==
    /\ {"getAllowed", "setCurrent", "persistCurrent", "increase", "expire",
        "keepAlive", "setAttributes", "persistUser", "removePosition",
        "addPoint", "broadcast"} = Commands
    /\ \A m : Publication(m) \in Commands
BY DEF Commands, ConnectionCommands, UserCommands, TrackerCommands, Publication

LEMMA InitType == Init => TypeOK
<1> SUFFICES ASSUME Init PROVE TypeOK
  OBVIOUS
<1>1. MemoryOK
  BY MessagesAssumption DEF Init, MemoryOK, Unknown, Outcomes
<1>2. QueuesOK
  BY DEF Init, QueuesOK, Quiet
<1>3. StoreOK
  BY MessagesAssumption DEF Init, StoreOK, Fresh, NoProfile
<1> QED
  BY <1>1, <1>2, <1>3 DEF TypeOK

\* A message that arrives has a handler of its own.
LEMMA ArriveType ==
    ASSUME TypeOK, NEW m \in Messages, Arrive(m)
    PROVE  /\ Len(log) + 1 \in Handlers /\ Len(log) + 1 <= MaxMessages
           /\ log' \in Seq(Messages) /\ Len(log') = Len(log) + 1
           /\ seen' \in [Handlers -> Characters \cup {Nobody}]
           /\ players' \in [Connections -> Characters \cup {Nobody}]
           /\ up' \in BOOLEAN
           /\ replies' \in [Clients -> Seq(Handlers)]
           /\ StoreOK'
<1>1. m.conn \in Connections
  BY MessagesAssumption
<1>2. Len(log) + 1 \in Handlers /\ Len(log) + 1 <= MaxMessages
  BY MessagesAssumption DEF TypeOK, MemoryOK, Arrive, Handlers
<1>3. log' \in Seq(Messages) /\ Len(log') = Len(log) + 1
  BY AppendProperties DEF TypeOK, MemoryOK, Arrive
<1>4. seen' \in [Handlers -> Characters \cup {Nobody}]
  BY <1>1, <1>2 DEF TypeOK, MemoryOK, Arrive
<1>5. StoreOK'
  BY DEF TypeOK, StoreOK, Arrive, store
<1> QED
  BY <1>2, <1>3, <1>4, <1>5 DEF TypeOK, MemoryOK, QueuesOK, Arrive

LEMMA ConsumedHandlers == TypeOK => Consumed \subseteq Handlers
BY MessagesAssumption DEF TypeOK, MemoryOK, Consumed, Handlers

\* The messages consumed before keep their places.
LEMMA ArriveAppends ==
    ASSUME TypeOK, NEW m \in Messages, Arrive(m)
    PROVE  /\ Len(log) + 1 \notin Consumed
           /\ Consumed' = Consumed \cup {Len(log) + 1}
           /\ log'[Len(log) + 1] = m
           /\ \A h \in Consumed : log'[h] = log[h]
<1>1. /\ log \in Seq(Messages) /\ Len(log) \in Nat
      /\ log' = Append(log, m)
  BY DEF TypeOK, MemoryOK, Arrive
<1>2. /\ Len(log') = Len(log) + 1
      /\ log'[Len(log) + 1] = m
      /\ \A h \in Consumed : log'[h] = log[h]
  BY <1>1, AppendProperties DEF Consumed
<1> QED
  BY <1>1, <1>2 DEF Consumed

LEMMA ArrivalsType ==
    ASSUME TypeOK, NEW m \in Messages,
           Discard(m) \/ Ignore(m) \/ AskAllowed(m) \/ Relay(m)
    PROVE  TypeOK'
<1> DEFINE h == Len(log) + 1
<1>1. Arrive(m)
  BY DEF Discard, Ignore, AskAllowed, Relay
<1>2. h \in Handlers /\ Len(log') <= MaxMessages
  BY <1>1, ArriveType
<1>3. \/ Finish(h)
      \/ Send(h, "getAllowed")
      \/ Send(h, Publication(m))
  BY DEF Discard, Ignore, AskAllowed, Relay
<1>4. pc' \in [Handlers -> Commands \cup Outcomes]
  BY <1>2, <1>3, CommandTypes DEF Send, Finish, TypeOK, MemoryOK, Outcomes
<1>5. pipe' \in [Clients -> Seq(Handlers)]
  BY <1>2, <1>3, SendType DEF Finish, TypeOK, QueuesOK
<1> QED
  BY <1>1, <1>2, <1>4, <1>5, ArriveType DEF TypeOK, MemoryOK, QueuesOK

LEMMA ExecutionType ==
    ASSUME TypeOK, HandlersConsumed, NEW h \in Handlers, ExecuteAny(h)
    PROVE  TypeOK'
<1> USE DEF TypeOK
<1>1. QueuesOK'
  BY ExecuteType DEF ExecuteAny, ExecuteGetAllowed, ExecuteSetCurrent,
     ExecutePersistCurrent, ExecuteKeepAlive, ExecuteRemovePosition,
     ExecuteBroadcast, ExecuteIncrease, ExecuteExpire, ExecuteSetAttributes,
     ExecutePersistUser, ExecuteAddPoint
<1>2. MemoryOK'
  <2>1. UNCHANGED <<log, seen, players, up>>
    BY DEF ExecuteAny, Execute, ExecuteGetAllowed, ExecuteSetCurrent,
       ExecutePersistCurrent, ExecuteKeepAlive, ExecuteRemovePosition,
       ExecuteBroadcast, ExecuteIncrease, ExecuteExpire, ExecuteSetAttributes,
       ExecutePersistUser, ExecuteAddPoint
  <2>2. pc' \in [Handlers -> Commands \cup Outcomes]
    BY DEF MemoryOK, Outcomes, ExecuteAny, ExecuteGetAllowed, ExecuteSetCurrent,
       ExecutePersistCurrent, ExecuteKeepAlive, ExecuteRemovePosition,
       ExecuteBroadcast, ExecuteIncrease, ExecuteExpire, ExecuteSetAttributes,
       ExecutePersistUser, ExecuteAddPoint
  <2> QED
    BY <2>1, <2>2 DEF MemoryOK
<1>3. StoreOK'
  <2>1. h \in 0 .. MaxMessages
    BY MessagesAssumption DEF Handlers
  <2>2. CASE ExecuteSetCurrent(h)
    <3>1. log[h].name \in Characters
      BY <2>2 DEF HandlersConsumed, Announcing, Named, ExecuteSetCurrent, Execute
    <3> QED
      BY <2>2, <3>1 DEF StoreOK, ExecuteSetCurrent
  <2>3. CASE ExecuteKeepAlive(h)
    BY <2>3 DEF StoreOK, ExecuteKeepAlive
  <2>4. CASE ExecuteRemovePosition(h)
    BY <2>4, MessagesAssumption DEF StoreOK, ExecuteRemovePosition
  <2>5. CASE ExecuteBroadcast(h)
    BY <2>5, AppendProperties DEF StoreOK, ExecuteBroadcast
  <2>6. CASE ExecuteIncrease(h)
    BY <2>6 DEF StoreOK, ExecuteIncrease
  <2>7. CASE ExecuteExpire(h)
    <3>1. Present(sessions[Conn(h)]) \in BOOLEAN
      BY DEF Present
    <3> QED
      BY <2>7, <3>1 DEF StoreOK, ExecuteExpire
  <2>8. CASE ExecuteSetAttributes(h)
    <3>1. log[h] \in Messages
      BY <2>8 DEF ExecuteSetAttributes, Execute, HandlersConsumed, Consumed, MemoryOK
    <3>2. Conn(h) \in Connections
      BY <3>1, MessagesAssumption DEF Conn
    <3> QED
      BY <2>8, <3>2 DEF StoreOK, ExecuteSetAttributes
  <2>9. CASE ExecutePersistUser(h)
    BY <2>9 DEF StoreOK, ExecutePersistUser
  <2>10. CASE ExecuteAddPoint(h)
    BY <2>1, <2>10 DEF StoreOK, ExecuteAddPoint
  <2>11. CASE ExecuteGetAllowed(h) \/ ExecutePersistCurrent(h)
    BY <2>11 DEF StoreOK, ExecuteGetAllowed, ExecutePersistCurrent, store
  <2> QED
    BY <2>2, <2>3, <2>4, <2>5, <2>6, <2>7, <2>8, <2>9, <2>10, <2>11
       DEF ExecuteAny
<1> QED
  BY <1>1, <1>2, <1>3

LEMMA ResumptionType ==
    ASSUME TypeOK, HandlersConsumed, NEW h \in Handlers, ResumeAny(h) \/ FailPoint(h)
    PROVE  TypeOK'
<1> USE DEF TypeOK
<1>1. PICK command : Resume(h, command)
  BY DEF ResumeAny, Refuse, Grant, Continue, Recheck, Complete, FailPoint
<1>2. replies' \in [Clients -> Seq(Handlers)] /\ UNCHANGED <<log, seen, store>>
  BY <1>1, ResumeType DEF Resume
<1>3. CASE FailPoint(h)
  BY <1>2, <1>3 DEF FailPoint, Die, Unknown, MemoryOK, QueuesOK, StoreOK, store
<1>4. CASE ResumeAny(h)
  <2>1. \/ Finish(h)
        \/ \E next \in Commands : Send(h, next)
    BY <1>4, CommandTypes
       DEF ResumeAny, Refuse, Grant, Continue, Recheck, Complete
  <2>2. pipe' \in [Clients -> Seq(Handlers)]
    BY <2>1, SendType DEF Finish, QueuesOK
  <2>3. pc' \in [Handlers -> Commands \cup Outcomes]
    BY <2>1 DEF Send, Finish, MemoryOK, Outcomes
  <2>4. up' \in BOOLEAN
    BY <1>4 DEF MemoryOK, ResumeAny, Refuse, Grant, Continue, Recheck, Complete
  <2>5. players' \in [Connections -> Characters \cup {Nobody}]
    <3>1. CASE Grant(h)
      <4>1. log[h].name \in Characters
        BY <3>1 DEF Grant, Resume, HandlersConsumed, Announcing, Named
      <4> QED
        BY <3>1, <4>1 DEF Grant, MemoryOK
    <3>2. CASE ~Grant(h)
      BY <1>4, <3>2
         DEF MemoryOK, ResumeAny, Refuse, Continue, Recheck, Complete
    <3> QED
      BY <3>1, <3>2
  <2> QED
    BY <1>2, <2>2, <2>3, <2>4, <2>5 DEF MemoryOK, QueuesOK, StoreOK, store
<1> QED
  BY <1>3, <1>4

\* Deaths, restarts and expiries.
LEMMA EnvironmentType ==
    ASSUME TypeOK,
           \/ Crash \/ Restart
           \/ \E k \in Connections : SessionExpires(k)
           \/ \E c \in Characters : ProfileExpires(c)
    PROVE  TypeOK'
<1> USE DEF TypeOK, memory, queues, store
<1>1. CASE Crash
  BY <1>1 DEF Crash, Die, Unknown, MemoryOK, QueuesOK, StoreOK
<1>2. CASE Restart
  BY <1>2 DEF Restart, Quiet, MemoryOK, QueuesOK, StoreOK, Outcomes
<1>3. ASSUME NEW k \in Connections, SessionExpires(k) PROVE TypeOK'
  BY <1>3 DEF SessionExpires, NoSession, MemoryOK, QueuesOK, StoreOK
<1>4. ASSUME NEW c \in Characters, ProfileExpires(c) PROVE TypeOK'
  BY <1>4, MessagesAssumption
     DEF ProfileExpires, NoProfile, MemoryOK, QueuesOK, StoreOK
<1> QED
  BY <1>1, <1>2, <1>3, <1>4

-----------------------------------------------------------------------------
(* A handler that has started has a message, and the one it stores names a *)
(* character.                                                              *)

LEMMA HandlersStep ==
    ASSUME TypeOK, HandlersConsumed, [Next]_vars
    PROVE  HandlersConsumed'
<1> USE DEF HandlersConsumed, TypeOK, MemoryOK
<1>1. ASSUME NEW m \in Messages,
             Discard(m) \/ Ignore(m) \/ AskAllowed(m) \/ Relay(m)
      PROVE  HandlersConsumed'
  <2> DEFINE h == Len(log) + 1
  <2>1. Arrive(m)
    BY <1>1 DEF Discard, Ignore, AskAllowed, Relay
  <2>2. /\ h \in Handlers /\ h \notin Consumed
        /\ Consumed' = Consumed \cup {h}
        /\ log'[h] = m
        /\ \A g \in Consumed : log'[g] = log[g]
    BY <2>1, ArriveAppends, ArriveType
  <2>3. CASE Finish(h)
    BY <2>2, <2>3 DEF Finish, Named, Announcing
  <2>4. CASE Send(h, "getAllowed") /\ Named(m)
    BY <2>2, <2>4 DEF Send, Named, Announcing
  <2>5. CASE Send(h, Publication(m))
    <3>1. Publication(m) \notin Announcing
      BY DEF Publication, Announcing
    <3> QED
      BY <2>2, <2>5, <3>1 DEF Send, Named, Announcing
  <2> QED
    BY <1>1, <2>3, <2>4, <2>5 DEF Discard, Ignore, AskAllowed, Relay
<1>2. ASSUME NEW h \in Handlers, ExecuteAny(h)
      PROVE  HandlersConsumed'
  <2>1. UNCHANGED log
    BY <1>2 DEF ExecuteAny, Execute, ExecuteGetAllowed, ExecuteSetCurrent,
       ExecutePersistCurrent, ExecuteKeepAlive, ExecuteRemovePosition,
       ExecuteBroadcast, ExecuteIncrease, ExecuteExpire, ExecuteSetAttributes,
       ExecutePersistUser, ExecuteAddPoint
  <2>2. \/ UNCHANGED pc
        \/ /\ pc[h] = "getAllowed"
           /\ \E stage : pc' = [pc EXCEPT ![h] = stage]
    BY <1>2 DEF ExecuteAny, Execute, ExecuteGetAllowed, ExecuteSetCurrent,
       ExecutePersistCurrent, ExecuteKeepAlive, ExecuteRemovePosition,
       ExecuteBroadcast, ExecuteIncrease, ExecuteExpire, ExecuteSetAttributes,
       ExecutePersistUser, ExecuteAddPoint
  <2> QED
    BY <2>1, <2>2 DEF Consumed, Named, Announcing
<1>3. ASSUME NEW h \in Handlers, ResumeAny(h) \/ FailPoint(h)
      PROVE  HandlersConsumed'
  <2>1. UNCHANGED log /\ pc[h] # "idle"
    BY <1>3 DEF ResumeAny, Refuse, Grant, Continue, Recheck, Complete,
                FailPoint, Resume
  <2>2. \/ UNCHANGED pc
        \/ \E stage : /\ pc' = [pc EXCEPT ![h] = stage]
                      /\ stage \in Announcing => pc[h] \in Announcing
    BY <1>3 DEF ResumeAny, Refuse, Grant, Continue, Recheck, Complete,
                FailPoint, Die, Resume, Send, Finish, Publication, Announcing
  <2> QED
    BY <2>1, <2>2 DEF Consumed, Named, Announcing
<1>4. CASE Crash \/ Restart
  BY <1>4 DEF Crash, Die, Restart, Consumed, Named, Announcing
<1>5. ASSUME \/ \E k \in Connections : SessionExpires(k)
             \/ \E c \in Characters : ProfileExpires(c)
             \/ UNCHANGED vars
      PROVE  HandlersConsumed'
  BY <1>5 DEF SessionExpires, ProfileExpires, vars, memory, Consumed, Named
<1> QED
  BY <1>1, <1>2, <1>3, <1>4, <1>5 DEF Next

TypeInv == TypeOK /\ HandlersConsumed

LEMMA TypeStep ==
    ASSUME TypeInv, [Next]_vars
    PROVE  TypeInv'
<1> SUFFICES ASSUME TypeOK, HandlersConsumed PROVE TypeOK'
  BY HandlersStep DEF TypeInv
<1>1. CASE UNCHANGED vars
  BY <1>1 DEF vars, memory, queues, store, TypeOK, MemoryOK, QueuesOK, StoreOK
<1>2. CASE Next
  BY <1>2, ArrivalsType, ExecutionType, ResumptionType, EnvironmentType
     DEF Next
<1> QED
  BY <1>1, <1>2

LEMMA TypeInvariant == Spec => []TypeInv
<1>1. Init => TypeInv
  BY InitType, MessagesAssumption DEF Init, TypeInv, HandlersConsumed, Announcing
<1> QED
  BY <1>1, TypeStep, PTL DEF Spec

\* Every variable keeps to the values the code can give it.
THEOREM TypeCorrect == Spec => []TypeOK
BY TypeInvariant, PTL DEF TypeInv

-----------------------------------------------------------------------------
(* Names are allowed. *)

\* What a handler publishes depends on its message and on what it read.
LEMMA Frame ==
    ASSUME NEW h, log'[h] = log[h], seen'[h] = seen[h]
    PROVE  /\ Conn(h)' = Conn(h)
           /\ Label(h)' = Label(h)
           /\ MayCarry(h)' <=> MayCarry(h)
BY DEF Conn, Label, Named, MayCarry

Effects == EffectsConsumed /\ FeedAuthorised /\ StoreAuthorised

\* Effects are about messages consumed: they stand while those and the store
\* do not change.
LEMMA EffectsFrame ==
    ASSUME AuthorisedInv, UNCHANGED store, Consumed \subseteq Consumed',
           \A h \in Consumed : log'[h] = log[h] /\ seen'[h] = seen[h]
    PROVE  Effects'
<1> USE DEF AuthorisedInv, Effects
<1>1. EffectsConsumed'
  BY DEF EffectsConsumed, store
<1>2. FeedAuthorised'
  BY Frame DEF FeedAuthorised, EffectsConsumed, store
<1>3. StoreAuthorised'
  BY Frame DEF StoreAuthorised, EffectsConsumed, store
<1> QED
  BY <1>1, <1>2, <1>3

LEMMA ArrivalsSafe ==
    ASSUME AuthorisedInv, NEW m \in Messages,
           Discard(m) \/ Ignore(m) \/ AskAllowed(m) \/ Relay(m)
    PROVE  NamesAllowed' /\ Effects'
<1>1. Arrive(m)
  BY DEF Discard, Ignore, AskAllowed, Relay
<1>h. PICK h \in Handlers : h = Len(log) + 1
  BY <1>1, ArriveType DEF AuthorisedInv
<1>2. /\ h \notin Consumed
      /\ Consumed' = Consumed \cup {h}
      /\ log'[h] = m
      /\ \A g \in Consumed : log'[g] = log[g]
  BY <1>1, <1>h, ArriveAppends DEF AuthorisedInv
<1>3. /\ seen'[h] = players[m.conn]
      /\ \A g \in Consumed : seen'[g] = seen[g]
  BY <1>1, <1>h, <1>2 DEF Arrive, AuthorisedInv, TypeOK, MemoryOK
<1>4. UNCHANGED <<players, store>> /\ m.conn \in Connections
  BY <1>1, MessagesAssumption DEF Arrive
<1>5. Effects'
  BY <1>2, <1>3, <1>4, EffectsFrame
<1>6. seen'[h] \in Allowed[Conn(h)'] \cup {Nobody}
  BY <1>2, <1>3, <1>4 DEF AuthorisedInv, NamesAllowed, Conn
<1>7. /\ pc'[h] \in Cleared => MayCarry(h)'
      /\ pc'[h] \notin Recording
  <2>1. CASE Finish(h) \/ Send(h, "getAllowed")
    BY <1>2, <2>1 DEF Finish, Send, AuthorisedInv, TypeOK, MemoryOK, Cleared, Commands,
       ConnectionCommands, UserCommands, TrackerCommands, Recording
  <2>2. CASE Relay(m)
    <3>1. pc'[h] \notin Recording
      BY <1>h, <2>2 DEF Relay, Send, Publication, Recording, AuthorisedInv, TypeOK, MemoryOK
    <3>2. players[m.conn] \in Allowed[m.conn] \cup {Nobody}
      BY <1>4 DEF AuthorisedInv, NamesAllowed
    <3>3. MayCarry(h)'
      BY <1>2, <1>3, <2>2, <3>2, NamesAssumption, MessagesAssumption
         DEF Relay, MayCarry, Label, Named, Conn
    <3> QED
      BY <3>1, <3>3
  <2> QED
    BY <1>h, <2>1, <2>2 DEF Discard, Ignore, AskAllowed
<1>8. \A g \in Consumed : pc'[g] = pc[g]
  BY <1>h, <1>2, ConsumedHandlers
     DEF Discard, Ignore, AskAllowed, Relay, Finish, Send, AuthorisedInv, TypeOK, MemoryOK
<1>9. NamesAllowed'
  <2>1. \A g \in Consumed :
          /\ seen'[g] \in Allowed[Conn(g)'] \cup {Nobody}
          /\ pc'[g] \in Cleared => MayCarry(g)'
          /\ pc'[g] \in Recording => Label(g)' # Nobody
    BY <1>2, <1>3, <1>8, Frame DEF AuthorisedInv, NamesAllowed
  <2> QED
    BY <1>2, <1>4, <1>6, <1>7, <2>1 DEF AuthorisedInv, NamesAllowed, store
<1> QED
  BY <1>5, <1>9

LEMMA ExecutionSafe ==
    ASSUME AuthorisedInv, NEW h \in Handlers, ExecuteAny(h)
    PROVE  NamesAllowed' /\ Effects'
<1>1. UNCHANGED <<log, seen, players, up>>
  BY DEF ExecuteAny, Execute, ExecuteGetAllowed, ExecuteSetCurrent,
     ExecutePersistCurrent, ExecuteKeepAlive, ExecuteRemovePosition,
     ExecuteBroadcast, ExecuteIncrease, ExecuteExpire, ExecuteSetAttributes,
     ExecutePersistUser, ExecuteAddPoint
<1>2. /\ Consumed' = Consumed
      /\ \A g \in Consumed : log'[g] = log[g] /\ seen'[g] = seen[g]
  BY <1>1 DEF Consumed
<1>3. h \in Consumed /\ Conn(h) \in Connections
  <2>1. pc[h] \in Commands
    BY DEF ExecuteAny, Execute, ExecuteGetAllowed, ExecuteSetCurrent,
       ExecutePersistCurrent, ExecuteKeepAlive, ExecuteRemovePosition,
       ExecuteBroadcast, ExecuteIncrease, ExecuteExpire, ExecuteSetAttributes,
       ExecutePersistUser, ExecuteAddPoint, Commands, ConnectionCommands,
       UserCommands, TrackerCommands
  <2>2. h \in Consumed
    BY <2>1 DEF AuthorisedInv, HandlersConsumed, Commands, ConnectionCommands,
       UserCommands, TrackerCommands
  <2>3. log[h] \in Messages
    BY <2>2 DEF AuthorisedInv, TypeOK, MemoryOK, Consumed
  <2> QED
    BY <2>2, <2>3, MessagesAssumption DEF Conn
<1>4. CASE ExecuteGetAllowed(h)
  <2>1. UNCHANGED store
    BY <1>4 DEF ExecuteGetAllowed
  <2>2. Effects'
    BY <1>2, <2>1, EffectsFrame
  <2>3. \A g \in Consumed : g # h => pc'[g] = pc[g]
    BY <1>4, ConsumedHandlers DEF ExecuteGetAllowed, AuthorisedInv, TypeOK, MemoryOK
  <2>4. pc'[h] \in Cleared => MayCarry(h)
    <3>1. pc'[h] = IF log[h].name \in AllowedCharacters(Conn(h))
                   THEN "granted" ELSE "refused"
      BY <1>4 DEF ExecuteGetAllowed, AuthorisedInv, TypeOK, MemoryOK
    <3>2. Label(h) = log[h].name
      BY <1>4 DEF ExecuteGetAllowed, Execute, AuthorisedInv, HandlersConsumed,
         Announcing, Label
    <3>3. AllowedCharacters(Conn(h)) \subseteq Allowed[Conn(h)]
      BY DEF AllowedCharacters
    <3> QED
      BY <3>1, <3>2, <3>3 DEF MayCarry, Cleared, Commands, ConnectionCommands,
         UserCommands, TrackerCommands
  <2>5. pc'[h] \notin Recording
    BY <1>4 DEF ExecuteGetAllowed, Recording, AuthorisedInv, TypeOK, MemoryOK
  <2>6. \A g \in Consumed :
          /\ seen'[g] \in Allowed[Conn(g)'] \cup {Nobody}
          /\ pc'[g] \in Cleared => MayCarry(g)'
          /\ pc'[g] \in Recording => Label(g)' # Nobody
    BY <1>2, <2>3, <2>4, <2>5, Frame DEF AuthorisedInv, NamesAllowed
  <2> QED
    BY <1>1, <1>2, <2>1, <2>2, <2>6 DEF AuthorisedInv, NamesAllowed, store
<1>5. ASSUME UNCHANGED pc PROVE NamesAllowed'
  BY <1>1, <1>2, <1>5, Frame DEF AuthorisedInv, NamesAllowed
<1>7. \A g \in Consumed : /\ Conn(g)' = Conn(g)
                          /\ Label(g)' = Label(g)
                          /\ MayCarry(g)' <=> MayCarry(g)
  BY <1>2, Frame
<1>8. pc[h] \in Commands /\ pc[h] # "getAllowed" => MayCarry(h)
  BY <1>3 DEF AuthorisedInv, NamesAllowed, Cleared
<1>9. CASE ExecutePersistCurrent(h)
  BY <1>2, <1>5, <1>9, EffectsFrame DEF ExecutePersistCurrent, store
<1>10. CASE ExecuteSetCurrent(h)
  <2>1. UNCHANGED <<pc, profiles, geo, feed>>
    BY <1>10 DEF ExecuteSetCurrent
  <2>2. \A k \in Connections :
           sessions'[k].current =
                IF k = Conn(h) THEN log[h].name ELSE sessions[k].current
    BY <1>10 DEF ExecuteSetCurrent, AuthorisedInv, TypeOK, StoreOK
  <2>3. log[h].name \in Allowed[Conn(h)]
    <3>1. MayCarry(h) /\ Named(log[h])
      BY <1>8, <1>10 DEF ExecuteSetCurrent, Execute, AuthorisedInv, HandlersConsumed,
         Announcing, Commands, ConnectionCommands
    <3> QED
      BY <3>1, NamesAssumption DEF MayCarry, Label, Named
  <2>4. EffectsConsumed' /\ FeedAuthorised'
    BY <1>2, <1>7, <2>1 DEF AuthorisedInv, EffectsConsumed, FeedAuthorised
  <2>5. StoreAuthorised'
    BY <1>2, <1>7, <2>1, <2>2, <2>3 DEF AuthorisedInv, EffectsConsumed, StoreAuthorised
  <2> QED
    BY <1>5, <2>1, <2>2, <2>4, <2>5 DEF Effects
<1>11. CASE ExecuteIncrease(h) \/ ExecuteExpire(h)
  <2>1. UNCHANGED <<pc, profiles, geo, feed>>
    BY <1>11 DEF ExecuteIncrease, ExecuteExpire
  <2>2. \A k \in Connections :
           sessions'[k].current = sessions[k].current
    <3>1. CASE ExecuteIncrease(h)
      BY <3>1 DEF ExecuteIncrease, AuthorisedInv, TypeOK, StoreOK
    <3>2. CASE ExecuteExpire(h)
      <4>1. Present(sessions[Conn(h)]) \in BOOLEAN
        BY DEF Present
      <4> QED
        BY <3>2, <4>1 DEF ExecuteExpire, AuthorisedInv, TypeOK, StoreOK
    <3> QED
      BY <1>11, <3>1, <3>2
  <2>3. EffectsConsumed' /\ FeedAuthorised' /\ StoreAuthorised'
    BY <1>2, <1>7, <2>1, <2>2
       DEF AuthorisedInv, EffectsConsumed, FeedAuthorised, StoreAuthorised
  <2> QED
    BY <1>5, <2>1, <2>2, <2>3 DEF Effects
<1>12. CASE ExecuteBroadcast(h)
  <2>1. UNCHANGED <<pc, sessions, profiles, geo>> /\ feed' = Append(feed, h)
    BY <1>12 DEF ExecuteBroadcast
  <2>2. MayCarry(h)
    BY <1>8, <1>12 DEF ExecuteBroadcast, Execute, Commands
  <2>3. \A i \in 1 .. Len(feed') :
          feed'[i] = h \/ \E j \in 1 .. Len(feed) : feed'[i] = feed[j]
    BY <2>1, AppendProperties DEF AuthorisedInv, TypeOK, StoreOK
  <2>4. EffectsConsumed' /\ FeedAuthorised'
    BY <1>2, <1>3, <1>7, <2>1, <2>2, <2>3 DEF AuthorisedInv, EffectsConsumed, FeedAuthorised
  <2>5. StoreAuthorised'
    BY <1>2, <1>7, <2>1 DEF AuthorisedInv, EffectsConsumed, StoreAuthorised
  <2> QED
    BY <1>5, <2>1, <2>4, <2>5 DEF Effects
<1>13. CASE \/ ExecuteKeepAlive(h) \/ ExecuteRemovePosition(h)
            \/ ExecuteSetAttributes(h) \/ ExecutePersistUser(h)
            \/ ExecuteAddPoint(h)
  <2>1. UNCHANGED <<pc, sessions, feed>>
    BY <1>13 DEF ExecuteKeepAlive, ExecuteRemovePosition, ExecuteSetAttributes,
                 ExecutePersistUser, ExecuteAddPoint
  <2>2. pc[h] \in Recording => Label(h) \in Allowed[Conn(h)]
    BY <1>3, <1>8 DEF AuthorisedInv, NamesAllowed, MayCarry, Recording, Commands,
       UserCommands, TrackerCommands
  <2>3. \A c \in Characters :
          /\ \/ profiles'[c].by = profiles[c].by
             \/ profiles'[c].by = Conn(h) /\ c = Label(h) /\ pc[h] \in Recording
          /\ \/ geo'[c] \in {0, geo[c]}
             \/ geo'[c] = h /\ c = Label(h) /\ pc[h] \in Recording
    <3>1. CASE ExecuteKeepAlive(h)
      BY <3>1 DEF ExecuteKeepAlive, AuthorisedInv, TypeOK, StoreOK
    <3>2. CASE ExecuteRemovePosition(h)
      BY <3>2 DEF ExecuteRemovePosition, AuthorisedInv, TypeOK, StoreOK
    <3>3. CASE ExecuteSetAttributes(h)
      BY <3>3 DEF ExecuteSetAttributes, Execute, Recording, AuthorisedInv, TypeOK, StoreOK
    <3>4. CASE ExecutePersistUser(h)
      BY <3>4 DEF ExecutePersistUser, AuthorisedInv, TypeOK, StoreOK
    <3>5. CASE ExecuteAddPoint(h)
      BY <3>5 DEF ExecuteAddPoint, Execute, Recording, AuthorisedInv, TypeOK, StoreOK
    <3> QED
      BY <1>13, <3>1, <3>2, <3>3, <3>4, <3>5
  <2>4. EffectsConsumed'
    BY <1>2, <1>3, <2>1, <2>3 DEF AuthorisedInv, EffectsConsumed
  <2>5. FeedAuthorised'
    BY <1>7, <2>1 DEF AuthorisedInv, EffectsConsumed, FeedAuthorised
  <2>6. StoreAuthorised'
    BY <1>3, <1>7, <2>1, <2>2, <2>3 DEF AuthorisedInv, EffectsConsumed, StoreAuthorised
  <2> QED
    BY <1>5, <2>1, <2>4, <2>5, <2>6 DEF Effects
<1> QED
  BY <1>4, <1>9, <1>10, <1>11, <1>12, <1>13 DEF ExecuteAny

\* Resuming, a handler only moves on to what it has been cleared for.
LEMMA ResumptionSafe ==
    ASSUME AuthorisedInv, NEW h \in Handlers, ResumeAny(h) \/ FailPoint(h)
    PROVE  NamesAllowed' /\ Effects'
<1>1. UNCHANGED <<log, seen, store>> /\ pc[h] # "idle"
  BY DEF ResumeAny, Refuse, Grant, Continue, Recheck, Complete, FailPoint, Resume
<1>2. /\ Consumed' = Consumed
      /\ \A g \in Consumed : log'[g] = log[g] /\ seen'[g] = seen[g]
  BY <1>1 DEF Consumed
<1>3. Effects'
  BY <1>1, <1>2, EffectsFrame
<1>4. h \in Consumed /\ Conn(h) \in Connections
  <2>1. h \in Consumed
    BY <1>1 DEF AuthorisedInv, HandlersConsumed
  <2>2. log[h] \in Messages
    BY <2>1 DEF AuthorisedInv, TypeOK, MemoryOK, Consumed
  <2> QED
    BY <2>1, <2>2, MessagesAssumption DEF Conn
<1>5. \A k \in Connections : players'[k] \in Allowed[k] \cup {Nobody}
  <2>1. CASE Grant(h)
    <3>1. MayCarry(h) /\ Named(log[h])
      BY <1>4, <2>1 DEF Grant, Resume, AuthorisedInv, NamesAllowed, HandlersConsumed,
         Cleared, Announcing
    <3>2. log[h].name \in Allowed[Conn(h)]
      BY <3>1, NamesAssumption DEF MayCarry, Label, Named
    <3> QED
      BY <2>1, <3>2 DEF Grant, AuthorisedInv, NamesAllowed, TypeOK, MemoryOK
  <2>2. CASE FailPoint(h)
    BY <2>2 DEF FailPoint, Die, Unknown
  <2>3. CASE ~Grant(h) /\ ~FailPoint(h)
    BY <2>3 DEF ResumeAny, Refuse, Continue, Recheck, Complete, AuthorisedInv, NamesAllowed
  <2> QED
    BY <2>1, <2>2, <2>3
<1>6. /\ \A g \in Consumed : g # h => pc'[g] = pc[g]
      /\ pc'[h] \in Cleared => pc[h] \in Cleared
      /\ pc'[h] \in Recording => pc[h] \in Recording \/ StillPlays(h)
  <2>1. CASE UNCHANGED pc
    BY <2>1
  <2>2. CASE Finish(h)
    BY <2>2, ConsumedHandlers DEF Finish, AuthorisedInv, TypeOK, MemoryOK, Cleared, Recording,
       Commands, ConnectionCommands, UserCommands, TrackerCommands
  <2>3. ASSUME NEW next \in Commands, Send(h, next),
               next # "getAllowed", pc[h] \in Cleared,
               next \in Recording => pc[h] \in Recording \/ StillPlays(h)
        PROVE  <1>6
    BY <2>3, ConsumedHandlers DEF Send, AuthorisedInv, TypeOK, MemoryOK, Cleared
  <2>4. CASE Grant(h) \/ Continue(h)
    <3>1. \E next \in Commands : /\ Send(h, next)
                                 /\ next # "getAllowed"
                                 /\ pc[h] \in Cleared
                                 /\ next \in Recording => pc[h] \in Recording
      BY <2>4, CommandTypes DEF Grant, Continue, Resume, Publication, Cleared, Recording
    <3> QED
      BY <2>3, <3>1
  <2>5. CASE Recheck(h) /\ StillPlays(h)
    <3>1. /\ Send(h, "setAttributes") /\ "setAttributes" \in Commands
          /\ pc[h] \in Cleared
      BY <2>5, CommandTypes DEF Recheck, Resume, Cleared
    <3> QED
      BY <2>3, <2>5, <3>1
  <2> QED
    BY <2>1, <2>2, <2>4, <2>5
       DEF ResumeAny, Refuse, Recheck, Complete, FailPoint, Die
<1>7. \A g \in Consumed :
        /\ seen'[g] \in Allowed[Conn(g)'] \cup {Nobody}
        /\ pc'[g] \in Cleared => MayCarry(g)'
        /\ pc'[g] \in Recording => Label(g)' # Nobody
  BY <1>2, <1>4, <1>6, Frame DEF AuthorisedInv, NamesAllowed, StillPlays
<1> QED
  BY <1>1, <1>2, <1>3, <1>5, <1>7 DEF AuthorisedInv, NamesAllowed, store

LEMMA EnvironmentSafe ==
    ASSUME AuthorisedInv,
           \/ Crash \/ Restart
           \/ \E k \in Connections : SessionExpires(k)
           \/ \E c \in Characters : ProfileExpires(c)
    PROVE  NamesAllowed' /\ Effects'
<1>1. /\ UNCHANGED <<log, seen>> /\ Consumed' = Consumed
      /\ \A g \in Consumed : log'[g] = log[g] /\ seen'[g] = seen[g]
  BY DEF Crash, Die, Restart, SessionExpires, ProfileExpires, memory, Consumed
<1>2. \A g \in Consumed : /\ Conn(g)' = Conn(g)
                          /\ Label(g)' = Label(g)
                          /\ MayCarry(g)' <=> MayCarry(g)
  BY <1>1, Frame
<1>3. Effects'
  <2>1. CASE Crash \/ Restart
    BY <1>1, <2>1, EffectsFrame DEF Crash, Die, Restart
  <2>2. ASSUME NEW k \in Connections, SessionExpires(k) PROVE Effects'
    BY <1>1, <1>2, <2>2 DEF SessionExpires, NoSession, Effects, EffectsConsumed,
       FeedAuthorised, StoreAuthorised, AuthorisedInv, TypeOK, StoreOK
  <2>3. ASSUME NEW c \in Characters, ProfileExpires(c) PROVE Effects'
    BY <1>1, <1>2, <2>3 DEF ProfileExpires, NoProfile, Effects, EffectsConsumed,
       FeedAuthorised, StoreAuthorised, AuthorisedInv, TypeOK, StoreOK
  <2> QED
    BY <2>1, <2>2, <2>3
<1>4. /\ \A k \in Connections : players'[k] \in {players[k], Nobody}
      /\ \A g \in Consumed : pc'[g] \in {pc[g], "lost"}
  <2>1. CASE Crash
    BY <2>1 DEF Crash, Die, Unknown, store
  <2>2. CASE Restart
    BY <2>2, ConsumedHandlers DEF Restart, store, AuthorisedInv
  <2>3. ASSUME NEW k \in Connections, SessionExpires(k) PROVE <1>4
    BY <2>3 DEF SessionExpires, NoSession, memory, AuthorisedInv, TypeOK, StoreOK
  <2>4. ASSUME NEW c \in Characters, ProfileExpires(c) PROVE <1>4
    BY <2>4 DEF ProfileExpires, memory
  <2> QED
    BY <2>1, <2>2, <2>3, <2>4
<1>5. NamesAllowed'
  BY <1>1, <1>2, <1>4 DEF AuthorisedInv, NamesAllowed, Cleared, Recording, Commands,
     ConnectionCommands, UserCommands, TrackerCommands
<1> QED
  BY <1>3, <1>5

LEMMA AuthorisedStep ==
    ASSUME AuthorisedInv, [Next]_vars
    PROVE  AuthorisedInv'
<1>1. TypeOK' /\ HandlersConsumed'
  BY TypeStep DEF AuthorisedInv, TypeInv
<1>2. NamesAllowed' /\ Effects'
  <2>1. CASE UNCHANGED vars
    <3>1. /\ UNCHANGED store /\ Consumed' = Consumed
          /\ \A g \in Consumed : log'[g] = log[g] /\ seen'[g] = seen[g]
      BY <2>1 DEF vars, memory, store, Consumed
    <3>2. Effects'
      BY <3>1, EffectsFrame
    <3> QED
      BY <2>1, <3>1, <3>2, Frame DEF vars, memory, store, AuthorisedInv, NamesAllowed
  <2>2. CASE Next
    BY <2>2, ArrivalsSafe, ExecutionSafe, ResumptionSafe, EnvironmentSafe DEF Next
  <2> QED
    BY <2>1, <2>2
<1> QED
  BY <1>1, <1>2 DEF AuthorisedInv, Effects

LEMMA AuthorisedInvariant == Spec => []AuthorisedInv
<1>1. Init => AuthorisedInv
  <2>1. Init => NamesAllowed /\ Effects
    BY MessagesAssumption
       DEF Init, Effects, NamesAllowed, EffectsConsumed, FeedAuthorised,
           StoreAuthorised, Consumed, Fresh, Unknown, NoProfile
  <2>2. Init => TypeOK /\ HandlersConsumed
    BY InitType, MessagesAssumption DEF Init, HandlersConsumed, Announcing
  <2> QED
    BY <2>1, <2>2 DEF AuthorisedInv, Effects
<1> QED
  BY <1>1, AuthorisedStep, PTL DEF Spec

\* The feed only carries names their connection is allowed to use.
THEOREM FeedIsAuthorised == Spec => []FeedAuthorised
BY AuthorisedInvariant, PTL DEF AuthorisedInv

\* The store only records names their connection is allowed to use.
THEOREM StoreIsAuthorised == Spec => []StoreAuthorised
BY AuthorisedInvariant, PTL DEF AuthorisedInv
=============================================================================
