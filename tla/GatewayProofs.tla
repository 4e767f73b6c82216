--------------------------- MODULE GatewayProofs ---------------------------
(* Proofs about Gateway, for any keys and accounts, any number of requests *)
(* and of commands that fail.                                              *)
EXTENDS Gateway, TLAPS

-----------------------------------------------------------------------------
(* Type correctness. *)

LEMMA InitType == Init => TypeOK
BY GatewayAssumption DEF Init, TypeOK, AskedOK, NoRequest, Ended

LEMMA AskType ==
    ASSUME TypeOK, NEW r \in Requests, NEW command \in {"calls", "read"},
           NEW first \in SUBSET Calls, NEW asked,
           asked \in [kind : {"none", "challenge", "solve", "authenticate"},
                      key : Keys \cup {None}, challenge : Requests \cup {None},
                      passport : Keys \cup {None}],
           Ask(r, asked, command, first)
    PROVE  TypeOK'
<1>1. AskedOK'
  BY DEF Ask, TypeOK, AskedOK
<1>2. /\ pc' \in [Requests -> Ended \cup {"register", "read", "unlink", "calls"}]
      /\ calls' \in [Requests -> SUBSET Calls]
  BY DEF Ask, TypeOK
<1> QED
  BY <1>1, <1>2 DEF Ask, TypeOK

LEMMA AsksType ==
    ASSUME TypeOK, NEW r \in Requests, NEW k \in Keys,
           \/ AskChallenge(r, k)
           \/ \E c \in Requests : AskSolve(r, c, k)
           \/ \E p \in Keys \cup {None} : AskAuthenticate(r, k, p)
    PROVE  TypeOK'
<1>1. CASE AskChallenge(r, k)
  BY <1>1, AskType DEF AskChallenge, NoRequest, Calls
<1>2. ASSUME NEW c \in Requests, AskSolve(r, c, k) PROVE TypeOK'
  BY <1>2, AskType DEF AskSolve, NoRequest, Calls
<1>3. ASSUME NEW p \in Keys \cup {None}, AskAuthenticate(r, k, p) PROVE TypeOK'
  BY <1>3, AskType DEF AskAuthenticate, NoRequest, Calls
<1> QED
  BY <1>1, <1>2, <1>3

LEMMA EndType ==
    ASSUME TypeOK, NEW r \in Requests, NEW result \in Answers, End(r, result)
    PROVE  /\ pc' \in [Requests -> Ended \cup {"register", "read", "unlink", "calls"}]
           /\ calls' \in [Requests -> SUBSET Calls]
           /\ answer' \in [Requests -> Answers \cup {None}]
BY DEF TypeOK, End, Ended

LEMMA ProceedType ==
    ASSUME TypeOK, RequestsPlaced, NEW r \in Requests,
           Proceed(r) \/ FailCommand(r)
    PROVE  TypeOK'
<1>0. /\ pc[r] # "idle" => Key(r) \in Keys
      /\ request[r].kind = "solve" => Challenge(r) \in Requests
      /\ request[r].kind = "solve" /\ pc[r] = "calls" => held[r] \in Keys
  BY DEF RequestsPlaced, TypeOK, OfKind
<1> USE DEF AskedOK
<1>1. CASE Register(r)
  BY <1>0, <1>1, EndType DEF Register, TypeOK, Answers
<1>2. CASE Read(r)
  <2>1. held' \in [Requests -> Keys \cup {None}]
    BY <1>0, <1>2 DEF Read, RequestsPlaced, TypeOK
  <2>2. CASE challenges[Challenge(r)] = None
    BY <1>2, <2>1, <2>2, EndType DEF Read, TypeOK, Answers
  <2>3. CASE challenges[Challenge(r)] # None
    BY <1>2, <2>1, <2>3 DEF Read, TypeOK
  <2> QED
    BY <2>2, <2>3
<1>3. CASE Unlink(r)
  BY <1>0, <1>3 DEF Unlink, TypeOK, Calls
<1>4. CASE AskTokenInfo(r)
  BY <1>4 DEF AskTokenInfo, TypeOK, Calls
<1>5. CASE StartRegister(r)
  BY <1>5 DEF StartRegister, TypeOK
<1>6. ASSUME NEW call \in Calls, AwaitOthers(r, call) PROVE TypeOK'
  BY <1>6 DEF AwaitOthers, TypeOK
<1>7. ASSUME NEW call \in Calls, Judge(r, call) PROVE TypeOK'
  <2>1. held[r] \in Keys
    BY <1>0, <1>7 DEF Judge, Replies, Replied
  <2> DEFINE result == IF Solves(r) THEN "passport" ELSE "badSolution"
  <2>2. result \in Answers /\ End(r, result)
    BY <1>7 DEF Judge, Answers
  <2> HIDE DEF result
  <2>3. passports' \subseteq Keys
    BY <1>7, <2>1 DEF Judge, SignElevation, TypeOK
  <2> QED
    BY <1>7, <2>2, <2>3, EndType DEF Judge, TypeOK
<1>8. ASSUME NEW call \in Calls, Sign(r, call) PROVE TypeOK'
  <2> DEFINE result ==
        IF IsSignatureValid(r) THEN "verified" ELSE "authenticated"
  <2>1. result \in Answers /\ End(r, result)
    BY <1>8 DEF Sign, Answers
  <2> HIDE DEF result
  <2> QED
    BY <1>8, <2>1, EndType DEF Sign, TypeOK
<1>9. ASSUME NEW call \in Calls, FailCall(r, call) PROVE TypeOK'
  <2> DEFINE result == IF request[r].kind = "challenge" \/ call = "characters"
                       THEN "badCredential" ELSE "upstream"
  <2>1. result \in Answers /\ End(r, result)
    BY <1>9 DEF FailCall, Answers
  <2> HIDE DEF result
  <2> QED
    BY <1>9, <2>1, EndType DEF FailCall, TypeOK
<1>10. CASE FailCommand(r)
  <2>1. failures' \in 0 .. MaxFailures
    BY <1>10, GatewayAssumption DEF FailCommand, TypeOK
  <2>2. challenges' \in [Requests -> Keys \cup {None}]
    BY <1>0, <1>10 DEF FailCommand, FailRegister, FailConsume, TypeOK
  <2>3. \E result \in Answers : End(r, result)
    BY <1>10 DEF FailCommand, FailRegister, FailConsume, Answers
  <2> QED
    BY <1>10, <2>1, <2>2, <2>3, EndType DEF FailCommand, TypeOK
<1> QED
  BY <1>1, <1>2, <1>3, <1>4, <1>5, <1>6, <1>7, <1>8, <1>9, <1>10
  DEF Proceed, Reply

LEMMA OthersType ==
    ASSUME TypeOK,
           \/ \E c \in Requests : Expire(c)
           \/ Restart
           \/ \E k \in Keys, c \in Requests : CreateKey(k, c)
           \/ UNCHANGED vars
    PROVE  TypeOK'
<1>1. ASSUME NEW c \in Requests, Expire(c) PROVE TypeOK'
  BY <1>1 DEF Expire, process, TypeOK, AskedOK
<1>2. CASE Restart
  BY <1>2 DEF Restart, TypeOK, AskedOK, Ended
<1>3. ASSUME NEW k \in Keys, NEW c \in Requests, CreateKey(k, c) PROVE TypeOK'
  BY <1>3 DEF CreateKey, process, TypeOK, AskedOK
<1>4. CASE UNCHANGED vars
  BY <1>4 DEF vars, process, TypeOK, AskedOK
<1> QED
  BY <1>1, <1>2, <1>3, <1>4

LEMMA NextType == TypeOK /\ RequestsPlaced /\ [Next]_vars => TypeOK'
BY AsksType, ProceedType, OthersType DEF Next

-----------------------------------------------------------------------------
(* What a step leaves alone. *)

LEMMA InitInv == Init => ProvedInv
<1> SUFFICES ASSUME Init PROVE ProvedInv
  OBVIOUS
<1>1. TypeOK
  BY InitType
<1>2. \A r \in Requests : /\ request[r] = NoRequest /\ pc[r] = "idle"
                          /\ challenges[r] = None /\ held[r] = None
                          /\ answer[r] = None
  BY DEF Init
<1>3. RequestsPlaced
  BY <1>2 DEF RequestsPlaced, NoRequest
<1>4. ChallengesTrue
  BY <1>2 DEF ChallengesTrue, OfKind
<1>5. VerifiedIsProved
  BY <1>2, GatewayAssumption DEF VerifiedIsProved, Answers
<1> QED
  BY <1>1, <1>3, <1>4, <1>5 DEF ProvedInv, Init

\* A request moves alone, asks what it asked, and takes no passport back.
LEMMA OneMoves ==
    ASSUME TypeOK, NEW r \in Requests, Proceed(r) \/ FailCommand(r)
    PROVE  /\ UNCHANGED <<named, request>>
           /\ passports \subseteq passports'
           /\ \A q \in Requests \ {r} : /\ pc'[q] = pc[q] /\ answer'[q] = answer[q]
                                        /\ held'[q] = held[q]
<1> USE DEF TypeOK
<1>1. CASE Register(r) \/ FailCommand(r)
  BY <1>1 DEF Register, FailCommand, FailRegister, FailConsume, End
<1>2. CASE Read(r) \/ Unlink(r)
  BY <1>2 DEF Read, Unlink, End
<1>3. CASE AskTokenInfo(r) \/ StartRegister(r)
  BY <1>3 DEF AskTokenInfo, StartRegister
<1>4. CASE \E call \in Calls : AwaitOthers(r, call)
  BY <1>4 DEF AwaitOthers
<1>5. CASE \E call \in Calls : Judge(r, call)
  BY <1>5 DEF Judge, End
<1>6. CASE \E call \in Calls : Sign(r, call) \/ FailCall(r, call)
  BY <1>6 DEF Sign, FailCall, End
<1> QED
  BY <1>1, <1>2, <1>3, <1>4, <1>5, <1>6 DEF Proceed, Reply

\* What was proved stays proved: neither requests nor keys change.
LEMMA ProvedStays ==
    ASSUME TypeOK, RequestsPlaced, [Next]_vars, NEW k, Proved(k)
    PROVE  Proved(k)'
<1>1. PICK c \in OfKind("challenge"), j \in Keys :
        Key(c) = k /\ Owner[j] = Owner[k] /\ named[j] = c
  BY DEF Proved
<1>2. c \in Requests /\ request[c] # NoRequest /\ c # None
  BY <1>1, GatewayAssumption DEF OfKind, NoRequest, Requests
<1>3. request'[c] = request[c] /\ named'[j] = named[j]
  <2>1. CASE \E r \in Requests : Proceed(r) \/ FailCommand(r)
    BY <2>1, OneMoves
  <2>2. ASSUME NEW r \in Requests, NEW l \in Keys,
               \/ AskChallenge(r, l)
               \/ \E d \in Requests : AskSolve(r, d, l)
               \/ \E p \in Keys \cup {None} : AskAuthenticate(r, l, p)
        PROVE  request'[c] = request[c] /\ named'[j] = named[j]
    BY <1>2, <2>2
    DEF AskChallenge, AskSolve, AskAuthenticate, Ask, TypeOK, AskedOK
  <2>3. ASSUME NEW d \in Requests, Expire(d)
        PROVE  request'[c] = request[c] /\ named'[j] = named[j]
    BY <2>3 DEF Expire, process
  <2>4. CASE Restart
    BY <2>4 DEF Restart
  <2>5. ASSUME NEW l \in Keys, NEW d \in Requests, CreateKey(l, d)
        PROVE  request'[c] = request[c] /\ named'[j] = named[j]
    BY <1>1, <1>2, <2>5 DEF CreateKey, process, TypeOK
  <2>6. CASE UNCHANGED vars
    BY <2>6 DEF vars, process
  <2> QED
    BY <2>1, <2>2, <2>3, <2>4, <2>5, <2>6 DEF Next
<1>4. c \in OfKind("challenge")' /\ Key(c)' = k
  BY <1>1, <1>3 DEF OfKind, Key
<1> QED
  BY <1>1, <1>3, <1>4 DEF Proved

-----------------------------------------------------------------------------
(* The invariant is inductive. *)

\* A new request is placed, and the others are where they were.
LEMMA AskKeeps ==
    ASSUME ProvedInv, NEW r \in Requests, NEW command, NEW first, NEW asked,
           Ask(r, asked, command, first),
           \/ command = "calls" /\ asked.kind \in {"challenge", "authenticate"}
           \/ command = "read" /\ asked.kind = "solve"
                /\ asked.challenge \in Answered,
           asked.key \in Keys, asked.passport \in passports \cup {None},
           asked # NoRequest
    PROVE  RequestsPlaced' /\ ChallengesTrue'
<1> USE DEF ProvedInv, TypeOK
<1>1. /\ UNCHANGED <<named, held, answer, challenges, passports>>
      /\ request'[r] = asked /\ pc'[r] = command
      /\ \A q \in Requests \ {r} : request'[q] = request[q] /\ pc'[q] = pc[q]
  BY DEF Ask, AskedOK
<1>2. request[r] = NoRequest /\ pc[r] = "idle" /\ request[r].kind = "none"
  BY DEF Ask, RequestsPlaced, NoRequest
<1>3. \A c \in Requests : c \in OfKind("challenge") =>
        c \in OfKind("challenge")' /\ c # r
  BY <1>1, <1>2 DEF OfKind
<1>4. answer[r] = None /\ challenges[r] = None
  BY <1>2 DEF RequestsPlaced, ChallengesTrue, OfKind
<1>5. held[r] = None
  BY <1>2 DEF ChallengesTrue, OfKind
<1>9. \A c \in Answered : pc[c] = "done"
  BY GatewayAssumption DEF Answered, OfKind, RequestsPlaced, Answers
<1>6. RequestsPlaced'
  <2>1. ASSUME NEW q \in Requests, q # r
        PROVE  /\ pc'[q] # "idle" <=> request'[q] # NoRequest
               /\ request'[q] # NoRequest =>
                    request'[q].kind # "none" /\ request'[q].key \in Keys
               /\ answer'[q] # None => pc'[q] = "done"
               /\ pc'[q] = "register" => request'[q].kind = "challenge"
               /\ pc'[q] \in {"read", "unlink"} => request'[q].kind = "solve"
               /\ request'[q].kind = "solve"
                    => /\ request'[q].challenge \in OfKind("challenge")'
                       /\ pc'[request'[q].challenge] = "done"
               /\ request'[q].kind = "solve" /\ pc'[q] \in {"unlink", "calls"}
                    => held'[q] # None
               /\ request'[q].passport \in passports' \cup {None}
    BY <1>1, <1>3, <2>1 DEF RequestsPlaced, Key, Challenge, OfKind
  <2>2. /\ pc'[r] # "idle" /\ request'[r] # NoRequest
        /\ request'[r].kind # "none" /\ request'[r].key \in Keys
        /\ answer'[r] = None
        /\ pc'[r] # "register"
        /\ pc'[r] \in {"read", "unlink"} => request'[r].kind = "solve"
        /\ request'[r].kind = "solve"
             => /\ request'[r].challenge \in OfKind("challenge")'
                /\ pc'[request'[r].challenge] = "done"
        /\ request'[r].kind = "solve" => pc'[r] = "read"
        /\ request'[r].passport \in passports' \cup {None}
    BY <1>1, <1>3, <1>4, <1>9 DEF OfKind, Answered
  <2> QED
    BY <2>1, <2>2 DEF RequestsPlaced, Key, Challenge
<1>7. ChallengesTrue'
  BY <1>1, <1>3, <1>4, <1>5 DEF ChallengesTrue, RequestsPlaced, OfKind, Key, Challenge
<1> QED
  BY <1>6, <1>7

\* A request that moves is placed where it goes.
LEMMA ProceedPlaced ==
    ASSUME ProvedInv, NEW r \in Requests, Proceed(r) \/ FailCommand(r)
    PROVE  RequestsPlaced'
<1> USE DEF ProvedInv, TypeOK
<1>1. /\ UNCHANGED <<named, request>>
      /\ passports \subseteq passports'
      /\ \A q \in Requests \ {r} : /\ pc'[q] = pc[q] /\ answer'[q] = answer[q]
                                   /\ held'[q] = held[q]
  BY OneMoves
<1>2. /\ pc[r] \notin {"idle", "done"} /\ pc'[r] # "idle"
      /\ answer[r] = None
      /\ answer'[r] # None => pc'[r] = "done"
      /\ pc'[r] = "register" => request[r].kind = "challenge"
      /\ pc'[r] \in {"read", "unlink"} => request[r].kind = "solve"
      /\ request[r].kind = "solve" /\ pc'[r] \in {"unlink", "calls"}
           => held'[r] # None
  <2>1. CASE Register(r)
    BY <2>1 DEF Register, End, RequestsPlaced
  <2>2. CASE Read(r)
    BY <2>2 DEF Read, End, RequestsPlaced
  <2>3. CASE Unlink(r)
    BY <2>3 DEF Unlink, RequestsPlaced
  <2>4. CASE AskTokenInfo(r) \/ StartRegister(r)
    BY <2>4 DEF AskTokenInfo, StartRegister, Replies, Replied, RequestsPlaced
  <2>5. CASE \E call \in Calls : AwaitOthers(r, call)
    BY <2>5 DEF AwaitOthers, Replied, RequestsPlaced
  <2>6. CASE \E call \in Calls : Judge(r, call) \/ Sign(r, call) \/ FailCall(r, call)
    BY <2>6 DEF Judge, Sign, FailCall, Replies, Replied, End, RequestsPlaced
  <2>7. CASE FailCommand(r)
    BY <2>7 DEF FailCommand, FailRegister, FailConsume, End, RequestsPlaced
  <2> QED
    BY <2>1, <2>2, <2>3, <2>4, <2>5, <2>6, <2>7 DEF Proceed, Reply
<1>3. ASSUME NEW q \in Requests
      PROVE  /\ request[q] # NoRequest => request[q].kind # "none" /\ Key(q) \in Keys
             /\ request[q].kind = "solve" => /\ Challenge(q) \in OfKind("challenge")
                                             /\ pc'[Challenge(q)] = "done"
             /\ request[q].passport \in passports' \cup {None}
  BY <1>1, <1>2 DEF RequestsPlaced, OfKind
<1>4. ASSUME NEW q \in Requests
      PROVE  /\ pc'[q] # "idle" <=> request[q] # NoRequest
             /\ answer'[q] # None => pc'[q] = "done"
             /\ pc'[q] = "register" => request[q].kind = "challenge"
             /\ pc'[q] \in {"read", "unlink"} => request[q].kind = "solve"
             /\ request[q].kind = "solve" /\ pc'[q] \in {"unlink", "calls"}
                  => held'[q] # None
  <2>1. CASE q = r
    BY <1>2, <2>1 DEF RequestsPlaced
  <2>2. CASE q # r
    BY <1>1, <2>2 DEF RequestsPlaced
  <2> QED
    BY <2>1, <2>2
<1> QED
  BY <1>1, <1>3, <1>4 DEF RequestsPlaced, Key, Challenge, OfKind

\* The store holds what was challenged, and a solution what it read there.
LEMMA ProceedTrue ==
    ASSUME ProvedInv, NEW r \in Requests, Proceed(r) \/ FailCommand(r)
    PROVE  ChallengesTrue'
<1> USE DEF ProvedInv, TypeOK
<1>1. UNCHANGED request
  BY OneMoves
<1>2. \A c \in Requests :
        challenges'[c] # None => \/ challenges'[c] = challenges[c]
                                 \/ c = r /\ pc[r] = "register" /\ challenges'[c] = Key(r)
  BY DEF Proceed, Register, Read, Unlink, AskTokenInfo, StartRegister, Reply,
         AwaitOthers, Judge, Sign, FailCall, FailCommand, FailRegister, FailConsume
<1>3. \A q \in Requests :
        held'[q] # None => \/ held'[q] = held[q]
                           \/ q = r /\ pc[r] = "read" /\ held'[q] = challenges[Challenge(r)]
  BY DEF Proceed, Register, Read, Unlink, AskTokenInfo, StartRegister, Reply,
         AwaitOthers, Judge, Sign, FailCall, FailCommand, FailRegister, FailConsume
<1>4. pc[r] = "register" => request[r].kind = "challenge"
  BY DEF RequestsPlaced
<1>5. pc[r] = "read" => request[r].kind = "solve" /\ Challenge(r) \in Requests
  BY DEF RequestsPlaced, OfKind
<1>6. ASSUME NEW c \in Requests, challenges'[c] # None
      PROVE  request[c].kind = "challenge" /\ challenges'[c] = Key(c)
  BY <1>2, <1>4, <1>6 DEF ChallengesTrue, OfKind
<1>7. ASSUME NEW q \in Requests, held'[q] # None
      PROVE  request[q].kind = "solve" /\ held'[q] = Key(Challenge(q))
  BY <1>3, <1>5, <1>7 DEF ChallengesTrue, OfKind
<1> QED
  BY <1>1, <1>6, <1>7 DEF ChallengesTrue, OfKind, Key, Challenge

LEMMA OthersKeep ==
    ASSUME ProvedInv,
           \/ \E c \in Requests : Expire(c)
           \/ Restart
           \/ \E k \in Keys, c \in Requests : CreateKey(k, c)
           \/ UNCHANGED vars
    PROVE  RequestsPlaced' /\ ChallengesTrue'
<1> USE DEF ProvedInv, TypeOK
<1>1. /\ UNCHANGED <<request, held, answer, passports>>
      /\ \A q \in Requests : \/ pc'[q] = pc[q]
                             \/ pc'[q] = "lost" /\ pc[q] \notin Ended
      /\ \A q \in Requests : challenges'[q] \in {challenges[q], None}
  <2>1. ASSUME NEW c \in Requests, Expire(c)
        PROVE  /\ UNCHANGED <<request, held, answer, passports, pc>>
               /\ \A q \in Requests : challenges'[q] \in {challenges[q], None}
    BY <2>1 DEF Expire, process
  <2>2. CASE Restart
    BY <2>2 DEF Restart
  <2>3. ASSUME NEW k \in Keys, NEW c \in Requests, CreateKey(k, c)
        PROVE  UNCHANGED <<request, held, answer, passports, pc, challenges>>
    BY <2>3 DEF CreateKey, process
  <2>4. CASE UNCHANGED vars
    BY <2>4 DEF vars, process
  <2> QED
    BY <2>1, <2>2, <2>3, <2>4
<1>2. ASSUME NEW q \in Requests
      PROVE  /\ pc'[q] # "idle" <=> pc[q] # "idle"
             /\ pc[q] = "done" => pc'[q] = "done"
             /\ pc'[q] \in {"register", "read", "unlink", "calls"} => pc'[q] = pc[q]
  BY <1>1 DEF Ended
<1>3. RequestsPlaced'
  BY <1>1, <1>2 DEF RequestsPlaced, Key, Challenge, OfKind
<1>4. ChallengesTrue'
  BY <1>1 DEF ChallengesTrue, Key, Challenge, OfKind
<1> QED
  BY <1>3, <1>4

LEMMA NextPlaced == ProvedInv /\ [Next]_vars => RequestsPlaced' /\ ChallengesTrue'
<1> SUFFICES ASSUME ProvedInv, [Next]_vars PROVE RequestsPlaced' /\ ChallengesTrue'
  OBVIOUS
<1>1. ASSUME NEW r \in Requests, NEW k \in Keys, AskChallenge(r, k)
      PROVE  RequestsPlaced' /\ ChallengesTrue'
  <2> DEFINE asked == [NoRequest EXCEPT !.kind = "challenge", !.key = k]
  <2>1. /\ asked.kind = "challenge" /\ asked.key = k /\ asked.passport = None
        /\ asked # NoRequest
    BY DEF NoRequest
  <2>2. Ask(r, asked, "calls", {"account"})
    BY <1>1 DEF AskChallenge
  <2> HIDE DEF asked
  <2> QED
    BY <2>1, <2>2, AskKeeps
<1>2. ASSUME NEW r \in Requests, NEW k \in Keys, NEW c \in Requests, AskSolve(r, c, k)
      PROVE  RequestsPlaced' /\ ChallengesTrue'
  <2> DEFINE asked == [NoRequest EXCEPT !.kind = "solve", !.key = k, !.challenge = c]
  <2>1. /\ asked.kind = "solve" /\ asked.key = k /\ asked.passport = None
        /\ asked.challenge = c /\ asked # NoRequest
    BY DEF NoRequest
  <2>2. Ask(r, asked, "read", {}) /\ c \in Answered
    BY <1>2 DEF AskSolve
  <2> HIDE DEF asked
  <2> QED
    BY <2>1, <2>2, AskKeeps
<1>3. ASSUME NEW r \in Requests, NEW k \in Keys, NEW p \in Keys \cup {None},
             AskAuthenticate(r, k, p)
      PROVE  RequestsPlaced' /\ ChallengesTrue'
  <2> DEFINE asked == [NoRequest EXCEPT !.kind = "authenticate", !.key = k,
                                         !.passport = p]
  <2>1. /\ asked.kind = "authenticate" /\ asked.key = k /\ asked.passport = p
        /\ asked # NoRequest
    BY DEF NoRequest
  <2>2. Ask(r, asked, "calls", {"characters", "account"}) /\ p \in passports \cup {None}
    BY <1>3 DEF AskAuthenticate
  <2> HIDE DEF asked
  <2> QED
    BY <2>1, <2>2, AskKeeps
<1> QED
  BY <1>1, <1>2, <1>3, ProceedPlaced, ProceedTrue, OthersKeep DEF Next

\* A passport is new only where a solution was judged right, ...
LEMMA PassportsProved ==
    ASSUME ProvedInv, [Next]_vars, NEW k \in passports'
    PROVE  Proved(k)'
<1> USE DEF ProvedInv, TypeOK
<1>1. CASE k \in passports
  BY <1>1, ProvedStays
<1>2. CASE k \notin passports
  <2>1. PICK r \in Requests, call \in Calls : Judge(r, call) /\ Solves(r) /\ k = held[r]
    BY <1>2
    DEF Next, AskChallenge, AskSolve, AskAuthenticate, Ask, Proceed, Register, Read,
        Unlink, AskTokenInfo, StartRegister, Reply, AwaitOthers, Judge,
        SignElevation, Sign, FailCall, FailCommand, Expire, Restart, CreateKey, vars
  <2>2. request[r].kind = "solve" /\ pc[r] = "calls"
    BY <2>1 DEF Judge, Replies, Replied
  <2>3. /\ held[r] = Key(Challenge(r)) /\ Challenge(r) \in OfKind("challenge")
        /\ Key(r) \in Keys
    BY <2>2 DEF RequestsPlaced, ChallengesTrue, NoRequest
  <2>4. Proved(k)
    BY <2>1, <2>3 DEF Proved, Solves
  <2> QED
    BY <2>4, ProvedStays
<1> QED
  BY <1>1, <1>2

\* ... and "verified" is answered only to who shows the passport of the key.
LEMMA NextVerified ==
    ASSUME ProvedInv, [Next]_vars
    PROVE  VerifiedIsProved'
<1> USE DEF ProvedInv, TypeOK
<1> SUFFICES ASSUME NEW r \in Requests, answer'[r] = "verified",
                    NEW k, k = request'[r].key
             PROVE  Proved(k)'
  BY DEF VerifiedIsProved, Key, Proved
<1>1. CASE UNCHANGED <<request, answer>>
  BY <1>1, ProvedStays DEF VerifiedIsProved, Key
<1>2. ASSUME NEW q \in Requests, NEW l \in Keys,
             \/ AskChallenge(q, l)
             \/ \E c \in Requests : AskSolve(q, c, l)
             \/ \E p \in Keys \cup {None} : AskAuthenticate(q, l, p)
      PROVE  Proved(k)'
  <2>1. request[q] = NoRequest /\ answer' = answer
        /\ \A s \in Requests \ {q} : request'[s] = request[s]
    BY <1>2 DEF AskChallenge, AskSolve, AskAuthenticate, Ask, AskedOK
  <2>2. answer[q] = None
    BY <2>1 DEF RequestsPlaced
  <2>3. r # q
    BY <2>1, <2>2, GatewayAssumption DEF Answers
  <2>4. Proved(Key(r)) /\ k = Key(r)
    BY <2>1, <2>3 DEF VerifiedIsProved, Key
  <2> QED
    BY <2>4, ProvedStays
<1>3. ASSUME NEW q \in Requests, Proceed(q) \/ FailCommand(q)
      PROVE  Proved(k)'
  <2>1. k = Key(r)
    BY <1>3, OneMoves DEF Key
  <2>2. CASE answer[r] = "verified"
    BY <2>1, <2>2, ProvedStays DEF VerifiedIsProved
  <2>3. CASE answer[r] # "verified"
    <3>1. q = r
      BY <1>3, <2>3, OneMoves
    <3>2. \E call \in Calls : Sign(r, call) /\ request[r].passport = Key(r)
      <4>1. CASE Register(r) \/ FailCommand(r)
        BY <2>3, <4>1 DEF Register, FailCommand, FailRegister, FailConsume, End
      <4>2. CASE Read(r) \/ Unlink(r)
        BY <2>3, <4>2 DEF Read, Unlink, End
      <4>3. CASE AskTokenInfo(r) \/ StartRegister(r)
        BY <2>3, <4>3 DEF AskTokenInfo, StartRegister
      <4>4. CASE \E call \in Calls : AwaitOthers(r, call)
        BY <2>3, <4>4 DEF AwaitOthers
      <4>5. CASE \E call \in Calls : Judge(r, call) \/ FailCall(r, call)
        BY <2>3, <4>5 DEF Judge, FailCall, End
      <4>6. CASE \E call \in Calls : Sign(r, call)
        BY <2>3, <4>6 DEF Sign, IsSignatureValid, End
      <4> QED
        BY <1>3, <3>1, <4>1, <4>2, <4>3, <4>4, <4>5, <4>6 DEF Proceed, Reply
    <3>3. Key(r) \in passports
      BY <3>2, GatewayAssumption DEF Sign, Replies, RequestsPlaced, NoRequest
    <3> QED
      BY <2>1, <3>3, ProvedStays
  <2> QED
    BY <2>2, <2>3
<1> QED
  BY <1>1, <1>2, <1>3 DEF Next, Expire, Restart, CreateKey, vars, process

-----------------------------------------------------------------------------
(* A challenge that an attempt consumed stays consumed. *)

LEMMA ProceedConsumes ==
    ASSUME ProvedInv, AttemptsConsumed, NEW r \in Requests, Proceed(r)
    PROVE  AttemptsConsumed'
<1> USE DEF ProvedInv, TypeOK
<1>1. /\ UNCHANGED request
      /\ \A q \in Requests \ {r} : pc'[q] = pc[q]
  BY OneMoves
<1>2. /\ UNCHANGED failures
      /\ \A c \in Requests :
           challenges'[c] # None => challenges'[c] = challenges[c] \/ pc[c] = "register"
      /\ request[r].kind = "solve" /\ pc'[r] \in {"calls", "done"}
           => pc[r] = "calls" \/ challenges'[Challenge(r)] = None
  <2>1. CASE Register(r)
    BY <2>1 DEF Register, RequestsPlaced
  <2>2. CASE Read(r)
    BY <2>2 DEF Read, End
  <2>3. CASE Unlink(r)
    <3>1. Challenge(r) \in Requests
      BY <2>3 DEF Unlink, RequestsPlaced, OfKind
    <3> QED
      BY <2>3, <3>1 DEF Unlink
  <2>4. CASE AskTokenInfo(r) \/ StartRegister(r)
    BY <2>4 DEF AskTokenInfo, StartRegister, Replies, Replied
  <2>5. CASE \E call \in Calls : AwaitOthers(r, call)
    BY <2>5 DEF AwaitOthers, Replied
  <2>6. CASE \E call \in Calls : Judge(r, call) \/ Sign(r, call) \/ FailCall(r, call)
    BY <2>6 DEF Judge, Sign, FailCall, Replies, Replied
  <2> QED
    BY <2>1, <2>2, <2>3, <2>4, <2>5, <2>6 DEF Proceed, Reply
<1> SUFFICES ASSUME failures = 0, NEW q \in OfKind("solve"), pc'[q] \in {"calls", "done"}
             PROVE  challenges'[Challenge(q)] = None
  BY <1>1, <1>2 DEF AttemptsConsumed, OfKind, Challenge
<1>3. Challenge(q) \in Requests /\ pc[Challenge(q)] = "done"
  BY DEF RequestsPlaced, OfKind
<1>4. pc[q] \in {"calls", "done"} => challenges[Challenge(q)] = None
  BY DEF AttemptsConsumed
<1>5. CASE q = r
  BY <1>2, <1>3, <1>4, <1>5 DEF OfKind
<1>6. CASE q # r
  BY <1>1, <1>2, <1>3, <1>4, <1>6 DEF OfKind
<1> QED
  BY <1>5, <1>6

LEMMA NextConsumes == ProvedInv /\ AttemptsConsumed /\ [Next]_vars => AttemptsConsumed'
<1> SUFFICES ASSUME ProvedInv, AttemptsConsumed, [Next]_vars PROVE AttemptsConsumed'
  OBVIOUS
<1> USE DEF ProvedInv, TypeOK
<1>1. ASSUME NEW r \in Requests, NEW asked, NEW command \in {"calls", "read"}, NEW first,
             Ask(r, asked, command, first), asked.kind = "solve" => command = "read"
      PROVE  AttemptsConsumed'
  <2>1. /\ UNCHANGED <<challenges, failures>>
        /\ request'[r] = asked /\ pc'[r] = command
        /\ \A q \in Requests \ {r} : request'[q] = request[q] /\ pc'[q] = pc[q]
    BY <1>1 DEF Ask, AskedOK
  <2> QED
    BY <1>1, <2>1 DEF AttemptsConsumed, OfKind, Challenge
<1>2. ASSUME NEW r \in Requests, NEW k \in Keys,
             \/ AskChallenge(r, k)
             \/ \E c \in Requests : AskSolve(r, c, k)
             \/ \E p \in Keys \cup {None} : AskAuthenticate(r, k, p)
      PROVE  AttemptsConsumed'
  <2>1. CASE AskChallenge(r, k)
    BY <1>1, <2>1 DEF AskChallenge, NoRequest
  <2>2. ASSUME NEW c \in Requests, AskSolve(r, c, k) PROVE AttemptsConsumed'
    BY <1>1, <2>2 DEF AskSolve, NoRequest
  <2>3. ASSUME NEW p \in Keys \cup {None}, AskAuthenticate(r, k, p)
        PROVE  AttemptsConsumed'
    BY <1>1, <2>3 DEF AskAuthenticate, NoRequest
  <2> QED
    BY <1>2, <2>1, <2>2, <2>3
<1>3. CASE \E r \in Requests : FailCommand(r)
  BY <1>3 DEF FailCommand, AttemptsConsumed
<1>4. ASSUME NEW c \in Requests, Expire(c) PROVE AttemptsConsumed'
  BY <1>4 DEF Expire, process, AttemptsConsumed, OfKind, Challenge, RequestsPlaced
<1>5. CASE Restart
  BY <1>5 DEF Restart, AttemptsConsumed, OfKind, Challenge
<1>6. ASSUME NEW k \in Keys, NEW c \in Requests, CreateKey(k, c) PROVE AttemptsConsumed'
  BY <1>6 DEF CreateKey, process, AttemptsConsumed, OfKind, Challenge
<1>7. CASE UNCHANGED vars
  BY <1>7 DEF vars, process, AttemptsConsumed, OfKind, Challenge
<1> QED
  BY <1>2, <1>3, <1>4, <1>5, <1>6, <1>7, ProceedConsumes DEF Next

-----------------------------------------------------------------------------

LEMMA Invariant == Spec => [](ProvedInv /\ AttemptsConsumed)
<1>1. Init => ProvedInv /\ AttemptsConsumed
  BY InitInv DEF Init, AttemptsConsumed, OfKind, NoRequest
<1>2. ProvedInv /\ AttemptsConsumed /\ [Next]_vars => (ProvedInv /\ AttemptsConsumed)'
  BY NextType, NextPlaced, PassportsProved, NextVerified, NextConsumes DEF ProvedInv
<1> QED
  BY <1>1, <1>2, PTL DEF Spec

\* Every variable of the gateway has the values the code can give it.
THEOREM TypeCorrect == Spec => []TypeOK
<1>1. ProvedInv => TypeOK
  BY DEF ProvedInv
<1> QED
  BY <1>1, Invariant, PTL

\* The badge says "verified" only for a key whose account's owner created a
\* key with the name that a challenge of that very key asked for.
THEOREM VerifiedKeysAreProved == Spec => []VerifiedIsProved
<1>1. ProvedInv => VerifiedIsProved
  BY DEF ProvedInv
<1> QED
  BY <1>1, Invariant, PTL

\* Unless Redis refused a command, an attempt that was answered leaves no
\* challenge for the next one.
THEOREM AttemptsConsume == Spec => []AttemptConsumes
<1>1. ProvedInv /\ AttemptsConsumed => AttemptConsumes
  BY DEF ProvedInv, AttemptsConsumed, AttemptConsumes, RequestsPlaced, OfKind
<1> QED
  BY <1>1, Invariant, PTL
=============================================================================
