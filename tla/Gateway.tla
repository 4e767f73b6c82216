------------------------------ MODULE Gateway ------------------------------
(***************************************************************************)
(* The API gateway with its two services (apps/api-gateway and             *)
(* packages/services/authentication): a player exchanges the API key of a  *)
(* game account for a token of the platform, and may first prove to own    *)
(* the account by creating a second key with a name the platform chose.    *)
(*                                                                         *)
(* The gateway keeps nothing but challenges, which are in Redis.  Requests *)
(* interleave at every command to Redis and every call to the game's API,  *)
(* where keys are created and revoked meanwhile.  A key stands for its     *)
(* token id and for its subtokens, which have the same id and account.     *)
(***************************************************************************)
EXTENDS Naturals

CONSTANTS
    Keys,           \* API keys of the game
    Accounts,       \* game accounts
    Owner,          \* the account of each key
    Existing,       \* the keys that exist to begin with
    MaxRequests,    \* bound: HTTP requests in a behaviour
    MaxFailures,    \* bound: Redis commands answered with an error
    None            \* no key, no challenge, no answer, no name

\* What a request may be answered.
Answers == {"puzzle", "passport", "verified", "authenticated", "badCredential",
            "badSolution", "upstream", "expired", "notSaved"}

ASSUME GatewayAssumption ==
    /\ Owner \in [Keys -> Accounts]
    /\ Existing \subseteq Keys
    /\ MaxRequests \in Nat
    /\ MaxFailures \in Nat
    /\ None \notin Keys \cup (1 .. MaxRequests) \cup {0}
    /\ None \notin Answers

\* The r-th request is r.  A challenge has the id of the request it answers.
Requests == 1 .. MaxRequests

\* A name for a key that answers no challenge.
Plain == 0

VARIABLES
    named,      \* the challenge each key was named for, or Plain; None: no key
    request,    \* what each request asks
    pc,         \* the Redis command a request waits for, "calls", or its end
    calls,      \* the calls to the game's API a request waits for
    held,       \* the challenged key each solution read from the store
    answer,     \* what each request was answered
    challenges, \* the hashes elevation:challenges:<id>: the challenged key
    passports,  \* the keys whose signed token id was given out
    failures    \* Redis commands that failed so far

process == <<request, pc, calls, held, answer>>
vars    == <<named, process, challenges, passports, failures>>

-----------------------------------------------------------------------------

NoRequest == [kind |-> "none", key |-> None, challenge |-> None, passport |-> None]

\* The key a request sends to the game's API, and the challenge it solves.
Key(r) == request[r].key
Challenge(r) == request[r].challenge
OfKind(kind) == {r \in Requests : request[r].kind = kind}

\* Ids and signatures reach the clients in answers only.
Answered == {c \in OfKind("challenge") : answer[c] = "puzzle"}

Ended == {"idle", "done", "lost"}

End(r, result) ==
    /\ pc' = [pc EXCEPT ![r] = "done"]
    /\ calls' = [calls EXCEPT ![r] = {}]
    /\ answer' = [answer EXCEPT ![r] = result]

-----------------------------------------------------------------------------
(* A request comes. *)

Ask(r, asked, command, first) ==
    /\ request[r] = NoRequest
    /\ \A q \in 1 .. r - 1 : request[q] # NoRequest
    /\ request' = [request EXCEPT ![r] = asked]
    /\ pc' = [pc EXCEPT ![r] = command]
    /\ calls' = [calls EXCEPT ![r] = first]
    /\ UNCHANGED <<named, held, answer, challenges, passports, failures>>

AskChallenge(r, k) ==
    Ask(r, [NoRequest EXCEPT !.kind = "challenge", !.key = k],
        "calls", {"account"})

AskSolve(r, c, k) ==
    /\ c \in Answered
    /\ Ask(r, [NoRequest EXCEPT !.kind = "solve", !.key = k, !.challenge = c],
           "read", {})

AskAuthenticate(r, k, p) ==
    /\ p \in passports \cup {None}
    /\ Ask(r, [NoRequest EXCEPT !.kind = "authenticate", !.key = k,
                                !.passport = p],
           "calls", {"characters", "account"})

-----------------------------------------------------------------------------
(* challenge *)

\* MUTANT: the hash has the challenge's id for the token's.
RegisterId(r) ==
    /\ pc[r] = "register"
    /\ challenges' = [challenges EXCEPT ![r] = r]
    /\ End(r, "puzzle")
    /\ UNCHANGED <<named, request, held, passports, failures>>

Register(r) ==
    /\ pc[r] = "register"
    /\ challenges' = [challenges EXCEPT ![r] = Key(r)]
    /\ End(r, "puzzle")
    /\ UNCHANGED <<named, request, held, passports, failures>>

-----------------------------------------------------------------------------
(* solve *)

\* MUTANT: a challenge that is gone is not answered.
ReadPresent(r) ==
    /\ pc[r] = "read"
    /\ challenges[Challenge(r)] # None
    /\ held' = [held EXCEPT ![r] = challenges[Challenge(r)]]
    /\ pc' = [pc EXCEPT ![r] = "unlink"]
    /\ UNCHANGED <<named, request, calls, answer, challenges, passports, failures>>

Read(r) ==
    /\ pc[r] = "read"
    /\ held' = [held EXCEPT ![r] = challenges[Challenge(r)]]
    /\ IF challenges[Challenge(r)] = None
       THEN End(r, "expired")
       ELSE pc' = [pc EXCEPT ![r] = "unlink"] /\ UNCHANGED <<calls, answer>>
    /\ UNCHANGED <<named, request, challenges, passports, failures>>

\* MUTANT: the challenge stays for another try.
UnlinkNothing(r) ==
    /\ pc[r] = "unlink"
    /\ pc' = [pc EXCEPT ![r] = "calls"]
    /\ calls' = [calls EXCEPT ![r] = {"account", "tokenInfo"}]
    /\ UNCHANGED <<named, request, held, answer, challenges, passports, failures>>

Unlink(r) ==
    /\ pc[r] = "unlink"
    /\ challenges' = [challenges EXCEPT ![Challenge(r)] = None]
    /\ pc' = [pc EXCEPT ![r] = "calls"]
    /\ calls' = [calls EXCEPT ![r] = {"account", "tokenInfo"}]
    /\ UNCHANGED <<named, request, held, answer, passports, failures>>

\* The solution is a key of the challenged account, with the right name.
Solves(r) == Owner[Key(r)] = Owner[held[r]] /\ named[Key(r)] = Challenge(r)

-----------------------------------------------------------------------------
(* The game's API answers a call; the request goes on with what it has. *)

Replied(r, call) ==
    /\ pc[r] = "calls" /\ call \in calls[r]
    /\ named[Key(r)] # None

\* The token's id is asked for after its account.
AskTokenInfo(r) ==
    /\ Replied(r, "account")
    /\ request[r].kind # "solve"
    /\ calls' = [calls EXCEPT ![r] = (@ \ {"account"}) \cup {"tokenInfo"}]
    /\ UNCHANGED <<named, request, pc, held, answer, challenges, passports,
                   failures>>

\* Others are still awaited.
AwaitOthers(r, call) ==
    /\ Replied(r, call)
    /\ calls[r] # {call}
    /\ request[r].kind = "solve" \/ call # "account"
    /\ calls' = [calls EXCEPT ![r] = @ \ {call}]
    /\ UNCHANGED <<named, request, pc, held, answer, challenges, passports,
                   failures>>

\* That was the last.
Replies(r, call, kind) ==
    /\ Replied(r, call)
    /\ calls[r] = {call}
    /\ request[r].kind = kind

StartRegister(r) ==
    /\ Replies(r, "tokenInfo", "challenge")
    /\ pc' = [pc EXCEPT ![r] = "register"]
    /\ calls' = [calls EXCEPT ![r] = {}]
    /\ UNCHANGED <<named, request, held, answer, challenges, passports, failures>>

\* MUTANT: the passport is for the key that was created.
JudgeSolution(r, call) ==
    /\ Replies(r, call, "solve")
    /\ End(r, IF Solves(r) THEN "passport" ELSE "badSolution")
    /\ passports' = IF Solves(r) THEN passports \cup {Key(r)} ELSE passports
    /\ UNCHANGED <<named, request, held, challenges, failures>>

\* The token id is signed with a key derived from its account: a signature is
\* as good as the token id it was made for.
SignElevation(r) == held[r]
IsSignatureValid(r) == request[r].passport = Key(r)

Judge(r, call) ==
    /\ Replies(r, call, "solve")
    /\ End(r, IF Solves(r) THEN "passport" ELSE "badSolution")
    /\ passports' = IF Solves(r) THEN passports \cup {SignElevation(r)} ELSE passports
    /\ UNCHANGED <<named, request, held, challenges, failures>>

Sign(r, call) ==
    /\ Replies(r, call, "authenticate")
    /\ call # "account"
    /\ End(r, IF IsSignatureValid(r) THEN "verified" ELSE "authenticated")
    /\ UNCHANGED <<named, request, held, challenges, passports, failures>>

Reply(r, call) ==
    \/ AwaitOthers(r, call)
    \/ Judge(r, call)
    \/ Sign(r, call)

\* The key is revoked, lacks a permission, or the API cannot be reached:
\* the first call to fail answers the request.
FailCall(r, call) ==
    /\ pc[r] = "calls" /\ call \in calls[r]
    /\ End(r, IF request[r].kind = "challenge" \/ call = "characters"
              THEN "badCredential" ELSE "upstream")
    /\ UNCHANGED <<named, request, held, challenges, passports, failures>>

-----------------------------------------------------------------------------
(* Redis answers with an error, whether it did what it was told or not, or   *)
(* lets a challenge expire; the process dies and starts again.               *)

FailRegister(r) ==
    /\ pc[r] = "register"
    /\ challenges' \in {challenges, [challenges EXCEPT ![r] = Key(r)]}
    /\ End(r, "notSaved")

FailConsume(r) ==
    /\ pc[r] \in {"read", "unlink"}
    /\ \/ UNCHANGED challenges
       \/ /\ pc[r] = "unlink"
          /\ challenges' = [challenges EXCEPT ![Challenge(r)] = None]
    /\ End(r, "expired")

FailCommand(r) ==
    /\ failures < MaxFailures
    /\ failures' = failures + 1
    /\ FailRegister(r) \/ FailConsume(r)
    /\ UNCHANGED <<named, request, held, passports>>

Expire(c) ==
    /\ challenges[c] # None
    /\ challenges' = [challenges EXCEPT ![c] = None]
    /\ UNCHANGED <<named, process, passports, failures>>

Restart ==
    /\ \E r \in Requests : pc[r] \notin Ended
    /\ pc' = [r \in Requests |-> IF pc[r] \in Ended THEN pc[r] ELSE "lost"]
    /\ calls' = [r \in Requests |-> {}]
    /\ UNCHANGED <<named, request, held, answer, challenges, passports, failures>>

-----------------------------------------------------------------------------
(* The game: its players create keys, with the names their puzzles ask for. *)

CreateKey(k, c) ==
    /\ named[k] = None
    /\ c \in Answered
    /\ named' = [named EXCEPT ![k] = c]
    /\ UNCHANGED <<process, challenges, passports, failures>>

-----------------------------------------------------------------------------

Init ==
    /\ named = [k \in Keys |-> IF k \in Existing THEN Plain ELSE None]
    /\ request = [r \in Requests |-> NoRequest]
    /\ pc = [r \in Requests |-> "idle"]
    /\ calls = [r \in Requests |-> {}]
    /\ held = [r \in Requests |-> None]
    /\ answer = [r \in Requests |-> None]
    /\ challenges = [r \in Requests |-> None]
    /\ passports = {}
    /\ failures = 0

Calls == {"account", "tokenInfo", "characters"}

\* A call the API does not answer fails after some minutes.
Proceed(r) ==
    \/ Register(r)
    \/ Read(r)
    \/ Unlink(r)
    \/ AskTokenInfo(r)
    \/ StartRegister(r)
    \/ \E call \in Calls : Reply(r, call) \/ FailCall(r, call)

Next ==
    \/ \E r \in Requests, k \in Keys :
        \/ AskChallenge(r, k)
        \/ \E c \in Requests : AskSolve(r, c, k)
        \/ \E p \in Keys \cup {None} : AskAuthenticate(r, k, p)
    \/ \E r \in Requests : Proceed(r) \/ FailCommand(r) \/ Expire(r)
    \/ Restart
    \/ \E k \in Keys, c \in Requests : CreateKey(k, c)

\* Redis answers, Node resumes, and a call to the game's API ends.
Fairness == \A r \in Requests : WF_vars(Proceed(r))

Spec == Init /\ [][Next]_vars /\ Fairness

-----------------------------------------------------------------------------
(* Types. *)

AskedOK ==
    request \in [Requests -> [kind : {"none", "challenge", "solve", "authenticate"},
                              key : Keys \cup {None},
                              challenge : Requests \cup {None},
                              passport : Keys \cup {None}]]

\* Every variable has the values the code can give it.
TypeOK ==
    /\ named \in [Keys -> Requests \cup {Plain, None}]
    /\ AskedOK
    /\ pc \in [Requests -> Ended \cup {"register", "read", "unlink", "calls"}]
    /\ calls \in [Requests -> SUBSET Calls]
    /\ held \in [Requests -> Keys \cup {None}]
    /\ answer \in [Requests -> Answers \cup {None}]
    /\ challenges \in [Requests -> Keys \cup {None}]
    /\ passports \subseteq Keys
    /\ failures \in 0 .. MaxFailures

-----------------------------------------------------------------------------
(* Correctness. *)

\* The badge says "verified" only for a key that was challenged, and whose
\* account's owner created a key with the name the challenge asked for
\* (contracts/src/api-gateway/authentication.ts:9), whatever expired, was
\* revoked or was lost between the three requests that takes.
Proved(k) ==
    \E c \in OfKind("challenge"), j \in Keys :
        Key(c) = k /\ Owner[j] = Owner[k] /\ named[j] = c
VerifiedIsProved ==
    \A r \in Requests : answer[r] = "verified" => Proved(Key(r))

\* An attempt leaves no challenge for the next one, however it ends and
\* whatever ran at the same time, unless Redis refused a command
\* (elevation-store.ts:63-74).
AttemptConsumes ==
    failures = 0 =>
        \A r \in OfKind("solve") :
            answer[r] # None => challenges[Challenge(r)] = None

\* Every request is answered unless the process dies.
RequestsAnswered ==
    \A r \in Requests :
        pc[r] # "idle" ~> (answer[r] # None \/ pc[r] = "lost")

-----------------------------------------------------------------------------
(* The inductive invariants.  Behind VerifiedIsProved: what the store, a      *)
(* running solution, a passport and a request hold of a challenge is what was *)
(* challenged.  Behind AttemptConsumes: a challenge is registered once, before *)
(* any attempt, so one that was consumed stays so.                            *)

RequestsPlaced ==
    \A r \in Requests :
        /\ pc[r] # "idle" <=> request[r] # NoRequest
        /\ request[r] # NoRequest => request[r].kind # "none" /\ Key(r) \in Keys
        /\ answer[r] # None => pc[r] = "done"
        /\ pc[r] = "register" => request[r].kind = "challenge"
        /\ pc[r] \in {"read", "unlink"} => request[r].kind = "solve"
        /\ request[r].kind = "solve" => /\ Challenge(r) \in OfKind("challenge")
                                        /\ pc[Challenge(r)] = "done"
        /\ request[r].kind = "solve" /\ pc[r] \in {"unlink", "calls"}
             => held[r] # None
        /\ request[r].passport \in passports \cup {None}

ChallengesTrue ==
    /\ \A c \in Requests : challenges[c] # None =>
            c \in OfKind("challenge") /\ challenges[c] = Key(c)
    /\ \A r \in Requests : held[r] # None =>
            r \in OfKind("solve") /\ held[r] = Key(Challenge(r))

ProvedInv ==
    /\ TypeOK
    /\ RequestsPlaced
    /\ ChallengesTrue
    /\ \A k \in passports : Proved(k)
    /\ VerifiedIsProved

AttemptsConsumed ==
    failures = 0 =>
        \A r \in OfKind("solve") :
            pc[r] \in {"calls", "done"} => challenges[Challenge(r)] = None
=============================================================================
