# Verification of GWRADAR (nevthol-node)

GWRADAR tracks players of a game on a live map. This directory holds TLA+
modules of its backend, TLC configurations that check them on small instances,
and theorems about them that TLAPS proves for all values of the constants.
`PROJECT.json` ties every definition to the lines of code it models, every
property to a run, and every hazard to the properties that would show it.

    tlasany TrackingRelay.tla
    tlc -workers 2 -config TrackingRelay_switch.cfg MCTrackingRelay
    tlapm TrackingRelayProofs.tla

## 1. The system

    player's overlay --HTTP-->  API gateway  ---->  game API
         |                        |     \
         | token                  v      \ challenges
         |                 elevation +    Redis
         |                 authentication  ^  ^
         +--web socket--> ground station --+  |  connections:<jti>, users:<name>
                             |                |
                             v                |  tracking:positions, trails
                           Kafka -----> tracking relay ----> Redis pub/sub (feed)
                                                              one channel per room

| Component | Code | State | Operations | Hard about it | What makes it correct |
|---|---|---|---|---|---|
| Tracking relay | `apps/tracking-relay` | in-memory map `playerConnections` (connection -> current character) | one message handler; start and stop | handlers are not awaited and interleave at a dozen Redis commands on four clients; the map is lost in a crash and the records are not | nothing is published or recorded under a name the connection was not set up with; map, record and feed follow the announcements |
| Ground station | `apps/ground-station` | `connectionsServed` (connection -> socket), the sockets | upgrade, open, message, close, shutdown | a token serves several sockets; handlers of one socket wait for Redis while the other comes or goes; aborted requests; SIGINT at any moment | a live connection keeps its record; an abandoned one expires; a player who leaves goes from the map; shutdown disposes of all |
| API gateway | `apps/api-gateway` | none | POST `/elevation/challenges`, `/elevation/challenges/:id`, `/authentication/authenticate` | concurrent requests | an answer per request, from the right service |
| Elevation service, elevation store | `packages/services/authentication/src/elevationService.ts`, `redis-adapter/src/elevation-store.ts` | `elevation:challenges:<id>` in Redis | challenge, solve, verify; registerChallenge, consumeChallenge | reading and unlinking are two commands; the game API fails between; three requests, two keys and two ids belong together | "verified" is proved; an attempt consumes its challenge |
| Authentication service | `packages/services/authentication/src/authenticationService.ts` | none | sign a token with its level | calls at once, the first failure answers | level "verified" only with a valid passport |
| Connection, user and key-value stores | `redis-adapter/src/{connection,user,hkv-store}.ts` | `connections:<jti>`, `users:<name>` | set with or without TTL, increase counter, read, delete | HSET and PERSIST, HINCRBY and EXPIRE are pairs that are not atomic; two processes write the same hashes | no record stays for ever without a socket |
| Tracker and trail | `redis-adapter/src/trail.ts` | `tracking:positions`, `tracking:users:<name>` (the trails) | addDataPoint, removeCharacterPosition | a MULTI on its own client, in another order than the feed; times taken before Redis executes; three ways of trimming, each with a boundary | positions keep their order; the trail keeps what it is told to and no more |
| Transmitter | `redis-adapter/src/transmitter.ts` | none | broadcastPosition | drops a message its schema refuses without telling | the feed carries what it claims |
| Rooms | `packages/core/src/geo-coordinates.ts` | none | getGridRoom, getNearestRooms | centre and radius are rounded down before they are compared | viewers hear those nearby and no one far away |
| Kafka adapter | `kafka-adapter/src/node-rdkafka-adapter.ts` | consumer, producer | produce, consume | calls the handler without waiting; the delivery callback ignores its error | (used by the two applications) |
| Game API adapter | `gw2api-adapter` | none | account, tokenInfo, characters | failures and timeouts | (used by the gateway) |
| Rest of core | `packages/core` | buffer of random bytes in `id.ts` | generateId, conversion of coordinates, bit masks | refilling and rejection | reference definitions |
| Contracts, ports, logger, UI, configuration | the rest | none | schemas, interfaces, output, settings | - | - |

How they interact: the gateway signs a token with a connection id (`jti`) and the
account's characters. The ground station takes that token in `upgrade`, writes
`connections:<jti>` with the allowed characters, and produces each socket
message to Kafka with the id as its key. The relay consumes it, asks the record
whether the connection may speak for a character, notes that character in its
map and in the record (`current_character`), publishes it on the channel of its
room, counts, and stores the position and the profile. The ground station reads
`current_character` back when the socket closes, to remove the position and let
profile and record expire. So relay and ground station write the same hashes
without any common lock, and each relies on what the other writes.

## 2. Modules

| Module | Models | Proofs |
|---|---|---|
| `TrackingRelay` | the relay's handler at the grain of Redis commands, with the operations of connection store, user store, tracker and transmitter it calls | `TrackingRelayProofs`, `TrackingRelayOrderProofs` |
| `GroundStation` | sockets, tasks, shutdown, the same records, and the relay as an environment | `GroundStationProofs`, `GroundStationRecordProofs` |
| `Platform` | ground station, Kafka and relay on one Redis: composes the two above, and implements `GroundStation` | `PlatformProofs`, `PlatformNamesProofs` |
| `Gateway` | elevation, authentication, challenge store, the game's API | `GatewayProofs` |
| `GridRooms` | the rooms of the map, as functions | (in `LiveMapProofs`) |
| `LiveMap` | one character's trail in Redis, and who hears it; uses `GridRooms` | `LiveMapProofs` |
| `MC...` | the values of constants, bounds and symmetry for TLC | |

### TrackingRelay

A handler runs from one `await` to the next. Every `await` is a command on one
of four clients, and each client is two FIFO queues: `pipe[c]` (sent, not
executed) and `replies[c]` (executed, not seen). `Send` appends, `Execute`
lets Redis take the head of a client's queue and change its data, and what the
handler does after a reply, up to its next `await`, is an action of its own. `pc[h]` names the command
that handler `h` waits for, in the order of `index.ts:79-190`. Consuming
message `h` starts handler `h`, so numbers are arrival order and a feed entry or
a position is the number of the message it came from; the label is derived
(`Label`). `Crash` and `Restart` lose handlers and map, and leave what was sent to
Redis to be executed or not. Messages have a connection, a name (a character, absent
or blank) and one of four kinds: good; refused by the feed's schema; refused
and off the globe; invalid.

Abstracted: coordinates and flags (only the kind remains), the wording of logs,
the trail written in the same MULTI as the position, and the rooms a position is
published on. Both are in `LiveMap`.

### GroundStation

A task is one run of a handler: upgrade or close of a socket, or the draining of a
connection at shutdown. A step of a task executes the command it waits for
and runs the handler to its next `await`. There is no FIFO between the tasks
here: commands of different tasks may execute in any order, which includes
every order the one client would give. `stage[s]` follows the socket,
`aborted[s]` is what `onAborted` sets, `served` is the map, `status` covers
SIGINT, exit, and the crash when the answer to a failed upgrade throws. `StopAgain` is a
second SIGINT during the shutdown: it throws at a closed socket in the map, or finds the map
empty, and ends the process in the middle of the first drain. One that finds only sockets
opened since the first drains those, and is left out.
`FailTask` and `FailUpgrade` let a command fail.

The relay is an environment: while a connection has messages under way
(`pending`), `RelayWritesSession` may name a character in its record or count,
`RelayWritesProfile` may describe a character, and `RelayWritesPosition` may
place or remove one, in any order, any number of times and with any values;
`RelaySettles` ends that. A record that is missing comes back without its other
fields, as HSET and HINCRBY do it. A relay that does all this at any moment is
more than the code's relay does; that it is not less is what `Platform` shows.

Assumed: the one hour that records live without a socket is longer
than a message waits in Kafka, and than an upgrade takes after its token was
verified (`SessionExpires`; a token is good for ten seconds,
`authenticationService.ts:18` and `128`, so no record expires between the HSET and the
PERSIST of a set-up), and
`CONNECTION_STORE_TTL` is not set: a relay that is given it puts that time to live
on the records of open sockets with each position, and only the set-up of another
socket would remove it.

### Platform

The two processes with the records they share: same variables `sessions`,
`profiles` and `geo`, the ground station's own (`task` is its `pc`), the relay's
own, and `inFlight[k]`, the messages of a connection in Kafka. Every action is
one of `GroundStation` (`StationStops` are its shutdown and the commands that Redis
refuses it) or of `TrackingRelay` with the rest unchanged, except
Kafka's: `Publish` sends, `Consume` hands over, and `Lose` loses a message.
`Pending` are the connections with a message in Kafka or a handler that is not
done, and the refinement mapping puts it in the place of `pending`.

Left out: commands that Redis refuses the relay. Nothing in the relay catches
such an error, so it ends the process like GEOADD of a position off the globe does
(`TrackingRelay`), which a crash at any moment covers.

### LiveMap and GridRooms

One character: `sent` are the transactions of `addDataPoint` on their way to Redis, each
with a time taken when it was sent; `Execute` is the MULTI of
`trail.ts:45-65` (ZADD, EXPIRE, the two ZREMRANGEs) on the sorted set `trail`,
with members of equal score in the order of their bytes; `Tick` lets time pass and
the key expire; `Crash` loses what was sent. `visited` is a history
variable, what the trail should know: the last recorded visit of each place.
The time to live is in whole seconds (`Retention`), the scores are in milliseconds.
`GridRooms` has `getGridRoom` (called by the relay, with `gridSize` 500)
and `getNearestRooms`. The latter has no caller in the repository: the viewers
it is written for are another program.

### Gateway

A request is one run of a route's handler. It waits for a command to Redis
(`register`, `read`, `unlink`) or for a set of calls to the game's API, whose
replies come in any order where the code sends them at once. A key stands for
its token id and its subtokens; `named[k]` is the challenge it was named for.
A challenge has the id of the request it answers, a passport is the token id
it was signed for (a signature is derived from the token's account and id, so it is good for nothing
else), and revoking a key is that its calls fail. Left out: the list of
characters, the schemas of requests, HTTP.

## 3. Runs

| Run | Instance | Shows |
|---|---|---|
| `relay_switch` | one connection, two characters, three messages that name either or none | `CurrentFollowsMap`: the record's character is the map's, up to writes under way. `MapFollowsGrants`: the map holds the latest announcement that was granted. `FeedInOrder`: only a message that switches characters is overtaken. `PositionsKeepOrder`: only it, or one that was published nowhere, is replaced by an older position |
| `relay_shared` | two connections that announce one another's characters, three messages, one connection's with blank names, too | `FeedAuthorised`, `StoreAuthorised`: nothing goes out or is stored under a name its connection was not set up with |
| `relay_kinds` | one connection, two messages of all kinds, `CONNECTION_STORE_TTL` set | `CountedSessionsExpire`: a record that counts has a time to live, or its handler died in between. `HandlersFinish` (liveness). `TypeOK` |
| `relay_latest` | as `relay_switch` | violated, see 5 |
| `relay_offmap` | as `relay_kinds` with three messages, and without `CONNECTION_STORE_TTL` | violated, see 5 |
| `station_retry` | one connection, two sockets, one failing command, a relay that writes at any moment | `AbandonedSessionsEventuallyExpire` (liveness): the record of a connection without a socket gets a time to live in the end, also after a failed upgrade. `PlayersLeave` (liveness): when the only socket closes, the character that the record names loses its position, and its profile expires |
| `station_players` | two connections, two sockets, one failing command, shutdown, a relay that writes to either record | `LiveSessionsKept`: only another socket of the same token can spoil a live record. `AbandonedSessionsExpire`: when the handlers of its sockets are done, a record without a socket has a time to live. `ServedAreOpen`: then its entry in the map is an open socket. `DrainedSessionsExpire`: what a shutdown drained expires. All four are stated for each connection, and hold although the handlers of another have failed or the shutdown ends with an error or a second SIGINT. `TypeOK` |
| `station_record`, `station_shutdown` | one and two connections, two sockets | violated, see 5 |
| `platform` | one connection whose token is for `a`, two sockets, messages that name `a`, `b` or nobody, shutdown, one failing command, the relay crashing and starting again, two of these at a time (`Budget`) | `StationKept` (refinement): the relay does to the records no more than `GroundStation` lets it. `SessionsKept`: what `GroundStation` promises of sessions, with the relay at work. `PlatformAuthorised`: the feed and the store carry names of the token only, although records are deleted, expire, and come back. `ShownIsRecorded`: while something of a player is shown, the record names a character, and the right one if the token has one, until a socket of the connection is dropped or its close handler or the shutdown has read the record |
| `live_map` | rooms of side 3, four places, five points of view, radii 9, 13 and 17; two points and three units of time in a trail, two visits under way | `TrailComplete`: no place is forgotten too early. `TrailTrimmed`: none is kept too long. `RoomsReachRadius`: viewers hear nobody far away. `NearPlayersHeard`: they hear everyone near. `TypeOK` |
| `gateway_elevation` | three keys (two of one account), three requests, one failing command, a restart | `VerifiedIsProved`, `AttemptConsumes`, `RequestsAnswered` (liveness), `TypeOK` |

Bounds, each a CONSTANT. `MaxMessages`: an ordering property relates
two messages, and a message between them that changes the map is the third;
`FeedAuthorised` needs a name of another account, an announcement of one's own, and
a message without a name. In `platform` two do: an announcement, and one that
comes when the socket has gone or the token is used again. `Budget`, a
state constraint there: at most two of a consumed message, a failed command, a
shutdown and a relay that is down, so each pair of them is combined; three are
left to the theorems. `MaxInFlight` (only
there): messages of a connection are alike until they are consumed, and the one
that arrives after the close is the interesting one. `Sockets`: each is used once, and
two suffice for every overlap of handlers (a retry against an abort, a reconnect
against a close). `Positions = {1}`: the ground station only tells a position
from none. `MaxFailures = 1`: failures are
told apart by which command failed. `MaxRequests = 3`: a challenge, its
solution, and either the authentication that uses the passport or a second
solution at the same time. `MaxPoints = 2`, `MaxTime = 3`, `Second = 2`: the time is
no whole number of seconds, and four places are more than a trail holds.
`MaxClock = 5`: a visit, the retention, the age limit and a tick past both.
`MaxSent = 2`: two visits that wait for Redis. `GridSize = 3`: a room has a
middle, so that roundings differ; the radii are the three rooms of
`NearPlayersHeard` and more, with each remainder.
What these bounds miss (three sockets of one token, four messages, other maps) the
theorems of section 4 cover for the properties they state.

Symmetry is used for sockets and, in the runs of `GroundStation`, connections, in
runs without liveness only. `CHECK_DEADLOCK
FALSE` is set in all runs, because each behaviour really ends: when the bounded messages,
sockets or requests are used up and every handler is done, nothing is left to do.

Fairness is weak and per process: a command that was sent is executed and
its reply handled (Redis runs and Node resumes), and a call to the game's API
ends, by an answer or as a failure, since `fetch` gives up. Nothing is assumed
of clients, players, expiry, crashes, restarts or the arrival of messages.
`HandlersFinish` and `RequestsAnswered` therefore except a dying process, and
`AbandonedSessionsEventuallyExpire` and `PlayersLeave` a stop and a close handler of the
connection itself that failed, which the code does not run again. `PlayersLeave` also excepts other messages of
the connection under way, which put the player back, and other sockets of the token.
`Platform` and `LiveMap` have no liveness property and no fairness.

What a player may rely on when leaving is an argument over three properties:
the record names what the relay has shown (`ShownIsRecorded`), the ground station
hides the character the record names (`PlayersLeave`), and what it assumes of the
relay is true (`StationKept`).

## 4. Theorems

All are of the form `Spec => []P` or, for `StationKept`, `Spec => P`, for any
constants that satisfy the assumptions of the modules (names are distinct, bounds
are natural numbers, functions have their types). They are proved from `Init` and
`Next` only.

- `TypeCorrect` in `TrackingRelayProofs`, `GroundStationProofs`, `GatewayProofs`
  and `LiveMapProofs`. It is the first conjunct of the inductive invariants.
- `FeedIsAuthorised`, `StoreIsAuthorised` (`TrackingRelayProofs`). Neither
  property is inductive: what is published depends on what a handler read
  several commands ago. `AuthorisedInv` adds where a name may be on its way:
  in the record's allowed set, in the map, in `seen`, and in each handler past the
  check (`NamesAllowed`); that handlers which wait were consumed
  (`HandlersConsumed`); and that effects come from consumed messages
  (`EffectsConsumed`). The check in `granted` is what lets a name in, and
  every other step only moves it.
- `FeedKeepsOrder`, `MapDoesFollowGrants`, `CurrentDoesFollowMap`, `CountedSessionsDoExpire`
  (`TrackingRelayOrderProofs`). `OrderInv` looks at a client's queue as a whole, the replies
  followed by the commands: when Redis executes a command the queue stays as it is,
  so a handler moves only when it sends or resumes, from the head to the end (`Moved`), and is
  in the queue of its command's client once and in no other (`QueuesExact`). From that: those that ask are
  answered in the order they asked, and whoever asked before has decided before
  (`AskedInOrder`); so the writes of the current character are in the order of the
  decisions (`CurrentsInOrder`), which is what the map holds. Handlers that do not ask publish
  as they arrive (`PublicationsInOrder`). `AnswersTrue` says that a refusal was right
  and that no record is lost without a configured time to live; `CountsExpire`, who is going to
  give a record that counts its time to live. There is one lemma per kind of step and per part.
- `PositionsDoKeepOrder` (`TrackingRelayOrderProofs`). The commands from publication to
  position are on three clients, so no queue orders two handlers all the way. `PositionsInv` orders their
  phases: the earlier of two is never in a lower phase, and in the same phase it is
  first in that queue (`PhasesInOrder`). A handler leaves a phase from the head of a queue,
  so an earlier one in the same phase would be before it. Skipping the expiry is no
  shortcut, since without a configured time to live nobody is in that phase. A position that is
  written is at the head of its queue, so none older is behind it (`RecordsInOrder`).
- `LiveSessionsAreKept` (`GroundStationProofs`). `LiveInv` adds that tasks run
  for sockets in the stage that started them (`TasksPlaced`) and that the
  record of a connection with no closed or refused socket is set up and has no
  time to live, from its upgrade on (`UntroubledKept`). The proof names, for every
  action, the sockets and records it cannot reach.
- `EntriesAreOpen`, `AbandonedSessionsDoExpire`, `DrainedSessionsDoExpire`
  (`GroundStationRecordProofs`). They speak of moments when all is handled for a
  connection, whatever others do or failed to do, and say nothing of the way there. `RecordInv` does: an entry of the map is an open socket
  or one whose close handler has yet to remove it (`ServedPlaced`); a record that does
  not expire has a socket that is open or has a handler left to run, which holds
  it (`RecordsHeld`), and whoever lets go last leaves it with a time to live;
  a drained connection that had one socket has its record, or lost it for good
  (`DrainedKept`).
- `StationIsKept` (`PlatformProofs`). Each step of the relay is mapped to one that
  `GroundStation` allows. Its environment may write only for a connection that is pending,
  and a character's name only where it has one: `PlatformInv` says that a handler
  that is not done has consumed a message of its connection, which is therefore
  pending, and that an announcing one has a name.
- `SessionsAreKept` (`PlatformProofs`). The theorems about `GroundStation`, stated for
  the instance in `Platform`, and `StationIsKept`; with the shutdown, what it drained
  expires although the relay goes on writing.
- `PlatformIsAuthorised` (`PlatformNamesProofs`). The relay's steps keep `AuthorisedInv` whatever
  they find in the store, and the ground station only takes names away (`StationWrites`):
  the invariant of the relay alone holds on the platform, too.
- `PlayersShownAreRecorded` (`PlatformNamesProofs`). What is shown and the name that takes it
  back are written on three clients, so again no queue orders them all. `RecordingInv` says: while
  the record of an unspoilt connection names nobody, nothing of the player is shown, a name in the
  map has its write in the pipe of the connection client, and a handler that could show
  something has not come past that write (`RecordedFirst`): it has yet to send a command on that
  client, or the one it sent is behind the write. That is why the count (HINCRBY, on the same client)
  between the publication and the position matters. A crash empties the map before the pipe
  is lost, so a restart leaves nobody who could show anything. On the side of the station,
  `UnspoiltStays`: only the undoing of a dropped request deletes a record, and only a close
  handler or a shutdown that has read it gives it a time to live, so neither happens to an
  unspoilt one, and what spoils one stays (`SpoiltStays`, `DrainedStays`;
  this needs `TasksPlaced` of `GroundStation`, by `StationIsKept`). Which name it
  is comes from `PlatformIsAuthorised`. The lemmas about the relay are in
  `TrackingRelayOrderProofs`, next to those on its queues.
- `TrailIsComplete`, `TrailIsTrimmed` (`LiveMapProofs`). `TrailInv`: visits are
  executed in the order of their times (`VisitsInOrder`), and the set outlives each
  visit by the retention (`TrailFollowsVisits`). What trimming by rank leaves is
  counted along the order of members: of the places that stay, the least has all the
  others after it (a least element exists since the set is finite).
- `RoomsReach`, `NearAreHeard` (`LiveMapProofs`). Arithmetic of quotients and
  squares: an offset of rooms, times the side, bounds the gap from below, and
  rounding loses less than a room at each of three places.

TLC checked each inductive invariant on the runs' instances before it was proved.

Only model-checked: the liveness properties (`HandlersFinish`, `RequestsAnswered`,
`AbandonedSessionsEventuallyExpire`, `PlayersLeave`), which are out of TLAPS's reach here
since they need fairness and ENABLED.

## 5. Where code and documents disagree

Each has a run whose one property states what the document says; TLC finds
it violated.

- `relay_latest`: a position without a name that arrives while its
  connection's change of character is being checked goes out under the character
  the player has left (`index.ts:94`), although the label is documented as the
  name of the character the position belongs to.
- `relay_offmap`: coordinates off the map reach the conversion documented for
  points on the map, since the feed's schema drops the message silently and the
  handler goes on (`index.ts:168`). Off the globe, GEOADD refuses, nothing
  catches, and the process dies.
- `station_record`: an aborted upgrade deletes `connections:<jti>`, also when the
  client's second attempt with the same token is open by then (`server.ts:110`).
- `station_shutdown`: a request upgraded during the shutdown, or a closed socket
  still in the map, leaves records that never expire (`server.ts:61`).

Seen while modelling and in the models, but without a run:

- A blank name with no character known publishes the label `null`.
- After a restart the relay does not read the map back, so positions without a
  name are dropped until the next announcement.
- A position that the relay writes after the close handler removed it stays.
- A close handler that Redis refuses a command leaves its entry in the map and the record
  of its connection without a time to live.
- When a token is used again after its record was deleted (by an aborted request) or
  expired (under a second socket, an hour after the first one closed), the relay's map
  still holds the character: its announcements are not checked and
  `current_character` is not written again (`index.ts:96`). The next close handler
  finds no name and leaves the position. This is why `ShownIsRecorded` speaks of
  connections none of whose sockets was dropped or has read the record at its close,
  nor a shutdown.
- The counter of a record that expired is recreated without a time to live if
  `CONNECTION_STORE_TTL` is unset.
- Answering a failed upgrade of a client that has gone crashes the ground station.
- A visit of a place that is in the trail moves its point, since the place is the member.
- With `TRAIL_MAX_STORE_TIME_MS` under a second, EXPIRE gets 0, which deletes the trail
  in the transaction that wrote it (`trail.ts:47`; `TrailComplete` promises nothing then).
- `getNearestRooms` says that "all the rooms in there will be listed", but its circle is
  counted in whole rooms and rounded down: with rooms of 100, centre (99, 99) and radius
  283, room (2, 2), which comes within the radius, is not listed. With rooms of 500,
  centre (499, 499) and radius 1000, a player at (1001, 1001) is not heard. A margin
  of two rooms does not do either (rooms of 8, radius 63, from (7, 7) to (40, 40));
  of three rooms it does, which is `NearPlayersHeard`.
- Comments: the one above the elevation service speaks of a signed challenge as still
  to do, while the code keeps challenges in Redis; those on ids speak of
  three letters, four digits and three letters, and the code writes four of each.

## 6. Not modelled, and plan

Not modelled:

- HTTP, the schemas of requests and logging: no state that a property is about.
- The kafkajs adapter and the store operations that no application calls.
- Kafka's partitions, rebalancing and offsets: settings of the broker and its library.
  The relay sees a sequence of messages, and some may be lost.
- The conversion of coordinates to degrees and the velocity: real arithmetic of one call.
- `generateId`: synchronous and random, its buffer is refilled within one call, so
  nothing can come in between; the bit masks are one operator each.
- Generated protobuf code, ports (interfaces only), and the user interface package.
- Cryptography beyond what a valid signature tells.

Order of the work, done: `TrackingRelay` (the most interleaving), `GroundStation`, `Gateway`,
`LiveMap` and `GridRooms`, then `Platform` and the refinement; for each the type
invariant first, then its safety properties; last, the shutdown and the refused commands
on the platform, and a theorem for every invariant and action property that a run checks.
What could be added is liveness on the platform, which needs fairness of both processes
and a run that is small enough.
