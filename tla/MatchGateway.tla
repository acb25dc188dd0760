---------------------------- MODULE MatchGateway ----------------------------
(***************************************************************************)
(* The matchmaking gateway and the REST controller on top of the service.  *)
(*                                                                         *)
(* The gateway keeps one position timer per user, closed over the socket   *)
(* that started it, and runs tasks: the handlers of queue:join, queue:sync *)
(* and queue:leave, the disconnect hook, the ticks of a timer, and REST    *)
(* requests.  A task occupies a call slot of the service; task[c] says     *)
(* which handler awaits the call and how far it is.  When the call has     *)
(* settled the handler goes on in one action, up to its next await; if     *)
(* that is another call of the service, the action begins it.              *)
(*                                                                         *)
(* The first tick, which startPositionLoop runs at once, is a tick like    *)
(* the others: it may start as soon as the timer is set.                   *)
(***************************************************************************)
EXTENDS Matchmaking, Sequences

CONSTANTS
  Sockets,      \* socket ids of the /matchmaking namespace, a part of Sids
  SocketUser,   \* the user whose token a socket presents
  Pending,      \* the placeholder socket id of a REST join
  ClientOps     \* the client operations of this instance, and whether a pending match may expire

AllClientOps == {"join", "sync", "leave", "disconnect", "restJoin", "restLeave", "restStatus", "pendingExpires"}

ASSUME GatewayAssumption ==
  /\ Sids = Sockets \cup {Pending} /\ Pending \notin Sockets /\ None \notin Sids
  /\ SocketUser \in [Sockets -> Users]
  /\ ClientOps \subseteq AllClientOps
\* Who waits has joined with a socket of her own, or over REST.
ASSUME InitSidAssumption ==
  \A u \in Users : InitEntry[u] # None /\ InitEntry[u].sid # Pending => SocketUser[InitEntry[u].sid] = u
\* Handlers and requests call every operation of the service.
ASSUME ServiceOpsAssumption == AllOps \ {"block"} \subseteq Ops

VARIABLES
  socket,    \* "new", "on" or "off"
  timer,     \* positionTimers, with the socket in the closure
  task,      \* the handler that awaits a call
  rooms,     \* rooms created by roomService.createRoom, in order; the index is the room id
  pending,   \* matchmaking:pending:<user>, a room id, 0 for no key
  told,      \* match:found and queue:timeout events that reached a client
  handlerFaults  \* bound counter: commands of the gateway itself that failed

gateway == <<socket, timer, task, rooms, pending, told, handlerFaults>>
allVars == <<vars, gateway>>

NoTask == [kind |-> "none", sock |-> None, stage |-> "none", room |-> 0]

Kinds == {"none", "join", "sync", "leave", "tick", "disconnect", "rest"}
Stages == {"none", "consume", "consumed", "service", "status", "match", "room", "store", "leave"}

Stage(c, kind, stage) == task[c].kind = kind /\ task[c].stage = stage

\* A settled call.
Settled(c) == At(c, "ret")
Failed(c) == call[c].res = "error"
InQueue(c) == call[c].res \in {"queued", "unranked"}

Free(c) == task[c] = NoTask /\ At(c, "idle")

\* The handler awaits its next command, or is over.
Await(c, stage) == task' = [task EXCEPT ![c].stage = stage]

Finish(c) ==
  /\ task' = [task EXCEPT ![c] = NoTask]
  /\ IF Settled(c) THEN Return(c) ELSE UNCHANGED vars

ClearTimer(u) == timer' = [timer EXCEPT ![u] = None]

Event(s, what, room) == IF s \in Sockets /\ socket[s] = "on" THEN {[sock |-> s, what |-> what, room |-> room]} ELSE {}
Emit(s, what, room) == told' = told \cup Event(s, what, room)

-----------------------------------------------------------------------------
(* Connections *)

\* handleConnection.  A socket without a valid token is disconnected and has no
\* userId, with which every handler begins.
Connect(s) ==
  /\ socket[s] = "new"
  /\ \E verdict \in {"on", "off"} : socket' = [socket EXCEPT ![s] = verdict]
  /\ UNCHANGED <<vars, timer, task, rooms, pending, told, handlerFaults>>

\* handleDisconnect: by user, whichever of her sockets went.
Disconnect(c, s) ==
  /\ Free(c)
  /\ socket[s] = "on"
  /\ socket' = [socket EXCEPT ![s] = "off"]
  /\ ClearTimer(SocketUser[s])
  /\ task' = [task EXCEPT ![c] = [NoTask EXCEPT !.kind = "disconnect", !.sock = s, !.stage = "service"]]
  /\ LeaveQueue(c, SocketUser[s])
  /\ UNCHANGED <<rooms, pending, told, handlerFaults>>

-----------------------------------------------------------------------------
(* queue:join *)

WsJoin(c, s, dto) ==
  /\ Free(c)
  /\ socket[s] = "on"
  /\ task' = [task EXCEPT ![c] = [NoTask EXCEPT !.kind = "join", !.sock = s, !.stage = "service"]]
  /\ JoinQueue(c, SocketUser[s], s, dto)
  /\ UNCHANGED <<socket, timer, rooms, pending, told, handlerFaults>>

\* startPositionLoop, then attemptMatchAndNotify: whatever the status said.
JoinDone(c) ==
  LET s == task[c].sock
      u == SocketUser[s] IN
  /\ Stage(c, "join", "service") /\ Settled(c)
  /\ \/ /\ Failed(c)
        /\ Finish(c)
        /\ UNCHANGED timer
     \/ /\ ~Failed(c)
        /\ timer' = [timer EXCEPT ![u] = s]
        /\ Await(c, "match")
        /\ TryAtomicMatch(c, u)
  /\ UNCHANGED <<socket, rooms, pending, told, handlerFaults>>

-----------------------------------------------------------------------------
(* queue:sync: consumePendingMatch, updateSocketId, getStatus *)

WsSync(c, s) ==
  /\ Free(c)
  /\ socket[s] = "on"
  /\ task' = [task EXCEPT ![c] = [NoTask EXCEPT !.kind = "sync", !.sock = s, !.stage = "consume"]]
  /\ UNCHANGED <<vars, socket, timer, rooms, pending, told, handlerFaults>>

SyncConsume(c) ==
  LET s == task[c].sock
      u == SocketUser[s] IN
  /\ Stage(c, "sync", "consume")
  /\ \/ /\ pending[u] # 0
        /\ task' = [task EXCEPT ![c].stage = "consumed", ![c].room = pending[u]]
        /\ UNCHANGED vars
     \/ /\ pending[u] = 0
        /\ Await(c, "service")
        /\ UpdateSocketId(c, u, s)
  /\ UNCHANGED <<socket, timer, rooms, pending, told, handlerFaults>>

\* Mutant: the stored match is not deleted.
SyncConsumedKeeps(c) ==
  LET s == task[c].sock IN
  /\ Stage(c, "sync", "consumed")
  /\ ClearTimer(SocketUser[s])
  /\ Emit(s, "match", task[c].room)
  /\ Finish(c)
  /\ UNCHANGED <<socket, rooms, pending, handlerFaults>>

SyncConsumed(c) ==
  LET s == task[c].sock
      u == SocketUser[s] IN
  /\ Stage(c, "sync", "consumed")
  /\ pending' = [pending EXCEPT ![u] = 0]
  /\ ClearTimer(u)
  /\ Emit(s, "match", task[c].room)
  /\ Finish(c)
  /\ UNCHANGED <<socket, rooms, handlerFaults>>

SyncUpdated(c) ==
  /\ Stage(c, "sync", "service") /\ Settled(c)
  /\ \/ Failed(c) /\ Finish(c)
     \/ ~Failed(c) /\ Await(c, "status") /\ GetStatus(c, SocketUser[task[c].sock])
  /\ UNCHANGED <<socket, timer, rooms, pending, told, handlerFaults>>

SyncDone(c) ==
  LET s == task[c].sock
      u == SocketUser[s] IN
  /\ Stage(c, "sync", "status") /\ Settled(c)
  /\ \/ /\ InQueue(c)
        /\ timer' = [timer EXCEPT ![u] = s]
        /\ Await(c, "match")
        /\ TryAtomicMatch(c, u)
        /\ UNCHANGED told
     \/ /\ ~InQueue(c)
        /\ told' = told \cup (IF call[c].res = "timedOut" THEN Event(s, "timeout", 0) ELSE {})
        /\ Finish(c)
        /\ UNCHANGED timer
  /\ UNCHANGED <<socket, rooms, pending, handlerFaults>>

-----------------------------------------------------------------------------
(* queue:leave *)

WsLeave(c, s) ==
  /\ Free(c)
  /\ socket[s] = "on"
  /\ ClearTimer(SocketUser[s])
  /\ task' = [task EXCEPT ![c] = [NoTask EXCEPT !.kind = "leave", !.sock = s, !.stage = "service"]]
  /\ LeaveQueue(c, SocketUser[s])
  /\ UNCHANGED <<socket, rooms, pending, told, handlerFaults>>

\* The handlers that end with leaveQueue, and REST requests.
LeaveDone(c) ==
  /\ \/ task[c].kind \in {"leave", "disconnect", "rest"}
     \/ Stage(c, "tick", "leave")
  /\ Settled(c)
  /\ Finish(c)
  /\ UNCHANGED <<socket, timer, rooms, pending, told, handlerFaults>>

-----------------------------------------------------------------------------
(* The position loop *)

Tick(c, u) ==
  /\ Free(c)
  /\ timer[u] # None
  /\ task' = [task EXCEPT ![c] = [NoTask EXCEPT !.kind = "tick", !.sock = timer[u], !.stage = "service"]]
  /\ GetStatus(c, u)
  /\ UNCHANGED <<socket, timer, rooms, pending, told, handlerFaults>>

\* Mutant: the tick of a user who is out of the queue does not clear the timer.
TickDoneKeepsTimer(c) ==
  LET s == task[c].sock
      u == SocketUser[s] IN
  /\ Stage(c, "tick", "service") /\ Settled(c)
  /\ \/ (Failed(c) \/ call[c].res = "absent") /\ Finish(c) /\ UNCHANGED <<timer, told>>
     \/ /\ call[c].res = "timedOut"
        /\ ClearTimer(u) /\ Emit(s, "timeout", 0)
        /\ Await(c, "leave") /\ LeaveQueue(c, u)
     \/ InQueue(c) /\ Await(c, "match") /\ TryAtomicMatch(c, u) /\ UNCHANGED <<timer, told>>
  /\ UNCHANGED <<socket, rooms, pending, handlerFaults>>

TickDone(c) ==
  LET s == task[c].sock
      u == SocketUser[s] IN
  /\ Stage(c, "tick", "service") /\ Settled(c)
  /\ \/ Failed(c) /\ Finish(c) /\ UNCHANGED <<timer, told>>
     \/ /\ call[c].res = "timedOut"
        /\ ClearTimer(u) /\ Emit(s, "timeout", 0)
        /\ Await(c, "leave") /\ LeaveQueue(c, u)
     \/ call[c].res = "absent" /\ ClearTimer(u) /\ Finish(c) /\ UNCHANGED told
     \/ InQueue(c) /\ Await(c, "match") /\ TryAtomicMatch(c, u) /\ UNCHANGED <<timer, told>>
  /\ UNCHANGED <<socket, rooms, pending, handlerFaults>>

-----------------------------------------------------------------------------
(* attemptMatchAndNotify, at the end of join, sync and tick *)

MatchDone(c) ==
  LET u == SocketUser[task[c].sock] IN
  /\ task[c].stage = "match" /\ Settled(c)
  /\ \/ /\ call[c].res # "matched"
        /\ Finish(c)
        /\ UNCHANGED timer
     \/ /\ call[c].res = "matched"
        /\ ClearTimer(u)
        /\ Await(c, "room")
        /\ UNCHANGED vars
  /\ UNCHANGED <<socket, rooms, pending, told, handlerFaults>>

\* Mutant: the partner is not told.
RoomCreatedOneSided(c) ==
  LET s == task[c].sock
      partner == call[c].cand IN
  /\ task[c].stage = "room"
  /\ rooms' = Append(rooms, {SocketUser[s], partner})
  /\ Emit(s, "match", Len(rooms) + 1)
  /\ ClearTimer(partner)
  /\ Finish(c)
  /\ UNCHANGED <<socket, pending, handlerFaults>>

\* Mutant: each side gets a room of its own.
RoomCreatedPerSide(c) ==
  LET s == task[c].sock
      p == {SocketUser[s], call[c].cand} IN
  /\ task[c].stage = "room"
  /\ rooms' = rooms \o <<p, p>>
  /\ told' = told \cup Event(s, "match", Len(rooms) + 1) \cup Event(call[c].theirs.sid, "match", Len(rooms) + 2)
  /\ ClearTimer(call[c].cand)
  /\ Finish(c)
  /\ UNCHANGED <<socket, pending, handlerFaults>>

\* Mutant: the client is told by this.server.emit, which every socket hears.
RoomCreatedBroadcast(c) ==
  LET sid == call[c].theirs.sid
      room == Len(rooms) + 1 IN
  /\ task[c].stage = "room"
  /\ rooms' = Append(rooms, {SocketUser[task[c].sock], call[c].cand})
  /\ told' = told \cup UNION {Event(s, "match", room) : s \in Sockets}
  /\ \/ /\ sid = Pending
        /\ task' = [task EXCEPT ![c].stage = "store", ![c].room = room]
        /\ UNCHANGED <<vars, timer>>
     \/ /\ sid # Pending
        /\ ClearTimer(call[c].cand)
        /\ Finish(c)
  /\ UNCHANGED <<socket, pending, handlerFaults>>

\* createRoom resolves: tell this client, then the partner, whose socket id is
\* the one the search read.
RoomCreated(c) ==
  LET s == task[c].sock
      partner == call[c].cand
      sid == call[c].theirs.sid
      room == Len(rooms) + 1 IN
  /\ task[c].stage = "room"
  /\ rooms' = Append(rooms, {SocketUser[s], partner})
  /\ \/ /\ sid = Pending
        /\ Emit(s, "match", room)
        /\ task' = [task EXCEPT ![c].stage = "store", ![c].room = room]
        /\ UNCHANGED <<vars, timer>>
     \/ /\ sid # Pending
        /\ told' = told \cup Event(s, "match", room) \cup Event(sid, "match", room)
        /\ ClearTimer(partner)
        /\ Finish(c)
  /\ UNCHANGED <<socket, pending, handlerFaults>>

\* Mutant: the room stored is the next one.
PendingStoredOffByOne(c) ==
  /\ task[c].stage = "store"
  /\ pending' = [pending EXCEPT ![call[c].cand] = task[c].room + 1]
  /\ Finish(c)
  /\ UNCHANGED <<socket, timer, rooms, told, handlerFaults>>

\* Mutant: after the result is stored the notification starts over.
PendingStoredRetries(c) ==
  /\ task[c].stage = "store"
  /\ pending' = [pending EXCEPT ![call[c].cand] = task[c].room]
  /\ Await(c, "room")
  /\ UNCHANGED <<vars, socket, timer, rooms, told, handlerFaults>>

\* setPendingMatch: SETEX 120.
PendingStored(c) ==
  /\ task[c].stage = "store"
  /\ pending' = [pending EXCEPT ![call[c].cand] = task[c].room]
  /\ Finish(c)
  /\ UNCHANGED <<socket, timer, rooms, told, handlerFaults>>

\* One more command of the gateway itself fails; the bound counts the service's too.
HandlerFault == faults + handlerFaults < MaxFaults /\ handlerFaults' = handlerFaults + 1

\* createRoom, SETEX, or the GET or DEL of consumePendingMatch rejects: the
\* handler ends there.
HandlerFails(c) ==
  /\ task[c].stage \in {"room", "store", "consume", "consumed"}
  /\ HandlerFault
  /\ Finish(c)
  /\ UNCHANGED <<socket, timer, rooms, pending, told>>

\* The same after the database has run the command: the room exists and nobody
\* is told of it, or the stored match is gone unread.
HandlerLosesReply(c) ==
  /\ HandlerFault
  /\ \/ /\ task[c].stage = "room"
        /\ rooms' = Append(rooms, {SocketUser[task[c].sock], call[c].cand})
        /\ UNCHANGED pending
     \/ /\ task[c].stage = "consumed"
        /\ pending' = [pending EXCEPT ![SocketUser[task[c].sock]] = 0]
        /\ UNCHANGED rooms
  /\ Finish(c)
  /\ UNCHANGED <<socket, timer, told>>

-----------------------------------------------------------------------------
(* REST *)

RestTask(c) == task' = [task EXCEPT ![c] = [NoTask EXCEPT !.kind = "rest", !.stage = "service"]]

RestJoin(c, u, dto) ==
  /\ Free(c)
  /\ RestTask(c)
  /\ JoinQueue(c, u, Pending, dto)
  /\ UNCHANGED <<socket, timer, rooms, pending, told, handlerFaults>>

RestLeave(c, u) ==
  /\ Free(c)
  /\ RestTask(c)
  /\ LeaveQueue(c, u)
  /\ UNCHANGED <<socket, timer, rooms, pending, told, handlerFaults>>

\* GET /matchmaking/status reads, cleans up, and may end the caller's stay.
RestStatus(c, u) ==
  /\ Free(c)
  /\ RestTask(c)
  /\ GetStatus(c, u)
  /\ UNCHANGED <<socket, timer, rooms, pending, told, handlerFaults>>

-----------------------------------------------------------------------------
(* The specification *)

PendingExpires(u) ==
  /\ pending[u] # 0
  /\ pending' = [pending EXCEPT ![u] = 0]
  /\ UNCHANGED <<vars, socket, timer, task, rooms, told, handlerFaults>>

\* The process dies with its timers, tasks and sockets.
ServerCrash ==
  /\ Crash
  /\ task' = [c \in Calls |-> NoTask]
  /\ timer' = [u \in Users |-> None]
  /\ socket' = [s \in Sockets |-> IF socket[s] = "on" THEN "off" ELSE socket[s]]
  /\ UNCHANGED <<rooms, pending, told, handlerFaults>>

GatewayInit ==
  /\ Init
  /\ socket = [s \in Sockets |-> "new"]
  /\ timer = [u \in Users |-> None]
  /\ task = [c \in Calls |-> NoTask]
  /\ rooms = <<>>
  /\ pending = [u \in Users |-> 0]
  /\ told = {}
  /\ handlerFaults = 0

Client(c) ==
  \/ \E s \in Sockets :
       \/ "join" \in ClientOps /\ \E dto \in JoinDtos[SocketUser[s]] : WsJoin(c, s, dto)
       \/ "sync" \in ClientOps /\ WsSync(c, s)
       \/ "leave" \in ClientOps /\ WsLeave(c, s)
       \/ "disconnect" \in ClientOps /\ Disconnect(c, s)
  \/ \E u \in Users :
       \/ "restJoin" \in ClientOps /\ \E dto \in JoinDtos[u] : RestJoin(c, u, dto)
       \/ "restLeave" \in ClientOps /\ RestLeave(c, u)
       \/ "restStatus" \in ClientOps /\ RestStatus(c, u)

\* The handler goes on after an await.
Handler(c) ==
  \/ JoinDone(c) \/ SyncConsume(c) \/ SyncConsumed(c) \/ SyncUpdated(c) \/ SyncDone(c)
  \/ LeaveDone(c) \/ TickDone(c) \/ MatchDone(c) \/ RoomCreated(c) \/ PendingStored(c)

Service(c) == Progress(c) /\ UNCHANGED gateway

GatewayEnvironment ==
  \/ (Lapse \/ Age \/ \E u \in Users : RedisExpire(u)) /\ UNCHANGED gateway
  \/ "pendingExpires" \in ClientOps /\ \E u \in Users : PendingExpires(u)
  \/ ServerCrash

GatewayNext ==
  \/ \E s \in Sockets : Connect(s)
  \/ \E c \in Calls : \/ Client(c) \/ Handler(c) \/ Service(c)
                      \/ HandlerFails(c) \/ HandlerLosesReply(c)
                      \/ /\ faults + handlerFaults < MaxFaults
                         /\ Throw(c) \/ LostReply(c)
                         /\ UNCHANGED gateway
                      \/ \E u \in Users : Tick(c, u)
  \/ GatewayEnvironment

GatewaySpec == GatewayInit /\ [][GatewayNext]_allVars

\* Redis, MongoDB and the event loop go on, and the TTL of a lock runs out.  Call
\* slots are a bound of the model: a timer that fires for ever gets one in the end.
GatewayFairness ==
  /\ WF_allVars(Lapse /\ UNCHANGED gateway)
  /\ \A c \in Calls : WF_allVars(Service(c)) /\ WF_allVars(Handler(c))
  /\ \A u \in Users : SF_allVars(\E c \in Calls : Tick(c, u))

FairGatewaySpec == GatewaySpec /\ GatewayFairness

\* The expiry of an entry is fair as well: five minutes pass.
TimedGatewaySpec == FairGatewaySpec /\ WF_allVars(Age /\ UNCHANGED gateway)

-----------------------------------------------------------------------------
(* Properties *)

\* Every variable of the gateway holds a value of its kind, with at most one
\* stored match per user and at most one position loop.
GatewayTypeOK ==
  /\ TypeOK
  /\ socket \in [Sockets -> {"new", "on", "off"}]
  /\ timer \in [Users -> Sockets \cup {None}]
  /\ task \in [Calls -> [kind : Kinds, sock : Sockets \cup {None}, stage : Stages, room : Nat]]
  /\ rooms \in Seq(SUBSET Users)
  /\ pending \in [Users -> 0..Len(rooms)]
  /\ told \subseteq [sock : Sockets, what : {"match", "timeout"}, room : 0..Len(rooms)]
  /\ handlerFaults \in Nat

ToldMatch(u, r) == \E e \in told : e.what = "match" /\ e.room = r /\ SocketUser[e.sock] = u

\* A match makes one room for exactly its two users, however the handlers of the
\* two sides interleave: there are never more rooms for a pair than matches of it.
RoomsComeFromMatches ==
  \A p \in {rooms[i] : i \in DOMAIN rooms} :
    Cardinality({i \in DOMAIN rooms : rooms[i] = p}) <= Cardinality({m \in matches : {m.by, m.with} = p})

\* A match stored for a user without a WebSocket is handed over once: as long as
\* it is stored nobody has told her (consumePendingMatch deletes before it returns).
UnreadIsUntold == \A u \in Users : pending[u] # 0 => ~ToldMatch(u, pending[u])

\* Nobody is told of a room of others: not by the socket id that a search read in
\* the partner's entry before the claim, which joins and syncs replace meanwhile,
\* and not by a stored match that waits while other rooms are made.
OnlyMembersAreTold ==
  \A e \in told : e.what = "match" => e.room \in DOMAIN rooms /\ SocketUser[e.sock] \in rooms[e.room]

\* No socket of the user is open, nor will be.
Gone(u) == \A s \in Sockets : SocketUser[s] = u => socket[s] = "off"

\* However the two searches and the disconnects of a pair interleave, a match ends
\* with one room that each of the two is told of, or has left for good: when no command
\* failed, one socket per user, and both joined with theirs.
BothAreTold ==
  \A p \in {q \in SUBSET Users : Cardinality(q) = 2} :
    (\E m \in matches : {m.by, m.with} = p) ~>
      \/ \E r \in DOMAIN rooms : rooms[r] = p /\ \A u \in p : ToldMatch(u, r) \/ Gone(u)
      \/ faults + handlerFaults + crashes > 0

\* A timer does not tick for ever for a user who is out of the queue: a tick that
\* overlaps the match of another, or a join that goes on after the disconnect of its
\* socket and starts the loop anew (line 84), is found out by a later tick.
TimersStop ==
  \A u \in Users : timer[u] # None /\ entry[u] = None ~> timer[u] = None \/ entry[u] # None

\* Both of the pair wait, and a search of one finds the other.
Waits(p) == (\A u \in p : timer[u] # None /\ entry[u] # None) /\ (\E u \in p : zset[u] # 0)

\* Two users who both wait with a running timer, of whom a search finds at least one,
\* do not wait for each other for ever, although their searches exclude one another.
WaitingEnds ==
  \A p \in {q \in SUBSET Users : Cardinality(q) = 2} :
    Waits(p) ~> ~Waits(p)

\* A wait that is over is answered: a client whose position loop runs is told of
\* a match or of the timeout.
TimeoutIsTold ==
  \A u \in Users : timer[u] # None ~> \E e \in told : SocketUser[e.sock] = u
=============================================================================
