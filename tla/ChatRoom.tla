------------------------------ MODULE ChatRoom ------------------------------
(***************************************************************************)
(* Chat rooms: the chat gateway, the REST endpoints that leave a room and  *)
(* post an image, and the services and collections below them.             *)
(*                                                                         *)
(* A handler is a task.  pc names the MongoDB command it awaits; "reply"   *)
(* is None until the command has run.  Execute is the command running at   *)
(* the database, and the action named after the handler is the synchronous *)
(* code from there to the next await, which may come much later: replies   *)
(* of a connection pool are not ordered.  socketMeta, roomPresence, the    *)
(* spam tracker and the rooms of socket.io are memory of the process.      *)
(*                                                                         *)
(* Whether a text passes moderation is a free choice here; SpamTracker     *)
(* models it.  Any client with a token may name any room in any request:   *)
(* only joining, blocking, uploading and the REST leave ask who is in it.  *)
(***************************************************************************)
EXTENDS Integers, FiniteSets

CONSTANTS
  Users, Rooms, None,
  Members,       \* the two participants of a room
  Sockets,       \* sockets of the /chat namespace; a reconnection is a new one
  SocketUser,    \* whose token a socket presents
  Calls,         \* slots for handlers in flight
  Ops,           \* the requests of this instance
  HistoryLimit,  \* how many messages a join returns, the oldest ones
  MaxMessages,   \* bound on the messages created
  MaxMishaps     \* bound on commands that reject and crashes of the process, together

AllOps == {"join", "send", "typing", "image", "leave", "block", "restLeave", "blocklist", "disconnect"}

ASSUME RoomsAssumption ==
  /\ Members \in [Rooms -> SUBSET Users]
  /\ \A r \in Rooms : Cardinality(Members[r]) = 2
  /\ SocketUser \in [Sockets -> Users]
  /\ None \notin Users \cup Rooms \cup Sockets
ASSUME ChatBoundsAssumption ==
  /\ Ops \subseteq AllOps
  /\ HistoryLimit \in Nat /\ MaxMessages \in Nat /\ MaxMishaps \in Nat

VARIABLES
  socket,     \* "new", "on" or "off"
  joined,     \* the socket.io rooms of a socket
  meta,       \* socketMeta: the room a socket was last put into
  presence,   \* roomPresence: the sockets counted as online in a room
  tracker,    \* keys of spamTracker, <<room, user>>
  status,     \* the rooms collection: "active" or "closed"
  messages,   \* the messages collection: ids by room, in order of createdAt
  blocks,     \* the blocklist collection, <<blocker, blocked>>
  created,    \* the last message id drawn: createdAt, which mongoose sets before it inserts
  task,       \* handlers in flight
  view,       \* the last room event a client got: "out", "in", "closed", "denied"
  shown,      \* the messages a client got, live or as history
  faults,     \* bound counter: commands that failed so far
  crashes     \* bound counter: crashes so far

memory == <<joined, meta, presence, tracker>>
database == <<status, messages, blocks>>
client == <<view, shown>>
bounds == <<created, faults, crashes>>
chatVars == <<socket, memory, database, task, client, bounds>>

Ids == 1..MaxMessages

NoTask == [pc |-> "idle", sock |-> None, user |-> None, room |-> None, target |-> None,
           reply |-> "none", history |-> {}, id |-> 0]

Labels == {"join.room", "join.session", "join.history", "send.room", "send.blocked", "send.create",
           "image.room", "image.create", "block.room", "block.create",
           "close.room", "close.update", "close.delete", "rest.room", "rest.update", "rest.delete"}
Writes == {"send.create", "image.create", "block.create", "close.update", "close.delete", "rest.update", "rest.delete"}
RoomReads == {"join.room", "join.session", "send.room", "image.room", "block.room", "close.room", "rest.room"}
Replies == {"none", "found", "missing", "done", "error"}

Tasks == [pc : Labels \cup {"idle"}, sock : Sockets \cup {None}, user : Users \cup {None},
          room : Rooms \cup {None}, target : Users \cup {None}, reply : Replies, history : SUBSET Ids, id : 0..MaxMessages]

\* getPartnerUserId: for one who is not in the room, a participant all the same.
Partner(r, u) == CHOOSE v \in Members[r] : v # u

\* The n oldest messages of a room.
Oldest(S, n) == {m \in S : Cardinality({k \in S : k < m}) < n}

-----------------------------------------------------------------------------
(* Tasks *)

Awaits(c, label) == task[c].pc = label /\ task[c].reply # "none"
Got(c, reply) == task[c].reply = reply

BeginOn(c, label, s, u, r, v) ==
  /\ task[c] = NoTask
  /\ task' = [task EXCEPT ![c] = [NoTask EXCEPT !.pc = label, !.sock = s, !.user = u, !.room = r,
                                                !.target = v]]
Begin(c, label, s, u, r) == BeginOn(c, label, s, u, r, None)

Await(c, label) == task' = [task EXCEPT ![c].pc = label, ![c].reply = "none"]
End(c) == task' = [task EXCEPT ![c] = NoTask]

-----------------------------------------------------------------------------
(* Memory of the gateway *)

\* Mutant: the user is noted as online where the socket should be.
EnsureByUser(s, r) ==
  IF meta[s] = r THEN UNCHANGED <<joined, meta, presence>>
  ELSE /\ joined' = IF socket[s] = "on" THEN [joined EXCEPT ![s] = @ \cup {r}] ELSE joined
       /\ meta' = [meta EXCEPT ![s] = r]
       /\ presence' = [presence EXCEPT ![r] = @ \cup {SocketUser[s]}]

\* ensureSocketJoinedRoom.  Joining does nothing on a socket that has gone, but
\* the maps of the gateway are written all the same.
Ensure(s, r) ==
  IF meta[s] = r THEN UNCHANGED <<joined, meta, presence>>
  ELSE /\ joined' = IF socket[s] = "on" THEN [joined EXCEPT ![s] = @ \cup {r}] ELSE joined
       /\ meta' = [meta EXCEPT ![s] = r]
       /\ presence' = [presence EXCEPT ![r] = @ \cup {s}]

\* socketsLeave
Empty(r) == joined' = [s \in Sockets |-> joined[s] \ {r}]

\* clearSpamTracker for the participants
ClearTrackers(r) == tracker' = tracker \ ({r} \X Members[r])

Hears(s, r) == socket[s] = "on" /\ r \in joined[s]

\* An event of the room to one client, or to everyone in it.
Notify(s, r, what) == view' = IF socket[s] = "on" THEN [view EXCEPT ![s][r] = what] ELSE view
Announce(r, what) == view' = [s \in Sockets |-> IF Hears(s, r) THEN [view[s] EXCEPT ![r] = what] ELSE view[s]]

\* chat:message to everyone in the room
Broadcast(r, id) == shown' = [s \in Sockets |-> IF Hears(s, r) THEN shown[s] \cup {id} ELSE shown[s]]

-----------------------------------------------------------------------------
(* The commands *)

Replied(c, reply) == task' = [task EXCEPT ![c].reply = reply]

\* findByRoomId looks for an active room.
FindRoom(c) ==
  /\ task[c].pc \in RoomReads
  /\ Replied(c, IF status[task[c].room] = "active" THEN "found" ELSE "missing")
  /\ UNCHANGED database

FindMessages(c) ==
  /\ task[c].pc = "join.history"
  /\ task' = [task EXCEPT ![c].reply = "done", ![c].history = Oldest(messages[task[c].room], HistoryLimit)]
  /\ UNCHANGED database

IsBlocked(c) ==
  /\ task[c].pc = "send.blocked"
  /\ Replied(c, IF <<task[c].user, Partner(task[c].room, task[c].user)>> \in blocks THEN "found" ELSE "missing")
  /\ UNCHANGED database

CreateMessage(c) ==
  /\ task[c].pc \in {"send.create", "image.create"}
  /\ messages' = [messages EXCEPT ![task[c].room] = @ \cup {task[c].id}]
  /\ Replied(c, "done")
  /\ UNCHANGED <<status, blocks>>

\* The index on the pair is unique.  Whom to block is the client's word.
CreateBlock(c) ==
  LET pair == <<task[c].user, task[c].target>> IN
  /\ task[c].pc = "block.create"
  /\ Replied(c, IF pair \in blocks THEN "error" ELSE "done")
  /\ blocks' = blocks \cup {pair}
  /\ UNCHANGED <<status, messages>>

CloseRoom(c) ==
  /\ task[c].pc \in {"close.update", "rest.update"}
  /\ status' = [status EXCEPT ![task[c].room] = "closed"]
  /\ Replied(c, "done")
  /\ UNCHANGED <<messages, blocks>>

DeleteMessages(c) ==
  /\ task[c].pc \in {"close.delete", "rest.delete"}
  /\ messages' = [messages EXCEPT ![task[c].room] = {}]
  /\ Replied(c, "done")
  /\ UNCHANGED <<status, blocks>>

Execute(c) ==
  /\ task[c].reply = "none"
  /\ \/ FindRoom(c) \/ FindMessages(c) \/ IsBlocked(c) \/ CreateMessage(c)
     \/ CreateBlock(c) \/ CloseRoom(c) \/ DeleteMessages(c)
  /\ UNCHANGED <<socket, memory, client, bounds>>

\* The command rejects: it has no effect, or it is a write whose reply is lost.
Reject(c) ==
  /\ \/ task[c].pc # "idle" /\ task[c].reply = "none"
     \/ task[c].pc \in Writes /\ task[c].reply = "done"
  /\ faults + crashes < MaxMishaps
  /\ faults' = faults + 1
  /\ Replied(c, "error")
  /\ UNCHANGED <<socket, memory, database, client, created, crashes>>

-----------------------------------------------------------------------------
(* Connections *)

\* A socket without a valid token is disconnected and has no userId, with which
\* every handler begins.
Connect(s) ==
  /\ socket[s] = "new"
  /\ \E verdict \in {"on", "off"} : socket' = [socket EXCEPT ![s] = verdict]
  /\ UNCHANGED <<memory, database, task, client, bounds>>

\* Mutant: the room's whole set of online sockets is dropped, not one socket.
DisconnectAll(s) ==
  /\ socket[s] = "on"
  /\ socket' = [socket EXCEPT ![s] = "off"]
  /\ joined' = [joined EXCEPT ![s] = {}]
  /\ meta' = [meta EXCEPT ![s] = None]
  /\ presence' = [r \in Rooms |-> IF r = meta[s] THEN {} ELSE presence[r]]
  /\ UNCHANGED <<tracker, database, task, client, bounds>>

Disconnect(s) ==
  /\ socket[s] = "on"
  /\ socket' = [socket EXCEPT ![s] = "off"]
  /\ joined' = [joined EXCEPT ![s] = {}]
  /\ meta' = [meta EXCEPT ![s] = None]
  /\ presence' = [r \in Rooms |-> IF r = meta[s] THEN presence[r] \ {s} ELSE presence[r]]
  /\ UNCHANGED <<tracker, database, task, client, bounds>>

-----------------------------------------------------------------------------
(* room:join *)

JoinRoom(c, s, r) ==
  /\ socket[s] = "on"
  /\ Begin(c, "join.room", s, SocketUser[s], r)
  /\ UNCHANGED <<socket, memory, database, client, bounds>>

JoinDenied(c) ==
  LET t == task[c] IN
  /\ t.pc \in {"join.room", "join.session", "join.history"}
  /\ Got(c, "missing") \/ Got(c, "error") \/ (Awaits(c, "join.room") /\ t.user \notin Members[t.room])
  /\ Notify(t.sock, t.room, "denied")
  /\ End(c)
  /\ UNCHANGED <<socket, memory, database, shown, bounds>>

JoinFound(c) ==
  LET t == task[c] IN
  /\ Awaits(c, "join.room") /\ Got(c, "found") /\ t.user \in Members[t.room]
  /\ Ensure(t.sock, t.room)
  /\ Await(c, "join.session")
  /\ UNCHANGED <<socket, tracker, database, client, bounds>>

JoinSession(c) ==
  /\ Awaits(c, "join.session") /\ Got(c, "found")
  /\ Await(c, "join.history")
  /\ UNCHANGED <<socket, memory, database, client, bounds>>

JoinHistory(c) ==
  LET t == task[c] IN
  /\ Awaits(c, "join.history") /\ Got(c, "done")
  /\ Notify(t.sock, t.room, "in")
  /\ shown' = IF socket[t.sock] = "on" THEN [shown EXCEPT ![t.sock] = @ \cup t.history] ELSE shown
  /\ End(c)
  /\ UNCHANGED <<socket, memory, database, bounds>>

JoinStep(c) == JoinDenied(c) \/ JoinFound(c) \/ JoinSession(c) \/ JoinHistory(c)

-----------------------------------------------------------------------------
(* chat:send, chat:typing, and the upload of an image *)

SendMessage(c, s, r) ==
  /\ socket[s] = "on"
  /\ Begin(c, "send.room", s, SocketUser[s], r)
  /\ UNCHANGED <<socket, memory, database, client, bounds>>

\* messageModel.create up to its await: the message gets its createdAt.
SaveMessage(c, label) ==
  /\ created < MaxMessages
  /\ created' = created + 1
  /\ task' = [task EXCEPT ![c].pc = label, ![c].reply = "none", ![c].id = created + 1]

SendFound(c) ==
  LET t == task[c] IN
  /\ Awaits(c, "send.room") /\ Got(c, "found")
  /\ Ensure(t.sock, t.room)
  /\ Await(c, "send.blocked")
  /\ UNCHANGED <<socket, tracker, database, client, bounds>>

\* saveMessage up to its await.  A text that passes checkText enters the tracker,
\* whether or not it passes checkSpam.
SendAllowed(c) ==
  LET t == task[c] IN
  /\ Awaits(c, "send.blocked") /\ Got(c, "missing")
  /\ \/ SaveMessage(c, "send.create") /\ tracker' = tracker \cup {<<t.room, t.user>>}
     \/ /\ End(c)
        /\ tracker' \in {tracker, tracker \cup {<<t.room, t.user>>}}
        /\ UNCHANGED created
  /\ UNCHANGED <<socket, joined, meta, presence, database, client, faults, crashes>>

\* Mutant: client.to instead of server.to, which leaves the sender out.
SendSavedToOthers(c) ==
  LET t == task[c] IN
  /\ Awaits(c, "send.create") \/ Awaits(c, "image.create")
  /\ Got(c, "done")
  /\ shown' = [s \in Sockets |-> IF Hears(s, t.room) /\ s # t.sock THEN shown[s] \cup {t.id} ELSE shown[s]]
  /\ End(c)
  /\ UNCHANGED <<socket, memory, database, view, bounds>>

SendSaved(c) ==
  LET t == task[c] IN
  /\ Awaits(c, "send.create") \/ Awaits(c, "image.create")
  /\ Got(c, "done")
  /\ Broadcast(t.room, t.id)
  /\ End(c)
  /\ UNCHANGED <<socket, memory, database, view, bounds>>

SendFails(c) ==
  /\ \/ task[c].pc \in {"send.room", "image.room"} /\ Got(c, "missing")
     \/ task[c].pc = "send.blocked" /\ Got(c, "found")
     \/ task[c].pc \in {"send.room", "send.blocked", "send.create", "image.room", "image.create"} /\ Got(c, "error")
     \/ Awaits(c, "image.room") /\ task[c].user \notin Members[task[c].room]
  /\ End(c)
  /\ UNCHANGED <<socket, memory, database, client, bounds>>

Typing(s, r) ==
  /\ socket[s] = "on"
  /\ Ensure(s, r)
  /\ UNCHANGED <<socket, tracker, database, task, client, bounds>>

UploadImage(c, u, r) ==
  /\ Begin(c, "image.room", None, u, r)
  /\ UNCHANGED <<socket, memory, database, client, bounds>>

ImageFound(c) ==
  /\ Awaits(c, "image.room") /\ Got(c, "found") /\ task[c].user \in Members[task[c].room]
  /\ SaveMessage(c, "image.create")
  /\ UNCHANGED <<socket, memory, database, client, faults, crashes>>

SendStep(c) == SendFound(c) \/ SendAllowed(c) \/ SendSaved(c) \/ SendFails(c) \/ ImageFound(c)

-----------------------------------------------------------------------------
(* room:leave and room:block *)

LeaveRoom(c, s, r) ==
  /\ socket[s] = "on"
  /\ Begin(c, "close.room", s, SocketUser[s], r)
  /\ UNCHANGED <<socket, memory, database, client, bounds>>

BlockInRoom(c, s, r) ==
  /\ socket[s] = "on"
  /\ \E v \in Users : BeginOn(c, "block.room", s, SocketUser[s], r, v)
  /\ UNCHANGED <<socket, memory, database, client, bounds>>

BlockFound(c) ==
  /\ Awaits(c, "block.room") /\ Got(c, "found") /\ task[c].user \in Members[task[c].room]
  /\ Await(c, "block.create")
  /\ UNCHANGED <<socket, memory, database, client, bounds>>

BlockCreated(c) ==
  /\ Awaits(c, "block.create") /\ Got(c, "done")
  /\ task' = [task EXCEPT ![c].pc = "close.room", ![c].reply = "none", ![c].target = None]
  /\ UNCHANGED <<socket, memory, database, client, bounds>>

\* The room is missing or not the caller's, or the block exists already: an error, and
\* the room stays.
BlockFails(c) ==
  /\ task[c].pc \in {"block.room", "block.create"}
  /\ \/ Got(c, "missing") \/ Got(c, "error")
     \/ Awaits(c, "block.room") /\ task[c].user \notin Members[task[c].room]
  /\ End(c)
  /\ UNCHANGED <<socket, memory, database, client, bounds>>

\* Mutant: the messages are deleted before the room is closed.
CloseFoundDeletes(c) ==
  /\ Awaits(c, "close.room") /\ Got(c, "found")
  /\ Announce(task[c].room, "closed")
  /\ Await(c, "close.delete")
  /\ UNCHANGED <<socket, memory, database, shown, bounds>>

\* finalizeRoom up to its first await.
CloseFound(c) ==
  /\ Awaits(c, "close.room") /\ Got(c, "found")
  /\ Announce(task[c].room, "closed")
  /\ Await(c, "close.update")
  /\ UNCHANGED <<socket, memory, database, shown, bounds>>

CloseUpdated(c) ==
  /\ Awaits(c, "close.update") /\ Got(c, "done")
  /\ Await(c, "close.delete")
  /\ UNCHANGED <<socket, memory, database, client, bounds>>

\* The end of closeRoom, reached after the messages have gone and after whatever
\* exception of finalizeRoom or getRoom.
CloseEnds(c) ==
  LET t == task[c] IN
  /\ t.pc \in {"close.room", "close.update", "close.delete"}
  /\ \/ Awaits(c, "close.delete") /\ Got(c, "done") /\ ClearTrackers(t.room)
     \/ (Got(c, "missing") \/ Got(c, "error")) /\ UNCHANGED tracker
  /\ presence' = [presence EXCEPT ![t.room] = {}]
  /\ meta' = [meta EXCEPT ![t.sock] = None]
  /\ Empty(t.room)
  /\ End(c)
  /\ UNCHANGED <<socket, database, client, bounds>>

CloseStep(c) ==
  \/ BlockFound(c) \/ BlockCreated(c) \/ BlockFails(c)
  \/ CloseFound(c) \/ CloseUpdated(c) \/ CloseEnds(c)

-----------------------------------------------------------------------------
(* POST /rooms/:roomId/leave *)

RestLeave(c, u, r) ==
  /\ Begin(c, "rest.room", None, u, r)
  /\ UNCHANGED <<socket, memory, database, client, bounds>>

\* Mutant: the room is not closed.
RestFoundForgets(c) ==
  LET t == task[c] IN
  /\ Awaits(c, "rest.room") /\ Got(c, "found") /\ t.user \in Members[t.room]
  /\ Announce(t.room, "closed")
  /\ Empty(t.room)
  /\ Await(c, "rest.delete")
  /\ UNCHANGED <<socket, meta, presence, tracker, database, shown, bounds>>

RestFound(c) ==
  LET t == task[c] IN
  /\ Awaits(c, "rest.room") /\ Got(c, "found") /\ t.user \in Members[t.room]
  /\ Announce(t.room, "closed")
  /\ Empty(t.room)
  /\ Await(c, "rest.update")
  /\ UNCHANGED <<socket, meta, presence, tracker, database, shown, bounds>>

RestUpdated(c) ==
  /\ Awaits(c, "rest.update") /\ Got(c, "done")
  /\ Await(c, "rest.delete")
  /\ UNCHANGED <<socket, memory, database, client, bounds>>

RestDeleted(c) ==
  /\ Awaits(c, "rest.delete") /\ Got(c, "done")
  /\ ClearTrackers(task[c].room)
  /\ End(c)
  /\ UNCHANGED <<socket, joined, meta, presence, database, client, bounds>>

RestFails(c) ==
  LET t == task[c] IN
  /\ t.pc \in {"rest.room", "rest.update", "rest.delete"}
  /\ Got(c, "missing") \/ Got(c, "error") \/ (Awaits(c, "rest.room") /\ t.user \notin Members[t.room])
  /\ End(c)
  /\ UNCHANGED <<socket, memory, database, client, bounds>>

RestStep(c) == RestFound(c) \/ RestUpdated(c) \/ RestDeleted(c) \/ RestFails(c)

-----------------------------------------------------------------------------
(* The specification *)

\* A block placed over REST, outside the room.
Blocklist(u, v) ==
  /\ u # v /\ <<u, v>> \notin blocks
  /\ blocks' = blocks \cup {<<u, v>>}
  /\ UNCHANGED <<socket, memory, status, messages, task, client, bounds>>

\* The process dies; a client that was connected must connect anew.
Crash ==
  /\ faults + crashes < MaxMishaps
  /\ crashes' = crashes + 1
  /\ socket' = [s \in Sockets |-> IF socket[s] = "on" THEN "off" ELSE socket[s]]
  /\ joined' = [s \in Sockets |-> {}]
  /\ meta' = [s \in Sockets |-> None]
  /\ presence' = [r \in Rooms |-> {}]
  /\ tracker' = {}
  /\ task' = [c \in Calls |-> NoTask]
  /\ UNCHANGED <<database, client, created, faults>>

ChatInit ==
  /\ socket = [s \in Sockets |-> "new"]
  /\ joined = [s \in Sockets |-> {}]
  /\ meta = [s \in Sockets |-> None]
  /\ presence = [r \in Rooms |-> {}]
  /\ tracker = {}
  /\ status = [r \in Rooms |-> "active"]
  /\ messages = [r \in Rooms |-> {}]
  /\ blocks = {}
  /\ created = 0
  /\ task = [c \in Calls |-> NoTask]
  /\ view = [s \in Sockets |-> [r \in Rooms |-> "out"]]
  /\ shown = [s \in Sockets |-> {}]
  /\ faults = 0
  /\ crashes = 0

Request(c) == \E r \in Rooms :
  \/ \E s \in Sockets :
       \/ "join" \in Ops /\ JoinRoom(c, s, r)
       \/ "send" \in Ops /\ SendMessage(c, s, r)
       \/ "leave" \in Ops /\ LeaveRoom(c, s, r)
       \/ "block" \in Ops /\ BlockInRoom(c, s, r)
  \/ \E u \in Users :
       \/ "image" \in Ops /\ UploadImage(c, u, r)
       \/ "restLeave" \in Ops /\ RestLeave(c, u, r)

Handler(c) == JoinStep(c) \/ SendStep(c) \/ CloseStep(c) \/ RestStep(c)

Clients ==
  \/ \E s \in Sockets : Connect(s)
  \/ "disconnect" \in Ops /\ \E s \in Sockets : Disconnect(s)
  \/ "typing" \in Ops /\ \E s \in Sockets, r \in Rooms : Typing(s, r)
  \/ "blocklist" \in Ops /\ \E u, v \in Users : Blocklist(u, v)

ChatNext ==
  \/ \E c \in Calls : Request(c) \/ Execute(c) \/ Handler(c) \/ Reject(c)
  \/ Clients
  \/ Crash

ChatSpec == ChatInit /\ [][ChatNext]_chatVars

\* MongoDB answers and the event loop goes on.
FairChatSpec == ChatSpec /\ \A c \in Calls : WF_chatVars(Execute(c)) /\ WF_chatVars(Handler(c))

-----------------------------------------------------------------------------
(* Properties *)

\* Every variable holds a value of its kind.
ChatTypeOK ==
  /\ socket \in [Sockets -> {"new", "on", "off"}]
  /\ joined \in [Sockets -> SUBSET Rooms]
  /\ meta \in [Sockets -> Rooms \cup {None}]
  /\ presence \in [Rooms -> SUBSET Sockets]
  /\ tracker \subseteq Rooms \X Users
  /\ status \in [Rooms -> {"active", "closed"}]
  /\ messages \in [Rooms -> SUBSET Ids]
  /\ blocks \subseteq Users \X Users
  /\ created \in 0..MaxMessages
  /\ task \in [Calls -> Tasks]
  /\ view \in [Sockets -> [Rooms -> {"out", "in", "closed", "denied"}]]
  /\ shown \in [Sockets -> SUBSET Ids]
  /\ faults \in Nat /\ crashes \in Nat /\ faults + crashes <= MaxMishaps

Closing(r) == \E c \in Calls : task[c].room = r /\ task[c].pc \in {"close.room", "close.update", "close.delete", "rest.update"}
OnTheWay(r) == {task[c].id : c \in {d \in Calls : task[d].room = r}}
Missing(s, r) == messages[r] \ (shown[s] \cup OnTheWay(r))

\* Joining before reading the history leaves no gap: a client in an open room that
\* nobody is closing has every message of it, or it is about to be sent, except
\* those that come after the oldest HistoryLimit, of which the history tells nothing
\* (handleJoinRoom, lines 104-110, getActiveRoomMessages).  A saved message whose
\* insert seemed to fail is not sent: no command having failed.
HistoryIsWhole ==
  faults = 0 =>
    \A s \in Sockets, r \in Rooms :
      Hears(s, r) /\ view[s][r] = "in" /\ status[r] = "active" /\ ~Closing(r)
        => Missing(s, r) \cap Oldest(messages[r], HistoryLimit) = {}

\* A client that was let into a room that is open, and that nobody is closing,
\* hears it and is counted as online there, whatever else its socket did.  (A leave
\* whose commands fail empties the room and leaves it open.)
InMeansPresent ==
  faults = 0 =>
    \A s \in Sockets, r \in Rooms :
      socket[s] = "on" /\ view[s][r] = "in" /\ status[r] = "active" /\ ~Closing(r)
        => r \in joined[s] /\ s \in presence[r]

\* Nobody sheds his record of the last messages while the room is open: not by a
\* leave or close whose steps fail one by one, and not by the one of the other
\* member (finalizeRoom and leaveRoom clear the tracker last).
OpenRoomKeeps ==
  [][\A r \in Rooms : status[r] = "active" /\ crashes' = crashes =>
       {k \in tracker : k[1] = r} \subseteq tracker']_chatVars

\* The refinement mapping to ChatLog: a sender is admitted when MongoDB answers the
\* read of the room, and through when it answers the insert.
OpenRooms == {r \in Rooms : status[r] = "active"}
Sending(t) == \/ t.pc \in {"send.room", "image.room"} /\ t.reply = "found"
              \/ t.pc = "send.blocked"
              \/ t.pc \in {"send.create", "image.create"} /\ t.reply = "none"
Admitted == {<<c, task[c].room>> : c \in {d \in Calls : Sending(task[d])}}

\* The promise about the messages: only a send that found the room open puts a
\* message into it, once, however late, and the messages of a room go together and
\* only after it was closed (finalizeRoom).
Log == INSTANCE ChatLog WITH
  Senders <- Calls,
  Messages <- Ids,
  open <- OpenRooms,
  log <- messages,
  admitted <- Admitted

LogSpec == Log!Spec

\* Whoever leaves an open room by socket, and a member who leaves it over REST, closes
\* it, although the handler of another leave, block or message runs at the same time
\* (unless a command rejects or the process dies, after which the room may stay open).
LeaveCloses ==
  \A r \in Rooms :
    (\E c \in Calls : /\ task[c].room = r
                     /\ \/ task[c].pc = "close.room"
                        \/ task[c].pc = "rest.room" /\ task[c].user \in Members[r])
      ~> status[r] = "closed" \/ faults + crashes > 0
=============================================================================
