-------------------------- MODULE ChatRoomProofs --------------------------
(***************************************************************************)
(* Proofs about ChatRoom, for every number of users, rooms, sockets,       *)
(* handlers, messages, failures and crashes.                               *)
(***************************************************************************)
EXTENDS ChatRoom, FiniteSetTheorems, TLAPS

-----------------------------------------------------------------------------
(* The inductive invariant *)

BySocket == {"join.room", "join.session", "join.history", "send.room", "send.blocked", "send.create",
             "block.room", "block.create", "close.room", "close.update", "close.delete"}
Inserts == {"send.create", "image.create"}

\* The local variables that are in scope at a label hold a value there.
TaskOK(t) ==
  /\ t.pc = "idle" => t.room = None /\ t.id = 0 /\ t.reply = "none"
  /\ t.pc # "idle" => t.user \in Users /\ t.room \in Rooms
  /\ t.pc \in {"block.room", "block.create"} => t.target \in Users
  /\ t.pc \in BySocket => t.sock \in Sockets /\ socket[t.sock] # "new"
  /\ IF t.pc \in Inserts THEN t.id \in 1..created ELSE t.id = 0

TypeInv == ChatTypeOK /\ \A c \in Calls : TaskOK(task[c])

\* A room is closed before its messages go, and a handler that finds it closed,
\* or has closed it, is right.
ClosedInv ==
  \A c \in Calls :
    LET t == task[c] IN
    \/ t.pc \in {"close.delete", "rest.delete"}
    \/ t.pc \in {"close.update", "rest.update"} /\ t.reply \notin {"none", "error"}
    \/ t.pc = "close.room" /\ t.reply = "missing"
    => status[t.room] = "closed"

\* A message that is not in the collection yet has an id of its own.
IdsInv ==
  /\ \A r \in Rooms : \A m \in messages[r] : m <= created
  /\ \A c \in Calls : task[c].pc \in Inserts /\ task[c].reply = "none" =>
       /\ \A r \in Rooms : task[c].id \notin messages[r]
       /\ \A d \in Calls : d # c => task[d].id # task[c].id

\* A socket that has not connected has left no trace.
NewInv ==
  \A s \in Sockets : socket[s] = "new" => meta[s] = None /\ \A r \in Rooms : view[s][r] = "out"

Quiet(r) == status[r] = "active" /\ ~Closing(r)

\* The socket has been put into the room.
Put(s, r) ==
  \/ meta[s] = r
  \/ view[s][r] = "in"
  \/ \E c \in Calls : task[c].sock = s /\ task[c].room = r /\ task[c].pc \in {"join.session", "join.history"}

\* As long as nothing fails and nobody closes the room, it is still there.
PresentInv ==
  \A s \in Sockets, r \in Rooms :
    socket[s] = "on" /\ Quiet(r) /\ Put(s, r) => r \in joined[s] /\ s \in presence[r]

\* The messages of a room that a socket has missed, among those a history shows.
Missed(s, r) == Missing(s, r) \cap Oldest(messages[r], HistoryLimit)

WholeInv ==
  \A s \in Sockets, r \in Rooms :
    socket[s] = "on" /\ Quiet(r) =>
      /\ view[s][r] = "in" => Missed(s, r) = {}
      /\ \A c \in Calls :
           task[c].sock = s /\ task[c].room = r /\ task[c].pc = "join.history" /\ task[c].reply = "done"
             => Missed(s, r) \subseteq task[c].history

NoErrors == \A c \in Calls : task[c].reply = "error" => task[c].pc = "block.create"

SmoothInv == faults = 0 => NoErrors /\ PresentInv /\ WholeInv

ChatInv == TypeInv /\ ClosedInv /\ IdsInv /\ NewInv /\ SmoothInv

-----------------------------------------------------------------------------
(* Tasks *)

LEMMA NoTaskFields ==
  /\ NoTask \in Tasks /\ NoTask.pc = "idle" /\ NoTask.sock = None /\ NoTask.room = None
  /\ NoTask.reply = "none" /\ NoTask.id = 0
BY ChatBoundsAssumption DEF NoTask, Tasks, Replies

\* What begins, goes on, is answered or ends is one task.
Others(c) == task' \in [Calls -> Tasks] /\ \A d \in Calls : d # c => task'[d] = task[d]

SameWork(c) ==
  /\ task'[c].sock = task[c].sock /\ task'[c].user = task[c].user /\ task'[c].room = task[c].room

LEMMA BeginMoves ==
  ASSUME task \in [Calls -> Tasks], NEW c \in Calls, NEW label, NEW s, NEW u \in Users, NEW r \in Rooms,
         NEW v, v \in Users \/ v = None, label \in Labels, s \in Sockets \/ s = None,
         BeginOn(c, label, s, u, r, v)
  PROVE  /\ Others(c) /\ task[c].pc = "idle" /\ task'[c].pc = label /\ task'[c].sock = s
         /\ task'[c].user = u /\ task'[c].room = r /\ task'[c].reply = "none" /\ task'[c].id = 0
         /\ task'[c].target = v
<1> DEFINE g == [NoTask EXCEPT !.pc = label, !.sock = s, !.user = u, !.room = r, !.target = v]
<1>1. task' = [task EXCEPT ![c] = g] /\ task[c] = NoTask
  BY DEF BeginOn
<1>2. /\ g \in Tasks /\ g.pc = label /\ g.sock = s /\ g.user = u /\ g.room = r
      /\ g.reply = "none" /\ g.id = 0 /\ g.target = v
  BY NoTaskFields DEF Tasks
<1> HIDE DEF g
<1> QED
  BY <1>1, <1>2, NoTaskFields DEF Others

LEMMA AwaitMoves ==
  ASSUME task \in [Calls -> Tasks], NEW c \in Calls, NEW label \in Labels, Await(c, label)
  PROVE  /\ Others(c) /\ SameWork(c) /\ task'[c].pc = label /\ task'[c].reply = "none"
         /\ task'[c].id = task[c].id /\ task'[c].history = task[c].history
         /\ task'[c].target = task[c].target
<1> DEFINE g == [task[c] EXCEPT !.pc = label, !.reply = "none"]
<1>1. task' = [task EXCEPT ![c] = g]
  BY DEF Await
<1>2. /\ g \in Tasks /\ g.pc = label /\ g.reply = "none" /\ g.id = task[c].id
      /\ g.history = task[c].history /\ g.target = task[c].target
      /\ g.sock = task[c].sock /\ g.user = task[c].user /\ g.room = task[c].room
  BY DEF Tasks, Replies
<1> HIDE DEF g
<1> QED
  BY <1>1, <1>2 DEF Others, SameWork

LEMMA EndMoves ==
  ASSUME task \in [Calls -> Tasks], NEW c \in Calls, End(c)
  PROVE  Others(c) /\ task'[c] = NoTask
BY NoTaskFields DEF End, Others

LEMMA RepliedMoves ==
  ASSUME task \in [Calls -> Tasks], NEW c \in Calls, NEW reply \in Replies, Replied(c, reply)
  PROVE  /\ Others(c) /\ SameWork(c) /\ task'[c].pc = task[c].pc /\ task'[c].reply = reply
         /\ task'[c].id = task[c].id /\ task'[c].history = task[c].history
         /\ task'[c].target = task[c].target
<1> DEFINE g == [task[c] EXCEPT !.reply = reply]
<1>1. task' = [task EXCEPT ![c] = g]
  BY DEF Replied
<1>2. /\ g \in Tasks /\ g.pc = task[c].pc /\ g.reply = reply /\ g.id = task[c].id
      /\ g.history = task[c].history /\ g.target = task[c].target
      /\ g.sock = task[c].sock /\ g.user = task[c].user /\ g.room = task[c].room
  BY DEF Tasks
<1> HIDE DEF g
<1> QED
  BY <1>1, <1>2 DEF Others, SameWork

LEMMA SaveMoves ==
  ASSUME task \in [Calls -> Tasks], created \in 0..MaxMessages, NEW c \in Calls, NEW label \in Labels,
         SaveMessage(c, label)
  PROVE  /\ Others(c) /\ SameWork(c) /\ task'[c].pc = label /\ task'[c].reply = "none"
         /\ task'[c].id = created + 1 /\ created' = created + 1 /\ created' \in 0..MaxMessages
<1> DEFINE g == [task[c] EXCEPT !.pc = label, !.reply = "none", !.id = created + 1]
<1>1. task' = [task EXCEPT ![c] = g] /\ created' = created + 1 /\ created < MaxMessages
  BY DEF SaveMessage
<1>2. created + 1 \in 0..MaxMessages
  BY <1>1, ChatBoundsAssumption
<1>3. /\ g \in Tasks /\ g.pc = label /\ g.reply = "none" /\ g.id = created + 1
      /\ g.sock = task[c].sock /\ g.user = task[c].user /\ g.room = task[c].room
  BY <1>2 DEF Tasks, Replies
<1> HIDE DEF g
<1> QED
  BY <1>1, <1>2, <1>3 DEF Others, SameWork

\* From which label, with which reply, a handler goes on to which.
Ways == {<<"join.room", "found", "join.session">>, <<"join.session", "found", "join.history">>,
         <<"send.room", "found", "send.blocked">>,
         <<"block.room", "found", "block.create">>, <<"block.create", "done", "close.room">>,
         <<"close.room", "found", "close.update">>, <<"close.update", "done", "close.delete">>,
         <<"rest.room", "found", "rest.update">>, <<"rest.update", "done", "rest.delete">>}
Saves == {<<"send.blocked", "missing", "send.create">>, <<"image.room", "found", "image.create">>}

Way(c) == <<task[c].pc, task[c].reply, task'[c].pc>>

GoesOn(c) ==
  /\ SameWork(c) /\ task'[c].reply = "none" /\ task'[c].id = task[c].id /\ Way(c) \in Ways
  /\ task'[c].pc = "block.create" => task'[c].target = task[c].target

Inserting(c) ==
  /\ SameWork(c) /\ task'[c].reply = "none" /\ task'[c].id = created + 1
  /\ created' = created + 1 /\ created' \in 0..MaxMessages /\ Way(c) \in Saves

LEMMA HandlerMoves ==
  ASSUME TypeInv, NEW c \in Calls, Handler(c)
  PROVE  /\ UNCHANGED <<socket, database, faults, crashes>>
         /\ Others(c) /\ task[c].pc # "idle" /\ task[c].reply # "none"
         /\ \/ task'[c] = NoTask /\ created' = created
            \/ GoesOn(c) /\ created' = created
            \/ Inserting(c)
<1> USE DEF TypeInv, ChatTypeOK
<1>1. UNCHANGED <<socket, database, faults, crashes>>
  BY DEF Handler, JoinStep, JoinDenied, JoinFound, JoinSession, JoinHistory, SendStep, SendFound,
         SendAllowed, SendSaved, SendFails, ImageFound, CloseStep, BlockFound, BlockCreated, BlockFails,
         CloseFound, CloseUpdated, CloseEnds, RestStep, RestFound, RestUpdated, RestDeleted, RestFails,
         bounds, SaveMessage
<1>2. task[c].pc # "idle" /\ task[c].reply # "none"
  BY DEF Handler, JoinStep, JoinDenied, JoinFound, JoinSession, JoinHistory, SendStep, SendFound,
         SendAllowed, SendSaved, SendFails, ImageFound, CloseStep, BlockFound, BlockCreated, BlockFails,
         CloseFound, CloseUpdated, CloseEnds, RestStep, RestFound, RestUpdated, RestDeleted, RestFails,
         Awaits, Got
<1>3. \/ End(c) /\ created' = created
      \/ BlockCreated(c) /\ created' = created
      \/ \E label \in Labels : /\ Await(c, label) /\ created' = created
                               /\ <<task[c].pc, task[c].reply, label>> \in Ways
      \/ \E label \in Labels : /\ SaveMessage(c, label)
                               /\ <<task[c].pc, task[c].reply, label>> \in Saves
  <2>1. CASE JoinStep(c)
    BY <2>1 DEF JoinStep, JoinDenied, JoinFound, JoinSession, JoinHistory, bounds, Awaits, Got, Ways, Labels
  <2>2. CASE SendStep(c)
    BY <2>2 DEF SendStep, SendFound, SendAllowed, SendSaved, SendFails, ImageFound, bounds, Awaits, Got,
       Ways, Saves, Labels
  <2>3. CASE CloseStep(c)
    BY <2>3 DEF CloseStep, BlockFound, BlockCreated, BlockFails, CloseFound, CloseUpdated, CloseEnds,
       bounds, Awaits, Got, Ways, Labels
  <2>4. CASE RestStep(c)
    BY <2>4 DEF RestStep, RestFound, RestUpdated, RestDeleted, RestFails, bounds, Awaits, Got, Ways, Labels
  <2> QED
    BY <2>1, <2>2, <2>3, <2>4 DEF Handler
<1>4. CASE End(c) /\ created' = created
  BY <1>1, <1>2, <1>4, EndMoves
<1>5. ASSUME NEW label \in Labels, Await(c, label), created' = created,
             <<task[c].pc, task[c].reply, label>> \in Ways
      PROVE  Others(c) /\ GoesOn(c)
  BY <1>5, AwaitMoves DEF GoesOn, Way
<1>6. ASSUME NEW label \in Labels, SaveMessage(c, label), <<task[c].pc, task[c].reply, label>> \in Saves
      PROVE  Others(c) /\ Inserting(c)
  BY <1>6, SaveMoves DEF Inserting, Way
<1>7. ASSUME BlockCreated(c)
      PROVE  Others(c) /\ GoesOn(c)
  <2> DEFINE g == [task[c] EXCEPT !.pc = "close.room", !.reply = "none", !.target = None]
  <2>1. /\ task' = [task EXCEPT ![c] = g]
        /\ task[c].pc = "block.create" /\ task[c].reply = "done"
    BY <1>7 DEF BlockCreated, Awaits, Got
  <2>2. /\ g \in Tasks /\ g.pc = "close.room" /\ g.reply = "none" /\ g.id = task[c].id
        /\ g.sock = task[c].sock /\ g.user = task[c].user /\ g.room = task[c].room
    BY DEF Tasks, Replies, Labels
  <2> HIDE DEF g
  <2> QED
    BY <2>1, <2>2 DEF Others, GoesOn, SameWork, Way, Ways
<1> QED
  BY <1>1, <1>2, <1>3, <1>4, <1>5, <1>6, <1>7

Requests == {"join.room", "send.room", "image.room", "close.room", "block.room", "rest.room"}

LEMMA RequestMoves ==
  ASSUME TypeInv, NEW c \in Calls, Request(c)
  PROVE  /\ UNCHANGED <<socket, memory, database, client, bounds>>
         /\ Others(c) /\ task[c].pc = "idle" /\ task'[c].pc \in Requests /\ task'[c].reply = "none"
         /\ task'[c].id = 0 /\ task'[c].user \in Users /\ task'[c].room \in Rooms
         /\ task'[c].pc \in BySocket => task'[c].sock \in Sockets /\ socket[task'[c].sock] = "on"
         /\ task'[c].pc = "block.room" => task'[c].target \in Users
<1>1. UNCHANGED <<socket, memory, database, client, bounds>>
  BY DEF Request, JoinRoom, SendMessage, LeaveRoom, BlockInRoom, UploadImage, RestLeave
<1>2. \A s \in Sockets : SocketUser[s] \in Users
  BY RoomsAssumption
<1>3. PICK r \in Rooms, u \in Users, label \in Requests, s \in Sockets \cup {None},
           v \in Users \cup {None} :
        /\ BeginOn(c, label, s, u, r, v)
        /\ label = "block.room" => v \in Users
        /\ label \in BySocket => s \in Sockets /\ socket[s] = "on"
  BY <1>2 DEF Request, JoinRoom, SendMessage, LeaveRoom, BlockInRoom, UploadImage, RestLeave, Requests, BySocket,
     Begin
<1>4. /\ label \in Labels /\ (s \in Sockets \/ s = None) /\ (v \in Users \/ v = None)
      /\ task \in [Calls -> Tasks]
  BY DEF Requests, Labels, TypeInv, ChatTypeOK
<1>5. /\ Others(c) /\ task[c].pc = "idle" /\ task'[c].pc = label /\ task'[c].sock = s
      /\ task'[c].user = u /\ task'[c].room = r /\ task'[c].reply = "none" /\ task'[c].id = 0
      /\ task'[c].target = v
  BY <1>3, <1>4, BeginMoves
<1> QED
  BY <1>1, <1>3, <1>5

\* A command answers, and what it has done to the database.
LEMMA ExecuteMoves ==
  ASSUME TypeInv, NEW c \in Calls, Execute(c)
  PROVE  /\ UNCHANGED <<socket, memory, client, bounds>>
         /\ Others(c) /\ SameWork(c) /\ task'[c].pc = task[c].pc /\ task'[c].id = task[c].id
         /\ task'[c].target = task[c].target
         /\ task[c].pc # "idle" /\ task[c].reply = "none" /\ task'[c].reply \in {"found", "missing", "done", "error"}
<1> USE DEF TypeInv, ChatTypeOK
<1>1. UNCHANGED <<socket, memory, client, bounds>> /\ task[c].reply = "none"
  BY DEF Execute
<1>2. CASE FindMessages(c)
  <2> DEFINE h == Oldest(messages[task[c].room], HistoryLimit)
             g == [task[c] EXCEPT !.reply = "done", !.history = h]
  <2>1. task' = [task EXCEPT ![c] = g] /\ task[c].pc = "join.history"
    BY <1>2 DEF FindMessages
  <2>2. h \in SUBSET Ids
    <3>1. task[c].room \in Rooms
      BY <2>1 DEF TaskOK
    <3> QED
      BY <3>1 DEF Oldest
  <2> HIDE DEF h
  <2>3. /\ g \in Tasks /\ g.pc = task[c].pc /\ g.reply = "done" /\ g.id = task[c].id
        /\ g.sock = task[c].sock /\ g.user = task[c].user /\ g.room = task[c].room
        /\ g.target = task[c].target
    BY <2>2 DEF Tasks, Replies
  <2> HIDE DEF g
  <2> QED
    BY <1>1, <2>1, <2>3 DEF Others, SameWork
<1>3. CASE ~FindMessages(c)
  <2>1. PICK reply \in {"found", "missing", "done", "error"} : Replied(c, reply) /\ task[c].pc # "idle"
    BY <1>3 DEF Execute, FindRoom, IsBlocked, CreateMessage, CreateBlock, CloseRoom, DeleteMessages, RoomReads
  <2> QED
    BY <1>1, <2>1, RepliedMoves DEF Replies
<1> QED
  BY <1>2, <1>3

LEMMA RejectMoves ==
  ASSUME TypeInv, NEW c \in Calls, Reject(c)
  PROVE  /\ UNCHANGED <<socket, memory, database, client, created, crashes>>
         /\ faults' = faults + 1 /\ faults + crashes < MaxMishaps
         /\ Others(c) /\ SameWork(c) /\ task'[c].pc = task[c].pc /\ task'[c].id = task[c].id
         /\ task'[c].target = task[c].target
         /\ task[c].pc # "idle" /\ task'[c].reply = "error"
<1>1. Replied(c, "error") /\ "error" \in Replies /\ task[c].pc # "idle"
  BY DEF Reject, Replies, Writes
<1> QED
  BY <1>1, RepliedMoves DEF Reject, TypeInv, ChatTypeOK

-----------------------------------------------------------------------------
(* Types *)

\* What a step leaves alone when no handler runs.
LEMMA ClientsMove ==
  ASSUME Clients
  PROVE  /\ UNCHANGED <<tracker, status, messages, task, client, bounds>>
         /\ \/ UNCHANGED <<memory, blocks>> /\ \E s \in Sockets : Connect(s)
            \/ UNCHANGED blocks /\ \E s \in Sockets : Disconnect(s)
            \/ UNCHANGED <<socket, blocks>> /\ \E s \in Sockets, r \in Rooms : Typing(s, r)
            \/ UNCHANGED <<socket, memory>> /\ \E u, v \in Users : Blocklist(u, v)
BY DEF Clients, Connect, Disconnect, Typing, Blocklist, database, memory

LEMMA SocketsAge ==
  ASSUME TypeInv, [ChatNext]_chatVars
  PROVE  /\ socket' \in [Sockets -> {"new", "on", "off"}]
         /\ \A s \in Sockets : /\ socket'[s] = "new" => socket[s] = "new"
                               /\ socket[s] = "off" => socket'[s] = "off"
<1> USE DEF TypeInv, ChatTypeOK
<1>1. ASSUME UNCHANGED socket
      PROVE  /\ socket' \in [Sockets -> {"new", "on", "off"}]
             /\ \A s \in Sockets : /\ socket'[s] = "new" => socket[s] = "new"
                                   /\ socket[s] = "off" => socket'[s] = "off"
  BY <1>1
<1>2. ASSUME NEW c \in Calls, Request(c) \/ Execute(c) \/ Handler(c) \/ Reject(c)
      PROVE  UNCHANGED socket
  BY <1>2, RequestMoves, ExecuteMoves, HandlerMoves, RejectMoves
<1>3. CASE \E s \in Sockets : Connect(s) \/ Disconnect(s)
  BY <1>3 DEF Connect, Disconnect
<1>4. CASE Crash
  BY <1>4 DEF Crash
<1> QED
  BY <1>1, <1>2, <1>3, <1>4, ClientsMove DEF ChatNext, chatVars

LEMMA TasksStep ==
  ASSUME TypeInv, [ChatNext]_chatVars
  PROVE  /\ task' \in [Calls -> Tasks] /\ created' \in 0..MaxMessages /\ created' >= created
         /\ \A c \in Calls : TaskOK(task[c])'
<1>0. /\ task \in [Calls -> Tasks] /\ created \in 0..MaxMessages /\ MaxMessages \in Nat
      /\ \A c \in Calls : TaskOK(task[c])
  BY ChatBoundsAssumption DEF TypeInv, ChatTypeOK
<1>1. \A s \in Sockets : socket'[s] = "new" => socket[s] = "new"
  BY SocketsAge
<1>2. ASSUME NEW d \in Calls, task'[d] = task[d], created' \in 0..MaxMessages, created' >= created
      PROVE  TaskOK(task[d])'
  BY <1>0, <1>1, <1>2 DEF TaskOK
<1>3. ASSUME NEW d \in Calls, task'[d] = NoTask
      PROVE  TaskOK(task[d])'
  BY <1>3, NoTaskFields DEF TaskOK, BySocket, Inserts
<1>4. ASSUME NEW c \in Calls, Request(c)
      PROVE  Others(c) /\ TaskOK(task[c])' /\ created' = created
  BY <1>1, <1>4, RequestMoves DEF TaskOK, Requests, Inserts, bounds
<1>5. ASSUME NEW c \in Calls, Execute(c) \/ Reject(c)
      PROVE  Others(c) /\ TaskOK(task[c])' /\ created' = created
  <2>1. /\ Others(c) /\ SameWork(c) /\ task'[c].pc = task[c].pc /\ task'[c].id = task[c].id
        /\ task[c].pc # "idle" /\ created' = created /\ task'[c].target = task[c].target
    BY <1>5, ExecuteMoves, RejectMoves DEF bounds
  <2> QED
    BY <1>0, <1>1, <2>1 DEF TaskOK, SameWork
<1>6. ASSUME NEW c \in Calls, Handler(c)
      PROVE  /\ Others(c) /\ TaskOK(task[c])'
             /\ \/ created' = created
                \/ created' = created + 1 /\ created' \in 0..MaxMessages
  <2>1. CASE task'[c] = NoTask /\ created' = created
    BY <1>3, <1>6, <2>1, HandlerMoves
  <2>2. CASE GoesOn(c) /\ created' = created
    <3>1. /\ task[c].pc # "idle" /\ task'[c].pc # "idle"
          /\ task[c].pc \notin Inserts /\ task'[c].pc \notin Inserts
          /\ task'[c].pc \in BySocket => task[c].pc \in BySocket
          /\ task'[c].pc # "block.room"
          /\ task'[c].pc = "block.create" => task[c].pc = "block.room"
      BY <2>2 DEF GoesOn, Way, Ways, Inserts, BySocket
    <3> QED
      BY <1>0, <1>1, <1>6, <2>2, <3>1, HandlerMoves DEF TaskOK, GoesOn, SameWork
  <2>3. CASE Inserting(c)
    <3>1. /\ task[c].pc # "idle" /\ task'[c].pc # "idle"
          /\ task'[c].pc \in Inserts
          /\ task'[c].pc \in BySocket => task[c].pc \in BySocket
          /\ task'[c].pc \notin {"block.room", "block.create"}
      BY <2>3 DEF Inserting, Way, Saves, Inserts, BySocket
    <3>2. created + 1 \in 1..created'
      BY <1>0, <2>3 DEF Inserting
    <3> QED
      BY <1>0, <1>1, <1>6, <2>3, <3>1, <3>2, HandlerMoves DEF TaskOK, Inserting, SameWork
  <2> QED
    BY <1>6, <2>1, <2>2, <2>3, HandlerMoves
<1>7. ASSUME NEW c \in Calls, Others(c), TaskOK(task[c])',
             \/ created' = created
             \/ created' = created + 1 /\ created' \in 0..MaxMessages
      PROVE  /\ task' \in [Calls -> Tasks] /\ created' \in 0..MaxMessages /\ created' >= created
             /\ \A d \in Calls : TaskOK(task[d])'
  BY <1>0, <1>2, <1>7 DEF Others
<1>8. CASE UNCHANGED <<task, created>>
  BY <1>0, <1>2, <1>8
<1>9. CASE Crash
  <2>1. task' = [c \in Calls |-> NoTask] /\ created' = created
    BY <1>9 DEF Crash
  <2> QED
    BY <1>0, <1>3, <2>1, NoTaskFields
<1> QED
  BY <1>4, <1>5, <1>6, <1>7, <1>8, <1>9, ClientsMove DEF ChatNext, chatVars, bounds

\* What the commands make of the collections.
LEMMA CollectionsTyped ==
  ASSUME TypeInv, NEW c \in Calls, Execute(c)
  PROVE  /\ status' \in [Rooms -> {"active", "closed"}] /\ messages' \in [Rooms -> SUBSET Ids]
         /\ blocks' \subseteq Users \X Users
<1> USE DEF TypeInv, ChatTypeOK
<1>1. UNCHANGED database \/ CreateMessage(c) \/ CreateBlock(c) \/ CloseRoom(c) \/ DeleteMessages(c)
  BY DEF Execute, FindRoom, FindMessages, IsBlocked
<1>2. CASE UNCHANGED database
  BY <1>2 DEF database
<1>3. CASE CreateMessage(c)
  <2>1. task[c].id \in Ids
    BY <1>3, ChatBoundsAssumption DEF CreateMessage, TaskOK, Inserts, Ids
  <2> QED
    BY <1>3, <2>1 DEF CreateMessage
<1>4. CASE CreateBlock(c)
  <2>1. task[c].target \in Users /\ task[c].user \in Users
    BY <1>4 DEF CreateBlock, TaskOK
  <2> QED
    BY <1>4, <2>1 DEF CreateBlock
<1>5. CASE CloseRoom(c) \/ DeleteMessages(c)
  BY <1>5 DEF CloseRoom, DeleteMessages
<1> QED
  BY <1>1, <1>2, <1>3, <1>4, <1>5

LEMMA EnsureTyped ==
  ASSUME TypeInv, NEW s \in Sockets, NEW r \in Rooms, Ensure(s, r)
  PROVE  /\ joined' \in [Sockets -> SUBSET Rooms] /\ meta' \in [Sockets -> Rooms \cup {None}]
         /\ presence' \in [Rooms -> SUBSET Sockets]
<1> USE DEF TypeInv, ChatTypeOK
<1>1. CASE meta[s] = r
  BY <1>1 DEF Ensure
<1>2. CASE meta[s] # r
  <2>1. [joined EXCEPT ![s] = @ \cup {r}] \in [Sockets -> SUBSET Rooms]
    OBVIOUS
  <2>2. [meta EXCEPT ![s] = r] \in [Sockets -> Rooms \cup {None}]
    OBVIOUS
  <2>3. [presence EXCEPT ![r] = @ \cup {s}] \in [Rooms -> SUBSET Sockets]
    OBVIOUS
  <2> QED
    BY <1>2, <2>1, <2>2, <2>3 DEF Ensure
<1> QED
  BY <1>1, <1>2

MemoryTyped ==
  /\ joined' \in [Sockets -> SUBSET Rooms] /\ meta' \in [Sockets -> Rooms \cup {None}]
  /\ presence' \in [Rooms -> SUBSET Sockets] /\ tracker' \subseteq Rooms \X Users
  /\ view' \in [Sockets -> [Rooms -> {"out", "in", "closed", "denied"}]]
  /\ shown' \in [Sockets -> SUBSET Ids]

LEMMA HandlerTyped ==
  ASSUME TypeInv, NEW c \in Calls, Handler(c)
  PROVE  MemoryTyped
<1> USE DEF TypeInv, ChatTypeOK, memory, client
<1>0. /\ task[c] \in Tasks /\ TaskOK(task[c]) /\ task[c].pc # "idle"
      /\ task[c].room \in Rooms /\ task[c].user \in Users
  BY HandlerMoves DEF TaskOK
<1>1. ASSUME UNCHANGED <<memory, client>>
      PROVE  MemoryTyped
  BY <1>1 DEF MemoryTyped
<1>2. ASSUME JoinDenied(c)
      PROVE  MemoryTyped
  BY <1>0, <1>2 DEF JoinDenied, Notify, MemoryTyped
<1>3. ASSUME JoinFound(c) \/ SendFound(c)
      PROVE  MemoryTyped
  <2>1. task[c].sock \in Sockets
    BY <1>0, <1>3 DEF JoinFound, SendFound, Awaits, TaskOK, BySocket
  <2> QED
    BY <1>0, <1>3, <2>1, EnsureTyped DEF JoinFound, SendFound, MemoryTyped
<1>4. ASSUME JoinHistory(c)
      PROVE  MemoryTyped
  <2>1. task[c].history \in SUBSET Ids
    BY <1>0 DEF Tasks
  <2> QED
    BY <1>0, <1>4, <2>1 DEF JoinHistory, Notify, MemoryTyped
<1>5. ASSUME SendAllowed(c)
      PROVE  MemoryTyped
  BY <1>0, <1>5 DEF SendAllowed, MemoryTyped
<1>6. ASSUME SendSaved(c)
      PROVE  MemoryTyped
  <2>1. task[c].id \in Ids
    BY <1>0, <1>6, ChatBoundsAssumption DEF SendSaved, Awaits, TaskOK, Inserts, Ids
  <2> QED
    BY <1>0, <1>6, <2>1 DEF SendSaved, Broadcast, MemoryTyped
<1>7. ASSUME CloseFound(c)
      PROVE  MemoryTyped
  BY <1>0, <1>7 DEF CloseFound, Announce, MemoryTyped
<1>8. ASSUME CloseEnds(c)
      PROVE  MemoryTyped
  BY <1>0, <1>8 DEF CloseEnds, ClearTrackers, Empty, MemoryTyped
<1>9. ASSUME RestFound(c)
      PROVE  MemoryTyped
  BY <1>0, <1>9 DEF RestFound, Announce, Empty, MemoryTyped
<1>10. ASSUME RestDeleted(c)
       PROVE  MemoryTyped
  BY <1>0, <1>10 DEF RestDeleted, ClearTrackers, MemoryTyped
<1>11. \/ UNCHANGED <<memory, client>>
       \/ JoinDenied(c) \/ JoinFound(c) \/ SendFound(c) \/ JoinHistory(c) \/ SendAllowed(c) \/ SendSaved(c)
       \/ CloseFound(c) \/ CloseEnds(c) \/ RestFound(c) \/ RestDeleted(c)
  BY DEF Handler, JoinStep, JoinSession, SendStep, SendFails, ImageFound, CloseStep, BlockFound,
     BlockCreated, BlockFails, CloseUpdated, RestStep, RestUpdated, RestFails
<1> QED
  BY <1>1, <1>2, <1>3, <1>4, <1>5, <1>6, <1>7, <1>8, <1>9, <1>10, <1>11

LEMMA TypeStep ==
  ASSUME TypeInv, [ChatNext]_chatVars
  PROVE  TypeInv'
<1> USE DEF memory, database, client, bounds
<1>1. MemoryTyped
  <2> USE DEF TypeInv, ChatTypeOK
  <2>1. CASE UNCHANGED <<memory, client>>
    BY <2>1 DEF MemoryTyped
  <2>2. ASSUME NEW c \in Calls, Request(c) \/ Execute(c) \/ Reject(c)
        PROVE  UNCHANGED <<memory, client>>
    BY <2>2, RequestMoves, ExecuteMoves, RejectMoves
  <2>3. ASSUME NEW s \in Sockets, Disconnect(s)
        PROVE  MemoryTyped
    BY <2>3 DEF Disconnect, MemoryTyped
  <2>4. ASSUME NEW s \in Sockets, NEW r \in Rooms, Typing(s, r)
        PROVE  MemoryTyped
    BY <2>4, EnsureTyped DEF Typing, MemoryTyped
  <2>5. CASE Crash
    BY <2>5 DEF Crash, MemoryTyped
  <2> QED
    BY <2>1, <2>2, <2>3, <2>4, <2>5, HandlerTyped, ClientsMove DEF ChatNext, chatVars
<1>2. /\ status' \in [Rooms -> {"active", "closed"}] /\ messages' \in [Rooms -> SUBSET Ids]
      /\ blocks' \subseteq Users \X Users
  <2> USE DEF TypeInv, ChatTypeOK
  <2>1. CASE UNCHANGED database
    BY <2>1
  <2>2. ASSUME NEW c \in Calls, Request(c) \/ Handler(c) \/ Reject(c)
        PROVE  UNCHANGED database
    BY <2>2, RequestMoves, HandlerMoves, RejectMoves
  <2>3. ASSUME NEW u \in Users, NEW v \in Users, Blocklist(u, v)
        PROVE  blocks' \subseteq Users \X Users /\ UNCHANGED <<status, messages>>
    BY <2>3 DEF Blocklist
  <2>4. CASE Crash
    BY <2>1, <2>4 DEF Crash
  <2> QED
    BY <2>1, <2>2, <2>3, <2>4, CollectionsTyped, ClientsMove DEF ChatNext, chatVars
<1>3. faults' \in Nat /\ crashes' \in Nat /\ faults' + crashes' <= MaxMishaps
  <2>1. /\ MaxMishaps \in Nat /\ faults \in Nat /\ crashes \in Nat
        /\ faults + crashes <= MaxMishaps
    BY ChatBoundsAssumption DEF TypeInv, ChatTypeOK
  <2>2. \/ UNCHANGED <<faults, crashes>>
        \/ faults' = faults + 1 /\ faults + crashes < MaxMishaps /\ crashes' = crashes
        \/ crashes' = crashes + 1 /\ faults + crashes < MaxMishaps /\ faults' = faults
    BY RequestMoves, ExecuteMoves, HandlerMoves, RejectMoves, ClientsMove DEF ChatNext, chatVars, Crash
  <2> QED
    BY <2>1, <2>2
<1> QED
  BY <1>1, <1>2, <1>3, SocketsAge, TasksStep DEF TypeInv, ChatTypeOK, MemoryTyped

-----------------------------------------------------------------------------
(* The collections and the ids *)

LEMMA TaskMoves ==
  ASSUME TypeInv, [ChatNext]_chatVars, NEW d \in Calls
  PROVE  \/ task'[d] = task[d] \/ Request(d) \/ Execute(d) \/ Handler(d) \/ Reject(d)
         \/ Crash /\ task'[d] = NoTask
<1>1. ASSUME NEW c \in Calls, Request(c) \/ Execute(c) \/ Handler(c) \/ Reject(c), c # d
      PROVE  task'[d] = task[d]
  BY <1>1, RequestMoves, ExecuteMoves, HandlerMoves, RejectMoves DEF Others
<1>2. CASE Crash
  BY <1>2 DEF Crash
<1> QED
  BY <1>1, <1>2, ClientsMove DEF ChatNext, chatVars

LEMMA CollectionsMove ==
  ASSUME TypeInv, [ChatNext]_chatVars
  PROVE  \/ UNCHANGED <<status, messages>>
         \/ \E c \in Calls : Execute(c) /\ (CreateMessage(c) \/ CloseRoom(c) \/ DeleteMessages(c))
<1>1. ASSUME NEW c \in Calls, Request(c) \/ Handler(c) \/ Reject(c)
      PROVE  UNCHANGED <<status, messages>>
  BY <1>1, RequestMoves, HandlerMoves, RejectMoves DEF database
<1>2. ASSUME NEW c \in Calls, Execute(c)
      PROVE  \/ UNCHANGED <<status, messages>>
             \/ CreateMessage(c) \/ CloseRoom(c) \/ DeleteMessages(c)
  BY <1>2 DEF Execute, FindRoom, FindMessages, IsBlocked, CreateBlock, database
<1> QED
  BY <1>1, <1>2, ClientsMove DEF ChatNext, chatVars, Crash, database

\* A room that is closed stays closed.
LEMMA StatusAges ==
  ASSUME TypeInv, [ChatNext]_chatVars, NEW r \in Rooms
  PROVE  status'[r] = status[r] \/ status'[r] = "closed"
BY CollectionsMove DEF CreateMessage, CloseRoom, DeleteMessages, TypeInv, ChatTypeOK

LEMMA ClosedStep ==
  ASSUME TypeInv, ClosedInv, [ChatNext]_chatVars
  PROVE  ClosedInv'
<1> SUFFICES ASSUME NEW c \in Calls,
                    \/ task'[c].pc \in {"close.delete", "rest.delete"}
                    \/ task'[c].pc \in {"close.update", "rest.update"} /\ task'[c].reply \notin {"none", "error"}
                    \/ task'[c].pc = "close.room" /\ task'[c].reply = "missing"
             PROVE  status'[task'[c].room] = "closed"
  BY DEF ClosedInv
<1>0. \A r \in Rooms : status[r] = "closed" => status'[r] = "closed"
  BY StatusAges
<1>1. task[c].pc # "idle" => task[c].room \in Rooms
  BY DEF TypeInv, TaskOK
<1>2. CASE task'[c] = task[c]
  <2>1. task[c].pc # "idle"
    BY <1>2
  <2> QED
    BY <1>0, <1>1, <1>2, <2>1 DEF ClosedInv
<1>3. CASE Request(c)
  BY <1>3, RequestMoves DEF Requests
<1>4. CASE Execute(c)
  <2>1. /\ SameWork(c) /\ task'[c].pc = task[c].pc /\ task[c].pc # "idle" /\ task[c].reply = "none"
    BY <1>4, ExecuteMoves
  <2>2. CASE task[c].pc \in {"close.delete", "rest.delete"}
    BY <1>0, <1>1, <2>1, <2>2 DEF ClosedInv, SameWork
  <2>3. CASE task[c].pc \in {"close.update", "rest.update"}
    <3>1. CloseRoom(c)
      BY <1>4, <2>3 DEF Execute, FindRoom, RoomReads, FindMessages, IsBlocked, CreateMessage,
         CreateBlock, DeleteMessages
    <3> QED
      BY <1>1, <2>1, <3>1 DEF CloseRoom, SameWork, TypeInv, ChatTypeOK
  <2>4. CASE task[c].pc = "close.room" /\ task'[c].reply = "missing"
    <3>1. FindRoom(c)
      BY <1>4, <2>4 DEF Execute, FindMessages, IsBlocked, CreateMessage, CreateBlock, CloseRoom, DeleteMessages
    <3>2. status[task[c].room] \in {"active", "closed"}
      BY <1>1, <2>1 DEF TypeInv, ChatTypeOK
    <3>3. status[task[c].room] # "active"
      <4>1. "found" \in Replies /\ task \in [Calls -> Tasks]
        BY DEF Replies, TypeInv, ChatTypeOK
      <4>2. Replied(c, "found") => task'[c].reply = "found"
        BY <4>1, RepliedMoves
      <4> QED
        BY <2>4, <3>1, <4>2 DEF FindRoom
    <3> QED
      BY <1>0, <1>1, <2>1, <3>2, <3>3 DEF SameWork
  <2> QED
    BY <2>1, <2>2, <2>3, <2>4
<1>5. CASE Handler(c)
  <2>1. GoesOn(c) /\ task[c].pc # "idle"
    BY <1>5, HandlerMoves, NoTaskFields DEF Inserting, Way, Saves
  <2>2. task[c].pc \in {"close.update", "rest.update"} /\ task[c].reply = "done"
    BY <2>1 DEF GoesOn, Way, Ways
  <2> QED
    BY <1>0, <1>1, <2>1, <2>2 DEF ClosedInv, GoesOn, SameWork
<1>6. CASE Reject(c)
  BY <1>0, <1>1, <1>6, RejectMoves DEF ClosedInv, SameWork
<1> QED
  BY <1>2, <1>3, <1>4, <1>5, <1>6, TaskMoves, NoTaskFields

LEMMA IdsStep ==
  ASSUME TypeInv, IdsInv, [ChatNext]_chatVars
  PROVE  IdsInv'
<1>0. /\ created \in Nat /\ created' \in Nat /\ created' >= created
      /\ \A r \in Rooms : messages[r] \subseteq Nat
      /\ \A c \in Calls : task[c].id \in Nat /\ task[c].id <= created
      /\ \A c \in Calls : task[c].pc # "idle" => task[c].room \in Rooms
  <2>1. \A c \in Calls : task[c] \in Tasks
    BY DEF TypeInv, ChatTypeOK
  <2> QED
    BY <2>1, TasksStep, ChatBoundsAssumption DEF TypeInv, ChatTypeOK, TaskOK, Ids, Tasks
\* The messages that are there afterwards.
<1>1. ASSUME NEW r \in Rooms, NEW m \in messages'[r]
      PROVE  m \in messages[r] \/ \E c \in Calls : /\ Execute(c) /\ m = task[c].id /\ task[c].pc \in Inserts
  BY CollectionsMove DEF CreateMessage, CloseRoom, DeleteMessages, TypeInv, ChatTypeOK, Inserts
<1>2. \A r \in Rooms : \A m \in messages'[r] : m <= created'
  <2> SUFFICES ASSUME NEW r \in Rooms, NEW m \in messages'[r]
               PROVE  m <= created /\ m \in Nat
    BY <1>0
  <2> QED
    BY <1>0, <1>1 DEF IdsInv
<1>3. ASSUME NEW c \in Calls, task'[c].pc \in Inserts, task'[c].reply = "none"
      PROVE  \/ /\ task'[c] = task[c]
                /\ ~Execute(c)
             \/ /\ Inserting(c) /\ Handler(c)
  <2>1. ~Execute(c) /\ ~Request(c) /\ ~Reject(c)
    BY <1>3, ExecuteMoves, RequestMoves, RejectMoves DEF Requests, Inserts
  <2>2. Handler(c) => Inserting(c)
    BY <1>3, HandlerMoves, NoTaskFields DEF GoesOn, Way, Ways, Inserts
  <2> QED
    BY <1>3, <2>1, <2>2, TaskMoves, NoTaskFields DEF Inserts
<1>4. ASSUME NEW c \in Calls, Handler(c)
      PROVE  /\ \A d \in Calls : ~Execute(d)
             /\ \A d \in Calls : d # c => task'[d] = task[d]
  <2>1. task[c].reply # "none"
    BY <1>4, HandlerMoves
  <2>2. \A d \in Calls : d # c => task'[d] = task[d]
    BY <1>4, HandlerMoves DEF Others
  <2>3. ASSUME NEW d \in Calls, Execute(d)
        PROVE  FALSE
    <3>1. task[d].reply = "none" /\ task'[d].reply # "none"
      BY <2>3, ExecuteMoves
    <3> QED
      BY <2>1, <2>2, <3>1
  <2> QED
    BY <2>2, <2>3
<1>5. ASSUME NEW c \in Calls, task'[c].pc \in Inserts, task'[c].reply = "none"
      PROVE  /\ \A r \in Rooms : task'[c].id \notin messages'[r]
             /\ \A d \in Calls : d # c => task'[d].id # task'[c].id
  <2>1. CASE task'[c] = task[c] /\ ~Execute(c)
    <3>1. ASSUME NEW r \in Rooms
          PROVE  task'[c].id \notin messages'[r]
      BY <1>1, <1>5, <2>1 DEF IdsInv
    <3>2. ASSUME NEW d \in Calls, d # c
          PROVE  task'[d].id # task'[c].id
      <4>1. task[d].id # task[c].id /\ task[c].id \in 1..created
        BY <1>5, <2>1, <3>2 DEF IdsInv, TypeInv, TaskOK
      <4>2. \/ task'[d].id = task[d].id \/ task'[d].id = 0
            \/ task'[d].id = created + 1
        BY TaskMoves, RequestMoves, ExecuteMoves, HandlerMoves, RejectMoves, NoTaskFields DEF GoesOn, Inserting
      <4> QED
        BY <1>0, <2>1, <4>1, <4>2
    <3> QED
      BY <3>1, <3>2
  <2>2. CASE Inserting(c) /\ Handler(c)
    <3>1. task'[c].id = created + 1
      BY <2>2 DEF Inserting
    <3>2. \A r \in Rooms : \A m \in messages'[r] : m \in Nat /\ m <= created
      BY <1>0, <1>1, <1>4, <2>2 DEF IdsInv
    <3>3. \A d \in Calls : d # c => task'[d].id \in Nat /\ task'[d].id <= created
      BY <1>0, <1>4, <2>2
    <3> QED
      BY <1>0, <3>1, <3>2, <3>3
  <2> QED
    BY <1>3, <1>5, <2>1, <2>2
<1> QED
  BY <1>2, <1>5 DEF IdsInv

LEMMA NewStep ==
  ASSUME TypeInv, NewInv, [ChatNext]_chatVars
  PROVE  NewInv'
<1> USE DEF TypeInv, ChatTypeOK, memory, client
<1> SUFFICES ASSUME NEW s \in Sockets, socket'[s] = "new"
             PROVE  meta'[s] = None /\ \A r \in Rooms : view'[s][r] = "out"
  BY DEF NewInv
<1>1. socket[s] = "new" /\ meta[s] = None /\ \A r \in Rooms : view[s][r] = "out"
  BY SocketsAge DEF NewInv
<1>2. CASE UNCHANGED <<meta, view>>
  BY <1>1, <1>2
<1>3. ASSUME NEW z \in Sockets, NEW r \in Rooms, Ensure(z, r), socket[z] # "new"
      PROVE  meta'[s] = None
  BY <1>1, <1>3 DEF Ensure
<1>4. ASSUME NEW c \in Calls, Handler(c)
      PROVE  meta'[s] = None /\ \A r \in Rooms : view'[s][r] = "out"
  <2>1. /\ task[c].pc # "idle" /\ task[c].room \in Rooms
        /\ task[c].pc \in BySocket => task[c].sock \in Sockets /\ socket[task[c].sock] # "new"
    BY <1>4, HandlerMoves DEF TaskOK
  <2>2. ASSUME JoinDenied(c) \/ JoinHistory(c)
        PROVE  UNCHANGED meta /\ \A r \in Rooms : view'[s][r] = "out"
    <3>1. task[c].sock \in Sockets /\ task[c].sock # s
      BY <1>1, <2>1, <2>2 DEF JoinDenied, JoinHistory, Awaits, BySocket
    <3>2. view' = view \/ \E what : view' = [view EXCEPT ![task[c].sock][task[c].room] = what]
      BY <2>2 DEF JoinDenied, JoinHistory, Notify
    <3> QED
      BY <1>1, <2>2, <3>1, <3>2 DEF JoinDenied, JoinHistory
  <2>3. ASSUME JoinFound(c) \/ SendFound(c)
        PROVE  UNCHANGED view /\ meta'[s] = None
    <3>1. task[c].pc \in BySocket
      BY <2>3 DEF JoinFound, SendFound, Awaits, BySocket
    <3> QED
      BY <1>3, <2>1, <2>3, <3>1 DEF JoinFound, SendFound
  <2>4. ASSUME CloseFound(c) \/ RestFound(c)
        PROVE  UNCHANGED meta /\ view'[s] = view[s]
    BY <1>1, <2>4 DEF CloseFound, RestFound, Announce, Hears
  <2>5. ASSUME CloseEnds(c)
        PROVE  UNCHANGED view /\ meta'[s] = None
    BY <1>1, <2>5 DEF CloseEnds
  <2>6. \/ UNCHANGED <<meta, view>> \/ JoinDenied(c) \/ JoinHistory(c) \/ JoinFound(c) \/ SendFound(c)
        \/ CloseFound(c) \/ RestFound(c) \/ CloseEnds(c)
    BY <1>4 DEF Handler, JoinStep, JoinSession, SendStep, SendAllowed, SendSaved, SendFails, ImageFound,
       CloseStep, BlockFound, BlockCreated, BlockFails, CloseUpdated, RestStep, RestUpdated, RestDeleted,
       RestFails
  <2> QED
    BY <1>1, <2>2, <2>3, <2>4, <2>5, <2>6
<1>5. ASSUME NEW c \in Calls, Request(c) \/ Execute(c) \/ Reject(c)
      PROVE  UNCHANGED <<meta, view>>
  BY <1>5, RequestMoves, ExecuteMoves, RejectMoves
<1>6. ASSUME NEW z \in Sockets, Disconnect(z)
      PROVE  UNCHANGED view /\ meta'[s] = None
  BY <1>1, <1>6 DEF Disconnect
<1>7. ASSUME NEW z \in Sockets, NEW r \in Rooms, Typing(z, r)
      PROVE  UNCHANGED view /\ meta'[s] = None
  BY <1>3, <1>7 DEF Typing
<1>8. CASE Crash
  BY <1>1, <1>8 DEF Crash
<1> QED
  BY <1>1, <1>2, <1>4, <1>5, <1>6, <1>7, <1>8, ClientsMove DEF ChatNext, chatVars

-----------------------------------------------------------------------------
(* The log of a room *)

LEMMA AdmittedMembers ==
  \A c, r : <<c, r>> \in Admitted <=> c \in Calls /\ Sending(task[c]) /\ r = task[c].room
BY DEF Admitted

\* Whom a step lets in or out, of the handler that moves.
LEMMA AdmittedMoves ==
  ASSUME NEW c \in Calls, Others(c)
  PROVE  /\ ~Sending(task'[c]) => Admitted' = Admitted \ {<<c, task[c].room>>}
         /\ Sending(task'[c]) /\ Sending(task[c]) /\ SameWork(c) => Admitted' = Admitted
         /\ Sending(task'[c]) /\ ~Sending(task[c]) /\ SameWork(c) =>
              Admitted' = Admitted \cup {<<c, task[c].room>>}
<1>1. \A d \in Calls : d # c => task'[d] = task[d]
  BY DEF Others
<1>2. /\ Admitted = {<<d, task[d].room>> : d \in {b \in Calls : Sending(task[b])}}
      /\ Admitted' = {<<d, task'[d].room>> : d \in {b \in Calls : Sending(task'[b])}}
  BY DEF Admitted
<1> QED
  BY <1>1, <1>2 DEF SameWork

LEMMA SendingStarts ==
  ASSUME TypeInv, [ChatNext]_chatVars, NEW c \in Calls, Sending(task'[c]),
         Request(c) \/ Execute(c) \/ Handler(c) \/ Reject(c)
  PROVE  /\ SameWork(c)
         /\ Sending(task[c]) \/ (FindRoom(c) /\ status[task[c].room] = "active")
<1>1. CASE Request(c)
  BY <1>1, RequestMoves DEF Sending, Requests
<1>2. CASE Execute(c)
  <2>1. /\ SameWork(c) /\ task'[c].pc = task[c].pc /\ task[c].reply = "none" /\ task'[c].reply # "none"
    BY <1>2, ExecuteMoves
  <2>2. CASE task[c].pc \in {"send.room", "image.room"} /\ task'[c].reply = "found"
    <3>1. FindRoom(c)
      BY <1>2, <2>2 DEF Execute, FindMessages, IsBlocked, CreateMessage, CreateBlock, CloseRoom, DeleteMessages
    <3>2. "missing" \in Replies /\ task \in [Calls -> Tasks]
      BY DEF Replies, TypeInv, ChatTypeOK
    <3>3. Replied(c, "missing") => task'[c].reply = "missing"
      BY <3>2, RepliedMoves
    <3> QED
      BY <2>1, <2>2, <3>1, <3>3 DEF FindRoom
  <2> QED
    BY <2>1, <2>2 DEF Sending
<1>3. CASE Handler(c)
  BY <1>3, HandlerMoves, NoTaskFields DEF Sending, GoesOn, Inserting, Way, Ways, Saves
<1>4. CASE Reject(c)
  BY <1>4, RejectMoves DEF Sending
<1> QED
  BY <1>1, <1>2, <1>3, <1>4

LEMMA LogStep ==
  ASSUME TypeInv, ClosedInv, IdsInv, [ChatNext]_chatVars
  PROVE  [Log!Next]_(Log!vars)
<1> USE DEF TypeInv, ChatTypeOK
<1>0. \A c \in Calls : task[c].pc # "idle" => task[c].room \in Rooms
  BY DEF TaskOK
<1>1. ASSUME NEW c \in Calls, Request(c) \/ Handler(c) \/ Reject(c) \/ Execute(c), UNCHANGED <<status, messages>>
      PROVE  [Log!Next]_(Log!vars)
  <2>1. Others(c) /\ UNCHANGED <<OpenRooms, messages>>
    BY <1>1, RequestMoves, ExecuteMoves, HandlerMoves, RejectMoves DEF OpenRooms
  <2>2. CASE ~Sending(task'[c])
    <3> DEFINE P == Admitted \cap {<<c, task[c].room>>}
    <3>1. P \in SUBSET Admitted /\ Admitted' = Admitted \ P
      BY <2>1, <2>2, AdmittedMoves
    <3> QED
      BY <2>1, <3>1 DEF Log!Next, Log!GiveUp
  <2>3. CASE Sending(task'[c]) /\ Sending(task[c])
    <3>1. Admitted' = Admitted
      BY <1>1, <2>1, <2>3, AdmittedMoves, SendingStarts
    <3> QED
      BY <2>1, <3>1 DEF Log!vars
  <2>4. CASE Sending(task'[c]) /\ ~Sending(task[c])
    <3>1. SameWork(c) /\ FindRoom(c) /\ status[task[c].room] = "active"
      BY <1>1, <2>4, SendingStarts
    <3>2. task[c].room \in Rooms
      BY <1>0, <3>1 DEF FindRoom, RoomReads
    <3>3. Admitted' = Admitted \cup {<<c, task[c].room>>}
      BY <2>1, <2>4, <3>1, AdmittedMoves
    <3>4. task[c].room \in OpenRooms
      BY <3>1, <3>2 DEF OpenRooms
    <3> QED
      BY <2>1, <3>2, <3>3, <3>4 DEF Log!Next, Log!Admit
  <2> QED
    BY <2>2, <2>3, <2>4
<1>2. ASSUME NEW c \in Calls, Execute(c), CreateMessage(c)
      PROVE  Log!Next
  <2>1. /\ task[c].pc \in Inserts /\ task[c].reply = "none"
        /\ messages' = [messages EXCEPT ![task[c].room] = @ \cup {task[c].id}] /\ UNCHANGED OpenRooms
    BY <1>2 DEF Execute, CreateMessage, Inserts, OpenRooms
  <2>2. /\ Others(c) /\ task'[c].pc = task[c].pc /\ task'[c].reply # "none"
    BY <1>2, ExecuteMoves
  <2>3. ~Sending(task'[c]) /\ Sending(task[c])
    BY <2>1, <2>2 DEF Sending, Inserts
  <2>4. task[c].room \in Rooms /\ task[c].id \in Ids
    BY <1>0, <2>1, ChatBoundsAssumption DEF TaskOK, Inserts, Ids
  <2>5. <<c, task[c].room>> \in Admitted /\ Admitted' = Admitted \ {<<c, task[c].room>>}
    BY <2>2, <2>3, AdmittedMoves, AdmittedMembers
  <2>6. \A q \in Rooms : task[c].id \notin messages[q]
    BY <2>1 DEF IdsInv
  <2> QED
    BY <2>1, <2>4, <2>5, <2>6 DEF Log!Next, Log!Save
<1>3. ASSUME NEW c \in Calls, Execute(c), CloseRoom(c) \/ DeleteMessages(c)
      PROVE  Log!Next
  <2>1. Others(c) /\ SameWork(c) /\ task'[c].pc = task[c].pc
    BY <1>3, ExecuteMoves
  <2>2. ~Sending(task'[c]) /\ ~Sending(task[c]) /\ task[c].room \in Rooms
    BY <1>0, <1>3, <2>1 DEF CloseRoom, DeleteMessages, Sending
  <2>3. Admitted' = Admitted
    <3>1. Admitted' = Admitted \ {<<c, task[c].room>>}
      BY <2>1, <2>2, AdmittedMoves
    <3>2. <<c, task[c].room>> \notin Admitted
      BY <2>2, AdmittedMembers
    <3> QED
      BY <3>1, <3>2
  <2>4. CASE CloseRoom(c)
    <3>1. OpenRooms' = OpenRooms \ {task[c].room}
      BY <2>2, <2>4 DEF CloseRoom, OpenRooms
    <3> QED
      BY <2>2, <2>3, <2>4, <3>1 DEF CloseRoom, Log!Next, Log!Close
  <2>5. CASE DeleteMessages(c)
    <3>1. task[c].room \notin OpenRooms
      BY <2>5 DEF DeleteMessages, ClosedInv, OpenRooms
    <3>2. UNCHANGED OpenRooms
      BY <2>5 DEF DeleteMessages, OpenRooms
    <3> QED
      BY <2>2, <2>3, <2>5, <3>1, <3>2 DEF DeleteMessages, Log!Next, Log!Purge
  <2> QED
    BY <1>3, <2>4, <2>5
<1>4. CASE UNCHANGED <<status, messages, task>>
  BY <1>4 DEF Log!vars, OpenRooms, Admitted
<1>5. CASE Crash
  <2>1. UNCHANGED <<status, messages>> /\ task' = [c \in Calls |-> NoTask]
    BY <1>5 DEF Crash, database
  <2>2. Admitted' = {}
    BY <2>1, NoTaskFields DEF Admitted, Sending
  <2>3. UNCHANGED <<OpenRooms, messages>>
    BY <2>1 DEF OpenRooms
  <2> QED
    BY <2>2, <2>3 DEF Log!Next, Log!GiveUp
<1>6. ASSUME NEW c \in Calls, Execute(c)
      PROVE  UNCHANGED <<status, messages>> \/ CreateMessage(c) \/ CloseRoom(c) \/ DeleteMessages(c)
  BY <1>6 DEF Execute, FindRoom, FindMessages, IsBlocked, CreateBlock, database
<1>7. ASSUME NEW c \in Calls, Request(c) \/ Handler(c) \/ Reject(c)
      PROVE  UNCHANGED <<status, messages>>
  BY <1>7, RequestMoves, HandlerMoves, RejectMoves DEF database
<1> QED
  BY <1>1, <1>2, <1>3, <1>4, <1>5, <1>6, <1>7, ClientsMove DEF ChatNext, chatVars, database

-----------------------------------------------------------------------------
(* Rooms that nobody closes, as long as nothing fails *)

LEMMA NoErrorsStep ==
  ASSUME TypeInv, NoErrors, [ChatNext]_chatVars, faults' = 0
  PROVE  NoErrors' /\ faults = 0 /\ \A c \in Calls : ~Reject(c)
<1>1. faults \in Nat /\ \A c \in Calls : ~Reject(c)
  BY RejectMoves DEF TypeInv, ChatTypeOK
<1>2. faults = 0
  <2>1. faults' = faults
    BY <1>1, RequestMoves, ExecuteMoves, HandlerMoves, ClientsMove DEF ChatNext, chatVars, bounds, Crash
  <2> QED
    BY <2>1
<1>3. ASSUME NEW c \in Calls, task'[c].reply = "error"
      PROVE  task'[c].pc = "block.create"
  <2>1. CASE task'[c] = task[c]
    BY <1>3, <2>1 DEF NoErrors
  <2>2. CASE Execute(c)
    <3>1. FindRoom(c) \/ IsBlocked(c) \/ CloseRoom(c) \/ DeleteMessages(c) \/ CreateMessage(c) =>
            \E reply \in Replies \ {"error"} : Replied(c, reply)
      BY DEF FindRoom, IsBlocked, CloseRoom, DeleteMessages, CreateMessage, Replies
    <3>2. \A reply \in Replies : Replied(c, reply) => task'[c].reply = reply
      BY RepliedMoves DEF TypeInv, ChatTypeOK
    <3>3. FindMessages(c) => task'[c].reply = "done"
      BY DEF FindMessages, TypeInv, ChatTypeOK, Tasks
    <3>4. CreateBlock(c)
      BY <1>3, <2>2, <3>1, <3>2, <3>3 DEF Execute
    <3> QED
      BY <2>2, <3>4, ExecuteMoves DEF CreateBlock
  <2>3. CASE Request(c) \/ Handler(c) \/ task'[c] = NoTask
    BY <1>3, <2>3, RequestMoves, HandlerMoves, NoTaskFields DEF GoesOn, Inserting
  <2> QED
    BY <1>1, <2>1, <2>2, <2>3, TaskMoves
<1> QED
  BY <1>1, <1>2, <1>3 DEF NoErrors

\* A room that somebody was closing is closed when he is through.
LEMMA QuietBefore ==
  ASSUME TypeInv, ClosedInv, NoErrors, [ChatNext]_chatVars, faults' = 0, ~Crash, NEW r \in Rooms, Quiet(r)'
  PROVE  Quiet(r)
<1>1. status[r] = "active"
  BY StatusAges DEF Quiet, TypeInv, ChatTypeOK
<1>2. SUFFICES ASSUME NEW c \in Calls, task[c].room = r,
                      task[c].pc \in {"close.room", "close.update", "close.delete", "rest.update"}
               PROVE  FALSE
  BY <1>1 DEF Quiet, Closing
<1>3. ~(task'[c].room = r /\ task'[c].pc \in {"close.room", "close.update", "close.delete", "rest.update"})
  BY DEF Quiet, Closing
<1>4. task[c].pc # "close.delete" /\ ~(task[c].pc = "close.room" /\ task[c].reply = "missing")
      /\ ~(task[c].pc \in {"close.update", "rest.update"} /\ task[c].reply \notin {"none", "error"})
  BY <1>1, <1>2 DEF ClosedInv
<1>5. task[c].reply # "error" /\ ~Reject(c)
  BY <1>2, NoErrorsStep DEF NoErrors
<1>6. Handler(c)
  BY <1>2, <1>3, <1>5, TaskMoves, RequestMoves, ExecuteMoves DEF SameWork
<1>7. ~GoesOn(c)
  BY <1>2, <1>3, <1>4 DEF GoesOn, SameWork, Way, Ways
<1>8. task[c].pc = "close.room" /\ CloseFound(c)
  <2>1. ~JoinStep(c)
    BY <1>2 DEF JoinStep, JoinDenied, JoinFound, JoinSession, JoinHistory, Awaits
  <2>2. ~SendStep(c)
    BY <1>2 DEF SendStep, SendFound, SendAllowed, SendSaved, SendFails, ImageFound, Awaits
  <2>3. ~RestStep(c)
    BY <1>2, <1>4, <1>5 DEF RestStep, RestFound, RestUpdated, RestDeleted, RestFails, Awaits, Got
  <2>4. CloseStep(c) => CloseFound(c)
    BY <1>2, <1>4, <1>5 DEF CloseStep, BlockFound, BlockCreated, BlockFails, CloseUpdated, CloseEnds, Awaits, Got
  <2> QED
    BY <1>6, <2>1, <2>2, <2>3, <2>4 DEF Handler, CloseFound, Awaits
<1>9. task'[c].pc = "close.update" /\ SameWork(c)
  BY <1>8, AwaitMoves DEF CloseFound, Labels, TypeInv, ChatTypeOK
<1> QED
  BY <1>2, <1>3, <1>9 DEF SameWork

\* What a step may do to a socket that is connected and a room that nobody closes.
LEMMA MemoryKept ==
  ASSUME TypeInv, ClosedInv, NoErrors, [ChatNext]_chatVars, faults' = 0, ~Crash,
         NEW s \in Sockets, NEW r \in Rooms, socket[s] = "on", socket'[s] = "on", Quiet(r)'
  PROVE  /\ r \in joined[s] => r \in joined'[s]
         /\ s \in presence[r] => s \in presence'[r]
         /\ meta'[s] = r => meta[s] = r \/ (r \in joined'[s] /\ s \in presence'[r])
<1> USE DEF TypeInv, ChatTypeOK, memory
<1> DEFINE Kept == /\ r \in joined[s] => r \in joined'[s]
                   /\ s \in presence[r] => s \in presence'[r]
                   /\ meta'[s] = r => meta[s] = r \/ (r \in joined'[s] /\ s \in presence'[r])
<1>0. Quiet(r)
  BY QuietBefore
<1>1. CASE UNCHANGED <<joined, meta, presence>>
  BY <1>1
<1>2. ASSUME NEW z \in Sockets, NEW q \in Rooms, Ensure(z, q)
      PROVE  Kept
  <2>1. CASE meta[z] = q
    BY <1>1, <1>2, <2>1 DEF Ensure
  <2>2. CASE meta[z] # q
    <3>1. /\ joined' = IF socket[z] = "on" THEN [joined EXCEPT ![z] = @ \cup {q}] ELSE joined
          /\ meta' = [meta EXCEPT ![z] = q]
          /\ presence' = [presence EXCEPT ![q] = @ \cup {z}]
      BY <1>2, <2>2 DEF Ensure
    <3>2. joined[s] \subseteq joined'[s] /\ presence[r] \subseteq presence'[r]
      BY <3>1
    <3>3. meta'[s] # meta[s] => z = s
      BY <3>1
    <3>4. z = s => q \in joined'[s] /\ s \in presence'[q] /\ meta'[s] = q
      BY <3>1
    <3> QED
      BY <3>2, <3>3, <3>4
  <2> QED
    BY <2>1, <2>2
<1>3. ASSUME NEW c \in Calls, Handler(c)
      PROVE  Kept
  <2>1. /\ task[c].pc # "idle" /\ task[c].room \in Rooms
        /\ task[c].pc \in BySocket => task[c].sock \in Sockets
    BY <1>3, HandlerMoves DEF TaskOK
  <2>2. ASSUME JoinFound(c) \/ SendFound(c)
        PROVE  Kept
    BY <1>2, <2>1, <2>2 DEF JoinFound, SendFound, Awaits, BySocket
  <2>3. ASSUME CloseEnds(c)
        PROVE  Kept
    <3>1. task[c].room # r
      BY <1>0, <2>3 DEF CloseEnds, Quiet, Closing
    <3> QED
      BY <2>1, <2>3, <3>1, RoomsAssumption DEF CloseEnds, Empty
  <2>4. ASSUME RestFound(c)
        PROVE  Kept
    <3>1. task'[c].pc = "rest.update" /\ SameWork(c)
      BY <2>4, AwaitMoves DEF RestFound, Labels
    <3>2. task[c].room # r
      BY <3>1 DEF SameWork, Quiet, Closing
    <3> QED
      BY <2>1, <2>4, <3>2 DEF RestFound, Empty
  <2>5. \/ UNCHANGED <<joined, meta, presence>> \/ JoinFound(c) \/ SendFound(c) \/ CloseEnds(c)
        \/ RestFound(c)
    BY <1>3 DEF Handler, JoinStep, JoinDenied, JoinHistory, JoinSession, SendStep, SendAllowed, SendSaved,
       SendFails, ImageFound, CloseStep, BlockFound, BlockCreated, BlockFails, CloseFound, CloseUpdated,
       RestStep, RestUpdated, RestDeleted, RestFails
  <2> QED
    BY <1>1, <2>2, <2>3, <2>4, <2>5
<1>4. ASSUME NEW c \in Calls, Request(c) \/ Execute(c) \/ Reject(c)
      PROVE  UNCHANGED <<joined, meta, presence>>
  BY <1>4, RequestMoves, ExecuteMoves, RejectMoves
<1>5. ASSUME NEW z \in Sockets, Disconnect(z)
      PROVE  Kept
  <2>1. z # s
    BY <1>5 DEF Disconnect
  <2> QED
    BY <1>5, <2>1 DEF Disconnect
<1>6. ASSUME NEW z \in Sockets, NEW q \in Rooms, Typing(z, q)
      PROVE  Kept
  BY <1>2, <1>6 DEF Typing
<1> QED
  BY <1>1, <1>3, <1>4, <1>5, <1>6, ClientsMove DEF ChatNext, chatVars

\* A socket that has just connected has left no trace either.
LEMMA ConnectsClean ==
  ASSUME TypeInv, NewInv, [ChatNext]_chatVars, NEW s \in Sockets, socket[s] # "on", socket'[s] = "on"
  PROVE  /\ meta'[s] = None /\ \A r \in Rooms : view'[s][r] = "out"
         /\ \A c \in Calls : task'[c].sock = s => task'[c].pc \notin BySocket
<1> USE DEF TypeInv, ChatTypeOK
<1>1. socket[s] = "new"
  BY SocketsAge
<1>2. Clients
  <2>1. ASSUME NEW c \in Calls, Request(c) \/ Execute(c) \/ Handler(c) \/ Reject(c)
        PROVE  FALSE
    <3>1. socket' = socket
      BY <2>1, RequestMoves, ExecuteMoves, HandlerMoves, RejectMoves
    <3> QED
      BY <3>1
  <2>2. ~Crash
    BY DEF Crash
  <2> QED
    BY <2>1, <2>2 DEF ChatNext, chatVars
<1>3. UNCHANGED <<memory, task, client>>
  BY <1>2, ClientsMove DEF Disconnect
<1> QED
  BY <1>1, <1>3 DEF NewInv, TaskOK, memory, client

\* Who is let in was put into the room before.
LEMMA LetIn ==
  ASSUME TypeInv, [ChatNext]_chatVars, NEW s \in Sockets, NEW r \in Rooms, view[s][r] # "in", view'[s][r] = "in"
  PROVE  \E c \in Calls : JoinHistory(c) /\ task[c].sock = s /\ task[c].room = r
<1> USE DEF TypeInv, ChatTypeOK, client
<1>1. ASSUME NEW c \in Calls, Handler(c)
      PROVE  JoinHistory(c) /\ task[c].sock = s /\ task[c].room = r
  <2>1. ~JoinDenied(c)
    <3>1. ASSUME NEW z, NEW q, view' = [view EXCEPT ![z][q] = "denied"]
          PROVE  FALSE
      <4>1. view'[s] = IF s = z THEN [view[s] EXCEPT ![q] = "denied"] ELSE view[s]
        BY <3>1
      <4>2. view'[s][r] = view[s][r] \/ view'[s][r] = "denied"
        BY <4>1
      <4> QED
        BY <4>2
    <3> QED
      BY <3>1 DEF JoinDenied, Notify
  <2>2. ~CloseFound(c) /\ ~RestFound(c)
    BY DEF CloseFound, RestFound, Announce
  <2>3. JoinHistory(c)
    BY <1>1, <2>1, <2>2 DEF Handler, JoinStep, JoinFound, JoinSession, SendStep, SendFound, SendAllowed,
       SendSaved, SendFails, ImageFound, CloseStep, BlockFound, BlockCreated, BlockFails, CloseUpdated,
       CloseEnds, RestStep, RestUpdated, RestDeleted, RestFails
  <2> QED
    BY <2>3 DEF JoinHistory, Notify
<1>2. ASSUME NEW c \in Calls, Request(c) \/ Execute(c) \/ Reject(c)
      PROVE  UNCHANGED view
  BY <1>2, RequestMoves, ExecuteMoves, RejectMoves
<1> QED
  BY <1>1, <1>2, ClientsMove DEF ChatNext, chatVars, Crash

LEMMA StaysOut ==
  ASSUME TypeInv, [ChatNext]_chatVars, NEW s \in Sockets, NEW r \in Rooms, ~Put(s, r)
  PROVE  view'[s][r] # "in"
<1>1. view[s][r] # "in"
  BY DEF Put
<1>2. \A c \in Calls : task[c].sock = s /\ task[c].room = r => ~JoinHistory(c)
  BY DEF Put, JoinHistory, Awaits
<1> QED
  BY <1>1, <1>2, LetIn

LEMMA PresentStep ==
  ASSUME TypeInv, ClosedInv, NewInv, NoErrors, PresentInv, [ChatNext]_chatVars, faults' = 0, ~Crash
  PROVE  PresentInv'
<1> USE DEF TypeInv, ChatTypeOK
<1> SUFFICES ASSUME NEW s \in Sockets, NEW r \in Rooms, socket'[s] = "on", Quiet(r)', Put(s, r)'
             PROVE  r \in joined'[s] /\ s \in presence'[r]
  BY DEF PresentInv
<1>1. CASE socket[s] # "on"
  BY <1>1, ConnectsClean, RoomsAssumption DEF Put, BySocket
<1>2. CASE socket[s] = "on"
  <2>1. CASE Put(s, r)
    BY <1>2, <2>1, QuietBefore, MemoryKept DEF PresentInv
  <2>2. CASE ~Put(s, r)
    <3>1. meta'[s] = r => r \in joined'[s] /\ s \in presence'[r]
      BY <1>2, <2>2, MemoryKept DEF Put
    <3>2. view'[s][r] # "in"
      BY <2>2, StaysOut
    <3>3. ASSUME NEW c \in Calls, task'[c].sock = s, task'[c].room = r,
                 task'[c].pc \in {"join.session", "join.history"}
          PROVE  meta'[s] = r
      <4>1. task'[c] # task[c] /\ ~Execute(c) /\ ~Request(c) /\ ~Reject(c) /\ task'[c] # NoTask
        BY <2>2, <3>3, ExecuteMoves, RequestMoves, RejectMoves, NoTaskFields DEF Put, SameWork, Requests
      <4>2. Handler(c) /\ GoesOn(c)
        BY <3>3, <4>1, TaskMoves, HandlerMoves DEF Inserting, Way, Saves
      <4>3. task[c].pc = "join.room" /\ task[c].reply = "found" /\ task[c].sock = s /\ task[c].room = r
        BY <2>2, <3>3, <4>2 DEF GoesOn, SameWork, Way, Ways, Put
      <4>4. ~SendStep(c) /\ ~CloseStep(c) /\ ~RestStep(c)
        BY <4>3 DEF SendStep, SendFound, SendAllowed, SendSaved, SendFails, ImageFound, CloseStep,
           BlockFound, BlockCreated, BlockFails, CloseFound, CloseUpdated, CloseEnds, RestStep, RestFound,
           RestUpdated, RestDeleted, RestFails, Awaits
      <4>5. ~JoinDenied(c)
        <5>1. ~End(c)
          BY <4>1, EndMoves
        <5> QED
          BY <5>1 DEF JoinDenied
      <4>6. JoinFound(c)
        BY <4>2, <4>3, <4>4, <4>5 DEF Handler, JoinStep, JoinSession, JoinHistory, Awaits
      <4> QED
        BY <4>3, <4>6 DEF JoinFound, Ensure
    <3> QED
      BY <3>1, <3>2, <3>3 DEF Put
  <2> QED
    BY <2>1, <2>2
<1> QED
  BY <1>1, <1>2

-----------------------------------------------------------------------------
(* The history of a room *)

\* A new message makes no other message one of the oldest.
LEMMA OldestShrinks ==
  ASSUME NEW S \in SUBSET Ids, NEW k \in Ids, NEW n \in Nat, NEW m \in Oldest(S \cup {k}, n), m # k
  PROVE  m \in Oldest(S, n)
<1> DEFINE A == {j \in S : j < m}
           B == {j \in S \cup {k} : j < m}
<1>1. IsFiniteSet(Ids)
  BY FS_Interval, ChatBoundsAssumption DEF Ids
<1>2. IsFiniteSet(A) /\ IsFiniteSet(B) /\ A \subseteq B
  BY <1>1, FS_Subset
<1>3. Cardinality(A) <= Cardinality(B) /\ Cardinality(A) \in Nat /\ Cardinality(B) \in Nat
  BY <1>2, FS_Subset, FS_CardinalityType
<1>4. m \in S /\ Cardinality(B) < n
  BY DEF Oldest
<1> HIDE DEF A, B
<1>5. Cardinality(A) < n
  BY <1>3, <1>4
<1> QED
  BY <1>4, <1>5 DEF Oldest, A

\* What a client has been shown stays shown.
LEMMA ShownGrows ==
  ASSUME TypeInv, [ChatNext]_chatVars, NEW s \in Sockets
  PROVE  shown[s] \subseteq shown'[s]
<1> USE DEF TypeInv, ChatTypeOK, client
<1>1. ASSUME NEW c \in Calls, JoinHistory(c) \/ SendSaved(c)
      PROVE  shown[s] \subseteq shown'[s]
  BY <1>1 DEF JoinHistory, SendSaved, Broadcast
<1>2. ASSUME NEW c \in Calls, Handler(c)
      PROVE  UNCHANGED shown \/ JoinHistory(c) \/ SendSaved(c)
  BY <1>2 DEF Handler, JoinStep, JoinDenied, JoinFound, JoinSession, SendStep, SendFound, SendAllowed,
     SendFails, ImageFound, CloseStep, BlockFound, BlockCreated, BlockFails, CloseFound, CloseUpdated,
     CloseEnds, RestStep, RestFound, RestUpdated, RestDeleted, RestFails
<1>3. ASSUME NEW c \in Calls, Request(c) \/ Execute(c) \/ Reject(c)
      PROVE  UNCHANGED shown
  BY <1>3, RequestMoves, ExecuteMoves, RejectMoves
<1> QED
  BY <1>1, <1>2, <1>3, ClientsMove DEF ChatNext, chatVars, Crash

\* A message on its way is still on it, or has reached whoever hears the room.
LEMMA OnTheWayArrives ==
  ASSUME TypeInv, NoErrors, [ChatNext]_chatVars, faults' = 0, ~Crash,
         NEW s \in Sockets, NEW r \in Rooms, Hears(s, r), NEW m \in OnTheWay(r), m \in Ids
  PROVE  m \in OnTheWay(r)' \/ m \in shown'[s]
<1> USE DEF TypeInv, ChatTypeOK
<1>1. PICK c \in Calls : task[c].room = r /\ task[c].id = m
  BY DEF OnTheWay
<1>2. task[c].pc \in Inserts /\ m # 0
  BY <1>1, ChatBoundsAssumption DEF TaskOK, Ids
<1>3. CASE task'[c].room = r /\ task'[c].id = m
  BY <1>3 DEF OnTheWay
<1>4. CASE ~(task'[c].room = r /\ task'[c].id = m)
  <2>1. ~Execute(c) /\ ~Request(c) /\ ~Reject(c) /\ task'[c] # task[c]
    BY <1>1, <1>2, <1>4, ExecuteMoves, RequestMoves, NoErrorsStep DEF SameWork, Inserts
  <2>2. Handler(c) /\ task[c].reply # "error"
    BY <1>2, <2>1, TaskMoves DEF NoErrors, Inserts
  <2>3. ~JoinStep(c) /\ ~CloseStep(c) /\ ~RestStep(c)
    BY <1>2 DEF Inserts, JoinStep, JoinDenied, JoinFound, JoinSession, JoinHistory, CloseStep,
       BlockFound, BlockCreated, BlockFails, CloseFound, CloseUpdated, CloseEnds, RestStep, RestFound,
       RestUpdated, RestDeleted, RestFails, Awaits
  <2>4. SendSaved(c)
    BY <1>2, <2>2, <2>3 DEF Handler, SendStep, SendFound, SendAllowed, SendFails, ImageFound, Awaits, Got, Inserts
  <2> QED
    BY <1>1, <2>4 DEF SendSaved, Broadcast
<1> QED
  BY <1>3, <1>4

LEMMA MissedShrinks ==
  ASSUME TypeInv, NoErrors, ClosedInv, [ChatNext]_chatVars, faults' = 0, ~Crash,
         NEW s \in Sockets, NEW r \in Rooms, Hears(s, r), Quiet(r)
  PROVE  Missed(s, r)' \subseteq Missed(s, r)
<1> USE DEF TypeInv, ChatTypeOK
<1> SUFFICES ASSUME NEW m \in Missed(s, r)'
             PROVE  m \in Missed(s, r)
  OBVIOUS
<1>1. /\ m \in messages'[r] /\ m \notin shown'[s] /\ m \notin OnTheWay(r)'
      /\ m \in Oldest(messages'[r], HistoryLimit)
  BY DEF Missed, Missing
<1>2. m \in messages[r] /\ m \in Oldest(messages[r], HistoryLimit)
  <2>1. CASE messages'[r] = messages[r]
    BY <1>1, <2>1
  <2>2. CASE messages'[r] # messages[r]
    <3>1. PICK c \in Calls : Execute(c) /\ (CreateMessage(c) \/ DeleteMessages(c)) /\ task[c].room = r
      BY <2>2, CollectionsMove DEF CreateMessage, CloseRoom, DeleteMessages
    <3>2. ~DeleteMessages(c)
      BY <3>1 DEF DeleteMessages, ClosedInv, Quiet
    <3>3. /\ messages'[r] = messages[r] \cup {task[c].id} /\ task[c].id \in Ids
      BY <3>1, <3>2, ChatBoundsAssumption DEF CreateMessage, TaskOK, Inserts, Ids
    <3>4. task[c].id \in OnTheWay(r)'
      <4>1. task'[c].room = r /\ task'[c].id = task[c].id
        BY <3>1, ExecuteMoves DEF SameWork
      <4> QED
        BY <4>1 DEF OnTheWay
    <3>5. m # task[c].id
      BY <1>1, <3>4
    <3>6. messages[r] \in SUBSET Ids /\ HistoryLimit \in Nat
      BY ChatBoundsAssumption
    <3>7. m \in Oldest(messages[r], HistoryLimit)
      BY <1>1, <3>3, <3>5, <3>6, OldestShrinks
    <3> QED
      BY <1>1, <3>3, <3>5, <3>7
  <2> QED
    BY <2>1, <2>2
<1>3. m \in Ids
  BY <1>2
<1>4. m \notin shown[s]
  BY <1>1, ShownGrows
<1>5. m \notin OnTheWay(r)
  BY <1>1, <1>3, OnTheWayArrives
<1> QED
  BY <1>2, <1>4, <1>5 DEF Missed, Missing

LEMMA WholeStep ==
  ASSUME TypeInv, ClosedInv, NewInv, NoErrors, PresentInv, WholeInv, [ChatNext]_chatVars, faults' = 0, ~Crash
  PROVE  WholeInv'
<1> USE DEF TypeInv, ChatTypeOK
<1> SUFFICES ASSUME NEW s \in Sockets, NEW r \in Rooms, socket'[s] = "on", Quiet(r)'
             PROVE  /\ view'[s][r] = "in" => Missed(s, r)' = {}
                    /\ \A c \in Calls :
                         task'[c].sock = s /\ task'[c].room = r /\ task'[c].pc = "join.history"
                           /\ task'[c].reply = "done" => Missed(s, r)' \subseteq task'[c].history
  BY DEF WholeInv
<1>1. CASE socket[s] # "on"
  BY <1>1, ConnectsClean DEF BySocket
<1>2. CASE socket[s] = "on"
  <2>0. Quiet(r)
    BY QuietBefore
  <2>1. Put(s, r) => Missed(s, r)' \subseteq Missed(s, r)
    BY <1>2, <2>0, MissedShrinks DEF PresentInv, Hears
  <2>2. ASSUME view'[s][r] = "in"
        PROVE  Missed(s, r)' = {}
    <3>1. CASE view[s][r] = "in"
      BY <1>2, <2>0, <2>1, <3>1 DEF WholeInv, Put
    <3>2. CASE view[s][r] # "in"
      <4>1. PICK c \in Calls : JoinHistory(c) /\ task[c].sock = s /\ task[c].room = r
        BY <2>2, <3>2, LetIn
      <4>2. task[c].pc = "join.history" /\ task[c].reply = "done"
        BY <4>1 DEF JoinHistory, Awaits, Got
      <4>3. Missed(s, r)' \subseteq task[c].history
        BY <1>2, <2>0, <2>1, <4>1, <4>2 DEF WholeInv, Put
      <4>4. task[c].history \subseteq shown'[s]
        BY <1>2, <4>1 DEF JoinHistory
      <4> QED
        BY <4>3, <4>4 DEF Missed, Missing
    <3> QED
      BY <3>1, <3>2
  <2>3. ASSUME NEW c \in Calls, task'[c].sock = s, task'[c].room = r, task'[c].pc = "join.history",
               task'[c].reply = "done"
        PROVE  Missed(s, r)' \subseteq task'[c].history
    <3>1. CASE task'[c] = task[c]
      BY <1>2, <2>0, <2>1, <2>3, <3>1 DEF WholeInv, Put
    <3>2. CASE Execute(c)
      <4>1. task[c].pc = "join.history" /\ task[c].room = r
        BY <2>3, <3>2, ExecuteMoves DEF SameWork
      <4>2. FindMessages(c)
        BY <3>2, <4>1 DEF Execute, FindRoom, RoomReads, IsBlocked, CreateMessage, CreateBlock, CloseRoom,
           DeleteMessages
      <4>3. task'[c].history = Oldest(messages[r], HistoryLimit) /\ messages' = messages
        BY <4>1, <4>2 DEF FindMessages, database, Tasks
      <4> QED
        BY <4>3 DEF Missed
    <3>3. ~Request(c) /\ ~Handler(c) /\ ~Reject(c)
      BY <2>3, RequestMoves, HandlerMoves, RejectMoves, NoTaskFields DEF GoesOn, Inserting
    <3> QED
      BY <2>3, <3>1, <3>2, <3>3, TaskMoves
  <2> QED
    BY <2>2, <2>3
<1> QED
  BY <1>1, <1>2

LEMMA SmoothStep ==
  ASSUME TypeInv, ClosedInv, NewInv, SmoothInv, [ChatNext]_chatVars
  PROVE  SmoothInv'
<1> SUFFICES ASSUME faults' = 0
             PROVE  NoErrors' /\ PresentInv' /\ WholeInv'
  BY DEF SmoothInv
<1>1. faults = 0
  <2>1. faults \in Nat /\ (faults' = faults \/ faults' = faults + 1)
    BY RequestMoves, ExecuteMoves, HandlerMoves, RejectMoves, ClientsMove
       DEF ChatNext, chatVars, bounds, Crash, TypeInv, ChatTypeOK
  <2> QED
    BY <2>1
<1>2. NoErrors /\ PresentInv /\ WholeInv
  BY <1>1 DEF SmoothInv
<1>3. NoErrors'
  BY <1>2, NoErrorsStep
<1>4. CASE Crash
  <2>1. \A s \in Sockets : socket'[s] # "on"
    BY <1>4 DEF Crash, TypeInv, ChatTypeOK
  <2> QED
    BY <1>3, <2>1 DEF PresentInv, WholeInv
<1> QED
  BY <1>2, <1>3, <1>4, PresentStep, WholeStep

-----------------------------------------------------------------------------
(* Theorems *)

LEMMA InitHolds == ChatInit => ChatInv
<1> SUFFICES ASSUME ChatInit
             PROVE  ChatInv
  OBVIOUS
<1> USE DEF ChatInit
<1>1. ChatTypeOK
  BY NoTaskFields, ChatBoundsAssumption DEF ChatTypeOK
<1>2. \A c \in Calls : task[c] = NoTask
  OBVIOUS
<1>3. \A c \in Calls : TaskOK(task[c])
  BY <1>2, NoTaskFields DEF TaskOK, BySocket, Inserts
<1>4. \A s \in Sockets : socket[s] # "on" /\ meta[s] = None /\ \A r \in Rooms : view[s][r] = "out"
  OBVIOUS
<1>5. \A r \in Rooms : messages[r] = {}
  OBVIOUS
<1> QED
  BY <1>1, <1>2, <1>3, <1>4, <1>5, NoTaskFields
     DEF ChatInv, TypeInv, ClosedInv, IdsInv, NewInv, SmoothInv, NoErrors, PresentInv, WholeInv, Inserts

LEMMA InvariantStep == ChatInv /\ [ChatNext]_chatVars => ChatInv'
BY TypeStep, ClosedStep, IdsStep, NewStep, SmoothStep DEF ChatInv

LEMMA ChatInvariant == ChatSpec => []ChatInv
BY InitHolds, InvariantStep, PTL DEF ChatSpec

\* The gateway's maps, the collections and the handlers hold what the code can put
\* there, for every number of users, rooms, sockets and handlers.
THEOREM ChatTypeCorrect == ChatSpec => []ChatTypeOK
<1>1. ChatInv => ChatTypeOK
  BY DEF ChatInv, TypeInv
<1> QED
  BY <1>1, ChatInvariant, PTL

\* A client let into a room that is open and that nobody is closing hears it and is
\* counted there, whatever overlaps its join.
THEOREM InMeansPresentCorrect == ChatSpec => []InMeansPresent
<1>1. ChatInv => InMeansPresent
  BY DEF ChatInv, SmoothInv, PresentInv, InMeansPresent, Put, Quiet
<1> QED
  BY <1>1, ChatInvariant, PTL

\* Joining before reading the history leaves no gap, for any number of senders.
THEOREM HistoryIsWholeCorrect == ChatSpec => []HistoryIsWhole
<1>1. ChatInv => HistoryIsWhole
  BY DEF ChatInv, SmoothInv, WholeInv, HistoryIsWhole, Quiet, Missed, Hears
<1> QED
  BY <1>1, ChatInvariant, PTL

\* The spam records of an open room outlive every close that fails half way.
THEOREM OpenRoomKeepsCorrect == ChatSpec => OpenRoomKeeps
<1>1. ChatInv /\ [ChatNext]_chatVars =>
        [\A r \in Rooms : status[r] = "active" /\ crashes' = crashes =>
           {k \in tracker : k[1] = r} \subseteq tracker']_chatVars
  <2> SUFFICES ASSUME ChatInv, [ChatNext]_chatVars, NEW r \in Rooms, status[r] = "active",
                      crashes' = crashes, NEW k \in tracker, k[1] = r
               PROVE  k \in tracker'
    OBVIOUS
  <2> USE DEF memory
  <2>1. TypeInv /\ ClosedInv /\ crashes \in Nat
    BY ChatBoundsAssumption DEF ChatInv, TypeInv, ChatTypeOK
  <2>2. ASSUME NEW c \in Calls, Handler(c)
        PROVE  k \in tracker'
    <3>1. CASE tracker \subseteq tracker'
      BY <3>1
    <3>2. CASE ClearTrackers(task[c].room) /\ task[c].pc \in {"close.delete", "rest.delete"}
      <4>1. task[c].room # r
        BY <2>1, <3>2 DEF ClosedInv
      <4> QED
        BY <3>2, <4>1 DEF ClearTrackers
    <3>3. \/ tracker \subseteq tracker'
          \/ ClearTrackers(task[c].room) /\ task[c].pc \in {"close.delete", "rest.delete"}
      BY <2>2 DEF Handler, JoinStep, JoinDenied, JoinFound, JoinSession, JoinHistory, SendStep, SendFound,
         SendAllowed, SendSaved, SendFails, ImageFound, CloseStep, BlockFound, BlockCreated, BlockFails,
         CloseFound, CloseUpdated, CloseEnds, RestStep, RestFound, RestUpdated, RestDeleted, RestFails, Awaits
    <3> QED
      BY <3>1, <3>2, <3>3
  <2>3. ~Crash
    BY <2>1 DEF Crash
  <2>4. ASSUME NEW c \in Calls, Request(c) \/ Execute(c) \/ Reject(c)
        PROVE  UNCHANGED tracker
    BY <2>1, <2>4, RequestMoves, ExecuteMoves, RejectMoves
  <2> QED
    BY <2>2, <2>3, <2>4, ClientsMove DEF ChatNext, chatVars
<1> QED
  BY <1>1, ChatInvariant, PTL DEF ChatSpec, OpenRoomKeeps

\* The gateway, the REST endpoints and the repositories keep the promise of ChatLog:
\* a message enters a room once and for a send that found it open, and the messages
\* go together after the close, through overlapping handlers, failures and crashes.
THEOREM LogImplemented == ChatSpec => LogSpec
<1>1. ChatInit => Log!Init
  <2> SUFFICES ASSUME ChatInit
               PROVE  OpenRooms \subseteq Rooms /\ messages \in [Rooms -> SUBSET Ids] /\ Admitted = {}
    BY DEF Log!Init
  <2>1. \A c \in Calls : task[c] = NoTask
    BY DEF ChatInit
  <2> QED
    BY <2>1, NoTaskFields DEF ChatInit, OpenRooms, Admitted, Sending
<1>2. ChatInv /\ [ChatNext]_chatVars => [Log!Next]_(Log!vars)
  BY LogStep DEF ChatInv
<1> QED
  BY <1>1, <1>2, ChatInvariant, PTL DEF ChatSpec, LogSpec, Log!Spec

\* What a reader of a closed room can rely on: once the sends that found it open are
\* through, no message enters it and it is not opened again.
THEOREM ClosedIsFinalCorrect == ChatSpec => Log!ClosedIsFinal
<1>1. ChatInv /\ [Log!Next]_(Log!vars) =>
        [\A r \in Rooms : r \notin OpenRooms /\ (\A p \in Calls : <<p, r>> \notin Admitted)
           => r \notin OpenRooms' /\ messages'[r] \subseteq messages[r]]_(Log!vars)
  <2> SUFFICES ASSUME ChatInv, [Log!Next]_(Log!vars), NEW r \in Rooms, r \notin OpenRooms,
                      \A p \in Calls : <<p, r>> \notin Admitted
               PROVE  r \notin OpenRooms' /\ messages'[r] \subseteq messages[r]
    OBVIOUS
  <2>1. messages \in [Rooms -> SUBSET Ids]
    BY DEF ChatInv, TypeInv, ChatTypeOK
  <2> QED
    BY <2>1 DEF Log!Next, Log!Admit, Log!Save, Log!GiveUp, Log!Close, Log!Purge, Log!vars
<1>2. ChatSpec => [][Log!Next]_(Log!vars)
  BY LogImplemented, PTL DEF LogSpec, Log!Spec
<1> QED
  BY <1>1, <1>2, ChatInvariant, PTL DEF Log!ClosedIsFinal
=============================================================================
