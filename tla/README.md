# A TLA+ model of the FindU backend

FindU is a NestJS server that matches strangers and lets them chat in anonymous
rooms. Users register, fill in a profile, wait in a queue in Redis, and two users
who fit each other get a room, which lives until one of them leaves or blocks the
other. The server is asynchronous JavaScript on one event loop per process:
between two `await`s of one handler any other handler runs, and several processes
may share Redis and MongoDB. Nearly every multi-step operation is a sequence of
separate database commands. What can go wrong is therefore in the interleavings,
in what was read before an `await` and used after it, and in the commands that
fail or are cut off by a crash. That is what these modules are about.

All paths below are relative to `src/src/modules/` unless they say otherwise.

## 1. Inventory

| Component | State it keeps | Operations | Talks to |
|---|---|---|---|
| Matchmaking service (`matchmaking/matchmaking.service.ts`) | Redis: `matchmaking:entry:<user>` (TTL), the sorted set `matchmaking:queue`, `matchmaking:lock:<user>`, `matchmaking:pair:<a>:<b>`, `matchmaking:pending:<user>` | joinQueue, updateSocketId, leaveQueue, getStatus, tryAtomicMatch, set/consumePendingMatch | profiles, blocklist |
| Compatibility filter (same file, 337-366) | none | isCompatible | |
| Matchmaking gateway and controller | one position timer per user (memory of the process) | queue:join, queue:sync, queue:leave, disconnect, ticks, REST join, leave, status | matchmaking service, rooms |
| Rooms (`room/`) | collection `rooms` | createRoom, getRoom, closeRoom, REST leave | chat gateway, messages |
| Chat gateway (`chat/chat.gateway.ts`) | socketMeta, roomPresence, the rooms of socket.io | room:join, chat:send, chat:typing, room:leave, room:block, disconnect | rooms, messages, blocklist, moderation |
| Chat service and image upload | collection `messages` | saveMessage, getActiveRoomMessages, deleteRoomMessages | moderation |
| Moderation | spamTracker (memory), collection `reports` | moderateMessage, clearSpamTracker, createReport | |
| Blocklist | collection `blocklists`, unique per pair | block, unblock, isBlocked, getMutualBlockIds | |
| Auth and one-time codes | collection `otps` (TTL index) | register, resendOtp, verifyEmail, login, oauthLogin, googleLoginWithIdToken, refreshToken | users, mail |
| Users | collection `users`, unique lower-cased e-mail | create, find, update | |
| Profiles | collection `profiles`, unique per user | create, replace, update, delete, uploadAvatar | users |
| Request plumbing and origins (`src/src/common/`, `src/src/config/cors.util.ts`, `src/src/main.ts`) | none | request id, JWT guard, validation messages, exception filter, response interceptor, origin check | every REST route; Socket.IO uses the origins |
| Mail, OAuth strategies, application gateway, bootstrap | nothing that others read | | not modelled, see section 8 |

What makes each part correct:

* **Matchmaking.** A stay in the queue ends in at most one match; users who blocked
  each other or do not want each other are not matched; whoever waits can be found;
  locks exclude and are freed; every call returns.
* **Gateway.** One room per match; both users learn of it; position loops stop;
  a wait ends with a match or with a timeout that is announced.
* **Chat.** A client in a room misses no message and counts as present; a leave closes
  the room; an open room loses nothing.
* **Moderation.** Rate, spacing and repetition limits hold over every sequence of
  attempts, with bounded memory.
* **Accounts.** One account per address in all its spellings, and what a call was told of it
  stays true; the latest code works; verification spends its code.
* **Profiles.** What an upload has replaced is not shown again, whichever of the two
  documents lags behind; a field holds a value of its kind, or null where a body can put it.
* **Plumbing.** A refused field is reported under its name; every failure has a code
  that the clients know.

The `hazards` of `PROJECT.json` list, line by line, what is hard to test here and
the property for it.

## 2. Modules

| Module | What it is |
|---|---|
| `Compatibility` | isCompatible as operators over the fields it reads, beside `MutualWish`, a definition by sets of wanted genders. |
| `Matchmaking` | The service over Redis. EXTENDS `Compatibility`. |
| `MatchLedger` | What the service promises about stays in the queue, without Redis, locks or calls. |
| `MatchmakingInduction` | The inductive invariant of `Matchmaking`. |
| `MatchmakingProofs`, `MatchLedgerProofs` | Theorems about the service and its compatibility filter, and that it implements `MatchLedger`. |
| `MatchGateway` | Gateway and controller; EXTENDS `Matchmaking`, so the service runs below them command by command. |
| `MatchGatewayProofs` | Theorems about the gateway, with the service's invariant below it. |
| `ChatRoom` | Chat gateway, room controller, image upload, messages, rooms and blocklist. |
| `ChatLog` | What the chat service promises about the messages of a room, without sockets, handlers or commands. |
| `SpamTracker` | moderateMessage for one sender in one room, over time. |
| `Accounts` | Registration, codes and sign-in over the collections `users` and `otps`. |
| `Profiles` | The profile and account documents of one user. |
| `RequestPlumbing` | What happens to an HTTP request around its handler, as operators, and theorems about them. |
| `ChatRoomProofs`, `SpamTrackerProofs`, `AccountsProofs`, `ProfilesProofs` | Theorems about the modules they are named after, with their inductive invariants. |
| `MC<module>` | Instances for TLC; one `.cfg` per run. |

### How code becomes actions

A call of an asynchronous function is a *frame*: a program counter that names the
awaited command, and the local variables that are read later. One action is the
awaited command and the synchronous code after it, up to the next `await`. In
`Matchmaking`, `call[c]` is the frame in slot `c`, and a label such as `m.cand` is
the GET of a candidate's entry in tryAtomicMatch. `Throw` is the rejection of
whichever command a frame awaits, with the way from there through the `finally`
blocks; `LostReply` is the same after Redis has run the command, whose caller is told
that it failed. `Crash` drops all frames and keeps the databases.

In `ChatRoom` a command takes effect (`Execute`) at another moment than its
handler goes on, because replies from MongoDB's connection pool are not ordered
with each other; one Redis connection answers in order, so `Matchmaking` does both
in one action.

In `MatchGateway` a task occupies the slot of the call it awaits, `task[c]` says
which handler that is and how far it has come, and `Settled(c)` is the resolved
promise. A handler takes the result of one call and begins the next in one action,
since no `await` lies between; `Await` names the command it then waits for, and
`Finish` is its return. `handlerFaults` counts failures of the gateway's own commands
(rooms and pending matches), `faults` those of the service's; both count
towards `MaxFaults`. Matches are numbered, so that two matches of one pair are two.

Abstractions worth knowing:

* *Time in the queue.* joinedAt and the score of the sorted set are one number, the
  ticket. `aged` is how many tickets are past expiresAt. `RedisExpire` may remove an
  expired entry at any later moment, since saveEntry rounds the TTL up.
* *Locks.* A lock is a key that exists or not. `LockLapse` is its TTL. With
  `LocksMayLapse = FALSE` a TTL runs out only when no live search holds the lock,
  which is the assumption that 8 and 15 seconds are longer than a search.
* *Mutual blocks.* The two queries of getMutualBlockIds are one step, and so are the
  two GETs of claimPair, sent back to back on one connection.
* *Entries that are not JSON* do not occur: nothing writes one. getActiveQueueSize
  only reads, and its count is not modelled.
* *Ticks.* The first tick, run by startPositionLoop itself, is a tick like the
  others; it may start as soon as the timer is set.
* *Failures.* A command that fails has had no effect (`Throw`, `HandlerFails`,
  `Reject`) or all of it, its reply being lost (`LostReply`, `HandlerLosesReply`, and
  `Reject` of a write that has run). ioredis may also send again what was in flight when
  a connection broke; a command that runs twice is not modelled. In `Accounts` and
  `Profiles` a command that fails has had no effect.
* *Tokens.* A socket is accepted or turned away at connect, as a free choice; a socket
  that was turned away has no userId, and every handler returns at once.
* *Chat.* Moderation's verdict is a free choice in `ChatRoom`; `SpamTracker` says what
  it is. Any socket with a token may name any room in any request, and any user to
  block: the code asks who is a participant only in room:join, room:block, the image
  upload and the REST leave. A socket that has closed gets no events, and joining it to a room has no effect
  in socket.io.
* *Times of the spam filter.* `timestamps` is the set of the elements of the array. The
  last element is the greatest and the length is the cardinality, since the filter
  refuses a second attempt at the same time.
* *Codes* are drawn afresh, never twice the same. The TTL index that removes
  expired codes cannot be seen, since findValid ignores them. Registration sets
  isEmailVerified today, so an unverified account is one made before that.
  `BypassAllowed` is isOtpBypassAllowed(). A call carries its address as it was typed;
  every query (`user.repository.ts:15`, `otp.repository.ts`) and the setter of the schema
  (`user.schema.ts:26`) lower-cases by itself.
* *Profiles.* One user is enough, since every operation works on the caller's own
  documents. "gender" stands for the required fields, "bio" for the optional ones. A body
  may leave a field out (`Absent`) or set it to null (`Null`), which `@IsOptional` admits.
  findOneAndUpdate runs no validators: it keeps what is absent and writes null, also over
  gender, age and the user's required displayName.

### The abstract queue

`MatchLedger` has stays that wait, are proposed in pairs, and are confirmed or
abandoned. `Matchmaking!LedgerSpec` instantiates it with `Waiting` (tickets in
entries), `Dead` (drawn, and neither in an entry nor about to be), `Proposed` (the
pairs at the transaction of claimPair) and `Confirmed` (the matches). The ledger
shows what the code does guarantee: a stay is proposed only while both stays wait,
confirmed only when proposed, and a confirmed pair is not proposed again. It also
shows where the guarantee is weak: one stay may be in two proposals and be confirmed
in both, and a dead stay may be revived by a late re-save. This rests on the locks:
if a lock lapses under a live search, two claims of one pair both confirm.

### The abstract log

`ChatLog` has rooms that are open and then closed for good, senders that are admitted
while a room is open, and a log per room. `ChatRoom!LogSpec` maps to it the `active`
rooms, the collection `messages`, and as `Admitted` the sends from MongoDB's answer to
their read of the room until its answer to their insert. It shows that a message enters
a room only by a send that found the room open, and once, also when the reply of the
insert is lost; and that messages are deleted as a whole and only after the room was
closed, whichever of the two closing paths runs and wherever it breaks off. It also
shows the weak point: a sender admitted before the close may save after the deletion.
`ClosedIsFinal` is what a reader can rely on: once those senders are through, a closed
room gets no message. It is proved from the refinement.

## 3. Runs

Passing runs:

| Run | Question | Instance |
|---|---|---|
| `mm_queue` | `MatchedStaysOut`, `PunctualStaysIn`, the refinement of `MatchLedger`, types | 2 users, 2 calls, every operation, blocks that come and go, 2 tickets of which one may expire |
| `mm_search` | both locks exclude, `FreshPair`, `BlockedNeverMatched`; every lock is freed, every call returns; the refinement of `MatchLedger` under failures | 3 waiting users, one choosy, one block, concurrent searches and syncs, 1 command that fails or loses its reply, 1 crash, lock TTLs |
| `gw_events` | `RoomsComeFromMatches`, `UnreadIsUntold`, types | one user waiting over REST, one on a socket; joins, syncs, leaves, status reads, ticks and disconnects; an entry that expires |
| `gw_failures` | the same two and `OnlyMembersAreTold` | two users waiting over REST, one who joins either way, two of the three with a socket; joins, syncs and ticks; stored matches that expire, 1 command that fails or loses its reply, 1 crash |
| `gw_live` | both users are told, compatible users do not wait for ever, position loops stop | 2 users who join and may disconnect at any moment, once each |
| `chat_room` | `HistoryIsWhole`, `InMeansPresent`, types | a member and a stranger, a socket each, 2 messages, a history of 1; joins, sends, typing, disconnects, leaves |
| `chat_close` | `OpenRoomKeeps`, `LeaveCloses`, the refinement of `ChatLog` | the two members, one with a socket; sends, leaves and blocks by socket, leaves, blocks and images by REST; 1 command that fails or loses its reply, or 1 crash |
| `spam` | rate, spacing, repetition, size | limits scaled to 3 messages in 9 units, interval 2, window 5 |
| `accounts` | `AnswersHold`, `LatestCodeWorks`, `VerifyingSpendsTheCode` | one address in two spellings, all operations, 2 codes, 1 rejected command, 1 crash |
| `prof_documents` | `OldAvatarStaysGone` and the schema | 2 requests of any kind at a time, uploads included, with absent and null fields, 1 rejected command |

Two runs check a sentence of the repository that the code does not keep, and TLC's
counterexample is the interleaving. `PROJECT.json` quotes the sentences.

| Run | What happens |
|---|---|
| `mm_double` | Two searches of different pairs read their common candidate before either transaction; both match it. |
| `gw_timeout` | getStatus removes the caller's expired entry before it looks, so `queue:timeout` is not sent. |

The models also contain the following, which no run states as a property since the
code does not rule it out. The `hazards` of `PROJECT.json` give the line of each.

* A leave or a disconnect that overlaps a join can leave an entry without a place in the
  sorted set; that user is found by nobody, and finds others by her own search only. Two
  such users do not find each other until their entries run out.
* A join that goes on after the disconnect of its socket starts a position loop for the
  closed socket, and its entry may be matched: nobody is there to be told.
* A pair whose transaction ran and whose reply was lost has left the queue, and nobody
  is told; the same for a room that was created and whose reply was lost.
* A cleanup can delete the entry that replaced the one it found expired
  (`PunctualStaysIn`: only of a user who had let an earlier stay expire).
* A pair can be claimed although one side has since saved other wishes.
* A user who joined over REST and syncs while she is being matched may not be told.
* A message can be inserted after the messages of its closed room were deleted.
* A send under way when a REST leave empties its room is handled for a socket outside.
* A join can end with room:joined after room:closed.
* A join that overlaps a REST leave of the same room can put its socket back into
  a room that the leave has emptied, before the room is closed or when the close fails;
  so `HistoryIsWhole` and `InMeansPresent` are about rooms that nobody is closing, as
  long as no command has failed.
* A join that resumes after its disconnect counts a closed socket as online.
* Two overlapping resends can leave two valid codes; a login may say that a code was
  sent after storing it failed.
* Two overlapping uploads can leave different avatars on user and profile.
* A PATCH with an explicit null leaves a stored profile without gender or age, and an
  account without the displayName that its schema requires.
* A socket that sends or types in a room of others is put into it by ensureSocketJoinedRoom,
  and its room:leave closes that room.

### Bounds

Two users and two calls reach every race between two calls, and every property of
the service but double matching is about two; `mm_search` and `mm_double` have a
third user, so that pair locks and candidates differ, and `gw_failures` has one so that
there are rooms of others to be told of by mistake. With expiry, failures and a crash
in one instance of three users the gateway has more than fifteen million states, so expiry
is in `gw_events` and the others in `gw_failures`. Two tickets for two users let a user
leave and join again beside the other's first stay, or both join; one of them may be
past its expiry while the other is not. One failure and one crash are enough for the
code after either, including its `finally` blocks. Two chat messages with a history
limit of one take the room over the limit: getActiveRoomMessages then returns the oldest
messages, `HistoryIsWhole` demands just those in full, and the newer ones are what a
rejoining client misses. One room and two members are what presence, history and closing
are about; a second room takes `chat_room` beyond fifteen million states. A stranger can
do there all that the partner can but be let in, so one member and one stranger stand for
both. In `chat_close` a failure and a crash are not combined (`MaxMishaps` counts both), since
its properties excuse what comes after the first of them or hold step by step. One address is enough for accounts, since
every command names an address; its spellings are two. The limits of the spam filter
are scaled so that window, interval and repetition window all end within the time
bound and in different orders. `gw_live` uses the smallest client program in which its
hazards occur, two joins and two disconnects beside the ticks; with failures or leaves as
well, its liveness check is out of TLC's reach within minutes. Two requests at a time, both
of which may be uploads, are enough for `prof_documents`: its hazards are of pairs.

Every bound is a CONSTANT with a name that begins with `Max`, and sits in the guard of
the action that consumes it. Symmetry is over call slots (and over texts in `spam`),
only in runs without liveness; no action distinguishes slots.

Deadlock is checked, except where a client that has connected, joined and left
within the bounds has nothing left to do (`gw_failures`, `gw_live`, `gw_timeout`,
`chat_room`), and in `chat_close`, where an insert beyond `MaxMessages` waits for ever.

## 4. Fairness

* `Matchmaking`: weak fairness of each call's next command (Redis and MongoDB answer)
  and of lock TTLs. Whether anybody takes the result of a settled call is not assumed.
* `MatchGateway`: weak fairness of each call and handler (the event loop runs what is
  ready), strong fairness of each user's tick. setInterval fires for ever; that a tick
  finds no call slot is an artefact of the bound on calls, so a tick that can start
  again and again does. The TTL of a lock that a crash or a failed DEL left behind runs
  out. `TimedGatewaySpec` adds that entries expire.
* `ChatRoom`: weak fairness of commands and handlers.

Nothing is assumed of clients: they may never send anything.

## 5. What is proved

Every theorem holds for every value of the constants that satisfies the ASSUMEs of its
module: any number of users, rooms, sockets and calls in flight, any limits, any initial
databases, any number of failures and crashes. A safety theorem is proved from an
inductive invariant, which TLC checked on the instances of section 3 before the proof
was begun, or from a part of it. Each proof has a lemma per group of actions and a step
per action; most actions disturb few conjuncts, and lemmas that say what a step leaves
alone (`Quiet`, `Keeps...`) do the rest.

### Matchmaking

`MatchmakingInduction` has the invariant `IInv`, in parts that build on each other:

* `TypeInv`, for `TypeCorrect`. `TypeOK` is not inductive: a step such as JoinSave writes
  `f.own`, and whether that is an entry depends on the label. `FramesWellFormed` says
  which local variables hold values of their kind at each label.
* `MutexInv`, for `InitiatorMutexCorrect` and `PairMutexCorrect`, which assume that locks
  do not lapse under their holder. `LockHeld`: a frame inside the try block of
  tryAtomicMatch has its user's lock in Redis, and one inside claimPair the lock of
  its pair. `Throw` and `LostReply` are the interesting cases: a failed command moves a
  frame towards the finally block of the section it is in, and a DEL of a lock whose
  reply is lost has freed it under a frame that is leaving.
* `TicketInv`, for `MatchedStaysOutCorrect`. Every ticket in an entry, in a frame that
  will write it, or in a match was drawn for the user it is used for; and one that has
  not been saved yet is known to the call that drew it alone. The second part is what
  keeps a late join from saving a ticket that was matched meanwhile.
* `SearchInv`, for `BlockedNeverMatchedCorrect`: the loop passes over the user herself
  and over everybody who was blocked when it began, and with blocks that do not change
  its set `skip` is exact. It needs `TypeInv` only.
* `FreshPair`, for `FreshPairCorrect`: inductive beside the parts above.
* `StampBounded`: the joins that have not drawn a ticket fit under `MaxStamp`, which is
  what the guard of JoinQueue is for. It needs that `Calls` is finite.
* `JudgedInv`, for `PunctualStaysInCorrect`: whoever a cleanup or a search is about to
  remove has let a stay run out, and whoever a leave removes is the one who asked. The
  proof attempt corrected the property. With "the caller was in leaveQueue" it was
  satisfied by a leave that had not reached its DEL.

`LedgerImplemented == ASSUME ~LocksMayLapse PROVE Spec => LedgerSpec` maps every step of
the service to one of `MatchLedger` or to a stutter; a rejected command after a proposal
is an abandoned one. Without the hypothesis it is false, as section 2 says.

### Gateway

`MatchGateway` starts and settles the service's calls itself, so that `Matchmaking`
is not its environment but a part of it. Every step of the gateway is composed of a step of
`Matchmaking`, or leaves it alone, so the invariant of the service carries over to it
(`WholeStep`). That needs `ServiceOpsAssumption` (the service offers what handlers call, which
an instance of `Matchmaking` alone need not).

The inductive invariant is `WholeInv`: `IInv` of the service, and

* `MatchedInv`: a search that has matched keeps its partner and the entry it read for
  her until the caller has taken them, also through the two unlocks.
* `SerialInv`: no transaction has a number above their count; so a new match, which gets
  the next number, is one more.
* `SidInv`: a socket id in an entry, in a frame that will write it or in one that has
  read it for a candidate is a socket of that user, or the placeholder of REST. This is
  what makes `match:found` go to the right client, since a search sends it to an id
  that it read several commands earlier, and a sync may have replaced it since. It
  needs `InitSidAssumption`: whoever waits at first joined with an id of her own, as
  both handlers that write one do.
* `WireInv`: a handler awaits what its stage says, for the user of its socket.
* `RoomsInv`, for `RoomsComeFromMatchesCorrect`. The property is not inductive, as
  createRoom runs long after the transaction. A match is `Owed` a room from its
  transaction until createRoom has answered, and rooms and debts of a pair together
  never exceed its matches. Rejected commands, lost replies and crashes cancel debts;
  only the transaction makes one. It needs no assumption on lock TTLs.
* `UnreadInv`, for `UnreadIsUntoldCorrect`. Before a room is stored its handler alone
  knows it (`Unshared`): no other handler carries it to the store, none has consumed it
  for the partner, and nobody has told her. consumePendingMatch deletes the key between
  its read and its return, which keeps store and announcement apart even when two syncs
  read the same room.
* `MembersInv`, for `OnlyMembersAreToldCorrect`: a room is announced to, stored for,
  and handed over to its members. It joins `SidInv` with `MatchedInv`.

In the proof each step of a handler is an instance of one formula of five disjuncts,
`HandlerEffect`, and that formula is shown to preserve the invariant once, instead of
once per handler.

### Chat

`ChatInv` has five parts: the types, with what each handler has at each place;
`ClosedInv`, that a room whose documents are being deleted is closed; `IdsInv`, that the
id of a send under way is not in use; `NewInv`, that a socket before its connection has
nothing; and `SmoothInv`, which holds while no command has failed: a client inside an
open room that nobody closes is joined and present, and its handler, if one is under
way, has seen or will hear every message of the history. `ChatTypeCorrect`,
`InMeansPresentCorrect`, `HistoryIsWholeCorrect` and `OpenRoomKeepsCorrect` (a step
property) follow. Two attempts failed for good reasons and corrected the properties:
larger instances have a join that overlaps a REST leave, and a leave whose command
failed after it took effect (section 3).

`LogImplemented == ChatSpec => LogSpec` needs no hypothesis: the refinement holds through
failures, lost replies and crashes. `ClosedIsFinalCorrect == ChatSpec => Log!ClosedIsFinal`
uses it.

### Spam, accounts, profiles

* `SpamInv` says how the entry, which forgets, relates to the history, which does not:
  every message accepted within the last window has its time in the entry, whose times
  are spaced and whose last text is that of the message accepted last. `RateLimitCorrect`
  then counts: when a message is accepted, those accepted in the window that it ends map
  one to one into the entry. `SpacingCorrect`, `NoRepeatCorrect` and
  `EntryIsBoundedCorrect` (the times of an entry are `MinInterval` apart, so divide the
  window) hold for all limits with `0 < MinInterval <= Window`.
* `AccountsInv`: every stored address is lower-cased and accounts differ in it; what a call
  knows of its address, from the lookup or the insert it has behind it, is so; a code on its
  way to the collection is known to one call only, and a verification about to update the
  account has spent its code; while nothing has failed, the code stored last for an address
  is there, or the call that has deleted it is about to store the next. `AnswersHoldCorrect`,
  `LatestCodeCorrect` and the step property `VerifyingCorrect` follow. The first rests on the
  stored spelling: without the setter of the schema a second registration finds nobody and
  the index sees two addresses. Initial accounts are those that setter and index admit
  (`InitUsersAssumption`).
* `ProfilesInv`: `recent` holds the avatars given since an upload last began alone. An
  upload under way has given its file; from its first write to its answer the user's avatar
  is recent, and at its answer and ever after the profile's is too, unless it has none of
  its own. `OldAvatarCorrect` has no hypothesis on the uploads: they may overlap, fail
  halfway, and meet a profile that comes or goes.

### Operators

* `FiltersMeanWishes` and `CompatibleMeansMutualWish`: isCompatible accepts exactly the
  pairs in which each has a gender that the other wants by both wishes.
* `FieldErrorsNameTheirProperty` (`RequestPlumbing`): the messages that the validation
  pipe builds and the parser in the exception filter fit together. A refused top-level
  property is reported under its own name, unless a message begins with that name as
  part of a longer word; a property of a nested object is reported under `_`.
* `FailureCodeIsListed`: every failure body has a code of `ApiCode`, for each kind of
  exception and the statuses the source throws. An upload beyond multer's limit is a 413,
  which the filter does not know; it becomes `HTTP_413`.
* `OriginsOfEachEnvironment`: production admits the listed origins only, development
  also localhost and ngrok, as docs/DEPLOY-RAILWAY.md 7.4 says.

`RequestPlumbing` has no state and is in no run; its constants are parameters without
assumptions. The ASSUMEs of the other modules are evaluated by TLC in every run. They
say that marks such as `None` are no values of the data, that initial databases and
inputs have their types, keep the unique indexes and hold socket ids of their users, that `Calls` is finite and that
bounds are natural numbers.

## 6. What is only model-checked

* Liveness (`CallsReturn`, `LocksAreFreed`, `BothAreTold`, `TimersStop`, `WaitingEnds`,
  `LeaveCloses`): it needs fairness and ENABLED, which TLAPS does not treat.
* The two violations of section 3.

Every invariant and step property of a passing run is proved.

## 7. Plan

1. An abstract specification of the gateway's announcements, a ledger of rooms that
   are owed, made, stored and announced, and the proof that `MatchGateway` implements it.
2. What remains true of the service when lock TTLs do run out under a live search, as a
   weaker ledger without the hypothesis `~LocksMayLapse`.
3. Two processes with separate memory, and a socket that moves between rooms, if a
   smaller `ChatRoom` can be found for them.

## 8. What is not modelled, and why

* Mail is sent without waiting and no state depends on it. The OAuth strategies map a
  provider's profile to an address (Facebook's without e-mail to one made of its id).
  Tokens, password hashes and Google's verdict on an idToken are computations whose only
  outcome is which user a request is from.
* The application gateway checks a token, notes the user on the socket and logs; it
  handles no event, and the other namespaces note the user themselves.
* Throttling is the library's; CustomThrottlerGuard is not registered.
* Nicknames, avatars of rooms, URLs and the texts of messages are wording.
* `createReport`, `GET /rooms/active` and `GET /rooms/:roomId` change nothing that another
  operation reads.
* Bootstrap, module wiring, Swagger and DTO classes run once or declare types.
* Several server processes: `Matchmaking` and `Accounts` do not depend on how many there
  are, since a call slot may be in any of them; the memory of the gateways is modelled for
  one process, which is what docs/DEPLOY-RAILWAY.md deploys.
