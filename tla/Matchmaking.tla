---------------------------- MODULE Matchmaking ----------------------------
(***************************************************************************)
(* The matchmaking service over Redis.                                     *)
(*                                                                         *)
(* Every call of the service (joinQueue, updateSocketId, leaveQueue,       *)
(* getStatus, tryAtomicMatch) is an asynchronous function: between two     *)
(* awaits other calls, of this process or of another instance, run.  A     *)
(* call is therefore a frame with a program counter, and one action is one *)
(* awaited Redis or MongoDB command followed by the synchronous code up to *)
(* the next await.  The label of a frame names the command it awaits:      *)
(*   j.* joinQueue      u.* updateSocketId   l.* leaveQueue                *)
(*   k.* cleanupStaleEntries                 s.* getStatus                 *)
(*   m.* tryAtomicMatch c.* claimPair        ret  the promise has settled  *)
(*                                                                         *)
(* Time: joinedAt and the score in the sorted set are one number, the      *)
(* ticket, drawn from "stamp"; entries expire in the order in which they   *)
(* were stamped, those up to "aged" being past their expiresAt.            *)
(***************************************************************************)
EXTENDS Integers, FiniteSets, Compatibility

CONSTANTS
  Users,          \* user ids
  Calls,          \* slots for calls in flight, over all server processes
  None,           \* null
  Sids,           \* socket ids, and the placeholder 'pending:<user>' of a REST join
  GenderOf,       \* the gender in a user's profile, Unset for an incomplete one
  JoinDtos,       \* the wishes each user may send with a join
  InitEntry,      \* entries of the users already waiting when the model starts
  InitStamp,      \* the last ticket drawn before the model starts
  InitBlocks,     \* blocklist pairs <<blocker, blocked>> present at the start
  Ops,            \* the client operations of this instance
  MaxStamp,       \* bound on the tickets drawn
  MaxAged,        \* bound on the tickets that expire
  MaxFaults,      \* bound on awaits that reject
  MaxCrashes,     \* bound on process crashes
  LocksMayLapse   \* whether a lock's TTL (8 s, 15 s) may run out under a live holder

AllOps == {"join", "sync", "leave", "status", "match", "block"}

Entry == [ticket : Nat, sid : Sids, gender : Genders \cup {Unset},
          preference : ChatPreferences, preferredGender : PreferredGenders]

ASSUME NoneAssumption == None \notin Users /\ None \notin Entry
ASSUME CallsAssumption == IsFiniteSet(Calls)
ASSUME UsersAssumption == GenderOf \in [Users -> Genders \cup {Unset}] /\ JoinDtos \in [Users -> SUBSET Dtos]
ASSUME InitAssumption ==
  /\ InitStamp \in Nat
  /\ InitEntry \in [Users -> Entry \cup {None}]
  /\ \A u \in Users : InitEntry[u] # None => InitEntry[u].ticket \in 1..InitStamp
  /\ \A u, v \in Users : /\ InitEntry[u] # None /\ InitEntry[v] # None
                         /\ InitEntry[u].ticket = InitEntry[v].ticket
                         => u = v
  /\ \A t \in 1..InitStamp : \E u \in Users : InitEntry[u] # None /\ InitEntry[u].ticket = t
  /\ InitBlocks \subseteq Users \X Users
ASSUME BoundsAssumption ==
  /\ Ops \subseteq AllOps
  /\ MaxStamp \in Nat /\ InitStamp <= MaxStamp /\ MaxAged \in Nat /\ MaxFaults \in Nat /\ MaxCrashes \in Nat
  /\ LocksMayLapse \in BOOLEAN

VARIABLES
  entry,     \* matchmaking:entry:<user>, a JSON document with a TTL
  zset,      \* matchmaking:queue, the score of each member, 0 for no member
  lock,      \* matchmaking:lock:<user>
  pairLock,  \* matchmaking:pair:<a>:<b>, the pairs whose key exists
  blocks,    \* the blocklist collection
  stamp,     \* Date.now() as far as joins can tell
  aged,      \* tickets up to this one are past their expiresAt
  call,      \* the frames of the calls in flight
  matches,   \* history: the transactions of claimPair
  revived,   \* history: tickets written back by a re-save after they had gone
  owner,     \* history: the user each ticket was drawn for
  faults,    \* bound counter: rejected awaits so far
  crashes    \* bound counter: crashes so far

vars == <<entry, zset, lock, pairLock, blocks, stamp, aged, call,
          matches, revived, owner, faults, crashes>>

redis == <<entry, zset, lock, pairLock>>
history == <<matches, revived, owner>>
environment == <<blocks, stamp, aged, faults, crashes>>

-----------------------------------------------------------------------------
(* Frames *)

MatchLabels == {"m.get", "m.blocks", "m.range", "m.cand", "m.zrem", "m.unlock",
                "c.lock", "c.get", "c.exec", "c.unlock"}
Labels == MatchLabels \cup
          {"idle", "ret", "m.lock", "j.profile", "j.get", "j.resave", "j.save", "j.zadd",
           "u.get", "u.save", "l.del", "l.zrem", "k.range", "k.get", "k.zrem", "k.del",
           "s.get", "s.rank"}
Backs == {"none", "ret", "s.get", "s.rank", "m.unlock", "m.next"}
Results == {"none", "error", "left", "saved", "absent", "timedOut", "queued", "unranked", "matched"}

NoScores == [u \in Users |-> 0]
NoClaim == [mine |-> 0, other |-> 0]

Frame == [pc : Labels,
          user : Users \cup {None},            \* on whose behalf
          own : Entry \cup {None},             \* the user's entry; before it is read, the request
          todo : [Users -> Nat],               \* what a loop over a ZRANGE reply has left
          skip : SUBSET Users,                 \* blockSet
          cand : Users \cup {None},            \* the loop variable
          theirs : Entry \cup {None},          \* the entry read for cand
          claim : [mine : Nat, other : Nat],   \* tickets of the entries claimPair read
          back : Backs,                        \* where leaveQueue or a cleanup returns to
          res : Results]

Idle == [pc |-> "idle", user |-> None, own |-> None, todo |-> NoScores, skip |-> {},
         cand |-> None, theirs |-> None, claim |-> NoClaim, back |-> "none", res |-> "none"]

Reply(f, r) == [Idle EXCEPT !.pc = "ret", !.user = f.user, !.res = r]

Goto(c, f) == call' = [call EXCEPT ![c] = f]

At(c, label) == call[c].pc = label

\* A caller that has the result of its last call may go on with the next.
Ready(c) == call[c].pc \in {"idle", "ret"}

Expired(e) == e.ticket <= aged

\* The member of a sorted set with the lowest score.
First(scores) == CHOOSE u \in Users :
  /\ scores[u] # 0
  /\ \A v \in Users : scores[v] # 0 => scores[u] <= scores[v]

\* Mutant: the loop does not advance.
NextRoundStuck(f, scores, body, after) ==
  IF scores = NoScores
  THEN [f EXCEPT !.pc = after, !.todo = scores, !.cand = None, !.theirs = None]
  ELSE [f EXCEPT !.pc = body, !.cand = First(scores), !.theirs = None, !.todo = scores]

\* The next round of a loop over a ZRANGE reply, or the code after the loop.
NextRound(f, scores, body, after) ==
  IF scores = NoScores
  THEN [f EXCEPT !.pc = after, !.todo = scores, !.cand = None, !.theirs = None]
  ELSE [f EXCEPT !.pc = body, !.cand = First(scores), !.theirs = None,
                 !.todo = [scores EXCEPT ![First(scores)] = 0]]

NextCandidate(f) == [NextRound(f, f.todo, "m.cand", "m.unlock") EXCEPT !.claim = NoClaim, !.back = "none"]

NextStale(f) == LET g == NextRound(f, f.todo, "k.get", f.back)
                IN IF g.pc = "k.get" THEN g ELSE [g EXCEPT !.back = "none"]

Cleanup(f, back) == [f EXCEPT !.pc = "k.range", !.own = None, !.back = back]

Leaving(f, back, r) == [f EXCEPT !.pc = "l.del", !.own = None, !.back = back, !.res = r]

Pair(f) == {f.user, f.cand}

\* Mutant: only the blocks placed by the user count.
OwnBlocks(u) == {v \in Users : <<u, v>> \in blocks}

MutualBlocks(u) == {v \in Users : <<u, v>> \in blocks \/ <<v, u>> \in blocks}

-----------------------------------------------------------------------------
(* Writes to an entry *)

Save(u, e) == entry' = [entry EXCEPT ![u] = e]

\* A write of an entry that was read earlier: it may bring a ticket back.
Resave(u, e) ==
  /\ Save(u, e)
  /\ revived' = IF entry[u] # None /\ entry[u].ticket = e.ticket
                THEN revived ELSE revived \cup {e.ticket}

Delete(us) == entry' = [u \in Users |-> IF u \in us THEN None ELSE entry[u]]

\* Mutant: a removed member keeps a null score.
UnlistLeavesNull(us) == zset' = [u \in Users |-> IF u \in us THEN None ELSE zset[u]]

Unlist(us) == zset' = [u \in Users |-> IF u \in us THEN 0 ELSE zset[u]]

-----------------------------------------------------------------------------
(* joinQueue *)

PendingJoins == {c \in Calls : call[c].pc \in {"j.profile", "j.get"}}

Request(u, sid, dto) == [ticket |-> 0, sid |-> sid, gender |-> GenderOf[u],
                         preference |-> dto.preference, preferredGender |-> dto.preferredGender]

JoinQueue(c, u, sid, dto) ==
  /\ Ready(c)
  /\ stamp + Cardinality(PendingJoins) < MaxStamp
  /\ Goto(c, [Idle EXCEPT !.pc = "j.profile", !.user = u, !.own = Request(u, sid, dto)])
  /\ UNCHANGED <<redis, history, environment>>

JoinProfile(c) ==
  LET f == call[c] IN
  /\ At(c, "j.profile")
  /\ Goto(c, IF GenderOf[f.user] = Unset THEN Reply(f, "error") ELSE [f EXCEPT !.pc = "j.get"])
  /\ UNCHANGED <<redis, history, environment>>

JoinGet(c) ==
  LET f == call[c]
      e == entry[f.user] IN
  /\ At(c, "j.get")
  /\ \/ /\ e # None
        /\ Goto(c, [f EXCEPT !.pc = "j.resave",
                                !.own = [@ EXCEPT !.ticket = e.ticket, !.gender = e.gender]])
        /\ UNCHANGED <<stamp, owner>>
     \/ /\ e = None
        /\ Goto(c, [f EXCEPT !.pc = "j.save", !.own = [@ EXCEPT !.ticket = stamp + 1]])
        /\ stamp' = stamp + 1
        /\ owner' = [t \in 1..stamp + 1 |-> IF t = stamp + 1 THEN f.user ELSE owner[t]]
  /\ UNCHANGED <<redis, matches, revived, blocks, aged, faults, crashes>>

JoinResave(c) ==
  LET f == call[c] IN
  /\ At(c, "j.resave")
  /\ Resave(f.user, f.own)
  /\ Goto(c, Cleanup(f, "s.get"))
  /\ UNCHANGED <<zset, lock, pairLock, matches, owner, environment>>

JoinSave(c) ==
  LET f == call[c] IN
  /\ At(c, "j.save")
  /\ Save(f.user, f.own)
  /\ Goto(c, [f EXCEPT !.pc = "j.zadd"])
  /\ UNCHANGED <<zset, lock, pairLock, history, environment>>

JoinZadd(c) ==
  LET f == call[c] IN
  /\ At(c, "j.zadd")
  /\ zset' = [zset EXCEPT ![f.user] = f.own.ticket]
  /\ Goto(c, Cleanup(f, "s.get"))
  /\ UNCHANGED <<entry, lock, pairLock, history, environment>>

JoinStep(c) == JoinProfile(c) \/ JoinGet(c) \/ JoinResave(c) \/ JoinSave(c) \/ JoinZadd(c)

-----------------------------------------------------------------------------
(* updateSocketId *)

NoWish == [preference |-> "any", preferredGender |-> "any"]

UpdateSocketId(c, u, sid) ==
  /\ Ready(c)
  /\ Goto(c, [Idle EXCEPT !.pc = "u.get", !.user = u, !.own = Request(u, sid, NoWish)])
  /\ UNCHANGED <<redis, history, environment>>

UpdateGet(c) ==
  LET f == call[c]
      e == entry[f.user] IN
  /\ At(c, "u.get")
  /\ Goto(c, IF e = None THEN Reply(f, "none")
             ELSE [f EXCEPT !.pc = "u.save", !.own = [e EXCEPT !.sid = f.own.sid]])
  /\ UNCHANGED <<redis, history, environment>>

UpdateSave(c) ==
  LET f == call[c] IN
  /\ At(c, "u.save")
  /\ Resave(f.user, f.own)
  /\ Goto(c, Reply(f, "saved"))
  /\ UNCHANGED <<zset, lock, pairLock, matches, owner, environment>>

UpdateStep(c) == UpdateGet(c) \/ UpdateSave(c)

-----------------------------------------------------------------------------
(* leaveQueue, called by a client, by getStatus for an expired entry of the *)
(* caller, and by the search for an expired entry of either side            *)

LeaveQueue(c, u) ==
  /\ Ready(c)
  /\ Goto(c, Leaving([Idle EXCEPT !.user = u], "ret", "left"))
  /\ UNCHANGED <<redis, history, environment>>

\* Mutant: the search that finds an expired candidate takes the caller out.
LeaverIsCaller(f) == f.user

Leaver(f) == IF f.back = "m.next" THEN f.cand ELSE f.user

LeaveDel(c) ==
  LET f == call[c] IN
  /\ At(c, "l.del")
  /\ Delete({Leaver(f)})
  /\ Goto(c, [f EXCEPT !.pc = "l.zrem"])
  /\ UNCHANGED <<zset, lock, pairLock, history, environment>>

LeaveZrem(c) ==
  LET f == call[c] IN
  /\ At(c, "l.zrem")
  /\ Unlist({Leaver(f)})
  /\ Goto(c, CASE f.back = "ret" -> Reply(f, f.res)
               [] f.back = "m.unlock" -> [f EXCEPT !.pc = "m.unlock", !.back = "none"]
               [] OTHER -> NextCandidate(f))
  /\ UNCHANGED <<entry, lock, pairLock, history, environment>>

LeaveStep(c) == LeaveDel(c) \/ LeaveZrem(c)

-----------------------------------------------------------------------------
(* cleanupStaleEntries *)

CleanupRange(c) ==
  /\ At(c, "k.range")
  /\ Goto(c, NextStale([call[c] EXCEPT !.todo = zset]))
  /\ UNCHANGED <<redis, history, environment>>

CleanupGet(c) ==
  LET f == call[c]
      e == entry[f.cand] IN
  /\ At(c, "k.get")
  /\ Goto(c, IF e = None \/ Expired(e) THEN [f EXCEPT !.pc = "k.zrem", !.theirs = e] ELSE NextStale(f))
  /\ UNCHANGED <<redis, history, environment>>

CleanupZrem(c) ==
  LET f == call[c] IN
  /\ At(c, "k.zrem")
  /\ Unlist({f.cand})
  /\ Goto(c, IF f.theirs # None THEN [f EXCEPT !.pc = "k.del"] ELSE NextStale(f))
  /\ UNCHANGED <<entry, lock, pairLock, history, environment>>

CleanupDel(c) ==
  LET f == call[c] IN
  /\ At(c, "k.del")
  /\ Delete({f.cand})
  /\ Goto(c, NextStale(f))
  /\ UNCHANGED <<zset, lock, pairLock, history, environment>>

CleanupStep(c) == CleanupRange(c) \/ CleanupGet(c) \/ CleanupZrem(c) \/ CleanupDel(c)

-----------------------------------------------------------------------------
(* getStatus: cleanup, own entry, getQueuePosition (which cleans up again). *)
(* getActiveQueueSize only reads and its count is not modelled.             *)

GetStatus(c, u) ==
  /\ Ready(c)
  /\ Goto(c, Cleanup([Idle EXCEPT !.user = u], "s.get"))
  /\ UNCHANGED <<redis, history, environment>>

StatusGet(c) ==
  LET f == call[c]
      e == entry[f.user] IN
  /\ At(c, "s.get")
  /\ Goto(c, IF e = None THEN Reply(f, "absent")
             ELSE IF Expired(e) THEN Leaving(f, "ret", "timedOut")
             ELSE Cleanup(f, "s.rank"))
  /\ UNCHANGED <<redis, history, environment>>

\* A null rank is reported as position 0.
StatusRank(c) ==
  LET f == call[c] IN
  /\ At(c, "s.rank")
  /\ Goto(c, Reply(f, IF zset[f.user] = 0 THEN "unranked" ELSE "queued"))
  /\ UNCHANGED <<redis, history, environment>>

StatusStep(c) == StatusGet(c) \/ StatusRank(c)

-----------------------------------------------------------------------------
(* tryAtomicMatch *)

TryAtomicMatch(c, u) ==
  /\ Ready(c)
  /\ Goto(c, [Idle EXCEPT !.pc = "m.lock", !.user = u])
  /\ UNCHANGED <<redis, history, environment>>

\* Mutant: a search that did not get the lock runs the finally block.
MatchLockInsideTry(c) ==
  LET f == call[c] IN
  /\ At(c, "m.lock")
  /\ lock' = [lock EXCEPT ![f.user] = TRUE]
  /\ Goto(c, [f EXCEPT !.pc = IF lock[f.user] THEN "m.unlock" ELSE "m.get"])
  /\ UNCHANGED <<entry, zset, pairLock, history, environment>>

\* SET NX EX 8
MatchLock(c) ==
  LET f == call[c] IN
  /\ At(c, "m.lock")
  /\ \/ /\ lock[f.user]
        /\ Goto(c, Reply(f, "none"))
        /\ UNCHANGED lock
     \/ /\ ~lock[f.user]
        /\ lock' = [lock EXCEPT ![f.user] = TRUE]
        /\ Goto(c, [f EXCEPT !.pc = "m.get"])
  /\ UNCHANGED <<entry, zset, pairLock, history, environment>>

MatchGet(c) ==
  LET f == call[c]
      e == entry[f.user] IN
  /\ At(c, "m.get")
  /\ Goto(c, IF e = None THEN [f EXCEPT !.pc = "m.unlock"]
             ELSE IF Expired(e) THEN Leaving(f, "m.unlock", "none")
             ELSE [f EXCEPT !.pc = "m.blocks", !.own = e])
  /\ UNCHANGED <<redis, history, environment>>

MatchBlocks(c) ==
  LET f == call[c] IN
  /\ At(c, "m.blocks")
  /\ Goto(c, [f EXCEPT !.pc = "m.range", !.skip = MutualBlocks(f.user)])
  /\ UNCHANGED <<redis, history, environment>>

MatchRange(c) ==
  LET f == call[c]
      others == [v \in Users |-> IF v \in f.skip \cup {f.user} THEN 0 ELSE zset[v]] IN
  /\ At(c, "m.range")
  /\ Goto(c, NextCandidate([f EXCEPT !.todo = others]))
  /\ UNCHANGED <<redis, history, environment>>

MatchCandidate(c) ==
  LET f == call[c]
      e == entry[f.cand] IN
  /\ At(c, "m.cand")
  /\ Goto(c, IF e = None THEN [f EXCEPT !.pc = "m.zrem"]
             ELSE IF Expired(e) THEN [f EXCEPT !.pc = "l.del", !.back = "m.next"]
             ELSE IF IsCompatible(f.own, e) THEN [f EXCEPT !.pc = "c.lock", !.theirs = e]
             ELSE NextCandidate(f))
  /\ UNCHANGED <<redis, history, environment>>

MatchZrem(c) ==
  LET f == call[c] IN
  /\ At(c, "m.zrem")
  /\ Unlist({f.cand})
  /\ Goto(c, NextCandidate(f))
  /\ UNCHANGED <<entry, lock, pairLock, history, environment>>

\* The finally block; partnerId and partnerSocketId come from the candidate's
\* entry as it was read before the claim.
MatchUnlock(c) ==
  LET f == call[c] IN
  /\ At(c, "m.unlock")
  /\ lock' = [lock EXCEPT ![f.user] = FALSE]
  /\ Goto(c, IF f.res = "matched"
             THEN [Reply(f, "matched") EXCEPT !.cand = f.cand, !.theirs = f.theirs]
             ELSE Reply(f, f.res))
  /\ UNCHANGED <<entry, zset, pairLock, history, environment>>

-----------------------------------------------------------------------------
(* claimPair *)

\* Mutant: a claim that did not get the lock runs the finally block.
ClaimLockInsideTry(c) ==
  LET f == call[c] IN
  /\ At(c, "c.lock")
  /\ pairLock' = pairLock \cup {Pair(f)}
  /\ Goto(c, [f EXCEPT !.pc = IF Pair(f) \in pairLock THEN "c.unlock" ELSE "c.get"])
  /\ UNCHANGED <<entry, zset, lock, history, environment>>

\* SET NX EX 15
ClaimLock(c) ==
  LET f == call[c] IN
  /\ At(c, "c.lock")
  /\ \/ /\ Pair(f) \in pairLock
        /\ Goto(c, NextCandidate(f))
        /\ UNCHANGED pairLock
     \/ /\ Pair(f) \notin pairLock
        /\ pairLock' = pairLock \cup {Pair(f)}
        /\ Goto(c, [f EXCEPT !.pc = "c.get"])
  /\ UNCHANGED <<entry, zset, lock, history, environment>>

\* Mutant: the claim trusts the entries the search has read.
ClaimGetTrusting(c) ==
  LET f == call[c] IN
  /\ At(c, "c.get")
  /\ Goto(c, [f EXCEPT !.pc = "c.exec", !.claim = [mine |-> f.own.ticket, other |-> f.theirs.ticket]])
  /\ UNCHANGED <<redis, history, environment>>

\* Both GETs go out in one turn of the event loop on one connection.
ClaimGet(c) ==
  LET f == call[c]
      a == entry[f.user]
      b == entry[f.cand] IN
  /\ At(c, "c.get")
  /\ Goto(c, IF a = None \/ b = None THEN [f EXCEPT !.pc = "c.unlock"]
             ELSE [f EXCEPT !.pc = "c.exec", !.claim = [mine |-> a.ticket, other |-> b.ticket]])
  /\ UNCHANGED <<redis, history, environment>>

\* Matches are numbered in the order of their transactions.
NewMatch(f) == [no |-> Cardinality(matches) + 1, by |-> f.user, with |-> f.cand,
                mine |-> f.claim.mine, other |-> f.claim.other]

\* Mutant: the transaction deletes the entry of the searching user only.
ClaimExecHalf(c) ==
  LET f == call[c] IN
  /\ At(c, "c.exec")
  /\ Delete({f.user})
  /\ Unlist(Pair(f))
  /\ matches' = matches \cup {NewMatch(f)}
  /\ Goto(c, [f EXCEPT !.pc = "c.unlock", !.res = "matched"])
  /\ UNCHANGED <<lock, pairLock, revived, owner, environment>>

\* MULTI ZREM DEL EXEC
TakePair(f) ==
  /\ Delete(Pair(f))
  /\ Unlist(Pair(f))
  /\ matches' = matches \cup {NewMatch(f)}

ClaimExec(c) ==
  LET f == call[c] IN
  /\ At(c, "c.exec")
  /\ TakePair(f)
  /\ Goto(c, [f EXCEPT !.pc = "c.unlock", !.res = "matched"])
  /\ UNCHANGED <<lock, pairLock, revived, owner, environment>>

ClaimUnlock(c) ==
  LET f == call[c] IN
  /\ At(c, "c.unlock")
  /\ pairLock' = pairLock \ {Pair(f)}
  /\ Goto(c, IF f.res \in {"matched", "error"} THEN [f EXCEPT !.pc = "m.unlock"] ELSE NextCandidate(f))
  /\ UNCHANGED <<entry, zset, lock, history, environment>>

MatchStep(c) ==
  \/ MatchLock(c) \/ MatchGet(c) \/ MatchBlocks(c) \/ MatchRange(c) \/ MatchCandidate(c)
  \/ MatchZrem(c) \/ MatchUnlock(c)
  \/ ClaimLock(c) \/ ClaimGet(c) \/ ClaimExec(c) \/ ClaimUnlock(c)

-----------------------------------------------------------------------------
(* Failures, time and the other services *)

\* A call is inside the try block of tryAtomicMatch, or of claimPair.
Searching(f) == \/ f.pc \in MatchLabels
                \/ f.pc \in {"l.del", "l.zrem"} /\ f.back \in {"m.unlock", "m.next"}
Claiming(f) == f.pc \in {"c.get", "c.exec", "c.unlock"}

\* Where a call goes on when its await rejects: the finally blocks run, and the
\* caller sees the error.
Rejected(f) ==
  CASE f.pc \in {"c.get", "c.exec"} -> [f EXCEPT !.pc = "c.unlock", !.res = "error", !.claim = NoClaim]
    [] Searching(f) /\ f.pc \notin {"c.get", "c.exec", "m.unlock"}
         -> [f EXCEPT !.pc = "m.unlock", !.res = "error"]
    [] OTHER -> Reply(f, "error")

\* The awaited command fails without effect.  A DEL of a lock that fails leaves
\* the lock behind.
Throw(c) ==
  /\ call[c].pc \notin {"idle", "ret"}
  /\ faults < MaxFaults
  /\ faults' = faults + 1
  /\ Goto(c, Rejected(call[c]))
  /\ UNCHANGED <<redis, history, blocks, stamp, aged, crashes>>

\* The user whose key a DEL or ZREM outside claimPair names.
Removed(f) == IF f.pc \in {"l.del", "l.zrem"} THEN Leaver(f) ELSE f.cand

\* Redis runs the command, and the connection fails before the reply arrives.
LostReply(c) ==
  LET f == call[c] IN
  /\ faults < MaxFaults
  /\ faults' = faults + 1
  /\ Goto(c, Rejected(f))
  /\ \/ f.pc \in {"j.resave", "u.save"} /\ Resave(f.user, f.own) /\ UNCHANGED <<zset, lock, pairLock, matches>>
     \/ f.pc = "j.save" /\ Save(f.user, f.own) /\ UNCHANGED <<zset, lock, pairLock, matches, revived>>
     \/ /\ f.pc = "j.zadd"
        /\ zset' = [zset EXCEPT ![f.user] = f.own.ticket]
        /\ UNCHANGED <<entry, lock, pairLock, matches, revived>>
     \/ f.pc \in {"l.del", "k.del"} /\ Delete({Removed(f)}) /\ UNCHANGED <<zset, lock, pairLock, matches, revived>>
     \/ /\ f.pc \in {"l.zrem", "k.zrem", "m.zrem"}
        /\ Unlist({Removed(f)})
        /\ UNCHANGED <<entry, lock, pairLock, matches, revived>>
     \/ /\ f.pc \in {"m.lock", "m.unlock"}
        /\ lock' = [lock EXCEPT ![f.user] = (f.pc = "m.lock")]
        /\ UNCHANGED <<entry, zset, pairLock, matches, revived>>
     \/ /\ f.pc \in {"c.lock", "c.unlock"}
        /\ pairLock' = IF f.pc = "c.lock" THEN pairLock \cup {Pair(f)} ELSE pairLock \ {Pair(f)}
        /\ UNCHANGED <<entry, zset, lock, matches, revived>>
     \/ f.pc = "c.exec" /\ TakePair(f) /\ UNCHANGED <<lock, pairLock, revived>>
  /\ UNCHANGED <<owner, blocks, stamp, aged, crashes>>

\* The caller has taken the result and makes no further call.
Return(c) ==
  /\ At(c, "ret")
  /\ Goto(c, Idle)
  /\ UNCHANGED <<redis, history, environment>>

\* The server process dies: its calls stop where they are, Redis stays.
Crash ==
  /\ crashes < MaxCrashes
  /\ crashes' = crashes + 1
  /\ call' = [c \in Calls |-> Idle]
  /\ UNCHANGED <<redis, history, blocks, stamp, aged, faults>>

\* Mutant: the lock is set without a TTL.
LockWithoutTtl(u) == lock[u] /\ FALSE

\* A lock's TTL runs out.
LockLapse(u) ==
  /\ lock[u]
  /\ LocksMayLapse \/ \A c \in Calls : ~(Searching(call[c]) /\ call[c].user = u)
  /\ lock' = [lock EXCEPT ![u] = FALSE]
  /\ UNCHANGED <<entry, zset, pairLock, call, history, environment>>

PairLapse(p) ==
  /\ LocksMayLapse \/ \A c \in Calls : ~(Claiming(call[c]) /\ Pair(call[c]) = p)
  /\ pairLock' = pairLock \ {p}
  /\ UNCHANGED <<entry, zset, lock, call, history, environment>>

\* The oldest unexpired ticket reaches its expiresAt.
Age ==
  /\ aged < stamp /\ aged < MaxAged
  /\ aged' = aged + 1
  /\ UNCHANGED <<redis, call, history, blocks, stamp, faults, crashes>>

\* The TTL of an entry is its remaining life rounded up, so Redis drops the
\* key some time after it has expired.
RedisExpire(u) ==
  /\ entry[u] # None
  /\ Expired(entry[u])
  /\ Delete({u})
  /\ UNCHANGED <<zset, lock, pairLock, call, history, environment>>

BlockUser(u, v) ==
  /\ u # v
  /\ <<u, v>> \notin blocks
  /\ blocks' = blocks \cup {<<u, v>>}
  /\ UNCHANGED <<redis, call, history, stamp, aged, faults, crashes>>

UnblockUser(u, v) ==
  /\ <<u, v>> \in blocks
  /\ blocks' = blocks \ {<<u, v>>}
  /\ UNCHANGED <<redis, call, history, stamp, aged, faults, crashes>>

-----------------------------------------------------------------------------
(* The specification *)

Init ==
  /\ entry = InitEntry
  /\ zset = [u \in Users |-> IF InitEntry[u] = None THEN 0 ELSE InitEntry[u].ticket]
  /\ lock = [u \in Users |-> FALSE]
  /\ pairLock = {}
  /\ blocks = InitBlocks
  /\ stamp = InitStamp
  /\ aged = 0
  /\ call = [c \in Calls |-> Idle]
  /\ matches = {}
  /\ revived = {}
  /\ owner = [t \in 1..InitStamp |-> CHOOSE u \in Users : InitEntry[u] # None /\ InitEntry[u].ticket = t]
  /\ faults = 0
  /\ crashes = 0

Start(c) == \E u \in Users :
  \/ "join" \in Ops /\ \E sid \in Sids, dto \in JoinDtos[u] : JoinQueue(c, u, sid, dto)
  \/ "sync" \in Ops /\ \E sid \in Sids : UpdateSocketId(c, u, sid)
  \/ "leave" \in Ops /\ LeaveQueue(c, u)
  \/ "status" \in Ops /\ GetStatus(c, u)
  \/ "match" \in Ops /\ TryAtomicMatch(c, u)

Progress(c) == \/ JoinStep(c) \/ UpdateStep(c) \/ LeaveStep(c) \/ CleanupStep(c)
               \/ StatusStep(c) \/ MatchStep(c)

Lapse == (\E u \in Users : LockLapse(u)) \/ (\E p \in pairLock : PairLapse(p))

Blocklisting == "block" \in Ops /\ \E u, v \in Users : BlockUser(u, v) \/ UnblockUser(u, v)

Environment == Crash \/ Lapse \/ Age \/ (\E u \in Users : RedisExpire(u)) \/ Blocklisting

Next == \/ \E c \in Calls : Start(c) \/ Progress(c) \/ Return(c) \/ Throw(c) \/ LostReply(c)
        \/ Environment

Spec == Init /\ [][Next]_vars

\* Redis and MongoDB answer, and a TTL runs out in the end.
Fairness == (\A c \in Calls : WF_vars(Progress(c))) /\ WF_vars(Lapse)

FairSpec == Spec /\ Fairness
-----------------------------------------------------------------------------
(* Properties *)

\* Every variable holds a value of its kind.
TypeOK ==
  /\ entry \in [Users -> Entry \cup {None}]
  /\ zset \in [Users -> Nat]
  /\ lock \in [Users -> BOOLEAN]
  /\ pairLock \subseteq SUBSET Users
  /\ blocks \subseteq Users \X Users
  /\ stamp \in Nat
  /\ aged \in Nat
  /\ call \in [Calls -> Frame]
  /\ IsFiniteSet(matches)
  /\ matches \subseteq [no : Nat, by : Users, with : Users, mine : Nat, other : Nat]
  /\ revived \subseteq Nat
  /\ owner \in [1..stamp -> Users]
  /\ faults \in Nat
  /\ crashes \in Nat

\* While locks do not lapse under their holder, one user has at most one search
\* between taking and freeing matchmaking:lock, whichever of join, sync and tick
\* started it and however its awaits failed (tryAtomicMatch, lines 175-177, 219-221).
InitiatorMutex ==
  LocksMayLapse \/ \A c, d \in Calls :
    Searching(call[c]) /\ Searching(call[d]) /\ call[c].user = call[d].user => c = d

\* Likewise the two searches of a pair, one from each side, are never both
\* inside claimPair.
PairMutex ==
  LocksMayLapse \/ \A c, d \in Calls :
    /\ Claiming(call[c]) /\ Claiming(call[d])
    /\ {call[c].user, call[c].cand} = {call[d].user, call[d].cand}
    => c = d

\* A ticket that was matched is in the queue again only when a re-save of an
\* entry read before the match brought it back (updateSocketId, joinQueue's
\* existing branch): neither cleanup, nor a late join, nor a failed claim does.
MatchedStaysOut ==
  \A m \in matches, u \in Users :
    entry[u] # None /\ entry[u].ticket \in {m.mine, m.other} => entry[u].ticket \in revived

\* A user none of whose stays has run out keeps her entry until she leaves or is
\* matched.  Cleanups and searches delete by key what they judged by an earlier
\* read; that hits a fresh entry only of a user who had let an older one expire.
PunctualStaysIn ==
  [][\A u \in Users :
       /\ entry[u] # None /\ entry'[u] = None
       /\ \A t \in DOMAIN owner : owner[t] = u => t > aged
       => \E c \in Calls :
            \/ At(c, "l.del") /\ call'[c].pc # "l.del" /\ call[c].user = u /\ call[c].res = "left"
            \/ At(c, "c.exec") /\ call'[c].pc = "c.unlock" /\ u \in Pair(call[c])]_vars

\* The transaction of claimPair never takes the same two stays in the queue a
\* second time, even when both users search at once, unless both were revived.
FreshPair ==
  LocksMayLapse \/ \A c \in Calls, m \in matches :
    /\ At(c, "c.exec")
    /\ {call[c].claim.mine, call[c].claim.other} = {m.mine, m.other}
    => {m.mine, m.other} \subseteq revived

\* Of two users with a block between them, placed by either, none is ever
\* matched with the other (getMutualBlockIds, for blocks that stand throughout).
BlockedNeverMatched ==
  "block" \in Ops \/ \A m \in matches : {<<m.by, m.with>>, <<m.with, m.by>>} \cap blocks = {}

\* A stay in the queue is matched once: no user is handed to two partners.
MatchedOnce ==
  \A m, n \in matches :
    {m.mine, m.other} \cap {n.mine, n.other} # {} => {m.mine, m.other} = {n.mine, n.other}

\* The refinement mapping to MatchLedger.
Waiting == {entry[u].ticket : u \in {v \in Users : entry[v] # None}}
Unsaved == {call[c].own.ticket : c \in {d \in Calls : At(d, "j.save")}}
Dead == 1..stamp \ (Waiting \cup Unsaved)
Proposed == {{call[c].claim.mine, call[c].claim.other} : c \in {d \in Calls : At(d, "c.exec")}}
Confirmed == {{m.mine, m.other} : m \in matches}

Ledger == INSTANCE MatchLedger WITH
  Tickets <- 1..MaxStamp,
  waiting <- Waiting,
  dead <- Dead,
  proposed <- Proposed,
  confirmed <- Confirmed

\* As long as locks do not lapse under their holders, the calls, commands and
\* failures of the service are steps of the ledger: a stay begins, ends, is
\* proposed, confirmed, given up or revived, and nothing else happens to it.
LedgerSpec == Ledger!Spec

\* Every call returns, whatever the others do to the queue while it loops.
CallsReturn == \A c \in Calls : ~Ready(c) ~> Ready(c)

\* No lock outlives its search for ever: not after a failed DEL, not after a crash.
LocksAreFreed ==
  /\ \A u \in Users : lock[u] ~> ~lock[u]
  /\ \A p \in {q \in SUBSET Users : Cardinality(q) = 2} : p \in pairLock ~> p \notin pairLock
=============================================================================
