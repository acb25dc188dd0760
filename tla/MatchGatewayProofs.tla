------------------------ MODULE MatchGatewayProofs ------------------------
(***************************************************************************)
(* Proofs about MatchGateway: the invariant of the service holds below the *)
(* gateway, and its own hold for any number of users, sockets and tasks.   *)
(***************************************************************************)
EXTENDS MatchGateway, MatchLedgerProofs, SequenceTheorems

-----------------------------------------------------------------------------
(* The inductive invariant *)

\* A search that has matched keeps the partner, and the entry it read for her,
\* until its caller has taken them.
Holding(f) == /\ f.pc \in {"c.unlock", "m.unlock", "ret"}
              /\ f.cand \in Users /\ f.cand # f.user
              /\ f.theirs \in Entry

MatchedInv == \A c \in Calls : call[c].res = "matched" => Holding(call[c])

\* Transactions have different numbers.
SerialInv == \A m \in matches : m.no \in 1..Cardinality(matches)

\* The values of the gateway's own variables.
GatewayTypes ==
  /\ socket \in [Sockets -> {"new", "on", "off"}]
  /\ timer \in [Users -> Sockets \cup {None}]
  /\ task \in [Calls -> [kind : Kinds, sock : Sockets \cup {None}, stage : Stages, room : Nat]]
  /\ rooms \in Seq(SUBSET Users)
  /\ pending \in [Users -> 0..Len(rooms)]
  /\ told \subseteq [sock : Sockets, what : {"match", "timeout"}, room : 0..Len(rooms)]
  /\ handlerFaults \in Nat

\* A handler awaits what its stage says, on behalf of its socket's user.
Wired(c) ==
  LET t == task[c] IN
  /\ t.kind \in {"join", "sync", "leave", "tick", "disconnect"} => t.sock \in Sockets
  /\ t.stage \in {"status", "match", "room", "store", "consume", "consumed"} => t.kind \in {"join", "sync", "tick"}
  /\ t.stage \in {"match", "room", "store"} => call[c].user = SocketUser[t.sock]
  /\ t.stage \in {"room", "store"} => Settled(c) /\ call[c].res = "matched"
  /\ t.stage \in {"store", "consumed"} => t.room \in 1..Len(rooms)

WireInv == \A c \in Calls : Wired(c)

\* A room on its way to pending is known to its handler only, and to nobody it is for.
Unshared(c) ==
  LET r == task[c].room
      partner == call[c].cand IN
  /\ ~ToldMatch(partner, r) /\ pending[partner] # r
  /\ \A d \in Calls : /\ d # c /\ task[d].stage = "store" => task[d].room # r
                      /\ task[d].stage = "consumed" /\ SocketUser[task[d].sock] = partner => task[d].room # r

UnreadInv == UnreadIsUntold /\ \A c \in Calls : task[c].stage = "store" => Unshared(c)

\* A match is owed a room from its transaction until createRoom has answered.
RoomsOf(p) == {i \in DOMAIN rooms : rooms[i] = p}
MatchesOf(p) == {m \in matches : {m.by, m.with} = p}
Owed(p) == {c \in Calls : call[c].res = "matched" /\ Pair(call[c]) = p /\ task[c].stage # "store"}

RoomsInv == \A p \in SUBSET Users :
  Cardinality(RoomsOf(p)) + Cardinality(Owed(p)) <= Cardinality(MatchesOf(p))

\* A socket id that stands for the user: a socket of hers, or the placeholder.
OwnSid(sid, u) == sid = Pending \/ (sid \in Sockets /\ SocketUser[sid] = u)

\* The labels at which a frame holds a socket id that will be written, or read.
WritingLabels == {"j.profile", "j.get", "j.resave", "j.save", "u.get", "u.save"}

Carries(f) ==
  /\ f.pc \in WritingLabels => OwnSid(f.own.sid, f.user)
  /\ f.pc \in ClaimLabels \/ f.res = "matched" => OwnSid(f.theirs.sid, f.cand)

SidInv == /\ \A u \in Users : entry[u] # None => OwnSid(entry[u].sid, u)
          /\ \A c \in Calls : Carries(call[c])

\* Rooms are announced, stored and handed over to their members.
MembersInv ==
  /\ OnlyMembersAreTold
  /\ \A u \in Users : pending[u] # 0 => u \in rooms[pending[u]]
  /\ \A c \in Calls : /\ task[c].stage = "store" => call[c].cand \in rooms[task[c].room]
                      /\ task[c].stage = "consumed" => SocketUser[task[c].sock] \in rooms[task[c].room]

GatewayInv == GatewayTypes /\ WireInv /\ UnreadInv /\ MembersInv /\ RoomsInv

-----------------------------------------------------------------------------
(* Calls of the service *)

\* An operation begins a call for its user.
LEMMA OperationBegins ==
  ASSUME TypeInv, NEW c \in Calls, NEW u \in Users,
         \/ \E sid \in Sids, dto \in JoinDtos[u] : JoinQueue(c, u, sid, dto)
         \/ \E sid \in Sids : UpdateSocketId(c, u, sid)
         \/ LeaveQueue(c, u) \/ GetStatus(c, u) \/ TryAtomicMatch(c, u)
  PROVE  /\ Start(c) /\ call'[c].user = u /\ call'[c].res # "matched" /\ matches' = matches
         /\ \A d \in Calls : d # c => call'[d] = call[d]
<1>1. call \in [Calls -> Frame]
  BY DEF TypeInv, TypeOK
<1>2. Start(c)
  BY ServiceOpsAssumption DEF Start, AllOps
<1>3. CASE \E sid \in Sids, dto \in JoinDtos[u] : JoinQueue(c, u, sid, dto)
  BY <1>1, <1>2, <1>3 DEF JoinQueue, Goto, Idle, history
<1>4. CASE \E sid \in Sids : UpdateSocketId(c, u, sid)
  BY <1>1, <1>2, <1>4 DEF UpdateSocketId, Goto, Idle, history
<1>5. CASE LeaveQueue(c, u)
  BY <1>1, <1>2, <1>5 DEF LeaveQueue, Goto, Idle, Leaving, history
<1>6. CASE GetStatus(c, u)
  BY <1>1, <1>2, <1>6 DEF GetStatus, Goto, Idle, Cleanup, history
<1>7. CASE TryAtomicMatch(c, u)
  BY <1>1, <1>2, <1>7 DEF TryAtomicMatch, Goto, Idle, history
<1> QED
  BY <1>3, <1>4, <1>5, <1>6, <1>7

\* A call returns to a frame without a result.
LEMMA ReturnEnds ==
  ASSUME TypeInv, NEW c \in Calls, Return(c)
  PROVE  /\ call'[c].res = "none" /\ matches' = matches
         /\ \A d \in Calls : d # c => call'[d] = call[d]
BY DEF TypeInv, TypeOK, Return, Goto, Idle, history

\* The next round of a loop keeps the user and the result.
LEMMA NextRoundKeeps ==
  ASSUME NEW f \in Frame, NEW scores, NEW body, NEW after
  PROVE  LET g == NextRound(f, scores, body, after)
         IN  g.user = f.user /\ g.res = f.res /\ g.pc \in {body, after} /\ g.back = f.back
<1>1. CASE scores = NoScores
  BY <1>1 DEF NextRound, Frame
<1>2. CASE scores # NoScores
  <2> DEFINE x == First(scores)
             rest == [scores EXCEPT ![x] = 0]
  <2>1. NextRound(f, scores, body, after) = [f EXCEPT !.pc = body, !.cand = x, !.theirs = None, !.todo = rest]
    BY <1>2 DEF NextRound
  <2> HIDE DEF x, rest
  <2> QED
    BY <2>1 DEF Frame
<1> QED
  BY <1>1, <1>2

LEMMA LoopsKeep ==
  ASSUME NEW f \in Frame, f.user \in Users
  PROVE  /\ NextCandidate(f).user = f.user /\ NextCandidate(f).res = f.res
         /\ f.back \in {"s.get", "s.rank"} => NextStale(f).user = f.user /\ NextStale(f).res = f.res
<1>2. NextCandidate(f).user = f.user /\ NextCandidate(f).res = f.res
  <2> DEFINE g == NextRound(f, f.todo, "m.cand", "m.unlock")
  <2>1. g.user = f.user /\ g.res = f.res
    BY NextRoundKeeps
  <2>2. NextCandidate(f) = [g EXCEPT !.claim = NoClaim, !.back = "none"]
    BY DEF NextCandidate
  <2>3. NextCandidate(f).user = g.user /\ NextCandidate(f).res = g.res
    BY <2>2 DEF NextRound, Frame
  <2> QED
    BY <2>1, <2>3
<1>3. ASSUME f.back \in {"s.get", "s.rank"} PROVE NextStale(f).user = f.user /\ NextStale(f).res = f.res
  <2> DEFINE g == NextRound(f, f.todo, "k.get", f.back)
  <2>1. g.user = f.user /\ g.res = f.res
    BY NextRoundKeeps
  <2>2. NextStale(f) = g \/ NextStale(f) = [g EXCEPT !.back = "none"]
    BY DEF NextStale
  <2>3. [g EXCEPT !.back = "none"].user = g.user /\ [g EXCEPT !.back = "none"].res = g.res
    BY DEF NextRound, Frame
  <2> QED
    BY <2>1, <2>2, <2>3
<1> QED
  BY <1>2, <1>3

\* A call keeps its user, and only the transaction of a claim makes it matched.
Continues(f, g) == g.user = f.user /\ (g.res = "matched" => f.res = "matched" \/ f.pc = "c.exec")

\* An assignment to one of the other local variables, along with the jump.
Assigns(f, g) == \E pc, x :
  \/ g = [f EXCEPT !.pc = pc]
  \/ g = [f EXCEPT !.pc = pc, !.own = x]
  \/ g = [f EXCEPT !.pc = pc, !.skip = x]
  \/ g = [f EXCEPT !.pc = pc, !.theirs = x]
  \/ g = [f EXCEPT !.pc = pc, !.back = x]
  \/ g = [f EXCEPT !.pc = pc, !.claim = x]

LEMMA AssignsContinues ==
  ASSUME NEW f \in Frame, NEW g, Assigns(f, g)
  PROVE  Continues(f, g)
<1>1. PICK pc, x :
        \/ g = [f EXCEPT !.pc = pc]
        \/ g = [f EXCEPT !.pc = pc, !.own = x]
        \/ g = [f EXCEPT !.pc = pc, !.skip = x]
        \/ g = [f EXCEPT !.pc = pc, !.theirs = x]
        \/ g = [f EXCEPT !.pc = pc, !.back = x]
        \/ g = [f EXCEPT !.pc = pc, !.claim = x]
  BY DEF Assigns
<1>2. g.user = f.user /\ g.res = f.res
  BY <1>1 DEF Frame
<1> QED
  BY <1>2 DEF Continues

LEMMA ReplyContinues ==
  ASSUME NEW f, NEW r, r = "matched" => f.res = "matched"
  PROVE  Continues(f, Reply(f, r))
BY DEF Continues, Reply, Idle

LEMMA LeavingContinues ==
  ASSUME NEW f \in Frame, NEW b, NEW r, r # "matched"
  PROVE  Continues(f, Leaving(f, b, r))
BY DEF Continues, Leaving, Frame

LEMMA CleanupContinues ==
  ASSUME NEW f \in Frame, NEW b
  PROVE  Continues(f, Cleanup(f, b))
BY DEF Continues, Cleanup, Frame

LEMMA LoopContinues ==
  ASSUME NEW f \in Frame, f.user \in Users
  PROVE  /\ Continues(f, NextCandidate(f))
         /\ f.back \in {"s.get", "s.rank"} => Continues(f, NextStale(f))
BY LoopsKeep DEF Continues

LEMMA GotoFrame ==
  ASSUME TypeInv, NEW c \in Calls, NEW g, Goto(c, g)
  PROVE  call'[c] = g /\ \A d \in Calls : d # c => call'[d] = call[d]
BY DEF Goto, TypeInv, TypeOK

LEMMA JoinContinues ==
  ASSUME TypeInv, NEW c \in Calls, JoinStep(c)
  PROVE  \E g : Goto(c, g) /\ Continues(call[c], g)
<1> DEFINE f == call[c]
           r == [f.own EXCEPT !.ticket = entry[f.user].ticket, !.gender = entry[f.user].gender]
           s == [f.own EXCEPT !.ticket = stamp + 1]
<1>1. f \in Frame
  BY BusyFrame DEF JoinStep, JoinProfile, JoinGet, JoinResave, JoinSave, JoinZadd, At
<1>2. CASE JoinProfile(c)
  <2>1. Goto(c, Reply(f, "error")) \/ Goto(c, [f EXCEPT !.pc = "j.get"])
    BY <1>2 DEF JoinProfile
  <2>2. Assigns(f, [f EXCEPT !.pc = "j.get"])
    BY DEF Assigns
  <2> QED
    BY <1>1, <2>1, <2>2, ReplyContinues, AssignsContinues
<1>3. CASE JoinGet(c)
  <2>1. \/ Goto(c, [f EXCEPT !.pc = "j.resave", !.own = r])
        \/ Goto(c, [f EXCEPT !.pc = "j.save", !.own = s])
    BY <1>1, <1>3 DEF JoinGet, Frame
  <2> HIDE DEF r, s
  <2>2. Assigns(f, [f EXCEPT !.pc = "j.resave", !.own = r]) /\ Assigns(f, [f EXCEPT !.pc = "j.save", !.own = s])
    BY DEF Assigns
  <2> QED
    BY <1>1, <2>1, <2>2, AssignsContinues
<1>4. CASE JoinSave(c)
  <2>1. Goto(c, [f EXCEPT !.pc = "j.zadd"])
    BY <1>4 DEF JoinSave
  <2>2. Assigns(f, [f EXCEPT !.pc = "j.zadd"])
    BY DEF Assigns
  <2> QED
    BY <1>1, <2>1, <2>2, AssignsContinues
<1>5. CASE JoinResave(c) \/ JoinZadd(c)
  <2>1. Goto(c, Cleanup(f, "s.get"))
    BY <1>5 DEF JoinResave, JoinZadd
  <2> QED
    BY <1>1, <2>1, CleanupContinues
<1> QED
  BY <1>2, <1>3, <1>4, <1>5 DEF JoinStep

LEMMA UpdateContinues ==
  ASSUME TypeInv, NEW c \in Calls, UpdateStep(c)
  PROVE  \E g : Goto(c, g) /\ Continues(call[c], g)
<1> DEFINE f == call[c]
           r == [entry[f.user] EXCEPT !.sid = f.own.sid]
<1>1. f \in Frame
  BY BusyFrame DEF UpdateStep, UpdateGet, UpdateSave, At
<1>2. Goto(c, Reply(f, "none")) \/ Goto(c, Reply(f, "saved")) \/ Goto(c, [f EXCEPT !.pc = "u.save", !.own = r])
  BY DEF UpdateStep, UpdateGet, UpdateSave
<1> HIDE DEF r
<1>3. Assigns(f, [f EXCEPT !.pc = "u.save", !.own = r])
  BY DEF Assigns
<1> QED
  BY <1>1, <1>2, <1>3, ReplyContinues, AssignsContinues

LEMMA CleanupStepContinues ==
  ASSUME TypeInv, NEW c \in Calls, CleanupStep(c)
  PROVE  \E g : Goto(c, g) /\ Continues(call[c], g)
<1> DEFINE f == call[c]
           h == [f EXCEPT !.todo = zset]
<1>1. f \in Frame /\ f.user \in Users /\ f.back \in {"s.get", "s.rank"}
  BY BusyFrame DEF CleanupStep, CleanupRange, CleanupGet, CleanupZrem, CleanupDel, At, WellFormed, CleanupLabels
<1>2. h \in Frame /\ h.user = f.user /\ h.res = f.res /\ h.back = f.back /\ h.pc = f.pc
  BY <1>1 DEF Frame, TypeInv, TypeOK
<1>3. CASE CleanupRange(c)
  <2>1. Goto(c, NextStale(h))
    BY <1>3 DEF CleanupRange
  <2> HIDE DEF h
  <2> QED
    BY <1>1, <1>2, <2>1, LoopContinues DEF Continues
<1> HIDE DEF h
<1>4. CASE CleanupGet(c) \/ CleanupZrem(c) \/ CleanupDel(c)
  <2>1. \/ Goto(c, NextStale(f)) \/ Goto(c, [f EXCEPT !.pc = "k.del"])
        \/ Goto(c, [f EXCEPT !.pc = "k.zrem", !.theirs = entry[f.cand]])
    BY <1>4 DEF CleanupGet, CleanupZrem, CleanupDel
  <2>2. Assigns(f, [f EXCEPT !.pc = "k.del"]) /\ Assigns(f, [f EXCEPT !.pc = "k.zrem", !.theirs = entry[f.cand]])
    BY DEF Assigns
  <2> QED
    BY <1>1, <2>1, <2>2, LoopContinues, AssignsContinues
<1> QED
  BY <1>3, <1>4 DEF CleanupStep

LEMMA StatusContinues ==
  ASSUME TypeInv, NEW c \in Calls, StatusStep(c)
  PROVE  \E g : Goto(c, g) /\ Continues(call[c], g)
<1> DEFINE f == call[c]
<1>1. f \in Frame
  BY BusyFrame DEF StatusStep, StatusGet, StatusRank, At
<1>2. \/ Goto(c, Reply(f, "absent")) \/ Goto(c, Reply(f, "unranked")) \/ Goto(c, Reply(f, "queued"))
      \/ Goto(c, Leaving(f, "ret", "timedOut")) \/ Goto(c, Cleanup(f, "s.rank"))
  BY DEF StatusStep, StatusGet, StatusRank
<1> QED
  BY <1>1, <1>2, ReplyContinues, LeavingContinues, CleanupContinues

LEMMA LeaveContinues ==
  ASSUME TypeInv, NEW c \in Calls, LeaveStep(c)
  PROVE  \E g : Goto(c, g) /\ Continues(call[c], g)
<1> DEFINE f == call[c]
<1>1. f \in Frame /\ f.user \in Users
  BY BusyFrame DEF LeaveStep, LeaveDel, LeaveZrem, At
<1>2. \/ Goto(c, [f EXCEPT !.pc = "l.zrem"]) \/ Goto(c, [f EXCEPT !.pc = "m.unlock", !.back = "none"])
      \/ Goto(c, Reply(f, f.res)) \/ Goto(c, NextCandidate(f))
  BY DEF LeaveStep, LeaveDel, LeaveZrem
<1>3. Assigns(f, [f EXCEPT !.pc = "l.zrem"]) /\ Assigns(f, [f EXCEPT !.pc = "m.unlock", !.back = "none"])
  BY DEF Assigns
<1> QED
  BY <1>1, <1>2, <1>3, LoopContinues, ReplyContinues, AssignsContinues

LEMMA MatchContinues ==
  ASSUME TypeInv, NEW c \in Calls, MatchStep(c)
  PROVE  \E g : Goto(c, g) /\ Continues(call[c], g)
<1> DEFINE f == call[c]
           e == entry[f.cand]
           k == [mine |-> entry[f.user].ticket, other |-> entry[f.cand].ticket]
<1>1. f \in Frame /\ f.user \in Users
  BY BusyFrame DEF MatchStep, MatchLock, MatchGet, MatchBlocks, MatchRange, MatchCandidate,
                   MatchZrem, MatchUnlock, ClaimLock, ClaimGet, ClaimExec, ClaimUnlock, At
<1>2. CASE MatchLock(c) \/ MatchGet(c) \/ MatchBlocks(c)
  <2>1. \/ Goto(c, Reply(f, "none")) \/ Goto(c, Leaving(f, "m.unlock", "none"))
        \/ Goto(c, [f EXCEPT !.pc = "m.get"]) \/ Goto(c, [f EXCEPT !.pc = "m.unlock"])
        \/ Goto(c, [f EXCEPT !.pc = "m.blocks", !.own = entry[f.user]])
        \/ Goto(c, [f EXCEPT !.pc = "m.range", !.skip = MutualBlocks(f.user)])
    BY <1>2 DEF MatchLock, MatchGet, MatchBlocks
  <2>2. /\ Assigns(f, [f EXCEPT !.pc = "m.get"]) /\ Assigns(f, [f EXCEPT !.pc = "m.unlock"])
        /\ Assigns(f, [f EXCEPT !.pc = "m.blocks", !.own = entry[f.user]])
        /\ Assigns(f, [f EXCEPT !.pc = "m.range", !.skip = MutualBlocks(f.user)])
    BY DEF Assigns
  <2> QED
    BY <1>1, <2>1, <2>2, ReplyContinues, LeavingContinues, AssignsContinues
<1>3. CASE MatchRange(c)
  <2> DEFINE others == [v \in Users |-> IF v \in f.skip \cup {f.user} THEN 0 ELSE zset[v]]
             h == [f EXCEPT !.todo = others]
  <2>1. others \in [Users -> Nat]
    BY DEF TypeInv, TypeOK
  <2>2. Goto(c, NextCandidate(h))
    BY <1>3 DEF MatchRange
  <2> HIDE DEF others
  <2>3. h \in Frame /\ h.user = f.user /\ h.res = f.res /\ h.pc = f.pc
    BY <1>1, <2>1 DEF Frame
  <2> HIDE DEF h
  <2> QED
    BY <1>1, <2>2, <2>3, LoopContinues DEF Continues
<1>4. CASE MatchCandidate(c) \/ MatchZrem(c)
  <2>1. \/ Goto(c, NextCandidate(f)) \/ Goto(c, [f EXCEPT !.pc = "m.zrem"])
        \/ Goto(c, [f EXCEPT !.pc = "l.del", !.back = "m.next"])
        \/ Goto(c, [f EXCEPT !.pc = "c.lock", !.theirs = e])
    BY <1>4 DEF MatchCandidate, MatchZrem
  <2>2. /\ Assigns(f, [f EXCEPT !.pc = "m.zrem"]) /\ Assigns(f, [f EXCEPT !.pc = "l.del", !.back = "m.next"])
        /\ Assigns(f, [f EXCEPT !.pc = "c.lock", !.theirs = e])
    BY DEF Assigns
  <2> QED
    BY <1>1, <2>1, <2>2, LoopContinues, AssignsContinues
<1>5. CASE MatchUnlock(c)
  <2>1. \/ Goto(c, Reply(f, f.res))
        \/ f.res = "matched" /\ Goto(c, [Reply(f, "matched") EXCEPT !.cand = f.cand, !.theirs = f.theirs])
    BY <1>5 DEF MatchUnlock
  <2>2. f.res = "matched" => Continues(f, [Reply(f, "matched") EXCEPT !.cand = f.cand, !.theirs = f.theirs])
    BY DEF Continues, Reply, Idle
  <2> QED
    BY <2>1, <2>2, ReplyContinues
<1>6. CASE ClaimLock(c) \/ ClaimGet(c) \/ ClaimUnlock(c)
  <2>1. \/ Goto(c, NextCandidate(f)) \/ Goto(c, [f EXCEPT !.pc = "c.get"])
        \/ Goto(c, [f EXCEPT !.pc = "c.unlock"]) \/ Goto(c, [f EXCEPT !.pc = "m.unlock"])
        \/ Goto(c, [f EXCEPT !.pc = "c.exec", !.claim = k])
    BY <1>6 DEF ClaimLock, ClaimGet, ClaimUnlock
  <2> HIDE DEF k
  <2>2. /\ Assigns(f, [f EXCEPT !.pc = "c.get"]) /\ Assigns(f, [f EXCEPT !.pc = "c.unlock"])
        /\ Assigns(f, [f EXCEPT !.pc = "m.unlock"]) /\ Assigns(f, [f EXCEPT !.pc = "c.exec", !.claim = k])
    BY DEF Assigns
  <2> QED
    BY <1>1, <2>1, <2>2, LoopContinues, AssignsContinues
<1>7. CASE ClaimExec(c)
  <2>1. f.pc = "c.exec" /\ Goto(c, [f EXCEPT !.pc = "c.unlock", !.res = "matched"])
    BY <1>7 DEF ClaimExec, At
  <2>2. Continues(f, [f EXCEPT !.pc = "c.unlock", !.res = "matched"])
    BY <1>1, <2>1 DEF Continues, Frame
  <2> QED
    BY <2>1, <2>2
<1> QED
  BY <1>2, <1>3, <1>4, <1>5, <1>6, <1>7 DEF MatchStep

LEMMA RejectedContinues ==
  ASSUME NEW f \in Frame
  PROVE  Rejected(f).user = f.user /\ Rejected(f).res = "error"
<1>1. Rejected(f) \in {[f EXCEPT !.pc = "c.unlock", !.res = "error", !.claim = NoClaim],
                       [f EXCEPT !.pc = "m.unlock", !.res = "error"], Reply(f, "error")}
  BY DEF Rejected
<1> QED
  BY <1>1 DEF Frame, Reply, Idle

\* A call in flight keeps its user, whatever happens to its commands, and the others go on waiting.
LEMMA CallGoesOn ==
  ASSUME TypeInv, NEW c \in Calls, Progress(c) \/ Throw(c) \/ LostReply(c)
  PROVE  /\ ~Ready(c)
         /\ Continues(call[c], call'[c])
         /\ \A d \in Calls : d # c => call'[d] = call[d]
<1>1. ~Ready(c)
  BY DEF Ready, At, Progress, JoinStep, JoinProfile, JoinGet, JoinResave, JoinSave, JoinZadd,
         UpdateStep, UpdateGet, UpdateSave, LeaveStep, LeaveDel, LeaveZrem,
         CleanupStep, CleanupRange, CleanupGet, CleanupZrem, CleanupDel, StatusStep, StatusGet, StatusRank,
         MatchStep, MatchLock, MatchGet, MatchBlocks, MatchRange, MatchCandidate, MatchZrem, MatchUnlock,
         ClaimLock, ClaimGet, ClaimExec, ClaimUnlock, Throw, LostReply
<1>2. \E g : Goto(c, g) /\ Continues(call[c], g)
  <2>1. CASE Progress(c)
    BY <2>1, JoinContinues, UpdateContinues, LeaveContinues, CleanupStepContinues, StatusContinues, MatchContinues
       DEF Progress
  <2>2. CASE Throw(c) \/ LostReply(c)
    BY <2>2, FailingIsBusy, BusyFrame, RejectedContinues DEF Continues
  <2> QED
    BY <2>1, <2>2
<1> QED
  BY <1>1, <1>2, GotoFrame

-----------------------------------------------------------------------------
(* What the service does with matches *)

\* A matched call is on its way out with the partner; a call in the transaction has one.
LEMMA MatchedMove ==
  ASSUME TypeInv, SearchInv, MatchedInv, NEW c \in Calls, Progress(c), call'[c].res = "matched"
  PROVE  /\ Holding(call'[c]) /\ Pair(call'[c]) = Pair(call[c])
         /\ call'[c].cand = call[c].cand /\ call'[c].theirs = call[c].theirs
         /\ call[c].res = "matched" \/ (call[c].pc = "c.exec" /\ ClaimExec(c))
<1> DEFINE f == call[c]
           g == call'[c]
<1>1. f \in Frame /\ WellFormed(f) /\ f.user \in Users /\ Passing(f)
  BY CallGoesOn, BusyFrame DEF Ready, At, SearchInv
<1>2. \A h : Goto(c, h) => g = h
  BY GotoFrame
<1>3. CASE f.pc = "c.exec"
  <2>1. ClaimExec(c)
    BY <1>3 DEF At, Progress, JoinStep, JoinProfile, JoinGet, JoinResave, JoinSave, JoinZadd,
         UpdateStep, UpdateGet, UpdateSave, LeaveStep, LeaveDel, LeaveZrem,
         CleanupStep, CleanupRange, CleanupGet, CleanupZrem, CleanupDel, StatusStep, StatusGet, StatusRank,
         MatchStep, MatchLock, MatchGet, MatchBlocks, MatchRange, MatchCandidate, MatchZrem, MatchUnlock,
         ClaimLock, ClaimGet, ClaimUnlock
  <2>2. g = [f EXCEPT !.pc = "c.unlock", !.res = "matched"]
    BY <1>2, <2>1 DEF ClaimExec
  <2>3. g.pc = "c.unlock" /\ g.user = f.user /\ g.cand = f.cand /\ g.theirs = f.theirs
    BY <1>1, <2>2 DEF Frame
  <2>4. f.cand \in Users /\ f.theirs \in Entry /\ f.cand # f.user
    BY <1>1, <1>3 DEF WellFormed, ClaimLabels, Passing, Looping
  <2> QED
    BY <1>3, <2>1, <2>3, <2>4 DEF Holding, Pair
<1>4. CASE f.pc # "c.exec"
  <2>1. f.res = "matched" /\ Holding(f) /\ f.pc \in {"c.unlock", "m.unlock"}
    BY <1>4, CallGoesOn DEF Continues, MatchedInv, Holding, Ready
  <2>2. ClaimUnlock(c) \/ MatchUnlock(c)
    BY <2>1 DEF At, Progress, JoinStep, JoinProfile, JoinGet, JoinResave, JoinSave, JoinZadd,
         UpdateStep, UpdateGet, UpdateSave, LeaveStep, LeaveDel, LeaveZrem,
         CleanupStep, CleanupRange, CleanupGet, CleanupZrem, CleanupDel, StatusStep, StatusGet, StatusRank,
         MatchStep, MatchLock, MatchGet, MatchBlocks, MatchRange, MatchCandidate, MatchZrem,
         ClaimLock, ClaimGet, ClaimExec
  <2>3. \/ g = [f EXCEPT !.pc = "m.unlock"]
        \/ g = [Reply(f, "matched") EXCEPT !.cand = f.cand, !.theirs = f.theirs]
    BY <1>2, <2>1, <2>2 DEF ClaimUnlock, MatchUnlock
  <2>4. CASE g = [f EXCEPT !.pc = "m.unlock"]
    <3>1. g.pc = "m.unlock" /\ g.user = f.user /\ g.cand = f.cand /\ g.theirs = f.theirs
      BY <1>1, <2>4 DEF Frame
    <3> QED
      BY <2>1, <3>1 DEF Holding, Pair
  <2>5. CASE g = [Reply(f, "matched") EXCEPT !.cand = f.cand, !.theirs = f.theirs]
    <3>1. g.pc = "ret" /\ g.user = f.user /\ g.cand = f.cand /\ g.theirs = f.theirs
      BY <2>5 DEF Reply, Idle
    <3> QED
      BY <2>1, <3>1 DEF Holding, Pair
  <2> QED
    BY <2>1, <2>3, <2>4, <2>5
<1> QED
  BY <1>3, <1>4

\* Only the transaction of a claim makes a match.
LEMMA MatchesFromClaims ==
  ASSUME NEW c \in Calls, Progress(c) \/ Throw(c) \/ LostReply(c)
  PROVE  /\ matches' = matches \/ (At(c, "c.exec") /\ matches' = matches \cup {NewMatch(call[c])})
         /\ ClaimExec(c) => matches' = matches \cup {NewMatch(call[c])}
BY MatchesGrow DEF TakePair, ClaimExec

\* Crashes, expiries and blocks leave the matches alone, and the calls but for a crash.
LEMMA EnvironmentKeeps ==
  ASSUME TypeInv, Environment
  PROVE  matches' = matches /\ (call' = call \/ Crash)
BY DEF Environment, Crash, Lapse, LockLapse, PairLapse, Age, RedisExpire, Blocklisting, BlockUser, UnblockUser, history

LEMMA CrashForgets ==
  ASSUME Crash, NEW c \in Calls
  PROVE  call'[c] = Idle /\ call'[c].res = "none"
BY DEF Crash, Idle

LEMMA StartBegins ==
  ASSUME TypeInv, NEW c \in Calls, Start(c)
  PROVE  call'[c].res # "matched" /\ matches' = matches /\ \A d \in Calls : d # c => call'[d] = call[d]
<1>1. PICK u \in Users :
        \/ \E sid \in Sids, dto \in JoinDtos[u] : JoinQueue(c, u, sid, dto)
        \/ \E sid \in Sids : UpdateSocketId(c, u, sid)
        \/ LeaveQueue(c, u) \/ GetStatus(c, u) \/ TryAtomicMatch(c, u)
  BY DEF Start
<1> QED
  BY <1>1, OperationBegins

LEMMA FailingContinues ==
  ASSUME TypeInv, NEW c \in Calls, Throw(c) \/ LostReply(c)
  PROVE  call'[c].res = "error"
BY FailingIsBusy, BusyFrame, RejectedContinues, GotoFrame

LEMMA MatchedStep == TypeInv /\ SearchInv /\ MatchedInv /\ [Next]_vars => MatchedInv'
<1> SUFFICES ASSUME TypeInv, SearchInv, MatchedInv, [Next]_vars, NEW d \in Calls, call'[d].res = "matched"
             PROVE  Holding(call'[d])
  BY DEF MatchedInv
<1>1. ASSUME NEW c \in Calls, Start(c) \/ Progress(c) \/ Return(c) \/ Throw(c) \/ LostReply(c)
      PROVE  Holding(call'[d])
  <2>1. CASE d # c
    <3>1. call'[d] = call[d]
      BY <1>1, <2>1, StartBegins, ReturnEnds, CallGoesOn
    <3> QED
      BY <3>1 DEF MatchedInv
  <2>2. CASE d = c
    <3>1. Progress(c)
      BY <1>1, <2>2, StartBegins, ReturnEnds, FailingContinues
    <3> QED
      BY <2>2, <3>1, MatchedMove
  <2> QED
    BY <2>1, <2>2
<1>2. CASE Environment
  BY <1>2, EnvironmentKeeps, CrashForgets DEF MatchedInv
<1>3. CASE UNCHANGED vars
  BY <1>3 DEF vars, MatchedInv
<1> QED
  BY <1>1, <1>2, <1>3 DEF Next

LEMMA NewNumber ==
  ASSUME TypeInv, SerialInv, NEW f, matches' = matches \cup {NewMatch(f)}
  PROVE  NewMatch(f) \notin matches /\ SerialInv'
<1> DEFINE n == Cardinality(matches)
<1>1. n \in Nat /\ IsFiniteSet(matches)
  BY FS_CardinalityType DEF TypeInv, TypeOK
<1>2. NewMatch(f).no = n + 1
  BY DEF NewMatch
<1>3. \A m \in matches : m.no \in 1..n
  BY DEF SerialInv
<1> HIDE DEF n
<1>4. NewMatch(f) \notin matches
  BY <1>1, <1>2, <1>3
<1>5. Cardinality(matches') = n + 1
  BY <1>1, <1>4, FS_AddElement DEF n
<1> QED
  BY <1>1, <1>2, <1>3, <1>4, <1>5 DEF SerialInv

LEMMA SerialStep == TypeInv /\ SerialInv /\ [Next]_vars => SerialInv'
<1> SUFFICES ASSUME TypeInv, SerialInv, [Next]_vars PROVE SerialInv'
  OBVIOUS
<1>1. matches' = matches \/ \E c \in Calls : matches' = matches \cup {NewMatch(call[c])}
  <2>1. ASSUME NEW c \in Calls, Start(c) \/ Return(c) PROVE matches' = matches
    BY <2>1, StartBegins, ReturnEnds
  <2>2. ASSUME NEW c \in Calls, Progress(c) \/ Throw(c) \/ LostReply(c)
        PROVE  matches' = matches \/ matches' = matches \cup {NewMatch(call[c])}
    BY <2>2, MatchesFromClaims
  <2>3. Environment => matches' = matches
    BY EnvironmentKeeps
  <2> QED
    BY <2>1, <2>2, <2>3 DEF Next, vars
<1> QED
  BY <1>1, NewNumber DEF SerialInv

-----------------------------------------------------------------------------
(* The gateway uses the service as it is specified *)

\* A call that the gateway begins carries the socket id of its user.
LEMMA OwnOperation ==
  ASSUME TypeInv, NEW c \in Calls, NEW u \in Users,
         \/ \E sid \in Sids, dto \in JoinDtos[u] : OwnSid(sid, u) /\ JoinQueue(c, u, sid, dto)
         \/ \E sid \in Sids : OwnSid(sid, u) /\ UpdateSocketId(c, u, sid)
         \/ LeaveQueue(c, u) \/ GetStatus(c, u) \/ TryAtomicMatch(c, u)
  PROVE  Start(c) /\ Carries(call'[c]) /\ entry' = entry
<1>1. Start(c) /\ call \in [Calls -> Frame]
  BY OperationBegins DEF TypeInv, TypeOK
<1>2. CASE \E sid \in Sids, dto \in JoinDtos[u] : OwnSid(sid, u) /\ JoinQueue(c, u, sid, dto)
  <2>1. PICK sid \in Sids : OwnSid(sid, u) /\ \E dto \in JoinDtos[u] : JoinQueue(c, u, sid, dto)
    BY <1>2
  <2>2. PICK dto \in JoinDtos[u] : JoinQueue(c, u, sid, dto)
    BY <2>1
  <2> DEFINE r == Request(u, sid, dto)
             g == [Idle EXCEPT !.pc = "j.profile", !.user = u, !.own = r]
  <2>3. call'[c] = g /\ entry' = entry
    BY <1>1, <2>2 DEF JoinQueue, Goto, redis
  <2>4. r.sid = sid
    BY DEF Request
  <2> HIDE DEF r
  <2>5. g.pc = "j.profile" /\ g.user = u /\ g.own = r /\ g.res = "none"
    BY DEF Idle
  <2> QED
    BY <1>1, <2>1, <2>3, <2>4, <2>5 DEF Carries, ClaimLabels
<1>3. CASE \E sid \in Sids : OwnSid(sid, u) /\ UpdateSocketId(c, u, sid)
  <2>1. PICK sid \in Sids : OwnSid(sid, u) /\ UpdateSocketId(c, u, sid)
    BY <1>3
  <2> DEFINE r == Request(u, sid, NoWish)
             g == [Idle EXCEPT !.pc = "u.get", !.user = u, !.own = r]
  <2>2. call'[c] = g /\ entry' = entry
    BY <1>1, <2>1 DEF UpdateSocketId, Goto, redis
  <2>3. r.sid = sid
    BY DEF Request
  <2> HIDE DEF r
  <2>4. g.pc = "u.get" /\ g.user = u /\ g.own = r /\ g.res = "none"
    BY DEF Idle
  <2> QED
    BY <1>1, <2>1, <2>2, <2>3, <2>4 DEF Carries, ClaimLabels
<1>4. CASE LeaveQueue(c, u) \/ GetStatus(c, u) \/ TryAtomicMatch(c, u)
  <2>1. entry' = entry
    BY <1>4 DEF LeaveQueue, GetStatus, TryAtomicMatch, redis
  <2>2. call'[c].pc \in {"l.del", "k.range", "m.lock"} /\ call'[c].res # "matched"
    BY <1>1, <1>4 DEF LeaveQueue, GetStatus, TryAtomicMatch, Goto, Idle, Leaving, Cleanup
  <2> QED
    BY <1>1, <2>1, <2>2 DEF Carries, WritingLabels, ClaimLabels
<1> QED
  BY <1>2, <1>3, <1>4

Begins(c) == Start(c) /\ Carries(call'[c]) /\ entry' = entry

\* What the handlers may assume of their task.
LEMMA TaskFacts ==
  ASSUME GatewayTypes, WireInv, NEW c \in Calls
  PROVE  /\ task[c].kind \in {"join", "sync", "tick"} =>
              /\ task[c].sock \in Sockets /\ SocketUser[task[c].sock] \in Users /\ task[c].sock \in Sids
              /\ OwnSid(task[c].sock, SocketUser[task[c].sock])
         /\ task[c].stage \in {"status", "match", "room", "store", "consume", "consumed"} =>
              /\ task[c].sock \in Sockets /\ SocketUser[task[c].sock] \in Users /\ task[c].sock \in Sids
              /\ OwnSid(task[c].sock, SocketUser[task[c].sock])
BY GatewayAssumption DEF WireInv, Wired, OwnSid

\* A handler that ends returns from its call, or had none.
LEMMA FinishFrame ==
  ASSUME TypeInv, GatewayTypes, NEW c \in Calls, Finish(c)
  PROVE  /\ task'[c] = NoTask
         /\ \A d \in Calls : d # c => call'[d] = call[d] /\ task'[d] = task[d]
         /\ IF Settled(c) THEN Return(c) /\ call'[c].res = "none" ELSE UNCHANGED vars
         /\ matches' = matches
<1>1. Settled(c) => Return(c)
  BY DEF Finish
<1>2. ~Settled(c) => UNCHANGED vars
  BY DEF Finish
<1>3. task'[c] = NoTask /\ \A d \in Calls : d # c => task'[d] = task[d]
  BY DEF Finish, GatewayTypes
<1> QED
  BY <1>1, <1>2, <1>3, ReturnEnds DEF vars

\* Each client operation of the gateway is one of the service, or none.
LEMMA ClientIsServiceStep ==
  ASSUME TypeInv, GatewayTypes, NEW c \in Calls, Client(c) \/ \E u \in Users : Tick(c, u)
  PROVE  Begins(c) \/ UNCHANGED vars
<1>1. ASSUME NEW s \in Sockets PROVE SocketUser[s] \in Users /\ s \in Sids /\ OwnSid(s, SocketUser[s])
  BY GatewayAssumption DEF OwnSid
<1>2. ASSUME NEW s \in Sockets, NEW dto \in JoinDtos[SocketUser[s]], WsJoin(c, s, dto) PROVE Begins(c)
  BY <1>1, <1>2, OwnOperation DEF WsJoin, Begins
<1>3. ASSUME NEW s \in Sockets, WsLeave(c, s) \/ Disconnect(c, s) PROVE Begins(c)
  BY <1>1, <1>3, OwnOperation DEF WsLeave, Disconnect, Begins
<1>4. ASSUME NEW s \in Sockets, WsSync(c, s) PROVE UNCHANGED vars
  BY <1>4 DEF WsSync
<1>5. ASSUME NEW u \in Users, NEW dto \in JoinDtos[u], RestJoin(c, u, dto) PROVE Begins(c)
  <2>1. JoinQueue(c, u, Pending, dto) /\ Pending \in Sids /\ OwnSid(Pending, u)
    BY <1>5, GatewayAssumption DEF RestJoin, OwnSid
  <2> QED
    BY <2>1, OwnOperation DEF Begins
<1>6. ASSUME NEW u \in Users, RestLeave(c, u) \/ RestStatus(c, u) \/ Tick(c, u) PROVE Begins(c)
  BY <1>6, OwnOperation DEF RestLeave, RestStatus, Tick, Begins
<1> QED
  BY <1>2, <1>3, <1>4, <1>5, <1>6 DEF Client

\* A handler that goes on makes the next call for its own user, returns, or leaves the service alone.
LEMMA HandlerIsServiceStep ==
  ASSUME TypeInv, GatewayTypes, WireInv, NEW c \in Calls,
         Handler(c) \/ HandlerFails(c) \/ HandlerLosesReply(c)
  PROVE  Begins(c) \/ Return(c) \/ UNCHANGED vars
<1> DEFINE s == task[c].sock
           u == SocketUser[s]
<1>1. Finish(c) => Return(c) \/ UNCHANGED vars
  BY DEF Finish
<1>2. CASE JoinDone(c)
  BY <1>1, <1>2, TaskFacts, OwnOperation DEF JoinDone, Stage, Begins
<1>3. CASE SyncConsume(c)
  BY <1>1, <1>3, TaskFacts, OwnOperation DEF SyncConsume, Stage, Begins
<1>4. CASE SyncConsumed(c) \/ LeaveDone(c) \/ PendingStored(c) \/ HandlerFails(c) \/ HandlerLosesReply(c)
  BY <1>1, <1>4 DEF SyncConsumed, LeaveDone, PendingStored, HandlerFails, HandlerLosesReply
<1>5. CASE SyncUpdated(c)
  BY <1>1, <1>5, TaskFacts, OwnOperation DEF SyncUpdated, Stage, Begins
<1>6. CASE SyncDone(c)
  BY <1>1, <1>6, TaskFacts, OwnOperation DEF SyncDone, Stage, Begins
<1>7. CASE TickDone(c)
  BY <1>1, <1>7, TaskFacts, OwnOperation DEF TickDone, Stage, Begins
<1>8. CASE MatchDone(c)
  BY <1>1, <1>8 DEF MatchDone
<1>9. CASE RoomCreated(c)
  BY <1>1, <1>9 DEF RoomCreated
<1> QED
  BY <1>2, <1>3, <1>4, <1>5, <1>6, <1>7, <1>8, <1>9 DEF Handler

LEMMA GatewayStepIsServiceStep ==
  ASSUME TypeInv, GatewayTypes, WireInv, [GatewayNext]_allVars
  PROVE  [Next]_vars
<1>1. ASSUME NEW c \in Calls, Client(c) \/ \E u \in Users : Tick(c, u) PROVE [Next]_vars
  BY <1>1, ClientIsServiceStep DEF Next, Begins
<1>2. ASSUME NEW c \in Calls, Handler(c) \/ HandlerFails(c) \/ HandlerLosesReply(c) PROVE [Next]_vars
  BY <1>2, HandlerIsServiceStep DEF Next, Begins
<1>3. ASSUME NEW c \in Calls, Progress(c) \/ Throw(c) \/ LostReply(c) PROVE [Next]_vars
  BY <1>3 DEF Next
<1>4. CASE GatewayEnvironment
  BY <1>4 DEF GatewayEnvironment, PendingExpires, ServerCrash, Next, Environment
<1>5. CASE \E s \in Sockets : Connect(s)
  BY <1>5 DEF Connect
<1>6. CASE UNCHANGED allVars
  BY <1>6 DEF allVars
<1> QED
  BY <1>1, <1>2, <1>3, <1>4, <1>5, <1>6 DEF GatewayNext, Service

-----------------------------------------------------------------------------
(* What a step of one handler does to the invariants of the gateway         *)

Tasks == [kind : Kinds, sock : Sockets \cup {None}, stage : Stages, room : Nat]

\* The other handlers and their calls are left alone.
Alone(c) == /\ task' \in [Calls -> Tasks]
            /\ \A d \in Calls : d # c => call'[d] = call[d] /\ task'[d] = task[d]

\* Of matches, at most that of room r is announced, to some of the users us.
News(us, r) ==
  /\ told \subseteq told'
  /\ told' \ told \subseteq [sock : Sockets, what : {"match", "timeout"}, room : {0, r}]
  /\ \A e \in told' \ told : e.what = "match" => SocketUser[e.sock] \in us /\ e.room = r

\* No room is newly owed to the handler's match.
NoDebt(c) ==
  call'[c].res = "matched" /\ task'[c].stage # "store" =>
    call[c].res = "matched" /\ task[c].stage # "store" /\ Pair(call'[c]) = Pair(call[c])

\* A handler goes on without touching a room or a stored match.
Proceeds(c) ==
  /\ Alone(c) /\ Wired(c)' /\ News({}, 0)
  /\ task'[c].stage # "store" /\ (task'[c].stage = "consumed" => task'[c] = task[c])
  /\ UNCHANGED <<rooms, pending>>

\* consumePendingMatch reads the stored match.
Consumes(c) ==
  LET u == SocketUser[task[c].sock] IN
  /\ Alone(c) /\ Wired(c)' /\ News({}, 0)
  /\ pending[u] # 0 /\ task'[c].stage = "consumed" /\ task'[c].room = pending[u] /\ task'[c].sock = task[c].sock
  /\ UNCHANGED <<rooms, pending>>

\* It has deleted it and hands it over.
HandsOver(c) ==
  LET u == SocketUser[task[c].sock] IN
  /\ task[c].stage = "consumed"
  /\ Alone(c) /\ task'[c] = NoTask /\ News({u}, task[c].room)
  /\ pending' = [pending EXCEPT ![u] = 0]
  /\ UNCHANGED rooms

\* createRoom has made the room: both sides hear of it, or one does and the
\* handler is about to store it for the other.
Creates(c) ==
  LET u == SocketUser[task[c].sock]
      room == Len(rooms) + 1 IN
  /\ task[c].stage = "room"
  /\ rooms' = Append(rooms, {u, call[c].cand})
  /\ Alone(c)
  /\ \/ /\ task'[c].stage = "store" /\ task'[c].room = room
        /\ task'[c].kind = task[c].kind /\ task'[c].sock = task[c].sock
        /\ call'[c] = call[c] /\ News({u}, room)
     \/ task'[c] = NoTask /\ call'[c].res # "matched" /\ News({u, call[c].cand}, room)
  /\ UNCHANGED pending

\* setPendingMatch has stored it.
Stores(c) ==
  /\ task[c].stage = "store"
  /\ Alone(c) /\ task'[c] = NoTask /\ News({}, 0)
  /\ pending' = [pending EXCEPT ![call[c].cand] = task[c].room]
  /\ UNCHANGED rooms

HandlerEffect(c) == Proceeds(c) \/ Consumes(c) \/ HandsOver(c) \/ Creates(c) \/ Stores(c)

LEMMA RoomCount == ASSUME GatewayTypes PROVE Len(rooms) \in Nat
BY LenProperties DEF GatewayTypes

\* Idle handlers are wired.
LEMMA NoTaskIsWired == ASSUME NEW c \in Calls, task'[c] = NoTask PROVE Wired(c)'
BY DEF NoTask, Wired

\* The wiring of a handler outlives what others do.
LEMMA WireKept ==
  ASSUME GatewayTypes, WireInv, NEW c \in Calls, Alone(c), Wired(c)', Len(rooms') \in Nat, Len(rooms) <= Len(rooms')
  PROVE  WireInv'
<1> SUFFICES ASSUME NEW d \in Calls, d # c PROVE Wired(d)'
  BY DEF WireInv
<1>1. Wired(d) /\ call'[d] = call[d] /\ task'[d] = task[d]
  BY DEF WireInv, Alone
<1>2. task[d].room \in Nat /\ Len(rooms) \in Nat
  BY RoomCount DEF GatewayTypes
<1> DEFINE n == Len(rooms)
           m == Len(rooms')
<1>3. n \in Nat /\ m \in Nat /\ n <= m
  BY <1>2
<1>4. task[d].room \in 1..n => task[d].room \in 1..m
  <2> HIDE DEF n, m
  <2> QED
    BY <1>2, <1>3
<1>5. Settled(d) => Settled(d)'
  BY <1>1 DEF Settled, At
<1> QED
  BY <1>1, <1>4, <1>5 DEF Wired

\* A room and its number.
LEMMA NewRoom ==
  ASSUME GatewayTypes, NEW p \in SUBSET Users, rooms' = Append(rooms, p)
  PROVE  /\ Len(rooms') = Len(rooms) + 1 /\ Len(rooms') \in Nat /\ Len(rooms) \in Nat
         /\ rooms' \in Seq(SUBSET Users) /\ DOMAIN rooms = 1..Len(rooms) /\ DOMAIN rooms' = 1..Len(rooms) + 1
         /\ \A i \in 1..Len(rooms) : rooms'[i] = rooms[i]
         /\ rooms'[Len(rooms) + 1] = p
<1>1. rooms \in Seq(SUBSET Users)
  BY DEF GatewayTypes
<1> QED
  BY <1>1, AppendProperties, LenProperties

\* A matched handler holds both users of its match.
LEMMA RoomFacts ==
  ASSUME TypeInv, GatewayTypes, WireInv, MatchedInv, NEW c \in Calls, task[c].stage \in {"room", "store"}
  PROVE  /\ Settled(c) /\ call[c].res = "matched"
         /\ task[c].sock \in Sockets /\ SocketUser[task[c].sock] \in Users
         /\ call[c].user = SocketUser[task[c].sock]
         /\ call[c].cand \in Users /\ call[c].cand # call[c].user /\ call[c].theirs \in Entry
         /\ {SocketUser[task[c].sock], call[c].cand} = Pair(call[c])
         /\ Pair(call[c]) \in SUBSET Users
<1>1. Settled(c) /\ call[c].res = "matched" /\ call[c].user = SocketUser[task[c].sock]
  BY DEF WireInv, Wired
<1> QED
  BY <1>1, TaskFacts DEF MatchedInv, Holding, Pair

LEMMA WireStep ==
  ASSUME TypeInv, GatewayTypes, WireInv, MatchedInv, NEW c \in Calls, HandlerEffect(c)
  PROVE  WireInv'
<1>1. Len(rooms) \in Nat
  BY RoomCount
<1>2. CASE Proceeds(c) \/ Consumes(c)
  BY <1>1, <1>2, WireKept DEF Proceeds, Consumes
<1>3. CASE HandsOver(c) \/ Stores(c)
  BY <1>1, <1>3, WireKept, NoTaskIsWired DEF HandsOver, Stores
<1>4. CASE Creates(c)
  <2>1. Len(rooms') = Len(rooms) + 1 /\ Len(rooms') \in Nat /\ Len(rooms) <= Len(rooms')
    BY <1>4, <1>1, RoomFacts, NewRoom DEF Creates
  <2>2. CASE task'[c] = NoTask
    BY <1>4, <2>1, <2>2, WireKept, NoTaskIsWired DEF Creates
  <2>3. CASE task'[c] # NoTask
    <3>1. /\ task'[c].stage = "store" /\ task'[c].room = Len(rooms')
          /\ task'[c].kind = task[c].kind /\ task'[c].sock = task[c].sock /\ call'[c] = call[c]
          /\ task[c].stage = "room"
      BY <1>4, <2>1, <2>3 DEF Creates
    <3>2. Len(rooms') \in 1..Len(rooms')
      BY <1>1, <2>1
    <3>3. Wired(c)'
      BY <3>1, <3>2 DEF WireInv, Wired, Settled, At
    <3> QED
      BY <1>4, <2>1, <3>3, WireKept DEF Creates
  <2> QED
    BY <2>2, <2>3
<1> QED
  BY <1>2, <1>3, <1>4 DEF HandlerEffect

\* A stored match that nobody has been told of stays one until it is handed over.
LEMMA UnreadStep ==
  ASSUME TypeInv, GatewayTypes, WireInv, MatchedInv, UnreadInv, NEW c \in Calls, HandlerEffect(c)
  PROVE  UnreadInv'
<1> DEFINE n == Len(rooms)
           u == SocketUser[task[c].sock]
<1>1. n \in Nat /\ \A v \in Users : pending[v] \in 0..n
  BY RoomCount DEF GatewayTypes
<1>2. \A d \in Calls : task[d].stage \in {"store", "consumed"} => task[d].room \in 1..n
  BY DEF WireInv, Wired
<1>3. \A d \in Calls : task[d].stage = "store" => call[d].cand \in Users
  BY RoomFacts
<1>4. \A e \in told : e.room \in 0..n
  BY DEF GatewayTypes
<1> HIDE DEF n
<1>5. \A d \in Calls : d # c => call'[d] = call[d] /\ task'[d] = task[d]
  BY DEF HandlerEffect, Proceeds, Consumes, HandsOver, Creates, Stores, Alone
<1>6. CASE Proceeds(c)
  <2>1. pending' = pending /\ \A v, r : ToldMatch(v, r)' => ToldMatch(v, r)
    BY <1>6 DEF Proceeds, News, ToldMatch
  <2>2. UnreadIsUntold'
    BY <2>1 DEF UnreadInv, UnreadIsUntold
  <2>3. ASSUME NEW d \in Calls, task'[d].stage = "store" PROVE Unshared(d)'
    <3>1. d # c /\ Unshared(d) /\ task[d].stage = "store"
      BY <1>5, <1>6, <2>3 DEF Proceeds, UnreadInv
    <3>2. \A a \in Calls : task'[a].stage \in {"store", "consumed"} => task'[a] = task[a]
      BY <1>5, <1>6 DEF Proceeds
    <3> QED
      BY <1>5, <2>1, <3>1, <3>2 DEF Unshared
  <2> QED
    BY <2>2, <2>3 DEF UnreadInv
<1>7. CASE Consumes(c)
  <2>1. pending' = pending /\ \A v, r : ToldMatch(v, r)' => ToldMatch(v, r)
    BY <1>7 DEF Consumes, News, ToldMatch
  <2>2. UnreadIsUntold'
    BY <2>1 DEF UnreadInv, UnreadIsUntold
  <2>3. ASSUME NEW d \in Calls, task'[d].stage = "store" PROVE Unshared(d)'
    <3>1. d # c /\ Unshared(d) /\ task[d].stage = "store"
      BY <1>5, <1>7, <2>3 DEF Consumes, UnreadInv
    <3>2. task'[c].stage = "consumed" /\ task'[c].room = pending[u] /\ SocketUser[task'[c].sock] = u
      BY <1>7 DEF Consumes
    <3> QED
      BY <1>5, <2>1, <3>1, <3>2 DEF Unshared
  <2> QED
    BY <2>2, <2>3 DEF UnreadInv
<1>8. CASE HandsOver(c)
  <2>1. /\ task[c].stage = "consumed" /\ u \in Users /\ pending' = [pending EXCEPT ![u] = 0]
        /\ \A v, r : ToldMatch(v, r)' => ToldMatch(v, r) \/ (v = u /\ r = task[c].room)
    BY <1>8, TaskFacts DEF HandsOver, News, ToldMatch
  <2>2. pending'[u] = 0 /\ \A v \in Users : v # u => pending'[v] = pending[v]
    BY <2>1 DEF GatewayTypes
  <2>3. UnreadIsUntold'
    BY <2>1, <2>2 DEF UnreadInv, UnreadIsUntold
  <2>4. ASSUME NEW d \in Calls, task'[d].stage = "store" PROVE Unshared(d)'
    <3>1. d # c /\ Unshared(d) /\ task[d].stage = "store" /\ task'[c].stage = "none"
      BY <1>5, <1>8, <2>4 DEF HandsOver, UnreadInv, NoTask
    <3>2. ~ToldMatch(call[d].cand, task[d].room)'
      BY <1>5, <2>1, <3>1 DEF Unshared
    <3>3. pending'[call[d].cand] # task[d].room
      BY <1>2, <1>3, <2>2, <3>1 DEF Unshared
    <3> QED
      BY <1>5, <3>1, <3>2, <3>3 DEF Unshared
  <2> QED
    BY <2>3, <2>4 DEF UnreadInv
<1>9. CASE Creates(c)
  <2>1. PICK us : News(us, n + 1) /\ (task'[c].stage = "store" => us = {u} /\ task'[c].room = n + 1 /\ call'[c] = call[c])
    BY <1>9 DEF Creates, n, NoTask
  <2>2. pending' = pending /\ \A v, r : ToldMatch(v, r)' => ToldMatch(v, r) \/ (v \in us /\ r = n + 1)
    BY <1>9, <2>1 DEF Creates, News, ToldMatch
  <2>3. \A v, r : ToldMatch(v, r) => r \in 0..n
    BY <1>4 DEF ToldMatch
  <2>4. UnreadIsUntold'
    BY <1>1, <2>2 DEF UnreadInv, UnreadIsUntold
  <2>5. ASSUME NEW d \in Calls, task'[d].stage = "store" PROVE Unshared(d)'
    <3>1. CASE d # c
      <4>1. Unshared(d) /\ task[d].stage = "store" /\ task[d].room \in 1..n
        BY <1>2, <1>5, <2>5, <3>1 DEF UnreadInv
      <4>2. ~ToldMatch(call[d].cand, task[d].room)'
        BY <1>1, <1>5, <2>2, <3>1, <4>1 DEF Unshared
      <4>3. task'[c].stage = "consumed" => FALSE
        BY <1>9 DEF Creates, NoTask
      <4>4. task'[c].stage = "store" => task'[c].room # task[d].room
        BY <1>1, <2>1, <4>1
      <4> QED
        BY <1>5, <2>2, <3>1, <4>1, <4>2, <4>3, <4>4 DEF Unshared
    <3>2. CASE d = c
      <4>1. us = {u} /\ task'[c].room = n + 1 /\ call'[c] = call[c]
        BY <2>1, <2>5, <3>2
      <4>2. call[c].cand # u /\ call[c].cand \in Users
        BY <1>9, RoomFacts DEF Creates
      <4>3. ~ToldMatch(call[c].cand, task[c].room)'
        <5>1. \A v, r : v = call[c].cand /\ r = n + 1 => ~ToldMatch(v, r)'
          BY <1>1, <2>2, <2>3, <4>1, <4>2
        <5> QED
          BY <4>1, <5>1
      <4>4. pending'[call[c].cand] # n + 1
        BY <1>1, <2>2, <4>2
      <4>5. \A e \in Calls : e # c /\ task'[e].stage \in {"store", "consumed"} => task'[e].room # n + 1
        BY <1>1, <1>2, <1>5
      <4>6. pending'[call'[c].cand] # task'[c].room
        BY <4>1, <4>4
      <4>7. \A e \in Calls : e # c /\ task'[e].stage \in {"store", "consumed"} => task'[e].room # task'[c].room
        BY <4>1, <4>5
      <4> QED
        BY <2>5, <3>2, <4>3, <4>6, <4>7 DEF Unshared
    <3> QED
      BY <3>1, <3>2
  <2> QED
    BY <2>4, <2>5 DEF UnreadInv
<1>10. CASE Stores(c)
  <2> DEFINE p == call[c].cand
  <2>1. /\ task[c].stage = "store" /\ p \in Users /\ pending' = [pending EXCEPT ![p] = task[c].room]
        /\ task'[c] = NoTask /\ Unshared(c)
        /\ \A v, r : ToldMatch(v, r)' => ToldMatch(v, r)
    BY <1>3, <1>10 DEF Stores, News, ToldMatch, UnreadInv
  <2>2. pending'[p] = task[c].room /\ \A v \in Users : v # p => pending'[v] = pending[v]
    BY <2>1 DEF GatewayTypes
  <2>3. UnreadIsUntold'
    BY <2>1, <2>2 DEF UnreadInv, UnreadIsUntold, Unshared
  <2>4. ASSUME NEW d \in Calls, task'[d].stage = "store" PROVE Unshared(d)'
    <3>1. d # c /\ Unshared(d) /\ task[d].stage = "store" /\ task'[c].stage = "none"
      BY <1>5, <2>1, <2>4 DEF UnreadInv, NoTask
    <3>2. ~ToldMatch(call[d].cand, task[d].room)'
      BY <1>5, <2>1, <3>1 DEF Unshared
    <3>3. pending'[call[d].cand] # task[d].room
      BY <1>3, <2>1, <2>2, <3>1 DEF Unshared
    <3> QED
      BY <1>5, <3>1, <3>2, <3>3 DEF Unshared
  <2> QED
    BY <2>3, <2>4 DEF UnreadInv
<1> QED
  BY <1>6, <1>7, <1>8, <1>9, <1>10 DEF HandlerEffect

\* Nobody comes to know of a room of others.
LEMMA MembersStep ==
  ASSUME TypeInv, GatewayTypes, WireInv, MatchedInv, MembersInv, NEW c \in Calls, HandlerEffect(c)
  PROVE  MembersInv'
<1> DEFINE n == Len(rooms)
           v == SocketUser[task[c].sock]
           partner == call[c].cand
<1>1. n \in Nat /\ DOMAIN rooms = 1..n
  BY RoomCount, LenProperties DEF GatewayTypes
<1>2. /\ \A i \in 1..n : i \in DOMAIN rooms' /\ rooms'[i] = rooms[i]
      /\ Creates(c) => n + 1 \in DOMAIN rooms' /\ rooms'[n + 1] = {v, partner}
  <2>1. CASE Creates(c)
    <3>1. {v, partner} \in SUBSET Users /\ rooms' = Append(rooms, {v, partner})
      BY <2>1, RoomFacts DEF Creates
    <3>2. /\ DOMAIN rooms' = 1..n + 1 /\ rooms'[n + 1] = {v, partner}
          /\ \A i \in 1..n : rooms'[i] = rooms[i]
      BY <3>1, NewRoom
    <3> HIDE DEF n
    <3>3. \A i \in 1..n : i \in 1..n + 1
      BY <1>1
    <3>4. n + 1 \in 1..n + 1
      BY <1>1
    <3> QED
      BY <3>2, <3>3, <3>4
  <2>2. CASE ~Creates(c)
    <3>1. rooms' = rooms
      BY <2>2 DEF HandlerEffect, Proceeds, Consumes, HandsOver, Stores
    <3> QED
      BY <1>1, <2>2, <3>1
  <2> QED
    BY <2>1, <2>2
<1>3. \A u \in Users : pending[u] # 0 => pending[u] \in 1..n
  BY <1>1 DEF GatewayTypes
<1>4. \A d \in Calls : task[d].stage \in {"store", "consumed"} => task[d].room \in 1..n
  BY DEF WireInv, Wired
<1>5. Alone(c)
  BY DEF HandlerEffect, Proceeds, Consumes, HandsOver, Creates, Stores
<1> HIDE DEF n
<1>6. OnlyMembersAreTold'
  <2> SUFFICES ASSUME NEW e \in told', e.what = "match"
               PROVE  e.room \in DOMAIN rooms' /\ SocketUser[e.sock] \in rooms'[e.room]
    BY DEF OnlyMembersAreTold
  <2>1. CASE e \in told
    <3>1. e.room \in 1..n /\ SocketUser[e.sock] \in rooms[e.room]
      BY <1>1, <2>1 DEF MembersInv, OnlyMembersAreTold
    <3> QED
      BY <1>2, <3>1
  <2>2. CASE e \notin told
    <3>1. \/ HandsOver(c) /\ SocketUser[e.sock] = v /\ e.room = task[c].room
          \/ Creates(c) /\ SocketUser[e.sock] \in {v, partner} /\ e.room = n + 1
      BY <2>2 DEF HandlerEffect, Proceeds, Consumes, HandsOver, Creates, Stores, News, n
    <3>2. HandsOver(c) => task[c].room \in 1..n /\ v \in rooms[task[c].room]
      BY <1>4 DEF HandsOver, MembersInv
    <3> QED
      BY <1>2, <3>1, <3>2
  <2> QED
    BY <2>1, <2>2
<1>7. ASSUME NEW u \in Users, pending'[u] # 0 PROVE u \in rooms'[pending'[u]]
  <2>1. CASE pending'[u] = pending[u]
    BY <1>2, <1>3, <1>7, <2>1 DEF MembersInv
  <2>2. CASE pending'[u] # pending[u]
    <3>1. Stores(c) /\ u = partner /\ pending'[u] = task[c].room
      BY <1>7, <2>2 DEF HandlerEffect, Proceeds, Consumes, HandsOver, Creates, Stores, GatewayTypes
    <3>2. task[c].room \in 1..n /\ partner \in rooms[task[c].room]
      BY <1>4, <3>1 DEF Stores, MembersInv
    <3> QED
      BY <1>2, <3>1, <3>2
  <2> QED
    BY <2>1, <2>2
<1>8. ASSUME NEW d \in Calls
      PROVE  /\ task'[d].stage = "store" => call'[d].cand \in rooms'[task'[d].room]
             /\ task'[d].stage = "consumed" => SocketUser[task'[d].sock] \in rooms'[task'[d].room]
  <2>1. CASE d # c
    <3>1. call'[d] = call[d] /\ task'[d] = task[d]
      BY <1>5, <2>1 DEF Alone
    <3> QED
      BY <1>2, <1>4, <3>1 DEF MembersInv
  <2>2. CASE d = c /\ task'[c].stage = "store"
    <3>1. Creates(c) /\ task'[c].room = n + 1 /\ call'[c] = call[c]
      BY <2>2 DEF HandlerEffect, Proceeds, Consumes, HandsOver, Creates, Stores, NoTask, n
    <3> QED
      BY <1>2, <2>2, <3>1
  <2>3. CASE d = c /\ task'[c].stage = "consumed"
    <3>1. \/ task'[c] = task[c]
          \/ task'[c].sock = task[c].sock /\ pending[v] # 0 /\ task'[c].room = pending[v] /\ Wired(c)'
      BY <2>3 DEF HandlerEffect, Proceeds, Consumes, HandsOver, Creates, Stores, NoTask
    <3>2. CASE task'[c] = task[c]
      BY <1>2, <1>4, <2>3, <3>2 DEF MembersInv
    <3>3. CASE task'[c].sock = task[c].sock /\ pending[v] # 0 /\ task'[c].room = pending[v] /\ Wired(c)'
      <4>1. task[c].sock \in Sockets
        BY <2>3, <3>3 DEF Wired
      <4>2. v \in Users
        BY <4>1, GatewayAssumption
      <4> QED
        BY <1>2, <1>3, <2>3, <3>3, <4>2 DEF MembersInv
    <3> QED
      BY <3>1, <3>2, <3>3
  <2> QED
    BY <2>1, <2>2, <2>3
<1> QED
  BY <1>6, <1>7, <1>8 DEF MembersInv

-----------------------------------------------------------------------------
(* Counting rooms and matches *)

LEMMA RoomsAreCountable ==
  ASSUME TypeInv, GatewayTypes, NEW p
  PROVE  /\ IsFiniteSet(RoomsOf(p)) /\ Cardinality(RoomsOf(p)) \in Nat
         /\ IsFiniteSet(Owed(p)) /\ Cardinality(Owed(p)) \in Nat
         /\ IsFiniteSet(MatchesOf(p)) /\ Cardinality(MatchesOf(p)) \in Nat
<1>1. DOMAIN rooms = 1..Len(rooms) /\ Len(rooms) \in Nat
  BY RoomCount, LenProperties DEF GatewayTypes
<1>2. IsFiniteSet(1..Len(rooms))
  BY <1>1, FS_Interval
<1>3. IsFiniteSet(RoomsOf(p))
  BY <1>1, <1>2, FS_Subset DEF RoomsOf
<1>4. IsFiniteSet(Owed(p))
  BY CallsAssumption, FS_Subset DEF Owed
<1>5. IsFiniteSet(MatchesOf(p))
  BY FS_Subset DEF MatchesOf, TypeInv, TypeOK
<1> QED
  BY <1>3, <1>4, <1>5, FS_CardinalityType

\* A set that does not grow does not count for more.
LEMMA CountsLess == ASSUME NEW A, NEW B, IsFiniteSet(B), A \subseteq B
  PROVE Cardinality(A) <= Cardinality(B) /\ Cardinality(A) \in Nat /\ Cardinality(B) \in Nat /\ IsFiniteSet(A)
BY FS_Subset, FS_CardinalityType

\* No room is made, no match is lost, and no debt is made.
LEMMA NoDebtKeepsRooms ==
  ASSUME TypeInv, TypeInv', GatewayTypes, RoomsInv, UNCHANGED rooms, matches \subseteq matches',
         \A d \in Calls : NoDebt(d)
  PROVE  RoomsInv'
<1> SUFFICES ASSUME NEW p \in SUBSET Users
             PROVE  Cardinality(RoomsOf(p)') + Cardinality(Owed(p)') <= Cardinality(MatchesOf(p)')
  BY DEF RoomsInv, RoomsOf, Owed, MatchesOf
<1>1. RoomsOf(p)' = RoomsOf(p) /\ Owed(p)' \subseteq Owed(p) /\ MatchesOf(p) \subseteq MatchesOf(p)'
  BY DEF RoomsOf, Owed, MatchesOf, NoDebt
<1>2. IsFiniteSet(MatchesOf(p)')
  BY FS_Subset DEF MatchesOf, TypeInv, TypeOK
<1>3. Cardinality(RoomsOf(p)) + Cardinality(Owed(p)) <= Cardinality(MatchesOf(p))
  BY DEF RoomsInv
<1>4. Cardinality(RoomsOf(p)) \in Nat
  BY RoomsAreCountable
<1>5. Cardinality(Owed(p)') <= Cardinality(Owed(p)) /\ Cardinality(Owed(p)') \in Nat /\ Cardinality(Owed(p)) \in Nat
  BY <1>1, RoomsAreCountable, CountsLess
<1>6. /\ Cardinality(MatchesOf(p)) <= Cardinality(MatchesOf(p)')
      /\ Cardinality(MatchesOf(p)) \in Nat /\ Cardinality(MatchesOf(p)') \in Nat
  BY <1>1, <1>2, CountsLess
<1> QED
  BY <1>1, <1>3, <1>4, <1>5, <1>6

\* A transaction makes a match, and its call owes the room.
LEMMA ClaimKeepsRooms ==
  ASSUME TypeInv, TypeInv', GatewayTypes, SerialInv, RoomsInv, UNCHANGED rooms, NEW c \in Calls,
         matches' = matches \cup {NewMatch(call[c])}, Pair(call'[c]) = Pair(call[c]),
         \A d \in Calls : d # c => NoDebt(d)
  PROVE  RoomsInv'
<1> DEFINE m == NewMatch(call[c])
<1> SUFFICES ASSUME NEW p \in SUBSET Users
             PROVE  Cardinality(RoomsOf(p)') + Cardinality(Owed(p)') <= Cardinality(MatchesOf(p)')
  BY DEF RoomsInv, RoomsOf, Owed, MatchesOf
<1>1. m \notin matches /\ {m.by, m.with} = Pair(call[c])
  BY NewNumber, NewMatchFields DEF Pair
<1> HIDE DEF m
<1>2. RoomsOf(p)' = RoomsOf(p)
  BY DEF RoomsOf
<1>3. Cardinality(RoomsOf(p)) + Cardinality(Owed(p)) <= Cardinality(MatchesOf(p))
  BY DEF RoomsInv
<1>4. /\ Cardinality(RoomsOf(p)) \in Nat
      /\ IsFiniteSet(Owed(p)) /\ Cardinality(Owed(p)) \in Nat
      /\ IsFiniteSet(MatchesOf(p)) /\ Cardinality(MatchesOf(p)) \in Nat
  BY RoomsAreCountable
<1>5. CASE p = Pair(call[c])
  <2>1. Owed(p)' \subseteq Owed(p) \cup {c}
    BY DEF Owed, NoDebt
  <2>2. MatchesOf(p)' = MatchesOf(p) \cup {m} /\ m \notin MatchesOf(p)
    BY <1>1, <1>5 DEF MatchesOf, m
  <2>3. Cardinality(MatchesOf(p)') = Cardinality(MatchesOf(p)) + 1
    BY <1>4, <2>2, FS_AddElement
  <2>4. IsFiniteSet(Owed(p) \cup {c}) /\ Cardinality(Owed(p) \cup {c}) <= Cardinality(Owed(p)) + 1
    <3>1. CASE c \in Owed(p)
      <4>1. Owed(p) \cup {c} = Owed(p)
        BY <3>1
      <4>2. Cardinality(Owed(p)) <= Cardinality(Owed(p)) + 1
        BY <1>4
      <4> QED
        BY <1>4, <4>1, <4>2
    <3>2. CASE c \notin Owed(p)
      <4>1. IsFiniteSet(Owed(p) \cup {c}) /\ Cardinality(Owed(p) \cup {c}) = Cardinality(Owed(p)) + 1
        BY <1>4, <3>2, FS_AddElement
      <4>2. Cardinality(Owed(p)) + 1 <= Cardinality(Owed(p)) + 1
        BY <1>4
      <4> QED
        BY <4>1, <4>2
    <3> QED
      BY <3>1, <3>2
  <2>5. Cardinality(Owed(p)') <= Cardinality(Owed(p)) + 1 /\ Cardinality(Owed(p)') \in Nat
    BY <1>4, <2>1, <2>4, CountsLess
  <2> QED
    BY <1>2, <1>3, <1>4, <2>3, <2>5
<1>6. CASE p # Pair(call[c])
  <2>1. Owed(p)' \subseteq Owed(p)
    BY <1>6 DEF Owed, NoDebt
  <2>2. MatchesOf(p)' = MatchesOf(p)
    BY <1>1, <1>6 DEF MatchesOf, m
  <2>3. Cardinality(Owed(p)') <= Cardinality(Owed(p)) /\ Cardinality(Owed(p)') \in Nat
    BY <1>4, <2>1, CountsLess
  <2> QED
    BY <1>2, <1>3, <1>4, <2>2, <2>3
<1> QED
  BY <1>5, <1>6

\* createRoom pays what the handler owes.
LEMMA RoomIsPaid ==
  ASSUME TypeInv, GatewayTypes, RoomsInv, NEW c \in Calls,
         call[c].res = "matched", task[c].stage # "store", Pair(call[c]) \in SUBSET Users,
         rooms' = Append(rooms, Pair(call[c])), matches' = matches,
         call'[c].res # "matched" \/ task'[c].stage = "store",
         \A d \in Calls : d # c => NoDebt(d)
  PROVE  RoomsInv'
<1> DEFINE n == Len(rooms) + 1
<1> SUFFICES ASSUME NEW p \in SUBSET Users
             PROVE  Cardinality(RoomsOf(p)') + Cardinality(Owed(p)') <= Cardinality(MatchesOf(p)')
  BY DEF RoomsInv, RoomsOf, Owed, MatchesOf
<1>1. MatchesOf(p)' = MatchesOf(p)
  BY DEF MatchesOf
<1>2. Cardinality(RoomsOf(p)) + Cardinality(Owed(p)) <= Cardinality(MatchesOf(p))
  BY DEF RoomsInv
<1>3. /\ IsFiniteSet(RoomsOf(p)) /\ Cardinality(RoomsOf(p)) \in Nat
      /\ IsFiniteSet(Owed(p)) /\ Cardinality(Owed(p)) \in Nat
      /\ Cardinality(MatchesOf(p)) \in Nat
  BY RoomsAreCountable
<1>4. /\ Len(rooms) \in Nat /\ DOMAIN rooms = 1..Len(rooms) /\ DOMAIN rooms' = 1..n
      /\ \A i \in 1..Len(rooms) : rooms'[i] = rooms[i]
      /\ rooms'[n] = Pair(call[c])
  BY NewRoom
<1>5. CASE p = Pair(call[c])
  <2>1. RoomsOf(p)' = RoomsOf(p) \cup {n} /\ n \notin RoomsOf(p)
    BY <1>4, <1>5 DEF RoomsOf
  <2>2. Cardinality(RoomsOf(p)') = Cardinality(RoomsOf(p)) + 1
    BY <1>3, <2>1, FS_AddElement
  <2>3. c \in Owed(p) /\ Owed(p)' \subseteq Owed(p) \ {c}
    BY <1>5 DEF Owed, NoDebt
  <2>4. Cardinality(Owed(p) \ {c}) = Cardinality(Owed(p)) - 1 /\ IsFiniteSet(Owed(p) \ {c})
    BY <1>3, <2>3, FS_RemoveElement
  <2>5. Cardinality(Owed(p)') <= Cardinality(Owed(p)) - 1 /\ Cardinality(Owed(p)') \in Nat
    BY <2>3, <2>4, CountsLess
  <2> QED
    BY <1>1, <1>2, <1>3, <2>2, <2>5
<1>6. CASE p # Pair(call[c])
  <2>1. RoomsOf(p)' = RoomsOf(p)
    BY <1>4, <1>6 DEF RoomsOf
  <2>2. Owed(p)' \subseteq Owed(p)
    BY <1>6 DEF Owed, NoDebt
  <2>3. Cardinality(Owed(p)') <= Cardinality(Owed(p)) /\ Cardinality(Owed(p)') \in Nat
    BY <1>3, <2>2, CountsLess
  <2> QED
    BY <1>1, <1>2, <1>3, <2>1, <2>3
<1> QED
  BY <1>5, <1>6

-----------------------------------------------------------------------------
(* Which effect each action of the gateway has *)

LEMMA TaskSet ==
  ASSUME GatewayTypes, NEW c \in Calls, NEW t \in Tasks, task' = [task EXCEPT ![c] = t]
  PROVE  task' \in [Calls -> Tasks] /\ task'[c] = t /\ \A d \in Calls : d # c => task'[d] = task[d]
BY DEF GatewayTypes, Tasks

LEMMA TaskAwaits ==
  ASSUME GatewayTypes, NEW c \in Calls, NEW st \in Stages, Await(c, st)
  PROVE  /\ task' \in [Calls -> Tasks] /\ \A d \in Calls : d # c => task'[d] = task[d]
         /\ task'[c].stage = st /\ task'[c].kind = task[c].kind
         /\ task'[c].sock = task[c].sock /\ task'[c].room = task[c].room
BY DEF GatewayTypes, Await, Tasks

LEMMA NoTaskType == NoTask \in Tasks
BY DEF NoTask, Tasks, Kinds, Stages

LEMMA NoNews == ASSUME told' = told PROVE News({}, 0)
BY DEF News

LEMMA EventNews ==
  ASSUME NEW s, NEW what \in {"match", "timeout"}, NEW r, NEW e \in Event(s, what, r)
  PROVE  /\ e \in [sock : Sockets, what : {"match", "timeout"}, room : {0, r}]
         /\ e.sock = s /\ e.what = what /\ e.room = r /\ s \in Sockets
BY DEF Event

\* The announcement of one room on one or two sockets.
LEMMA MatchNews ==
  ASSUME NEW s, NEW t, NEW r, told' = told \cup Event(s, "match", r) \cup Event(t, "match", r)
  PROVE  News({SocketUser[s], SocketUser[t]}, r)
<1>1. ASSUME NEW e \in told' \ told
      PROVE  /\ e \in [sock : Sockets, what : {"match", "timeout"}, room : {0, r}]
             /\ SocketUser[e.sock] \in {SocketUser[s], SocketUser[t]} /\ e.room = r
  <2>1. e \in Event(s, "match", r) \/ e \in Event(t, "match", r)
    BY <1>1
  <2> QED
    BY <2>1, EventNews
<1> QED
  BY <1>1 DEF News

LEMMA MatchNewsOnce ==
  ASSUME NEW s, NEW r, told' = told \cup Event(s, "match", r)
  PROVE  News({SocketUser[s]}, r)
<1>1. told' = told \cup Event(s, "match", r) \cup Event(s, "match", r)
  OBVIOUS
<1>2. News({SocketUser[s], SocketUser[s]}, r)
  BY <1>1, MatchNews
<1>3. {SocketUser[s], SocketUser[s]} = {SocketUser[s]}
  OBVIOUS
<1> QED
  BY <1>2, <1>3

\* A task takes a free slot, with a call of the service or without.
LEMMA TaskBegins ==
  ASSUME TypeInv, GatewayTypes, NEW c \in Calls, Free(c), NEW t \in Tasks, task' = [task EXCEPT ![c] = t],
         t.stage \in {"service", "consume"}, t.kind # "rest" => t.sock \in Sockets,
         t.stage = "consume" => t.kind = "sync",
         UNCHANGED <<rooms, pending, told>>,
         Start(c) \/ UNCHANGED vars
  PROVE  Proceeds(c) /\ NoDebt(c) /\ matches' = matches
<1>1. task' \in [Calls -> Tasks] /\ task'[c] = t /\ \A d \in Calls : d # c => task'[d] = task[d]
  BY TaskSet
<1>2. /\ matches' = matches /\ \A d \in Calls : d # c => call'[d] = call[d]
      /\ call'[c].res # "matched" \/ call'[c] = call[c]
  BY StartBegins DEF vars
<1>3. NoDebt(c)
  BY <1>1, <1>2 DEF NoDebt, Free, NoTask
<1>4. Wired(c)'
  BY <1>1 DEF Wired
<1> QED
  BY <1>1, <1>2, <1>3, <1>4, NoNews DEF Proceeds, Alone

LEMMA ClientEffect ==
  ASSUME TypeInv, GatewayTypes, NEW c \in Calls, Client(c) \/ \E u \in Users : Tick(c, u)
  PROVE  Proceeds(c) /\ NoDebt(c) /\ matches' = matches
<1> DEFINE T(k, s, st) == [NoTask EXCEPT !.kind = k, !.sock = s, !.stage = st]
           rest == [NoTask EXCEPT !.kind = "rest", !.stage = "service"]
           Takes(t) == /\ Free(c) /\ task' = [task EXCEPT ![c] = t]
                       /\ UNCHANGED <<rooms, pending, told>>
           Sound(t) == /\ t \in Tasks /\ t.stage \in {"service", "consume"}
                       /\ t.kind # "rest" => t.sock \in Sockets
                       /\ t.stage = "consume" => t.kind = "sync"
<1>1. ASSUME NEW k \in {"join", "leave", "disconnect", "tick"}, NEW s \in Sockets
      PROVE  Sound(T(k, s, "service")) /\ Sound(T("sync", s, "consume"))
  BY DEF NoTask, Tasks, Kinds, Stages
<1>2. Sound(rest)
  BY DEF NoTask, Tasks, Kinds, Stages
<1>3. Start(c) \/ UNCHANGED vars
  BY ClientIsServiceStep DEF Begins
<1>4. \E t : Takes(t) /\ Sound(t)
  <2>1. ASSUME NEW s \in Sockets, NEW dto, WsJoin(c, s, dto) PROVE Takes(T("join", s, "service"))
    BY <2>1 DEF WsJoin
  <2>2. ASSUME NEW s \in Sockets, WsSync(c, s) PROVE Takes(T("sync", s, "consume"))
    BY <2>2 DEF WsSync
  <2>3. ASSUME NEW s \in Sockets, WsLeave(c, s) PROVE Takes(T("leave", s, "service"))
    BY <2>3 DEF WsLeave
  <2>4. ASSUME NEW s \in Sockets, Disconnect(c, s) PROVE Takes(T("disconnect", s, "service"))
    BY <2>4 DEF Disconnect
  <2>5. ASSUME NEW u \in Users, NEW dto, RestJoin(c, u, dto) \/ RestLeave(c, u) \/ RestStatus(c, u) PROVE Takes(rest)
    BY <2>5 DEF RestJoin, RestLeave, RestStatus, RestTask
  <2>6. ASSUME NEW u \in Users, Tick(c, u) PROVE timer[u] \in Sockets /\ Takes(T("tick", timer[u], "service"))
    BY <2>6 DEF Tick, GatewayTypes
  <2> HIDE DEF T, rest, Takes, Sound
  <2> QED
    BY <1>1, <1>2, <2>1, <2>2, <2>3, <2>4, <2>5, <2>6 DEF Client
<1> HIDE DEF T, rest
<1> QED
  BY <1>3, <1>4, TaskBegins

\* A handler that ends owes nothing.
LEMMA FinishEffect ==
  ASSUME TypeInv, GatewayTypes, WireInv, NEW c \in Calls, Finish(c)
  PROVE  /\ Alone(c) /\ task'[c] = NoTask /\ Wired(c)' /\ NoDebt(c) /\ matches' = matches
         /\ Settled(c) => call'[c].res = "none"
<1>1. /\ task'[c] = NoTask /\ matches' = matches
      /\ \A d \in Calls : d # c => call'[d] = call[d] /\ task'[d] = task[d]
      /\ IF Settled(c) THEN call'[c].res = "none" ELSE call'[c] = call[c]
  BY FinishFrame DEF vars
<1>2. task' \in [Calls -> Tasks]
  BY TaskSet, NoTaskType DEF Finish
<1>3. ~Settled(c) => task[c].stage # "store"
  BY DEF WireInv, Wired
<1> QED
  BY <1>1, <1>2, <1>3, NoTaskIsWired DEF Alone, NoDebt

\* A handler makes the next call for its user.
LEMMA NextCallEffect ==
  ASSUME TypeInv, GatewayTypes, WireInv, NEW c \in Calls, NEW st \in {"service", "status", "leave", "match"},
         Await(c, st), task[c].kind \in {"join", "sync", "tick"},
         LET u == SocketUser[task[c].sock] IN
           \/ \E sid \in Sids : UpdateSocketId(c, u, sid)
           \/ LeaveQueue(c, u) \/ GetStatus(c, u) \/ TryAtomicMatch(c, u)
  PROVE  Alone(c) /\ Wired(c)' /\ NoDebt(c) /\ matches' = matches /\ task'[c].stage = st
<1>1. /\ task' \in [Calls -> Tasks] /\ \A d \in Calls : d # c => task'[d] = task[d]
      /\ task'[c].stage = st /\ task'[c].kind = task[c].kind /\ task'[c].sock = task[c].sock
  BY TaskAwaits DEF Stages
<1>2. task[c].sock \in Sockets /\ SocketUser[task[c].sock] \in Users
  BY TaskFacts
<1>3. /\ call'[c].user = SocketUser[task[c].sock] /\ call'[c].res # "matched" /\ matches' = matches
      /\ \A d \in Calls : d # c => call'[d] = call[d]
  BY <1>2, OperationBegins
<1>4. Wired(c)'
  BY <1>1, <1>2, <1>3 DEF Wired
<1> QED
  BY <1>1, <1>3, <1>4 DEF Alone, NoDebt

LEMMA JoinAndSyncEffect ==
  ASSUME TypeInv, GatewayTypes, WireInv, NEW c \in Calls,
         JoinDone(c) \/ SyncConsume(c) \/ SyncConsumed(c) \/ SyncUpdated(c) \/ SyncDone(c)
  PROVE  HandlerEffect(c) /\ NoDebt(c) /\ matches' = matches
<1> DEFINE s == task[c].sock
           u == SocketUser[s]
<1>1. CASE JoinDone(c)
  <2>1. Finish(c) \/ (Await(c, "match") /\ TryAtomicMatch(c, u))
    BY <1>1 DEF JoinDone
  <2>2. Alone(c) /\ Wired(c)' /\ NoDebt(c) /\ matches' = matches /\ task'[c].stage \in {"none", "match"}
    BY <1>1, <2>1, FinishEffect, NextCallEffect DEF JoinDone, Stage, NoTask
  <2>3. News({}, 0) /\ UNCHANGED <<rooms, pending>>
    BY <1>1, NoNews DEF JoinDone
  <2> QED
    BY <2>2, <2>3 DEF HandlerEffect, Proceeds
<1>2. CASE SyncConsume(c)
  <2>1. News({}, 0) /\ UNCHANGED <<rooms, pending>> /\ Stage(c, "sync", "consume")
    BY <1>2, NoNews DEF SyncConsume
  <2>2. s \in Sockets /\ u \in Users
    BY <2>1, TaskFacts DEF Stage
  <2>3. CASE Await(c, "service") /\ UpdateSocketId(c, u, s)
    <3>1. s \in Sids
      BY <2>1, TaskFacts DEF Stage
    <3>2. Alone(c) /\ Wired(c)' /\ NoDebt(c) /\ matches' = matches /\ task'[c].stage = "service"
      BY <2>1, <2>3, <3>1, NextCallEffect DEF Stage
    <3> QED
      BY <2>1, <3>2 DEF HandlerEffect, Proceeds
  <2>4. CASE pending[u] # 0 /\ UNCHANGED vars /\ task' = [task EXCEPT ![c].stage = "consumed", ![c].room = pending[u]]
    <3>1. pending[u] \in 1..Len(rooms) /\ pending[u] \in Nat
      BY <2>2, <2>4, RoomCount DEF GatewayTypes
    <3>2. /\ task' \in [Calls -> Tasks] /\ \A d \in Calls : d # c => task'[d] = task[d]
          /\ task'[c].stage = "consumed" /\ task'[c].room = pending[u]
          /\ task'[c].kind = task[c].kind /\ task'[c].sock = s
      BY <2>4, <3>1 DEF GatewayTypes, Tasks, Stages
    <3>3. call' = call /\ matches' = matches /\ rooms' = rooms
      BY <2>1, <2>4 DEF vars
    <3>4. Alone(c) /\ NoDebt(c)
      BY <2>1, <3>2, <3>3 DEF Alone, NoDebt, Stage
    <3>5. Wired(c)'
      BY <2>1, <2>2, <3>1, <3>2, <3>3 DEF Wired, Stage
    <3> QED
      BY <2>1, <2>4, <3>2, <3>3, <3>4, <3>5 DEF HandlerEffect, Consumes
  <2> QED
    BY <1>2, <2>3, <2>4 DEF SyncConsume
<1>3. CASE SyncConsumed(c)
  <2>1. /\ task[c].stage = "consumed" /\ pending' = [pending EXCEPT ![u] = 0]
        /\ told' = told \cup Event(s, "match", task[c].room) /\ Finish(c) /\ UNCHANGED rooms
    BY <1>3 DEF SyncConsumed, Stage, Emit
  <2>2. News({u}, task[c].room)
    BY <2>1, MatchNewsOnce
  <2> QED
    BY <2>1, <2>2, FinishEffect DEF HandlerEffect, HandsOver
<1>4. CASE SyncUpdated(c)
  <2>1. Finish(c) \/ (Await(c, "status") /\ GetStatus(c, u))
    BY <1>4 DEF SyncUpdated
  <2>2. Alone(c) /\ Wired(c)' /\ NoDebt(c) /\ matches' = matches /\ task'[c].stage \in {"none", "status"}
    BY <1>4, <2>1, FinishEffect, NextCallEffect DEF SyncUpdated, Stage, NoTask
  <2>3. News({}, 0) /\ UNCHANGED <<rooms, pending>>
    BY <1>4, NoNews DEF SyncUpdated
  <2> QED
    BY <2>2, <2>3 DEF HandlerEffect, Proceeds
<1>5. CASE SyncDone(c)
  <2>1. Finish(c) \/ (Await(c, "match") /\ TryAtomicMatch(c, u))
    BY <1>5 DEF SyncDone
  <2>2. Alone(c) /\ Wired(c)' /\ NoDebt(c) /\ matches' = matches /\ task'[c].stage \in {"none", "match"}
    BY <1>5, <2>1, FinishEffect, NextCallEffect DEF SyncDone, Stage, NoTask
  <2>3. told' = told \/ told' = told \cup Event(s, "timeout", 0)
    BY <1>5 DEF SyncDone
  <2>4. News({}, 0)
    BY <2>3, EventNews DEF News
  <2>5. UNCHANGED <<rooms, pending>>
    BY <1>5 DEF SyncDone
  <2> QED
    BY <2>2, <2>4, <2>5 DEF HandlerEffect, Proceeds
<1> QED
  BY <1>1, <1>2, <1>3, <1>4, <1>5

LEMMA TickAndLeaveEffect ==
  ASSUME TypeInv, GatewayTypes, WireInv, NEW c \in Calls, LeaveDone(c) \/ TickDone(c) \/ MatchDone(c)
  PROVE  HandlerEffect(c) /\ NoDebt(c) /\ matches' = matches
<1> DEFINE s == task[c].sock
           u == SocketUser[s]
<1>1. CASE LeaveDone(c)
  <2>1. Finish(c) /\ UNCHANGED <<rooms, pending, told>>
    BY <1>1 DEF LeaveDone
  <2> QED
    BY <2>1, FinishEffect, NoNews DEF HandlerEffect, Proceeds, NoTask
<1>2. CASE TickDone(c)
  <2>1. Finish(c) \/ (Await(c, "match") /\ TryAtomicMatch(c, u)) \/ (Await(c, "leave") /\ LeaveQueue(c, u))
    BY <1>2 DEF TickDone
  <2>2. Alone(c) /\ Wired(c)' /\ NoDebt(c) /\ matches' = matches /\ task'[c].stage \in {"none", "match", "leave"}
    BY <1>2, <2>1, FinishEffect, NextCallEffect DEF TickDone, Stage, NoTask
  <2>3. told' = told \/ told' = told \cup Event(s, "timeout", 0)
    BY <1>2 DEF TickDone, Emit
  <2>4. News({}, 0)
    BY <2>3, EventNews DEF News
  <2>5. UNCHANGED <<rooms, pending>>
    BY <1>2 DEF TickDone
  <2> QED
    BY <2>2, <2>4, <2>5 DEF HandlerEffect, Proceeds
<1>3. CASE MatchDone(c)
  <2>1. News({}, 0) /\ UNCHANGED <<rooms, pending>> /\ task[c].stage = "match" /\ Settled(c)
    BY <1>3, NoNews DEF MatchDone
  <2>2. CASE Finish(c)
    BY <2>1, <2>2, FinishEffect DEF HandlerEffect, Proceeds, NoTask
  <2>3. CASE call[c].res = "matched" /\ Await(c, "room") /\ UNCHANGED vars
    <3>1. /\ task' \in [Calls -> Tasks] /\ \A d \in Calls : d # c => task'[d] = task[d]
          /\ task'[c].stage = "room" /\ task'[c].kind = task[c].kind /\ task'[c].sock = s
      BY <2>3, TaskAwaits DEF Stages
    <3>2. call' = call /\ matches' = matches
      BY <2>3 DEF vars
    <3>3. Alone(c) /\ NoDebt(c)
      BY <2>1, <3>1, <3>2 DEF Alone, NoDebt
    <3>4. Wired(c)'
      BY <2>1, <2>3, <3>1, <3>2 DEF WireInv, Wired, Settled, At
    <3> QED
      BY <2>1, <3>1, <3>2, <3>3, <3>4 DEF HandlerEffect, Proceeds
  <2> QED
    BY <1>3, <2>2, <2>3 DEF MatchDone
<1> QED
  BY <1>1, <1>2, <1>3

LEMMA RoomEffect ==
  ASSUME TypeInv, GatewayTypes, WireInv, MatchedInv, SidInv, NEW c \in Calls,
         RoomCreated(c) \/ PendingStored(c) \/ HandlerFails(c) \/ HandlerLosesReply(c)
  PROVE  HandlerEffect(c) /\ NoDebt(c) /\ matches' = matches
<1> DEFINE s == task[c].sock
           u == SocketUser[s]
           partner == call[c].cand
           sid == call[c].theirs.sid
           room == Len(rooms) + 1
<1>1. room \in Nat
  BY RoomCount
<1>2. CASE RoomCreated(c)
  <2>1. /\ task[c].stage = "room" /\ rooms' = Append(rooms, {u, partner}) /\ UNCHANGED pending
    BY <1>2 DEF RoomCreated
  <2>2. CASE /\ told' = told \cup Event(s, "match", room)
             /\ task' = [task EXCEPT ![c].stage = "store", ![c].room = room]
             /\ UNCHANGED vars
    <3>1. News({u}, room)
      BY <2>2, MatchNewsOnce
    <3> HIDE DEF room
    <3>2. /\ task' \in [Calls -> Tasks] /\ \A d \in Calls : d # c => task'[d] = task[d]
          /\ task'[c].stage = "store" /\ task'[c].room = room
          /\ task'[c].kind = task[c].kind /\ task'[c].sock = s
      BY <1>1, <2>2 DEF GatewayTypes, Tasks, Stages
    <3>3. call' = call /\ matches' = matches
      BY <2>2 DEF vars
    <3>4. Alone(c) /\ NoDebt(c)
      BY <3>2, <3>3 DEF Alone, NoDebt
    <3> QED
      BY <2>1, <3>1, <3>2, <3>3, <3>4 DEF HandlerEffect, Creates, room
  <2>3. CASE /\ told' = told \cup Event(s, "match", room) \cup Event(sid, "match", room)
             /\ sid # Pending
             /\ Finish(c)
    <3>1. SocketUser[sid] = partner
      BY <2>1, <2>3, RoomFacts DEF SidInv, Carries, OwnSid
    <3>2. News({u, partner}, room)
      BY <2>3, <3>1, MatchNews
    <3>3. Alone(c) /\ task'[c] = NoTask /\ NoDebt(c) /\ matches' = matches /\ call'[c].res = "none"
      BY <2>1, <2>3, FinishEffect, RoomFacts
    <3> QED
      BY <2>1, <3>2, <3>3 DEF HandlerEffect, Creates
  <2> QED
    BY <1>2, <2>2, <2>3 DEF RoomCreated, Emit
<1>3. CASE PendingStored(c)
  <2>1. /\ task[c].stage = "store" /\ pending' = [pending EXCEPT ![partner] = task[c].room] /\ Finish(c)
        /\ News({}, 0) /\ UNCHANGED rooms
    BY <1>3, NoNews DEF PendingStored
  <2> QED
    BY <2>1, FinishEffect DEF HandlerEffect, Stores
<1>4. CASE HandlerFails(c)
  <2>1. Finish(c) /\ UNCHANGED <<rooms, pending, told>>
    BY <1>4 DEF HandlerFails
  <2> QED
    BY <2>1, FinishEffect, NoNews DEF HandlerEffect, Proceeds, NoTask
<1>5. CASE HandlerLosesReply(c)
  <2>1. Finish(c) /\ told' = told
    BY <1>5 DEF HandlerLosesReply
  <2>2. \A us, r : News(us, r)
    BY <2>1 DEF News
  <2>3. CASE task[c].stage = "room" /\ rooms' = Append(rooms, {u, partner}) /\ UNCHANGED pending
    BY <2>1, <2>2, <2>3, FinishEffect, RoomFacts DEF HandlerEffect, Creates
  <2>4. CASE task[c].stage = "consumed" /\ pending' = [pending EXCEPT ![u] = 0] /\ UNCHANGED rooms
    BY <2>1, <2>2, <2>4, FinishEffect DEF HandlerEffect, HandsOver
  <2> QED
    BY <1>5, <2>3, <2>4 DEF HandlerLosesReply
<1> QED
  BY <1>2, <1>3, <1>4, <1>5

\* The sockets and timers of a step of the gateway.
LEMMA SocketTimerTypes ==
  ASSUME TypeInv, GatewayTypes, WireInv, MatchedInv, NEW c \in Calls,
         Client(c) \/ (\E u \in Users : Tick(c, u)) \/ Handler(c) \/ HandlerFails(c) \/ HandlerLosesReply(c)
  PROVE  socket' \in [Sockets -> {"new", "on", "off"}] /\ timer' \in [Users -> Sockets \cup {None}] /\ handlerFaults' \in Nat
<1>1. CASE Client(c)
  <2>1. handlerFaults' = handlerFaults
    BY <1>1 DEF Client, WsJoin, WsSync, WsLeave, Disconnect, RestJoin, RestLeave, RestStatus
  <2>2. timer' = timer \/ \E u : ClearTimer(u)
    BY <1>1 DEF Client, WsJoin, WsSync, WsLeave, Disconnect, RestJoin, RestLeave, RestStatus
  <2>3. socket' = socket \/ \E s : socket' = [socket EXCEPT ![s] = "off"]
    BY <1>1 DEF Client, WsJoin, WsSync, WsLeave, Disconnect, RestJoin, RestLeave, RestStatus
  <2> QED
    BY <2>1, <2>2, <2>3 DEF GatewayTypes, ClearTimer
<1>2. CASE \E u \in Users : Tick(c, u)
  BY <1>2 DEF Tick, GatewayTypes
<1>3. CASE Handler(c)
  <2>1. UNCHANGED <<socket, handlerFaults>>
    BY <1>3 DEF Handler, JoinDone, SyncConsume, SyncConsumed, SyncUpdated, SyncDone, LeaveDone, TickDone, MatchDone,
                RoomCreated, PendingStored
  <2>2. timer' = timer \/ (\E u : ClearTimer(u)) \/ \E u : \E s \in Sockets : timer' = [timer EXCEPT ![u] = s]
    <3>1. CASE JoinDone(c) \/ SyncDone(c)
      <4>1. task[c].sock \in Sockets
        BY <3>1, TaskFacts DEF JoinDone, SyncDone, Stage
      <4> QED
        BY <3>1, <4>1 DEF JoinDone, SyncDone
    <3>2. CASE ~(JoinDone(c) \/ SyncDone(c))
      BY <1>3, <3>2 DEF Handler, SyncConsume, SyncConsumed, SyncUpdated, LeaveDone, TickDone, MatchDone,
                        RoomCreated, PendingStored
    <3> QED
      BY <3>1, <3>2
  <2> QED
    BY <2>1, <2>2 DEF GatewayTypes, ClearTimer
<1>4. CASE HandlerFails(c) \/ HandlerLosesReply(c)
  BY <1>4 DEF HandlerFails, HandlerLosesReply, HandlerFault, GatewayTypes
<1> QED
  BY <1>1, <1>2, <1>3, <1>4

\* Every effect keeps the other variables of the gateway well-typed.
LEMMA EffectTypes ==
  ASSUME TypeInv, GatewayTypes, WireInv, MatchedInv, NEW c \in Calls, HandlerEffect(c),
         socket' \in [Sockets -> {"new", "on", "off"}], timer' \in [Users -> Sockets \cup {None}], handlerFaults' \in Nat
  PROVE  GatewayTypes'
<1> DEFINE n == Len(rooms)
           m == Len(rooms')
           Events(k) == [sock : Sockets, what : {"match", "timeout"}, room : 0..k]
<1>1. n \in Nat /\ pending \in [Users -> 0..n] /\ told \subseteq Events(n)
  BY RoomCount DEF GatewayTypes
<1>2. task' \in [Calls -> Tasks]
  BY DEF HandlerEffect, Proceeds, Consumes, HandsOver, Creates, Stores, Alone
<1>3. rooms' \in Seq(SUBSET Users) /\ m \in Nat /\ n <= m /\ (rooms' # rooms => m = n + 1)
  <2>1. CASE Creates(c)
    <3>1. rooms' = Append(rooms, {SocketUser[task[c].sock], call[c].cand})
      BY <2>1 DEF Creates
    <3>2. {SocketUser[task[c].sock], call[c].cand} \in SUBSET Users
      BY <2>1, RoomFacts DEF Creates
    <3>3. rooms' \in Seq(SUBSET Users) /\ m \in Nat /\ m = n + 1
      BY <3>1, <3>2, NewRoom
    <3> QED
      BY <1>1, <3>3
  <2>2. CASE ~Creates(c)
    <3>1. rooms' = rooms
      BY <2>2 DEF HandlerEffect, Proceeds, Consumes, HandsOver, Stores
    <3> QED
      BY <1>1, <3>1 DEF GatewayTypes
  <2> QED
    BY <2>1, <2>2
<1>4. \E r \in 0..m : \E us : News(us, r)
  <2>1. CASE Proceeds(c) \/ Consumes(c) \/ Stores(c)
    BY <1>3, <2>1 DEF Proceeds, Consumes, Stores
  <2>2. CASE HandsOver(c)
    <3>1. task[c].room \in 1..n
      BY <2>2 DEF HandsOver, WireInv, Wired
    <3>2. task[c].room \in 0..m
      BY <1>1, <1>3, <3>1
    <3> QED
      BY <2>2, <3>2 DEF HandsOver
  <2>3. CASE Creates(c)
    <3>1. \E us : News(us, n + 1)
      BY <2>3 DEF Creates
    <3>2. rooms' = Append(rooms, {SocketUser[task[c].sock], call[c].cand})
      BY <2>3 DEF Creates
    <3>3. {SocketUser[task[c].sock], call[c].cand} \in SUBSET Users
      BY <2>3, RoomFacts DEF Creates
    <3>4. m = n + 1 /\ m \in 0..m
      BY <1>3, <3>2, <3>3, NewRoom
    <3> QED
      BY <3>1, <3>4
  <2> QED
    BY <2>1, <2>2, <2>3 DEF HandlerEffect
<1>5. pending' \in [Users -> 0..m]
  <2>1. pending \in [Users -> 0..m] /\ 0 \in 0..m
    BY <1>1, <1>3
  <2>2. CASE HandsOver(c)
    BY <2>1, <2>2 DEF HandsOver
  <2>3. CASE Stores(c)
    <3>1. task[c].room \in 1..n
      BY <2>3 DEF Stores, WireInv, Wired
    <3>2. task[c].room \in 0..m
      BY <1>1, <1>3, <3>1
    <3> QED
      BY <2>1, <2>3, <3>2 DEF Stores
  <2> QED
    BY <2>1, <2>2, <2>3 DEF HandlerEffect, Proceeds, Consumes, Creates
<1>6. told' \subseteq Events(m)
  <2>1. PICK r \in 0..m : \E us : News(us, r)
    BY <1>4
  <2>2. told' \subseteq told \cup [sock : Sockets, what : {"match", "timeout"}, room : {0, r}]
    BY <2>1 DEF News
  <2>3. 0..n \subseteq 0..m /\ {0, r} \subseteq 0..m
    BY <1>1, <1>3, <2>1
  <2>4. Events(n) \subseteq Events(m) /\ [sock : Sockets, what : {"match", "timeout"}, room : {0, r}] \subseteq Events(m)
    <3> HIDE DEF n, m
    <3> QED
      BY <2>3
  <2> HIDE DEF Events, n, m
  <2> QED
    BY <1>1, <2>2, <2>4
<1> HIDE DEF n
<1> QED
  BY <1>2, <1>3, <1>5, <1>6 DEF GatewayTypes, Tasks

\* The invariants of the gateway through a step of one handler.
LEMMA EffectKeeps ==
  ASSUME TypeInv, TypeInv', MatchedInv, GatewayInv, NEW c \in Calls, HandlerEffect(c), NoDebt(c), matches' = matches,
         socket' \in [Sockets -> {"new", "on", "off"}], timer' \in [Users -> Sockets \cup {None}], handlerFaults' \in Nat
  PROVE  GatewayInv'
<1>1. GatewayTypes' /\ WireInv' /\ UnreadInv' /\ MembersInv'
  BY EffectTypes, WireStep, UnreadStep, MembersStep DEF GatewayInv
<1>2. \A d \in Calls : NoDebt(d)
  BY DEF HandlerEffect, Proceeds, Consumes, HandsOver, Creates, Stores, Alone, NoDebt
<1>3. RoomsInv'
  <2>1. CASE Creates(c)
    <3>1. /\ call[c].res = "matched" /\ task[c].stage # "store" /\ Pair(call[c]) \in SUBSET Users
          /\ rooms' = Append(rooms, Pair(call[c]))
      BY <2>1, RoomFacts DEF Creates, GatewayInv
    <3>2. call'[c].res # "matched" \/ task'[c].stage = "store"
      BY <2>1 DEF Creates
    <3> QED
      BY <1>2, <3>1, <3>2, RoomIsPaid DEF GatewayInv
  <2>2. CASE ~Creates(c)
    <3>1. UNCHANGED rooms
      BY <2>2 DEF HandlerEffect, Proceeds, Consumes, HandsOver, Stores
    <3> QED
      BY <1>2, <3>1, NoDebtKeepsRooms DEF GatewayInv
  <2> QED
    BY <2>1, <2>2
<1> QED
  BY <1>1, <1>3 DEF GatewayInv

\* While a call is in the service its handler waits.
LEMMA ServiceKeeps ==
  ASSUME TypeInv, TypeInv', SearchInv, MatchedInv, SerialInv, GatewayInv, NEW c \in Calls,
         Progress(c) \/ Throw(c) \/ LostReply(c), UNCHANGED gateway
  PROVE  GatewayInv'
<1>1. UNCHANGED <<socket, timer, task, rooms, pending, told, handlerFaults>>
  BY DEF gateway
<1>2. /\ ~Ready(c) /\ Continues(call[c], call'[c])
      /\ \A d \in Calls : d # c => call'[d] = call[d]
  BY CallGoesOn
<1>3. task[c].stage \notin {"room", "store"}
  BY <1>2 DEF GatewayInv, WireInv, Wired, Settled, At, Ready
<1>4. Wired(c)'
  BY <1>1, <1>2, <1>3 DEF GatewayInv, WireInv, Wired, Continues
<1>5. Alone(c)
  BY <1>1, <1>2 DEF Alone, GatewayInv, GatewayTypes, Tasks
<1>6. Proceeds(c)
  BY <1>1, <1>3, <1>4, <1>5, NoNews DEF Proceeds
<1>7. GatewayTypes' /\ WireInv' /\ UnreadInv' /\ MembersInv'
  BY <1>1, <1>6, EffectTypes, WireStep, UnreadStep, MembersStep DEF GatewayInv, GatewayTypes, HandlerEffect
<1>8. \A d \in Calls : d # c => NoDebt(d)
  BY <1>1, <1>2 DEF NoDebt
<1>9. RoomsInv'
  <2>1. CASE Progress(c) /\ call'[c].res = "matched" /\ ClaimExec(c)
    <3>1. Pair(call'[c]) = Pair(call[c]) /\ matches' = matches \cup {NewMatch(call[c])}
      BY <2>1, MatchedMove, MatchesFromClaims
    <3> QED
      BY <1>1, <1>8, <3>1, ClaimKeepsRooms DEF GatewayInv
  <2>2. CASE ~(Progress(c) /\ call'[c].res = "matched" /\ ClaimExec(c))
    <3>1. NoDebt(c)
      <4>1. CASE call'[c].res # "matched"
        BY <4>1 DEF NoDebt
      <4>2. CASE call'[c].res = "matched"
        <5>1. Progress(c)
          BY <4>2, FailingContinues
        <5> QED
          BY <1>3, <2>2, <4>2, <5>1, MatchedMove DEF NoDebt
      <4> QED
        BY <4>1, <4>2
    <3>2. matches \subseteq matches'
      BY MatchesFromClaims
    <3> QED
      BY <1>1, <1>8, <3>1, <3>2, NoDebtKeepsRooms DEF GatewayInv
  <2> QED
    BY <2>1, <2>2
<1> QED
  BY <1>7, <1>9 DEF GatewayInv

\* What happens outside the handlers: sockets come, stored matches expire, the
\* process dies.
LEMMA OutsideKeeps ==
  ASSUME TypeInv, TypeInv', MatchedInv, GatewayInv, UNCHANGED <<matches, rooms, told, handlerFaults>>,
         \A d \in Calls : \/ call'[d] = call[d] /\ task'[d] = task[d]
                          \/ call'[d].res # "matched" /\ task'[d] = NoTask,
         task' \in [Calls -> Tasks],
         pending' \in [Users -> 0..Len(rooms)], \A u \in Users : pending'[u] \in {0, pending[u]},
         socket' \in [Sockets -> {"new", "on", "off"}], timer' \in [Users -> Sockets \cup {None}]
  PROVE  GatewayInv'
<1>1. GatewayTypes'
  BY DEF GatewayInv, GatewayTypes, Tasks
<1>2. WireInv'
  <2> SUFFICES ASSUME NEW d \in Calls PROVE Wired(d)'
    BY DEF WireInv
  <2>1. CASE call'[d] = call[d] /\ task'[d] = task[d]
    BY <2>1 DEF GatewayInv, WireInv, Wired, Settled, At
  <2>2. CASE task'[d] = NoTask
    BY <2>2, NoTaskIsWired
  <2> QED
    BY <2>1, <2>2
<1>3. UnreadInv'
  <2>1. UnreadIsUntold'
    BY DEF GatewayInv, UnreadInv, UnreadIsUntold, ToldMatch
  <2>2. ASSUME NEW d \in Calls, task'[d].stage = "store" PROVE Unshared(d)'
    <3>1. call'[d] = call[d] /\ task'[d] = task[d]
      BY <2>2 DEF NoTask
    <3>2. Unshared(d) /\ task[d].stage = "store"
      BY <2>2, <3>1 DEF GatewayInv, UnreadInv
    <3>3. \A e \in Calls : task'[e].stage \in {"store", "consumed"} => task'[e] = task[e]
      BY DEF NoTask
    <3>4. call[d].cand \in Users /\ task[d].room # 0
      <4>1. task[d].room \in 1..Len(rooms) /\ call[d].res = "matched"
        BY <3>2 DEF GatewayInv, WireInv, Wired
      <4>2. 0 \notin 1..Len(rooms)
        OBVIOUS
      <4>3. call[d].cand \in Users
        BY <4>1 DEF MatchedInv, Holding
      <4> QED
        BY <4>1, <4>2, <4>3
    <3>5. pending'[call[d].cand] # task[d].room
      BY <3>2, <3>4 DEF Unshared
    <3> QED
      BY <3>1, <3>2, <3>3, <3>5 DEF Unshared, ToldMatch
  <2> QED
    BY <2>1, <2>2 DEF UnreadInv
<1>4. RoomsInv'
  <2>1. \A d \in Calls : NoDebt(d)
    BY DEF NoDebt
  <2> QED
    BY <2>1, NoDebtKeepsRooms DEF GatewayInv
<1>5. MembersInv'
  <2>1. OnlyMembersAreTold'
    BY DEF GatewayInv, MembersInv, OnlyMembersAreTold
  <2>2. \A d \in Calls : task'[d].stage \in {"store", "consumed"} => call'[d] = call[d] /\ task'[d] = task[d]
    BY DEF NoTask
  <2> QED
    BY <2>1, <2>2 DEF GatewayInv, MembersInv
<1> QED
  BY <1>1, <1>2, <1>3, <1>4, <1>5 DEF GatewayInv

LEMMA GatewayEnvironmentKeeps ==
  ASSUME TypeInv, TypeInv', MatchedInv, GatewayInv, GatewayEnvironment \/ (\E s \in Sockets : Connect(s)) \/ UNCHANGED allVars
  PROVE  GatewayInv'
<1>1. task \in [Calls -> Tasks] /\ pending \in [Users -> 0..Len(rooms)]
  BY DEF GatewayInv, GatewayTypes, Tasks
<1>2. CASE (Lapse \/ Age \/ \E u \in Users : RedisExpire(u)) /\ UNCHANGED gateway
  <2>1. call' = call /\ matches' = matches
    BY <1>2 DEF Lapse, LockLapse, PairLapse, Age, RedisExpire, history
  <2>2. UNCHANGED <<socket, timer, task, rooms, pending, told, handlerFaults>>
    BY <1>2 DEF gateway
  <2> QED
    BY <1>1, <2>1, <2>2, OutsideKeeps DEF GatewayInv, GatewayTypes
<1>3. CASE \E u \in Users : PendingExpires(u)
  <2>1. call' = call /\ matches' = matches /\ UNCHANGED <<socket, timer, task, rooms, told, handlerFaults>>
    BY <1>3 DEF PendingExpires, vars
  <2>2. pending' \in [Users -> 0..Len(rooms)] /\ \A u \in Users : pending'[u] \in {0, pending[u]}
    <3>1. 0 \in 0..Len(rooms)
      BY RoomCount DEF GatewayInv
    <3> QED
      BY <1>1, <1>3, <3>1 DEF PendingExpires
  <2> QED
    BY <1>1, <2>1, <2>2, OutsideKeeps DEF GatewayInv, GatewayTypes
<1>4. CASE ServerCrash
  <2>1. /\ matches' = matches /\ UNCHANGED <<rooms, pending, told, handlerFaults>>
        /\ task' = [c \in Calls |-> NoTask]
    BY <1>4 DEF ServerCrash, Crash, history
  <2>2. \A d \in Calls : call'[d].res # "matched" /\ task'[d] = NoTask
    BY <1>4, <2>1, CrashForgets DEF ServerCrash
  <2>3. task' \in [Calls -> Tasks]
    BY <2>1, NoTaskType
  <2>4. socket' \in [Sockets -> {"new", "on", "off"}] /\ timer' \in [Users -> Sockets \cup {None}]
    BY <1>4 DEF ServerCrash, GatewayInv, GatewayTypes
  <2> QED
    BY <1>1, <2>1, <2>2, <2>3, <2>4, OutsideKeeps
<1>5. CASE \E s \in Sockets : Connect(s)
  <2>1. call' = call /\ matches' = matches /\ UNCHANGED <<timer, task, rooms, pending, told, handlerFaults>>
    BY <1>5 DEF Connect, vars
  <2>2. socket' \in [Sockets -> {"new", "on", "off"}]
    BY <1>5 DEF Connect, GatewayInv, GatewayTypes
  <2> QED
    BY <1>1, <2>1, <2>2, OutsideKeeps DEF GatewayInv, GatewayTypes
<1>6. CASE UNCHANGED allVars
  <2>1. call' = call /\ matches' = matches /\ UNCHANGED <<socket, timer, task, rooms, pending, told, handlerFaults>>
    BY <1>6 DEF allVars, vars, gateway
  <2> QED
    BY <1>1, <2>1, OutsideKeeps DEF GatewayInv, GatewayTypes
<1> QED
  BY <1>2, <1>3, <1>4, <1>5, <1>6 DEF GatewayEnvironment

-----------------------------------------------------------------------------
(* Socket ids travel from the socket of a user to the partner's search      *)

CarryingLabels == WritingLabels \cup ClaimLabels

\* The steps that bring a call to a label at which it carries a socket id.
LEMMA Arrivals ==
  ASSUME TypeInv, NEW c \in Calls, Progress(c), call'[c].pc \in CarryingLabels
  PROVE  \/ JoinProfile(c) \/ JoinGet(c) \/ UpdateGet(c)
         \/ MatchCandidate(c) \/ ClaimLock(c) \/ ClaimGet(c) \/ ClaimExec(c)
<1> DEFINE f == call[c]
           g == call'[c]
<1>1. f \in Frame /\ WellFormed(f) /\ f.user \in Users
  BY CallGoesOn, BusyFrame DEF Ready, At
<1>2. ASSUME NEW h, Goto(c, h) PROVE h.pc \in CarryingLabels
  BY <1>2, GotoFrame
<1>3. ASSUME NEW h, h.pc \in {"ret", "idle", "j.zadd", "l.del", "l.zrem", "k.range", "k.get", "k.zrem", "k.del",
                              "s.get", "s.rank", "m.lock", "m.get", "m.blocks", "m.range", "m.cand", "m.zrem", "m.unlock"}
      PROVE  ~Goto(c, h)
  BY <1>2, <1>3 DEF CarryingLabels, WritingLabels, ClaimLabels
<1>4. ASSUME NEW r PROVE ~Goto(c, Reply(f, r))
  <2>1. Reply(f, r).pc = "ret"
    BY DEF Reply, Idle
  <2> QED
    BY <1>3, <2>1
<1>5. ASSUME NEW b \in {"s.get", "s.rank"} PROVE ~Goto(c, Cleanup(f, b))
  BY <1>1, <1>3, CleanupIsWellFormed
<1>6. ASSUME NEW b \in {"ret", "m.unlock"}, NEW r \in Results PROVE ~Goto(c, Leaving(f, b, r))
  BY <1>1, <1>3, LeavingIsWellFormed
<1>7. ASSUME NEW h \in Frame, h.user \in Users, h.own \in Entry PROVE ~Goto(c, NextCandidate(h))
  BY <1>3, <1>7, NextCandidateIsWellFormed
<1>8. ASSUME NEW h \in Frame, h.user \in Users, h.back \in {"s.get", "s.rank"} PROVE ~Goto(c, NextStale(h))
  BY <1>3, <1>8, NextStaleIsWellFormed
<1>9. ASSUME NEW l \in {"j.zadd", "l.zrem", "k.zrem", "k.del", "m.get", "m.blocks", "m.range", "m.unlock"}, NEW x
      PROVE  /\ ~Goto(c, [f EXCEPT !.pc = l]) /\ ~Goto(c, [f EXCEPT !.pc = l, !.theirs = x])
             /\ ~Goto(c, [f EXCEPT !.pc = l, !.back = x]) /\ ~Goto(c, [f EXCEPT !.pc = l, !.own = x])
             /\ ~Goto(c, [f EXCEPT !.pc = l, !.skip = x])
  <2>1. /\ [f EXCEPT !.pc = l].pc = l /\ [f EXCEPT !.pc = l, !.theirs = x].pc = l
        /\ [f EXCEPT !.pc = l, !.back = x].pc = l /\ [f EXCEPT !.pc = l, !.own = x].pc = l
        /\ [f EXCEPT !.pc = l, !.skip = x].pc = l
    BY <1>1 DEF Frame
  <2>2. \A h : h.pc = l => ~Goto(c, h)
    BY <1>3
  <2> QED
    BY <2>1, <2>2, Zenon
<1>10. ~JoinResave(c) /\ ~JoinSave(c) /\ ~JoinZadd(c)
  BY <1>5, <1>9 DEF JoinResave, JoinSave, JoinZadd
<1>11. ~UpdateSave(c) /\ ~LeaveDel(c)
  BY <1>4, <1>9 DEF UpdateSave, LeaveDel
<1>12. ~LeaveZrem(c)
  <2> SUFFICES ASSUME LeaveZrem(c) PROVE FALSE
    OBVIOUS
  <2>1. f.back \in {"ret", "m.unlock", "m.next"} /\ (f.back = "m.next" => f.own \in Entry)
    BY <1>1 DEF LeaveZrem, At, WellFormed, LeaveLabels
  <2>2. CASE f.back = "ret"
    BY <1>4, <2>2 DEF LeaveZrem
  <2>3. CASE f.back = "m.unlock"
    BY <1>9, <2>3 DEF LeaveZrem
  <2>4. CASE f.back = "m.next"
    BY <1>1, <1>7, <2>1, <2>4 DEF LeaveZrem
  <2> QED
    BY <2>1, <2>2, <2>3, <2>4
<1>13. ~CleanupStep(c)
  <2> SUFFICES ASSUME CleanupStep(c) PROVE FALSE
    OBVIOUS
  <2> DEFINE h == [f EXCEPT !.todo = zset]
  <2>1. f.back \in {"s.get", "s.rank"}
    BY <1>1 DEF CleanupStep, CleanupRange, CleanupGet, CleanupZrem, CleanupDel, At, WellFormed, CleanupLabels
  <2>2. h \in Frame /\ h.user \in Users /\ h.back \in {"s.get", "s.rank"}
    BY <1>1, <2>1 DEF TypeInv, TypeOK, Frame
  <2>3. \/ Goto(c, NextStale(h)) \/ Goto(c, NextStale(f)) \/ Goto(c, [f EXCEPT !.pc = "k.del"])
        \/ Goto(c, [f EXCEPT !.pc = "k.zrem", !.theirs = entry[f.cand]])
    BY DEF CleanupStep, CleanupRange, CleanupGet, CleanupZrem, CleanupDel
  <2> HIDE DEF h
  <2> QED
    BY <1>1, <1>8, <1>9, <2>1, <2>2, <2>3
<1>14. ~StatusStep(c)
  BY <1>4, <1>5, <1>6 DEF StatusStep, StatusGet, StatusRank, Results
<1>15. ~MatchLock(c) /\ ~MatchGet(c) /\ ~MatchBlocks(c) /\ ~MatchZrem(c)
  <2>1. ~MatchLock(c) /\ ~MatchGet(c) /\ ~MatchBlocks(c)
    BY <1>4, <1>6, <1>9 DEF MatchLock, MatchGet, MatchBlocks, Results
  <2>2. ASSUME MatchZrem(c) PROVE FALSE
    <3>1. f.own \in Entry
      BY <1>1, <2>2 DEF MatchZrem, At, WellFormed, SearchLabels
    <3> QED
      BY <1>1, <1>7, <2>2, <3>1 DEF MatchZrem
  <2> QED
    BY <2>1, <2>2
<1>16. ~MatchRange(c)
  <2> SUFFICES ASSUME MatchRange(c) PROVE FALSE
    OBVIOUS
  <2> DEFINE others == [v \in Users |-> IF v \in f.skip \cup {f.user} THEN 0 ELSE zset[v]]
             h == [f EXCEPT !.todo = others]
  <2>1. others \in [Users -> Nat] /\ f.own \in Entry
    BY <1>1 DEF TypeInv, TypeOK, MatchRange, At, WellFormed, SearchLabels
  <2>2. Goto(c, NextCandidate(h))
    BY DEF MatchRange
  <2> HIDE DEF others
  <2>3. h \in Frame /\ h.user \in Users /\ h.own \in Entry
    BY <1>1, <2>1 DEF Frame
  <2> QED
    BY <1>7, <2>2, <2>3
<1>17. ~MatchUnlock(c)
  <2> DEFINE h == [Reply(f, "matched") EXCEPT !.cand = f.cand, !.theirs = f.theirs]
  <2>0. h.pc = "ret"
    BY DEF Reply, Idle
  <2> HIDE DEF h
  <2>2. ~Goto(c, h)
    BY <1>3, <2>0
  <2>1. ~Goto(c, [Reply(f, "matched") EXCEPT !.cand = f.cand, !.theirs = f.theirs])
    BY <2>2 DEF h
  <2> QED
    BY <1>4, <2>1 DEF MatchUnlock
<1>18. ~ClaimUnlock(c)
  <2> SUFFICES ASSUME ClaimUnlock(c) PROVE FALSE
    OBVIOUS
  <2>1. f.own \in Entry
    BY <1>1 DEF ClaimUnlock, At, WellFormed, SearchLabels, ClaimLabels
  <2> QED
    BY <1>1, <1>7, <1>9, <2>1 DEF ClaimUnlock
<1> QED
  BY <1>10, <1>11, <1>12, <1>13, <1>14, <1>15, <1>16, <1>17, <1>18
     DEF Progress, JoinStep, UpdateStep, LeaveStep, MatchStep

\* A frame that a call reaches carries the socket id of the user or the candidate.
LEMMA CallCarries ==
  ASSUME TypeInv, SearchInv, MatchedInv, SidInv, NEW c \in Calls, Progress(c)
  PROVE  Carries(call'[c])
<1> DEFINE f == call[c]
           g == call'[c]
<1>1. f \in Frame /\ WellFormed(f) /\ f.user \in Users /\ Carries(f)
  BY CallGoesOn, BusyFrame DEF Ready, At, SidInv
<1>2. ASSUME NEW h, Goto(c, h) PROVE g = h
  BY <1>2, GotoFrame
<1>3. ASSUME g.res = "matched" PROVE OwnSid(g.theirs.sid, g.cand)
  BY <1>1, <1>3, MatchedMove DEF Carries, ClaimLabels
<1> DEFINE Fits == /\ g.pc \in WritingLabels => OwnSid(g.own.sid, g.user)
                   /\ g.pc \in ClaimLabels => OwnSid(g.theirs.sid, g.cand)
<1> SUFFICES Fits
  BY <1>3 DEF Carries
<1>4. CASE JoinProfile(c) \/ JoinGet(c) \/ UpdateGet(c)
  <2> DEFINE e == entry[f.user]
             old == [f.own EXCEPT !.ticket = e.ticket, !.gender = e.gender]
             new == [f.own EXCEPT !.ticket = stamp + 1]
             moved == [e EXCEPT !.sid = f.own.sid]
  <2>1. f.own \in Entry /\ OwnSid(f.own.sid, f.user)
    BY <1>1, <1>4 DEF Carries, WritingLabels, WellFormed, At, JoinProfile, JoinGet, UpdateGet
  <2>2. \/ g = [f EXCEPT !.pc = "j.get"] \/ g = Reply(f, "error") \/ g = Reply(f, "none")
        \/ g = [f EXCEPT !.pc = "j.resave", !.own = old] \/ g = [f EXCEPT !.pc = "j.save", !.own = new]
        \/ e # None /\ g = [f EXCEPT !.pc = "u.save", !.own = moved]
    BY <1>1, <1>2, <1>4 DEF JoinProfile, JoinGet, UpdateGet, Frame
  <2>3. old.sid = f.own.sid /\ new.sid = f.own.sid /\ (e # None => moved.sid = f.own.sid)
    BY <1>1, <2>1, EntryType DEF Entry
  <2> HIDE DEF old, new, moved
  <2>4. CASE g = Reply(f, "error") \/ g = Reply(f, "none")
    <3>1. g.pc = "ret"
      BY <2>4 DEF Reply, Idle
    <3> QED
      BY <3>1 DEF WritingLabels, ClaimLabels
  <2>5. CASE g # Reply(f, "error") /\ g # Reply(f, "none")
    <3>1. /\ g.pc \in WritingLabels /\ g.user = f.user
          /\ g.own = f.own \/ g.own \in {old, new} \/ (e # None /\ g.own = moved)
      BY <1>1, <2>2, <2>5 DEF Frame, WritingLabels
    <3> QED
      BY <2>1, <2>3, <3>1 DEF WritingLabels, ClaimLabels
  <2> QED
    BY <2>4, <2>5
<1>5. CASE MatchCandidate(c)
  <2> DEFINE e == entry[f.cand]
  <2>1. f.own \in Entry /\ f.cand \in Users
    BY <1>1, <1>5 DEF MatchCandidate, At, WellFormed, SearchLabels
  <2>2. \/ g = [f EXCEPT !.pc = "m.zrem"] \/ g = [f EXCEPT !.pc = "l.del", !.back = "m.next"] \/ g = NextCandidate(f)
        \/ e # None /\ g = [f EXCEPT !.pc = "c.lock", !.theirs = e]
    BY <1>2, <1>5 DEF MatchCandidate
  <2>3. NextCandidate(f).pc \in {"m.cand", "m.unlock"}
    BY <1>1, <2>1, NextCandidateIsWellFormed
  <2> HIDE DEF e
  <2>4. \/ g.pc \in {"m.zrem", "l.del", "m.cand", "m.unlock"}
        \/ e # None /\ g.pc = "c.lock" /\ g.theirs = e /\ g.cand = f.cand
    BY <1>1, <2>2, <2>3 DEF Frame
  <2>5. e # None => OwnSid(e.sid, f.cand)
    BY <2>1 DEF SidInv, e
  <2> QED
    BY <2>4, <2>5 DEF WritingLabels, ClaimLabels
<1>6. CASE ClaimLock(c) \/ ClaimGet(c) \/ ClaimExec(c)
  <2> DEFINE claim == [mine |-> entry[f.user].ticket, other |-> entry[f.cand].ticket]
  <2>1. OwnSid(f.theirs.sid, f.cand) /\ f.own \in Entry
    BY <1>1, <1>6 DEF ClaimLock, ClaimGet, ClaimExec, At, Carries, WellFormed, SearchLabels, ClaimLabels
  <2>2. \/ g = NextCandidate(f) \/ g = [f EXCEPT !.pc = "c.get"] \/ g = [f EXCEPT !.pc = "c.unlock"]
        \/ g = [f EXCEPT !.pc = "c.exec", !.claim = claim]
        \/ g = [f EXCEPT !.pc = "c.unlock", !.res = "matched"]
    BY <1>2, <1>6 DEF ClaimLock, ClaimGet, ClaimExec
  <2>3. NextCandidate(f).pc \in {"m.cand", "m.unlock"}
    BY <1>1, <2>1, NextCandidateIsWellFormed
  <2> HIDE DEF claim
  <2>4. \/ g.pc \in {"m.cand", "m.unlock"}
        \/ g.pc \in {"c.get", "c.exec", "c.unlock"} /\ g.theirs = f.theirs /\ g.cand = f.cand
    BY <1>1, <2>2, <2>3 DEF Frame
  <2> QED
    BY <2>1, <2>4 DEF WritingLabels, ClaimLabels
<1> QED
  BY <1>4, <1>5, <1>6, Arrivals DEF CarryingLabels

\* A call that fails keeps the candidate, or carries nothing.
LEMMA FailingCarries ==
  ASSUME TypeInv, SidInv, NEW c \in Calls, Throw(c) \/ LostReply(c)
  PROVE  Carries(call'[c])
<1> DEFINE f == call[c]
           g == call'[c]
<1>1. f \in Frame /\ Goto(c, Rejected(f)) /\ Carries(f)
  BY FailingIsBusy, BusyFrame DEF SidInv
<1>2. g = Rejected(f) /\ g.res = "error"
  BY <1>1, GotoFrame, RejectedContinues
<1>3. \/ f.pc \in {"c.get", "c.exec"} /\ g = [f EXCEPT !.pc = "c.unlock", !.res = "error", !.claim = NoClaim]
      \/ g = [f EXCEPT !.pc = "m.unlock", !.res = "error"] \/ g = Reply(f, "error")
  BY <1>2 DEF Rejected
<1>4. CASE f.pc \in {"c.get", "c.exec"} /\ g = [f EXCEPT !.pc = "c.unlock", !.res = "error", !.claim = NoClaim]
  <2>1. g.theirs = f.theirs /\ g.cand = f.cand /\ g.pc = "c.unlock"
    BY <1>1, <1>4 DEF Frame
  <2> QED
    BY <1>1, <1>4, <2>1 DEF Carries, ClaimLabels, WritingLabels
<1>5. CASE g = [f EXCEPT !.pc = "m.unlock", !.res = "error"] \/ g = Reply(f, "error")
  <2>1. g.pc \in {"m.unlock", "ret"}
    BY <1>1, <1>5 DEF Frame, Reply, Idle
  <2> QED
    BY <1>2, <2>1 DEF Carries, ClaimLabels, WritingLabels
<1> QED
  BY <1>3, <1>4, <1>5

\* What a call writes into an entry names a socket of its user.
LEMMA CallWritesOwn ==
  ASSUME TypeInv, SidInv, NEW c \in Calls, Progress(c) \/ Throw(c) \/ LostReply(c),
         NEW u \in Users, entry'[u] # None
  PROVE  OwnSid(entry'[u].sid, u)
<1> DEFINE f == call[c]
<1>1. PICK g \in Frame : Deals(c, g)
  BY CallDeals
<1>2. entry \in [Users -> Entry \cup {None}]
  BY DEF TypeInv, TypeOK
<1>3. CASE entry'[u] = entry[u]
  BY <1>3 DEF SidInv
<1>4. CASE entry'[u] # entry[u]
  <2>1. /\ Resaving(f) \/ Saving(f)
        /\ entry' = [entry EXCEPT ![f.user] = f.own]
    BY <1>1, <1>4 DEF Deals, Abandons, Removes, Draws, Recalls, Proposes, Enters, Revives, Confirms,
                      TakePair, Delete, Save, Resave
  <2>2. u = f.user /\ entry'[u] = f.own
    BY <1>2, <1>4, <2>1
  <2>3. OwnSid(f.own.sid, f.user)
    BY <2>1 DEF SidInv, Carries, Resaving, Saving, WritingLabels
  <2> QED
    BY <2>2, <2>3
<1> QED
  BY <1>3, <1>4

LEMMA SidInit == Init => SidInv
<1> SUFFICES ASSUME Init PROVE SidInv
  OBVIOUS
<1>1. ASSUME NEW u \in Users, entry[u] # None PROVE OwnSid(entry[u].sid, u)
  <2>1. entry[u] = InitEntry[u] /\ InitEntry[u] \in Entry
    BY <1>1, InitAssumption DEF Init
  <2>2. entry[u].sid \in Sids
    BY <2>1 DEF Entry
  <2> QED
    BY <1>1, <2>1, <2>2, InitSidAssumption, GatewayAssumption DEF OwnSid
<1>2. ASSUME NEW c \in Calls PROVE Carries(call[c])
  BY <1>2 DEF Init, Idle, Carries, WritingLabels, ClaimLabels
<1> QED
  BY <1>1, <1>2 DEF SidInv

LEMMA SidStep ==
  ASSUME TypeInv, SearchInv, MatchedInv, GatewayTypes, WireInv, SidInv, [GatewayNext]_allVars
  PROVE  SidInv'
<1>1. ASSUME NEW c \in Calls, Carries(call'[c]), \A d \in Calls : d # c => call'[d] = call[d],
             \A u \in Users : entry'[u] # None => OwnSid(entry'[u].sid, u)
      PROVE  SidInv'
  <2>1. \A d \in Calls : Carries(call'[d])
    BY <1>1 DEF SidInv
  <2> QED
    BY <1>1, <2>1 DEF SidInv, Carries, OwnSid
<1>2. CASE UNCHANGED vars
  BY <1>2 DEF vars, SidInv, Carries, OwnSid
<1>3. ASSUME NEW c \in Calls, Begins(c) PROVE SidInv'
  BY <1>1, <1>3, StartBegins DEF Begins, SidInv
<1>4. ASSUME NEW c \in Calls, Return(c) PROVE SidInv'
  <2>1. call'[c] = Idle /\ entry' = entry /\ \A d \in Calls : d # c => call'[d] = call[d]
    BY <1>4, GotoFrame DEF Return, redis
  <2>2. Carries(Idle)
    BY DEF Idle, Carries, WritingLabels, ClaimLabels
  <2> QED
    BY <1>1, <2>1, <2>2 DEF SidInv
<1>5. ASSUME NEW c \in Calls, Progress(c) \/ Throw(c) \/ LostReply(c) PROVE SidInv'
  BY <1>1, <1>5, CallGoesOn, CallCarries, FailingCarries, CallWritesOwn
<1>6. CASE GatewayEnvironment
  <2>1. \A u \in Users : entry'[u] \in {entry[u], None}
    BY <1>6 DEF GatewayEnvironment, Lapse, LockLapse, PairLapse, Age, RedisExpire, Delete, PendingExpires,
                ServerCrash, Crash, redis, vars
  <2>2. \A c \in Calls : call'[c] = call[c] \/ call'[c] = Idle
    BY <1>6 DEF GatewayEnvironment, Lapse, LockLapse, PairLapse, Age, RedisExpire, PendingExpires,
                ServerCrash, Crash, vars
  <2>3. Carries(Idle)
    BY DEF Idle, Carries, WritingLabels, ClaimLabels
  <2>4. \A c \in Calls : Carries(call'[c])
    BY <2>2, <2>3 DEF SidInv
  <2>5. \A u \in Users : entry'[u] # None => OwnSid(entry'[u].sid, u)
    BY <2>1 DEF SidInv
  <2> QED
    BY <2>4, <2>5 DEF SidInv, Carries, OwnSid
<1>7. ASSUME NEW c \in Calls,
             Client(c) \/ (\E u \in Users : Tick(c, u)) \/ Handler(c) \/ HandlerFails(c) \/ HandlerLosesReply(c)
      PROVE  SidInv'
  BY <1>2, <1>3, <1>4, <1>7, ClientIsServiceStep, HandlerIsServiceStep
<1>8. (\E s \in Sockets : Connect(s)) \/ UNCHANGED allVars => UNCHANGED vars
  BY DEF Connect, allVars
<1> QED
  BY <1>2, <1>5, <1>6, <1>7, <1>8 DEF GatewayNext, Service

-----------------------------------------------------------------------------
(* The theorems *)

\* What is true of the service and of the gateway in every state.
WholeInv == IInv /\ MatchedInv /\ SerialInv /\ SidInv /\ GatewayInv

LEMMA WholeInit == GatewayInit => WholeInv
<1> SUFFICES ASSUME GatewayInit PROVE WholeInv
  OBVIOUS
<1>1. Init
  BY DEF GatewayInit
<1>2. IInv
  BY <1>1, InitialInvariant
<1>3. call = [c \in Calls |-> Idle] /\ matches = {} /\ rooms = <<>> /\ told = {}
      /\ task = [c \in Calls |-> NoTask] /\ pending = [u \in Users |-> 0]
  BY <1>1 DEF Init, GatewayInit
<1>4. \A c \in Calls : call[c].res = "none" /\ task[c] = NoTask
  BY <1>3 DEF Idle
<1>5. MatchedInv /\ SerialInv
  BY <1>3, <1>4 DEF MatchedInv, SerialInv
<1>6. rooms \in Seq(SUBSET Users) /\ Len(rooms) = 0 /\ DOMAIN rooms = {}
  BY <1>3
<1>7. GatewayTypes
  BY <1>3, <1>6, NoTaskType DEF GatewayTypes, GatewayInit, Tasks
<1>8. WireInv
  BY <1>4 DEF WireInv, Wired, NoTask
<1>9. UnreadInv
  BY <1>3, <1>4 DEF UnreadInv, UnreadIsUntold, NoTask
<1>10. RoomsInv
  <2>1. \A p : RoomsOf(p) = {} /\ Owed(p) = {} /\ MatchesOf(p) = {}
    BY <1>3, <1>4, <1>6 DEF RoomsOf, Owed, MatchesOf
  <2> QED
    BY <2>1, FS_EmptySet DEF RoomsInv
<1>11. MembersInv
  BY <1>3, <1>4 DEF MembersInv, OnlyMembersAreTold, NoTask
<1>12. SidInv
  BY <1>1, SidInit
<1> QED
  BY <1>2, <1>5, <1>7, <1>8, <1>9, <1>10, <1>11, <1>12 DEF WholeInv, GatewayInv

LEMMA WholeStep == WholeInv /\ [GatewayNext]_allVars => WholeInv' /\ [Next]_vars
<1> SUFFICES ASSUME WholeInv, [GatewayNext]_allVars PROVE WholeInv' /\ [Next]_vars
  OBVIOUS
<1>0. IInv /\ MatchedInv /\ SerialInv /\ SidInv /\ GatewayInv /\ TypeInv /\ SearchInv
  BY DEF WholeInv, IInv
<1>1. [Next]_vars
  BY <1>0, GatewayStepIsServiceStep DEF GatewayInv
<1>2. IInv' /\ TypeInv'
  BY <1>0, <1>1, InvariantStep DEF IInv
<1>3. MatchedInv' /\ SerialInv'
  BY <1>0, <1>1, MatchedStep, SerialStep
<1>4. GatewayInv'
  <2>1. ASSUME NEW c \in Calls,
               Client(c) \/ (\E u \in Users : Tick(c, u)) \/ Handler(c) \/ HandlerFails(c) \/ HandlerLosesReply(c)
        PROVE  GatewayInv'
    <3>1. HandlerEffect(c) /\ NoDebt(c) /\ matches' = matches
      <4>1. CASE Client(c) \/ \E u \in Users : Tick(c, u)
        BY <1>0, <4>1, ClientEffect DEF HandlerEffect, GatewayInv
      <4>2. CASE Handler(c) \/ HandlerFails(c) \/ HandlerLosesReply(c)
        BY <1>0, <4>2, JoinAndSyncEffect, TickAndLeaveEffect, RoomEffect DEF Handler, GatewayInv
      <4> QED
        BY <2>1, <4>1, <4>2
    <3>2. /\ socket' \in [Sockets -> {"new", "on", "off"}]
          /\ timer' \in [Users -> Sockets \cup {None}] /\ handlerFaults' \in Nat
      BY <1>0, <2>1, SocketTimerTypes DEF GatewayInv
    <3> QED
      BY <1>0, <1>2, <3>1, <3>2, EffectKeeps
  <2>2. ASSUME NEW c \in Calls, Progress(c) \/ Throw(c) \/ LostReply(c), UNCHANGED gateway PROVE GatewayInv'
    BY <1>0, <1>2, <2>2, ServiceKeeps
  <2>3. CASE GatewayEnvironment \/ (\E s \in Sockets : Connect(s)) \/ UNCHANGED allVars
    BY <1>0, <1>2, <2>3, GatewayEnvironmentKeeps
  <2> QED
    BY <2>1, <2>2, <2>3 DEF GatewayNext, Service
<1>5. SidInv'
  BY <1>0, SidStep DEF GatewayInv
<1> QED
  BY <1>1, <1>2, <1>3, <1>4, <1>5 DEF WholeInv

LEMMA WholeInvariant == GatewaySpec => []WholeInv
<1>1. WholeInv /\ [GatewayNext]_allVars => WholeInv'
  BY WholeStep
<1> QED
  BY <1>1, WholeInit, PTL DEF GatewaySpec

\* The variables of the service and of the gateway hold values of their kinds.
THEOREM GatewayTypeCorrect == GatewaySpec => []GatewayTypeOK
<1>1. WholeInv => GatewayTypeOK
  BY DEF WholeInv, IInv, TypeInv, GatewayInv, GatewayTypes, GatewayTypeOK
<1> QED
  BY <1>1, WholeInvariant, PTL

\* A match stored for a user is handed over once: while it is stored nobody has
\* told her, whichever handlers of hers and of her partners interleave.
THEOREM UnreadIsUntoldCorrect == GatewaySpec => []UnreadIsUntold
<1>1. WholeInv => UnreadIsUntold
  BY DEF WholeInv, GatewayInv, UnreadInv
<1> QED
  BY <1>1, WholeInvariant, PTL

\* A pair has at most as many rooms as matches, whatever fails between the
\* transaction and createRoom.
THEOREM RoomsComeFromMatchesCorrect == GatewaySpec => []RoomsComeFromMatches
<1>1. WholeInv => RoomsComeFromMatches
  <2> SUFFICES ASSUME WholeInv, NEW p \in {rooms[i] : i \in DOMAIN rooms}
               PROVE  Cardinality(RoomsOf(p)) <= Cardinality(MatchesOf(p))
    BY DEF RoomsComeFromMatches, RoomsOf, MatchesOf
  <2>1. TypeInv /\ GatewayTypes /\ RoomsInv
    BY DEF WholeInv, IInv, GatewayInv
  <2>2. p \in SUBSET Users
    BY <2>1, ElementOfSeq DEF GatewayTypes
  <2>3. Cardinality(RoomsOf(p)) + Cardinality(Owed(p)) <= Cardinality(MatchesOf(p))
    BY <2>1, <2>2 DEF RoomsInv
  <2>4. /\ Cardinality(RoomsOf(p)) \in Nat /\ Cardinality(Owed(p)) \in Nat
        /\ Cardinality(MatchesOf(p)) \in Nat
    BY <2>1, RoomsAreCountable
  <2> QED
    BY <2>3, <2>4
<1> QED
  BY <1>1, WholeInvariant, PTL

\* Nobody is told of a room of others, by whichever socket id or stored match
\* the news travels.
THEOREM OnlyMembersAreToldCorrect == GatewaySpec => []OnlyMembersAreTold
<1>1. WholeInv => OnlyMembersAreTold
  BY DEF WholeInv, GatewayInv, MembersInv
<1> QED
  BY <1>1, WholeInvariant, PTL
=============================================================================
