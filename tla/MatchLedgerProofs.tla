------------------------- MODULE MatchLedgerProofs -------------------------
(***************************************************************************)
(* Proofs about the stays in the queue: what happens to a ticket from the  *)
(* moment a join draws it, for every number of users, calls, faults and    *)
(* crashes; and that the service keeps to MatchLedger.                     *)
(***************************************************************************)
EXTENDS MatchmakingProofs

-----------------------------------------------------------------------------
(* What the step of one call does with tickets.  Its frame becomes g.       *)

Ticketless(f) == ~ (Resaving(f) \/ Saving(f) \/ Executing(f))

\* No ticket is written; what the call held is given up.
Abandons(g) == Ticketless(g) /\ UNCHANGED <<entry, matches, revived, stamp, owner>>

\* An entry is deleted outside a claim.
Removes(c, g) ==
  /\ call[c].pc \in {"l.del", "k.del"} /\ g.pc # call[c].pc /\ Ticketless(g)
  /\ Delete({Removed(call[c])})
  /\ UNCHANGED <<matches, revived, stamp, owner>>

\* A join draws a new ticket.
Draws(c, g) ==
  /\ At(c, "j.get") /\ Saving(g)
  /\ g.user = call[c].user /\ g.own.ticket = stamp + 1
  /\ stamp' = stamp + 1
  /\ owner' = [t \in 1..stamp + 1 |-> IF t = stamp + 1 THEN call[c].user ELSE owner[t]]
  /\ UNCHANGED <<entry, matches, revived>>

\* A call reads the entry that it is going to write back.
Recalls(c, g) ==
  /\ call[c].pc \in {"j.get", "u.get"} /\ Resaving(g)
  /\ entry[call[c].user] # None
  /\ g.user = call[c].user /\ g.own.ticket = entry[call[c].user].ticket
  /\ UNCHANGED <<entry, matches, revived, stamp, owner>>

\* A claim reads the two entries that it is going to take.
Proposes(c, g) ==
  /\ At(c, "c.get") /\ Executing(g)
  /\ g.user = call[c].user /\ g.cand = call[c].cand
  /\ entry[g.user] # None /\ entry[g.cand] # None
  /\ g.claim = [mine |-> entry[g.user].ticket, other |-> entry[g.cand].ticket]
  /\ UNCHANGED <<entry, matches, revived, stamp, owner>>

\* The three writes.
Enters(c, g) ==
  /\ Saving(call[c]) /\ Ticketless(g)
  /\ Save(call[c].user, call[c].own)
  /\ UNCHANGED <<matches, revived, stamp, owner>>

Revives(c, g) ==
  /\ Resaving(call[c]) /\ Ticketless(g)
  /\ Resave(call[c].user, call[c].own)
  /\ UNCHANGED <<matches, stamp, owner>>

Confirms(c, g) ==
  /\ Executing(call[c]) /\ g.pc = "c.unlock"
  /\ TakePair(call[c])
  /\ UNCHANGED <<revived, stamp, owner>>

Deals(c, g) ==
  \/ Abandons(g) \/ Removes(c, g) \/ Draws(c, g) \/ Recalls(c, g)
  \/ Proposes(c, g) \/ Enters(c, g) \/ Revives(c, g) \/ Confirms(c, g)

-----------------------------------------------------------------------------
(* Every step of a call deals with tickets in one of these ways             *)

\* At any other label a frame holds no ticket.
LEMMA OtherLabelsAreTicketless ==
  ASSUME NEW f, f.pc \notin {"j.resave", "u.save", "j.save", "c.exec"}
  PROVE  Ticketless(f)
BY DEF Ticketless, Resaving, Saving, Executing

LEMMA StartDeals ==
  ASSUME TypeInv, NEW c \in Calls, Start(c) \/ Return(c)
  PROVE  \E g \in Frame : Goto(c, g) /\ Abandons(g)
<1>1. call \in [Calls -> Frame]
  BY DEF TypeInv, TypeOK
<1>2. PICK g \in Frame : Goto(c, g)
  BY StartFrame, IdleIsWellFormed DEF Return
<1>3. g = call'[c]
  BY <1>1, <1>2 DEF Goto
<1>4. g.pc \in {"idle", "j.profile", "u.get", "k.range", "m.lock", "l.del"}
  <2>1. CASE Return(c)
    BY <1>1, <1>3, <2>1 DEF Return, Goto, Idle
  <2>2. CASE Start(c)
    <3>1. PICK u \in Users :
            \/ \E sid \in Sids, dto \in JoinDtos[u] : JoinQueue(c, u, sid, dto)
            \/ \E sid \in Sids : UpdateSocketId(c, u, sid)
            \/ LeaveQueue(c, u) \/ GetStatus(c, u) \/ TryAtomicMatch(c, u)
      BY <2>2 DEF Start
    <3>2. CASE \E sid \in Sids, dto \in JoinDtos[u] : JoinQueue(c, u, sid, dto)
      BY <1>1, <1>3, <3>2 DEF JoinQueue, Goto, Idle
    <3>3. CASE \E sid \in Sids : UpdateSocketId(c, u, sid)
      BY <1>1, <1>3, <3>3 DEF UpdateSocketId, Goto, Idle
    <3>4. CASE LeaveQueue(c, u)
      BY <1>1, <1>3, <3>4 DEF LeaveQueue, Goto, Idle, Leaving
    <3>5. CASE GetStatus(c, u)
      BY <1>1, <1>3, <3>5 DEF GetStatus, Goto, Idle, Cleanup
    <3>6. CASE TryAtomicMatch(c, u)
      BY <1>1, <1>3, <3>6 DEF TryAtomicMatch, Goto, Idle
    <3> QED
      BY <3>1, <3>2, <3>3, <3>4, <3>5, <3>6
  <2> QED
    BY <2>1, <2>2
<1>5. UNCHANGED <<entry, matches, revived, stamp, owner>>
  BY DEF Start, JoinQueue, UpdateSocketId, LeaveQueue, GetStatus, TryAtomicMatch, Return,
         redis, history, environment
<1> QED
  BY <1>2, <1>4, <1>5, OtherLabelsAreTicketless DEF Abandons

LEMMA JoinDeals ==
  ASSUME TypeInv, NEW c \in Calls, JoinStep(c)
  PROVE  \E g \in Frame : Goto(c, g) /\ Deals(c, g)
<1> DEFINE f == call[c]
<1>1. f \in Frame /\ WellFormed(f) /\ f.user \in Users
  BY BusyFrame DEF JoinStep, JoinProfile, JoinGet, JoinResave, JoinSave, JoinZadd, At
<1>2. PICK g \in Frame : Goto(c, g)
  BY JoinFrame
<1>3. g = call'[c]
  BY <1>2 DEF Goto, TypeInv, TypeOK
<1>4. CASE JoinProfile(c)
  <2>1. g.pc \in {"ret", "j.get"}
    BY <1>1, <1>3, <1>4 DEF JoinProfile, Goto, Reply, Idle, Frame, TypeInv, TypeOK
  <2> QED
    BY <1>2, <1>4, <2>1, OtherLabelsAreTicketless DEF JoinProfile, Deals, Abandons, redis, history, environment
<1>5. CASE JoinGet(c)
  <2> DEFINE e == entry[f.user]
             old == [f.own EXCEPT !.ticket = e.ticket, !.gender = e.gender]
             new == [f.own EXCEPT !.ticket = stamp + 1]
  <2>1. f.own \in Entry /\ f.pc = "j.get"
    BY <1>1, <1>5 DEF JoinGet, At, WellFormed
  <2>2. CASE e # None
    <3>1. Goto(c, [f EXCEPT !.pc = "j.resave", !.own = old]) /\ UNCHANGED <<stamp, owner>>
      BY <1>5, <2>2 DEF JoinGet
    <3>2. g = [f EXCEPT !.pc = "j.resave", !.own = old]
      BY <1>3, <3>1 DEF Goto, TypeInv, TypeOK
    <3>3. old.ticket = e.ticket
      BY <2>1 DEF Entry
    <3> HIDE DEF old
    <3>4. g.pc = "j.resave" /\ g.user = f.user /\ g.own = old
      BY <1>1, <3>2 DEF Frame
    <3>5. Recalls(c, g)
      BY <1>5, <2>1, <2>2, <3>1, <3>3, <3>4 DEF Recalls, Resaving, JoinGet, redis
    <3> QED
      BY <1>2, <3>5 DEF Deals
  <2>3. CASE e = None
    <3>1. /\ Goto(c, [f EXCEPT !.pc = "j.save", !.own = new])
          /\ stamp' = stamp + 1
          /\ owner' = [t \in 1..stamp + 1 |-> IF t = stamp + 1 THEN f.user ELSE owner[t]]
      BY <1>5, <2>3 DEF JoinGet
    <3>2. g = [f EXCEPT !.pc = "j.save", !.own = new]
      BY <1>3, <3>1 DEF Goto, TypeInv, TypeOK
    <3>3. new.ticket = stamp + 1
      BY <2>1 DEF Entry
    <3> HIDE DEF new
    <3>4. g.pc = "j.save" /\ g.user = f.user /\ g.own = new
      BY <1>1, <3>2 DEF Frame
    <3>5. Draws(c, g)
      BY <1>5, <3>1, <3>3, <3>4 DEF Draws, Saving, JoinGet, redis
    <3> QED
      BY <1>2, <3>5 DEF Deals
  <2> QED
    BY <2>2, <2>3
<1>6. CASE JoinResave(c) \/ JoinZadd(c)
  <2>1. g = Cleanup(f, "s.get")
    BY <1>3, <1>6 DEF JoinResave, JoinZadd, Goto, TypeInv, TypeOK
  <2>2. g.pc = "k.range"
    BY <1>1, <2>1, CleanupIsWellFormed
  <2>3. Ticketless(g)
    BY <2>2, OtherLabelsAreTicketless
  <2>4. JoinResave(c) => Revives(c, g)
    BY <2>3 DEF JoinResave, At, Revives, Resaving, environment
  <2>5. JoinZadd(c) => Abandons(g)
    BY <2>3 DEF JoinZadd, Abandons, history, environment
  <2> QED
    BY <1>2, <1>6, <2>4, <2>5 DEF Deals
<1>7. CASE JoinSave(c)
  <2>1. g.pc = "j.zadd"
    BY <1>1, <1>3, <1>7 DEF JoinSave, Goto, Frame, TypeInv, TypeOK
  <2>2. Enters(c, g)
    BY <1>7, <2>1, OtherLabelsAreTicketless DEF JoinSave, At, Enters, Saving, history, environment
  <2> QED
    BY <1>2, <2>2 DEF Deals
<1> QED
  BY <1>4, <1>5, <1>6, <1>7 DEF JoinStep

LEMMA UpdateDeals ==
  ASSUME TypeInv, NEW c \in Calls, UpdateStep(c)
  PROVE  \E g \in Frame : Goto(c, g) /\ Deals(c, g)
<1> DEFINE f == call[c]
           e == entry[f.user]
<1>1. f \in Frame /\ WellFormed(f) /\ f.user \in Users
  BY BusyFrame DEF UpdateStep, UpdateGet, UpdateSave, At
<1>2. PICK g \in Frame : Goto(c, g)
  BY UpdateFrame
<1>3. g = call'[c]
  BY <1>2 DEF Goto, TypeInv, TypeOK
<1>4. CASE UpdateGet(c) /\ e = None
  <2>1. g.pc = "ret"
    BY <1>1, <1>3, <1>4 DEF UpdateGet, Goto, Reply, Idle, TypeInv, TypeOK
  <2> QED
    BY <1>2, <1>4, <2>1, OtherLabelsAreTicketless DEF UpdateGet, Deals, Abandons, redis, history, environment
<1>5. CASE UpdateGet(c) /\ e # None
  <2> DEFINE own == [e EXCEPT !.sid = f.own.sid]
  <2>1. g = [f EXCEPT !.pc = "u.save", !.own = own]
    BY <1>3, <1>5 DEF UpdateGet, Goto, TypeInv, TypeOK
  <2>2. e \in Entry
    BY <1>1, <1>5, EntryType
  <2>3. own.ticket = e.ticket
    BY <2>2 DEF Entry
  <2> HIDE DEF own
  <2>4. g.pc = "u.save" /\ g.user = f.user /\ g.own = own
    BY <1>1, <2>1 DEF Frame
  <2>5. Recalls(c, g)
    BY <1>5, <2>3, <2>4
       DEF Recalls, Resaving, UpdateGet, At, redis, history, environment
  <2> QED
    BY <1>2, <2>5 DEF Deals
<1>6. CASE UpdateSave(c)
  <2>1. g.pc = "ret"
    BY <1>1, <1>3, <1>6 DEF UpdateSave, Goto, Reply, Idle, TypeInv, TypeOK
  <2>2. Revives(c, g)
    BY <1>6, <2>1, OtherLabelsAreTicketless DEF UpdateSave, At, Revives, Resaving, environment
  <2> QED
    BY <1>2, <2>2 DEF Deals
<1> QED
  BY <1>4, <1>5, <1>6 DEF UpdateStep

LEMMA LeaveDeals ==
  ASSUME TypeInv, NEW c \in Calls, LeaveStep(c)
  PROVE  \E g \in Frame : Goto(c, g) /\ Deals(c, g)
<1> DEFINE f == call[c]
<1>1. f \in Frame /\ WellFormed(f) /\ f.user \in Users
  BY BusyFrame DEF LeaveStep, LeaveDel, LeaveZrem, At
<1>2. PICK g \in Frame : Goto(c, g)
  BY LeaveFrame
<1>3. g = call'[c]
  BY <1>2 DEF Goto, TypeInv, TypeOK
<1>4. CASE LeaveDel(c)
  <2>1. f.pc = "l.del" /\ Delete({Leaver(f)}) /\ UNCHANGED <<matches, revived, stamp, owner>>
    BY <1>4 DEF LeaveDel, At, history, environment
  <2>2. g.pc = "l.zrem"
    BY <1>1, <1>3, <1>4 DEF LeaveDel, Goto, Frame, TypeInv, TypeOK
  <2> QED
    BY <1>2, <2>1, <2>2, OtherLabelsAreTicketless DEF Deals, Removes, Removed
<1>5. CASE LeaveZrem(c)
  <2>1. f.back \in {"ret", "m.unlock", "m.next"} /\ (f.back = "m.next" => f.own \in Entry)
    BY <1>1, <1>5 DEF LeaveZrem, At, WellFormed, LeaveLabels
  <2>2. g.pc \in {"ret", "m.unlock", "m.cand"}
    <3>1. CASE f.back = "ret"
      BY <1>1, <1>3, <1>5, <3>1 DEF LeaveZrem, Goto, Reply, Idle, TypeInv, TypeOK
    <3>2. CASE f.back = "m.unlock"
      BY <1>1, <1>3, <1>5, <3>2 DEF LeaveZrem, Goto, Frame, TypeInv, TypeOK
    <3>3. CASE f.back = "m.next"
      <4>1. g = NextCandidate(f)
        BY <1>3, <1>5, <3>3 DEF LeaveZrem, Goto, TypeInv, TypeOK
      <4> QED
        BY <1>1, <2>1, <3>3, <4>1, NextCandidateIsWellFormed
    <3> QED
      BY <2>1, <3>1, <3>2, <3>3
  <2> QED
    BY <1>2, <1>5, <2>2, OtherLabelsAreTicketless DEF LeaveZrem, Deals, Abandons, history, environment
<1> QED
  BY <1>4, <1>5 DEF LeaveStep

LEMMA CleanupDeals ==
  ASSUME TypeInv, NEW c \in Calls, CleanupStep(c)
  PROVE  \E g \in Frame : Goto(c, g) /\ Deals(c, g)
<1> DEFINE f == call[c]
           h == [f EXCEPT !.todo = zset]
<1>1. f \in Frame /\ WellFormed(f) /\ f.user \in Users /\ f.back \in {"s.get", "s.rank"}
  BY BusyFrame DEF CleanupStep, CleanupRange, CleanupGet, CleanupZrem, CleanupDel, At, WellFormed, CleanupLabels
<1>2. PICK g \in Frame : Goto(c, g)
  BY CleanupFrame
<1>3. g = call'[c]
  BY <1>2 DEF Goto, TypeInv, TypeOK
<1>4. NextStale(f).pc \in {"k.get", "s.get", "s.rank"} /\ NextStale(h).pc \in {"k.get", "s.get", "s.rank"}
  <2>1. h \in Frame /\ h.user \in Users /\ h.back \in {"s.get", "s.rank"}
    BY <1>1 DEF TypeInv, TypeOK, Frame
  <2> HIDE DEF h
  <2> QED
    BY <1>1, <2>1, NextStaleIsWellFormed
<1>5. g.pc \in {"k.get", "k.zrem", "k.del", "s.get", "s.rank"}
  <2>1. CASE CleanupRange(c) \/ CleanupDel(c)
    BY <1>3, <1>4, <2>1 DEF CleanupRange, CleanupDel, Goto, TypeInv, TypeOK
  <2>2. CASE CleanupGet(c)
    BY <1>1, <1>3, <1>4, <2>2 DEF CleanupGet, Goto, Frame, TypeInv, TypeOK
  <2>3. CASE CleanupZrem(c)
    BY <1>1, <1>3, <1>4, <2>3 DEF CleanupZrem, Goto, Frame, TypeInv, TypeOK
  <2> QED
    BY <2>1, <2>2, <2>3 DEF CleanupStep
<1>6. Ticketless(g)
  BY <1>5, OtherLabelsAreTicketless
<1>7. CASE CleanupDel(c)
  <2>1. f.pc = "k.del" /\ Delete({f.cand}) /\ UNCHANGED <<matches, revived, stamp, owner>>
    BY <1>7 DEF CleanupDel, At, history, environment
  <2>2. g.pc # "k.del"
    BY <1>3, <1>4, <1>7 DEF CleanupDel, Goto, TypeInv, TypeOK
  <2> QED
    BY <1>2, <1>6, <2>1, <2>2 DEF Deals, Removes, Removed
<1>8. CASE CleanupRange(c) \/ CleanupGet(c) \/ CleanupZrem(c)
  BY <1>2, <1>6, <1>8 DEF CleanupRange, CleanupGet, CleanupZrem, Deals, Abandons, redis, history, environment
<1> QED
  BY <1>7, <1>8 DEF CleanupStep

LEMMA StatusDeals ==
  ASSUME TypeInv, NEW c \in Calls, StatusStep(c)
  PROVE  \E g \in Frame : Goto(c, g) /\ Deals(c, g)
<1> DEFINE f == call[c]
<1>1. f \in Frame /\ f.user \in Users
  BY BusyFrame DEF StatusStep, StatusGet, StatusRank, At
<1>2. PICK g \in Frame : Goto(c, g)
  BY StatusFrame
<1>3. g = call'[c]
  BY <1>2 DEF Goto, TypeInv, TypeOK
<1>4. g.pc \in {"ret", "k.range", "l.del"}
  <2>1. CASE StatusGet(c)
    BY <1>1, <1>3, <2>1 DEF StatusGet, Goto, Reply, Idle, Cleanup, Leaving, Frame, TypeInv, TypeOK
  <2>2. CASE StatusRank(c)
    BY <1>1, <1>3, <2>2 DEF StatusRank, Goto, Reply, Idle, Frame, TypeInv, TypeOK
  <2> QED
    BY <2>1, <2>2 DEF StatusStep
<1> QED
  BY <1>2, <1>4, OtherLabelsAreTicketless
     DEF StatusStep, StatusGet, StatusRank, Deals, Abandons, redis, history, environment

\* Where a search goes on, except where it may turn to removing an entry.
LEMMA SearchLabelsAfter ==
  ASSUME TypeInv, NEW c \in Calls, MatchStep(c), ~MatchGet(c), ~MatchCandidate(c)
  PROVE  \/ call'[c].pc \in {"ret", "m.get", "m.range", "m.cand", "m.unlock", "c.get", "c.unlock"}
         \/ At(c, "c.get") /\ call'[c].pc = "c.exec"
<1> DEFINE f == call[c]
           g == call'[c]
<1>1. f \in Frame /\ WellFormed(f) /\ f.user \in Users
  BY BusyFrame
     DEF MatchStep, MatchLock, MatchGet, MatchBlocks, MatchRange, MatchCandidate, MatchZrem, MatchUnlock,
         ClaimLock, ClaimGet, ClaimExec, ClaimUnlock, At
<1>2. call \in [Calls -> Frame]
  BY DEF TypeInv, TypeOK
<1>3. ASSUME NEW h, Goto(c, h) PROVE g = h
  BY <1>2, <1>3 DEF Goto
<1>4. ASSUME f.own \in Entry PROVE NextCandidate(f).pc \in {"m.cand", "m.unlock"}
  BY <1>1, <1>4, NextCandidateIsWellFormed
<1>5. CASE MatchLock(c)
  <2>1. Reply(f, "none").pc = "ret" /\ [f EXCEPT !.pc = "m.get"].pc = "m.get"
    BY <1>1 DEF Reply, Idle, Frame
  <2>2. g = Reply(f, "none") \/ g = [f EXCEPT !.pc = "m.get"]
    BY <1>3, <1>5 DEF MatchLock
  <2> QED
    BY <2>1, <2>2
<1>6. CASE MatchBlocks(c)
  BY <1>1, <1>2, <1>6 DEF MatchBlocks, Goto, Frame
<1>7. CASE MatchRange(c)
  <2> DEFINE others == [v \in Users |-> IF v \in f.skip \cup {f.user} THEN 0 ELSE zset[v]]
             h == [f EXCEPT !.todo = others]
  <2>1. others \in [Users -> Nat] /\ f.own \in Entry
    BY <1>1, <1>7 DEF TypeInv, TypeOK, MatchRange, At, WellFormed, SearchLabels
  <2>2. g = NextCandidate(h)
    BY <1>3, <1>7 DEF MatchRange
  <2> HIDE DEF others
  <2>3. h \in Frame /\ h.user \in Users /\ h.own \in Entry
    BY <1>1, <2>1 DEF Frame
  <2> QED
    BY <2>2, <2>3, NextCandidateIsWellFormed
<1>8. CASE MatchZrem(c)
  <2>1. f.own \in Entry
    BY <1>1, <1>8 DEF MatchZrem, At, WellFormed, SearchLabels
  <2> QED
    BY <1>3, <1>4, <1>8, <2>1 DEF MatchZrem
<1>9. CASE MatchUnlock(c)
  BY <1>1, <1>2, <1>9 DEF MatchUnlock, Goto, Reply, Idle
<1>10. CASE ClaimLock(c) \/ ClaimUnlock(c)
  <2>1. f.own \in Entry
    BY <1>1, <1>10 DEF ClaimLock, ClaimUnlock, At, WellFormed, SearchLabels, ClaimLabels
  <2> QED
    BY <1>1, <1>2, <1>4, <1>10, <2>1 DEF ClaimLock, ClaimUnlock, Goto, Frame
<1>11. CASE ClaimGet(c) \/ ClaimExec(c)
  <2> DEFINE claim == [mine |-> entry[f.user].ticket, other |-> entry[f.cand].ticket]
  <2>1. \/ g = [f EXCEPT !.pc = "c.unlock"] \/ g = [f EXCEPT !.pc = "c.unlock", !.res = "matched"]
        \/ At(c, "c.get") /\ g = [f EXCEPT !.pc = "c.exec", !.claim = claim]
    BY <1>3, <1>11 DEF ClaimGet, ClaimExec
  <2> HIDE DEF claim
  <2> QED
    BY <1>1, <2>1 DEF Frame
<1> QED
  BY <1>5, <1>6, <1>7, <1>8, <1>9, <1>10, <1>11 DEF MatchStep

LEMMA MatchDeals ==
  ASSUME TypeInv, NEW c \in Calls, MatchStep(c)
  PROVE  \E g \in Frame : Goto(c, g) /\ Deals(c, g)
<1> DEFINE f == call[c]
<1>1. f \in Frame /\ WellFormed(f) /\ f.user \in Users
  BY BusyFrame
     DEF MatchStep, MatchLock, MatchGet, MatchBlocks, MatchRange, MatchCandidate, MatchZrem, MatchUnlock,
         ClaimLock, ClaimGet, ClaimExec, ClaimUnlock, At
<1>2. PICK g \in Frame : Goto(c, g)
  BY MatchFrame
<1>3. /\ call \in [Calls -> Frame]
      /\ g = call'[c]
  BY <1>2 DEF Goto, TypeInv, TypeOK
<1>4. ASSUME NEW h, Goto(c, h) PROVE g = h
  BY <1>3, <1>4 DEF Goto
<1>5. ASSUME f.own \in Entry PROVE NextCandidate(f).pc \in {"m.cand", "m.unlock"}
  BY <1>1, <1>5, NextCandidateIsWellFormed
<1>6. CASE \/ MatchLock(c) \/ MatchGet(c) \/ MatchBlocks(c) \/ MatchRange(c) \/ MatchCandidate(c)
           \/ MatchZrem(c) \/ MatchUnlock(c) \/ ClaimLock(c) \/ ClaimUnlock(c)
  <2>1. g.pc \notin {"j.resave", "u.save", "j.save", "c.exec"}
    <3>1. CASE MatchGet(c)
      BY <1>1, <1>3, <3>1 DEF MatchGet, Leaving, Goto, Frame
    <3>2. CASE MatchCandidate(c)
      <4>1. f.own \in Entry
        BY <1>1, <3>2 DEF MatchCandidate, At, WellFormed, SearchLabels
      <4> QED
        BY <1>1, <1>3, <1>5, <3>2, <4>1 DEF MatchCandidate, Goto, Frame
    <3>3. CASE ~MatchGet(c) /\ ~MatchCandidate(c)
      <4>1. ~At(c, "c.get")
        BY <1>6 DEF MatchLock, MatchGet, MatchBlocks, MatchRange, MatchCandidate, MatchZrem, MatchUnlock,
                    ClaimLock, ClaimUnlock, At
      <4> QED
        BY <1>3, <1>6, <3>3, <4>1, SearchLabelsAfter DEF MatchStep
    <3> QED
      BY <3>1, <3>2, <3>3
  <2>2. UNCHANGED <<entry, matches, revived, stamp, owner>>
    BY <1>6 DEF MatchLock, MatchGet, MatchBlocks, MatchRange, MatchCandidate, MatchZrem, MatchUnlock,
                ClaimLock, ClaimUnlock, redis, history, environment
  <2> QED
    BY <1>2, <2>1, <2>2, OtherLabelsAreTicketless DEF Deals, Abandons
<1>7. CASE ClaimGet(c)
  <2> DEFINE a == entry[f.user]
             b == entry[f.cand]
             k == [mine |-> a.ticket, other |-> b.ticket]
  <2>1. f.pc = "c.get" /\ UNCHANGED <<entry, matches, revived, stamp, owner>>
    BY <1>7 DEF ClaimGet, At, redis, history, environment
  <2>2. CASE a = None \/ b = None
    <3>1. g.pc = "c.unlock"
      BY <1>1, <1>3, <1>7, <2>2 DEF ClaimGet, Goto, Frame
    <3> QED
      BY <1>2, <2>1, <3>1, OtherLabelsAreTicketless DEF Deals, Abandons
  <2>3. CASE a # None /\ b # None
    <3>1. g = [f EXCEPT !.pc = "c.exec", !.claim = k]
      BY <1>4, <1>7, <2>3 DEF ClaimGet
    <3> HIDE DEF k
    <3>2. g.pc = "c.exec" /\ g.user = f.user /\ g.cand = f.cand /\ g.claim = k
      BY <1>1, <3>1 DEF Frame
    <3>3. Proposes(c, g)
      BY <2>1, <2>3, <3>2 DEF Proposes, At, Executing, k
    <3> QED
      BY <1>2, <3>3 DEF Deals
  <2> QED
    BY <2>2, <2>3
<1>8. CASE ClaimExec(c)
  <2>1. g.pc = "c.unlock"
    BY <1>1, <1>3, <1>8 DEF ClaimExec, Goto, Frame
  <2>2. Confirms(c, g)
    BY <1>8, <2>1 DEF ClaimExec, At, Confirms, Executing, environment
  <2> QED
    BY <1>2, <2>2 DEF Deals
<1> QED
  BY <1>6, <1>7, <1>8 DEF MatchStep

\* Failures deal with tickets too: a rejected command gives up what the call
\* held, and one whose reply is lost has done its work all the same.
LEMMA FailureDeals ==
  ASSUME TypeInv, NEW c \in Calls, Throw(c) \/ LostReply(c)
  PROVE  \E g \in Frame : Goto(c, g) /\ Deals(c, g)
<1> DEFINE f == call[c]
           g == Rejected(f)
<1>1. ~At(c, "idle") /\ Goto(c, g)
  BY FailingIsBusy
<1>2. f \in Frame /\ WellFormed(f) /\ f.user \in Users /\ g \in Frame
  BY <1>1, BusyFrame, RejectedIsWellFormed
<1>3. g.pc \in {"c.unlock", "m.unlock", "ret"}
  <2>1. CASE f.pc \in {"c.get", "c.exec"}
    <3>1. g = [f EXCEPT !.pc = "c.unlock", !.res = "error", !.claim = NoClaim]
      BY <2>1 DEF Rejected
    <3> QED
      BY <1>2, <3>1 DEF Frame
  <2>2. CASE f.pc \notin {"c.get", "c.exec"} /\ Searching(f) /\ f.pc # "m.unlock"
    <3>1. g = [f EXCEPT !.pc = "m.unlock", !.res = "error"]
      BY <2>2 DEF Rejected
    <3> QED
      BY <1>2, <3>1 DEF Frame
  <2>3. CASE f.pc \notin {"c.get", "c.exec"} /\ ~(Searching(f) /\ f.pc # "m.unlock")
    <3>1. g = Reply(f, "error")
      BY <2>3 DEF Rejected
    <3> QED
      BY <3>1 DEF Reply, Idle
  <2> QED
    BY <2>1, <2>2, <2>3
<1>4. Ticketless(g)
  BY <1>3, OtherLabelsAreTicketless
<1> HIDE DEF g
<1>5. CASE UNCHANGED <<entry, matches, revived, stamp, owner>>
  BY <1>1, <1>2, <1>4, <1>5 DEF Deals, Abandons
<1>6. CASE Throw(c)
  BY <1>5, <1>6 DEF Throw, redis, history
<1>7. CASE LostReply(c)
  <2>1. UNCHANGED <<stamp, owner>>
    BY <1>7 DEF LostReply
  <2>2. CASE f.pc \in {"j.resave", "u.save"} /\ Resave(f.user, f.own) /\ UNCHANGED matches
    BY <1>1, <1>2, <1>4, <2>1, <2>2 DEF Deals, Revives, Resaving
  <2>3. CASE f.pc = "j.save" /\ Save(f.user, f.own) /\ UNCHANGED <<matches, revived>>
    BY <1>1, <1>2, <1>4, <2>1, <2>3 DEF Deals, Enters, Saving
  <2>4. CASE f.pc \in {"l.del", "k.del"} /\ Delete({Removed(f)}) /\ UNCHANGED <<matches, revived>>
    BY <1>1, <1>2, <1>3, <1>4, <2>1, <2>4 DEF Deals, Removes
  <2>5. CASE f.pc = "c.exec" /\ TakePair(f) /\ UNCHANGED revived
    <3>1. g.pc = "c.unlock"
      <4>1. g = [f EXCEPT !.pc = "c.unlock", !.res = "error", !.claim = NoClaim]
        BY <2>5 DEF Rejected, g
      <4> QED
        BY <1>2, <4>1 DEF Frame
    <3> QED
      BY <1>1, <1>2, <2>1, <2>5, <3>1 DEF Deals, Confirms, Executing
  <2>6. CASE UNCHANGED <<entry, matches, revived>>
    BY <1>5, <2>1, <2>6
  <2> QED
    BY <1>7, <2>2, <2>3, <2>4, <2>5, <2>6 DEF LostReply
<1> QED
  BY <1>6, <1>7

\* Taken together: every step of a call.
LEMMA CallDeals ==
  ASSUME TypeInv, NEW c \in Calls, Start(c) \/ Progress(c) \/ Return(c) \/ Throw(c) \/ LostReply(c)
  PROVE  \E g \in Frame : Goto(c, g) /\ Deals(c, g)
BY StartDeals, JoinDeals, UpdateDeals, LeaveDeals, CleanupDeals, StatusDeals, MatchDeals, FailureDeals
   DEF Progress, Deals

-----------------------------------------------------------------------------
(* Every way of dealing with tickets keeps TicketInv                        *)

LEMMA OneFrameChanges ==
  ASSUME TypeInv, NEW c \in Calls, NEW g \in Frame, Goto(c, g)
  PROVE  call'[c] = g /\ \A d \in Calls : d # c => call'[d] = call[d]
BY DEF TypeInv, TypeOK, Goto

\* The holder of a ticket is a user, and what it names is a number.
LEMMA HolderType ==
  ASSUME TypeInv, NEW c \in Calls, ~Ticketless(call[c])
  PROVE  /\ call[c] \in Frame /\ call[c].user \in Users
         /\ Resaving(call[c]) \/ Saving(call[c]) => call[c].own \in Entry
         /\ Executing(call[c]) => call[c].cand \in Users
<1>1. call[c].pc \in {"j.resave", "u.save", "j.save", "c.exec"}
  BY OtherLabelsAreTicketless
<1> QED
  BY <1>1, BusyFrame DEF At, WellFormed, ClaimLabels, Resaving, Saving, Executing

\* Nothing can go wrong where entries are only deleted and tickets given up.
LEMMA LettingGoKeepsTickets ==
  ASSUME TicketInv,
         \A u \in Users : entry'[u] \in {entry[u], None},
         \A d \in Calls : call'[d] = call[d] \/ Ticketless(call'[d]),
         UNCHANGED <<matches, revived, stamp, owner>>
  PROVE  TicketInv'
<1>1. TicketsOwned'
  BY DEF TicketInv, TicketsOwned, Owned, Ticketless
<1>2. UnsavedIsPrivate'
  BY DEF TicketInv, UnsavedIsPrivate, Ticketless
<1>3. MatchedStaysOut'
  BY DEF TicketInv, MatchedStaysOut
<1> QED
  BY <1>1, <1>2, <1>3 DEF TicketInv

LEMMA DrawKeepsTickets ==
  ASSUME TypeInv, TicketInv, NEW c \in Calls, NEW g \in Frame, Goto(c, g), Draws(c, g)
  PROVE  TicketInv'
<1>1. call'[c] = g /\ \A d \in Calls : d # c => call'[d] = call[d]
  BY OneFrameChanges
<1>2. /\ Saving(g) /\ ~Resaving(g) /\ ~Executing(g)
      /\ g.user = call[c].user /\ g.own.ticket = stamp + 1
      /\ stamp' = stamp + 1 /\ UNCHANGED <<entry, matches, revived>>
  BY DEF Draws, Saving, Resaving, Executing
<1>3. stamp \in Nat
  BY DEF TypeInv, TypeOK
<1>4. ASSUME NEW t, NEW u, Owned(t, u) PROVE Owned(t, u)' /\ t # stamp + 1
  <2>1. t \in 1..stamp + 1 /\ t # stamp + 1
    BY <1>3, <1>4 DEF Owned
  <2> QED
    BY <1>4, <2>1 DEF Owned, Draws
<1>5. ASSUME NEW t, t = stamp + 1 PROVE Owned(t, g.user)'
  BY <1>2, <1>3, <1>5 DEF Owned, Draws
<1>6. TicketsOwned'
  BY <1>1, <1>2, <1>4, <1>5 DEF TicketInv, TicketsOwned
<1>7. UnsavedIsPrivate'
  BY <1>1, <1>2, <1>4 DEF TicketInv, TicketsOwned, UnsavedIsPrivate
<1>8. MatchedStaysOut'
  BY <1>2 DEF TicketInv, MatchedStaysOut
<1> QED
  BY <1>6, <1>7, <1>8 DEF TicketInv

\* Reading an entry, to write it back or to claim it, makes the call one more
\* holder of a ticket that is in the queue.
LEMMA ReadKeepsTickets ==
  ASSUME TypeInv, TicketInv, NEW c \in Calls, NEW g \in Frame, Goto(c, g),
         Recalls(c, g) \/ Proposes(c, g)
  PROVE  TicketInv'
<1>1. call'[c] = g /\ \A d \in Calls : d # c => call'[d] = call[d]
  BY OneFrameChanges
<1>2. UNCHANGED <<entry, matches, revived, stamp, owner>> /\ ~Saving(g)
  BY DEF Recalls, Proposes, Resaving, Executing, Saving
<1>3. g.user \in Users
  BY BusyFrame DEF Recalls, Proposes, At
<1>4. CASE Recalls(c, g)
  <2>1. /\ Resaving(g) /\ ~Executing(g)
        /\ entry[g.user] # None /\ g.own.ticket = entry[g.user].ticket
    BY <1>4 DEF Recalls, Resaving, Executing
  <2>2. TicketsOwned'
    BY <1>1, <1>2, <1>3, <2>1 DEF TicketInv, TicketsOwned, Owned
  <2>3. UnsavedIsPrivate'
    BY <1>1, <1>2, <1>3, <2>1 DEF TicketInv, UnsavedIsPrivate
  <2>4. MatchedStaysOut'
    BY <1>2 DEF TicketInv, MatchedStaysOut
  <2> QED
    BY <2>2, <2>3, <2>4 DEF TicketInv
<1>5. CASE Proposes(c, g)
  <2>1. /\ Executing(g) /\ ~Resaving(g)
        /\ entry[g.user] # None /\ entry[g.cand] # None
        /\ g.claim.mine = entry[g.user].ticket /\ g.claim.other = entry[g.cand].ticket
    BY <1>5 DEF Proposes, Resaving, Executing
  <2>2. g.cand \in Users
    BY <1>5, BusyFrame DEF Proposes, At, WellFormed, ClaimLabels
  <2>3. TicketsOwned'
    BY <1>1, <1>2, <1>3, <2>1, <2>2 DEF TicketInv, TicketsOwned, Owned
  <2>4. UnsavedIsPrivate'
    BY <1>1, <1>2, <1>3, <2>1, <2>2 DEF TicketInv, UnsavedIsPrivate
  <2>5. MatchedStaysOut'
    BY <1>2 DEF TicketInv, MatchedStaysOut
  <2> QED
    BY <2>3, <2>4, <2>5 DEF TicketInv
<1> QED
  BY <1>4, <1>5

\* Saving a new entry: its ticket is in no match yet.
LEMMA EnterKeepsTickets ==
  ASSUME TypeInv, TicketInv, NEW c \in Calls, NEW g \in Frame, Goto(c, g), Enters(c, g)
  PROVE  TicketInv'
<1> DEFINE f == call[c]
<1>1. call'[c] = g /\ \A d \in Calls : d # c => call'[d] = call[d]
  BY OneFrameChanges
<1>2. /\ Saving(f) /\ Ticketless(g) /\ entry' = [entry EXCEPT ![f.user] = f.own]
      /\ UNCHANGED <<matches, revived, stamp, owner>>
  BY DEF Enters, Save
<1>3. \A u \in Users : entry'[u] = IF u = f.user THEN f.own ELSE entry[u]
  BY <1>2 DEF TypeInv, TypeOK
<1>4. TicketsOwned'
  BY <1>1, <1>2, <1>3 DEF TicketInv, TicketsOwned, Owned, Ticketless
<1>5. UnsavedIsPrivate'
  BY <1>1, <1>2, <1>3 DEF TicketInv, UnsavedIsPrivate, Ticketless
<1>6. MatchedStaysOut'
  BY <1>2, <1>3 DEF TicketInv, UnsavedIsPrivate, MatchedStaysOut
<1> QED
  BY <1>4, <1>5, <1>6 DEF TicketInv

\* Writing an entry back: where the ticket had gone it is recorded as revived.
LEMMA ReviveKeepsTickets ==
  ASSUME TypeInv, TicketInv, NEW c \in Calls, NEW g \in Frame, Goto(c, g), Revives(c, g)
  PROVE  TicketInv'
<1> DEFINE f == call[c]
<1>1. call'[c] = g /\ \A d \in Calls : d # c => call'[d] = call[d]
  BY OneFrameChanges
<1>2. /\ Resaving(f) /\ Ticketless(g) /\ entry' = [entry EXCEPT ![f.user] = f.own]
      /\ UNCHANGED <<matches, stamp, owner>>
      /\ revived' = IF entry[f.user] # None /\ entry[f.user].ticket = f.own.ticket
                    THEN revived ELSE revived \cup {f.own.ticket}
  BY DEF Revives, Resave, Save
<1>3. /\ f.user \in Users
      /\ \A u \in Users : entry'[u] = IF u = f.user THEN f.own ELSE entry[u]
  BY <1>2, HolderType DEF Ticketless, TypeInv, TypeOK
<1>4. TicketsOwned'
  BY <1>1, <1>2, <1>3 DEF TicketInv, TicketsOwned, Owned, Ticketless
<1>5. UnsavedIsPrivate'
  BY <1>1, <1>2, <1>3 DEF TicketInv, UnsavedIsPrivate, Ticketless
<1>6. MatchedStaysOut'
  <2> SUFFICES ASSUME NEW m \in matches, NEW u \in Users,
                      entry'[u] # None, entry'[u].ticket \in {m.mine, m.other}
               PROVE  entry'[u].ticket \in revived'
    BY <1>2 DEF MatchedStaysOut
  <2>1. CASE u # f.user
    BY <1>2, <1>3, <2>1 DEF TicketInv, MatchedStaysOut
  <2>2. CASE u = f.user /\ entry[u] # None /\ entry[u].ticket = f.own.ticket
    BY <1>2, <1>3, <2>2 DEF TicketInv, MatchedStaysOut
  <2>3. CASE u = f.user /\ ~(entry[u] # None /\ entry[u].ticket = f.own.ticket)
    BY <1>2, <1>3, <2>3
  <2> QED
    BY <2>1, <2>2, <2>3
<1> QED
  BY <1>4, <1>5, <1>6 DEF TicketInv

\* The transaction of a claim: whoever owns one of its two tickets is one of the
\* two users whose entries it deletes.
LEMMA ConfirmKeepsTickets ==
  ASSUME TypeInv, TicketInv, NEW c \in Calls, NEW g \in Frame, Goto(c, g), Confirms(c, g)
  PROVE  TicketInv'
<1> DEFINE f == call[c]
           m == NewMatch(f)
<1>0. m.by = f.user /\ m.with = f.cand /\ m.mine = f.claim.mine /\ m.other = f.claim.other
  BY NewMatchFields
<1>1. call'[c] = g /\ \A d \in Calls : d # c => call'[d] = call[d]
  BY OneFrameChanges
<1>2. /\ Executing(f) /\ Ticketless(g) /\ matches' = matches \cup {m}
      /\ UNCHANGED <<revived, stamp, owner>>
  BY OtherLabelsAreTicketless DEF Confirms, TakePair
<1> HIDE DEF m
<1>3. \A u \in Users : entry'[u] = IF u \in {f.user, f.cand} THEN None ELSE entry[u]
  BY DEF Confirms, TakePair, Delete, Pair
<1>4. Owned(m.mine, f.user) /\ Owned(m.other, f.cand)
  BY <1>2, <1>0 DEF TicketInv, TicketsOwned
<1>5. TicketsOwned'
  BY <1>1, <1>2, <1>3, <1>4, <1>0 DEF TicketInv, TicketsOwned, Owned, Ticketless
<1>6. UnsavedIsPrivate'
  <2>1. ASSUME NEW d \in Calls, Saving(call'[d])
        PROVE  call'[d] = call[d] /\ call[d].own.ticket \notin {m.mine, m.other}
    BY <1>1, <1>2, <1>0, <2>1 DEF TicketInv, UnsavedIsPrivate, Ticketless
  <2> QED
    BY <1>1, <1>2, <1>3, <2>1 DEF TicketInv, UnsavedIsPrivate, Ticketless
<1>7. MatchedStaysOut'
  <2>1. ASSUME NEW u \in Users, entry'[u] # None PROVE entry'[u].ticket \notin {m.mine, m.other}
    BY <1>3, <1>4, <2>1 DEF TicketInv, TicketsOwned, Owned
  <2> QED
    BY <1>2, <1>3, <2>1 DEF TicketInv, MatchedStaysOut
<1> QED
  BY <1>5, <1>6, <1>7 DEF TicketInv

LEMMA DealKeepsTickets ==
  ASSUME TypeInv, TicketInv, NEW c \in Calls, NEW g \in Frame, Goto(c, g), Deals(c, g)
  PROVE  TicketInv'
<1>1. call'[c] = g /\ \A d \in Calls : d # c => call'[d] = call[d]
  BY OneFrameChanges
<1>2. CASE Abandons(g) \/ Removes(c, g)
  <2>1. \A u \in Users : entry'[u] \in {entry[u], None}
    BY <1>2 DEF Abandons, Removes, Delete
  <2> QED
    BY <1>1, <1>2, <2>1, LettingGoKeepsTickets DEF Abandons, Removes
<1> QED
  BY <1>2, DrawKeepsTickets, ReadKeepsTickets, EnterKeepsTickets, ReviveKeepsTickets, ConfirmKeepsTickets
     DEF Deals

LEMMA TicketInit == Init => TicketInv
<1> SUFFICES ASSUME Init PROVE TicketInv
  OBVIOUS
<1>1. ASSUME NEW u \in Users, entry[u] # None PROVE Owned(entry[u].ticket, u)
  <2> DEFINE t == InitEntry[u].ticket
             Holds(v) == InitEntry[v] # None /\ InitEntry[v].ticket = t
  <2>1. t \in 1..stamp /\ Holds(u) /\ entry[u].ticket = t
    BY <1>1, InitAssumption DEF Init
  <2>2. owner[t] = CHOOSE v \in Users : Holds(v)
    BY <2>1 DEF Init
  <2>3. (CHOOSE v \in Users : Holds(v)) = u
    BY <2>1, InitAssumption
  <2> QED
    BY <2>1, <2>2, <2>3 DEF Owned
<1>2. \A c \in Calls : Ticketless(call[c]) /\ ~Resaving(call[c]) /\ ~Saving(call[c]) /\ ~Executing(call[c])
  BY DEF Init, Idle, Ticketless, Resaving, Saving, Executing
<1>3. matches = {}
  BY DEF Init
<1> QED
  BY <1>1, <1>2, <1>3 DEF TicketInv, TicketsOwned, UnsavedIsPrivate, MatchedStaysOut

LEMMA TicketStep == TypeInv /\ TicketInv /\ [Next]_vars => TicketInv'
<1> SUFFICES ASSUME TypeInv, TicketInv, [Next]_vars PROVE TicketInv'
  OBVIOUS
<1>1. ASSUME NEW c \in Calls, Start(c) \/ Progress(c) \/ Return(c) \/ Throw(c) \/ LostReply(c)
      PROVE  TicketInv'
  BY <1>1, CallDeals, DealKeepsTickets
<1>2. CASE Crash
  <2>1. \A d \in Calls : Ticketless(call'[d])
    BY <1>2 DEF Crash, Idle, Ticketless, Resaving, Saving, Executing
  <2> QED
    BY <1>2, <2>1, LettingGoKeepsTickets DEF Crash, redis, history
<1>3. ASSUME NEW u \in Users, RedisExpire(u) PROVE TicketInv'
  <2>1. \A v \in Users : entry'[v] \in {entry[v], None}
    BY <1>3 DEF RedisExpire, Delete
  <2> QED
    BY <1>3, <2>1, LettingGoKeepsTickets DEF RedisExpire, history, environment
<1>4. CASE UNCHANGED <<entry, call, matches, revived, stamp, owner>>
  BY <1>4, LettingGoKeepsTickets
<1>5. CASE Lapse \/ Age \/ Blocklisting \/ UNCHANGED vars
  BY <1>4, <1>5 DEF Lapse, LockLapse, PairLapse, Age, Blocklisting, BlockUser, UnblockUser, vars, redis,
                    history, environment
<1> QED
  BY <1>1, <1>2, <1>3, <1>5 DEF Next, Environment

-----------------------------------------------------------------------------
(* No pair of stays is taken twice, unless both were revived                *)

LEMMA FewerClaimsStayFresh ==
  ASSUME FreshPair, UNCHANGED matches, revived \subseteq revived',
         \A d \in Calls : call'[d] = call[d] \/ ~Executing(call'[d])
  PROVE  FreshPair'
BY DEF FreshPair, At, Executing

\* Two claims on the same two tickets are claims on the same two users, so the
\* pair's lock allows one of them only.
LEMMA OneClaimPerProposal ==
  ASSUME TypeInv, MutexInv, TicketInv, ~LocksMayLapse, NEW c \in Calls, NEW d \in Calls,
         At(c, "c.exec"), At(d, "c.exec"),
         {call[c].claim.mine, call[c].claim.other} = {call[d].claim.mine, call[d].claim.other}
  PROVE  c = d
<1>1. /\ owner[call[c].claim.mine] = call[c].user /\ owner[call[c].claim.other] = call[c].cand
      /\ owner[call[d].claim.mine] = call[d].user /\ owner[call[d].claim.other] = call[d].cand
  BY DEF TicketInv, TicketsOwned, Owned, Executing, At
<1>2. {call[c].user, call[c].cand} = {call[d].user, call[d].cand}
  BY <1>1
<1> QED
  BY <1>2 DEF MutexInv, PairMutex, Claiming, At

LEMMA FreshStep == TypeInv /\ MutexInv /\ TicketInv /\ FreshPair /\ [Next]_vars => FreshPair'
<1> SUFFICES ASSUME TypeInv, MutexInv, TicketInv, FreshPair, ~LocksMayLapse, [Next]_vars PROVE FreshPair'
  BY DEF FreshPair
<1>1. ASSUME NEW c \in Calls, Start(c) \/ Progress(c) \/ Return(c) \/ Throw(c) \/ LostReply(c)
      PROVE  FreshPair'
  <2>1. PICK g \in Frame : Goto(c, g) /\ Deals(c, g)
    BY <1>1, CallDeals
  <2>2. call'[c] = g /\ \A d \in Calls : d # c => call'[d] = call[d]
    BY <2>1, OneFrameChanges
  <2>3. CASE Proposes(c, g)
    <3> SUFFICES ASSUME NEW d \in Calls, NEW m \in matches, call'[d].pc = "c.exec",
                        {call'[d].claim.mine, call'[d].claim.other} = {m.mine, m.other}
                 PROVE  {m.mine, m.other} \subseteq revived
      BY <2>3 DEF FreshPair, Proposes, At
    <3>1. CASE d # c
      BY <2>2, <3>1 DEF FreshPair, At
    <3>2. CASE d = c
      <4>1. g.user \in Users /\ g.cand \in Users
        BY <2>3, BusyFrame DEF Proposes, At, WellFormed, ClaimLabels
      <4>2. {m.mine, m.other} = {entry[g.user].ticket, entry[g.cand].ticket}
        BY <2>2, <2>3, <3>2 DEF Proposes
      <4> QED
        BY <2>3, <4>1, <4>2 DEF Proposes, TicketInv, MatchedStaysOut
    <3> QED
      BY <3>1, <3>2
  <2>4. CASE Confirms(c, g)
    <3> DEFINE f == call[c]
               n == NewMatch(f)
    <3> SUFFICES ASSUME NEW d \in Calls, NEW m \in matches', call'[d].pc = "c.exec",
                        {call'[d].claim.mine, call'[d].claim.other} = {m.mine, m.other}
                 PROVE  {m.mine, m.other} \subseteq revived
      BY <2>4 DEF FreshPair, Confirms, At
    <3>1. d # c /\ call'[d] = call[d]
      BY <2>2, <2>4 DEF Confirms
    <3>2. m \in matches \/ m = n
      BY <2>4 DEF Confirms, TakePair
    <3>3. m # n
      <4>1. n.mine = f.claim.mine /\ n.other = f.claim.other
        BY NewMatchFields
      <4>2. {call[d].claim.mine, call[d].claim.other} # {f.claim.mine, f.claim.other}
        BY <2>4, <3>1, OneClaimPerProposal DEF Confirms, Executing, At
      <4> HIDE DEF n
      <4> QED
        BY <3>1, <4>1, <4>2
    <3> QED
      BY <3>1, <3>2, <3>3 DEF FreshPair, At
  <2>5. CASE Abandons(g) \/ Removes(c, g) \/ Draws(c, g) \/ Recalls(c, g) \/ Enters(c, g) \/ Revives(c, g)
    <3>1. ~Executing(g)
      BY <2>5 DEF Abandons, Removes, Draws, Recalls, Enters, Revives, Ticketless, Resaving, Saving, Executing
    <3>2. UNCHANGED matches /\ revived \subseteq revived'
      BY <2>5 DEF Abandons, Removes, Draws, Recalls, Enters, Revives, Resave
    <3> QED
      BY <2>2, <3>1, <3>2, FewerClaimsStayFresh
  <2> QED
    BY <2>1, <2>3, <2>4, <2>5 DEF Deals
<1>2. CASE Crash
  <2>1. \A d \in Calls : ~Executing(call'[d])
    BY <1>2 DEF Crash, Idle, Executing
  <2> QED
    BY <1>2, <2>1, FewerClaimsStayFresh DEF Crash, history
<1>3. CASE Lapse \/ Age \/ Blocklisting \/ (\E u \in Users : RedisExpire(u)) \/ UNCHANGED vars
  BY <1>3, FewerClaimsStayFresh DEF Lapse, LockLapse, PairLapse, Age, Blocklisting, BlockUser, UnblockUser, RedisExpire,
                                    vars, history, environment
<1> QED
  BY <1>1, <1>2, <1>3 DEF Next, Environment

-----------------------------------------------------------------------------
(* The labels at which an entry is about to be deleted, or a ticket drawn   *)

\* A rejected await goes to a finally block or out of the call.
LEMMA RejectedLabel ==
  ASSUME NEW f \in Frame
  PROVE  Rejected(f).pc \in {"c.unlock", "m.unlock", "ret"}
<1> DEFINE g == Rejected(f)
<1>1. CASE f.pc \in {"c.get", "c.exec"}
  <2>1. g = [f EXCEPT !.pc = "c.unlock", !.res = "error", !.claim = NoClaim]
    BY <1>1 DEF Rejected
  <2> QED
    BY <2>1 DEF Frame
<1>2. CASE f.pc \notin {"c.get", "c.exec"} /\ Searching(f) /\ f.pc # "m.unlock"
  <2>1. g = [f EXCEPT !.pc = "m.unlock", !.res = "error"]
    BY <1>2 DEF Rejected
  <2> QED
    BY <2>1 DEF Frame
<1>3. CASE f.pc \notin {"c.get", "c.exec"} /\ ~(Searching(f) /\ f.pc # "m.unlock")
  <2>1. g = Reply(f, "error")
    BY <1>3 DEF Rejected
  <2> QED
    BY <2>1 DEF Reply, Idle
<1> QED
  BY <1>1, <1>2, <1>3

\* The steps that bring a call to such a label.
Turns(c) ==
  \/ \E u \in Users : LeaveQueue(c, u) \/ (\E sid \in Sids, dto \in JoinDtos[u] : JoinQueue(c, u, sid, dto))
  \/ JoinProfile(c) \/ CleanupGet(c) \/ CleanupZrem(c) \/ StatusGet(c) \/ MatchGet(c) \/ MatchCandidate(c)

LEMMA OnlyTheseTurn ==
  ASSUME TypeInv, NEW c \in Calls, Start(c) \/ Progress(c) \/ Return(c) \/ Throw(c) \/ LostReply(c),
         call'[c].pc \in {"j.profile", "j.get", "k.zrem", "k.del", "l.del"}
  PROVE  Turns(c)
<1> DEFINE f == call[c]
           g == call'[c]
<1>1. call \in [Calls -> Frame]
  BY DEF TypeInv, TypeOK
<1>2. CASE Start(c)
  <2>1. PICK u \in Users :
          \/ \E sid \in Sids, dto \in JoinDtos[u] : JoinQueue(c, u, sid, dto)
          \/ \E sid \in Sids : UpdateSocketId(c, u, sid)
          \/ LeaveQueue(c, u) \/ GetStatus(c, u) \/ TryAtomicMatch(c, u)
    BY <1>2 DEF Start
  <2>2. ASSUME NEW sid \in Sids, UpdateSocketId(c, u, sid) PROVE FALSE
    BY <1>1, <2>2 DEF UpdateSocketId, Goto, Idle
  <2>3. ~GetStatus(c, u) /\ ~TryAtomicMatch(c, u)
    BY <1>1 DEF GetStatus, TryAtomicMatch, Cleanup, Goto, Idle
  <2> QED
    BY <2>1, <2>2, <2>3 DEF Turns
<1>3. CASE Return(c)
  BY <1>1, <1>3 DEF Return, Goto, Idle
<1>4. CASE Throw(c) \/ LostReply(c)
  <2>1. Goto(c, Rejected(f)) /\ f \in Frame
    BY <1>4, FailingIsBusy, BusyFrame
  <2> QED
    BY <1>1, <2>1, RejectedLabel DEF Goto
<1>5. CASE Progress(c)
  <2>1. f \in Frame /\ WellFormed(f) /\ f.user \in Users
    BY <1>5, BusyFrame
       DEF Progress, JoinStep, JoinProfile, JoinGet, JoinResave, JoinSave, JoinZadd, UpdateStep, UpdateGet,
           UpdateSave, LeaveStep, LeaveDel, LeaveZrem, CleanupStep, CleanupRange, CleanupGet, CleanupZrem,
           CleanupDel, StatusStep, StatusGet, StatusRank, MatchStep, MatchLock, MatchGet, MatchBlocks,
           MatchRange, MatchCandidate, MatchZrem, MatchUnlock, ClaimLock, ClaimGet, ClaimExec, ClaimUnlock, At
  <2>2. ASSUME NEW h, Goto(c, h) PROVE g = h
    BY <1>1, <2>2 DEF Goto
  <2>3. ASSUME JoinGet(c) PROVE FALSE
    <3> DEFINE e == entry[f.user]
               old == [f.own EXCEPT !.ticket = e.ticket, !.gender = e.gender]
               new == [f.own EXCEPT !.ticket = stamp + 1]
    <3>1. g = [f EXCEPT !.pc = "j.resave", !.own = old] \/ g = [f EXCEPT !.pc = "j.save", !.own = new]
      BY <2>2, <2>3 DEF JoinGet
    <3> HIDE DEF old, new
    <3> QED
      BY <2>1, <3>1 DEF Frame
  <2>4. ASSUME JoinResave(c) \/ JoinZadd(c) PROVE FALSE
    <3>1. g = Cleanup(f, "s.get")
      BY <2>2, <2>4 DEF JoinResave, JoinZadd
    <3> QED
      BY <2>1, <3>1, CleanupIsWellFormed
  <2>5. ASSUME JoinSave(c) \/ UpdateStep(c) \/ LeaveDel(c) PROVE FALSE
    <3> DEFINE own == [entry[f.user] EXCEPT !.sid = f.own.sid]
    <3>1. \/ g = [f EXCEPT !.pc = "j.zadd"] \/ g = [f EXCEPT !.pc = "l.zrem"] \/ g = Reply(f, "none")
          \/ g = Reply(f, "saved") \/ g = [f EXCEPT !.pc = "u.save", !.own = own]
      BY <2>2, <2>5 DEF JoinSave, UpdateStep, UpdateGet, UpdateSave, LeaveDel
    <3> HIDE DEF own
    <3> QED
      BY <2>1, <3>1 DEF Reply, Idle, Frame
  <2>6. ASSUME LeaveZrem(c) PROVE FALSE
    <3>1. f.back \in {"ret", "m.unlock", "m.next"} /\ (f.back = "m.next" => f.own \in Entry)
      BY <2>1, <2>6 DEF LeaveZrem, At, WellFormed, LeaveLabels
    <3>2. CASE f.back = "ret"
      BY <1>1, <2>1, <2>6, <3>2 DEF LeaveZrem, Goto, Reply, Idle
    <3>3. CASE f.back = "m.unlock"
      BY <1>1, <2>1, <2>6, <3>3 DEF LeaveZrem, Goto, Frame
    <3>4. CASE f.back = "m.next"
      <4>1. g = NextCandidate(f)
        BY <2>2, <2>6, <3>4 DEF LeaveZrem
      <4> QED
        BY <2>1, <3>1, <3>4, <4>1, NextCandidateIsWellFormed
    <3> QED
      BY <3>1, <3>2, <3>3, <3>4
  <2>7. ASSUME CleanupRange(c) \/ CleanupDel(c) PROVE FALSE
    <3> DEFINE h == [f EXCEPT !.todo = zset]
    <3>1. f.back \in {"s.get", "s.rank"}
      BY <2>1, <2>7 DEF CleanupRange, CleanupDel, At, WellFormed, CleanupLabels
    <3>2. h \in Frame /\ h.user \in Users /\ h.back \in {"s.get", "s.rank"}
      BY <2>1, <3>1 DEF TypeInv, TypeOK, Frame
    <3>3. g = NextStale(h) \/ g = NextStale(f)
      BY <2>2, <2>7 DEF CleanupRange, CleanupDel
    <3> HIDE DEF h
    <3> QED
      BY <2>1, <3>1, <3>2, <3>3, NextStaleIsWellFormed
  <2>8. ASSUME StatusRank(c) PROVE FALSE
    BY <1>1, <2>8 DEF StatusRank, Goto, Reply, Idle
  <2>9. CASE MatchStep(c)
    BY <2>9, SearchLabelsAfter DEF Turns
  <2> QED
    BY <1>5, <2>3, <2>4, <2>5, <2>6, <2>7, <2>8, <2>9
       DEF Progress, JoinStep, LeaveStep, CleanupStep, StatusStep, Turns
<1> QED
  BY <1>2, <1>3, <1>4, <1>5

\* A call is about to draw a ticket only when it is a new join, or was one before.
LEMMA JoiningTurns ==
  ASSUME TypeInv, NEW c \in Calls, Start(c) \/ Progress(c) \/ Return(c) \/ Throw(c) \/ LostReply(c),
         call'[c].pc \in {"j.profile", "j.get"}
  PROVE  \/ c \in PendingJoins
         \/ \E u \in Users, sid \in Sids, dto \in Dtos : JoinQueue(c, u, sid, dto)
<1> DEFINE f == call[c]
           g == call'[c]
<1>1. call \in [Calls -> Frame] /\ Turns(c)
  BY OnlyTheseTurn DEF TypeInv, TypeOK
<1>2. ASSUME NEW h, Goto(c, h) PROVE g = h
  BY <1>1, <1>2 DEF Goto
<1>3. CASE JoinProfile(c)
  BY <1>3 DEF JoinProfile, At, PendingJoins
<1>4. ASSUME NEW u \in Users, LeaveQueue(c, u) PROVE FALSE
  BY <1>1, <1>4 DEF LeaveQueue, Leaving, Idle, Goto
<1>5. CASE CleanupGet(c) \/ CleanupZrem(c) \/ StatusGet(c) \/ MatchGet(c) \/ MatchCandidate(c)
  <2>1. /\ f \in Frame /\ f.user \in Users
        /\ CleanupGet(c) \/ CleanupZrem(c) => f.back \in {"s.get", "s.rank"}
        /\ MatchCandidate(c) => f.own \in Entry
    BY <1>5, BusyFrame DEF CleanupGet, CleanupZrem, StatusGet, MatchGet, MatchCandidate, At, WellFormed,
                           CleanupLabels, SearchLabels
  <2>2. /\ CleanupGet(c) \/ CleanupZrem(c) => NextStale(f).pc \in {"k.get", "s.get", "s.rank"}
        /\ MatchCandidate(c) => NextCandidate(f).pc \in {"m.cand", "m.unlock"}
    BY <2>1, NextStaleIsWellFormed, NextCandidateIsWellFormed
  <2>3. ASSUME CleanupGet(c) \/ CleanupZrem(c) PROVE FALSE
    <3> DEFINE e == entry[f.cand]
    <3>1. g = NextStale(f) \/ g = [f EXCEPT !.pc = "k.zrem", !.theirs = e] \/ g = [f EXCEPT !.pc = "k.del"]
      BY <1>2, <2>3 DEF CleanupGet, CleanupZrem
    <3> HIDE DEF e
    <3> QED
      BY <2>1, <2>2, <2>3, <3>1 DEF Frame
  <2>4. ASSUME StatusGet(c) PROVE FALSE
    BY <1>1, <2>1, <2>4 DEF StatusGet, Goto, Reply, Idle, Cleanup, Leaving, Frame
  <2>5. ASSUME MatchGet(c) PROVE FALSE
    BY <1>1, <2>1, <2>5 DEF MatchGet, Goto, Leaving, Frame
  <2>6. ASSUME MatchCandidate(c) PROVE FALSE
    <3> DEFINE e == entry[f.cand]
    <3>1. \/ g = NextCandidate(f) \/ g = [f EXCEPT !.pc = "m.zrem"]
          \/ g = [f EXCEPT !.pc = "l.del", !.back = "m.next"] \/ g = [f EXCEPT !.pc = "c.lock", !.theirs = e]
      BY <1>2, <2>6 DEF MatchCandidate
    <3> HIDE DEF e
    <3> QED
      BY <2>1, <2>2, <2>6, <3>1 DEF Frame
  <2> QED
    BY <1>5, <2>3, <2>4, <2>5, <2>6
<1> QED
  BY <1>1, <1>3, <1>4, <1>5, UsersAssumption DEF Turns

LEMMA StampInit == Init => StampBounded
<1> SUFFICES ASSUME Init PROVE StampBounded
  OBVIOUS
<1>1. PendingJoins = {}
  BY DEF Init, PendingJoins, Idle
<1> QED
  BY <1>1, FS_EmptySet, InitAssumption, BoundsAssumption DEF Init, StampBounded

LEMMA StampStep == TypeInv /\ StampBounded /\ [Next]_vars => StampBounded'
<1> SUFFICES ASSUME TypeInv, StampBounded, [Next]_vars PROVE StampBounded'
  OBVIOUS
<1>1. /\ IsFiniteSet(PendingJoins) /\ Cardinality(PendingJoins) \in Nat
      /\ stamp \in Nat /\ MaxStamp \in Nat
      /\ stamp + Cardinality(PendingJoins) <= MaxStamp
  BY CallsAssumption, BoundsAssumption, FS_Subset, FS_CardinalityType DEF PendingJoins, TypeInv, TypeOK, StampBounded
<1>2. ASSUME PendingJoins' \subseteq PendingJoins, stamp' = stamp
      PROVE  StampBounded'
  <2>1. Cardinality(PendingJoins') \in Nat /\ Cardinality(PendingJoins') <= Cardinality(PendingJoins)
    BY <1>1, <1>2, FS_Subset, FS_CardinalityType
  <2> QED
    BY <1>1, <1>2, <2>1 DEF StampBounded
<1>3. ASSUME NEW c \in Calls, Start(c) \/ Progress(c) \/ Return(c) \/ Throw(c) \/ LostReply(c)
      PROVE  StampBounded'
  <2>1. PICK g \in Frame : Goto(c, g) /\ Deals(c, g)
    BY <1>3, CallDeals
  <2>2. call'[c] = g /\ \A d \in Calls : d # c => call'[d] = call[d]
    BY <2>1, OneFrameChanges
  <2>3. CASE \E u \in Users, sid \in Sids, dto \in Dtos : JoinQueue(c, u, sid, dto)
    <3>1. PendingJoins' \subseteq PendingJoins \cup {c}
      BY <2>2 DEF PendingJoins
    <3>2. stamp + Cardinality(PendingJoins) < MaxStamp /\ stamp' = stamp
      BY <2>3 DEF JoinQueue, environment
    <3>3. /\ IsFiniteSet(PendingJoins \cup {c})
          /\ Cardinality(PendingJoins \cup {c})
               = IF c \in PendingJoins THEN Cardinality(PendingJoins) ELSE Cardinality(PendingJoins) + 1
      BY <1>1, FS_AddElement
    <3>4. Cardinality(PendingJoins') \in Nat /\ Cardinality(PendingJoins') <= Cardinality(PendingJoins) + 1
      BY <1>1, <3>1, <3>3, FS_Subset, FS_CardinalityType
    <3> QED
      BY <1>1, <3>2, <3>4 DEF StampBounded
  <2>4. CASE Draws(c, g)
    <3>1. c \in PendingJoins /\ stamp' = stamp + 1
      BY <2>4 DEF Draws, At, PendingJoins
    <3>2. PendingJoins' \subseteq PendingJoins \ {c}
      BY <2>2, <2>4 DEF Draws, Saving, PendingJoins
    <3>3. /\ IsFiniteSet(PendingJoins \ {c})
          /\ Cardinality(PendingJoins \ {c}) = Cardinality(PendingJoins) - 1
      BY <1>1, <3>1, FS_RemoveElement
    <3>4. /\ Cardinality(PendingJoins') \in Nat
          /\ Cardinality(PendingJoins') <= Cardinality(PendingJoins \ {c})
      BY <3>2, <3>3, FS_Subset, FS_CardinalityType
    <3> QED
      BY <1>1, <3>1, <3>3, <3>4 DEF StampBounded
  <2>5. CASE ~Draws(c, g) /\ ~ \E u \in Users, sid \in Sids, dto \in Dtos : JoinQueue(c, u, sid, dto)
    <3>1. stamp' = stamp
      BY <2>1, <2>5 DEF Deals, Abandons, Removes, Recalls, Proposes, Enters, Revives, Confirms
    <3>2. PendingJoins' \subseteq PendingJoins
      <4>1. c \in PendingJoins' => c \in PendingJoins
        BY <1>3, <2>5, JoiningTurns DEF PendingJoins
      <4> QED
        BY <2>2, <4>1 DEF PendingJoins
    <3> QED
      BY <1>2, <3>1, <3>2
  <2> QED
    BY <2>3, <2>4, <2>5
<1>4. CASE Crash
  <2>1. PendingJoins' = {}
    BY <1>4 DEF Crash, PendingJoins, Idle
  <2> QED
    BY <1>2, <1>4, <2>1 DEF Crash
<1>5. CASE Lapse \/ Age \/ Blocklisting \/ (\E u \in Users : RedisExpire(u)) \/ UNCHANGED vars
  <2>1. UNCHANGED <<call, stamp>>
    BY <1>5 DEF Lapse, LockLapse, PairLapse, Age, Blocklisting, BlockUser, UnblockUser, RedisExpire,
                vars, environment
  <2> QED
    BY <1>2, <2>1 DEF PendingJoins
<1> QED
  BY <1>3, <1>4, <1>5 DEF Next, Environment

-----------------------------------------------------------------------------
(* Who is removed has let a stay run out, or is leaving                     *)

\* Tickets keep their owners, and what has run out stays so.
LEMMA HistoryGrows ==
  ASSUME TypeInv, [Next]_vars
  PROVE  /\ stamp' >= stamp /\ aged' >= aged
         /\ \A t \in 1..stamp : owner'[t] = owner[t]
<1>1. stamp \in Nat /\ aged \in Nat
  BY DEF TypeInv, TypeOK
<1>2. ASSUME NEW c \in Calls, Start(c) \/ Progress(c) \/ Return(c) \/ Throw(c) \/ LostReply(c)
      PROVE  stamp' >= stamp /\ \A t \in 1..stamp : owner'[t] = owner[t]
  <2>1. PICK g \in Frame : Goto(c, g) /\ Deals(c, g)
    BY <1>2, CallDeals
  <2>2. CASE Draws(c, g)
    BY <1>1, <2>2 DEF Draws
  <2>3. CASE UNCHANGED <<stamp, owner>>
    BY <1>1, <2>3
  <2> QED
    BY <2>1, <2>2, <2>3 DEF Deals, Abandons, Removes, Recalls, Proposes, Enters, Revives, Confirms
<1>3. ASSUME NEW c \in Calls, Start(c) \/ Progress(c) \/ Return(c) \/ Throw(c) \/ LostReply(c)
      PROVE  aged' = aged
  BY <1>3 DEF Start, JoinQueue, UpdateSocketId, LeaveQueue, GetStatus, TryAtomicMatch, Return, Throw, LostReply,
              Progress, JoinStep, JoinProfile, JoinGet, JoinResave, JoinSave, JoinZadd, UpdateStep, UpdateGet,
              UpdateSave, LeaveStep, LeaveDel, LeaveZrem, CleanupStep, CleanupRange, CleanupGet, CleanupZrem,
              CleanupDel, StatusStep, StatusGet, StatusRank, MatchStep, MatchLock, MatchGet, MatchBlocks,
              MatchRange, MatchCandidate, MatchZrem, MatchUnlock, ClaimLock, ClaimGet, ClaimExec, ClaimUnlock,
              environment
<1>4. CASE Age
  <2>1. stamp' = stamp /\ owner' = owner /\ aged' = aged + 1
    BY <1>4 DEF Age, history
  <2> QED
    BY <1>1, <2>1
<1>5. CASE Crash \/ Lapse \/ (\E u \in Users : RedisExpire(u)) \/ Blocklisting \/ UNCHANGED vars
  <2>1. UNCHANGED <<stamp, aged, owner>>
    BY <1>5 DEF Crash, Lapse, LockLapse, PairLapse, RedisExpire, Blocklisting, BlockUser,
                UnblockUser, vars, history, environment
  <2> QED
    BY <1>1, <2>1
<1> QED
  BY <1>1, <1>2, <1>3, <1>4, <1>5 DEF Next, Environment

LEMMA LapsedForGood ==
  ASSUME TypeInv, [Next]_vars, NEW u, Lapsed(u)
  PROVE  Lapsed(u)'
<1>1. PICK t \in 1..stamp : owner[t] = u /\ t <= aged
  BY DEF Lapsed
<1>2. /\ stamp' \in Nat /\ aged' \in Nat /\ stamp \in Nat /\ aged \in Nat
      /\ stamp' >= stamp /\ aged' >= aged /\ owner'[t] = owner[t]
  BY TypeStep, HistoryGrows DEF TypeInv, TypeOK
<1>3. t \in 1..stamp' /\ t <= aged' /\ owner'[t] = u
  BY <1>1, <1>2
<1> QED
  BY <1>3 DEF Lapsed

\* Finding an entry of a user past its expiresAt.
LEMMA FoundExpired ==
  ASSUME TicketInv, NEW u \in Users, entry[u] # None, Expired(entry[u])
  PROVE  Lapsed(u)
BY DEF TicketInv, TicketsOwned, Owned, Expired, Lapsed

LEMMA CallJudges ==
  ASSUME TypeInv, TicketInv, NEW c \in Calls, Judged(call[c]),
         Start(c) \/ Progress(c) \/ Return(c) \/ Throw(c) \/ LostReply(c)
  PROVE  Judged(call'[c])
<1> DEFINE f == call[c]
           g == call'[c]
<1>1. CASE g.pc \notin {"k.zrem", "k.del", "l.del"}
  BY <1>1 DEF Judged
<1>2. CASE g.pc \in {"k.zrem", "k.del", "l.del"}
  <2>1. call \in [Calls -> Frame] /\ Turns(c)
    BY <1>2, OnlyTheseTurn DEF TypeInv, TypeOK
  <2>2. ASSUME NEW h, Goto(c, h) PROVE g = h
    BY <2>1, <2>2 DEF Goto
  <2>3. ASSUME NEW u \in Users, NEW sid \in Sids, NEW dto \in JoinDtos[u], JoinQueue(c, u, sid, dto) PROVE FALSE
    BY <1>2, <2>1, <2>3 DEF JoinQueue, Idle, Goto
  <2>4. ASSUME NEW u \in Users, LeaveQueue(c, u) PROVE Judged(g)
    <3>1. g.pc = "l.del" /\ g.back = "ret" /\ g.res = "left"
      BY <2>1, <2>4 DEF LeaveQueue, Leaving, Idle, Goto
    <3> QED
      BY <3>1 DEF Judged, Leaver
  <2>5. ASSUME ~At(c, "idle") PROVE f \in Frame /\ WellFormed(f) /\ f.user \in Users
    BY <2>5, BusyFrame
  <2>6. ASSUME JoinProfile(c) PROVE FALSE
    BY <1>2, <2>1, <2>5, <2>6 DEF JoinProfile, At, Goto, Reply, Idle, Frame
  <2>7. CASE CleanupGet(c)
    <3> DEFINE e == entry[f.cand]
    <3>1. f \in Frame /\ f.user \in Users /\ f.cand \in Users /\ f.back \in {"s.get", "s.rank"}
      BY <2>5, <2>7 DEF CleanupGet, At, WellFormed, CleanupLabels
    <3>2. NextStale(f).pc \notin {"k.zrem", "k.del", "l.del"}
      BY <3>1, NextStaleIsWellFormed
    <3>3. (e = None \/ Expired(e)) /\ g = [f EXCEPT !.pc = "k.zrem", !.theirs = e]
      BY <1>2, <2>2, <2>7, <3>2 DEF CleanupGet
    <3>4. e # None => Lapsed(f.cand)
      BY <3>1, <3>3, FoundExpired
    <3> HIDE DEF e
    <3>5. g.pc = "k.zrem" /\ g.theirs = e /\ g.cand = f.cand
      BY <3>1, <3>3 DEF Frame
    <3> QED
      BY <3>4, <3>5 DEF Judged
  <2>8. CASE CleanupZrem(c)
    <3>1. f \in Frame /\ f.user \in Users /\ f.back \in {"s.get", "s.rank"} /\ f.pc = "k.zrem"
      BY <2>5, <2>8 DEF CleanupZrem, At, WellFormed, CleanupLabels
    <3>2. NextStale(f).pc \notin {"k.zrem", "k.del", "l.del"}
      BY <3>1, NextStaleIsWellFormed
    <3>3. f.theirs # None /\ g = [f EXCEPT !.pc = "k.del"]
      BY <1>2, <2>2, <2>8, <3>2 DEF CleanupZrem
    <3>4. g.pc = "k.del" /\ g.cand = f.cand
      BY <3>1, <3>3 DEF Frame
    <3> QED
      BY <3>1, <3>3, <3>4 DEF Judged
  <2>9. CASE StatusGet(c)
    <3>1. f \in Frame /\ f.user \in Users
      BY <2>5, <2>9 DEF StatusGet, At
    <3>2. entry[f.user] # None /\ Expired(entry[f.user]) /\ g = Leaving(f, "ret", "timedOut")
      BY <1>2, <2>2, <2>9, <3>1 DEF StatusGet, Reply, Idle, Cleanup, Frame
    <3>3. g.pc = "l.del" /\ g.back = "ret" /\ g.user = f.user
      BY <3>1, <3>2 DEF Leaving, Frame
    <3> QED
      BY <3>1, <3>2, <3>3, FoundExpired DEF Judged, Leaver
  <2>10. CASE MatchGet(c)
    <3>1. f \in Frame /\ f.user \in Users
      BY <2>5, <2>10 DEF MatchGet, At
    <3>2. entry[f.user] # None /\ Expired(entry[f.user]) /\ g = Leaving(f, "m.unlock", "none")
      BY <1>2, <2>2, <2>10, <3>1 DEF MatchGet, Frame
    <3>3. g.pc = "l.del" /\ g.back = "m.unlock" /\ g.user = f.user
      BY <3>1, <3>2 DEF Leaving, Frame
    <3> QED
      BY <3>1, <3>2, <3>3, FoundExpired DEF Judged, Leaver
  <2>11. CASE MatchCandidate(c)
    <3> DEFINE e == entry[f.cand]
    <3>1. f \in Frame /\ f.user \in Users /\ f.own \in Entry /\ f.cand \in Users
      BY <2>5, <2>11 DEF MatchCandidate, At, WellFormed, SearchLabels
    <3>2. NextCandidate(f).pc \in {"m.cand", "m.unlock"}
      BY <3>1, NextCandidateIsWellFormed
    <3>3. \/ g = NextCandidate(f) \/ g = [f EXCEPT !.pc = "m.zrem"] \/ g = [f EXCEPT !.pc = "c.lock", !.theirs = e]
          \/ e # None /\ Expired(e) /\ g = [f EXCEPT !.pc = "l.del", !.back = "m.next"]
      BY <2>2, <2>11 DEF MatchCandidate
    <3>4. e # None /\ Expired(e) /\ g = [f EXCEPT !.pc = "l.del", !.back = "m.next"]
      <4> HIDE DEF e
      <4> QED
        BY <1>2, <3>1, <3>2, <3>3 DEF Frame
    <3>5. g.pc = "l.del" /\ g.back = "m.next" /\ g.cand = f.cand
      BY <3>1, <3>4 DEF Frame
    <3> QED
      BY <3>1, <3>4, <3>5, FoundExpired DEF Judged, Leaver
  <2> QED
    BY <2>1, <2>3, <2>4, <2>6, <2>7, <2>8, <2>9, <2>10, <2>11 DEF Turns
<1> QED
  BY <1>1, <1>2

LEMMA JudgedStep == TypeInv /\ TicketInv /\ JudgedInv /\ [Next]_vars => JudgedInv'
<1> SUFFICES ASSUME TypeInv, TicketInv, JudgedInv, [Next]_vars, NEW d \in Calls PROVE Judged(call[d])'
  BY DEF JudgedInv
<1>1. ASSUME Judged(call'[d]) PROVE Judged(call[d])'
  BY <1>1, LapsedForGood DEF Judged, Leaver
<1>2. ASSUME NEW c \in Calls, Start(c) \/ Progress(c) \/ Return(c) \/ Throw(c) \/ LostReply(c)
      PROVE  Judged(call'[d])
  <2>1. PICK g \in Frame : Goto(c, g)
    BY <1>2, CallDeals
  <2>2. d # c => call'[d] = call[d]
    BY <2>1, OneFrameChanges
  <2> QED
    BY <1>2, <2>2, CallJudges DEF JudgedInv
<1>3. ASSUME Crash PROVE Judged(call'[d])
  BY <1>3 DEF Crash, Idle, Judged
<1>4. ASSUME Lapse \/ Age \/ Blocklisting \/ (\E u \in Users : RedisExpire(u)) \/ UNCHANGED vars
      PROVE  Judged(call'[d])
  <2>1. call' = call
    BY <1>4 DEF Lapse, LockLapse, PairLapse, Age, Blocklisting, BlockUser, UnblockUser, RedisExpire, vars
  <2> QED
    BY <2>1 DEF JudgedInv
<1> QED
  BY <1>1, <1>2, <1>3, <1>4 DEF Next, Environment

LEMMA PunctualStep ==
  ASSUME TypeInv, TicketInv, JudgedInv, [Next]_vars, NEW u \in Users,
         entry[u] # None, entry'[u] = None, \A t \in DOMAIN owner : owner[t] = u => t > aged
  PROVE  \E c \in Calls :
           \/ At(c, "l.del") /\ call'[c].pc # "l.del" /\ call[c].user = u /\ call[c].res = "left"
           \/ At(c, "c.exec") /\ call'[c].pc = "c.unlock" /\ u \in Pair(call[c])
<1>1. ~Lapsed(u)
  <2>1. DOMAIN owner = 1..stamp /\ aged \in Nat
    BY DEF TypeInv, TypeOK
  <2> QED
    BY <2>1 DEF Lapsed
<1>2. CASE entry' = entry
  BY <1>2
<1>3. ASSUME NEW c \in Calls, Start(c) \/ Progress(c) \/ Return(c) \/ Throw(c) \/ LostReply(c)
      PROVE  \/ At(c, "l.del") /\ call'[c].pc # "l.del" /\ call[c].user = u /\ call[c].res = "left"
             \/ At(c, "c.exec") /\ call'[c].pc = "c.unlock" /\ u \in Pair(call[c])
  <2> DEFINE f == call[c]
  <2>1. PICK g \in Frame : Goto(c, g) /\ Deals(c, g)
    BY <1>3, CallDeals
  <2>2. g = call'[c]
    BY <2>1, OneFrameChanges
  <2>3. CASE Abandons(g) \/ Draws(c, g) \/ Recalls(c, g) \/ Proposes(c, g)
    BY <1>2, <2>3 DEF Abandons, Draws, Recalls, Proposes
  <2>4. CASE Enters(c, g) \/ Revives(c, g)
    <3>1. entry' = [entry EXCEPT ![f.user] = f.own] /\ f.own # None
      BY <2>4, HolderType, NoneAssumption DEF Enters, Revives, Resave, Save, Ticketless
    <3> QED
      BY <3>1 DEF TypeInv, TypeOK
  <2>5. CASE Removes(c, g)
    <3>1. u = Removed(f) /\ f.pc \in {"l.del", "k.del"} /\ g.pc # f.pc
      BY <2>5 DEF Removes, Delete
    <3>2. f.pc # "k.del" /\ f.res = "left" /\ Leaver(f) = f.user
      BY <1>1, <3>1 DEF JudgedInv, Judged, Removed
    <3> QED
      BY <2>2, <3>1, <3>2 DEF At, Removed
  <2>6. CASE Confirms(c, g)
    BY <2>2, <2>6 DEF Confirms, TakePair, Delete, Executing, At
  <2> QED
    BY <2>1, <2>3, <2>4, <2>5, <2>6 DEF Deals
<1>4. ASSUME NEW v \in Users, RedisExpire(v) PROVE FALSE
  BY <1>1, <1>4, FoundExpired DEF RedisExpire, Delete
<1>5. CASE Crash \/ Lapse \/ Age \/ Blocklisting \/ UNCHANGED vars
  BY <1>2, <1>5 DEF Crash, Lapse, LockLapse, PairLapse, Age, Blocklisting, BlockUser, UnblockUser, vars, redis
<1> QED
  BY <1>3, <1>4, <1>5 DEF Next, Environment

-----------------------------------------------------------------------------
(* The service keeps to the ledger                                          *)

\* The stays of the ledger, and which of them are new, waiting or dead.
LEMMA LedgerParts ==
  ASSUME TypeInv, TicketInv, StampBounded
  PROVE  /\ Waiting \subseteq 1..stamp /\ Unsaved \subseteq 1..stamp /\ Waiting \cap Unsaved = {}
         /\ Dead = 1..stamp \ (Waiting \cup Unsaved)
         /\ 1..stamp \subseteq 1..MaxStamp
<1>1. Waiting \subseteq 1..stamp
  BY DEF TicketInv, TicketsOwned, Owned, Waiting
<1>2. Unsaved \subseteq 1..stamp
  BY DEF TicketInv, TicketsOwned, Owned, Unsaved, At, Saving
<1>3. Waiting \cap Unsaved = {}
  BY DEF TicketInv, UnsavedIsPrivate, Waiting, Unsaved, At, Saving
<1>4. 1..stamp \subseteq 1..MaxStamp
  <2>1. IsFiniteSet(PendingJoins)
    BY CallsAssumption, FS_Subset DEF PendingJoins
  <2>2. Cardinality(PendingJoins) \in Nat
    BY <2>1, FS_CardinalityType
  <2> QED
    BY <2>2, BoundsAssumption DEF StampBounded, TypeInv, TypeOK
<1> QED
  BY <1>1, <1>2, <1>3, <1>4 DEF Dead

\* Two users never wait with one ticket.
LEMMA OneWaiterPerTicket ==
  ASSUME TicketInv, NEW u \in Users, NEW v \in Users, entry[u] # None, entry[v] # None,
         entry[u].ticket = entry[v].ticket
  PROVE  u = v
BY DEF TicketInv, TicketsOwned, Owned

\* Giving up proposals and unsaved tickets.
LEMMA LedgerAbandons ==
  ASSUME TypeInv, TicketInv, StampBounded,
         Waiting' = Waiting, Unsaved' \subseteq Unsaved, Proposed' \subseteq Proposed,
         Confirmed' = Confirmed, UNCHANGED <<stamp, revived>>
  PROVE  [Ledger!Next]_(Ledger!vars)
<1> DEFINE lost == Unsaved \ Unsaved'
           P == Proposed \ Proposed'
<1>1. /\ Dead' = Dead \cup lost /\ Proposed' = Proposed \ P
      /\ lost \in SUBSET (1..MaxStamp \ (Waiting \cup Dead))
  BY LedgerParts DEF Dead
<1>2. CASE P \cup lost = {}
  BY <1>1, <1>2 DEF Ledger!vars
<1>3. CASE P \cup lost # {}
  <2>1. Ledger!Abandon(P, lost)
    BY <1>1, <1>3 DEF Ledger!Abandon
  <2>2. P \in SUBSET Proposed
    OBVIOUS
  <2> HIDE DEF P, lost
  <2>3. Ledger!Next
    BY <1>1, <2>1, <2>2 DEF Ledger!Next
  <2> QED
    BY <2>3
<1> QED
  BY <1>2, <1>3

\* Removing entries ends stays.
LEMMA LedgerWithdraws ==
  ASSUME TypeInv, TicketInv, StampBounded,
         Waiting' \subseteq Waiting, Unsaved' = Unsaved, Proposed' = Proposed,
         Confirmed' = Confirmed, UNCHANGED <<stamp, revived>>
  PROVE  [Ledger!Next]_(Ledger!vars)
<1> DEFINE S == Waiting \ Waiting'
<1>1. Dead' = Dead \cup S /\ Waiting' = Waiting \ S /\ S \in SUBSET Waiting
  BY LedgerParts DEF Dead
<1>2. CASE S = {}
  BY <1>1, <1>2 DEF Ledger!vars
<1>3. CASE S # {}
  <2>1. Ledger!Withdraw(S)
    BY <1>1, <1>3 DEF Ledger!Withdraw
  <2> QED
    BY <1>1, <2>1 DEF Ledger!Next
<1> QED
  BY <1>2, <1>3

\* Saving a new entry begins a stay; it may overwrite an older one.
LEMMA LedgerEnters ==
  ASSUME TypeInv, TicketInv, StampBounded, NEW t \in Unsaved, NEW S \in SUBSET Waiting,
         Waiting' = (Waiting \ S) \cup {t}, Unsaved' = Unsaved \ {t}, Proposed' = Proposed,
         Confirmed' = Confirmed, UNCHANGED <<stamp, revived>>
  PROVE  Ledger!Next
<1>1. Dead' = Dead \cup S /\ t \notin Waiting \cup Dead /\ t \in 1..MaxStamp
  BY LedgerParts DEF Dead
<1>2. Ledger!Enter(t)
  BY <1>1 DEF Ledger!Enter
<1> QED
  BY <1>1, <1>2 DEF Ledger!Next

\* Writing back a ticket that nobody waits with revives a dead stay.
LEMMA LedgerRevives ==
  ASSUME TypeInv, TicketInv, StampBounded, NEW t \in 1..stamp \ (Waiting \cup Unsaved), NEW S \in SUBSET Waiting,
         Waiting' = (Waiting \ S) \cup {t}, Unsaved' = Unsaved, Proposed' = Proposed,
         Confirmed' = Confirmed, stamp' = stamp, revived' = revived \cup {t}
  PROVE  Ledger!Next
<1>1. Dead' = (Dead \cup S) \ {t} /\ t \in Dead /\ t \in 1..MaxStamp
  BY LedgerParts DEF Dead
<1>2. Ledger!Revive(t)
  BY <1>1 DEF Ledger!Revive
<1> QED
  BY <1>1, <1>2 DEF Ledger!Next

LEMMA LedgerProposes ==
  ASSUME TypeInv, TicketInv, StampBounded, NEW a \in Waiting, NEW b \in Waiting, a # b,
         {a, b} \notin Proposed, {a, b} \in Confirmed => {a, b} \subseteq revived,
         Proposed' = Proposed \cup {{a, b}},
         Waiting' = Waiting, Unsaved' = Unsaved, Confirmed' = Confirmed, UNCHANGED <<stamp, revived>>
  PROVE  Ledger!Next
<1> DEFINE p == {a, b}
<1>1. Dead' = Dead
  BY DEF Dead
<1>2. p \in Ledger!Pairs
  BY LedgerParts DEF Ledger!Pairs
<1>3. Ledger!Propose(p)
  BY <1>1 DEF Ledger!Propose
<1> QED
  BY <1>2, <1>3 DEF Ledger!Next

LEMMA LedgerConfirms ==
  ASSUME TypeInv, TicketInv, StampBounded, NEW p \in Proposed, NEW S \in SUBSET Waiting, p \cap Waiting \subseteq S,
         Proposed' = Proposed \ {p}, Confirmed' = Confirmed \cup {p},
         Waiting' = Waiting \ S, Unsaved' = Unsaved, UNCHANGED <<stamp, revived>>
  PROVE  Ledger!Next
<1>1. Dead' = Dead \cup S
  BY LedgerParts DEF Dead
<1>2. Ledger!Confirm(p)
  BY <1>1 DEF Ledger!Confirm
<1> QED
  BY <1>2 DEF Ledger!Next

\* What the change of one frame does to the unsaved tickets and the proposals.
Ticket(f) == f.own.ticket
Proposal(f) == {f.claim.mine, f.claim.other}

LEMMA UnsavedStep ==
  ASSUME TypeInv, TicketInv, NEW c \in Calls, NEW g \in Frame, Goto(c, g)
  PROVE  /\ ~Saving(call[c]) /\ ~Saving(g) => Unsaved' = Unsaved
         /\ Saving(call[c]) /\ ~Saving(g) => /\ Unsaved' = Unsaved \ {Ticket(call[c])}
                                             /\ Ticket(call[c]) \in Unsaved
         /\ ~Saving(call[c]) /\ Saving(g) => Unsaved' = Unsaved \cup {Ticket(g)}
<1>1. call'[c] = g /\ \A d \in Calls : d # c => call'[d] = call[d]
  BY OneFrameChanges
<1>2. \A t : t \in Unsaved <=> \E d \in Calls : Saving(call[d]) /\ Ticket(call[d]) = t
  BY DEF Unsaved, Saving, At, Ticket
<1>3. \A t : t \in Unsaved' <=> \E d \in Calls : Saving(call'[d]) /\ Ticket(call'[d]) = t
  BY DEF Unsaved, Saving, At, Ticket
<1>4. CASE ~Saving(call[c]) /\ ~Saving(g)
  BY <1>1, <1>2, <1>3, <1>4
<1>5. CASE Saving(call[c]) /\ ~Saving(g)
  <2>1. \A d \in Calls : d # c /\ Saving(call[d]) => Ticket(call[d]) # Ticket(call[c])
    BY <1>5 DEF TicketInv, UnsavedIsPrivate, Ticket
  <2> QED
    BY <1>1, <1>2, <1>3, <1>5, <2>1
<1>6. CASE ~Saving(call[c]) /\ Saving(g)
  BY <1>1, <1>2, <1>3, <1>6
<1> QED
  BY <1>4, <1>5, <1>6

LEMMA ProposedStep ==
  ASSUME TypeInv, TicketInv, MutexInv, ~LocksMayLapse, NEW c \in Calls, NEW g \in Frame, Goto(c, g)
  PROVE  /\ ~Executing(call[c]) /\ ~Executing(g) => Proposed' = Proposed
         /\ Executing(call[c]) /\ ~Executing(g) => /\ Proposed' = Proposed \ {Proposal(call[c])}
                                                   /\ Proposal(call[c]) \in Proposed
         /\ ~Executing(call[c]) /\ Executing(g) => Proposed' = Proposed \cup {Proposal(g)}
<1>1. call'[c] = g /\ \A d \in Calls : d # c => call'[d] = call[d]
  BY OneFrameChanges
<1>2. \A p : p \in Proposed <=> \E d \in Calls : Executing(call[d]) /\ Proposal(call[d]) = p
  BY DEF Proposed, Executing, At, Proposal
<1>3. \A p : p \in Proposed' <=> \E d \in Calls : Executing(call'[d]) /\ Proposal(call'[d]) = p
  BY DEF Proposed, Executing, At, Proposal
<1>4. CASE ~Executing(call[c]) /\ ~Executing(g)
  BY <1>1, <1>2, <1>3, <1>4
<1>5. CASE Executing(call[c]) /\ ~Executing(g)
  <2>1. \A d \in Calls : d # c /\ Executing(call[d]) => Proposal(call[d]) # Proposal(call[c])
    BY <1>5, OneClaimPerProposal DEF Executing, At, Proposal
  <2> QED
    BY <1>1, <1>2, <1>3, <1>5, <2>1
<1>6. CASE ~Executing(call[c]) /\ Executing(g)
  BY <1>1, <1>2, <1>3, <1>6
<1> QED
  BY <1>4, <1>5, <1>6

\* Every step of a call is a step of the ledger.
LEMMA CallKeepsLedger ==
  ASSUME TypeInv, TicketInv, MutexInv, SearchInv, StampBounded, ~LocksMayLapse,
         NEW c \in Calls, NEW g \in Frame, Goto(c, g), Deals(c, g)
  PROVE  [Ledger!Next]_(Ledger!vars)
<1> DEFINE f == call[c]
<1>1. \A t : t \in Waiting <=> \E u \in Users : entry[u] # None /\ entry[u].ticket = t
  BY DEF Waiting
<1>2. \A t : t \in Waiting' <=> \E u \in Users : entry'[u] # None /\ entry'[u].ticket = t
  BY DEF Waiting
<1>3. CASE Abandons(g)
  <2>1. Unsaved' \subseteq Unsaved /\ Proposed' \subseteq Proposed
    BY <1>3, UnsavedStep, ProposedStep DEF Abandons, Ticketless
  <2>2. Waiting' = Waiting /\ Confirmed' = Confirmed /\ UNCHANGED <<stamp, revived>>
    BY <1>3 DEF Abandons, Waiting, Confirmed
  <2> QED
    BY <2>1, <2>2, LedgerAbandons
<1>4. CASE Removes(c, g)
  <2>1. Unsaved' = Unsaved /\ Proposed' = Proposed
    BY <1>4, UnsavedStep, ProposedStep, OtherLabelsAreTicketless DEF Removes, Ticketless
  <2>2. Waiting' \subseteq Waiting
    BY <1>1, <1>2, <1>4 DEF Removes, Delete
  <2>3. Confirmed' = Confirmed /\ UNCHANGED <<stamp, revived>>
    BY <1>4 DEF Removes, Confirmed
  <2> QED
    BY <2>1, <2>2, <2>3, LedgerWithdraws
<1>5. CASE Draws(c, g)
  <2>1. Unsaved' = Unsaved \cup {stamp + 1} /\ Proposed' = Proposed
    BY <1>5, UnsavedStep, ProposedStep DEF Draws, At, Saving, Executing, Ticket
  <2>2. Waiting' = Waiting /\ Confirmed' = Confirmed /\ revived' = revived /\ stamp' = stamp + 1
    BY <1>5 DEF Draws, Waiting, Confirmed
  <2>3. Dead' = Dead
    <3>1. stamp \in Nat /\ Waiting \subseteq 1..stamp /\ Unsaved \subseteq 1..stamp
      BY LedgerParts DEF TypeInv, TypeOK
    <3>2. 1..stamp + 1 = 1..stamp \cup {stamp + 1} /\ stamp + 1 \notin 1..stamp
      BY <3>1
    <3> QED
      BY <2>1, <2>2, <3>1, <3>2 DEF Dead
  <2> QED
    BY <2>1, <2>2, <2>3 DEF Ledger!vars
<1>6. CASE Recalls(c, g)
  <2>1. Unsaved' = Unsaved /\ Proposed' = Proposed
    BY <1>6, UnsavedStep, ProposedStep DEF Recalls, Resaving, Saving, Executing
  <2>2. Waiting' = Waiting /\ Confirmed' = Confirmed /\ UNCHANGED <<stamp, revived>>
    BY <1>6 DEF Recalls, Waiting, Confirmed
  <2> QED
    BY <2>1, <2>2, LedgerAbandons
<1>7. CASE Proposes(c, g)
  <2> DEFINE u == f.user
             v == f.cand
             a == entry[u].ticket
             b == entry[v].ticket
  <2>1. u \in Users /\ v \in Users /\ u # v
    BY <1>7, BusyFrame DEF Proposes, At, WellFormed, ClaimLabels, SearchInv, Passing, Looping
  <2>2. entry[u] # None /\ entry[v] # None /\ g.claim = [mine |-> a, other |-> b]
    BY <1>7 DEF Proposes
  <2>3. a \in Waiting /\ b \in Waiting /\ a # b
    BY <1>1, <2>1, <2>2, OneWaiterPerTicket
  <2>4. Proposed' = Proposed \cup {{a, b}} /\ Unsaved' = Unsaved
    <3>1. ~Executing(f) /\ Executing(g) /\ ~Saving(f) /\ ~Saving(g)
      BY <1>7 DEF Proposes, At, Saving, Executing
    <3>2. Proposal(g) = {a, b}
      BY <2>2 DEF Proposal
    <3> QED
      BY <3>1, <3>2, UnsavedStep, ProposedStep
  <2>5. Waiting' = Waiting /\ Confirmed' = Confirmed /\ UNCHANGED <<stamp, revived>>
    BY <1>7 DEF Proposes, Waiting, Confirmed
  <2>6. {a, b} \notin Proposed
    <3> SUFFICES ASSUME NEW d \in Calls, At(d, "c.exec"), {a, b} = {call[d].claim.mine, call[d].claim.other}
                 PROVE  FALSE
      BY DEF Proposed
    <3>1. /\ owner[call[d].claim.mine] = call[d].user /\ owner[call[d].claim.other] = call[d].cand
          /\ owner[a] = u /\ owner[b] = v
      BY <2>1, <2>2 DEF TicketInv, TicketsOwned, Owned, Executing, At
    <3>2. {call[d].user, call[d].cand} = {u, v}
      BY <3>1
    <3>3. c = d
      BY <1>7, <3>2 DEF Proposes, At, MutexInv, PairMutex, Claiming
    <3> QED
      BY <1>7, <3>3 DEF Proposes, At
  <2>7. {a, b} \in Confirmed => {a, b} \subseteq revived
    <3> SUFFICES ASSUME NEW m \in matches, {a, b} = {m.mine, m.other} PROVE {a, b} \subseteq revived
      BY DEF Confirmed
    <3> QED
      BY <2>1, <2>2 DEF TicketInv, MatchedStaysOut
  <2> HIDE DEF a, b
  <2> QED
    BY <2>3, <2>4, <2>5, <2>6, <2>7, LedgerProposes
<1>8. CASE Enters(c, g) \/ Revives(c, g)
  <2> DEFINE u == f.user
             t == Ticket(f)
             S == {entry[x].ticket : x \in {y \in {u} : entry[y] # None}} \ {t}
  <2>1. u \in Users /\ f.own # None /\ entry' = [entry EXCEPT ![u] = f.own]
    BY <1>8, HolderType, NoneAssumption DEF Enters, Revives, Save, Resave, Ticketless
  <2>2. \A x \in Users : entry'[x] = IF x = u THEN f.own ELSE entry[x]
    BY <2>1 DEF TypeInv, TypeOK
  <2>3. S \in SUBSET Waiting
    BY <1>1, <2>1
  <2>4. Waiting' = (Waiting \ S) \cup {t}
    BY <1>1, <1>2, <2>1, <2>2, OneWaiterPerTicket DEF Ticket
  <2>5. Proposed' = Proposed /\ Confirmed' = Confirmed /\ stamp' = stamp
    BY <1>8, ProposedStep DEF Enters, Revives, Saving, Resaving, Executing, Ticketless, Confirmed
  <2>6. CASE Enters(c, g)
    <3>1. Unsaved' = Unsaved \ {t} /\ t \in Unsaved /\ revived' = revived
      BY <2>6, UnsavedStep DEF Enters, Ticketless
    <3> HIDE DEF S, t
    <3> QED
      BY <2>3, <2>4, <2>5, <3>1, LedgerEnters
  <2>7. CASE Revives(c, g)
    <3>1. Unsaved' = Unsaved /\ t \notin Unsaved /\ t \in 1..stamp /\ owner[t] = u
      <4>1. t \notin Unsaved
        BY <2>7 DEF Revives, TicketInv, UnsavedIsPrivate, Unsaved, At, Saving, Ticket
      <4>2. t \in 1..stamp /\ owner[t] = u
        BY <2>7 DEF Revives, TicketInv, TicketsOwned, Owned, Ticket
      <4> QED
        BY <2>7, <4>1, <4>2, UnsavedStep DEF Revives, Ticketless, Resaving, Saving
    <3>2. CASE entry[u] # None /\ entry[u].ticket = t
      <4>1. Waiting' = Waiting
        BY <1>1, <2>1, <2>4, <3>2
      <4>2. revived' = revived
        BY <2>7, <3>2 DEF Revives, Resave, Ticket
      <4> QED
        BY <2>5, <3>1, <4>1, <4>2, LedgerAbandons
    <3>3. CASE ~(entry[u] # None /\ entry[u].ticket = t)
      <4>1. t \notin Waiting
        <5> SUFFICES ASSUME NEW x \in Users, entry[x] # None, entry[x].ticket = t PROVE FALSE
          BY <1>1
        <5>1. x = u
          BY <3>1 DEF TicketInv, TicketsOwned, Owned
        <5> QED
          BY <3>3, <5>1
      <4>2. revived' = revived \cup {t}
        BY <2>7, <3>3 DEF Revives, Resave, Ticket
      <4>3. t \in 1..stamp \ (Waiting \cup Unsaved)
        BY <3>1, <4>1
      <4> HIDE DEF S, t
      <4> QED
        BY <2>3, <2>4, <2>5, <3>1, <4>2, <4>3, LedgerRevives
    <3> QED
      BY <3>2, <3>3
  <2> QED
    BY <1>8, <2>6, <2>7
<1>9. CASE Confirms(c, g)
  <2> DEFINE p == Proposal(f)
             S == {entry[x].ticket : x \in {y \in Users : entry[y] # None /\ y \in {f.user, f.cand}}}
  <2>1. \A x \in Users : entry'[x] = IF x \in {f.user, f.cand} THEN None ELSE entry[x]
    BY <1>9 DEF Confirms, TakePair, Delete, Pair
  <2>2. S \in SUBSET Waiting /\ Waiting' = Waiting \ S
    BY <1>1, <1>2, <2>1, OneWaiterPerTicket
  <2>3. p \cap Waiting \subseteq S
    <3>1. owner[f.claim.mine] = f.user /\ owner[f.claim.other] = f.cand
      BY <1>9 DEF Confirms, TicketInv, TicketsOwned, Owned
    <3>2. \A x \in Users : entry[x] # None /\ entry[x].ticket \in p => x \in {f.user, f.cand}
      BY <3>1 DEF TicketInv, TicketsOwned, Owned, Proposal
    <3> QED
      BY <1>1, <3>2
  <2>4. Proposed' = Proposed \ {p} /\ p \in Proposed /\ Unsaved' = Unsaved
    BY <1>9, UnsavedStep, ProposedStep DEF Confirms, Saving, Executing
  <2>5. Confirmed' = Confirmed \cup {p} /\ UNCHANGED <<stamp, revived>>
    <3> DEFINE m == NewMatch(f)
    <3>1. matches' = matches \cup {m} /\ UNCHANGED <<stamp, revived>>
      BY <1>9 DEF Confirms, TakePair
    <3>2. {m.mine, m.other} = p
      BY NewMatchFields DEF Proposal
    <3> HIDE DEF m
    <3> QED
      BY <3>1, <3>2 DEF Confirmed
  <2> HIDE DEF p, S
  <2> QED
    BY <2>2, <2>3, <2>4, <2>5, LedgerConfirms
<1> QED
  BY <1>3, <1>4, <1>5, <1>6, <1>7, <1>8, <1>9 DEF Deals

LEMMA LedgerInit == Init => Ledger!Init
<1> SUFFICES ASSUME Init PROVE Ledger!Init
  OBVIOUS
<1>1. TypeInv /\ TicketInv /\ StampBounded
  BY TypeInit, TicketInit, StampInit
<1>2. Proposed = {} /\ Confirmed = {} /\ revived = {}
  BY DEF Init, Idle, Proposed, Confirmed, At
<1> QED
  BY <1>1, <1>2, LedgerParts DEF Ledger!Init

LEMMA LedgerStep ==
  TypeInv /\ TicketInv /\ MutexInv /\ SearchInv /\ StampBounded /\ ~LocksMayLapse /\ [Next]_vars
    => [Ledger!Next]_(Ledger!vars)
<1> SUFFICES ASSUME TypeInv, TicketInv, MutexInv, SearchInv, StampBounded, ~LocksMayLapse, [Next]_vars
             PROVE  [Ledger!Next]_(Ledger!vars)
  OBVIOUS
<1>1. ASSUME NEW c \in Calls, Start(c) \/ Progress(c) \/ Return(c) \/ Throw(c) \/ LostReply(c)
      PROVE  [Ledger!Next]_(Ledger!vars)
  BY <1>1, CallDeals, CallKeepsLedger
<1>2. CASE Crash
  <2>1. Unsaved' = {} /\ Proposed' = {}
    BY <1>2 DEF Crash, Idle, Unsaved, Proposed, At
  <2>2. Waiting' = Waiting /\ Confirmed' = Confirmed /\ UNCHANGED <<stamp, revived>>
    BY <1>2 DEF Crash, redis, history, Waiting, Confirmed
  <2> QED
    BY <2>1, <2>2, LedgerAbandons
<1>3. ASSUME NEW u \in Users, RedisExpire(u) PROVE [Ledger!Next]_(Ledger!vars)
  <2>1. Waiting' \subseteq Waiting
    BY <1>3 DEF RedisExpire, Delete, Waiting
  <2>2. Unsaved' = Unsaved /\ Proposed' = Proposed /\ Confirmed' = Confirmed /\ UNCHANGED <<stamp, revived>>
    BY <1>3 DEF RedisExpire, history, environment, Unsaved, Proposed, Confirmed, At
  <2> QED
    BY <2>1, <2>2, LedgerWithdraws
<1>4. CASE Lapse \/ Age \/ Blocklisting \/ UNCHANGED vars
  <2>1. UNCHANGED <<entry, call, matches, revived, stamp>>
    BY <1>4 DEF Lapse, LockLapse, PairLapse, Age, Blocklisting, BlockUser, UnblockUser, vars, redis,
                history, environment
  <2>2. /\ Waiting' = Waiting /\ Unsaved' = Unsaved /\ Proposed' = Proposed /\ Confirmed' = Confirmed
        /\ UNCHANGED <<stamp, revived>>
    BY <2>1 DEF Waiting, Unsaved, Proposed, Confirmed, At
  <2> QED
    BY <2>2, LedgerAbandons
<1> QED
  BY <1>1, <1>2, <1>3, <1>4 DEF Next, Environment

-----------------------------------------------------------------------------
(* The inductive invariant, and what follows from it                        *)

LEMMA InitialInvariant == Init => IInv
<1>1. Init => FreshPair /\ JudgedInv
  BY DEF Init, FreshPair, Idle, JudgedInv, Judged
<1> QED
  BY <1>1, TypeInit, MutexInit, TicketInit, SearchInit, StampInit DEF IInv

LEMMA InvariantStep == IInv /\ [Next]_vars => IInv'
BY TypeStep, MutexStep, TicketStep, SearchStep, FreshStep, StampStep, JudgedStep DEF IInv

LEMMA InductiveInvariant == Spec => []IInv
BY InitialInvariant, InvariantStep, PTL DEF Spec

\* A stay that was matched is in the queue again only through a late re-save.
THEOREM MatchedStaysOutCorrect == Spec => []MatchedStaysOut
<1>1. IInv => MatchedStaysOut
  BY DEF IInv, TicketInv
<1> QED
  BY <1>1, InductiveInvariant, PTL

\* The transaction of a claim does not take the same two stays a second time,
\* however often both users search and whatever fails.
THEOREM FreshPairCorrect == Spec => []FreshPair
<1>1. IInv => FreshPair
  BY DEF IInv
<1> QED
  BY <1>1, InductiveInvariant, PTL

\* The entry of a user none of whose stays has run out disappears only when she
\* leaves or is matched, whatever cleanups and searches have read before.
THEOREM PunctualStaysInCorrect == Spec => PunctualStaysIn
<1>1. IInv /\ [Next]_vars =>
        [\A u \in Users :
           /\ entry[u] # None /\ entry'[u] = None
           /\ \A t \in DOMAIN owner : owner[t] = u => t > aged
           => \E c \in Calls :
                \/ At(c, "l.del") /\ call'[c].pc # "l.del" /\ call[c].user = u /\ call[c].res = "left"
                \/ At(c, "c.exec") /\ call'[c].pc = "c.unlock" /\ u \in Pair(call[c])]_vars
  BY PunctualStep DEF IInv
<1> QED
  BY <1>1, InductiveInvariant, PTL DEF Spec, PunctualStaysIn

\* Matchmaking implements MatchLedger, for every number of users and calls and
\* whatever fails, as long as locks do not lapse under their holders.
THEOREM LedgerImplemented == ASSUME ~LocksMayLapse PROVE Spec => LedgerSpec
<1>1. IInv /\ [Next]_vars => [Ledger!Next]_(Ledger!vars)
  BY LedgerStep DEF IInv
<1> QED
  BY <1>1, LedgerInit, InductiveInvariant, PTL DEF Spec, LedgerSpec, Ledger!Spec
=============================================================================
