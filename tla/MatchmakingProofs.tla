------------------------- MODULE MatchmakingProofs -------------------------
(***************************************************************************)
(* Proofs about Matchmaking for every number of users, calls, tickets,     *)
(* faults and crashes.                                                     *)
(***************************************************************************)
EXTENDS MatchmakingInduction, FiniteSetTheorems, WellFoundedInduction, TLAPS

-----------------------------------------------------------------------------
(* The compatibility test *)

\* The test does not depend on which of the two users searches, whatever the
\* two records hold.
THEOREM CompatibleIsSymmetric ==
  ASSUME NEW a, NEW b
  PROVE  IsCompatible(a, b) <=> IsCompatible(b, a)
BY DEF IsCompatible

\* A filter accepts a gender exactly when it is among those its owner wants.
LEMMA FiltersMeanWishes ==
  ASSUME NEW e \in Profiles, NEW g \in Genders \cup {Unset}
  PROVE  /\ SatisfiesGenderFilter(e, g) <=> g \in WantedByFilter(e)
         /\ SatisfiesChatPreference(e, g) <=> g \in WantedByPreference(e)
<1>1. SatisfiesGenderFilter(e, g) <=> g \in WantedByFilter(e)
  BY DEF SatisfiesGenderFilter, WantedByFilter, Profiles, PreferredGenders, Genders, Unset
<1>2. SatisfiesChatPreference(e, g) <=> g \in WantedByPreference(e)
  <2>1. e.preference \in {"any", "same", "opposite"} /\ e.gender \in {"male", "female", "other", "unset"}
    BY DEF Profiles, ChatPreferences, Genders, Unset
  <2>2. g \in {"male", "female", "other", "unset"}
    BY DEF Genders, Unset
  <2>3. CASE e.preference = "any" \/ e.gender = "unset"
    BY <2>2, <2>3 DEF SatisfiesChatPreference, WantedByPreference, Genders, Unset
  <2>4. CASE e.preference = "same" /\ e.gender # "unset"
    BY <2>1, <2>2, <2>4 DEF SatisfiesChatPreference, WantedByPreference, Genders, Unset
  <2>5. CASE e.preference = "opposite" /\ e.gender # "unset"
    <3>1. Opposite(e.gender, g) <=> \/ e.gender = "male" /\ g = "female"
                                    \/ e.gender = "female" /\ g = "male"
      BY <2>1, <2>2 DEF Opposite
    <3> QED
      BY <2>1, <2>2, <2>5, <3>1 DEF SatisfiesChatPreference, WantedByPreference, Genders, Unset
  <2> QED
    BY <2>1, <2>3, <2>4, <2>5
<1> QED
  BY <1>1, <1>2

\* isCompatible accepts exactly the pairs in which each wants the other.
THEOREM CompatibleMeansMutualWish ==
  ASSUME NEW a \in Profiles, NEW b \in Profiles
  PROVE  IsCompatible(a, b) <=> MutualWish(a, b)
<1>1. a.gender \in Genders \cup {Unset} /\ b.gender \in Genders \cup {Unset}
  BY DEF Profiles
<1> QED
  BY <1>1, FiltersMeanWishes DEF IsCompatible, MutualWish, Wants

-----------------------------------------------------------------------------
(* The helpers that build frames *)

\* Less-than, as the relation the library proves well-founded.
LEMMA LessThanIsWellFounded == IsWellFoundedOn({ss \in Nat \X Nat : ss[1] < ss[2]}, Nat)
BY NatLessThanWellFounded DEF OpToRel

\* A set of numbers that is not empty has a least one.
LEMMA LeastNumber ==
  ASSUME NEW S, S \subseteq Nat, S # {}
  PROVE  \E x \in S : \A y \in S : x <= y
<1> DEFINE R == {ss \in Nat \X Nat : ss[1] < ss[2]}
<1>1. IsWellFoundedOn(R, Nat)
  BY LessThanIsWellFounded
<1> HIDE DEF R
<1>2. PICK x \in S : \A y \in S : ~ (<<y, x>> \in R)
  BY <1>1, WFMin
<1>3. ASSUME NEW y \in S, y < x PROVE <<y, x>> \in R
  BY <1>3 DEF R
<1>4. \A y \in S : ~ (y < x)
  BY <1>2, <1>3
<1> QED
  BY <1>4

\* A sorted set that has a member has a first one.
LEMMA FirstIsUser ==
  ASSUME NEW scores \in [Users -> Nat], scores # NoScores
  PROVE  First(scores) \in Users /\ scores[First(scores)] # 0
<1> DEFINE S == {scores[u] : u \in {v \in Users : scores[v] # 0}}
<1>1. S \subseteq Nat /\ S # {}
  BY DEF NoScores
<1>2. PICK x \in S : \A y \in S : x <= y
  BY <1>1, LeastNumber
<1>3. PICK u \in Users : scores[u] # 0 /\ scores[u] = x
  OBVIOUS
<1>4. \A v \in Users : scores[v] # 0 => scores[u] <= scores[v]
  BY <1>2, <1>3
<1> QED
  BY <1>3, <1>4 DEF First

LEMMA IdleIsWellFormed == Idle \in Frame /\ WellFormed(Idle)
BY DEF Idle, Frame, WellFormed, Labels, MatchLabels, Backs, Results, NoScores, NoClaim,
       SearchLabels, ClaimLabels, CleanupLabels, LeaveLabels

\* At these labels a frame needs a user and nothing else.
LEMMA PlainLabelIsWellFormed ==
  ASSUME NEW g \in Frame, g.user \in Users, g.pc \in {"ret", "m.lock", "m.get", "m.unlock", "s.get", "s.rank"}
  PROVE  WellFormed(g)
BY DEF WellFormed, SearchLabels, ClaimLabels, CleanupLabels, LeaveLabels

\* A settled call keeps its user.
LEMMA ReplyIsWellFormed ==
  ASSUME NEW f \in Frame, f.user \in Users, NEW r \in Results
  PROVE  /\ Reply(f, r) \in Frame /\ WellFormed(Reply(f, r))
         /\ Reply(f, r).pc = "ret" /\ Reply(f, r).user = f.user
<1>1. "ret" \in Labels
  BY DEF Labels
<1>2. Reply(f, r) \in Frame
  BY <1>1, IdleIsWellFormed DEF Reply, Frame
<1>3. Reply(f, r).pc = "ret" /\ Reply(f, r).user = f.user
  BY IdleIsWellFormed DEF Reply, Frame
<1> QED
  BY <1>2, <1>3, PlainLabelIsWellFormed

LEMMA CleanupIsWellFormed ==
  ASSUME NEW f \in Frame, f.user \in Users, NEW b \in {"s.get", "s.rank"}
  PROVE  /\ Cleanup(f, b) \in Frame /\ WellFormed(Cleanup(f, b))
         /\ Cleanup(f, b).pc = "k.range" /\ Cleanup(f, b).user = f.user
BY DEF Cleanup, Frame, WellFormed, Labels, MatchLabels, Backs,
       SearchLabels, ClaimLabels, CleanupLabels, LeaveLabels

LEMMA LeavingIsWellFormed ==
  ASSUME NEW f \in Frame, f.user \in Users, NEW b \in {"ret", "m.unlock"}, NEW r \in Results
  PROVE  /\ Leaving(f, b, r) \in Frame /\ WellFormed(Leaving(f, b, r))
         /\ Leaving(f, b, r).pc = "l.del" /\ Leaving(f, b, r).user = f.user
         /\ Leaving(f, b, r).back = b
BY DEF Leaving, Frame, WellFormed, Labels, MatchLabels, Backs,
       SearchLabels, ClaimLabels, CleanupLabels, LeaveLabels

LEMMA NextCandidateIsWellFormed ==
  ASSUME NEW f \in Frame, f.user \in Users, f.own \in Entry
  PROVE  /\ NextCandidate(f) \in Frame /\ WellFormed(NextCandidate(f))
         /\ NextCandidate(f).pc \in {"m.cand", "m.unlock"} /\ NextCandidate(f).user = f.user
<1>1. CASE f.todo = NoScores
  <2>1. NextCandidate(f) = [f EXCEPT !.pc = "m.unlock", !.todo = NoScores, !.cand = None, !.theirs = None,
                                     !.claim = NoClaim, !.back = "none"]
    BY <1>1 DEF NextCandidate, NextRound
  <2>2. NextCandidate(f) \in Frame
    <3>1. "m.unlock" \in Labels /\ "none" \in Backs
      BY DEF Labels, MatchLabels, Backs
    <3>2. NoScores \in [Users -> Nat] /\ NoClaim \in [mine : Nat, other : Nat]
      BY DEF NoScores, NoClaim
    <3> QED
      BY <2>1, <3>1, <3>2 DEF Frame
  <2>3. NextCandidate(f).pc = "m.unlock" /\ NextCandidate(f).user = f.user
    BY <2>1 DEF Frame
  <2> QED
    BY <2>2, <2>3, PlainLabelIsWellFormed
<1>2. CASE f.todo # NoScores
  <2>1. First(f.todo) \in Users
    BY <1>2, FirstIsUser DEF Frame
  <2>2. NextCandidate(f) = [f EXCEPT !.pc = "m.cand", !.cand = First(f.todo), !.theirs = None,
                                     !.todo = [f.todo EXCEPT ![First(f.todo)] = 0],
                                     !.claim = NoClaim, !.back = "none"]
    BY <1>2 DEF NextCandidate, NextRound
  <2>3. /\ NextCandidate(f) \in Frame
        /\ NextCandidate(f).pc = "m.cand" /\ NextCandidate(f).cand \in Users
        /\ NextCandidate(f).user = f.user /\ NextCandidate(f).own = f.own
    <3>1. "m.cand" \in Labels /\ "none" \in Backs
      BY DEF Labels, MatchLabels, Backs
    <3>2. [f.todo EXCEPT ![First(f.todo)] = 0] \in [Users -> Nat]
      BY DEF Frame
    <3>3. NoClaim \in [mine : Nat, other : Nat]
      BY DEF NoClaim
    <3> QED
      BY <2>1, <2>2, <3>1, <3>2, <3>3 DEF Frame
  <2>4. WellFormed(NextCandidate(f))
    BY <2>3 DEF WellFormed, SearchLabels, ClaimLabels, CleanupLabels, LeaveLabels
  <2> QED
    BY <2>3, <2>4
<1> QED
  BY <1>1, <1>2

LEMMA NextStaleIsWellFormed ==
  ASSUME NEW f \in Frame, f.user \in Users, f.back \in {"s.get", "s.rank"}
  PROVE  /\ NextStale(f) \in Frame /\ WellFormed(NextStale(f))
         /\ NextStale(f).pc \in {"k.get", "s.get", "s.rank"} /\ NextStale(f).user = f.user
<1>1. CASE f.todo = NoScores
  <2>1. NextStale(f) = [f EXCEPT !.pc = f.back, !.todo = f.todo, !.cand = None, !.theirs = None, !.back = "none"]
    BY <1>1 DEF NextStale, NextRound, Frame
  <2> QED
    BY <2>1 DEF Frame, WellFormed, Labels, MatchLabels, Backs,
                SearchLabels, ClaimLabels, CleanupLabels, LeaveLabels
<1>2. CASE f.todo # NoScores
  <2>1. First(f.todo) \in Users
    BY <1>2, FirstIsUser DEF Frame
  <2> QED
    BY <1>2, <2>1 DEF NextStale, NextRound, Frame, WellFormed, Labels, MatchLabels, Backs,
                      SearchLabels, ClaimLabels, CleanupLabels, LeaveLabels
<1> QED
  BY <1>1, <1>2

-----------------------------------------------------------------------------
(* Type correctness *)

\* Replacing one well-formed frame by another keeps all frames well-formed.
LEMMA FrameStep ==
  ASSUME TypeInv, NEW c \in Calls, NEW g \in Frame, WellFormed(g), Goto(c, g)
  PROVE  call' \in [Calls -> Frame] /\ FramesWellFormed'
BY DEF TypeInv, TypeOK, FramesWellFormed, Goto

\* What a busy call may assume of its own frame.
LEMMA BusyFrame ==
  ASSUME TypeInv, NEW c \in Calls, ~At(c, "idle")
  PROVE  call[c] \in Frame /\ WellFormed(call[c]) /\ call[c].user \in Users
BY DEF TypeInv, TypeOK, FramesWellFormed, WellFormed, At

\* The entry of a user is null or an entry.
LEMMA EntryType == ASSUME TypeInv, NEW u \in Users PROVE entry[u] \in Entry \cup {None}
BY DEF TypeInv, TypeOK

LEMMA RequestType ==
  ASSUME NEW u \in Users, NEW sid \in Sids, NEW dto \in Dtos
  PROVE  Request(u, sid, dto) \in Entry
BY UsersAssumption DEF Request, Entry, Dtos

\* Every operation starts from a well-formed frame.
LEMMA StartFrame ==
  ASSUME TypeInv, NEW c \in Calls, Start(c)
  PROVE  \E g \in Frame : WellFormed(g) /\ Goto(c, g)
<1>1. PICK u \in Users :
        \/ \E sid \in Sids, dto \in JoinDtos[u] : JoinQueue(c, u, sid, dto)
        \/ \E sid \in Sids : UpdateSocketId(c, u, sid)
        \/ LeaveQueue(c, u) \/ GetStatus(c, u) \/ TryAtomicMatch(c, u)
  BY DEF Start
<1> DEFINE f == [Idle EXCEPT !.user = u]
<1>2. f \in Frame /\ f.user \in Users
  BY IdleIsWellFormed DEF Frame, Idle
<1>3. ASSUME NEW sid \in Sids, NEW dto \in JoinDtos[u], JoinQueue(c, u, sid, dto)
      PROVE  \E g \in Frame : WellFormed(g) /\ Goto(c, g)
  <2> DEFINE g == [Idle EXCEPT !.pc = "j.profile", !.user = u, !.own = Request(u, sid, dto)]
  <2>1. Request(u, sid, dto) \in Entry
    BY RequestType, UsersAssumption
  <2>2. g \in Frame /\ WellFormed(g)
    BY <2>1, IdleIsWellFormed
       DEF Frame, Idle, WellFormed, Labels, MatchLabels, SearchLabels, ClaimLabels, CleanupLabels, LeaveLabels
  <2> QED
    BY <1>3, <2>2 DEF JoinQueue
<1>4. ASSUME NEW sid \in Sids, UpdateSocketId(c, u, sid)
      PROVE  \E g \in Frame : WellFormed(g) /\ Goto(c, g)
  <2> DEFINE g == [Idle EXCEPT !.pc = "u.get", !.user = u, !.own = Request(u, sid, NoWish)]
  <2>1. Request(u, sid, NoWish) \in Entry
    BY RequestType DEF NoWish, Dtos, ChatPreferences, PreferredGenders
  <2>2. g \in Frame /\ WellFormed(g)
    BY <2>1, IdleIsWellFormed
       DEF Frame, Idle, WellFormed, Labels, MatchLabels, SearchLabels, ClaimLabels, CleanupLabels, LeaveLabels
  <2> QED
    BY <1>4, <2>2 DEF UpdateSocketId
<1>5. CASE LeaveQueue(c, u)
  BY <1>2, <1>5, LeavingIsWellFormed DEF LeaveQueue, Results
<1>6. CASE GetStatus(c, u)
  BY <1>2, <1>6, CleanupIsWellFormed DEF GetStatus
<1>7. CASE TryAtomicMatch(c, u)
  <2> DEFINE g == [Idle EXCEPT !.pc = "m.lock", !.user = u]
  <2>1. g \in Frame /\ WellFormed(g)
    BY IdleIsWellFormed
       DEF Frame, Idle, WellFormed, Labels, MatchLabels, SearchLabels, ClaimLabels, CleanupLabels, LeaveLabels
  <2> QED
    BY <1>7, <2>1 DEF TryAtomicMatch
<1> QED
  BY <1>1, <1>3, <1>4, <1>5, <1>6, <1>7

\* A step of joinQueue leaves a well-formed frame.
LEMMA JoinFrame ==
  ASSUME TypeInv, NEW c \in Calls, JoinStep(c)
  PROVE  \E g \in Frame : WellFormed(g) /\ Goto(c, g)
<1> DEFINE f == call[c]
           u == f.user
<1>1. f \in Frame /\ WellFormed(f) /\ u \in Users
  BY BusyFrame DEF JoinStep, JoinProfile, JoinGet, JoinResave, JoinSave, JoinZadd, At
<1>2. CASE JoinProfile(c)
  <2>1. WellFormed([f EXCEPT !.pc = "j.get"]) /\ [f EXCEPT !.pc = "j.get"] \in Frame
    BY <1>1, <1>2 DEF JoinProfile, At, WellFormed, Frame, Labels, MatchLabels, SearchLabels, ClaimLabels, CleanupLabels, LeaveLabels
  <2>2. WellFormed(Reply(f, "error")) /\ Reply(f, "error") \in Frame
    BY <1>1, ReplyIsWellFormed DEF Results
  <2> QED
    BY <1>2, <2>1, <2>2 DEF JoinProfile
<1>3. CASE JoinGet(c)
  <2>1. f.own \in Entry /\ stamp \in Nat
    BY <1>1, <1>3 DEF JoinGet, At, WellFormed, TypeInv, TypeOK
  <2>2. ASSUME NEW e \in Entry, NEW l \in {"j.resave", "j.save"}
        PROVE  LET g == [f EXCEPT !.pc = l, !.own = e] IN g \in Frame /\ WellFormed(g)
    BY <1>1 DEF WellFormed, Frame, Labels, MatchLabels, SearchLabels, ClaimLabels, CleanupLabels, LeaveLabels
  <2>3. CASE entry[u] # None
    <3> DEFINE e == [f.own EXCEPT !.ticket = entry[u].ticket, !.gender = entry[u].gender]
    <3>1. e \in Entry
      BY <1>1, <2>1, <2>3, EntryType DEF Entry
    <3> QED
      BY <1>3, <2>2, <2>3, <3>1 DEF JoinGet
  <2>4. CASE entry[u] = None
    <3> DEFINE e == [f.own EXCEPT !.ticket = stamp + 1]
    <3>1. e \in Entry
      BY <2>1 DEF Entry
    <3> QED
      BY <1>3, <2>2, <2>4, <3>1 DEF JoinGet
  <2> QED
    BY <2>3, <2>4
<1>4. CASE JoinResave(c)
  BY <1>1, <1>4, CleanupIsWellFormed DEF JoinResave
<1>5. CASE JoinSave(c)
  BY <1>1, <1>5 DEF JoinSave, At, WellFormed, Frame, Labels, MatchLabels, SearchLabels, ClaimLabels, CleanupLabels, LeaveLabels
<1>6. CASE JoinZadd(c)
  BY <1>1, <1>6, CleanupIsWellFormed DEF JoinZadd
<1> QED
  BY <1>2, <1>3, <1>4, <1>5, <1>6 DEF JoinStep

\* So does a step of updateSocketId.
LEMMA UpdateFrame ==
  ASSUME TypeInv, NEW c \in Calls, UpdateStep(c)
  PROVE  \E g \in Frame : WellFormed(g) /\ Goto(c, g)
<1> DEFINE f == call[c]
           u == f.user
<1>1. f \in Frame /\ WellFormed(f) /\ u \in Users
  BY BusyFrame DEF UpdateStep, UpdateGet, UpdateSave, At
<1>2. CASE UpdateGet(c) /\ entry[u] = None
  BY <1>1, <1>2, ReplyIsWellFormed DEF UpdateGet, Results
<1>3. CASE UpdateGet(c) /\ entry[u] # None
  <2> DEFINE g == [f EXCEPT !.pc = "u.save", !.own = [entry[u] EXCEPT !.sid = f.own.sid]]
  <2>1. [entry[u] EXCEPT !.sid = f.own.sid] \in Entry
    <3>1. entry[u] \in Entry
      BY <1>1, <1>3, EntryType
    <3>2. f.own \in Entry
      BY <1>1, <1>3 DEF UpdateGet, At, WellFormed
    <3> QED
      BY <3>1, <3>2 DEF Entry
  <2>2. g \in Frame /\ g.pc = "u.save" /\ g.user = u /\ g.own \in Entry
    BY <1>1, <2>1 DEF Frame, Labels
  <2>3. WellFormed(g)
    BY <1>1, <2>2 DEF WellFormed, SearchLabels, ClaimLabels, CleanupLabels, LeaveLabels
  <2> QED
    BY <1>3, <2>2, <2>3 DEF UpdateGet
<1>4. CASE UpdateSave(c)
  BY <1>1, <1>4, ReplyIsWellFormed DEF UpdateSave, Results
<1> QED
  BY <1>2, <1>3, <1>4 DEF UpdateStep

\* So does a step of leaveQueue.
LEMMA LeaveFrame ==
  ASSUME TypeInv, NEW c \in Calls, LeaveStep(c)
  PROVE  \E g \in Frame : WellFormed(g) /\ Goto(c, g)
<1> DEFINE f == call[c]
<1>1. f \in Frame /\ WellFormed(f) /\ f.user \in Users
  BY BusyFrame DEF LeaveStep, LeaveDel, LeaveZrem, At
<1>2. CASE LeaveDel(c)
  BY <1>1, <1>2 DEF LeaveDel, At, WellFormed, Frame, Labels, MatchLabels, SearchLabels, ClaimLabels, CleanupLabels, LeaveLabels
<1>3. CASE LeaveZrem(c)
  <2>1. f.back \in {"ret", "m.unlock", "m.next"}
    BY <1>1, <1>3 DEF LeaveZrem, At, WellFormed, LeaveLabels
  <2>2. CASE f.back = "ret"
    BY <1>1, <1>3, <2>2, ReplyIsWellFormed DEF LeaveZrem, Frame
  <2>3. CASE f.back = "m.unlock"
    <3> DEFINE g == [f EXCEPT !.pc = "m.unlock", !.back = "none"]
    <3>1. g \in Frame /\ g.pc = "m.unlock" /\ g.user = f.user
      BY <1>1 DEF Frame, Backs, Labels, MatchLabels
    <3>2. WellFormed(g)
      BY <1>1, <3>1, PlainLabelIsWellFormed
    <3> QED
      BY <1>3, <2>3, <3>1, <3>2 DEF LeaveZrem
  <2>4. CASE f.back = "m.next"
    <3>1. f.own \in Entry
      BY <1>1, <1>3, <2>4 DEF LeaveZrem, At, WellFormed, LeaveLabels
    <3> QED
      BY <1>1, <1>3, <2>4, <3>1, NextCandidateIsWellFormed DEF LeaveZrem
  <2> QED
    BY <2>1, <2>2, <2>3, <2>4
<1> QED
  BY <1>2, <1>3 DEF LeaveStep

\* So does a step of a cleanup.
LEMMA CleanupFrame ==
  ASSUME TypeInv, NEW c \in Calls, CleanupStep(c)
  PROVE  \E g \in Frame : WellFormed(g) /\ Goto(c, g)
<1> DEFINE f == call[c]
<1>1. f \in Frame /\ WellFormed(f) /\ f.user \in Users /\ f.back \in {"s.get", "s.rank"}
  BY BusyFrame DEF CleanupStep, CleanupRange, CleanupGet, CleanupZrem, CleanupDel, At, WellFormed, CleanupLabels
<1>2. CASE CleanupRange(c)
  <2>1. [f EXCEPT !.todo = zset] \in Frame
    BY <1>1 DEF TypeInv, TypeOK, Frame
  <2> QED
    BY <1>1, <1>2, <2>1, NextStaleIsWellFormed DEF CleanupRange, Frame
<1>3. CASE CleanupGet(c)
  <2> DEFINE g == [f EXCEPT !.pc = "k.zrem", !.theirs = entry[f.cand]]
  <2>1. f.cand \in Users
    BY <1>1, <1>3 DEF CleanupGet, At, WellFormed
  <2>2. g \in Frame /\ WellFormed(g)
    BY <1>1, <2>1, EntryType DEF WellFormed, Frame, Labels, MatchLabels, SearchLabels, ClaimLabels, CleanupLabels, LeaveLabels
  <2> QED
    BY <1>1, <1>3, <2>2, NextStaleIsWellFormed DEF CleanupGet
<1>4. CASE CleanupZrem(c)
  <2> DEFINE g == [f EXCEPT !.pc = "k.del"]
  <2>1. g \in Frame /\ WellFormed(g)
    BY <1>1, <1>4 DEF CleanupZrem, At, WellFormed, Frame, Labels, MatchLabels, SearchLabels, ClaimLabels, CleanupLabels, LeaveLabels
  <2> QED
    BY <1>1, <1>4, <2>1, NextStaleIsWellFormed DEF CleanupZrem
<1>5. CASE CleanupDel(c)
  BY <1>1, <1>5, NextStaleIsWellFormed DEF CleanupDel
<1> QED
  BY <1>2, <1>3, <1>4, <1>5 DEF CleanupStep

\* So does a step of getStatus.
LEMMA StatusFrame ==
  ASSUME TypeInv, NEW c \in Calls, StatusStep(c)
  PROVE  \E g \in Frame : WellFormed(g) /\ Goto(c, g)
<1> DEFINE f == call[c]
<1>1. f \in Frame /\ WellFormed(f) /\ f.user \in Users
  BY BusyFrame DEF StatusStep, StatusGet, StatusRank, At
<1>2. CASE StatusGet(c)
  <2>1. WellFormed(Reply(f, "absent")) /\ Reply(f, "absent") \in Frame
    BY <1>1, ReplyIsWellFormed DEF Results
  <2>2. WellFormed(Leaving(f, "ret", "timedOut")) /\ Leaving(f, "ret", "timedOut") \in Frame
    BY <1>1, LeavingIsWellFormed DEF Results
  <2>3. WellFormed(Cleanup(f, "s.rank")) /\ Cleanup(f, "s.rank") \in Frame
    BY <1>1, CleanupIsWellFormed
  <2> QED
    BY <1>2, <2>1, <2>2, <2>3 DEF StatusGet
<1>3. CASE StatusRank(c)
  BY <1>1, <1>3, ReplyIsWellFormed DEF StatusRank, Results
<1> QED
  BY <1>2, <1>3 DEF StatusStep

\* So does a step of tryAtomicMatch or claimPair.
LEMMA MatchFrame ==
  ASSUME TypeInv, NEW c \in Calls, MatchStep(c)
  PROVE  \E g \in Frame : WellFormed(g) /\ Goto(c, g)
<1> DEFINE f == call[c]
<1>1. f \in Frame /\ WellFormed(f) /\ f.user \in Users
  BY BusyFrame
     DEF MatchStep, MatchLock, MatchGet, MatchBlocks, MatchRange, MatchCandidate, MatchZrem, MatchUnlock,
         ClaimLock, ClaimGet, ClaimExec, ClaimUnlock, At
<1>2. CASE MatchLock(c)
  <2>1. WellFormed(Reply(f, "none")) /\ Reply(f, "none") \in Frame
    BY <1>1, ReplyIsWellFormed DEF Results
  <2>2. WellFormed([f EXCEPT !.pc = "m.get"]) /\ [f EXCEPT !.pc = "m.get"] \in Frame
    BY <1>1 DEF WellFormed, Frame, Labels, MatchLabels, SearchLabels, ClaimLabels, CleanupLabels, LeaveLabels
  <2> QED
    BY <1>2, <2>1, <2>2 DEF MatchLock
<1>3. CASE MatchGet(c)
  <2>1. WellFormed([f EXCEPT !.pc = "m.unlock"]) /\ [f EXCEPT !.pc = "m.unlock"] \in Frame
    BY <1>1 DEF WellFormed, Frame, Labels, MatchLabels, SearchLabels, ClaimLabels, CleanupLabels, LeaveLabels
  <2>2. WellFormed(Leaving(f, "m.unlock", "none")) /\ Leaving(f, "m.unlock", "none") \in Frame
    BY <1>1, LeavingIsWellFormed DEF Results
  <2>3. ASSUME NEW e \in Entry
        PROVE  LET g == [f EXCEPT !.pc = "m.blocks", !.own = e] IN WellFormed(g) /\ g \in Frame
    <3> DEFINE g == [f EXCEPT !.pc = "m.blocks", !.own = e]
    <3>1. g \in Frame /\ g.pc = "m.blocks" /\ g.user = f.user /\ g.own = e
      BY <1>1, <2>3 DEF Frame, Labels, MatchLabels
    <3>2. WellFormed(g)
      BY <1>1, <2>3, <3>1 DEF WellFormed, SearchLabels, ClaimLabels, CleanupLabels, LeaveLabels
    <3> QED
      BY <3>1, <3>2
  <2>4. entry[f.user] \in Entry \cup {None}
    BY <1>1, EntryType
  <2> QED
    BY <1>3, <2>1, <2>2, <2>3, <2>4 DEF MatchGet
<1>4. CASE MatchBlocks(c)
  <2> DEFINE g == [f EXCEPT !.pc = "m.range", !.skip = MutualBlocks(f.user)]
  <2>1. MutualBlocks(f.user) \subseteq Users
    BY DEF MutualBlocks
  <2>2. g \in Frame /\ WellFormed(g)
    BY <1>1, <1>4, <2>1
       DEF MatchBlocks, At, WellFormed, Frame, Labels, MatchLabels, SearchLabels, ClaimLabels, CleanupLabels, LeaveLabels
  <2> QED
    BY <1>4, <2>2 DEF MatchBlocks
<1>5. CASE MatchRange(c)
  <2> DEFINE others == [v \in Users |-> IF v \in f.skip \cup {f.user} THEN 0 ELSE zset[v]]
             g == [f EXCEPT !.todo = others]
  <2>1. others \in [Users -> Nat]
    BY DEF TypeInv, TypeOK
  <2>2. f.own \in Entry
    BY <1>1, <1>5 DEF MatchRange, At, WellFormed, SearchLabels
  <2> HIDE DEF others
  <2>3. g \in Frame /\ g.user \in Users /\ g.own \in Entry
    BY <1>1, <2>1, <2>2 DEF Frame
  <2>4. Goto(c, NextCandidate(g))
    BY <1>5 DEF MatchRange, others
  <2> QED
    BY <2>3, <2>4, NextCandidateIsWellFormed
<1>6. CASE MatchCandidate(c)
  <2>1. f.own \in Entry /\ f.cand \in Users
    BY <1>1, <1>6 DEF MatchCandidate, At, WellFormed, SearchLabels
  <2>2. entry[f.cand] \in Entry \cup {None}
    BY <2>1, EntryType
  <2>3. WellFormed([f EXCEPT !.pc = "m.zrem"]) /\ [f EXCEPT !.pc = "m.zrem"] \in Frame
    BY <1>1, <2>1 DEF WellFormed, Frame, Labels, MatchLabels, SearchLabels, ClaimLabels, CleanupLabels, LeaveLabels
  <2>4. LET g == [f EXCEPT !.pc = "l.del", !.back = "m.next"] IN WellFormed(g) /\ g \in Frame
    BY <1>1, <2>1 DEF WellFormed, Frame, Backs, Labels, MatchLabels, SearchLabels, ClaimLabels, CleanupLabels, LeaveLabels
  <2>5. ASSUME NEW e \in Entry
        PROVE  LET g == [f EXCEPT !.pc = "c.lock", !.theirs = e] IN WellFormed(g) /\ g \in Frame
    BY <1>1, <2>1 DEF WellFormed, Frame, Labels, MatchLabels, SearchLabels, ClaimLabels, CleanupLabels, LeaveLabels
  <2>6. WellFormed(NextCandidate(f)) /\ NextCandidate(f) \in Frame
    BY <1>1, <2>1, NextCandidateIsWellFormed
  <2> QED
    BY <1>6, <2>2, <2>3, <2>4, <2>5, <2>6 DEF MatchCandidate
<1>7. CASE MatchZrem(c)
  <2>1. f.own \in Entry
    BY <1>1, <1>7 DEF MatchZrem, At, WellFormed, SearchLabels
  <2> QED
    BY <1>1, <1>7, <2>1, NextCandidateIsWellFormed DEF MatchZrem
<1>8. CASE MatchUnlock(c)
  <2>1. f.res \in Results /\ Reply(f, f.res) \in Frame /\ WellFormed(Reply(f, f.res))
    BY <1>1, ReplyIsWellFormed DEF Frame
  <2> DEFINE g == [Reply(f, "matched") EXCEPT !.cand = f.cand, !.theirs = f.theirs]
  <2>2. g \in Frame /\ g.user \in Users /\ g.pc = "ret"
    <3>1. Reply(f, "matched") \in Frame /\ Reply(f, "matched").user = f.user /\ Reply(f, "matched").pc = "ret"
      BY <1>1, ReplyIsWellFormed DEF Results
    <3> QED
      BY <1>1, <3>1 DEF Frame
  <2>3. WellFormed(g)
    BY <2>2, PlainLabelIsWellFormed
  <2> QED
    BY <1>8, <2>1, <2>2, <2>3 DEF MatchUnlock
<1>9. CASE ClaimLock(c) \/ ClaimGet(c) \/ ClaimExec(c) \/ ClaimUnlock(c)
  <2>1. f.own \in Entry /\ f.cand \in Users /\ f.theirs \in Entry
    BY <1>1, <1>9 DEF ClaimLock, ClaimGet, ClaimExec, ClaimUnlock, At, WellFormed, SearchLabels, ClaimLabels
  <2>2. WellFormed(NextCandidate(f)) /\ NextCandidate(f) \in Frame
    BY <1>1, <2>1, NextCandidateIsWellFormed
  <2>3. ASSUME NEW l \in {"c.get", "c.unlock", "m.unlock"}
        PROVE  LET g == [f EXCEPT !.pc = l] IN WellFormed(g) /\ g \in Frame
    BY <1>1, <2>1 DEF WellFormed, Frame, Labels, MatchLabels, SearchLabels, ClaimLabels, CleanupLabels, LeaveLabels
  <2>4. ASSUME NEW k \in [mine : Nat, other : Nat]
        PROVE  LET g == [f EXCEPT !.pc = "c.exec", !.claim = k] IN WellFormed(g) /\ g \in Frame
    BY <1>1, <2>1 DEF WellFormed, Frame, Labels, MatchLabels, SearchLabels, ClaimLabels, CleanupLabels, LeaveLabels
  <2>5. LET g == [f EXCEPT !.pc = "c.unlock", !.res = "matched"] IN WellFormed(g) /\ g \in Frame
    BY <1>1, <2>1 DEF WellFormed, Frame, Results, Labels, MatchLabels, SearchLabels, ClaimLabels, CleanupLabels, LeaveLabels
  <2>6. CASE ClaimGet(c)
    <3>1. entry[f.user] \in Entry \cup {None} /\ entry[f.cand] \in Entry \cup {None}
      BY <1>1, <2>1, EntryType
    <3>2. ASSUME entry[f.user] # None, entry[f.cand] # None
          PROVE  [mine |-> entry[f.user].ticket, other |-> entry[f.cand].ticket] \in [mine : Nat, other : Nat]
      BY <3>1, <3>2 DEF Entry
    <3> QED
      BY <2>3, <2>4, <2>6, <3>2 DEF ClaimGet
  <2> QED
    BY <1>9, <2>2, <2>3, <2>5, <2>6 DEF ClaimLock, ClaimExec, ClaimUnlock
<1> QED
  BY <1>2, <1>3, <1>4, <1>5, <1>6, <1>7, <1>8, <1>9 DEF MatchStep

\* A rejected await leaves a well-formed frame too.
LEMMA RejectedIsWellFormed ==
  ASSUME TypeInv, NEW c \in Calls, ~At(c, "idle")
  PROVE  Rejected(call[c]) \in Frame /\ WellFormed(Rejected(call[c]))
<1> DEFINE f == call[c]
<1>1. f \in Frame /\ WellFormed(f) /\ f.user \in Users
  BY BusyFrame
<1>2. WellFormed(Reply(f, "error")) /\ Reply(f, "error") \in Frame
  BY <1>1, ReplyIsWellFormed DEF Results
<1>3. LET g == [f EXCEPT !.pc = "m.unlock", !.res = "error"] IN WellFormed(g) /\ g \in Frame
  <2> DEFINE g == [f EXCEPT !.pc = "m.unlock", !.res = "error"]
  <2>1. g \in Frame /\ g.user \in Users /\ g.pc = "m.unlock"
    BY <1>1 DEF Frame, Results, Labels, MatchLabels
  <2> QED
    BY <2>1, PlainLabelIsWellFormed
<1>4. ASSUME f.pc \in {"c.get", "c.exec"}
      PROVE  LET g == [f EXCEPT !.pc = "c.unlock", !.res = "error", !.claim = NoClaim]
             IN  WellFormed(g) /\ g \in Frame
  BY <1>1, <1>4 DEF WellFormed, Frame, Results, NoClaim, Labels, MatchLabels, SearchLabels, ClaimLabels, CleanupLabels, LeaveLabels
<1> QED
  <2>1. CASE f.pc \in {"c.get", "c.exec"}
    BY <1>4, <2>1 DEF Rejected
  <2>2. CASE f.pc \notin {"c.get", "c.exec"} /\ Searching(f) /\ f.pc # "m.unlock"
    BY <1>3, <2>2 DEF Rejected
  <2>3. CASE f.pc \notin {"c.get", "c.exec"} /\ ~(Searching(f) /\ f.pc # "m.unlock")
    BY <1>2, <2>3 DEF Rejected
  <2> QED
    BY <2>1, <2>2, <2>3

\* The call whose await rejects or whose reply is lost is under way.
LEMMA FailingIsBusy ==
  ASSUME NEW c \in Calls, Throw(c) \/ LostReply(c)
  PROVE  ~At(c, "idle") /\ Goto(c, Rejected(call[c]))
BY DEF Throw, LostReply, At

\* Type correctness of everything but the frames.
DataOK ==
  /\ entry \in [Users -> Entry \cup {None}]
  /\ zset \in [Users -> Nat]
  /\ lock \in [Users -> BOOLEAN]
  /\ pairLock \subseteq SUBSET Users
  /\ blocks \subseteq Users \X Users
  /\ stamp \in Nat
  /\ aged \in Nat
  /\ IsFiniteSet(matches)
  /\ matches \subseteq [no : Nat, by : Users, with : Users, mine : Nat, other : Nat]
  /\ revived \subseteq Nat
  /\ owner \in [1..stamp -> Users]
  /\ faults \in Nat
  /\ crashes \in Nat

\* The transactions are finitely many, so that they can be numbered.
LEMMA NewMatchType ==
  ASSUME IsFiniteSet(matches), NEW f, f.user \in Users, f.cand \in Users,
         f.claim.mine \in Nat, f.claim.other \in Nat
  PROVE  /\ NewMatch(f) \in [no : Nat, by : Users, with : Users, mine : Nat, other : Nat]
         /\ IsFiniteSet(matches \cup {NewMatch(f)})
<1>1. Cardinality(matches) + 1 \in Nat
  BY FS_CardinalityType
<1>2. NewMatch(f) \in [no : Nat, by : Users, with : Users, mine : Nat, other : Nat]
  BY <1>1 DEF NewMatch
<1> QED
  BY <1>2, FS_AddElement

LEMMA NewMatchFields ==
  ASSUME NEW f
  PROVE  /\ NewMatch(f).by = f.user /\ NewMatch(f).with = f.cand
         /\ NewMatch(f).mine = f.claim.mine /\ NewMatch(f).other = f.claim.other
BY DEF NewMatch

LEMMA SplitTypeOK == TypeOK <=> DataOK /\ call \in [Calls -> Frame]
BY DEF TypeOK, DataOK

LEMMA SaveType ==
  ASSUME DataOK, NEW u \in Users, NEW e \in Entry, Save(u, e)
  PROVE  entry' \in [Users -> Entry \cup {None}]
BY DEF DataOK, Save

LEMMA ResaveType ==
  ASSUME DataOK, NEW u \in Users, NEW e \in Entry, Resave(u, e)
  PROVE  entry' \in [Users -> Entry \cup {None}] /\ revived' \subseteq Nat
<1>1. e.ticket \in Nat
  BY DEF Entry
<1> QED
  BY <1>1, SaveType DEF Resave, DataOK

LEMMA DeleteType ==
  ASSUME DataOK, NEW us, Delete(us)
  PROVE  entry' \in [Users -> Entry \cup {None}]
BY DEF DataOK, Delete

LEMMA UnlistType ==
  ASSUME DataOK, NEW us, Unlist(us)
  PROVE  zset' \in [Users -> Nat]
BY DEF DataOK, Unlist

\* Steps of a call keep the data well-typed.
LEMMA ProgressData ==
  ASSUME TypeInv, NEW c \in Calls, Progress(c)
  PROVE  DataOK'
<1> DEFINE f == call[c]
<1>0. DataOK
  BY SplitTypeOK DEF TypeInv
<1>1. ~At(c, "idle")
  BY DEF Progress, JoinStep, JoinProfile, JoinGet, JoinResave, JoinSave, JoinZadd, UpdateStep, UpdateGet, UpdateSave,
         LeaveStep, LeaveDel, LeaveZrem, CleanupStep, CleanupRange, CleanupGet, CleanupZrem, CleanupDel,
         StatusStep, StatusGet, StatusRank, MatchStep, MatchLock, MatchGet, MatchBlocks, MatchRange,
         MatchCandidate, MatchZrem, MatchUnlock, ClaimLock, ClaimGet, ClaimExec, ClaimUnlock, At
<1>2. f \in Frame /\ WellFormed(f) /\ f.user \in Users
  BY <1>1, BusyFrame
<1>3. CASE JoinProfile(c)
  BY <1>0, <1>3 DEF JoinProfile, DataOK, redis, history, environment
<1>4. CASE JoinGet(c)
  <2>1. CASE UNCHANGED <<stamp, owner>>
    BY <1>0, <1>4, <2>1 DEF JoinGet, DataOK, redis
  <2>2. CASE /\ stamp' = stamp + 1
             /\ owner' = [t \in 1..stamp + 1 |-> IF t = stamp + 1 THEN f.user ELSE owner[t]]
    <3>1. \A t \in 1..stamp + 1 : t # stamp + 1 => t \in 1..stamp
      BY <1>0 DEF DataOK
    <3>2. stamp' \in Nat /\ owner' \in [1..stamp' -> Users]
      BY <1>0, <1>2, <2>2, <3>1 DEF DataOK
    <3> QED
      BY <1>0, <1>4, <3>2 DEF JoinGet, DataOK, redis
  <2> QED
    BY <1>4, <2>1, <2>2 DEF JoinGet
<1>5. CASE JoinResave(c)
  <2>1. f.own \in Entry
    BY <1>2, <1>5 DEF JoinResave, At, WellFormed
  <2> QED
    BY <1>0, <1>2, <1>5, <2>1, ResaveType DEF JoinResave, DataOK, environment
<1>6. CASE JoinSave(c)
  <2>1. f.own \in Entry
    BY <1>2, <1>6 DEF JoinSave, At, WellFormed
  <2> QED
    BY <1>0, <1>2, <1>6, <2>1, SaveType DEF JoinSave, DataOK, history, environment
<1>7. CASE JoinZadd(c)
  <2>1. f.own.ticket \in Nat
    BY <1>2, <1>7 DEF JoinZadd, At, WellFormed, Entry
  <2> QED
    BY <1>0, <1>2, <1>7, <2>1 DEF JoinZadd, DataOK, history, environment
<1>8. CASE UpdateStep(c)
  <2>1. CASE UpdateGet(c)
    BY <1>0, <2>1 DEF UpdateGet, DataOK, redis, history, environment
  <2>2. CASE UpdateSave(c)
    <3>1. f.own \in Entry
      BY <1>2, <2>2 DEF UpdateSave, At, WellFormed
    <3> QED
      BY <1>0, <1>2, <2>2, <3>1, ResaveType DEF UpdateSave, DataOK, environment
  <2> QED
    BY <1>8, <2>1, <2>2 DEF UpdateStep
<1>9. CASE LeaveDel(c) \/ CleanupDel(c)
  BY <1>0, <1>9, DeleteType DEF LeaveDel, CleanupDel, DataOK, history, environment
<1>10. CASE LeaveZrem(c) \/ CleanupZrem(c) \/ MatchZrem(c)
  BY <1>0, <1>10, UnlistType DEF LeaveZrem, CleanupZrem, MatchZrem, DataOK, history, environment
<1>11. CASE CleanupRange(c) \/ CleanupGet(c) \/ StatusGet(c) \/ StatusRank(c)
  BY <1>0, <1>11 DEF CleanupRange, CleanupGet, StatusGet, StatusRank, DataOK, redis, history, environment
<1>12. CASE MatchGet(c) \/ MatchBlocks(c) \/ MatchRange(c) \/ MatchCandidate(c) \/ ClaimGet(c)
  BY <1>0, <1>12 DEF MatchGet, MatchBlocks, MatchRange, MatchCandidate, ClaimGet, DataOK, redis, history, environment
<1>13. CASE MatchLock(c) \/ MatchUnlock(c)
  BY <1>0, <1>2, <1>13 DEF MatchLock, MatchUnlock, DataOK, history, environment
<1>14. CASE ClaimLock(c) \/ ClaimUnlock(c)
  <2>1. f.cand \in Users
    BY <1>2, <1>14 DEF ClaimLock, ClaimUnlock, At, WellFormed, ClaimLabels
  <2>2. Pair(f) \in SUBSET Users
    BY <1>2, <2>1 DEF Pair
  <2> QED
    BY <1>0, <1>14, <2>2 DEF ClaimLock, ClaimUnlock, DataOK, history, environment
<1>15. CASE ClaimExec(c)
  <2>1. f.cand \in Users /\ f.claim.mine \in Nat /\ f.claim.other \in Nat
    BY <1>2, <1>15 DEF ClaimExec, At, WellFormed, ClaimLabels, Frame
  <2>2. IsFiniteSet(matches') /\ matches' \subseteq [no : Nat, by : Users, with : Users, mine : Nat, other : Nat]
    BY <1>0, <1>2, <1>15, <2>1, NewMatchType DEF ClaimExec, TakePair, DataOK
  <2> QED
    BY <1>0, <1>15, <2>2, DeleteType, UnlistType DEF ClaimExec, TakePair, DataOK, environment
<1> QED
  BY <1>3, <1>4, <1>5, <1>6, <1>7, <1>8, <1>9, <1>10, <1>11, <1>12, <1>13, <1>14, <1>15
     DEF Progress, JoinStep, LeaveStep, CleanupStep, StatusStep, MatchStep

\* So does a command whose reply is lost.
LEMMA LostReplyData ==
  ASSUME TypeInv, NEW c \in Calls, LostReply(c)
  PROVE  DataOK'
<1> DEFINE f == call[c]
<1>0. DataOK
  BY SplitTypeOK DEF TypeInv
<1>1. f \in Frame /\ WellFormed(f) /\ f.user \in Users
  BY FailingIsBusy, BusyFrame
<1>2. faults' \in Nat /\ UNCHANGED <<owner, blocks, stamp, aged, crashes>>
  BY <1>0 DEF LostReply, DataOK
<1>3. CASE f.pc \in {"j.resave", "u.save"} /\ Resave(f.user, f.own) /\ UNCHANGED <<zset, lock, pairLock, matches>>
  <2>1. f.own \in Entry
    BY <1>1, <1>3 DEF WellFormed
  <2> QED
    BY <1>0, <1>1, <1>2, <1>3, <2>1, ResaveType DEF DataOK
<1>4. CASE f.pc = "j.save" /\ Save(f.user, f.own) /\ UNCHANGED <<zset, lock, pairLock, matches, revived>>
  <2>1. f.own \in Entry
    BY <1>1, <1>4 DEF WellFormed
  <2> QED
    BY <1>0, <1>1, <1>2, <1>4, <2>1, SaveType DEF DataOK
<1>5. CASE /\ f.pc = "j.zadd"
           /\ zset' = [zset EXCEPT ![f.user] = f.own.ticket]
           /\ UNCHANGED <<entry, lock, pairLock, matches, revived>>
  <2>1. f.own.ticket \in Nat
    BY <1>1, <1>5 DEF WellFormed, Entry
  <2> QED
    BY <1>0, <1>1, <1>2, <1>5, <2>1 DEF DataOK
<1>6. CASE Delete({Removed(f)}) /\ UNCHANGED <<zset, lock, pairLock, matches, revived>>
  BY <1>0, <1>2, <1>6, DeleteType DEF DataOK
<1>7. CASE Unlist({Removed(f)}) /\ UNCHANGED <<entry, lock, pairLock, matches, revived>>
  BY <1>0, <1>2, <1>7, UnlistType DEF DataOK
<1>8. CASE /\ lock' = [lock EXCEPT ![f.user] = (f.pc = "m.lock")]
           /\ UNCHANGED <<entry, zset, pairLock, matches, revived>>
  BY <1>0, <1>1, <1>2, <1>8 DEF DataOK
<1>9. CASE /\ f.pc \in {"c.lock", "c.unlock"}
           /\ pairLock' = IF f.pc = "c.lock" THEN pairLock \cup {Pair(f)} ELSE pairLock \ {Pair(f)}
           /\ UNCHANGED <<entry, zset, lock, matches, revived>>
  <2>1. Pair(f) \in SUBSET Users
    BY <1>1, <1>9 DEF WellFormed, ClaimLabels, Pair
  <2> QED
    BY <1>0, <1>2, <1>9, <2>1 DEF DataOK
<1>10. CASE f.pc = "c.exec" /\ TakePair(f) /\ UNCHANGED <<lock, pairLock, revived>>
  <2>1. f.cand \in Users /\ f.claim.mine \in Nat /\ f.claim.other \in Nat
    BY <1>1, <1>10 DEF WellFormed, ClaimLabels, Frame
  <2>2. IsFiniteSet(matches') /\ matches' \subseteq [no : Nat, by : Users, with : Users, mine : Nat, other : Nat]
    BY <1>0, <1>1, <1>10, <2>1, NewMatchType DEF TakePair, DataOK
  <2> QED
    BY <1>0, <1>2, <1>10, <2>2, DeleteType, UnlistType DEF TakePair, DataOK
<1> QED
  BY <1>3, <1>4, <1>5, <1>6, <1>7, <1>8, <1>9, <1>10 DEF LostReply

\* The type invariant holds at the start.
LEMMA TypeInit == Init => TypeInv
<1> SUFFICES ASSUME Init PROVE TypeInv
  OBVIOUS
<1>1. call \in [Calls -> Frame] /\ FramesWellFormed
  BY IdleIsWellFormed DEF Init, FramesWellFormed
<1>2. zset \in [Users -> Nat]
  BY InitAssumption DEF Init
<1>3. owner \in [1..stamp -> Users]
  BY InitAssumption DEF Init
<1>4. DataOK
  BY <1>2, <1>3, InitAssumption, FS_EmptySet DEF Init, DataOK
<1> QED
  BY <1>1, <1>4, SplitTypeOK DEF TypeInv

\* Every step keeps it.
LEMMA TypeStep == TypeInv /\ [Next]_vars => TypeInv'
<1> SUFFICES ASSUME TypeInv, [Next]_vars PROVE TypeInv'
  OBVIOUS
<1>0. DataOK
  BY SplitTypeOK DEF TypeInv
<1>1. ASSUME NEW c \in Calls, Start(c) PROVE TypeInv'
  <2>1. call' \in [Calls -> Frame] /\ FramesWellFormed'
    BY <1>1, StartFrame, FrameStep
  <2>2. DataOK'
    BY <1>0, <1>1 DEF Start, JoinQueue, UpdateSocketId, LeaveQueue, GetStatus, TryAtomicMatch, DataOK,
                      redis, history, environment
  <2> QED
    BY <2>1, <2>2, SplitTypeOK DEF TypeInv, TypeOK, DataOK
<1>2. ASSUME NEW c \in Calls, Progress(c) PROVE TypeInv'
  <2>1. \E g \in Frame : WellFormed(g) /\ Goto(c, g)
    BY <1>2, JoinFrame, UpdateFrame, LeaveFrame, CleanupFrame, StatusFrame, MatchFrame DEF Progress
  <2>2. call' \in [Calls -> Frame] /\ FramesWellFormed'
    BY <2>1, FrameStep
  <2>3. DataOK'
    BY <1>2, ProgressData
  <2> QED
    BY <2>2, <2>3, SplitTypeOK DEF TypeInv, TypeOK, DataOK
<1>3. ASSUME NEW c \in Calls, Return(c) PROVE TypeInv'
  <2>1. call' \in [Calls -> Frame] /\ FramesWellFormed'
    BY <1>3, IdleIsWellFormed, FrameStep DEF Return
  <2>2. DataOK'
    BY <1>0, <1>3 DEF Return, DataOK, redis, history, environment
  <2> QED
    BY <2>1, <2>2 DEF TypeInv, TypeOK, DataOK
<1>4. ASSUME NEW c \in Calls, Throw(c) \/ LostReply(c) PROVE TypeInv'
  <2>1. call' \in [Calls -> Frame] /\ FramesWellFormed'
    BY <1>4, FailingIsBusy, RejectedIsWellFormed, FrameStep
  <2>2. DataOK'
    <3>1. CASE Throw(c)
      BY <1>0, <3>1 DEF Throw, DataOK, redis, history
    <3> QED
      BY <1>4, <3>1, LostReplyData
  <2> QED
    BY <2>1, <2>2 DEF TypeInv, TypeOK, DataOK
<1>5. CASE Crash
  BY <1>5, IdleIsWellFormed DEF Crash, TypeInv, TypeOK, FramesWellFormed, redis, history
<1>6. CASE Lapse
  BY <1>6 DEF Lapse, LockLapse, PairLapse, TypeInv, TypeOK, FramesWellFormed, history, environment
<1>7. CASE Age
  BY <1>7 DEF Age, TypeInv, TypeOK, FramesWellFormed, redis, history
<1>8. ASSUME NEW u \in Users, RedisExpire(u) PROVE TypeInv'
  <2>1. entry' \in [Users -> Entry \cup {None}]
    BY <1>0, <1>8, DeleteType DEF RedisExpire
  <2> QED
    BY <1>8, <2>1 DEF RedisExpire, TypeInv, TypeOK, FramesWellFormed, history, environment
<1>9. CASE Blocklisting
  <2>1. PICK u \in Users, v \in Users : BlockUser(u, v) \/ UnblockUser(u, v)
    BY <1>9 DEF Blocklisting
  <2>2. blocks' \subseteq Users \X Users
    BY <1>0, <2>1 DEF BlockUser, UnblockUser, DataOK
  <2>3. UNCHANGED <<redis, call, history, stamp, aged, faults, crashes>>
    BY <2>1 DEF BlockUser, UnblockUser
  <2> QED
    BY <1>0, <2>2, <2>3 DEF TypeInv, TypeOK, FramesWellFormed, redis, history
<1>10. CASE UNCHANGED vars
  BY <1>10 DEF vars, TypeInv, TypeOK, FramesWellFormed
<1> QED
  BY <1>1, <1>2, <1>3, <1>4, <1>5, <1>6, <1>7, <1>8, <1>9, <1>10 DEF Next, Environment

\* Every variable keeps its type, and a call has at every await the local
\* variables its next step uses.
THEOREM TypeCorrect == Spec => []TypeOK
<1>1. Spec => []TypeInv
  BY TypeInit, TypeStep, PTL DEF Spec
<1>2. TypeInv => TypeOK
  BY DEF TypeInv
<1> QED
  BY <1>1, <1>2, PTL

-----------------------------------------------------------------------------
(* Mutual exclusion *)

\* A call moves from f to g without entering a search or a claim.
QuietMove(f, g) ==
  /\ Searching(g) => Searching(f) /\ g.user = f.user
  /\ Claiming(g) => Claiming(f) /\ g.user = f.user /\ g.cand = f.cand

\* A step of c that enters no search and no claim and frees no lock.
Quiet(c) ==
  /\ \A u \in Users : lock[u] => lock'[u]
  /\ pairLock \subseteq pairLock'
  /\ \E g \in Frame : Goto(c, g) /\ QuietMove(call[c], g)

\* A frame whose label is outside tryAtomicMatch may follow any other.
LEMMA OutsideIsQuiet ==
  ASSUME NEW f, NEW g, ~Searching(g), ~Claiming(g)
  PROVE  QuietMove(f, g)
BY DEF QuietMove

LEMMA QuietKeepsMutex ==
  ASSUME TypeInv, MutexInv, NEW c \in Calls, Quiet(c)
  PROVE  MutexInv'
<1>1. PICK g \in Frame : Goto(c, g) /\ QuietMove(call[c], g)
  BY DEF Quiet
<1>2. /\ \A d \in Calls : call'[d] = IF d = c THEN g ELSE call[d]
      /\ \A u \in Users : lock[u] => lock'[u]
      /\ pairLock \subseteq pairLock'
      /\ \A d \in Calls : Searching(call[d]) => call[d].user \in Users
  <2>1. \A d \in Calls : Searching(call[d]) => call[d].user \in Users
    BY BusyFrame DEF At, Searching, MatchLabels
  <2> QED
    BY <1>1, <2>1 DEF Quiet, Goto, TypeInv, TypeOK
<1>3. CASE LocksMayLapse
  BY <1>3 DEF MutexInv, LockHeld, InitiatorMutex, PairMutex
<1>4. CASE ~LocksMayLapse
  <2>1. LockHeld'
    BY <1>1, <1>2, <1>4 DEF MutexInv, LockHeld, QuietMove, Pair
  <2>2. InitiatorMutex'
    BY <1>1, <1>2, <1>4 DEF MutexInv, InitiatorMutex, QuietMove
  <2>3. PairMutex'
    BY <1>1, <1>2, <1>4 DEF MutexInv, PairMutex, QuietMove
  <2> QED
    BY <2>1, <2>2, <2>3 DEF MutexInv
<1> QED
  BY <1>3, <1>4

\* Starting a call, joinQueue, updateSocketId, cleanups and getStatus never
\* touch a lock.
LEMMA OutsideSteps ==
  ASSUME TypeInv, NEW c \in Calls,
         Start(c) \/ JoinStep(c) \/ UpdateStep(c) \/ CleanupStep(c) \/ StatusStep(c) \/ Return(c)
  PROVE  Quiet(c) /\ ~Searching(call'[c])
<1> DEFINE f == call[c]
           g == call'[c]
<1>0. call \in [Calls -> Frame]
  BY DEF TypeInv, TypeOK
<1>1. ASSUME NEW h, Goto(c, h) PROVE g = h
  BY <1>0, <1>1 DEF Goto
<1>2. ASSUME \/ g.pc \in {"idle", "ret", "j.profile", "j.get", "j.resave", "j.save", "j.zadd", "u.get", "u.save",
                          "k.range", "k.get", "k.zrem", "k.del", "s.get", "s.rank", "m.lock"}
             \/ g.pc = "l.del" /\ g.back = "ret",
             \E h \in Frame : Goto(c, h),
             UNCHANGED <<lock, pairLock>>
      PROVE  Quiet(c) /\ ~Searching(g)
  <2>1. ~Searching(g) /\ ~Claiming(g)
    BY <1>2 DEF Searching, Claiming, MatchLabels
  <2>2. g \in Frame /\ Goto(c, g)
    BY <1>1, <1>2
  <2> QED
    BY <1>2, <2>1, <2>2, OutsideIsQuiet DEF Quiet
<1>3. CASE Start(c)
  <2>1. PICK u \in Users :
          \/ \E sid \in Sids, dto \in JoinDtos[u] : JoinQueue(c, u, sid, dto)
          \/ \E sid \in Sids : UpdateSocketId(c, u, sid)
          \/ LeaveQueue(c, u) \/ GetStatus(c, u) \/ TryAtomicMatch(c, u)
    BY <1>3 DEF Start
  <2>2. \/ g.pc \in {"j.profile", "u.get", "k.range", "m.lock"}
        \/ g.pc = "l.del" /\ g.back = "ret"
    <3>1. CASE \E sid \in Sids, dto \in JoinDtos[u] : JoinQueue(c, u, sid, dto)
      BY <1>0, <3>1 DEF JoinQueue, Goto, Idle
    <3>2. CASE \E sid \in Sids : UpdateSocketId(c, u, sid)
      BY <1>0, <3>2 DEF UpdateSocketId, Goto, Idle
    <3>3. CASE LeaveQueue(c, u)
      BY <1>0, <3>3 DEF LeaveQueue, Goto, Idle, Leaving
    <3>4. CASE GetStatus(c, u)
      BY <1>0, <3>4 DEF GetStatus, Goto, Idle, Cleanup
    <3>5. CASE TryAtomicMatch(c, u)
      BY <1>0, <3>5 DEF TryAtomicMatch, Goto, Idle
    <3> QED
      BY <2>1, <3>1, <3>2, <3>3, <3>4, <3>5
  <2>3. UNCHANGED <<lock, pairLock>>
    BY <2>1 DEF JoinQueue, UpdateSocketId, LeaveQueue, GetStatus, TryAtomicMatch, redis
  <2> QED
    BY <1>2, <1>3, <2>2, <2>3, StartFrame
<1>4. CASE JoinStep(c)
  <2>1. f \in Frame /\ f.user \in Users
    BY <1>4, BusyFrame DEF JoinStep, JoinProfile, JoinGet, JoinResave, JoinSave, JoinZadd, At
  <2>2. g.pc \in {"ret", "j.get", "j.resave", "j.save", "j.zadd", "k.range"}
    <3>1. CASE JoinProfile(c)
      BY <1>0, <2>1, <3>1 DEF JoinProfile, Goto, Reply, Idle, Frame
    <3>2. CASE JoinGet(c)
      <4> DEFINE e == entry[f.user]
                 back == [f EXCEPT !.pc = "j.resave", !.own = [@ EXCEPT !.ticket = e.ticket, !.gender = e.gender]]
                 fresh == [f EXCEPT !.pc = "j.save", !.own = [@ EXCEPT !.ticket = stamp + 1]]
      <4>1. Goto(c, back) \/ Goto(c, fresh)
        BY <3>2 DEF JoinGet
      <4>2. back.pc = "j.resave" /\ fresh.pc = "j.save"
        BY <2>1 DEF Frame
      <4> HIDE DEF back, fresh
      <4> QED
        BY <1>1, <4>1, <4>2
    <3>3. CASE JoinResave(c) \/ JoinZadd(c)
      <4>1. Goto(c, Cleanup(f, "s.get"))
        BY <3>3 DEF JoinResave, JoinZadd
      <4>2. Cleanup(f, "s.get").pc = "k.range"
        BY <2>1, CleanupIsWellFormed
      <4> QED
        BY <1>1, <4>1, <4>2
    <3>4. CASE JoinSave(c)
      BY <1>0, <2>1, <3>4 DEF JoinSave, Goto, Frame
    <3> QED
      BY <1>4, <3>1, <3>2, <3>3, <3>4 DEF JoinStep
  <2>3. UNCHANGED <<lock, pairLock>>
    BY <1>4 DEF JoinStep, JoinProfile, JoinGet, JoinResave, JoinSave, JoinZadd, redis
  <2> QED
    BY <1>2, <1>4, <2>2, <2>3, JoinFrame
<1>5. CASE UpdateStep(c)
  <2>1. f \in Frame /\ f.user \in Users
    BY <1>5, BusyFrame DEF UpdateStep, UpdateGet, UpdateSave, At
  <2>2. g.pc \in {"ret", "u.save"}
    <3>1. CASE UpdateGet(c)
      BY <1>0, <2>1, <3>1 DEF UpdateGet, Goto, Reply, Idle, Frame
    <3>2. CASE UpdateSave(c)
      BY <1>0, <2>1, <3>2 DEF UpdateSave, Goto, Reply, Idle, Frame
    <3> QED
      BY <1>5, <3>1, <3>2 DEF UpdateStep
  <2>3. UNCHANGED <<lock, pairLock>>
    BY <1>5 DEF UpdateStep, UpdateGet, UpdateSave, redis
  <2> QED
    BY <1>2, <1>5, <2>2, <2>3, UpdateFrame
<1>6. CASE CleanupStep(c)
  <2>1. f \in Frame /\ WellFormed(f) /\ f.user \in Users /\ f.back \in {"s.get", "s.rank"}
    BY <1>6, BusyFrame
       DEF CleanupStep, CleanupRange, CleanupGet, CleanupZrem, CleanupDel, At, WellFormed, CleanupLabels
  <2>2. /\ [f EXCEPT !.todo = zset] \in Frame
        /\ [f EXCEPT !.todo = zset].user \in Users
        /\ [f EXCEPT !.todo = zset].back \in {"s.get", "s.rank"}
    BY <2>1 DEF TypeInv, TypeOK, Frame
  <2>3. /\ NextStale(f).pc \in {"k.get", "s.get", "s.rank"}
        /\ NextStale([f EXCEPT !.todo = zset]).pc \in {"k.get", "s.get", "s.rank"}
    BY <2>1, <2>2, NextStaleIsWellFormed
  <2>4. g.pc \in {"k.get", "k.zrem", "k.del", "s.get", "s.rank"}
    <3>1. CASE CleanupRange(c) \/ CleanupDel(c)
      BY <1>0, <2>3, <3>1 DEF CleanupRange, CleanupDel, Goto
    <3>2. CASE CleanupGet(c)
      BY <1>0, <2>1, <2>3, <3>2 DEF CleanupGet, Goto, Frame
    <3>3. CASE CleanupZrem(c)
      BY <1>0, <2>1, <2>3, <3>3 DEF CleanupZrem, Goto, Frame
    <3> QED
      BY <1>6, <3>1, <3>2, <3>3 DEF CleanupStep
  <2>5. UNCHANGED <<lock, pairLock>>
    BY <1>6 DEF CleanupStep, CleanupRange, CleanupGet, CleanupZrem, CleanupDel, redis
  <2> QED
    BY <1>2, <1>6, <2>4, <2>5, CleanupFrame
<1>7. CASE StatusStep(c)
  <2>1. f \in Frame /\ f.user \in Users
    BY <1>7, BusyFrame DEF StatusStep, StatusGet, StatusRank, At
  <2>2. g.pc \in {"ret", "k.range"} \/ (g.pc = "l.del" /\ g.back = "ret")
    <3>1. CASE StatusGet(c)
      BY <1>0, <2>1, <3>1 DEF StatusGet, Goto, Reply, Idle, Cleanup, Leaving, Frame
    <3>2. CASE StatusRank(c)
      BY <1>0, <2>1, <3>2 DEF StatusRank, Goto, Reply, Idle, Frame
    <3> QED
      BY <1>7, <3>1, <3>2 DEF StatusStep
  <2>3. UNCHANGED <<lock, pairLock>>
    BY <1>7 DEF StatusStep, StatusGet, StatusRank, redis
  <2> QED
    BY <1>2, <1>7, <2>2, <2>3, StatusFrame
<1>8. CASE Return(c)
  <2>1. g.pc = "idle"
    BY <1>0, <1>8 DEF Return, Goto, Idle
  <2> QED
    BY <1>2, <1>8, <2>1, IdleIsWellFormed DEF Return, redis
<1> QED
  BY <1>3, <1>4, <1>5, <1>6, <1>7, <1>8

\* Inside tryAtomicMatch only the four SET and DEL commands touch a lock.
LEMMA InsideSteps ==
  ASSUME TypeInv, NEW c \in Calls,
         \/ LeaveStep(c)
         \/ MatchGet(c) \/ MatchBlocks(c) \/ MatchRange(c) \/ MatchCandidate(c) \/ MatchZrem(c)
         \/ ClaimGet(c) \/ ClaimExec(c)
  PROVE  Quiet(c)
<1> DEFINE f == call[c]
           g == call'[c]
<1>0. call \in [Calls -> Frame]
  BY DEF TypeInv, TypeOK
<1>1. ASSUME NEW h, Goto(c, h) PROVE g = h
  BY <1>0, <1>1 DEF Goto
<1>2. ASSUME QuietMove(f, g), \E h \in Frame : Goto(c, h), UNCHANGED <<lock, pairLock>>
      PROVE  Quiet(c)
  BY <1>1, <1>2 DEF Quiet
<1>3. f \in Frame /\ WellFormed(f) /\ f.user \in Users
  <2>1. ~At(c, "idle")
    BY DEF LeaveStep, LeaveDel, LeaveZrem, MatchGet, MatchBlocks, MatchRange, MatchCandidate,
           MatchZrem, ClaimGet, ClaimExec, At
  <2> QED
    BY <2>1, BusyFrame
<1>4. ASSUME f.own \in Entry
      PROVE  NextCandidate(f).pc \in {"m.cand", "m.unlock"} /\ NextCandidate(f).user = f.user
  BY <1>3, <1>4, NextCandidateIsWellFormed
<1>5. CASE LeaveDel(c)
  <2>1. QuietMove(f, g)
    BY <1>0, <1>3, <1>5 DEF LeaveDel, Goto, At, QuietMove, Searching, Claiming, MatchLabels, Frame
  <2>2. LeaveStep(c) /\ UNCHANGED <<lock, pairLock>>
    BY <1>5 DEF LeaveStep, LeaveDel
  <2> QED
    BY <1>2, <2>1, <2>2, LeaveFrame
<1>6. CASE LeaveZrem(c)
  <2>1. f.back \in {"ret", "m.unlock", "m.next"} /\ (f.back = "m.next" => f.own \in Entry) /\ f.pc = "l.zrem"
    BY <1>3, <1>6 DEF LeaveZrem, At, WellFormed, LeaveLabels
  <2>2. ASSUME f.back = "ret"
        PROVE  QuietMove(f, g)
    <3>1. g.pc = "ret"
      BY <1>0, <1>6, <2>2 DEF LeaveZrem, Goto, Reply, Idle
    <3> QED
      BY <3>1 DEF QuietMove, Searching, Claiming, MatchLabels
  <2>3. ASSUME f.back = "m.unlock"
        PROVE  QuietMove(f, g)
    <3>1. g.pc = "m.unlock" /\ g.user = f.user
      BY <1>0, <1>3, <1>6, <2>3 DEF LeaveZrem, Goto, Frame
    <3> QED
      BY <2>1, <2>3, <3>1 DEF QuietMove, Searching, Claiming, MatchLabels
  <2>4. ASSUME f.back = "m.next"
        PROVE  QuietMove(f, g)
    <3>1. g = NextCandidate(f)
      BY <1>0, <1>6, <2>4 DEF LeaveZrem, Goto
    <3> QED
      BY <1>4, <2>1, <2>4, <3>1 DEF QuietMove, Searching, Claiming, MatchLabels
  <2>5. QuietMove(f, g)
    BY <2>1, <2>2, <2>3, <2>4
  <2>6. LeaveStep(c) /\ UNCHANGED <<lock, pairLock>>
    BY <1>6 DEF LeaveStep, LeaveZrem
  <2> QED
    BY <1>2, <2>5, <2>6, LeaveFrame
<1>7. CASE MatchGet(c) \/ MatchBlocks(c) \/ MatchRange(c) \/ MatchCandidate(c) \/ MatchZrem(c) \/ ClaimGet(c) \/ ClaimExec(c)
  <2>1. MatchStep(c) /\ UNCHANGED <<lock, pairLock>>
    BY <1>7 DEF MatchStep, MatchGet, MatchBlocks, MatchRange, MatchCandidate, MatchZrem, ClaimGet, ClaimExec, redis
  <2>2. QuietMove(f, g)
    <3>1. CASE MatchGet(c)
      BY <1>0, <1>3, <3>1 DEF MatchGet, Leaving, Goto, At, QuietMove, Searching, Claiming, MatchLabels, Frame
    <3>2. CASE MatchBlocks(c)
      BY <1>0, <1>3, <3>2 DEF MatchBlocks, Goto, At, QuietMove, Searching, Claiming, MatchLabels, Frame
    <3>3. CASE MatchRange(c)
      <4> DEFINE others == [v \in Users |-> IF v \in f.skip \cup {f.user} THEN 0 ELSE zset[v]]
                 h == [f EXCEPT !.todo = others]
      <4>1. others \in [Users -> Nat] /\ f.own \in Entry /\ f.pc = "m.range"
        BY <1>3, <3>3 DEF TypeInv, TypeOK, MatchRange, At, WellFormed, SearchLabels
      <4>2. g = NextCandidate(h)
        BY <1>0, <3>3 DEF MatchRange, Goto
      <4> HIDE DEF others
      <4>3. h \in Frame /\ h.user = f.user /\ h.own \in Entry
        BY <1>3, <4>1 DEF Frame
      <4>4. g.pc \in {"m.cand", "m.unlock"} /\ g.user = f.user
        BY <1>3, <4>2, <4>3, NextCandidateIsWellFormed
      <4> QED
        BY <4>1, <4>4 DEF QuietMove, Searching, Claiming, MatchLabels
    <3>4. CASE MatchCandidate(c)
      <4>1. f.own \in Entry /\ f.pc = "m.cand"
        BY <1>3, <3>4 DEF MatchCandidate, At, WellFormed, SearchLabels
      <4>2. g.user = f.user /\ g.pc \in {"m.zrem", "l.del", "c.lock", "m.cand", "m.unlock"}
        BY <1>0, <1>3, <1>4, <3>4, <4>1 DEF MatchCandidate, Goto, Frame
      <4> QED
        BY <4>1, <4>2 DEF QuietMove, Searching, Claiming, MatchLabels
    <3>5. CASE MatchZrem(c)
      <4>1. f.own \in Entry /\ f.pc = "m.zrem"
        BY <1>3, <3>5 DEF MatchZrem, At, WellFormed, SearchLabels
      <4>2. g.user = f.user /\ g.pc \in {"m.cand", "m.unlock"}
        BY <1>0, <1>4, <3>5, <4>1 DEF MatchZrem, Goto
      <4> QED
        BY <4>1, <4>2 DEF QuietMove, Searching, Claiming, MatchLabels
    <3>6. CASE ClaimGet(c)
      BY <1>0, <1>3, <3>6 DEF ClaimGet, Goto, At, QuietMove, Searching, Claiming, MatchLabels, Frame
    <3>7. CASE ClaimExec(c)
      BY <1>0, <1>3, <3>7 DEF ClaimExec, Goto, At, QuietMove, Searching, Claiming, MatchLabels, Frame
    <3> QED
      BY <1>7, <3>1, <3>2, <3>3, <3>4, <3>5, <3>6, <3>7
  <2> QED
    BY <1>2, <2>1, <2>2, MatchFrame
<1> QED
  BY <1>5, <1>6, <1>7 DEF LeaveStep

\* A search that ends may free its user's lock, since no other search holds it.
LEMMA FreeingLock ==
  ASSUME TypeInv, MutexInv, ~LocksMayLapse, NEW c \in Calls, NEW g \in Frame, Goto(c, g),
         call[c].pc = "m.unlock", g.pc = "ret",
         lock' = [lock EXCEPT ![call[c].user] = FALSE], pairLock' = pairLock
  PROVE  MutexInv'
<1> DEFINE f == call[c]
<1>1. /\ lock \in [Users -> BOOLEAN]
      /\ \A d \in Calls : call'[d] = IF d = c THEN g ELSE call[d]
  BY DEF Goto, TypeInv, TypeOK
<1>2. Searching(f) /\ ~Searching(g) /\ ~Claiming(g)
  BY DEF Searching, Claiming, MatchLabels
<1>3. \A d \in Calls : Searching(call[d]) /\ d # c => call[d].user # f.user
  BY <1>2 DEF MutexInv, InitiatorMutex
<1>4. LockHeld'
  <2>1. \A d \in Calls : Searching(call[d]) => call[d].user \in Users /\ lock[call[d].user]
    BY BusyFrame DEF At, Searching, MatchLabels, MutexInv, LockHeld
  <2>2. \A d \in Calls : Searching(call[d]) /\ d # c => lock'[call[d].user]
    BY <1>1, <1>3, <2>1
  <2> QED
    BY <1>1, <1>2, <2>2 DEF MutexInv, LockHeld, Pair
<1>5. InitiatorMutex' /\ PairMutex'
  BY <1>1, <1>2 DEF MutexInv, InitiatorMutex, PairMutex
<1> QED
  BY <1>4, <1>5 DEF MutexInv

\* Likewise for a claim and the lock of its pair.
LEMMA FreeingPairLock ==
  ASSUME TypeInv, MutexInv, ~LocksMayLapse, NEW c \in Calls, NEW g \in Frame, Goto(c, g),
         call[c].pc = "c.unlock", g.user = call[c].user, g.pc \in {"m.cand", "m.unlock"},
         lock' = lock, pairLock' = pairLock \ {Pair(call[c])}
  PROVE  MutexInv'
<1> DEFINE f == call[c]
<1>1. \A d \in Calls : call'[d] = IF d = c THEN g ELSE call[d]
  BY DEF Goto, TypeInv, TypeOK
<1>2. Searching(f) /\ Claiming(f)
  BY DEF Searching, Claiming, MatchLabels
<1>3. \A d \in Calls : Claiming(call[d]) /\ d # c => Pair(call[d]) # Pair(f)
  BY <1>2 DEF MutexInv, PairMutex, Pair
<1>4. ~Claiming(g)
  BY DEF Claiming
<1>5. LockHeld'
  BY <1>1, <1>2, <1>3, <1>4 DEF MutexInv, LockHeld, Pair
<1>6. InitiatorMutex' /\ PairMutex'
  BY <1>1, <1>2, <1>4 DEF MutexInv, InitiatorMutex, PairMutex
<1> QED
  BY <1>5, <1>6 DEF MutexInv

\* Taking and freeing the locks keeps both exclusions.
LEMMA LockSteps ==
  ASSUME TypeInv, MutexInv, NEW c \in Calls,
         MatchLock(c) \/ MatchUnlock(c) \/ ClaimLock(c) \/ ClaimUnlock(c)
  PROVE  MutexInv'
<1> DEFINE f == call[c]
           g == call'[c]
<1>0. call \in [Calls -> Frame] /\ lock \in [Users -> BOOLEAN]
  BY DEF TypeInv, TypeOK
<1>1. f \in Frame /\ WellFormed(f) /\ f.user \in Users
  <2>1. ~At(c, "idle")
    BY DEF MatchLock, MatchUnlock, ClaimLock, ClaimUnlock, At
  <2> QED
    BY <2>1, BusyFrame
<1>2. PICK h \in Frame : Goto(c, h)
  BY MatchFrame DEF MatchStep
<1>3. g = h /\ \A d \in Calls : call'[d] = IF d = c THEN g ELSE call[d]
  BY <1>0, <1>2 DEF Goto
<1>4. ASSUME QuietMove(f, g), UNCHANGED <<lock, pairLock>> PROVE MutexInv'
  BY <1>2, <1>3, <1>4, QuietKeepsMutex DEF Quiet
<1>5. CASE LocksMayLapse
  BY <1>5 DEF MutexInv, LockHeld, InitiatorMutex, PairMutex
<1> SUFFICES ASSUME ~LocksMayLapse PROVE MutexInv'
  BY <1>5
<1>6. ASSUME f.own \in Entry
      PROVE  NextCandidate(f).pc \in {"m.cand", "m.unlock"} /\ NextCandidate(f).user = f.user
  BY <1>1, <1>6, NextCandidateIsWellFormed
<1>7. CASE MatchLock(c)
  <2>1. f.pc = "m.lock"
    BY <1>7 DEF MatchLock, At
  <2>2. CASE lock[f.user]
    <3>1. g = Reply(f, "none") /\ UNCHANGED <<lock, pairLock>>
      BY <1>0, <1>7, <2>2 DEF MatchLock, Goto
    <3>2. g.pc = "ret"
      BY <3>1 DEF Reply, Idle
    <3>3. QuietMove(f, g)
      BY <3>2 DEF QuietMove, Searching, Claiming, MatchLabels
    <3> QED
      BY <1>4, <3>1, <3>3
  <2>3. CASE ~lock[f.user]
    <3>1. g.pc = "m.get" /\ g.user = f.user /\ lock' = [lock EXCEPT ![f.user] = TRUE] /\ pairLock' = pairLock
      BY <1>0, <1>1, <1>7, <2>3 DEF MatchLock, Goto, Frame
    <3>2. Searching(g) /\ ~Claiming(g)
      BY <3>1 DEF Searching, Claiming, MatchLabels
    <3>3. \A d \in Calls : Searching(call[d]) => call[d].user # f.user
      BY <2>3 DEF MutexInv, LockHeld
    <3>4. lock'[f.user] /\ \A u : lock[u] /\ u \in Users => lock'[u]
      BY <1>0, <1>1, <3>1
    <3>5. \A d \in Calls : Searching(call[d]) => call[d].user \in Users
      BY BusyFrame DEF At, Searching, MatchLabels
    <3>6. LockHeld'
      BY <1>3, <3>1, <3>2, <3>4, <3>5 DEF MutexInv, LockHeld, Pair
    <3>7. InitiatorMutex'
      BY <1>3, <3>1, <3>2, <3>3 DEF MutexInv, InitiatorMutex
    <3>8. PairMutex'
      BY <1>3, <3>2 DEF MutexInv, PairMutex
    <3> QED
      BY <3>6, <3>7, <3>8 DEF MutexInv
  <2> QED
    BY <2>2, <2>3
<1>8. CASE MatchUnlock(c)
  <2>1. f.pc = "m.unlock" /\ lock' = [lock EXCEPT ![f.user] = FALSE] /\ pairLock' = pairLock
    BY <1>8 DEF MatchUnlock, At
  <2>2. g.pc = "ret"
    BY <1>0, <1>1, <1>8 DEF MatchUnlock, Goto, Reply, Idle
  <2> QED
    BY <1>2, <1>3, <2>1, <2>2, FreeingLock
<1>9. CASE ClaimLock(c)
  <2>1. f.pc = "c.lock" /\ f.own \in Entry /\ f.cand \in Users
    BY <1>1, <1>9 DEF ClaimLock, At, WellFormed, SearchLabels, ClaimLabels
  <2>2. Searching(f)
    BY <2>1 DEF Searching, MatchLabels
  <2>3. CASE Pair(f) \in pairLock
    <3>1. g = NextCandidate(f) /\ UNCHANGED <<lock, pairLock>>
      BY <1>0, <1>9, <2>3 DEF ClaimLock, Goto
    <3>2. g.pc \in {"m.cand", "m.unlock"} /\ g.user = f.user
      BY <1>6, <2>1, <3>1
    <3>3. QuietMove(f, g)
      BY <2>2, <3>2 DEF QuietMove, Claiming
    <3> QED
      BY <1>4, <3>1, <3>3
  <2>4. CASE Pair(f) \notin pairLock
    <3>1. g.pc = "c.get" /\ g.user = f.user /\ g.cand = f.cand /\ lock' = lock /\ pairLock' = pairLock \cup {Pair(f)}
      BY <1>0, <1>1, <1>9, <2>4 DEF ClaimLock, Goto, Frame
    <3>2. Claiming(g) /\ Pair(g) = Pair(f)
      BY <3>1 DEF Claiming, Pair
    <3>3. \A d \in Calls : Claiming(call[d]) => Pair(call[d]) # Pair(f)
      BY <2>4 DEF MutexInv, LockHeld
    <3>4. LockHeld'
      BY <1>3, <2>2, <3>1, <3>2 DEF MutexInv, LockHeld, Pair
    <3>5. InitiatorMutex'
      BY <1>3, <2>2, <3>1 DEF MutexInv, InitiatorMutex
    <3>6. PairMutex'
      BY <1>3, <3>1, <3>2, <3>3 DEF MutexInv, PairMutex, Pair
    <3> QED
      BY <3>4, <3>5, <3>6 DEF MutexInv
  <2> QED
    BY <2>3, <2>4
<1>10. CASE ClaimUnlock(c)
  <2>1. f.pc = "c.unlock" /\ f.own \in Entry
    BY <1>1, <1>10 DEF ClaimUnlock, At, WellFormed, SearchLabels, ClaimLabels
  <2>2. g.user = f.user /\ g.pc \in {"m.cand", "m.unlock"}
    BY <1>0, <1>1, <1>6, <1>10, <2>1 DEF ClaimUnlock, Goto, Frame
  <2>3. lock' = lock /\ pairLock' = pairLock \ {Pair(f)}
    BY <1>10 DEF ClaimUnlock
  <2> QED
    BY <1>2, <1>3, <2>1, <2>2, <2>3, FreeingPairLock
<1> QED
  BY <1>7, <1>8, <1>9, <1>10

\* A rejected await moves towards the finally blocks.
LEMMA RejectedIsQuiet ==
  ASSUME TypeInv, NEW c \in Calls, ~At(c, "idle")
  PROVE  QuietMove(call[c], Rejected(call[c]))
<1> DEFINE f == call[c]
           g == Rejected(f)
<1>1. f \in Frame
  BY BusyFrame
<1>2. CASE f.pc \in {"c.get", "c.exec"}
  <2>1. g = [f EXCEPT !.pc = "c.unlock", !.res = "error", !.claim = NoClaim]
    BY <1>2 DEF Rejected
  <2> QED
    BY <1>1, <1>2, <2>1 DEF QuietMove, Searching, Claiming, MatchLabels, Frame
<1>3. CASE f.pc \notin {"c.get", "c.exec"} /\ Searching(f) /\ f.pc # "m.unlock"
  <2>1. g = [f EXCEPT !.pc = "m.unlock", !.res = "error"]
    BY <1>3 DEF Rejected
  <2>2. g.pc = "m.unlock" /\ g.user = f.user
    BY <1>1, <2>1 DEF Frame
  <2> QED
    BY <1>3, <2>2 DEF QuietMove, Claiming
<1>4. CASE f.pc \notin {"c.get", "c.exec"} /\ ~(Searching(f) /\ f.pc # "m.unlock")
  <2>1. g = Reply(f, "error")
    BY <1>4 DEF Rejected
  <2>2. g.pc = "ret"
    BY <2>1 DEF Reply, Idle
  <2> QED
    BY <2>2 DEF QuietMove, Searching, Claiming, MatchLabels
<1> QED
  BY <1>2, <1>3, <1>4

\* Failures keep both exclusions, also when Redis ran the SET or DEL of a lock
\* and the call did not learn of it.
LEMMA FailureSteps ==
  ASSUME TypeInv, MutexInv, NEW c \in Calls, Throw(c) \/ LostReply(c)
  PROVE  MutexInv'
<1> DEFINE f == call[c]
           g == Rejected(f)
<1>1. ~At(c, "idle") /\ Goto(c, g)
  BY FailingIsBusy
<1>2. f \in Frame /\ WellFormed(f) /\ f.user \in Users /\ g \in Frame
  BY <1>1, BusyFrame, RejectedIsWellFormed
<1>3. QuietMove(f, g)
  BY <1>1, RejectedIsQuiet
<1>4. ASSUME \A u \in Users : lock[u] => lock'[u], pairLock \subseteq pairLock' PROVE MutexInv'
  BY <1>1, <1>2, <1>3, <1>4, QuietKeepsMutex DEF Quiet
<1>5. CASE LocksMayLapse
  BY <1>5 DEF MutexInv, LockHeld, InitiatorMutex, PairMutex
<1> SUFFICES ASSUME ~LocksMayLapse PROVE MutexInv'
  BY <1>5
<1>6. CASE UNCHANGED <<lock, pairLock>>
  BY <1>4, <1>6
<1>7. CASE /\ f.pc \in {"m.lock", "m.unlock"}
           /\ lock' = [lock EXCEPT ![f.user] = (f.pc = "m.lock")]
           /\ UNCHANGED pairLock
  <2>1. CASE f.pc = "m.lock"
    <3>1. \A u \in Users : lock[u] => lock'[u]
      BY <1>2, <1>7, <2>1 DEF TypeInv, TypeOK
    <3> QED
      BY <1>4, <1>7, <3>1
  <2>2. CASE f.pc = "m.unlock"
    <3>1. g = Reply(f, "error")
      BY <2>2 DEF Rejected
    <3>2. g.pc = "ret"
      BY <3>1 DEF Reply, Idle
    <3>3. lock' = [lock EXCEPT ![f.user] = FALSE] /\ pairLock' = pairLock
      BY <1>7, <2>2
    <3> QED
      BY <1>1, <1>2, <2>2, <3>2, <3>3, FreeingLock
  <2> QED
    BY <1>7, <2>1, <2>2
<1>8. CASE /\ f.pc \in {"c.lock", "c.unlock"}
           /\ pairLock' = IF f.pc = "c.lock" THEN pairLock \cup {Pair(f)} ELSE pairLock \ {Pair(f)}
           /\ UNCHANGED lock
  <2>1. CASE f.pc = "c.lock"
    BY <1>4, <1>8, <2>1
  <2>2. CASE f.pc = "c.unlock"
    <3>1. g = [f EXCEPT !.pc = "m.unlock", !.res = "error"]
      BY <2>2 DEF Rejected, Searching, MatchLabels
    <3>2. g.pc = "m.unlock" /\ g.user = f.user
      BY <1>2, <3>1 DEF Frame
    <3>3. lock' = lock /\ pairLock' = pairLock \ {Pair(f)}
      BY <1>8, <2>2
    <3> QED
      BY <1>1, <1>2, <2>2, <3>2, <3>3, FreeingPairLock
  <2> QED
    BY <1>8, <2>1, <2>2
<1> QED
  <2>1. Throw(c) => UNCHANGED <<lock, pairLock>>
    BY DEF Throw, redis
  <2>2. LostReply(c) =>
          \/ UNCHANGED <<lock, pairLock>>
          \/ /\ f.pc \in {"m.lock", "m.unlock"}
             /\ lock' = [lock EXCEPT ![f.user] = (f.pc = "m.lock")]
             /\ UNCHANGED pairLock
          \/ /\ f.pc \in {"c.lock", "c.unlock"}
             /\ pairLock' = IF f.pc = "c.lock" THEN pairLock \cup {Pair(f)} ELSE pairLock \ {Pair(f)}
             /\ UNCHANGED lock
    BY DEF LostReply
  <2> QED
    BY <1>6, <1>7, <1>8, <2>1, <2>2

LEMMA MutexInit == Init => MutexInv
BY DEF Init, MutexInv, LockHeld, InitiatorMutex, PairMutex, Searching, Claiming, MatchLabels, Idle

LEMMA MutexStep == TypeInv /\ MutexInv /\ [Next]_vars => MutexInv'
<1> SUFFICES ASSUME TypeInv, MutexInv, [Next]_vars PROVE MutexInv'
  OBVIOUS
<1>1. ASSUME NEW c \in Calls, Start(c) \/ Progress(c) \/ Return(c) PROVE MutexInv'
  <2>1. \/ MatchLock(c) \/ MatchUnlock(c) \/ ClaimLock(c) \/ ClaimUnlock(c)
        \/ Quiet(c)
    BY <1>1, OutsideSteps, InsideSteps DEF Progress, MatchStep
  <2> QED
    BY <2>1, LockSteps, QuietKeepsMutex
<1>6. ASSUME NEW c \in Calls, Throw(c) \/ LostReply(c) PROVE MutexInv'
  BY <1>6, FailureSteps
<1>2. CASE Crash
  <2>1. \A c \in Calls : call'[c] = Idle
    BY <1>2 DEF Crash
  <2>2. ~Searching(Idle) /\ ~Claiming(Idle)
    BY DEF Searching, Claiming, MatchLabels, Idle
  <2> QED
    BY <2>1, <2>2 DEF MutexInv, LockHeld, InitiatorMutex, PairMutex
<1>3. ASSUME NEW u \in Users, LockLapse(u) PROVE MutexInv'
  <2>1. call' = call /\ pairLock' = pairLock /\ lock' = [lock EXCEPT ![u] = FALSE]
    BY <1>3 DEF LockLapse
  <2>2. LocksMayLapse \/ \A c \in Calls : ~(Searching(call[c]) /\ call[c].user = u)
    BY <1>3 DEF LockLapse
  <2>3. \A c \in Calls : Searching(call[c]) => call[c].user \in Users
    BY BusyFrame DEF At, Searching, MatchLabels
  <2>4. LockHeld'
    BY <2>1, <2>2, <2>3 DEF MutexInv, LockHeld, TypeInv, TypeOK
  <2>5. InitiatorMutex' /\ PairMutex'
    BY <2>1 DEF MutexInv, InitiatorMutex, PairMutex
  <2> QED
    BY <2>4, <2>5 DEF MutexInv
<1>4. ASSUME NEW p \in pairLock, PairLapse(p) PROVE MutexInv'
  BY <1>4 DEF PairLapse, MutexInv, LockHeld, InitiatorMutex, PairMutex
<1>5. CASE UNCHANGED <<lock, pairLock, call>>
  BY <1>5 DEF MutexInv, LockHeld, InitiatorMutex, PairMutex
<1>7. CASE Age \/ Blocklisting \/ (\E u \in Users : RedisExpire(u)) \/ UNCHANGED vars
  BY <1>5, <1>7 DEF Age, Blocklisting, BlockUser, UnblockUser, RedisExpire, vars, redis
<1> QED
  BY <1>1, <1>2, <1>3, <1>4, <1>6, <1>7 DEF Next, Environment, Lapse

LEMMA MutexAlways == Spec => [](TypeInv /\ MutexInv)
<1>1. TypeInv /\ MutexInv /\ [Next]_vars => (TypeInv /\ MutexInv)'
  BY TypeStep, MutexStep
<1> QED
  BY <1>1, TypeInit, MutexInit, PTL DEF Spec

\* Unless a lock's TTL runs out under a live search, one user is searched for
\* by one call at a time.
THEOREM InitiatorMutexCorrect == Spec => []InitiatorMutex
<1>1. TypeInv /\ MutexInv => InitiatorMutex
  BY DEF MutexInv
<1> QED
  BY <1>1, MutexAlways, PTL

\* Likewise one pair is claimed by one call at a time.
THEOREM PairMutexCorrect == Spec => []PairMutex
<1>1. TypeInv /\ MutexInv => PairMutex
  BY DEF MutexInv
<1> QED
  BY <1>1, MutexAlways, PTL

-----------------------------------------------------------------------------
(* The loop over the candidates *)

\* Outside tryAtomicMatch there is nothing to pass over.
LEMMA OutsidePasses ==
  ASSUME NEW g, ~Searching(g)
  PROVE  Passing(g)
BY DEF Searching, MatchLabels, Passing, Looping, ClaimLabels, LeaveLabels

\* At these labels of a search the loop has not begun, or has ended.
LEMMA BesideTheLoopPasses ==
  ASSUME NEW g, g.pc \in {"m.get", "m.blocks", "m.unlock"}
  PROVE  Passing(g)
BY DEF Passing, Looping, ClaimLabels, LeaveLabels

\* A step inside one round of the loop.
LEMMA SameRoundPasses ==
  ASSUME NEW f, NEW g, Passing(f), Looping(f),
         g.user = f.user, g.cand = f.cand, g.skip = f.skip, g.todo = f.todo
  PROVE  Passing(g)
BY DEF Passing

\* The next round finds a member that the ZRANGE reply still has, so neither the
\* user nor anybody she passes over.
LEMMA NextRoundPasses ==
  ASSUME NEW f \in Frame, f.user \in Users, f.own \in Entry,
         \A v \in f.skip \cup {f.user} : f.todo[v] = 0,
         "block" \notin Ops => f.skip = MutualBlocks(f.user)
  PROVE  Passing(NextCandidate(f))
<1> DEFINE g == NextCandidate(f)
<1>1. CASE f.todo = NoScores
  <2>1. g = [f EXCEPT !.pc = "m.unlock", !.todo = NoScores, !.cand = None, !.theirs = None,
                      !.claim = NoClaim, !.back = "none"]
    BY <1>1 DEF NextCandidate, NextRound
  <2> HIDE DEF g
  <2>2. g.pc = "m.unlock"
    BY <2>1 DEF Frame
  <2> QED
    BY <2>2, BesideTheLoopPasses DEF g
<1>2. CASE f.todo # NoScores
  <2> DEFINE first == First(f.todo)
             rest == [f.todo EXCEPT ![first] = 0]
  <2>1. f.todo \in [Users -> Nat]
    BY DEF Frame
  <2>2. first \in Users /\ f.todo[first] # 0
    BY <1>2, <2>1, FirstIsUser
  <2>3. g = [f EXCEPT !.pc = "m.cand", !.cand = first, !.theirs = None, !.todo = rest,
                      !.claim = NoClaim, !.back = "none"]
    BY <1>2 DEF NextCandidate, NextRound
  <2>4. \A v \in f.skip \cup {f.user} : rest[v] = 0
    BY <2>1, <2>2 DEF Frame
  <2> HIDE DEF first, rest, g
  <2>5. g.cand = first /\ g.todo = rest /\ g.skip = f.skip /\ g.user = f.user
    BY <2>3 DEF Frame
  <2>6. Passing(g)
    BY <2>2, <2>4, <2>5 DEF Passing
  <2> QED
    BY <2>6 DEF g
<1> QED
  BY <1>1, <1>2

\* The round after one in the loop.
LEMMA LoopGoesOn ==
  ASSUME NEW f \in Frame, f.user \in Users, f.own \in Entry, Passing(f), Looping(f)
  PROVE  Passing(NextCandidate(f))
BY NextRoundPasses DEF Passing

LEMMA SearchingPasses ==
  ASSUME TypeInv, NEW c \in Calls, Passing(call[c]), LeaveStep(c) \/ MatchStep(c)
  PROVE  Passing(call'[c])
<1> DEFINE f == call[c]
           g == call'[c]
<1>1. call \in [Calls -> Frame]
  BY DEF TypeInv, TypeOK
<1>2. f \in Frame /\ WellFormed(f) /\ f.user \in Users
  BY BusyFrame
     DEF LeaveStep, LeaveDel, LeaveZrem, MatchStep, MatchLock, MatchGet, MatchBlocks, MatchRange, MatchCandidate,
         MatchZrem, MatchUnlock, ClaimLock, ClaimGet, ClaimExec, ClaimUnlock, At
<1>3. ASSUME NEW h, Goto(c, h) PROVE g = h
  BY <1>1, <1>3 DEF Goto
<1>4. ASSUME f.pc \in ClaimLabels \cup {"m.cand", "m.zrem"} \/ (f.pc \in LeaveLabels /\ f.back = "m.next")
      PROVE  f.own \in Entry /\ Looping(f)
  BY <1>2, <1>4 DEF WellFormed, SearchLabels, Looping
<1>5. ASSUME f.own \in Entry, Looping(f), g = NextCandidate(f)
      PROVE  Passing(g)
  BY <1>2, <1>5, LoopGoesOn
<1>6. ASSUME Looping(f), g.user = f.user, g.cand = f.cand, g.skip = f.skip, g.todo = f.todo
      PROVE  Passing(g)
  BY <1>6, SameRoundPasses
<1>7. ASSUME g.pc \in {"m.get", "m.blocks", "m.unlock", "ret"}
             \/ (g.pc \in LeaveLabels /\ g.back \in {"ret", "m.unlock"})
      PROVE  Passing(g)
  BY <1>7, BesideTheLoopPasses, OutsidePasses
     DEF Searching, MatchLabels, LeaveLabels, Passing, Looping, ClaimLabels
<1>8. CASE LeaveDel(c)
  <2>1. /\ f.pc = "l.del" /\ f.back \in {"ret", "m.unlock", "m.next"}
        /\ g = [f EXCEPT !.pc = "l.zrem"]
    BY <1>2, <1>3, <1>8 DEF LeaveDel, At, WellFormed, LeaveLabels
  <2>2. /\ g.pc = "l.zrem" /\ g.back = f.back /\ g.user = f.user
        /\ g.cand = f.cand /\ g.skip = f.skip /\ g.todo = f.todo
    BY <1>2, <2>1 DEF Frame
  <2> QED
    BY <1>4, <1>6, <1>7, <2>1, <2>2 DEF LeaveLabels
<1>9. CASE LeaveZrem(c)
  <2>1. f.pc = "l.zrem" /\ f.back \in {"ret", "m.unlock", "m.next"}
    BY <1>2, <1>9 DEF LeaveZrem, At, WellFormed, LeaveLabels
  <2>2. CASE f.back = "ret"
    <3>1. g.pc = "ret"
      BY <1>1, <1>9, <2>2 DEF LeaveZrem, Goto, Reply, Idle
    <3> QED
      BY <1>7, <3>1
  <2>3. CASE f.back = "m.unlock"
    <3>1. g.pc = "m.unlock"
      BY <1>1, <1>2, <1>9, <2>3 DEF LeaveZrem, Goto, Frame
    <3> QED
      BY <1>7, <3>1
  <2>4. CASE f.back = "m.next"
    <3>1. g = NextCandidate(f)
      BY <1>1, <1>9, <2>4 DEF LeaveZrem, Goto
    <3> QED
      BY <1>4, <1>5, <2>1, <2>4, <3>1 DEF LeaveLabels
  <2> QED
    BY <2>1, <2>2, <2>3, <2>4
<1>10. CASE MatchLock(c)
  <2>1. Reply(f, "none").pc = "ret" /\ [f EXCEPT !.pc = "m.get"].pc = "m.get"
    BY <1>2 DEF Reply, Idle, Frame
  <2>2. g = Reply(f, "none") \/ g = [f EXCEPT !.pc = "m.get"]
    BY <1>3, <1>10 DEF MatchLock
  <2> QED
    BY <1>7, <2>1, <2>2
<1>11. CASE MatchGet(c)
  <2>1. g.pc \in {"m.unlock", "m.blocks"} \/ (g.pc = "l.del" /\ g.back = "m.unlock")
    BY <1>1, <1>2, <1>11 DEF MatchGet, Leaving, Goto, Frame
  <2> QED
    BY <1>7, <2>1 DEF LeaveLabels
<1>12. CASE MatchBlocks(c)
  <2> DEFINE skip == MutualBlocks(f.user)
  <2>1. g = [f EXCEPT !.pc = "m.range", !.skip = skip]
    BY <1>3, <1>12 DEF MatchBlocks
  <2> HIDE DEF skip
  <2>2. g.pc = "m.range" /\ g.skip = skip /\ g.user = f.user
    BY <1>2, <2>1 DEF Frame
  <2> QED
    BY <2>2 DEF Passing, Looping, ClaimLabels, LeaveLabels, skip
<1>13. CASE MatchRange(c)
  <2> DEFINE others == [v \in Users |-> IF v \in f.skip \cup {f.user} THEN 0 ELSE zset[v]]
             h == [f EXCEPT !.todo = others]
  <2>1. others \in [Users -> Nat] /\ f.own \in Entry /\ f.pc = "m.range"
    BY <1>2, <1>13 DEF TypeInv, TypeOK, MatchRange, At, WellFormed, SearchLabels
  <2>2. \A v \in f.skip \cup {f.user} : others[v] = 0
    BY <1>2 DEF Frame
  <2>3. g = NextCandidate(h)
    BY <1>3, <1>13 DEF MatchRange
  <2> HIDE DEF others
  <2>4. h \in Frame /\ h.user = f.user /\ h.own \in Entry /\ h.skip = f.skip /\ h.todo = others
    BY <1>2, <2>1 DEF Frame
  <2>5. "block" \notin Ops => f.skip = MutualBlocks(f.user)
    BY <2>1 DEF Passing
  <2> HIDE DEF h
  <2> QED
    BY <1>2, <2>2, <2>3, <2>4, <2>5, NextRoundPasses
<1>14. CASE MatchCandidate(c)
  <2> DEFINE e == entry[f.cand]
  <2>1. f.pc = "m.cand" /\ f.own \in Entry /\ Looping(f)
    BY <1>4, <1>14 DEF MatchCandidate, At
  <2>2. \/ g = [f EXCEPT !.pc = "m.zrem"]
        \/ g = [f EXCEPT !.pc = "l.del", !.back = "m.next"]
        \/ g = [f EXCEPT !.pc = "c.lock", !.theirs = e]
        \/ g = NextCandidate(f)
    BY <1>3, <1>14 DEF MatchCandidate
  <2> HIDE DEF e
  <2>3. g # NextCandidate(f) => g.user = f.user /\ g.cand = f.cand /\ g.skip = f.skip /\ g.todo = f.todo
    BY <1>2, <2>2 DEF Frame
  <2> QED
    BY <1>5, <1>6, <2>1, <2>3
<1>15. CASE MatchZrem(c)
  <2>1. f.pc = "m.zrem" /\ g = NextCandidate(f)
    BY <1>3, <1>15 DEF MatchZrem, At
  <2> QED
    BY <1>4, <1>5, <2>1
<1>16. CASE MatchUnlock(c)
  <2>1. g.pc = "ret"
    BY <1>1, <1>16 DEF MatchUnlock, Goto, Reply, Idle
  <2> QED
    BY <1>7, <2>1
<1>17. CASE ClaimLock(c) \/ ClaimGet(c) \/ ClaimExec(c) \/ ClaimUnlock(c)
  <2>1. f.own \in Entry /\ Looping(f)
    BY <1>4, <1>17 DEF ClaimLock, ClaimGet, ClaimExec, ClaimUnlock, At, ClaimLabels
  <2> DEFINE claim == [mine |-> entry[f.user].ticket, other |-> entry[f.cand].ticket]
  <2>2. \/ g = NextCandidate(f)
        \/ g = [f EXCEPT !.pc = "c.get"]
        \/ g = [f EXCEPT !.pc = "c.unlock"]
        \/ g = [f EXCEPT !.pc = "c.exec", !.claim = claim]
        \/ g = [f EXCEPT !.pc = "c.unlock", !.res = "matched"]
        \/ g = [f EXCEPT !.pc = "m.unlock"]
    BY <1>3, <1>17 DEF ClaimLock, ClaimGet, ClaimExec, ClaimUnlock
  <2> HIDE DEF claim
  <2>3. g # NextCandidate(f) => g.user = f.user /\ g.cand = f.cand /\ g.skip = f.skip /\ g.todo = f.todo
    BY <1>2, <2>2 DEF Frame
  <2> QED
    BY <1>5, <1>6, <2>1, <2>3
<1> QED
  BY <1>8, <1>9, <1>10, <1>11, <1>12, <1>13, <1>14, <1>15, <1>16, <1>17 DEF LeaveStep, MatchStep

LEMMA RejectedPasses ==
  ASSUME TypeInv, NEW c \in Calls, ~At(c, "idle"), Passing(call[c])
  PROVE  Passing(Rejected(call[c]))
<1> DEFINE f == call[c]
           g == Rejected(f)
<1>1. f \in Frame
  BY BusyFrame
<1>2. CASE f.pc \in {"c.get", "c.exec"}
  <2>1. g = [f EXCEPT !.pc = "c.unlock", !.res = "error", !.claim = NoClaim]
    BY <1>2 DEF Rejected
  <2> HIDE DEF g
  <2>2. g.user = f.user /\ g.cand = f.cand /\ g.skip = f.skip /\ g.todo = f.todo
    BY <1>1, <2>1 DEF Frame
  <2>3. Passing(g)
    BY <1>2, <2>2, SameRoundPasses DEF Looping, ClaimLabels
  <2> QED
    BY <2>3 DEF g
<1>3. CASE f.pc \notin {"c.get", "c.exec"} /\ Searching(f) /\ f.pc # "m.unlock"
  <2>1. g = [f EXCEPT !.pc = "m.unlock", !.res = "error"]
    BY <1>3 DEF Rejected
  <2>2. g.pc = "m.unlock"
    BY <1>1, <2>1 DEF Frame
  <2> QED
    BY <2>2, BesideTheLoopPasses
<1>4. CASE f.pc \notin {"c.get", "c.exec"} /\ ~(Searching(f) /\ f.pc # "m.unlock")
  <2>1. g = Reply(f, "error")
    BY <1>4 DEF Rejected
  <2>2. ~Searching(g)
    BY <2>1 DEF Reply, Idle, Searching, MatchLabels
  <2> QED
    BY <2>2, OutsidePasses
<1> QED
  BY <1>2, <1>3, <1>4

\* Every step of a call leaves it passing over the user and the blocked.
LEMMA CallPasses ==
  ASSUME TypeInv, SearchInv, NEW c \in Calls,
         Start(c) \/ Progress(c) \/ Return(c) \/ Throw(c) \/ LostReply(c)
  PROVE  /\ Passing(call'[c])
         /\ \A d \in Calls : d # c => call'[d] = call[d]
<1>1. call \in [Calls -> Frame] /\ Passing(call[c])
  BY DEF TypeInv, TypeOK, SearchInv
<1>2. CASE Throw(c) \/ LostReply(c)
  BY <1>1, <1>2, FailingIsBusy, RejectedPasses DEF Goto
<1>3. CASE Start(c) \/ JoinStep(c) \/ UpdateStep(c) \/ CleanupStep(c) \/ StatusStep(c) \/ Return(c)
  <2>1. Quiet(c) /\ ~Searching(call'[c])
    BY <1>3, OutsideSteps
  <2> QED
    BY <1>1, <2>1, OutsidePasses DEF Quiet, Goto
<1>4. CASE LeaveStep(c) \/ MatchStep(c)
  <2>1. \E g \in Frame : Goto(c, g)
    BY <1>4, LeaveFrame, MatchFrame
  <2> QED
    BY <1>1, <1>4, <2>1, SearchingPasses DEF Goto
<1> QED
  BY <1>2, <1>3, <1>4 DEF Progress

LEMMA SearchInit == Init => SearchInv
<1> SUFFICES ASSUME Init PROVE SearchInv
  OBVIOUS
<1>1. \A c \in Calls : ~Searching(call[c])
  BY DEF Init, Idle, Searching, MatchLabels
<1> QED
  BY <1>1, OutsidePasses DEF Init, SearchInv, BlockedNeverMatched

\* The only step that adds a match is the transaction of a claim.
LEMMA MatchesGrow ==
  ASSUME NEW c \in Calls, Start(c) \/ Progress(c) \/ Return(c) \/ Throw(c) \/ LostReply(c)
  PROVE  \/ matches' = matches
         \/ At(c, "c.exec") /\ TakePair(call[c])
<1>1. CASE Start(c) \/ Return(c) \/ Throw(c) \/ LostReply(c)
  BY <1>1 DEF Start, JoinQueue, UpdateSocketId, LeaveQueue, GetStatus, TryAtomicMatch, Return, Throw, LostReply,
              history, At
<1>2. CASE Progress(c)
  BY <1>2 DEF Progress, JoinStep, JoinProfile, JoinGet, JoinResave, JoinSave, JoinZadd, UpdateStep, UpdateGet,
              UpdateSave, LeaveStep, LeaveDel, LeaveZrem, CleanupStep, CleanupRange, CleanupGet, CleanupZrem,
              CleanupDel, StatusStep, StatusGet, StatusRank, MatchStep, MatchLock, MatchGet, MatchBlocks,
              MatchRange, MatchCandidate, MatchZrem, MatchUnlock, ClaimLock, ClaimGet, ClaimExec, ClaimUnlock,
              history
<1> QED
  BY <1>1, <1>2

LEMMA SearchStep == TypeInv /\ SearchInv /\ [Next]_vars => SearchInv'
<1> SUFFICES ASSUME TypeInv, SearchInv, [Next]_vars PROVE SearchInv'
  OBVIOUS
<1>1. ASSUME NEW c \in Calls, Start(c) \/ Progress(c) \/ Return(c) \/ Throw(c) \/ LostReply(c)
      PROVE  SearchInv'
  <2>1. blocks' = blocks
    BY <1>1 DEF Start, JoinQueue, UpdateSocketId, LeaveQueue, GetStatus, TryAtomicMatch, Return, Throw, LostReply,
                Progress, JoinStep, JoinProfile, JoinGet, JoinResave, JoinSave, JoinZadd, UpdateStep, UpdateGet,
                UpdateSave, LeaveStep, LeaveDel, LeaveZrem, CleanupStep, CleanupRange, CleanupGet, CleanupZrem,
                CleanupDel, StatusStep, StatusGet, StatusRank, MatchStep, MatchLock, MatchGet, MatchBlocks,
                MatchRange, MatchCandidate, MatchZrem, MatchUnlock, ClaimLock, ClaimGet, ClaimExec, ClaimUnlock,
                environment
  <2>2. \A d \in Calls : Passing(call[d])'
    BY <1>1, <2>1, CallPasses DEF SearchInv, Passing, MutualBlocks
  <2>3. BlockedNeverMatched'
    <3>1. CASE matches' = matches
      BY <2>1, <3>1 DEF SearchInv, BlockedNeverMatched
    <3>2. CASE At(c, "c.exec") /\ TakePair(call[c]) /\ "block" \notin Ops
      <4> DEFINE f == call[c]
      <4>1. f.cand \notin MutualBlocks(f.user) /\ f.cand \in Users
        BY <3>2, BusyFrame DEF At, SearchInv, Passing, Looping, ClaimLabels, WellFormed
      <4>2. {<<f.user, f.cand>>, <<f.cand, f.user>>} \cap blocks = {}
        BY <4>1 DEF MutualBlocks
      <4> QED
        BY <2>1, <3>2, <4>2, NewMatchFields DEF TakePair, SearchInv, BlockedNeverMatched
    <3> QED
      BY <1>1, <3>1, <3>2, MatchesGrow DEF BlockedNeverMatched
  <2> QED
    BY <2>2, <2>3 DEF SearchInv
<1>2. CASE Crash
  <2>1. \A d \in Calls : ~Searching(call'[d])
    BY <1>2 DEF Crash, Idle, Searching, MatchLabels
  <2>2. \A d \in Calls : Passing(call[d])'
    BY <2>1 DEF Searching, MatchLabels, Passing, Looping, ClaimLabels, LeaveLabels
  <2> QED
    BY <1>2, <2>2 DEF Crash, SearchInv, BlockedNeverMatched, history
<1>3. CASE Blocklisting
  <2>1. "block" \in Ops /\ UNCHANGED <<call, matches>>
    BY <1>3 DEF Blocklisting, BlockUser, UnblockUser, history
  <2> QED
    BY <2>1 DEF SearchInv, Passing, BlockedNeverMatched
<1>4. CASE Lapse \/ Age \/ (\E u \in Users : RedisExpire(u)) \/ UNCHANGED vars
  <2>1. UNCHANGED <<call, matches, blocks>>
    BY <1>4 DEF Lapse, LockLapse, PairLapse, Age, RedisExpire, vars, history, environment
  <2> QED
    BY <2>1 DEF SearchInv, Passing, MutualBlocks, BlockedNeverMatched
<1> QED
  BY <1>1, <1>2, <1>3, <1>4 DEF Next, Environment

\* Of two users with a block between them, none is ever matched with the other,
\* as long as blocks neither come nor go.
THEOREM BlockedNeverMatchedCorrect == Spec => []BlockedNeverMatched
<1>1. TypeInv /\ SearchInv /\ [Next]_vars => (TypeInv /\ SearchInv)'
  BY TypeStep, SearchStep
<1>2. Spec => [](TypeInv /\ SearchInv)
  BY <1>1, TypeInit, SearchInit, PTL DEF Spec
<1>3. SearchInv => BlockedNeverMatched
  BY DEF SearchInv
<1> QED
  BY <1>2, <1>3, PTL
=============================================================================
