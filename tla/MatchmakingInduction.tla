------------------------ MODULE MatchmakingInduction ------------------------
(***************************************************************************)
(* The inductive invariant behind the safety properties of Matchmaking.    *)
(* TLC checks it on the small instances; MatchmakingProofs proves it.      *)
(***************************************************************************)
EXTENDS Matchmaking

ClaimLabels == {"c.lock", "c.get", "c.exec", "c.unlock"}
SearchLabels == ClaimLabels \cup {"m.blocks", "m.range", "m.cand", "m.zrem"}
CleanupLabels == {"k.range", "k.get", "k.zrem", "k.del"}
LeaveLabels == {"l.del", "l.zrem"}

\* The local variables that are in scope at a label hold a value there.
WellFormed(f) ==
  /\ f.pc # "idle" => f.user \in Users
  /\ f.pc \in SearchLabels \cup {"j.profile", "j.get", "j.resave", "j.save", "j.zadd", "u.get", "u.save"}
       => f.own \in Entry
  /\ f.pc \in ClaimLabels \cup {"m.cand", "m.zrem", "k.get", "k.zrem", "k.del"} => f.cand \in Users
  /\ f.pc \in ClaimLabels => f.theirs \in Entry
  /\ f.pc \in CleanupLabels => f.back \in {"s.get", "s.rank"}
  /\ f.pc \in LeaveLabels => f.back \in {"ret", "m.unlock", "m.next"}
  /\ f.pc \in LeaveLabels /\ f.back = "m.next" => f.cand \in Users /\ f.own \in Entry

FramesWellFormed == \A c \in Calls : WellFormed(call[c])

TypeInv == TypeOK /\ FramesWellFormed

-----------------------------------------------------------------------------
\* A search owns the lock of its user, a claim the lock of its pair.
LockHeld == LocksMayLapse \/ \A c \in Calls :
  /\ Searching(call[c]) => lock[call[c].user]
  /\ Claiming(call[c]) => Pair(call[c]) \in pairLock

MutexInv == LockHeld /\ InitiatorMutex /\ PairMutex

-----------------------------------------------------------------------------
\* The calls that hold an entry they will write.
Resaving(f) == f.pc \in {"j.resave", "u.save"}
Saving(f) == f.pc = "j.save"
Executing(f) == f.pc = "c.exec"

Owned(t, u) == t \in 1..stamp /\ owner[t] = u

\* Every ticket in use was drawn for the user it is used for.
TicketsOwned ==
  /\ \A u \in Users : entry[u] # None => Owned(entry[u].ticket, u)
  /\ \A c \in Calls : /\ Resaving(call[c]) \/ Saving(call[c])
                           => Owned(call[c].own.ticket, call[c].user)
                      /\ Executing(call[c])
                           => /\ Owned(call[c].claim.mine, call[c].user)
                              /\ Owned(call[c].claim.other, call[c].cand)
  /\ \A m \in matches : Owned(m.mine, m.by) /\ Owned(m.other, m.with)

\* A ticket that has not been saved yet is known to the call that drew it only.
UnsavedIsPrivate ==
  \A c \in Calls : Saving(call[c]) => LET t == call[c].own.ticket IN
    /\ \A u \in Users : entry[u] # None => entry[u].ticket # t
    /\ \A d \in Calls : /\ Resaving(call[d]) \/ (Saving(call[d]) /\ d # c) => call[d].own.ticket # t
                        /\ Executing(call[d]) => t \notin {call[d].claim.mine, call[d].claim.other}
    /\ \A m \in matches : t \notin {m.mine, m.other}

TicketInv == TicketsOwned /\ UnsavedIsPrivate /\ MatchedStaysOut

-----------------------------------------------------------------------------
\* The calls in the loop over the candidates, also while they remove an expired one.
Looping(f) == \/ f.pc \in ClaimLabels \cup {"m.cand", "m.zrem"}
              \/ f.pc \in LeaveLabels /\ f.back = "m.next"

\* The loop passes over the user herself and everybody blocked when it began.
Passing(f) ==
  /\ Looping(f) => /\ f.cand \notin f.skip \cup {f.user}
                   /\ \A v \in f.skip \cup {f.user} : f.todo[v] = 0
  /\ "block" \notin Ops /\ (f.pc = "m.range" \/ Looping(f)) => f.skip = MutualBlocks(f.user)

SearchInv == (\A c \in Calls : Passing(call[c])) /\ BlockedNeverMatched

\* The joins that have not drawn a ticket yet fit under the bound.
StampBounded == stamp + Cardinality(PendingJoins) <= MaxStamp

-----------------------------------------------------------------------------
\* A stay of the user has run out.
Lapsed(u) == \E t \in 1..stamp : owner[t] = u /\ t <= aged

\* Who is about to be removed has let a stay run out, or is leaving.
Judged(f) ==
  /\ f.pc = "k.del" \/ (f.pc = "k.zrem" /\ f.theirs # None) => Lapsed(f.cand)
  /\ f.pc = "l.del" => Lapsed(Leaver(f)) \/ (f.res = "left" /\ Leaver(f) = f.user)

JudgedInv == \A c \in Calls : Judged(call[c])

IInv == TypeInv /\ MutexInv /\ TicketInv /\ SearchInv /\ FreshPair /\ StampBounded /\ JudgedInv
=============================================================================
