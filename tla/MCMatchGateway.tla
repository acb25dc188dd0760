--------------------------- MODULE MCMatchGateway ---------------------------
(* Instances of MatchGateway for TLC: one to three users with at most a socket each. *)
EXTENDS MatchGateway, TLC

CONSTANTS u1, u2, u3, s1, s2

AnyDto == [preference |-> "any", preferredGender |-> "any"]

MCGender == [u \in Users |-> IF u = u1 THEN "female" ELSE "male"]
MCAnyDtos == [u \in Users |-> {AnyDto}]
\* Only u1 joins, the other is there already.
MCOneJoins == [u \in Users |-> IF u = u1 THEN {AnyDto} ELSE {}]
MCNobody == [u \in Users |-> None]
MCNoBlocks == {}

MCSocketUser == [s \in Sockets |-> IF s = s2 THEN u2 ELSE u1]

\* u2 has joined over REST and has no socket yet.
MCRestWaiting == [u \in Users |->
  IF u = u1 THEN None
  ELSE [ticket |-> 1, sid |-> Pending, gender |-> MCGender[u], preference |-> "any", preferredGender |-> "any"]]

\* u2 and u3 have joined over REST and compete for u1.  u3 has no socket.
MCBothRestWaiting == [u \in Users |->
  IF u = u1 THEN None
  ELSE [ticket |-> IF u = u3 THEN 1 ELSE 2, sid |-> Pending, gender |-> MCGender[u],
        preference |-> "any", preferredGender |-> "female"]]

CallSymmetry == Permutations(Calls)
=============================================================================
