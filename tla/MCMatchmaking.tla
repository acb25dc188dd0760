--------------------------- MODULE MCMatchmaking ---------------------------
(* Instances of Matchmaking for TLC: two or three users. *)
EXTENDS MatchmakingInduction, TLC

CONSTANTS u1, u2, u3, web

AnyDto == [preference |-> "any", preferredGender |-> "any"]
SameDto == [preference |-> "same", preferredGender |-> "any"]

\* u1 is a woman, the others are men.
MCGender == [u \in Users |-> IF u = u1 THEN "female" ELSE "male"]

\* Everyone takes anyone.
MCAnyDtos == [u \in Users |-> {AnyDto}]
\* u3 will only meet men.
MCOneChoosy == [u \in Users |-> IF u = u3 THEN {SameDto} ELSE {AnyDto}]

Seat(u, t, dto) == [ticket |-> t, sid |-> web, gender |-> MCGender[u],
                    preference |-> dto.preference, preferredGender |-> dto.preferredGender]

MCNobody == [u \in Users |-> None]
MCTrioWaiting == [u \in Users |-> CASE u = u1 -> Seat(u, 1, AnyDto)
                                    [] u = u2 -> Seat(u, 2, AnyDto)
                                    [] OTHER -> Seat(u, 3, AnyDto)]
MCChoosyWaiting == [u \in Users |-> CASE u = u1 -> Seat(u, 1, AnyDto)
                                      [] u = u2 -> Seat(u, 2, AnyDto)
                                      [] OTHER -> Seat(u, 3, SameDto)]
MCNoBlocks == {}
MCOneBlock == {<<u2, u1>>}

\* Call slots are interchangeable: no constant names one.
CallSymmetry == Permutations(Calls)
=============================================================================
