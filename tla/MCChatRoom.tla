----------------------------- MODULE MCChatRoom -----------------------------
(* Instances of ChatRoom for TLC: u1 and u2 share r1, u3 is a stranger to it. *)
EXTENDS ChatRoom, TLC

CONSTANTS u1, u2, u3, r1, s1, s2, s3

MCSocketUser == [s \in Sockets |-> CASE s = s1 -> u1 [] s = s2 -> u2 [] s = s3 -> u3]

MCMembers == [r \in Rooms |-> {u1, u2}]

CallSymmetry == Permutations(Calls)
=============================================================================
