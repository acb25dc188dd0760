---------------------------- MODULE MCProfiles ----------------------------
(* Two values of every kind and bodies that set, leave out or null each field. *)
EXTENDS Profiles, TLC

CONSTANTS n1, g1, b1, f1, f2, c1, c2

Body(n, g, b) == [displayName |-> n, gender |-> g, bio |-> b]
MCCreateDtos == {Body(Null, g1, b1), Body(n1, g1, Absent), Body(Absent, g1, Null)}
MCUpdateDtos == {Body(Absent, Null, Absent), Body(n1, g1, Null)}
MCMeDtos == {[displayName |-> Null, avatar |-> f2], [displayName |-> Absent, avatar |-> Null]}
MCInitProfiles == {Null, [gender |-> g1, bio |-> b1, avatar |-> Blank]}
=============================================================================
