---------------------------- MODULE MCAccounts ----------------------------
(* One address, typed in two ways. *)
EXTENDS Accounts, TLC

CONSTANTS a1, A1

MCLowercaseOne == a1 :> a1 @@ A1 :> a1

\* No account, or one registered before registration set isEmailVerified.
Legacy == [email |-> a1, verified |-> FALSE, banned |-> FALSE, password |-> TRUE]
MCInitUsers == {<<>>, <<Legacy>>}
MCSymmetry == Permutations(Calls)
=============================================================================
