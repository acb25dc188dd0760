---------------------------- MODULE MatchLedger ----------------------------
(***************************************************************************)
(* What the matchmaking service promises about stays in the queue, without *)
(* Redis, locks or calls.  A stay is named by its ticket.  It waits, and   *)
(* once it has stopped waiting it is dead.  Two stays that wait at one     *)
(* moment may be proposed as a pair; a proposed pair may be confirmed,     *)
(* which ends both stays, or abandoned.                                    *)
(*                                                                         *)
(* The ledger is what the code keeps to, and so it shows where the promise *)
(* is weaker than one would like: a stay may be in two proposals at once   *)
(* and be confirmed in both, and a dead stay may be revived.               *)
(***************************************************************************)
CONSTANT Tickets

VARIABLES waiting, dead, proposed, confirmed, revived

vars == <<waiting, dead, proposed, confirmed, revived>>

Pairs == {p \in SUBSET Tickets : \E a, b \in p : a # b /\ p = {a, b}}

Init ==
  /\ waiting \subseteq Tickets
  /\ dead \subseteq Tickets \ waiting
  /\ proposed = {} /\ confirmed = {} /\ revived = {}

\* A new stay begins; it may end an older stay of the same user.
Enter(t) ==
  /\ t \notin waiting \cup dead
  /\ \E S \in SUBSET waiting :
       /\ waiting' = (waiting \ S) \cup {t}
       /\ dead' = dead \cup S
  /\ UNCHANGED <<proposed, confirmed, revived>>

\* Stays end: the user leaves, the stay times out, a cleanup removes it.
Withdraw(S) ==
  /\ S # {}
  /\ waiting' = waiting \ S
  /\ dead' = dead \cup S
  /\ UNCHANGED <<proposed, confirmed, revived>>

\* A late write brings a dead stay back.
Revive(t) ==
  /\ t \in dead
  /\ \E S \in SUBSET waiting :
       /\ waiting' = (waiting \ S) \cup {t}
       /\ dead' = (dead \cup S) \ {t}
  /\ revived' = revived \cup {t}
  /\ UNCHANGED <<proposed, confirmed>>

\* Both stays wait, the pair is in no other proposal, and it was not matched before.
Propose(p) ==
  /\ p \subseteq waiting
  /\ p \notin proposed
  /\ p \in confirmed => p \subseteq revived
  /\ proposed' = proposed \cup {p}
  /\ UNCHANGED <<waiting, dead, confirmed, revived>>

\* The match: neither stay waits any longer.  A newer stay of the two users
\* ends with it.
Confirm(p) ==
  /\ p \in proposed
  /\ proposed' = proposed \ {p}
  /\ confirmed' = confirmed \cup {p}
  /\ \E S \in SUBSET waiting :
       /\ p \cap waiting \subseteq S
       /\ waiting' = waiting \ S
       /\ dead' = dead \cup S
  /\ UNCHANGED revived

\* Claims fail, and joins that never reached the queue are given up.
Abandon(P, lost) ==
  /\ P \cup lost # {}
  /\ proposed' = proposed \ P
  /\ dead' = dead \cup lost
  /\ UNCHANGED <<waiting, confirmed, revived>>

Next ==
  \/ \E t \in Tickets : Enter(t) \/ Revive(t)
  \/ \E S \in SUBSET waiting : Withdraw(S)
  \/ \E p \in Pairs : Propose(p)
  \/ \E p \in proposed : Confirm(p)
  \/ \E P \in SUBSET proposed, lost \in SUBSET (Tickets \ (waiting \cup dead)) : Abandon(P, lost)

Spec == Init /\ [][Next]_vars

=============================================================================
