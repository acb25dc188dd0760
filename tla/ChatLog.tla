------------------------------ MODULE ChatLog ------------------------------
(***************************************************************************)
(* What the chat service promises about the messages of a room, without    *)
(* sockets, handlers or commands.  A room is open and then closed for      *)
(* good.  A sender is admitted while the room is open; the message of a    *)
(* sender who was admitted is saved once, or given up.  The log of a room  *)
(* is deleted as a whole, and only when the room is closed.                *)
(*                                                                         *)
(* A sender may be admitted before the room closes and save after its log  *)
(* was deleted: the promise is no stronger than the code.                  *)
(***************************************************************************)
CONSTANTS Rooms, Senders, Messages

VARIABLES open, log, admitted

vars == <<open, log, admitted>>

Init ==
  /\ open \subseteq Rooms
  /\ log \in [Rooms -> SUBSET Messages]
  /\ admitted = {}

Admit(p, r) ==
  /\ r \in open
  /\ admitted' = admitted \cup {<<p, r>>}
  /\ UNCHANGED <<open, log>>

\* An id is used once among the messages that are kept.
Save(p, r, m) ==
  /\ <<p, r>> \in admitted
  /\ \A q \in Rooms : m \notin log[q]
  /\ admitted' = admitted \ {<<p, r>>}
  /\ log' = [log EXCEPT ![r] = @ \cup {m}]
  /\ UNCHANGED open

GiveUp(P) ==
  /\ admitted' = admitted \ P
  /\ UNCHANGED <<open, log>>

Close(r) ==
  /\ open' = open \ {r}
  /\ UNCHANGED <<log, admitted>>

Purge(r) ==
  /\ r \notin open
  /\ log' = [log EXCEPT ![r] = {}]
  /\ UNCHANGED <<open, admitted>>

Next ==
  \/ \E p \in Senders, r \in Rooms : Admit(p, r)
  \/ \E p \in Senders, r \in Rooms, m \in Messages : Save(p, r, m)
  \/ \E P \in SUBSET admitted : GiveUp(P)
  \/ \E r \in Rooms : Close(r) \/ Purge(r)

Spec == Init /\ [][Next]_vars

-----------------------------------------------------------------------------
\* What follows from the log alone: once a room is closed and every sender who was
\* admitted is through, no message enters it any more.
ClosedIsFinal ==
  [][\A r \in Rooms : r \notin open /\ (\A p \in Senders : <<p, r>> \notin admitted)
       => r \notin open' /\ log'[r] \subseteq log[r]]_vars
=============================================================================
