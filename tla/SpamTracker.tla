---------------------------- MODULE SpamTracker ----------------------------
(***************************************************************************)
(* moderateMessage of the moderation service, for one sender in one room:  *)
(* the entry of spamTracker at one key.  The call is synchronous, so an    *)
(* attempt is one action.  checkText looks at the text alone: the texts it *)
(* objects to are a set.  Time is Date.now() in units of the instance; it  *)
(* does not run backwards.                                                 *)
(*                                                                         *)
(* The array timestamps grows at its end by times later than those before, *)
(* since checkSpam records no second attempt within MIN_INTERVAL_MS.  It is *)
(* kept as the set of its elements: its last element is the greatest, its  *)
(* first the least, its length the size of the set.                        *)
(***************************************************************************)
EXTENDS Integers, Sequences, FiniteSets

CONSTANTS
  Texts,         \* trimmed message texts
  Offensive,     \* those checkText refuses: banned words, phone numbers, links, contacts
  NoText,        \* the empty lastContent of a new entry
  MaxMessages,   \* MAX_MESSAGES_PER_MINUTE
  Window,        \* one minute
  MinInterval,   \* MIN_INTERVAL_MS
  DupWindow,     \* DUPLICATE_WINDOW_MS
  MaxTime        \* bound on the time

ASSUME SpamAssumption ==
  /\ NoText \notin Texts /\ Offensive \subseteq Texts
  /\ MaxMessages \in Nat \ {0} /\ MaxTime \in Nat
  /\ MinInterval \in Nat \ {0} /\ DupWindow \in Nat /\ Window \in Nat
  /\ MinInterval <= Window

VARIABLES
  now,
  timestamps, lastContent, lastContentAt,  \* the SpamEntry
  accepted                                 \* history: what was let through since the entry was new

spam == <<timestamps, lastContent, lastContentAt>>
spamVars == <<now, spam, accepted>>

\* Mutant: the window of the rate check instead of the one for duplicates.
DuplicateShort(text) == lastContent = text /\ now - lastContentAt < MinInterval

Duplicate(text) == lastContent = text /\ now - lastContentAt < DupWindow

\* Mutant: the oldest timestamp instead of the last one.
TooFastFirst == \E t \in timestamps : (\A s \in timestamps : t <= s) /\ now - t < MinInterval

\* There is a last timestamp, and it is too close.
TooFast == \E t \in timestamps : (\A s \in timestamps : s <= t) /\ now - t < MinInterval

\* Mutant: old timestamps are kept.
RecordedAll == timestamps \cup {now}

\* The timestamps of the last minute, and this one.
Recorded == {t \in timestamps : now - t < Window} \cup {now}

-----------------------------------------------------------------------------
\* moderateMessage asks checkText first; what it refuses never reaches checkSpam.
Object(text) ==
  /\ text \in Offensive
  /\ UNCHANGED spamVars

\* A duplicate or a message that comes too fast leaves no trace.
Refuse(text) ==
  /\ text \notin Offensive /\ (Duplicate(text) \/ TooFast)
  /\ UNCHANGED spamVars

\* One that exceeds the rate is refused, and counts all the same.
Overrun(text) ==
  /\ text \notin Offensive /\ ~Duplicate(text) /\ ~TooFast
  /\ Cardinality(Recorded) > MaxMessages
  /\ timestamps' = Recorded
  /\ UNCHANGED <<now, lastContent, lastContentAt, accepted>>

\* Mutant: one message too many passes.
AcceptOneMore(text) ==
  /\ text \notin Offensive /\ ~Duplicate(text) /\ ~TooFast
  /\ Cardinality(Recorded) <= MaxMessages + 1
  /\ timestamps' = Recorded
  /\ lastContent' = text
  /\ lastContentAt' = now
  /\ accepted' = Append(accepted, [at |-> now, text |-> text])
  /\ UNCHANGED now

\* Mutant: the two assignments are swapped.
AcceptSwapped(text) ==
  /\ text \notin Offensive /\ ~Duplicate(text) /\ ~TooFast
  /\ Cardinality(Recorded) <= MaxMessages
  /\ timestamps' = Recorded
  /\ lastContent' = now
  /\ lastContentAt' = text
  /\ accepted' = Append(accepted, [at |-> now, text |-> text])
  /\ UNCHANGED now

Accept(text) ==
  /\ text \notin Offensive /\ ~Duplicate(text) /\ ~TooFast
  /\ Cardinality(Recorded) <= MaxMessages
  /\ timestamps' = Recorded
  /\ lastContent' = text
  /\ lastContentAt' = now
  /\ accepted' = Append(accepted, [at |-> now, text |-> text])
  /\ UNCHANGED now

NewEntry == timestamps = {} /\ lastContent = NoText /\ lastContentAt = 0 /\ accepted = <<>>

\* clearSpamTracker, when the room is closed: the next attempt finds a new entry.
Clear ==
  /\ timestamps' = {} /\ lastContent' = NoText /\ lastContentAt' = 0 /\ accepted' = <<>>
  /\ UNCHANGED now

Tick ==
  /\ now < MaxTime
  /\ now' = now + 1
  /\ UNCHANGED <<spam, accepted>>

SpamInit == now = 1 /\ NewEntry

SpamNext ==
  \/ \E text \in Texts : Object(text) \/ Refuse(text) \/ Overrun(text) \/ Accept(text)
  \/ Clear
  \/ Tick

SpamSpec == SpamInit /\ [][SpamNext]_spamVars

-----------------------------------------------------------------------------
(* Properties *)

\* Every variable holds a value of its kind.
SpamTypeOK ==
  /\ now \in Nat
  /\ timestamps \in SUBSET Nat
  /\ lastContent \in Texts \cup {NoText}
  /\ lastContentAt \in Nat
  /\ accepted \in Seq([at : Nat, text : Texts])

\* No minute, wherever it begins, holds more accepted messages than the limit,
\* although old timestamps are dropped only when a message is recorded
\* (checkSpam, lines 104-109).
RateLimit ==
  \A i \in DOMAIN accepted :
    Cardinality({j \in 1..i : accepted[i].at - accepted[j].at < Window}) <= MaxMessages

\* Two accepted messages are never closer than the minimum interval, also when
\* refused ones lie between them.
Spacing ==
  \A i, j \in DOMAIN accepted : i < j => accepted[j].at - accepted[i].at >= MinInterval

\* A text is not accepted twice in a row within the duplicate window, also when
\* other texts were refused in between (checkSpam, lines 90-96).
NoRepeat ==
  \A i \in 1..Len(accepted) - 1 :
    accepted[i].text = accepted[i + 1].text => accepted[i + 1].at - accepted[i].at >= DupWindow

\* The entry does not grow with the number of attempts, although refused ones are
\* recorded too: it never holds more than a window of spaced timestamps.
EntryIsBounded == Cardinality(timestamps) <= (Window \div MinInterval) + 1
=============================================================================
