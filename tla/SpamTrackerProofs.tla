------------------------- MODULE SpamTrackerProofs -------------------------
(***************************************************************************)
(* Proofs about SpamTracker, for all limits and every number of attempts.  *)
(***************************************************************************)
EXTENDS SpamTracker, FiniteSetTheorems, SequenceTheorems, TLAPS

-----------------------------------------------------------------------------
(* The inductive invariant *)

\* The entry: its times are spaced, span less than a window, and one is the last.
EntryInv ==
  /\ IsFiniteSet(timestamps)
  /\ \A t \in timestamps : t <= now
  /\ timestamps # {} => \E t \in timestamps : \A s \in timestamps : s <= t
  /\ \A s, t \in timestamps : s < t => t - s >= MinInterval
  /\ \A s, t \in timestamps : t - s < Window

\* What was accepted is in the entry unless it is older than a window, and the
\* last text of the entry is the one accepted last.
AcceptedInv ==
  /\ \A i \in DOMAIN accepted :
       accepted[i].at <= now /\ (accepted[i].at \in timestamps \/ now - accepted[i].at >= Window)
  /\ accepted # <<>> => /\ lastContent = accepted[Len(accepted)].text
                        /\ lastContentAt = accepted[Len(accepted)].at

SpamInv == SpamTypeOK /\ EntryInv /\ AcceptedInv /\ Spacing /\ NoRepeat /\ RateLimit

-----------------------------------------------------------------------------
(* Division *)

LEMMA QuotientsGrow ==
  ASSUME NEW a \in Nat, NEW b \in Nat, NEW d \in Nat \ {0}, a <= b
  PROVE  a \div d \in Nat /\ a \div d <= b \div d
OBVIOUS

LEMMA QuotientsDiffer ==
  ASSUME NEW a \in Nat, NEW b \in Nat, NEW d \in Nat \ {0}, a + d <= b
  PROVE  a \div d # b \div d
OBVIOUS

-----------------------------------------------------------------------------
(* Counting *)

LEMMA InjectionsCount ==
  ASSUME NEW S, NEW T, IsFiniteSet(T), NEW f \in [S -> T],
         \A x, y \in S : f[x] = f[y] => x = y
  PROVE  IsFiniteSet(S) /\ Cardinality(S) \in Nat /\ Cardinality(S) <= Cardinality(T)
<1>1. f \in Injection(S, T)
  BY DEF Injection, IsInjective
<1> QED
  BY <1>1, FS_Injection, FS_CardinalityType

\* The spaced times of a window, counted by their distance to the last one.
LEMMA SpacedTimesAreFew ==
  ASSUME SpamTypeOK, EntryInv
  PROVE  EntryIsBounded
<1> USE SpamAssumption
<1> DEFINE B == 0..(Window \div MinInterval)
<1>1. Window \div MinInterval \in Nat
  BY QuotientsGrow
<1>2. IsFiniteSet(B) /\ Cardinality(B) = (Window \div MinInterval) + 1
  <2> DEFINE q == Window \div MinInterval
  <2>1. q \in Nat /\ B = 0..q
    BY <1>1
  <2> HIDE DEF q, B
  <2>2. IsFiniteSet(0..q) /\ Cardinality(0..q) = q + 1
    BY <2>1, FS_Interval
  <2> QED
    BY <2>1, <2>2 DEF q
<1>3. CASE timestamps = {}
  BY <1>1, <1>3, FS_EmptySet DEF EntryIsBounded
<1>4. CASE timestamps # {}
  <2>1. PICK m \in timestamps : \A t \in timestamps : t <= m
    BY <1>4 DEF EntryInv
  <2>2. \A t \in timestamps : t \in Nat /\ m \in Nat /\ m - t \in Nat /\ m - t <= Window
    BY <2>1 DEF EntryInv, SpamTypeOK
  <2> DEFINE f == [t \in timestamps |-> (m - t) \div MinInterval]
  <2>3. \A t \in timestamps : (m - t) \div MinInterval \in B
    <3> SUFFICES ASSUME NEW t \in timestamps PROVE (m - t) \div MinInterval \in B
      OBVIOUS
    <3>1. m - t \in Nat /\ m - t <= Window
      BY <2>2
    <3> DEFINE a == m - t
    <3>2. a \in Nat /\ a <= Window
      BY <3>1
    <3> HIDE DEF a
    <3>3. a \div MinInterval \in Nat /\ a \div MinInterval <= Window \div MinInterval
      BY <3>2, QuotientsGrow
    <3> QED
      BY <1>1, <3>3 DEF a
  <2>4. \A s, t \in timestamps : s < t => f[s] # f[t]
    <3> SUFFICES ASSUME NEW s \in timestamps, NEW t \in timestamps, s < t PROVE f[s] # f[t]
      OBVIOUS
    <3> DEFINE a == m - t
               b == m - s
    <3>1. a \in Nat /\ b \in Nat /\ a + MinInterval <= b
      BY <2>2 DEF EntryInv
    <3> HIDE DEF a, b
    <3>2. a \div MinInterval # b \div MinInterval
      BY <3>1, QuotientsDiffer
    <3> QED
      BY <3>2 DEF a, b
  <2>5. f \in [timestamps -> B]
    BY <2>3
  <2>6. \A s, t \in timestamps : f[s] = f[t] => s = t
    BY <2>2, <2>4
  <2> HIDE DEF f, B
  <2>7. Cardinality(timestamps) <= Cardinality(B)
    BY <1>2, <2>5, <2>6, InjectionsCount
  <2> QED
    BY <1>2, <2>7 DEF EntryIsBounded
<1> QED
  BY <1>3, <1>4

-----------------------------------------------------------------------------
(* Steps *)

LEMMA AcceptedAreRecords ==
  ASSUME SpamTypeOK
  PROVE  /\ Len(accepted) \in Nat /\ DOMAIN accepted = 1..Len(accepted)
         /\ \A i \in 1..Len(accepted) : accepted[i].at \in Nat /\ accepted[i].text \in Texts
<1> DEFINE R == [at : Nat, text : Texts]
<1>1. accepted \in Seq(R)
  BY DEF SpamTypeOK
<1> HIDE DEF R
<1>2. \A i \in 1..Len(accepted) : accepted[i] \in R
  BY <1>1, ElementOfSeq
<1>3. Len(accepted) \in Nat /\ DOMAIN accepted = 1..Len(accepted)
  BY <1>1, LenProperties
<1> QED
  BY <1>2, <1>3 DEF R

\* What both outcomes of a recorded attempt do to the entry.
LEMMA RecordingKeepsEntry ==
  ASSUME SpamInv, ~TooFast, timestamps' = Recorded, UNCHANGED now
  PROVE  /\ EntryInv' /\ timestamps' \in SUBSET Nat
         /\ \A t \in timestamps : now - t >= MinInterval
<1> USE SpamAssumption
<1>0. now \in Nat /\ timestamps \in SUBSET Nat
  BY DEF SpamInv, SpamTypeOK
<1>1. \A t \in timestamps : now - t >= MinInterval
  <2>1. CASE timestamps = {}
    BY <2>1
  <2>2. CASE timestamps # {}
    <3>1. PICK m \in timestamps : \A t \in timestamps : t <= m
      BY <2>2 DEF SpamInv, EntryInv
    <3>2. now - m >= MinInterval
      BY <1>0, <3>1 DEF TooFast
    <3> QED
      BY <1>0, <3>1, <3>2
  <2> QED
    BY <2>1, <2>2
<1>2. IsFiniteSet(timestamps')
  <2>1. IsFiniteSet({t \in timestamps : now - t < Window})
    BY FS_Subset DEF SpamInv, EntryInv
  <2> QED
    BY <2>1, FS_AddElement DEF Recorded
<1>3. \A t \in timestamps' : t = now \/ (t \in timestamps /\ now - t < Window)
  BY DEF Recorded
<1>4. now \in timestamps' /\ \A t \in timestamps' : t \in Nat /\ t <= now /\ now - t < Window
  BY <1>0, <1>3 DEF Recorded, SpamInv, EntryInv
<1>5. \A s, t \in timestamps' : s < t => t - s >= MinInterval
  BY <1>0, <1>1, <1>3, <1>4 DEF SpamInv, EntryInv
<1>6. \A s, t \in timestamps' : t - s < Window
  BY <1>0, <1>4
<1> QED
  BY <1>1, <1>2, <1>4, <1>5, <1>6 DEF EntryInv

\* Nothing accepted is lost from the entry before its window is over.
LEMMA RecordingKeepsAccepted ==
  ASSUME SpamInv, timestamps' = Recorded, UNCHANGED now, NEW i \in DOMAIN accepted
  PROVE  /\ accepted[i].at \in Nat /\ accepted[i].at <= now
         /\ accepted[i].at \in timestamps' \/ now - accepted[i].at >= Window
<1>1. /\ accepted[i].at \in Nat /\ accepted[i].at <= now /\ now \in Nat
      /\ accepted[i].at \in timestamps \/ now - accepted[i].at >= Window
  BY AcceptedAreRecords DEF SpamInv, SpamTypeOK, AcceptedInv
<1> QED
  BY <1>1, SpamAssumption DEF Recorded

LEMMA OverrunKeeps ==
  ASSUME SpamInv, NEW text \in Texts, Overrun(text)
  PROVE  SpamInv'
<1>1. timestamps' = Recorded /\ ~TooFast /\ UNCHANGED <<now, lastContent, lastContentAt, accepted>>
  BY DEF Overrun
<1>2. EntryInv' /\ timestamps' \in SUBSET Nat
  BY <1>1, RecordingKeepsEntry
<1>3. AcceptedInv'
  BY <1>1, RecordingKeepsAccepted DEF SpamInv, AcceptedInv
<1> QED
  BY <1>1, <1>2, <1>3 DEF SpamInv, SpamTypeOK, Spacing, NoRepeat, RateLimit

LEMMA AcceptKeeps ==
  ASSUME SpamInv, NEW text \in Texts, Accept(text)
  PROVE  SpamInv'
<1> USE SpamAssumption
<1> DEFINE e == [at |-> now, text |-> text]
           n == Len(accepted)
<1>0. /\ now \in Nat /\ accepted \in Seq([at : Nat, text : Texts]) /\ timestamps \in SUBSET Nat
      /\ e \in [at : Nat, text : Texts] /\ e.at = now /\ e.text = text /\ n \in Nat
      /\ DOMAIN accepted = 1..n /\ \A i \in 1..n : accepted[i].at \in Nat
  BY AcceptedAreRecords DEF SpamInv, SpamTypeOK
<1>1. /\ timestamps' = Recorded /\ accepted' = Append(accepted, e) /\ UNCHANGED now
      /\ lastContent' = text /\ lastContentAt' = now /\ ~TooFast /\ ~Duplicate(text)
      /\ Cardinality(Recorded) <= MaxMessages
  BY DEF Accept
<1>2. EntryInv' /\ timestamps' \in SUBSET Nat /\ \A t \in timestamps : now - t >= MinInterval
  BY <1>1, RecordingKeepsEntry
<1> HIDE DEF e
<1>3. /\ accepted' \in Seq([at : Nat, text : Texts]) /\ Len(accepted') = n + 1
      /\ \A i \in 1..n : accepted'[i] = accepted[i]
      /\ accepted'[n + 1] = e /\ accepted' # <<>>
      /\ DOMAIN accepted = 1..n /\ DOMAIN accepted' = 1..(n + 1)
  BY <1>0, <1>1, AppendProperties
<1> HIDE DEF n
<1>4. \A i \in 1..n :
        /\ accepted[i].at \in Nat /\ accepted[i].at <= now
        /\ accepted[i].at \in timestamps' \/ now - accepted[i].at >= Window
  BY <1>1, <1>3, RecordingKeepsAccepted
<1>5. SpamTypeOK'
  BY <1>0, <1>1, <1>2, <1>3 DEF SpamInv, SpamTypeOK
<1>6. now \in timestamps'
  BY <1>1 DEF Recorded
<1>7. \A i \in 1..n : now - accepted[i].at >= MinInterval
  <2> SUFFICES ASSUME NEW i \in 1..n PROVE now - accepted[i].at >= MinInterval
    OBVIOUS
  <2>1. accepted[i].at \in timestamps \/ now - accepted[i].at >= Window
    BY <1>0 DEF SpamInv, AcceptedInv
  <2> QED
    BY <1>0, <1>2, <2>1
<1>8. AcceptedInv'
  BY <1>0, <1>1, <1>3, <1>4, <1>6 DEF AcceptedInv
<1>9. Spacing'
  <2> SUFFICES ASSUME NEW i \in 1..(n + 1), NEW j \in 1..(n + 1), i < j
               PROVE  accepted'[j].at - accepted'[i].at >= MinInterval
    BY <1>3 DEF Spacing
  <2>1. CASE j = n + 1
    <3>1. i \in 1..n
      BY <1>0, <2>1
    <3>2. accepted'[j].at = now /\ accepted'[i].at = accepted[i].at
      BY <1>0, <1>3, <2>1, <3>1
    <3> QED
      BY <1>7, <3>1, <3>2
  <2>2. CASE j # n + 1
    <3>1. i \in 1..n /\ j \in 1..n
      BY <1>0, <2>2
    <3> QED
      BY <1>0, <1>3, <3>1 DEF SpamInv, Spacing
  <2> QED
    BY <2>1, <2>2
<1>10. NoRepeat'
  <2> SUFFICES ASSUME NEW i \in 1..n, accepted'[i].text = accepted'[i + 1].text
               PROVE  accepted'[i + 1].at - accepted'[i].at >= DupWindow
    BY <1>0, <1>3 DEF NoRepeat
  <2>1. CASE i = n
    <3>1. lastContent = accepted[n].text /\ lastContentAt = accepted[n].at
      BY <1>0, <1>3, <2>1 DEF SpamInv, AcceptedInv, n
    <3>2. lastContent = text /\ accepted'[i + 1].at = now /\ accepted'[i].at = lastContentAt
      BY <1>0, <1>3, <2>1, <3>1
    <3>3. now - lastContentAt >= DupWindow
      BY <1>0, <1>1, <3>2 DEF Duplicate, SpamInv, SpamTypeOK
    <3> QED
      BY <3>2, <3>3
  <2>2. CASE i # n
    <3>1. i \in 1..(n - 1) /\ i + 1 \in 1..n
      BY <1>0, <2>2
    <3> QED
      BY <1>0, <1>3, <3>1 DEF SpamInv, NoRepeat, n
  <2> QED
    BY <2>1, <2>2
<1>11. RateLimit'
  <2> SUFFICES ASSUME NEW i \in 1..(n + 1)
               PROVE  Cardinality({j \in 1..i : accepted'[i].at - accepted'[j].at < Window})
                        <= MaxMessages
    BY <1>1, <1>3 DEF RateLimit
  <2>1. CASE i # n + 1
    <3>1. {j \in 1..i : accepted'[i].at - accepted'[j].at < Window}
            = {j \in 1..i : accepted[i].at - accepted[j].at < Window}
      BY <1>0, <1>3, <2>1
    <3>2. i \in DOMAIN accepted
      BY <1>0, <2>1
    <3> QED
      BY <3>1, <3>2 DEF SpamInv, RateLimit
  <2>2. CASE i = n + 1
    <3> DEFINE S == {j \in 1..i : accepted'[i].at - accepted'[j].at < Window}
               f == [j \in S |-> accepted'[j].at]
    <3>1. \A j \in S : accepted'[j].at \in timestamps'
      BY <1>0, <1>3, <1>4, <1>6, <2>2
    <3>2. \A j, k \in S : f[j] = f[k] => j = k
      <4>1. \A j, k \in S : j < k => accepted'[k].at - accepted'[j].at >= MinInterval
        BY <1>0, <1>3, <1>9, <2>2 DEF Spacing
      <4>2. \A j \in S : accepted'[j].at \in Nat /\ j \in Nat
        <5>1. \A j \in S : accepted'[j].at \in Nat
          <6> HIDE DEF S
          <6> QED
            BY <1>2, <3>1
        <5>2. \A j \in S : j \in Nat
          BY <1>0
        <5> QED
          BY <5>1, <5>2
      <4> QED
        BY <4>1, <4>2
    <3>3. f \in [S -> timestamps'] /\ IsFiniteSet(timestamps')
      BY <1>2, <3>1 DEF EntryInv
    <3> HIDE DEF f
    <3>4. Cardinality(S) \in Nat /\ Cardinality(S) <= Cardinality(timestamps')
      BY <3>2, <3>3, InjectionsCount
    <3>5. Cardinality(timestamps') \in Nat
      BY <3>3, FS_CardinalityType
    <3>6. Cardinality(timestamps') <= MaxMessages
      BY <1>1
    <3> QED
      BY <3>4, <3>5, <3>6
  <2> QED
    BY <2>1, <2>2
<1> QED
  BY <1>2, <1>5, <1>8, <1>9, <1>10, <1>11 DEF SpamInv

LEMMA ClearKeeps ==
  ASSUME SpamInv, NewEntry', now' = now
  PROVE  SpamInv'
<1>1. IsFiniteSet({}) /\ Cardinality({}) = 0
  BY FS_EmptySet
<1>2. /\ SpamTypeOK' /\ EntryInv' /\ AcceptedInv'
  BY <1>1 DEF NewEntry, SpamInv, SpamTypeOK, EntryInv, AcceptedInv
<1>3. Spacing' /\ NoRepeat' /\ RateLimit'
  BY DEF NewEntry, Spacing, NoRepeat, RateLimit
<1> QED
  BY <1>2, <1>3 DEF SpamInv

LEMMA TickKeeps ==
  ASSUME SpamInv, Tick
  PROVE  SpamInv'
<1>1. now \in Nat /\ now' = now + 1 /\ UNCHANGED <<timestamps, lastContent, lastContentAt, accepted>>
  BY DEF SpamInv, SpamTypeOK, Tick, spam
<1>2. SpamTypeOK' /\ EntryInv'
  BY <1>1 DEF SpamInv, SpamTypeOK, EntryInv
<1>3. AcceptedInv'
  <2>1. \A i \in DOMAIN accepted : accepted[i].at \in Nat
    BY AcceptedAreRecords DEF SpamInv
  <2> QED
    BY <1>1, <2>1, SpamAssumption DEF SpamInv, AcceptedInv
<1> QED
  BY <1>1, <1>2, <1>3 DEF SpamInv, Spacing, NoRepeat, RateLimit

LEMMA InitEstablishesSpam == SpamInit => SpamInv
<1>1. IsFiniteSet({})
  BY FS_EmptySet
<1> QED
  BY <1>1 DEF SpamInit, NewEntry, SpamInv, SpamTypeOK, EntryInv, AcceptedInv, Spacing, NoRepeat,
     RateLimit

LEMMA NextKeepsSpam == SpamInv /\ [SpamNext]_spamVars => SpamInv'
<1> SUFFICES ASSUME SpamInv, [SpamNext]_spamVars PROVE SpamInv'
  OBVIOUS
<1>1. CASE UNCHANGED spamVars
  BY <1>1 DEF spamVars, spam, SpamInv, SpamTypeOK, EntryInv, AcceptedInv, Spacing, NoRepeat,
     RateLimit
<1>2. CASE \E text \in Texts : Object(text) \/ Refuse(text)
  BY <1>1, <1>2 DEF Object, Refuse
<1>3. CASE Clear
  BY <1>3, ClearKeeps DEF Clear, NewEntry
<1> QED
  BY <1>1, <1>2, <1>3, TickKeeps, OverrunKeeps, AcceptKeeps DEF SpamNext

-----------------------------------------------------------------------------
(* Theorems *)

LEMMA SpamInvariant == SpamSpec => []SpamInv
BY InitEstablishesSpam, NextKeepsSpam, PTL DEF SpamSpec

\* The entry of a sender holds times and a text that was sent.
THEOREM SpamTypeCorrect == SpamSpec => []SpamTypeOK
<1>1. SpamInv => SpamTypeOK
  BY DEF SpamInv
<1> QED
  BY <1>1, SpamInvariant, PTL

\* No window of one minute, wherever it begins, holds more accepted messages than
\* MAX_MESSAGES_PER_MINUTE, for every sequence of attempts (checkSpam).
THEOREM RateLimitCorrect == SpamSpec => []RateLimit
<1>1. SpamInv => RateLimit
  BY DEF SpamInv
<1> QED
  BY <1>1, SpamInvariant, PTL

\* Two accepted messages are MIN_INTERVAL_MS apart, whatever was refused or dropped from
\* the entry in between (checkSpam).
THEOREM SpacingCorrect == SpamSpec => []Spacing
<1>1. SpamInv => Spacing
  BY DEF SpamInv
<1> QED
  BY <1>1, SpamInvariant, PTL

\* Equal texts accepted one after the other are DUPLICATE_WINDOW_MS apart (checkSpam).
THEOREM NoRepeatCorrect == SpamSpec => []NoRepeat
<1>1. SpamInv => NoRepeat
  BY DEF SpamInv
<1> QED
  BY <1>1, SpamInvariant, PTL

\* An entry holds at most one time per interval of a window, however many attempts a
\* sender makes: the memory of a sender is bounded (checkSpam).
THEOREM EntryIsBoundedCorrect == SpamSpec => []EntryIsBounded
<1>1. SpamInv => EntryIsBounded
  BY SpacedTimesAreFew DEF SpamInv
<1> QED
  BY <1>1, SpamInvariant, PTL
=============================================================================
