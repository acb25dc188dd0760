-------------------------- MODULE AccountsProofs --------------------------
(***************************************************************************)
(* Proofs about Accounts, for every number of addresses, spellings, calls, *)
(* faults and crashes.                                                     *)
(***************************************************************************)
EXTENDS Accounts, SequenceTheorems, TLAPS

-----------------------------------------------------------------------------
(* The inductive invariant *)

\* A call that has drawn a code and has not stored it yet.
Coding(f) == f.pc \in {"o.delete", "o.create"}

\* The local variables that are in scope at a label hold a value there.
FrameOK(f) ==
  /\ f.pc \notin {"ret", "f.find"} => f.email \in Spellings
  /\ f.pc = "f.find" => f.op = "refresh"
  /\ Coding(f) => f.code \in 1..drawn
  /\ f.pc \in {"v.find", "v.valid", "v.mark", "v.update"} => f.code \in Nat

TypeInv == AccountsTypeOK /\ \A c \in Calls : FrameOK(calls[c])

\* The unique index holds lowercased addresses, each of them once.
UsersDistinct ==
  \A i \in DOMAIN users : /\ users[i].email \in Addresses
                          /\ \A j \in DOMAIN users : users[i].email = users[j].email => i = j

\* A call that has met the account of its address, or made it.
Knows(f) ==
  \/ f.pc \in {"g.seen", "a.seen"}
  \/ Coding(f) /\ f.op = "login"
  \/ /\ f.pc = "ret" /\ f.op # "refresh"
     /\ f.reply \in {"registered", "conflict", "unverified", "tokens"}

\* That account is there still, and the one a registration made is as it was made.
Told(f) ==
  Knows(f) =>
    /\ f.email \in Spellings
    /\ \E i \in DOMAIN users :
         /\ users[i].email = Lowercase[f.email]
         /\ f.pc = "ret" /\ f.reply = "registered" => users[i].password /\ users[i].verified

ToldInv == \A c \in Calls : Told(calls[c])

\* A code that is drawn and not stored is known to the call that drew it only,
\* and a code that is being marked, or has been, no longer works afterwards.
CodesInv ==
  /\ \A c \in Calls : Coding(calls[c]) =>
       /\ calls[c].code \notin DOMAIN codes
       /\ \A d \in Calls : /\ d # c /\ Coding(calls[d]) => calls[d].code # calls[c].code
                           /\ calls[d].pc \in {"v.mark", "v.update"} => calls[d].code # calls[c].code
  /\ \A k \in DOMAIN codes : k <= drawn
  /\ \A c \in Calls : calls[c].pc = "v.mark" => calls[c].code <= drawn
  /\ \A c \in Calls : calls[c].pc = "v.update" =>
       \/ calls[c].code = Bypass
       \/ calls[c].code <= drawn /\ ~Valid(calls[c].email, calls[c].code)

\* While no command has failed, the code stored last for an address is there,
\* or the call that has deleted it is about to store the next.
LatestInv ==
  \A e \in Addresses :
    stored[e] # <<>> /\ faults = 0 /\ crashes = 0
      => LET k == stored[e][Len(stored[e])]
         IN \/ k \in DOMAIN codes /\ codes[k].email = e
            \/ \E c \in Calls : calls[c].pc = "o.create" /\ Lowercase[calls[c].email] = e

AccountsInv == TypeInv /\ UsersDistinct /\ ToldInv /\ CodesInv /\ LatestInv

-----------------------------------------------------------------------------
(* Frames *)

LEMMA IdleIsFrame == Idle \in Frame /\ Idle.pc = "ret"
BY DEF Idle, Frame, Labels, Replies

LEMMA GotoMoves ==
  ASSUME calls \in [Calls -> Frame], NEW c \in Calls, NEW pc \in Labels, Goto(c, pc)
  PROVE  /\ calls' \in [Calls -> Frame] /\ \A d \in Calls : d # c => calls'[d] = calls[d]
         /\ calls'[c].pc = pc /\ calls'[c].email = calls[c].email /\ calls'[c].code = calls[c].code
         /\ calls'[c].op = calls[c].op
<1> DEFINE g == [calls[c] EXCEPT !.pc = pc]
<1>1. calls' = [calls EXCEPT ![c] = g]
  BY DEF Goto
<1>2. /\ g \in Frame /\ g.pc = pc /\ g.email = calls[c].email /\ g.code = calls[c].code
      /\ g.op = calls[c].op
  BY DEF Frame
<1> HIDE DEF g
<1> QED
  BY <1>1, <1>2

LEMMA AnswerMoves ==
  ASSUME calls \in [Calls -> Frame], NEW c \in Calls, NEW r \in Replies, Answer(c, r)
  PROVE  /\ calls' \in [Calls -> Frame] /\ \A d \in Calls : d # c => calls'[d] = calls[d]
         /\ calls'[c].pc = "ret" /\ calls'[c].reply = r
         /\ calls'[c].op = calls[c].op /\ calls'[c].email = calls[c].email
<1> DEFINE g == [Idle EXCEPT !.op = calls[c].op, !.email = calls[c].email, !.reply = r]
<1>1. calls' = [calls EXCEPT ![c] = g]
  BY DEF Answer
<1>2. g \in Frame /\ g.pc = "ret" /\ g.reply = r /\ g.op = calls[c].op /\ g.email = calls[c].email
  BY DEF Idle, Frame, Labels
<1> HIDE DEF g
<1> QED
  BY <1>1, <1>2

LEMMA StartMoves ==
  ASSUME calls \in [Calls -> Frame], NEW c \in Calls, NEW op, NEW pc, NEW e, NEW k,
         Start(c, op, pc, e, k), pc \in Labels, e \in Spellings, k \in Nat \/ k = None
  PROVE  /\ calls' \in [Calls -> Frame] /\ \A d \in Calls : d # c => calls'[d] = calls[d]
         /\ calls'[c].pc = pc /\ calls'[c].email = e /\ calls'[c].code = k /\ calls'[c].op = op
<1> DEFINE g == [Idle EXCEPT !.pc = pc, !.op = op, !.email = e, !.code = k]
<1>1. calls' = [calls EXCEPT ![c] = g] /\ op \in AllOps
  BY AccountsAssumption DEF Start
<1>2. g \in Frame /\ g.pc = pc /\ g.email = e /\ g.code = k /\ g.op = op
  BY <1>1 DEF Idle, Frame, Replies
<1> HIDE DEF g
<1> QED
  BY <1>1, <1>2

\* What a step of the call c does to its frame, and to the number of codes drawn.
Moved(c) ==
  LET f == calls[c]
      g == calls'[c]
  IN
  /\ calls' \in [Calls -> Frame] /\ \A d \in Calls : d # c => calls'[d] = calls[d]
  /\ g.pc \notin {"ret", "f.find"} => g.email \in Spellings
  /\ g.pc = "f.find" => g.op = "refresh"
  /\ \/ ~Coding(g) /\ drawn' = drawn
     \/ /\ f.pc = "o.delete" /\ g.pc = "o.create" /\ g.email = f.email /\ g.code = f.code
        /\ drawn' = drawn
     \/ /\ g.pc = "o.delete" /\ ~Coding(f)
        /\ g.code = drawn + 1 /\ drawn' = drawn + 1 /\ drawn < MaxCodes
  /\ g.pc \in {"v.find", "v.valid"} => g.code \in Nat
  /\ g.pc = "v.mark" => f.pc = "v.valid" /\ g.email = f.email /\ g.code = f.code
                        /\ g.code \in Nat /\ Valid(f.email, f.code)
  /\ g.pc = "v.update" => /\ g.email = f.email /\ g.code = f.code /\ g.code \in Nat
                          /\ \/ g.code = Bypass
                             \/ f.pc = "v.mark" /\ ~Valid(calls[c].email, calls[c].code)'

LEMMA RequestMoves ==
  ASSUME TypeInv, NEW c \in Calls, Request(c)
  PROVE  Moved(c) /\ UNCHANGED <<users, codes, stored, faults, crashes>>
<1>0. /\ calls \in [Calls -> Frame] /\ drawn \in Nat /\ MaxCodes \in Nat
  BY AccountsAssumption DEF TypeInv, AccountsTypeOK
<1>2. calls[c].pc = "ret"
  BY DEF Request, Register, Resend, VerifyEmail, Login, OauthLogin, GoogleIdToken, RefreshToken,
         Start, At
<1>3. CASE Register(c) \/ Login(c) \/ OauthLogin(c) \/ GoogleIdToken(c)
  <2>1. PICK op \in AllOps, pc \in {"r.find", "g.find", "a.find", "i.verify"}, s \in Spellings :
           Start(c, op, pc, s, None)
    BY <1>3 DEF Register, Login, OauthLogin, GoogleIdToken, AllOps
  <2>2. UNCHANGED <<Stored, Kept>>
    BY <1>3 DEF Register, Login, OauthLogin, GoogleIdToken
  <2>3. pc \in Labels
    BY DEF Labels
  <2>4. /\ calls' \in [Calls -> Frame] /\ \A d \in Calls : d # c => calls'[d] = calls[d]
        /\ calls'[c].pc = pc /\ calls'[c].email = s
    BY <1>0, <2>1, <2>3, StartMoves
  <2> QED
    BY <1>0, <2>1, <2>2, <2>4 DEF Moved, Stored, Kept, Coding
<1>4. CASE Resend(c)
  <2>1. PICK s \in Spellings, k \in Nat :
           k = drawn + 1 /\ Start(c, "resend", "o.delete", s, k)
    BY <1>0, <1>4 DEF Resend
  <2>2. /\ drawn < MaxCodes /\ drawn' = drawn + 1 /\ "o.delete" \in Labels
        /\ UNCHANGED <<Stored, faults, crashes>>
    BY <1>0, <1>4 DEF Resend, Labels
  <2>3. /\ calls' \in [Calls -> Frame] /\ \A d \in Calls : d # c => calls'[d] = calls[d]
        /\ calls'[c].pc = "o.delete" /\ calls'[c].email = s
        /\ calls'[c].code = k
    BY <1>0, <2>1, <2>2, StartMoves
  <2> QED
    BY <1>0, <1>2, <2>1, <2>2, <2>3 DEF Moved, Stored, Coding
<1>5. CASE VerifyEmail(c)
  <2>1. PICK s \in Spellings, k \in 1..drawn \cup {Bypass} :
           Start(c, "verify", "v.find", s, k)
    BY <1>5 DEF VerifyEmail
  <2>2. k \in Nat /\ "v.find" \in Labels /\ UNCHANGED <<Stored, Kept>>
    BY <1>0, <1>5 DEF VerifyEmail, Labels, Bypass
  <2>3. /\ calls' \in [Calls -> Frame] /\ \A d \in Calls : d # c => calls'[d] = calls[d]
        /\ calls'[c].pc = "v.find" /\ calls'[c].email = s
        /\ calls'[c].code = k
    BY <1>0, <2>1, <2>2, StartMoves
  <2> QED
    BY <1>0, <2>2, <2>3 DEF Moved, Stored, Kept, Coding
<1>6. CASE RefreshToken(c)
  <2>1. PICK i \in DOMAIN users :
           calls' = [calls EXCEPT ![c] =
                       [Idle EXCEPT !.pc = "f.find", !.op = "refresh", !.user = i]]
    BY <1>6 DEF RefreshToken
  <2> DEFINE g == [Idle EXCEPT !.pc = "f.find", !.op = "refresh", !.user = i]
  <2>2. i \in Nat
    BY DEF TypeInv, AccountsTypeOK
  <2>3. g \in Frame /\ g.pc = "f.find" /\ g.op = "refresh"
    BY <2>2 DEF Idle, Frame, Labels, Replies, AllOps
  <2>4. UNCHANGED <<Stored, Kept>> /\ calls' = [calls EXCEPT ![c] = g]
    BY <1>6, <2>1 DEF RefreshToken
  <2> HIDE DEF g
  <2> QED
    BY <1>0, <2>3, <2>4 DEF Moved, Stored, Kept, Coding
<1> QED
  BY <1>3, <1>4, <1>5, <1>6 DEF Request

\* An answered call holds nothing.
LEMMA AnswerHolds ==
  ASSUME TypeInv, NEW c \in Calls, NEW r \in Replies, Answer(c, r), drawn' = drawn
  PROVE  Moved(c)
BY AnswerMoves DEF Moved, Coding, TypeInv, AccountsTypeOK

\* A label that holds no code.
LEMMA GotoHolds ==
  ASSUME TypeInv, NEW c \in Calls, ~At(c, "ret"), drawn' = drawn,
         ~At(c, "f.find"), NEW pc \in {"r.create", "g.seen", "a.seen", "a.find", "a.create", "v.again"}, Goto(c, pc)
  PROVE  Moved(c)
<1>1. pc \in Labels /\ calls[c].email \in Spellings /\ calls \in [Calls -> Frame]
  BY DEF TypeInv, AccountsTypeOK, FrameOK, At, Labels
<1> QED
  BY <1>1, GotoMoves DEF Moved, Coding

LEMMA HandlerMoves ==
  ASSUME TypeInv, NEW c \in Calls, Handler(c)
  PROVE  Moved(c) /\ UNCHANGED <<faults, crashes>>
<1>0. /\ calls \in [Calls -> Frame] /\ drawn \in Nat /\ MaxCodes \in Nat
      /\ calls[c] \in Frame /\ FrameOK(calls[c])
  BY AccountsAssumption DEF TypeInv, AccountsTypeOK
<1>1. UNCHANGED <<faults, crashes>>
  BY DEF Handler, RegisterFind, RegisterCreate, OtpDelete, OtpCreate, VerifyFind, VerifyValid,
         VerifyMark, VerifyUpdate, VerifyAgain, LoginFind, Seen, OauthFind, OauthCreate,
         VerifyIdToken, RefreshFind, Kept
<1>2. ASSUME \/ RegisterFind(c) \/ RegisterCreate(c) \/ OtpCreate(c) \/ VerifyAgain(c)
             \/ Seen(c) \/ OauthFind(c) \/ OauthCreate(c) \/ VerifyIdToken(c)
             \/ RefreshFind(c) \/ VerifyUpdate(c)
      PROVE  Moved(c)
  <2>1. drawn' = drawn /\ ~At(c, "ret")
    BY <1>2 DEF RegisterFind, RegisterCreate, OtpCreate, VerifyAgain, Seen, OauthFind, OauthCreate,
         VerifyIdToken, RefreshFind, VerifyUpdate, At, Kept
  <2>2. \/ \E r \in Replies : Answer(c, r)
        \/ \E pc \in {"r.create", "g.seen", "a.seen", "a.find", "a.create", "v.again"} :
             Goto(c, pc) /\ ~At(c, "f.find")
    BY <1>2 DEF RegisterFind, RegisterCreate, OtpCreate, VerifyAgain, Seen, OauthFind, OauthCreate,
         VerifyIdToken, RefreshFind, VerifyUpdate, At, Replies
  <2> QED
    BY <2>1, <2>2, AnswerHolds, GotoHolds
<1>3. ASSUME OtpDelete(c)
      PROVE  Moved(c)
  <2>1. calls[c].pc = "o.delete" /\ Goto(c, "o.create") /\ drawn' = drawn /\ "o.create" \in Labels
    BY <1>3 DEF OtpDelete, At, Kept, Labels
  <2> QED
    BY <1>0, <2>1, GotoMoves DEF Moved, Coding, FrameOK
<1>4. ASSUME VerifyFind(c)
      PROVE  Moved(c)
  <2> DEFINE i == FindByEmail(calls[c].email)
             u == IF users[i].verified THEN None ELSE i
             g == [calls[c] EXCEPT !.user = u,
                    !.pc = IF calls[c].code = Bypass THEN AfterCode(u) ELSE "v.valid"]
  <2>1. calls[c].pc = "v.find" /\ drawn' = drawn
    BY <1>4 DEF VerifyFind, At, Kept
  <2>2. CASE Answer(c, "refused")
    BY <2>1, <2>2, AnswerHolds DEF Replies
  <2>3. CASE HasAccount(calls[c].email) /\ ~Answer(c, "refused")
    <3>1. calls' = [calls EXCEPT ![c] = g]
      BY <1>4, <2>3 DEF VerifyFind
    <3>2. i \in Nat
      BY <2>3 DEF HasAccount, FindByEmail, TypeInv, AccountsTypeOK
    <3>3. u \in Nat \cup {None}
      BY <3>2
    <3>4. /\ AfterCode(u) \in {"v.again", "v.update"}
          /\ AfterCode(u) \in Labels /\ "v.valid" \in Labels
      BY DEF AfterCode, Labels
    <3> HIDE DEF i, u
    <3>5. /\ g \in Frame /\ g.email = calls[c].email /\ g.code = calls[c].code
          /\ g.pc \in {"v.again", "v.update", "v.valid"}
          /\ g.pc = "v.update" => g.code = Bypass
      BY <1>0, <3>3, <3>4 DEF Frame, Labels
    <3> HIDE DEF g
    <3>6. g.email \in Spellings /\ g.code \in Nat
      BY <1>0, <2>1, <3>5 DEF FrameOK
    <3> QED
      BY <1>0, <2>1, <3>1, <3>5, <3>6 DEF Moved, Coding
  <2> QED
    BY <1>4, <2>2, <2>3 DEF VerifyFind
<1>5. ASSUME VerifyValid(c)
      PROVE  Moved(c)
  <2>1. calls[c].pc = "v.valid" /\ drawn' = drawn /\ "v.mark" \in Labels /\ "refused" \in Replies
    BY <1>5 DEF VerifyValid, At, Kept, Labels, Replies
  <2>2. CASE Answer(c, "refused")
    BY <2>1, <2>2, AnswerHolds
  <2>3. CASE Valid(calls[c].email, calls[c].code) /\ Goto(c, "v.mark")
    BY <1>0, <2>1, <2>3, GotoMoves DEF Moved, Coding, FrameOK
  <2> QED
    BY <1>5, <2>2, <2>3 DEF VerifyValid
<1>6. ASSUME VerifyMark(c)
      PROVE  Moved(c)
  <2>1. calls[c].pc = "v.mark" /\ drawn' = drawn /\ AfterCode(calls[c].user) \in {"v.again", "v.update"}
    BY <1>6 DEF VerifyMark, At, Kept, AfterCode
  <2>2. PICK pc \in {"v.again", "v.update"} : Goto(c, pc) /\ pc \in Labels
    BY <1>6, <2>1 DEF VerifyMark, Labels
  <2>3. /\ calls' \in [Calls -> Frame] /\ \A d \in Calls : d # c => calls'[d] = calls[d]
        /\ calls'[c].pc = pc /\ calls'[c].email = calls[c].email /\ calls'[c].code = calls[c].code
    BY <1>0, <2>2, GotoMoves
  <2>4. ~Valid(calls[c].email, calls[c].code)'
    <3> DEFINE k == calls[c].code
    <3>1. CASE k \in DOMAIN codes
      <4> DEFINE o == [codes[k] EXCEPT !.used = TRUE]
      <4>1. codes' = [j \in DOMAIN codes |-> IF j = k THEN o ELSE codes[j]]
        BY <1>6 DEF VerifyMark
      <4>2. codes[k] \in Code
        BY <3>1 DEF TypeInv, AccountsTypeOK
      <4>3. o.used
        BY <4>2 DEF Code
      <4> HIDE DEF o
      <4> QED
        BY <2>3, <3>1, <4>1, <4>3 DEF Valid
    <3>2. CASE k \notin DOMAIN codes
      <4>1. DOMAIN codes' = DOMAIN codes
        BY <1>6 DEF VerifyMark
      <4> QED
        BY <2>3, <3>2, <4>1 DEF Valid
    <3> QED
      BY <3>1, <3>2
  <2> QED
    BY <1>0, <2>1, <2>2, <2>3, <2>4 DEF Moved, Coding, FrameOK
<1>7. ASSUME LoginFind(c)
      PROVE  Moved(c)
  <2>1. calls[c].pc = "g.find"
    BY <1>7 DEF LoginFind, At
  <2>2. CASE drawn' = drawn /\ (Answer(c, "refused") \/ Goto(c, "g.seen"))
    BY <2>1, <2>2, AnswerHolds, GotoHolds DEF At, Replies
  <2>3. CASE /\ drawn' = drawn + 1 /\ drawn < MaxCodes
             /\ HasAccount(calls[c].email)
             /\ calls' = [calls EXCEPT ![c].email = users[FindByEmail(calls[c].email)].email,
                                       ![c].code = drawn + 1, ![c].pc = "o.delete"]
    <3> DEFINE a == users[FindByEmail(calls[c].email)].email
               g == [calls[c] EXCEPT !.email = a, !.code = drawn + 1, !.pc = "o.delete"]
    <3>1. calls' = [calls EXCEPT ![c] = g]
      BY <2>3
    <3>4. a \in Spellings
      <4>1. FindByEmail(calls[c].email) \in DOMAIN users
        BY <2>3 DEF HasAccount, FindByEmail
      <4>2. users[FindByEmail(calls[c].email)] \in Account
        BY <4>1 DEF TypeInv, AccountsTypeOK
      <4> QED
        BY <4>2 DEF Account
    <3> HIDE DEF a
    <3>2. drawn + 1 \in Nat \cup {None} /\ "o.delete" \in Labels
      BY <1>0 DEF Labels
    <3>3. g \in Frame /\ g.email = a /\ g.code = drawn + 1 /\ g.pc = "o.delete"
      BY <1>0, <3>2, <3>4 DEF Frame
    <3> HIDE DEF g
    <3> QED
      BY <1>0, <2>1, <2>3, <3>1, <3>3, <3>4 DEF Moved, Coding, FrameOK
  <2> QED
    BY <1>7, <2>2, <2>3 DEF LoginFind
<1> QED
  BY <1>1, <1>2, <1>3, <1>4, <1>5, <1>6, <1>7 DEF Handler

LEMMA RejectsMoves ==
  ASSUME TypeInv, NEW c \in Calls, Rejects(c)
  PROVE  /\ Moved(c) /\ UNCHANGED <<users, codes, stored, crashes>>
         /\ faults' = faults + 1 /\ faults < MaxFaults
<1>1. PICK r \in Replies : Answer(c, r)
  BY DEF Rejects, Replies
<1>2. UNCHANGED <<users, codes, stored, drawn, crashes>> /\ faults' = faults + 1 /\ faults < MaxFaults
  BY DEF Rejects, Stored
<1> QED
  BY <1>1, <1>2, AnswerHolds

-----------------------------------------------------------------------------
(* The users collection *)

\* No account goes, loses its address or its password, or is unverified again.
UsersKept ==
  \A i \in DOMAIN users :
    /\ i \in DOMAIN users' /\ users'[i].email = users[i].email
    /\ users'[i].password = users[i].password
    /\ users[i].verified => users'[i].verified

\* The accounts change in place.
SameAccounts == users' \in Seq(Account) /\ DOMAIN users' = DOMAIN users /\ UsersKept

LEMMA CreateUserAppends ==
  ASSUME users \in Seq(Account), NEW s \in Spellings, NEW v \in BOOLEAN, NEW p \in BOOLEAN,
         CreateUser(s, v, p)
  PROVE  LET n == Len(users) + 1
         IN /\ users' \in Seq(Account) /\ DOMAIN users' = DOMAIN users \cup {n}
            /\ \A i \in DOMAIN users : users'[i] = users[i]
            /\ users'[n].email = Lowercase[s] /\ users'[n].verified = v /\ users'[n].password = p
            /\ \A i \in DOMAIN users : users[i].email # Lowercase[s]
<1> DEFINE a == [email |-> Lowercase[s], verified |-> v, banned |-> FALSE, password |-> p]
<1>1. Lowercase[s] \in Spellings
  BY AccountsAssumption
<1>2. /\ a \in Account /\ a.email = Lowercase[s] /\ a.verified = v /\ a.password = p
  BY <1>1 DEF Account
<1>3. users' = Append(users, a) /\ \A i \in DOMAIN users : users[i].email # a.email
  BY DEF CreateUser, InsertUser
<1> HIDE DEF a
<1>4. Len(users) \in Nat /\ DOMAIN users = 1..Len(users)
  OBVIOUS
<1>5. /\ users' \in Seq(Account) /\ Len(users') = Len(users) + 1
      /\ \A i \in 1..Len(users) : users'[i] = users[i]
      /\ users'[Len(users) + 1] = a
  BY <1>2, <1>3
<1>6. DOMAIN users' = DOMAIN users \cup {Len(users) + 1}
  BY <1>4, <1>5
<1> QED
  BY <1>2, <1>3, <1>4, <1>5, <1>6

LEMMA UsersMove ==
  ASSUME TypeInv, [AccountsNext]_accountVars
  PROVE  \/ UNCHANGED users
         \/ \E s \in Spellings, v, p \in BOOLEAN : CreateUser(s, v, p)
         \/ \E c \in Calls : VerifyUpdate(c) /\ SameAccounts
         \/ \E i \in DOMAIN users : Ban(i) /\ SameAccounts
<1> USE DEF TypeInv, AccountsTypeOK
<1>0. \A i \in DOMAIN users : users[i] \in Account
  OBVIOUS
<1>1. ASSUME NEW c \in Calls, VerifyUpdate(c)
      PROVE  SameAccounts
  <2> DEFINE u(i) == IF i = FindByEmail(calls[c].email)
                     THEN [users[i] EXCEPT !.verified = TRUE] ELSE users[i]
  <2>1. users' = [i \in DOMAIN users |-> u(i)]
    BY <1>1 DEF VerifyUpdate
  <2>2. \A i \in DOMAIN users : /\ u(i) \in Account /\ u(i).email = users[i].email
                                /\ u(i).password = users[i].password
                                /\ users[i].verified => u(i).verified
    BY <1>0 DEF Account
  <2> HIDE DEF u
  <2>3. Len(users) \in Nat /\ DOMAIN users = 1..Len(users)
    OBVIOUS
  <2> QED
    BY <2>1, <2>2, <2>3 DEF SameAccounts, UsersKept
<1>2. ASSUME NEW i \in DOMAIN users, Ban(i)
      PROVE  SameAccounts
  <2> DEFINE u == [users[i] EXCEPT !.banned = TRUE]
  <2>1. users' = [users EXCEPT ![i] = u]
    BY <1>2 DEF Ban
  <2>2. /\ u \in Account /\ u.email = users[i].email /\ u.password = users[i].password
        /\ u.verified = users[i].verified
    BY <1>0 DEF Account
  <2> HIDE DEF u
  <2> QED
    BY <2>1, <2>2 DEF SameAccounts, UsersKept
<1>3. ASSUME NEW c \in Calls, Handler(c)
      PROVE  \/ UNCHANGED users \/ VerifyUpdate(c)
             \/ \E s \in Spellings, v, p \in BOOLEAN : CreateUser(s, v, p)
  <2>1. ASSUME RegisterCreate(c) \/ OauthCreate(c)
        PROVE  \/ UNCHANGED users
               \/ \E s \in Spellings, v, p \in BOOLEAN : CreateUser(s, v, p)
    <3>1. calls[c].email \in Spellings
      BY <2>1 DEF RegisterCreate, OauthCreate, FrameOK, At
    <3> QED
      BY <2>1, <3>1 DEF RegisterCreate, OauthCreate
  <2> QED
    BY <1>3, <2>1 DEF Handler, RegisterFind, OtpDelete, OtpCreate, VerifyFind, VerifyValid,
       VerifyMark, VerifyAgain, LoginFind, Seen, OauthFind, VerifyIdToken, RefreshFind, Stored
<1>4. ASSUME NEW c \in Calls, Request(c) \/ Rejects(c)
      PROVE  UNCHANGED users
  BY <1>4, RequestMoves, RejectsMoves
<1> QED
  BY <1>1, <1>2, <1>3, <1>4 DEF AccountsNext, accountVars, OtpExpires, Crash, Stored

-----------------------------------------------------------------------------
(* The otps collection *)

LEMMA CodesMove ==
  ASSUME TypeInv, [AccountsNext]_accountVars
  PROVE  \/ UNCHANGED <<codes, stored>>
         \/ \E c \in Calls : OtpDelete(c) \/ OtpCreate(c) \/ VerifyMark(c)
         \/ \E k \in DOMAIN codes : OtpExpires(k)
<1>1. ASSUME NEW c \in Calls, Handler(c)
      PROVE  \/ UNCHANGED <<codes, stored>> \/ OtpDelete(c) \/ OtpCreate(c) \/ VerifyMark(c)
  BY <1>1 DEF Handler, RegisterFind, RegisterCreate, VerifyFind, VerifyValid, VerifyUpdate,
     VerifyAgain, LoginFind, Seen, OauthFind, OauthCreate, VerifyIdToken, RefreshFind, Stored
<1>2. ASSUME NEW c \in Calls, Request(c) \/ Rejects(c)
      PROVE  UNCHANGED <<codes, stored>>
  BY <1>2, RequestMoves, RejectsMoves
<1> QED
  BY <1>1, <1>2 DEF AccountsNext, accountVars, Ban, Crash, Stored

\* No document appears but the one of OtpCreate, and none regains what it lost.
LEMMA CodesAge ==
  ASSUME TypeInv, [AccountsNext]_accountVars, \A c \in Calls : ~OtpCreate(c)
  PROVE  /\ stored' = stored /\ DOMAIN codes' \subseteq DOMAIN codes
         /\ codes' \in [DOMAIN codes' -> Code]
         /\ \A k \in DOMAIN codes' : /\ codes'[k].email = codes[k].email
                                     /\ codes[k].used => codes'[k].used
                                     /\ codes[k].expired => codes'[k].expired
<1> USE DEF TypeInv, AccountsTypeOK
<1>1. CASE UNCHANGED <<codes, stored>>
  BY <1>1
<1>2. ASSUME NEW c \in Calls, OtpDelete(c)
      PROVE  /\ stored' = stored /\ DOMAIN codes' \subseteq DOMAIN codes
             /\ \A k \in DOMAIN codes' : codes'[k] = codes[k]
             /\ codes' = [k \in DOMAIN codes' |-> codes'[k]]
  BY <1>2 DEF OtpDelete, Without
<1>3. ASSUME NEW c \in Calls, VerifyMark(c)
      PROVE  /\ stored' = stored /\ DOMAIN codes' = DOMAIN codes
             /\ codes' \in [DOMAIN codes' -> Code]
             /\ \A k \in DOMAIN codes : /\ codes'[k].email = codes[k].email
                                        /\ codes[k].used => codes'[k].used
                                        /\ codes[k].expired => codes'[k].expired
  <2> DEFINE u(k) == IF k = calls[c].code THEN [codes[k] EXCEPT !.used = TRUE] ELSE codes[k]
  <2>1. codes' = [k \in DOMAIN codes |-> u(k)] /\ stored' = stored
    BY <1>3 DEF VerifyMark
  <2>2. \A k \in DOMAIN codes : codes[k] \in Code
    OBVIOUS
  <2>3. \A k \in DOMAIN codes : /\ u(k) \in Code /\ u(k).email = codes[k].email
                                /\ codes[k].used => u(k).used
                                /\ codes[k].expired => u(k).expired
    BY <2>2 DEF Code
  <2> HIDE DEF u
  <2> QED
    BY <2>1, <2>3
<1>4. ASSUME NEW k \in DOMAIN codes, OtpExpires(k)
      PROVE  /\ stored' = stored /\ DOMAIN codes' = DOMAIN codes
             /\ codes' \in [DOMAIN codes' -> Code]
             /\ \A j \in DOMAIN codes : /\ codes'[j].email = codes[j].email
                                        /\ codes[j].used => codes'[j].used
                                        /\ codes[j].expired => codes'[j].expired
  <2> DEFINE u == [codes[k] EXCEPT !.expired = TRUE]
  <2>1. codes' = [codes EXCEPT ![k] = u] /\ stored' = stored
    BY <1>4 DEF OtpExpires
  <2>2. codes[k] \in Code
    OBVIOUS
  <2>3. u \in Code /\ u.email = codes[k].email /\ u.used = codes[k].used /\ u.expired
    BY <2>2 DEF Code
  <2> HIDE DEF u
  <2> QED
    BY <2>1, <2>3
<1> QED
  BY <1>1, <1>2, <1>3, <1>4, CodesMove

LEMMA OtpCreateInserts ==
  ASSUME TypeInv, NEW c \in Calls, OtpCreate(c)
  PROVE  LET e == Lowercase[calls[c].email]
             k == calls[c].code
         IN /\ calls[c].pc = "o.create" /\ calls'[c].pc = "ret" /\ drawn' = drawn
            /\ e \in Addresses /\ k \in 1..drawn /\ k \in 1..MaxCodes
            /\ DOMAIN codes' = DOMAIN codes \cup {k} /\ codes' \in [DOMAIN codes' -> Code]
            /\ codes'[k].email = e
            /\ \A j \in DOMAIN codes : j # k => codes'[j] = codes[j]
            /\ stored' = [stored EXCEPT ![e] = Append(@, k)]
<1> DEFINE e == Lowercase[calls[c].email]
           k == calls[c].code
           o == [email |-> e, used |-> FALSE, expired |-> FALSE]
<1>1. calls[c].pc = "o.create" /\ drawn' = drawn /\ stored' = [stored EXCEPT ![e] = Append(@, k)]
  BY DEF OtpCreate, At, Kept
<1>2. e \in Addresses /\ k \in 1..drawn /\ k \in 1..MaxCodes
  BY <1>1, AccountsAssumption DEF TypeInv, AccountsTypeOK, FrameOK, Coding
<1>3. codes' = [j \in DOMAIN codes \cup {k} |-> IF j = k THEN o ELSE codes[j]]
  BY DEF OtpCreate, Inserted
<1>4. o \in Code /\ o.email = e
  BY <1>2 DEF Code
<1>5. calls'[c].pc = "ret"
  <2>1. PICK r \in Replies : Answer(c, r)
    BY DEF OtpCreate, Replies
  <2> QED
    BY <2>1, AnswerMoves DEF TypeInv, AccountsTypeOK
<1> HIDE DEF o
<1> QED
  BY <1>1, <1>2, <1>3, <1>4, <1>5 DEF TypeInv, AccountsTypeOK

-----------------------------------------------------------------------------
(* The parts of the invariant, step by step *)

LEMMA StepMoves ==
  ASSUME TypeInv, [AccountsNext]_accountVars
  PROVE  \/ \E c \in Calls : Moved(c)
         \/ UNCHANGED <<calls, drawn>>
         \/ Crash
BY RequestMoves, HandlerMoves, RejectsMoves
   DEF AccountsNext, accountVars, Ban, OtpExpires, Kept

LEMMA FramesStep ==
  ASSUME TypeInv, [AccountsNext]_accountVars
  PROVE  calls' \in [Calls -> Frame] /\ drawn' \in 0..MaxCodes /\ \A c \in Calls : FrameOK(calls[c])'
<1>0. MaxCodes \in Nat /\ drawn \in 0..MaxCodes /\ calls \in [Calls -> Frame]
  BY AccountsAssumption DEF TypeInv, AccountsTypeOK
<1>1. ASSUME NEW c \in Calls, Moved(c)
      PROVE  calls' \in [Calls -> Frame] /\ drawn' \in 0..MaxCodes /\ \A d \in Calls : FrameOK(calls[d])'
  <2>1. calls' \in [Calls -> Frame] /\ drawn' \in 0..MaxCodes /\ drawn' >= drawn
    BY <1>0, <1>1 DEF Moved
  <2>2. ASSUME NEW d \in Calls, d # c
        PROVE  FrameOK(calls[d])'
    BY <1>0, <1>1, <2>1, <2>2 DEF Moved, TypeInv, FrameOK, Coding
  <2>3. FrameOK(calls[c])'
    <3>1. calls[c].pc = "o.delete" => calls[c].code \in 1..drawn
      BY DEF TypeInv, FrameOK, Coding
    <3> QED
      BY <1>0, <1>1, <2>1, <3>1 DEF Moved, FrameOK, Coding
  <2> QED
    BY <2>1, <2>2, <2>3
<1>2. CASE UNCHANGED <<calls, drawn>>
  BY <1>0, <1>2 DEF TypeInv, FrameOK
<1>3. CASE Crash
  <2>1. calls' = [c \in Calls |-> Idle] /\ drawn' = drawn
    BY <1>3 DEF Crash
  <2> QED
    BY <1>0, <2>1, IdleIsFrame DEF FrameOK, Coding
<1> QED
  BY <1>1, <1>2, <1>3, StepMoves

LEMMA CodesTyped ==
  ASSUME TypeInv, [AccountsNext]_accountVars
  PROVE  /\ DOMAIN codes' \subseteq 1..MaxCodes /\ codes' \in [DOMAIN codes' -> Code]
         /\ stored' \in [Addresses -> Seq(1..MaxCodes)]
<1>1. CASE \A c \in Calls : ~OtpCreate(c)
  BY <1>1, CodesAge DEF TypeInv, AccountsTypeOK
<1>2. ASSUME NEW c \in Calls, OtpCreate(c)
      PROVE  /\ DOMAIN codes' \subseteq 1..MaxCodes /\ codes' \in [DOMAIN codes' -> Code]
             /\ stored' \in [Addresses -> Seq(1..MaxCodes)]
  <2> DEFINE e == Lowercase[calls[c].email]
             k == calls[c].code
  <2>1. /\ e \in Addresses /\ k \in 1..MaxCodes
        /\ DOMAIN codes' = DOMAIN codes \cup {k} /\ codes' \in [DOMAIN codes' -> Code]
        /\ stored' = [stored EXCEPT ![e] = Append(@, k)]
    BY <1>2, OtpCreateInserts
  <2>2. stored[e] \in Seq(1..MaxCodes)
    BY <2>1 DEF TypeInv, AccountsTypeOK
  <2>3. Append(stored[e], k) \in Seq(1..MaxCodes)
    BY <2>1, <2>2
  <2> HIDE DEF e, k
  <2> QED
    BY <2>1, <2>3 DEF TypeInv, AccountsTypeOK
<1> QED
  BY <1>1, <1>2

LEMMA TypeStep ==
  ASSUME TypeInv, [AccountsNext]_accountVars
  PROVE  TypeInv'
<1>1. users' \in Seq(Account)
  <2>1. ASSUME NEW s \in Spellings, NEW v \in BOOLEAN, NEW p \in BOOLEAN, CreateUser(s, v, p)
        PROVE  users' \in Seq(Account)
    BY <2>1, CreateUserAppends DEF TypeInv, AccountsTypeOK
  <2> QED
    BY <2>1, UsersMove DEF SameAccounts, TypeInv, AccountsTypeOK
<1>2. faults' \in 0..MaxFaults /\ crashes' \in 0..MaxCrashes
  <2>1. MaxFaults \in Nat /\ MaxCrashes \in Nat /\ faults \in 0..MaxFaults /\ crashes \in 0..MaxCrashes
    BY AccountsAssumption DEF TypeInv, AccountsTypeOK
  <2>2. \/ UNCHANGED <<faults, crashes>>
        \/ faults' = faults + 1 /\ faults < MaxFaults /\ crashes' = crashes
        \/ crashes' = crashes + 1 /\ crashes < MaxCrashes /\ faults' = faults
    BY RequestMoves, HandlerMoves, RejectsMoves
       DEF AccountsNext, accountVars, Ban, OtpExpires, Crash, Kept
  <2> QED
    BY <2>1, <2>2
<1> QED
  BY <1>1, <1>2, FramesStep, CodesTyped DEF TypeInv, AccountsTypeOK

LEMMA UsersDistinctStep ==
  ASSUME TypeInv, UsersDistinct, [AccountsNext]_accountVars
  PROVE  UsersDistinct' /\ UsersKept
<1>1. CASE UNCHANGED users
  BY <1>1 DEF UsersDistinct, UsersKept
<1>2. CASE SameAccounts
  BY <1>2 DEF UsersDistinct, SameAccounts, UsersKept
<1>3. ASSUME NEW s \in Spellings, NEW v \in BOOLEAN, NEW p \in BOOLEAN, CreateUser(s, v, p)
      PROVE  UsersDistinct' /\ UsersKept
  <2> DEFINE n == Len(users) + 1
  <2>1. /\ DOMAIN users' = DOMAIN users \cup {n} /\ n \notin DOMAIN users
        /\ \A i \in DOMAIN users : users'[i] = users[i]
        /\ users'[n].email = Lowercase[s]
        /\ \A i \in DOMAIN users : users[i].email # Lowercase[s]
    BY <1>3, CreateUserAppends DEF TypeInv, AccountsTypeOK
  <2>2. Lowercase[s] \in Addresses
    BY AccountsAssumption
  <2> HIDE DEF n
  <2> QED
    BY <2>1, <2>2 DEF UsersDistinct, UsersKept
<1> QED
  BY <1>1, <1>2, <1>3, UsersMove

\* A frame that keeps its place keeps what it was told.
LEMMA ToldStays ==
  ASSUME NEW c \in Calls, calls'[c] = calls[c], Told(calls[c]), UsersKept
  PROVE  Told(calls[c])'
BY DEF Told, Knows, Coding, UsersKept

\* An answer that tells of an account is given by a call that has met it.
LEMMA AnswerTold ==
  ASSUME calls \in [Calls -> Frame], NEW c \in Calls, NEW r \in Replies, Answer(c, r), UsersKept,
         \/ r \notin {"registered", "conflict", "unverified", "tokens"}
         \/ calls[c].op = "refresh"
         \/ r # "registered" /\ calls[c].email \in Spellings /\ HasAccount(calls[c].email)
  PROVE  Told(calls[c])'
<1>1. calls'[c].pc = "ret" /\ calls'[c].reply = r
      /\ calls'[c].op = calls[c].op /\ calls'[c].email = calls[c].email
  BY AnswerMoves
<1> QED
  BY <1>1 DEF Told, Knows, Coding, HasAccount, UsersKept

LEMMA HandlerTold ==
  ASSUME TypeInv, UsersDistinct, ToldInv, UsersKept, NEW c \in Calls, Handler(c)
  PROVE  Told(calls[c])'
<1> DEFINE f == calls[c]
<1>0. calls \in [Calls -> Frame] /\ f \in Frame /\ FrameOK(f) /\ Told(f)
  BY DEF TypeInv, AccountsTypeOK, ToldInv
\* A label at which the call knows of no account.
<1>1. ASSUME NEW pc \in Labels \ {"ret", "g.seen", "a.seen", "o.delete", "o.create"}, Goto(c, pc)
      PROVE  Told(calls[c])'
  <2>1. calls'[c].pc = pc
    BY <1>0, <1>1, GotoMoves
  <2> QED
    BY <2>1 DEF Told, Knows, Coding
\* A label behind a findByEmail that found the account.
<1>2. ASSUME NEW pc \in {"g.seen", "a.seen"}, Goto(c, pc), HasAccount(f.email),
             f.email \in Spellings
      PROVE  Told(calls[c])'
  <2>1. pc \in Labels
    BY DEF Labels
  <2>2. calls'[c].pc = pc /\ calls'[c].email = f.email
    BY <1>0, <1>2, <2>1, GotoMoves
  <2> QED
    BY <1>2, <2>2 DEF Told, Knows, Coding, HasAccount, UsersKept
<1>3. ASSUME RegisterFind(c) \/ VerifyAgain(c) \/ VerifyValid(c) \/ VerifyMark(c)
             \/ VerifyUpdate(c) \/ VerifyIdToken(c)
      PROVE  Told(calls[c])'
  <2>1. f.email \in Spellings
    BY <1>0, <1>3 DEF RegisterFind, VerifyAgain, VerifyValid, VerifyMark, VerifyUpdate,
                      VerifyIdToken, At, FrameOK
  <2>2. \/ \E pc \in {"r.create", "v.mark", "v.again", "v.update", "a.find"} : Goto(c, pc)
        \/ Answer(c, "refused")
        \/ \E r \in {"conflict", "tokens"} : Answer(c, r) /\ HasAccount(f.email)
    BY <1>3 DEF RegisterFind, VerifyAgain, VerifyValid, VerifyMark, VerifyUpdate,
                VerifyIdToken, AfterCode
  <2> QED
    BY <1>0, <1>1, <2>1, <2>2, AnswerTold DEF Labels, Replies
<1>4. ASSUME RegisterCreate(c)
      PROVE  Told(calls[c])'
  <2>1. f.email \in Spellings
    BY <1>0, <1>4 DEF RegisterCreate, At, FrameOK
  <2>2. CASE CreateUser(f.email, TRUE, TRUE) /\ Answer(c, "registered")
    <3>1. calls'[c].email = f.email /\ calls'[c].pc = "ret"
      BY <1>0, <2>2, AnswerMoves DEF Replies
    <3>2. \E i \in DOMAIN users' :
            users'[i].email = Lowercase[f.email] /\ users'[i].password /\ users'[i].verified
      BY <2>1, <2>2, CreateUserAppends DEF TypeInv, AccountsTypeOK
    <3> QED
      BY <2>1, <3>1, <3>2 DEF Told
  <2>3. CASE Answer(c, "error")
    BY <1>0, <2>3, AnswerTold DEF Replies
  <2> QED
    BY <1>4, <2>2, <2>3 DEF RegisterCreate
<1>5. ASSUME OtpDelete(c)
      PROVE  Told(calls[c])'
  <2>1. f.pc = "o.delete" /\ Goto(c, "o.create") /\ "o.create" \in Labels
    BY <1>5 DEF OtpDelete, At, Labels
  <2>2. calls'[c].pc = "o.create" /\ calls'[c].email = f.email /\ calls'[c].op = f.op
    BY <1>0, <2>1, GotoMoves
  <2> QED
    BY <1>0, <2>1, <2>2 DEF Told, Knows, Coding, UsersKept
<1>6. ASSUME OtpCreate(c)
      PROVE  Told(calls[c])'
  <2>1. f.pc = "o.create"
    BY <1>6 DEF OtpCreate, At
  <2>2. CASE f.op = "login" /\ Answer(c, "unverified")
    <3>1. f.email \in Spellings /\ HasAccount(f.email)
      BY <1>0, <2>1, <2>2 DEF Told, Knows, Coding, HasAccount
    <3> QED
      BY <1>0, <2>2, <3>1, AnswerTold DEF Replies
  <2>3. CASE Answer(c, "resent")
    BY <1>0, <2>3, AnswerTold DEF Replies
  <2> QED
    BY <1>6, <2>2, <2>3 DEF OtpCreate
<1>7. ASSUME VerifyFind(c)
      PROVE  Told(calls[c])'
  <2>1. CASE Answer(c, "refused")
    BY <1>0, <2>1, AnswerTold DEF Replies
  <2>2. CASE ~Answer(c, "refused")
    <3>1. PICK pc \in {"v.again", "v.update", "v.valid"} : \E u :
            calls' = [calls EXCEPT ![c].user = u, ![c].pc = pc]
      BY <1>7, <2>2 DEF VerifyFind, AfterCode
    <3>2. calls'[c].pc = pc
      BY <1>0, <3>1 DEF Frame
    <3> QED
      BY <3>2 DEF Told, Knows, Coding
  <2> QED
    BY <2>1, <2>2
<1>8. ASSUME LoginFind(c)
      PROVE  Told(calls[c])'
  <2> DEFINE i == FindByEmail(f.email)
             a == users[i].email
  <2>0. f.email \in Spellings
    BY <1>0, <1>8 DEF LoginFind, At, FrameOK
  <2>1. CASE Answer(c, "refused")
    BY <1>0, <2>1, AnswerTold DEF Replies
  <2>2. CASE HasAccount(f.email) /\ Goto(c, "g.seen")
    BY <1>2, <2>0, <2>2
  <2>3. CASE /\ HasAccount(f.email)
             /\ calls' = [calls EXCEPT ![c].email = a, ![c].code = drawn + 1,
                                       ![c].pc = "o.delete"]
    <3>1. i \in DOMAIN users /\ a = Lowercase[f.email]
      BY <2>3 DEF HasAccount, FindByEmail
    <3>2. a \in Addresses /\ a \in Spellings /\ Lowercase[a] = a
      BY <3>1, AccountsAssumption DEF UsersDistinct
    <3>3. i \in DOMAIN users' /\ users'[i].email = a
      BY <3>1 DEF UsersKept
    <3> HIDE DEF i, a
    <3>4. calls'[c].pc = "o.delete" /\ calls'[c].email = a
      BY <1>0, <2>3 DEF Frame
    <3> QED
      BY <3>2, <3>3, <3>4 DEF Told
  <2> QED
    BY <1>8, <2>1, <2>2, <2>3 DEF LoginFind
<1>9. ASSUME Seen(c)
      PROVE  Told(calls[c])'
  <2>1. f.email \in Spellings /\ HasAccount(f.email) /\ Answer(c, "tokens")
    BY <1>0, <1>9 DEF Seen, At, Told, Knows, HasAccount
  <2> QED
    BY <1>0, <2>1, AnswerTold DEF Replies
<1>10. ASSUME OauthFind(c)
       PROVE  Told(calls[c])'
  <2>1. f.email \in Spellings
    BY <1>0, <1>10 DEF OauthFind, At, FrameOK
  <2>2. \/ Goto(c, "a.create") \/ Answer(c, "refused")
        \/ HasAccount(f.email) /\ Goto(c, "a.seen")
    BY <1>10 DEF OauthFind
  <2> QED
    BY <1>0, <1>1, <1>2, <2>1, <2>2, AnswerTold DEF Labels, Replies
<1>11. ASSUME OauthCreate(c)
       PROVE  Told(calls[c])'
  <2>1. f.email \in Spellings
    BY <1>0, <1>11 DEF OauthCreate, At, FrameOK
  <2>2. CASE CreateUser(f.email, TRUE, FALSE) /\ Goto(c, "a.seen")
    <3>1. calls'[c].email = f.email /\ calls'[c].pc = "a.seen"
      BY <1>0, <2>2, GotoMoves DEF Labels
    <3>2. \E i \in DOMAIN users' : users'[i].email = Lowercase[f.email]
      BY <2>1, <2>2, CreateUserAppends DEF TypeInv, AccountsTypeOK
    <3> QED
      BY <2>1, <3>1, <3>2 DEF Told
  <2>3. CASE Answer(c, "error")
    BY <1>0, <2>3, AnswerTold DEF Replies
  <2> QED
    BY <1>11, <2>2, <2>3 DEF OauthCreate
<1>12. ASSUME RefreshFind(c)
       PROVE  Told(calls[c])'
  <2>1. f.op = "refresh" /\ \E r \in {"refused", "tokens"} : Answer(c, r)
    BY <1>0, <1>12 DEF RefreshFind, At, FrameOK
  <2> QED
    BY <1>0, <2>1, AnswerTold DEF Replies
<1> QED
  BY <1>3, <1>4, <1>5, <1>6, <1>7, <1>8, <1>9, <1>10, <1>11, <1>12 DEF Handler

LEMMA RequestTold ==
  ASSUME TypeInv, NEW c \in Calls, Request(c)
  PROVE  Told(calls[c])'
<1>0. calls \in [Calls -> Frame]
  BY DEF TypeInv, AccountsTypeOK
<1>1. CASE RefreshToken(c)
  <2>1. calls'[c].pc = "f.find"
    BY <1>0, <1>1 DEF RefreshToken, Idle
  <2> QED
    BY <2>1 DEF Told, Knows, Coding
<1>2. CASE ~RefreshToken(c)
  <2>1. PICK op, pc, e, k : /\ Start(c, op, pc, e, k)
                            /\ \/ pc \in {"r.find", "v.find", "g.find", "a.find", "i.verify"}
                               \/ pc = "o.delete" /\ op = "resend"
    BY <1>2 DEF Request, Register, Resend, VerifyEmail, Login, OauthLogin, GoogleIdToken
  <2>2. calls'[c].pc = pc /\ calls'[c].op = op
    BY <1>0, <2>1 DEF Start, Idle
  <2> QED
    BY <2>1, <2>2 DEF Told, Knows, Coding
<1> QED
  BY <1>1, <1>2

LEMMA RejectsTold ==
  ASSUME TypeInv, ToldInv, UsersKept, NEW c \in Calls, Rejects(c)
  PROVE  Told(calls[c])'
<1>0. calls \in [Calls -> Frame] /\ Told(calls[c])
  BY DEF TypeInv, AccountsTypeOK, ToldInv
<1>1. CASE calls[c].op = "login" /\ Coding(calls[c])
  <2>1. Answer(c, "unverified")
    BY <1>1 DEF Rejects, Coding
  <2>2. calls[c].email \in Spellings /\ HasAccount(calls[c].email)
    BY <1>0, <1>1 DEF Told, Knows, HasAccount
  <2> QED
    BY <1>0, <2>1, <2>2, AnswerTold DEF Replies
<1>2. CASE ~(calls[c].op = "login" /\ Coding(calls[c]))
  <2>1. \E r \in {"refused", "error"} : Answer(c, r)
    BY <1>2 DEF Rejects, Coding
  <2> QED
    BY <1>0, <2>1, AnswerTold DEF Replies
<1> QED
  BY <1>1, <1>2

LEMMA ToldStep ==
  ASSUME TypeInv, UsersDistinct, ToldInv, [AccountsNext]_accountVars
  PROVE  ToldInv'
<1> SUFFICES ASSUME NEW d \in Calls
             PROVE  Told(calls[d])'
  BY DEF ToldInv
<1>0. UsersKept /\ Told(calls[d])
  BY UsersDistinctStep DEF ToldInv
<1>1. ASSUME NEW c \in Calls, Request(c) \/ Handler(c) \/ Rejects(c)
      PROVE  Told(calls[d])'
  <2>1. CASE d = c
    BY <1>0, <1>1, <2>1, RequestTold, HandlerTold, RejectsTold
  <2>2. CASE d # c
    <3>1. Moved(c)
      BY <1>1, RequestMoves, HandlerMoves, RejectsMoves
    <3>2. calls'[d] = calls[d]
      BY <2>2, <3>1 DEF Moved
    <3> QED
      BY <1>0, <3>2, ToldStays
  <2> QED
    BY <2>1, <2>2
<1>2. CASE Crash
  <2>1. calls'[d] = Idle
    BY <1>2 DEF Crash
  <2> QED
    BY <2>1 DEF Told, Knows, Coding, Idle
<1>3. CASE UNCHANGED calls
  BY <1>0, <1>3, ToldStays
<1> QED
  BY <1>1, <1>2, <1>3 DEF AccountsNext, accountVars, Ban, OtpExpires
\* What has happened to every call: most of them have not moved.
LEMMA CallsAge ==
  ASSUME TypeInv, [AccountsNext]_accountVars, NEW d \in Calls
  PROVE  LET f == calls[d]
             g == calls'[d]
         IN
         /\ Coding(g) => \/ Coding(f) /\ g.code = f.code
                         \/ /\ g.code = drawn + 1 /\ drawn' = drawn + 1
                            /\ \A b \in Calls : b # d => calls'[b] = calls[b]
         /\ g.pc = "v.mark" => /\ g.code = f.code /\ g.email = f.email
                               /\ f.pc = "v.mark" \/ Valid(f.email, f.code)
         /\ g.pc = "v.update" => /\ g.code = f.code /\ g.email = f.email
                                 /\ \/ g.code = Bypass \/ f.pc = "v.update"
                                    \/ f.pc = "v.mark" /\ ~Valid(calls[d].email, calls[d].code)'
<1>1. ASSUME NEW c \in Calls, Moved(c), d = c
      PROVE  LET f == calls[d]
                 g == calls'[d]
             IN
             /\ Coding(g) => \/ Coding(f) /\ g.code = f.code
                             \/ /\ g.code = drawn + 1 /\ drawn' = drawn + 1
                                /\ \A b \in Calls : b # d => calls'[b] = calls[b]
             /\ g.pc = "v.mark" => g.code = f.code /\ g.email = f.email /\ Valid(f.email, f.code)
             /\ g.pc = "v.update" => /\ g.code = f.code /\ g.email = f.email
                                     /\ \/ g.code = Bypass
                                        \/ f.pc = "v.mark" /\ ~Valid(calls[d].email, calls[d].code)'
  BY <1>1 DEF Moved, Coding
<1>2. ASSUME NEW c \in Calls, Moved(c), d # c
      PROVE  calls'[d] = calls[d]
  BY <1>2 DEF Moved
<1>3. CASE Crash
  <2>1. calls'[d] = Idle
    BY <1>3 DEF Crash
  <2> QED
    BY <2>1, IdleIsFrame DEF Coding
<1> QED
  BY <1>1, <1>2, <1>3, StepMoves

LEMMA CodesStep ==
  ASSUME TypeInv, CodesInv, [AccountsNext]_accountVars
  PROVE  CodesInv'
<1>0. /\ drawn \in Nat /\ DOMAIN codes \subseteq Nat /\ drawn' \in Nat /\ drawn' >= drawn
      /\ \A c \in Calls : Coding(calls[c]) => calls[c].code \in 1..drawn
  <2>1. drawn' = drawn \/ drawn' = drawn + 1
    BY StepMoves DEF Moved, Crash
  <2> QED
    BY <2>1, FramesStep, AccountsAssumption DEF TypeInv, AccountsTypeOK, FrameOK
\* The documents that are there and work: those from before, or the one just stored.
<1>1. /\ \A k \in DOMAIN codes' :
           k \in DOMAIN codes \/ \E c \in Calls : OtpCreate(c) /\ k = calls[c].code
      /\ \A k : \A e \in Spellings :
           Valid(e, k)' => Valid(e, k) \/ \E c \in Calls : OtpCreate(c) /\ k = calls[c].code
  <2>1. CASE \A c \in Calls : ~OtpCreate(c)
    BY <2>1, CodesAge DEF Valid
  <2>2. ASSUME NEW c \in Calls, OtpCreate(c)
        PROVE  /\ \A k \in DOMAIN codes' : k \in DOMAIN codes \/ k = calls[c].code
               /\ \A k \in DOMAIN codes' : k # calls[c].code => codes'[k] = codes[k]
    <3>1. /\ DOMAIN codes' = DOMAIN codes \cup {calls[c].code}
          /\ \A j \in DOMAIN codes : j # calls[c].code => codes'[j] = codes[j]
      BY <2>2, OtpCreateInserts, Zenon
    <3> QED
      BY <3>1
  <2> QED
    BY <2>1, <2>2 DEF Valid
\* A call that is storing its code leaves; no other call holds that code.
<1>2. ASSUME NEW b \in Calls, OtpCreate(b)
      PROVE  /\ ~Coding(calls'[b]) /\ calls'[b].pc \notin {"v.mark", "v.update"}
             /\ Coding(calls[b]) /\ calls[b].code <= drawn
             /\ \A d \in Calls : d # b /\ Coding(calls[d]) => calls[d].code # calls[b].code
             /\ \A d \in Calls : calls[d].pc \in {"v.mark", "v.update"} => calls[d].code # calls[b].code
  <2>1. calls[b].pc = "o.create" /\ calls'[b].pc = "ret"
    BY <1>2, OtpCreateInserts
  <2> QED
    BY <1>0, <2>1 DEF CodesInv, Coding
<1>3. ASSUME NEW c \in Calls, Coding(calls'[c])
      PROVE  calls'[c].code \notin DOMAIN codes'
  <2>1. CASE Coding(calls[c]) /\ calls'[c].code = calls[c].code
    BY <1>1, <1>2, <1>3, <2>1 DEF CodesInv
  <2>2. CASE calls'[c].code = drawn + 1
    <3>1. \A k \in DOMAIN codes' : k \in Nat /\ k <= drawn
      BY <1>0, <1>1, <1>2 DEF CodesInv
    <3> QED
      BY <1>0, <2>2, <3>1
  <2> QED
    BY <1>3, <2>1, <2>2, CallsAge
<1>4. ASSUME NEW d \in Calls, calls'[d].pc \in {"v.mark", "v.update"}
      PROVE  /\ calls'[d].code = calls[d].code
             /\ calls'[d].code = Bypass \/ calls'[d].code <= drawn
             /\ \A c \in Calls : Coding(calls[c]) => calls[c].code # calls'[d].code
  <2>1. /\ calls'[d].code = calls[d].code
        /\ \/ calls'[d].code = Bypass \/ calls[d].pc \in {"v.mark", "v.update"}
           \/ calls[d].code \in DOMAIN codes
    BY <1>4, CallsAge DEF Valid
  <2> QED
    BY <1>0, <2>1 DEF CodesInv, Bypass
<1>5. ASSUME NEW c \in Calls, Coding(calls'[c]), NEW d \in Calls, d # c
      PROVE  /\ Coding(calls'[d]) => calls'[d].code # calls'[c].code
             /\ calls'[d].pc \in {"v.mark", "v.update"} => calls'[d].code # calls'[c].code
  <2>1. CASE Coding(calls[c]) /\ calls'[c].code = calls[c].code
    <3>1. calls'[d].pc \in {"v.mark", "v.update"} => calls'[d].code # calls'[c].code
      BY <1>4, <2>1
    <3>2. ASSUME Coding(calls'[d])
          PROVE  calls'[d].code # calls'[c].code
      <4>1. CASE Coding(calls[d]) /\ calls'[d].code = calls[d].code
        BY <1>5, <2>1, <4>1 DEF CodesInv
      <4>2. CASE calls'[d].code = drawn + 1
        BY <1>0, <2>1, <4>2
      <4> QED
        BY <3>2, <4>1, <4>2, CallsAge
    <3> QED
      BY <3>1, <3>2
  <2>2. CASE calls'[c].code = drawn + 1 /\ \A b \in Calls : b # c => calls'[b] = calls[b]
    <3>1. calls'[d] = calls[d]
      BY <1>5, <2>2
    <3>2. Coding(calls[d]) => calls[d].code \in 1..drawn
      BY <1>0
    <3>3. calls[d].pc \in {"v.mark", "v.update"} => calls[d].code = Bypass \/ calls[d].code <= drawn
      BY <1>4, <3>1
    <3>4. calls[d].pc \in {"v.mark", "v.update"} => calls[d].code \in Nat
      BY DEF TypeInv, FrameOK
    <3> QED
      BY <1>0, <2>2, <3>1, <3>2, <3>3, <3>4 DEF Bypass
  <2> QED
    BY <1>5, <2>1, <2>2, CallsAge
<1>6. ASSUME NEW d \in Calls, calls'[d].pc = "v.mark"
      PROVE  calls'[d].code <= drawn'
  <2>1. calls'[d].code \in Nat
    BY <1>6, FramesStep DEF FrameOK
  <2> QED
    BY <1>0, <1>4, <1>6, <2>1 DEF Bypass
<1>7. ASSUME NEW d \in Calls, calls'[d].pc = "v.update", calls'[d].code # Bypass
      PROVE  calls'[d].code <= drawn' /\ ~Valid(calls[d].email, calls[d].code)'
  <2>1. /\ calls'[d].code \in Nat
        /\ calls[d].pc = "v.update" => calls[d].email \in Spellings
    BY <1>7, FramesStep DEF FrameOK, TypeInv
  <2>2. /\ calls'[d].code = calls[d].code /\ calls'[d].email = calls[d].email
        /\ \/ calls[d].pc = "v.update" \/ ~Valid(calls[d].email, calls[d].code)'
    BY <1>7, CallsAge
  <2>3. ASSUME calls[d].pc = "v.update"
        PROVE  ~Valid(calls[d].email, calls[d].code)'
    <3> DEFINE e == calls[d].email
               k == calls[d].code
    <3>1. ~Valid(e, k)
      BY <1>7, <2>2, <2>3 DEF CodesInv
    <3>2. \A b \in Calls : OtpCreate(b) => k # calls[b].code
      BY <1>2, <2>3
    <3>3. ASSUME NEW x, NEW y, x = e, y = k
          PROVE  ~Valid(x, y)'
      BY <1>1, <2>1, <2>3, <3>1, <3>2, <3>3
    <3> QED
      BY <2>2, <3>3 DEF Valid
  <2> QED
    BY <1>0, <1>4, <1>7, <2>1, <2>2, <2>3
<1>8. \A k \in DOMAIN codes' : k <= drawn'
  <2>1. \A k \in DOMAIN codes' : k \in Nat /\ k <= drawn
    BY <1>0, <1>1, <1>2 DEF CodesInv
  <2> QED
    BY <1>0, <2>1
<1> QED
  BY <1>3, <1>5, <1>6, <1>7, <1>8 DEF CodesInv, Coding

\* Only OtpCreate, a failure or a crash takes a call away from its create.
LEMMA CreateWaits ==
  ASSUME TypeInv, [AccountsNext]_accountVars, NEW c \in Calls, calls[c].pc = "o.create",
         ~OtpCreate(c), faults' = faults, crashes' = crashes
  PROVE  calls'[c] = calls[c]
<1>0. faults \in Nat /\ crashes \in Nat
  BY DEF TypeInv, AccountsTypeOK
<1>1. ~Crash /\ \A d \in Calls : ~Rejects(d)
  BY <1>0 DEF Crash, Rejects
<1>2. ~Request(c)
  BY DEF Request, Register, Resend, VerifyEmail, Login, OauthLogin, GoogleIdToken, RefreshToken,
         Start, At
<1>3. ~Handler(c)
  BY DEF Handler, RegisterFind, RegisterCreate, OtpDelete, VerifyFind, VerifyValid, VerifyMark,
         VerifyUpdate, VerifyAgain, LoginFind, Seen, OauthFind, OauthCreate, VerifyIdToken,
         RefreshFind, At
<1>4. ASSUME NEW d \in Calls, Moved(d), d # c
      PROVE  calls'[c] = calls[c]
  BY <1>4 DEF Moved
<1> QED
  BY <1>1, <1>2, <1>3, <1>4, RequestMoves, HandlerMoves DEF AccountsNext, accountVars, Ban, OtpExpires

LEMMA LatestStep ==
  ASSUME TypeInv, CodesInv, LatestInv, [AccountsNext]_accountVars
  PROVE  LatestInv'
<1> SUFFICES ASSUME NEW e \in Addresses, stored'[e] # <<>>, faults' = 0, crashes' = 0
             PROVE  \/ /\ stored'[e][Len(stored'[e])] \in DOMAIN codes'
                       /\ codes'[stored'[e][Len(stored'[e])]].email = e
                    \/ \E c \in Calls : calls'[c].pc = "o.create" /\ Lowercase[calls'[c].email] = e
  BY DEF LatestInv
<1> DEFINE last == stored[e][Len(stored[e])]
<1>1. faults = 0 /\ crashes = 0
  <2>1. faults \in Nat /\ crashes \in Nat
    BY DEF TypeInv, AccountsTypeOK
  <2>2. /\ faults' = faults \/ faults' = faults + 1
        /\ crashes' = crashes \/ crashes' = crashes + 1
    BY RequestMoves, HandlerMoves, RejectsMoves
       DEF AccountsNext, accountVars, Ban, OtpExpires, Crash, Kept
  <2> QED
    BY <2>1, <2>2
<1>2. stored \in [Addresses -> Seq(1..MaxCodes)]
  BY DEF TypeInv, AccountsTypeOK
<1>3. ASSUME stored'[e] = stored[e]
      PROVE  \/ last \in DOMAIN codes /\ codes[last].email = e
             \/ \E c \in Calls : calls[c].pc = "o.create" /\ Lowercase[calls[c].email] = e
  BY <1>1, <1>3 DEF LatestInv
<1>4. ASSUME NEW c \in Calls, OtpCreate(c)
      PROVE  \/ /\ stored'[e][Len(stored'[e])] \in DOMAIN codes'
                /\ codes'[stored'[e][Len(stored'[e])]].email = e
             \/ \E d \in Calls : calls'[d].pc = "o.create" /\ Lowercase[calls'[d].email] = e
  <2> DEFINE k == calls[c].code
  <2>1. /\ calls[c].pc = "o.create" /\ k \in DOMAIN codes' /\ codes'[k].email = Lowercase[calls[c].email]
        /\ k \in 1..MaxCodes /\ DOMAIN codes \subseteq DOMAIN codes'
        /\ stored' = [stored EXCEPT ![Lowercase[calls[c].email]] = Append(@, k)]
        /\ \A j \in DOMAIN codes : j # k => codes'[j] = codes[j]
    BY <1>4, OtpCreateInserts
  <2>2. k \notin DOMAIN codes
    BY <2>1 DEF CodesInv, Coding
  <2> HIDE DEF k
  <2>3. CASE Lowercase[calls[c].email] = e
    <3>1. stored'[e] = Append(stored[e], k) /\ stored[e] \in Seq(1..MaxCodes)
      BY <1>2, <2>1, <2>3
    <3>2. stored'[e][Len(stored'[e])] = k
      BY <2>1, <3>1
    <3> QED
      BY <2>1, <2>3, <3>2
  <2>4. CASE Lowercase[calls[c].email] # e
    <3>1. stored'[e] = stored[e]
      BY <1>2, <2>1, <2>4
    <3>2. \A d \in Calls : calls[d].pc = "o.create" /\ Lowercase[calls[d].email] = e => calls'[d] = calls[d]
      BY <1>4, <2>4, HandlerMoves DEF Moved, Handler
    <3> QED
      BY <1>3, <2>1, <2>2, <3>1, <3>2
  <2> QED
    BY <2>3, <2>4
<1>5. ASSUME \A c \in Calls : ~OtpCreate(c)
      PROVE  \/ /\ stored'[e][Len(stored'[e])] \in DOMAIN codes'
                /\ codes'[stored'[e][Len(stored'[e])]].email = e
             \/ \E d \in Calls : calls'[d].pc = "o.create" /\ Lowercase[calls'[d].email] = e
  <2>1. stored' = stored
    BY <1>5, CodesAge
  <2>2. CASE last \in DOMAIN codes /\ codes[last].email = e /\ last \in DOMAIN codes'
    BY <1>5, <2>1, <2>2, CodesAge
  <2>3. ASSUME last \in DOMAIN codes, codes[last].email = e, last \notin DOMAIN codes'
        PROVE  \E d \in Calls : calls'[d].pc = "o.create" /\ Lowercase[calls'[d].email] = e
    <3>1. PICK c \in Calls : OtpDelete(c)
      BY <1>5, <2>3, CodesMove DEF VerifyMark, OtpExpires
    <3>2. Lowercase[calls[c].email] = e
      BY <2>3, <3>1 DEF OtpDelete, Without
    <3>3. calls'[c].pc = "o.create" /\ calls'[c].email = calls[c].email
      BY <3>1, GotoMoves DEF OtpDelete, Labels, TypeInv, AccountsTypeOK
    <3> QED
      BY <3>2, <3>3
  <2>4. ASSUME NEW d \in Calls, calls[d].pc = "o.create", Lowercase[calls[d].email] = e
        PROVE  calls'[d] = calls[d]
    BY <1>1, <1>5, <2>4, CreateWaits
  <2> QED
    BY <1>3, <2>1, <2>2, <2>3, <2>4
<1> QED
  BY <1>4, <1>5

-----------------------------------------------------------------------------
(* Theorems *)

LEMMA InitHolds == AccountsInit => AccountsInv
<1> SUFFICES ASSUME AccountsInit
             PROVE  AccountsInv
  OBVIOUS
<1>1. AccountsTypeOK
  <2>1. codes = [k \in {} |-> k] /\ DOMAIN codes = {} /\ codes \in [{} -> Code]
    BY DEF AccountsInit
  <2>2. calls \in [Calls -> Frame]
    BY IdleIsFrame DEF AccountsInit
  <2> QED
    BY <2>1, <2>2, AccountsAssumption, InitUsersAssumption DEF AccountsInit, AccountsTypeOK
<1>2. \A c \in Calls : calls[c].pc = "ret"
  BY IdleIsFrame DEF AccountsInit
<1>3. UsersDistinct
  BY InitUsersAssumption DEF AccountsInit, UsersDistinct
<1>5. ToldInv
  BY DEF AccountsInit, ToldInv, Told, Knows, Coding, Idle
<1>4. DOMAIN codes = {} /\ \A e \in Addresses : stored[e] = <<>>
  BY DEF AccountsInit
<1> QED
  BY <1>1, <1>2, <1>3, <1>4, <1>5 DEF AccountsInv, TypeInv, FrameOK, CodesInv, LatestInv, Coding

LEMMA InvariantStep == AccountsInv /\ [AccountsNext]_accountVars => AccountsInv'
BY TypeStep, UsersDistinctStep, ToldStep, CodesStep, LatestStep DEF AccountsInv

LEMMA AccountsInvariant == AccountsSpec => []AccountsInv
BY InitHolds, InvariantStep, PTL DEF AccountsSpec

\* The collections and the frames hold what the code can put there, for every
\* number of clients and addresses.
THEOREM AccountsTypeCorrect == AccountsSpec => []AccountsTypeOK
<1>1. AccountsInv => AccountsTypeOK
  BY DEF AccountsInv, TypeInv
<1> QED
  BY <1>1, AccountsInvariant, PTL

\* What a call was told of an address stays true under every spelling of it: register
\* and oauthLogin look first and insert later, other calls for the address insert in
\* between, and no later step takes the account or its password away.
THEOREM AnswersHoldCorrect == AccountsSpec => []AnswersHold
<1>1. AccountsInv => AnswersHold
  <2> SUFFICES ASSUME AccountsInv, NEW c \in Calls, NEW s \in Spellings,
                      calls[c].pc = "ret", calls[c].op # "refresh",
                      calls[c].reply \in {"registered", "conflict", "unverified", "tokens"},
                      Lowercase[s] = Lowercase[calls[c].email]
               PROVE  /\ HasAccount(s)
                      /\ {i \in DOMAIN users : Lowercase[users[i].email] = Lowercase[s]}
                           = {FindByEmail(s)}
                      /\ calls[c].reply = "registered" => /\ users[FindByEmail(s)].password
                                                          /\ users[FindByEmail(s)].verified
    BY DEF AnswersHold
  <2>1. Told(calls[c]) /\ Knows(calls[c]) /\ UsersDistinct
    BY DEF AccountsInv, ToldInv, Knows
  <2>2. PICK i \in DOMAIN users :
          /\ users[i].email = Lowercase[s]
          /\ calls[c].reply = "registered" => users[i].password /\ users[i].verified
    BY <2>1 DEF Told
  <2>3. FindByEmail(s) = i
    BY <2>1, <2>2 DEF FindByEmail, UsersDistinct
  <2>4. \A j \in DOMAIN users : Lowercase[users[j].email] = users[j].email
    BY <2>1, AccountsAssumption DEF UsersDistinct
  <2>5. {j \in DOMAIN users : Lowercase[users[j].email] = Lowercase[s]} = {i}
    BY <2>1, <2>2, <2>4 DEF UsersDistinct
  <2> QED
    BY <2>2, <2>3, <2>5 DEF HasAccount
<1> QED
  BY <1>1, AccountsInvariant, PTL

\* Overlapping resends never leave an address without its latest code: each of them
\* deletes first and stores last.
THEOREM LatestCodeCorrect == AccountsSpec => []LatestCodeWorks
<1>1. AccountsInv => LatestCodeWorks
  <2> SUFFICES ASSUME AccountsInv, NEW e \in Addresses,
                      stored[e] # <<>>, ~Resending(e), faults = 0, crashes = 0
               PROVE  LET k == stored[e][Len(stored[e])]
                      IN k \in DOMAIN codes /\ (Valid(e, k) \/ codes[k].used \/ codes[k].expired)
    BY DEF LatestCodeWorks
  <2> DEFINE k == stored[e][Len(stored[e])]
  <2>1. k \in DOMAIN codes /\ codes[k].email = Lowercase[e]
    BY AccountsAssumption DEF AccountsInv, LatestInv, Resending
  <2> QED
    BY <2>1 DEF Valid
<1> QED
  BY <1>1, AccountsInvariant, PTL

\* No account turns verified beside a code that still works, wherever a command
\* fails or the process dies: markUsed comes before the update of the user.
THEOREM VerifyingCorrect == AccountsSpec => VerifyingSpendsTheCode
<1>1. AccountsInv /\ [AccountsNext]_accountVars =>
        [\A i \in DOMAIN users :
           ~users[i].verified /\ users'[i].verified
             => \E c \in Calls : /\ calls[c].pc = "v.update"
                                 /\ \/ calls[c].code = Bypass
                                    \/ ~Valid(calls[c].email, calls[c].code)]_accountVars
  <2> SUFFICES ASSUME AccountsInv, [AccountsNext]_accountVars, NEW i \in DOMAIN users,
                      ~users[i].verified, users'[i].verified
               PROVE  \E c \in Calls : /\ calls[c].pc = "v.update"
                                       /\ \/ calls[c].code = Bypass
                                          \/ ~Valid(calls[c].email, calls[c].code)
    OBVIOUS
  <2>1. TypeInv /\ users \in Seq(Account)
    BY DEF AccountsInv, TypeInv, AccountsTypeOK
  <2>2. ~UNCHANGED users
    OBVIOUS
  <2>3. ASSUME NEW s \in Spellings, NEW v \in BOOLEAN, NEW p \in BOOLEAN, CreateUser(s, v, p)
        PROVE  FALSE
    BY <2>1, <2>3, CreateUserAppends
  <2>4. ASSUME NEW j \in DOMAIN users, Ban(j)
        PROVE  FALSE
    <3> DEFINE u == [users[j] EXCEPT !.banned = TRUE]
    <3>1. users' = [users EXCEPT ![j] = u]
      BY <2>4 DEF Ban
    <3>2. users[j] \in Account
      BY <2>1
    <3>3. u.verified = users[j].verified
      BY <3>2 DEF Account
    <3> HIDE DEF u
    <3> QED
      BY <2>1, <3>1, <3>3
  <2>5. PICK c \in Calls : VerifyUpdate(c)
    BY <2>1, <2>2, <2>3, <2>4, UsersMove
  <2>6. calls[c].pc = "v.update"
    BY <2>5 DEF VerifyUpdate, At
  <2> QED
    BY <2>6 DEF AccountsInv, CodesInv
<1> QED
  BY <1>1, AccountsInvariant, PTL DEF AccountsSpec, VerifyingSpendsTheCode

=============================================================================
