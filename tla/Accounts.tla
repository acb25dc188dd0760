----------------------------- MODULE Accounts -----------------------------
(***************************************************************************)
(* Sign-up, e-mail verification and sign-in over MongoDB.                  *)
(*                                                                         *)
(* A call is a frame whose pc names the database command it awaits; one    *)
(* action is that command and the synchronous code up to the next await:   *)
(*   r.* register   o.* sendVerificationOtp   v.* verifyEmail              *)
(*   g.* login      a.* oauthLogin            f.* refreshToken             *)
(*   i.* googleLoginWithIdToken, which ends in oauthLogin                  *)
(* The accounts are keyed by id; the codes by the code itself, which is    *)
(* drawn afresh.  A call carries its address as the client spelt it; each  *)
(* query and each insert lowercases it by itself.                          *)
(***************************************************************************)
EXTENDS Naturals, Sequences, FiniteSets

CONSTANTS
  Addresses,      \* lowercased e-mail addresses
  Spellings,      \* the addresses as clients type them, lowercased ones included
  Lowercase,      \* toLowerCase: the address of each spelling
  Calls,          \* slots for calls in flight, over all server processes
  None,           \* null
  InitUsers,      \* the accounts a run may start with
  Ops,            \* the operations of this instance
  BypassAllowed,  \* isOtpBypassAllowed()
  MaxCodes,       \* bound on the codes drawn
  MaxFaults,      \* bound on commands that reject
  MaxCrashes      \* bound on process crashes

AllOps == {"register", "resend", "verify", "login", "oauth", "refresh", "ban"}
Bypass == 0
Replies == {"pending", "registered", "conflict", "resent", "tokens", "refused",
            "unverified", "error"}
Account == [email : Spellings, verified : BOOLEAN, banned : BOOLEAN, password : BOOLEAN]
Code == [email : Addresses, used : BOOLEAN, expired : BOOLEAN]
Labels == {"ret", "r.find", "r.create", "o.delete", "o.create", "v.find", "v.valid",
           "v.mark", "v.update", "v.again", "g.find", "g.seen", "a.find", "a.create",
           "a.seen", "f.find", "i.verify"}

ASSUME AccountsAssumption ==
  /\ Addresses \subseteq Spellings
  /\ Lowercase \in [Spellings -> Addresses]
  /\ \A a \in Addresses : Lowercase[a] = a
  /\ Ops \subseteq AllOps
  /\ BypassAllowed \in BOOLEAN
  /\ MaxCodes \in Nat /\ MaxFaults \in Nat /\ MaxCrashes \in Nat
\* A run starts with accounts that the setter and the unique index have admitted.
ASSUME InitUsersAssumption ==
  /\ InitUsers \subseteq Seq(Account)
  /\ \A s \in InitUsers : \A i \in DOMAIN s : s[i].email \in Addresses
  /\ \A s \in InitUsers : \A i, j \in DOMAIN s : s[i].email = s[j].email => i = j
ASSUME NoneAssumption == None \notin Spellings /\ None \notin Nat

VARIABLES
  users,    \* the users collection: id -> account
  codes,    \* the otps collection: code -> document
  stored,   \* address -> the codes inserted for it, in order (history)
  drawn,    \* number of codes drawn
  calls,    \* the calls in flight
  faults, crashes

accountVars == <<users, codes, stored, drawn, calls, faults, crashes>>

Idle == [pc |-> "ret", op |-> None, email |-> None, code |-> None, user |-> None,
         reply |-> "pending"]
Frame == [pc : Labels, op : AllOps \cup {None}, email : Spellings \cup {None},
          code : Nat \cup {None}, user : Nat \cup {None}, reply : Replies]

-----------------------------------------------------------------------------
(* The collections. *)

\* findByEmail: the query lowercases, whatever is stored.
HasAccount(s) == \E i \in DOMAIN users : users[i].email = Lowercase[s]
FindByEmail(s) == CHOOSE i \in DOMAIN users : users[i].email = Lowercase[s]

\* Insert an account; the unique index on email rejects an address it holds already.
InsertUser(account) ==
  /\ \A i \in DOMAIN users : users[i].email # account.email
  /\ users' = Append(users, account)

\* Mutant: the schema does not lowercase.
CreateUserRaw(s, verified, password) ==
  InsertUser([email |-> s, verified |-> verified, banned |-> FALSE, password |-> password])

\* Mutant: an OAuth account is stored with a null password, not with ''.
CreateUserNullPassword(s, verified, password) ==
  InsertUser([email |-> Lowercase[s], verified |-> verified, banned |-> FALSE,
              password |-> IF password THEN TRUE ELSE None])

\* The setter of the schema lowercases the address of the document that is inserted.
CreateUser(s, verified, password) ==
  InsertUser([email |-> Lowercase[s], verified |-> verified, banned |-> FALSE,
              password |-> password])

\* findValid: not used and not expired, of this address.
Valid(s, k) ==
  k \in DOMAIN codes /\ codes[k].email = Lowercase[s] /\ ~codes[k].used /\ ~codes[k].expired

\* deleteMany({ email, type })
Without(s) == [k \in {j \in DOMAIN codes : codes[j].email # Lowercase[s]} |-> codes[k]]

Inserted(s, k) == [j \in DOMAIN codes \cup {k} |->
                     IF j = k THEN [email |-> Lowercase[s], used |-> FALSE, expired |-> FALSE]
                     ELSE codes[j]]

-----------------------------------------------------------------------------
(* Frames. *)

At(c, pc) == calls[c].pc = pc
Goto(c, pc) == calls' = [calls EXCEPT ![c].pc = pc]
Answer(c, reply) ==
  calls' = [calls EXCEPT ![c] = [Idle EXCEPT !.op = calls[c].op, !.email = calls[c].email,
                                             !.reply = reply]]
Start(c, op, pc, s, k) ==
  /\ op \in Ops
  /\ At(c, "ret")
  /\ calls' = [calls EXCEPT ![c] = [Idle EXCEPT !.pc = pc, !.op = op, !.email = s, !.code = k]]
Stored == <<users, codes, stored>>
Kept == <<drawn, faults, crashes>>

(* register *)

Register(c) == \E s \in Spellings :
  Start(c, "register", "r.find", s, None) /\ UNCHANGED <<Stored, Kept>>

RegisterFind(c) ==
  /\ At(c, "r.find")
  /\ IF HasAccount(calls[c].email) THEN Answer(c, "conflict") ELSE Goto(c, "r.create")
  /\ UNCHANGED <<Stored, Kept>>

RegisterCreate(c) ==
  /\ At(c, "r.create")
  /\ \/ /\ CreateUser(calls[c].email, TRUE, TRUE)
        /\ Answer(c, "registered")
     \/ /\ HasAccount(calls[c].email)
        /\ Answer(c, "error")
        /\ UNCHANGED users
  /\ UNCHANGED <<codes, stored, Kept>>

(* sendVerificationOtp, of resend-otp and of login *)

Resend(c) == \E s \in Spellings :
  /\ drawn < MaxCodes
  /\ Start(c, "resend", "o.delete", s, drawn + 1)
  /\ drawn' = drawn + 1
  /\ UNCHANGED <<Stored, faults, crashes>>

OtpDelete(c) ==
  /\ At(c, "o.delete")
  /\ codes' = Without(calls[c].email)
  /\ Goto(c, "o.create")
  /\ UNCHANGED <<users, stored, Kept>>

\* The mail itself is sent without being awaited.
OtpCreate(c) ==
  /\ At(c, "o.create")
  /\ codes' = Inserted(calls[c].email, calls[c].code)
  /\ stored' = [stored EXCEPT ![Lowercase[calls[c].email]] = Append(@, calls[c].code)]
  /\ Answer(c, IF calls[c].op = "login" THEN "unverified" ELSE "resent")
  /\ UNCHANGED <<users, Kept>>

(* verifyEmail *)

VerifyEmail(c) == \E s \in Spellings, k \in 1..drawn \cup {Bypass} :
  Start(c, "verify", "v.find", s, k) /\ UNCHANGED <<Stored, Kept>>

\* "if (!user.isEmailVerified)": decided on the account read at the start.
AfterCode(user) == IF user = None THEN "v.again" ELSE "v.update"

VerifyFind(c) ==
  LET s == calls[c].email
      i == FindByEmail(s)
      unverified == IF users[i].verified THEN None ELSE i
  IN
  /\ At(c, "v.find")
  /\ IF ~HasAccount(s) \/ (calls[c].code = Bypass /\ ~BypassAllowed)
     THEN Answer(c, "refused")
     ELSE calls' = [calls EXCEPT
            ![c].user = unverified,
            ![c].pc = IF calls[c].code = Bypass THEN AfterCode(unverified) ELSE "v.valid"]
  /\ UNCHANGED <<Stored, Kept>>

VerifyValid(c) ==
  /\ At(c, "v.valid")
  /\ IF Valid(calls[c].email, calls[c].code) THEN Goto(c, "v.mark") ELSE Answer(c, "refused")
  /\ UNCHANGED <<Stored, Kept>>

\* Mutant: the code is never marked used.
VerifyMarkSkipped(c) ==
  /\ At(c, "v.mark")
  /\ Goto(c, AfterCode(calls[c].user))
  /\ UNCHANGED <<Stored, Kept>>

\* Mutant: the codes of the address are deleted instead of the one marked.
VerifyMarkClears(c) ==
  /\ At(c, "v.mark")
  /\ codes' = Without(calls[c].email)
  /\ Goto(c, AfterCode(calls[c].user))
  /\ UNCHANGED <<users, stored, Kept>>

\* The document may have been deleted meanwhile; the update then finds nothing.
VerifyMark(c) ==
  /\ At(c, "v.mark")
  /\ codes' = [k \in DOMAIN codes |->
                 IF k = calls[c].code THEN [codes[k] EXCEPT !.used = TRUE] ELSE codes[k]]
  /\ Goto(c, AfterCode(calls[c].user))
  /\ UNCHANGED <<users, stored, Kept>>

VerifyUpdate(c) ==
  /\ At(c, "v.update")
  /\ users' = [i \in DOMAIN users |->
                 IF i = FindByEmail(calls[c].email)
                 THEN [users[i] EXCEPT !.verified = TRUE] ELSE users[i]]
  /\ Goto(c, "v.again")
  /\ UNCHANGED <<codes, stored, Kept>>

VerifyAgain(c) ==
  /\ At(c, "v.again")
  /\ Answer(c, IF HasAccount(calls[c].email) THEN "tokens" ELSE "refused")
  /\ UNCHANGED <<Stored, Kept>>

(* login *)

Login(c) == \E s \in Spellings :
  Start(c, "login", "g.find", s, None) /\ UNCHANGED <<Stored, Kept>>

LoginFind(c) ==
  LET s == calls[c].email
      u == users[FindByEmail(s)]
  IN
  /\ At(c, "g.find")
  /\ \/ /\ Answer(c, "refused")    \* no account, wrong password, no password, banned
        /\ UNCHANGED drawn
     \/ /\ HasAccount(s) /\ u.password /\ ~u.banned /\ u.verified
        /\ Goto(c, "g.seen")
        /\ UNCHANGED drawn
     \/ /\ HasAccount(s) /\ u.password /\ ~u.banned /\ ~u.verified
        /\ drawn < MaxCodes
        /\ drawn' = drawn + 1
        /\ calls' = [calls EXCEPT ![c].email = u.email, ![c].code = drawn + 1,
                                  ![c].pc = "o.delete"]
  /\ UNCHANGED <<Stored, faults, crashes>>

\* updateById(lastSeenAt), then the tokens.
Seen(c) ==
  /\ At(c, "g.seen") \/ At(c, "a.seen")
  /\ Answer(c, "tokens")
  /\ UNCHANGED <<Stored, Kept>>

(* oauthLogin *)

OauthLogin(c) == \E s \in Spellings :
  Start(c, "oauth", "a.find", s, None) /\ UNCHANGED <<Stored, Kept>>

OauthFind(c) ==
  LET s == calls[c].email IN
  /\ At(c, "a.find")
  /\ IF ~HasAccount(s) THEN Goto(c, "a.create")
     ELSE IF users[FindByEmail(s)].banned THEN Answer(c, "refused")
     ELSE Goto(c, "a.seen")
  /\ UNCHANGED <<Stored, Kept>>

OauthCreate(c) ==
  /\ At(c, "a.create")
  /\ \/ /\ CreateUser(calls[c].email, TRUE, FALSE)
        /\ Goto(c, "a.seen")
     \/ /\ HasAccount(calls[c].email)
        /\ Answer(c, "error")
        /\ UNCHANGED users
  /\ UNCHANGED <<codes, stored, Kept>>

(* googleLoginWithIdToken *)

GoogleIdToken(c) == \E s \in Spellings :
  Start(c, "oauth", "i.verify", s, None) /\ UNCHANGED <<Stored, Kept>>

\* Refused: no client id configured, a token or an address Google does not vouch for,
\* or no answer from Google.
VerifyIdToken(c) ==
  /\ At(c, "i.verify")
  /\ Answer(c, "refused") \/ Goto(c, "a.find")
  /\ UNCHANGED <<Stored, Kept>>

(* refreshToken, with a token of an existing account, which names its id *)

RefreshToken(c) ==
  /\ "refresh" \in Ops
  /\ At(c, "ret")
  /\ \E i \in DOMAIN users :
       calls' = [calls EXCEPT ![c] = [Idle EXCEPT !.pc = "f.find", !.op = "refresh", !.user = i]]
  /\ UNCHANGED <<Stored, Kept>>

RefreshFind(c) ==
  /\ At(c, "f.find")
  /\ Answer(c, IF users[calls[c].user].banned THEN "refused" ELSE "tokens")
  /\ UNCHANGED <<Stored, Kept>>

-----------------------------------------------------------------------------
(* The environment. *)

Ban(i) ==
  /\ "ban" \in Ops
  /\ ~users[i].banned
  /\ users' = [users EXCEPT ![i].banned = TRUE]
  /\ UNCHANGED <<codes, stored, calls, Kept>>

\* findValid ignores an expired code; that the TTL index removes it later shows nowhere.
OtpExpires(k) ==
  /\ ~codes[k].expired
  /\ codes' = [codes EXCEPT ![k].expired = TRUE]
  /\ UNCHANGED <<users, stored, calls, Kept>>

\* A command rejects: login swallows the failure of its resend, nothing else does.
Rejects(c) ==
  /\ ~At(c, "ret") /\ ~At(c, "i.verify")
  /\ faults < MaxFaults
  /\ faults' = faults + 1
  /\ Answer(c, IF calls[c].op = "login" /\ calls[c].pc \in {"o.delete", "o.create"}
               THEN "unverified"
               ELSE IF calls[c].op = "refresh" THEN "refused" ELSE "error")
  /\ UNCHANGED <<Stored, drawn, crashes>>

Crash ==
  /\ crashes < MaxCrashes
  /\ crashes' = crashes + 1
  /\ calls' = [c \in Calls |-> Idle]
  /\ UNCHANGED <<Stored, drawn, faults>>

AccountsInit ==
  /\ users \in InitUsers
  /\ codes = [k \in {} |-> k]
  /\ stored = [e \in Addresses |-> <<>>]
  /\ drawn = 0
  /\ calls = [c \in Calls |-> Idle]
  /\ faults = 0 /\ crashes = 0

Request(c) ==
  \/ Register(c) \/ Resend(c) \/ VerifyEmail(c) \/ Login(c) \/ OauthLogin(c)
  \/ GoogleIdToken(c) \/ RefreshToken(c)

Handler(c) ==
  \/ RegisterFind(c) \/ RegisterCreate(c) \/ OtpDelete(c) \/ OtpCreate(c)
  \/ VerifyFind(c) \/ VerifyValid(c) \/ VerifyMark(c) \/ VerifyUpdate(c) \/ VerifyAgain(c)
  \/ LoginFind(c) \/ Seen(c) \/ OauthFind(c) \/ OauthCreate(c) \/ VerifyIdToken(c)
  \/ RefreshFind(c)

AccountsNext ==
  \/ \E c \in Calls : Request(c) \/ Handler(c) \/ Rejects(c)
  \/ \E i \in DOMAIN users : Ban(i)
  \/ \E k \in DOMAIN codes : OtpExpires(k)
  \/ Crash

AccountsSpec == AccountsInit /\ [][AccountsNext]_accountVars

-----------------------------------------------------------------------------
(* Properties. *)

\* Every variable holds what the collections and the frames can hold.
AccountsTypeOK ==
  /\ users \in Seq(Account)
  /\ DOMAIN codes \subseteq 1..MaxCodes /\ codes \in [DOMAIN codes -> Code]
  /\ stored \in [Addresses -> Seq(1..MaxCodes)]
  /\ drawn \in 0..MaxCodes
  /\ calls \in [Calls -> Frame]
  /\ faults \in 0..MaxFaults /\ crashes \in 0..MaxCrashes

\* What a call was told of an address stays true under every spelling of it: one account
\* has it, every findByEmail finds that account, and after "registered" it is the one
\* the registration made, with a password and verified.  register and oauthLogin look
\* first and insert later, calls for one address overlap in several spellings, and what
\* the queries lowercase, the inserts must too.
AnswersHold ==
  \A c \in Calls, s \in Spellings :
    LET f == calls[c]
        holders == {i \in DOMAIN users : Lowercase[users[i].email] = Lowercase[s]}
    IN  /\ f.pc = "ret" /\ f.op # "refresh"
        /\ f.reply \in {"registered", "conflict", "unverified", "tokens"}
        /\ Lowercase[s] = Lowercase[f.email]
        => /\ HasAccount(s) /\ holders = {FindByEmail(s)}
           /\ f.reply = "registered" => /\ users[FindByEmail(s)].password
                                        /\ users[FindByEmail(s)].verified

Resending(e) == \E c \in Calls :
  calls[c].pc \in {"o.delete", "o.create"} /\ Lowercase[calls[c].email] = e

\* Once every resend for an address has been answered, the code stored last still
\* works unless it was used or has run out: a resend whose deleteMany comes late
\* must not leave the address without any code (no command having failed).
LatestCodeWorks ==
  \A e \in Addresses :
    stored[e] # <<>> /\ ~Resending(e) /\ faults = 0 /\ crashes = 0
      => LET k == stored[e][Len(stored[e])]
         IN k \in DOMAIN codes /\ (Valid(e, k) \/ codes[k].used \/ codes[k].expired)

\* An account turns verified only after the code that was presented has stopped
\* working: verifyEmail marks the code before it updates the user, so neither a
\* failure nor a crash between the two leaves a verified account and a live code.
VerifyingSpendsTheCode ==
  [][\A i \in DOMAIN users :
       ~users[i].verified /\ users'[i].verified
         => \E c \in Calls : /\ calls[c].pc = "v.update"
                             /\ \/ calls[c].code = Bypass
                                \/ ~Valid(calls[c].email, calls[c].code)]_accountVars
=============================================================================
