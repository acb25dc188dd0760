-------------------------- MODULE ProfilesProofs --------------------------
(***************************************************************************)
(* Proofs about Profiles, for every set of requests, bodies and files and  *)
(* every number of calls and faults.                                       *)
(***************************************************************************)
EXTENDS Profiles, TLAPS

-----------------------------------------------------------------------------
(* The inductive invariant *)

\* What a label says of the request: who writes a name has one, who inserts a profile
\* has the required fields, who writes an avatar has a file.
FrameOK(f) ==
  /\ f.pc \in {"find", "name"} => f.op \in {"create", "replace", "update"}
  /\ f.pc \in {"find", "name"} /\ f.op # "update" => f.dto.gender \in Genders
  /\ f.pc = "name" => Truthy(f.dto.displayName)
  /\ f.pc \in {"create", "upsert"} => f.dto.gender \in Genders
  /\ f.pc \in {"avatar", "lookup", "sync"} => f.op = "upload"
  /\ f.op = "upload" /\ f.pc # "ret" =>
       f.file \in Files /\ f.pc \in {"avatar", "lookup", "sync", "again"}

TypeInv == ProfilesTypeOK /\ (\A c \in Calls : FrameOK(calls[c]))

\* An upload that has begun to write.
Writing(c) == calls[c].op = "upload" /\ calls[c].pc \in {"lookup", "sync", "again"}

\* The user's avatar is recent, and the profile's too unless it has none of its own.
UserRecent == OrBlank(user.avatar) \in recent
BothRecent == UserRecent /\ (profile # Null => profile.avatar \in recent \cup {Blank})

\* An upload under way has given its file; from its first write to its answer the user's
\* avatar is recent, and at its answer, and after it, the profile's too.
AvatarInv ==
  /\ \A c \in Calls :
       /\ calls[c].op = "upload" /\ calls[c].pc # "ret" => calls[c].file \in recent
       /\ Writing(c) => UserRecent
       /\ Writing(c) /\ calls[c].pc = "again" => BothRecent
  /\ answered => BothRecent

ProfilesInv == TypeInv /\ AvatarInv

-----------------------------------------------------------------------------
(* Frames *)

LEMMA IdleIsFrame == Idle \in Frame /\ FrameOK(Idle) /\ Idle.pc = "ret"
BY DEF Idle, Frame, FrameOK, Labels, AllOps, NoDto, Dto, Unset

LEMMA GotoMoves ==
  ASSUME calls \in [Calls -> Frame], NEW c \in Calls, NEW pc \in Labels, Goto(c, pc)
  PROVE  /\ calls' \in [Calls -> Frame] /\ \A d \in Calls : d # c => calls'[d] = calls[d]
         /\ calls'[c].pc = pc /\ calls'[c].op = calls[c].op
         /\ calls'[c].dto = calls[c].dto /\ calls'[c].file = calls[c].file
<1> DEFINE g == [calls[c] EXCEPT !.pc = pc]
<1>1. calls' = [calls EXCEPT ![c] = g]
  BY DEF Goto
<1>2. /\ g \in Frame /\ g.pc = pc /\ g.op = calls[c].op
      /\ g.dto = calls[c].dto /\ g.file = calls[c].file
  BY DEF Frame
<1> HIDE DEF g
<1> QED
  BY <1>1, <1>2

LEMMA AnswerMoves ==
  ASSUME calls \in [Calls -> Frame], NEW c \in Calls, NEW r, Answer(c, r),
         r \in {"ok", "conflict", "notFound", "error"}
  PROVE  /\ calls' \in [Calls -> Frame] /\ \A d \in Calls : d # c => calls'[d] = calls[d]
         /\ calls'[c].pc = "ret" /\ calls'[c].op = calls[c].op
<1> DEFINE g == [Idle EXCEPT !.op = calls[c].op, !.reply = r]
<1>1. calls' = [calls EXCEPT ![c] = g]
  BY DEF Answer
<1>2. g \in Frame /\ g.pc = "ret" /\ g.op = calls[c].op
  BY IdleIsFrame DEF Frame, Idle
<1> HIDE DEF g
<1> QED
  BY <1>1, <1>2

LEMMA StartMoves ==
  ASSUME calls \in [Calls -> Frame], NEW c \in Calls, NEW op \in AllOps, NEW pc \in Labels,
         NEW dto \in Dto, NEW file \in Files \cup {Absent}, Start(c, op, pc, dto, file)
  PROVE  /\ calls' \in [Calls -> Frame] /\ \A d \in Calls : d # c => calls'[d] = calls[d]
         /\ calls[c].pc = "ret" /\ calls'[c].pc = pc /\ calls'[c].op = op
         /\ calls'[c].dto = dto /\ calls'[c].file = file
         /\ UNCHANGED <<user, profile, faults>>
<1> DEFINE g == [pc |-> pc, op |-> op, dto |-> dto, file |-> file, reply |-> "pending"]
<1>1. calls' = [calls EXCEPT ![c] = g]
  BY DEF Start
<1>2. g \in Frame /\ g.pc = pc /\ g.op = op /\ g.dto = dto /\ g.file = file
  BY DEF Frame
<1> HIDE DEF g
<1> QED
  BY <1>1, <1>2 DEF Start, At

-----------------------------------------------------------------------------
(* Documents *)

LEMMA InsertedIsProfile ==
  ASSUME NEW dto \in Dto, dto.gender \in Genders
  PROVE  Inserted(dto) \in Profile /\ Inserted(dto).avatar = Blank
BY DEF Dto, Profile, Inserted, Or, Unset

LEMMA UpdatedIsProfile ==
  ASSUME profile \in Profile, NEW dto \in Dto
  PROVE  Updated(dto) \in Profile /\ Updated(dto).avatar = profile.avatar
BY DEF Dto, Profile, Updated, Or, Unset

-----------------------------------------------------------------------------
(* Types *)

LEMMA InitTyped == ProfilesInit => TypeInv
<1> SUFFICES ASSUME ProfilesInit PROVE TypeInv
  OBVIOUS
<1>1. calls \in [Calls -> Frame] /\ \A c \in Calls : calls[c] = Idle
  BY IdleIsFrame DEF ProfilesInit
<1>2. profile \in Profile \cup {Null}
  BY ProfilesAssumption DEF ProfilesInit
<1>3. user \in User
  BY DEF ProfilesInit, User
<1>4. recent \subseteq Files \cup {Blank} /\ answered \in BOOLEAN
  BY DEF ProfilesInit
<1>5. faults \in 0..MaxFaults
  BY ProfilesAssumption DEF ProfilesInit
<1> QED
  BY <1>1, <1>2, <1>3, <1>4, <1>5, IdleIsFrame DEF TypeInv, ProfilesTypeOK

\* What a step of c has to show: its own frame, and the documents.
LEMMA OneFrameMoves ==
  ASSUME TypeInv, NEW c \in Calls,
         calls' \in [Calls -> Frame], \A d \in Calls : d # c => calls'[d] = calls[d],
         FrameOK(calls'[c]),
         user' \in User, profile' \in Profile \cup {Null},
         recent' \subseteq Files \cup {Blank}, answered' \in BOOLEAN, faults' \in 0..MaxFaults
  PROVE  TypeInv'
<1>1. \A d \in Calls : FrameOK(calls'[d])
  BY DEF TypeInv
<1> QED
  BY <1>1 DEF TypeInv, ProfilesTypeOK

LEMMA RequestTyped ==
  ASSUME TypeInv, NEW c \in Calls, Request(c)
  PROVE  TypeInv'
<1> USE DEF AllOps, Labels
<1>0. calls \in [Calls -> Frame] /\ user \in User /\ profile \in Profile \cup {Null}
      /\ recent \subseteq Files \cup {Blank} /\ answered \in BOOLEAN /\ faults \in 0..MaxFaults
  BY DEF TypeInv, ProfilesTypeOK
<1>1. CASE CreateProfile(c)
  <2>1. PICK d \in CreateDtos : Start(c, "create", "find", d, Absent)
    BY <1>1 DEF CreateProfile
  <2>2. d \in Dto /\ d.gender \in Genders
    BY ProfilesAssumption
  <2>3. FrameOK(calls'[c]) /\ calls'[c].op # "upload"
    BY <1>0, <2>1, <2>2, StartMoves DEF FrameOK
  <2> QED
    BY <1>0, <2>1, <2>2, <2>3, StartMoves, OneFrameMoves, <1>1 DEF CreateProfile, history
<1>2. CASE UpsertProfile(c)
  <2>1. PICK d \in CreateDtos : Start(c, "replace", NameOrWrite("replace", d), d, Absent)
    BY <1>2 DEF UpsertProfile
  <2>2. d \in Dto /\ d.gender \in Genders
    BY ProfilesAssumption
  <2>3. NameOrWrite("replace", d) \in {"name", "upsert"}
    BY DEF NameOrWrite, Write
  <2>4. FrameOK(calls'[c]) /\ calls'[c].op # "upload"
    BY <1>0, <2>1, <2>2, <2>3, StartMoves DEF FrameOK, NameOrWrite, Write
  <2> QED
    BY <1>0, <2>1, <2>2, <2>3, <2>4, StartMoves, OneFrameMoves, <1>2 DEF UpsertProfile, history
<1>3. CASE UpdateProfile(c)
  <2>1. PICK d \in UpdateDtos : Start(c, "update", "find", d, Absent)
    BY <1>3 DEF UpdateProfile
  <2>2. d \in Dto
    BY ProfilesAssumption
  <2>3. FrameOK(calls'[c]) /\ calls'[c].op # "upload"
    BY <1>0, <2>1, <2>2, StartMoves DEF FrameOK
  <2> QED
    BY <1>0, <2>1, <2>2, <2>3, StartMoves, OneFrameMoves, <1>3 DEF UpdateProfile, history
<1>4. CASE DeleteProfile(c)
  <2>1. Start(c, "delete", "delete", NoDto, Absent) /\ NoDto \in Dto
    BY <1>4 DEF DeleteProfile, NoDto, Dto, Unset
  <2>2. FrameOK(calls'[c]) /\ calls'[c].op # "upload"
    BY <1>0, <2>1, StartMoves DEF FrameOK
  <2> QED
    BY <1>0, <2>1, <2>2, StartMoves, OneFrameMoves, <1>4 DEF DeleteProfile, history
<1>5. CASE UploadAvatar(c)
  <2>1. PICK f \in Files :
          /\ Start(c, "upload", "avatar", NoDto, f)
          /\ recent' = IF Uploading THEN recent \cup {f} ELSE {f}
          /\ answered' = (Uploading /\ answered)
    BY <1>5 DEF UploadAvatar
  <2>2. NoDto \in Dto
    BY DEF NoDto, Dto, Unset
  <2>3. FrameOK(calls'[c])
    BY <1>0, <2>1, <2>2, StartMoves DEF FrameOK
  <2>4. recent' \subseteq Files \cup {Blank} /\ answered' \in BOOLEAN
    BY <1>0, <2>1
  <2> QED
    BY <1>0, <2>1, <2>2, <2>3, <2>4, StartMoves, OneFrameMoves
<1>6. CASE UpdateMe(c)
  <2>1. PICK d \in MeDtos :
          /\ user' = [displayName |-> Or(d.displayName, user.displayName),
                      avatar |-> Or(d.avatar, user.avatar)]
          /\ recent' = IF d.avatar = Absent THEN recent ELSE recent \cup {OrBlank(d.avatar)}
    BY <1>6 DEF UpdateMe
  <2>2. d \in MeDto
    BY ProfilesAssumption
  <2>3. user' \in User
    BY <1>0, <2>1, <2>2 DEF User, MeDto, Or, Unset
  <2>4. recent' \subseteq Files \cup {Blank}
    BY <1>0, <2>1, <2>2 DEF MeDto, OrBlank, Truthy
  <2> DEFINE g == [Idle EXCEPT !.op = "me", !.reply = "ok"]
  <2>5. calls' = [calls EXCEPT ![c] = g] /\ UNCHANGED <<profile, answered, faults>>
    BY <1>6 DEF UpdateMe
  <2>6. g \in Frame /\ g.pc = "ret"
    BY IdleIsFrame DEF Frame
  <2> HIDE DEF g
  <2>7. /\ calls' \in [Calls -> Frame] /\ calls'[c].pc = "ret"
        /\ \A d2 \in Calls : d2 # c => calls'[d2] = calls[d2]
    BY <1>0, <2>5, <2>6
  <2>8. FrameOK(calls'[c])
    BY <2>7 DEF FrameOK
  <2> QED
    BY <1>0, <2>5, <2>7, <2>8, <2>3, <2>4, OneFrameMoves
<1> QED
  BY <1>1, <1>2, <1>3, <1>4, <1>5, <1>6 DEF Request

\* A handler that goes on keeps its request.
LEMMA GotoTyped ==
  ASSUME TypeInv, NEW c \in Calls, NEW pc \in Labels, Goto(c, pc), calls[c].pc # "ret",
         LET f == calls[c] IN
           /\ pc \in {"find", "name"} => f.op \in {"create", "replace", "update"}
           /\ pc \in {"find", "name"} /\ f.op # "update" => f.dto.gender \in Genders
           /\ pc = "name" => Truthy(f.dto.displayName)
           /\ pc \in {"create", "upsert"} => f.dto.gender \in Genders
           /\ pc \in {"avatar", "lookup", "sync"} => f.op = "upload"
           /\ f.op = "upload" => pc \in {"avatar", "lookup", "sync", "again"},
         user' \in User, profile' \in Profile \cup {Null},
         recent' \subseteq Files \cup {Blank}, answered' \in BOOLEAN, faults' \in 0..MaxFaults
  PROVE  TypeInv'
<1>1. calls \in [Calls -> Frame] /\ FrameOK(calls[c])
  BY DEF TypeInv, ProfilesTypeOK
<1>2. /\ calls' \in [Calls -> Frame] /\ \A d \in Calls : d # c => calls'[d] = calls[d]
      /\ calls'[c].pc = pc /\ calls'[c].op = calls[c].op
      /\ calls'[c].dto = calls[c].dto /\ calls'[c].file = calls[c].file
  BY <1>1, GotoMoves
<1>3. FrameOK(calls'[c])
  BY <1>1, <1>2 DEF FrameOK
<1> QED
  BY <1>1, <1>2, <1>3, OneFrameMoves

LEMMA AnswerTyped ==
  ASSUME TypeInv, NEW c \in Calls, NEW r, Answer(c, r),
         r \in {"ok", "conflict", "notFound", "error"},
         user' \in User, profile' \in Profile \cup {Null},
         recent' \subseteq Files \cup {Blank}, answered' \in BOOLEAN, faults' \in 0..MaxFaults
  PROVE  TypeInv'
<1>1. calls \in [Calls -> Frame]
  BY DEF TypeInv, ProfilesTypeOK
<1>2. /\ calls' \in [Calls -> Frame] /\ \A d \in Calls : d # c => calls'[d] = calls[d]
      /\ calls'[c].pc = "ret"
  BY <1>1, AnswerMoves
<1>3. FrameOK(calls'[c])
  BY <1>2 DEF FrameOK
<1> QED
  BY <1>2, <1>3, OneFrameMoves

LEMMA HandlerTyped ==
  ASSUME TypeInv, NEW c \in Calls, Handler(c)
  PROVE  TypeInv'
<1> USE DEF Labels, At, history
<1>0. calls[c] \in Frame /\ user \in User /\ profile \in Profile \cup {Null}
      /\ recent \subseteq Files \cup {Blank} /\ answered \in BOOLEAN
      /\ faults \in 0..MaxFaults /\ FrameOK(calls[c]) /\ calls[c].dto \in Dto
  BY DEF TypeInv, ProfilesTypeOK, Frame
<1>1. CASE Find(c)
  <2>1. CASE \E r \in {"conflict", "notFound"} : Answer(c, r)
    BY <1>0, <1>1, <2>1, AnswerTyped DEF Find
  <2>2. CASE Goto(c, NameOrWrite(calls[c].op, calls[c].dto))
    <3>1. NameOrWrite(calls[c].op, calls[c].dto) \in {"name", "create", "upsert", "update"}
      BY DEF NameOrWrite, Write
    <3>2. /\ calls[c].pc = "find" /\ calls[c].op \in {"create", "replace", "update"}
          /\ calls[c].op # "update" => calls[c].dto.gender \in Genders
          /\ calls[c].op = "update" =>
               NameOrWrite(calls[c].op, calls[c].dto) \in {"name", "update"}
          /\ NameOrWrite(calls[c].op, calls[c].dto) = "name" => Truthy(calls[c].dto.displayName)
      BY <1>0, <1>1 DEF Find, FrameOK, NameOrWrite, Write
    <3>3. UNCHANGED <<user, profile, history, faults>>
      BY <1>1 DEF Find
    <3> DEFINE w == NameOrWrite(calls[c].op, calls[c].dto)
    <3>4. w \in Labels /\ Goto(c, w)
      BY <2>2, <3>1
    <3> HIDE DEF w
    <3> QED
      BY <1>0, <3>1, <3>2, <3>3, <3>4, GotoTyped DEF w
  <2> QED
    BY <1>1, <2>1, <2>2 DEF Find
<1>2. CASE Name(c)
  <2>1. /\ calls[c].pc = "name" /\ Goto(c, Write(calls[c].op))
        /\ user' = [user EXCEPT !.displayName = calls[c].dto.displayName]
        /\ UNCHANGED <<profile, history, faults>>
    BY <1>2 DEF Name
  <2>2. user' \in User
    BY <1>0, <2>1 DEF FrameOK, Truthy, Unset, User, Dto
  <2>3. /\ Write(calls[c].op) \in {"create", "upsert", "update"}
        /\ calls[c].op \in {"create", "replace", "update"}
        /\ Write(calls[c].op) # "update" => calls[c].dto.gender \in Genders
    BY <1>0, <2>1 DEF FrameOK, Write
  <2> DEFINE w == Write(calls[c].op)
  <2>4. w \in {"create", "upsert", "update"} /\ Goto(c, w)
        /\ (w # "update" => calls[c].dto.gender \in Genders)
    BY <2>1, <2>3
  <2> HIDE DEF w
  <2> QED
    BY <1>0, <2>1, <2>2, <2>3, <2>4, GotoTyped
<1>3. CASE Create(c)
  <2>1. /\ calls[c].pc = "create" /\ calls[c].dto.gender \in Genders
        /\ calls[c].op # "upload" /\ UNCHANGED <<user, history, faults>>
    BY <1>0, <1>3 DEF Create, FrameOK
  <2>2. CASE profile = Null
    BY <1>0, <1>3, <2>1, <2>2, InsertedIsProfile, GotoTyped DEF Create
  <2>3. CASE profile # Null
    BY <1>0, <1>3, <2>1, <2>3, AnswerTyped DEF Create
  <2> QED
    BY <2>2, <2>3
<1>4. CASE Upsert(c)
  <2>1. /\ calls[c].pc = "upsert" /\ calls[c].dto.gender \in Genders /\ Goto(c, "again")
        /\ calls[c].op # "upload" /\ UNCHANGED <<user, history, faults>>
    BY <1>0, <1>4 DEF Upsert, FrameOK
  <2>2. profile' \in Profile
    BY <1>0, <1>4, <2>1, InsertedIsProfile, UpdatedIsProfile DEF Upsert
  <2> QED
    BY <1>0, <2>1, <2>2, GotoTyped
<1>5. CASE Update(c)
  <2>1. /\ calls[c].pc = "update" /\ Goto(c, "again")
        /\ calls[c].op # "upload" /\ UNCHANGED <<user, history, faults>>
    BY <1>0, <1>5 DEF Update, FrameOK
  <2>2. profile' \in Profile \cup {Null}
    BY <1>0, <1>5, UpdatedIsProfile DEF Update
  <2> QED
    BY <1>0, <2>1, <2>2, GotoTyped
<1>6. CASE Delete(c)
  <2> DEFINE r == IF profile = Null THEN "notFound" ELSE "ok"
  <2>1. Answer(c, r) /\ r \in {"ok", "notFound"} /\ profile' = Null
        /\ UNCHANGED <<user, history, faults>>
    BY <1>6 DEF Delete
  <2> HIDE DEF r
  <2> QED
    BY <1>0, <2>1, AnswerTyped
<1>7. CASE Avatar(c)
  <2>1. /\ calls[c].pc = "avatar" /\ calls[c].op = "upload" /\ calls[c].file \in Files
        /\ Goto(c, "lookup") /\ UNCHANGED <<profile, history, faults>>
    BY <1>0, <1>7 DEF Avatar, FrameOK
  <2>2. user' \in User
    BY <1>0, <1>7, <2>1 DEF Avatar, User
  <2> QED
    BY <1>0, <2>1, <2>2, GotoTyped
<1>8. CASE Lookup(c)
  <2>1. /\ calls[c].pc = "lookup" /\ calls[c].op = "upload"
        /\ Goto(c, "again") \/ Goto(c, "sync")
        /\ UNCHANGED <<user, profile, history, faults>>
    BY <1>0, <1>8 DEF Lookup, FrameOK
  <2> QED
    BY <1>0, <2>1, GotoTyped
<1>9. CASE Sync(c)
  <2>1. /\ calls[c].pc = "sync" /\ calls[c].op = "upload" /\ calls[c].file \in Files
        /\ Goto(c, "again") /\ UNCHANGED <<user, history, faults>>
    BY <1>0, <1>9 DEF Sync, FrameOK
  <2>2. profile' \in Profile \cup {Null}
    BY <1>0, <1>9, <2>1 DEF Sync, Profile
  <2> QED
    BY <1>0, <2>1, <2>2, GotoTyped
<1>10. CASE Again(c)
  <2>1. Answer(c, "ok") /\ answered' \in BOOLEAN
        /\ UNCHANGED <<user, profile, recent, faults>>
    BY <1>0, <1>10 DEF Again
  <2> QED
    BY <1>0, <2>1, AnswerTyped
<1> QED
  BY <1>1, <1>2, <1>3, <1>4, <1>5, <1>6, <1>7, <1>8, <1>9, <1>10 DEF Handler

LEMMA RejectsTyped ==
  ASSUME TypeInv, NEW c \in Calls, Rejects(c)
  PROVE  TypeInv'
<1>1. Answer(c, "error") /\ UNCHANGED <<user, profile, history>>
  BY DEF Rejects, history
<1>2. faults' \in 0..MaxFaults
  BY ProfilesAssumption DEF Rejects, TypeInv, ProfilesTypeOK
<1>3. /\ user \in User /\ profile \in Profile \cup {Null}
      /\ recent \subseteq Files \cup {Blank} /\ answered \in BOOLEAN
  BY DEF TypeInv, ProfilesTypeOK
<1> QED
  BY <1>1, <1>2, <1>3, AnswerTyped DEF history

LEMMA NextTyped == TypeInv /\ [ProfilesNext]_profileVars => TypeInv'
<1> SUFFICES ASSUME TypeInv, [ProfilesNext]_profileVars PROVE TypeInv'
  OBVIOUS
<1>1. CASE ProfilesNext
  BY <1>1, RequestTyped, HandlerTyped, RejectsTyped DEF ProfilesNext
<1>2. CASE UNCHANGED profileVars
  BY <1>2 DEF profileVars, history, TypeInv, ProfilesTypeOK, FrameOK
<1> QED
  BY <1>1, <1>2

\* Both documents and every request in flight keep their schema: null is the only value
\* outside its own that a field may hold, whatever a body leaves out or nulls.
THEOREM ProfilesTypeCorrect == ProfilesSpec => []ProfilesTypeOK
<1>1. TypeInv => ProfilesTypeOK
  BY DEF TypeInv
<1> QED
  BY <1>1, InitTyped, NextTyped, PTL DEF ProfilesSpec

-----------------------------------------------------------------------------
(* Avatars *)

\* The commands of the operations other than an upload leave the user's avatar alone, and
\* leave or clear the profile's.
LEMMA OtherWrites ==
  ASSUME TypeInv, NEW c \in Calls, Handler(c), calls[c].op # "upload"
  PROVE  /\ UserRecent => UserRecent'
         /\ BothRecent => BothRecent'
         /\ UNCHANGED history
         /\ \A d \in Calls : d # c => calls'[d] = calls[d]
         /\ calls'[c].op # "upload"
<1> USE DEF At
<1>0. /\ calls \in [Calls -> Frame] /\ user \in User /\ profile \in Profile \cup {Null}
      /\ calls[c].dto \in Dto /\ FrameOK(calls[c]) /\ answered \in BOOLEAN
  BY DEF TypeInv, ProfilesTypeOK, Frame
<1>1. /\ user'.avatar = user.avatar
      /\ profile' # Null => \/ profile'.avatar = Blank
                            \/ profile # Null /\ profile'.avatar = profile.avatar
  <2>1. CASE Name(c)
    BY <1>0, <2>1 DEF Name, User
  <2>2. CASE Create(c)
    BY <1>0, <2>2, InsertedIsProfile DEF Create, FrameOK
  <2>3. CASE Upsert(c)
    BY <1>0, <2>3, InsertedIsProfile, UpdatedIsProfile DEF Upsert, FrameOK
  <2>4. CASE Update(c)
    BY <1>0, <2>4, UpdatedIsProfile DEF Update
  <2>5. CASE Find(c) \/ Delete(c) \/ Again(c)
    BY <2>5 DEF Find, Delete, Again
  <2>6. CASE Avatar(c) \/ Lookup(c) \/ Sync(c)
    BY <1>0, <2>6 DEF Avatar, Lookup, Sync, FrameOK
  <2> QED
    BY <2>1, <2>2, <2>3, <2>4, <2>5, <2>6 DEF Handler
<1>2. UNCHANGED history
  BY <1>0 DEF history, Handler, Find, Name, Create, Upsert, Update, Delete, Avatar, Lookup,
     Sync, Again
<1>3. (UserRecent => UserRecent') /\ (BothRecent => BothRecent')
  BY <1>1, <1>2 DEF history, UserRecent, BothRecent
<1>4. (\E pc \in Labels : Goto(c, pc)) \/
      (\E r \in {"ok", "conflict", "notFound", "error"} : Answer(c, r))
  BY DEF Handler, Find, Name, Create, Upsert, Update, Delete, Avatar, Lookup, Sync, Again,
     NameOrWrite, Write, Labels
<1>5. (\A d \in Calls : d # c => calls'[d] = calls[d]) /\ calls'[c].op = calls[c].op
  BY <1>0, <1>4, GotoMoves, AnswerMoves
<1> QED
  BY <1>2, <1>3, <1>5

LEMMA UploadWrites ==
  ASSUME TypeInv, AvatarInv, NEW c \in Calls, Handler(c), calls[c].op = "upload"
  PROVE  AvatarInv'
<1> USE DEF At, Labels, history
<1>0. /\ calls \in [Calls -> Frame] /\ FrameOK(calls[c]) /\ user \in User
      /\ profile \in Profile \cup {Null} /\ calls[c].pc # "ret"
      /\ answered \in BOOLEAN /\ recent \subseteq Files \cup {Blank}
  BY DEF TypeInv, ProfilesTypeOK, Handler, Find, Name, Create, Upsert, Update, Delete, Avatar,
     Lookup, Sync, Again
<1>1. Avatar(c) \/ Lookup(c) \/ Sync(c) \/ Again(c)
  BY <1>0 DEF FrameOK, Handler, Find, Name, Create, Upsert, Update, Delete
<1>2. recent' = recent /\ calls[c].file \in recent \cap Files
  BY <1>0, <1>1 DEF AvatarInv, FrameOK, Avatar, Lookup, Sync, Again
<1>3. OrBlank(calls[c].file) = calls[c].file
  BY <1>2, ProfilesAssumption DEF OrBlank, Truthy
<1>4. CASE Avatar(c)
  <2>1. user'.avatar = calls[c].file /\ UNCHANGED <<profile, answered>>
    BY <1>0, <1>4 DEF Avatar, User
  <2>2. UserRecent'
    BY <1>2, <1>3, <2>1 DEF UserRecent
  <2>3. BothRecent => BothRecent'
    BY <1>2, <2>1, <2>2 DEF BothRecent
  <2>4. /\ \A d \in Calls : d # c => calls'[d] = calls[d]
        /\ calls'[c].pc = "lookup" /\ calls'[c].file = calls[c].file
    BY <1>0, <1>4, GotoMoves DEF Avatar
  <2> QED
    BY <1>2, <2>1, <2>2, <2>3, <2>4 DEF AvatarInv, Writing
<1>5. CASE Lookup(c)
  <2>1. UserRecent /\ UNCHANGED <<user, profile, answered>>
    BY <1>5 DEF Lookup, AvatarInv, Writing
  <2>2. UserRecent' /\ (BothRecent => BothRecent') /\ (profile = Null => BothRecent')
    BY <1>2, <2>1 DEF UserRecent, BothRecent
  <2>3. /\ \A d \in Calls : d # c => calls'[d] = calls[d]
        /\ calls'[c].pc = "again" => profile = Null
        /\ calls'[c].file = calls[c].file
    <3> DEFINE pc == IF profile = Null THEN "again" ELSE "sync"
    <3>1. Goto(c, pc) /\ pc \in Labels /\ (pc = "again" => profile = Null)
      BY <1>5 DEF Lookup
    <3> HIDE DEF pc
    <3> QED
      BY <1>0, <3>1, GotoMoves
  <2> QED
    BY <1>2, <2>1, <2>2, <2>3 DEF AvatarInv, Writing
<1>6. CASE Sync(c)
  <2>1. UserRecent /\ UNCHANGED <<user, answered>>
    BY <1>6 DEF Sync, AvatarInv, Writing
  <2>2. profile' # Null => profile'.avatar = calls[c].file
    BY <1>0, <1>6 DEF Sync, Profile
  <2>3. UserRecent' /\ BothRecent'
    BY <1>2, <2>1, <2>2 DEF UserRecent, BothRecent
  <2>4. /\ \A d \in Calls : d # c => calls'[d] = calls[d]
        /\ calls'[c].file = calls[c].file
    BY <1>0, <1>6, GotoMoves DEF Sync
  <2> QED
    BY <1>2, <2>1, <2>3, <2>4 DEF AvatarInv, Writing
<1>7. CASE Again(c)
  <2>1. BothRecent /\ UNCHANGED <<user, profile>>
    BY <1>0, <1>7 DEF Again, AvatarInv, Writing
  <2>2. UserRecent' /\ BothRecent'
    BY <1>2, <2>1 DEF UserRecent, BothRecent
  <2>3. /\ \A d \in Calls : d # c => calls'[d] = calls[d]
        /\ calls'[c].pc = "ret"
    BY <1>0, <1>7, AnswerMoves DEF Again
  <2> QED
    BY <1>2, <2>2, <2>3 DEF AvatarInv, Writing
<1> QED
  BY <1>1, <1>4, <1>5, <1>6, <1>7

LEMMA RequestKeepsAvatar ==
  ASSUME TypeInv, AvatarInv, NEW c \in Calls, Request(c)
  PROVE  AvatarInv'
<1> USE DEF At, Labels, AllOps, history
<1>0. calls \in [Calls -> Frame] /\ user \in User /\ answered \in BOOLEAN
  BY DEF TypeInv, ProfilesTypeOK
<1>1. CASE CreateProfile(c) \/ UpsertProfile(c) \/ UpdateProfile(c) \/ DeleteProfile(c)
  <2>1. PICK op \in AllOps \ {"upload"}, pc \in Labels, dto \in Dto :
          Start(c, op, pc, dto, Absent)
    BY <1>1, ProfilesAssumption DEF CreateProfile, UpsertProfile, UpdateProfile, DeleteProfile,
       NameOrWrite, Write, NoDto, Dto, Unset
  <2>2. /\ \A d \in Calls : d # c => calls'[d] = calls[d]
        /\ calls'[c].op # "upload" /\ UNCHANGED <<user, profile>>
    BY <1>0, <2>1, StartMoves
  <2>3. UNCHANGED history
    BY <1>1 DEF CreateProfile, UpsertProfile, UpdateProfile, DeleteProfile
  <2> QED
    BY <2>2, <2>3 DEF AvatarInv, Writing, UserRecent, BothRecent
<1>2. CASE UploadAvatar(c)
  <2>1. PICK f \in Files :
          /\ Start(c, "upload", "avatar", NoDto, f)
          /\ recent' = IF Uploading THEN recent \cup {f} ELSE {f}
          /\ answered' = (Uploading /\ answered)
    BY <1>2 DEF UploadAvatar
  <2>2. NoDto \in Dto
    BY DEF NoDto, Dto, Unset
  <2>3. f \in recent'
    BY <2>1
  <2>4. /\ \A d \in Calls : d # c => calls'[d] = calls[d]
        /\ calls'[c].pc = "avatar" /\ calls'[c].file = f /\ f \in recent'
        /\ UNCHANGED <<user, profile>>
    BY <1>0, <2>1, <2>2, <2>3, StartMoves
  <2>5. CASE Uploading
    <3>1. recent \subseteq recent' /\ answered' = answered
      BY <1>0, <2>1, <2>5
    <3> QED
      BY <2>4, <3>1 DEF AvatarInv, Writing, UserRecent, BothRecent
  <2>6. CASE ~Uploading
    <3>1. ~answered' /\ \A d \in Calls : d # c => ~(calls'[d].op = "upload" /\ calls'[d].pc # "ret")
      BY <2>1, <2>4, <2>6 DEF Uploading
    <3> QED
      BY <2>4, <3>1 DEF AvatarInv, Writing
  <2> QED
    BY <2>5, <2>6
<1>3. CASE UpdateMe(c)
  <2>1. PICK d \in MeDtos :
          /\ user' = [displayName |-> Or(d.displayName, user.displayName),
                      avatar |-> Or(d.avatar, user.avatar)]
          /\ recent' = IF d.avatar = Absent THEN recent ELSE recent \cup {OrBlank(d.avatar)}
    BY <1>3 DEF UpdateMe
  <2>2. recent \subseteq recent' /\ UNCHANGED <<profile, answered>>
    BY <1>3, <2>1 DEF UpdateMe
  <2>3. UserRecent => UserRecent'
    BY <2>1, <2>2 DEF UserRecent, Or
  <2>4. BothRecent => BothRecent'
    BY <2>2, <2>3 DEF BothRecent
  <2>5. calls' = [calls EXCEPT ![c] = [Idle EXCEPT !.op = "me", !.reply = "ok"]]
    BY <1>3 DEF UpdateMe
  <2>6. (\A e \in Calls : e # c => calls'[e] = calls[e]) /\ calls'[c].pc = "ret"
    BY <1>0, <2>5, IdleIsFrame DEF Idle
  <2> QED
    BY <2>2, <2>3, <2>4, <2>6 DEF AvatarInv, Writing
<1> QED
  BY <1>1, <1>2, <1>3 DEF Request

LEMMA NextKeepsAvatar ==
  ASSUME TypeInv, AvatarInv, [ProfilesNext]_profileVars
  PROVE  AvatarInv'
<1>1. CASE UNCHANGED profileVars
  BY <1>1 DEF profileVars, AvatarInv, UserRecent, BothRecent, Writing
<1>2. ASSUME NEW c \in Calls, Request(c)
      PROVE  AvatarInv'
  BY <1>2, RequestKeepsAvatar
<1>3. ASSUME NEW c \in Calls, Handler(c), calls[c].op = "upload"
      PROVE  AvatarInv'
  BY <1>3, UploadWrites
<1>4. ASSUME NEW c \in Calls, Handler(c), calls[c].op # "upload"
      PROVE  AvatarInv'
  BY <1>4, OtherWrites DEF AvatarInv, Writing, history
<1>5. ASSUME NEW c \in Calls, Rejects(c)
      PROVE  AvatarInv'
  <2>1. /\ \A d \in Calls : d # c => calls'[d] = calls[d]
        /\ calls'[c].pc = "ret"
    BY <1>5, AnswerMoves DEF Rejects, TypeInv, ProfilesTypeOK
  <2>2. UNCHANGED <<user, profile, recent, answered>>
    BY <1>5 DEF Rejects, history
  <2> QED
    BY <2>1, <2>2 DEF AvatarInv, Writing, UserRecent, BothRecent
<1> QED
  BY <1>1, <1>2, <1>3, <1>4, <1>5 DEF ProfilesNext

\* Once an upload has been answered, the avatar shown is its file, that of an upload that
\* overlapped with it, or one set by PATCH users/me since, in whatever order the writes,
\* lookups and failures of uploads run among creations, replacements and deletions of the
\* profile (uploadAvatar and toProfileResponse).
THEOREM OldAvatarCorrect == ProfilesSpec => []OldAvatarStaysGone
<1>1. ProfilesInit => ProfilesInv
  <2>1. ProfilesInit => AvatarInv
    BY DEF ProfilesInit, AvatarInv, Writing, Idle
  <2> QED
    BY <2>1, InitTyped DEF ProfilesInv
<1>2. ProfilesInv /\ [ProfilesNext]_profileVars => ProfilesInv'
  BY NextTyped, NextKeepsAvatar DEF ProfilesInv
<1>3. ProfilesInv => OldAvatarStaysGone
  <2> SUFFICES ASSUME ProfilesInv, answered PROVE Shown \in recent
    BY DEF OldAvatarStaysGone
  <2>1. BothRecent
    BY DEF ProfilesInv, AvatarInv
  <2>2. CASE profile # Null /\ Truthy(profile.avatar)
    BY <2>1, <2>2 DEF BothRecent, Truthy, Unset, Shown
  <2>3. CASE ~(profile # Null /\ Truthy(profile.avatar))
    BY <2>1, <2>3 DEF BothRecent, UserRecent, Shown
  <2> QED
    BY <2>2, <2>3
<1> QED
  BY <1>1, <1>2, <1>3, PTL DEF ProfilesSpec
=============================================================================
