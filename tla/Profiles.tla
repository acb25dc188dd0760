----------------------------- MODULE Profiles -----------------------------
(***************************************************************************)
(* The profile and account documents of one user over MongoDB.             *)
(*                                                                         *)
(* Every operation works on the documents of the caller, so one user is    *)
(* enough; the user's requests (several devices, a double click, a retry)  *)
(* overlap.  A call is a frame whose pc names the command it awaits.  "bio" *)
(* stands for every optional field of the profile (bio, chatPreference,    *)
(* preferredGender), "gender" for the required ones (gender, age).         *)
(***************************************************************************)
EXTENDS Naturals

CONSTANTS
  Calls,        \* slots for requests in flight
  UploadCalls,  \* the slots that may carry an upload: how far uploads overlap
  Names,        \* display names
  Genders,      \* values of the required fields
  Bios,         \* values of the optional fields
  Files,        \* uploaded avatar files
  Blank,        \* the empty string, the default of bio and avatar
  Absent,       \* undefined: what a request leaves out
  Null,         \* null: in a request, in a field, and for a document that is not there
  CreateDtos,   \* bodies of POST and PUT
  UpdateDtos,   \* bodies of PATCH
  MeDtos,       \* bodies of PATCH users/me
  InitProfiles, \* the profiles a run may start with
  Ops,          \* the operations of this instance
  MaxFaults     \* bound on commands that reject

AllOps == {"create", "replace", "update", "delete", "upload", "me"}
Unset == {Absent, Null, Blank}

\* The documents.  An update runs no validator, so null may stand in every field that
\* a body may name, those the schema or the POST body requires included.
User == [displayName : Names \cup {Null, Blank}, avatar : Files \cup {Null, Blank}]
Profile == [gender : Genders \cup {Null}, bio : Bios \cup {Null, Blank},
            avatar : Files \cup {Blank}]

\* The bodies that pass validation: @IsOptional lets a field be absent and be null.
Dto == [displayName : Names \cup Unset, gender : Genders \cup {Absent, Null},
        bio : Bios \cup Unset]
MeDto == [displayName : Names \cup Unset, avatar : Files \cup Unset]
NoDto == [displayName |-> Absent, gender |-> Absent, bio |-> Absent]
Labels == {"ret", "find", "name", "create", "upsert", "update", "delete",
           "avatar", "lookup", "sync", "again"}

ASSUME ProfilesAssumption ==
  /\ (Names \cup Files) \cap Unset = {}
  /\ UploadCalls \subseteq Calls
  /\ CreateDtos \subseteq {d \in Dto : d.gender \in Genders}
  /\ UpdateDtos \subseteq Dto
  /\ MeDtos \subseteq MeDto
  /\ InitProfiles \subseteq Profile \cup {Null}
  /\ Ops \subseteq AllOps
  /\ MaxFaults \in Nat

VARIABLES
  user,     \* the user document
  profile,  \* the profile document, Null when there is none
  recent,   \* history: the avatars given since the last time an upload began alone
  answered, \* history: one of the uploads since then has been answered
  calls,    \* the requests in flight
  faults

profileVars == <<user, profile, recent, answered, calls, faults>>
history == <<recent, answered>>

Idle == [pc |-> "ret", op |-> Absent, dto |-> NoDto, file |-> Absent, reply |-> "pending"]
Frame == [pc : Labels, op : AllOps \cup {Absent}, dto : Dto, file : Files \cup {Absent},
          reply : {"pending", "ok", "conflict", "notFound", "error"}]

-----------------------------------------------------------------------------
(* Updates of the documents.  Mongoose drops the undefined fields of an     *)
(* update, which keep their values, and writes the null ones.              *)

Or(value, old) == IF value = Absent THEN old ELSE value

\* The test "if (x)" of a string, and "x || ''".
Truthy(value) == value \notin Unset
OrBlank(value) == IF Truthy(value) THEN value ELSE Blank

\* Mutant: an insert stores what was sent, without the defaults of the schema.
InsertedNoDefault(dto) == [gender |-> dto.gender, bio |-> dto.bio, avatar |-> Blank]

\* The defaults of the schema stand for what is absent, not for null.
Inserted(dto) == [gender |-> dto.gender, bio |-> Or(dto.bio, Blank), avatar |-> Blank]

Updated(dto) == [profile EXCEPT !.gender = Or(dto.gender, @), !.bio = Or(dto.bio, @)]

\* toProfileResponse: profile?.avatar || user.avatar || ''
Shown == IF profile # Null /\ Truthy(profile.avatar) THEN profile.avatar ELSE OrBlank(user.avatar)

-----------------------------------------------------------------------------
(* Frames. *)

At(c, pc) == calls[c].pc = pc
Goto(c, pc) == calls' = [calls EXCEPT ![c].pc = pc]
Answer(c, reply) ==
  calls' = [calls EXCEPT ![c] = [Idle EXCEPT !.op = calls[c].op, !.reply = reply]]
Start(c, op, pc, dto, file) ==
  /\ op \in Ops
  /\ At(c, "ret")
  /\ calls' = [calls EXCEPT ![c] = [pc |-> pc, op |-> op, dto |-> dto, file |-> file,
                                    reply |-> "pending"]]
  /\ UNCHANGED <<user, profile, faults>>

\* The command that writes the profile, by operation.
Write(op) == CASE op = "create" -> "create" [] op = "replace" -> "upsert" [] OTHER -> "update"

\* "if (dto.displayName)": rename the user first, then write the profile.
NameOrWrite(op, dto) == IF Truthy(dto.displayName) THEN "name" ELSE Write(op)

CreateProfile(c) ==
  /\ \E d \in CreateDtos : Start(c, "create", "find", d, Absent)
  /\ UNCHANGED history
UpsertProfile(c) ==
  /\ \E d \in CreateDtos : Start(c, "replace", NameOrWrite("replace", d), d, Absent)
  /\ UNCHANGED history
UpdateProfile(c) ==
  /\ \E d \in UpdateDtos : Start(c, "update", "find", d, Absent)
  /\ UNCHANGED history
DeleteProfile(c) == Start(c, "delete", "delete", NoDto, Absent) /\ UNCHANGED history

Uploading == \E c \in Calls : calls[c].op = "upload" /\ ~At(c, "ret")

UploadAvatar(c) ==
  /\ c \in UploadCalls
  /\ \E f \in Files :
       /\ Start(c, "upload", "avatar", NoDto, f)
       /\ recent' = IF Uploading THEN recent \cup {f} ELSE {f}
       /\ answered' = (Uploading /\ answered)

\* PATCH users/me: one command.
UpdateMe(c) ==
  /\ "me" \in Ops
  /\ At(c, "ret")
  /\ \E d \in MeDtos :
       /\ user' = [displayName |-> Or(d.displayName, user.displayName),
                   avatar |-> Or(d.avatar, user.avatar)]
       /\ recent' = IF d.avatar = Absent THEN recent ELSE recent \cup {OrBlank(d.avatar)}
  /\ calls' = [calls EXCEPT ![c] = [Idle EXCEPT !.op = "me", !.reply = "ok"]]
  /\ UNCHANGED <<profile, answered, faults>>

\* findByUserId of createProfile and updateProfile.
Find(c) ==
  LET f == calls[c] IN
  /\ At(c, "find")
  /\ IF f.op = "create" /\ profile # Null THEN Answer(c, "conflict")
     ELSE IF f.op = "update" /\ profile = Null THEN Answer(c, "notFound")
     ELSE Goto(c, NameOrWrite(f.op, f.dto))
  /\ UNCHANGED <<user, profile, history, faults>>

Name(c) ==
  /\ At(c, "name")
  /\ user' = [user EXCEPT !.displayName = calls[c].dto.displayName]
  /\ Goto(c, Write(calls[c].op))
  /\ UNCHANGED <<profile, history, faults>>

\* create: the unique index on userId rejects a second profile.
Create(c) ==
  /\ At(c, "create")
  /\ IF profile = Null
     THEN profile' = Inserted(calls[c].dto) /\ Goto(c, "again")
     ELSE profile' = profile /\ Answer(c, "error")
  /\ UNCHANGED <<user, history, faults>>

Upsert(c) ==
  /\ At(c, "upsert")
  /\ profile' = IF profile = Null THEN Inserted(calls[c].dto) ELSE Updated(calls[c].dto)
  /\ Goto(c, "again")
  /\ UNCHANGED <<user, history, faults>>

\* findOneAndUpdate: null when the profile has been deleted since it was found.
Update(c) ==
  /\ At(c, "update")
  /\ profile' = IF profile = Null THEN Null ELSE Updated(calls[c].dto)
  /\ Goto(c, "again")
  /\ UNCHANGED <<user, history, faults>>

Delete(c) ==
  /\ At(c, "delete")
  /\ profile' = Null
  /\ Answer(c, IF profile = Null THEN "notFound" ELSE "ok")
  /\ UNCHANGED <<user, history, faults>>

\* uploadAvatar: the user first,
Avatar(c) ==
  /\ At(c, "avatar")
  /\ user' = [user EXCEPT !.avatar = calls[c].file]
  /\ Goto(c, "lookup")
  /\ UNCHANGED <<profile, history, faults>>

\* then the profile, if there is one.
Lookup(c) ==
  /\ At(c, "lookup")
  /\ Goto(c, IF profile = Null THEN "again" ELSE "sync")
  /\ UNCHANGED <<user, profile, history, faults>>

\* Mutant: the profile is synchronised only when it has no avatar of its own.
SyncOnlyBlank(c) ==
  /\ At(c, "sync")
  /\ profile' = IF profile # Null /\ profile.avatar = Blank
                THEN [profile EXCEPT !.avatar = calls[c].file] ELSE profile
  /\ Goto(c, "again")
  /\ UNCHANGED <<user, history, faults>>

Sync(c) ==
  /\ At(c, "sync")
  /\ profile' = IF profile = Null THEN Null ELSE [profile EXCEPT !.avatar = calls[c].file]
  /\ Goto(c, "again")
  /\ UNCHANGED <<user, history, faults>>

\* findById of the user, for the response.
Again(c) ==
  /\ At(c, "again")
  /\ Answer(c, "ok")
  /\ answered' = (answered \/ calls[c].op = "upload")
  /\ UNCHANGED <<user, profile, recent, faults>>

Rejects(c) ==
  /\ ~At(c, "ret")
  /\ faults < MaxFaults
  /\ faults' = faults + 1
  /\ Answer(c, "error")
  /\ UNCHANGED <<user, profile, history>>

ProfilesInit ==
  /\ user \in [displayName : Names, avatar : {Blank}]
  /\ profile \in InitProfiles
  /\ recent = {}
  /\ answered = FALSE
  /\ calls = [c \in Calls |-> Idle]
  /\ faults = 0

Request(c) ==
  \/ CreateProfile(c) \/ UpsertProfile(c) \/ UpdateProfile(c) \/ DeleteProfile(c)
  \/ UploadAvatar(c) \/ UpdateMe(c)

Handler(c) ==
  \/ Find(c) \/ Name(c) \/ Create(c) \/ Upsert(c) \/ Update(c) \/ Delete(c)
  \/ Avatar(c) \/ Lookup(c) \/ Sync(c) \/ Again(c)

ProfilesNext == \E c \in Calls : Request(c) \/ Handler(c) \/ Rejects(c)

ProfilesSpec == ProfilesInit /\ [][ProfilesNext]_profileVars

-----------------------------------------------------------------------------
(* Properties. *)

\* Every document and frame keeps its schema: null is the only value outside its own
\* that a field may hold, never undefined, and the profile's avatar not even null.
ProfilesTypeOK ==
  /\ user \in User
  /\ profile \in Profile \cup {Null}
  /\ recent \subseteq Files \cup {Blank}
  /\ answered \in BOOLEAN
  /\ calls \in [Calls -> Frame]
  /\ faults \in 0..MaxFaults

\* An avatar that an answered upload has replaced never comes back: what the profile
\* shows is the file of that upload, of one that overlapped with it, or an avatar set
\* by PATCH users/me since.  uploadAvatar writes two documents, uploads overlap, their
\* other commands fail, and the profile is made, replaced and lost meanwhile.
OldAvatarStaysGone == answered => Shown \in recent
=============================================================================
