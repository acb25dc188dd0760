SPECIFICATION ProfilesSpec
CONSTANTS
  n1 = n1 g1 = g1 b1 = b1 f1 = f1 f2 = f2
  c1 = c1 c2 = c2
  Absent = Absent
  Null = Null
  Blank = Blank
  Calls = {c1, c2}
  UploadCalls = {c1, c2}
  Names = {n1}
  Genders = {g1}
  Bios = {b1}
  Files = {f1, f2}
  CreateDtos <- MCCreateDtos
  UpdateDtos <- MCUpdateDtos
  MeDtos <- MCMeDtos
  InitProfiles <- MCInitProfiles
  Ops = {"create", "replace", "update", "delete", "upload", "me"}
  MaxFaults = 1
INVARIANT ProfilesTypeOK
INVARIANT OldAvatarStaysGone
