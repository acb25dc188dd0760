---------------------------- MODULE Compatibility ----------------------------
(***************************************************************************)
(* The compatibility test of the matchmaking service (isCompatible and the *)
(* two filters it calls): pure operators on two queue entries.             *)
(*                                                                         *)
(* An entry is seen here as the three fields the test reads.  "unset"      *)
(* stands for a gender that is missing; the queue never stores one, since  *)
(* joinQueue demands a complete profile, but the filters handle it.  A     *)
(* preferred gender that is missing and the literal 'any' take the same    *)
(* branch of the code and are both "any".                                  *)
(***************************************************************************)
EXTENDS Naturals

Genders == {"male", "female", "other"}
Unset == "unset"
ChatPreferences == {"opposite", "same", "any"}
PreferredGenders == Genders \cup {"any"}

Dtos == [preference : ChatPreferences, preferredGender : PreferredGenders]

Profiles == [gender : Genders \cup {Unset},
             preference : ChatPreferences,
             preferredGender : PreferredGenders]

\* Mutant: the wish 'any' is compared like a gender.
StrictGenderFilter(e, other) == other # Unset /\ e.preferredGender = other

SatisfiesGenderFilter(e, other) ==
  \/ e.preferredGender = "any"
  \/ other # Unset /\ e.preferredGender = other

Opposite(g, h) == {g, h} = {"male", "female"}

SatisfiesChatPreference(e, other) ==
  \/ e.preference = "any"
  \/ Unset \in {e.gender, other}
  \/ e.preference = "opposite" /\ Opposite(e.gender, other)
  \/ e.preference = "same" /\ e.gender = other

IsCompatible(a, b) ==
  /\ SatisfiesGenderFilter(a, b.gender)
  /\ SatisfiesGenderFilter(b, a.gender)
  /\ SatisfiesChatPreference(a, b.gender)
  /\ SatisfiesChatPreference(b, a.gender)

-----------------------------------------------------------------------------
(* The reference definition: the set of genders an entry is willing to meet, *)
(* written down from the meaning of the two wishes and not from the code.    *)

WantedByFilter(e) ==
  IF e.preferredGender = "any" THEN Genders \cup {Unset} ELSE {e.preferredGender}

WantedByPreference(e) ==
  CASE e.preference = "any" \/ e.gender = Unset -> Genders \cup {Unset}
    [] e.preference = "same" /\ e.gender # Unset -> {e.gender, Unset}
    [] e.preference = "opposite" /\ e.gender = "male" -> {"female", Unset}
    [] e.preference = "opposite" /\ e.gender = "female" -> {"male", Unset}
    [] e.preference = "opposite" /\ e.gender = "other" -> {Unset}

Wants(e) == WantedByFilter(e) \cap WantedByPreference(e)

MutualWish(a, b) == b.gender \in Wants(a) /\ a.gender \in Wants(b)
=============================================================================
