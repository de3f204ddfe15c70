------------------------------ MODULE License -------------------------------
(***************************************************************************)
(* The license file (grokingclawid-core/src/license.rs) and the commands   *)
(* of the CLI that write it.  A key is a payload with the vendor's         *)
(* signature; of the payload only the tier decides anything.  Whoever owns *)
(* the file may also edit it.                                              *)
(***************************************************************************)
EXTENDS Naturals

CONSTANTS
  Sold,   \* tiers for which the vendor has signed a key
  Edited  \* tiers that somebody may write into the file without a key

Tiers == {"free", "indie", "team", "enterprise"}

ASSUME LicenseAssumption == Sold \subseteq Tiers /\ Edited \subseteq Tiers

VARIABLES
  license,    \* license.json: absent, half written, or a tier with its signature
  activating, \* the key whose file `license activate` is writing
  licensed    \* history: tiers whose complete, signed key has been in the file

licenseVars == <<license, activating, licensed>>

NoFile == [tier |-> "absent", signed |-> FALSE]
Torn == [tier |-> "torn", signed |-> FALSE]
NoTier == "none"

\* LicenseLimits::for_tier, as far as the daemon asks for it
Features == [free |-> {}, indie |-> {"mesh"},
             team |-> {"mesh", "birth_mesh"}, enterprise |-> {"mesh", "birth_mesh"}]

\* validate_license_key
MutantValid(file) == file.tier \in Tiers
Valid(file) == file.tier \in Tiers /\ file.signed

\* load_license: whatever is wrong, the tier is Free.
Tier == IF Valid(license) THEN license.tier ELSE "free"

HasFeature(feature) == feature \in Features[Tier]

LicenseInit ==
  /\ license = NoFile
  /\ activating = NoTier
  /\ licensed = {}

\* activate_license: a key whose signature does not fit changes nothing; the file
\* is truncated and then written, and the process may be killed in between.
Activate(tier) ==
  /\ activating = NoTier
  /\ activating' = tier
  /\ license' = Torn
  /\ UNCHANGED licensed

Activated ==
  /\ activating # NoTier
  /\ license' = [tier |-> activating, signed |-> TRUE]
  /\ licensed' = licensed \cup {activating}
  /\ activating' = NoTier

ActivateKilled ==
  /\ activating # NoTier
  /\ activating' = NoTier
  /\ UNCHANGED <<license, licensed>>

Deactivate ==
  /\ activating = NoTier
  /\ license # NoFile
  /\ license' = NoFile
  /\ UNCHANGED <<activating, licensed>>

\* The file is written or changed by hand: the signature does not cover the tier.
Edit(tier) ==
  /\ activating = NoTier
  /\ license' = [tier |-> tier, signed |-> FALSE]
  /\ UNCHANGED <<activating, licensed>>

LicenseNext ==
  \/ \E tier \in Sold : Activate(tier)
  \/ \E tier \in Edited : Edit(tier)
  \/ Activated \/ ActivateKilled \/ Deactivate
=============================================================================
