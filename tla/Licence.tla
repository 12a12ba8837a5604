------------------------------- MODULE Licence --------------------------------
(***************************************************************************)
(* Signed licences: the public keys the server starts with (server/        *)
(* license-keys.ts), the offline check of a licence (licensing/            *)
(* verifier.ts) and the features of a tier.  A licence is what it claims   *)
(* and what is wrong with it; the signature is external.                   *)
(***************************************************************************)
EXTENDS Integers

Tiers == {"home", "advanced_user", "powerfullness"}

-----------------------------------------------------------------------------
(* The keys                                                                *)

\* validateKey: an entry is taken unless something is wrong with it, and its
\* environment is production when it has none.
ValidateKey(entry) ==
  [id |-> entry.id,
   env |-> IF entry.env = "absent" THEN "production" ELSE entry.env]
Valid(entry) == entry.fault = "none" /\ entry.env \in {"production", "development", "absent"}

\* The payload to read: that of the file, or, when there is none or it cannot
\* be read, that of the variable.
Source(file, inline) ==
  IF file.is = "payload" THEN file ELSE inline

\* loadPublicLicenseKeys: a payload that is empty, holds private material, is no JSON or
\* no list is refused as a whole, an entry by itself.
LoadPublicLicenseKeys(file, inline) ==
  LET source == Source(file, inline) IN
  IF source.is = "payload" /\ source.fault = "none"
  THEN {ValidateKey(e) : e \in {x \in source.entries : Valid(x)}}
  ELSE {}

-----------------------------------------------------------------------------
(* The check                                                               *)

Day == 1
Invalid == [state |-> "invalid", tier |-> "home"]

\* Mutant of VerifyLicense: a licence is good before its day.
VerifyLicenseEarly(licence, keys, t, allowDevKeys) ==
  LET known == \E k \in keys : k.id = licence.key /\ (k.env = "development" => allowDevKeys)
  IN  IF licence.fault # "none" \/ ~known THEN Invalid
      ELSE [state |-> "active", tier |-> licence.tier]

\* verifyLicense, at time t: what is wrong with the licence itself (its JSON,
\* shape, algorithm, signature or dates), its key (ids of keys are taken to differ),
\* and its time.
VerifyLicense(licence, keys, t, allowDevKeys) ==
  LET known == \E k \in keys : k.id = licence.key /\ (k.env = "development" => allowDevKeys)
      graceEnds == licence.expires + licence.grace * Day
  IN  IF licence.fault # "none" \/ ~known \/ t < licence.issued THEN Invalid
      ELSE [state |-> IF t <= licence.expires THEN "active"
                      ELSE IF t <= graceEnds THEN "grace" ELSE "expired",
            tier |-> IF t <= graceEnds THEN licence.tier ELSE "home"]

\* TIER_FEATURES, those that some line of the server asks for.
Features(tier) ==
  (IF tier \in {"advanced_user", "powerfullness"} THEN {"multi_router_chains"} ELSE {})
  \cup (IF tier = "powerfullness" THEN {"unlimited_router_hops"} ELSE {})

\* computeEntitlements, without the explanation.
ComputeEntitlements(status) ==
  LET tier == IF status.state \in {"active", "grace"} THEN status.tier ELSE "home"
  IN  [status |-> status, tier |-> tier, features |-> Features(tier)]
=============================================================================
