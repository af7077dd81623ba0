-------------------------------- MODULE Keys --------------------------------
(***************************************************************************)
(* What the key providers make of a master key. A key is "live", "soft"    *)
(* (revoked within a grace window: local's softRevoked, a KMS key pending  *)
(* deletion), "disabled" (a KMS key between CancelKeyDeletion and          *)
(* EnableKey) or "gone" (destroyed). A provider is "local", "vault", "kms" *)
(* or "plain", one that cannot revoke.                                     *)
(***************************************************************************)

KeyStates == {"live", "soft", "disabled", "gone"}

-----------------------------------------------------------------------------
(* The local provider. A window that has elapsed is promoted before any     *)
(* answer, so the elapsing is a step of its own here: WindowElapses.        *)

localState(s) == CASE s = "gone" -> "revoked" [] s = "soft" -> "soft" [] OTHER -> "not"
localRevokeKey(s) == "gone"
localSoftRevokeKey(s) == IF s = "gone" THEN "gone" ELSE "soft"
localUnrevokeKey(s) == IF s = "soft" THEN {"live"} ELSE {s}
localGetKey(s) == IF localState(s) = "not" THEN "ok" ELSE "revoked"

-----------------------------------------------------------------------------
(* Vault transit: a deleted key is revoked, there is no window. *)

vaultIsRevoked(s) == s = "gone"
vaultRevokeKey(s) == "gone"
vaultEncrypts(s) == s # "gone"
vaultDecryptError(s) == IF vaultIsRevoked(s) THEN "revoked" ELSE "failed"
vaultDecryptDataKey(s) == IF vaultEncrypts(s) THEN "ok" ELSE vaultDecryptError(s)

-----------------------------------------------------------------------------
(* AWS KMS: revoking schedules the deletion. *)

\* describe: only a pending deletion or a missing key counts as revoked.
kmsDescribe(s) == CASE s = "gone" -> "revoked" [] s = "soft" -> "soft" [] OTHER -> "not"
scheduleDeletion(s) == IF kmsDescribe(s) = "not" THEN "soft" ELSE s
kmsRevokeKey(s) == scheduleDeletion(s)
kmsSoftRevokeKey(s) == scheduleDeletion(s)

\* CancelKeyDeletion then EnableKey; either may fail.
kmsUnrevokeKey(s) ==
  CASE s = "soft" -> {"soft", "disabled", "live"}
    [] s = "disabled" -> {"disabled", "live"}
    [] OTHER -> {s}

\* decryptError tells a revoked key from any other failure.
kmsDecryptError(s) == IF kmsDescribe(s) # "not" THEN "revoked" ELSE "failed"
kmsDecryptDataKey(s) == IF s = "live" THEN "ok" ELSE kmsDecryptError(s)
kmsGenerateDataKey(s) == s = "live"

-----------------------------------------------------------------------------
(* The provider-independent entry points. *)

Revocable(p) == p # "plain"
RecoverableRevocable(p) == p \in {"local", "kms"}

Revoke(p, s) ==
  CASE p = "local" -> localRevokeKey(s)
    [] p = "vault" -> vaultRevokeKey(s)
    [] p = "kms" -> kmsRevokeKey(s)
    [] OTHER -> s

SoftRevoke(p, s) ==
  CASE p = "local" -> localSoftRevokeKey(s) [] p = "kms" -> kmsSoftRevokeKey(s) [] OTHER -> s

Unrevoke(p, s) ==
  CASE p = "local" -> localUnrevokeKey(s) [] p = "kms" -> kmsUnrevokeKey(s) [] OTHER -> {s}

\* Mutant: a key that can still be restored passes for a destroyed one.
SoftCountsAsRevoked(p, s) == IF s \in {"soft", "gone"} THEN "revoked" ELSE "not"

\* GetRevocationState: a provider without states answers by IsRevoked, one that
\* cannot revoke answers an error, which the callers take for not revoked.
GetRevocationState(p, s) ==
  CASE p = "local" -> localState(s)
    [] p = "kms" -> kmsDescribe(s)
    [] p = "vault" /\ vaultIsRevoked(s) -> "revoked"
    [] OTHER -> "not"

IsRevoked(p, s) == GetRevocationState(p, s) # "not"

\* "ok", "revoked" (ErrKeyRevoked) or "failed" (ErrDecryptionFailed).
DecryptDataKey(p, s) ==
  CASE p = "local" -> localGetKey(s)
    [] p = "vault" -> vaultDecryptDataKey(s)
    [] p = "kms" -> kmsDecryptDataKey(s)
    [] OTHER -> "ok"

GenerateDataKey(p, s) ==
  CASE p = "local" -> localGetKey(s) = "ok"
    [] p = "vault" -> vaultEncrypts(s)
    [] p = "kms" -> kmsGenerateDataKey(s)
    [] OTHER -> TRUE
=============================================================================
