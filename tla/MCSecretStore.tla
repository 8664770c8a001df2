--------------------------- MODULE MCSecretStore ---------------------------
(***************************************************************************)
(* Instances of SecretStore for TLC: one vault with one environment, two   *)
(* secret ids that share a key name, so that the second is created only    *)
(* after the first is deleted or as a duplicate of it.                     *)
(***************************************************************************)
EXTENDS SecretStore, TLC

CONSTANTS dev, apiKey

OneEnv == [s \in Secrets |-> dev]
OneKey == [s \in Secrets |-> apiKey]

\* Requests that write, racing with rotations.
ConcurrentWrites == {"create", "update", "restore", "delete", "rotate_dek", "rewrap"}

\* The smallest sets of operations under which a metadata-only update goes wrong.
EditAndRotation == {"create", "edit", "rotate_dek"}
EditAndUpdate == {"create", "edit", "update"}

Symmetry == Permutations(Requests) \cup Permutations(Values) \cup Permutations(Secrets)
=============================================================================
