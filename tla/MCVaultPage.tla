---------------------------- MODULE MCVaultPage ----------------------------
(***************************************************************************)
(* The instance of VaultPage for TLC: a vault with an environment dev,     *)
(* where prod may be created or come and go, and a secret beside one that  *)
(* can be created.  Only prod and the first secret are touched by others.  *)
(***************************************************************************)
EXTENDS VaultPage, TLC

CONSTANTS v1, dev, prod, s1, s2, devName, prodName

TwoEnvs == {dev, prod}
TwoSecrets == {s1, s2}
VaultOfTwo == [e \in TwoEnvs |-> v1]
NamesOfTwo == (dev :> devName) @@ (prod :> prodName)
HomesOfTwo == [s \in TwoSecrets |-> dev]
ExistingOfTwo == {dev, s1}
SharedOfTwo == {prod, s1}

\* The empty filter, and one that leaves the first secret out
FiltersOfTwo == {TwoSecrets, {s2}}
=============================================================================
