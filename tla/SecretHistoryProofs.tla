------------------------ MODULE SecretHistoryProofs ------------------------
(***************************************************************************)
(* Proofs that, as long as no metadata-only update runs, current values    *)
(* stay readable and the store implements the append-only history of       *)
(* SecretHistory; with all operations, that every request goes on to its   *)
(* end; and under what conditions metadata-only updates do no harm.        *)
(***************************************************************************)
EXTENDS SecretStoreProofs, Sequences

-----------------------------------------------------------------------------
(* What a request's step means for one secret *)

SameSecret(s) == rows'[s] = rows[s] /\ versions'[s] = versions[s]

\* Secret s appears with value v as its version 1.
FirstValue(s, v) ==
    LET ct == Encrypt(vault.dek, v) IN
    /\ rows[s].state = "absent" /\ ~NameTaken(s)
    /\ rows'[s] = [state |-> "live", ct |-> ct, version |-> 1]
    /\ DOMAIN versions[s] = {} /\ rows[s].version = 0
    /\ DOMAIN versions'[s] = {1} /\ versions'[s][1] = ct

\* Secret s gets value v as its next version.
NextValue(s, v) ==
    LET ct == Encrypt(vault.dek, v)
        n == rows[s].version + 1
    IN /\ rows[s].state = "live"
       /\ rows'[s] = [state |-> "live", ct |-> ct, version |-> n]
       /\ DOMAIN versions'[s] = DOMAIN versions[s] \cup {n} /\ n \notin DOMAIN versions[s]
       /\ versions'[s][n] = ct /\ \A m \in DOMAIN versions[s] : versions'[s][m] = versions[s][m]

SecretRemoved(s) ==
    /\ rows[s].state = "live"
    /\ rows'[s] = [rows[s] EXCEPT !.state = "deleted"]
    /\ versions'[s] = versions[s]

\* One secret at most gets a value or disappears, with a value that opens with the vault's key.
LEMMA ValueStep ==
  ASSUME "edit" \notin Operations, ValueInvariant,
         NEW r \in Requests, Start(r) \/ Serve(r) \/ Cancel(r)
  PROVE  /\ vault' = vault
         /\ \/ \A s \in Secrets : SameSecret(s)
            \/ \E s \in Secrets :
                 /\ \A t \in Secrets \ {s} : SameSecret(t)
                 /\ SecretRemoved(s) \/ \E v \in Values : FirstValue(s, v) \/ NextValue(s, v)
  <1>1. /\ TypeOK /\ KeysIdentified /\ CopiesReadable /\ HistoryContiguous /\ ValuesStored
        /\ DOMAIN rows = Secrets /\ \A s \in Secrets : rows[s] \in Rows
        /\ req[r] \in RequestRecords
    BY DEF ValueInvariant, KeyInvariant, HistoryInvariant, TypeOK
  <1>2. vault' = vault
    BY <1>1, RequestStep
  <1>3. Op(r) # "edit"
    BY DEF ValueInvariant, OperationsAllowed
  <1>4. CASE UNCHANGED <<rows, versions>>
    BY <1>2, <1>4 DEF SameSecret
  <1>5. CASE Created(r)
    <2> DEFINE s == Target(r)
               v == req[r].call.val
    <2>1. s \in Secrets /\ v \in Values
      BY <1>1, <1>5, TargetType DEF Created
    <2>2. Encrypt(req[r].key.dek, v) = Encrypt(vault.dek, v)
      BY <1>1, <1>5 DEF Created, KeysIdentified
    <2>3. /\ rows' = [rows EXCEPT ![s] =
                        [state |-> "live", ct |-> Encrypt(vault.dek, v), version |-> 1]]
          /\ versions' = [versions EXCEPT ![s] = AddVersion(@, 1, Encrypt(vault.dek, v))]
          /\ ~NameTaken(s)
      BY <1>5, <2>2 DEF Created
    <2>4. rows[s].state = "absent" /\ rows[s].version = 0
      BY <1>5, <2>1 DEF Created, ValueInvariant, HistoryInvariant, NewIdsUnused, Known
    <2>5. DOMAIN versions[s] = {}
      BY <1>1, <2>1, <2>4 DEF HistoryContiguous
    <2>6. PICK ct, n : /\ ct = Encrypt(vault.dek, v) /\ n = 1
                       /\ versions' = [versions EXCEPT ![s] = AddVersion(@, n, ct)]
      BY <2>3
    <2>7. /\ \A t \in Secrets : t # s => versions'[t] = versions[t]
          /\ DOMAIN versions'[s] = DOMAIN versions[s] \cup {n}
          /\ \A m \in DOMAIN versions'[s] : versions'[s][m] = IF m = n THEN ct ELSE versions[s][m]
      <3>1. TypeOK /\ s \in Secrets
        BY <1>1, <2>1
      <3>2. versions' = [versions EXCEPT ![s] = AddVersion(@, n, ct)]
        BY <2>6
      <3>3. QED
        BY <3>1, <3>2, AddedVersion
    <2>8. FirstValue(s, v)
      BY <1>1, <2>1, <2>3, <2>4, <2>5, <2>6, <2>7 DEF FirstValue
    <2>9. \A t \in Secrets \ {s} : SameSecret(t)
      BY <1>1, <2>3, <2>7 DEF SameSecret
    <2>10. QED
      BY <1>2, <2>1, <2>8, <2>9
  <1>6. CASE Revalued(r)
    <2> DEFINE s == Target(r)
               n == rows[s].version + 1
    <2>1. PICK v \in Values : StoredCiphertext(r) = Encrypt(vault.dek, v)
      <3>1. CASE Op(r) = "update"
        BY <1>1, <1>6, <3>1, TargetType DEF Revalued, StoredCiphertext, KeysIdentified
      <3>2. CASE Op(r) = "restore"
        <4>1. req[r].row.ct \in Ciphertexts
          BY <1>1 DEF RequestRecords
        <4>2. req[r].row.ct.dek = vault.dek /\ req[r].row.ct.val \in Values
          BY <1>1, <1>6, <3>2 DEF Revalued, CopiesReadable, ValuesStored, Readable
        <4>3. req[r].row.ct = Encrypt(vault.dek, req[r].row.ct.val)
          BY <4>1, <4>2 DEF Ciphertexts, Encrypt
        <4>4. QED
          BY <3>2, <4>2, <4>3 DEF StoredCiphertext
      <3>3. QED
        BY <1>6, <3>1, <3>2 DEF Revalued
    <2>2. s \in Secrets /\ rows[s].state = "live"
      BY <1>6 DEF Revalued, Live
    <2>3. /\ \A t \in Secrets : t # s => versions'[t] = versions[t]
          /\ DOMAIN versions'[s] = DOMAIN versions[s] \cup {n}
          /\ \A m \in DOMAIN versions'[s] :
               versions'[s][m] = IF m = n THEN StoredCiphertext(r) ELSE versions[s][m]
      BY <1>1, <1>6, AddedVersion DEF Revalued
    <2>4. n \notin DOMAIN versions[s]
      BY <1>1, <2>2 DEF HistoryContiguous, Rows
    <2>5. rows'[s] = [state |-> "live", ct |-> Encrypt(vault.dek, v), version |-> n]
      <3>1. rows'[s] = [rows[s] EXCEPT !.ct = Encrypt(vault.dek, v), !.version = n]
        BY <1>1, <1>6, <2>1, <2>2 DEF Revalued
      <3>2. QED
        BY <1>1, <2>2, <3>1 DEF Rows
    <2>6. NextValue(s, v)
      BY <2>1, <2>2, <2>3, <2>4, <2>5 DEF NextValue
    <2>7. \A t \in Secrets \ {s} : SameSecret(t)
      BY <1>1, <1>6, <2>3 DEF SameSecret, Revalued
    <2>8. QED
      BY <1>2, <2>2, <2>6, <2>7
  <1>7. CASE Removed(r)
    <2>1. SecretRemoved(Target(r)) /\ Target(r) \in Secrets
      BY <1>1, <1>7 DEF Removed, SecretRemoved, Live
    <2>2. \A t \in Secrets \ {Target(r)} : SameSecret(t)
      BY <1>1, <1>7 DEF Removed, SameSecret
    <2>3. QED
      BY <1>2, <2>1, <2>2
  <1>8. QED
    BY <1>1, <1>3, <1>4, <1>5, <1>6, <1>7, TableStep DEF Edited

-----------------------------------------------------------------------------
(* Current values stay readable *)

LEMMA ValueInit == ASSUME Init PROVE ValueInvariant
  <1>1. \A r \in Requests : Op(r) = "none"
    BY DEF Init, Op, Idle
  <1>2. \A s \in Secrets : rows[s].state = "absent" /\ rows[s].ct.val = None
                           /\ DOMAIN versions[s] = {}
    BY DEF Init, Absent, Blank
  <1>3. QED
    BY <1>1, <1>2, KeyInit, HistoryInit
       DEF ValueInvariant, OperationsAllowed, ValuesStored, CurrentReadable, NewestIsCurrent, Known

LEMMA RequestKeepsValueInvariant ==
  ASSUME "edit" \notin Operations, ValueInvariant, KeyInvariant', HistoryInvariant',
         NEW r \in Requests, Start(r) \/ Serve(r) \/ Cancel(r)
  PROVE  ValueInvariant'
  <1>1. TypeOK /\ \A s \in Secrets : rows[s] \in Rows
    BY DEF ValueInvariant, KeyInvariant, TypeOK
  <1>2. /\ vault' = vault
        /\ \A q \in Requests : q # r => req'[q] = req[q]
        /\ req'[r].phase = "write" /\ req'[r].call.op = "restore" =>
             /\ Target(r) \in Secrets
             /\ \E n \in DOMAIN versions[Target(r)] : req'[r].row.ct = versions[Target(r)][n]
    BY <1>1, RequestStep
  <1>3. OperationsAllowed'
    <2>1. req'[r].call.op \in Operations \cup {"none"}
      BY <1>1, CallStep DEF ValueInvariant, OperationsAllowed, Op
    <2>2. QED
      BY <1>2, <2>1 DEF ValueInvariant, OperationsAllowed, Op
  <1> DEFINE Good(s) == /\ \A n \in DOMAIN versions'[s] : versions'[s][n].val \in Values
                        /\ rows'[s].state = "absent" => rows'[s].ct.val = None
                        /\ rows'[s].state # "absent" =>
                             /\ rows'[s].ct.dek = vault.dek
                             /\ rows'[s].version \in DOMAIN versions'[s]
                             /\ versions'[s][rows'[s].version].val = rows'[s].ct.val
  <1> HIDE DEF Good
  <1>4. ASSUME NEW s \in Secrets PROVE Good(s)
    <2>1. /\ \A n \in DOMAIN versions[s] : versions[s][n].val \in Values
          /\ rows[s].state = "absent" => rows[s].ct.val = None
          /\ rows[s].state # "absent" =>
               /\ rows[s].ct.dek = vault.dek
               /\ rows[s].version \in DOMAIN versions[s]
               /\ versions[s][rows[s].version].val = rows[s].ct.val
      BY DEF ValueInvariant, ValuesStored, CurrentReadable, NewestIsCurrent, Known, Readable
    <2>2. CASE SameSecret(s)
      BY <2>1, <2>2 DEF SameSecret, Good
    <2>3. CASE SecretRemoved(s)
      BY <1>1, <2>1, <2>3 DEF SecretRemoved, Good, Rows
    <2>4. ASSUME NEW v \in Values, FirstValue(s, v) PROVE Good(s)
      BY <2>4 DEF FirstValue, Good, Encrypt
    <2>5. ASSUME NEW v \in Values, NextValue(s, v) PROVE Good(s)
      BY <2>1, <2>5 DEF NextValue, Good, Encrypt
    <2>6. QED
      BY <2>2, <2>3, <2>4, <2>5, ValueStep
  <1>5. ValuesStored'
    <2>1. ASSUME NEW q \in Requests, req'[q].phase = "write", req'[q].call.op = "restore"
          PROVE  req'[q].row.ct.val \in Values
      BY <1>2, <2>1 DEF ValueInvariant, ValuesStored, At, Op
    <2>2. QED
      BY <1>4, <2>1 DEF ValuesStored, Good, Known, At, Op
  <1>6. CurrentReadable' /\ NewestIsCurrent'
    BY <1>2, <1>4 DEF CurrentReadable, NewestIsCurrent, Good, Known, Readable
  <1>7. QED
    BY <1>3, <1>5, <1>6 DEF ValueInvariant

LEMMA RotationKeepsValueInvariant ==
  ASSUME ValueInvariant, KeyInvariant', HistoryInvariant', RotateVaultDEK
  PROVE  ValueInvariant'
  <1>1. /\ TypeOK /\ \A s \in Secrets : rows[s] \in Rows /\ rows[s].ct \in Ciphertexts
        /\ \A s \in Secrets : \A n \in DOMAIN versions[s] : versions[s][n] \in Ciphertexts
    BY DEF ValueInvariant, KeyInvariant, TypeOK, Rows
  <1>2. UNCHANGED req /\ vault'.dek = vault.dek + 1
    BY <1>1 DEF RotateVaultDEK, TypeOK
  <1>3. \A s \in Secrets : /\ rows'[s].version = rows[s].version
                           /\ rows'[s].state = rows[s].state
                           /\ rows'[s].ct.val = rows[s].ct.val
                           /\ rows[s].ct.dek = vault.dek => rows'[s].ct.dek = vault.dek + 1
    BY <1>1, RotatedRow DEF Reencrypt, Ciphertexts
  <1>4. \A s \in Secrets : /\ DOMAIN versions'[s] = DOMAIN versions[s]
                           /\ \A n \in DOMAIN versions[s] : versions'[s][n].val = versions[s][n].val
    BY <1>1, RotatedVersions DEF Reencrypt, Ciphertexts
  <1>5. ValuesStored' /\ OperationsAllowed'
    BY <1>2, <1>3, <1>4 DEF ValueInvariant, ValuesStored, OperationsAllowed, Known, At, Op
  <1>6. CurrentReadable' /\ NewestIsCurrent'
    BY <1>2, <1>3, <1>4 DEF ValueInvariant, CurrentReadable, NewestIsCurrent, Known, Readable
  <1>7. QED
    BY <1>5, <1>6 DEF ValueInvariant

LEMMA ValueInvariantStep ==
  ASSUME "edit" \notin Operations, ValueInvariant, [Next]_vars
  PROVE  ValueInvariant'
  <1>1. KeyInvariant' /\ HistoryInvariant'
    BY KeyStep, HistoryStep DEF ValueInvariant
  <1>2. CASE UNCHANGED <<vault.dek, rows, versions, req>>
    BY <1>1, <1>2 DEF ValueInvariant, ValuesStored, OperationsAllowed, CurrentReadable,
                      NewestIsCurrent, Known, Readable, At, Op
  <1>3. CASE UNCHANGED vars \/ RewrapVault \/ DeleteVault \/ \E e \in Envs : DeleteEnvironment(e)
    <2>1. TypeOK
      BY DEF ValueInvariant, KeyInvariant
    <2>2. vault'.dek = vault.dek
      BY <1>3, <2>1 DEF vars, RewrapVault, DeleteVault, DeleteEnvironment, TypeOK
    <2>3. QED
      BY <1>2, <1>3, <2>2 DEF vars, RewrapVault, DeleteVault, DeleteEnvironment
  <1>4. QED
    BY <1>1, <1>3, RequestKeepsValueInvariant, RotationKeepsValueInvariant DEF Next

LEMMA ValueAlways == ASSUME "edit" \notin Operations PROVE Spec => []ValueInvariant
  <1>1. Init => ValueInvariant
    BY ValueInit
  <1>2. ValueInvariant /\ [Next]_vars => ValueInvariant'
    BY ValueInvariantStep
  <1>3. QED
    BY <1>1, <1>2, PTL DEF Spec

\* Without metadata-only updates, the current value of every secret, deleted ones included,
\* opens with the vault's data key, so a rotation is always possible.
THEOREM CurrentStaysReadable ==
  ASSUME "edit" \notin Operations
  PROVE  Spec => []CurrentReadable
  <1>1. ValueInvariant => CurrentReadable
    BY DEF ValueInvariant
  <1>2. QED
    BY <1>1, ValueAlways, PTL

\* Without metadata-only updates, the newest entry of a secret's history is its current value.
THEOREM NewestStaysCurrent ==
  ASSUME "edit" \notin Operations
  PROVE  Spec => []NewestIsCurrent
  <1>1. ValueInvariant => NewestIsCurrent
    BY DEF ValueInvariant
  <1>2. QED
    BY <1>1, ValueAlways, PTL

-----------------------------------------------------------------------------
(* The store implements the append-only history *)

\* While everything is readable, what reads return is what was encrypted.
SimpleLog == [s \in Secrets |-> [n \in 1..rows[s].version |-> versions[s][n].val]]
SimpleCurrent == [s \in Secrets |-> rows[s].ct.val]
ReadsExact == HistoryLog = SimpleLog /\ HistoryCurrent = SimpleCurrent

LEMMA ReadsReturnWhatWasWritten == ValueInvariant => ReadsExact
  <1> SUFFICES ASSUME ValueInvariant PROVE ReadsExact
    OBVIOUS
  <1>1. ASSUME NEW s \in Secrets, NEW n \in 1..rows[s].version
        PROVE  VersionPlaintext(s, n) = versions[s][n].val
    BY DEF ValueInvariant, KeyInvariant, HistoryInvariant, HistoryContiguous, HistoryReadable,
           VersionPlaintext, Plaintext
  <1>2. ASSUME NEW s \in Secrets PROVE Plaintext(rows[s].ct) = rows[s].ct.val
    BY DEF ValueInvariant, CurrentReadable, ValuesStored, Known, Plaintext
  <1>3. QED
    BY <1>1, <1>2 DEF ReadsExact, HistoryLog, SimpleLog, HistoryCurrent, SimpleCurrent

LEMMA ReadsReturnWhatWasWrittenNext == ValueInvariant' => ReadsExact'
  BY ReadsReturnWhatWasWritten, PTL

LEMMA HistoryRefinesInit == ASSUME Init PROVE History!AbstractInit
  <1>1. HistoryLog = SimpleLog /\ HistoryCurrent = SimpleCurrent
    BY ValueInit, ReadsReturnWhatWasWritten DEF ReadsExact
  <1>2. \A s \in Secrets : rows[s] = [state |-> "absent", version |-> 0,
                                      ct |-> [dek |-> 0, val |-> None]]
    BY DEF Init, Absent, Blank
  <1>3. HistoryStatus = [s \in Secrets |-> "absent"] /\ SimpleCurrent = [s \in Secrets |-> None]
    BY <1>2 DEF HistoryStatus, SimpleCurrent
  <1>4. SimpleLog = [s \in Secrets |-> << >>]
    <2>1. ASSUME NEW s \in Secrets
          PROVE  [n \in 1..rows[s].version |-> versions[s][n].val] = << >>
      BY <1>2
    <2>2. QED
      BY <2>1 DEF SimpleLog
  <1>5. QED
    BY <1>1, <1>3, <1>4 DEF History!AbstractInit

\* A step that keeps every secret's value and versions is invisible.
LEMMA Invisible ==
  ASSUME ValueInvariant, ValueInvariant',
         \A s \in Secrets : /\ rows'[s].state = rows[s].state
                            /\ rows'[s].version = rows[s].version
                            /\ rows'[s].ct.val = rows[s].ct.val
                            /\ \A n \in DOMAIN versions[s] :
                                 versions'[s][n].val = versions[s][n].val
  PROVE  UNCHANGED <<HistoryStatus, HistoryLog, HistoryCurrent>>
  <1>1. /\ HistoryLog = SimpleLog /\ HistoryCurrent = SimpleCurrent
        /\ HistoryLog' = SimpleLog' /\ HistoryCurrent' = SimpleCurrent'
    BY ReadsReturnWhatWasWritten, ReadsReturnWhatWasWrittenNext DEF ReadsExact
  <1>2. HistoryStatus' = HistoryStatus /\ SimpleCurrent' = SimpleCurrent
    BY DEF HistoryStatus, SimpleCurrent
  <1>3. SimpleLog' = SimpleLog
    <2>1. ASSUME NEW s \in Secrets
          PROVE  [n \in 1..rows'[s].version |-> versions'[s][n].val]
                   = [n \in 1..rows[s].version |-> versions[s][n].val]
      BY DEF ValueInvariant, HistoryInvariant, HistoryContiguous
    <2>2. QED
      BY <2>1 DEF SimpleLog
  <1>4. QED
    BY <1>1, <1>2, <1>3

LEMMA RequestRefinesHistory ==
  ASSUME "edit" \notin Operations, ValueInvariant, ValueInvariant',
         NEW r \in Requests, Start(r) \/ Serve(r) \/ Cancel(r)
  PROVE  History!AbstractNext \/ UNCHANGED <<HistoryStatus, HistoryLog, HistoryCurrent>>
  <1>1. /\ HistoryLog = SimpleLog /\ HistoryCurrent = SimpleCurrent
        /\ HistoryLog' = SimpleLog' /\ HistoryCurrent' = SimpleCurrent'
    BY ReadsReturnWhatWasWritten, ReadsReturnWhatWasWrittenNext DEF ReadsExact
  <1>2. \A s \in Secrets : /\ rows[s] \in Rows
                           /\ DOMAIN versions[s] = 1..rows[s].version
    BY DEF ValueInvariant, HistoryInvariant, TypeOK, HistoryContiguous
  <1>3. CASE \A s \in Secrets : SameSecret(s)
    BY <1>3, Invisible DEF SameSecret
  <1>4. ASSUME NEW s \in Secrets, \A t \in Secrets \ {s} : SameSecret(t)
        PROVE  \A t \in Secrets \ {s} : /\ HistoryStatus'[t] = HistoryStatus[t]
                                        /\ SimpleCurrent'[t] = SimpleCurrent[t]
                                        /\ SimpleLog'[t] = SimpleLog[t]
    BY <1>4 DEF SameSecret, HistoryStatus, SimpleCurrent, SimpleLog
  <1>5. ASSUME NEW s \in Secrets, \A t \in Secrets \ {s} : SameSecret(t), SecretRemoved(s)
        PROVE  History!DeleteSecret(s)
    <2>1. rows'[s].state = "deleted" /\ rows'[s].version = rows[s].version
          /\ rows'[s].ct = rows[s].ct /\ versions'[s] = versions[s]
      BY <1>2, <1>5 DEF SecretRemoved, Rows
    <2>2. SimpleLog' = SimpleLog /\ SimpleCurrent' = SimpleCurrent
      BY <1>4, <1>5, <2>1 DEF SimpleLog, SimpleCurrent
    <2>3. HistoryStatus' = [HistoryStatus EXCEPT ![s] = "deleted"]
      BY <1>4, <1>5, <2>1 DEF HistoryStatus
    <2>4. HistoryStatus[s] = "live"
      BY <1>5 DEF SecretRemoved, HistoryStatus
    <2>5. QED
      BY <1>1, <2>2, <2>3, <2>4 DEF History!DeleteSecret
  <1>6. ASSUME NEW s \in Secrets, \A t \in Secrets \ {s} : SameSecret(t),
               NEW v \in Values, FirstValue(s, v)
        PROVE  History!CreateSecret(s, v)
    <2>1. /\ rows'[s].state = "live" /\ rows'[s].version = 1 /\ rows'[s].ct.val = v
          /\ versions'[s][1].val = v
      BY <1>6 DEF FirstValue, Encrypt
    <2>2. HistoryStatus' = [HistoryStatus EXCEPT ![s] = "live"]
      BY <1>4, <1>6, <2>1 DEF HistoryStatus
    <2>3. SimpleCurrent' = [SimpleCurrent EXCEPT ![s] = v]
      BY <1>4, <1>6, <2>1 DEF SimpleCurrent
    <2>4. SimpleLog' = [SimpleLog EXCEPT ![s] = <<v>>]
      <3>1. SimpleLog'[s] = [n \in 1..1 |-> versions'[s][n].val]
        BY <2>1 DEF SimpleLog
      <3>2. SimpleLog'[s] = <<v>>
        BY <2>1, <3>1
      <3>3. QED
        BY <1>4, <1>6, <3>2 DEF SimpleLog
    <2>5. HistoryStatus[s] = "absent"
      BY <1>6 DEF FirstValue, HistoryStatus
    <2>6. \A t \in Secrets : HistoryNames[t] = HistoryNames[s] => HistoryStatus[t] # "live"
      BY <1>6 DEF FirstValue, NameTaken, Live, HistoryNames, HistoryStatus
    <2>7. QED
      BY <1>1, <2>2, <2>3, <2>4, <2>5, <2>6 DEF History!CreateSecret
  <1>7. ASSUME NEW s \in Secrets, \A t \in Secrets \ {s} : SameSecret(t),
               NEW v \in Values, NextValue(s, v)
        PROVE  History!ChangeValue(s, v)
    <2> DEFINE n == rows[s].version
    <2>1. n \in Nat /\ DOMAIN versions[s] = 1..n
      BY <1>2 DEF Rows
    <2>2. /\ rows'[s].state = "live" /\ rows'[s].version = n + 1 /\ rows'[s].ct.val = v
          /\ versions'[s][n + 1].val = v
          /\ \A m \in 1..n : versions'[s][m] = versions[s][m]
      BY <1>7, <2>1 DEF NextValue, Encrypt
    <2>3. HistoryStatus[s] = "live" /\ HistoryStatus' = HistoryStatus
      BY <1>4, <1>7, <2>2 DEF NextValue, HistoryStatus
    <2>4. SimpleCurrent' = [SimpleCurrent EXCEPT ![s] = v]
      BY <1>4, <1>7, <2>2 DEF SimpleCurrent
    <2>5. SimpleLog' = [SimpleLog EXCEPT ![s] = Append(@, v)]
      <3>1. SimpleLog[s] = [m \in 1..n |-> versions[s][m].val]
        BY DEF SimpleLog
      <3>2. SimpleLog'[s] = [m \in 1..(n + 1) |-> versions'[s][m].val]
        BY <2>2 DEF SimpleLog
      <3>3. SimpleLog'[s] = Append(SimpleLog[s], v)
        <4>1. \A m \in 1..n : versions[s][m].val \in Values
          BY <2>1 DEF ValueInvariant, ValuesStored
        <4>2. SimpleLog[s] \in Seq(Values) /\ Len(SimpleLog[s]) = n
          BY <2>1, <3>1, <4>1
        <4>3. Append(SimpleLog[s], v) = [m \in 1..(n + 1) |-> IF m = n + 1 THEN v ELSE SimpleLog[s][m]]
          BY <2>1, <4>2
        <4>4. QED
          BY <2>1, <2>2, <3>1, <3>2, <4>3
      <3>4. QED
        BY <1>4, <1>7, <3>3 DEF SimpleLog
    <2>6. QED
      BY <1>1, <2>3, <2>4, <2>5 DEF History!ChangeValue
  <1>8. QED
    BY <1>3, <1>5, <1>6, <1>7, ValueStep DEF History!AbstractNext

LEMMA NextRefinesHistory ==
  ASSUME "edit" \notin Operations, ValueInvariant, ValueInvariant', [Next]_vars
  PROVE  [History!AbstractNext]_(History!abstractVars)
  <1>1. /\ TypeOK
        /\ \A s \in Secrets : rows[s].ct \in Ciphertexts
        /\ \A s \in Secrets : \A n \in DOMAIN versions[s] : versions[s][n] \in Ciphertexts
    BY DEF ValueInvariant, KeyInvariant, TypeOK, Rows
  <1>2. SUFFICES History!AbstractNext \/ UNCHANGED <<HistoryStatus, HistoryLog, HistoryCurrent>>
    BY DEF History!abstractVars
  <1>3. CASE RotateVaultDEK
    <2>1. \A s \in Secrets : /\ rows'[s].state = rows[s].state
                             /\ rows'[s].version = rows[s].version
                             /\ rows'[s].ct.val = rows[s].ct.val
      BY <1>1, <1>3, RotatedRow DEF Reencrypt, Ciphertexts
    <2>2. \A s \in Secrets : \A n \in DOMAIN versions[s] : versions'[s][n].val = versions[s][n].val
      BY <1>1, <1>3, RotatedVersions DEF Reencrypt, Ciphertexts
    <2>3. QED
      BY <2>1, <2>2, Invisible
  <1>4. CASE UNCHANGED vars \/ RewrapVault \/ DeleteVault \/ \E e \in Envs : DeleteEnvironment(e)
    <2>1. UNCHANGED <<rows, versions>>
      BY <1>4 DEF vars, RewrapVault, DeleteVault, DeleteEnvironment
    <2>2. QED
      BY <2>1, Invisible
  <1>5. QED
    BY <1>3, <1>4, RequestRefinesHistory DEF Next

\* Without metadata-only updates the store implements SecretHistory: requests, retries,
\* rotations, re-wraps and deletions of containers look like an append-only log of readable
\* values for each secret.
THEOREM StoreImplementsHistory ==
  ASSUME "edit" \notin Operations
  PROVE  Spec => ImplementsHistory
  <1>1. Init => History!AbstractInit
    BY HistoryRefinesInit
  <1>2. ValueInvariant /\ ValueInvariant' /\ [Next]_vars
          => [History!AbstractNext]_(History!abstractVars)
    BY NextRefinesHistory
  <1>3. QED
    BY <1>1, <1>2, ValueAlways, PTL DEF Spec, ImplementsHistory, History!AbstractSpec
-----------------------------------------------------------------------------
(* Every attempt that is given up is paid for by a wrap of the key *)

\* The vault's key has been wrapped once for every attempt that request r has given up since
\* it arrived, and not only after the key that the present attempt works with was read; a
\* value that is about to be revealed opens unless the key has been wrapped once more.
AttemptPaid(r) ==
    LET spent == began[r] + req[r].tries IN
    /\ spent <= vault.wrap
    /\ req[r].phase \in {"version", "list", "write"} => spent <= req[r].key.wrap
    /\ At(r, "env") => Op(r) \in {"create", "export"}
    /\ At(r, "vault") /\ Op(r) = "reveal"
         => Readable(req[r].row.ct, vault.dek) \/ spent < vault.wrap
    /\ req[r].answer = "key_changed" => began[r] + MaxAttempts <= vault.wrap

AttemptInvariant == ValueInvariant /\ \A r \in Requests : AttemptPaid(r)

\* The types that the arithmetic of AttemptPaid needs.
LEMMA AttemptNumbers ==
  ASSUME ValueInvariant, NEW r \in Requests
  PROVE  /\ vault.wrap \in Nat /\ vault.dek \in Nat /\ began[r] \in Nat
         /\ req[r].tries \in Nat /\ req[r].key.wrap \in Nat /\ MaxAttempts \in Nat
         /\ DOMAIN req = Requests /\ DOMAIN began = Requests
         /\ req[r] \in [call : Calls, phase : Phases, row : [ct : Ciphertexts, version : Nat],
                        key : [wrap : Nat, dek : Nat], tries : Nat, answer : Answers]
  BY ConstantsAssumption DEF ValueInvariant, KeyInvariant, TypeOK, RequestRecords

LEMMA AnswerPaid ==
  ASSUME AttemptInvariant, NEW r \in Requests, NEW a, Answer(r, a),
         UNCHANGED <<vault, began>>,
         a = "key_changed" => began[r] + MaxAttempts <= vault.wrap
  PROVE  AttemptPaid(r)'
  <1>1. /\ req'[r].phase = "done" /\ req'[r].tries = 0 /\ req'[r].answer = a
        /\ began[r] <= vault.wrap
    BY AttemptNumbers DEF AttemptInvariant, AttemptPaid, Answer, Idle
  <1>2. QED
    BY <1>1, AttemptNumbers DEF AttemptInvariant, AttemptPaid, At

\* A retry costs one attempt.
LEMMA RetryPaid ==
  ASSUME AttemptInvariant, NEW r \in Requests, Retry(r), UNCHANGED <<vault, began>>,
         began[r] + req[r].tries < vault.wrap
  PROVE  AttemptPaid(r)'
  <1>1. CASE req[r].tries + 1 < MaxAttempts
    <2>1. /\ req'[r].phase = FirstRead(Op(r)) /\ req'[r].tries = req[r].tries + 1
          /\ req'[r].call = req[r].call /\ req'[r].answer = req[r].answer
      BY <1>1, AttemptNumbers DEF AttemptInvariant, Retry
    <2>2. /\ req'[r].phase \in {"secret", "vault"}
          /\ req'[r].phase = "vault" => req'[r].call.op # "reveal"
      BY <2>1 DEF FirstRead, Op
    <2>3. QED
      BY <2>1, <2>2, AttemptNumbers DEF AttemptInvariant, AttemptPaid, At, Op
  <1>2. CASE ~(req[r].tries + 1 < MaxAttempts)
    <2>1. Answer(r, "key_changed")
      BY <1>2 DEF Retry
    <2>2. began[r] + MaxAttempts <= vault.wrap
      BY <1>2, AttemptNumbers DEF AttemptInvariant
    <2>3. QED
      BY <2>1, <2>2, AnswerPaid
  <1>3. QED
    BY <1>1, <1>2

\* A key that the vault no longer has was wrapped earlier.
LEMMA OldKeyIsEarlier ==
  ASSUME ValueInvariant, NEW r \in Requests,
         ~KeyUnchanged(r) \/ req[r].key.dek # vault.dek
  PROVE  req[r].key.wrap < vault.wrap
  BY AttemptNumbers DEF ValueInvariant, KeyInvariant, KeysIdentified, KeyUnchanged

LEMMA RequestKeepsAttemptPaid ==
  ASSUME "edit" \notin Operations, AttemptInvariant,
         NEW r \in Requests, Start(r) \/ Serve(r) \/ Cancel(r)
  PROVE  AttemptPaid(r)'
  <1>1. /\ ValueInvariant /\ AttemptPaid(r) /\ TypeOK
        /\ CurrentReadable /\ HistoryReadable
    BY DEF AttemptInvariant, ValueInvariant, KeyInvariant
  <1>2. /\ vault.wrap \in Nat /\ began[r] \in Nat /\ req[r].tries \in Nat
        /\ req[r].key.wrap \in Nat /\ DOMAIN req = Requests /\ DOMAIN began = Requests
        /\ req[r] \in [call : Calls, phase : Phases, row : [ct : Ciphertexts, version : Nat],
                       key : [wrap : Nat, dek : Nat], tries : Nat, answer : Answers]
    BY <1>1, AttemptNumbers
  <1>3. vault' = vault
    BY <1>1, RequestStep
  <1>4. ASSUME UNCHANGED began, NEW a, a # "key_changed", Answer(r, a) PROVE AttemptPaid(r)'
    BY <1>3, <1>4, AnswerPaid
  <1>5. ASSUME UNCHANGED began, Retry(r),
               began[r] + req[r].tries < vault.wrap
        PROVE  AttemptPaid(r)'
    BY <1>3, <1>5, RetryPaid
  <1>6. CASE Cancel(r) \/ Reply(r)
    <2>1. req'[r] = Idle /\ began'[r] = 0
      BY <1>2, <1>6 DEF Cancel, Reply
    <2>2. QED
      BY <1>2, <1>3, <2>1 DEF AttemptPaid, Idle, At
  <1>7. CASE Start(r)
    <2>1. PICK c \in PossibleCalls :
            req' = [req EXCEPT ![r] = [Idle EXCEPT !.call = c,
                   !.phase = IF c.op \in {"create", "export"} THEN "env" ELSE FirstRead(c.op)]]
      BY <1>7 DEF Start
    <2>2. /\ req'[r].call = c /\ req'[r].tries = 0 /\ req'[r].answer = "none"
          /\ req'[r].phase = IF c.op \in {"create", "export"} THEN "env" ELSE FirstRead(c.op)
          /\ began'[r] = vault.wrap
      BY <1>2, <1>7, <2>1 DEF Start, Idle
    <2>3. /\ req'[r].phase \in {"env", "secret", "vault"}
          /\ req'[r].phase = "env" => c.op \in {"create", "export"}
          /\ req'[r].phase = "vault" => c.op # "reveal"
      BY <2>2 DEF FirstRead
    <2>4. QED
      BY <1>2, <1>3, <2>2, <2>3 DEF AttemptPaid, At, Op
  <1>8. CASE ReadEnv(r)
    <2>1. CASE req' = [req EXCEPT ![r].phase = "vault"]
      <3>1. req'[r] = [req[r] EXCEPT !.phase = "vault"] /\ UNCHANGED began
        BY <1>2, <1>8, <2>1 DEF ReadEnv
      <3>2. req[r].call.op \in {"create", "export"}
        BY <1>1, <1>8 DEF ReadEnv, AttemptPaid, Op
      <3>3. QED
        BY <1>1, <1>2, <1>3, <3>1, <3>2 DEF AttemptPaid, At, Op
    <2>2. QED
      BY <1>4, <1>8, <2>1 DEF ReadEnv
  <1>9. CASE ReadSecret(r)
    <2> DEFINE s == Target(r)
    <2>1. CASE Live(s)
      <3>1. PICK row : /\ row = [ct |-> rows[s].ct, version |-> rows[s].version]
                       /\ req' = [req EXCEPT ![r].phase = "vault", ![r].row = row]
        BY <1>9, <2>1 DEF ReadSecret
      <3>2. req'[r] = [req[r] EXCEPT !.phase = "vault", !.row = row] /\ UNCHANGED began
        BY <1>2, <1>9, <3>1 DEF ReadSecret
      <3>3. Readable(row.ct, vault.dek)
        <4>1. s \in Secrets
          BY <1>1, <1>9, TargetType DEF ReadSecret
        <4>2. QED
          BY <1>1, <2>1, <3>1, <4>1 DEF CurrentReadable, Known, Live
      <3>4. QED
        BY <1>1, <1>2, <1>3, <3>2, <3>3 DEF AttemptPaid, At, Op
    <2>2. QED
      BY <1>4, <1>9, <2>1 DEF ReadSecret
  <1>10. CASE ReadVault(r)
    <2>1. UNCHANGED began /\ At(r, "vault")
      BY <1>1, <1>10 DEF ReadVault
    <2> DEFINE key == [wrap |-> vault.wrap, dek |-> vault.dek]
    <2>2. CASE /\ Op(r) # "reveal"
               /\ req' = [req EXCEPT ![r].phase = AfterVault(Op(r)), ![r].key = key]
      <3>1. req'[r] = [req[r] EXCEPT !.phase = AfterVault(Op(r)), !.key = key]
        BY <1>2, <2>2
      <3>2. AfterVault(Op(r)) \in {"version", "list", "write"}
        BY DEF AfterVault
      <3>3. QED
        BY <1>1, <1>2, <1>3, <2>1, <3>1, <3>2 DEF AttemptPaid, At, Op
    <2>3. CASE Op(r) = "reveal" /\ Decrypt(r, req[r].row.ct, key)
      <3>1. CASE Readable(req[r].row.ct, vault.dek)
        BY <1>4, <2>1, <2>3, <3>1 DEF Decrypt
      <3>2. CASE ~Readable(req[r].row.ct, vault.dek)
        BY <1>1, <1>5, <2>1, <2>3, <3>2 DEF Decrypt, AttemptPaid
      <3>3. QED
        BY <3>1, <3>2
    <2>4. QED
      BY <1>4, <1>10, <2>1, <2>2, <2>3 DEF ReadVault
  <1>11. CASE ReadVersionToRestore(r)
    <2>1. ASSUME NEW ct, req' = [req EXCEPT ![r].phase = "write", ![r].row.ct = ct]
          PROVE  AttemptPaid(r)'
      <3>1. /\ req'[r].phase = "write" /\ req'[r].call = req[r].call
            /\ req'[r].key = req[r].key /\ req'[r].tries = req[r].tries
            /\ req'[r].answer = req[r].answer
        BY <1>2, <2>1
      <3>2. UNCHANGED began /\ At(r, "version")
        BY <1>11 DEF ReadVersionToRestore
      <3>3. QED
        BY <1>1, <1>2, <1>3, <3>1, <3>2 DEF AttemptPaid, At, Op
    <2>2. QED
      BY <1>4, <1>11, <2>1 DEF ReadVersionToRestore
  <1>12. ASSUME req[r].phase \in {"version", "list", "write"},
                ~KeyUnchanged(r) \/ req[r].key.dek # vault.dek, UNCHANGED began, Retry(r)
         PROVE  AttemptPaid(r)'
    <2>1. req[r].key.wrap < vault.wrap
      BY <1>1, <1>12, OldKeyIsEarlier
    <2>2. began[r] + req[r].tries <= req[r].key.wrap
      BY <1>1, <1>12 DEF AttemptPaid
    <2>3. QED
      BY <1>2, <1>5, <1>12, <2>1, <2>2
  <1>13. CASE ReadVersionToReveal(r)
    <2> DEFINE n == req[r].call.number
               history == versions[Target(r)]
    <2>1. /\ UNCHANGED began /\ At(r, "version")
          /\ Target(r) \in Secrets
      BY <1>1, <1>13, TargetType DEF ReadVersionToReveal
    <2>2. CASE n \in DOMAIN history /\ Decrypt(r, history[n], req[r].key)
      <3>1. Readable(history[n], vault.dek)
        BY <1>1, <2>1, <2>2 DEF HistoryReadable
      <3>2. CASE Readable(history[n], req[r].key.dek)
        BY <1>4, <2>1, <2>2, <3>2 DEF Decrypt
      <3>3. CASE ~Readable(history[n], req[r].key.dek)
        BY <1>12, <2>1, <2>2, <3>1, <3>3 DEF Decrypt, Readable, At
      <3>4. QED
        BY <3>2, <3>3
    <2>3. QED
      BY <1>4, <1>13, <2>1, <2>2 DEF ReadVersionToReveal
  <1>14. CASE List(r)
    <2>1. UNCHANGED began /\ At(r, "list")
      BY <1>1, <1>14 DEF List
    <2>2. CASE Retry(r) /\ ~(\A s \in Secrets : Live(s) /\ EnvOf[s] = Target(r)
                                                  => Readable(rows[s].ct, req[r].key.dek))
      <3>1. PICK s \in Secrets : Live(s) /\ ~Readable(rows[s].ct, req[r].key.dek)
        BY <2>2
      <3>2. Readable(rows[s].ct, vault.dek)
        BY <1>1, <3>1 DEF CurrentReadable, Known, Live
      <3>3. QED
        BY <1>12, <2>1, <2>2, <3>1, <3>2 DEF Readable, At
    <2>3. QED
      BY <1>4, <1>14, <2>1, <2>2 DEF List
  <1>15. CASE WriteCreate(r) \/ WriteUpdate(r)
    <2>1. UNCHANGED began /\ At(r, "write")
      BY <1>1, <1>15 DEF WriteCreate, WriteUpdate
    <2>2. CASE ~KeyUnchanged(r) /\ Retry(r)
      BY <1>12, <2>1, <2>2 DEF At
    <2>3. QED
      BY <1>4, <1>15, <2>1, <2>2 DEF WriteCreate, WriteUpdate
  <1>16. CASE WriteDelete(r) \/ WriteRename(r)
    BY <1>4, <1>16 DEF WriteDelete, WriteRename
  <1>17. QED
    BY <1>6, <1>7, <1>8, <1>9, <1>10, <1>11, <1>13, <1>14, <1>15, <1>16 DEF Serve

LEMMA AttemptInvariantStep ==
  ASSUME "edit" \notin Operations, AttemptInvariant, [Next]_vars
  PROVE  AttemptInvariant'
  <1>1. ValueInvariant /\ ValueInvariant' /\ TypeOK
    BY ValueInvariantStep DEF AttemptInvariant, ValueInvariant, KeyInvariant
  <1> SUFFICES ASSUME NEW q \in Requests PROVE AttemptPaid(q)'
    BY <1>1 DEF AttemptInvariant
  <1>2. AttemptPaid(q)
    BY DEF AttemptInvariant
  <1>3. CASE \E r \in Requests : Start(r) \/ Serve(r) \/ Cancel(r)
    <2>1. PICK r \in Requests : Start(r) \/ Serve(r) \/ Cancel(r)
      BY <1>3
    <2>2. CASE q # r
      <3>1. req'[q] = req[q] /\ vault' = vault
        BY <1>1, <2>1, <2>2, RequestStep
      <3>2. began'[q] = began[q]
        BY <1>1, <2>1, <2>2, AttemptNumbers DEF Start, Serve, Cancel, ReadEnv, ReadSecret,
           ReadVault, ReadVersionToRestore, ReadVersionToReveal, List, WriteCreate, WriteUpdate,
           WriteDelete, WriteRename, Reply
      <3>3. QED
        BY <1>2, <3>1, <3>2 DEF AttemptPaid, At, Op
    <2>3. QED
      BY <2>1, <2>2, RequestKeepsAttemptPaid
  <1>4. CASE RotateVaultDEK \/ RewrapVault
    <2>1. UNCHANGED <<req, began>> /\ vault'.wrap = vault.wrap + 1
      BY <1>1, <1>4 DEF RotateVaultDEK, RewrapVault, TypeOK
    <2>2. QED
      BY <1>1, <1>2, <2>1, AttemptNumbers DEF AttemptPaid, At, Op
  <1>5. CASE UNCHANGED vars \/ DeleteVault \/ \E e \in Envs : DeleteEnvironment(e)
    <2>1. /\ UNCHANGED <<req, began>>
          /\ vault'.wrap = vault.wrap /\ vault'.dek = vault.dek
      BY <1>1, <1>5 DEF vars, DeleteVault, DeleteEnvironment, TypeOK
    <2>2. QED
      BY <1>2, <2>1 DEF AttemptPaid, At, Op
  <1>6. QED
    BY <1>3, <1>4, <1>5 DEF Next

\* Without metadata-only updates, a request is only told that the key changed when the vault's
\* key was wrapped again during each of its MaxAttempts attempts: no retry works with anything
\* that an earlier attempt had read.
THEOREM OnlyKeyChangesEndRetries ==
  ASSUME "edit" \notin Operations
  PROVE  Spec => []GivesUpOnlyAfterKeyChanges
  <1>1. Init => AttemptInvariant
    <2> SUFFICES ASSUME Init PROVE AttemptInvariant
      OBVIOUS
    <2>1. ValueInvariant
      BY ValueInit
    <2>2. ASSUME NEW r \in Requests PROVE AttemptPaid(r)
      BY DEF Init, Idle, AttemptPaid, At
    <2>3. QED
      BY <2>1, <2>2 DEF AttemptInvariant
  <1>2. AttemptInvariant /\ [Next]_vars => AttemptInvariant'
    BY AttemptInvariantStep
  <1>3. AttemptInvariant => GivesUpOnlyAfterKeyChanges
    <2> SUFFICES ASSUME AttemptInvariant, NEW r \in Requests, req[r].answer = "key_changed"
                 PROVE  vault.wrap >= began[r] + MaxAttempts
      BY DEF GivesUpOnlyAfterKeyChanges
    <2>1. QED
      BY AttemptNumbers DEF AttemptInvariant, AttemptPaid
  <1>4. QED
    BY <1>1, <1>2, <1>3, PTL DEF Spec

-----------------------------------------------------------------------------
(* Every request gets closer to its answer *)

\* A request record q is in a phase that one of the service's statements serves, in an attempt
\* that is one of MaxAttempts.
ServedPhase(q) ==
    /\ q.phase = "env" => q.call.op \in {"create", "export"}
    /\ q.phase = "version" => q.call.op \in {"restore", "reveal_version"}
    /\ q.phase = "list" => q.call.op = "export"
    /\ q.phase = "write" =>
         q.call.op \in {"create", "update", "edit", "restore", "delete", "rename"}
    /\ q.phase \notin {"idle", "done"} => q.tries < MaxAttempts

EveryPhaseServed == \A r \in Requests : ServedPhase(req[r])

\* The statements an attempt has left, at most, from each phase on.
StatementsLeft(phase) ==
    CASE phase = "env" -> 5
      [] phase = "secret" -> 4
      [] phase = "vault" -> 3
      [] phase = "version" -> 2
      [] OTHER -> 1

\* The steps that the request has left, at most, its later attempts and the reply included.
StepsLeft(q) ==
    IF q.phase = "idle" THEN 0
    ELSE IF q.phase = "done" THEN 1
    ELSE (MaxAttempts - q.tries) * 5 + StatementsLeft(q.phase)

\* Every statement of a request, and only the request's own statements and its cancellation,
\* bring it closer to its end; nothing but its arrival takes it further away.
RequestsAdvance ==
    [][\A r \in Requests :
         /\ Serve(r) \/ Cancel(r) => StepsLeft(req'[r]) < StepsLeft(req[r])
         /\ StepsLeft(req'[r]) > StepsLeft(req[r]) => Start(r)]_vars

LEMMA RequestFields ==
  ASSUME TypeOK, NEW r \in Requests
  PROVE  /\ DOMAIN req = Requests /\ MaxAttempts \in Nat \ {0}
         /\ req[r] \in [call : Calls, phase : Phases, row : [ct : Ciphertexts, version : Nat],
                        key : [wrap : Nat, dek : Nat], tries : Nat, answer : Answers]
         /\ req[r].call.op = "none" => req[r].phase \in {"idle", "done"}
         /\ req[r].call.op \in AllOperations \cup {"none"}
         /\ req[r].phase = "secret" => FirstRead(req[r].call.op) = "secret"
  <1>1. req[r] \in RequestRecords
    BY DEF TypeOK
  <1>2. req[r].call \in Calls
    BY <1>1 DEF RequestRecords
  <1>3. req[r].call.op \in AllOperations \cup {"none"}
    BY <1>2 DEF Calls, SecretCall, AllOperations, SecretWrites, SecretReads
  <1>4. QED
    BY <1>1, <1>3, ConstantsAssumption DEF TypeOK, RequestRecords

\* What a statement of a request in progress does: it advances the attempt, ends it for another
\* one, or answers.
LEMMA StatementAdvances ==
  ASSUME TypeOK, EveryPhaseServed, NEW r \in Requests, Serve(r)
  PROVE  ServedPhase(req'[r]) /\ StepsLeft(req'[r]) < StepsLeft(req[r])
  <1> DEFINE Effect == ServedPhase(req'[r]) /\ StepsLeft(req'[r]) < StepsLeft(req[r])
  <1> HIDE DEF Effect
  <1> SUFFICES Effect
    BY DEF Effect
  <1>1. /\ DOMAIN req = Requests /\ MaxAttempts \in Nat \ {0}
        /\ req[r] \in [call : Calls, phase : Phases, row : [ct : Ciphertexts, version : Nat],
                       key : [wrap : Nat, dek : Nat], tries : Nat, answer : Answers]
        /\ req[r].call.op = "none" => req[r].phase \in {"idle", "done"}
        /\ req[r].call.op \in AllOperations \cup {"none"}
        /\ req[r].phase = "secret" => FirstRead(req[r].call.op) = "secret"
        /\ ServedPhase(req[r])
    BY RequestFields DEF EveryPhaseServed
  <1>2. ASSUME req[r].phase \notin {"idle", "done"}
        PROVE  /\ req[r].tries \in Nat /\ req[r].tries < MaxAttempts
               /\ StepsLeft(req[r]) = (MaxAttempts - req[r].tries) * 5 + StatementsLeft(req[r].phase)
               /\ StatementsLeft(req[r].phase) \in 1..5
    BY <1>1, <1>2 DEF ServedPhase, StepsLeft, StatementsLeft
  <1>3. ASSUME NEW a, Answer(r, a), req[r].phase \notin {"idle", "done"} PROVE Effect
    <2>1. req'[r].phase = "done"
      BY <1>1, <1>3 DEF Answer, Idle
    <2>2. StepsLeft(req[r]) > 1
      BY <1>1, <1>2, <1>3
    <2>3. QED
      BY <2>1, <2>2 DEF Effect, ServedPhase, StepsLeft
  <1>4. ASSUME Retry(r), req[r].phase \notin {"idle", "done"} PROVE Effect
    <2>1. CASE req[r].tries + 1 < MaxAttempts
      <3>1. /\ req'[r].phase = FirstRead(Op(r)) /\ req'[r].tries = req[r].tries + 1
            /\ req'[r].call = req[r].call
        BY <1>1, <1>4, <2>1 DEF Retry
      <3>2. req'[r].phase \in {"secret", "vault"} /\ StatementsLeft(req'[r].phase) \in 3..4
        BY <3>1 DEF FirstRead, StatementsLeft
      <3>3. StepsLeft(req'[r])
              = (MaxAttempts - (req[r].tries + 1)) * 5 + StatementsLeft(req'[r].phase)
        BY <3>1, <3>2 DEF StepsLeft
      <3>4. StepsLeft(req'[r]) < StepsLeft(req[r])
        BY <1>1, <1>2, <1>4, <3>2, <3>3
      <3>5. QED
        BY <2>1, <3>1, <3>2, <3>4 DEF Effect, ServedPhase
    <2>2. QED
      BY <1>3, <1>4, <2>1 DEF Retry
  <1>5. ASSUME NEW next \in Phases \ {"idle", "done"}, req[r].phase \notin {"idle", "done"},
               req'[r].phase = next, req'[r].tries = req[r].tries, req'[r].call = req[r].call,
               StatementsLeft(next) < StatementsLeft(req[r].phase), ServedPhase(req'[r])
        PROVE  Effect
    <2>1. StatementsLeft(next) \in 1..5
      BY DEF StatementsLeft
    <2>2. StepsLeft(req'[r]) = (MaxAttempts - req[r].tries) * 5 + StatementsLeft(next)
      BY <1>5 DEF StepsLeft
    <2>3. QED
      BY <1>1, <1>2, <1>5, <2>1, <2>2 DEF Effect
  <1>6. CASE ReadEnv(r) \/ ReadSecret(r)
    <2>1. ASSUME NEW row, \/ req' = [req EXCEPT ![r].phase = "vault"]
                          \/ req' = [req EXCEPT ![r].phase = "vault", ![r].row = row],
                 req[r].phase \in {"env", "secret"}
          PROVE  Effect
      <3>1. /\ req'[r].phase = "vault" /\ req'[r].tries = req[r].tries
            /\ req'[r].call = req[r].call
        BY <1>1, <2>1
      <3>2. ServedPhase(req'[r])
        BY <1>1, <2>1, <3>1 DEF ServedPhase
      <3>3. QED
        BY <1>5, <2>1, <3>1, <3>2 DEF StatementsLeft, Phases
    <2>2. QED
      BY <1>3, <1>6, <2>1 DEF ReadEnv, ReadSecret, At
  <1>7. CASE ReadVault(r)
    <2>1. ASSUME NEW key, req' = [req EXCEPT ![r].phase = AfterVault(Op(r)), ![r].key = key],
                 req[r].phase = "vault", Op(r) # "reveal"
          PROVE  Effect
      <3>1. /\ req'[r].phase = AfterVault(Op(r)) /\ req'[r].tries = req[r].tries
            /\ req'[r].call = req[r].call
        BY <1>1, <2>1
      <3>2. /\ AfterVault(Op(r)) \in Phases \ {"idle", "done"}
            /\ StatementsLeft(AfterVault(Op(r))) < 3
        BY DEF AfterVault, StatementsLeft, Phases
      <3>3. ServedPhase(req'[r])
        <4>1. Op(r) = req[r].call.op /\ Op(r) \in AllOperations
          BY <1>1, <2>1 DEF Op
        <4>2. Op(r) \in {"create", "update", "edit", "restore", "reveal_version", "export",
                         "delete", "rename"}
                \/ Op(r) \in {"rotate_dek", "rewrap", "delete_env", "delete_vault", "cancel"}
          BY <2>1, <4>1 DEF AllOperations, SecretWrites, SecretReads
        <4>3. Op(r) \notin {"rotate_dek", "rewrap", "delete_env", "delete_vault", "cancel"}
          BY <1>1 DEF Op, Calls, SecretCall
        <4>4. QED
          BY <1>1, <2>1, <3>1, <4>1, <4>2, <4>3 DEF ServedPhase, AfterVault
      <3>4. QED
        BY <1>5, <2>1, <3>1, <3>2, <3>3 DEF StatementsLeft
    <2>2. QED
      BY <1>3, <1>4, <1>7, <2>1 DEF ReadVault, Decrypt, At
  <1>8. CASE ReadVersionToRestore(r)
    <2>1. ASSUME NEW ct, req' = [req EXCEPT ![r].phase = "write", ![r].row.ct = ct],
                 req[r].phase = "version", Op(r) = "restore"
          PROVE  Effect
      <3>1. /\ req'[r].phase = "write" /\ req'[r].tries = req[r].tries
            /\ req'[r].call = req[r].call
        BY <1>1, <2>1
      <3>2. ServedPhase(req'[r])
        BY <1>1, <2>1, <3>1 DEF ServedPhase, Op
      <3>3. QED
        BY <1>5, <2>1, <3>1, <3>2 DEF StatementsLeft, Phases
    <2>2. QED
      BY <1>3, <1>8, <2>1 DEF ReadVersionToRestore, At
  <1>9. CASE ReadVersionToReveal(r) \/ List(r) \/ WriteCreate(r) \/ WriteUpdate(r)
              \/ WriteDelete(r) \/ WriteRename(r)
    BY <1>3, <1>4, <1>9 DEF ReadVersionToReveal, Decrypt, List, WriteCreate, WriteUpdate,
                            WriteDelete, WriteRename, At
  <1>10. CASE Reply(r)
    BY <1>1, <1>10 DEF Reply, At, Idle, Effect, ServedPhase, StepsLeft
  <1>11. QED
    BY <1>6, <1>7, <1>8, <1>9, <1>10 DEF Serve

\* An arrival is served from its first read; a cancelled request has nothing left to do.
LEMMA ArrivalIsServed ==
  ASSUME TypeOK, EveryPhaseServed, NEW r \in Requests, Start(r) \/ Cancel(r)
  PROVE  /\ ServedPhase(req'[r])
         /\ Cancel(r) => StepsLeft(req'[r]) < StepsLeft(req[r])
  <1>1. /\ DOMAIN req = Requests /\ MaxAttempts \in Nat \ {0}
        /\ req[r].tries \in Nat /\ ServedPhase(req[r])
    BY RequestFields DEF EveryPhaseServed
  <1>2. ASSUME Start(r) PROVE ServedPhase(req'[r])
    <2>1. PICK c \in PossibleCalls :
            req' = [req EXCEPT ![r] = [Idle EXCEPT !.call = c,
                      !.phase = IF c.op \in {"create", "export"} THEN "env" ELSE FirstRead(c.op)]]
      BY <1>2 DEF Start
    <2>2. /\ req'[r].call = c /\ req'[r].tries = 0
          /\ req'[r].phase = IF c.op \in {"create", "export"} THEN "env" ELSE FirstRead(c.op)
      BY <1>1, <2>1 DEF Idle
    <2>3. req'[r].phase \in {"env", "secret", "vault"}
            /\ (req'[r].phase = "env" => c.op \in {"create", "export"})
      BY <2>2 DEF FirstRead
    <2>4. QED
      BY <1>1, <2>2, <2>3 DEF ServedPhase
  <1>3. ASSUME Cancel(r)
        PROVE  ServedPhase(req'[r]) /\ StepsLeft(req'[r]) < StepsLeft(req[r])
    <2>1. req'[r].phase = "idle" /\ req[r].phase \notin {"idle", "done"}
      BY <1>1, <1>3 DEF Cancel, Idle
    <2>2. req[r].tries < MaxAttempts
      BY <1>1, <2>1 DEF ServedPhase
    <2>3. StatementsLeft(req[r].phase) \in 1..5
      BY DEF StatementsLeft
    <2>4. StepsLeft(req[r]) = (MaxAttempts - req[r].tries) * 5 + StatementsLeft(req[r].phase)
      BY <2>1 DEF StepsLeft
    <2>5. QED
      BY <1>1, <2>1, <2>2, <2>3, <2>4 DEF ServedPhase, StepsLeft
  <1>4. QED
    BY <1>2, <1>3

\* The steps of everything else leave a request where it is.
LEMMA OthersLeaveRequest ==
  ASSUME TypeOK, [Next]_vars, NEW r \in Requests, ~(Start(r) \/ Serve(r) \/ Cancel(r))
  PROVE  req'[r] = req[r]
  <1>1. CASE \E q \in Requests : Start(q) \/ Serve(q) \/ Cancel(q)
    BY <1>1, RequestStep
  <1>2. CASE ~ \E q \in Requests : Start(q) \/ Serve(q) \/ Cancel(q)
    BY <1>2 DEF Next, vars, RotateVaultDEK, RewrapVault, DeleteEnvironment, DeleteVault
  <1>3. QED
    BY <1>1, <1>2

LEMMA ServedStep ==
  ASSUME TypeOK, EveryPhaseServed, [Next]_vars
  PROVE  EveryPhaseServed'
  <1>1. SUFFICES ASSUME NEW r \in Requests PROVE ServedPhase(req'[r])
    BY DEF EveryPhaseServed, ServedPhase
  <1>2. QED
    BY StatementAdvances, ArrivalIsServed, OthersLeaveRequest DEF EveryPhaseServed

\* No request is ever left in a phase that no statement of its operation serves, or in an attempt
\* beyond the last one: whatever it read, and whatever changed since, it goes on.
THEOREM NoRequestStranded == Spec => []EveryPhaseServed
  <1>1. Init => EveryPhaseServed
    BY DEF Init, EveryPhaseServed, ServedPhase, Idle
  <1>2. TypeOK /\ EveryPhaseServed /\ [Next]_vars => EveryPhaseServed'
    BY ServedStep
  <1>3. QED
    BY <1>1, <1>2, TypeCorrect, PTL DEF Spec

\* A request is over after a number of its own steps that the number of attempts bounds, and
\* nothing that others do, rotations included, adds to it: with the fairness that its statements
\* are executed at all, this is why every request ends.
THEOREM RequestsOnlyAdvance == Spec => RequestsAdvance
  <1>1. TypeOK /\ EveryPhaseServed /\ [Next]_vars =>
          [\A r \in Requests :
             /\ Serve(r) \/ Cancel(r) => StepsLeft(req'[r]) < StepsLeft(req[r])
             /\ StepsLeft(req'[r]) > StepsLeft(req[r]) => Start(r)]_vars
    <2> SUFFICES ASSUME TypeOK, EveryPhaseServed, [Next]_vars, NEW r \in Requests
                 PROVE  /\ Serve(r) \/ Cancel(r) => StepsLeft(req'[r]) < StepsLeft(req[r])
                        /\ StepsLeft(req'[r]) > StepsLeft(req[r]) => Start(r)
      OBVIOUS
    <2>1. StepsLeft(req[r]) \in Nat /\ StepsLeft(req'[r]) \in Nat
      <3>1. TypeOK' /\ EveryPhaseServed'
        BY NextType, ServedStep
      <3>2. /\ req[r].tries \in Nat /\ ServedPhase(req[r])
            /\ req'[r].tries \in Nat /\ ServedPhase(req'[r])
        BY <3>1 DEF TypeOK, RequestRecords, EveryPhaseServed, ServedPhase
      <3>3. MaxAttempts \in Nat
        BY ConstantsAssumption
      <3>4. QED
        BY <3>2, <3>3 DEF StepsLeft, StatementsLeft, ServedPhase
    <2>2. Serve(r) \/ Cancel(r) => StepsLeft(req'[r]) < StepsLeft(req[r])
      BY StatementAdvances, ArrivalIsServed
    <2>3. ~(Start(r) \/ Serve(r) \/ Cancel(r)) => StepsLeft(req'[r]) = StepsLeft(req[r])
      BY OthersLeaveRequest
    <2>4. QED
      BY <2>1, <2>2, <2>3
  <1>2. QED
    BY <1>1, TypeCorrect, NoRequestStranded, PTL DEF Spec, RequestsAdvance

-----------------------------------------------------------------------------
(* What metadata-only updates may run with *)

\* A metadata-only update stores the ciphertext that was on the row when it read the secret.
LEMMA EditStep ==
  ASSUME TypeOK, EveryPhaseServed, NEW r \in Requests, Start(r) \/ Serve(r) \/ Cancel(r),
         req'[r].call.op = "edit", req'[r].phase \in {"vault", "write"}
  PROVE  /\ UNCHANGED rows /\ req'[r].call = req[r].call
         /\ \/ Live(Target(r)) /\ Target(r) \in Secrets /\ req'[r].row.ct = rows[Target(r)].ct
            \/ req[r].phase \in {"vault", "write"} /\ req'[r].row = req[r].row
  <1> DEFINE Effect ==
        req'[r].call.op = "edit" /\ req'[r].phase \in {"vault", "write"} =>
          /\ UNCHANGED rows /\ req'[r].call = req[r].call
          /\ \/ Live(Target(r)) /\ Target(r) \in Secrets /\ req'[r].row.ct = rows[Target(r)].ct
             \/ req[r].phase \in {"vault", "write"} /\ req'[r].row = req[r].row
  <1> HIDE DEF Effect
  <1> SUFFICES Effect
    BY DEF Effect
  <1>1. /\ DOMAIN req = Requests
        /\ req[r] \in [call : Calls, phase : Phases, row : [ct : Ciphertexts, version : Nat],
                       key : [wrap : Nat, dek : Nat], tries : Nat, answer : Answers]
        /\ ServedPhase(req[r])
    BY RequestFields DEF EveryPhaseServed
  <1>2. ASSUME NEW a, Answer(r, a) PROVE Effect
    BY <1>1, <1>2 DEF Answer, Idle, Effect
  <1>3. ASSUME Retry(r) PROVE Effect
    <2>1. CASE req' = [req EXCEPT ![r].phase = FirstRead(Op(r)), ![r].tries = @ + 1,
                                  ![r].row = NoRow, ![r].key = NoKey]
      BY <1>1, <2>1 DEF Effect, FirstRead, Op
    <2>2. QED
      BY <1>2, <1>3, <2>1 DEF Retry
  <1>4. CASE Start(r)
    <2>1. PICK c \in PossibleCalls :
            req' = [req EXCEPT ![r] = [Idle EXCEPT !.call = c,
                      !.phase = IF c.op \in {"create", "export"} THEN "env" ELSE FirstRead(c.op)]]
      BY <1>4 DEF Start
    <2>2. /\ req'[r].call = c
          /\ req'[r].phase = IF c.op \in {"create", "export"} THEN "env" ELSE FirstRead(c.op)
      BY <1>1, <2>1 DEF Idle
    <2>3. QED
      BY <2>2 DEF Effect, FirstRead
  <1>5. CASE Cancel(r) \/ Reply(r)
    BY <1>1, <1>5 DEF Cancel, Reply, Effect, Idle
  <1>6. CASE ReadEnv(r)
    <2>1. CASE req' = [req EXCEPT ![r].phase = "vault"]
      BY <1>1, <1>6, <2>1 DEF Effect, ReadEnv, At, ServedPhase
    <2>2. QED
      BY <1>2, <1>6, <2>1 DEF ReadEnv
  <1>7. CASE ReadSecret(r)
    <2>1. CASE req' = [req EXCEPT ![r].phase = "vault", ![r].row =
                         [ct |-> rows[Target(r)].ct, version |-> rows[Target(r)].version]]
               /\ Live(Target(r))
      BY <1>1, <1>7, <2>1, TargetType DEF Effect, ReadSecret
    <2>2. QED
      BY <1>2, <1>7, <2>1 DEF ReadSecret
  <1>8. CASE ReadVault(r)
    <2>1. ASSUME NEW key, req' = [req EXCEPT ![r].phase = AfterVault(Op(r)), ![r].key = key]
          PROVE  Effect
      BY <1>1, <1>8, <2>1 DEF Effect, ReadVault, At
    <2>2. QED
      BY <1>2, <1>3, <1>8, <2>1 DEF ReadVault, Decrypt
  <1>9. CASE ReadVersionToRestore(r)
    <2>1. ASSUME NEW ct, req' = [req EXCEPT ![r].phase = "write", ![r].row.ct = ct]
          PROVE  Effect
      BY <1>1, <1>9, <2>1 DEF Effect, ReadVersionToRestore, Op
    <2>2. QED
      BY <1>2, <1>9, <2>1 DEF ReadVersionToRestore
  <1>10. CASE ReadVersionToReveal(r) \/ List(r) \/ WriteCreate(r) \/ WriteUpdate(r)
              \/ WriteDelete(r) \/ WriteRename(r)
    BY <1>2, <1>3, <1>10 DEF ReadVersionToReveal, Decrypt, List, WriteCreate, WriteUpdate,
                             WriteDelete, WriteRename
  <1>11. QED
    BY <1>4, <1>5, <1>6, <1>7, <1>8, <1>9, <1>10 DEF Serve

(* With metadata-only updates but no rotation, every value stays readable. *)

EditsReadable ==
    \A r \in Requests : Op(r) = "edit" /\ req[r].phase \in {"vault", "write"}
                          => Readable(req[r].row.ct, vault.dek)

UnrotatedInvariant == KeyInvariant /\ EveryPhaseServed /\ CurrentReadable /\ EditsReadable

LEMMA UnrotatedStep ==
  ASSUME "rotate_dek" \notin Operations, UnrotatedInvariant, [Next]_vars
  PROVE  UnrotatedInvariant'
  <1>1. TypeOK /\ TypeOK' /\ KeyInvariant /\ KeyInvariant' /\ EveryPhaseServed'
    BY KeyStep, ServedStep DEF UnrotatedInvariant, KeyInvariant
  <1>2. ASSUME NEW r \in Requests, Start(r) \/ Serve(r) \/ Cancel(r)
        PROVE  CurrentReadable' /\ EditsReadable'
    <2>1. vault' = vault /\ \A q \in Requests : q # r => req'[q] = req[q]
      BY <1>1, <1>2, RequestStep
    <2>2. \A s \in Secrets : rows[s] \in Rows
      BY <1>1 DEF TypeOK
    <2>3. EditsReadable'
      <3>1. SUFFICES ASSUME NEW q \in Requests, req'[q].call.op = "edit",
                            req'[q].phase \in {"vault", "write"}
                     PROVE  req'[q].row.ct.dek = vault.dek
        BY <2>1 DEF EditsReadable, Readable, Op
      <3>2. CASE q = r
        <4>1. /\ req[r].call.op = "edit"
              /\ \/ Live(Target(r)) /\ Target(r) \in Secrets /\ req'[r].row.ct = rows[Target(r)].ct
                 \/ req[r].phase \in {"vault", "write"} /\ req'[r].row = req[r].row
          BY <1>1, <1>2, <3>1, <3>2, EditStep DEF UnrotatedInvariant
        <4>2. QED
          BY <3>2, <4>1
             DEF UnrotatedInvariant, EditsReadable, CurrentReadable, Known, Live, Readable, Op
      <3>3. QED
        BY <2>1, <3>1, <3>2 DEF UnrotatedInvariant, EditsReadable, Readable, Op
    <2>4. CASE UNCHANGED rows
      BY <2>1, <2>3, <2>4 DEF UnrotatedInvariant, CurrentReadable, Known, Readable
    <2>5. CASE Created(r)
      <3>1. Encrypt(req[r].key.dek, req[r].call.val).dek = vault.dek
        BY <1>1, <2>5 DEF Created, KeyInvariant, KeysIdentified, Encrypt
      <3>2. QED
        BY <1>1, <2>1, <2>2, <2>3, <2>5, <3>1
           DEF Created, TypeOK, UnrotatedInvariant, CurrentReadable, Known, Readable
    <2>6. CASE Revalued(r)
      <3>1. StoredCiphertext(r).dek = vault.dek
        BY <1>1, <2>6 DEF Revalued, KeyInvariant, KeysIdentified, CopiesReadable, Readable,
                          Encrypt, StoredCiphertext
      <3>2. \A s \in Secrets : /\ rows'[s].state = rows[s].state
                               /\ rows'[s].ct.dek \in {rows[s].ct.dek, vault.dek}
        BY <1>1, <2>2, <2>6, <3>1 DEF Revalued, TypeOK, Rows
      <3>3. QED
        BY <2>1, <2>3, <3>2 DEF UnrotatedInvariant, CurrentReadable, Known, Readable
    <2>7. CASE Edited(r)
      <3>1. req[r].row.ct.dek = vault.dek
        BY <2>7 DEF Edited, UnrotatedInvariant, EditsReadable, Readable, At
      <3>2. \A s \in Secrets : /\ rows'[s].state = rows[s].state
                               /\ rows'[s].ct.dek \in {rows[s].ct.dek, vault.dek}
        BY <1>1, <2>2, <2>7, <3>1 DEF Edited, TypeOK, Rows
      <3>3. QED
        BY <2>1, <2>3, <3>2 DEF UnrotatedInvariant, CurrentReadable, Known, Readable
    <2>8. CASE Removed(r)
      <3>1. \A s \in Secrets : /\ rows'[s].ct = rows[s].ct
                               /\ rows'[s].state # "absent" => rows[s].state # "absent"
        BY <1>1, <2>2, <2>8 DEF Removed, Live, TypeOK, Rows
      <3>2. QED
        BY <2>1, <2>3, <3>1 DEF UnrotatedInvariant, CurrentReadable, Known, Readable
    <2>9. QED
      BY <1>1, <1>2, <2>4, <2>5, <2>6, <2>7, <2>8, TableStep
  <1>3. CASE UNCHANGED <<rows, req>> /\ vault'.dek = vault.dek
    BY <1>1, <1>3 DEF UnrotatedInvariant, CurrentReadable, EditsReadable, Known, Readable, Op
  <1>4. CASE RewrapVault \/ DeleteVault
    BY <1>1, <1>3, <1>4 DEF RewrapVault, DeleteVault, TypeOK
  <1>5. CASE UNCHANGED vars \/ \E e \in Envs : DeleteEnvironment(e)
    BY <1>3, <1>5 DEF vars, DeleteEnvironment
  <1>6. QED
    BY <1>1, <1>2, <1>3, <1>4, <1>5 DEF Next, RotateVaultDEK, UnrotatedInvariant

\* The converse of the stale-key finding: a value becomes unreadable only where data keys are
\* rotated.  With metadata-only updates and everything else, re-wraps by a new master key
\* included, every current value opens with the vault's data key.
THEOREM OnlyRotationMakesUnreadable ==
  ASSUME "rotate_dek" \notin Operations
  PROVE  Spec => []CurrentReadable
  <1>1. Init => UnrotatedInvariant
    <2> SUFFICES ASSUME Init PROVE UnrotatedInvariant
      OBVIOUS
    <2>1. KeyInvariant
      BY KeyInit
    <2>2. EveryPhaseServed /\ CurrentReadable /\ EditsReadable
      BY DEF Init, EveryPhaseServed, ServedPhase, Idle, Absent, CurrentReadable, Known,
             EditsReadable, Op
    <2>3. QED
      BY <2>1, <2>2 DEF UnrotatedInvariant
  <1>2. UnrotatedInvariant /\ [Next]_vars => UnrotatedInvariant'
    BY UnrotatedStep
  <1>3. UnrotatedInvariant => CurrentReadable
    BY DEF UnrotatedInvariant
  <1>4. QED
    BY <1>1, <1>2, <1>3, PTL DEF Spec

(* Alone, or among writes that store no value, they keep the value. *)

EditsExact ==
    \A r \in Requests : Op(r) = "edit" /\ req[r].phase \in {"vault", "write"}
      => Target(r) \in Known /\ req[r].row.ct.val = rows[Target(r)].ct.val

MetadataInvariant == HistoryInvariant /\ EveryPhaseServed /\ OperationsAllowed /\ EditsExact

\* One request at a time, or none that stores a value next to metadata-only updates.
EditsUndisturbed ==
    (\A r, q \in Requests : r = q) \/ Operations \cap {"update", "restore"} = {}

LEMMA OperationsStayAllowed ==
  ASSUME TypeOK, OperationsAllowed, [Next]_vars
  PROVE  OperationsAllowed'
  <1>1. SUFFICES ASSUME NEW q \in Requests
                 PROVE  req'[q].call.op \in Operations \cup {"none"}
    BY DEF OperationsAllowed, Op
  <1>2. QED
    BY CallStep, OthersLeaveRequest DEF OperationsAllowed, Op

LEMMA MetadataStep ==
  ASSUME EditsUndisturbed, MetadataInvariant, [Next]_vars
  PROVE  MetadataInvariant'
  <1>1. /\ TypeOK /\ HistoryInvariant /\ HistoryInvariant' /\ EveryPhaseServed
        /\ EveryPhaseServed' /\ OperationsAllowed /\ OperationsAllowed'
        /\ \A s \in Secrets : rows[s] \in Rows
    BY HistoryStep, ServedStep, OperationsStayAllowed
       DEF MetadataInvariant, HistoryInvariant, TypeOK
  <1>2. ASSUME NEW q \in Requests, req'[q].call.op = "edit", req'[q].phase \in {"vault", "write"}
        PROVE  /\ rows'[req'[q].call.target].state # "absent"
               /\ req'[q].row.ct.val = rows'[req'[q].call.target].ct.val
    <2> DEFINE s == Target(q)
    <2>1. CASE Start(q) \/ Serve(q) \/ Cancel(q)
      <3>1. /\ UNCHANGED rows /\ req'[q].call = req[q].call
            /\ \/ Live(s) /\ s \in Secrets /\ req'[q].row.ct = rows[s].ct
               \/ req[q].phase \in {"vault", "write"} /\ req'[q].row = req[q].row
        BY <1>1, <1>2, <2>1, EditStep
      <3>2. QED
        BY <1>2, <3>1 DEF MetadataInvariant, EditsExact, Known, Live, Op, Target
    <2>2. CASE ~(Start(q) \/ Serve(q) \/ Cancel(q))
      <3>1. /\ req'[q] = req[q] /\ Op(q) = "edit" /\ req[q].phase \in {"vault", "write"}
            /\ req'[q].call.target = s
        BY <1>1, <1>2, <2>2, OthersLeaveRequest DEF Op, Target
      <3>2. s \in Known /\ s \in Secrets /\ req[q].row.ct.val = rows[s].ct.val
        BY <3>1 DEF MetadataInvariant, EditsExact, Known
      <3>3. SUFFICES rows'[s].state # "absent" /\ rows'[s].ct.val = rows[s].ct.val
        BY <3>1, <3>2
      <3>4. CASE rows' = rows
        BY <3>2, <3>4 DEF Known
      <3>5. CASE \E r \in Requests : Start(r) \/ Serve(r) \/ Cancel(r)
        <4>1. PICK r \in Requests : Start(r) \/ Serve(r) \/ Cancel(r)
          BY <3>5
        <4>2. r # q
          BY <2>2, <4>1
        <4>3. CASE Created(r)
          <5>1. Target(r) # s
            BY <1>1, <3>2, <4>3 DEF Created, HistoryInvariant, NewIdsUnused
          <5>2. QED
            BY <1>1, <3>2, <4>3, <5>1 DEF Created, TypeOK, Known
        <4>4. ~Revalued(r)
          BY <1>1, <4>2 DEF Revalued, EditsUndisturbed, OperationsAllowed
        <4>5. CASE Edited(r)
          <5>1. req[r].row.ct.val = rows[Target(r)].ct.val
            BY <4>5 DEF Edited, At, MetadataInvariant, EditsExact
          <5>2. /\ rows'[s].state = rows[s].state
                /\ rows'[s].ct = IF s = Target(r) THEN req[r].row.ct ELSE rows[s].ct
            BY <1>1, <3>2, <4>5 DEF Edited, TypeOK, Rows
          <5>3. QED
            BY <3>2, <5>1, <5>2 DEF Known
        <4>6. CASE Removed(r)
          BY <1>1, <3>2, <4>6 DEF Removed, Live, TypeOK, Rows, Known
        <4>7. QED
          BY <1>1, <3>4, <4>1, <4>3, <4>4, <4>5, <4>6, TableStep
      <3>6. CASE RotateVaultDEK
        <4>1. rows'[s] = [rows[s] EXCEPT !.ct = Reencrypt(@, vault.dek, vault.dek + 1)]
          BY <3>2, <3>6 DEF RotateVaultDEK, RowsReencrypted
        <4>2. rows[s].ct \in Ciphertexts
          BY <1>1, <3>2 DEF Rows
        <4>3. Reencrypt(rows[s].ct, vault.dek, vault.dek + 1).val = rows[s].ct.val
          BY <4>2 DEF Reencrypt, Ciphertexts
        <4>4. QED
          BY <1>1, <3>2, <4>1, <4>3 DEF Rows, Known
      <3>7. QED
        BY <3>4, <3>5, <3>6 DEF Next, vars, RewrapVault, DeleteVault, DeleteEnvironment
    <2>3. QED
      BY <2>1, <2>2
  <1>3. EditsExact'
    <2>1. ASSUME NEW q \in Requests, req'[q].call.op = "edit"
          PROVE  req'[q].call.target \in Secrets
      <3>1. TypeOK'
        BY <1>1 DEF HistoryInvariant
      <3>2. req'[q].call \in Calls
        BY <3>1 DEF TypeOK, RequestRecords
      <3>3. QED
        BY <2>1, <3>2 DEF Calls, SecretCall
    <2>2. QED
      BY <1>2, <2>1 DEF EditsExact, Known, Op, Target
  <1>4. QED
    BY <1>1, <1>3 DEF MetadataInvariant

LEMMA MetadataInit == ASSUME Init PROVE MetadataInvariant
  <1>1. HistoryInvariant
    BY HistoryInit
  <1>2. EveryPhaseServed /\ OperationsAllowed /\ EditsExact
    BY DEF Init, EveryPhaseServed, ServedPhase, OperationsAllowed, EditsExact, Idle, Op
  <1>3. QED
    BY <1>1, <1>2 DEF MetadataInvariant

\* The converse of the lost-update finding: a metadata-only update changes a value only where a
\* request that stores a value runs next to it.  One request at a time, or with creations,
\* deletions, reads, rotations and other metadata-only updates alone, the value after it is the
\* value before it.
THEOREM OnlyValueWritesAreLost ==
  ASSUME EditsUndisturbed
  PROVE  Spec => MetadataUpdateKeepsValue
  <1>1. Init => MetadataInvariant
    BY MetadataInit
  <1>2. MetadataInvariant /\ [Next]_vars => MetadataInvariant'
    BY MetadataStep
  <1>3. MetadataInvariant /\ [Next]_vars =>
          [\A r \in Requests :
             At(r, "write") /\ Op(r) = "edit" /\ req'[r].answer = "ok"
               => rows'[Target(r)].ct.val = rows[Target(r)].ct.val]_vars
    <2> SUFFICES ASSUME MetadataInvariant, [Next]_vars, NEW r \in Requests,
                        At(r, "write"), Op(r) = "edit", req'[r].answer = "ok"
                 PROVE  rows'[Target(r)].ct.val = rows[Target(r)].ct.val
      OBVIOUS
    <2>1. TypeOK /\ Target(r) \in Secrets /\ req[r].row.ct.val = rows[Target(r)].ct.val
          /\ Target(r) \in Known
      BY DEF MetadataInvariant, HistoryInvariant, EditsExact, Known, At
    <2>2. CASE \E q \in Requests : Start(q) \/ Serve(q) \/ Cancel(q)
      <3>1. PICK q \in Requests : Start(q) \/ Serve(q) \/ Cancel(q)
        BY <2>2
      <3>2. CASE UNCHANGED rows \/ Removed(q)
        BY <2>1, <3>2 DEF Removed, TypeOK, Rows
      <3>3. CASE Created(q)
        <4>1. Target(q) # Target(r)
          BY <2>1, <3>3 DEF Created, MetadataInvariant, HistoryInvariant, NewIdsUnused
        <4>2. QED
          BY <2>1, <3>3, <4>1 DEF Created, TypeOK
      <3>4. CASE Edited(q)
        <4>1. req[q].row.ct.val = rows[Target(q)].ct.val
          BY <3>4 DEF Edited, At, MetadataInvariant, EditsExact
        <4>2. rows'[Target(r)].ct =
                IF Target(r) = Target(q) THEN req[q].row.ct ELSE rows[Target(r)].ct
          BY <2>1, <3>4 DEF Edited, TypeOK, Rows
        <4>3. QED
          BY <4>1, <4>2
      <3>5. ~Revalued(q)
        BY DEF Revalued, EditsUndisturbed, OperationsAllowed, MetadataInvariant
      <3>6. QED
        BY <2>1, <3>1, <3>2, <3>3, <3>4, <3>5, TableStep
    <2>3. CASE RotateVaultDEK
      <3>1. rows'[Target(r)] =
              [rows[Target(r)] EXCEPT !.ct = Reencrypt(@, vault.dek, vault.dek + 1)]
        BY <2>1, <2>3 DEF RotateVaultDEK, RowsReencrypted
      <3>2. rows[Target(r)] \in Rows /\ rows[Target(r)].ct \in Ciphertexts
        BY <2>1 DEF TypeOK, Rows
      <3>3. QED
        BY <3>1, <3>2 DEF Reencrypt, Ciphertexts, Rows
    <2>4. QED
      BY <2>2, <2>3 DEF Next, vars, RewrapVault, DeleteVault, DeleteEnvironment
  <1>4. QED
    BY <1>1, <1>2, <1>3, PTL DEF Spec, MetadataUpdateKeepsValue
============================================================================
