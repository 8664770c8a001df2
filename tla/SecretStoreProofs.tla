------------------------- MODULE SecretStoreProofs -------------------------
(***************************************************************************)
(* Proofs about SecretStore for every set of requests, secrets and values, *)
(* every number of rotations and every length of history.                  *)
(***************************************************************************)
EXTENDS SecretStore, TLAPS

-----------------------------------------------------------------------------
(* Types *)

LEMMA IdleType == Idle \in RequestRecords
  BY DEF Idle, RequestRecords, Calls, Phases, NoRow, NoKey, Blank, Ciphertexts, Answers

\* Ending a request leaves a well-formed request.
LEMMA AnswerType ==
  ASSUME TypeOK, NEW r \in Requests, NEW a \in Answers, Answer(r, a)
  PROVE  req' \in [Requests -> RequestRecords]
  <1>1. [Idle EXCEPT !.phase = "done", !.answer = a] \in RequestRecords
    BY IdleType DEF RequestRecords, Phases
  <1>2. QED
    BY <1>1 DEF TypeOK, Answer

LEMMA FirstReadPhase == \A op : FirstRead(op) \in Phases
  BY DEF FirstRead, Phases

\* So does starting another attempt, or giving up.
LEMMA RetryType ==
  ASSUME TypeOK, NEW r \in Requests, Op(r) # "none", Retry(r)
  PROVE  req' \in [Requests -> RequestRecords]
  <1>1. CASE Answer(r, "key_changed")
    BY <1>1, AnswerType DEF Answers
  <1>2. CASE req' = [req EXCEPT ![r].phase = FirstRead(Op(r)), ![r].tries = @ + 1,
                                ![r].row = NoRow, ![r].key = NoKey]
    <2>1. /\ NoRow \in [ct : Ciphertexts, version : Nat]
          /\ NoKey \in [wrap : Nat, dek : Nat]
          /\ FirstRead(Op(r)) \in Phases
      BY FirstReadPhase DEF NoRow, NoKey, Blank, Ciphertexts
    <2>2. QED
      BY <1>2, <2>1 DEF TypeOK, RequestRecords, Op
  <1>3. QED
    BY <1>1, <1>2 DEF Retry

LEMMA DecryptType ==
  ASSUME TypeOK, NEW r \in Requests, NEW ct, NEW key, Op(r) # "none", Decrypt(r, ct, key)
  PROVE  req' \in [Requests -> RequestRecords]
  BY AnswerType, RetryType DEF Decrypt, Answers

\* A secret operation's target is a secret.
LEMMA TargetType ==
  ASSUME TypeOK, NEW r \in Requests
  PROVE  /\ Op(r) \notin {"export", "rename", "none"} => Target(r) \in Secrets
         /\ Op(r) = "export" => Target(r) \in Envs
         /\ Op(r) \in {"create", "update"} => req[r].call.val \in Values
         /\ At(r, "secret") => Target(r) \in Secrets
         /\ Op(r) = "none" => req[r].phase \in {"idle", "done"}
  <1>1. req[r] \in RequestRecords
    BY DEF TypeOK
  <1>2. req[r].call \in Calls
    BY <1>1 DEF RequestRecords
  <1>3. /\ Op(r) \notin {"export", "rename", "none"} => Target(r) \in Secrets
        /\ Op(r) = "export" => Target(r) \in Envs
        /\ Op(r) \in {"create", "update"} => req[r].call.val \in Values
    BY <1>2 DEF Calls, SecretCall, Op, Target
  <1>4. At(r, "secret") => Op(r) \notin {"export", "rename", "none"}
    BY <1>1 DEF RequestRecords, At, Op, FirstRead
  <1>5. QED
    BY <1>1, <1>3, <1>4 DEF RequestRecords, Op

LEMMA InitType == ASSUME Init PROVE TypeOK
  <1>1. Absent \in Rows
    BY DEF Absent, Rows, Blank, Ciphertexts
  <1>2. QED
    BY <1>1, IdleType DEF Init, TypeOK

\* Every call that arrives is well-formed.
LEMMA CallType ==
  ASSUME NEW c \in PossibleCalls
  PROVE  c \in Calls /\ c.op # "none"
  BY DEF PossibleCalls, Call, Calls, SecretCall, FreshIds, Known

LEMMA StartType ==
  ASSUME TypeOK, NEW r \in Requests, Start(r)
  PROVE  TypeOK'
  <1>1. PICK c \in PossibleCalls :
          req' = [req EXCEPT ![r] = [Idle EXCEPT !.call = c,
                    !.phase = IF c.op \in {"create", "export"} THEN "env" ELSE FirstRead(c.op)]]
    BY DEF Start
  <1>2. c \in Calls /\ c.op # "none"
    BY CallType
  <1>3. [Idle EXCEPT !.call = c,
           !.phase = IF c.op \in {"create", "export"} THEN "env" ELSE FirstRead(c.op)]
          \in RequestRecords
    BY <1>2, IdleType, FirstReadPhase DEF RequestRecords, Phases
  <1>4. req' \in [Requests -> RequestRecords]
    BY <1>1, <1>3 DEF TypeOK
  <1>5. began' \in [Requests -> Nat]
    BY DEF Start, TypeOK
  <1>6. QED
    BY <1>4, <1>5 DEF Start, TypeOK

\* A step that only moves a request on keeps every table.
LEMMA OnlyRequestType ==
  ASSUME TypeOK, UNCHANGED <<vault, envLive, rows, versions, began>>,
         req' \in [Requests -> RequestRecords]
  PROVE  TypeOK'
  BY DEF TypeOK

LEMMA ReadType ==
  ASSUME TypeOK, NEW r \in Requests,
         \/ ReadEnv(r) \/ ReadSecret(r) \/ ReadVault(r) \/ ReadVersionToRestore(r)
         \/ ReadVersionToReveal(r) \/ List(r)
  PROVE  TypeOK'
  <1>1. UNCHANGED <<vault, envLive, rows, versions, began>>
    BY DEF ReadEnv, ReadSecret, ReadVault, ReadVersionToRestore, ReadVersionToReveal, List
  <1>2. Op(r) # "none" /\ req[r] \in RequestRecords
    BY TargetType DEF ReadEnv, ReadSecret, ReadVault, ReadVersionToRestore,
                      ReadVersionToReveal, List, At, TypeOK
  <1>3. SUFFICES req' \in [Requests -> RequestRecords]
    BY <1>1, OnlyRequestType
  <1>4. CASE ReadEnv(r)
    <2>1. CASE req' = [req EXCEPT ![r].phase = "vault"]
      BY <1>2, <2>1 DEF TypeOK, RequestRecords, Phases, Op
    <2>2. QED
      BY <1>4, <2>1, AnswerType DEF ReadEnv, Answers
  <1>5. CASE ReadSecret(r)
    <2> DEFINE row == [ct |-> rows[Target(r)].ct, version |-> rows[Target(r)].version]
    <2>1. row \in [ct : Ciphertexts, version : Nat]
      BY <1>5, TargetType DEF TypeOK, Rows, ReadSecret
    <2>2. CASE req' = [req EXCEPT ![r].phase = "vault", ![r].row = row]
      BY <1>2, <2>1, <2>2 DEF TypeOK, RequestRecords, Phases, Op
    <2>3. QED
      BY <1>5, <2>2, AnswerType DEF ReadSecret, Answers
  <1>6. CASE ReadVault(r)
    <2> DEFINE key == [wrap |-> vault.wrap, dek |-> vault.dek]
    <2>1. key \in [wrap : Nat, dek : Nat] /\ AfterVault(Op(r)) \in {"version", "list", "write"}
      BY DEF TypeOK, AfterVault
    <2>2. CASE req' = [req EXCEPT ![r].phase = AfterVault(Op(r)), ![r].key = key]
      BY <1>2, <2>1, <2>2 DEF TypeOK, RequestRecords, Phases, Op
    <2>3. CASE Decrypt(r, req[r].row.ct, key)
      BY <1>2, <2>3, DecryptType
    <2>4. QED
      BY <1>6, <2>2, <2>3, AnswerType DEF ReadVault, Answers
  <1>7. CASE ReadVersionToRestore(r)
    <2> DEFINE n == req[r].call.number
    <2>1. CASE /\ n \in DOMAIN versions[Target(r)]
               /\ req' = [req EXCEPT ![r].phase = "write", ![r].row.ct = versions[Target(r)][n]]
      <3>1. versions[Target(r)][n] \in Ciphertexts
        BY <1>7, <2>1, TargetType DEF TypeOK, ReadVersionToRestore
      <3>2. QED
        BY <1>2, <2>1, <3>1 DEF TypeOK, RequestRecords, Phases, Op
    <2>2. QED
      BY <1>7, <2>1, AnswerType DEF ReadVersionToRestore, Answers
  <1>8. CASE ReadVersionToReveal(r)
    BY <1>2, <1>8, DecryptType, AnswerType DEF ReadVersionToReveal, Answers
  <1>9. CASE List(r)
    BY <1>2, <1>9, RetryType, AnswerType DEF List, Answers
  <1>10. QED
    BY <1>4, <1>5, <1>6, <1>7, <1>8, <1>9

\* A row and a version written under a key the request has read are well-formed.
LEMMA AddVersionType ==
  ASSUME TypeOK, NEW s \in Secrets, NEW n \in Nat, NEW ct \in Ciphertexts,
         versions' = [versions EXCEPT ![s] = AddVersion(@, n, ct)]
  PROVE  /\ versions' = [t \in Secrets |-> [m \in DOMAIN versions'[t] |-> versions'[t][m]]]
         /\ \A t \in Secrets : /\ DOMAIN versions'[t] \subseteq Nat
                               /\ \A m \in DOMAIN versions'[t] : versions'[t][m] \in Ciphertexts
  <1>1. DOMAIN versions = Secrets
    BY DEF TypeOK
  <1>2. \A t \in Secrets :
          versions'[t] = IF t = s THEN AddVersion(versions[t], n, ct) ELSE versions[t]
    BY <1>1
  <1>3. versions' = [t \in Secrets |->
                       IF t = s THEN AddVersion(versions[t], n, ct) ELSE versions[t]]
    BY <1>1
  <1>4. \A t \in Secrets : versions[t] = [m \in DOMAIN versions[t] |-> versions[t][m]]
    BY DEF TypeOK
  <1>5. ASSUME NEW t \in Secrets
        PROVE  versions'[t] = [m \in DOMAIN versions'[t] |-> versions'[t][m]]
    <2>1. CASE t = s
      <3>1. AddVersion(versions[t], n, ct)
              = [m \in DOMAIN AddVersion(versions[t], n, ct) |-> AddVersion(versions[t], n, ct)[m]]
        BY DEF AddVersion
      <3>2. versions'[t] = AddVersion(versions[t], n, ct)
        BY <1>2, <2>1
      <3>3. QED
        BY <3>1, <3>2
    <2>2. CASE t # s
      <3>1. versions'[t] = versions[t]
        BY <1>2, <2>2
      <3>2. QED
        BY <1>4, <3>1
    <2>3. QED
      BY <2>1, <2>2
  <1>6. \A t \in Secrets : /\ DOMAIN versions'[t] \subseteq Nat
                           /\ \A m \in DOMAIN versions'[t] : versions'[t][m] \in Ciphertexts
    BY <1>2 DEF AddVersion, TypeOK
  <1>7. QED
    BY <1>3, <1>5, <1>6

LEMMA WriteType ==
  ASSUME TypeOK, NEW r \in Requests,
         WriteCreate(r) \/ WriteUpdate(r) \/ WriteDelete(r) \/ WriteRename(r)
  PROVE  TypeOK'
  <1>1. UNCHANGED <<vault, envLive, began>> /\ req[r] \in RequestRecords
    BY DEF WriteCreate, WriteUpdate, WriteDelete, WriteRename, TypeOK
  <1>2. req' \in [Requests -> RequestRecords]
    BY RetryType, AnswerType DEF WriteCreate, WriteUpdate, WriteDelete, WriteRename, Answers
  <1>3. CASE UNCHANGED <<rows, versions>>
    BY <1>1, <1>2, <1>3 DEF TypeOK
  <1>4. CASE WriteCreate(r) /\ ~UNCHANGED <<rows, versions>>
    <2> DEFINE s == Target(r)
               ct == Encrypt(req[r].key.dek, req[r].call.val)
    <2>1. s \in Secrets /\ ct \in Ciphertexts
      BY <1>1, <1>4, TargetType DEF WriteCreate, Encrypt, Ciphertexts, RequestRecords
    <2>2. rows' \in [Secrets -> Rows]
      BY <1>4, <2>1 DEF WriteCreate, TypeOK, Rows
    <2>3. versions' = [versions EXCEPT ![s] = AddVersion(@, 1, ct)]
      BY <1>4 DEF WriteCreate
    <2> HIDE DEF s, ct
    <2>4. /\ versions' = [t \in Secrets |-> [m \in DOMAIN versions'[t] |-> versions'[t][m]]]
          /\ \A t \in Secrets : /\ DOMAIN versions'[t] \subseteq Nat
                                /\ \A m \in DOMAIN versions'[t] : versions'[t][m] \in Ciphertexts
      BY <2>1, <2>3, AddVersionType
    <2>5. QED
      BY <1>1, <1>2, <2>2, <2>4 DEF TypeOK
  <1>5. CASE WriteUpdate(r) /\ ~UNCHANGED <<rows, versions>>
    <2> DEFINE s == Target(r)
               ct == StoredCiphertext(r)
               n == NextVersion(r)
    <2>1. s \in Secrets /\ ct \in Ciphertexts
      BY <1>1, <1>5, TargetType
         DEF WriteUpdate, StoredCiphertext, Encrypt, Ciphertexts, RequestRecords
    <2>2. n \in Nat
      BY <2>1 DEF NextVersion, TypeOK, Rows
    <2>3. rows' \in [Secrets -> Rows]
      BY <1>5, <2>1, <2>2 DEF WriteUpdate, TypeOK, Rows
    <2>4. CASE ~ValueChanged(r)
      BY <1>1, <1>2, <1>5, <2>3, <2>4 DEF WriteUpdate, TypeOK
    <2>5. CASE ValueChanged(r)
      <3>1. versions' = [versions EXCEPT ![s] = AddVersion(@, n, ct)]
        BY <1>5, <2>5 DEF WriteUpdate
      <3> HIDE DEF s, ct, n
      <3>2. /\ versions' = [t \in Secrets |-> [m \in DOMAIN versions'[t] |-> versions'[t][m]]]
            /\ \A t \in Secrets : /\ DOMAIN versions'[t] \subseteq Nat
                                  /\ \A m \in DOMAIN versions'[t] : versions'[t][m] \in Ciphertexts
        BY <2>1, <2>2, <3>1, AddVersionType
      <3>3. QED
        BY <1>1, <1>2, <2>3, <3>2 DEF TypeOK
    <2>6. QED
      BY <2>4, <2>5
  <1>6. CASE WriteDelete(r) /\ ~UNCHANGED <<rows, versions>>
    <2>1. rows' \in [Secrets -> Rows]
      BY <1>6 DEF WriteDelete, TypeOK, Rows
    <2>2. QED
      BY <1>1, <1>2, <1>6, <2>1 DEF WriteDelete, TypeOK
  <1>7. QED
    BY <1>3, <1>4, <1>5, <1>6 DEF WriteRename

LEMMA ReencryptType ==
  ASSUME NEW ct \in Ciphertexts, NEW old \in Nat, NEW new \in Nat
  PROVE  Reencrypt(ct, old, new) \in Ciphertexts
  BY DEF Reencrypt, Ciphertexts

LEMMA RotateType ==
  ASSUME TypeOK, RotateVaultDEK
  PROVE  TypeOK'
  <1>1. vault' \in [wrap : Nat, dek : Nat \ {0}, live : BOOLEAN]
    <2>1. vault \in [wrap : Nat, dek : Nat \ {0}, live : BOOLEAN]
      BY DEF TypeOK
    <2>2. vault' = [vault EXCEPT !.dek = vault.dek + 1, !.wrap = vault.wrap + 1]
      BY DEF RotateVaultDEK
    <2>3. vault.dek + 1 \in Nat \ {0} /\ vault.wrap + 1 \in Nat
      BY <2>1
    <2>4. QED
      BY <2>1, <2>2, <2>3
  <1>2. rows' \in [Secrets -> Rows]
    <2> DEFINE row(s) == [rows[s] EXCEPT !.ct = Reencrypt(@, vault.dek, vault.dek + 1)]
    <2>1. ASSUME NEW s \in Secrets PROVE row(s) \in Rows
      <3>1. rows[s] \in Rows /\ vault.dek \in Nat
        BY DEF TypeOK
      <3>2. Reencrypt(rows[s].ct, vault.dek, vault.dek + 1) \in Ciphertexts
        BY <3>1, ReencryptType DEF Rows
      <3>3. QED
        BY <3>1, <3>2 DEF Rows
    <2>2. rows' = [s \in Secrets |-> row(s)]
      BY DEF RotateVaultDEK, RowsReencrypted
    <2>3. QED
      BY <2>1, <2>2
  <1>3. \A s \in Secrets : versions'[s] =
          [n \in DOMAIN versions[s] |-> Reencrypt(versions[s][n], vault.dek, vault.dek + 1)]
    BY DEF RotateVaultDEK, VersionsReencrypted
  <1>4. \A s \in Secrets : /\ DOMAIN versions'[s] \subseteq Nat
                           /\ \A n \in DOMAIN versions'[s] : versions'[s][n] \in Ciphertexts
    <2>1. vault.dek \in Nat /\ vault.dek + 1 \in Nat
      BY DEF TypeOK
    <2>2. \A s \in Secrets : /\ DOMAIN versions[s] \subseteq Nat
                             /\ \A n \in DOMAIN versions[s] : versions[s][n] \in Ciphertexts
      BY DEF TypeOK
    <2>3. \A s \in Secrets : DOMAIN versions'[s] = DOMAIN versions[s]
      BY <1>3
    <2>4. \A ct \in Ciphertexts : Reencrypt(ct, vault.dek, vault.dek + 1) \in Ciphertexts
      BY <2>1, ReencryptType
    <2>5. QED
      BY <1>3, <2>2, <2>3, <2>4
  <1>5. versions' = [s \in Secrets |-> [n \in DOMAIN versions'[s] |-> versions'[s][n]]]
    BY <1>3 DEF RotateVaultDEK, VersionsReencrypted
  <1>6. QED
    BY <1>1, <1>2, <1>4, <1>5 DEF RotateVaultDEK, TypeOK

LEMMA NextType ==
  ASSUME TypeOK, [Next]_vars
  PROVE  TypeOK'
  <1>1. ASSUME NEW r \in Requests, Start(r) \/ Serve(r) \/ Cancel(r) PROVE TypeOK'
    BY <1>1, StartType, ReadType, WriteType, IdleType DEF Serve, Reply, Cancel, TypeOK
  <1>2. CASE RotateVaultDEK
    BY <1>2, RotateType
  <1>3. CASE RewrapVault \/ DeleteVault
    <2>1. vault' \in [wrap : Nat, dek : Nat \ {0}, live : BOOLEAN]
      <3> vault \in [wrap : Nat, dek : Nat \ {0}, live : BOOLEAN]
        BY DEF TypeOK
      <3>1. CASE vault' = [vault EXCEPT !.wrap = vault.wrap + 1]
        BY <3>1
      <3>2. CASE vault' = [vault EXCEPT !.live = FALSE]
        BY <3>2
      <3>3. QED
        BY <1>3, <3>1, <3>2 DEF RewrapVault, DeleteVault
    <2>2. QED
      BY <1>3, <2>1 DEF RewrapVault, DeleteVault, TypeOK
  <1>4. ASSUME NEW e \in Envs, DeleteEnvironment(e) PROVE TypeOK'
    BY <1>4 DEF DeleteEnvironment, TypeOK
  <1>5. CASE UNCHANGED vars
    BY <1>5 DEF vars, TypeOK
  <1>6. QED
    BY <1>1, <1>2, <1>3, <1>4, <1>5 DEF Next

\* Every table and every request stays well-formed: requests that race with each other, with
\* rotations and with deletions never leave a request in a phase no statement serves, or store
\* something that is not a ciphertext.
THEOREM TypeCorrect == Spec => []TypeOK
  <1>1. Init => TypeOK
    BY InitType
  <1>2. TypeOK /\ [Next]_vars => TypeOK'
    BY NextType
  <1>3. QED
    BY <1>1, <1>2, PTL DEF Spec

-----------------------------------------------------------------------------
(* What a step of a request may change *)

\* A request's statement leaves the vault's row and the other requests alone; the key it holds
\* afterwards is the one it held, none, or the vault's; a restore that is about to write holds a
\* version it has just copied, and the key it had.
LEMMA RequestStep ==
  ASSUME TypeOK, NEW r \in Requests, Start(r) \/ Serve(r) \/ Cancel(r)
  PROVE  /\ UNCHANGED vault
         /\ \A q \in Requests : q # r => req'[q] = req[q]
         /\ \/ req'[r].key \in {req[r].key, NoKey}
            \/ req'[r].key = [wrap |-> vault.wrap, dek |-> vault.dek]
         /\ req'[r].phase = "write" /\ req'[r].call.op = "restore" =>
              /\ Target(r) \in Secrets
              /\ \E n \in DOMAIN versions[Target(r)] : req'[r].row.ct = versions[Target(r)][n]
  <1> DEFINE Effect ==
        /\ \A q \in Requests : q # r => req'[q] = req[q]
        /\ \/ req'[r].key \in {req[r].key, NoKey}
           \/ req'[r].key = [wrap |-> vault.wrap, dek |-> vault.dek]
        /\ req'[r].phase = "write" /\ req'[r].call.op = "restore" =>
             /\ Target(r) \in Secrets
             /\ \E n \in DOMAIN versions[Target(r)] : req'[r].row.ct = versions[Target(r)][n]
  <1> HIDE DEF Effect
  <1>1. UNCHANGED vault
    BY DEF Start, Serve, Cancel, ReadEnv, ReadSecret, ReadVault, ReadVersionToRestore,
           ReadVersionToReveal, List, WriteCreate, WriteUpdate, WriteDelete, WriteRename, Reply
  <1> SUFFICES Effect
    BY <1>1 DEF Effect
  <1>2. /\ DOMAIN req = Requests
        /\ req[r] \in [call : Calls, phase : Phases, row : [ct : Ciphertexts, version : Nat],
                       key : [wrap : Nat, dek : Nat], tries : Nat, answer : Answers]
    BY DEF TypeOK, RequestRecords
  <1>3. ASSUME NEW a, Answer(r, a) PROVE Effect
    BY <1>2, <1>3 DEF Effect, Answer, Idle
  <1>4. ASSUME Retry(r) PROVE Effect
    <2>1. CASE Answer(r, "key_changed")
      BY <1>3, <2>1
    <2>2. CASE req' = [req EXCEPT ![r].phase = FirstRead(Op(r)), ![r].tries = @ + 1,
                                  ![r].row = NoRow, ![r].key = NoKey]
      BY <1>2, <2>2 DEF Effect, FirstRead
    <2>3. QED
      BY <1>4, <2>1, <2>2 DEF Retry
  <1>5. CASE Start(r) \/ Cancel(r) \/ Reply(r)
    <2>1. CASE req' = [req EXCEPT ![r] = Idle]
      BY <1>2, <2>1 DEF Effect, Idle
    <2>2. ASSUME NEW c, req' = [req EXCEPT ![r] = [Idle EXCEPT !.call = c,
                   !.phase = IF c.op \in {"create", "export"} THEN "env" ELSE FirstRead(c.op)]]
          PROVE  Effect
      BY <1>2, <2>2 DEF Effect, Idle, FirstRead
    <2>3. QED
      BY <1>5, <2>1, <2>2 DEF Start, Cancel, Reply
  <1>6. CASE ReadEnv(r) \/ ReadSecret(r)
    <2>1. ASSUME NEW row, \/ req' = [req EXCEPT ![r].phase = "vault"]
                          \/ req' = [req EXCEPT ![r].phase = "vault", ![r].row = row]
          PROVE  Effect
      BY <1>2, <2>1 DEF Effect
    <2>2. QED
      BY <1>3, <1>6, <2>1 DEF ReadEnv, ReadSecret
  <1>7. CASE ReadVault(r)
    <2>1. CASE req' = [req EXCEPT ![r].phase = AfterVault(Op(r)),
                                  ![r].key = [wrap |-> vault.wrap, dek |-> vault.dek]]
      <3>1. Op(r) = "restore" => AfterVault(Op(r)) = "version"
        BY DEF AfterVault
      <3>2. QED
        BY <1>2, <2>1, <3>1 DEF Effect, Op
    <2>2. QED
      BY <1>3, <1>4, <1>7, <2>1 DEF ReadVault, Decrypt
  <1>8. CASE ReadVersionToRestore(r)
    <2> DEFINE n == req[r].call.number
               history == versions[Target(r)]
    <2>1. Target(r) \in Secrets
      BY <1>8, TargetType DEF ReadVersionToRestore
    <2>2. CASE /\ n \in DOMAIN history
               /\ req' = [req EXCEPT ![r].phase = "write", ![r].row.ct = history[n]]
      <3>1. req'[r] = [req[r] EXCEPT !.phase = "write", !.row.ct = history[n]]
        BY <1>2, <2>2
      <3>2. req'[r].key = req[r].key /\ req'[r].row.ct = history[n]
        BY <1>2, <3>1
      <3>3. QED
        BY <1>2, <2>1, <2>2, <3>2 DEF Effect
    <2>3. QED
      BY <1>3, <1>8, <2>2 DEF ReadVersionToRestore
  <1>9. CASE ReadVersionToReveal(r) \/ List(r) \/ WriteCreate(r) \/ WriteUpdate(r)
              \/ WriteDelete(r) \/ WriteRename(r)
    BY <1>3, <1>4, <1>9 DEF ReadVersionToReveal, Decrypt, List, WriteCreate, WriteUpdate,
                            WriteDelete, WriteRename
  <1>10. QED
    BY <1>5, <1>6, <1>7, <1>8, <1>9 DEF Serve

\* The four ways the tables of secrets and versions change.
Created(r) ==
    LET ct == Encrypt(req[r].key.dek, req[r].call.val) IN
    /\ At(r, "write") /\ Op(r) = "create" /\ Target(r) \in Secrets
    /\ KeyUnchanged(r) /\ ~NameTaken(Target(r)) /\ Answer(r, "ok")
    /\ rows' = [rows EXCEPT ![Target(r)] = [state |-> "live", ct |-> ct, version |-> 1]]
    /\ versions' = [versions EXCEPT ![Target(r)] = AddVersion(@, 1, ct)]

Revalued(r) ==
    /\ At(r, "write") /\ Op(r) \in {"update", "restore"} /\ Target(r) \in Secrets
    /\ KeyUnchanged(r) /\ Live(Target(r)) /\ Answer(r, "ok")
    /\ rows' = [rows EXCEPT ![Target(r)].ct = StoredCiphertext(r),
                            ![Target(r)].version = rows[Target(r)].version + 1]
    /\ versions' = [versions EXCEPT ![Target(r)] =
                      AddVersion(@, rows[Target(r)].version + 1, StoredCiphertext(r))]

Edited(r) ==
    /\ At(r, "write") /\ Op(r) = "edit" /\ Target(r) \in Secrets
    /\ Live(Target(r)) /\ Answer(r, "ok")
    /\ rows' = [rows EXCEPT ![Target(r)].ct = req[r].row.ct]
    /\ UNCHANGED versions

Removed(r) ==
    /\ Op(r) = "delete" /\ Target(r) \in Secrets /\ Live(Target(r)) /\ Answer(r, "ok")
    /\ rows' = [rows EXCEPT ![Target(r)].state = "deleted"]
    /\ UNCHANGED versions

LEMMA TableStep ==
  ASSUME TypeOK, NEW r \in Requests, Start(r) \/ Serve(r) \/ Cancel(r)
  PROVE  \/ UNCHANGED <<rows, versions>>
         \/ Created(r) \/ Revalued(r) \/ Edited(r) \/ Removed(r)
  <1>1. CASE WriteCreate(r)
    BY <1>1, TargetType DEF WriteCreate, Created
  <1>2. CASE WriteUpdate(r)
    <2>1. Target(r) \in Secrets /\ rows[Target(r)] \in Rows
      BY <1>2, TargetType DEF WriteUpdate, TypeOK
    <2>2. CASE Op(r) \in {"update", "restore"}
      BY <1>2, <2>1, <2>2 DEF WriteUpdate, Revalued, NextVersion, ValueChanged, StillThere
    <2>3. CASE Op(r) = "edit"
      <3>1. ~ValueChanged(r) /\ NextVersion(r) = rows[Target(r)].version
        BY <2>1, <2>3 DEF ValueChanged, NextVersion, Rows
      <3>2. StoredCiphertext(r) = req[r].row.ct
        BY <2>3 DEF StoredCiphertext
      <3>3. [rows EXCEPT ![Target(r)].ct = req[r].row.ct,
                         ![Target(r)].version = rows[Target(r)].version]
              = [rows EXCEPT ![Target(r)].ct = req[r].row.ct]
        BY <2>1 DEF Rows, TypeOK
      <3>4. QED
        BY <1>2, <2>1, <2>3, <3>1, <3>2, <3>3 DEF WriteUpdate, Edited, StillThere
    <2>4. QED
      BY <1>2, <2>2, <2>3 DEF WriteUpdate
  <1>3. CASE WriteDelete(r)
    BY <1>3, TargetType DEF WriteDelete, Removed
  <1>4. CASE ~(WriteCreate(r) \/ WriteUpdate(r) \/ WriteDelete(r))
    BY <1>4 DEF Start, Serve, Cancel, ReadEnv, ReadSecret, ReadVault, ReadVersionToRestore,
                ReadVersionToReveal, List, WriteRename, Reply
  <1>5. QED
    BY <1>1, <1>2, <1>3, <1>4

\* What adding a version does to the table of versions.
LEMMA AddedVersion ==
  ASSUME TypeOK, NEW s \in Secrets, NEW n, NEW ct,
         versions' = [versions EXCEPT ![s] = AddVersion(@, n, ct)]
  PROVE  /\ \A t \in Secrets : t # s => versions'[t] = versions[t]
         /\ DOMAIN versions'[s] = DOMAIN versions[s] \cup {n}
         /\ \A m \in DOMAIN versions'[s] : versions'[s][m] = IF m = n THEN ct ELSE versions[s][m]
  <1>1. DOMAIN versions = Secrets
    BY DEF TypeOK
  <1>2. versions'[s] = AddVersion(versions[s], n, ct)
    BY <1>1
  <1>3. QED
    BY <1>1, <1>2 DEF AddVersion

\* What a rotation does to it: nothing but the data key of every ciphertext.
LEMMA RotatedVersions ==
  ASSUME TypeOK, RotateVaultDEK
  PROVE  \A s \in Secrets :
           /\ DOMAIN versions'[s] = DOMAIN versions[s]
           /\ \A n \in DOMAIN versions[s] :
                versions'[s][n] = Reencrypt(versions[s][n], vault.dek, vault.dek + 1)
  BY DEF RotateVaultDEK, VersionsReencrypted

-----------------------------------------------------------------------------
(* Every entry of the history stays readable *)

LEMMA KeyInit == ASSUME Init PROVE KeyInvariant
  <1>1. TypeOK
    BY InitType
  <1>2. \A r \in Requests : Op(r) = "none" /\ req[r].key = [wrap |-> 0, dek |-> 0]
    BY DEF Init, Op, Idle, NoKey
  <1>3. vault.wrap = 1 /\ \A s \in Secrets : DOMAIN versions[s] = {}
    BY DEF Init
  <1>4. QED
    BY <1>1, <1>2, <1>3
       DEF KeyInvariant, KeysIdentified, CopiesReadable, HistoryReadable, KeyUnchanged

LEMMA RequestKeepsKeyInvariant ==
  ASSUME KeyInvariant, NEW r \in Requests, Start(r) \/ Serve(r) \/ Cancel(r), TypeOK'
  PROVE  KeyInvariant'
  <1>1. TypeOK /\ vault.wrap > 0 /\ KeysIdentified /\ CopiesReadable /\ HistoryReadable
    BY DEF KeyInvariant
  <1>2. /\ vault' = vault
        /\ \A q \in Requests : q # r => req'[q] = req[q]
        /\ \/ req'[r].key \in {req[r].key, NoKey}
           \/ req'[r].key = [wrap |-> vault.wrap, dek |-> vault.dek]
        /\ req'[r].phase = "write" /\ req'[r].call.op = "restore" =>
             /\ Target(r) \in Secrets
             /\ \E n \in DOMAIN versions[Target(r)] : req'[r].row.ct = versions[Target(r)][n]
    BY <1>1, RequestStep
  <1>3. vault.wrap \in Nat /\ vault.dek \in Nat
    BY <1>1 DEF TypeOK
  <1>4. KeysIdentified'
    <2>1. ASSUME NEW q \in Requests
          PROVE  /\ req'[q].key.wrap <= vault.wrap
                 /\ vault.wrap = req'[q].key.wrap => req'[q].key.dek = vault.dek
      BY <1>1, <1>2, <1>3 DEF KeysIdentified, KeyUnchanged, NoKey
    <2>2. QED
      BY <1>2, <2>1 DEF KeysIdentified, KeyUnchanged
  <1>5. CopiesReadable'
    <2>1. ASSUME NEW q \in Requests, req'[q].phase = "write", req'[q].call.op = "restore",
                 vault.wrap = req'[q].key.wrap
          PROVE  req'[q].row.ct.dek = vault.dek
      <3>1. CASE q = r
        BY <1>1, <1>2, <2>1, <3>1 DEF HistoryReadable, Readable
      <3>2. CASE q # r
        BY <1>1, <1>2, <2>1, <3>2 DEF CopiesReadable, Readable, KeyUnchanged, At, Op
      <3>3. QED
        BY <3>1, <3>2
    <2>2. QED
      BY <1>2, <2>1 DEF CopiesReadable, Readable, KeyUnchanged, At, Op
  <1>6. HistoryReadable'
    <2>1. ASSUME NEW s \in Secrets, NEW n, NEW ct, Readable(ct, vault.dek),
                 versions' = [versions EXCEPT ![s] = AddVersion(@, n, ct)]
          PROVE  \A t \in Secrets : \A m \in DOMAIN versions'[t] :
                   Readable(versions'[t][m], vault.dek)
      <3>1. /\ \A t \in Secrets : t # s => versions'[t] = versions[t]
            /\ DOMAIN versions'[s] = DOMAIN versions[s] \cup {n}
            /\ \A m \in DOMAIN versions'[s] :
                 versions'[s][m] = IF m = n THEN ct ELSE versions[s][m]
        BY <1>1, <2>1, AddedVersion
      <3>2. QED
        BY <1>1, <2>1, <3>1 DEF HistoryReadable
    <2>2. CASE UNCHANGED versions
      BY <1>1, <1>2, <2>2 DEF HistoryReadable
    <2>3. CASE Created(r)
      <3>1. Readable(Encrypt(req[r].key.dek, req[r].call.val), vault.dek)
        BY <1>1, <2>3 DEF Created, KeysIdentified, Readable, Encrypt
      <3>2. QED
        BY <1>2, <2>1, <2>3, <3>1 DEF Created, HistoryReadable
    <2>4. CASE Revalued(r)
      <3>1. Readable(StoredCiphertext(r), vault.dek)
        BY <1>1, <2>4 DEF Revalued, KeysIdentified, CopiesReadable, Readable, Encrypt,
                          StoredCiphertext
      <3>2. QED
        BY <1>2, <2>1, <2>4, <3>1 DEF Revalued, HistoryReadable
    <2>5. QED
      BY <1>1, <2>2, <2>3, <2>4, TableStep DEF Edited, Removed
  <1>7. QED
    BY <1>1, <1>2, <1>4, <1>5, <1>6 DEF KeyInvariant

\* Every wrap is new, so a key that was read before it is not taken for the one after it.
LEMMA WrapKeepsKeys ==
  ASSUME KeyInvariant, UNCHANGED req, vault'.wrap = vault.wrap + 1
  PROVE  KeysIdentified' /\ CopiesReadable'
  <1>1. vault.wrap \in Nat /\ \A r \in Requests : req[r].key.wrap \in Nat
    BY DEF KeyInvariant, TypeOK, RequestRecords
  <1>2. \A r \in Requests : req[r].key.wrap <= vault.wrap
    BY DEF KeyInvariant, KeysIdentified
  <1>3. \A r \in Requests : /\ req'[r].key.wrap <= vault'.wrap
                            /\ vault'.wrap # req'[r].key.wrap
    BY <1>1, <1>2
  <1>4. QED
    BY <1>3 DEF KeysIdentified, CopiesReadable, KeyUnchanged

LEMMA KeyStep ==
  ASSUME KeyInvariant, [Next]_vars
  PROVE  KeyInvariant'
  <1>1. TypeOK /\ TypeOK'
    BY NextType DEF KeyInvariant
  <1>2. ASSUME NEW r \in Requests, Start(r) \/ Serve(r) \/ Cancel(r) PROVE KeyInvariant'
    BY <1>1, <1>2, RequestKeepsKeyInvariant
  <1>3. vault.wrap \in Nat /\ vault.wrap > 0 /\ vault.dek \in Nat
    BY <1>1 DEF KeyInvariant, TypeOK
  <1>4. CASE RotateVaultDEK
    <2>1. /\ vault'.wrap = vault.wrap + 1
          /\ vault'.dek = vault.dek + 1
          /\ UNCHANGED req
      BY <1>1, <1>4 DEF RotateVaultDEK, TypeOK
    <2>2. ASSUME NEW s \in Secrets, NEW n \in DOMAIN versions'[s]
          PROVE  versions'[s][n].dek = vault'.dek
      <3>1. versions[s][n] \in Ciphertexts /\ versions[s][n].dek = vault.dek
        BY <1>1, <1>4, RotatedVersions DEF TypeOK, KeyInvariant, HistoryReadable, Readable
      <3>2. QED
        BY <1>1, <1>4, <2>1, <3>1, RotatedVersions DEF Reencrypt, Ciphertexts
    <2>3. HistoryReadable'
      BY <2>2 DEF HistoryReadable, Readable
    <2>4. QED
      BY <1>1, <1>3, <2>1, <2>3, WrapKeepsKeys DEF KeyInvariant
  <1>5. CASE RewrapVault
    <2>1. /\ vault'.wrap = vault.wrap + 1
          /\ vault'.dek = vault.dek
          /\ UNCHANGED <<req, versions>>
      BY <1>1, <1>5 DEF RewrapVault, TypeOK
    <2>2. QED
      BY <1>1, <1>3, <2>1, WrapKeepsKeys DEF KeyInvariant, HistoryReadable
  <1>6. CASE UNCHANGED <<vault.wrap, vault.dek, req, versions>>
    BY <1>1, <1>6 DEF KeyInvariant, KeysIdentified, CopiesReadable, HistoryReadable,
                      KeyUnchanged, At, Op
  <1>7. CASE DeleteVault
    BY <1>1, <1>6, <1>7 DEF DeleteVault, TypeOK
  <1>8. CASE UNCHANGED vars \/ \E e \in Envs : DeleteEnvironment(e)
    BY <1>6, <1>8 DEF vars, DeleteEnvironment
  <1>9. QED
    BY <1>2, <1>4, <1>5, <1>7, <1>8 DEF Next

\* Whatever writes, restores and metadata updates race with rotations and re-wraps, every entry
\* of every secret's history opens with the vault's data key.
THEOREM HistoryStaysReadable == Spec => []HistoryReadable
  <1>1. Init => KeyInvariant
    BY KeyInit
  <1>2. KeyInvariant /\ [Next]_vars => KeyInvariant'
    BY KeyStep
  <1>3. KeyInvariant => HistoryReadable
    BY DEF KeyInvariant
  <1>4. QED
    BY <1>1, <1>2, <1>3, PTL DEF Spec

-----------------------------------------------------------------------------
(* Version numbers *)

\* A request keeps its call until it ends; Start begins one of the instance's operations, and
\* creates under an unused id.
LEMMA CallStep ==
  ASSUME TypeOK, NEW r \in Requests, Start(r) \/ Serve(r) \/ Cancel(r)
  PROVE  /\ \/ req'[r].call = req[r].call \/ req'[r].call.op = "none"
            \/ /\ req'[r].call.op \in Operations
               /\ req'[r].call.op = "create" => req'[r].call.target \in FreshIds
         /\ \A a : Answer(r, a) => req'[r].call.op = "none"
  <1> DEFINE Effect == \/ req'[r].call = req[r].call \/ req'[r].call.op = "none"
                       \/ /\ req'[r].call.op \in Operations
                          /\ req'[r].call.op = "create" => req'[r].call.target \in FreshIds
  <1> HIDE DEF Effect
  <1>1. /\ DOMAIN req = Requests
        /\ req[r] \in [call : Calls, phase : Phases, row : [ct : Ciphertexts, version : Nat],
                       key : [wrap : Nat, dek : Nat], tries : Nat, answer : Answers]
    BY DEF TypeOK, RequestRecords
  <1>2. \A a : Answer(r, a) => req'[r].call.op = "none"
    BY <1>1 DEF Answer, Idle
  <1> SUFFICES Effect
    BY <1>2 DEF Effect
  <1>3. ASSUME NEW a, Answer(r, a) PROVE Effect
    BY <1>2, <1>3 DEF Effect
  <1>4. ASSUME Retry(r) PROVE Effect
    <2>1. CASE req' = [req EXCEPT ![r].phase = FirstRead(Op(r)), ![r].tries = @ + 1,
                                  ![r].row = NoRow, ![r].key = NoKey]
      BY <1>1, <2>1 DEF Effect
    <2>2. QED
      BY <1>3, <1>4, <2>1 DEF Retry
  <1>5. CASE Start(r)
    <2>1. PICK c \in PossibleCalls :
            /\ c.op \in Operations
            /\ req' = [req EXCEPT ![r] = [Idle EXCEPT !.call = c,
                   !.phase = IF c.op \in {"create", "export"} THEN "env" ELSE FirstRead(c.op)]]
      BY <1>5 DEF Start
    <2>2. req'[r].call = c
      BY <1>1, <2>1 DEF Idle
    <2>3. c.op = "create" => c.target \in FreshIds
      BY DEF PossibleCalls, Call
    <2>4. QED
      BY <2>1, <2>2, <2>3 DEF Effect
  <1>6. CASE Cancel(r) \/ Reply(r)
    BY <1>1, <1>6 DEF Cancel, Reply, Effect, Idle
  <1>7. CASE ReadEnv(r) \/ ReadSecret(r)
    <2>1. ASSUME NEW row, \/ req' = [req EXCEPT ![r].phase = "vault"]
                          \/ req' = [req EXCEPT ![r].phase = "vault", ![r].row = row]
          PROVE  Effect
      BY <1>1, <2>1 DEF Effect
    <2>2. QED
      BY <1>3, <1>7, <2>1 DEF ReadEnv, ReadSecret
  <1>8. CASE ReadVault(r)
    <2>1. CASE req' = [req EXCEPT ![r].phase = AfterVault(Op(r)),
                                  ![r].key = [wrap |-> vault.wrap, dek |-> vault.dek]]
      BY <1>1, <2>1 DEF Effect
    <2>2. QED
      BY <1>3, <1>4, <1>8, <2>1 DEF ReadVault, Decrypt
  <1>9. CASE ReadVersionToRestore(r)
    <2>1. ASSUME NEW ct, req' = [req EXCEPT ![r].phase = "write", ![r].row.ct = ct]
          PROVE  Effect
      BY <1>1, <2>1 DEF Effect
    <2>2. QED
      BY <1>3, <1>9, <2>1 DEF ReadVersionToRestore
  <1>10. CASE ReadVersionToReveal(r) \/ List(r) \/ WriteCreate(r) \/ WriteUpdate(r)
              \/ WriteDelete(r) \/ WriteRename(r)
    BY <1>3, <1>4, <1>10 DEF ReadVersionToReveal, Decrypt, List, WriteCreate, WriteUpdate,
                             WriteDelete, WriteRename
  <1>11. QED
    BY <1>5, <1>6, <1>7, <1>8, <1>9, <1>10 DEF Serve

LEMMA HistoryInit == ASSUME Init PROVE HistoryInvariant
  <1>1. \A r \in Requests : Op(r) = "none"
    BY DEF Init, Op, Idle
  <1>2. \A s \in Secrets : /\ rows[s].version = 0
                           /\ DOMAIN versions[s] = {}
    BY DEF Init, Absent
  <1>3. HistoryContiguous
    <2>1. 1..0 = {}
      OBVIOUS
    <2>2. QED
      BY <1>2, <2>1 DEF HistoryContiguous
  <1>4. QED
    BY <1>1, <1>2, <1>3, InitType DEF HistoryInvariant, NewIdsUnused

\* What the steps of requests do to row s, told apart by what the history needs.
LEMMA RowStep ==
  ASSUME HistoryInvariant, NEW r \in Requests, Start(r) \/ Serve(r) \/ Cancel(r),
         NEW s \in Secrets
  PROVE  \/ /\ rows'[s].version = rows[s].version
            /\ (rows'[s].state = "absent") <=> (rows[s].state = "absent")
            /\ UNCHANGED versions[s]
            /\ rows[s].state = "deleted" => rows'[s] = rows[s]
         \/ /\ Op(r) = "create" /\ Target(r) = s /\ req'[r].call.op = "none"
            /\ rows[s].state = "absent" /\ rows'[s].state = "live"
            /\ rows[s].version = 0 /\ rows'[s].version = 1
            /\ DOMAIN versions[s] = {} /\ DOMAIN versions'[s] = {1}
         \/ /\ rows[s].state = "live" /\ rows'[s].state = "live"
            /\ rows'[s].version = rows[s].version + 1
            /\ DOMAIN versions'[s] = DOMAIN versions[s] \cup {rows[s].version + 1}
            /\ \A n \in DOMAIN versions[s] : versions'[s][n] = versions[s][n]
  <1>1. TypeOK /\ DOMAIN rows = Secrets /\ \A t \in Secrets : rows[t] \in Rows
    BY DEF HistoryInvariant, TypeOK
  <1>2. DOMAIN versions[s] = 1..rows[s].version
    BY DEF HistoryInvariant, HistoryContiguous
  <1>3. CASE UNCHANGED <<rows, versions>>
    BY <1>3
  <1>4. CASE Created(r)
    <2>0. PICK ct : /\ Target(r) \in Secrets
                    /\ versions' = [versions EXCEPT ![Target(r)] = AddVersion(@, 1, ct)]
      BY <1>4 DEF Created
    <2>1. /\ \A t \in Secrets : t # Target(r) => versions'[t] = versions[t]
          /\ DOMAIN versions'[Target(r)] = DOMAIN versions[Target(r)] \cup {1}
      BY <1>1, <2>0, AddedVersion
    <2>2. CASE s # Target(r)
      BY <1>1, <1>4, <2>1, <2>2 DEF Created
    <2>3. CASE s = Target(r)
      <3>1. rows[s].state = "absent" /\ rows[s].version = 0
        BY <1>4, <2>3 DEF Created, HistoryInvariant, NewIdsUnused, Known
      <3>2. rows'[s].state = "live" /\ rows'[s].version = 1
        BY <1>1, <1>4, <2>3 DEF Created
      <3>3. DOMAIN versions[s] = {} /\ DOMAIN versions'[s] = {1}
        BY <1>2, <2>1, <2>3, <3>1
      <3>4. req'[r].call.op = "none" /\ Op(r) = "create"
        BY <1>1, <1>4, CallStep DEF Created
      <3>5. QED
        BY <2>3, <3>1, <3>2, <3>3, <3>4
    <2>4. QED
      BY <2>2, <2>3
  <1>5. CASE Revalued(r)
    <2> DEFINE t == Target(r)
               n == rows[t].version + 1
    <2>1. /\ \A u \in Secrets : u # t => versions'[u] = versions[u]
          /\ DOMAIN versions'[t] = DOMAIN versions[t] \cup {n}
          /\ \A m \in DOMAIN versions'[t] :
               versions'[t][m] = IF m = n THEN StoredCiphertext(r) ELSE versions[t][m]
      BY <1>1, <1>5, AddedVersion DEF Revalued
    <2>2. CASE s # t
      BY <1>1, <1>5, <2>1, <2>2 DEF Revalued
    <2>3. CASE s = t
      <3>1. /\ rows[s].state = "live" /\ rows'[s].state = "live"
            /\ rows'[s].version = rows[s].version + 1
        BY <1>1, <1>5, <2>3 DEF Revalued, Live, Rows
      <3>2. rows[s].version + 1 \notin DOMAIN versions[s]
        BY <1>1, <1>2 DEF Rows
      <3>3. QED
        BY <2>1, <2>3, <3>1, <3>2
    <2>4. QED
      BY <2>2, <2>3
  <1>6. CASE Edited(r)
    BY <1>1, <1>6 DEF Edited, Live, Rows
  <1>7. CASE Removed(r)
    BY <1>1, <1>7 DEF Removed, Live, Rows
  <1>8. QED
    BY <1>1, <1>3, <1>4, <1>5, <1>6, <1>7, TableStep

LEMMA RequestKeepsHistoryInvariant ==
  ASSUME HistoryInvariant, NEW r \in Requests, Start(r) \/ Serve(r) \/ Cancel(r), TypeOK'
  PROVE  HistoryInvariant'
  <1>1. TypeOK /\ \A s \in Secrets : rows[s] \in Rows /\ rows'[s] \in Rows
    BY DEF HistoryInvariant, TypeOK
  <1>2. HistoryContiguous'
    <2>1. ASSUME NEW s \in Secrets PROVE DOMAIN versions'[s] = 1..rows'[s].version
      <3>1. DOMAIN versions[s] = 1..rows[s].version /\ rows[s].version \in Nat
        BY <1>1 DEF HistoryInvariant, HistoryContiguous, Rows
      <3>2. /\ 1..0 = {} /\ 1..1 = {1}
            /\ 1..(rows[s].version + 1) = 1..rows[s].version \cup {rows[s].version + 1}
        BY <3>1
      <3>3. \/ rows'[s].version = rows[s].version /\ versions'[s] = versions[s]
            \/ rows'[s].version = 1 /\ DOMAIN versions'[s] = {1}
            \/ /\ rows'[s].version = rows[s].version + 1
               /\ DOMAIN versions'[s] = DOMAIN versions[s] \cup {rows[s].version + 1}
        BY RowStep
      <3>4. QED
        BY <3>1, <3>2, <3>3
    <2>2. QED
      BY <2>1 DEF HistoryContiguous
  <1>3. \A q \in Requests : q # r => req'[q] = req[q]
    BY <1>1, RequestStep
  <1>4. \/ req'[r].call = req[r].call
        \/ req'[r].call.op # "create"
        \/ req'[r].call.target \in FreshIds
    BY <1>1, CallStep
  <1>5. ASSUME NEW q \in Requests, NEW p \in Requests, req'[q].call.op = "create",
               req'[p].call.op = "create", req'[q].call.target = req'[p].call.target
        PROVE  q = p
    BY <1>3, <1>4, <1>5 DEF HistoryInvariant, NewIdsUnused, FreshIds, Op, Target
  <1>6. ASSUME NEW q \in Requests, req'[q].call.op = "create"
        PROVE  req'[q].call.target \in Secrets /\ rows'[req'[q].call.target].state = "absent"
    <2> DEFINE s == req'[q].call.target
    <2>1. s \in Secrets
      BY <1>6 DEF TypeOK, RequestRecords, Calls, SecretCall
    <2>2. rows[s].state = "absent"
      BY <1>3, <1>4, <1>6, <2>1 DEF HistoryInvariant, NewIdsUnused, FreshIds, Known, Op, Target
    <2>3. ~(Op(r) = "create" /\ Target(r) = s /\ req'[r].call.op = "none")
      BY <1>3, <1>6 DEF HistoryInvariant, NewIdsUnused, Op, Target
    <2>4. QED
      BY <2>1, <2>2, <2>3, RowStep
  <1>7. \A s \in Secrets : rows'[s].state = "absent" => rows'[s].version = 0
    <2>1. ASSUME NEW s \in Secrets, rows'[s].state = "absent" PROVE rows'[s].version = 0
      <3>1. rows[s].state = "absent" => rows[s].version = 0
        BY DEF HistoryInvariant, NewIdsUnused, Known
      <3>2. QED
        BY <2>1, <3>1, RowStep
    <2>2. QED
      BY <2>1
  <1>8. NewIdsUnused'
    BY <1>5, <1>6, <1>7 DEF NewIdsUnused, Known, Op, Target
  <1>9. QED
    BY <1>2, <1>8 DEF HistoryInvariant

\* What a rotation does to row s.
LEMMA RotatedRow ==
  ASSUME TypeOK, RotateVaultDEK, NEW s \in Secrets
  PROVE  /\ rows'[s].version = rows[s].version
         /\ rows'[s].state = rows[s].state
         /\ rows'[s].ct = Reencrypt(rows[s].ct, vault.dek, vault.dek + 1)
  BY DEF RotateVaultDEK, RowsReencrypted, TypeOK, Rows

LEMMA HistoryStep ==
  ASSUME HistoryInvariant, [Next]_vars
  PROVE  HistoryInvariant'
  <1>1. TypeOK /\ TypeOK'
    BY NextType DEF HistoryInvariant
  <1>2. ASSUME NEW r \in Requests, Start(r) \/ Serve(r) \/ Cancel(r) PROVE HistoryInvariant'
    BY <1>1, <1>2, RequestKeepsHistoryInvariant
  <1>3. CASE RotateVaultDEK
    <2>1. UNCHANGED req
      BY <1>3 DEF RotateVaultDEK
    <2>2. \A s \in Secrets : /\ rows'[s].version = rows[s].version
                             /\ rows'[s].state = rows[s].state
                             /\ DOMAIN versions'[s] = DOMAIN versions[s]
      BY <1>1, <1>3, RotatedRow, RotatedVersions
    <2>3. QED
      BY <1>1, <2>1, <2>2
         DEF HistoryInvariant, NewIdsUnused, HistoryContiguous, Known, Op, Target
  <1>4. CASE UNCHANGED <<rows, versions, req>>
    BY <1>1, <1>4 DEF HistoryInvariant, NewIdsUnused, HistoryContiguous, Known, Op, Target
  <1>5. CASE UNCHANGED vars \/ RewrapVault \/ DeleteVault \/ \E e \in Envs : DeleteEnvironment(e)
    BY <1>4, <1>5 DEF vars, RewrapVault, DeleteVault, DeleteEnvironment
  <1>6. QED
    BY <1>2, <1>3, <1>5 DEF Next

LEMMA HistoryAlways == Spec => []HistoryInvariant
  <1>1. Init => HistoryInvariant
    BY HistoryInit
  <1>2. HistoryInvariant /\ [Next]_vars => HistoryInvariant'
    BY HistoryStep
  <1>3. QED
    BY <1>1, <1>2, PTL DEF Spec

\* Concurrent updates and restores number a secret's versions without a gap and without sharing
\* a number, because the number is computed from the row when it is written.
THEOREM VersionsNumbered == Spec => []HistoryContiguous
  <1>1. HistoryInvariant => HistoryContiguous
    BY DEF HistoryInvariant
  <1>2. QED
    BY <1>1, HistoryAlways, PTL

\* No write, rotation or deletion loses a version or changes its plaintext.
THEOREM HistoryIsKept == Spec => HistoryKept
  <1> DEFINE Kept == \A s \in Secrets : \A n \in DOMAIN versions[s] :
                       /\ n \in DOMAIN versions'[s]
                       /\ versions'[s][n].val = versions[s][n].val
  <1>1. ASSUME HistoryInvariant, [Next]_vars PROVE Kept
    <2>1. TypeOK
      BY <1>1 DEF HistoryInvariant
    <2>2. ASSUME NEW r \in Requests, Start(r) \/ Serve(r) \/ Cancel(r) PROVE Kept
      BY <1>1, <2>2, RowStep
    <2>3. CASE RotateVaultDEK
      <3>1. \A s \in Secrets : \A n \in DOMAIN versions[s] : versions[s][n] \in Ciphertexts
        BY <2>1 DEF TypeOK
      <3>2. QED
        BY <2>1, <2>3, <3>1, RotatedVersions DEF Reencrypt, Ciphertexts
    <2>4. CASE UNCHANGED vars \/ RewrapVault \/ DeleteVault \/ \E e \in Envs : DeleteEnvironment(e)
      BY <2>4 DEF vars, RewrapVault, DeleteVault, DeleteEnvironment
    <2>5. QED
      BY <1>1, <2>2, <2>3, <2>4 DEF Next
  <1> HIDE DEF Kept
  <1>2. Spec => [][Kept]_vars
    BY <1>1, HistoryAlways, PTL DEF Spec
  <1>3. QED
    BY <1>2 DEF Kept, HistoryKept

\* A deleted secret keeps its value and its history, whatever was in flight when it was deleted.
THEOREM DeletionIsFinal == Spec => DeletedIsFinal
  <1> DEFINE Final == \A s \in Secrets : rows[s].state = "deleted" =>
                        /\ rows'[s].state = "deleted"
                        /\ rows'[s].version = rows[s].version
                        /\ rows'[s].ct.val = rows[s].ct.val
                        /\ DOMAIN versions'[s] = DOMAIN versions[s]
  <1>1. ASSUME HistoryInvariant, [Next]_vars PROVE Final
    <2>1. TypeOK
      BY <1>1 DEF HistoryInvariant
    <2>2. ASSUME NEW r \in Requests, Start(r) \/ Serve(r) \/ Cancel(r) PROVE Final
      BY <1>1, <2>2, RowStep
    <2>3. CASE RotateVaultDEK
      <3>1. \A s \in Secrets : rows[s].ct \in Ciphertexts
        BY <2>1 DEF TypeOK, Rows
      <3>2. QED
        BY <2>1, <2>3, <3>1, RotatedRow, RotatedVersions DEF Reencrypt, Ciphertexts
    <2>4. CASE UNCHANGED vars \/ RewrapVault \/ DeleteVault \/ \E e \in Envs : DeleteEnvironment(e)
      BY <2>4 DEF vars, RewrapVault, DeleteVault, DeleteEnvironment
    <2>5. QED
      BY <1>1, <2>2, <2>3, <2>4 DEF Next
  <1> HIDE DEF Final
  <1>2. Spec => [][Final]_vars
    BY <1>1, HistoryAlways, PTL DEF Spec
  <1>3. QED
    BY <1>2 DEF Final, DeletedIsFinal

-----------------------------------------------------------------------------
(* Names *)

\* Of the creates and deletes that race for a name, one live secret holds it at a time.
THEOREM NamesUnique == Spec => []LiveNamesUnique
  <1>1. Init => LiveNamesUnique
    BY DEF Init, LiveNamesUnique, Live, Absent
  <1>2. ASSUME HistoryInvariant, LiveNamesUnique, [Next]_vars PROVE LiveNamesUnique'
    <2>1. TypeOK /\ DOMAIN rows = Secrets /\ \A s \in Secrets : rows[s] \in Rows
      BY <1>2 DEF HistoryInvariant, TypeOK
    <2>2. CASE \A s \in Secrets : rows'[s].state = "live" => rows[s].state = "live"
      BY <1>2, <2>2 DEF LiveNamesUnique, Live
    <2>3. ASSUME NEW r \in Requests, Start(r) \/ Serve(r) \/ Cancel(r) PROVE LiveNamesUnique'
      <3>1. CASE Created(r)
        <4>1. \A s \in Secrets : s # Target(r) => rows'[s] = rows[s]
          BY <2>1, <3>1 DEF Created
        <4>2. QED
          BY <1>2, <3>1, <4>1 DEF LiveNamesUnique, Live, Created, NameTaken
      <3>2. CASE UNCHANGED <<rows, versions>> \/ Revalued(r) \/ Edited(r) \/ Removed(r)
        <4>1. \A s \in Secrets : rows'[s].state = "live" => rows[s].state = "live"
          BY <2>1, <3>2 DEF Revalued, Edited, Removed, Live, Rows
        <4>2. QED
          BY <2>2, <4>1
      <3>3. QED
        BY <2>1, <2>3, <3>1, <3>2, TableStep
    <2>4. CASE RotateVaultDEK
      BY <2>1, <2>2, <2>4, RotatedRow
    <2>5. CASE UNCHANGED vars \/ RewrapVault \/ DeleteVault \/ \E e \in Envs : DeleteEnvironment(e)
      BY <2>2, <2>5 DEF vars, RewrapVault, DeleteVault, DeleteEnvironment
    <2>6. QED
      BY <1>2, <2>3, <2>4, <2>5 DEF Next
  <1>3. QED
    BY <1>1, <1>2, HistoryAlways, PTL DEF Spec
=============================================================================
