---------------------------- MODULE SecretStore ----------------------------
(***************************************************************************)
(* Secrets of one vault under concurrent requests and key rotation.        *)
(*                                                                         *)
(* The database tables vaults (one row), environments, secrets and         *)
(* secret_versions are the shared state; a request of the API is a process *)
(* that runs a service function of                                         *)
(* apps/api/internal/secrets/service.go one SQL statement (or one          *)
(* transaction) at a time, keeping what it read in its own variables.      *)
(* Data key rotation and master key re-wrapping are single transactions    *)
(* (apps/api/internal/keys/keys.go).  PostgreSQL runs at READ COMMITTED:   *)
(* a statement sees what was committed before it started.                  *)
(*                                                                         *)
(* A data key (DEK) is a number, and so is the wrapped form of one stored  *)
(* in vaults.encrypted_dek: wrapping draws a nonce, so every wrap gives    *)
(* other bytes, also of the same DEK.  A ciphertext is the pair of the     *)
(* DEK it was made with and the plaintext; opening it with another DEK     *)
(* fails (AES-GCM).                                                        *)
(***************************************************************************)
EXTENDS Naturals, FiniteSets

CONSTANTS
    Requests,     \* slots for requests the API serves at the same time
    Secrets,      \* secret ids (a row's UUID), used at most once each
    Envs,         \* the vault's environments
    Keys,         \* key names
    EnvOf,        \* the environment a secret id is created in
    KeyOf,        \* the key name a secret id is created with
    Values,       \* plaintext values
    None,         \* no value, no target
    Operations,   \* the operations this instance lets happen
    MaxAttempts,  \* maxKeyAttempts of the service
    MaxHistory,   \* bound: the secret_versions table gets no longer than this
    MaxWraps      \* bound: the vault's key is wrapped at most this often

SecretWrites == {"create", "update", "edit", "restore"}
SecretReads  == {"reveal", "reveal_version", "export"}
AllOperations ==
    SecretWrites \cup SecretReads
        \cup {"delete", "rename", "rotate_dek", "rewrap", "delete_env", "delete_vault", "cancel"}

ASSUME ConstantsAssumption ==
    /\ EnvOf \in [Secrets -> Envs]
    /\ KeyOf \in [Secrets -> Keys]
    /\ None \notin Values \cup Secrets \cup Envs
    /\ Operations \subseteq AllOperations
    /\ MaxAttempts \in Nat \ {0}
    /\ MaxHistory \in Nat
    /\ MaxWraps \in Nat

VARIABLES
    vault,     \* the vault's row: wrapped key, the DEK inside it, not deleted
    envLive,   \* environments.deleted_at IS NULL
    rows,      \* the secrets table
    versions,  \* the secret_versions table, by secret and version number
    req,       \* what each request is doing and has read
    began      \* history: the wrapped key in place when the request started

vars == <<vault, envLive, rows, versions, req, began>>

-----------------------------------------------------------------------------
(* Rows and ciphertexts *)

Blank == [dek |-> 0, val |-> None]
Ciphertexts == [dek : Nat, val : Values \cup {None}]

Absent == [state |-> "absent", ct |-> Blank, version |-> 0]
Rows == [state : {"absent", "live", "deleted"}, ct : Ciphertexts, version : Nat]
Live(s) == rows[s].state = "live"

Encrypt(dek, v) == [dek |-> dek, val |-> v]
Readable(ct, dek) == ct.dek = dek
Reencrypt(ct, old, new) == IF ct.dek = old THEN [ct EXCEPT !.dek = new] ELSE ct

-----------------------------------------------------------------------------
(* Requests *)

Phases == {"idle", "env", "secret", "vault", "version", "list", "write", "done"}
Answers == {"none", "ok", "not_found", "duplicate", "is_current", "key_changed"}
NoKey == [wrap |-> 0, dek |-> 0]
NoRow == [ct |-> Blank, version |-> 0]

SecretCall(ops, vals, numbers) == [op : ops, target : Secrets, val : vals, number : numbers]

Calls ==
    SecretCall({"create", "update"}, Values, {0})
        \cup SecretCall({"restore", "reveal_version"}, {None}, Nat)
        \cup SecretCall({"edit", "delete", "reveal"}, {None}, {0})
        \cup [op : {"export"}, target : Envs, val : {None}, number : {0}]
        \cup [op : {"rename", "none"}, target : {None}, val : {None}, number : {0}]

Idle == [call |-> [op |-> "none", target |-> None, val |-> None, number |-> 0],
         phase |-> "idle", row |-> NoRow, key |-> NoKey, tries |-> 0, answer |-> "none"]

\* The service's retry loop starts here again after ErrKeyChanged.
FirstRead(op) == IF op \in {"create", "export", "rename"} THEN "vault" ELSE "secret"

Op(r) == req[r].call.op
Target(r) == req[r].call.target
At(r, phase) == req[r].phase = phase

\* The service function has returned; what it had read is gone.
Answer(r, a) == req' = [req EXCEPT ![r] = [Idle EXCEPT !.phase = "done", !.answer = a]]

\* Faults, here and below, are for the mutation checks only.  Fault: retries without a limit.
RetryUnbounded(r) ==
    req' = [req EXCEPT ![r].phase = FirstRead(Op(r)), ![r].row = NoRow, ![r].key = NoKey]

\* Fault: an export lists again without reading the vault's key again.
RetryWithSameKey(r) ==
    IF req[r].tries + 1 < MaxAttempts
    THEN req' = [req EXCEPT ![r].phase = IF Op(r) = "export" THEN "list" ELSE FirstRead(Op(r)),
                            ![r].tries = @ + 1]
    ELSE Answer(r, "key_changed")

\* retryOnKeyChange: the attempt ended with ErrKeyChanged.
Retry(r) ==
    IF req[r].tries + 1 < MaxAttempts
    THEN req' = [req EXCEPT ![r].phase = FirstRead(Op(r)), ![r].tries = @ + 1,
                            ![r].row = NoRow, ![r].key = NoKey]
    ELSE Answer(r, "key_changed")

\* decrypt: the request is finished when the DEK it read opens the ciphertext.
Decrypt(r, ct, key) == IF Readable(ct, key.dek) THEN Answer(r, "ok") ELSE Retry(r)

\* Ids that uuid.New has not produced yet.
FreshIds == {s \in Secrets : /\ rows[s].state = "absent"
                             /\ \A r \in Requests : Target(r) # s}

\* Bound: a request that adds a version starts only while the history is short enough.
Room ==
    Cardinality({p \in Secrets \X (1..MaxHistory) : p[2] \in DOMAIN versions[p[1]]})
      + Cardinality({r \in Requests : Op(r) \in {"create", "update", "restore"}})
    < MaxHistory

Known == {s \in Secrets : rows[s].state # "absent"}

Call(op, t, v, n) == [op |-> op, target |-> t, val |-> v, number |-> n]

PossibleCalls ==
    {Call("create", s, v, 0) : s \in FreshIds, v \in Values}
        \cup {Call("update", s, v, 0) : s \in Known, v \in Values}
        \cup {Call(op, s, None, n) : op \in {"restore", "reveal_version"}, s \in Known,
                                     n \in 1..MaxHistory}
        \cup {Call(op, s, None, 0) : op \in {"edit", "delete", "reveal"}, s \in Known}
        \cup {Call("export", e, None, 0) : e \in Envs}
        \cup {Call("rename", None, None, 0)}

\* A request arrives.  Creating and exporting read the environment once, before the retry loop.
Start(r) ==
    /\ At(r, "idle")
    /\ \E c \in {d \in PossibleCalls : d.op \in Operations} :
         /\ c.op \in {"create", "update", "restore"} => Room
         /\ req' = [req EXCEPT ![r] = [Idle EXCEPT !.call = c,
                   !.phase = IF c.op \in {"create", "export"} THEN "env" ELSE FirstRead(c.op)]]
    /\ began' = [began EXCEPT ![r] = vault.wrap]
    /\ UNCHANGED <<vault, envLive, rows, versions>>

\* envRepo.GetByID outside the retry loop.
ReadEnv(r) ==
    /\ At(r, "env")
    /\ LET e == IF Op(r) = "create" THEN EnvOf[Target(r)] ELSE Target(r) IN
       IF envLive[e] THEN req' = [req EXCEPT ![r].phase = "vault"] ELSE Answer(r, "not_found")
    /\ UNCHANGED <<vault, envLive, rows, versions, began>>

\* secretRepo.GetByID: the row as committed now is copied into the request.
ReadSecret(r) ==
    /\ At(r, "secret")
    /\ IF Live(Target(r))
       THEN req' = [req EXCEPT ![r].phase = "vault", ![r].row =
                      [ct |-> rows[Target(r)].ct, version |-> rows[Target(r)].version]]
       ELSE Answer(r, "not_found")
    /\ UNCHANGED <<vault, envLive, rows, versions, began>>

\* Fault: a phase that no step serves.
AfterVaultUnserved(op) ==
    IF op = "delete" THEN "lock" ELSE IF op = "export" THEN "list" ELSE "write"

AfterVault(op) ==
    CASE op \in {"reveal_version", "restore"} -> "version"
      [] op = "export" -> "list"
      [] OTHER -> "write"

\* The functions that start from a secret read its environment (again) before the vault.
EnvironmentGone(r) == FirstRead(Op(r)) = "secret" /\ ~envLive[EnvOf[Target(r)]]

\* vaultRepo.GetByID.  RevealSecret decrypts what it has read as soon as it has the vault.
ReadVault(r) ==
    /\ At(r, "vault")
    /\ LET found == vault.live /\ ~EnvironmentGone(r)
           key == [wrap |-> vault.wrap, dek |-> vault.dek]
       IN \/ ~found /\ Answer(r, "not_found")
          \/ found /\ Op(r) = "reveal" /\ Decrypt(r, req[r].row.ct, key)
          \/ /\ found /\ Op(r) # "reveal"
             /\ req' = [req EXCEPT ![r].phase = AfterVault(Op(r)), ![r].key = key]
    /\ UNCHANGED <<vault, envLive, rows, versions, began>>

\* RestoreVersion: restoring the version that the secret read has is refused, any other
\* version's ciphertext is copied into the request.
ReadVersionToRestore(r) ==
    /\ At(r, "version") /\ Op(r) = "restore"
    /\ LET n == req[r].call.number
           history == versions[Target(r)]
           isCurrent == n = req[r].row.version
       IN \/ isCurrent /\ Answer(r, "is_current")
          \/ ~isCurrent /\ n \notin DOMAIN history /\ Answer(r, "not_found")
          \/ /\ ~isCurrent /\ n \in DOMAIN history
             /\ req' = [req EXCEPT ![r].phase = "write", ![r].row.ct = history[n]]
    /\ UNCHANGED <<vault, envLive, rows, versions, began>>

\* RevealVersion.
ReadVersionToReveal(r) ==
    /\ At(r, "version") /\ Op(r) = "reveal_version"
    /\ LET n == req[r].call.number
           history == versions[Target(r)]
       IN IF n \in DOMAIN history
          THEN Decrypt(r, history[n], req[r].key)
          ELSE Answer(r, "not_found")
    /\ UNCHANGED <<vault, envLive, rows, versions, began>>

\* ExportEnvironment lists the environment's secrets and decrypts every one of them.
List(r) ==
    /\ At(r, "list")
    /\ IF \A s \in Secrets : Live(s) /\ EnvOf[s] = Target(r)
                               => Readable(rows[s].ct, req[r].key.dek)
       THEN Answer(r, "ok")
       ELSE Retry(r)
    /\ UNCHANGED <<vault, envLive, rows, versions, began>>

-----------------------------------------------------------------------------
(* The writing transactions *)

\* Fault: the transaction does not compare the wrapped key.
KeyUnchecked(r) == TRUE

\* withVaultKey: under a share lock, the wrapped key must be the one the request read.
KeyUnchanged(r) == vault.wrap = req[r].key.wrap

\* Fault: no unique index.
NameNeverTaken(s) == FALSE

\* The partial unique index on (environment_id, key_name) WHERE deleted_at IS NULL.
NameTaken(s) == \E t \in Secrets : Live(t) /\ EnvOf[t] = EnvOf[s] /\ KeyOf[t] = KeyOf[s]

AddVersion(table, n, ct) == [m \in DOMAIN table \cup {n} |-> IF m = n THEN ct ELSE table[m]]

\* Repository Create: the row and its version 1.
WriteCreate(r) ==
    /\ At(r, "write") /\ Op(r) = "create"
    /\ LET s == Target(r)
           ct == Encrypt(req[r].key.dek, req[r].call.val)
       IN \/ ~KeyUnchanged(r) /\ Retry(r) /\ UNCHANGED <<rows, versions>>
          \/ /\ KeyUnchanged(r) /\ NameTaken(s) /\ Answer(r, "duplicate")
             /\ UNCHANGED <<rows, versions>>
          \/ /\ KeyUnchanged(r) /\ ~NameTaken(s) /\ Answer(r, "ok")
             /\ rows' = [rows EXCEPT ![s] = [state |-> "live", ct |-> ct, version |-> 1]]
             /\ versions' = [versions EXCEPT ![s] = AddVersion(@, 1, ct)]
    /\ UNCHANGED <<vault, envLive, began>>

\* What Update stores: a fresh encryption, the copied version, or (metadata only) the
\* ciphertext that was read with the secret.
StoredCiphertext(r) ==
    IF Op(r) = "update" THEN Encrypt(req[r].key.dek, req[r].call.val) ELSE req[r].row.ct

\* Fault: restoring counts as a metadata change.
OnlyUpdatesChangeValue(r) == Op(r) = "update"

\* Update's valueChanged argument.
ValueChanged(r) == Op(r) # "edit"

\* Fault: the row is written although it was deleted after it was read.
AssumedThere(r) == TRUE

\* Update's WHERE deleted_at IS NULL, evaluated when the row is written.
StillThere(r) == Live(Target(r))

\* Fault: the number is computed from the version that was read.
NextVersionFromRead(r) == req[r].row.version + (IF ValueChanged(r) THEN 1 ELSE 0)

\* Update's version = version + 1, computed from the row as it is when it is written.
NextVersion(r) == rows[Target(r)].version + (IF ValueChanged(r) THEN 1 ELSE 0)

\* Repository Update: the row, and a version unless only metadata changed.
WriteUpdate(r) ==
    /\ At(r, "write") /\ Op(r) \in {"update", "edit", "restore"}
    /\ LET s == Target(r)
           ct == StoredCiphertext(r)
           n == NextVersion(r)
       IN \/ ~KeyUnchanged(r) /\ Retry(r) /\ UNCHANGED <<rows, versions>>
          \/ /\ KeyUnchanged(r) /\ ~StillThere(r) /\ Answer(r, "not_found")
             /\ UNCHANGED <<rows, versions>>
          \/ /\ KeyUnchanged(r) /\ StillThere(r) /\ Answer(r, "ok")
             /\ rows' = [rows EXCEPT ![s].ct = ct, ![s].version = n]
             /\ versions' = IF ValueChanged(r) THEN [versions EXCEPT ![s] = AddVersion(@, n, ct)]
                            ELSE versions
    /\ UNCHANGED <<vault, envLive, began>>

\* Repository Delete: a soft delete that takes no lock on the vault.
WriteDelete(r) ==
    /\ At(r, "write") /\ Op(r) = "delete"
    /\ IF Live(Target(r))
       THEN Answer(r, "ok") /\ rows' = [rows EXCEPT ![Target(r)].state = "deleted"]
       ELSE Answer(r, "not_found") /\ UNCHANGED rows
    /\ UNCHANGED <<vault, envLive, versions, began>>

\* Fault: UpdateVault writes the whole row it has read, the wrapped key included.
WriteWholeVault(r) ==
    /\ At(r, "write") /\ Op(r) = "rename"
    /\ Answer(r, IF vault.live THEN "ok" ELSE "not_found")
    /\ vault' = [vault EXCEPT !.wrap = req[r].key.wrap, !.dek = req[r].key.dek]
    /\ UNCHANGED <<envLive, rows, versions, began>>

\* UpdateVault: name and description only, never the wrapped key it has read.
WriteRename(r) ==
    /\ At(r, "write") /\ Op(r) = "rename"
    /\ Answer(r, IF vault.live THEN "ok" ELSE "not_found")
    /\ UNCHANGED <<vault, envLive, rows, versions, began>>

\* The response is sent.
Reply(r) ==
    /\ At(r, "done")
    /\ req' = [req EXCEPT ![r] = Idle]
    /\ began' = [began EXCEPT ![r] = 0]
    /\ UNCHANGED <<vault, envLive, rows, versions>>

\* The client disconnects or the process stops: the open transaction is rolled back.
Cancel(r) ==
    /\ "cancel" \in Operations
    /\ req[r].phase \notin {"idle", "done"}
    /\ req' = [req EXCEPT ![r] = Idle]
    /\ began' = [began EXCEPT ![r] = 0]
    /\ UNCHANGED <<vault, envLive, rows, versions>>

-----------------------------------------------------------------------------
(* Keys and containers *)

\* Fault: deleted secrets keep their ciphertext.
LiveRowsReencrypted(old, new) ==
    [s \in Secrets |-> IF Live(s) THEN [rows[s] EXCEPT !.ct = Reencrypt(@, old, new)] ELSE rows[s]]

\* Every secret of the vault, deleted ones included.
RowsReencrypted(old, new) ==
    [s \in Secrets |-> [rows[s] EXCEPT !.ct = Reencrypt(@, old, new)]]

\* Every earlier value.
VersionsReencrypted(old, new) ==
    [s \in Secrets |-> [n \in DOMAIN versions[s] |-> Reencrypt(versions[s][n], old, new)]]

\* RotateVaultDEK: a new data key, and every stored value encrypted under it, in one
\* transaction.  One value that does not open rolls the whole rotation back.
RotateVaultDEK ==
    /\ "rotate_dek" \in Operations
    /\ vault.live /\ vault.wrap < MaxWraps
    /\ \A s \in Known : /\ Readable(rows[s].ct, vault.dek)
                        /\ \A n \in DOMAIN versions[s] : Readable(versions[s][n], vault.dek)
    /\ vault' = [vault EXCEPT !.dek = @ + 1, !.wrap = @ + 1]
    /\ rows' = RowsReencrypted(vault.dek, vault.dek + 1)
    /\ versions' = VersionsReencrypted(vault.dek, vault.dek + 1)
    /\ UNCHANGED <<envLive, req, began>>

\* rewrapVault, for a vault that is still under an earlier master key.
RewrapVault ==
    /\ "rewrap" \in Operations
    /\ vault.wrap < MaxWraps
    /\ vault' = [vault EXCEPT !.wrap = @ + 1]
    /\ UNCHANGED <<envLive, rows, versions, req, began>>

DeleteEnvironment(e) ==
    /\ "delete_env" \in Operations
    /\ envLive[e]
    /\ envLive' = [envLive EXCEPT ![e] = FALSE]
    /\ UNCHANGED <<vault, rows, versions, req, began>>

DeleteVault ==
    /\ "delete_vault" \in Operations
    /\ vault.live
    /\ vault' = [vault EXCEPT !.live = FALSE]
    /\ UNCHANGED <<envLive, rows, versions, req, began>>

-----------------------------------------------------------------------------
\* A new vault with live environments and no secrets.
Init ==
    /\ vault = [wrap |-> 1, dek |-> 1, live |-> TRUE]
    /\ envLive = [e \in Envs |-> TRUE]
    /\ rows = [s \in Secrets |-> Absent]
    /\ versions = [s \in Secrets |-> [n \in {} |-> Blank]]
    /\ req = [r \in Requests |-> Idle]
    /\ began = [r \in Requests |-> 0]

\* A step of a request that has arrived.
Serve(r) ==
    \/ ReadEnv(r)
    \/ ReadSecret(r)
    \/ ReadVault(r)
    \/ ReadVersionToRestore(r)
    \/ ReadVersionToReveal(r)
    \/ List(r)
    \/ WriteCreate(r)
    \/ WriteUpdate(r)
    \/ WriteDelete(r)
    \/ WriteRename(r)
    \/ Reply(r)

Next ==
    \/ \E r \in Requests : Start(r) \/ Serve(r) \/ Cancel(r)
    \/ RotateVaultDEK
    \/ RewrapVault
    \/ \E e \in Envs : DeleteEnvironment(e)
    \/ DeleteVault

Spec == Init /\ [][Next]_vars

\* The server finishes every request it has taken: no statement waits forever, because the
\* transactions take the vault row before any secret row and hold nothing while they wait for it.
FairSpec == Spec /\ \A r \in Requests : WF_vars(Serve(r))

-----------------------------------------------------------------------------
(* Properties *)

\* Only a call for a secret reads one, and only a request that was answered has no call.
RequestRecords ==
    {q \in [call : Calls, phase : Phases, row : [ct : Ciphertexts, version : Nat],
            key : [wrap : Nat, dek : Nat], tries : Nat, answer : Answers] :
        /\ q.phase = "secret" => FirstRead(q.call.op) = "secret"
        /\ q.call.op = "none" => q.phase \in {"idle", "done"}}

TypeOK ==
    /\ vault \in [wrap : Nat, dek : Nat \ {0}, live : BOOLEAN]
    /\ envLive \in [Envs -> BOOLEAN]
    /\ rows \in [Secrets -> Rows]
    /\ versions = [s \in Secrets |-> [n \in DOMAIN versions[s] |-> versions[s][n]]]
    /\ \A s \in Secrets : /\ DOMAIN versions[s] \subseteq Nat
                          /\ \A n \in DOMAIN versions[s] : versions[s][n] \in Ciphertexts
    /\ req \in [Requests -> RequestRecords]
    /\ began \in [Requests -> Nat]

\* Every entry of a secret's history opens with the vault's data key, whatever writes raced
\* with rotations: what RestoreVersion relies on to copy ciphertext, and what keeps a rotation,
\* which decrypts all of it, possible.
HistoryReadable ==
    \A s \in Secrets : \A n \in DOMAIN versions[s] : Readable(versions[s][n], vault.dek)

\* The current value of every secret, deleted ones included, opens with the vault's data key.
CurrentReadable == \A s \in Known : Readable(rows[s].ct, vault.dek)

\* A secret's versions are numbered 1, 2, ... up to the number on its row: concurrent updates
\* and restores neither share a number nor leave a gap.
HistoryContiguous == \A s \in Secrets : DOMAIN versions[s] = 1..rows[s].version

\* The newest entry of a secret's history is its current value, so that the current value can
\* be found again after the next update.
NewestIsCurrent ==
    \A s \in Known : /\ rows[s].version \in DOMAIN versions[s]
                     /\ versions[s][rows[s].version].val = rows[s].ct.val

\* Concurrent creates and deletes never leave two live secrets with one name.
LiveNamesUnique ==
    \A s, t \in Secrets :
        Live(s) /\ Live(t) /\ EnvOf[s] = EnvOf[t] /\ KeyOf[s] = KeyOf[t] => s = t

\* Rotation and writes never change or lose the plaintext of an existing version.
HistoryKept ==
    [][\A s \in Secrets : \A n \in DOMAIN versions[s] :
         /\ n \in DOMAIN versions'[s]
         /\ versions'[s][n].val = versions[s][n].val]_vars

\* A write that was in flight when its secret was deleted changes nothing about it and adds
\* no version; no secret comes back.
DeletedIsFinal ==
    [][\A s \in Secrets : rows[s].state = "deleted" =>
         /\ rows'[s].state = "deleted"
         /\ rows'[s].version = rows[s].version
         /\ rows'[s].ct.val = rows[s].ct.val
         /\ DOMAIN versions'[s] = DOMAIN versions[s]]_vars

\* A metadata-only update keeps the stored value: the value before it is the value after it.
MetadataUpdateKeepsValue ==
    [][\A r \in Requests :
         At(r, "write") /\ Op(r) = "edit" /\ req'[r].answer = "ok"
           => rows'[Target(r)].ct.val = rows[Target(r)].ct.val]_vars

\* As long as every value is readable, a request is only told that the key changed when the
\* key changed during each of its attempts: a retry reads all that the next attempt needs again.
GivesUpOnlyAfterKeyChanges ==
    \A r \in Requests :
        req[r].answer = "key_changed" /\ CurrentReadable
          => vault.wrap >= began[r] + MaxAttempts

\* Every request is answered (or abandoned).
EveryRequestEnds == \A r \in Requests : (req[r].phase # "idle") ~> (req[r].phase = "idle")

\* What makes HistoryReadable inductive.  The wrapped key a request has read identifies the data
\* key inside it, and the version that a restore has copied opens with that data key.
KeysIdentified ==
    \A r \in Requests : /\ req[r].key.wrap <= vault.wrap
                        /\ KeyUnchanged(r) => req[r].key.dek = vault.dek

CopiesReadable ==
    \A r \in Requests : At(r, "write") /\ Op(r) = "restore" /\ KeyUnchanged(r)
                          => Readable(req[r].row.ct, vault.dek)

KeyInvariant ==
    TypeOK /\ vault.wrap > 0 /\ KeysIdentified /\ CopiesReadable /\ HistoryReadable

\* What makes HistoryContiguous inductive: a secret id being created has no row, no history
\* and no other request creating it.
NewIdsUnused ==
    /\ \A r, q \in Requests : Op(r) = "create" /\ Op(q) = "create" /\ Target(r) = Target(q) => r = q
    /\ \A r \in Requests : Op(r) = "create" => Target(r) \notin Known
    /\ \A s \in Secrets : s \notin Known => rows[s].version = 0

HistoryInvariant == TypeOK /\ NewIdsUnused /\ HistoryContiguous

\* Without metadata-only updates, what makes CurrentReadable, NewestIsCurrent and the refinement
\* below inductive.
OperationsAllowed == \A r \in Requests : Op(r) \in Operations \cup {"none"}

ValuesStored ==
    /\ \A s \in Secrets : \A n \in DOMAIN versions[s] : versions[s][n].val \in Values
    /\ \A r \in Requests : At(r, "write") /\ Op(r) = "restore" => req[r].row.ct.val \in Values
    /\ \A s \in Secrets : s \notin Known => rows[s].ct.val = None

ValueInvariant ==
    /\ KeyInvariant /\ HistoryInvariant /\ OperationsAllowed /\ ValuesStored
    /\ CurrentReadable /\ NewestIsCurrent

-----------------------------------------------------------------------------
(* Refinement *)

\* What the vault's key makes of a stored ciphertext.
Plaintext(ct) == IF Readable(ct, vault.dek) THEN ct.val ELSE None

\* The value of version n as RevealVersion would return it.
VersionPlaintext(s, n) ==
    IF n \in DOMAIN versions[s] THEN Plaintext(versions[s][n]) ELSE None

HistoryNames == [s \in Secrets |-> <<EnvOf[s], KeyOf[s]>>]
HistoryStatus == [s \in Secrets |-> rows[s].state]
HistoryLog == [s \in Secrets |-> [n \in 1..rows[s].version |-> VersionPlaintext(s, n)]]
HistoryCurrent == [s \in Secrets |-> Plaintext(rows[s].ct)]

History == INSTANCE SecretHistory WITH
    NameOf <- HistoryNames, status <- HistoryStatus, log <- HistoryLog, current <- HistoryCurrent

\* Requests that race with each other and with rotations look like an append-only history of
\* readable values per secret: rotations and retries are invisible.
ImplementsHistory == History!AbstractSpec
=============================================================================
