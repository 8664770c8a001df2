# DevOps Secrets Manager: a TLA+ verification project

The modules here model DevOps Secrets Manager: the server (`apps/api`, Go with PostgreSQL) at the
level of the SQL statements its requests run, and the web client (`apps/web`, React) at the level
of clicks, requests in flight and their answers. TLC checks them on small instances; TLAPS proves
the most important invariants for every value of the constants.

Contents: [the system](#1-the-system), [the plan](#2-the-plan), [how to run](#3-running-the-checks),
[SecretStore](#4-secretstore-values-versions-and-key-rotation),
[Accounts](#5-accounts-sign-in-lockout-and-reset-links),
[WebSession](#6-websession-tabs-that-share-a-cookie), [VaultPage](#7-vaultpage-the-page-of-a-vault),
[the other screens](#8-the-other-screens), [proofs](#9-what-is-proved),
[disagreements found](#10-where-code-and-documentation-disagree),
[limits](#11-what-is-not-modelled).

## 1. The system

The repository holds a Go API, a React web client and a Rust command line client. All durable
state is in PostgreSQL; the API keeps none between requests besides rate limit counters and the
master keys read at start. Every request is a goroutine that runs one SQL statement after the
other, mostly without a surrounding transaction, at READ COMMITTED. That is where the hard
behaviour is: what one statement read may be stale when the next one writes.

| Component | State | Operations | What must hold |
|---|---|---|---|
| Secrets (`internal/secrets`) | `secrets`, `secret_versions` | create, update (value or metadata only), restore a version, delete, reveal, reveal a version, export, import, copy between environments | every stored value can be decrypted; the history is numbered without gap and never loses a value; live names are unique; deletion is final |
| Vault keys (`internal/keys`, `internal/crypto`) | `vaults.encrypted_dek`, `kek_version`, the keyring from the environment | rotate a vault's data key, re-wrap all data keys under a new master key, check the keyring at start | a rotation leaves no value behind; a retired master key is never needed |
| Vaults, environments | `vaults`, `environments` | create, rename, soft delete, list | a rename does not touch keys; a vault has a member |
| Sign-in (`internal/auth`, `tokens`, `users`) | `users` (password, verified, failures, lock), `refresh_tokens`, `user_sessions`, `password_reset_tokens`, `email_verification_tokens` | register, login, refresh, logout, revoke one or all other sessions, change or reset the password, verify an address | one usable token per session; a sign-out lasts; links work once; guesses are bounded |
| Organizations, invites | `organizations`, `organization_members`, `organization_invites` | create, change a role, remove a member, invite, accept, revoke | an owner remains; an invite is used once |
| Vault members, access policy | `vault_members`, role tables in code | add, change, remove; effective role of a user for a vault | membership needs the organization's; roles order permissions |
| Service tokens | `service_tokens` | create, revoke, authenticate, read one environment | a revoked or expired token reads nothing |
| Audit log, statistics, mail | `audit_logs` | append, filtered reads, send | follow the operation; nothing depends on them |
| HTTP layer, rate limits | counters in memory | decode, authorize, limit | handlers call one service function each |
| Web: API client, `AuthContext` | access token and user in each tab's memory, refresh cookie shared by tabs | refresh once per tab, retry on 401, sign in and out, reload | one refresh at a time; nothing waits for ever; tabs do not sign each other out |
| Web: vault page | tab, filter, ticked boxes, dialog on top, cached lists, mutations in flight | reveal, delete (one, many, an environment), create, follow a search result | the value shown is that of the secret named; what is deleted was confirmed by typing and, unless the page was moved under ticked boxes, is of the environment named |
| Web: dialogs of that page | previews, typed values, new tokens, versions | import, copy, create and edit, restore, create and revoke tokens | what was previewed is what happens; a value goes to the secret it was typed for |
| Web: organizations, members | choice per user in the browser, cached lists | switch, rename, change roles, remove, invite | the page offers what the API allows; removal takes the address to be typed |
| Web: joining, settings, audit log, search, .env files | steps of a flow, timers, cached pages and results | accept, register, verify, reset, change password, page, search | a page says only what happened |
| CLI | tokens in the keyring or a file | login, refresh and save, commands | a saved pair belongs together |

Handlers authorize the caller (`http/authorize.go`, `policy`) and call one service function. The
services meet in the database only: `keys` rewrites the tables of `secrets` and of `vaults`;
`auth` ends the sessions that the clients of the web and CLI hold; `organizations` and
`policy` decide what `secrets` may be asked. There are no queues and no callbacks; the only work
outside a request is sending mail and the operator's command `cmd/keys`.

`PROJECT.json` lists every component with its sources and status, and under `hazards` each place
where a test would hardly reach what can go wrong, with the property that watches over it or the
reason none does.

## 2. The plan

Done, in order of importance:

1. `SecretStore`, `SecretHistory`: values, versions, retries and data key rotation, and
   the abstract history they implement. Proofs: `SecretStoreProofs`, `SecretHistoryProofs`.
2. `Accounts`: sessions, refresh tokens, lockout, reset links. Proofs: `AccountsProofs`.
3. `WebSession`: tabs, their refreshes and the cookie, with what the API does for them. Proofs:
   `WebSessionProofs`.
4. `VaultPage`: the page most work is done on. Proofs: `VaultPageProofs`.
5. Eleven modules for the other screens and dialogs of the web client, checked together in
   `WebScreens`. Proofs: `DialogProofs` (tokens, import and copy, the form and history of a
   secret), `MembershipProofs` (choice and members of an organization, members of a vault,
   joining), `ConsoleProofs` (settings, search box, audit log, and the screens together).

Left:

6. `SecretImport`: import and copy between environments on top of SecretStore: the statements of
   each pair, and the vault that CopySecrets reads outside its retry.
7. `Members`: the statements of organizations, invites, vault members and service tokens: two
   owners demoted at once, invites claimed twice, members that leave while they are added.
   Abstract specification: the set of (user, vault) pairs with access.
8. `KeyRotation`: keyring versions, an interrupted re-wrap of all vaults, the startup check and a
   retired key; proof that a vault's key can always be unwrapped while the procedure of the
   documentation is followed.
9. `Policy`: the role tables and the effective role as operators, against a reference definition
   by the order of roles.
10. `AccountLinks`: passwords told apart and races of verification links; `CliTokens`;
    `ConnectionPool`: requests that hold one connection and wait for another; `RateLimit`.

Every invariant and action property of the passing runs but `RoundTrip` is a theorem, and so is,
for each of the six runs that find a violation, a condition under which it cannot happen. Theorems
still to prove are those of the modules left: the refinement of Members, the invariants of
SecretImport and KeyRotation.

## 3. Running the checks

    tlc -workers 2 -config SecretWrites.cfg MCSecretStore.tla     # about 100 s
    tlc -workers 2 -config SecretRequests.cfg MCSecretStore.tla   # about 50 s
    tlc -workers 2 -config AccountRequests.cfg MCAccounts.tla     # about 35 s
    tlc -workers 2 -config WebSession.cfg MCWebSession.tla        # about 80 s
    tlc -workers 2 -config VaultPage.cfg MCVaultPage.tla          # about 105 s
    tlc -workers 2 -config WebScreens.cfg MCWebScreens.tla        # about 100 s
    tlapm M.tla        # for each of the eight modules M whose names end in Proofs

The configurations `EditStaleKey`, `EditLostUpdate` (with MCSecretStore), `SignOutDuringRefresh`,
`TwoResetLinks`, `LockOverflow` (with MCAccounts) and `RefreshLoser` (with MCWebSession) end with
a counterexample each, see section 10. Definitions after a "Fault:" comment are not part of the
specification: they are variants with a plausible bug that stand beside the definition they
would replace, and show that each property can fail.

## 4. SecretStore: values, versions and key rotation

### State

`vault` is the vault's row: `wrap` stands for the bytes of `encrypted_dek`, `dek` for the data key
inside. Both are numbers; a new wrap is a new number even for the same data key, because wrapping
draws a nonce. A ciphertext is the pair of a data key and a plaintext, and opens with that key
only (AES-GCM). `rows` and `versions` are the tables `secrets` and `secret_versions`, `envLive`
the environments that are not soft-deleted. `req[r]` is one request: the call, the statement it
comes to next, the row, the version and the wrapped key it has read, and its number of attempts.
`began` is a history variable: the wrapped key when the request arrived.

### Actions

| Action | Code |
|---|---|
| `Start` | a handler calls a function of `SecretService`, or `UpdateVault` |
| `ReadEnv` | `envRepo.GetByID` before the retry loop (create, export) |
| `ReadSecret` | `secretRepo.GetByID`, first statement of each attempt |
| `ReadVault` | `secretWithVault`'s `envRepo.GetByID` and `vaultRepo.GetByID`. The two reads are one step: an environment that goes away between them only moves the answer, and nothing is kept of it. `RevealSecret` decrypts here |
| `ReadVersionToRestore`, `ReadVersionToReveal`, `List` | the third read of restore, of revealing a version, and of export |
| `WriteCreate`, `WriteUpdate` | the transactions of `repository_postgres.go`, `withVaultKey` included: a share lock on the vault's row and the comparison of the wrapped key |
| `WriteDelete`, `WriteRename` | single statements without that lock |
| `RotateVaultDEK`, `RewrapVault` | the transactions of `keys.go`, with the vault locked for update |
| `DeleteEnvironment`, `DeleteVault` | soft deletes |
| `Cancel` | the client goes away or the process stops: nothing uncommitted stays |

A write transaction is one step: it holds the vault row's lock from its first statement to its
commit, which excludes rotations, and a row it updates is read again under the row's lock.
`Retry` is `retryOnKeyChange`: at most `maxKeyAttempts` attempts, each from `FirstRead`.

### Runs

| Run | Instance | Shows |
|---|---|---|
| `secret_writes` | 2 requests, 2 secret ids with one name, 2 values, 4 history entries, 3 wraps; create, update, restore, delete, rotate, re-wrap | readable values, versions numbered without gap, newest version is the current value, unique names, deletion is final, implements `SecretHistory` |
| `secret_requests` | 1 request of every kind, rotations, re-wraps, rename, deletions and cancellation between any two statements; 5 wraps; weak fairness | the history stays readable; requests end; they give up only after the key changed in each of their attempts; a rename leaves the key alone |
| `edit_stale_key`, `edit_lost_update` | metadata-only updates with rotation, with another update | section 10 |

Bounds. `MaxHistory` bounds the entries of the history table, `MaxWraps` the wraps of the key.
Two requests are enough for every pair of interleaved functions, and rotations interleave with
both. Three wraps allow two rotations during one request; in the run about giving up there are
five wraps, so that all three attempts can meet one and one is left. Four entries let two
requests add to a history of two. The two ids share a name: with a second name there would be no
conflict to check. `Values`, `Requests` and `Secrets` are symmetric where no liveness is checked.

Fairness. `FairSpec` assumes weak fairness of `Serve(r)` for every request: the server goes on
with a request it has taken. A statement waits for locks only; the transactions lock the vault's
row before any other and rotation is one transaction, so no cycle of waiting exists. `Start`,
`Cancel`, rotations and deletions are not fair. Every run checks for deadlock.

### Properties

- `HistoryReadable`, `CurrentReadable`: whatever races with rotations, no stored value is left
  under another data key. `CurrentReadable` holds without metadata-only updates only.
- `HistoryContiguous`, `HistoryKept`, `NewestIsCurrent`: the history numbers 1, 2, ..., keeps
  every plaintext, and ends with the current value.
- `DeletedIsFinal`, `LiveNamesUnique`.
- `GivesUpOnlyAfterKeyChanges`, `EveryRequestEnds`.
- `ImplementsHistory`: seen through decryption, the store is `SecretHistory`, an append-only log
  per name; rotations, retries and reads are stuttering steps.

## 5. Accounts: sign-in, lockout and reset links

### State

One user: `user` holds the columns `email_verified`, `failed_login_attempts` and whether
`login_locked_until` is in the future; `tokens` is `refresh_tokens` with each token's session
(`token_family`) and state; `links` is `password_reset_tokens`. `expired` is a token past
`expires_at` with `revoked_at` NULL; the code tells it from a live one in some statements and not
in others, so the model does too. Passwords are not told apart: a request that compares one has
it right or wrong. Two history variables: `guesses` counts wrong passwords answered since the
count was reset or the lock ended, `signedOut` records of each session whether its last sign-out
met a request that was about to give it a token ("raced") or not ("final").

### Actions

`LoginRead`, `RecordLoginFailure`, `ResetLoginFailures`, `CreateToken` are the statements of
`Login`; `RefreshRead`, `RefreshRevoke`, `CreateToken` those of `Refresh`; `LogoutRead`,
`LogoutRevoke` of `Logout`; `RevokeSession`, `RevokeOthers`; `ChangePasswordRead`,
`UpdatePassword`, `RevokeOthers` of `ChangePassword`; `InvalidateLinks` and `CommitLink` are the
transaction of `RequestPasswordReset`, in two steps because what its UPDATE sees and what its
commit shows differ; `ResetRead` and `ResetPassword` are the read and the transaction of
`ResetPassword`. That transaction is one step, at its UPDATE of the refresh tokens: the rows it
changed before are locked by it, and a refresh that inserts a token between that UPDATE and the
commit is the same as one that inserts it after. `ExpireToken`, `ExpireLink`, `ExpireLock` are the
clock, `MarkEmailVerified` ends a verification, `Cancel` cuts a request off between statements.

`TouchSession`, the audit events and mails write nothing these statements read. Reading the user
of a refresh token is part of `RefreshRead`: users are never deleted by the API.

### Runs

| Run | Instance | Shows |
|---|---|---|
| `account_requests` | 2 requests of every kind, 2 sessions, 3 tokens, 2 links; threshold 2, overflow at 2^5, 4 guesses | the properties below |
| `signout_refresh`, `newest_link`, `lock_overflow` | the fewest operations and objects for each; `lock_overflow` with the real threshold 5 and exponent 38 | section 10 |

Bounds. Three tokens are a login and a refresh in one session beside another session, or two
refreshes of one. Two links race with each other. A threshold of two and four guesses let two
requests fail at once before, at and after the lock; `MaxExponent` 5 keeps the lock within range
for as long as the guesses allow, `lock_overflow` has the range of PostgreSQL's `interval`:
2^38 minutes are more than 2^63 microseconds. `MaxGuesses` is the only bound on logins.

### Properties

- `OneTokenPerSession`: two requests that refresh with one token do not both succeed. It rests
  on `WHERE revoked_at IS NULL` in `RevokeByID`.
- `SignOutFinal`: a session signed out while nothing was past its token's revocation never has a
  usable token again. `SignedOutStaysOut` says it of every sign-out, and fails.
- `GuessesBounded`: between two ends of the lock at most `Threshold - 1` wrong passwords, and
  those of the requests in flight, are answered.
- `LinkResetsOnce`: one link writes a password at most once, however many resets have found it open
  at their first look and are hashing the new password (history `resets`). It rests on the second
  look, inside the transaction.

No liveness is stated: every function here is a fixed sequence without a retry.

## 6. WebSession: tabs that share a cookie

### State

`cookie` is the browser's refresh cookie, `owner` and `spent` the server's refresh tokens. Each tab
has the access token in its memory (`access`, with `stale` when it has expired), the `user` and
`loading` of AuthContext, its refreshes in progress (`flights`) with the one that `refreshPromise`
holds (`current`), and at most three asynchronous functions (`jobs`): the page load, the form, and
a request of a protected page. Four history variables say what the properties exclude: `failed`
and `lost` (a request failed, an answer and its Set-Cookie were lost), `left` (the last change of
the cookie was a sign-out), `orphaned` (the tab forgot a refresh that is still in progress).

### Actions

One action is one click or one network event, with all the code up to the next `await`.

| Action | Code |
|---|---|
| `StartLogin`, `StartLogout`, `RequestData` | `login` and `logout` of AuthContext, a call of `apiFetch` |
| `Refused`, `SecondAttempt`, `Checked`, `Rotated`, `Overtaken`, `Refreshed` | `refreshAccessToken` with its 200 ms pause and second attempt, and `Refresh` of the API: its look at the token and its revocation are two steps |
| `Loaded`, `LoginAnswered`, `LogoutAnswered` | answers; `Unauthorized` is the 401 branch of `apiFetch`: join the refresh, or start one, and send the request once more |
| `Reload`, `Expire`, `RefreshLost`, `CallLost` | a page reload, time, the network; together at most `MaxMishaps` |

`Accounts` has the server's side of the same functions in more detail; here a token is usable or
not, and a refresh of the API is two statements.

### Runs and bounds

| Run | Instance | Shows |
|---|---|---|
| `web_session` | 2 tabs, one of them with forms, 1 user, 3 tokens, 2 refreshes in a tab, 1 mishap | the properties below |
| `refresh_loser` | 2 tabs without forms, 4 tokens | section 10 |

Two tabs race in every way two can, and two flights in a tab are a refresh and one it has
forgotten. Three tokens are the first and those of two rotations or of a rotation and a sign-in.
When they are used up the server answers with an error, as it may at any time.

Fairness. Every request sent is answered and every timer fires: weak fairness of each tab's
refresh steps, of the answers of each job, and of the form's. The fetch of a browser does settle,
with an error in the worst case, and the API's server has a write timeout of 15 s for each response
(`cmd/server/main.go:116`). Clicks, reloads, expiries and failures are not fair.

### Properties

- `OneRefresh`: a tab refreshes once at a time, unless it signed out meanwhile.
- `CookieWorks`: when nothing is in flight the cookie holds a usable token, whichever tabs
  refreshed at once. It rests on the API leaving the cookie alone when it refuses a refresh.
- `LoadingEnds`, `RequestsEnd`: no page loads and no request waits for ever.
- `SessionKept`: without a sign-out or a failure no tab loses its session. It fails.

## 7. VaultPage: the page of a vault

### State

`life` is the server: environments and secrets that are not made yet, live or gone. The page has
the `vault` of its address, the tab (`active`, a name), the `filter`, the ticked boxes
(`selected`), cached lists (`envCache`, `list`), the dialog on top, the text typed in it, the
revealed value (`shown`, the secret it belongs to) with its seconds `left`, mutations in flight
(`calls`, with whether their own callbacks still run: the query library drops them when the same
mutation is started again) and `loops`, a bulk deletion in progress. `moved`, `typedNow` and
`stray` are history variables.

### Actions

Clicks and typing: `PickTab`, `TypeFilter`, `FollowResult` (a search result; the route is the same,
so the page keeps its state), `ToggleSecret`, `ToggleAll`, `Open...`, `TypeConfirmation`,
`Confirm...`, `Save...`, `Cancel`, `CloseReveal`. Answers: `RevealAnswered`, `DeleteAnswered`,
`DeleteEnvAnswered`, `CreateAnswered`, `UpdateAnswered`, `CreateEnvAnswered`, each with success and
failure, and `BulkStep`, one id of a bulk deletion; the next id is sent by the same mutation, so it
drops the callbacks of a single deletion in flight (`WithoutCallbacks`). `FollowResult` reads the
cached list of the other vault, which may be an old one, or a fetched one. `OthersChange`, `RefetchEnvs`,
`RefetchSecrets`, `WindowFocus` are the rest of the world; `Tick` is the countdown. Every render of
the page starts the countdown again (`Rendered`), because the page gives the dialog a new
`onClose` and the effect depends on it.

### Run and bounds

`vault_page`: one vault, two environments of which one comes and goes, two secrets of which one is
made during the run, a countdown of two seconds, one request in flight beside one bulk deletion
(`Slots`, `Loops`; together with a bulk deletion only single deletions, `Beside`), one render by a
window focus. Two secrets are enough to confuse them, two environments for a tab to move. The role
is the owner's, who may do everything.

Fairness: only the timer of the reveal dialog, `WF_vars(Tick)`; a timer of the browser fires.

### Properties

- `RevealMatches`: the value shown is that of the secret the dialog names, unless the reveal of
  another secret was in flight when the dialog opened: `handleReveal` stores what it gets.
- `BulkFromItsEnvironment`: a bulk deletion that starts is of the environment its dialog names. No
  refetch, no deletion and no new environment of somebody else puts the page elsewhere under ticked
  boxes. The user's own moves do (`moved`): the boxes stay ticked when the user picks another tab,
  follows a search result, or makes or deletes an environment, and then secrets of one environment
  are deleted under the name of another. Boxes that a filter hides stay ticked too, and what they
  stand for is deleted with the rest; the dialog counts them.
- `BulkReportsFailures`: what a bulk deletion does not report as failed is gone.
- `ConfirmedByTyping`: nothing is deleted unless the text asked for was typed since that dialog
  opened, except a secret that has left the list.
- `ValueIsHidden`: a value does not stay on the screen for ever, however often the page renders.

## 8. The other screens

The screens do not interact, so `WebScreens` puts them side by side: a behaviour chooses one and
the others stay as they start. One run, `web_screens`, checks all of them; its states are the sum
of theirs. Each module has the server's part of its screen as steps between request and answer,
answers that fail before or after the server acted, and other people's changes.

| Module | Code | Property |
|---|---|---|
| `TransferDialogs` | `ImportEnvDialog`, `CopySecretsDialog` | `ImportAsPreviewed`: what was done is what the preview said, unless the options changed in flight or somebody wrote meanwhile |
| `TokenDialog` | `ServiceTokensDialog`, `servicetokens.go` | `TokenShownWhereMade`, `ShownTokenWorks`: the value shown is of a token of this environment that was not revoked here, whatever answers late |
| `SecretForms` | `SecretFormDialog`, `SecretHistoryDialog` | `ValueTypedForSecret`: no value typed for one secret is stored in, or shown as, another's |
| `OrganizationChoice` | `OrganizationContext`, `OrganizationSwitcher` | `ChoiceKept`: each user's last choice, whoever used the browser in between |
| `OrganizationPage` | the page, `InviteMemberDialog`, `organizations/service.go` | `PageOffersOnlyAllowed`: with current lists, the API accepts every change the page offers |
| `AccessPage` | the page, `ConfirmDialog`, `member_handlers.go` | `RemovedByEmail`: a member is removed only after that member's address was typed in this dialog |
| `JoinPages` | invitation, registration, login, verification and reset pages | `SaysWhatHappened`: the console is entered as a member only by a member; "verified" and "reset" are true |
| `SettingsPage` | the page, `SessionsPanel`, `ChangePassword` | `OthersSignedOut`: "your other sessions have been signed out" is shown only when every session of the moment of sending has ended, those in the middle of a refresh at the revocation excepted (`raced`) |
| `AuditPage` | the page, `use-audit.ts` | `EmptyPageHasCause`: an empty page of a log with events comes of a filter changed on a later page or of a role the viewer lost |
| `SearchBox` | `GlobalSearch` | `OpensMatch`: what opens matches the debounced term and is of this organization; Enter before the debounce opens a result of the earlier term, not of the one in the box |
| `DotenvFile` | `dotenv.ts` | `RoundTrip`: a file written and edited reads back as the same pairs |

Bounds, beside the sizes in `WebScreens.cfg`:

- `TransferDialogs`: a dialog is opened again once the request of the one before is answered;
  somebody else changes one value for each preview; the target environment stays (VaultPage has
  environments that go away).
- `SecretForms`: three versions over two secrets, two saves, one reveal and one restore in flight.
- `OrganizationPage`: `MaxChanges` changes of roles and invitations, one request in flight.
  Invitations are to one address and numbered by these changes; one may be accepted or expire
  (`InviteEnds`) and be replaced by another.
- `AccessPage`: one request in flight, one change elsewhere that the page has not seen, and nobody
  is being added while a removal is asked for.
- `SettingsPage`: two timers; another session signs in once and refreshes as often as it likes; one
  sign-out of one session and one of all others at a time, which may be in flight together.
- `AuditPage`: `MaxEvents` for each choice of filters, with pages of two; the viewer loses roles once.
- `SearchBox`: the secrets do not change. `JoinPages`: while a request is in progress the page is
  left only by loading another. `DotenvFile`: `MaxCharacters` over two values, of ten classes
  of characters; three are enough for a backslash, what follows it and the end of a value.

The screens stop when a bound is reached or nothing is open, so this run and the two of the pages
above do not check for deadlock. No liveness is stated for them.

## 9. What is proved

All theorems hold for any values of the constants under the named assumptions of the modules:
any sets of requests, secrets, tokens, tabs, sessions, links, environments, people, terms, and any
choice of operations. What the assumptions say, and why the code justifies it:

- `None` and its like are none of the values they stand beside; a secret has an environment and a
  name; bounds and page sizes are numbers; initial values have the types of their variables.
- Sets are finite where the code counts or lists: the secrets of a page, the members of an
  organization (`PageConstants`), the requests of a moment (`FiniteRequests`, for
  `GuessesStayBounded` alone), and vault counts, which choose the default organization, have a
  bound (`ChoiceConstants`).
- `Flights` is not empty: a page load always starts a refresh, and without a place for one the
  tab would name a refresh that does not exist. `Orgs`, `Places`, `Values`, `Files`, `Sources`,
  `Saves` are not empty either: a page has a current organization, a dialog something to send.
- `LogConstants`: the filters include the empty one, which every event matches, so that no other
  matches more. `PageConstants`: environments and secrets are different things.

**SecretStoreProofs.** `TypeCorrect`. `HistoryStaysReadable` by `KeyInvariant`: `HistoryReadable`
alone is not inductive, since a write stores a value encrypted earlier. The invariant adds that
the wrapped key a request has read, as long as it is still the stored one, contains the stored
data key (`KeysIdentified`), and that a version which a restore has copied under that wrapped key
opens with it (`CopiesReadable`). `VersionsNumbered` by `HistoryInvariant`, which adds that an id
being created has no row, no history and no second creator. `HistoryIsKept`, `DeletionIsFinal`
(action properties from these invariants) and `NamesUnique`.

**SecretHistoryProofs**, under `"edit" \notin Operations`, that is without metadata-only updates:

- `CurrentStaysReadable`, `NewestStaysCurrent` by `ValueInvariant` (the two invariants above, with
  values stored and copied being values). With metadata-only updates both are false, see
  `edit_stale_key` and `edit_lost_update`.
- `StoreImplementsHistory`: `ValueStep` reduces each step of the store to what it makes of one
  secret, and each such change is a step of `SecretHistory` or stutters.
- `OnlyKeyChangesEndRetries` by `AttemptInvariant`: for every attempt a request has given up, the
  key was wrapped once since it arrived (`AttemptPaid`), and as often before the key that the
  present attempt holds was read. An attempt fails only when that key is no longer the vault's,
  because by `ValueInvariant` everything opens with the vault's own; a reveal, which compares no
  wrapped key, fails only when the data key changed after the row was read. With metadata-only
  updates and a second request the statement is false: a value a stale edit has made unreadable
  costs attempts without a wrap, and an update may repair it before the answer.
  `secret_requests` checks it with one request and all operations.

With all operations:

- `NoRequestStranded`: a request is always at a point that a statement of its operation serves, and
  never in an attempt past the last (`EveryPhaseServed`).
- `RequestsOnlyAdvance`: `StepsLeft` counts the statements a request still has, retries included;
  every step of its own lowers it, and no step of anybody else raises it, so that rotations may
  cost attempts but cannot keep a request busy. With the fairness that statements are executed,
  which the prover cannot use, this is `EveryRequestEnds`.

**AccountsProofs.** `SessionsKept` is the inductive invariant `SessionInvariant`: among the
unrevoked tokens of a session and the requests about to insert one there is at most one
(`OneUnrevoked`, `OneCreator`); a session id drawn by a login is known to it alone
(`DrawnByOne`); requests know the session of their token (`TokensKnown`) and the link they reset
with (`LinksKnown`); a session signed out for good has neither a usable token nor a request that
can give it one (`EndsKept`, `EndsFinal`). It counts expired tokens as unrevoked, because
`RevokeByID` does not look at `expires_at`. From it follow `AccountsTyped`, `OneUsableToken`,
`SignedOutForGood`. `LinksResetOnce` needs `LinksSpent`: a link that has written a password is
closed, and no step opens it again (`ResetLinkStep`). `GuessesStayBounded` needs `GuessInvariant`: while
nothing is locked, every wrong password answered since is a counted failure and there are fewer
than the threshold, so that only requests already past their look at the lock can exceed it. Most
steps are instances of a few lemmas:
`HarmlessStep` (a request goes on or answers without touching tokens), `SignOutStep` (tokens are
revoked, the live ones of the covered sessions among them), and one for each step that draws a
session, creates, rotates or expires a token.

**WebSessionProofs.** `SessionTyped` and `OneRefreshPerTab` by `Shape`: the type invariant, which
says that exactly the functions waiting for a refresh name one, with answers on their way carrying
a token. Lemmas say what joining a refresh, ending a function, failing a refresh and sending the
waiting requests again do to one tab. `CookieStaysUsable` by `SessionInvariant`: `CookieWorks`
speaks of moments with nothing in flight, so the invariant has to follow what is on its way. A
token in an answer works and nobody has it yet (`GrantsFresh`), so no refresh or sign-out can
revoke it before it arrives; no two answers carry the same token (`GrantsApart`); and unless an
answer was lost or the last word was a sign-out, the cookie works, or a token that works is on
its way, or the answer of a sign-out is (`Follow`). With nothing in flight only the first is left.
A step that answers nobody keeps all of it (`CalmKeeps`, `Calm`); the others are the server's
grants, their arrival, and the sign-outs.

- `WaitsAreServed`, by `AllServed`, is the safety half of `RequestsEnd` and `LoadingEnds`: who
  joined a refresh waits for one in progress, also when a sign-out made the tab forget it, and a
  page that shows it is loading has a page load, a sign-in or a sign-out in progress. For the
  second the invariant needs that only pages ask for data (`DataOfPages`), because the answer to
  such a request does not end the loading.
- `CallsComeToAnEnd`: `AttemptsLeft` counts the network events a refresh can still have and
  `AnswersLeft` those of a function; every step of one lowers its number and nothing else changes
  it, a reload excepted, which starts afresh. So there is no cycle of 401 and refresh, however many
  tabs rotate the cookie.

**VaultPageProofs**, by `PageInvariant`. `RevealMatches` alone is not inductive: an answer in
flight can store another secret's value. `RevealKnown` adds that, unless `stray` was set when the
dialog opened, every reveal in flight is of the dialog's secret, since only that dialog sends one
while it is open. `BulkStaysInEnvironment` is by `PlaceInvariant`: secrets listed under a tab belong
to it (`HomesKnown`), and ticked secrets that live are of the tab shown, unless the page was moved
under them (`TickedHere`). A tab is left by itself only when its environment is gone, and its
secrets with it; only the confirmation fills a loop (`BulkStarts`).
`DeletionsConfirmed` needs that a text in a dialog was typed in it (`TypedHere`), and that no other
request and no answer starts a deletion (`OnlyConfirmationsDelete`). `BulkFailuresReported` by
`BulkInvariant`: what the page lists or has ticked was made (`PageKnows`), a secret that was made
and is gone does not come back (`KnownStays`), and of the secrets a loop asks for, those that live
are still to do or noted as failed (`LoopsAccount`). Each kind of step that sends or answers a
request has a lemma for the types.

**DialogProofs.**

- `TokensAreShownWhereMade`, `ShownTokensWork`: a token belongs to the environment its creation was
  asked for (`MadeAtHome`), the values on the screen and in the closure of a revocation are of
  tokens made before the creation in flight (`AnsweredBefore`), a creation of this dialog is for
  the environment it shows (`CreatingHere`), and what is shown or about to be shown works
  (`TokensWork`).
- `ImportsDoAsPreviewed`: a dialog has one request and shows no result beside it (`OneTransfer`),
  what is in flight is what options and pairs said when it was sent (`SentAsShown`), and the preview
  is what the request would do now (`PreviewIsCurrent`), as long as the history variables note no
  change in between. The outcome depends on environments and options alone.
- `ValuesStayWithTheirSecret`: stored values are the secret's own (`StoredOwn`), the text in the box
  and in a mutation was typed for the form it came from (`TextOfForm`), versions asked for or being
  restored exist and are of the secret shown (`VersionsExist`), and so is the value that was
  revealed (`RevealedOwn`).

**MembershipProofs.**

- `ChoiceIsKept`: storage and selection agree with the user's last choice (`StorageCurrent`),
  whoever was signed in between; a list that is not empty has a default.
- `RemovalNeedsEmail`: the text of an open dialog was typed for the member it is about
  (`TextIsTyped`).
- `OffersAreAllowed`: the page's guards, evaluated on current lists, imply each check of the API.
  The one that is more than a comparison is the last owner: the page looks for another owner in its
  list, the API counts them (`TwoOwners`, `EditableMayLose`).
- `PagesSayWhatHappened`: a request in progress belongs to the page and the person that sent it, and
  its later steps follow the earlier ones (`StepsAtHome`).

**ConsoleProofs.**

- `SettingsOthersSignedOut`: the sessions promised at the click are signed in, in the middle of a
  refresh, or over, and one that is over does not come back (`PromisedKnown`); once the API has
  revoked their tokens and as long as the dialog says so, none of them lives but those whose
  refresh was between its two statements then (`DoneEnded`). That exception is the gap of
  `signout_refresh` in section 10: the token such a refresh stores afterwards is not revoked.
- `SearchBoxOpensMatch`: everything cached under a term and an organization matches that term and
  lies in that organization (`FoundMatch`), so what opens does, whichever answer came last.
- `PagesHaveRows`: until a filter is changed on a later page or the viewer loses a role, every page
  shown or cached begins before the end of the log (`PagesBegin`), because the total that led to it
  said so, and cached totals are at most the present ones.

The type invariants of the ten screens are theorems too (`TransferTypes`, `FormTypes`,
`JoinTypes`, ...).

The screens together: `ScreensImplementEach` shows that a behaviour of `WebScreens` is a behaviour
of each screen, since a step of another one is a stutter of it. What is proved of a screen alone
thereby holds of the sum the run checks (`ScreensTypes`, `ScreensKeepTheirPromises`).

**What the findings need.** Section 10 lists six violations. For each of them a theorem says what it
takes, by assuming that away and leaving everything else:

| Violation | Theorem | It cannot happen where |
|---|---|---|
| `edit_stale_key` | `OnlyRotationMakesUnreadable` | no data key is rotated (re-wrapping under a new master key does no harm): the row a metadata-only update holds stays readable (`UnrotatedInvariant`) |
| `edit_lost_update` | `OnlyValueWritesAreLost` | one request runs at a time, or no update or restore stores a value over another (`EditsUndisturbed`); rotations may run, they change the ciphertext and not the value (`MetadataInvariant`) |
| `signout_refresh` | `OnlyRacingRefreshRestores` | one request runs at a time, or none refreshes (`NoRefreshRaces`) |
| `newest_link` | `OnlyOverlapLeavesTwoLinks` | one request runs at a time |
| `lock_overflow` | `OverflowNeedsLocksThatEnd` | no lock runs out, and fewer requests run at once than the interval has room for: what is counted was guessed since the count was last reset (`CountFits`), and `GuessesStayBounded` bounds that |
| `refresh_loser` | `OneTabKeepsSession` | the browser has one tab, nobody signs in or out, and the server can always issue another token: the one refresh carries the cookie (`OwnRefresh`), which works until its successor is on its way (`OwnCookie`) |

These are instances of the modules with smaller constants, never other models; the hypothesis on
tokens is that there are infinitely many, which a run has to bound.

**Only model-checked:** liveness (`EveryRequestEnds`, `RequestsEnd`, `LoadingEnds`,
`ValueIsHidden`), which is out of the prover's reach, although for the first three the theorems on
progress leave nothing but that enabled steps happen; `RoundTrip`, a statement about what folds over
strings of any length compute, which needs an induction the provers cannot do (the types of
`DotenvFile` are proved, its operators being functions and folds);
`GivesUpOnlyAfterKeyChanges` with metadata-only updates, for one request; and what the violating
runs refute.

## 10. Where code and documentation disagree

- *Metadata-only update and rotation* (`edit_stale_key`). `UpdateSecret` reads the secret, then
  the vault. A rotation between the two reads leaves it with old ciphertext and the new key; the
  key comparison passes and the old ciphertext is stored. The value is unreadable and later
  rotations of the vault roll back on it.
- *Metadata-only update and another update* (`edit_lost_update`). `Update` writes
  `encrypted_value` also when only metadata changes, so it puts back the value it had read over a
  newer one, although "only metadata changes".
- *Sign-out and refresh* (`signout_refresh`). `Refresh` revokes and inserts in two statements. A
  sign-out in between finds nothing to revoke; the insert then gives the session a usable token.
- *Two reset links* (`newest_link`). Concurrent transactions of `RequestPasswordReset` do not see
  each other's links, so two links work, not "only the newest".
- *Lock overflow* (`lock_overflow`). `interval '1 minute' * power(2, n - 5)` is evaluated before
  it is capped. From the 43rd failure in a row it is out of range: the statement fails, login
  answers 500, and the failure is neither counted nor does it lock.
- *Refresh loser* (`refresh_loser`). Two tabs that refresh at once both find the token usable; the
  loser's revocation meets a revoked token and the API answers 500. The client makes its second
  attempt only after a 401 (`api-client.ts:174`: "the browser now holds the newer cookie, so one
  more attempt picks it up"), so the losing tab drops its session although the cookie is good.

## 11. What is not modelled

- Import and copy as statements of the API, members, keyring versions, policy, the command line
  client and the connection pool: see the plan.
- Parts of the web client that only fetch and show lists (dashboard, list of vaults, their edit
  dialog), the downloads (export of an environment, CSV of the audit log), the clipboard and
  toasts: no state that outlives the click.
- Cryptography: encryption, wrapping and hashing are taken to be injective and authenticated.
- PostgreSQL: statements are atomic, transactions commit or roll back; lock waits are represented
  by the order of the steps. Failing statements appear as `Cancel`.
- Data no property tells apart: descriptions, expiry dates of secrets, rotation reminders,
  metadata, names, mails, audit events.
- Parsing and formatting (dates, tables, JSON, the command line client's dotenv), configuration,
  logging and migrations.
