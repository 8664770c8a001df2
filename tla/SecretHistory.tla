--------------------------- MODULE SecretHistory ---------------------------
(***************************************************************************)
(* What the secret store promises its users, without requests, keys or     *)
(* ciphertexts: a secret is a name with a current value and a log of every *)
(* value it has had.  Values are only ever added; deletion is final; a     *)
(* name belongs to one live secret at a time.  Rotating keys is invisible. *)
(***************************************************************************)
EXTENDS Naturals, Sequences

CONSTANTS
    Secrets,  \* secret ids
    NameOf,   \* the name a secret has in its vault
    Values,   \* plaintext values
    None      \* no value

VARIABLES
    status,   \* whether a secret exists, is live or is deleted
    log,      \* the values a secret has had, oldest first
    current   \* the value a read of the secret returns

abstractVars == <<status, log, current>>

AbstractInit ==
    /\ status = [s \in Secrets |-> "absent"]
    /\ log = [s \in Secrets |-> << >>]
    /\ current = [s \in Secrets |-> None]

\* The first value of a name that no live secret has.
CreateSecret(s, v) ==
    /\ status[s] = "absent"
    /\ \A t \in Secrets : NameOf[t] = NameOf[s] => status[t] # "live"
    /\ status' = [status EXCEPT ![s] = "live"]
    /\ log' = [log EXCEPT ![s] = <<v>>]
    /\ current' = [current EXCEPT ![s] = v]

\* Another value, new or restored.
ChangeValue(s, v) ==
    /\ status[s] = "live"
    /\ log' = [log EXCEPT ![s] = Append(@, v)]
    /\ current' = [current EXCEPT ![s] = v]
    /\ UNCHANGED status

DeleteSecret(s) ==
    /\ status[s] = "live"
    /\ status' = [status EXCEPT ![s] = "deleted"]
    /\ UNCHANGED <<log, current>>

AbstractNext ==
    \E s \in Secrets : \/ \E v \in Values : CreateSecret(s, v) \/ ChangeValue(s, v)
                       \/ DeleteSecret(s)

AbstractSpec == AbstractInit /\ [][AbstractNext]_abstractVars
=============================================================================
