------------------------ MODULE TransferDialogs ------------------------
(***************************************************************************)
(* The two dialogs that write many secrets at once: importing a .env file  *)
(* (ImportEnvDialog.tsx) and copying from another environment              *)
(* (CopySecretsDialog.tsx).  Both ask the API for a dry run, show what     *)
(* would happen to each key, and then send the same request for real.      *)
(*                                                                         *)
(* The dialogs exist only while they are open, so their state starts afresh *)
(* each time; a request outlives the dialog that sent it.                  *)
(*                                                                         *)
(* Bounds: a dialog is opened again once the request of the one before has *)
(* been answered; somebody else changes one value of the target for each   *)
(* preview.                                                                *)
(***************************************************************************)
LOCAL INSTANCE FiniteSets

CONSTANTS
    Keys, Values, NoValue,
    Target,         \* the environment written to
    Sources,        \* the other environments of the vault
    Files,          \* the texts a user can paste or load
    Text            \* what a file says: a value for some keys, or BadFile when it has no pairs

Environments == Sources \cup {Target}
Content == [Keys -> Values \cup {NoValue}]
BadFile == [k \in Keys |-> NoValue]

ASSUME TransferConstants ==
    /\ Values # {} /\ NoValue \notin Values /\ Target \notin Sources
    /\ Files # {} /\ Sources # {} /\ Text \in [Files -> Content]

VARIABLES
    envs,           \* server: the value of each key in each environment
    transfer,       \* which dialog is open
    content,        \* import: the text in the box
    reading,        \* import: a chosen file that is still being read
    source,         \* copy: the environment to copy from
    picked,         \* copy: the keys ticked; none means all of them
    overwrite,
    pairs,          \* import: what the last preview was asked for
    preview, done,  \* the answers shown
    busy,           \* the dialog's request in flight
    orphan,         \* a request whose dialog was closed
    edited,         \* history: the options were changed in flight, or after the end
    moved           \* history: an environment was changed by somebody else meanwhile

options == <<content, reading, source, picked, overwrite>>
answers == <<pairs, preview, done>>
transferVars == <<envs, transfer, options, answers, busy, orphan, edited, moved>>

Results == [created : SUBSET Keys, updated : SUBSET Keys, unchanged : SUBSET Keys,
            skipped : SUBSET Keys]
NoResult == [created |-> {}, updated |-> {}, unchanged |-> {}, skipped |-> {}]
Requests == [dry : BOOLEAN, overwrite : BOOLEAN, pairs : Content, source : Sources \cup {NoValue},
             keys : SUBSET Keys]
NoRequest == [dry |-> FALSE, overwrite |-> FALSE, pairs |-> BadFile, source |-> NoValue,
              keys |-> {}]

------------------------------------------------------------------------------
(* The server *)

\* What a request brings: the pairs it carries, or those the source has when it arrives.
Brought(r) ==
    IF r.source = NoValue THEN r.pairs
    ELSE [k \in Keys |-> IF r.keys = {} \/ k \in r.keys THEN envs[r.source][k] ELSE NoValue]

\* What the API does with each key
Outcome(r) ==
    LET new == Brought(r)
        has == {k \in Keys : envs[Target][k] # NoValue}
        given == {k \in Keys : new[k] # NoValue}
        same == {k \in given : new[k] = envs[Target][k]}
    IN  [created   |-> given \ has,
         skipped   |-> IF r.overwrite THEN {} ELSE given \cap has,
         unchanged |-> IF r.overwrite THEN same ELSE {},
         updated   |-> IF r.overwrite THEN (given \cap has) \ same ELSE {}]

Changes(result) == result.created \cup result.updated
Write(r, W) ==
    envs' = [envs EXCEPT ![Target] = [k \in Keys |-> IF k \in W THEN Brought(r)[k] ELSE @[k]]]

\* Somebody else changes one value, once after a dialog has asked for its preview.
OthersWrite ==
    /\ busy # NoRequest \/ preview # NoResult
    /\ ~moved /\ done = NoResult
    /\ \E k \in Keys, v \in Values \cup {NoValue} :
         /\ envs[Target][k] # v
         /\ envs' = [envs EXCEPT ![Target][k] = v]
    /\ moved' = TRUE
    /\ UNCHANGED <<transfer, options, answers, busy, orphan, edited>>

------------------------------------------------------------------------------
(* Opening and closing *)

Fresh ==
    /\ content' = BadFile /\ reading' = BadFile /\ picked' = {} /\ overwrite' = FALSE
    /\ pairs' = BadFile /\ preview' = NoResult /\ done' = NoResult
    /\ busy' = NoRequest /\ edited' = FALSE /\ moved' = FALSE

\* The first of the other environments is chosen to start with.
OpenImport ==
    /\ transfer = "closed" /\ orphan = NoRequest /\ transfer' = "import"
    /\ Fresh /\ source' = NoValue
    /\ UNCHANGED <<envs, orphan>>

OpenCopy ==
    /\ transfer = "closed" /\ orphan = NoRequest /\ transfer' = "copy"
    /\ Fresh /\ source' \in Sources
    /\ UNCHANGED <<envs, orphan>>

\* Cancel, Close, X, Escape and the backdrop; nothing waits for the request in flight.
CloseTransfer ==
    /\ transfer # "closed" /\ transfer' = "closed"
    /\ Fresh /\ source' = NoValue
    /\ orphan' = IF busy # NoRequest /\ ~busy.dry THEN busy ELSE NoRequest
    /\ UNCHANGED envs

OrphanAnswered ==
    /\ orphan # NoRequest /\ orphan' = NoRequest
    /\ \E W \in SUBSET Changes(Outcome(orphan)) : Write(orphan, W)
    /\ UNCHANGED <<transfer, options, answers, busy, edited, moved>>

------------------------------------------------------------------------------
(* The options.  Changing any of them throws the preview away. *)

Edited == edited' = (edited \/ busy # NoRequest \/ done # NoResult)

\* Fault: the preview stays when the text or the options change.
KeepPreview == Edited /\ UNCHANGED preview

DropPreview == Edited /\ preview' = NoResult

ChangeContent(text) ==
    /\ transfer = "import" /\ done = NoResult /\ text # content
    /\ content' = text
    /\ DropPreview
    /\ UNCHANGED <<envs, transfer, reading, source, picked, overwrite, pairs, done, busy, orphan,
                   moved>>

\* A file is read before its text replaces what is in the box.
ChooseFile(f) ==
    /\ transfer = "import" /\ done = NoResult /\ reading = BadFile
    /\ reading' = Text[f] /\ reading' # BadFile
    /\ UNCHANGED <<envs, transfer, content, source, picked, overwrite, answers, busy, orphan,
                   edited, moved>>

FileRead ==
    /\ reading # BadFile
    /\ content' = reading /\ reading' = BadFile
    /\ DropPreview
    /\ UNCHANGED <<envs, transfer, source, picked, overwrite, pairs, done, busy, orphan, moved>>

ToggleOverwrite ==
    /\ transfer # "closed" /\ done = NoResult
    /\ overwrite' = ~overwrite
    /\ DropPreview
    /\ UNCHANGED <<envs, transfer, content, reading, source, picked, pairs, done, busy, orphan,
                   moved>>

ChangeSource(e) ==
    /\ transfer = "copy" /\ done = NoResult /\ e # source
    /\ source' = e /\ picked' = {}
    /\ DropPreview
    /\ UNCHANGED <<envs, transfer, content, reading, overwrite, pairs, done, busy, orphan, moved>>

TogglePick(k) ==
    /\ transfer = "copy" /\ done = NoResult
    /\ picked' = IF k \in picked THEN picked \ {k} ELSE picked \cup {k}
    /\ DropPreview
    /\ UNCHANGED <<envs, transfer, content, reading, source, overwrite, pairs, done, busy, orphan,
                   moved>>

------------------------------------------------------------------------------
(* Preview and import or copy *)

\* importEnvironment with the pairs given, or copyFrom with what is chosen now
Request(dry, p) ==
    [dry |-> dry, overwrite |-> overwrite, pairs |-> IF transfer = "import" THEN p ELSE BadFile,
     source |-> IF transfer = "import" THEN NoValue ELSE source,
     keys |-> IF transfer = "import" THEN {} ELSE picked]

\* A text without pairs, or one that cannot be parsed, is an error and no request.
Preview ==
    /\ transfer # "closed" /\ busy = NoRequest /\ done = NoResult /\ preview = NoResult
    /\ IF transfer = "import"
       THEN content # BadFile /\ pairs' = content ELSE UNCHANGED pairs
    /\ busy' = Request(TRUE, content)
    /\ edited' = FALSE /\ moved' = FALSE
    /\ UNCHANGED <<envs, transfer, options, preview, done, orphan>>

\* The button of the preview is for what the preview showed.
Apply ==
    /\ transfer # "closed" /\ busy = NoRequest /\ done = NoResult
    /\ Changes(preview) # {}
    /\ busy' = Request(FALSE, pairs)
    /\ UNCHANGED <<envs, transfer, options, answers, orphan, edited, moved>>

\* A request that fails may have written some of the keys.
Answered ==
    /\ busy # NoRequest /\ busy' = NoRequest
    /\ \/ /\ busy.dry
          /\ preview' = Outcome(busy) /\ preview' # NoResult
          /\ UNCHANGED <<envs, done, moved>>
       \/ /\ ~busy.dry
          /\ done' = Outcome(busy) /\ done' # NoResult
          /\ Write(busy, Changes(Outcome(busy)))
          /\ UNCHANGED <<preview, moved>>
       \/ /\ \E W \in SUBSET Changes(Outcome(busy)) : (busy.dry => W = {}) /\ Write(busy, W)
          /\ moved' = (moved \/ envs' # envs)
          /\ UNCHANGED <<preview, done>>
    /\ UNCHANGED <<transfer, options, pairs, orphan, edited>>

------------------------------------------------------------------------------
TransferInit ==
    \* The first source has every key, the other environments one of them.
    /\ envs = LET v == CHOOSE w \in Values : TRUE
                  k == CHOOSE l \in Keys : TRUE
                  s == CHOOSE e \in Sources : TRUE
              IN  [e \in Environments |->
                    [l \in Keys |-> IF e = s \/ l = k THEN v ELSE NoValue]]
    /\ transfer = "closed" /\ content = BadFile /\ reading = BadFile /\ source = NoValue
    /\ picked = {} /\ overwrite = FALSE
    /\ pairs = BadFile /\ preview = NoResult /\ done = NoResult
    /\ busy = NoRequest /\ orphan = NoRequest /\ edited = FALSE /\ moved = FALSE

TransferNext ==
    \/ OpenImport \/ OpenCopy \/ CloseTransfer
    \/ \E f \in Files : ChangeContent(Text[f]) \/ ChooseFile(f)
    \/ FileRead \/ ToggleOverwrite
    \/ \E e \in Sources : ChangeSource(e)
    \/ \E k \in Keys : TogglePick(k)
    \/ Preview \/ Apply \/ Answered \/ OrphanAnswered \/ OthersWrite

TransferSpec == TransferInit /\ [][TransferNext]_transferVars

TransferTypeOK ==
    /\ envs \in [Environments -> Content]
    /\ transfer \in {"closed", "import", "copy"}
    /\ content \in Content /\ reading \in Content /\ pairs \in Content
    /\ source \in Sources \cup {NoValue} /\ picked \in SUBSET Keys /\ overwrite \in BOOLEAN
    /\ preview \in Results /\ done \in Results
    /\ busy \in Requests /\ orphan \in Requests
    /\ edited \in BOOLEAN /\ moved \in BOOLEAN

\* What an import or a copy has done is what the preview said it would do, unless somebody
\* else changed an environment after the preview was asked for, or the user changed the
\* options while a request was in flight: the answer of a dry run is shown whatever the
\* options are by then, and they are sent with the import.
ImportAsPreviewed ==
    (done # NoResult /\ ~edited /\ ~moved) => done = preview
=============================================================================
