--------------------------- MODULE WebScreens ---------------------------
(***************************************************************************)
(* The screens and dialogs of the console that do not interact, side by    *)
(* side.  A behaviour is one screen's: the others stay as they start, so   *)
(* that one run checks every screen and its states are the sum of theirs,  *)
(* not the product.                                                        *)
(***************************************************************************)
EXTENDS TransferDialogs, TokenDialog, SecretForms, OrganizationChoice,
        OrganizationPage, AccessPage, JoinPages, SettingsPage,
        AuditPage, SearchBox, DotenvFile

Screens == {"transfer", "tokens", "forms", "choice", "organization", "access", "join",
            "settings", "audit", "search", "dotenv"}

VARIABLE screen

allVars == <<transferVars, tokenVars, formVars, choiceVars, orgVars, accessVars,
             joinVars, settingsVars, logVars, searchVars, dotenvVars>>

ScreensInit ==
    /\ screen \in Screens
    /\ TransferInit /\ TokenInit /\ FormInit /\ ChoiceInit
    /\ OrgInit /\ AccessInit /\ JoinInit /\ SettingsInit
    /\ LogInit /\ SearchInit /\ DotenvInit

TransferStep ==
    /\ screen = "transfer" /\ TransferNext
    /\ UNCHANGED <<screen, tokenVars, formVars, choiceVars, orgVars, accessVars,
                   joinVars, settingsVars, logVars, searchVars, dotenvVars>>

TokenStep ==
    /\ screen = "tokens" /\ TokenNext
    /\ UNCHANGED <<screen, transferVars, formVars, choiceVars, orgVars, accessVars,
                   joinVars, settingsVars, logVars, searchVars, dotenvVars>>

FormStep ==
    /\ screen = "forms" /\ FormNext
    /\ UNCHANGED <<screen, transferVars, tokenVars, choiceVars, orgVars, accessVars,
                   joinVars, settingsVars, logVars, searchVars, dotenvVars>>

ChoiceStep ==
    /\ screen = "choice" /\ ChoiceNext
    /\ UNCHANGED <<screen, transferVars, tokenVars, formVars, orgVars, accessVars,
                   joinVars, settingsVars, logVars, searchVars, dotenvVars>>

OrgStep ==
    /\ screen = "organization" /\ OrgNext
    /\ UNCHANGED <<screen, transferVars, tokenVars, formVars, choiceVars, accessVars,
                   joinVars, settingsVars, logVars, searchVars, dotenvVars>>

AccessStep ==
    /\ screen = "access" /\ AccessNext
    /\ UNCHANGED <<screen, transferVars, tokenVars, formVars, choiceVars, orgVars,
                   joinVars, settingsVars, logVars, searchVars, dotenvVars>>

JoinStep ==
    /\ screen = "join" /\ JoinNext
    /\ UNCHANGED <<screen, transferVars, tokenVars, formVars, choiceVars, orgVars,
                   accessVars, settingsVars, logVars, searchVars, dotenvVars>>

SettingsStep ==
    /\ screen = "settings" /\ SettingsNext
    /\ UNCHANGED <<screen, transferVars, tokenVars, formVars, choiceVars, orgVars,
                   accessVars, joinVars, logVars, searchVars, dotenvVars>>

LogStep ==
    /\ screen = "audit" /\ LogNext
    /\ UNCHANGED <<screen, transferVars, tokenVars, formVars, choiceVars, orgVars,
                   accessVars, joinVars, settingsVars, searchVars, dotenvVars>>

SearchStep ==
    /\ screen = "search" /\ SearchNext
    /\ UNCHANGED <<screen, transferVars, tokenVars, formVars, choiceVars, orgVars,
                   accessVars, joinVars, settingsVars, logVars, dotenvVars>>

DotenvStep ==
    /\ screen = "dotenv" /\ DotenvNext
    /\ UNCHANGED <<screen, transferVars, tokenVars, formVars, choiceVars, orgVars,
                   accessVars, joinVars, settingsVars, logVars, searchVars>>

ScreensNext ==
    \/ TransferStep \/ TokenStep \/ FormStep \/ ChoiceStep
    \/ OrgStep \/ AccessStep \/ JoinStep \/ SettingsStep
    \/ LogStep \/ SearchStep \/ DotenvStep

ScreensSpec == ScreensInit /\ [][ScreensNext]_<<screen, allVars>>

ScreensTypeOK ==
    /\ screen \in Screens
    /\ TransferTypeOK /\ TokenTypeOK /\ FormTypeOK /\ ChoiceTypeOK
    /\ OrgTypeOK /\ AccessTypeOK /\ JoinTypeOK /\ SettingsTypeOK
    /\ LogTypeOK /\ SearchTypeOK /\ DotenvTypeOK
=============================================================================
