---------------------------- MODULE MCCommissioned ----------------------------
(***************************************************************************)
(* The settings handlers and the decoder side by side: a device starts     *)
(* anew to use changed rules, so that a behaviour is of one or the other,  *)
(* and the other stays as it starts.                                       *)
(***************************************************************************)
EXTENDS MCDecodedFeedback, MCManagedSettings

VARIABLE managing  \* this behaviour is one of the settings handlers

MCInit ==
  /\ Init /\ SettingsInit /\ managing \in BOOLEAN
  /\ managing  => config = Lamp
  /\ ~managing => store.config_v4 = Damaged /\ station = Unset

MCNext ==
  /\ UNCHANGED managing
  /\ \/ managing /\ SettingsNext /\ UNCHANGED vars
     \/ ~managing /\ Next /\ UNCHANGED settingsVars

MCSpec == MCInit /\ [][MCNext]_<<vars, settingsVars, managing>>
=============================================================================
