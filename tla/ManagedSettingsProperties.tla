---------------------- MODULE ManagedSettingsProperties ----------------------
(***************************************************************************)
(* What the settings handlers must not lose.                               *)
(***************************************************************************)
EXTENDS ManagedSettings

Networks == {Unset} \cup Wifis

SettingsTypeOK ==
  /\ store \in StoreType /\ {station, credentials} \subseteq Networks
  /\ settings \in AppConfigs /\ {provisioned, session} \subseteq BOOLEAN
  /\ review # Unset => review.config \in AppConfigs /\ Valid(review.config)
  /\ \/ task \in {Off, Idle}
     \/ task.at = "credentials" /\ task.config \in AppConfigs /\ task.previous \in Networks

\* Each handler saves a copy of all the settings in memory.  Once loaded they are what
\* the next boot loads, but for the network, or a handler would bring old ones back
\* (config() = updated after each save; load and save of config_repository).
MemoryFollowsFlash ==
  settings.admin # Unset =>
    Loads(store) /\ InUse(settings) = [InUse(Loaded(store)) EXCEPT !.wifi = settings.wifi]

\* The gate settings a user was told are saved are those the device boots with, after
\* any later request, failed write or loss of power (save, load, the rollback of
\* wifi_change_handler).
PromisedSettingsBoot ==
  accepted # Unset => Loads(store) /\ GateInUse(Loaded(store)) = accepted

\* Settings that load are never replaced by some that do not: nobody is sent back to
\* the open setup (save, which validates what is saved and not what will be loaded).
StaysCommissioned == [][Loads(store) => Loads(store')]_settingsVars

\* The administrator password changes only together with the end of the session: no
\* copy of the settings made earlier brings an old one back
\* (password_change_handler, gate_profile_apply_handler's comparison of the session).
PasswordsEndSessions ==
  [][Loads(store) /\ Loaded(store').admin # Loaded(store).admin => ~session']_settingsVars

-----------------------------------------------------------------------------

Others(c) == <<c.wifi, c.homekit, c.admin>>

Applies == review # Unset /\ review' = Unset /\ session' /\ store' # store

\* docs/gate-profile.md:75: "Any mismatch, intervening settings change, new session, [...]
\* requires a new review. Apply preserves non-Gate settings [...]".
OtherSettingsKept ==
  [][Applies => Others(Loaded(store')) = Others(Loaded(store))]_settingsVars
=============================================================================
