--------------------------- MODULE ManagedSettings ---------------------------
(***************************************************************************)
(* The handlers that change the settings: first setup (components/         *)
(* setup_api), the authenticated forms and the reviewed gate profile       *)
(* (components/management_api, gate_profile, web_auth), over the settings  *)
(* in memory, the blobs of components/app_config in flash, and the Wi-Fi   *)
(* credentials kept apart from them (components/bootstrap_credentials).    *)
(*                                                                         *)
(* One HTTP task runs the handlers one after the other; the device may     *)
(* stop at any time, and restarts after most of them.  A step is a handler,*)
(* or a part of it between two writes to flash.  Writing one blob is       *)
(* atomic, and may fail.  A refused request, and one whose only write      *)
(* fails, changes nothing and is left out unless it says otherwise.  The   *)
(* runtime keeps what it was started with until the next boot.             *)
(***************************************************************************)
EXTENDS AppConfig

CONSTANTS
  Forms,         \* gate settings that forms submit, valid or not
  GateProfiles,  \* gate settings of profile files, valid or not
  Stores         \* what the flash may hold at first

GateSettings ==
  [timing : Timings, interval : Nat, profile : Profiles, topology : Topologies, end : Ends,
   stability : Nat, step : Outputs, open : Outputs, close : Outputs,
   single : Inputs, opened : Inputs, closed : Inputs, decoder : Decoders]

ASSUME SettingsAssumption ==
  Forms \subseteq GateSettings /\ GateProfiles \subseteq GateSettings /\ Stores \subseteq StoreType

VARIABLES
  store,        \* NVS namespace gate_cfg
  station,      \* the Wi-Fi network of NVS namespace gate_boot
  settings,     \* management_server's active_config
  credentials,  \* management_server's credentials
  provisioned,  \* management_server's application_provisioned
  session,      \* somebody is logged in
  review,       \* reviewed_gate_profile of the present session, or Unset
  task,         \* what the HTTP task is at
  accepted      \* gate settings of the request accepted last, or Unset (history)

memory       == <<settings, credentials, provisioned, session, review, task>>
settingsVars == <<store, station, memory, accepted>>

Idle == [at |-> "idle"]
Off  == [at |-> "off"]

\* A default-constructed AppConfig.
DefaultConfig ==
  [schema |-> kSchemaVersion, wifi |-> Unset, homekit |-> Unset, admin |-> Unset,
   timing |-> [opening |-> 20000, closing |-> 20000, release |-> 3000],
   profile |-> "sequential", interval |-> 1500,
   step |-> DefaultOutput, open |-> DefaultOutput, close |-> DefaultOutput,
   topology |-> "single", end |-> "Closed", stability |-> DefaultStability,
   single |-> DefaultInput, opened |-> DefaultInput, closed |-> DefaultInput,
   decoder |-> EmptyDecoder("CustomRules")]

-----------------------------------------------------------------------------
(* What the requests make of a configuration c and gate settings g.        *)

\* serialize: all of the gate settings, the unused ones too, and the timing.
Serialized(c) == [f \in DOMAIN c \ {"schema", "wifi", "homekit", "admin"} |-> c[f]]

\* parse: a profile replaces them all.
Replaced(c, g) ==
  [c EXCEPT !.timing = g.timing, !.interval = g.interval, !.profile = g.profile,
            !.step = g.step, !.open = g.open, !.close = g.close,
            !.topology = g.topology, !.end = g.end, !.stability = g.stability,
            !.single = g.single, !.opened = g.opened, !.closed = g.closed,
            !.decoder = g.decoder]

Timed(c, g) ==
  [c EXCEPT !.stability = g.stability,
            !.timing = [@ EXCEPT !.opening = g.timing.opening, !.closing = g.timing.closing]]

\* update_config_handler: outputs of the profile, and custom rules ...
Canonical(c, g) ==
  LET sequential == g.profile = "sequential"
  IN [Timed(c, g) EXCEPT
        !.profile = g.profile, !.topology = g.topology,
        !.step  = IF sequential THEN g.step ELSE @,
        !.open  = IF sequential THEN @ ELSE g.open,
        !.close = IF sequential THEN @ ELSE g.close,
        !.decoder = [g.decoder EXCEPT !.profile = "CustomRules"]]

\* ... or one output and one input, with the decoder as it was.
LegacyForm(c, g) ==
  [Timed(c, g) EXCEPT
     !.profile = "sequential", !.topology = "single", !.step = g.step,
     !.single = [g.single EXCEPT !.debounce = 50], !.end = g.end]

\* save_handler of setup_api.
FirstSettings(g, wifi, homekit, admin) ==
  [Timed(DefaultConfig, g) EXCEPT
     !.wifi = wifi, !.homekit = homekit, !.admin = admin, !.step = g.step,
     !.single = [g.single EXCEPT !.debounce = 50], !.end = g.end]

-----------------------------------------------------------------------------
(* Boot and login.                                                         *)

SettingsInit ==
  /\ store \in Stores /\ station \in {Unset} \cup Wifis
  /\ settings = DefaultConfig /\ credentials = Unset /\ provisioned = FALSE
  /\ session = FALSE /\ review = Unset /\ task = Off /\ accepted = Unset

\* Power is lost, or a scheduled restart comes.
Stop ==
  /\ task # Off /\ task' = Off
  /\ settings' = DefaultConfig /\ credentials' = Unset /\ provisioned' = FALSE
  /\ session' = FALSE /\ review' = Unset
  /\ UNCHANGED <<store, station, accepted>>

\* Settings of an earlier schema must be saved to be used.
Start(written) ==
  LET loads == Loads(store) /\ (Migrates(store) => written)
  IN /\ task = Off /\ task' = Idle
     /\ store' = IF written THEN load(store) ELSE store
     /\ settings' = IF loads THEN Loaded(store) ELSE DefaultConfig
     /\ provisioned' = loads /\ credentials' = station
     /\ UNCHANGED <<station, session, review, accepted>>

\* Faulty variant: the session of the review is not compared.
DisownedLate == review

\* A profile reviewed in an earlier session is refused whatever is asked for, and
\* counts as none.
Disowned == Unset

Login ==
  /\ task = Idle /\ provisioned /\ settings.admin \in Admins
  /\ session' = TRUE /\ review' = Disowned
  /\ UNCHANGED <<store, station, settings, credentials, provisioned, task, accepted>>

\* Also when the session is too old.
Logout ==
  /\ task = Idle /\ session /\ session' = FALSE /\ review' = Disowned
  /\ UNCHANGED <<store, station, settings, credentials, provisioned, task, accepted>>

-----------------------------------------------------------------------------
(* Authenticated changes.  A handler copies the settings, changes the copy,*)
(* saves it and makes it the settings.                                     *)

Authorized == task = Idle /\ session

Keep(c) ==
  /\ store' = save(store, c) /\ settings' = c /\ accepted' = GateInUse(c)
  /\ UNCHANGED <<station, credentials, provisioned, task>>

update_config_handler(g, homekit) ==
  /\ Authorized
  /\ \E c \in {Canonical(settings, g), LegacyForm(settings, g)} :
       LET updated == [c EXCEPT !.homekit = homekit] IN Valid(updated) /\ Keep(updated)
  /\ UNCHANGED <<session, review>>

display_name_handler(homekit) ==
  /\ Authorized
  /\ LET updated == [settings EXCEPT !.homekit = homekit]
     IN Valid(updated) /\ Keep(updated)
  /\ UNCHANGED <<session, review>>

password_change_handler(admin) ==
  /\ Authorized
  /\ LET updated == [settings EXCEPT !.admin = admin]
     IN Valid(updated) /\ Keep(updated)
  /\ session' = FALSE /\ review' = Disowned

\* wifi_change_handler: the settings are saved, then the credentials, ...
BeginWifi(wifi) ==
  /\ Authorized
  /\ LET updated == [settings EXCEPT !.wifi = wifi]
     IN /\ Valid(updated) /\ store' = save(store, updated)
        /\ task' = [at |-> "credentials", config |-> updated, previous |-> credentials]
  /\ credentials' = wifi
  /\ UNCHANGED <<station, settings, provisioned, session, review, accepted>>

SaveCredentials ==
  /\ task.at = "credentials" /\ task' = Idle
  /\ station' = credentials /\ settings' = task.config
  /\ UNCHANGED <<store, credentials, provisioned, session, review, accepted>>

\* ... and when that fails the settings are saved as they were, if possible.
FailCredentials(written) ==
  /\ task.at = "credentials" /\ task' = Idle
  /\ credentials' = task.previous
  /\ store' = IF written THEN save(store, settings) ELSE store
  /\ UNCHANGED <<station, settings, provisioned, session, review, accepted>>

-----------------------------------------------------------------------------
(* The reviewed gate profile.                                              *)

\* Faulty variant: the candidate is not validated.
PreviewUnvalidated(g) ==
  /\ Authorized
  /\ review' = [config |-> Replaced(settings, g), base |-> Serialized(settings)]
  /\ UNCHANGED <<store, station, settings, credentials, provisioned, session, task, accepted>>

gate_profile_preview_handler(g) ==
  /\ Authorized
  /\ LET candidate == Replaced(settings, g)
     IN review' = IF Valid(candidate)
                  THEN [config |-> candidate, base |-> Serialized(settings)]
                  ELSE Unset
  /\ UNCHANGED <<store, station, settings, credentials, provisioned, session, task, accepted>>

\* The review is used up whether or not the settings changed or the save fails.
gate_profile_apply_handler(written) ==
  /\ Authorized /\ review # Unset /\ review' = Unset
  /\ IF written /\ Serialized(settings) = review.base
     THEN Keep(review.config)
     ELSE UNCHANGED <<store, station, settings, credentials, provisioned, task, accepted>>
  /\ UNCHANGED session

-----------------------------------------------------------------------------
(* First setup, without a login.  The settings in memory stay the default. *)

\* The credentials are saved, then the settings.
save_handler(c, stationWritten, written) ==
  /\ task = Idle /\ ~provisioned /\ Valid(c) /\ credentials' = c.wifi
  /\ station' = IF stationWritten THEN c.wifi ELSE station
  /\ IF stationWritten /\ written
     THEN store' = save(store, c) /\ provisioned' = TRUE /\ accepted' = GateInUse(c)
     ELSE UNCHANGED <<store, provisioned, accepted>>
  /\ UNCHANGED <<settings, session, review, task>>

setup_wifi_handler(wifi) ==
  /\ task = Idle /\ ~provisioned
  /\ credentials' = wifi /\ station' = wifi
  /\ UNCHANGED <<store, settings, provisioned, session, review, task, accepted>>

-----------------------------------------------------------------------------

SettingsNext ==
  \/ Stop \/ Login \/ Logout \/ SaveCredentials
  \/ \E written \in BOOLEAN :
       Start(written) \/ FailCredentials(written) \/ gate_profile_apply_handler(written)
  \/ \E homekit \in HomeKits :
       \/ display_name_handler(homekit)
       \/ \E g \in Forms : update_config_handler(g, homekit)
  \/ \E admin \in Admins : password_change_handler(admin)
  \/ \E wifi \in Wifis : BeginWifi(wifi) \/ setup_wifi_handler(wifi)
  \/ \E g \in GateProfiles : gate_profile_preview_handler(g)
  \/ \E g \in Forms, wifi \in Wifis, homekit \in HomeKits, admin \in Admins :
       \E written, stationWritten \in BOOLEAN :
         save_handler(FirstSettings(g, wifi, homekit, admin), stationWritten, written)

SettingsSpec == SettingsInit /\ [][SettingsNext]_settingsVars
=============================================================================
