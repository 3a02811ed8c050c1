-------------------------- MODULE MCManagedSettings --------------------------
(***************************************************************************)
(* Small settings for model-checking their handlers.                       *)
(***************************************************************************)
EXTENDS ManagedSettingsProperties

Output(gpio) == [DefaultOutput EXCEPT !.gpio = gpio]
Input(gpio)  == [DefaultInput EXCEPT !.gpio = gpio]

OpenWhile(level) ==
  [inputs |-> <<"lamp">>,
   rules  |-> << [id |-> 1, enabled |-> TRUE, kind |-> "Position", value |-> "Opened",
                  groups |-> << << [kind |-> "StableLevel", input |-> "lamp",
                                    level |-> level, hold |-> 1] >> >>,
                  entry |-> 0, loss |-> 0, age |-> 0, expiry |-> "None"] >>]

LampOn(gpio) ==
  [profile |-> "CustomRules", inputs |-> << [id |-> "lamp", wiring |-> Input(gpio)] >>,
   rules |-> OpenWhile(TRUE)]

\* A step relay and one end switch, as an endpoint preset, ...
OneRelay ==
  [Serialized(DefaultConfig) EXCEPT
     !.step = Output(26), !.open = Output(26), !.close = Output(25),
     !.single = Input(27), !.opened = Input(32), !.closed = Input(27),
     !.decoder = EmptyDecoder("EndpointPreset")]

\* ... two relays and two end switches, ...
TwoRelays ==
  [OneRelay EXCEPT !.profile = "directional", !.step = DefaultOutput, !.topology = "dual"]

\* ... a step relay and a lamp on the pin of the end switch, ...
LampRelay == [OneRelay EXCEPT !.decoder = LampOn(27), !.timing.opening = 30000]

\* ... and on the pin of the relay, which is refused.
Shared == [OneRelay EXCEPT !.decoder = LampOn(26)]

ModelForms    == {OneRelay, LampRelay, Shared}
ModelProfiles == {TwoRelays, Shared}

\* The settings of earlier firmware are an endpoint preset.
Early == Replaced([DefaultConfig EXCEPT !.wifi = "home", !.homekit = "gate", !.admin = "first"],
                  OneRelay)

BlobOf(schema) == [Encode(Early) EXCEPT !.schema = schema]

ModelRuleSets == {NoRules} \cup {OpenWhile(TRUE)}

ModelStores ==
  { [NewStore EXCEPT !.config_v4 = Damaged],
    [NewStore EXCEPT !.config_v1 = Cell(BlobOf(1))],
    [NewStore EXCEPT !.config_v1 = Cell(BlobOf(2))],
    [NewStore EXCEPT !.config_v3 = Cell(BlobOf(3)), !.config_v1 = Damaged] }
=============================================================================
