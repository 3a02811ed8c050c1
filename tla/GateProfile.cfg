SPECIFICATION SettingsSpec
CONSTANTS
  Ticks = 8
  EdgeCapacity = 3
  NoTick = NoTick
  Wifis = {"home", "guest"}
  HomeKits = {"gate", "garage"}
  Admins = {"first", "second"}
  Unset = Unset
  InputIds = {"lamp"}
  RuleSets <- ModelRuleSets
  Forms <- ModelForms
  GateProfiles <- ModelProfiles
  Stores <- ModelStores
PROPERTIES OtherSettingsKept
