SPECIFICATION MCSpec
CONSTANTS
  Ticks = 8
  EdgeCapacity = 3
  NoTick = NoTick
  Configs <- ModelConfigs
  Backlog = 2
  Lag = 1
  Horizon <- ModelHorizon
  Wifis = {"home", "guest"}
  HomeKits = {"gate"}
  Admins = {"first", "second"}
  Unset = Unset
  InputIds = {"lamp"}
  RuleSets <- ModelRuleSets
  Forms <- ModelForms
  GateProfiles <- ModelProfiles
  Stores <- ModelStores
INVARIANTS TypeOK EvidenceTrue WakeUpsSuffice MovementEarned AgeLimitsClaims SettingsTypeOK MemoryFollowsFlash PromisedSettingsBoot
PROPERTIES StaysCommissioned PasswordsEndSessions
