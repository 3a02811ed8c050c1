SPECIFICATION Spec
CONSTANTS
  Images = {backup, foreign}
  Sound = {backup}
  NoImage = none
  MaxAttempts = 3
PROPERTIES SavedSettingsSurvive
