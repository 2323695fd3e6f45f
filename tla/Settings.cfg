SPECIFICATION Spec
CONSTANTS
  OtherText = OtherText
  OtherKey = OtherKey
  Red = Red
  NoText = NoText
  NoKey = NoKey
  Grey = Grey
  NoPopup = NoPopup
  Text <- Texts
  Key <- Keys
  Color <- Colors
  BossId <- BossIds
  Threshold <- Thresholds
  Found <- Files
  MapId <- Maps
  MaxStarts = 3
  MaxEdits = 2
INVARIANTS
  HandlersFollowKeys
PROPERTIES
  SettingsSurvive
  TabsAreSeparate
CHECK_DEADLOCK FALSE
