\* The settings file under its forms and the operator's editor.
SPECIFICATION SettingsSpec
CONSTANTS
  p1 = p1
  default = default
  Panels <- PanelIds
  Legal <- LegalValues
  Default = default
  Bad = bad
  Blank = blank
  Absent = absent
  Row <- RowValues
  NoForm = noform
  NoRead = noread
  Asked = asked
  MaxReads = 1
  MaxHand = 2
INVARIANTS
  HandsWordStands
PROPERTIES
  FormComesBack
CHECK_DEADLOCK FALSE
