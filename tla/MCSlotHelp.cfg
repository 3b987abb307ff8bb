SPECIFICATION ClientSpec
CONSTANTS
  Toggled = {"cwskimmer", "voice"}
  Untoggled = "localspot"
  OnAtStart = {"cwskimmer"}
  Field = {"cont"}
  Value = {"EU", "NA"}
  Level = {5}
  Arriving <- MCSpot
  Rule <- MCRule
  LastSlot = 1
  PassSet = TRUE
  Unset = Unset
  MaxSent = 1
INVARIANT
  AnyRejectDrops
