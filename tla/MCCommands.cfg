SPECIFICATION CommandsSpec
CONSTANTS
  Token <- MCToken
  Comma <- MCComma
  RangeTerm <- MCRangeTerm
  SegTerm <- MCSegTerm
  Probe <- MCProbe
  Sample <- MCSample
  MaxTokens <- MCMaxTokens
  IntOf <- MCIntOf
  RangeOf <- MCRangeOf
  IotaRef <- MCIotaRef
  Row <- MCRow
  Sendable <- MCSendable
  Toggled = {"cwskimmer", "voice"}
  Untoggled = "localspot"
  OnAtStart = {"cwskimmer"}
  Field = {"cont"}
  Value = {"EU", "NA"}
  Level = {5}
  Arriving <- MCSpot
  Rule <- MCRule
  LastSlot = 1
  PassSet = TRUE
  Unset = Unset
  MaxSent = 1
  Call = {"M9PSY"}
  BadCall = "CQ CQ"
  Band <- MCBand
  Window = 2
  MaxTime = 3
  InCap = 2
  HubWindow = 2
  MaxEvents = 3
  MaxSpots = 3
CHECK_DEADLOCK FALSE
INVARIANTS
  AcceptedIffWellFormed
  TreeMeansText
  BandsAgree
  ShowsAsAsked
  FirstMatchDecides
  OnlyProvenClientsSpot
  OneSpotPerWindow
  EchoAbsorbed
