SPECIFICATION TextSpec
CONSTANTS
  Token <- MCHelpToken
  Comma <- MCComma
  RangeTerm <- MCRangeTerm
  SegTerm <- MCSegTerm
  Probe <- MCProbe
  Sample <- MCSample
  MaxTokens <- MCMaxTokens
  IntOf <- MCIntOf
  RangeOf <- MCRangeOf
  IotaRef <- MCIotaRef
  Row <- MCRow
  Sendable <- MCSendable
CHECK_DEADLOCK FALSE
INVARIANT
  HelpTermsAccepted
