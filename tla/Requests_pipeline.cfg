\* One request of any kind, one login per duration, and a flood of five.
SPECIFICATION Spec
CONSTANTS
  Absent = Absent
  NotANumber = NotANumber
  Ips = {1, 2}
  Settings <- TheSettings
  Ttl = 2
  MaxTicks = 3
  Loads <- TheLoads
INVARIANTS
  LimitHolds
  TokensDecide
  ProductionHidesErrors
  ExpiresInIsTheTokens
  MailsQuoteTheForm
  MailsLoseNoWord
  ListsFindWhatIsAsked
CHECK_DEADLOCK FALSE
