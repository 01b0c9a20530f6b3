SPECIFICATION Spec
CONSTANTS
  Urls <- MCUrls
  Keys <- MCKeys
  KeyOf <- MCKeyOf
  LastPart = 2
  MaxEntries = 2
  MaxRef = 5
  MaxResults = 2
  MaxLinks = 1
  IdLimit = 10000000
  MaxTurns = 32
INVARIANTS
  RecentNumbersLive
  NumbersLeadToUrl
  NextContinues
  ShownNumbersOpen
PROPERTIES
  NumbersKeepMeaning
