CONSTANTS
  MAX_APDU = 1476
  Messages <- MCMessages
  Routes <- MCRoutes
  Lists <- MCLists
  Brackets <- MCBrackets
  TagNumbers = {0, 3, 14, 15, 254}
  Clocks <- MCClocks
  Minutes <- MCMinutes
  MaxAdditions = 3
SPECIFICATION CodecSpec
INVARIANTS
  MessageArrives
  WholeValuesAreRead
  EnclosedIsWhole
  ClockAgrees
