SPECIFICATION Spec
CONSTANTS
  Hosts = {0, 1}
  NumBoxes = 3
  Programs <- MCPrograms
  NoPacket = NoPacket
INVARIANTS
  InOrderOnce
  OneSendAtATime
PROPERTIES
  ProgramsEnd
