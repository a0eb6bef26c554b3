SPECIFICATION Spec
CONSTANTS
  SectorSize = 2
  NumSectors = 6
  NumDirEntries = 7
  TransferSizes = {1, 3}
  Images <- MCImages
  UnixFiles <- MCUnixFiles
  OldFiles <- MCOldFiles
  NoFile = NoFile
  CommandLines <- MCCommandLines
CHECK_DEADLOCK FALSE
INVARIANTS
  OwnContext
  OneFileAtATime
  FilesAreFlat
  CreatesApart
  PrintsTheCopy
