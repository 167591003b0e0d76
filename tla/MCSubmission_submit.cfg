SPECIFICATION Spec
CHECK_DEADLOCK FALSE
CONSTANTS
  Letters <- MCLetters
  MaxLine <- MCMaxLine
  MaxNumber <- MCMaxNumber
  FileKind <- MCFileKind
  HostTable <- MCHostTable
  ServerAddrs <- MCServerAddrs
  AddrBits <- MCAddrBits
  GroupMembers <- MCGroupMembers
  Scenes <- MCScenes
  MaxLost = 1
INVARIANTS
  PrintsAsked
  OneNamePerFile
  LinesKept
  PermsAsDocumented
  RemovedWhenKept
