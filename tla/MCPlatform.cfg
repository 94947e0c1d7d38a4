SPECIFICATION FairPlatformSpec
CONSTANTS
  ReadFd = 1
  WriteFd = 2
  Fd = {1, 2, 3}
  MaxReports = 1
  MaxResumes = 1
  MaxBreaks = 1
INVARIANTS
  NoForeignReport
  ResumeOnItsWay
PROPERTIES
  ReaderStops
  ResumeSeen
CHECK_DEADLOCK FALSE
