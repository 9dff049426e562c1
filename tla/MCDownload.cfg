SPECIFICATION DownloadPartsSpec
CONSTANTS
  DecodeThreads = 2
  DecodeRing = 2
  SecretSize <- MCSecretSize
  WriteBuffer = 3
  Clouds = 2
  Secrets <- MCSecrets
  Ends <- MCEnds
  PackCap = 2
  DownRing = 2
  MaxSessions = 2
CHECK_DEADLOCK FALSE
INVARIANTS
  FileInOrder
  PrefixOfFile
PROPERTIES
  FileWritten
  DownloadEnds
