SPECIFICATION UploadPartsSpec
CONSTANTS
  Items = {a, b}
  Empty = Empty
  Size = 3
  MaxInserts = 5
  NumThreads = 2
  EncodeRing = 2
  NumItems = 12
  NumSecrets = 3
  ShareSize <- MCShareSize
  BufferSize = 2
  UploadRing = 2
  MaxSegment = 1
INVARIANTS
  CollectedInOrder
  PackagesTile
  DataAsAnswered
  KeysButTheLast
PROPERTIES
  IsBoundedFifo
  AllExtracted
  AllCollected
  UploadEnds
