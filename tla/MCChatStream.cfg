\* Three payloads of any kind, in any cut into reads; a channel of two frames.
CONSTANTS
  i1 = i1
  i2 = i2
  NoId = NoId
  u1 = u1
  u2 = u2
  shot = shot
  scan = scan
  said = said
  spec = spec
  NoText = NoText
  NoUseId = NoUseId
  UseIds <- MCUseIds
  Texts <- MCTexts
  Images <- MCImages
  BadImages <- MCBadImages
  Specs <- MCSpecs
  Asks <- MCAsks
  Aside = Aside
  Symbols <- MCSymbols
  Lower <- MCLower
  TagPairs <- MCTagPairs
  Tools <- MCTools
  Ids <- MCIds
  Chunks <- MCChunks
  MaxPayloads = 3
  Depth = 2
SPECIFICATION FairSpec
INVARIANTS TypeOK ContentIsWhole ToolFramesAgree UsageIsLatest EndIsMarked
  RequestIsAnswerable RequestIsWhole
PROPERTIES KeepsPromise AbortFreesTask EndReachesClient
CHECK_DEADLOCK FALSE
