CONSTANTS
  Frameworks = {f}
  TrimOf <- McTrimOf
  SlugOf <- McSlugOf
  RankOf <- McRankOf
  DupThreshold = 2
  Texts <- McTexts
  Budget = 8
  MaxChunk = 9
  BatchSize = 1
  Parts <- McParts
  ControlReplies <- McControlReplies
  Renamings = {"blank", "drift"}
  Handed <- McHanded
  Nested <- McNested
  ByHand <- McByHand
  OwnCategories <- McOwnCategories
  OwnRequirements <- McOwnRequirements
  ExpectedRequirements = 3
  MaxVersions = 2
  MaxJobs = 1
  MaxTranslations = 2
  MaxEdits = 1
SPECIFICATION Spec
CONSTRAINT Narrow
INVARIANTS ChunksKeepNeighbours OnlyNamelessIsInvalid AcceptedIsExported TranslationNamesEveryNode
CHECK_DEADLOCK FALSE
