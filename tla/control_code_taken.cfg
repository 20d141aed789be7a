CONSTANTS
  Frameworks = {f, g}
  TrimOf <- McTrimOf
  SlugOf <- McSlugOf
  RankOf <- McRankOf
  DupThreshold = 2
  Texts <- McTexts
  Budget = 8
  MaxChunk = 9
  BatchSize = 1
  Parts <- McParts
  ControlReplies <- McControlReplies
  Renamings = {"whole", "blank", "drift"}
  Handed <- McHanded
  Nested = {}
  ByHand = {}
  OwnCategories = {}
  OwnRequirements = {}
  ExpectedRequirements = 3
  MaxVersions = 2
  MaxJobs = 1
  MaxTranslations = 1
  MaxEdits = 0
SPECIFICATION Spec
INVARIANT ControlsAreAddable
CHECK_DEADLOCK FALSE
