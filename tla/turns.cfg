SPECIFICATION Spec
CONSTANTS
  Slots = {"model", "location"}
  Values = {"M9"}
  Null = Null
  Blank = Blank
  SkillNames = {"GREETING", "PRICE", "HELP"}
  Buckets = 4
  FileSets <- MCFileSets
  Texts <- MCTexts
  LlmAnswers <- MCLlmAnswers
  MaxTurns = 2
  Workers = 2
  Bucket = 2
  HistoryMax = 5
  MinRounds = 2
  Earlier = 2
  MaxNotices = 1
INVARIANTS
  TypeOK
  CouponAfterTwoRounds
  
  RolloutIsShare
PROPERTIES
  NoLostSlot
  EveryTurnEnds
CHECK_DEADLOCK FALSE
