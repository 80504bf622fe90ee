SPECIFICATION Spec
CONSTANTS
  problem = problem
  team = team
  Sections = {problem, team}
  MaxPlain = 4
  MaxTable = 3
  MaxNested = 3
  MaxLines = 3
  Uploads <- ZipFiles
  Documents <- Others
  RuleFinds <- RuleShapes
  AiFinds <- AiShapes
  Answers <- Indexes
CHECK_DEADLOCK FALSE
INVARIANTS TypeOK DocumentOrder TextOnce EveryTextAtHome FormVerdict RulesAlwaysReported CriticalFirst AdviceFits SourceReproduced EveryQuoteMarked
