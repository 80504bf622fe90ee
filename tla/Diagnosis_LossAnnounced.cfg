SPECIFICATION Spec
CONSTANTS
  problem = problem
  team = team
  Sections = {problem, team}
  MaxPlain = 3
  MaxTable = 1
  MaxNested = 1
  MaxLines = 1
  Uploads <- ZipFiles
  Documents <- Others
  RuleFinds <- RuleShapes
  AiFinds <- AiShapes
  Answers <- Indexes
CHECK_DEADLOCK FALSE
INVARIANT LossAnnounced
