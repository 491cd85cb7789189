SPECIFICATION Spec
CONSTANTS
  s1 = s1
  s2 = s2
  d1 = d1
  d2 = d2
  Sessions = {s1, s2}
  Topics = {t1, t2}
  Docs = {d1, d2}
  NoTopic = NoTopic
  NotNumbers = {s2}
  Judgments <- MCJudgments
  Unjudged = Unjudged
  Mappings <- AllMappings
  RunFiles <- SomeRuns
  Duplicates <- OneDuplicate
  Cutoff = 2
  GoalTypes = {FALSE, TRUE}
  MaxLines = 2
  MaxRuns = 2
  MaxRank = 3
  Ranks = 6
  Discount <- MCDiscount
INVARIANTS TypeOK LargestJudgment OutcomeAsRead MeasuresAsDefined MeasuresBounded
CHECK_DEADLOCK FALSE
