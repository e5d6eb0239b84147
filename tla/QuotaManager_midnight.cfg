SPECIFICATION Spec
CONSTANTS
  Apps = {"YouTube", "TikTok"}
  RuleFiles <- MCRuleFiles
  Word = 16
  Megabyte = 2
  Sizes = {1, 3}
  LastDay = 1
  ByteLimit = 4
INVARIANT
  StateFileIsToday
