CONSTANTS
  Letters <- LettersOf
  Files <- AllFiles
  Exemptions <- ExemptionsOf
  Configs <- ConfigsOf
  Excluded <- ExcludedOf
  Means <- MeansOf
  Below <- BelowOf

SPECIFICATION Spec
INVARIANT VerdictIsExact
INVARIANT CommentsDeclareNothing
