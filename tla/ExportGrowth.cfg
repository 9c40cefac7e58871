\* A longer export may also be written in place while a query runs.
SPECIFICATION Spec
CONSTANTS
  MaxNesting = 3
  Structure <- Scan
  Plausible <- IsCandidate
  Corpus <- Samples
  Rewritten = {1, 2, 3, 4, 6, 7}
  Window = 40
  MaxLength = 70
  PageLimits = {1, 2}
  NormalCap = 8
  MaxRewrites = 1
  Growing = TRUE
INVARIANTS
  PagesOfOneDocument
