\* Seventeen documents, six of them written over each other up to three times, in place or by a
\* rename; elements over the record cap, documents over the window of the probe and over their cap.
SPECIFICATION Spec
CONSTANTS
  MaxNesting = 3
  Structure <- Scan
  Plausible <- IsCandidate
  Corpus <- Samples
  Rewritten = {1, 2, 3, 4, 6, 7}
  Window = 40
  MaxLength = 70
  PageLimits = {1, 2}
  NormalCap = 8
  MaxRewrites = 3
  Growing = FALSE
INVARIANTS
  SpansExact
  ProbeAdmits
  PagesOfOneDocument
PROPERTIES
  ImplementsFeed
