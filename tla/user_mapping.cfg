SPECIFICATION FairSpec
CONSTANTS
  Labs = {l1}
  NoLab = NoLab
  Procs = {p1, p2}
  MaxVersion = 2
  MaxCrashes = 1
  Faults = TRUE
  KeyFaults = TRUE
\* A poisoned SSH cache stops every operation, in the program as well.
CHECK_DEADLOCK FALSE
INVARIANTS PublishedIsFresh UrlKeepsWorking QuietFileIsCurrent
PROPERTIES FileNeverGoesBack ImplementsPublisher RegenReturnsUnlessPoisoned
