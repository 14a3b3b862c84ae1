SPECIFICATION FairSpec
CONSTANTS
  f1 = f1
  f2 = f2
  t1 = t1
  t2 = t2
  Files = {f1}
  Tasks = {t1, t2}
  MaxDownloads = 2
  MaxCrashes = 1
INVARIANTS
  TypeOK
  PublishedOnce
  JournalIsTrue
  EndedOnce
PROPERTIES
  Decided
