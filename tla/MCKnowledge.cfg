SPECIFICATION QSpec
CONSTANTS
  i1 = i1  i2 = i2  i3 = i3  r1 = r1
  NoVersion = NoVersion
  Target = 6
  Overlap = 2
  MaxLines = 5
  Line <- MCLine
  Ingester = {i1, i2, i3}
  Bootstrap = {i1}
  Source <- MCSource
  Corpus <- MCCorpus
  Expected <- MCExpected
  Reader = {r1}
  TopK = 2
  MaxDay = 1
INVARIANTS OneApprovedVersion PassedFilesAreStored CitesPublishedPolicy GoneOnlyWhenReplaced
PROPERTIES GapOnlyFromSuccessor
