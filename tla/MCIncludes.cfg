SPECIFICATION FairSpec
CHECK_DEADLOCK FALSE
CONSTANTS
  Files <- MCFiles
  Directories = {src, inc}
  Names = {h, i, alias, missing, w, m}
  FileAt <- MCFileAt
  DirectoryOf <- MCDirectoryOf
  IncludePaths <- MCIncludePaths
  Disks <- MCDisks
  Units <- MCUnits
  NoFile = none
  main = main
  header = header
  other = other
  src = src
  inc = inc
  h = h
  i = i
  alias = alias
  missing = missing
  w = w
  m = m
  none = none
INVARIANTS
  GuardedOpenOnce
  IncludersAreActive
  ReadsTheText
PROPERTY EveryUnitEnds
