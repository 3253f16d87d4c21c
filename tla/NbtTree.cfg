SPECIFICATION Spec
CONSTANTS
  NULL = NULL
  ShortMax = 3
  Trees <- Plain
  Keeps <- SomeKeeps
  CopyKeeps <- SomeKeeps
  CopyLists = FALSE
  Names <- SomeNames
  Paths <- SomePaths
  Junk <- NoJunk
  FailAt <- Anywhere
  Failing = {"clone"}
  MaxLive = 30
  CutName = FALSE
CHECK_DEADLOCK FALSE
INVARIANTS
  NothingLeaked
  CloneIdentical
  DumpRegenerates
  TruncatedRefused
  FiltersAgree
  SearchesFirst
