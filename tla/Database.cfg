CONSTANTS
  Tables = {s, t}
  Absent = Absent
  Garbage = Garbage
  Modes = {"readonly", "transact", "create"}
  CanFail = {"save", "open", "start"}
  MaxEdits = 2
  MaxOpens = 2
SPECIFICATION FairSpec
INVARIANT DbTypeOK
INVARIANT LastCommitSurvives
INVARIANT FileIsCommitted
INVARIANT CommitSavesAll
PROPERTY CloseOK
PROPERTY CommitEnds
CHECK_DEADLOCK FALSE
