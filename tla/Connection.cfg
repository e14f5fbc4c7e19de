CONSTANTS
  None = None
  Targets = {home, away}
  Base = 1
  Longest = 4
  CmdMax = 2
  DigitMax = 2
  Answers = {"ok", "failed"}
  ThreadsDie = FALSE
  Paces = {TRUE, FALSE}
SPECIFICATION FairSpec
INVARIANTS PhaseHonest NothingUnasked
PROPERTIES FirstRetrySoon DtmfOnItsLink Reconnects
