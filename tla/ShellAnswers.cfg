SPECIFICATION ShellSpec
CONSTANTS
  Commands = {"p1", "p2"}
  Behaviours = {"lines", "silent", "bare", "slow", "exits"}
  MaxShells = 2
INVARIANT FinishedAnswers
CHECK_DEADLOCK FALSE
