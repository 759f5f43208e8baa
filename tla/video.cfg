SPECIFICATION VideoSpec
CONSTANTS
  Cols = 2
  Rows = 2
  Chars <- MCChars
  Strings <- MCStrings
  Numbers = {0, 26}
  MaxTop = 2
  Margin = 2
INVARIANTS VideoTypeOK ScreenShowsTape NothingAhead NumberReadsBack
CHECK_DEADLOCK FALSE
