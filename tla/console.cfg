SPECIFICATION InputSpec
CONSTANTS
  Char <- Chars
  Junk = junk
  Slack = 2
  Width = 2
  Lines <- MCLines
  MaxPending = 6
INVARIANTS
  TypeOK
PROPERTIES
  InputQueue
  EoiLasts
  NumberEndsLine
