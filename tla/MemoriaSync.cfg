SPECIFICATION MSpec
CONSTANTS
  hello = hello
  bye = bye
  blank = blank
  Text <- MCText
  BadText <- MCBad
  MaxTurn = 3
  MaxDrain = 1
  MaxFault = 2
INVARIANTS
  KeptSomewhere
  LineIsInOnePlace
PROPERTIES
  JobsGetTheirTurn
\* Everything is bounded: the system rests at the end.
CHECK_DEADLOCK FALSE
