SPECIFICATION SilSpec
CONSTANTS
  MaxMsg = 3
  MaxManual = 1
  MaxFault = 1
PROPERTIES
  OnlyForNews
  FollowedUp
\* Everything is bounded: the user falls silent.
CHECK_DEADLOCK FALSE
