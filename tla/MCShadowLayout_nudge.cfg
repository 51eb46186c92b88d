CONSTANTS
  Slice = 2048
  Page = 8
  Word = 2
  Slack = 8
  BiggestSane = 80
  Lengths = {8, 78, 80, 86}
  MaxMaps = 3
  Initial <- MCInitial
  Hints <- MCHints
SPECIFICATION Spec
INVARIANTS
  Shadowed
