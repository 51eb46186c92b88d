CONSTANTS
  Thread = {main, other}
  Main = main
  NoType = NoType
  Failure <- MCFailure
  NameOf <- MCNameOf
  SuppressionLists <- MCLists
  MaxFailures = 3
SPECIFICATION Spec
INVARIANT ReportsRight
INVARIANT CountsAddUp
PROPERTY Flushed
