SPECIFICATION Spec
CONSTANTS
  Subjects = {"a", "b"}
  Streams = {"s1", "s2"}
  Setups <- AllSetups
  MaxAppends = 1
  MaxFaults = 2
INVARIANTS VerifiedIsErased OthersUntouched ExportHonest SettledIsShredded OutOfScopeKept FieldsRoundTrip
PROPERTY RerunsConverge
CHECK_DEADLOCK FALSE
