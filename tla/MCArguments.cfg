SPECIFICATION Spec
CONSTANTS
  Absent = Absent
  Untouched = Untouched
  Format <- MCFormat
  Candidates <- MCCandidates
INVARIANTS
  ParsedAsDocumented
  RoundTrip
