SPECIFICATION Spec
CONSTANTS
  Units <- MCUnits
  Leaves <- MCLeaves
  References <- MCReferences
  Anchors = {"A", "B"}
  Answers <- MCAnswers
INVARIANTS AcceptedFailsOnValues LookupsAgree ReportsAreReal
CHECK_DEADLOCK FALSE
