SPECIFICATION Spec
CONSTANTS
  None = None
  Cell = {c1, c2}
  Filter = {f1, f2}
  Length <- MCLength
  Recent = 3
  Extent <- MCExtent
  Typed <- MCTyped
  Start = 5
  Ticks = 1
  Batches = 1
  Inputs = 2
  Faults = 1
  Pages = 1
  Backlog = 1
SYMMETRY MCSymmetry
INVARIANTS
  MapIsCurrent
  InspectorIsCurrent
  FollowsNow
