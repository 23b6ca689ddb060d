SPECIFICATION Spec
CONSTANTS
  Width = 3
  Height = 4
  Points <- MCPoints
  Searched <- MCSearched
INVARIANTS
  PlaneSound
  SearchesExact
