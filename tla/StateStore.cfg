CONSTANTS
  Names = {a, b}
  Versions = {v, w}
  Absent = Absent
  NoFile = NoFile
  MaxSaves = 2
  MaxLives = 3
  StoreMayFail = TRUE
  RemoveMayFail = TRUE
SYMMETRY Symmetry
SPECIFICATION Spec
INVARIANTS NoResurrection MigrationKeepsList RestoresLastSave
PROPERTY Implements
CHECK_DEADLOCK FALSE
