CONSTANTS
  References = {"v1", "v2", "v3"}
  Image <- MCImage
  Paths <- MCPaths
  Programs = {"app", "tool"}
  Below <- MCBelow
  Volumes <- MCVolumes
  Faulty = {"lib/so", "tool"}
  Updates = {u}
  MaxStarts = 2
  Host = Host
  Partial = Partial
  Absent = Absent
SPECIFICATION Spec
PROPERTIES ImageInPlace RightProgram
CHECK_DEADLOCK FALSE
