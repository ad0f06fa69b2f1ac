\* Web VM manager: the console thread after the VM restarts.
CONSTANTS
  i1 = i1
  i2 = i2
  i3 = i3
  n1 = n1
  n2 = n2
  NoName = NoName
  Ids <- MCIds
  Names <- MCNames
  VM_LIMIT = 3
  MaxProcs = 3
SPECIFICATION Spec
SYMMETRY MCSymmetry
INVARIANTS
  ConsoleFollowsVm
CHECK_DEADLOCK FALSE
