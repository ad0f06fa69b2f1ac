\* Web VM manager: three ids, two names, three VMM starts.
CONSTANTS
  i1 = i1
  i2 = i2
  i3 = i3
  n1 = n1
  n2 = n2
  NoName = NoName
  Ids <- MCIds
  Names <- MCNames
  VM_LIMIT = 3
  MaxProcs = 3
SPECIFICATION Spec
SYMMETRY MCSymmetry
INVARIANTS
  TypeOK
  NoOrphanVmm
  OneVmmPerVm
  WorkerMatchesRow
CHECK_DEADLOCK FALSE
