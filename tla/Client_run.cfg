SPECIFICATION ClientSpec

CONSTANTS
  PageSize = 4
  MmapBase = 20
  Top = 56
  Client <- OwnPage
  Programs <- SmallPrograms
  MayRefuse = TRUE
  Argcs = {1, 2}
  Environs <- SmallEnvirons
  Arches = {"x86_64", "aarch64", "riscv64"}
  Calls <- SmallCalls
  CloneStructs <- SmallStructs
  Unknown <- UnknownNumbers
  Others = {1}
  MaxWarned = 2
  Window = 4
  SampleAfter = 7
  SampleEvery = 2
  SameBbThreshold = 3
  Blocks = {1, 2, 3}
  MaxDispatches = 12

INVARIANTS
  LoadedRight
  MapsKept
  StackReadable
  RegistersArrive
  RegistersKept
  MeansTheSame
  WarnsOnce
  DetectsLoops

\* The client exits on an error, and the model of a start ends in the guest.
CHECK_DEADLOCK FALSE
