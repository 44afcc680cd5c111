SPECIFICATION DevicesSpec
CONSTANTS
  pg1 = pg1
  pg2 = pg2
  sk1 = sk1
  sk2 = sk2
  dA = dA
  dB = dB
  i1 = i1
  i2 = i2
  du1 = du1
  ut1 = ut1
  ut2 = ut2
  pA = pA
  pB = pB
  nic = nic
  gpu = gpu
  None = None
  Null = Null
  Void = Void
  AnyId = AnyId
  Pages = {pg1, pg2}
  Skbs = {sk1, sk2}
  PAGE_SIZE = 2
  MaxFrags = 2
  MaxLen = 3
  MaxEnd = 4
  UsbDrivers = {dA, dB}
  UsbIntfs = {i1, i2}
  DevOf <- OneDevice
  IdTable <- SomeTables
  Fields <- SomeFields
  Descs <- SomeDescs
  UsbPipes <- SomePipes
  PipeUrbs = {du1}
  UsbThreads = {ut1, ut2}
  MaxEndpoints = 1
  MaxBindings = 2
  MaxWrappers = 2
  MaxPipes = 2
  FragLists <- SomeFragLists
  TransferLengths <- SomeTransferLengths
  MaxUses = 3
  PciDrivers = {pA, pB}
  PciDevices <- TwoDevices
  PciIds <- SomeIds
  PciInfo <- SomeInfo
  PciSlots = 2
  MaxHeld = 2
SYMMETRY Symmetry
INVARIANTS RefsExactlyHeld BytesKept PipesAccounted GoneLeavesNothing BytesArrive ProbedOnce
CHECK_DEADLOCK FALSE
