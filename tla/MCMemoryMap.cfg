SPECIFICATION TraceSpec
CONSTANTS
  NoCart = NoCart
  Models <- MCModels
  Carts <- MCCarts
  Addresses <- MCAddresses
  Ports <- MCPorts
  Bytes <- MCBytes
  Workloads <- MCWorkloads
INVARIANTS
  TypeOK
  MemoryReadsLastWrite
  RegistersReadBack
  LockoutOneWay
  TransparentColourZero
  EepromReadsLastWrite
  BootVector
