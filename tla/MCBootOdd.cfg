SPECIFICATION TraceSpec
CONSTANTS
  NoCart = NoCart
  Models <- MCModels
  Carts <- OddCarts
  Addresses <- MCAddresses
  Ports <- MCPorts
  Bytes <- MCBytes
  Workloads <- BootWorkload
INVARIANTS
  BootVector
