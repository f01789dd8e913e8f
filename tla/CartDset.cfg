SPECIFICATION Spec
CONSTANTS
  UIntMod = 1024
  Carts <- MCCarts
INVARIANTS
  OwnBlock
  BufferInOrder
  OnlySurplusFails
  CollectiveRequests
  ArraysSuffice
CHECK_DEADLOCK FALSE
