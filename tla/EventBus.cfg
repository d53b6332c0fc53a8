SPECIFICATION Spec
CONSTANTS
  shell = shell
  audit = audit
  net = net
  sys = sys
  b1 = b1
  b2 = b2
  heap = heap
  partial = partial
  token = token
  overflow = overflow
  Subs <- MCSubs
  Tasks <- MCTasks
  Sweepers = {sys}
  Types <- MCTypes
  Overflow = overflow
  Coalescable = {heap, partial}
  BlobTypes = {partial, token}
  Publishes <- MCPublishes
  Accepts <- MCAccepts
  MaxDepth = 2
  Depth <- MCDepth
  Policy <- MCPolicy
  Coalescing = {shell}
  Blobs = {b1, b2}
  NoBlob = NoBlob
  NoEvent = NoEvent
  MaxSeq = 3
INVARIANTS
  TypeOK
  TokensMatchRing
  RefsExact
  OrderKept
  LossAccounted
PROPERTY
  ImplementsMailbox
