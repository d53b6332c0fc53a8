SPECIFICATION Spec
CONSTANTS
  s1 = s1
  s2 = s2
  l1 = l1
  Blobs <- MCBlobs
  Classes = {"small", "large"}
  ClassOf <- MCClassOf
  Refs = {1, 2, 3}
  Sweepers = {"sys"}
  MaxAge = 0
  Wrap = 8
  MaxTime = 1
  NoBlob = NoBlob
INVARIANTS
  TypeOK
  RefsCounted
  OnePlace
PROPERTY
  Recycled
