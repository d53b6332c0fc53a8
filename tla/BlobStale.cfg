SPECIFICATION Spec
CONSTANTS
  s1 = s1
  s2 = s2
  l1 = l1
  Blobs <- MCBlobs
  Classes = {"small", "large"}
  ClassOf <- MCClassOf
  Refs = {1, 2}
  Sweepers = {"sys"}
  MaxAge = 1
  Wrap = 8
  MaxTime = 3
  NoBlob = NoBlob
INVARIANT
  WarnsOnlyIfHeldLonger
