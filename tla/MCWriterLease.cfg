SPECIFICATION FairSpec
CONSTANTS
  a1 = a1
  a2 = a2
  b1 = b1
  pa = pa
  pb = pb
  None = None
  Opener = {a1, a2, b1}
  Process = {pa, pb}
  Host <- MCHost
  Inode = {1, 2, 3, 4}
INVARIANTS
  ProcessExclusive
  NothingLeaks
  InodeExclusive
PROPERTIES
  CallsReturn
