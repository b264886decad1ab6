CONSTANTS
  HdrSz = 2
  MinBlk = 4
  SmallBlk = 5
  Bucket = 14
  MaxHeap = 34
  Sizes = {1, 3, 7}
SPECIFICATION HeapSpec
INVARIANTS HeapTypeOK Ff1IsFirst NullOnlyIfFull
PROPERTIES ImplementsAllocator
