SPECIFICATION Spec
CONSTANTS
  WqeCnt = 8
  InlinedHeaders <- RequestHeaders
  MaxSegs = 9
  BufLens = {32, 64, 80, 96}
  SegSizes = {1, 2, 3, 8, 17, 19}
  MaxCopy = 600
  MaxBits = 7
  Texts <- ShortTexts
  PoolSizes = {1, 2, 3, 4, 5, 8, 16, 32}
  MaxLen = 5
  Hosts <- TwoHosts
INVARIANT
  RequestsAccepted
