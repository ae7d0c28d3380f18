CONSTANTS
  Suites = {"chacha"}
  RxWindowBits = 2
  GraceSpan = 1
  Stride = 1
  Shard = 0
  RotateBytes = 4
  ReceiptNonceBit = 5
  NoCipher = NoCipher
  MaxEpoch = 2
  MaxRekey = 0
  MaxSeals = 5
  Sealers = {"initiator"}
  GarbledEpochs = {2}
SPECIFICATION Spec
INVARIANTS TypeOK NonceUnique AtMostOnce ReorderTolerated
CHECK_DEADLOCK FALSE
