CONSTANTS
  Suites = {"chacha", "aes"}
  RxWindowBits = 2
  GraceSpan = 2
  Stride = 2
  Shard = 1
  RotateBytes = 2
  ReceiptNonceBit = 3
  NoCipher = NoCipher
  MaxEpoch = 3
  MaxRekey = 1
  MaxSeals = 3
  Sealers = {"initiator", "responder"}
  GarbledEpochs = {0, 3}
SPECIFICATION Spec
PROPERTY ImplementsChannel
CHECK_DEADLOCK FALSE
