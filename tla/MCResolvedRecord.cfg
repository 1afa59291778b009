SPECIFICATION RecordSpec
CONSTANTS
  U32 = 32
  MinConf = 15
  MaxConf = 16
INVARIANTS
  TtlsAsDocumented
