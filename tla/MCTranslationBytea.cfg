SPECIFICATION LiteralSpec
CONSTANTS
  MaxPrecision = 8
  FallbackScale = 5
  DateMin <- MCDateMin
  DateMax = 32767
  TimeMin <- MCTimeMin
  TimeMax = 524287
  NameMax = 5
  FnNull = FnNull
  IntMax <- MCIntMax
  MaxDigits = 4
  FracDigits = 2
  NanosInMicro = 10
  TimeoutCheckInterval = 4
  MaxSetRels = 8
  NoStat = NoStat
  LongNames = {"long"}
  NoLimit = NoLimit
  Missing = Missing
  MaxScanId = 6
  SqlNull = SqlNull
  Failed = Failed
INVARIANT ByteaLiteralsKeepTheirValue
