SPECIFICATION FairSpec
CONSTANTS
  TxSize = 3
  RxSize = 3
  Bytes <- MCBytes
  MaxTx = 3
  MaxRx = 4
INVARIANTS TypeOK TxArmed PromiseKept
PROPERTIES DropOnlyWhenFull TxIsFifo RxIsFifo TxDelivers PutReturns
CHECK_DEADLOCK FALSE
