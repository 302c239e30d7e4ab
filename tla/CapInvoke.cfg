SPECIFICATION FairSpec
CONSTANTS
  Ids = {i1, i2}
  Workers = {w1, w2, w3}
  Receiver = receiver
  CacheSize = 1
  MaxDeliver = 3
  Adverts <- SomeAdverts
INVARIANTS TypeOK CacheFifo ExclusiveOwner RerunExplained AnswersAgree
PROPERTY EveryInvokeAnswered
