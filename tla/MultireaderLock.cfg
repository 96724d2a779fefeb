CONSTANTS
  t1 = t1
  t2 = t2
  t3 = t3
  Threads <- MCThreads
  QUEUE_LEN = 2
  None = None
SPECIFICATION FairSpec
INVARIANTS WriterAlone
PROPERTIES NoReaderPassesWriter WriterServed ReaderServed ImplementsRWLock
