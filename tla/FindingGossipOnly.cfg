CONSTANTS
  Nodes = {"a", "b", "c"}
  Validity = 1
  MaxTick = 2
  None = None
SPECIFICATION SenderSpec
PROPERTY QueuedTransactionsAreOffered
CHECK_DEADLOCK FALSE
