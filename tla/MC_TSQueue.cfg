SPECIFICATION Spec
CONSTANTS
  producer = producer
  consumer = consumer
  item = item
  NONE = NONE
  Threads <- MCThreads
  Items <- MCItems
  MaxCalls = 2
PROPERTIES CallsReturn
CHECK_DEADLOCK FALSE
