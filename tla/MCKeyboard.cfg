SPECIFICATION FairSpec
CONSTANTS
  Columns = 4
  Sessions <- CarefulOrNot
INVARIANTS CarefulLinesDelivered EchoShown
PROPERTY LinesReturned
CHECK_DEADLOCK FALSE
