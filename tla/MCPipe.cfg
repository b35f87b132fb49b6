\* A ring of four bytes, transfers of up to six: writes wrap, are cut
\* short and find the ring full; the stream is long enough to go round twice.
CONSTANTS
  PIPE_BUF_SIZE = 4
  Sizes <- MCSizes
  MaxSent = 12
SPECIFICATION PipeFairSpec
INVARIANTS InOrder
PROPERTIES ImplementsStream AllDelivered EofReached
CHECK_DEADLOCK FALSE
