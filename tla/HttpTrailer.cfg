SPECIFICATION Spec
CONSTANTS
  Messages <- ChunkedOnly
  MaxHeaders = 2
  Requests = 2
  PeerCloses = FALSE
  WholeTrailers = FALSE
INVARIANTS
  Faithful
