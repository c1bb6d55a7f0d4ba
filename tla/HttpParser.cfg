SPECIFICATION FairScriptedSpec
CONSTANTS
  Messages <- EveryMessage
  MaxHeaders = 2
  Requests = 2
  PeerCloses = TRUE
  WholeTrailers = TRUE
  NewValues = {3}
  MaxOps = 2
INVARIANTS
  TypeOK
  Faithful
  HeadersReported
  Framed
  NoStarvation
  ForEachVisits
PROPERTIES
  Settles
