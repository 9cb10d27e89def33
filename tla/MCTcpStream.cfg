CONSTANTS
  Client = Client
  Server = Server
  Endpoint = {e1, e2}
  NoEndpoint = NoEndpoint
  Conn = {c1, c2}
  NoConn = NoConn
  Setups <- Working
  MaxMsgs = 2
SPECIFICATION FairSpec
INVARIANTS
  Aligned
  HandshakeOfItsStream
  InOrder
PROPERTY Delivered
