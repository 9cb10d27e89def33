CONSTANTS
  Client = Client
  Server = Server
  Endpoint = {e1, e2}
  NoEndpoint = NoEndpoint
  Conn = {c1, c2}
  NoConn = NoConn
  Setups <- Restarting
  MaxMsgs = 2
SPECIFICATION FairSpec
PROPERTY ComesBack
