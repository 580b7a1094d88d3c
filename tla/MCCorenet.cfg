\* One connector of this cluster and one foreign peer; a message of four
\* units whose uuid string ends at unit 3, so TCP can split it before the
\* uuid, inside the padding after it, or not at all.
CONSTANTS
  pc1 = pc1
  pf = pf
  Peers = {pc1, pf}
  Uuid <- MCUuid
  Hash <- MCHash
  Cores = {1, 2}
  MsgLen = 4
  UuidEnd = 3
  Targets = {"self", "other"}
SPECIFICATION Spec
INVARIANT TypeOK ClusterOnly
PROPERTY AcceptorSettles
\* Every handshake ends: the model stops once both sockets are settled
\* (or the listener failed and no connection can succeed).
CHECK_DEADLOCK FALSE
