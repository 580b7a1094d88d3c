\* Violation run: HandshakeFailureIsLocal.  Same peers and message as MCCorenet.cfg.
\* units whose uuid string ends at unit 3, so TCP can split it before the
\* uuid, inside the padding after it, or not at all.
CONSTANTS
  pc1 = pc1
  pf = pf
  Peers = {pc1, pf}
  Uuid <- MCUuid
  Hash <- MCHash
  Cores = {1, 2}
  MsgLen = 4
  UuidEnd = 3
  Targets = {"self"}
SPECIFICATION Spec
INVARIANT HandshakeFailureIsLocal
\* Every handshake ends: the model stops once both sockets are settled.
CHECK_DEADLOCK FALSE
