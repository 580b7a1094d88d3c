------------------------------- MODULE Corenet -------------------------------
(***************************************************************************)
(* The corenet TCP handshake (src/sdfs/schedule/corenet_connect_tcp.c).    *)
(*                                                                         *)
(* corenet_tcp_connect connects to a peer, sends one corenet_msg_t (the    *)
(* hash of its worker, its nid, the target nid and the cluster uuid) and   *)
(* adds the socket to its worker without waiting for an answer.  On the    *)
(* other side the passive thread accepts the socket and starts a thread    *)
(* running __corenet_accept__: poll for at most a second, one recv of      *)
(* sizeof(msg) bytes, check the uuid, then hand the socket to the worker   *)
(* whose hash the peer named.                                              *)
(*                                                                         *)
(* A message is MsgLen units: unit 1 the hash, 2 the nids, and the uuid    *)
(* field from unit 3 on, whose string (with its NUL) ends at unit UuidEnd. *)
(* TCP delivers the units in order, in segments of any size.  What recv    *)
(* leaves unfilled of the stack buffer is whatever was there.              *)
(***************************************************************************)
EXTENDS Integers

CONSTANTS
  Peers,        \* connections, one per connecting peer (model values)
  Uuid,         \* [Peers -> {"cluster", "foreign"}]: the uuid the peer sends
  Hash,         \* [Peers -> Cores]: core->hash of the connecting worker
  Cores,        \* worker hashes of the accepting node
  MsgLen,       \* sizeof(corenet_msg_t), in units
  UuidEnd,      \* the unit holding the NUL of the uuid string
  Targets       \* msg.to a connector of this cluster may send: "self" is
                \* the accepting node's nid, "other" another node's, sent
                \* to this address by a stale nid-to-address mapping

ASSUME UuidEnd \in 3..MsgLen
ASSUME Uuid \in [Peers -> {"cluster", "foreign"}] /\ Hash \in [Peers -> Cores]
ASSUME "self" \in Targets /\ Targets \subseteq {"self", "other"}

NoCore == 0

VARIABLES
  conn,       \* connector: "idle", "failed" or "added" (corenet_tcp_add done)
  sent,       \* units the connector sent
  delivered,  \* units TCP has delivered to the acceptor's socket
  closed,     \* the connector closed its end (FIN after its data)
  acc,        \* acceptor: "none", "polling", "recv", "added", "closed"
  got,        \* what the one recv returned
  core,       \* the worker the acceptor handed the socket to
  aborted,    \* a YASSERT failed: the accepting process is gone
  listen,     \* corenet_tcp_passive: "none", "bound" or "failed"
  to          \* the msg.to field the connector sent

vars == <<conn, sent, delivered, closed, acc, got, core, aborted, listen, to>>

TypeOK ==
  /\ conn \in [Peers -> {"idle", "failed", "added"}]
  /\ sent \in [Peers -> 0..MsgLen]
  /\ delivered \in [Peers -> 0..MsgLen]
  /\ closed \in [Peers -> BOOLEAN]
  /\ acc \in [Peers -> {"none", "polling", "recv", "added", "closed"}]
  /\ got \in [Peers -> 0..MsgLen]
  /\ core \in [Peers -> Cores \cup {NoCore}]
  /\ aborted \in BOOLEAN
  /\ listen \in {"none", "bound", "failed"}
  /\ to \in [Peers -> Targets]

Init ==
  /\ conn = [p \in Peers |-> "idle"]
  /\ sent = [p \in Peers |-> 0]
  /\ delivered = [p \in Peers |-> 0]
  /\ closed = [p \in Peers |-> FALSE]
  /\ acc = [p \in Peers |-> "none"]
  /\ got = [p \in Peers |-> 0]
  /\ core = [p \in Peers |-> NoCore]
  /\ aborted = FALSE
  /\ listen = "none"
  /\ to = [p \in Peers |-> "self"]

(***************************************************************************)
(* corenet_tcp_connect: tcp_sock_connect fails unless the peer listens,    *)
(* and may fail anyway.  send is checked only for < 0: the blocking send   *)
(* queues the whole message, or a part of it when a signal interrupts it   *)
(* after the first bytes went out, and the short count passes unnoticed.   *)
(* The socket is then tuned and added to the caller's worker.  A peer that *)
(* is not a corenet connector (another cluster, a probe) may send nothing. *)
(***************************************************************************)
Connect(p) ==
  /\ conn[p] = "idle"
  /\ \/ conn' = [conn EXCEPT ![p] = "failed"] /\ UNCHANGED <<sent, to>>
     \/ /\ listen = "bound"
        /\ conn' = [conn EXCEPT ![p] = "added"]
        /\ \E n \in 1..MsgLen : sent' = [sent EXCEPT ![p] = n]
        /\ \E t \in Targets : to' = [to EXCEPT ![p] = t]
     \/ /\ listen = "bound" /\ Uuid[p] = "foreign"
        /\ conn' = [conn EXCEPT ![p] = "added"]
        /\ UNCHANGED <<sent, to>>
  /\ UNCHANGED <<delivered, closed, acc, got, core, aborted, listen, to>>

(***************************************************************************)
(* corenet_tcp_passive: listen on a random port of the service range; an   *)
(* EADDRINUSE draws another port (a step that changes nothing here), any   *)
(* other error returns it, and so does a failure to start the              *)
(* __corenet_passive thread, after which no connection is ever accepted.   *)
(***************************************************************************)
Passive ==
  /\ listen = "none"
  /\ to = [p \in Peers |-> "self"]
  /\ listen' \in {"bound", "failed"}
  /\ UNCHANGED <<conn, sent, delivered, closed, acc, got, core, aborted, to>>

\* TCP delivers the next segment of what was sent
Deliver(p) ==
  /\ delivered[p] < sent[p]
  /\ \E n \in delivered[p] + 1 .. sent[p] : delivered' = [delivered EXCEPT ![p] = n]
  /\ UNCHANGED <<conn, sent, closed, acc, got, core, aborted, listen, to>>

\* the connecting side closes the socket (corerpc_close, exit)
Close(p) ==
  /\ conn[p] = "added" /\ ~closed[p]
  /\ closed' = [closed EXCEPT ![p] = TRUE]
  /\ UNCHANGED <<conn, sent, delivered, acc, got, core, aborted, listen, to>>

(***************************************************************************)
(* __corenet_passive / __corenet_accept: accept() the connection and start *)
(* a thread on __corenet_accept__ for it.                                  *)
(***************************************************************************)
Accept(p) ==
  /\ ~aborted
  /\ listen = "bound"
  /\ conn[p] = "added" /\ acc[p] = "none"
  /\ acc' = [acc EXCEPT ![p] = "polling"]
  /\ UNCHANGED <<conn, sent, delivered, closed, got, core, aborted, listen, to>>

\* __corenet_accept__ error exit: close(sockid->sd)
Reject(p) == acc' = [acc EXCEPT ![p] = "closed"]

\* Mutant: poll waits for data with no timeout
PollNoTimeout(p) ==
  /\ ~aborted
  /\ acc[p] = "polling"
  /\ delivered[p] > 0 \/ closed[p]
  /\ acc' = [acc EXCEPT ![p] = "recv"]
  /\ UNCHANGED <<conn, sent, delivered, closed, got, core, aborted, listen, to>>

(***************************************************************************)
(* sock_poll_sd(sd, 1s, POLLIN): readable when data or EOF is there;       *)
(* otherwise it may time out, and the socket is closed.                    *)
(***************************************************************************)
Poll(p) ==
  /\ ~aborted
  /\ acc[p] = "polling"
  /\ \/ /\ delivered[p] > 0 \/ closed[p]
        /\ acc' = [acc EXCEPT ![p] = "recv"]
     \/ /\ delivered[p] = 0
        /\ Reject(p)
  /\ UNCHANGED <<conn, sent, delivered, closed, got, core, aborted, listen, to>>

\* Mutant: the uuid is not compared
RecvNoUuidCheck(p) ==
  /\ ~aborted
  /\ acc[p] = "recv"
  /\ \/ /\ delivered[p] = 0 /\ closed[p]
        /\ Reject(p)
        /\ UNCHANGED <<got, core, aborted>>
     \/ \E n \in 1..delivered[p] :
          /\ got' = [got EXCEPT ![p] = n]
          /\ \/ /\ n # MsgLen
                /\ aborted' = TRUE
                /\ UNCHANGED <<acc, core>>
             \/ /\ n = MsgLen
                /\ acc' = [acc EXCEPT ![p] = "added"]
                /\ core' = [core EXCEPT ![p] = Hash[p]]
                /\ UNCHANGED aborted
  /\ UNCHANGED <<conn, sent, delivered, closed, listen, to>>

\* Mutant: a failed recv (ret < 0) is not caught before the uuid check
RecvNoErrorCheck(p) ==
  /\ ~aborted
  /\ acc[p] = "recv"
  /\ got' = [got EXCEPT ![p] = -1]
  /\ \/ Reject(p) /\ UNCHANGED <<core, aborted>>
     \/ aborted' = TRUE /\ UNCHANGED <<acc, core>>
  /\ UNCHANGED <<conn, sent, delivered, closed, listen, to>>

(***************************************************************************)
(* One recv(sd, buf, sizeof msg, 0): it fails (a reset connection), or   *)
(* returns what has arrived, or 0 at EOF (ECONNRESET).  strcmp of the     *)
(* uuids then reads the buffer; when the NUL of the uuid has not arrived  *)
(* it reads stale stack bytes and either result is possible.  A matching  *)
(* uuid is followed by YASSERT(sizeof msg == ret) and YASSERT that        *)
(* msg->to is this node's nid; tcp_sock_tuning may fail; otherwise the    *)
(* socket goes to core_get(msg->hash).                                    *)
(***************************************************************************)
Recv(p) ==
  /\ ~aborted
  /\ acc[p] = "recv"
  /\ \/ /\ Reject(p)
        /\ UNCHANGED <<got, core, aborted>>
     \/ /\ delivered[p] = 0 /\ closed[p]
        /\ Reject(p)
        /\ UNCHANGED <<got, core, aborted>>
     \/ \E n \in 1..delivered[p], match \in BOOLEAN :
          /\ got' = [got EXCEPT ![p] = n]
          /\ n >= UuidEnd => (match <=> Uuid[p] = "cluster")
          /\ \/ /\ ~match
                /\ Reject(p)
                /\ UNCHANGED <<core, aborted>>
             \/ /\ match /\ n # MsgLen
                /\ aborted' = TRUE
                /\ UNCHANGED <<acc, core>>
             \/ /\ match /\ n = MsgLen /\ to[p] # "self"
                /\ aborted' = TRUE
                /\ UNCHANGED <<acc, core>>
             \/ /\ match /\ n = MsgLen /\ to[p] = "self"
                /\ \/ Reject(p) /\ UNCHANGED core
                   \/ /\ acc' = [acc EXCEPT ![p] = "added"]
                      /\ core' = [core EXCEPT ![p] = Hash[p]]
                /\ UNCHANGED aborted
  /\ UNCHANGED <<conn, sent, delivered, closed, listen, to>>

Next ==
  \/ Passive
  \/ \E p \in Peers :
        \/ Connect(p) \/ Deliver(p) \/ Close(p)
        \/ Accept(p) \/ Poll(p) \/ Recv(p)

\* Each __corenet_accept__ runs on a thread of its own (sy_thread_create2)
\* and its poll returns within a second: the acceptor's steps are weakly
\* fair.  Peers and TCP owe nothing.
Fairness == \A p \in Peers : WF_vars(Poll(p)) /\ WF_vars(Recv(p))

Spec == Init /\ [][Next]_vars /\ Fairness

-----------------------------------------------------------------------------
(***************************************************************************)
(* The acceptor hands a socket to a worker only for a peer of this         *)
(* cluster, and to the worker the peer named: a foreign or truncated       *)
(* message never gets a socket into a worker's connection table.  It       *)
(* rests on the uuid check and the size assertion of __corenet_accept__    *)
(* together, against any segmentation of the message by TCP.               *)
(***************************************************************************)
ClusterOnly ==
  \A p \in Peers :
     acc[p] = "added" => /\ Uuid[p] = "cluster"
                         /\ got[p] = MsgLen
                         /\ core[p] = Hash[p]

(***************************************************************************)
(* Every accepted socket is settled: its __corenet_accept__ thread ends    *)
(* with the socket in a worker or closed, also for a peer that connects    *)
(* and then sends nothing and keeps the connection open.  It rests on the  *)
(* one-second poll timeout and the single recv.                            *)
(***************************************************************************)
AcceptorSettles ==
  \A p \in Peers :
     acc[p] \in {"polling", "recv"} ~> (acc[p] \in {"added", "closed"} \/ aborted)

(***************************************************************************)
(* Spec section 7: a peer that breaks off the handshake is fatal for that  *)
(* socket only; the accepting process keeps running whatever arrives.      *)
(***************************************************************************)
HandshakeFailureIsLocal == ~aborted

=============================================================================
