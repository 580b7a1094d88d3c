------------------------------- MODULE InodeMd -------------------------------
(***************************************************************************)
(* The inode record of a regular file as src/sdfs/metadata/inode_redis.c   *)
(* keeps it in the SDFS_MD field of the file's redis hash, and what each   *)
(* inode operation does to it.  Only the fields the operations change are  *)
(* kept: the size, the link count and whether a mode is set.               *)
(***************************************************************************)
EXTENDS Integers

CONSTANTS
  Sizes,        \* sizes a truncate or an extend may ask for (> 0)
  MaxLinks      \* bound on |at_nlink|; the calls are bounded below it

ASSUME Sizes \subseteq Nat \ {0} /\ MaxLinks \in Nat

Records == [size : {0} \cup Sizes, nlink : -MaxLinks..MaxLinks, mode : {0, 1}]

\* a file as __inode_create leaves it: one link, a mode, empty
InitMd == [size |-> 0, nlink |-> 1, mode |-> 1]

\* __md_get: hget of a missing record is ENOENT, answered with a zeroed md
ZeroMd == [size |-> 0, nlink |-> 0, mode |-> 0]

\* The calls on the inode: setattr carrying a size (truncate) or a mode
\* (chmod) and its force flag, extend to a size, link, unlink, and remove,
\* which deletes the record rather than changing it.
OpKinds == {"truncate", "chmod", "extend", "link", "unlink"}
RemoveOp == [kind |-> "remove", arg |-> 0, force |-> FALSE]
NoOp == [kind |-> "none", arg |-> 0, force |-> FALSE]

\* md_attr_update: a truncate sets at_size, a chmod sets at_mode
SetattrUpdate(op, m) ==
  IF op.kind = "truncate" THEN [m EXCEPT !.size = op.arg] ELSE [m EXCEPT !.mode = 1]
\* __inode_extend under the lock: md->at_size = size
ExtendUpdate(op, m) == [m EXCEPT !.size = op.arg]
\* __inode_link: md->at_nlink++
LinkUpdate(m) == [m EXCEPT !.nlink = @ + 1]
\* __inode_unlink: md->at_nlink--
UnlinkUpdate(m) == [m EXCEPT !.nlink = @ - 1]

\* the record op writes when it read m
Modify(op, m) ==
  CASE op.kind \in {"truncate", "chmod"} -> SetattrUpdate(op, m)
    [] op.kind = "extend" -> ExtendUpdate(op, m)
    [] op.kind = "link" -> LinkUpdate(m)
    [] op.kind = "unlink" -> UnlinkUpdate(m)
=============================================================================
