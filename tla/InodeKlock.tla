------------------------------ MODULE InodeKlock ------------------------------
(***************************************************************************)
(* The inode operations of src/sdfs/metadata/inode_redis.c on one regular *)
(* file, run by clients on metadata servers: __inode_setattr,             *)
(* __inode_extend, __inode_link, __inode_unlink and __inode_remove (which *)
(* the callers of unlink, outside src/, issue on their own; here it may   *)
(* come at any time).  Each redis call (hget, hset, kdel, klock, kunlock) *)
(* is one atomic step; klock may also fail with a redis error.            *)
(*                                                                         *)
(* klock(k, 10, force) is the advisory lock of the KV backend: taken when *)
(* free; when held, force 0 answers EAGAIN and force 1 waits.  The lease  *)
(* does not expire here (a holder is never stalled for ten seconds).      *)
(* __inode_getattr reads the record through the server's attribute cache  *)
(* when mdsconf.ac_timeout is set: a hit returns the cached record, a miss *)
(* (or an expired entry) reads redis and fills the cache; __md_set        *)
(* refreshes the writer's cache.                                          *)
(***************************************************************************)
EXTENDS InodeMd

CONSTANTS
  Clients,      \* concurrent calls' clients (model values)
  ServerOf,     \* [Clients -> servers]: the metadata server a client is on
  AcTimeout,    \* mdsconf.ac_timeout # 0: getattr goes through attr_cache
  Ops,          \* the calls a client may make
  MaxOps,       \* bound on the calls of a behaviour
  MaxRetry,     \* bound standing for USLEEP_RETRY's retries of klock
  NoClient      \* the lock is free

Servers == {ServerOf[c] : c \in Clients}
NoMd == [size |-> -1, nlink |-> 0, mode |-> 0]     \* no cache entry
Idle == "idle"
EAGAIN == 11
EIO == 5
ENOENT == 2
Labels == {Idle, "lock", "ext_check", "ext_lock", "read", "write", "unlock",
           "release", "rm_md", "rm_xattr"}

VARIABLES
  md,        \* the SDFS_MD field of the file's hash
  present,   \* the hash exists
  cache,     \* each server's attribute cache entry for the file
  holder,    \* who holds the klock
  pc,        \* each client's position
  op,        \* each client's call
  buf,       \* the record the client read (md in the code)
  retry,     \* __inode_extend's retry counter
  ret,       \* the client's return code
  aborted,   \* a YASSERT failed: the metadata server process is gone
  calls      \* calls made so far

vars == <<md, present, cache, holder, pc, op, buf, retry, ret, aborted, calls>>

TypeOK ==
  /\ md \in Records /\ present \in BOOLEAN
  /\ cache \in [Servers -> Records \cup {NoMd}]
  /\ holder \in Clients \cup {NoClient}
  /\ pc \in [Clients -> Labels]
  /\ op \in [Clients -> Ops \cup {RemoveOp, NoOp}]
  /\ buf \in [Clients -> Records]
  /\ retry \in [Clients -> 0..MaxRetry]
  /\ ret \in [Clients -> {0, EAGAIN, EIO, ENOENT}]
  /\ aborted \in BOOLEAN
  /\ calls \in 0..MaxOps

Init ==
  /\ md = InitMd /\ present = TRUE
  /\ cache = [s \in Servers |-> NoMd]
  /\ holder = NoClient
  /\ pc = [c \in Clients |-> Idle]
  /\ op = [c \in Clients |-> NoOp]
  /\ buf = [c \in Clients |-> InitMd]
  /\ retry = [c \in Clients |-> 0]
  /\ ret = [c \in Clients |-> 0]
  /\ aborted = FALSE
  /\ calls = 0

Finish(c, code) ==
  /\ pc' = [pc EXCEPT ![c] = Idle]
  /\ ret' = [ret EXCEPT ![c] = code]
Goto(c, l) == pc' = [pc EXCEPT ![c] = l]

\* __md_get: the stored record, or a zeroed one when it is missing
Stored == IF present THEN md ELSE ZeroMd
\* __inode_getattr: what c may read; a read from redis refills the cache
GetAttr(c) ==
  IF AcTimeout /\ cache[ServerOf[c]] # NoMd THEN {cache[ServerOf[c]], Stored}
  ELSE {Stored}
ReadInto(c, r) ==
  /\ buf' = [buf EXCEPT ![c] = r]
  /\ cache' = IF AcTimeout THEN [cache EXCEPT ![ServerOf[c]] = r] ELSE cache

\* klock's force argument: 1 for link and unlink, the caller's for setattr
Force(o) == o.kind \in {"link", "unlink"} \/ o.force

(***************************************************************************)
(* The calls.                                                              *)
(***************************************************************************)
Call(c) ==
  /\ ~aborted /\ pc[c] = Idle /\ calls < MaxOps
  /\ \E o \in Ops \cup {RemoveOp} :
       /\ op' = [op EXCEPT ![c] = o]
       /\ Goto(c, CASE o.kind = "extend" -> "ext_check"
                    [] o.kind = "remove" -> "rm_md"
                    [] OTHER -> "lock")
  /\ retry' = [retry EXCEPT ![c] = 0]
  /\ calls' = calls + 1
  /\ UNCHANGED <<md, present, cache, holder, buf, ret, aborted>>

\* klock(volid, fileid, 10, force) of setattr, link and unlink; setattr
\* without force returns 0 when the lock is busy, having done nothing
Lock(c) ==
  /\ ~aborted /\ pc[c] = "lock"
  /\ \/ holder = NoClient /\ holder' = c /\ Goto(c, "read") /\ UNCHANGED ret
     \/ holder # NoClient /\ ~Force(op[c]) /\ Finish(c, 0) /\ UNCHANGED holder
  /\ UNCHANGED <<md, present, cache, op, buf, retry, aborted, calls>>

\* klock of setattr, link and unlink fails with a redis error: err_ret
\* returns it.  The backend may fail; nothing obliges it to.
LockFail(c) ==
  /\ ~aborted /\ pc[c] = "lock"
  /\ Finish(c, EIO)
  /\ UNCHANGED <<md, present, cache, holder, op, buf, retry, aborted, calls>>

\* __inode_extend, before the lock: nothing to do when the file is already
\* that large
ExtCheck(c) ==
  /\ ~aborted /\ pc[c] = "ext_check"
  /\ \E r \in GetAttr(c) :
       /\ ReadInto(c, r)
       /\ IF r.size >= op[c].arg THEN Finish(c, 0) ELSE Goto(c, "ext_lock") /\ UNCHANGED ret
  /\ UNCHANGED <<md, present, holder, op, retry, aborted, calls>>

\* mutant: the lock is taken on the strength of the unlocked read
ExtLockNoRecheck(c) ==
  /\ ~aborted /\ pc[c] = "ext_lock"
  /\ \/ holder = NoClient /\ holder' = c /\ Goto(c, "write")
        /\ UNCHANGED <<retry, ret>>
     \/ retry[c] < MaxRetry /\ Goto(c, "ext_check")
        /\ retry' = [retry EXCEPT ![c] = @ + 1] /\ UNCHANGED <<holder, ret>>
     \/ retry[c] = MaxRetry /\ Finish(c, EAGAIN)
        /\ UNCHANGED <<holder, retry>>
  /\ UNCHANGED <<md, present, cache, op, buf, aborted, calls>>

\* mutant: klock is retried without a bound
ExtLockUnbounded(c) ==
  /\ ~aborted /\ pc[c] = "ext_lock"
  /\ \/ holder = NoClient /\ holder' = c /\ Goto(c, "read")
        /\ UNCHANGED <<retry, ret>>
     \/ Goto(c, "ext_check")
        /\ retry' = [retry EXCEPT ![c] = @ + 1] /\ UNCHANGED <<holder, ret>>
  /\ UNCHANGED <<md, present, cache, op, buf, aborted, calls>>

\* klock(volid, fileid, 10, 0) of __inode_extend: a failure (the lock is
\* busy, or a redis error) is retried by USLEEP_RETRY from the unlocked
\* getattr, which gives up with the error after its retries
ExtLock(c) ==
  /\ ~aborted /\ pc[c] = "ext_lock"
  /\ \/ holder = NoClient /\ holder' = c /\ Goto(c, "read")
        /\ UNCHANGED <<retry, ret>>
     \/ retry[c] < MaxRetry /\ Goto(c, "ext_check")
        /\ retry' = [retry EXCEPT ![c] = @ + 1] /\ UNCHANGED <<holder, ret>>
     \/ retry[c] = MaxRetry /\ Finish(c, EAGAIN)
        /\ UNCHANGED <<holder, retry>>
  /\ UNCHANGED <<md, present, cache, op, buf, aborted, calls>>

\* __inode_getattr under the lock; extend skips the write when another
\* call has already made the file large enough
Read(c) ==
  /\ ~aborted /\ pc[c] = "read"
  /\ \E r \in GetAttr(c) :
       /\ ReadInto(c, r)
       /\ Goto(c, IF op[c].kind = "extend" /\ r.size >= op[c].arg THEN "release" ELSE "write")
  /\ ret' = [ret EXCEPT ![c] = 0]
  /\ UNCHANGED <<md, present, holder, op, retry, aborted, calls>>

\* mutant: a failed hset returns without kunlock
WriteErrNoUnlock(c) ==
  LET new == Modify(op[c], buf[c]) IN
  /\ ~aborted /\ pc[c] = "write"
  /\ \/ /\ op[c].kind \in {"truncate", "chmod"} /\ new.mode = 0
        /\ aborted' = TRUE
        /\ UNCHANGED <<md, present, cache, pc, ret>>
     \/ /\ op[c].kind \notin {"truncate", "chmod"} \/ new.mode # 0
        /\ md' = new /\ present' = TRUE
        /\ cache' = IF AcTimeout THEN [cache EXCEPT ![ServerOf[c]] = new] ELSE cache
        /\ Goto(c, "unlock")
        /\ UNCHANGED <<ret, aborted>>
     \/ /\ op[c].kind \notin {"truncate", "chmod"} \/ new.mode # 0
        /\ Finish(c, EIO)
        /\ UNCHANGED <<md, present, cache, aborted>>
  /\ UNCHANGED <<holder, op, buf, retry, calls>>

\* The update and __md_set(volid, md, 0): setattr first YASSERTs that the
\* record has a mode; hset may fail (err_lock: kunlock, return the error);
\* a write creates the hash if it is gone; the writer's cache is refreshed.
Write(c) ==
  LET new == Modify(op[c], buf[c]) IN
  /\ ~aborted /\ pc[c] = "write"
  /\ \/ /\ op[c].kind \in {"truncate", "chmod"} /\ new.mode = 0
        /\ aborted' = TRUE
        /\ UNCHANGED <<md, present, cache, pc, ret>>
     \/ /\ op[c].kind \notin {"truncate", "chmod"} \/ new.mode # 0
        /\ md' = new /\ present' = TRUE
        /\ cache' = IF AcTimeout THEN [cache EXCEPT ![ServerOf[c]] = new] ELSE cache
        /\ Goto(c, "unlock")
        /\ UNCHANGED <<ret, aborted>>
     \/ /\ op[c].kind \notin {"truncate", "chmod"} \/ new.mode # 0
        /\ Goto(c, "release")
        /\ ret' = [ret EXCEPT ![c] = EIO]
        /\ UNCHANGED <<md, present, cache, aborted>>
  /\ UNCHANGED <<holder, op, buf, retry, calls>>

\* kunlock after a write, and the call returns 0
Unlock(c) ==
  /\ ~aborted /\ pc[c] = "unlock"
  /\ holder' = NoClient
  /\ Finish(c, 0)
  /\ UNCHANGED <<md, present, cache, op, buf, retry, aborted, calls>>

\* kunlock on a path that wrote nothing (err_lock, or extend with nothing
\* left to do)
Release(c) ==
  /\ ~aborted /\ pc[c] = "release"
  /\ holder' = NoClient
  /\ Finish(c, ret[c])
  /\ UNCHANGED <<md, present, cache, op, buf, retry, aborted, calls>>

\* __inode_remove -> __inode_del: kdel of the file's hash, without klock
\* (a missing hash is ENOENT)
RmMd(c) ==
  /\ ~aborted /\ pc[c] = "rm_md"
  /\ \/ present /\ present' = FALSE /\ Goto(c, "rm_xattr") /\ UNCHANGED ret
     \/ ~present /\ Finish(c, ENOENT) /\ UNCHANGED present
  /\ UNCHANGED <<md, cache, holder, op, buf, retry, aborted, calls>>

\* then kdel of the xattr hash, ENOENT ignored
RmXattr(c) ==
  /\ ~aborted /\ pc[c] = "rm_xattr"
  /\ Finish(c, 0)
  /\ UNCHANGED <<md, present, cache, holder, op, buf, retry, aborted, calls>>

Step(c) ==
  \/ Lock(c) \/ ExtCheck(c) \/ ExtLock(c) \/ Read(c) \/ Write(c)
  \/ Unlock(c) \/ Release(c) \/ RmMd(c) \/ RmXattr(c)

Next == \E c \in Clients : Call(c) \/ Step(c) \/ LockFail(c)

\* a started call's task keeps being scheduled
Fairness == \A c \in Clients : WF_vars(Step(c))

Spec == Init /\ [][Next]_vars /\ Fairness

-----------------------------------------------------------------------------
(***************************************************************************)
(* Refinement: the calls implement AtomicInode.  A call is pending from   *)
(* its start until it returns; it has taken effect once it wrote (unlock)  *)
(* or deleted the hash (rm_xattr).                                         *)
(***************************************************************************)
Pending(c) == IF pc[c] = Idle THEN NoOp ELSE op[c]

A == INSTANCE AtomicInode
       WITH pending <- [c \in Clients |-> Pending(c)],
            done <- [c \in Clients |-> pc[c] \in {"unlock", "rm_xattr"}]

\* Every setattr, extend, link and unlink under klock takes effect
\* atomically on the record as it is when it writes, so no call's update
\* is lost to another's read-modify-write; this rests on the lock and on
\* extend re-reading the record after it took the lock.
AtomicUnderKlock == A!Spec

\* Every call returns (or the server has died): the wait for a forced
\* klock ends because every path out of the locked section calls kunlock,
\* and extend gives up after its retries.
Termination == \A c \in Clients : pc[c] # Idle ~> (pc[c] = Idle \/ aborted)

\* An extend never shrinks the file: when __inode_extend writes, the size it
\* stores is larger than the stored one.  This rests on the re-read under
\* klock (inode_redis.c:276-281): the unlocked check before klock may be
\* stale by the time the lock is granted to a call that retried.
ExtendNeverShrinks ==
  [][\A c \in Clients :
       (pc[c] = "write" /\ pc'[c] = "unlock" /\ op[c].kind = "extend")
         => md'.size > Stored.size]_vars
=============================================================================
