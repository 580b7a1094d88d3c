------------------------------ MODULE ReplicaIO ------------------------------
(***************************************************************************)
(* The chunk replica I/O engine of sdfs (src/sdfs/cds/replica.c).          *)
(*                                                                         *)
(* A request is one call of replica_write or replica_read.  Its task runs  *)
(* on a worker in three segments separated by the two suspension points    *)
(* of the code: the file open on a REPLICA service thread                  *)
(* (schedule_newthread) and the asynchronous vectored I/O (diskio_submit   *)
(* + schedule_yield, or aio_commit).  A segment runs without interruption  *)
(* on its worker (cooperative scheduling), so it is one action here.       *)
(*                                                                         *)
(* Data is abstracted to units: a chunk file is a sequence of units, each  *)
(* holding the request that last wrote it; SectorUnits units make one      *)
(* 512-byte sector, so alignment of offset and size is kept.  Error codes  *)
(* are the errno integers of the code, negative when the kernel returns    *)
(* them, as in the code.                                                   *)
(***************************************************************************)
EXTENDS Integers, Sequences, FiniteSets, FiniteSetsExt

CONSTANTS
  Reqs,         \* calls of replica_write / replica_read (model values)
  Chunks,       \* chunk ids
  SectorUnits,  \* units per SECTOR_SIZE
  ChunkUnits,   \* units per chunk: offset + size never exceeds it
  Offsets,      \* offsets (in units) a caller may pass
  Sizes,        \* sizes (in units) a caller may pass; io.size > 0
  IoSync,       \* cdsconf.io_sync
  Zero,         \* content of a hole of the file (never written)
  Garbage,      \* content of a buffer byte the kernel did not fill
  NotAcked      \* no successful write is known for this unit

ASSUME SectorUnits \in Nat \ {0} /\ ChunkUnits \in Nat \ {0}
ASSUME Offsets \subseteq Nat /\ Sizes \subseteq Nat \ {0}
ASSUME IoSync \in BOOLEAN

\* errno values the engine can return
EIO == 5
ENOENT == 2
ENOMEM == 12
EBUSY == 16
EMFILE == 24
ENOSPC == 28
NoResult == -1

VARIABLES
  pc,          \* where each request's task is
  io,          \* the io_t of the request
  path,        \* "direct" or "sync" fast path chosen by __replica_*__
  getfdRet,    \* the return of __replica_getfd
  fdOpen,      \* the request holds an open fd
  clone,       \* the write holds its clone tmp of the caller's buffer
  bufLen,      \* buf->len of the read's buffer
  retval,      \* the value the task was resumed with after the I/O
  readData,    \* the content of the read's buffer
  result,      \* what replica_write / replica_read returned
  created,     \* the chunk file exists
  disk,        \* the chunk file content
  acked,       \* history: unit -> the write a caller saw succeed last
  interfered,  \* history: an overlapping write ran concurrently
  aio          \* iocbs submitted and not yet completed, tagged by task

vars == <<pc, io, path, getfdRet, fdOpen, clone, bufLen, retval,
          readData, result, created, disk, acked, interfered, aio>>

Data == Reqs \cup {Zero, Garbage}
NoIo == [op |-> "none", chunk |-> CHOOSE c \in Chunks : TRUE, off |-> 0, size |-> 0]
IoDescs == [op : {"write", "read"}, chunk : Chunks, off : Offsets, size : Sizes]
Active(r) == pc[r] \notin {"idle", "done"}
Executing(r) == pc[r] \in {"opening", "opened", "inflight", "completed"}
Overlap(a, b) ==
  /\ a.chunk = b.chunk
  /\ a.off < b.off + b.size
  /\ b.off < a.off + a.size

\* cdsconf.io_sync && offset % SECTOR_SIZE == 0 && size % SECTOR_SIZE == 0
FastPath(d) ==
  IF IoSync /\ d.off % SectorUnits = 0 /\ d.size % SectorUnits = 0
  THEN "direct" ELSE "sync"

\* pwritev of n units at off: holes before off read as zero
Written(f, off, n, r) ==
  [i \in 1..Max({Len(f), off + n}) |->
     IF off < i /\ i <= off + n THEN r
     ELSE IF i <= Len(f) THEN f[i] ELSE Zero]

\* units preadv can return: it stops at end of file
Available(f, d) == IF Len(f) <= d.off THEN 0 ELSE Min({d.size, Len(f) - d.off})

Init ==
  /\ pc = [r \in Reqs |-> "idle"]
  /\ io = [r \in Reqs |-> NoIo]
  /\ path = [r \in Reqs |-> "sync"]
  /\ getfdRet = [r \in Reqs |-> 0]
  /\ fdOpen = [r \in Reqs |-> FALSE]
  /\ clone = [r \in Reqs |-> FALSE]
  /\ bufLen = [r \in Reqs |-> 0]
  /\ retval = [r \in Reqs |-> 0]
  /\ readData = [r \in Reqs |-> <<>>]
  /\ result = [r \in Reqs |-> NoResult]
  /\ created = [c \in Chunks |-> FALSE]
  /\ disk = [c \in Chunks |-> <<>>]
  /\ acked = [c \in Chunks |-> [u \in 1..ChunkUnits |-> NotAcked]]
  /\ interfered = [r \in Reqs |-> FALSE]
  /\ aio = {}

(***************************************************************************)
(* replica_write / replica_read: on a worker (core_self() != NULL) the     *)
(* engine runs inline on the caller's worker; otherwise core_request       *)
(* forwards it to worker id mod N and the caller waits for the answer.     *)
(* Which worker runs the task changes nothing kept here: each segment of   *)
(* a task is one step wherever it runs.                                    *)
(***************************************************************************)
Call(r, d) ==
  /\ pc[r] = "idle"
  /\ d.off + d.size <= ChunkUnits
  /\ pc' = [pc EXCEPT ![r] = "start"]
  /\ io' = [io EXCEPT ![r] = d]
  /\ interfered' = [q \in Reqs |->
        IF q = r
        THEN \E w \in Reqs : Active(w) /\ io[w].op = "write" /\ Overlap(io[w], d)
        ELSE interfered[q] \/ (Active(q) /\ d.op = "write" /\ Overlap(io[q], d))]
  /\ UNCHANGED <<path, getfdRet, fdOpen, clone, bufLen, retval, readData, result,
                 created, disk, acked, aio>>

ReplicaWrite(r, d) == d.op = "write" /\ Call(r, d)
ReplicaRead(r, d) == d.op = "read" /\ Call(r, d)

\* the request returns code ret to its caller
Return(r, ret) ==
  /\ pc' = [pc EXCEPT ![r] = "done"]
  /\ result' = [result EXCEPT ![r] = ret]

\* __replica_release: close(fd)
Release(r) == fdOpen' = [fdOpen EXCEPT ![r] = FALSE]

\* mbuffer_free(&tmp)
FreeClone(r) == clone' = [clone EXCEPT ![r] = FALSE]

(***************************************************************************)
(* __replica_write__ / __replica_read__ up to the file open: io_analysis   *)
(* may refuse (back-pressure); otherwise the fast path is chosen, the      *)
(* write clones the caller's buffer, and __replica_getfd parks the task on *)
(* schedule_newthread.                                                     *)
(***************************************************************************)
Begin(r) ==
  /\ pc[r] = "start"
  /\ \/ /\ Return(r, EBUSY)
        /\ UNCHANGED <<path, clone>>
     \/ /\ pc' = [pc EXCEPT ![r] = "opening"]
        /\ path' = [path EXCEPT ![r] = FastPath(io[r])]
        /\ clone' = [clone EXCEPT ![r] = io[r].op = "write"]
        /\ UNCHANGED result
  /\ UNCHANGED <<io, getfdRet, fdOpen, bufLen, retval, readData,
                 created, disk, acked, interfered, aio>>

(***************************************************************************)
(* __replica_getfd__ on a REPLICA service thread: path_validate creates    *)
(* the directories, open(path, flag, 0600).  A write opens with O_CREAT, a *)
(* read with O_RDONLY and fails with ENOENT on a missing file; open may    *)
(* also fail for lack of descriptors.  The task is then resumed.           *)
(***************************************************************************)
GetFd(r) ==
  LET c == io[r].chunk
      mayOpen == io[r].op = "write" \/ created[c]
  IN
  /\ pc[r] = "opening"
  /\ pc' = [pc EXCEPT ![r] = "opened"]
  /\ \/ /\ mayOpen
        /\ getfdRet' = [getfdRet EXCEPT ![r] = 0]
        /\ fdOpen' = [fdOpen EXCEPT ![r] = TRUE]
        /\ created' = [created EXCEPT ![c] = TRUE]
     \/ /\ getfdRet' = [getfdRet EXCEPT ![r] = IF mayOpen THEN EMFILE ELSE ENOENT]
        /\ UNCHANGED <<fdOpen, created>>
  /\ UNCHANGED <<io, path, clone, bufLen, retval, readData, result,
                 disk, acked, interfered, aio>>

(***************************************************************************)
(* __replica_write_sync / __replica_write_direct after the open: a failed  *)
(* open frees the clone and returns; otherwise mbuffer_trans projects the  *)
(* clone into the iovec and the pwritev is submitted: diskio_submit (which *)
(* can fail: close, free, return) then schedule_yield on the buffered      *)
(* path, aio_commit on the direct path.                                    *)
(***************************************************************************)
\* io_prep_pwritev/preadv with aio_data = the task, then diskio_submit +
\* schedule_yield("aio_commit") or aio_commit: the task parks on the iocb
Submit(r) ==
  /\ pc' = [pc EXCEPT ![r] = "inflight"]
  /\ aio' = aio \cup {r}

\* Mutant: the diskio_submit failure path returns without __replica_release
WriteSubmitLeakFd(r) ==
  /\ pc[r] = "opened"
  /\ io[r].op = "write"
  /\ IF getfdRet[r] # 0
     THEN /\ Return(r, getfdRet[r])
          /\ FreeClone(r)
          /\ UNCHANGED <<fdOpen, aio>>
     ELSE \/ /\ Submit(r)
             /\ UNCHANGED <<result, clone, fdOpen>>
          \/ /\ path[r] = "sync"
             /\ Return(r, ENOMEM)
             /\ FreeClone(r)
             /\ UNCHANGED <<fdOpen, aio>>
  /\ UNCHANGED <<io, path, getfdRet, bufLen, retval, readData,
                 created, disk, acked, interfered>>

\* Mutant: a failed diskio_submit falls through to schedule_yield
WriteSubmitYieldOnError(r) ==
  /\ pc[r] = "opened"
  /\ io[r].op = "write"
  /\ IF getfdRet[r] # 0
     THEN /\ Return(r, getfdRet[r])
          /\ FreeClone(r)
          /\ UNCHANGED <<fdOpen, aio>>
     ELSE \/ /\ Submit(r)
             /\ UNCHANGED <<result, clone, fdOpen>>
          \/ /\ path[r] = "sync"
             /\ pc' = [pc EXCEPT ![r] = "inflight"]
             /\ UNCHANGED <<result, clone, fdOpen, aio>>
  /\ UNCHANGED <<io, path, getfdRet, bufLen, retval, readData,
                 created, disk, acked, interfered>>

WriteSubmit(r) ==
  /\ pc[r] = "opened"
  /\ io[r].op = "write"
  /\ IF getfdRet[r] # 0
     THEN /\ Return(r, getfdRet[r])
          /\ FreeClone(r)
          /\ UNCHANGED <<fdOpen, aio>>
     ELSE \/ /\ Submit(r)
             /\ UNCHANGED <<result, clone, fdOpen>>
          \/ /\ path[r] = "sync"
             /\ Return(r, ENOMEM)
             /\ Release(r)
             /\ FreeClone(r)
             /\ UNCHANGED aio
  /\ UNCHANGED <<io, path, getfdRet, bufLen, retval, readData,
                 created, disk, acked, interfered>>

(***************************************************************************)
(* __replica_read_direct / __replica_read_sync after the open: a failed    *)
(* open returns; otherwise mbuffer_init(buf, io->size), and the preadv is  *)
(* submitted as for a write.                                               *)
(***************************************************************************)
ReadSubmit(r) ==
  /\ pc[r] = "opened"
  /\ io[r].op = "read"
  /\ IF getfdRet[r] # 0
     THEN /\ Return(r, getfdRet[r])
          /\ UNCHANGED <<fdOpen, bufLen, aio>>
     ELSE /\ bufLen' = [bufLen EXCEPT ![r] = io[r].size]
          /\ \/ /\ Submit(r)
                /\ UNCHANGED <<result, fdOpen>>
             \/ /\ path[r] = "sync"
                /\ Return(r, ENOMEM)
                /\ Release(r)
                /\ UNCHANGED aio
  /\ UNCHANGED <<io, path, getfdRet, clone, retval, readData,
                 created, disk, acked, interfered>>

(***************************************************************************)
(* The kernel completes the iocb and __callback resumes the task with the  *)
(* byte count or a negative errno.  A write may be short (ENOSPC after     *)
(* part of it) or fail; a read returns what lies before end of file.       *)
(***************************************************************************)
\* __callback: schedule_resume(task of the iocb, retval)
Resume(r) ==
  /\ aio' = aio \ {r}
  /\ pc' = [pc EXCEPT ![r] = "completed"]

CompleteWrite(r) ==
  LET d == io[r]
      f == disk[d.chunk]
  IN
  /\ r \in aio
  /\ d.op = "write"
  /\ \/ \E n \in 0..d.size :
          /\ retval' = [retval EXCEPT ![r] = n]
          /\ disk' = [disk EXCEPT ![d.chunk] = IF n = 0 THEN f ELSE Written(f, d.off, n, r)]
     \/ /\ retval' = [retval EXCEPT ![r] = -EIO]
        /\ UNCHANGED disk
  /\ Resume(r)
  /\ UNCHANGED <<io, path, getfdRet, fdOpen, clone, bufLen, readData,
                 result, created, acked, interfered>>

CompleteRead(r) ==
  LET d == io[r]
      f == disk[d.chunk]
      n == Available(f, d)
  IN
  /\ r \in aio
  /\ d.op = "read"
  /\ \/ /\ retval' = [retval EXCEPT ![r] = n]
        /\ readData' = [readData EXCEPT ![r] =
              [i \in 1..d.size |-> IF i <= n THEN f[d.off + i] ELSE Garbage]]
     \/ /\ retval' = [retval EXCEPT ![r] = -EIO]
        /\ UNCHANGED readData
  /\ Resume(r)
  /\ UNCHANGED <<io, path, getfdRet, fdOpen, clone, bufLen, result,
                 created, disk, acked, interfered>>

(***************************************************************************)
(* The write resumes: a negative value closes the fd, frees the clone and  *)
(* returns the errno; otherwise both are released and a byte count other   *)
(* than buf->len is EIO.  __replica_write__ maps success to 0.             *)
(***************************************************************************)
\* history: what the caller of a write returning code saw for its units
Ack(r, code) ==
  LET d == io[r]
  IN acked' = [acked EXCEPT ![d.chunk] =
        [u \in 1..ChunkUnits |->
           IF u \notin d.off + 1 .. d.off + d.size THEN acked[d.chunk][u]
           ELSE IF code = 0 /\ ~interfered[r] THEN r ELSE NotAcked]]

\* Mutant: the byte count is not compared with buf->len
WriteFinishNoLenCheck(r) ==
  LET code == IF retval[r] < 0 THEN -retval[r] ELSE 0
  IN
  /\ pc[r] = "completed"
  /\ io[r].op = "write"
  /\ Return(r, code)
  /\ Release(r)
  /\ FreeClone(r)
  /\ Ack(r, code)
  /\ UNCHANGED <<io, path, getfdRet, bufLen, retval, readData,
                 created, disk, interfered, aio>>

\* A short count frees tmp and closes the fd, then jumps to err_ret, which
\* frees tmp a second time (140 and 154, 206 and 221).  mbuffer_free lies
\* outside src/: the second call is taken as a no-op on the emptied buffer.
WriteFinish(r) ==
  LET ret == retval[r]
      short == ret >= 0 /\ ret # io[r].size
      code == IF ret < 0 THEN -ret ELSE IF short THEN EIO ELSE 0
  IN
  /\ pc[r] = "completed"
  /\ io[r].op = "write"
  /\ Return(r, code)
  /\ Release(r)
  /\ FreeClone(r)
  /\ Ack(r, code)
  /\ UNCHANGED <<io, path, getfdRet, bufLen, retval, readData,
                 created, disk, interfered, aio>>

(***************************************************************************)
(* The read resumes: a negative value closes the fd and returns the errno; *)
(* otherwise the fd is closed and the byte count is returned, which        *)
(* __replica_read__ turns into 0 whatever it is.                           *)
(***************************************************************************)
\* Mutant: __replica_read__ passes the byte count on instead of 0
ReadFinishReturnsCount(r) ==
  /\ pc[r] = "completed"
  /\ io[r].op = "read"
  /\ Return(r, IF retval[r] < 0 THEN -retval[r] ELSE retval[r])
  /\ Release(r)
  /\ UNCHANGED <<io, path, getfdRet, clone, bufLen, retval, readData,
                 created, disk, acked, interfered, aio>>

ReadFinish(r) ==
  /\ pc[r] = "completed"
  /\ io[r].op = "read"
  /\ Return(r, IF retval[r] < 0 THEN -retval[r] ELSE 0)
  /\ Release(r)
  /\ UNCHANGED <<io, path, getfdRet, clone, bufLen, retval, readData,
                 created, disk, acked, interfered, aio>>

Next ==
  \/ \E r \in Reqs, d \in IoDescs : ReplicaWrite(r, d) \/ ReplicaRead(r, d)
  \/ \E r \in Reqs :
        \/ Begin(r) \/ GetFd(r)
        \/ WriteSubmit(r) \/ ReadSubmit(r)
        \/ CompleteWrite(r) \/ CompleteRead(r)
        \/ WriteFinish(r) \/ ReadFinish(r)

(***************************************************************************)
(* Workers run every ready task (the worker loop drains its run queue),    *)
(* the REPLICA pool has 32 threads for at most |Reqs| opens, and the       *)
(* kernel completes every submitted iocb: each step after the call is      *)
(* weakly fair.  Callers are not obliged to call.                          *)
(***************************************************************************)
Fairness ==
  \A r \in Reqs :
     /\ WF_vars(Begin(r)) /\ WF_vars(GetFd(r))
     /\ WF_vars(WriteSubmit(r)) /\ WF_vars(ReadSubmit(r))
     /\ WF_vars(CompleteWrite(r)) /\ WF_vars(CompleteRead(r))
     /\ WF_vars(WriteFinish(r)) /\ WF_vars(ReadFinish(r))

Spec == Init /\ [][Next]_vars /\ Fairness

-----------------------------------------------------------------------------
TypeOK ==
  /\ pc \in [Reqs -> {"idle", "start", "opening", "opened", "inflight", "completed", "done"}]
  /\ io \in [Reqs -> IoDescs \cup {NoIo}]
  /\ path \in [Reqs -> {"direct", "sync"}]
  /\ getfdRet \in [Reqs -> {0, EMFILE, ENOENT}]
  /\ fdOpen \in [Reqs -> BOOLEAN]
  /\ clone \in [Reqs -> BOOLEAN]
  /\ bufLen \in [Reqs -> 0..ChunkUnits]
  /\ retval \in [Reqs -> -EIO..ChunkUnits]
  /\ aio \subseteq Reqs
  /\ readData \in [Reqs -> Seq(Data)]
  /\ result \in [Reqs -> {NoResult, 0, EIO, ENOENT, ENOMEM, EBUSY, EMFILE}]
  /\ created \in [Chunks -> BOOLEAN]
  /\ \A c \in Chunks : disk[c] \in Seq(Data) /\ Len(disk[c]) <= ChunkUnits
  /\ acked \in [Chunks -> [1..ChunkUnits -> Reqs \cup {NotAcked}]]
  /\ interfered \in [Reqs -> BOOLEAN]

(***************************************************************************)
(* P5 of the spec: a request holds its fd exactly from a successful open   *)
(* until it returns, and a write holds its buffer clone from the start     *)
(* until it returns, so neither is released while the kernel may still use *)
(* it (an iocb in flight), and no error path of write_sync, write_direct,  *)
(* read_direct or read_sync leaks one.                                     *)
(***************************************************************************)
ResourcesScoped ==
  \A r \in Reqs :
     /\ fdOpen[r] <=> (pc[r] \in {"opened", "inflight", "completed"} /\ getfdRet[r] = 0)
     /\ clone[r] <=> (io[r].op = "write" /\ Executing(r))

(***************************************************************************)
(* P1 of the spec (round trip): when a read returns 0, every unit of its   *)
(* range that a successful, uncontended write was the last to be seen      *)
(* writing holds that write's data in the caller's buffer -- provided no   *)
(* overlapping write ran during the read.  It relates the byte count the   *)
(* write path checks, the units the kernel applied, and the read path.     *)
(***************************************************************************)
RoundTrip ==
  [][\A r \in Reqs :
       (/\ io[r].op = "read" /\ pc[r] # "done" /\ pc'[r] = "done"
        /\ result'[r] = 0 /\ ~interfered[r])
       => \A i \in 1..io[r].size :
            LET a == acked[io[r].chunk][io[r].off + i]
            IN a # NotAcked => readData[r][i] = a]_vars

(***************************************************************************)
(* Every call of replica_write / replica_read returns: no error path       *)
(* leaves the task parked with no resume coming.                           *)
(***************************************************************************)
Termination == \A r \in Reqs : pc[r] = "start" ~> pc[r] = "done"

=============================================================================
