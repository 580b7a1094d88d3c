----------------------------- MODULE MemHugepage -----------------------------
(***************************************************************************)
(* The huge-page slab allocator of ylib (src/sdfs/ylib/lib/mem_hugepage.c).*)
(*                                                                         *)
(* A pool is an array of memcache_count entries of memcache_seg bytes.     *)
(* mem_hugepage_new carves page-rounded pieces off the current entry       *)
(* (bump allocation: offset grows, ref counts the pieces and the extra     *)
(* references); when the current entry cannot serve the request it moves   *)
(* cur to the next entry whose ref is 0 and tries again, all under the     *)
(* pool's spinlock.  mem_hugepage_ref / _deref adjust ref, and the entry   *)
(* is rewound (offset 0) when its last reference goes.  Both init paths    *)
(* pass private = 0, so every pool is spin-locked.                         *)
(*                                                                         *)
(* Bytes are counted in units; an allocation is a record of the entry,    *)
(* the offset and the rounded size it got, and the references held on it. *)
(***************************************************************************)
EXTENDS Integers, FiniteSets

CONSTANTS
  Threads,      \* threads calling the allocator (model values)
  Count,        \* gloconf.memcache_count
  Seg,          \* gloconf.memcache_seg, in units
  PageSize,     \* PAGE_SIZE, in units
  Sizes,        \* sizes callers pass to mem_hugepage_new, in units
  MaxAllocs,    \* bound on the number of mem_hugepage_new calls that succeed
  MaxRef,       \* bound on the extra references mem_hugepage_ref adds to a piece
  InitOffsets,  \* what an entry's offset holds after __mem_hugepage_init
  NoThread      \* mem->lock is free

ASSUME Count \in Nat \ {0} /\ PageSize \in Nat \ {0}
ASSUME Seg \in Nat \ {0} /\ Seg % PageSize = 0
ASSUME Sizes \subseteq Nat \ {0} /\ InitOffsets \subseteq 0..Seg

Entries == 0..Count-1
Allocs == 1..MaxAllocs
EBUSY == 16

VARIABLES
  ref,      \* entry -> ent->ref
  offset,   \* entry -> ent->offset
  cur,      \* mem->cur
  lock,     \* the thread holding mem->lock, or NoThread
  pc,       \* thread -> "idle" or "loop" (inside the while (1) of _new)
  want,     \* thread -> the size argument of the pending _new
  result,   \* thread -> what its last _new returned: 0, EBUSY or -1 (none)
  alloc,    \* allocation -> [idx, off, size, held]; held = 0 when freed
  nalloc,   \* allocations made so far
  freed,    \* the pool was destroyed: entries and array returned to yfree
  aborted   \* destroy hit UNIMPLEMENTED: the process is gone

vars == <<ref, offset, cur, lock, pc, want, result, alloc, nalloc, freed, aborted>>

NoAlloc == [idx |-> 0, off |-> 0, size |-> 0, held |-> 0]
Live == {a \in 1..nalloc : alloc[a].held > 0}

TypeOK ==
  /\ ref \in [Entries -> Nat]
  /\ offset \in [Entries -> 0..Seg]
  /\ cur \in Entries
  /\ lock \in Threads \cup {NoThread}
  /\ pc \in [Threads -> {"idle", "loop"}]
  /\ want \in [Threads -> Sizes \cup {0}]
  /\ result \in [Threads -> {-1, 0, EBUSY}]
  /\ alloc \in [Allocs -> [idx : Entries, off : 0..Seg, size : 0..Seg + PageSize,
                           held : Nat]]
  /\ nalloc \in 0..MaxAllocs
  /\ freed \in BOOLEAN /\ aborted \in BOOLEAN

\* __mem_hugepage_init: every entry free, cur 0; the entry array comes from
\* ymalloc and the loop never sets offset, so it holds what ymalloc left.
Init ==
  /\ ref = [i \in Entries |-> 0]
  /\ offset \in [Entries -> InitOffsets]
  /\ cur = 0
  /\ lock = NoThread
  /\ pc = [t \in Threads |-> "idle"]
  /\ want = [t \in Threads |-> 0]
  /\ result = [t \in Threads |-> -1]
  /\ alloc = [a \in Allocs |-> NoAlloc]
  /\ nalloc = 0
  /\ freed = FALSE /\ aborted = FALSE

\* the pool is still there and the process alive
Up == ~freed /\ ~aborted

Min2(a, b) == IF a < b THEN a ELSE b

\* the size rounded up to a whole number of pages
RoundUp(s) == IF s % PageSize # 0 THEN (s \div PageSize + 1) * PageSize ELSE s

(***************************************************************************)
(* mem_hugepage_new / __mem_hugepage_new: take the spinlock and enter the  *)
(* allocation loop.                                                        *)
(***************************************************************************)
New(t, s) ==
  /\ Up
  /\ pc[t] = "idle"
  /\ lock = NoThread
  /\ nalloc < MaxAllocs
  /\ lock' = t
  /\ pc' = [pc EXCEPT ![t] = "loop"]
  /\ want' = [want EXCEPT ![t] = s]
  /\ UNCHANGED <<ref, offset, cur, result, alloc, nalloc, freed, aborted>>

\* __mem_hugepage_next: the first entry from cur on (cur itself included)
\* whose ref is 0, or none
Candidates(c) == {i \in 0..Count-1 : ref[(c + i) % Count] = 0}
NextEntry(c) ==
  LET cs == Candidates(c)
  IN IF cs = {} THEN -1 ELSE (c + CHOOSE i \in cs : \A j \in cs : i <= j) % Count

\* leave the loop: unlock and return ret
Leave(t, ret) ==
  /\ lock' = NoThread
  /\ pc' = [pc EXCEPT ![t] = "idle"]
  /\ result' = [result EXCEPT ![t] = ret]

\* Mutant: __mem_hugepage_new__ without the "does not fit" test
IterateNoFitCheck(t) ==
  LET e == cur
      size == RoundUp(want[t])
      nxt == NextEntry(cur)
  IN
  /\ pc[t] = "loop"
  /\ \/ /\ offset[e] # Seg
        /\ offset' = [offset EXCEPT ![e] = Min2(@ + size, Seg + PageSize)]
        /\ ref' = [ref EXCEPT ![e] = @ + 1]
        /\ alloc' = [alloc EXCEPT ![nalloc + 1] =
                       [idx |-> e, off |-> offset[e], size |-> size, held |-> 1]]
        /\ nalloc' = nalloc + 1
        /\ Leave(t, 0)
        /\ UNCHANGED cur
     \/ /\ offset[e] = Seg
        /\ UNCHANGED offset
        /\ \/ nxt # -1 /\ cur' = nxt /\ UNCHANGED <<lock, pc, result>>
           \/ nxt = -1 /\ Leave(t, EBUSY) /\ UNCHANGED cur
        /\ UNCHANGED <<ref, alloc, nalloc>>
  /\ UNCHANGED <<want, freed, aborted>>

\* Mutant: when no entry is free the loop keeps trying instead of EBUSY
IterateSpinWhenBusy(t) ==
  LET e == cur
      size == RoundUp(want[t])
      full == offset[e] = Seg
      fits == offset[e] + size <= Seg
      nxt == NextEntry(cur)
  IN
  /\ pc[t] = "loop"
  /\ \/ /\ ~full /\ fits
        /\ offset' = [offset EXCEPT ![e] = @ + size]
        /\ ref' = [ref EXCEPT ![e] = @ + 1]
        /\ alloc' = [alloc EXCEPT ![nalloc + 1] =
                       [idx |-> e, off |-> offset[e], size |-> size, held |-> 1]]
        /\ nalloc' = nalloc + 1
        /\ Leave(t, 0)
        /\ UNCHANGED cur
     \/ /\ full \/ ~fits
        /\ offset' = [offset EXCEPT ![e] = Seg]
        /\ cur' = IF nxt # -1 THEN nxt ELSE cur
        /\ UNCHANGED <<lock, pc, result, ref, alloc, nalloc>>
  /\ UNCHANGED <<want, freed, aborted>>

(***************************************************************************)
(* One iteration of the while (1) of __mem_hugepage_new, lock held:        *)
(* __mem_hugepage_new__ on the current entry fails when it is full, and    *)
(* when the rounded size does not fit it marks the entry full first;       *)
(* otherwise it hands out offset, bumps offset and ref, and the call       *)
(* returns.  On failure __mem_hugepage_next moves cur or the call returns  *)
(* EBUSY.                                                                  *)
(***************************************************************************)
Iterate(t) ==
  LET e == cur
      size == RoundUp(want[t])
      full == offset[e] = Seg
      fits == offset[e] + size <= Seg
      offset1 == IF ~full /\ ~fits THEN [offset EXCEPT ![e] = Seg] ELSE offset
      nxt == NextEntry(cur)
  IN
  /\ pc[t] = "loop"
  /\ \/ /\ ~full /\ fits
        /\ offset' = [offset EXCEPT ![e] = @ + size]
        /\ ref' = [ref EXCEPT ![e] = @ + 1]
        /\ alloc' = [alloc EXCEPT ![nalloc + 1] =
                       [idx |-> e, off |-> offset[e], size |-> size, held |-> 1]]
        /\ nalloc' = nalloc + 1
        /\ Leave(t, 0)
        /\ UNCHANGED cur
     \/ /\ full \/ ~fits
        /\ offset' = offset1
        /\ \/ /\ nxt # -1
              /\ cur' = nxt
              /\ UNCHANGED <<lock, pc, result>>
           \/ /\ nxt = -1
              /\ Leave(t, EBUSY)
              /\ UNCHANGED cur
        /\ UNCHANGED <<ref, alloc, nalloc>>
  /\ UNCHANGED <<want, freed, aborted>>

\* Mutant: the extra reference is handed out without ent->ref++
RefNoCount(t, a) ==
  /\ Up
  /\ pc[t] = "idle"
  /\ lock = NoThread
  /\ a \in Live
  /\ alloc[a].held <= MaxRef
  /\ alloc' = [alloc EXCEPT ![a].held = @ + 1]
  /\ UNCHANGED <<ref, offset, cur, lock, pc, want, result, nalloc, freed, aborted>>

(***************************************************************************)
(* mem_hugepage_ref / __mem_hugepage_ref: another reference to a live      *)
(* piece, under the lock (YASSERT(ent->ref > 0) holds: the piece is live). *)
(***************************************************************************)
Ref(t, a) ==
  LET e == alloc[a].idx
  IN
  /\ Up
  /\ pc[t] = "idle"
  /\ lock = NoThread
  /\ a \in Live
  /\ alloc[a].held <= MaxRef
  /\ ref' = [ref EXCEPT ![e] = @ + 1]
  /\ alloc' = [alloc EXCEPT ![a].held = @ + 1]
  /\ UNCHANGED <<offset, cur, lock, pc, want, result, nalloc, freed, aborted>>

(***************************************************************************)
(* mem_hugepage_deref / __mem_hugepage_deref: drop a reference under the   *)
(* lock; the last one rewinds the entry.                                   *)
(***************************************************************************)
DerefAlwaysRewind(t, a) ==
  LET e == alloc[a].idx
  IN
  /\ Up
  /\ pc[t] = "idle"
  /\ lock = NoThread
  /\ a \in Live
  /\ ref' = [ref EXCEPT ![e] = @ - 1]
  /\ offset' = [offset EXCEPT ![e] = 0]
  /\ alloc' = [alloc EXCEPT ![a].held = @ - 1]
  /\ UNCHANGED <<cur, lock, pc, want, result, nalloc, freed, aborted>>

Deref(t, a) ==
  LET e == alloc[a].idx
  IN
  /\ Up
  /\ pc[t] = "idle"
  /\ lock = NoThread
  /\ a \in Live
  /\ ref' = [ref EXCEPT ![e] = @ - 1]
  /\ offset' = IF ref[e] - 1 = 0 THEN [offset EXCEPT ![e] = 0] ELSE offset
  /\ alloc' = [alloc EXCEPT ![a].held = @ - 1]
  /\ UNCHANGED <<cur, lock, pc, want, result, nalloc, freed, aborted>>

(***************************************************************************)
(* mem_hugepage_private_destoy / __mem_hugepage_destroy, by a thread that  *)
(* is not allocating: each entry is yfree'd when its ref is 0, and a       *)
(* referenced entry is UNIMPLEMENTED (the process aborts).  The loop does  *)
(* not take mem->lock; its reads of ref are taken here as one snapshot.    *)
(***************************************************************************)
Destroy(t) ==
  /\ Up
  /\ pc[t] = "idle"
  /\ lock = NoThread
  /\ IF \A i \in Entries : ref[i] = 0
       THEN freed' = TRUE /\ UNCHANGED aborted
       ELSE aborted' = TRUE /\ UNCHANGED freed
  /\ UNCHANGED <<ref, offset, cur, lock, pc, want, result, alloc, nalloc>>

Next ==
  \E t \in Threads :
     \/ \E s \in Sizes : New(t, s)
     \/ Iterate(t)
     \/ \E a \in Allocs : Ref(t, a) \/ Deref(t, a)
     \/ Destroy(t)

(***************************************************************************)
(* A thread inside the loop holds a spinlock and keeps running: the loop   *)
(* is weakly fair.  Nobody is obliged to allocate or to release.           *)
(***************************************************************************)
Fairness == \A t \in Threads : WF_vars(Iterate(t))

Spec == Init /\ [][Next]_vars /\ Fairness

-----------------------------------------------------------------------------
(***************************************************************************)
(* Memory safety of the bump allocator: two pieces that are live at the    *)
(* same time never share a byte of an entry, and every piece lies inside   *)
(* its entry.  It depends on ref counting every piece and every extra      *)
(* reference, and on the rewind at ref 0 in __mem_hugepage_deref.          *)
(***************************************************************************)
NoOverlap ==
  \A a, b \in Live :
     /\ alloc[a].off + alloc[a].size <= Seg
     /\ (a # b /\ alloc[a].idx = alloc[b].idx)
          => (alloc[a].off + alloc[a].size <= alloc[b].off
              \/ alloc[b].off + alloc[b].size <= alloc[a].off)

DestroyOnlyWhenDrained ==
  [][/\ (~freed /\ freed') => Live = {}
     /\ (~aborted /\ aborted') => Live # {}]_vars

(***************************************************************************)
(* Every call of mem_hugepage_new returns: the loop under the spinlock     *)
(* ends with a piece or with EBUSY.                                        *)
(***************************************************************************)
Termination == \A t \in Threads : pc[t] = "loop" ~> pc[t] = "idle"

=============================================================================
