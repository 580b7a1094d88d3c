-------------------------------- MODULE MdVol --------------------------------
(***************************************************************************)
(* Volume creation and removal of sdfs (src/sdfs/metadata/md_vol.c):       *)
(* md_mkvol and md_rmvol of one volume name, as sequences of registry      *)
(* (etcd) and metadata-store (redis) calls.  Each call is one atomic step; *)
(* several metadata servers (Callers) run them concurrently, and a caller  *)
(* may crash between any two calls (the registry and the store persist).   *)
(*                                                                         *)
(* The registry keys of the name are kept by name: the scalar keys in reg  *)
(* (0 = absent), the placement proposals <name>/wait/<i>/redis/<j>.wait    *)
(* and the accepted slots <name>/slot/<i>/redis/<j> per slot number k =    *)
(* i * replica + j.  A Place is a <<host, disk>> pair; which disks answer *)
(* the online check is read from one of a set of registry Views.           *)
(***************************************************************************)
EXTENDS Integers, Sequences, FiniteSets

CONSTANTS
  Callers,      \* metadata servers running md_mkvol / md_rmvol
  Sharding,     \* mdsconf.redis_sharding
  Replica,      \* mdsconf.redis_replica
  Hosts,        \* storage hosts that may register under ETCD_REDIS
  Disks,        \* disk numbers (redis ports) of a host
  Views,        \* what __md_mkvol_getredis may read: [hosts: the hosts
                \* registered, in etcd_list order; online: the disks of each
                \* host that pass __md_mkvol_online]
  Solo,         \* gloconf.solomode
  MaxCalls,     \* bound on the calls all callers make together
  MaxCrash,     \* bound on caller crashes in a behaviour
  MaxRetry,     \* bound standing for the 30 ENOTEMPTY retries of md_rmvol
  MaxWait,      \* bound standing for the 10 one-second waits on a slot
  MaxChildren   \* bound on entries clients create in a volume root

ASSUME Sharding \in Nat \ {0} /\ Replica \in Nat \ {0}
ASSUME {MaxCalls, MaxCrash, MaxRetry, MaxWait, MaxChildren} \subseteq Nat

NSlots == Sharding * Replica
Slots == 1..NSlots                       \* k = i * replica + j, from 1
ShardOf(s) == (s - 1) \div Replica       \* i
MaxId == MaxCalls                        \* md_newid never runs out here
Ids == 1..MaxId
NoPlace == <<"none", 0>>     \* an empty addr[] entry
Places == Hosts \X Disks
\* a view in which no host is registered; also the view of a fresh caller
NoView == [hosts |-> <<>>, online |-> [h \in Hosts |-> {}]]
ScalarKeys == {"sharding", "replica", "volid", "snapvers", "id",
               "sharding.bak", "replica.bak"}
\* rmvol deletes these keys in this order (__md_rmvol_config)
DelOrder == <<"sharding", "replica", "volid", "id">>
Idle == "idle"
CRASHED == -1
ENOENT == 2
EIO == 5            \* stands for any other etcd error
EEXIST == 17
EINVAL == 22
ENOSPC == 28
ENOTEMPTY == 39
ETIMEDOUT == 110
ABORTED == -2       \* a YASSERT failed: the metadata server process is gone

VARIABLES
  reg,        \* scalar registry keys of the name; 0 = absent, else the value
  wait,       \* wait/<i>/redis/<j>.wait placement proposals
  slot,       \* slot/<i>/redis/<j> placements accepted by storage daemons
  roots,      \* volume ids whose root inode hash exists in redis
  children,   \* entries in each volume root (fields of its hash besides md)
  nextId,     \* md_newid allocator
  pc,         \* each caller's position
  loc,        \* each caller's locals (and the history of its current call)
  ret,        \* what the caller's last call returned (CRASHED if it died)
  calls,      \* calls made so far
  crashes,    \* crashes so far
  live        \* history: an undisturbed md_mkvol returned 0 and no md_rmvol
              \* was called since

vars == <<reg, wait, slot, roots, children, nextId, pc, loc, ret, calls,
          crashes, live>>
Registry == <<reg, wait, slot>>
Store == <<roots, children>>

NoAddr == [s \in Slots |-> NoPlace]
\* vid: the volid / fileid the call works on; place: the addr[] it chose;
\* k: loop index (slot number, key to delete, shard); retry: loop counter;
\* sawLive: live held when this md_mkvol began; undisturbed: no md_rmvol
\* (for an md_rmvol: no md_mkvol) ran during this call
Fresh == [vid |-> 0, place |-> NoAddr, view |-> NoView, k |-> 0, retry |-> 0,
          sawLive |-> FALSE, undisturbed |-> TRUE]
Locals == [vid : 0..MaxId, place : [Slots -> Places \cup {NoPlace}],
           view : Views \cup {NoView},
           k : 0..NSlots + Len(DelOrder), retry : 0..(MaxRetry + MaxWait),
           sawLive : BOOLEAN, undisturbed : BOOLEAN]

TypeOK ==
  /\ reg \in [ScalarKeys -> 0..MaxId]
  /\ wait \in [Slots -> Places \cup {NoPlace}]
  /\ slot \in [Slots -> Places \cup {NoPlace}]
  /\ roots \subseteq Ids
  /\ children \in [Ids -> 0..MaxChildren]
  /\ nextId \in 1..MaxId + 1
  /\ loc \in [Callers -> Locals]
  /\ ret \in [Callers -> {0, CRASHED, ENOENT, EIO, EEXIST, EINVAL, ENOSPC,
                          ENOTEMPTY, ETIMEDOUT, ABORTED}]
  /\ live \in BOOLEAN

Init ==
  /\ reg = [key \in ScalarKeys |-> 0]
  /\ wait = NoAddr
  /\ slot = NoAddr
  /\ roots = {}
  /\ children = [v \in Ids |-> 0]
  /\ nextId = 1
  /\ pc = [p \in Callers |-> Idle]
  /\ loc = [p \in Callers |-> Fresh]
  /\ ret = [p \in Callers |-> 0]
  /\ calls = 0
  /\ crashes = 0
  /\ live = FALSE

\* p moves on to l with locals lp
Advance(p, l, lp) ==
  /\ pc' = [pc EXCEPT ![p] = l]
  /\ loc' = [loc EXCEPT ![p] = lp]
  /\ UNCHANGED ret
\* p's call returns code; its locals are dead
Return(p, code) ==
  /\ pc' = [pc EXCEPT ![p] = Idle]
  /\ ret' = [ret EXCEPT ![p] = code]
  /\ loc' = [loc EXCEPT ![p] = Fresh]
\* etcd_create_text(ETCD_VOLUME, key, value, -1): put only if absent
CreateKey(key, v) == reg' = [reg EXCEPT ![key] = IF @ = 0 THEN v ELSE @]
DeleteKeys(ks) == reg' = [key \in ScalarKeys |-> IF key \in ks THEN 0 ELSE reg[key]]

(***************************************************************************)
(* A caller issues md_mkvol or md_rmvol for the name.                      *)
(***************************************************************************)
RmPcs == {"rm_lookup", "rm_count", "rm_unlink", "rm_shbak", "rm_shcreate",
          "rm_rpbak", "rm_rpcreate", "rm_del", "rm_shard", "rm_shdir", "rm_clean",
          "rm_subtree"}
RmActive == \E q \in Callers : pc[q] \in RmPcs
MkActive == \E q \in Callers : pc[q] \notin RmPcs \cup {Idle}

Call(p) ==
  /\ pc[p] = Idle
  /\ calls < MaxCalls
  /\ calls' = calls + 1
  /\ \/ /\ pc' = [pc EXCEPT ![p] = "mk_newid"]
        /\ loc' = [q \in Callers |->
                    IF q = p THEN [Fresh EXCEPT !.sawLive = live,
                                                !.undisturbed = ~RmActive]
                    ELSE IF pc[q] \in RmPcs THEN [loc[q] EXCEPT !.undisturbed = FALSE]
                    ELSE loc[q]]
        /\ UNCHANGED live
     \/ /\ pc' = [pc EXCEPT ![p] = "rm_lookup"]
        /\ loc' = [q \in Callers |->
                    IF q = p THEN [Fresh EXCEPT !.undisturbed = ~MkActive]
                    ELSE [loc[q] EXCEPT !.undisturbed = FALSE]]
        /\ live' = FALSE
  /\ UNCHANGED <<Registry, Store, nextId, ret, crashes>>

(***************************************************************************)
(* md_mkvol                                                                *)
(***************************************************************************)
\* md_newid(idtype_fileid, &_volid); fileid.volid = fileid.id = _volid
MkNewId(p) ==
  /\ pc[p] = "mk_newid"
  /\ nextId' = nextId + 1
  /\ Advance(p, "mk_getid", [loc[p] EXCEPT !.vid = nextId])
  /\ UNCHANGED <<Registry, Store, calls, crashes, live>>

\* mutant: the initial lookup of <name>/id is left out
MkGetIdNoCheck(p) ==
  /\ pc[p] = "mk_getid"
  /\ Advance(p, "mk_sharding", loc[p])
  /\ UNCHANGED <<Registry, Store, nextId, calls, crashes, live>>

\* __md_vol_set_etcd: an existing <name>/id fails the call with EEXIST
MkGetId(p) ==
  /\ pc[p] = "mk_getid"
  /\ \/ reg["id"] # 0 /\ Return(p, EEXIST)
     \/ reg["id"] = 0 /\ Advance(p, "mk_sharding", loc[p])
  /\ UNCHANGED <<Registry, Store, nextId, calls, crashes, live>>

\* create sharding, replica and snapvers; EEXIST passes
MkScaffold(p) ==
  /\ \E step \in {<<"mk_sharding", "sharding", "mk_replica">>,
                  <<"mk_replica", "replica", "mk_volid">>,
                  <<"mk_snapvers", "snapvers", "mk_id">>} :
       /\ pc[p] = step[1]
       /\ CreateKey(step[2], 1)
       /\ Advance(p, step[3], loc[p])
  /\ UNCHANGED <<wait, slot, Store, nextId, calls, crashes, live>>

\* create volid; on EEXIST read it back and fail with EINVAL if it names
\* another volume
MkVolid(p) ==
  /\ pc[p] = "mk_volid"
  /\ \/ /\ reg["volid"] \in {0, loc[p].vid}
        /\ CreateKey("volid", loc[p].vid)
        /\ Advance(p, "mk_snapvers", loc[p])
     \/ reg["volid"] \notin {0, loc[p].vid} /\ Return(p, EINVAL) /\ UNCHANGED reg
  /\ UNCHANGED <<wait, slot, Store, nextId, calls, crashes, live>>

\* etcd_create of <name>/id: this create fails on EEXIST
MkId(p) ==
  /\ pc[p] = "mk_id"
  /\ \/ reg["id"] = 0 /\ CreateKey("id", loc[p].vid) /\ Advance(p, "mk_redis", loc[p])
     \/ reg["id"] # 0 /\ Return(p, EEXIST) /\ UNCHANGED reg
  /\ UNCHANGED <<wait, slot, Store, nextId, calls, crashes, live>>

(***************************************************************************)
(* Placement: __md_vol_set_redis__ and the helpers it calls.               *)
(***************************************************************************)
\* __md_mkvol_getredis_disk with __md_mkvol_online: the disks of h whose
\* instence is below 64 and that clear their trigger in time
OnlineDisks(v, h) == v.online[h]
\* __md_mkvol_getredis: the registered hosts with an online disk, in
\* etcd_list order; a host with none (ENONET) is skipped
RedisList(v) == SelectSeq(v.hosts, LAMBDA h : OnlineDisks(v, h) # {})
\* *list_count = array->num_node: the skipped hosts are counted too
ListCount(v) == Len(v.hosts)
\* ent->disk[]: the online disks in etcd_list order
DiskSeq(S) ==
  CHOOSE d \in [1..Cardinality(S) -> S] :
    \A i \in 1..Cardinality(S) - 1 : d[i] < d[i + 1]
\* the result of one getredis call: code, the replica addresses, the list
Outcome(code, addr, list) == [ret |-> code, addr |-> addr, list |-> list]

\* __md_mkvol_getredis_solo: every replica on the one host, on disks
\* (i + idx) % count for a random idx.  With that host skipped the list is
\* empty and _list->next is the list head itself: ent->count is whatever
\* the stack holds, so ENOSPC or a crash on the garbage name.
PlaceSolo(v, list) ==
  IF list = <<>> THEN {Outcome(ENOSPC, <<>>, list), Outcome(ABORTED, <<>>, list)}
  ELSE LET ds == DiskSeq(OnlineDisks(v, list[1]))
           n == Len(ds)
       IN IF n < Replica THEN {Outcome(ENOSPC, <<>>, list)}
          ELSE {Outcome(0, [i \in 1..Replica |-> <<list[1], ds[((i - 1 + idx) % n) + 1]>>],
                        list) : idx \in 0..n - 1}

\* mutant: the hosts taken stay at the head of the list
PlaceShardNoRotate(v, list) ==
  IF Solo /\ ListCount(v) = 1 THEN PlaceSolo(v, list)
  ELSE IF Replica > ListCount(v) THEN {Outcome(ENOSPC, <<>>, list)}
  ELSE IF Len(list) < Replica THEN {Outcome(ABORTED, <<>>, list)}
  ELSE {Outcome(0, [i \in 1..Replica |-> <<list[i], d[i]>>], list) :
          d \in {f \in [1..Replica -> Disks] :
                  \A i \in 1..Replica : f[i] \in OnlineDisks(v, list[i])}}

\* __md_mkvol_getredis_replica: the first replica hosts of the list, one
\* random online disk each, are moved to its tail; YASSERT(i == replica)
\* when the list ran out first
PlaceShard(v, list) ==
  IF Solo /\ ListCount(v) = 1 THEN PlaceSolo(v, list)
  ELSE IF Replica > ListCount(v) THEN {Outcome(ENOSPC, <<>>, list)}
  ELSE IF Len(list) < Replica THEN {Outcome(ABORTED, <<>>, list)}
  ELSE LET hs == SubSeq(list, 1, Replica)
       IN {Outcome(0, [i \in 1..Replica |-> <<hs[i], d[i]>>],
                   SubSeq(list, Replica + 1, Len(list)) \o hs) :
             d \in {f \in [1..Replica -> Disks] :
                     \A i \in 1..Replica : f[i] \in OnlineDisks(v, hs[i])}}

\* __md_vol_set_redis__: shard i >= first fills addr[i * replica ..]; the
\* first failure is returned
RECURSIVE PlaceFrom(_, _, _, _)
PlaceFrom(v, first, list, addr) ==
  IF first = Sharding THEN {Outcome(0, addr, list)}
  ELSE UNION {IF o.ret # 0 THEN {o}
              ELSE PlaceFrom(v, first + 1, o.list,
                     [s \in Slots |-> IF ShardOf(s) = first
                                      THEN o.addr[s - first * Replica]
                                      ELSE addr[s]])
              : o \in PlaceShard(v, list)}
Placements(v) == PlaceFrom(v, 0, RedisList(v), NoAddr)

\* md_mkvol's __md_vol_set_redis__ call: the hosts registered when it reads
\* them decide whether it fills addr[], fails, or kills the server
MkRedis(p) ==
  /\ pc[p] = "mk_redis"
  /\ \E v \in Views : \E o \in Placements(v) :
       \/ /\ o.ret = 0
          /\ Advance(p, "mk_slot", [loc[p] EXCEPT !.place = o.addr, !.view = v, !.k = 1])
       \/ o.ret # 0 /\ Return(p, o.ret)
  /\ UNCHANGED <<Registry, Store, nextId, calls, crashes, live>>

\* mutant: the slot loop stops one proposal short
MkSlotSkipLast(p) ==
  /\ pc[p] = "mk_slot"
  /\ LET s == loc[p].k IN
       /\ wait' = [wait EXCEPT ![s] = IF @ = NoPlace THEN loc[p].place[s] ELSE @]
       /\ Advance(p, IF s < NSlots - 1 THEN "mk_slot" ELSE "mk_trigger",
                  [loc[p] EXCEPT !.k = s + 1])
  /\ UNCHANGED <<reg, slot, Store, nextId, calls, crashes, live>>

\* __md_mkvol_slot: create wait/<i>/redis/<j>.wait; EEXIST continues
MkSlot(p) ==
  /\ pc[p] = "mk_slot"
  /\ LET s == loc[p].k IN
       /\ wait' = [wait EXCEPT ![s] = IF @ = NoPlace THEN loc[p].place[s] ELSE @]
       /\ Advance(p, IF s < NSlots THEN "mk_slot" ELSE "mk_trigger",
                  [loc[p] EXCEPT !.k = s + 1])
  /\ UNCHANGED <<reg, slot, Store, nextId, calls, crashes, live>>

\* __md_mkvol_trigger: an etcd_update failure fails the call
MkTrigger(p) ==
  /\ pc[p] = "mk_trigger"
  /\ \/ Advance(p, "mk_inode", loc[p])
     \/ Return(p, ETIMEDOUT)
  /\ UNCHANGED <<Registry, Store, nextId, calls, crashes, live>>

\* __inode_mkvol: md_attr_init, then __md_set with O_EXCL, an hset of the
\* md field of the root hash that fails (EEXIST) when the root has one
InodeMkvol(v) ==
  /\ v \notin roots
  /\ roots' = roots \cup {v}

\* redis_conn_vol, retried 30 times, then inodeop->mkvol
MkInode(p) ==
  /\ pc[p] = "mk_inode"
  /\ \/ Return(p, ETIMEDOUT) /\ UNCHANGED <<roots, live>>
     \/ loc[p].vid \in roots /\ Return(p, EEXIST) /\ UNCHANGED <<roots, live>>
     \/ /\ InodeMkvol(loc[p].vid)
        /\ Return(p, 0)
        /\ live' = loc[p].undisturbed
  /\ UNCHANGED <<Registry, children, nextId, calls, crashes>>

(***************************************************************************)
(* md_rmvol                                                                *)
(***************************************************************************)
\* __md_rmvol_inode: md_lookupvol reads <name>/id (ENOKEY -> ENOENT)
RmLookup(p) ==
  /\ pc[p] = "rm_lookup"
  /\ \/ reg["id"] = 0 /\ Return(p, ENOENT)
     \/ reg["id"] # 0 /\ Advance(p, "rm_count", [loc[p] EXCEPT !.vid = reg["id"]])
  /\ UNCHANGED <<Registry, Store, nextId, calls, crashes, live>>

\* __inode_childcount: *_count = count - 1 in uint64_t, where count is hlen
\* of the root hash (its md field and one field per entry).  hlen of a
\* hash that is gone answers ENOENT or, as redis HLEN does, 0; then count
\* - 1 wraps to 2^64 - 1, represented here by -1 (only "nonzero" matters).
\* An answer is <<ret, count>>.
HlenAnswers(v) == IF v \in roots THEN {<<0, children[v] + 1>>} ELSE {<<ENOENT, 0>>, <<0, 0>>}
ChildCount(n) == IF n = 0 THEN -1 ELSE n - 1

\* mutant: the ENOTEMPTY retry never counts its attempts
RmCountUnbounded(p) ==
  /\ pc[p] = "rm_count"
  /\ \E h \in HlenAnswers(loc[p].vid) : LET n == h[2] IN
       \/ h[1] = ENOENT /\ Advance(p, "rm_shbak", loc[p])
       \/ h[1] = 0 /\ ChildCount(n) = 0 /\ Advance(p, "rm_unlink", loc[p])
       \/ h[1] = 0 /\ ChildCount(n) # 0 /\ Advance(p, "rm_lookup", loc[p])
  /\ UNCHANGED <<Registry, Store, nextId, calls, crashes, live>>

\* mutant: a nonzero count is taken as "already removed" and passes
RmCountIgnoreCount(p) ==
  /\ pc[p] = "rm_count"
  /\ \E h \in HlenAnswers(loc[p].vid) : LET n == h[2] IN
       \/ h[1] = ENOENT /\ Advance(p, "rm_shbak", loc[p])
       \/ h[1] = 0 /\ ChildCount(n) = 0 /\ Advance(p, "rm_unlink", loc[p])
       \/ h[1] = 0 /\ ChildCount(n) # 0 /\ Advance(p, "rm_shbak", loc[p])
  /\ UNCHANGED <<Registry, Store, nextId, calls, crashes, live>>

\* inodeop->childcount of the root.  ENOENT passes (the comment: already
\* removed); a nonzero count is ENOTEMPTY, which md_rmvol retries from
\* __md_rmvol_inode (USLEEP_RETRY) up to its bound.
RmCount(p) ==
  /\ pc[p] = "rm_count"
  /\ \E h \in HlenAnswers(loc[p].vid) : LET n == h[2] IN
       \/ h[1] = ENOENT /\ Advance(p, "rm_shbak", loc[p])
       \/ h[1] = 0 /\ ChildCount(n) = 0 /\ Advance(p, "rm_unlink", loc[p])
       \/ /\ h[1] = 0 /\ ChildCount(n) # 0
          /\ \/ /\ loc[p].retry < MaxRetry
                /\ Advance(p, "rm_lookup", [loc[p] EXCEPT !.retry = @ + 1])
             \/ loc[p].retry = MaxRetry /\ Return(p, ENOTEMPTY)
  /\ UNCHANGED <<Registry, Store, nextId, calls, crashes, live>>

\* __inode_del: kdel of the root hash, then of its xattr hash (a missing
\* xattr hash passes)
InodeDel(v) == roots' = roots \ {v}

\* inodeop->unlink of the root directory: __inode_remove with no md to
\* return, i.e. __inode_del (ENOENT of a root already gone is only logged)
RmUnlink(p) ==
  /\ pc[p] = "rm_unlink"
  /\ InodeDel(loc[p].vid)
  /\ Advance(p, "rm_shbak", loc[p])
  /\ UNCHANGED <<Registry, children, nextId, calls, crashes, live>>

ENOKEY == 126
\* mutant: the ENOKEY of a missing key is returned untranslated
RmGetBakNoTranslate(p) ==
  /\ \E step \in {<<"rm_shbak", "sharding", "rm_rpbak", "rm_shcreate">>,
                  <<"rm_rpbak", "replica", "rm_del", "rm_rpcreate">>} :
       LET bak == step[2] \o ".bak" IN
       /\ pc[p] = step[1]
       /\ \/ reg[bak] # 0 /\ Advance(p, step[3], [loc[p] EXCEPT !.k = 1])
          \/ reg[bak] = 0 /\ reg[step[2]] = 0 /\ Return(p, ENOKEY)
          \/ reg[bak] = 0 /\ reg[step[2]] # 0 /\ Advance(p, step[4], loc[p])
  /\ UNCHANGED <<Registry, Store, nextId, calls, crashes, live>>

\* __md_rmvol_config, retry1 / retry2: read <key>.bak; when absent read
\* <key> (absent: ENOKEY -> ENOENT) and go on to create the .bak copy
RmGetBak(p) ==
  /\ \E step \in {<<"rm_shbak", "sharding", "rm_rpbak", "rm_shcreate">>,
                  <<"rm_rpbak", "replica", "rm_del", "rm_rpcreate">>} :
       LET bak == step[2] \o ".bak" IN
       /\ pc[p] = step[1]
       /\ \/ reg[bak] # 0 /\ Advance(p, step[3], [loc[p] EXCEPT !.k = 1])
          \/ reg[bak] = 0 /\ reg[step[2]] = 0 /\ Return(p, ENOENT)
          \/ reg[bak] = 0 /\ reg[step[2]] # 0 /\ Advance(p, step[4], loc[p])
  /\ UNCHANGED <<Registry, Store, nextId, calls, crashes, live>>

\* etcd_create_text of the .bak copy (any failure, EEXIST included, fails
\* the call), then goto retry1 / retry2
RmCreateBak(p) ==
  /\ \E step \in {<<"rm_shcreate", "sharding", "rm_shbak">>,
                  <<"rm_rpcreate", "replica", "rm_rpbak">>} :
       LET bak == step[2] \o ".bak" IN
       /\ pc[p] = step[1]
       /\ \/ reg[bak] = 0 /\ CreateKey(bak, reg[step[2]]) /\ Advance(p, step[3], loc[p])
          \/ reg[bak] # 0 /\ Return(p, EEXIST) /\ UNCHANGED reg
  /\ UNCHANGED <<wait, slot, Store, nextId, calls, crashes, live>>

\* etcd_del of sharding, replica, volid, id in that order (results ignored)
RmDel(p) ==
  /\ pc[p] = "rm_del"
  /\ DeleteKeys({DelOrder[loc[p].k]})
  /\ IF loc[p].k < Len(DelOrder)
       THEN Advance(p, "rm_del", [loc[p] EXCEPT !.k = @ + 1])
       ELSE Advance(p, "rm_shard", [loc[p] EXCEPT !.k = 1, !.retry = 0])
  /\ UNCHANGED <<wait, slot, Store, nextId, calls, crashes, live>>

\* the first replica key of the shard after the one of slot s, or the
\* cleanup when s is in the last shard (for i < sharding in md_rmvol)
NextShard(p, s) ==
  IF ShardOf(s) + 1 < Sharding
    THEN Advance(p, "rm_shard", [loc[p] EXCEPT !.k = (ShardOf(s) + 1) * Replica + 1,
                                               !.retry = 0])
    ELSE Advance(p, "rm_clean", [loc[p] EXCEPT !.k = 0, !.retry = 0])

\* __md_rmvol_sharding, the loop over the replica keys of a shard: poll
\* slot/<i>/redis/<j> (slot k) a second at a time while it is present, at
\* most ten polls for each key (retry is reset per key), then force on; an
\* etcd error other than ENOKEY ends the shard early, and md_rmvol ignores
\* what __md_rmvol_sharding returns.
RmShard(p) ==
  /\ pc[p] = "rm_shard"
  /\ LET s == loc[p].k IN
     \/ /\ slot[s] # NoPlace /\ loc[p].retry < MaxWait
        /\ Advance(p, "rm_shard", [loc[p] EXCEPT !.retry = @ + 1])
     \/ /\ slot[s] = NoPlace \/ loc[p].retry = MaxWait
        /\ IF s % Replica # 0
             THEN Advance(p, "rm_shard", [loc[p] EXCEPT !.k = s + 1, !.retry = 0])
             ELSE Advance(p, "rm_shdir", [loc[p] EXCEPT !.retry = 0])
     \/ NextShard(p, s)
  /\ UNCHANGED <<Registry, Store, nextId, calls, crashes, live>>

\* __md_rmvol_sharding: etcd_del_dir of slot/<i>, the shard of slot k
\* (ENOKEY passes; another failure is returned to md_rmvol, which ignores it)
RmShardDir(p) ==
  /\ pc[p] = "rm_shdir"
  /\ LET i == ShardOf(loc[p].k) IN
     \/ slot' = [s \in Slots |-> IF ShardOf(s) = i THEN NoPlace ELSE slot[s]]
     \/ UNCHANGED slot
  /\ NextShard(p, loc[p].k)
  /\ UNCHANGED <<reg, wait, Store, nextId, calls, crashes, live>>

\* __md_rmvol_cleanup: etcd_del_dir of slot (ENOKEY passes, another error
\* is returned), then etcd_del of both .bak keys
RmClean(p) ==
  /\ pc[p] = "rm_clean"
  /\ \/ /\ slot' = NoAddr
        /\ DeleteKeys({"sharding.bak", "replica.bak"})
        /\ Advance(p, "rm_subtree", loc[p])
     \/ Return(p, EIO) /\ UNCHANGED <<reg, slot>>
  /\ UNCHANGED <<wait, Store, nextId, calls, crashes, live>>

\* nothing is left under <name>: a concurrent md_rmvol may already have
\* deleted the directory itself (an emptied directory may also remain)
NameEmpty == reg = [key \in ScalarKeys |-> 0] /\ wait = NoAddr /\ slot = NoAddr

\* __md_rmvol_cleanup: etcd_del_dir of <name>, which removes what is left
\* of the name (snapvers and the wait proposals); ENOKEY returns ENOENT,
\* another error is returned as it is
RmSubtree(p) ==
  /\ pc[p] = "rm_subtree"
  /\ \/ /\ reg' = [key \in ScalarKeys |-> 0]
        /\ wait' = NoAddr
        /\ slot' = NoAddr
        /\ Return(p, 0)
     \/ NameEmpty /\ Return(p, ENOENT) /\ UNCHANGED Registry
     \/ Return(p, EIO) /\ UNCHANGED Registry
  /\ UNCHANGED <<Store, nextId, calls, crashes, live>>

(***************************************************************************)
(* Environment: storage daemons, clients of the volume, crashes            *)
(***************************************************************************)
\* a storage daemon accepts a proposal of a live volume as its slot
Accept(s) ==
  /\ wait[s] # NoPlace /\ slot[s] = NoPlace /\ reg["id"] # 0
  /\ slot' = [slot EXCEPT ![s] = wait[s]]
  /\ UNCHANGED <<reg, wait, Store, nextId, pc, loc, ret, calls, crashes, live>>

\* a storage daemon whose volume is gone exits and drops its slot
Exit(s) ==
  /\ slot[s] # NoPlace /\ reg["id"] = 0
  /\ slot' = [slot EXCEPT ![s] = NoPlace]
  /\ UNCHANGED <<reg, wait, Store, nextId, pc, loc, ret, calls,
                 crashes, live>>

\* a client that looked the volume up creates or removes an entry in its root
AddChild(v) ==
  /\ v \in roots /\ reg["id"] = v /\ children[v] < MaxChildren
  /\ children' = [children EXCEPT ![v] = @ + 1]
  /\ UNCHANGED <<Registry, roots, nextId, pc, loc, ret, calls,
                 crashes, live>>

RemoveChild(v) ==
  /\ v \in roots /\ children[v] > 0
  /\ children' = [children EXCEPT ![v] = @ - 1]
  /\ UNCHANGED <<Registry, roots, nextId, pc, loc, ret, calls,
                 crashes, live>>

\* the metadata server running p's call dies between two registry calls;
\* the registry and redis keep what was written
Crash(p) ==
  /\ pc[p] # Idle /\ crashes < MaxCrash
  /\ crashes' = crashes + 1
  /\ Return(p, CRASHED)
  /\ UNCHANGED <<Registry, Store, nextId, calls, live>>

Step(p) ==
  \/ MkNewId(p) \/ MkGetId(p) \/ MkScaffold(p) \/ MkVolid(p) \/ MkId(p)
  \/ MkRedis(p) \/ MkSlot(p) \/ MkTrigger(p) \/ MkInode(p)
  \/ RmLookup(p) \/ RmCount(p) \/ RmUnlink(p) \/ RmGetBak(p)
  \/ RmCreateBak(p) \/ RmDel(p) \/ RmShard(p) \/ RmShardDir(p) \/ RmClean(p) \/ RmSubtree(p)

Next ==
  \/ \E p \in Callers : Call(p) \/ Step(p) \/ Crash(p)
  \/ \E s \in Slots : Accept(s) \/ Exit(s)
  \/ \E v \in Ids : AddChild(v) \/ RemoveChild(v)

\* Each call runs on a thread of its own and every registry or redis call
\* returns; daemons and clients owe nothing.
Fairness == \A p \in Callers : WF_vars(Step(p))

Spec == Init /\ [][Next]_vars /\ Fairness

(***************************************************************************)
(* Properties                                                              *)
(***************************************************************************)
\* An md_mkvol that no md_rmvol overlapped and that returns 0 leaves its
\* volume published: <name>/id names it, its root inode exists and every
\* wait/<i>/redis/<j> proposal is in the registry.
MkvolPublishes ==
  [][\A p \in Callers :
       pc[p] = "mk_inode" /\ pc'[p] = Idle /\ ret'[p] = 0 /\ loc[p].undisturbed =>
         /\ reg'["id"] = loc[p].vid
         /\ loc[p].vid \in roots'
         /\ \A s \in Slots : wait'[s] # NoPlace]_vars

\* P2: an md_mkvol that begins after another returned 0, with no md_rmvol
\* since, fails with EEXIST (or dies) and never creates a second volume.
MkvolAfterMkvolIsEEXIST ==
  [][\A p \in Callers :
       pc[p] # Idle /\ pc'[p] = Idle /\ loc[p].sawLive /\ loc[p].undisturbed =>
         ret'[p] \in {EEXIST, CRASHED}]_vars

\* Every md_mkvol and md_rmvol returns: the ENOTEMPTY retries and the waits
\* for storage daemons to drop their slots are bounded.
Termination == \A p \in Callers : pc[p] # Idle ~> pc[p] = Idle

\* An md_rmvol that returns 0, with no md_mkvol running at any time during
\* it, leaves no root inode of the volume it looked up: the volume is gone
\* from redis as it is from the registry, which rests on the childcount
\* check, the unlink of the root and the order of the registry deletes.
RmvolErases ==
  [][\A p \in Callers :
       pc[p] = "rm_subtree" /\ pc'[p] = Idle /\ ret'[p] = 0 /\ loc[p].undisturbed =>
         loc[p].vid \notin roots']_vars

\* md_rmvol removes a volume root only when childcount reported it empty:
\* no root inode with entries is ever deleted.
NoLostEntries == [][\A v \in roots \ roots' : children[v] = 0]_vars

\* The hosts of a view that __md_mkvol_getredis lists
UpHosts(v) == {v.hosts[i] : i \in {j \in 1..Len(v.hosts) : OnlineDisks(v, v.hosts[j]) # {}}}
\* Reference placement promise: every slot on an online disk of a listed
\* host, the replicas of a shard on distinct places (distinct hosts unless
\* solo), and outside solo mode no host given more than its round-robin
\* share, ceil(NSlots / hosts online), of the slots.
SpreadOK(addr, v) ==
  LET m == Cardinality(UpHosts(v)) IN
  /\ \A s \in Slots : addr[s][1] \in UpHosts(v) /\ addr[s][2] \in OnlineDisks(v, addr[s][1])
  /\ \A s, t \in Slots :
       s # t /\ ShardOf(s) = ShardOf(t) =>
         IF Solo THEN addr[s] # addr[t] ELSE addr[s][1] # addr[t][1]
  /\ ~Solo => \A h \in UpHosts(v) :
                Cardinality({s \in Slots : addr[s][1] = h}) * m < NSlots + m

\* P3 and the rotation of the host list in __md_mkvol_getredis_replica:
\* whenever __md_vol_set_redis__ fills addr[] it places every shard's
\* replicas on distinct online hosts and spreads the shards over all the
\* online hosts, whatever the registry shows (hosts down, hosts without a
\* usable disk).
PlacementSpread ==
  [][\A p \in Callers :
       pc[p] = "mk_redis" /\ pc'[p] = "mk_slot" => SpreadOK(loc'[p].place, loc'[p].view)]_vars

\* Spec section 7: running out of space is fatal for that request only.  An
\* md_mkvol whose shards do not fit on the online hosts returns ENOSPC;
\* the metadata server never dies on a YASSERT of the placement code.
MkvolNeverAborts == \A p \in Callers : ret[p] # ABORTED

\* Scenario 5: partial state is cleaned by md_rmvol.  Whenever no call is in
\* progress, either <name>/id is present (md_rmvol can proceed) or no volid
\* is left to make md_mkvol fail with EINVAL.
Recoverable ==
  (\A p \in Callers : pc[p] = Idle) => ~(reg["id"] = 0 /\ reg["volid"] # 0)

\* Scenario 5 (partial state is cleaned by md_rmvol): an md_rmvol that no
\* md_mkvol overlapped gives up with ENOTEMPTY only on a volume whose root
\* inode exists and has entries, as childcount in __md_rmvol_inode is
\* meant to report; a name left behind by a failed md_mkvol is removable.
RmvolRefusesOnlyNonEmpty ==
  [][\A p \in Callers :
       (pc[p] = "rm_count" /\ pc'[p] = Idle /\ ret'[p] = ENOTEMPTY /\ loc[p].undisturbed) =>
         loc[p].vid \in roots /\ children[loc[p].vid] > 0]_vars

=============================================================================
