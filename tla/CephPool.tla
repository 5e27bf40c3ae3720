------------------------------ MODULE CephPool ------------------------------
(***************************************************************************)
(* The pool of cluster connections and stripers of XrdCephPosix.cc:        *)
(* getCephPoolIdxAndIncrease, checkAndCreateCluster, checkAndCreateStriper *)
(* with its two callers getRadosStriper and getIoCtx, and                  *)
(* ceph_posix_disconnect_all.                                              *)
(*                                                                         *)
(* getRadosStriper and getIoCtx hold g_striper_mutex throughout.  But      *)
(* ceph_posix_statfs, and the second half of ceph_aio_read and             *)
(* ceph_aio_write, choose an index and check the cluster with no lock but  *)
(* the one around the allocation of the vectors.  So a step here is one    *)
(* read or one write of a shared variable, or one request to the store.    *)
(*                                                                         *)
(* Reading a vector while another thread makes it grow, or out of its      *)
(* range, is undefined: where VectorsReady is false, the steps that follow *)
(* mean nothing.                                                           *)
(***************************************************************************)
EXTENDS Integers

CONSTANTS
  Threads,           \* threads that use the pool
  Files,             \* user, pool and layout of a file: the key userAtPool
  g_maxCephPoolIdx,  \* size of the pool, the ceph.nbconnections of the configuration
  Calls,             \* what the threads call: a subset of CallKinds
  Warm,              \* whether the vectors are allocated at the start
  CreateMayFail,     \* whether creating a striper may fail
  MaxClusters,       \* bound: how many connections are ever made
  Nobody             \* no thread

\* "striper": getRadosStriper or getIoCtx; "cluster": statfs, that takes a
\* cluster alone; "aio": aio_read or aio_write, that take one after the other.
CallKinds == {"striper", "cluster", "aio"}

ASSUME PoolAssumption ==
  /\ g_maxCephPoolIdx \in 1 .. 100
  /\ Calls \subseteq CallKinds
  /\ Warm \in BOOLEAN
  /\ CreateMayFail \in BOOLEAN
  /\ MaxClusters \in Nat
  /\ Nobody \notin Threads

VARIABLES
  g_striper_mutex,   \* the thread that holds it, or Nobody
  g_init_mutex,
  sizes,             \* sizes of the three vectors
  g_cephPoolIdx,
  g_cluster,         \* g_cluster[i]: connection number, 0 for the null pointer
  g_radosStripers,   \* g_radosStripers[i][k]: the connection under the striper, 0 for no entry
  g_ioCtx,           \* g_ioCtx[i][k]: the connection under the IoCtx, 0 for no entry
  connections,       \* how many connections were made; they are numbered from 1
  deleted,           \* the connections that were shut down and deleted
  pc,                \* pc[t]: what thread t does next
  call,              \* call[t]: the call it is in
  key,               \* key[t]: the file of a call that needs a striper
  idx,               \* idx[t]: the index it got
  nextValue,         \* nextValue[t]: the index it is going to leave behind
  cluster,           \* cluster[t]: the connection in its hands, or 0
  striper            \* striper[t]: the connection under the striper in its hands, or 0

mutexVars == <<g_striper_mutex, g_init_mutex>>
poolVars == <<g_cluster, g_radosStripers, g_ioCtx, connections, deleted>>
vars == <<mutexVars, sizes, g_cephPoolIdx, poolVars, pc, call, key, idx, nextValue,
          cluster, striper>>

Indices == 0 .. g_maxCephPoolIdx - 1

Goto(t, p) == pc' = [pc EXCEPT ![t] = p]

\* A call that needs the striper part.
NeedsStriper(t) == call[t] \in {"striper", "aio"}

-----------------------------------------------------------------------------
(* A call begins                                                           *)

Start(t, c, k) ==
  /\ pc[t] = "idle"
  /\ call' = [call EXCEPT ![t] = c]
  /\ key' = [key EXCEPT ![t] = k]
  /\ Goto(t, IF c = "cluster" THEN "size" ELSE "lock")
  /\ UNCHANGED <<mutexVars, sizes, g_cephPoolIdx, poolVars, idx, nextValue, cluster, striper>>

LockStripers(t) ==
  /\ pc[t] = "lock"
  /\ g_striper_mutex = Nobody
  /\ g_striper_mutex' = t
  /\ Goto(t, "size")
  /\ UNCHANGED <<g_init_mutex, sizes, g_cephPoolIdx, poolVars, call, key, idx, nextValue,
                 cluster, striper>>

-----------------------------------------------------------------------------
(* getCephPoolIdxAndIncrease                                               *)

SeeSize(t) ==
  /\ pc[t] = "size"
  /\ Goto(t, IF sizes.stripers = 0 THEN "initLock" ELSE "readIdx")
  /\ UNCHANGED <<mutexVars, sizes, g_cephPoolIdx, poolVars, call, key, idx, nextValue,
                 cluster, striper>>

\* "double check now that we have the lock"
LockInit(t) ==
  /\ pc[t] = "initLock"
  /\ g_init_mutex = Nobody
  /\ g_init_mutex' = t
  /\ Goto(t, IF sizes.stripers = 0 THEN "push" ELSE "initDone")
  /\ UNCHANGED <<g_striper_mutex, sizes, g_cephPoolIdx, poolVars, call, key, idx, nextValue,
                 cluster, striper>>

\* The three vectors grow in turn.
Grown ==
  IF sizes.stripers = sizes.ioCtx /\ sizes.ioCtx = sizes.cluster
    THEN [sizes EXCEPT !.stripers = @ + 1]
  ELSE IF sizes.ioCtx < sizes.stripers
    THEN [sizes EXCEPT !.ioCtx = @ + 1]
    ELSE [sizes EXCEPT !.cluster = @ + 1]

lastPushOneLate(s) == s.cluster = g_maxCephPoolIdx + 1

lastPush(s) == s.cluster = g_maxCephPoolIdx

Push(t) ==
  /\ pc[t] = "push"
  /\ sizes' = Grown
  /\ Goto(t, IF lastPush(Grown) THEN "initDone" ELSE "push")
  /\ UNCHANGED <<mutexVars, g_cephPoolIdx, poolVars, call, key, idx, nextValue, cluster, striper>>

UnlockInit(t) ==
  /\ pc[t] = "initDone"
  /\ g_init_mutex' = Nobody
  /\ Goto(t, "readIdx")
  /\ UNCHANGED <<g_striper_mutex, sizes, g_cephPoolIdx, poolVars, call, key, idx, nextValue,
                 cluster, striper>>

ReadIdx(t) ==
  /\ pc[t] = "readIdx"
  /\ idx' = [idx EXCEPT ![t] = g_cephPoolIdx]
  /\ Goto(t, "readNext")
  /\ UNCHANGED <<mutexVars, sizes, g_cephPoolIdx, poolVars, call, key, nextValue, cluster, striper>>

successorOneTooFar(i) == IF i + 1 > g_maxCephPoolIdx THEN 0 ELSE i + 1

successor(i) == IF i + 1 >= g_maxCephPoolIdx THEN 0 ELSE i + 1

\* g_cephPoolIdx is read a second time.
ReadNext(t) ==
  /\ pc[t] = "readNext"
  /\ nextValue' = [nextValue EXCEPT ![t] = successor(g_cephPoolIdx)]
  /\ Goto(t, "storeIdx")
  /\ UNCHANGED <<mutexVars, sizes, g_cephPoolIdx, poolVars, call, key, idx, cluster, striper>>

StoreIdx(t) ==
  /\ pc[t] = "storeIdx"
  /\ g_cephPoolIdx' = nextValue[t]
  /\ Goto(t, IF NeedsStriper(t) THEN "find" ELSE "check")
  /\ UNCHANGED <<mutexVars, sizes, poolVars, call, key, idx, nextValue, cluster, striper>>

-----------------------------------------------------------------------------
(* checkAndCreateCluster                                                   *)

CheckCluster(t) ==
  /\ pc[t] = "check"
  /\ Goto(t, IF g_cluster[idx[t]] = 0 THEN "connect" ELSE "take")
  /\ UNCHANGED <<mutexVars, sizes, g_cephPoolIdx, poolVars, call, key, idx, nextValue,
                 cluster, striper>>

Connect(t) ==
  /\ pc[t] = "connect"
  /\ connections < MaxClusters
  /\ connections' = connections + 1
  /\ cluster' = [cluster EXCEPT ![t] = connections + 1]
  /\ Goto(t, "store")
  /\ UNCHANGED <<mutexVars, sizes, g_cephPoolIdx, g_cluster, g_radosStripers, g_ioCtx, deleted,
                 call, key, idx, nextValue, striper>>

\* init, conf_read_file or connect failed: nothing is left behind.
ConnectFails(t) ==
  /\ pc[t] = "connect"
  /\ Goto(t, IF NeedsStriper(t) THEN "failed" ELSE "use")
  /\ UNCHANGED <<mutexVars, sizes, g_cephPoolIdx, poolVars, call, key, idx, nextValue,
                 cluster, striper>>

StoreCluster(t) ==
  /\ pc[t] = "store"
  /\ g_cluster' = [g_cluster EXCEPT ![idx[t]] = cluster[t]]
  /\ Goto(t, "take")
  /\ UNCHANGED <<mutexVars, sizes, g_cephPoolIdx, g_radosStripers, g_ioCtx, connections, deleted,
                 call, key, idx, nextValue, cluster, striper>>

TakeCluster(t) ==
  /\ pc[t] = "take"
  /\ cluster' = [cluster EXCEPT ![t] = g_cluster[idx[t]]]
  /\ Goto(t, IF NeedsStriper(t) THEN "create" ELSE "use")
  /\ UNCHANGED <<mutexVars, sizes, g_cephPoolIdx, poolVars, call, key, idx, nextValue, striper>>

-----------------------------------------------------------------------------
(* checkAndCreateStriper                                                   *)

FindStriper(t) ==
  /\ pc[t] = "find"
  /\ Goto(t, IF g_radosStripers[idx[t]][key[t]] = 0 THEN "check" ELSE "found")
  /\ UNCHANGED <<mutexVars, sizes, g_cephPoolIdx, poolVars, call, key, idx, nextValue,
                 cluster, striper>>

\* insert leaves an entry alone that the dictionary has already.
Inserted(dict, i, k, c) ==
  IF dict[i][k] = 0 THEN [dict EXCEPT ![i][k] = c] ELSE dict

InsertIoCtxNever(t) ==
  /\ pc[t] = "create"
  /\ striper' = [striper EXCEPT ![t] = g_cluster[idx[t]]]
  /\ Goto(t, "insert")
  /\ UNCHANGED <<mutexVars, sizes, g_cephPoolIdx, poolVars, call, key, idx, nextValue, cluster>>

\* The IoCtx is made on what g_cluster holds by now, and the striper on it.
InsertIoCtx(t) ==
  /\ pc[t] = "create"
  /\ striper' = [striper EXCEPT ![t] = g_cluster[idx[t]]]
  /\ g_ioCtx' = Inserted(g_ioCtx, idx[t], key[t], g_cluster[idx[t]])
  /\ Goto(t, "insert")
  /\ UNCHANGED <<mutexVars, sizes, g_cephPoolIdx, g_cluster, g_radosStripers, connections, deleted,
                 call, key, idx, nextValue, cluster>>

InsertStriper(t) ==
  /\ pc[t] = "insert"
  /\ g_radosStripers' = Inserted(g_radosStripers, idx[t], key[t], striper[t])
  /\ Goto(t, "found")
  /\ UNCHANGED <<mutexVars, sizes, g_cephPoolIdx, g_cluster, g_ioCtx, connections, deleted,
                 call, key, idx, nextValue, cluster, striper>>

\* No such pool, or an invalid layout: the connection is shut down and deleted
\* with the striper.  The slot is emptied in a step after that, which a thread
\* outside the mutex may come between.
CreateFails(t) ==
  /\ CreateMayFail
  /\ pc[t] = "create"
  /\ deleted' = deleted \cup {cluster[t]}
  /\ cluster' = [cluster EXCEPT ![t] = 0]
  /\ Goto(t, "forget")
  /\ UNCHANGED <<mutexVars, sizes, g_cephPoolIdx, g_cluster, g_radosStripers, g_ioCtx, connections,
                 call, key, idx, nextValue, striper>>

ForgetClusterNever(t) ==
  /\ pc[t] = "forget"
  /\ Goto(t, "failed")
  /\ UNCHANGED <<mutexVars, sizes, g_cephPoolIdx, poolVars, call, key, idx, nextValue, cluster,
                 striper>>

ForgetCluster(t) ==
  /\ pc[t] = "forget"
  /\ g_cluster' = [g_cluster EXCEPT ![idx[t]] = 0]
  /\ Goto(t, "failed")
  /\ UNCHANGED <<mutexVars, sizes, g_cephPoolIdx, g_radosStripers, g_ioCtx, connections, deleted,
                 call, key, idx, nextValue, cluster, striper>>

-----------------------------------------------------------------------------
(* getRadosStriper and getIoCtx return, and the caller uses what it got     *)

\* aio_read and aio_write go on to take a cluster, any cluster.
ReturnStriper(t) ==
  /\ pc[t] = "found"
  /\ striper' = [striper EXCEPT ![t] = g_radosStripers[idx[t]][key[t]]]
  /\ cluster' = [cluster EXCEPT ![t] = 0]
  /\ g_striper_mutex' = Nobody
  /\ IF call[t] = "aio"
       THEN /\ call' = [call EXCEPT ![t] = "cluster"]
            /\ Goto(t, "size")
       ELSE /\ Goto(t, "use")
            /\ UNCHANGED call
  /\ UNCHANGED <<g_init_mutex, sizes, g_cephPoolIdx, poolVars, key, idx, nextValue>>

ReturnFailure(t) ==
  /\ pc[t] = "failed"
  /\ g_striper_mutex' = Nobody
  /\ Goto(t, "idle")
  /\ UNCHANGED <<g_init_mutex, sizes, g_cephPoolIdx, poolVars, call, key, idx, nextValue,
                 cluster, striper>>

\* The requests to the store, after which the pointers are forgotten.
Use(t) ==
  /\ pc[t] = "use"
  /\ striper' = [striper EXCEPT ![t] = 0]
  /\ cluster' = [cluster EXCEPT ![t] = 0]
  /\ Goto(t, "idle")
  /\ UNCHANGED <<mutexVars, sizes, g_cephPoolIdx, poolVars, call, key, idx, nextValue>>

-----------------------------------------------------------------------------
(* ceph_posix_disconnect_all, from the destructor of XrdCephOss: no call is *)
(* under way.  Clearing the vectors brings the pool back to the cold state. *)
(* (On a pool that is cold already it would index the empty vectors.)       *)

Empty == [i \in Indices |-> [k \in Files |-> 0]]
Sized(n) == [stripers |-> n, ioCtx |-> n, cluster |-> n]

DisconnectAll ==
  /\ g_striper_mutex = Nobody
  /\ \A t \in Threads : pc[t] = "idle"
  /\ sizes.cluster = g_maxCephPoolIdx
  /\ deleted' = deleted \cup ({g_cluster[i] : i \in Indices} \ {0})
  /\ g_cluster' = [i \in Indices |-> 0]
  /\ g_radosStripers' = Empty
  /\ g_ioCtx' = Empty
  /\ sizes' = Sized(0)
  /\ UNCHANGED <<mutexVars, g_cephPoolIdx, connections, pc, call, key, idx, nextValue,
                 cluster, striper>>

-----------------------------------------------------------------------------
Init ==
  /\ g_striper_mutex = Nobody
  /\ g_init_mutex = Nobody
  /\ sizes = Sized(IF Warm THEN g_maxCephPoolIdx ELSE 0)
  /\ g_cephPoolIdx = 0
  /\ g_cluster = [i \in Indices |-> 0]
  /\ g_radosStripers = Empty
  /\ g_ioCtx = Empty
  /\ connections = 0
  /\ deleted = {}
  /\ pc = [t \in Threads |-> "idle"]
  /\ call \in [Threads -> Calls]
  /\ key \in [Threads -> Files]
  /\ idx = [t \in Threads |-> 0]
  /\ nextValue = [t \in Threads |-> 0]
  /\ cluster = [t \in Threads |-> 0]
  /\ striper = [t \in Threads |-> 0]

ThreadNext(t) ==
  \/ \E c \in Calls, k \in Files : Start(t, c, k)
  \/ LockStripers(t) \/ SeeSize(t) \/ LockInit(t) \/ Push(t) \/ UnlockInit(t)
  \/ ReadIdx(t) \/ ReadNext(t) \/ StoreIdx(t)
  \/ CheckCluster(t) \/ Connect(t) \/ ConnectFails(t) \/ StoreCluster(t) \/ TakeCluster(t)
  \/ FindStriper(t) \/ CreateFails(t) \/ ForgetCluster(t)
  \/ InsertIoCtx(t) \/ InsertStriper(t)
  \/ ReturnStriper(t) \/ ReturnFailure(t) \/ Use(t)

Next == (\E t \in Threads : ThreadNext(t)) \/ DisconnectAll

Spec == Init /\ [][Next]_vars

-----------------------------------------------------------------------------
(* Properties                                                              *)

Pcs == {"idle", "lock", "size", "initLock", "push", "initDone", "readIdx", "readNext",
        "storeIdx", "check", "connect", "store", "take", "find", "create",
        "insert", "forget", "found", "failed", "use"}

TypeOK ==
  /\ g_striper_mutex \in Threads \cup {Nobody}
  /\ g_init_mutex \in Threads \cup {Nobody}
  /\ sizes \in [stripers : 0 .. g_maxCephPoolIdx, ioCtx : 0 .. g_maxCephPoolIdx,
                cluster : 0 .. g_maxCephPoolIdx]
  /\ g_cephPoolIdx \in Nat
  /\ g_cluster \in [Indices -> 0 .. MaxClusters]
  /\ g_radosStripers \in [Indices -> [Files -> 0 .. MaxClusters]]
  /\ g_ioCtx \in [Indices -> [Files -> 0 .. MaxClusters]]
  /\ connections \in 0 .. MaxClusters
  /\ deleted \subseteq 0 .. MaxClusters
  /\ pc \in [Threads -> Pcs]
  /\ call \in [Threads -> CallKinds]
  /\ key \in [Threads -> Files]
  /\ idx \in [Threads -> Nat]
  /\ nextValue \in [Threads -> Nat]
  /\ cluster \in [Threads -> 0 .. MaxClusters]
  /\ striper \in [Threads -> 0 .. MaxClusters]

\* "Note that this is not thread safe, but we do not care as we only want a
\* rough load balancing": however the reads and writes of g_cephPoolIdx by
\* different threads fall, no thread gets an index outside the pool.
IdxInRange ==
  /\ g_cephPoolIdx < g_maxCephPoolIdx
  /\ \A t \in Threads : idx[t] < g_maxCephPoolIdx /\ nextValue[t] < g_maxCephPoolIdx

\* "make sure we do not have a race condition here" (137): a thread that goes
\* on to index the vectors finds all three of them allocated up to its index.
VectorsReady ==
  \A t \in Threads :
    /\ pc[t] \in {"find", "create", "insert", "found"} =>
         idx[t] < sizes.stripers /\ idx[t] < sizes.ioCtx
    /\ pc[t] \in {"check", "store", "take", "create"} => idx[t] < sizes.cluster

\* A connection that exists.
Live(c) == c \in 1 .. connections /\ c \notin deleted

\* No striper that is kept for later, or that a thread is using, stands on a
\* connection that was deleted, whatever files of other pools and layouts are
\* asked for meanwhile.
StripersLive ==
  /\ \A i \in Indices, k \in Files : g_radosStripers[i][k] # 0 => Live(g_radosStripers[i][k])
  /\ \A t \in Threads : striper[t] # 0 => Live(striper[t])

\* A connection is shut down and deleted once, by whichever of a failed creation
\* and the disconnect comes first, although threads outside the mutex fill the
\* slots at the same time: the one that a creation would take down is there
\* until it does, and whenever nobody has the mutex each slot has a connection
\* of its own that is there, or none.
DeletedOnce ==
  /\ \A t \in Threads : pc[t] = "create" => Live(cluster[t])
  /\ g_striper_mutex = Nobody =>
       \A i \in Indices : g_cluster[i] # 0 =>
         Live(g_cluster[i]) /\ \A j \in Indices : g_cluster[j] = g_cluster[i] => j = i

\* getIoCtx looks for its key among the stripers and takes the IoCtx under it:
\* outside the mutex the two dictionaries, filled one after the other, have the
\* same keys and stand on the same connections, whatever creations failed.
DictsAgree ==
  g_striper_mutex = Nobody => g_radosStripers = g_ioCtx
=============================================================================
