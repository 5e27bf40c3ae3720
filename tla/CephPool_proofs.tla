-------------------------- MODULE CephPool_proofs --------------------------
(***************************************************************************)
(* Proofs about CephPool, for every number of threads and every size of    *)
(* the pool.                                                               *)
(***************************************************************************)
EXTENDS CephPool, TLAPS

\* The inductive invariant: every copy of the index is in the pool.
IInv ==
  /\ g_cephPoolIdx \in Indices
  /\ idx \in [Threads -> Indices]
  /\ nextValue \in [Threads -> Indices]

\* Whatever index is read, the one after it is in the pool as well.
LEMMA SuccessorInPool ==
  ASSUME NEW i \in Indices
  PROVE  successor(i) \in Indices
BY PoolAssumption DEF Indices, successor

\* Every copy of the index starts at zero, which is in a pool of at least one.
LEMMA InitIInv == Init => IInv
BY PoolAssumption DEF Init, IInv, Indices

\* Only three actions touch a copy of the index.
LEMMA StepIInv == IInv /\ [Next]_vars => IInv'
<1> SUFFICES ASSUME IInv, [Next]_vars PROVE IInv'
  OBVIOUS
<1>1. ASSUME NEW t \in Threads, ReadIdx(t)
      PROVE  IInv'
  BY <1>1 DEF ReadIdx, IInv
<1>2. ASSUME NEW t \in Threads, ReadNext(t)
      PROVE  IInv'
  BY <1>2, SuccessorInPool DEF ReadNext, IInv
<1>3. ASSUME NEW t \in Threads, StoreIdx(t)
      PROVE  IInv'
  BY <1>3 DEF StoreIdx, IInv
<1>4. CASE UNCHANGED <<g_cephPoolIdx, idx, nextValue>>
  BY <1>4 DEF IInv
<1>5. ASSUME NEW t \in Threads,
             \/ \E c \in Calls, k \in Files : Start(t, c, k)
             \/ LockStripers(t) \/ SeeSize(t) \/ LockInit(t) \/ Push(t) \/ UnlockInit(t)
             \/ CheckCluster(t) \/ Connect(t) \/ ConnectFails(t) \/ StoreCluster(t)
             \/ TakeCluster(t)
      PROVE  UNCHANGED <<g_cephPoolIdx, idx, nextValue>>
  BY <1>5 DEF Start, LockStripers, SeeSize, LockInit, Push, UnlockInit,
              CheckCluster, Connect, ConnectFails, StoreCluster, TakeCluster
<1>6. ASSUME NEW t \in Threads,
             \/ FindStriper(t) \/ CreateFails(t) \/ ForgetCluster(t)
             \/ InsertIoCtx(t) \/ InsertStriper(t)
             \/ ReturnStriper(t) \/ ReturnFailure(t) \/ Use(t)
      PROVE  UNCHANGED <<g_cephPoolIdx, idx, nextValue>>
  BY <1>6 DEF FindStriper, CreateFails, ForgetCluster, InsertIoCtx, InsertStriper, ReturnStriper,
              ReturnFailure, Use
<1>7. DisconnectAll => UNCHANGED <<g_cephPoolIdx, idx, nextValue>>
  BY DEF DisconnectAll
<1>8. UNCHANGED vars => UNCHANGED <<g_cephPoolIdx, idx, nextValue>>
  BY DEF vars
<1>9. QED
  BY <1>1, <1>2, <1>3, <1>4, <1>5, <1>6, <1>7, <1>8 DEF Next, ThreadNext

\* No interleaving of the unlocked reads and writes of g_cephPoolIdx takes a
\* thread outside the pool: that it "is not thread safe" costs balance only.
THEOREM IdxAlwaysInRange == Spec => []IdxInRange
<1>1. IInv => IdxInRange
  BY PoolAssumption DEF IInv, IdxInRange, Indices
<1>2. QED
  BY InitIInv, StepIInv, <1>1, PTL DEF Spec

-----------------------------------------------------------------------------
(* g_striper_mutex, and the dictionaries it protects                       *)

\* Between taking g_striper_mutex and giving it back.
InMutex(t) == NeedsStriper(t) /\ pc[t] \notin {"idle", "lock", "use"}

\* Between missing the striper in the dictionary and inserting it.
Creating(t) ==
  NeedsStriper(t) /\ pc[t] \in {"check", "connect", "store", "take", "create", "insert"}

\* Connections by number, and 0 for none.
Conns == 0 .. MaxClusters

DictTypes ==
  /\ pc \in [Threads -> Pcs]
  /\ call \in [Threads -> CallKinds]
  /\ key \in [Threads -> Files]
  /\ striper \in [Threads -> Conns]
  /\ cluster \in [Threads -> Conns]
  /\ connections \in Conns
  /\ deleted \subseteq Conns
  /\ g_cluster \in [Indices -> Conns]
  /\ g_radosStripers \in [Indices -> [Files -> Conns]]
  /\ g_ioCtx \in [Indices -> [Files -> Conns]]

MutexHeld == \A t \in Threads : InMutex(t) <=> g_striper_mutex = t

\* What only a call that needs a striper goes through.
StriperPart ==
  \A t \in Threads :
    pc[t] \in {"lock", "find", "create", "insert", "forget", "found", "failed"} => NeedsStriper(t)

\* The dictionaries differ at most in the entry a thread is about to complete.
DictsFollow ==
  /\ \A t \in Threads : Creating(t) => g_radosStripers[idx[t]][key[t]] = 0
  /\ \A t \in Threads : pc[t] = "insert" => g_ioCtx[idx[t]][key[t]] = striper[t]
  /\ \A i \in Indices, k \in Files :
       g_radosStripers[i][k] # g_ioCtx[i][k]
         => \E t \in Threads : pc[t] = "insert" /\ idx[t] = i /\ key[t] = k

MInv == IInv /\ DictTypes /\ MutexHeld /\ StriperPart /\ DictsFollow

\* A pointer may be null.
LEMMA ConnsHasZero == 0 \in Conns
BY PoolAssumption DEF Conns

\* Nobody is in a call, and the dictionaries are empty.
LEMMA InitMInv == Init => MInv
<1> SUFFICES ASSUME Init PROVE MInv
  OBVIOUS
<1>1. IInv
  BY InitIInv
<1>2. DictTypes
  BY PoolAssumption, ConnsHasZero DEF Init, DictTypes, Empty, Pcs
<1>3. MutexHeld /\ StriperPart
  BY PoolAssumption DEF Init, MutexHeld, StriperPart, InMutex
<1>4. DictsFollow
  BY PoolAssumption DEF Init, DictsFollow, Creating, Empty
<1>5. QED
  BY <1>1, <1>2, <1>3, <1>4 DEF MInv

\* Two threads are never between taking and giving back the mutex.
LEMMA MutualExclusion ==
  ASSUME MutexHeld, NEW t \in Threads, NEW u \in Threads, InMutex(t), InMutex(u)
  PROVE  t = u
BY DEF MutexHeld

\* Every step keeps the types.
LEMMA StepTypes ==
  ASSUME MInv, [Next]_vars
  PROVE  DictTypes'
<1> USE DEF MInv, IInv, DictTypes, Pcs
<1>0. 0 \in Conns
  BY ConnsHasZero
<1>1. ASSUME NEW t \in Threads, NEW c \in Calls, NEW k \in Files, Start(t, c, k)
      PROVE  DictTypes'
  BY <1>1, PoolAssumption DEF Start, Goto, poolVars
<1>2. ASSUME NEW t \in Threads,
             \/ LockStripers(t) \/ SeeSize(t) \/ LockInit(t) \/ Push(t) \/ UnlockInit(t)
             \/ ReadIdx(t) \/ ReadNext(t) \/ StoreIdx(t)
             \/ CheckCluster(t) \/ ConnectFails(t) \/ FindStriper(t) \/ ReturnFailure(t)
      PROVE  DictTypes'
  BY <1>2 DEF LockStripers, SeeSize, LockInit, Push, UnlockInit, ReadIdx, ReadNext, StoreIdx,
              CheckCluster, ConnectFails, FindStriper, ReturnFailure, Goto, poolVars
<1>3. ASSUME NEW t \in Threads, Connect(t) \/ TakeCluster(t)
      PROVE  DictTypes'
  <2>1. CASE Connect(t)
    <3>1. connections + 1 \in Conns
      BY <2>1, PoolAssumption DEF Connect, Conns
    <3>2. QED
      BY <2>1, <3>1 DEF Connect, Goto
  <2>2. CASE TakeCluster(t)
    BY <2>2 DEF TakeCluster, Goto, poolVars
  <2>3. QED
    BY <1>3, <2>1, <2>2
<1>4. ASSUME NEW t \in Threads, StoreCluster(t) \/ CreateFails(t) \/ ForgetCluster(t)
      PROVE  DictTypes'
  <2>1. CASE StoreCluster(t)
    BY <2>1 DEF StoreCluster, Goto
  <2>2. CASE CreateFails(t)
    BY <2>2, <1>0 DEF CreateFails, Goto
  <2>3. CASE ForgetCluster(t)
    BY <2>3, <1>0 DEF ForgetCluster, Goto
  <2>4. QED
    BY <1>4, <2>1, <2>2, <2>3
<1>5. ASSUME NEW t \in Threads, InsertIoCtx(t) \/ InsertStriper(t)
      PROVE  DictTypes'
  <2>1. CASE InsertIoCtx(t)
    BY <2>1 DEF InsertIoCtx, Inserted, Goto
  <2>2. CASE InsertStriper(t)
    BY <2>2 DEF InsertStriper, Inserted, Goto
  <2>3. QED
    BY <1>5, <2>1, <2>2
<1>6. ASSUME NEW t \in Threads, ReturnStriper(t) \/ Use(t)
      PROVE  DictTypes'
  <2>1. CASE ReturnStriper(t)
    <3>1. striper' \in [Threads -> Conns] /\ cluster' \in [Threads -> Conns]
      BY <2>1, <1>0 DEF ReturnStriper
    <3>2. pc' \in [Threads -> Pcs]
      <4>1. pc' = [pc EXCEPT ![t] = "size"] \/ pc' = [pc EXCEPT ![t] = "use"]
        BY <2>1 DEF ReturnStriper, Goto
      <4>2. "size" \in Pcs /\ "use" \in Pcs
        BY DEF Pcs
      <4>3. QED
        BY <4>1, <4>2
    <3>3. call' \in [Threads -> CallKinds]
      <4>1. call' = [call EXCEPT ![t] = "cluster"] \/ call' = call
        BY <2>1 DEF ReturnStriper
      <4>2. QED
        BY <4>1 DEF CallKinds
    <3>4. QED
      BY <2>1, <3>1, <3>2, <3>3 DEF ReturnStriper, poolVars
  <2>2. CASE Use(t)
    BY <2>2, <1>0 DEF Use, Goto, poolVars
  <2>3. QED
    BY <1>6, <2>1, <2>2
<1>7. CASE DisconnectAll
  BY <1>7, <1>0 DEF DisconnectAll, Empty
<1>8. CASE UNCHANGED vars
  BY <1>8 DEF vars, poolVars
<1>9. QED
  BY <1>1, <1>2, <1>3, <1>4, <1>5, <1>6, <1>7, <1>8 DEF Next, ThreadNext

\* Every step keeps the mutex with the one thread that is inside, and leaves
\* the striper's part to the calls that need one.
LEMMA StepMutex ==
  ASSUME MInv, [Next]_vars
  PROVE  MutexHeld' /\ StriperPart'
<1> DEFINE Kept == MutexHeld' /\ StriperPart'
<1> USE DEF MInv, DictTypes, MutexHeld, StriperPart, InMutex, NeedsStriper
<1>1. ASSUME NEW t \in Threads, NEW c \in Calls, NEW k \in Files, Start(t, c, k)
      PROVE  Kept
  BY <1>1, PoolAssumption DEF Start, Goto, mutexVars, CallKinds
<1>2. ASSUME NEW t \in Threads, LockStripers(t)
      PROVE  Kept
  BY <1>2, PoolAssumption DEF LockStripers, Goto
<1>3. ASSUME NEW t \in Threads, SeeSize(t) \/ LockInit(t) \/ Push(t) \/ UnlockInit(t)
      PROVE  Kept
  BY <1>3 DEF SeeSize, LockInit, Push, UnlockInit, Goto, mutexVars
<1>4. ASSUME NEW t \in Threads, ReadIdx(t) \/ ReadNext(t) \/ StoreIdx(t)
      PROVE  Kept
  BY <1>4 DEF ReadIdx, ReadNext, StoreIdx, Goto, mutexVars
<1>5. ASSUME NEW t \in Threads,
             CheckCluster(t) \/ Connect(t) \/ ConnectFails(t) \/ StoreCluster(t) \/ TakeCluster(t)
      PROVE  Kept
  BY <1>5 DEF CheckCluster, Connect, ConnectFails, StoreCluster, TakeCluster, Goto, mutexVars
<1>6. ASSUME NEW t \in Threads,
             \/ FindStriper(t) \/ CreateFails(t) \/ ForgetCluster(t)
             \/ InsertIoCtx(t) \/ InsertStriper(t)
      PROVE  Kept
  BY <1>6 DEF FindStriper, CreateFails, ForgetCluster, InsertIoCtx, InsertStriper, Goto, mutexVars
<1>7. ASSUME NEW t \in Threads, ReturnStriper(t)
      PROVE  Kept
  <2> HIDE DEF InMutex, MutexHeld
  <2>1. pc[t] = "found" /\ NeedsStriper(t) /\ g_striper_mutex' = Nobody
    BY <1>7 DEF ReturnStriper
  <2>2. g_striper_mutex = t
    BY <2>1 DEF InMutex, MutexHeld
  <2>3. \A u \in Threads : u # t => pc'[u] = pc[u] /\ call'[u] = call[u]
    BY <1>7 DEF ReturnStriper, Goto
  <2>4. \/ pc'[t] = "size" /\ call'[t] = "cluster"
        \/ pc'[t] = "use"
    BY <1>7 DEF ReturnStriper, Goto
  <2>5. ~InMutex(t)'
    BY <2>4 DEF InMutex
  <2>6. \A u \in Threads : u # t => ~InMutex(u)'
    BY <2>2, <2>3 DEF InMutex, MutexHeld
  <2>7. MutexHeld'
    BY <2>1, <2>5, <2>6, PoolAssumption DEF MutexHeld
  <2>8. StriperPart'
    BY <2>3, <2>4
  <2>9. QED
    BY <2>7, <2>8
<1>8. ASSUME NEW t \in Threads, ReturnFailure(t)
      PROVE  Kept
  BY <1>8, PoolAssumption DEF ReturnFailure, Goto
<1>9. ASSUME NEW t \in Threads, Use(t)
      PROVE  Kept
  BY <1>9 DEF Use, Goto, mutexVars
<1>10. CASE DisconnectAll
  BY <1>10 DEF DisconnectAll, mutexVars
<1>11. CASE UNCHANGED vars
  BY <1>11 DEF vars, mutexVars
<1>12. QED
  BY <1>1, <1>2, <1>3, <1>4, <1>5, <1>6, <1>7, <1>8, <1>9, <1>10, <1>11 DEF Next, ThreadNext

\* A step of thread t that leaves the dictionaries alone, in which it neither
\* comes to insert nor ceases to, and creates only what it created before.
LEMMA DictsFrame ==
  ASSUME MInv, NEW t \in Threads,
         UNCHANGED <<g_radosStripers, g_ioCtx, striper, idx, key>>,
         \A u \in Threads : (pc[u] = "insert")' <=> pc[u] = "insert",
         \A u \in Threads : Creating(u)' => Creating(u)
  PROVE  DictsFollow'
BY DEF MInv, DictsFollow

\* Every step keeps the two dictionaries equal but for the entry of the thread
\* that is inserting.
LEMMA StepDicts ==
  ASSUME MInv, [Next]_vars
  PROVE  DictsFollow'
<1>1. ASSUME NEW t \in Threads, NEW c \in Calls, NEW k \in Files, Start(t, c, k)
      PROVE  DictsFollow'
  BY <1>1 DEF Start, Goto, poolVars, MInv, DictTypes, DictsFollow, Creating, NeedsStriper
<1>2. ASSUME NEW t \in Threads, ReadIdx(t)
      PROVE  DictsFollow'
  BY <1>2 DEF ReadIdx, Goto, poolVars, MInv, IInv, DictTypes, DictsFollow, Creating, NeedsStriper
<1>3. ASSUME NEW t \in Threads,
             \/ LockStripers(t) \/ SeeSize(t) \/ LockInit(t) \/ Push(t) \/ UnlockInit(t)
             \/ ReadNext(t) \/ StoreIdx(t) \/ ReturnFailure(t)
      PROVE  DictsFollow'
  BY <1>3, DictsFrame DEF LockStripers, SeeSize, LockInit, Push, UnlockInit, ReadNext, StoreIdx,
                          ReturnFailure, Goto, poolVars, MInv, DictTypes, Creating, NeedsStriper
<1>4. ASSUME NEW t \in Threads,
             \/ CheckCluster(t) \/ Connect(t) \/ ConnectFails(t) \/ StoreCluster(t)
             \/ TakeCluster(t) \/ CreateFails(t) \/ ForgetCluster(t)
      PROVE  DictsFollow'
  BY <1>4, DictsFrame DEF CheckCluster, Connect, ConnectFails, StoreCluster, TakeCluster,
                          CreateFails, ForgetCluster, Goto, poolVars, MInv, DictTypes, Creating, NeedsStriper
<1>5. ASSUME NEW t \in Threads, FindStriper(t)
      PROVE  DictsFollow'
  BY <1>5 DEF FindStriper, Goto, poolVars, MInv, DictTypes, DictsFollow, Creating, NeedsStriper
<1>6. ASSUME NEW t \in Threads, InsertIoCtx(t)
      PROVE  DictsFollow'
  <2> DEFINE i == idx[t]
             k == key[t]
  <2>1. i \in Indices /\ k \in Files /\ g_cluster[i] \in Conns
    BY DEF MInv, IInv, DictTypes
  <2>2. InMutex(t) /\ Creating(t)
    BY <1>6 DEF InsertIoCtx, MInv, StriperPart, InMutex, Creating
  <2>3. \A u \in Threads : pc[u] # "insert"
    <3> SUFFICES ASSUME NEW u \in Threads, pc[u] = "insert" PROVE FALSE
      OBVIOUS
    <3>1. InMutex(u)
      BY DEF MInv, StriperPart, InMutex
    <3>2. u = t
      BY <2>2, <3>1, MutualExclusion DEF MInv
    <3>3. QED
      BY <1>6, <3>2 DEF InsertIoCtx
  <2>4. g_radosStripers[i][k] = 0 /\ g_ioCtx[i][k] = 0
    BY <2>1, <2>2, <2>3 DEF MInv, DictsFollow
  <2>5. /\ g_ioCtx' = [g_ioCtx EXCEPT ![i][k] = g_cluster[i]]
        /\ striper' = [striper EXCEPT ![t] = g_cluster[i]]
        /\ pc' = [pc EXCEPT ![t] = "insert"]
        /\ UNCHANGED <<g_radosStripers, idx, key, call>>
    BY <1>6, <2>4 DEF InsertIoCtx, Inserted, Goto
  <2>6. \A u \in Threads : Creating(u)' => Creating(u)
    BY <2>2, <2>5 DEF MInv, DictTypes, Creating, NeedsStriper
  <2>7. \A u \in Threads : (pc[u] = "insert")' => u = t
    BY <2>3, <2>5 DEF MInv, DictTypes
  <2>8. (g_ioCtx[idx[t]][key[t]] = striper[t])'
    BY <2>1, <2>5 DEF MInv, DictTypes
  <2>9. ASSUME NEW j \in Indices, NEW m \in Files, (g_radosStripers[j][m] # g_ioCtx[j][m])'
        PROVE  (pc[t] = "insert" /\ idx[t] = j /\ key[t] = m)'
    <3>1. CASE j = i /\ m = k
      BY <2>5, <3>1 DEF MInv, DictTypes
    <3>2. CASE ~(j = i /\ m = k)
      <4>1. g_ioCtx'[j][m] = g_ioCtx[j][m]
        BY <2>1, <2>5, <3>2 DEF MInv, DictTypes
      <4>2. QED
        BY <2>3, <2>5, <2>9, <4>1 DEF MInv, DictsFollow
    <3>3. QED
      BY <3>1, <3>2
  <2>10. QED
    BY <2>5, <2>6, <2>7, <2>8, <2>9 DEF MInv, DictsFollow
<1>7. ASSUME NEW t \in Threads, InsertStriper(t)
      PROVE  DictsFollow'
  <2> DEFINE i == idx[t]
             k == key[t]
  <2>1. i \in Indices /\ k \in Files /\ striper[t] \in Conns
    BY DEF MInv, IInv, DictTypes
  <2>2. InMutex(t) /\ Creating(t)
    BY <1>7 DEF InsertStriper, MInv, StriperPart, InMutex, Creating
  <2>3. g_radosStripers[i][k] = 0 /\ g_ioCtx[i][k] = striper[t]
    BY <1>7, <2>2 DEF InsertStriper, MInv, DictsFollow
  <2>4. /\ g_radosStripers' = [g_radosStripers EXCEPT ![i][k] = striper[t]]
        /\ pc' = [pc EXCEPT ![t] = "found"]
        /\ UNCHANGED <<g_ioCtx, striper, idx, key, call>>
    BY <1>7, <2>3 DEF InsertStriper, Inserted, Goto
  <2>5. \A u \in Threads : u # t => ~InMutex(u)
    BY <2>2, MutualExclusion DEF MInv
  <2>6. \A u \in Threads : ~Creating(u)'
    <3>1. \A u \in Threads : Creating(u) => InMutex(u)
      BY DEF Creating, InMutex
    <3>2. ~Creating(t)'
      BY <2>4 DEF MInv, DictTypes, Creating
    <3>3. \A u \in Threads : u # t => (Creating(u)' <=> Creating(u))
      BY <2>4 DEF MInv, DictTypes, Creating, NeedsStriper
    <3>4. QED
      BY <2>5, <3>1, <3>2, <3>3
  <2>7. \A u \in Threads : pc'[u] # "insert"
    <3>1. \A u \in Threads : pc[u] = "insert" => InMutex(u)
      BY DEF MInv, StriperPart, InMutex
    <3>2. QED
      BY <2>4, <2>5, <3>1 DEF MInv, DictTypes
  <2>8. ASSUME NEW j \in Indices, NEW m \in Files
        PROVE  g_radosStripers'[j][m] = g_ioCtx'[j][m]
    <3>1. CASE j = i /\ m = k
      BY <2>1, <2>3, <2>4, <3>1 DEF MInv, DictTypes
    <3>2. CASE ~(j = i /\ m = k)
      <4>1. g_radosStripers'[j][m] = g_radosStripers[j][m]
        BY <2>1, <2>4, <3>2 DEF MInv, DictTypes
      <4>2. ASSUME NEW u \in Threads, pc[u] = "insert"
            PROVE  u = t
        BY <2>5, <4>2 DEF MInv, StriperPart, InMutex
      <4>3. g_radosStripers[j][m] = g_ioCtx[j][m]
        BY <3>2, <4>2 DEF MInv, DictsFollow
      <4>4. QED
        BY <2>4, <4>1, <4>3
    <3>3. QED
      BY <3>1, <3>2
  <2>9. QED
    BY <2>6, <2>7, <2>8 DEF DictsFollow
<1>8. ASSUME NEW t \in Threads, ReturnStriper(t) \/ Use(t)
      PROVE  DictsFollow'
  <2>1. \A u \in Threads : (pc[u] = "insert")' <=> pc[u] = "insert"
    BY <1>8 DEF ReturnStriper, Use, Goto, MInv, DictTypes
  <2>2. \A u \in Threads : Creating(u)' => Creating(u)
    BY <1>8 DEF ReturnStriper, Use, Goto, MInv, DictTypes, Creating, NeedsStriper
  <2>3. \A u \in Threads : pc[u] = "insert" => striper'[u] = striper[u]
    BY <1>8 DEF ReturnStriper, Use, MInv, DictTypes
  <2>4. UNCHANGED <<g_radosStripers, g_ioCtx, idx, key>>
    BY <1>8 DEF ReturnStriper, Use, poolVars
  <2>5. QED
    BY <2>1, <2>2, <2>3, <2>4 DEF MInv, DictsFollow
<1>9. CASE DisconnectAll
  BY <1>9 DEF DisconnectAll, MInv, IInv, DictTypes, DictsFollow, Creating, Empty
<1>10. CASE UNCHANGED vars
  BY <1>10 DEF vars, poolVars, MInv, DictsFollow, Creating, NeedsStriper
<1>11. QED
  BY <1>1, <1>2, <1>3, <1>4, <1>5, <1>6, <1>7, <1>8, <1>9, <1>10 DEF Next, ThreadNext

\* Whatever is done with and without g_striper_mutex, one thread at a time is
\* between taking it and giving it back, and the dictionaries follow each other.
THEOREM PoolInvariance == Spec => []MInv
<1>1. MInv /\ [Next]_vars => MInv'
  BY StepIInv, StepTypes, StepMutex, StepDicts DEF MInv
<1>2. QED
  BY InitMInv, <1>1, PTL DEF Spec

\* Whenever nobody holds g_striper_mutex the two dictionaries are the same, so
\* getIoCtx, which looks for its key among the stripers, finds its IoCtx.
THEOREM DictionariesAgree == Spec => []DictsAgree
<1>1. MInv => DictsAgree
  <2> SUFFICES ASSUME MInv, g_striper_mutex = Nobody PROVE g_radosStripers = g_ioCtx
    BY DEF DictsAgree
  <2>1. \A t \in Threads : ~InMutex(t)
    BY PoolAssumption DEF MInv, MutexHeld
  <2>2. \A t \in Threads : pc[t] # "insert"
    BY <2>1 DEF MInv, StriperPart, InMutex
  <2>3. \A i \in Indices, k \in Files : g_radosStripers[i][k] = g_ioCtx[i][k]
    BY <2>2 DEF MInv, DictsFollow
  <2>4. \A i \in Indices : g_radosStripers[i] = g_ioCtx[i]
    BY <2>3 DEF MInv, DictTypes
  <2>5. QED
    BY <2>4 DEF MInv, DictTypes
<1>2. QED
  BY PoolInvariance, <1>1, PTL
-----------------------------------------------------------------------------
(* g_init_mutex, and the three vectors it lets grow                        *)

\* Between taking g_init_mutex and giving it back.
Allocating(t) == pc[t] \in {"push", "initDone"}

InitHeld == \A t \in Threads : Allocating(t) <=> g_init_mutex = t

MutexTypes ==
  /\ g_striper_mutex \in Threads \cup {Nobody}
  /\ g_init_mutex \in Threads \cup {Nobody}

\* The vectors grow in turn, by the thread that has g_init_mutex alone; when
\* nobody makes them grow they are all empty or all complete.
SizesInTurn ==
  /\ sizes \in [stripers : Nat, ioCtx : Nat, cluster : Nat]
  /\ sizes.cluster <= sizes.ioCtx
  /\ sizes.ioCtx <= sizes.stripers
  /\ sizes.stripers <= sizes.cluster + 1
  /\ sizes.stripers <= g_maxCephPoolIdx
  /\ \/ sizes \in {Sized(0), Sized(g_maxCephPoolIdx)}
     \/ \E t \in Threads : pc[t] = "push"
  /\ \A t \in Threads : pc[t] = "push" => sizes.cluster < g_maxCephPoolIdx
  /\ \A t \in Threads : pc[t] = "initDone" => sizes = Sized(g_maxCephPoolIdx)

SInv == MutexTypes /\ InitHeld /\ SizesInTurn

\* The vectors start empty or complete, and the mutexes free.
LEMMA InitSInv == Init => SInv
<1> SUFFICES ASSUME Init PROVE SInv
  OBVIOUS
<1>1. MutexTypes /\ InitHeld
  BY PoolAssumption DEF Init, MutexTypes, InitHeld, Allocating
<1>2. SizesInTurn
  BY PoolAssumption DEF Init, SizesInTurn, Sized
<1>3. QED
  BY <1>1, <1>2 DEF SInv

\* Both mutexes are given to threads only.
LEMMA StepMutexTypes ==
  ASSUME MutexTypes, [Next]_vars
  PROVE  MutexTypes'
<1>1. ASSUME NEW t \in Threads, NEW c \in Calls, NEW k \in Files, Start(t, c, k)
      PROVE  MutexTypes'
  BY <1>1 DEF Start, mutexVars, MutexTypes
<1>2. ASSUME NEW t \in Threads,
             LockStripers(t) \/ LockInit(t) \/ UnlockInit(t) \/ ReturnStriper(t) \/ ReturnFailure(t)
      PROVE  MutexTypes'
  BY <1>2 DEF LockStripers, LockInit, UnlockInit, ReturnStriper, ReturnFailure, MutexTypes
<1>3. ASSUME NEW t \in Threads,
             \/ SeeSize(t) \/ Push(t) \/ ReadIdx(t) \/ ReadNext(t) \/ StoreIdx(t)
             \/ CheckCluster(t) \/ Connect(t) \/ ConnectFails(t) \/ StoreCluster(t) \/ TakeCluster(t)
             \/ FindStriper(t) \/ CreateFails(t) \/ ForgetCluster(t) \/ InsertIoCtx(t)
             \/ InsertStriper(t) \/ Use(t)
      PROVE  MutexTypes'
  BY <1>3 DEF SeeSize, Push, ReadIdx, ReadNext, StoreIdx, CheckCluster, Connect, ConnectFails,
              StoreCluster, TakeCluster, FindStriper, CreateFails, ForgetCluster, InsertIoCtx,
              InsertStriper, Use, mutexVars, MutexTypes
<1>4. CASE DisconnectAll
  BY <1>4 DEF DisconnectAll, mutexVars, MutexTypes
<1>5. CASE UNCHANGED vars
  BY <1>5 DEF vars, mutexVars, MutexTypes
<1>6. QED
  BY <1>1, <1>2, <1>3, <1>4, <1>5 DEF Next, ThreadNext

\* A step that leaves the vectors and g_init_mutex alone, and moves no thread
\* into or out of the allocation.
LEMMA SizesFrame ==
  ASSUME SInv, UNCHANGED <<g_init_mutex, sizes>>,
         \A u \in Threads : /\ (pc[u] = "push")' <=> pc[u] = "push"
                            /\ (pc[u] = "initDone")' <=> pc[u] = "initDone"
  PROVE  InitHeld' /\ SizesInTurn'
<1>1. InitHeld'
  BY DEF SInv, InitHeld, Allocating
<1>2. SizesInTurn'
  BY DEF SInv, SizesInTurn
<1>3. QED
  BY <1>1, <1>2

\* Every step keeps g_init_mutex with the one thread that allocates, and the
\* vectors in turn.
LEMMA StepSizes ==
  ASSUME SInv, pc \in [Threads -> Pcs], [Next]_vars
  PROVE  InitHeld' /\ SizesInTurn'
<1> DEFINE Kept == InitHeld' /\ SizesInTurn'
<1>1. ASSUME NEW t \in Threads, NEW c \in Calls, NEW k \in Files, Start(t, c, k)
      PROVE  Kept
  BY <1>1, SizesFrame DEF Start, Goto, mutexVars
<1>2. ASSUME NEW t \in Threads,
             \/ LockStripers(t) \/ SeeSize(t) \/ ReadIdx(t) \/ ReadNext(t) \/ StoreIdx(t)
             \/ CheckCluster(t) \/ Connect(t) \/ ConnectFails(t) \/ StoreCluster(t) \/ TakeCluster(t)
      PROVE  Kept
  BY <1>2, SizesFrame DEF LockStripers, SeeSize, ReadIdx, ReadNext, StoreIdx, CheckCluster, Connect,
                          ConnectFails, StoreCluster, TakeCluster, Goto, mutexVars
<1>3. ASSUME NEW t \in Threads,
             \/ FindStriper(t) \/ CreateFails(t) \/ ForgetCluster(t)
             \/ InsertIoCtx(t) \/ InsertStriper(t)
             \/ ReturnStriper(t) \/ ReturnFailure(t) \/ Use(t)
      PROVE  Kept
  BY <1>3, SizesFrame DEF FindStriper, CreateFails, ForgetCluster, InsertIoCtx, InsertStriper, ReturnStriper,
                          ReturnFailure, Use, Goto, mutexVars
<1>4. ASSUME NEW t \in Threads, LockInit(t)
      PROVE  Kept
  <2>1. \A u \in Threads : ~Allocating(u)
    BY <1>4, PoolAssumption DEF LockInit, SInv, InitHeld
  <2>2. sizes \in {Sized(0), Sized(g_maxCephPoolIdx)}
    BY <2>1 DEF SInv, SizesInTurn, Allocating
  <2>3. /\ g_init_mutex' = t /\ sizes' = sizes
        /\ pc' = [pc EXCEPT ![t] = IF sizes.stripers = 0 THEN "push" ELSE "initDone"]
    BY <1>4 DEF LockInit, Goto
  <2>4. InitHeld'
    BY <2>1, <2>3 DEF InitHeld, Allocating
  <2>5. pc'[t] = "push" => sizes = Sized(0)
    BY <2>2, <2>3, PoolAssumption DEF Sized
  <2>6. pc'[t] = "initDone" => sizes = Sized(g_maxCephPoolIdx)
    BY <2>2, <2>3, PoolAssumption DEF Sized
  <2>7. \A u \in Threads : u # t => pc'[u] \notin {"push", "initDone"}
    BY <2>1, <2>3 DEF Allocating
  <2>8. SizesInTurn'
    BY <2>2, <2>3, <2>5, <2>6, <2>7, PoolAssumption DEF SInv, SizesInTurn, Sized
  <2>9. QED
    BY <2>4, <2>8
<1>5. ASSUME NEW t \in Threads, Push(t)
      PROVE  Kept
  <2>1. g_init_mutex = t /\ sizes.cluster < g_maxCephPoolIdx
    BY <1>5 DEF Push, SInv, InitHeld, SizesInTurn, Allocating
  <2>2. \A u \in Threads : u # t => ~Allocating(u)
    BY <2>1 DEF SInv, InitHeld
  <2>3. /\ sizes' = Grown /\ g_init_mutex' = g_init_mutex
        /\ pc' = [pc EXCEPT ![t] = IF lastPush(Grown) THEN "initDone" ELSE "push"]
    BY <1>5 DEF Push, Goto, mutexVars
  <2>4. InitHeld'
    BY <2>1, <2>2, <2>3 DEF InitHeld, Allocating
  <2>5. PICK n \in Nat : n = sizes.cluster
    BY DEF SInv, SizesInTurn
  <2>6. sizes \in {[stripers |-> n, ioCtx |-> n, cluster |-> n],
                   [stripers |-> n + 1, ioCtx |-> n, cluster |-> n],
                   [stripers |-> n + 1, ioCtx |-> n + 1, cluster |-> n]}
    BY <2>5 DEF SInv, SizesInTurn
  <2>7. Grown \in {[stripers |-> n + 1, ioCtx |-> n, cluster |-> n],
                   [stripers |-> n + 1, ioCtx |-> n + 1, cluster |-> n],
                   [stripers |-> n + 1, ioCtx |-> n + 1, cluster |-> n + 1]}
    BY <2>6 DEF Grown
  <2>8. CASE lastPush(Grown)
    <3>1. n + 1 = g_maxCephPoolIdx /\ Grown = Sized(n + 1)
      BY <2>1, <2>5, <2>7, <2>8, PoolAssumption DEF lastPush, Sized
    <3>2. pc'[t] = "initDone" /\ \A u \in Threads : pc'[u] # "push"
      BY <2>2, <2>3, <2>8 DEF Allocating
    <3>3. QED
      BY <2>3, <2>4, <3>1, <3>2, PoolAssumption DEF SizesInTurn, Sized
  <2>9. CASE ~lastPush(Grown)
    <3>1. Grown.cluster < g_maxCephPoolIdx
      BY <2>1, <2>5, <2>7, <2>9, PoolAssumption DEF lastPush
    <3>2. pc'[t] = "push" /\ \A u \in Threads : pc'[u] # "initDone"
      BY <2>2, <2>3, <2>9 DEF Allocating
    <3>3. /\ Grown \in [stripers : Nat, ioCtx : Nat, cluster : Nat]
          /\ Grown.cluster <= Grown.ioCtx /\ Grown.ioCtx <= Grown.stripers
          /\ Grown.stripers <= Grown.cluster + 1 /\ Grown.stripers <= g_maxCephPoolIdx
      BY <2>1, <2>5, <2>7, PoolAssumption
    <3>4. QED
      BY <2>3, <2>4, <3>1, <3>2, <3>3 DEF SizesInTurn
  <2>10. QED
    BY <2>8, <2>9
<1>6. ASSUME NEW t \in Threads, UnlockInit(t)
      PROVE  Kept
  <2>1. g_init_mutex = t /\ sizes = Sized(g_maxCephPoolIdx)
    BY <1>6 DEF UnlockInit, SInv, InitHeld, SizesInTurn, Allocating
  <2>2. \A u \in Threads : u # t => ~Allocating(u)
    BY <2>1 DEF SInv, InitHeld
  <2>3. /\ sizes' = sizes /\ g_init_mutex' = Nobody
        /\ pc' = [pc EXCEPT ![t] = "readIdx"]
    BY <1>6 DEF UnlockInit, Goto
  <2>4. \A u \in Threads : pc'[u] \notin {"push", "initDone"}
    BY <2>2, <2>3 DEF Allocating
  <2>5. InitHeld'
    BY <2>3, <2>4, PoolAssumption DEF InitHeld, Allocating
  <2>6. SizesInTurn'
    BY <2>1, <2>3, <2>4 DEF SInv, SizesInTurn
  <2>7. QED
    BY <2>5, <2>6
<1>7. CASE DisconnectAll
  <2>1. /\ sizes' = Sized(0) /\ g_init_mutex' = g_init_mutex /\ pc' = pc
        /\ \A u \in Threads : pc[u] = "idle"
    BY <1>7 DEF DisconnectAll, mutexVars
  <2>2. InitHeld'
    BY <2>1 DEF SInv, InitHeld, Allocating
  <2>3. SizesInTurn'
    BY <2>1, PoolAssumption DEF SizesInTurn, Sized
  <2>4. QED
    BY <2>2, <2>3
<1>8. CASE UNCHANGED vars
  BY <1>8, SizesFrame DEF vars, mutexVars
<1>9. QED
  BY <1>1, <1>2, <1>3, <1>4, <1>5, <1>6, <1>7, <1>8 DEF Next, ThreadNext

\* Whatever threads start at once on a cold pool, the vectors are allocated
\* once, in turn, to the size of the pool and never past it.
THEOREM VectorsInTurn == Spec => [](MInv /\ SInv)
<1>1. MInv /\ SInv /\ [Next]_vars => (MInv /\ SInv)'
  BY StepIInv, StepTypes, StepMutex, StepDicts, StepMutexTypes, StepSizes
  DEF MInv, SInv, DictTypes
<1>2. QED
  BY InitMInv, InitSInv, <1>1, PTL DEF Spec

\* Every variable keeps to its type: no vector outgrows the pool, no thread
\* gets an index that is not a number, and no connection is unheard of.
THEOREM PoolTypes == Spec => []TypeOK
<1>1. MInv /\ SInv => TypeOK
  <2> SUFFICES ASSUME MInv, SInv PROVE TypeOK
    OBVIOUS
  <2>1. sizes \in [stripers : 0 .. g_maxCephPoolIdx, ioCtx : 0 .. g_maxCephPoolIdx,
                   cluster : 0 .. g_maxCephPoolIdx]
    BY PoolAssumption DEF SInv, SizesInTurn
  <2>2. /\ g_cephPoolIdx \in Nat
        /\ idx \in [Threads -> Nat]
        /\ nextValue \in [Threads -> Nat]
    BY PoolAssumption DEF MInv, IInv, Indices
  <2>3. QED
    BY <2>1, <2>2 DEF TypeOK, MInv, DictTypes, SInv, MutexTypes, Conns
<1>2. QED
  BY VectorsInTurn, <1>1, PTL
-----------------------------------------------------------------------------
(* A connection is deleted once, also when creations fail and threads that   *)
(* take no mutex fill the slots at the same time                             *)

\* A thread that has made a connection has it to itself until it is in its
\* slot; no connection is in two slots; one that a creation of a striper may
\* take down is there, and in no slot but the creation's own; and what is in a
\* slot is there, unless the creation that took it down is about to empty it.
DInv ==
  /\ connections \in Nat
  /\ deleted \subseteq 1 .. connections
  /\ \A i \in Indices : g_cluster[i] \in 0 .. connections
  /\ \A i, j \in Indices : g_cluster[i] # 0 /\ g_cluster[i] = g_cluster[j] => i = j
  /\ \A i \in Indices : g_cluster[i] # 0 =>
       Live(g_cluster[i]) \/ \E t \in Threads : pc[t] = "forget" /\ idx[t] = i
  /\ \A t \in Threads : pc[t] \in {"store", "create"} => Live(cluster[t])
  /\ \A t \in Threads : pc[t] = "store" => \A i \in Indices : g_cluster[i] # cluster[t]
  /\ \A t, u \in Threads :
       pc[t] = "store" /\ pc[u] \in {"store", "create"} /\ cluster[t] = cluster[u] => t = u
  /\ \A t \in Threads : pc[t] = "create" =>
       \A i \in Indices : g_cluster[i] = cluster[t] => i = idx[t]
  /\ \A t \in Threads : pc[t] = "take" /\ NeedsStriper(t) => g_cluster[idx[t]] # 0

\* A step that makes, stores and deletes no connection, and comes no nearer to
\* doing so.
LEMMA ConnectionsFrame ==
  ASSUME DInv, UNCHANGED <<g_cluster, connections, deleted>>,
         \A t \in Threads :
           /\ pc'[t] \in {"store", "create"}
                => pc'[t] = pc[t] /\ idx'[t] = idx[t] /\ cluster'[t] = cluster[t]
           /\ pc[t] = "forget" => pc'[t] = "forget" /\ idx'[t] = idx[t]
           /\ pc'[t] = "take" /\ NeedsStriper(t)' =>
                \/ pc[t] = "take" /\ NeedsStriper(t) /\ idx'[t] = idx[t]
                \/ g_cluster[idx'[t]] # 0
  PROVE  DInv'
BY DEF DInv, Live

\* Every step keeps it: only the thread in g_striper_mutex deletes, and only
\* what it found in its slot.
LEMMA StepDInv ==
  ASSUME MInv, DInv, [Next]_vars
  PROVE  DInv'
<1> USE DEF DictTypes
<1>a. /\ pc \in [Threads -> Pcs] /\ call \in [Threads -> CallKinds]
      /\ MutexHeld /\ StriperPart
      /\ idx \in [Threads -> Indices]
      /\ cluster \in [Threads -> Conns]
      /\ g_cluster \in [Indices -> Conns]
  BY DEF MInv, IInv
<1>1. ASSUME NEW t \in Threads, NEW c \in Calls, NEW k \in Files, Start(t, c, k)
      PROVE  DInv'
  BY <1>1, <1>a, ConnectionsFrame DEF Start, Goto, poolVars, NeedsStriper
<1>2. ASSUME NEW t \in Threads,
             \/ LockStripers(t) \/ SeeSize(t) \/ LockInit(t) \/ Push(t) \/ UnlockInit(t)
             \/ ReadIdx(t) \/ ReadNext(t) \/ StoreIdx(t) \/ FindStriper(t)
      PROVE  DInv'
  BY <1>2, <1>a, ConnectionsFrame
  DEF LockStripers, SeeSize, LockInit, Push, UnlockInit, ReadIdx, ReadNext, StoreIdx, FindStriper,
      Goto, poolVars, NeedsStriper
<1>3. ASSUME NEW t \in Threads, InsertIoCtx(t) \/ InsertStriper(t)
      PROVE  DInv'
  BY <1>3, <1>a, ConnectionsFrame DEF InsertIoCtx, InsertStriper, Goto, NeedsStriper
<1>4. ASSUME NEW t \in Threads, ReturnStriper(t)
      PROVE  DInv'
  <2>1. /\ pc'[t] \in {"size", "use"}
        /\ \A u \in Threads : u # t => pc'[u] = pc[u] /\ call'[u] = call[u]
                                        /\ cluster'[u] = cluster[u]
        /\ pc[t] = "found"
        /\ UNCHANGED <<g_cluster, connections, deleted, idx>>
    BY <1>4, <1>a DEF ReturnStriper, Goto, poolVars
  <2>2. QED
    BY <1>a, <2>1, ConnectionsFrame DEF NeedsStriper
<1>5. ASSUME NEW t \in Threads, ReturnFailure(t) \/ Use(t) \/ ConnectFails(t) \/ CheckCluster(t)
      PROVE  DInv'
  BY <1>5, <1>a, ConnectionsFrame
  DEF ReturnFailure, Use, ConnectFails, CheckCluster, Goto, poolVars, NeedsStriper
<1>6. ASSUME NEW t \in Threads, Connect(t)
      PROVE  DInv'
  <2>0. PICK made \in Nat : made = connections + 1
    BY DEF DInv
  <2>1. /\ pc[t] = "connect" /\ pc' = [pc EXCEPT ![t] = "store"]
        /\ connections' = made
        /\ cluster' = [cluster EXCEPT ![t] = made]
        /\ UNCHANGED <<g_cluster, deleted, idx, call>>
    BY <1>6, <2>0 DEF Connect, Goto
  <2>2. \A c : Live(c) => Live(c)' /\ c # made
    BY <2>0, <2>1 DEF Live, DInv
  <2>3. Live(made)'
    BY <2>0, <2>1 DEF Live, DInv
  <2>4. \A i \in Indices : g_cluster[i] # made
    BY <2>0 DEF DInv
  <2>5. /\ (connections \in Nat /\ deleted \subseteq 1 .. connections)'
        /\ \A i \in Indices : g_cluster'[i] \in 0 .. connections'
    BY <2>0, <2>1 DEF DInv
  <2>6. \A u \in Threads : u # t => pc'[u] = pc[u] /\ cluster'[u] = cluster[u]
    BY <1>a, <2>1
  <2>7. pc'[t] = "store" /\ cluster'[t] = made
    BY <1>a, <2>1, <2>0 DEF Conns
  <2>8. \A u, w \in Threads :
          pc'[u] = "store" /\ pc'[w] \in {"store", "create"} /\ cluster'[u] = cluster'[w] => u = w
    BY <2>2, <2>6, <2>7 DEF DInv
  <2>9. \A u \in Threads : pc'[u] = "take" /\ NeedsStriper(u)' => g_cluster'[idx'[u]] # 0
    BY <2>1, <2>6, <2>7 DEF DInv, NeedsStriper
  <2>10. \A i \in Indices : g_cluster'[i] # 0 =>
           Live(g_cluster[i])' \/ \E u \in Threads : pc'[u] = "forget" /\ idx'[u] = i
    BY <2>1, <2>2, <2>6 DEF DInv
  <2>11. \A u \in Threads : pc'[u] \in {"store", "create"} => Live(cluster[u])'
    BY <2>2, <2>3, <2>6, <2>7 DEF DInv
  <2>12. \A u \in Threads : pc'[u] = "store" => \A i \in Indices : g_cluster'[i] # cluster'[u]
    BY <2>1, <2>4, <2>6, <2>7 DEF DInv
  <2>13. \A u \in Threads : pc'[u] = "create" =>
           \A i \in Indices : g_cluster'[i] = cluster'[u] => i = idx'[u]
    BY <2>1, <2>6, <2>7 DEF DInv
  <2>14. \A i, j \in Indices : g_cluster'[i] # 0 /\ g_cluster'[i] = g_cluster'[j] => i = j
    BY <2>1 DEF DInv
  <2>15. QED
    BY <2>5, <2>8, <2>9, <2>10, <2>11, <2>12, <2>13, <2>14 DEF DInv
<1>7. ASSUME NEW t \in Threads, StoreCluster(t)
      PROVE  DInv'
  <2> DEFINE n == idx[t]
             made == cluster[t]
  <2>1. /\ pc[t] = "store" /\ pc' = [pc EXCEPT ![t] = "take"]
        /\ g_cluster' = [g_cluster EXCEPT ![n] = made]
        /\ UNCHANGED <<connections, deleted, call, idx, cluster>>
    BY <1>7 DEF StoreCluster, Goto
  <2>2. n \in Indices /\ Live(made) /\ made \in 1 .. connections
    BY <1>a, <2>1 DEF DInv, Live
  <2>3. \A i \in Indices : g_cluster'[i] = IF i = n THEN made ELSE g_cluster[i]
    BY <1>a, <2>1, <2>2
  <2>4. \A i \in Indices : g_cluster[i] # made
    BY <2>1 DEF DInv
  <2>5. \A u \in Threads : u # t /\ pc[u] \in {"store", "create"} => cluster[u] # made
    BY <2>1 DEF DInv
  <2>6. pc'[t] = "take" /\ \A u \in Threads : u # t => pc'[u] = pc[u]
    BY <1>a, <2>1
  <2>7. \A c : Live(c)' <=> Live(c)
    BY <2>1 DEF Live
  <2>8. made # 0
    BY <2>2 DEF DInv
  <2>9. \A i \in Indices : g_cluster'[i] \in 0 .. connections'
    BY <2>1, <2>2, <2>3 DEF DInv
  <2>10. \A i, j \in Indices : g_cluster'[i] # 0 /\ g_cluster'[i] = g_cluster'[j] => i = j
    BY <2>3, <2>4 DEF DInv
  <2>11. \A i \in Indices : g_cluster'[i] # 0 =>
           Live(g_cluster[i])' \/ \E u \in Threads : pc'[u] = "forget" /\ idx'[u] = i
    <3> SUFFICES ASSUME NEW i \in Indices, g_cluster'[i] # 0, ~Live(g_cluster'[i])
                 PROVE  \E u \in Threads : pc'[u] = "forget" /\ idx'[u] = i
      BY <2>1, <2>7 DEF Live
    <3>1. i # n /\ g_cluster'[i] = g_cluster[i]
      BY <2>2, <2>3
    <3>2. PICK u \in Threads : pc[u] = "forget" /\ idx[u] = i
      BY <3>1 DEF DInv
    <3>3. QED
      BY <2>1, <2>6, <3>2
  <2>12. \A u \in Threads : pc'[u] \in {"store", "create"} => Live(cluster[u])'
    BY <2>1, <2>6 DEF DInv, Live
  <2>13. \A u \in Threads : pc'[u] = "store" => \A i \in Indices : g_cluster'[i] # cluster'[u]
    BY <2>1, <2>3, <2>5, <2>6 DEF DInv
  <2>14. \A u, w \in Threads :
           pc'[u] = "store" /\ pc'[w] \in {"store", "create"} /\ cluster'[u] = cluster'[w] => u = w
    BY <2>1, <2>6 DEF DInv
  <2>15. \A u \in Threads : pc'[u] = "create" =>
           \A i \in Indices : g_cluster'[i] = cluster'[u] => i = idx'[u]
    BY <2>1, <2>3, <2>5, <2>6 DEF DInv
  <2>16. \A u \in Threads : pc'[u] = "take" /\ NeedsStriper(u)' => g_cluster'[idx'[u]] # 0
    BY <1>a, <2>1, <2>3, <2>6, <2>8 DEF DInv, NeedsStriper
  <2>17. QED
    BY <2>1, <2>9, <2>10, <2>11, <2>12, <2>13, <2>14, <2>15, <2>16 DEF DInv
<1>8. ASSUME NEW t \in Threads, TakeCluster(t)
      PROVE  DInv'
  <2> DEFINE n == idx[t]
  <2>1. /\ pc[t] = "take"
        /\ pc' = [pc EXCEPT ![t] = IF NeedsStriper(t) THEN "create" ELSE "use"]
        /\ cluster' = [cluster EXCEPT ![t] = g_cluster[n]]
        /\ UNCHANGED <<g_cluster, connections, deleted, call, idx>>
    BY <1>8 DEF TakeCluster, Goto, poolVars
  <2>2. CASE ~NeedsStriper(t)
    BY <1>a, <2>1, <2>2, ConnectionsFrame DEF NeedsStriper
  <2>3. CASE NeedsStriper(t)
    <3>1. n \in Indices /\ g_cluster[n] # 0
      BY <1>a, <2>1, <2>3 DEF DInv
    <3>2. InMutex(t)
      BY <2>1, <2>3 DEF InMutex
    <3>3. \A u \in Threads : pc[u] \in {"forget", "create"} => u = t
      BY <1>a, <3>2, MutualExclusion DEF StriperPart, InMutex
    <3>4. Live(g_cluster[n])
      BY <2>1, <3>1, <3>3 DEF DInv
    <3>5. /\ pc'[t] = "create" /\ cluster'[t] = g_cluster[n]
          /\ \A u \in Threads : u # t => pc'[u] = pc[u] /\ cluster'[u] = cluster[u]
      BY <1>a, <2>1, <2>3
    <3>6. \A u \in Threads : pc'[u] \in {"store", "create"} => Live(cluster[u])'
      BY <2>1, <3>4, <3>5 DEF DInv, Live
    <3>7. \A i \in Indices : g_cluster'[i] # 0 =>
            Live(g_cluster[i])' \/ \E u \in Threads : pc'[u] = "forget" /\ idx'[u] = i
      BY <2>1, <3>5 DEF DInv, Live
    <3>8. \A u, w \in Threads :
            pc'[u] = "store" /\ pc'[w] \in {"store", "create"} /\ cluster'[u] = cluster'[w] => u = w
      BY <3>1, <3>5 DEF DInv
    <3>9. \A u \in Threads : pc'[u] = "store" => \A i \in Indices : g_cluster'[i] # cluster'[u]
      BY <2>1, <3>5 DEF DInv
    <3>10. \A u \in Threads : pc'[u] = "create" =>
             \A i \in Indices : g_cluster'[i] = cluster'[u] => i = idx'[u]
      BY <2>1, <3>1, <3>5 DEF DInv
    <3>11. \A u \in Threads : pc'[u] = "take" /\ NeedsStriper(u)' => g_cluster'[idx'[u]] # 0
      BY <2>1, <3>5 DEF DInv, NeedsStriper
    <3>12. QED
      BY <2>1, <3>6, <3>7, <3>8, <3>9, <3>10, <3>11 DEF DInv
  <2>4. QED
    BY <2>2, <2>3
<1>9. ASSUME NEW t \in Threads, CreateFails(t)
      PROVE  DInv'
  <2> DEFINE n == idx[t]
             gone == cluster[t]
  <2>1. /\ pc[t] = "create" /\ pc' = [pc EXCEPT ![t] = "forget"]
        /\ deleted' = deleted \cup {gone}
        /\ cluster' = [cluster EXCEPT ![t] = 0]
        /\ UNCHANGED <<g_cluster, connections, call, idx>>
    BY <1>9 DEF CreateFails, Goto
  <2>2. n \in Indices /\ Live(gone)
    BY <1>a, <2>1 DEF DInv
  <2>3. InMutex(t)
    BY <1>a, <2>1 DEF StriperPart, InMutex
  <2>4. \A u \in Threads : pc[u] = "create" => u = t
    BY <1>a, <2>3, MutualExclusion DEF StriperPart, InMutex
  <2>5. /\ pc'[t] = "forget" /\ idx'[t] = n
        /\ \A u \in Threads : u # t => pc'[u] = pc[u] /\ cluster'[u] = cluster[u]
    BY <1>a, <2>1
  <2>6. \A c : Live(c) /\ c # gone => Live(c)'
    BY <2>1 DEF Live
  <2>7. \A u \in Threads : pc[u] = "store" => cluster[u] # gone
    BY <2>1 DEF DInv
  <2>8. \A i \in Indices : g_cluster[i] = gone => i = n
    BY <2>1 DEF DInv
  <2>9. deleted' \subseteq 1 .. connections'
    BY <2>1, <2>2 DEF DInv, Live
  <2>10. \A i \in Indices : g_cluster'[i] # 0 =>
           Live(g_cluster[i])' \/ \E u \in Threads : pc'[u] = "forget" /\ idx'[u] = i
    <3> SUFFICES ASSUME NEW i \in Indices, g_cluster[i] # 0, i # n
                 PROVE  Live(g_cluster[i])' \/ \E u \in Threads : pc'[u] = "forget" /\ idx'[u] = i
      BY <2>1, <2>5
    <3>1. CASE Live(g_cluster[i])
      BY <2>1, <2>6, <2>8, <3>1
    <3>2. CASE \E u \in Threads : pc[u] = "forget" /\ idx[u] = i
      BY <2>1, <2>5, <3>2
    <3>3. QED
      BY <3>1, <3>2 DEF DInv
  <2>11. \A u \in Threads : pc'[u] \in {"store", "create"} => Live(cluster[u])'
    BY <2>4, <2>5, <2>6, <2>7 DEF DInv
  <2>12. \A u \in Threads : pc'[u] = "store" => \A i \in Indices : g_cluster'[i] # cluster'[u]
    BY <2>1, <2>5 DEF DInv
  <2>13. \A u, w \in Threads :
           pc'[u] = "store" /\ pc'[w] \in {"store", "create"} /\ cluster'[u] = cluster'[w] => u = w
    BY <2>5 DEF DInv
  <2>14. \A u \in Threads : pc'[u] # "create"
    BY <2>4, <2>5
  <2>15. \A u \in Threads : pc'[u] = "take" /\ NeedsStriper(u)' => g_cluster'[idx'[u]] # 0
    BY <2>1, <2>5 DEF DInv, NeedsStriper
  <2>16. QED
    BY <2>1, <2>9, <2>10, <2>11, <2>12, <2>13, <2>14, <2>15 DEF DInv
<1>10. ASSUME NEW t \in Threads, ForgetCluster(t)
       PROVE  DInv'
  <2> DEFINE n == idx[t]
  <2>1. /\ pc[t] = "forget" /\ pc' = [pc EXCEPT ![t] = "failed"]
        /\ g_cluster' = [g_cluster EXCEPT ![n] = 0]
        /\ UNCHANGED <<connections, deleted, call, idx, cluster>>
    BY <1>10 DEF ForgetCluster, Goto
  <2>2. InMutex(t)
    BY <1>a, <2>1 DEF StriperPart, InMutex
  <2>3. \A u \in Threads : u # t => pc[u] # "forget" /\ ~(pc[u] = "take" /\ NeedsStriper(u))
    BY <1>a, <2>2, MutualExclusion DEF StriperPart, InMutex
  <2>4. \A i \in Indices : g_cluster'[i] = IF i = n THEN 0 ELSE g_cluster[i]
    BY <1>a, <2>1
  <2>5. pc'[t] = "failed" /\ \A u \in Threads : u # t => pc'[u] = pc[u]
    BY <1>a, <2>1
  <2>6. \A i \in Indices : g_cluster'[i] # 0 => Live(g_cluster[i])'
    BY <2>1, <2>3, <2>4 DEF DInv, Live
  <2>7. \A u \in Threads : ~(pc'[u] = "take" /\ NeedsStriper(u)')
    BY <2>1, <2>3, <2>5 DEF NeedsStriper
  <2>8. \A u \in Threads : pc'[u] \in {"store", "create"} => pc[u] = pc'[u]
    BY <2>5
  <2>9. \A u \in Threads : pc'[u] = "store" => \A i \in Indices : g_cluster'[i] # cluster'[u]
    <3> SUFFICES ASSUME NEW u \in Threads, pc'[u] = "store", NEW i \in Indices
                 PROVE  g_cluster'[i] # cluster[u]
      BY <2>1
    <3>1. Live(cluster[u]) /\ g_cluster[i] # cluster[u]
      BY <2>8 DEF DInv
    <3>2. cluster[u] # 0
      BY <3>1 DEF Live, DInv
    <3>3. QED
      BY <2>4, <3>1, <3>2
  <2>10. \A u \in Threads : pc'[u] = "create" =>
           \A i \in Indices : g_cluster'[i] = cluster'[u] => i = idx'[u]
    <3> SUFFICES ASSUME NEW u \in Threads, pc'[u] = "create", NEW i \in Indices,
                        g_cluster'[i] = cluster[u]
                 PROVE  i = idx[u]
      BY <2>1
    <3>1. pc[u] = "create" /\ Live(cluster[u])
      BY <2>8 DEF DInv
    <3>2. cluster[u] # 0
      BY <3>1 DEF Live, DInv
    <3>3. QED
      BY <2>4, <3>1, <3>2 DEF DInv
  <2>11. /\ \A i \in Indices : g_cluster'[i] \in 0 .. connections'
         /\ \A i, j \in Indices : g_cluster'[i] # 0 /\ g_cluster'[i] = g_cluster'[j] => i = j
    BY <2>1, <2>4 DEF DInv
  <2>12. \A u, w \in Threads :
           pc'[u] = "store" /\ pc'[w] \in {"store", "create"} /\ cluster'[u] = cluster'[w] => u = w
    BY <2>1, <2>8 DEF DInv
  <2>13. \A u \in Threads : pc'[u] \in {"store", "create"} => Live(cluster[u])'
    BY <2>1, <2>8 DEF DInv, Live
  <2>14. QED
    BY <2>1, <2>6, <2>7, <2>9, <2>10, <2>11, <2>12, <2>13 DEF DInv
<1>11. CASE DisconnectAll
  <2>1. /\ \A t \in Threads : pc'[t] = "idle"
        /\ deleted' = deleted \cup ({g_cluster[i] : i \in Indices} \ {0})
        /\ g_cluster' = [i \in Indices |-> 0]
        /\ connections' = connections
    BY <1>11 DEF DisconnectAll
  <2>2. deleted' \subseteq 1 .. connections'
    <3>1. deleted \subseteq 1 .. connections
      BY DEF DInv
    <3>2. \A i \in Indices : g_cluster[i] \in 0 .. connections
      BY DEF DInv
    <3>3. connections \in Nat
      BY DEF MInv, DInv, TypeOK
    <3>4. ({g_cluster[i] : i \in Indices} \ {0}) \subseteq 1 .. connections
      BY <3>2, <3>3
    <3>5. QED
      BY ONLY <2>1, <3>1, <3>4
  <2>3. QED
    BY <2>1, <2>2 DEF DInv
<1>12. CASE UNCHANGED vars
  BY <1>12, <1>a, ConnectionsFrame DEF vars, poolVars, NeedsStriper
<1>13. QED
  BY <1>1, <1>2, <1>3, <1>4, <1>5, <1>6, <1>7, <1>8, <1>9, <1>10, <1>11, <1>12 DEF Next, ThreadNext

\* No connection is shut down and deleted twice, whatever creations fail and
\* however many threads connect for the same slot outside g_striper_mutex.
THEOREM ConnectionsDeletedOnce == Spec => []DeletedOnce
<1>1. Init => DInv
  BY DEF Init, DInv
<1>2. MInv /\ DInv /\ [Next]_vars => DInv'
  BY StepDInv
<1>3. MInv /\ DInv => DeletedOnce
  <2> SUFFICES ASSUME MInv, DInv PROVE DeletedOnce
    OBVIOUS
  <2>1. g_striper_mutex = Nobody => \A t \in Threads : pc[t] # "forget"
    BY PoolAssumption DEF MInv, MutexHeld, StriperPart, InMutex
  <2>2. QED
    BY <2>1 DEF DInv, DeletedOnce
<1>4. QED
  BY PoolInvariance, <1>1, <1>2, <1>3, PTL DEF Spec
=============================================================================
