----------------------------- MODULE CephStream -----------------------------
(***************************************************************************)
(* The calls that keep a position in an open file: ceph_posix_read, write, *)
(* lseek and lseek64, with the ftruncate that may come between them.       *)
(*                                                                         *)
(* The position is CephFileRef::offset.  A write moves it with no lock at  *)
(* all and locks statsMutex afterwards, for the counters; a read moves it  *)
(* under statsMutex; a seek never locks.  All of them hand it to the store *)
(* first, unlocked.  A thread that has a descriptor to itself cannot tell  *)
(* the difference; threads that share one can.                             *)
(*                                                                         *)
(* A step is one request to the store, or one read or write of the offset, *)
(* with what a thread does to the counters inside statsMutex.              *)
(***************************************************************************)
EXTENDS ObjectBytes

CONSTANTS
  Threads, Fds, Objects,
  ObjectOf,     \* ObjectOf[fd]: the object fd was opened on
  MayCall,      \* the triples <<thread, fd, operation>> that the program makes
  Counts,       \* sizes of transfers and truncations
  Seeks,        \* arguments of lseek
  NbOffset,     \* number of values of uint64_t: 2^64 in the code
  MaxObject,    \* the longest object the store keeps
  MaxCalls,     \* MaxCalls[t]: bound on the calls thread t makes
  Nobody,       \* no thread
  EIO, EINVAL   \* error numbers

Ops == {"read", "write", "lseek", "ftruncate"}

ASSUME StreamAssumption ==
  /\ Fds # {}
  /\ ObjectOf \in [Fds -> Objects]
  /\ MayCall \subseteq Threads \X Fds \X Ops
  /\ Counts \subseteq Nat
  /\ Seeks \subseteq Int /\ \A d \in Seeks : -NbOffset <= 2 * d /\ 2 * d < NbOffset
  /\ MaxCalls \in [Threads -> Nat]
  /\ {NbOffset, MaxObject, EIO, EINVAL} \subseteq Nat \ {0}
  /\ 2 * MaxObject < NbOffset
  /\ Nobody \notin Threads

VARIABLES
  offset,     \* offset[fd]: fr->offset
  stats,      \* stats[fd]: the counters that these calls update
  mutex,      \* mutex[fd]: who holds statsMutex in a section of several steps
  bytes,      \* bytes[o]: the content of the object o in the store
  pc,         \* pc[t]: where the call of thread t has got to
  call,       \* call[t]: the call itself, with rc, the bytes it transferred
              \* or those by which it moves the offset
  seen,       \* seen[t]: the offset t has loaded
  calls,      \* calls[t]: number of calls t has made
  answer,     \* answer[fd]: what the last call on fd returned
  moved       \* moved[fd]: history of what the store transferred for fd

vars == <<offset, stats, mutex, bytes, pc, call, seen, calls, answer, moved>>

WithoutWrapping(n) == n

\* Arithmetic of uint64_t.
Uint64(n) == n % NbOffset

\* A uint64_t returned as an off64_t.
Signed(n) == IF 2 * n < NbOffset THEN n ELSE n - NbOffset

Larger(a, b) == IF a > b THEN a ELSE b

NoCall == [fd |-> CHOOSE fd \in Fds : TRUE, op |-> "lseek", rc |-> 0]

Begin(t, fd, op) ==
  /\ pc[t] = "idle"
  /\ <<t, fd, op>> \in MayCall
  /\ calls[t] < MaxCalls[t]
  /\ calls' = [calls EXCEPT ![t] = @ + 1]

Return(t, fd, rc) ==
  /\ pc' = [pc EXCEPT ![t] = "idle"]
  /\ answer' = [answer EXCEPT ![fd] = rc]

-----------------------------------------------------------------------------
(* The request to the store, at the offset as it is then                   *)

\* A call that the access mode of its descriptor forbids changes nothing and
\* is left out of MayCall, as are calls on a descriptor that is not open.
\* A write at an offset beyond what the store keeps fails, and any may.
WriteStore(t, fd, count) ==
  /\ Begin(t, fd, "write")
  /\ offset[fd] + count <= MaxObject
  /\ bytes' = [bytes EXCEPT ![ObjectOf[fd]] = Overwritten(@, offset[fd], count, fd)]
  /\ moved' = [moved EXCEPT ![fd].written = @ + count,
                            ![fd].end = IF count = 0 THEN @ ELSE Larger(@, offset[fd] + count)]
  /\ call' = [call EXCEPT ![t] = [fd |-> fd, op |-> "write", rc |-> count]]
  /\ pc' = [pc EXCEPT ![t] = "load"]
  /\ UNCHANGED <<offset, stats, mutex, seen, answer>>

ReadStore(t, fd, count) ==
  LET rc == Available(bytes[ObjectOf[fd]], offset[fd], count)
  IN  /\ Begin(t, fd, "read")
      /\ offset[fd] <= MaxObject
      /\ moved' = [moved EXCEPT ![fd].read = @ + rc]
      /\ call' = [call EXCEPT ![t] = [fd |-> fd, op |-> "read", rc |-> rc]]
      /\ pc' = [pc EXCEPT ![t] = "lock"]
      /\ UNCHANGED <<offset, stats, mutex, bytes, seen, answer>>

StoreFailsButMoves(t, fd) ==
  /\ \/ Begin(t, fd, "write")
     \/ Begin(t, fd, "read")
     \/ Begin(t, fd, "ftruncate")
  /\ Return(t, fd, -EIO)
  /\ offset' = [offset EXCEPT ![fd] = Uint64(@ + 1)]
  /\ UNCHANGED <<stats, mutex, bytes, call, seen, moved>>

\* An error is returned at once.
StoreFails(t, fd) ==
  /\ \/ Begin(t, fd, "write")
     \/ Begin(t, fd, "read")
     \/ Begin(t, fd, "ftruncate")
  /\ Return(t, fd, -EIO)
  /\ UNCHANGED <<offset, stats, mutex, bytes, call, seen, moved>>

\* ftruncate asks the store and leaves the offset and the counters alone.
Truncate(t, fd, size) ==
  /\ Begin(t, fd, "ftruncate")
  /\ size <= MaxObject
  /\ bytes' = [bytes EXCEPT ![ObjectOf[fd]] = Resized(@, size)]
  /\ Return(t, fd, 0)
  /\ UNCHANGED <<offset, stats, mutex, call, seen, moved>>

-----------------------------------------------------------------------------
(* After the request                                                       *)

lockForCountersOnly(t) ==
  /\ pc[t] = "lock"
  /\ pc' = [pc EXCEPT ![t] = "load"]
  /\ UNCHANGED <<offset, stats, mutex, bytes, call, seen, calls, answer, moved>>

\* A read locks statsMutex before it moves the offset.
Lock(t) ==
  LET fd == call[t].fd
  IN  /\ pc[t] = "lock"
      /\ mutex[fd] = Nobody
      /\ mutex' = [mutex EXCEPT ![fd] = t]
      /\ pc' = [pc EXCEPT ![t] = "load"]
      /\ UNCHANGED <<offset, stats, bytes, call, seen, calls, answer, moved>>

\* offset += rc, of a uint64_t that is not atomic.
LoadOffset(t) ==
  /\ pc[t] = "load"
  /\ seen' = [seen EXCEPT ![t] = offset[call[t].fd]]
  /\ pc' = [pc EXCEPT ![t] = "store"]
  /\ UNCHANGED <<offset, stats, mutex, bytes, call, calls, answer, moved>>

StoreOffset(t) ==
  /\ pc[t] = "store"
  /\ offset' = [offset EXCEPT ![call[t].fd] = Uint64(seen[t] + call[t].rc)]
  /\ pc' = [pc EXCEPT ![t] = IF call[t].op = "lseek" THEN "tell" ELSE "count"]
  /\ UNCHANGED <<stats, mutex, bytes, call, seen, calls, answer, moved>>

Done(t, rc) ==
  /\ Return(t, call[t].fd, rc)
  /\ call' = [call EXCEPT ![t] = NoCall]
  /\ seen' = [seen EXCEPT ![t] = 0]

\* A write locks statsMutex here, once it has moved the offset, and goes on with
\* it unless the offset is zero; a read has it.  (The numbers of reads and
\* writes, which are only logged, are left out.)
Count(t) ==
  LET fd == call[t].fd
      rc == call[t].rc
      writes == call[t].op = "write"
  IN  /\ pc[t] = "count"
      /\ mutex[fd] \in {t, Nobody}
      /\ stats' = [stats EXCEPT ![fd].bytesWritten = IF writes THEN Uint64(@ + rc) ELSE @]
      /\ IF writes /\ offset[fd] # 0
           THEN /\ mutex' = [mutex EXCEPT ![fd] = t]
                /\ pc' = [pc EXCEPT ![t] = "reach"]
                /\ UNCHANGED <<call, seen, answer>>
           ELSE /\ mutex' = [mutex EXCEPT ![fd] = Nobody]
                /\ Done(t, rc)
      /\ UNCHANGED <<offset, bytes, calls, moved>>

reachOfCount(t) == Uint64(call[t].rc - 1)

\* The end of the write is taken from the offset, which is read once more.
reachOf(t) == Uint64(offset[call[t].fd] - 1)

Reach(t) ==
  LET fd == call[t].fd
  IN  /\ pc[t] = "reach"
      /\ stats' = [stats EXCEPT ![fd].maxOffsetWritten = Larger(@, reachOf(t))]
      /\ mutex' = [mutex EXCEPT ![fd] = Nobody]
      /\ Done(t, call[t].rc)
      /\ UNCHANGED <<offset, bytes, calls, moved>>

-----------------------------------------------------------------------------
(* Seeks                                                                   *)

SeekSet(t, fd, to) ==
  /\ Begin(t, fd, "lseek")
  /\ offset' = [offset EXCEPT ![fd] = Uint64(to)]
  /\ call' = [call EXCEPT ![t] = [fd |-> fd, op |-> "lseek", rc |-> 0]]
  /\ pc' = [pc EXCEPT ![t] = "tell"]
  /\ UNCHANGED <<stats, mutex, bytes, seen, answer, moved>>

\* fr.offset += offset, which LoadOffset and StoreOffset do.
SeekCur(t, fd, by) ==
  /\ Begin(t, fd, "lseek")
  /\ call' = [call EXCEPT ![t] = [fd |-> fd, op |-> "lseek", rc |-> by]]
  /\ pc' = [pc EXCEPT ![t] = "load"]
  /\ UNCHANGED <<offset, stats, mutex, bytes, seen, answer, moved>>

tellUnsigned(t) ==
  /\ pc[t] = "tell"
  /\ Done(t, offset[call[t].fd])
  /\ UNCHANGED <<offset, stats, mutex, bytes, calls, moved>>

\* A position below zero is stored like any other, and looks like an error to
\* the caller.
Tell(t) ==
  /\ pc[t] = "tell"
  /\ Done(t, Signed(offset[call[t].fd]))
  /\ UNCHANGED <<offset, stats, mutex, bytes, calls, moved>>

\* Any other whence, SEEK_END included.
SeekInvalid(t, fd) ==
  /\ Begin(t, fd, "lseek")
  /\ Return(t, fd, -EINVAL)
  /\ UNCHANGED <<offset, stats, mutex, bytes, call, seen, moved>>

-----------------------------------------------------------------------------
Init ==
  /\ offset = [fd \in Fds |-> 0]
  /\ stats = [fd \in Fds |-> [bytesWritten |-> 0, maxOffsetWritten |-> 0]]
  /\ mutex = [fd \in Fds |-> Nobody]
  /\ bytes = [o \in Objects |-> <<>>]
  /\ pc = [t \in Threads |-> "idle"]
  /\ call = [t \in Threads |-> NoCall]
  /\ seen = [t \in Threads |-> 0]
  /\ calls = [t \in Threads |-> 0]
  /\ answer = [fd \in Fds |-> 0]
  /\ moved = [fd \in Fds |-> [read |-> 0, written |-> 0, end |-> 0]]

Request(t, fd) ==
  \/ \E count \in Counts :
       WriteStore(t, fd, count) \/ ReadStore(t, fd, count) \/ Truncate(t, fd, count)
  \/ StoreFails(t, fd)
  \/ \E d \in Seeks : SeekSet(t, fd, d) \/ SeekCur(t, fd, d)
  \/ SeekInvalid(t, fd)

Next == \E t \in Threads :
  \/ \E fd \in Fds : Request(t, fd)
  \/ Lock(t) \/ LoadOffset(t) \/ StoreOffset(t) \/ Count(t) \/ Reach(t) \/ Tell(t)

Spec == Init /\ [][Next]_vars

-----------------------------------------------------------------------------
(* Properties                                                              *)

TypeOK ==
  /\ offset \in [Fds -> 0 .. NbOffset - 1]
  /\ stats \in [Fds -> [bytesWritten : 0 .. NbOffset - 1, maxOffsetWritten : 0 .. NbOffset - 1]]
  /\ mutex \in [Fds -> Threads \cup {Nobody}]
  /\ bytes \in [Objects -> Seq(Fds \cup {Hole})]
  /\ pc \in [Threads -> {"idle", "lock", "load", "store", "count", "reach", "tell"}]
  /\ call \in [Threads -> [fd : Fds, op : Ops, rc : Int]]
  /\ seen \in [Threads -> 0 .. NbOffset - 1]
  /\ calls \in [Threads -> Nat]
  /\ answer \in [Fds -> Int]
  /\ moved \in [Fds -> [read : Nat, written : Nat, end : Nat]]

Users(fd) == {m[1] : m \in {m \in MayCall : m[2] = fd}}
OpsOn(fd) == {m[3] : m \in {m \in MayCall : m[2] = fd}}

\* Descriptors that one thread has to itself.
Private == {fd \in Fds : \A t \in Users(fd), w \in Users(fd) : t = w}

\* The calls on fd that are half way.
Under(fd) == {t \in Threads : pc[t] # "idle" /\ call[t].fd = fd}

\* Threads that only read from a descriptor may share it without a lock of
\* their own, as far as the offset goes: statsMutex around "fr->offset += rc"
\* keeps every advance, and the offset ends where the bytes delivered add up to.
ReadersLoseNoAdvance ==
  \A fd \in Fds : OpsOn(fd) \subseteq {"read"} /\ Under(fd) = {} =>
    offset[fd] = Uint64(moved[fd].read)

\* Whatever seeks and sharing do to the offset, the bytes written that close
\* logs are those the store took, once no call is half way; and on a
\* descriptor of one thread the highest offset covers them, although it is
\* worked out from the offset left behind rather than from the write.
StreamStatsCover ==
  \A fd \in Fds : Under(fd) = {} =>
    /\ stats[fd].bytesWritten = Uint64(moved[fd].written)
    /\ fd \in Private => stats[fd].maxOffsetWritten + 1 >= moved[fd].end

\* The position of a private descriptor, with what a call that the store has
\* answered, or a seek, is about to add.
Ahead(fd) == {t \in Under(fd) : pc[t] \in {"lock", "load", "store"}}
PositionOf(fd) ==
  Signed(IF Ahead(fd) = {} THEN offset[fd]
         ELSE Uint64(offset[fd] + call[CHOOSE t \in Ahead(fd) : TRUE].rc))
AnswerOf(fd) ==
  IF Under(fd) = {} THEN answer[fd]
  ELSE LET c == call[CHOOSE t \in Under(fd) : TRUE]
       IN  IF c.op = "lseek" THEN PositionOf(fd) ELSE c.rc

Promise == INSTANCE PosixStream WITH
  Streams <- Private,
  position <- [fd \in Private |-> PositionOf(fd)],
  bytes <- [o \in {ObjectOf[fd] : fd \in Private} |-> bytes[o]],
  answer <- [fd \in Private |-> AnswerOf(fd)]

\* To a thread that has a descriptor to itself, transfers, seeks and
\* truncations are single steps on a position, whatever is done meanwhile on
\* the descriptors of others, also of the same object, as long as no shared
\* descriptor writes to it.
ImplementsPosixStream == Promise!Spec
=============================================================================
