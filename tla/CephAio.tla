------------------------------ MODULE CephAio ------------------------------
(***************************************************************************)
(* Reading and writing open files: ceph_posix_pread, ceph_posix_pwrite,    *)
(* ceph_aio_read and ceph_aio_write with their completion callbacks, and   *)
(* the ceph_posix_close that ends the file reference all of them use.      *)
(*                                                                         *)
(* Three kinds of threads meet at a CephFileRef: those of the framework    *)
(* that make the calls, those of librados that run the completion          *)
(* callbacks, and the one that closes the file.  getFileRef gives out a    *)
(* bare pointer, so nothing but the framework's word keeps the reference   *)
(* alive; its counters are guarded by its own statsMutex.                  *)
(*                                                                         *)
(* A step is one critical section of statsMutex, one lookup in the table,  *)
(* one request to the store, or one call of the framework's callback.      *)
(***************************************************************************)
EXTENDS Integers, FiniteSets, Functions

CONSTANTS
  Fds,            \* descriptors, all of them open at the start
  Mode,           \* Mode[fd]: the access mode fd was opened with
  Requests,       \* the calls the framework makes on them
  NbSize,         \* number of values of size_t and uint64_t: 2^64 in the code
  ReadsMayFail    \* whether the store may fail an asynchronous read

Modes == {"RDONLY", "WRONLY", "RDWR"}
SyncOps == {"pread", "pwrite"}
AsyncOps == {"aio_read", "aio_write"}

ASSUME AioAssumption ==
  /\ Mode \in [Fds -> Modes]
  /\ NbSize \in Nat \ {0}
  /\ \A r \in Requests : /\ r.fd \in Fds
                         /\ r.op \in SyncOps \cup AsyncOps
                         /\ r.count \in Nat
                         /\ r.offset \in Nat
  /\ ReadsMayFail \in BOOLEAN

VARIABLES
  alive,      \* the process runs
  fdState,    \* fdState[fd]: open; closing: close holds statsMutex; closed: erased
  stats,      \* stats[fd]: the counters of the file reference
  sub,        \* sub[r]: where the thread that makes call r has got to
  cb,         \* cb[r]: where asynchronous request r and its callback have got to
  storeRc,    \* storeRc[r]: what the store answered to r
  Result,     \* Result[r]: what the framework was told about r
  filled      \* filled[r]: bytes of the caller's buffer that r has filled

vars == <<alive, fdState, stats, sub, cb, storeRc, Result, filled>>

-----------------------------------------------------------------------------
(* Requests, and the arithmetic on their sizes                             *)

IsWrite(r) == r.op \in {"pwrite", "aio_write"}
IsAsync(r) == r.op \in AsyncOps

\* A read is refused on a write-only file, a write on a read-only one.
Allowed(r) == Mode[r.fd] # IF IsWrite(r) THEN "RDONLY" ELSE "WRONLY"

\* What the store may answer: a write 0, a read the bytes it got, or an error.
Outcomes(r) ==
  IF IsWrite(r) THEN {0, -1}
  ELSE 0 .. r.count \cup (IF IsAsync(r) /\ ~ReadsMayFail THEN {} ELSE {-1})

\* An int kept in a size_t, and a size_t kept in an ssize_t.
ToSize(n) == n % NbSize
ToSsize(n) == IF 2 * n < NbSize THEN n ELSE n - NbSize

WithoutWrapping(n) == n

\* uint64_t counters wrap around.
Uint64(n) == n % NbSize

Stats == [wrcount : Nat, rdcount : Nat,
          asyncWrStartCount : Nat, asyncWrCompletionCount : Nat,
          asyncRdStartCount : Nat, asyncRdCompletionCount : Nat,
          bytesAsyncWritePending : 0 .. NbSize - 1,
          bytesWritten : 0 .. NbSize - 1,
          maxOffsetWritten : 0 .. NbSize - 1]

NoStats ==
  [wrcount |-> 0, rdcount |-> 0,
   asyncWrStartCount |-> 0, asyncWrCompletionCount |-> 0,
   asyncRdStartCount |-> 0, asyncRdCompletionCount |-> 0,
   bytesAsyncWritePending |-> 0, bytesWritten |-> 0, maxOffsetWritten |-> 0]

maxOffsetOfLatest(s, r) ==
  IF r.count # 0 THEN Uint64(r.offset + r.count - 1) ELSE s.maxOffsetWritten

\* The highest offset written, after write r is counted.  An asynchronous
\* write of no bytes leaves it alone, a synchronous one only at offset 0.
maxOffsetAfter(s, r) ==
  LET counts == IF IsAsync(r) THEN r.count # 0 ELSE r.offset + r.count # 0
      last == Uint64(r.offset + r.count - 1)
  IN  IF counts /\ last > s.maxOffsetWritten THEN last ELSE s.maxOffsetWritten

\* What each critical section of statsMutex does to the counters.
transferStats(s, r) ==
  IF IsWrite(r)
    THEN [s EXCEPT !.wrcount = @ + 1,
                   !.bytesWritten = Uint64(@ + r.count),
                   !.maxOffsetWritten = maxOffsetAfter(s, r)]
    ELSE [s EXCEPT !.rdcount = @ + 1]

submitStats(s, r) ==
  IF IsWrite(r)
    THEN [s EXCEPT !.asyncWrStartCount = @ + 1,
                   !.bytesAsyncWritePending = Uint64(@ + r.count)]
    ELSE [s EXCEPT !.asyncRdStartCount = @ + 1]

completionStatsOfSuccess(s, r) ==
  IF IsWrite(r)
    THEN IF storeRc[r] # 0 THEN s
         ELSE [s EXCEPT !.asyncWrCompletionCount = @ + 1,
                        !.bytesAsyncWritePending = Uint64(@ - r.count),
                        !.bytesWritten = Uint64(@ + r.count),
                        !.maxOffsetWritten = maxOffsetAfter(s, r)]
    ELSE [s EXCEPT !.asyncRdCompletionCount = @ + 1]

completionStats(s, r) ==
  IF IsWrite(r)
    THEN [s EXCEPT !.asyncWrCompletionCount = @ + 1,
                   !.bytesAsyncWritePending = Uint64(@ - r.count),
                   !.bytesWritten = Uint64(@ + r.count),
                   !.maxOffsetWritten = maxOffsetAfter(s, r)]
    ELSE [s EXCEPT !.asyncRdCompletionCount = @ + 1]

-----------------------------------------------------------------------------
(* What the framework knows, and what it is trusted with                   *)

\* A callback that tells the framework before it touches the counters.
ReportedBeforeCounting(r) ==
  cb[r] \in {"ready", "counting", "counted", "reported", "done"}

\* The framework's callback, doneRead or doneWrite, has run for r.
Reported(r) == cb[r] \in {"reported", "done"}

\* The store took asynchronous request r.
Taken(r) == cb[r] \notin {"none", "rejected"}

\* The framework still waits for r: its call, or the report of its completion.
Busy(r) ==
  \/ sub[r] \in {"looked", "issued"}
  \/ Taken(r) /\ ~Reported(r)

\* A critical section of fd's statsMutex can be entered.
Unlocked(fd) == fdState[fd] # "closing"

-----------------------------------------------------------------------------
(* The thread that makes the call                                          *)

\* The framework makes no call on a file that it is closing, or has closed.
Look(r) ==
  /\ sub[r] = "idle"
  /\ fdState[r.fd] = "open"
  /\ sub' = [sub EXCEPT ![r] = "looked"]
  /\ UNCHANGED <<alive, fdState, stats, cb, storeRc, Result, filled>>

\* EBADF for the access mode, EINVAL when there is no striper or no cluster.
Refuse(r) ==
  /\ sub[r] = "looked"
  /\ sub' = [sub EXCEPT ![r] = "failed"]
  /\ UNCHANGED <<alive, fdState, stats, cb, storeRc, Result, filled>>

\* pread and pwrite: the store is asked, and an error returned at once.
Transfer(r) ==
  /\ sub[r] = "looked"
  /\ ~IsAsync(r)
  /\ Allowed(r)
  /\ \E rc \in Outcomes(r) :
       /\ storeRc' = [storeRc EXCEPT ![r] = rc]
       /\ Result' = [Result EXCEPT ![r] = rc]
       /\ sub' = [sub EXCEPT ![r] = IF rc < 0 THEN "failed" ELSE "issued"]
       /\ filled' = [filled EXCEPT ![r] = IF rc > 0 THEN rc ELSE @]
  /\ UNCHANGED <<alive, fdState, stats, cb>>

TransferCount(r) ==
  /\ sub[r] = "issued"
  /\ ~IsAsync(r)
  /\ Unlocked(r.fd)
  /\ stats' = [stats EXCEPT ![r.fd] = transferStats(@, r)]
  /\ Result' = [Result EXCEPT ![r] = IF IsWrite(r) THEN r.count ELSE @]
  /\ sub' = [sub EXCEPT ![r] = "returned"]
  /\ UNCHANGED <<alive, fdState, cb, storeRc, filled>>

\* aio_read and aio_write hand the request to the store, which takes it or
\* refuses it.  From here on the callback may run.
Submit(r) ==
  /\ sub[r] = "looked"
  /\ IsAsync(r)
  /\ Allowed(r)
  /\ \E taken \in BOOLEAN :
       cb' = [cb EXCEPT ![r] = IF taken THEN "inflight" ELSE "rejected"]
  /\ sub' = [sub EXCEPT ![r] = "issued"]
  /\ UNCHANGED <<alive, fdState, stats, storeRc, Result, filled>>

\* The submission is counted after the fact, and also when it was refused.
SubmitCount(r) ==
  /\ sub[r] = "issued"
  /\ IsAsync(r)
  /\ Unlocked(r.fd)
  /\ stats' = [stats EXCEPT ![r.fd] = submitStats(@, r)]
  /\ sub' = [sub EXCEPT ![r] = "returned"]
  /\ UNCHANGED <<alive, fdState, cb, storeRc, Result, filled>>

-----------------------------------------------------------------------------
(* The completion callbacks, run by a thread of librados                   *)

Complete(r) ==
  /\ cb[r] = "inflight"
  /\ \E rc \in Outcomes(r) : storeRc' = [storeRc EXCEPT ![r] = rc]
  /\ cb' = [cb EXCEPT ![r] = IF IsWrite(r) THEN "ready" ELSE "called"]
  /\ UNCHANGED <<alive, fdState, stats, sub, Result, filled>>

\* A read copies rc bytes out of its buffer list when rc > 0, which a size_t
\* also is for an error; copying more than the list holds throws, and there
\* is no one to catch it.
CopyOut(r) ==
  LET rc == ToSize(storeRc[r])
      held == IF storeRc[r] > 0 THEN storeRc[r] ELSE 0
  IN  /\ cb[r] = "called"
      /\ IF rc > held
           THEN /\ alive' = FALSE
                /\ UNCHANGED <<cb, filled>>
           ELSE /\ cb' = [cb EXCEPT ![r] = "ready"]
                /\ filled' = [filled EXCEPT ![r] = rc]
                /\ UNCHANGED alive
      /\ UNCHANGED <<fdState, stats, sub, storeRc, Result>>

\* getFileRef: with no reference left, the counters are skipped.
FindRef(r) ==
  /\ cb[r] = "ready"
  /\ cb' = [cb EXCEPT ![r] = IF fdState[r.fd] = "closed" THEN "counted" ELSE "counting"]
  /\ UNCHANGED <<alive, fdState, stats, sub, storeRc, Result, filled>>

CountCompletion(r) ==
  /\ cb[r] = "counting"
  /\ Unlocked(r.fd)
  /\ stats' = [stats EXCEPT ![r.fd] = completionStats(@, r)]
  /\ cb' = [cb EXCEPT ![r] = "counted"]
  /\ UNCHANGED <<alive, fdState, sub, storeRc, Result, filled>>

ResultAlwaysBytes(r) == ToSsize(IF IsWrite(r) THEN r.count ELSE ToSize(storeRc[r]))

\* The size_t the callback passes on, as the ssize_t the framework reads.
ResultOf(r) ==
  ToSsize(IF IsWrite(r) /\ storeRc[r] = 0 THEN r.count ELSE ToSize(storeRc[r]))

ReportSuccess(r) ==
  /\ cb[r] = "counted"
  /\ storeRc[r] >= 0
  /\ Result' = [Result EXCEPT ![r] = ResultOf(r)]
  /\ cb' = [cb EXCEPT ![r] = IF IsWrite(r) THEN "reported" ELSE "done"]
  /\ UNCHANGED <<alive, fdState, stats, sub, storeRc, filled>>

\* aioReadCallback and aioWriteCallback.
Report(r) ==
  /\ cb[r] = "counted"
  /\ Result' = [Result EXCEPT ![r] = ResultOf(r)]
  /\ cb' = [cb EXCEPT ![r] = IF IsWrite(r) THEN "reported" ELSE "done"]
  /\ UNCHANGED <<alive, fdState, stats, sub, storeRc, filled>>

\* After the callback, a write's completion locks statsMutex once more to
\* note how long the callback took.
CountCallback(r) ==
  /\ cb[r] = "reported"
  /\ Unlocked(r.fd)
  /\ cb' = [cb EXCEPT ![r] = "done"]
  /\ UNCHANGED <<alive, fdState, stats, sub, storeRc, Result, filled>>

-----------------------------------------------------------------------------
(* ceph_posix_close: the statistics are logged under statsMutex, and the    *)
(* reference is erased with it still locked.  "We trust xrootd to ensure    *)
(* close will not be called before all previous calls are complete          *)
(* (including the async ones)".                                             *)

CloseLock(fd) ==
  /\ fdState[fd] = "open"
  /\ \A r \in Requests : r.fd = fd => ~Busy(r)
  /\ fdState' = [fdState EXCEPT ![fd] = "closing"]
  /\ UNCHANGED <<alive, stats, sub, cb, storeRc, Result, filled>>

CloseErase(fd) ==
  /\ fdState[fd] = "closing"
  /\ fdState' = [fdState EXCEPT ![fd] = "closed"]
  /\ UNCHANGED <<alive, stats, sub, cb, storeRc, Result, filled>>

-----------------------------------------------------------------------------
Init ==
  /\ alive = TRUE
  /\ fdState = [fd \in Fds |-> "open"]
  /\ stats = [fd \in Fds |-> NoStats]
  /\ sub = [r \in Requests |-> "idle"]
  /\ cb = [r \in Requests |-> "none"]
  /\ storeRc = [r \in Requests |-> 0]
  /\ Result = [r \in Requests |-> 0]
  /\ filled = [r \in Requests |-> 0]

CallNext(r) ==
  \/ Look(r) \/ Refuse(r)
  \/ Transfer(r) \/ TransferCount(r)
  \/ Submit(r) \/ SubmitCount(r)

CallbackNext(r) ==
  \/ Complete(r) \/ CopyOut(r) \/ FindRef(r)
  \/ CountCompletion(r) \/ Report(r) \/ CountCallback(r)

Next ==
  /\ alive
  /\ \/ \E r \in Requests : CallNext(r) \/ CallbackNext(r)
     \/ \E fd \in Fds : CloseLock(fd) \/ CloseErase(fd)

Spec == Init /\ [][Next]_vars

\* The store completes every request it took, and a thread in the middle of a
\* callback or of a close goes on; nobody has to make a call or to close.
Fairness ==
  /\ \A r \in Requests : WF_vars(alive /\ CallbackNext(r))
  /\ \A fd \in Fds : WF_vars(alive /\ CloseErase(fd))

FairSpec == Spec /\ Fairness

-----------------------------------------------------------------------------
(* Properties                                                              *)

TypeOK ==
  /\ alive \in BOOLEAN
  /\ fdState \in [Fds -> {"open", "closing", "closed"}]
  /\ stats \in [Fds -> Stats]
  /\ sub \in [Requests -> {"idle", "looked", "issued", "returned", "failed"}]
  /\ cb \in [Requests -> {"none", "rejected", "inflight", "called", "ready",
                          "counting", "counted", "reported", "done"}]
  /\ storeRc \in [Requests -> Int]
  /\ Result \in [Requests -> Int]
  /\ filled \in [Requests -> Nat]

\* Whoever is about to lock statsMutex and update the counters, a caller
\* after its request or a callback before its report, still has the file
\* reference it looked up: close has not erased it in between.
FileRefLive ==
  \A r \in Requests :
    sub[r] = "issued" \/ cb[r] \in {"inflight", "called", "ready", "counting"}
      => fdState[r.fd] = "open"

\* "Compute statistics before reporting to xrootd, so that a close cannot
\* happen in the meantime": a callback that is going to lock statsMutex
\* after the report still has the file reference too.
FileRefLiveAfterReport ==
  \A r \in Requests : cb[r] = "reported" => fdState[r.fd] # "closed"

RequestsOf(fd, op) == {r \in Requests : r.fd = fd /\ r.op = op}

\* Requests the store has taken and whose completion is not counted yet.
Outstanding(fd, op) ==
  {r \in RequestsOf(fd, op) : cb[r] \in {"inflight", "called", "ready", "counting"}}

\* No asynchronous request of fd is between the store and its count, and none
\* was refused by the store: the count of such a one is never taken back.
Settled(fd) ==
  \A r \in Requests :
    r.fd = fd /\ IsAsync(r) => sub[r] # "issued" /\ cb[r] # "rejected"

Bytes(S) == SumFunctionOnSet([r \in Requests |-> r.count], S)

\* Whatever the order in which callers and callbacks get to the counters, and
\* although the bytes pending wrap below zero on the way, they agree with the
\* requests outstanding whenever no call is half way; so close logs zero.
AsyncCountersExact ==
  \A fd \in Fds : Settled(fd) =>
    LET s == stats[fd]
    IN  /\ s.bytesAsyncWritePending = Uint64(Bytes(Outstanding(fd, "aio_write")))
        /\ s.asyncWrStartCount - s.asyncWrCompletionCount
             = Cardinality(Outstanding(fd, "aio_write"))
        /\ s.asyncRdStartCount - s.asyncRdCompletionCount
             = Cardinality(Outstanding(fd, "aio_read"))

\* Writes whose statistics are in: a synchronous one that returned, and an
\* asynchronous one past its first critical section.
CountedWrites(fd) ==
  {r \in Requests : /\ r.fd = fd /\ IsWrite(r)
                    /\ IF IsAsync(r) THEN cb[r] \in {"counted", "reported", "done"}
                                     ELSE sub[r] = "returned"}

\* No write is lost from the statistics, in whatever order writes complete:
\* the highest offset covers each of them, and while none has failed the bytes
\* written are theirs.  (A failed asynchronous write is counted like a good one.)
WriteStatsCover ==
  \A fd \in Fds :
    LET writes == CountedWrites(fd)
    IN  /\ \A r \in writes : r.count > 0 =>
             stats[fd].maxOffsetWritten >= Uint64(r.offset + r.count - 1)
        /\ (\A r \in writes : storeRc[r] = 0) =>
             stats[fd].bytesWritten = Uint64(Bytes(writes))

\* The framework is told what the store did: the byte count of a write that
\* succeeded, the bytes of a read that are in its buffer by then, or the
\* error, although it travels as a size_t.
ReportTellsOutcome ==
  \A r \in Requests : Reported(r) \/ (sub[r] = "returned" /\ ~IsAsync(r)) =>
    /\ storeRc[r] < 0 => Result[r] = storeRc[r]
    /\ storeRc[r] >= 0 => Result[r] = IF IsWrite(r) THEN r.count ELSE filled[r]

\* Every asynchronous request the store took is reported to the framework,
\* which waits for it before it closes the file.
TakenIsReported == \A r \in Requests : Taken(r) ~> Reported(r)
=============================================================================
