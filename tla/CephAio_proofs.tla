--------------------------- MODULE CephAio_proofs ---------------------------
(***************************************************************************)
(* Proofs about CephAio, for any number of files and requests and any      *)
(* width of the counters.                                                  *)
(***************************************************************************)
EXTENDS CephAio, FiniteSums, TLAPS

\* A caller that has looked its file up and is not back yet keeps it open.
LookedIsOpen ==
  \A r \in Requests : sub[r] = "looked" => fdState[r.fd] = "open"

\* The inductive invariant: the framework's promise not to close a file with
\* a request pending covers every place that uses the file reference but the
\* one after the report.
IInv ==
  /\ TypeOK
  /\ LookedIsOpen
  /\ FileRefLive

-----------------------------------------------------------------------------
(* Types                                                                   *)

\* A counter that wraps stays below the number of its values.
LEMMA Uint64Type ==
  ASSUME NEW n \in Int
  PROVE  Uint64(n) \in 0 .. NbSize - 1
BY AioAssumption DEF Uint64

\* A size_t made from an int stays below the number of its values.
LEMMA ToSizeType ==
  ASSUME NEW n \in Int
  PROVE  ToSize(n) \in 0 .. NbSize - 1
BY AioAssumption DEF ToSize

\* What a request is made of, and what the store may answer to it.
LEMMA RequestType ==
  ASSUME NEW r \in Requests
  PROVE  /\ r.fd \in Fds
         /\ r.count \in Nat /\ r.offset \in Nat
         /\ Outcomes(r) \subseteq Int
BY AioAssumption DEF Outcomes

\* The highest offset written is a uint64_t.
LEMMA MaxOffsetType ==
  ASSUME NEW s \in Stats, NEW r \in Requests
  PROVE  maxOffsetAfter(s, r) \in 0 .. NbSize - 1
<1>1. r.offset + r.count - 1 \in Int
  BY RequestType
<1>2. Uint64(r.offset + r.count - 1) \in 0 .. NbSize - 1
  BY <1>1, Uint64Type
<1>3. s.maxOffsetWritten \in 0 .. NbSize - 1
  BY DEF Stats
<1>4. QED
  BY <1>2, <1>3 DEF maxOffsetAfter

\* Each critical section keeps the type of the counters.
LEMMA StatsTypes ==
  ASSUME NEW s \in Stats, NEW r \in Requests
  PROVE  /\ transferStats(s, r) \in Stats
         /\ submitStats(s, r) \in Stats
         /\ completionStats(s, r) \in Stats
<1>1. /\ Uint64(s.bytesWritten + r.count) \in 0 .. NbSize - 1
      /\ Uint64(s.bytesAsyncWritePending + r.count) \in 0 .. NbSize - 1
      /\ Uint64(s.bytesAsyncWritePending - r.count) \in 0 .. NbSize - 1
  BY RequestType, Uint64Type DEF Stats
<1>2. maxOffsetAfter(s, r) \in 0 .. NbSize - 1
  BY MaxOffsetType
<1>3. /\ s.wrcount + 1 \in Nat /\ s.rdcount + 1 \in Nat
      /\ s.asyncWrStartCount + 1 \in Nat /\ s.asyncWrCompletionCount + 1 \in Nat
      /\ s.asyncRdStartCount + 1 \in Nat /\ s.asyncRdCompletionCount + 1 \in Nat
  BY DEF Stats
<1>4. transferStats(s, r) \in Stats
  BY <1>1, <1>2, <1>3 DEF transferStats, Stats
<1>5. submitStats(s, r) \in Stats
  BY <1>1, <1>3 DEF submitStats, Stats
<1>6. completionStats(s, r) \in Stats
  BY <1>1, <1>2, <1>3 DEF completionStats, Stats
<1>7. QED
  BY <1>4, <1>5, <1>6

\* No request has been made and every file is open.
LEMMA InitIInv == Init => IInv
<1> SUFFICES ASSUME Init PROVE IInv
  OBVIOUS
<1>1. NoStats \in Stats
  BY AioAssumption DEF NoStats, Stats
<1>2. TypeOK
  BY <1>1 DEF Init, TypeOK
<1>3. LookedIsOpen /\ FileRefLive
  BY DEF Init, LookedIsOpen, FileRefLive
<1>4. QED
  BY <1>2, <1>3 DEF IInv

-----------------------------------------------------------------------------
(* One lemma for each actor: the caller, the callback, and close           *)

\* A step of the thread that makes a call, which keeps its file open by being busy.
LEMMA CallStep ==
  ASSUME IInv, NEW r \in Requests, CallNext(r), UNCHANGED <<alive, fdState>>
  PROVE  IInv'
<1> USE DEF IInv
<1>1. r.fd \in Fds /\ r.count \in Nat /\ Outcomes(r) \subseteq Int /\ stats[r.fd] \in Stats
  BY RequestType DEF TypeOK
<1>2. CASE Look(r)
  BY <1>2 DEF Look, TypeOK, LookedIsOpen, FileRefLive
<1>3. CASE Refuse(r)
  BY <1>3 DEF Refuse, TypeOK, LookedIsOpen, FileRefLive
<1>4. CASE Transfer(r)
  <2>1. PICK rc \in Outcomes(r) :
          /\ storeRc' = [storeRc EXCEPT ![r] = rc]
          /\ Result' = [Result EXCEPT ![r] = rc]
          /\ sub' = [sub EXCEPT ![r] = IF rc < 0 THEN "failed" ELSE "issued"]
          /\ filled' = [filled EXCEPT ![r] = IF rc > 0 THEN rc ELSE @]
    BY <1>4 DEF Transfer
  <2>2. rc \in Int
    BY <1>1
  <2>3. TypeOK'
    BY <1>4, <2>1, <2>2 DEF Transfer, TypeOK
  <2>4. fdState[r.fd] = "open"
    BY <1>4 DEF Transfer, LookedIsOpen
  <2>5. (LookedIsOpen /\ FileRefLive)'
    BY <1>4, <2>1, <2>4 DEF Transfer, TypeOK, LookedIsOpen, FileRefLive
  <2>6. QED
    BY <2>3, <2>5
<1>5. CASE TransferCount(r)
  <2>1. stats' \in [Fds -> Stats]
    BY <1>1, <1>5, StatsTypes DEF TransferCount, TypeOK
  <2>2. TypeOK'
    BY <1>1, <1>5, <2>1 DEF TransferCount, TypeOK
  <2>3. (LookedIsOpen /\ FileRefLive)'
    BY <1>5 DEF TransferCount, TypeOK, LookedIsOpen, FileRefLive
  <2>4. QED
    BY <2>2, <2>3
<1>6. CASE Submit(r)
  <2>1. TypeOK'
    BY <1>6 DEF Submit, TypeOK
  <2>2. fdState[r.fd] = "open"
    BY <1>6 DEF Submit, LookedIsOpen
  <2>3. (LookedIsOpen /\ FileRefLive)'
    BY <1>6, <2>2 DEF Submit, TypeOK, LookedIsOpen, FileRefLive
  <2>4. QED
    BY <2>1, <2>3
<1>7. CASE SubmitCount(r)
  <2>1. stats' \in [Fds -> Stats]
    BY <1>1, <1>7, StatsTypes DEF SubmitCount, TypeOK
  <2>2. TypeOK'
    BY <1>1, <1>7, <2>1 DEF SubmitCount, TypeOK
  <2>3. (LookedIsOpen /\ FileRefLive)'
    BY <1>7 DEF SubmitCount, TypeOK, LookedIsOpen, FileRefLive
  <2>4. QED
    BY <2>2, <2>3
<1>8. QED
  BY <1>2, <1>3, <1>4, <1>5, <1>6, <1>7 DEF CallNext

\* A step of a completion callback, whose request keeps its file open until the
\* report.
LEMMA CallbackStep ==
  ASSUME IInv, NEW r \in Requests, CallbackNext(r), UNCHANGED fdState
  PROVE  IInv'
<1> USE DEF IInv
<1>1. r.fd \in Fds /\ r.count \in Nat /\ Outcomes(r) \subseteq Int /\ stats[r.fd] \in Stats
  BY RequestType DEF TypeOK
<1>2. ToSize(storeRc[r]) \in 0 .. NbSize - 1
  BY ToSizeType DEF TypeOK
<1>3. CASE Complete(r)
  <2>1. PICK rc \in Outcomes(r) : storeRc' = [storeRc EXCEPT ![r] = rc]
    BY <1>3 DEF Complete
  <2>2. rc \in Int
    BY <1>1
  <2>3. storeRc' \in [Requests -> Int]
    BY <2>1, <2>2 DEF TypeOK
  <2>4. TypeOK'
    BY <1>3, <2>3 DEF Complete, TypeOK
  <2>5. (LookedIsOpen /\ FileRefLive)'
    BY <1>3 DEF Complete, TypeOK, LookedIsOpen, FileRefLive
  <2>6. QED
    BY <2>4, <2>5
<1>4. CASE CopyOut(r)
  <2>1. alive' \in BOOLEAN
    BY <1>4, Zenon DEF CopyOut, TypeOK
  <2>2. ToSize(storeRc[r]) \in Nat
    BY <1>2, AioAssumption
  <2>3. filled' \in [Requests -> Nat]
    BY <1>4, <2>2 DEF CopyOut, TypeOK
  <2>4. TypeOK'
    BY <1>4, <2>1, <2>3 DEF CopyOut, TypeOK
  <2>5. (LookedIsOpen /\ FileRefLive)'
    BY <1>4 DEF CopyOut, TypeOK, LookedIsOpen, FileRefLive
  <2>6. QED
    BY <2>4, <2>5
<1>5. CASE FindRef(r)
  BY <1>5 DEF FindRef, TypeOK, LookedIsOpen, FileRefLive
<1>6. CASE CountCompletion(r)
  <2>1. stats' \in [Fds -> Stats]
    BY <1>1, <1>6, StatsTypes DEF CountCompletion, TypeOK
  <2>2. TypeOK'
    BY <1>1, <1>6, <2>1 DEF CountCompletion, TypeOK
  <2>3. (LookedIsOpen /\ FileRefLive)'
    BY <1>6 DEF CountCompletion, TypeOK, LookedIsOpen, FileRefLive
  <2>4. QED
    BY <2>2, <2>3
<1>7. CASE Report(r)
  <2>1. ResultOf(r) \in Int
    BY <1>1, <1>2, AioAssumption DEF ResultOf, ToSsize
  <2>2. TypeOK'
    BY <1>7, <2>1 DEF Report, TypeOK
  <2>3. (LookedIsOpen /\ FileRefLive)'
    BY <1>7 DEF Report, TypeOK, LookedIsOpen, FileRefLive
  <2>4. QED
    BY <2>2, <2>3
<1>8. CASE CountCallback(r)
  BY <1>8 DEF CountCallback, TypeOK, LookedIsOpen, FileRefLive
<1>9. QED
  BY <1>3, <1>4, <1>5, <1>6, <1>7, <1>8 DEF CallbackNext

\* A step of close, which starts only when no request of its file is busy.
LEMMA CloseStep ==
  ASSUME IInv, NEW fd \in Fds, CloseLock(fd) \/ CloseErase(fd)
  PROVE  IInv'
<1> USE DEF IInv
<1>1. CASE CloseLock(fd)
  <2>1. \A r \in Requests : r.fd = fd =>
          /\ sub[r] \notin {"looked", "issued"}
          /\ cb[r] \notin {"inflight", "called", "ready", "counting"}
    BY <1>1 DEF CloseLock, Busy, Taken, Reported
  <2>2. \A r \in Requests : r.fd # fd => fdState'[r.fd] = fdState[r.fd]
    BY <1>1 DEF CloseLock, TypeOK
  <2>3. TypeOK'
    BY <1>1 DEF CloseLock, TypeOK
  <2>4. (LookedIsOpen /\ FileRefLive)'
    BY <1>1, <2>1, <2>2 DEF CloseLock, LookedIsOpen, FileRefLive
  <2>5. QED
    BY <2>3, <2>4
<1>2. CASE CloseErase(fd)
  <2>1. \A r \in Requests : fdState[r.fd] = "open" => fdState'[r.fd] = "open"
    BY <1>2 DEF CloseErase, TypeOK
  <2>2. TypeOK'
    BY <1>2 DEF CloseErase, TypeOK
  <2>3. (LookedIsOpen /\ FileRefLive)'
    BY <1>2, <2>1 DEF CloseErase, LookedIsOpen, FileRefLive
  <2>4. QED
    BY <2>2, <2>3
<1>3. QED
  BY <1>1, <1>2

\* Every step keeps the inductive invariant: one case per actor.
LEMMA StepIInv == IInv /\ [Next]_vars => IInv'
<1> SUFFICES ASSUME IInv, [Next]_vars PROVE IInv'
  OBVIOUS
<1>1. ASSUME NEW r \in Requests, CallNext(r)
      PROVE  IInv'
  <2>1. UNCHANGED <<alive, fdState>>
    BY <1>1 DEF CallNext, Look, Refuse, Transfer, TransferCount, Submit, SubmitCount
  <2>2. QED
    BY <1>1, <2>1, CallStep
<1>2. ASSUME NEW r \in Requests, CallbackNext(r)
      PROVE  IInv'
  <2>1. UNCHANGED fdState
    BY <1>2 DEF CallbackNext, Complete, CopyOut, FindRef, CountCompletion, Report, CountCallback
  <2>2. QED
    BY <1>2, <2>1, CallbackStep
<1>3. CASE UNCHANGED vars
  BY <1>3 DEF vars, IInv, TypeOK, LookedIsOpen, FileRefLive
<1>4. CASE Next
  BY <1>1, <1>2, <1>4, CloseStep DEF Next
<1>5. QED
  BY <1>3, <1>4

\* The invariant holds in every state the callers, the callbacks and close
\* can reach together.
THEOREM AioInvariance == Spec => []IInv
<1>1. QED
  BY InitIInv, StepIInv, PTL DEF Spec

\* The counters stay unsigned integers of their width, wrapping on the way.
THEOREM AioTypeCorrect == Spec => []TypeOK
<1>1. IInv => TypeOK
  BY DEF IInv
<1>2. QED
  BY AioInvariance, <1>1, PTL

\* If the framework keeps its promise, a caller after its request and a
\* callback before its report find the file reference alive.
THEOREM RefLiveUntilReport == Spec => []FileRefLive
<1>1. IInv => FileRefLive
  BY DEF IInv
<1>2. QED
  BY AioInvariance, <1>1, PTL
-----------------------------------------------------------------------------
(* What the framework is told                                              *)

\* Every size a request asks for fits an ssize_t.
SizesFit == NbSize > 1 /\ \A r \in Requests : 2 * r.count < NbSize

\* What request r stands for so far: the store's answer is an error or fits
\* the request, the buffer of a read has been filled with all of it before
\* anybody counts or reports it, and the report is the answer.
Told(r) ==
  /\ cb[r] # "none" => IsAsync(r)
  /\ storeRc[r] \in -1 .. r.count
  /\ IsWrite(r) => storeRc[r] \in {0, -1}
  /\ IsAsync(r) /\ ~IsWrite(r) /\ cb[r] \in {"ready", "counting", "counted", "reported", "done"}
       => storeRc[r] >= 0 /\ filled[r] = storeRc[r]
  /\ Reported(r)
       => Result[r] = IF IsWrite(r) /\ storeRc[r] = 0 THEN r.count ELSE storeRc[r]
  /\ ~IsAsync(r) /\ sub[r] \in {"idle", "looked"} => filled[r] = 0
  /\ ~IsAsync(r) /\ sub[r] \in {"issued", "returned"}
       => storeRc[r] >= 0 /\ (~IsWrite(r) => filled[r] = storeRc[r] /\ Result[r] = storeRc[r])
  /\ ~IsAsync(r) /\ IsWrite(r) /\ sub[r] = "returned" => Result[r] = r.count

RInv == \A r \in Requests : Told(r)

\* A size that fits survives the trip through a size_t, and so does the error.
LEMMA SizesTravel ==
  ASSUME SizesFit, NEW r \in Requests, NEW n \in -1 .. r.count
  PROVE  /\ ToSsize(ToSize(n)) = n
         /\ n >= 0 => ToSize(n) = n
         /\ n < 0 => ToSize(n) > 0
<1>1. r.count \in Nat /\ 2 * r.count < NbSize /\ NbSize \in Nat /\ NbSize > 1
  BY AioAssumption DEF SizesFit
<1>2. CASE n >= 0
  <2>1. n % NbSize = n
    BY <1>1, <1>2
  <2>2. QED
    BY <1>1, <1>2, <2>1 DEF ToSize, ToSsize
<1>3. CASE n = -1
  <2>1. n % NbSize = NbSize - 1
    BY <1>1, <1>3
  <2>2. QED
    BY <1>1, <1>3, <2>1 DEF ToSize, ToSsize
<1>4. QED
  BY <1>1, <1>2, <1>3

\* A request is told apart by its own five variables.
LEMMA ToldFrame ==
  ASSUME NEW r \in Requests, Told(r),
         sub'[r] = sub[r], cb'[r] = cb[r], storeRc'[r] = storeRc[r],
         Result'[r] = Result[r], filled'[r] = filled[r]
  PROVE  Told(r)'
BY DEF Told, Reported

\* A step of the thread that makes call r.
LEMMA CallTold ==
  ASSUME IInv, NEW r \in Requests, Told(r), CallNext(r)
  PROVE  Told(r)'
<1> USE DEF IInv
<1>1. r.count \in Nat /\ r.op \in SyncOps \cup AsyncOps
  BY AioAssumption
<1>2. CASE Look(r)
  BY <1>2 DEF Look, TypeOK, Told, Reported
<1>3. CASE Refuse(r)
  BY <1>3 DEF Refuse, TypeOK, Told, Reported
<1>4. CASE Transfer(r)
  <2>1. PICK rc \in Outcomes(r) :
          /\ storeRc' = [storeRc EXCEPT ![r] = rc]
          /\ Result' = [Result EXCEPT ![r] = rc]
          /\ sub' = [sub EXCEPT ![r] = IF rc < 0 THEN "failed" ELSE "issued"]
          /\ filled' = [filled EXCEPT ![r] = IF rc > 0 THEN rc ELSE @]
    BY <1>4 DEF Transfer
  <2>2. rc \in -1 .. r.count /\ (IsWrite(r) => rc \in {0, -1})
    BY <1>1 DEF Outcomes
  <2>3. ~IsAsync(r) /\ filled[r] = 0 /\ cb[r] = "none" /\ cb' = cb
    BY <1>4 DEF Transfer, Told
  <2>4. /\ storeRc'[r] = rc /\ Result'[r] = rc
        /\ sub'[r] = (IF rc < 0 THEN "failed" ELSE "issued")
        /\ filled'[r] = (IF rc > 0 THEN rc ELSE 0)
    BY <2>1, <2>3 DEF TypeOK
  <2>5. QED
    BY <2>2, <2>3, <2>4 DEF Told, Reported
<1>5. CASE TransferCount(r)
  BY <1>5 DEF TransferCount, TypeOK, Told, Reported
<1>6. CASE Submit(r)
  <2>1. /\ IsAsync(r) /\ sub[r] = "looked"
        /\ cb'[r] \in {"inflight", "rejected"} /\ sub'[r] = "issued"
        /\ UNCHANGED <<storeRc, Result, filled>>
    BY <1>6 DEF Submit, TypeOK
  <2>2. QED
    BY <2>1 DEF Told, Reported
<1>7. CASE SubmitCount(r)
  BY <1>7 DEF SubmitCount, TypeOK, Told, Reported
<1>8. QED
  BY <1>2, <1>3, <1>4, <1>5, <1>6, <1>7 DEF CallNext

\* A step of the callback of r.
LEMMA CallbackTold ==
  ASSUME SizesFit, IInv, NEW r \in Requests, Told(r), CallbackNext(r)
  PROVE  Told(r)'
<1> USE DEF IInv
<1>1. r.count \in Nat /\ storeRc[r] \in -1 .. r.count
  BY AioAssumption DEF Told
<1>2. CASE Complete(r)
  <2>1. PICK rc \in Outcomes(r) : storeRc' = [storeRc EXCEPT ![r] = rc]
    BY <1>2 DEF Complete
  <2>2. rc \in -1 .. r.count /\ (IsWrite(r) => rc \in {0, -1})
    BY <1>1 DEF Outcomes
  <2>3. /\ storeRc'[r] = rc /\ IsAsync(r)
        /\ cb'[r] = IF IsWrite(r) THEN "ready" ELSE "called"
        /\ UNCHANGED <<sub, Result, filled>>
    BY <1>2, <2>1 DEF Complete, TypeOK, Told
  <2>4. QED
    BY <2>2, <2>3 DEF Told, Reported
<1>3. CASE CopyOut(r)
  <2>1. /\ cb[r] = "called" /\ IsAsync(r)
        /\ UNCHANGED <<sub, Result, storeRc>>
    BY <1>3 DEF CopyOut, Told
  <2>2. CASE cb' = cb /\ filled' = filled
    BY <2>1, <2>2 DEF Told, Reported
  <2>3. CASE ~(cb' = cb /\ filled' = filled)
    <3>1. /\ cb'[r] = "ready" /\ filled'[r] = ToSize(storeRc[r])
          /\ ~(ToSize(storeRc[r]) > IF storeRc[r] > 0 THEN storeRc[r] ELSE 0)
      BY <1>3, <2>3 DEF CopyOut, TypeOK
    <3>2. storeRc[r] >= 0 /\ filled'[r] = storeRc[r]
      BY <1>1, <3>1, SizesTravel
    <3>3. QED
      BY <2>1, <3>1, <3>2 DEF Told, Reported
  <2>4. QED
    BY <2>2, <2>3
<1>4. CASE FindRef(r)
  BY <1>4 DEF FindRef, TypeOK, Told, Reported
<1>5. CASE CountCompletion(r)
  BY <1>5 DEF CountCompletion, TypeOK, Told, Reported
<1>6. CASE Report(r)
  <2>1. /\ cb[r] = "counted" /\ Result'[r] = ResultOf(r)
        /\ cb'[r] \in {"reported", "done"}
        /\ UNCHANGED <<sub, storeRc, filled>>
    BY <1>6 DEF Report, TypeOK
  <2>2. IsAsync(r)
    BY <2>1 DEF Told
  <2>3. ToSsize(r.count) = r.count
    BY <1>1, AioAssumption DEF SizesFit, ToSsize
  <2>4. ResultOf(r) = IF IsWrite(r) /\ storeRc[r] = 0 THEN r.count ELSE storeRc[r]
    BY <1>1, <2>3, SizesTravel DEF ResultOf
  <2>5. QED
    BY <2>1, <2>2, <2>4 DEF Told, Reported
<1>7. CASE CountCallback(r)
  BY <1>7 DEF CountCallback, TypeOK, Told, Reported
<1>8. QED
  BY <1>2, <1>3, <1>4, <1>5, <1>6, <1>7 DEF CallbackNext

\* A step for one request leaves the others alone.
LEMMA OtherRequests ==
  ASSUME IInv, NEW r \in Requests, CallNext(r) \/ CallbackNext(r), NEW u \in Requests, u # r
  PROVE  /\ sub'[u] = sub[u] /\ cb'[u] = cb[u] /\ storeRc'[u] = storeRc[u]
         /\ Result'[u] = Result[u] /\ filled'[u] = filled[u]
<1>1. CASE CallNext(r)
  BY <1>1 DEF CallNext, Look, Refuse, Transfer, TransferCount, Submit, SubmitCount, IInv, TypeOK
<1>2. CASE CallbackNext(r)
  BY <1>2 DEF CallbackNext, Complete, CopyOut, FindRef, CountCompletion, Report, CountCallback,
              IInv, TypeOK
<1>3. QED
  BY <1>1, <1>2

\* The callers, the callbacks and close keep what each request stands for.
LEMMA StepRInv ==
  ASSUME SizesFit, IInv, RInv, [Next]_vars
  PROVE  RInv'
<1>1. ASSUME NEW r \in Requests, CallNext(r) \/ CallbackNext(r)
      PROVE  RInv'
  BY <1>1, CallTold, CallbackTold, OtherRequests, ToldFrame DEF RInv
<1>2. ASSUME NEW fd \in Fds, CloseLock(fd) \/ CloseErase(fd)
      PROVE  RInv'
  BY <1>2, ToldFrame DEF CloseLock, CloseErase, RInv
<1>3. CASE UNCHANGED vars
  BY <1>3, ToldFrame DEF vars, RInv
<1>4. QED
  BY <1>1, <1>2, <1>3 DEF Next

\* If the sizes fit an ssize_t, the framework is told what the store did: the
\* length of the write, the bytes the buffer holds by now, or the error.
THEOREM ReportsAreTrue ==
  ASSUME SizesFit
  PROVE  Spec => []ReportTellsOutcome
<1>1. Init => RInv
  <2> SUFFICES ASSUME Init, NEW r \in Requests PROVE Told(r)
    BY DEF RInv
  <2>1. r.count \in Nat
    BY AioAssumption
  <2>2. QED
    BY <2>1 DEF Init, Told, Reported
<1>2. IInv /\ RInv /\ [Next]_vars => RInv'
  BY StepRInv
<1>3. RInv => ReportTellsOutcome
  <2> SUFFICES ASSUME RInv, NEW r \in Requests,
                      Reported(r) \/ (sub[r] = "returned" /\ ~IsAsync(r))
               PROVE  /\ storeRc[r] < 0 => Result[r] = storeRc[r]
                      /\ storeRc[r] >= 0 => Result[r] = IF IsWrite(r) THEN r.count ELSE filled[r]
    BY DEF ReportTellsOutcome
  <2>1. Told(r) /\ r.count \in Nat
    BY AioAssumption DEF RInv
  <2>2. CASE Reported(r)
    BY <2>1, <2>2 DEF Told, Reported
  <2>3. CASE sub[r] = "returned" /\ ~IsAsync(r)
    BY <2>1, <2>3 DEF Told
  <2>4. QED
    BY <2>2, <2>3
<1>4. QED
  BY AioInvariance, <1>1, <1>2, <1>3, PTL DEF Spec
-----------------------------------------------------------------------------
(* The counters                                                            *)

\* Asynchronous requests whose start is counted, and whose completion is.
Started(fd, op) == {r \in RequestsOf(fd, op) : sub[r] = "returned"}
Completed(fd, op) == {r \in RequestsOf(fd, op) : cb[r] \in {"counted", "reported", "done"}}

Active == {r \in Requests : sub[r] # "idle"}

\* Counters s, when the sets of requests that they should have counted are
\* these: the writes started and completed, the reads started and completed,
\* and the writes whose statistics are in.
Counts(s, sw, cw, sr, cr, writes) ==
  /\ s.asyncWrStartCount = Cardinality(sw)
  /\ s.asyncWrCompletionCount = Cardinality(cw)
  /\ s.asyncRdStartCount = Cardinality(sr)
  /\ s.asyncRdCompletionCount = Cardinality(cr)
  /\ s.bytesAsyncWritePending = Uint64(Bytes(sw) - Bytes(cw))
  /\ s.bytesWritten = Uint64(Bytes(writes))
  /\ \A r \in writes :
       r.count > 0 => s.maxOffsetWritten >= Uint64(r.offset + r.count - 1)

\* Finitely many calls have been made, an asynchronous one is in the store's
\* hands from its submission on, and the counters tell the requests.
CInv ==
  /\ IsFiniteSet(Active)
  /\ \A r \in Requests :
       cb[r] # "none" <=> IsAsync(r) /\ sub[r] \in {"issued", "returned"}
  /\ \A fd \in Fds :
       Counts(stats[fd], Started(fd, "aio_write"), Completed(fd, "aio_write"),
              Started(fd, "aio_read"), Completed(fd, "aio_read"), CountedWrites(fd))

\* The bytes of finitely many requests, and of one more.
LEMMA BytesType ==
  ASSUME NEW S \in SUBSET Requests, IsFiniteSet(S)
  PROVE  Bytes(S) \in Nat
<1>1. [r \in Requests |-> r.count] \in [Requests -> Nat]
  BY AioAssumption
<1>2. QED
  BY <1>1, SumType DEF Bytes

LEMMA BytesAdd ==
  ASSUME NEW S \in SUBSET Requests, IsFiniteSet(S), NEW r \in Requests, r \notin S
  PROVE  Bytes(S \cup {r}) = r.count + Bytes(S)
<1>1. [u \in Requests |-> u.count] \in [Requests -> Nat]
  BY AioAssumption
<1>2. QED
  BY <1>1, SumAdd DEF Bytes

LEMMA BytesSplit ==
  ASSUME NEW S \in SUBSET Requests, IsFiniteSet(S), NEW T \in SUBSET S
  PROVE  Bytes(S) = Bytes(T) + Bytes(S \ T)
<1>1. [u \in Requests |-> u.count] \in [Requests -> Nat]
  BY AioAssumption
<1>2. QED
  BY <1>1, SumSplit DEF Bytes

\* A counter that wraps goes on from where it was.
LEMMA Uint64Sum ==
  ASSUME NEW a \in Int, NEW c \in Int
  PROVE  Uint64(Uint64(a) + c) = Uint64(a + c)
BY AioAssumption, WrappedSum DEF Uint64

\* One more write covers the highest offset, and lowers it for no other.
LEMMA MaxOffsetCovers ==
  ASSUME NEW s \in Stats, NEW r \in Requests
  PROVE  /\ maxOffsetAfter(s, r) >= s.maxOffsetWritten
         /\ r.count > 0 => maxOffsetAfter(s, r) >= Uint64(r.offset + r.count - 1)
<1>1. s.maxOffsetWritten \in Int /\ r.offset \in Nat /\ r.count \in Nat
  BY AioAssumption DEF Stats
<1>2. PICK last \in Int : last = Uint64(r.offset + r.count - 1)
  BY <1>1, Uint64Type, AioAssumption
<1>3. QED
  BY <1>1, <1>2 DEF maxOffsetAfter

\* The statistics of one more write, whoever's counters they are.
LEMMA WritesGrow ==
  ASSUME NEW s \in Stats, NEW S \in SUBSET Requests, IsFiniteSet(S),
         NEW r \in Requests, r \notin S,
         s.bytesWritten = Uint64(Bytes(S)),
         \A u \in S : u.count > 0 => s.maxOffsetWritten >= Uint64(u.offset + u.count - 1)
  PROVE  /\ Uint64(s.bytesWritten + r.count) = Uint64(Bytes(S \cup {r}))
         /\ \A u \in S \cup {r} :
              u.count > 0 => maxOffsetAfter(s, r) >= Uint64(u.offset + u.count - 1)
<1>1. r.count \in Nat /\ Bytes(S) \in Nat
  BY BytesType, AioAssumption
<1>2. Uint64(s.bytesWritten + r.count) = Uint64(Bytes(S) + r.count)
  BY <1>1, Uint64Sum
<1>3. Bytes(S \cup {r}) = Bytes(S) + r.count
  BY <1>1, BytesAdd
<1>4. ASSUME NEW u \in S, u.count > 0
      PROVE  maxOffsetAfter(s, r) >= Uint64(u.offset + u.count - 1)
  <2>1. s.maxOffsetWritten >= Uint64(u.offset + u.count - 1)
    BY <1>4
  <2>2. maxOffsetAfter(s, r) >= s.maxOffsetWritten
    BY MaxOffsetCovers
  <2>3. u.offset + u.count - 1 \in Int
    BY AioAssumption
  <2>4. /\ Uint64(u.offset + u.count - 1) \in Int
        /\ s.maxOffsetWritten \in Int /\ maxOffsetAfter(s, r) \in Int
    BY <2>3, Uint64Type, MaxOffsetType, AioAssumption DEF Stats
  <2>5. QED
    BY <2>1, <2>2, <2>4
<1>5. QED
  BY <1>2, <1>3, <1>4, MaxOffsetCovers

\* Each critical section counts the one request that goes through it.
LEMMA TransferCounts ==
  ASSUME NEW s \in Stats, NEW r \in Requests, NEW sw, NEW cw, NEW sr, NEW cr,
         NEW writes \in SUBSET Requests, IsFiniteSet(writes), r \notin writes,
         Counts(s, sw, cw, sr, cr, writes)
  PROVE  Counts(transferStats(s, r), sw, cw, sr, cr,
                IF IsWrite(r) THEN writes \cup {r} ELSE writes)
<1>1. CASE IsWrite(r)
  BY <1>1, WritesGrow DEF Counts, transferStats, Stats
<1>2. CASE ~IsWrite(r)
  BY <1>2 DEF Counts, transferStats, Stats
<1>3. QED
  BY <1>1, <1>2

LEMMA SubmitCounts ==
  ASSUME NEW s \in Stats, NEW r \in Requests, NEW sw, NEW cw, NEW sr, NEW cr, NEW writes,
         sw \subseteq Requests, cw \subseteq Requests,
         IsFiniteSet(sw), IsFiniteSet(cw), IsFiniteSet(sr),
         r \notin sw, r \notin sr,
         Counts(s, sw, cw, sr, cr, writes)
  PROVE  Counts(submitStats(s, r), IF IsWrite(r) THEN sw \cup {r} ELSE sw, cw,
                IF IsWrite(r) THEN sr ELSE sr \cup {r}, cr, writes)
<1>1. r.count \in Nat
  BY AioAssumption
<1>2. CASE IsWrite(r)
  <2>1. Cardinality(sw \cup {r}) = Cardinality(sw) + 1
    BY FS_AddElement
  <2>2. Bytes(sw) \in Nat /\ Bytes(cw) \in Nat /\ Bytes(sw \cup {r}) = r.count + Bytes(sw)
    BY BytesType, BytesAdd
  <2>3. Uint64(s.bytesAsyncWritePending + r.count) = Uint64(Bytes(sw \cup {r}) - Bytes(cw))
    <3>1. PICK pending \in Int : pending = Bytes(sw) - Bytes(cw)
      BY <2>2
    <3>2. Uint64(Uint64(pending) + r.count) = Uint64(pending + r.count)
      BY <1>1, Uint64Sum
    <3>3. pending + r.count = Bytes(sw \cup {r}) - Bytes(cw)
      BY <1>1, <2>2, <3>1
    <3>4. QED
      BY <3>1, <3>2, <3>3 DEF Counts
  <2>4. QED
    BY <1>2, <2>1, <2>3 DEF Counts, submitStats, Stats
<1>3. CASE ~IsWrite(r)
  <2>1. Cardinality(sr \cup {r}) = Cardinality(sr) + 1
    BY FS_AddElement
  <2>2. QED
    BY <1>3, <2>1 DEF Counts, submitStats, Stats
<1>4. QED
  BY <1>2, <1>3

LEMMA CompletionCounts ==
  ASSUME NEW s \in Stats, NEW r \in Requests, NEW sw, NEW cw, NEW sr, NEW cr, NEW writes,
         sw \subseteq Requests, cw \subseteq Requests, writes \in SUBSET Requests,
         IsFiniteSet(sw), IsFiniteSet(cw), IsFiniteSet(cr), IsFiniteSet(writes),
         r \notin cw, r \notin cr, r \notin writes,
         Counts(s, sw, cw, sr, cr, writes)
  PROVE  Counts(completionStats(s, r), sw, IF IsWrite(r) THEN cw \cup {r} ELSE cw,
                sr, IF IsWrite(r) THEN cr ELSE cr \cup {r},
                IF IsWrite(r) THEN writes \cup {r} ELSE writes)
<1>1. r.count \in Nat
  BY AioAssumption
<1>2. CASE IsWrite(r)
  <2>1. Cardinality(cw \cup {r}) = Cardinality(cw) + 1
    BY FS_AddElement
  <2>2. Bytes(sw) \in Nat /\ Bytes(cw) \in Nat /\ Bytes(cw \cup {r}) = r.count + Bytes(cw)
    BY BytesType, BytesAdd
  <2>3. Uint64(s.bytesAsyncWritePending - r.count) = Uint64(Bytes(sw) - Bytes(cw \cup {r}))
    <3>1. PICK less \in Int : less = -r.count
      BY <1>1
    <3>2. Uint64(Uint64(Bytes(sw) - Bytes(cw)) + less) = Uint64(Bytes(sw) - Bytes(cw) + less)
      BY <2>2, Uint64Sum
    <3>3. Bytes(sw) - Bytes(cw) + less = Bytes(sw) - Bytes(cw \cup {r})
      BY <1>1, <2>2, <3>1
    <3>4. s.bytesAsyncWritePending - r.count = s.bytesAsyncWritePending + less
      BY <1>1, <3>1, AioAssumption DEF Stats
    <3>5. QED
      BY <3>2, <3>3, <3>4 DEF Counts
  <2>4. /\ Uint64(s.bytesWritten + r.count) = Uint64(Bytes(writes \cup {r}))
        /\ \A u \in writes \cup {r} :
             u.count > 0 => maxOffsetAfter(s, r) >= Uint64(u.offset + u.count - 1)
    BY WritesGrow DEF Counts
  <2>5. QED
    BY <1>2, <2>1, <2>3, <2>4 DEF Counts, completionStats, Stats
<1>3. CASE ~IsWrite(r)
  <2>1. Cardinality(cr \cup {r}) = Cardinality(cr) + 1
    BY FS_AddElement
  <2>2. QED
    BY <1>3, <2>1 DEF Counts, completionStats, Stats
<1>4. QED
  BY <1>2, <1>3

\* All the sets of the counters are finite sets of requests.
LEMMA CountedAreFinite ==
  ASSUME CInv, NEW fd, NEW op
  PROVE  /\ Started(fd, op) \in SUBSET Requests /\ IsFiniteSet(Started(fd, op))
         /\ Completed(fd, op) \in SUBSET Requests /\ IsFiniteSet(Completed(fd, op))
         /\ CountedWrites(fd) \in SUBSET Requests /\ IsFiniteSet(CountedWrites(fd))
<1>1. Started(fd, op) \subseteq Active /\ Completed(fd, op) \subseteq Active
  BY DEF CInv, Started, Completed, Active, RequestsOf
<1>2. CountedWrites(fd) \subseteq Active
  BY DEF CInv, CountedWrites, Active
<1>3. Active \subseteq Requests
  BY DEF Active
<1>4. QED
  BY <1>1, <1>2, <1>3, FS_Subset DEF CInv

\* A step that counts nothing.
LEMMA CountsFrame ==
  ASSUME CInv, stats' = stats,
         \A u \in Requests :
           /\ (sub[u] = "returned")' <=> sub[u] = "returned"
           /\ (cb[u] \in {"counted", "reported", "done"})'
                <=> cb[u] \in {"counted", "reported", "done"},
         NEW fd \in Fds
  PROVE  Counts(stats[fd], Started(fd, "aio_write"), Completed(fd, "aio_write"),
                Started(fd, "aio_read"), Completed(fd, "aio_read"), CountedWrites(fd))'
<1>1. \A op : Started(fd, op)' = Started(fd, op) /\ Completed(fd, op)' = Completed(fd, op)
  BY DEF Started, Completed, RequestsOf
<1>2. CountedWrites(fd)' = CountedWrites(fd)
  BY DEF CountedWrites
<1>3. QED
  BY <1>1, <1>2 DEF CInv
\* A step of the thread that makes call r.
LEMMA CallCounts ==
  ASSUME IInv, CInv, NEW r \in Requests, CallNext(r)
  PROVE  CInv'
<1> USE DEF IInv
<1>1. r.count \in Nat /\ r.op \in SyncOps \cup AsyncOps /\ r.fd \in Fds /\ stats[r.fd] \in Stats
  BY AioAssumption DEF TypeOK
<1>2. IsFiniteSet(Active')
  <2>1. Active' \subseteq Active \cup {r}
    BY OtherRequests DEF Active
  <2>2. IsFiniteSet(Active \cup {r})
    BY FS_AddElement DEF CInv
  <2>3. QED
    BY <2>1, <2>2, FS_Subset
<1>3. \A u \in Requests : u # r => sub'[u] = sub[u] /\ cb'[u] = cb[u]
  BY OtherRequests
<1>4. CASE Look(r) \/ Refuse(r) \/ Transfer(r)
  <2>1. /\ stats' = stats /\ cb' = cb
        /\ sub[r] \in {"idle", "looked"} /\ sub'[r] \in {"looked", "issued", "failed"}
        /\ IsAsync(r) => sub'[r] # "issued"
    BY <1>4 DEF Look, Refuse, Transfer, TypeOK
  <2>2. \A u \in Requests : cb'[u] # "none" <=> IsAsync(u) /\ sub'[u] \in {"issued", "returned"}
    BY <1>3, <2>1 DEF CInv
  <2>3. \A u \in Requests :
          /\ (sub[u] = "returned")' <=> sub[u] = "returned"
          /\ (cb[u] \in {"counted", "reported", "done"})'
               <=> cb[u] \in {"counted", "reported", "done"}
    BY <1>3, <2>1
  <2>4. QED
    BY <1>2, <2>1, <2>2, <2>3, CountsFrame DEF CInv
<1>5. CASE Submit(r)
  <2>1. /\ stats' = stats /\ IsAsync(r) /\ sub[r] = "looked" /\ sub'[r] = "issued"
        /\ cb'[r] \in {"inflight", "rejected"}
    BY <1>5 DEF Submit, TypeOK
  <2>2. cb[r] = "none"
    BY <2>1 DEF CInv
  <2>3. \A u \in Requests : cb'[u] # "none" <=> IsAsync(u) /\ sub'[u] \in {"issued", "returned"}
    BY <1>3, <2>1 DEF CInv
  <2>4. \A u \in Requests :
          /\ (sub[u] = "returned")' <=> sub[u] = "returned"
          /\ (cb[u] \in {"counted", "reported", "done"})'
               <=> cb[u] \in {"counted", "reported", "done"}
    BY <1>3, <2>1, <2>2
  <2>5. QED
    BY <1>2, <2>1, <2>3, <2>4, CountsFrame DEF CInv
<1>6. CASE TransferCount(r)
  <2>1. /\ ~IsAsync(r) /\ sub[r] = "issued" /\ sub'[r] = "returned" /\ cb' = cb
        /\ stats' = [stats EXCEPT ![r.fd] = transferStats(stats[r.fd], r)]
    BY <1>6 DEF TransferCount, TypeOK
  <2>2. \A u \in Requests : cb'[u] # "none" <=> IsAsync(u) /\ sub'[u] \in {"issued", "returned"}
    BY <1>3, <2>1 DEF CInv
  <2>3. ASSUME NEW fd \in Fds
        PROVE  Counts(stats[fd], Started(fd, "aio_write"), Completed(fd, "aio_write"),
                      Started(fd, "aio_read"), Completed(fd, "aio_read"), CountedWrites(fd))'
    <3>1. /\ Started(fd, "aio_write")' = Started(fd, "aio_write")
          /\ Started(fd, "aio_read")' = Started(fd, "aio_read")
          /\ Completed(fd, "aio_write")' = Completed(fd, "aio_write")
          /\ Completed(fd, "aio_read")' = Completed(fd, "aio_read")
      BY <1>3, <2>1 DEF Started, Completed, RequestsOf, IsAsync, AsyncOps
    <3>2. CASE fd # r.fd
      <4>1. CountedWrites(fd)' = CountedWrites(fd)
        BY <1>3, <2>1, <3>2 DEF CountedWrites
      <4>2. stats'[fd] = stats[fd]
        BY <2>1, <3>2 DEF TypeOK
      <4>3. QED
        BY <3>1, <4>1, <4>2 DEF CInv
    <3>3. CASE fd = r.fd
      <4>1. /\ r \notin CountedWrites(fd)
            /\ CountedWrites(fd)' = IF IsWrite(r) THEN CountedWrites(fd) \cup {r}
                                                  ELSE CountedWrites(fd)
        BY <1>3, <2>1, <3>3 DEF CountedWrites
      <4>2. stats'[fd] = transferStats(stats[fd], r)
        BY <1>1, <2>1, <3>3 DEF TypeOK
      <4>3. CountedWrites(fd) \in SUBSET Requests /\ IsFiniteSet(CountedWrites(fd))
        BY CountedAreFinite
      <4>4. Counts(stats'[fd], Started(fd, "aio_write"), Completed(fd, "aio_write"),
                   Started(fd, "aio_read"), Completed(fd, "aio_read"),
                   IF IsWrite(r) THEN CountedWrites(fd) \cup {r} ELSE CountedWrites(fd))
        BY <1>1, <3>3, <4>1, <4>2, <4>3, TransferCounts DEF CInv
      <4>5. QED
        BY <3>1, <4>1, <4>4
    <3>4. QED
      BY <3>2, <3>3
  <2>4. QED
    BY <1>2, <2>2, <2>3 DEF CInv
<1>7. CASE SubmitCount(r)
  <2>1. /\ IsAsync(r) /\ sub[r] = "issued" /\ sub'[r] = "returned" /\ cb' = cb
        /\ stats' = [stats EXCEPT ![r.fd] = submitStats(stats[r.fd], r)]
    BY <1>7 DEF SubmitCount, TypeOK
  <2>2. \A u \in Requests : cb'[u] # "none" <=> IsAsync(u) /\ sub'[u] \in {"issued", "returned"}
    BY <1>3, <2>1 DEF CInv
  <2>3. r.op = IF IsWrite(r) THEN "aio_write" ELSE "aio_read"
    BY <1>1, <2>1 DEF IsAsync, IsWrite, AsyncOps
  <2>4. ASSUME NEW fd \in Fds
        PROVE  Counts(stats[fd], Started(fd, "aio_write"), Completed(fd, "aio_write"),
                      Started(fd, "aio_read"), Completed(fd, "aio_read"), CountedWrites(fd))'
    <3>1. /\ CountedWrites(fd)' = CountedWrites(fd)
          /\ Completed(fd, "aio_write")' = Completed(fd, "aio_write")
          /\ Completed(fd, "aio_read")' = Completed(fd, "aio_read")
      BY <1>3, <2>1 DEF CountedWrites, Completed, RequestsOf
    <3>2. CASE fd # r.fd
      <4>1. /\ Started(fd, "aio_write")' = Started(fd, "aio_write")
            /\ Started(fd, "aio_read")' = Started(fd, "aio_read")
        BY <1>3, <2>1, <3>2 DEF Started, RequestsOf
      <4>2. stats'[fd] = stats[fd]
        BY <2>1, <3>2 DEF TypeOK
      <4>3. QED
        BY <3>1, <4>1, <4>2 DEF CInv
    <3>3. CASE fd = r.fd
      <4>1. /\ Started(fd, "aio_write")' = IF IsWrite(r) THEN Started(fd, "aio_write") \cup {r}
                                                         ELSE Started(fd, "aio_write")
            /\ Started(fd, "aio_read")' = IF IsWrite(r) THEN Started(fd, "aio_read")
                                                        ELSE Started(fd, "aio_read") \cup {r}
            /\ r \notin Started(fd, "aio_write") /\ r \notin Started(fd, "aio_read")
        BY <1>3, <2>1, <2>3, <3>3 DEF Started, RequestsOf
      <4>2. stats'[fd] = submitStats(stats[fd], r)
        BY <1>1, <2>1, <3>3 DEF TypeOK
      <4>3. \A op : /\ Started(fd, op) \subseteq Requests /\ IsFiniteSet(Started(fd, op))
                    /\ Completed(fd, op) \subseteq Requests /\ IsFiniteSet(Completed(fd, op))
        BY CountedAreFinite
      <4>4. Counts(submitStats(stats[fd], r),
                   IF IsWrite(r) THEN Started(fd, "aio_write") \cup {r} ELSE Started(fd, "aio_write"),
                   Completed(fd, "aio_write"),
                   IF IsWrite(r) THEN Started(fd, "aio_read") ELSE Started(fd, "aio_read") \cup {r},
                   Completed(fd, "aio_read"), CountedWrites(fd))
        BY <1>1, <3>3, <4>1, <4>3, SubmitCounts DEF CInv
      <4>5. QED
        BY <3>1, <4>1, <4>2, <4>4
    <3>4. QED
      BY <3>2, <3>3
  <2>5. QED
    BY <1>2, <2>2, <2>4 DEF CInv
<1>8. QED
  BY <1>4, <1>5, <1>6, <1>7 DEF CallNext

\* A step of the callback of r.
LEMMA CallbackCounts ==
  ASSUME IInv, CInv, NEW r \in Requests, CallbackNext(r)
  PROVE  CInv'
<1> USE DEF IInv
<1>1. r.count \in Nat /\ r.op \in SyncOps \cup AsyncOps /\ r.fd \in Fds /\ stats[r.fd] \in Stats
  BY AioAssumption DEF TypeOK
<1>2. sub' = sub
  BY DEF CallbackNext, Complete, CopyOut, FindRef, CountCompletion, Report, CountCallback
<1>3. Active' = Active
  BY <1>2 DEF Active
<1>4. \A u \in Requests : u # r => cb'[u] = cb[u]
  BY OtherRequests
<1>5. cb[r] # "none" /\ cb'[r] # "none"
  BY DEF CallbackNext, Complete, CopyOut, FindRef, CountCompletion, Report, CountCallback, TypeOK
<1>6. \A u \in Requests : cb'[u] # "none" <=> IsAsync(u) /\ sub'[u] \in {"issued", "returned"}
  BY <1>2, <1>4, <1>5 DEF CInv
<1>7. CASE Complete(r) \/ CopyOut(r) \/ FindRef(r) \/ Report(r) \/ CountCallback(r)
  <2>1. stats' = stats
    BY <1>7 DEF Complete, CopyOut, FindRef, Report, CountCallback
  <2>2. cb'[r] \in {"counted", "reported", "done"} <=> cb[r] \in {"counted", "reported", "done"}
    <3>1. cb[r] = "ready" => fdState[r.fd] # "closed"
      BY DEF FileRefLive
    <3>2. QED
      BY <1>7, <3>1 DEF Complete, CopyOut, FindRef, Report, CountCallback, TypeOK
  <2>3. QED
    BY <1>2, <1>3, <1>4, <1>6, <2>1, <2>2, CountsFrame DEF CInv
<1>8. CASE CountCompletion(r)
  <2>1. /\ cb[r] = "counting" /\ cb'[r] = "counted" /\ IsAsync(r)
        /\ stats' = [stats EXCEPT ![r.fd] = completionStats(stats[r.fd], r)]
    BY <1>8 DEF CountCompletion, TypeOK, CInv
  <2>2. r.op = IF IsWrite(r) THEN "aio_write" ELSE "aio_read"
    BY <1>1, <2>1 DEF IsAsync, IsWrite, AsyncOps
  <2>3. ASSUME NEW fd \in Fds
        PROVE  Counts(stats[fd], Started(fd, "aio_write"), Completed(fd, "aio_write"),
                      Started(fd, "aio_read"), Completed(fd, "aio_read"), CountedWrites(fd))'
    <3>1. \A op : Started(fd, op)' = Started(fd, op)
      BY <1>2 DEF Started, RequestsOf
    <3>2. CASE fd # r.fd
      <4>1. CountedWrites(fd)' = CountedWrites(fd)
        BY <1>2, <1>4, <3>2 DEF CountedWrites
      <4>2. \A op : Completed(fd, op)' = Completed(fd, op)
        BY <1>4, <3>2 DEF Completed, RequestsOf
      <4>3. stats'[fd] = stats[fd]
        BY <2>1, <3>2 DEF TypeOK
      <4>4. QED
        BY <3>1, <4>1, <4>2, <4>3 DEF CInv
    <3>3. CASE fd = r.fd
      <4>1. /\ Completed(fd, "aio_write")' = IF IsWrite(r) THEN Completed(fd, "aio_write") \cup {r}
                                                           ELSE Completed(fd, "aio_write")
            /\ Completed(fd, "aio_read")' = IF IsWrite(r) THEN Completed(fd, "aio_read")
                                                          ELSE Completed(fd, "aio_read") \cup {r}
            /\ r \notin Completed(fd, "aio_write") /\ r \notin Completed(fd, "aio_read")
        BY <1>4, <2>1, <2>2, <3>3 DEF Completed, RequestsOf
      <4>2. /\ CountedWrites(fd)' = IF IsWrite(r) THEN CountedWrites(fd) \cup {r}
                                                  ELSE CountedWrites(fd)
            /\ r \notin CountedWrites(fd)
        BY <1>2, <1>4, <2>1, <3>3 DEF CountedWrites
      <4>3. stats'[fd] = completionStats(stats[fd], r)
        BY <1>1, <2>1, <3>3 DEF TypeOK
      <4>4. /\ \A op : /\ Started(fd, op) \subseteq Requests /\ IsFiniteSet(Started(fd, op))
                       /\ Completed(fd, op) \subseteq Requests /\ IsFiniteSet(Completed(fd, op))
            /\ CountedWrites(fd) \in SUBSET Requests /\ IsFiniteSet(CountedWrites(fd))
        BY CountedAreFinite
      <4>5. Counts(completionStats(stats[fd], r), Started(fd, "aio_write"),
                   IF IsWrite(r) THEN Completed(fd, "aio_write") \cup {r}
                                 ELSE Completed(fd, "aio_write"),
                   Started(fd, "aio_read"),
                   IF IsWrite(r) THEN Completed(fd, "aio_read")
                                 ELSE Completed(fd, "aio_read") \cup {r},
                   IF IsWrite(r) THEN CountedWrites(fd) \cup {r} ELSE CountedWrites(fd))
        BY <1>1, <3>3, <4>1, <4>2, <4>4, CompletionCounts DEF CInv
      <4>6. QED
        BY <3>1, <4>1, <4>2, <4>3, <4>5
    <3>4. QED
      BY <3>2, <3>3
  <2>4. QED
    BY <1>3, <1>6, <2>3 DEF CInv
<1>9. QED
  BY <1>7, <1>8 DEF CallbackNext

\* No call was made and nothing is counted.
LEMMA InitCInv == Init => CInv
<1> SUFFICES ASSUME Init PROVE CInv
  OBVIOUS
<1>1. Active = {} /\ IsFiniteSet({}) /\ Cardinality({}) = 0
  BY FS_EmptySet DEF Init, Active
<1>2. \A fd, op : Started(fd, op) = {} /\ Completed(fd, op) = {}
  BY DEF Init, Started, Completed, RequestsOf
<1>3. \A fd : CountedWrites(fd) = {}
  BY DEF Init, CountedWrites
<1>4. Bytes({}) = 0 /\ Uint64(0) = 0
  BY SumEmpty, AioAssumption DEF Bytes, Uint64
<1>5. \A fd \in Fds : Counts(stats[fd], {}, {}, {}, {}, {})
  BY <1>1, <1>4 DEF Init, NoStats, Counts
<1>6. QED
  BY <1>1, <1>2, <1>3, <1>5 DEF CInv, Init

\* Callers and callbacks keep the counters true, each in its critical section,
\* and close does not touch them.
LEMMA StepCInv ==
  ASSUME IInv, CInv, [Next]_vars
  PROVE  CInv'
<1>1. ASSUME NEW r \in Requests, CallNext(r) \/ CallbackNext(r)
      PROVE  CInv'
  BY <1>1, CallCounts, CallbackCounts
<1>2. ASSUME UNCHANGED <<stats, sub, cb>>
      PROVE  CInv'
  <2>1. Active' = Active
    BY <1>2 DEF Active
  <2>2. QED
    BY <1>2, <2>1, CountsFrame DEF CInv
<1>3. ASSUME NEW fd \in Fds, CloseLock(fd) \/ CloseErase(fd)
      PROVE  CInv'
  BY <1>2, <1>3 DEF CloseLock, CloseErase
<1>4. CASE UNCHANGED vars
  BY <1>2, <1>4 DEF vars
<1>5. QED
  BY <1>1, <1>3, <1>4 DEF Next

THEOREM CountersInvariance == Spec => [](IInv /\ CInv)
<1>1. Init => IInv /\ CInv
  BY InitIInv, InitCInv
<1>2. IInv /\ CInv /\ [Next]_vars => (IInv /\ CInv)'
  BY StepIInv, StepCInv
<1>3. QED
  BY <1>1, <1>2, PTL DEF Spec

\* When no submission is half way and none was refused, the requests started
\* and not completed are the ones outstanding.
LEMMA OutstandingAreTheRest ==
  ASSUME IInv, CInv, NEW fd \in Fds, Settled(fd), NEW op \in AsyncOps
  PROVE  /\ Completed(fd, op) \subseteq Started(fd, op)
         /\ Outstanding(fd, op) = Started(fd, op) \ Completed(fd, op)
<1>1. ASSUME NEW r \in RequestsOf(fd, op)
      PROVE  /\ sub[r] # "issued" /\ cb[r] # "rejected"
             /\ cb[r] # "none" <=> sub[r] = "returned"
  <2>1. r \in Requests /\ r.fd = fd /\ IsAsync(r)
    BY DEF RequestsOf, IsAsync
  <2>2. sub[r] # "issued" /\ cb[r] # "rejected"
    BY <2>1 DEF Settled
  <2>3. QED
    BY <2>1, <2>2 DEF CInv
<1>2. \A r \in RequestsOf(fd, op) :
        cb[r] \in {"none", "rejected", "inflight", "called", "ready",
                   "counting", "counted", "reported", "done"}
  BY DEF IInv, TypeOK, RequestsOf
<1>3. QED
  BY <1>1, <1>2 DEF Completed, Started, Outstanding

\* In whatever order callers and callbacks reach the counters, and for as many
\* requests as there may be, they come out exact whenever no submission is half
\* way, although the bytes pending wrap below zero in between.
THEOREM CountersExact == Spec => []AsyncCountersExact
<1>1. IInv /\ CInv => AsyncCountersExact
  <2> SUFFICES ASSUME IInv, CInv, NEW fd \in Fds, Settled(fd)
               PROVE  /\ stats[fd].bytesAsyncWritePending = Uint64(Bytes(Outstanding(fd, "aio_write")))
                      /\ stats[fd].asyncWrStartCount - stats[fd].asyncWrCompletionCount
                           = Cardinality(Outstanding(fd, "aio_write"))
                      /\ stats[fd].asyncRdStartCount - stats[fd].asyncRdCompletionCount
                           = Cardinality(Outstanding(fd, "aio_read"))
    BY DEF AsyncCountersExact
  <2>1. ASSUME NEW op \in AsyncOps
        PROVE  /\ Cardinality(Started(fd, op)) - Cardinality(Completed(fd, op))
                    = Cardinality(Outstanding(fd, op))
               /\ Bytes(Started(fd, op)) - Bytes(Completed(fd, op)) = Bytes(Outstanding(fd, op))
    <3> DEFINE S == Started(fd, op)
               C == Completed(fd, op)
    <3>1. S \in SUBSET Requests /\ IsFiniteSet(S)
      BY CountedAreFinite
    <3>2. C \in SUBSET S /\ Outstanding(fd, op) = S \ C
      BY OutstandingAreTheRest
    <3> HIDE DEF S, C
    <3>3. IsFiniteSet(C) /\ IsFiniteSet(S \ C) /\ C \in SUBSET Requests /\ S \ C \in SUBSET Requests
      BY <3>1, <3>2, FS_Subset
    <3>4. S \cap C = C
      BY <3>2
    <3>5. Cardinality(S \ C) = Cardinality(S) - Cardinality(C)
      BY <3>1, <3>4, FS_Difference
    <3>6. /\ Cardinality(S) \in Nat /\ Cardinality(C) \in Nat
          /\ Bytes(S) \in Nat /\ Bytes(C) \in Nat /\ Bytes(S \ C) \in Nat
      BY <3>1, <3>3, FS_CardinalityType, BytesType
    <3>7. Bytes(S) = Bytes(C) + Bytes(S \ C)
      BY <3>1, <3>2, BytesSplit
    <3>8. QED
      BY <3>2, <3>5, <3>6, <3>7 DEF S, C
  <2>2. "aio_write" \in AsyncOps /\ "aio_read" \in AsyncOps
    BY DEF AsyncOps
  <2>3. QED
    BY <2>1, <2>2 DEF CInv, Counts
<1>2. QED
  BY CountersInvariance, <1>1, PTL

\* In whatever order writes complete, the highest offset covers each that is
\* counted, and the bytes written are theirs.
THEOREM WritesCovered == Spec => []WriteStatsCover
<1>1. CInv => WriteStatsCover
  BY DEF CInv, Counts, WriteStatsCover
<1>2. QED
  BY CountersInvariance, <1>1, PTL
=============================================================================
