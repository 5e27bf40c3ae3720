------------------------ MODULE CephFileTable_proofs ------------------------
(***************************************************************************)
(* Proofs about CephFileTable, for every set of file objects, callers and  *)
(* names and every width of the descriptor.                                *)
(***************************************************************************)
EXTENDS CephFileTable, FiniteSetTheorems, TLAPS

\* Descriptors are allotted in order: no live or remembered one lies ahead
\* of the counter.
FdsBehindCounter ==
  /\ \A fd \in DOMAIN g_fds : fd < g_nextCephFd
  /\ \A h \in Handles : m_fd[h] < g_nextCephFd

\* A file object in the middle of an open, or with a file open, knows which.
RequestKnown ==
  /\ \A h \in Handles : pc[h] # "closed" => req[h] \in FileRef
  /\ \A h \in Handles : Opened(h) => m_fd[h] >= 0

\* The inductive invariant.
IInv ==
  /\ TypeOK
  /\ FdsBehindCounter
  /\ RequestKnown
  /\ OpenForWriteExact
  /\ OpenHandleReachesItsFile
  /\ StaleFdReachesNothing

-----------------------------------------------------------------------------
(* The multiset's count follows the table's                                *)

\* The table never holds infinitely many descriptors for a name.
LEMMA WriteFdsFinite ==
  ASSUME TypeOK, NEW n
  PROVE  IsFiniteSet(WriteFds(n)) /\ Cardinality(WriteFds(n)) \in Nat
<1>1. MaxOpens - 1 \in Int
  BY FileTableAssumption
<1>2. IsFiniteSet(0 .. MaxOpens - 1)
  BY <1>1, FS_Interval
<1>3. WriteFds(n) \in SUBSET (0 .. MaxOpens - 1)
  BY DEF WriteFds, TypeOK
<1>4. QED
  BY <1>2, <1>3, FS_Subset, FS_CardinalityType

\* Inserting a reference under a new descriptor keeps the counts equal.
LEMMA InsertKeepsExact ==
  ASSUME TypeOK, OpenForWriteExact, NEW fr \in FileRef, insertFileRef(fr),
         g_nextCephFd \notin DOMAIN g_fds
  PROVE  OpenForWriteExact'
<1> DEFINE fd == g_nextCephFd
<1> SUFFICES ASSUME NEW n \in Names
             PROVE  g_filesOpenForWrite'[n] = Cardinality(WriteFds(n)')
  BY DEF OpenForWriteExact
<1>1. IsFiniteSet(WriteFds(n)) /\ Cardinality(WriteFds(n)) \in Nat
  BY WriteFdsFinite
<1>2. g_filesOpenForWrite[n] = Cardinality(WriteFds(n)) /\ fd \notin WriteFds(n)
  BY DEF OpenForWriteExact, WriteFds
<1>3. /\ DOMAIN g_fds' = DOMAIN g_fds \cup {fd}
      /\ g_fds'[fd] = fr
      /\ \A x \in DOMAIN g_fds : g_fds'[x] = g_fds[x]
  BY DEF insertFileRef
<1>4. CASE fr.name = n /\ Writes(fr.flags)
  <2>1. WriteFds(n)' = WriteFds(n) \cup {fd}
    BY <1>3, <1>4 DEF WriteFds
  <2>2. g_filesOpenForWrite'[n] = g_filesOpenForWrite[n] + 1
    BY <1>4 DEF insertFileRef, TypeOK
  <2>3. QED
    BY <1>1, <1>2, <2>1, <2>2, FS_AddElement
<1>5. CASE ~(fr.name = n /\ Writes(fr.flags))
  <2>1. WriteFds(n)' = WriteFds(n)
    BY <1>3, <1>5 DEF WriteFds
  <2>2. g_filesOpenForWrite'[n] = g_filesOpenForWrite[n]
    BY <1>5 DEF insertFileRef, TypeOK, FileRef
  <2>3. QED
    BY <1>2, <2>1, <2>2
<1>6. QED
  BY <1>4, <1>5

\* Deleting a live reference keeps the counts equal and natural: the
\* occurrence that is taken out of the multiset was there.
LEMMA DeleteKeepsExact ==
  ASSUME TypeOK, OpenForWriteExact, NEW fd \in DOMAIN g_fds,
         deleteFileRef(fd, g_fds[fd])
  PROVE  OpenForWriteExact' /\ g_filesOpenForWrite' \in [Names -> Nat]
<1> DEFINE fr == g_fds[fd]
<1>1. fr \in FileRef
  BY DEF TypeOK
<1>2. /\ DOMAIN g_fds' = DOMAIN g_fds \ {fd}
      /\ \A x \in DOMAIN g_fds' : g_fds'[x] = g_fds[x]
  BY DEF deleteFileRef
<1>3. ASSUME NEW n \in Names
      PROVE  /\ g_filesOpenForWrite'[n] = Cardinality(WriteFds(n)')
             /\ g_filesOpenForWrite'[n] \in Nat
  <2>1. IsFiniteSet(WriteFds(n)) /\ Cardinality(WriteFds(n)) \in Nat
    BY WriteFdsFinite
  <2>2. g_filesOpenForWrite[n] = Cardinality(WriteFds(n))
    BY DEF OpenForWriteExact
  <2>3. CASE fr.name = n /\ Writes(fr.flags)
    <3>1. WriteFds(n)' = WriteFds(n) \ {fd} /\ fd \in WriteFds(n)
      BY <1>2, <2>3 DEF WriteFds
    <3>2. /\ IsFiniteSet(WriteFds(n)')
          /\ Cardinality(WriteFds(n)') = Cardinality(WriteFds(n)) - 1
      BY <2>1, <3>1, FS_RemoveElement
    <3>3. Cardinality(WriteFds(n)') \in Nat
      BY <3>2, FS_CardinalityType
    <3>4. g_filesOpenForWrite'[n] = g_filesOpenForWrite[n] - 1
      BY <2>3 DEF deleteFileRef, TypeOK
    <3>5. QED
      BY <2>2, <3>2, <3>3, <3>4
  <2>4. CASE ~(fr.name = n /\ Writes(fr.flags))
    <3>1. WriteFds(n)' = WriteFds(n)
      BY <1>2, <2>4 DEF WriteFds
    <3>2. g_filesOpenForWrite'[n] = g_filesOpenForWrite[n]
      BY <1>1, <2>4 DEF deleteFileRef, TypeOK, FileRef
    <3>3. QED
      BY <2>1, <2>2, <3>1, <3>2
  <2>5. QED
    BY <2>3, <2>4
<1>4. DOMAIN g_filesOpenForWrite' = Names /\ g_filesOpenForWrite' = [n \in Names |-> g_filesOpenForWrite'[n]]
  BY DEF deleteFileRef, TypeOK
<1>5. QED
  BY <1>3, <1>4 DEF OpenForWriteExact

-----------------------------------------------------------------------------
(* The inductive invariant: initial states, and one lemma per action       *)

\* The descriptor a file object remembers is never the next one to allot:
\* either it lies behind the counter or it is -1, the largest unsigned int.
LEMMA RememberedIsNotNext ==
  ASSUME TypeOK, FdsBehindCounter, g_nextCephFd < MaxOpens, NEW h \in Handles
  PROVE  FdOf(h) # g_nextCephFd
BY FileTableAssumption DEF TypeOK, FdsBehindCounter, FdOf, ToUnsigned

\* The table starts empty and no file object remembers a descriptor but -1.
LEMMA InitIInv == Init => IInv
<1> SUFFICES ASSUME Init PROVE IInv
  OBVIOUS
<1>1. TypeOK
  BY FileTableAssumption DEF Init, TypeOK, Answers
<1>2. \A n \in Names : WriteFds(n) = {}
  BY DEF Init, WriteFds
<1>3. OpenForWriteExact
  BY <1>2, FS_EmptySet DEF Init, OpenForWriteExact
<1>4. FdsBehindCounter /\ RequestKnown
  BY DEF Init, FdsBehindCounter, RequestKnown, Opened
<1>5. OpenHandleReachesItsFile /\ StaleFdReachesNothing
  BY DEF Init, OpenHandleReachesItsFile, StaleFdReachesNothing, Opened, getFileRef
<1>6. QED
  BY <1>1, <1>3, <1>4, <1>5 DEF IInv

\* A step that touches neither the table nor a file object.
LEMMA FrameStep ==
  ASSUME IInv, UNCHANGED <<tableVars, handleVars>>, objects' \subseteq Names,
         stat' \in [Callers -> [name : Names \cup {NoFile}, answer : Answers]]
  PROVE  IInv'
<1> USE DEF IInv, tableVars, handleVars
<1>1. TypeOK'
  BY DEF TypeOK
<1>2. FdsBehindCounter' /\ RequestKnown'
  BY DEF FdsBehindCounter, RequestKnown, Opened
<1>3. \A n : WriteFds(n)' = WriteFds(n)
  BY DEF WriteFds
<1>4. OpenForWriteExact'
  BY <1>3 DEF OpenForWriteExact
<1>5. OpenHandleReachesItsFile'
  BY DEF OpenHandleReachesItsFile, Opened, getFileRef, FdOf
<1>6. StaleFdReachesNothing'
  BY DEF StaleFdReachesNothing, Opened, getFileRef, FdOf
<1>7. QED
  BY <1>1, <1>2, <1>4, <1>5, <1>6

\* A step of a file object that has no file open and has none open after.
LEMMA ClosedStep ==
  ASSUME IInv, UNCHANGED <<tableVars, m_fd, stat>>, objects' \subseteq Names,
         NEW h \in Handles, ~Opened(h),
         NEW p \in {"closed", "unlinking", "inserting"}, NEW r \in FileRef \cup {NoFile},
         pc' = [pc EXCEPT ![h] = p], req' = [req EXCEPT ![h] = r],
         p # "closed" => r \in FileRef
  PROVE  IInv'
<1> USE DEF IInv, tableVars
<1>1. TypeOK'
  BY DEF TypeOK
<1>2. \A k \in Handles : /\ Opened(k)' <=> Opened(k)
                         /\ Opened(k) => req'[k] = req[k]
                         /\ FdOf(k)' = FdOf(k)
  BY DEF TypeOK, Opened, FdOf
<1>3. FdsBehindCounter' /\ RequestKnown'
  BY <1>2 DEF FdsBehindCounter, RequestKnown, TypeOK
<1>4. \A n : WriteFds(n)' = WriteFds(n)
  BY DEF WriteFds
<1>5. OpenForWriteExact'
  BY <1>4 DEF OpenForWriteExact
<1>6. OpenHandleReachesItsFile'
  BY <1>2 DEF OpenHandleReachesItsFile, getFileRef
<1>7. StaleFdReachesNothing'
  BY <1>2 DEF StaleFdReachesNothing, getFileRef
<1>8. QED
  BY <1>1, <1>3, <1>5, <1>6, <1>7

\* Inserting a reference: it goes under a descriptor nobody remembers, and only
\* its own file object, if the descriptor is not negative, gets to know it.
LEMMA OpenInsertStep ==
  ASSUME IInv, NEW h \in Handles, OpenInsert(h)
  PROVE  IInv'
<1> DEFINE fd == g_nextCephFd
<1> USE DEF IInv
<1>1. req[h] \in FileRef /\ ~Opened(h)
  BY DEF OpenInsert, Inserting, RequestKnown, Opened
<1>2. fd < MaxOpens /\ fd \notin DOMAIN g_fds /\ fd \in Nat
  BY DEF OpenInsert, FdsBehindCounter, TypeOK
<1>3. insertFileRef(req[h])
  BY DEF OpenInsert
<1>4. /\ DOMAIN g_fds' = DOMAIN g_fds \cup {fd}
      /\ g_fds'[fd] = req[h]
      /\ \A x \in DOMAIN g_fds : g_fds'[x] = g_fds[x]
      /\ g_fds' = [x \in DOMAIN g_fds' |-> g_fds'[x]]
      /\ g_nextCephFd' = fd + 1
  BY <1>2, <1>3, FileTableAssumption DEF insertFileRef, TypeOK
<1>5. \A k \in Handles : FdOf(k) # fd
  BY <1>2, RememberedIsNotNext
<1>6. OpenForWriteExact'
  BY <1>1, <1>2, <1>3, InsertKeepsExact
<1>7. g_filesOpenForWrite' \in [Names -> Nat]
  BY <1>1, <1>3 DEF insertFileRef, TypeOK, FileRef
<1>8. g_fds' \in [DOMAIN g_fds' -> FileRef] /\ DOMAIN g_fds' \subseteq 0 .. MaxOpens - 1
  BY <1>1, <1>2, <1>4, FileTableAssumption DEF TypeOK
<1>9. CASE ToInt(fd) >= 0
  <2>1. /\ m_fd' = [m_fd EXCEPT ![h] = fd]
        /\ pc' = [pc EXCEPT ![h] = "open"]
        /\ UNCHANGED <<req, objects, stat>>
    BY <1>2, <1>9, FileTableAssumption DEF OpenInsert, ToInt
  <2>2. /\ \A k \in Handles \ {h} : /\ Opened(k)' <=> Opened(k)
                                   /\ FdOf(k)' = FdOf(k)
        /\ Opened(h)' /\ FdOf(h)' = fd
    BY <1>2, <2>1, FileTableAssumption DEF TypeOK, Opened, FdOf, ToUnsigned
  <2>3. TypeOK'
    BY <1>2, <1>4, <1>7, <1>8, <2>1, FileTableAssumption DEF TypeOK
  <2>4. FdsBehindCounter'
    BY <1>2, <1>4, <2>1, <2>3 DEF FdsBehindCounter, TypeOK
  <2>5. RequestKnown'
    BY <1>1, <1>2, <2>1, <2>2 DEF RequestKnown, TypeOK
  <2>6. OpenHandleReachesItsFile'
    BY <1>4, <1>5, <2>1, <2>2 DEF OpenHandleReachesItsFile, getFileRef
  <2>7. StaleFdReachesNothing'
    BY <1>4, <1>5, <2>2 DEF StaleFdReachesNothing, getFileRef
  <2>8. QED
    BY <1>6, <2>3, <2>4, <2>5, <2>6, <2>7
<1>10. CASE ~(ToInt(fd) >= 0)
  <2>1. /\ m_fd' = m_fd
        /\ pc' = [pc EXCEPT ![h] = "closed"]
        /\ req' = [req EXCEPT ![h] = NoFile]
        /\ UNCHANGED <<objects, stat>>
    BY <1>10 DEF OpenInsert
  <2>2. \A k \in Handles : /\ Opened(k)' <=> Opened(k)
                           /\ FdOf(k)' = FdOf(k)
                           /\ Opened(k) => req'[k] = req[k]
    BY <1>1, <2>1 DEF TypeOK, Opened, FdOf
  <2>3. TypeOK'
    BY <1>2, <1>4, <1>7, <1>8, <2>1, FileTableAssumption DEF TypeOK
  <2>4. FdsBehindCounter'
    BY <1>2, <1>4, <2>1, <2>3 DEF FdsBehindCounter, TypeOK
  <2>5. RequestKnown'
    BY <2>1, <2>2 DEF RequestKnown, TypeOK
  <2>6. OpenHandleReachesItsFile'
    BY <1>4, <1>5, <2>2 DEF OpenHandleReachesItsFile, getFileRef
  <2>7. StaleFdReachesNothing'
    BY <1>4, <1>5, <2>2 DEF StaleFdReachesNothing, getFileRef
  <2>8. QED
    BY <1>6, <2>3, <2>4, <2>5, <2>6, <2>7
<1>11. QED
  BY <1>9, <1>10

\* Close finds a live descriptor only for a file object that has it open.
LEMMA CloseLookupStep ==
  ASSUME IInv, NEW h \in Handles, CloseLookup(h)
  PROVE  IInv'
<1> USE DEF IInv
<1>1. pc[h] = "open"
  BY DEF CloseLookup, StaleFdReachesNothing, Opened
<1>2. \A k \in Handles : (Opened(k)' <=> Opened(k)) /\ FdOf(k)' = FdOf(k)
  BY <1>1 DEF CloseLookup, TypeOK, Opened, FdOf
<1>3. TypeOK'
  BY DEF CloseLookup, TypeOK, tableVars
<1>4. FdsBehindCounter' /\ RequestKnown'
  BY <1>1, <1>2 DEF CloseLookup, FdsBehindCounter, RequestKnown, TypeOK, tableVars
<1>5. \A n : WriteFds(n)' = WriteFds(n)
  BY DEF CloseLookup, WriteFds, tableVars
<1>6. OpenForWriteExact'
  BY <1>5 DEF CloseLookup, OpenForWriteExact, tableVars
<1>7. OpenHandleReachesItsFile' /\ StaleFdReachesNothing'
  BY <1>2 DEF CloseLookup, OpenHandleReachesItsFile, StaleFdReachesNothing, getFileRef, tableVars
<1>8. QED
  BY <1>3, <1>4, <1>6, <1>7

\* Erasing a reference: no other file object is open under its descriptor.
LEMMA CloseDeleteStep ==
  ASSUME IInv, NEW h \in Handles, CloseDelete(h)
  PROVE  IInv'
<1> DEFINE fd == FdOf(h)
<1> USE DEF IInv
<1>1. Opened(h) /\ fd \in DOMAIN g_fds
  BY DEF CloseDelete, Closing, Opened, OpenHandleReachesItsFile, getFileRef
<1>2. deleteFileRef(fd, g_fds[fd])
  BY DEF CloseDelete
<1>3. /\ DOMAIN g_fds' = DOMAIN g_fds \ {fd}
      /\ \A x \in DOMAIN g_fds' : g_fds'[x] = g_fds[x]
      /\ g_fds' = [x \in DOMAIN g_fds' |-> g_fds'[x]]
      /\ g_nextCephFd' = g_nextCephFd
  BY <1>2 DEF deleteFileRef
<1>4. /\ pc' = [pc EXCEPT ![h] = "closed"]
      /\ req' = [req EXCEPT ![h] = NoFile]
      /\ UNCHANGED <<objects, m_fd, stat>>
  BY DEF CloseDelete
<1>5. /\ ~Opened(h)'
      /\ \A k \in Handles \ {h} : (Opened(k)' <=> Opened(k)) /\ req'[k] = req[k]
      /\ \A k \in Handles : FdOf(k)' = FdOf(k)
  BY <1>4 DEF TypeOK, Opened, FdOf
<1>6. OpenForWriteExact' /\ g_filesOpenForWrite' \in [Names -> Nat]
  BY <1>1, <1>2, DeleteKeepsExact
<1>7. TypeOK'
  BY <1>3, <1>4, <1>6 DEF TypeOK
<1>8. FdsBehindCounter' /\ RequestKnown'
  BY <1>3, <1>4, <1>5 DEF FdsBehindCounter, RequestKnown, TypeOK
<1>9. OpenHandleReachesItsFile'
  BY <1>1, <1>3, <1>5 DEF OpenHandleReachesItsFile, getFileRef
<1>10. StaleFdReachesNothing'
  BY <1>3, <1>5 DEF StaleFdReachesNothing, getFileRef
<1>11. QED
  BY <1>6, <1>7, <1>8, <1>9, <1>10

-----------------------------------------------------------------------------
(* The invariant holds in every state                                      *)

\* Every step keeps the inductive invariant: one case per action.
LEMMA StepIInv == IInv /\ [Next]_vars => IInv'
<1> SUFFICES ASSUME IInv, [Next]_vars PROVE IInv'
  OBVIOUS
<1> USE DEF IInv
<1>1. ASSUME NEW h \in Handles, NEW fr \in FileRef,
             OpenRead(h, fr) \/ OpenNew(h, fr) \/ OpenTruncate(h, fr)
      PROVE  IInv'
  <2>1. ~Opened(h) /\ objects' \subseteq Names
    BY <1>1 DEF OpenRead, OpenNew, OpenTruncate, Opened, TypeOK
  <2>2. CASE OpenRead(h, fr)
    BY <2>1, <2>2, ClosedStep DEF OpenRead
  <2>3. CASE OpenNew(h, fr)
    BY <2>1, <2>3, ClosedStep DEF OpenNew
  <2>4. CASE OpenTruncate(h, fr)
    BY <2>1, <2>4, ClosedStep DEF OpenTruncate
  <2>5. QED
    BY <1>1, <2>2, <2>3, <2>4
<1>2. ASSUME NEW h \in Handles, OpenUnlink(h) \/ OpenUnlinkFails(h)
      PROVE  IInv'
  <2>1. ~Opened(h) /\ objects' \subseteq Names /\ req[h] \in FileRef
    BY <1>2 DEF OpenUnlink, OpenUnlinkFails, Unlinking, Opened, TypeOK, RequestKnown
  <2>2. CASE OpenUnlink(h)
    <3>1. req' = [req EXCEPT ![h] = req[h]]
      BY <2>2 DEF OpenUnlink, TypeOK
    <3>2. QED
      BY <2>1, <2>2, <3>1, ClosedStep DEF OpenUnlink
  <2>3. CASE OpenUnlinkFails(h)
    BY <2>1, <2>3, ClosedStep DEF OpenUnlinkFails
  <2>4. QED
    BY <1>2, <2>2, <2>3
<1>3. ASSUME NEW h \in Handles, Write(h)
      PROVE  IInv'
  <2>1. objects' \subseteq Names
    BY <1>3 DEF Write, TypeOK, getFileRef, FileRef
  <2>2. QED
    BY <1>3, <2>1, FrameStep DEF Write, TypeOK
<1>4. ASSUME NEW n \in Names, Unlink(n)
      PROVE  IInv'
  BY <1>4, FrameStep DEF Unlink, TypeOK
<1>5. ASSUME NEW c \in Callers, CallerNext(c)
      PROVE  IInv'
  <2>1. objects' \subseteq Names /\ UNCHANGED <<tableVars, handleVars>>
    BY <1>5 DEF CallerNext, StatStored, StatMissing, StatError, StatAnswer, TypeOK
  <2>2. stat' \in [Callers -> [name : Names \cup {NoFile}, answer : Answers]]
    BY <1>5 DEF CallerNext, StatStored, StatMissing, StatError, StatAnswer,
                Answered, TypeOK, Answers
  <2>3. QED
    BY <2>1, <2>2, FrameStep
<1>6. CASE UNCHANGED vars
  BY <1>6, FrameStep DEF vars, TypeOK
<1>7. QED
  BY <1>1, <1>2, <1>3, <1>4, <1>5, <1>6, OpenInsertStep, CloseLookupStep, CloseDeleteStep
     DEF Next, HandleNext

\* The table, the multiset and what the file objects remember stay in step
\* through every interleaving of opens, closes, writes, unlinks and stats.
THEOREM Invariance == Spec => []IInv
<1>1. QED
  BY InitIInv, StepIInv, PTL DEF Spec

\* The variables keep their types; in particular no count of the multiset of
\* names open for write goes below zero, so erase(find(name)) finds one.
THEOREM TypeCorrect == Spec => []TypeOK
<1>1. IInv => TypeOK
  BY DEF IInv
<1>2. QED
  BY Invariance, <1>1, PTL

\* A name is in the multiset once for every live descriptor open for write.
THEOREM MultisetExact == Spec => []OpenForWriteExact
<1>1. IInv => OpenForWriteExact
  BY DEF IInv
<1>2. QED
  BY Invariance, <1>1, PTL

\* An open file object reaches the file it opened, through a descriptor of
\* its own.
THEOREM HandlesKeepTheirFiles == Spec => []OpenHandleReachesItsFile
<1>1. IInv => OpenHandleReachesItsFile
  BY DEF IInv
<1>2. QED
  BY Invariance, <1>1, PTL

\* The descriptor left in a closed file object never comes to reach a file
\* opened by another.
THEOREM StaleFdsAreDead == Spec => []StaleFdReachesNothing
<1>1. IInv => StaleFdReachesNothing
  BY DEF IInv
<1>2. QED
  BY Invariance, <1>1, PTL

-----------------------------------------------------------------------------
(* What holds only while descriptors are non-negative ints                 *)

NonNegativeFds == 2 * MaxOpens <= NbFd

\* While descriptors are non-negative, an insertion always ends in an open file
\* object, and only the erasure of its descriptor ends that.
LEMMA StepNoOrphan ==
  ASSUME NonNegativeFds, IInv, NoOrphanEntry, [Next]_vars
  PROVE  NoOrphanEntry'
<1> USE DEF IInv
<1>1. CASE \E h \in Handles : OpenInsert(h)
  <2> PICK h \in Handles : OpenInsert(h)
    BY <1>1
  <2> DEFINE fd == g_nextCephFd
  <2>1. fd \in Nat /\ fd < MaxOpens /\ ToInt(fd) = fd /\ ~Opened(h)
    BY FileTableAssumption DEF OpenInsert, Inserting, Opened, TypeOK, ToInt, NonNegativeFds
  <2>2. /\ m_fd' = [m_fd EXCEPT ![h] = fd]
        /\ pc' = [pc EXCEPT ![h] = "open"]
        /\ DOMAIN g_fds' = DOMAIN g_fds \cup {fd}
    BY <2>1 DEF OpenInsert, insertFileRef
  <2>3. /\ \A k \in Handles \ {h} : (Opened(k) => Opened(k)') /\ FdOf(k)' = FdOf(k)
        /\ Opened(h)' /\ FdOf(h)' = fd
    BY <2>1, <2>2 DEF TypeOK, Opened, FdOf, ToUnsigned
  <2>4. QED
    BY <2>1, <2>2, <2>3 DEF NoOrphanEntry
<1>2. CASE \E h \in Handles : CloseDelete(h)
  <2> PICK h \in Handles : CloseDelete(h)
    BY <1>2
  <2>1. /\ DOMAIN g_fds' = DOMAIN g_fds \ {FdOf(h)}
        /\ \A k \in Handles \ {h} : Opened(k) => Opened(k)'
        /\ \A k \in Handles : FdOf(k)' = FdOf(k)
    BY DEF CloseDelete, deleteFileRef, TypeOK, Opened, FdOf
  <2>2. QED
    BY <2>1 DEF NoOrphanEntry
<1>3. ASSUME NEW h \in Handles, CloseLookup(h)
      PROVE  NoOrphanEntry'
  <2>1. \A k \in Handles : (Opened(k) => Opened(k)') /\ FdOf(k)' = FdOf(k)
    BY <1>3 DEF CloseLookup, TypeOK, Opened, FdOf
  <2>2. QED
    BY <1>3, <2>1 DEF CloseLookup, NoOrphanEntry, tableVars
<1>4. ASSUME NEW h \in Handles, ~Opened(h), g_fds' = g_fds, m_fd' = m_fd,
             NEW p, pc' = [pc EXCEPT ![h] = p]
      PROVE  NoOrphanEntry'
  <2>1. \A k \in Handles : (Opened(k) => Opened(k)') /\ FdOf(k)' = FdOf(k)
    BY <1>4 DEF TypeOK, Opened, FdOf
  <2>2. QED
    BY <1>4, <2>1 DEF NoOrphanEntry
<1>5. CASE UNCHANGED <<tableVars, handleVars>>
  BY <1>5 DEF NoOrphanEntry, Opened, FdOf, tableVars, handleVars
<1>6. ASSUME NEW c \in Callers, CallerNext(c)
      PROVE  UNCHANGED <<tableVars, handleVars>>
  BY <1>6 DEF CallerNext, StatStored, StatMissing, StatError, StatAnswer
<1>7. ASSUME NEW h \in Handles, Write(h)
      PROVE  UNCHANGED <<tableVars, handleVars>>
  BY <1>7 DEF Write
<1>8. ASSUME NEW n \in Names, Unlink(n)
      PROVE  UNCHANGED <<tableVars, handleVars>>
  BY <1>8 DEF Unlink
<1>9. CASE UNCHANGED vars
  BY <1>5, <1>9 DEF vars
<1>10. ASSUME NEW h \in Handles, NEW fr \in FileRef,
              OpenRead(h, fr) \/ OpenNew(h, fr) \/ OpenTruncate(h, fr)
       PROVE  NoOrphanEntry'
  BY <1>4, <1>10 DEF OpenRead, OpenNew, OpenTruncate, Opened, tableVars
<1>11. ASSUME NEW h \in Handles, OpenUnlink(h) \/ OpenUnlinkFails(h)
       PROVE  NoOrphanEntry'
  BY <1>4, <1>11 DEF OpenUnlink, OpenUnlinkFails, Unlinking, Opened, tableVars
<1>12. CASE Next
  BY <1>1, <1>2, <1>3, <1>5, <1>6, <1>7, <1>8, <1>10, <1>11, <1>12 DEF Next, HandleNext
<1>13. QED
  BY <1>9, <1>12

\* While descriptors are non-negative, whatever is in the table can be
\* closed: no open that failed left an entry behind.
THEOREM NothingLeaks ==
  ASSUME NonNegativeFds
  PROVE  Spec => []NoOrphanEntry
<1>1. Init => NoOrphanEntry
  BY DEF Init, NoOrphanEntry
<1>2. IInv /\ NoOrphanEntry /\ [Next]_vars => NoOrphanEntry'
  BY StepNoOrphan
<1>3. QED
  BY Invariance, <1>1, <1>2, PTL DEF Spec

-----------------------------------------------------------------------------
(* The refinement of OpenFiles                                             *)

\* The multiset answers for what the file objects have open.
LEMMA MultisetAnswers ==
  ASSUME IInv, NoOrphanEntry, NEW n \in Names
  PROVE  isOpenForWrite(n) <=> Promise!OpenForWrite(n)
<1> USE DEF IInv
<1>1. isOpenForWrite(n) <=> WriteFds(n) # {}
  <2>1. g_filesOpenForWrite[n] = Cardinality(WriteFds(n))
    BY DEF OpenForWriteExact
  <2>2. IsFiniteSet(WriteFds(n)) /\ Cardinality(WriteFds(n)) \in Nat
    BY WriteFdsFinite
  <2>3. Cardinality(WriteFds(n)) = 0 <=> WriteFds(n) = {}
    BY <2>2, FS_EmptySet
  <2>4. QED
    BY <2>1, <2>2, <2>3 DEF isOpenForWrite
<1>2. WriteFds(n) # {} <=>
        \E h \in Handles : Opened(h) /\ FdOf(h) \in WriteFds(n)
  BY DEF NoOrphanEntry, WriteFds
<1>3. ASSUME NEW h \in Handles
      PROVE  Opened(h) /\ FdOf(h) \in WriteFds(n) <=>
               OpenOf(h) # NoFile /\ OpenOf(h).writes /\ OpenOf(h).name = n
  <2>1. Opened(h) => FdOf(h) \in DOMAIN g_fds /\ OpenOf(h) # NoFile
    <3>1. Opened(h) => FdOf(h) \in DOMAIN g_fds /\ g_fds[FdOf(h)] \in FileRef
      BY DEF OpenHandleReachesItsFile, getFileRef, TypeOK
    <3>2. Opened(h) => OpenOf(h) \in [name : Names, writes : BOOLEAN]
      BY <3>1 DEF OpenOf, FileRef, Writes
    <3>3. QED
      BY <3>1, <3>2, FileTableAssumption
  <2>2. QED
    BY <2>1 DEF OpenOf, WriteFds
<1>4. QED
  BY <1>1, <1>2, <1>3 DEF Promise!OpenForWrite

\* What OpenFiles sees of a step that leaves every open file alone.
LEMMA SameOpenFiles ==
  ASSUME IInv, g_fds' = g_fds, m_fd' = m_fd,
         \A h \in Handles : Opened(h)' <=> Opened(h)
  PROVE  [h \in Handles |-> OpenOf(h)]' = [h \in Handles |-> OpenOf(h)]
BY DEF OpenOf, FdOf

\* The empty table is seen by OpenFiles as file objects that have nothing open.
LEMMA RefinesInit == Init => Promise!Init
BY DEF Init, Promise!Init, OpenOf, Opened

\* An open is one step of OpenFiles, the one that inserts the reference.
LEMMA RefinesOpenInsert ==
  ASSUME NonNegativeFds, IInv, NEW h \in Handles, OpenInsert(h)
  PROVE  \E f \in Promise!Files : Promise!Open(h, f)
<1> DEFINE fd == g_nextCephFd
<1> DEFINE f == [name |-> req[h].name, writes |-> Writes(req[h].flags)]
<1> USE DEF IInv
<1>1. fd \in Nat /\ fd < MaxOpens /\ ToInt(fd) = fd /\ ~Opened(h) /\ fd \notin DOMAIN g_fds
  BY FileTableAssumption DEF OpenInsert, Inserting, Opened, TypeOK, ToInt, NonNegativeFds,
                             FdsBehindCounter
<1>2. req[h] \in FileRef /\ f \in Promise!Files
  BY DEF OpenInsert, Inserting, RequestKnown, FileRef, Writes, Promise!Files
<1>3. /\ m_fd' = [m_fd EXCEPT ![h] = fd]
      /\ pc' = [pc EXCEPT ![h] = "open"]
      /\ g_fds'[fd] = req[h]
      /\ \A x \in DOMAIN g_fds : g_fds'[x] = g_fds[x]
      /\ UNCHANGED <<objects, stat>>
  BY <1>1 DEF OpenInsert, insertFileRef
<1>4. OpenOf(h) = NoFile /\ OpenOf(h)' = f
  BY <1>1, <1>3 DEF TypeOK, OpenOf, Opened, FdOf, ToUnsigned
<1>5. \A k \in Handles \ {h} : OpenOf(k)' = OpenOf(k)
  BY <1>1, <1>3 DEF TypeOK, OpenOf, Opened, FdOf, OpenHandleReachesItsFile, getFileRef
<1>6. Promise!Open(h, f)
  BY <1>3, <1>4, <1>5 DEF Promise!Open
<1>7. QED
  BY <1>2, <1>6

\* A close is one step of OpenFiles, the one that deletes the reference.
LEMMA RefinesCloseDelete ==
  ASSUME IInv, NEW h \in Handles, CloseDelete(h)
  PROVE  Promise!Close(h)
<1> USE DEF IInv
<1>1. Opened(h) /\ g_fds[FdOf(h)] \in FileRef
  BY DEF CloseDelete, Closing, Opened, OpenHandleReachesItsFile, getFileRef, TypeOK
<1>2. /\ \A x \in DOMAIN g_fds \ {FdOf(h)} : g_fds'[x] = g_fds[x]
      /\ pc' = [pc EXCEPT ![h] = "closed"]
      /\ UNCHANGED <<objects, m_fd, stat>>
  BY DEF CloseDelete, deleteFileRef
<1>3. OpenOf(h) \in [name : Names, writes : BOOLEAN]
  BY <1>1 DEF OpenOf, FileRef, Writes
<1>4. OpenOf(h) # NoFile
  BY <1>3, FileTableAssumption
<1>5. OpenOf(h)' = NoFile
  BY <1>2 DEF OpenOf, Opened, TypeOK
<1>6. \A k \in Handles \ {h} : OpenOf(k)' = OpenOf(k)
  BY <1>1, <1>2 DEF TypeOK, OpenOf, Opened, FdOf, OpenHandleReachesItsFile, getFileRef
<1>7. [k \in Handles |-> OpenOf(k)]' = [[k \in Handles |-> OpenOf(k)] EXCEPT ![h] = NoFile]
  BY <1>5, <1>6
<1>8. /\ [k \in Handles |-> OpenOf(k)][h] # NoFile
      /\ UNCHANGED <<objects, stat>>
  BY <1>2, <1>4
<1>9. QED
  BY <1>7, <1>8 DEF Promise!Close

\* Every step of the table is a step of OpenFiles or changes nothing it sees.
LEMMA RefinesStep ==
  ASSUME NonNegativeFds, IInv, NoOrphanEntry, [Next]_vars
  PROVE  [Promise!Next]_(Promise!vars)
<1> USE DEF IInv
<1>1. ASSUME NEW h \in Handles, OpenInsert(h)
      PROVE  Promise!Next
  BY <1>1, RefinesOpenInsert DEF Promise!Next
<1>2. ASSUME NEW h \in Handles, CloseDelete(h)
      PROVE  Promise!Next
  BY <1>2, RefinesCloseDelete DEF Promise!Next
<1>3. ASSUME NEW h \in Handles, NEW fr \in FileRef,
             OpenRead(h, fr) \/ OpenNew(h, fr) \/ OpenTruncate(h, fr)
      PROVE  UNCHANGED Promise!vars
  <2>1. /\ UNCHANGED <<g_fds, m_fd, objects, stat>>
        /\ \A k \in Handles : Opened(k)' <=> Opened(k)
    BY <1>3 DEF OpenRead, OpenNew, OpenTruncate, Opened, TypeOK, tableVars
  <2>2. QED
    BY <2>1, SameOpenFiles DEF Promise!vars
<1>4. ASSUME NEW h \in Handles, OpenUnlinkFails(h)
      PROVE  UNCHANGED Promise!vars
  <2>1. /\ UNCHANGED <<g_fds, m_fd, objects, stat>>
        /\ \A k \in Handles : Opened(k)' <=> Opened(k)
    BY <1>4 DEF OpenUnlinkFails, Unlinking, Opened, TypeOK, tableVars
  <2>2. QED
    BY <2>1, SameOpenFiles DEF Promise!vars
<1>5. ASSUME NEW h \in Handles, CloseLookup(h)
      PROVE  UNCHANGED Promise!vars
  <2>1. pc[h] = "open"
    BY <1>5 DEF CloseLookup, StaleFdReachesNothing, Opened
  <2>2. /\ UNCHANGED <<g_fds, m_fd, objects, stat>>
        /\ \A k \in Handles : Opened(k)' <=> Opened(k)
    BY <1>5, <2>1 DEF CloseLookup, Opened, TypeOK, tableVars
  <2>3. QED
    BY <2>2, SameOpenFiles DEF Promise!vars
<1>6. ASSUME NEW h \in Handles, OpenUnlink(h)
      PROVE  \E n \in Names : Promise!Remove(n)
  <2>1. /\ UNCHANGED <<g_fds, m_fd, stat>>
        /\ \A k \in Handles : Opened(k)' <=> Opened(k)
        /\ req[h].name \in Names
        /\ objects' = objects \ {req[h].name}
    BY <1>6 DEF OpenUnlink, Unlinking, Opened, TypeOK, tableVars, RequestKnown, FileRef
  <2>2. QED
    BY <2>1, SameOpenFiles DEF Promise!Remove
<1>7. ASSUME NEW n \in Names, Unlink(n)
      PROVE  Promise!Remove(n)
  <2>1. /\ UNCHANGED <<g_fds, m_fd, stat>>
        /\ \A k \in Handles : Opened(k)' <=> Opened(k)
    BY <1>7 DEF Unlink, Opened, tableVars, handleVars
  <2>2. QED
    BY <1>7, <2>1, SameOpenFiles DEF Unlink, Promise!Remove
<1>8. ASSUME NEW h \in Handles, Write(h)
      PROVE  Promise!Write(h)
  <2>1. /\ UNCHANGED <<g_fds, m_fd, stat>>
        /\ \A k \in Handles : Opened(k)' <=> Opened(k)
    BY <1>8 DEF Write, Opened, tableVars, handleVars
  <2>2. Opened(h) /\ g_fds[FdOf(h)] \in FileRef
    BY <1>8 DEF Write, StaleFdReachesNothing, getFileRef, TypeOK
  <2>3. OpenOf(h) \in [name : Names, writes : BOOLEAN]
    BY <2>2 DEF OpenOf, FileRef, Writes
  <2>4. /\ OpenOf(h) # NoFile
        /\ OpenOf(h).writes
        /\ OpenOf(h).name = g_fds[FdOf(h)].name
    BY <1>8, <2>2, <2>3, FileTableAssumption DEF Write, OpenOf
  <2>5. QED
    BY <1>8, <2>1, <2>4, SameOpenFiles DEF Write, Promise!Write
<1>9. ASSUME NEW c \in Callers, CallerNext(c)
      PROVE  Promise!Next
  <2>1. /\ UNCHANGED <<g_fds, m_fd, objects>>
        /\ \A k \in Handles : Opened(k)' <=> Opened(k)
    BY <1>9 DEF CallerNext, StatStored, StatMissing, StatError, StatAnswer,
                Opened, tableVars, handleVars
  <2>2. [h \in Handles |-> OpenOf(h)]' = [h \in Handles |-> OpenOf(h)]
    BY <2>1, SameOpenFiles
  <2>3. ASSUME NEW n \in Names, StatStored(c, n)
        PROVE  Promise!StatStored(c, n)
    BY <2>1, <2>2, <2>3 DEF StatStored, Answered, Promise!StatStored, TypeOK
  <2>4. ASSUME NEW n \in Names, StatMissing(c, n)
        PROVE  Promise!StatMissing(c, n)
    BY <2>1, <2>2, <2>4 DEF StatMissing, Promise!StatMissing, TypeOK
  <2>5. ASSUME StatError(c)
        PROVE  Promise!StatError(c)
    BY <2>1, <2>2, <2>5 DEF StatError, Answered, Promise!StatError, TypeOK
  <2>6. ASSUME StatAnswer(c)
        PROVE  Promise!StatAnswer(c)
    <3>1. stat[c].name \in Names
      BY <2>6 DEF StatAnswer, TypeOK
    <3>2. isOpenForWrite(stat[c].name) <=> Promise!OpenForWrite(stat[c].name)
      BY <3>1, MultisetAnswers
    <3>3. QED
      BY <2>1, <2>2, <2>6, <3>2 DEF StatAnswer, Answered, Promise!StatAnswer, TypeOK
  <2>7. QED
    BY <1>9, <2>3, <2>4, <2>5, <2>6 DEF CallerNext, Promise!Next
<1>10. CASE UNCHANGED vars
  <2>1. UNCHANGED <<g_fds, m_fd, objects, stat, pc>>
    BY <1>10 DEF vars, tableVars, handleVars
  <2>2. QED
    BY <2>1, SameOpenFiles DEF Promise!vars, Opened
<1>11. CASE Next
  BY <1>1, <1>2, <1>3, <1>4, <1>5, <1>6, <1>7, <1>8, <1>9, <1>11
     DEF Next, HandleNext, Promise!Next
<1>12. QED
  BY <1>10, <1>11

\* While descriptors are non-negative, the table with its descriptors, its
\* multiset and its threads implements OpenFiles, which has none of them.
THEOREM Refinement ==
  ASSUME NonNegativeFds
  PROVE  Spec => ImplementsOpenFiles
<1>1. IInv /\ NoOrphanEntry /\ [Next]_vars => [Promise!Next]_(Promise!vars)
  BY RefinesStep
<1>2. QED
  BY RefinesInit, Invariance, NothingLeaks, <1>1, PTL
     DEF Spec, ImplementsOpenFiles, Promise!Spec
=============================================================================
