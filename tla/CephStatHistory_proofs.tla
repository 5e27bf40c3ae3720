----------------------- MODULE CephStatHistory_proofs -----------------------
(***************************************************************************)
(* What a stat that answers ENOENT has seen, for every set of file         *)
(* objects, callers and names: the invariant of CephFileTable, carried     *)
(* over to the specification with the history variables.                   *)
(***************************************************************************)
EXTENDS CephStatHistory, CephFileTable_proofs

\* While a stat is looking at the table, the history knows of the moment it
\* is in.
NowSeen == \A c \in Callers : Asking(c) /\ AskedNotOpened(c) => notOpened[c]

\* The inductive invariant, with that of the table.
HInv ==
  /\ notOpened \in [Callers -> BOOLEAN]
  /\ NowSeen
  /\ StatSeesOpenWriter

\* When the multiset does not have a name, no file object has it open for write.
LEMMA NotInMultiset ==
  ASSUME IInv, NEW n \in Names, ~isOpenForWrite(n)
  PROVE  Writers(n) = {}
<1>1. IsFiniteSet(WriteFds(n)) /\ Cardinality(WriteFds(n)) = 0
  <2>1. IsFiniteSet(WriteFds(n)) /\ Cardinality(WriteFds(n)) \in Nat
    BY WriteFdsFinite DEF IInv
  <2>2. g_filesOpenForWrite[n] = Cardinality(WriteFds(n))
    BY DEF IInv, OpenForWriteExact
  <2>3. QED
    BY <2>1, <2>2 DEF isOpenForWrite
<1>2. WriteFds(n) = {}
  BY <1>1, FS_EmptySet
<1>3. \A h \in Writers(n) : FdOf(h) \in WriteFds(n)
  BY DEF Writers, WriteFds, IInv, OpenHandleReachesItsFile, getFileRef
<1>4. QED
  BY <1>2, <1>3

\* A stat that is answered ENOENT in this step was looking at the table, which
\* did not have its name; one that was answered before keeps its answer.
LEMMA AnsweredNow ==
  ASSUME IInv, [Next]_vars, NEW c \in Callers, stat'[c].answer = "ENOENT", stat'[c].name = NoFile
  PROVE  \/ Asking(c) /\ AskedNotOpened(c)
         \/ ~Asking(c) /\ stat[c].answer = "ENOENT"
<1>0. stat \in [Callers -> [name : Names \cup {NoFile}, answer : Answers]]
  BY DEF IInv, TypeOK
<1>1. CASE stat'[c] = stat[c]
  BY <1>1 DEF Asking
<1>2. ASSUME NEW d \in Callers, NEW a, Answered(d, a), stat'[c] # stat[c]
      PROVE  d = c /\ a = "ENOENT"
  BY <1>0, <1>2 DEF Answered
<1>3. ASSUME NEW d \in Callers, CallerNext(d), stat'[c] # stat[c]
      PROVE  Asking(c) /\ AskedNotOpened(c)
  <2>1. ~ (\E n \in Names : StatStored(d, n)) /\ ~StatError(d)
    BY <1>2, <1>3 DEF StatStored, StatError
  <2>2. ~ (\E n \in Names : StatMissing(d, n))
    BY <1>0, <1>3, FileTableAssumption DEF StatMissing
  <2>3. StatAnswer(d)
    BY <1>3, <2>1, <2>2 DEF CallerNext
  <2>4. d = c /\ ~isOpenForWrite(stat[c].name)
    BY <1>2, <1>3, <2>3 DEF StatAnswer
  <2>5. stat[c].name \in Names /\ Asking(c)
    BY <1>0, <2>3, <2>4 DEF StatAnswer, Asking
  <2>6. QED
    BY <2>4, <2>5, NotInMultiset DEF AskedNotOpened
<1>4. ASSUME ~ (\E d \in Callers : CallerNext(d))
      PROVE  stat' = stat
  <2>1. CASE \E h \in Handles : HandleNext(h)
    BY <2>1 DEF HandleNext, OpenRead, OpenNew, OpenTruncate, OpenUnlink, OpenUnlinkFails, OpenInsert,
                CloseLookup, CloseDelete, Write
  <2>2. CASE \E n \in Names : Unlink(n)
    BY <2>2 DEF Unlink
  <2>3. CASE UNCHANGED vars
    BY <2>3 DEF vars
  <2>4. QED
    BY <1>4, <2>1, <2>2, <2>3 DEF Next
<1>5. QED
  BY <1>1, <1>3, <1>4

\* The history keeps what the invariant needs.
LEMMA StepHInv ==
  ASSUME IInv, HInv, [HNext]_historyVars
  PROVE  HInv'
<1>1. CASE HNext
  <2>1. \A c \in Callers : notOpened'[c] =
           IF Asking(c)' THEN (Asking(c) /\ notOpened[c]) \/ AskedNotOpened(c)' ELSE notOpened[c]
    BY <1>1 DEF HNext, Track
  <2>2. notOpened' \in [Callers -> BOOLEAN]
    <3>1. notOpened' = [c \in Callers |-> notOpened'[c]]
      BY <1>1 DEF HNext, Track
    <3>2. \A c \in Callers : notOpened'[c] \in BOOLEAN
      BY <2>1 DEF HInv
    <3>3. QED
      BY <3>1, <3>2
  <2>3. NowSeen'
    BY <2>1 DEF NowSeen
  <2>4. StatSeesOpenWriter'
    <3> SUFFICES ASSUME NEW c \in Callers, stat'[c].answer = "ENOENT", ~Asking(c)'
                 PROVE  notOpened'[c]
      BY DEF StatSeesOpenWriter, Asking
    <3>1. notOpened'[c] = notOpened[c]
      BY <2>1
    <3>2. \/ Asking(c) /\ AskedNotOpened(c)
          \/ ~Asking(c) /\ stat[c].answer = "ENOENT"
      BY <1>1, AnsweredNow DEF HNext, Asking
    <3>3. QED
      BY <3>1, <3>2 DEF HInv, NowSeen, StatSeesOpenWriter
  <2>5. QED
    BY <2>2, <2>3, <2>4 DEF HInv
<1>2. CASE UNCHANGED historyVars
  BY <1>2 DEF historyVars, vars, handleVars, tableVars, HInv, NowSeen, StatSeesOpenWriter, Asking,
              AskedNotOpened, Writers, Opened
<1>3. QED
  BY <1>1, <1>2

\* A stat that answers ENOENT does so only if there was a moment during the
\* call when nobody had the file open for write: the look at the multiset
\* alone, whatever the store has said, is as good as one at the open files.
THEOREM StatSeesWriters == HSpec => []StatSeesOpenWriter
<1>1. HInit => Init /\ HInv
  BY DEF HInit, HInv, Init, NowSeen, StatSeesOpenWriter
<1>2. [HNext]_historyVars => [Next]_vars
  BY DEF HNext, historyVars
<1>3. IInv /\ [Next]_vars => IInv'
  BY StepIInv
<1>4. IInv /\ HInv /\ [HNext]_historyVars => HInv'
  BY StepHInv
<1>5. HInv => StatSeesOpenWriter
  BY DEF HInv
<1>6. QED
  BY InitIInv, <1>1, <1>2, <1>3, <1>4, <1>5, PTL DEF HSpec
=============================================================================
