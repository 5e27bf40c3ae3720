--------------------------- MODULE CephFileTable ---------------------------
(***************************************************************************)
(* The table of open files of XrdCephPosix.cc and the calls that read and  *)
(* write it: ceph_posix_open, ceph_posix_close, ceph_posix_stat,           *)
(* ceph_posix_unlink, and the write that makes an opened name exist in the *)
(* store.                                                                  *)
(*                                                                         *)
(* The framework runs these calls from many threads.  A step here is what  *)
(* a thread does atomically: one critical section of g_fd_mutex, or one    *)
(* request to the object store.  Between two steps every other thread may  *)
(* move.  The framework runs the calls on one file object one at a time.   *)
(*                                                                         *)
(* A call that returns without having changed anything (EBADF, EINVAL, a   *)
(* failed request to the store) is a stuttering step and has no action.    *)
(***************************************************************************)
EXTENDS Integers, FiniteSets

CONSTANTS
  Handles,   \* XrdCephOssFile objects
  Callers,   \* threads that stat a path
  Names,     \* physical file names
  NbFd,      \* number of values of an unsigned int: 2^32 in the code
  MaxOpens,  \* bound: how many file references are ever inserted
  NoFile     \* no file reference

Modes == {"RDONLY", "WRONLY", "RDWR"}

Flags == [mode : Modes, trunc : BOOLEAN]

\* The part of CephFileRef the table's users look at.
FileRef == [name : Names, flags : Flags]

\* The half of the descriptors that turn negative as an int are leaked when
\* they are allotted, so no build survives until the counter comes round.
ASSUME FileTableAssumption ==
  /\ NbFd \in Nat
  /\ MaxOpens \in Nat
  /\ MaxOpens < NbFd
  /\ NoFile \notin FileRef \cup [name : Names, writes : BOOLEAN]
  /\ NoFile \notin Names

VARIABLES
  g_fds,               \* descriptor -> file reference, for the live descriptors
  g_filesOpenForWrite, \* multiset of names: name -> multiplicity
  g_nextCephFd,        \* next descriptor to allot
  objects,             \* names the object store holds
  m_fd,                \* m_fd[h]: the descriptor kept by file object h
  pc,                  \* pc[h]: where the calls on file object h have got to
  req,                 \* req[h]: the file h is opening or has opened
  stat                 \* stat[c]: caller c's stat

tableVars  == <<g_fds, g_filesOpenForWrite, g_nextCephFd>>
handleVars == <<m_fd, pc, req>>
vars == <<tableVars, objects, handleVars, stat>>

-----------------------------------------------------------------------------
(* Flags and descriptors                                                   *)

\* flags & (O_WRONLY|O_RDWR)
Writes(flags) == flags.mode \in {"WRONLY", "RDWR"}

\* insertFileRef returns an unsigned counter through an int; the table is
\* keyed by unsigned int and looked up with an int.
ToInt(u) == IF 2 * u < NbFd THEN u ELSE u - NbFd
ToUnsigned(i) == IF i < 0 THEN i + NbFd ELSE i

Inserting(h)  == pc[h] = "inserting"
Unlinking(h)  == pc[h] = "unlinking"
Closing(h)    == pc[h] = "closing"
Opened(h)     == pc[h] \in {"open", "closing"}

\* The descriptor under which file object h looks itself up.
FdOf(h) == ToUnsigned(m_fd[h])

-----------------------------------------------------------------------------
(* The table's own operations, each one critical section of g_fd_mutex     *)

\* Whether getFileRef returns a reference rather than 0.
getFileRef(fd) == fd \in DOMAIN g_fds

isOpenForWriteMissesOneWriter(n) == g_filesOpenForWrite[n] > 1

isOpenForWrite(n) == g_filesOpenForWrite[n] > 0

insertFileRefReusesFds(fr) ==
  LET fd == Cardinality(DOMAIN g_fds)
  IN  /\ g_fds' = [x \in DOMAIN g_fds \cup {fd} |-> IF x = fd THEN fr ELSE g_fds[x]]
      /\ g_nextCephFd' = g_nextCephFd + 1
      /\ g_filesOpenForWrite' =
           IF Writes(fr.flags)
             THEN [g_filesOpenForWrite EXCEPT ![fr.name] = @ + 1]
             ELSE g_filesOpenForWrite

insertFileRefIntoASet(fr) ==
  LET fd == g_nextCephFd
  IN  /\ g_fds' = [x \in DOMAIN g_fds \cup {fd} |-> IF x = fd THEN fr ELSE g_fds[x]]
      /\ g_nextCephFd' = IF fd = NbFd - 1 THEN 0 ELSE fd + 1
      /\ g_filesOpenForWrite' =
           IF Writes(fr.flags)
             THEN [g_filesOpenForWrite EXCEPT ![fr.name] = 1]
             ELSE g_filesOpenForWrite

\* The descriptor handed out is the value of g_nextCephFd before the call.
insertFileRef(fr) ==
  LET fd == g_nextCephFd
  IN  /\ g_fds' = [x \in DOMAIN g_fds \cup {fd} |-> IF x = fd THEN fr ELSE g_fds[x]]
      /\ g_nextCephFd' = IF fd = NbFd - 1 THEN 0 ELSE fd + 1
      /\ g_filesOpenForWrite' =
           IF Writes(fr.flags)
             THEN [g_filesOpenForWrite EXCEPT ![fr.name] = @ + 1]
             ELSE g_filesOpenForWrite

deleteFileRefIgnoresFlags(fd, fr) ==
  /\ g_filesOpenForWrite' = [g_filesOpenForWrite EXCEPT ![fr.name] = @ - 1]
  /\ g_fds' = [x \in DOMAIN g_fds \ {fd} |-> g_fds[x]]
  /\ UNCHANGED g_nextCephFd

deleteFileRefErasesAllOfName(fd, fr) ==
  /\ g_filesOpenForWrite' =
       IF Writes(fr.flags)
         THEN [g_filesOpenForWrite EXCEPT ![fr.name] = 0]
         ELSE g_filesOpenForWrite
  /\ g_fds' = [x \in DOMAIN g_fds \ {fd} |-> g_fds[x]]
  /\ UNCHANGED g_nextCephFd

deleteFileRefKeepsReaders(fd, fr) ==
  /\ Writes(fr.flags) => g_filesOpenForWrite' = [g_filesOpenForWrite EXCEPT ![fr.name] = @ - 1]
  /\ ~Writes(fr.flags) => g_filesOpenForWrite' = g_filesOpenForWrite
  /\ g_fds' = IF Writes(fr.flags) THEN [x \in DOMAIN g_fds \ {fd} |-> g_fds[x]] ELSE g_fds
  /\ UNCHANGED g_nextCephFd

\* erase(find(name)) takes one occurrence out; with none left it would be
\* undefined, which OpenForWriteExact rules out.
deleteFileRef(fd, fr) ==
  /\ g_filesOpenForWrite' =
       IF Writes(fr.flags)
         THEN [g_filesOpenForWrite EXCEPT ![fr.name] = @ - 1]
         ELSE g_filesOpenForWrite
  /\ g_fds' = [x \in DOMAIN g_fds \ {fd} |-> g_fds[x]]
  /\ UNCHANGED g_nextCephFd

-----------------------------------------------------------------------------
(* ceph_posix_open, called by XrdCephOssFile::Open                         *)

\* The request to the store comes first.  Any error of it but ENOENT counts
\* as "the file exists", so fileExists can be TRUE of a name the store does
\* not hold, and FALSE only of such a name.
OpenRead(h, fr) ==
  /\ pc[h] = "closed"
  /\ ~Writes(fr.flags)
  /\ pc' = [pc EXCEPT ![h] = "inserting"]
  /\ req' = [req EXCEPT ![h] = fr]
  /\ UNCHANGED <<tableVars, objects, m_fd, stat>>

OpenNew(h, fr) ==
  /\ pc[h] = "closed"
  /\ Writes(fr.flags)
  /\ fr.name \notin objects
  /\ pc' = [pc EXCEPT ![h] = "inserting"]
  /\ req' = [req EXCEPT ![h] = fr]
  /\ UNCHANGED <<tableVars, objects, m_fd, stat>>

OpenTruncate(h, fr) ==
  /\ pc[h] = "closed"
  /\ Writes(fr.flags)
  /\ fr.flags.trunc
  /\ pc' = [pc EXCEPT ![h] = "unlinking"]
  /\ req' = [req EXCEPT ![h] = fr]
  /\ UNCHANGED <<tableVars, objects, m_fd, stat>>

\* The nested ceph_posix_unlink: removed or already gone, or the open fails.
OpenUnlink(h) ==
  /\ Unlinking(h)
  /\ objects' = objects \ {req[h].name}
  /\ pc' = [pc EXCEPT ![h] = "inserting"]
  /\ UNCHANGED <<tableVars, m_fd, req, stat>>

OpenUnlinkFails(h) ==
  /\ Unlinking(h)
  /\ pc' = [pc EXCEPT ![h] = "closed"]
  /\ req' = [req EXCEPT ![h] = NoFile]
  /\ UNCHANGED <<tableVars, objects, m_fd, stat>>

\* XrdCephOssFile::Open takes a negative result for an error and keeps its
\* old descriptor, although the file reference was inserted.
OpenInsert(h) ==
  /\ Inserting(h)
  /\ g_nextCephFd < MaxOpens
  /\ insertFileRef(req[h])
  /\ IF ToInt(g_nextCephFd) >= 0
       THEN /\ m_fd' = [m_fd EXCEPT ![h] = ToInt(g_nextCephFd)]
            /\ pc' = [pc EXCEPT ![h] = "open"]
            /\ UNCHANGED req
       ELSE /\ pc' = [pc EXCEPT ![h] = "closed"]
            /\ req' = [req EXCEPT ![h] = NoFile]
            /\ UNCHANGED m_fd
  /\ UNCHANGED <<objects, stat>>

-----------------------------------------------------------------------------
(* ceph_posix_close.  The framework may call Close on a file object that   *)
(* was never opened or is closed already: m_fd then holds -1 or the        *)
(* descriptor of an earlier open.                                          *)

CloseLookup(h) ==
  /\ pc[h] \in {"closed", "open"}
  /\ getFileRef(FdOf(h))
  /\ pc' = [pc EXCEPT ![h] = "closing"]
  /\ UNCHANGED <<tableVars, objects, m_fd, req, stat>>

CloseDelete(h) ==
  /\ Closing(h)
  /\ deleteFileRef(FdOf(h), g_fds[FdOf(h)])
  /\ pc' = [pc EXCEPT ![h] = "closed"]
  /\ req' = [req EXCEPT ![h] = NoFile]
  /\ UNCHANGED <<objects, m_fd, stat>>

-----------------------------------------------------------------------------
(* The calls that make names exist in the store and cease to               *)

\* A successful write creates the striped object when it is not there.
Write(h) ==
  /\ pc[h] \in {"closed", "open"}
  /\ getFileRef(FdOf(h))
  /\ Writes(g_fds[FdOf(h)].flags)
  /\ objects' = objects \cup {g_fds[FdOf(h)].name}
  /\ UNCHANGED <<tableVars, handleVars, stat>>

Unlink(n) ==
  /\ n \in objects
  /\ objects' = objects \ {n}
  /\ UNCHANGED <<tableVars, handleVars, stat>>

-----------------------------------------------------------------------------
(* ceph_posix_stat                                                         *)

Answered(c, a) == stat' = [stat EXCEPT ![c] = [name |-> NoFile, answer |-> a]]

StatStored(c, n) ==
  /\ stat[c].name = NoFile
  /\ n \in objects
  /\ Answered(c, "stored")
  /\ UNCHANGED <<tableVars, objects, handleVars>>

\* No striper, or an error of the store other than ENOENT.
StatError(c) ==
  /\ stat[c].name = NoFile
  /\ Answered(c, "error")
  /\ UNCHANGED <<tableVars, objects, handleVars>>

\* The store says ENOENT; the table is asked next, in a step of its own.
StatMissing(c, n) ==
  /\ stat[c].name = NoFile
  /\ n \notin objects
  /\ stat' = [stat EXCEPT ![c] = [name |-> n, answer |-> @.answer]]
  /\ UNCHANGED <<tableVars, objects, handleVars>>

StatAnswer(c) ==
  /\ stat[c].name # NoFile
  /\ Answered(c, IF isOpenForWrite(stat[c].name) THEN "openForWrite" ELSE "ENOENT")
  /\ UNCHANGED <<tableVars, objects, handleVars>>

-----------------------------------------------------------------------------
Answers == {"none", "stored", "openForWrite", "ENOENT", "error"}

Init ==
  /\ g_fds = [x \in {} |-> NoFile]
  /\ g_filesOpenForWrite = [n \in Names |-> 0]
  /\ g_nextCephFd = 0
  /\ objects \in SUBSET Names
  /\ m_fd = [h \in Handles |-> -1]
  /\ pc = [h \in Handles |-> "closed"]
  /\ req = [h \in Handles |-> NoFile]
  /\ stat = [c \in Callers |-> [name |-> NoFile, answer |-> "none"]]

HandleNext(h) ==
  \/ \E fr \in FileRef : OpenRead(h, fr) \/ OpenNew(h, fr) \/ OpenTruncate(h, fr)
  \/ OpenUnlink(h)
  \/ OpenUnlinkFails(h)
  \/ OpenInsert(h)
  \/ CloseLookup(h)
  \/ CloseDelete(h)
  \/ Write(h)

CallerNext(c) ==
  \/ \E n \in Names : StatStored(c, n) \/ StatMissing(c, n)
  \/ StatError(c)
  \/ StatAnswer(c)

Next ==
  \/ \E h \in Handles : HandleNext(h)
  \/ \E n \in Names : Unlink(n)
  \/ \E c \in Callers : CallerNext(c)

Spec == Init /\ [][Next]_vars

-----------------------------------------------------------------------------
(* Properties                                                              *)

TypeOK ==
  /\ DOMAIN g_fds \subseteq 0 .. MaxOpens - 1
  /\ g_fds \in [DOMAIN g_fds -> FileRef]
  /\ g_filesOpenForWrite \in [Names -> Nat]
  /\ g_nextCephFd \in 0 .. MaxOpens
  /\ objects \subseteq Names
  /\ m_fd \in [Handles -> -1 .. MaxOpens - 1]
  /\ pc \in [Handles -> {"closed", "unlinking", "inserting", "open", "closing"}]
  /\ req \in [Handles -> FileRef \cup {NoFile}]
  /\ stat \in [Callers -> [name : Names \cup {NoFile}, answer : Answers]]

\* The live descriptors through which name n can be written.
WriteFds(n) == {fd \in DOMAIN g_fds : g_fds[fd].name = n /\ Writes(g_fds[fd].flags)}

\* The multiset and the table, filled and emptied by different calls of
\* different threads, agree: a name occurs in the multiset once for every
\* live descriptor open for write on it.  So erase(find(..)) always finds.
OpenForWriteExact ==
  \A n \in Names : g_filesOpenForWrite[n] = Cardinality(WriteFds(n))

\* A file object that has a file open finds in the table the file it opened,
\* and no two of them share a descriptor.
OpenHandleReachesItsFile ==
  /\ \A h \in Handles : Opened(h) => getFileRef(FdOf(h)) /\ g_fds[FdOf(h)] = req[h]
  /\ \A h, k \in Handles : Opened(h) /\ Opened(k) /\ FdOf(h) = FdOf(k) => h = k

\* The descriptor a file object still holds after Close, or after a failed
\* re-open, reaches no file: not its old one, nor one opened since by others.
StaleFdReachesNothing ==
  \A h \in Handles : ~Opened(h) => ~getFileRef(FdOf(h))

\* Every entry of the table belongs to a file object that can close it: an
\* open reported as failed left nothing behind.  It holds until a descriptor
\* turns negative.
NoOrphanEntry ==
  \A fd \in DOMAIN g_fds : \E h \in Handles : Opened(h) /\ FdOf(h) = fd

\* "At this point, we know either the target file didn't exist, or the
\* ceph_posix_unlink above removed it": when an open for write inserts its
\* file reference, the name is not in the store.
WriteOpenTargetAbsent ==
  \A h \in Handles : Inserting(h) /\ Writes(req[h].flags) => req[h].name \notin objects

-----------------------------------------------------------------------------
(* The table implements OpenFiles: an open file object has what its         *)
(* descriptor leads to, and the multiset answers for all of them.           *)

OpenOf(h) ==
  IF Opened(h)
    THEN [name |-> g_fds[FdOf(h)].name, writes |-> Writes(g_fds[FdOf(h)].flags)]
    ELSE NoFile

Promise == INSTANCE OpenFiles WITH
  open   <- [h \in Handles |-> OpenOf(h)],
  stored <- objects,
  asking <- [c \in Callers |-> stat[c].name],
  answer <- [c \in Callers |-> stat[c].answer]

\* As long as descriptors stay non-negative, every behaviour of the table is
\* one of OpenFiles: opens, closes and stats of any number of threads look as
\* if there were no descriptors at all.
ImplementsOpenFiles == Promise!Spec
=============================================================================
