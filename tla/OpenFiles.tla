----------------------------- MODULE OpenFiles -----------------------------
(***************************************************************************)
(* What the file table of XrdCephPosix.cc promises to the XRootD framework *)
(* above it, with no descriptors, tables or multisets: every file object   *)
(* has at most one open file, the store holds a set of names, and a stat   *)
(* that does not find its name in the store answers by asking whether some *)
(* file object holds that name open for write.                             *)
(***************************************************************************)

CONSTANTS
  Handles,    \* the file objects of the framework
  Callers,    \* the threads that stat a path
  Names,      \* file names
  NoFile      \* the value of a file object that has no open file

\* What a file object opens: a name, for reading only or also for write.
Files == [name : Names, writes : BOOLEAN]

VARIABLES
  open,       \* open[h]: the element of Files that h has open, or NoFile
  stored,     \* the names the store holds
  asking,     \* asking[c]: the name c's stat did not find in the store, or NoFile
  answer      \* answer[c]: the answer of c's last completed stat

vars == <<open, stored, asking, answer>>

Answers == {"none", "stored", "openForWrite", "ENOENT", "error"}

OpenForWrite(n) ==
  \E h \in Handles : open[h] # NoFile /\ open[h].writes /\ open[h].name = n

Init ==
  /\ open = [h \in Handles |-> NoFile]
  /\ stored \in SUBSET Names
  /\ asking = [c \in Callers |-> NoFile]
  /\ answer = [c \in Callers |-> "none"]

Open(h, f) ==
  /\ open[h] = NoFile
  /\ open' = [open EXCEPT ![h] = f]
  /\ UNCHANGED <<stored, asking, answer>>

Close(h) ==
  /\ open[h] # NoFile
  /\ open' = [open EXCEPT ![h] = NoFile]
  /\ UNCHANGED <<stored, asking, answer>>

\* Only a file object that has the file open for write creates it.
Write(h) ==
  /\ open[h] # NoFile
  /\ open[h].writes
  /\ stored' = stored \cup {open[h].name}
  /\ UNCHANGED <<open, asking, answer>>

\* A truncating open and an unlink remove the name.
Remove(n) ==
  /\ stored' = stored \ {n}
  /\ UNCHANGED <<open, asking, answer>>

StatStored(c, n) ==
  /\ asking[c] = NoFile
  /\ n \in stored
  /\ answer' = [answer EXCEPT ![c] = "stored"]
  /\ UNCHANGED <<open, stored, asking>>

StatMissing(c, n) ==
  /\ asking[c] = NoFile
  /\ n \notin stored
  /\ asking' = [asking EXCEPT ![c] = n]
  /\ UNCHANGED <<open, stored, answer>>

StatError(c) ==
  /\ asking[c] = NoFile
  /\ answer' = [answer EXCEPT ![c] = "error"]
  /\ UNCHANGED <<open, stored, asking>>

StatAnswer(c) ==
  /\ asking[c] # NoFile
  /\ answer' = [answer EXCEPT ![c] =
                  IF OpenForWrite(asking[c]) THEN "openForWrite" ELSE "ENOENT"]
  /\ asking' = [asking EXCEPT ![c] = NoFile]
  /\ UNCHANGED <<open, stored>>

Next ==
  \/ \E h \in Handles, f \in Files : Open(h, f)
  \/ \E h \in Handles : Close(h) \/ Write(h)
  \/ \E n \in Names : Remove(n)
  \/ \E c \in Callers, n \in Names : StatStored(c, n) \/ StatMissing(c, n)
  \/ \E c \in Callers : StatError(c) \/ StatAnswer(c)

Spec == Init /\ [][Next]_vars
=============================================================================
