-------------------------- MODULE CephStatHistory --------------------------
(***************************************************************************)
(* CephFileTable with two history variables: what was true of the name a   *)
(* stat asks about at some moment between the start of the call and its    *)
(* answer.  They constrain nothing.                                        *)
(***************************************************************************)
EXTENDS CephFileTable

VARIABLES
  notOpened, \* notOpened[c]: at some moment of c's stat nobody had the name open for write
  unseen     \* unseen[c]: at some moment of c's stat the name was not stored either

historyVars == <<vars, notOpened, unseen>>

\* The set of file objects that have name n open for write, by what they
\* opened and not by the multiset.
Writers(n) == {h \in Handles : Opened(h) /\ Writes(req[h].flags) /\ req[h].name = n}

\* A stat whose name was not in the store is looking at the table.
Asking(c) == stat[c].name # NoFile

AskedNotOpened(c) == Writers(stat[c].name) = {}

AskedUnseen(c) == AskedNotOpened(c) /\ stat[c].name \notin objects

\* While a stat is looking at the table, each step adds the moment after it.
Track ==
  /\ notOpened' = [c \in Callers |->
       IF Asking(c)'
         THEN (Asking(c) /\ notOpened[c]) \/ AskedNotOpened(c)'
         ELSE notOpened[c]]
  /\ unseen' = [c \in Callers |->
       IF Asking(c)'
         THEN (Asking(c) /\ unseen[c]) \/ AskedUnseen(c)'
         ELSE unseen[c]]

HInit ==
  /\ Init
  /\ notOpened = [c \in Callers |-> TRUE]
  /\ unseen = [c \in Callers |-> TRUE]

HNext == Next /\ Track

HSpec == HInit /\ [][HNext]_historyVars

\* A stat that answers ENOENT does so only if there was a moment during the
\* call when nobody had the file open for write.
StatSeesOpenWriter ==
  \A c \in Callers : stat[c].answer = "ENOENT" /\ ~Asking(c) => notOpened[c]

\* A stat that answers ENOENT does so only if there was a moment during the
\* call when the file was neither stored nor open for write: "Check that we
\* did not open it for write recently".
StatSeesVisibleFile ==
  \A c \in Callers : stat[c].answer = "ENOENT" /\ ~Asking(c) => unseen[c]
=============================================================================
