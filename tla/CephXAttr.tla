----------------------------- MODULE CephXAttr ------------------------------
(***************************************************************************)
(* Extended attributes: XrdCephXAttr::Get, Set, Del and List, which the    *)
(* framework calls with a path and perhaps a descriptor, and the open,     *)
(* close, write and unlink that decide what these reach.                   *)
(*                                                                         *)
(* Get and Set prefer the descriptor, List does so unless it is 0, Del     *)
(* never does; and the path is parsed without the environment that the     *)
(* open had.  A descriptor stands for a pool and a name, not for an object *)
(* of the store, so that it survives an unlink and finds a file of the     *)
(* same name that somebody writes later.  A step is one call, which makes  *)
(* one request to the store.                                               *)
(***************************************************************************)
EXTENDS Integers, Sequences, SequencesExt, FiniteSets, FiniteSetsExt

CONSTANTS
  Clients,       \* threads of the framework, each with a file it works on
  PathOf,        \* PathOf[c]: its path, a name and a pool or None
  EnvOf,         \* EnvOf[c]: the pool in the environment of its calls, or None
  Pools, DefaultPool,
  Attrs, Values, Sizes,
  MaxCalls,      \* MaxCalls[c]: bound on the calls of c
  None

Paths == {PathOf[c] : c \in Clients}

\* What fillCephFile makes of a path: the pool of the path, of the
\* environment, or the default.
getCephFile(path, env) ==
  [pool |-> IF path.pool # None THEN path.pool ELSE IF env # None THEN env ELSE DefaultPool,
   name |-> path.name]

Files == UNION {{getCephFile(PathOf[c], EnvOf[c]), getCephFile(PathOf[c], None)} : c \in Clients}

ASSUME XAttrAssumption ==
  /\ DefaultPool \in Pools
  /\ None \notin Pools
  /\ \A c \in Clients : PathOf[c].pool \in Pools \cup {None} /\ EnvOf[c] \in Pools \cup {None}
  /\ Attrs \subseteq Seq(STRING) /\ IsFiniteSet(Attrs)
  /\ Values \subseteq Seq(Nat)
  /\ Sizes \subseteq Nat

VARIABLES
  stored,    \* the files in the store
  attrs,     \* attrs[f][a]: the value of attribute a of f, or None
  fds,       \* the table of open files: descriptor n is element n + 1
  fdOf,      \* fdOf[c]: the descriptor of c, or -1
  got,       \* got[c]: what the last Get or List of c that succeeded gave it
  calls      \* calls[c]: number of calls c has made

callVars == <<stored, attrs, fds, fdOf, got, calls>>

NoAttrs == [a \in Attrs |-> None]
Nothing == [value |-> <<>>, names |-> {}, size |-> 0]

Making(c) ==
  /\ calls[c] < MaxCalls[c]
  /\ calls' = [calls EXCEPT ![c] = @ + 1]

-----------------------------------------------------------------------------
(* Calls that open, write and remove the file                              *)

openCountingFirst(c) ==
  /\ Making(c)
  /\ fdOf[c] = -1
  /\ fds' = Append(fds, getCephFile(PathOf[c], EnvOf[c]))
  /\ fdOf' = [fdOf EXCEPT ![c] = Len(fds) + 1]
  /\ UNCHANGED <<stored, attrs, got>>

Open(c) ==
  /\ Making(c)
  /\ fdOf[c] = -1
  /\ fds' = Append(fds, getCephFile(PathOf[c], EnvOf[c]))
  /\ fdOf' = [fdOf EXCEPT ![c] = Len(fds)]
  /\ UNCHANGED <<stored, attrs, got>>

Close(c) ==
  /\ fdOf[c] # -1
  /\ fds' = [fds EXCEPT ![fdOf[c] + 1] = None]
  /\ fdOf' = [fdOf EXCEPT ![c] = -1]
  /\ UNCHANGED <<stored, attrs, got, calls>>

Write(c) ==
  /\ fdOf[c] # -1
  /\ fds[fdOf[c] + 1] \notin stored
  /\ stored' = stored \cup {fds[fdOf[c] + 1]}
  /\ UNCHANGED <<attrs, fds, fdOf, got, calls>>

\* XrdCephOss::Unlink hands on the environment of the call.
Unlink(c) ==
  LET file == getCephFile(PathOf[c], EnvOf[c])
  IN  /\ Making(c)
      /\ file \in stored
      /\ stored' = stored \ {file}
      /\ attrs' = [attrs EXCEPT ![file] = NoAttrs]
      /\ UNCHANGED <<fds, fdOf, got>>

-----------------------------------------------------------------------------
(* The attributes.  fd is the descriptor of c or -1.  A call that fails,     *)
(* here or in the store, leaves everything as it was.                       *)

\* The file of a call that goes by the descriptor if there is one.
Subject(c, fd) == IF fd >= 0 THEN fds[fd + 1] ELSE getCephFile(PathOf[c], None)

\* Del goes by the path and does not look at the descriptor.
PathSubject(c) == getCephFile(PathOf[c], None)

\* List takes descriptor 0 for none.
ListSubject(c, fd) == IF fd > 0 THEN fds[fd + 1] ELSE getCephFile(PathOf[c], None)

\* A call that is about a file.
On(c, file) ==
  /\ Making(c)
  /\ file \in stored
  /\ UNCHANGED <<stored, fds, fdOf>>

Prefix(s, n) == SubSeq(s, 1, IF Len(s) < n THEN Len(s) ELSE n)

\* ceph_posix_internal_getxattr copies what fits.
Returned(value, size) == Prefix(value, size)

\* The list copies a name up to one character more than the value has.  (What
\* follows a shorter name in its item then gets zeros, what is left of a
\* longer one gets nothing.)
Copied(name, value) == Prefix(name, Len(value) + 1)

Get(c, fd, a, size) ==
  LET file == Subject(c, fd)
  IN  /\ On(c, file)
      /\ attrs[file][a] # None
      /\ got' = [got EXCEPT ![c] = [Nothing EXCEPT !.value = Returned(attrs[file][a], size)]]
      /\ UNCHANGED attrs

\* isNew is not looked at: a value that is there is replaced.
Set(c, fd, a, value) ==
  LET file == Subject(c, fd)
  IN  /\ On(c, file)
      /\ attrs' = [attrs EXCEPT ![file][a] = value]
      /\ UNCHANGED got

Del(c, a) ==
  LET file == PathSubject(c)
  IN  /\ On(c, file)
      /\ attrs' = [attrs EXCEPT ![file][a] = None]
      /\ UNCHANGED got

\* The size is returned to a caller that did not ask for it, and only to him.
List(c, fd, getSz) ==
  LET file == ListSubject(c, fd)
      attrset == {a \in Attrs : attrs[file][a] # None}
      maxSize == Max({Len(attrs[file][a]) : a \in attrset} \cup {0})
  IN  /\ On(c, file)
      /\ got' = [got EXCEPT ![c] =
           [value |-> <<>>,
            names |-> {Copied(a, attrs[file][a]) : a \in attrset},
            size |-> IF getSz THEN 0 ELSE maxSize]]
      /\ UNCHANGED attrs

-----------------------------------------------------------------------------
CallsInit ==
  /\ stored \in SUBSET Files
  /\ attrs = [f \in Files |-> NoAttrs]
  /\ fds = <<>>
  /\ fdOf = [c \in Clients |-> -1]
  /\ got = [c \in Clients |-> Nothing]
  /\ calls = [c \in Clients |-> 0]

CallsNext == \E c \in Clients :
  \/ Open(c) \/ Close(c) \/ Write(c) \/ Unlink(c)
  \/ \E fd \in {fdOf[c], -1}, a \in Attrs :
       \/ \E size \in Sizes : Get(c, fd, a, size)
       \/ \E value \in Values : Set(c, fd, a, value)
       \/ Del(c, a)
  \/ \E fd \in {fdOf[c], -1}, getSz \in BOOLEAN : List(c, fd, getSz)

-----------------------------------------------------------------------------
(* Properties                                                              *)

CallsTypeOK ==
  /\ stored \subseteq Files
  /\ attrs \in [Files -> [Attrs -> Values \cup {None}]]
  /\ fds \in Seq(Files \cup {None})
  /\ \A c \in Clients : fdOf[c] \in -1 .. Len(fds) - 1
  /\ got \in [Clients -> [value : Seq(Nat), names : SUBSET Seq(STRING), size : Nat]]
  /\ calls \in [Clients -> Nat]
=============================================================================
