---------------------------- MODULE PosixStream ----------------------------
(***************************************************************************)
(* What ceph_posix_read, write and lseek promise to the user of a          *)
(* descriptor that no other thread uses: a position from which transfers   *)
(* are made and which they move on by what they transferred, in one step.  *)
(* Positions are integers, without a width.  A position below zero can be  *)
(* set, though nothing can be transferred from there.                      *)
(***************************************************************************)
EXTENDS ObjectBytes

CONSTANTS
  Streams,      \* the descriptors
  ObjectOf,     \* ObjectOf[s]: the object s was opened on
  Counts,       \* the sizes of transfers and truncations
  Seeks,        \* the arguments of lseek
  MaxObject,    \* the longest object the store keeps
  EIO, EINVAL   \* error numbers

VARIABLES
  position,   \* position[s]: where the next transfer of s starts
  bytes,      \* bytes[o]: the content of the object o
  answer      \* answer[s]: what the last call on s returned

vars == <<position, bytes, answer>>

Init ==
  /\ position = [s \in Streams |-> 0]
  /\ bytes = [o \in {ObjectOf[s] : s \in Streams} |-> <<>>]
  /\ answer = [s \in Streams |-> 0]

Write(s) == \E n \in Counts :
  /\ position[s] >= 0
  /\ position[s] + n <= MaxObject
  /\ bytes' = [bytes EXCEPT ![ObjectOf[s]] = Overwritten(@, position[s], n, s)]
  /\ position' = [position EXCEPT ![s] = @ + n]
  /\ answer' = [answer EXCEPT ![s] = n]

Read(s) == \E n \in Counts :
  LET got == Available(bytes[ObjectOf[s]], position[s], n)
  IN  /\ position[s] >= 0
      /\ position' = [position EXCEPT ![s] = @ + got]
      /\ answer' = [answer EXCEPT ![s] = got]
      /\ UNCHANGED bytes

\* From the start of the file, or from where the last transfer ended.
Seek(s) == \E d \in Seeks, base \in {0, position[s]} :
  /\ position' = [position EXCEPT ![s] = base + d]
  /\ answer' = [answer EXCEPT ![s] = base + d]
  /\ UNCHANGED bytes

Truncate(s) == \E n \in Counts :
  /\ n <= MaxObject
  /\ bytes' = [bytes EXCEPT ![ObjectOf[s]] = Resized(@, n)]
  /\ answer' = [answer EXCEPT ![s] = 0]
  /\ UNCHANGED position

\* A call that fails leaves everything but its answer as it was.
Fail(s) ==
  /\ answer' \in {[answer EXCEPT ![s] = e] : e \in {-EIO, -EINVAL}}
  /\ UNCHANGED <<position, bytes>>

Next == \E s \in Streams : Write(s) \/ Read(s) \/ Seek(s) \/ Truncate(s) \/ Fail(s)

Spec == Init /\ [][Next]_vars
=============================================================================
