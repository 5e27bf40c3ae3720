------------------------------- MODULE MC_Aio -------------------------------
(* The requests of the runs of CephAio: the writes of a file may complete in *)
(* any order, so that the one that reaches furthest is not always the last.  *)
EXTENDS CephAio, TLC

CONSTANTS f, g

Call(op, fd, count, offset) == [op |-> op, fd |-> fd, count |-> count, offset |-> offset]

FdMode == [fd \in Fds |-> IF fd = f THEN "RDWR" ELSE "WRONLY"]

\* Two asynchronous writes, of which the first reaches furthest, and a
\* synchronous one between them; and a read.
OneFile ==
  {Call("aio_write", f, 2, 3), Call("aio_write", f, 1, 0),
   Call("pwrite", f, 2, 1), Call("aio_read", f, 1, 0)}

\* One asynchronous request of each kind, and two on a write-only file, of
\* which the read is refused.
TwoFiles ==
  {Call("aio_write", f, 2, 1), Call("aio_read", f, 2, 0),
   Call("aio_write", g, 0, 3), Call("aio_read", g, 1, 0)}
=============================================================================
