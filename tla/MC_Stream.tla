----------------------------- MODULE MC_Stream -----------------------------
(* Who uses which descriptor in the run of CephStream: u and v belong to one *)
(* thread each and are open on the same object; both threads read from r,    *)
(* which is also open on it, and write to s, which is open on another.       *)
EXTENDS CephStream, TLC

CONSTANTS t1, t2, u, v, r, s, o1, o2

FdObject == [fd \in Fds |-> IF fd = s THEN o2 ELSE o1]

Programs ==
  {t1} \X {u} \X {"read", "write", "lseek", "ftruncate"}
  \cup {t2} \X {v} \X {"write"}
  \cup {t1, t2} \X {r} \X {"read"}
  \cup {t1, t2} \X {s} \X {"write"}

Calls == [t \in Threads |-> IF t = t1 THEN 3 ELSE 2]

Steps == {-1, 2}
=============================================================================
