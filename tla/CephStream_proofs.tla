------------------------- MODULE CephStream_proofs -------------------------
(***************************************************************************)
(* Proofs about CephStream, for any threads, descriptors and objects, any  *)
(* width of the offset and any number of calls.                            *)
(***************************************************************************)
EXTENDS CephStream, FiniteSums, TLAPS

\* A thread is only in the middle of a call that the program makes.
CallsAllowed ==
  \A t \in Threads : pc[t] # "idle" => <<t, call[t].fd, call[t].op>> \in MayCall

\* No object is longer than the store keeps.
ObjectsFit == \A o \in Objects : Len(bytes[o]) <= MaxObject

\* Transfers count bytes, and every operation goes its own way.
CallsAsBegun ==
  \A t \in Threads :
    /\ call[t].op # "lseek" => call[t].rc \in Nat
    /\ pc[t] = "tell" => call[t].op = "lseek"
    /\ pc[t] \in {"lock", "count"} => call[t].op # "lseek"
    /\ pc[t] = "reach" => call[t].op = "write"

\* What a transfer on a private descriptor is about to add to the offset stays
\* inside the object, and the offset a call has loaded is the one there is.
PrivateAhead ==
  \A t \in Threads :
    pc[t] \in {"lock", "load", "store"} /\ call[t].fd \in Private =>
      /\ call[t].op # "lseek" => offset[call[t].fd] + call[t].rc <= MaxObject
      /\ pc[t] = "store" => seen[t] = offset[call[t].fd]

\* The inductive invariant.
IInv ==
  /\ TypeOK
  /\ CallsAllowed
  /\ CallsAsBegun
  /\ ObjectsFit
  /\ PrivateAhead

\* Where a call may have got to.
Places == {"idle", "lock", "load", "store", "count", "reach", "tell"}

-----------------------------------------------------------------------------
(* Numbers and bytes                                                       *)

\* An offset stays below the number of its values.
LEMMA Uint64Type ==
  ASSUME NEW n \in Int
  PROVE  Uint64(n) \in 0 .. NbOffset - 1
BY StreamAssumption DEF Uint64

\* A number in the range of an off64_t survives the way through a uint64_t.
LEMMA SignedOfUint64 ==
  ASSUME NEW n \in Int, -NbOffset <= 2 * n, 2 * n < NbOffset
  PROVE  Signed(Uint64(n)) = n
<1>1. NbOffset \in Nat \ {0}
  BY StreamAssumption
<1>2. CASE 0 <= n
  <2>1. n % NbOffset = n
    BY <1>1, <1>2
  <2>2. QED
    BY <1>1, <2>1 DEF Signed, Uint64
<1>3. CASE n < 0
  <2>1. n % NbOffset = n + NbOffset
    BY <1>1, <1>3
  <2>2. QED
    BY <1>1, <1>3, <2>1 DEF Signed, Uint64
<1>4. QED
  BY <1>2, <1>3

\* Moving an offset moves the off64_t it stands for, if that stays in range.
LEMMA SignedMoves ==
  ASSUME NEW n \in 0 .. NbOffset - 1, NEW d \in Int,
         -NbOffset <= 2 * d, 2 * d < NbOffset,
         -NbOffset <= 2 * (Signed(n) + d), 2 * (Signed(n) + d) < NbOffset
  PROVE  Signed(Uint64(n + d)) = Signed(n) + d
<1>1. NbOffset \in Nat \ {0}
  BY StreamAssumption
<1>2. CASE n + d < 0
  <2>1. (n + d) % NbOffset = n + d + NbOffset
    BY <1>1, <1>2
  <2>2. QED
    BY <1>1, <1>2, <2>1 DEF Signed, Uint64
<1>3. CASE n + d \in 0 .. NbOffset - 1
  <2>1. (n + d) % NbOffset = n + d
    BY <1>1, <1>3
  <2>2. QED
    BY <1>1, <1>3, <2>1 DEF Signed, Uint64
<1>4. CASE n + d >= NbOffset
  <2>1. (n + d) % NbOffset = n + d - NbOffset
    BY <1>1, <1>4
  <2>2. QED
    BY <1>1, <1>4, <2>1 DEF Signed, Uint64
<1>5. QED
  BY <1>1, <1>2, <1>3, <1>4

\* A write makes bytes of bytes, and reaches as far as it says.
LEMMA OverwrittenType ==
  ASSUME NEW old \in Seq(Fds \cup {Hole}), NEW start \in Nat, NEW count \in Nat, NEW fd \in Fds,
         Len(old) <= MaxObject, start + count <= MaxObject
  PROVE  /\ Overwritten(old, start, count, fd) \in Seq(Fds \cup {Hole})
         /\ Len(Overwritten(old, start, count, fd)) <= MaxObject
<1> DEFINE n == IF Len(old) > start + count THEN Len(old) ELSE start + count
           new == [i \in 1 .. n |-> IF i \in start + 1 .. start + count THEN fd ELSE ByteAt(old, i)]
<1>1. CASE count = 0
  BY <1>1 DEF Overwritten
<1>2. CASE count # 0
  <2>1. n \in Nat
    OBVIOUS
  <2>2. \A i \in 1 .. n : ByteAt(old, i) \in Fds \cup {Hole}
    BY <2>1 DEF ByteAt
  <2>3. new \in Seq(Fds \cup {Hole}) /\ Len(new) = n
    <3> HIDE DEF n
    <3> QED
      BY <2>1, <2>2
  <2>4. Overwritten(old, start, count, fd) = new
    BY <1>2 DEF Overwritten
  <2>5. n <= MaxObject
    OBVIOUS
  <2> HIDE DEF n, new
  <2>6. QED
    BY <2>3, <2>4, <2>5
<1>3. QED
  BY <1>1, <1>2

\* So does a truncation.
LEMMA ResizedType ==
  ASSUME NEW old \in Seq(Fds \cup {Hole}), NEW size \in Nat
  PROVE  /\ Resized(old, size) \in Seq(Fds \cup {Hole})
         /\ Len(Resized(old, size)) = size
<1>1. \A i \in 1 .. size : ByteAt(old, i) \in Fds \cup {Hole}
  BY DEF ByteAt
<1>2. QED
  BY <1>1 DEF Resized

\* A read gets bytes of the object only.
LEMMA AvailableType ==
  ASSUME NEW old \in Seq(Fds \cup {Hole}), NEW start \in Nat, NEW count \in Nat,
         Len(old) <= MaxObject, start <= MaxObject
  PROVE  /\ Available(old, start, count) \in Nat
         /\ start + Available(old, start, count) <= MaxObject
BY StreamAssumption DEF Available

-----------------------------------------------------------------------------
(* The invariant                                                           *)

\* What stands for the call of an idle thread.
LEMMA NoCallType ==
  /\ NoCall \in [fd : Fds, op : Ops, rc : Int]
  /\ NoCall.op = "lseek" /\ NoCall.rc = 0
<1>1. PICK fd \in Fds : NoCall = [fd |-> fd, op |-> "lseek", rc |-> 0]
  BY StreamAssumption, Zenon DEF NoCall
<1>2. QED
  BY <1>1 DEF Ops

\* No call has been made.
LEMMA InitIInv == Init => IInv
<1> SUFFICES ASSUME Init PROVE IInv
  OBVIOUS
<1>1. NoCall \in [fd : Fds, op : Ops, rc : Int] /\ NoCall.op = "lseek"
  BY NoCallType
<1>2. TypeOK
  BY <1>1, StreamAssumption DEF Init, TypeOK
<1>3. CallsAllowed /\ CallsAsBegun /\ ObjectsFit /\ PrivateAhead
  BY <1>1, StreamAssumption DEF Init, CallsAllowed, CallsAsBegun, ObjectsFit, PrivateAhead
<1>4. QED
  BY <1>2, <1>3 DEF IInv

\* What the program may call, and the operations there are.
LEMMA MayCallType ==
  ASSUME NEW t \in Threads, NEW fd, NEW op, <<t, fd, op>> \in MayCall
  PROVE  fd \in Fds /\ op \in Ops
BY StreamAssumption

\* A private descriptor has one user.
LEMMA OneUser ==
  ASSUME NEW fd \in Private, NEW t \in Threads, NEW w \in Threads, NEW a, NEW b,
         <<t, fd, a>> \in MayCall, <<w, fd, b>> \in MayCall
  PROVE  t = w
<1>1. t \in Users(fd) /\ w \in Users(fd)
  <2> DEFINE on == {m \in MayCall : m[2] = fd}
  <2>1. <<t, fd, a>> \in on /\ <<w, fd, b>> \in on
    OBVIOUS
  <2>2. \A m \in on : m[1] \in Users(fd)
    BY DEF Users
  <2>3. QED
    BY <2>1, <2>2
<1>2. QED
  BY <1>1 DEF Private

\* What a step that leaves the bytes of the objects and the calls of the other
\* threads alone keeps of the invariant, when the offsets it changes are of
\* descriptors its thread may call.
LEMMA OthersAhead ==
  ASSUME IInv, NEW t \in Threads, NEW w \in Threads, w # t,
         NEW fd \in Fds, NEW op, <<t, fd, op>> \in MayCall,
         \A g \in Fds : g # fd => offset'[g] = offset[g],
         pc'[w] = pc[w], call'[w] = call[w], seen'[w] = seen[w],
         pc[w] \in {"lock", "load", "store"}, call[w].fd \in Private
  PROVE  /\ call[w].op # "lseek" => offset'[call[w].fd] + call[w].rc <= MaxObject
         /\ pc[w] = "store" => seen[w] = offset'[call[w].fd]
<1>1. <<w, call[w].fd, call[w].op>> \in MayCall
  BY DEF IInv, CallsAllowed
<1>2. call[w].fd # fd
  BY <1>1, OneUser
<1>3. call[w].fd \in Fds
  BY DEF Private
<1>4. QED
  BY <1>2, <1>3 DEF IInv, PrivateAhead

\* The number of calls stays one.
LEMMA BeginType ==
  ASSUME TypeOK, NEW t \in Threads, NEW fd \in Fds, NEW op, Begin(t, fd, op)
  PROVE  calls' \in [Threads -> Nat]
<1>1. calls \in [Threads -> Nat]
  BY DEF TypeOK
<1>2. calls' = [calls EXCEPT ![t] = @ + 1]
  BY DEF Begin
<1>3. QED
  BY <1>1, <1>2

\* So does what is known of the call.
LEMMA BegunType ==
  ASSUME TypeOK, NEW t \in Threads, NEW fd \in Fds, NEW op, NEW rc \in Int, NEW place \in Places,
         Begin(t, fd, op), call' = [call EXCEPT ![t] = [fd |-> fd, op |-> op, rc |-> rc]],
         pc' = [pc EXCEPT ![t] = place]
  PROVE  /\ calls' \in [Threads -> Nat]
         /\ call' \in [Threads -> [fd : Fds, op : Ops, rc : Int]]
         /\ pc' \in [Threads -> Places]
<1>1. op \in Ops
  BY MayCallType DEF Begin
<1>2. [fd |-> fd, op |-> op, rc |-> rc] \in [fd : Fds, op : Ops, rc : Int]
  BY <1>1
<1>3. call \in [Threads -> [fd : Fds, op : Ops, rc : Int]] /\ pc \in [Threads -> Places]
  BY DEF TypeOK, Places
<1>4. QED
  BY <1>2, <1>3, BeginType

\* A call that returns leaves its thread idle, and its answer is a number.
LEMMA ReturnType ==
  ASSUME TypeOK, NEW t \in Threads, NEW fd \in Fds, NEW rc \in Int, Return(t, fd, rc)
  PROVE  /\ pc' \in [Threads -> Places]
         /\ answer' \in [Fds -> Int]
<1>1. /\ pc \in [Threads -> Places]
      /\ answer \in [Fds -> Int]
  BY DEF TypeOK, Places
<1>2. QED
  BY <1>1 DEF Return, Places

\* What a step does to the offset leaves the private calls of others alone.
LEMMA PrivateAheadStep ==
  ASSUME IInv, NEW t \in Threads, NEW fd \in Fds, NEW op, <<t, fd, op>> \in MayCall,
         \A g \in Fds : g # fd => offset'[g] = offset[g],
         \A w \in Threads : w # t => pc'[w] = pc[w] /\ call'[w] = call[w] /\ seen'[w] = seen[w],
         pc'[t] \notin {"lock", "load", "store"}
  PROVE  PrivateAhead'
<1> SUFFICES ASSUME NEW w \in Threads, pc'[w] \in {"lock", "load", "store"},
                    call'[w].fd \in Private
             PROVE  /\ call'[w].op # "lseek" => offset'[call'[w].fd] + call'[w].rc <= MaxObject
                    /\ pc'[w] = "store" => seen'[w] = offset'[call'[w].fd]
  BY DEF PrivateAhead
<1>1. w # t
  OBVIOUS
<1>2. QED
  BY <1>1, OthersAhead

\* A call is begun, and answered by the store, or is over at once.
LEMMA RequestStep ==
  ASSUME IInv, NEW t \in Threads, NEW fd \in Fds, Request(t, fd)
  PROVE  IInv'
<1>0. /\ TypeOK /\ offset[fd] \in 0 .. NbOffset - 1 /\ offset[fd] \in Nat
      /\ ObjectOf[fd] \in Objects
      /\ bytes[ObjectOf[fd]] \in Seq(Fds \cup {Hole})
      /\ Len(bytes[ObjectOf[fd]]) <= MaxObject
      /\ moved[fd] \in [read : Nat, written : Nat, end : Nat]
      /\ MaxObject \in Nat /\ EIO \in Nat /\ EINVAL \in Nat /\ Counts \subseteq Nat
      /\ Seeks \subseteq Int /\ NbOffset \in Nat
  <2>1. /\ MaxObject \in Nat /\ EIO \in Nat /\ EINVAL \in Nat /\ Counts \subseteq Nat
        /\ Seeks \subseteq Int /\ NbOffset \in Nat /\ ObjectOf[fd] \in Objects
    BY StreamAssumption
  <2>2. TypeOK /\ ObjectsFit
    BY DEF IInv
  <2>3. /\ offset[fd] \in 0 .. NbOffset - 1
        /\ bytes[ObjectOf[fd]] \in Seq(Fds \cup {Hole})
        /\ moved[fd] \in [read : Nat, written : Nat, end : Nat]
    BY <2>1, <2>2 DEF TypeOK
  <2>4. QED
    BY <2>1, <2>2, <2>3 DEF ObjectsFit
<1>1. ASSUME NEW count \in Counts, WriteStore(t, fd, count)
      PROVE  IInv'
  <2>1. /\ Overwritten(bytes[ObjectOf[fd]], offset[fd], count, fd) \in Seq(Fds \cup {Hole})
        /\ Len(Overwritten(bytes[ObjectOf[fd]], offset[fd], count, fd)) <= MaxObject
    BY <1>0, <1>1, OverwrittenType DEF WriteStore
  <2>2. Larger(moved[fd].end, offset[fd] + count) \in Nat /\ moved[fd].written + count \in Nat
    <3>1. count \in Nat /\ moved[fd].end \in Nat /\ moved[fd].written \in Nat
      BY <1>0
    <3>2. offset[fd] + count \in Nat
      BY <1>0, <3>1
    <3>3. QED
      BY <3>1, <3>2 DEF Larger
  <2>3. TypeOK'
    <3>1. /\ calls' \in [Threads -> Nat] /\ pc' \in [Threads -> Places]
          /\ call' \in [Threads -> [fd : Fds, op : Ops, rc : Int]]
      <4>1. "load" \in Places /\ count \in Int
        BY <1>0 DEF Places
      <4>2. /\ Begin(t, fd, "write") /\ pc' = [pc EXCEPT ![t] = "load"]
            /\ call' = [call EXCEPT ![t] = [fd |-> fd, op |-> "write", rc |-> count]]
        BY <1>1 DEF WriteStore
      <4>3. QED
        BY <1>0, <4>1, <4>2, BegunType
    <3>2. bytes' \in [Objects -> Seq(Fds \cup {Hole})]
      BY <1>0, <1>1, <2>1 DEF WriteStore, TypeOK
    <3>3. moved' \in [Fds -> [read : Nat, written : Nat, end : Nat]]
      BY <1>0, <1>1, <2>2 DEF WriteStore, TypeOK
    <3>4. UNCHANGED <<offset, stats, mutex, seen, answer>>
      BY <1>1 DEF WriteStore
    <3>5. QED
      BY <1>0, <3>1, <3>2, <3>3, <3>4 DEF TypeOK, Places
  <2>4. CallsAllowed' /\ CallsAsBegun'
    BY <1>0, <1>1 DEF WriteStore, Begin, IInv, CallsAllowed, CallsAsBegun, TypeOK
  <2>5. ObjectsFit'
    BY <1>0, <1>1, <2>1 DEF WriteStore, IInv, ObjectsFit, TypeOK
  <2>6. PrivateAhead'
    BY <1>0, <1>1 DEF WriteStore, Begin, IInv, PrivateAhead, TypeOK
  <2>7. QED
    BY <2>3, <2>4, <2>5, <2>6 DEF IInv
<1>2. ASSUME NEW count \in Counts, ReadStore(t, fd, count)
      PROVE  IInv'
  <2> DEFINE rc == Available(bytes[ObjectOf[fd]], offset[fd], count)
  <2>1. rc \in Nat /\ offset[fd] + rc <= MaxObject
    BY <1>0, <1>2, AvailableType DEF ReadStore
  <2>2. /\ Begin(t, fd, "read")
        /\ moved' = [moved EXCEPT ![fd].read = @ + rc]
        /\ call' = [call EXCEPT ![t] = [fd |-> fd, op |-> "read", rc |-> rc]]
        /\ pc' = [pc EXCEPT ![t] = "lock"]
        /\ UNCHANGED <<offset, stats, mutex, bytes, seen, answer>>
    BY <1>2 DEF ReadStore
  <2> HIDE DEF rc
  <2>3. TypeOK'
    <3>1. /\ calls' \in [Threads -> Nat] /\ pc' \in [Threads -> Places]
          /\ call' \in [Threads -> [fd : Fds, op : Ops, rc : Int]]
      <4>1. "lock" \in Places /\ rc \in Int
        BY <2>1 DEF Places
      <4>2. /\ Begin(t, fd, "read") /\ pc' = [pc EXCEPT ![t] = "lock"]
            /\ call' = [call EXCEPT ![t] = [fd |-> fd, op |-> "read", rc |-> rc]]
        BY <2>2
      <4>3. QED
        BY <1>0, <4>1, <4>2, BegunType
    <3>2. moved[fd].read + rc \in Nat
      BY <1>0, <2>1
    <3>3. moved' \in [Fds -> [read : Nat, written : Nat, end : Nat]]
      BY <1>0, <2>2, <3>2 DEF TypeOK
    <3>4. QED
      BY <1>0, <2>2, <3>1, <3>3 DEF TypeOK, Places
  <2>4. CallsAllowed' /\ CallsAsBegun'
    BY <2>1, <2>2 DEF Begin, IInv, CallsAllowed, CallsAsBegun, TypeOK
  <2>5. ObjectsFit'
    BY <2>2 DEF IInv, ObjectsFit
  <2>6. PrivateAhead'
    BY <1>0, <2>1, <2>2 DEF Begin, IInv, PrivateAhead, TypeOK
  <2>7. QED
    BY <2>3, <2>4, <2>5, <2>6 DEF IInv
<1>3. ASSUME NEW size \in Counts, Truncate(t, fd, size)
      PROVE  IInv'
  <2>1. /\ Resized(bytes[ObjectOf[fd]], size) \in Seq(Fds \cup {Hole})
        /\ Len(Resized(bytes[ObjectOf[fd]], size)) <= MaxObject
    BY <1>0, <1>3, ResizedType DEF Truncate
  <2>2. TypeOK'
    <3>1. calls' \in [Threads -> Nat]
      BY <1>0, <1>3, BeginType DEF Truncate
    <3>2. QED
      <4>1. bytes' \in [Objects -> Seq(Fds \cup {Hole})]
        <5>1. bytes \in [Objects -> Seq(Fds \cup {Hole})]
          BY <1>0 DEF TypeOK
        <5>2. bytes' = [bytes EXCEPT ![ObjectOf[fd]] = Resized(@, size)]
          BY <1>3 DEF Truncate
        <5>3. QED
          BY <2>1, <5>1, <5>2
      <4>2. pc' \in [Threads -> Places] /\ answer' \in [Fds -> Int]
        BY <1>0, <1>3, ReturnType DEF Truncate
      <4>3. UNCHANGED <<offset, stats, mutex, call, seen, moved>>
        BY <1>3 DEF Truncate
      <4>4. QED
        BY <1>0, <3>1, <4>1, <4>2, <4>3 DEF TypeOK, Places
  <2>3. CallsAllowed' /\ CallsAsBegun'
    BY <1>3 DEF Truncate, Begin, Return, IInv, CallsAllowed, CallsAsBegun, TypeOK
  <2>4. ObjectsFit'
    BY <1>0, <1>3, <2>1 DEF Truncate, IInv, ObjectsFit, TypeOK
  <2>5. PrivateAhead'
    BY <1>0, <1>3 DEF Truncate, Begin, Return, IInv, PrivateAhead, TypeOK
  <2>6. QED
    BY <2>2, <2>3, <2>4, <2>5 DEF IInv
<1>4. ASSUME StoreFails(t, fd) \/ SeekInvalid(t, fd)
      PROVE  IInv'
  <2>1. TypeOK'
    <3>1. calls' \in [Threads -> Nat]
      BY <1>0, <1>4, BeginType DEF StoreFails, SeekInvalid
    <3>2. -EIO \in Int /\ -EINVAL \in Int
      BY <1>0
    <3>3. QED
      <4>1. pc' \in [Threads -> Places] /\ answer' \in [Fds -> Int]
        BY <1>0, <1>4, <3>2, ReturnType DEF StoreFails, SeekInvalid
      <4>2. UNCHANGED <<offset, stats, mutex, bytes, call, seen, moved>>
        BY <1>4 DEF StoreFails, SeekInvalid
      <4>3. QED
        BY <1>0, <3>1, <4>1, <4>2 DEF TypeOK, Places
  <2>2. CallsAllowed' /\ CallsAsBegun' /\ ObjectsFit' /\ PrivateAhead'
    <3>1. pc[t] = "idle" /\ pc' = [pc EXCEPT ![t] = "idle"]
      BY <1>4 DEF StoreFails, SeekInvalid, Begin, Return
    <3>2. pc' = pc /\ UNCHANGED <<offset, bytes, call, seen>>
      BY <1>0, <1>4, <3>1 DEF StoreFails, SeekInvalid, TypeOK
    <3>3. QED
      BY <3>2 DEF IInv, CallsAllowed, CallsAsBegun, ObjectsFit, PrivateAhead
  <2>3. QED
    BY <2>1, <2>2 DEF IInv
<1>5. ASSUME NEW to \in Seeks, SeekSet(t, fd, to)
      PROVE  IInv'
  <2>1. Uint64(to) \in 0 .. NbOffset - 1
    BY <1>0, Uint64Type
  <2>2. TypeOK'
    <3>1. /\ calls' \in [Threads -> Nat] /\ pc' \in [Threads -> Places]
          /\ call' \in [Threads -> [fd : Fds, op : Ops, rc : Int]]
      <4>1. "tell" \in Places /\ 0 \in Int
        BY <1>0 DEF Places
      <4>2. /\ Begin(t, fd, "lseek") /\ pc' = [pc EXCEPT ![t] = "tell"]
            /\ call' = [call EXCEPT ![t] = [fd |-> fd, op |-> "lseek", rc |-> 0]]
        BY <1>5 DEF SeekSet
      <4>3. QED
        BY <1>0, <4>1, <4>2, BegunType
    <3>2. offset' \in [Fds -> 0 .. NbOffset - 1]
      BY <1>0, <1>5, <2>1 DEF SeekSet, TypeOK
    <3>3. UNCHANGED <<stats, mutex, bytes, seen, answer, moved>>
      BY <1>5 DEF SeekSet
    <3>4. QED
      BY <1>0, <3>1, <3>2, <3>3 DEF TypeOK, Places
  <2>3. CallsAllowed' /\ CallsAsBegun' /\ ObjectsFit'
    BY <1>5 DEF SeekSet, Begin, IInv, CallsAllowed, CallsAsBegun, ObjectsFit, TypeOK
  <2>4. /\ \A g \in Fds : g # fd => offset'[g] = offset[g]
        /\ \A w \in Threads : w # t => pc'[w] = pc[w] /\ call'[w] = call[w] /\ seen'[w] = seen[w]
        /\ pc'[t] = "tell" /\ <<t, fd, "lseek">> \in MayCall
    BY <1>0, <1>5 DEF SeekSet, Begin, TypeOK
  <2>5. PrivateAhead'
    BY <2>4, PrivateAheadStep
  <2>6. QED
    BY <2>2, <2>3, <2>5 DEF IInv
<1>6. ASSUME NEW by \in Seeks, SeekCur(t, fd, by)
      PROVE  IInv'
  <2>1. TypeOK'
    <3>1. /\ calls' \in [Threads -> Nat] /\ pc' \in [Threads -> Places]
          /\ call' \in [Threads -> [fd : Fds, op : Ops, rc : Int]]
      <4>1. "load" \in Places /\ by \in Int
        BY <1>0 DEF Places
      <4>2. /\ Begin(t, fd, "lseek") /\ pc' = [pc EXCEPT ![t] = "load"]
            /\ call' = [call EXCEPT ![t] = [fd |-> fd, op |-> "lseek", rc |-> by]]
        BY <1>6 DEF SeekCur
      <4>3. QED
        BY <1>0, <4>1, <4>2, BegunType
    <3>2. UNCHANGED <<offset, stats, mutex, bytes, seen, answer, moved>>
      BY <1>6 DEF SeekCur
    <3>3. QED
      BY <1>0, <3>1, <3>2 DEF TypeOK, Places
  <2>2. CallsAllowed' /\ CallsAsBegun' /\ ObjectsFit'
    BY <1>6 DEF SeekCur, Begin, IInv, CallsAllowed, CallsAsBegun, ObjectsFit, TypeOK
  <2>3. PrivateAhead'
    BY <1>0, <1>6 DEF SeekCur, Begin, IInv, PrivateAhead, TypeOK
  <2>4. QED
    BY <2>1, <2>2, <2>3 DEF IInv
<1>7. QED
  BY <1>1, <1>2, <1>3, <1>4, <1>5, <1>6 DEF Request

\* A call that is over leaves its thread idle.
LEMMA DoneType ==
  ASSUME IInv, NEW t \in Threads, NEW rc \in Int, Done(t, rc),
         UNCHANGED <<offset, bytes, calls, moved>>,
         stats' \in [Fds -> [bytesWritten : 0 .. NbOffset - 1, maxOffsetWritten : 0 .. NbOffset - 1]],
         mutex' \in [Fds -> Threads \cup {Nobody}]
  PROVE  IInv'
<1>0. TypeOK /\ call[t].fd \in Fds
  BY DEF IInv, TypeOK
<1>1. TypeOK'
  <2>1. pc' \in [Threads -> Places] /\ answer' \in [Fds -> Int]
    BY <1>0, ReturnType DEF Done
  <2>2. call' = [call EXCEPT ![t] = NoCall] /\ seen' = [seen EXCEPT ![t] = 0]
    BY DEF Done
  <2>3. NoCall \in [fd : Fds, op : Ops, rc : Int] /\ 0 \in 0 .. NbOffset - 1
    BY NoCallType, StreamAssumption
  <2>4. QED
    BY <1>0, <2>1, <2>2, <2>3 DEF TypeOK, Places
<1>2. /\ pc'[t] = "idle" /\ call'[t] = NoCall /\ bytes' = bytes /\ offset' = offset
      /\ \A w \in Threads : w # t => pc'[w] = pc[w] /\ call'[w] = call[w] /\ seen'[w] = seen[w]
  BY <1>0 DEF Done, Return, TypeOK
<1>3. CallsAllowed' /\ ObjectsFit' /\ PrivateAhead'
  BY <1>2 DEF IInv, CallsAllowed, ObjectsFit, PrivateAhead
<1>4. CallsAsBegun'
  BY <1>2, NoCallType DEF IInv, CallsAsBegun
<1>5. QED
  BY <1>1, <1>3, <1>4 DEF IInv

\* The call of a thread that goes on.
Proceed(t) ==
  Lock(t) \/ LoadOffset(t) \/ StoreOffset(t) \/ Count(t) \/ Reach(t) \/ Tell(t)

\* The offset is loaded, moved and looked at, and the call returns.
LEMMA RestStep ==
  ASSUME IInv, NEW t \in Threads, Proceed(t)
  PROVE  IInv'
<1> DEFINE fd == call[t].fd
<1>0. /\ TypeOK /\ fd \in Fds /\ call[t].op \in Ops /\ call[t].rc \in Int
      /\ offset[fd] \in 0 .. NbOffset - 1 /\ seen[t] \in 0 .. NbOffset - 1
      /\ stats[fd] \in [bytesWritten : 0 .. NbOffset - 1, maxOffsetWritten : 0 .. NbOffset - 1]
  <2>1. TypeOK
    BY DEF IInv
  <2>2. call[t] \in [fd : Fds, op : Ops, rc : Int]
    BY <2>1 DEF TypeOK
  <2>3. QED
    BY <2>1, <2>2 DEF TypeOK
<1>1. pc[t] # "idle" /\ <<t, fd, call[t].op>> \in MayCall
  BY DEF Proceed, Lock, LoadOffset, StoreOffset, Count, Reach, Tell, IInv, CallsAllowed
<1>2. CASE Lock(t)
  <2>1. TypeOK'
    BY <1>0, <1>2 DEF Lock, TypeOK
  <2>2. CallsAllowed' /\ CallsAsBegun' /\ ObjectsFit' /\ PrivateAhead'
    BY <1>0, <1>2 DEF Lock, IInv, CallsAllowed, CallsAsBegun, ObjectsFit, PrivateAhead, TypeOK
  <2>3. QED
    BY <2>1, <2>2 DEF IInv
<1>3. CASE LoadOffset(t)
  <2>1. TypeOK'
    BY <1>0, <1>3 DEF LoadOffset, TypeOK
  <2>2. CallsAllowed' /\ CallsAsBegun' /\ ObjectsFit' /\ PrivateAhead'
    BY <1>0, <1>3 DEF LoadOffset, IInv, CallsAllowed, CallsAsBegun, ObjectsFit, PrivateAhead, TypeOK
  <2>3. QED
    BY <2>1, <2>2 DEF IInv
<1>4. CASE StoreOffset(t)
  <2>1. seen[t] + call[t].rc \in Int
    BY <1>0
  <2>2. Uint64(seen[t] + call[t].rc) \in 0 .. NbOffset - 1
    BY <2>1, Uint64Type
  <2>3. TypeOK'
    BY <1>0, <1>4, <2>2 DEF StoreOffset, TypeOK
  <2>4. CallsAllowed' /\ CallsAsBegun' /\ ObjectsFit'
    BY <1>0, <1>4 DEF StoreOffset, IInv, CallsAllowed, CallsAsBegun, ObjectsFit, TypeOK
  <2>5. /\ \A g \in Fds : g # fd => offset'[g] = offset[g]
        /\ \A w \in Threads : w # t => pc'[w] = pc[w] /\ call'[w] = call[w] /\ seen'[w] = seen[w]
        /\ pc'[t] \in {"tell", "count"}
    BY <1>0, <1>4 DEF StoreOffset, TypeOK
  <2> HIDE DEF fd
  <2>6. PrivateAhead'
    BY <1>0, <1>1, <2>5, PrivateAheadStep
  <2>7. QED
    BY <2>3, <2>4, <2>6 DEF IInv
<1>5. CASE Count(t)
  <2> DEFINE written == IF call[t].op = "write" THEN Uint64(stats[fd].bytesWritten + call[t].rc)
                        ELSE stats[fd].bytesWritten
  <2>1. written \in 0 .. NbOffset - 1
    <3>1. stats[fd].bytesWritten + call[t].rc \in Int
      BY <1>0
    <3>2. QED
      BY <1>0, <3>1, Uint64Type
  <2>2. stats' = [stats EXCEPT ![fd].bytesWritten = written]
    BY <1>5 DEF Count
  <2> HIDE DEF written
  <2>3. stats' \in [Fds -> [bytesWritten : 0 .. NbOffset - 1, maxOffsetWritten : 0 .. NbOffset - 1]]
    BY <1>0, <2>1, <2>2 DEF TypeOK
  <2>4. UNCHANGED <<offset, bytes, calls, moved>> /\ pc[t] = "count"
    BY <1>5 DEF Count
  <2>5. CASE call[t].op = "write" /\ offset[fd] # 0
    <3>1. /\ mutex' = [mutex EXCEPT ![fd] = t]
          /\ pc' = [pc EXCEPT ![t] = "reach"]
          /\ UNCHANGED <<call, seen, answer>>
      BY <1>5, <2>5 DEF Count
    <3>2. TypeOK'
      BY <1>0, <2>3, <2>4, <3>1 DEF TypeOK
    <3>3. CallsAllowed' /\ CallsAsBegun' /\ ObjectsFit' /\ PrivateAhead'
      BY <1>0, <1>1, <2>4, <2>5, <3>1 DEF IInv, CallsAllowed, CallsAsBegun, ObjectsFit, PrivateAhead, TypeOK
    <3>4. QED
      BY <3>2, <3>3 DEF IInv
  <2>6. CASE ~ (call[t].op = "write" /\ offset[fd] # 0)
    <3>1. mutex' = [mutex EXCEPT ![fd] = Nobody] /\ Done(t, call[t].rc)
      BY <1>5, <2>6 DEF Count
    <3>2. mutex' \in [Fds -> Threads \cup {Nobody}]
      BY <1>0, <3>1 DEF TypeOK
    <3>3. QED
      BY <1>0, <2>3, <2>4, <3>1, <3>2, DoneType
  <2>7. QED
    BY <2>5, <2>6
<1>6. CASE Reach(t)
  <2> DEFINE reached == Larger(stats[fd].maxOffsetWritten, reachOf(t))
  <2>1. reached \in 0 .. NbOffset - 1
    <3>1. offset[fd] - 1 \in Int
      BY <1>0
    <3>2. reachOf(t) \in 0 .. NbOffset - 1
      BY <3>1, Uint64Type DEF reachOf
    <3>3. QED
      BY <1>0, <3>2 DEF Larger
  <2>2. /\ stats' = [stats EXCEPT ![fd].maxOffsetWritten = reached]
        /\ mutex' = [mutex EXCEPT ![fd] = Nobody]
        /\ Done(t, call[t].rc)
        /\ UNCHANGED <<offset, bytes, calls, moved>>
    BY <1>6 DEF Reach
  <2> HIDE DEF reached
  <2>3. /\ stats' \in [Fds -> [bytesWritten : 0 .. NbOffset - 1, maxOffsetWritten : 0 .. NbOffset - 1]]
        /\ mutex' \in [Fds -> Threads \cup {Nobody}]
    BY <1>0, <2>1, <2>2 DEF TypeOK
  <2>4. QED
    BY <1>0, <2>2, <2>3, DoneType
<1>7. CASE Tell(t)
  <2>1. Signed(offset[fd]) \in Int
    BY <1>0, StreamAssumption DEF Signed
  <2>2. Done(t, Signed(offset[fd])) /\ UNCHANGED <<offset, stats, mutex, bytes, calls, moved>>
    BY <1>7 DEF Tell
  <2>3. QED
    BY <1>0, <2>1, <2>2, DoneType DEF TypeOK
<1>8. QED
  BY <1>2, <1>3, <1>4, <1>5, <1>6, <1>7 DEF Proceed

\* The invariant holds in every state.
LEMMA Invariance == Spec => []IInv
<1>1. IInv /\ [Next]_vars => IInv'
  <2> SUFFICES ASSUME IInv, [Next]_vars PROVE IInv'
    OBVIOUS
  <2>1. CASE Next
    BY <2>1, RequestStep, RestStep DEF Next, Proceed
  <2>2. CASE UNCHANGED vars
    BY <2>2 DEF vars, IInv, TypeOK, CallsAllowed, CallsAsBegun, ObjectsFit, PrivateAhead
  <2>3. QED
    BY <2>1, <2>2
<1>2. QED
  BY InitIInv, <1>1, PTL DEF Spec

\* Offsets, counters and the contents of the objects keep their types, and no
\* counter leaves its width, whatever the threads do to each other's offsets.
THEOREM StreamTypeCorrect == Spec => []TypeOK
<1>1. IInv => TypeOK
  BY DEF IInv
<1>2. QED
  BY Invariance, <1>1, PTL

-----------------------------------------------------------------------------
(* Refinement                                                              *)

\* No shared descriptor writes to an object that a private one is open on.
SharedElsewhere ==
  \A m \in MayCall :
    m[2] \notin Private /\ m[3] \in {"write", "ftruncate"} =>
      \A fd \in Private : ObjectOf[fd] # ObjectOf[m[2]]

\* A step in which no seek from the current position leaves the range of an off64_t.
SeeksInRange ==
  \A t \in Threads, fd \in Private, d \in Seeks :
    SeekCur(t, fd, d) =>
      -NbOffset <= 2 * (Signed(offset[fd]) + d) /\ 2 * (Signed(offset[fd]) + d) < NbOffset

\* The call of t has done to the offset what it does.
HasMoved(t) == pc[t] \in {"count", "reach", "tell"}

\* What PositionOf and AnswerOf are, with and without a call half way.
Mapped ==
  \A fd \in Private :
    /\ Under(fd) = {} => PositionOf(fd) = Signed(offset[fd]) /\ AnswerOf(fd) = answer[fd]
    /\ \A t \in Under(fd) :
         /\ PositionOf(fd) = IF HasMoved(t) THEN Signed(offset[fd])
                             ELSE Signed(Uint64(offset[fd] + call[t].rc))
         /\ AnswerOf(fd) = IF call[t].op = "lseek" THEN PositionOf(fd) ELSE call[t].rc

\* The member of a set of one.
LEMMA ChooseOnly ==
  ASSUME NEW S, NEW x \in S, \A y \in S : y = x
  PROVE  (CHOOSE y \in S : TRUE) = x
OBVIOUS

\* A call of a thread that is half way is the only one on its private descriptor.
LEMMA OneUnder ==
  ASSUME IInv, NEW fd \in Private, NEW t \in Threads, NEW op, <<t, fd, op>> \in MayCall
  PROVE  \A w \in Under(fd) : w = t
<1> SUFFICES ASSUME NEW w \in Under(fd) PROVE w = t
  OBVIOUS
<1>1. w \in Threads /\ <<w, fd, call[w].op>> \in MayCall
  BY DEF Under, IInv, CallsAllowed
<1>2. QED
  BY <1>1, OneUser

LEMMA MappedHolds == IInv => Mapped
<1> SUFFICES ASSUME IInv, NEW fd \in Private
             PROVE  /\ Under(fd) = {} => PositionOf(fd) = Signed(offset[fd]) /\ AnswerOf(fd) = answer[fd]
                    /\ \A t \in Under(fd) :
                         /\ PositionOf(fd) = IF HasMoved(t) THEN Signed(offset[fd])
                                             ELSE Signed(Uint64(offset[fd] + call[t].rc))
                         /\ AnswerOf(fd) = IF call[t].op = "lseek" THEN PositionOf(fd) ELSE call[t].rc
  BY DEF Mapped
<1>1. CASE Under(fd) = {}
  BY <1>1 DEF PositionOf, AnswerOf, Ahead
<1>2. ASSUME NEW t \in Under(fd)
      PROVE  /\ PositionOf(fd) = IF HasMoved(t) THEN Signed(offset[fd])
                                 ELSE Signed(Uint64(offset[fd] + call[t].rc))
             /\ AnswerOf(fd) = IF call[t].op = "lseek" THEN PositionOf(fd) ELSE call[t].rc
  <2>1. t \in Threads /\ pc[t] \in Places \ {"idle"} /\ <<t, fd, call[t].op>> \in MayCall
    BY DEF Under, IInv, CallsAllowed, TypeOK, Places
  <2>2. \A w \in Under(fd) : w = t
    BY <2>1, OneUnder
  <2>3. (CHOOSE w \in Under(fd) : TRUE) = t
    BY <2>2, ChooseOnly
  <2>4. AnswerOf(fd) = IF call[t].op = "lseek" THEN PositionOf(fd) ELSE call[t].rc
    <3>1. Under(fd) # {}
      OBVIOUS
    <3>2. QED
      BY <2>3, <3>1 DEF AnswerOf
  <2>5. CASE HasMoved(t)
    <3>1. Ahead(fd) = {}
      BY <2>2, <2>5 DEF Ahead, HasMoved
    <3>2. QED
      BY <2>4, <2>5, <3>1 DEF PositionOf
  <2>6. CASE ~ HasMoved(t)
    <3>1. t \in Ahead(fd) /\ \A w \in Ahead(fd) : w = t
      BY <2>1, <2>2, <2>6 DEF Ahead, HasMoved, Places
    <3>2. (CHOOSE w \in Ahead(fd) : TRUE) = t
      BY <3>1, ChooseOnly
    <3>3. QED
      BY <2>4, <2>6, <3>1, <3>2 DEF PositionOf
  <2>7. QED
    BY <2>5, <2>6
<1>3. QED
  BY <1>1, <1>2

\* A private descriptor whose thread is idle.
LEMMA Idle ==
  ASSUME IInv, Mapped, NEW fd \in Private, NEW t \in Threads, NEW op, Begin(t, fd, op)
  PROVE  PositionOf(fd) = Signed(offset[fd]) /\ AnswerOf(fd) = answer[fd]
<1>1. \A w \in Under(fd) : w = t
  BY OneUnder DEF Begin
<1>2. Under(fd) = {}
  BY <1>1 DEF Under, Begin
<1>3. QED
  BY <1>2 DEF Mapped

\* A private descriptor that the thread of the step has nothing to do with.
LEMMA OthersSame ==
  ASSUME Mapped, Mapped', NEW t \in Threads, NEW g \in Private,
         \A w \in Threads : w # t => pc'[w] = pc[w] /\ call'[w] = call[w],
         t \notin Under(g), t \notin Under(g)', offset'[g] = offset[g], answer'[g] = answer[g]
  PROVE  PositionOf(g)' = PositionOf(g) /\ AnswerOf(g)' = AnswerOf(g)
<1>1. Under(g)' = Under(g)
  BY DEF Under
<1>2. CASE Under(g) = {}
  BY <1>1, <1>2 DEF Mapped
<1>3. ASSUME NEW w \in Under(g)
      PROVE  PositionOf(g)' = PositionOf(g) /\ AnswerOf(g)' = AnswerOf(g)
  <2>1. w # t /\ w \in Threads
    BY DEF Under
  <2>2. pc'[w] = pc[w] /\ call'[w] = call[w]
    BY <2>1
  <2>3. QED
    BY <1>1, <2>2 DEF Mapped, HasMoved
<1>4. QED
  BY <1>2, <1>3

\* A step that moves one private descriptor, as PosixStream sees it.
LEMMA OneMoves ==
  ASSUME NEW fd \in Private, NEW p, NEW a, PositionOf(fd)' = p, AnswerOf(fd)' = a,
         \A g \in Private \ {fd} : PositionOf(g)' = PositionOf(g) /\ AnswerOf(g)' = AnswerOf(g)
  PROVE  /\ [g \in Private |-> PositionOf(g)]' = [[g \in Private |-> PositionOf(g)] EXCEPT ![fd] = p]
         /\ [g \in Private |-> AnswerOf(g)]' = [[g \in Private |-> AnswerOf(g)] EXCEPT ![fd] = a]
OBVIOUS

\* Nothing that PosixStream sees changes between the answer of the store and
\* the return of the call.
LEMMA RestMaps ==
  ASSUME IInv, Mapped, Mapped', NEW t \in Threads, Proceed(t)
  PROVE  UNCHANGED Promise!vars
<1>0. TypeOK /\ \E fd \in Fds : call[t].fd = fd
  BY DEF IInv, TypeOK
<1>fd. PICK fd \in Fds : call[t].fd = fd
  BY <1>0
<1>1. pc[t] # "idle" /\ <<t, fd, call[t].op>> \in MayCall /\ t \in Under(fd)
  BY <1>fd DEF Proceed, Lock, LoadOffset, StoreOffset, Count, Reach, Tell, IInv, CallsAllowed, Under
<1>2. /\ \A w \in Threads : w # t => pc'[w] = pc[w] /\ call'[w] = call[w]
      /\ pc'[t] # "idle" => call'[t] = call[t]
      /\ \A g \in Fds : g # fd => offset'[g] = offset[g] /\ answer'[g] = answer[g]
  BY <1>0, <1>fd DEF Proceed, Lock, LoadOffset, StoreOffset, Count, Reach, Tell, Done, Return, TypeOK
<1>3. bytes' = bytes
  BY DEF Proceed, Lock, LoadOffset, StoreOffset, Count, Reach, Tell
<1>4. ASSUME NEW g \in Private, g # fd
      PROVE  PositionOf(g)' = PositionOf(g) /\ AnswerOf(g)' = AnswerOf(g)
  <2>1. t \notin Under(g) /\ t \notin Under(g)'
    BY <1>fd, <1>2, <1>4 DEF Under
  <2>2. g \in Fds
    BY DEF Private
  <2>3. QED
    BY <1>2, <1>4, <2>1, <2>2, OthersSame
<1>5. ASSUME fd \in Private
      PROVE  PositionOf(fd)' = PositionOf(fd) /\ AnswerOf(fd)' = AnswerOf(fd)
  <2>1. /\ PositionOf(fd) = IF HasMoved(t) THEN Signed(offset[fd])
                             ELSE Signed(Uint64(offset[fd] + call[t].rc))
        /\ AnswerOf(fd) = IF call[t].op = "lseek" THEN PositionOf(fd) ELSE call[t].rc
    BY <1>1, <1>5 DEF Mapped
  <2>2. ASSUME call' = call, pc'[t] # "idle",
               IF HasMoved(t)' THEN Signed(offset'[fd]) = PositionOf(fd)
               ELSE Signed(Uint64(offset'[fd] + call[t].rc)) = PositionOf(fd)
        PROVE  PositionOf(fd)' = PositionOf(fd) /\ AnswerOf(fd)' = AnswerOf(fd)
    <3>1. t \in Under(fd)'
      BY <1>fd, <2>2 DEF Under
    <3>2. /\ PositionOf(fd)' = IF HasMoved(t)' THEN Signed(offset'[fd])
                               ELSE Signed(Uint64(offset'[fd] + call[t].rc))
          /\ AnswerOf(fd)' = IF call[t].op = "lseek" THEN PositionOf(fd)' ELSE call[t].rc
      BY <1>5, <2>2, <3>1 DEF Mapped
    <3>3. QED
      BY <2>1, <2>2, <3>2
  <2>3. CASE Lock(t) \/ LoadOffset(t)
    <3>1. /\ ~ HasMoved(t) /\ ~ HasMoved(t)' /\ pc'[t] # "idle"
          /\ offset' = offset /\ call' = call
      BY <1>0, <2>3 DEF Lock, LoadOffset, TypeOK, HasMoved
    <3>2. QED
      BY <2>1, <2>2, <3>1
  <2>4. CASE StoreOffset(t)
    <3>1. /\ pc[t] = "store" /\ HasMoved(t)' /\ pc'[t] # "idle" /\ call' = call
          /\ offset'[fd] = Uint64(seen[t] + call[t].rc)
      BY <1>0, <1>fd, <2>4 DEF StoreOffset, TypeOK, HasMoved
    <3>2. seen[t] = offset[fd]
      BY <1>fd, <1>5, <3>1 DEF IInv, PrivateAhead
    <3>3. QED
      BY <2>1, <2>2, <3>1, <3>2 DEF HasMoved
  <2>5. CASE Count(t) /\ call[t].op = "write" /\ offset[fd] # 0
    <3>1. /\ HasMoved(t) /\ HasMoved(t)' /\ pc'[t] # "idle"
          /\ offset' = offset /\ call' = call
      BY <1>0, <1>fd, <2>5 DEF Count, TypeOK, HasMoved
    <3>2. QED
      BY <2>1, <2>2, <3>1
  <2>6. ASSUME NEW a, Done(t, a), HasMoved(t), offset' = offset, a = AnswerOf(fd)
        PROVE  PositionOf(fd)' = PositionOf(fd) /\ AnswerOf(fd)' = AnswerOf(fd)
    <3>1. pc'[t] = "idle" /\ answer'[fd] = a
      BY <1>0, <1>fd, <2>6 DEF Done, Return, TypeOK
    <3>2. \A w \in Under(fd) : w = t
      BY <1>1, <1>5, OneUnder
    <3>3. Under(fd)' = {}
      BY <1>2, <3>1, <3>2 DEF Under
    <3>4. PositionOf(fd)' = Signed(offset[fd]) /\ AnswerOf(fd)' = a
      BY <1>5, <2>6, <3>1, <3>3 DEF Mapped
    <3>5. QED
      BY <2>1, <2>6, <3>4
  <2>7. CASE Count(t) /\ ~ (call[t].op = "write" /\ offset[fd] # 0)
    <3>1. Done(t, call[t].rc) /\ HasMoved(t) /\ offset' = offset /\ call[t].op # "lseek"
      BY <1>fd, <2>7 DEF Count, HasMoved, IInv, CallsAsBegun
    <3>2. QED
      BY <2>1, <2>6, <3>1
  <2>8. CASE Reach(t)
    <3>1. Done(t, call[t].rc) /\ HasMoved(t) /\ offset' = offset /\ call[t].op # "lseek"
      BY <2>8 DEF Reach, HasMoved, IInv, CallsAsBegun
    <3>2. QED
      BY <2>1, <2>6, <3>1
  <2>9. CASE Tell(t)
    <3>1. Done(t, Signed(offset[fd])) /\ HasMoved(t) /\ offset' = offset /\ call[t].op = "lseek"
      BY <1>fd, <2>9 DEF Tell, HasMoved, IInv, CallsAsBegun
    <3>2. QED
      BY <2>1, <2>6, <3>1
  <2>10. QED
    BY <2>3, <2>4, <2>5, <2>7, <2>8, <2>9 DEF Proceed
<1>6. \A g \in Private : PositionOf(g)' = PositionOf(g) /\ AnswerOf(g)' = AnswerOf(g)
  BY <1>4, <1>5
<1>7. QED
  BY <1>3, <1>6 DEF Promise!vars

\* A request leaves the private descriptors it is not for as they were.
LEMMA RequestOthers ==
  ASSUME IInv, Mapped, Mapped', NEW t \in Threads, NEW fd \in Fds, Request(t, fd)
  PROVE  /\ \A w \in Threads : w # t => pc'[w] = pc[w] /\ call'[w] = call[w]
         /\ \A g \in Private \ {fd} : PositionOf(g)' = PositionOf(g) /\ AnswerOf(g)' = AnswerOf(g)
<1>0. TypeOK
  BY DEF IInv
<1>1. /\ pc[t] = "idle" /\ \A w \in Threads : w # t => pc'[w] = pc[w] /\ call'[w] = call[w]
      /\ \A g \in Fds : g # fd => offset'[g] = offset[g] /\ answer'[g] = answer[g]
  BY <1>0 DEF Request, WriteStore, ReadStore, Truncate, StoreFails, SeekSet, SeekCur, SeekInvalid,
              Begin, Return, TypeOK
<1>2. pc'[t] = "idle" \/ call'[t].fd = fd
  <2>1. t \in DOMAIN pc /\ t \in DOMAIN call
    BY <1>0 DEF TypeOK
  <2>2. CASE \E count \in Counts : WriteStore(t, fd, count) \/ ReadStore(t, fd, count)
    BY <2>1, <2>2 DEF WriteStore, ReadStore
  <2>3. CASE \E d \in Seeks : SeekSet(t, fd, d) \/ SeekCur(t, fd, d)
    BY <2>1, <2>3 DEF SeekSet, SeekCur
  <2>4. CASE \E rc : Return(t, fd, rc)
    BY <2>1, <2>4 DEF Return
  <2>5. QED
    BY <2>2, <2>3, <2>4 DEF Request, Truncate, StoreFails, SeekInvalid
<1>3. ASSUME NEW g \in Private \ {fd}
      PROVE  PositionOf(g)' = PositionOf(g) /\ AnswerOf(g)' = AnswerOf(g)
  <2>1. g # fd /\ g \in Fds
    BY DEF Private
  <2>2. t \notin Under(g) /\ t \notin Under(g)'
    BY <1>1, <1>2, <2>1 DEF Under
  <2>3. QED
    BY <1>1, <2>1, <2>2, OthersSame
<1>4. QED
  BY <1>1, <1>3

\* A request on a descriptor that is shared is not seen.
LEMMA SharedRequestMaps ==
  ASSUME SharedElsewhere, IInv, Mapped, Mapped',
         NEW t \in Threads, NEW fd \in Fds \ Private, Request(t, fd)
  PROVE  UNCHANGED Promise!vars
<1>0. TypeOK
  BY DEF IInv
<1>1. ASSUME NEW g \in Private
      PROVE  /\ PositionOf(g)' = PositionOf(g) /\ AnswerOf(g)' = AnswerOf(g)
             /\ bytes'[ObjectOf[g]] = bytes[ObjectOf[g]]
  <2>1. g # fd /\ g \in Fds
    BY DEF Private
  <2>2. PositionOf(g)' = PositionOf(g) /\ AnswerOf(g)' = AnswerOf(g)
    BY <2>1, RequestOthers
  <2>3. ASSUME <<t, fd, "write">> \in MayCall \/ <<t, fd, "ftruncate">> \in MayCall
        PROVE  ObjectOf[g] # ObjectOf[fd]
    BY <2>3 DEF SharedElsewhere
  <2>4. ObjectOf[g] \in Objects
    BY <2>1, StreamAssumption
  <2>5. bytes'[ObjectOf[g]] = bytes[ObjectOf[g]]
    BY <1>0, <2>3, <2>4 DEF Request, WriteStore, ReadStore, Truncate, StoreFails, SeekSet, SeekCur,
                            SeekInvalid, Begin, TypeOK
  <2>6. QED
    BY <2>2, <2>5
<1>2. QED
  BY <1>1 DEF Promise!vars

\* A call that returns at once leaves its private descriptor idle.
LEMMA Returned ==
  ASSUME IInv, Mapped', NEW t \in Threads, NEW fd \in Private, NEW op, NEW rc,
         Begin(t, fd, op), Return(t, fd, rc), call' = call
  PROVE  PositionOf(fd)' = Signed(offset'[fd]) /\ AnswerOf(fd)' = rc
<1>1. \A w \in Under(fd) : w = t
  BY OneUnder DEF Begin
<1>2. /\ pc'[t] = "idle" /\ \A w \in Threads : w # t => pc'[w] = pc[w]
      /\ answer'[fd] = rc
  BY DEF Return, IInv, TypeOK, Private
<1>3. Under(fd)' = {}
  BY <1>1, <1>2 DEF Under
<1>4. QED
  BY <1>2, <1>3 DEF Mapped

\* The bytes that PosixStream sees.
Visible == [o \in {ObjectOf[fd] : fd \in Private} |-> bytes[o]]

\* A change to the object of a private descriptor.
LEMMA VisibleChange ==
  ASSUME TypeOK, NEW fd \in Private, NEW new, bytes' = [bytes EXCEPT ![ObjectOf[fd]] = new]
  PROVE  /\ Visible' = [Visible EXCEPT ![ObjectOf[fd]] = new]
         /\ Visible[ObjectOf[fd]] = bytes[ObjectOf[fd]]
<1>1. \A g \in Private : ObjectOf[g] \in Objects
  BY StreamAssumption DEF Private
<1>2. \A o \in {ObjectOf[g] : g \in Private} : bytes'[o] = IF o = ObjectOf[fd] THEN new ELSE bytes[o]
  BY <1>1 DEF TypeOK
<1>3. QED
  BY <1>2 DEF Visible

\* A request on a private descriptor is a step of PosixStream.
LEMMA PrivateRequestMaps ==
  ASSUME SeeksInRange, IInv, Mapped, Mapped',
         NEW t \in Threads, NEW fd \in Private, Request(t, fd)
  PROVE  Promise!Next
<1> DEFINE position == [g \in Private |-> PositionOf(g)]
           answers == [g \in Private |-> AnswerOf(g)]
<1>0. /\ TypeOK /\ fd \in Fds /\ offset[fd] \in 0 .. NbOffset - 1 /\ offset[fd] \in Nat
      /\ MaxObject \in Nat /\ NbOffset \in Nat /\ 2 * MaxObject < NbOffset
      /\ Counts \subseteq Nat /\ Seeks \subseteq Int
      /\ \A d \in Seeks : -NbOffset <= 2 * d /\ 2 * d < NbOffset
      /\ bytes[ObjectOf[fd]] \in Seq(Fds \cup {Hole}) /\ Len(bytes[ObjectOf[fd]]) <= MaxObject
  <2>1. /\ fd \in Fds /\ TypeOK /\ ObjectsFit
    BY DEF Private, IInv
  <2>2. ObjectOf[fd] \in Objects
    BY <2>1, StreamAssumption
  <2>3. offset[fd] \in 0 .. NbOffset - 1 /\ bytes[ObjectOf[fd]] \in Seq(Fds \cup {Hole})
    BY <2>1, <2>2 DEF TypeOK
  <2>4. QED
    BY <2>1, <2>2, <2>3, StreamAssumption DEF ObjectsFit
<1>1. \A op : Begin(t, fd, op) => position[fd] = Signed(offset[fd])
  BY Idle
<1>2. \A g \in Private \ {fd} : PositionOf(g)' = PositionOf(g) /\ AnswerOf(g)' = AnswerOf(g)
  BY <1>0, RequestOthers
<1>3. ASSUME NEW p, NEW a, PositionOf(fd)' = p, AnswerOf(fd)' = a
      PROVE  position' = [position EXCEPT ![fd] = p] /\ answers' = [answers EXCEPT ![fd] = a]
  BY <1>2, <1>3, OneMoves
<1>4. ASSUME NEW count \in Counts, WriteStore(t, fd, count)
      PROVE  Promise!Write(fd)
  <2>1. /\ Begin(t, fd, "write") /\ offset[fd] + count <= MaxObject
        /\ bytes' = [bytes EXCEPT ![ObjectOf[fd]] =
                       Overwritten(bytes[ObjectOf[fd]], offset[fd], count, fd)]
    BY <1>0, <1>4 DEF WriteStore, TypeOK
  <2>2. /\ pc'[t] = "load" /\ call'[t].fd = fd /\ call'[t].op = "write" /\ call'[t].rc = count
        /\ offset' = offset
    BY <1>0, <1>4 DEF WriteStore, TypeOK
  <2>3. PositionOf(fd)' = Signed(Uint64(offset[fd] + count)) /\ AnswerOf(fd)' = count
    BY <2>2 DEF Mapped, Under, HasMoved
  <2>4. count \in Nat /\ Signed(Uint64(offset[fd] + count)) = offset[fd] + count
    <3>1. count \in Nat
      BY <1>0
    <3>2. PICK n \in Nat : n = offset[fd] + count
      BY <1>0, <3>1
    <3>3. -NbOffset <= 2 * n /\ 2 * n < NbOffset
      BY <1>0, <2>1, <3>2
    <3>4. Signed(Uint64(n)) = n
      BY <3>2, <3>3, SignedOfUint64
    <3>5. QED
      BY <3>1, <3>2, <3>4
  <2>5. position[fd] = offset[fd]
    <3>1. 2 * offset[fd] < NbOffset
      BY <1>0, <2>1, <2>4
    <3>2. QED
      BY <1>1, <2>1, <3>1 DEF Signed
  <2>6. /\ position' = [position EXCEPT ![fd] = position[fd] + count]
        /\ answers' = [answers EXCEPT ![fd] = count]
    BY <1>3, <2>3, <2>4, <2>5
  <2>7. Visible' = [Visible EXCEPT ![ObjectOf[fd]] =
                      Promise!Overwritten(Visible[ObjectOf[fd]], position[fd], count, fd)]
    <3>1. /\ Visible' = [Visible EXCEPT ![ObjectOf[fd]] =
                           Overwritten(bytes[ObjectOf[fd]], offset[fd], count, fd)]
          /\ Visible[ObjectOf[fd]] = bytes[ObjectOf[fd]]
      BY <1>0, <2>1, VisibleChange
    <3>2. Overwritten(bytes[ObjectOf[fd]], offset[fd], count, fd)
            = Promise!Overwritten(bytes[ObjectOf[fd]], offset[fd], count, fd)
      BY DEF Overwritten, ByteAt, Promise!Overwritten, Promise!ByteAt
    <3> HIDE DEF position
    <3>3. QED
      BY <3>1, <3>2, <2>5
  <2>8. position[fd] >= 0 /\ position[fd] + count <= MaxObject
    BY <1>0, <2>1, <2>5
  <2> HIDE DEF position, answers
  <2>9. QED
    BY <2>6, <2>7, <2>8 DEF Promise!Write, Visible, position, answers
<1>5. ASSUME NEW count \in Counts, ReadStore(t, fd, count)
      PROVE  Promise!Read(fd)
  <2> DEFINE rc == Available(bytes[ObjectOf[fd]], offset[fd], count)
  <2>1. /\ Begin(t, fd, "read") /\ offset[fd] <= MaxObject
        /\ pc'[t] = "lock" /\ call'[t].fd = fd /\ call'[t].op = "read" /\ call'[t].rc = rc
        /\ offset' = offset /\ bytes' = bytes
    BY <1>0, <1>5 DEF ReadStore, TypeOK
  <2>2. rc \in Nat /\ offset[fd] + rc <= MaxObject
    BY <1>0, <2>1, AvailableType
  <2>3. Visible' = Visible /\ Visible[ObjectOf[fd]] = bytes[ObjectOf[fd]]
    BY <2>1 DEF Visible
  <2>4. Signed(offset[fd]) = offset[fd]
    BY <1>0, <2>1 DEF Signed
  <2>5. position[fd] = offset[fd]
    BY <1>1, <2>1, <2>4
  <2>6. rc = Promise!Available(Visible[ObjectOf[fd]], position[fd], count)
    BY <2>3, <2>5 DEF Available, Promise!Available
  <2> HIDE DEF rc
  <2>7. PositionOf(fd)' = Signed(Uint64(offset[fd] + rc)) /\ AnswerOf(fd)' = rc
    BY <2>1 DEF Mapped, Under, HasMoved
  <2>8. Signed(Uint64(offset[fd] + rc)) = offset[fd] + rc
    BY <1>0, <2>2, SignedOfUint64
  <2>9. /\ position' = [position EXCEPT ![fd] = position[fd] + rc]
        /\ answers' = [answers EXCEPT ![fd] = rc]
    BY <1>3, <2>5, <2>7, <2>8
  <2>10. position[fd] >= 0
    BY <1>0, <2>5
  <2> HIDE DEF position, answers
  <2>11. QED
    BY <2>3, <2>6, <2>9, <2>10 DEF Promise!Read, Visible, position, answers
<1>6. ASSUME NEW size \in Counts, Truncate(t, fd, size)
      PROVE  Promise!Truncate(fd)
  <2>1. /\ Begin(t, fd, "ftruncate") /\ size <= MaxObject /\ Return(t, fd, 0)
        /\ bytes' = [bytes EXCEPT ![ObjectOf[fd]] = Resized(bytes[ObjectOf[fd]], size)]
        /\ offset' = offset /\ call' = call
    BY <1>6 DEF Truncate
  <2>2. PositionOf(fd)' = position[fd] /\ AnswerOf(fd)' = 0
    BY <1>1, <2>1, Returned
  <2>3. position' = [position EXCEPT ![fd] = position[fd]] /\ answers' = [answers EXCEPT ![fd] = 0]
    BY <1>3, <2>2
  <2>4. Visible' = [Visible EXCEPT ![ObjectOf[fd]] = Promise!Resized(Visible[ObjectOf[fd]], size)]
    BY <1>0, <2>1, VisibleChange DEF Resized, ByteAt, Promise!Resized, Promise!ByteAt
  <2>5. position' = position
    BY <2>3
  <2> HIDE DEF position, answers
  <2>6. QED
    BY <2>1, <2>3, <2>4, <2>5 DEF Promise!Truncate, Visible, position, answers
<1>7. ASSUME StoreFails(t, fd) \/ SeekInvalid(t, fd)
      PROVE  Promise!Fail(fd)
  <2>1. PICK rc \in {-EIO, -EINVAL} : Return(t, fd, rc)
    BY <1>7 DEF StoreFails, SeekInvalid
  <2>2. (\E op : Begin(t, fd, op)) /\ offset' = offset /\ call' = call /\ bytes' = bytes
    BY <1>7 DEF StoreFails, SeekInvalid
  <2>3. PositionOf(fd)' = position[fd] /\ AnswerOf(fd)' = rc
    BY <1>1, <2>1, <2>2, Returned
  <2>4. position' = [position EXCEPT ![fd] = position[fd]] /\ answers' = [answers EXCEPT ![fd] = rc]
    BY <1>3, <2>3
  <2>5. position' = position /\ Visible' = Visible
    BY <2>2, <2>4 DEF Visible
  <2> HIDE DEF position, answers
  <2>6. QED
    BY <2>1, <2>4, <2>5 DEF Promise!Fail, Visible, position, answers
<1>8. ASSUME NEW d \in Seeks, NEW from \in {0, position[fd]},
             PositionOf(fd)' = from + d, AnswerOf(fd)' = from + d, bytes' = bytes
      PROVE  Promise!Seek(fd)
  <2>1. /\ position' = [position EXCEPT ![fd] = from + d]
        /\ answers' = [answers EXCEPT ![fd] = from + d]
    BY <1>3, <1>8
  <2>2. Visible' = Visible
    BY <1>8 DEF Visible
  <2> HIDE DEF position, answers
  <2>3. QED
    BY <2>1, <2>2 DEF Promise!Seek, Visible, position, answers
<1>9. ASSUME NEW d \in Seeks, SeekSet(t, fd, d)
      PROVE  Promise!Seek(fd)
  <2>1. /\ offset'[fd] = Uint64(d) /\ bytes' = bytes
        /\ pc'[t] = "tell" /\ call'[t].fd = fd /\ call'[t].op = "lseek"
    BY <1>0, <1>9 DEF SeekSet, TypeOK
  <2>2. PositionOf(fd)' = Signed(Uint64(d)) /\ AnswerOf(fd)' = PositionOf(fd)'
    BY <2>1 DEF Mapped, Under, HasMoved
  <2>3. Signed(Uint64(d)) = d
    BY <1>0, SignedOfUint64
  <2>4. d = 0 + d
    BY <1>0
  <2>5. PositionOf(fd)' = 0 + d /\ AnswerOf(fd)' = 0 + d
    BY <2>2, <2>3, <2>4
  <2>6. QED
    BY <1>8, <2>1, <2>5
<1>10. ASSUME NEW d \in Seeks, SeekCur(t, fd, d)
       PROVE  Promise!Seek(fd)
  <2>1. /\ offset' = offset /\ bytes' = bytes /\ Begin(t, fd, "lseek")
        /\ pc'[t] = "load" /\ call'[t] = [fd |-> fd, op |-> "lseek", rc |-> d]
    BY <1>0, <1>10 DEF SeekCur, TypeOK
  <2>2. PositionOf(fd)' = Signed(Uint64(offset[fd] + d)) /\ AnswerOf(fd)' = PositionOf(fd)'
    BY <2>1 DEF Mapped, Under, HasMoved
  <2>3. -NbOffset <= 2 * (Signed(offset[fd]) + d) /\ 2 * (Signed(offset[fd]) + d) < NbOffset
    BY <1>10 DEF SeeksInRange
  <2>4. Signed(Uint64(offset[fd] + d)) = Signed(offset[fd]) + d
    BY <1>0, <2>3, SignedMoves
  <2>5. position[fd] = Signed(offset[fd])
    BY <1>1, <2>1
  <2>6. PositionOf(fd)' = position[fd] + d /\ AnswerOf(fd)' = position[fd] + d
    BY <2>2, <2>4, <2>5
  <2> HIDE DEF position
  <2>7. QED
    BY <1>8, <2>1, <2>6
<1>11. QED
  BY <1>4, <1>5, <1>6, <1>7, <1>9, <1>10 DEF Request, Promise!Next

\* Every step of the calls is a step of PosixStream or changes nothing that it sees.
LEMMA RefinesStep ==
  ASSUME SharedElsewhere, IInv, Mapped, Mapped', [SeeksInRange]_vars, [Next]_vars
  PROVE  [Promise!Next]_(Promise!vars)
<1>1. CASE UNCHANGED vars
  <2>1. UNCHANGED Promise!vars
    BY <1>1 DEF vars, Promise!vars, PositionOf, AnswerOf, Under, Ahead
  <2>2. QED
    BY <2>1
<1>2. ASSUME SeeksInRange, NEW t \in Threads, NEW fd \in Fds, Request(t, fd)
      PROVE  [Promise!Next]_(Promise!vars)
  <2>1. CASE fd \in Private
    BY <1>2, <2>1, PrivateRequestMaps
  <2>2. CASE fd \notin Private
    BY <1>2, <2>2, SharedRequestMaps
  <2>3. QED
    BY <2>1, <2>2
<1>3. ASSUME NEW t \in Threads, Proceed(t)
      PROVE  [Promise!Next]_(Promise!vars)
  BY <1>3, RestMaps
<1>4. QED
  BY <1>1, <1>2, <1>3 DEF Next, Proceed

\* No private descriptor has been used.
LEMMA RefinesInit == Init => Promise!Init
<1> SUFFICES ASSUME Init PROVE Promise!Init
  OBVIOUS
<1>1. \A fd \in Private : fd \in Fds /\ ObjectOf[fd] \in Objects
  BY StreamAssumption DEF Private
<1>2. \A fd \in Private : Under(fd) = {} /\ Ahead(fd) = {}
  BY DEF Init, Under, Ahead
<1>3. \A fd \in Private : PositionOf(fd) = 0 /\ AnswerOf(fd) = 0
  BY <1>1, <1>2, StreamAssumption DEF Init, PositionOf, AnswerOf, Signed
<1>4. QED
  BY <1>1, <1>3 DEF Init, Promise!Init

\* Transfers, seeks and truncations on a descriptor of one thread are single
\* steps on a position, for any number of threads and descriptors: as long as
\* no shared descriptor writes to the objects of private ones, and no seek
\* from the current position leaves the range of an off64_t.
THEOREM StreamRefinement ==
  ASSUME SharedElsewhere
  PROVE  Spec /\ [][SeeksInRange]_vars => ImplementsPosixStream
<1>1. Init => Promise!Init
  BY RefinesInit
<1>2. IInv /\ Mapped /\ Mapped' /\ [SeeksInRange]_vars /\ [Next]_vars =>
        [Promise!Next]_(Promise!vars)
  BY RefinesStep
<1>3. IInv => Mapped
  BY MappedHolds
<1>4. QED
  BY Invariance, <1>1, <1>2, <1>3, PTL DEF Spec, ImplementsPosixStream, Promise!Spec
-----------------------------------------------------------------------------
(* Readers that share a descriptor, and the counters                       *)

\* The bytes that the store has given or taken in the calls that are half way.
RcOf == [t \in Threads |-> IF call[t].op = "lseek" THEN 0 ELSE call[t].rc]
Pending(S) == SumFunctionOnSet(RcOf, S)

\* A counter that equals another once m is added to it.
Lags(a, m, b) == Uint64(a + m) = Uint64(b)

Writing(fd) == {t \in Under(fd) : call[t].op = "write"}

\* The writes that are not in the counter yet.
Uncounted(fd) == {t \in Writing(fd) : pc[t] # "reach"}

\* What a transfer is still to add to the offset.
ToMove(t) == IF pc[t] \in {"count", "reach"} THEN 0 ELSE call[t].rc

\* The sections of several steps under statsMutex: a read from the lock to the
\* end of the call, a write once it is counted.
InSection(t) ==
  \/ pc[t] \in {"load", "store", "count"} /\ call[t].op = "read"
  \/ pc[t] = "reach"

\* Descriptors that are only read from.
ReadOnly == {fd \in Fds : OpsOn(fd) \subseteq {"read"}}

\* There may be any number of threads, but they begin their calls one by one.
FewCalls == IsFiniteSet({t \in Threads : pc[t] # "idle"})

\* In these statsMutex belongs to the thread.
MutexHeld == \A t \in Threads : InSection(t) => mutex[call[t].fd] = t

\* What a read has loaded is the offset there is.
ReadersSee ==
  \A t \in Threads :
    pc[t] = "store" /\ call[t].fd \in ReadOnly => seen[t] = offset[call[t].fd]

\* The offset lags behind the bytes delivered by those of the reads half way.
ReadsAddUp ==
  \A fd \in ReadOnly : Lags(offset[fd], Pending(Ahead(fd)), moved[fd].read)

\* The counter lags behind the bytes taken by those of the writes half way.
WritesAddUp ==
  \A fd \in Fds :
    Lags(stats[fd].bytesWritten, Pending(Uncounted(fd)), moved[fd].written)

\* When the highest offset of a private descriptor does not cover its writes,
\* the write that will make it so is half way: the offset it leaves covers them.
WritesReach ==
  \A fd \in Private :
    moved[fd].end > stats[fd].maxOffsetWritten + 1 =>
      \E t \in Writing(fd) :
        moved[fd].end <= offset[fd] + ToMove(t)

SInv ==
  /\ FewCalls
  /\ MutexHeld
  /\ ReadersSee
  /\ ReadsAddUp
  /\ WritesAddUp
  /\ WritesReach

\* What the store has given or taken is a number, and few calls have it.
LEMMA PendingType ==
  ASSUME CallsAsBegun, FewCalls, NEW fd \in Fds
  PROVE  /\ RcOf \in [Threads -> Nat]
         /\ Ahead(fd) \in SUBSET Threads /\ IsFiniteSet(Ahead(fd)) /\ Pending(Ahead(fd)) \in Nat
         /\ Uncounted(fd) \in SUBSET Threads /\ IsFiniteSet(Uncounted(fd))
         /\ Pending(Uncounted(fd)) \in Nat
<1>1. RcOf \in [Threads -> Nat]
  BY DEF CallsAsBegun, RcOf
<1>2. /\ Ahead(fd) \in SUBSET {t \in Threads : pc[t] # "idle"}
      /\ Uncounted(fd) \in SUBSET {t \in Threads : pc[t] # "idle"}
  BY DEF Ahead, Uncounted, Writing, Under
<1>3. IsFiniteSet(Ahead(fd)) /\ IsFiniteSet(Uncounted(fd))
  BY <1>2, FS_Subset DEF FewCalls
<1>4. QED
  BY <1>1, <1>2, <1>3, SumType DEF Pending

\* Calls of other threads carry what they carried.
LEMMA PendingSame ==
  ASSUME NEW S \in SUBSET Threads, IsFiniteSet(S), \A w \in S : call'[w] = call[w]
  PROVE  SumFunctionOnSet(RcOf', S) = SumFunctionOnSet(RcOf, S)
<1>1. \A w \in S : RcOf'[w] = RcOf[w]
  BY DEF RcOf
<1>2. QED
  BY <1>1, SumSame

\* What a counter has reached may be reduced before the rest is added.
LEMMA AddUint64 ==
  ASSUME NEW a \in Int, NEW b \in Int
  PROVE  Uint64(Uint64(a) + b) = Uint64(a + b)
BY WrappedSum, StreamAssumption DEF Uint64

\* As much may be added to what is to come and to the other counter.
LEMMA LagsMore ==
  ASSUME NEW a \in Int, NEW m \in Int, NEW b \in Int, NEW c \in Int, Lags(a, m, b)
  PROVE  Lags(a, c + m, b + c)
<1>1. PICK n \in Int : n = a + m
  OBVIOUS
<1>2. Uint64(n) = Uint64(b)
  BY <1>1 DEF Lags
<1>3. Uint64(n + c) = Uint64(Uint64(n) + c) /\ Uint64(b + c) = Uint64(Uint64(b) + c)
  BY AddUint64
<1>4. a + (c + m) = n + c
  BY <1>1
<1>5. QED
  BY <1>2, <1>3, <1>4 DEF Lags

\* What has been added to the counter is no longer among what is to be added.
LEMMA LagsLess ==
  ASSUME NEW a \in Int, NEW m \in Int, NEW b \in Int, NEW c \in Int, Lags(a, c + m, b)
  PROVE  Lags(Uint64(a + c), m, b)
<1>1. PICK n \in Int : n = a + c
  OBVIOUS
<1>2. Uint64(Uint64(n) + m) = Uint64(n + m)
  BY AddUint64
<1>3. n + m = a + (c + m)
  BY <1>1
<1>4. QED
  BY <1>1, <1>2, <1>3 DEF Lags

\* A counter is its own remainder.
LEMMA CounterOf ==
  ASSUME NEW n \in 0 .. NbOffset - 1
  PROVE  Uint64(n) = n
BY StreamAssumption DEF Uint64

\* Whose operation is on a descriptor.
LEMMA OpOn ==
  ASSUME NEW t, NEW fd, NEW op, <<t, fd, op>> \in MayCall
  PROVE  op \in OpsOn(fd)
<1>1. <<t, fd, op>> \in {m \in MayCall : m[2] = fd}
  OBVIOUS
<1>2. \A m \in {n \in MayCall : n[2] = fd} : m[3] \in OpsOn(fd)
  BY DEF OpsOn
<1>3. QED
  BY <1>1, <1>2

\* All the calls on a descriptor that is only read from are reads.
LEMMA OnlyReads ==
  ASSUME IInv, NEW t \in Threads, pc[t] # "idle", call[t].fd \in ReadOnly
  PROVE  call[t].op = "read"
BY OpOn DEF IInv, CallsAllowed, ReadOnly

\* No call has been made.
LEMMA InitSInv == Init => SInv
<1> SUFFICES ASSUME Init PROVE SInv
  OBVIOUS
<1>1. {t \in Threads : pc[t] # "idle"} = {}
  BY DEF Init
<1>2. FewCalls
  BY <1>1, FS_EmptySet DEF FewCalls
<1>3. MutexHeld /\ ReadersSee
  BY DEF Init, MutexHeld, InSection, ReadersSee
<1>4. \A fd \in Fds : Ahead(fd) = {} /\ Uncounted(fd) = {}
  BY DEF Init, Ahead, Uncounted, Writing, Under
<1>5. Pending({}) = 0
  BY SumEmpty DEF Pending
<1>6. ASSUME NEW fd \in Fds
      PROVE  /\ Lags(offset[fd], Pending(Ahead(fd)), moved[fd].read)
             /\ Lags(stats[fd].bytesWritten, Pending(Uncounted(fd)), moved[fd].written)
  <2>1. /\ offset[fd] = 0 /\ moved[fd].read = 0
        /\ stats[fd].bytesWritten = 0 /\ moved[fd].written = 0
    BY DEF Init
  <2>2. Pending(Ahead(fd)) = 0 /\ Pending(Uncounted(fd)) = 0
    BY <1>4, <1>5
  <2>3. QED
    BY <2>1, <2>2 DEF Lags
<1>7. ReadsAddUp /\ WritesAddUp
  BY <1>6 DEF ReadsAddUp, WritesAddUp, ReadOnly
<1>8. WritesReach
  BY DEF Init, WritesReach, Private
<1>9. QED
  BY <1>2, <1>3, <1>7, <1>8 DEF SInv

\* A call that is over at once and leaves the offset alone changes nothing here.
LEMMA QuietStep ==
  ASSUME SInv, UNCHANGED <<offset, stats, mutex, pc, call, seen, moved>>
  PROVE  SInv'
BY DEF SInv, FewCalls, MutexHeld, InSection, ReadersSee, ReadsAddUp, WritesAddUp, WritesReach,
       Ahead, Uncounted, Writing, Under, Pending, RcOf, ToMove

\* A step of one thread leaves the calls of the others half way where they
\* are, and the reads and writes of those on the descriptors it is not for.
LEMMA OthersHalfway ==
  ASSUME NEW t \in Threads, NEW fd \in Fds, NEW g \in Fds, g # fd,
         \A w \in Threads : w # t => pc'[w] = pc[w] /\ call'[w] = call[w],
         t \notin Under(g), t \notin Under(g)'
  PROVE  /\ Ahead(g)' = Ahead(g) /\ Writing(g)' = Writing(g) /\ Uncounted(g)' = Uncounted(g)
         /\ \A w \in Under(g) : w # t /\ w \in Threads /\ pc'[w] = pc[w] /\ call'[w] = call[w]
BY DEF Ahead, Uncounted, Writing, Under

\* The sums and the reach of the descriptors that a step is not for.
LEMMA OthersAddUp ==
  ASSUME IInv, SInv, NEW t \in Threads, NEW fd \in Fds,
         \A w \in Threads : w # t => pc'[w] = pc[w] /\ call'[w] = call[w],
         NEW g \in Fds, g # fd, t \notin Under(g), t \notin Under(g)',
         offset'[g] = offset[g], stats'[g] = stats[g], moved'[g] = moved[g]
  PROVE  /\ g \in ReadOnly => Lags(offset'[g], Pending(Ahead(g))', moved'[g].read)
         /\ Lags(stats'[g].bytesWritten, Pending(Uncounted(g))', moved'[g].written)
         /\ g \in Private /\ moved'[g].end > stats'[g].maxOffsetWritten + 1 =>
              \E w \in Writing(g)' :
                moved'[g].end <= offset'[g] + ToMove(w)'
<1>1. /\ Ahead(g)' = Ahead(g) /\ Writing(g)' = Writing(g) /\ Uncounted(g)' = Uncounted(g)
      /\ \A w \in Under(g) : w # t /\ w \in Threads /\ pc'[w] = pc[w] /\ call'[w] = call[w]
  BY OthersHalfway
<1>2. /\ SumFunctionOnSet(RcOf', Ahead(g)) = SumFunctionOnSet(RcOf, Ahead(g))
      /\ SumFunctionOnSet(RcOf', Uncounted(g)) = SumFunctionOnSet(RcOf, Uncounted(g))
  <2>1. CallsAsBegun /\ FewCalls
    BY DEF IInv, SInv
  <2>2. /\ Ahead(g) \in SUBSET Threads /\ IsFiniteSet(Ahead(g))
        /\ Uncounted(g) \in SUBSET Threads /\ IsFiniteSet(Uncounted(g))
    BY <2>1, PendingType
  <2>3. \A w \in Ahead(g) \cup Uncounted(g) : call'[w] = call[w]
    BY <1>1 DEF Ahead, Uncounted, Writing
  <2>4. QED
    BY <2>2, <2>3, PendingSame
<1>3. Pending(Ahead(g))' = Pending(Ahead(g)) /\ Pending(Uncounted(g))' = Pending(Uncounted(g))
  BY <1>1, <1>2 DEF Pending
<1>4. g \in ReadOnly => Lags(offset'[g], Pending(Ahead(g))', moved'[g].read)
  BY <1>3 DEF SInv, ReadsAddUp
<1>5. Lags(stats'[g].bytesWritten, Pending(Uncounted(g))', moved'[g].written)
  BY <1>3 DEF SInv, WritesAddUp
<1>6. ASSUME g \in Private, moved'[g].end > stats'[g].maxOffsetWritten + 1
      PROVE  \E w \in Writing(g)' :
               moved'[g].end <= offset'[g] + ToMove(w)'
  <2>1. PICK w \in Writing(g) :
          moved[g].end <= offset[g] + ToMove(w)
    BY <1>6 DEF SInv, WritesReach
  <2>2. w \in Under(g)
    BY DEF Writing
  <2>3. QED
    BY <1>1, <2>1, <2>2 DEF ToMove
<1>7. QED
  BY <1>4, <1>5, <1>6

\* It is enough to look at the descriptor a step is for.
LEMMA OneAddsUp ==
  ASSUME IInv, SInv, NEW t \in Threads, NEW fd \in Fds,
         \A w \in Threads : w # t => pc'[w] = pc[w] /\ call'[w] = call[w],
         \A g \in Fds : g # fd =>
           /\ t \notin Under(g) /\ t \notin Under(g)'
           /\ offset'[g] = offset[g] /\ stats'[g] = stats[g] /\ moved'[g] = moved[g],
         fd \in ReadOnly => Lags(offset'[fd], Pending(Ahead(fd))', moved'[fd].read),
         Lags(stats'[fd].bytesWritten, Pending(Uncounted(fd))', moved'[fd].written),
         fd \in Private /\ moved'[fd].end > stats'[fd].maxOffsetWritten + 1 =>
           \E w \in Writing(fd)' :
             moved'[fd].end <= offset'[fd] + ToMove(w)'
  PROVE  ReadsAddUp' /\ WritesAddUp' /\ WritesReach'
<1>1. \A g \in Fds : g # fd =>
         /\ g \in ReadOnly => Lags(offset'[g], Pending(Ahead(g))', moved'[g].read)
         /\ Lags(stats'[g].bytesWritten, Pending(Uncounted(g))', moved'[g].written)
         /\ g \in Private /\ moved'[g].end > stats'[g].maxOffsetWritten + 1 =>
              \E w \in Writing(g)' :
                moved'[g].end <= offset'[g] + ToMove(w)'
  BY OthersAddUp
<1>2. ReadsAddUp'
  BY <1>1 DEF ReadsAddUp, ReadOnly
<1>3. WritesAddUp'
  BY <1>1 DEF WritesAddUp
<1>4. WritesReach'
  BY <1>1 DEF WritesReach, Private
<1>5. QED
  BY <1>2, <1>3, <1>4

\* One more call may be half way.
LEMMA FewCallsStep ==
  ASSUME FewCalls, NEW t \in Threads, \A w \in Threads : w # t => pc'[w] = pc[w]
  PROVE  FewCalls'
<1>1. {w \in Threads : pc'[w] # "idle"} \subseteq {w \in Threads : pc[w] # "idle"} \cup {t}
  OBVIOUS
<1>2. IsFiniteSet({w \in Threads : pc[w] # "idle"} \cup {t})
  BY FS_AddElement DEF FewCalls
<1>3. QED
  BY <1>1, <1>2, FS_Subset DEF FewCalls

\* A call that begins adds what the store has given or taken.
LEMMA PendingAdds ==
  ASSUME CallsAsBegun', NEW t \in Threads, NEW S \in SUBSET Threads, IsFiniteSet(S),
         t \notin S, call'[t].op # "lseek", \A w \in S : call'[w] = call[w]
  PROVE  SumFunctionOnSet(RcOf', S \cup {t}) = call'[t].rc + SumFunctionOnSet(RcOf, S)
<1>1. RcOf' \in [Threads -> Nat] /\ RcOf'[t] = call'[t].rc
  BY DEF CallsAsBegun, RcOf
<1>2. SumFunctionOnSet(RcOf', S \cup {t}) = RcOf'[t] + SumFunctionOnSet(RcOf', S)
  BY <1>1, SumAdd
<1>3. SumFunctionOnSet(RcOf', S) = SumFunctionOnSet(RcOf, S)
  BY PendingSame
<1>4. QED
  BY <1>1, <1>2, <1>3

\* The store has taken the bytes of a write.
LEMMA WriteStoreSums ==
  ASSUME IInv, IInv', SInv, NEW t \in Threads, NEW fd \in Fds, NEW count \in Counts,
         WriteStore(t, fd, count)
  PROVE  SInv'
<1>0. /\ TypeOK /\ TypeOK' /\ CallsAsBegun /\ CallsAsBegun' /\ FewCalls /\ count \in Nat /\ pc[t] = "idle"
      /\ <<t, fd, "write">> \in MayCall
  BY StreamAssumption DEF IInv, SInv, WriteStore, Begin
<1>1. /\ \A w \in Threads : w # t => pc'[w] = pc[w] /\ call'[w] = call[w]
      /\ pc'[t] = "load" /\ call'[t] = [fd |-> fd, op |-> "write", rc |-> count]
      /\ UNCHANGED <<offset, stats, mutex, seen>>
  BY <1>0 DEF WriteStore, TypeOK
<1>2. /\ \A g \in Fds : g # fd => moved'[g] = moved[g]
      /\ moved'[fd].written = moved[fd].written + count
      /\ moved'[fd].end = IF count = 0 THEN moved[fd].end
                          ELSE Larger(moved[fd].end, offset[fd] + count)
  BY <1>0 DEF WriteStore, TypeOK
<1>3. \A g \in Fds : g # fd => t \notin Under(g) /\ t \notin Under(g)'
  BY <1>0, <1>1 DEF Under
<1>4. fd \notin ReadOnly
  BY <1>0, OpOn DEF ReadOnly
<1>5. FewCalls'
  BY <1>0, <1>1, FewCallsStep
<1>6. MutexHeld'
  BY <1>0, <1>1 DEF SInv, MutexHeld, InSection
<1>7. ReadersSee'
  BY <1>1 DEF SInv, ReadersSee
<1>8. Lags(stats'[fd].bytesWritten, Pending(Uncounted(fd))', moved'[fd].written)
  <2>1. Uncounted(fd)' = Uncounted(fd) \cup {t} /\ t \notin Uncounted(fd)
    BY <1>0, <1>1 DEF Uncounted, Writing, Under
  <2>2. \A w \in Uncounted(fd) : call'[w] = call[w]
    BY <1>1, <2>1 DEF Uncounted, Writing, Under
  <2>3. SumFunctionOnSet(RcOf', Uncounted(fd) \cup {t}) = count + Pending(Uncounted(fd))
    <3>1. Uncounted(fd) \in SUBSET Threads /\ IsFiniteSet(Uncounted(fd))
      BY <1>0, PendingType
    <3>2. call'[t].rc = count
      BY <1>1
    <3> DEFINE S == Uncounted(fd)
    <3>3. S \in SUBSET Threads /\ IsFiniteSet(S) /\ t \notin S /\ \A w \in S : call'[w] = call[w]
      BY <2>1, <2>2, <3>1
    <3> HIDE DEF S
    <3>4. SumFunctionOnSet(RcOf', S \cup {t}) = call'[t].rc + SumFunctionOnSet(RcOf, S)
      BY <1>0, <1>1, <3>3, PendingAdds
    <3>5. QED
      BY <3>2, <3>4 DEF Pending, S
  <2>4. Pending(Uncounted(fd))' = count + Pending(Uncounted(fd))
    BY <2>1, <2>3 DEF Pending
  <2>5. PICK p \in Nat : p = Pending(Uncounted(fd))
    BY <1>0, PendingType
  <2>6. PICK b \in Nat : b = stats[fd].bytesWritten
    BY <1>0, StreamAssumption DEF TypeOK
  <2>7. PICK m \in Nat : m = moved[fd].written
    BY <1>0 DEF TypeOK
  <2>8. Lags(b, p, m)
    BY <2>5, <2>6, <2>7 DEF SInv, WritesAddUp
  <2>9. Lags(b, count + p, m + count)
    BY <1>0, <2>8, LagsMore
  <2>10. QED
    BY <1>1, <1>2, <2>4, <2>5, <2>6, <2>7, <2>9
<1>9. ASSUME fd \in Private, moved'[fd].end > stats'[fd].maxOffsetWritten + 1
      PROVE  \E w \in Writing(fd)' :
               moved'[fd].end <= offset'[fd] + ToMove(w)'
  <2>1. t \in Writing(fd)' /\ ToMove(t)' = count
    BY <1>1 DEF Writing, Under, ToMove
  <2>2. \A w \in Under(fd) : w = t
    BY <1>0, <1>9, OneUnder
  <2>3. Writing(fd) = {}
    BY <1>0, <2>2 DEF Writing, Under
  <2>4. ~ (moved[fd].end > stats[fd].maxOffsetWritten + 1)
    BY <1>9, <2>3 DEF SInv, WritesReach
  <2>5. moved'[fd].end = offset[fd] + count
    BY <1>1, <1>2, <1>9, <2>4 DEF Larger
  <2>6. moved'[fd].end <= offset'[fd] + count
    <3>1. moved'[fd].end \in Nat
      BY <1>0 DEF TypeOK
    <3>2. QED
      BY <1>1, <2>5, <3>1
  <2>7. QED
    BY <2>1, <2>6
<1>10. ReadsAddUp' /\ WritesAddUp' /\ WritesReach'
  BY <1>1, <1>2, <1>3, <1>4, <1>8, <1>9, OneAddsUp
<1>11. QED
  BY <1>5, <1>6, <1>7, <1>10 DEF SInv

\* The store has delivered the bytes of a read.
LEMMA ReadStoreSums ==
  ASSUME IInv, IInv', SInv, NEW t \in Threads, NEW fd \in Fds, NEW count \in Counts,
         ReadStore(t, fd, count)
  PROVE  SInv'
<1> DEFINE got == Available(bytes[ObjectOf[fd]], offset[fd], count)
<1>0. /\ TypeOK /\ TypeOK' /\ CallsAsBegun /\ CallsAsBegun' /\ FewCalls /\ pc[t] = "idle"
      /\ <<t, fd, "read">> \in MayCall
  BY DEF IInv, SInv, ReadStore, Begin
<1>1. /\ moved' = [moved EXCEPT ![fd].read = @ + got]
      /\ call' = [call EXCEPT ![t] = [fd |-> fd, op |-> "read", rc |-> got]]
      /\ pc' = [pc EXCEPT ![t] = "lock"]
      /\ UNCHANGED <<offset, stats, mutex, seen>>
  BY DEF ReadStore
<1> HIDE DEF got
<1>2. /\ \A w \in Threads : w # t => pc'[w] = pc[w] /\ call'[w] = call[w]
      /\ pc'[t] = "lock" /\ call'[t].fd = fd /\ call'[t].op = "read" /\ call'[t].rc = got
      /\ \A g \in Fds : g # fd => moved'[g] = moved[g]
      /\ moved'[fd].read = moved[fd].read + got
      /\ moved'[fd].written = moved[fd].written /\ moved'[fd].end = moved[fd].end
  BY <1>0, <1>1 DEF TypeOK
<1>3. got \in Nat
  BY <1>0, <1>2 DEF CallsAsBegun
<1>4. \A g \in Fds : g # fd => t \notin Under(g) /\ t \notin Under(g)'
  BY <1>0, <1>2 DEF Under
<1>5. FewCalls'
  BY <1>0, <1>2, FewCallsStep
<1>6. MutexHeld'
  BY <1>0, <1>1, <1>2 DEF SInv, MutexHeld, InSection
<1>7. ReadersSee'
  BY <1>1, <1>2 DEF SInv, ReadersSee
<1>8. Uncounted(fd)' = Uncounted(fd)
  <2>1. \A w \in Threads : w \in Uncounted(fd)' <=> w \in Uncounted(fd)
    BY <1>0, <1>2 DEF Uncounted, Writing, Under
  <2>2. QED
    BY <2>1 DEF Uncounted, Writing, Under
<1>9. Pending(Uncounted(fd))' = Pending(Uncounted(fd))
  <2>1. \A w \in Uncounted(fd) : call'[w] = call[w]
    BY <1>0, <1>2 DEF Uncounted, Writing, Under
  <2>2. QED
    BY <1>0, <1>8, <2>1, PendingType, PendingSame DEF Pending
<1>10. Lags(stats'[fd].bytesWritten, Pending(Uncounted(fd))', moved'[fd].written)
  BY <1>1, <1>2, <1>9 DEF SInv, WritesAddUp
<1>11. ASSUME fd \in ReadOnly
       PROVE  Lags(offset'[fd], Pending(Ahead(fd))', moved'[fd].read)
  <2>1. Ahead(fd)' = Ahead(fd) \cup {t} /\ t \notin Ahead(fd)
    BY <1>0, <1>2 DEF Ahead, Under
  <2>2. \A w \in Ahead(fd) : call'[w] = call[w]
    BY <1>2, <2>1 DEF Ahead, Under
  <2>3. SumFunctionOnSet(RcOf', Ahead(fd) \cup {t}) = got + Pending(Ahead(fd))
    <3> DEFINE S == Ahead(fd)
    <3>1. S \in SUBSET Threads /\ IsFiniteSet(S) /\ t \notin S /\ \A w \in S : call'[w] = call[w]
      BY <1>0, <2>1, <2>2, PendingType
    <3> HIDE DEF S
    <3>2. SumFunctionOnSet(RcOf', S \cup {t}) = call'[t].rc + SumFunctionOnSet(RcOf, S)
      BY <1>0, <1>2, <3>1, PendingAdds
    <3>3. QED
      BY <1>2, <3>2 DEF Pending, S
  <2>4. Pending(Ahead(fd))' = got + Pending(Ahead(fd))
    BY <2>1, <2>3 DEF Pending
  <2>5. PICK p \in Nat : p = Pending(Ahead(fd))
    BY <1>0, PendingType
  <2>6. PICK b \in Nat : b = offset[fd]
    BY <1>0, StreamAssumption DEF TypeOK
  <2>7. PICK m \in Nat : m = moved[fd].read
    BY <1>0 DEF TypeOK
  <2>8. Lags(b, p, m)
    BY <1>11, <2>5, <2>6, <2>7 DEF SInv, ReadsAddUp
  <2>9. Lags(b, got + p, m + got)
    BY <1>3, <2>8, LagsMore
  <2>10. QED
    BY <1>1, <1>2, <2>4, <2>5, <2>6, <2>7, <2>9
<1>12. ASSUME fd \in Private, moved'[fd].end > stats'[fd].maxOffsetWritten + 1
       PROVE  \E w \in Writing(fd)' :
                moved'[fd].end <= offset'[fd] + ToMove(w)'
  <2>1. \A w \in Under(fd) : w = t
    BY <1>0, <1>12, OneUnder
  <2>2. Writing(fd) = {}
    BY <1>0, <2>1 DEF Writing, Under
  <2>3. QED
    BY <1>1, <1>2, <1>12, <2>2 DEF SInv, WritesReach
<1>13. ReadsAddUp' /\ WritesAddUp' /\ WritesReach'
  BY <1>1, <1>2, <1>4, <1>10, <1>11, <1>12, OneAddsUp
<1>14. QED
  BY <1>5, <1>6, <1>7, <1>13 DEF SInv

\* The beginning of a seek and its end leave the reads and writes half way
\* alone, and a seek is on no descriptor that is only read from.
LEMMA SeekSums ==
  ASSUME IInv, IInv', SInv, NEW t \in Threads, NEW fd \in Fds,
         <<t, fd, "lseek">> \in MayCall,
         pc[t] = "idle" \/ (pc[t] = "tell" /\ call[t].fd = fd /\ call[t].op = "lseek"),
         pc'[t] = "idle" \/ (pc'[t] \in {"load", "tell"} /\ call'[t].fd = fd /\ call'[t].op = "lseek"),
         \A w \in Threads : w # t => pc'[w] = pc[w] /\ call'[w] = call[w] /\ seen'[w] = seen[w],
         \A g \in Fds : g # fd => offset'[g] = offset[g],
         UNCHANGED <<stats, mutex, moved>>
  PROVE  SInv'
<1>0. CallsAsBegun /\ FewCalls /\ fd \notin ReadOnly
  BY OpOn DEF IInv, SInv, ReadOnly
<1>1. FewCalls'
  BY <1>0, FewCallsStep
<1>2. MutexHeld'
  BY DEF SInv, MutexHeld, InSection
<1>3. ReadersSee'
  <2> SUFFICES ASSUME NEW w \in Threads, pc'[w] = "store", call'[w].fd \in ReadOnly
               PROVE  seen'[w] = offset'[call'[w].fd]
    BY DEF ReadersSee
  <2>1. w # t /\ call[w].fd # fd /\ call[w].fd \in Fds
    BY <1>0 DEF ReadOnly
  <2>2. QED
    BY <2>1 DEF SInv, ReadersSee
<1>4. \A g \in Fds : g # fd => t \notin Under(g) /\ t \notin Under(g)'
  BY DEF Under
<1>5. Uncounted(fd)' = Uncounted(fd) /\ \A w \in Uncounted(fd) : call'[w] = call[w]
  <2>1. \A w \in Threads : w \in Uncounted(fd)' <=> w \in Uncounted(fd)
    BY DEF Uncounted, Writing, Under
  <2>2. \A w \in Uncounted(fd) : w # t
    BY DEF Uncounted, Writing, Under
  <2>3. QED
    BY <2>1, <2>2 DEF Uncounted, Writing, Under
<1>6. Pending(Uncounted(fd))' = Pending(Uncounted(fd))
  BY <1>0, <1>5, PendingType, PendingSame DEF Pending
<1>7. Lags(stats'[fd].bytesWritten, Pending(Uncounted(fd))', moved'[fd].written)
  BY <1>6 DEF SInv, WritesAddUp
<1>8. ASSUME fd \in Private, moved'[fd].end > stats'[fd].maxOffsetWritten + 1
      PROVE  \E w \in Writing(fd)' : moved'[fd].end <= offset'[fd] + ToMove(w)'
  <2>1. \A w \in Under(fd) : w = t
    BY <1>8, OneUnder
  <2>2. Writing(fd) = {}
    BY <2>1 DEF Writing, Under
  <2>3. QED
    BY <1>8, <2>2 DEF SInv, WritesReach
<1>9. ReadsAddUp' /\ WritesAddUp' /\ WritesReach'
  BY <1>0, <1>4, <1>7, <1>8, OneAddsUp
<1>10. QED
  BY <1>1, <1>2, <1>3, <1>9 DEF SInv

\* A call is begun, and answered by the store, or is over at once.
LEMMA RequestSums ==
  ASSUME IInv, IInv', SInv, NEW t \in Threads, NEW fd \in Fds, Request(t, fd)
  PROVE  SInv'
<1>0. TypeOK
  BY DEF IInv
<1>1. ASSUME NEW op, NEW rc, Begin(t, fd, op), Return(t, fd, rc),
             UNCHANGED <<offset, stats, mutex, call, seen, moved>>
      PROVE  SInv'
  <2>1. pc' = pc
    BY <1>0, <1>1 DEF Begin, Return, TypeOK
  <2>2. QED
    BY <1>1, <2>1, QuietStep
<1>2. CASE \E count \in Counts : WriteStore(t, fd, count) \/ ReadStore(t, fd, count)
  BY <1>2, WriteStoreSums, ReadStoreSums
<1>3. CASE \E size \in Counts : Truncate(t, fd, size)
  BY <1>1, <1>3 DEF Truncate
<1>4. CASE StoreFails(t, fd) \/ SeekInvalid(t, fd)
  BY <1>1, <1>4 DEF StoreFails, SeekInvalid
<1>5. CASE \E d \in Seeks : SeekSet(t, fd, d) \/ SeekCur(t, fd, d)
  <2>1. /\ pc[t] = "idle" /\ pc'[t] \in {"load", "tell"} /\ <<t, fd, "lseek">> \in MayCall
        /\ call'[t].fd = fd /\ call'[t].op = "lseek"
        /\ \A w \in Threads : w # t => pc'[w] = pc[w] /\ call'[w] = call[w]
        /\ \A g \in Fds : g # fd => offset'[g] = offset[g]
        /\ UNCHANGED <<stats, mutex, seen, moved>>
    <3>1. CASE \E d \in Seeks : SeekSet(t, fd, d)
      BY <1>0, <3>1 DEF SeekSet, Begin, TypeOK
    <3>2. CASE \E d \in Seeks : SeekCur(t, fd, d)
      BY <1>0, <3>2 DEF SeekCur, Begin, TypeOK
    <3>3. QED
      BY <1>5, <3>1, <3>2
  <2>2. QED
    BY <2>1, SeekSums
<1>6. QED
  BY <1>2, <1>3, <1>4, <1>5 DEF Request

\* A step before the offset is moved: nothing has been added up yet.
LEMMA BeforeTheMove ==
  ASSUME IInv, IInv', SInv, NEW t \in Threads, Lock(t) \/ LoadOffset(t)
  PROVE  SInv'
<1>0. TypeOK /\ FewCalls /\ call[t].fd \in Fds
  BY DEF IInv, SInv, TypeOK
<1>1. /\ \A w \in Threads : w # t => pc'[w] = pc[w] /\ seen'[w] = seen[w]
      /\ pc[t] \in {"lock", "load"} /\ pc'[t] \in {"load", "store"}
      /\ pc'[t] = "store" => seen'[t] = offset[call[t].fd]
      /\ UNCHANGED <<offset, stats, call, moved>>
  BY <1>0 DEF Lock, LoadOffset, TypeOK
<1>2. FewCalls'
  BY <1>0, <1>1, FewCallsStep
<1>3. MutexHeld'
  <2>1. CASE Lock(t)
    <3> SUFFICES ASSUME NEW w \in Threads, InSection(w)'
                 PROVE  mutex'[call[w].fd] = w
      BY <1>1 DEF MutexHeld
    <3>1. /\ mutex[call[t].fd] = Nobody /\ mutex'[call[t].fd] = t
          /\ \A g \in Fds : g # call[t].fd => mutex'[g] = mutex[g]
      BY <1>0, <2>1 DEF Lock, TypeOK
    <3>2. CASE w # t
      <4>1. mutex[call[w].fd] = w
        BY <1>1, <3>2 DEF SInv, MutexHeld, InSection
      <4>2. call[w].fd # call[t].fd
        BY <3>1, <4>1, StreamAssumption
      <4>3. call[w].fd \in Fds
        BY <1>0 DEF TypeOK
      <4>4. QED
        BY <3>1, <4>1, <4>2, <4>3
    <3>3. QED
      BY <3>1, <3>2
  <2>2. CASE LoadOffset(t)
    <3>1. mutex' = mutex /\ call' = call /\ pc[t] = "load"
      BY <2>2 DEF LoadOffset
    <3>2. \A w \in Threads : InSection(w)' => InSection(w)
      BY <1>1, <3>1 DEF InSection
    <3>3. QED
      BY <3>1, <3>2 DEF SInv, MutexHeld
  <2>3. QED
    BY <2>1, <2>2
<1>4. ReadersSee'
  BY <1>1 DEF SInv, ReadersSee
<1>5. \A g \in Fds :
         Ahead(g)' = Ahead(g) /\ Writing(g)' = Writing(g) /\ Uncounted(g)' = Uncounted(g)
  <2>1. \A w \in Threads, g \in Fds :
           /\ w \in Ahead(g)' <=> w \in Ahead(g)
           /\ w \in Writing(g)' <=> w \in Writing(g)
           /\ w \in Uncounted(g)' <=> w \in Uncounted(g)
    BY <1>1 DEF Ahead, Uncounted, Writing, Under
  <2>2. QED
    BY <2>1 DEF Ahead, Uncounted, Writing, Under
<1>6. RcOf' = RcOf
  BY <1>1 DEF RcOf
<1>7. \A g \in Fds :
         Pending(Ahead(g))' = Pending(Ahead(g)) /\ Pending(Uncounted(g))' = Pending(Uncounted(g))
  BY <1>5, <1>6 DEF Pending
<1>8. ReadsAddUp' /\ WritesAddUp'
  BY <1>1, <1>7 DEF SInv, ReadsAddUp, WritesAddUp, ReadOnly
<1>9. WritesReach'
  <2>1. \A w \in Threads : ToMove(w)' = ToMove(w)
    BY <1>1 DEF ToMove
  <2>2. \A g \in Private : g \in Fds /\ \A w \in Writing(g) : w \in Threads
    BY DEF Private, Writing, Under
  <2>3. QED
    BY <1>1, <1>5, <2>1, <2>2 DEF SInv, WritesReach
<1>10. QED
  BY <1>2, <1>3, <1>4, <1>8, <1>9 DEF SInv

\* What a call has added itself is no longer to be added.
LEMMA PendingLoses ==
  ASSUME CallsAsBegun, NEW t \in Threads, NEW S \in SUBSET Threads, IsFiniteSet(S),
         t \in S, call[t].op # "lseek", \A w \in S \ {t} : call'[w] = call[w]
  PROVE  SumFunctionOnSet(RcOf, S) = call[t].rc + SumFunctionOnSet(RcOf', S \ {t})
<1>1. RcOf \in [Threads -> Nat] /\ RcOf[t] = call[t].rc
  BY DEF CallsAsBegun, RcOf
<1>2. SumFunctionOnSet(RcOf, S) = RcOf[t] + SumFunctionOnSet(RcOf, S \ {t})
  BY <1>1, SumRemove
<1>3. IsFiniteSet(S \ {t}) /\ S \ {t} \in SUBSET Threads
  BY FS_Subset
<1>4. SumFunctionOnSet(RcOf', S \ {t}) = SumFunctionOnSet(RcOf, S \ {t})
  BY <1>3, PendingSame
<1>5. QED
  BY <1>1, <1>2, <1>4

\* The offset is moved: by a read, under statsMutex, from where it is.
LEMMA StoreOffsetSums ==
  ASSUME IInv, IInv', SInv, NEW t \in Threads, StoreOffset(t)
  PROVE  SInv'
<1>0. PICK fd \in Fds : fd = call[t].fd
  BY DEF IInv, TypeOK
<1>a. /\ TypeOK /\ TypeOK' /\ CallsAsBegun /\ FewCalls /\ pc[t] = "store"
      /\ call[t].op # "lseek" => call[t].rc \in Nat
      /\ seen[t] \in Nat /\ offset[fd] \in Nat
  <2>1. /\ TypeOK /\ TypeOK' /\ CallsAsBegun /\ FewCalls /\ pc[t] = "store"
        /\ call[t].op # "lseek" => call[t].rc \in Nat
    BY DEF IInv, SInv, StoreOffset, CallsAsBegun
  <2>2. /\ seen[t] \in 0 .. NbOffset - 1 /\ offset[fd] \in 0 .. NbOffset - 1
    BY <2>1 DEF TypeOK
  <2>3. QED
    BY <2>1, <2>2
<1>1. /\ \A w \in Threads : w # t => pc'[w] = pc[w] /\ call'[w] = call[w]
      /\ pc'[t] = (IF call[t].op = "lseek" THEN "tell" ELSE "count") /\ call'[t] = call[t]
      /\ offset'[fd] = Uint64(seen[t] + call[t].rc)
      /\ \A g \in Fds : g # fd => offset'[g] = offset[g]
      /\ UNCHANGED <<stats, mutex, call, seen, moved>>
  BY <1>0, <1>a DEF StoreOffset, TypeOK
<1>2. \A g \in Fds : g # fd => t \notin Under(g) /\ t \notin Under(g)'
  BY <1>0, <1>1 DEF Under
<1>3. FewCalls'
  BY <1>a, <1>1, FewCallsStep
<1>4. MutexHeld'
  BY <1>a, <1>1 DEF SInv, MutexHeld, InSection
<1>5. ReadersSee'
  <2> SUFFICES ASSUME NEW w \in Threads, pc'[w] = "store", call[w].fd \in ReadOnly
               PROVE  seen[w] = offset'[call[w].fd]
    BY <1>1 DEF ReadersSee
  <2>1. w # t /\ pc[w] = "store"
    BY <1>1
  <2>2. seen[w] = offset[call[w].fd]
    BY <2>1 DEF SInv, ReadersSee
  <2>3. mutex[call[w].fd] = w
    BY <2>1, OnlyReads DEF SInv, MutexHeld, InSection
  <2>4. ASSUME call[w].fd = fd
        PROVE  mutex[call[t].fd] = t
    BY <1>0, <1>a, <2>4, OnlyReads DEF SInv, MutexHeld, InSection
  <2>5. call[w].fd # fd
    BY <1>0, <2>1, <2>3, <2>4
  <2>6. call[w].fd \in Fds
    BY <1>a DEF TypeOK
  <2>7. QED
    BY <1>1, <2>2, <2>5, <2>6
<1>6. RcOf' = RcOf
  BY <1>1 DEF RcOf
<1>7. Writing(fd)' = Writing(fd) /\ Uncounted(fd)' = Uncounted(fd)
  <2>1. \A w \in Threads :
           /\ w \in Writing(fd)' <=> w \in Writing(fd)
           /\ w \in Uncounted(fd)' <=> w \in Uncounted(fd)
    BY <1>a, <1>1 DEF Uncounted, Writing, Under
  <2>2. QED
    BY <2>1 DEF Uncounted, Writing, Under
<1>8. Lags(stats'[fd].bytesWritten, Pending(Uncounted(fd))', moved'[fd].written)
  BY <1>1, <1>6, <1>7 DEF SInv, WritesAddUp, Pending
<1>9. ASSUME fd \in ReadOnly
      PROVE  Lags(offset'[fd], Pending(Ahead(fd))', moved'[fd].read)
  <2>1. Ahead(fd)' = Ahead(fd) \ {t} /\ t \in Ahead(fd)
    BY <1>0, <1>a, <1>1 DEF Ahead, Under
  <2>a. call[t].op = "read" /\ call[t].rc \in Nat
    BY <1>0, <1>9, <1>a, OnlyReads
  <2>2. SumFunctionOnSet(RcOf, Ahead(fd)) = call[t].rc + SumFunctionOnSet(RcOf', Ahead(fd) \ {t})
    BY <1>a, <1>1, <2>1, <2>a, PendingType, PendingLoses
  <2>3. Pending(Ahead(fd)) = call[t].rc + Pending(Ahead(fd))'
    BY <2>1, <2>2 DEF Pending
  <2>4. PICK p \in Nat : p = Pending(Ahead(fd))'
    <3>1. /\ RcOf \in [Threads -> Nat]
          /\ Ahead(fd) \ {t} \in SUBSET Threads /\ IsFiniteSet(Ahead(fd) \ {t})
      BY <1>a, PendingType, FS_Subset
    <3>2. SumFunctionOnSet(RcOf, Ahead(fd) \ {t}) \in Nat
      BY <3>1, SumType
    <3>3. QED
      BY <1>6, <2>1, <3>2 DEF Pending
  <2>5. PICK b \in Nat : b = offset[fd]
    BY <1>a
  <2>6. PICK m \in Nat : m = moved[fd].read
    BY <1>a DEF TypeOK
  <2>7. PICK c \in Nat : c = call[t].rc
    BY <2>a
  <2>8. Lags(b, c + p, m)
    BY <1>9, <2>3, <2>4, <2>5, <2>6, <2>7 DEF SInv, ReadsAddUp
  <2>9. Lags(Uint64(b + c), p, m)
    BY <2>8, LagsLess
  <2>10. seen[t] = b
    BY <1>0, <1>9, <1>a, <2>5 DEF SInv, ReadersSee
  <2>11. QED
    BY <1>1, <2>4, <2>6, <2>7, <2>9, <2>10
<1>10. ASSUME fd \in Private, moved'[fd].end > stats'[fd].maxOffsetWritten + 1
       PROVE  \E w \in Writing(fd)' :
                moved'[fd].end <= offset'[fd] + ToMove(w)'
  <2>1. \A w \in Under(fd) : w = t
    BY <1>0, <1>10, OneUnder, <1>a DEF IInv, CallsAllowed
  <2>2. PICK w \in Writing(fd) :
          moved[fd].end <= offset[fd] + ToMove(w)
    BY <1>1, <1>10 DEF SInv, WritesReach
  <2>3. w = t /\ call[t].op = "write" /\ call[t].rc \in Nat
    BY <1>a, <2>1, <2>2 DEF Writing
  <2>4. moved[fd].end <= offset[fd] + call[t].rc
    BY <1>a, <2>2, <2>3 DEF ToMove
  <2>5. seen[t] = offset[fd] /\ offset[fd] + call[t].rc <= MaxObject
    BY <1>0, <1>10, <1>a, <2>3 DEF IInv, PrivateAhead
  <2>6. Uint64(seen[t] + call[t].rc) = offset[fd] + call[t].rc
    <3>1. PICK n \in Nat : n = offset[fd] + call[t].rc
      BY <1>a, <2>3
    <3>2. n \in 0 .. NbOffset - 1
      BY <2>5, <3>1, StreamAssumption
    <3>3. QED
      BY <2>5, <3>1, <3>2, CounterOf
  <2>7. moved'[fd].end <= offset'[fd] + 0
    <3>1. moved[fd].end \in Nat
      BY <1>a DEF TypeOK
    <3>2. PICK n \in Nat : n = offset[fd] + call[t].rc
      BY <1>a, <2>3
    <3>3. offset'[fd] = n /\ moved'[fd].end = moved[fd].end
      BY <1>1, <2>6, <3>2
    <3>4. QED
      BY <2>4, <3>1, <3>2, <3>3
  <2>8. QED
    BY <1>1, <1>7, <2>2, <2>3, <2>7 DEF ToMove
<1>11. ReadsAddUp' /\ WritesAddUp' /\ WritesReach'
  BY <1>1, <1>2, <1>8, <1>9, <1>10, OneAddsUp
<1>12. QED
  BY <1>3, <1>4, <1>5, <1>11 DEF SInv

\* A transfer that has moved the offset: it is enough to look at the counters.
LEMMA AfterTheMove ==
  ASSUME IInv, IInv', SInv, NEW t \in Threads, NEW fd \in Fds, fd = call[t].fd,
         pc[t] \in {"count", "reach"}, mutex[fd] \in {t, Nobody},
         \/ pc'[t] = "idle"
         \/ pc'[t] = "reach" /\ call'[t] = call[t] /\ mutex'[fd] = t,
         \A w \in Threads : w # t => pc'[w] = pc[w] /\ call'[w] = call[w] /\ seen'[w] = seen[w],
         \A g \in Fds : g # fd => stats'[g] = stats[g] /\ mutex'[g] = mutex[g],
         UNCHANGED <<offset, moved>>,
         Lags(stats'[fd].bytesWritten, Pending(Uncounted(fd))', moved'[fd].written),
         fd \in Private /\ moved'[fd].end > stats'[fd].maxOffsetWritten + 1 =>
           \E w \in Writing(fd)' : moved'[fd].end <= offset'[fd] + ToMove(w)'
  PROVE  SInv'
<1>0. TypeOK /\ CallsAsBegun /\ FewCalls
  BY DEF IInv, SInv
<1>1. \A g \in Fds : g # fd => t \notin Under(g) /\ t \notin Under(g)'
  BY DEF Under
<1>2. FewCalls'
  BY <1>0, FewCallsStep
<1>3. MutexHeld'
  <2> SUFFICES ASSUME NEW w \in Threads, InSection(w)'
               PROVE  mutex'[call'[w].fd] = w
    BY DEF MutexHeld
  <2>1. CASE w = t
    BY <2>1 DEF InSection
  <2>2. CASE w # t
    <3>1. mutex[call[w].fd] = w
      BY <2>2 DEF SInv, MutexHeld, InSection
    <3>2. call[w].fd # fd
      BY <2>2, <3>1, StreamAssumption
    <3>3. call[w].fd \in Fds
      BY <1>0 DEF TypeOK
    <3>4. QED
      BY <2>2, <3>1, <3>2, <3>3
  <2>3. QED
    BY <2>1, <2>2
<1>4. ReadersSee'
  BY DEF SInv, ReadersSee
<1>5. ASSUME fd \in ReadOnly
      PROVE  Lags(offset'[fd], Pending(Ahead(fd))', moved'[fd].read)
  <2>1. \A w \in Threads : w \in Ahead(fd)' <=> w \in Ahead(fd)
    BY DEF Ahead, Under
  <2>2. Ahead(fd)' = Ahead(fd)
    BY <2>1 DEF Ahead, Under
  <2>3. \A w \in Ahead(fd) : call'[w] = call[w]
    BY DEF Ahead, Under
  <2>4. SumFunctionOnSet(RcOf', Ahead(fd)) = SumFunctionOnSet(RcOf, Ahead(fd))
    BY <1>0, <2>3, PendingType, PendingSame
  <2>5. Pending(Ahead(fd))' = Pending(Ahead(fd))
    BY <2>2, <2>4 DEF Pending
  <2>6. QED
    BY <1>5, <2>5 DEF SInv, ReadsAddUp
<1>6. ReadsAddUp' /\ WritesAddUp' /\ WritesReach'
  BY <1>1, <1>5, OneAddsUp
<1>7. QED
  BY <1>2, <1>3, <1>4, <1>6 DEF SInv

\* The bytes of a write are counted; other calls, and writes that leave the
\* offset at zero, return.
LEMMA CountSums ==
  ASSUME IInv, IInv', SInv, NEW t \in Threads, Count(t)
  PROVE  SInv'
<1>0. PICK fd \in Fds : fd = call[t].fd
  BY DEF IInv, TypeOK
<1>a. /\ TypeOK /\ CallsAsBegun /\ CallsAsBegun' /\ FewCalls /\ pc[t] = "count"
      /\ call[t].rc \in Nat /\ offset[fd] \in Nat
      /\ stats[fd] \in [bytesWritten : 0 .. NbOffset - 1, maxOffsetWritten : 0 .. NbOffset - 1]
      /\ moved[fd] \in [read : Nat, written : Nat, end : Nat]
      /\ mutex[fd] \in {t, Nobody}
  <2>1. /\ TypeOK /\ CallsAsBegun /\ CallsAsBegun' /\ FewCalls /\ pc[t] = "count"
        /\ mutex[fd] \in {t, Nobody}
    BY <1>0 DEF IInv, SInv, Count
  <2>2. call[t].rc \in Nat
    BY <2>1 DEF CallsAsBegun
  <2>3. /\ stats[fd] \in [bytesWritten : 0 .. NbOffset - 1, maxOffsetWritten : 0 .. NbOffset - 1]
        /\ offset[fd] \in 0 .. NbOffset - 1
        /\ moved[fd] \in [read : Nat, written : Nat, end : Nat]
    BY <2>1 DEF TypeOK
  <2>4. QED
    BY <2>1, <2>2, <2>3
<1> DEFINE writes == call[t].op = "write"
           written == IF writes THEN Uint64(stats[fd].bytesWritten + call[t].rc)
                      ELSE stats[fd].bytesWritten
<1>1. /\ stats' = [stats EXCEPT ![fd].bytesWritten = written]
      /\ UNCHANGED <<offset, moved>>
      /\ IF writes /\ offset[fd] # 0
           THEN /\ mutex' = [mutex EXCEPT ![fd] = t]
                /\ pc' = [pc EXCEPT ![t] = "reach"]
                /\ UNCHANGED <<call, seen>>
           ELSE /\ mutex' = [mutex EXCEPT ![fd] = Nobody]
                /\ pc' = [pc EXCEPT ![t] = "idle"]
                /\ call' = [call EXCEPT ![t] = NoCall]
                /\ seen' = [seen EXCEPT ![t] = 0]
  BY <1>0 DEF Count, Done, Return
<1>2. /\ \A w \in Threads : w # t => pc'[w] = pc[w] /\ call'[w] = call[w] /\ seen'[w] = seen[w]
      /\ \A g \in Fds : g # fd => stats'[g] = stats[g] /\ mutex'[g] = mutex[g]
      /\ stats'[fd].bytesWritten = written
      /\ stats'[fd].maxOffsetWritten = stats[fd].maxOffsetWritten
      /\ IF writes /\ offset[fd] # 0
           THEN pc'[t] = "reach" /\ call'[t] = call[t] /\ mutex'[fd] = t
           ELSE pc'[t] = "idle"
  <2> HIDE DEF written
  <2>1. QED
    BY <1>a, <1>1 DEF TypeOK
<1>3. Uncounted(fd)' = Uncounted(fd) \ {t}
  <2>1. \A w \in Threads : w \in Uncounted(fd)' <=> w \in Uncounted(fd) /\ w # t
    BY <1>2 DEF Uncounted, Writing, Under
  <2>2. QED
    BY <2>1 DEF Uncounted, Writing, Under
<1>4. Lags(stats'[fd].bytesWritten, Pending(Uncounted(fd))', moved'[fd].written)
  <2>1. CASE writes
    <3>1. t \in Uncounted(fd) /\ call[t].op # "lseek"
      BY <1>0, <1>a, <2>1 DEF Uncounted, Writing, Under
    <3>2. \A w \in Uncounted(fd) \ {t} : call'[w] = call[w]
      BY <1>2 DEF Uncounted, Writing, Under
    <3>3. SumFunctionOnSet(RcOf, Uncounted(fd))
            = call[t].rc + SumFunctionOnSet(RcOf', Uncounted(fd) \ {t})
      BY <1>a, <3>1, <3>2, PendingType, PendingLoses
    <3>4. Pending(Uncounted(fd)) = call[t].rc + Pending(Uncounted(fd))'
      BY <1>3, <3>3 DEF Pending
    <3>5. PICK p \in Nat : p = Pending(Uncounted(fd))'
      <4>1. /\ RcOf' \in [Threads -> Nat]
            /\ Uncounted(fd) \ {t} \in SUBSET Threads /\ IsFiniteSet(Uncounted(fd) \ {t})
        <5>1. RcOf' \in [Threads -> Nat]
          BY <1>a DEF RcOf, CallsAsBegun
        <5>2. QED
          BY <1>a, <5>1, PendingType, FS_Subset
      <4>2. SumFunctionOnSet(RcOf', Uncounted(fd) \ {t}) \in Nat
        BY <4>1, SumType
      <4>3. QED
        BY <1>3, <4>2 DEF Pending
    <3>6. PICK b \in Nat : b = stats[fd].bytesWritten
      BY <1>a
    <3>7. PICK m \in Nat : m = moved[fd].written
      BY <1>a
    <3>8. PICK c \in Nat : c = call[t].rc
      BY <1>a
    <3>9. Lags(b, c + p, m)
      BY <3>4, <3>5, <3>6, <3>7, <3>8 DEF SInv, WritesAddUp
    <3>10. Lags(Uint64(b + c), p, m)
      BY <3>9, LagsLess
    <3>11. stats'[fd].bytesWritten = Uint64(b + c)
      BY <1>2, <2>1, <3>6, <3>8
    <3>12. QED
      BY <1>1, <3>5, <3>7, <3>10, <3>11
  <2>2. CASE ~ writes
    <3>1. Uncounted(fd)' = Uncounted(fd)
      BY <1>3, <2>2 DEF Uncounted, Writing
    <3>2. \A w \in Uncounted(fd) : call'[w] = call[w]
      BY <1>2, <2>2 DEF Uncounted, Writing, Under
    <3>3. SumFunctionOnSet(RcOf', Uncounted(fd)) = SumFunctionOnSet(RcOf, Uncounted(fd))
      BY <1>a, <3>2, PendingType, PendingSame
    <3>4. Pending(Uncounted(fd))' = Pending(Uncounted(fd))
      BY <3>1, <3>3 DEF Pending
    <3>5. stats'[fd].bytesWritten = stats[fd].bytesWritten
      BY <1>2, <2>2
    <3>6. QED
      BY <1>1, <3>4, <3>5 DEF SInv, WritesAddUp
  <2>3. QED
    BY <2>1, <2>2
<1>5. ASSUME fd \in Private, moved'[fd].end > stats'[fd].maxOffsetWritten + 1
      PROVE  \E w \in Writing(fd)' : moved'[fd].end <= offset'[fd] + ToMove(w)'
  <2>1. \A w \in Under(fd) : w = t
    BY <1>0, <1>5, OneUnder, <1>a DEF IInv, CallsAllowed
  <2>2. PICK w \in Writing(fd) : moved[fd].end <= offset[fd] + ToMove(w)
    BY <1>1, <1>2, <1>5 DEF SInv, WritesReach
  <2>3. w = t /\ writes /\ moved[fd].end <= offset[fd]
    BY <1>a, <2>1, <2>2 DEF Writing, ToMove
  <2>4. offset[fd] # 0
    BY <1>a, <1>1, <1>2, <1>5, <2>3
  <2>5. t \in Writing(fd)' /\ ToMove(t)' = 0
    BY <1>0, <1>2, <2>3, <2>4 DEF Writing, Under, ToMove
  <2>6. QED
    BY <1>a, <1>1, <2>3, <2>5
<1> HIDE DEF written
<1>6. QED
  BY <1>0, <1>a, <1>1, <1>2, <1>4, <1>5, AfterTheMove

\* A write returns, once the highest offset covers it.
LEMMA ReachSums ==
  ASSUME IInv, IInv', SInv, NEW t \in Threads, Reach(t)
  PROVE  SInv'
<1>0. PICK fd \in Fds : fd = call[t].fd
  BY DEF IInv, TypeOK
<1>a. /\ TypeOK /\ CallsAsBegun /\ FewCalls /\ pc[t] = "reach" /\ mutex[fd] = t
      /\ offset[fd] \in 0 .. NbOffset - 1
      /\ stats[fd] \in [bytesWritten : 0 .. NbOffset - 1, maxOffsetWritten : 0 .. NbOffset - 1]
      /\ moved[fd] \in [read : Nat, written : Nat, end : Nat]
  <2>1. TypeOK /\ CallsAsBegun /\ FewCalls /\ pc[t] = "reach"
    BY DEF IInv, SInv, Reach
  <2>2. mutex[fd] = t
    BY <1>0, <2>1 DEF SInv, MutexHeld, InSection
  <2>3. QED
    BY <2>1, <2>2 DEF TypeOK
<1> DEFINE reached == Larger(stats[fd].maxOffsetWritten, reachOf(t))
<1>1. /\ stats' = [stats EXCEPT ![fd].maxOffsetWritten = reached]
      /\ pc' = [pc EXCEPT ![t] = "idle"]
      /\ mutex' = [mutex EXCEPT ![fd] = Nobody]
      /\ call' = [call EXCEPT ![t] = NoCall]
      /\ seen' = [seen EXCEPT ![t] = 0]
      /\ UNCHANGED <<offset, moved>>
  BY <1>0 DEF Reach, Done, Return
<1>2. reached >= stats[fd].maxOffsetWritten /\ reached + 1 >= offset[fd] /\ reached \in Nat
  <2>1. PICK n \in Int : n = offset[fd] - 1
    BY <1>a
  <2>2. Uint64(n) = IF n = -1 THEN NbOffset - 1 ELSE n
    <3>1. NbOffset \in Nat \ {0} /\ -1 <= n /\ n < NbOffset
      BY <1>a, <2>1, StreamAssumption
    <3>2. CASE n = -1
      <4>1. (-1) % NbOffset = NbOffset - 1
        BY <3>1
      <4>2. QED
        BY <3>2, <4>1 DEF Uint64
    <3>3. CASE n # -1
      BY <3>1, <3>3, CounterOf
    <3>4. QED
      BY <3>2, <3>3
  <2>3. reachOf(t) = Uint64(n)
    BY <1>0, <2>1 DEF reachOf
  <2>4. QED
    BY <1>a, <2>1, <2>2, <2>3, StreamAssumption DEF Larger
<1> HIDE DEF reached
<1>3. /\ \A w \in Threads : w # t => pc'[w] = pc[w] /\ call'[w] = call[w] /\ seen'[w] = seen[w]
      /\ \A g \in Fds : g # fd => stats'[g] = stats[g] /\ mutex'[g] = mutex[g]
      /\ stats'[fd].bytesWritten = stats[fd].bytesWritten
      /\ stats'[fd].maxOffsetWritten = reached
      /\ pc'[t] = "idle"
  BY <1>a, <1>1 DEF TypeOK
<1>4. Uncounted(fd)' = Uncounted(fd) /\ \A w \in Uncounted(fd) : call'[w] = call[w]
  <2>1. \A w \in Threads : w \in Uncounted(fd)' <=> w \in Uncounted(fd)
    BY <1>a, <1>3 DEF Uncounted, Writing, Under
  <2>2. QED
    BY <1>a, <1>3, <2>1 DEF Uncounted, Writing, Under
<1>5. Pending(Uncounted(fd))' = Pending(Uncounted(fd))
  BY <1>a, <1>4, PendingType, PendingSame DEF Pending
<1>6. Lags(stats'[fd].bytesWritten, Pending(Uncounted(fd))', moved'[fd].written)
  BY <1>1, <1>3, <1>5 DEF SInv, WritesAddUp
<1>7. ~ (fd \in Private /\ moved'[fd].end > stats'[fd].maxOffsetWritten + 1)
  <2> SUFFICES ASSUME fd \in Private, moved[fd].end > reached + 1 PROVE FALSE
    BY <1>1, <1>3
  <2>1. \A w \in Under(fd) : w = t
    BY <1>0, OneUnder, <1>a DEF IInv, CallsAllowed
  <2>2. moved[fd].end > stats[fd].maxOffsetWritten + 1
    BY <1>a, <1>2
  <2>3. PICK w \in Writing(fd) : moved[fd].end <= offset[fd] + ToMove(w)
    BY <2>2 DEF SInv, WritesReach
  <2>4. moved[fd].end <= offset[fd]
    BY <1>a, <2>1, <2>3 DEF Writing, ToMove
  <2>5. QED
    BY <1>a, <1>2, <2>4
<1>8. QED
  BY <1>0, <1>a, <1>1, <1>3, <1>6, <1>7, AfterTheMove

\* A seek returns.
LEMMA TellSums ==
  ASSUME IInv, IInv', SInv, NEW t \in Threads, Tell(t)
  PROVE  SInv'
<1>0. TypeOK /\ CallsAsBegun /\ CallsAllowed
  BY DEF IInv
<1>1. /\ pc[t] = "tell" /\ call[t].op = "lseek" /\ call[t].fd \in Fds
      /\ <<t, call[t].fd, "lseek">> \in MayCall
  BY <1>0 DEF Tell, CallsAsBegun, CallsAllowed, TypeOK
<1>2. /\ pc'[t] = "idle" /\ UNCHANGED <<offset, stats, mutex, moved>>
      /\ \A w \in Threads : w # t => pc'[w] = pc[w] /\ call'[w] = call[w] /\ seen'[w] = seen[w]
  BY <1>0 DEF Tell, Done, Return, TypeOK
<1>3. QED
  BY <1>1, <1>2, SeekSums

\* The invariant holds in every state.
LEMMA SumsInvariance == Spec => [](IInv /\ SInv)
<1>1. IInv /\ IInv' /\ SInv /\ [Next]_vars => SInv'
  <2> SUFFICES ASSUME IInv, IInv', SInv, [Next]_vars PROVE SInv'
    OBVIOUS
  <2>1. CASE Next
    BY <2>1, RequestSums, BeforeTheMove, StoreOffsetSums, CountSums, ReachSums, TellSums DEF Next
  <2>2. CASE UNCHANGED vars
    BY <2>2, QuietStep DEF vars
  <2>3. QED
    BY <2>1, <2>2
<1>2. QED
  BY Invariance, InitSInv, <1>1, PTL DEF Spec

\* Threads that only read from a descriptor may share it: whatever they do to
\* each other, when none of them is in a call the offset is where the bytes
\* delivered add up to.
THEOREM SharedReadsAddUp == Spec => []ReadersLoseNoAdvance
<1>1. IInv /\ SInv => ReadersLoseNoAdvance
  <2> SUFFICES ASSUME IInv, SInv, NEW fd \in Fds, OpsOn(fd) \subseteq {"read"}, Under(fd) = {}
               PROVE  offset[fd] = Uint64(moved[fd].read)
    BY DEF ReadersLoseNoAdvance
  <2>1. Ahead(fd) = {} /\ fd \in ReadOnly
    BY DEF Ahead, ReadOnly
  <2>2. Pending(Ahead(fd)) = 0
    BY <2>1, SumEmpty DEF Pending
  <2>3. PICK n \in 0 .. NbOffset - 1 : n = offset[fd]
    BY DEF IInv, TypeOK
  <2>4. Lags(n, 0, moved[fd].read)
    BY <2>1, <2>2, <2>3 DEF SInv, ReadsAddUp
  <2>5. n + 0 = n
    BY <2>3
  <2>6. QED
    BY <2>3, <2>4, <2>5, CounterOf DEF Lags
<1>2. QED
  BY SumsInvariance, <1>1, PTL

\* The bytes written that close logs are those the store took, and on the
\* descriptor of one thread the highest offset covers them, once no call is
\* half way.
THEOREM StatsCover == Spec => []StreamStatsCover
<1>1. IInv /\ SInv => StreamStatsCover
  <2> SUFFICES ASSUME IInv, SInv, NEW fd \in Fds, Under(fd) = {}
               PROVE  /\ stats[fd].bytesWritten = Uint64(moved[fd].written)
                      /\ fd \in Private => stats[fd].maxOffsetWritten + 1 >= moved[fd].end
    BY DEF StreamStatsCover
  <2>1. Writing(fd) = {} /\ Uncounted(fd) = {}
    BY DEF Uncounted, Writing
  <2>2. Pending(Uncounted(fd)) = 0
    BY <2>1, SumEmpty DEF Pending
  <2>3. stats[fd] \in [bytesWritten : 0 .. NbOffset - 1, maxOffsetWritten : 0 .. NbOffset - 1]
    BY DEF IInv, TypeOK
  <2>4. PICK n \in 0 .. NbOffset - 1 : n = stats[fd].bytesWritten
    BY <2>3
  <2>5. Lags(n, 0, moved[fd].written)
    BY <2>2, <2>4 DEF SInv, WritesAddUp
  <2>6. n + 0 = n
    BY <2>4
  <2>7. stats[fd].bytesWritten = Uint64(moved[fd].written)
    BY <2>4, <2>5, <2>6, CounterOf DEF Lags
  <2>8. moved[fd].end \in Nat
    BY DEF IInv, TypeOK
  <2>9. fd \in Private => stats[fd].maxOffsetWritten + 1 >= moved[fd].end
    BY <2>1, <2>3, <2>8 DEF SInv, WritesReach
  <2>10. QED
    BY <2>7, <2>9
<1>2. QED
  BY SumsInvariance, <1>1, PTL
=============================================================================
