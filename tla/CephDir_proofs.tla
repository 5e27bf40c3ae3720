---------------------------- MODULE CephDir_proofs ----------------------------
(***************************************************************************)
(* The listing of a pool, for every set of clients, paths, attributes and  *)
(* objects: the types of the calls on the attributes and of the directory, *)
(* and that a listing is complete.                                         *)
(***************************************************************************)
EXTENDS CephDir, FiniteSums, SequenceTheorems

-----------------------------------------------------------------------------
(* The operators that the calls are built from                             *)

\* Max is what it says of a finite set.
LEMMA MaxIsMember ==
  ASSUME NEW S, IsFiniteSet(S), S # {}, S \subseteq Nat
  PROVE  Max(S) \in S
BY LargestThereIs DEF Max

\* The beginning of a sequence is one, and no longer than it may be.
LEMMA PrefixType ==
  ASSUME NEW X, NEW s \in Seq(X), NEW n \in Nat
  PROVE  Prefix(s, n) \in Seq(X)
<1> DEFINE m == IF Len(s) < n THEN Len(s) ELSE n
<1>1. m \in Int /\ 1 \in Int
  OBVIOUS
<1>2. \A i \in 1 .. m : s[i] \in X
  OBVIOUS
<1> HIDE DEF m
<1>3. SubSeq(s, 1, m) \in Seq(X)
  BY <1>1, <1>2, SubSeqProperties
<1>4. QED
  BY <1>3 DEF Prefix, m

\* The files that a path can mean.
LEMMA FilesOfPaths ==
  ASSUME NEW c \in Clients
  PROVE  getCephFile(PathOf[c], EnvOf[c]) \in Files /\ getCephFile(PathOf[c], None) \in Files
BY DEF Files

LEMMA NoneTyped == NoAttrs \in [Attrs -> Values \cup {None}]
BY DEF NoAttrs

\* What the last Get or List of a client is.
Answer == [value : Seq(Nat), names : SUBSET Seq(STRING), size : Nat]

LEMMA NothingTyped == Nothing \in Answer
BY DEF Nothing, Answer

-----------------------------------------------------------------------------
(* Which file a call is made on                                            *)

\* A descriptor is that of one client, and stands for the file he opened.
OwnDescriptors ==
  /\ fdOf \in [Clients -> Int]
  /\ \A c \in Clients : fdOf[c] # -1 => fds[fdOf[c] + 1] = getCephFile(PathOf[c], EnvOf[c])
  /\ \A c, d \in Clients : fdOf[c] # -1 /\ fdOf[d] = fdOf[c] => d = c

\* The inductive invariant of the calls.
XInv ==
  /\ CallsTypeOK
  /\ OwnDescriptors

\* A call with the descriptor or without is about a file that there can be.
LEMMA SubjectReached ==
  ASSUME XInv, NEW c \in Clients, NEW fd \in {fdOf[c], -1}
  PROVE  Subject(c, fd) \in Files /\ ListSubject(c, fd) \in Files
<1>1. fdOf[c] \in Int /\ fd \in Int
  BY DEF XInv, OwnDescriptors
<1>2. fd >= 0 => fds[fd + 1] = getCephFile(PathOf[c], EnvOf[c])
  BY <1>1 DEF XInv, OwnDescriptors
<1>3. QED
  BY <1>1, <1>2, FilesOfPaths DEF Subject, ListSubject
-----------------------------------------------------------------------------
(* The calls keep the invariant                                            *)

LEMMA InitXInv ==
  CallsInit => XInv
<1> SUFFICES ASSUME CallsInit PROVE XInv
  OBVIOUS
<1>2. CallsTypeOK
  BY NothingTyped, NoneTyped DEF CallsInit, CallsTypeOK, Answer
<1>3. OwnDescriptors
  BY DEF CallsInit, OwnDescriptors
<1>4. QED
  BY <1>2, <1>3 DEF XInv

LEMMA OpenXInv ==
  ASSUME XInv, NEW c \in Clients, Open(c)
  PROVE  XInv'
<1> DEFINE file == getCephFile(PathOf[c], EnvOf[c])
<1>0. /\ CallsTypeOK /\ OwnDescriptors
      /\ fds \in Seq(Files \cup {None}) /\ file \in Files \cup {None}
  BY FilesOfPaths DEF XInv, CallsTypeOK
<1>1. /\ fds' \in Seq(Files \cup {None}) /\ Len(fds') = Len(fds) + 1
      /\ \A i \in 1 .. Len(fds) : fds'[i] = fds[i]
      /\ fds'[Len(fds) + 1] = file
  <2> HIDE DEF file
  <2>1. fds' = Append(fds, file)
    BY DEF Open, file
  <2>2. QED
    BY <1>0, <2>1, AppendProperties
<1>2. fdOf' = [fdOf EXCEPT ![c] = Len(fds)] /\ fdOf[c] = -1
  BY DEF Open
<1>3. fdOf \in [Clients -> Int] /\ Len(fds) \in Nat
      /\ \A d \in Clients : fdOf[d] \in -1 .. Len(fds) - 1
  BY <1>0 DEF OwnDescriptors, CallsTypeOK
<1>4. CallsTypeOK'
  <2>1. calls' \in [Clients -> Nat]
    BY <1>0 DEF Open, Making, CallsTypeOK
  <2>2. \A d \in Clients : fdOf'[d] \in -1 .. Len(fds') - 1
    BY <1>1, <1>2, <1>3
  <2>3. QED
    BY <1>0, <1>1, <2>1, <2>2 DEF Open, CallsTypeOK
<1>5. OwnDescriptors'
  <2>1. fdOf' \in [Clients -> Int]
    BY <1>2, <1>3
  <2>2. ASSUME NEW d \in Clients, fdOf'[d] # -1
        PROVE  fds'[fdOf'[d] + 1] = getCephFile(PathOf[d], EnvOf[d])
    <3>1. CASE d = c
      BY <1>1, <1>2, <1>3, <3>1
    <3>2. CASE d # c
      <4>1. fdOf'[d] = fdOf[d] /\ fdOf[d] + 1 \in 1 .. Len(fds)
        BY <1>2, <1>3, <2>2, <3>2
      <4>2. fds'[fdOf[d] + 1] = fds[fdOf[d] + 1]
        BY <1>1, <4>1
      <4>3. QED
        BY <1>0, <2>2, <4>1, <4>2 DEF OwnDescriptors
    <3>3. QED
      BY <3>1, <3>2
  <2>3. ASSUME NEW d \in Clients, NEW e \in Clients, fdOf'[d] # -1, fdOf'[e] = fdOf'[d]
        PROVE  e = d
    BY <1>0, <1>2, <1>3, <2>3 DEF OwnDescriptors
  <2>4. QED
    BY <2>1, <2>2, <2>3 DEF OwnDescriptors
<1>7. QED
  BY <1>4, <1>5 DEF XInv

LEMMA CloseXInv ==
  ASSUME XInv, NEW c \in Clients, Close(c)
  PROVE  XInv'
<1>0. /\ CallsTypeOK /\ OwnDescriptors
      /\ fds \in Seq(Files \cup {None}) /\ Len(fds) \in Nat
      /\ fdOf \in [Clients -> Int]
      /\ \A d \in Clients : fdOf[d] \in -1 .. Len(fds) - 1
  BY DEF XInv, CallsTypeOK, OwnDescriptors
<1>1. /\ fdOf[c] # -1 /\ fdOf' = [fdOf EXCEPT ![c] = -1]
      /\ fds' = [fds EXCEPT ![fdOf[c] + 1] = None]
  BY DEF Close
<1>2. fds' \in Seq(Files \cup {None}) /\ Len(fds') = Len(fds)
  BY <1>0, <1>1, ExceptSeq
<1>3. ASSUME NEW d \in Clients, d # c, fdOf[d] # -1
      PROVE  fds'[fdOf[d] + 1] = fds[fdOf[d] + 1]
  <2>1. fdOf[d] # fdOf[c]
    BY <1>0, <1>3 DEF OwnDescriptors
  <2>2. fdOf[d] + 1 \in 1 .. Len(fds) /\ fdOf[d] + 1 # fdOf[c] + 1
    BY <1>0, <1>3, <2>1
  <2>3. QED
    BY <1>0, <1>1, <2>2
<1>4. CallsTypeOK'
  <2>1. \A d \in Clients : fdOf'[d] \in -1 .. Len(fds') - 1
    BY <1>0, <1>1, <1>2
  <2>2. QED
    BY <1>0, <1>2, <2>1 DEF Close, CallsTypeOK
<1>5. OwnDescriptors'
  BY <1>0, <1>1, <1>3 DEF OwnDescriptors
<1>7. QED
  BY <1>4, <1>5 DEF XInv

LEMMA WriteXInv ==
  ASSUME XInv, NEW c \in Clients, Write(c)
  PROVE  XInv'
<1>1. CallsTypeOK /\ OwnDescriptors
  BY DEF XInv
<1>2. fds[fdOf[c] + 1] \in Files
  BY <1>1, FilesOfPaths DEF Write, OwnDescriptors
<1>3. CallsTypeOK'
  BY <1>1, <1>2 DEF Write, CallsTypeOK
<1>4. OwnDescriptors'
  BY <1>1 DEF Write, OwnDescriptors
<1>6. QED
  BY <1>3, <1>4 DEF XInv

LEMMA UnlinkXInv ==
  ASSUME XInv, NEW c \in Clients, Unlink(c)
  PROVE  XInv'
<1>1. CallsTypeOK /\ OwnDescriptors
  BY DEF XInv
<1>2. PICK file \in Files : /\ stored' = stored \ {file}
                            /\ attrs' = [attrs EXCEPT ![file] = NoAttrs]
  BY FilesOfPaths DEF Unlink
<1>3. calls' \in [Clients -> Nat]
  BY <1>1 DEF Unlink, Making, CallsTypeOK
<1>4. attrs' \in [Files -> [Attrs -> Values \cup {None}]]
  BY <1>1, <1>2, NoneTyped DEF CallsTypeOK
<1>5. CallsTypeOK'
  BY <1>1, <1>2, <1>3, <1>4 DEF Unlink, CallsTypeOK
<1>6. OwnDescriptors'
  BY <1>1 DEF Unlink, OwnDescriptors
<1>7. QED
  BY <1>5, <1>6 DEF XInv
\* A call on the attributes of a file of the client.
LEMMA OnXInv ==
  ASSUME XInv, NEW c \in Clients, NEW file \in Files, On(c, file),
         attrs' \in [Files -> [Attrs -> Values \cup {None}]],
         got' \in [Clients -> Answer]
  PROVE  XInv'
<1>1. CallsTypeOK /\ OwnDescriptors
  BY DEF XInv
<1>2. calls' \in [Clients -> Nat]
  BY <1>1 DEF On, Making, CallsTypeOK
<1>3. CallsTypeOK'
  BY <1>1, <1>2 DEF On, CallsTypeOK, Answer
<1>4. OwnDescriptors'
  BY <1>1 DEF On, OwnDescriptors
<1>5. QED
  BY <1>3, <1>4 DEF XInv

\* What a file may have in an attribute.
LEMMA AttrTypes ==
  ASSUME XInv, NEW f \in Files, NEW a \in Attrs, attrs[f][a] # None
  PROVE  /\ attrs[f][a] \in Values /\ attrs[f][a] \in Seq(Nat) /\ a \in Seq(STRING)
         /\ Len(attrs[f][a]) \in Nat /\ Copied(a, attrs[f][a]) \in Seq(STRING)
<1>1. attrs[f][a] \in Values
  BY DEF XInv, CallsTypeOK
<1>2. attrs[f][a] \in Seq(Nat) /\ a \in Seq(STRING)
  BY <1>1, XAttrAssumption
<1> DEFINE n == Len(attrs[f][a]) + 1
<1>3. n \in Nat
  BY <1>2
<1> HIDE DEF n
<1>4. Prefix(a, n) \in Seq(STRING)
  BY <1>2, <1>3, PrefixType
<1>5. QED
  BY <1>1, <1>2, <1>4 DEF Copied, n

\* The size of the largest value is one.
LEMMA LargestSize ==
  ASSUME XInv, NEW f \in Files
  PROVE  Max({Len(attrs[f][a]) : a \in {b \in Attrs : attrs[f][b] # None}} \cup {0}) \in Nat
<1> DEFINE A == {b \in Attrs : attrs[f][b] # None}
           S == {Len(attrs[f][a]) : a \in A}
<1>1. IsFiniteSet(A)
  BY XAttrAssumption, FS_Subset
<1>2. IsFiniteSet(S)
  <2> DEFINE g == [a \in A |-> Len(attrs[f][a])]
  <2> HIDE DEF A
  <2>1. g \in Surjection(A, S)
    BY DEF Surjection
  <2> HIDE DEF g, S
  <2>2. QED
    BY <1>1, <2>1, FS_Surjection
<1>3. S \subseteq Nat
  BY AttrTypes
<1> HIDE DEF S
<1>4. IsFiniteSet(S \cup {0}) /\ S \cup {0} # {} /\ S \cup {0} \subseteq Nat
  BY <1>2, <1>3, FS_AddElement
<1>5. Max(S \cup {0}) \in Nat
  BY <1>4, MaxIsMember
<1>6. QED
  BY <1>5 DEF S

LEMMA GetXInv ==
  ASSUME XInv, NEW c \in Clients, NEW fd \in {fdOf[c], -1}, NEW a \in Attrs,
         NEW size \in Sizes, Get(c, fd, a, size)
  PROVE  XInv'
<1>1. PICK file \in Files :
        /\ On(c, file) /\ attrs[file][a] # None
        /\ got' = [got EXCEPT ![c] = [Nothing EXCEPT !.value = Returned(attrs[file][a], size)]]
        /\ attrs' = attrs
  BY SubjectReached DEF Get
<1>2. Returned(attrs[file][a], size) \in Seq(Nat)
  <2>1. attrs[file][a] \in Seq(Nat) /\ size \in Nat
    BY <1>1, AttrTypes, XAttrAssumption
  <2>2. QED
    BY <2>1, PrefixType DEF Returned
<1>3. CallsTypeOK
  BY DEF XInv
<1>4. /\ attrs' \in [Files -> [Attrs -> Values \cup {None}]]
      /\ got' \in [Clients -> Answer]
  <2>1. [Nothing EXCEPT !.value = Returned(attrs[file][a], size)] \in Answer
    BY <1>2, NothingTyped DEF Answer
  <2>2. got \in [Clients -> Answer]
    BY <1>3 DEF CallsTypeOK, Answer
  <2>3. QED
    BY <1>1, <1>3, <2>1, <2>2 DEF CallsTypeOK
<1>5. QED
  BY <1>1, <1>4, OnXInv

LEMMA SetXInv ==
  ASSUME XInv, NEW c \in Clients, NEW fd \in {fdOf[c], -1}, NEW a \in Attrs,
         NEW value \in Values, Set(c, fd, a, value)
  PROVE  XInv'
<1>1. PICK file \in Files :
        /\ On(c, file)
        /\ attrs' = [attrs EXCEPT ![file][a] = value] /\ got' = got
  BY SubjectReached DEF Set
<1>2. /\ attrs' \in [Files -> [Attrs -> Values \cup {None}]]
      /\ got' \in [Clients -> Answer]
  BY <1>1 DEF XInv, CallsTypeOK, Answer
<1>3. QED
  BY <1>1, <1>2, OnXInv

LEMMA DelXInv ==
  ASSUME XInv, NEW c \in Clients, NEW a \in Attrs, Del(c, a)
  PROVE  XInv'
<1>1. PICK file \in Files :
        /\ On(c, file)
        /\ attrs' = [attrs EXCEPT ![file][a] = None] /\ got' = got
  BY FilesOfPaths DEF Del, PathSubject
<1>2. /\ attrs' \in [Files -> [Attrs -> Values \cup {None}]]
      /\ got' \in [Clients -> Answer]
  BY <1>1 DEF XInv, CallsTypeOK, Answer
<1>3. QED
  BY <1>1, <1>2, OnXInv

LEMMA ListXInv ==
  ASSUME XInv, NEW c \in Clients, NEW fd \in {fdOf[c], -1}, NEW getSz \in BOOLEAN,
         List(c, fd, getSz)
  PROVE  XInv'
<1> DEFINE file == ListSubject(c, fd)
           attrset == {a \in Attrs : attrs[file][a] # None}
           maxSize == Max({Len(attrs[file][a]) : a \in attrset} \cup {0})
           size == IF getSz THEN 0 ELSE maxSize
           copies == {Copied(a, attrs[file][a]) : a \in attrset}
           answer == [value |-> <<>>, names |-> copies, size |-> size]
<1>1. file \in Files
  BY SubjectReached
<1>2. On(c, file) /\ attrs' = attrs /\ got' = [got EXCEPT ![c] = answer]
  BY DEF List
<1>3. copies \subseteq Seq(STRING)
  BY <1>1, AttrTypes
<1>4. maxSize \in Nat
  BY <1>1, LargestSize
<1>5. size \in Nat
  BY <1>4
<1>6. answer \in Answer
  <2>1. <<>> \in Seq(Nat)
    OBVIOUS
  <2> HIDE DEF copies, size, maxSize, attrset
  <2>2. QED
    BY <1>3, <1>4, <1>5, <2>1 DEF Answer
<1> HIDE DEF answer, file
<1>7. /\ attrs' \in [Files -> [Attrs -> Values \cup {None}]]
      /\ got' \in [Clients -> Answer]
  BY <1>2, <1>6 DEF XInv, CallsTypeOK, Answer
<1>8. QED
  BY <1>1, <1>2, <1>7, OnXInv

LEMMA CallsXInv ==
  ASSUME XInv, CallsNext
  PROVE  XInv'
<1>1. PICK c \in Clients :
        \/ Open(c) \/ Close(c) \/ Write(c) \/ Unlink(c)
        \/ \E fd \in {fdOf[c], -1}, a \in Attrs :
             \/ \E size \in Sizes : Get(c, fd, a, size)
             \/ \E value \in Values : Set(c, fd, a, value)
             \/ Del(c, a)
        \/ \E fd \in {fdOf[c], -1}, getSz \in BOOLEAN : List(c, fd, getSz)
  BY DEF CallsNext
<1>2. QED
  BY <1>1, OpenXInv, CloseXInv, WriteXInv, UnlinkXInv, GetXInv, SetXInv, DelXInv, ListXInv

LEMMA IdleXInv ==
  ASSUME XInv, UNCHANGED callVars
  PROVE  XInv'
BY DEF callVars, XInv, CallsTypeOK, OwnDescriptors

\* The calls of Next are those of CallsNext.
LEMMA StepOfCalls ==
  ASSUME [Next]_vars
  PROVE  CallsNext \/ UNCHANGED callVars
BY DEF Next, vars, callVars, Opendir, ReaddirBreaks, ReaddirSkips, ReaddirReturns, ReaddirEnds,
       Closedir, ForeignCreated, Call

LEMMA XInvInvariance ==
  Spec => []XInv
<1>1. Init => XInv
  BY InitXInv DEF Init
<1>2. XInv /\ [Next]_vars => XInv'
  BY StepOfCalls, CallsXInv, IdleXInv
<1>3. QED
  BY <1>1, <1>2, PTL DEF Spec

-----------------------------------------------------------------------------
(* The objects of the pool and the way of the iterator                     *)

\* The objects there can be have a place, and what looks like the object of a
\* file's first stripe is one, with a name.
LEMMA ObjectsKnown ==
  ASSUME NEW files \in SUBSET Files, NEW others \in SUBSET Foreign
  PROVE  /\ ObjectsOf(files, others) \subseteq ToSet(Order)
         /\ \A o \in ObjectsOf(files, others) : IsFirstStripe(o) => o.name \in Seq(STRING)
<1>1. ObjectsOf(files, others) \subseteq ObjectsOf(Files, Foreign)
  BY DEF ObjectsOf
<1>2. \A f \in Files : f.name \in Seq(STRING)
  BY DirAssumption DEF Files, Paths, getCephFile
<1>3. ASSUME NEW o \in ObjectsOf(files, others), o.suffix = "first"
      PROVE  o.name \in Seq(STRING)
  <2>1. o \notin others
    BY <1>3, DirAssumption
  <2>2. PICK f \in Files : o = Object(f.name, "first") \/ o = Object(f.name, "later")
    BY <1>3, <2>1 DEF ObjectsOf
  <2>3. o.name = f.name
    BY <2>2 DEF Object
  <2>4. QED
    BY <1>2, <2>3
<1>4. QED
  BY <1>1, <1>3, OrderAssumption DEF IsFirstStripe

\* An object is where its place says.
LEMMA PlaceIn ==
  ASSUME NEW o \in ToSet(Order)
  PROVE  PlaceOf(o) \in 1 .. Len(Order) /\ Order[PlaceOf(o)] = o
<1> DEFINE I == {i \in 1 .. Len(Order) : Order[i] = o}
<1>1. Order \in Seq(ToSet(Order)) /\ Len(Order) \in Nat /\ o # Begin /\ o # End
  BY OrderAssumption
<1>2. I # {} /\ I \in SUBSET Nat
  BY <1>1 DEF ToSet
<1>3. Min(I) \in I
  <2> HIDE DEF I
  <2>1. QED
    BY <1>2, SmallestThereIs DEF Min
<1>4. PlaceOf(o) = Min(I)
  BY <1>1, <1>2 DEF PlaceOf, SelectInSeq
<1> HIDE DEF I
<1>5. PlaceOf(o) \in I
  BY <1>3, <1>4
<1>6. QED
  BY <1>5 DEF I

LEMMA PlaceOfEnds ==
  PlaceOf(Begin) = 0 /\ PlaceOf(End) = Len(Order) + 1 /\ Len(Order) \in Nat
BY OrderAssumption DEF PlaceOf

\* Two objects have two places, between those of the beginning and of the end.
LEMMA PlacesDiffer ==
  ASSUME NEW o \in ToSet(Order) \cup {Begin, End}, NEW p \in ToSet(Order) \cup {Begin, End}
  PROVE  /\ PlaceOf(o) \in Nat /\ PlaceOf(p) \in Nat
         /\ PlaceOf(o) = PlaceOf(p) => o = p
         /\ o \in ToSet(Order) => PlaceOf(Begin) < PlaceOf(o) /\ PlaceOf(o) < PlaceOf(End)
<1>1. \A q \in ToSet(Order) : PlaceOf(q) \in 1 .. Len(Order) /\ Order[PlaceOf(q)] = q
  BY PlaceIn
<1>2. PlaceOf(Begin) = 0 /\ PlaceOf(End) = Len(Order) + 1 /\ Len(Order) \in Nat
  BY PlaceOfEnds
<1>3. QED
  BY <1>1, <1>2

DirTypes ==
  /\ outside \subseteq Foreign
  /\ dir \in {"none", "open", "ended", "closed", "broken"}
  /\ cursor \in ToSet(Order) \cup {Begin, End}
  /\ entries \in Seq(ToSet(Order))
  /\ shown \in Seq(STRING)
  /\ lasting \subseteq since
  /\ since \subseteq ToSet(Order)
  /\ \A o \in since : IsFirstStripe(o) => o.name \in Seq(STRING)

\* The iterator is at an object there was, or at the end.
CursorSeen == dir \in {"open", "ended"} => cursor \in since \cup {End}

\* The entries are of files, in the order of the iterator, and behind it.
EntriesBehind ==
  dir \in {"open", "ended"} =>
    /\ \A i \in 1 .. Len(entries) :
         entries[i] \in since /\ IsFirstStripe(entries[i]) /\ PlaceOf(entries[i]) < PlaceOf(cursor)
    /\ \A i, j \in 1 .. Len(entries) : i < j => PlaceOf(entries[i]) < PlaceOf(entries[j])

\* No file that was there all the time is behind it without an entry.
NoneMissed ==
  dir \in {"open", "ended"} =>
    \A o \in lasting : IsFirstStripe(o) /\ PlaceOf(o) < PlaceOf(cursor) =>
      \E i \in 1 .. Len(entries) : entries[i] = o

\* A listing has ended at the end, or at a name that reads as the end: one of
\* a single character, or any in a buffer that has room for the zero only.
EndedAtEnd ==
  /\ dir = "none" => entries = <<>>
  /\ dir = "ended" => cursor = End \/ ~Shortest(since, 2) \/ BufferSize = 1

\* The inductive invariant of the listing, with that of the calls.
DInv == XInv /\ DirTypes /\ CursorSeen /\ EntriesBehind /\ NoneMissed /\ EndedAtEnd

\* What a step of somebody else leaves of the directory: the file objects that
\* come and go change the histories only.
LEMMA NotedTypes ==
  ASSUME XInv, XInv', DirTypes, outside' \subseteq Foreign, Noted, UNCHANGED <<dir, cursor, entries, shown>>
  PROVE  DirTypes' /\ since \subseteq since' /\ lasting' \subseteq lasting
<1> DEFINE objects == ObjectsOf(stored', outside')
<1>1. /\ objects \subseteq ToSet(Order)
      /\ \A o \in objects : IsFirstStripe(o) => o.name \in Seq(STRING)
  <2>1. stored' \in SUBSET Files /\ outside' \in SUBSET Foreign
    BY DEF XInv, CallsTypeOK
  <2>2. QED
    BY <2>1, ObjectsKnown
<1>2. /\ lasting' = IF dir = "open" THEN lasting \cap objects ELSE lasting
      /\ since' = IF dir = "open" THEN since \cup objects ELSE since
  BY DEF Noted
<1> HIDE DEF objects
<1>3. /\ since \subseteq since' /\ lasting' \subseteq lasting /\ lasting' \subseteq since'
      /\ since' \subseteq ToSet(Order)
      /\ \A o \in since' : IsFirstStripe(o) => o.name \in Seq(STRING)
  BY <1>1, <1>2 DEF DirTypes
<1>4. QED
  BY <1>3 DEF DirTypes, IsFirstStripe
LEMMA NotedDInv ==
  ASSUME DInv, XInv', outside' \subseteq Foreign, Noted, UNCHANGED <<dir, cursor, entries, shown>>
  PROVE  DInv'
<1>1. /\ DirTypes' /\ since \subseteq since' /\ lasting' \subseteq lasting
      /\ dir' = dir /\ cursor' = cursor /\ entries' = entries
      /\ DirTypes /\ CursorSeen /\ EntriesBehind /\ NoneMissed /\ EndedAtEnd
  BY NotedTypes DEF DInv
<1>2. dir = "ended" => since' = since
  BY DEF Noted
<1>3. CursorSeen'
  BY <1>1 DEF CursorSeen
<1>4. EntriesBehind'
  BY <1>1 DEF EntriesBehind
<1>5. NoneMissed'
  BY <1>1 DEF NoneMissed
<1>6. EndedAtEnd'
  BY <1>1, <1>2 DEF EndedAtEnd, Shortest, IsFirstStripe
<1>7. QED
  BY <1>1, <1>3, <1>4, <1>5, <1>6 DEF DInv

\* Where the iterator may go from an object o: behind it, and not behind what
\* was there all the time and is not.
LEMMA WayFrom ==
  ASSUME NEW all \in SUBSET ToSet(Order), NEW some \in SUBSET ToSet(Order),
         NEW o \in ToSet(Order) \cup {Begin, End}, NEW p \in Beyond(o, all, some)
  PROVE  /\ p \in some \cup {End}
         /\ PlaceOf(o) \in Nat /\ PlaceOf(p) \in Nat /\ PlaceOf(o) < PlaceOf(p)
         /\ \A q \in all : PlaceOf(q) < PlaceOf(p) => PlaceOf(q) < PlaceOf(o) \/ q = o
<1>1. /\ p \in some \cup {End}
      /\ PlaceOf(o) < PlaceOf(p)
      /\ \A q \in all : ~(PlaceOf(o) < PlaceOf(q) /\ PlaceOf(q) < PlaceOf(p))
  BY DEF Beyond
<1>2. PlaceOf(o) \in Nat /\ PlaceOf(p) \in Nat
  BY <1>1, PlacesDiffer
<1>3. ASSUME NEW q \in all, PlaceOf(q) < PlaceOf(p)
      PROVE  PlaceOf(q) < PlaceOf(o) \/ q = o
  <2>1. PlaceOf(q) \in Nat /\ (PlaceOf(q) = PlaceOf(o) => q = o)
    BY PlacesDiffer
  <2>2. QED
    BY <1>1, <1>2, <1>3, <2>1
<1>4. QED
  BY <1>1, <1>2, <1>3

LEMMA OpendirDInv ==
  ASSUME DInv, XInv', Opendir
  PROVE  DInv'
<1>1. /\ Objects \subseteq ToSet(Order)
      /\ \A o \in Objects : IsFirstStripe(o) => o.name \in Seq(STRING)
  BY ObjectsKnown DEF DInv, XInv, CallsTypeOK, DirTypes, Objects
<1>2. /\ dir' = "open" /\ lasting' = Objects /\ since' = Objects /\ outside' = outside
      /\ entries' = entries /\ shown' = shown /\ entries = <<>>
      /\ cursor' \in Beyond(Begin, Objects, Objects)
  BY DEF Opendir, DInv, EndedAtEnd
<1>3. cursor' \in Objects \cup {End}
  BY <1>2 DEF Beyond
<1>4. \A o \in Objects : ~(PlaceOf(o) < PlaceOf(cursor'))
  <2>1. ASSUME NEW o \in Objects
        PROVE  o # Begin /\ ~(PlaceOf(o) < PlaceOf(Begin))
    BY <1>1, OrderAssumption, PlacesDiffer
  <2>2. \A o \in Objects : PlaceOf(o) < PlaceOf(cursor') => PlaceOf(o) < PlaceOf(Begin) \/ o = Begin
    BY <1>1, <1>2, WayFrom
  <2>3. QED
    BY <2>1, <2>2
<1>5. DirTypes'
  BY <1>1, <1>2, <1>3 DEF DInv, DirTypes, IsFirstStripe
<1>6. CursorSeen'
  BY <1>2, <1>3 DEF CursorSeen
<1>7. EntriesBehind'
  BY <1>2 DEF EntriesBehind
<1>8. NoneMissed'
  BY <1>2, <1>4 DEF NoneMissed
<1>9. EndedAtEnd'
  BY <1>2 DEF EndedAtEnd
<1>10. QED
  BY <1>5, <1>6, <1>7, <1>8, <1>9 DEF DInv

\* The entries there are stay behind an iterator that advances.
LEMMA SkipDInv ==
  ASSUME DInv, XInv', ReaddirSkips
  PROVE  DInv'
<1>1. /\ DirTypes /\ CursorSeen /\ EntriesBehind /\ NoneMissed /\ dir = "open" /\ cursor # End
      /\ cursor \in since /\ since \subseteq ToSet(Order) /\ lasting \subseteq ToSet(Order)
      /\ entries \in Seq(ToSet(Order))
  BY DEF DInv, ReaddirSkips, CursorSeen, DirTypes
<1>2. /\ UNCHANGED <<outside, dir, entries, shown, lasting, since>> /\ ~IsFirstStripe(cursor)
      /\ cursor' \in Beyond(cursor, lasting, since)
  BY DEF ReaddirSkips, Advance
<1>3. /\ cursor' \in since \cup {End}
      /\ PlaceOf(cursor) \in Nat /\ PlaceOf(cursor') \in Nat /\ PlaceOf(cursor) < PlaceOf(cursor')
      /\ \A q \in lasting : PlaceOf(q) < PlaceOf(cursor') => PlaceOf(q) < PlaceOf(cursor) \/ q = cursor
  BY <1>1, <1>2, WayFrom
<1>4. DirTypes'
  BY <1>1, <1>2, <1>3 DEF DirTypes, IsFirstStripe
<1>5. CursorSeen'
  BY <1>2, <1>3 DEF CursorSeen
<1>6. EntriesBehind'
  <2>1. ASSUME NEW i \in 1 .. Len(entries)
        PROVE  /\ entries[i] \in since /\ IsFirstStripe(entries[i])
               /\ PlaceOf(entries[i]) < PlaceOf(cursor')
    <3>1. /\ entries[i] \in since /\ IsFirstStripe(entries[i])
          /\ PlaceOf(entries[i]) < PlaceOf(cursor)
      BY <1>1 DEF EntriesBehind
    <3>2. PlaceOf(entries[i]) \in Nat
      BY <1>1, <3>1, PlacesDiffer
    <3>3. QED
      BY <1>3, <3>1, <3>2
  <2>2. \A i, j \in 1 .. Len(entries) : i < j => PlaceOf(entries[i]) < PlaceOf(entries[j])
    BY <1>1 DEF EntriesBehind
  <2>3. QED
    BY <1>2, <2>1, <2>2 DEF EntriesBehind
<1>7. NoneMissed'
  <2>1. ASSUME NEW o \in lasting, IsFirstStripe(o), PlaceOf(o) < PlaceOf(cursor')
        PROVE  \E i \in 1 .. Len(entries) : entries[i] = o
    BY <1>1, <1>2, <1>3, <2>1 DEF NoneMissed
  <2>2. QED
    BY <1>2, <2>1 DEF NoneMissed
<1>8. EndedAtEnd'
  BY <1>1, <1>2 DEF EndedAtEnd
<1>9. QED
  BY <1>4, <1>5, <1>6, <1>7, <1>8 DEF DInv
\* A name that reads as the end is one of a single character at most.
LEMMA ShownAsEnd ==
  ASSUME NEW name \in Seq(STRING)
  PROVE  /\ Shown(name) \in Seq(STRING)
         /\ Shown(name) = <<>> => Len(name) < 2 \/ BufferSize = 1
<1> DEFINE blen == IF Len(name) < BufferSize THEN Len(name) ELSE BufferSize
<1>1. /\ blen \in Nat /\ 1 \in Int /\ blen - 1 \in Int /\ blen <= Len(name) /\ Len(name) \in Nat
      /\ (Len(name) >= 2 /\ BufferSize # 1 => blen >= 2)
  BY DirAssumption
<1>2. \A i \in 1 .. blen - 1 : name[i] \in STRING
  BY <1>1
<1> HIDE DEF blen
<1>3. /\ SubSeq(name, 1, blen - 1) \in Seq(STRING)
      /\ Len(SubSeq(name, 1, blen - 1)) = IF 1 <= blen - 1 THEN blen - 1 - 1 + 1 ELSE 0
  BY <1>1, <1>2, SubSeqProperties
<1>4. SubSeq(name, 1, blen - 1) = <<>> => Len(name) < 2 \/ BufferSize = 1
  BY <1>1, <1>3
<1>5. Shown(name) = SubSeq(name, 1, blen - 1)
  BY DEF Shown, blen
<1>6. QED
  BY <1>3, <1>4, <1>5

\* The object that is returned is the last entry, and the iterator passes it.
LEMMA ReturnDInv ==
  ASSUME DInv, XInv', ReaddirReturns
  PROVE  DInv'
<1>1. /\ DirTypes /\ CursorSeen /\ EntriesBehind /\ NoneMissed /\ dir = "open" /\ cursor # End
      /\ cursor \in since /\ since \subseteq ToSet(Order) /\ lasting \subseteq ToSet(Order)
      /\ entries \in Seq(ToSet(Order)) /\ Len(entries) \in Nat /\ cursor \in ToSet(Order)
  BY DEF DInv, ReaddirReturns, CursorSeen, DirTypes
<1>2. /\ UNCHANGED <<outside, lasting, since>> /\ IsFirstStripe(cursor)
      /\ entries' = Append(entries, cursor)
      /\ shown' = Shown(cursor.name) /\ dir' = (IF shown' = <<>> THEN "ended" ELSE "open")
      /\ cursor' \in Beyond(cursor, lasting, since)
  BY DEF ReaddirReturns, Advance
<1>3. /\ cursor' \in since \cup {End}
      /\ PlaceOf(cursor) \in Nat /\ PlaceOf(cursor') \in Nat /\ PlaceOf(cursor) < PlaceOf(cursor')
      /\ \A q \in lasting : PlaceOf(q) < PlaceOf(cursor') => PlaceOf(q) < PlaceOf(cursor) \/ q = cursor
  BY <1>1, <1>2, WayFrom
<1>4. /\ entries' \in Seq(ToSet(Order)) /\ Len(entries') = Len(entries) + 1
      /\ \A i \in 1 .. Len(entries) : entries'[i] = entries[i]
      /\ entries'[Len(entries) + 1] = cursor
  BY <1>1, <1>2, AppendProperties
<1>5. cursor.name \in Seq(STRING)
  BY <1>1, <1>2 DEF DirTypes
<1>6. shown' \in Seq(STRING) /\ (shown' = <<>> => Len(cursor.name) < 2 \/ BufferSize = 1)
  BY <1>2, <1>5, ShownAsEnd
<1>7. DirTypes'
  <2>1. dir' \in {"none", "open", "ended", "closed", "broken"}
    BY <1>2
  <2>2. cursor' \in ToSet(Order) \cup {Begin, End}
    BY <1>1, <1>3
  <2>3. QED
    BY <1>1, <1>2, <1>4, <1>6, <2>1, <2>2 DEF DirTypes
<1>8. CursorSeen'
  BY <1>2, <1>3 DEF CursorSeen
<1>9. EntriesBehind'
  <2>1. ASSUME NEW i \in 1 .. Len(entries)
        PROVE  /\ entries[i] \in since /\ IsFirstStripe(entries[i])
               /\ PlaceOf(entries[i]) \in Nat /\ PlaceOf(entries[i]) < PlaceOf(cursor)
    <3>1. /\ entries[i] \in since /\ IsFirstStripe(entries[i])
          /\ PlaceOf(entries[i]) < PlaceOf(cursor)
      BY <1>1 DEF EntriesBehind
    <3>2. QED
      BY <1>1, <3>1, PlacesDiffer
  <2>2. ASSUME NEW i \in 1 .. Len(entries')
        PROVE  /\ entries'[i] \in since /\ IsFirstStripe(entries'[i])
               /\ PlaceOf(entries'[i]) < PlaceOf(cursor')
    <3>1. CASE i \in 1 .. Len(entries)
      BY <1>3, <1>4, <2>1, <3>1
    <3>2. CASE i = Len(entries) + 1
      BY <1>1, <1>2, <1>3, <1>4, <3>2
    <3>3. QED
      BY <1>1, <1>4, <3>1, <3>2
  <2>3. ASSUME NEW i \in 1 .. Len(entries'), NEW j \in 1 .. Len(entries'), i < j
        PROVE  PlaceOf(entries'[i]) < PlaceOf(entries'[j])
    <3>1. i \in 1 .. Len(entries) /\ (j \in 1 .. Len(entries) \/ j = Len(entries) + 1)
      BY <1>1, <1>4, <2>3
    <3>2. CASE j \in 1 .. Len(entries)
      BY <1>1, <1>4, <2>3, <3>1, <3>2 DEF EntriesBehind
    <3>3. CASE j = Len(entries) + 1
      BY <1>4, <2>1, <3>1, <3>3
    <3>4. QED
      BY <3>1, <3>2, <3>3
  <2>4. QED
    BY <1>2, <2>2, <2>3 DEF EntriesBehind
<1>10. NoneMissed'
  <2>1. ASSUME NEW o \in lasting, IsFirstStripe(o), PlaceOf(o) < PlaceOf(cursor')
        PROVE  \E i \in 1 .. Len(entries') : entries'[i] = o
    <3>1. CASE o = cursor
      BY <1>1, <1>4, <3>1
    <3>2. CASE PlaceOf(o) < PlaceOf(cursor)
      <4>1. PICK i \in 1 .. Len(entries) : entries[i] = o
        BY <1>1, <2>1, <3>2 DEF NoneMissed
      <4>2. i \in 1 .. Len(entries')
        BY <1>1, <1>4
      <4>3. QED
        BY <1>4, <4>1, <4>2
    <3>3. QED
      BY <1>3, <2>1, <3>1, <3>2
  <2>2. QED
    BY <1>2, <2>1 DEF NoneMissed
<1>11. EndedAtEnd'
  <2>1. dir' = "ended" => ~Shortest(since, 2) \/ BufferSize = 1
    <3>1. ASSUME dir' = "ended", Len(cursor.name) >= 2, BufferSize # 1
          PROVE  FALSE
      BY <1>2, <1>5, <1>6, <3>1
    <3>2. Len(cursor.name) \in Nat
      BY <1>5
    <3>3. QED
      BY <1>1, <1>2, <3>1, <3>2 DEF Shortest
  <2>2. QED
    BY <1>2, <2>1 DEF EndedAtEnd
<1>12. QED
  BY <1>7, <1>8, <1>9, <1>10, <1>11 DEF DInv

\* The other calls of the directory leave the entries and the iterator, or
\* close it.
LEMMA OtherDInv ==
  ASSUME DInv, XInv', ReaddirBreaks \/ ReaddirEnds \/ Closedir
  PROVE  DInv'
<1>0. DirTypes /\ CursorSeen /\ EntriesBehind /\ NoneMissed /\ EndedAtEnd
  BY DEF DInv
<1>1. CASE ReaddirBreaks
  <2>1. dir' = "broken" /\ UNCHANGED <<outside, cursor, entries, shown, lasting, since>>
    BY <1>1 DEF ReaddirBreaks
  <2>2. QED
    BY <1>0, <2>1 DEF DInv, DirTypes, CursorSeen, EntriesBehind, NoneMissed, EndedAtEnd, IsFirstStripe
<1>2. CASE ReaddirEnds
  <2>1. /\ dir = "open" /\ dir' = "ended" /\ cursor = End /\ shown' = <<>>
        /\ UNCHANGED <<outside, cursor, entries, lasting, since>>
    BY <1>2 DEF ReaddirEnds
  <2>2. DirTypes'
    BY <1>0, <2>1 DEF DirTypes, IsFirstStripe
  <2>3. CursorSeen' /\ EntriesBehind'
    BY <1>0, <2>1 DEF CursorSeen, EntriesBehind
  <2>4. NoneMissed' /\ EndedAtEnd'
    BY <1>0, <2>1 DEF NoneMissed, EndedAtEnd
  <2>5. QED
    BY <2>2, <2>3, <2>4 DEF DInv
<1>3. CASE Closedir
  <2>1. /\ dir' = "closed" /\ cursor' = Begin /\ entries' = <<>> /\ shown' = <<>>
        /\ lasting' = {} /\ since' = {} /\ outside' = outside
    BY <1>3 DEF Closedir
  <2>2. QED
    BY <1>0, <2>1 DEF DInv, DirTypes, CursorSeen, EntriesBehind, NoneMissed, EndedAtEnd
<1>4. QED
  BY <1>1, <1>2, <1>3

LEMMA InitDInv ==
  Init => DInv
<1> SUFFICES ASSUME Init PROVE DInv
  OBVIOUS
<1>1. XInv
  BY InitXInv DEF Init
<1>2. QED
  BY <1>1 DEF Init, DInv, DirTypes, CursorSeen, EntriesBehind, NoneMissed, EndedAtEnd

LEMMA NextDInv ==
  ASSUME DInv, [Next]_vars
  PROVE  DInv'
<1>0. XInv' /\ outside \subseteq Foreign
  BY StepOfCalls, CallsXInv, IdleXInv DEF DInv, DirTypes
<1>1. CASE Opendir
  BY <1>0, <1>1, OpendirDInv
<1>2. CASE ReaddirSkips
  BY <1>0, <1>2, SkipDInv
<1>3. CASE ReaddirReturns
  BY <1>0, <1>3, ReturnDInv
<1>4. CASE ReaddirBreaks \/ ReaddirEnds \/ Closedir
  BY <1>0, <1>4, OtherDInv
<1>5. CASE ForeignCreated
  <2>1. outside' \subseteq Foreign /\ UNCHANGED <<dir, cursor, entries, shown>> /\ Noted
    BY <1>0, <1>5 DEF ForeignCreated
  <2>2. QED
    BY <1>0, <2>1, NotedDInv
<1>6. CASE Call
  <2>1. outside' \subseteq Foreign /\ UNCHANGED <<dir, cursor, entries, shown>> /\ Noted
    BY <1>0, <1>6 DEF Call
  <2>2. QED
    BY <1>0, <2>1, NotedDInv
<1>7. CASE UNCHANGED vars
  BY <1>0, <1>7 DEF vars, dirVars, DInv, DirTypes, CursorSeen, EntriesBehind, NoneMissed, EndedAtEnd,
                    Shortest, IsFirstStripe
<1>8. QED
  BY <1>1, <1>2, <1>3, <1>4, <1>5, <1>6, <1>7 DEF Next

\* At the end, the entries are complete and none is there twice.
LEMMA CompleteAtEnd ==
  BufferSize > 1 /\ DInv => ListingComplete
<1> SUFFICES ASSUME BufferSize > 1, DInv, dir = "ended", Shortest(since, 2)
             PROVE  /\ \A o \in lasting : o.suffix = "first" =>
                         Cardinality({i \in 1 .. Len(entries) : entries[i] = o}) = 1
                    /\ \A i \in 1 .. Len(entries) : entries[i] \in since /\ entries[i].suffix = "first"
  BY DEF ListingComplete
<1>1. cursor = End /\ DirTypes /\ EntriesBehind /\ NoneMissed
  BY DEF DInv, EndedAtEnd
<1>2. ASSUME NEW o \in lasting, o.suffix = "first"
      PROVE  Cardinality({i \in 1 .. Len(entries) : entries[i] = o}) = 1
  <2>1. o \in ToSet(Order) /\ PlaceOf(o) \in Nat /\ PlaceOf(o) < PlaceOf(End)
    BY <1>1, PlacesDiffer DEF DirTypes
  <2>2. PICK i \in 1 .. Len(entries) : entries[i] = o
    BY <1>1, <1>2, <2>1 DEF NoneMissed, IsFirstStripe
  <2>3. ASSUME NEW j \in 1 .. Len(entries), entries[j] = o
        PROVE  j = i
    <3>1. ~(PlaceOf(o) < PlaceOf(o))
      BY <2>1
    <3>2. ~(i < j) /\ ~(j < i)
      BY <1>1, <2>2, <2>3, <3>1 DEF EntriesBehind
    <3>3. QED
      BY <3>2
  <2>4. {j \in 1 .. Len(entries) : entries[j] = o} = {i}
    BY <2>2, <2>3
  <2>5. QED
    BY <2>4, FS_Singleton
<1>3. \A i \in 1 .. Len(entries) : entries[i] \in since /\ entries[i].suffix = "first"
  BY <1>1 DEF EntriesBehind, IsFirstStripe
<1>4. QED
  BY <1>2, <1>3
LEMMA DInvInvariance ==
  Spec => []DInv
BY InitDInv, NextDInv, PTL DEF Spec

-----------------------------------------------------------------------------
(* The theorems of the listing                                             *)

\* Every variable has its type in every state: in particular the descriptors
\* stay within the table, List and Get give names, sizes and values that are
\* ones, and the iterator is at an object that can be in the pool.
THEOREM ListingTypes ==
  Spec => []TypeOK
<1>1. DInv => TypeOK
  BY DEF DInv, XInv, DirTypes, TypeOK
<1>2. QED
  BY <1>1, DInvInvariance, PTL

\* When the framework is told that a listing has ended, each file that was in
\* the pool all the time has had one entry, and nothing but a file has had one,
\* whatever others write, remove and put into the pool meanwhile; as long as
\* the framework's buffer has room for more than the zero, without which every
\* name reads as the end.
THEOREM ListingsAreComplete ==
  ASSUME BufferSize > 1
  PROVE  Spec => []ListingComplete
<1>1. DInv => ListingComplete
  BY CompleteAtEnd
<1>2. QED
  BY <1>1, DInvInvariance, PTL
=============================================================================
