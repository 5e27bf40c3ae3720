------------------------------ MODULE CephDir -------------------------------
(***************************************************************************)
(* Listing a pool: XrdCephOssDir::Opendir, Readdir and Close, while the    *)
(* calls of CephXAttr write and remove files, and others put objects of    *)
(* their own into the pool.                                                *)
(*                                                                         *)
(* A file is kept as objects named after it and numbered by stripe, so a   *)
(* listing shows those that end in the number of the first stripe.  The    *)
(* iterator walks over the objects in an order of the store's, asking for  *)
(* more as it goes.  A step is one call of the directory, or one step of   *)
(* the iterator.                                                           *)
(***************************************************************************)
EXTENDS CephXAttr

CONSTANTS
  Listed,       \* the pool that is listed
  Order,        \* the objects that can be in it, in the order of the iterator
  Striped,      \* the names of files of more than one stripe
  Foreign,      \* objects that others may put into the pool
  BufferSize,   \* the length of the buffer for a name
  Begin, End    \* before the first object, and behind the last

\* An object: the text before the last 17 characters of its name, and whether
\* these number the first stripe, another one, or are something else.  A name
\* that does not have 17 characters is "short".
Object(name, suffix) == [name |-> name, suffix |-> suffix]
ObjectKinds == {"first", "later", "other", "short"}

ASSUME DirAssumption ==
  /\ Listed \in Pools
  /\ BufferSize \in Nat \ {0}
  /\ \A o \in Foreign : o.suffix \in ObjectKinds \ {"first"}
  /\ {path.name : path \in Paths} \subseteq Seq(STRING)

VARIABLES
  outside,    \* the objects that others have put into the pool
  dir,        \* none; open; ended: the framework was told so; closed; broken
  cursor,     \* the object that the iterator is at
  entries,    \* the objects whose names were returned
  shown,      \* what the framework was given in its buffer last
  lasting,    \* history: the objects in the pool ever since opendir
  since       \* history: the objects in the pool at some time since opendir

dirVars == <<outside, dir, cursor, entries, shown, lasting, since>>
vars == <<callVars, dirVars>>

\* The objects of the files in the pool, and those of others.
ObjectsOf(files, others) ==
  LET names == {f.name : f \in {f \in files : f.pool = Listed}}
  IN  {Object(n, "first") : n \in names}
      \cup {Object(n, "later") : n \in names \cap Striped} \cup others
Objects == ObjectsOf(stored, outside)

ASSUME OrderAssumption ==
  /\ Order \in Seq(ToSet(Order))
  /\ ObjectsOf(Files, Foreign) \subseteq ToSet(Order)
  /\ {Begin, End} \cap ToSet(Order) = {} /\ Begin # End

-----------------------------------------------------------------------------
(* The iterator.  An object that is there from the opendir until the        *)
(* iterator passes it is found; one that comes or goes meanwhile may be.    *)

PlaceOf(o) == IF o = Begin THEN 0 ELSE IF o = End THEN Len(Order) + 1
              ELSE SelectInSeq(Order, LAMBDA x : x = o)

\* Where the iterator may be after a step from o, with these histories.
Beyond(o, everThere, someTime) ==
  {p \in someTime \cup {End} :
     /\ PlaceOf(o) < PlaceOf(p)
     /\ \A q \in everThere : ~(PlaceOf(o) < PlaceOf(q) /\ PlaceOf(q) < PlaceOf(p))}

Advance == cursor' \in Beyond(cursor, lasting, since)

-----------------------------------------------------------------------------
Opendir ==
  /\ dir = "none"
  /\ dir' = "open"
  /\ lasting' = Objects
  /\ since' = Objects
  /\ cursor' \in Beyond(Begin, Objects, Objects)
  /\ UNCHANGED <<callVars, outside, entries, shown>>

suffixOfAnyStripe(o) == o.suffix \in {"first", "later"}

\* The last 17 characters of the name are ".0000000000000000".
IsFirstStripe(o) == o.suffix = "first"

\* The first name there is, in the iterator's own object, is looked at before
\* the iterator is compared with the end; taking 17 characters off a shorter
\* one throws, and so does taking them off none.  A name that is nothing but
\* the number of its stripe is copied to a buffer of no size.
Breaks ==
  \/ cursor = End /\ since = {}
  \/ cursor # End /\ cursor.suffix = "short"
  \/ cursor # End /\ IsFirstStripe(cursor) /\ cursor.name = <<>>

ReaddirBreaks ==
  /\ dir = "open"
  /\ Breaks
  /\ dir' = "broken"
  /\ UNCHANGED <<callVars, outside, cursor, entries, shown, lasting, since>>

ReaddirSkips ==
  /\ dir = "open"
  /\ cursor # End
  /\ ~Breaks
  /\ ~IsFirstStripe(cursor)
  /\ Advance
  /\ UNCHANGED <<callVars, outside, dir, entries, shown, lasting, since>>

\* The name without its last character, which makes room for the zero, or as
\* much of it as the buffer takes.  To the framework an empty name is the end.
Shown(name) ==
  LET blen == IF Len(name) < BufferSize THEN Len(name) ELSE BufferSize
  IN  SubSeq(name, 1, blen - 1)

ReaddirReturns ==
  /\ dir = "open"
  /\ cursor # End
  /\ ~Breaks
  /\ IsFirstStripe(cursor)
  /\ entries' = Append(entries, cursor)
  /\ shown' = Shown(cursor.name)
  /\ dir' = IF shown' = <<>> THEN "ended" ELSE "open"
  /\ Advance
  /\ UNCHANGED <<callVars, outside, lasting, since>>

ReaddirEnds ==
  /\ dir = "open"
  /\ cursor = End
  /\ ~Breaks
  /\ shown' = <<>>
  /\ dir' = "ended"
  /\ UNCHANGED <<callVars, outside, cursor, entries, lasting, since>>

Closedir ==
  /\ dir \in {"open", "ended"}
  /\ dir' = "closed"
  /\ cursor' = Begin
  /\ entries' = <<>>
  /\ shown' = <<>>
  /\ lasting' = {}
  /\ since' = {}
  /\ UNCHANGED <<callVars, outside>>

-----------------------------------------------------------------------------
(* What the others do to the pool                                          *)

\* The histories, from the objects there will be after the step.
Noted ==
  LET objects == ObjectsOf(stored', outside')
  IN  /\ lasting' = IF dir = "open" THEN lasting \cap objects ELSE lasting
      /\ since' = IF dir = "open" THEN since \cup objects ELSE since

ForeignCreated == \E o \in Foreign \ outside :
  /\ outside' = outside \cup {o}
  /\ UNCHANGED <<callVars, dir, cursor, entries, shown>>
  /\ Noted

Call ==
  /\ dir # "broken"
  /\ CallsNext
  /\ UNCHANGED <<outside, dir, cursor, entries, shown>>
  /\ Noted

-----------------------------------------------------------------------------
Init ==
  /\ CallsInit
  /\ outside = {}
  /\ dir = "none"
  /\ cursor = Begin
  /\ entries = <<>>
  /\ shown = <<>>
  /\ lasting = {}
  /\ since = {}

Next ==
  \/ Opendir \/ ReaddirBreaks \/ ReaddirSkips \/ ReaddirReturns \/ ReaddirEnds \/ Closedir
  \/ ForeignCreated
  \/ Call

Spec == Init /\ [][Next]_vars

-----------------------------------------------------------------------------
(* Properties                                                              *)

TypeOK ==
  /\ CallsTypeOK
  /\ outside \subseteq Foreign
  /\ dir \in {"none", "open", "ended", "closed", "broken"}
  /\ cursor \in ToSet(Order) \cup {Begin, End}
  /\ entries \in Seq(ToSet(Order))
  /\ shown \in Seq(STRING)
  /\ lasting \subseteq since
  /\ since \subseteq ToSet(Order)

Shortest(objects, n) == \A o \in objects : IsFirstStripe(o) => Len(o.name) >= n

\* Each file in the pool from the opendir on has had exactly one entry by the
\* time the framework is told that the listing has ended, and nothing has one
\* that was not a file, whatever came and went meanwhile; as long as no file
\* has a name of a single character, which reads as the end.
ListingComplete ==
  dir = "ended" /\ Shortest(since, 2) =>
    /\ \A o \in lasting : o.suffix = "first" =>
         Cardinality({i \in 1 .. Len(entries) : entries[i] = o}) = 1
    /\ \A i \in 1 .. Len(entries) : entries[i] \in since /\ entries[i].suffix = "first"
=============================================================================
