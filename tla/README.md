# A TLA+ model of the XRootD plug-in for Ceph

The repository is an XRootD storage plug-in (`XrdCephOss` and `XrdCephXAttr`)
that keeps every file as one striped object of a Ceph pool, through
`libradosstriper`.  The framework calls it from many threads; `librados` calls
it back from threads of its own.  What makes the code hard is less any one
function than that these threads meet in a few global tables of
`src/XrdCeph/XrdCephPosix.cc`.  This directory models those tables, the calls
that use them, and the parsers that decide which file a call is about, checks
them with TLC, and proves the safety properties and refinements that hold, for
every value of the constants.  Where a comment says what the code does not do,
and it takes an interleaving to see that, a run shows how it comes about.

Line numbers below are those of `src/XrdCeph/XrdCephPosix.cc` unless another
file is named.

## 1. The system

| part | state | operations | who meets there |
|---|---|---|---|
| table of open files | `g_fds`, `g_filesOpenForWrite`, `g_nextCephFd` (122-128), all under `g_fd_mutex`; `m_fd` in each `XrdCephOssFile` | `getFileRef`, `isOpenForWrite`, `insertFileRef`, `deleteFileRef`; called by open, close, stat and all calls on a descriptor | threads of the framework, callbacks of `librados` |
| transfers at an offset | counters of a `CephFileRef` (66-80), under its `statsMutex` | `ceph_posix_pread`, `_pwrite`, `ceph_aio_read`, `ceph_aio_write`, the completions 810-838 and 933-952, `ceph_posix_close` | the caller, the callback, the thread that closes |
| pool of connections | `g_radosStripers`, `g_ioCtx`, `g_cluster` (104-108), `g_cephPoolIdx`, two mutexes | `getCephPoolIdxAndIncrease`, `checkAndCreateCluster`, `checkAndCreateStriper`, `getRadosStriper`, `getIoCtx`, statfs, `ceph_posix_disconnect_all` | every call that talks to the store, some of them with the mutex and some without |
| transfers at the descriptor's offset | `CephFileRef::offset` | `ceph_posix_read`, `_write`, `_lseek`, `_lseek64` | nobody in the plug-in; users of `XrdCephPosix.hh` |
| file parameters | `g_defaultParams` | `fillCephFile` and the `fillCeph*` (255-430), `ceph_posix_set_defaults` | both plug-ins, which set the one default; every call that takes a path |
| extended attributes | none of their own | `XrdCephXAttr::{Del,Free,Get,List,Set}`, 1075-1225 | other calls on the same file, by descriptor or by path |
| directory listing | an iterator per `XrdCephOssDir` | `opendir`, `readdir`, `closedir` (1282-1323) | whoever writes and removes files of the pool, or puts other objects there |
| configuration | `g_maxCephPoolIdx`, `g_namelib` | `XrdOssGetStorageSystem`, `XrdSysGetXAttrObject`, `XrdCephOss::Configure` | the two plug-ins, loaded one after the other |

How they interact.  `XrdCephOss` and `XrdCephOssFile` are thin: they catch the
exceptions of the parameter parser and call the functions of
`XrdCephPosix.cc`.  A call on a path parses it, takes a striper from the pool,
and makes one request to the store.  An open puts a `CephFileRef` into the
table; later calls find it by descriptor, by a pointer that nothing protects
but the framework's promise not to close before all calls are complete
(170-172).  An asynchronous call takes a striper from the pool under
`g_striper_mutex`, then a connection without it, and hands the request to the
store, which calls back with the descriptor, from which the callback finds the
file reference again.

What makes each part correct.

* Table: the multiset of names open for write agrees with the table; a
  descriptor reaches the file it was opened for, or none; nothing stays in the
  table that nobody can close; a stat does not miss a file open for write.
* Transfers: nobody uses a file reference that close has erased; the counters
  come right whatever the order of completions; the framework is told what the
  store did, once, for every request the store took.
* Pool: indices stay in the pool; both dictionaries have the same keys; no
  connection is deleted twice.  Three more would be needed and are not so: the
  vectors are complete when they are indexed, no connection is lost, and no
  striper stands on a deleted one.
* Transfers at the descriptor's offset: a thread that has a descriptor to itself
  sees a position that each call moves at once; what threads that share one
  cannot lose.
* Parameters and configuration: a path means what the documentation says, with
  the defaults of either plug-in; a striper serves the file it was made for; an
  error leaves what was set before it.
* Attributes: a call with a descriptor is about the file it was opened on, and a
  list names the attributes of the file and gives their size to who asks.  None
  of these is so (`ListSubject`, `PathSubject`, `Copied` and `List` of `CephXAttr`).
* Listing: every file that was there throughout has one entry, nothing else has.

`PROJECT.json` lists the hazards line by line, each with the properties aimed
at it, or with the reason why there are none.

## 2. Modules

| module | models | extends |
|---|---|---|
| `OpenFiles` | what the table promises: each file object has at most one open file, the store holds names, a stat asks who has a name open for write. No descriptors, no tables | |
| `CephFileTable` | the table of open files and open, close, stat, unlink, write | `OpenFiles` is instantiated as `Promise` with the mapping `OpenOf` |
| `CephStatHistory` | the same with two history variables about the name a stat asks for | `CephFileTable` |
| `CephFileTable_proofs` | theorems | `CephFileTable` |
| `CephStatHistory_proofs` | theorem | `CephStatHistory`, `CephFileTable_proofs` |
| `CephAio` | the four transfers, the two completions, close | |
| `CephAio_proofs` | theorems | `CephAio`, `FiniteSums` |
| `CephPool` | the pool | |
| `CephPool_proofs` | theorems | `CephPool` |
| `ObjectBytes` | the bytes of an object of the store | |
| `PosixStream` | what read, write and lseek promise: a position per descriptor | `ObjectBytes` |
| `CephStream` | read, write, lseek and ftruncate, step by step | `ObjectBytes`; `PosixStream` is instantiated as `Promise` |
| `CephStream_proofs` | theorems | `CephStream`, `FiniteSums` |
| `FiniteSums` | lemmas on sums over finite sets, and on smallest and largest members | |
| `CephParams` | the parser of paths and parameters, as operators, and the documented syntax | |
| `CephConfig` | loading the plug-ins, reading the file, opening paths | `CephParams` |
| `CephConfig_proofs` | theorems | `CephConfig` |
| `CephXAttr` | attribute calls with open, close, write and unlink | |
| `CephDir` | the listing, composed with all of `CephXAttr` | `CephXAttr` |
| `CephDir_proofs` | theorems on `CephXAttr` and `CephDir` | `CephDir`, `FiniteSums` |
| `MC_FileTable`, `MC_Aio`, `MC_Pool`, `MC_Stream`, `MC_Config`, `MC_Dir` | constants and symmetry for TLC | |

Definitions named `...Reuses...`, `...Ignores...`, `...Keeps...` and the like, or
with a small first letter where the module has none other of that kind, which
stand before the definition they vary, are not part of the model: each is
a plausible mistake in the code, and putting it in the place of the real
definition must make TLC find a property violated.  `PROJECT.json` pairs them
under `mutants`.

### CephFileTable

A step is one critical section of `g_fd_mutex`, or one request to the store.
`pc[h]` is where the calls on file object `h` have got to.  An open is two or
three steps: the stat of the store (`OpenRead`, `OpenNew`, `OpenTruncate`), the
nested unlink of a truncating open (`OpenUnlink`, `OpenUnlinkFails`), and the
insertion with what `XrdCephOssFile::Open` does with its result (`OpenInsert`).
A close is `CloseLookup` and `CloseDelete`.  A stat is `StatMissing` and
`StatAnswer`, or one of `StatStored` and `StatError`.  A call that fails before
it changes anything is a stuttering step.

Some choices that matter.

* The test at 668 is `rc != -ENOENT`: an error of the store counts as "exists".
  So `OpenRead` and `OpenTruncate` have no condition on the store, `OpenNew` has.
* `g_nextCephFd` is unsigned and `insertFileRef` returns an `int`.  `ToInt` and
  `ToUnsigned` are the two conversions, on `NbFd` values in place of 2^32.
  After a negative result `XrdCephOssFile::Open` keeps its old descriptor and
  the entry stays.
* `Close` may be called on a file object that is not open; it then looks up -1
  or the descriptor of an earlier open.  `StaleFdReachesNothing` is about that.
* The calls on one file object do not overlap (the framework's side of the
  contract); those on different ones, and stats and unlinks, do.
* Names stand for what the parser and the name translation make of a path; pool
  and layout are not told apart, because the multiset does not tell them apart
  either.

### CephAio

`sub[r]` follows the thread that makes call `r`, `cb[r]` its completion.  The
order is that of the code: look up the reference, check the mode and get a
striper, ask the store, lock `statsMutex` and count.  `Submit` gives the request
to the store, and from then on the callback may run: `Complete`, `CopyOut`
(reads), `FindRef`, `CountCompletion`, `Report`, `CountCallback` (writes).
`CloseLock` and `CloseErase` are the close, which holds `statsMutex` from the
log message to the erasure.

* `ToSize` and `ToSsize` are the passage of the store's result through a
  `size_t` (812, 935), the callback's argument, and `ssize_t Result`
  (`XrdCephOssFile.cc` 66, 87).
* `CopyOut` copies when the `size_t` is above zero, which includes errors; the
  list then holds no bytes and the copy throws in a thread nobody catches in:
  `alive` becomes false and nothing moves any more.
* `uint64_t` counters wrap (`Uint64`), on `NbSize` values in place of 2^64.  The
  32-bit counts of operations are left unbounded, as they are only logged.
* `CloseLock` waits for `Busy(r)` to be false for every request of the file.
  That is not in the code: it is the promise quoted at 170-172, the weakest one
  that fits it, in which the framework considers a request complete once it was
  reported.  In the same way `Look` makes no call on a file being closed.
* A store that refuses a request (`rejected`) calls nobody back.

### CephPool

Threads make one of three calls: `striper` (`getRadosStriper`, `getIoCtx`),
`cluster` (statfs), `aio` (a striper, then a cluster).  Each read and each
write of a shared variable is a step of its own where no mutex makes it atomic:
the size test, the pushes one by one, the two reads and the write of
`g_cephPoolIdx`, the test, the store and the final read of `g_cluster[i]`.  A
connection is a number, 0 the null pointer; a striper or an IoCtx is the number
of the connection it was made on.  `DisconnectAll` is the destructor of
`XrdCephOss`, when no call is under way.

A new IoCtx and a new striper enter their dictionaries one after the other
(`InsertIoCtx`, `InsertStriper`), and an insertion leaves an entry that is there
alone.  `checkAndCreateStriper` has seven failure paths after the connection was taken
(508-574), all of which do the same to the shared state in two steps:
`CreateFails` shuts the connection down and deletes it, `ForgetCluster` empties
its slot, and in between a thread outside the mutex may find the pointer there.
The three failures to connect are `ConnectFails`.  Reading a
vector out of its range is undefined; the model goes on as if the element were
there, `VectorsReady` says when it is not, and the run `PoolColdStatfs` stops
there.  The other runs of the pool make no statfs.  In them all that comes past
the size test unlocked comes after a striper, and finds the vectors complete.

### CephStream

A call is a request to the store at the offset as it is (`WriteStore`,
`ReadStore`), then the two halves of `fr->offset += n` (`LoadOffset`,
`StoreOffset`), then the counters (`Count`, and for a write `Reach`, since line 777
reads the offset a second time for the highest one).  A seek stores a position
(`SeekSet`) or moves it in the same two halves (`SeekCur`), and reads it once more
for its answer (`Tell`).  A read takes `statsMutex` before it moves the offset
(`Lock`), a write after it (in `Count`, up to `Reach`), a seek not at all.
The race of a write with another call on the same descriptor is undefined
behaviour of C++; the model takes the outcomes of a 64-bit load and a 64-bit
store, which is what the compilers of the supported platforms make of it.

* `offset` is a `uint64_t` (`Uint64`, on `NbOffset` values); `Tell` returns it as
  an `off64_t` (`Signed`).  A seek below zero is stored, and answered with a
  negative number.
* `MayCall` says who uses which descriptor for what, so that one run has
  descriptors of one thread and shared ones side by side.
* The store takes transfers and truncations up to `MaxObject`, and that is below
  half of the offsets there are, as for every object a store can keep.
* `ImplementsPosixStream` is about the descriptors of one thread: the abstract
  step happens when the store answers, and `PositionOf` and `AnswerOf` count in
  what the rest of the call is about to do.  Writers that share a descriptor may
  overwrite each other or leave a hole between them; that is a behaviour of the
  run, and nothing in the repository promises otherwise.

### CephParams and CephConfig

A text is a sequence of tokens.  Every `fillCeph...` function is an operator that
returns the value of its field and the position behind it; the three fields in
the middle have the same code and are one operator, `fillField`.  A number that
does not parse is `Thrown`, and a file with one is never made.  `stoull` and
`stoui` negate a number after a minus sign, modulo the width, and take an empty
text for zero.  `Rendered` and `Documented` are the syntax and the order of
precedence that `XrdCephOss.hh` 36-45 and the comment at 412-419 state: a form
gives a field, or leaves it out together with those behind it (`IsDocumented`),
and an environment has numerals that fit where there are to be numbers
(`IsDocumentedEnv`).

`CephConfig` starts with any installation, loads the two plug-ins in either
order (one of them may be absent), reads the configuration file line by line, and
then opens paths, keeping the dictionary of stripers by `Key`, the text
`user@pool,n,unit,size` of 585-588.  The result of `Configure` is dropped, as the
constructor does (`XrdCephOss.cc` 87-89).  A directive is told by `Is`, which like
`strncmp` (113, 128) also takes a key that goes on after it.  What `CephPool` assumes of the number of
connections is part of `TypeOK` here.

### CephXAttr and CephDir

`Subject`, `PathSubject` and `ListSubject` are the three ways in which an
attribute call finds its file: the descriptor if there is one, never, and unless
it is 0.  The path is parsed without the environment the open had, since the
calls pass 0 for it (`XrdCephXAttr.cc` 62, 79, 92, 106).  So a call with the
descriptor of an open file may be about another file, of the default pool: a
`Del` with any descriptor, a `List` with descriptor 0.  A `List` also cuts names
(`Copied`, 1193) and gives the largest size to who did not ask for it (1196).  The
header promises the opposite (`XrdCephXAttr.hh` 71, 110, 116, 117); it takes one
open and one call to see each, and no property of the attributes that would hold
is worth a run, so what is checked of them is their types and what they do to the
listing they are composed with.  `got` is what the last `Get` or `List` gave.

A file has the object of its first stripe and, for names in `Striped`, another
one.  An object is told by its `suffix`, the last 17 characters.  The iterator
finds, in an order of the store's, every object that is there all the time and
any that is there some of the time (`Beyond`); `lasting` and `since` are these two
sets since the opendir.  The name shown lacks its last character (1311-1314), so
`entries` keeps the objects themselves.

## 3. Runs

| run | expects | asks |
|---|---|---|
| `FileTable` | pass | do the table, the multiset and the file objects agree, does a stat see an open writer, and is it all an `OpenFiles`? |
| `OpenRace` | violation | is the target of an open for write absent when the reference is inserted (688)? |
| `StatRace` | violation | is a file that stat reports missing ever out of sight (1033)? |
| `Aio` | pass | reference alive, counters exact, statistics complete, results told, every request the store took reported, in every order of four calls and their callbacks |
| `AioReadError` | violation | the same when the store may fail a read |
| `AioTail` | violation | is the reference alive after the report too (813-814)? |
| `Pool` | pass | where creations fail while others take connections without the mutex: are indices in range, do the dictionaries agree, and is each connection deleted once? |
| `PoolFailedCreation` | violation | are the stripers of other files live when a creation fails? |
| `PoolColdStatfs` | violation | is there no race condition when the vectors are allocated (137)? |
| `Stream` | pass | does a descriptor of one thread behave like a `PosixStream`, do readers lose an advance, do the statistics cover the writes? |
| `Config` | pass | does a path mean what the documentation says after any start, do the plug-ins share one default, is a bad line where the reading ends, does each open get its own striper? |
| `Dir` | pass | is the listing complete and exact while files come and go? |

The violations are disagreements between a comment, or the documentation of a
header, and the code; `findings` in `PROJECT.json` quotes the text and says what
the behaviour is.

* `PoolColdStatfs`: the first test of the size (136) is made without `g_init_mutex`,
  and the vectors grow one after the other, so that a statfs beside the first
  striper of a cold pool indexes one that is too short.
* `PoolFailedCreation`: a file whose striper cannot be made has the connection of its
  slot deleted (519), also when stripers of other files stand on it.

Two asynchronous calls past `g_striper_mutex` that find the same slot empty (463)
both connect, and the second overwrites the first, which is then lost; the comment
at 129 speaks of a mutex protecting that.  This happens in the run `Pool`, whose
`DeletedOnce` says what is left to hold: nothing is deleted twice for it.
`StriperServesItsFile` has an exception, users with an "@", without which it
fails; nothing in the repository says what such a user is to mean.

**Bounds.**  Two file objects, two names, one stat and three opens are enough
for two writers of one name, a reader beside a writer, a re-open after a close
with a stale descriptor around, and a stat overtaken by an open, a write and a
close.  `NbFd = 8` with `MaxOpens = 3` stays on the non-negative half; with
`MaxOpens > NbFd / 2` the property `NoOrphanEntry` fails, for the reason given
in the hazards.  Four requests on one file: the
write that reaches furthest may complete first or last, a
`pwrite` and an asynchronous read go on beside them, and `NbSize = 16` keeps
every sum of theirs apart and makes -1 a large `size_t` all the same.  The runs
that expect a violation of `CephAio` have two files.  Two threads, two
keys and two slots in the pool: the shortest races need two threads, and two
slots make the index move; `MaxClusters` bounds the connections ever made: three
is one more than there are slots, so that one slot is filled again after a failure
while another thread connects for it too.  Two are enough where a violation needs
one or two.

In `Stream` one thread has `u` and the other `v`, open on the same object, both
read from `r`, which is open on it too, and both write to `s`; three calls and two
are a seek between transfers on `u`, or two reads of `r` against two, with transfers of
nothing, seeks below zero, and an object that ends in the middle of a read.
`NbOffset = 16` keeps all sums apart.  In `Config` the widths are 4 and 5 bits, with
numbers in the paths that fit one or both; every combination of
directives and files is a start, and two opens are what it takes for one to get
the striper of the other.  In `Dir` one client has its pool from the environment
and one from its path, both on a file of the same name in the other pool than
the one listed, whose default the calls without environment fall back to; two
calls for each of them are an open and a call with the descriptor, or a `Set` and a
`List`; values are shorter than names by more than one.  The third writes and removes a file of the listed pool.  The
order of the iterator puts a later stripe before the first and a foreign object
between files, so that a listing skips, returns, ends and breaks.

**Symmetry** is over file objects and names, and over threads and keys.  It is
used with invariants and with the step-by-step refinement only, never with
liveness; all of them treat the members alike.

**Deadlock** is checked in the runs of the table and of the pool, where there is
always a call to make.  The others do not check it: their calls are used up at
some point, and in `CephAio` and `CephDir` a process that died does not move.

**Fairness** (`CephAio!Fairness`) is weak fairness of the steps of each callback
and of the end of a close: the store completes what it took, a thread that is
in the middle of either goes on, and `statsMutex` is released.  Nothing obliges
the framework to make a call, or to close.

## 4. Proofs

All theorems are about the specifications, with the named assumptions on the
constants (`FileTableAssumption`, `AioAssumption`, `PoolAssumption`,
`StreamAssumption`, `ParamsAssumption`, `ConfigAssumption`, `XAttrAssumption`,
`DirAssumption`, `OrderAssumption`) and no others except where
said.  Each follows one argument: an invariant that contains more than the
property, that holds initially, that every action keeps, and that implies it.

| theorem | states | beyond the assumptions |
|---|---|---|
| `TypeCorrect`, `MultisetExact`, `HandlesKeepTheirFiles`, `StaleFdsAreDead` | the invariants of `CephFileTable` | |
| `NothingLeaks`, `Refinement` | `NoOrphanEntry`, `ImplementsOpenFiles` | `2 * MaxOpens <= NbFd` |
| `StatSeesWriters` | `StatSeesOpenWriter` | |
| `AioTypeCorrect`, `RefLiveUntilReport`, `CountersExact`, `WritesCovered` | `TypeOK`, `FileRefLive`, `AsyncCountersExact`, `WriteStatsCover` of `CephAio` | |
| `ReportsAreTrue` | `ReportTellsOutcome` | `SizesFit`: sizes fit an `ssize_t` |
| `PoolTypes`, `IdxAlwaysInRange`, `DictionariesAgree`, `ConnectionsDeletedOnce` | `TypeOK`, `IdxInRange`, `DictsAgree`, `DeletedOnce` | |
| `StreamTypeCorrect`, `SharedReadsAddUp`, `StatsCover` | `TypeOK`, `ReadersLoseNoAdvance`, `StreamStatsCover` | |
| `StreamRefinement` | `ImplementsPosixStream` | `SharedElsewhere`, `SeeksInRange` |
| `SettingsTypes`, `OneDirectiveServesBoth`, `LinesBeforeErrorObeyed`, `StripersServeTheirFiles`, `DocumentedPathsParse` | the invariants of `CephConfig` | |
| `ListingTypes` | `TypeOK` of `CephDir` | |
| `ListingsAreComplete` | `ListingComplete` | `BufferSize > 1` |

The hypotheses in the last column limit what the theorems say of the code.
`2 * MaxOpens <= NbFd`: fewer than 2^31 opens; beyond them `NoOrphanEntry` and the
refinement are false of the code (202).  `SizesFit`: nobody transfers more than
half the address space.  `SharedElsewhere`: a write on a shared descriptor may
land at an offset that another thread has moved, so `PosixStream` would have to
allow any.  `SeeksInRange`: beyond it `lseek` wraps and `PosixStream` has no position
to map to.  `BufferSize > 1`: with room for the zero alone every name reads as the
end.  Each run that checks one of these properties satisfies its hypothesis, and
nothing is proved of a property that section 3 shows violated.

`CephFileTable_proofs`.  The invariant `IInv` is the type invariant, the three
properties `OpenForWriteExact`, `OpenHandleReachesItsFile`,
`StaleFdReachesNothing`, and `FdsBehindCounter`, that every live and every
remembered descriptor lies behind the counter, which is what keeps a new
descriptor from being one that somebody remembers.  The type invariant is not
inductive without the others: that a count of the multiset stays natural when
close takes one out needs `OpenForWriteExact`, and that one needs the descriptor
close looked up to be still there when it deletes, which is
`OpenHandleReachesItsFile`.  Inserting and deleting keep the counts by two
lemmas about cardinalities.  From `IInv` follow `TypeCorrect`, `MultisetExact`,
`HandlesKeepTheirFiles` and `StaleFdsAreDead`.  `NothingLeaks` and `Refinement`
have one more hypothesis, `NonNegativeFds` (`2 * MaxOpens <= NbFd`): beyond it
they are false of the code.  `Refinement` maps the insertion to `Open`, the
deletion to `Close`, a write to `Write`, an unlink to `Remove`, and the
critical section of a stat to its answer; the other steps stutter.

`CephStatHistory_proofs`.  While a stat is between its two answers, the history
knows of the moment it is in (`NowSeen`).  A stat answers ENOENT when the
multiset does not have the name; by `OpenForWriteExact` and
`OpenHandleReachesItsFile`, from `IInv`, there is then no file object that has it
open for write, so that moment is one of those the history is about.

`CephAio_proofs`.  The invariant `IInv` adds to the type invariant and
`FileRefLive` that a thread which has looked up the reference of an open file
still finds it open: its request is busy, so close cannot begin.
`RefLiveUntilReport` is the claim of the comment at 170-172 for everything up to
the report; the step after it is what `AioTail` refutes.  `ReportsAreTrue` rests on
`Told(r)` for each request: what the store answered is an error or fits the
request, the buffer of a read has all of it before anybody counts or reports it,
and the number survives `ToSize` and `ToSsize`.  `CountersExact` and
`WritesCovered` rest on `CInv`, which is exact in every state and not only when no
call is half way: the counters agree with the sets of requests that have been
counted at their start and at their completion.  A step moves one
request into or out of one of these sets, so the lemmas of `FiniteSums` about
adding and removing a member are all it takes.  Of the bytes pending this is
true modulo `NbSize` only, which is why they may wrap on the way.

`CephPool_proofs`.  Every copy of the index that a thread holds, and the shared
one, is in the pool, since `successor` maps the pool into itself.
`IdxAlwaysInRange` is thus independent of how reads and writes interleave.
`MInv` adds the types, that a thread is between taking and giving back
`g_striper_mutex` exactly when it holds it, that the striper of a thread that is
making one is not in the dictionary yet, and that the dictionaries differ at
most in the entry of a thread between its two insertions.  The mutual exclusion
makes the other parts inductive: with two threads inside, both could miss the
same entry and insert it.  `DictionariesAgree` follows, with failed creations
and with asynchronous and statfs calls that use the pool without the mutex.

`SInv` adds the other mutex, and that the three vectors grow in turn, each to
the size of the pool and never past it, which gives `PoolTypes`.  `DInv` is about
connections.  Between making one and storing it a thread has it to itself; no
connection is in two slots; the one a creation may take down is there, and in no
slot but the creation's own; and what is in a slot is there, unless the creation
that took it down is about to empty the slot.  Only the thread in
`g_striper_mutex` deletes, and threads outside overwrite what is in a slot but
put only what is new there, which is why nothing is deleted twice
(`ConnectionsDeletedOnce`), although some are lost.  `VectorsReady` and
`StripersLive` are false of the code.
The theorems of the pool allow every kind of call; for a statfs on a cold pool they
say what the model does with vectors that are too short, which is no more than
one of the outcomes there.

`CephStream_proofs`.  The invariant adds to the type invariant that a thread is
only half way in a call the program makes (`CallsAllowed`), which goes the way of
its operation (`CallsAsBegun`), that objects are no longer than `MaxObject`
(`ObjectsFit`), and that on a descriptor of one thread the offset and what is about to be added to it stay within `MaxObject`, and the
offset the thread has loaded is still the one there is (`PrivateAhead`).  The
first is what makes the thread half way on such a descriptor the only one
(`OneUser`), so that no step of another can come between its load and its store.
`StreamTypeCorrect` follows, and with `Mapped`, which says what the `CHOOSE` of
the mapping stands for, `StreamRefinement`: the answer of the store is the step of
`PosixStream`, everything after it stutters, and so does every call on a shared
descriptor.  It has two hypotheses.  `SharedElsewhere`: no shared descriptor
writes to or truncates an object that a private one is open on, since the private
one would see bytes that nobody wrote in `PosixStream`.  `SeeksInRange`: no seek
from the current position leaves the range of an `off64_t`, since `offset` would
wrap where a position does not.  Both hold of the run `Stream`.

`SInv` is about the sums.  From its lock to the end of the call a reader has
`statsMutex`, and a writer from `Count` to `Reach` (`MutexHeld`), so what a reader has
loaded is what there is (`ReadersSee`), and the offset lags behind the bytes
delivered by those of the reads that have not moved it (`ReadsAddUp`); the same for
the bytes written and the writes not counted yet (`WritesAddUp`).  Where the
highest offset of a private descriptor does not cover its writes, the write that
will make it so is half way (`WritesReach`).  There may be infinitely many
threads, but only finitely many are in a call (`FewCalls`).

`FiniteSums`.  `SumFunctionOnSet` of the community modules is a recursion over a
set.  That the recursion has one solution, and what it does when a member is
added or removed or the function changes, is proved by induction on finite sets.
The induction theorems of the library take an operator, which the provers cannot
instantiate; so each induction is done on the set of counterexamples, of which
a well-founded order has a smallest one (`SmallestOf`).

`CephConfig_proofs`.  `SettingsTypes` needs what `strtoul`, `stoull`, `stoui` and the
`fillCeph...` operators return: a position in the text and a number of its width,
or `Thrown`.  `DefaultsSoFar` and `LinesSoFar` say of every state, also before the
server serves, what `OneDefaultForBoth` and `ObeysLinesBeforeError` say of the end:
the defaults are those of the directives looked at so far, and the settings those
of the lines read so far, where `lines` is what is left of the file.  `KeysSoFar`:
each entry of the dictionary has the key of the file it was made for; with the
lemma that two keys are equal only if user, pool and layout are, for users without
the sign that ends one, `StripersServeTheirFiles` follows.  That lemma takes the
decimal numbers of a key apart at their commas.  `DocumentedPathsParse`
needs no invariant but the types: `PathRead` is about the operators, for every
path of the syntax.  A text of the syntax is a concatenation of fields; the lemmas
follow the parser through it, each saying where one field ends (the first
separator), what is returned for it, and what is left to the next.

`CephDir_proofs`.  `XInv` adds to the types of the calls that a descriptor stands
for the file that its one client opened (`OwnDescriptors`), which is what makes the
files of all calls ones that there can be, and so `ListingTypes`.  `DInv` is about the iterator: it is at an
object there was since the opendir, or at the end (`CursorSeen`); the entries are of
files, in the order of the iterator, and behind it (`EntriesBehind`), which is
why none is there twice; and no file that was there all the time is behind
it without an entry (`NoneMissed`).  Objects that come and go change the two
histories only, and each part is monotonic in them.

**Only model-checked**: `TakenIsReported`, since liveness under fairness is beyond
the prover.  The runs that expect a violation have nothing to prove.

## 5. Not modelled

* The timings in a file reference, and all log messages.
* Permissions and users: the connection of a slot is made for the user of
  whoever comes first and then serves all.  It is among the hazards.
* `ceph_posix_disconnect_all` on a pool that was never used, and the unlock of
  `statsMutex` after its file reference was erased (702, 717): both are
  undefined whatever the interleaving, and are among the hazards.
* fstat, fsync, fcntl, truncate by path: no state of the plug-in changes.
* Return values that deviate from the headers without a change of state: the
  sign of errors of the attribute calls, opendir and fstat, a `Get` with a buffer of
  size 0, and `isNew` of `Set`.  They are among the hazards, each shown by a single
  call.
* `ceph_posix_freexattrlist`, which frees a pointer into the middle of an
  allocation, and the padding of a name in the list beyond its allocation:
  undefined in any state.
* Threads that share a directory or a file object, which the framework does not
  let happen; calls of other processes are in `CephDir` as `ForeignCreated`.
* Operations that return a constant (Chmod, Create, Rename, Mkdir, Remdir).

## 6. Plan

In this order, the most important behaviour first.

1. `CephFileTable` with `OpenFiles`; `CephAio`; `CephPool`; their runs and first
   theorems.  *Done.*
2. `CephStream` with `PosixStream`; `CephParams` and `CephConfig`; `CephXAttr` and
   `CephDir`.  *Done.*
3. A composition of the table and the transfers, in which `Busy` is no longer an
   assumption about all requests of a file but follows from the calls the file
   object has made.
4. Proofs of the safety properties that hold without a hypothesis on the calls
   made, and of both refinements.  *Done.*
5. Safety that the liveness of `CephAio` rests on, as invariants of its own:
   that a request the store took is never forgotten half way, and that no
   thread waits for a mutex whose holder waits.
