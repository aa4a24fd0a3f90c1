# A verification project for rdfind

rdfind finds files with equal content among the directories and files named on
its command line, ranks them, and on request replaces the lower ranked copies
with symbolic or hard links or deletes them. This directory holds TLA+ models of
that program, TLC configurations that check them on small instances, and proofs
that TLAPS checks for every instance.

## The system

| part | source | state | operations | what makes it correct |
|---|---|---|---|---|
| main program | `rdfind.cc` | the global list of files, the options, the argument index | scan every argument, mark, eliminate stage by stage, mark duplicates, write results, act | stages and actions in the right order, exit status |
| duplicate detection | `Rdutil.cc` | order of the list, and per file: identity, duptype, delete flag | markitems, removeIdenticalInodes, removeUniqueSizes, fillwithbytes, removeUniqSizeAndBuffer, markduplicates, cleanup | equal files are never separated, different ones never reported, the best ranked file is the original |
| reading a file | `Fileinfo.cc` | cached size, device and inode; `m_somebytes` | readfileinfo, fillwithbytes | the buffer is the checksum of the right bytes |
| acting on duplicates | `Rdutil.cc` (applyactiononfile), `Fileinfo.cc` | the user's file system | deletefile, makesymlink, makehardlink, dry runs | nothing is lost, whatever fails; the count is right |
| undoable unlink | `UndoableUnlink.cc` | a state machine around a temporary name | constructor (move away), unlink, undo, destructor | a failed replacement is rolled back |
| directory traversal | `Dirlist.cc` | recursion level | walk, handlepossiblefile | every file once, and an end |
| options, command line | `Options.cc`, `CmdlineParser.cc` | a cursor over argv, the options | parseOptions, try_parse_..., advance | the options are what the command line says, whatever the order; nothing else is accepted |
| checksums | `Checksum.cc` | a digest in progress | update, reset, printToBuffer | reuse for many files |
| random names | `EasyRandom.cc` | a random generator | makeRandomFileString | the name is free |
| size formatting | `Rdutil.cc` | none | calcrange, byteprefix | the printed size |

Everything is one process and one thread. `main()` fills one global vector of
`Fileinfo` through the callback `report()` that `Dirlist` calls, and class
`Rdutil` works on that vector by reference. The vector's *order* is the main
channel of communication: a stage relies on how the stage before left it, and
the actions at the end recognise a group only by walking from one original to
the next. The second channel is `m_somebytes`, the 64 byte digest each file
keeps from one stage to the next.

What is hard here is therefore not threads but

* the order of the list, which is destroyed for fast reading and restored, and
  which has to carry the ranking through several unstable sorts;
* state kept between stages: digests that are reused when an earlier stage has
  seen the whole file, sizes cached at scan time;
* the world outside: files that cannot be read, or are rewritten, shortened or
  removed while the program runs;
* the three system calls that replace a file, any of which can fail, and a kill
  between any two of them;
* what a run leaves for the next: its results file and forgotten temporary files
  lie among the files that are scanned.

`PROJECT.json` lists each hazard with its line and the properties about it.

## Modules

| module | models | uses |
|---|---|---|
| `Options` | the command line: parser, options, the loop over the paths | |
| `Dirlist` | the scan: directory traversal, report, the loop over the arguments | |
| `Rdutil` | duplicate detection and reading, from markitems to markduplicates | |
| `FillBytes` | the same with files read in chunks into a shared checksum | `Rdutil` (INSTANCE) |
| `DedupActions` | the actions on the file system, with UndoableUnlink | |
| `Rdfind` | the whole program, run again and again over one directory | `Promise` (INSTANCE) |
| `Promise` | what a user may count on over any number of runs | |
| `OptionsProofs`, `DirlistProofs`, `RdutilProofs`, `FillBytesProofs`, `DedupActionsProofs`, `RdfindProofs`, `PromiseProofs` | theorems about the modules of these names | TLAPS |
| `HardlinksProofs` | a theorem about `DedupActions` making hard links | TLAPS |
| `MCOptions`, `MCDirlist`, `MCRdutil`, `MCFillBytes`, `MCDedupActions`, `MCRdfind` | their instances for TLC | |

`Options`, `Dirlist`, `Rdutil` and `DedupActions` stand one after the other in a
run of the program and share no variable. What one leaves is what the next starts
from: `ScannedAsGiven` is what `Dirlist` assumes of its arguments,
`ListIsInScanOrder` is the order `Rdutil`'s `Init` assumes, and
`OriginalLeadsItsGroup` and `DuplicatesAreEqual` are what `DedupActions`' `Lists`
and `Scanned` assume. `Rdfind` puts them together with coarser steps, each of
which says what its detailed module promises.

Operators whose comment begins with "Faulty" are not part of the models: each is a
mistake in the operator after it, and the property named in `PROJECT.json` fails
when it takes that place.

### Options

`argv` is the command line without the program's name, `m_index` the cursor of class
`Parser` (which the C++ counts from the program's name, hence also from 1), `o` is
struct `Options` with the switches that are on as a set, and `paths` is what
`main()` hands to `Dirlist::walk`. One action is one turn of the loop in
`parseOptions`, with the two moves of the cursor that an option with a value makes
(`++m_index` in `try_parse_...`, `advance` in the loop), or the end of the program. The numbers
`std::stoll` makes of an argument are the constant operator `NumberIn`; what it
throws nobody catches, so the program is aborted.

The properties do not follow the cursor: `Said` reads the options off the command
line as a whole, and `OptionsEndAt` says where they end.

Left out: the wording of messages, and `rdfind a ""`: an empty argument after
the first path is given to `std::string::back` in `main()` (rdfind.cc:114), which
is undefined, although Options.cc:88 says that empty strings are forbidden as
input.

### Dirlist

A path is the sequence of entries it goes through, starting with the argument.
`kind` and `link` are the file system; `stack` holds the open directories, so its
length is the recursion level, and `pc` with `path` is the call in progress.
`filelist`, `lastsize` and `current_cmdline_index` have the names they have in
`rdfind.cc`. There is an action for each system call that looks at an entry,
because the owner may change it in between (`Change`): `opendir` (`OpenDir`,
`OpenDirFails`), `readdir` with its `lstat` (`ReadDir`), the `lstat` of
`handlepossiblefile`, the `stat` of `report()`. A directory read while it
changes may or may not show what was changed, and shows everything else.

`Expected` says without a walk what a scan should find: every sequence of entries
that leads from an argument to a wanted file. It also records two oddities of the
code: an argument that is a link to a directory is entered without
`-followsymlinks`, because `opendir()` follows it, and a followed link to a file is
on the list twice, a level apart.

`SortFrom` puts an item behind those that come before it, which is what sorting means when no
two are equal, and none are (`NewestDiffer` in `DirlistProofs`). That the names of
different entries of a directory differ, and that names are ordered, is the assumption `NameOrder`.

Left out: arguments with a '/' (they only change the spelling of a name),
EINTR, moving a directory with its content, and the growth of a file between
the scan and the read (that is `Rewrite` in `Rdutil`). An index counts path
arguments and not all of argv, which has the same order.

### Rdutil

The variables are the fields of the C++ objects: `m_list` maps each entry still
on the list to its place there (so `DOMAIN m_list` is the list as a set), and
`identity`, `somebytes`, `duptype`, `size` are fields of `Fileinfo`. `pc` says
which call `main()` makes next. `type` and `lasttype` are the arguments of
`fillwithbytes`. `data` is what the inodes hold. `faulted` and `touched` are
history: which files failed to be read, which ones the user rewrote.

One action is one call of an `Rdutil` method together with its trailing
`cleanup()`; only `fillwithbytes` is one action per file, because the user can
change files between two reads. `std::sort` is unstable, so sorting is a choice
among all arrangements that are sorted (`Sorts`); `apply_on_range` becomes `Run`,
the contiguous range of equal elements around an entry. A checksum is the
constant operator `Digest`, which may or may not collide; a file's content is a
short sequence of numbers. `memcmp` of two digests is `<` of two numbers.
A skipped read, a failed open, a read that fails half way and a complete read are
four actions (`FillSkips`, `FillOpenFails`, `FillReadFails`, `FillReads`).

Left out: progress output and sleeping; `sort_on_depth_and_name`, which belongs to the scan (the initial order within an
argument is arbitrary, which covers both values of `-deterministic`); inode and size widths.
A read that is overlapped by a rewrite is `FillMixes`: what went into the checksum is
then some sequence of bytes, of no content in particular.

### FillBytes

`FillBytes` has the variables of `Rdutil` except `somebytes`, which is now
the array `m_somebytes` of four parts (they end where the digests of 16, 20, 32 and
64 bytes do), and two more: `chk`, the `Checksum` object all files of a stage share,
with the bytes it has been given since it was last started over, and `f1`, the
open file with the locals of `fillwithbytes`. The stages are those of `Rdutil`; reading
a file is now opening it, one action per chunk, and printing the digest. Rewrites
may come between any two of these.

`ImplementsRdutil` is the refinement: `R == INSTANCE Rdutil` with `somebytes` the
old buffer of the file being read and the `m_somebytes` of all others. Opening
and chunks are stuttering steps, `Finish` is `FillReads`, `FillReadFails` or
`FillMixes`. This is what carries the theorems about `Rdutil` over to the code with
chunks. Nettle's digest functions start the context over and XXH3's does not;
`Checksum::reset` makes up for that, and the refinement fails without it.

### DedupActions

The file system is `fs`, from directory entries to what they are: a regular file
(an inode), a symbolic link (the entry it names) or `NoEntry`. `temp` holds the
temporary name of each item. `it`, `original` and `ntimesapplied` are the
variables of `applyactiononfile`, and `pc` also stands for the state of
`UndoableUnlink`: `moved` and `linked` are MOVED_TO_TEMPORARY before and after
the function was applied, `rollback` is its destructor about to undo. Each
action is one system call with its outcome. `Crash` may come at any point, and
nothing runs after it, since rdfind has no recovery. A list entry is one
directory entry with or without the flag of an original; that lists begin with
an original and that members of a group are equal is what `Rdutil` establishes
(`OriginalLeadsItsGroup`, `DuplicatesAreEqual`).

`-removeidentinode` and `-followsymlinks` matter here through the files that can
be on the list together: collapsed, no two entries lead to one inode; with
symbolic links followed an entry may be a link. `link()` does not follow the original
when that is a symbolic link, so the duplicate becomes another name of the link
(`LinkedEntries`); if the user's links are relative and the duplicate lies in another
directory, what is there may lead anywhere (`Astray`). The temporary is unlinked all the same, so with
`-followsymlinks true -makehardlinks true` a duplicate can end up unreadable: `DuplicatesStayReadable`
is violated in the run `RelativeLinks`. `OthersStayReadable`, which the run `Actions` checks, is what
remains: it says the same of all duplicates but these. `AllOrNothing` and `AllIsDone` are about what was done, not about
what can be read, and take a link gone astray for a replacement.

Left out: ownership, permissions, directories as objects that could be removed,
and another process creating entries.

### Rdfind and Promise

`fs` is what each name of a flat directory is and `data` what the inodes hold, with
the results file and the temporary names among the names. One action is a part
of `main()` in its order: open the results file, scan, compare, announce the saving,
print the results, act on one duplicate. A failing call leaves the
duplicate as it was or its old inode under a temporary name, which is what `DedupActions` can
do to it; a kill forgets the variables of the program and nothing else. The temporary name is
random: it is free, and no link that happens to dangle leads to it. Between
runs the user removes and writes files.

`Promise` speaks of what can be read under each name and of nothing else: a run
writes the results file, deletes what can be read elsewhere, sets files aside under
temporary names, and replaces by links without anyone noticing, which is a stuttering
step. `KeepsItsPromise` is the refinement, with `reads`, `results`, `mode` and
`running` as state functions of `Rdfind`.

## What the runs check

| run | question | bounds |
|---|---|---|
| `Options` | are the options and paths what the command line says; is exactly what can be understood accepted? | all command lines of up to two options, with and without values, from one word of each kind, and paths; see `MCOptions` |
| `IgnoreEmpty` | *violated*: `-ignoreempty true` is the same as `-minsize 1` | as `Options` |
| `Scan` | does the scan find every file under every path, nothing else, in the right order, and end? | 4 entries in 2 levels, links in all directions, recursion limit 2, one directory that cannot be opened, one entry changed any number of times |
| `Pipeline` | do the stages keep list and buffers as the next one expects, are equal files and only they reported, is the right file the original, do failures and foreign changes stay local? | three instances of 3 files. Stages: 4 contents of one size that differ in the first, middle or last byte; first/last bytes off, shorter than a file, as long as a file; no, one or two checksums. Ranks: two disks that share an inode number, 2 arguments, 2 depths, hard links collapsed or not, one stage that takes different contents for equal. Faults: 2 sizes, 2 or 3 stages, reads fail, one file may be rewritten any number of times, also shrunk |
| `Unreadable` | *violated*: only equal files remain although files fail to open | 3 files of one size with equal last bytes, two stages, no rewriting |
| `Chunks` | does reading in chunks implement `Rdutil`, and does every loop end? | 2 files, chunks of 2 bytes, contents that end within and at the end of a chunk, checksums of different lengths one after the other, failing reads, one file rewritten any number of times |
| `Actions` | is anything lost, is the outcome all or nothing, is the count right? | 3 items in one group or two, 4 entries, 4 inodes, every file system over them in which the list can be found; every call may fail, a kill anywhere, one removal by the user |
| `RelativeLinks` | *violated*: every duplicate stays readable, also when hard links are made to followed relative symbolic links | 2 items, nothing fails |
| `SameTwice` | *violated*: the original survives when a path is listed twice | 2 items |
| `LongCwd` | *violated*: a symbolic link leads to the original from a long working directory | 2 items |
| `Rdfind` | do runs keep the promise, save what they announce, and in the end leave no duplicates? | 3 files with hard links and a symbolic link, a results file or a copy or hard link of an earlier one, one temporary name; all actions; one failure or kill, one change by the user, any number of runs |
| `EmptyResults` | *violated*: making a results file does not affect what is deleted | 3 files, one empty, empty files not ignored |

A recursion limit of 2 lets a cycle of links come round and be cut off; the
limit in the code differs in size only. In `Scan` one argument lies within the other, so that files
are found twice, and the sizes are below, at and above the limits of one of the
two option records.

Three files are enough for what a group can do wrong: an original, a duplicate,
and a third that belongs to the group or separates it. Two would not show a
group torn apart by a sort. Contents of three bytes are the shortest that have a
first, a last and a middle byte, so that each stage can be fooled on its own.
In `Chunks` two files are the fewest that share a checksum. In `Rdfind` one failure and one
change by the user are enough for a temporary that is then scanned, gets a duplicate or loses its
original; the runs themselves are not bounded, as nothing is counted over them.
In `Actions` three items make a second duplicate meet what the first one's
failures left, and the fourth entry lets a symbolic link lead through a place
that is not on the list. The counters are bounded by the list; nothing else
grows.

The three instances of `Pipeline` have one specification, `MCSpec`: `Spec` with the
initial states of one of them, and with failures and rewriting left to the last, which
alone has the states to spare. The files are interchangeable there, so they are named in
the order they are found. Elsewhere symmetry is used where the definitions in the MC
modules say so, in runs without liveness only.

### Fairness

`FairSpec` of `Dirlist` and `FillBytes` adds `WF_vars(System)`, weak fairness of the
program's own steps taken together: one thread that is never blocked by a lock, as
every system call returns. The user's steps (`Change`, `Rewrite`) have no
fairness. The choice between a success and a failure of a call is left open:
termination does not rest on a retry ever succeeding, because the code has none,
apart from the loops on EINTR. That `Rdutil` ends is `Termination` of `FillBytes`.

In `Rdfind` the fairness is that of the sentence it checks, "Running multiple times
solves the situation": the user calls rdfind again whenever it has ended
(`StartRun`), and failures, kills and changes come to an end (`MaxFailures`,
`MaxEdits`). `RunningAgainSolvesIt` says that then, for good, no two files have equal
content and different inodes.

### What the violated runs show

* `Unreadable`: `Rdutil::fillwithbytes` ignores what `Fileinfo::fillwithbytes`
  returns. A file that cannot be opened keeps the buffer it had: none if this is so in
  every stage, or the digest of its last bytes if only the checksum stage fails. The two contents of the run have equal
  last bytes, so that in either way different files are duplicates (README.md, step 12 says
  only files with the same checksum are kept).
* `RelativeLinks`: `link()` does not follow a symbolic link. An original that is a relative
  one is copied as it is, and from the directory of the duplicate it leads elsewhere; README.md, step 17, says
  the duplicate is replaced with a hard link to the original.
* `SameTwice`: with `-removeidentinode false` a path given twice is its own
  duplicate, and the file is lost; the man page says the first is kept.
* `LongCwd`: `makesymlink` ignores that `makeAbsolute` failed.
* `EmptyResults`: the results file exists, empty, before the scan. With
  `-ignoreempty false` it is compared with the other empty files, and one is
  deleted as the duplicate of the other.
* `IgnoreEmpty`: rdfind.1:61 says `-ignoreempty true` is equivalent to `-minsize 1`, but after
  `-minsize 5` it leaves 5. `MinimumSizeIsAsSaid` in the run `Options` says that this is the only
  case in which the manual is wrong about the minimum.

Disagreements with the documentation that need no run to see:

* a stage looks at its own buffers only, so with `-checksum none` files with
  different first bytes and equal last bytes are grouped if each had a partner in
  the first stage; README.md:89 says files with different first bytes are removed;
* `main()` returns 0 whatever the actions returned; rdfind.1:177 promises
  nonzero;
* `rdfind -help` gives 64 as the default of `-firstbytessize` and
  `-lastbytessize`, which is 4096; it lists 0 among the values of `-sleep`, which `-sleep 0ms` is not.

## What is proved

`RdutilProofs` proves for every finite set of files, every options record,
every contents and every checksum operator:

* `TypeCorrect`, `ReadyToMark`, `BuffersCorrect`, `Completeness`, `Ranking`,
  `Leading`: the invariants of the runs, from no assumption beyond the named ones
  on the constants;
* `Soundness`: `DuplicatesAreEqual`, assuming `CollisionFree`, that no checksum
  has a collision among the contents.

The argument is the inductive invariant `IInv`. The properties by themselves are
not inductive, because what goes on at the end depends on how each stage left
the list. `IInv` adds `Bookkeeping` (places and identities are unique and the
identity is the scan order; sizes are those of files nobody touched; modes
increase), `BeforeCollapse` (nothing has left the list before hard links are collapsed),
`OnlyRepresentativesListed` (then, each inode is there as its best ranked entry),
`ListIsGrouped` (between stages the list is sorted and has no group of one) and
`PairsListed` (of two equal clean files that represent their inodes, both are on
the list). Each conjunct has a lemma per action that can
disturb it. The step that matters is the one of `removeUniqSizeAndBuffer`: two equal
clean files have equal buffers by `BuffersHoldTheirSlice`, so they are in each
other's range whatever arrangement the sort chose, and neither is alone.

`FillBytesProofs` proves for every buffer size, hash, set of files and contents:

* `TypeCorrect`, and `ChecksumSeesTheFile`: `ChecksumHasSeenTheBytesRead`;
* `Implements`: the refinement `ImplementsRdutil`, step by step;
* `ChunksFindEqualFiles`, `ChunksKeepRanking`, and, with a hash that tells
  pieces of contents apart (`HashIsCollisionFree`), `ChunksFindOnlyEqualFiles`: the
  theorems of `RdutilProofs`, carried over by the refinement.

The invariant relates the three things a chunk touches: the bytes the common
checksum has been given, how far the file has been read, and, while nobody has
rewritten it, that those bytes are the first of what the stage asks for. Buffers are compared
through `Joined`, the number that `memcmp` orders them by; that equal numbers mean
equal parts is `BigEndianIsInjective`.

`DedupActionsProofs` proves for every file system, list and set of failures:

* `ActionsTypeCorrect`: `TypeOK`;
* `OriginalsSafe`: `OriginalsStayReadable`, assuming `Collapsing`, that inodes are
  collapsed (`-removeidentinode true`, the default). The `SameTwice` run shows
  that it cannot be left out;
* `OthersSafe`: `OthersStayReadable`, assuming in addition `ShortCwd`, that
  getcwd() does not fail (`LongCwd`);
* `DuplicatesSafe`: `DuplicatesStayReadable`, assuming in addition `NoRelativeOriginals`, that no hard link
  is made to a relative symbolic link (`RelativeLinks` shows that it is needed). By default links are not followed;
* `EachIsReplacedOrNot`: `AllOrNothing`, and `EverythingAskedForIsDone`: `AllIsDone`, assuming
  `ShortCwd` and, in place of `Collapsing`, only that no name is on the list twice (`Distinct`).
  With a name that is, the failure to move the second one back would undo the first.

Looking up a name is defined without recursion: `Resolves(F, d, i)` says every set
of entries that contains `d` and is closed under following links has an entry that is `i`.
The proof needs two facts about it: a lookup has at most one result, and changing an entry that does not
resolve to `i` cannot change what does. `Tally` relates the number counted so far to the duplicates
the loop has passed; that a failure is not taken for a replacement rests on the scan, which finds no
duplicate that is a link to its original or another name of the same file (`NoLinkAtScan`).

`HardlinksProofs` proves `HardlinksSafe`: `HardlinksKeepContents` for every list and
file system, with failures, a kill and one removal by the user at any moment
(`OneRemoval`). The invariant `HInv` says that a name holds nothing or a file of the content it
had at the scan, and that between `link()` and the `unlink()` of the temporary the
link or the original holds it; that one of them does rests on the removals being no
more than one.

`PromiseProofs` proves `KeptPromiseLosesNothing`: whatever keeps the promise never, in a
step of a run, takes away what could be read, except what the results file held.

`RdfindProofs` proves for every directory with its hard and symbolic links, every options record, and any number of
runs, failures, kills and changes by the user between runs:

* `RunsTypeCorrect`: `TypeOK`, and `ResultsFileIsLeftAlone`: `ResultsFileDoesNotMatter`;
* `SavesNoMoreThanAnnounced`: `SavesWhatIsAnnounced`;
* `RunsKeepTheirPromise`: the refinement `KeepsItsPromise`, step by step;
* `RunsLoseNothing`: `NothingIsLost` of `Promise`, which follows from the refinement and
  `KeptPromiseLosesNothing`. This is the sense in which no run loses data.

All of them assume `IgnoresEmpty`: whoever makes a results file ignores empty files, which is the default
(`-minsize 1`). Without it the empty results file may be a duplicate of another empty file and become a symbolic
link to it, which then holds the report, and even `TypeOK` fails; the run `EmptyResults` shows
how that begins. The invariant `IInv` adds to the types `ResultsAreThere` (the results file exists
from the time it was opened, and is empty when the directory is scanned, so that it is not listed) and
`ListsFiles` (each duplicate that is left and its original are still the files that were scanned, with
equal contents, although other duplicates have been replaced and the report has been written since).

* The savings: at any time of the loop, the room freed so far is at most what was announced less the sizes of
  the duplicates still to come, and equal to it while `exact`; a duplicate with other names
  frees nothing and breaks only the equality. Sums over sets are a choice of a recursive function in the
  library; that it exists, adds up elements in any order and sees only the values on its set
  is proved from the least number for which it would be wrong.
* The refinement: `StartRun` starts; `TryWrite` and `PrintToFile` report; `DeleteDuplicate` forgets a
  name whose content its original shows; `MakeLink` and `NothingDone` stutter; `TemporaryLeft` sets
  a file aside; the ends of a run, `Crash` among them, stop; `Scan`, `Compare` and
  `Announce` stutter. What has to be shown of each is what can be read under *every* name
  afterwards, with links that lead anywhere, also round in circles. A change of one name is seen only
  under names that lead by way of it; `Follow` with as many hops as there are names reaches all that
  can be reached, because each hop more finds a file under a name more, until there are none (`FoundAll`).

`OptionsProofs` proves the properties of the run `Options` for command lines of any length
and any number of options, from no assumption but those named in `Options`
(arguments are strings, and a number that was read fits `filesizetype`). The invariant
`Inv` adds `Cursor` (what stands before the cursor is a row of
understood options with their values, and then the paths that were scanned) and `Stage`
(what each loop leaves for the next). A refusal is right
because the options cannot end before the cursor, where every odd place holds a known
option, nor after it, as what is at the cursor is not understood (`EndIsAtCursor`).

`DirlistProofs` proves the invariants of the run `Scan` for every file system, command
line and recursion limit, with any number of changes and of directories that cannot be opened,
from no assumption but those named in `Dirlist`: `TypeCorrect`, `ScanIsComplete`,
`ScanIsSound` and `ScanIsInOrder`. The invariant `IInv` adds to the types

* `WalkShape`: the open directories go down one path, and the call in progress is one
  entry further;
* `Led`: what is open, reported and listed was led to by the path, unless something
  on the path changed;
* `Accounted`, the heart of completeness: a file that should be found is listed, or is below
  an entry that some open directory has yet to show, or is what the call in progress is about
  or goes on to;
* `NewestDiffer` and `SettledInOrder`: no item is listed twice, so that the sort of one argument's
  items is strict, and it leaves those of earlier arguments where they are.

Nothing is said of a path that is not clean, and a change makes paths unclean but never clean;
what it does elsewhere makes no difference to looking up a clean path (`SameWay`). Links are followed by
a recursive function, about which `FollowAll` is proved by the least number for which it would be wrong
(`LeastNumber`, from `WFMin`), as the induction theorems of the library cannot be applied.

Only model-checked: that the scan, the stages, the loops over chunks and the actions come to an end, and
`RunningAgainSolvesIt` (liveness is out of TLAPS's reach).

## Not modelled

* Size formatting (`calcrange`, `byteprefix`): prints a number, changes nothing.
* Random names: taken to be free. They are 16 random characters and the code
  does not check.
* An original that the user changes between the read and the deletion of its
  duplicate, and another process that creates a file under a name that is just
  moved away: nothing in the code looks, and the man page warns of it.
* The hash functions, the output, `-progress` and `-sleep`.
* A file that grows for as long as it is read: contents are bounded, so `Termination` of the run
  `Chunks` says nothing of it. In the stage that reads whole files that loop would not end.

## Plan

1. `Dirlist`, `Rdutil`, `DedupActions`, `Options`, `FillBytes`, `Rdfind`, `Promise`: done.
2. Proofs about `Options`, `Dirlist`, `Rdutil`, `FillBytes`, `DedupActions`, `Rdfind`, `Promise`: done.
3. Left to TLC: liveness.
