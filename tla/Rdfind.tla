------------------------------- MODULE Rdfind -------------------------------
(***************************************************************************)
(* The whole of main(), run again and again over one directory: open the   *)
(* results file, scan, compare, print the results, act on the duplicates.  *)
(* The scan and the comparison, which Dirlist and Rdutil take apart, are   *)
(* single steps here, and so is acting on one duplicate, which             *)
(* DedupActions takes apart; what counts here is what these parts do to    *)
(* the files of one another, as the results file and the temporary names   *)
(* lie in the directory that is scanned. The directory is flat, symbolic   *)
(* links are not followed, every file can be read and no checksum collides.*)
(***************************************************************************)
EXTENDS Integers, FiniteSets, Functions

CONSTANTS
  Names,            \* names in the directory
  ResultsFile,      \* options.resultsfile
  Temporaries,      \* names that only UndoableUnlink makes
  Inodes,
  NoFile,           \* what a name that does not exist holds
  Contents,
  Empty,            \* the content of an empty file
  Reports,          \* what printtofile may write
  Nothing,          \* what is read under a name that leads to no file
  Size(_),
  Rank(_),          \* the order in which the scan finds names
  OptionSets,
  FileSystems,      \* what the directory may be at first
  Disks,            \* what the files may hold at first
  MaxFailures,      \* how often a call may fail or the program be killed
  MaxEdits          \* how often the user changes a file between runs

ASSUME NamesAssumption ==
  ResultsFile \in Names /\ Temporaries \subseteq Names \ {ResultsFile}
ASSUME EntriesAssumption == Inodes \cap Names = {} /\ NoFile \notin Inodes \cup Names
ASSUME InodesAssumption ==
  IsFiniteSet(Names) /\ IsFiniteSet(Inodes) /\ Cardinality(Names) <= Cardinality(Inodes)
ASSUME ContentsAssumption ==
  /\ Empty \in Contents /\ Reports \subseteq Contents /\ Nothing \notin Contents
  /\ \A c \in Contents : Size(c) \in Nat
ASSUME RankAssumption ==
  /\ \A n \in Names : Rank(n) \in Nat
  /\ \A m, n \in Names : Rank(m) = Rank(n) => m = n
ASSUME FileSystemsAssumption ==
  /\ Disks \subseteq [Inodes -> Contents]
  /\ \A F \in FileSystems :
       /\ F \in [Names -> Inodes \cup Names \cup {NoFile}]
       /\ F[ResultsFile] \in Inodes \cup {NoFile}
       /\ \A t \in Temporaries : F[t] = NoFile
ASSUME OptionsAssumption ==
  OptionSets \subseteq [makesymlinks : BOOLEAN, makehardlinks : BOOLEAN,
                        deleteduplicates : BOOLEAN, dryrun : BOOLEAN,
                        makeresultsfile : BOOLEAN, remove_identical_inode : BOOLEAN,
                        minimumfilesize : Nat]
ASSUME BoundsAssumption == MaxFailures \in Nat /\ MaxEdits \in Nat

VARIABLES
  options,
  fs,               \* what each name is
  data,             \* what each inode holds
  pc,               \* where main() is, "idle" between runs
  filelist,         \* the names on the list
  todo,             \* the original of each duplicate not yet acted on
  announced,        \* the size that "can be reduced"
  usage,            \* history: the size of all files when they were scanned
  exact,            \* history: each duplicate is a file of its own, no call failed
  failures, edits   \* history: how many there were

vars == <<options, fs, data, pc, filelist, todo, announced, usage, exact, failures, edits>>
disk == <<fs, data>>
lists == <<filelist, todo, announced, usage, exact>>

-----------------------------------------------------------------------------
(* Looking up a name follows links from name to name; to come to a file it   *)
(* takes fewer of them than there are names.                                *)
Follow[hops \in Nat] ==
  [n \in Names |->
     IF fs[n] \in Names /\ hops > 0 THEN Follow[hops - 1][fs[n]] ELSE fs[n]]
Lookup(n) == Follow[Cardinality(Names)][n]

Regular(n) == fs[n] \in Inodes
Used == {fs[n] : n \in {n \in Names : Regular(n)}}
HoldsResults(i) == options.makeresultsfile /\ fs[ResultsFile] = i

Total(S) == SumFunctionOnSet([i \in Inodes |-> Size(data[i])], S)

(* The files take this much room, not counting the results file. *)
Usage == Total({i \in Used : ~HoldsResults(i)})

(* main() performs the first action that is asked for. *)
Action ==
  CASE options.makesymlinks -> "symlink"
    [] options.makehardlinks /\ ~options.makesymlinks -> "hardlink"
    [] options.deleteduplicates /\ ~options.makesymlinks /\ ~options.makehardlinks -> "delete"
    [] OTHER -> "none"
Acts == Action # "none" /\ ~options.dryrun

Nobody == [n \in {} |-> ResultsFile]

Init ==
  /\ options \in OptionSets
  /\ fs \in FileSystems /\ data \in Disks
  /\ pc = "idle" /\ filelist = {} /\ todo = Nobody
  /\ announced = 0 /\ usage = 0 /\ exact = TRUE
  /\ failures = 0 /\ edits = 0

(* Nothing that the program had in memory is left. *)
Exits ==
  /\ pc' = "idle" /\ filelist' = {} /\ todo' = Nobody
  /\ announced' = 0 /\ usage' = 0 /\ exact' = TRUE

StartRun ==
  /\ pc = "idle"
  /\ pc' = IF options.makeresultsfile THEN "open" ELSE "scan"
  /\ UNCHANGED <<options, disk, lists, failures, edits>>

Free == CHOOSE i \in Inodes : i \notin Used

(* The inode that an ofstream writes to, a free one if there is no such file. *)
IsResults(i) == fs[ResultsFile] = i \/ (fs[ResultsFile] = NoFile /\ i = Free)

(* Faulty: the file is opened to append. *)
TryWriteWithoutTruncating ==
  /\ pc = "open"
  /\ \E i \in Inodes :
       /\ IsResults(i)
       /\ fs' = [fs EXCEPT ![ResultsFile] = i]
       /\ data' = IF Regular(ResultsFile) THEN data ELSE [data EXCEPT ![i] = Empty]
  /\ pc' = "scan"
  /\ UNCHANGED <<options, lists, failures, edits>>

(* trywritetofile leaves an empty results file *)
TryWrite ==
  /\ pc = "open"
  /\ \E i \in Inodes :
       /\ IsResults(i)
       /\ fs' = [fs EXCEPT ![ResultsFile] = i]
       /\ data' = [data EXCEPT ![i] = Empty]
  /\ pc' = "scan"
  /\ UNCHANGED <<options, lists, failures, edits>>

(* All regular files of the wanted size, symbolic links left out. *)
Scan ==
  /\ pc = "scan"
  /\ filelist' = {n \in Names : Regular(n) /\ Size(data[fs[n]]) >= options.minimumfilesize}
  /\ usage' = Usage
  /\ pc' = "compare"
  /\ UNCHANGED <<options, disk, todo, announced, exact, failures, edits>>

IsBest(n, S) == n \in S /\ \A m \in S : Rank(n) <= Rank(m)
SameInode(n) == {m \in filelist : fs[m] = fs[n]}

(* Faulty: files with several names are left out altogether. *)
ListedIfSingle == {n \in filelist : options.remove_identical_inode => SameInode(n) = {n}}

Listed == {n \in filelist : options.remove_identical_inode => IsBest(n, SameInode(n))}
Group(n) == {m \in Listed : data[fs[m]] = data[fs[n]]}
NotUnique == {n \in Listed : Group(n) # {n}}

(* Faulty: each is a duplicate of the one before it. *)
PreviousInRank(n) ==
  CHOOSE o \in Group(n) :
    IF IsBest(n, Group(n)) THEN o = n
    ELSE Rank(o) < Rank(n) /\ \A m \in Group(n) : Rank(m) < Rank(n) => Rank(m) <= Rank(o)

Original(n) == CHOOSE o \in Group(n) : IsBest(o, Group(n))

Compare ==
  /\ pc = "compare"
  /\ filelist' = NotUnique
  /\ todo' = [n \in {n \in NotUnique : Original(n) # n} |-> Original(n)]
  /\ exact' = \A n \in DOMAIN todo' : \A m \in Names \ {n} : fs[m] # fs[n]
  /\ pc' = "announce"
  /\ UNCHANGED <<options, disk, announced, usage, failures, edits>>

(* totalsizeinbytes: the sizes of the files under some names of the list *)
TotalUnder(S) == SumFunctionOnSet([n \in filelist |-> Size(data[fs[n]])], S)

(* Faulty: the originals are counted as well. *)
AnnounceAll ==
  /\ pc = "announce"
  /\ announced' = TotalUnder(filelist)
  /\ pc' = IF options.makeresultsfile THEN "print" ELSE "act"
  /\ UNCHANGED <<options, disk, filelist, todo, usage, exact, failures, edits>>

(* saveablespace: what is on the list less the originals *)
Announce ==
  /\ pc = "announce"
  /\ announced' = TotalUnder(filelist) - TotalUnder(filelist \ DOMAIN todo)
  /\ pc' = IF options.makeresultsfile THEN "print" ELSE "act"
  /\ UNCHANGED <<options, disk, filelist, todo, usage, exact, failures, edits>>

PrintToFile ==
  /\ pc = "print"
  /\ \E i \in Inodes, c \in Reports :
       /\ IsResults(i)
       /\ fs' = [fs EXCEPT ![ResultsFile] = i]
       /\ data' = [data EXCEPT ![i] = c]
  /\ pc' = "act"
  /\ UNCHANGED <<options, lists, failures, edits>>

-----------------------------------------------------------------------------
(* Acting on the duplicate k: the loop goes on to another one. *)
At(k) == pc = "act" /\ Acts /\ k \in DOMAIN todo
Handled(k) ==
  /\ todo' = Restrict(todo, DOMAIN todo \ {k})
  /\ UNCHANGED <<options, data, pc, filelist, announced, usage, edits>>

Link(k) == IF Action = "symlink" THEN todo[k] ELSE fs[todo[k]]

DeleteDuplicate(k) ==
  /\ At(k) /\ Action = "delete"
  /\ fs' = [fs EXCEPT ![k] = NoFile]
  /\ Handled(k)
  /\ UNCHANGED <<exact, failures>>

MakeLink(k) ==
  /\ At(k) /\ Action \in {"symlink", "hardlink"}
  /\ fs' = [fs EXCEPT ![k] = Link(k)]
  /\ Handled(k)
  /\ UNCHANGED <<exact, failures>>

Fails == failures < MaxFailures /\ failures' = failures + 1

(* The file is as it was: unlink() or rename() failed, or it was undone. *)
NothingDone(k) ==
  /\ At(k) /\ Fails
  /\ Handled(k)
  /\ exact' = FALSE
  /\ UNCHANGED fs

(* The temporary name is left, the name gone or replaced, by a failure that *)
(* the loop survives or by a kill. Temporary names are random: none is met  *)
(* that exists or that a link has been made to.                             *)
TemporaryLeft(k) ==
  /\ At(k) /\ Action \in {"symlink", "hardlink"} /\ Fails
  /\ \E t \in Temporaries, e \in {NoFile, Link(k)} :
       /\ fs[t] = NoFile /\ \A n \in Names : fs[n] # t
       /\ fs' = [fs EXCEPT ![t] = fs[k], ![k] = e]
  /\ \/ Handled(k) /\ exact' = FALSE
     \/ Exits /\ UNCHANGED <<options, data, edits>>

-----------------------------------------------------------------------------
Finish ==
  /\ pc = "act" /\ (Acts => todo = Nobody)
  /\ Exits
  /\ UNCHANGED <<options, disk, failures, edits>>

(* The results file cannot be opened: main() exits, or at the second time   *)
(* goes on.                                                                 *)
CannotWrite ==
  /\ Fails
  /\ \/ pc = "open" /\ Exits
     \/ pc = "print" /\ pc' = "act" /\ UNCHANGED lists
  /\ UNCHANGED <<options, disk, edits>>

Crash ==
  /\ pc # "idle" /\ Fails
  /\ Exits
  /\ UNCHANGED <<options, disk, edits>>

Edit == pc = "idle" /\ edits < MaxEdits /\ edits' = edits + 1

UserRemoves(n) ==
  /\ Edit /\ fs[n] # NoFile
  /\ fs' = [fs EXCEPT ![n] = NoFile]
  /\ UNCHANGED <<options, data, pc, lists, failures>>

UserWrites(n, c) ==
  /\ Edit
  /\ Used # Inodes
  /\ fs' = [fs EXCEPT ![n] = Free]
  /\ data' = [data EXCEPT ![Free] = c]
  /\ UNCHANGED <<options, pc, lists, failures>>

(* rdfind, run again and again, each call doing what it is for *)
System ==
  \/ StartRun \/ TryWrite \/ Scan \/ Compare \/ Announce \/ PrintToFile \/ Finish
  \/ \E k \in Names : DeleteDuplicate(k) \/ MakeLink(k)

Failure ==
  \/ CannotWrite \/ Crash
  \/ \E k \in Names : NothingDone(k) \/ TemporaryLeft(k)

User == \E n \in Names : UserRemoves(n) \/ \E c \in Contents : UserWrites(n, c)

Next == System \/ Failure \/ User

Spec == Init /\ [][Next]_vars
FairSpec == Spec /\ WF_vars(System)

-----------------------------------------------------------------------------
TypeOK ==
  /\ options \in OptionSets
  /\ fs \in [Names -> Inodes \cup Names \cup {NoFile}] /\ data \in [Inodes -> Contents]
  /\ options.makeresultsfile => fs[ResultsFile] \in Inodes \cup {NoFile}
  /\ pc \in {"idle", "open", "scan", "compare", "announce", "print", "act"}
  /\ filelist \in SUBSET Names
  /\ DOMAIN todo \subseteq filelist /\ Range(todo) \subseteq filelist \ DOMAIN todo
  /\ announced \in Nat /\ usage \in Nat /\ exact \in BOOLEAN
  /\ failures \in 0 .. MaxFailures /\ edits \in 0 .. MaxEdits

(* What the user sees of it. *)
reads ==
  [n \in Names |-> IF Lookup(n) \in Inodes THEN data[Lookup(n)] ELSE Nothing]
results == {n \in Names : Lookup(n) \in Inodes /\ HoldsResults(Lookup(n))}
mode == IF ~Acts THEN "report" ELSE IF Action = "delete" THEN "delete" ELSE "link"
running == pc # "idle"

P == INSTANCE Promise

(* However often it is run, fails or is killed, with the results file and   *)
(* the temporary names among the files that are scanned, it does to what    *)
(* can be read no more than was promised.                                   *)
KeepsItsPromise == P!Spec

(* No two files have the same content, the results file apart. *)
Solved ==
  \A m, n \in Names :
    /\ Regular(m) /\ Regular(n) /\ data[fs[m]] = data[fs[n]]
    /\ Size(data[fs[m]]) >= options.minimumfilesize
    /\ ~HoldsResults(fs[m]) /\ ~HoldsResults(fs[n])
    => fs[m] = fs[n]

(* README.md, Caveats: "Running multiple times solves the situation." One   *)
(* run corrects one name of a file with hard links; failures and kills that *)
(* come to an end leave nothing that later runs would not correct.          *)
RunningAgainSolvesIt == Acts => <>[]Solved

(* A run never frees more than it announces, and exactly that when each     *)
(* duplicate was a file of its own and every call succeeded.                *)
SavesWhatIsAnnounced ==
  pc = "act" /\ Acts /\ todo = Nobody =>
    /\ usage - Usage <= announced
    /\ exact => usage - Usage = announced

(* rdfind.1, -makeresultsfile: "This does not affect whether items are      *)
(* deleted."                                                                *)
ResultsFileDoesNotMatter ==
  pc = "act" /\ options.makeresultsfile =>
    \A n \in DOMAIN todo : n # ResultsFile /\ todo[n] # ResultsFile
=============================================================================
