------------------------------- MODULE Dirlist -------------------------------
(***************************************************************************)
(* How rdfind collects the files: main() walks each argument with class    *)
(* Dirlist, which calls report() for what it finds.                        *)
(*                                                                         *)
(* A path is a sequence of directory entries, the argument first. There is *)
(* one action per system call that looks at the file system (opendir,      *)
(* readdir with its lstat, the lstat of handlepossiblefile, the stat of    *)
(* report), because its owner may change it in between.                    *)
(***************************************************************************)
EXTENDS Integers, Sequences, FiniteSets

CONSTANTS
  Entries,          \* the places in the file system where something may be
  Parent,           \* maps an entry to its directory, the topmost ones to themselves
  FileSystems,      \* what the scan may start from: records of the two functions kind and link
  Size,             \* maps an entry to the size of the file that may be there
  ArgumentLists,    \* the path arguments a run may be given, each a name without '/'
  OptionSets,       \* the option records a run may be given
  NameLess(_, _),   \* the order of path names
  MaxDepth,         \* maxdepth, 50 in Dirlist.cc
  MaxFailures,      \* how many directories opendir() may refuse
  MaxTouched        \* how many entries may be changed during the scan

Kinds == {"none", "file", "dir", "symlink", "other"}

ASSUME EntriesAssumption == IsFiniteSet(Entries) /\ Parent \in [Entries -> Entries]
ASSUME FileSystemsAssumption ==
  FileSystems \subseteq [kind : [Entries -> Kinds], link : [Entries -> Entries]]
ASSUME SizeAssumption == Size \in [Entries -> Nat]
ASSUME ArgumentsAssumption == ArgumentLists \subseteq Seq(Entries)
ASSUME OptionsAssumption ==
  OptionSets \subseteq [followsymlinks : BOOLEAN, deterministic : BOOLEAN,
                        minimumfilesize : Nat, maximumfilesize : Nat]
ASSUME BoundsAssumption == MaxDepth \in Nat \ {0} /\ MaxFailures \in Nat /\ MaxTouched \in Nat

Paths == UNION {[1 .. n -> Entries] : n \in 1 .. MaxDepth + 1}

(* p and q part in one directory, where no two entries have the same name.  *)
Siblings(p, q) ==
  \A k \in DOMAIN p \cap DOMAIN q :
    (\A m \in 1 .. k - 1 : p[m] = q[m]) /\ p[k] # q[k] => Parent[p[k]] = Parent[q[k]]

(* The order of strings; two paths may be the same string if their           *)
(* arguments are.                                                            *)
ASSUME NameOrder ==
  \A p, q \in Paths :
    /\ ~NameLess(p, p)
    /\ p # q /\ Siblings(p, q) => NameLess(p, q) \/ NameLess(q, p)
    /\ NameLess(p, q) => \A r \in Paths : NameLess(q, r) => NameLess(p, r)

VARIABLES
  options,    \* struct Options
  arguments,  \* what follows the options on the command line
  kind,       \* what is at each entry
  link,       \* the entry a symbolic link names
  current_cmdline_index,
  lastsize,   \* length of the list when the walk of the argument began
  filelist,   \* what report() collected
  stack,      \* the calls of walk() that have a directory open
  path,       \* the path the call in progress is about
  pc,
  skipped,    \* history: directories that opendir() refused
  touched     \* history: entries changed since the start

vars == <<options, arguments, kind, link, current_cmdline_index, lastsize, filelist,
          stack, path, pc, skipped, touched>>
world == <<options, arguments, kind, link, touched>>

-----------------------------------------------------------------------------
(* Looking things up. *)

IsTop(e) == Parent[e] = e
Top == stack[Len(stack)]
Last(p) == p[Len(p)]
Children(d) == {e \in Entries : Parent[e] = d /\ ~IsTop(e) /\ kind[e] # "none"}

(* The entry n steps along the symbolic links from e. *)
Follow(e, n) ==
  LET F[k \in Nat] ==
        IF k = 0 THEN e
        ELSE LET d == F[k - 1] IN IF kind[d] = "symlink" THEN link[d] ELSE d
  IN  F[n]
(* Where e leads to; still a symlink if there is no end to it (ELOOP). *)
Real(e) == Follow(e, Cardinality(Entries))

Reachable(p) == \A k \in 1 .. Len(p) - 1 : Parent[p[k + 1]] = Real(p[k])
LstatKind(p) == IF Reachable(p) THEN kind[Last(p)] ELSE "none"
StatKind(p) == IF Reachable(p) THEN kind[Real(Last(p))] ELSE "none"

(* report() keeps regular files of a size in [minimumfilesize, maximumfilesize) *)
SizeWanted(e) ==
  options.minimumfilesize <= Size[e] /\ Size[e] < options.maximumfilesize

(* cmpDepthName *)
DepthNameLess(a, b) ==
  a.depth < b.depth \/ (a.depth = b.depth /\ NameLess(a.path, b.path))

-----------------------------------------------------------------------------
Init ==
  /\ options \in OptionSets
  /\ arguments \in ArgumentLists
  /\ \E w \in FileSystems : kind = w.kind /\ link = w.link
  /\ \A e \in Entries :
       /\ kind[e] # "none" /\ ~IsTop(e) => kind[Parent[e]] = "dir"
       /\ kind[e] # "symlink" => link[e] = e
  /\ current_cmdline_index = 1
  /\ lastsize = 0
  /\ filelist = <<>>
  /\ stack = <<>> /\ path = <<>> /\ pc = "argument"
  /\ skipped = {} /\ touched = {}

(* main() goes to the next argument *)
StartArgument ==
  /\ pc = "argument" /\ current_cmdline_index <= Len(arguments)
  /\ lastsize' = Len(filelist)
  /\ path' = <<arguments[current_cmdline_index]>>
  /\ pc' = "walk"
  /\ UNCHANGED <<world, current_cmdline_index, filelist, stack, skipped>>

(* a call of walk() or handlepossiblefile() is over *)
Returned == IF stack = <<>> THEN "walked" ELSE "read"

(* Faulty: one level less. *)
StopsOneEarly == Len(stack) + 1 >= MaxDepth
(* recursionlevel is the number of directories open above this call *)
TooDeep == Len(stack) >= MaxDepth

RecursionLimit ==
  /\ pc = "walk" /\ TooDeep
  /\ pc' = Returned
  /\ UNCHANGED <<world, current_cmdline_index, lastsize, filelist, stack, path, skipped>>

OpenDir ==
  /\ pc = "walk" /\ ~TooDeep
  /\ StatKind(path) = "dir"
  /\ stack' = Append(stack, [path |-> path, dir |-> Real(Last(path)), seen |-> {}])
  /\ pc' = "read"
  /\ UNCHANGED <<world, current_cmdline_index, lastsize, filelist, path, skipped>>

(* not a directory, or no right to read it, or too many open files *)
OpenDirFails ==
  /\ pc = "walk" /\ ~TooDeep
  /\ \/ StatKind(path) # "dir" /\ skipped' = skipped
     \/ /\ StatKind(path) = "dir"
        /\ path \in skipped \/ Cardinality(skipped) < MaxFailures
        /\ skipped' = skipped \cup {path}
  /\ pc' = "possible"
  /\ UNCHANGED <<world, current_cmdline_index, lastsize, filelist, stack, path>>

(* Faulty: what turns out to be a directory is walked again. *)
HandlePossibleDirAgain ==
  /\ pc = "possible"
  /\ pc' = CASE LstatKind(path) = "dir" -> "walk"
             [] LstatKind(path) = "file" -> "report_possible"
             [] LstatKind(path) = "symlink" /\ options.followsymlinks -> "report_possible"
             [] OTHER -> Returned
  /\ UNCHANGED <<world, current_cmdline_index, lastsize, filelist, stack, path, skipped>>

(* handlepossiblefile, up to its callback; it gives up on a directory *)
HandlePossibleFile ==
  /\ pc = "possible"
  /\ pc' = IF \/ LstatKind(path) = "file"
              \/ LstatKind(path) = "symlink" /\ options.followsymlinks
             THEN "report_possible" ELSE Returned
  /\ UNCHANGED <<world, current_cmdline_index, lastsize, filelist, stack, path, skipped>>

(* Faulty: symbolic links are followed whatever the option says. *)
AlwaysFollows(k) ==
  CASE k = "file" -> "report_file"
    [] k = "symlink" -> "report_link"
    [] k = "dir" -> "walk"
    [] OTHER -> "read"
(* what the loop in walk() does with an entry that lstat() says is a k *)
Handling(k) ==
  CASE k = "file" -> "report_file"
    [] k = "symlink" /\ options.followsymlinks -> "report_link"
    [] k = "dir" -> "walk"
    [] OTHER -> "read"

ReadDir ==
  /\ pc = "read"
  /\ \E e \in Children(Top.dir) \ Top.seen :
       /\ stack' = [stack EXCEPT ![Len(stack)].seen = @ \cup {e}]
       /\ path' = Append(Top.path, e)
  /\ pc' = Handling(LstatKind(path'))
  /\ UNCHANGED <<world, current_cmdline_index, lastsize, filelist, skipped>>

(* readdir() may miss what came or went after opendir(), and nothing else *)
CloseDir ==
  /\ pc = "read"
  /\ Children(Top.dir) \ Top.seen \subseteq touched
  /\ stack' = SubSeq(stack, 1, Len(stack) - 1)
  /\ pc' = IF Len(stack) = 1 THEN "walked" ELSE "read"
  /\ UNCHANGED <<world, current_cmdline_index, lastsize, filelist, path, skipped>>

(* the callback: report(path, name, depth) *)
Report(depth) ==
  filelist' =
    IF StatKind(path) = "file" /\ SizeWanted(Real(Last(path)))
      THEN Append(filelist, [path |-> path, depth |-> depth,
                             cmdline_index |-> current_cmdline_index])
      ELSE filelist

ReportFile ==
  /\ pc = "report_file"
  /\ Report(Len(stack) - 1)
  /\ pc' = "read"
  /\ UNCHANGED <<world, current_cmdline_index, lastsize, stack, path, skipped>>

(* a symbolic link is reported and then walked, even if it leads to a file *)
ReportLink ==
  /\ pc = "report_link"
  /\ Report(Len(stack) - 1)
  /\ pc' = "walk"
  /\ UNCHANGED <<world, current_cmdline_index, lastsize, stack, path, skipped>>

(* Faulty: the recursion level of the caller. *)
ReportPossibleAtCaller ==
  /\ pc = "report_possible"
  /\ Report(Len(stack) - 1)
  /\ pc' = Returned
  /\ UNCHANGED <<world, current_cmdline_index, lastsize, stack, path, skipped>>
ReportPossible ==
  /\ pc = "report_possible"
  /\ Report(Len(stack))
  /\ pc' = Returned
  /\ UNCHANGED <<world, current_cmdline_index, lastsize, stack, path, skipped>>

(* Whether the j-th item goes before the k-th; std::sort may leave items that *)
(* are equal in any order, but there are none.                               *)
ComesBefore(list, j, k) ==
  \/ DepthNameLess(list[j], list[k])
  \/ ~DepthNameLess(list[k], list[j]) /\ j < k

(* std::sort, on the items after the first ones *)
SortFrom(first, list) ==
  LET newest == first + 1 .. Len(list)
      place == [k \in newest |->
                  first + 1 + Cardinality({j \in newest : ComesBefore(list, j, k)})]
  IN  [i \in DOMAIN list |->
         IF i <= first THEN list[i] ELSE list[CHOOSE k \in newest : place[k] = i]]

(* Faulty: all of the list is sorted. *)
SortAll(list) == SortFrom(0, list)
(* sort_on_depth_and_name(lastsize) *)
SortNewest(list) == SortFrom(lastsize, list)

EndArgument ==
  /\ pc = "walked"
  /\ filelist' = IF options.deterministic THEN SortNewest(filelist) ELSE filelist
  /\ current_cmdline_index' = current_cmdline_index + 1
  /\ pc' = "argument"
  /\ UNCHANGED <<world, lastsize, stack, path, skipped>>

(* The owner makes, removes or replaces an entry that has nothing in it. *)
Change(e) ==
  /\ e \in touched \/ Cardinality(touched) < MaxTouched
  /\ \A c \in Entries : Parent[c] = e /\ ~IsTop(c) => kind[c] = "none"
  /\ ~IsTop(e) => kind[Parent[e]] = "dir"
  /\ \E k \in Kinds, t \in Entries :
       /\ k # "symlink" => t = e
       /\ kind' = [kind EXCEPT ![e] = k]
       /\ link' = [link EXCEPT ![e] = t]
  /\ touched' = touched \cup {e}
  /\ UNCHANGED <<options, arguments, current_cmdline_index, lastsize, filelist,
                 stack, path, pc, skipped>>

Scanned == pc = "argument" /\ current_cmdline_index > Len(arguments)
Done == Scanned /\ UNCHANGED vars

System ==
  \/ StartArgument \/ RecursionLimit \/ OpenDir \/ OpenDirFails \/ HandlePossibleFile
  \/ ReadDir \/ CloseDir \/ ReportFile \/ ReportLink \/ ReportPossible \/ EndArgument

Next == System \/ (~Scanned /\ \E e \in Entries : Change(e)) \/ Done

Spec == Init /\ [][Next]_vars
FairSpec == Spec /\ WF_vars(System)

-----------------------------------------------------------------------------
(* What a scan is for, said without a walk: the paths that lead to a file.  *)

(* Directories can be entered, links to them too if they are to be followed *)
(* or are arguments themselves, which opendir() follows in any case.        *)
Leads(i, p) ==
  /\ p[1] = arguments[i]
  /\ \A k \in 1 .. Len(p) - 1 :
       /\ Real(p[k]) = Parent[p[k + 1]] /\ ~IsTop(p[k + 1])
       /\ kind[Real(p[k])] = "dir"
       /\ kind[p[k]] = "symlink" => options.followsymlinks \/ k = 1

(* The depth of an argument is 0, of what is in it 0, and one more for each *)
(* directory on the way. A link to a file is met a second time, a level     *)
(* deeper, by the walk() that takes it for a directory.                     *)
DepthsOf(p) ==
  LET level == Len(p) - 1
  IN  (IF level > 0 THEN {level - 1} ELSE {})
        \cup (IF level < MaxDepth /\ (level = 0 \/ kind[Last(p)] = "symlink")
                THEN {level} ELSE {})

Expected ==
  {x \in [path : Paths, depth : 0 .. MaxDepth, cmdline_index : DOMAIN arguments] :
     /\ Leads(x.cmdline_index, x.path)
     /\ x.depth \in DepthsOf(x.path)
     /\ kind[Last(x.path)] = "symlink" => options.followsymlinks
     /\ kind[Real(Last(x.path))] = "file" /\ SizeWanted(Real(Last(x.path)))}

(* Nothing on the way of p changed, links included. *)
Clean(p) ==
  \A k \in DOMAIN p, n \in 0 .. Cardinality(Entries) : Follow(p[k], n) \notin touched

(* Some directory on the way to p could not be opened. *)
Hidden(p) == \E n \in DOMAIN p : SubSeq(p, 1, n) \in skipped

TypeOK ==
  /\ options \in OptionSets /\ arguments \in ArgumentLists
  /\ kind \in [Entries -> Kinds] /\ link \in [Entries -> Entries]
  /\ current_cmdline_index \in 1 .. Len(arguments) + 1
  /\ lastsize \in 0 .. Len(filelist)
  /\ filelist \in Seq([path : Paths, depth : 0 .. MaxDepth, cmdline_index : DOMAIN arguments])
  /\ stack \in Seq([path : Paths, dir : Entries, seen : SUBSET Entries])
  /\ Len(stack) <= MaxDepth
  /\ path \in Seq(Entries)
  /\ pc \in {"argument", "walk", "possible", "read", "report_file", "report_link",
             "report_possible", "walked"}
  /\ skipped \in SUBSET Paths /\ touched \in SUBSET Entries

(* Every file is found under every path that leads to it within the         *)
(* recursion limit, with its argument and its depth, so that cmpRank ranks  *)
(* it by the shortest of them; loops of symbolic links, changes elsewhere   *)
(* and directories that cannot be opened hide nothing else.                 *)
EveryFileIsFound ==
  Scanned =>
    \A x \in Expected :
      Clean(x.path) /\ ~Hidden(x.path) => \E k \in DOMAIN filelist : filelist[k] = x

(* Nothing else gets on the list: no file outside the arguments unless a    *)
(* followed link leads there, no directory, no file of an unwanted size.    *)
OnlyFilesAskedFor ==
  Scanned => \A k \in DOMAIN filelist : Clean(filelist[k].path) => filelist[k] \in Expected

(* The order of the list, which markitems turns into the identity that      *)
(* decides between files of equal rank: argument by argument, and with      *)
(* -deterministic strictly on depth and name within one, so that the order  *)
(* in which readdir() returns the entries has no influence.                 *)
ListIsInScanOrder ==
  Scanned =>
    \A j, k \in DOMAIN filelist :
      j < k =>
        \/ filelist[j].cmdline_index < filelist[k].cmdline_index
        \/ /\ filelist[j].cmdline_index = filelist[k].cmdline_index
           /\ options.deterministic => DepthNameLess(filelist[j], filelist[k])

(* The scan comes to an end, also in loops of symbolic links and while      *)
(* entries change.                                                          *)
Termination == <>Scanned
=============================================================================
