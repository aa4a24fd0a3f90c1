---------------------------- MODULE DedupActions ----------------------------
(***************************************************************************)
(* What rdfind does to the user's files once the duplicates are marked:    *)
(* Rdutil::makesymlinks, makehardlinks and deleteduplicates walk the list  *)
(* and replace or delete every duplicate. A link replaces a file in three  *)
(* system calls, with class UndoableUnlink as the transaction: move the    *)
(* file to a temporary name, make the link, unlink the temporary; if       *)
(* making the link fails, move the file back. Every call may fail, and the *)
(* program may be killed between any two of them.                          *)
(***************************************************************************)
EXTENDS Integers, Sequences, FiniteSets

CONSTANTS
  Dirents,          \* the directory entries that names lead to
  Inodes,           \* regular files
  NoEntry,          \* what an entry that does not exist holds
  Content(_),       \* what a regular file holds
  Lists,            \* what markduplicates may leave: sequences of Items
  OptionSets,
  RelativeNames,    \* entries named relative to the working directory
  OutsideCwd,       \* entries in some other directory than the working one
  CwdIsLong,        \* whether getcwd() needs more than buflength bytes
  LinksAreRelative, \* whether the user's symbolic links hold relative paths
  SyscallsMayFail,
  CrashesMayHappen,
  MaxRemovals       \* how many entries the user may remove during the run

(* An entry is a regular file, a symbolic link to an entry, or nothing. *)
Entries == Inodes \cup Dirents \cup {NoEntry}
Items == [name : Dirents, isOriginal : BOOLEAN]

ASSUME EntriesAssumption ==
  Inodes \cap Dirents = {} /\ NoEntry \notin Inodes \cup Dirents
ASSUME ListsAssumption ==
  \A l \in Lists : l \in Seq(Items) /\ (l # <<>> => l[1].isOriginal)
ASSUME OptionsAssumption ==
  OptionSets \subseteq [makesymlinks : BOOLEAN, makehardlinks : BOOLEAN,
                        deleteduplicates : BOOLEAN, dryrun : BOOLEAN,
                        followsymlinks : BOOLEAN, remove_identical_inode : BOOLEAN]
ASSUME SwitchesAssumption ==
  {CwdIsLong, LinksAreRelative, SyscallsMayFail, CrashesMayHappen} \subseteq BOOLEAN

VARIABLES
  options,         \* struct Options
  m_list,
  fs,              \* what each directory entry is
  temp,            \* what each item's temporary name is
  it,              \* loop variable of applyactiononfile
  original,        \* index of the latest original, 0 before the first
  ntimesapplied,
  pc,              \* where the program is
  before,          \* history: fs when the files were scanned
  failed,          \* history: whether a system call failed
  removed          \* history: entries the user removed

vars == <<options, m_list, fs, temp, it, original, ntimesapplied, pc,
          before, failed, removed>>
given == <<options, m_list, before>>

-----------------------------------------------------------------------------
(* Looking up d in the file system F leads to the regular file i. *)
Resolves(F, d, i) ==
  \A S \in SUBSET Dirents :
    d \in S /\ (\A e \in S : F[e] \in Dirents => F[e] \in S) => \E e \in S : F[e] = i

Name(k) == m_list[k].name
Originals == {k \in DOMAIN m_list : m_list[k].isOriginal}
Duplicates == {k \in DOMAIN m_list : ~m_list[k].isOriginal}

(* o is the original that the loop holds when it comes to k *)
IsLeader(o, k) ==
  /\ o \in Originals /\ o <= k
  /\ \A j \in Originals : j <= k => j <= o

(* main() performs the first action that is asked for. *)
Action ==
  CASE options.makesymlinks -> "symlink"
    [] options.makehardlinks /\ ~options.makesymlinks -> "hardlink"
    [] options.deleteduplicates /\ ~options.makesymlinks /\ ~options.makehardlinks -> "delete"
    [] OTHER -> "none"

(* makeAbsolute leaves a relative name as it is when getcwd() fails, and    *)
(* its caller goes on. Seen from another directory such a name may mean     *)
(* anything. simplifyPath does not change what a path means.                *)
LinkTargets(o, k) ==
  IF CwdIsLong /\ Name(o) \in RelativeNames /\ Name(k) \in OutsideCwd
    THEN Dirents
    ELSE {Name(o)}

(* link() does not follow a symbolic link, it makes the same link again. A  *)
(* relative one may mean anything when seen from another directory.         *)
Elsewhere(o, k) == LinksAreRelative /\ {Name(o), Name(k)} \cap OutsideCwd # {}
LinkedEntries(o, k) ==
  IF Elsewhere(o, k) /\ fs[Name(o)] \in Dirents THEN Dirents ELSE {fs[Name(o)]}

(* The duplicate the loop has come to, while nothing is being done to it. *)
AtDuplicate ==
  pc = "loop" /\ it \in DOMAIN m_list /\ ~m_list[it].isOriginal

-----------------------------------------------------------------------------
(* File systems in which a scan can find the list: its names lead to files, *)
(* the members of a group to equal ones.                                    *)
Scanned(F) ==
  /\ \A k \in DOMAIN m_list :
       /\ \E i \in Inodes : Resolves(F, Name(k), i)
       /\ ~options.followsymlinks => F[Name(k)] \in Inodes
  /\ options.remove_identical_inode =>
       \A j, k \in DOMAIN m_list, i \in Inodes :
         Resolves(F, Name(j), i) /\ Resolves(F, Name(k), i) => j = k
  /\ \A o, k \in DOMAIN m_list, i, j \in Inodes :
       IsLeader(o, k) /\ Resolves(F, Name(o), i) /\ Resolves(F, Name(k), j)
         => Content(i) = Content(j)

Init ==
  /\ options \in OptionSets
  /\ m_list \in Lists
  /\ fs \in {F \in [Dirents -> Entries] : Scanned(F)}
  /\ temp = [k \in DOMAIN m_list |-> NoEntry]
  /\ it = 1 /\ original = 0 /\ ntimesapplied = 0
  /\ pc = IF Action = "none" THEN "return" ELSE "loop"
  /\ before = fs /\ failed = FALSE /\ removed = {}

(* Faulty: the item after an original is passed over. *)
SeeOriginalAndSkip ==
  /\ pc = "loop" /\ it \in Originals
  /\ original' = it
  /\ it' = it + 2
  /\ UNCHANGED <<given, fs, temp, ntimesapplied, pc, failed, removed>>

SeeOriginal ==
  /\ pc = "loop" /\ it \in Originals
  /\ original' = it
  /\ it' = it + 1
  /\ UNCHANGED <<given, fs, temp, ntimesapplied, pc, failed, removed>>

(* The function applied to the duplicate returned; zero counts. *)
NextItem(applied) ==
  /\ pc' = "loop"
  /\ it' = it + 1
  /\ ntimesapplied' = IF applied THEN ntimesapplied + 1 ELSE ntimesapplied
  /\ UNCHANGED <<given, original, removed>>

Stay == UNCHANGED <<given, it, original, ntimesapplied, removed>>

(* A system call fails, for a reason of its own or because it has to. *)
Fails(mustFail) ==
  /\ SyscallsMayFail \/ mustFail
  /\ failed' = TRUE
Succeeds(can) == can /\ UNCHANGED failed

DryRun ==
  /\ AtDuplicate /\ options.dryrun
  /\ NextItem(TRUE)
  /\ UNCHANGED <<fs, temp, failed>>

(* Faulty: the arguments of static_deletefile are swapped. *)
DeleteOriginal ==
  /\ AtDuplicate /\ ~options.dryrun /\ Action = "delete"
  /\ Succeeds(fs[Name(original)] # NoEntry)
  /\ fs' = [fs EXCEPT ![Name(original)] = NoEntry]
  /\ NextItem(TRUE)
  /\ UNCHANGED temp

(* Faulty: a dry run deletes as well. *)
DeleteEvenIfDry ==
  /\ AtDuplicate /\ Action = "delete"
  /\ Succeeds(fs[Name(it)] # NoEntry)
  /\ fs' = [fs EXCEPT ![Name(it)] = NoEntry]
  /\ NextItem(TRUE)
  /\ UNCHANGED temp

DeleteFile ==
  /\ AtDuplicate /\ ~options.dryrun /\ Action = "delete"
  /\ Succeeds(fs[Name(it)] # NoEntry)
  /\ fs' = [fs EXCEPT ![Name(it)] = NoEntry]
  /\ NextItem(TRUE)
  /\ UNCHANGED temp

DeleteFails ==
  /\ AtDuplicate /\ ~options.dryrun /\ Action = "delete"
  /\ Fails(fs[Name(it)] = NoEntry)
  /\ NextItem(FALSE)
  /\ UNCHANGED <<fs, temp>>

MoveToTemporary ==
  /\ AtDuplicate /\ ~options.dryrun /\ Action \in {"symlink", "hardlink"}
  /\ Succeeds(fs[Name(it)] # NoEntry)
  /\ temp' = [temp EXCEPT ![it] = fs[Name(it)]]
  /\ fs' = [fs EXCEPT ![Name(it)] = NoEntry]
  /\ pc' = "moved"
  /\ Stay

MoveFails ==
  /\ AtDuplicate /\ ~options.dryrun /\ Action \in {"symlink", "hardlink"}
  /\ Fails(fs[Name(it)] = NoEntry)
  /\ NextItem(FALSE)
  /\ UNCHANGED <<fs, temp>>

MakeSymlink ==
  /\ pc = "moved" /\ Action = "symlink"
  /\ Succeeds(TRUE)
  /\ \E t \in LinkTargets(original, it) : fs' = [fs EXCEPT ![Name(it)] = t]
  /\ pc' = "linked"
  /\ Stay /\ UNCHANGED temp

MakeHardlink ==
  /\ pc = "moved" /\ Action = "hardlink"
  /\ Succeeds(fs[Name(original)] # NoEntry)
  /\ \E e \in LinkedEntries(original, it) : fs' = [fs EXCEPT ![Name(it)] = e]
  /\ pc' = "linked"
  /\ Stay /\ UNCHANGED temp

(* Faulty: the result of making the link is not looked at. *)
LinkFailureIgnored ==
  /\ pc = "moved"
  /\ Fails(Action = "hardlink" /\ fs[Name(original)] = NoEntry)
  /\ pc' = "linked"
  /\ Stay /\ UNCHANGED <<fs, temp>>

LinkFails ==
  /\ pc = "moved"
  /\ Fails(Action = "hardlink" /\ fs[Name(original)] = NoEntry)
  /\ pc' = "rollback"
  /\ Stay /\ UNCHANGED <<fs, temp>>

UnlinkTemporary ==
  /\ pc = "linked"
  /\ Succeeds(TRUE)
  /\ temp' = [temp EXCEPT ![it] = NoEntry]
  /\ NextItem(TRUE)
  /\ UNCHANGED fs

(* Faulty: the result of unlinking the temporary is not looked at. *)
UnlinkFailureIgnored ==
  /\ pc = "linked"
  /\ Fails(FALSE)
  /\ NextItem(TRUE)
  /\ UNCHANGED <<fs, temp>>

UnlinkFails ==
  /\ pc = "linked"
  /\ Fails(FALSE)
  /\ NextItem(FALSE)
  /\ UNCHANGED <<fs, temp>>

(* ~UndoableUnlink *)
Undo ==
  /\ pc = "rollback"
  /\ Succeeds(TRUE)
  /\ fs' = [fs EXCEPT ![Name(it)] = temp[it]]
  /\ temp' = [temp EXCEPT ![it] = NoEntry]
  /\ NextItem(FALSE)

UndoFails ==
  /\ pc = "rollback"
  /\ Fails(FALSE)
  /\ NextItem(FALSE)
  /\ UNCHANGED <<fs, temp>>

(* main() returns 0 whatever the count is. *)
Return ==
  /\ pc = "return" \/ (pc = "loop" /\ it \notin DOMAIN m_list)
  /\ pc' = "done"
  /\ UNCHANGED <<given, fs, temp, it, original, ntimesapplied, failed, removed>>

Crash ==
  /\ CrashesMayHappen /\ pc \notin {"done", "crashed"}
  /\ pc' = "crashed"
  /\ UNCHANGED <<given, fs, temp, it, original, ntimesapplied,
                 failed, removed>>

UserRemoves(d) ==
  /\ pc \notin {"done", "crashed"}
  /\ Cardinality(removed) < MaxRemovals
  /\ fs[d] # NoEntry
  /\ fs' = [fs EXCEPT ![d] = NoEntry]
  /\ removed' = removed \cup {d}
  /\ UNCHANGED <<given, temp, it, original, ntimesapplied, pc, failed>>

Stopped == pc \in {"done", "crashed"} /\ UNCHANGED vars

System ==
  \/ SeeOriginal \/ DryRun \/ DeleteFile \/ DeleteFails
  \/ MoveToTemporary \/ MoveFails \/ MakeSymlink \/ MakeHardlink \/ LinkFails
  \/ UnlinkTemporary \/ UnlinkFails \/ Undo \/ UndoFails \/ Return

Next == System \/ Crash \/ (\E d \in Dirents : UserRemoves(d)) \/ Stopped

Spec == Init /\ [][Next]_vars

-----------------------------------------------------------------------------
(* Vocabulary of the properties. *)

(* The entry is what it was when the duplicate was found. *)
Untouched(k) == fs[Name(k)] = before[Name(k)] /\ temp[k] = NoEntry

(* The original of k is a relative symbolic link, the hard link to which    *)
(* may lead anywhere: the one replacement that need not read as before.     *)
Astray(k) ==
  /\ Action = "hardlink"
  /\ \E o \in Originals : IsLeader(o, k) /\ Elsewhere(o, k) /\ before[Name(o)] \in Dirents

(* The action took effect and left nothing behind; a link that may have     *)
(* gone astray is taken to have taken effect.                               *)
Replaced(k) ==
  /\ temp[k] = NoEntry
  /\ Action = "delete" => fs[Name(k)] = NoEntry
  /\ \A o \in Originals :
       IsLeader(o, k) =>
         /\ Action = "symlink" => fs[Name(k)] = Name(o)
         /\ Action = "hardlink" => fs[Name(k)] = before[Name(o)] \/ Astray(k)

(* What the duplicate was is under its temporary name. *)
SetAside(k) == temp[k] = before[Name(k)]

(* The entry leads to a file with the content it led to at first. *)
Readable(k) ==
  \E i, j \in Inodes :
    Resolves(before, Name(k), i) /\ Resolves(fs, Name(k), j) /\ Content(i) = Content(j)

(* It can be read under its name, or has been deleted as the user asked, or *)
(* is under its temporary name.                                             *)
InReach(k) ==
  \/ Readable(k) \/ SetAside(k)
  \/ Action = "delete" /\ ~options.dryrun /\ k < it

(* What can be got at through the names and the temporary names. *)
Held ==
  {Content(i) : i \in {i \in Inodes : (\E d \in Dirents : fs[d] = i)
                                      \/ (\E k \in DOMAIN temp : temp[k] = i)}}

-----------------------------------------------------------------------------
TypeOK ==
  /\ options \in OptionSets
  /\ m_list \in Lists
  /\ fs \in [Dirents -> Entries] /\ before \in [Dirents -> Entries]
  /\ temp \in [DOMAIN m_list -> Entries]
  /\ it \in 1 .. Len(m_list) + 1
  /\ original \in 0 .. Len(m_list)
  /\ ntimesapplied \in Nat
  /\ pc \in {"loop", "moved", "linked", "rollback", "return", "done", "crashed"}
  /\ failed \in BOOLEAN
  /\ removed \in SUBSET Dirents

(* Whatever fails and wherever the program is killed, every original can be *)
(* read under its name, and it is the same file: no action ever touches an  *)
(* original or a link on the way to it.                                     *)
OriginalsStayReadable ==
  removed = {} =>
    \A o \in Originals, i \in Inodes :
      Resolves(before, Name(o), i) => Resolves(fs, Name(o), i)

(* README.md, steps 16 and 17: duplicates are replaced "with a symbolic     *)
(* link to the original", "with a hard link to the original". Whatever      *)
(* fails and wherever the program is killed, each can therefore be read     *)
(* under its name, or has been deleted as the user asked, or is under a     *)
(* temporary name.                                                          *)
DuplicatesStayReadable == removed = {} => \A k \in Duplicates : InReach(k)

(* What is left of it when symbolic links are followed and are relative:    *)
(* it holds of every duplicate but those that are to be a hard link to a    *)
(* relative symbolic link seen from another directory (Astray). No step     *)
(* removes any other duplicate before its replacement is there.             *)
OthersStayReadable ==
  removed = {} => \A k \in Duplicates : ~Astray(k) => InReach(k)

(* A duplicate ends up replaced or as it was, or with its temporary left    *)
(* behind. The number main() prints counts those replaced (hard links that  *)
(* were there before look replaced, unless they are collapsed, and so may   *)
(* links gone astray).                                                      *)
AllOrNothing ==
  pc = "done" /\ removed = {} /\ Action # "none" /\ ~options.dryrun =>
    /\ \A k \in Duplicates : Replaced(k) \/ Untouched(k) \/ SetAside(k)
    /\ options.remove_identical_inode /\ (\A k \in Duplicates : ~Astray(k)) =>
         ntimesapplied = Cardinality({k \in Duplicates : Replaced(k)})

(* When no call fails, all that was asked for is done: no duplicate is      *)
(* left, or with -dryrun all of them are, and all are counted. (What a link *)
(* gone astray leads to is a question for DuplicatesStayReadable.)          *)
AllIsDone ==
  pc = "done" /\ removed = {} /\ ~failed /\ Action # "none" =>
    /\ ntimesapplied = Cardinality(Duplicates)
    /\ IF options.dryrun THEN fs = before ELSE \A k \in Duplicates : Replaced(k)

(* Making hard links gives up no content even if the user removes one of    *)
(* the names at any moment: a step of the program never drops what only the *)
(* duplicate still held. (With -followsymlinks the original may be a link   *)
(* whose target the user has removed.)                                      *)
HardlinksKeepContents ==
  [][Action = "hardlink" /\ ~options.followsymlinks /\ removed' = removed
     => Held \subseteq Held']_vars

(* Fileinfo.cc, makesymlink: "The tricky thing is that the path must be     *)
(* correct, as seen from the directory where *this is. Making the path      *)
(* absolute solves this problem."                                           *)
SymlinksLeadToTheOriginal ==
  pc = "done" /\ removed = {} /\ Action = "symlink" /\ ~options.dryrun =>
    \A k \in Duplicates, o \in Originals :
      IsLeader(o, k) /\ temp[k] = NoEntry /\ ~Untouched(k) =>
        \A i \in Inodes : Resolves(before, Name(o), i) => Resolves(fs, Name(k), i)
=============================================================================
