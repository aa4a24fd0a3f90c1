--------------------------- MODULE MCDedupActions ---------------------------
(* Small instances of DedupActions for TLC. *)
EXTENDS DedupActions, TLC

CONSTANTS a, b, c, x, i1, i2, i3, i4

(* x is not on any list; a symbolic link may lead through it. *)
MCDirents == {a, b, c, x}
MCInodes == {i1, i2, i3, i4}
MCContent(i) == IF i = i4 THEN "another" ELSE "the same"
MCSymmetry == Permutations({i1, i2, i3})

Original(d) == [name |-> d, isOriginal |-> TRUE]
Duplicate(d) == [name |-> d, isOriginal |-> FALSE]

(* A group of three, and a group followed by an original of its own, which  *)
(* only hash collisions could leave but the loop has to cope with.          *)
MCLists ==
  {<<Original(a), Duplicate(b), Duplicate(c)>>,
   <<Original(a), Duplicate(b), Original(c)>>}
MCPair == {<<Original(a), Duplicate(b)>>}
(* One path given twice on the command line. *)
MCSameTwice == {<<Original(a), Duplicate(a)>>}

MCOptions(actions, dryruns, follows, removals) ==
  {[makesymlinks |-> p.s, makehardlinks |-> p.h, deleteduplicates |-> p.d,
    dryrun |-> n, followsymlinks |-> f, remove_identical_inode |-> r] :
     p \in actions, n \in dryruns, f \in follows, r \in removals}

Symlink == [s |-> TRUE, h |-> FALSE, d |-> FALSE]
Hardlink == [s |-> FALSE, h |-> TRUE, d |-> FALSE]
Delete == [s |-> FALSE, h |-> FALSE, d |-> TRUE]
Nothing == [s |-> FALSE, h |-> FALSE, d |-> FALSE]
Everything == [s |-> TRUE, h |-> TRUE, d |-> TRUE]

(* Files that are collapsed to one entry per inode, symbolic links followed *)
(* or not; and files as they are found, symbolic links left out.            *)
MCActionOptions ==
  MCOptions({Symlink, Hardlink, Delete}, BOOLEAN, BOOLEAN, {TRUE})
    \cup MCOptions({Symlink, Hardlink, Delete, Nothing, Everything}, {FALSE}, {FALSE}, BOOLEAN)
MCSymlinks == MCOptions({Symlink}, {FALSE}, {FALSE}, {TRUE})
MCFollowedHardlinks == MCOptions({Hardlink}, {FALSE}, {TRUE}, {TRUE})
MCNotCollapsed == MCOptions({Symlink, Delete}, {FALSE}, {FALSE}, {FALSE})
=============================================================================
