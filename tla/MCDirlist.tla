------------------------------ MODULE MCDirlist ------------------------------
(* Small instances of Dirlist for TLC. *)
EXTENDS Dirlist

(* A directory with two entries, one of which may be a directory too. *)
MCEntries == 1 .. 4
MCParent == <<1, 1, 1, 2>>
MCSize == <<0, 1, 2, 1>>

(* 3 may be a symbolic link to anything: out of 2, around to 1 or itself.   *)
MCFileSystems ==
  {w \in [kind : {<<"dir", k, l, m>> : k \in {"dir", "file", "symlink"},
                                       l \in {"file", "symlink"},
                                       m \in {"none", "file", "symlink", "dir"}},
          link : {<<1, s, t, u>> : s \in {1, 2, 3}, t \in MCEntries, u \in {1, 3, 4}}] :
     /\ w.kind[2] = "dir" => w.kind[4] # "none"
     /\ \A e \in MCEntries : /\ w.kind[e] # "none" => w.kind[MCParent[e]] = "dir"
                             /\ w.kind[e] # "symlink" => w.link[e] = e}

(* Something in a tree, maybe a link, and then all of the tree. *)
MCArgumentLists == {<<3, 1>>}

MCOption(follow, ordered, lower, upper) ==
  [followsymlinks |-> follow, deterministic |-> ordered,
   minimumfilesize |-> lower, maximumfilesize |-> upper]
MCOptionSets == {MCOption(TRUE, TRUE, 1, 2), MCOption(FALSE, FALSE, 0, 9)}

(* paths in the order of their characters, taking 1 < 2 < ... as names *)
MCNameLess(p, q) ==
  \/ Len(p) < Len(q) /\ p = SubSeq(q, 1, Len(p))
  \/ \E k \in DOMAIN p \cap DOMAIN q :
       p[k] < q[k] /\ SubSeq(p, 1, k - 1) = SubSeq(q, 1, k - 1)
=============================================================================
