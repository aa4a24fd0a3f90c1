------------------------------ MODULE MCRdfind ------------------------------
(* Small instances of Rdfind for TLC. *)
EXTENDS Rdfind, TLC

CONSTANTS a, b, c, r, t, i1, i2, i3, i4, i5

MCNames == {a, b, c, r, t}
MCInodes == {i1, i2, i3, i4, i5}
MCContents == {"", "x", "y", "report"}
MCSize(d) == CASE d = "" -> 0 [] d = "x" -> 1 [] d = "y" -> 2 [] OTHER -> 4
(* The results file is ranked between the others, a temporary name last. *)
MCRank(n) == CASE n = a -> 1 [] n = b -> 2 [] n = r -> 3 [] n = c -> 4 [] OTHER -> 5

(* Three names for three files, with hard links, a symbolic link, and hard  *)
(* links or a copy of an earlier results file.                              *)
MCFileSystems ==
  {(a :> e @@ b :> f @@ c :> g @@ r :> h @@ t :> NoFile) :
     e \in {i1}, f \in {i1, i2, i4}, g \in {i2, i3, i4, a}, h \in {i4, NoFile}}
MCDisks ==
  {(i1 :> d[1] @@ i2 :> d[1] @@ i3 :> d[2] @@ i4 :> "report" @@ i5 :> "") :
     d \in {<<"x", "y">>, <<"report", "report">>}}

MCOption(action, dry, makes, removes, min) ==
  [makesymlinks |-> action = "symlink", makehardlinks |-> action = "hardlink",
   deleteduplicates |-> action = "delete", dryrun |-> dry, makeresultsfile |-> makes,
   remove_identical_inode |-> removes, minimumfilesize |-> min]

Actions == {"symlink", "hardlink", "delete"}
MCOptions ==
  {MCOption(action, FALSE, TRUE, removes, 1) : action \in Actions, removes \in BOOLEAN}
    \cup {MCOption(action, FALSE, FALSE, TRUE, 0) : action \in Actions}
    \cup {MCOption("delete", TRUE, TRUE, TRUE, 1), MCOption("none", FALSE, TRUE, TRUE, 1)}

(* One of the three is empty, there is no results file yet, and empty files *)
(* are not ignored.                                                         *)
MCOneIsEmpty == {(a :> i1 @@ b :> i3 @@ c :> i5 @@ r :> NoFile @@ t :> NoFile)}
MCEmptyFiles == {MCOption("delete", FALSE, TRUE, TRUE, 0)}
=============================================================================
