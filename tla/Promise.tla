------------------------------- MODULE Promise -------------------------------
(***************************************************************************)
(* What a user may count on over any number of runs of rdfind, said of     *)
(* what can be read under the names in a directory and of nothing else:    *)
(* a run writes its results file, makes links that nobody notices who      *)
(* reads the files, and deletes, when asked to, what can be read under     *)
(* another name. A run that fails or is killed may leave a file under a    *)
(* temporary name. Between runs the user does anything.                    *)
(***************************************************************************)
EXTENDS Naturals

CONSTANTS
  Names,
  Contents,
  Nothing           \* what is read under a name that leads to no file

NothingIsNoContent == Nothing \notin Contents

VARIABLES
  reads,            \* what is read under each name
  results,          \* the names that lead to the results file
  mode,             \* what is asked for: "report", "link" or "delete"
  running           \* whether the program runs

vars == <<reads, results, mode, running>>

Init ==
  /\ reads \in [Names -> Contents \cup {Nothing}]
  /\ results \in SUBSET Names
  /\ mode \in {"report", "link", "delete"}
  /\ running = FALSE

User ==
  /\ ~running /\ UNCHANGED <<mode, running>>
  /\ reads' \in [Names -> Contents \cup {Nothing}]
  /\ results' \in SUBSET Names

Start == ~running /\ running' = TRUE /\ UNCHANGED <<reads, results, mode>>

(* The end of a run, also when it is killed. *)
Stop == running /\ running' = FALSE /\ UNCHANGED <<reads, results, mode>>

(* The results file may be new, but no other file becomes it. *)
Report(c) ==
  /\ running /\ UNCHANGED <<mode, running>>
  /\ results' \in SUBSET Names /\ results \subseteq results'
  /\ \A n \in results' \ results : reads[n] = Nothing
  /\ reads' = [n \in Names |-> IF n \in results' THEN c ELSE reads[n]]

(* A file under names S is deleted: its content is left under another. *)
Forget(S) ==
  /\ running /\ mode = "delete" /\ UNCHANGED <<results, mode, running>>
  /\ \A n \in S : \E m \in Names \ (S \cup results) : reads[m] = reads[n]
  /\ reads' = [n \in Names |-> IF n \in S THEN Nothing ELSE reads[n]]

(* What was under the names S, if any, or was replaced by a link, is under  *)
(* the temporary name t.                                                    *)
SetAside(S, t, c) ==
  /\ running /\ mode = "link"
  /\ t \notin S \cup results /\ reads[t] = Nothing
  /\ \A n \in S : reads[n] = c
  /\ reads' = [n \in Names |-> IF n = t THEN c ELSE IF n \in S THEN Nothing ELSE reads[n]]
  /\ UNCHANGED <<results, mode>>
  /\ running' \in BOOLEAN      \* it may be left there by a kill

Next ==
  \/ User \/ Start \/ Stop
  \/ \E c \in Contents : Report(c)
  \/ \E S \in SUBSET Names : Forget(S)
  \/ \E S \in SUBSET Names, t \in Names, c \in Contents : SetAside(S, t, c)

Spec == Init /\ [][Next]_vars

-----------------------------------------------------------------------------
(* What can be read, the results file apart. *)
Readable == {reads[n] : n \in Names \ results} \ {Nothing}

(* No step of a run takes away what can be read, except what the results    *)
(* file held.                                                               *)
NothingIsLost == [][running => Readable \subseteq Readable']_vars
=============================================================================
