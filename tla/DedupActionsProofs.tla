------------------------- MODULE DedupActionsProofs -------------------------
(* Theorems about DedupActions: no original is ever lost, a duplicate only  *)
(* as the user asked, whatever fails and wherever the program stops, and    *)
(* the end of the loop finds each of them replaced or not, as counted.      *)
EXTENDS DedupActions, FiniteSetTheorems, TLAPS

(* Hard links are collapsed: -removeidentinode true, the default. *)
Collapsing == \A o \in OptionSets : o.remove_identical_inode
(* getcwd() does not fail for want of room. *)
ShortCwd == ~CwdIsLong
(* Nobody makes hard links to symbolic links that are relative: the user's  *)
(* links are absolute, or -makehardlinks is not in effect, or symbolic      *)
(* links are not followed, the default.                                     *)
NoRelativeOriginals ==
  LinksAreRelative =>
    \A o \in OptionSets : o.makehardlinks /\ ~o.makesymlinks => ~o.followsymlinks

InTransaction == pc \in {"moved", "linked", "rollback"}

(* original is the latest original the loop has passed, and a transaction   *)
(* is about a duplicate.                                                    *)
Control ==
  /\ InTransaction =>
       it \in Duplicates /\ Action \in {"symlink", "hardlink"} /\ ~options.dryrun
  /\ it > 1 =>
       /\ original \in Originals /\ original < it
       /\ \A j \in Originals : j < it => j <= original

OnlyDuplicatesChange ==
  removed = {} =>
    \A e \in Dirents : (\A k \in Duplicates : e # Name(k)) => fs[e] = before[e]

(* The entry is a link that was made to the original of k. *)
Linked(k) ==
  \E o \in Originals :
    /\ IsLeader(o, k)
    /\ fs[Name(k)] = Name(o) \/ fs[Name(k)] = before[Name(o)]

Fate(k) ==
  \/ fs[Name(k)] = before[Name(k)]
  \/ SetAside(k)
  \/ Linked(k) \/ Astray(k)
  \/ Action = "delete" /\ ~options.dryrun /\ k < it

(* What has become of each duplicate. *)
Progress ==
  removed = {} =>
    /\ \A k \in Duplicates :
         k > it \/ (k = it /\ pc = "loop") => fs[Name(k)] = before[Name(k)]
    /\ \A k \in Duplicates : Fate(k)
    /\ InTransaction => SetAside(it)
    /\ pc = "linked" => Linked(it) \/ Astray(it)

-----------------------------------------------------------------------------
(* Looking up names. *)

(* A lookup survives every change to entries that do not lead to i.         *)
LEMMA LookupAgrees ==
  ASSUME NEW F \in [Dirents -> Entries], NEW G \in [Dirents -> Entries],
         NEW d \in Dirents, NEW i \in Inodes, Resolves(F, d, i),
         \A e \in Dirents : Resolves(F, e, i) => G[e] = F[e]
  PROVE  Resolves(G, d, i)
<1> SUFFICES ASSUME NEW S \in SUBSET Dirents, d \in S,
                    \A e \in S : G[e] \in Dirents => G[e] \in S
             PROVE  \E e \in S : G[e] = i
  BY DEF Resolves
<1> DEFINE T == {e \in S : Resolves(F, e, i)}
<1>1. d \in T
  OBVIOUS
<1>2. ASSUME NEW e \in T, F[e] \in Dirents
      PROVE  F[e] \in T
  <2>1. F[e] \in S
    BY <1>2
  <2>2. Resolves(F, F[e], i)
    <3> SUFFICES ASSUME NEW U \in SUBSET Dirents, F[e] \in U,
                        \A q \in U : F[q] \in Dirents => F[q] \in U
                 PROVE  \E q \in U : F[q] = i
      BY DEF Resolves
    <3>1. U \cup {e} \in SUBSET Dirents
      OBVIOUS
    <3>2. \A q \in U \cup {e} : F[q] \in Dirents => F[q] \in U \cup {e}
      OBVIOUS
    <3>3. PICK q \in U \cup {e} : F[q] = i
      BY <3>1, <3>2 DEF Resolves
    <3>4. q # e
      BY <1>2, <3>3, EntriesAssumption
    <3> QED
      BY <3>3, <3>4
  <2> QED
    BY <2>1, <2>2
<1>3. PICK e \in T : F[e] = i
  <2>1. T \in SUBSET Dirents
    OBVIOUS
  <2> QED
    BY <1>1, <1>2, <2>1 DEF Resolves
<1> QED
  BY <1>3

(* A link leads to where the entry it names leads. *)
LEMMA LookupThroughLink ==
  ASSUME NEW F \in [Dirents -> Entries], NEW d \in Dirents, NEW i \in Inodes,
         F[d] \in Dirents, Resolves(F, F[d], i)
  PROVE  Resolves(F, d, i)
BY DEF Resolves

(* Two names of one thing lead to the same file. *)
LEMMA LookupOfSameEntry ==
  ASSUME NEW F \in [Dirents -> Entries], NEW d \in Dirents, NEW o \in Dirents,
         NEW i \in Inodes, F[d] = F[o], Resolves(F, o, i)
  PROVE  Resolves(F, d, i)
<1> SUFFICES ASSUME NEW S \in SUBSET Dirents, d \in S,
                    \A e \in S : F[e] \in Dirents => F[e] \in S
             PROVE  \E e \in S : F[e] = i
  BY DEF Resolves
<1>1. S \cup {o} \in SUBSET Dirents
  OBVIOUS
<1>2. \A e \in S \cup {o} : F[e] \in Dirents => F[e] \in S \cup {o}
  OBVIOUS
<1>3. PICK e \in S \cup {o} : F[e] = i
  BY <1>1, <1>2 DEF Resolves
<1> QED
  BY <1>3

-----------------------------------------------------------------------------
(* Types and control. *)

LEMMA ListFacts ==
  ASSUME TypeOK
  PROVE  /\ m_list \in Seq(Items)
         /\ DOMAIN m_list = 1 .. Len(m_list) /\ Len(m_list) \in Nat
         /\ \A k \in DOMAIN m_list : Name(k) \in Dirents
         /\ Originals \subseteq DOMAIN m_list /\ Duplicates \subseteq DOMAIN m_list
         /\ Originals \cap Duplicates = {}
         /\ 1 \notin Duplicates
<1>1. m_list \in Seq(Items) /\ (m_list # <<>> => m_list[1].isOriginal)
  BY ListsAssumption DEF TypeOK
<1>2. DOMAIN m_list = 1 .. Len(m_list) /\ Len(m_list) \in Nat
  BY <1>1
<1>3. \A k \in DOMAIN m_list : Name(k) \in Dirents
  <2> SUFFICES ASSUME NEW k \in DOMAIN m_list PROVE Name(k) \in Dirents
    OBVIOUS
  <2>1. m_list[k] \in Items
    BY <1>1, <1>2
  <2> QED
    BY <2>1 DEF Name, Items
<1>4. 1 \in DOMAIN m_list => m_list # <<>>
  OBVIOUS
<1> QED
  BY <1>1, <1>2, <1>3, <1>4 DEF Originals, Duplicates

(* In a transaction and when one may begin, original is the leader. *)
LEMMA OriginalLeads ==
  ASSUME TypeOK, Control, it \in Duplicates
  PROVE  /\ it \in DOMAIN m_list /\ it > 1
         /\ original \in Originals /\ Name(original) \in Dirents
         /\ IsLeader(original, it)
<1>1. it \in DOMAIN m_list /\ it \in Nat /\ it > 1
  BY ListFacts
<1>2. original \in Originals /\ original < it
      /\ \A j \in Originals : j < it => j <= original
  BY <1>1 DEF Control
<1>3. it \notin Originals
  BY ListFacts
<1>4. \A j \in Originals : j \in Nat
  BY ListFacts
<1> QED
  BY <1>1, <1>2, <1>3, <1>4, ListFacts DEF IsLeader

LEMMA TypeInit == Init => TypeOK /\ Control
<1> SUFFICES ASSUME Init PROVE TypeOK /\ Control
  OBVIOUS
<1>1. m_list \in Seq(Items)
  BY ListsAssumption DEF Init
<1>2. TypeOK
  <2>1. fs \in [Dirents -> Entries] /\ before \in [Dirents -> Entries]
    BY DEF Init
  <2>2. temp \in [DOMAIN m_list -> Entries]
    BY DEF Init, Entries
  <2>3. it \in 1 .. Len(m_list) + 1 /\ original \in 0 .. Len(m_list)
    BY <1>1 DEF Init
  <2>4. pc \in {"loop", "return"}
    BY DEF Init
  <2> QED
    BY <2>1, <2>2, <2>3, <2>4 DEF Init, TypeOK
<1>3. Control
  BY DEF Init, Control, InTransaction
<1> QED
  BY <1>2, <1>3

LEMMA TypeNext ==
  ASSUME TypeOK, Control, [Next]_vars
  PROVE  TypeOK' /\ Control'
<1> USE DEF vars, given
<1>1. m_list' = m_list /\ options' = options /\ before' = before
  BY DEF Next, System, SeeOriginal, DryRun, DeleteFile, DeleteFails, MoveToTemporary,
         MoveFails, MakeSymlink, MakeHardlink, LinkFails, UnlinkTemporary, UnlinkFails,
         Undo, UndoFails, Return, Crash, UserRemoves, Stopped, NextItem, Stay
<1>2. /\ Duplicates' = Duplicates /\ Originals' = Originals /\ Action' = Action
      /\ \A k : Name(k)' = Name(k)
  BY <1>1 DEF Duplicates, Originals, Action, Name
<1>3. ASSUME it \in Duplicates, NextItem(TRUE) \/ NextItem(FALSE)
      PROVE  /\ it' \in 1 .. Len(m_list) + 1 /\ original' = original
             /\ ntimesapplied' \in Nat /\ pc' = "loop" /\ Control'
             /\ removed' = removed
  <2>1. it' = it + 1 /\ original' = original /\ pc' = "loop"
        /\ removed' = removed
    BY <1>3 DEF NextItem
  <2>2. it' \in 1 .. Len(m_list) + 1 /\ ntimesapplied' \in Nat
    BY <1>3, ListFacts DEF NextItem, TypeOK
  <2>3. \A j \in Originals : j \in Nat /\ j # it
    BY <1>3, ListFacts
  <2>4. Control'
    BY <1>2, <1>3, <2>1, <2>3, OriginalLeads DEF Control, InTransaction, TypeOK
  <2> QED
    BY <2>1, <2>2, <2>4
<1>4. AtDuplicate => it \in Duplicates
  BY DEF AtDuplicate, Duplicates
<1>5. InTransaction => it \in Duplicates
  BY DEF Control
<1>6. CASE SeeOriginal
  <2>1. it \in 1 .. Len(m_list) /\ it' = it + 1 /\ original' = it /\ pc' = pc /\ pc = "loop"
    BY <1>6, ListFacts DEF SeeOriginal
  <2>2. TypeOK'
    BY <1>1, <1>6, <2>1, ListFacts DEF SeeOriginal, TypeOK
  <2>3. \A j \in Originals : j \in Nat
    BY ListFacts
  <2>4. Control'
    BY <1>2, <1>6, <2>1, <2>3 DEF Control, InTransaction, SeeOriginal
  <2> QED
    BY <2>2, <2>4
<1>7. CASE DryRun
  BY <1>1, <1>3, <1>4, <1>7 DEF DryRun, TypeOK
<1>8. CASE DeleteFile
  <2>1. it \in Duplicates /\ NextItem(TRUE)
    BY <1>4, <1>8 DEF DeleteFile
  <2>2. fs' \in [Dirents -> Entries]
    BY <1>8 DEF DeleteFile, TypeOK, Entries
  <2> QED
    BY <1>1, <1>3, <1>8, <2>1, <2>2 DEF DeleteFile, Succeeds, TypeOK
<1>9. CASE DeleteFails \/ MoveFails
  <2>1. it \in Duplicates /\ NextItem(FALSE) /\ failed' = TRUE /\ UNCHANGED <<fs, temp>>
    BY <1>4, <1>9 DEF DeleteFails, MoveFails, Fails
  <2> QED
    BY <1>1, <1>3, <2>1 DEF TypeOK
<1>10. CASE MoveToTemporary
  <2>1. it \in Duplicates /\ fs[Name(it)] \in Entries /\ NoEntry \in Entries
    BY <1>4, <1>10, ListFacts DEF MoveToTemporary, TypeOK, Entries
  <2>2. fs' \in [Dirents -> Entries] /\ temp' \in [DOMAIN m_list -> Entries]
    BY <1>10, <2>1 DEF MoveToTemporary, TypeOK
  <2>3. TypeOK'
    BY <1>1, <1>10, <2>2 DEF MoveToTemporary, Succeeds, Stay, TypeOK
  <2>4. Control'
    BY <1>2, <1>10, <2>1 DEF MoveToTemporary, Stay, AtDuplicate, Control, InTransaction
  <2> QED
    BY <2>3, <2>4
<1>11. CASE MakeSymlink \/ MakeHardlink
  <2>1. it \in Duplicates /\ InTransaction /\ pc' = "linked" /\ Stay /\ UNCHANGED <<temp, failed>>
    BY <1>5, <1>11 DEF MakeSymlink, MakeHardlink, InTransaction, Succeeds
  <2>2. Name(original) \in Dirents
    BY <2>1, OriginalLeads
  <2>3. LinkTargets(original, it) \cup LinkedEntries(original, it) \subseteq Entries
    BY <2>2 DEF LinkTargets, LinkedEntries, Entries, TypeOK
  <2>4. fs' \in [Dirents -> Entries]
    BY <1>11, <2>3 DEF MakeSymlink, MakeHardlink, TypeOK
  <2>5. TypeOK'
    BY <1>1, <2>1, <2>4 DEF Stay, TypeOK
  <2>6. Control'
    BY <1>2, <2>1 DEF Stay, Control, InTransaction
  <2> QED
    BY <2>5, <2>6
<1>12. CASE LinkFails
  <2>1. InTransaction /\ pc' = "rollback" /\ Stay /\ UNCHANGED <<fs, temp>> /\ failed' = TRUE
    BY <1>12 DEF LinkFails, Fails, InTransaction
  <2>2. TypeOK'
    BY <1>1, <2>1 DEF Stay, TypeOK
  <2>3. Control'
    BY <1>2, <2>1 DEF Stay, Control, InTransaction
  <2> QED
    BY <2>2, <2>3
<1>13. CASE UnlinkTemporary
  <2>1. it \in Duplicates /\ NextItem(TRUE) /\ UNCHANGED <<fs, failed>>
    BY <1>5, <1>13 DEF UnlinkTemporary, InTransaction, Succeeds
  <2>2. temp' \in [DOMAIN m_list -> Entries]
    BY <1>13 DEF UnlinkTemporary, TypeOK, Entries
  <2> QED
    BY <1>1, <1>3, <2>1, <2>2 DEF TypeOK
<1>14. CASE UnlinkFails \/ UndoFails
  <2>1. it \in Duplicates /\ NextItem(FALSE) /\ failed' = TRUE /\ UNCHANGED <<fs, temp>>
    BY <1>5, <1>14 DEF UnlinkFails, UndoFails, Fails, InTransaction
  <2> QED
    BY <1>1, <1>3, <2>1 DEF TypeOK
<1>15. CASE Undo
  <2>1. it \in Duplicates /\ NextItem(FALSE) /\ UNCHANGED failed
    BY <1>5, <1>15 DEF Undo, InTransaction, Succeeds
  <2>2. temp[it] \in Entries /\ NoEntry \in Entries
    BY <2>1, ListFacts DEF TypeOK, Entries
  <2>3. fs' \in [Dirents -> Entries] /\ temp' \in [DOMAIN m_list -> Entries]
    BY <1>15, <2>2 DEF Undo, TypeOK
  <2> QED
    BY <1>1, <1>3, <2>1, <2>3 DEF TypeOK
<1>16. CASE Return \/ Crash
  <2>1. pc' \in {"done", "crashed"}
        /\ UNCHANGED <<fs, temp, it, original, ntimesapplied, failed, removed>>
    BY <1>16 DEF Return, Crash, TypeOK
  <2>2. TypeOK'
    BY <1>1, <2>1 DEF TypeOK
  <2>3. Control'
    BY <1>2, <2>1 DEF Control, InTransaction
  <2> QED
    BY <2>2, <2>3
<1>17. ASSUME NEW d \in Dirents, UserRemoves(d)
       PROVE  TypeOK' /\ Control'
  <2>1. UNCHANGED <<temp, it, original, ntimesapplied, pc, failed>>
        /\ removed' \in SUBSET Dirents
    BY <1>17 DEF UserRemoves, TypeOK
  <2>2. fs' \in [Dirents -> Entries]
    BY <1>17 DEF UserRemoves, TypeOK, Entries
  <2>3. TypeOK'
    BY <1>1, <2>1, <2>2 DEF TypeOK
  <2>4. InTransaction' = InTransaction /\ options' = options
    BY <1>1, <2>1 DEF InTransaction
  <2>5. Control'
    BY <1>2, <2>1, <2>4 DEF Control
  <2> QED
    BY <2>3, <2>5
<1>18. CASE UNCHANGED vars
  <2>1. TypeOK'
    BY <1>18 DEF TypeOK
  <2>2. Control'
    BY <1>2, <1>18 DEF Control, InTransaction
  <2> QED
    BY <2>1, <2>2
<1> QED
  BY <1>6, <1>7, <1>8, <1>9, <1>10, <1>11, <1>12, <1>13, <1>14, <1>15, <1>16, <1>17, <1>18
     DEF Next, System, Stopped

(* The state is well typed whatever list, file system and failures.         *)
THEOREM ActionsTypeCorrect == Spec => []TypeOK
<1>1. TypeOK /\ Control /\ [Next]_vars => TypeOK' /\ Control'
  BY TypeNext
<1> QED
  BY TypeInit, <1>1, PTL DEF Spec

-----------------------------------------------------------------------------
(* What the scan found stays true of the file system as it was then.        *)

IInv == TypeOK /\ Control /\ Scanned(before) /\ OnlyDuplicatesChange

LEMMA DistinctNames ==
  ASSUME TypeOK, Scanned(before), Collapsing,
         NEW j \in DOMAIN m_list, NEW k \in DOMAIN m_list, Name(j) = Name(k)
  PROVE  j = k
<1>1. options.remove_identical_inode
  BY DEF Collapsing, TypeOK
<1>2. PICK i \in Inodes : Resolves(before, Name(j), i)
  BY DEF Scanned
<1>3. Resolves(before, Name(k), i)
  BY <1>2
<1> QED
  BY <1>1, <1>2, <1>3 DEF Scanned

LEMMA ScannedInit == Init => Scanned(before)
BY DEF Init

LEMMA GivenStays ==
  ASSUME [Next]_vars
  PROVE  /\ m_list' = m_list /\ options' = options /\ before' = before
         /\ Duplicates' = Duplicates /\ Originals' = Originals /\ Action' = Action
         /\ \A k : Name(k)' = Name(k)
         /\ \A j, k : IsLeader(j, k)' = IsLeader(j, k)
         /\ \A k : Astray(k)' = Astray(k)
         /\ removed' = {} => removed = {}
<1>1. m_list' = m_list /\ options' = options /\ before' = before
  BY DEF Next, System, SeeOriginal, DryRun, DeleteFile, DeleteFails, MoveToTemporary,
         MoveFails, MakeSymlink, MakeHardlink, LinkFails, UnlinkTemporary, UnlinkFails,
         Undo, UndoFails, Return, Crash, UserRemoves, Stopped, NextItem, Stay, vars, given
<1>2. removed' = {} => removed = {}
  BY DEF Next, System, SeeOriginal, DryRun, DeleteFile, DeleteFails, MoveToTemporary,
         MoveFails, MakeSymlink, MakeHardlink, LinkFails, UnlinkTemporary, UnlinkFails,
         Undo, UndoFails, Return, Crash, UserRemoves, Stopped, NextItem, Stay, vars
<1>3. /\ Duplicates' = Duplicates /\ Originals' = Originals /\ Action' = Action
      /\ \A k : Name(k)' = Name(k)
  BY <1>1 DEF Duplicates, Originals, Action, Name
<1>4. \A j, k : IsLeader(j, k)' = IsLeader(j, k)
  BY <1>3 DEF IsLeader
<1>5. \A k : Astray(k)' = Astray(k)
  BY <1>1, <1>3, <1>4 DEF Astray, Elsewhere
<1> QED
  BY <1>1, <1>2, <1>3, <1>4, <1>5

LEMMA ScannedNext ==
  ASSUME [Next]_vars, Scanned(before)
  PROVE  Scanned(before)'
<1>1. /\ m_list' = m_list /\ options' = options /\ before' = before
      /\ (\A k : Name(k)' = Name(k)) /\ (\A j, k : IsLeader(j, k)' = IsLeader(j, k))
  BY GivenStays
<1> QED
  BY <1>1 DEF Scanned

(* Every step but the user's changes no entry or the one of the duplicate   *)
(* the loop is at.                                                          *)
LEMMA StepChangesOneEntry ==
  ASSUME TypeOK, Control, [Next]_vars, removed' = {}
  PROVE  \/ UNCHANGED fs
         \/ /\ it \in Duplicates
            /\ \A e \in Dirents : e # Name(it) => fs'[e] = fs[e]
<1>1. AtDuplicate \/ InTransaction => it \in Duplicates
  BY DEF AtDuplicate, Duplicates, Control
<1>2. CASE DeleteFile \/ MoveToTemporary
  <2>1. it \in Duplicates
    BY <1>1, <1>2 DEF DeleteFile, MoveToTemporary
  <2> QED
    BY <1>2, <2>1 DEF DeleteFile, MoveToTemporary, TypeOK
<1>3. CASE MakeSymlink \/ MakeHardlink \/ Undo
  <2>1. it \in Duplicates
    BY <1>1, <1>3 DEF MakeSymlink, MakeHardlink, Undo, InTransaction
  <2> QED
    BY <1>3, <2>1 DEF MakeSymlink, MakeHardlink, Undo, TypeOK
<1>4. ASSUME NEW d \in Dirents, UserRemoves(d) PROVE FALSE
  BY <1>4 DEF UserRemoves
<1> QED
  BY <1>2, <1>3, <1>4 DEF Next, System, SeeOriginal, DryRun, DeleteFails, MoveFails,
     LinkFails, UnlinkTemporary, UnlinkFails, UndoFails, Return, Crash, Stopped, vars

LEMMA OnlyDuplicatesChangeNext ==
  ASSUME TypeOK, Control, OnlyDuplicatesChange, [Next]_vars
  PROVE  OnlyDuplicatesChange'
<1> SUFFICES ASSUME removed' = {}, NEW e \in Dirents, \A k \in Duplicates : e # Name(k)
             PROVE  fs'[e] = before[e]
  BY GivenStays DEF OnlyDuplicatesChange
<1>1. fs[e] = before[e]
  BY GivenStays DEF OnlyDuplicatesChange
<1> QED
  BY <1>1, StepChangesOneEntry

LEMMA InductiveActions == Spec => []IInv
<1>1. Init => IInv
  BY TypeInit, ScannedInit DEF Init, IInv, OnlyDuplicatesChange
<1>2. IInv /\ [Next]_vars => IInv'
  BY TypeNext, ScannedNext, OnlyDuplicatesChangeNext DEF IInv
<1> QED
  BY <1>1, <1>2, PTL DEF Spec

(* What an entry led to at the scan is still found where no duplicate leads *)
(* to it, or the one that does is unchanged.                                *)
LEMMA StillFound ==
  ASSUME IInv, Collapsing, removed = {}, NEW k \in DOMAIN m_list, NEW i \in Inodes,
         Resolves(before, Name(k), i),
         k \in Duplicates => fs[Name(k)] = before[Name(k)]
  PROVE  Resolves(fs, Name(k), i)
<1>1. options.remove_identical_inode
  BY DEF Collapsing, IInv, TypeOK
<1>2. ASSUME NEW e \in Dirents, Resolves(before, e, i)
      PROVE  fs[e] = before[e]
  <2>1. CASE \A j \in Duplicates : e # Name(j)
    BY <2>1 DEF IInv, OnlyDuplicatesChange
  <2>2. CASE \E j \in Duplicates : e = Name(j)
    <3>1. PICK j \in Duplicates : e = Name(j)
      BY <2>2
    <3>2. j \in DOMAIN m_list /\ Resolves(before, Name(j), i)
      BY <1>2, <3>1 DEF Duplicates
    <3>3. j = k
      BY <1>1, <3>2 DEF IInv, Scanned
    <3> QED
      BY <3>1, <3>3
  <2> QED
    BY <2>1, <2>2
<1>3. Name(k) \in Dirents /\ fs \in [Dirents -> Entries] /\ before \in [Dirents -> Entries]
  BY ListFacts DEF IInv, TypeOK
<1> QED
  BY <1>2, <1>3, LookupAgrees

(* With inodes collapsed, every original leads to the file it led to at the *)
(* scan, in every state, also after a crash: no system call of an action    *)
(* touches an original or a link on the way to it.                          *)
THEOREM OriginalsSafe ==
  ASSUME Collapsing
  PROVE  Spec => []OriginalsStayReadable
<1>1. IInv => OriginalsStayReadable
  <2> SUFFICES ASSUME IInv, removed = {}, NEW o \in Originals, NEW i \in Inodes,
                      Resolves(before, Name(o), i)
               PROVE  Resolves(fs, Name(o), i)
    BY DEF OriginalsStayReadable
  <2>1. o \in DOMAIN m_list /\ o \notin Duplicates
    BY ListFacts DEF IInv
  <2> QED
    BY <2>1, StillFound
<1> QED
  BY <1>1, InductiveActions, PTL

-----------------------------------------------------------------------------
(* What becomes of the duplicates.                                          *)

LEMMA ProgressInit == Init => Progress
BY DEF Init, Progress, Fate, InTransaction

(* The entry of the duplicate at hand changes; the fate of others does not. *)
LEMMA OthersKeepTheirFate ==
  ASSUME IInv, Collapsing, Progress, [Next]_vars, removed' = {}, it' >= it,
         \A k \in Duplicates : k # it => temp'[k] = temp[k],
         NEW k \in Duplicates, k # it
  PROVE  fs'[Name(k)] = fs[Name(k)] /\ Fate(k)'
<1>1. removed = {} /\ Fate(k)
  BY GivenStays DEF Progress
<1>2. k \in DOMAIN m_list /\ k \in Nat /\ Name(k) \in Dirents /\ it \in Nat /\ it' \in Nat
  <2>1. TypeOK'
    BY TypeNext DEF IInv
  <2> QED
    BY <2>1, ListFacts DEF IInv, TypeOK
<1>3. fs'[Name(k)] = fs[Name(k)]
  <2>1. CASE UNCHANGED fs
    BY <2>1
  <2>2. CASE it \in Duplicates /\ \A e \in Dirents : e # Name(it) => fs'[e] = fs[e]
    <3>1. Name(k) # Name(it)
      BY <1>2, <2>2, DistinctNames, ListFacts DEF IInv
    <3> QED
      BY <1>2, <2>2, <3>1
  <2> QED
    BY <2>1, <2>2, StepChangesOneEntry DEF IInv
<1>4. temp'[k] = temp[k]
  OBVIOUS
<1> SUFFICES Fate(k)'
  BY <1>3
<1>5. CASE fs[Name(k)] = before[Name(k)]
  BY <1>3, <1>5, GivenStays DEF Fate
<1>6. CASE SetAside(k)
  BY <1>4, <1>6, GivenStays DEF Fate, SetAside
<1>7. CASE Linked(k)
  <2>1. PICK o \in Originals :
           IsLeader(o, k) /\ (fs[Name(k)] = Name(o) \/ fs[Name(k)] = before[Name(o)])
    BY <1>7 DEF Linked
  <2>2. Linked(k)'
    BY <1>3, <2>1, GivenStays DEF Linked
  <2> QED
    BY <2>2 DEF Fate
<1>8. CASE Action = "delete" /\ ~options.dryrun /\ k < it
  BY <1>2, <1>8, GivenStays DEF Fate
<1>9. CASE Astray(k)
  BY <1>9, GivenStays DEF Fate
<1> QED
  BY <1>1, <1>3, <1>5, <1>6, <1>7, <1>8, <1>9 DEF Fate

(* The loop goes on to the next item, the fate of this one being settled.   *)
LEMMA NextItemProgress ==
  ASSUME IInv, Collapsing, Progress, [Next]_vars, removed' = {},
         NEW d \in Duplicates, d = it, it' = it + 1, pc' = "loop",
         \A k \in Duplicates : k # it => temp'[k] = temp[k],
         Fate(d)'
  PROVE  Progress'
<1>1. it \in Nat /\ it' >= it /\ removed = {}
  BY GivenStays DEF IInv, TypeOK
<1>2. \A k \in Duplicates : k \in Nat
  BY ListFacts DEF IInv
<1>3. \A k \in Duplicates : k # it => fs'[Name(k)] = fs[Name(k)] /\ Fate(k)'
  BY <1>1, OthersKeepTheirFate
<1>4. \A k \in Duplicates : Fate(k)'
  <2> TAKE k \in Duplicates
  <2>1. CASE k = d
    BY <2>1
  <2>2. CASE k # d
    BY <1>3, <2>2
  <2> QED
    BY <2>1, <2>2
<1>5. ASSUME NEW k \in Duplicates, k >= it'
      PROVE  fs'[Name(k)] = before[Name(k)]
  <2>1. k > it /\ k # it
    BY <1>1, <1>2, <1>5
  <2> QED
    BY <1>1, <1>3, <2>1 DEF Progress
<1>6. \A k \in Duplicates' : k > it' \/ (k = it' /\ pc' = "loop") => fs'[Name(k)'] = before'[Name(k)']
  <2> SUFFICES ASSUME NEW k \in Duplicates, k > it' \/ k = it'
               PROVE  fs'[Name(k)] = before[Name(k)]
    BY GivenStays
  <2>1. k >= it'
    BY <1>1, <1>2
  <2> QED
    BY <1>5, <2>1
<1>7. \A k \in Duplicates' : Fate(k)'
  BY <1>4, GivenStays
<1>8. ~InTransaction' /\ pc' # "linked"
  BY DEF InTransaction
<1> QED
  BY <1>6, <1>7, <1>8 DEF Progress

(* A transaction on the duplicate at hand goes on: it is set aside.         *)
LEMMA SameItemProgress ==
  ASSUME IInv, Collapsing, Progress, [Next]_vars, removed' = {},
         NEW d \in Duplicates, d = it, it' = it,
         pc' \in {"moved", "linked", "rollback"},
         \A k \in Duplicates : k # it => temp'[k] = temp[k],
         SetAside(d)', pc' = "linked" => Linked(d)' \/ Astray(d)'
  PROVE  Progress'
<1>1. it \in Nat /\ it' >= it /\ removed = {} /\ it' = d
  BY GivenStays DEF IInv, TypeOK
<1>2. \A k \in Duplicates : k # it => fs'[Name(k)] = fs[Name(k)] /\ Fate(k)'
  BY <1>1, OthersKeepTheirFate
<1>3. Fate(d)'
  BY DEF Fate
<1>4. \A k \in Duplicates' : Fate(k)'
  BY <1>2, <1>3, GivenStays
<1>5. \A k \in Duplicates' : k > it' \/ (k = it' /\ pc' = "loop") => fs'[Name(k)'] = before'[Name(k)']
  <2> SUFFICES ASSUME NEW k \in Duplicates, k > it
               PROVE  fs'[Name(k)] = before[Name(k)]
    BY <1>1, GivenStays
  <2>1. k # it
    BY <1>1, ListFacts DEF IInv
  <2> QED
    BY <1>1, <1>2, <2>1 DEF Progress
<1>6. SetAside(it)' /\ (pc' = "linked" => Linked(it)' \/ Astray(it)')
  BY <1>1
<1> QED
  BY <1>4, <1>5, <1>6 DEF Progress

LEMMA ProgressNext ==
  ASSUME IInv, Collapsing, ShortCwd, Progress, [Next]_vars
  PROVE  Progress'
<1> SUFFICES ASSUME removed' = {} PROVE Progress'
  BY DEF Progress
<1>1. removed = {} /\ IInv /\ TypeOK /\ Control
  BY GivenStays DEF IInv
<1>2. AtDuplicate => it \in Duplicates /\ pc = "loop"
  BY DEF AtDuplicate, Duplicates
<1>3. InTransaction => it \in Duplicates /\ SetAside(it)
  BY <1>1 DEF Control, Progress
<1>4. \A k \in Duplicates : k \in DOMAIN m_list /\ k \in Nat /\ Name(k) \in Dirents
  BY <1>1, ListFacts
<1>5. temp \in [DOMAIN m_list -> Entries] /\ fs \in [Dirents -> Entries] /\ it \in Nat
  BY <1>1 DEF TypeOK
<1>6. CASE SeeOriginal
  <2>1. it \notin Duplicates /\ it' = it + 1 /\ UNCHANGED <<fs, temp, pc>> /\ pc = "loop"
    BY <1>1, <1>6, ListFacts DEF SeeOriginal
  <2>2. \A k \in Duplicates : fs'[Name(k)] = fs[Name(k)] /\ Fate(k)'
    BY <1>1, <1>5, <2>1, OthersKeepTheirFate
  <2>3. \A k \in Duplicates' : Fate(k)'
    BY <2>2, GivenStays
  <2>4. \A k \in Duplicates' : k > it' \/ (k = it' /\ pc' = "loop") => fs'[Name(k)'] = before'[Name(k)']
    <3> SUFFICES ASSUME NEW k \in Duplicates, k > it' \/ k = it'
                 PROVE  fs'[Name(k)] = before[Name(k)]
      BY GivenStays
    <3>1. k > it
      BY <1>4, <1>5, <2>1
    <3> QED
      BY <1>1, <2>2, <3>1 DEF Progress
  <2>5. ~InTransaction' /\ pc' # "linked"
    BY <2>1 DEF InTransaction
  <2> QED
    BY <2>3, <2>4, <2>5 DEF Progress
<1>7. CASE DryRun \/ DeleteFails \/ MoveFails
  <2>1. AtDuplicate /\ it' = it + 1 /\ pc' = "loop" /\ UNCHANGED <<fs, temp>>
    BY <1>7 DEF DryRun, DeleteFails, MoveFails, NextItem
  <2>2. PICK d \in Duplicates : d = it
    BY <1>2, <2>1
  <2>3. fs[Name(d)] = before[Name(d)]
    BY <1>1, <1>2, <2>1, <2>2 DEF Progress
  <2>4. Fate(d)'
    BY <2>1, <2>3, GivenStays DEF Fate
  <2> QED
    BY <1>1, <2>1, <2>2, <2>4, NextItemProgress
<1>8. CASE DeleteFile
  <2>1. AtDuplicate /\ it' = it + 1 /\ pc' = "loop" /\ UNCHANGED temp
        /\ Action = "delete" /\ ~options.dryrun
    BY <1>8 DEF DeleteFile, NextItem
  <2>2. PICK d \in Duplicates : d = it
    BY <1>2, <2>1
  <2>3. d < it'
    BY <1>5, <2>1, <2>2
  <2>4. Fate(d)'
    BY <2>1, <2>3, GivenStays DEF Fate
  <2> QED
    BY <1>1, <2>1, <2>2, <2>4, NextItemProgress
<1>9. CASE MoveToTemporary
  <2>1. AtDuplicate /\ it' = it /\ pc' = "moved"
        /\ temp' = [temp EXCEPT ![it] = fs[Name(it)]]
    BY <1>9 DEF MoveToTemporary, Stay
  <2>2. PICK d \in Duplicates : d = it
    BY <1>2, <2>1
  <2>3. fs[Name(d)] = before[Name(d)]
    BY <1>1, <1>2, <2>1, <2>2 DEF Progress
  <2>4. temp'[d] = fs[Name(d)] /\ \A k \in Duplicates : k # it => temp'[k] = temp[k]
    BY <1>4, <1>5, <2>1, <2>2
  <2>5. SetAside(d)'
    BY <2>3, <2>4, GivenStays DEF SetAside
  <2> QED
    BY <1>1, <2>1, <2>2, <2>4, <2>5, SameItemProgress
<1>10. CASE MakeSymlink \/ MakeHardlink
  <2>1. InTransaction /\ it' = it /\ pc' = "linked" /\ UNCHANGED temp
    BY <1>10 DEF MakeSymlink, MakeHardlink, Stay, InTransaction
  <2>2. PICK d \in Duplicates : d = it
    BY <1>3, <2>1
  <2>3. SetAside(d)'
    BY <1>3, <2>1, <2>2, GivenStays DEF SetAside
  <2>4. original \in Originals /\ IsLeader(original, d) /\ Name(original) \in Dirents
    BY <1>1, <2>2, OriginalLeads
  <2>5. fs[Name(original)] = before[Name(original)]
    <3>1. \A k \in Duplicates : Name(original) # Name(k)
      BY <1>1, <1>4, <2>4, DistinctNames, ListFacts DEF IInv
    <3> QED
      BY <1>1, <2>4, <3>1 DEF IInv, OnlyDuplicatesChange
  <2>6. \/ fs'[Name(d)] = Name(original) \/ fs'[Name(d)] = before[Name(original)]
        \/ Astray(d)
    <3>1. CASE MakeSymlink
      BY <1>4, <1>5, <2>2, <3>1 DEF MakeSymlink, LinkTargets, ShortCwd
    <3>2. CASE MakeHardlink
      <4>1. PICK e \in LinkedEntries(original, it) : fs' = [fs EXCEPT ![Name(it)] = e]
        BY <3>2 DEF MakeHardlink
      <4>2. fs'[Name(d)] = e
        BY <1>4, <1>5, <2>2, <4>1
      <4>3. CASE Elsewhere(original, d) /\ fs[Name(original)] \in Dirents
        BY <2>4, <2>5, <3>2, <4>3 DEF MakeHardlink, Astray
      <4> QED
        BY <2>2, <2>5, <4>1, <4>2, <4>3 DEF LinkedEntries
    <3> QED
      BY <1>10, <3>1, <3>2
  <2>7. ASSUME ~Astray(d) PROVE Linked(d)'
    <3>1. PICK o \in Originals : o = original
      BY <2>4
    <3>2. /\ IsLeader(o, d)' /\ o \in Originals'
          /\ fs'[Name(d)'] = Name(o)' \/ fs'[Name(d)'] = before'[Name(o)']
      BY <2>4, <2>6, <2>7, <3>1, GivenStays
    <3> QED
      BY <3>2 DEF Linked
  <2>8. Linked(d)' \/ Astray(d)'
    BY <2>7, GivenStays
  <2> QED
    BY <1>1, <2>1, <2>2, <2>3, <2>8, SameItemProgress
<1>11. CASE LinkFails
  <2>1. InTransaction /\ it' = it /\ pc' = "rollback" /\ UNCHANGED temp
    BY <1>11 DEF LinkFails, Stay, InTransaction
  <2>2. PICK d \in Duplicates : d = it
    BY <1>3, <2>1
  <2>3. SetAside(d)'
    BY <1>3, <2>1, <2>2, GivenStays DEF SetAside
  <2> QED
    BY <1>1, <2>1, <2>2, <2>3, SameItemProgress
<1>12. CASE UnlinkTemporary
  <2>1. InTransaction /\ it' = it + 1 /\ pc' = "loop" /\ UNCHANGED fs /\ pc = "linked"
        /\ temp' = [temp EXCEPT ![it] = NoEntry]
    BY <1>12 DEF UnlinkTemporary, NextItem, InTransaction
  <2>2. PICK d \in Duplicates : d = it
    BY <1>3, <2>1
  <2>3. \A k \in Duplicates : k # it => temp'[k] = temp[k]
    BY <1>4, <1>5, <2>1
  <2>4. Linked(d) \/ Astray(d)
    BY <1>1, <2>1, <2>2 DEF Progress
  <2>5. Linked(d) => Linked(d)'
    BY <2>1, GivenStays DEF Linked
  <2>6. Astray(d) => Astray(d)'
    BY GivenStays
  <2>7. Fate(d)'
    BY <2>4, <2>5, <2>6 DEF Fate
  <2> QED
    BY <1>1, <2>1, <2>2, <2>3, <2>7, NextItemProgress
<1>13. CASE UnlinkFails \/ UndoFails
  <2>1. InTransaction /\ it' = it + 1 /\ pc' = "loop" /\ UNCHANGED <<fs, temp>>
    BY <1>13 DEF UnlinkFails, UndoFails, NextItem, InTransaction
  <2>2. PICK d \in Duplicates : d = it
    BY <1>3, <2>1
  <2>3. SetAside(d)'
    BY <1>3, <2>1, <2>2, GivenStays DEF SetAside
  <2>4. Fate(d)'
    BY <2>3 DEF Fate
  <2> QED
    BY <1>1, <2>1, <2>2, <2>4, NextItemProgress
<1>14. CASE Undo
  <2>1. InTransaction /\ it' = it + 1 /\ pc' = "loop"
        /\ fs' = [fs EXCEPT ![Name(it)] = temp[it]] /\ temp' = [temp EXCEPT ![it] = NoEntry]
    BY <1>14 DEF Undo, NextItem, InTransaction
  <2>2. PICK d \in Duplicates : d = it
    BY <1>3, <2>1
  <2>3. \A k \in Duplicates : k # it => temp'[k] = temp[k]
    BY <1>4, <1>5, <2>1
  <2>4. fs'[Name(d)] = before[Name(d)]
    BY <1>3, <1>4, <1>5, <2>1, <2>2 DEF SetAside
  <2>5. Fate(d)'
    BY <2>4, GivenStays DEF Fate
  <2> QED
    BY <1>1, <2>1, <2>2, <2>3, <2>5, NextItemProgress
<1>15. CASE Return \/ Crash \/ Stopped \/ UNCHANGED vars
  <2>1. UNCHANGED <<fs, temp, it>> /\ (pc' \in {"done", "crashed"} \/ pc' = pc)
    BY <1>15 DEF Return, Crash, Stopped, vars
  <2>2. ASSUME NEW k \in Duplicates PROVE Fate(k)'
    <3>1. Fate(k)
      BY <1>1 DEF Progress
    <3>2. fs'[Name(k)'] = fs[Name(k)] /\ temp'[k] = temp[k] /\ before'[Name(k)'] = before[Name(k)]
      BY <2>1, GivenStays
    <3>3. Linked(k) => Linked(k)'
      BY <3>2, GivenStays DEF Linked
    <3>4. SetAside(k) => SetAside(k)'
      BY <3>2 DEF SetAside
    <3>5. Action' = Action /\ options' = options /\ (Astray(k) => Astray(k)')
      BY GivenStays
    <3> QED
      BY <2>1, <3>1, <3>2, <3>3, <3>4, <3>5 DEF Fate
  <2>3. \A k \in Duplicates' : Fate(k)'
    BY <2>2, GivenStays
  <2>4. \A k \in Duplicates' : k > it' \/ (k = it' /\ pc' = "loop") => fs'[Name(k)'] = before'[Name(k)']
    <3> SUFFICES ASSUME NEW k \in Duplicates, k > it' \/ (k = it' /\ pc' = "loop")
                 PROVE  fs'[Name(k)] = before[Name(k)]
      BY GivenStays
    <3>1. k > it \/ (k = it /\ pc = "loop")
      BY <2>1
    <3> QED
      BY <1>1, <2>1, <3>1 DEF Progress
  <2>5. InTransaction' => InTransaction /\ pc' = pc
    BY <2>1 DEF InTransaction
  <2>6. pc' = "linked" => InTransaction'
    BY DEF InTransaction
  <2>7. InTransaction' => SetAside(it)' /\ (pc' = "linked" => Linked(it)' \/ Astray(it)')
    <3> SUFFICES ASSUME InTransaction'
                 PROVE  SetAside(it)' /\ (pc' = "linked" => Linked(it)' \/ Astray(it)')
      OBVIOUS
    <3>1. PICK d \in Duplicates : d = it
      BY <1>3, <2>5
    <3>2. SetAside(d) /\ (pc' = "linked" => Linked(d) \/ Astray(d))
      BY <1>1, <2>5, <3>1 DEF Progress
    <3>3. fs'[Name(d)'] = fs[Name(d)] /\ temp'[d] = temp[d] /\ before'[Name(d)'] = before[Name(d)]
      BY <2>1, GivenStays
    <3>4. (Linked(d) => Linked(d)') /\ (Astray(d) => Astray(d)')
      BY <3>3, GivenStays DEF Linked
    <3>5. SetAside(d)'
      BY <3>2, <3>3 DEF SetAside
    <3>6. it' = d
      BY <2>1, <3>1
    <3> QED
      BY <3>2, <3>4, <3>5, <3>6
  <2> QED
    BY <2>3, <2>4, <2>6, <2>7 DEF Progress
<1>16. ASSUME NEW d \in Dirents, UserRemoves(d) PROVE FALSE
  BY <1>16 DEF UserRemoves
<1> QED
  BY <1>6, <1>7, <1>8, <1>9, <1>10, <1>11, <1>12, <1>13, <1>14, <1>15, <1>16
     DEF Next, System

(* With inodes collapsed and a working directory that can be named, every   *)
(* duplicate but those that are to be a hard link to a relative symbolic    *)
(* link leads to its content, is set aside under a temporary name or was    *)
(* deleted as asked, in every state, also after failures and a crash: no    *)
(* replacement unlinks a file before the link to its original is there.     *)
THEOREM OthersSafe ==
  ASSUME Collapsing, ShortCwd
  PROVE  Spec => []OthersStayReadable
<1>1. IInv /\ Progress => OthersStayReadable
  <2> SUFFICES ASSUME IInv, Progress, removed = {}, NEW k \in Duplicates,
                      ~SetAside(k), ~Astray(k), ~(Action = "delete" /\ ~options.dryrun /\ k < it)
               PROVE  Readable(k)
    BY DEF OthersStayReadable, InReach
  <2>1. Fate(k) /\ k \in DOMAIN m_list /\ Name(k) \in Dirents
    BY ListFacts DEF Progress, IInv
  <2>2. fs \in [Dirents -> Entries]
    BY DEF IInv, TypeOK
  <2>3. PICK i \in Inodes : Resolves(before, Name(k), i)
    BY <2>1 DEF IInv, Scanned
  <2>4. CASE fs[Name(k)] = before[Name(k)]
    <3>1. Resolves(fs, Name(k), i)
      BY <2>1, <2>3, <2>4, StillFound
    <3> QED
      BY <2>3, <3>1 DEF Readable
  <2>5. CASE Linked(k)
    <3>1. PICK o \in Originals :
             IsLeader(o, k) /\ (fs[Name(k)] = Name(o) \/ fs[Name(k)] = before[Name(o)])
      BY <2>5 DEF Linked
    <3>2. o \in DOMAIN m_list /\ o \notin Duplicates /\ Name(o) \in Dirents
      BY <3>1, ListFacts DEF IInv
    <3>3. PICK j \in Inodes : Resolves(before, Name(o), j)
      BY <3>2 DEF IInv, Scanned
    <3>4. Resolves(fs, Name(o), j)
      BY <3>2, <3>3, StillFound
    <3>5. Content(j) = Content(i)
      BY <2>1, <2>3, <3>1, <3>2, <3>3 DEF IInv, Scanned
    <3>6. Resolves(fs, Name(k), j)
      <4>1. CASE fs[Name(k)] = Name(o)
        BY <2>1, <2>2, <3>2, <3>4, <4>1, LookupThroughLink
      <4>2. CASE fs[Name(k)] = before[Name(o)]
        <5>1. \A q \in Duplicates : Name(o) # Name(q)
          BY <3>2, DistinctNames, ListFacts DEF IInv
        <5>2. fs[Name(o)] = before[Name(o)]
          BY <3>2, <5>1 DEF IInv, OnlyDuplicatesChange
        <5> QED
          BY <2>1, <2>2, <3>2, <3>4, <4>2, <5>2, LookupOfSameEntry
      <4> QED
        BY <3>1, <4>1, <4>2
    <3> QED
      BY <2>3, <3>5, <3>6 DEF Readable
  <2> QED
    BY <2>1, <2>4, <2>5 DEF Fate
<1>2. Init => Progress
  BY ProgressInit
<1>3. IInv /\ Progress /\ [Next]_vars => Progress'
  BY ProgressNext
<1> QED
  BY <1>1, <1>2, <1>3, InductiveActions, PTL DEF Spec

(* Where no hard link is made to a relative symbolic link, the same is true *)
(* of every duplicate.                                                      *)
THEOREM DuplicatesSafe ==
  ASSUME Collapsing, ShortCwd, NoRelativeOriginals
  PROVE  Spec => []DuplicatesStayReadable
<1>1. IInv /\ OthersStayReadable => DuplicatesStayReadable
  <2> SUFFICES ASSUME IInv, OthersStayReadable, removed = {}, NEW k \in Duplicates
               PROVE  InReach(k)
    BY DEF DuplicatesStayReadable
  <2>1. ~Astray(k)
    <3> SUFFICES ASSUME Astray(k)
                 PROVE  FALSE
      OBVIOUS
    <3>1. PICK o \in Originals : LinksAreRelative /\ before[Name(o)] \in Dirents
      BY DEF Astray, Elsewhere
    <3>2. options \in OptionSets /\ options.makehardlinks /\ ~options.makesymlinks
      <4>1. options \in OptionSets
        BY DEF IInv, TypeOK
      <4>2. Action = "hardlink"
        BY DEF Astray
      <4> QED
        BY <4>1, <4>2, OptionsAssumption DEF Action
    <3>3. ~options.followsymlinks
      BY <3>1, <3>2 DEF NoRelativeOriginals
    <3>4. before[Name(o)] \in Inodes
      BY <3>1, <3>3, ListFacts DEF IInv, Scanned, Originals
    <3> QED
      BY <3>1, <3>4, EntriesAssumption
  <2> QED
    BY <2>1 DEF OthersStayReadable
<1> QED
  BY <1>1, InductiveActions, OthersSafe, PTL

-----------------------------------------------------------------------------
(* What is done to all of the duplicates, and counted.                      *)

(* No name is on a list twice. *)
NamesOnce == \A l \in Lists : \A j, k \in DOMAIN l : l[j].name = l[k].name => j = k
Distinct == Collapsing \/ NamesOnce

Passed == {k \in Duplicates : k < it}
Working == Action # "none" /\ removed = {} /\ pc # "crashed"
CountIsExact ==
  ~options.dryrun /\ options.remove_identical_inode /\ \A k \in Duplicates : ~Astray(k)

(* The link to the original of k has been made. *)
InPlace(k) ==
  \A o \in Originals :
    IsLeader(o, k) =>
      /\ Action = "symlink" => fs[Name(k)] = Name(o)
      /\ Action = "hardlink" => fs[Name(k)] = before[Name(o)] \/ Astray(k)

Handled(k) ==
  IF options.dryrun
    THEN Untouched(k)
    ELSE Replaced(k) \/ (failed /\ (Untouched(k) \/ SetAside(k)))

(* How far the loop has come, with what it has counted. *)
Tally ==
  Working =>
    /\ pc # "return" /\ (pc = "done" => it = Len(m_list) + 1)
    /\ \A k \in Duplicates : k > it \/ (k = it /\ pc = "loop") => Untouched(k)
    /\ \A k \in Passed : Handled(k)
    /\ InTransaction => SetAside(it)
    /\ pc = "linked" => InPlace(it)
    /\ pc = "rollback" => failed
    /\ options.dryrun \/ ~failed => ntimesapplied = Cardinality(Passed)
    /\ CountIsExact => ntimesapplied = Cardinality({k \in Passed : Replaced(k)})

LEMMA NamesDiffer ==
  ASSUME IInv, Distinct, NEW j \in DOMAIN m_list, NEW k \in DOMAIN m_list, Name(j) = Name(k)
  PROVE  j = k
<1>1. CASE Collapsing
  BY <1>1, DistinctNames DEF IInv
<1>2. CASE NamesOnce
  BY <1>2 DEF IInv, TypeOK, NamesOnce, Name
<1> QED
  BY <1>1, <1>2 DEF Distinct

(* Every duplicate the scan found was something, *)
LEMMA ThereAtScan ==
  ASSUME IInv, NEW k \in DOMAIN m_list
  PROVE  before[Name(k)] # NoEntry
<1>1. PICK i \in Inodes : Resolves(before, Name(k), i)
  BY DEF IInv, Scanned
<1>2. Name(k) \in Dirents
  BY ListFacts DEF IInv
<1> SUFFICES ASSUME before[Name(k)] = NoEntry PROVE FALSE
  OBVIOUS
<1>3. {Name(k)} \in SUBSET Dirents
  BY <1>2
<1>4. \A e \in {Name(k)} : before[e] \in Dirents => before[e] \in {Name(k)}
  BY EntriesAssumption
<1>5. \E e \in {Name(k)} : before[e] = i
  BY <1>1, <1>3, <1>4 DEF Resolves
<1> QED
  BY <1>5, EntriesAssumption

(* and with inodes collapsed no link to its original. *)
LEMMA NoLinkAtScan ==
  ASSUME IInv, options.remove_identical_inode, NEW k \in Duplicates, NEW o \in Originals
  PROVE  before[Name(k)] # Name(o) /\ before[Name(k)] # before[Name(o)]
<1>1. /\ k \in DOMAIN m_list /\ o \in DOMAIN m_list /\ o # k
      /\ Name(k) \in Dirents /\ Name(o) \in Dirents
      /\ before \in [Dirents -> Entries]
  BY ListFacts DEF IInv, TypeOK
<1>2. PICK i \in Inodes : Resolves(before, Name(o), i)
  BY <1>1 DEF IInv, Scanned
<1>3. ~Resolves(before, Name(k), i)
  BY <1>1, <1>2 DEF IInv, Scanned
<1>4. before[Name(k)] # Name(o)
  BY <1>1, <1>2, <1>3, LookupThroughLink
<1>5. before[Name(k)] # before[Name(o)]
  BY <1>1, <1>2, <1>3, LookupOfSameEntry
<1> QED
  BY <1>4, <1>5

(* A step leaves all duplicates alone but the one the loop is at. *)
LEMMA OthersStay ==
  ASSUME IInv, Distinct, [Next]_vars, removed' = {}, NEW k \in Duplicates, k # it
  PROVE  /\ Untouched(k)' <=> Untouched(k)
         /\ SetAside(k)' <=> SetAside(k)
         /\ Replaced(k)' <=> Replaced(k)
<1>1. k \in DOMAIN m_list /\ Name(k) \in Dirents /\ TypeOK /\ Control
  BY ListFacts DEF IInv
<1>2. fs'[Name(k)] = fs[Name(k)]
  <2>1. CASE UNCHANGED fs
    BY <2>1
  <2>2. CASE it \in Duplicates /\ \A e \in Dirents : e # Name(it) => fs'[e] = fs[e]
    <3>1. it \in DOMAIN m_list
      BY <1>1, <2>2, ListFacts
    <3>2. Name(k) # Name(it)
      BY <1>1, <3>1, NamesDiffer
    <3> QED
      BY <1>1, <2>2, <3>2
  <2> QED
    BY <1>1, <2>1, <2>2, StepChangesOneEntry
<1>3. temp'[k] = temp[k]
  <2>1. temp \in [DOMAIN m_list -> Entries]
    BY <1>1 DEF TypeOK
  <2>2. CASE MoveToTemporary
    BY <1>1, <2>1, <2>2 DEF MoveToTemporary
  <2>3. CASE UnlinkTemporary \/ Undo
    BY <1>1, <2>1, <2>3 DEF UnlinkTemporary, Undo
  <2> QED
    BY <2>2, <2>3 DEF Next, System, SeeOriginal, DryRun, DeleteFile, DeleteFails, MoveFails,
       MakeSymlink, MakeHardlink, LinkFails, UnlinkFails, UndoFails, Return, Crash,
       UserRemoves, Stopped, vars
<1>4. /\ before' = before /\ Name(k)' = Name(k) /\ Action' = Action /\ Originals' = Originals
      /\ Astray(k)' = Astray(k)
      /\ \A o : Name(o)' = Name(o) /\ IsLeader(o, k)' = IsLeader(o, k)
  BY GivenStays
<1>5. (Untouched(k)' <=> Untouched(k)) /\ (SetAside(k)' <=> SetAside(k))
  BY <1>2, <1>3, <1>4 DEF Untouched, SetAside
<1>6. Replaced(k)' <=> Replaced(k)
  BY <1>2, <1>3, <1>4 DEF Replaced
<1> QED
  BY <1>5, <1>6

LEMMA PassedFinite ==
  ASSUME TypeOK
  PROVE  IsFiniteSet(Duplicates) /\ IsFiniteSet(Passed)
<1>1. Duplicates \subseteq 1 .. Len(m_list) /\ 1 \in Int /\ Len(m_list) \in Int
  BY ListFacts
<1>2. IsFiniteSet(1 .. Len(m_list))
  BY <1>1, FS_Interval
<1> QED
  BY <1>1, <1>2, FS_Subset DEF Passed

(* What a step carries over of all duplicates but the one it is about. *)
LEMMA OthersHandled ==
  ASSUME IInv, Distinct, Tally, Working, [Next]_vars, removed' = {}, failed => failed',
         NEW k \in Duplicates, k # it
  PROVE  (k < it => Handled(k)') /\ (k > it => Untouched(k)')
<1>1. options' = options
  BY GivenStays
<1>2. /\ Untouched(k)' <=> Untouched(k)
      /\ SetAside(k)' <=> SetAside(k)
      /\ Replaced(k)' <=> Replaced(k)
  BY OthersStay
<1>3. (k < it => Handled(k)) /\ (k > it => Untouched(k))
  BY DEF Tally, Passed
<1> QED
  BY <1>1, <1>2, <1>3 DEF Handled

(* What was left alone does not look replaced. *)
LEMMA UntouchedIsNotReplaced ==
  ASSUME IInv, [Next]_vars, CountIsExact, Action \in {"delete", "symlink", "hardlink"},
         NEW d \in Duplicates, d = it, Untouched(d)'
  PROVE  ~Replaced(d)'
<1>1. d \in DOMAIN m_list /\ original \in Originals /\ IsLeader(original, d)
  BY OriginalLeads DEF IInv
<1>2. fs'[Name(d)] = before[Name(d)]
  BY GivenStays DEF Untouched
<1>3. /\ before[Name(d)] # NoEntry /\ before[Name(d)] # Name(original)
      /\ before[Name(d)] # before[Name(original)]
  BY <1>1, ThereAtScan, NoLinkAtScan DEF CountIsExact
<1>4. ~Astray(d)
  BY DEF CountIsExact
<1> SUFFICES ASSUME Replaced(d)' PROVE FALSE
  OBVIOUS
<1>5. PICK o \in Originals : o = original
  BY <1>1
<1>6. /\ Action = "delete" => fs'[Name(d)] = NoEntry
      /\ Action = "symlink" => fs'[Name(d)] = Name(o)
      /\ Action = "hardlink" => fs'[Name(d)] = before[Name(o)]
  BY <1>1, <1>4, <1>5, GivenStays DEF Replaced
<1> QED
  BY <1>2, <1>3, <1>5, <1>6

(* The loop goes on to the next item, having handled and counted this one.  *)
LEMMA NextItemTally ==
  ASSUME IInv, Distinct, Tally, Working, [Next]_vars, removed' = {}, failed => failed',
         NEW d \in Duplicates, d = it, it' = it + 1, pc' = "loop",
         Handled(d)',
         options.dryrun \/ ~failed' => ntimesapplied' = ntimesapplied + 1,
         CountIsExact =>
           ntimesapplied' = (IF Replaced(d)' THEN ntimesapplied + 1 ELSE ntimesapplied)
  PROVE  Tally'
<1>1. /\ Duplicates' = Duplicates /\ options' = options /\ (CountIsExact' <=> CountIsExact)
      /\ \A k : Name(k)' = Name(k)
  BY GivenStays DEF CountIsExact
<1>2. it \in Nat /\ ntimesapplied \in Nat /\ \A k \in Duplicates : k \in Nat
  BY ListFacts DEF IInv, TypeOK
<1>3. Passed' = Passed \cup {d} /\ d \notin Passed
  BY <1>1, <1>2 DEF Passed
<1>4. IsFiniteSet(Passed)
  BY PassedFinite DEF IInv
<1>5. \A k \in Duplicates' : k > it' \/ (k = it' /\ pc' = "loop") => Untouched(k)'
  <2> SUFFICES ASSUME NEW k \in Duplicates, k > it' \/ k = it'
               PROVE  Untouched(k)'
    BY <1>1
  <2>1. k > it /\ k # it
    BY <1>2
  <2> QED
    BY <2>1, OthersHandled
<1>6. \A k \in Passed' : Handled(k)'
  <2> SUFFICES ASSUME NEW k \in Passed' PROVE Handled(k)'
    OBVIOUS
  <2>1. CASE k = d
    BY <2>1
  <2>2. CASE k # d
    <3>1. k \in Duplicates /\ k < it
      BY <1>3, <2>2 DEF Passed
    <3> QED
      BY <2>2, <3>1, OthersHandled
  <2> QED
    BY <2>1, <2>2
<1>7. options.dryrun \/ ~failed' => ntimesapplied' = Cardinality(Passed')
  <2> SUFFICES ASSUME options.dryrun \/ ~failed'
               PROVE  ntimesapplied' = Cardinality(Passed')
    OBVIOUS
  <2>1. ntimesapplied = Cardinality(Passed)
    BY DEF Tally
  <2>2. Cardinality(Passed') = Cardinality(Passed) + 1
    BY <1>3, <1>4, FS_AddElement
  <2> QED
    BY <2>1, <2>2
<1>8. CountIsExact' => ntimesapplied' = Cardinality({k \in Passed' : Replaced(k)'})
  <2> SUFFICES ASSUME CountIsExact
               PROVE  ntimesapplied' = Cardinality({k \in Passed' : Replaced(k)'})
    BY <1>1
  <2> DEFINE R == {k \in Passed : Replaced(k)}
             S == {k \in Passed' : Replaced(k)'}
  <2>1. ntimesapplied = Cardinality(R)
    BY DEF Tally
  <2>2. \A k \in Passed : Replaced(k)' <=> Replaced(k)
    <3> SUFFICES ASSUME NEW k \in Passed PROVE Replaced(k)' <=> Replaced(k)
      OBVIOUS
    <3>1. k \in Duplicates /\ k # it
      BY <1>3 DEF Passed
    <3> QED
      BY <3>1, OthersStay
  <2>3. S = IF Replaced(d)' THEN R \cup {d} ELSE R
    BY <1>3, <2>2
  <2>4. IsFiniteSet(R) /\ d \notin R
    <3>1. R \in SUBSET Passed
      OBVIOUS
    <3> QED
      BY <1>3, <1>4, <3>1, FS_Subset
  <2> HIDE DEF R, S
  <2>5. Cardinality(R \cup {d}) = Cardinality(R) + 1
    BY <2>4, FS_AddElement
  <2>6. ntimesapplied' = Cardinality(S)
    BY <2>1, <2>3, <2>5
  <2> QED
    BY <2>6 DEF S
<1>9. pc' = "loop" /\ ~InTransaction'
  BY DEF InTransaction
<1> QED
  BY <1>1, <1>5, <1>6, <1>7, <1>8, <1>9 DEF Tally

(* The duplicate at hand is set aside, and nothing is counted yet.          *)
LEMMA SameItemTally ==
  ASSUME IInv, Distinct, Tally, Working, [Next]_vars, removed' = {}, failed => failed',
         NEW d \in Duplicates, d = it, it' = it, pc' \in {"moved", "linked", "rollback"},
         ntimesapplied' = ntimesapplied,
         SetAside(d)', pc' = "linked" => InPlace(d)', pc' = "rollback" => failed'
  PROVE  Tally'
<1>1. /\ Duplicates' = Duplicates /\ options' = options /\ (CountIsExact' <=> CountIsExact)
      /\ Passed' = Passed
  BY GivenStays DEF CountIsExact, Passed
<1>2. \A k \in Duplicates : k \in Nat
  BY ListFacts DEF IInv
<1>3. \A k \in Duplicates' : k > it' \/ (k = it' /\ pc' = "loop") => Untouched(k)'
  <2> SUFFICES ASSUME NEW k \in Duplicates, k > it PROVE Untouched(k)'
    BY <1>1
  <2>1. k # it
    BY <1>2
  <2> QED
    BY <2>1, OthersHandled
<1>4. \A k \in Passed : k \in Duplicates /\ k < it /\ k # it
  BY <1>2 DEF Passed
<1>5. \A k \in Passed' : Handled(k)'
  BY <1>1, <1>4, OthersHandled
<1>6. options.dryrun \/ ~failed' => ntimesapplied' = Cardinality(Passed')
  BY <1>1 DEF Tally
<1>7. CountIsExact' => ntimesapplied' = Cardinality({k \in Passed' : Replaced(k)'})
  <2>1. \A k \in Passed : Replaced(k)' <=> Replaced(k)
    BY <1>4, OthersStay
  <2>2. {k \in Passed' : Replaced(k)'} = {k \in Passed : Replaced(k)}
    BY <1>1, <2>1
  <2> QED
    BY <1>1, <2>2 DEF Tally
<1>8. SetAside(it)' /\ (pc' = "linked" => InPlace(it)')
  <2>1. it' = d
    OBVIOUS
  <2> QED
    BY <2>1
<1> QED
  BY <1>1, <1>3, <1>5, <1>6, <1>7, <1>8 DEF Tally

LEMMA TallyInit == Init => Tally
<1> SUFFICES ASSUME Init, Working PROVE Tally
  BY DEF Tally
<1>1. TypeOK /\ pc = "loop" /\ it = 1 /\ ntimesapplied = 0
  BY TypeInit DEF Init, Working
<1>2. Passed = {}
  BY <1>1, ListFacts DEF Passed
<1>3. \A k \in Duplicates : Untouched(k)
  BY <1>1, ListFacts DEF Init, Untouched
<1>4. Cardinality(Passed) = 0 /\ Cardinality({k \in Passed : Replaced(k)}) = 0
  <2>1. {k \in Passed : Replaced(k)} = {}
    BY <1>2
  <2> QED
    BY <1>2, <2>1, FS_EmptySet
<1> QED
  BY <1>1, <1>2, <1>3, <1>4 DEF Tally, InTransaction

LEMMA TallyNext ==
  ASSUME IInv, Distinct, ShortCwd, Tally, [Next]_vars
  PROVE  Tally'
<1> SUFFICES ASSUME Working' PROVE Tally'
  BY DEF Tally
<1>1. /\ Action' = Action /\ options' = options /\ before' = before /\ m_list' = m_list
      /\ removed' = {} /\ removed = {} /\ Action # "none" /\ pc' # "crashed"
  BY GivenStays DEF Working
<1>2. TypeOK /\ Control
  BY DEF IInv
<1>3. /\ \A k \in Duplicates : k \in DOMAIN m_list /\ k \in Nat /\ Name(k) \in Dirents
      /\ temp \in [DOMAIN m_list -> Entries] /\ fs \in [Dirents -> Entries] /\ it \in Nat
      /\ NoEntry \in Entries
  BY <1>2, ListFacts DEF TypeOK, Entries
<1>4. CASE UNCHANGED vars
  <2>1. Working /\ Passed' = Passed /\ InTransaction' = InTransaction
        /\ Duplicates' = Duplicates /\ (CountIsExact' <=> CountIsExact)
    BY <1>1, <1>4, GivenStays DEF Working, Passed, InTransaction, vars, CountIsExact
  <2>2. \A k : /\ Untouched(k)' <=> Untouched(k)
               /\ SetAside(k)' <=> SetAside(k)
               /\ Replaced(k)' <=> Replaced(k)
               /\ Handled(k)' <=> Handled(k)
               /\ InPlace(k)' <=> InPlace(k)
    BY <1>1, <1>4, GivenStays DEF Untouched, SetAside, Replaced, Handled, InPlace, vars
  <2>3. {k \in Passed' : Replaced(k)'} = {k \in Passed : Replaced(k)}
    BY <2>1, <2>2
  <2>4. it' = it /\ UNCHANGED <<pc, failed, ntimesapplied>>
    BY <1>4 DEF vars
  <2> QED
    BY <1>1, <2>1, <2>2, <2>3, <2>4 DEF Tally
<1>5. CASE Crash
  BY <1>1, <1>5 DEF Crash
<1>6. ASSUME NEW d \in Dirents, UserRemoves(d) PROVE FALSE
  BY <1>1, <1>6 DEF UserRemoves
<1> SUFFICES ASSUME System PROVE Tally'
  BY <1>4, <1>5, <1>6 DEF Next, Stopped
<1>7. pc # "crashed" /\ (failed => failed') /\ Working
  BY <1>1, <1>2 DEF System, SeeOriginal, DryRun, DeleteFile, DeleteFails, MoveToTemporary,
     MoveFails, MakeSymlink, MakeHardlink, LinkFails, UnlinkTemporary, UnlinkFails,
     Undo, UndoFails, Return, AtDuplicate, Fails, Succeeds, Working, TypeOK
<1>8. AtDuplicate => it \in Duplicates /\ Untouched(it)
  BY <1>7 DEF AtDuplicate, Duplicates, Tally
<1>9. InTransaction => it \in Duplicates /\ SetAside(it) /\ ~options.dryrun
                       /\ Action \in {"symlink", "hardlink"}
  BY <1>2, <1>7 DEF Control, Tally
<1>10. CASE SeeOriginal
  <2>1. it \in Originals /\ it' = it + 1 /\ pc = "loop"
        /\ UNCHANGED <<fs, temp, pc, failed, ntimesapplied>>
    BY <1>10 DEF SeeOriginal
  <2>2. it \notin Duplicates
    BY <1>2, <2>1, ListFacts
  <2>3. Passed' = Passed /\ Duplicates' = Duplicates /\ (CountIsExact' <=> CountIsExact)
    BY <1>3, <2>1, <2>2, GivenStays DEF Passed, CountIsExact
  <2>4. \A k \in Duplicates : (k < it => Handled(k)') /\ (k > it => Untouched(k)')
    BY <1>1, <1>7, <2>2, OthersHandled
  <2>5. \A k \in Duplicates' : k > it' \/ (k = it' /\ pc' = "loop") => Untouched(k)'
    BY <1>3, <2>1, <2>3, <2>4
  <2>6. \A k \in Passed' : Handled(k)'
    BY <2>3, <2>4 DEF Passed
  <2>7. \A k \in Passed : Replaced(k)' <=> Replaced(k)
    BY <1>1, <2>2, OthersStay DEF Passed
  <2>8. {k \in Passed' : Replaced(k)'} = {k \in Passed : Replaced(k)}
    BY <2>3, <2>7
  <2> QED
    BY <1>1, <1>7, <2>1, <2>3, <2>5, <2>6, <2>8 DEF Tally, InTransaction
<1>11. CASE DryRun
  <2>1. AtDuplicate /\ options.dryrun /\ it' = it + 1 /\ pc' = "loop"
        /\ ntimesapplied' = ntimesapplied + 1 /\ UNCHANGED <<fs, temp>>
    BY <1>11 DEF DryRun, NextItem
  <2>2. PICK d \in Duplicates : d = it /\ Untouched(d)
    BY <1>8, <2>1
  <2>3. Untouched(d)'
    BY <2>1, <2>2, GivenStays DEF Untouched
  <2>4. Handled(d)' /\ ~CountIsExact
    BY <1>1, <2>1, <2>3 DEF Handled, CountIsExact
  <2> QED
    BY <1>1, <1>7, <2>1, <2>2, <2>4, NextItemTally
<1>12. CASE DeleteFile
  <2>1. AtDuplicate /\ ~options.dryrun /\ Action = "delete" /\ it' = it + 1 /\ pc' = "loop"
        /\ ntimesapplied' = ntimesapplied + 1 /\ UNCHANGED temp
        /\ fs' = [fs EXCEPT ![Name(it)] = NoEntry]
    BY <1>12 DEF DeleteFile, NextItem
  <2>2. PICK d \in Duplicates : d = it /\ Untouched(d)
    BY <1>8, <2>1
  <2>3. temp'[d] = NoEntry /\ fs'[Name(d)] = NoEntry
    BY <1>3, <2>1, <2>2 DEF Untouched
  <2>4. Replaced(d)'
    BY <1>1, <2>1, <2>3, GivenStays DEF Replaced
  <2>5. Handled(d)'
    BY <1>1, <2>1, <2>4 DEF Handled
  <2> QED
    BY <1>1, <1>7, <2>1, <2>2, <2>4, <2>5, NextItemTally
<1>13. CASE DeleteFails \/ MoveFails
  <2>1. AtDuplicate /\ ~options.dryrun /\ it' = it + 1 /\ pc' = "loop" /\ failed' = TRUE
        /\ ntimesapplied' = ntimesapplied /\ UNCHANGED <<fs, temp>>
        /\ Action \in {"delete", "symlink", "hardlink"}
    BY <1>13 DEF DeleteFails, MoveFails, NextItem, Fails
  <2>2. PICK d \in Duplicates : d = it /\ Untouched(d)
    BY <1>8, <2>1
  <2>3. Untouched(d)'
    BY <2>1, <2>2, GivenStays DEF Untouched
  <2>4. Handled(d)'
    BY <1>1, <2>1, <2>3 DEF Handled
  <2>5. CountIsExact => ~Replaced(d)'
    BY <1>1, <2>1, <2>2, <2>3, UntouchedIsNotReplaced
  <2> QED
    BY <1>1, <1>7, <2>1, <2>2, <2>4, <2>5, NextItemTally
<1>14. CASE MoveToTemporary
  <2>1. AtDuplicate /\ it' = it /\ pc' = "moved" /\ ntimesapplied' = ntimesapplied
        /\ temp' = [temp EXCEPT ![it] = fs[Name(it)]]
    BY <1>14 DEF MoveToTemporary, Stay
  <2>2. PICK d \in Duplicates : d = it /\ Untouched(d)
    BY <1>8, <2>1
  <2>3. temp'[d] = fs[Name(d)] /\ fs[Name(d)] = before[Name(d)]
    BY <1>3, <2>1, <2>2 DEF Untouched
  <2>4. SetAside(d)'
    BY <2>3, GivenStays DEF SetAside
  <2> QED
    BY <1>1, <1>7, <2>1, <2>2, <2>4, SameItemTally
<1>15. CASE MakeSymlink \/ MakeHardlink
  <2>1. InTransaction /\ it' = it /\ pc' = "linked" /\ ntimesapplied' = ntimesapplied
        /\ UNCHANGED temp
    BY <1>15 DEF MakeSymlink, MakeHardlink, Stay, InTransaction
  <2>2. PICK d \in Duplicates : d = it /\ SetAside(d)
    BY <1>9, <2>1
  <2>3. SetAside(d)'
    BY <2>1, <2>2, GivenStays DEF SetAside
  <2>4. original \in Originals /\ IsLeader(original, d) /\ Name(original) \in Dirents
        /\ original \in DOMAIN m_list /\ original \notin Duplicates
    BY <1>2, <2>2, OriginalLeads, ListFacts
  <2>5. \A o \in Originals : IsLeader(o, d) => o = original
    <3>1. \A o \in Originals : o \in Nat
      BY <1>2, ListFacts
    <3> QED
      BY <2>4, <3>1 DEF IsLeader
  <2>6. fs[Name(original)] = before[Name(original)]
    <3>1. \A k \in Duplicates : Name(original) # Name(k)
      BY <1>3, <2>4, NamesDiffer
    <3> QED
      BY <1>1, <2>4, <3>1 DEF IInv, OnlyDuplicatesChange
  <2>7. CASE MakeSymlink
    <3>1. Action = "symlink" /\ fs'[Name(d)] = Name(original)
      BY <1>3, <2>2, <2>7 DEF MakeSymlink, LinkTargets, ShortCwd
    <3>2. InPlace(d)'
      BY <1>1, <2>5, <3>1, GivenStays DEF InPlace
    <3> QED
      BY <1>1, <1>7, <2>1, <2>2, <2>3, <3>2, SameItemTally
  <2>8. CASE MakeHardlink
    <3>1. Action = "hardlink"
      BY <2>8 DEF MakeHardlink
    <3>2. fs'[Name(d)] = before[Name(original)] \/ Astray(d)
      <4>1. PICK e \in LinkedEntries(original, it) : fs' = [fs EXCEPT ![Name(it)] = e]
        BY <2>8 DEF MakeHardlink
      <4>2. fs'[Name(d)] = e
        BY <1>3, <2>2, <4>1
      <4>3. CASE Elsewhere(original, d) /\ fs[Name(original)] \in Dirents
        BY <2>4, <2>6, <3>1, <4>3 DEF Astray
      <4> QED
        BY <2>2, <2>6, <4>1, <4>2, <4>3 DEF LinkedEntries
    <3>3. InPlace(d)'
      BY <1>1, <2>5, <3>1, <3>2, GivenStays DEF InPlace
    <3> QED
      BY <1>1, <1>7, <2>1, <2>2, <2>3, <3>3, SameItemTally
  <2> QED
    BY <1>15, <2>7, <2>8
<1>16. CASE LinkFails
  <2>1. InTransaction /\ it' = it /\ pc' = "rollback" /\ ntimesapplied' = ntimesapplied
        /\ UNCHANGED temp /\ failed' = TRUE
    BY <1>16 DEF LinkFails, Stay, Fails, InTransaction
  <2>2. PICK d \in Duplicates : d = it /\ SetAside(d)
    BY <1>9, <2>1
  <2>3. SetAside(d)'
    BY <2>1, <2>2, GivenStays DEF SetAside
  <2> QED
    BY <1>1, <1>7, <2>1, <2>2, <2>3, SameItemTally
<1>17. CASE UnlinkTemporary
  <2>1. InTransaction /\ pc = "linked" /\ it' = it + 1 /\ pc' = "loop"
        /\ ntimesapplied' = ntimesapplied + 1 /\ UNCHANGED fs
        /\ temp' = [temp EXCEPT ![it] = NoEntry]
    BY <1>17 DEF UnlinkTemporary, NextItem, InTransaction
  <2>2. PICK d \in Duplicates : d = it /\ InPlace(d)
    BY <1>7, <1>9, <2>1 DEF Tally
  <2>3. temp'[d] = NoEntry /\ Action # "delete"
    BY <1>3, <1>9, <2>1, <2>2
  <2>4. Replaced(d)'
    BY <1>1, <2>1, <2>2, <2>3, GivenStays DEF Replaced, InPlace
  <2>5. Handled(d)'
    BY <1>1, <1>9, <2>1, <2>4 DEF Handled
  <2> QED
    BY <1>1, <1>7, <2>1, <2>2, <2>4, <2>5, NextItemTally
<1>18. CASE UnlinkFails \/ UndoFails
  <2>1. InTransaction /\ it' = it + 1 /\ pc' = "loop" /\ ntimesapplied' = ntimesapplied
        /\ UNCHANGED <<fs, temp>> /\ failed' = TRUE
    BY <1>18 DEF UnlinkFails, UndoFails, NextItem, InTransaction, Fails
  <2>2. PICK d \in Duplicates : d = it /\ SetAside(d)
    BY <1>9, <2>1
  <2>3. SetAside(d)'
    BY <2>1, <2>2, GivenStays DEF SetAside
  <2>4. Handled(d)'
    BY <1>1, <1>9, <2>1, <2>3 DEF Handled
  <2>5. ~Replaced(d)'
    <3>1. temp'[d] # NoEntry
      BY <1>3, <2>1, <2>2, ThereAtScan DEF SetAside
    <3> QED
      BY <3>1 DEF Replaced
  <2> QED
    BY <1>1, <1>7, <1>9, <2>1, <2>2, <2>4, <2>5, NextItemTally
<1>19. CASE Undo
  <2>1. InTransaction /\ pc = "rollback" /\ it' = it + 1 /\ pc' = "loop"
        /\ ntimesapplied' = ntimesapplied /\ failed' = failed
        /\ fs' = [fs EXCEPT ![Name(it)] = temp[it]] /\ temp' = [temp EXCEPT ![it] = NoEntry]
    BY <1>19 DEF Undo, NextItem, InTransaction, Succeeds
  <2>2. PICK d \in Duplicates : d = it /\ SetAside(d)
    BY <1>9, <2>1
  <2>3. temp'[d] = NoEntry /\ fs'[Name(d)] = before[Name(d)]
    BY <1>3, <2>1, <2>2 DEF SetAside
  <2>4. Untouched(d)' /\ failed'
    BY <1>7, <2>1, <2>3, GivenStays DEF Untouched, Tally
  <2>5. Handled(d)'
    BY <1>1, <1>9, <2>1, <2>4 DEF Handled
  <2>6. CountIsExact => ~Replaced(d)'
    BY <1>1, <1>9, <2>1, <2>2, <2>4, UntouchedIsNotReplaced
  <2> QED
    BY <1>1, <1>7, <1>9, <2>1, <2>2, <2>4, <2>5, <2>6, NextItemTally
<1>20. CASE Return
  <2>1. pc' = "done" /\ UNCHANGED <<fs, temp, it, failed, ntimesapplied>>
        /\ (pc = "return" \/ (pc = "loop" /\ it \notin DOMAIN m_list))
    BY <1>20 DEF Return
  <2>2. it = Len(m_list) + 1
    <3>1. it \notin DOMAIN m_list
      BY <1>7, <2>1 DEF Tally
    <3> QED
      BY <1>2, <3>1, ListFacts DEF TypeOK
  <2>3. \A k \in Duplicates : k # it /\ k < it
    BY <1>2, <2>2, ListFacts
  <2>4. Passed' = Passed /\ Duplicates' = Duplicates /\ (CountIsExact' <=> CountIsExact)
    BY <2>1, GivenStays DEF Passed, CountIsExact
  <2>5. \A k \in Duplicates : Handled(k)' /\ (Replaced(k)' <=> Replaced(k))
    BY <1>1, <1>7, <2>3, OthersHandled, OthersStay
  <2>6. {k \in Passed' : Replaced(k)'} = {k \in Passed : Replaced(k)}
    BY <2>4, <2>5 DEF Passed
  <2>7. \A k \in Passed' : Handled(k)'
    BY <2>4, <2>5 DEF Passed
  <2>8. \A k \in Duplicates' : ~(k > it' \/ (k = it' /\ pc' = "loop"))
    BY <1>3, <2>1, <2>3, <2>4
  <2> QED
    BY <1>1, <1>7, <2>1, <2>2, <2>4, <2>6, <2>7, <2>8 DEF Tally, InTransaction
<1> QED
  BY <1>10, <1>11, <1>12, <1>13, <1>14, <1>15, <1>16, <1>17, <1>18, <1>19, <1>20 DEF System

LEMMA InductiveTally ==
  ASSUME Distinct, ShortCwd
  PROVE  Spec => [](IInv /\ Tally)
<1>1. IInv /\ Tally /\ [Next]_vars => Tally'
  BY TallyNext
<1> QED
  BY <1>1, TallyInit, InductiveActions, PTL DEF Spec

(* At the end of the loop. *)
LEMMA AllPassed ==
  ASSUME IInv, Tally, Working, pc = "done"
  PROVE  Passed = Duplicates
<1>1. it = Len(m_list) + 1
  BY DEF Tally
<1> QED
  BY <1>1, ListFacts DEF IInv, Passed

(* If no name is on the list twice, as is so when inodes are collapsed, and *)
(* getcwd() does not fail, every duplicate is replaced, as it was or under  *)
(* its temporary name once the loop is over, whatever failed; with inodes   *)
(* collapsed the number that main() prints is that of the replaced ones.    *)
THEOREM EachIsReplacedOrNot ==
  ASSUME Distinct, ShortCwd
  PROVE  Spec => []AllOrNothing
<1>1. IInv /\ Tally => AllOrNothing
  <2> SUFFICES ASSUME IInv, Tally, pc = "done", removed = {}, Action # "none", ~options.dryrun
               PROVE  /\ \A k \in Duplicates : Replaced(k) \/ Untouched(k) \/ SetAside(k)
                      /\ options.remove_identical_inode /\ (\A k \in Duplicates : ~Astray(k)) =>
                           ntimesapplied = Cardinality({k \in Duplicates : Replaced(k)})
    BY DEF AllOrNothing
  <2>1. Working /\ Passed = Duplicates
    BY AllPassed DEF Working
  <2> QED
    BY <2>1 DEF Tally, Handled, CountIsExact
<1> QED
  BY <1>1, InductiveTally, PTL

(* Under the same assumptions, if no call fails then every duplicate is     *)
(* replaced, or with -dryrun none and nothing else is, and all are counted. *)
THEOREM EverythingAskedForIsDone ==
  ASSUME Distinct, ShortCwd
  PROVE  Spec => []AllIsDone
<1>1. IInv /\ Tally => AllIsDone
  <2> SUFFICES ASSUME IInv, Tally, pc = "done", removed = {}, ~failed, Action # "none"
               PROVE  /\ ntimesapplied = Cardinality(Duplicates)
                      /\ IF options.dryrun THEN fs = before
                                           ELSE \A k \in Duplicates : Replaced(k)
    BY DEF AllIsDone
  <2>1. Working /\ Passed = Duplicates
    BY AllPassed DEF Working
  <2>2. ntimesapplied = Cardinality(Duplicates)
    BY <2>1 DEF Tally
  <2>3. CASE options.dryrun
    <3>1. \A k \in Duplicates : fs[Name(k)] = before[Name(k)]
      BY <2>1, <2>3 DEF Tally, Handled, Untouched
    <3>2. \A e \in Dirents : fs[e] = before[e]
      BY <3>1 DEF IInv, OnlyDuplicatesChange
    <3>3. fs \in [Dirents -> Entries] /\ before \in [Dirents -> Entries]
      BY DEF IInv, TypeOK
    <3>4. fs = before
      BY <3>2, <3>3
    <3> QED
      BY <2>2, <2>3, <3>4
  <2>4. CASE ~options.dryrun
    BY <2>1, <2>2, <2>4 DEF Tally, Handled
  <2> QED
    BY <2>3, <2>4
<1> QED
  BY <1>1, InductiveTally, PTL
=============================================================================
