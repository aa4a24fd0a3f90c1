--------------------------- MODULE HardlinksProofs ---------------------------
(* Making hard links gives up no content, whatever fails, wherever the      *)
(* program is killed, and though the user removes a name at any moment.     *)
EXTENDS DedupActionsProofs, FiniteSetTheorems

(* With two removals the user can take both names from under a link that    *)
(* has just been made.                                                      *)
OneRemoval == MaxRemovals \in {0, 1}

MakesHardlinks == Action = "hardlink" /\ ~options.followsymlinks

(* The entry e is nothing, or a file with the content of d at the scan. *)
Fits(d, e) == e = NoEntry \/ (e \in Inodes /\ Content(e) = Content(before[d]))

(* Between link() and unlink() the link and the original hold the content,  *)
(* or at least one of them when the user has removed the other.             *)
LinkHolds ==
  /\ fs[Name(it)] \in Inodes \/ fs[Name(original)] \in Inodes
  /\ removed = {} =>
       /\ Name(it) # Name(original)
       /\ fs[Name(it)] \in Inodes /\ fs[Name(original)] \in Inodes

HInv ==
  /\ \A k \in DOMAIN m_list : Fits(Name(k), fs[Name(k)]) /\ Fits(Name(k), temp[k])
  /\ \A k \in DOMAIN m_list : k > it \/ (k = it /\ pc = "loop") => temp[k] = NoEntry
  /\ pc \in {"moved", "rollback"} => fs[Name(it)] = NoEntry
  /\ pc = "linked" => LinkHolds

-----------------------------------------------------------------------------
LEMMA FilesOfAGroup ==
  ASSUME TypeOK, Scanned(before), ~options.followsymlinks, NEW k \in DOMAIN m_list
  PROVE  /\ before[Name(k)] \in Inodes
         /\ \A o \in DOMAIN m_list :
              IsLeader(o, k) => Content(before[Name(o)]) = Content(before[Name(k)])
<1>1. \A j \in DOMAIN m_list :
        before[Name(j)] \in Inodes /\ Resolves(before, Name(j), before[Name(j)])
  BY DEF Scanned, Resolves
<1> QED
  BY <1>1 DEF Scanned

LEMMA HInvInit ==
  ASSUME Init, MakesHardlinks
  PROVE  HInv
<1>1. TypeOK /\ Scanned(before)
  BY TypeInit DEF Init
<1>2. \A k \in DOMAIN m_list : fs[Name(k)] = before[Name(k)] /\ temp[k] = NoEntry
  BY DEF Init
<1>3. \A k \in DOMAIN m_list : before[Name(k)] \in Inodes
  BY <1>1, FilesOfAGroup DEF MakesHardlinks
<1> QED
  BY <1>2, <1>3 DEF Init, HInv, Fits

LEMMA FiniteNext ==
  ASSUME IsFiniteSet(removed), [Next]_vars
  PROVE  IsFiniteSet(removed')
<1>1. ASSUME NEW d \in Dirents, UserRemoves(d) PROVE IsFiniteSet(removed')
  BY <1>1, FS_AddElement DEF UserRemoves
<1> QED
  BY <1>1 DEF Next, System, SeeOriginal, DryRun, DeleteFile, DeleteFails, MoveToTemporary,
     MoveFails, MakeSymlink, MakeHardlink, LinkFails, UnlinkTemporary, UnlinkFails, Undo,
     UndoFails, Return, Crash, Stopped, NextItem, Stay, vars

(* One removal at most: the first. *)
LEMMA FirstRemoval ==
  ASSUME OneRemoval, IsFiniteSet(removed), NEW d \in Dirents, UserRemoves(d)
  PROVE  removed = {} /\ removed' = {d}
<1>1. Cardinality(removed) = 0
  BY FS_CardinalityType DEF OneRemoval, UserRemoves
<1> QED
  BY <1>1, FS_EmptySet DEF UserRemoves

(* What does not concern the entries and the temporary names.               *)
LEMMA HInvLoopStep ==
  ASSUME IInv, HInv, [Next]_vars, UNCHANGED <<fs, temp>>,
         \/ it' > it /\ pc' \notin {"moved", "linked", "rollback"}
         \/ it' = it /\ pc' \notin {"loop", "moved", "linked", "rollback"}
  PROVE  HInv'
<1>1. it \in Nat /\ it' \in Nat /\ \A k \in DOMAIN m_list : k \in Nat
  <2>1. TypeOK'
    BY TypeNext DEF IInv
  <2> QED
    BY <2>1, ListFacts DEF IInv, TypeOK
<1>2. \A k \in DOMAIN m_list : Fits(Name(k), fs[Name(k)])' /\ Fits(Name(k), temp[k])'
  BY GivenStays DEF HInv, Fits
<1>3. \A k \in DOMAIN m_list : k > it' \/ (k = it' /\ pc' = "loop") => k > it
  BY <1>1
<1>4. \A k \in DOMAIN m_list :
        k > it' \/ (k = it' /\ pc' = "loop") => temp'[k] = NoEntry
  BY <1>3 DEF HInv
<1> QED
  BY <1>2, <1>4, GivenStays DEF HInv

LEMMA HInvNext ==
  ASSUME IInv, HInv, MakesHardlinks, OneRemoval, IsFiniteSet(removed), [Next]_vars
  PROVE  HInv'
<1>1. TypeOK /\ Control /\ TypeOK' /\ Scanned(before)
  BY TypeNext DEF IInv
<1>2. /\ m_list' = m_list /\ before' = before /\ (\A k : Name(k)' = Name(k))
      /\ Action = "hardlink" /\ ~options.followsymlinks
  BY GivenStays DEF MakesHardlinks
<1>3. /\ it \in Nat /\ fs \in [Dirents -> Entries] /\ temp \in [DOMAIN m_list -> Entries]
      /\ \A k \in DOMAIN m_list : k \in Nat /\ Name(k) \in Dirents
  BY <1>1, ListFacts DEF TypeOK
<1>4. AtDuplicate \/ InTransaction => it \in Duplicates /\ it \in DOMAIN m_list
  BY <1>1, ListFacts DEF AtDuplicate, Duplicates, Control
<1>5. CASE SeeOriginal \/ DryRun \/ DeleteFails \/ MoveFails
  BY <1>3, <1>5, HInvLoopStep
     DEF SeeOriginal, DryRun, DeleteFails, MoveFails, NextItem
<1>6. CASE UnlinkFails \/ UndoFails
  <2>1. it' = it + 1 /\ pc' = "loop" /\ UNCHANGED <<fs, temp>>
    BY <1>6 DEF UnlinkFails, UndoFails, NextItem
  <2> QED
    BY <1>3, <2>1, HInvLoopStep
<1>7. CASE Return \/ Crash
  BY <1>3, <1>7, HInvLoopStep DEF Return, Crash
<1>8. CASE MoveToTemporary
  <2>1. it \in DOMAIN m_list /\ it' = it /\ pc' = "moved" /\ pc = "loop"
        /\ temp' = [temp EXCEPT ![it] = fs[Name(it)]]
        /\ fs' = [fs EXCEPT ![Name(it)] = NoEntry]
    BY <1>4, <1>8 DEF MoveToTemporary, Stay, AtDuplicate
  <2>2. ASSUME NEW k \in DOMAIN m_list
        PROVE  Fits(Name(k), fs'[Name(k)]) /\ Fits(Name(k), temp'[k])
    BY <1>3, <2>1, <2>2 DEF HInv, Fits
  <2>3. \A k \in DOMAIN m_list : k > it => temp'[k] = NoEntry
    BY <1>3, <2>1 DEF HInv
  <2>4. fs'[Name(it)] = NoEntry
    BY <1>3, <2>1
  <2> QED
    BY <1>2, <2>1, <2>2, <2>3, <2>4 DEF HInv, Fits
<1>9. CASE MakeHardlink
  <2>1. it \in DOMAIN m_list /\ it' = it /\ pc = "moved" /\ pc' = "linked" /\ UNCHANGED temp
        /\ original' = original /\ removed' = removed /\ fs[Name(it)] = NoEntry
        /\ fs[Name(original)] # NoEntry
    BY <1>4, <1>9 DEF MakeHardlink, Stay, InTransaction, HInv, Succeeds
  <2>2. /\ original \in DOMAIN m_list /\ IsLeader(original, it)
        /\ Name(original) # Name(it)
    BY <1>1, <1>4, <1>9, <2>1, OriginalLeads, ListFacts DEF MakeHardlink, InTransaction
  <2>3. fs[Name(original)] \in Inodes /\ Fits(Name(it), fs[Name(original)])
    BY <1>1, <1>2, <2>1, <2>2, FilesOfAGroup DEF HInv, Fits
  <2>4. fs' = [fs EXCEPT ![Name(it)] = fs[Name(original)]]
    BY <1>9, <2>3, EntriesAssumption DEF MakeHardlink, LinkedEntries
  <2>5. ASSUME NEW k \in DOMAIN m_list PROVE Fits(Name(k), fs'[Name(k)])
    BY <1>3, <2>1, <2>3, <2>4 DEF HInv
  <2>6. fs'[Name(it)] \in Inodes /\ fs'[Name(original)] \in Inodes
    BY <1>3, <2>1, <2>2, <2>3, <2>4
  <2>7. LinkHolds'
    BY <1>2, <2>1, <2>2, <2>6 DEF LinkHolds
  <2> QED
    BY <1>2, <2>1, <2>5, <2>7 DEF HInv, Fits
<1>10. CASE LinkFails
  BY <1>2, <1>10 DEF LinkFails, Stay, HInv, Fits
<1>11. CASE UnlinkTemporary
  <2>1. it \in DOMAIN m_list /\ it' = it + 1 /\ pc' = "loop" /\ UNCHANGED fs
        /\ temp' = [temp EXCEPT ![it] = NoEntry]
    BY <1>4, <1>11 DEF UnlinkTemporary, NextItem, InTransaction
  <2>2. \A k \in DOMAIN m_list : Fits(Name(k), fs'[Name(k)]) /\ Fits(Name(k), temp'[k])
    BY <1>3, <2>1 DEF HInv, Fits
  <2>3. \A k \in DOMAIN m_list : k >= it' => temp'[k] = NoEntry
    BY <1>3, <2>1 DEF HInv
  <2> QED
    BY <1>2, <1>3, <2>1, <2>2, <2>3 DEF HInv, Fits
<1>12. CASE Undo
  <2>1. it \in DOMAIN m_list /\ it' = it + 1 /\ pc' = "loop"
        /\ fs' = [fs EXCEPT ![Name(it)] = temp[it]] /\ temp' = [temp EXCEPT ![it] = NoEntry]
    BY <1>4, <1>12 DEF Undo, NextItem, InTransaction
  <2>2. \A k \in DOMAIN m_list : Fits(Name(k), fs'[Name(k)]) /\ Fits(Name(k), temp'[k])
    BY <1>3, <2>1 DEF HInv, Fits
  <2>3. \A k \in DOMAIN m_list : k >= it' => temp'[k] = NoEntry
    BY <1>3, <2>1 DEF HInv
  <2> QED
    BY <1>2, <1>3, <2>1, <2>2, <2>3 DEF HInv, Fits
<1>13. ASSUME NEW d \in Dirents, UserRemoves(d) PROVE HInv'
  <2>1. /\ removed = {} /\ removed' = {d} /\ fs' = [fs EXCEPT ![d] = NoEntry]
        /\ UNCHANGED <<it, original, pc, temp>>
    BY <1>13, FirstRemoval DEF UserRemoves
  <2>2. \A k \in DOMAIN m_list :
          fs'[Name(k)] = (IF Name(k) = d THEN NoEntry ELSE fs[Name(k)])
    BY <1>3, <2>1
  <2>3. \A k \in DOMAIN m_list : Fits(Name(k), fs'[Name(k)]) /\ Fits(Name(k), temp'[k])
    BY <2>1, <2>2 DEF HInv, Fits
  <2>4. CASE pc = "linked"
    <3>1. it \in DOMAIN m_list /\ original \in DOMAIN m_list
      BY <1>1, <1>4, <2>4, OriginalLeads, ListFacts DEF InTransaction
    <3>2. fs'[Name(it)] \in Inodes \/ fs'[Name(original)] \in Inodes
      BY <2>1, <2>2, <2>4, <3>1 DEF HInv, LinkHolds
    <3>3. LinkHolds'
      BY <1>2, <2>1, <3>2 DEF LinkHolds
    <3> QED
      BY <1>2, <2>1, <2>3, <2>4, <3>3 DEF HInv, Fits
  <2>5. CASE pc # "linked"
    <3>1. pc \in {"moved", "rollback"} => fs'[Name(it)] = NoEntry
      BY <1>4, <2>2 DEF HInv, InTransaction
    <3> QED
      BY <1>2, <2>1, <2>3, <2>5, <3>1 DEF HInv, Fits
  <2> QED
    BY <2>4, <2>5
<1>14. CASE Stopped \/ UNCHANGED vars
  BY <1>2, <1>14 DEF Stopped, vars, HInv, LinkHolds, Fits
<1> QED
  BY <1>2, <1>5, <1>6, <1>7, <1>8, <1>9, <1>10, <1>11, <1>12, <1>13, <1>14
     DEF Next, System, DeleteFile, MakeSymlink

-----------------------------------------------------------------------------
(* A content that every holder passes on stays held.                        *)
LEMMA Kept ==
  ASSUME \A d \in Dirents : fs[d] \in Inodes =>
           Content(fs[d]) \in Held',
         \A k \in DOMAIN temp : temp[k] \in Inodes => Content(temp[k]) \in Held'
  PROVE  Held \subseteq Held'
BY DEF Held

LEMMA HeldByEntry ==
  ASSUME NEW d \in Dirents, fs'[d] \in Inodes
  PROVE  Content(fs'[d]) \in Held'
BY DEF Held

LEMMA HeldByTemporary ==
  ASSUME NEW k \in DOMAIN temp', temp'[k] \in Inodes
  PROVE  Content(temp'[k]) \in Held'
BY DEF Held

LEMMA StepKeepsContents ==
  ASSUME IInv, HInv, MakesHardlinks, OneRemoval, IsFiniteSet(removed), [Next]_vars,
         removed' = removed
  PROVE  Held \subseteq Held'
<1>1. TypeOK /\ Control /\ Scanned(before)
  BY DEF IInv
<1>2. /\ fs \in [Dirents -> Entries] /\ temp \in [DOMAIN m_list -> Entries]
      /\ \A k \in DOMAIN m_list : k \in Nat /\ Name(k) \in Dirents
      /\ NoEntry \notin Inodes
  BY <1>1, ListFacts, EntriesAssumption DEF TypeOK
<1>3. AtDuplicate \/ InTransaction => it \in Duplicates /\ it \in DOMAIN m_list
  BY <1>1, ListFacts DEF AtDuplicate, Duplicates, Control
<1>4. CASE UNCHANGED <<fs, temp>>
  BY <1>4 DEF Held
<1>5. CASE MoveToTemporary
  <2>1. it \in DOMAIN m_list /\ temp[it] = NoEntry
        /\ temp' = [temp EXCEPT ![it] = fs[Name(it)]]
        /\ fs' = [fs EXCEPT ![Name(it)] = NoEntry]
    BY <1>3, <1>5 DEF MoveToTemporary, AtDuplicate, HInv
  <2>2. ASSUME NEW d \in Dirents, fs[d] \in Inodes PROVE Content(fs[d]) \in Held'
    <3>1. CASE d = Name(it)
      <4>1. it \in DOMAIN temp' /\ temp'[it] = fs[d]
        BY <1>2, <2>1, <3>1
      <4> QED
        BY <2>2, <4>1, HeldByTemporary
    <3>2. CASE d # Name(it)
      <4>1. fs'[d] = fs[d]
        BY <1>2, <2>1, <3>2
      <4> QED
        BY <2>2, <4>1, HeldByEntry
    <3> QED
      BY <3>1, <3>2
  <2>3. ASSUME NEW k \in DOMAIN temp, temp[k] \in Inodes PROVE Content(temp[k]) \in Held'
    <3>1. k \in DOMAIN temp' /\ temp'[k] = temp[k]
      BY <1>2, <2>1, <2>3
    <3> QED
      BY <2>3, <3>1, HeldByTemporary
  <2> QED
    BY <2>2, <2>3, Kept
<1>6. CASE MakeHardlink
  <2>1. it \in DOMAIN m_list /\ fs[Name(it)] = NoEntry /\ UNCHANGED temp
        /\ \E e \in LinkedEntries(original, it) : fs' = [fs EXCEPT ![Name(it)] = e]
    BY <1>3, <1>6 DEF MakeHardlink, InTransaction, HInv
  <2>2. ASSUME NEW d \in Dirents, fs[d] \in Inodes PROVE Content(fs[d]) \in Held'
    <3>1. fs'[d] = fs[d]
      BY <1>2, <2>1, <2>2
    <3> QED
      BY <2>2, <3>1, HeldByEntry
  <2>3. ASSUME NEW k \in DOMAIN temp, temp[k] \in Inodes PROVE Content(temp[k]) \in Held'
    BY <2>1, <2>3, HeldByTemporary
  <2> QED
    BY <2>2, <2>3, Kept
<1>7. CASE UnlinkTemporary
  <2>1. /\ it \in DOMAIN m_list /\ pc = "linked" /\ UNCHANGED fs
        /\ temp' = [temp EXCEPT ![it] = NoEntry] /\ LinkHolds
    BY <1>3, <1>7 DEF UnlinkTemporary, InTransaction, HInv
  <2>2. ASSUME NEW d \in Dirents, fs[d] \in Inodes PROVE Content(fs[d]) \in Held'
    BY <2>1, <2>2, HeldByEntry
  <2>3. ASSUME NEW k \in DOMAIN temp, temp[k] \in Inodes PROVE Content(temp[k]) \in Held'
    <3>1. CASE k # it
      <4>1. k \in DOMAIN temp' /\ temp'[k] = temp[k]
        BY <1>2, <2>1, <2>3, <3>1
      <4> QED
        BY <2>3, <4>1, HeldByTemporary
    <3>2. CASE k = it
      <4>1. original \in DOMAIN m_list /\ IsLeader(original, it)
        BY <1>1, <1>3, <2>1, OriginalLeads, ListFacts DEF InTransaction
      <4>2. Content(before[Name(original)]) = Content(before[Name(it)])
        BY <1>1, <2>1, <4>1, FilesOfAGroup DEF MakesHardlinks
      <4>3. Content(temp[it]) = Content(before[Name(it)])
        BY <1>2, <2>1, <2>3, <3>2 DEF HInv, Fits
      <4>4. PICK d \in {Name(it), Name(original)} : fs[d] \in Inodes
        BY <2>1 DEF LinkHolds
      <4>5. d \in Dirents /\ Content(fs[d]) = Content(temp[it])
        BY <1>2, <2>1, <4>1, <4>2, <4>3, <4>4 DEF HInv, Fits
      <4> QED
        BY <2>2, <3>2, <4>4, <4>5
    <3> QED
      BY <3>1, <3>2
  <2> QED
    BY <2>2, <2>3, Kept
<1>8. CASE Undo
  <2>1. /\ it \in DOMAIN m_list /\ fs[Name(it)] = NoEntry
        /\ fs' = [fs EXCEPT ![Name(it)] = temp[it]] /\ temp' = [temp EXCEPT ![it] = NoEntry]
    BY <1>3, <1>8 DEF Undo, InTransaction, HInv
  <2>2. ASSUME NEW d \in Dirents, fs[d] \in Inodes PROVE Content(fs[d]) \in Held'
    <3>1. fs'[d] = fs[d]
      BY <1>2, <2>1, <2>2
    <3> QED
      BY <2>2, <3>1, HeldByEntry
  <2>3. ASSUME NEW k \in DOMAIN temp, temp[k] \in Inodes PROVE Content(temp[k]) \in Held'
    <3>1. CASE k # it
      <4>1. k \in DOMAIN temp' /\ temp'[k] = temp[k]
        BY <1>2, <2>1, <2>3, <3>1
      <4> QED
        BY <2>3, <4>1, HeldByTemporary
    <3>2. CASE k = it
      <4>1. Name(it) \in Dirents /\ fs'[Name(it)] = temp[it]
        BY <1>2, <2>1
      <4> QED
        BY <2>3, <3>2, <4>1, HeldByEntry
    <3> QED
      BY <3>1, <3>2
  <2> QED
    BY <2>2, <2>3, Kept
<1>9. ASSUME NEW d \in Dirents, UserRemoves(d) PROVE FALSE
  BY <1>9, FirstRemoval
<1> QED
  BY <1>4, <1>5, <1>6, <1>7, <1>8, <1>9
     DEF Next, System, SeeOriginal, DryRun, DeleteFile, DeleteFails, MoveFails, MakeSymlink,
         LinkFails, UnlinkFails, UndoFails, Return, Crash, Stopped, MakesHardlinks, vars

(* If the user removes no more than one name during the run, no step that   *)
(* makes hard links gives up a content: until the temporary name of the     *)
(* duplicate is unlinked, the link or the original holds the same, whether  *)
(* or not hard links were collapsed.                                        *)
THEOREM HardlinksSafe ==
  ASSUME OneRemoval
  PROVE  Spec => HardlinksKeepContents
<1>1. Init => IsFiniteSet(removed) /\ (MakesHardlinks => HInv)
  BY HInvInit, FS_EmptySet DEF Init
<1>2. ASSUME IInv, IsFiniteSet(removed), MakesHardlinks => HInv, [Next]_vars
      PROVE  IsFiniteSet(removed)' /\ (MakesHardlinks => HInv)'
  <2>1. MakesHardlinks' = MakesHardlinks
    BY <1>2, GivenStays DEF MakesHardlinks
  <2> QED
    BY <1>2, <2>1, FiniteNext, HInvNext
<1>3. IInv /\ IsFiniteSet(removed) /\ (MakesHardlinks => HInv) /\ [Next]_vars =>
        [Action = "hardlink" /\ ~options.followsymlinks /\ removed' = removed
         => Held \subseteq Held']_vars
  BY StepKeepsContents DEF MakesHardlinks
<1> QED
  BY <1>1, <1>2, <1>3, InductiveActions, PTL DEF Spec, HardlinksKeepContents
=============================================================================
