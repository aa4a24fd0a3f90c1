------------------------------ MODULE MCRdutil ------------------------------
(* Small instances of Rdutil for TLC. *)
EXTENDS Rdutil, TLC

CONSTANTS f1, f2, f3

MCThreeFiles == {f1, f2, f3}
MCSymmetry == Permutations(Files)

(* Two disks that use the same inode numbers. *)
MCInodes == {<<1, 1>>, <<1, 2>>, <<2, 1>>}

(* The files are interchangeable: name them in the order they are found.    *)
MCFound == f1 :> 1 @@ f2 :> 2 @@ f3 :> 3
(* Where ranks do not matter they are read in the opposite order.           *)
MCReversed == f1 :> <<2, 1>> @@ f2 :> <<1, 2>> @@ f3 :> <<1, 1>>

MCOptions(removals, firsts, lasts, checksumSets) ==
  {[remove_identical_inode |-> r, first_bytes_size |-> a, last_bytes_size |-> b,
    checksums |-> c, checksum_for_firstlast_bytes |-> 2] :
     r \in removals, a \in firsts, b \in lasts, c \in checksumSets}

(* Injective for sequences of at most 3 bits, and never the zero buffer. *)
MCBits(b) ==
  CASE Len(b) = 0 -> 1
    [] Len(b) = 1 -> 2 + b[1]
    [] Len(b) = 2 -> 4 + 2 * b[1] + b[2]
    [] OTHER -> 8 + 4 * b[1] + 2 * b[2] + b[3]
MCDigest(t, b) == 16 * t + MCBits(b)

-----------------------------------------------------------------------------
(* The Pipeline run is three instances in one: what is costly in one of     *)
(* them is left out of the others.                                          *)

(* Three byte files that differ in the first, middle or last byte only, and *)
(* every combination of stages. 2 is SHA1, 3 is CREATE_SHA1_CHECKSUM: the   *)
(* stage that may reuse the checksum of the first or last bytes. 0, 1 and 3 *)
(* bytes are: stage off, less than a file, all of a file.                   *)
MCStages ==
  [options  |-> MCOptions({TRUE}, {0, 1, 3}, {0, 1, 3}, {{}, {3}, {2, 3}}),
   contents |-> {<<0, 0, 0>>, <<0, 1, 0>>, <<1, 0, 0>>, <<0, 0, 1>>},
   args |-> {1}, depths |-> {0}, inodes |-> {MCReversed}, faults |-> FALSE]

(* Every rank, and one stage that cannot tell the two contents apart.       *)
MCRanks ==
  [options  |-> MCOptions(BOOLEAN, {1}, {0}, {{}}),
   contents |-> {<<0, 0, 0>>, <<0, 1, 0>>},
   args |-> {1, 2}, depths |-> {0, 1}, inodes |-> [MCThreeFiles -> MCInodes], faults |-> FALSE]

(* Reads fail, and a file is rewritten, also by a shorter one.              *)
MCFaults ==
  [options  |-> MCOptions({TRUE}, {0, 1}, {2}, {{3}}),
   contents |-> {<<1>>, <<0, 0, 0>>},
   args |-> {1}, depths |-> {0}, inodes |-> {MCReversed}, faults |-> TRUE]

MCInstances == {MCStages, MCRanks, MCFaults}
MCPipelineOptions == UNION {n.options : n \in MCInstances}
MCPipelineContents == UNION {n.contents : n \in MCInstances}

MCInit ==
  \E n \in MCInstances :
    /\ options \in n.options
    /\ \E inode \in n.inodes, arg \in [Files -> n.args], depth \in [Files -> n.depths] :
         info = [f \in Files |-> [inode |-> inode[f], cmdline_index |-> arg[f],
                                 depth |-> depth[f], found |-> MCFound[f]]]
    /\ data \in [Inodes -> n.contents]
    /\ Init

(* Next, with failures and rewrites only in the last instance. *)
MCFaulty == options \in MCFaults.options
MCOpenFails(f) == MCFaulty /\ FillOpenFails(f)
MCReadFails(f) == MCFaulty /\ FillReadFails(f)
MCRewrite(i) == MCFaulty /\ Rewrite(i) /\ data'[i] \in MCFaults.contents

MCNext ==
  \/ MarkItems \/ RemoveIdenticalInodes \/ RemoveUniqueSizes \/ StartFill
  \/ \E f \in Files :
       FillSkips(f) \/ MCOpenFails(f) \/ MCReadFails(f) \/ FillReads(f) \/ FillMixes(f)
  \/ RemoveUniqSizeAndBuffer \/ MarkDuplicates
  \/ \E i \in Inodes : MCRewrite(i)
  \/ Done

MCSpec == MCInit /\ [][MCNext]_vars

-----------------------------------------------------------------------------
(* The Unreadable run: the contents differ in the first byte only, which is *)
(* not among the last two.                                                  *)
MCSameLastBytes == {<<0, 0, 0>>, <<1, 0, 0>>}
MCTwoStages == MCOptions({TRUE}, {0}, {2}, {{3}})
=============================================================================
