------------------------------- MODULE Rdutil -------------------------------
(***************************************************************************)
(* How rdfind turns the list of scanned files into groups of duplicates:   *)
(* main() in rdfind.cc drives the methods of class Rdutil, which sort the  *)
(* list, drop what cannot be a duplicate, let every remaining Fileinfo     *)
(* read a few bytes or all of its file, and finally mark the originals.    *)
(*                                                                         *)
(* One action is one call of an Rdutil method, except for fillwithbytes,   *)
(* which is one action per file: the files belong to the user, who may     *)
(* rewrite them between two reads.                                         *)
(***************************************************************************)
EXTENDS Integers, Sequences, FiniteSets

CONSTANTS
  Files,            \* the entries report() collected; two may name one file
  Inodes,           \* <<device, inode>> pairs
  Contents,         \* what a file may hold: sequences of bytes
  CmdlineIndexes,   \* positions of path arguments on the command line
  Depths,           \* directory depths
  OptionSets,       \* the option records a run may be started with
  Digest(_, _),     \* the 64 byte buffer a checksum leaves, as one number
  ReadsMayFail,     \* whether open() and read() may fail
  MaxTouched        \* how many files the user may rewrite during the run

(* Fileinfo::readtobuffermode and checksumtypes *)
NOT_DEFINED == -1
READ_FIRST_BYTES == 0
READ_LAST_BYTES == 1
ChecksumModes == 2 .. 6            \* CREATE_MD5_CHECKSUM to CREATE_XXH128_CHECKSUM
ReadModes == 0 .. 6
ChecksumTypes == 1 .. 5            \* MD5 to XXH128

(* The pieces of a file that one read loop can put into one checksum. *)
Slices ==
  UNION {{SubSeq(c, i, j) : i \in 1 .. Len(c) + 1, j \in 0 .. Len(c)} : c \in Contents}

(* What one read loop can put together from a file that is being rewritten. *)
Bytes == UNION {{c[i] : i \in DOMAIN c} : c \in Contents}
Mixtures == UNION {UNION {[1 .. n -> Bytes] : n \in 0 .. Len(c)} : c \in Contents}

ASSUME FilesAssumption == IsFiniteSet(Files)
ASSUME InodesAssumption == Inodes \subseteq Nat \X Nat
ASSUME ContentsAssumption == \A c \in Contents : c \in Seq(Nat)
ASSUME RankAssumption == CmdlineIndexes \subseteq Nat /\ Depths \subseteq Nat
ASSUME OptionsAssumption ==
  OptionSets \subseteq [remove_identical_inode : BOOLEAN,
                        first_bytes_size : Nat, last_bytes_size : Nat,
                        checksums : SUBSET ChecksumModes,
                        checksum_for_firstlast_bytes : ChecksumTypes]
ASSUME DigestAssumption ==
  \A t \in ChecksumTypes, b \in Slices \cup Mixtures : Digest(t, b) \in Nat

VARIABLES
  options,     \* struct Options
  info,        \* Fileinfo: inode, cmdline_index, depth; found = place in the scanned list
  size,        \* Fileinfo::m_info.stat_size, read once by report()
  data,        \* what each inode holds now
  m_list,      \* maps each entry still on the list to its place there
  identity,    \* Fileinfo::m_identity
  somebytes,   \* Fileinfo::m_somebytes as a big-endian number, so memcmp is <
  duptype,     \* Fileinfo::m_duptype
  pc,          \* what main() calls next
  type,        \* mode of the current or latest fillwithbytes
  lasttype,    \* mode of the one before it
  unread,      \* entries the loop in fillwithbytes has still to visit
  faulted,     \* history: inodes with a failed open or read
  touched      \* history: inodes rewritten since they were scanned

vars == <<options, info, size, data, m_list, identity, somebytes, duptype,
          pc, type, lasttype, unread, faulted, touched>>

-----------------------------------------------------------------------------
(* The list and its orders. *)

Listed == DOMAIN m_list

Arrangements(S) ==
  {p \in [S -> 1 .. Cardinality(S)] : \A f, g \in S : p[f] = p[g] => f = g}

(* std::is_sorted(p, less) *)
Sorts(p, less(_, _)) == \A f, g \in DOMAIN p : less(f, g) => p[f] < p[g]

(* The subrange apply_on_range hands to its callback that has f in it. *)
Run(p, less(_, _), f) ==
  {g \in DOMAIN p :
     \A h \in DOMAIN p :
        \/ p[f] <= p[h] /\ p[h] <= p[g]
        \/ p[g] <= p[h] /\ p[h] <= p[f]
        => ~less(f, h) /\ ~less(h, f)}

(* cleanup(): erase what the callback flagged, keep the order of the rest. *)
Keep(p, S) == [f \in S |-> p[f]]

(* Faulty: inode numbers are compared as if there were only one disk. *)
InodeNumberLess(f, g) == info[f].inode[2] < info[g].inode[2]

DeviceInodeLess(f, g) ==
  LET a == info[f].inode
      b == info[g].inode
  IN  a[1] < b[1] \/ (a[1] = b[1] /\ a[2] < b[2])
SizeLess(f, g) == size[f] < size[g]
SizeThenBufferLess(f, g) ==
  SizeLess(f, g) \/ (size[f] = size[g] /\ somebytes[f] < somebytes[g])

(* cmpRank; id is the identity each entry has when the ranks are compared *)
Outranks(id, f, g) ==
  \/ info[f].cmdline_index < info[g].cmdline_index
  \/ /\ info[f].cmdline_index = info[g].cmdline_index
     /\ \/ info[f].depth < info[g].depth
        \/ info[f].depth = info[g].depth /\ id[f] < id[g]

Best(S) == CHOOSE f \in S : \A g \in S \ {f} : Outranks(identity, f, g)
First(S) == CHOOSE f \in S : \A g \in S \ {f} : m_list[f] < m_list[g]

-----------------------------------------------------------------------------
(* Reading. *)

CkType(m) ==
  IF m \in ChecksumModes THEN m - 1 ELSE options.checksum_for_firstlast_bytes

Content(f) == data[info[f].inode]

(* Faulty: the last bytes count as the whole file. *)
ChecksummedAtTheEnd(f) ==
  /\ CkType(type) = options.checksum_for_firstlast_bytes
  /\ \/ lasttype = READ_FIRST_BYTES /\ options.first_bytes_size >= size[f]
     \/ lasttype = READ_LAST_BYTES

(* The previous stage already put the whole file through this checksum. *)
AlreadyChecksummed(f) ==
  /\ CkType(type) = options.checksum_for_firstlast_bytes
  /\ \/ lasttype = READ_FIRST_BYTES /\ options.first_bytes_size >= size[f]
     \/ lasttype = READ_LAST_BYTES /\ options.last_bytes_size >= size[f]

(* decided by the size that was cached when the file was scanned *)
ReadsEntireFile(f) ==
  /\ type = READ_FIRST_BYTES => size[f] <= options.first_bytes_size
  /\ type = READ_LAST_BYTES => size[f] <= options.last_bytes_size

(* Faulty: the seek is forgotten. *)
ReadFromStart(f) == 1

(* First and last byte of the file that are read. Seeking to before the     *)
(* start of a file that has shrunk fails, and then nothing is read.         *)
ReadFrom(f) ==
  IF type = READ_LAST_BYTES /\ ~ReadsEntireFile(f)
       /\ options.last_bytes_size <= Len(Content(f))
    THEN Len(Content(f)) - options.last_bytes_size + 1
    ELSE 1
ReadUpto(f) ==
  CASE ReadsEntireFile(f) -> Len(Content(f))
    [] type = READ_FIRST_BYTES /\ ~ReadsEntireFile(f) ->
         IF options.first_bytes_size <= Len(Content(f))
           THEN options.first_bytes_size ELSE Len(Content(f))
    [] OTHER -> IF options.last_bytes_size <= Len(Content(f)) THEN Len(Content(f)) ELSE 0

(* elem is next in the loop over m_list, which fillwithbytes just sorted *)
NextToRead(f) == f \in unread /\ \A g \in unread : m_list[f] <= m_list[g]

EnabledModes ==
  {m \in ReadModes :
     \/ m = READ_FIRST_BYTES /\ options.first_bytes_size > 0
     \/ m = READ_LAST_BYTES /\ options.last_bytes_size > 0
     \/ m \in options.checksums}
ModesLeft == {m \in EnabledModes : m > type}

-----------------------------------------------------------------------------
Init ==
  /\ options \in OptionSets
  /\ info \in [Files -> [inode : Inodes, cmdline_index : CmdlineIndexes,
                         depth : Depths, found : 1 .. Cardinality(Files)]]
  /\ \A f, g \in Files :
       /\ info[f].found = info[g].found => f = g
       \* the arguments are scanned one after the other
       /\ info[f].cmdline_index < info[g].cmdline_index => info[f].found < info[g].found
  /\ data \in [Inodes -> Contents]
  /\ size = [f \in Files |-> Len(Content(f))]
  /\ m_list = [f \in Files |-> info[f].found]
  /\ identity = [f \in Files |-> 0]
  /\ somebytes = [f \in Files |-> 0]
  /\ duptype = [f \in Files |-> "UNKNOWN"]
  /\ pc = "markitems"
  /\ type = NOT_DEFINED /\ lasttype = NOT_DEFINED
  /\ unread = {} /\ faulted = {} /\ touched = {}

MarkItems ==
  /\ pc = "markitems"
  /\ identity' = [f \in Files |-> m_list[f]]
  /\ pc' = IF options.remove_identical_inode THEN "inodes" ELSE "sizes"
  /\ UNCHANGED <<options, info, size, data, m_list, somebytes, duptype,
                 type, lasttype, unread, faulted, touched>>

RemoveIdenticalInodes ==
  /\ pc = "inodes"
  /\ \E p \in Arrangements(Listed) :
       /\ Sorts(p, DeviceInodeLess)
       /\ m_list' = Keep(p, {f \in Listed : f = Best(Run(p, DeviceInodeLess, f))})
  /\ pc' = "sizes"
  /\ UNCHANGED <<options, info, size, data, identity, somebytes, duptype,
                 type, lasttype, unread, faulted, touched>>

RemoveUniqueSizes ==
  /\ pc = "sizes"
  /\ \E p \in Arrangements(Listed) :
       /\ Sorts(p, SizeLess)
       /\ m_list' = Keep(p, {f \in Listed : Run(p, SizeLess, f) # {f}})
  /\ pc' = "modes"
  /\ UNCHANGED <<options, info, size, data, identity, somebytes, duptype,
                 type, lasttype, unread, faulted, touched>>

(* main() takes the next enabled mode; fillwithbytes sorts on disk position *)
StartFill ==
  /\ pc = "modes"
  /\ \E m \in ModesLeft :
       /\ \A n \in ModesLeft : m <= n
       /\ type' = m
  /\ lasttype' = type
  /\ m_list' \in Arrangements(Listed)
  /\ Sorts(m_list', DeviceInodeLess)
  /\ unread' = Listed
  /\ pc' = "fill"
  /\ UNCHANGED <<options, info, size, data, identity, somebytes, duptype,
                 faulted, touched>>

(* Fileinfo::fillwithbytes on one file, by how it ends. Its return value is *)
(* ignored: a file that could not be opened keeps the buffer it had.        *)
Fill(f, buffers, faults) ==
  /\ pc = "fill"
  /\ NextToRead(f)
  /\ unread' = unread \ {f}
  /\ somebytes' = buffers
  /\ faulted' = faults
  /\ UNCHANGED <<options, info, size, data, m_list, identity, duptype,
                 pc, type, lasttype, touched>>

FillSkips(f) == AlreadyChecksummed(f) /\ Fill(f, somebytes, faulted)

FillOpenFails(f) ==
  /\ ReadsMayFail
  /\ ~AlreadyChecksummed(f)
  /\ Fill(f, somebytes, faulted \cup {info[f].inode})

(* a read error ends the loop like an end of file does *)
FillReadFails(f) ==
  /\ ReadsMayFail
  /\ ~AlreadyChecksummed(f)
  /\ \E upto \in ReadFrom(f) - 1 .. ReadUpto(f) - 1 :
       Fill(f, [somebytes EXCEPT ![f] =
                  Digest(CkType(type), SubSeq(Content(f), ReadFrom(f), upto))],
            faulted \cup {info[f].inode})

FillReads(f) ==
  /\ ~AlreadyChecksummed(f)
  /\ Fill(f, [somebytes EXCEPT ![f] =
                Digest(CkType(type), SubSeq(Content(f), ReadFrom(f), ReadUpto(f)))],
          faulted)

(* The file was rewritten between two reads of the same loop. *)
FillMixes(f) ==
  /\ info[f].inode \in touched
  /\ ~AlreadyChecksummed(f)
  /\ \E b \in Mixtures :
       Fill(f, [somebytes EXCEPT ![f] = Digest(CkType(type), b)], faulted)

(* Faulty: files not read yet are compared. *)
RemoveBeforeAllAreRead ==
  /\ pc = "fill"
  /\ \E p \in Arrangements(Listed) :
       /\ Sorts(p, SizeThenBufferLess)
       /\ m_list' = Keep(p, {f \in Listed : Run(p, SizeThenBufferLess, f) # {f}})
  /\ pc' = "modes"
  /\ UNCHANGED <<options, info, size, data, identity, somebytes, duptype,
                 type, lasttype, unread, faulted, touched>>
(* Faulty: cleanup() is forgotten. *)
RemoveWithoutCleanup ==
  /\ pc = "fill" /\ unread = {}
  /\ \E p \in Arrangements(Listed) :
       /\ Sorts(p, SizeThenBufferLess)
       /\ m_list' = p
  /\ pc' = "modes"
  /\ UNCHANGED <<options, info, size, data, identity, somebytes, duptype,
                 type, lasttype, unread, faulted, touched>>

RemoveUniqSizeAndBuffer ==
  /\ pc = "fill" /\ unread = {}
  /\ \E p \in Arrangements(Listed) :
       /\ Sorts(p, SizeThenBufferLess)
       /\ m_list' = Keep(p, {f \in Listed : Run(p, SizeThenBufferLess, f) # {f}})
  /\ pc' = "modes"
  /\ UNCHANGED <<options, info, size, data, identity, somebytes, duptype,
                 type, lasttype, unread, faulted, touched>>

(* the group of f when markduplicates runs, and its leader *)
Group(f) == Run(m_list, SizeThenBufferLess, f)
(* Faulty: the ranks are not looked at. *)
OriginalIsFirst(f) == First(Group(f))
Original(f) == Best(Group(f))

(* Faulty: the original stays where it is. *)
OriginalsWhereTheyAre == m_list

(* std::iter_swap(first, orig) in every group *)
OriginalsFirst ==
  [f \in Listed |->
     IF f = Original(f) THEN m_list[First(Group(f))]
     ELSE IF f = First(Group(f)) THEN m_list[Original(f)]
     ELSE m_list[f]]

MarkDuplicates ==
  /\ pc = "modes" /\ ModesLeft = {}
  /\ m_list' = OriginalsFirst
  /\ identity' = [f \in Files |->
       IF f \in Listed /\ f # Original(f) THEN -identity[Original(f)] ELSE identity[f]]
  /\ duptype' = [f \in Files |->
       IF f \notin Listed THEN duptype[f]
       ELSE IF f = Original(f) THEN "FIRST_OCCURRENCE"
       ELSE IF info[f].cmdline_index = info[Original(f)].cmdline_index
              THEN "WITHIN_SAME_TREE" ELSE "OUTSIDE_TREE"]
  /\ pc' = "done"
  /\ UNCHANGED <<options, info, size, data, somebytes, type, lasttype,
                 unread, faulted, touched>>

(* The user rewrites a file while the program runs. *)
Rewrite(i) ==
  /\ pc # "done"
  /\ i \in touched \/ Cardinality(touched) < MaxTouched
  /\ data' \in {[data EXCEPT ![i] = c] : c \in Contents}
  /\ touched' = touched \cup {i}
  /\ UNCHANGED <<options, info, size, m_list, identity, somebytes, duptype,
                 pc, type, lasttype, unread, faulted>>

Done == pc = "done" /\ UNCHANGED vars

System ==
  \/ MarkItems \/ RemoveIdenticalInodes \/ RemoveUniqueSizes \/ StartFill
  \/ \E f \in Files :
       FillSkips(f) \/ FillOpenFails(f) \/ FillReadFails(f) \/ FillReads(f) \/ FillMixes(f)
  \/ RemoveUniqSizeAndBuffer \/ MarkDuplicates

Next == System \/ (\E i \in Inodes : Rewrite(i)) \/ Done

Spec == Init /\ [][Next]_vars

-----------------------------------------------------------------------------
(* Vocabulary of the properties. *)

ScanOrder == [f \in Files |-> info[f].found]
SameInode(f, g) == info[f].inode = info[g].inode

(* f is the entry its inode is known by once hard links are collapsed *)
Represents(f) ==
  options.remove_identical_inode =>
    \A g \in Files : SameInode(f, g) => ~Outranks(ScanOrder, g, f)

(* Nothing went wrong with the file behind f: it can be held to its content. *)
Clean(f) == info[f].inode \notin faulted \cup touched

Abs(n) == IF n < 0 THEN -n ELSE n
SameGroup(f, g) == Abs(identity[f]) = Abs(identity[g])

(* The bytes of a clean file that stage m compares. *)
SliceFrom(m, f) ==
  IF m = READ_LAST_BYTES /\ options.first_bytes_size < size[f]
       /\ options.last_bytes_size < size[f]
    THEN size[f] - options.last_bytes_size + 1
    ELSE 1
SliceUpto(m, f) ==
  IF m = READ_FIRST_BYTES /\ options.first_bytes_size < size[f]
    THEN options.first_bytes_size
    ELSE size[f]
Slice(m, f) == SubSeq(Content(f), SliceFrom(m, f), SliceUpto(m, f))

-----------------------------------------------------------------------------
TypeOK ==
  /\ options \in OptionSets
  /\ info \in [Files -> [inode : Inodes, cmdline_index : CmdlineIndexes,
                         depth : Depths, found : Nat \ {0}]]
  /\ size \in [Files -> Nat]
  /\ data \in [Inodes -> Contents]
  /\ Listed \in SUBSET Files /\ m_list \in [Listed -> Nat \ {0}]
  /\ identity \in [Files -> Int]
  /\ somebytes \in [Files -> Nat]
  /\ duptype \in [Files -> {"UNKNOWN", "FIRST_OCCURRENCE",
                            "WITHIN_SAME_TREE", "OUTSIDE_TREE"}]
  /\ pc \in {"markitems", "inodes", "sizes", "modes", "fill", "done"}
  /\ type \in ReadModes \cup {NOT_DEFINED} /\ lasttype \in ReadModes \cup {NOT_DEFINED}
  /\ unread \in SUBSET Listed
  /\ faulted \in SUBSET Inodes /\ touched \in SUBSET Inodes

(* The bookkeeping every other fact rests on: until markduplicates reuses   *)
(* it, the identity is the place in the scanned list; places and identities *)
(* are unique; the modes are gone through in increasing order.              *)
Bookkeeping ==
  /\ \A f, g \in Files : info[f].found = info[g].found => f = g
  /\ pc # "done" => \A f, g \in Listed : m_list[f] = m_list[g] => f = g
  /\ pc = "markitems" => m_list = ScanOrder
  /\ pc \notin {"markitems", "done"} => identity = ScanOrder
  /\ \A f \in Files : info[f].inode \notin touched => size[f] = Len(Content(f))
  /\ pc # "fill" => unread = {}
  /\ pc = "fill" => type # NOT_DEFINED
  /\ pc \in {"markitems", "inodes", "sizes"} => type = NOT_DEFINED
  /\ type # NOT_DEFINED => type \in EnabledModes /\ lasttype < type
  /\ type = READ_LAST_BYTES /\ options.first_bytes_size > 0 => lasttype = READ_FIRST_BYTES
  /\ type = NOT_DEFINED => somebytes = [f \in Files |-> 0]

(* Once hard links are collapsed only representatives are on the list.      *)
OnlyRepresentativesListed ==
  pc \notin {"markitems", "inodes"} => \A f \in Listed : Represents(f)

(* Between two stages the list is sorted on size and buffer, in groups.     *)
ListIsGrouped ==
  pc = "modes" =>
    /\ Sorts(m_list, SizeThenBufferLess)
    /\ \A f \in Listed : Group(f) # {f}

(* The asserts of markduplicates: the list is still sorted on size and      *)
(* buffer although every fillwithbytes destroyed the order, and no group is *)
(* a single file.                                                           *)
ListIsReadyToMark ==
  pc = "modes" /\ ModesLeft = {} =>
    /\ Sorts(m_list, SizeThenBufferLess)
    /\ \A f \in Listed : Group(f) # {f}

(* The buffer of a clean file is the checksum of the bytes the stage stands *)
(* for, also when fillwithbytes skipped the read because an earlier stage   *)
(* had already seen the whole file.                                         *)
BuffersHoldTheirSlice ==
  \A f \in Listed :
    LET m == IF f \in unread THEN lasttype ELSE type
    IN  Clean(f) /\ m # NOT_DEFINED => somebytes[f] = Digest(CkType(m), Slice(m, f))

(* No elimination stage may separate two equal files, whatever happens to   *)
(* other files, and in the end they are in one group.                       *)
EqualFilesAreFound ==
  \A f, g \in Files :
    /\ f # g /\ Represents(f) /\ Represents(g)
    /\ Clean(f) /\ Clean(g) /\ Content(f) = Content(g)
    => /\ f \in Listed
       /\ g \in Listed
       /\ pc = "done" => SameGroup(f, g)

(* With a checksum stage, what is reported as one group is equal.           *)
DuplicatesAreEqual ==
  pc = "done" /\ options.checksums # {} =>
    \A f, g \in Listed :
      SameGroup(f, g) /\ Clean(f) /\ Clean(g) => Content(f) = Content(g)

(* Of all scanned files with some content, hard links that were collapsed   *)
(* included, the original is the one RANKING in the man page puts first.    *)
OriginalIsHighestRanked ==
  pc = "done" =>
    \A o \in Listed, h \in Files :
      /\ duptype[o] = "FIRST_OCCURRENCE"
      /\ Clean(o) /\ Clean(h) /\ Content(o) = Content(h)
      => ~Outranks(ScanOrder, h, o)

(* What the asserts of applyactiononfile rely on: walking down the list,    *)
(* the latest original seen is the one a duplicate points to, and it had    *)
(* the same size and buffer.                                                *)
OriginalLeadsItsGroup ==
  pc = "done" =>
    \A f \in Listed :
      /\ duptype[f] # "UNKNOWN"
      /\ duptype[f] # "FIRST_OCCURRENCE" =>
           \E o \in Listed :
             /\ duptype[o] = "FIRST_OCCURRENCE" /\ identity[f] = -identity[o]
             /\ identity[o] > 0
             /\ size[f] = size[o] /\ somebytes[f] = somebytes[o]
             /\ (duptype[f] = "WITHIN_SAME_TREE") <=>
                  (info[f].cmdline_index = info[o].cmdline_index)
             /\ m_list[o] < m_list[f]
             /\ \A q \in Listed :
                  m_list[o] < m_list[q] /\ m_list[q] <= m_list[f]
                    => duptype[q] # "FIRST_OCCURRENCE"

(* README.md, algorithm step 12: "Only keep files on the list with the same *)
(* size and checksum. These are duplicates."                                *)
OnlyEqualFilesRemain ==
  pc = "done" /\ options.checksums # {} =>
    \A f, g \in Listed :
      /\ SameGroup(f, g)
      /\ info[f].inode \notin touched /\ info[g].inode \notin touched
      => Content(f) = Content(g)
=============================================================================
