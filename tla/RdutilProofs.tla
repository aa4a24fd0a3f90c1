---------------------------- MODULE RdutilProofs ----------------------------
(***************************************************************************)
(* Theorems about Rdutil, for any set of files, contents and options.      *)
(***************************************************************************)
EXTENDS Rdutil, TLAPS, WellFoundedInduction, SequenceTheorems

(* What fillwithbytes reads is a piece of the file. *)
LEMMA ReadRange ==
  ASSUME TypeOK, NEW f \in Files
  PROVE  /\ Content(f) \in Contents /\ Len(Content(f)) \in Nat
         /\ ReadFrom(f) \in 1 .. Len(Content(f)) + 1
         /\ ReadUpto(f) \in ReadFrom(f) - 1 .. Len(Content(f))
<1>1. Content(f) \in Contents /\ Len(Content(f)) \in Nat
  BY ContentsAssumption DEF TypeOK, Content
<1>2. options.first_bytes_size \in Nat /\ options.last_bytes_size \in Nat
  BY OptionsAssumption DEF TypeOK
<1>3. CASE ReadsEntireFile(f)
  BY <1>1, <1>2, <1>3 DEF ReadFrom, ReadUpto
<1>4. CASE ~ReadsEntireFile(f) /\ type = READ_FIRST_BYTES
  BY <1>1, <1>2, <1>4 DEF ReadFrom, ReadUpto, READ_FIRST_BYTES, READ_LAST_BYTES
<1>5. CASE ~ReadsEntireFile(f) /\ type # READ_FIRST_BYTES
  <2>1. type = READ_LAST_BYTES
    BY <1>5 DEF ReadsEntireFile
  <2>2. QED
    BY <1>1, <1>2, <1>5, <2>1 DEF ReadFrom, ReadUpto
<1>6. QED
  BY <1>3, <1>4, <1>5

LEMMA CkTypeType ==
  ASSUME TypeOK, NEW m \in ReadModes
  PROVE  CkType(m) \in ChecksumTypes
  BY OptionsAssumption DEF TypeOK, CkType, ReadModes, ChecksumModes, ChecksumTypes

LEMMA PieceIsSlice ==
  ASSUME NEW c \in Contents, NEW i \in 1 .. Len(c) + 1, NEW j \in 0 .. Len(c)
  PROVE  SubSeq(c, i, j) \in Slices
<1> DEFINE Piece(d, a, b) == SubSeq(d, a, b)
<1> DEFINE Pieces(d) == {Piece(d, a, b) : a \in 1 .. Len(d) + 1, b \in 0 .. Len(d)}
<1>1. Slices = UNION {Pieces(d) : d \in Contents}
  BY DEF Slices
<1> HIDE DEF Piece
<1>2. Piece(c, i, j) \in Pieces(c)
  OBVIOUS
<1> HIDE DEF Pieces
<1>3. Piece(c, i, j) \in Slices
  BY <1>1, <1>2
<1>4. QED
  BY <1>3 DEF Piece

LEMMA DigestType ==
  ASSUME TypeOK, NEW f \in Files, type \in ReadModes,
         NEW upto \in ReadFrom(f) - 1 .. ReadUpto(f)
  PROVE  Digest(CkType(type), SubSeq(Content(f), ReadFrom(f), upto)) \in Nat
<1>1. /\ Content(f) \in Contents /\ Len(Content(f)) \in Nat
      /\ ReadFrom(f) \in 1 .. Len(Content(f)) + 1
      /\ upto \in 0 .. Len(Content(f))
  BY ReadRange
<1>2. SubSeq(Content(f), ReadFrom(f), upto) \in Slices
  BY <1>1, PieceIsSlice
<1>3. QED
  BY <1>2, CkTypeType, DigestAssumption

LEMMA ArrangementType ==
  ASSUME NEW S, NEW p \in Arrangements(S)
  PROVE  DOMAIN p = S /\ p \in [S -> Nat \ {0}]
  BY DEF Arrangements

LEMMA KeepType ==
  ASSUME NEW T, NEW p \in Arrangements(T), NEW S \in SUBSET T
  PROVE  DOMAIN Keep(p, S) = S /\ Keep(p, S) \in [S -> Nat \ {0}]
  BY ArrangementType DEF Keep

-----------------------------------------------------------------------------
(* Ranks. *)

LEMMA Least ==
  ASSUME NEW S, S # {}, NEW k, \A x \in S : k[x] \in Nat
  PROVE  \E x \in S : \A y \in S : k[x] <= k[y]
<1> DEFINE T == {k[x] : x \in S}
<1>1. T \subseteq Nat /\ T # {}
  OBVIOUS
<1>2. \E m \in T : \A n \in T : <<n, m>> \notin OpToRel(<, Nat)
  <2> HIDE DEF T
  <2>1. QED
    BY <1>1, NatLessThanWellFounded, WFMin, Zenon
<1>3. PICK x \in S : \A n \in T : <<n, k[x]>> \notin OpToRel(<, Nat)
  BY <1>2
<1>4. ASSUME NEW y \in S PROVE k[x] <= k[y]
  <2>1. k[y] \in T /\ k[y] \in Nat /\ k[x] \in Nat
    OBVIOUS
  <2>2. <<k[y], k[x]>> \notin OpToRel(<, Nat)
    BY <1>3, <2>1
  <2>3. ~(k[y] < k[x])
    BY <2>1, <2>2 DEF OpToRel
  <2>4. QED
    BY <2>1, <2>3
<1>5. QED
  BY <1>4

(* std::min_element with cmpRank always has one answer. *)
LEMMA BestExists ==
  ASSUME TypeOK, Bookkeeping, identity = ScanOrder, NEW S \in SUBSET Files, S # {}
  PROVE  /\ Best(S) \in S
         /\ \A g \in S \ {Best(S)} : Outranks(identity, Best(S), g)
<1>1. \A f \in Files : /\ info[f].cmdline_index \in Nat /\ info[f].depth \in Nat
                       /\ identity[f] \in Nat
  BY RankAssumption DEF TypeOK, ScanOrder
<1>2. PICK a \in S : \A g \in S : info[a].cmdline_index <= info[g].cmdline_index
  <2> DEFINE k == [f \in Files |-> info[f].cmdline_index]
  <2>1. \E x \in S : \A y \in S : k[x] <= k[y]
    <3> \A x \in S : k[x] \in Nat
      BY <1>1
    <3> HIDE DEF k
    <3> QED BY Least
  <2>2. QED
    BY <2>1
<1> DEFINE A == {g \in S : info[g].cmdline_index = info[a].cmdline_index}
<1>3. PICK b \in A : \A g \in A : info[b].depth <= info[g].depth
  <2> DEFINE k == [f \in Files |-> info[f].depth]
  <2>1. \E x \in A : \A y \in A : k[x] <= k[y]
    <3> A # {} /\ \A x \in A : k[x] \in Nat
      BY <1>1, <1>2
    <3> HIDE DEF k, A
    <3> QED BY Least
  <2>2. QED
    BY <2>1
<1> DEFINE B == {g \in A : info[g].depth = info[b].depth}
<1>4. PICK c \in B : \A g \in B : identity[c] <= identity[g]
  <2> B # {} /\ \A x \in B : identity[x] \in Nat
    BY <1>1, <1>3
  <2> HIDE DEF B
  <2> QED BY Least
<1>5. \A f, g \in Files : identity[f] = identity[g] => f = g
  BY DEF Bookkeeping, ScanOrder
<1>6. \A g \in S \ {c} : Outranks(identity, c, g)
  BY <1>1, <1>2, <1>3, <1>4, <1>5 DEF Outranks
<1>7. QED
  BY <1>4, <1>6 DEF Best

LEMMA RankIsTotal ==
  ASSUME TypeOK, Bookkeeping, NEW f \in Files, NEW g \in Files
  PROVE  f # g => (Outranks(ScanOrder, f, g) <=> ~Outranks(ScanOrder, g, f))
<1>1. /\ info[f].cmdline_index \in Nat /\ info[f].depth \in Nat /\ info[f].found \in Nat
      /\ info[g].cmdline_index \in Nat /\ info[g].depth \in Nat /\ info[g].found \in Nat
  BY RankAssumption DEF TypeOK
<1>2. f # g => info[f].found # info[g].found
  BY DEF Bookkeeping
<1>3. QED
  BY <1>1, <1>2 DEF Outranks, ScanOrder

LEMMA RankIsTransitive ==
  ASSUME TypeOK, NEW f \in Files, NEW g \in Files, NEW h \in Files,
         Outranks(ScanOrder, f, g), Outranks(ScanOrder, g, h)
  PROVE  Outranks(ScanOrder, f, h)
<1>1. \A e \in {f, g, h} :
        info[e].cmdline_index \in Nat /\ info[e].depth \in Nat /\ info[e].found \in Nat
  BY RankAssumption DEF TypeOK
<1>2. QED
  BY <1>1 DEF Outranks, ScanOrder

(* The first entry of a group, in list order. *)
LEMMA FirstExists ==
  ASSUME TypeOK, Bookkeeping, pc # "done", NEW S \in SUBSET Listed, S # {}
  PROVE  First(S) \in S /\ \A g \in S \ {First(S)} : m_list[First(S)] < m_list[g]
<1>1. \A x \in S : m_list[x] \in Nat
  BY DEF TypeOK
<1>2. PICK a \in S : \A g \in S : m_list[a] <= m_list[g]
  BY <1>1, Least
<1>3. \A g \in S \ {a} : m_list[a] < m_list[g]
  BY <1>1, <1>2 DEF Bookkeeping
<1>4. QED
  BY <1>3 DEF First

-----------------------------------------------------------------------------
(* The groups markduplicates finds. *)

Alike(f, g) == size[f] = size[g] /\ somebytes[f] = somebytes[g]

LEMMA NeitherLess ==
  ASSUME TypeOK, NEW f \in Files, NEW g \in Files
  PROVE  ~SizeThenBufferLess(f, g) /\ ~SizeThenBufferLess(g, f) <=> Alike(f, g)
<1>1. size[f] \in Nat /\ size[g] \in Nat /\ somebytes[f] \in Nat /\ somebytes[g] \in Nat
  BY DEF TypeOK
<1>2. QED
  BY <1>1 DEF SizeThenBufferLess, SizeLess, Alike

LEMMA GroupIs ==
  ASSUME TypeOK, NEW f \in Listed
  PROVE  Group(f) = {g \in Listed :
                       \A h \in Listed :
                          \/ m_list[f] <= m_list[h] /\ m_list[h] <= m_list[g]
                          \/ m_list[g] <= m_list[h] /\ m_list[h] <= m_list[f]
                          => Alike(f, h)}
  BY NeitherLess DEF TypeOK, Group, Run, Listed

(* Every entry is in its own group, and a group is of one size and buffer. *)
LEMMA GroupsAreAlike ==
  ASSUME TypeOK, Bookkeeping, pc # "done", NEW f \in Listed
  PROVE  /\ f \in Group(f) /\ Group(f) \in SUBSET Listed
         /\ \A g \in Group(f) : Alike(f, g)
<1>1. \A g \in Listed : m_list[g] \in Nat
  BY DEF TypeOK
<1>2. \A h \in Listed : m_list[f] <= m_list[h] /\ m_list[h] <= m_list[f] => h = f
  BY <1>1 DEF Bookkeeping
<1>3. Alike(f, f)
  BY DEF Alike
<1>4. QED
  BY <1>1, <1>2, <1>3, GroupIs

LEMMA GroupsPartition ==
  ASSUME TypeOK, Bookkeeping, pc # "done", NEW f \in Listed, NEW g \in Group(f)
  PROVE  Group(g) = Group(f)
<1>1. \A e \in Listed : m_list[e] \in Nat
  BY DEF TypeOK
<1>2. g \in Listed /\ Alike(f, g)
  BY GroupsAreAlike
<1>3. \A h \in Listed : Alike(g, h) <=> Alike(f, h)
  BY <1>2 DEF Alike
<1>4. \A h \in Listed :
        \/ m_list[f] <= m_list[h] /\ m_list[h] <= m_list[g]
        \/ m_list[g] <= m_list[h] /\ m_list[h] <= m_list[f]
        => Alike(f, h)
  BY GroupIs
<1>5. ASSUME NEW e \in Listed PROVE e \in Group(f) <=> e \in Group(g)
  BY <1>1, <1>2, <1>3, <1>4, GroupIs
<1>6. Group(f) \subseteq Listed /\ Group(g) \subseteq Listed
  BY <1>2, GroupsAreAlike
<1>7. QED
  BY <1>5, <1>6

(* A group is a contiguous part of the list. *)
LEMMA GroupIsConvex ==
  ASSUME TypeOK, Bookkeeping, pc # "done", NEW f \in Listed,
         NEW a \in Group(f), NEW c \in Group(f), NEW b \in Listed,
         m_list[a] <= m_list[b], m_list[b] <= m_list[c]
  PROVE  b \in Group(f)
<1>1. \A e \in Listed : m_list[e] \in Nat
  BY DEF TypeOK
<1>2. a \in Listed /\ Group(a) = Group(f)
  BY GroupsAreAlike, GroupsPartition
<1>3. c \in Group(a) /\ c \in Listed
  BY <1>2, GroupsAreAlike
<1>4. \A h \in Listed : m_list[a] <= m_list[h] /\ m_list[h] <= m_list[c] => Alike(a, h)
  BY <1>2, <1>3, GroupIs
<1>5. \A h \in Listed : m_list[a] <= m_list[h] /\ m_list[h] <= m_list[b] => Alike(a, h)
  BY <1>1, <1>2, <1>3, <1>4
<1>6. \A h \in Listed : m_list[b] <= m_list[h] /\ m_list[h] <= m_list[a] => h = a
  BY <1>1, <1>2 DEF Bookkeeping
<1>7. Alike(a, a)
  BY DEF Alike
<1>8. b \in Group(a)
  BY <1>2, <1>5, <1>6, <1>7, GroupIs
<1>9. QED
  BY <1>2, <1>8

LEMMA OriginalExists ==
  ASSUME TypeOK, Bookkeeping, pc = "modes", NEW f \in Listed
  PROVE  /\ Original(f) \in Group(f) /\ Original(f) \in Listed
         /\ \A g \in Group(f) \ {Original(f)} : Outranks(ScanOrder, Original(f), g)
<1>1. identity = ScanOrder
  BY DEF Bookkeeping
<1>2. Group(f) \in SUBSET Files /\ Group(f) # {} /\ Group(f) \subseteq Listed
  BY GroupsAreAlike DEF TypeOK
<1>3. QED
  BY <1>1, <1>2, BestExists DEF Original

-----------------------------------------------------------------------------
(* Type correctness and bookkeeping, one lemma per action. *)

LEMMA InitInv == Init => TypeOK /\ Bookkeeping
<1> SUFFICES ASSUME Init PROVE TypeOK /\ Bookkeeping
  OBVIOUS
<1>1. info \in [Files -> [inode : Inodes, cmdline_index : CmdlineIndexes,
                         depth : Depths, found : Nat \ {0}]]
  BY DEF Init
<1>2. size \in [Files -> Nat]
  BY ContentsAssumption DEF Init, Content
<1>3. TypeOK
  BY <1>1, <1>2 DEF Init, TypeOK, Listed, NOT_DEFINED
<1>4. Bookkeeping
  BY DEF Init, Bookkeeping, Listed, ScanOrder, NOT_DEFINED, READ_LAST_BYTES
<1>5. QED
  BY <1>3, <1>4

LEMMA MarkItemsInv ==
  ASSUME TypeOK, Bookkeeping, MarkItems PROVE TypeOK' /\ Bookkeeping'
<1>1. Listed = Files /\ m_list = ScanOrder
  BY DEF MarkItems, Bookkeeping, ScanOrder, Listed
<1>2. TypeOK'
  BY <1>1 DEF MarkItems, TypeOK, Listed
<1>3. Bookkeeping'
  BY <1>1 DEF MarkItems, Bookkeeping, Listed, ScanOrder, Content, EnabledModes
<1>4. QED
  BY <1>2, <1>3

(* What the three removing steps have in common: the list is arranged and   *)
(* some entries are dropped.                                                *)
LEMMA RemovalInv ==
  ASSUME TypeOK, Bookkeeping, unread = {}, pc \notin {"markitems", "done"},
         pc' \in {"sizes", "modes"}, pc' = "sizes" => pc = "inodes",
         NEW S \in SUBSET Listed, NEW p \in Arrangements(Listed), m_list' = Keep(p, S),
         UNCHANGED <<options, info, size, data, identity, somebytes, duptype,
                     type, lasttype, unread, faulted, touched>>
  PROVE  TypeOK' /\ Bookkeeping' /\ Listed' = S
<1>1. Listed' = S /\ m_list' \in [S -> Nat \ {0}]
  BY KeepType DEF Listed
<1>2. \A f, g \in S : m_list'[f] = m_list'[g] => f = g
  BY DEF Keep, Arrangements
<1>3. TypeOK'
  BY <1>1 DEF TypeOK, Listed
<1>4. Bookkeeping'
  BY <1>1, <1>2 DEF Bookkeeping, ScanOrder, Content, EnabledModes
<1>5. QED
  BY <1>1, <1>3, <1>4

LEMMA RemoveIdenticalInodesInv ==
  ASSUME TypeOK, Bookkeeping, RemoveIdenticalInodes PROVE TypeOK' /\ Bookkeeping'
<1>1. PICK p \in Arrangements(Listed) :
         m_list' = Keep(p, {f \in Listed : f = Best(Run(p, DeviceInodeLess, f))})
  BY DEF RemoveIdenticalInodes
<1> DEFINE S == {f \in Listed : f = Best(Run(p, DeviceInodeLess, f))}
<1>2. S \in SUBSET Listed /\ m_list' = Keep(p, S) /\ unread = {}
  BY <1>1 DEF RemoveIdenticalInodes, Bookkeeping
<1> HIDE DEF S
<1>3. QED
  BY <1>1, <1>2, RemovalInv DEF RemoveIdenticalInodes

LEMMA RemoveUniqueSizesInv ==
  ASSUME TypeOK, Bookkeeping, RemoveUniqueSizes PROVE TypeOK' /\ Bookkeeping'
<1>1. PICK p \in Arrangements(Listed) :
         m_list' = Keep(p, {f \in Listed : Run(p, SizeLess, f) # {f}})
  BY DEF RemoveUniqueSizes
<1> DEFINE S == {f \in Listed : Run(p, SizeLess, f) # {f}}
<1>2. S \in SUBSET Listed /\ m_list' = Keep(p, S) /\ unread = {}
  BY <1>1 DEF RemoveUniqueSizes, Bookkeeping
<1> HIDE DEF S
<1>3. QED
  BY <1>1, <1>2, RemovalInv DEF RemoveUniqueSizes

LEMMA RemoveUniqSizeAndBufferInv ==
  ASSUME TypeOK, Bookkeeping, RemoveUniqSizeAndBuffer PROVE TypeOK' /\ Bookkeeping'
<1>1. PICK p \in Arrangements(Listed) :
         m_list' = Keep(p, {f \in Listed : Run(p, SizeThenBufferLess, f) # {f}})
  BY DEF RemoveUniqSizeAndBuffer
<1> DEFINE S == {f \in Listed : Run(p, SizeThenBufferLess, f) # {f}}
<1>2. S \in SUBSET Listed /\ m_list' = Keep(p, S) /\ unread = {}
  BY <1>1 DEF RemoveUniqSizeAndBuffer, Bookkeeping
<1> HIDE DEF S
<1>3. QED
  BY <1>1, <1>2, RemovalInv DEF RemoveUniqSizeAndBuffer

(* The modes are taken in increasing order, so the last bytes are always    *)
(* read right after the first bytes when both stages are on.                *)
LEMMA StartFillInv ==
  ASSUME TypeOK, Bookkeeping, StartFill PROVE TypeOK' /\ Bookkeeping'
<1>1. PICK m \in ModesLeft : (\A n \in ModesLeft : m <= n) /\ type' = m
  BY DEF StartFill
<1>2. m \in EnabledModes /\ m \in ReadModes /\ type < m /\ m # NOT_DEFINED
  BY <1>1 DEF ModesLeft, EnabledModes, ReadModes, NOT_DEFINED
<1>3. Listed' = Listed /\ m_list' \in [Listed -> Nat \ {0}]
  BY ArrangementType DEF StartFill, Listed
<1>4. \A f, g \in Listed : m_list'[f] = m_list'[g] => f = g
  BY DEF StartFill, Arrangements
<1>5. TypeOK'
  BY <1>1, <1>2, <1>3 DEF StartFill, TypeOK
<1>6. m = READ_LAST_BYTES /\ options.first_bytes_size > 0 => type = READ_FIRST_BYTES
  BY <1>1, <1>2 DEF TypeOK, ModesLeft, EnabledModes, ReadModes, NOT_DEFINED,
                    READ_LAST_BYTES, READ_FIRST_BYTES
<1>7. Bookkeeping'
  BY <1>1, <1>2, <1>3, <1>4, <1>6 DEF StartFill, Bookkeeping, ScanOrder, Content, EnabledModes
<1>8. QED
  BY <1>5, <1>7

LEMMA FillInv ==
  ASSUME TypeOK, Bookkeeping, NEW f \in Files,
         FillSkips(f) \/ FillOpenFails(f) \/ FillReadFails(f) \/ FillReads(f) \/ FillMixes(f)
  PROVE  TypeOK' /\ Bookkeeping'
<1>1. /\ pc = "fill" /\ type \in ReadModes /\ type # NOT_DEFINED
      /\ unread' = unread \ {f}
      /\ faulted' \in SUBSET Inodes
      /\ UNCHANGED <<options, info, size, data, m_list, identity, duptype,
                     pc, type, lasttype, touched>>
  BY DEF FillSkips, FillOpenFails, FillReadFails, FillReads, FillMixes, Fill, TypeOK, Bookkeeping
<1>2. somebytes' \in [Files -> Nat]
  <2>1. CASE FillSkips(f) \/ FillOpenFails(f)
    BY <2>1 DEF FillSkips, FillOpenFails, Fill, TypeOK
  <2>2. CASE FillReadFails(f)
    <3>1. PICK upto \in ReadFrom(f) - 1 .. ReadUpto(f) - 1 :
             somebytes' = [somebytes EXCEPT ![f] =
               Digest(CkType(type), SubSeq(Content(f), ReadFrom(f), upto))]
      BY <2>2 DEF FillReadFails, Fill
    <3>2. upto \in ReadFrom(f) - 1 .. ReadUpto(f)
      BY ReadRange
    <3>3. QED
      BY <1>1, <3>1, <3>2, DigestType DEF TypeOK
  <2>3. CASE FillReads(f)
    <3>1. ReadUpto(f) \in ReadFrom(f) - 1 .. ReadUpto(f)
      BY ReadRange
    <3>2. QED
      BY <1>1, <2>3, <3>1, DigestType DEF FillReads, Fill, TypeOK
  <2>4. CASE FillMixes(f)
    <3>1. PICK b \in Mixtures : somebytes' = [somebytes EXCEPT ![f] = Digest(CkType(type), b)]
      BY <2>4 DEF FillMixes, Fill
    <3>2. Digest(CkType(type), b) \in Nat
      BY <1>1, CkTypeType, DigestAssumption
    <3>3. QED
      BY <1>1, <3>1, <3>2 DEF TypeOK
  <2>5. QED
    BY <2>1, <2>2, <2>3, <2>4
<1>3. TypeOK'
  BY <1>1, <1>2 DEF TypeOK, Listed
<1>4. Bookkeeping'
  BY <1>1 DEF Bookkeeping, ScanOrder, Content, EnabledModes, Listed
<1>5. QED
  BY <1>3, <1>4

LEMMA MarkDuplicatesInv ==
  ASSUME TypeOK, Bookkeeping, MarkDuplicates PROVE TypeOK' /\ Bookkeeping'
<1>1. pc = "modes" /\ pc' = "done"
  BY DEF MarkDuplicates
<1>2. \A f \in Listed : Original(f) \in Listed /\ Group(f) \in SUBSET Listed /\ Group(f) # {}
  BY <1>1, OriginalExists, GroupsAreAlike
<1>3. \A f \in Listed : First(Group(f)) \in Listed
  BY <1>1, <1>2, FirstExists
<1>4. Listed' = Listed /\ m_list' \in [Listed -> Nat \ {0}]
  BY <1>2, <1>3 DEF MarkDuplicates, OriginalsFirst, Listed, TypeOK
<1>5. identity' \in [Files -> Int]
  BY <1>2 DEF MarkDuplicates, TypeOK
<1>6. duptype' \in [Files -> {"UNKNOWN", "FIRST_OCCURRENCE",
                            "WITHIN_SAME_TREE", "OUTSIDE_TREE"}]
  BY DEF MarkDuplicates, TypeOK
<1>7. TypeOK'
  BY <1>4, <1>5, <1>6 DEF MarkDuplicates, TypeOK
<1>8. Bookkeeping'
  BY <1>1 DEF MarkDuplicates, Bookkeeping, ScanOrder, Content, EnabledModes
<1>9. QED
  BY <1>7, <1>8

LEMMA RewriteInv ==
  ASSUME TypeOK, Bookkeeping, NEW i \in Inodes, Rewrite(i) PROVE TypeOK' /\ Bookkeeping'
<1>1. data' \in [Inodes -> Contents] /\ \A j \in Inodes \ {i} : data'[j] = data[j]
  BY DEF Rewrite, TypeOK
<1>2. TypeOK'
  BY <1>1 DEF Rewrite, TypeOK, Listed
<1>3. Bookkeeping'
  BY <1>1 DEF Rewrite, Bookkeeping, ScanOrder, Content, EnabledModes, Listed, TypeOK
<1>4. QED
  BY <1>2, <1>3

LEMMA NextInv ==
  ASSUME TypeOK, Bookkeeping, [Next]_vars PROVE TypeOK' /\ Bookkeeping'
<1>1. CASE UNCHANGED vars
  BY <1>1 DEF vars, TypeOK, Bookkeeping, Listed, ScanOrder, Content, EnabledModes
<1>2. CASE Next
  BY <1>1, <1>2, MarkItemsInv, RemoveIdenticalInodesInv, RemoveUniqueSizesInv, StartFillInv,
     FillInv, RemoveUniqSizeAndBufferInv, MarkDuplicatesInv, RewriteInv DEF Next, System, Done
<1>3. QED
  BY <1>1, <1>2

(* Type correctness: every variable stays in the type of its C++ member,    *)
(* only listed entries are waiting to be read, and the file list is the one *)
(* that was scanned minus what was dropped.                                 *)
THEOREM TypeCorrect == Spec => []TypeOK
<1>1. Init => TypeOK /\ Bookkeeping
  BY InitInv
<1>2. TypeOK /\ Bookkeeping /\ [Next]_vars => (TypeOK /\ Bookkeeping)'
  BY NextInv
<1>3. QED
  BY <1>1, <1>2, PTL DEF Spec

-----------------------------------------------------------------------------
(* Buffers. *)

(* A clean entry that is read gets the checksum of its slice. *)
LEMMA ReadIsSlice ==
  ASSUME TypeOK, Bookkeeping, NEW f \in Listed, pc = "fill", Clean(f),
         ~AlreadyChecksummed(f)
  PROVE  SubSeq(Content(f), ReadFrom(f), ReadUpto(f)) = Slice(type, f)
<1>1. /\ f \in Files /\ size[f] = Len(Content(f)) /\ size[f] \in Nat
      /\ options.first_bytes_size \in Nat /\ options.last_bytes_size \in Nat
  BY OptionsAssumption DEF TypeOK, Bookkeeping, Clean
<1>2. CASE type = READ_FIRST_BYTES
  BY <1>1, <1>2 DEF ReadFrom, ReadUpto, ReadsEntireFile, Slice, SliceFrom, SliceUpto,
                    READ_FIRST_BYTES, READ_LAST_BYTES
<1>3. CASE type = READ_LAST_BYTES
  <2>1. CkType(type) = options.checksum_for_firstlast_bytes
    BY <1>3 DEF CkType, ChecksumModes, READ_LAST_BYTES
  <2>2. options.first_bytes_size < size[f] \/ size[f] = 0
    BY <1>1, <1>3, <2>1 DEF Bookkeeping, AlreadyChecksummed
  <2>3. ReadFrom(f) = SliceFrom(type, f) /\ ReadUpto(f) = SliceUpto(type, f)
    <3>1. CASE ReadsEntireFile(f)
      BY <1>1, <1>3, <3>1 DEF ReadFrom, ReadUpto, ReadsEntireFile, SliceFrom, SliceUpto,
                              READ_FIRST_BYTES, READ_LAST_BYTES
    <3>2. CASE ~ReadsEntireFile(f)
      BY <1>1, <1>3, <2>2, <3>2 DEF ReadFrom, ReadUpto, ReadsEntireFile, SliceFrom, SliceUpto,
                                    READ_FIRST_BYTES, READ_LAST_BYTES
    <3>3. QED
      BY <3>1, <3>2
  <2>4. QED
    BY <2>3 DEF Slice
<1>4. CASE type \notin {READ_FIRST_BYTES, READ_LAST_BYTES}
  BY <1>1, <1>4 DEF ReadFrom, ReadUpto, ReadsEntireFile, Slice, SliceFrom, SliceUpto
<1>5. QED
  BY <1>2, <1>3, <1>4

(* A skipped read would have produced what the buffer already holds. *)
LEMMA SkippedReadIsSlice ==
  ASSUME TypeOK, Bookkeeping, NEW f \in Listed, pc = "fill", AlreadyChecksummed(f)
  PROVE  /\ lasttype # NOT_DEFINED
         /\ CkType(lasttype) = CkType(type) /\ Slice(lasttype, f) = Slice(type, f)
<1>1. /\ f \in Files /\ size[f] \in Nat
      /\ options.first_bytes_size \in Nat /\ options.last_bytes_size \in Nat
      /\ type \in ReadModes /\ lasttype < type
  BY OptionsAssumption DEF TypeOK, Bookkeeping
<1>2. /\ lasttype \in {READ_FIRST_BYTES, READ_LAST_BYTES}
      /\ CkType(type) = options.checksum_for_firstlast_bytes
  BY DEF AlreadyChecksummed
<1>3. CkType(lasttype) = CkType(type) /\ lasttype # NOT_DEFINED
  BY <1>2 DEF CkType, ChecksumModes, READ_FIRST_BYTES, READ_LAST_BYTES, NOT_DEFINED
<1>4. SliceFrom(lasttype, f) = SliceFrom(type, f) /\ SliceUpto(lasttype, f) = SliceUpto(type, f)
  <2>1. CASE lasttype = READ_FIRST_BYTES
    BY <1>1, <2>1 DEF AlreadyChecksummed, SliceFrom, SliceUpto, READ_FIRST_BYTES,
                      READ_LAST_BYTES, ReadModes
  <2>2. CASE lasttype = READ_LAST_BYTES
    BY <1>1, <2>2 DEF AlreadyChecksummed, SliceFrom, SliceUpto, READ_FIRST_BYTES,
                      READ_LAST_BYTES, ReadModes
  <2>3. QED
    BY <1>2, <2>1, <2>2
<1>5. QED
  BY <1>3, <1>4 DEF Slice

(* The mode an entry's buffer stands for. *)
ModeOf(f) == IF f \in unread THEN lasttype ELSE type
BufferIsRight(f) ==
  Clean(f) /\ ModeOf(f) # NOT_DEFINED => somebytes[f] = Digest(CkType(ModeOf(f)), Slice(ModeOf(f), f))

LEMMA BuffersAreRight == BuffersHoldTheirSlice <=> \A f \in Listed : BufferIsRight(f)
  BY DEF BuffersHoldTheirSlice, BufferIsRight, ModeOf

LEMMA FillBuffers ==
  ASSUME TypeOK, Bookkeeping, BuffersHoldTheirSlice, NEW f \in Files,
         FillSkips(f) \/ FillOpenFails(f) \/ FillReadFails(f) \/ FillReads(f) \/ FillMixes(f)
  PROVE  BuffersHoldTheirSlice'
<1>1. /\ pc = "fill" /\ f \in Listed /\ f \in unread
      /\ unread' = unread \ {f} /\ faulted \subseteq faulted' /\ Listed' = Listed
      /\ UNCHANGED <<options, info, size, data, m_list, type, lasttype, touched>>
      /\ \A g \in Files \ {f} : somebytes'[g] = somebytes[g]
  BY DEF FillSkips, FillOpenFails, FillReadFails, FillReads, FillMixes, Fill, NextToRead, TypeOK, Listed
<1>2. ASSUME NEW g \in Listed, g # f PROVE BufferIsRight(g)'
  <2>1. Clean(g)' => Clean(g)
    BY <1>1 DEF Clean
  <2>2. ModeOf(g)' = ModeOf(g)
    BY <1>1, <1>2 DEF ModeOf
  <2>3. \A m : CkType(m)' = CkType(m) /\ Slice(m, g)' = Slice(m, g)
    BY <1>1 DEF CkType, Slice, SliceFrom, SliceUpto, Content
  <2>4. somebytes'[g] = somebytes[g] /\ BufferIsRight(g)
    BY <1>1, <1>2, BuffersAreRight DEF TypeOK
  <2>5. QED
    BY <2>1, <2>2, <2>3, <2>4 DEF BufferIsRight
<1>3. BufferIsRight(f)'
  <2>1. ModeOf(f)' = type /\ ModeOf(f) = lasttype
    BY <1>1 DEF ModeOf
  <2>2. /\ CkType(type)' = CkType(type) /\ Slice(type, f)' = Slice(type, f)
    BY <1>1 DEF CkType, Slice, SliceFrom, SliceUpto, Content
  <2>3. BufferIsRight(f) /\ type' = type
    BY <1>1, BuffersAreRight
  <2>4. CASE FillSkips(f)
    <3>1. somebytes' = somebytes /\ faulted' = faulted /\ AlreadyChecksummed(f)
      BY <2>4 DEF FillSkips, Fill
    <3>2. Clean(f)' <=> Clean(f)
      BY <1>1, <3>1 DEF Clean
    <3>3. QED
      BY <1>1, <2>1, <2>2, <2>3, <3>1, <3>2, SkippedReadIsSlice DEF BufferIsRight
  <2>5. CASE FillOpenFails(f) \/ FillReadFails(f)
    <3>1. ~Clean(f)'
      BY <1>1, <2>5 DEF FillOpenFails, FillReadFails, Fill, Clean
    <3>2. QED
      BY <3>1 DEF BufferIsRight
  <2>6. CASE FillReads(f)
    <3>1. /\ ~AlreadyChecksummed(f) /\ faulted' = faulted
          /\ somebytes'[f] = Digest(CkType(type), SubSeq(Content(f), ReadFrom(f), ReadUpto(f)))
      BY <2>6 DEF FillReads, Fill, TypeOK
    <3>2. Clean(f)' <=> Clean(f)
      BY <1>1, <3>1 DEF Clean
    <3>3. QED
      BY <1>1, <2>1, <2>2, <3>1, <3>2, ReadIsSlice DEF BufferIsRight
  <2>7. CASE FillMixes(f)
    <3>1. ~Clean(f)'
      BY <1>1, <2>7 DEF FillMixes, Fill, Clean
    <3>2. QED
      BY <3>1 DEF BufferIsRight
  <2>8. QED
    BY <2>4, <2>5, <2>6, <2>7
<1>4. QED
  BY <1>1, <1>2, <1>3, BuffersAreRight DEF BuffersHoldTheirSlice, BufferIsRight, ModeOf

LEMMA NextBuffers ==
  ASSUME TypeOK, Bookkeeping, BuffersHoldTheirSlice, [Next]_vars
  PROVE  BuffersHoldTheirSlice'
<1>1. CASE \E f \in Files : FillSkips(f) \/ FillOpenFails(f) \/ FillReadFails(f) \/ FillReads(f) \/ FillMixes(f)
  BY <1>1, FillBuffers
<1>2. CASE StartFill
  <2>1. /\ unread = {} /\ unread' = Listed /\ Listed' = Listed /\ lasttype' = type
        /\ UNCHANGED <<options, info, size, data, somebytes, faulted, touched>>
    BY <1>2, ArrangementType DEF StartFill, Bookkeeping, Listed
  <2>2. \A f \in Listed : ModeOf(f)' = type /\ ModeOf(f) = type
    BY <2>1 DEF ModeOf
  <2>3. QED
    BY <2>1, <2>2 DEF BuffersHoldTheirSlice, ModeOf, Clean, CkType, Slice, SliceFrom,
                      SliceUpto, Content
<1>3. CASE \E i \in Inodes : Rewrite(i)
  <2>1. PICK i \in Inodes : Rewrite(i)
    BY <1>3
  <2>2. /\ touched' = touched \cup {i} /\ Listed' = Listed
        /\ UNCHANGED <<options, info, size, m_list, somebytes, type, lasttype, unread, faulted>>
        /\ \A j \in Inodes \ {i} : data'[j] = data[j]
    BY <2>1 DEF Rewrite, TypeOK, Listed
  <2>3. ASSUME NEW f \in Listed, Clean(f)' PROVE Clean(f) /\ Content(f)' = Content(f)
    BY <2>2, <2>3 DEF Clean, Content, TypeOK
  <2>4. QED
    BY <2>2, <2>3 DEF BuffersHoldTheirSlice, CkType, Slice, SliceFrom, SliceUpto
<1>4. CASE MarkItems \/ RemoveIdenticalInodes \/ RemoveUniqueSizes \/ RemoveUniqSizeAndBuffer
           \/ MarkDuplicates \/ Done \/ UNCHANGED vars
  <2>1. /\ UNCHANGED <<options, info, size, data, somebytes, type, lasttype,
                       unread, faulted, touched>>
        /\ Listed' \subseteq Listed
    BY <1>4, ArrangementType DEF MarkItems, RemoveIdenticalInodes, RemoveUniqueSizes,
          RemoveUniqSizeAndBuffer, MarkDuplicates, OriginalsFirst, Done, vars, Listed, Keep
  <2>2. QED
    BY <2>1 DEF BuffersHoldTheirSlice, Clean, CkType, Slice, SliceFrom, SliceUpto, Content
<1>5. QED
  BY <1>1, <1>2, <1>3, <1>4 DEF Next, System

(* After every stage, and in the middle of one, the buffer of a file nobody *)
(* touched is the checksum of the bytes that stage compares: the shortcut   *)
(* "already checksummed" never leaves a stale buffer behind.                *)
THEOREM BuffersCorrect == Spec => []BuffersHoldTheirSlice
<1>1. Init => TypeOK /\ Bookkeeping /\ BuffersHoldTheirSlice
  <2>1. Init => BuffersHoldTheirSlice
    BY DEF Init, BuffersHoldTheirSlice
  <2>2. QED
    BY <2>1, InitInv
<1>2. TypeOK /\ Bookkeeping /\ BuffersHoldTheirSlice /\ [Next]_vars
        => (TypeOK /\ Bookkeeping /\ BuffersHoldTheirSlice)'
  BY NextInv, NextBuffers
<1>3. QED
  BY <1>1, <1>2, PTL DEF Spec

-----------------------------------------------------------------------------
(* The list between the stages. *)

(* A sorted list puts entries of one size and buffer side by side, so that  *)
(* apply_on_range hands them to its callback together.                      *)
LEMMA AlikeEntriesShareARun ==
  ASSUME TypeOK, NEW p \in [Listed -> Nat \ {0}], Sorts(p, SizeThenBufferLess),
         NEW f \in Listed, NEW g \in Listed, Alike(f, g)
  PROVE  g \in Run(p, SizeThenBufferLess, f)
<1>1. DOMAIN p = Listed /\ \A h \in Listed : p[h] \in Nat
  BY ArrangementType
<1>2. \A h \in Listed : size[h] \in Nat /\ somebytes[h] \in Nat
  BY DEF TypeOK
<1>3. ASSUME NEW h \in Listed,
             \/ p[f] <= p[h] /\ p[h] <= p[g]
             \/ p[g] <= p[h] /\ p[h] <= p[f]
      PROVE  ~SizeThenBufferLess(f, h) /\ ~SizeThenBufferLess(h, f)
  <2>1. /\ SizeThenBufferLess(f, h) <=> SizeThenBufferLess(g, h)
        /\ SizeThenBufferLess(h, f) <=> SizeThenBufferLess(h, g)
    BY DEF Alike, SizeThenBufferLess, SizeLess
  <2>2. /\ SizeThenBufferLess(f, h) => p[f] < p[h] /\ p[g] < p[h]
        /\ SizeThenBufferLess(h, f) => p[h] < p[f] /\ p[h] < p[g]
    BY <1>1, <2>1 DEF Sorts
  <2>3. QED
    BY <1>1, <1>3, <2>2
<1>4. QED
  BY <1>1, <1>3 DEF Run

LEMMA EqualSizesShareARun ==
  ASSUME TypeOK, NEW p \in Arrangements(Listed), Sorts(p, SizeLess),
         NEW f \in Listed, NEW g \in Listed, size[f] = size[g]
  PROVE  g \in Run(p, SizeLess, f)
<1>1. DOMAIN p = Listed /\ \A h \in Listed : p[h] \in Nat /\ size[h] \in Nat
  BY ArrangementType DEF TypeOK
<1>2. ASSUME NEW h \in Listed,
             \/ p[f] <= p[h] /\ p[h] <= p[g]
             \/ p[g] <= p[h] /\ p[h] <= p[f]
      PROVE  ~SizeLess(f, h) /\ ~SizeLess(h, f)
  <2>1. /\ SizeLess(f, h) => p[f] < p[h] /\ p[g] < p[h]
        /\ SizeLess(h, f) => p[h] < p[f] /\ p[h] < p[g]
    BY <1>1 DEF Sorts, SizeLess
  <2>2. QED
    BY <1>1, <1>2, <2>1
<1>3. QED
  BY <1>1, <1>2 DEF Run

(* On the list sorted by disk position, a run is one inode. *)
LEMMA RunsAreInodes ==
  ASSUME TypeOK, NEW p \in Arrangements(Listed), Sorts(p, DeviceInodeLess), NEW f \in Listed
  PROVE  Run(p, DeviceInodeLess, f) = {g \in Listed : SameInode(f, g)}
<1>1. DOMAIN p = Listed /\ \A h \in Listed : p[h] \in Nat
  BY ArrangementType
<1>2. \A h \in Listed : info[h].inode \in Nat \X Nat
  BY InodesAssumption DEF TypeOK
<1>3. \A g, h \in Listed :
        SameInode(g, h) <=> ~DeviceInodeLess(g, h) /\ ~DeviceInodeLess(h, g)
  <2>1. ASSUME NEW a \in Nat \X Nat, NEW b \in Nat \X Nat
        PROVE  a = b <=> /\ ~(a[1] < b[1] \/ (a[1] = b[1] /\ a[2] < b[2]))
                         /\ ~(b[1] < a[1] \/ (b[1] = a[1] /\ b[2] < a[2]))
    OBVIOUS
  <2>2. ASSUME NEW g \in Listed, NEW h \in Listed
        PROVE  SameInode(g, h) <=> ~DeviceInodeLess(g, h) /\ ~DeviceInodeLess(h, g)
    <3>1. info[g].inode \in Nat \X Nat /\ info[h].inode \in Nat \X Nat
      BY <1>2
    <3> DEFINE a == info[g].inode
               b == info[h].inode
    <3>2. a = b <=> /\ ~(a[1] < b[1] \/ (a[1] = b[1] /\ a[2] < b[2]))
                    /\ ~(b[1] < a[1] \/ (b[1] = a[1] /\ b[2] < a[2]))
      BY <2>1, <3>1
    <3>3. QED
      BY <3>2 DEF SameInode, DeviceInodeLess
  <2>3. QED
    BY <2>2
<1>4. ASSUME NEW g \in Run(p, DeviceInodeLess, f) PROVE g \in Listed /\ SameInode(f, g)
  <2>1. g \in Listed /\ ~DeviceInodeLess(f, g) /\ ~DeviceInodeLess(g, f)
    BY <1>1 DEF Run
  <2>2. QED
    BY <1>3, <2>1
<1>5. ASSUME NEW g \in Listed, SameInode(f, g) PROVE g \in Run(p, DeviceInodeLess, f)
  <2>1. ASSUME NEW h \in Listed,
               \/ p[f] <= p[h] /\ p[h] <= p[g]
               \/ p[g] <= p[h] /\ p[h] <= p[f]
        PROVE  ~DeviceInodeLess(f, h) /\ ~DeviceInodeLess(h, f)
    <3>1. /\ DeviceInodeLess(f, h) <=> DeviceInodeLess(g, h)
          /\ DeviceInodeLess(h, f) <=> DeviceInodeLess(h, g)
      BY <1>5 DEF SameInode, DeviceInodeLess
    <3>2. /\ DeviceInodeLess(f, h) => p[f] < p[h] /\ p[g] < p[h]
          /\ DeviceInodeLess(h, f) => p[h] < p[f] /\ p[h] < p[g]
      BY <1>1, <3>1 DEF Sorts
    <3>3. QED
      BY <1>1, <2>1, <3>2
  <2>2. QED
    BY <1>1, <2>1 DEF Run
<1>6. Run(p, DeviceInodeLess, f) \subseteq Listed
  BY <1>1 DEF Run
<1>7. QED
  BY <1>4, <1>5, <1>6

(* What removeIdenticalInodes keeps are the representatives. *)
LEMMA CollapseKeepsRepresentatives ==
  ASSUME TypeOK, Bookkeeping, RemoveIdenticalInodes, options.remove_identical_inode,
         Listed = Files
  PROVE  Listed' = {f \in Files : Represents(f)}
<1>1. PICK p \in Arrangements(Listed) :
        /\ Sorts(p, DeviceInodeLess)
        /\ m_list' = Keep(p, {f \in Listed : f = Best(Run(p, DeviceInodeLess, f))})
  BY DEF RemoveIdenticalInodes
<1>2. Listed' = {f \in Listed : f = Best(Run(p, DeviceInodeLess, f))}
  BY <1>1 DEF Keep, Listed
<1>3. identity = ScanOrder
  BY DEF RemoveIdenticalInodes, Bookkeeping
<1>4. ASSUME NEW f \in Files
      PROVE  f = Best(Run(p, DeviceInodeLess, f)) <=> Represents(f)
  <2> DEFINE S == {g \in Files : SameInode(f, g)}
  <2>1. Run(p, DeviceInodeLess, f) = S /\ f \in S
    BY <1>1, RunsAreInodes DEF SameInode
  <2>2. Best(S) \in S /\ \A g \in S \ {Best(S)} : Outranks(ScanOrder, Best(S), g)
    <3>1. S \in SUBSET Files /\ S # {}
      BY <2>1
    <3> HIDE DEF S
    <3>2. QED
      BY <1>3, <3>1, BestExists
  <2>3. f = Best(S) => Represents(f)
    <3>1. ASSUME f = Best(S), NEW g \in S PROVE ~Outranks(ScanOrder, g, f)
      <4>1. CASE g = f
        <5>1. /\ info[f].cmdline_index \in Nat /\ info[f].depth \in Nat
              /\ info[f].found \in Nat
          BY RankAssumption DEF TypeOK
        <5>2. QED
          BY <4>1, <5>1 DEF Outranks, ScanOrder
      <4>2. CASE g # f
        BY <2>2, <3>1, <4>2, RankIsTotal
      <4>3. QED
        BY <4>1, <4>2
    <3>2. QED
      BY <3>1 DEF Represents
  <2>4. Represents(f) => f = Best(S)
    BY <2>1, <2>2 DEF Represents
  <2>5. QED
    BY <2>1, <2>3, <2>4
<1>5. QED
  BY <1>2, <1>4

LEMMA NextRepresentatives ==
  ASSUME TypeOK, Bookkeeping, OnlyRepresentativesListed, [Next]_vars,
         pc \in {"markitems", "inodes"} => Listed = Files,
         pc = "inodes" => options.remove_identical_inode
  PROVE  /\ OnlyRepresentativesListed'
         /\ pc' \in {"markitems", "inodes"} => Listed' = Files
         /\ pc' = "inodes" => options'.remove_identical_inode
<1>0. \A f : Represents(f)' <=> Represents(f)
  BY DEF Next, System, MarkItems, RemoveIdenticalInodes, RemoveUniqueSizes, StartFill,
         FillSkips, FillOpenFails, FillReadFails, FillReads, FillMixes, Fill, RemoveUniqSizeAndBuffer,
         MarkDuplicates, Rewrite, Done, vars, Represents, SameInode, Outranks, ScanOrder
<1>1. CASE RemoveIdenticalInodes
  BY <1>0, <1>1, CollapseKeepsRepresentatives DEF RemoveIdenticalInodes, OnlyRepresentativesListed
<1>2. CASE MarkItems
  BY <1>0, <1>2 DEF MarkItems, OnlyRepresentativesListed, Represents, Listed
<1>3. CASE RemoveUniqueSizes \/ StartFill \/ RemoveUniqSizeAndBuffer \/ MarkDuplicates
  <2>1. Listed' \subseteq Listed /\ pc \notin {"markitems", "inodes"} /\ pc' \notin {"markitems", "inodes"}
    BY <1>3, ArrangementType DEF RemoveUniqueSizes, StartFill, RemoveUniqSizeAndBuffer,
          MarkDuplicates, OriginalsFirst, Listed, Keep
  <2>2. QED
    BY <1>0, <2>1 DEF OnlyRepresentativesListed
<1>4. CASE \/ \E f \in Files : FillSkips(f) \/ FillOpenFails(f) \/ FillReadFails(f) \/ FillReads(f) \/ FillMixes(f)
           \/ \E i \in Inodes : Rewrite(i)
           \/ Done \/ UNCHANGED vars
  <2>1. UNCHANGED <<m_list, pc, options>>
    BY <1>4 DEF FillSkips, FillOpenFails, FillReadFails, FillReads, FillMixes, Fill, Rewrite, Done, vars
  <2>2. QED
    BY <1>0, <2>1 DEF OnlyRepresentativesListed, Listed
<1>5. QED
  BY <1>1, <1>2, <1>3, <1>4 DEF Next, System

(* Removing the unique entries of a list sorted on size and buffer leaves   *)
(* it sorted, and everybody left has company.                               *)
LEMMA RemovalGroups ==
  ASSUME TypeOK, NEW p \in Arrangements(Listed), Sorts(p, SizeThenBufferLess),
         m_list' = Keep(p, {f \in Listed : Run(p, SizeThenBufferLess, f) # {f}}),
         UNCHANGED <<size, somebytes>>
  PROVE  ListIsGrouped'
<1> DEFINE S == {f \in Listed : Run(p, SizeThenBufferLess, f) # {f}}
<1>1. DOMAIN p = Listed /\ \A h \in Listed : p[h] \in Nat
  BY ArrangementType
<1>2. Listed' = S /\ S \subseteq Listed /\ \A f \in S : m_list'[f] = p[f]
  BY DEF Keep, Listed
<1>3. \A f, g : SizeThenBufferLess(f, g)' <=> SizeThenBufferLess(f, g)
  BY DEF SizeThenBufferLess, SizeLess
<1>4. Sorts(m_list, SizeThenBufferLess)'
  BY <1>1, <1>2, <1>3 DEF Sorts, Listed
<1>5. ASSUME NEW f \in S PROVE Group(f)' # {f}
  <2>1. \A h \in Listed : Alike(f, h) <=> ~SizeThenBufferLess(f, h) /\ ~SizeThenBufferLess(h, f)
    BY <1>2, NeitherLess DEF TypeOK
  <2>2. f \in Run(p, SizeThenBufferLess, f)
    BY <1>2, AlikeEntriesShareARun, ArrangementType DEF Alike
  <2>3. PICK g \in Run(p, SizeThenBufferLess, f) : g # f
    BY <1>5, <2>2
  <2>4. g \in Listed /\ Alike(f, g)
    BY <1>1, <2>1, <2>3 DEF Run
  <2>5. f \in Run(p, SizeThenBufferLess, g) /\ g \in S
    <3>1. Alike(g, f) /\ f \in Listed
      BY <1>2, <2>4 DEF Alike
    <3>2. f \in Run(p, SizeThenBufferLess, g)
      BY <2>4, <3>1, AlikeEntriesShareARun, ArrangementType
    <3>3. QED
      BY <2>3, <2>4, <3>2
  <2>6. g \in Group(f)'
    <3>1. \A h \in S :
            \/ m_list'[f] <= m_list'[h] /\ m_list'[h] <= m_list'[g]
            \/ m_list'[g] <= m_list'[h] /\ m_list'[h] <= m_list'[f]
            => ~SizeThenBufferLess(f, h) /\ ~SizeThenBufferLess(h, f)
      BY <1>1, <1>2, <2>3, <2>5 DEF Run
    <3>2. QED
      BY <1>2, <1>3, <2>5, <3>1 DEF Group, Run, Listed
  <2>7. QED
    BY <2>3, <2>6
<1>6. QED
  BY <1>2, <1>4, <1>5 DEF ListIsGrouped

LEMMA NextGrouped ==
  ASSUME TypeOK, Bookkeeping, ListIsGrouped, [Next]_vars
  PROVE  ListIsGrouped'
<1>1. CASE RemoveUniqueSizes
  <2>1. PICK p \in Arrangements(Listed) :
          /\ Sorts(p, SizeLess)
          /\ m_list' = Keep(p, {f \in Listed : Run(p, SizeLess, f) # {f}})
    BY <1>1 DEF RemoveUniqueSizes
  <2>2. /\ \A f \in Files : somebytes[f] = 0
        /\ UNCHANGED <<size, somebytes>>
    BY <1>1 DEF RemoveUniqueSizes, Bookkeeping
  <2>3. DOMAIN p = Listed /\ Listed \subseteq Files
    BY ArrangementType DEF TypeOK
  <2>4. \A f, g \in Files : SizeThenBufferLess(f, g) <=> SizeLess(f, g)
    BY <2>2 DEF SizeThenBufferLess
  <2>5. Sorts(p, SizeThenBufferLess)
    BY <2>1, <2>3, <2>4 DEF Sorts
  <2>6. \A f \in Listed : Run(p, SizeThenBufferLess, f) = Run(p, SizeLess, f)
    BY <2>3, <2>4 DEF Run
  <2>7. {f \in Listed : Run(p, SizeThenBufferLess, f) # {f}}
          = {f \in Listed : Run(p, SizeLess, f) # {f}}
    BY <2>6
  <2>8. QED
    BY <2>1, <2>2, <2>5, <2>7, RemovalGroups
<1>2. CASE RemoveUniqSizeAndBuffer
  BY <1>2, RemovalGroups DEF RemoveUniqSizeAndBuffer
<1>3. CASE MarkItems \/ RemoveIdenticalInodes \/ StartFill \/ MarkDuplicates
           \/ \E f \in Files : FillSkips(f) \/ FillOpenFails(f) \/ FillReadFails(f) \/ FillReads(f) \/ FillMixes(f)
  <2>1. pc' # "modes"
    BY <1>3 DEF MarkItems, RemoveIdenticalInodes, StartFill, MarkDuplicates,
                FillSkips, FillOpenFails, FillReadFails, FillReads, FillMixes, Fill
  <2>2. QED
    BY <2>1 DEF ListIsGrouped
<1>4. CASE (\E i \in Inodes : Rewrite(i)) \/ Done \/ UNCHANGED vars
  <2>1. UNCHANGED <<m_list, pc, size, somebytes>>
    BY <1>4 DEF Rewrite, Done, vars
  <2>2. QED
    BY <2>1 DEF ListIsGrouped, Sorts, Group, Run, Listed, SizeThenBufferLess, SizeLess
<1>5. QED
  BY <1>1, <1>2, <1>3, <1>4 DEF Next, System

(* markduplicates never meets an unsorted list or a group of one, so its    *)
(* asserts hold and every group has a duplicate to act on.                  *)
THEOREM ReadyToMark == Spec => []ListIsReadyToMark
<1>1. Init => TypeOK /\ Bookkeeping /\ ListIsGrouped
  BY InitInv DEF Init, ListIsGrouped
<1>2. TypeOK /\ Bookkeeping /\ ListIsGrouped /\ [Next]_vars
        => (TypeOK /\ Bookkeeping /\ ListIsGrouped)'
  BY NextInv, NextGrouped
<1>3. ListIsGrouped => ListIsReadyToMark
  BY DEF ListIsGrouped, ListIsReadyToMark
<1>4. QED
  BY <1>1, <1>2, <1>3, PTL DEF Spec

-----------------------------------------------------------------------------
(* Equal files. *)

(* f and g are two files the program should report together. *)
MustBePaired(f, g) ==
  /\ f # g /\ Represents(f) /\ Represents(g)
  /\ Clean(f) /\ Clean(g) /\ Content(f) = Content(g)

PairsListed == \A f, g \in Files : MustBePaired(f, g) => f \in Listed /\ g \in Listed

LEMMA PairsAreAlike ==
  ASSUME TypeOK, Bookkeeping, BuffersHoldTheirSlice, unread = {},
         NEW f \in Listed, NEW g \in Listed, MustBePaired(f, g)
  PROVE  Alike(f, g)
<1>1. f \in Files /\ g \in Files /\ size[f] = size[g] /\ Content(f) = Content(g)
  BY DEF TypeOK, Bookkeeping, MustBePaired, Clean
<1>2. CASE type = NOT_DEFINED
  BY <1>1, <1>2 DEF Alike, Bookkeeping
<1>3. CASE type # NOT_DEFINED
  <2>1. Slice(type, f) = Slice(type, g)
    BY <1>1 DEF Slice, SliceFrom, SliceUpto
  <2>2. /\ somebytes[f] = Digest(CkType(type), Slice(type, f))
        /\ somebytes[g] = Digest(CkType(type), Slice(type, g))
    BY <1>3 DEF BuffersHoldTheirSlice, MustBePaired
  <2>3. QED
    BY <1>1, <2>1, <2>2 DEF Alike
<1>4. QED
  BY <1>2, <1>3

LEMMA NextPairs ==
  ASSUME TypeOK, Bookkeeping, BuffersHoldTheirSlice, PairsListed, [Next]_vars,
         pc \in {"markitems", "inodes"} => Listed = Files,
         pc = "inodes" => options.remove_identical_inode
  PROVE  PairsListed'
<1>1. ASSUME NEW f \in Files, NEW g \in Files, MustBePaired(f, g)' PROVE MustBePaired(f, g)
  <2>1. /\ UNCHANGED <<options, info>>
        /\ faulted \subseteq faulted' /\ touched \subseteq touched'
        /\ \A i \in Inodes : i \notin touched' => data'[i] = data[i]
    BY DEF Next, System, MarkItems, RemoveIdenticalInodes, RemoveUniqueSizes, StartFill,
           FillSkips, FillOpenFails, FillReadFails, FillReads, FillMixes, Fill, RemoveUniqSizeAndBuffer,
           MarkDuplicates, Rewrite, Done, vars, TypeOK
  <2>2. info[f].inode \in Inodes /\ info[g].inode \in Inodes
    BY DEF TypeOK
  <2>3. QED
    BY <1>1, <2>1, <2>2 DEF MustBePaired, Represents, SameInode, Outranks, ScanOrder,
                            Clean, Content
<1>2. ASSUME NEW f \in Files, NEW g \in Files, MustBePaired(f, g)
      PROVE  f \in Listed' /\ g \in Listed'
  <2>1. f \in Listed /\ g \in Listed /\ MustBePaired(g, f)
    BY <1>2 DEF PairsListed, MustBePaired
  <2>2. CASE RemoveIdenticalInodes
    <3>1. options.remove_identical_inode /\ Listed = Files
      BY <2>2 DEF RemoveIdenticalInodes
    <3>2. QED
      BY <1>2, <2>2, <3>1, CollapseKeepsRepresentatives DEF MustBePaired
  <2>3. CASE RemoveUniqueSizes
    <3>1. PICK p \in Arrangements(Listed) :
            /\ Sorts(p, SizeLess)
            /\ m_list' = Keep(p, {e \in Listed : Run(p, SizeLess, e) # {e}})
      BY <2>3 DEF RemoveUniqueSizes
    <3>2. size[f] = size[g] /\ f # g
      BY <1>2 DEF Bookkeeping, MustBePaired, Clean
    <3>3. g \in Run(p, SizeLess, f) /\ f \in Run(p, SizeLess, g)
      BY <2>1, <3>1, <3>2, EqualSizesShareARun
    <3>4. QED
      BY <2>1, <3>1, <3>2, <3>3 DEF Keep, Listed
  <2>4. CASE RemoveUniqSizeAndBuffer
    <3>1. PICK p \in Arrangements(Listed) :
            /\ Sorts(p, SizeThenBufferLess)
            /\ m_list' = Keep(p, {e \in Listed : Run(p, SizeThenBufferLess, e) # {e}})
      BY <2>4 DEF RemoveUniqSizeAndBuffer
    <3>2. Alike(f, g) /\ Alike(g, f) /\ f # g
      BY <1>2, <2>1, <2>4, PairsAreAlike DEF RemoveUniqSizeAndBuffer, MustBePaired
    <3>3. g \in Run(p, SizeThenBufferLess, f) /\ f \in Run(p, SizeThenBufferLess, g)
      BY <2>1, <3>1, <3>2, AlikeEntriesShareARun, ArrangementType
    <3>4. QED
      BY <2>1, <3>1, <3>2, <3>3 DEF Keep, Listed
  <2>5. CASE MarkItems \/ StartFill \/ MarkDuplicates
             \/ (\E e \in Files : FillSkips(e) \/ FillOpenFails(e) \/ FillReadFails(e) \/ FillReads(e) \/ FillMixes(e))
             \/ (\E i \in Inodes : Rewrite(i)) \/ Done \/ UNCHANGED vars
    <3>1. Listed' = Listed
      BY <2>5, ArrangementType DEF MarkItems, StartFill, MarkDuplicates, OriginalsFirst,
            FillSkips, FillOpenFails, FillReadFails, FillReads, FillMixes, Fill, Rewrite, Done, vars, Listed
    <3>2. QED
      BY <2>1, <3>1
  <2>6. QED
    BY <2>2, <2>3, <2>4, <2>5 DEF Next, System
<1>3. QED
  BY <1>1, <1>2 DEF PairsListed

(* The inductive invariant of the pipeline. *)
BeforeCollapse ==
  /\ pc \in {"markitems", "inodes"} => Listed = Files
  /\ pc = "inodes" => options.remove_identical_inode
IInv ==
  /\ TypeOK /\ Bookkeeping /\ BeforeCollapse
  /\ OnlyRepresentativesListed /\ BuffersHoldTheirSlice
  /\ ListIsGrouped /\ PairsListed

(* The inductive invariant holds of every behaviour: what each method of    *)
(* Rdutil relies on is what the methods before it leave.                    *)
THEOREM Inductive == Spec => []IInv
<1>1. Init => IInv
  <2> SUFFICES ASSUME Init PROVE IInv
    OBVIOUS
  <2>1. Listed = Files /\ pc = "markitems" /\ type = NOT_DEFINED /\ unread = {}
    BY DEF Init, Listed
  <2>2. QED
    BY <2>1, InitInv DEF IInv, BeforeCollapse, OnlyRepresentativesListed,
       BuffersHoldTheirSlice, ListIsGrouped, PairsListed
<1>2. IInv /\ [Next]_vars => IInv'
  BY NextInv, NextRepresentatives, NextBuffers, NextGrouped, NextPairs DEF IInv, BeforeCollapse
<1>3. QED
  BY <1>1, <1>2, PTL DEF Spec

-----------------------------------------------------------------------------
(* The outcome. *)

LEMMA MarkingLeavesGroups ==
  ASSUME IInv, MarkDuplicates
  PROVE  /\ pc = "modes" /\ identity = ScanOrder /\ Listed' = Listed
         /\ UNCHANGED <<options, info, size, data, somebytes, type, lasttype,
                        unread, faulted, touched>>
  BY DEF MarkDuplicates, OriginalsFirst, IInv, Bookkeeping, Listed

LEMMA AlikeIsGrouped ==
  ASSUME IInv, pc = "modes", NEW f \in Listed, NEW g \in Listed
  PROVE  /\ Alike(f, g) <=> g \in Group(f)
         /\ Alike(f, g) => Original(f) = Original(g)
         /\ Original(f) = Original(g) => Alike(f, g)
<1>1. Sorts(m_list, SizeThenBufferLess) /\ m_list \in [Listed -> Nat \ {0}]
  BY DEF IInv, ListIsGrouped, TypeOK
<1>2. Alike(f, g) => g \in Group(f)
  BY <1>1, AlikeEntriesShareARun DEF IInv, Group
<1>3. g \in Group(f) => Alike(f, g)
  BY GroupsAreAlike DEF IInv
<1>4. g \in Group(f) => Original(f) = Original(g)
  BY GroupsPartition DEF IInv, Original
<1>5. Alike(f, Original(f)) /\ Alike(g, Original(g))
  BY OriginalExists, GroupsAreAlike DEF IInv
<1>6. Original(f) = Original(g) => Alike(f, g)
  BY <1>5 DEF Alike
<1>7. QED
  BY <1>2, <1>3, <1>4, <1>6

(* Afterwards the identities tell the groups apart. *)
LEMMA IdentitiesNameGroups ==
  ASSUME IInv, MarkDuplicates, NEW f \in Listed, NEW g \in Listed
  PROVE  SameGroup(f, g)' <=> Alike(f, g)
<1>1. pc = "modes" /\ identity = ScanOrder
  BY MarkingLeavesGroups
<1>2. ASSUME NEW h \in Listed
      PROVE  Abs(identity'[h]) = info[Original(h)].found /\ Original(h) \in Files
  <2>1. h \in Files /\ Original(h) \in Files
    BY <1>1, OriginalExists DEF IInv, TypeOK
  <2>2. info[Original(h)].found \in Nat \ {0} /\ info[h].found \in Nat \ {0}
    BY <2>1 DEF IInv, TypeOK
  <2>3. identity'[h] = IF h # Original(h) THEN -identity[Original(h)] ELSE identity[h]
    BY <2>1 DEF MarkDuplicates
  <2>4. QED
    BY <1>1, <2>1, <2>2, <2>3 DEF Abs, ScanOrder
<1>3. SameGroup(f, g)' <=> info[Original(f)].found = info[Original(g)].found
  BY <1>2 DEF SameGroup, Abs
<1>4. info[Original(f)].found = info[Original(g)].found <=> Original(f) = Original(g)
  BY <1>2 DEF IInv, Bookkeeping
<1>5. QED
  BY <1>1, <1>3, <1>4, AlikeIsGrouped

(* Only MarkDuplicates reaches the end. *)
LEMMA DoneIsFinal ==
  ASSUME [Next]_vars, pc' = "done"
  PROVE  MarkDuplicates \/ (pc = "done" /\ UNCHANGED vars)
  BY DEF Next, System, MarkItems, RemoveIdenticalInodes, RemoveUniqueSizes, StartFill,
         FillSkips, FillOpenFails, FillReadFails, FillReads, FillMixes, Fill, RemoveUniqSizeAndBuffer,
         Rewrite, Done, vars

(* Completeness: two different scanned files with equal content, which the  *)
(* user and the disk left alone, are never separated by a stage, whatever   *)
(* sizes, checksums and other files there are; at the end they are in one   *)
(* group.                                                                   *)
THEOREM Completeness == Spec => []EqualFilesAreFound
<1> DEFINE Found == pc = "done" =>
                      \A f, g \in Files : MustBePaired(f, g) => SameGroup(f, g)
<1>1. Init => Found
  BY DEF Init
<1>2. IInv /\ Found /\ [Next]_vars => Found'
  <2> SUFFICES ASSUME IInv, Found, [Next]_vars, pc' = "done",
                      NEW f \in Files, NEW g \in Files, MustBePaired(f, g)'
               PROVE  SameGroup(f, g)'
    BY DEF MustBePaired, Represents, SameInode, Outranks, ScanOrder, Clean, Content, SameGroup
  <2>1. CASE MarkDuplicates
    <3>1. MustBePaired(f, g) /\ unread = {}
      BY <2>1, MarkingLeavesGroups DEF MustBePaired, Represents, SameInode, Outranks, ScanOrder,
                                       Clean, Content, IInv, Bookkeeping
    <3>2. f \in Listed /\ g \in Listed
      BY <3>1 DEF IInv, PairsListed
    <3>3. QED
      BY <2>1, <3>1, <3>2, PairsAreAlike, IdentitiesNameGroups DEF IInv
  <2>2. CASE pc = "done" /\ UNCHANGED vars
    BY <2>2 DEF vars, MustBePaired, Represents, SameInode, Outranks, ScanOrder, Clean, Content,
                SameGroup
  <2>3. QED
    BY <2>1, <2>2, DoneIsFinal
<1>3. IInv /\ Found => EqualFilesAreFound
  BY DEF IInv, PairsListed, MustBePaired, EqualFilesAreFound
<1>4. QED
  BY <1>1, <1>2, <1>3, Inductive, PTL DEF Spec

(* A checksum that never confuses two pieces of a file. *)
CollisionFree ==
  \A t \in ChecksumTypes, a, b \in Slices : Digest(t, a) = Digest(t, b) => a = b

LEMMA WholeFile ==
  ASSUME NEW c \in Contents
  PROVE  SubSeq(c, 1, Len(c)) = c /\ SubSeq(c, 1, Len(c)) \in Slices
<1>1. c \in Seq(Nat) /\ Len(c) \in Nat
  BY ContentsAssumption
<1>2. SubSeq(c, 1, Len(c)) = c
  BY <1>1, SubSeqFull
<1>3. 1 \in 1 .. Len(c) + 1 /\ Len(c) \in 0 .. Len(c)
  BY <1>1
<1>4. SubSeq(c, 1, Len(c)) \in Slices
  BY <1>3, PieceIsSlice
<1>5. QED
  BY <1>2, <1>4

(* Soundness: with at least one checksum and no collisions, files reported  *)
(* as one group have equal content, if they could be read and nobody wrote  *)
(* to them.                                                                 *)
THEOREM Soundness == ASSUME CollisionFree PROVE Spec => []DuplicatesAreEqual
<1>1. Init => DuplicatesAreEqual
  BY DEF Init, DuplicatesAreEqual
<1>2. IInv /\ DuplicatesAreEqual /\ [Next]_vars => DuplicatesAreEqual'
  <2> SUFFICES ASSUME IInv, DuplicatesAreEqual, [Next]_vars, pc' = "done",
                      options'.checksums # {}, NEW f \in Listed', NEW g \in Listed',
                      SameGroup(f, g)', Clean(f)', Clean(g)'
               PROVE  Content(f)' = Content(g)'
    BY DEF DuplicatesAreEqual
  <2>1. CASE MarkDuplicates
    <3>1. /\ f \in Listed /\ g \in Listed /\ Clean(f) /\ Clean(g) /\ options.checksums # {}
          /\ Content(f)' = Content(f) /\ Content(g)' = Content(g)
      BY <2>1, MarkingLeavesGroups DEF Clean, Content
    <3>2. Alike(f, g)
      BY <2>1, <3>1, IdentitiesNameGroups
    <3>3. type \in ChecksumModes
      <4>1. PICK m \in options.checksums : m \in ChecksumModes
        BY <3>1, OptionsAssumption DEF IInv, TypeOK
      <4>2. m \in EnabledModes /\ m \notin ModesLeft
        BY <2>1, <4>1 DEF MarkDuplicates, EnabledModes, ChecksumModes, ReadModes
      <4>3. type \in ReadModes \cup {NOT_DEFINED} /\ ~(m > type)
        BY <4>2 DEF ModesLeft, IInv, TypeOK
      <4>4. QED
        BY <4>1, <4>3 DEF ChecksumModes, ReadModes, NOT_DEFINED
    <3>4. /\ SliceFrom(type, f) = 1 /\ SliceUpto(type, f) = size[f]
          /\ SliceFrom(type, g) = 1 /\ SliceUpto(type, g) = size[g]
      BY <3>3 DEF SliceFrom, SliceUpto, ChecksumModes, READ_FIRST_BYTES, READ_LAST_BYTES
    <3>5. size[f] = Len(Content(f)) /\ size[g] = Len(Content(g))
      BY <3>1 DEF IInv, TypeOK, Bookkeeping, Clean
    <3>6. /\ somebytes[f] = Digest(CkType(type), SubSeq(Content(f), 1, Len(Content(f))))
          /\ somebytes[g] = Digest(CkType(type), SubSeq(Content(g), 1, Len(Content(g))))
      <4>1. unread = {} /\ type # NOT_DEFINED
        BY <2>1, <3>3 DEF MarkDuplicates, IInv, Bookkeeping, NOT_DEFINED, ChecksumModes
      <4>2. QED
        BY <3>1, <3>4, <3>5, <4>1 DEF IInv, BuffersHoldTheirSlice, Slice
    <3>7. Content(f) \in Contents /\ Content(g) \in Contents /\ CkType(type) \in ChecksumTypes
      <4>1. TypeOK /\ f \in Files /\ g \in Files /\ type \in ReadModes
        BY <3>1, <3>3 DEF IInv, TypeOK, ChecksumModes, ReadModes
      <4>2. QED
        BY <4>1, ReadRange, CkTypeType
    <3>8. SubSeq(Content(f), 1, Len(Content(f))) = SubSeq(Content(g), 1, Len(Content(g)))
      BY <3>2, <3>6, <3>7, WholeFile DEF CollisionFree, Alike
    <3>9. QED
      BY <3>1, <3>7, <3>8, WholeFile
  <2>2. CASE pc = "done" /\ UNCHANGED vars
    BY <2>2 DEF vars, DuplicatesAreEqual, SameGroup, Clean, Content, Listed
  <2>3. QED
    BY <2>1, <2>2, DoneIsFinal
<1>3. QED
  BY <1>1, <1>2, Inductive, PTL DEF Spec

(* The entry an inode is known by, which may be f itself. *)
LEMMA RepresentativeExists ==
  ASSUME TypeOK, Bookkeeping, identity = ScanOrder, NEW f \in Files
  PROVE  \E r \in Files : /\ Represents(r)
                          /\ r = f \/ (SameInode(f, r) /\ Outranks(ScanOrder, r, f))
<1>1. CASE ~options.remove_identical_inode
  BY <1>1 DEF Represents
<1>2. CASE options.remove_identical_inode
  <2> DEFINE S == {g \in Files : SameInode(f, g)}
  <2>1. f \in S
    BY DEF SameInode
  <2>2. Best(S) \in S /\ \A g \in S \ {Best(S)} : Outranks(ScanOrder, Best(S), g)
    <3>1. S \in SUBSET Files /\ S # {}
      BY <2>1
    <3> HIDE DEF S
    <3>2. QED
      BY <3>1, BestExists
  <2>3. ASSUME NEW g \in Files, SameInode(Best(S), g) PROVE ~Outranks(ScanOrder, g, Best(S))
    <3>1. g \in S /\ Best(S) \in Files
      BY <2>2, <2>3 DEF SameInode
    <3>2. CASE g = Best(S)
      <4>1. /\ info[g].cmdline_index \in Nat /\ info[g].depth \in Nat
            /\ info[g].found \in Nat
        BY RankAssumption DEF TypeOK
      <4>2. QED
        BY <3>2, <4>1 DEF Outranks, ScanOrder
    <3>3. CASE g # Best(S)
      BY <2>2, <3>1, <3>3, RankIsTotal
    <3>4. QED
      BY <3>2, <3>3
  <2>4. Represents(Best(S))
    BY <2>3 DEF Represents
  <2>5. QED
    BY <2>1, <2>2, <2>4
<1>3. QED
  BY <1>1, <1>2

(* Ranking: the original of a group outranks every scanned file of that     *)
(* content, also the hard links that were collapsed before any file was     *)
(* read and are on no list any more. Holds for colliding checksums too.     *)
THEOREM Ranking == Spec => []OriginalIsHighestRanked
<1>1. Init => OriginalIsHighestRanked
  BY DEF Init, OriginalIsHighestRanked
<1>2. IInv /\ OriginalIsHighestRanked /\ [Next]_vars => OriginalIsHighestRanked'
  <2> SUFFICES ASSUME IInv, OriginalIsHighestRanked, [Next]_vars, pc' = "done",
                      NEW o \in Listed', NEW h \in Files, duptype'[o] = "FIRST_OCCURRENCE",
                      Clean(o)', Clean(h)', Content(o)' = Content(h)'
               PROVE  ~Outranks(ScanOrder, h, o)'
    BY DEF OriginalIsHighestRanked
  <2>1. CASE MarkDuplicates
    <3>1. /\ o \in Listed /\ o \in Files /\ Clean(o) /\ Clean(h) /\ Content(o) = Content(h)
          /\ Outranks(ScanOrder, h, o)' <=> Outranks(ScanOrder, h, o)
          /\ pc = "modes" /\ identity = ScanOrder /\ unread = {}
      BY <2>1, MarkingLeavesGroups DEF Clean, Content, Outranks, ScanOrder, IInv, TypeOK, Bookkeeping
    <3>2. o = Original(o)
      BY <2>1, <3>1 DEF MarkDuplicates
    <3>3. PICK r \in Files : /\ Represents(r)
                             /\ r = h \/ (SameInode(h, r) /\ Outranks(ScanOrder, r, h))
      BY <3>1, RepresentativeExists DEF IInv
    <3>4. Clean(r) /\ Content(r) = Content(o) /\ Represents(o)
      BY <3>1, <3>3 DEF Clean, Content, SameInode, IInv, OnlyRepresentativesListed
    <3>5. r = o \/ Outranks(ScanOrder, o, r)
      <4>1. SUFFICES ASSUME r # o PROVE Outranks(ScanOrder, o, r)
        OBVIOUS
      <4>2. MustBePaired(o, r) /\ r \in Listed
        BY <3>1, <3>3, <3>4, <4>1 DEF MustBePaired, IInv, PairsListed
      <4>3. Alike(o, r)
        BY <3>1, <4>2, PairsAreAlike DEF IInv
      <4>4. r \in Group(o) \ {Original(o)}
        BY <3>1, <3>2, <4>1, <4>2, <4>3, AlikeIsGrouped
      <4>5. QED
        BY <3>1, <3>2, <4>4, OriginalExists DEF IInv
    <3>6. o = h \/ Outranks(ScanOrder, o, h)
      BY <3>1, <3>3, <3>5, RankIsTransitive DEF IInv
    <3>7. ~Outranks(ScanOrder, h, o)
      <4>1. CASE o = h
        <5>1. /\ info[h].cmdline_index \in Nat /\ info[h].depth \in Nat
              /\ info[h].found \in Nat
          BY RankAssumption DEF IInv, TypeOK
        <5>2. QED
          BY <4>1, <5>1 DEF Outranks, ScanOrder
      <4>2. CASE o # h
        BY <3>1, <3>6, <4>2, RankIsTotal DEF IInv
      <4>3. QED
        BY <4>1, <4>2
    <3>8. QED
      BY <3>1, <3>7
  <2>2. CASE pc = "done" /\ UNCHANGED vars
    BY <2>2 DEF vars, OriginalIsHighestRanked, Clean, Content, Outranks, ScanOrder, Listed
  <2>3. QED
    BY <2>1, <2>2, DoneIsFinal
<1>3. QED
  BY <1>1, <1>2, Inductive, PTL DEF Spec

(* Where markduplicates puts the members of a group: the original in front, *)
(* everybody else inside the group's old range.                             *)
LEMMA PlacesAfterMarking ==
  ASSUME IInv, MarkDuplicates, NEW f \in Listed
  PROVE  /\ \E q \in Group(f) : m_list'[f] = m_list[q]
         /\ m_list'[Original(f)] = m_list[First(Group(f))]
         /\ f # Original(f) => m_list'[Original(f)] < m_list'[f]
<1>1. pc = "modes" /\ \A g \in Listed : m_list[g] \in Nat
  BY MarkingLeavesGroups DEF IInv, TypeOK
<1>2. f \in Group(f) /\ Group(f) \in SUBSET Listed
  BY <1>1, GroupsAreAlike DEF IInv
<1>3. Original(f) \in Group(f)
  BY <1>1, OriginalExists DEF IInv
<1>4. First(Group(f)) \in Group(f)
      /\ \A g \in Group(f) \ {First(Group(f))} : m_list[First(Group(f))] < m_list[g]
  BY <1>1, <1>2, FirstExists DEF IInv
<1>5. Group(Original(f)) = Group(f) /\ Original(Original(f)) = Original(f)
  BY <1>1, <1>3, GroupsPartition DEF IInv, Original
<1>6. \A g \in Listed :
        m_list'[g] = IF g = Original(g) THEN m_list[First(Group(g))]
                     ELSE IF g = First(Group(g)) THEN m_list[Original(g)]
                     ELSE m_list[g]
  BY DEF MarkDuplicates, OriginalsFirst
<1>7. m_list'[Original(f)] = m_list[First(Group(f))]
  BY <1>2, <1>3, <1>5, <1>6
<1>8. \E q \in Group(f) : m_list'[f] = m_list[q]
  BY <1>2, <1>3, <1>4, <1>6
<1>9. f # Original(f) => m_list'[Original(f)] < m_list'[f]
  BY <1>2, <1>3, <1>4, <1>6, <1>7
<1>10. QED
  BY <1>7, <1>8, <1>9

(* The asserts of applyactiononfile hold: a walk down the marked list meets *)
(* each group's original right before its duplicates, so each duplicate is  *)
(* replaced by, or deleted in favour of, the file with its own content.     *)
THEOREM Leading == Spec => []OriginalLeadsItsGroup
<1>1. Init => OriginalLeadsItsGroup
  BY DEF Init, OriginalLeadsItsGroup
<1>2. IInv /\ OriginalLeadsItsGroup /\ [Next]_vars => OriginalLeadsItsGroup'
  <2> SUFFICES ASSUME IInv, OriginalLeadsItsGroup, [Next]_vars, pc' = "done"
               PROVE  OriginalLeadsItsGroup'
    BY DEF OriginalLeadsItsGroup
  <2>1. CASE MarkDuplicates
    <3>1. pc = "modes" /\ identity = ScanOrder /\ Listed' = Listed /\ Listed \subseteq Files
          /\ UNCHANGED <<info, size, somebytes>>
          /\ \A g \in Listed : m_list[g] \in Nat
      BY <2>1, MarkingLeavesGroups DEF IInv, TypeOK
    <3>2. \A g \in Listed :
            duptype'[g] = IF g = Original(g) THEN "FIRST_OCCURRENCE"
                          ELSE IF info[g].cmdline_index = info[Original(g)].cmdline_index
                            THEN "WITHIN_SAME_TREE" ELSE "OUTSIDE_TREE"
      BY <2>1, <3>1 DEF MarkDuplicates
    <3>3. \A g \in Listed :
            identity'[g] = IF g # Original(g) THEN -identity[Original(g)] ELSE identity[g]
      BY <2>1, <3>1 DEF MarkDuplicates
    <3>4. ASSUME NEW f \in Listed, duptype'[f] # "FIRST_OCCURRENCE"
          PROVE  \E o \in Listed :
             /\ duptype'[o] = "FIRST_OCCURRENCE" /\ identity'[f] = -identity'[o]
             /\ identity'[o] > 0
             /\ size[f] = size[o] /\ somebytes[f] = somebytes[o]
             /\ (duptype'[f] = "WITHIN_SAME_TREE") <=>
                  (info[f].cmdline_index = info[o].cmdline_index)
             /\ m_list'[o] < m_list'[f]
             /\ \A q \in Listed :
                  m_list'[o] < m_list'[q] /\ m_list'[q] <= m_list'[f]
                    => duptype'[q] # "FIRST_OCCURRENCE"
      <4> DEFINE o == Original(f)
      <4>1. o \in Listed /\ o \in Group(f) /\ f # o
        BY <3>1, <3>2, <3>4, OriginalExists DEF IInv
      <4>2. Original(o) = o /\ Group(o) = Group(f)
        BY <3>1, <4>1, GroupsPartition DEF IInv, Original
      <4>3. Alike(f, o) /\ info[o].found \in Nat \ {0}
        BY <3>1, <4>1, GroupsAreAlike DEF IInv, TypeOK
      <4>4. /\ identity'[f] = -identity'[o] /\ identity'[o] > 0
            /\ duptype'[o] = "FIRST_OCCURRENCE"
            /\ (duptype'[f] = "WITHIN_SAME_TREE") <=>
                  (info[f].cmdline_index = info[o].cmdline_index)
        <5>1. identity[o] = info[o].found
          BY <3>1, <4>1 DEF ScanOrder
        <5>2. QED
          BY <3>2, <3>3, <4>1, <4>2, <4>3, <5>1
      <4>5. m_list'[o] < m_list'[f] /\ m_list'[o] = m_list[First(Group(f))]
        BY <2>1, <4>1, PlacesAfterMarking
      <4>6. ASSUME NEW q \in Listed, m_list'[o] < m_list'[q], m_list'[q] <= m_list'[f]
            PROVE  duptype'[q] # "FIRST_OCCURRENCE"
        <5>1. PICK a \in Group(f) : m_list'[f] = m_list[a]
          BY <2>1, PlacesAfterMarking
        <5>2. PICK b \in Group(q) : m_list'[q] = m_list[b]
          BY <2>1, PlacesAfterMarking
        <5>3. First(Group(f)) \in Group(f) /\ Group(f) \in SUBSET Listed
              /\ Group(q) \in SUBSET Listed
          BY <3>1, FirstExists, GroupsAreAlike DEF IInv
        <5>4. /\ m_list[First(Group(f))] <= m_list[b] /\ m_list[b] <= m_list[a]
              /\ b \in Listed
          BY <3>1, <4>5, <4>6, <5>1, <5>2, <5>3
        <5>5. b \in Group(f)
          BY <3>1, <5>1, <5>3, <5>4, GroupIsConvex DEF IInv
        <5>6. Group(q) = Group(f)
          BY <3>1, <5>2, <5>5, GroupsPartition DEF IInv
        <5>7. Original(q) = o
          BY <5>6 DEF Original
        <5>8. q # o
          BY <3>1, <4>6, PlacesAfterMarking, <2>1, <4>1, <4>5, <5>2, <5>3
        <5>9. QED
          BY <3>2, <5>7, <5>8
      <4>7. QED
        BY <4>1, <4>3, <4>4, <4>5, <4>6 DEF Alike
    <3>5. \A f \in Listed : duptype'[f] # "UNKNOWN"
      BY <3>2
    <3>6. QED
      BY <3>1, <3>4, <3>5 DEF OriginalLeadsItsGroup
  <2>2. CASE pc = "done" /\ UNCHANGED vars
    BY <2>2 DEF vars, OriginalLeadsItsGroup, Listed
  <2>3. QED
    BY <2>1, <2>2, DoneIsFinal
<1>3. QED
  BY <1>1, <1>2, Inductive, PTL DEF Spec

=============================================================================
