--------------------------- MODULE FillBytesProofs ---------------------------
(***************************************************************************)
(* Theorems about FillBytes, for any buffer size, hash and files. Reading  *)
(* in chunks implements Rdutil, whose theorems are carried over: P is the  *)
(* instance of Rdutil that FillBytes calls R, together with its theorems.  *)
(***************************************************************************)
EXTENDS FillBytes, SequenceTheorems, TLAPS

P == INSTANCE RdutilProofs WITH Digest <- DigestNumber

-----------------------------------------------------------------------------
LEMMA NaturalPolynomial ==
  ASSUME NEW a \in Nat, NEW b \in Nat, NEW c \in Nat
  PROVE  a * b + c \in Nat
OBVIOUS

LEMMA BigEndianType ==
  ASSUME NEW bytes \in [Parts -> 0 .. HashBound - 1]
  PROVE  BigEndian(bytes) \in Nat
<1>1. \A p \in 1 .. 4 : bytes[p] \in Nat
  BY HashBoundAssumption DEF Parts
<1> DEFINE two == bytes[1] * HashBound + bytes[2]
<1> DEFINE three == two * HashBound + bytes[3]
<1>2. HashBound \in Nat
  BY HashBoundAssumption
<1>3. two \in Nat
  BY <1>1, <1>2, NaturalPolynomial
<1> HIDE DEF two
<1>4. three \in Nat
  BY <1>1, <1>2, <1>3, NaturalPolynomial
<1> HIDE DEF three
<1>5. three * HashBound + bytes[4] \in Nat
  BY <1>1, <1>2, <1>4, NaturalPolynomial
<1> QED
  BY <1>5 DEF BigEndian, two, three

LEMMA PrintedType ==
  ASSUME NEW bytes \in [Parts -> 0 .. HashBound - 1],
         NEW t \in R!ChecksumTypes, NEW input \in R!Slices \cup R!Mixtures
  PROVE  Printed(bytes, t, input) \in [Parts -> 0 .. HashBound - 1]
BY HashAssumption DEF Printed

LEMMA ZeroBytesType == ZeroBytes \in [Parts -> 0 .. HashBound - 1]
BY HashBoundAssumption DEF ZeroBytes

(* what Rdutil assumes of a digest *)
LEMMA DigestType ==
  \A t \in R!ChecksumTypes, b \in R!Slices \cup R!Mixtures : DigestNumber(t, b) \in Nat
BY ZeroBytesType, PrintedType, BigEndianType DEF DigestNumber

-----------------------------------------------------------------------------
(* P is R with theorems: it speaks of the same specification. *)
LEMMA SameConstants ==
  /\ R!ChecksumTypes = P!ChecksumTypes /\ R!ChecksumModes = P!ChecksumModes
  /\ R!Slices = P!Slices /\ R!Mixtures = P!Mixtures
BY DEF R!ChecksumTypes, P!ChecksumTypes, R!ChecksumModes, P!ChecksumModes,
   R!Slices, P!Slices, R!Mixtures, P!Mixtures, R!Bytes, P!Bytes

LEMMA SameOperators ==
  /\ R!Listed = P!Listed
  /\ \A m : R!CkType(m) = P!CkType(m)
  /\ \A f : /\ R!Content(f) = P!Content(f)
            /\ R!AlreadyChecksummed(f) <=> P!AlreadyChecksummed(f)
            /\ R!ReadsEntireFile(f) <=> P!ReadsEntireFile(f)
            /\ R!ReadFrom(f) = P!ReadFrom(f) /\ R!ReadUpto(f) = P!ReadUpto(f)
            /\ R!NextToRead(f) <=> P!NextToRead(f)
  /\ R!ModesLeft = P!ModesLeft
BY DEF R!Listed, P!Listed, R!CkType, P!CkType, R!Content, P!Content, R!ChecksumModes, P!ChecksumModes,
   R!AlreadyChecksummed, P!AlreadyChecksummed, R!ReadsEntireFile, P!ReadsEntireFile,
   R!ReadFrom, P!ReadFrom, R!ReadUpto, P!ReadUpto, R!NextToRead, P!NextToRead,
   R!ModesLeft, P!ModesLeft, R!EnabledModes, P!EnabledModes, R!ReadModes, P!ReadModes,
   R!READ_FIRST_BYTES, P!READ_FIRST_BYTES, R!READ_LAST_BYTES, P!READ_LAST_BYTES

LEMMA SameFill ==
  \A f \in Files :
    /\ R!FillSkips(f) <=> P!FillSkips(f)
    /\ R!FillOpenFails(f) <=> P!FillOpenFails(f)
    /\ R!FillReadFails(f) <=> P!FillReadFails(f)
    /\ R!FillReads(f) <=> P!FillReads(f)
    /\ R!FillMixes(f) <=> P!FillMixes(f)
BY SameOperators, SameConstants
   DEF R!FillSkips, P!FillSkips, R!FillOpenFails, P!FillOpenFails,
       R!FillReadFails, P!FillReadFails, R!FillReads, P!FillReads,
       R!FillMixes, P!FillMixes, R!Fill, P!Fill

LEMMA SameCardinality == \A S : R!Cardinality(S) = P!Cardinality(S)
BY DEF R!Cardinality, P!Cardinality, R!IsFiniteSet, P!IsFiniteSet

LEMMA SameInit == R!Init <=> P!Init
BY SameOperators, SameCardinality DEF R!Init, P!Init, R!NOT_DEFINED, P!NOT_DEFINED

LEMMA SameMarkItems == R!MarkItems <=> P!MarkItems
BY DEF R!MarkItems, P!MarkItems

LEMMA SameRemoveIdenticalInodes == R!RemoveIdenticalInodes <=> P!RemoveIdenticalInodes
BY SameCardinality, Zenon
   DEF R!RemoveIdenticalInodes, P!RemoveIdenticalInodes, R!Best, P!Best, R!Outranks,
       P!Outranks, R!DeviceInodeLess, P!DeviceInodeLess, R!Listed, P!Listed, R!Arrangements,
       P!Arrangements, R!Sorts, P!Sorts, R!Keep, P!Keep, R!Run, P!Run

LEMMA SameRemoveUniqueSizes == R!RemoveUniqueSizes <=> P!RemoveUniqueSizes
BY SameCardinality, Zenon
   DEF R!RemoveUniqueSizes, P!RemoveUniqueSizes, R!SizeLess, P!SizeLess, R!Listed, P!Listed,
       R!Arrangements, P!Arrangements, R!Sorts, P!Sorts, R!Keep, P!Keep, R!Run, P!Run

LEMMA SameRemoveUniqSizeAndBuffer == R!RemoveUniqSizeAndBuffer <=> P!RemoveUniqSizeAndBuffer
BY SameCardinality, Zenon
   DEF R!RemoveUniqSizeAndBuffer, P!RemoveUniqSizeAndBuffer, R!SizeLess, P!SizeLess,
       R!SizeThenBufferLess, P!SizeThenBufferLess, R!Listed, P!Listed, R!Arrangements,
       P!Arrangements, R!Sorts, P!Sorts, R!Keep, P!Keep, R!Run, P!Run

LEMMA SameStartFill == R!StartFill <=> P!StartFill
BY SameCardinality, Zenon
   DEF R!StartFill, P!StartFill, R!DeviceInodeLess, P!DeviceInodeLess, R!ModesLeft,
       P!ModesLeft, R!EnabledModes, P!EnabledModes, R!ReadModes, P!ReadModes,
       R!READ_FIRST_BYTES, P!READ_FIRST_BYTES, R!READ_LAST_BYTES, P!READ_LAST_BYTES, R!Listed,
       P!Listed, R!Arrangements, P!Arrangements, R!Sorts, P!Sorts

LEMMA SameMarkDuplicates == R!MarkDuplicates <=> P!MarkDuplicates
BY SameCardinality, Zenon
   DEF R!MarkDuplicates, P!MarkDuplicates, R!OriginalsFirst, P!OriginalsFirst, R!Original,
       P!Original, R!Group, P!Group, R!First, P!First, R!Best, P!Best, R!Outranks, P!Outranks,
       R!SizeLess, P!SizeLess, R!SizeThenBufferLess, P!SizeThenBufferLess, R!ModesLeft,
       P!ModesLeft, R!EnabledModes, P!EnabledModes, R!ReadModes, P!ReadModes,
       R!READ_FIRST_BYTES, P!READ_FIRST_BYTES, R!READ_LAST_BYTES, P!READ_LAST_BYTES, R!Listed,
       P!Listed, R!Run, P!Run

LEMMA SameRewrite == \A i : R!Rewrite(i) <=> P!Rewrite(i)
BY SameCardinality, Zenon DEF R!Rewrite, P!Rewrite

LEMMA SameVars == R!vars = P!vars
BY DEF R!vars, P!vars

LEMMA SameNext == R!Next <=> P!Next
BY SameMarkItems, SameRemoveIdenticalInodes, SameRemoveUniqueSizes, SameRemoveUniqSizeAndBuffer,
   SameStartFill, SameMarkDuplicates, SameRewrite, SameFill, SameVars
   DEF R!Next, P!Next, R!System, P!System, R!Done, P!Done, R!vars, P!vars

LEMMA SameSpec == R!Spec <=> P!Spec
<1>1. P!vars = R!vars /\ (P!vars)' = (R!vars)'
  BY DEF R!vars, P!vars
<1>2. [R!Next]_R!vars <=> [P!Next]_P!vars
  BY <1>1, SameNext
<1> QED
  BY <1>1, <1>2, SameInit, PTL DEF R!Spec, P!Spec

LEMMA SameTypeOK == R!TypeOK <=> P!TypeOK
BY SameOperators DEF R!TypeOK, P!TypeOK, R!ReadModes, P!ReadModes, R!NOT_DEFINED, P!NOT_DEFINED

-----------------------------------------------------------------------------
(* The assumptions of RdutilProofs. *)
LEMMA FilesFact == P!IsFiniteSet(Files)
BY FilesAssumption DEF IsFiniteSet, P!IsFiniteSet

LEMMA OptionsFact ==
  OptionSets \subseteq [remove_identical_inode : BOOLEAN,
                        first_bytes_size : Nat, last_bytes_size : Nat,
                        checksums : SUBSET P!ChecksumModes,
                        checksum_for_firstlast_bytes : P!ChecksumTypes]
BY OptionsAssumption, SameConstants

LEMMA DigestFact ==
  \A t \in P!ChecksumTypes, b \in P!Slices \cup P!Mixtures : DigestNumber(t, b) \in Nat
BY DigestType, SameConstants

-----------------------------------------------------------------------------
(* What a read loop puts together.                                          *)
LEMMA MixtureIs ==
  ASSUME NEW s \in Seq(R!Bytes), NEW c \in Contents, Len(s) <= Len(c)
  PROVE  s \in R!Mixtures
<1> DEFINE Strings(n) == [1 .. n -> R!Bytes]
<1> DEFINE UpTo(d) == UNION {Strings(n) : n \in 0 .. Len(d)}
<1>1. R!Mixtures = UNION {UpTo(d) : d \in Contents}
  BY DEF R!Mixtures
<1>2. Len(s) \in 0 .. Len(c) /\ s \in Strings(Len(s))
  BY ContentsAssumption
<1> HIDE DEF Strings
<1>3. s \in UpTo(c)
  BY <1>2
<1> HIDE DEF UpTo
<1> QED
  BY <1>1, <1>3

LEMMA ContentBytes ==
  ASSUME NEW c \in Contents
  PROVE  c \in Seq(R!Bytes) /\ Len(c) \in Nat
<1>1. c \in Seq(Nat)
  BY ContentsAssumption
<1>2. \A i \in DOMAIN c : c[i] \in R!Bytes
  BY DEF R!Bytes
<1> QED
  BY <1>1, <1>2

LEMMA BytesAreNumbers == R!Bytes \subseteq Nat
<1> SUFFICES ASSUME NEW b \in R!Bytes
             PROVE  b \in Nat
  OBVIOUS
<1>1. PICK c \in Contents : b \in {c[i] : i \in DOMAIN c}
  BY DEF R!Bytes
<1>2. PICK i \in DOMAIN c : b = c[i]
  BY <1>1
<1> QED
  BY <1>2, ContentsAssumption

-----------------------------------------------------------------------------
LEMMA SequencesOfFewer ==
  ASSUME NEW S, NEW T, S \subseteq T, NEW s \in Seq(S)
  PROVE  s \in Seq(T)
<1>1. \A i \in 1 .. Len(s) : s[i] \in T
  OBVIOUS
<1> QED
  BY <1>1

(* The inductive invariant. *)
OpenFiles ==
  [elem : Files, pos : Nat, good : BOOLEAN, read_entire_file : BOOLEAN,
   bytes_to_read : Nat, kept : [Parts -> 0 .. HashBound - 1],
   fault : BOOLEAN, mixed : BOOLEAN]

Buffers ==
  /\ m_somebytes \in [Files -> [Parts -> 0 .. HashBound - 1]]
  /\ chk \in [type : R!ChecksumTypes, input : Seq(Nat)]
  /\ pc = "fill" => chk.type = R!CkType(type)

(* the loop over the chunks of a file *)
Loop ==
  Reading =>
    /\ f1 \in OpenFiles
    /\ pc = "fill" /\ R!NextToRead(f1.elem) /\ ~R!AlreadyChecksummed(f1.elem)
    /\ f1.read_entire_file = R!ReadsEntireFile(f1.elem)
    /\ m_somebytes[f1.elem] = ZeroBytes
    /\ chk.input \in Seq(R!Bytes) /\ chk.input \in R!Mixtures /\ Len(chk.input) <= f1.pos
    /\ f1.mixed => info[f1.elem].inode \in touched
    /\ f1.fault => ReadsMayFail /\ ~f1.good

BytesAskedFor ==
  IF type = R!READ_FIRST_BYTES THEN options.first_bytes_size ELSE options.last_bytes_size

(* what it has done as long as the file is what it was when it was opened *)
Undisturbed ==
  Reading /\ ~f1.mixed =>
    /\ f1.pos \in R!ReadFrom(f1.elem) - 1 .. R!ReadUpto(f1.elem)
    /\ chk.input = SubSeq(R!Content(f1.elem), R!ReadFrom(f1.elem), f1.pos)
    /\ ~f1.read_entire_file =>
         f1.bytes_to_read + f1.pos = R!ReadFrom(f1.elem) - 1 + BytesAskedFor
    /\ f1.good => ~SeekFails(f1.elem)
    /\ f1.fault => f1.pos < R!ReadUpto(f1.elem)
    /\ ~GoesOn /\ ~f1.fault => f1.pos = R!ReadUpto(f1.elem)

FInv == P!TypeOK /\ P!Bookkeeping /\ Buffers /\ Loop /\ Undisturbed

LEMMA ReadRange ==
  ASSUME P!TypeOK, NEW f \in Files
  PROVE  /\ R!Content(f) \in Contents /\ Len(R!Content(f)) \in Nat
         /\ R!ReadFrom(f) \in 1 .. Len(R!Content(f)) + 1
         /\ R!ReadUpto(f) \in R!ReadFrom(f) - 1 .. Len(R!Content(f))
BY FilesFact, InodesAssumption, ContentsAssumption, RankAssumption, OptionsFact, DigestFact,
   P!ReadRange, SameOperators

LEMMA CkTypeType ==
  ASSUME P!TypeOK, NEW m \in P!ReadModes
  PROVE  R!CkType(m) \in R!ChecksumTypes
BY FilesFact, InodesAssumption, ContentsAssumption, RankAssumption, OptionsFact, DigestFact,
   P!CkTypeType, SameOperators, SameConstants

LEMMA RdutilStep ==
  ASSUME P!TypeOK, P!Bookkeeping, [P!Next]_P!vars
  PROVE  P!TypeOK' /\ P!Bookkeeping'
BY FilesFact, InodesAssumption, ContentsAssumption, RankAssumption, OptionsFact, DigestFact,
   P!NextInv

LEMMA RdutilInit == ASSUME P!Init PROVE P!TypeOK /\ P!Bookkeeping
BY FilesFact, InodesAssumption, ContentsAssumption, RankAssumption, OptionsFact, DigestFact,
   P!InitInv

LEMMA InitFInv ==
  ASSUME Init
  PROVE  FInv /\ P!Init
<1>1. P!Init
  BY SameInit DEF Init
<1>2. P!TypeOK /\ P!Bookkeeping
  BY <1>1, RdutilInit
<1>3. ~Reading
  BY DEF Init, Reading
<1>4. Buffers
  BY <1>1, ZeroBytesType DEF Init, Buffers, Fresh, SHA1, R!ChecksumTypes, P!Init
<1> QED
  BY <1>1, <1>2, <1>3, <1>4 DEF FInv, Loop, Undisturbed

LEMMA Types ==
  ASSUME FInv
  PROVE  /\ options.first_bytes_size \in Nat /\ options.last_bytes_size \in Nat
         /\ info \in [Files -> [inode : Inodes, cmdline_index : CmdlineIndexes,
                                depth : Depths, found : Nat \ {0}]]
         /\ data \in [Inodes -> Contents]
         /\ unread \in SUBSET Files /\ touched \in SUBSET Inodes
         /\ type \in R!ReadModes \cup {R!NOT_DEFINED}
         /\ pc = "fill" => R!CkType(type) \in R!ChecksumTypes
<1>1. P!TypeOK /\ P!Bookkeeping
  BY DEF FInv
<1>2. options.first_bytes_size \in Nat /\ options.last_bytes_size \in Nat
  BY <1>1, OptionsFact DEF P!TypeOK
<1>3. pc = "fill" => type \in P!ReadModes
  BY <1>1 DEF P!TypeOK, P!Bookkeeping
<1>4. unread \in SUBSET Files
  BY <1>1 DEF P!TypeOK
<1> QED
  BY <1>1, <1>2, <1>3, <1>4, CkTypeType
     DEF P!TypeOK, R!ReadModes, P!ReadModes, R!NOT_DEFINED, P!NOT_DEFINED

(* The bytes a stage asks for, and when seeking to them fails.              *)
LEMMA WhatIsAskedFor ==
  ASSUME FInv, NEW f \in Files
  PROVE  /\ R!ReadsEntireFile(f) =>
              /\ R!ReadFrom(f) = 1 /\ R!ReadUpto(f) = Len(R!Content(f))
              /\ ~SeekFails(f)
         /\ ~R!ReadsEntireFile(f) =>
              \/ /\ type = R!READ_FIRST_BYTES
                 /\ R!ReadFrom(f) = 1 /\ ~SeekFails(f)
                 /\ R!ReadUpto(f) = Least(options.first_bytes_size, Len(R!Content(f)))
                 /\ BytesAskedFor = options.first_bytes_size
              \/ /\ type = R!READ_LAST_BYTES
                 /\ BytesAskedFor = options.last_bytes_size
                 /\ type # R!READ_FIRST_BYTES
                 /\ \/ /\ ~SeekFails(f) /\ options.last_bytes_size <= Len(R!Content(f))
                       /\ R!ReadFrom(f) = Len(R!Content(f)) - options.last_bytes_size + 1
                       /\ R!ReadUpto(f) = Len(R!Content(f))
                    \/ /\ SeekFails(f)
                       /\ R!ReadFrom(f) = 1 /\ R!ReadUpto(f) = 0
<1>1. Len(R!Content(f)) \in Nat
  BY ReadRange DEF FInv
<1>2. R!READ_FIRST_BYTES # R!READ_LAST_BYTES
  BY DEF R!READ_FIRST_BYTES, R!READ_LAST_BYTES
<1>3. CASE R!ReadsEntireFile(f)
  BY <1>3 DEF R!ReadFrom, R!ReadUpto, SeekFails
<1>4. CASE ~R!ReadsEntireFile(f) /\ type = R!READ_FIRST_BYTES
  BY <1>2, <1>4 DEF R!ReadFrom, R!ReadUpto, SeekFails, Least, BytesAskedFor
<1>5. CASE ~R!ReadsEntireFile(f) /\ type # R!READ_FIRST_BYTES
  <2>1. type = R!READ_LAST_BYTES
    BY <1>5 DEF R!ReadsEntireFile
  <2>2. BytesAskedFor = options.last_bytes_size
    BY <1>5 DEF BytesAskedFor
  <2>3. CASE options.last_bytes_size <= Len(R!Content(f))
    BY <1>1, <1>2, <1>5, <2>1, <2>2, <2>3, Types DEF R!ReadFrom, R!ReadUpto, SeekFails
  <2>4. CASE ~(options.last_bytes_size <= Len(R!Content(f)))
    BY <1>1, <1>2, <1>5, <2>1, <2>2, <2>4, Types DEF R!ReadFrom, R!ReadUpto, SeekFails
  <2> QED
    BY <2>3, <2>4
<1> QED
  BY <1>3, <1>4, <1>5

LEMMA NothingOpen ==
  ASSUME FInv, pc # "fill" \/ unread = {} \/ \E f \in Files : AtFile(f)
  PROVE  ~Reading
BY DEF FInv, Loop, R!NextToRead, AtFile

LEMMA StillNothingOpen ==
  ASSUME ~Reading, UNCHANGED f1
  PROVE  Loop' /\ Undisturbed'
BY DEF Reading, Loop, Undisturbed

LEMMA NothingOpenAnyMore ==
  ASSUME ~Reading'
  PROVE  Loop' /\ Undisturbed'
BY DEF Loop, Undisturbed

LEMMA StageStep ==
  ASSUME FInv, Elsewhere,
         \/ R!MarkItems \/ R!RemoveIdenticalInodes \/ R!RemoveUniqueSizes
         \/ R!RemoveUniqSizeAndBuffer \/ R!MarkDuplicates
  PROVE  R!Next /\ Buffers' /\ Loop' /\ Undisturbed'
<1>1. R!Next
  BY DEF R!Next, R!System
<1>2. pc # "fill" \/ unread = {}
  BY DEF R!MarkItems, R!RemoveIdenticalInodes, R!RemoveUniqueSizes,
         R!RemoveUniqSizeAndBuffer, R!MarkDuplicates
<1>3. pc' # "fill"
  BY DEF R!MarkItems, R!RemoveIdenticalInodes, R!RemoveUniqueSizes,
         R!RemoveUniqSizeAndBuffer, R!MarkDuplicates
<1>4. Buffers'
  BY <1>3 DEF FInv, Buffers, Elsewhere
<1> QED
  BY <1>1, <1>2, <1>4, NothingOpen, StillNothingOpen DEF Elsewhere

LEMMA StartFillStep ==
  ASSUME FInv, StartFill
  PROVE  R!Next /\ Buffers' /\ Loop' /\ Undisturbed'
<1>1. R!Next
  BY DEF StartFill, R!Next, R!System
<1>2. pc = "modes" /\ options' = options /\ type' \in P!ReadModes
  BY DEF StartFill, R!StartFill, R!ModesLeft, R!EnabledModes, R!ReadModes, P!ReadModes
<1>3. R!CkType(type') \in R!ChecksumTypes
  BY <1>2, CkTypeType DEF FInv
<1>4. chk' \in [type : R!ChecksumTypes, input : Seq(Nat)] /\ chk'.type = R!CkType(type)'
  BY <1>2, <1>3 DEF StartFill, Fresh, R!CkType
<1>5. Buffers'
  BY <1>4 DEF FInv, Buffers, StartFill
<1> QED
  BY <1>1, <1>2, <1>5, NothingOpen, StillNothingOpen DEF StartFill

LEMMA NotReadStep ==
  ASSUME FInv, NEW f \in Files, Skip(f) \/ OpenFails(f)
  PROVE  R!Next /\ Buffers' /\ Loop' /\ Undisturbed'
<1>1. R!Next
  BY DEF Skip, OpenFails, R!Next, R!System
<1>2. UNCHANGED <<pc, type, options>>
  BY DEF Skip, OpenFails, R!FillSkips, R!FillOpenFails, R!Fill
<1>3. Buffers'
  BY <1>2 DEF FInv, Buffers, Skip, OpenFails, Elsewhere, R!CkType
<1> QED
  BY <1>1, <1>3, StillNothingOpen DEF Skip, OpenFails, AtFile, Elsewhere

(* Opening and reading a file is no step of Rdutil.                         *)
LEMMA Unnoticed ==
  ASSUME UNCHANGED <<program, unread, faulted, touched, somebytes>>
  PROVE  UNCHANGED R!vars
BY DEF program, R!vars

LEMMA OpenStep ==
  ASSUME FInv, NEW f \in Files, Open(f)
  PROVE  UNCHANGED R!vars /\ Buffers' /\ Loop' /\ Undisturbed'
<1>1. /\ pc = "fill" /\ ~Reading /\ R!NextToRead(f) /\ ~R!AlreadyChecksummed(f)
      /\ f1' = Stream(f)
      /\ m_somebytes' = [m_somebytes EXCEPT ![f] = ZeroBytes]
      /\ chk' = Fresh(chk.type)
      /\ UNCHANGED <<options, info, size, data, m_list, pc, type, lasttype, unread, touched>>
  BY DEF Open, AtFile, program
<1>2. Buffers
  BY DEF FInv
<1>3. /\ Stream(f).elem = f /\ Stream(f).pos = R!ReadFrom(f) - 1
      /\ Stream(f).good = ~SeekFails(f)
      /\ Stream(f).read_entire_file = R!ReadsEntireFile(f)
      /\ Stream(f).bytes_to_read =
           CASE type = R!READ_FIRST_BYTES -> options.first_bytes_size
             [] type = R!READ_LAST_BYTES -> options.last_bytes_size
             [] OTHER -> 0
      /\ Stream(f).kept = m_somebytes[f]
      /\ Stream(f).fault = FALSE /\ Stream(f).mixed = FALSE
  BY DEF Stream
<1>4. Stream(f) # NoFile
  <2>1. "pos" \in DOMAIN Stream(f) /\ "pos" \notin DOMAIN NoFile
    BY DEF Stream, NoFile
  <2> QED
    BY <2>1
<1>5. somebytes' = somebytes
  BY <1>1, <1>2, <1>3, <1>4 DEF somebytes, Reading, Buffers
<1>6. UNCHANGED R!vars
  BY <1>5, Unnoticed DEF Open
<1>7. Buffers'
  <2>1. chk' \in [type : R!ChecksumTypes, input : Seq(Nat)] /\ chk'.type = chk.type
    BY <1>1, <1>2 DEF Buffers, Fresh
  <2> QED
    BY <1>1, <1>2, <2>1, ZeroBytesType DEF Buffers, R!CkType
<1>8. /\ R!Content(f) \in Contents /\ Len(R!Content(f)) \in Nat
      /\ R!ReadFrom(f) \in 1 .. Len(R!Content(f)) + 1
      /\ R!ReadUpto(f) \in R!ReadFrom(f) - 1 .. Len(R!Content(f))
  BY ReadRange DEF FInv
<1>9. Stream(f) \in OpenFiles
  <2>1. R!ReadFrom(f) - 1 \in Nat
    BY <1>8
  <2>2. (CASE type = R!READ_FIRST_BYTES -> options.first_bytes_size
           [] type = R!READ_LAST_BYTES -> options.last_bytes_size
           [] OTHER -> 0) \in Nat
    BY Types DEF R!READ_FIRST_BYTES, R!READ_LAST_BYTES
  <2>3. m_somebytes[f] \in [Parts -> 0 .. HashBound - 1]
    BY <1>2 DEF Buffers
  <2>4. (~SeekFails(f)) \in BOOLEAN
    OBVIOUS
  <2>5. R!ReadsEntireFile(f) \in BOOLEAN
    BY DEF R!ReadsEntireFile
  <2> QED
    BY <2>1, <2>2, <2>3, <2>4, <2>5 DEF Stream, OpenFiles
<1>10. <<>> \in Seq(R!Bytes) /\ <<>> \in R!Mixtures
  <2>1. <<>> \in Seq(R!Bytes) /\ Len(<<>>) = 0
    BY EmptySeq
  <2>2. Len(<<>>) <= Len(R!Content(f))
    BY <1>8, <2>1
  <2> QED
    BY <1>8, <2>1, <2>2, MixtureIs, Zenon
<1>11. /\ R!NextToRead(f)' = R!NextToRead(f)
       /\ R!AlreadyChecksummed(f)' = R!AlreadyChecksummed(f)
       /\ R!ReadsEntireFile(f)' = R!ReadsEntireFile(f)
       /\ R!ReadFrom(f)' = R!ReadFrom(f) /\ R!ReadUpto(f)' = R!ReadUpto(f)
       /\ R!Content(f)' = R!Content(f)
       /\ SeekFails(f)' = SeekFails(f)
       /\ BytesAskedFor' = BytesAskedFor
  BY <1>1 DEF R!NextToRead, R!AlreadyChecksummed, R!ReadsEntireFile, R!ReadFrom, R!ReadUpto,
              R!Content, R!CkType, SeekFails, BytesAskedFor
<1>12. f1'.elem = f /\ chk'.input = <<>> /\ m_somebytes'[f] = ZeroBytes
  BY <1>1, <1>2, <1>3 DEF Fresh, Buffers
<1>13. Loop'
  BY <1>1, <1>3, <1>8, <1>9, <1>10, <1>11, <1>12 DEF Loop
<1>14. Undisturbed'
  <2>1. SubSeq(R!Content(f), R!ReadFrom(f), R!ReadFrom(f) - 1) = <<>>
    BY <1>8, SubSeqEmpty
  <2>2. ~R!ReadsEntireFile(f) => Stream(f).bytes_to_read = BytesAskedFor
    <3>1. ~R!ReadsEntireFile(f) => type = R!READ_FIRST_BYTES \/ type = R!READ_LAST_BYTES
      BY DEF R!ReadsEntireFile
    <3> QED
      BY <3>1 DEF Stream, BytesAskedFor, R!READ_FIRST_BYTES, R!READ_LAST_BYTES
  <2>3. ~(~SeekFails(f) /\ (R!ReadsEntireFile(f) \/ Stream(f).bytes_to_read > 0))
          => R!ReadFrom(f) - 1 = R!ReadUpto(f)
    <3>1. CASE R!ReadsEntireFile(f)
      BY <3>1, WhatIsAskedFor
    <3>2. CASE ~R!ReadsEntireFile(f)
      BY <3>2, <1>8, <2>2, Types, WhatIsAskedFor DEF Least
    <3> QED
      BY <3>1, <3>2
  <2>4. /\ f1'.elem = f /\ f1'.pos = R!ReadFrom(f) - 1
        /\ f1'.read_entire_file <=> R!ReadsEntireFile(f)
        /\ f1'.good <=> ~SeekFails(f)
        /\ f1'.bytes_to_read = Stream(f).bytes_to_read
        /\ ~f1'.fault
    BY <1>1, <1>3
  <2>5. GoesOn' <=> ~SeekFails(f) /\ (R!ReadsEntireFile(f) \/ Stream(f).bytes_to_read > 0)
    BY <2>4 DEF GoesOn
  <2>6. f1'.pos \in R!ReadFrom(f) - 1 .. R!ReadUpto(f)
    BY <1>8, <2>4
  <2>7. ~f1'.read_entire_file => f1'.bytes_to_read + f1'.pos = R!ReadFrom(f) - 1 + BytesAskedFor
    BY <1>3, <1>8, <2>2, <2>4, Types DEF BytesAskedFor
  <2> QED
    BY <1>11, <1>12, <2>1, <2>3, <2>4, <2>5, <2>6, <2>7 DEF Undisturbed
<1> QED
  BY <1>6, <1>7, <1>13, <1>14

LEMMA OpenFile ==
  ASSUME FInv, Reading
  PROVE  /\ f1 \in OpenFiles /\ pc = "fill"
         /\ f1.elem \in Files /\ f1.pos \in Nat /\ f1.bytes_to_read \in Nat
         /\ f1.read_entire_file <=> R!ReadsEntireFile(f1.elem)
         /\ R!Content(f1.elem) \in Contents /\ Len(R!Content(f1.elem)) \in Nat
         /\ R!ReadFrom(f1.elem) \in 1 .. Len(R!Content(f1.elem)) + 1
         /\ R!ReadUpto(f1.elem) \in R!ReadFrom(f1.elem) - 1 .. Len(R!Content(f1.elem))
<1>1. P!TypeOK /\ Loop
  BY DEF FInv
<1>2. /\ f1 \in OpenFiles /\ pc = "fill"
      /\ f1.read_entire_file <=> R!ReadsEntireFile(f1.elem)
  BY <1>1 DEF Loop, OpenFiles
<1>3. f1.elem \in Files /\ f1.pos \in Nat /\ f1.bytes_to_read \in Nat
  BY <1>2 DEF OpenFiles
<1> QED
  BY <1>1, <1>2, <1>3, ReadRange

(* The next chunk never goes beyond what is asked for, and when it is less  *)
(* than a full one, nothing is left.                                        *)
LEMMA ChunkBounds ==
  ASSUME FInv, Reading, GoesOn
  PROVE  /\ Wanted \in Nat /\ Available \in Nat
         /\ ~f1.read_entire_file => Wanted <= f1.bytes_to_read
         /\ Least(Wanted, Available) \in Nat
         /\ Least(Wanted, Available) <= Wanted
         /\ Least(Wanted, Available) > 0
              => f1.pos + Least(Wanted, Available) <= Len(R!Content(f1.elem))
         /\ ~f1.mixed =>
              /\ f1.pos + Least(Wanted, Available) <= R!ReadUpto(f1.elem)
              /\ Least(Wanted, Available) # Wanted
                   => f1.pos + Least(Wanted, Available) = R!ReadUpto(f1.elem)
              /\ ~f1.read_entire_file /\ Least(Wanted, Available) = f1.bytes_to_read
                   => f1.pos + Least(Wanted, Available) = R!ReadUpto(f1.elem)
<1> DEFINE f == f1.elem
<1> DEFINE n == Len(R!Content(f))
<1>1. /\ f \in Files /\ f1.pos \in Nat /\ f1.bytes_to_read \in Nat /\ n \in Nat
      /\ f1.read_entire_file <=> R!ReadsEntireFile(f)
      /\ R!ReadFrom(f) \in 1 .. n + 1 /\ R!ReadUpto(f) \in R!ReadFrom(f) - 1 .. n
  BY OpenFile
<1>2. Wanted \in Nat /\ (~f1.read_entire_file => Wanted <= f1.bytes_to_read)
  BY <1>1, BufferSizeAssumption DEF Wanted, Least
<1>3. Available \in Nat /\ (f1.pos <= n => f1.pos + Available = n) /\ (f1.pos > n => Available = 0)
  BY <1>1 DEF Available
<1> DEFINE chunk == Least(Wanted, Available)
<1>4. chunk \in Nat /\ chunk <= Wanted /\ chunk <= Available /\ (chunk = Wanted \/ chunk = Available)
  BY <1>2, <1>3 DEF Least
<1> HIDE DEF chunk
<1>5. chunk > 0 => f1.pos + chunk <= n
  BY <1>1, <1>3, <1>4
<1>6. ASSUME ~f1.mixed
      PROVE  /\ f1.pos + chunk <= R!ReadUpto(f)
             /\ chunk # Wanted => f1.pos + chunk = R!ReadUpto(f)
             /\ ~f1.read_entire_file /\ chunk = f1.bytes_to_read
                  => f1.pos + chunk = R!ReadUpto(f)
  <2>1. /\ f1.pos \in R!ReadFrom(f) - 1 .. R!ReadUpto(f)
        /\ ~f1.read_entire_file =>
             f1.bytes_to_read + f1.pos = R!ReadFrom(f) - 1 + BytesAskedFor
        /\ ~SeekFails(f)
    BY <1>6 DEF FInv, Undisturbed, GoesOn
  <2>2. f1.pos + Available = n
    BY <1>1, <1>3, <2>1
  <2>3. CASE f1.read_entire_file
    BY <1>1, <1>3, <1>4, <2>2, <2>3, WhatIsAskedFor
  <2>4. CASE ~f1.read_entire_file
    <3>1. \/ /\ R!ReadFrom(f) = 1
             /\ R!ReadUpto(f) = Least(options.first_bytes_size, n)
             /\ BytesAskedFor = options.first_bytes_size
          \/ /\ BytesAskedFor = options.last_bytes_size
             /\ options.last_bytes_size <= n
             /\ R!ReadFrom(f) = n - options.last_bytes_size + 1
             /\ R!ReadUpto(f) = n
      BY <1>1, <2>1, <2>4, WhatIsAskedFor
    <3> HIDE DEF n, f
    <3>2. CASE BytesAskedFor = options.last_bytes_size
               /\ R!ReadFrom(f) = n - options.last_bytes_size + 1 /\ R!ReadUpto(f) = n
      BY <1>1, <1>2, <1>3, <1>4, <2>1, <2>2, <2>4, <3>2, Types
    <3>3. CASE /\ R!ReadFrom(f) = 1
               /\ R!ReadUpto(f) = Least(options.first_bytes_size, n)
               /\ BytesAskedFor = options.first_bytes_size
      <4>1. \/ R!ReadUpto(f) = options.first_bytes_size /\ options.first_bytes_size <= n
            \/ R!ReadUpto(f) = n /\ n < options.first_bytes_size
        BY <1>1, <3>3, Types DEF Least
      <4>2. f1.bytes_to_read + f1.pos = options.first_bytes_size
        BY <1>1, <2>1, <2>4, <3>3, Types
      <4> QED
        BY <1>1, <1>2, <1>3, <1>4, <2>2, <2>4, <4>1, <4>2, Types
    <3> QED
      BY <3>1, <3>2, <3>3
  <2> QED
    BY <2>3, <2>4
<1> QED
  BY <1>2, <1>3, <1>4, <1>5, <1>6 DEF chunk

LEMMA AdvanceStep ==
  ASSUME FInv, Reading, GoesOn, NEW got \in Nat, NEW fails \in BOOLEAN,
         fails => ReadsMayFail /\ got < Least(Wanted, Available),
         ~fails => got = Least(Wanted, Available),
         Advance(got, fails)
  PROVE  UNCHANGED R!vars /\ Buffers' /\ Loop' /\ Undisturbed'
<1> DEFINE f == f1.elem
<1> DEFINE c == R!Content(f)
<1> DEFINE read == SubSeq(c, f1.pos + 1, f1.pos + got)
<1> DEFINE chunk == Least(Wanted, Available)
<1>1. /\ f1 \in OpenFiles /\ pc = "fill" /\ f \in Files /\ f1.pos \in Nat /\ f1.bytes_to_read \in Nat
      /\ f1.read_entire_file <=> R!ReadsEntireFile(f)
      /\ c \in Contents /\ Len(c) \in Nat
      /\ R!ReadFrom(f) \in 1 .. Len(c) + 1 /\ R!ReadUpto(f) \in R!ReadFrom(f) - 1 .. Len(c)
  BY OpenFile
<1>2. Wanted \in Nat /\ chunk \in Nat /\ got <= chunk /\ chunk <= Wanted
      /\ (~f1.read_entire_file => Wanted <= f1.bytes_to_read)
      /\ (chunk > 0 => f1.pos + chunk <= Len(c))
  BY ChunkBounds
<1>3. /\ chk \in [type : R!ChecksumTypes, input : Seq(Nat)]
      /\ m_somebytes \in [Files -> [Parts -> 0 .. HashBound - 1]]
      /\ chk.type = R!CkType(type)
  BY <1>1 DEF FInv, Buffers
<1>4. /\ R!NextToRead(f) /\ ~R!AlreadyChecksummed(f)
      /\ m_somebytes[f] = ZeroBytes
      /\ chk.input \in Seq(R!Bytes) /\ chk.input \in R!Mixtures /\ Len(chk.input) <= f1.pos
      /\ f1.mixed => info[f].inode \in touched
  BY DEF FInv, Loop
<1>5. UNCHANGED <<options, info, size, data, m_list, identity, duptype, pc, type, lasttype,
                  unread, faulted, touched, m_somebytes>>
  BY DEF Advance, program
<1>6. /\ f1'.elem = f /\ f1'.pos = f1.pos + got /\ f1'.good = (got = Wanted)
      /\ f1'.read_entire_file = f1.read_entire_file
      /\ f1'.bytes_to_read = (IF f1.read_entire_file THEN f1.bytes_to_read
                              ELSE f1.bytes_to_read - got)
      /\ f1'.kept = f1.kept /\ f1'.fault = fails /\ f1'.mixed = f1.mixed
      /\ f1' \in OpenFiles
  <2>1. (IF f1.read_entire_file THEN f1.bytes_to_read ELSE f1.bytes_to_read - got) \in Nat
    BY <1>1, <1>2
  <2>2. f1' = [f1 EXCEPT !.pos = f1.pos + got,
                        !.good = (got = Wanted),
                        !.bytes_to_read = IF f1.read_entire_file THEN f1.bytes_to_read
                                          ELSE f1.bytes_to_read - got,
                        !.fault = fails]
    BY DEF Advance
  <2>3. f1.pos + got \in Nat /\ (got = Wanted) \in BOOLEAN
    BY <1>1
  <2> HIDE DEF f
  <2> QED
    BY <1>1, <2>1, <2>2, <2>3 DEF OpenFiles, f
<1>7. read \in Seq(R!Bytes) /\ Len(read) = got
  <2>1. CASE got = 0
    BY <1>1, <2>1, SubSeqEmpty, EmptySeq
  <2>2. CASE got # 0
    <3>1. f1.pos + got <= Len(c)
      BY <1>1, <1>2, <2>2
    <3>2. c \in Seq(R!Bytes)
      BY <1>1, ContentBytes
    <3>3. \A i \in f1.pos + 1 .. f1.pos + got : c[i] \in R!Bytes
      BY <1>1, <3>1, <3>2
    <3>4. f1.pos + 1 \in Int /\ f1.pos + got \in Int
      BY <1>1
    <3> HIDE DEF c
    <3>5. /\ read \in Seq(R!Bytes)
          /\ Len(read) = IF f1.pos + 1 <= f1.pos + got
                           THEN (f1.pos + got) - (f1.pos + 1) + 1 ELSE 0
      BY <3>3, <3>4, SubSeqProperties, Zenon
    <3> HIDE DEF read
    <3> QED
      BY <1>1, <2>2, <3>5
  <2> QED
    BY <2>1, <2>2
<1> HIDE DEF read
<1>8. chk' = [chk EXCEPT !.input = chk.input \o read]
  BY DEF Advance, Updated, read
<1>9. chk'.input = chk.input \o read /\ chk'.type = chk.type
  BY <1>3, <1>8
<1>10. chk'.input \in Seq(R!Bytes) /\ Len(chk'.input) = Len(chk.input) + got
  BY <1>4, <1>7, <1>9, ConcatProperties
<1>11. chk'.input \in R!Mixtures
  <2>1. CASE got = 0
    <3>1. read = <<>>
      BY <1>7, <2>1, EmptySeq
    <3> QED
      BY <1>4, <1>9, <3>1, ConcatEmptySeq
  <2>2. CASE got # 0
    <3>1. f1.pos + got <= Len(c)
      BY <1>1, <1>2, <2>2
    <3>2. Len(chk.input) \in Nat
      BY <1>4
    <3> QED
      BY <1>1, <1>4, <1>10, <3>1, <3>2, MixtureIs
  <2> QED
    BY <2>1, <2>2
<1>12. Buffers'
  <2>1. chk'.input \in Seq(Nat)
    BY <1>10, BytesAreNumbers, SequencesOfFewer
  <2>2. chk' \in [type : R!ChecksumTypes, input : Seq(Nat)]
    BY <1>3, <1>8, <1>9, <2>1
  <2> QED
    BY <1>3, <1>5, <1>9, <2>2 DEF Buffers, R!CkType
<1>13. /\ R!NextToRead(f)' = R!NextToRead(f)
       /\ R!AlreadyChecksummed(f)' = R!AlreadyChecksummed(f)
       /\ R!ReadsEntireFile(f)' = R!ReadsEntireFile(f)
       /\ R!ReadFrom(f)' = R!ReadFrom(f) /\ R!ReadUpto(f)' = R!ReadUpto(f)
       /\ R!Content(f)' = c
       /\ SeekFails(f)' = SeekFails(f)
       /\ BytesAskedFor' = BytesAskedFor
  BY <1>5, <1>6 DEF R!NextToRead, R!AlreadyChecksummed, R!ReadsEntireFile, R!ReadFrom, R!ReadUpto,
              R!Content, R!CkType, SeekFails, BytesAskedFor
<1>14. Loop'
  <2>1. Len(chk'.input) <= f1'.pos
    <3>1. Len(chk.input) \in Nat
      BY <1>4
    <3> QED
      BY <1>1, <1>4, <1>6, <1>10, <3>1
  <2>2. fails => got # Wanted
    BY <1>2
  <2>3. f1'.good => got = Wanted
    BY <1>6
  <2>4. f1'.read_entire_file = R!ReadsEntireFile(f)
    BY <1>6 DEF FInv, Loop
  <2> QED
    BY <1>1, <1>4, <1>5, <1>6, <1>10, <1>11, <1>13, <2>1, <2>2, <2>3, <2>4 DEF Loop
<1>15. UNCHANGED R!vars
  <2>1. f1' # NoFile /\ f1 # NoFile
    <3>1. "pos" \in DOMAIN f1' /\ "pos" \in DOMAIN f1 /\ "pos" \notin DOMAIN NoFile
      BY <1>1, <1>6 DEF OpenFiles, NoFile
    <3> QED
      BY <3>1
  <2>2. somebytes' = somebytes
    BY <1>5, <1>6, <2>1 DEF somebytes, Reading
  <2> QED
    BY <2>2, Unnoticed DEF Advance
<1>16. ASSUME ~f1.mixed
       PROVE  /\ f1.pos \in R!ReadFrom(f) - 1 .. R!ReadUpto(f)
              /\ chk.input = SubSeq(c, R!ReadFrom(f), f1.pos)
              /\ ~f1.read_entire_file =>
                   f1.bytes_to_read + f1.pos = R!ReadFrom(f) - 1 + BytesAskedFor
              /\ ~SeekFails(f)
              /\ f1.pos + chunk <= R!ReadUpto(f)
              /\ chunk # Wanted => f1.pos + chunk = R!ReadUpto(f)
              /\ ~f1.read_entire_file /\ chunk = f1.bytes_to_read
                   => f1.pos + chunk = R!ReadUpto(f)
  BY <1>16, ChunkBounds DEF FInv, Undisturbed, GoesOn
<1>17. Undisturbed'
  <2> SUFFICES ASSUME ~f1.mixed
               PROVE  Undisturbed'
    BY <1>6 DEF Undisturbed
  <2>1. f1'.pos \in R!ReadFrom(f) - 1 .. R!ReadUpto(f)
    BY <1>1, <1>2, <1>6, <1>16
  <2>2. chk'.input = SubSeq(c, R!ReadFrom(f), f1'.pos)
    <3>1. c \in Seq(R!Bytes)
      BY <1>1, ContentBytes
    <3>2. f1.pos \in R!ReadFrom(f) - 1 .. Len(c) /\ f1.pos + got \in f1.pos .. Len(c)
      <4> HIDE DEF chunk
      <4>1. f1.pos + got <= f1.pos + chunk /\ f1.pos + chunk <= R!ReadUpto(f)
        BY <1>1, <1>2, <1>16
      <4>2. f1.pos \in R!ReadFrom(f) - 1 .. R!ReadUpto(f)
        BY <1>16
      <4>3. f1.pos + got <= R!ReadUpto(f)
        BY <1>1, <1>2, <4>1
      <4> QED
        BY <1>1, <4>2, <4>3
    <3> HIDE DEF c
    <3> QED
      BY <1>1, <1>6, <1>9, <1>16, <3>1, <3>2, ConcatAdjacentSubSeq DEF read
  <2>3. ~f1.read_entire_file =>
          f1'.bytes_to_read + f1'.pos = R!ReadFrom(f) - 1 + BytesAskedFor
    <3>1. BytesAskedFor \in Nat
      BY Types DEF BytesAskedFor
    <3> QED
      BY <1>1, <1>6, <1>16, <3>1
  <2>4. fails => f1'.pos < R!ReadUpto(f)
    BY <1>1, <1>2, <1>6, <1>16
  <2>5. ~GoesOn' /\ ~fails => f1'.pos = R!ReadUpto(f)
    <3>1. GoesOn' <=> (got = Wanted) /\ (f1.read_entire_file \/ f1'.bytes_to_read > 0)
      BY <1>6 DEF GoesOn
    <3> QED
      BY <1>1, <1>2, <1>6, <1>16, <3>1
  <2> QED
    BY <1>6, <1>13, <1>16, <2>1, <2>2, <2>3, <2>4, <2>5 DEF Undisturbed
<1> QED
  BY <1>12, <1>14, <1>15, <1>17

(* Where Rdutil sees the file read: all of it, as much of it as came before *)
(* a failed read, or a mixture of what was in it.                           *)
LEMMA FinishStep ==
  ASSUME FInv, Finish
  PROVE  R!Next /\ Buffers' /\ Loop' /\ Undisturbed'
<1> DEFINE f == f1.elem
<1>1. /\ f1 \in OpenFiles /\ pc = "fill" /\ f \in Files /\ f1.pos \in Nat
      /\ R!ReadFrom(f) \in 1 .. Len(R!Content(f)) + 1
      /\ R!ReadUpto(f) \in R!ReadFrom(f) - 1 .. Len(R!Content(f))
  BY OpenFile DEF Finish
<1>2. /\ chk \in [type : R!ChecksumTypes, input : Seq(Nat)]
      /\ m_somebytes \in [Files -> [Parts -> 0 .. HashBound - 1]]
      /\ chk.type = R!CkType(type)
  BY <1>1 DEF FInv, Buffers
<1>3. /\ R!NextToRead(f) /\ ~R!AlreadyChecksummed(f)
      /\ m_somebytes[f] = ZeroBytes
      /\ chk.input \in R!Mixtures
      /\ f1.mixed => info[f].inode \in touched
      /\ f1.fault => ReadsMayFail
  BY DEF FInv, Loop, Finish
<1>4. /\ m_somebytes' = [m_somebytes EXCEPT ![f] = Printed(ZeroBytes, chk.type, chk.input)]
      /\ chk' = AfterDigest(chk)
      /\ Reading /\ ~GoesOn
      /\ f1' = NoFile
      /\ unread' = unread \ {f}
      /\ faulted' = IF f1.fault /\ ~f1.mixed THEN faulted \cup {info[f].inode} ELSE faulted
      /\ UNCHANGED <<options, info, size, data, m_list, identity, duptype, pc, type, lasttype,
                     touched>>
  BY <1>3 DEF Finish, program
<1>5. ~Reading'
  BY <1>4 DEF Reading
<1>6. Printed(ZeroBytes, chk.type, chk.input) \in [Parts -> 0 .. HashBound - 1]
  BY <1>2, <1>3, ZeroBytesType, PrintedType
<1>7. Buffers'
  <2>1. m_somebytes' \in [Files -> [Parts -> 0 .. HashBound - 1]]
    BY <1>2, <1>4, <1>6
  <2>2. chk' \in [type : R!ChecksumTypes, input : Seq(Nat)] /\ chk'.type = chk.type
    BY <1>2, <1>4 DEF AfterDigest, Fresh
  <2> QED
    BY <1>2, <1>4, <2>1, <2>2 DEF Buffers, R!CkType
<1>8. somebytes' = [somebytes EXCEPT ![f] = DigestNumber(R!CkType(type), chk.input)]
  <2>1. somebytes' = [g \in Files |-> BigEndian(m_somebytes'[g])]
    BY <1>5 DEF somebytes
  <2>2. BigEndian(m_somebytes'[f]) = DigestNumber(R!CkType(type), chk.input)
    BY <1>1, <1>2, <1>4 DEF DigestNumber
  <2>3. \A g \in Files \ {f} : BigEndian(m_somebytes'[g]) = somebytes[g]
    <3>1. \A g \in Files \ {f} : m_somebytes'[g] = m_somebytes[g]
      BY <1>2, <1>4
    <3>2. \A g \in Files \ {f} : somebytes[g] = BigEndian(m_somebytes[g])
      BY DEF somebytes
    <3> QED
      BY <3>1, <3>2
  <2>4. somebytes \in [Files -> {somebytes[g] : g \in Files}]
    BY DEF somebytes
  <2> HIDE DEF f
  <2> QED
    BY <1>1, <2>1, <2>2, <2>3, <2>4
<1>9. CASE f1.mixed
  <2>1. R!Fill(f, [somebytes EXCEPT ![f] = DigestNumber(R!CkType(type), chk.input)], faulted)
    BY <1>1, <1>3, <1>4, <1>8, <1>9 DEF R!Fill
  <2>2. R!FillMixes(f)
    BY <1>3, <1>9, <2>1 DEF R!FillMixes
  <2> QED
    BY <1>1, <1>5, <1>7, <2>2, NothingOpenAnyMore DEF R!Next, R!System
<1>10. ASSUME ~f1.mixed
       PROVE  /\ f1.pos \in R!ReadFrom(f) - 1 .. R!ReadUpto(f)
              /\ chk.input = SubSeq(R!Content(f), R!ReadFrom(f), f1.pos)
              /\ f1.fault => f1.pos < R!ReadUpto(f)
              /\ ~f1.fault => f1.pos = R!ReadUpto(f)
  BY <1>4, <1>10 DEF FInv, Undisturbed
<1>11. CASE ~f1.mixed /\ ~f1.fault
  <2>1. R!Fill(f, [somebytes EXCEPT ![f] =
                     DigestNumber(R!CkType(type),
                                  SubSeq(R!Content(f), R!ReadFrom(f), R!ReadUpto(f)))], faulted)
    BY <1>1, <1>3, <1>4, <1>8, <1>10, <1>11 DEF R!Fill
  <2>2. R!FillReads(f)
    BY <1>3, <2>1 DEF R!FillReads
  <2> QED
    BY <1>1, <1>5, <1>7, <2>2, NothingOpenAnyMore DEF R!Next, R!System
<1>12. CASE ~f1.mixed /\ f1.fault
  <2>1. R!Fill(f, [somebytes EXCEPT ![f] =
                     DigestNumber(R!CkType(type),
                                  SubSeq(R!Content(f), R!ReadFrom(f), f1.pos))],
               faulted \cup {info[f].inode})
    BY <1>1, <1>3, <1>4, <1>8, <1>10, <1>12 DEF R!Fill
  <2>2. f1.pos \in R!ReadFrom(f) - 1 .. R!ReadUpto(f) - 1
    BY <1>1, <1>10, <1>12
  <2>3. R!FillReadFails(f)
    BY <1>3, <1>12, <2>1, <2>2 DEF R!FillReadFails
  <2> QED
    BY <1>1, <1>5, <1>7, <2>3, NothingOpenAnyMore DEF R!Next, R!System
<1> QED
  BY <1>9, <1>11, <1>12

LEMMA RewriteStep ==
  ASSUME FInv, NEW i \in Inodes, Rewrite(i)
  PROVE  R!Next /\ Buffers' /\ Loop' /\ Undisturbed'
<1>1. R!Next
  BY DEF Rewrite, R!Next
<1>2. /\ UNCHANGED <<m_somebytes, chk, options, info, size, m_list, pc, type, lasttype, unread>>
      /\ touched' = touched \cup {i}
  BY DEF Rewrite, R!Rewrite
<1>3. Buffers'
  BY <1>2 DEF FInv, Buffers, R!CkType
<1>4. CASE ~Reading
  BY <1>1, <1>3, <1>4, StillNothingOpen DEF Rewrite
<1>5. CASE Reading
  <2> DEFINE f == f1.elem
  <2>1. f1 \in OpenFiles /\ f \in Files
    BY <1>5, OpenFile
  <2>2. /\ pc = "fill" /\ R!NextToRead(f) /\ ~R!AlreadyChecksummed(f)
        /\ f1.read_entire_file = R!ReadsEntireFile(f)
        /\ m_somebytes[f] = ZeroBytes
        /\ chk.input \in Seq(R!Bytes) /\ chk.input \in R!Mixtures /\ Len(chk.input) <= f1.pos
        /\ f1.mixed => info[f].inode \in touched
        /\ f1.fault => ReadsMayFail /\ ~f1.good
    BY <1>5 DEF FInv, Loop
  <2>3. CASE info[f].inode = i
    <3>1. f1' = [f1 EXCEPT !.mixed = TRUE]
      BY <1>5, <2>3 DEF Rewrite
    <3>2. /\ f1' \in OpenFiles /\ f1'.elem = f /\ f1'.pos = f1.pos
          /\ f1'.read_entire_file = f1.read_entire_file
          /\ f1'.mixed /\ f1'.fault = f1.fault /\ f1'.good = f1.good
      BY <2>1, <3>1 DEF OpenFiles
    <3>3. /\ R!NextToRead(f)' = R!NextToRead(f)
          /\ R!AlreadyChecksummed(f)' = R!AlreadyChecksummed(f)
          /\ R!ReadsEntireFile(f)' = R!ReadsEntireFile(f)
      BY <1>2, <3>2 DEF R!NextToRead, R!AlreadyChecksummed, R!ReadsEntireFile, R!CkType
    <3>4. Loop'
      BY <1>2, <2>2, <2>3, <3>2, <3>3 DEF Loop
    <3>5. Undisturbed'
      BY <3>2 DEF Undisturbed
    <3> QED
      BY <1>1, <1>3, <3>4, <3>5
  <2>4. CASE info[f].inode # i
    <3>1. f1' = f1
      BY <2>4 DEF Rewrite
    <3>2. R!Content(f)' = R!Content(f)
      <4>1. data \in [Inodes -> Contents] /\ info[f].inode \in Inodes
        BY <2>1, Types
      <4>2. PICK c \in Contents : data' = [data EXCEPT ![i] = c]
        BY DEF Rewrite, R!Rewrite
      <4> QED
        BY <1>2, <2>4, <3>1, <4>1, <4>2 DEF R!Content
    <3>3. /\ R!NextToRead(f)' = R!NextToRead(f)
          /\ R!AlreadyChecksummed(f)' = R!AlreadyChecksummed(f)
          /\ R!ReadsEntireFile(f)' = R!ReadsEntireFile(f)
          /\ BytesAskedFor' = BytesAskedFor
      BY <1>2, <3>1 DEF R!NextToRead, R!AlreadyChecksummed, R!ReadsEntireFile, R!CkType,
                        BytesAskedFor
    <3>4. /\ R!ReadFrom(f)' = R!ReadFrom(f) /\ R!ReadUpto(f)' = R!ReadUpto(f)
          /\ SeekFails(f)' = SeekFails(f)
      BY <1>2, <3>1, <3>2, <3>3 DEF R!ReadFrom, R!ReadUpto, SeekFails
    <3>5. GoesOn' = GoesOn
      BY <3>1 DEF GoesOn
    <3>6. Loop'
      BY <1>2, <2>1, <2>2, <3>1, <3>3 DEF Loop
    <3>7. Undisturbed'
      BY <1>2, <1>5, <3>1, <3>2, <3>3, <3>4, <3>5 DEF FInv, Undisturbed
    <3> QED
      BY <1>1, <1>3, <3>6, <3>7
  <2> QED
    BY <2>3, <2>4
<1> QED
  BY <1>4, <1>5

(* Every step is one of Rdutil or leaves what it sees alone.                *)
LEMMA NextFInv ==
  ASSUME FInv, [Next]_vars
  PROVE  [P!Next]_P!vars /\ FInv'
<1>1. ASSUME R!Next \/ UNCHANGED R!vars, Buffers', Loop', Undisturbed'
      PROVE  [P!Next]_P!vars /\ FInv'
  <2>1. [P!Next]_P!vars
    BY <1>1, SameNext DEF R!vars, P!vars
  <2>2. P!TypeOK' /\ P!Bookkeeping'
    BY <2>1, RdutilStep DEF FInv
  <2> QED
    BY <1>1, <2>1, <2>2 DEF FInv
<1>2. CASE MarkItems \/ RemoveIdenticalInodes \/ RemoveUniqueSizes
           \/ RemoveUniqSizeAndBuffer \/ MarkDuplicates
  BY <1>1, <1>2, StageStep DEF MarkItems, RemoveIdenticalInodes, RemoveUniqueSizes,
       RemoveUniqSizeAndBuffer, MarkDuplicates
<1>3. CASE StartFill
  BY <1>1, <1>3, StartFillStep
<1>4. ASSUME NEW f \in Files, Skip(f) \/ OpenFails(f) \/ Open(f)
      PROVE  [P!Next]_P!vars /\ FInv'
  BY <1>1, <1>4, NotReadStep, OpenStep
<1>5. CASE ReadChunk
  <2>1. Reading /\ GoesOn /\ Advance(Least(Wanted, Available), FALSE)
    BY <1>5 DEF ReadChunk
  <2>2. Least(Wanted, Available) \in Nat
    BY <2>1, ChunkBounds
  <2> QED
    BY <1>1, <2>1, <2>2, AdvanceStep
<1>6. CASE ReadFails
  <2>1. PICK got \in 0 .. Least(Wanted, Available) - 1 : Advance(got, TRUE)
    BY <1>6 DEF ReadFails
  <2>2. ReadsMayFail /\ Reading /\ GoesOn
    BY <1>6 DEF ReadFails
  <2>3. got \in Nat /\ got < Least(Wanted, Available)
    BY <2>2, ChunkBounds
  <2> QED
    BY <1>1, <2>1, <2>2, <2>3, AdvanceStep
<1>7. CASE Finish
  BY <1>1, <1>7, FinishStep
<1>8. ASSUME NEW i \in Inodes, Rewrite(i)
      PROVE  [P!Next]_P!vars /\ FInv'
  BY <1>1, <1>8, RewriteStep
<1>9. CASE UNCHANGED vars
  <2>1. UNCHANGED R!vars
    BY <1>9, Unnoticed DEF vars, program, somebytes, Reading
  <2>2. Buffers'
    BY <1>9 DEF FInv, Buffers, vars, program, R!CkType
  <2>3. Loop'
    BY <1>9 DEF FInv, Loop, vars, program, Reading, R!NextToRead, R!AlreadyChecksummed,
         R!ReadsEntireFile, R!CkType
  <2>4. Undisturbed'
    BY <1>9 DEF FInv, Undisturbed, vars, program, Reading, GoesOn, R!ReadFrom, R!ReadUpto,
         R!Content, R!ReadsEntireFile, SeekFails, BytesAskedFor
  <2> QED
    BY <1>1, <2>1, <2>2, <2>3, <2>4
<1> QED
  BY <1>2, <1>3, <1>4, <1>5, <1>6, <1>7, <1>8, <1>9 DEF Next, System, Done

LEMMA Inductive == Spec => []FInv
<1>1. Init => FInv
  BY InitFInv
<1>2. FInv /\ [Next]_vars => FInv'
  BY NextFInv
<1> QED
  BY <1>1, <1>2, PTL DEF Spec

-----------------------------------------------------------------------------
(* What a file is read into and from always has its type: the position and  *)
(* the countdown of the loop stay natural numbers, the parts of a digest    *)
(* below their bound, and the file that is open is one still to be read.    *)
THEOREM TypeCorrect == Spec => []TypeOK
<1>1. FInv => TypeOK
  <2> SUFFICES ASSUME FInv
               PROVE  TypeOK
    OBVIOUS
  <2>1. R!TypeOK
    BY SameTypeOK DEF FInv
  <2>2. Buffers
    BY DEF FInv
  <2>3. DOMAIN chk = {"type", "input"} /\ chk.type \in R!ChecksumTypes /\ chk.input \in Seq(Nat)
    BY <2>2 DEF Buffers
  <2>4. ASSUME Reading
        PROVE  /\ pc = "fill" /\ f1.elem \in unread
               /\ f1.pos \in Nat /\ f1.bytes_to_read \in Nat
               /\ {f1.good, f1.read_entire_file, f1.fault, f1.mixed} \subseteq BOOLEAN
               /\ f1.kept \in [Parts -> 0 .. HashBound - 1]
    <3>1. f1 \in OpenFiles /\ pc = "fill" /\ R!NextToRead(f1.elem)
      BY <2>4 DEF FInv, Loop
    <3>2. f1.elem \in unread
      BY <3>1 DEF R!NextToRead
    <3> QED
      BY <3>1, <3>2 DEF OpenFiles
  <2> QED
    BY <2>1, <2>2, <2>3, <2>4 DEF TypeOK, Buffers
<1> QED
  BY <1>1, Inductive, PTL

(* The common checksum has seen exactly the bytes that were read from the   *)
(* open file: nothing is left in it of the file before, no chunk is missed, *)
(* counted twice or read too far, and the loop ends when all is read.       *)
THEOREM ChecksumSeesTheFile == Spec => []ChecksumHasSeenTheBytesRead
<1>1. FInv => ChecksumHasSeenTheBytesRead
  <2> SUFFICES ASSUME FInv, Reading
               PROVE  /\ m_somebytes[f1.elem] = ZeroBytes
                      /\ chk.type = R!CkType(type)
                      /\ ~f1.mixed =>
                           /\ chk.input = SubSeq(R!Content(f1.elem), R!ReadFrom(f1.elem), f1.pos)
                           /\ f1.pos <= R!ReadUpto(f1.elem)
                           /\ ~f1.read_entire_file =>
                                f1.bytes_to_read + f1.pos
                                  = R!ReadFrom(f1.elem) - 1 + Stream(f1.elem).bytes_to_read
                           /\ ~GoesOn /\ ~f1.fault => f1.pos = R!ReadUpto(f1.elem)
    BY DEF ChecksumHasSeenTheBytesRead
  <2>1. m_somebytes[f1.elem] = ZeroBytes /\ chk.type = R!CkType(type)
    BY DEF FInv, Loop, Buffers
  <2> SUFFICES ASSUME ~f1.mixed
               PROVE  /\ chk.input = SubSeq(R!Content(f1.elem), R!ReadFrom(f1.elem), f1.pos)
                      /\ f1.pos <= R!ReadUpto(f1.elem)
                      /\ ~f1.read_entire_file =>
                           f1.bytes_to_read + f1.pos
                             = R!ReadFrom(f1.elem) - 1 + Stream(f1.elem).bytes_to_read
                      /\ ~GoesOn /\ ~f1.fault => f1.pos = R!ReadUpto(f1.elem)
    BY <2>1
  <2>2. /\ f1.pos \in R!ReadFrom(f1.elem) - 1 .. R!ReadUpto(f1.elem)
        /\ chk.input = SubSeq(R!Content(f1.elem), R!ReadFrom(f1.elem), f1.pos)
        /\ ~f1.read_entire_file =>
             f1.bytes_to_read + f1.pos = R!ReadFrom(f1.elem) - 1 + BytesAskedFor
        /\ ~GoesOn /\ ~f1.fault => f1.pos = R!ReadUpto(f1.elem)
    BY DEF FInv, Undisturbed
  <2>3. ~f1.read_entire_file => Stream(f1.elem).bytes_to_read = BytesAskedFor
    <3>1. f1.read_entire_file <=> R!ReadsEntireFile(f1.elem)
      BY OpenFile
    <3>2. ~R!ReadsEntireFile(f1.elem) => type = R!READ_FIRST_BYTES \/ type = R!READ_LAST_BYTES
      BY DEF R!ReadsEntireFile
    <3> QED
      BY <3>1, <3>2 DEF Stream, BytesAskedFor, R!READ_FIRST_BYTES, R!READ_LAST_BYTES
  <2>4. f1.pos <= R!ReadUpto(f1.elem)
    BY <2>2, OpenFile
  <2> QED
    BY <2>2, <2>3, <2>4
<1> QED
  BY <1>1, Inductive, PTL

(* Reading chunk by chunk, with one checksum for all files and one buffer   *)
(* per file, implements the reading of whole files in one step, so that     *)
(* what is proved of Rdutil holds of the program that reads in chunks.      *)
LEMMA ImplementsP == Spec => P!Spec
<1>1. Init => P!Init
  BY InitFInv
<1>2. FInv /\ [Next]_vars => [P!Next]_P!vars
  BY NextFInv
<1> QED
  BY <1>1, <1>2, Inductive, PTL DEF Spec, P!Spec

THEOREM Implements == Spec => ImplementsRdutil
BY ImplementsP, SameSpec DEF ImplementsRdutil

(* What is carried over speaks of the same operators. *)
LEMMA SameProperties ==
  /\ R!EqualFilesAreFound <=> P!EqualFilesAreFound
  /\ R!DuplicatesAreEqual <=> P!DuplicatesAreEqual
  /\ R!OriginalIsHighestRanked <=> P!OriginalIsHighestRanked
BY DEF R!EqualFilesAreFound, P!EqualFilesAreFound, R!DuplicatesAreEqual, P!DuplicatesAreEqual,
   R!OriginalIsHighestRanked, P!OriginalIsHighestRanked,
   R!Represents, P!Represents, R!Clean, P!Clean, R!Content, P!Content, R!Listed, P!Listed,
   R!SameGroup, P!SameGroup, R!Abs, P!Abs, R!SameInode, P!SameInode,
   R!Outranks, P!Outranks, R!ScanOrder, P!ScanOrder

(* Carried over: however the files are cut into chunks, equal files whose   *)
(* reading nothing disturbed are found and end in one group.                *)
THEOREM ChunksFindEqualFiles == Spec => []R!EqualFilesAreFound
<1>1. P!Spec => []P!EqualFilesAreFound
  BY FilesFact, InodesAssumption, ContentsAssumption, RankAssumption, OptionsFact, DigestFact,
     P!Completeness, Zenon
<1> QED
  BY <1>1, ImplementsP, SameProperties, PTL

(* Carried over: the original of a group is the highest ranked file.        *)
THEOREM ChunksKeepRanking == Spec => []R!OriginalIsHighestRanked
<1>1. P!Spec => []P!OriginalIsHighestRanked
  BY FilesFact, InodesAssumption, ContentsAssumption, RankAssumption, OptionsFact, DigestFact,
     P!Ranking, Zenon
<1> QED
  BY <1>1, ImplementsP, SameProperties, PTL

-----------------------------------------------------------------------------
(* The number a buffer stands for tells buffers apart: memcmp.              *)
Joined(a, c) == a * HashBound + c

LEMMA JoinedType ==
  ASSUME NEW a \in Nat, NEW c \in 0 .. HashBound - 1
  PROVE  Joined(a, c) \in Nat
<1>1. HashBound \in Nat /\ c \in Nat
  BY HashBoundAssumption
<1> QED
  BY <1>1, NaturalPolynomial DEF Joined

LEMMA JoinedIsInjective ==
  ASSUME NEW a \in Nat, NEW b \in Nat,
         NEW c \in 0 .. HashBound - 1, NEW d \in 0 .. HashBound - 1,
         Joined(a, c) = Joined(b, d)
  PROVE  a = b /\ c = d
<1> DEFINE h == HashBound
<1>1. h \in Nat \ {0}
  BY HashBoundAssumption
<1>2. a * h + c = b * h + d
  BY DEF Joined
<1> HIDE DEF h
<1>3. ASSUME NEW x \in Nat, NEW y \in Nat, x < y
      PROVE  x * h + h <= y * h
  <2>1. y - x - 1 \in Nat
    BY <1>3
  <2>2. (y - x - 1) * h + 0 \in Nat
    BY <1>1, <2>1, NaturalPolynomial
  <2>3. y * h = (y - x - 1) * h + x * h + h
    BY <1>1
  <2>4. x * h + 0 \in Nat /\ y * h + 0 \in Nat
    BY <1>1, NaturalPolynomial
  <2> QED
    BY <1>1, <2>2, <2>3, <2>4
<1>4. a * h + 0 \in Nat /\ b * h + 0 \in Nat
  BY <1>1, NaturalPolynomial
<1>5. c \in 0 .. h - 1 /\ d \in 0 .. h - 1
  BY DEF h
<1>6. ~(a < b)
  <2>1. a < b => a * h + h <= b * h
    BY <1>3
  <2> QED
    BY <1>1, <1>2, <1>4, <1>5, <2>1
<1>7. ~(b < a)
  <2>1. b < a => b * h + h <= a * h
    BY <1>3
  <2> QED
    BY <1>1, <1>2, <1>4, <1>5, <2>1
<1>8. a = b
  BY <1>6, <1>7
<1> QED
  BY <1>1, <1>2, <1>4, <1>5, <1>8

LEMMA BigEndianIsInjective ==
  ASSUME NEW s \in [Parts -> 0 .. HashBound - 1], NEW t \in [Parts -> 0 .. HashBound - 1],
         BigEndian(s) = BigEndian(t)
  PROVE  s = t
<1> DEFINE two(b) == Joined(b[1], b[2])
<1> DEFINE three(b) == Joined(two(b), b[3])
<1>1. ASSUME NEW b \in [Parts -> 0 .. HashBound - 1]
      PROVE  /\ b[1] \in 0 .. HashBound - 1 /\ b[2] \in 0 .. HashBound - 1
             /\ b[3] \in 0 .. HashBound - 1 /\ b[4] \in 0 .. HashBound - 1
             /\ b[1] \in Nat /\ two(b) \in Nat /\ three(b) \in Nat
             /\ BigEndian(b) = Joined(three(b), b[4])
  <2>1. /\ b[1] \in 0 .. HashBound - 1 /\ b[2] \in 0 .. HashBound - 1
        /\ b[3] \in 0 .. HashBound - 1 /\ b[4] \in 0 .. HashBound - 1
    BY DEF Parts
  <2>2. b[1] \in Nat
    BY <2>1, HashBoundAssumption
  <2>3. two(b) \in Nat
    BY <2>1, <2>2, JoinedType
  <2> HIDE DEF two
  <2>4. three(b) \in Nat
    BY <2>1, <2>3, JoinedType
  <2>5. BigEndian(b) = Joined(three(b), b[4])
    BY DEF BigEndian, Joined, two
  <2> QED
    BY <2>1, <2>2, <2>3, <2>4, <2>5
<1> HIDE DEF three
<1>2. three(s) = three(t) /\ s[4] = t[4]
  BY <1>1, JoinedIsInjective
<1> HIDE DEF two
<1>3. two(s) = two(t) /\ s[3] = t[3]
  BY <1>1, <1>2, JoinedIsInjective DEF three
<1>4. s[1] = t[1] /\ s[2] = t[2]
  BY <1>1, <1>3, JoinedIsInjective DEF two
<1>5. \A p \in Parts : s[p] = t[p]
  BY <1>2, <1>3, <1>4 DEF Parts
<1> QED
  BY <1>5

(* A hash that never confuses two pieces of a file, in the part of it that  *)
(* is as long as a digest of its type.                                      *)
HashIsCollisionFree ==
  \A t \in R!ChecksumTypes, a, b \in R!Slices :
    (\A p \in 1 .. DigestLength(t) : Hash(t, a, p) = Hash(t, b, p)) => a = b

LEMMA DigestsAreCollisionFree == HashIsCollisionFree => P!CollisionFree
<1> SUFFICES ASSUME HashIsCollisionFree,
                    NEW t \in R!ChecksumTypes, NEW a \in R!Slices, NEW b \in R!Slices,
                    DigestNumber(t, a) = DigestNumber(t, b)
             PROVE  a = b
  BY SameConstants DEF P!CollisionFree
<1>1. Printed(ZeroBytes, t, a) = Printed(ZeroBytes, t, b)
  BY ZeroBytesType, PrintedType, BigEndianIsInjective DEF DigestNumber
<1>2. DigestLength(t) \in Parts
  BY DEF DigestLength, Parts
<1>3. \A p \in 1 .. DigestLength(t) : Hash(t, a, p) = Hash(t, b, p)
  <2>1. ASSUME NEW p \in 1 .. DigestLength(t)
        PROVE  Hash(t, a, p) = Hash(t, b, p)
    <3>1. p \in Parts /\ p <= DigestLength(t)
      BY <1>2 DEF Parts
    <3>2. \A x : Printed(ZeroBytes, t, x)[p] = Hash(t, x, p)
      BY <3>1 DEF Printed
    <3> QED
      BY <1>1, <3>2
  <2> QED
    BY <2>1
<1> QED
  BY <1>3 DEF HashIsCollisionFree

(* Carried over: when the hash tells pieces of files apart, what comes out  *)
(* as duplicates has equal content, although all digests go to buffers of   *)
(* the same 64 bytes, whatever the length of the one before.                *)
THEOREM ChunksFindOnlyEqualFiles ==
  ASSUME HashIsCollisionFree
  PROVE  Spec => []R!DuplicatesAreEqual
<1>1. P!CollisionFree
  BY DigestsAreCollisionFree
<1>2. P!Spec => []P!DuplicatesAreEqual
  BY <1>1, FilesFact, InodesAssumption, ContentsAssumption, RankAssumption, OptionsFact,
     DigestFact, P!Soundness, Zenon
<1> QED
  BY <1>2, ImplementsP, SameProperties, PTL
=============================================================================
