------------------------------ MODULE FillBytes ------------------------------
(***************************************************************************)
(* The reading that Rdutil takes as one step per file, call by call:       *)
(* Fileinfo::fillwithbytes opens a file, reads it in chunks of the size of *)
(* the common buffer into one Checksum object, which all files of a stage  *)
(* share, and prints the digest over the first bytes of m_somebytes. Files *)
(* may be rewritten between two chunks. The rest of the program is Rdutil, *)
(* which this specification implements.                                    *)
(***************************************************************************)
EXTENDS Integers, Sequences, FiniteSets

CONSTANTS
  Files, Inodes, Contents, CmdlineIndexes, Depths, OptionSets,
  ReadsMayFail, MaxTouched,          \* as in Rdutil
  BufferSize,       \* options.buffersize, how much is read at a time
  Hash(_, _, _),    \* part p of the digest of type t of a sequence of bytes
  HashBound         \* above every part of a digest

ASSUME BufferSizeAssumption == BufferSize \in Nat \ {0}
ASSUME HashBoundAssumption == HashBound \in Nat \ {0}
ASSUME FilesAssumption == IsFiniteSet(Files)
ASSUME InodesAssumption == Inodes \subseteq Nat \X Nat
ASSUME ContentsAssumption == \A c \in Contents : c \in Seq(Nat)
ASSUME RankAssumption == CmdlineIndexes \subseteq Nat /\ Depths \subseteq Nat

VARIABLES
  options, info, size, data, m_list, identity, duptype, pc,
  type, lasttype, unread, faulted, touched,     \* as in Rdutil
  m_somebytes,      \* Fileinfo::m_somebytes of each entry
  chk,              \* the Checksum object of the stage: its type and its input
  f1                \* the open stream and the locals of fillwithbytes

program == <<options, info, size, data, m_list, identity, duptype, pc,
             type, lasttype>>
vars == <<program, unread, faulted, touched, m_somebytes, chk, f1>>

-----------------------------------------------------------------------------
(* Checksums. The 64 bytes of m_somebytes are four parts, which end where   *)
(* digests do: 16 bytes of MD5 and XXH128, 20 of SHA1, 32 of SHA256, 64 of  *)
(* SHA512.                                                                  *)
Parts == 1 .. 4
SHA1 == 2
SHA256 == 3
SHA512 == 4
XXH128 == 5

DigestLength(t) ==
  CASE t = SHA1 -> 2 [] t = SHA256 -> 3 [] t = SHA512 -> 4 [] OTHER -> 1

ZeroBytes == [p \in Parts |-> 0]

(* printToBuffer writes no further than the digest is long. *)
Printed(bytes, t, input) ==
  [p \in Parts |-> IF p <= DigestLength(t) THEN Hash(t, input, p) ELSE bytes[p]]

Fresh(t) == [type |-> t, input |-> <<>>]
Updated(c, bytes) == [c EXCEPT !.input = @ \o bytes]

(* Nettle's digest functions start the context over, XXH3's does not. *)
AfterDigest(c) == IF c.type = XXH128 THEN c ELSE Fresh(c.type)

(* memcmp compares buffers like big-endian numbers. *)
BigEndian(bytes) ==
  ((bytes[1] * HashBound + bytes[2]) * HashBound + bytes[3]) * HashBound + bytes[4]

DigestNumber(t, input) == BigEndian(Printed(ZeroBytes, t, input))

-----------------------------------------------------------------------------
NoFile == [elem |-> "none"]
Reading == f1 # NoFile

(* A file that is being read counts as not read yet. *)
somebytes ==
  [f \in Files |-> BigEndian(IF Reading /\ f1.elem = f THEN f1.kept ELSE m_somebytes[f])]

R == INSTANCE Rdutil WITH Digest <- DigestNumber

ASSUME OptionsAssumption ==
  OptionSets \subseteq [remove_identical_inode : BOOLEAN,
                        first_bytes_size : Nat, last_bytes_size : Nat,
                        checksums : SUBSET R!ChecksumModes,
                        checksum_for_firstlast_bytes : R!ChecksumTypes]
ASSUME HashAssumption ==
  \A t \in R!ChecksumTypes, b \in R!Slices \cup R!Mixtures, p \in Parts :
    Hash(t, b, p) \in 0 .. HashBound - 1

Init ==
  /\ m_somebytes = [f \in Files |-> ZeroBytes]
  /\ chk = Fresh(SHA1)
  /\ f1 = NoFile
  /\ R!Init

Elsewhere == UNCHANGED <<m_somebytes, chk, f1>>

(* The stages, which leave the buffers alone. *)
MarkItems == Elsewhere /\ R!MarkItems
RemoveIdenticalInodes == Elsewhere /\ R!RemoveIdenticalInodes
RemoveUniqueSizes == Elsewhere /\ R!RemoveUniqueSizes
RemoveUniqSizeAndBuffer == Elsewhere /\ R!RemoveUniqSizeAndBuffer
MarkDuplicates == Elsewhere /\ R!MarkDuplicates

(* one Checksum for all files of the stage *)
StartFill ==
  /\ UNCHANGED <<m_somebytes, f1>>
  /\ R!StartFill
  /\ chk' = Fresh(R!CkType(type'))

AtFile(f) == pc = "fill" /\ ~Reading /\ R!NextToRead(f)

Skip(f) == AtFile(f) /\ Elsewhere /\ R!FillSkips(f)
OpenFails(f) == AtFile(f) /\ Elsewhere /\ R!FillOpenFails(f)

(* seekg() to before the start fails, and the stream with it. *)
SeekFails(f) ==
  /\ type = R!READ_LAST_BYTES /\ ~R!ReadsEntireFile(f)
  /\ Len(R!Content(f)) < options.last_bytes_size

Stream(f) ==
  [elem |-> f,
   pos |-> R!ReadFrom(f) - 1,
   good |-> ~SeekFails(f),
   read_entire_file |-> R!ReadsEntireFile(f),
   bytes_to_read |-> CASE type = R!READ_FIRST_BYTES -> options.first_bytes_size
                       [] type = R!READ_LAST_BYTES -> options.last_bytes_size
                       [] OTHER -> 0,
   kept |-> m_somebytes[f],        \* history: what m_somebytes was
   fault |-> FALSE,                \* history: a read failed
   mixed |-> FALSE]                \* history: the file was rewritten meanwhile

(* Faulty: the checksum is not reset. *)
OpenWithoutReset(f) ==
  /\ AtFile(f) /\ ~R!AlreadyChecksummed(f)
  /\ f1' = Stream(f)
  /\ m_somebytes' = [m_somebytes EXCEPT ![f] = ZeroBytes]
  /\ UNCHANGED <<program, unread, faulted, touched, chk>>

(* Open, seek, set m_somebytes to zero and reset the checksum. *)
Open(f) ==
  /\ AtFile(f) /\ ~R!AlreadyChecksummed(f)
  /\ f1' = Stream(f)
  /\ m_somebytes' = [m_somebytes EXCEPT ![f] = ZeroBytes]
  /\ chk' = Fresh(chk.type)
  /\ UNCHANGED <<program, unread, faulted, touched>>

(* Faulty: the loop goes on when nothing is left to read. *)
GoesOnAtZero == f1.good /\ (f1.read_entire_file \/ f1.bytes_to_read >= 0)

(* the condition of the loop *)
GoesOn == f1.good /\ (f1.read_entire_file \/ f1.bytes_to_read > 0)

Least(a, b) == IF a <= b THEN a ELSE b
Wanted == IF f1.read_entire_file THEN BufferSize ELSE Least(BufferSize, f1.bytes_to_read)
Available == IF f1.pos <= Len(R!Content(f1.elem)) THEN Len(R!Content(f1.elem)) - f1.pos ELSE 0

(* Faulty: the bytes asked for are counted, not those that came. *)
AdvanceByWanted(got, fails) ==
  /\ f1' = [f1 EXCEPT !.pos = @ + got,
                      !.good = (got = Wanted),
                      !.bytes_to_read = IF f1.read_entire_file THEN @ ELSE @ - Wanted,
                      !.fault = fails]
  /\ chk' = Updated(chk, SubSeq(R!Content(f1.elem), f1.pos + 1, f1.pos + got))
  /\ UNCHANGED <<program, unread, faulted, touched, m_somebytes>>

(* read() sets the stream bad when it gets less than it wants. *)
Advance(got, fails) ==
  /\ f1' = [f1 EXCEPT !.pos = @ + got,
                      !.good = (got = Wanted),
                      !.bytes_to_read = IF f1.read_entire_file THEN @ ELSE @ - got,
                      !.fault = fails]
  /\ chk' = Updated(chk, SubSeq(R!Content(f1.elem), f1.pos + 1, f1.pos + got))
  /\ UNCHANGED <<program, unread, faulted, touched, m_somebytes>>

ReadChunk == Reading /\ GoesOn /\ Advance(Least(Wanted, Available), FALSE)

ReadFails ==
  /\ ReadsMayFail /\ Reading /\ GoesOn
  /\ \E got \in 0 .. Least(Wanted, Available) - 1 : Advance(got, TRUE)

(* Faulty: the stream stays open for the next file. *)
FinishWithoutClosing ==
  /\ Reading /\ ~GoesOn
  /\ m_somebytes' = [m_somebytes EXCEPT ![f1.elem] = Printed(@, chk.type, chk.input)]
  /\ chk' = AfterDigest(chk)
  /\ unread' = unread \ {f1.elem}
  /\ faulted' = IF f1.fault /\ ~f1.mixed THEN faulted \cup {info[f1.elem].inode} ELSE faulted
  /\ UNCHANGED <<program, touched, f1>>

(* Print the digest and close the file. *)
Finish ==
  /\ Reading /\ ~GoesOn
  /\ m_somebytes' = [m_somebytes EXCEPT ![f1.elem] = Printed(@, chk.type, chk.input)]
  /\ chk' = AfterDigest(chk)
  /\ f1' = NoFile
  /\ unread' = unread \ {f1.elem}
  /\ faulted' = IF f1.fault /\ ~f1.mixed THEN faulted \cup {info[f1.elem].inode} ELSE faulted
  /\ UNCHANGED <<program, touched>>

(* The user rewrites a file, perhaps the one that is open. *)
Rewrite(i) ==
  /\ f1' = IF Reading /\ info[f1.elem].inode = i THEN [f1 EXCEPT !.mixed = TRUE] ELSE f1
  /\ UNCHANGED <<m_somebytes, chk>>
  /\ R!Rewrite(i)

Done == pc = "done" /\ UNCHANGED vars

System ==
  \/ MarkItems \/ RemoveIdenticalInodes \/ RemoveUniqueSizes \/ StartFill
  \/ \E f \in Files : Skip(f) \/ OpenFails(f) \/ Open(f)
  \/ ReadChunk \/ ReadFails \/ Finish
  \/ RemoveUniqSizeAndBuffer \/ MarkDuplicates

Next == System \/ (\E i \in Inodes : Rewrite(i)) \/ Done

Spec == Init /\ [][Next]_vars
FairSpec == Spec /\ WF_vars(System)

-----------------------------------------------------------------------------
TypeOK ==
  /\ R!TypeOK
  /\ m_somebytes \in [Files -> [Parts -> 0 .. HashBound - 1]]
  /\ DOMAIN chk = {"type", "input"} /\ chk.type \in R!ChecksumTypes
  /\ chk.input \in Seq(Nat)
  /\ Reading =>
       /\ pc = "fill" /\ f1.elem \in unread
       /\ f1.pos \in Nat /\ f1.bytes_to_read \in Nat
       /\ {f1.good, f1.read_entire_file, f1.fault, f1.mixed} \subseteq BOOLEAN
       /\ f1.kept \in [Parts -> 0 .. HashBound - 1]

(* While a file is read that nobody rewrites, the checksum has seen exactly *)
(* the bytes from where the stage starts in the file to the position of the *)
(* stream, never more than the stage stands for; the countdown says what is *)
(* left; and unless a read failed, the loop stops when all has been seen.   *)
ChecksumHasSeenTheBytesRead ==
  Reading =>
    /\ m_somebytes[f1.elem] = ZeroBytes
    /\ chk.type = R!CkType(type)
    /\ ~f1.mixed =>
         LET from == R!ReadFrom(f1.elem)
             upto == R!ReadUpto(f1.elem)
         IN  /\ chk.input = SubSeq(R!Content(f1.elem), from, f1.pos)
             /\ f1.pos <= upto
             /\ ~f1.read_entire_file =>
                  f1.bytes_to_read + f1.pos = from - 1 + Stream(f1.elem).bytes_to_read
             /\ ~GoesOn /\ ~f1.fault => f1.pos = upto

(* Reading in chunks, with one checksum and one buffer for all files, comes *)
(* to what Rdutil says of a whole file: every step of it is a step of       *)
(* Rdutil or none at all.                                                   *)
ImplementsRdutil == R!Spec

(* Every loop over the chunks of a file ends, and so does every stage.      *)
Termination == <>(pc = "done")
=============================================================================
