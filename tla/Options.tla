------------------------------- MODULE Options -------------------------------
(***************************************************************************)
(* The command line: class Parser is a cursor over the arguments,          *)
(* parseOptions moves it over the options and fills in struct Options, and *)
(* main() moves it on over the files and directories to scan. One action   *)
(* is one turn of one of these loops. Every usage error ends the program.  *)
(***************************************************************************)
EXTENDS Integers, Sequences, FiniteSets

CONSTANTS
  CommandLines,     \* what the program may be called with, without its name
  DashWords,        \* arguments with a dash first that are not known options
  NumberIn(_),      \* what std::stoll makes of an argument
  NotANumber,       \* its result when it throws
  MaxFileSize,      \* the largest Fileinfo::filesizetype
  HaveXxhash,       \* HAVE_LIBXXHASH
  Stripped(_)       \* an argument without trailing slashes

(* argument and member of struct Options *)
SwitchOptions ==
  {<<"-makesymlinks", "makesymlinks">>, <<"-makehardlinks", "makehardlinks">>,
   <<"-makeresultsfile", "makeresultsfile">>, <<"-deleteduplicates", "deleteduplicates">>,
   <<"-followsymlinks", "followsymlinks">>, <<"-dryrun", "dryrun">>, <<"-n", "dryrun">>,
   <<"-removeidentinode", "remove_identical_inode">>,
   <<"-deterministic", "deterministic">>, <<"-progress", "showprogress">>}
SizeOptions ==
  {<<"-minsize", "minimumfilesize">>, <<"-maxsize", "maximumfilesize">>,
   <<"-firstbytessize", "first_bytes_size">>, <<"-lastbytessize", "last_bytes_size">>}

Words(pairs) == {p[1] : p \in pairs}
BoolOptions == Words(SwitchOptions) \cup {"-ignoreempty"}
StringOptions == Words(SizeOptions) \cup {"-outputname", "-checksum", "-buffersize", "-sleep"}
Helps == {"-help", "-h", "--help", "-version", "--version", "-v"}
KnownOptions == BoolOptions \cup StringOptions \cup Helps

(* the milliseconds of each value that -sleep takes *)
SleepValues ==
  {<<"1ms", 1>>, <<"2ms", 2>>, <<"3ms", 3>>, <<"4ms", 4>>, <<"5ms", 5>>,
   <<"10ms", 10>>, <<"25ms", 25>>, <<"50ms", 50>>, <<"100ms", 100>>}
ChecksumNames ==
  {"md5", "sha1", "sha256", "sha512", "none"} \cup (IF HaveXxhash THEN {"xxh128"} ELSE {})
MiB == 1048576
MaxBufferSize == 128 * MiB

EXIT_SUCCESS == 0
EXIT_FAILURE == 1
ABORTED == 134      \* an exception nobody catches

ASSUME DashAssumption == DashWords \cap KnownOptions = {}
ASSUME NumberAssumption ==
  /\ NotANumber \notin Int
  /\ MaxFileSize \in Nat /\ MaxFileSize > 1
  /\ HaveXxhash \in BOOLEAN
ASSUME CommandLinesAssumption ==
  \A l \in CommandLines :
    /\ l \in Seq(STRING)
    /\ \A i \in DOMAIN l :
         LET n == NumberIn(l[i]) IN n = NotANumber \/ (n \in Int /\ n <= MaxFileSize)

VARIABLES
  argv,        \* the arguments after the program name
  m_index,     \* Parser::m_index
  o,           \* struct Options: the members that are on, and the others
  paths,       \* what main() has handed to walk, with its command line index
  pc,          \* the loop the program is in
  exit_status  \* -1 as long as it runs

vars == <<argv, m_index, o, paths, pc, exit_status>>

-----------------------------------------------------------------------------
Defaults ==
  [on |-> {"makeresultsfile", "remove_identical_inode", "deterministic"},
   minimumfilesize |-> 1, maximumfilesize |-> 0,
   first_bytes_size |-> 4096, last_bytes_size |-> 4096,
   checksums |-> {}, buffersize |-> MiB, msecsleep |-> 0, resultsfile |-> "results.txt"]

HasArgsLeft == m_index <= Len(argv)
Arg == argv[m_index]
StartsWithDash(arg) == arg \in KnownOptions \cup DashWords

Init ==
  /\ argv \in CommandLines
  /\ m_index = 1 /\ o = Defaults /\ paths = <<>>
  /\ pc = "options" /\ exit_status = -1

Exit(status) ==
  /\ pc' = "exited" /\ exit_status' = status
  /\ UNCHANGED <<argv, m_index, o, paths>>

(* Without any argument main() prints the usage and returns. *)
NoArguments == pc = "options" /\ argv = <<>> /\ Exit(EXIT_SUCCESS)

AtArgument == pc = "options" /\ HasArgsLeft

EmptyArgument == AtArgument /\ Arg = "" /\ Exit(EXIT_FAILURE)

ToVerification ==
  /\ pc' = "verify"
  /\ UNCHANGED <<argv, m_index, o, paths, exit_status>>

(* Faulty: any argument that is not a known option is taken for a path. *)
FirstPathOrUnknown ==
  /\ pc = "options" /\ argv # <<>>
  /\ HasArgsLeft => Arg # "" /\ Arg \notin KnownOptions
  /\ ToVerification

FirstPath ==
  /\ pc = "options" /\ argv # <<>>
  /\ HasArgsLeft => Arg # "" /\ ~StartsWithDash(Arg)
  /\ ToVerification

(* An option that takes a value is the last argument. *)
ValueMissing ==
  /\ AtArgument /\ Arg \in BoolOptions \cup StringOptions
  /\ m_index = Len(argv)
  /\ Exit(EXIT_FAILURE)

(* The option at the cursor is one of words and has a value: Parser moves   *)
(* to the value, the loop to the argument after it.                         *)
AtOption(words) == AtArgument /\ Arg \in words /\ m_index < Len(argv)
Value == argv[m_index + 1]

Accept(newOptions) ==
  /\ o' = newOptions
  /\ m_index' = m_index + 2
  /\ UNCHANGED <<argv, paths, pc, exit_status>>

NeitherTrueNorFalse ==
  /\ AtOption(BoolOptions)
  /\ Value \notin {"true", "false"}
  /\ Exit(EXIT_FAILURE)

(* Faulty: false does not take back an earlier true. *)
SwitchOn(p) ==
  /\ AtOption({p[1]}) /\ Value \in {"true", "false"}
  /\ Accept([o EXCEPT !.on = IF Value = "true" THEN @ \cup {p[2]} ELSE @])

Switch(p) ==
  /\ AtOption({p[1]}) /\ Value \in {"true", "false"}
  /\ Accept([o EXCEPT !.on = IF Value = "true" THEN @ \cup {p[2]} ELSE @ \ {p[2]}])

(* Faulty: std::min in place of std::max. *)
IgnoreEmptyTakesTheSmaller ==
  /\ AtOption({"-ignoreempty"}) /\ Value \in {"true", "false"}
  /\ Accept([o EXCEPT !.minimumfilesize =
               IF Value = "false" THEN 0 ELSE IF @ < 1 THEN @ ELSE 1])

(* true: max(1, what it is); false: 0 *)
IgnoreEmpty ==
  /\ AtOption({"-ignoreempty"}) /\ Value \in {"true", "false"}
  /\ Accept([o EXCEPT !.minimumfilesize =
               IF Value = "false" THEN 0 ELSE IF @ < 1 THEN 1 ELSE @])

SizeOption(p) ==
  /\ AtOption({p[1]})
  /\ NumberIn(Value) \in Nat
  /\ Accept([o EXCEPT ![p[2]] = NumberIn(Value)])

SizeThrows ==
  /\ AtOption(Words(SizeOptions))
  /\ NumberIn(Value) \notin Nat
  /\ Exit(ABORTED)

OutputName ==
  /\ AtOption({"-outputname"})
  /\ Accept([o EXCEPT !.resultsfile = Value])

ChecksumOption ==
  /\ AtOption({"-checksum"}) /\ Value \in ChecksumNames
  /\ Accept([o EXCEPT !.checksums = @ \cup {Value}])

BadChecksum ==
  /\ AtOption({"-checksum"}) /\ Value \notin ChecksumNames
  /\ Exit(EXIT_FAILURE)

(* Faulty: the maximum is not looked at. *)
BufferSizeWithoutMaximum ==
  /\ AtOption({"-buffersize"})
  /\ NumberIn(Value) \in Nat
  /\ Accept([o EXCEPT !.buffersize = NumberIn(Value)])

BufferSize ==
  /\ AtOption({"-buffersize"})
  /\ NumberIn(Value) \in 1 .. MaxBufferSize
  /\ Accept([o EXCEPT !.buffersize = NumberIn(Value)])

BadBufferSize ==
  /\ AtOption({"-buffersize"})
  /\ NumberIn(Value) \notin 1 .. MaxBufferSize
  /\ Exit(IF NumberIn(Value) = NotANumber THEN ABORTED ELSE EXIT_FAILURE)

Sleep(p) ==
  /\ AtOption({"-sleep"}) /\ Value = p[1]
  /\ Accept([o EXCEPT !.msecsleep = p[2]])

BadSleep ==
  /\ AtOption({"-sleep"}) /\ Value \notin Words(SleepValues)
  /\ Exit(EXIT_FAILURE)

Help == AtArgument /\ Arg \in Helps /\ Exit(EXIT_SUCCESS)

UnknownOption == AtArgument /\ Arg \in DashWords /\ Exit(EXIT_FAILURE)

(* Faulty: no default checksum. *)
FixedSizesOnly ==
  [o EXCEPT !.maximumfilesize = IF @ = 0 THEN MaxFileSize ELSE @,
            !.checksums = @]

(* "fix default values": no maximum is the largest one *)
Fixed ==
  [o EXCEPT !.maximumfilesize = IF @ = 0 THEN MaxFileSize ELSE @,
            !.checksums = IF @ = {} THEN {"sha1"} ELSE @]

Verify ==
  /\ pc = "verify" /\ o.minimumfilesize < Fixed.maximumfilesize
  /\ o' = Fixed
  /\ pc' = "paths"
  /\ UNCHANGED <<argv, m_index, paths, exit_status>>

SizesConflict ==
  /\ pc = "verify" /\ ~(o.minimumfilesize < Fixed.maximumfilesize)
  /\ Exit(EXIT_FAILURE)

(* the loop in main(), which also takes what starts with a dash *)
ScanPath ==
  /\ pc = "paths" /\ HasArgsLeft
  /\ paths' = Append(paths, <<m_index, Stripped(Arg)>>)
  /\ m_index' = m_index + 1
  /\ UNCHANGED <<argv, o, pc, exit_status>>

(* main() goes on with the stages of Rdutil *)
Scanned ==
  /\ pc = "paths" /\ ~HasArgsLeft
  /\ pc' = "scanned"
  /\ UNCHANGED <<argv, m_index, o, paths, exit_status>>

Stopped == pc \in {"exited", "scanned"} /\ UNCHANGED vars

ParseOption ==
  \/ \E p \in SwitchOptions : Switch(p)
  \/ \E p \in SizeOptions : SizeOption(p)
  \/ \E p \in SleepValues : Sleep(p)
  \/ IgnoreEmpty \/ OutputName \/ ChecksumOption \/ BufferSize

Refuse ==
  \/ EmptyArgument \/ ValueMissing \/ NeitherTrueNorFalse \/ SizeThrows
  \/ BadChecksum \/ BadBufferSize \/ BadSleep \/ UnknownOption \/ SizesConflict

System ==
  NoArguments \/ ParseOption \/ Refuse \/ Help \/ FirstPath \/ Verify \/ ScanPath \/ Scanned

Next == System \/ Stopped

Spec == Init /\ [][Next]_vars

-----------------------------------------------------------------------------
(* Vocabulary of the properties: what the command line says, read from the  *)
(* arguments and not from the cursor. Options are at the odd places before  *)
(* the first path, each followed by its value.                              *)
FirstPathIndex == IF paths = <<>> THEN m_index ELSE paths[1][1]
Places == {i \in 1 .. FirstPathIndex - 1 : i % 2 = 1}
Said(words) == {i \in Places : argv[i] \in words}
IsLatest(i, words) == i \in Said(words) /\ \A j \in Said(words) : j <= i

(* The options that set the minimum, and to what the manual says that they  *)
(* set it.                                                                  *)
MinimumOptions == {"-minsize", "-ignoreempty"}
MinimumSaidAt(i) ==
  IF argv[i] = "-minsize" THEN NumberIn(argv[i + 1])
  ELSE IF argv[i + 1] = "true" THEN 1 ELSE 0

(* a -minsize of more than one, with only -ignoreempty true after it *)
NotLowered ==
  {i \in Said({"-minsize"}) :
     /\ MinimumSaidAt(i) > 1
     /\ \A j \in Said(MinimumOptions) :
          j > i => argv[j] = "-ignoreempty" /\ argv[j + 1] = "true"}

(* The option is known, and its value is one that it can have. *)
Understood(option, value) ==
  \/ option \in BoolOptions /\ value \in {"true", "false"}
  \/ option \in Words(SizeOptions) /\ NumberIn(value) \in Nat
  \/ option = "-outputname"
  \/ option = "-checksum" /\ value \in ChecksumNames
  \/ option = "-buffersize" /\ NumberIn(value) \in 1 .. MaxBufferSize
  \/ option = "-sleep" /\ value \in Words(SleepValues)

(* p is the place where the options end and the paths begin. *)
OptionsEndAt(p) ==
  /\ p % 2 = 1
  /\ \A i \in 1 .. p - 1 : i % 2 = 1 => Understood(argv[i], argv[i + 1])
  /\ p <= Len(argv) => argv[p] # "" /\ ~StartsWithDash(argv[p])

-----------------------------------------------------------------------------
TypeOK ==
  /\ argv \in CommandLines
  /\ m_index \in 1 .. Len(argv) + 1
  /\ o.on \subseteq {p[2] : p \in SwitchOptions}
  /\ {o.minimumfilesize, o.maximumfilesize, o.first_bytes_size, o.last_bytes_size} \subseteq Nat
  /\ o.checksums \subseteq ChecksumNames
  /\ o.buffersize \in 1 .. MaxBufferSize
  /\ o.msecsleep \in Nat
  /\ \A k \in DOMAIN paths : paths[k][1] \in 1 .. Len(argv)
  /\ pc \in {"options", "verify", "paths", "scanned", "exited"}
  /\ exit_status \in {-1, EXIT_SUCCESS, EXIT_FAILURE, ABORTED}

(* rdfind.1, -ignoreempty: "Setting this to true (the default) is           *)
(* equivalent to -minsize 1, false is equivalent to -minsize 0." So the     *)
(* minimum is what was said last with either of them.                       *)
IgnoreEmptyIsAMinsize ==
  /\ Said(MinimumOptions) = {} => o.minimumfilesize = 1
  /\ \A i \in Said(MinimumOptions) :
       IsLatest(i, MinimumOptions) => o.minimumfilesize = MinimumSaidAt(i)

(* -ignoreempty and -minsize write the same member. However often and in    *)
(* whatever order they are given, the minimum is what the manual says, with *)
(* one exception: -ignoreempty true never lowers a minimum. Where it        *)
(* follows a -minsize of more than one the manual is wrong, and the         *)
(* -minsize stays.                                                          *)
MinimumSizeIsAsSaid ==
  \/ \E i \in NotLowered : o.minimumfilesize = MinimumSaidAt(i)
  \/ NotLowered = {} /\ IgnoreEmptyIsAMinsize

(* The actions, dry run and collapsing of hard links are what was said      *)
(* last, -n and -dryrun being the same.                                     *)
SwitchesAreAsLastSaid ==
  \A p \in SwitchOptions :
    LET names == {q[1] : q \in {q \in SwitchOptions : q[2] = p[2]}}
    IN  p[2] \in o.on <=>
          \/ Said(names) = {} /\ p[2] \in Defaults.on
          \/ \E i \in Places : IsLatest(i, names) /\ argv[i + 1] = "true"

(* A command line goes on to be scanned exactly if all its options can be   *)
(* understood; otherwise the program fails, or was asked for help.          *)
AcceptedIffUnderstood ==
  /\ pc \in {"paths", "scanned"} => OptionsEndAt(FirstPathIndex)
  /\ pc = "exited" =>
       \/ argv = <<>> /\ exit_status = EXIT_SUCCESS
       \/ m_index <= Len(argv) /\ argv[m_index] \in Helps /\ exit_status = EXIT_SUCCESS
       \/ /\ exit_status # EXIT_SUCCESS
          /\ \A p \in 1 .. Len(argv) + 1 :
               OptionsEndAt(p) => p = m_index /\ o.minimumfilesize >= Fixed.maximumfilesize

(* What the later stages build on: some file size is looked at, a chunk of  *)
(* a file is not empty, some last stage was chosen, and each remaining      *)
(* argument has been scanned, in order and under its own index, even when   *)
(* it starts with a dash.                                                   *)
ScannedAsGiven ==
  pc = "scanned" =>
    /\ o.minimumfilesize < o.maximumfilesize /\ o.maximumfilesize <= MaxFileSize
    /\ o.buffersize > 0 /\ o.checksums # {}
    /\ \A i \in FirstPathIndex .. Len(argv) :
         LET k == i - FirstPathIndex + 1
         IN  k \in DOMAIN paths /\ paths[k] = <<i, Stripped(argv[i])>>
    /\ \A i \in 1 .. FirstPathIndex - 1 : \A k \in DOMAIN paths : paths[k][1] # i
=============================================================================
