---------------------------- MODULE OptionsProofs ----------------------------
(* For every set of command lines: the options are what was said, and       *)
(* exactly what can be understood is accepted.                              *)
EXTENDS Options, SequenceTheorems, WellFoundedInduction, TLAPS

Members == {p[2] : p \in SwitchOptions}

Records ==
  [on : SUBSET Members, minimumfilesize : 0 .. MaxFileSize, maximumfilesize : 0 .. MaxFileSize,
   first_bytes_size : Nat, last_bytes_size : Nat, checksums : SUBSET ChecksumNames,
   buffersize : 1 .. MaxBufferSize, msecsleep : Nat, resultsfile : STRING \cup {"results.txt"}]

Pairs == {<<i, Stripped(argv[i])>> : i \in 1 .. Len(argv)}

(* The options before the first path are understood, and the paths from     *)
(* there to the cursor have been scanned.                                   *)
Cursor ==
  /\ m_index \in 1 .. Len(argv) + 1
  /\ FirstPathIndex \in 1 .. m_index /\ FirstPathIndex % 2 = 1
  /\ \A i \in Places : Understood(argv[i], argv[i + 1])
  /\ paths \in Seq(Pairs) /\ Len(paths) = m_index - FirstPathIndex
  /\ \A k \in 1 .. Len(paths) :
       paths[k] = <<FirstPathIndex + k - 1, Stripped(argv[FirstPathIndex + k - 1])>>

Stage ==
  /\ pc \in {"options", "verify", "paths", "scanned", "exited"}
  /\ pc \in {"options", "verify", "exited"} => paths = <<>>
  /\ pc \in {"verify", "paths", "scanned"} =>
       (FirstPathIndex <= Len(argv) =>
          argv[FirstPathIndex] # "" /\ ~StartsWithDash(argv[FirstPathIndex]))
  /\ pc \in {"paths", "scanned"} =>
       /\ o.minimumfilesize < o.maximumfilesize
       /\ o.checksums # {}
  /\ pc = "scanned" => m_index = Len(argv) + 1
  /\ exit_status \in {-1, EXIT_SUCCESS, EXIT_FAILURE, ABORTED}

Exited ==
  pc = "exited" =>
    \/ argv = <<>> /\ exit_status = EXIT_SUCCESS
    \/ m_index <= Len(argv) /\ argv[m_index] \in Helps /\ exit_status = EXIT_SUCCESS
    \/ /\ exit_status # EXIT_SUCCESS
       /\ \A p \in 1 .. Len(argv) + 1 :
            OptionsEndAt(p) => p = m_index /\ o.minimumfilesize >= Fixed.maximumfilesize

(* The options that write the minimum, and those that fix it: the others    *)
(* only lift it. The latest that fixes it is what the minimum goes back to. *)
Settling == {i \in Said(MinimumOptions) : argv[i] = "-minsize" \/ argv[i + 1] = "false"}
SaidAt(i) == IF argv[i] = "-minsize" THEN NumberIn(argv[i + 1]) ELSE 0
MinimumSaidBy(i) == IF SaidAt(i) = 0 /\ (\E j \in Said(MinimumOptions) : j > i) THEN 1 ELSE SaidAt(i)
MinimumIsSettled ==
  /\ Settling = {} => o.minimumfilesize = 1
  /\ \A i \in Settling :
       (\A j \in Settling : j <= i) => o.minimumfilesize = MinimumSaidBy(i)

Inv ==
  /\ argv \in CommandLines /\ o \in Records
  /\ Cursor /\ Stage /\ Exited
  /\ MinimumIsSettled /\ SwitchesAreAsLastSaid

-----------------------------------------------------------------------------
(* The words.                                                               *)
LEMMA SwitchWords ==
  /\ Words(SwitchOptions) =
       {"-makesymlinks", "-makehardlinks", "-makeresultsfile", "-deleteduplicates",
        "-followsymlinks", "-dryrun", "-n", "-removeidentinode", "-deterministic", "-progress"}
  /\ \A p, q \in SwitchOptions : p[1] = q[1] => p = q
BY DEF Words, SwitchOptions

LEMMA SizeWords ==
  /\ Words(SizeOptions) = {"-minsize", "-maxsize", "-firstbytessize", "-lastbytessize"}
  /\ \A p \in SizeOptions :
       \/ p = <<"-minsize", "minimumfilesize">> \/ p = <<"-maxsize", "maximumfilesize">>
       \/ p = <<"-firstbytessize", "first_bytes_size">>
       \/ p = <<"-lastbytessize", "last_bytes_size">>
BY DEF Words, SizeOptions

LEMMA SleepWords ==
  \A p \in SleepValues : p[1] \in Words(SleepValues) /\ p[2] \in Nat
BY DEF Words, SleepValues

(* No word has two meanings. *)
LEMMA WordsApart ==
  /\ Words(SwitchOptions) \cap ({"-ignoreempty"} \cup StringOptions \cup Helps) = {}
  /\ BoolOptions \cap (StringOptions \cup Helps) = {} /\ StringOptions \cap Helps = {}
  /\ "-ignoreempty" \notin StringOptions
  /\ Words(SizeOptions) \cap {"-outputname", "-checksum", "-buffersize", "-sleep"} = {}
  /\ "" \notin KnownOptions
BY SwitchWords, SizeWords DEF BoolOptions, StringOptions, Helps, KnownOptions

LEMMA UnderstoodIsKnown ==
  ASSUME NEW option, NEW value, Understood(option, value)
  PROVE  option \in BoolOptions \cup StringOptions
BY DEF Understood, StringOptions

-----------------------------------------------------------------------------
LEMMA LineFacts ==
  ASSUME argv \in CommandLines
  PROVE  /\ argv \in Seq(STRING) /\ Len(argv) \in Nat
         /\ \A i \in 1 .. Len(argv) :
              /\ argv[i] \in STRING
              /\ NumberIn(argv[i]) = NotANumber
                   \/ (NumberIn(argv[i]) \in Int /\ NumberIn(argv[i]) <= MaxFileSize)
<1>1. argv \in Seq(STRING)
  BY CommandLinesAssumption
<1>2. DOMAIN argv = 1 .. Len(argv) /\ Len(argv) \in Nat
  BY <1>1
<1>3. \A i \in 1 .. Len(argv) : argv[i] \in STRING
  BY <1>1, <1>2
<1> QED
  BY <1>1, <1>2, <1>3, CommandLinesAssumption

LEMMA InvInit ==
  ASSUME Init
  PROVE  Inv
<1>1. FirstPathIndex = 1 /\ Places = {}
  BY DEF Init, FirstPathIndex, Places
<1>2. Len(argv) \in Nat
  BY LineFacts DEF Init
<1>3. o \in Records
  <2>1. {"makeresultsfile", "remove_identical_inode", "deterministic"} \subseteq Members
    BY DEF Members, SwitchOptions
  <2>2. MiB \in Nat /\ MiB > 0
    BY SMT DEF MiB
  <2>3. \A n \in Nat : n > 0 => n \in 1 .. 128 * n
    OBVIOUS
  <2>4. MiB \in 1 .. MaxBufferSize
    BY <2>2, <2>3 DEF MaxBufferSize
  <2>5. 0 \in 0 .. MaxFileSize /\ 1 \in 0 .. MaxFileSize
    BY NumberAssumption
  <2>6. Defaults \in Records
    <3> DEFINE on == {"makeresultsfile", "remove_identical_inode", "deterministic"}
    <3>1. on \in SUBSET Members /\ {} \in SUBSET ChecksumNames
      BY <2>1
    <3>2. Defaults = [on |-> on, minimumfilesize |-> 1, maximumfilesize |-> 0,
                      first_bytes_size |-> 4096, last_bytes_size |-> 4096, checksums |-> {},
                      buffersize |-> MiB, msecsleep |-> 0, resultsfile |-> "results.txt"]
      BY DEF Defaults
    <3> HIDE DEF on
    <3> QED
      BY <2>4, <2>5, <3>1, <3>2 DEF Records
  <2> QED
    BY <2>6 DEF Init
<1>4. Cursor
  <2>1. paths \in Seq(Pairs) /\ Len(paths) = 0
    BY DEF Init
  <2> QED
    BY <1>1, <1>2, <2>1 DEF Init, Cursor
<1>5. Stage /\ Exited
  BY DEF Init, Stage, Exited
<1>6. MinimumIsSettled
  BY <1>1 DEF Init, Defaults, MinimumIsSettled, Settling, Said
<1>7. SwitchesAreAsLastSaid
  BY <1>1 DEF Init, SwitchesAreAsLastSaid, Said
<1> QED
  BY <1>3, <1>4, <1>5, <1>6, <1>7 DEF Init, Inv

(* An option with its value has been understood. *)
LEMMA AcceptKeeps ==
  ASSUME Inv, pc = "options", m_index < Len(argv), Understood(Arg, Value),
         NEW r \in Records, Accept(r)
  PROVE  /\ argv' = argv /\ o' = r
         /\ Cursor' /\ Stage' /\ Exited'
         /\ Places' = Places \cup {m_index}
         /\ \A i \in Places : i \in Nat /\ i < m_index
<1>1. paths = <<>> /\ paths' = paths /\ argv' = argv /\ pc' = pc /\ exit_status' = exit_status
  BY DEF Inv, Stage, Accept
<1>2. FirstPathIndex = m_index /\ FirstPathIndex' = m_index'
  BY <1>1 DEF FirstPathIndex
<1>3. m_index \in Nat /\ m_index % 2 = 1 /\ m_index' = m_index + 2 /\ Len(argv) \in Nat
  BY <1>2, LineFacts DEF Inv, Cursor, Accept
<1>4. Places' = Places \cup {m_index}
  BY <1>2, <1>3 DEF Places
<1>5. \A i \in Places : i \in Nat /\ i < m_index
  BY <1>2, <1>3 DEF Places
<1>6. \A i \in Places' : Understood(argv[i], argv[i + 1])
  BY <1>4 DEF Inv, Cursor, Arg, Value
<1>7. Cursor'
  <2>1. m_index' \in 1 .. Len(argv) + 1 /\ m_index' % 2 = 1
    BY <1>3
  <2>2. paths' \in Seq(Pairs)' /\ Len(paths') = 0
    BY <1>1
  <2> QED
    BY <1>1, <1>2, <1>3, <1>6, <2>1, <2>2 DEF Cursor
<1>8. Stage' /\ Exited'
  BY <1>1 DEF Inv, Stage, Exited
<1> QED
  BY <1>1, <1>4, <1>5, <1>7, <1>8 DEF Accept

SharedNames(p) == {q[1] : q \in {q \in SwitchOptions : q[2] = p[2]}}

(* The option is not a switch. *)
LEMMA SwitchesStay ==
  ASSUME SwitchesAreAsLastSaid, argv' = argv, o'.on = o.on,
         Places' = Places \cup {m_index}, Arg \notin Words(SwitchOptions)
  PROVE  SwitchesAreAsLastSaid'
<1> SUFFICES ASSUME NEW p \in SwitchOptions
             PROVE  p[2] \in o'.on <=>
                      \/ Said(SharedNames(p))' = {} /\ p[2] \in Defaults.on
                      \/ \E i \in Places' : IsLatest(i, SharedNames(p))' /\ argv[i + 1] = "true"
  BY DEF SwitchesAreAsLastSaid, SharedNames
<1>1. Arg \notin SharedNames(p)
  BY DEF SharedNames, Words
<1>2. Said(SharedNames(p))' = Said(SharedNames(p))
  BY <1>1 DEF Said, Arg
<1>3. \A i : IsLatest(i, SharedNames(p))' <=> IsLatest(i, SharedNames(p))
  BY <1>2 DEF IsLatest
<1>4. \A i : IsLatest(i, SharedNames(p)) => i \in Places
  BY DEF IsLatest, Said
<1>5. p[2] \in o.on <=>
        \/ Said(SharedNames(p)) = {} /\ p[2] \in Defaults.on
        \/ \E i \in Places : IsLatest(i, SharedNames(p)) /\ argv[i + 1] = "true"
  BY DEF SwitchesAreAsLastSaid, SharedNames
<1> QED
  BY <1>2, <1>3, <1>4, <1>5

(* The option is the switch p. *)
LEMMA SwitchSaid ==
  ASSUME SwitchesAreAsLastSaid, argv' = argv, o.on \subseteq Members,
         Places' = Places \cup {m_index},
         m_index \in Nat, \A i \in Places : i \in Nat /\ i < m_index,
         NEW p \in SwitchOptions, Arg = p[1], Value \in {"true", "false"},
         o'.on = IF Value = "true" THEN o.on \cup {p[2]} ELSE o.on \ {p[2]}
  PROVE  SwitchesAreAsLastSaid'
<1> SUFFICES ASSUME NEW q \in SwitchOptions
             PROVE  q[2] \in o'.on <=>
                      \/ Said(SharedNames(q))' = {} /\ q[2] \in Defaults.on
                      \/ \E i \in Places' : IsLatest(i, SharedNames(q))' /\ argv[i + 1] = "true"
  BY DEF SwitchesAreAsLastSaid, SharedNames
<1>1. CASE q[2] = p[2]
  <2>1. Arg \in SharedNames(q)
    BY <1>1 DEF SharedNames
  <2>2. m_index \in Said(SharedNames(q))' /\ \A i \in Said(SharedNames(q))' : i <= m_index
    <3>1. Said(SharedNames(q))' = {i \in Places' : argv[i] \in SharedNames(q)}
      BY DEF Said
    <3>2. \A i \in Places' : i \in Nat /\ i <= m_index
      OBVIOUS
    <3> QED
      BY <2>1, <3>1, <3>2 DEF Arg
  <2>3. \A i : IsLatest(i, SharedNames(q))' <=> i = m_index
    <3>1. \A i \in Said(SharedNames(q))' : i \in Nat
      BY DEF Said
    <3> PICK k \in Nat : k = m_index
      OBVIOUS
    <3>2. k \in Said(SharedNames(q))' /\ \A i \in Said(SharedNames(q))' : i <= k
      BY <2>2
    <3>3. ASSUME NEW i, IsLatest(i, SharedNames(q))'
          PROVE  i = k
      <4>1. i \in Nat /\ i <= k /\ k <= i
        BY <3>1, <3>2, <3>3 DEF IsLatest
      <4> QED
        BY <4>1
    <3>4. IsLatest(k, SharedNames(q))'
      BY <3>2 DEF IsLatest
    <3> QED
      BY <3>3, <3>4
  <2>4. q[2] \in o'.on <=> Value = "true"
    BY <1>1
  <2> QED
    BY <2>2, <2>3, <2>4 DEF Value
<1>2. CASE q[2] # p[2]
  <2>1. Arg \notin SharedNames(q)
    BY <1>2, SwitchWords DEF SharedNames
  <2>2. Said(SharedNames(q))' = Said(SharedNames(q))
    BY <2>1 DEF Said, Arg
  <2>3. \A i : IsLatest(i, SharedNames(q))' <=> IsLatest(i, SharedNames(q))
    BY <2>2 DEF IsLatest
  <2>4. \A i : IsLatest(i, SharedNames(q)) => i \in Places
    BY DEF IsLatest, Said
  <2>5. q[2] \in o.on <=>
          \/ Said(SharedNames(q)) = {} /\ q[2] \in Defaults.on
          \/ \E i \in Places : IsLatest(i, SharedNames(q)) /\ argv[i + 1] = "true"
    BY DEF SwitchesAreAsLastSaid, SharedNames
  <2>6. q[2] \in o'.on <=> q[2] \in o.on
    BY <1>2
  <2> QED
    BY <2>2, <2>3, <2>4, <2>5, <2>6
<1> QED
  BY <1>1, <1>2

LEMMA MinimumStays ==
  ASSUME MinimumIsSettled, argv' = argv, o'.minimumfilesize = o.minimumfilesize,
         Places' = Places \cup {m_index}, Arg \notin MinimumOptions
  PROVE  MinimumIsSettled'
<1>1. Said(MinimumOptions)' = Said(MinimumOptions)
  BY DEF Said, Arg
<1>2. Settling' = Settling /\ \A i : MinimumSaidBy(i)' = MinimumSaidBy(i)
  BY <1>1 DEF Settling, MinimumSaidBy, SaidAt
<1>3. /\ Settling = {} => o.minimumfilesize = 1
      /\ \A i \in Settling :
           (\A j \in Settling : j <= i) => o.minimumfilesize = MinimumSaidBy(i)
  BY DEF MinimumIsSettled, Settling, MinimumSaidBy, SaidAt, MinimumOptions
<1>4. /\ Settling' = {} => o'.minimumfilesize = 1
      /\ \A i \in Settling' :
           (\A j \in Settling' : j <= i) => o'.minimumfilesize = MinimumSaidBy(i)'
  BY <1>2, <1>3
<1> QED
  BY <1>4 DEF MinimumIsSettled, Settling, MinimumSaidBy, SaidAt, MinimumOptions

LEMMA MinimumFixed ==
  ASSUME argv' = argv, Places' = Places \cup {m_index},
         m_index \in Nat, \A i \in Places : i \in Nat /\ i < m_index,
         Arg \in MinimumOptions, Arg = "-minsize" \/ Value = "false",
         o'.minimumfilesize = IF Arg = "-minsize" THEN NumberIn(Value) ELSE 0
  PROVE  MinimumIsSettled'
<1> PICK k \in Nat : k = m_index
  OBVIOUS
<1>1. Said(MinimumOptions)' = {i \in Places' : argv[i] \in MinimumOptions}
  BY DEF Said
<1>2. k \in Settling' /\ SaidAt(k)' = o'.minimumfilesize
  BY <1>1 DEF Settling, SaidAt, Arg, Value
<1>3. \A i \in Said(MinimumOptions)' : i \in Nat /\ i <= k
  BY <1>1
<1>4. \A i \in Settling' : (\A j \in Settling' : j <= i) => i = k
  BY <1>2, <1>3 DEF Settling
<1>5. MinimumSaidBy(k)' = o'.minimumfilesize
  BY <1>2, <1>3 DEF MinimumSaidBy
<1>6. /\ Settling' = {} => o'.minimumfilesize = 1
      /\ \A i \in Settling' :
           (\A j \in Settling' : j <= i) => o'.minimumfilesize = MinimumSaidBy(i)'
  BY <1>2, <1>4, <1>5
<1> QED
  BY <1>6 DEF MinimumIsSettled, Settling, MinimumSaidBy, SaidAt, MinimumOptions

LEMMA MinimumLifted ==
  ASSUME MinimumIsSettled, argv' = argv, Places' = Places \cup {m_index},
         m_index \in Nat, \A i \in Places : i \in Nat /\ i < m_index,
         Arg = "-ignoreempty", Value = "true", o.minimumfilesize \in Nat,
         o'.minimumfilesize = IF o.minimumfilesize < 1 THEN 1 ELSE o.minimumfilesize
  PROVE  MinimumIsSettled'
<1>1. Said(MinimumOptions)' = Said(MinimumOptions) \cup {m_index} /\ m_index \notin Said(MinimumOptions)
  BY DEF Said, MinimumOptions, Arg
<1>2. Settling' = Settling /\ \A i : SaidAt(i)' = SaidAt(i)
  BY <1>1 DEF Settling, SaidAt, Arg, Value
<1>3. /\ Settling = {} => o.minimumfilesize = 1
      /\ \A i \in Settling :
           (\A j \in Settling : j <= i) => o.minimumfilesize = MinimumSaidBy(i)
  BY DEF MinimumIsSettled, Settling, MinimumSaidBy, SaidAt, MinimumOptions
<1>4. ASSUME NEW i \in Settling', \A j \in Settling' : j <= i
      PROVE  o'.minimumfilesize = MinimumSaidBy(i)'
  <2>1. o.minimumfilesize = MinimumSaidBy(i)
    BY <1>2, <1>3, <1>4
  <2>2. i \in Places
    BY <1>2 DEF Settling, Said
  <2>3. \E j \in Said(MinimumOptions)' : j > i
    BY <1>1, <2>2
  <2>4. MinimumSaidBy(i)' = IF SaidAt(i) = 0 THEN 1 ELSE SaidAt(i)
    BY <1>2, <2>3 DEF MinimumSaidBy
  <2>5. CASE SaidAt(i) = 0
    <3>1. o.minimumfilesize \in {0, 1}
      BY <2>1, <2>5 DEF MinimumSaidBy
    <3> QED
      BY <2>4, <2>5, <3>1
  <2>6. CASE SaidAt(i) # 0
    BY <2>1, <2>4, <2>6 DEF MinimumSaidBy
  <2> QED
    BY <2>5, <2>6
<1>5. Settling' = {} => o'.minimumfilesize = 1
  BY <1>2, <1>3
<1> QED
  BY <1>4, <1>5 DEF MinimumIsSettled, Settling, MinimumSaidBy, SaidAt, MinimumOptions

-----------------------------------------------------------------------------
(* The turns of the loop in parseOptions that accept an option.             *)
LEMMA RecordFacts ==
  ASSUME o \in Records
  PROVE  /\ \A S \in SUBSET Members : [o EXCEPT !.on = S] \in Records
         /\ \A n \in 0 .. MaxFileSize :
              /\ [o EXCEPT !.minimumfilesize = n] \in Records
              /\ [o EXCEPT !.maximumfilesize = n] \in Records
         /\ \A n \in Nat :
              /\ [o EXCEPT !.first_bytes_size = n] \in Records
              /\ [o EXCEPT !.last_bytes_size = n] \in Records
              /\ [o EXCEPT !.msecsleep = n] \in Records
         /\ \A S \in SUBSET ChecksumNames : [o EXCEPT !.checksums = S] \in Records
         /\ \A n \in 1 .. MaxBufferSize : [o EXCEPT !.buffersize = n] \in Records
         /\ \A f \in STRING : [o EXCEPT !.resultsfile = f] \in Records
BY DEF Records

(* What all of them have in common; r is the new record. *)
LEMMA OtherOption ==
  ASSUME Inv, pc = "options", m_index < Len(argv), Understood(Arg, Value),
         NEW r \in Records, Accept(r),
         r.on = o.on, r.minimumfilesize = o.minimumfilesize,
         Arg \notin Words(SwitchOptions) \cup MinimumOptions
  PROVE  Inv'
<1>1. /\ argv' = argv /\ o' = r /\ Cursor' /\ Stage' /\ Exited'
      /\ Places' = Places \cup {m_index}
  BY AcceptKeeps
<1> QED
  BY <1>1, SwitchesStay, MinimumStays DEF Inv

LEMMA SwitchStep ==
  ASSUME Inv, NEW p \in SwitchOptions, Switch(p)
  PROVE  Inv'
<1> DEFINE r == [o EXCEPT !.on = IF Value = "true" THEN @ \cup {p[2]} ELSE @ \ {p[2]}]
<1>1. pc = "options" /\ m_index < Len(argv) /\ Arg = p[1] /\ Value \in {"true", "false"}
  BY DEF Switch, AtOption, AtArgument
<1>2. p[1] \in Words(SwitchOptions) /\ p[2] \in Members /\ o.on \subseteq Members
  BY DEF Words, Members, Inv, Records
<1>3. Understood(Arg, Value)
  BY <1>1, <1>2 DEF Understood, BoolOptions
<1>4. r \in Records
  BY <1>2, RecordFacts DEF Inv
<1>5. Accept(r)
  BY DEF Switch
<1>6. /\ r.minimumfilesize = o.minimumfilesize
      /\ r.on = IF Value = "true" THEN o.on \cup {p[2]} ELSE o.on \ {p[2]}
  BY DEF Inv, Records
<1> HIDE DEF r
<1>7. /\ argv' = argv /\ o' = r /\ Cursor' /\ Stage' /\ Exited'
      /\ Places' = Places \cup {m_index}
      /\ \A i \in Places : i \in Nat /\ i < m_index
  BY <1>1, <1>3, <1>4, <1>5, AcceptKeeps
<1>8. m_index \in Nat
  BY LineFacts DEF Inv, Cursor
<1>9. Arg \notin MinimumOptions
  BY <1>1, <1>2, SwitchWords DEF MinimumOptions
<1>10. SwitchesAreAsLastSaid'
  BY <1>1, <1>2, <1>6, <1>7, <1>8, SwitchSaid DEF Inv
<1>11. MinimumIsSettled'
  BY <1>6, <1>7, <1>9, MinimumStays DEF Inv
<1> QED
  BY <1>4, <1>7, <1>10, <1>11 DEF Inv

LEMMA IgnoreEmptyStep ==
  ASSUME Inv, IgnoreEmpty
  PROVE  Inv'
<1> DEFINE min == IF Value = "false" THEN 0
                  ELSE IF o.minimumfilesize < 1 THEN 1 ELSE o.minimumfilesize
<1> DEFINE r == [o EXCEPT !.minimumfilesize = min]
<1>1. /\ pc = "options" /\ m_index < Len(argv)
      /\ Arg = "-ignoreempty" /\ Value \in {"true", "false"}
  BY DEF IgnoreEmpty, AtOption, AtArgument
<1>2. Understood(Arg, Value)
  BY <1>1 DEF Understood, BoolOptions
<1>3. o.minimumfilesize \in 0 .. MaxFileSize /\ min \in 0 .. MaxFileSize
  BY NumberAssumption DEF Inv, Records
<1>4. r \in Records
  BY <1>3, RecordFacts DEF Inv
<1>5. Accept(r)
  BY DEF IgnoreEmpty
<1>6. r.minimumfilesize = min /\ r.on = o.on
  BY DEF Inv, Records
<1> HIDE DEF r
<1>7. /\ argv' = argv /\ o' = r /\ Cursor' /\ Stage' /\ Exited'
      /\ Places' = Places \cup {m_index}
      /\ \A i \in Places : i \in Nat /\ i < m_index
  BY <1>1, <1>2, <1>4, <1>5, AcceptKeeps
<1>8. m_index \in Nat
  BY LineFacts DEF Inv, Cursor
<1>9. SwitchesAreAsLastSaid'
  BY <1>1, <1>6, <1>7, WordsApart, SwitchesStay DEF Inv
<1>10. CASE Value = "false"
  <2>1. MinimumIsSettled'
    BY <1>1, <1>6, <1>7, <1>8, <1>10, MinimumFixed DEF MinimumOptions
  <2> QED
    BY <1>4, <1>7, <1>9, <2>1 DEF Inv
<1>11. CASE Value = "true"
  <2>1. MinimumIsSettled'
    BY <1>1, <1>3, <1>6, <1>7, <1>8, <1>11, MinimumLifted DEF Inv
  <2> QED
    BY <1>4, <1>7, <1>9, <2>1 DEF Inv
<1> QED
  BY <1>1, <1>10, <1>11

LEMMA SizeStep ==
  ASSUME Inv, NEW p \in SizeOptions, SizeOption(p)
  PROVE  Inv'
<1> DEFINE n == NumberIn(Value)
<1> DEFINE r == [o EXCEPT ![p[2]] = n]
<1>1. pc = "options" /\ m_index < Len(argv) /\ Arg = p[1] /\ n \in Nat
  BY DEF SizeOption, AtOption, AtArgument
<1>2. p[1] \in Words(SizeOptions)
  BY DEF Words
<1>3. Understood(Arg, Value)
  BY <1>1, <1>2 DEF Understood
<1>4. m_index + 1 \in 1 .. Len(argv) /\ m_index \in Nat
  BY <1>1, LineFacts DEF Inv, Cursor
<1>5. n \in 0 .. MaxFileSize
  BY <1>1, <1>4, LineFacts, NumberAssumption DEF Inv, Value
<1>6. Accept(r)
  BY DEF SizeOption
<1>7. CASE p = <<"-minsize", "minimumfilesize">>
  <2>1. r \in Records /\ r.on = o.on /\ r.minimumfilesize = n
    BY <1>5, <1>7, RecordFacts DEF Inv, Records
  <2> HIDE DEF r
  <2>2. /\ argv' = argv /\ o' = r /\ Cursor' /\ Stage' /\ Exited'
        /\ Places' = Places \cup {m_index}
        /\ \A i \in Places : i \in Nat /\ i < m_index
    BY <1>1, <1>3, <1>6, <2>1, AcceptKeeps
  <2>3. SwitchesAreAsLastSaid'
    BY <1>1, <1>7, <2>1, <2>2, SwitchWords, SwitchesStay DEF Inv
  <2>4. MinimumIsSettled'
    BY <1>1, <1>4, <1>7, <2>1, <2>2, MinimumFixed DEF MinimumOptions
  <2> QED
    BY <2>1, <2>2, <2>3, <2>4 DEF Inv
<1>8. CASE p # <<"-minsize", "minimumfilesize">>
  <2>1. /\ p[1] \in {"-maxsize", "-firstbytessize", "-lastbytessize"}
        /\ p[2] \in {"maximumfilesize", "first_bytes_size", "last_bytes_size"}
    BY <1>8, SizeWords
  <2>2. r \in Records
    BY <1>1, <1>5, <2>1, RecordFacts DEF Inv
  <2>3. r.on = o.on /\ r.minimumfilesize = o.minimumfilesize
    BY <2>1 DEF Inv, Records
  <2>4. Arg \notin Words(SwitchOptions) \cup MinimumOptions
    BY <1>1, <2>1, SwitchWords DEF MinimumOptions
  <2> HIDE DEF r
  <2> QED
    BY <1>1, <1>3, <1>6, <2>2, <2>3, <2>4, OtherOption
<1> QED
  BY <1>7, <1>8

(* The remaining options, which write neither the switches nor the minimum. *)
LEMMA OtherStep ==
  ASSUME Inv, OutputName \/ ChecksumOption \/ BufferSize \/ \E p \in SleepValues : Sleep(p)
  PROVE  Inv'
<1>1. m_index \in Nat /\ Len(argv) \in Nat /\ o \in Records
  BY LineFacts DEF Inv, Cursor
<1>2. \A w \in {"-outputname", "-checksum", "-buffersize", "-sleep"} :
        w \notin Words(SwitchOptions) \cup MinimumOptions
  BY SwitchWords DEF MinimumOptions
<1>3. CASE OutputName
  <2> DEFINE r == [o EXCEPT !.resultsfile = Value]
  <2>1. pc = "options" /\ m_index < Len(argv) /\ Arg = "-outputname" /\ Accept(r)
    BY <1>3 DEF OutputName, AtOption, AtArgument
  <2>2. Value \in STRING
    BY <1>1, <2>1, LineFacts DEF Inv, Value
  <2>3. r \in Records /\ r.on = o.on /\ r.minimumfilesize = o.minimumfilesize
    BY <1>1, <2>2, RecordFacts DEF Records
  <2>4. Understood(Arg, Value)
    BY <2>1 DEF Understood
  <2> HIDE DEF r
  <2> QED
    BY <1>2, <2>1, <2>3, <2>4, OtherOption
<1>4. CASE ChecksumOption
  <2> DEFINE r == [o EXCEPT !.checksums = @ \cup {Value}]
  <2>1. /\ pc = "options" /\ m_index < Len(argv) /\ Arg = "-checksum"
        /\ Value \in ChecksumNames /\ Accept(r)
    BY <1>4 DEF ChecksumOption, AtOption, AtArgument
  <2>2. o.checksums \cup {Value} \in SUBSET ChecksumNames
    BY <1>1, <2>1 DEF Records
  <2>3. r \in Records /\ r.on = o.on /\ r.minimumfilesize = o.minimumfilesize
    BY <1>1, <2>2, RecordFacts DEF Records
  <2>4. Understood(Arg, Value)
    BY <2>1 DEF Understood
  <2> HIDE DEF r
  <2> QED
    BY <1>2, <2>1, <2>3, <2>4, OtherOption
<1>5. CASE BufferSize
  <2> DEFINE r == [o EXCEPT !.buffersize = NumberIn(Value)]
  <2>1. /\ pc = "options" /\ m_index < Len(argv) /\ Arg = "-buffersize"
        /\ NumberIn(Value) \in 1 .. MaxBufferSize /\ Accept(r)
    BY <1>5 DEF BufferSize, AtOption, AtArgument
  <2>2. r \in Records /\ r.on = o.on /\ r.minimumfilesize = o.minimumfilesize
    BY <1>1, <2>1, RecordFacts DEF Records
  <2>3. Understood(Arg, Value)
    BY <2>1 DEF Understood
  <2> HIDE DEF r
  <2> QED
    BY <1>2, <2>1, <2>2, <2>3, OtherOption
<1>6. CASE \E p \in SleepValues : Sleep(p)
  <2> PICK p \in SleepValues : Sleep(p)
    BY <1>6
  <2> DEFINE r == [o EXCEPT !.msecsleep = p[2]]
  <2>1. pc = "options" /\ m_index < Len(argv) /\ Arg = "-sleep" /\ Value = p[1] /\ Accept(r)
    BY DEF Sleep, AtOption, AtArgument
  <2>2. r \in Records /\ r.on = o.on /\ r.minimumfilesize = o.minimumfilesize
    BY <1>1, SleepWords, RecordFacts DEF Records
  <2>3. Understood(Arg, Value)
    BY <2>1, SleepWords DEF Understood
  <2> HIDE DEF r
  <2> QED
    BY <1>2, <2>1, <2>2, <2>3, OtherOption
<1> QED
  BY <1>3, <1>4, <1>5, <1>6

-----------------------------------------------------------------------------
(* What was said stays when no option is read. *)
LEMMA SaidStays ==
  ASSUME Inv, argv' = argv, FirstPathIndex' = FirstPathIndex,
         o'.on = o.on, o'.minimumfilesize = o.minimumfilesize
  PROVE  Places' = Places /\ MinimumIsSettled' /\ SwitchesAreAsLastSaid'
<1>1. Places' = Places /\ \A w : Said(w)' = Said(w)
  BY DEF Places, Said
<1>2. MinimumIsSettled'
  <2>1. Settling' = Settling /\ \A i : MinimumSaidBy(i)' = MinimumSaidBy(i)
    BY <1>1 DEF Settling, MinimumSaidBy, SaidAt
  <2>2. /\ Settling = {} => o.minimumfilesize = 1
        /\ \A i \in Settling :
             (\A j \in Settling : j <= i) => o.minimumfilesize = MinimumSaidBy(i)
    BY DEF Inv, MinimumIsSettled, Settling, MinimumSaidBy, SaidAt, MinimumOptions
  <2>3. /\ Settling' = {} => o'.minimumfilesize = 1
        /\ \A i \in Settling' :
             (\A j \in Settling' : j <= i) => o'.minimumfilesize = MinimumSaidBy(i)'
    BY <2>1, <2>2
  <2> QED
    BY <2>3 DEF MinimumIsSettled, Settling, MinimumSaidBy, SaidAt, MinimumOptions
<1>3. SwitchesAreAsLastSaid'
  <2>1. \A i, w : IsLatest(i, w)' <=> IsLatest(i, w)
    BY <1>1 DEF IsLatest
  <2> QED
    BY <1>1, <2>1 DEF Inv, SwitchesAreAsLastSaid
<1> QED
  BY <1>1, <1>2, <1>3

(* A step that neither moves the cursor nor changes what was read. *)
LEMMA CursorStays ==
  ASSUME Inv, UNCHANGED <<argv, m_index, paths>>,
         o'.on = o.on, o'.minimumfilesize = o.minimumfilesize
  PROVE  /\ FirstPathIndex' = FirstPathIndex /\ Cursor'
         /\ MinimumIsSettled' /\ SwitchesAreAsLastSaid'
<1>1. FirstPathIndex' = FirstPathIndex /\ Pairs' = Pairs
  BY DEF FirstPathIndex, Pairs
<1>2. Places' = Places /\ MinimumIsSettled' /\ SwitchesAreAsLastSaid'
  BY <1>1, SaidStays
<1>3. Cursor'
  BY <1>1, <1>2 DEF Inv, Cursor
<1> QED
  BY <1>1, <1>2, <1>3

-----------------------------------------------------------------------------
(* The end of the options is not before the cursor, nor after it if what is *)
(* at the cursor is not understood.                                         *)
LEMMA EndIsAtCursor ==
  ASSUME Inv, FirstPathIndex = m_index, NEW p \in 1 .. Len(argv) + 1, OptionsEndAt(p),
         m_index < Len(argv) => ~Understood(Arg, Value)
  PROVE  p = m_index
<1>1. m_index \in 1 .. Len(argv) + 1 /\ m_index % 2 = 1 /\ p % 2 = 1 /\ Len(argv) \in Nat
  BY LineFacts DEF Inv, Cursor, OptionsEndAt
<1>2. ~(p < m_index)
  <2> SUFFICES ASSUME p < m_index
               PROVE  FALSE
    OBVIOUS
  <2>1. p \in Places /\ p <= Len(argv)
    BY <1>1 DEF Places
  <2>2. Understood(argv[p], argv[p + 1])
    BY <2>1 DEF Inv, Cursor
  <2>3. argv[p] \in KnownOptions
    BY <2>2, UnderstoodIsKnown DEF KnownOptions
  <2> QED
    BY <2>1, <2>3 DEF OptionsEndAt, StartsWithDash
<1>3. ~(p > m_index)
  <2> SUFFICES ASSUME p > m_index
               PROVE  FALSE
    OBVIOUS
  <2>1. m_index \in 1 .. p - 1 /\ m_index < Len(argv)
    BY <1>1
  <2>2. Understood(Arg, Value)
    BY <1>1, <2>1 DEF OptionsEndAt, Arg, Value
  <2> QED
    BY <2>1, <2>2
<1> QED
  BY <1>1, <1>2, <1>3

LEMMA ExitKeeps ==
  ASSUME Inv, NEW status \in {EXIT_SUCCESS, EXIT_FAILURE, ABORTED}, Exit(status), paths = <<>>
  PROVE  /\ argv' = argv /\ o' = o /\ m_index' = m_index /\ Fixed' = Fixed
         /\ pc' = "exited" /\ exit_status' = status
         /\ Exited' => Inv'
<1>1. UNCHANGED <<argv, o, m_index, paths>> /\ pc' = "exited" /\ exit_status' = status
  BY DEF Exit
<1>2. Cursor' /\ MinimumIsSettled' /\ SwitchesAreAsLastSaid'
  BY <1>1, CursorStays
<1>3. Stage'
  BY <1>1 DEF Stage
<1>4. Fixed' = Fixed
  BY <1>1 DEF Fixed
<1> QED
  BY <1>1, <1>2, <1>3, <1>4 DEF Inv

LEMMA FailureIsNoSuccess == EXIT_FAILURE # EXIT_SUCCESS /\ ABORTED # EXIT_SUCCESS
BY SMT DEF EXIT_FAILURE, ABORTED, EXIT_SUCCESS

(* What is at the cursor is refused. *)
LEMMA RefusalStep ==
  ASSUME Inv, pc = "options", m_index <= Len(argv),
         NEW status \in {EXIT_FAILURE, ABORTED}, Exit(status),
         Arg = "" \/ StartsWithDash(Arg),
         m_index < Len(argv) => ~Understood(Arg, Value)
  PROVE  Inv'
<1>1. paths = <<>> /\ FirstPathIndex = m_index
  BY DEF Inv, Stage, FirstPathIndex
<1>2. \A p \in 1 .. Len(argv) + 1 : ~OptionsEndAt(p)
  BY <1>1, EndIsAtCursor DEF OptionsEndAt, Arg
<1>3. /\ argv' = argv /\ pc' = "exited" /\ exit_status' = status
      /\ Exited' => Inv'
  BY <1>1, ExitKeeps
<1>4. \A p : OptionsEndAt(p)' <=> OptionsEndAt(p)
  BY <1>3 DEF OptionsEndAt
<1>5. status # EXIT_SUCCESS
  BY FailureIsNoSuccess
<1> QED
  BY <1>2, <1>3, <1>4, <1>5 DEF Exited

LEMMA RefuseStep ==
  ASSUME Inv, Refuse, pc = "options"
  PROVE  Inv'
<1>1. CASE EmptyArgument
  <2>1. ~Understood(Arg, Value)
    BY <1>1, UnderstoodIsKnown, WordsApart DEF EmptyArgument, KnownOptions
  <2> QED
    BY <1>1, <2>1, RefusalStep DEF EmptyArgument, AtArgument, HasArgsLeft
<1>2. CASE ValueMissing
  <2>1. /\ m_index = Len(argv) /\ Arg \in KnownOptions /\ Exit(EXIT_FAILURE)
    BY <1>2 DEF ValueMissing, KnownOptions
  <2>2. m_index <= Len(argv) /\ ~(m_index < Len(argv))
    BY <2>1, LineFacts DEF Inv
  <2> QED
    BY <2>1, <2>2, RefusalStep DEF StartsWithDash
<1>3. CASE NeitherTrueNorFalse
  <2>1. /\ m_index <= Len(argv) /\ Arg \in BoolOptions /\ Value \notin {"true", "false"}
        /\ Exit(EXIT_FAILURE)
    BY <1>3 DEF NeitherTrueNorFalse, AtOption, AtArgument, HasArgsLeft
  <2>2. ~Understood(Arg, Value)
    BY <2>1, WordsApart DEF Understood, StringOptions
  <2> QED
    BY <2>1, <2>2, RefusalStep DEF StartsWithDash, KnownOptions
<1>4. CASE SizeThrows
  <2>1. /\ m_index <= Len(argv) /\ Arg \in Words(SizeOptions) /\ NumberIn(Value) \notin Nat
        /\ Exit(ABORTED)
    BY <1>4 DEF SizeThrows, AtOption, AtArgument, HasArgsLeft
  <2>2. ~Understood(Arg, Value)
    BY <2>1, WordsApart DEF Understood, StringOptions
  <2> QED
    BY <2>1, <2>2, RefusalStep DEF StartsWithDash, KnownOptions, StringOptions
<1>5. CASE BadChecksum
  <2>1. /\ m_index <= Len(argv) /\ Arg = "-checksum" /\ Value \notin ChecksumNames
        /\ Exit(EXIT_FAILURE)
    BY <1>5 DEF BadChecksum, AtOption, AtArgument, HasArgsLeft
  <2>2. ~Understood(Arg, Value)
    BY <2>1, WordsApart DEF Understood, StringOptions
  <2> QED
    BY <2>1, <2>2, RefusalStep DEF StartsWithDash, KnownOptions, StringOptions
<1>6. CASE BadBufferSize
  <2>1. /\ m_index <= Len(argv) /\ Arg = "-buffersize" /\ NumberIn(Value) \notin 1 .. MaxBufferSize
        /\ Exit(EXIT_FAILURE) \/ Exit(ABORTED)
    BY <1>6 DEF BadBufferSize, AtOption, AtArgument, HasArgsLeft
  <2>2. ~Understood(Arg, Value)
    BY <2>1, WordsApart DEF Understood, StringOptions
  <2> QED
    BY <2>1, <2>2, RefusalStep DEF StartsWithDash, KnownOptions, StringOptions
<1>7. CASE BadSleep
  <2>1. /\ m_index <= Len(argv) /\ Arg = "-sleep" /\ Value \notin Words(SleepValues)
        /\ Exit(EXIT_FAILURE)
    BY <1>7 DEF BadSleep, AtOption, AtArgument, HasArgsLeft
  <2>2. ~Understood(Arg, Value)
    BY <2>1, WordsApart DEF Understood, StringOptions
  <2> QED
    BY <2>1, <2>2, RefusalStep DEF StartsWithDash, KnownOptions, StringOptions
<1>8. CASE UnknownOption
  <2>1. m_index <= Len(argv) /\ Arg \in DashWords /\ Exit(EXIT_FAILURE)
    BY <1>8 DEF UnknownOption, AtArgument, HasArgsLeft
  <2>2. ~Understood(Arg, Value)
    BY <2>1, DashAssumption, UnderstoodIsKnown DEF KnownOptions
  <2> QED
    BY <2>1, <2>2, RefusalStep DEF StartsWithDash
<1>9. ~SizesConflict
  BY DEF SizesConflict
<1> QED
  BY <1>1, <1>2, <1>3, <1>4, <1>5, <1>6, <1>7, <1>8, <1>9 DEF Refuse

LEMMA NoArgumentsStep ==
  ASSUME Inv, NoArguments
  PROVE  Inv'
<1>1. pc = "options" /\ argv = <<>> /\ Exit(EXIT_SUCCESS) /\ paths = <<>>
  BY DEF NoArguments, Inv, Stage
<1> QED
  BY <1>1, ExitKeeps DEF Exited

LEMMA HelpStep ==
  ASSUME Inv, Help
  PROVE  Inv'
<1>1. /\ pc = "options" /\ m_index <= Len(argv) /\ argv[m_index] \in Helps
      /\ Exit(EXIT_SUCCESS) /\ paths = <<>>
  BY DEF Help, AtArgument, HasArgsLeft, Arg, Inv, Stage
<1>2. /\ argv' = argv /\ m_index' = m_index /\ exit_status' = EXIT_SUCCESS
      /\ Exited' => Inv'
  BY <1>1, ExitKeeps
<1> QED
  BY <1>1, <1>2 DEF Exited

LEMMA FirstPathStep ==
  ASSUME Inv, FirstPath
  PROVE  Inv'
<1>1. /\ UNCHANGED <<argv, m_index, o, paths, exit_status>> /\ pc' = "verify" /\ paths = <<>>
      /\ m_index <= Len(argv) => argv[m_index] # "" /\ ~StartsWithDash(argv[m_index])
  BY DEF FirstPath, ToVerification, HasArgsLeft, Arg, Inv, Stage
<1>2. Cursor' /\ MinimumIsSettled' /\ SwitchesAreAsLastSaid'
  BY <1>1, CursorStays
<1>3. FirstPathIndex' = m_index
  BY <1>1 DEF FirstPathIndex
<1>4. Stage' /\ Exited'
  BY <1>1, <1>3 DEF Inv, Stage, Exited, StartsWithDash
<1> QED
  BY <1>1, <1>2, <1>4 DEF Inv

-----------------------------------------------------------------------------
(* "fix default values" and the conflict of the sizes. *)
LEMMA FixedFacts ==
  ASSUME Inv
  PROVE  /\ Fixed \in Records /\ Fixed.on = o.on
         /\ Fixed.minimumfilesize = o.minimumfilesize
         /\ Fixed.checksums # {}
<1> DEFINE max == IF o.maximumfilesize = 0 THEN MaxFileSize ELSE o.maximumfilesize
<1> DEFINE sums == IF o.checksums = {} THEN {"sha1"} ELSE o.checksums
<1>1. max \in 0 .. MaxFileSize
  BY NumberAssumption DEF Inv, Records
<1>2. sums \in SUBSET ChecksumNames /\ sums # {}
  BY DEF Inv, Records, ChecksumNames
<1>3. Fixed = [o EXCEPT !.maximumfilesize = max, !.checksums = sums]
  BY DEF Fixed
<1> HIDE DEF max, sums
<1>4. Fixed \in Records
  BY <1>1, <1>2, <1>3 DEF Inv, Records
<1> QED
  BY <1>2, <1>3, <1>4 DEF Inv, Records

LEMMA VerifyStep ==
  ASSUME Inv, Verify
  PROVE  Inv'
<1>1. /\ o' = Fixed /\ pc = "verify" /\ pc' = "paths"
      /\ UNCHANGED <<argv, m_index, paths, exit_status>>
      /\ o.minimumfilesize < Fixed.maximumfilesize
  BY DEF Verify
<1>2. FirstPathIndex' = FirstPathIndex /\ Cursor' /\ MinimumIsSettled' /\ SwitchesAreAsLastSaid'
  BY <1>1, FixedFacts, CursorStays
<1>3. o'.minimumfilesize < o'.maximumfilesize /\ o'.checksums # {}
  BY <1>1, FixedFacts
<1>4. Stage' /\ Exited'
  BY <1>1, <1>2, <1>3 DEF Inv, Stage, Exited, StartsWithDash
<1> QED
  BY <1>1, <1>2, <1>4, FixedFacts DEF Inv

LEMMA SizesConflictStep ==
  ASSUME Inv, SizesConflict
  PROVE  Inv'
<1>1. /\ pc = "verify" /\ paths = <<>> /\ Exit(EXIT_FAILURE)
      /\ ~(o.minimumfilesize < Fixed.maximumfilesize)
  BY DEF SizesConflict, Inv, Stage
<1>2. FirstPathIndex = m_index
  BY <1>1 DEF FirstPathIndex
<1>3. m_index < Len(argv) => ~Understood(Arg, Value)
  <2> SUFFICES ASSUME m_index < Len(argv), Understood(Arg, Value)
               PROVE  FALSE
    OBVIOUS
  <2>1. m_index <= Len(argv)
    BY LineFacts DEF Inv, Cursor
  <2>2. ~StartsWithDash(Arg)
    BY <1>1, <1>2, <2>1 DEF Inv, Stage, Arg
  <2> QED
    BY <2>2, UnderstoodIsKnown DEF StartsWithDash, KnownOptions
<1>4. o.minimumfilesize >= Fixed.maximumfilesize
  BY <1>1, FixedFacts, NumberAssumption DEF Records
<1>5. /\ argv' = argv /\ o' = o /\ m_index' = m_index /\ Fixed' = Fixed
      /\ exit_status' = EXIT_FAILURE
      /\ Exited' => Inv'
  BY <1>1, ExitKeeps
<1>6. \A p : OptionsEndAt(p)' <=> OptionsEndAt(p)
  BY <1>5 DEF OptionsEndAt
<1>7. \A p \in 1 .. Len(argv) + 1 : OptionsEndAt(p) => p = m_index
  BY <1>2, <1>3, EndIsAtCursor
<1>8. \A p \in 1 .. Len(argv') + 1 :
        OptionsEndAt(p)' => p = m_index' /\ o'.minimumfilesize >= Fixed'.maximumfilesize
  BY <1>4, <1>5, <1>6, <1>7
<1>9. Exited'
  BY <1>5, <1>8, FailureIsNoSuccess DEF Exited
<1> QED
  BY <1>5, <1>9

-----------------------------------------------------------------------------
(* The loop of main() over the paths. *)
LEMMA ScanPathStep ==
  ASSUME Inv, ScanPath
  PROVE  Inv'
<1> DEFINE scanned == <<m_index, Stripped(argv[m_index])>>
<1>1. /\ pc = "paths" /\ m_index <= Len(argv) /\ UNCHANGED <<argv, o, pc, exit_status>>
      /\ paths' = Append(paths, scanned) /\ m_index' = m_index + 1
  BY DEF ScanPath, HasArgsLeft, Arg
<1>2. /\ m_index \in Nat /\ m_index >= 1 /\ Len(argv) \in Nat
      /\ FirstPathIndex \in Nat /\ FirstPathIndex >= 1 /\ FirstPathIndex <= m_index
      /\ Len(paths) = m_index - FirstPathIndex /\ paths \in Seq(Pairs)
  BY LineFacts DEF Inv, Cursor
<1>3. scanned \in Pairs
  BY <1>1, <1>2 DEF Pairs
<1>4. /\ paths' \in Seq(Pairs) /\ Len(paths') = Len(paths) + 1
      /\ \A k \in 1 .. Len(paths) : paths'[k] = paths[k]
      /\ paths'[Len(paths) + 1] = scanned
  BY <1>1, <1>2, <1>3, AppendProperties
<1>5. FirstPathIndex' = FirstPathIndex
  <2>1. paths' # <<>> /\ Len(paths) \in Nat
    BY <1>2, <1>4
  <2>2. CASE paths = <<>>
    BY <1>4, <2>1, <2>2 DEF FirstPathIndex
  <2>3. CASE paths # <<>>
    <3>1. 1 \in 1 .. Len(paths)
      BY <1>2, <2>1, <2>3
    <3> QED
      BY <1>4, <2>1, <2>3, <3>1 DEF FirstPathIndex
  <2> QED
    BY <2>2, <2>3
<1>6. Places' = Places /\ MinimumIsSettled' /\ SwitchesAreAsLastSaid'
  BY <1>1, <1>5, SaidStays
<1>7. Cursor'
  <2>1. /\ m_index' \in 1 .. Len(argv) + 1 /\ FirstPathIndex \in 1 .. m_index'
        /\ Len(paths') = m_index' - FirstPathIndex
    BY <1>1, <1>2, <1>4
  <2>2. FirstPathIndex % 2 = 1 /\ \A i \in Places : Understood(argv[i], argv[i + 1])
    BY DEF Inv, Cursor
  <2>3. ASSUME NEW k \in 1 .. Len(paths')
        PROVE  paths'[k] = <<FirstPathIndex + k - 1, Stripped(argv[FirstPathIndex + k - 1])>>
    <3>1. CASE k \in 1 .. Len(paths)
      BY <1>4, <3>1 DEF Inv, Cursor
    <3>2. CASE k = Len(paths) + 1
      <4>1. FirstPathIndex + k - 1 = m_index
        BY <1>2, <3>2
      <4> QED
        BY <1>4, <3>2, <4>1
    <3> QED
      BY <1>2, <1>4, <3>1, <3>2
  <2>4. Pairs' = Pairs
    BY <1>1 DEF Pairs
  <2> QED
    BY <1>1, <1>4, <1>5, <1>6, <2>1, <2>2, <2>3, <2>4 DEF Cursor
<1>8. Stage' /\ Exited'
  BY <1>1, <1>5 DEF Inv, Stage, Exited, StartsWithDash
<1> QED
  BY <1>1, <1>6, <1>7, <1>8 DEF Inv

LEMMA ScannedStep ==
  ASSUME Inv, Scanned
  PROVE  Inv'
<1>1. /\ pc = "paths" /\ pc' = "scanned" /\ ~(m_index <= Len(argv))
      /\ UNCHANGED <<argv, m_index, o, paths, exit_status>>
  BY DEF Scanned, HasArgsLeft
<1>2. FirstPathIndex' = FirstPathIndex /\ Cursor' /\ MinimumIsSettled' /\ SwitchesAreAsLastSaid'
  BY <1>1, CursorStays
<1>3. m_index = Len(argv) + 1
  BY <1>1, LineFacts DEF Inv, Cursor
<1>4. Stage' /\ Exited'
  BY <1>1, <1>2, <1>3 DEF Inv, Stage, Exited, StartsWithDash
<1> QED
  BY <1>1, <1>2, <1>4 DEF Inv

LEMMA NothingChanges ==
  ASSUME Inv, UNCHANGED vars
  PROVE  Inv'
<1>1. UNCHANGED <<argv, m_index, o, paths, pc, exit_status>>
  BY DEF vars
<1>2. FirstPathIndex' = FirstPathIndex /\ Cursor' /\ MinimumIsSettled' /\ SwitchesAreAsLastSaid'
  BY <1>1, CursorStays
<1>3. Stage'
  BY <1>1, <1>2 DEF Inv, Stage, StartsWithDash
<1>4. Exited'
  <2>1. Fixed' = Fixed /\ \A p : OptionsEndAt(p)' <=> OptionsEndAt(p)
    BY <1>1 DEF Fixed, OptionsEndAt
  <2> QED
    BY <1>1, <2>1 DEF Inv, Exited
<1> QED
  BY <1>1, <1>2, <1>3, <1>4 DEF Inv

LEMMA InvNext ==
  ASSUME Inv, [Next]_vars
  PROVE  Inv'
<1>1. CASE ParseOption
  BY <1>1, SwitchStep, SizeStep, IgnoreEmptyStep, OtherStep DEF ParseOption
<1>2. CASE Refuse
  <2>1. CASE pc = "options"
    BY <1>2, <2>1, RefuseStep
  <2>2. CASE pc # "options"
    <3>1. SizesConflict
      BY <1>2, <2>2 DEF Refuse, EmptyArgument, ValueMissing, NeitherTrueNorFalse, SizeThrows,
         BadChecksum, BadBufferSize, BadSleep, UnknownOption, AtOption, AtArgument
    <3> QED
      BY <3>1, SizesConflictStep
  <2> QED
    BY <2>1, <2>2
<1>3. CASE NoArguments \/ Help \/ FirstPath
  BY <1>3, NoArgumentsStep, HelpStep, FirstPathStep
<1>4. CASE Verify \/ ScanPath \/ Scanned
  BY <1>4, VerifyStep, ScanPathStep, ScannedStep
<1>5. CASE UNCHANGED vars
  BY <1>5, NothingChanges
<1> QED
  BY <1>1, <1>2, <1>3, <1>4, <1>5 DEF Next, System, Stopped

LEMMA AlwaysInv == Spec => []Inv
<1>1. Init => Inv
  BY InvInit
<1>2. Inv /\ [Next]_vars => Inv'
  BY InvNext
<1> QED
  BY <1>1, <1>2, PTL DEF Spec

-----------------------------------------------------------------------------
(* Every member of struct Options keeps to its range, and the cursor of     *)
(* class Parser to the arguments.                                           *)
THEOREM TypeCorrect == Spec => []TypeOK
<1>1. Inv => TypeOK
  <2> SUFFICES ASSUME Inv
               PROVE  TypeOK
    OBVIOUS
  <2>1. /\ o.on \subseteq {p[2] : p \in SwitchOptions}
        /\ {o.minimumfilesize, o.maximumfilesize, o.first_bytes_size, o.last_bytes_size} \subseteq Nat
        /\ o.checksums \subseteq ChecksumNames /\ o.buffersize \in 1 .. MaxBufferSize
        /\ o.msecsleep \in Nat
    BY NumberAssumption DEF Inv, Records, Members
  <2>2. \A k \in DOMAIN paths : paths[k][1] \in 1 .. Len(argv)
    <3>1. \A k \in DOMAIN paths : paths[k] \in Pairs
      BY DEF Inv, Cursor
    <3> QED
      BY <3>1 DEF Pairs
  <2> QED
    BY <2>1, <2>2 DEF Inv, Cursor, Stage, TypeOK
<1> QED
  BY <1>1, AlwaysInv, PTL

(* A bounded set of numbers has a greatest one.                             *)
LEMMA Greatest ==
  ASSUME NEW S \in SUBSET Nat, S # {}, NEW m \in Nat, \A i \in S : i <= m
  PROVE  \E i \in S : \A j \in S : j <= i
<1> DEFINE R == OpToRel(<, Nat)
<1> DEFINE T == {n \in Nat : m - n \in S}
<1>1. IsWellFoundedOn(R, Nat)
  BY NatLessThanWellFounded
<1>2. \A p, n \in Nat : <<p, n>> \in R <=> p < n
  BY DEF OpToRel
<1>3. \A i \in S : m - i \in T
  OBVIOUS
<1>4. T \subseteq Nat /\ T # {}
  BY <1>3
<1> HIDE DEF R
<1>5. PICK n \in T : \A p \in T : ~(<<p, n>> \in R)
  <2> HIDE DEF T
  <2> QED
    BY <1>1, <1>4, WFMin
<1>6. ASSUME NEW p \in T
      PROVE  n <= p
  <2>1. p \in Nat /\ n \in Nat /\ ~(<<p, n>> \in R)
    BY <1>5
  <2>2. ~(p < n)
    BY <1>2, <2>1
  <2> QED
    BY <2>1, <2>2
<1>7. m - n \in S /\ n \in Nat
  BY <1>5
<1>8. ASSUME NEW j \in S
      PROVE  j <= m - n
  <2>1. n <= m - j /\ j \in Nat
    BY <1>3, <1>6
  <2> QED
    BY <1>7, <2>1
<1> QED
  BY <1>7, <1>8

(* What was said about the minimum was understood.                          *)
LEMMA SaidOfMinimum ==
  ASSUME Inv
  PROVE  /\ Said(MinimumOptions) \in SUBSET Nat
         /\ FirstPathIndex \in Nat /\ \A i \in Said(MinimumOptions) : i <= FirstPathIndex
         /\ \A i \in Said(MinimumOptions) :
              \/ argv[i] = "-minsize" /\ NumberIn(argv[i + 1]) \in Nat
              \/ argv[i] = "-ignoreempty" /\ argv[i + 1] \in {"true", "false"}
<1>1. FirstPathIndex \in Nat
  BY LineFacts DEF Inv, Cursor
<1>2. \A i \in Places : i \in Nat /\ i <= FirstPathIndex
  BY <1>1 DEF Places
<1>3. ASSUME NEW i \in Said(MinimumOptions)
      PROVE  \/ argv[i] = "-minsize" /\ NumberIn(argv[i + 1]) \in Nat
             \/ argv[i] = "-ignoreempty" /\ argv[i + 1] \in {"true", "false"}
  <2>1. i \in Places /\ argv[i] \in MinimumOptions
    BY DEF Said
  <2>2. Understood(argv[i], argv[i + 1])
    BY <2>1 DEF Inv, Cursor
  <2>3. CASE argv[i] = "-minsize"
    <3>1. argv[i] \in Words(SizeOptions) /\ argv[i] \notin BoolOptions
      BY <2>3, SizeWords, SwitchWords DEF BoolOptions
    <3> QED
      BY <2>2, <2>3, <3>1 DEF Understood
  <2>4. CASE argv[i] = "-ignoreempty"
    <3>1. argv[i] \notin Words(SizeOptions)
      BY <2>4, SizeWords
    <3> QED
      BY <2>2, <2>4, <3>1 DEF Understood
  <2> QED
    BY <2>1, <2>3, <2>4 DEF MinimumOptions
<1> QED
  BY <1>1, <1>2, <1>3 DEF Said

(* -minsize and -ignoreempty, which write one member, leave in it what the  *)
(* manual says of the last of them, in whatever order they were given,      *)
(* except that -ignoreempty true does not lower a larger -minsize.          *)
THEOREM MinimumSizeFollowsTheLine == Spec => []MinimumSizeIsAsSaid
<1>1. Inv => MinimumSizeIsAsSaid
  <2> SUFFICES ASSUME Inv
               PROVE  MinimumSizeIsAsSaid
    OBVIOUS
  <2>1. /\ Settling = {} => o.minimumfilesize = 1
        /\ \A i \in Settling :
             (\A j \in Settling : j <= i) => o.minimumfilesize = MinimumSaidBy(i)
    BY DEF Inv, MinimumIsSettled
  <2>2. Settling \subseteq Said(MinimumOptions)
    BY DEF Settling
  <2>3. \A i \in Said(MinimumOptions) : i \notin Settling =>
          argv[i] = "-ignoreempty" /\ argv[i + 1] = "true" /\ MinimumSaidAt(i) = 1
    BY SaidOfMinimum DEF Settling, MinimumSaidAt
  <2>4. \A i \in Settling : SaidAt(i) = MinimumSaidAt(i) /\ SaidAt(i) \in Nat
    BY <2>2, SaidOfMinimum DEF Settling, SaidAt, MinimumSaidAt
  <2>5. ASSUME NEW i \in NotLowered
        PROVE  o.minimumfilesize = MinimumSaidAt(i)
    <3>1. i \in Settling /\ MinimumSaidAt(i) > 1
      BY DEF NotLowered, Settling, Said, MinimumOptions
    <3>2. \A j \in Settling : j <= i
      <4> SUFFICES ASSUME NEW j \in Settling, j > i
                   PROVE  FALSE
        BY <2>2, <3>1, SaidOfMinimum
      <4>1. argv[j] = "-ignoreempty" /\ argv[j + 1] = "true"
        BY <2>2 DEF NotLowered
      <4> QED
        BY <4>1 DEF Settling
    <3>3. o.minimumfilesize = MinimumSaidBy(i)
      BY <2>1, <3>1, <3>2
    <3>4. SaidAt(i) # 0
      BY <2>4, <3>1
    <3> QED
      BY <2>4, <3>1, <3>3, <3>4 DEF MinimumSaidBy
  <2>6. ASSUME NotLowered = {}, Settling = {}
        PROVE  IgnoreEmptyIsAMinsize
    BY <2>1, <2>3, <2>6 DEF IgnoreEmptyIsAMinsize
  <2>7. ASSUME NotLowered = {}, Settling # {}
        PROVE  IgnoreEmptyIsAMinsize
    <3>1. PICK s \in Settling : \A j \in Settling : j <= s
      BY <2>2, <2>7, SaidOfMinimum, Greatest
    <3>2. o.minimumfilesize = MinimumSaidBy(s) /\ s \in Said(MinimumOptions) /\ s \in Nat
      BY <2>1, <2>2, <3>1, SaidOfMinimum
    <3>3. ASSUME NEW j \in Said(MinimumOptions), j > s
          PROVE  argv[j] = "-ignoreempty" /\ argv[j + 1] = "true" /\ MinimumSaidAt(j) = 1
      <4>1. j \notin Settling
        BY <3>1, <3>2, <3>3, SaidOfMinimum
      <4> QED
        BY <2>3, <4>1
    <3>4. MinimumSaidAt(s) <= 1
      <4> SUFFICES ASSUME MinimumSaidAt(s) > 1
                   PROVE  FALSE
        BY <2>4, <3>1
      <4>1. argv[s] = "-minsize"
        BY DEF MinimumSaidAt
      <4>2. s \in NotLowered
        BY <3>2, <3>3, <4>1 DEF NotLowered, Said
      <4> QED
        BY <2>7, <4>2
    <3>5. ASSUME NEW i \in Said(MinimumOptions), IsLatest(i, MinimumOptions)
          PROVE  o.minimumfilesize = MinimumSaidAt(i)
      <4>1. i >= s /\ i \in Nat /\ \A j \in Said(MinimumOptions) : j <= i
        BY <3>2, <3>5, SaidOfMinimum DEF IsLatest
      <4>2. CASE i = s
        <5>1. ~ \E j \in Said(MinimumOptions) : j > s
          BY <3>2, <4>1, <4>2, SaidOfMinimum
        <5> QED
          BY <2>4, <3>1, <3>2, <4>2, <5>1 DEF MinimumSaidBy
      <4>3. CASE i > s
        <5>1. MinimumSaidBy(s) = IF SaidAt(s) = 0 THEN 1 ELSE SaidAt(s)
          BY <4>3 DEF MinimumSaidBy
        <5>2. SaidAt(s) \in {0, 1}
          BY <2>4, <3>1, <3>4
        <5> QED
          BY <3>2, <3>3, <4>3, <5>1, <5>2
      <4> QED
        BY <3>2, <4>1, <4>2, <4>3
    <3> QED
      BY <3>2, <3>5 DEF IgnoreEmptyIsAMinsize
  <2> QED
    BY <2>5, <2>6, <2>7 DEF MinimumSizeIsAsSaid
<1> QED
  BY <1>1, AlwaysInv, PTL

(* What rdfind does to duplicates is what the command line said last.       *)
THEOREM SwitchesFollowTheLine == Spec => []SwitchesAreAsLastSaid
<1>1. Inv => SwitchesAreAsLastSaid
  BY DEF Inv
<1> QED
  BY <1>1, AlwaysInv, PTL

(* rdfind goes on to the paths exactly if it understood every option: no    *)
(* option is skipped, and none that is well formed is refused.              *)
THEOREM ExactlyTheUnderstoodIsAccepted == Spec => []AcceptedIffUnderstood
<1>1. Inv => AcceptedIffUnderstood
  <2> SUFFICES ASSUME Inv
               PROVE  AcceptedIffUnderstood
    OBVIOUS
  <2>1. pc \in {"paths", "scanned"} => OptionsEndAt(FirstPathIndex)
    BY DEF Inv, Cursor, Stage, Places, OptionsEndAt
  <2> QED
    BY <2>1 DEF Inv, Exited, AcceptedIffUnderstood
<1> QED
  BY <1>1, AlwaysInv, PTL

(* The stages of Rdutil start with sizes, a buffer and a checksum they can  *)
(* work with, and with every path that was given, in its place.             *)
THEOREM EveryPathIsScanned == Spec => []ScannedAsGiven
<1>1. Inv => ScannedAsGiven
  <2> SUFFICES ASSUME Inv, pc = "scanned"
               PROVE  /\ o.minimumfilesize < o.maximumfilesize /\ o.maximumfilesize <= MaxFileSize
                      /\ o.buffersize > 0 /\ o.checksums # {}
                      /\ \A i \in FirstPathIndex .. Len(argv) :
                           LET k == i - FirstPathIndex + 1
                           IN  k \in DOMAIN paths /\ paths[k] = <<i, Stripped(argv[i])>>
                      /\ \A i \in 1 .. FirstPathIndex - 1 : \A k \in DOMAIN paths : paths[k][1] # i
    BY DEF ScannedAsGiven
  <2>1. o.minimumfilesize < o.maximumfilesize /\ o.checksums # {} /\ m_index = Len(argv) + 1
    BY DEF Inv, Stage
  <2>2. o.maximumfilesize \in 0 .. MaxFileSize /\ o.buffersize \in 1 .. MaxBufferSize
    BY DEF Inv, Records
  <2>3. o.maximumfilesize <= MaxFileSize /\ o.buffersize > 0
    BY <2>2, NumberAssumption
  <2>4. /\ Len(argv) \in Nat /\ FirstPathIndex \in Nat /\ FirstPathIndex >= 1
        /\ DOMAIN paths = 1 .. Len(argv) + 1 - FirstPathIndex
        /\ \A k \in DOMAIN paths :
             paths[k] = <<FirstPathIndex + k - 1, Stripped(argv[FirstPathIndex + k - 1])>>
    <3>1. Len(argv) \in Nat /\ FirstPathIndex \in Nat /\ FirstPathIndex >= 1
      BY LineFacts DEF Inv, Cursor
    <3>2. DOMAIN paths = 1 .. Len(paths) /\ Len(paths) = Len(argv) + 1 - FirstPathIndex
      BY <2>1 DEF Inv, Cursor
    <3>3. \A k \in 1 .. Len(paths) :
            paths[k] = <<FirstPathIndex + k - 1, Stripped(argv[FirstPathIndex + k - 1])>>
      BY DEF Inv, Cursor
    <3> QED
      BY <3>1, <3>2, <3>3
  <2>5. ASSUME NEW i \in FirstPathIndex .. Len(argv)
        PROVE  LET k == i - FirstPathIndex + 1
               IN  k \in DOMAIN paths /\ paths[k] = <<i, Stripped(argv[i])>>
    <3> DEFINE k == i - FirstPathIndex + 1
    <3>1. k \in DOMAIN paths /\ FirstPathIndex + k - 1 = i
      BY <2>4
    <3> HIDE DEF k
    <3>2. paths[k] = <<i, Stripped(argv[i])>>
      BY <2>4, <3>1
    <3> USE DEF k
    <3> QED
      BY <3>1, <3>2
  <2>6. \A i \in 1 .. FirstPathIndex - 1 : \A k \in DOMAIN paths : paths[k][1] # i
    BY <2>4
  <2> QED
    BY <2>1, <2>3, <2>5, <2>6
<1> QED
  BY <1>1, AlwaysInv, PTL
=============================================================================
