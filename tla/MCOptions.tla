------------------------------ MODULE MCOptions ------------------------------
(* Command lines for TLC. *)
EXTENDS Options

(* An argument of each kind. -1 and --no start with a dash. *)
MCDashWords == {"-1", "--no"}
MCNumbers ==
  {<<"-1", -1>>, <<"0", 0>>, <<"1", 1>>, <<"5", 5>>,
   <<"134217728", 134217728>>, <<"134217729", 134217729>>}
MCNumberIn(arg) ==
  IF \E p \in MCNumbers : p[1] = arg
    THEN (CHOOSE p \in MCNumbers : p[1] = arg)[2]
    ELSE NotANumber
MCStripped(arg) == IF arg = "dir/" THEN "dir" ELSE arg

Lines(words, n) == UNION {[1 .. k -> words] : k \in 0 .. n}

(* every kind of argument in lines of up to three *)
MCKinds ==
  {"-deleteduplicates", "-n", "-dryrun", "-ignoreempty", "-minsize", "-maxsize", "-outputname",
   "-checksum", "-buffersize", "-sleep", "-help", "-v",
   "true", "false", "none", "xxh128", "1ms", "134217728", "134217729"}
    \cup {"", "dir/", "0"} \cup MCDashWords

(* the options that set sizes, in lines of up to three of them and a path *)
MCSizes == {"-ignoreempty", "-minsize"}
MCSizeValues == {"true", "false", "0", "5"}
MCSizeLines ==
  {<<a, v, b, w, c, x, "-maxsize", "5", "dir/">> :
     a, b, c \in MCSizes, v, w, x \in MCSizeValues}
(* switches that share a member, and paths that look like options *)
MCSwitchLines ==
  {<<a, v, b, w, "dir/", c, x>> :
     a, b, c \in {"-n", "-dryrun", "-makesymlinks"}, v, w, x \in {"true", "false"}}

(* two options whose errors come after one another *)
MCPairLines ==
  {<<a, v, b, w>> :
     a, b \in {"-minsize", "-maxsize", "-checksum", "-buffersize", "-sleep", "-n"},
     v, w \in {"true", "none", "1ms", "0", "1", "-1", "134217729"}}

MCCommandLines == Lines(MCKinds, 3) \cup MCPairLines \cup MCSizeLines \cup MCSwitchLines
=============================================================================
