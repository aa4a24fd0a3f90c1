---------------------------- MODULE DirlistProofs ----------------------------
(***************************************************************************)
(* Theorems about Dirlist, for any file system, any command line, and any  *)
(* changes to the file system while it is scanned.                         *)
(***************************************************************************)
EXTENDS Dirlist, SequenceTheorems, FiniteSetTheorems, WellFoundedInduction, TLAPS

-----------------------------------------------------------------------------
(* Induction over the natural numbers, as a fact about sets.                *)
LEMMA LeastNumber ==
  ASSUME NEW T \in SUBSET Nat, T # {}
  PROVE  \E n \in T : \A m \in T : n <= m
<1> DEFINE R == OpToRel(<, Nat)
<1>1. IsWellFoundedOn(R, Nat)
  BY NatLessThanWellFounded
<1>2. \A m, n \in Nat : <<m, n>> \in R <=> m < n
  BY DEF OpToRel
<1> HIDE DEF R
<1>3. PICK n \in T : \A m \in T : ~ (<<m, n>> \in R)
  BY <1>1, WFMin
<1>4. ASSUME NEW m \in T
      PROVE  n <= m
  <2>1. m \in Nat /\ n \in Nat /\ ~ (<<m, n>> \in R)
    BY <1>3
  <2>2. ~(m < n)
    BY <1>2, <2>1
  <2> QED
    BY <2>1, <2>2
<1> QED
  BY <1>4

LEMMA Induction ==
  ASSUME NEW S, 0 \in S, \A n \in Nat : n \in S => n + 1 \in S
  PROVE  Nat \subseteq S
<1> SUFFICES ASSUME NEW k \in Nat, k \notin S
             PROVE  FALSE
  OBVIOUS
<1> DEFINE T == Nat \ S
<1>1. PICK n \in T : \A m \in T : n <= m
  BY LeastNumber
<1>2. n # 0 /\ n - 1 \in Nat /\ n - 1 \in S
  BY <1>1
<1> QED
  BY <1>2

-----------------------------------------------------------------------------
(* Following symbolic links.                                                *)

(* one step *)
Step(e) == IF kind[e] = "symlink" THEN link[e] ELSE e

LEMMA FollowIs ==
  ASSUME NEW e
  PROVE  /\ Follow(e, 0) = e
         /\ \A n \in Nat : Follow(e, n + 1) = Step(Follow(e, n))
<1> DEFINE Def(F) == [k \in Nat |->
             IF k = 0 THEN e
             ELSE IF kind[F[k - 1]] = "symlink" THEN link[F[k - 1]] ELSE F[k - 1]]
<1> DEFINE Starts(n, g) == g[0] = e /\ \A k \in 1 .. n : g[k] = Step(g[k - 1])
<1> DEFINE Good == {n \in Nat : \E g : Starts(n, g)}
<1>1. \A n \in Nat : \E g : Starts(n, g)
  <2>1. 0 \in Good
    <3>1. Starts(0, [k \in {0} |-> e])
      OBVIOUS
    <3> QED
      BY <3>1
  <2>2. ASSUME NEW n \in Nat, n \in Good
        PROVE  n + 1 \in Good
    <3>1. PICK g : Starts(n, g)
      BY <2>2
    <3> DEFINE h == [k \in 0 .. n + 1 |-> IF k = n + 1 THEN Step(g[n]) ELSE g[k]]
    <3>2. h[0] = e
      BY <3>1
    <3>3. ASSUME NEW k \in 1 .. n + 1
          PROVE  h[k] = Step(h[k - 1])
      <4>1. k - 1 \in 0 .. n /\ h[k - 1] = g[k - 1]
        OBVIOUS
      <4>2. k # n + 1 => k \in 1 .. n
        OBVIOUS
      <4> QED
        BY <3>1, <4>1, <4>2
    <3>4. Starts(n + 1, h)
      BY <3>2, <3>3
    <3> HIDE DEF h, Starts
    <3> QED
      BY <3>4
  <2> HIDE DEF Good
  <2>3. Nat \subseteq Good
    BY <2>1, <2>2, Induction
  <2> QED
    BY <2>3 DEF Good
<1>2. ASSUME NEW n \in Nat, NEW m \in Nat, NEW g, NEW h, Starts(n, g), Starts(m, h),
             NEW k \in 0 .. n, k <= m
      PROVE  g[k] = h[k]
  <2> DEFINE Same == {j \in Nat : j <= n /\ j <= m => g[j] = h[j]}
  <2>1. 0 \in Same
    BY <1>2
  <2>2. ASSUME NEW j \in Nat, j \in Same
        PROVE  j + 1 \in Same
    <3>1. j + 1 <= n /\ j + 1 <= m => g[j] = h[j]
      BY <2>2
    <3>2. j + 1 <= n /\ j + 1 <= m => g[j + 1] = Step(g[j]) /\ h[j + 1] = Step(h[j])
      BY <1>2
    <3> QED
      BY <3>1, <3>2
  <2> HIDE DEF Same
  <2>3. Nat \subseteq Same
    BY <2>1, <2>2, Induction
  <2>4. k \in Same
    BY <2>3
  <2> QED
    BY <1>2, <2>4 DEF Same
<1> DEFINE some(n) == CHOOSE g : Starts(n, g)
<1>3. \A n \in Nat : Starts(n, some(n))
  BY <1>1
<1> HIDE DEF some
<1> DEFINE H == [n \in Nat |-> some(n)[n]]
<1>4. H = Def(H)
  <2>1. ASSUME NEW k \in Nat
        PROVE  H[k] = IF k = 0 THEN e ELSE Step(H[k - 1])
    <3>1. CASE k = 0
      BY <1>3, <3>1
    <3>2. CASE k # 0
      <4>1. k - 1 \in Nat /\ k \in 1 .. k
        BY <3>2
      <4>2. some(k)[k] = Step(some(k)[k - 1])
        BY <1>3, <4>1
      <4>3. some(k)[k - 1] = some(k - 1)[k - 1]
        <5>1. Starts(k, some(k)) /\ Starts(k - 1, some(k - 1))
          BY <1>3, <4>1
        <5>2. k - 1 \in 0 .. k /\ k - 1 <= k - 1
          BY <4>1
        <5> HIDE DEF Starts
        <5> QED
          BY <1>2, <4>1, <5>1, <5>2
      <4> QED
        BY <3>2, <4>1, <4>2, <4>3
    <3> QED
      BY <3>1, <3>2
  <2>2. \A k \in Nat : k # 0 => k - 1 \in Nat
    OBVIOUS
  <2> QED
    BY <2>1, <2>2 DEF Step
<1> DEFINE F == CHOOSE G : G = Def(G)
<1>5. F = Def(F)
  BY <1>4
<1>6. \A n \in Nat : Follow(e, n) = F[n]
  BY DEF Follow
<1> HIDE DEF F
<1>7. F[0] = e
  BY <1>5
<1>8. \A n \in Nat : F[n + 1] = Step(F[n])
  BY <1>5 DEF Step
<1> QED
  BY <1>6, <1>7, <1>8

-----------------------------------------------------------------------------
(* The invariant.                                                           *)

Prefix(p, q) == Len(p) <= Len(q) /\ \A k \in 1 .. Len(p) : q[k] = p[k]

Calls == {"walk", "possible", "report_file", "report_link", "report_possible"}

Current == arguments[current_cmdline_index]

(* The frames of the stack go down one path, and each one's next entry was   *)
(* read from its directory; the call in progress goes one further. Said of a *)
(* path that has entered n frames.                                           *)
Descends(frames, start, p, n) ==
  /\ Len(p) = n + 1
  /\ p[1] = start
  /\ \A j \in 1 .. n : Prefix(frames[j].path, p) /\ p[j + 1] \in frames[j].seen

WalkShape ==
  /\ \A k \in DOMAIN stack :
       /\ Descends(stack, Current, stack[k].path, k - 1)
       /\ \A e \in stack[k].seen : Parent[e] = stack[k].dir /\ ~IsTop(e)
  /\ pc \in Calls => path \in Paths /\ Descends(stack, Current, path, Len(stack))
  /\ pc \in {"read", "report_file", "report_link"} => stack # <<>>
  /\ pc \in {"argument", "walked"} => stack = <<>>
  /\ pc \in {"possible", "report_possible"} => Len(stack) < MaxDepth
  /\ pc # "argument" => current_cmdline_index <= Len(arguments)

(* What is walked and reported is what leads from an argument through        *)
(* directories and followed links, so far as nothing on the way changed.     *)
FollowedLink(e) == kind[e] = "symlink" /\ options.followsymlinks

FrameLed(i, frame, k) ==
  Clean(frame.path) =>
    /\ Leads(i, frame.path)
    /\ frame.dir = Real(Last(frame.path)) /\ kind[Real(Last(frame.path))] = "dir"
    /\ kind[Last(frame.path)] = "symlink" => options.followsymlinks \/ k = 1

CallLed(i, call, p, inside) ==
  Clean(p) =>
    /\ Leads(i, p)
    /\ call = "report_file" => kind[Last(p)] = "file"
    /\ call = "report_link" => FollowedLink(Last(p))
    /\ call \in {"walk", "possible"} /\ inside =>
         kind[Last(p)] = "dir" \/ FollowedLink(Last(p))
    /\ call = "report_possible" =>
         (kind[Last(p)] = "file" /\ ~inside) \/ FollowedLink(Last(p))

ItemLed(x) == Clean(x.path) => x \in Expected

LedFor(i, frames, call, p, list) ==
  /\ \A k \in DOMAIN frames : FrameLed(i, frames[k], k)
  /\ call \in Calls => CallLed(i, call, p, frames # <<>>)
  /\ \A k \in DOMAIN list : ItemLed(list[k])

Led == LedFor(current_cmdline_index, stack, pc, path, filelist)

(* The items before this one are in order; the others are in the order of    *)
(* readdir().                                                                *)
Settled == IF pc = "argument" THEN Len(filelist) ELSE lastsize

InOrder(x, y) ==
  \/ x.cmdline_index < y.cmdline_index
  \/ /\ x.cmdline_index = y.cmdline_index
     /\ options.deterministic => DepthNameLess(x, y)

SettledInOrder ==
  \A k \in 1 .. Settled :
    /\ filelist[k].cmdline_index < current_cmdline_index
    /\ \A j \in 1 .. k - 1 : InOrder(filelist[j], filelist[k])

(* No item is reported twice, because no directory is opened twice under a   *)
(* path, and no entry read twice from a directory.                           *)
NewItem(x, i, start, frames, call, p) ==
  /\ x.cmdline_index = i /\ x.path[1] = start
  /\ \A j \in DOMAIN frames :
       Prefix(frames[j].path, x.path) =>
         Len(x.path) = j \/ x.path[j + 1] \in frames[j].seen
  /\ call \in Calls /\ Prefix(p, x.path) =>
       /\ call \in {"walk", "possible", "report_possible"}
       /\ Len(x.path) = Len(p) /\ x.depth = Len(p) - 2

Differ(x, y) ==
  /\ x.path # y.path \/ x.depth # y.depth
  /\ Siblings(x.path, y.path)

NewestDiffer ==
  \A k \in Settled + 1 .. Len(filelist) :
    /\ NewItem(filelist[k], current_cmdline_index, Current, stack, pc, path)
    /\ \A j \in Settled + 1 .. Len(filelist) : j # k => Differ(filelist[j], filelist[k])

(* Whether the walk will still come to x.                                    *)
Unread(x) ==
  \E j \in DOMAIN stack :
    /\ Prefix(stack[j].path, x.path) /\ Len(x.path) > j
    /\ x.path[j + 1] \notin stack[j].seen
InCall(x) ==
  /\ pc \in Calls /\ Prefix(path, x.path)
  /\ pc = "walk" => Len(x.path) > Len(path) \/ x.depth = Len(path) - 1
  /\ pc \in {"possible", "report_possible"} =>
       Len(x.path) = Len(path) /\ x.depth = Len(path) - 1
  /\ pc = "report_file" => Len(x.path) = Len(path) /\ x.depth = Len(path) - 2
Found(x) == \E k \in DOMAIN filelist : filelist[k] = x

AccountedFor(x) ==
  /\ x.cmdline_index < current_cmdline_index => Found(x)
  /\ x.cmdline_index = current_cmdline_index /\ pc # "argument" =>
       Found(x) \/ Unread(x) \/ InCall(x)

Accounted ==
  \A x \in Expected : Clean(x.path) /\ ~Hidden(x.path) => AccountedFor(x)

IInv == TypeOK /\ WalkShape /\ Led /\ SettledInOrder /\ NewestDiffer /\ Accounted

LEMMA FollowAll ==
  \A e : /\ Follow(e, 0) = e
         /\ \A n \in Nat : Follow(e, n + 1) = Step(Follow(e, n))
BY FollowIs

LEMMA FollowAllNext ==
  \A e : /\ Follow(e, 0)' = e
         /\ \A n \in Nat : Follow(e, n + 1)' = Step(Follow(e, n))'
<1>1. (\A e : /\ Follow(e, 0) = e
              /\ \A n \in Nat : Follow(e, n + 1) = Step(Follow(e, n)))'
  BY FollowAll, PTL
<1> QED
  BY <1>1

LEMMA FollowStays ==
  ASSUME NEW e, kind[e] # "symlink"
  PROVE  \A n \in Nat : Follow(e, n) = e
<1> DEFINE S == {n \in Nat : Follow(e, n) = e}
<1>1. 0 \in S
  BY FollowAll
<1>2. ASSUME NEW n \in Nat, n \in S
      PROVE  n + 1 \in S
  BY <1>2, FollowAll DEF Step
<1> HIDE DEF S
<1>3. Nat \subseteq S
  BY <1>1, <1>2, Induction
<1> QED
  BY <1>3 DEF S

LEMMA FollowType ==
  ASSUME link \in [Entries -> Entries], NEW e \in Entries
  PROVE  \A n \in Nat : Follow(e, n) \in Entries
<1> DEFINE S == {n \in Nat : Follow(e, n) \in Entries}
<1>1. 0 \in S
  BY FollowAll
<1>2. ASSUME NEW n \in Nat, n \in S
      PROVE  n + 1 \in S
  BY <1>2, FollowAll DEF Step
<1> HIDE DEF S
<1>3. Nat \subseteq S
  BY <1>1, <1>2, Induction
<1> QED
  BY <1>3 DEF S

LEMMA EntriesFinite == Cardinality(Entries) \in Nat
BY EntriesAssumption, FS_CardinalityType

LEMMA RealOfPlain ==
  ASSUME NEW e, kind[e] # "symlink"
  PROVE  Real(e) = e
BY FollowStays, EntriesFinite DEF Real

LEMMA RealType ==
  ASSUME link \in [Entries -> Entries], NEW e \in Entries
  PROVE  Real(e) \in Entries
BY FollowType, EntriesFinite DEF Real

-----------------------------------------------------------------------------
(* Paths.                                                                   *)

LEMMA PathsAre ==
  \A p : p \in Paths <=> p \in Seq(Entries) /\ Len(p) \in 1 .. MaxDepth + 1
<1>1. ASSUME NEW p \in Paths
      PROVE  p \in Seq(Entries) /\ Len(p) \in 1 .. MaxDepth + 1
  <2>1. PICK n \in 1 .. MaxDepth + 1 : p \in [1 .. n -> Entries]
    BY DEF Paths
  <2> QED
    BY <2>1, BoundsAssumption
<1>2. ASSUME NEW p, p \in Seq(Entries) /\ Len(p) \in 1 .. MaxDepth + 1
      PROVE  p \in Paths
  <2>1. p \in [1 .. Len(p) -> Entries]
    BY <1>2
  <2> QED
    BY <1>2, <2>1 DEF Paths
<1> QED
  BY <1>1, <1>2

LEMMA CleanPrefix ==
  ASSUME NEW p \in Paths, NEW q \in Paths, Prefix(p, q), Clean(q)
  PROVE  Clean(p)
<1>1. \A k \in DOMAIN p : k \in DOMAIN q /\ q[k] = p[k]
  BY PathsAre DEF Prefix
<1> QED
  BY <1>1 DEF Clean

LEMMA SubSeqIsPrefix ==
  ASSUME NEW p \in Paths, NEW q \in Paths, Prefix(p, q)
  PROVE  SubSeq(q, 1, Len(p)) = p /\ Len(p) \in DOMAIN q
<1>1. Len(p) \in 1 .. Len(q) /\ q \in Seq(Entries) /\ p \in Seq(Entries)
  BY PathsAre DEF Prefix
<1> DEFINE s == SubSeq(q, 1, Len(p))
<1>2. s \in Seq(Entries) /\ Len(s) = Len(p) /\ \A i \in 1 .. Len(p) : s[i] = q[i]
  BY <1>1
<1> HIDE DEF s
<1>3. \A i \in 1 .. Len(p) : s[i] = p[i]
  BY <1>2 DEF Prefix
<1> QED
  BY <1>1, <1>2, <1>3, SeqEqual DEF s

(* Paths that lead somewhere can be looked up.                              *)
LEMMA LeadsIsReachable ==
  ASSUME NEW i, NEW p, Leads(i, p)
  PROVE  Reachable(p)
BY DEF Leads, Reachable

-----------------------------------------------------------------------------
(* What the owner does elsewhere makes no difference to a path.             *)

LEMMA WorldStep ==
  ASSUME TypeOK, [Next]_vars
  PROVE  /\ options' = options /\ arguments' = arguments
         /\ touched \subseteq touched'
         /\ \A e \in Entries : e \notin touched' => kind'[e] = kind[e] /\ link'[e] = link[e]
<1>1. CASE System
  BY <1>1 DEF System, StartArgument, RecursionLimit, OpenDir, OpenDirFails, HandlePossibleFile,
     ReadDir, CloseDir, ReportFile, ReportLink, ReportPossible, EndArgument, world
<1>2. CASE \E e \in Entries : Change(e)
  BY <1>2 DEF Change, TypeOK
<1>3. CASE Done
  BY <1>3 DEF Done, vars
<1>4. CASE UNCHANGED vars
  BY <1>4 DEF vars
<1> QED
  BY <1>1, <1>2, <1>3, <1>4 DEF Next

LEMMA SameWay ==
  ASSUME TypeOK, [Next]_vars, NEW p \in Paths, Clean(p)'
  PROVE  /\ Clean(p)
         /\ \A k \in DOMAIN p :
              /\ p[k] \in Entries /\ Real(p[k])' = Real(p[k])
              /\ kind'[p[k]] = kind[p[k]] /\ kind'[Real(p[k])] = kind[Real(p[k])]
<1> DEFINE C == Cardinality(Entries)
<1>1. C \in Nat
  BY EntriesFinite
<1>2. \A k \in DOMAIN p : p[k] \in Entries
  BY PathsAre
<1>3. \A k \in DOMAIN p, n \in 0 .. C : Follow(p[k], n)' \notin touched'
  BY DEF Clean
<1> HIDE DEF C
<1>4. ASSUME NEW k \in DOMAIN p
      PROVE  \A n \in 0 .. C : /\ Follow(p[k], n)' = Follow(p[k], n)
                               /\ Follow(p[k], n) \in Entries \ touched'
  <2> DEFINE S == {n \in Nat : n <= C => Follow(p[k], n)' = Follow(p[k], n)}
  <2>0. \A n \in Nat : Follow(p[k], n) \in Entries
    BY <1>2, FollowType DEF TypeOK
  <2>1. 0 \in S
    BY FollowAll, FollowAllNext
  <2>2. ASSUME NEW n \in Nat, n \in S
        PROVE  n + 1 \in S
    <3> SUFFICES ASSUME n + 1 <= C
                 PROVE  Follow(p[k], n + 1)' = Follow(p[k], n + 1)
      OBVIOUS
    <3>1. n \in 0 .. C
      BY <1>1
    <3>2. Follow(p[k], n)' = Follow(p[k], n)
      BY <1>1, <2>2
    <3> DEFINE d == Follow(p[k], n)
    <3>3. d \in Entries /\ d \notin touched'
      BY <1>3, <2>0, <3>1, <3>2
    <3>4. Step(d)' = Step(d)
      BY <3>2, <3>3, WorldStep DEF Step
    <3> QED
      BY <3>4, FollowAll, FollowAllNext
  <2> HIDE DEF S
  <2>3. Nat \subseteq S
    BY <2>1, <2>2, Induction
  <2> QED
    BY <1>1, <1>3, <2>0, <2>3 DEF S
<1>5. ASSUME NEW k \in DOMAIN p
      PROVE  /\ p[k] \in Entries /\ p[k] \notin touched' /\ Real(p[k])' = Real(p[k])
             /\ Real(p[k]) \in Entries /\ Real(p[k]) \notin touched'
  <2>1. 0 \in 0 .. C /\ C \in 0 .. C
    BY <1>1
  <2>2. Follow(p[k], C)' = Follow(p[k], C) /\ Follow(p[k], C) \in Entries \ touched'
    BY <1>4, <2>1
  <2>3. p[k] \in Entries \ touched'
    BY <1>4, <2>1, FollowAll
  <2> QED
    BY <2>2, <2>3 DEF Real, C
<1>6. Clean(p)
  BY <1>4, WorldStep DEF Clean, C
<1> QED
  BY <1>5, <1>6, WorldStep

LEMMA StillLeads ==
  ASSUME TypeOK, [Next]_vars, NEW p \in Paths, Clean(p)', NEW i
  PROVE  Leads(i, p)' <=> Leads(i, p)
<1>1. \A k \in 1 .. Len(p) - 1 :
        /\ k \in DOMAIN p /\ Real(p[k])' = Real(p[k])
        /\ kind'[p[k]] = kind[p[k]] /\ kind'[Real(p[k])] = kind[Real(p[k])]
  <2>1. \A k \in 1 .. Len(p) - 1 : k \in DOMAIN p
    BY PathsAre
  <2> QED
    BY <2>1, SameWay
<1>2. options' = options /\ arguments' = arguments
  BY WorldStep
<1> QED
  BY <1>1, <1>2 DEF Leads

LEMMA LastIn == \A p \in Paths : Len(p) \in DOMAIN p /\ Last(p) = p[Len(p)] /\ Last(p) \in Entries
BY PathsAre DEF Last

LEMMA StillExpected ==
  ASSUME TypeOK, [Next]_vars, NEW x, x.path \in Paths, Clean(x.path)'
  PROVE  x \in Expected' <=> x \in Expected
<1> DEFINE p == x.path
           e == Last(x.path)
<1>1. Leads(x.cmdline_index, p)' <=> Leads(x.cmdline_index, p)
  BY StillLeads
<1>2. Real(e)' = Real(e) /\ kind'[e] = kind[e] /\ kind'[Real(e)] = kind[Real(e)]
  BY LastIn, SameWay
<1>3. options' = options /\ arguments' = arguments
  BY WorldStep
<1>4. DepthsOf(p)' = DepthsOf(p)
  BY <1>2 DEF DepthsOf
<1>5. SizeWanted(Real(e))' <=> SizeWanted(Real(e))
  BY <1>2, <1>3 DEF SizeWanted
<1> QED
  BY <1>1, <1>2, <1>3, <1>4, <1>5 DEF Expected

-----------------------------------------------------------------------------
(* Sorting, for items of which any two differ in depth or name.             *)

LEMMA SortFromSorts ==
  ASSUME NEW T, NEW list \in Seq(T), NEW first \in 0 .. Len(list),
         \A j, k \in first + 1 .. Len(list) :
           /\ ~DepthNameLess(list[k], list[k])
           /\ j # k => DepthNameLess(list[j], list[k]) \/ DepthNameLess(list[k], list[j])
           /\ DepthNameLess(list[j], list[k]) =>
                \A l \in first + 1 .. Len(list) :
                  DepthNameLess(list[k], list[l]) => DepthNameLess(list[j], list[l])
  PROVE  LET sorted == SortFrom(first, list)
             newest == first + 1 .. Len(list)
         IN  /\ sorted \in Seq(T) /\ Len(sorted) = Len(list)
             /\ \A i \in 1 .. first : sorted[i] = list[i]
             /\ \A i \in newest : \E k \in newest : sorted[i] = list[k]
             /\ \A k \in newest : \E i \in newest : sorted[i] = list[k]
             /\ \A i, j \in newest : i < j => DepthNameLess(sorted[i], sorted[j])
<1> DEFINE newest == first + 1 .. Len(list)
           Before(k) == {j \in newest : ComesBefore(list, j, k)}
           place == [k \in newest |-> first + 1 + Cardinality(Before(k))]
           at(i) == CHOOSE k \in newest : place[k] = i
           sorted == SortFrom(first, list)
<1>1. \A j, k \in newest :
        ComesBefore(list, j, k) <=> DepthNameLess(list[j], list[k])
  <2> SUFFICES ASSUME NEW j \in newest, NEW k \in newest
               PROVE  ComesBefore(list, j, k) <=> DepthNameLess(list[j], list[k])
    OBVIOUS
  <2>1. CASE j = k
    <3>1. ~(j < k)
      BY <2>1
    <3> QED
      BY <2>1, <3>1 DEF ComesBefore
  <2>2. CASE j # k
    BY <2>2 DEF ComesBefore
  <2> QED
    BY <2>1, <2>2
<1>2. IsFiniteSet(newest) /\ Cardinality(newest) = Len(list) - first
  <2>1. first + 1 \in Int /\ Len(list) \in Int /\ first <= Len(list)
    OBVIOUS
  <2> DEFINE a == first + 1
  <2> HIDE DEF a
  <2>2. /\ IsFiniteSet(a .. Len(list))
        /\ Cardinality(a .. Len(list)) = IF a > Len(list) THEN 0 ELSE Len(list) - a + 1
    BY <2>1, FS_Interval DEF a
  <2> QED
    BY <2>1, <2>2 DEF a
<1> HIDE DEF newest
<1>3. ASSUME NEW k \in newest
      PROVE  /\ Before(k) \in SUBSET newest /\ k \notin Before(k)
             /\ IsFiniteSet(Before(k)) /\ Cardinality(Before(k)) \in Nat
             /\ Cardinality(Before(k)) < Cardinality(newest)
  <2>1. Before(k) \in SUBSET newest /\ k \notin Before(k)
    BY <1>1 DEF newest
  <2> HIDE DEF Before
  <2>2. IsFiniteSet(Before(k)) /\ Cardinality(Before(k)) <= Cardinality(newest)
        /\ Cardinality(newest) # Cardinality(Before(k))
    BY <1>2, <2>1, FS_Subset
  <2>3. Cardinality(Before(k)) \in Nat /\ Cardinality(newest) \in Nat
    BY <1>2, <2>2, FS_CardinalityType
  <2> QED
    BY <2>1, <2>2, <2>3
<1>4. ASSUME NEW j \in newest, NEW k \in newest, ComesBefore(list, j, k)
      PROVE  Cardinality(Before(j)) < Cardinality(Before(k))
  <2>1. Before(j) \in SUBSET Before(k) /\ j \in Before(k)
    BY <1>1, <1>4 DEF newest
  <2>2. j \notin Before(j) /\ IsFiniteSet(Before(k))
        /\ Cardinality(Before(j)) \in Nat /\ Cardinality(Before(k)) \in Nat
    BY <1>3
  <2> HIDE DEF Before
  <2>3. Cardinality(Before(j)) <= Cardinality(Before(k))
        /\ Cardinality(Before(k)) # Cardinality(Before(j))
    BY <2>1, <2>2, FS_Subset
  <2> QED
    BY <2>2, <2>3
<1>5. \A j, k \in newest : j # k => ComesBefore(list, j, k) \/ ComesBefore(list, k, j)
  BY <1>1 DEF newest
<1>6. place \in [newest -> newest]
  <2> SUFFICES ASSUME NEW k \in newest
               PROVE  first + 1 + Cardinality(Before(k)) \in newest
    OBVIOUS
  <2>1. Cardinality(Before(k)) \in Nat /\ Cardinality(Before(k)) < Len(list) - first
    BY <1>2, <1>3
  <2> HIDE DEF Before
  <2> QED
    BY <2>1 DEF newest
<1>7. \A j, k \in newest : ComesBefore(list, j, k) => place[j] < place[k]
  <2> SUFFICES ASSUME NEW j \in newest, NEW k \in newest, ComesBefore(list, j, k)
               PROVE  first + 1 + Cardinality(Before(j)) < first + 1 + Cardinality(Before(k))
    OBVIOUS
  <2>1. /\ Cardinality(Before(j)) \in Nat /\ Cardinality(Before(k)) \in Nat
        /\ Cardinality(Before(j)) < Cardinality(Before(k))
    BY <1>3, <1>4
  <2> HIDE DEF Before
  <2> QED
    BY <2>1
<1>8. sorted = [i \in DOMAIN list |-> IF i <= first THEN list[i] ELSE list[at(i)]]
  BY DEF SortFrom, newest
<1> HIDE DEF place, at, sorted
<1>9. \A i \in newest : \E k \in newest : place[k] = i
  <2>1. \A j, k \in newest : place[j] = place[k] => j = k
    <3> SUFFICES ASSUME NEW j \in newest, NEW k \in newest, j # k
                 PROVE  place[j] # place[k]
      OBVIOUS
    <3>1. place[j] \in newest /\ place[k] \in newest
      BY <1>6
    <3>2. place[j] < place[k] \/ place[k] < place[j]
      BY <1>5, <1>7
    <3> QED
      BY <3>1, <3>2 DEF newest
  <2>2. place \in Injection(newest, newest)
    BY <1>6, <2>1 DEF Injection, IsInjective
  <2>3. place \in Surjection(newest, newest)
    BY <1>2, <2>2, FS_Injection
  <2> QED
    BY <2>3 DEF Surjection
<1>10. \A i \in newest : at(i) \in newest /\ place[at(i)] = i
  BY <1>9 DEF at
<1>11. \A k \in newest : place[k] \in newest /\ at(place[k]) = k
  <2> SUFFICES ASSUME NEW k \in newest
               PROVE  place[k] \in newest /\ at(place[k]) = k
    OBVIOUS
  <2>1. place[k] \in newest
    BY <1>6
  <2> DEFINE m == at(place[k])
  <2>2. m \in newest /\ place[m] = place[k]
    BY <1>10, <2>1
  <2> HIDE DEF m
  <2>3. ~(place[m] < place[k]) /\ ~(place[k] < place[m])
    BY <2>1, <2>2 DEF newest
  <2>4. m = k
    BY <1>5, <1>7, <2>2, <2>3
  <2> QED
    BY <2>1, <2>4 DEF m
<1>12. \A i \in newest : i \in DOMAIN list /\ ~(i <= first)
  BY DEF newest
<1>13. \A i \in newest : sorted[i] = list[at(i)]
  BY <1>8, <1>12
<1>14. \A i \in newest : \E k \in newest : sorted[i] = list[k]
  BY <1>10, <1>13
<1>15. \A k \in newest : \E i \in newest : sorted[i] = list[k]
  BY <1>11, <1>13
<1>16. \A i, j \in newest : i < j => DepthNameLess(sorted[i], sorted[j])
  <2> SUFFICES ASSUME NEW i \in newest, NEW j \in newest, i < j
               PROVE  DepthNameLess(list[at(i)], list[at(j)])
    BY <1>13
  <2>1. ~ComesBefore(list, at(j), at(i))
    <3> SUFFICES ASSUME ComesBefore(list, at(j), at(i))
                 PROVE  FALSE
      OBVIOUS
    <3>1. j < i
      BY <1>7, <1>10
    <3> QED
      BY <3>1 DEF newest
  <2>2. at(i) # at(j)
    <3>1. i # j
      BY DEF newest
    <3> QED
      BY <1>10, <3>1
  <2> QED
    BY <1>1, <1>5, <1>10, <2>1, <2>2
<1>17. sorted \in Seq(T) /\ Len(sorted) = Len(list)
  <2>1. \A i \in DOMAIN list : i > first => at(i) \in DOMAIN list
    BY <1>10, <1>12 DEF newest
  <2>2. \A i \in DOMAIN list : sorted[i] \in T
    BY <1>8, <2>1
  <2>3. sorted \in [1 .. Len(list) -> T]
    BY <1>8, <2>2
  <2> QED
    BY <2>3
<1>18. \A i \in 1 .. first : sorted[i] = list[i]
  BY <1>8
<1> QED
  BY <1>14, <1>15, <1>16, <1>17, <1>18 DEF sorted, newest

-----------------------------------------------------------------------------
(* What the actions do to the stack and the list.                           *)

LEMMA OpenDirFacts ==
  ASSUME TypeOK, WalkShape, OpenDir
  PROVE  LET n == Len(stack)
         IN  /\ pc = "walk" /\ pc' = "read" /\ n \in Nat /\ n < MaxDepth
             /\ StatKind(path) = "dir" /\ path \in Paths
             /\ stack' \in Seq([path : Paths, dir : Entries, seen : SUBSET Entries])
             /\ Len(stack') = n + 1 /\ stack' # <<>>
             /\ \A k \in 1 .. n : stack'[k] = stack[k]
             /\ stack'[n + 1].path = path /\ stack'[n + 1].dir = Real(Last(path))
             /\ stack'[n + 1].seen = {}
             /\ UNCHANGED <<world, current_cmdline_index, lastsize, filelist, path, skipped>>
<1> DEFINE n == Len(stack)
           Frames == [path : Paths, dir : Entries, seen : SUBSET Entries]
           frame == [path |-> path, dir |-> Real(Last(path)), seen |-> {}]
<1>1. pc = "walk" /\ path \in Paths
  BY DEF OpenDir, WalkShape, Calls
<1>2. frame \in Frames
  BY <1>1, LastIn, RealType DEF TypeOK
<1>3. stack \in Seq(Frames) /\ n \in Nat
  BY DEF TypeOK
<1>4. stack' = Append(stack, frame) /\ pc' = "read" /\ ~TooDeep /\ StatKind(path) = "dir"
      /\ UNCHANGED <<world, current_cmdline_index, lastsize, filelist, path, skipped>>
  BY DEF OpenDir
<1>5. n < MaxDepth
  BY <1>3, <1>4, BoundsAssumption DEF TooDeep
<1>6. frame.path = path /\ frame.dir = Real(Last(path)) /\ frame.seen = {}
  OBVIOUS
<1> HIDE DEF frame, Frames
<1>7. /\ stack' \in Seq(Frames) /\ Len(stack') = n + 1
      /\ \A k \in 1 .. n : stack'[k] = stack[k]
      /\ stack'[n + 1] = frame
  BY <1>2, <1>3, <1>4
<1>8. stack' # <<>>
  BY <1>3, <1>7
<1> QED
  BY <1>1, <1>3, <1>4, <1>5, <1>6, <1>7, <1>8 DEF Frames

LEMMA ReadDirFacts ==
  ASSUME TypeOK, WalkShape, ReadDir
  PROVE  LET n == Len(stack)
         IN  \E e \in Entries :
             /\ pc = "read" /\ n \in 1 .. MaxDepth /\ DOMAIN stack = 1 .. n
             /\ e \notin stack[n].seen /\ Parent[e] = stack[n].dir /\ ~IsTop(e)
             /\ path' = Append(stack[n].path, e) /\ pc' = Handling(LstatKind(path'))
             /\ path' \in Paths /\ Len(path') = n + 1
             /\ Prefix(stack[n].path, path') /\ path'[n + 1] = e
             /\ stack' \in Seq([path : Paths, dir : Entries, seen : SUBSET Entries])
             /\ Len(stack') = n /\ DOMAIN stack' = 1 .. n
             /\ \A k \in 1 .. n :
                  /\ stack'[k].path = stack[k].path /\ stack'[k].dir = stack[k].dir
                  /\ stack'[k].seen = IF k = n THEN stack[k].seen \cup {e} ELSE stack[k].seen
             /\ UNCHANGED <<world, current_cmdline_index, lastsize, filelist, skipped>>
<1> DEFINE n == Len(stack)
           Frames == [path : Paths, dir : Entries, seen : SUBSET Entries]
<1>1. PICK e \in Children(Top.dir) \ Top.seen :
        /\ stack' = [stack EXCEPT ![Len(stack)].seen = @ \cup {e}]
        /\ path' = Append(Top.path, e)
  BY DEF ReadDir
<1>2. pc = "read" /\ pc' = Handling(LstatKind(path'))
      /\ UNCHANGED <<world, current_cmdline_index, lastsize, filelist, skipped>>
  BY DEF ReadDir
<1>3. stack \in Seq(Frames) /\ n \in 1 .. MaxDepth /\ DOMAIN stack = 1 .. n
  <2>1. stack \in Seq(Frames) /\ Len(stack) <= MaxDepth /\ stack # <<>>
    BY <1>2 DEF TypeOK, WalkShape
  <2> HIDE DEF Frames
  <2> QED
    BY <2>1, BoundsAssumption
<1>4. e \in Entries /\ e \notin stack[n].seen /\ Parent[e] = stack[n].dir /\ ~IsTop(e)
  BY <1>1 DEF Children, Top
<1>5. stack[n] \in Frames /\ Len(stack[n].path) = n
  <2>0. n \in 1 .. n
    BY <1>3, BoundsAssumption
  <2>1. stack[n] \in Frames
    BY <1>3, <2>0, ElementOfSeq
  <2>2. Descends(stack, Current, stack[n].path, n - 1)
    BY <1>3 DEF WalkShape
  <2> QED
    BY <1>3, <2>1, <2>2 DEF Descends
<1>6. stack[n].path \in Seq(Entries) /\ path' = Append(stack[n].path, e)
  BY <1>1, <1>5, PathsAre DEF Top
<1>7. path' \in Seq(Entries) /\ Len(path') = n + 1 /\ path'[n + 1] = e
      /\ \A k \in 1 .. n : path'[k] = stack[n].path[k]
  BY <1>3, <1>4, <1>5, <1>6
<1>8. path' \in Paths
  BY <1>3, <1>7, PathsAre, BoundsAssumption
<1>9. Prefix(stack[n].path, path')
  BY <1>3, <1>5, <1>7 DEF Prefix
<1>10. ASSUME NEW k \in 1 .. n
       PROVE  /\ stack'[k] \in Frames
              /\ stack'[k].path = stack[k].path /\ stack'[k].dir = stack[k].dir
              /\ stack'[k].seen = IF k = n THEN stack[k].seen \cup {e} ELSE stack[k].seen
  <2>1. stack[k] \in Frames
    BY <1>3, ElementOfSeq
  <2>2. CASE k = n
    <3>1. stack'[k] = [stack[k] EXCEPT !.seen = stack[k].seen \cup {e}]
      BY <1>1, <1>3, <2>2
    <3>2. stack[k].seen \cup {e} \in SUBSET Entries
      BY <1>4, <2>1
    <3> QED
      BY <2>1, <2>2, <3>1, <3>2
  <2>3. CASE k # n
    BY <1>1, <1>3, <2>1, <2>3
  <2> QED
    BY <2>2, <2>3
<1>11. stack' \in Seq(Frames) /\ Len(stack') = n /\ DOMAIN stack' = 1 .. n
  <2>1. DOMAIN stack' = 1 .. n /\ \A k \in 1 .. n : stack'[k] \in Frames
    BY <1>1, <1>3, <1>10
  <2>2. stack' = [k \in 1 .. n |-> stack'[k]]
    BY <1>1, <1>3
  <2>3. stack' \in [1 .. n -> Frames]
    BY <2>1, <2>2
  <2> HIDE DEF Frames
  <2> QED
    BY <1>3, <2>3
<1> QED
  BY <1>2, <1>3, <1>4, <1>6, <1>7, <1>8, <1>9, <1>10, <1>11

LEMMA CloseDirFacts ==
  ASSUME TypeOK, WalkShape, CloseDir
  PROVE  LET n == Len(stack)
         IN  /\ pc = "read" /\ n \in 1 .. MaxDepth
             /\ pc' = (IF n = 1 THEN "walked" ELSE "read")
             /\ Children(stack[n].dir) \ stack[n].seen \subseteq touched
             /\ stack' \in Seq([path : Paths, dir : Entries, seen : SUBSET Entries])
             /\ Len(stack') = n - 1 /\ (stack' = <<>> <=> n = 1)
             /\ \A k \in 1 .. n - 1 : stack'[k] = stack[k]
             /\ UNCHANGED <<world, current_cmdline_index, lastsize, filelist, path, skipped>>
<1> DEFINE n == Len(stack)
           Frames == [path : Paths, dir : Entries, seen : SUBSET Entries]
<1>1. /\ pc = "read" /\ pc' = IF n = 1 THEN "walked" ELSE "read"
      /\ Children(stack[n].dir) \ stack[n].seen \subseteq touched
      /\ stack' = SubSeq(stack, 1, n - 1)
      /\ UNCHANGED <<world, current_cmdline_index, lastsize, filelist, path, skipped>>
  BY DEF CloseDir, Top
<1>2. stack \in Seq(Frames) /\ n \in 1 .. MaxDepth
  <2>1. stack \in Seq(Frames) /\ Len(stack) <= MaxDepth /\ stack # <<>>
    BY <1>1 DEF TypeOK, WalkShape
  <2> HIDE DEF Frames
  <2> QED
    BY <2>1, BoundsAssumption
<1> HIDE DEF Frames
<1>3. stack' \in Seq(Frames) /\ Len(stack') = n - 1
      /\ \A k \in 1 .. n - 1 : stack'[k] = stack[k]
  <2>1. 1 \in Int /\ n - 1 \in Int /\ \A i \in 1 .. n - 1 : i \in 1 .. n
    BY <1>2, BoundsAssumption
  <2>2. \A i \in 1 .. n - 1 : stack[i] \in Frames
    BY <1>2, <2>1, ElementOfSeq
  <2> DEFINE m == n - 1
  <2> HIDE DEF m
  <2>3. /\ SubSeq(stack, 1, m) \in Seq(Frames)
        /\ Len(SubSeq(stack, 1, m)) = IF 1 <= m THEN m - 1 + 1 ELSE 0
        /\ \A i \in 1 .. m - 1 + 1 : SubSeq(stack, 1, m)[i] = stack[1 + i - 1]
    BY <2>1, <2>2, SubSeqProperties DEF m
  <2>4. stack' = SubSeq(stack, 1, m) /\ m \in Nat
    BY <1>1, <1>2, BoundsAssumption DEF m
  <2>5. \A k \in 1 .. m : k \in 1 .. m - 1 + 1 /\ 1 + k - 1 = k
    BY <2>4
  <2>6. Len(SubSeq(stack, 1, m)) = m
    BY <2>3, <2>4
  <2>7. \A k \in 1 .. m : SubSeq(stack, 1, m)[k] = stack[k]
    BY <2>3, <2>5
  <2>8. stack' \in Seq(Frames) /\ Len(stack') = m /\ \A k \in 1 .. m : stack'[k] = stack[k]
    BY <2>3, <2>4, <2>6, <2>7
  <2> QED
    BY <2>8 DEF m
<1>4. stack' = <<>> <=> n = 1
  <2>1. stack' = <<>> <=> Len(stack') = 0
    BY <1>3, EmptySeq
  <2> QED
    BY <1>2, <1>3, <2>1
<1> QED
  BY <1>1, <1>2, <1>3, <1>4 DEF Frames

(* The item report() makes of the path.                                     *)
Item(depth) == [path |-> path, depth |-> depth, cmdline_index |-> current_cmdline_index]
Wanted == StatKind(path) = "file" /\ SizeWanted(Real(Last(path)))

LEMMA ReportFacts ==
  ASSUME TypeOK, WalkShape, ReportFile \/ ReportLink \/ ReportPossible
  PROVE  \E depth \in 0 .. MaxDepth :
           /\ \/ pc = "report_file" /\ pc' = "read" /\ depth = Len(path) - 2
              \/ pc = "report_link" /\ pc' = "walk" /\ depth = Len(path) - 2
              \/ pc = "report_possible" /\ pc' = Returned /\ depth = Len(path) - 1
           /\ pc \in {"report_file", "report_link"} => Len(path) > 1
           /\ path \in Paths /\ Len(path) = Len(stack) + 1 /\ Len(stack) \in Nat
           /\ path[1] = Current
           /\ current_cmdline_index \in DOMAIN arguments
           /\ Item(depth).path = path /\ Item(depth).depth = depth
           /\ Item(depth).cmdline_index = current_cmdline_index
           /\ filelist' = IF Wanted THEN Append(filelist, Item(depth)) ELSE filelist
           /\ UNCHANGED <<world, current_cmdline_index, lastsize, stack, path, skipped>>
<1>1. /\ path \in Paths /\ Len(path) = Len(stack) + 1
      /\ path[1] = Current
      /\ current_cmdline_index <= Len(arguments)
      /\ pc \in {"report_file", "report_link"} => stack # <<>>
      /\ pc = "report_possible" => Len(stack) < MaxDepth
  BY DEF ReportFile, ReportLink, ReportPossible, WalkShape, Calls, Descends
<1>2. Len(stack) \in Nat /\ Len(stack) <= MaxDepth /\ (stack # <<>> => Len(stack) > 0)
      /\ current_cmdline_index \in DOMAIN arguments
  <2>1. stack \in Seq([path : Paths, dir : Entries, seen : SUBSET Entries])
        /\ Len(stack) <= MaxDepth
        /\ current_cmdline_index \in 1 .. Len(arguments) + 1 /\ arguments \in Seq(Entries)
    BY ArgumentsAssumption DEF TypeOK
  <2> QED
    BY <1>1, <2>1
<1>3. UNCHANGED <<world, current_cmdline_index, lastsize, stack, path, skipped>>
  BY DEF ReportFile, ReportLink, ReportPossible
<1>4. \A depth : /\ Item(depth).path = path /\ Item(depth).depth = depth
                 /\ Item(depth).cmdline_index = current_cmdline_index
  BY DEF Item
<1>5. \A depth : Report(depth) =>
        filelist' = IF Wanted THEN Append(filelist, Item(depth)) ELSE filelist
  BY DEF Report, Wanted, Item
<1> DEFINE lower == Len(stack) - 1
<1>6. CASE ReportFile
  <2>1. pc = "report_file" /\ pc' = "read" /\ Report(lower)
    BY <1>6 DEF ReportFile
  <2>2. lower \in 0 .. MaxDepth /\ lower = Len(path) - 2 /\ Len(path) > 1
    BY <1>1, <1>2, <2>1, BoundsAssumption
  <2> HIDE DEF lower
  <2> QED
    BY <1>1, <1>2, <1>3, <1>4, <1>5, <2>1, <2>2
<1>7. CASE ReportLink
  <2>1. pc = "report_link" /\ pc' = "walk" /\ Report(lower)
    BY <1>7 DEF ReportLink
  <2>2. lower \in 0 .. MaxDepth /\ lower = Len(path) - 2 /\ Len(path) > 1
    BY <1>1, <1>2, <2>1, BoundsAssumption
  <2> HIDE DEF lower
  <2> QED
    BY <1>1, <1>2, <1>3, <1>4, <1>5, <2>1, <2>2
<1>8. CASE ReportPossible
  <2>1. pc = "report_possible" /\ pc' = Returned /\ Report(Len(stack))
    BY <1>8 DEF ReportPossible
  <2>2. Len(stack) \in 0 .. MaxDepth /\ Len(stack) = Len(path) - 1
    BY <1>1, <1>2, <2>1, BoundsAssumption
  <2> QED
    BY <1>1, <1>2, <1>3, <1>4, <1>5, <2>1, <2>2
<1> QED
  BY <1>6, <1>7, <1>8

LEMMA DepthNameOrder ==
  ASSUME NEW x, NEW y, NEW z,
         x.path \in Paths, y.path \in Paths, z.path \in Paths,
         x.depth \in Nat, y.depth \in Nat, z.depth \in Nat
  PROVE  /\ ~DepthNameLess(x, x)
         /\ DepthNameLess(x, y) /\ DepthNameLess(y, z) => DepthNameLess(x, z)
         /\ Siblings(x.path, y.path) /\ (x.path # y.path \/ x.depth # y.depth) =>
              DepthNameLess(x, y) \/ DepthNameLess(y, x)
<1>1. ~DepthNameLess(x, x)
  BY NameOrder DEF DepthNameLess
<1>2. ASSUME DepthNameLess(x, y), DepthNameLess(y, z)
      PROVE  DepthNameLess(x, z)
  <2>1. CASE x.depth < y.depth \/ y.depth < z.depth
    BY <1>2, <2>1 DEF DepthNameLess
  <2>2. CASE ~(x.depth < y.depth \/ y.depth < z.depth)
    <3>1. x.depth = y.depth /\ y.depth = z.depth
          /\ NameLess(x.path, y.path) /\ NameLess(y.path, z.path)
      BY <1>2, <2>2 DEF DepthNameLess
    <3>2. NameLess(x.path, z.path)
      BY <3>1, NameOrder
    <3> QED
      BY <3>1, <3>2 DEF DepthNameLess
  <2> QED
    BY <2>1, <2>2
<1>3. ASSUME Siblings(x.path, y.path), x.path # y.path \/ x.depth # y.depth
      PROVE  DepthNameLess(x, y) \/ DepthNameLess(y, x)
  <2>1. CASE x.depth = y.depth
    <3>1. NameLess(x.path, y.path) \/ NameLess(y.path, x.path)
      BY <1>3, <2>1, NameOrder
    <3> QED
      BY <2>1, <3>1 DEF DepthNameLess
  <2>2. CASE x.depth # y.depth
    BY <2>2 DEF DepthNameLess
  <2> QED
    BY <2>1, <2>2
<1> QED
  BY <1>1, <1>2, <1>3

LEMMA ItemTypes ==
  ASSUME TypeOK, NEW k \in DOMAIN filelist
  PROVE  /\ filelist[k].path \in Paths /\ filelist[k].depth \in 0 .. MaxDepth
         /\ filelist[k].depth \in Nat /\ filelist[k].cmdline_index \in DOMAIN arguments
         /\ filelist[k].cmdline_index \in Nat
         /\ filelist[k] \in [path : Paths, depth : 0 .. MaxDepth, cmdline_index : DOMAIN arguments]
<1> DEFINE Items == [path : Paths, depth : 0 .. MaxDepth, cmdline_index : DOMAIN arguments]
<1>1. filelist \in Seq(Items) /\ arguments \in Seq(Entries)
  BY ArgumentsAssumption DEF TypeOK
<1>2. k \in 1 .. Len(filelist)
  <2> HIDE DEF Items
  <2> QED
    BY <1>1
<1>3. filelist[k] \in Items
  BY <1>1, <1>2, ElementOfSeq
<1> QED
  BY <1>1, <1>3, BoundsAssumption

LEMMA EndArgumentFacts ==
  ASSUME TypeOK, WalkShape, NewestDiffer, EndArgument
  PROVE  LET newest == lastsize + 1 .. Len(filelist)
         IN  /\ pc = "walked" /\ pc' = "argument" /\ stack = <<>>
             /\ current_cmdline_index \in DOMAIN arguments
             /\ current_cmdline_index' = current_cmdline_index + 1
             /\ filelist' \in Seq([path : Paths, depth : 0 .. MaxDepth,
                                   cmdline_index : DOMAIN arguments])
             /\ Len(filelist') = Len(filelist)
             /\ \A i \in 1 .. lastsize : filelist'[i] = filelist[i]
             /\ \A i \in newest : \E k \in newest : filelist'[i] = filelist[k]
             /\ \A k \in newest : \E i \in newest : filelist'[i] = filelist[k]
             /\ options.deterministic =>
                  \A i, j \in newest : i < j => DepthNameLess(filelist'[i], filelist'[j])
             /\ UNCHANGED <<world, lastsize, stack, path, skipped>>
<1> DEFINE newest == lastsize + 1 .. Len(filelist)
           Items == [path : Paths, depth : 0 .. MaxDepth, cmdline_index : DOMAIN arguments]
<1>1. /\ pc = "walked" /\ pc' = "argument"
      /\ filelist' = IF options.deterministic THEN SortFrom(lastsize, filelist) ELSE filelist
      /\ current_cmdline_index' = current_cmdline_index + 1
      /\ UNCHANGED <<world, lastsize, stack, path, skipped>>
  BY DEF EndArgument, SortNewest
<1>2. stack = <<>> /\ current_cmdline_index \in DOMAIN arguments
  <2>1. stack = <<>> /\ current_cmdline_index <= Len(arguments)
    BY <1>1 DEF WalkShape
  <2>2. arguments \in Seq(Entries) /\ current_cmdline_index \in 1 .. Len(arguments) + 1
    BY ArgumentsAssumption DEF TypeOK
  <2> QED
    BY <2>1, <2>2
<1>3. filelist \in Seq(Items) /\ lastsize \in 0 .. Len(filelist)
  BY DEF TypeOK
<1>4. \A k \in newest : k \in DOMAIN filelist
  <2> HIDE DEF Items
  <2> QED
    BY <1>3
<1>5. ASSUME NEW j \in newest, NEW k \in newest
      PROVE  /\ ~DepthNameLess(filelist[k], filelist[k])
             /\ j # k => \/ DepthNameLess(filelist[j], filelist[k])
                         \/ DepthNameLess(filelist[k], filelist[j])
             /\ DepthNameLess(filelist[j], filelist[k]) =>
                  \A l \in newest : DepthNameLess(filelist[k], filelist[l]) =>
                                      DepthNameLess(filelist[j], filelist[l])
  <2>1. \A l \in newest : filelist[l].path \in Paths /\ filelist[l].depth \in Nat
    BY <1>4, ItemTypes
  <2>2. Settled = lastsize
    BY <1>1 DEF Settled
  <2>3. j # k => /\ filelist[j].path # filelist[k].path \/ filelist[j].depth # filelist[k].depth
                 /\ Siblings(filelist[j].path, filelist[k].path)
    BY <2>2 DEF NewestDiffer, Differ
  <2> HIDE DEF newest
  <2> QED
    BY <2>1, <2>3, DepthNameOrder
<1>6. CASE options.deterministic
  <2> HIDE DEF Items
  <2>1. /\ SortFrom(lastsize, filelist) \in Seq(Items)
        /\ Len(SortFrom(lastsize, filelist)) = Len(filelist)
        /\ \A i \in 1 .. lastsize : SortFrom(lastsize, filelist)[i] = filelist[i]
        /\ \A i \in newest : \E k \in newest : SortFrom(lastsize, filelist)[i] = filelist[k]
        /\ \A k \in newest : \E i \in newest : SortFrom(lastsize, filelist)[i] = filelist[k]
        /\ \A i, j \in newest : i < j =>
             DepthNameLess(SortFrom(lastsize, filelist)[i], SortFrom(lastsize, filelist)[j])
    BY <1>3, <1>5, SortFromSorts
  <2>2. filelist' = SortFrom(lastsize, filelist)
    BY <1>1, <1>6
  <2>3. /\ filelist' \in Seq(Items) /\ Len(filelist') = Len(filelist)
        /\ \A i \in 1 .. lastsize : filelist'[i] = filelist[i]
        /\ \A i \in newest : \E k \in newest : filelist'[i] = filelist[k]
        /\ \A k \in newest : \E i \in newest : filelist'[i] = filelist[k]
        /\ \A i, j \in newest : i < j => DepthNameLess(filelist'[i], filelist'[j])
    <3> HIDE DEF newest
    <3> QED
      BY <2>1, <2>2
  <2> QED
    BY <1>1, <1>2, <2>3, Zenon DEF Items
<1>7. CASE ~options.deterministic
  <2>1. filelist' = filelist
    BY <1>1, <1>7
  <2> HIDE DEF newest, Items
  <2>2. /\ \A i \in newest : \E k \in newest : filelist'[i] = filelist[k]
        /\ \A k \in newest : \E i \in newest : filelist'[i] = filelist[k]
    BY <2>1
  <2> QED
    BY <1>1, <1>2, <1>3, <1>7, <2>1, <2>2 DEF newest, Items
<1> QED
  BY <1>6, <1>7

-----------------------------------------------------------------------------
(* The types.                                                               *)

LEMMA TypeInit == Init => TypeOK
<1> SUFFICES ASSUME Init
             PROVE  TypeOK
  OBVIOUS
<1>1. /\ options \in OptionSets /\ arguments \in ArgumentLists
      /\ current_cmdline_index = 1 /\ lastsize = 0 /\ filelist = <<>>
      /\ stack = <<>> /\ path = <<>> /\ pc = "argument" /\ skipped = {} /\ touched = {}
  BY DEF Init
<1>2. kind \in [Entries -> Kinds] /\ link \in [Entries -> Entries]
  BY FileSystemsAssumption DEF Init
<1>3. 1 \in 1 .. Len(arguments) + 1
  BY <1>1, ArgumentsAssumption
<1>4. \A S : <<>> \in Seq(S)
  BY EmptySeq
<1>5. Len(<<>>) = 0
  BY EmptySeq
<1> QED
  BY <1>1, <1>2, <1>3, <1>4, <1>5, BoundsAssumption DEF TypeOK

LEMMA TypeStep ==
  ASSUME TypeOK, WalkShape, NewestDiffer, [Next]_vars
  PROVE  TypeOK'
<1> DEFINE Items == [path : Paths, depth : 0 .. MaxDepth, cmdline_index : DOMAIN arguments]
<1>1. CASE StartArgument
  <2>1. arguments[current_cmdline_index] \in Entries
    <3>1. arguments \in Seq(Entries) /\ current_cmdline_index \in DOMAIN arguments
      BY <1>1, ArgumentsAssumption DEF StartArgument, TypeOK
    <3> QED
      BY <3>1
  <2>2. path' \in Seq(Entries) /\ pc' = "walk"
    BY <1>1, <2>1 DEF StartArgument
  <2>3. lastsize' \in 0 .. Len(filelist')
    <3>1. filelist \in Seq(Items)
      BY DEF TypeOK
    <3>2. lastsize' = Len(filelist) /\ filelist' = filelist
      BY <1>1 DEF StartArgument
    <3> HIDE DEF Items
    <3> QED
      BY <3>1, <3>2
  <2>4. UNCHANGED <<world, current_cmdline_index, filelist, stack, skipped>>
    BY <1>1 DEF StartArgument
  <2> QED
    BY <2>2, <2>3, <2>4 DEF TypeOK, world
<1>2. CASE RecursionLimit \/ HandlePossibleFile
  <2>1. /\ pc' \in {"walked", "read", "report_possible"}
        /\ UNCHANGED <<world, current_cmdline_index, lastsize, filelist, stack, path, skipped>>
    BY <1>2 DEF RecursionLimit, HandlePossibleFile, Returned
  <2> QED
    BY <2>1 DEF TypeOK, world
<1>3. CASE OpenDir
  <2>1. Len(stack') <= MaxDepth
    BY <1>3, OpenDirFacts, BoundsAssumption
  <2> QED
    BY <1>3, <2>1, OpenDirFacts DEF TypeOK, world
<1>4. CASE OpenDirFails
  <2>1. path \in Paths
    BY <1>4 DEF OpenDirFails, WalkShape, Calls
  <2>2. /\ pc' = "possible" /\ (skipped' = skipped \/ skipped' = skipped \cup {path})
        /\ UNCHANGED <<world, current_cmdline_index, lastsize, filelist, stack, path>>
    BY <1>4 DEF OpenDirFails
  <2> QED
    BY <2>1, <2>2 DEF TypeOK, world
<1>5. CASE ReadDir
  <2>1. /\ path' \in Paths /\ pc' = Handling(LstatKind(path'))
        /\ stack' \in Seq([path : Paths, dir : Entries, seen : SUBSET Entries])
        /\ Len(stack') = Len(stack)
        /\ UNCHANGED <<world, current_cmdline_index, lastsize, filelist, skipped>>
    BY <1>5, ReadDirFacts
  <2>2. \A k : Handling(k) \in {"report_file", "report_link", "walk", "read"}
    BY DEF Handling
  <2>3. path' \in Seq(Entries)
    BY <2>1, PathsAre
  <2> QED
    BY <2>1, <2>2, <2>3 DEF TypeOK, world
<1>6. CASE CloseDir
  <2>1. Len(stack') <= MaxDepth
    BY <1>6, CloseDirFacts, BoundsAssumption
  <2>2. pc' \in {"walked", "read"}
    BY <1>6, CloseDirFacts
  <2> QED
    BY <1>6, <2>1, <2>2, CloseDirFacts DEF TypeOK, world
<1>7. CASE ReportFile \/ ReportLink \/ ReportPossible
  <2>1. PICK depth \in 0 .. MaxDepth :
          /\ pc' \in {"read", "walk", Returned}
          /\ path \in Paths /\ current_cmdline_index \in DOMAIN arguments
          /\ filelist' = IF Wanted THEN Append(filelist, Item(depth)) ELSE filelist
          /\ UNCHANGED <<world, current_cmdline_index, lastsize, stack, path, skipped>>
    BY <1>7, ReportFacts
  <2>2. Item(depth) \in Items
    BY <2>1 DEF Item
  <2>3. filelist \in Seq(Items) /\ lastsize \in 0 .. Len(filelist)
    BY DEF TypeOK
  <2>4. filelist' \in Seq(Items) /\ lastsize' \in 0 .. Len(filelist')
    <3> HIDE DEF Items
    <3>1. lastsize' = lastsize
      BY <2>1
    <3> QED
      BY <2>1, <2>2, <2>3, <3>1
  <2>5. pc' \in {"read", "walk", "walked"}
    BY <2>1 DEF Returned
  <2> QED
    BY <2>1, <2>4, <2>5 DEF TypeOK, world
<1>8. CASE EndArgument
  <2>1. current_cmdline_index' \in 1 .. Len(arguments) + 1
    <3>1. current_cmdline_index \in DOMAIN arguments /\ arguments \in Seq(Entries)
          /\ current_cmdline_index' = current_cmdline_index + 1
      BY <1>8, EndArgumentFacts, ArgumentsAssumption DEF TypeOK
    <3> QED
      BY <3>1
  <2>2. /\ filelist' \in Seq(Items) /\ Len(filelist') = Len(filelist) /\ pc' = "argument"
        /\ UNCHANGED <<world, lastsize, stack, path, skipped>>
    BY <1>8, EndArgumentFacts
  <2> QED
    BY <2>1, <2>2 DEF TypeOK, world
<1>9. CASE \E e \in Entries : Change(e)
  <2>1. PICK e \in Entries : Change(e)
    BY <1>9
  <2>2. PICK k \in Kinds, t \in Entries :
          kind' = [kind EXCEPT ![e] = k] /\ link' = [link EXCEPT ![e] = t]
    BY <2>1 DEF Change
  <2>3. /\ touched' = touched \cup {e}
        /\ UNCHANGED <<options, arguments, current_cmdline_index, lastsize, filelist,
                       stack, path, pc, skipped>>
    BY <2>1 DEF Change
  <2>4. kind' \in [Entries -> Kinds] /\ link' \in [Entries -> Entries]
    BY <2>2 DEF TypeOK
  <2> QED
    BY <2>3, <2>4 DEF TypeOK
<1>10. CASE UNCHANGED vars
  BY <1>10 DEF TypeOK, vars
<1> QED
  BY <1>1, <1>2, <1>3, <1>4, <1>5, <1>6, <1>7, <1>8, <1>9, <1>10 DEF Next, System, Done

-----------------------------------------------------------------------------
(* The shape of the walk.                                                   *)

LEMMA ShapeInit == Init => WalkShape
<1> SUFFICES ASSUME Init
             PROVE  WalkShape
  OBVIOUS
<1>1. stack = <<>> /\ pc = "argument" /\ DOMAIN <<>> = {}
  BY DEF Init
<1> QED
  BY <1>1 DEF WalkShape, Calls

(* Where only pc changes.                                                   *)
LEMMA Moves ==
  ASSUME TypeOK, WalkShape, RecursionLimit \/ HandlePossibleFile \/ OpenDirFails
  PROVE  /\ UNCHANGED <<world, current_cmdline_index, lastsize, filelist, stack, path>>
         /\ \/ pc = "walk" /\ pc' = Returned /\ skipped' = skipped /\ Len(stack) >= MaxDepth
            \/ pc = "walk" /\ pc' = "possible" /\ Len(stack) < MaxDepth
            \/ pc = "possible" /\ pc' \in {"report_possible", Returned} /\ skipped' = skipped
<1>1. Len(stack) \in Nat
  BY DEF TypeOK
<1> QED
  BY <1>1, BoundsAssumption
     DEF RecursionLimit, HandlePossibleFile, OpenDirFails, TooDeep

LEMMA ReturnedIs ==
  /\ Returned \in {"walked", "read"}
  /\ Returned = "read" => stack # <<>>
  /\ Returned = "walked" => stack = <<>>
BY DEF Returned

LEMMA StillDescends ==
  ASSUME NEW frames, NEW frames2, NEW start, NEW start2, NEW n \in Nat, start2 = start,
         \A j \in 1 .. n : /\ frames2[j].path = frames[j].path
                          /\ frames[j].seen \subseteq frames2[j].seen
  PROVE  \A p : \A m \in 0 .. n :
           Descends(frames, start, p, m) => Descends(frames2, start2, p, m)
<1> SUFFICES ASSUME NEW p, NEW m \in 0 .. n, Descends(frames, start, p, m)
             PROVE  Descends(frames2, start2, p, m)
  OBVIOUS
<1>1. \A j \in 1 .. m : j \in 1 .. n
  OBVIOUS
<1> QED
  BY <1>1 DEF Descends

LEMMA ShapeStep ==
  ASSUME TypeOK, WalkShape, NewestDiffer, [Next]_vars
  PROVE  WalkShape'
<1> DEFINE n == Len(stack)
           Frames == [path : Paths, dir : Entries, seen : SUBSET Entries]
<1>0. n \in Nat /\ DOMAIN stack = 1 .. n /\ stack \in Seq(Frames)
  <2>1. stack \in Seq(Frames)
    BY DEF TypeOK
  <2> HIDE DEF Frames
  <2> QED
    BY <2>1
<1> HIDE DEF Frames
<1>a. \A k \in 1 .. n :
        /\ Descends(stack, Current, stack[k].path, k - 1)
        /\ \A e \in stack[k].seen : Parent[e] = stack[k].dir /\ ~IsTop(e)
  BY <1>0 DEF WalkShape
<1>b. UNCHANGED <<arguments, current_cmdline_index>> => Current' = Current
  BY DEF Current
<1>c. pc # "argument" => current_cmdline_index <= Len(arguments)
  BY DEF WalkShape
<1>1. CASE StartArgument
  <2>1. /\ stack = <<>> /\ pc' = "walk" /\ current_cmdline_index <= Len(arguments)
        /\ path' = <<Current>> /\ stack' = stack
        /\ arguments' = arguments /\ current_cmdline_index' = current_cmdline_index
    BY <1>1 DEF StartArgument, WalkShape, Current, world
  <2>2. Current \in Entries
    <3>1. arguments \in Seq(Entries) /\ current_cmdline_index \in DOMAIN arguments
      BY <2>1, ArgumentsAssumption DEF TypeOK
    <3> QED
      BY <3>1 DEF Current
  <2>3. path' \in Paths
    <3>1. <<Current>> \in Seq(Entries) /\ Len(<<Current>>) = 1
      BY <2>2
    <3>2. 1 \in 1 .. MaxDepth + 1
      BY BoundsAssumption
    <3> QED
      BY <2>1, <3>1, <3>2, PathsAre
  <2>4. Len(stack') = 0 /\ DOMAIN stack' = {}
    BY <2>1
  <2>5. Descends(stack', Current', path', Len(stack'))
    BY <1>b, <2>1, <2>4 DEF Descends
  <2> QED
    BY <2>1, <2>3, <2>4, <2>5 DEF WalkShape, Calls
<1>2. CASE RecursionLimit \/ HandlePossibleFile \/ OpenDirFails
  <2>1. /\ arguments' = arguments /\ current_cmdline_index' = current_cmdline_index
        /\ stack' = stack /\ path' = path
        /\ \/ pc = "walk" /\ pc' = Returned
           \/ pc = "walk" /\ pc' = "possible" /\ Len(stack) < MaxDepth
           \/ pc = "possible" /\ pc' \in {"report_possible", Returned}
    BY <1>2, Moves DEF world
  <2>2. pc \in Calls /\ Descends(stack, Current, path, Len(stack)) /\ path \in Paths
    BY <2>1 DEF Calls, WalkShape
  <2>3. pc = "possible" => Len(stack) < MaxDepth
    BY DEF WalkShape
  <2>4. \A k \in DOMAIN stack' :
          /\ Descends(stack', Current', stack'[k].path, k - 1)
          /\ \A e \in stack'[k].seen : Parent[e] = stack'[k].dir /\ ~IsTop(e)
    BY <1>0, <1>a, <1>b, <2>1
  <2> QED
    BY <1>b, <1>c, <2>1, <2>2, <2>3, <2>4, ReturnedIs DEF WalkShape, Calls
<1>3. CASE OpenDir
  <2>1. /\ pc = "walk" /\ pc' = "read"
        /\ Len(stack') = n + 1 /\ stack' # <<>> /\ stack' \in Seq(Frames)
        /\ \A k \in 1 .. n : stack'[k] = stack[k]
        /\ stack'[n + 1].path = path /\ stack'[n + 1].seen = {}
        /\ arguments' = arguments /\ current_cmdline_index' = current_cmdline_index
    BY <1>3, OpenDirFacts DEF world, Frames
  <2>2. DOMAIN stack' = 1 .. n + 1
    BY <1>0, <2>1
  <2>3. \A p : \A m \in 0 .. n :
          Descends(stack, Current, p, m) => Descends(stack', Current', p, m)
    BY <1>0, <1>b, <2>1, StillDescends
  <2>4. Descends(stack, Current, path, n)
    BY <2>1 DEF WalkShape, Calls
  <2>5. ASSUME NEW k \in 1 .. n + 1
        PROVE  /\ Descends(stack', Current', stack'[k].path, k - 1)
               /\ \A e \in stack'[k].seen : Parent[e] = stack'[k].dir /\ ~IsTop(e)
    <3>1. CASE k = n + 1
      <4>1. k - 1 = n /\ n \in 0 .. n
        BY <1>0, <3>1
      <4> QED
        BY <2>1, <2>3, <2>4, <3>1, <4>1
    <3>2. CASE k # n + 1
      <4>1. k \in 1 .. n /\ k - 1 \in 0 .. n
        BY <1>0, <3>2
      <4> QED
        BY <1>a, <2>1, <2>3, <4>1
    <3> QED
      BY <3>1, <3>2
  <2> QED
    BY <1>c, <2>1, <2>2, <2>5 DEF WalkShape, Calls
<1>4. CASE ReadDir
  <2>1. PICK e \in Entries :
          /\ pc = "read" /\ n \in 1 .. MaxDepth
          /\ Parent[e] = stack[n].dir /\ ~IsTop(e)
          /\ path' \in Paths /\ Len(path') = n + 1
          /\ Prefix(stack[n].path, path') /\ path'[n + 1] = e
          /\ Len(stack') = n /\ DOMAIN stack' = 1 .. n
          /\ \A k \in 1 .. n :
               /\ stack'[k].path = stack[k].path /\ stack'[k].dir = stack[k].dir
               /\ stack'[k].seen = IF k = n THEN stack[k].seen \cup {e} ELSE stack[k].seen
          /\ arguments' = arguments /\ current_cmdline_index' = current_cmdline_index
          /\ pc' = Handling(LstatKind(path'))
    BY <1>4, ReadDirFacts DEF world
  <2>2. \A p : \A m \in 0 .. n :
          Descends(stack, Current, p, m) => Descends(stack', Current', p, m)
    <3>1. \A j \in 1 .. n : /\ stack'[j].path = stack[j].path
                            /\ stack[j].seen \subseteq stack'[j].seen
      BY <2>1
    <3>2. Current' = Current
      BY <1>b, <2>1
    <3>3. n \in Nat
      BY <1>0
    <3> HIDE DEF n
    <3> QED
      BY ONLY <3>1, <3>2, <3>3, StillDescends
  <2>3. n \in DOMAIN stack /\ n >= 1 /\ n \in 1 .. n
    <3>1. n \in 1 .. MaxDepth /\ n \in Nat /\ DOMAIN stack = 1 .. n
      BY <1>0, <2>1
    <3> HIDE DEF n
    <3> QED
      BY ONLY <3>1, BoundsAssumption
  <2>5. Descends(stack', Current', path', n)
    <3>1. Descends(stack, Current, stack[n].path, n - 1) /\ Len(stack[n].path) = n
      BY <1>0, <1>a, <2>3 DEF Descends
    <3>2. \A k \in 1 .. n : path'[k] = stack[n].path[k]
      BY <2>1, <3>1 DEF Prefix
    <3>3. path'[1] = Current'
      <4>1. stack[n].path[1] = Current /\ 1 \in 1 .. n
        BY <1>0, <2>3, <3>1 DEF Descends
      <4> QED
        BY <1>b, <2>1, <3>2, <4>1
    <3>4. ASSUME NEW j \in 1 .. n
          PROVE  Prefix(stack[j].path, path') /\ path'[j + 1] \in stack'[j].seen
      <4>1. CASE j = n
        BY <2>1, <4>1
      <4>2. CASE j # n
        <5>1. j \in 1 .. n - 1 /\ j + 1 \in 1 .. n /\ j <= n
          <6>1. n \in Nat
            BY <1>0
          <6> HIDE DEF n
          <6> QED
            BY <4>2, <6>1
        <5>2. Prefix(stack[j].path, stack[n].path) /\ stack[n].path[j + 1] \in stack[j].seen
          BY <3>1, <5>1 DEF Descends
        <5>3. Len(stack[j].path) = j
          <6>1. Len(stack[j].path) = j - 1 + 1
            BY <1>a, <3>4 DEF Descends
          <6> QED
            BY <6>1
        <5>4. \A k \in 1 .. j : path'[k] = stack[j].path[k]
          <6>1. \A k \in 1 .. j : k \in 1 .. n
            BY <1>0, <5>1
          <6> QED
            BY <3>2, <5>2, <5>3, <6>1 DEF Prefix
        <5>5. Prefix(stack[j].path, path')
          <6>1. j <= n + 1
            BY <1>0, <5>1
          <6> QED
            BY <2>1, <5>3, <5>4, <6>1 DEF Prefix
        <5> QED
          BY <2>1, <3>2, <4>2, <5>1, <5>2, <5>5
      <4> QED
        BY <4>1, <4>2
    <3>5. \A j \in 1 .. n : stack'[j].path = stack[j].path
      BY <2>1
    <3> QED
      BY <2>1, <3>3, <3>4, <3>5 DEF Descends
  <2>6. ASSUME NEW k \in 1 .. n
        PROVE  /\ Descends(stack', Current', stack'[k].path, k - 1)
               /\ \A c \in stack'[k].seen : Parent[c] = stack'[k].dir /\ ~IsTop(c)
    <3>1. Descends(stack', Current', stack[k].path, k - 1)
      <4>1. k - 1 \in 0 .. n
        BY <1>0
      <4> QED
        BY <1>a, <2>2, <4>1
    <3>2. \A c \in stack[k].seen : Parent[c] = stack[k].dir /\ ~IsTop(c)
      BY <1>a
    <3>3. stack'[k].path = stack[k].path /\ stack'[k].dir = stack[k].dir
          /\ \A c \in stack'[k].seen : c \in stack[k].seen \/ (k = n /\ c = e)
      BY <2>1
    <3> QED
      BY <2>1, <3>1, <3>2, <3>3
  <2>7. stack' # <<>>
    <3>1. Len(stack') = n /\ n >= 1
      BY <2>1, <2>3
    <3>2. ~(0 >= 1)
      OBVIOUS
    <3>3. Len(stack') # 0
      BY <3>1, <3>2
    <3> QED
      BY <3>3, EmptySeq
  <2>8. pc' \in {"report_file", "report_link", "walk", "read"}
    BY <2>1 DEF Handling
  <2> QED
    BY <1>c, <2>1, <2>5, <2>6, <2>7, <2>8 DEF WalkShape, Calls
<1>5. CASE CloseDir
  <2>1. /\ pc = "read" /\ n \in 1 .. MaxDepth /\ pc' = (IF n = 1 THEN "walked" ELSE "read")
        /\ Len(stack') = n - 1 /\ (stack' = <<>> <=> n = 1) /\ stack' \in Seq(Frames)
        /\ \A k \in 1 .. n - 1 : stack'[k] = stack[k]
        /\ arguments' = arguments /\ current_cmdline_index' = current_cmdline_index
    BY <1>5, CloseDirFacts DEF world, Frames
  <2>2. DOMAIN stack' = 1 .. n - 1 /\ n - 1 \in Nat
    BY <1>0, <2>1, BoundsAssumption
  <2>3. \A p : \A m \in 0 .. n - 1 :
          Descends(stack, Current, p, m) => Descends(stack', Current', p, m)
    <3>1. Current' = Current
      BY <1>b, <2>1
    <3>2. \A j \in 1 .. n - 1 : /\ stack'[j].path = stack[j].path
                                /\ stack[j].seen \subseteq stack'[j].seen
      BY <2>1
    <3> DEFINE m == n - 1
    <3>3. m \in Nat /\ \A j \in 1 .. m : /\ stack'[j].path = stack[j].path
                                         /\ stack[j].seen \subseteq stack'[j].seen
      BY <2>2, <3>2
    <3> HIDE DEF m
    <3>4. \A p : \A k \in 0 .. m :
            Descends(stack, Current, p, k) => Descends(stack', Current', p, k)
      BY ONLY <3>1, <3>3, StillDescends
    <3> QED
      BY <3>4 DEF m
  <2>4. ASSUME NEW k \in 1 .. n - 1
        PROVE  /\ Descends(stack', Current', stack'[k].path, k - 1)
               /\ \A e \in stack'[k].seen : Parent[e] = stack'[k].dir /\ ~IsTop(e)
    <3>1. k \in 1 .. n /\ stack'[k] = stack[k] /\ k - 1 \in 0 .. n - 1
      BY <1>0, <2>1
    <3> QED
      BY <1>a, <2>3, <3>1
  <2> QED
    BY <1>c, <2>1, <2>2, <2>4 DEF WalkShape, Calls
<1>6. CASE ReportFile \/ ReportLink \/ ReportPossible
  <2>1. /\ arguments' = arguments /\ current_cmdline_index' = current_cmdline_index
        /\ stack' = stack /\ path' = path
        /\ \/ pc = "report_file" /\ pc' = "read"
           \/ pc = "report_link" /\ pc' = "walk"
           \/ pc = "report_possible" /\ pc' = Returned
    BY <1>6, ReportFacts DEF world
  <2>2. pc \in Calls /\ Descends(stack, Current, path, Len(stack)) /\ path \in Paths
    BY <2>1 DEF Calls, WalkShape
  <2>3. pc = "report_file" => stack # <<>>
    BY DEF WalkShape
  <2>4. \A k \in DOMAIN stack' :
          /\ Descends(stack', Current', stack'[k].path, k - 1)
          /\ \A e \in stack'[k].seen : Parent[e] = stack'[k].dir /\ ~IsTop(e)
    BY <1>0, <1>a, <1>b, <2>1
  <2> QED
    BY <1>b, <1>c, <2>1, <2>2, <2>3, <2>4, ReturnedIs DEF WalkShape, Calls
<1>7. CASE EndArgument
  <2>1. stack = <<>> /\ stack' = stack /\ pc' = "argument"
    BY <1>7, EndArgumentFacts
  <2>2. DOMAIN stack' = {}
    BY <2>1
  <2> QED
    BY <2>1, <2>2 DEF WalkShape, Calls
<1>8. CASE \E e \in Entries : Change(e)
  BY <1>8 DEF Change, WalkShape, Current
<1>9. CASE UNCHANGED vars
  BY <1>9 DEF vars, WalkShape, Current
<1> QED
  BY <1>1, <1>2, <1>3, <1>4, <1>5, <1>6, <1>7, <1>8, <1>9 DEF Next, System, Done

-----------------------------------------------------------------------------
(* Only what was asked for.                                                 *)

LEMMA LedInit == Init => Led
<1> SUFFICES ASSUME Init
             PROVE  Led
  OBVIOUS
<1>1. stack = <<>> /\ filelist = <<>> /\ pc = "argument" /\ DOMAIN <<>> = {}
  BY DEF Init
<1> QED
  BY <1>1 DEF Led, LedFor, Calls

LEMMA StillLed ==
  ASSUME TypeOK, [Next]_vars, NEW i, NEW frames, NEW call, NEW p, NEW list,
         \A k \in DOMAIN frames : frames[k].path \in Paths,
         call \in Calls => p \in Paths,
         \A k \in DOMAIN list : list[k].path \in Paths,
         LedFor(i, frames, call, p, list)
  PROVE  LedFor(i, frames, call, p, list)'
<1>1. ASSUME NEW k \in DOMAIN frames
      PROVE  FrameLed(i, frames[k], k)'
  <2> DEFINE q == frames[k].path
             e == Last(q)
  <2> SUFFICES ASSUME Clean(q)'
               PROVE  /\ Leads(i, q)'
                      /\ frames[k].dir = Real(e)' /\ kind'[Real(e)'] = "dir"
                      /\ kind'[e] = "symlink" => options'.followsymlinks \/ k = 1
    BY DEF FrameLed
  <2>1. FrameLed(i, frames[k], k)
    BY DEF LedFor
  <2>2. Clean(q) /\ Real(e)' = Real(e) /\ kind'[e] = kind[e] /\ kind'[Real(e)] = kind[Real(e)]
    BY SameWay, LastIn
  <2>3. Leads(i, q)' <=> Leads(i, q)
    BY StillLeads
  <2>4. options' = options
    BY WorldStep
  <2> QED
    BY <2>1, <2>2, <2>3, <2>4 DEF FrameLed
<1>2. ASSUME call \in Calls
      PROVE  CallLed(i, call, p, frames # <<>>)'
  <2> DEFINE e == Last(p)
             inside == frames # <<>>
  <2>1. CallLed(i, call, p, inside)
    BY <1>2 DEF LedFor
  <2> HIDE DEF inside
  <2> SUFFICES ASSUME Clean(p)'
               PROVE  /\ Leads(i, p)'
                      /\ call = "report_file" => kind'[e] = "file"
                      /\ call = "report_link" => FollowedLink(e)'
                      /\ call \in {"walk", "possible"} /\ inside =>
                           kind'[e] = "dir" \/ FollowedLink(e)'
                      /\ call = "report_possible" =>
                           (kind'[e] = "file" /\ ~inside) \/ FollowedLink(e)'
    BY DEF CallLed, inside
  <2>2. Clean(p) /\ kind'[e] = kind[e]
    BY <1>2, SameWay, LastIn
  <2>3. Leads(i, p)' <=> Leads(i, p)
    BY <1>2, StillLeads
  <2>4. FollowedLink(e)' <=> FollowedLink(e)
    BY <2>2, WorldStep DEF FollowedLink
  <2> QED
    BY <2>1, <2>2, <2>3, <2>4 DEF CallLed
<1>3. ASSUME NEW k \in DOMAIN list
      PROVE  ItemLed(list[k])'
  <2> SUFFICES ASSUME Clean(list[k].path)'
               PROVE  list[k] \in Expected'
    BY DEF ItemLed
  <2>1. ItemLed(list[k])
    BY DEF LedFor
  <2>2. Clean(list[k].path)
    BY SameWay
  <2>3. list[k] \in Expected' <=> list[k] \in Expected
    BY StillExpected
  <2> QED
    BY <2>1, <2>2, <2>3 DEF ItemLed
<1> QED
  BY <1>1, <1>2, <1>3 DEF LedFor

(* What is there when the call looks.                                       *)
LEMMA LooksUp ==
  ASSUME NEW i, NEW p \in Paths, Leads(i, p)
  PROVE  LstatKind(p) = kind[Last(p)] /\ StatKind(p) = kind[Real(Last(p))]
BY LeadsIsReachable DEF LstatKind, StatKind

LEMMA LeadsOn ==
  ASSUME NEW i, NEW p \in Paths, NEW e, NEW q, Leads(i, p), q = Append(p, e), e \in Entries,
         Parent[e] = Real(Last(p)), ~IsTop(e), kind[Real(Last(p))] = "dir",
         kind[Last(p)] = "symlink" => options.followsymlinks \/ Len(p) = 1
  PROVE  Leads(i, q)
<1>1. p \in Seq(Entries) /\ Len(p) \in Nat /\ Len(p) >= 1
  BY PathsAre
<1>2. /\ Len(q) = Len(p) + 1 /\ q[Len(p) + 1] = e
      /\ \A k \in 1 .. Len(p) : q[k] = p[k]
  BY <1>1
<1>3. q[1] = arguments[i]
  BY <1>1, <1>2 DEF Leads
<1>4. ASSUME NEW k \in 1 .. Len(p)
      PROVE  /\ Real(q[k]) = Parent[q[k + 1]] /\ ~IsTop(q[k + 1])
             /\ kind[Real(q[k])] = "dir"
             /\ kind[q[k]] = "symlink" => options.followsymlinks \/ k = 1
  <2>1. CASE k = Len(p)
    BY <1>2, <2>1 DEF Last
  <2>2. CASE k # Len(p)
    <3>1. k \in 1 .. Len(p) - 1 /\ k + 1 \in 1 .. Len(p)
      BY <1>1, <2>2
    <3>2. q[k] = p[k] /\ q[k + 1] = p[k + 1]
      BY <1>2, <3>1
    <3> QED
      BY <3>1, <3>2 DEF Leads
  <2> QED
    BY <2>1, <2>2
<1>5. Len(q) - 1 = Len(p)
  BY <1>1, <1>2
<1> QED
  BY <1>3, <1>4, <1>5 DEF Leads

LEMMA FramePaths ==
  ASSUME TypeOK
  PROVE  /\ \A k \in DOMAIN stack : stack[k].path \in Paths /\ stack[k].dir \in Entries
         /\ DOMAIN stack = 1 .. Len(stack) /\ Len(stack) \in Nat
         /\ DOMAIN filelist = 1 .. Len(filelist) /\ Len(filelist) \in Nat
<1> DEFINE Frames == [path : Paths, dir : Entries, seen : SUBSET Entries]
           Items == [path : Paths, depth : 0 .. MaxDepth, cmdline_index : DOMAIN arguments]
<1>1. stack \in Seq(Frames) /\ filelist \in Seq(Items)
  BY DEF TypeOK
<1>2. /\ DOMAIN stack = 1 .. Len(stack) /\ Len(stack) \in Nat
      /\ DOMAIN filelist = 1 .. Len(filelist) /\ Len(filelist) \in Nat
  <2> HIDE DEF Frames, Items
  <2> QED
    BY <1>1
<1>3. \A k \in DOMAIN stack : stack[k] \in Frames
  BY <1>1, <1>2, ElementOfSeq
<1> QED
  BY <1>2, <1>3

LEMMA ReportedIsExpected ==
  ASSUME TypeOK, WalkShape, Led, NEW depth \in 0 .. MaxDepth, Wanted, Clean(path),
         \/ pc \in {"report_file", "report_link"} /\ depth = Len(path) - 2 /\ Len(path) > 1
         \/ pc = "report_possible" /\ depth = Len(path) - 1
  PROVE  Item(depth) \in Expected
<1> DEFINE e == Last(path)
           level == Len(path) - 1
<1>1. /\ path \in Paths /\ current_cmdline_index \in DOMAIN arguments
      /\ Len(path) = Len(stack) + 1 /\ (pc = "report_possible" => Len(stack) < MaxDepth)
  <2>1. /\ path \in Paths /\ current_cmdline_index <= Len(arguments)
        /\ Len(path) = Len(stack) + 1 /\ (pc = "report_possible" => Len(stack) < MaxDepth)
    BY DEF WalkShape, Calls, Descends
  <2>2. arguments \in Seq(Entries) /\ current_cmdline_index \in 1 .. Len(arguments) + 1
    BY ArgumentsAssumption DEF TypeOK
  <2> QED
    BY <2>1, <2>2
<1>2. CallLed(current_cmdline_index, pc, path, stack # <<>>)
  BY DEF Led, LedFor, Calls
<1>3. Leads(current_cmdline_index, path)
  BY <1>2 DEF CallLed
<1>4. /\ kind[e] = "symlink" => options.followsymlinks
      /\ pc = "report_possible" => stack = <<>> \/ kind[e] = "symlink"
  BY <1>2 DEF CallLed, FollowedLink
<1>5. kind[Real(e)] = "file" /\ SizeWanted(Real(e))
  BY <1>1, <1>3, LooksUp DEF Wanted
<1>6. depth \in DepthsOf(path)
  <2>0. Len(stack) \in Nat
    BY FramePaths
  <2>1. CASE pc \in {"report_file", "report_link"}
    <3>1. level > 0 /\ depth = level - 1
      BY <1>1, <2>0, <2>1
    <3> HIDE DEF level
    <3> QED
      BY <3>1 DEF DepthsOf, level
  <2>2. CASE pc = "report_possible"
    <3>1. level < MaxDepth /\ depth = level /\ (stack = <<>> => level = 0)
      BY <1>1, <2>0, <2>2
    <3> HIDE DEF level
    <3> QED
      BY <1>4, <2>2, <3>1 DEF DepthsOf, level
  <2> QED
    BY <2>1, <2>2
<1> QED
  BY <1>1, <1>3, <1>4, <1>5, <1>6 DEF Expected, Item

LEMMA LedMeanwhile ==
  ASSUME TypeOK, WalkShape, NewestDiffer, Led, [Next]_vars
  PROVE  LedFor(current_cmdline_index', stack', pc', path', filelist')
<1> DEFINE i == current_cmdline_index
           n == Len(stack)
           list == filelist
<1>0. n \in Nat /\ DOMAIN stack = 1 .. n
  BY FramePaths
<1>a. /\ \A k \in DOMAIN stack : FrameLed(i, stack[k], k)
      /\ pc \in Calls => CallLed(i, pc, path, stack # <<>>)
      /\ \A k \in DOMAIN list : ItemLed(list[k])
  BY DEF Led, LedFor
<1>b. \A k \in 1 .. n : FrameLed(i, stack[k], k)
  BY <1>0, <1>a
<1>1. CASE StartArgument
  <2>1. /\ stack' = stack /\ filelist' = list /\ i' = i
        /\ pc' = "walk" /\ path' = <<Current>> /\ stack = <<>>
    BY <1>1 DEF StartArgument, WalkShape, Current
  <2>2. Leads(i, <<Current>>)
    <3>1. Len(<<Current>>) - 1 = 0 /\ <<Current>>[1] = Current
      OBVIOUS
    <3> QED
      BY <3>1 DEF Leads, Current
  <2>3. CallLed(i, "walk", <<Current>>, FALSE)
    BY <2>2 DEF CallLed
  <2> QED
    BY <1>a, <2>1, <2>3 DEF LedFor
<1>2. CASE RecursionLimit \/ HandlePossibleFile \/ OpenDirFails
  <2>1. i' = i /\ stack' = stack /\ path' = path /\ filelist' = list
    BY <1>2, Moves
  <2>2. pc' \in Calls => CallLed(i, pc', path, stack # <<>>)
    <3>1. pc \in Calls /\ path \in Paths
      BY <1>2, Moves DEF Calls, WalkShape
    <3>2. CASE RecursionLimit
      BY <3>2, ReturnedIs DEF RecursionLimit, Calls
    <3>3. CASE OpenDirFails
      BY <1>a, <3>1, <3>3 DEF OpenDirFails, CallLed
    <3>4. CASE HandlePossibleFile
      <4>1. /\ pc = "possible"
            /\ pc' = "report_possible" =>
                 \/ LstatKind(path) = "file"
                 \/ LstatKind(path) = "symlink" /\ options.followsymlinks
            /\ pc' \in Calls => pc' = "report_possible"
        BY <3>4, ReturnedIs DEF HandlePossibleFile, Calls
      <4>2. ASSUME Clean(path), pc' = "report_possible"
            PROVE  /\ Leads(i, path)
                   /\ (kind[Last(path)] = "file" /\ ~(stack # <<>>)) \/ FollowedLink(Last(path))
        <5>1. Leads(i, path)
          BY <1>a, <3>1, <4>2 DEF CallLed
        <5>2. LstatKind(path) = kind[Last(path)]
          BY <3>1, <5>1, LooksUp
        <5>3. stack # <<>> => kind[Last(path)] = "dir" \/ FollowedLink(Last(path))
          BY <1>a, <3>1, <4>1, <4>2 DEF CallLed
        <5> QED
          BY <4>1, <4>2, <5>1, <5>2, <5>3 DEF FollowedLink
      <4> QED
        BY <4>1, <4>2 DEF CallLed
    <3> QED
      BY <1>2, <3>2, <3>3, <3>4
  <2> QED
    BY <1>a, <2>1, <2>2 DEF LedFor
<1>3. CASE OpenDir
  <2>1. /\ pc = "walk" /\ pc' = "read" /\ StatKind(path) = "dir" /\ path \in Paths
        /\ Len(stack') = n + 1 /\ DOMAIN stack' = 1 .. n + 1
        /\ \A k \in 1 .. n : stack'[k] = stack[k]
        /\ stack'[n + 1].path = path /\ stack'[n + 1].dir = Real(Last(path))
        /\ i' = i /\ filelist' = list
    <3>1. DOMAIN stack' = 1 .. Len(stack')
      BY <1>3, OpenDirFacts
    <3> QED
      BY <1>3, <3>1, OpenDirFacts
  <2>2. FrameLed(i, stack'[n + 1], n + 1)
    <3> SUFFICES ASSUME Clean(path)
                 PROVE  /\ Leads(i, path)
                        /\ kind[Real(Last(path))] = "dir"
                        /\ kind[Last(path)] = "symlink" => options.followsymlinks \/ n + 1 = 1
      BY <2>1 DEF FrameLed
    <3>1. CallLed(i, pc, path, stack # <<>>)
      BY <1>a, <2>1 DEF Calls
    <3>2. Leads(i, path)
      BY <3>1 DEF CallLed
    <3>3. kind[Real(Last(path))] = "dir"
      BY <2>1, <3>2, LooksUp
    <3>4. stack = <<>> => n + 1 = 1
      OBVIOUS
    <3>5. stack # <<>> /\ kind[Last(path)] = "symlink" => options.followsymlinks
      BY <2>1, <3>1 DEF CallLed, FollowedLink
    <3> QED
      BY <3>2, <3>3, <3>4, <3>5
  <2>3. \A k \in DOMAIN stack' : FrameLed(i, stack'[k], k)
    <3>1. \A k \in 1 .. n + 1 : k \in 1 .. n \/ k = n + 1
      BY <1>0
    <3> QED
      BY <1>b, <2>1, <2>2, <3>1
  <2> QED
    BY <1>a, <2>1, <2>3 DEF LedFor, Calls
<1>4. CASE ReadDir
  <2>1. PICK e \in Entries :
          /\ pc = "read" /\ n \in 1 .. MaxDepth /\ Parent[e] = stack[n].dir /\ ~IsTop(e)
          /\ path' \in Paths /\ Len(path') = n + 1 /\ path' = Append(stack[n].path, e)
          /\ Prefix(stack[n].path, path') /\ path'[n + 1] = e
          /\ pc' = Handling(LstatKind(path'))
          /\ DOMAIN stack' = 1 .. n
          /\ \A k \in 1 .. n : stack'[k].path = stack[k].path /\ stack'[k].dir = stack[k].dir
          /\ i' = i /\ filelist' = list
    BY <1>4, ReadDirFacts
  <2>2. \A k \in 1 .. n : FrameLed(i, stack'[k], k)
    BY <1>b, <2>1 DEF FrameLed
  <2>3. n \in 1 .. n /\ n >= 1 /\ stack[n].path \in Paths /\ Len(stack[n].path) = n
    <3>1. n \in 1 .. n
      BY <1>0, <2>1, BoundsAssumption
    <3>2. Descends(stack, Current, stack[n].path, n - 1)
      BY <1>0, <3>1 DEF WalkShape
    <3>3. Len(stack[n].path) = n - 1 + 1
      BY <3>2 DEF Descends
    <3> QED
      BY <1>0, <3>1, <3>3, FramePaths
  <2>4. CallLed(i, pc', path', TRUE)
    <3> SUFFICES ASSUME Clean(path')
                 PROVE  CallLed(i, pc', path', TRUE)
      BY DEF CallLed
    <3>1. Clean(stack[n].path)
      BY <2>1, <2>3, CleanPrefix
    <3>2. /\ Leads(i, stack[n].path) /\ stack[n].dir = Real(Last(stack[n].path))
          /\ kind[Real(Last(stack[n].path))] = "dir"
          /\ kind[Last(stack[n].path)] = "symlink" => options.followsymlinks \/ n = 1
      BY <1>b, <2>3, <3>1 DEF FrameLed
    <3>3. Leads(i, path')
      BY <2>1, <2>3, <3>2, LeadsOn
    <3>4. Last(path') = e
      BY <2>1 DEF Last
    <3>5. LstatKind(path') = kind[e]
      BY <2>1, <3>3, <3>4, LooksUp
    <3>6. pc' = Handling(kind[e])
      BY <2>1, <3>5
    <3> QED
      BY <3>3, <3>4, <3>6 DEF CallLed, Handling, FollowedLink
  <2>5. stack' # <<>>
    BY <2>1, <2>3
  <2> QED
    BY <1>a, <2>1, <2>2, <2>4, <2>5 DEF LedFor
<1>5. CASE CloseDir
  <2>1. /\ pc' \in {"walked", "read"} /\ Len(stack') = n - 1 /\ DOMAIN stack' = 1 .. n - 1
        /\ \A k \in 1 .. n - 1 : stack'[k] = stack[k]
        /\ i' = i /\ filelist' = list
    <3>1. DOMAIN stack' = 1 .. Len(stack')
      BY <1>5, CloseDirFacts
    <3> QED
      BY <1>5, <3>1, CloseDirFacts
  <2>2. \A k \in 1 .. n - 1 : FrameLed(i, stack'[k], k)
    <3>1. \A k \in 1 .. n - 1 : k \in 1 .. n
      BY <1>0
    <3> QED
      BY <1>b, <2>1, <3>1
  <2> QED
    BY <1>a, <2>1, <2>2 DEF LedFor, Calls
<1>6. CASE ReportFile \/ ReportLink \/ ReportPossible
  <2>1. PICK depth \in 0 .. MaxDepth :
          /\ \/ pc = "report_file" /\ pc' = "read" /\ depth = Len(path) - 2
             \/ pc = "report_link" /\ pc' = "walk" /\ depth = Len(path) - 2
             \/ pc = "report_possible" /\ pc' = Returned /\ depth = Len(path) - 1
          /\ pc \in {"report_file", "report_link"} => Len(path) > 1
          /\ Item(depth).path = path
          /\ filelist' = IF Wanted THEN Append(filelist, Item(depth)) ELSE filelist
          /\ i' = i /\ stack' = stack /\ path' = path
    BY <1>6, ReportFacts
  <2>2. Wanted => ItemLed(Item(depth))
    BY <2>1, ReportedIsExpected DEF ItemLed
  <2>3. \A k \in DOMAIN filelist' : ItemLed(filelist'[k])
    <3>1. CASE Wanted
      <4>1. DOMAIN list = 1 .. Len(list) /\ Len(list) \in Nat
        BY FramePaths
      <4>2. filelist' = Append(filelist, Item(depth))
        BY <2>1, <3>1
      <4>3. filelist \in Seq({filelist[k] : k \in DOMAIN filelist})
        <5>1. filelist = [k \in 1 .. Len(filelist) |-> filelist[k]]
          BY <4>1 DEF TypeOK
        <5> QED
          BY <4>1, <5>1
      <4>4. /\ DOMAIN filelist' = 1 .. Len(list) + 1
            /\ \A k \in DOMAIN filelist' : filelist'[k] = Item(depth) \/
                 (k \in DOMAIN list /\ filelist'[k] = list[k])
        BY <4>1, <4>2, <4>3
      <4> QED
        BY <1>a, <2>2, <3>1, <4>4
    <3>2. CASE ~Wanted
      BY <1>a, <2>1, <3>2
    <3> QED
      BY <3>1, <3>2
  <2>4. pc' \in Calls => CallLed(i, pc', path, stack # <<>>)
    BY <1>a, <2>1, ReturnedIs DEF Calls, CallLed
  <2> QED
    BY <1>a, <2>1, <2>3, <2>4 DEF LedFor
<1>7. CASE EndArgument
  <2>1. /\ pc' = "argument" /\ stack = <<>> /\ stack' = stack
        /\ DOMAIN filelist' = DOMAIN filelist
        /\ \A j \in DOMAIN filelist : \E k \in DOMAIN filelist : filelist'[j] = filelist[k]
    <3>1. lastsize \in Nat /\ DOMAIN filelist = 1 .. Len(filelist)
      BY FramePaths DEF TypeOK
    <3>2. DOMAIN filelist' = 1 .. Len(filelist')
      BY <1>7, EndArgumentFacts
    <3>3. ASSUME NEW j \in 1 .. Len(filelist)
          PROVE  \E k \in 1 .. Len(filelist) : filelist'[j] = filelist[k]
      <4>1. \A k \in lastsize + 1 .. Len(filelist) : k \in 1 .. Len(filelist)
        BY <3>1
      <4>2. j \in 1 .. lastsize \/ j \in lastsize + 1 .. Len(filelist)
        BY <3>1
      <4> QED
        BY <1>7, <4>1, <4>2, EndArgumentFacts
    <3> QED
      BY <1>7, <3>1, <3>2, <3>3, EndArgumentFacts
  <2>2. \A k \in DOMAIN filelist' : ItemLed(filelist'[k])
    BY <1>a, <2>1
  <2>3. DOMAIN stack' = {}
    BY <2>1
  <2> QED
    BY <2>1, <2>2, <2>3 DEF LedFor, Calls
<1>8. CASE (\E e \in Entries : Change(e)) \/ UNCHANGED vars
  <2>1. i' = i /\ stack' = stack /\ path' = path /\ pc' = pc /\ filelist' = filelist
    BY <1>8 DEF Change, vars
  <2> QED
    BY <1>a, <2>1 DEF LedFor
<1> QED
  BY <1>1, <1>2, <1>3, <1>4, <1>5, <1>6, <1>7, <1>8 DEF Next, System, Done

LEMMA PathsOfBoth ==
  TypeOK => /\ \A k \in DOMAIN stack : stack[k].path \in Paths
            /\ \A k \in DOMAIN filelist : filelist[k].path \in Paths
BY FramePaths, ItemTypes

LEMMA PathsOfBothNext ==
  TypeOK' => /\ \A k \in DOMAIN stack' : stack'[k].path \in Paths
             /\ \A k \in DOMAIN filelist' : filelist'[k].path \in Paths
<1>1. (TypeOK => /\ \A k \in DOMAIN stack : stack[k].path \in Paths
                 /\ \A k \in DOMAIN filelist : filelist[k].path \in Paths)'
  BY PathsOfBoth, PTL
<1> QED
  BY <1>1

LEMMA LedStep ==
  ASSUME TypeOK, WalkShape, NewestDiffer, Led, [Next]_vars
  PROVE  Led'
<1>1. TypeOK' /\ WalkShape'
  BY TypeStep, ShapeStep
<1>2. /\ \A k \in DOMAIN stack' : stack'[k].path \in Paths
      /\ \A k \in DOMAIN filelist' : filelist'[k].path \in Paths
  BY <1>1, PathsOfBothNext
<1>3. PICK i, frames, call, p, list :
        /\ i = current_cmdline_index' /\ frames = stack' /\ call = pc' /\ p = path'
        /\ list = filelist'
  OBVIOUS
<1>4. LedFor(i, frames, call, p, list)
  BY <1>3, LedMeanwhile
<1>5. call \in Calls => p \in Paths
  BY <1>1, <1>3 DEF WalkShape
<1>6. LedFor(i, frames, call, p, list)'
  BY <1>2, <1>3, <1>4, <1>5, StillLed
<1> QED
  BY <1>3, <1>6 DEF Led

-----------------------------------------------------------------------------
(* The order of the list.                                                   *)

LEMMA OrderInit == Init => SettledInOrder /\ NewestDiffer
<1> SUFFICES ASSUME Init
             PROVE  SettledInOrder /\ NewestDiffer
  OBVIOUS
<1>1. filelist = <<>> /\ pc = "argument" /\ Len(<<>>) = 0
  BY DEF Init
<1>2. Settled = 0 /\ Len(filelist) = 0
  BY <1>1 DEF Settled
<1>3. 1 .. 0 = {} /\ 0 + 1 .. 0 = {}
  OBVIOUS
<1> QED
  BY <1>2, <1>3 DEF SettledInOrder, NewestDiffer

LEMMA PathIsOfSiblings ==
  ASSUME TypeOK, WalkShape, pc \in Calls, NEW y, y.path \in Paths,
         NewItem(y, current_cmdline_index, Current, stack, pc, path)
  PROVE  Siblings(path, y.path) /\ Siblings(y.path, path)
<1> DEFINE q == y.path
           n == Len(stack)
<1>1. path \in Paths /\ Descends(stack, Current, path, n)
  BY DEF WalkShape
<1>2. /\ path \in Seq(Entries) /\ q \in Seq(Entries)
      /\ Len(path) = n + 1 /\ Len(q) \in Nat /\ n \in Nat /\ DOMAIN stack = 1 .. n
      /\ path[1] = Current /\ q[1] = Current
  BY <1>1, PathsAre, FramePaths DEF Descends, NewItem
<1>3. ASSUME NEW k \in DOMAIN path \cap DOMAIN q,
             \A m \in 1 .. k - 1 : path[m] = q[m], path[k] # q[k]
      PROVE  Parent[path[k]] = Parent[q[k]]
  <2> DEFINE j == k - 1
  <2>1. k \in 1 .. n + 1 /\ k <= Len(q) /\ k # 1
    BY <1>2, <1>3
  <2>2. j \in 1 .. n /\ j + 1 = k /\ j < Len(q) /\ j \in Nat
    BY <1>2, <2>1
  <2>3. \A m \in 1 .. j : path[m] = q[m]
    BY <1>3
  <2> HIDE DEF j
  <2>4. Prefix(stack[j].path, path) /\ path[j + 1] \in stack[j].seen
    BY <1>1, <2>2 DEF Descends
  <2>5. Len(stack[j].path) = j
    <3>1. Descends(stack, Current, stack[j].path, j - 1)
      BY <1>2, <2>2 DEF WalkShape
    <3>2. Len(stack[j].path) = j - 1 + 1
      BY <3>1 DEF Descends
    <3> QED
      BY <2>2, <3>2
  <2>6. Prefix(stack[j].path, q)
    <3>1. \A m \in 1 .. j : q[m] = stack[j].path[m]
      BY <2>3, <2>4, <2>5 DEF Prefix
    <3>2. j <= Len(q)
      BY <1>2, <2>2
    <3> QED
      BY <2>5, <3>1, <3>2 DEF Prefix
  <2>7. Len(q) # j
    BY <1>2, <2>2
  <2>8. q[j + 1] \in stack[j].seen
    BY <1>2, <2>2, <2>6, <2>7 DEF NewItem
  <2>9. \A e \in stack[j].seen : Parent[e] = stack[j].dir
    BY <1>2, <2>2 DEF WalkShape
  <2> QED
    BY <2>2, <2>4, <2>8, <2>9
<1> QED
  BY <1>3 DEF Siblings

LEMMA SettledStays ==
  ASSUME pc # "argument", pc' # "argument", lastsize' = lastsize
  PROVE  Settled = lastsize /\ Settled' = lastsize
BY DEF Settled

(* Steps that leave the list alone.                                         *)
LEMMA SameList ==
  ASSUME TypeOK, NewestDiffer, filelist' = filelist, Settled' = Settled,
         \A x : /\ x.path \in Paths
                /\ NewItem(x, current_cmdline_index, Current, stack, pc, path)
                => NewItem(x, current_cmdline_index', Current', stack', pc', path')
  PROVE  NewestDiffer'
<1>1. Settled \in Nat /\ Len(filelist) \in Nat /\ DOMAIN filelist = 1 .. Len(filelist)
  BY FramePaths DEF TypeOK, Settled
<1>2. \A k \in Settled + 1 .. Len(filelist) : filelist[k].path \in Paths
  <2>1. \A k \in Settled + 1 .. Len(filelist) : k \in DOMAIN filelist
    BY <1>1
  <2> QED
    BY <2>1, ItemTypes
<1>3. ASSUME NEW k \in Settled + 1 .. Len(filelist)
      PROVE  /\ NewItem(filelist[k], current_cmdline_index', Current', stack', pc', path')
             /\ \A j \in Settled + 1 .. Len(filelist) : j # k => Differ(filelist[j], filelist[k])
  <2>1. /\ NewItem(filelist[k], current_cmdline_index, Current, stack, pc, path)
        /\ \A j \in Settled + 1 .. Len(filelist) : j # k => Differ(filelist[j], filelist[k])
    BY DEF NewestDiffer
  <2> QED
    BY <1>2, <2>1
<1> QED
  BY <1>3 DEF NewestDiffer

LEMMA DifferStep ==
  ASSUME TypeOK, WalkShape, NewestDiffer, [Next]_vars
  PROVE  NewestDiffer'
<1> DEFINE n == Len(stack)
           i == current_cmdline_index
<1>0. /\ n \in Nat /\ DOMAIN stack = 1 .. n
      /\ Settled \in Nat /\ Len(filelist) \in Nat /\ DOMAIN filelist = 1 .. Len(filelist)
  BY FramePaths DEF TypeOK, Settled
<1>a. UNCHANGED <<arguments, current_cmdline_index>> => Current' = Current
  BY DEF Current
<1>1. CASE StartArgument \/ EndArgument
  <2>1. Settled' = Len(filelist')
    BY <1>1 DEF StartArgument, EndArgument, Settled
  <2>2. Len(filelist') \in Nat
    BY <1>0, <1>1, EndArgumentFacts DEF StartArgument
  <2>3. Len(filelist') + 1 .. Len(filelist') = {}
    BY <2>2
  <2> QED
    BY <2>1, <2>3 DEF NewestDiffer
<1>2. CASE RecursionLimit \/ HandlePossibleFile \/ OpenDirFails
  <2>1. /\ i' = i /\ Current' = Current /\ stack' = stack /\ path' = path
        /\ filelist' = filelist /\ lastsize' = lastsize
        /\ \/ pc = "walk" /\ pc' \in {Returned, "possible"}
           \/ pc = "possible" /\ pc' \in {"report_possible", Returned}
    BY <1>2, <1>a, Moves DEF world
  <2>2. /\ pc # "argument" /\ pc' # "argument" /\ pc \in Calls
        /\ pc' \in Calls => pc' \in {"walk", "possible", "report_possible"}
    BY <2>1, ReturnedIs DEF Calls
  <2>3. Settled' = Settled
    BY <2>1, <2>2, SettledStays
  <2>4. \A x : NewItem(x, i, Current, stack, pc, path) =>
               NewItem(x, i', Current', stack', pc', path')
    BY <2>1, <2>2 DEF NewItem
  <2> QED
    BY <2>1, <2>3, <2>4, SameList
<1>3. CASE OpenDir
  <2>1. /\ pc = "walk" /\ pc' = "read" /\ path \in Paths
        /\ Len(stack') = n + 1 /\ stack' # <<>>
        /\ \A k \in 1 .. n : stack'[k] = stack[k]
        /\ stack'[n + 1].path = path
        /\ i' = i /\ filelist' = filelist /\ lastsize' = lastsize /\ Current' = Current
    BY <1>3, <1>a, OpenDirFacts DEF world
  <2>2. DOMAIN stack' = 1 .. n + 1
    <3>1. DOMAIN stack' = 1 .. Len(stack')
      BY <1>3, OpenDirFacts
    <3> QED
      BY <2>1, <3>1
  <2>3. Settled' = Settled
    BY <2>1, SettledStays
  <2>4. Len(path) = n + 1
    BY <2>1 DEF WalkShape, Calls, Descends
  <2>5. ASSUME NEW x, NewItem(x, i, Current, stack, pc, path)
        PROVE  NewItem(x, i', Current', stack', pc', path')
    <3>1. ASSUME NEW j \in 1 .. n + 1, Prefix(stack'[j].path, x.path)
          PROVE  Len(x.path) = j \/ x.path[j + 1] \in stack'[j].seen
      <4>1. CASE j = n + 1
        BY <2>1, <2>4, <2>5, <3>1, <4>1 DEF NewItem, Calls
      <4>2. CASE j # n + 1
        <5>1. j \in 1 .. n
          BY <1>0, <4>2
        <5> QED
          BY <1>0, <2>1, <2>5, <3>1, <5>1 DEF NewItem
      <4> QED
        BY <4>1, <4>2
    <3> QED
      BY <2>1, <2>2, <2>5, <3>1 DEF NewItem, Calls
  <2> QED
    BY <2>1, <2>3, <2>5, SameList
<1>4. CASE ReadDir
  <2>1. PICK e \in Entries :
          /\ pc = "read" /\ n \in 1 .. MaxDepth /\ e \notin stack[n].seen
          /\ path' \in Paths /\ Len(path') = n + 1
          /\ Prefix(stack[n].path, path') /\ path'[n + 1] = e
          /\ DOMAIN stack' = 1 .. n
          /\ \A k \in 1 .. n :
               /\ stack'[k].path = stack[k].path
               /\ stack'[k].seen = IF k = n THEN stack[k].seen \cup {e} ELSE stack[k].seen
          /\ i' = i /\ filelist' = filelist /\ lastsize' = lastsize /\ Current' = Current
          /\ pc' = Handling(LstatKind(path'))
    BY <1>4, <1>a, ReadDirFacts DEF world
  <2>2. pc' # "argument"
    BY <2>1 DEF Handling
  <2>3. Settled' = Settled
    BY <2>1, <2>2, SettledStays
  <2>4. n \in 1 .. n /\ Len(stack[n].path) = n
    <3>1. n \in 1 .. n
      <4>1. n \in Nat /\ n \in 1 .. MaxDepth /\ MaxDepth \in Nat
        BY <1>0, <2>1, BoundsAssumption
      <4> HIDE DEF n
      <4> QED
        BY <4>1
    <3>2. Descends(stack, Current, stack[n].path, n - 1)
      BY <1>0, <3>1 DEF WalkShape
    <3>3. Len(stack[n].path) = n - 1 + 1
      BY <3>2 DEF Descends
    <3> QED
      BY <1>0, <3>1, <3>3
  <2>5. ASSUME NEW x, x.path \in Paths, NewItem(x, i, Current, stack, pc, path)
        PROVE  NewItem(x, i', Current', stack', pc', path')
    <3>1. \A j \in 1 .. n : stack'[j].path = stack[j].path /\ stack[j].seen \subseteq stack'[j].seen
      BY <2>1
    <3>2. \A j \in DOMAIN stack' : Prefix(stack'[j].path, x.path) =>
            Len(x.path) = j \/ x.path[j + 1] \in stack'[j].seen
      BY <1>0, <2>1, <2>5, <3>1 DEF NewItem
    <3>3. ASSUME Prefix(path', x.path)
          PROVE  FALSE
      <4>1. Len(x.path) \in Nat /\ n + 1 <= Len(x.path)
        BY <2>1, <2>5, <3>3, PathsAre DEF Prefix
      <4>2. \A k \in 1 .. n : x.path[k] = path'[k] /\ path'[k] = stack[n].path[k]
        <5>1. \A k \in 1 .. n : k \in 1 .. n + 1
          BY <1>0
        <5> QED
          BY <2>1, <2>4, <3>3, <5>1 DEF Prefix
      <4>3. n <= Len(x.path) /\ Len(x.path) # n
        BY <1>0, <4>1
      <4>4. Prefix(stack[n].path, x.path)
        BY <2>4, <4>2, <4>3 DEF Prefix
      <4>5. x.path[n + 1] \in stack[n].seen
        BY <1>0, <2>4, <2>5, <4>3, <4>4 DEF NewItem
      <4>6. n + 1 \in 1 .. n + 1
        BY <1>0
      <4>7. x.path[n + 1] = e
        BY <2>1, <3>3, <4>6 DEF Prefix
      <4> QED
        BY <2>1, <4>5, <4>7
    <3> QED
      BY <2>1, <2>5, <3>2, <3>3 DEF NewItem
  <2> QED
    BY <2>1, <2>3, <2>5, SameList
<1>5. CASE CloseDir
  <2>1. /\ pc = "read" /\ pc' \in {"walked", "read"} /\ Len(stack') = n - 1
        /\ \A k \in 1 .. n - 1 : stack'[k] = stack[k]
        /\ i' = i /\ filelist' = filelist /\ lastsize' = lastsize /\ Current' = Current
    BY <1>5, <1>a, CloseDirFacts DEF world
  <2>2. DOMAIN stack' = 1 .. n - 1
    <3>1. DOMAIN stack' = 1 .. Len(stack')
      BY <1>5, CloseDirFacts
    <3> QED
      BY <2>1, <3>1
  <2>3. Settled' = Settled
    BY <2>1, SettledStays
  <2>4. \A k \in 1 .. n - 1 : k \in 1 .. n
    BY <1>0
  <2>5. ASSUME NEW x, NewItem(x, i, Current, stack, pc, path)
        PROVE  NewItem(x, i', Current', stack', pc', path')
    BY <1>0, <2>1, <2>2, <2>4, <2>5 DEF NewItem, Calls
  <2> QED
    BY <2>1, <2>3, <2>5, SameList
<1>6. CASE ReportFile \/ ReportLink \/ ReportPossible
  <2>1. PICK depth \in 0 .. MaxDepth :
          /\ \/ pc = "report_file" /\ pc' = "read" /\ depth = Len(path) - 2
             \/ pc = "report_link" /\ pc' = "walk" /\ depth = Len(path) - 2
             \/ pc = "report_possible" /\ pc' = Returned /\ depth = Len(path) - 1
          /\ path \in Paths /\ Len(path) = n + 1
          /\ Item(depth).path = path /\ Item(depth).depth = depth
          /\ Item(depth).cmdline_index = i
          /\ filelist' = IF Wanted THEN Append(filelist, Item(depth)) ELSE filelist
          /\ i' = i /\ lastsize' = lastsize /\ stack' = stack /\ path' = path
          /\ Current' = Current
    BY <1>6, <1>a, ReportFacts DEF world
  <2>2. pc # "argument" /\ pc' # "argument" /\ pc \in Calls
    BY <2>1, ReturnedIs DEF Calls
  <2>3. Settled' = Settled
    BY <2>1, <2>2, SettledStays
  <2>4. ASSUME NEW x, NewItem(x, i, Current, stack, pc, path)
        PROVE  NewItem(x, i', Current', stack', pc', path')
    BY <2>1, <2>4, ReturnedIs DEF NewItem, Calls
  <2>5. NewItem(Item(depth), i', Current', stack', pc', path')
    <3>1. Descends(stack, Current, path, n)
      BY <2>2 DEF WalkShape
    <3>2. path[1] = Current /\ \A j \in DOMAIN stack : path[j + 1] \in stack[j].seen
      BY <1>0, <3>1 DEF Descends
    <3> QED
      BY <2>1, <3>2, ReturnedIs DEF NewItem, Calls
  <2>6. ASSUME NEW y, y.path \in Paths, NewItem(y, i, Current, stack, pc, path)
        PROVE  Differ(Item(depth), y) /\ Differ(y, Item(depth))
    <3>1. Siblings(path, y.path) /\ Siblings(y.path, path)
      BY <2>2, <2>6, PathIsOfSiblings
    <3>2. ASSUME y.path = path
          PROVE  y.depth # depth
      <4>0. Len(path) \in Nat
        BY <2>1, PathsAre
      <4>1. Prefix(path, y.path)
        BY <3>2, <4>0 DEF Prefix
      <4>2. pc = "report_possible" /\ y.depth = Len(path) - 2
        BY <2>1, <2>2, <2>6, <4>1 DEF NewItem
      <4>3. depth = Len(path) - 1
        BY <2>1, <4>2
      <4> QED
        BY <4>0, <4>2, <4>3
    <3> QED
      BY <2>1, <3>1, <3>2 DEF Differ
  <2>7. CASE ~Wanted
    BY <2>1, <2>3, <2>4, <2>7, SameList
  <2>8. CASE Wanted
    <3> DEFINE m == Len(filelist)
    <3>1. /\ Len(filelist') = m + 1 /\ filelist'[m + 1] = Item(depth)
          /\ \A k \in 1 .. m : filelist'[k] = filelist[k]
      <4>1. filelist' = Append(filelist, Item(depth))
        BY <2>1, <2>8
      <4>2. filelist \in Seq({filelist[k] : k \in DOMAIN filelist})
        <5>1. filelist = [k \in 1 .. Len(filelist) |-> filelist[k]]
          BY <1>0 DEF TypeOK
        <5> QED
          BY <1>0, <5>1
      <4> QED
        BY <4>1, <4>2
    <3> HIDE DEF m
    <3>2. ASSUME NEW k \in Settled + 1 .. m + 1
          PROVE  k = m + 1 \/ (k \in Settled + 1 .. m /\ k # m + 1 /\ k \in DOMAIN filelist)
      <4>1. m \in Nat /\ Settled \in Nat /\ DOMAIN filelist = 1 .. m
        BY <1>0 DEF m
      <4> QED
        BY <4>1
    <3>3. \A k \in Settled + 1 .. m : k \in 1 .. m /\ k \in DOMAIN filelist
      <4>1. m \in Nat /\ Settled \in Nat /\ DOMAIN filelist = 1 .. m
        BY <1>0 DEF m
      <4> QED
        BY <4>1
    <3>4. \A k \in Settled + 1 .. m :
            /\ NewItem(filelist[k], i, Current, stack, pc, path) /\ filelist[k].path \in Paths
            /\ \A j \in Settled + 1 .. m : j # k => Differ(filelist[j], filelist[k])
      BY <3>3, ItemTypes DEF NewestDiffer, m
    <3>5. ASSUME NEW k \in Settled + 1 .. m + 1
          PROVE  NewItem(filelist'[k], i', Current', stack', pc', path')
      BY <2>4, <2>5, <3>1, <3>2, <3>3, <3>4
    <3>6. ASSUME NEW k \in Settled + 1 .. m + 1, NEW j \in Settled + 1 .. m + 1, j # k
          PROVE  Differ(filelist'[j], filelist'[k])
      <4>1. CASE k = m + 1
        <5>1. j \in Settled + 1 .. m
          BY <3>2, <3>6, <4>1
        <5> QED
          BY <2>6, <3>1, <3>3, <3>4, <4>1, <5>1
      <4>2. CASE j = m + 1
        <5>1. k \in Settled + 1 .. m
          BY <3>2, <3>6, <4>2
        <5> QED
          BY <2>6, <3>1, <3>3, <3>4, <4>2, <5>1
      <4>3. CASE k # m + 1 /\ j # m + 1
        <5>1. k \in Settled + 1 .. m /\ j \in Settled + 1 .. m
          BY <3>2, <4>3
        <5> QED
          BY <3>1, <3>3, <3>4, <3>6, <5>1
      <4> QED
        BY <4>1, <4>2, <4>3
    <3> QED
      BY <2>3, <3>1, <3>5, <3>6 DEF NewestDiffer
  <2> QED
    BY <2>7, <2>8
<1>7. CASE (\E e \in Entries : Change(e)) \/ UNCHANGED vars
  <2>1. /\ i' = i /\ stack' = stack /\ path' = path /\ pc' = pc /\ filelist' = filelist
        /\ lastsize' = lastsize /\ arguments' = arguments
    BY <1>7 DEF Change, vars
  <2>2. Settled' = Settled /\ Current' = Current
    BY <2>1 DEF Settled, Current
  <2> QED
    BY <2>1, <2>2, SameList
<1> QED
  BY <1>1, <1>2, <1>3, <1>4, <1>5, <1>6, <1>7 DEF Next, System, Done

LEMMA OrderStep ==
  ASSUME TypeOK, WalkShape, SettledInOrder, NewestDiffer, [Next]_vars
  PROVE  SettledInOrder'
<1> DEFINE m == Len(filelist)
<1>0. m \in Nat /\ lastsize \in Nat /\ lastsize <= m /\ DOMAIN filelist = 1 .. m
  BY FramePaths DEF TypeOK
<1>1. CASE EndArgument
  <2> DEFINE newest == lastsize + 1 .. m
             i == current_cmdline_index
  <2>1. /\ pc = "walked" /\ pc' = "argument" /\ i' = i + 1 /\ Len(filelist') = m
        /\ options' = options
        /\ \A k \in 1 .. lastsize : filelist'[k] = filelist[k]
        /\ \A j \in newest : \E k \in newest : filelist'[j] = filelist[k]
        /\ options.deterministic =>
             \A j, k \in newest : j < k => DepthNameLess(filelist'[j], filelist'[k])
    BY <1>1, EndArgumentFacts DEF world
  <2>2. Settled = lastsize /\ Settled' = m
    BY <2>1 DEF Settled
  <2>3. \A k \in newest : filelist'[k].cmdline_index = i
    BY <2>1, <2>2 DEF NewestDiffer, NewItem
  <2>4. i \in Nat
    BY DEF TypeOK
  <2>5. \A k \in 1 .. lastsize :
          /\ filelist'[k].cmdline_index < i /\ filelist'[k].cmdline_index \in Nat
          /\ \A j \in 1 .. k - 1 : InOrder(filelist'[j], filelist'[k])
    <3>1. ASSUME NEW k \in 1 .. lastsize
          PROVE  /\ filelist'[k].cmdline_index < i /\ filelist'[k].cmdline_index \in Nat
                 /\ \A j \in 1 .. k - 1 : InOrder(filelist'[j], filelist'[k])
      <4>1. k \in DOMAIN filelist /\ \A j \in 1 .. k - 1 : j \in 1 .. lastsize
        BY <1>0
      <4>2. /\ filelist[k].cmdline_index < i
            /\ \A j \in 1 .. k - 1 : InOrder(filelist[j], filelist[k])
        BY <2>2 DEF SettledInOrder
      <4>3. filelist[k].cmdline_index \in Nat
        BY <4>1, ItemTypes
      <4> QED
        BY <2>1, <4>1, <4>2, <4>3
    <3> QED
      BY <3>1
  <2>6. ASSUME NEW k \in 1 .. m
        PROVE  /\ filelist'[k].cmdline_index < i + 1
               /\ \A j \in 1 .. k - 1 : InOrder(filelist'[j], filelist'[k])
    <3>1. CASE k <= lastsize
      <4>1. k \in 1 .. lastsize
        BY <1>0, <3>1
      <4>2. filelist'[k].cmdline_index < i + 1
        BY <2>4, <2>5, <4>1
      <4> QED
        BY <2>5, <4>1, <4>2
    <3>2. CASE ~(k <= lastsize)
      <4>1. k \in newest
        BY <1>0, <3>2
      <4>2. filelist'[k].cmdline_index = i
        BY <2>3, <4>1
      <4>3. ASSUME NEW j \in 1 .. k - 1
            PROVE  InOrder(filelist'[j], filelist'[k])
        <5>1. CASE j <= lastsize
          <6>1. j \in 1 .. lastsize
            BY <1>0, <5>1
          <6> QED
            BY <2>5, <4>2, <6>1 DEF InOrder
        <5>2. CASE ~(j <= lastsize)
          <6>1. j \in newest /\ j < k
            BY <1>0, <5>2
          <6>2. filelist'[j].cmdline_index = i
            BY <2>3, <6>1
          <6>3. options.deterministic => DepthNameLess(filelist'[j], filelist'[k])
            BY <2>1, <4>1, <6>1
          <6> QED
            BY <4>2, <6>2, <6>3 DEF InOrder
        <5> QED
          BY <5>1, <5>2
      <4>4. i < i + 1
        BY <2>4
      <4> QED
        BY <4>2, <4>3, <4>4
    <3> QED
      BY <3>1, <3>2
  <2>7. \A x, y : InOrder(x, y)' <=> InOrder(x, y)
    BY <2>1 DEF InOrder
  <2> QED
    BY <2>1, <2>2, <2>6 DEF SettledInOrder, InOrder
<1>2. ASSUME options' = options, current_cmdline_index' = current_cmdline_index,
             Settled' = Settled, \A k \in 1 .. Settled : filelist'[k] = filelist[k]
      PROVE  SettledInOrder'
  <2>1. Settled \in Nat
    BY <1>0 DEF Settled
  <2>2. \A k \in 1 .. Settled : \A j \in 1 .. k - 1 : j \in 1 .. Settled
    BY <2>1
  <2> QED
    BY <1>2, <2>2 DEF SettledInOrder, InOrder
<1>3. CASE StartArgument
  <2>1. Settled' = Settled
    BY <1>3 DEF StartArgument, Settled
  <2> QED
    BY <1>2, <1>3, <2>1 DEF StartArgument, world
<1>4. CASE RecursionLimit \/ OpenDir \/ OpenDirFails \/ HandlePossibleFile \/ ReadDir \/ CloseDir
  <2>1. /\ pc # "argument" /\ pc' # "argument" /\ lastsize' = lastsize
        /\ filelist' = filelist
        /\ options' = options /\ current_cmdline_index' = current_cmdline_index
    BY <1>4, ReturnedIs DEF RecursionLimit, OpenDir, OpenDirFails, HandlePossibleFile, ReadDir,
       CloseDir, Handling, world
  <2>2. Settled' = Settled
    BY <2>1, SettledStays
  <2> QED
    BY <1>2, <2>1, <2>2
<1>5. CASE ReportFile \/ ReportLink \/ ReportPossible
  <2>1. PICK depth \in 0 .. MaxDepth :
          /\ pc \in {"report_file", "report_link", "report_possible"}
          /\ pc' \in {"read", "walk", Returned}
          /\ filelist' = IF Wanted THEN Append(filelist, Item(depth)) ELSE filelist
          /\ options' = options /\ current_cmdline_index' = current_cmdline_index
          /\ lastsize' = lastsize
    BY <1>5, ReportFacts DEF world
  <2>2. pc' # "argument" /\ pc # "argument"
    BY <2>1, ReturnedIs
  <2>3. Settled = lastsize /\ Settled' = lastsize
    BY <2>1, <2>2, SettledStays
  <2>4. \A k \in 1 .. m : filelist'[k] = filelist[k]
    <3>1. filelist \in Seq({filelist[k] : k \in DOMAIN filelist})
      <4>1. filelist = [k \in 1 .. Len(filelist) |-> filelist[k]]
        BY <1>0 DEF TypeOK
      <4> QED
        BY <1>0, <4>1
    <3> QED
      BY <2>1, <3>1
  <2>5. \A k \in 1 .. lastsize : k \in 1 .. m
    BY <1>0
  <2> QED
    BY <1>2, <2>1, <2>3, <2>4, <2>5
<1>6. CASE (\E e \in Entries : Change(e)) \/ UNCHANGED vars
  <2>1. /\ options' = options /\ current_cmdline_index' = current_cmdline_index
        /\ lastsize' = lastsize /\ filelist' = filelist /\ pc' = pc
    BY <1>6 DEF Change, vars
  <2>2. Settled' = Settled
    BY <2>1 DEF Settled
  <2> QED
    BY <1>2, <2>1, <2>2
<1> QED
  BY <1>1, <1>3, <1>4, <1>5, <1>6 DEF Next, System, Done

-----------------------------------------------------------------------------
(* Everything that was asked for.                                           *)

LEMMA ExpectedFacts ==
  ASSUME NEW x \in Expected
  PROVE  /\ x.path \in Paths /\ x.path \in Seq(Entries) /\ Len(x.path) \in 1 .. MaxDepth + 1
         /\ x.depth \in 0 .. MaxDepth /\ x.cmdline_index \in DOMAIN arguments
         /\ x = [path |-> x.path, depth |-> x.depth, cmdline_index |-> x.cmdline_index]
         /\ Leads(x.cmdline_index, x.path)
         /\ kind[Real(Last(x.path))] = "file" /\ SizeWanted(Real(Last(x.path)))
         /\ kind[Last(x.path)] = "symlink" => options.followsymlinks
         /\ \/ Len(x.path) > 1 /\ x.depth = Len(x.path) - 2
            \/ /\ x.depth = Len(x.path) - 1 /\ Len(x.path) - 1 < MaxDepth
               /\ Len(x.path) = 1 \/ kind[Last(x.path)] = "symlink"
<1> DEFINE level == Len(x.path) - 1
<1>1. /\ x \in [path : Paths, depth : 0 .. MaxDepth, cmdline_index : DOMAIN arguments]
      /\ Leads(x.cmdline_index, x.path) /\ x.depth \in DepthsOf(x.path)
      /\ kind[Last(x.path)] = "symlink" => options.followsymlinks
      /\ kind[Real(Last(x.path))] = "file" /\ SizeWanted(Real(Last(x.path)))
  BY DEF Expected
<1>2. x.path \in Paths /\ x.path \in Seq(Entries) /\ Len(x.path) \in 1 .. MaxDepth + 1
  BY <1>1, PathsAre
<1>3. \/ level > 0 /\ x.depth = level - 1
      \/ x.depth = level /\ level < MaxDepth /\ (level = 0 \/ kind[Last(x.path)] = "symlink")
  <2> HIDE DEF level
  <2> QED
    BY <1>1 DEF DepthsOf, level
<1>4. \/ Len(x.path) > 1 /\ x.depth = Len(x.path) - 2
      \/ /\ x.depth = Len(x.path) - 1 /\ Len(x.path) - 1 < MaxDepth
         /\ Len(x.path) = 1 \/ kind[Last(x.path)] = "symlink"
  BY <1>2, <1>3, BoundsAssumption
<1> QED
  BY <1>1, <1>2, <1>4

LEMMA PrefixEqual ==
  ASSUME NEW p \in Paths, NEW q \in Paths, Prefix(p, q), ~(Len(q) > Len(p))
  PROVE  q = p
<1>1. p \in Seq(Entries) /\ q \in Seq(Entries) /\ Len(p) \in Nat /\ Len(q) \in Nat
  BY PathsAre
<1>2. Len(p) = Len(q)
  BY <1>1 DEF Prefix
<1> QED
  BY <1>1, <1>2, SeqEqual DEF Prefix

(* A path on the way to another.                                            *)
LEMMA OnTheWay ==
  ASSUME NEW i, NEW q \in Paths, NEW p \in Paths, Leads(i, p), Prefix(q, p), Len(p) > Len(q)
  PROVE  /\ Leads(i, q) /\ kind[Real(Last(q))] = "dir"
         /\ Parent[p[Len(q) + 1]] = Real(Last(q)) /\ ~IsTop(p[Len(q) + 1])
         /\ p[Len(q) + 1] \in Entries
         /\ kind[Last(q)] = "symlink" => options.followsymlinks \/ Len(q) = 1
<1> DEFINE n == Len(q)
<1>1. n \in Nat /\ n >= 1 /\ Len(p) \in Nat /\ p \in Seq(Entries)
  BY PathsAre
<1>2. n \in 1 .. Len(p) - 1 /\ n + 1 \in 1 .. Len(p)
  BY <1>1
<1>3. \A k \in 1 .. n : q[k] = p[k]
  BY DEF Prefix
<1>4. /\ Real(p[n]) = Parent[p[n + 1]] /\ ~IsTop(p[n + 1]) /\ kind[Real(p[n])] = "dir"
      /\ kind[p[n]] = "symlink" => options.followsymlinks \/ n = 1
  BY <1>2 DEF Leads
<1>5. Last(q) = p[n]
  BY <1>1, <1>3 DEF Last
<1>6. Leads(i, q)
  <2>1. q[1] = arguments[i]
    BY <1>1, <1>3 DEF Leads
  <2>2. \A k \in 1 .. n - 1 : k \in 1 .. Len(p) - 1 /\ q[k] = p[k] /\ q[k + 1] = p[k + 1]
    <3>1. \A k \in 1 .. n - 1 : k \in 1 .. Len(p) - 1 /\ k \in 1 .. n /\ k + 1 \in 1 .. n
      BY <1>1
    <3> QED
      BY <1>3, <3>1
  <2> QED
    BY <2>1, <2>2 DEF Leads
<1> QED
  BY <1>1, <1>2, <1>4, <1>5, <1>6

LEMMA FoundStays ==
  ASSUME TypeOK, WalkShape, NewestDiffer, [Next]_vars, NEW x, Found(x)
  PROVE  Found(x)'
<1>0. /\ DOMAIN filelist = 1 .. Len(filelist) /\ Len(filelist) \in Nat /\ lastsize \in Nat
  BY FramePaths DEF TypeOK
<1>1. PICK k \in 1 .. Len(filelist) : filelist[k] = x
  BY <1>0 DEF Found
<1>2. CASE filelist' = filelist
  BY <1>0, <1>1, <1>2 DEF Found
<1>3. CASE ReportFile \/ ReportLink \/ ReportPossible
  <2>1. PICK depth \in 0 .. MaxDepth :
          filelist' = IF Wanted THEN Append(filelist, Item(depth)) ELSE filelist
    BY <1>3, ReportFacts
  <2>2. filelist \in Seq({filelist[j] : j \in DOMAIN filelist})
    <3>1. filelist = [j \in 1 .. Len(filelist) |-> filelist[j]]
      BY <1>0 DEF TypeOK
    <3> QED
      BY <1>0, <3>1
  <2>3. k \in DOMAIN filelist' /\ filelist'[k] = filelist[k]
    BY <1>0, <2>1, <2>2
  <2> QED
    BY <1>1, <2>3 DEF Found
<1>4. CASE EndArgument
  <2>1. DOMAIN filelist' = 1 .. Len(filelist)
    <3>1. DOMAIN filelist' = 1 .. Len(filelist')
      BY <1>4, EndArgumentFacts
    <3> QED
      BY <1>4, <3>1, EndArgumentFacts
  <2>2. CASE k <= lastsize
    <3>1. k \in 1 .. lastsize
      BY <1>0, <2>2
    <3>2. filelist'[k] = filelist[k]
      BY <1>4, <3>1, EndArgumentFacts
    <3> QED
      BY <1>1, <2>1, <3>2 DEF Found
  <2>3. CASE ~(k <= lastsize)
    <3>1. k \in lastsize + 1 .. Len(filelist)
      BY <1>0, <2>3
    <3>2. PICK j \in lastsize + 1 .. Len(filelist) : filelist'[j] = filelist[k]
      BY <1>4, <3>1, EndArgumentFacts
    <3>3. j \in 1 .. Len(filelist)
      BY <1>0
    <3> QED
      BY <1>1, <2>1, <3>2, <3>3 DEF Found
  <2> QED
    BY <2>2, <2>3
<1> QED
  BY <1>2, <1>3, <1>4 DEF Next, System, Done, StartArgument, RecursionLimit, OpenDir,
     OpenDirFails, HandlePossibleFile, ReadDir, CloseDir, Change, vars

(* The call in progress, for what it is about to report.                    *)
LEMMA ReportedAsExpected ==
  ASSUME NEW x \in Expected, path \in Paths, x.path = path,
         x.cmdline_index = current_cmdline_index
  PROVE  Wanted /\ Item(x.depth) = x
<1>1. StatKind(path) = "file" /\ SizeWanted(Real(Last(path)))
  BY ExpectedFacts, LooksUp
<1>2. x = [path |-> x.path, depth |-> x.depth, cmdline_index |-> x.cmdline_index]
  BY ExpectedFacts
<1> QED
  BY <1>1, <1>2 DEF Wanted, Item

LEMMA AccountedInit == Init => Accounted
<1> SUFFICES ASSUME Init, NEW x \in Expected
             PROVE  AccountedFor(x)
  BY DEF Accounted
<1>1. x.cmdline_index \in DOMAIN arguments /\ arguments \in Seq(Entries)
  BY ExpectedFacts, ArgumentsAssumption DEF Init
<1>2. ~(x.cmdline_index < 1)
  BY <1>1
<1> QED
  BY <1>2 DEF AccountedFor, Init

LEMMA AccountedStep ==
  ASSUME IInv, [Next]_vars
  PROVE  Accounted'
<1> SUFFICES ASSUME NEW x, x \in Expected', Clean(x.path)', ~Hidden(x.path)'
             PROVE  AccountedFor(x)'
  BY DEF Accounted
<1>0. TypeOK /\ WalkShape /\ Led /\ NewestDiffer /\ Accounted
  BY DEF IInv
<1> DEFINE p == x.path
           n == Len(stack)
           i == current_cmdline_index
<1>1. x.path \in Paths
  BY DEF Expected
<1>2. x \in Expected /\ Clean(x.path)
  BY <1>0, <1>1, StillExpected, SameWay
<1>3. ~Hidden(x.path)
  <2>1. skipped \subseteq skipped'
    BY DEF Next, System, StartArgument, RecursionLimit, OpenDir, OpenDirFails, HandlePossibleFile,
       ReadDir, CloseDir, ReportFile, ReportLink, ReportPossible, EndArgument, Change, Done, vars
  <2> QED
    BY <2>1 DEF Hidden
<1>4. AccountedFor(x)
  BY <1>0, <1>2, <1>3 DEF Accounted
<1>5. Found(x) => Found(x)'
  BY <1>0, FoundStays
<1>6. /\ n \in Nat /\ DOMAIN stack = 1 .. n
      /\ x.path \in Seq(Entries) /\ Len(p) \in 1 .. MaxDepth + 1 /\ Len(p) \in Nat /\ Len(p) >= 1
      /\ Leads(x.cmdline_index, p) /\ LstatKind(p) = kind[Last(p)]
  <2>1. Len(p) \in 1 .. MaxDepth + 1
    BY <1>2, ExpectedFacts
  <2> QED
    BY <1>0, <1>1, <1>2, <2>1, BoundsAssumption, ExpectedFacts, FramePaths, LooksUp
<1>7. ASSUME i' = i, pc # "argument",
             x.cmdline_index = i /\ ~Found(x) => Found(x)' \/ Unread(x)' \/ InCall(x)'
      PROVE  AccountedFor(x)'
  BY <1>4, <1>5, <1>7 DEF AccountedFor
<1>8. pc \in Calls => /\ path \in Paths /\ Len(path) = n + 1
                      /\ Prefix(path, p) /\ ~(Len(p) > Len(path)) => p = path
  BY <1>0, <1>1, PrefixEqual DEF WalkShape, Descends
<1>9. CASE StartArgument
  <2>1. /\ i' = i /\ pc = "argument" /\ pc' = "walk" /\ path' = <<Current>>
    BY <1>9 DEF StartArgument, Current
  <2>2. ASSUME x.cmdline_index = i
        PROVE  InCall(x)'
    <3>1. p[1] = Current
      BY <1>6, <2>2 DEF Leads, Current
    <3>2. Len(<<Current>>) = 1 /\ <<Current>>[1] = Current
      OBVIOUS
    <3>3. Prefix(<<Current>>, p)
      BY <1>6, <3>1, <3>2 DEF Prefix
    <3>4. Len(p) > 1 \/ x.depth = 0
      BY <1>2, <1>6, ExpectedFacts
    <3>5. 1 - 1 = 0
      OBVIOUS
    <3> QED
      BY <2>1, <3>2, <3>3, <3>4, <3>5 DEF InCall, Calls
  <2> QED
    BY <1>4, <1>5, <2>1, <2>2 DEF AccountedFor
<1>10. CASE RecursionLimit \/ HandlePossibleFile \/ OpenDirFails
  <2>1. /\ i' = i /\ pc # "argument" /\ stack' = stack /\ path' = path /\ pc \in Calls
    BY <1>0, <1>10, Moves DEF Calls
  <2>2. Unread(x) => Unread(x)'
    BY <2>1 DEF Unread
  <2>3. ASSUME x.cmdline_index = i, InCall(x)
        PROVE  InCall(x)'
    <3>1. Prefix(path, p) /\ path \in Paths /\ Len(path) = n + 1
      BY <1>8, <2>1, <2>3 DEF InCall
    <3>2. CASE RecursionLimit
      <4>1. n >= MaxDepth /\ pc = "walk"
        BY <1>0, <3>2, BoundsAssumption DEF RecursionLimit, TooDeep
      <4>2. ~(Len(p) > Len(path))
        BY <1>6, <3>1, <4>1, BoundsAssumption
      <4>3. p = path /\ x.depth = Len(path) - 1
        BY <1>8, <2>1, <2>3, <3>1, <4>1, <4>2 DEF InCall
      <4>4. \/ x.depth = Len(p) - 2
            \/ Len(p) - 1 < MaxDepth
        BY <1>2, ExpectedFacts
      <4> QED
        BY <1>6, <3>1, <4>1, <4>3, <4>4, BoundsAssumption
    <3>3. CASE OpenDirFails
      <4>1. /\ pc = "walk" /\ pc' = "possible"
            /\ StatKind(path) = "dir" => path \in skipped'
        BY <3>3 DEF OpenDirFails
      <4>2. ~(Len(p) > Len(path))
        <5> SUFFICES ASSUME Len(p) > Len(path)
                     PROVE  FALSE
          OBVIOUS
        <5>1. Leads(x.cmdline_index, path) /\ kind[Real(Last(path))] = "dir"
          BY <1>1, <1>6, <3>1, OnTheWay
        <5>2. StatKind(path) = "dir"
          BY <3>1, <5>1, LooksUp
        <5>3. SubSeq(p, 1, Len(path)) = path /\ Len(path) \in DOMAIN p
          BY <1>1, <3>1, SubSeqIsPrefix
        <5> QED
          BY <4>1, <5>2, <5>3 DEF Hidden
      <4>3. p = path /\ x.depth = Len(path) - 1
        BY <1>8, <2>1, <2>3, <3>1, <4>1, <4>2 DEF InCall
      <4> QED
        BY <2>1, <3>1, <4>1, <4>3 DEF InCall, Calls
    <3>4. CASE HandlePossibleFile
      <4>1. pc = "possible"
        BY <3>4 DEF HandlePossibleFile
      <4>2. ~(Len(p) > Len(path)) /\ x.depth = Len(path) - 1
        BY <1>6, <2>3, <4>1 DEF InCall
      <4>3. p = path
        BY <1>8, <2>1, <3>1, <4>2
      <4>4. LstatKind(path) = "file" \/ (LstatKind(path) = "symlink" /\ options.followsymlinks)
        <5>1. kind[Real(Last(p))] = "file" /\ (kind[Last(p)] = "symlink" => options.followsymlinks)
          BY <1>2, ExpectedFacts
        <5> QED
          BY <1>6, <4>3, <5>1, RealOfPlain
      <4>5. pc' = "report_possible"
        BY <3>4, <4>4 DEF HandlePossibleFile
      <4> QED
        BY <2>1, <3>1, <4>2, <4>3, <4>5 DEF InCall, Calls
    <3> QED
      BY <1>10, <3>2, <3>3, <3>4
  <2>4. pc' # "argument"
    BY <1>0, <1>10, Moves, ReturnedIs
  <2> QED
    BY <1>4, <1>7, <2>1, <2>2, <2>3 DEF AccountedFor
<1>11. CASE OpenDir
  <2>1. /\ pc = "walk" /\ StatKind(path) = "dir" /\ path \in Paths
        /\ Len(stack') = n + 1 /\ DOMAIN stack' = 1 .. n + 1
        /\ \A k \in 1 .. n : stack'[k] = stack[k]
        /\ stack'[n + 1].path = path /\ stack'[n + 1].seen = {}
        /\ i' = i
    <3>1. DOMAIN stack' = 1 .. Len(stack')
      BY <1>0, <1>11, OpenDirFacts
    <3> QED
      BY <1>0, <1>11, <3>1, OpenDirFacts
  <2>2. \A k \in 1 .. n : k \in 1 .. n + 1
    BY <1>6
  <2>3. Unread(x) => Unread(x)'
    BY <1>6, <2>1, <2>2 DEF Unread
  <2>4. ASSUME x.cmdline_index = i, InCall(x)
        PROVE  Unread(x)'
    <3>1. Prefix(path, p) /\ Len(path) = n + 1
      BY <1>8, <2>1, <2>4 DEF InCall
    <3>2. Len(p) > Len(path)
      <4> SUFFICES ASSUME p = path
                   PROVE  FALSE
        BY <1>8, <2>1, <3>1 DEF Calls
      <4>1. kind[Real(Last(p))] = "file"
        BY <1>2, ExpectedFacts
      <4>2. StatKind(p) = kind[Real(Last(p))]
        BY <1>1, <1>6, LooksUp
      <4> QED
        BY <2>1, <4>1, <4>2
    <3>3. n + 1 \in 1 .. n + 1
      BY <1>6
    <3> QED
      BY <2>1, <3>1, <3>2, <3>3 DEF Unread
  <2> QED
    BY <1>4, <1>7, <2>1, <2>3, <2>4 DEF AccountedFor
<1>12. CASE ReadDir
  <2>1. PICK e \in Entries :
          /\ pc = "read" /\ n \in 1 .. MaxDepth
          /\ path' \in Paths /\ Len(path') = n + 1
          /\ Prefix(stack[n].path, path') /\ path'[n + 1] = e
          /\ pc' = Handling(LstatKind(path'))
          /\ DOMAIN stack' = 1 .. n
          /\ \A k \in 1 .. n :
               /\ stack'[k].path = stack[k].path
               /\ stack'[k].seen = IF k = n THEN stack[k].seen \cup {e} ELSE stack[k].seen
          /\ i' = i
    BY <1>0, <1>12, ReadDirFacts
  <2>2. ~InCall(x)
    BY <2>1 DEF InCall, Calls
  <2>3. ASSUME x.cmdline_index = i, Unread(x)
        PROVE  Unread(x)' \/ InCall(x)'
    <3>1. PICK j \in 1 .. n : /\ Prefix(stack[j].path, p) /\ Len(p) > j
                              /\ p[j + 1] \notin stack[j].seen
      BY <1>6, <2>3 DEF Unread
    <3>2. CASE ~(j = n /\ p[j + 1] = e)
      <4>1. p[j + 1] \notin stack'[j].seen /\ stack'[j].path = stack[j].path
        BY <2>1, <3>1, <3>2
      <4> QED
        BY <2>1, <3>1, <4>1 DEF Unread
    <3>3. CASE j = n /\ p[j + 1] = e
      <4>1. PICK q : q = path'
        OBVIOUS
      <4>2. q \in Paths /\ Len(q) = n + 1 /\ Last(q) = e
        BY <2>1, <4>1 DEF Last
      <4>3. Prefix(q, p)
        <5>1. Len(stack[n].path) = n
          <6>1. Descends(stack, Current, stack[n].path, n - 1)
            BY <1>0, <1>6, <3>3 DEF WalkShape
          <6>2. Len(stack[n].path) = n - 1 + 1
            BY <6>1 DEF Descends
          <6> QED
            BY <1>6, <6>2
        <5>2. \A k \in 1 .. n : p[k] = stack[n].path[k] /\ q[k] = stack[n].path[k]
          BY <2>1, <3>1, <3>3, <4>1, <5>1 DEF Prefix
        <5>3. \A k \in 1 .. n + 1 : k \in 1 .. n \/ k = n + 1
          BY <1>6
        <5>4. \A k \in 1 .. n + 1 : p[k] = q[k]
          BY <2>1, <3>3, <4>1, <5>2, <5>3
        <5>5. n + 1 <= Len(p)
          BY <1>6, <3>1, <3>3
        <5> QED
          BY <4>2, <5>4, <5>5 DEF Prefix
      <4>4. Len(q) # 1 /\ Len(q) > 1
        <5>1. n \in 1 .. MaxDepth /\ n \in Nat /\ Len(q) = n + 1
          BY <1>6, <2>1, <4>2
        <5> HIDE DEF n
        <5> QED
          BY <5>1, BoundsAssumption
      <4>5. CASE Len(p) > Len(q)
        <5>1. /\ Leads(x.cmdline_index, q) /\ kind[Real(e)] = "dir"
              /\ kind[e] = "symlink" => options.followsymlinks
          BY <1>1, <1>6, <4>2, <4>3, <4>4, <4>5, OnTheWay
        <5>2. LstatKind(q) = kind[e]
          BY <4>2, <5>1, LooksUp
        <5>3. kind[e] = "dir" \/ (kind[e] = "symlink" /\ options.followsymlinks)
          BY <5>1, RealOfPlain
        <5>4. pc' \in {"walk", "report_link"}
          BY <2>1, <4>1, <5>2, <5>3 DEF Handling
        <5> QED
          BY <4>1, <4>3, <4>5, <5>4 DEF InCall, Calls
      <4>6. CASE ~(Len(p) > Len(q))
        <5>1. p = q
          BY <1>1, <4>2, <4>3, <4>6, PrefixEqual
        <5>2. /\ kind[Real(e)] = "file" /\ LstatKind(q) = kind[e]
              /\ kind[e] = "symlink" => options.followsymlinks
              /\ kind[e] # "symlink" => x.depth = Len(q) - 2
          BY <1>2, <1>6, <4>2, <4>4, <5>1, ExpectedFacts
        <5>3. kind[e] = "file" \/ (kind[e] = "symlink" /\ options.followsymlinks)
          BY <5>2, RealOfPlain
        <5>4. \/ pc' = "report_file" /\ x.depth = Len(q) - 2
              \/ pc' = "report_link"
          BY <2>1, <4>1, <5>2, <5>3 DEF Handling
        <5> QED
          BY <4>1, <4>3, <5>1, <5>4 DEF InCall, Calls
      <4> QED
        BY <4>5, <4>6
    <3> QED
      BY <3>2, <3>3
  <2> QED
    BY <1>4, <1>7, <2>1, <2>2, <2>3 DEF AccountedFor
<1>13. CASE CloseDir
  <2>1. /\ pc = "read" /\ n \in 1 .. MaxDepth /\ Len(stack') = n - 1
        /\ Children(stack[n].dir) \ stack[n].seen \subseteq touched
        /\ \A k \in 1 .. n - 1 : stack'[k] = stack[k]
        /\ i' = i
    BY <1>0, <1>13, CloseDirFacts
  <2>2. DOMAIN stack' = 1 .. n - 1
    <3>1. DOMAIN stack' = 1 .. Len(stack')
      BY <1>0, <1>13, CloseDirFacts
    <3> QED
      BY <2>1, <3>1
  <2>3. ~InCall(x)
    BY <2>1 DEF InCall, Calls
  <2>4. ASSUME x.cmdline_index = i, Unread(x)
        PROVE  Unread(x)'
    <3>1. PICK j \in 1 .. n : /\ Prefix(stack[j].path, p) /\ Len(p) > j
                              /\ p[j + 1] \notin stack[j].seen
      BY <1>6, <2>4 DEF Unread
    <3>2. CASE j # n
      <4>1. j \in 1 .. n - 1
        <5>1. n \in Nat /\ j \in 1 .. n
          BY <1>6
        <5> HIDE DEF n
        <5> QED
          BY <3>2, <5>1
      <4> QED
        BY <2>1, <2>2, <3>1, <4>1 DEF Unread
    <3>3. CASE j = n
      <4> DEFINE q == stack[n].path
                 e == p[n + 1]
      <4>1. q \in Paths /\ Len(q) = n /\ Prefix(q, p) /\ Len(p) > Len(q)
        <5>1. n \in DOMAIN stack
          BY <1>6, <3>3
        <5>2. Descends(stack, Current, stack[n].path, n - 1)
          BY <1>0, <5>1 DEF WalkShape
        <5>3. Len(stack[n].path) = n - 1 + 1
          BY <5>2 DEF Descends
        <5>4. Len(stack[n].path) = n
          BY <1>6, <5>3
        <5> QED
          BY <1>0, <3>1, <3>3, <5>1, <5>4, FramePaths
      <4>2. Clean(q)
        BY <1>1, <1>2, <4>1, CleanPrefix
      <4>3. stack[n].dir = Real(Last(q))
        <5>1. FrameLed(i, stack[n], n)
          BY <1>0, <1>6, <3>3 DEF Led, LedFor
        <5> QED
          BY <4>2, <5>1 DEF FrameLed
      <4>4. Parent[e] = stack[n].dir /\ ~IsTop(e) /\ e \in Entries
        <5>1. Leads(x.cmdline_index, p) /\ p \in Paths
          BY <1>1, <1>6
        <5>2. q \in Paths /\ Prefix(q, p) /\ Len(p) > Len(q) /\ Len(q) = n
          BY <4>1
        <5>3. stack[n].dir = Real(Last(q))
          BY <4>3
        <5> HIDE DEF q, p, n
        <5>4. /\ Parent[p[Len(q) + 1]] = Real(Last(q)) /\ ~IsTop(p[Len(q) + 1])
              /\ p[Len(q) + 1] \in Entries
          BY <5>1, <5>2, OnTheWay
        <5> QED
          BY <5>2, <5>3, <5>4
      <4>5. n + 1 \in DOMAIN p
        BY <1>6, <3>1, <3>3
      <4>6. kind[Real(e)] # "none"
        <5>1. CASE n + 1 = Len(p)
          BY <1>2, <5>1, ExpectedFacts DEF Last
        <5>2. CASE n + 1 # Len(p)
          <6>1. n + 1 \in 1 .. Len(p) - 1
            BY <1>6, <4>5, <5>2
          <6> QED
            BY <1>6, <6>1 DEF Leads
        <5> QED
          BY <5>1, <5>2
      <4>7. kind[e] # "none"
        BY <4>6, RealOfPlain
      <4>8. e \in touched
        BY <2>1, <3>1, <3>3, <4>4, <4>7 DEF Children
      <4>9. Follow(p[n + 1], 0) \notin touched
        BY <1>2, <4>5, EntriesFinite DEF Clean
      <4> QED
        BY <4>8, <4>9, FollowAll
    <3> QED
      BY <3>2, <3>3
  <2> QED
    BY <1>4, <1>7, <2>1, <2>3, <2>4 DEF AccountedFor
<1>14. CASE ReportFile \/ ReportLink \/ ReportPossible
  <2>1. PICK depth \in 0 .. MaxDepth :
          /\ \/ pc = "report_file" /\ pc' = "read" /\ depth = Len(path) - 2
             \/ pc = "report_link" /\ pc' = "walk" /\ depth = Len(path) - 2
             \/ pc = "report_possible" /\ pc' = Returned /\ depth = Len(path) - 1
          /\ filelist' = IF Wanted THEN Append(filelist, Item(depth)) ELSE filelist
          /\ i' = i /\ stack' = stack /\ path' = path
    BY <1>0, <1>14, ReportFacts
  <2>2. Unread(x) => Unread(x)'
    BY <2>1 DEF Unread
  <2>3. pc \in Calls /\ pc # "argument"
    BY <2>1 DEF Calls
  <2>4. ASSUME x.cmdline_index = i, p = path, x.depth = depth
        PROVE  Found(x)'
    <3>1. Wanted /\ Item(depth) = x
      BY <1>2, <1>8, <2>3, <2>4, ReportedAsExpected
    <3>2. filelist' = Append(filelist, x)
      BY <2>1, <3>1
    <3>3. filelist \in Seq({filelist[k] : k \in DOMAIN filelist})
      <4>1. DOMAIN filelist = 1 .. Len(filelist) /\ Len(filelist) \in Nat
        BY <1>0, FramePaths
      <4>2. filelist = [k \in 1 .. Len(filelist) |-> filelist[k]]
        BY <1>0, <4>1 DEF TypeOK
      <4> QED
        BY <4>1, <4>2
    <3>4. Len(filelist) + 1 \in DOMAIN filelist' /\ filelist'[Len(filelist) + 1] = x
      BY <3>2, <3>3
    <3> QED
      BY <3>4 DEF Found
  <2>5. ASSUME x.cmdline_index = i, InCall(x)
        PROVE  Found(x)' \/ InCall(x)'
    <3>1. Prefix(path, p) /\ path \in Paths /\ Len(path) \in Nat
      BY <1>8, <2>3, <2>5, PathsAre DEF InCall
    <3>2. CASE pc \in {"report_file", "report_possible"}
      <4>1. ~(Len(p) > Len(path)) /\ x.depth = depth
        BY <2>1, <2>5, <3>1, <3>2 DEF InCall
      <4>2. p = path
        BY <1>8, <2>3, <3>1, <4>1
      <4> QED
        BY <2>4, <2>5, <4>1, <4>2
    <3>3. CASE pc = "report_link"
      <4>1. pc' = "walk" /\ depth = Len(path) - 2
        BY <2>1, <3>3
      <4>2. CASE Len(p) > Len(path)
        BY <2>1, <3>1, <4>1, <4>2 DEF InCall, Calls
      <4>3. CASE ~(Len(p) > Len(path))
        <5>1. p = path
          BY <1>8, <2>3, <3>1, <4>3
        <5>2. x.depth = depth \/ x.depth = Len(path) - 1
          BY <1>2, <4>1, <5>1, ExpectedFacts
        <5> QED
          BY <2>1, <2>4, <2>5, <3>1, <4>1, <5>1, <5>2 DEF InCall, Calls
      <4> QED
        BY <4>2, <4>3
    <3> QED
      BY <2>1, <3>2, <3>3
  <2> QED
    BY <1>4, <1>7, <2>1, <2>2, <2>3, <2>5 DEF AccountedFor
<1>15. CASE EndArgument
  <2>1. pc = "walked" /\ pc' = "argument" /\ stack = <<>> /\ i' = i + 1
    BY <1>0, <1>15, EndArgumentFacts
  <2>2. ~InCall(x) /\ ~Unread(x)
    <3>1. DOMAIN stack = {}
      BY <2>1
    <3> QED
      BY <2>1, <3>1 DEF InCall, Unread, Calls
  <2>3. i \in Nat /\ x.cmdline_index \in Nat
    <3>1. x.cmdline_index \in DOMAIN arguments /\ arguments \in Seq(Entries)
      BY <1>0, <1>2, ExpectedFacts, ArgumentsAssumption DEF TypeOK
    <3> QED
      BY <1>0, <3>1 DEF TypeOK
  <2>4. x.cmdline_index < i + 1 => x.cmdline_index < i \/ x.cmdline_index = i
    BY <2>3
  <2> QED
    BY <1>4, <1>5, <2>1, <2>2, <2>4 DEF AccountedFor
<1>16. CASE (\E e \in Entries : Change(e)) \/ UNCHANGED vars
  <2>1. /\ i' = i /\ stack' = stack /\ path' = path /\ pc' = pc /\ filelist' = filelist
    BY <1>16 DEF Change, vars
  <2> QED
    BY <1>4, <2>1 DEF AccountedFor, Found, Unread, InCall
<1> QED
  BY <1>9, <1>10, <1>11, <1>12, <1>13, <1>14, <1>15, <1>16 DEF Next, System, Done

-----------------------------------------------------------------------------
(* The theorems.                                                            *)

LEMMA Invariance == Spec => []IInv
<1>1. Init => IInv
  BY TypeInit, ShapeInit, LedInit, OrderInit, AccountedInit DEF IInv
<1>2. IInv /\ [Next]_vars => IInv'
  <2> SUFFICES ASSUME IInv, [Next]_vars
               PROVE  IInv'
    OBVIOUS
  <2>1. TypeOK /\ WalkShape /\ Led /\ SettledInOrder /\ NewestDiffer /\ Accounted
    BY DEF IInv
  <2>2. TypeOK' /\ WalkShape' /\ Led' /\ SettledInOrder' /\ NewestDiffer' /\ Accounted'
    BY <2>1, TypeStep, ShapeStep, LedStep, OrderStep, DifferStep, AccountedStep
  <2> QED
    BY <2>2 DEF IInv
<1> QED
  BY <1>1, <1>2, PTL DEF Spec

(* The list, the stack of open directories and the paths keep their types:  *)
(* no path grows longer than the recursion limit allows.                    *)
THEOREM TypeCorrect == Spec => []TypeOK
<1>1. IInv => TypeOK
  BY DEF IInv
<1> QED
  BY <1>1, Invariance, PTL

(* For every file system and every command line, and however the file       *)
(* system changes during the scan: each path to a wanted file on which      *)
(* nothing changed and no directory failed to open is on the list, with the *)
(* depth that ranks it.                                                     *)
THEOREM ScanIsComplete == Spec => []EveryFileIsFound
<1>1. IInv => EveryFileIsFound
  <2> SUFFICES ASSUME IInv, Scanned, NEW x \in Expected, Clean(x.path), ~Hidden(x.path)
               PROVE  Found(x)
    BY DEF EveryFileIsFound, Found
  <2>1. AccountedFor(x) /\ TypeOK
    BY DEF IInv, Accounted
  <2>2. /\ arguments \in Seq(Entries) /\ x.cmdline_index \in DOMAIN arguments
        /\ current_cmdline_index > Len(arguments) /\ current_cmdline_index \in Nat
    BY <2>1, ExpectedFacts, ArgumentsAssumption DEF TypeOK, Scanned
  <2>3. x.cmdline_index < current_cmdline_index
    BY <2>2
  <2> QED
    BY <2>1, <2>3 DEF AccountedFor
<1> QED
  BY <1>1, Invariance, PTL

(* What the scan lists under a path on which nothing changed is a file that  *)
(* was asked for, reached through arguments, directories and followed links *)
(* only.                                                                    *)
THEOREM ScanIsSound == Spec => []OnlyFilesAskedFor
<1>1. IInv => OnlyFilesAskedFor
  BY DEF IInv, Led, LedFor, ItemLed, OnlyFilesAskedFor
<1> QED
  BY <1>1, Invariance, PTL

(* The list is in the order of the arguments, and with -deterministic        *)
(* strictly in that of depth and name within one: no two items compare      *)
(* equal, so the order readdir() chose is gone.                             *)
THEOREM ScanIsInOrder == Spec => []ListIsInScanOrder
<1>1. IInv => ListIsInScanOrder
  <2> SUFFICES ASSUME IInv, Scanned, NEW j \in DOMAIN filelist, NEW k \in DOMAIN filelist, j < k
               PROVE  InOrder(filelist[j], filelist[k])
    BY DEF ListIsInScanOrder, InOrder
  <2>1. Settled = Len(filelist) /\ DOMAIN filelist = 1 .. Len(filelist) /\ Len(filelist) \in Nat
    BY FramePaths DEF IInv, Scanned, Settled
  <2>2. k \in 1 .. Settled /\ j \in 1 .. k - 1
    BY <2>1
  <2> QED
    BY <2>2 DEF IInv, SettledInOrder
<1> QED
  BY <1>1, Invariance, PTL
=============================================================================
