---------------------------- MODULE PromiseProofs ----------------------------
(* What the promise is worth: a run that keeps it loses nothing that can be *)
(* read.                                                                    *)
EXTENDS Promise, TLAPS

LEMMA ReportKeeps ==
  ASSUME NEW c \in Contents, Report(c)
  PROVE  Readable \subseteq Readable'
<1> SUFFICES ASSUME NEW n \in Names \ results, reads[n] # Nothing
             PROVE  reads[n] \in Readable'
  BY DEF Readable
<1>1. n \notin results'
  BY DEF Report
<1> QED
  BY <1>1 DEF Report, Readable

LEMMA ForgetKeeps ==
  ASSUME NEW S \in SUBSET Names, Forget(S)
  PROVE  Readable \subseteq Readable'
<1> SUFFICES ASSUME NEW n \in Names \ results, reads[n] # Nothing
             PROVE  reads[n] \in Readable'
  BY DEF Readable
<1>1. PICK m \in Names \ (S \cup results) : reads[m] = reads[n]
  BY DEF Forget
<1> QED
  BY <1>1 DEF Forget, Readable

LEMMA SetAsideKeeps ==
  ASSUME NothingIsNoContent,
         NEW S \in SUBSET Names, NEW t \in Names, NEW c \in Contents, SetAside(S, t, c)
  PROVE  Readable \subseteq Readable'
<1> SUFFICES ASSUME NEW n \in Names \ results, reads[n] # Nothing
             PROVE  reads[n] \in Readable'
  BY DEF Readable
<1>1. CASE n \in S
  <2>1. reads[n] = c /\ reads'[t] = c /\ t \notin results'
    BY <1>1 DEF SetAside
  <2> QED
    BY <2>1 DEF NothingIsNoContent, Readable
<1>2. CASE n \notin S
  <2>1. n # t
    BY DEF SetAside
  <2> QED
    BY <1>2, <2>1 DEF SetAside, Readable
<1> QED
  BY <1>1, <1>2

(* No step of a run that keeps the promise takes away what can be read,     *)
(* except what the results file held: a report overwrites no other file,    *)
(* what is deleted can be read under another name, and what is set aside    *)
(* can be read under a temporary name.                                      *)
THEOREM KeptPromiseLosesNothing ==
  ASSUME NothingIsNoContent
  PROVE  Spec => NothingIsLost
<1>1. ASSUME [Next]_vars, running
      PROVE  Readable \subseteq Readable'
  <2>1. CASE UNCHANGED vars
    BY <2>1 DEF vars, Readable
  <2>2. CASE User
    BY <1>1, <2>2 DEF User
  <2>3. CASE Start \/ Stop
    BY <2>3 DEF Start, Stop, Readable
  <2>4. CASE \E c \in Contents : Report(c)
    BY <2>4, ReportKeeps
  <2>5. CASE \E S \in SUBSET Names : Forget(S)
    BY <2>5, ForgetKeeps
  <2>6. CASE \E S \in SUBSET Names, t \in Names, c \in Contents : SetAside(S, t, c)
    BY <2>6, SetAsideKeeps
  <2> QED
    BY <1>1, <2>1, <2>2, <2>3, <2>4, <2>5, <2>6 DEF Next
<1>2. [Next]_vars => [running => Readable \subseteq Readable']_vars
  BY <1>1
<1> QED
  BY <1>2, PTL DEF Spec, NothingIsLost
=============================================================================
