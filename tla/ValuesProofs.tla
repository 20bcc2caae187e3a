---------------------------- MODULE ValuesProofs ----------------------------
(***************************************************************************)
(* What holds of the values of every call: the parts of MCValues, each     *)
(* with an inductive invariant of its own that says what a loop has read,  *)
(* kept and counted so far.                                                *)
(***************************************************************************)
EXTENDS MCValues, DataLemmas

-----------------------------------------------------------------------------
(***************************************************************************)
(* Triggered jobs.                                                         *)
(*                                                                         *)
(* ExecInv knows of every name that was issued when and under which number *)
(* it was made: names made in an earlier second differ in it, and within a *)
(* second no number comes round.  A call that runs owns its job's name.    *)
(***************************************************************************)

CallFields == {"step", "command", "job", "answer"}

ExecType ==
  /\ DOMAIN exec = Calls /\ \A c \in Calls : DOMAIN exec[c] = CallFields
  /\ clock \in 0..MaxClock /\ sequence \in Nat /\ burst \in Nat /\ burst <= sequence
  /\ triggers \in Nat /\ IsFiniteSet(issued) /\ jobs \subseteq issued

\* A call that has not ended has no answer; a job belongs to a trigger.
ExecWay ==
  \A c \in Calls :
    /\ exec[c].step = "idle" => exec[c] = Fresh
    /\ exec[c].step \in {"run", "applied"} =>
         /\ exec[c].answer = "none" /\ exec[c].command.action \in Actions
         /\ exec[c].command.dry_run \in BOOLEAN
         /\ exec[c].job # NoJob <=> exec[c].command.action = "cronjob_trigger"

\* Names of this second bear numbers of this burst.
ExecStamps ==
  \A p \in issued : \E t \in 0..clock, q \in Nat :
    /\ p.stamp = <<t, q % SequenceMod>>
    /\ t = clock => sequence - burst <= q /\ q < sequence

\* No two calls have the same job, and the cluster has it as far as the call has come.
ExecJobs ==
  /\ \A c, d \in Calls : exec[c].job = exec[d].job => c = d \/ exec[c].job = NoJob
  /\ \A c \in Calls : exec[c].job # NoJob =>
       /\ exec[c].job \in issued
       /\ exec[c].step = "run" => exec[c].job \notin jobs
       /\ exec[c].step = "applied" => (exec[c].job \in jobs <=> ~exec[c].command.dry_run)

ExecInv ==
  /\ ExecType /\ ExecWay /\ ExecStamps /\ ExecJobs
  /\ JobNamesDistinct /\ JobNameValid /\ TriggerAnswerNamesJob

(* The numbers and the names.                                              *)

\* Quotient and remainder are integers.
LEMMA DivisionType ==
  ASSUME NEW a \in Int, NEW n \in Int, n > 0
  PROVE  a \div n \in Int /\ a % n \in Int
<1>1. a \div n \in Int
  OBVIOUS
<1>2. a % n \in 0..(n - 1)
  OBVIOUS
<1> QED
  BY <1>1, <1>2

\* Quotient and remainder make up the number.
LEMMA Division ==
  ASSUME NEW a \in Int, NEW n \in Int, n > 0
  PROVE  a = n * (a \div n) + (a % n)
  OBVIOUS

\* A number below the modulus is its own remainder.
LEMMA SmallIsItsRemainder ==
  ASSUME NEW n \in Nat, NEW a \in Nat, a < n
  PROVE  a % n = a
<1>1. a = n * (a \div n) + (a % n) /\ a % n \in 0..(n - 1) /\ a \div n \in Int
  <2>1. a \in Int /\ n \in Int /\ n > 0
    OBVIOUS
  <2>2. a % n \in 0..(n - 1)
    BY <2>1
  <2> QED
    BY <2>1, <2>2, Division, DivisionType
<1> DEFINE k == a \div n
           r == a % n
<1>2. a = n * k + r /\ r \in 0..(n - 1) /\ k \in Int
  BY <1>1
<1> HIDE DEF k, r
<1>3. CASE k = 0
  BY <1>2, <1>3 DEF r
<1>4. CASE k >= 1
  <2>1. n * k >= n
    BY <1>2, <1>4
  <2> QED
    BY <1>2, <2>1
<1>5. CASE k <= -1
  <2>1. n * k <= -n
    BY <1>2, <1>5
  <2> QED
    BY <1>2, <2>1
<1> QED
  BY <1>2, <1>3, <1>4, <1>5

\* Numbers less than a period apart leave different remainders.
LEMMA NoNumberComesRound ==
  ASSUME NEW n \in Nat \ {0}, NEW p \in Nat, NEW q \in Nat, p < q, q - p < n
  PROVE  p % n # q % n
<1>1. /\ p \in Int /\ q \in Int /\ n \in Int /\ n > 0
  OBVIOUS
<1>2. SUFFICES ASSUME p % n = q % n PROVE FALSE
  OBVIOUS
<1> DEFINE k == (q \div n) - (p \div n)
<1>3. k \in Int /\ q - p = n * k
  <2>1. /\ p \div n \in Int /\ q \div n \in Int
        /\ p = n * (p \div n) + (p % n) /\ q = n * (q \div n) + (q % n)
        /\ p % n \in Int
    BY <1>1, DivisionType, Division
  <2> DEFINE a == p \div n
             b == q \div n
             r == p % n
  <2>2. a \in Int /\ b \in Int /\ r \in Int /\ p = n * a + r /\ q = n * b + r
    BY <1>2, <2>1
  <2> HIDE DEF a, b, r
  <2>3. q - p = n * (b - a)
    BY <2>2
  <2> QED BY <2>2, <2>3 DEF a, b
<1>4. k >= 1
  <2> HIDE DEF k
  <2>1. ASSUME k <= 0 PROVE FALSE
    <3>1. n * k <= 0
      BY <1>3, <2>1
    <3> QED
      BY <1>3, <3>1
  <2> QED
    BY <1>3, <2>1
<1>5. n * k >= n
  <2> HIDE DEF k
  <2> QED BY <1>3, <1>4
<1> HIDE DEF k
<1> QED
  BY <1>3, <1>5

Letters == {"a", "-", ".", "A"}

\* A label, told from its place in a name.
LabelAt(s, i, j) ==
  /\ j - i \in 1..LabelMax
  /\ \A k \in (i + 1)..j : s[k] \in {"a", "-"}
  /\ s[i + 1] = "a" /\ s[j] = "a"

\* Whether a part of a name is a DNS label can be seen in the name.
LEMMA LabelOfAName ==
  ASSUME NEW s \in Seq(Letters), NEW i \in Nat, NEW j \in Nat, i <= j, j <= Len(s)
  PROVE  ValidDnsLabel(SubSeq(s, i + 1, j)) <=> LabelAt(s, i, j)
<1> DEFINE t == SubSeq(s, i + 1, j)
<1>1. Len(t) = j - i /\ \A k \in 1..(j - i) : t[k] = s[k + i]
  OBVIOUS
<1>2. SUFFICES ValidDnsLabel(t) <=> LabelAt(s, i, j)
  OBVIOUS
<1> HIDE DEF t
<1>3. CASE j - i \notin 1..LabelMax
  BY <1>1, <1>3 DEF ValidDnsLabel, LabelAt
<1>4. CASE j - i \in 1..LabelMax
  <2>1. t[1] = s[i + 1] /\ t[Len(t)] = s[j]
    BY <1>1, <1>4
  <2>2. (\A k \in 1..Len(t) : t[k] \in {"a", "-"}) <=> (\A k \in (i + 1)..j : s[k] \in {"a", "-"})
    <3>1. ASSUME \A k \in 1..Len(t) : t[k] \in {"a", "-"}, NEW k \in (i + 1)..j
          PROVE  s[k] \in {"a", "-"}
      <4>1. k - i \in 1..(j - i) /\ (k - i) + i = k
        OBVIOUS
      <4> QED
        BY <1>1, <3>1, <4>1
    <3>2. ASSUME \A k \in (i + 1)..j : s[k] \in {"a", "-"}, NEW k \in 1..Len(t)
          PROVE  t[k] \in {"a", "-"}
      <4>1. k + i \in (i + 1)..j /\ k \in 1..(j - i)
        BY <1>1
      <4> QED
        BY <1>1, <3>2, <4>1
    <3> QED
      BY <3>1, <3>2
  <2>3. t[1] \in Alphanumeric /\ t[Len(t)] \in Alphanumeric <=> s[i + 1] = "a" /\ s[j] = "a"
    BY <2>1 DEF Alphanumeric
  <2>4. Alphanumeric \cup {"-"} = {"a", "-"}
    BY DEF Alphanumeric
  <2>5. Len(t) \in 1..LabelMax
    BY <1>1, <1>4
  <2> QED
    BY <1>4, <2>2, <2>3, <2>4, <2>5 DEF ValidDnsLabel, LabelAt
<1> QED
  BY <1>3, <1>4

Cuts(s) == {0, Len(s) + 1} \cup {i \in 1..Len(s) : s[i] = "."}

\* Every part between two neighbouring cuts is a label.
LEMMA SubdomainByCuts ==
  ASSUME NEW s \in Seq(Letters)
  PROVE  ValidDnsSubdomain(s)
           <=> \A i, j \in Cuts(s) :
                 i < j /\ (\A k \in Cuts(s) : ~(i < k /\ k < j)) => LabelAt(s, i, j - 1)
<1>1. \A i \in Cuts(s) : i \in 0..(Len(s) + 1)
  BY DEF Cuts
<1>2. ASSUME NEW i \in Cuts(s), NEW j \in Cuts(s), i < j
      PROVE  ValidDnsLabel(SubSeq(s, i + 1, j - 1)) <=> LabelAt(s, i, j - 1)
  <2>1. i \in Nat /\ j - 1 \in Nat /\ i <= j - 1 /\ j - 1 <= Len(s)
    BY <1>1, <1>2
  <2> QED
    BY <2>1, LabelOfAName
<1>3. ValidDnsSubdomain(s)
        <=> \A i, j \in Cuts(s) :
              i < j /\ (\A k \in Cuts(s) : ~(i < k /\ k < j))
                => ValidDnsLabel(SubSeq(s, i + 1, j - 1))
  BY DEF ValidDnsSubdomain, Cuts
<1> QED
  BY <1>2, <1>3

\* The first cut after a place.
LEMMA NextCut ==
  ASSUME NEW s \in Seq(Letters), NEW i \in Cuts(s), i <= Len(s)
  PROVE  \E j \in Cuts(s) : i < j /\ \A k \in Cuts(s) : ~(i < k /\ k < j)
<1> DEFINE T == {k \in Cuts(s) : i < k}
<1>1. Cuts(s) \subseteq Nat /\ Len(s) + 1 \in Cuts(s) /\ i < Len(s) + 1
  BY DEF Cuts
<1>2. T \subseteq Nat /\ T # {}
  BY <1>1
<1>3. PICK j \in T : \A k \in T : j <= k
  <2> HIDE DEF T
  <2> QED BY <1>2, LeastNat
<1> QED
  BY <1>1, <1>3

\* A name of Kubernetes, cut behind one of its letters, is one of Kubernetes.
LEMMA CutNameIsValid ==
  ASSUME NEW s \in Seq(Letters), ValidDnsSubdomain(s),
         NEW m \in 1..Len(s), s[m] \notin {"-", "."},
         NEW t \in Seq(Letters), Len(t) = m, \A i \in 1..m : t[i] = s[i]
  PROVE  ValidDnsSubdomain(t)
<1>1. \A i, j \in Cuts(s) :
        i < j /\ (\A k \in Cuts(s) : ~(i < k /\ k < j)) => LabelAt(s, i, j - 1)
  BY SubdomainByCuts
<1>2. /\ \A i \in Cuts(t) : i \in 0..(m + 1)
      /\ \A i \in 0..m : i \in Cuts(t) <=> i \in Cuts(s)
      /\ m \notin Cuts(s) /\ Cuts(s) \subseteq Nat
  BY DEF Cuts
<1>3. SUFFICES ASSUME NEW i \in Cuts(t), NEW j \in Cuts(t), i < j,
                      \A k \in Cuts(t) : ~(i < k /\ k < j)
               PROVE  LabelAt(t, i, j - 1)
  BY SubdomainByCuts
<1>4. i \in 0..(m - 1) /\ i \in Cuts(s) /\ j \in 1..(m + 1)
  BY <1>2, <1>3
<1>5. CASE j <= m
  <2>1. j \in Cuts(s) /\ \A k \in Cuts(s) : ~(i < k /\ k < j)
    BY <1>2, <1>3, <1>4, <1>5
  <2>2. LabelAt(s, i, j - 1)
    BY <1>1, <1>3, <1>4, <2>1
  <2> QED
    BY <1>4, <1>5, <2>2 DEF LabelAt
<1>6. CASE j = m + 1
  <2>1. i <= Len(s)
    BY <1>4
  <2>2. PICK e \in Cuts(s) : i < e /\ \A k \in Cuts(s) : ~(i < k /\ k < e)
    BY <1>4, <2>1, NextCut
  <2>3. LabelAt(s, i, e - 1)
    BY <1>1, <1>4, <2>2
  <2>4. e > m /\ e \in Nat
    <3>1. e \in Nat /\ i \in Nat
      BY <1>2, <1>4
    <3>2. ASSUME e <= m PROVE FALSE
      <4>1. e \in 0..m
        BY <3>1, <3>2
      <4>2. e \in Cuts(t) /\ e # m
        BY <1>2, <4>1
      <4>3. i < e /\ e < j
        BY <1>6, <2>2, <4>1, <4>2
      <4> QED
        BY <1>3, <4>2, <4>3
    <3> QED
      BY <3>1, <3>2
  <2>5. s[m] = "a"
    <3>1. m \in (i + 1)..(e - 1)
      BY <1>4, <2>4
    <3>2. s[m] \in {"a", "-"}
      BY <2>3, <3>1 DEF LabelAt
    <3> QED
      BY <3>2
  <2>6. \A k \in (i + 1)..m : t[k] \in {"a", "-"}
    <3>1. \A k \in (i + 1)..m : k \in (i + 1)..(e - 1) /\ k \in 1..m
      BY <1>4, <2>4
    <3> QED
      BY <2>3, <3>1 DEF LabelAt
  <2>7. t[i + 1] = "a" /\ t[m] = "a"
    <3>1. i + 1 \in 1..m /\ m \in 1..m
      BY <1>4
    <3> QED
      BY <2>3, <2>5, <3>1 DEF LabelAt
  <2>8. m - i \in 1..LabelMax
    <3>1. (e - 1) - i \in 1..LabelMax
      BY <2>3 DEF LabelAt
    <3> QED
      BY <1>4, <2>4, <3>1, LengthsAssumption
  <2> QED
    BY <1>6, <2>6, <2>7, <2>8 DEF LabelAt
<1> QED
  BY <1>4, <1>5, <1>6

\* The largest of some numbers up to n.
LEMMA LastOfSome ==
  ASSUME NEW n \in Nat, NEW S, S \subseteq 0..n, S # {}
  PROVE  Max(S) \in S /\ \A x \in S : x <= Max(S)
<1> DEFINE T == {k \in Nat : n - k \in S}
<1>1. T \subseteq Nat /\ T # {}
  <2>1. PICK x \in S : TRUE
    OBVIOUS
  <2>2. n - x \in Nat /\ n - (n - x) = x
    BY <2>1
  <2> QED
    BY <2>1, <2>2
<1>2. PICK k \in T : \A l \in T : k <= l
  <2> HIDE DEF T
  <2> QED BY <1>1, LeastNat
<1>3. n - k \in S /\ \A x \in S : x <= n - k
  <2>1. \A x \in S : x \in 0..n /\ n - x \in Nat /\ n - (n - x) = x
    OBVIOUS
  <2>2. \A x \in S : n - x \in T
    BY <2>1
  <2> QED
    BY <1>2, <2>1, <2>2
<1>4. \E x \in S : \A y \in S : x >= y
  BY <1>3
<1> QED
  BY <1>4 DEF Max

\* The smaller of two numbers.
LEMMA SmallerOfTwo ==
  ASSUME NEW a \in Int, NEW b \in Int
  PROVE  Min({a, b}) <= a /\ Min({a, b}) <= b /\ Min({a, b}) \in {a, b}
<1>1. \E x \in {a, b} : \A y \in {a, b} : x <= y
  BY SMT
<1> QED
  BY <1>1 DEF Min

\* The name of a job is one of Kubernetes with its suffix whole.
LEMMA JobNameIsValid ==
  ASSUME NEW name \in Names, ValidDnsSubdomain(name), NEW stamp
  PROVE  LET p == JobName(name, stamp) IN
         /\ p.stamp = stamp /\ Len(p.prefix) >= 1
         /\ Len(p.prefix) + SuffixLen <= LabelMax /\ ValidDnsSubdomain(p.prefix)
<1> DEFINE n == Min({Len(name), LabelMax - SuffixLen})
           cut == SubSeq(name, 1, n)
           solid == {i \in 1..Len(cut) : cut[i] \notin {"-", "."}}
           m == Max({0} \cup solid)
           t == SubSeq(cut, 1, m)
<1>1. name \in Seq(Letters) /\ Len(name) \in Nat
  BY NamesAssumption DEF Letters
<1>2. name[1] = "a" /\ Len(name) >= 1
  <2>1. 0 \in Cuts(name) /\ 0 <= Len(name)
    BY <1>1 DEF Cuts
  <2>2. PICK j \in Cuts(name) : 0 < j /\ \A k \in Cuts(name) : ~(0 < k /\ k < j)
    BY <1>1, <2>1, NextCut
  <2>3. LabelAt(name, 0, j - 1)
    BY <1>1, <2>1, <2>2, SubdomainByCuts
  <2>4. j \in 1..(Len(name) + 1)
    BY <1>1, <2>2 DEF Cuts
  <2> QED
    BY <1>1, <2>3, <2>4, LengthsAssumption DEF LabelAt
<1>3. n \in 1..Len(name) /\ n + SuffixLen <= LabelMax
  <2>1. LabelMax - SuffixLen \in Int /\ LabelMax - SuffixLen >= 1
        /\ LabelMax \in Int /\ SuffixLen \in Int
    BY LengthsAssumption
  <2> DEFINE room == LabelMax - SuffixLen
             length == Len(name)
  <2>2. length \in Int /\ room \in Int
    BY <1>1, <2>1
  <2> HIDE DEF room, length
  <2>3. Min({length, room}) <= length /\ Min({length, room}) <= room
        /\ Min({length, room}) \in {length, room}
    BY <2>2, SmallerOfTwo
  <2>4. n <= length /\ n <= room /\ n \in {length, room}
    BY <2>3 DEF length, room
  <2>5. length >= 1 /\ room >= 1
    BY <1>2, <2>1 DEF length, room
  <2> HIDE DEF n
  <2>6. n \in 1..length
    BY <2>2, <2>4, <2>5
  <2>7. n + SuffixLen <= LabelMax
    BY <2>1, <2>2, <2>4 DEF room
  <2> QED
    BY <2>6, <2>7 DEF length
<1> HIDE DEF n
<1>4. cut \in Seq(Letters) /\ Len(cut) = n /\ \A i \in 1..n : cut[i] = name[i]
  BY <1>1, <1>3
<1> HIDE DEF cut
<1>5. 1 \in solid
  <2>1. cut[1] = "a" /\ 1 \in 1..Len(cut)
    BY <1>2, <1>3, <1>4
  <2> QED
    BY <2>1
<1>6. m \in solid
  <2>1. n \in Nat /\ {0} \cup solid \subseteq 0..n /\ {0} \cup solid # {}
    BY <1>3, <1>4
  <2> DEFINE S == {0} \cup solid
  <2>2. 1 \in S
    BY <1>5
  <2> HIDE DEF S, solid
  <2>3. S \subseteq 0..n /\ S # {}
    BY <2>1 DEF S
  <2>4. Max(S) \in S /\ \A x \in S : x <= Max(S)
    BY <2>1, <2>3, LastOfSome
  <2>5. Max(S) # 0
    <3>1. 1 <= Max(S)
      BY <2>2, <2>4
    <3> QED
      BY <3>1
  <2> QED
    BY <2>4, <2>5 DEF S
<1> HIDE DEF m
<1>7. m \in 1..n /\ cut[m] \notin {"-", "."}
  BY <1>4, <1>6
<1>8. t \in Seq(Letters) /\ Len(t) = m /\ \A i \in 1..m : t[i] = cut[i]
  BY <1>3, <1>4, <1>7
<1> HIDE DEF t
<1>9. m \in 1..Len(name) /\ name[m] \notin {"-", "."} /\ \A i \in 1..m : t[i] = name[i]
  BY <1>3, <1>4, <1>7, <1>8
<1>10. ValidDnsSubdomain(t)
  BY <1>1, <1>8, <1>9, CutNameIsValid
<1>11. JobName(name, stamp) = [prefix |-> t, stamp |-> stamp]
  BY DEF JobName, TrimEnd, n, cut, m, t
<1>12. m >= 1 /\ m + SuffixLen <= LabelMax
  BY <1>3, <1>7, LengthsAssumption
<1> QED
  BY <1>8, <1>10, <1>11, <1>12

(* The steps.                                                              *)

\* No job was triggered, no command has run.
LEMMA ExecInitHolds == ExecInit => ExecInv
<1>1. SUFFICES ASSUME ExecInit PROVE ExecInv
  OBVIOUS
<1>2. /\ clock = 0 /\ sequence = 0 /\ burst = 0 /\ triggers = 0
      /\ DOMAIN exec = Calls /\ \A c \in Calls : exec[c] = Fresh
      /\ jobs = {} /\ issued = {}
  BY <1>1 DEF ExecInit
<1>3. DOMAIN Fresh = CallFields /\ Fresh.step = "idle" /\ Fresh.answer = "none" /\ Fresh.job = NoJob
  BY DEF Fresh, CallFields
<1>4. IsFiniteSet({}) /\ Cardinality({}) = 0
  BY FS_EmptySet
<1>5. ExecType
  BY <1>2, <1>3, <1>4, ClockAssumption DEF ExecType
<1>6. ExecWay
  BY <1>2, <1>3 DEF ExecWay
<1>7. ExecStamps /\ JobNamesDistinct /\ JobNameValid
  BY <1>2, <1>4 DEF ExecStamps, JobNamesDistinct, JobNameValid
<1>8. ExecJobs /\ TriggerAnswerNamesJob
  BY <1>2, <1>3 DEF ExecJobs, TriggerAnswerNamesJob
<1> QED
  BY <1>5, <1>6, <1>7, <1>8 DEF ExecInv

\* A call ends, or is forgotten: the names and the cluster stay as they are.
LEMMA CallEnds ==
  ASSUME ExecInv, NEW c \in Calls, NEW r, exec' = [exec EXCEPT ![c] = r],
         UNCHANGED <<clock, sequence, burst, triggers, changed, jobs, issued>>,
         DOMAIN r = CallFields, r.step \notin {"run", "applied"}, r.step = "idle" => r = Fresh,
         r.job = exec[c].job \/ r.job = NoJob,
         r.job # NoJob =>
           /\ r.answer = "accepted" => r.job \in jobs
           /\ r.answer \in {"validated", "mutation_rejected", "capacity_exhausted"}
                => r.job \notin jobs
  PROVE  ExecInv'
<1>1. DOMAIN exec = Calls
  BY DEF ExecInv, ExecType
<1>2. DOMAIN exec' = Calls /\ exec'[c] = r /\ \A d \in Calls \ {c} : exec'[d] = exec[d]
  BY <1>1
<1>3. ExecType'
  BY <1>2 DEF ExecInv, ExecType
<1>4. ExecWay'
  <2>1. ASSUME NEW d \in Calls
        PROVE  /\ exec'[d].step = "idle" => exec'[d] = Fresh
               /\ exec'[d].step \in {"run", "applied"} =>
                    /\ exec'[d].answer = "none" /\ exec'[d].command.action \in Actions
                    /\ exec'[d].command.dry_run \in BOOLEAN
                    /\ exec'[d].job # NoJob <=> exec'[d].command.action = "cronjob_trigger"
    <3>1. CASE d = c
      BY <1>2, <3>1
    <3>2. CASE d # c
      <4>1. exec'[d] = exec[d]
        BY <1>2, <3>2
      <4> QED
        BY <4>1 DEF ExecInv, ExecWay
    <3> QED
      BY <3>1, <3>2
  <2> QED
    BY <2>1 DEF ExecWay
<1>5. ExecStamps' /\ JobNamesDistinct' /\ JobNameValid'
  BY DEF ExecInv, ExecStamps, JobNamesDistinct, JobNameValid
<1>6. ExecJobs'
  <2>1. \A d, e \in Calls : exec'[d].job = exec'[e].job => d = e \/ exec'[d].job = NoJob
    BY <1>2 DEF ExecInv, ExecJobs
  <2>2. ASSUME NEW d \in Calls, exec'[d].job # NoJob
        PROVE  /\ exec'[d].job \in issued
               /\ exec'[d].step = "run" => exec'[d].job \notin jobs
               /\ exec'[d].step = "applied"
                    => (exec'[d].job \in jobs <=> ~exec'[d].command.dry_run)
    <3>1. CASE d = c
      BY <1>2, <2>2, <3>1 DEF ExecInv, ExecJobs
    <3>2. CASE d # c
      <4>1. exec'[d] = exec[d]
        BY <1>2, <3>2
      <4> QED
        BY <2>2, <4>1 DEF ExecInv, ExecJobs
    <3> QED
      BY <3>1, <3>2
  <2> QED
    BY <2>1, <2>2 DEF ExecJobs
<1>7. TriggerAnswerNamesJob'
  <2>1. ASSUME NEW d \in Calls, exec'[d].job # NoJob
        PROVE  /\ exec'[d].answer = "accepted" => exec'[d].job \in jobs
               /\ exec'[d].answer \in {"validated", "mutation_rejected", "capacity_exhausted"}
                    => exec'[d].job \notin jobs
    <3>1. CASE d = c
      BY <1>2, <2>1, <3>1
    <3>2. CASE d # c
      <4>1. exec'[d] = exec[d]
        BY <1>2, <3>2
      <4> QED
        BY <2>1, <4>1 DEF ExecInv, TriggerAnswerNamesJob
    <3> QED
      BY <3>1, <3>2
  <2> QED
    BY <2>1 DEF TriggerAnswerNamesJob
<1> QED
  BY <1>3, <1>4, <1>5, <1>6, <1>7 DEF ExecInv

\* Refuse keeps the invariant.
LEMMA RefuseKeeps == ASSUME ExecInv, NEW c \in Calls, Refuse(c) PROVE ExecInv'
<1>1. PICK a : ExecFinish(c, a)
  BY DEF Refuse
<1> DEFINE r == [Fresh EXCEPT !.step = "done", !.answer = a, !.job = exec[c].job]
<1>2. exec[c] = Fresh /\ exec[c].job = NoJob
  BY DEF Refuse, ExecInv, ExecWay, Fresh
<1>3. DOMAIN r = CallFields /\ r.step = "done" /\ r.job = exec[c].job
  BY DEF Fresh, CallFields
<1>4. exec' = [exec EXCEPT ![c] = r]
  BY <1>1 DEF ExecFinish
<1>5. UNCHANGED <<clock, sequence, burst, triggers, changed, jobs, issued>>
  BY DEF Refuse
<1> HIDE DEF r
<1> QED
  BY <1>2, <1>3, <1>4, <1>5, CallEnds

\* Again keeps the invariant.
LEMMA AgainKeeps == ASSUME ExecInv, NEW c \in Calls, Again(c) PROVE ExecInv'
<1>1. /\ exec' = [exec EXCEPT ![c] = Fresh]
      /\ UNCHANGED <<clock, sequence, burst, triggers, changed, jobs, issued>>
  BY DEF Again
<1>2. DOMAIN Fresh = CallFields /\ Fresh.step = "idle" /\ Fresh.job = NoJob
  BY DEF Fresh, CallFields
<1> QED
  BY <1>1, <1>2, CallEnds

\* What a call is answered with is what happened to its job.
LEMMA ReplyKeeps == ASSUME ExecInv, NEW c \in Calls, Reply(c) PROVE ExecInv'
<1>1. PICK a :
        /\ ExecFinish(c, a) /\ exec[c].step \in {"run", "applied"}
        /\ a = "accepted" => exec[c].step = "applied" /\ ~exec[c].command.dry_run
        /\ a = "validated" => exec[c].step = "applied" /\ exec[c].command.dry_run
        /\ a \in {"mutation_rejected", "capacity_exhausted"} => exec[c].step = "run"
  <2>1. CASE exec[c].step = "applied"
             /\ ExecFinish(c, IF exec[c].command.dry_run THEN "validated" ELSE "accepted")
    BY <2>1
  <2>2. CASE exec[c].step \in {"run", "applied"} /\ ExecFinish(c, "mutation_outcome_unknown")
    BY <2>2
  <2>3. CASE exec[c].step = "run"
             /\ \E e \in {"mutation_rejected", "capacity_exhausted"} : ExecFinish(c, e)
    BY <2>3
  <2> QED
    BY <2>1, <2>2, <2>3 DEF Reply
<1> DEFINE r == [Fresh EXCEPT !.step = "done", !.answer = a, !.job = exec[c].job]
<1>2. DOMAIN r = CallFields /\ r.step = "done" /\ r.job = exec[c].job /\ r.answer = a
  BY DEF Fresh, CallFields
<1>3. exec' = [exec EXCEPT ![c] = r]
  BY <1>1 DEF ExecFinish
<1>4. UNCHANGED <<clock, sequence, burst, triggers, changed, jobs, issued>>
  BY DEF Reply
<1> HIDE DEF r
<1>5. exec[c].job # NoJob =>
        /\ exec[c].step = "run" => exec[c].job \notin jobs
        /\ exec[c].step = "applied" => (exec[c].job \in jobs <=> ~exec[c].command.dry_run)
  BY DEF ExecInv, ExecJobs
<1>6. r.job # NoJob =>
        /\ r.answer = "accepted" => r.job \in jobs
        /\ r.answer \in {"validated", "mutation_rejected", "capacity_exhausted"}
             => r.job \notin jobs
  BY <1>1, <1>2, <1>5
<1> QED
  BY <1>2, <1>3, <1>4, <1>6, CallEnds

\* The name is new, for the second and the number it is made of are.
LEMMA PrepareKeeps == ASSUME ExecInv, NEW c \in Calls, Prepare(c) PROVE ExecInv'
<1>1. PICK i \in ExecRequests :
        /\ ExecValid(i)
        /\ IF i.action = "cronjob_trigger"
           THEN /\ burst < SequenceMod
                /\ sequence' = sequence + 1 /\ burst' = burst + 1 /\ triggers' = triggers + 1
                /\ exec' = [exec EXCEPT ![c].step = "run", ![c].command = Command(i),
                              ![c].job = JobName(i.name, Stamp)]
                /\ issued' = issued \cup {JobName(i.name, Stamp)}
           ELSE /\ exec' = [exec EXCEPT ![c].step = "run", ![c].command = Command(i)]
                /\ UNCHANGED <<sequence, burst, triggers, issued>>
  BY DEF Prepare
<1>2. i.action \in Actions /\ i.name \in Names
  BY DEF ExecRequests
<1>3. /\ DOMAIN exec = Calls /\ \A d \in Calls : DOMAIN exec[d] = CallFields
      /\ exec[c] = Fresh /\ exec[c].job = NoJob /\ exec[c].answer = "none"
      /\ UNCHANGED <<clock, changed, jobs>>
      /\ jobs \subseteq issued /\ IsFiniteSet(issued)
      /\ clock \in 0..MaxClock /\ sequence \in Nat /\ burst \in Nat /\ burst <= sequence
      /\ triggers \in Nat
  BY DEF Prepare, ExecInv, ExecType, ExecWay, Fresh
<1>4. /\ Command(i).action = i.action /\ Command(i).dry_run \in BOOLEAN
  BY DEF Command
<1> DEFINE p == JobName(i.name, Stamp)
<1>5. /\ p.stamp = <<clock, sequence % SequenceMod>> /\ Len(p.prefix) >= 1
      /\ Len(p.prefix) + SuffixLen <= LabelMax /\ ValidDnsSubdomain(p.prefix)
  <2>1. ValidDnsSubdomain(i.name)
    BY <1>1 DEF ExecValid, ValidObjectName
  <2>2. clock % TimeMod = clock
    <3>1. clock \in Nat /\ TimeMod \in Nat /\ clock < TimeMod
      BY <1>3, ClockAssumption
    <3> QED
      BY <3>1, SmallIsItsRemainder
  <2>3. Stamp = <<clock, sequence % SequenceMod>>
    BY <2>2 DEF Stamp
  <2> QED
    BY <1>2, <2>1, <2>3, JobNameIsValid
<1>6. p # NoJob
  <2>1. Len(NoJob.prefix) = 0
    BY DEF NoJob
  <2> HIDE DEF p
  <2> QED BY <1>5, <2>1
<1>7. CASE i.action # "cronjob_trigger"
  <2>1. /\ exec' = [exec EXCEPT ![c].step = "run", ![c].command = Command(i)]
        /\ UNCHANGED <<sequence, burst, triggers, issued>>
    BY <1>1, <1>7
  <2>2. /\ DOMAIN exec' = Calls /\ DOMAIN exec'[c] = CallFields
        /\ \A d \in Calls \ {c} : exec'[d] = exec[d]
        /\ exec'[c].step = "run" /\ exec'[c].command = Command(i)
        /\ exec'[c].job = NoJob /\ exec'[c].answer = "none"
    BY <1>3, <2>1 DEF CallFields
  <2>3. ExecType'
    BY <1>3, <2>1, <2>2 DEF ExecType
  <2>4. ExecWay'
    BY <1>2, <1>4, <1>7, <2>2 DEF ExecInv, ExecWay
  <2>5. ExecStamps' /\ JobNamesDistinct' /\ JobNameValid'
    BY <1>3, <2>1 DEF ExecInv, ExecStamps, JobNamesDistinct, JobNameValid
  <2>6. ExecJobs' /\ TriggerAnswerNamesJob'
    BY <1>3, <2>1, <2>2 DEF ExecInv, ExecJobs, TriggerAnswerNamesJob
  <2> QED
    BY <2>3, <2>4, <2>5, <2>6 DEF ExecInv
<1>8. CASE i.action = "cronjob_trigger"
  <2>1. /\ burst < SequenceMod
        /\ sequence' = sequence + 1 /\ burst' = burst + 1 /\ triggers' = triggers + 1
        /\ exec' = [exec EXCEPT ![c].step = "run", ![c].command = Command(i), ![c].job = p]
        /\ issued' = issued \cup {p}
    BY <1>1, <1>8
  <2> HIDE DEF p
  <2>2. /\ DOMAIN exec' = Calls /\ DOMAIN exec'[c] = CallFields
        /\ \A d \in Calls \ {c} : exec'[d] = exec[d]
        /\ exec'[c].step = "run" /\ exec'[c].command = Command(i)
        /\ exec'[c].job = p /\ exec'[c].answer = "none"
    BY <1>3, <2>1 DEF CallFields
  <2>3. p \notin issued
    <3>1. SUFFICES ASSUME p \in issued PROVE FALSE
      OBVIOUS
    <3>2. PICK t \in 0..clock, q \in Nat :
            /\ p.stamp = <<t, q % SequenceMod>>
            /\ t = clock => sequence - burst <= q /\ q < sequence
      BY <3>1 DEF ExecInv, ExecStamps
    <3>3. t = clock /\ q % SequenceMod = sequence % SequenceMod
      BY <1>5, <3>2
    <3>4. q < sequence /\ sequence - q < SequenceMod
      BY <1>3, <2>1, <3>2, <3>3, ClockAssumption
    <3> QED
      BY <1>3, <3>3, <3>4, NoNumberComesRound, ClockAssumption
  <2>4. ExecType'
    <3>1. IsFiniteSet(issued \cup {p})
      BY <1>3, FS_AddElement
    <3> QED
      BY <1>3, <2>1, <2>2, <3>1 DEF ExecType
  <2>5. ExecWay'
    BY <1>2, <1>4, <1>6, <1>8, <2>2 DEF ExecInv, ExecWay
  <2>6. ExecStamps'
    <3>1. ASSUME NEW o \in issued
          PROVE  \E t \in 0..clock, q \in Nat :
                   /\ o.stamp = <<t, q % SequenceMod>>
                   /\ t = clock => sequence' - burst' <= q /\ q < sequence'
      <4>1. PICK t \in 0..clock, q \in Nat :
              /\ o.stamp = <<t, q % SequenceMod>>
              /\ t = clock => sequence - burst <= q /\ q < sequence
        BY <3>1 DEF ExecInv, ExecStamps
      <4>2. sequence' - burst' = sequence - burst /\ (q < sequence => q < sequence')
        BY <1>3, <2>1
      <4> QED
        BY <4>1, <4>2
    <3>2. \E t \in 0..clock, q \in Nat :
            /\ p.stamp = <<t, q % SequenceMod>>
            /\ t = clock => sequence' - burst' <= q /\ q < sequence'
      <4>1. clock \in 0..clock /\ sequence' - burst' <= sequence /\ sequence < sequence'
        BY <1>3, <2>1
      <4> QED
        BY <1>3, <1>5, <4>1
    <3> QED
      BY <1>3, <2>1, <3>1, <3>2 DEF ExecStamps
  <2>7. JobNamesDistinct'
    <3>1. Cardinality(issued \cup {p}) = Cardinality(issued) + 1
      BY <1>3, <2>3, FS_AddElement
    <3> QED
      BY <2>1, <3>1 DEF ExecInv, JobNamesDistinct
  <2>8. JobNameValid'
    BY <1>5, <2>1 DEF ExecInv, JobNameValid
  <2>9. ExecJobs'
    <3>1. \A d \in Calls : exec[d].job # NoJob => exec[d].job \in issued
      BY DEF ExecInv, ExecJobs
    <3>2. \A d, e \in Calls : exec'[d].job = exec'[e].job => d = e \/ exec'[d].job = NoJob
      BY <1>6, <2>2, <2>3, <3>1 DEF ExecInv, ExecJobs
    <3>3. p \notin jobs
      BY <1>3, <2>3
    <3>4. ASSUME NEW d \in Calls, exec'[d].job # NoJob
          PROVE  /\ exec'[d].job \in issued'
                 /\ exec'[d].step = "run" => exec'[d].job \notin jobs'
                 /\ exec'[d].step = "applied"
                      => (exec'[d].job \in jobs' <=> ~exec'[d].command.dry_run)
      <4>1. CASE d = c
        BY <1>3, <2>1, <2>2, <3>3, <4>1
      <4>2. CASE d # c
        <5>1. exec'[d] = exec[d] /\ jobs' = jobs
          BY <1>3, <2>2, <4>2
        <5>2. /\ exec[d].job \in issued
              /\ exec[d].step = "run" => exec[d].job \notin jobs
              /\ exec[d].step = "applied" => (exec[d].job \in jobs <=> ~exec[d].command.dry_run)
          BY <3>4, <5>1 DEF ExecInv, ExecJobs
        <5>3. exec'[d].job \in issued'
          BY <2>1, <5>1, <5>2
        <5> QED
          BY <5>1, <5>2, <5>3
      <4> QED
        BY <4>1, <4>2
    <3> QED
      BY <3>2, <3>4 DEF ExecJobs
  <2>10. TriggerAnswerNamesJob'
    BY <1>3, <2>2 DEF ExecInv, TriggerAnswerNamesJob
  <2> QED
    BY <2>4, <2>5, <2>6, <2>7, <2>8, <2>9, <2>10 DEF ExecInv
<1> QED
  BY <1>7, <1>8

\* A dry run that is no trigger is a patch, a scale or a deletion of the server's.
LEMMA OnlyRealRunsAreApplied ==
  ASSUME ExecInv, NEW c \in Calls, Apply(c)
  PROVE  /\ exec[c].step = "run" /\ exec[c].command.action \in Actions
         /\ exec[c].command.dry_run \in BOOLEAN
         /\ exec[c].command.dry_run => UNCHANGED <<changed, jobs>>
         /\ ~exec[c].command.dry_run =>
              jobs' = IF exec[c].command.action = "cronjob_trigger"
                      THEN jobs \cup {exec[c].job} ELSE jobs
<1> DEFINE i == exec[c].command
<1>1. exec[c].step = "run" /\ i.action \in Actions /\ i.dry_run \in BOOLEAN
  BY DEF Apply, ExecInv, ExecWay
<1>2. IF ServerSideDryRun(i) THEN UNCHANGED <<changed, jobs>>
      ELSE jobs' = IF ExecChange(i).field = "jobs" THEN jobs \cup {exec[c].job} ELSE jobs
  BY DEF Apply
<1> HIDE DEF i
<1>3. /\ ServerSideDryRun(i) <=> i.dry_run
      /\ ExecChange(i).field = "jobs" <=> i.action = "cronjob_trigger"
  <2>1. CASE i.action = "workload_restart"
    BY <1>1, <2>1 DEF ServerSideDryRun, ExecChange
  <2>2. CASE i.action = "workload_scale"
    BY <1>1, <2>2 DEF ServerSideDryRun, ExecChange
  <2>3. CASE i.action = "cronjob_suspend"
    BY <1>1, <2>3 DEF ServerSideDryRun, ExecChange
  <2>4. CASE i.action = "cronjob_trigger"
    BY <1>1, <2>4 DEF ServerSideDryRun, ExecChange
  <2>5. CASE i.action = "pod_delete"
    BY <1>1, <2>5 DEF ServerSideDryRun, ExecChange
  <2> QED
    BY <1>1, <2>1, <2>2, <2>3, <2>4, <2>5 DEF Actions
<1> QED
  BY <1>1, <1>2, <1>3 DEF i

\* Apply keeps the invariant.
LEMMA ApplyKeeps == ASSUME ExecInv, NEW c \in Calls, Apply(c) PROVE ExecInv'
<1>1. /\ exec' = [exec EXCEPT ![c].step = "applied"]
      /\ UNCHANGED <<clock, sequence, burst, triggers, issued>>
      /\ exec[c].step = "run"
  BY DEF Apply
<1>2. /\ DOMAIN exec = Calls /\ \A d \in Calls : DOMAIN exec[d] = CallFields
      /\ jobs \subseteq issued
  BY DEF ExecInv, ExecType
<1>3. /\ DOMAIN exec' = Calls /\ DOMAIN exec'[c] = CallFields
      /\ \A d \in Calls \ {c} : exec'[d] = exec[d]
      /\ exec'[c].step = "applied" /\ exec'[c].command = exec[c].command
      /\ exec'[c].job = exec[c].job /\ exec'[c].answer = exec[c].answer
  BY <1>1, <1>2 DEF CallFields
<1>4. /\ exec[c].answer = "none" /\ exec[c].command.dry_run \in BOOLEAN
      /\ exec[c].job # NoJob <=> exec[c].command.action = "cronjob_trigger"
      /\ exec[c].job # NoJob => exec[c].job \in issued /\ exec[c].job \notin jobs
  BY <1>1 DEF ExecInv, ExecWay, ExecJobs
<1>5. \/ jobs' = jobs /\ (exec[c].job # NoJob => exec[c].command.dry_run)
      \/ jobs' = jobs \cup {exec[c].job} /\ exec[c].job # NoJob /\ ~exec[c].command.dry_run
  BY <1>4, OnlyRealRunsAreApplied
<1>6. ExecType'
  <2>1. jobs' \subseteq issued
    BY <1>2, <1>4, <1>5
  <2> QED
    BY <1>1, <1>2, <1>3, <2>1 DEF ExecInv, ExecType
<1>7. ExecWay'
  <2>1. ASSUME NEW d \in Calls
        PROVE  /\ exec'[d].step = "idle" => exec'[d] = Fresh
               /\ exec'[d].step \in {"run", "applied"} =>
                    /\ exec'[d].answer = "none" /\ exec'[d].command.action \in Actions
                    /\ exec'[d].command.dry_run \in BOOLEAN
                    /\ exec'[d].job # NoJob <=> exec'[d].command.action = "cronjob_trigger"
    <3>1. CASE d = c
      BY <1>3, <1>4, <3>1, OnlyRealRunsAreApplied
    <3>2. CASE d # c
      <4>1. exec'[d] = exec[d]
        BY <1>3, <3>2
      <4> QED
        BY <4>1 DEF ExecInv, ExecWay
    <3> QED
      BY <3>1, <3>2
  <2> QED
    BY <2>1 DEF ExecWay
<1>8. ExecStamps' /\ JobNamesDistinct' /\ JobNameValid'
  BY <1>1 DEF ExecInv, ExecStamps, JobNamesDistinct, JobNameValid
<1>9. \A d \in Calls : exec'[d].job = exec[d].job /\ exec'[d].answer = exec[d].answer
  BY <1>3
\* Another call's job is not the one that was created.
<1>10. \A d \in Calls \ {c} :
         exec[d].job # NoJob => (exec[d].job \in jobs' <=> exec[d].job \in jobs)
  BY <1>5 DEF ExecInv, ExecJobs
<1>11. ExecJobs'
  <2>1. \A d, e \in Calls : exec'[d].job = exec'[e].job => d = e \/ exec'[d].job = NoJob
    BY <1>9 DEF ExecInv, ExecJobs
  <2>2. ASSUME NEW d \in Calls, exec'[d].job # NoJob
        PROVE  /\ exec'[d].job \in issued'
               /\ exec'[d].step = "run" => exec'[d].job \notin jobs'
               /\ exec'[d].step = "applied"
                    => (exec'[d].job \in jobs' <=> ~exec'[d].command.dry_run)
    <3>1. CASE d = c
      <4>1. exec[c].job \in issued' /\ exec[c].job # NoJob
        BY <1>1, <1>3, <1>4, <2>2, <3>1
      <4>2. exec[c].job \in jobs' <=> ~exec[c].command.dry_run
        BY <1>4, <1>5, <4>1
      <4> QED
        BY <1>3, <3>1, <4>1, <4>2
    <3>2. CASE d # c
      <4>1. exec'[d] = exec[d] /\ exec[d].job # NoJob
        BY <1>3, <2>2, <3>2
      <4>2. /\ exec[d].job \in issued
            /\ exec[d].step = "run" => exec[d].job \notin jobs
            /\ exec[d].step = "applied" => (exec[d].job \in jobs <=> ~exec[d].command.dry_run)
        BY <4>1 DEF ExecInv, ExecJobs
      <4>3. exec[d].job \in jobs' <=> exec[d].job \in jobs
        BY <1>10, <3>2, <4>1
      <4>4. exec'[d].job \in issued'
        BY <1>1, <4>1, <4>2
      <4> QED
        BY <4>1, <4>2, <4>3, <4>4
    <3> QED
      BY <3>1, <3>2
  <2> QED
    BY <2>1, <2>2 DEF ExecJobs
<1>12. TriggerAnswerNamesJob'
  <2>1. ASSUME NEW d \in Calls, exec'[d].job # NoJob
        PROVE  /\ exec'[d].answer = "accepted" => exec'[d].job \in jobs'
               /\ exec'[d].answer \in {"validated", "mutation_rejected", "capacity_exhausted"}
                    => exec'[d].job \notin jobs'
    <3>1. CASE d = c
      <4>1. exec'[d].answer = "none"
        BY <1>3, <1>4, <3>1
      <4> QED
        BY <4>1
    <3>2. CASE d # c
      <4>1. exec'[d] = exec[d] /\ exec[d].job # NoJob
        BY <1>3, <2>1, <3>2
      <4>2. /\ exec[d].answer = "accepted" => exec[d].job \in jobs
            /\ exec[d].answer \in {"validated", "mutation_rejected", "capacity_exhausted"}
                 => exec[d].job \notin jobs
        BY <4>1 DEF ExecInv, TriggerAnswerNamesJob
      <4>3. exec[d].job \in jobs' <=> exec[d].job \in jobs
        BY <1>10, <3>2, <4>1
      <4> QED
        BY <4>1, <4>2, <4>3
    <3> QED
      BY <3>1, <3>2
  <2> QED
    BY <2>1 DEF TriggerAnswerNamesJob
<1> QED
  BY <1>6, <1>7, <1>8, <1>11, <1>12 DEF ExecInv

\* Time moves on: the numbers start a new second, or from the beginning.
LEMMA ClockMovesOn == ASSUME ExecInv, ClockTicks \/ Restart PROVE ExecInv'
<1>1. /\ clock < MaxClock /\ clock' = clock + 1 /\ burst' = 0 /\ sequence' \in {0, sequence}
      /\ UNCHANGED <<triggers, jobs, issued>>
      /\ UNCHANGED exec \/ exec' = [c \in Calls |-> Fresh]
  BY DEF ClockTicks, Restart
<1>2. /\ DOMAIN exec = Calls /\ \A d \in Calls : DOMAIN exec[d] = CallFields
      /\ clock \in 0..MaxClock /\ sequence \in Nat
  BY DEF ExecInv, ExecType
<1>3. DOMAIN Fresh = CallFields /\ Fresh.step = "idle" /\ Fresh.answer = "none" /\ Fresh.job = NoJob
  BY DEF Fresh, CallFields
<1>4. ExecType'
  <2>1. clock' \in 0..MaxClock /\ sequence' \in Nat /\ burst' \in Nat /\ burst' <= sequence'
    BY <1>1, <1>2, ClockAssumption
  <2>2. DOMAIN exec' = Calls /\ \A d \in Calls : DOMAIN exec'[d] = CallFields
    BY <1>1, <1>2, <1>3
  <2> QED
    BY <1>1, <2>1, <2>2 DEF ExecInv, ExecType
<1>5. ExecStamps'
  <2>1. ASSUME NEW p \in issued
        PROVE  \E t \in 0..clock', q \in Nat :
                 /\ p.stamp = <<t, q % SequenceMod>>
                 /\ t = clock' => sequence' - burst' <= q /\ q < sequence'
    <3>1. PICK t \in 0..clock, q \in Nat : p.stamp = <<t, q % SequenceMod>>
      BY DEF ExecInv, ExecStamps
    <3>2. t \in 0..clock' /\ t # clock'
      BY <1>1, <1>2
    <3> QED
      BY <3>1, <3>2
  <2> QED
    BY <1>1, <2>1 DEF ExecStamps
<1>6. JobNamesDistinct' /\ JobNameValid'
  BY <1>1 DEF ExecInv, JobNamesDistinct, JobNameValid
<1>7. CASE UNCHANGED exec
  BY <1>1, <1>4, <1>5, <1>6, <1>7
     DEF ExecInv, ExecWay, ExecJobs, TriggerAnswerNamesJob
<1>8. CASE exec' = [c \in Calls |-> Fresh]
  <2>1. \A c \in Calls : exec'[c] = Fresh
    BY <1>8
  <2>2. ExecWay' /\ ExecJobs' /\ TriggerAnswerNamesJob'
    BY <1>3, <2>1 DEF ExecWay, ExecJobs, TriggerAnswerNamesJob
  <2> QED
    BY <1>4, <1>5, <1>6, <2>2 DEF ExecInv
<1> QED
  BY <1>1, <1>7, <1>8

\* Every step of the mutating tools keeps the invariant.
LEMMA ExecStep == ExecInv /\ [ExecNext]_execVars => ExecInv'
<1>1. SUFFICES ASSUME ExecInv, [ExecNext]_execVars PROVE ExecInv'
  OBVIOUS
<1>2. CASE UNCHANGED execVars
  BY <1>1, <1>2
     DEF execVars, ExecInv, ExecType, ExecWay, ExecStamps, ExecJobs, JobNamesDistinct,
         JobNameValid, TriggerAnswerNamesJob
<1>3. CASE ExecNext
  <2>1. ASSUME NEW c \in Calls, Refuse(c) \/ Prepare(c) \/ Apply(c) \/ Reply(c) \/ Again(c)
        PROVE  ExecInv'
    BY <1>1, <2>1, RefuseKeeps, PrepareKeeps, ApplyKeeps, ReplyKeeps, AgainKeeps
  <2> QED
    BY <1>1, <1>3, <2>1, ClockMovesOn DEF ExecNext
<1> QED
  BY <1>1, <1>2, <1>3

\* A step that changes the cluster is one of a call that runs for real.
LEMMA ExecChangesAreReal ==
  ExecInv /\ [ExecNext]_execVars =>
    (changed' # changed \/ jobs' # jobs =>
       \E c \in Calls : exec[c].step = "run" /\ ~exec[c].command.dry_run)
<1>1. SUFFICES ASSUME ExecInv, [ExecNext]_execVars, changed' # changed \/ jobs' # jobs
               PROVE  \E c \in Calls : exec[c].step = "run" /\ ~exec[c].command.dry_run
  OBVIOUS
<1>2. PICK c \in Calls : Apply(c)
  BY <1>1 DEF ExecNext, execVars, Refuse, Prepare, Reply, Again, ClockTicks, Restart
<1> QED
  BY <1>1, <1>2, OnlyRealRunsAreApplied

\* A trigger creates a job of its own, under a name Kubernetes takes and the caller is told
\* (kubernetes/client.rs:637-654), for every number of calls, every clock and every restart.
THEOREM JobNamesAreSound == ExecSpec => []JobNamesSound
<1>1. ExecInv => JobNamesSound
  BY DEF ExecInv, JobNamesSound
<1> QED
  BY <1>1, ExecInitHolds, ExecStep, PTL DEF ExecSpec

\* No step changes the cluster but one of a call that runs and is no dry run
\* (kubernetes/client.rs:283-302, 559-695).
THEOREM OnlyRealRunsChangeTheCluster == ExecSpec => OnlyRealRunsChange
<1> DEFINE RealChange ==
      changed' # changed \/ jobs' # jobs =>
        \E c \in Calls : exec[c].step = "run" /\ ~exec[c].command.dry_run
<1>1. ExecInv /\ [ExecNext]_execVars => [RealChange]_execVars
  BY ExecChangesAreReal
<1>2. OnlyRealRunsChange <=> [][RealChange]_execVars
  BY DEF OnlyRealRunsChange
<1> HIDE DEF RealChange
<1>3. ExecSpec => [][RealChange]_execVars
  BY <1>1, ExecInitHolds, ExecStep, PTL DEF ExecSpec
<1> QED
  BY <1>2, <1>3

-----------------------------------------------------------------------------
\* Validation of time ranges and steps.

\* What is multiplied, by the text of the duration.
Product(p) == p[1] * UnitTicks[p[2]]

\* What was read of a step so far, a part at a time, is the sum of what its parts mean.
PartsTyped ==
  /\ parts \in Seq(Amounts \X {Units[i] : i \in 1..Len(Units)})
  /\ inputTotal \in Nat /\ Meant \in Nat

\* What an accepted query was accepted for.
Accepted ==
  /\ query.mode = "range" =>
       /\ inputTool # "render" \/ "relative" \notin given
       /\ ValidRange /\ query.start = Sent(start) /\ query.end = Sent(end)
       /\ inputTool = "promql" => /\ inputTotal > 0 /\ inputTotal = Meant
                                  /\ Points(end - start, inputTotal) <= MaxPoints
  /\ query.mode = "relative" => Meant \in 1..MaxRange[inputTool]

InputInv ==
  /\ inputTool \in InputTools /\ start \in Times /\ end \in Times
  /\ PartsTyped
  /\ query = Pending => inputTotal = Meant /\ (inputTool # "promql" => parts = << >>)
  /\ query.verdict = "valid" => Accepted

\* No parts mean no time.
LEMMA MeantOfNone == ASSUME parts = << >> PROVE Meant = 0
<1> DEFINE f == [i \in 1..Len(parts) |-> parts[i][1] * UnitTicks[parts[i][2]]]
<1>1. Len(parts) = 0
  OBVIOUS
<1>2. DOMAIN f = {}
  BY <1>1
<1>3. Meant = SumFunction(f)
  BY DEF Meant
<1> HIDE DEF f
<1> QED
  BY <1>2, <1>3, SumOfEmpty

\* An amount of a unit is a number of ticks.
LEMMA ProductType ==
  ASSUME NEW a \in Amounts, NEW i \in 1..Len(Units)
  PROVE  a * UnitTicks[Units[i]] \in Nat
<1>1. a \in Nat
  BY WordAssumption
<1>2. UnitTicks[Units[i]] \in Nat
  BY UnitsAssumption
<1> DEFINE t == UnitTicks[Units[i]]
<1>3. a \in Nat /\ t \in Nat
  BY <1>1, <1>2
<1> HIDE DEF t
<1>4. a * t \in Nat
  BY <1>3
<1> QED
  BY <1>4 DEF t

\* One part more, at the end.
LEMMA MeantGrows ==
  ASSUME PartsTyped, NEW a \in Amounts, NEW i \in 1..Len(Units),
         parts' = Append(parts, <<a, Units[i]>>)
  PROVE  Meant' = Meant + a * UnitTicks[Units[i]] /\ parts' \in Seq(Amounts \X {Units[k] : k \in 1..Len(Units)})
<1> DEFINE U == {Units[k] : k \in 1..Len(Units)}
           n == Len(parts)
           f == [k \in 1..Len(parts) |-> parts[k][1] * UnitTicks[parts[k][2]]]
           g == [k \in 1..Len(parts)' |-> parts'[k][1] * UnitTicks[parts'[k][2]]]
<1>1. parts \in Seq(Amounts \X U) /\ <<a, Units[i]>> \in Amounts \X U /\ n \in Nat
  BY DEF PartsTyped
<1>2. /\ parts' \in Seq(Amounts \X U) /\ Len(parts)' = n + 1
      /\ \A k \in 1..n : parts'[k] = parts[k]
      /\ parts'[n + 1] = <<a, Units[i]>>
  BY <1>1
<1>3. DOMAIN f = 1..n /\ DOMAIN g = 1..(n + 1)
  BY <1>2
<1>4. \A k \in 1..(n + 1) : g[k] \in Int
  <2>1. ASSUME NEW k \in 1..(n + 1) PROVE g[k] \in Int
    <3>1. parts'[k] \in Amounts \X U
      BY <1>1, <1>2, <2>1
    <3>2. PICK b \in Amounts, j \in 1..Len(Units) : parts'[k] = <<b, Units[j]>>
      BY <3>1
    <3>3. b * UnitTicks[Units[j]] \in Nat
      BY ProductType
    <3>4. g[k] = b * UnitTicks[Units[j]]
      BY <1>2, <2>1, <3>2
    <3> QED
      BY <3>3, <3>4
  <2> QED
    BY <2>1
<1>5. \A k \in 1..n : f[k] = g[k]
  BY <1>1, <1>2
<1>6. g[n + 1] = a * UnitTicks[Units[i]]
  BY <1>1, <1>2
<1>7. Meant = SumFunction(f) /\ Meant' = SumFunction(g)
  BY DEF Meant
<1> HIDE DEF f, g, n
<1>8. SumFunction(g) = SumFunction(f) + g[n + 1]
  BY <1>1, <1>3, <1>4, <1>5, SumGrows
<1> QED
  BY <1>2, <1>6, <1>7, <1>8 DEF n

\* No part was read.
LEMMA InputInitHolds == InputInit => InputInv
<1>1. SUFFICES ASSUME InputInit PROVE InputInv
  OBVIOUS
<1>2. Meant = 0
  BY <1>1, MeantOfNone DEF InputInit
<1>3. query.verdict = "pending"
  BY <1>1 DEF InputInit, Pending
<1>4. parts \in Seq(Amounts \X {Units[i] : i \in 1..Len(Units)})
  BY <1>1 DEF InputInit
<1> QED
  BY <1>1, <1>2, <1>3, <1>4 DEF InputInit, InputInv, PartsTyped

\* ReadStepPart keeps the invariant.
LEMMA StepPartKeeps == ASSUME InputInv, ReadStepPart PROVE InputInv'
<1>1. /\ query = Pending /\ inputTool = "promql" /\ UNCHANGED <<inputTool, given, start, end>>
      /\ PartsTyped /\ inputTotal = Meant /\ inputTool \in InputTools
      /\ start \in Times /\ end \in Times
  BY DEF ReadStepPart, InputInv
<1>2. Invalid.verdict = "invalid_arguments" /\ Pending.verdict = "pending" /\ Invalid # Pending
  BY DEF Invalid, Pending
<1>3. CASE query' = Invalid /\ UNCHANGED <<parts, inputTotal, rank>>
  <2>1. PartsTyped'
    BY <1>1, <1>3 DEF PartsTyped, Meant
  <2> QED
    BY <1>1, <1>2, <1>3, <2>1 DEF InputInv
<1>4. ASSUME NEW a \in Amounts, NEW i \in 1..Len(Units), AddPart(a, Units[i]),
             parts' = Append(parts, <<a, Units[i]>>)
      PROVE  InputInv'
  <2>1. Meant' = Meant + a * UnitTicks[Units[i]] /\ a * UnitTicks[Units[i]] \in Nat
        /\ parts' \in Seq(Amounts \X {Units[k] : k \in 1..Len(Units)})
    BY <1>1, <1>4, MeantGrows, ProductType
  <2>2. Meant' \in Nat
    BY <1>1, <2>1 DEF PartsTyped
  <2>3. \/ query' = Invalid /\ UNCHANGED inputTotal
        \/ inputTotal' = inputTotal + a * UnitTicks[Units[i]] /\ UNCHANGED query
    BY <1>4 DEF AddPart
  <2>4. CASE query' = Invalid /\ UNCHANGED inputTotal
    <3>1. PartsTyped'
      BY <1>1, <2>1, <2>2, <2>4 DEF PartsTyped
    <3> QED
      BY <1>1, <1>2, <2>4, <3>1 DEF InputInv
  <2>5. CASE inputTotal' = inputTotal + a * UnitTicks[Units[i]] /\ UNCHANGED query
    <3>1. inputTotal' = Meant' /\ inputTotal' \in Nat
      BY <1>1, <2>1, <2>2, <2>5
    <3>2. PartsTyped'
      BY <2>1, <2>2, <3>1 DEF PartsTyped
    <3> QED
      BY <1>1, <1>2, <2>5, <3>1, <3>2 DEF InputInv
  <2> QED
    BY <2>3, <2>4, <2>5
<1> QED
  BY <1>3, <1>4 DEF ReadStepPart

\* ReadRelative keeps the invariant.
LEMMA RelativeKeeps == ASSUME InputInv, ReadRelative PROVE InputInv'
<1>1. /\ query = Pending /\ inputTool = "render" /\ parts = << >>
      /\ UNCHANGED <<inputTool, given, start, end, inputTotal>>
      /\ PartsTyped /\ inputTotal = Meant /\ inputTool \in InputTools
      /\ start \in Times /\ end \in Times
  BY DEF ReadRelative, InputInv
<1>2. /\ Invalid.verdict = "invalid_arguments" /\ Invalid # Pending
      /\ [Pending EXCEPT !.verdict = "valid", !.mode = "relative"].mode = "relative"
      /\ [Pending EXCEPT !.verdict = "valid", !.mode = "relative"].verdict = "valid"
      /\ [Pending EXCEPT !.verdict = "valid", !.mode = "relative"] # Pending
  BY DEF Invalid, Pending
<1>3. PICK a \in Amounts, i \in 2..Len(Units) :
        /\ parts' = <<<<a, Units[i]>>>>
        /\ query' = IF RelativeTicks(a, Units[i]) \in 1..MaxRange[inputTool]
                    THEN [Pending EXCEPT !.verdict = "valid", !.mode = "relative"]
                    ELSE Invalid
  BY DEF ReadRelative
<1>4. i \in 1..Len(Units) /\ parts' = Append(parts, <<a, Units[i]>>)
  BY <1>1, <1>3, UnitsAssumption
<1>5. Meant = 0
  BY <1>1, MeantOfNone
<1>6. Meant' = Meant + a * UnitTicks[Units[i]] /\ a * UnitTicks[Units[i]] \in Nat
      /\ parts' \in Seq(Amounts \X {Units[k] : k \in 1..Len(Units)})
  BY <1>1, <1>4, MeantGrows, ProductType
<1>7. Meant' = a * UnitTicks[Units[i]]
  BY <1>5, <1>6
<1>8. PartsTyped'
  BY <1>1, <1>6, <1>7 DEF PartsTyped
<1>9. CASE RelativeTicks(a, Units[i]) \in 1..MaxRange[inputTool]
  <2>1. RelativeTicks(a, Units[i]) = a * UnitTicks[Units[i]]
    BY <1>9 DEF RelativeTicks
  <2>2. Meant' \in 1..MaxRange[inputTool]'
    BY <1>1, <1>7, <1>9, <2>1
  <2>3. query' # Pending /\ query'.mode = "relative" /\ query'.mode # "range"
    BY <1>2, <1>3, <1>9
  <2>4. Accepted'
    BY <2>2, <2>3 DEF Accepted
  <2> QED
    BY <1>1, <1>8, <2>3, <2>4 DEF InputInv
<1>10. CASE RelativeTicks(a, Units[i]) \notin 1..MaxRange[inputTool]
  BY <1>1, <1>2, <1>3, <1>8, <1>10 DEF InputInv
<1> QED
  BY <1>9, <1>10

\* Validate keeps the invariant.
LEMMA ValidateKeeps == ASSUME InputInv, Validate PROVE InputInv'
<1>1. /\ query = Pending /\ ~(inputTool = "render" /\ "relative" \in given)
      /\ UNCHANGED <<inputTool, given, start, end, parts, inputTotal, rank>>
      /\ PartsTyped /\ inputTotal = Meant /\ inputTool \in InputTools
      /\ start \in Times /\ end \in Times
  BY DEF Validate, InputInv
<1> DEFINE Default == [Pending EXCEPT !.verdict = "valid", !.mode = "default"]
<1>2. /\ Invalid.verdict = "invalid_arguments" /\ Invalid # Pending
      /\ InstantQuery.mode = "instant" /\ InstantQuery # Pending
      /\ Default.mode = "default" /\ Default # Pending
      /\ RangeQuery # Pending /\ RangeQuery.mode = "range"
      /\ RangeQuery.start = Sent(start) /\ RangeQuery.end = Sent(end)
  BY DEF Invalid, InstantQuery, RangeQuery, Pending
<1>3. PartsTyped'
  BY <1>1 DEF PartsTyped, Meant
<1>4. inputTotal \in Nat
  BY <1>1 DEF PartsTyped
<1>5. CASE inputTool = "promql" /\ query' = RangeQuery
           /\ ValidRange /\ inputTotal # 0 /\ ~(Points(end - start, inputTotal) > MaxPoints)
  <2>1. inputTotal > 0
    BY <1>4, <1>5
  <2>2. start \in Int /\ end \in Int /\ inputTotal \in Int /\ MaxPoints \in Int
    BY <1>1, <1>4, WordAssumption
  <2>3. (end - start) \div inputTotal \in Int
    BY <2>1, <2>2, DivisionType
  <2>4. Points(end - start, inputTotal) <= MaxPoints
    BY <1>5, <2>2, <2>3 DEF Points
  <2>5. Accepted'
    BY <1>1, <1>2, <1>5, <2>1, <2>4 DEF Accepted, ValidRange, Sent, Meant
  <2> QED
    BY <1>1, <1>2, <1>3, <1>5, <2>5 DEF InputInv
<1>6. CASE inputTool # "promql" /\ query' = RangeQuery /\ ValidRange
  <2>1. Accepted'
    BY <1>1, <1>2, <1>6 DEF Accepted, ValidRange, Sent, Meant
  <2> QED
    BY <1>1, <1>2, <1>3, <1>6, <2>1 DEF InputInv
<1>7. CASE query' \in {Invalid, InstantQuery, Default}
  <2>1. query' # Pending /\ query'.mode # "range" /\ (query'.verdict = "valid" => query'.mode # "relative")
    BY <1>2, <1>7 DEF Invalid, Pending
  <2> QED
    BY <1>1, <1>3, <2>1 DEF InputInv, Accepted
<1>8. CASE inputTool = "promql"
  <2>1. query' = ValidatePromql
    BY <1>8 DEF Validate
  <2> QED
    BY <1>5, <1>7, <1>8, <2>1 DEF ValidatePromql
<1>9. CASE inputTool # "promql"
  <2>1. \/ query' = ValidateLogql \/ query' = ValidateTraceql
        \/ query' = ValidateProfiles \/ query' = ValidateRender
    BY <1>1, <1>9, InputToolsAssumption DEF Validate
  <2> QED
    BY <1>6, <1>7, <1>9, <2>1
       DEF ValidateLogql, ValidateTraceql, ValidateProfiles, ValidateRender
<1> QED
  BY <1>8, <1>9

\* Every step of reading an input keeps the invariant.
LEMMA InputStep == InputInv /\ [InputNext]_inputVars => InputInv'
<1>1. SUFFICES ASSUME InputInv, [InputNext]_inputVars PROVE InputInv'
  OBVIOUS
<1>2. CASE UNCHANGED inputVars
  BY <1>1, <1>2 DEF inputVars, InputInv, PartsTyped, Accepted, Meant, ValidRange, Sent, Points
<1> QED
  BY <1>1, <1>2, StepPartKeeps, RelativeKeeps, ValidateKeeps DEF InputNext

\* Quotients are ordered as the numbers are.
LEMMA QuotientGrows ==
  ASSUME NEW a \in Int, NEW b \in Int, NEW n \in Int, n > 0, a <= b
  PROVE  a \div n <= b \div n
<1> DEFINE p == a \div n
           q == b \div n
<1>1. a = n * (a \div n) + (a % n) /\ b = n * (b \div n) + (b % n)
  BY Division
<1>2. p \in Int /\ q \in Int /\ a % n \in 0..(n - 1) /\ b % n \in 0..(n - 1)
  BY DivisionType
<1>3. a = n * p + (a % n) /\ b = n * q + (b % n)
  BY <1>1
<1> HIDE DEF p, q
<1>4. SUFFICES ASSUME q < p PROVE FALSE
  BY <1>2 DEF p, q
<1>5. p - q >= 1 /\ p - q \in Int
  BY <1>2, <1>4
<1>6. n * (p - q) >= n
  BY <1>5
<1>7. n * (p - q) = n * p - n * q
  BY <1>2
<1> QED
  BY <1>2, <1>3, <1>6, <1>7

\* The instants of a range query are as many as the code counts.
LEMMA InstantsCounted ==
  ASSUME NEW s \in Nat, NEW e \in Nat, s <= e, NEW m \in Nat \ {0}
  PROVE  Cardinality({k \in 0..(e - s) : s + k * m <= e}) = (e - s) \div m + 1
<1> DEFINE d == e - s
           q == d \div m
<1>1. d \in Nat /\ m \in Int /\ m > 0 /\ d \in Int
  OBVIOUS
<1>2. d = m * (d \div m) + (d % m)
  BY <1>1, Division
<1>3. q \in Int /\ d % m \in 0..(m - 1)
  BY <1>1, DivisionType
<1>4. d = m * q + (d % m)
  BY <1>2
<1> HIDE DEF q
<1>5. 0 <= q
  <2>1. SUFFICES ASSUME q <= -1 PROVE FALSE
    BY <1>3
  <2>2. m * q <= m * (-1)
    BY <1>1, <1>3, <2>1
  <2> QED
    BY <1>1, <1>3, <1>4, <2>2
<1>6. q <= d
  <2>1. m * q >= q
    BY <1>1, <1>3, <1>5
  <2> QED
    BY <1>1, <1>3, <1>4, <2>1
<1>7. ASSUME NEW k \in 0..d PROVE s + k * m <= e <=> k <= q
  <2>1. k \in Nat /\ k * m \in Nat
    BY <1>1
  <2>2. s + k * m <= e <=> k * m <= d
    BY <2>1
  <2>3. CASE k <= q
    <3>1. m * k <= m * q
      BY <1>1, <1>3, <2>1, <2>3
    <3> QED
      BY <1>1, <1>3, <1>4, <2>1, <2>2, <2>3, <3>1
  <2>4. CASE k > q
    <3>1. k >= q + 1
      BY <1>3, <2>1, <2>4
    <3>2. m * k >= m * (q + 1)
      BY <1>1, <1>3, <2>1, <3>1
    <3>3. m * (q + 1) = m * q + m
      BY <1>1, <1>3
    <3>4. m * q \in Int /\ m * k = k * m
      BY <1>1, <1>3, <2>1
    <3> QED
      BY <1>1, <1>3, <1>4, <2>1, <2>2, <2>4, <3>2, <3>3, <3>4
  <2> QED
    BY <1>3, <2>1, <2>3, <2>4
<1>8. {k \in 0..(e - s) : s + k * m <= e} = 0..q
  BY <1>1, <1>3, <1>5, <1>6, <1>7
<1>9. Cardinality(0..q) = q + 1
  <2>1. 0 \in Int /\ q \in Int
    BY <1>3
  <2>2. Cardinality(0..q) = IF 0 > q THEN 0 ELSE q - 0 + 1
    BY <2>1, FS_Interval
  <2> QED
    BY <1>3, <1>5, <2>2
<1> QED
  BY <1>8, <1>9 DEF q

\* The ends of a range are rounded down to ticks: it comes no further apart.
LEMMA SentSpan ==
  ASSUME NEW s \in Nat, NEW e \in Nat, s <= e, NEW t \in Nat \ {0}, NEW m \in Nat,
         m % t = 0, e - s <= m
  PROVE  s \div t <= e \div t /\ (e \div t - s \div t) * t <= m
<1> DEFINE p == s \div t
           q == e \div t
           k == m \div t
<1>1. s \in Int /\ e \in Int /\ m \in Int /\ t \in Int /\ t > 0
  OBVIOUS
<1>2. /\ s = t * (s \div t) + (s % t) /\ e = t * (e \div t) + (e % t)
      /\ m = t * (m \div t) + (m % t)
  BY <1>1, Division
<1>3. /\ p \in Int /\ q \in Int /\ k \in Int
      /\ s % t \in 0..(t - 1) /\ e % t \in 0..(t - 1)
  BY <1>1, DivisionType
<1>4. s = t * p + (s % t) /\ e = t * q + (e % t) /\ m = t * k + 0
  BY <1>2
<1>5. p <= q
  BY <1>1, QuotientGrows
<1> HIDE DEF p, q, k
<1> DEFINE tp == t * p
           tq == t * q
           tk == t * k
<1>6. tp \in Int /\ tq \in Int /\ tk \in Int
  BY <1>1, <1>3
<1>7. s = tp + (s % t) /\ e = tq + (e % t) /\ m = tk
  BY <1>1, <1>3, <1>4
<1> HIDE DEF tp, tq, tk
<1>8. tq - tp < tk + t
  BY <1>1, <1>3, <1>6, <1>7
<1>9. q - p <= k
  <2>1. SUFFICES ASSUME q - p >= k + 1 PROVE FALSE
    BY <1>3
  <2>2. t * (q - p) >= t * (k + 1)
    BY <1>1, <1>3, <2>1
  <2>3. t * (q - p) = tq - tp /\ t * (k + 1) = tk + t
    BY <1>1, <1>3 DEF tp, tq, tk
  <2> QED
    BY <1>1, <1>6, <1>8, <2>2, <2>3
<1>10. t * (q - p) <= t * k
  BY <1>1, <1>3, <1>9
<1>11. (q - p) * t = t * (q - p)
  BY <1>1, <1>3
<1>12. (q - p) * t <= m
  BY <1>7, <1>10, <1>11 DEF tk
<1> QED
  BY <1>5, <1>12 DEF p, q

\* What the invariant says of the queries that are sent.
LEMMA InputSound == ASSUME InputInv PROVE QueriesBounded
<1>1. /\ start \in Nat /\ end \in Nat /\ inputTool \in InputTools /\ MaxPoints \in Nat
      /\ Tick[inputTool] \in Nat \ {0} /\ MaxRange[inputTool] \in Nat
      /\ MaxRange[inputTool] % Tick[inputTool] = 0
      /\ Meant \in Nat
  BY WordAssumption, UnitsAssumption DEF InputInv, PartsTyped
<1>2. ASSUME query.verdict = "valid", query.mode = "range"
      PROVE  start <= end /\ end - start <= MaxRange[inputTool]
  BY <1>1, <1>2 DEF InputInv, Accepted, ValidRange
<1>3. PointsBounded
  <2>1. SUFFICES ASSUME query.verdict = "valid", inputTool = "promql", query.mode = "range"
                 PROVE  /\ Meant > 0
                        /\ Cardinality({k \in 0..(end - start) : start + k * Meant <= end}) <= MaxPoints
    BY DEF PointsBounded
  <2>2. Meant > 0 /\ Points(end - start, Meant) <= MaxPoints
    BY <2>1 DEF InputInv, Accepted
  <2>3. Cardinality({k \in 0..(end - start) : start + k * Meant <= end}) = (end - start) \div Meant + 1
    <3>1. Meant \in Nat \ {0} /\ start <= end
      BY <1>1, <1>2, <2>1, <2>2
    <3> HIDE DEF Meant
    <3> QED
      BY <1>1, <3>1, InstantsCounted
  <2> QED
    BY <2>2, <2>3 DEF Points
<1>4. SpanBounded
  <2>1. ASSUME query.verdict = "valid", query.mode = "range"
        PROVE  /\ query.start <= query.end
               /\ (query.end - query.start) * Tick[inputTool] <= MaxRange[inputTool]
    <3>1. query.start = start \div Tick[inputTool] /\ query.end = end \div Tick[inputTool]
      BY <2>1 DEF InputInv, Accepted, Sent
    <3>2. /\ start \div Tick[inputTool] <= end \div Tick[inputTool]
          /\ (end \div Tick[inputTool] - start \div Tick[inputTool]) * Tick[inputTool]
               <= MaxRange[inputTool]
      BY <1>1, <1>2, <2>1, SentSpan
    <3> QED
      BY <3>1, <3>2
  <2>2. query.verdict = "valid" /\ query.mode = "relative" => Meant \in 1..MaxRange[inputTool]
    BY DEF InputInv, Accepted
  <2> QED
    BY <2>1, <2>2 DEF SpanBounded
<1> QED
  BY <1>3, <1>4 DEF QueriesBounded

\* Whatever range, step, limit and word size: no accepted Grafana query asks for more than its
\* language's longest range, its most points or its largest limit, and none is sent with a
\* range that is empty (grafana/actions/mod.rs:113-146, promql.rs:34-110, client.rs:95-211).
THEOREM QueriesAreBounded == InputSpec => []QueriesBounded
<1>1. InputInv => QueriesBounded
  BY InputSound
<1> QED
  BY <1>1, InputInitHolds, InputStep, PTL DEF InputSpec

-----------------------------------------------------------------------------
\* The lists of Ceph.

\* The first n of a sequence.
LEMMA FirstIs ==
  ASSUME NEW S, NEW s \in Seq(S), NEW n \in Nat
  PROVE  /\ First(s, n) \in Seq(S)
         /\ Len(First(s, n)) = (IF n < Len(s) THEN n ELSE Len(s))
         /\ \A k \in 1..Len(First(s, n)) : First(s, n)[k] = s[k]
<1> DEFINE m == IF n < Len(s) THEN n ELSE Len(s)
<1>1. m \in Nat /\ m <= Len(s) /\ Len(s) \in Nat
  OBVIOUS
<1>2. First(s, n) = SubSeq(s, 1, m)
  BY DEF First
<1> HIDE DEF m
<1>3. 1 \in 1..(Len(s) + 1) /\ m \in (1 - 1)..Len(s)
  BY <1>1
<1>4. /\ SubSeq(s, 1, m) \in Seq(S) /\ Len(SubSeq(s, 1, m)) = m
      /\ \A k \in 1..m : SubSeq(s, 1, m)[k] = s[k]
  BY <1>1
<1>5. /\ First(s, n) \in Seq(S) /\ Len(First(s, n)) = m
      /\ \A k \in 1..Len(First(s, n)) : First(s, n)[k] = s[k]
  BY <1>2, <1>4
<1> QED
  BY <1>5 DEF m

\* Cutting again where a cut was changes nothing.
LEMMA FirstOfFirst ==
  ASSUME NEW S, NEW s \in Seq(S), NEW n \in Nat
  PROVE  First(s, Len(First(s, n))) = First(s, n)
<1>1. Len(First(s, n)) = IF n < Len(s) THEN n ELSE Len(s)
  BY FirstIs
<1>2. Len(s) \in Nat
  OBVIOUS
<1> QED
  BY <1>1, <1>2 DEF First

\* What is kept is the first of it all: what is left out is told by the lengths.
LEMMA CutIsFirst ==
  ASSUME NEW S, NEW s \in Seq(S), NEW n \in Nat
  PROVE  /\ First(s, n) = First(s, Len(First(s, n)))
         /\ Len(First(s, n)) < Len(s) <=> Len(s) > n
<1>1. Len(First(s, n)) = IF n < Len(s) THEN n ELSE Len(s)
  BY FirstIs
<1>2. Len(s) \in Nat
  OBVIOUS
<1> QED
  BY <1>1, <1>2, FirstOfFirst

\* The indices of a sequence are in order.
LEMMA IndicesAre ==
  ASSUME NEW S, NEW s \in Seq(S)
  PROVE  /\ CephIndices(s) = InOrder(1..Len(s)) /\ CephIndices(s) \in Seq(Nat)
         /\ Len(CephIndices(s)) = Len(s) /\ \A k \in 1..Len(s) : CephIndices(s)[k] = k
<1>1. Len(s) \in Nat
  OBVIOUS
<1>2. CephIndices(s) = [i \in 1..Len(s) |-> i]
  BY DEF CephIndices
<1>3. InOrder(1..Len(s)) = [i \in 1..Len(s) |-> i]
  BY <1>1, InOrderOfAll
<1> QED
  BY <1>1, <1>2, <1>3

\* The indices of a cut are those that are left of the indices.
LEMMA IndicesOfFirst ==
  ASSUME NEW S, NEW s \in Seq(S), NEW n \in Nat
  PROVE  CephIndices(First(s, n)) = First(CephIndices(s), n)
<1> DEFINE a == CephIndices(First(s, n))
           b == First(CephIndices(s), n)
<1>1. First(s, n) \in Seq(S) /\ Len(First(s, n)) = (IF n < Len(s) THEN n ELSE Len(s))
  BY FirstIs
<1>2. a \in Seq(Nat) /\ Len(a) = Len(First(s, n)) /\ \A k \in 1..Len(a) : a[k] = k
  BY <1>1, IndicesAre
<1>3. CephIndices(s) \in Seq(Nat) /\ Len(CephIndices(s)) = Len(s)
      /\ \A k \in 1..Len(s) : CephIndices(s)[k] = k
  BY IndicesAre
<1>4. /\ b \in Seq(Nat) /\ Len(b) = (IF n < Len(s) THEN n ELSE Len(s))
      /\ \A k \in 1..Len(b) : b[k] = CephIndices(s)[k]
  BY <1>3, FirstIs
<1>5. \A k \in 1..Len(b) : b[k] = k
  <2>1. Len(s) \in Nat
    OBVIOUS
  <2>2. Len(b) <= Len(s)
    BY <1>4, <2>1
  <2> QED
    BY <1>3, <1>4, <2>1, <2>2
<1> HIDE DEF a, b
<1>6. a = b
  BY <1>1, <1>2, <1>4, <1>5
<1> QED
  BY <1>6 DEF a, b

\* A filter keeps indices of the list, in order.
LEMMA ChosenAre ==
  ASSUME NEW S, NEW s \in Seq(S), NEW T \in SUBSET (1..Len(s))
  PROVE  /\ T \in SUBSET Nat /\ IsFiniteSet(T)
         /\ InOrder(T) \in Seq(Nat) /\ \A k \in 1..Len(InOrder(T)) : InOrder(T)[k] \in T
<1>1. Len(s) \in Int /\ 1 \in Int
  OBVIOUS
<1>2. IsFiniteSet(1..Len(s))
  BY <1>1, FS_Interval
<1>3. T \in SUBSET Nat /\ IsFiniteSet(T)
  <2>1. IsFiniteSet(T)
    BY <1>2, FS_Subset
  <2>2. \A x \in T : x \in Nat
    BY <1>1
  <2> QED
    BY <2>1, <2>2
<1>4. InOrder(T) \in Seq(T) /\ InOrder(T) \in Seq(Nat)
  BY <1>3, InOrderType
<1> QED
  BY <1>3, <1>4

AnyEntry ==
  [class : {"osd/delete", "other", "curated", "up_in", "up", "in", "down", "wanted", "entry"},
   id : BOOLEAN, text : Texts]

\* The response, and that an answer is right when there is one.
CephInv ==
  /\ cephTool \in CephTools /\ cephLimit \in Nat \ {0}
  /\ entries \in Seq(AnyEntry) /\ finished \in Seq(AnyEntry)
  /\ cephTool # "tasks" => finished = << >>
  /\ cephVerdict = "responding" => kept = << >> /\ resultFinished = << >>
  /\ CephListsExact

\* No entry was read.
LEMMA CephInitHolds == CephInit => CephInv
<1>1. SUFFICES ASSUME CephInit PROVE CephInv
  OBVIOUS
<1>2. cephVerdict # "ok"
  BY <1>1 DEF CephInit
<1> QED
  BY <1>1, <1>2, CephLimitsAssumption
     DEF CephInit, CephInv, CephListsExact, TruncatedIsTheTruth, ReturnedWereChecked, FlagsRefusedWhole

\* What the Dashboard may send is an entry.
LEMMA EntriesAreEntries == ASSUME NEW e \in CephEntries PROVE e \in AnyEntry
BY DEF CephEntries, CephClasses, AnyEntry, Texts

\* Respond keeps the invariant.
LEMMA RespondKeeps == ASSUME CephInv, Respond PROVE CephInv'
<1>1. PICK e \in CephEntries :
        \/ entries' = Append(entries, e) /\ UNCHANGED finished
        \/ cephTool = "tasks" /\ finished' = Append(finished, e) /\ UNCHANGED entries
  BY DEF Respond
<1>2. /\ cephVerdict = "responding"
      /\ UNCHANGED <<cephTool, cephLimit, cephVerdict, kept, resultFinished, cephTruncated, counts>>
  BY DEF Respond
<1>3. e \in AnyEntry
  BY EntriesAreEntries
<1>4. entries' \in Seq(AnyEntry) /\ finished' \in Seq(AnyEntry)
  <2>1. entries \in Seq(AnyEntry) /\ finished \in Seq(AnyEntry)
    BY DEF CephInv
  <2>2. Append(entries, e) \in Seq(AnyEntry) /\ Append(finished, e) \in Seq(AnyEntry)
    BY <1>3, <2>1
  <2> QED
    BY <1>1, <2>1, <2>2
<1>5. CephListsExact'
  BY <1>2 DEF CephListsExact, TruncatedIsTheTruth, ReturnedWereChecked, FlagsRefusedWhole
<1> QED
  BY <1>1, <1>2, <1>4, <1>5 DEF CephInv

\* What is shown, as sets of indices.
ShownOf(s) == {i \in 1..Len(s) : Shown(s[i])}

\* An answer of the first entries that are shown: enough for what the lists promise.
LEMMA AnswerIsExact ==
  ASSUME CephInv, cephVerdict = "responding",
         UNCHANGED <<cephTool, cephLimit, entries, finished>>,
         cephVerdict' = "ok", cephTool \notin {"metrics", "device"},
         NEW n \in Nat, NEW m \in Nat,
         kept' = First(InOrder(ShownOf(entries)), n),
         resultFinished' = First(InOrder(ShownOf(finished)), m),
         cephTruncated' = (Len(InOrder(ShownOf(entries))) > n \/ Len(InOrder(ShownOf(finished))) > m)
  PROVE  TruncatedIsTheTruth'
<1> DEFINE a == InOrder(ShownOf(entries))
           b == InOrder(ShownOf(finished))
<1>1. entries \in Seq(AnyEntry) /\ finished \in Seq(AnyEntry)
  BY DEF CephInv
<1>2. ShownOf(entries) \in SUBSET (1..Len(entries)) /\ ShownOf(finished) \in SUBSET (1..Len(finished))
  BY DEF ShownOf
<1>3. a \in Seq(Nat) /\ b \in Seq(Nat)
  BY <1>1, <1>2, ChosenAre
<1>4. Which(entries, Shown)' = a /\ Which(finished, Shown)' = b
  BY DEF Which, ShownOf, Shown
<1>5. kept' = First(a, n) /\ resultFinished' = First(b, m) /\ cephTruncated' = (Len(a) > n \/ Len(b) > m)
  OBVIOUS
<1> HIDE DEF a, b
<1>6. /\ First(a, n) = First(a, Len(First(a, n))) /\ (Len(First(a, n)) < Len(a) <=> Len(a) > n)
      /\ First(b, m) = First(b, Len(First(b, m))) /\ (Len(First(b, m)) < Len(b) <=> Len(b) > m)
  BY <1>3, CutIsFirst
<1>7. cephTruncated' = (Len(kept') < Len(a) \/ Len(resultFinished') < Len(b))
  BY <1>5, <1>6
<1>8. kept' = First(a, Len(kept')) /\ resultFinished' = First(b, Len(resultFinished'))
  BY <1>5, <1>6
<1> QED
  BY <1>4, <1>7, <1>8 DEF TruncatedIsTheTruth, First

\* An answer that is not given is not wrong.
LEMMA RefusalKeeps ==
  ASSUME CephInv, cephVerdict = "responding", UNCHANGED <<cephTool, cephLimit, entries, finished>>,
         NEW error \in {"invalid_response", "not_found"}, RefuseResponse(error)
  PROVE  CephInv'
<1>1. cephVerdict' # "ok" /\ cephVerdict' # "responding" /\ UNCHANGED <<kept, resultFinished>>
  BY DEF RefuseResponse
<1>2. CephListsExact'
  BY <1>1 DEF CephListsExact, TruncatedIsTheTruth, ReturnedWereChecked, FlagsRefusedWhole
<1> QED
  BY <1>1, <1>2 DEF CephInv

\* The first entries of a list that is shown whole.
LEMMA ListKeeps ==
  ASSUME CephInv, cephVerdict = "responding", UNCHANGED <<cephTool, cephLimit, entries, finished>>,
         cephTool \in {"status", "osds", "devices", "safe_to_destroy"}, NEW n \in Nat,
         NEW cut, cut = (Len(entries) > n),
         cephTool = "safe_to_destroy" => n = Len(entries) /\ n <= MaxValues,
         \A i \in 1..Len(First(entries, n)) :
           /\ BoundedString(First(entries, n)[i].text)
           /\ cephTool \in {"osds", "devices"} => First(entries, n)[i].id
           /\ cephTool = "safe_to_destroy" => BoundedValue(entries[i].text),
         Return(CephIndices(First(entries, n)), << >>, cut)
  PROVE  CephInv'
<1>1. /\ entries \in Seq(AnyEntry) /\ finished = << >> /\ finished \in Seq(AnyEntry)
      /\ Len(entries) \in Nat /\ Len(finished) = 0
  BY DEF CephInv
<1>2. /\ cephVerdict' = "ok" /\ kept' = CephIndices(First(entries, n)) /\ resultFinished' = << >>
      /\ cephTruncated' = cut
  BY DEF Return
<1> DEFINE f == First(entries, n)
<1>3. /\ f \in Seq(AnyEntry) /\ Len(f) = (IF n < Len(entries) THEN n ELSE Len(entries))
      /\ \A k \in 1..Len(f) : f[k] = entries[k]
  BY <1>1, FirstIs
<1>4. /\ CephIndices(f) \in Seq(Nat) /\ Len(CephIndices(f)) = Len(f)
      /\ \A k \in 1..Len(f) : CephIndices(f)[k] = k
  BY <1>3, IndicesAre
<1>5. CephIndices(f) = First(CephIndices(entries), n)
  BY <1>1, IndicesOfFirst
<1>6. ShownOf(entries) = 1..Len(entries) /\ ShownOf(finished) = 1..Len(finished)
  BY DEF ShownOf, Shown
<1>7. /\ CephIndices(entries) = InOrder(1..Len(entries)) /\ Len(CephIndices(entries)) = Len(entries)
      /\ CephIndices(finished) = InOrder(1..Len(finished)) /\ Len(CephIndices(finished)) = 0
  BY <1>1, IndicesAre
<1>8. First(InOrder(ShownOf(finished)), 0) = << >>
  <2>1. CephIndices(finished) \in Seq(Nat)
    BY <1>1, IndicesAre
  <2>2. InOrder(ShownOf(finished)) = CephIndices(finished)
    BY <1>6, <1>7
  <2>3. Len(First(CephIndices(finished), 0)) = 0 /\ First(CephIndices(finished), 0) \in Seq(Nat)
    BY <2>1, <1>7, FirstIs
  <2> QED
    BY <2>2, <2>3
<1>9. TruncatedIsTheTruth'
  <2>1. kept' = First(InOrder(ShownOf(entries)), n)
    BY <1>2, <1>5, <1>6, <1>7
  <2>2. resultFinished' = First(InOrder(ShownOf(finished)), 0)
    BY <1>2, <1>8
  <2>3. Len(InOrder(ShownOf(entries))) = Len(entries) /\ Len(InOrder(ShownOf(finished))) = 0
    BY <1>6, <1>7
  <2>4. cephTruncated' = (Len(InOrder(ShownOf(entries))) > n \/ Len(InOrder(ShownOf(finished))) > 0)
    BY <1>2, <2>3
  <2>5. cephTool \notin {"metrics", "device"} /\ 0 \in Nat
    OBVIOUS
  <2> QED
    BY <1>2, <2>1, <2>2, <2>4, <2>5, AnswerIsExact
<1>10. ReturnedWereChecked'
  <2>1. ASSUME NEW k \in 1..Len(kept')
        PROVE  /\ entries[kept'[k]].text # "refused"
               /\ cephTool \in {"osds", "devices"} => entries[kept'[k]].id
    <3>1. k \in 1..Len(f) /\ kept'[k] = k /\ f[k] = entries[k]
      BY <1>2, <1>3, <1>4
    <3>2. BoundedString(f[k].text) /\ (cephTool \in {"osds", "devices"} => f[k].id)
      BY <3>1
    <3> QED
      BY <3>1, <3>2 DEF BoundedString
  <2>2. Len(resultFinished') = 0
    BY <1>2
  <2> QED
    BY <2>1, <2>2 DEF ReturnedWereChecked
<1>11. FlagsRefusedWhole'
  <2>1. SUFFICES ASSUME cephTool = "safe_to_destroy"
                 PROVE  Len(entries) <= MaxValues /\ \A i \in 1..Len(entries) : entries[i].text = "plain"
    BY DEF FlagsRefusedWhole
  <2>2. Len(f) = Len(entries)
    BY <1>1, <1>3, <2>1
  <2> QED
    BY <2>1, <2>2 DEF BoundedValue
<1> QED
  BY <1>2, <1>9, <1>10, <1>11 DEF CephInv, CephListsExact

\* The status: its checks, as far as the limit goes.
LEMMA StatusKeeps ==
  ASSUME CephInv, cephVerdict = "responding", UNCHANGED <<cephTool, cephLimit, entries, finished>>,
         cephTool = "status", Status
  PROVE  CephInv'
<1>1. CASE RefuseResponse("invalid_response")
  BY <1>1, RefusalKeeps
<1>2. CASE /\ \A i \in 1..Len(First(entries, MaxChecks)) : BoundedString(First(entries, MaxChecks)[i].text)
           /\ Return(CephIndices(First(entries, MaxChecks)), << >>, Len(entries) > MaxChecks)
  <2>1. MaxChecks \in Nat
    BY CephLimitsAssumption
  <2> QED
    BY <1>2, <2>1, ListKeeps
<1> QED
  BY <1>1, <1>2 DEF Status

\* OSDs are asked for one more than wanted, and read up to that.
LEMMA OsdsKeep ==
  ASSUME CephInv, cephVerdict = "responding", UNCHANGED <<cephTool, cephLimit, entries, finished>>,
         \/ cephTool = "osds" /\ OsdList(First(entries, cephLimit + 1))
         \/ cephTool = "devices" /\ OsdList(entries)
  PROVE  CephInv'
<1>1. cephLimit \in Nat /\ cephLimit + 1 \in Nat /\ entries \in Seq(AnyEntry) /\ Len(entries) \in Nat
  BY DEF CephInv
<1>2. /\ First(First(entries, cephLimit + 1), cephLimit) = First(entries, cephLimit)
      /\ Len(First(entries, cephLimit + 1)) > cephLimit <=> Len(entries) > cephLimit
  <2> DEFINE f == First(entries, cephLimit + 1)
             g == First(f, cephLimit)
             h == First(entries, cephLimit)
  <2>1. /\ f \in Seq(AnyEntry) /\ \A k \in 1..Len(f) : f[k] = entries[k]
        /\ Len(f) = IF cephLimit + 1 < Len(entries) THEN cephLimit + 1 ELSE Len(entries)
    BY <1>1, FirstIs
  <2>2. /\ h \in Seq(AnyEntry) /\ \A k \in 1..Len(h) : h[k] = entries[k]
        /\ Len(h) = IF cephLimit < Len(entries) THEN cephLimit ELSE Len(entries)
    BY <1>1, FirstIs
  <2> HIDE DEF f
  <2>3. /\ g \in Seq(AnyEntry) /\ \A k \in 1..Len(g) : g[k] = f[k]
        /\ Len(g) = IF cephLimit < Len(f) THEN cephLimit ELSE Len(f)
    BY <1>1, <2>1, FirstIs
  <2> HIDE DEF g, h
  <2>4. Len(g) = Len(h) /\ Len(g) <= Len(f)
    BY <1>1, <2>1, <2>2, <2>3
  <2>5. \A k \in 1..Len(g) : g[k] = h[k]
    <3>1. Len(g) \in Nat /\ Len(f) \in Nat
      BY <2>1, <2>3
    <3> QED
      BY <2>1, <2>2, <2>3, <2>4, <3>1
  <2>6. g = h
    BY <2>2, <2>3, <2>4, <2>5
  <2>7. Len(f) > cephLimit <=> Len(entries) > cephLimit
    BY <1>1, <2>1
  <2> QED
    BY <2>6, <2>7 DEF f, g, h
<1>3. \/ RefuseResponse("invalid_response")
      \/ /\ \A i \in 1..Len(First(entries, cephLimit)) :
              First(entries, cephLimit)[i].id /\ BoundedString(First(entries, cephLimit)[i].text)
         /\ Return(CephIndices(First(entries, cephLimit)), << >>, Len(entries) > cephLimit)
  <2>1. CASE cephTool = "osds" /\ OsdList(First(entries, cephLimit + 1))
    <3> DEFINE f == First(entries, cephLimit + 1)
               c == Len(f) > cephLimit
    <3>1. /\ First(f, cephLimit) = First(entries, cephLimit)
          /\ c = (Len(entries) > cephLimit)
      BY <1>2
    <3>2. OsdList(f)
      BY <2>1
    <3> HIDE DEF f
    <3> QED
      BY <3>1, <3>2 DEF OsdList, c
  <2>2. CASE OsdList(entries)
    BY <2>2 DEF OsdList
  <2> QED
    BY <2>1, <2>2
<1>4. CASE RefuseResponse("invalid_response")
  BY <1>4, RefusalKeeps
<1>5. CASE /\ \A i \in 1..Len(First(entries, cephLimit)) :
                First(entries, cephLimit)[i].id /\ BoundedString(First(entries, cephLimit)[i].text)
           /\ Return(CephIndices(First(entries, cephLimit)), << >>, Len(entries) > cephLimit)
  BY <1>1, <1>5, ListKeeps
<1> QED
  BY <1>3, <1>4, <1>5

\* OSDs are counted, and nothing is listed.
LEMMA MetricsKeep ==
  ASSUME CephInv, cephVerdict = "responding", UNCHANGED <<cephTool, cephLimit, entries, finished>>,
         cephTool = "metrics", Metrics
  PROVE  CephInv'
<1>1. /\ kept' = << >> /\ resultFinished' = << >> /\ cephVerdict' \in {"ok", "invalid_response"}
  BY DEF Metrics, RefuseResponse, CephInv
<1>2. Len(kept') = 0 /\ Len(resultFinished') = 0
  BY <1>1
<1> QED
  BY <1>1, <1>2
     DEF CephInv, CephListsExact, TruncatedIsTheTruth, ReturnedWereChecked, FlagsRefusedWhole

\* A device: its values, as far as the limit goes.
LEMMA DeviceKeeps ==
  ASSUME CephInv, cephVerdict = "responding", UNCHANGED <<cephTool, cephLimit, entries, finished>>,
         cephTool = "device", Device
  PROVE  CephInv'
<1> DEFINE same == Which(entries, LAMBDA e : e.class = "wanted" /\ e.id)
           T == {i \in 1..Len(entries) : entries[i].class = "wanted" /\ entries[i].id}
<1>1. same = InOrder(T) /\ T \in SUBSET (1..Len(entries)) /\ entries \in Seq(AnyEntry)
  BY DEF Which, CephInv
<1>2. InOrder(T) \in Seq(Nat) /\ \A k \in 1..Len(InOrder(T)) : InOrder(T)[k] \in T
  BY <1>1, ChosenAre
<1>3. \/ RefuseResponse("not_found") \/ RefuseResponse("invalid_response")
      \/ /\ same # << >> /\ BoundedString(entries[same[1]].text)
         /\ Return(<<same[1]>>, << >>, FALSE)
  BY DEF Device
<1>4. CASE RefuseResponse("not_found") \/ RefuseResponse("invalid_response")
  BY <1>4, RefusalKeeps
<1>5. CASE /\ same # << >> /\ BoundedString(entries[same[1]].text)
           /\ Return(<<same[1]>>, << >>, FALSE)
  <2> HIDE DEF same, T
  <2>1. 1 \in 1..Len(same)
    BY <1>1, <1>2, <1>5
  <2>2. same[1] \in T
    BY <1>1, <1>2, <2>1
  <2>3. kept' = <<same[1]>> /\ resultFinished' = << >> /\ cephVerdict' = "ok"
    BY <1>5 DEF Return
  <2>4. Len(kept') = 1 /\ kept'[1] = same[1] /\ Len(resultFinished') = 0
    BY <2>3
  <2>5. entries[same[1]].text # "refused" /\ entries[same[1]].id
    BY <1>5, <2>2 DEF T, BoundedString
  <2>6. ReturnedWereChecked'
    BY <2>4, <2>5 DEF ReturnedWereChecked
  <2>7. TruncatedIsTheTruth' /\ FlagsRefusedWhole'
    BY DEF TruncatedIsTheTruth, FlagsRefusedWhole
  <2> QED
    BY <2>3, <2>6, <2>7 DEF CephInv, CephListsExact
<1> QED
  BY <1>3, <1>4, <1>5

\* The flags: all of them, or a refusal.
LEMMA FlagsKeep ==
  ASSUME CephInv, cephVerdict = "responding", UNCHANGED <<cephTool, cephLimit, entries, finished>>,
         cephTool = "flags", Flags
  PROVE  CephInv'
<1> DEFINE curated == Which(entries, LAMBDA e : e.class = "curated")
           T == ShownOf(entries)
<1>0. /\ entries \in Seq(AnyEntry) /\ finished = << >> /\ Len(finished) = 0 /\ Len(entries) \in Nat
  BY DEF CephInv
<1>1. /\ curated = InOrder(T) /\ T \in SUBSET (1..Len(entries))
      /\ \A i \in T : entries[i].class = "curated"
  BY DEF Which, ShownOf, Shown
<1>2. /\ InOrder(T) \in Seq(Nat) /\ \A k \in 1..Len(InOrder(T)) : InOrder(T)[k] \in T
      /\ T \in SUBSET Nat /\ IsFiniteSet(T)
  BY <1>0, <1>1, ChosenAre
<1>3. \/ RefuseResponse("invalid_response")
      \/ /\ ~(Len(entries) > MaxValues) /\ \A i \in 1..Len(entries) : BoundedValue(entries[i].text)
         /\ Return(curated, << >>, FALSE)
  BY DEF Flags
<1>4. CASE RefuseResponse("invalid_response")
  BY <1>4, RefusalKeeps
<1>5. CASE /\ ~(Len(entries) > MaxValues) /\ \A i \in 1..Len(entries) : BoundedValue(entries[i].text)
           /\ Return(curated, << >>, FALSE)
  <2> HIDE DEF curated
  <2>1. /\ cephVerdict' = "ok" /\ kept' = InOrder(T) /\ resultFinished' = << >> /\ cephTruncated' = FALSE
    BY <1>1, <1>5 DEF Return
  <2> DEFINE a == InOrder(T)
             b == InOrder(ShownOf(finished))
             n == Len(a)
  <2>2. a \in Seq(Nat) /\ n \in Nat
    BY <1>2
  <2>3. b = << >>
    <3>1. ShownOf(finished) = 1..0
      BY <1>0 DEF ShownOf
    <3>2. InOrder(1..0) = [i \in 1..0 |-> i]
      <4>1. 0 \in Nat
        OBVIOUS
      <4> QED
        BY <4>1, InOrderOfAll
    <3> QED
      BY <3>1, <3>2
  <2>4. TruncatedIsTheTruth'
    <3>1. kept' = a /\ resultFinished' = b /\ Len(b) = 0
      BY <2>1, <2>3
    <3> HIDE DEF a, b, n
    <3>2. First(a, n) = a
      <4>1. First(a, n) = SubSeq(a, 1, Len(a))
        BY <2>2 DEF First, n
      <4>2. SubSeq(a, 1, Len(a)) = a
        BY <2>2
      <4> QED
        BY <4>1, <4>2
    <3>3. First(b, 0) = b
      <4>1. b \in Seq(Nat) /\ 0 \in Nat
        BY <2>3
      <4>2. First(b, 0) \in Seq(Nat) /\ Len(First(b, 0)) = IF 0 < Len(b) THEN 0 ELSE Len(b)
        BY <4>1, FirstIs
      <4> QED
        BY <2>3, <3>1, <4>2
    <3>4. cephTruncated' = (Len(a) > n \/ Len(b) > 0)
      <4>1. ~(Len(a) > n)
        BY <2>2 DEF n
      <4>2. ~(Len(b) > 0)
        BY <3>1
      <4> QED
        BY <2>1, <4>1, <4>2
    <3>5. /\ kept' = First(InOrder(ShownOf(entries)), n) /\ n \in Nat /\ 0 \in Nat
          /\ resultFinished' = First(InOrder(ShownOf(finished)), 0)
          /\ cephTruncated' = (Len(InOrder(ShownOf(entries))) > n \/ Len(InOrder(ShownOf(finished))) > 0)
      BY <2>2, <3>1, <3>2, <3>3, <3>4 DEF a, b
    <3>6. cephTool \notin {"metrics", "device"}
      OBVIOUS
    <3> QED
      BY <2>1, <3>5, <3>6, AnswerIsExact
  <2>5. ReturnedWereChecked'
    <3>1. ASSUME NEW k \in 1..Len(kept') PROVE entries[kept'[k]].text # "refused"
      <4>1. kept'[k] \in 1..Len(entries)
        BY <1>1, <1>2, <2>1
      <4> QED
        BY <1>5, <4>1 DEF BoundedValue
    <3>2. Len(resultFinished') = 0
      BY <2>1
    <3> QED
      BY <3>1, <3>2 DEF ReturnedWereChecked
  <2>6. FlagsRefusedWhole'
    <3>1. Len(entries) <= MaxValues
      BY <1>0, <1>5, CephLimitsAssumption
    <3> QED
      BY <1>5, <3>1 DEF FlagsRefusedWhole, BoundedValue
  <2> QED
    BY <2>1, <2>4, <2>5, <2>6 DEF CephInv, CephListsExact
<1> QED
  BY <1>3, <1>4, <1>5

\* Which OSDs are safe to destroy: all that were asked, or a refusal.
LEMMA SafeKeeps ==
  ASSUME CephInv, cephVerdict = "responding", UNCHANGED <<cephTool, cephLimit, entries, finished>>,
         cephTool = "safe_to_destroy", SafeToDestroy
  PROVE  CephInv'
<1>1. /\ entries \in Seq(AnyEntry) /\ Len(entries) \in Nat /\ MaxValues \in Nat
  BY CephLimitsAssumption DEF CephInv
<1>2. \/ RefuseResponse("invalid_response")
      \/ /\ ~(Len(entries) > MaxValues) /\ \A i \in 1..Len(entries) : BoundedValue(entries[i].text)
         /\ Return(CephIndices(entries), << >>, FALSE)
  BY DEF SafeToDestroy
<1>3. CASE RefuseResponse("invalid_response")
  BY <1>3, RefusalKeeps
<1>4. CASE /\ ~(Len(entries) > MaxValues) /\ \A i \in 1..Len(entries) : BoundedValue(entries[i].text)
           /\ Return(CephIndices(entries), << >>, FALSE)
  <2> DEFINE n == Len(entries)
             f == First(entries, n)
  <2>1. f = entries
    <3>1. f = SubSeq(entries, 1, Len(entries))
      BY <1>1 DEF First
    <3>2. SubSeq(entries, 1, Len(entries)) = entries
      BY <1>1
    <3> QED
      BY <3>1, <3>2
  <2>2. n \in Nat /\ n <= MaxValues /\ FALSE = (Len(entries) > n)
    BY <1>1, <1>4
  <2>3. /\ Return(CephIndices(f), << >>, FALSE)
        /\ \A i \in 1..Len(f) : BoundedString(f[i].text) /\ BoundedValue(entries[i].text)
    BY <1>4, <2>1 DEF BoundedString, BoundedValue
  <2>4. cephTool \in {"status", "osds", "devices", "safe_to_destroy"}
        /\ cephTool \notin {"osds", "devices"}
    OBVIOUS
  <2>5. cephTool = "safe_to_destroy" => n = Len(entries) /\ n <= MaxValues
    BY <2>2
  <2> HIDE DEF n
  <2>6. \A i \in 1..Len(First(entries, n)) :
           /\ BoundedString(First(entries, n)[i].text)
           /\ cephTool \in {"osds", "devices"} => First(entries, n)[i].id
           /\ cephTool = "safe_to_destroy" => BoundedValue(entries[i].text)
    BY <2>3, <2>4
  <2> QED
    BY <2>2, <2>3, <2>4, <2>5, <2>6, ListKeeps
<1> QED
  BY <1>2, <1>3, <1>4

\* The tasks: first those that run, then those that have finished.
LEMMA TasksKeep ==
  ASSUME CephInv, cephVerdict = "responding", UNCHANGED <<cephTool, cephLimit, entries, finished>>,
         cephTool = "tasks", TaskLists
  PROVE  CephInv'
<1> DEFINE a == InOrder(ShownOf(entries))
           b == InOrder(ShownOf(finished))
<1>1. entries \in Seq(AnyEntry) /\ finished \in Seq(AnyEntry) /\ TaskLimit \in Nat
  BY CephLimitsAssumption DEF CephInv, TaskLimit
<1>2. ShownOf(entries) \in SUBSET (1..Len(entries)) /\ ShownOf(finished) \in SUBSET (1..Len(finished))
  BY DEF ShownOf
<1>3. a \in Seq(Nat) /\ b \in Seq(Nat)
  BY <1>1, <1>2, ChosenAre
<1>4. /\ Which(entries, LAMBDA e : e.class = "osd/delete") = a
      /\ Which(finished, LAMBDA e : e.class = "osd/delete") = b
  BY DEF Which, ShownOf, Shown
<1>5. \/ RefuseResponse("invalid_response")
      \/ /\ \A i \in Range(a) : entries[i].id
         /\ \A i \in Range(b) : finished[i].id
         /\ Return(First(a, TaskLimit), First(b, TaskLimit), Len(a) > TaskLimit \/ Len(b) > TaskLimit)
  <2> HIDE DEF a, b
  <2> QED
    BY <1>4 DEF TaskLists
<1>6. CASE RefuseResponse("invalid_response")
  BY <1>6, RefusalKeeps
<1>7. CASE /\ \A i \in Range(a) : entries[i].id
           /\ \A i \in Range(b) : finished[i].id
           /\ Return(First(a, TaskLimit), First(b, TaskLimit), Len(a) > TaskLimit \/ Len(b) > TaskLimit)
  <2>1. /\ cephVerdict' = "ok" /\ kept' = First(a, TaskLimit) /\ resultFinished' = First(b, TaskLimit)
        /\ cephTruncated' = (Len(a) > TaskLimit \/ Len(b) > TaskLimit)
    BY <1>7 DEF Return
  <2>2. TruncatedIsTheTruth'
    BY <1>1, <2>1, AnswerIsExact
  <2> HIDE DEF a, b
  <2>3. /\ \A k \in 1..Len(kept') : kept'[k] = a[k] /\ k \in 1..Len(a)
        /\ \A k \in 1..Len(resultFinished') : resultFinished'[k] = b[k] /\ k \in 1..Len(b)
    <3>1. /\ Len(First(a, TaskLimit)) = (IF TaskLimit < Len(a) THEN TaskLimit ELSE Len(a))
          /\ \A k \in 1..Len(First(a, TaskLimit)) : First(a, TaskLimit)[k] = a[k]
          /\ Len(First(b, TaskLimit)) = (IF TaskLimit < Len(b) THEN TaskLimit ELSE Len(b))
          /\ \A k \in 1..Len(First(b, TaskLimit)) : First(b, TaskLimit)[k] = b[k]
      BY <1>1, <1>3, FirstIs
    <3>2. Len(a) \in Nat /\ Len(b) \in Nat
      BY <1>3
    <3> QED
      BY <1>1, <2>1, <3>1, <3>2
  <2>4. (\A k \in 1..Len(a) : a[k] \in Range(a)) /\ (\A k \in 1..Len(b) : b[k] \in Range(b))
    BY <1>3 DEF Range
  <2>5. ReturnedWereChecked'
    BY <1>7, <2>3, <2>4 DEF ReturnedWereChecked
  <2>6. FlagsRefusedWhole'
    BY DEF FlagsRefusedWhole
  <2> QED
    BY <2>1, <2>2, <2>5, <2>6 DEF CephInv, CephListsExact
<1> QED
  BY <1>5, <1>6, <1>7

\* Every step of normalising a Ceph response keeps the invariant.
LEMMA CephStep == CephInv /\ [CephNext]_cephVars => CephInv'
<1>1. SUFFICES ASSUME CephInv, [CephNext]_cephVars PROVE CephInv'
  OBVIOUS
<1>2. CASE UNCHANGED cephVars
  <2>1. CephListsExact'
    BY <1>1, <1>2
       DEF cephVars, CephInv, CephListsExact, TruncatedIsTheTruth, ReturnedWereChecked,
           FlagsRefusedWhole, Which, Shown
  <2> QED
    BY <1>1, <1>2, <2>1 DEF cephVars, CephInv
<1>3. CASE Normalize
  <2>1. cephVerdict = "responding" /\ UNCHANGED <<cephTool, cephLimit, entries, finished>>
        /\ cephTool \in CephTools
    BY <1>1, <1>3 DEF Normalize, CephInv
  <2>2. \/ cephTool = "status" /\ Status
        \/ cephTool = "metrics" /\ Metrics
        \/ cephTool = "osds" /\ OsdList(First(entries, cephLimit + 1))
        \/ cephTool = "devices" /\ OsdList(entries)
        \/ cephTool = "device" /\ Device
        \/ cephTool = "flags" /\ Flags
        \/ cephTool = "safe_to_destroy" /\ SafeToDestroy
        \/ cephTool = "tasks" /\ TaskLists
    BY <1>3, <2>1 DEF Normalize, CephTools
  <2> QED
    BY <1>1, <2>1, <2>2, StatusKeeps, MetricsKeep, OsdsKeep, DeviceKeeps, FlagsKeep, SafeKeeps, TasksKeep
<1> QED
  BY <1>1, <1>2, <1>3, RespondKeeps DEF CephNext

\* A Ceph answer holds the entries that were asked for, in the dashboard's order and within
\* the limit, says when it was cut, and is refused for a malformed entry
\* (ceph/normalize.rs:9-391), for all limits and every length of the lists.
THEOREM CephListsAreExact == CephSpec => []CephListsExact
<1>1. CephInv => CephListsExact
  BY DEF CephInv
<1> QED
  BY <1>1, CephInitHolds, CephStep, PTL DEF CephSpec

-----------------------------------------------------------------------------
\* Texts and lists of Kubernetes.

\* The size of a text is a number.
LEMMA BytesType == ASSUME NEW s \in Seq(Nat) PROVE Bytes(s) \in Nat
<1>1. DOMAIN s = 1..Len(s) /\ \A i \in 1..Len(s) : s[i] \in Nat
  OBVIOUS
<1>2. IsFiniteSet(1..Len(s))
  <2>1. 1 \in Int /\ Len(s) \in Int
    OBVIOUS
  <2> QED
    BY <2>1, FS_Interval
<1>3. SumFunctionOnSet(s, 1..Len(s)) \in Nat
  BY <1>1, <1>2, SumOfNaturals
<1> QED
  BY <1>1, <1>3 DEF Bytes, SumFunction

\* The first k characters of a text.
LEMMA PrefixIs ==
  ASSUME NEW s \in Seq(Nat), NEW k \in 0..Len(s)
  PROVE  /\ Prefix(s, k) \in Seq(Nat) /\ Len(Prefix(s, k)) = k
         /\ \A i \in 1..k : Prefix(s, k)[i] = s[i]
<1>1. k \in Nat /\ k <= Len(s)
  OBVIOUS
<1> QED
  BY <1>1 DEF Prefix

\* A prefix of a prefix is one of the text.
LEMMA PrefixOfPrefix ==
  ASSUME NEW s \in Seq(Nat), NEW n \in 0..Len(s), NEW k \in 0..n
  PROVE  Prefix(Prefix(s, n), k) = Prefix(s, k)
<1> DEFINE p == Prefix(s, n)
           a == Prefix(p, k)
           b == Prefix(s, k)
<1>1. p \in Seq(Nat) /\ Len(p) = n /\ \A i \in 1..n : p[i] = s[i]
  BY PrefixIs
<1>2. k \in 0..Len(p) /\ k \in 0..Len(s)
  BY <1>1
<1>3. b \in Seq(Nat) /\ Len(b) = k /\ \A i \in 1..k : b[i] = s[i]
  BY <1>2, PrefixIs
<1> HIDE DEF p
<1>4. a \in Seq(Nat) /\ Len(a) = k /\ \A i \in 1..k : a[i] = p[i]
  BY <1>1, <1>2, PrefixIs
<1> HIDE DEF a, b
<1>5. \A i \in 1..k : i \in 1..n
  OBVIOUS
<1>6. \A i \in 1..k : a[i] = b[i]
  BY <1>1, <1>3, <1>4, <1>5
<1>7. a = b
  BY <1>3, <1>4, <1>6
<1> QED
  BY <1>7 DEF a, b, p

\* No characters have no bytes.
LEMMA NoBytes == ASSUME NEW s \in Seq(Nat) PROVE Bytes(Prefix(s, 0)) = 0
<1>1. 0 \in 0..Len(s)
  OBVIOUS
<1>2. Prefix(s, 0) \in Seq(Nat) /\ Len(Prefix(s, 0)) = 0
  BY <1>1, PrefixIs
<1>3. DOMAIN Prefix(s, 0) = {}
  BY <1>2
<1> QED
  BY <1>3, SumOfEmpty DEF Bytes

\* One character more.
LEMMA BytesGrow ==
  ASSUME NEW s \in Seq(Nat), NEW k \in Nat, k < Len(s)
  PROVE  /\ Bytes(Prefix(s, k + 1)) = Bytes(Prefix(s, k)) + s[k + 1]
         /\ Bytes(Prefix(s, k)) \in Nat /\ s[k + 1] \in Nat
<1> DEFINE f == Prefix(s, k)
           g == Prefix(s, k + 1)
<1>1. k \in 0..Len(s) /\ k + 1 \in 0..Len(s)
  OBVIOUS
<1>2. f \in Seq(Nat) /\ Len(f) = k /\ \A i \in 1..k : f[i] = s[i]
  BY <1>1, PrefixIs
<1>3. g \in Seq(Nat) /\ Len(g) = k + 1 /\ \A i \in 1..(k + 1) : g[i] = s[i]
  BY <1>1, PrefixIs
<1> HIDE DEF f, g
<1>4. DOMAIN f = 1..k /\ DOMAIN g = 1..(k + 1)
  BY <1>2, <1>3
<1>5. (\A i \in 1..(k + 1) : g[i] \in Int) /\ (\A i \in 1..k : f[i] = g[i])
  <2>1. \A i \in 1..(k + 1) : g[i] \in Int
    BY <1>3
  <2>2. \A i \in 1..k : i \in 1..(k + 1)
    OBVIOUS
  <2>3. \A i \in 1..k : f[i] = g[i]
    BY <1>2, <1>3, <2>2
  <2> QED
    BY <2>1, <2>3
<1>6. SumFunction(g) = SumFunction(f) + g[k + 1]
  BY <1>4, <1>5, SumGrows
<1>7. Bytes(f) \in Nat
  BY <1>2, BytesType
<1>8. g[k + 1] = s[k + 1] /\ s[k + 1] \in Nat
  BY <1>3
<1> QED
  BY <1>6, <1>7, <1>8 DEF Bytes, f, g

\* More characters have no fewer bytes.
LEMMA MoreBytes ==
  ASSUME NEW s \in Seq(Nat), NEW k \in 0..Len(s), NEW n \in 0..Len(s), k <= n
  PROVE  Bytes(Prefix(s, k)) <= Bytes(Prefix(s, n))
<1> DEFINE T == {d \in Nat : k + d <= Len(s) => Bytes(Prefix(s, k)) <= Bytes(Prefix(s, k + d))}
<1>1. \A i \in 0..Len(s) : Bytes(Prefix(s, i)) \in Nat
  BY PrefixIs, BytesType
<1>2. 0 \in T
  <2>1. k + 0 = k
    OBVIOUS
  <2> QED
    BY <1>1, <2>1
<1>3. ASSUME NEW d \in Nat, d \in T PROVE d + 1 \in T
  <2>1. SUFFICES ASSUME k + (d + 1) <= Len(s)
                 PROVE  Bytes(Prefix(s, k)) <= Bytes(Prefix(s, k + (d + 1)))
    OBVIOUS
  <2>2. /\ k + d \in Nat /\ k + d < Len(s) /\ k + (d + 1) = (k + d) + 1
        /\ k + d \in 0..Len(s) /\ k \in 0..Len(s)
    BY <2>1
  <2>3. Bytes(Prefix(s, k)) <= Bytes(Prefix(s, k + d))
    BY <1>3, <2>2
  <2>4. /\ Bytes(Prefix(s, (k + d) + 1)) = Bytes(Prefix(s, k + d)) + s[(k + d) + 1]
        /\ s[(k + d) + 1] \in Nat
    BY <2>2, BytesGrow
  <2>5. Bytes(Prefix(s, k)) \in Nat /\ Bytes(Prefix(s, k + d)) \in Nat
    BY <1>1, <2>2
  <2> QED
    BY <2>2, <2>3, <2>4, <2>5
<1> HIDE DEF T
<1>4. \A d \in Nat : d \in T
  BY <1>2, <1>3, NatSetInduction
<1>5. n - k \in Nat /\ k + (n - k) = n /\ n <= Len(s)
  OBVIOUS
<1>6. n - k \in T
  BY <1>4, <1>5
<1> QED
  BY <1>5, <1>6 DEF T

\* There is a cut, and no later one.
LEMMA TruncationIs ==
  ASSUME NEW s \in Seq(Nat), NEW max \in Nat
  PROVE  /\ TruncateUtf8(s, max) \in 0..Len(s)
         /\ Bytes(Prefix(s, TruncateUtf8(s, max))) <= max
         /\ \/ TruncateUtf8(s, max) = Len(s)
            \/ Bytes(Prefix(s, TruncateUtf8(s, max) + 1)) > max
<1> DEFINE Good(k) == /\ Bytes(Prefix(s, k)) <= max
                      /\ k = Len(s) \/ Bytes(Prefix(s, k + 1)) > max
           T == {k \in Nat : k <= Len(s) /\ Bytes(Prefix(s, k)) <= max}
<1>1. \E k \in 0..Len(s) : Good(k)
  <2>1. SUFFICES ASSUME \A k \in 0..Len(s) : ~Good(k) PROVE FALSE
    OBVIOUS
  <2> DEFINE U == {k \in Nat : k <= Len(s) => Bytes(Prefix(s, k)) <= max}
  <2>2. 0 \in U
    BY NoBytes
  <2>3. ASSUME NEW k \in Nat, k \in U PROVE k + 1 \in U
    <3>1. SUFFICES ASSUME k + 1 <= Len(s) PROVE Bytes(Prefix(s, k + 1)) <= max
      OBVIOUS
    <3>2. k \in 0..Len(s) /\ k # Len(s) /\ k + 1 \in 0..Len(s)
      BY <3>1
    <3>3. Bytes(Prefix(s, k)) <= max
      BY <2>3, <3>2
    <3>4. ~(Bytes(Prefix(s, k + 1)) > max)
      BY <2>1, <3>2, <3>3
    <3>5. Bytes(Prefix(s, k + 1)) \in Nat
      BY <3>2, PrefixIs, BytesType
    <3> QED
      BY <3>4, <3>5
  <2> HIDE DEF U
  <2>4. \A k \in Nat : k \in U
    BY <2>2, <2>3, NatSetInduction
  <2>5. Len(s) \in Nat /\ Len(s) \in 0..Len(s)
    OBVIOUS
  <2>6. Bytes(Prefix(s, Len(s))) <= max
    BY <2>4, <2>5 DEF U
  <2> QED
    BY <2>1, <2>5, <2>6
<1>2. TruncateUtf8(s, max) = CHOOSE k \in 0..Len(s) : Good(k)
  BY DEF TruncateUtf8
<1>3. TruncateUtf8(s, max) \in 0..Len(s) /\ Good(TruncateUtf8(s, max))
  BY <1>1, <1>2
<1> QED
  BY <1>3

Results == [message : BOOLEAN, kept : Nat, truncated : BOOLEAN]
Size(m, e) == Bytes(Prefix(m.chars, e.kept))
Sized(src, events, n) == Bytes([j \in 1..n |-> Size(src[j], events[j])])

\* A message is a sequence of characters of at least one byte.
LEMMA MessageIs ==
  ASSUME NEW m \in Messages
  PROVE  m.chars \in Seq(Nat) /\ \A i \in 1..Len(m.chars) : m.chars[i] \in Nat /\ m.chars[i] >= 1
<1>1. PICK n \in 0..MaxChars : m \in [chars : [1..n -> {1, 2}], control : 0..n]
  BY DEF Messages
<1>2. n \in Nat
  BY <1>1, SizesAssumption
<1> DEFINE c == m.chars
<1>3. c \in [1..n -> {1, 2}]
  BY <1>1
<1> HIDE DEF c
<1>4. c \in [1..n -> Nat] /\ \A i \in 1..n : c[i] \in Nat /\ c[i] >= 1
  BY <1>3
<1>5. c \in Seq(Nat) /\ Len(c) = n
  BY <1>2, <1>4
<1> QED
  BY <1>4, <1>5 DEF c

\* The size of what is kept of a message is a number.
LEMMA SizeType ==
  ASSUME NEW m \in Messages, NEW e \in Results, e.kept <= Len(m.chars)
  PROVE  Size(m, e) \in Nat
<1>1. m.chars \in Seq(Nat) /\ e.kept \in 0..Len(m.chars)
  BY MessageIs DEF Results
<1> QED
  BY <1>1, PrefixIs, BytesType DEF Size

\* What an event keeps of its message fits the bound of one message.
LEMMA EventIs ==
  ASSUME NEW m \in Messages
  PROVE  /\ Event(m) \in Results /\ Event(m).kept \in 0..Len(m.chars)
         /\ Size(m, Event(m)) <= MaxMessage
         /\ ~Event(m).message => Event(m).kept = 0 /\ ~Event(m).truncated
         /\ Event(m).message => Event(m).truncated = (Event(m).kept < Len(m.chars))
<1> DEFINE c == m.chars
           k == TruncateUtf8(c, MaxMessage)
           without == [message |-> FALSE, kept |-> 0, truncated |-> FALSE]
           with == [message |-> TRUE, kept |-> k, truncated |-> k < Len(c)]
<1>1. c \in Seq(Nat) /\ MaxMessage \in Nat
  BY MessageIs, SizesAssumption
<1>2. k \in 0..Len(c) /\ Bytes(Prefix(c, k)) <= MaxMessage
  BY <1>1, TruncationIs
<1>3. Event(m) = without \/ Event(m) = with
  BY DEF Event
<1>4. Bytes(Prefix(c, 0)) = 0
  BY <1>1, NoBytes
<1> HIDE DEF c, k
<1>5. CASE Event(m) = without
  <2>1. /\ Event(m).message = FALSE /\ Event(m).kept = 0 /\ Event(m).truncated = FALSE
        /\ Event(m) \in Results
    BY <1>5 DEF Results
  <2>2. Size(m, Event(m)) = 0
    BY <1>4, <2>1 DEF Size, c
  <2> QED
    BY <1>1, <2>1, <2>2 DEF c
<1>6. CASE Event(m) = with
  <2>1. /\ Event(m).message = TRUE /\ Event(m).kept = k /\ Event(m).truncated = (k < Len(c))
        /\ Event(m) \in Results
    BY <1>1, <1>2, <1>6 DEF Results
  <2>2. Size(m, Event(m)) = Bytes(Prefix(c, k))
    BY <2>1 DEF Size, c
  <2> QED
    BY <1>2, <2>1, <2>2 DEF c
<1> QED
  BY <1>3, <1>5, <1>6

\* An event's message under the budget that is left.
LEMMA BoundIs ==
  ASSUME NEW m \in Messages, left \in Nat
  PROVE  /\ Bound(Event(m), m.chars).event \in Results
         /\ Bound(Event(m), m.chars).event.kept <= Event(m).kept
         /\ Size(m, Bound(Event(m), m.chars).event) <= left
         /\ Bound(Event(m), m.chars).event.truncated
              = (Event(m).message /\ ( \/ ~Bound(Event(m), m.chars).event.message
                                       \/ Bound(Event(m), m.chars).event.kept < Len(m.chars)))
         /\ Bound(Event(m), m.chars).cut
              = (Event(m).message /\ ( \/ ~Bound(Event(m), m.chars).event.message
                                       \/ Bound(Event(m), m.chars).event.kept < Event(m).kept))
         /\ Bound(Event(m), m.chars).event.kept < Event(m).kept =>
              Size(m, Bound(Event(m), m.chars).event)
                + m.chars[Bound(Event(m), m.chars).event.kept + 1] > left
<1> DEFINE e == Event(m)
           c == m.chars
           p == Prefix(c, e.kept)
           k == TruncateUtf8(p, left)
           b == Bound(e, c)
           none == [message |-> FALSE, kept |-> 0, truncated |-> TRUE]
           some == [e EXCEPT !.kept = k, !.truncated = @ \/ k < e.kept]
<1>1. /\ c \in Seq(Nat) /\ \A i \in 1..Len(c) : c[i] \in Nat /\ c[i] >= 1
      /\ e \in Results /\ e.kept \in 0..Len(c) /\ Len(c) \in Nat
      /\ ~e.message => e.kept = 0 /\ ~e.truncated
      /\ e.message => e.truncated = (e.kept < Len(c))
  BY MessageIs, EventIs
<1>2. Bytes(Prefix(c, 0)) = 0
  BY <1>1, NoBytes
<1>3. \/ ~e.message /\ b = [event |-> e, cut |-> FALSE]
      \/ e.message /\ left = 0 /\ b = [event |-> none, cut |-> TRUE]
      \/ e.message /\ b = [event |-> some, cut |-> k < e.kept]
  BY DEF Bound
<1> SUFFICES /\ b.event \in Results /\ b.event.kept <= e.kept
             /\ Bytes(Prefix(c, b.event.kept)) <= left
             /\ b.event.truncated = (e.message /\ (~b.event.message \/ b.event.kept < Len(c)))
             /\ b.cut = (e.message /\ (~b.event.message \/ b.event.kept < e.kept))
             /\ b.event.kept < e.kept =>
                  Bytes(Prefix(c, b.event.kept)) + c[b.event.kept + 1] > left
  BY DEF Size
<1>4. p \in Seq(Nat) /\ Len(p) = e.kept
  BY <1>1, PrefixIs
<1>5. /\ k \in 0..e.kept /\ Bytes(Prefix(p, k)) <= left
      /\ k = e.kept \/ Bytes(Prefix(p, k + 1)) > left
  <2> HIDE DEF p
  <2> QED
    BY <1>4, TruncationIs
<1>6. Prefix(p, k) = Prefix(c, k)
  <2> HIDE DEF k
  <2> QED
    BY <1>1, <1>5, PrefixOfPrefix
<1>7. k < e.kept => Bytes(Prefix(c, k)) + c[k + 1] > left
  <2>1. SUFFICES ASSUME k < e.kept PROVE Bytes(Prefix(c, k)) + c[k + 1] > left
    OBVIOUS
  <2> HIDE DEF k, e, c
  <2>2. k \in Nat /\ k < Len(c) /\ k + 1 \in 0..e.kept
    BY <1>1, <1>5, <2>1
  <2>3. Prefix(p, k + 1) = Prefix(c, k + 1)
    BY <1>1, <2>2, PrefixOfPrefix
  <2>4. Bytes(Prefix(c, k + 1)) = Bytes(Prefix(c, k)) + c[k + 1]
    BY <1>1, <2>2, BytesGrow
  <2> HIDE DEF p
  <2>5. Bytes(Prefix(p, k + 1)) > left
    BY <1>5, <2>1, <2>2
  <2> QED
    BY <2>3, <2>4, <2>5
<1> HIDE DEF e, c, p, k, b
<1>8. CASE ~e.message /\ b = [event |-> e, cut |-> FALSE]
  <2>1. b.event = e /\ b.cut = FALSE /\ e.kept = 0 /\ ~e.truncated
    BY <1>1, <1>8
  <2>2. e.truncated = FALSE /\ e.kept <= e.kept
    BY <1>1, <2>1 DEF Results
  <2>3. ~(e.kept < e.kept) /\ e.kept <= e.kept
    BY <2>1
  <2>4. e.truncated = (e.message /\ (~e.message \/ e.kept < Len(c)))
    BY <1>8, <2>2
  <2>5. FALSE = (e.message /\ (~e.message \/ e.kept < e.kept))
    BY <1>8
  <2>6. Bytes(Prefix(c, e.kept)) <= left
    BY <1>2, <2>1
  <2> QED
    BY <1>1, <2>1, <2>3, <2>4, <2>5, <2>6
<1>9. CASE e.message /\ left = 0 /\ b = [event |-> none, cut |-> TRUE]
  <2>1. /\ b.event = none /\ b.cut = TRUE /\ none \in Results
        /\ none.message = FALSE /\ none.kept = 0 /\ none.truncated = TRUE
    BY <1>9 DEF Results
  <2>2. 0 < e.kept => c[0 + 1] >= 1 /\ c[0 + 1] \in Nat
    BY <1>1
  <2>3. 0 <= e.kept
    BY <1>1
  <2> HIDE DEF none
  <2>4. Bytes(Prefix(c, none.kept)) <= left
    BY <1>2, <2>1
  <2>5. none.truncated = (e.message /\ (~none.message \/ none.kept < Len(c)))
    BY <1>9, <2>1
  <2>6. TRUE = (e.message /\ (~none.message \/ none.kept < e.kept))
    BY <1>9, <2>1
  <2>7. none.kept < e.kept => Bytes(Prefix(c, none.kept)) + c[none.kept + 1] > left
    BY <1>2, <1>9, <2>1, <2>2
  <2>8. none.kept <= e.kept
    BY <2>1, <2>3
  <2> QED
    BY <2>1, <2>4, <2>5, <2>6, <2>7, <2>8
<1>10. CASE e.message /\ b = [event |-> some, cut |-> k < e.kept]
  <2>1. b.event = some /\ b.cut = (k < e.kept)
    BY <1>10
  <2>2. /\ some \in Results /\ some.message = TRUE /\ some.kept = k
        /\ some.truncated = (e.truncated \/ k < e.kept)
    <3>1. e = [message |-> e.message, kept |-> e.kept, truncated |-> e.truncated]
          /\ e.message = TRUE /\ e.truncated \in BOOLEAN
      BY <1>1, <1>10 DEF Results
    <3>2. k \in Nat
      BY <1>1, <1>5
    <3> QED
      BY <1>1, <3>1, <3>2 DEF Results
  <2> HIDE DEF some
  <2>3. e.truncated = (e.kept < Len(c))
    BY <1>1, <1>10
  <2>4. (e.truncated \/ k < e.kept) <=> k < Len(c)
    <3>1. k \in Int /\ e.kept \in Int /\ Len(c) \in Int /\ k <= e.kept /\ e.kept <= Len(c)
      BY <1>1, <1>5
    <3>2. e.truncated <=> e.kept < Len(c)
      BY <2>3
    <3>3. (e.kept < Len(c) \/ k < e.kept) <=> k < Len(c)
      BY <3>1
    <3> QED
      BY <3>2, <3>3
  <2>5. some.truncated = (k < Len(c))
    <3>1. some.truncated \in BOOLEAN
      BY <2>2 DEF Results
    <3> QED
      BY <2>2, <2>4, <3>1
  <2>6. k <= e.kept
    BY <1>1, <1>5
  <2> QED
    BY <1>5, <1>6, <1>7, <1>10, <2>1, <2>2, <2>5, <2>6
<1> QED
  BY <1>3, <1>8, <1>9, <1>10

\* One message more adds what is kept of it.
LEMMA SizedGrows ==
  ASSUME NEW src, NEW kept_, NEW n \in Nat,
         \A j \in 1..(n + 1) : Size(src[j], kept_[j]) \in Nat
  PROVE  /\ Sized(src, kept_, n + 1) = Sized(src, kept_, n) + Size(src[n + 1], kept_[n + 1])
         /\ Sized(src, kept_, n) \in Nat
<1> DEFINE f == [j \in 1..n |-> Size(src[j], kept_[j])]
           g == [j \in 1..(n + 1) |-> Size(src[j], kept_[j])]
<1>1. n + 1 \in 1..(n + 1) /\ \A j \in 1..n : j \in 1..(n + 1)
  OBVIOUS
<1>2. /\ DOMAIN f = 1..n /\ DOMAIN g = 1..(n + 1)
      /\ \A j \in 1..(n + 1) : g[j] \in Int
      /\ \A j \in 1..n : f[j] = g[j]
      /\ g[n + 1] = Size(src[n + 1], kept_[n + 1])
  BY <1>1
<1>3. f \in Seq(Nat)
  BY <1>1
<1> HIDE DEF f, g
<1>4. SumFunction(g) = SumFunction(f) + g[n + 1]
  BY <1>2, SumGrows
<1>5. Bytes(f) \in Nat
  BY <1>3, BytesType
<1> QED
  BY <1>2, <1>4, <1>5 DEF f, g, Sized, Bytes

\* The sum depends only on what is kept.
LEMMA SizedAgrees ==
  ASSUME NEW src, NEW a, NEW b, NEW n \in Nat, \A j \in 1..n : a[j] = b[j]
  PROVE  Sized(src, a, n) = Sized(src, b, n)
<1>1. \A j \in 1..n : Size(src[j], a[j]) = Size(src[j], b[j])
  OBVIOUS
<1>2. [j \in 1..n |-> Size(src[j], a[j])] = [j \in 1..n |-> Size(src[j], b[j])]
  BY <1>1
<1> QED
  BY <1>2 DEF Sized

\* No messages have no size.
LEMMA SizedOfNone == ASSUME NEW src, NEW a PROVE Sized(src, a, 0) = 0
<1>1. DOMAIN [j \in 1..0 |-> Size(src[j], a[j])] = {}
  OBVIOUS
<1> QED
  BY <1>1, SumOfEmpty DEF Sized, Bytes

\* What an event has become of: cut no earlier than the budget asked, and telling so.
Cut(m, e, spent) ==
  /\ e \in Results /\ e.kept <= Event(m).kept
  /\ e.truncated = (Event(m).message /\ (~e.message \/ e.kept < Len(m.chars)))
  /\ e.kept < Event(m).kept => spent + m.chars[e.kept + 1] > Budget

Taken(m, e) == Event(m).message /\ (~e.message \/ e.kept < Event(m).kept)

EventsInv ==
  /\ source \in Seq(Messages) /\ out \in Seq(Results)
  /\ Len(out) = Len(source) /\ Len(source) <= MaxEvents
  /\ pos \in Nat /\ pos <= Len(out) + 1 /\ left \in Nat
  /\ \A i \in 1..Len(out) : pos = 0 \/ pos <= i => out[i] = Event(source[i])
  /\ \A i \in 1..Len(out) : i < pos => Cut(source[i], out[i], Sized(source, out, i))
  /\ pos = 0 => left = Budget
  /\ pos > 0 => left + Sized(source, out, pos - 1) = Budget
  /\ kubeTruncated = \E i \in 1..Len(out) : i < pos /\ Taken(source[i], out[i])

\* Each event that was read has a size, and keeps no more than it may.
LEMMA EventSizes ==
  ASSUME EventsInv, NEW i \in 1..Len(out)
  PROVE  source[i] \in Messages /\ out[i] \in Results /\ Size(source[i], out[i]) \in Nat
         /\ out[i].kept <= Event(source[i]).kept
<1>1. /\ source[i] \in Messages /\ out[i] \in Results /\ i \in Nat /\ pos \in Nat
      /\ pos = 0 \/ pos <= i => out[i] = Event(source[i])
      /\ i < pos => out[i].kept <= Event(source[i]).kept
  BY DEF EventsInv, Cut
<1>2. Event(source[i]) \in Results /\ Event(source[i]).kept \in 0..Len(source[i].chars)
  BY <1>1, EventIs
<1>3. out[i].kept \in Nat /\ Event(source[i]).kept \in Nat /\ Len(source[i].chars) \in Nat
  <2>1. Len(source[i].chars) \in Nat
    BY <1>1, MessageIs
  <2> QED
    BY <1>1, <1>2, <2>1 DEF Results
<1>4. out[i].kept <= Event(source[i]).kept
  BY <1>1, <1>3
<1>5. out[i].kept <= Len(source[i].chars)
  BY <1>2, <1>3, <1>4
<1> QED
  BY <1>1, <1>4, <1>5, SizeType

\* ReadEvent keeps the invariant.
LEMMA ReadEventKeeps ==
  ASSUME EventsInv, ReadEvent
  PROVE  EventsInv'
<1>1. /\ pos = 0 /\ Len(source) < MaxEvents
      /\ UNCHANGED <<loop, details, pos, left, kubeTotal, kubeTruncated>>
  BY DEF ReadEvent
<1>2. CASE UNCHANGED <<source, out>>
  BY <1>1, <1>2 DEF EventsInv, Taken
<1>3. ASSUME NEW m \in Messages, source' = Append(source, m), out' = Append(out, Event(m))
      PROVE  EventsInv'
  <2>1. /\ source \in Seq(Messages) /\ out \in Seq(Results) /\ Len(out) = Len(source)
        /\ Len(source) \in Nat /\ MaxEvents \in Nat /\ left \in Nat /\ left = Budget
        /\ \A i \in 1..Len(out) : out[i] = Event(source[i])
        /\ kubeTruncated = \E i \in 1..Len(out) : i < pos /\ Taken(source[i], out[i])
    BY <1>1, SizesAssumption DEF EventsInv
  <2>2. Event(m) \in Results
    BY <1>3, EventIs
  <2>3. /\ source' \in Seq(Messages) /\ out' \in Seq(Results)
        /\ Len(source') = Len(source) + 1 /\ Len(out') = Len(out) + 1
        /\ \A i \in 1..Len(out) : source'[i] = source[i] /\ out'[i] = out[i]
        /\ source'[Len(out) + 1] = m /\ out'[Len(out) + 1] = Event(m)
    BY <1>3, <2>1, <2>2
  <2>4. \A i \in 1..Len(out') : out'[i] = Event(source'[i])
    BY <2>1, <2>3
  <2>5. \A i \in 1..Len(out) : ~(i < pos)
    BY <1>1
  <2>6. \A i \in 1..Len(out') : ~(i < pos')
    BY <1>1, <2>1, <2>3
  <2>7. kubeTruncated' = FALSE
    BY <1>1, <2>1, <2>5
  <2>8. kubeTruncated' = \E i \in 1..Len(out') : i < pos' /\ Taken(source'[i], out'[i])
    BY <2>6, <2>7
  <2>9. Len(source') <= MaxEvents /\ pos' \in Nat /\ pos' <= Len(out') + 1 /\ ~(pos' > 0)
    BY <1>1, <2>1, <2>3
  <2> QED
    BY <1>1, <2>1, <2>3, <2>4, <2>6, <2>8, <2>9 DEF EventsInv
<1> QED
  BY <1>2, <1>3 DEF ReadEvent

\* BeginBound keeps the invariant.
LEMMA BeginKeeps == ASSUME EventsInv, BeginBound PROVE EventsInv'
<1>1. pos = 0 /\ pos' = 1 /\ UNCHANGED <<source, out, left, kubeTruncated>>
  BY DEF BeginBound
<1>2. /\ Len(out) \in Nat /\ left = Budget /\ left \in Nat
      /\ \A i \in 1..Len(out) : ~(i < pos) /\ ~(i < 1)
      /\ \A i \in 1..Len(out) : out[i] = Event(source[i])
      /\ kubeTruncated = \E i \in 1..Len(out) : i < pos /\ Taken(source[i], out[i])
  BY <1>1 DEF EventsInv
<1>3. kubeTruncated' = FALSE
  BY <1>1, <1>2
<1>4. kubeTruncated' = \E i \in 1..Len(out') : i < pos' /\ Taken(source'[i], out'[i])
  BY <1>1, <1>2, <1>3
<1>5. left' + Sized(source', out', pos' - 1) = Budget
  <2>1. Sized(source', out', 0) = 0
    BY SizedOfNone
  <2>2. pos' - 1 = 0
    BY <1>1
  <2> QED
    BY <1>1, <1>2, <2>1, <2>2
<1>6. pos' \in Nat /\ pos' <= Len(out') + 1 /\ pos' # 0
  BY <1>1, <1>2
<1> QED
  BY <1>1, <1>2, <1>4, <1>5, <1>6 DEF EventsInv

\* BoundNext keeps the invariant.
LEMMA BoundKeeps == ASSUME EventsInv, BoundNext PROVE EventsInv'
<1> DEFINE p == pos
           m == source[p]
           b == Bound(Event(m), m.chars)
<1>1. /\ p \in 1..Len(out) /\ p \in Nat /\ pos' = p + 1 /\ UNCHANGED source
      /\ source \in Seq(Messages) /\ out \in Seq(Results) /\ Len(out) = Len(source)
      /\ Len(source) <= MaxEvents /\ left \in Nat
      /\ m \in Messages /\ out[p] = Event(m) /\ Len(out) \in Nat
  BY DEF BoundNext, EventsInv
<1>2. /\ out' = [out EXCEPT ![p] = b.event]
      /\ left' = left - Size(m, b.event)
      /\ kubeTruncated' = (kubeTruncated \/ b.cut)
  BY <1>1 DEF BoundNext, Size
<1>3. /\ b.event \in Results /\ b.event.kept <= Event(m).kept
      /\ Size(m, b.event) <= left
      /\ b.event.truncated = (Event(m).message /\ (~b.event.message \/ b.event.kept < Len(m.chars)))
      /\ b.cut = (Event(m).message /\ (~b.event.message \/ b.event.kept < Event(m).kept))
      /\ b.event.kept < Event(m).kept => Size(m, b.event) + m.chars[b.event.kept + 1] > left
  BY <1>1, BoundIs
<1>4. Size(m, b.event) \in Nat
  <2>1. Event(m).kept \in 0..Len(m.chars) /\ b.event.kept \in Nat /\ Len(m.chars) \in Nat
    BY <1>1, <1>3, EventIs, MessageIs DEF Results
  <2>2. b.event.kept <= Len(m.chars)
    BY <1>3, <2>1
  <2> QED
    BY <1>1, <1>3, <2>2, SizeType
<1> HIDE DEF b
<1>5. /\ out' \in Seq(Results) /\ Len(out') = Len(out) /\ out'[p] = b.event
      /\ \A i \in 1..Len(out) : i # p => out'[i] = out[i]
  BY <1>1, <1>2, <1>3
<1>6. \A j \in 1..p : Size(source[j], out'[j]) \in Nat
  <2>1. SUFFICES ASSUME NEW j \in 1..p PROVE Size(source[j], out'[j]) \in Nat
    OBVIOUS
  <2>2. j \in 1..Len(out)
    BY <1>1
  <2>3. Size(source[j], out[j]) \in Nat
    BY <2>2, EventSizes
  <2> QED
    BY <1>4, <1>5, <2>2, <2>3
<1>7. /\ Sized(source, out', p) = Sized(source, out', p - 1) + Size(m, b.event)
      /\ Sized(source, out', p - 1) \in Nat
  <2>1. p - 1 \in Nat /\ (p - 1) + 1 = p
    BY <1>1
  <2> DEFINE n == p - 1
  <2>2. n \in Nat /\ n + 1 = p
    BY <2>1
  <2> HIDE DEF n, p
  <2>3. \A j \in 1..(n + 1) : Size(source[j], out'[j]) \in Nat
    BY <1>6, <2>2
  <2>4. Sized(source, out', n + 1) = Sized(source, out', n) + Size(source[n + 1], out'[n + 1])
        /\ Sized(source, out', n) \in Nat
    BY <2>2, <2>3, SizedGrows
  <2>5. Size(source[n + 1], out'[n + 1]) = Size(m, b.event)
    BY <1>5, <2>2
  <2> QED
    BY <2>2, <2>4, <2>5 DEF n
<1>8. \A i \in 0..(p - 1) : Sized(source, out', i) = Sized(source, out, i)
  <2>1. SUFFICES ASSUME NEW i \in 0..(p - 1) PROVE Sized(source, out', i) = Sized(source, out, i)
    OBVIOUS
  <2>2. i \in Nat /\ \A j \in 1..i : j \in 1..Len(out) /\ j # p
    BY <1>1
  <2>3. \A j \in 1..i : out'[j] = out[j]
    BY <1>5, <2>2
  <2> QED
    BY <2>2, <2>3, SizedAgrees
<1>9. left + Sized(source, out, p - 1) = Budget
  BY <1>1 DEF EventsInv
<1>10. left' \in Nat /\ left' + Sized(source, out', p) = Budget
  <2>1. Sized(source, out', p - 1) = Sized(source, out, p - 1)
    <3>1. p - 1 \in 0..(p - 1)
      BY <1>1
    <3> QED
      BY <1>8, <3>1
  <2> QED
    BY <1>1, <1>2, <1>3, <1>4, <1>7, <1>9, <2>1
<1>11. Cut(m, b.event, Sized(source, out', p))
  <2>1. SUFFICES ASSUME b.event.kept < Event(m).kept
                 PROVE  Sized(source, out', p) + m.chars[b.event.kept + 1] > Budget
    BY <1>3 DEF Cut
  <2>2. Size(m, b.event) + m.chars[b.event.kept + 1] > left
    BY <1>3, <2>1
  <2>3. m.chars[b.event.kept + 1] \in Nat
    <3>0. m \in Messages /\ b.event \in Results
      BY <1>1, <1>3
    <3> HIDE DEF m
    <3>1. Event(m).kept \in 0..Len(m.chars) /\ b.event.kept \in Nat /\ Len(m.chars) \in Nat
          /\ \A i \in 1..Len(m.chars) : m.chars[i] \in Nat
      <4>1. Event(m).kept \in 0..Len(m.chars)
        BY <3>0, EventIs
      <4>2. Len(m.chars) \in Nat /\ \A i \in 1..Len(m.chars) : m.chars[i] \in Nat
        BY <3>0, MessageIs
      <4>3. b.event.kept \in Nat
        BY <3>0 DEF Results
      <4> QED
        BY <4>1, <4>2, <4>3
    <3>2. b.event.kept + 1 \in 1..Len(m.chars)
      BY <2>1, <3>1
    <3> QED
      BY <3>1, <3>2
  <2>4. left' = left - Size(m, b.event) /\ left' + Sized(source, out', p) = Budget
    BY <1>2, <1>10
  <2>5. Sized(source, out', p) \in Nat
    BY <1>4, <1>7
  <2> DEFINE z == Sized(source, out', p)
             c == m.chars[b.event.kept + 1]
             u == Size(m, b.event)
  <2>6. /\ z \in Nat /\ c \in Nat /\ u \in Nat /\ left \in Nat
        /\ (left - u) + z = Budget /\ u + c > left
    BY <1>1, <1>4, <2>2, <2>3, <2>4, <2>5
  <2> HIDE DEF z, c, u
  <2>7. z + c > Budget
    BY <2>6
  <2> QED
    BY <2>7 DEF z, c
<1>12. \A i \in 1..Len(out) : i < p => Cut(source[i], out'[i], Sized(source, out', i))
  <2>1. SUFFICES ASSUME NEW i \in 1..Len(out), i < p
                 PROVE  Cut(source[i], out'[i], Sized(source, out', i))
    OBVIOUS
  <2>2. i \in 0..(p - 1) /\ i # p
    BY <1>1, <2>1
  <2>3. out'[i] = out[i] /\ Sized(source, out', i) = Sized(source, out, i)
    BY <1>5, <1>8, <2>1, <2>2
  <2>4. Cut(source[i], out[i], Sized(source, out, i))
    BY <2>1 DEF EventsInv
  <2> QED
    BY <2>3, <2>4
<1>13. \A i \in 1..Len(out') : i < pos' => Cut(source[i], out'[i], Sized(source, out', i))
  <2>1. SUFFICES ASSUME NEW i \in 1..Len(out), i < p + 1
                 PROVE  Cut(source[i], out'[i], Sized(source, out', i))
    BY <1>1, <1>5
  <2>2. i = p \/ i < p
    BY <1>1, <2>1
  <2> QED
    BY <1>5, <1>11, <1>12, <2>1, <2>2
<1>14. \A i \in 1..Len(out') : pos' <= i => out'[i] = Event(source[i])
  <2>1. SUFFICES ASSUME NEW i \in 1..Len(out), p + 1 <= i PROVE out'[i] = Event(source[i])
    BY <1>1, <1>5
  <2>2. i # p /\ p <= i
    BY <1>1, <2>1
  <2>3. out[i] = Event(source[i])
    BY <2>1, <2>2 DEF EventsInv
  <2> QED
    BY <1>5, <2>2, <2>3
<1>15. kubeTruncated' = \E i \in 1..Len(out') : i < pos' /\ Taken(source'[i], out'[i])
  <2>1. b.cut <=> Taken(m, out'[p])
    BY <1>1, <1>3, <1>5 DEF Taken
  <2>2. \A i \in 1..Len(out) : i < p => (Taken(source'[i], out'[i]) <=> Taken(source[i], out[i]))
    BY <1>1, <1>5 DEF Taken
  <2>3. kubeTruncated <=> \E i \in 1..Len(out) : i < p /\ Taken(source[i], out[i])
    BY DEF EventsInv
  <2>4. \A i \in 1..Len(out) : i < p + 1 <=> (i < p \/ i = p)
    BY <1>1
  <2>5. (\E i \in 1..Len(out) : i < p + 1 /\ Taken(source'[i], out'[i])) <=> (kubeTruncated \/ b.cut)
    <3>1. p \in 1..Len(out) /\ source'[p] = m
      BY <1>1
    <3> HIDE DEF p, m
    <3> QED
      BY <2>1, <2>2, <2>3, <2>4, <3>1
  <2>6. kubeTruncated' <=> (kubeTruncated \/ b.cut)
    BY <1>2
  <2>7. kubeTruncated' \in BOOLEAN
    BY <1>2
  <2> QED
    BY <1>1, <1>5, <2>5, <2>6, <2>7
<1>16. /\ pos' \in Nat /\ pos' <= Len(out') + 1 /\ pos' > 0 /\ pos' # 0 /\ pos' - 1 = p
       /\ Len(source') <= MaxEvents /\ Len(out') = Len(source')
  BY <1>1, <1>5
<1> QED
  BY <1>1, <1>5, <1>10, <1>13, <1>14, <1>15, <1>16 DEF EventsInv

\* When every event was bound, the lists are what they should be.
LEMMA EventsSound ==
  ASSUME EventsInv, pos = Len(out) + 1
  PROVE  /\ Bytes([i \in 1..Len(out) |-> KubeSize(i)]) <= Budget
         /\ \A i \in 1..Len(out) : KubeSize(i) <= MaxMessage
         /\ \A i \in 1..Len(out) :
              /\ out[i].truncated = ( /\ Event(source[i]).message
                                      /\ ~out[i].message \/ out[i].kept < Len(source[i].chars) )
              /\ out[i].kept < Event(source[i]).kept =>
                   Bytes([j \in 1..i |-> KubeSize(j)]) + source[i].chars[out[i].kept + 1] > Budget
         /\ kubeTruncated = \E i \in 1..Len(out) : Taken(source[i], out[i])
<1>1. Len(out) \in Nat /\ left \in Nat /\ pos \in Nat
  BY DEF EventsInv
<1>2. \A n \in Nat : [i \in 1..n |-> KubeSize(i)] = [i \in 1..n |-> Size(source[i], out[i])]
  BY DEF KubeSize, Size
<1>3. \A n \in Nat : Bytes([i \in 1..n |-> KubeSize(i)]) = Sized(source, out, n)
  BY <1>2 DEF Sized
<1>4. Sized(source, out, Len(out)) <= Budget
  <2>1. pos > 0 /\ pos - 1 = Len(out)
    BY <1>1
  <2>2. left + Sized(source, out, Len(out)) = Budget
    BY <2>1 DEF EventsInv
  <2>3. Sized(source, out, Len(out)) \in Nat
    <3>1. \A i \in 1..Len(out) : Size(source[i], out[i]) \in Nat
      BY EventSizes
    <3>2. [i \in 1..Len(out) |-> Size(source[i], out[i])] \in Seq(Nat)
      BY <1>1, <3>1
    <3> QED
      BY <3>2, BytesType DEF Sized
  <2>4. Budget \in Nat
    BY SizesAssumption
  <2> QED
    BY <1>1, <2>2, <2>3, <2>4
<1>5. \A i \in 1..Len(out) : i < pos
  BY <1>1
<1>6. \A i \in 1..Len(out) : Cut(source[i], out[i], Sized(source, out, i))
  BY <1>5 DEF EventsInv
<1>7. ASSUME NEW i \in 1..Len(out) PROVE KubeSize(i) <= MaxMessage
  <2> DEFINE c == source[i].chars
             k == out[i].kept
             n == Event(source[i]).kept
  <2>1. source[i] \in Messages /\ out[i] \in Results /\ k <= n
    BY EventSizes
  <2>2. c \in Seq(Nat) /\ n \in 0..Len(c) /\ k \in Nat
    BY <2>1, MessageIs, EventIs DEF Results
  <2>3. k \in 0..Len(c) /\ Len(c) \in Nat
    BY <2>1, <2>2
  <2>4. Size(source[i], Event(source[i])) <= MaxMessage
    BY <2>1, EventIs
  <2>5. Bytes(Prefix(c, n)) <= MaxMessage
    BY <2>4 DEF Size
  <2>6. KubeSize(i) = Bytes(Prefix(c, k))
    BY DEF KubeSize
  <2> HIDE DEF c, k, n
  <2>7. Bytes(Prefix(c, k)) <= Bytes(Prefix(c, n))
    BY <2>1, <2>2, <2>3, MoreBytes
  <2>8. Bytes(Prefix(c, k)) \in Nat /\ Bytes(Prefix(c, n)) \in Nat /\ MaxMessage \in Nat
    BY <2>2, <2>3, PrefixIs, BytesType, SizesAssumption
  <2> QED
    BY <2>5, <2>6, <2>7, <2>8
<1>8. ASSUME NEW i \in 1..Len(out)
      PROVE  /\ out[i].truncated = ( /\ Event(source[i]).message
                                     /\ ~out[i].message \/ out[i].kept < Len(source[i].chars) )
             /\ out[i].kept < Event(source[i]).kept =>
                  Bytes([j \in 1..i |-> KubeSize(j)]) + source[i].chars[out[i].kept + 1] > Budget
  <2>1. i \in Nat
    OBVIOUS
  <2>2. Bytes([j \in 1..i |-> KubeSize(j)]) = Sized(source, out, i)
    BY <1>3, <2>1
  <2> QED
    BY <1>6, <2>2 DEF Cut
<1>9. kubeTruncated = \E i \in 1..Len(out) : Taken(source[i], out[i])
  <2>1. kubeTruncated = \E i \in 1..Len(out) : i < pos /\ Taken(source[i], out[i])
    BY DEF EventsInv
  <2>2. (\E i \in 1..Len(out) : i < pos /\ Taken(source[i], out[i])) <=> \E i \in 1..Len(out) : Taken(source[i], out[i])
    BY <1>5
  <2> QED
    BY <2>1, <2>2
<1>10. Bytes([i \in 1..Len(out) |-> KubeSize(i)]) <= Budget
  BY <1>1, <1>3, <1>4
<1> QED
  BY <1>7, <1>8, <1>9, <1>10

StatusEntries == [group : 1..Len(Groups), ok : BOOLEAN, restarts : Restarts]
RestartSum(src) == SumFunction([i \in 1..Len(src) |-> src[i].restarts])
Saturated(n) == IF n > MaxCount THEN MaxCount ELSE n

\* The good ones among the first, in their order.
KeptInv ==
  /\ out \in Seq(Nat) /\ Len(out) <= Len(source) /\ Len(out) <= Cap
  /\ ToSet(out) = {i \in 1..Len(source) : source[i].ok /\ i <= Cap}
  /\ \A i, j \in 1..Len(out) : i < j => out[i] < out[j]

StatusesInv ==
  /\ source \in Seq(StatusEntries) /\ KeptInv
  /\ kubeTruncated = (Len(source) > Cap)
  /\ RestartSum(source) \in Nat /\ kubeTotal = Saturated(RestartSum(source))

ConditionsInv == source \in Seq([ok : BOOLEAN]) /\ KeptInv

ContainersInv ==
  /\ source \in Seq([name : BOOLEAN, cpu : BOOLEAN, memory : BOOLEAN])
  /\ out = << >> /\ MetricsBelongTogether
  /\ \A d \in details : d.of \in 1..Len(source) /\ d.index \in 0..(kubeTotal - 1)

KubeInv ==
  /\ loop \in {"events", "statuses", "conditions", "containers"}
  /\ kubeVerdict \in {"reading", "ok", "invalid_response"}
  /\ kubeTotal \in Nat /\ kubeTruncated \in BOOLEAN
  /\ loop # "events" => pos = 0 /\ left = Budget
  /\ loop = "events" => EventsInv /\ (kubeVerdict = "ok" => pos = Len(out) + 1)
  /\ loop = "statuses" => StatusesInv
  /\ loop = "conditions" => ConditionsInv
  /\ loop = "containers" => ContainersInv

\* The limit of a list is a number.
LEMMA CapType == Cap \in Nat
BY SizesAssumption DEF Cap

\* One entry more: it is kept if it is good and the limit was not reached.
LEMMA TakeKeeps ==
  ASSUME NEW E, source \in Seq(E), KeptInv, NEW e \in E, UNCHANGED loop,
         source' = Append(source, e),
         out' = IF Take(e.ok) THEN Append(out, Len(source) + 1) ELSE out
  PROVE  KeptInv'
<1> DEFINE n == Len(source)
<1>1. /\ n \in Nat /\ out \in Seq(Nat) /\ Len(out) \in Nat /\ Cap \in Nat /\ Cap' = Cap
      /\ Len(out) <= n /\ Len(out) <= Cap
      /\ \A i, j \in 1..Len(out) : i < j => out[i] < out[j]
  BY CapType DEF KeptInv, Cap
<1>2. /\ source' \in Seq(E) /\ Len(source') = n + 1 /\ source'[n + 1] = e
      /\ \A i \in 1..n : source'[i] = source[i]
  BY <1>1
<1>3. \A x : x \in ToSet(out) <=> x \in 1..n /\ source[x].ok /\ x <= Cap
  BY DEF KeptInv
<1>4. \A i \in 1..Len(out) : out[i] \in ToSet(out)
  BY <1>1 DEF ToSet
<1>5. \A i \in 1..Len(out) : out[i] \in Nat /\ out[i] <= n
  BY <1>1, <1>3, <1>4
<1>6. CASE e.ok /\ n < Cap
  <2>1. out' = Append(out, n + 1)
    BY <1>6 DEF Take
  <2>2. /\ out' \in Seq(Nat) /\ Len(out') = Len(out) + 1 /\ out'[Len(out) + 1] = n + 1
        /\ \A i \in 1..Len(out) : out'[i] = out[i]
    BY <1>1, <2>1
  <2>3. Len(out') <= Len(source') /\ Len(out') <= Cap'
    <3> DEFINE l == Len(out)
    <3>1. l \in Nat /\ n \in Nat /\ Cap \in Nat /\ l <= n /\ n < Cap
      BY <1>1, <1>6
    <3>2. Len(out') = l + 1 /\ Len(source') = n + 1 /\ Cap' = Cap
      BY <1>1, <1>2, <2>2
    <3> HIDE DEF l, n
    <3> QED
      BY <3>1, <3>2
  <2>4. \A i, j \in 1..Len(out') : i < j => out'[i] < out'[j]
    <3>1. SUFFICES ASSUME NEW i \in 1..(Len(out) + 1), NEW j \in 1..(Len(out) + 1), i < j
                   PROVE  out'[i] < out'[j]
      BY <2>2
    <3>2. i \in 1..Len(out) /\ out'[i] = out[i]
      BY <1>1, <2>2, <3>1
    <3>3. CASE j = Len(out) + 1
      BY <1>1, <1>5, <2>2, <3>2, <3>3
    <3>4. CASE j \in 1..Len(out)
      BY <1>1, <2>2, <3>1, <3>2, <3>4
    <3> QED
      BY <1>1, <3>3, <3>4
  <2>5. ToSet(out') = {i \in 1..Len(source') : source'[i].ok /\ i <= Cap'}
    <3>1. \A x : x \in ToSet(out') <=> x \in ToSet(out) \/ x = n + 1
      <4>0. DOMAIN out' = 1..(Len(out) + 1) /\ DOMAIN out = 1..Len(out)
        BY <1>1, <2>2
      <4>1. ToSet(out') = {out'[i] : i \in 1..(Len(out) + 1)} /\ ToSet(out) = {out[i] : i \in 1..Len(out)}
        BY <4>0 DEF ToSet
      <4>2. \A i : i \in 1..(Len(out) + 1) <=> i \in 1..Len(out) \/ i = Len(out) + 1
        BY <1>1
      <4> QED
        BY <2>2, <4>1, <4>2
    <3>2. \A x : x \in 1..(n + 1) <=> x \in 1..n \/ x = n + 1
      BY <1>1
    <3>3. n + 1 <= Cap /\ source'[n + 1].ok
      BY <1>1, <1>2, <1>6
    <3>4. \A x : x \in ToSet(out') <=> x \in 1..(n + 1) /\ source'[x].ok /\ x <= Cap
      BY <1>2, <1>3, <3>1, <3>2, <3>3
    <3> QED
      BY <1>1, <1>2, <3>4
  <2> QED
    BY <2>2, <2>3, <2>4, <2>5 DEF KeptInv
<1>7. CASE ~(e.ok /\ n < Cap)
  <2>1. out' = out
    BY <1>7 DEF Take
  <2>2. \A x : x \in 1..(n + 1) <=> x \in 1..n \/ x = n + 1
    BY <1>1
  <2>3. ~(source'[n + 1].ok /\ n + 1 <= Cap)
    BY <1>1, <1>2, <1>7
  <2>4. \A x : x \in ToSet(out') <=> x \in 1..(n + 1) /\ source'[x].ok /\ x <= Cap
    BY <1>2, <1>3, <2>1, <2>2, <2>3
  <2>5. ToSet(out') = {i \in 1..Len(source') : source'[i].ok /\ i <= Cap'}
    BY <1>1, <1>2, <2>4
  <2>6. Len(out') <= Len(source') /\ Len(out') <= Cap'
    BY <1>1, <1>2, <2>1
  <2> QED
    BY <1>1, <2>1, <2>5, <2>6 DEF KeptInv
<1> QED
  BY <1>6, <1>7

\* One container more adds its restarts.
LEMMA RestartSumGrows ==
  ASSUME NEW src \in Seq(StatusEntries), NEW e \in StatusEntries
  PROVE  RestartSum(Append(src, e)) = RestartSum(src) + e.restarts /\ e.restarts \in Nat
<1> DEFINE n == Len(src)
           s == Append(src, e)
           f == [i \in 1..Len(src) |-> src[i].restarts]
           g == [i \in 1..Len(s) |-> s[i].restarts]
<1>1. \A x \in StatusEntries : x.restarts \in Nat
  BY SizesAssumption DEF StatusEntries
<1>2. /\ n \in Nat /\ s \in Seq(StatusEntries) /\ Len(s) = n + 1 /\ s[n + 1] = e
      /\ \A i \in 1..n : s[i] = src[i]
  OBVIOUS
<1> HIDE DEF s
<1>3. \A i \in 1..(n + 1) : s[i] \in StatusEntries
  BY <1>2
<1>4. DOMAIN f = 1..n /\ DOMAIN g = 1..(n + 1)
  BY <1>2
<1>5. \A i \in 1..(n + 1) : g[i] \in Int
  BY <1>1, <1>2, <1>3
<1>6. \A i \in 1..n : f[i] = g[i]
  BY <1>2
<1>7. g[n + 1] = e.restarts
  BY <1>2
<1>8. RestartSum(src) = SumFunction(f) /\ RestartSum(s) = SumFunction(g)
  BY DEF RestartSum
<1>9. e.restarts \in Nat
  BY <1>1
<1> HIDE DEF f, g, n
<1>10. SumFunction(g) = SumFunction(f) + g[n + 1]
  BY <1>2, <1>4, <1>5, <1>6, SumGrows
<1> QED
  BY <1>7, <1>8, <1>9, <1>10 DEF s

\* ReadStatus keeps the invariant.
LEMMA StatusEntryKeeps == ASSUME StatusesInv, kubeTotal \in Nat, loop = "statuses", ReadStatus
                          PROVE  StatusesInv' /\ kubeTotal' \in Nat
<1>1. PICK g \in 1..Len(Groups), ok \in BOOLEAN, n \in Restarts :
        /\ source' = Append(source, [group |-> g, ok |-> ok, restarts |-> n])
        /\ out' = IF Take(ok) THEN Append(out, Len(source) + 1) ELSE out
        /\ kubeTotal' = Add(n)
        /\ kubeTruncated' = (Len(source) + 1 > Cap)
  BY DEF ReadStatus
<1>2. UNCHANGED loop
  BY DEF ReadStatus
<1> DEFINE e == [group |-> g, ok |-> ok, restarts |-> n]
<1>3. e \in StatusEntries /\ e.ok = ok /\ e.restarts = n /\ source' = Append(source, e)
  BY <1>1 DEF StatusEntries
<1> HIDE DEF e
<1>4. source \in Seq(StatusEntries) /\ KeptInv
  BY DEF StatusesInv
<1>5. KeptInv'
  BY <1>1, <1>2, <1>3, <1>4, TakeKeeps
<1>6. source' \in Seq(StatusEntries) /\ Len(source') = Len(source) + 1
  BY <1>3, <1>4
<1>7. RestartSum(source') = RestartSum(source) + n /\ n \in Nat
  BY <1>3, <1>4, RestartSumGrows
<1>8. RestartSum(source) \in Nat /\ kubeTotal = Saturated(RestartSum(source)) /\ MaxCount \in Nat
  BY SizesAssumption DEF StatusesInv
<1>9. kubeTotal' = Saturated(RestartSum(source')) /\ kubeTotal' \in Nat
  <2>1. kubeTotal' = Saturated(kubeTotal + n)
    BY <1>1 DEF Add, Saturated
  <2> DEFINE t == RestartSum(source)
  <2>2. t \in Nat /\ kubeTotal = (IF t > MaxCount THEN MaxCount ELSE t)
    BY <1>8 DEF Saturated
  <2>3. RestartSum(source') = t + n
    BY <1>7
  <2> HIDE DEF t
  <2>4. Saturated(kubeTotal + n) = Saturated(t + n) /\ Saturated(t + n) \in Nat
    BY <1>7, <1>8, <2>2 DEF Saturated
  <2> QED
    BY <2>1, <2>3, <2>4
<1>10. kubeTruncated' = (Len(source') > Cap')
  BY <1>1, <1>2, <1>6 DEF Cap
<1>11. RestartSum(source') \in Nat
  BY <1>7, <1>8
<1> QED
  BY <1>5, <1>6, <1>9, <1>10, <1>11 DEF StatusesInv

\* ReadCondition keeps the invariant.
LEMMA ConditionKeeps == ASSUME ConditionsInv, ReadCondition PROVE ConditionsInv'
<1>1. PICK ok \in BOOLEAN :
        /\ source' = Append(source, [ok |-> ok])
        /\ out' = IF Take(ok) THEN Append(out, Len(source) + 1) ELSE out
  BY DEF ReadCondition
<1>2. UNCHANGED loop
  BY DEF ReadCondition
<1> DEFINE e == [ok |-> ok]
<1>3. e \in [ok : BOOLEAN] /\ e.ok = ok /\ source' = Append(source, e)
  BY <1>1
<1> HIDE DEF e
<1>4. source \in Seq([ok : BOOLEAN]) /\ KeptInv
  BY DEF ConditionsInv
<1>5. KeptInv'
  BY <1>1, <1>2, <1>3, <1>4, TakeKeeps
<1> QED
  BY <1>3, <1>4, <1>5 DEF ConditionsInv

\* ReadContainer keeps the invariant.
LEMMA ContainerKeeps ==
  ASSUME ContainersInv, kubeTotal \in Nat, loop = "containers", ReadContainer
  PROVE  ContainersInv' /\ kubeTotal' \in Nat
<1> DEFINE C == [name : BOOLEAN, cpu : BOOLEAN, memory : BOOLEAN]
           n == Len(source) + 1
<1>1. PICK c \in C :
        /\ source' = Append(source, c)
        /\ IF c.name /\ Len(source) < MaxContainers
           THEN details' = Insert(c, kubeTotal) /\ kubeTotal' = NextIndex(c)
           ELSE UNCHANGED <<details, kubeTotal>>
  BY DEF ReadContainer
<1>2. UNCHANGED <<loop, out>>
  BY DEF ReadContainer
<1>3. /\ source \in Seq(C) /\ out = << >>
      /\ {d.index : d \in details} = 0..(kubeTotal - 1)
      /\ \A d, e \in details : d.index = e.index <=> d.of = e.of
      /\ \A d \in details : \E e \in details : e.index = d.index /\ e.field = "name"
      /\ \A d \in details : d.of \in 1..Len(source) /\ d.index \in 0..(kubeTotal - 1)
  BY DEF ContainersInv, MetricsBelongTogether
<1>4. source' \in Seq(C) /\ Len(source') = n /\ Len(source) \in Nat
  BY <1>1, <1>3
<1>5. CASE UNCHANGED <<details, kubeTotal>>
  <2>1. \A d \in details : d.of \in 1..Len(source')
    BY <1>3, <1>4
  <2>2. MetricsBelongTogether'
    BY <1>2, <1>3, <1>5 DEF MetricsBelongTogether
  <2> QED
    BY <1>2, <1>3, <1>4, <1>5, <2>1, <2>2 DEF ContainersInv
<1>6. CASE c.name /\ details' = Insert(c, kubeTotal) /\ kubeTotal' = kubeTotal + 1
  <2> DEFINE F == {f \in {"name", "cpu", "memory"} : c[f]}
             New(f) == [index |-> kubeTotal, field |-> f, of |-> n]
             N == {New(f) : f \in F}
  <2>1. details' = details \cup N
    <3>1. details' = {d \in details : d.index # kubeTotal \/ d.field \notin F} \cup N
      BY <1>6 DEF Insert
    <3>2. \A d \in details : d.index # kubeTotal
      BY <1>3
    <3> HIDE DEF N, F
    <3> QED
      BY <3>1, <3>2
  <2>2. /\ New("name") \in N /\ New("name").field = "name"
        /\ \A d \in N : d.index = kubeTotal /\ d.of = n
    BY <1>6
  <2> HIDE DEF N
  <2>3. \A d \in details : d.index # kubeTotal /\ d.of # n
    BY <1>3, <1>4
  <2>4. {d.index : d \in details'} = 0..(kubeTotal' - 1)
    <3>1. \A x : x \in {d.index : d \in details'} <=> x \in {d.index : d \in details} \/ x = kubeTotal
      BY <2>1, <2>2
    <3>2. \A x : x \in 0..(kubeTotal' - 1) <=> x \in 0..(kubeTotal - 1) \/ x = kubeTotal
      BY <1>6
    <3> QED
      BY <1>3, <3>1, <3>2
  <2>5. \A d, e \in details' : d.index = e.index <=> d.of = e.of
    BY <1>3, <2>1, <2>2, <2>3
  <2>6. \A d \in details' : \E e \in details' : e.index = d.index /\ e.field = "name"
    <3>1. New("name") \in details' /\ New("name").index = kubeTotal /\ New("name").field = "name"
      BY <2>1, <2>2
    <3> HIDE DEF New
    <3> QED
      BY <1>3, <2>1, <2>2, <3>1
  <2>7. \A d \in details' : d.of \in 1..Len(source') /\ d.index \in 0..(kubeTotal' - 1)
    <3>1. kubeTotal \in 0..(kubeTotal' - 1) /\ n \in 1..Len(source')
      BY <1>4, <1>6
    <3>2. \A x \in 0..(kubeTotal - 1) : x \in 0..(kubeTotal' - 1)
      BY <1>6
    <3>3. \A x \in 1..Len(source) : x \in 1..Len(source')
      BY <1>4
    <3> QED
      BY <1>3, <2>1, <2>2, <3>1, <3>2, <3>3
  <2>8. MetricsBelongTogether'
    BY <2>4, <2>5, <2>6 DEF MetricsBelongTogether
  <2> QED
    BY <1>2, <1>3, <1>4, <1>6, <2>7, <2>8 DEF ContainersInv
<1> QED
  BY <1>1, <1>5, <1>6 DEF NextIndex

\* Nothing was asked or read.
LEMMA KubeInitHolds == KubeInit => KubeInv
<1>1. SUFFICES ASSUME KubeInit PROVE KubeInv
  OBVIOUS
<1>2. /\ source = << >> /\ out = << >> /\ details = {} /\ pos = 0 /\ left = Budget
      /\ kubeTotal = 0 /\ kubeTruncated = FALSE /\ kubeVerdict = "reading"
      /\ loop \in {"events", "statuses", "conditions", "containers"}
  BY <1>1 DEF KubeInit
<1>3. Len(source) = 0 /\ Len(out) = 0
  BY <1>2
<1>4. Cap \in Nat /\ Budget \in Nat /\ MaxEvents \in Nat /\ MaxCount \in Nat
  BY CapType, SizesAssumption
<1>5. KeptInv
  <2>1. ToSet(out) = {}
    BY <1>2 DEF ToSet
  <2>2. {i \in 1..Len(source) : source[i].ok /\ i <= Cap} = {}
    BY <1>3
  <2>3. out \in Seq(Nat) /\ Len(out) <= Len(source) /\ Len(out) <= Cap
    BY <1>2, <1>3, <1>4
  <2> QED
    BY <1>3, <2>1, <2>2, <2>3 DEF KeptInv
<1>6. EventsInv
  <2>1. source \in Seq(Messages) /\ out \in Seq(Results)
    BY <1>2
  <2>2. kubeTruncated = \E i \in 1..Len(out) : i < pos /\ Taken(source[i], out[i])
    <3>1. kubeTruncated = FALSE
      BY <1>2
    <3>2. ~ \E i \in 1..Len(out) : i < pos /\ Taken(source[i], out[i])
      BY <1>3
    <3> QED
      BY <3>1, <3>2
  <2>3. /\ Len(out) = Len(source) /\ Len(source) <= MaxEvents /\ pos \in Nat /\ pos <= Len(out) + 1
        /\ left \in Nat /\ left = Budget /\ ~(pos > 0) /\ \A i \in 1..Len(out) : FALSE
    BY <1>2, <1>3, <1>4
  <2> QED
    BY <2>1, <2>2, <2>3 DEF EventsInv
<1>7. StatusesInv
  <2>1. source \in Seq(StatusEntries)
    BY <1>2
  <2>2. DOMAIN [i \in 1..Len(source) |-> source[i].restarts] = {}
    BY <1>3
  <2>3. RestartSum(source) = 0
    BY <2>2, SumOfEmpty DEF RestartSum
  <2>4. ~(Len(source) > Cap) /\ ~(0 > MaxCount)
    BY <1>3, <1>4
  <2>5. kubeTruncated = (Len(source) > Cap)
    <3>1. kubeTruncated = FALSE
      BY <1>2
    <3>2. (Len(source) > Cap) = FALSE
      BY <2>4
    <3> QED
      BY <3>1, <3>2
  <2>6. kubeTotal = Saturated(RestartSum(source)) /\ RestartSum(source) \in Nat
    BY <1>2, <2>3, <2>4 DEF Saturated
  <2> QED
    BY <1>5, <2>1, <2>5, <2>6 DEF StatusesInv
<1>8. ConditionsInv
  BY <1>2, <1>5 DEF ConditionsInv
<1>9. ContainersInv
  <2>1. source \in Seq([name : BOOLEAN, cpu : BOOLEAN, memory : BOOLEAN])
    BY <1>2
  <2>2. MetricsBelongTogether
    BY <1>2 DEF MetricsBelongTogether
  <2> QED
    BY <1>2, <2>1, <2>2 DEF ContainersInv
<1> QED
  BY <1>2, <1>6, <1>7, <1>8, <1>9 DEF KubeInv

\* What the loops' invariants are about.
LEMMA KubeUnchanged ==
  ASSUME KubeInv, UNCHANGED <<loop, source, out, details, pos, left, kubeTotal, kubeTruncated>>,
         kubeVerdict' \in {"reading", "ok", "invalid_response"},
         loop = "events" /\ kubeVerdict' = "ok" => pos = Len(out) + 1
  PROVE  KubeInv'
<1>1. EventsInv => EventsInv'
  BY DEF EventsInv
<1>2. (StatusesInv => StatusesInv') /\ (ConditionsInv => ConditionsInv')
  BY DEF StatusesInv, ConditionsInv, KeptInv, Cap
<1>3. ContainersInv => ContainersInv'
  BY DEF ContainersInv, MetricsBelongTogether
<1> QED
  BY <1>1, <1>2, <1>3 DEF KubeInv

\* Every step keeps the invariant of the Kubernetes part.
LEMMA KubeStep == KubeInv /\ [KubeNext]_kubeVars => KubeInv'
<1>1. SUFFICES ASSUME KubeInv, [KubeNext]_kubeVars PROVE KubeInv'
  OBVIOUS
<1>2. CASE UNCHANGED kubeVars
  BY <1>1, <1>2, KubeUnchanged DEF kubeVars, KubeInv
<1>3. CASE KubeEnd
  BY <1>1, <1>3, KubeUnchanged DEF KubeEnd, KubeInv
<1>4. CASE ReadEvent
  <2>1. loop = "events" /\ loop' = loop /\ kubeVerdict' \in {"reading", "invalid_response"}
        /\ UNCHANGED <<kubeTotal, kubeTruncated>>
    BY <1>4 DEF ReadEvent
  <2>2. EventsInv'
    BY <1>1, <1>4, <2>1, ReadEventKeeps DEF KubeInv
  <2> QED
    BY <1>1, <2>1, <2>2 DEF KubeInv
<1>5. CASE BeginBound
  <2>1. loop = "events" /\ loop' = loop /\ kubeVerdict' = "reading"
        /\ UNCHANGED <<kubeTotal, kubeTruncated>>
    BY <1>5 DEF BeginBound
  <2>2. EventsInv'
    BY <1>1, <1>5, <2>1, BeginKeeps DEF KubeInv
  <2> QED
    BY <1>1, <2>1, <2>2 DEF KubeInv
<1>6. CASE BoundNext
  <2>1. loop = "events" /\ loop' = loop /\ kubeVerdict' = "reading" /\ UNCHANGED kubeTotal
    BY <1>6 DEF BoundNext
  <2>2. EventsInv'
    BY <1>1, <1>6, <2>1, BoundKeeps DEF KubeInv
  <2>3. kubeTruncated' \in BOOLEAN
    BY <1>6 DEF BoundNext
  <2> QED
    BY <1>1, <2>1, <2>2, <2>3 DEF KubeInv
<1>7. CASE ReadStatus
  <2>1. loop = "statuses" /\ UNCHANGED <<loop, details, pos, left, kubeVerdict>>
    BY <1>7 DEF ReadStatus
  <2>2. StatusesInv' /\ kubeTotal' \in Nat
    BY <1>1, <1>7, <2>1, StatusEntryKeeps DEF KubeInv
  <2>3. kubeTruncated' \in BOOLEAN
    BY <1>7 DEF ReadStatus
  <2> QED
    BY <1>1, <2>1, <2>2, <2>3 DEF KubeInv
<1>8. CASE ReadCondition
  <2>1. loop = "conditions"
        /\ UNCHANGED <<loop, details, pos, left, kubeTotal, kubeTruncated, kubeVerdict>>
    BY <1>8 DEF ReadCondition
  <2>2. ConditionsInv'
    BY <1>1, <1>8, <2>1, ConditionKeeps DEF KubeInv
  <2> QED
    BY <1>1, <2>1, <2>2 DEF KubeInv
<1>9. CASE ReadContainer
  <2>1. loop = "containers" /\ UNCHANGED <<loop, out, pos, left, kubeVerdict>>
    BY <1>9 DEF ReadContainer
  <2>2. ContainersInv' /\ kubeTotal' \in Nat
    BY <1>1, <1>9, <2>1, ContainerKeeps DEF KubeInv
  <2>3. kubeTruncated' \in BOOLEAN
    BY <1>9 DEF ReadContainer
  <2> QED
    BY <1>1, <2>1, <2>2, <2>3 DEF KubeInv
<1> QED
  BY <1>1, <1>2, <1>3, <1>4, <1>5, <1>6, <1>7, <1>8, <1>9 DEF KubeNext

\* What the invariant says of statuses and conditions.
LEMMA KubeListsSound ==
  ASSUME KubeInv, loop \in {"statuses", "conditions"}
  PROVE  PodListsAccounted
<1>1. KeptInv
  BY DEF KubeInv, StatusesInv, ConditionsInv
<1>2. Len(out) <= Cap /\ \A i, j \in 1..Len(out) : i < j => out[i] < out[j]
  BY <1>1 DEF KeptInv
<1>3. ASSUME loop = "statuses"
      PROVE  /\ ~kubeTruncated => ToSet(out) = {i \in 1..Len(source) : source[i].ok}
             /\ kubeTruncated => ToSet(out) # 1..Len(source)
             /\ kubeTotal = Saturated(RestartSum(source))
  <2>1. /\ kubeTruncated = (Len(source) > Cap) /\ kubeTotal = Saturated(RestartSum(source))
        /\ ToSet(out) = {i \in 1..Len(source) : source[i].ok /\ i <= Cap}
        /\ source \in Seq(StatusEntries)
    BY <1>1, <1>3 DEF KubeInv, StatusesInv, KeptInv
  <2>2. Len(source) \in Nat /\ Cap \in Nat
    BY <2>1, CapType
  <2>3. ASSUME ~(Len(source) > Cap) PROVE ToSet(out) = {i \in 1..Len(source) : source[i].ok}
    BY <2>1, <2>2, <2>3
  <2>4. ASSUME Len(source) > Cap PROVE ToSet(out) # 1..Len(source)
    <3>1. Cap + 1 \in 1..Len(source) /\ ~(Cap + 1 <= Cap)
      BY <2>2, <2>4
    <3> QED
      BY <2>1, <3>1
  <2> QED
    BY <2>1, <2>3, <2>4
<1>4. Done("statuses") => loop = "statuses"
  BY DEF Done
<1> QED
  BY <1>2, <1>3, <1>4 DEF PodListsAccounted, RestartSum, Saturated

\* What the invariant says of the cuts.
LEMMA KubeSound == ASSUME KubeInv PROVE KubernetesCutsExact
<1>1. MaxEvents \in Nat /\ Budget \in Nat
  BY SizesAssumption
<1>2. CASE loop = "events"
  <2>1. EventsInv /\ (kubeVerdict = "ok" => pos = Len(out) + 1)
    BY <1>2 DEF KubeInv
  <2>2. /\ pos \in Nat /\ pos <= Len(out) + 1 /\ Len(out) = Len(source) /\ Len(source) <= MaxEvents
        /\ left \in Nat /\ Len(out) \in Nat
    BY <2>1 DEF EventsInv
  <2>3. left <= Budget
    <3>1. CASE pos = 0
      BY <1>1, <2>1, <3>1 DEF EventsInv
    <3>2. CASE pos > 0
      <4>1. left + Sized(source, out, pos - 1) = Budget
        BY <2>1, <3>2 DEF EventsInv
      <4>2. Sized(source, out, pos - 1) \in Nat
        <5>1. pos - 1 \in Nat /\ \A j \in 1..(pos - 1) : j \in 1..Len(out)
          BY <2>2, <3>2
        <5>2. \A j \in 1..(pos - 1) : Size(source[j], out[j]) \in Nat
          BY <2>1, <5>1, EventSizes
        <5>3. [j \in 1..(pos - 1) |-> Size(source[j], out[j])] \in Seq(Nat)
          BY <5>1, <5>2
        <5> QED
          BY <5>3, BytesType DEF Sized
      <4> QED
        BY <1>1, <2>2, <4>1, <4>2
    <3> QED
      BY <2>2, <3>1, <3>2
  <2>4. TypeOK
    <3>1. pos \in 0..(MaxEvents + 1) /\ left \in 0..Budget /\ Len(out) <= Len(source)
      BY <1>1, <2>2, <2>3
    <3> QED
      BY <3>1 DEF TypeOK, KubeInv
  <2>5. Done("events") => pos = Len(out) + 1
    BY <2>1 DEF Done
  <2>6. MessagesBounded
    BY <2>1, <2>5, EventsSound DEF MessagesBounded
  <2>7. TruncationExplicit
    BY <2>1, <2>5, EventsSound DEF TruncationExplicit, Taken
  <2>8. NoNeedlessCut
    BY <2>1, <2>5, EventsSound DEF NoNeedlessCut
  <2>9. PodListsAccounted /\ MetricsBelongTogether
    BY <1>2 DEF PodListsAccounted, MetricsBelongTogether, Done
  <2> QED
    BY <2>4, <2>6, <2>7, <2>8, <2>9 DEF KubernetesCutsExact
<1>3. CASE loop # "events"
  <2>1. pos \in 0..(MaxEvents + 1) /\ left \in 0..Budget
    BY <1>1, <1>3 DEF KubeInv
  <2>2. Len(out) <= Len(source)
    <3>1. CASE loop \in {"statuses", "conditions"}
      BY <3>1 DEF KubeInv, StatusesInv, ConditionsInv, KeptInv
    <3>2. CASE loop = "containers"
      <4>1. out = << >> /\ source \in Seq([name : BOOLEAN, cpu : BOOLEAN, memory : BOOLEAN])
        BY <3>2 DEF KubeInv, ContainersInv
      <4>2. Len(out) = 0 /\ Len(source) \in Nat
        BY <4>1
      <4> QED
        BY <4>2
    <3> QED
      BY <1>3, <3>1, <3>2 DEF KubeInv
  <2>3. TypeOK
    BY <2>1, <2>2 DEF TypeOK, KubeInv
  <2>4. MessagesBounded /\ TruncationExplicit /\ NoNeedlessCut
    BY <1>3 DEF MessagesBounded, TruncationExplicit, NoNeedlessCut, Done
  <2>5. PodListsAccounted
    <3>1. CASE loop \in {"statuses", "conditions"}
      BY <3>1, KubeListsSound
    <3>2. CASE loop = "containers"
      BY <3>2 DEF PodListsAccounted, Done
    <3> QED
      BY <1>3, <3>1, <3>2 DEF KubeInv
  <2>6. MetricsBelongTogether
    BY DEF KubeInv, ContainersInv, MetricsBelongTogether
  <2> QED
    BY <2>3, <2>4, <2>5, <2>6 DEF KubernetesCutsExact
<1> QED
  BY <1>2, <1>3

\* Messages of events are cut at whole characters within the budget, shortened again only
\* when they must be, and every cut is marked; statuses, conditions and metrics of a pod are
\* accounted for (kubernetes/normalize.rs:154-732, client.rs:387-404).
THEOREM KubernetesCutsAreExact == KubeSpec => []KubernetesCutsExact
<1>1. KubeInv => KubernetesCutsExact
  BY KubeSound
<1> QED
  BY <1>1, KubeInitHolds, KubeStep, PTL DEF KubeSpec

-----------------------------------------------------------------------------
\* The lists of Grafana.

\* A sequence cut at a limit.
LEMMA TruncatedIs ==
  ASSUME NEW S, NEW s \in Seq(S), NEW n \in Nat
  PROVE  /\ Truncated(s, n) \in Seq(S)
         /\ Len(Truncated(s, n)) = (IF n < Len(s) THEN n ELSE Len(s))
         /\ \A k \in 1..Len(Truncated(s, n)) : Truncated(s, n)[k] = s[k]
<1> DEFINE m == IF n < Len(s) THEN n ELSE Len(s)
<1>1. m \in Nat /\ m <= Len(s) /\ Len(s) \in Nat
  OBVIOUS
<1>2. Truncated(s, n) = SubSeq(s, 1, m)
  BY DEF Truncated
<1> HIDE DEF m
<1>3. /\ SubSeq(s, 1, m) \in Seq(S) /\ Len(SubSeq(s, 1, m)) = m
      /\ \A k \in 1..m : SubSeq(s, 1, m)[k] = s[k]
  BY <1>1
<1>4. /\ Truncated(s, n) \in Seq(S) /\ Len(Truncated(s, n)) = m
      /\ \A k \in 1..Len(Truncated(s, n)) : Truncated(s, n)[k] = s[k]
  BY <1>2, <1>3
<1> QED
  BY <1>4 DEF m

\* One more is cut off, or comes last.
LEMMA TruncatedGrows ==
  ASSUME NEW S, NEW s \in Seq(S), NEW x \in S, NEW n \in Nat
  PROVE  /\ Len(Truncated(s, n)) < n => Truncated(Append(s, x), n) = Append(Truncated(s, n), x)
         /\ ~(Len(Truncated(s, n)) < n) => Truncated(Append(s, x), n) = Truncated(s, n)
<1> DEFINE t == Append(s, x)
           a == Truncated(s, n)
           b == Truncated(t, n)
<1>1. /\ t \in Seq(S) /\ Len(t) = Len(s) + 1 /\ t[Len(s) + 1] = x /\ Len(s) \in Nat
      /\ \A k \in 1..Len(s) : t[k] = s[k]
  OBVIOUS
<1>2. /\ a \in Seq(S) /\ Len(a) = (IF n < Len(s) THEN n ELSE Len(s))
      /\ \A k \in 1..Len(a) : a[k] = s[k]
  BY TruncatedIs
<1> HIDE DEF t
<1>3. /\ b \in Seq(S) /\ Len(b) = (IF n < Len(t) THEN n ELSE Len(t))
      /\ \A k \in 1..Len(b) : b[k] = t[k]
  BY <1>1, TruncatedIs
<1> HIDE DEF a, b
<1>4. ASSUME Len(a) < n PROVE b = Append(a, x)
  <2>1. Len(a) = Len(s) /\ Len(b) = Len(s) + 1
    BY <1>1, <1>2, <1>3, <1>4
  <2> DEFINE c == Append(a, x)
  <2>2. c \in Seq(S) /\ Len(c) = Len(s) + 1 /\ c[Len(s) + 1] = x
        /\ \A k \in 1..Len(s) : c[k] = a[k]
    BY <1>2, <2>1
  <2>3. \A k \in 1..Len(s) : c[k] = b[k]
    BY <1>1, <1>2, <1>3, <2>1, <2>2
  <2>4. c[Len(s) + 1] = b[Len(s) + 1]
    BY <1>1, <1>3, <2>1, <2>2
  <2> HIDE DEF c
  <2>5. \A k \in 1..(Len(s) + 1) : c[k] = b[k]
    BY <1>1, <2>3, <2>4
  <2>6. b = c
    BY <1>3, <2>1, <2>2, <2>5
  <2> QED
    BY <2>6 DEF c
<1>5. ASSUME ~(Len(a) < n) PROVE b = a
  <2>1. Len(a) = n /\ Len(b) = n /\ n <= Len(s)
    BY <1>1, <1>2, <1>3, <1>5
  <2>2. \A k \in 1..n : b[k] = a[k]
    BY <1>1, <1>2, <1>3, <2>1
  <2> QED
    BY <1>2, <1>3, <2>1, <2>2
<1> QED
  BY <1>4, <1>5 DEF a, b, t

GrafanaClassesAll == {"alert", "recording", "other", "active", "expired", "entry"}
AnyGrafanaEntry ==
  [class : GrafanaClassesAll, labels : LabelMaps \cup {{}}, fields : BOOLEAN, lines : Seq(BOOLEAN)]

\* The indices of the entries that are wanted.
WantedOf(s) == {i \in 1..Len(s) : Wanted(s[i])}

\* What the loops have kept so far.
ListRead ==
  /\ \A i \in 1..Len(gsource) : gsource[i].lines = << >>
  /\ selected = IF tool \in {"dashboards", "series"} THEN InOrder(WantedOf(gsource))
                ELSE Truncated(InOrder(WantedOf(gsource)), limit)
  /\ tool \in Rules => \A i \in 1..Len(gsource) : gsource[i].class # "other"
  /\ tool \notin Rules \cup {"traces"} => \A i \in 1..Len(gsource) : Normalizes(gsource[i])

StreamsRead ==
  /\ \A i \in 1..Len(gsource) :
       Normalizes(gsource[i]) /\ \A k \in 1..Len(gsource[i].lines) : gsource[i].lines[k]
  /\ lines \in Seq(Nat \X Nat) /\ remaining \in Nat /\ Len(lines) + remaining = limit
  /\ Range(lines) \subseteq Lines
  /\ \A j, k \in 1..Len(lines) : j < k => Before(lines[j], lines[k])
  /\ \A l \in Lines \ Range(lines) :
       remaining = 0 /\ \A k \in 1..Len(lines) : Before(lines[k], l)

GrafanaInv ==
  /\ tool \in GrafanaTools /\ limit \in Nat \ {0}
  /\ gsource \in Seq(AnyGrafanaEntry)
  /\ grafanaVerdict = "reading" /\ tool # "streams" => ListRead
  /\ grafanaVerdict = "reading" /\ tool = "streams" => StreamsRead
  /\ GrafanaListsExact

\* The entries that were asked for, in their order.
LEMMA WantedIs ==
  ASSUME NEW s \in Seq(AnyGrafanaEntry)
  PROVE  /\ WantedOf(s) \in SUBSET Nat /\ IsFiniteSet(WantedOf(s))
         /\ InOrder(WantedOf(s)) \in Seq(Nat)
         /\ \A i \in WantedOf(s) : i < Len(s) + 1
<1>1. Len(s) \in Int /\ 1 \in Int /\ WantedOf(s) \subseteq 1..Len(s)
  BY DEF WantedOf
<1>2. IsFiniteSet(1..Len(s))
  BY <1>1, FS_Interval
<1>3. IsFiniteSet(WantedOf(s))
  BY <1>1, <1>2, FS_Subset
<1>4. \A x \in WantedOf(s) : x \in Nat /\ x < Len(s) + 1
  BY <1>1
<1>5. WantedOf(s) \in SUBSET Nat
  BY <1>4
<1> QED
  BY <1>3, <1>4, <1>5, InOrderType

\* Another entry is added to the wanted ones, or not.
LEMMA WantedGrows ==
  ASSUME NEW s \in Seq(AnyGrafanaEntry), NEW e \in AnyGrafanaEntry
  PROVE  InOrder(WantedOf(Append(s, e))) = IF Wanted(e) THEN Append(InOrder(WantedOf(s)), Len(s) + 1)
                                           ELSE InOrder(WantedOf(s))
<1> DEFINE n == Len(s)
           t == Append(s, e)
<1>1. /\ n \in Nat /\ t \in Seq(AnyGrafanaEntry) /\ Len(t) = n + 1 /\ t[n + 1] = e
      /\ \A i \in 1..n : t[i] = s[i]
  OBVIOUS
<1> HIDE DEF t
<1>2. \A i : i \in 1..(n + 1) <=> i \in 1..n \/ i = n + 1
  BY <1>1
<1>3. \A i : i \in WantedOf(t) <=> i \in 1..(n + 1) /\ Wanted(t[i])
  BY <1>1 DEF WantedOf
<1>4. \A i : i \in WantedOf(s) <=> i \in 1..n /\ Wanted(s[i])
  BY DEF WantedOf
<1>5. \A i : i \in WantedOf(t) <=> i \in WantedOf(s) \/ (i = n + 1 /\ Wanted(e))
  BY <1>1, <1>2, <1>3, <1>4
<1>6. CASE Wanted(e)
  <2>1. WantedOf(t) = WantedOf(s) \cup {n + 1}
    BY <1>5, <1>6
  <2>2. n + 1 \in Nat /\ \A i \in WantedOf(s) : i < n + 1
    BY <1>1, WantedIs
  <2>3. InOrder(WantedOf(s) \cup {n + 1}) = Append(InOrder(WantedOf(s)), n + 1)
    BY <2>2, WantedIs, InOrderGrows
  <2> QED
    BY <1>6, <2>1, <2>3 DEF t
<1>7. CASE ~Wanted(e)
  <2>1. WantedOf(t) = WantedOf(s)
    BY <1>5, <1>7
  <2> QED
    BY <1>7, <2>1 DEF t
<1> QED
  BY <1>6, <1>7

\* No entry was read.
LEMMA GrafanaInitHolds == GrafanaInit => GrafanaInv
<1>1. SUFFICES ASSUME GrafanaInit PROVE GrafanaInv
  OBVIOUS
<1>2. /\ tool \in GrafanaTools /\ limit \in Nat \ {0} /\ gsource = << >> /\ selected = << >>
      /\ lines = << >> /\ remaining = limit /\ grafanaVerdict = "reading"
  BY <1>1, GrafanaLimitsAssumption DEF GrafanaInit
<1>3. Len(gsource) = 0 /\ Len(lines) = 0 /\ limit \in Nat /\ gsource \in Seq(AnyGrafanaEntry)
  BY <1>2
<1>4. ListRead
  <2>1. WantedOf(gsource) = 1..0
    BY <1>3 DEF WantedOf
  <2>2. InOrder(1..0) = [i \in 1..0 |-> i]
    <3>1. 0 \in Nat
      OBVIOUS
    <3> QED
      BY <3>1, InOrderOfAll
  <2>3. InOrder(WantedOf(gsource)) = << >>
    BY <2>1, <2>2
  <2>4. Truncated(<< >>, limit) = << >>
    <3>1. << >> \in Seq(Nat) /\ Len(<< >>) = 0
      OBVIOUS
    <3> DEFINE z == << >>
    <3>2. z \in Seq(Nat) /\ Len(z) = 0
      BY <3>1
    <3>3. z = << >>
      OBVIOUS
    <3> HIDE DEF z
    <3>4. /\ Truncated(z, limit) \in Seq(Nat)
          /\ Len(Truncated(z, limit)) = IF limit < Len(z) THEN limit ELSE Len(z)
      BY <1>3, <3>2, TruncatedIs
    <3>5. Len(Truncated(z, limit)) = 0
      BY <1>3, <3>2, <3>4
    <3>6. Truncated(z, limit) = << >>
      BY <3>4, <3>5
    <3> QED
      BY <3>3, <3>6
  <2> QED
    BY <1>2, <1>3, <2>3, <2>4 DEF ListRead
<1>5. StreamsRead
  <2>1. Lines = {}
    BY <1>3 DEF Lines
  <2>2. lines \in Seq(Nat \X Nat) /\ Range(lines) = {} /\ Len(lines) + remaining = limit
    BY <1>2, <1>3 DEF Range
  <2> QED
    BY <1>2, <1>3, <2>1, <2>2 DEF StreamsRead
<1>6. GrafanaListsExact
  BY <1>2
     DEF GrafanaListsExact, FirstWantedReturned, MalformedSpoils, UrlsLeftOut, LinesBounded
<1> QED
  BY <1>2, <1>3, <1>4, <1>5, <1>6 DEF GrafanaInv

\* While the response is being read nothing is promised.
LEMMA NothingYet ==
  ASSUME grafanaVerdict = "reading" PROVE GrafanaListsExact
BY DEF GrafanaListsExact, FirstWantedReturned, MalformedSpoils, UrlsLeftOut, LinesBounded

\* An entry has no lines yet, and a stream no labels.
LEMMA GrafanaEntryIs ==
  ASSUME NEW e \in GrafanaEntries, tool \in GrafanaTools
  PROVE  /\ e \in AnyGrafanaEntry /\ e.lines = << >>
         /\ tool = "streams" => e.labels = {} /\ e.class = "entry"
<1>1. /\ e.class \in GrafanaClassesAll /\ e.labels \in LabelMaps \cup {{}} /\ e.fields \in BOOLEAN
      /\ e.lines = << >> /\ e.lines \in Seq(BOOLEAN)
      /\ tool = "streams" => e.labels = {} /\ e.class = "entry"
  <2>1. /\ e.class \in GrafanaClasses /\ e.labels \in (IF HasLabels THEN LabelMaps ELSE {{}})
        /\ e.fields \in BOOLEAN /\ e.lines \in {<< >>}
    BY DEF GrafanaEntries
  <2>2. e.class \in GrafanaClassesAll /\ (tool = "streams" => e.class = "entry")
    BY <2>1 DEF GrafanaClasses, GrafanaClassesAll, Rules
  <2>3. tool = "streams" => ~HasLabels
    BY DEF HasLabels, Rules
  <2>4. e.lines = << >> /\ e.lines \in Seq(BOOLEAN)
    <3> DEFINE l == e.lines
    <3>1. l \in {<< >>}
      BY <2>1
    <3> HIDE DEF l
    <3>2. l = << >>
      BY <3>1
    <3>3. l \in Seq(BOOLEAN)
      BY <3>2
    <3> QED
      BY <3>2, <3>3 DEF l
  <2> QED
    BY <2>1, <2>2, <2>3, <2>4
<1>2. e = [class |-> e.class, labels |-> e.labels, fields |-> e.fields, lines |-> e.lines]
  BY DEF GrafanaEntries
<1> QED
  BY <1>1, <1>2 DEF AnyGrafanaEntry

\* A good entry: it is kept as the list says.
LEMMA EntryKeeps ==
  ASSUME GrafanaInv, grafanaVerdict = "reading", tool # "streams",
         UNCHANGED <<tool, limit, filter, grafanaVerdict>>,
         NEW e \in AnyGrafanaEntry, e.lines = << >>, gsource' = Append(gsource, e),
         tool \in Rules => e.class # "other",
         tool \notin Rules \cup {"traces"} => Normalizes(e),
         ~Wanted(e) => selected' = selected,
         Wanted(e) /\ tool \in {"dashboards", "series"} =>
           selected' = Append(selected, Len(gsource) + 1),
         Wanted(e) /\ tool \notin {"dashboards", "series"} =>
           selected' = IF Len(selected) < limit THEN Append(selected, Len(gsource) + 1) ELSE selected
  PROVE  GrafanaInv'
<1> DEFINE n == Len(gsource)
           w == InOrder(WantedOf(gsource))
<1>1. /\ gsource \in Seq(AnyGrafanaEntry) /\ n \in Nat /\ limit \in Nat
      /\ ListRead /\ tool \in GrafanaTools /\ limit \in Nat \ {0}
  BY DEF GrafanaInv
<1>2. /\ gsource' \in Seq(AnyGrafanaEntry) /\ Len(gsource') = n + 1 /\ gsource'[n + 1] = e
      /\ \A i \in 1..n : gsource'[i] = gsource[i]
  BY <1>1
<1>3. \A i \in 1..Len(gsource') : i \in 1..n \/ i = n + 1
  BY <1>1, <1>2
<1>4. w \in Seq(Nat) /\ n + 1 \in Nat
  BY <1>1, WantedIs
<1>5. InOrder(WantedOf(gsource')) = IF Wanted(e) THEN Append(w, n + 1) ELSE w
  BY <1>1, WantedGrows
<1>6. WantedOf(gsource)' = WantedOf(gsource')
  BY DEF WantedOf, Wanted
<1>7. selected = IF tool \in {"dashboards", "series"} THEN w ELSE Truncated(w, limit)
  BY <1>1 DEF ListRead
<1>8. selected' = IF tool \in {"dashboards", "series"} THEN InOrder(WantedOf(gsource'))
                  ELSE Truncated(InOrder(WantedOf(gsource')), limit)
  <2>1. CASE ~Wanted(e)
    BY <1>5, <1>7, <2>1
  <2>2. CASE Wanted(e) /\ tool \in {"dashboards", "series"}
    BY <1>5, <1>7, <2>2
  <2>3. CASE Wanted(e) /\ tool \notin {"dashboards", "series"}
    <3>1. selected = Truncated(w, limit)
      BY <1>7, <2>3
    <3>2. selected' = IF Len(selected) < limit THEN Append(selected, n + 1) ELSE selected
      BY <2>3
    <3>3. InOrder(WantedOf(gsource')) = Append(w, n + 1)
      BY <1>5, <2>3
    <3> HIDE DEF w, n
    <3>4. /\ Len(Truncated(w, limit)) < limit =>
               Truncated(Append(w, n + 1), limit) = Append(Truncated(w, limit), n + 1)
          /\ ~(Len(Truncated(w, limit)) < limit) =>
               Truncated(Append(w, n + 1), limit) = Truncated(w, limit)
      BY <1>1, <1>4, TruncatedGrows
    <3> QED
      BY <2>3, <3>1, <3>2, <3>3, <3>4
  <2> QED
    BY <2>1, <2>2, <2>3
<1>9. \A x : Normalizes(x)' <=> Normalizes(x)
  BY DEF Normalizes, ValidLabels
<1>10. ListRead'
  <2>1. \A i \in 1..Len(gsource') : gsource'[i].lines = << >>
    BY <1>1, <1>2, <1>3 DEF ListRead
  <2>2. tool \in Rules => \A i \in 1..Len(gsource') : gsource'[i].class # "other"
    BY <1>1, <1>2, <1>3 DEF ListRead
  <2>3. tool \notin Rules \cup {"traces"} => \A i \in 1..Len(gsource') : Normalizes(gsource'[i])
    BY <1>1, <1>2, <1>3 DEF ListRead
  <2>4. tool \notin Rules \cup {"traces"} => \A i \in 1..Len(gsource') : Normalizes(gsource[i])'
    BY <2>3 DEF Normalizes, ValidLabels
  <2> QED
    BY <1>6, <1>8, <2>1, <2>2, <2>4 DEF ListRead
<1>11. GrafanaListsExact'
  BY NothingYet DEF GrafanaListsExact, FirstWantedReturned, MalformedSpoils, UrlsLeftOut, LinesBounded
<1> QED
  BY <1>1, <1>2, <1>10, <1>11 DEF GrafanaInv

\* Fail keeps the invariant.
LEMMA RefusedEntryKeeps ==
  ASSUME GrafanaInv, UNCHANGED <<tool, limit, filter>>, tool # "traces",
         NEW e \in AnyGrafanaEntry, gsource' = Append(gsource, e),
         ~Normalizes(e), tool \in Rules => e.class = "other", Fail
  PROVE  GrafanaInv'
<1> DEFINE n == Len(gsource)
<1>1. gsource \in Seq(AnyGrafanaEntry) /\ n \in Nat /\ tool \in GrafanaTools /\ limit \in Nat \ {0}
  BY DEF GrafanaInv
<1>2. /\ gsource' \in Seq(AnyGrafanaEntry) /\ Len(gsource') = n + 1 /\ gsource'[n + 1] = e
      /\ n + 1 \in 1..Len(gsource')
  BY <1>1
<1>3. grafanaVerdict' = "invalid_response" /\ grafanaVerdict' # "reading" /\ grafanaVerdict' # "ok"
  BY DEF Fail
<1>5. MalformedSpoils'
  <2>1. tool \in Rules => tool # "traces"
    BY DEF Rules
  <2>2. \E i \in 1..Len(gsource') :
          ~Normalizes(gsource'[i]) /\ (tool \in Rules => gsource'[i].class = "other")
    BY <1>2
  <2>3. \E i \in 1..Len(gsource') :
          ~Normalizes(gsource[i])' /\ (tool \in Rules => gsource'[i].class = "other")
    BY <2>2 DEF Normalizes, ValidLabels
  <2> QED
    BY <1>3, <2>1, <2>3 DEF MalformedSpoils, Suspects, BadLine
<1>6. GrafanaListsExact'
  BY <1>3, <1>5 DEF GrafanaListsExact, FirstWantedReturned, UrlsLeftOut, LinesBounded
<1> QED
  BY <1>1, <1>2, <1>3, <1>6 DEF GrafanaInv

\* The other list tools keep what they read, in the same way.
LEMMA InstancesInOrder ==
  ASSUME GrafanaInv, grafanaVerdict = "reading", tool = "alert_instances"
  PROVE  Len(gsource) + 1 <= limit <=> Len(selected) < limit
<1> DEFINE n == Len(gsource)
<1>1. gsource \in Seq(AnyGrafanaEntry) /\ n \in Nat /\ limit \in Nat /\ ListRead
  BY DEF GrafanaInv
<1>2. WantedOf(gsource) = 1..n
  BY DEF WantedOf, Wanted, Rules
<1> DEFINE w == InOrder(WantedOf(gsource))
<1>3. w \in Seq(Nat) /\ Len(w) = n
  <2>1. InOrder(1..n) = [i \in 1..n |-> i]
    BY <1>1, InOrderOfAll
  <2> HIDE DEF n
  <2>2. [i \in 1..n |-> i] \in Seq(Nat) /\ Len([i \in 1..n |-> i]) = n
    BY <1>1
  <2> QED
    BY <1>2, <2>1, <2>2
<1>4. selected = Truncated(w, limit)
  BY <1>1 DEF ListRead
<1> HIDE DEF w, n
<1>5. Len(selected) = IF limit < n THEN limit ELSE n
  BY <1>1, <1>3, <1>4, TruncatedIs
<1>6. n + 1 <= limit <=> Len(selected) < limit
  BY <1>1, <1>5
<1> QED
  BY <1>6 DEF n

\* ReadEntry keeps the invariant.
LEMMA ReadEntryKeeps == ASSUME GrafanaInv, ReadEntry PROVE GrafanaInv'
<1>1. /\ grafanaVerdict = "reading" /\ tool # "streams"
      /\ UNCHANGED <<tool, limit, filter, lines, remaining, result>>
      /\ tool \in GrafanaTools
  BY DEF ReadEntry, GrafanaInv
<1>2. PICK e \in GrafanaEntries :
        LET i == Len(gsource) + 1 IN
        /\ gsource' = Append(gsource, e)
        /\ CASE tool \in Rules -> SelectRule(e, i)
             [] tool = "alert_instances" -> NormalizeAlertInstance(e, i)
             [] tool = "silences" -> NormalizeSilence(e, i)
             [] tool = "dashboards" -> NormalizeDashboard(e, i)
             [] tool = "traces" -> TakeTrace(i)
             [] tool = "series" -> NormalizeSeries(e, i)
  BY DEF ReadEntry
<1> DEFINE i == Len(gsource) + 1
<1>3. e \in AnyGrafanaEntry /\ e.lines = << >> /\ gsource' = Append(gsource, e)
  BY <1>1, <1>2, GrafanaEntryIs
<1>4. CASE tool \in Rules
  <2>1. SelectRule(e, i) /\ tool \notin {"dashboards", "series", "traces", "streams"}
        /\ ~(tool \notin Rules \cup {"traces"})
    BY <1>2, <1>4 DEF Rules
  <2>2. CASE e.class = "other"
    <3>1. Fail /\ ~Normalizes(e)
      BY <2>1, <2>2 DEF SelectRule, Normalizes
    <3> QED
      BY <1>1, <1>3, <2>1, <2>2, <3>1, RefusedEntryKeeps
  <2>3. CASE e.class # "other"
    <3>1. /\ UNCHANGED grafanaVerdict /\ (~Wanted(e) => selected' = selected)
          /\ Wanted(e) => selected' = IF Len(selected) < limit THEN Append(selected, i) ELSE selected
      BY <2>1, <2>3 DEF SelectRule, KeepLimited
    <3> QED
      BY <1>1, <1>3, <2>1, <2>3, <3>1, EntryKeeps
  <2> QED
    BY <2>2, <2>3
<1>5. CASE tool = "alert_instances"
  <2>1. NormalizeAlertInstance(e, i) /\ tool \notin Rules /\ Wanted(e)
        /\ tool \notin {"dashboards", "series", "traces", "streams"}
    BY <1>2, <1>5 DEF Rules, Wanted
  <2>2. CASE ~Normalizes(e)
    <3>1. Fail
      BY <2>1, <2>2 DEF NormalizeAlertInstance
    <3> QED
      BY <1>1, <1>3, <2>1, <2>2, <3>1, RefusedEntryKeeps
  <2>3. CASE Normalizes(e)
    <3>1. UNCHANGED grafanaVerdict
          /\ selected' = IF i <= limit THEN Append(selected, i) ELSE selected
      BY <2>1, <2>3 DEF NormalizeAlertInstance
    <3>2. i <= limit <=> Len(selected) < limit
      BY <1>1, <1>5, InstancesInOrder
    <3>3. selected' = IF Len(selected) < limit THEN Append(selected, i) ELSE selected
      BY <3>1, <3>2
    <3> QED
      BY <1>1, <1>3, <2>1, <2>3, <3>1, <3>3, EntryKeeps
  <2> QED
    BY <2>2, <2>3
<1>6. CASE tool = "silences"
  <2>1. NormalizeSilence(e, i) /\ tool \notin Rules
        /\ tool \notin {"dashboards", "series", "traces", "streams"}
    BY <1>2, <1>6 DEF Rules
  <2>2. CASE ~Normalizes(e)
    <3>1. Fail
      BY <2>1, <2>2 DEF NormalizeSilence
    <3> QED
      BY <1>1, <1>3, <2>1, <2>2, <3>1, RefusedEntryKeeps
  <2>3. CASE Normalizes(e)
    <3>1. /\ UNCHANGED grafanaVerdict /\ (~Wanted(e) => selected' = selected)
          /\ Wanted(e) => selected' = IF Len(selected) < limit THEN Append(selected, i) ELSE selected
      BY <2>1, <2>3 DEF NormalizeSilence, KeepLimited
    <3> QED
      BY <1>1, <1>3, <2>1, <2>3, <3>1, EntryKeeps
  <2> QED
    BY <2>2, <2>3
<1>7. CASE tool \in {"dashboards", "series"}
  <2>1. NormalizeDashboard(e, i) /\ tool \notin Rules /\ Wanted(e) /\ tool \notin {"traces", "streams"}
    BY <1>2, <1>7 DEF Rules, Wanted, NormalizeSeries
  <2>2. CASE ~Normalizes(e)
    <3>1. Fail
      BY <2>1, <2>2 DEF NormalizeDashboard
    <3> QED
      BY <1>1, <1>3, <2>1, <2>2, <3>1, RefusedEntryKeeps
  <2>3. CASE Normalizes(e)
    <3>1. UNCHANGED grafanaVerdict /\ selected' = Append(selected, i)
      BY <2>1, <2>3 DEF NormalizeDashboard
    <3> QED
      BY <1>1, <1>3, <1>7, <2>1, <2>3, <3>1, EntryKeeps
  <2> QED
    BY <2>2, <2>3
<1>8. CASE tool = "traces"
  <2>1. TakeTrace(i) /\ tool \notin Rules /\ Wanted(e) /\ tool \notin {"dashboards", "series", "streams"}
        /\ ~(tool \notin Rules \cup {"traces"})
    BY <1>2, <1>8 DEF Rules, Wanted
  <2>2. UNCHANGED grafanaVerdict
        /\ selected' = IF Len(selected) < limit THEN Append(selected, i) ELSE selected
    BY <2>1 DEF TakeTrace, KeepLimited
  <2> QED
    BY <1>1, <1>3, <2>1, <2>2, EntryKeeps
<1> QED
  BY <1>1, <1>4, <1>5, <1>6, <1>7, <1>8, ToolsAssumption DEF Rules

\* One element more in a sequence is one more in its range.
LEMMA RangeGrows ==
  ASSUME NEW S, NEW s \in Seq(S), NEW x \in S
  PROVE  Range(Append(s, x)) = Range(s) \cup {x}
<1> DEFINE t == Append(s, x)
<1>1. /\ Len(s) \in Nat /\ DOMAIN s = 1..Len(s) /\ DOMAIN t = 1..(Len(s) + 1)
      /\ t[Len(s) + 1] = x /\ \A k \in 1..Len(s) : t[k] = s[k]
  OBVIOUS
<1> HIDE DEF t
<1>2. \A k : k \in 1..(Len(s) + 1) <=> k \in 1..Len(s) \/ k = Len(s) + 1
  BY <1>1
<1>3. \A y : y \in Range(t) <=> \E k \in 1..(Len(s) + 1) : y = t[k]
  BY <1>1 DEF Range
<1>4. \A y : y \in Range(s) <=> \E k \in 1..Len(s) : y = s[k]
  BY <1>1 DEF Range
<1>5. \A y : y \in Range(t) <=> y \in Range(s) \/ y = x
  BY <1>1, <1>2, <1>3, <1>4
<1>6. Range(t) = Range(s) \cup {x}
  BY <1>5
<1> QED
  BY <1>6 DEF t

\* The lines of a response.
LinesOf(s) == UNION {{<<i, k>> : k \in 1..Len(s[i].lines)} : i \in 1..Len(s)}

\* What the lines of the streams are.
LEMMA LineIs ==
  ASSUME NEW s
  PROVE  \A p : p \in LinesOf(s) <=> \E i \in 1..Len(s) : \E k \in 1..Len(s[i].lines) : p = <<i, k>>
<1>1. ASSUME NEW p PROVE p \in LinesOf(s) => \E i \in 1..Len(s) : \E k \in 1..Len(s[i].lines) : p = <<i, k>>
  BY DEF LinesOf
<1>2. ASSUME NEW p, NEW i \in 1..Len(s), NEW k \in 1..Len(s[i].lines), p = <<i, k>> PROVE p \in LinesOf(s)
  <2>1. p \in {<<i, m>> : m \in 1..Len(s[i].lines)}
    BY <1>2
  <2> QED
    BY <2>1 DEF LinesOf
<1> QED
  BY <1>1, <1>2

\* A stream without lines adds none.
LEMMA EmptyStreamAddsNone ==
  ASSUME NEW s \in Seq(AnyGrafanaEntry), NEW e \in AnyGrafanaEntry, e.lines = << >>
  PROVE  LinesOf(Append(s, e)) = LinesOf(s)
<1> DEFINE n == Len(s)
           t == Append(s, e)
<1>1. /\ n \in Nat /\ Len(t) = n + 1 /\ t[n + 1] = e /\ \A i \in 1..n : t[i] = s[i]
  OBVIOUS
<1> HIDE DEF t
<1>2. \A i : i \in 1..(n + 1) <=> i \in 1..n \/ i = n + 1
  BY <1>1
<1>3. \A k : k \notin 1..Len(t[n + 1].lines)
  <2>1. Len(t[n + 1].lines) = 0
    BY <1>1
  <2> QED
    BY <2>1
<1>4. ASSUME NEW p PROVE p \in LinesOf(t) <=> p \in LinesOf(s)
  <2>1. p \in LinesOf(t) <=> \E i \in 1..(n + 1) : \E k \in 1..Len(t[i].lines) : p = <<i, k>>
    BY <1>1, LineIs
  <2>2. p \in LinesOf(s) <=> \E i \in 1..n : \E k \in 1..Len(s[i].lines) : p = <<i, k>>
    BY LineIs
  <2>3. ASSUME NEW i \in 1..(n + 1), NEW k \in 1..Len(t[i].lines), p = <<i, k>> PROVE p \in LinesOf(s)
    <3>1. i \in 1..n
      BY <1>2, <1>3
    <3> QED
      BY <1>1, <2>2, <2>3, <3>1
  <2>4. ASSUME NEW i \in 1..n, NEW k \in 1..Len(s[i].lines), p = <<i, k>> PROVE p \in LinesOf(t)
    <3>1. i \in 1..(n + 1) /\ k \in 1..Len(t[i].lines)
      BY <1>1, <1>2
    <3> QED
      BY <2>1, <2>4, <3>1
  <2> QED
    BY <2>1, <2>2, <2>3, <2>4
<1>5. LinesOf(t) = LinesOf(s)
  BY <1>4
<1> QED
  BY <1>5 DEF t

\* The next line of the last stream comes after all others.
LEMMA LinesReplaced ==
  ASSUME NEW s \in Seq(AnyGrafanaEntry), NEW n \in 1..Len(s), NEW y \in Seq(BOOLEAN)
  PROVE  LET t == [s EXCEPT ![n].lines = y] IN
         /\ t \in Seq(AnyGrafanaEntry) /\ Len(t) = Len(s) /\ t[n].lines = y
         /\ \A i \in 1..Len(s) : /\ t[i].fields = s[i].fields /\ t[i].labels = s[i].labels
                                 /\ t[i].class = s[i].class
                                 /\ i # n => t[i].lines = s[i].lines
<1> DEFINE e == s[n]
           x == [e EXCEPT !.lines = y]
<1>1. e \in AnyGrafanaEntry
  OBVIOUS
<1>2. [s EXCEPT ![n].lines = y] = [s EXCEPT ![n] = x]
  OBVIOUS
<1> HIDE DEF e
<1>3. /\ x \in AnyGrafanaEntry /\ x.lines = y /\ x.fields = e.fields /\ x.labels = e.labels
      /\ x.class = e.class
  BY <1>1 DEF AnyGrafanaEntry
<1> HIDE DEF x
<1> DEFINE r == [s EXCEPT ![n] = x]
<1>4. /\ r \in Seq(AnyGrafanaEntry) /\ Len(r) = Len(s) /\ r[n] = x
      /\ \A i \in 1..Len(s) : i # n => r[i] = s[i]
  BY <1>3
<1> HIDE DEF r
<1>5. \A i \in 1..Len(s) : /\ r[i].fields = s[i].fields /\ r[i].labels = s[i].labels
                           /\ r[i].class = s[i].class
                           /\ i # n => r[i].lines = s[i].lines
  BY <1>3, <1>4 DEF e
<1>6. [s EXCEPT ![n].lines = y] = r
  BY <1>2 DEF r
<1> QED
  BY <1>3, <1>4, <1>5, <1>6

\* A line appended to the last stream comes after all others.
LEMMA NextLineIsLast ==
  ASSUME NEW s \in Seq(AnyGrafanaEntry), s # << >>, NEW b \in BOOLEAN,
         NEW t, Len(t) = Len(s), t[Len(s)].lines = Append(s[Len(s)].lines, b),
         \A i \in 1..Len(s) : i # Len(s) => t[i].lines = s[i].lines
  PROVE  LET l == <<Len(s), Len(s[Len(s)].lines) + 1>> IN
         /\ LinesOf(t) = LinesOf(s) \cup {l}
         /\ l \in Nat \X Nat /\ l \notin LinesOf(s)
         /\ \A p \in LinesOf(s) : Before(p, l)
<1> DEFINE n == Len(s)
           u == s[n].lines
           m == Len(u)
           l == <<n, m + 1>>
<1>1. n \in Nat /\ n # 0 /\ n \in 1..n /\ s[n] \in AnyGrafanaEntry
  OBVIOUS
<1>2. u \in Seq(BOOLEAN) /\ m \in Nat
  BY <1>1 DEF AnyGrafanaEntry
<1>3. Append(u, b) \in Seq(BOOLEAN) /\ Len(Append(u, b)) = m + 1
  BY <1>2
<1>10. t[n].lines = Append(u, b) /\ Len(t[n].lines) = m + 1 /\ Len(t) = n
  BY <1>3
<1>11. \A i \in 1..n : i # n => t[i].lines = s[i].lines
  OBVIOUS
<1> HIDE DEF n, u, m
<1>12. \A k : k \in 1..(m + 1) <=> k \in 1..m \/ k = m + 1
  BY <1>2
<1>13. \A p : p \in LinesOf(t) <=> \E i \in 1..n : \E k \in 1..Len(t[i].lines) : p = <<i, k>>
  <2>1. \A p : p \in LinesOf(t) <=> \E i \in 1..Len(t) : \E k \in 1..Len(t[i].lines) : p = <<i, k>>
    BY LineIs
  <2>2. Len(t) = n
    BY <1>10
  <2> QED
    BY <2>1, <2>2
<1>14. \A p : p \in LinesOf(s) <=> \E i \in 1..n : \E k \in 1..Len(s[i].lines) : p = <<i, k>>
  BY LineIs DEF n
<1>15. Len(s[n].lines) = m
  BY DEF m, u
<1>16. ASSUME NEW p \in LinesOf(t) PROVE p \in LinesOf(s) \cup {l}
  <2>1. PICK i \in 1..n : \E k \in 1..Len(t[i].lines) : p = <<i, k>>
    BY <1>13
  <2>2. PICK k \in 1..Len(t[i].lines) : p = <<i, k>>
    BY <2>1
  <2>3. CASE i # n
    BY <1>11, <1>14, <2>2, <2>3
  <2>4. CASE i = n
    <3>1. k \in 1..(m + 1)
      BY <1>10, <2>4
    <3>2. CASE k = m + 1
      BY <2>2, <2>4, <3>2
    <3>3. CASE k \in 1..m
      BY <1>14, <1>15, <2>2, <2>4, <3>3
    <3> QED
      BY <1>12, <3>1, <3>2, <3>3
  <2> QED
    BY <2>3, <2>4
<1>17. ASSUME NEW p \in LinesOf(s) PROVE p \in LinesOf(t)
  <2>1. PICK i \in 1..n : \E k \in 1..Len(s[i].lines) : p = <<i, k>>
    BY <1>14
  <2>2. PICK k \in 1..Len(s[i].lines) : p = <<i, k>>
    BY <2>1
  <2>3. CASE i # n
    BY <1>11, <1>13, <2>2, <2>3
  <2>4. CASE i = n
    <3>1. k \in 1..m
      BY <1>15, <2>4
    <3>2. k \in 1..Len(t[n].lines)
      BY <1>10, <1>12, <3>1
    <3> QED
      BY <1>13, <2>2, <2>4, <3>2
  <2> QED
    BY <2>3, <2>4
<1>18. l \in LinesOf(t)
  <2>1. m + 1 \in 1..Len(t[n].lines)
    BY <1>2, <1>10
  <2> QED
    BY <1>1, <1>13, <2>1
<1>19. ASSUME NEW p \in LinesOf(s) PROVE Before(p, l)
  <2>1. PICK i \in 1..n : \E k \in 1..Len(s[i].lines) : p = <<i, k>>
    BY <1>14
  <2>2. PICK k \in 1..Len(s[i].lines) : p = <<i, k>>
    BY <2>1
  <2>3. p[1] = i /\ p[2] = k /\ l[1] = n /\ l[2] = m + 1
    BY <2>2
  <2>4. i < n \/ (i = n /\ k < m + 1)
    BY <1>1, <1>2, <1>15
  <2> QED
    BY <2>3, <2>4 DEF Before
<1>20. l \notin LinesOf(s)
  <2>1. l[1] = n /\ l[2] = m + 1
    OBVIOUS
  <2>2. ~Before(l, l)
    <3>1. ~(n < n) /\ ~(m + 1 < m + 1)
      BY <1>1, <1>2
    <3> QED
      BY <2>1, <3>1 DEF Before
  <2> QED
    BY <1>19, <2>2
<1>21. l \in Nat \X Nat
  <2>1. n \in Nat /\ m + 1 \in Nat
    BY <1>1, <1>2
  <2> QED
    BY <2>1
<1>22. LinesOf(t) = LinesOf(s) \cup {l}
  BY <1>16, <1>17, <1>18
<1> QED
  BY <1>19, <1>20, <1>21, <1>22 DEF n, u, m

\* A response of streams: the next stream.
LEMMA ReadStreamKeeps == ASSUME GrafanaInv, ReadStream PROVE GrafanaInv'
<1>1. /\ grafanaVerdict = "reading" /\ tool = "streams" /\ tool \in GrafanaTools
      /\ UNCHANGED <<tool, limit, filter, selected, lines, remaining, result>>
      /\ gsource \in Seq(AnyGrafanaEntry) /\ limit \in Nat \ {0} /\ StreamsRead
  BY DEF ReadStream, GrafanaInv
<1>2. PICK e \in GrafanaEntries :
        /\ gsource' = Append(gsource, e)
        /\ IF e.fields THEN UNCHANGED grafanaVerdict ELSE grafanaVerdict' = "invalid_response"
  BY DEF ReadStream
<1>3. e \in AnyGrafanaEntry /\ e.lines = << >> /\ e.labels = {} /\ e.class = "entry"
  BY <1>1, GrafanaEntryIs
<1>4. CASE ~e.fields
  <2>1. Fail /\ ~Normalizes(e) /\ tool # "traces" /\ ~(tool \in Rules)
    BY <1>1, <1>2, <1>4 DEF Fail, Normalizes, Rules
  <2>2. UNCHANGED <<tool, limit, filter>> /\ gsource' = Append(gsource, e)
    BY <1>1, <1>2
  <2> QED
    BY <1>3, <2>1, <2>2, RefusedEntryKeeps
<1>5. CASE e.fields
  <2> DEFINE n == Len(gsource)
  <2>1. grafanaVerdict' = "reading" /\ gsource' = Append(gsource, e) /\ tool' = "streams"
    BY <1>1, <1>2, <1>5
  <2>2. /\ gsource' \in Seq(AnyGrafanaEntry) /\ Len(gsource') = n + 1 /\ gsource'[n + 1] = e
        /\ \A i \in 1..n : gsource'[i] = gsource[i]
        /\ n \in Nat
    BY <1>1, <1>3, <2>1
  <2>3. LinesOf(gsource') = LinesOf(gsource)
    BY <1>1, <1>3, <2>1, EmptyStreamAddsNone
  <2>4. Lines = LinesOf(gsource) /\ Lines' = LinesOf(gsource')
    BY DEF Lines, LinesOf
  <2>5. Normalizes(e)
    <3>1. Cardinality(e.labels) = 0 /\ "missing" \notin e.labels
      BY <1>3, FS_EmptySet
    <3>2. MaxMapEntries \in Nat
      BY GrafanaLimitsAssumption
    <3>3. Cardinality(e.labels) <= MaxMapEntries
      BY <3>1, <3>2
    <3> QED
      BY <1>3, <1>5, <3>1, <3>3 DEF Normalizes, ValidLabels, ValidMap
  <2>6. \A k : k \notin 1..Len(e.lines)
    <3>1. Len(e.lines) = 0
      BY <1>3
    <3> QED
      BY <3>1
  <2> HIDE DEF n
  <2>7. \A i \in 1..(n + 1) : i \in 1..n \/ i = n + 1
    BY <2>2
  <2>8. \A i \in 1..n : Normalizes(gsource[i]) /\ \A k \in 1..Len(gsource[i].lines) : gsource[i].lines[k]
    BY <1>1 DEF StreamsRead, n
  <2>9. \A i \in 1..Len(gsource') :
          Normalizes(gsource'[i]) /\ \A k \in 1..Len(gsource'[i].lines) : gsource'[i].lines[k]
    BY <2>2, <2>5, <2>6, <2>7, <2>8
  <2>10. \A i \in 1..Len(gsource') :
           Normalizes(gsource[i])' /\ \A k \in 1..Len(gsource'[i].lines) : gsource'[i].lines[k]
    BY <1>1, <2>9 DEF Normalizes, ValidLabels
  <2>11. Lines' = Lines /\ lines' = lines /\ remaining' = remaining /\ limit' = limit
    BY <1>1, <2>3, <2>4
  <2>12. StreamsRead'
    BY <1>1, <2>10, <2>11 DEF StreamsRead
  <2>13. GrafanaListsExact'
    BY <2>1 DEF GrafanaListsExact, FirstWantedReturned, MalformedSpoils, UrlsLeftOut, LinesBounded
  <2> QED
    BY <1>1, <2>1, <2>2, <2>12, <2>13 DEF GrafanaInv
<1> QED
  BY <1>4, <1>5

\* The next line of the last stream: kept while some remain.
LEMMA ReadLineKeeps == ASSUME GrafanaInv, ReadLine PROVE GrafanaInv'
<1> DEFINE n == Len(gsource)
           u == gsource[n].lines
           l == <<n, Len(u) + 1>>
<1>1. /\ grafanaVerdict = "reading" /\ tool = "streams" /\ tool \in GrafanaTools
      /\ UNCHANGED <<tool, limit, filter, selected, result>> /\ gsource # << >>
      /\ gsource \in Seq(AnyGrafanaEntry) /\ limit \in Nat \ {0} /\ StreamsRead
  BY DEF ReadLine, GrafanaInv
<1>2. PICK ok \in BOOLEAN :
        /\ gsource' = [gsource EXCEPT ![Len(gsource)].lines = Append(@, ok)] /\ KeepLine(ok)
  BY DEF ReadLine
<1>3. gsource' = [gsource EXCEPT ![Len(gsource)].lines = Append(gsource[Len(gsource)].lines, ok)]
  BY <1>2
<1>5. n \in Nat /\ n \in 1..n /\ u \in Seq(BOOLEAN) /\ Len(u) \in Nat
  <2>1. n \in Nat /\ n \in 1..n /\ gsource[n] \in AnyGrafanaEntry
    BY <1>1
  <2>2. u \in Seq(BOOLEAN)
    BY <2>1 DEF AnyGrafanaEntry
  <2> HIDE DEF u
  <2> QED
    BY <2>1, <2>2
<1>4. /\ gsource' \in Seq(AnyGrafanaEntry) /\ Len(gsource') = n
      /\ LinesOf(gsource') = LinesOf(gsource) \cup {l}
      /\ l \in Nat \X Nat /\ l \notin LinesOf(gsource)
      /\ \A p \in LinesOf(gsource) : Before(p, l)
      /\ \A i \in 1..n : /\ gsource'[i].fields = gsource[i].fields /\ gsource'[i].labels = gsource[i].labels
                         /\ gsource'[i].class = gsource[i].class
                         /\ i # n => gsource'[i].lines = gsource[i].lines
      /\ gsource'[n].lines = Append(u, ok)
  <2> DEFINE t == gsource'
             y == Append(u, ok)
  <2>1. y \in Seq(BOOLEAN) /\ t = [gsource EXCEPT ![n].lines = y] /\ n \in 1..Len(gsource)
    BY <1>3, <1>5
  <2> HIDE DEF t, y
  <2>2. LET r == [gsource EXCEPT ![n].lines = y] IN
        /\ r \in Seq(AnyGrafanaEntry) /\ Len(r) = Len(gsource) /\ r[n].lines = y
        /\ \A i \in 1..Len(gsource) : /\ r[i].fields = gsource[i].fields /\ r[i].labels = gsource[i].labels
                                      /\ r[i].class = gsource[i].class
                                      /\ i # n => r[i].lines = gsource[i].lines
    BY <1>1, <2>1, LinesReplaced
  <2>3. /\ t \in Seq(AnyGrafanaEntry) /\ Len(t) = Len(gsource) /\ t[n].lines = y
        /\ \A i \in 1..Len(gsource) : /\ t[i].fields = gsource[i].fields /\ t[i].labels = gsource[i].labels
                                      /\ t[i].class = gsource[i].class
                                      /\ i # n => t[i].lines = gsource[i].lines
    BY <2>1, <2>2
  <2>4. Len(t) = Len(gsource) /\ t[Len(gsource)].lines = Append(gsource[Len(gsource)].lines, ok)
        /\ \A i \in 1..Len(gsource) : i # Len(gsource) => t[i].lines = gsource[i].lines
    BY <2>3 DEF y
  <2>5. LET q == <<Len(gsource), Len(gsource[Len(gsource)].lines) + 1>> IN
        /\ LinesOf(t) = LinesOf(gsource) \cup {q}
        /\ q \in Nat \X Nat /\ q \notin LinesOf(gsource)
        /\ \A p \in LinesOf(gsource) : Before(p, q)
    BY <1>1, <2>4, NextLineIsLast
  <2>6. /\ LinesOf(t) = LinesOf(gsource) \cup {l}
        /\ l \in Nat \X Nat /\ l \notin LinesOf(gsource)
        /\ \A p \in LinesOf(gsource) : Before(p, l)
    BY <2>5
  <2> HIDE DEF l, n, u
  <2>7. /\ t \in Seq(AnyGrafanaEntry) /\ Len(t) = n /\ t[n].lines = Append(u, ok)
        /\ \A i \in 1..n : /\ t[i].fields = gsource[i].fields /\ t[i].labels = gsource[i].labels
                           /\ t[i].class = gsource[i].class
                           /\ i # n => t[i].lines = gsource[i].lines
    BY <2>3 DEF y, n
  <2> QED
    BY <2>6, <2>7 DEF t
<1>6. Lines = LinesOf(gsource) /\ Lines' = LinesOf(gsource')
  BY DEF Lines, LinesOf
<1>7. \A i \in 1..n : Normalizes(gsource[i]) => Normalizes(gsource'[i])
  BY <1>4 DEF Normalizes, ValidLabels
<1>8. \A i \in 1..n : Normalizes(gsource[i]) /\ \A k \in 1..Len(gsource[i].lines) : gsource[i].lines[k]
  BY <1>1 DEF StreamsRead
<1> HIDE DEF n, u
<1>9. gsource'[n].lines[Len(u) + 1] = ok /\ Len(gsource'[n].lines) = Len(u) + 1
      /\ \A k \in 1..Len(u) : gsource'[n].lines[k] = u[k]
  BY <1>4, <1>5
<1>10. CASE ~ok
  <2>1. grafanaVerdict' = "invalid_response" /\ tool' = "streams" /\ tool' \notin Rules
    BY <1>1, <1>2, <1>10 DEF KeepLine, Rules
  <2>2. n \in 1..Len(gsource') /\ Len(u) + 1 \in 1..Len(gsource'[n].lines)
        /\ ~gsource'[n].lines[Len(u) + 1]
    BY <1>4, <1>5, <1>9, <1>10
  <2>3. \E i \in 1..Len(gsource') : \E k \in 1..Len(gsource'[i].lines) : ~gsource'[i].lines[k]
    BY <2>2
  <2>4. MalformedSpoils'
    BY <2>1, <2>3 DEF MalformedSpoils, Suspects, BadLine
  <2>5. GrafanaListsExact'
    BY <2>1, <2>4 DEF GrafanaListsExact, FirstWantedReturned, UrlsLeftOut, LinesBounded
  <2> QED
    BY <1>1, <1>4, <2>1, <2>5 DEF GrafanaInv
<1>11. CASE ok
  <2>1. grafanaVerdict' = "reading"
    BY <1>1, <1>2, <1>11 DEF KeepLine
  <2>2. GrafanaListsExact'
    BY <2>1 DEF GrafanaListsExact, FirstWantedReturned, MalformedSpoils, UrlsLeftOut, LinesBounded
  <2>3. \A k \in 1..(Len(u) + 1) : k \in 1..Len(u) \/ k = Len(u) + 1
    BY <1>5
  <2>4. \A k \in 1..Len(gsource'[n].lines) : gsource'[n].lines[k]
    BY <1>5, <1>8, <1>9, <1>11, <2>3 DEF u
  <2>5. \A i \in 1..n : Normalizes(gsource'[i]) /\ \A k \in 1..Len(gsource'[i].lines) : gsource'[i].lines[k]
    <3>1. ASSUME NEW i \in 1..n, i # n PROVE \A k \in 1..Len(gsource'[i].lines) : gsource'[i].lines[k]
      BY <1>4, <1>8, <3>1
    <3> QED
      BY <1>7, <1>8, <2>4, <3>1
  <2>6. \A i \in 1..Len(gsource') :
           Normalizes(gsource[i])' /\ \A k \in 1..Len(gsource'[i].lines) : gsource'[i].lines[k]
    BY <1>1, <1>4, <2>5 DEF Normalizes, ValidLabels
  <2>7. /\ lines \in Seq(Nat \X Nat) /\ remaining \in Nat /\ Len(lines) + remaining = limit
        /\ Range(lines) \subseteq Lines
        /\ \A j, k \in 1..Len(lines) : j < k => Before(lines[j], lines[k])
        /\ \A p \in Lines \ Range(lines) :
             remaining = 0 /\ \A k \in 1..Len(lines) : Before(lines[k], p)
    BY <1>1 DEF StreamsRead
  <2>8. Lines' = Lines \cup {l} /\ l \notin Lines /\ \A p \in Lines : Before(p, l)
    BY <1>4, <1>6
  <2>9. \A k \in 1..Len(lines) : lines[k] \in Lines
    BY <2>7 DEF Range
  <2>10. CASE remaining > 0
    <3>1. lines' = Append(lines, l) /\ remaining' = remaining - 1
      BY <1>2, <1>11, <2>10 DEF KeepLine, n, u
    <3> HIDE DEF l
    <3>2. l \in Nat \X Nat
      BY <1>4
    <3>3. /\ lines' \in Seq(Nat \X Nat) /\ Len(lines') = Len(lines) + 1 /\ Len(lines) \in Nat
          /\ \A k \in 1..Len(lines) : lines'[k] = lines[k]
          /\ lines'[Len(lines) + 1] = l
      BY <2>7, <3>1, <3>2
    <3>4. remaining' \in Nat /\ Len(lines') + remaining' = limit'
      BY <1>1, <2>7, <2>10, <3>1, <3>3
    <3>5. \A k \in 1..Len(lines') : k \in 1..Len(lines) \/ k = Len(lines) + 1
      BY <3>3
    <3>6. Range(lines') = Range(lines) \cup {l}
      <4>1. lines \in Seq(Nat \X Nat)
        BY <2>7
      <4>2. Range(Append(lines, l)) = Range(lines) \cup {l}
        BY <3>2, <4>1, RangeGrows
      <4> QED
        BY <3>1, <4>2
    <3>7. Range(lines') \subseteq Lines'
      BY <2>7, <2>8, <3>6
    <3>8. ASSUME NEW j \in 1..Len(lines'), NEW k \in 1..Len(lines'), j < k
          PROVE  Before(lines'[j], lines'[k])
      <4>1. j \in 1..Len(lines)
        BY <3>3, <3>8
      <4>2. CASE k \in 1..Len(lines)
        BY <2>7, <3>3, <3>8, <4>1, <4>2
      <4>3. CASE k = Len(lines) + 1
        BY <2>8, <2>9, <3>3, <4>1, <4>3
      <4> QED
        BY <3>5, <4>2, <4>3
    <3>9. Lines' \ Range(lines') = {}
      <4>1. remaining # 0
        BY <2>7, <2>10
      <4> QED
        BY <2>7, <2>8, <3>6, <4>1
    <3>10. \A p \in Lines' \ Range(lines') :
             remaining' = 0 /\ \A k \in 1..Len(lines') : Before(lines'[k], p)
      BY <3>9
    <3>11. Range(lines)' = Range(lines')
      BY DEF Range
    <3>12. StreamsRead'
      BY <2>6, <3>3, <3>4, <3>7, <3>8, <3>10, <3>11 DEF StreamsRead
    <3> QED
      BY <1>1, <1>4, <2>1, <2>2, <3>12 DEF GrafanaInv
  <2>11. CASE ~(remaining > 0)
    <3>1. lines' = lines /\ remaining' = remaining
      BY <1>2, <1>11, <2>11 DEF KeepLine
    <3>2. remaining = 0
      BY <2>7, <2>11
    <3> HIDE DEF l
    <3>3. \A p \in Lines' \ Range(lines') :
            remaining' = 0 /\ \A k \in 1..Len(lines') : Before(lines'[k], p)
      BY <2>7, <2>8, <2>9, <3>1, <3>2
    <3>4. Range(lines') \subseteq Lines'
      BY <2>7, <2>8, <3>1
    <3>5. StreamsRead'
      BY <1>1, <2>6, <2>7, <3>1, <3>3, <3>4 DEF StreamsRead
    <3> QED
      BY <1>1, <1>4, <2>1, <2>2, <3>5 DEF GrafanaInv
  <2> QED
    BY <2>10, <2>11
<1> QED
  BY <1>10, <1>11

\* What is returned of the entries that were kept.
LEMMA ResultIs ==
  ASSUME NEW chosen \in Seq(Nat), NEW r, r = [k \in 1..Len(chosen) |-> Returned(chosen[k])]
  PROVE  /\ Len(r) = Len(chosen) /\ DOMAIN r = 1..Len(chosen)
         /\ \A k \in 1..Len(chosen) :
              r[k].at = chosen[k] /\ r[k].labels = SafeStringMap(gsource[chosen[k]].labels)
         /\ [k \in 1..Len(r) |-> r[k].at] = chosen
<1> DEFINE n == Len(chosen)
           f == [k \in 1..n |-> Returned(chosen[k])]
<1>1. n \in Nat /\ chosen \in [1..n -> Nat]
  OBVIOUS
<1>2. r = f
  OBVIOUS
<1> HIDE DEF n
<1>3. Len(f) = n /\ DOMAIN f = 1..n /\ \A k \in 1..n : f[k] = Returned(chosen[k])
  BY <1>1
<1> HIDE DEF f
<1>4. \A k \in 1..n : f[k].at = chosen[k] /\ f[k].labels = SafeStringMap(gsource[chosen[k]].labels)
  BY <1>3 DEF Returned
<1>5. [k \in 1..n |-> f[k].at] = chosen
  BY <1>1, <1>4
<1> QED
  BY <1>2, <1>3, <1>4, <1>5 DEF n

\* The streams that are returned are those of which a line was kept.
StreamsOf(ls, n) == {i \in 1..n : \E k \in 1..Len(ls) : ls[k][1] = i}

\* The streams that are returned are those of the lines.
LEMMA StreamsReturned ==
  ASSUME NEW n \in Nat, NEW ls, \A k \in 1..Len(ls) : ls[k][1] \in 1..n
  PROVE  LET chosen == InOrder(StreamsOf(ls, n)) IN
         /\ chosen \in Seq(Nat) /\ \A k \in 1..Len(chosen) : chosen[k] \in 1..n
         /\ \A i : i \in {ls[k][1] : k \in 1..Len(ls)} <=> \E k \in 1..Len(chosen) : chosen[k] = i
<1> DEFINE S == StreamsOf(ls, n)
<1>1. \A i \in S : i \in Nat
  BY DEF StreamsOf
<1>2. S \in SUBSET Nat /\ IsFiniteSet(S)
  <2>1. S \subseteq 1..n /\ 1 \in Int /\ n \in Int
    BY DEF StreamsOf
  <2>2. IsFiniteSet(1..n)
    BY <2>1, FS_Interval
  <2> QED
    BY <1>1, <2>1, <2>2, FS_Subset
<1>4. \A i : i \in S <=> \E k \in 1..Len(ls) : ls[k][1] = i
  BY DEF StreamsOf
<1>5. \A i \in S : i \in 1..n
  BY DEF StreamsOf
<1> HIDE DEF S
<1>6. InOrder(S) \in Seq(Nat) /\ Len(InOrder(S)) = Cardinality(S)
  BY <1>2, InOrderType
<1>7. /\ \A k \in 1..Cardinality(S) : InOrder(S)[k] \in S
      /\ \A i \in S : \E k \in 1..Cardinality(S) : InOrder(S)[k] = i
  BY <1>2, InOrderPlace
<1> DEFINE chosen == InOrder(S)
<1>8. /\ chosen \in Seq(Nat) /\ \A k \in 1..Len(chosen) : chosen[k] \in S
      /\ \A i \in S : \E k \in 1..Len(chosen) : chosen[k] = i
  BY <1>6, <1>7
<1> HIDE DEF chosen
<1>10. ASSUME NEW i PROVE i \in {ls[k][1] : k \in 1..Len(ls)} <=> i \in S
  BY <1>4
<1> QED
  <2>1. /\ chosen \in Seq(Nat) /\ \A k \in 1..Len(chosen) : chosen[k] \in 1..n
        /\ \A i : i \in {ls[k][1] : k \in 1..Len(ls)} <=> \E k \in 1..Len(chosen) : chosen[k] = i
    BY <1>5, <1>8, <1>10
  <2> QED
    BY <2>1 DEF chosen, S

\* The end of a list: the first wanted entries, as many as the limit allows.
LEMMA KeptAtEnd ==
  ASSUME NEW s \in Seq(AnyGrafanaEntry), NEW w, w = InOrder(WantedOf(s)), NEW m \in Nat
  PROVE  LET u == Truncated(w, m) IN
         /\ w \in Seq(Nat) /\ \A k \in 1..Len(w) : w[k] \in 1..Len(s)
         /\ u \in Seq(Nat) /\ \A k \in 1..Len(u) : u[k] \in 1..Len(s)
         /\ Truncated(u, m) = u
<1>1. /\ WantedOf(s) \in SUBSET Nat /\ IsFiniteSet(WantedOf(s)) /\ w \in Seq(Nat)
  BY WantedIs
<1>2. w \in Seq(WantedOf(s))
  BY <1>1, InOrderType
<1>3. \A i \in WantedOf(s) : i \in 1..Len(s)
  BY DEF WantedOf
<1>4. \A k \in 1..Len(w) : w[k] \in WantedOf(s)
  <2> DEFINE T == WantedOf(s)
  <2>1. w \in Seq(T)
    BY <1>2
  <2> HIDE DEF T
  <2>2. \A k \in 1..Len(w) : w[k] \in T
    BY <2>1
  <2> QED
    BY <2>2 DEF T
<1> DEFINE u == Truncated(w, m)
<1>5. /\ u \in Seq(Nat) /\ Len(u) = (IF m < Len(w) THEN m ELSE Len(w))
      /\ \A k \in 1..Len(u) : u[k] = w[k]
  BY <1>1, TruncatedIs
<1> HIDE DEF u
<1>6. /\ Truncated(u, m) \in Seq(Nat) /\ Len(Truncated(u, m)) = (IF m < Len(u) THEN m ELSE Len(u))
      /\ \A k \in 1..Len(Truncated(u, m)) : Truncated(u, m)[k] = u[k]
  BY <1>5, TruncatedIs
<1>7. Len(w) \in Nat /\ Len(u) \in Nat /\ Len(u) <= Len(w) /\ Len(Truncated(u, m)) = Len(u)
  BY <1>1, <1>5, <1>6
<1>8. Truncated(u, m) = u
  BY <1>5, <1>6, <1>7
<1>9. \A k \in 1..Len(u) : k \in 1..Len(w)
  BY <1>7
<1>10. \A k \in 1..Len(u) : u[k] \in 1..Len(s)
  BY <1>3, <1>4, <1>5, <1>9
<1> QED
  BY <1>1, <1>3, <1>4, <1>5, <1>8, <1>10 DEF u

\* What is kept when the response of a list, or of streams, has been read.
Kept == IF tool = "streams" THEN StreamsKept
        ELSE IF tool = "dashboards" THEN Truncated(selected, limit) ELSE selected

\* What is kept of a list: the first entries that were asked for, and every series.
LEMMA KeptOfList ==
  ASSUME GrafanaInv, grafanaVerdict = "reading", tool # "streams"
  PROVE  LET w == InOrder(WantedOf(gsource)) IN
         /\ Kept \in Seq(Nat) /\ \A k \in 1..Len(Kept) : Kept[k] \in 1..Len(gsource)
         /\ Kept = IF tool = "series" THEN GrafanaIndices ELSE Truncated(w, limit)
         /\ tool # "dashboards" => Kept = selected
<1> DEFINE w == InOrder(WantedOf(gsource))
           n == Len(gsource)
<1>1. gsource \in Seq(AnyGrafanaEntry) /\ limit \in Nat /\ n \in Nat /\ ListRead
  BY DEF GrafanaInv
<1>2. selected = IF tool \in {"dashboards", "series"} THEN w ELSE Truncated(w, limit)
  BY <1>1 DEF ListRead
<1>3. /\ w \in Seq(Nat) /\ \A k \in 1..Len(w) : w[k] \in 1..Len(gsource)
      /\ Truncated(w, limit) \in Seq(Nat)
      /\ \A k \in 1..Len(Truncated(w, limit)) : Truncated(w, limit)[k] \in 1..Len(gsource)
  BY <1>1, KeptAtEnd
<1>4. tool = "series" => w = GrafanaIndices
  <2>1. SUFFICES ASSUME tool = "series" PROVE w = GrafanaIndices
    OBVIOUS
  <2>2. WantedOf(gsource) = 1..n
    BY <2>1 DEF WantedOf, Wanted, Rules
  <2>3. InOrder(1..n) = [i \in 1..n |-> i]
    <3> HIDE DEF n
    <3> QED
      BY <1>1, InOrderOfAll
  <2> QED
    BY <2>2, <2>3 DEF GrafanaIndices
<1> HIDE DEF w
<1>5. Kept = IF tool = "series" THEN w ELSE Truncated(w, limit)
  BY <1>2 DEF Kept
<1>6. Kept = IF tool = "series" THEN GrafanaIndices ELSE Truncated(w, limit)
  BY <1>4, <1>5
<1>7. Kept \in Seq(Nat) /\ \A k \in 1..Len(Kept) : Kept[k] \in 1..Len(gsource)
  BY <1>3, <1>5
<1>8. tool # "dashboards" => Kept = selected
  BY <1>2, <1>5
<1> QED
  BY <1>6, <1>7, <1>8 DEF w

\* The result of a list is what was asked for.
LEMMA ListEnds ==
  ASSUME GrafanaInv, grafanaVerdict = "reading", tool # "streams",
         UNCHANGED <<tool, limit, filter, gsource, selected, lines, remaining>>,
         grafanaVerdict' = "ok",
         tool \in Rules => \A i \in Range(selected) : Normalizes(gsource[i]),
         result' = [k \in 1..Len(Kept) |-> Returned(Kept[k])]
  PROVE  GrafanaListsExact'
<1>1. /\ gsource \in Seq(AnyGrafanaEntry) /\ limit \in Nat /\ ListRead
      /\ tool \in GrafanaTools
  BY DEF GrafanaInv
<1>2. /\ Kept \in Seq(Nat) /\ \A k \in 1..Len(Kept) : Kept[k] \in 1..Len(gsource)
      /\ Kept = IF tool = "series" THEN GrafanaIndices ELSE Truncated(InOrder(WantedOf(gsource)), limit)
      /\ tool # "dashboards" => Kept = selected
  BY KeptOfList
<1>3. /\ Len(result') = Len(Kept) /\ DOMAIN result' = 1..Len(Kept)
      /\ \A k \in 1..Len(Kept) :
           result'[k].at = Kept[k] /\ result'[k].labels = SafeStringMap(gsource[Kept[k]].labels)
      /\ [k \in 1..Len(result') |-> result'[k].at] = Kept
  <2> DEFINE chosen == Kept
             r == result'
  <2>1. chosen \in Seq(Nat) /\ r = [k \in 1..Len(chosen) |-> Returned(chosen[k])]
    BY <1>2
  <2> HIDE DEF chosen, r
  <2>2. /\ Len(r) = Len(chosen) /\ DOMAIN r = 1..Len(chosen)
        /\ \A k \in 1..Len(chosen) :
             r[k].at = chosen[k] /\ r[k].labels = SafeStringMap(gsource[chosen[k]].labels)
        /\ [k \in 1..Len(r) |-> r[k].at] = chosen
    BY <2>1, ResultIs
  <2> QED
    BY <2>2 DEF chosen, r
<1>4. FirstWantedReturned'
  <2>1. {i \in 1..Len(gsource) : Wanted(gsource[i])}' = WantedOf(gsource)
    BY DEF WantedOf, Wanted
  <2>2. GrafanaIndices' = GrafanaIndices
    BY DEF GrafanaIndices
  <2>3. [k \in 1..Len(result') |-> result'[k].at]
          = IF tool = "series" THEN GrafanaIndices ELSE Truncated(InOrder(WantedOf(gsource)), limit)
    BY <1>2, <1>3
  <2> QED
    BY <2>1, <2>2, <2>3 DEF FirstWantedReturned
<1>5. MalformedSpoils'
  <2>1. \A i \in 1..Len(gsource) : ~BadLine(gsource[i])
    <3>1. ASSUME NEW i \in 1..Len(gsource) PROVE Len(gsource[i].lines) = 0
      BY <1>1 DEF ListRead
    <3> QED
      BY <3>1 DEF BadLine
  <2>2. \A e : Normalizes(e)' <=> Normalizes(e)
    BY DEF Normalizes, ValidLabels
  <2>3. CASE tool \in Rules
    <3>1. \A i \in 1..Len(gsource) : gsource[i].class # "other"
      BY <1>1, <2>3 DEF ListRead
    <3>2. ASSUME NEW k \in 1..Len(result')
          PROVE  result'[k].at \in 1..Len(gsource) /\ Normalizes(gsource[result'[k].at])
      <4>1. k \in 1..Len(Kept) /\ result'[k].at = Kept[k] /\ Kept = selected
        BY <1>2, <1>3, <2>3 DEF Rules
      <4>2. Kept[k] \in Range(Kept)
        BY <1>2, <4>1 DEF Range
      <4>3. Range(Kept) = Range(selected)
        BY <4>1
      <4> QED
        BY <1>2, <2>3, <4>1, <4>2, <4>3
    <3>3. \A k \in 1..Len(result') : Normalizes(gsource[result[k].at])' /\ result'[k].at \in 1..Len(gsource)
      BY <3>2 DEF Normalizes, ValidLabels
    <3>4. \A k \in 1..Len(result') :
            \A j \in 1..Len(gsource[result'[k].at].lines) : gsource[result'[k].at].lines[j]
      BY <2>1, <3>2 DEF BadLine
    <3> QED
      BY <2>3, <3>1, <3>3, <3>4 DEF MalformedSpoils, Suspects, BadLine
  <2>4. CASE tool = "traces"
    BY <2>4 DEF MalformedSpoils, Rules, Suspects, BadLine
  <2>5. CASE tool \notin Rules \cup {"traces"}
    <3>1. \A i \in 1..Len(gsource) : Normalizes(gsource[i])
      BY <1>1, <2>5 DEF ListRead
    <3>2. \A i \in 1..Len(gsource) : Normalizes(gsource[i])'
      BY <3>1 DEF Normalizes, ValidLabels
    <3>3. \A i \in 1..Len(gsource) : \A k \in 1..Len(gsource[i].lines) : gsource[i].lines[k]
      BY <2>1 DEF BadLine
    <3> QED
      BY <2>5, <3>2, <3>3 DEF MalformedSpoils, Suspects, BadLine
  <2> QED
    BY <2>3, <2>4, <2>5
<1>6. UrlsLeftOut'
  BY <1>2, <1>3 DEF UrlsLeftOut, SafeStringMap
<1>7. LinesBounded'
  BY DEF LinesBounded
<1> QED
  BY <1>4, <1>5, <1>6, <1>7 DEF GrafanaListsExact

\* The result of a query of streams is the first lines of the response.
LEMMA StreamsEnd ==
  ASSUME GrafanaInv, grafanaVerdict = "reading", tool = "streams",
         UNCHANGED <<tool, limit, filter, gsource, selected, lines, remaining>>,
         grafanaVerdict' = "ok",
         result' = [k \in 1..Len(Kept) |-> Returned(Kept[k])]
  PROVE  GrafanaListsExact'
<1>1. gsource \in Seq(AnyGrafanaEntry) /\ limit \in Nat /\ StreamsRead
  BY DEF GrafanaInv
<1>2. /\ lines \in Seq(Nat \X Nat) /\ remaining \in Nat /\ Len(lines) + remaining = limit
      /\ Range(lines) \subseteq Lines
      /\ \A j, k \in 1..Len(lines) : j < k => Before(lines[j], lines[k])
      /\ \A l \in Lines \ Range(lines) :
           remaining = 0 /\ \A k \in 1..Len(lines) : Before(lines[k], l)
  BY <1>1 DEF StreamsRead
<1>3. \A k \in 1..Len(lines) : lines[k][1] \in 1..Len(gsource)
  <2>1. \A k \in 1..Len(lines) : lines[k] \in LinesOf(gsource)
    <3>1. lines \in Seq(Nat \X Nat) /\ Range(lines) \subseteq Lines
      BY <1>2
    <3>2. Lines = LinesOf(gsource)
      BY DEF Lines, LinesOf
    <3>3. DOMAIN lines = 1..Len(lines)
      BY <3>1
    <3>4. \A k \in 1..Len(lines) : lines[k] \in Range(lines)
      BY <3>3 DEF Range
    <3> QED
      BY <3>1, <3>2, <3>4
  <2>2. \A p \in LinesOf(gsource) : p[1] \in 1..Len(gsource)
    BY LineIs
  <2> QED
    BY <2>1, <2>2
<1>4. Kept = InOrder(StreamsOf(lines, Len(gsource)))
  BY DEF Kept, StreamsKept, StreamsOf
<1> DEFINE chosen == Kept
           r == result'
           n == Len(gsource)
<1>5. n \in Nat /\ chosen = InOrder(StreamsOf(lines, n))
  BY <1>1, <1>4
<1>14. r = [k \in 1..Len(chosen) |-> Returned(chosen[k])]
  OBVIOUS
<1>6. \A k \in 1..Len(lines) : lines[k][1] \in 1..n
  BY <1>3
<1> HIDE DEF chosen, r, n
<1>7. /\ chosen \in Seq(Nat) /\ \A k \in 1..Len(chosen) : chosen[k] \in 1..n
      /\ \A i : i \in {lines[k][1] : k \in 1..Len(lines)} <=> \E k \in 1..Len(chosen) : chosen[k] = i
  <2>1. n \in Nat /\ chosen = InOrder(StreamsOf(lines, n))
    BY <1>5
  <2>2. n \in Nat
    BY <2>1
  <2>3. LET q == InOrder(StreamsOf(lines, n)) IN
        /\ q \in Seq(Nat) /\ \A k \in 1..Len(q) : q[k] \in 1..n
        /\ \A i : i \in {lines[k][1] : k \in 1..Len(lines)} <=> \E k \in 1..Len(q) : q[k] = i
    BY <1>6, <2>2, StreamsReturned
  <2> QED
    BY <2>1, <2>3
<1>8. /\ Len(r) = Len(chosen) /\ DOMAIN r = 1..Len(chosen)
      /\ \A k \in 1..Len(chosen) :
           r[k].at = chosen[k] /\ r[k].labels = SafeStringMap(gsource[chosen[k]].labels)
  <2>1. chosen \in Seq(Nat)
    BY <1>7
  <2> QED
    BY <1>14, <2>1, ResultIs
<1>9. {r[k].at : k \in 1..Len(r)} = {lines[k][1] : k \in 1..Len(lines)}
  <2>1. ASSUME NEW i PROVE i \in {r[k].at : k \in 1..Len(r)} <=> \E k \in 1..Len(chosen) : chosen[k] = i
    BY <1>8
  <2> QED
    BY <1>7, <2>1
<1>10. UrlsLeftOut'
  <2>1. \A k \in 1..Len(r) : r[k].labels = {l \in gsource[r[k].at].labels : l \notin {"url", "missing"}}
    BY <1>8 DEF SafeStringMap
  <2> QED
    BY <2>1 DEF UrlsLeftOut, r
<1>11. LinesBounded'
  <2>1. Lines' = Lines /\ Range(lines)' = Range(lines)
    BY DEF Lines, Range
  <2>2. Len(lines) \in Nat /\ Len(lines) <= limit
    BY <1>1, <1>2
  <2>3. {result'[k].at : k \in 1..Len(result')} = {lines[k][1] : k \in 1..Len(lines)}
    BY <1>9 DEF r
  <2>4. \A l \in Lines \ Range(lines) :
           Len(lines) = limit /\ \A k \in 1..Len(lines) : Before(lines[k], l)
    BY <1>1, <1>2, <2>2
  <2> QED
    BY <1>2, <2>1, <2>2, <2>3, <2>4 DEF LinesBounded
<1>12. MalformedSpoils'
  <2>1. \A i \in 1..Len(gsource) :
          Normalizes(gsource[i]) /\ \A k \in 1..Len(gsource[i].lines) : gsource[i].lines[k]
    BY <1>1 DEF StreamsRead
  <2>2. \A i \in 1..Len(gsource) : Normalizes(gsource[i])'
    BY <2>1 DEF Normalizes, ValidLabels
  <2>3. tool' \notin Rules /\ tool' # "traces"
    BY DEF Rules
  <2> QED
    BY <2>1, <2>2, <2>3 DEF MalformedSpoils, Suspects, BadLine
<1>13. FirstWantedReturned'
  BY DEF FirstWantedReturned
<1> QED
  BY <1>10, <1>11, <1>12, <1>13 DEF GrafanaListsExact

\* GrafanaEnd keeps the invariant.
LEMMA GrafanaEndKeeps == ASSUME GrafanaInv, GrafanaEnd PROVE GrafanaInv'
<1>1. /\ grafanaVerdict = "reading"
      /\ UNCHANGED <<tool, limit, filter, gsource, selected, lines, remaining>>
      /\ gsource \in Seq(AnyGrafanaEntry) /\ limit \in Nat \ {0} /\ tool \in GrafanaTools
  BY DEF GrafanaEnd, GrafanaInv
<1>2. SUFFICES ASSUME grafanaVerdict' # "reading", GrafanaListsExact' PROVE GrafanaInv'
  <2>1. CASE tool \in Rules /\ \E i \in Range(selected) : ~Normalizes(gsource[i])
    <3>1. grafanaVerdict' = "invalid_response"
      BY <2>1 DEF GrafanaEnd
    <3>2. tool # "streams" /\ ListRead
      BY <1>1, <2>1 DEF GrafanaInv, Rules
    <3>3. Range(selected) \subseteq 1..Len(gsource)
      <4>1. Kept \in Seq(Nat) /\ (\A k \in 1..Len(Kept) : Kept[k] \in 1..Len(gsource)) /\ Kept = selected
        BY <1>1, <2>1, <3>2, KeptOfList DEF Rules
      <4>2. \A x \in Range(Kept) : \E k \in 1..Len(Kept) : x = Kept[k]
        BY <4>1 DEF Range
      <4> QED
        BY <4>1, <4>2
    <3>4. PICK i \in Range(selected) : ~Normalizes(gsource[i])
      BY <2>1
    <3>5. ~Normalizes(gsource[i])'
      BY <1>1, <3>4 DEF Normalizes, ValidLabels
    <3>6. Range(selected)' = Range(selected)
      BY <1>1 DEF Range
    <3>7. MalformedSpoils'
      <4>1. tool' \in Rules /\ grafanaVerdict' # "ok" /\ grafanaVerdict' = "invalid_response"
        BY <1>1, <2>1, <3>1
      <4>2. i \in Suspects'
        <5>1. Suspects' = {j \in 1..Len(gsource') : gsource'[j].class = "other"} \cup Range(selected)'
          BY <4>1 DEF Suspects, Rules, Range
        <5> QED
          BY <3>4, <3>6, <5>1
      <4> QED
        BY <3>5, <4>1, <4>2 DEF MalformedSpoils
    <3>8. GrafanaListsExact'
      BY <3>1, <3>7 DEF GrafanaListsExact, FirstWantedReturned, UrlsLeftOut, LinesBounded
    <3> QED
      BY <1>2, <3>1, <3>8
  <2>2. CASE ~(tool \in Rules /\ \E i \in Range(selected) : ~Normalizes(gsource[i]))
    <3>1. grafanaVerdict' = "ok" /\ result' = [k \in 1..Len(Kept) |-> Returned(Kept[k])]
      BY <2>2 DEF GrafanaEnd, Kept
    <3>2. tool \in Rules => \A i \in Range(selected) : Normalizes(gsource[i])
      BY <2>2
    <3>3. GrafanaListsExact'
      <4>1. CASE tool # "streams"
        BY <1>1, <3>1, <3>2, <4>1, ListEnds
      <4>2. CASE tool = "streams"
        BY <1>1, <3>1, <4>2, StreamsEnd
      <4> QED
        BY <4>1, <4>2
    <3> QED
      BY <1>2, <3>1, <3>3
  <2> QED
    BY <2>1, <2>2
<1> QED
  BY <1>1, <1>2 DEF GrafanaInv

\* Every step of reading a Grafana response keeps the invariant.
LEMMA GrafanaStep == GrafanaInv /\ [GrafanaNext]_grafanaVars => GrafanaInv'
<1>1. SUFFICES ASSUME GrafanaInv, [GrafanaNext]_grafanaVars PROVE GrafanaInv'
  OBVIOUS
<1>2. CASE GrafanaNext
  BY <1>1, <1>2, ReadEntryKeeps, ReadStreamKeeps, ReadLineKeeps, GrafanaEndKeeps DEF GrafanaNext
<1>3. CASE UNCHANGED grafanaVars
  <2>1. UNCHANGED <<tool, limit, filter, gsource, selected, lines, remaining, grafanaVerdict, result>>
    BY <1>3 DEF grafanaVars
  <2>2. ListRead => ListRead'
    BY <2>1 DEF ListRead, WantedOf, Wanted, Normalizes, ValidLabels
  <2>8. Lines' = Lines /\ Range(lines)' = Range(lines) /\ Suspects' = Suspects
    BY <2>1 DEF Lines, Range, Suspects
  <2>9. \A i : Normalizes(gsource[i])' <=> Normalizes(gsource[i])
    BY <2>1 DEF Normalizes, ValidLabels
  <2>3. StreamsRead => StreamsRead'
    BY <2>1, <2>8, <2>9 DEF StreamsRead
  <2>4. FirstWantedReturned => FirstWantedReturned'
    BY <2>1 DEF FirstWantedReturned, Wanted, GrafanaIndices
  <2>5. MalformedSpoils => MalformedSpoils'
    BY <2>1, <2>8, <2>9 DEF MalformedSpoils, BadLine
  <2>6. UrlsLeftOut => UrlsLeftOut'
    BY <2>1 DEF UrlsLeftOut
  <2>7. LinesBounded => LinesBounded'
    BY <2>1, <2>8 DEF LinesBounded
  <2> QED
    BY <1>1, <2>1, <2>2, <2>3, <2>4, <2>5, <2>6, <2>7 DEF GrafanaInv, GrafanaListsExact
<1> QED
  BY <1>1, <1>2, <1>3

\* A Grafana list is the first entries that were asked for, as many as the limit allows; a
\* malformed one spoils the response; no URL is returned; log lines are counted over all
\* streams (grafana/client.rs:751-1475), for all limits and every length of the response.
THEOREM GrafanaListsAreExact == GrafanaSpec => []GrafanaListsExact
<1>1. GrafanaInv => GrafanaListsExact
  BY DEF GrafanaInv
<1> QED
  BY <1>1, GrafanaInitHolds, GrafanaStep, PTL DEF GrafanaSpec

-----------------------------------------------------------------------------
(***************************************************************************)
(* The panels of a dashboard.                                              *)
(*                                                                         *)
(* A panel is numbered after the one it is nested in, so its ancestors are *)
(* a finite set below it.  DashboardInv follows the walk: the stack is a   *)
(* path from the dashboard to the deepest open list, and what is still to  *)
(* come on it is exactly what the output lacks of the panels whose parent  *)
(* has been emitted.                                                       *)
(***************************************************************************)

\* The dashboard: panels are numbered after the ones they are nested in.
Tree ==
  /\ count \in Nat /\ count <= Panels /\ Panels \in Nat
  /\ \A p \in 1..count : parent[p] \in Nat /\ parent[p] < p

Ancestry(f, n) ==
  f = [p \in 0..n |-> IF p = 0 \/ p > count THEN {} ELSE {parent[p]} \cup f[parent[p]]]

\* The recursive function of the ancestors exists, one panel after the other.
LEMMA AncestryExists ==
  ASSUME Tree PROVE \A n \in Nat : \E f : Ancestry(f, n)
<1> DEFINE T == {n \in Nat : \E f : Ancestry(f, n)}
<1>1. 0 \in T
  <2> DEFINE f == [p \in 0..0 |-> {}]
  <2>1. \A p \in 0..0 : p = 0
    OBVIOUS
  <2>2. f = [p \in 0..0 |-> IF p = 0 \/ p > count THEN {} ELSE {parent[p]} \cup f[parent[p]]]
    BY <2>1
  <2> QED
    BY <2>2 DEF Ancestry
<1>2. ASSUME NEW n \in Nat, n \in T PROVE n + 1 \in T
  <2>1. PICK f : Ancestry(f, n)
    BY <1>2
  <2> DEFINE g == [p \in 0..(n + 1) |->
                     IF p = 0 \/ p > count THEN {} ELSE {parent[p]} \cup f[parent[p]]]
  <2>2. \A p \in 0..n : g[p] = f[p]
    <3>1. \A p \in 0..n : p \in 0..(n + 1)
      OBVIOUS
    <3>2. \A p \in 0..n : f[p] = IF p = 0 \/ p > count THEN {} ELSE {parent[p]} \cup f[parent[p]]
      BY <2>1 DEF Ancestry
    <3> QED
      BY <3>1, <3>2
  <2>3. ASSUME NEW p \in 0..(n + 1), ~(p = 0 \/ p > count) PROVE parent[p] \in 0..n
    <3>1. p \in 1..count
      BY <2>3 DEF Tree
    <3>2. parent[p] \in Nat /\ parent[p] < p
      BY <3>1 DEF Tree
    <3> QED
      BY <3>2
  <2>4. ASSUME NEW p \in 0..(n + 1), ~(p = 0 \/ p > count) PROVE g[parent[p]] = f[parent[p]]
    BY <2>2, <2>3, <2>4
  <2>5. g = [p \in 0..(n + 1) |-> IF p = 0 \/ p > count THEN {} ELSE {parent[p]} \cup g[parent[p]]]
    <3> DEFINE h == [p \in 0..(n + 1) |->
                       IF p = 0 \/ p > count THEN {} ELSE {parent[p]} \cup g[parent[p]]]
    <3>1. ASSUME NEW p \in 0..(n + 1) PROVE g[p] = h[p]
      <4>1. g[p] = IF p = 0 \/ p > count THEN {} ELSE {parent[p]} \cup f[parent[p]]
        OBVIOUS
      <4> DEFINE k == g[parent[p]]
      <4>2. h[p] = IF p = 0 \/ p > count THEN {} ELSE {parent[p]} \cup k
        OBVIOUS
      <4>3. ~(p = 0 \/ p > count) => k = f[parent[p]]
        BY <2>4
      <4> HIDE DEF g, h, k
      <4> QED
        BY <4>1, <4>2, <4>3
    <3>2. DOMAIN g = 0..(n + 1) /\ DOMAIN h = 0..(n + 1) /\ g = [p \in 0..(n + 1) |-> g[p]]
          /\ h = [p \in 0..(n + 1) |-> h[p]]
      OBVIOUS
    <3> HIDE DEF g, h
    <3>3. g = h
      BY <3>1, <3>2
    <3> QED
      BY <3>3 DEF h
  <2> HIDE DEF g
  <2>6. Ancestry(g, n + 1)
    BY <2>5 DEF Ancestry
  <2> QED
    BY <2>6
<1> HIDE DEF T
<1>3. \A n \in Nat : n \in T
  BY <1>1, <1>2, NatSetInduction
<1> QED
  BY <1>3 DEF T

\* What the recursive definition says of the ancestors of a panel.
LEMMA AncestorsOfAPanel ==
  ASSUME Tree
  PROVE  /\ Ancestor[0] = {}
         /\ \A p \in 1..count : Ancestor[p] = {parent[p]} \cup Ancestor[parent[p]]
<1>1. \E f : Ancestry(f, Panels)
  BY AncestryExists DEF Tree
<1>2. Ancestor = CHOOSE f : Ancestry(f, Panels)
  BY DEF Ancestor, Ancestry
<1>3. Ancestry(Ancestor, Panels)
  BY <1>1, <1>2
<1>4. Ancestor = [p \in 0..Panels |->
                    IF p = 0 \/ p > count THEN {} ELSE {parent[p]} \cup Ancestor[parent[p]]]
  BY <1>3 DEF Ancestry
<1>5. \A p \in 0..Panels :
        Ancestor[p] = IF p = 0 \/ p > count THEN {} ELSE {parent[p]} \cup Ancestor[parent[p]]
  BY <1>4
<1>6. 0 \in 0..Panels /\ \A p \in 1..count : p \in 0..Panels /\ ~(p = 0 \/ p > count)
  BY DEF Tree
<1> QED
  BY <1>5, <1>6

\* Ancestors come before the panel, and are counted by its depth.
LEMMA AncestorsAreCounted ==
  ASSUME Tree
  PROVE  \A p \in 0..count :
           /\ IsFiniteSet(Ancestor[p]) /\ Cardinality(Ancestor[p]) \in Nat
           /\ \A a \in Ancestor[p] : a \in Nat /\ a < p
           /\ p > 0 => Cardinality(Ancestor[p]) = Cardinality(Ancestor[parent[p]]) + 1
<1> DEFINE Good(p) == IsFiniteSet(Ancestor[p]) /\ \A a \in Ancestor[p] : a \in Nat /\ a < p
           T == {n \in Nat : \A p \in 0..count : p <= n => Good(p)}
<1>1. Ancestor[0] = {} /\ \A p \in 1..count : Ancestor[p] = {parent[p]} \cup Ancestor[parent[p]]
  BY AncestorsOfAPanel
<1>2. count \in Nat /\ \A p \in 1..count : parent[p] \in Nat /\ parent[p] < p
  BY DEF Tree
<1>3. Good(0)
  BY <1>1, FS_EmptySet
<1>4. ASSUME NEW p \in 1..count, Good(parent[p]) PROVE Good(p)
  <2>1. IsFiniteSet({parent[p]} \cup Ancestor[parent[p]])
    <3>1. {parent[p]} \cup Ancestor[parent[p]] = Ancestor[parent[p]] \cup {parent[p]}
      OBVIOUS
    <3> QED
      BY <1>4, <3>1, FS_AddElement
  <2>2. \A a \in {parent[p]} \cup Ancestor[parent[p]] : a \in Nat /\ a < p
    BY <1>2, <1>4
  <2> QED
    BY <1>1, <2>1, <2>2
<1>5. 0 \in T
  <2>1. \A p \in 0..count : p <= 0 => p = 0
    BY <1>2
  <2> QED
    BY <1>3, <2>1
<1>6. ASSUME NEW n \in Nat, n \in T PROVE n + 1 \in T
  <2>1. ASSUME NEW p \in 0..count, p <= n + 1 PROVE Good(p)
    <3>1. CASE p = 0
      BY <1>3, <3>1
    <3>2. CASE p # 0
      <4>1. p \in 1..count /\ parent[p] \in 0..count /\ parent[p] <= n
        BY <1>2, <2>1, <3>2
      <4>2. Good(parent[p])
        BY <1>6, <4>1
      <4> HIDE DEF Good
      <4> QED
        BY <1>4, <4>1, <4>2
    <3> QED
      BY <3>1, <3>2
  <2> HIDE DEF Good
  <2> QED
    BY <2>1
<1>7. \A p \in 0..count : Good(p)
  <2> HIDE DEF T
  <2>1. \A n \in Nat : n \in T
    BY <1>5, <1>6, NatSetInduction
  <2> HIDE DEF Good
  <2>2. ASSUME NEW p \in 0..count PROVE Good(p)
    <3>1. p \in Nat /\ p <= p
      BY <1>2
    <3> QED
      BY <2>1, <3>1 DEF T
  <2> QED
    BY <2>2
<1>8. ASSUME NEW p \in 0..count, p > 0
      PROVE  Cardinality(Ancestor[p]) = Cardinality(Ancestor[parent[p]]) + 1
  <2>1. p \in 1..count /\ parent[p] \in 0..count /\ parent[p] \in Nat
    BY <1>2, <1>8
  <2>2. Good(parent[p])
    BY <1>7, <2>1
  <2>3. parent[p] \notin Ancestor[parent[p]]
    BY <2>1, <2>2
  <2>4. Ancestor[p] = Ancestor[parent[p]] \cup {parent[p]}
    BY <1>1, <2>1
  <2>5. Cardinality(Ancestor[parent[p]] \cup {parent[p]}) = Cardinality(Ancestor[parent[p]]) + 1
    BY <2>2, <2>3, FS_AddElement
  <2> QED
    BY <2>4, <2>5
<1>9. \A p \in 0..count : Cardinality(Ancestor[p]) \in Nat
  BY <1>7, FS_CardinalityType
<1> QED
  BY <1>7, <1>8, <1>9

\* A sequence without its last element, and with that replaced.
LEMMA FrontIs ==
  ASSUME NEW S, NEW s \in Seq(S), s # << >>
  PROVE  /\ Len(s) \in Nat /\ Len(s) >= 1 /\ Last(s) = s[Len(s)] /\ Last(s) \in S
         /\ Front(s) \in Seq(S) /\ Len(Front(s)) = Len(s) - 1
         /\ \A l \in 1..(Len(s) - 1) : Front(s)[l] = s[l]
<1>1. Len(s) \in Nat /\ Len(s) >= 1 /\ Len(s) \in 1..Len(s)
  OBVIOUS
<1>2. Last(s) = s[Len(s)] /\ s[Len(s)] \in S
  BY <1>1 DEF Last
<1> DEFINE m == Len(s) - 1
<1>3. m \in Nat /\ m <= Len(s)
  BY <1>1
<1>4. Front(s) = SubSeq(s, 1, m)
  BY DEF Front
<1> HIDE DEF m
<1>5. /\ SubSeq(s, 1, m) \in Seq(S) /\ Len(SubSeq(s, 1, m)) = m
      /\ \A l \in 1..m : SubSeq(s, 1, m)[l] = s[l]
  BY <1>3
<1>6. /\ Front(s) \in Seq(S) /\ Len(Front(s)) = m /\ \A l \in 1..m : Front(s)[l] = s[l]
  BY <1>4, <1>5
<1> QED
  BY <1>1, <1>2, <1>6 DEF m

\* A sequence whose last element is replaced.
LEMMA LastReplaced ==
  ASSUME NEW S, NEW s \in Seq(S), s # << >>, NEW x \in S
  PROVE  LET t == Front(s) \o <<x>> IN
         /\ t \in Seq(S) /\ Len(t) = Len(s) /\ t[Len(s)] = x
         /\ \A l \in 1..(Len(s) - 1) : t[l] = s[l]
<1> DEFINE f == Front(s)
           t == f \o <<x>>
           n == Len(s)
<1>1. n \in Nat /\ n >= 1 /\ f \in Seq(S) /\ Len(f) = n - 1 /\ \A l \in 1..(n - 1) : f[l] = s[l]
  BY FrontIs
<1> HIDE DEF f, n
<1>2. <<x>> \in Seq(S) /\ Len(<<x>>) = 1 /\ <<x>>[1] = x
  OBVIOUS
<1>3. t \in Seq(S) /\ Len(t) = n /\ t[n] = x /\ \A l \in 1..(n - 1) : t[l] = f[l]
  BY <1>1, <1>2
<1> HIDE DEF t
<1>4. t \in Seq(S) /\ Len(t) = n /\ t[n] = x /\ \A l \in 1..(n - 1) : t[l] = s[l]
  BY <1>1, <1>3
<1> QED
  BY <1>4 DEF t, f, n

\* A sequence whose last element is replaced by two.
LEMMA LastReplacedByTwo ==
  ASSUME NEW S, NEW s \in Seq(S), s # << >>, NEW x \in S, NEW y \in S
  PROVE  LET t == Front(s) \o <<x, y>> IN
         /\ t \in Seq(S) /\ Len(t) = Len(s) + 1 /\ t[Len(s)] = x /\ t[Len(s) + 1] = y
         /\ \A l \in 1..(Len(s) - 1) : t[l] = s[l]
<1> DEFINE f == Front(s)
           t == f \o <<x, y>>
           n == Len(s)
<1>1. n \in Nat /\ n >= 1 /\ f \in Seq(S) /\ Len(f) = n - 1 /\ \A l \in 1..(n - 1) : f[l] = s[l]
  BY FrontIs
<1> HIDE DEF f, n
<1>2. <<x, y>> \in Seq(S) /\ Len(<<x, y>>) = 2 /\ <<x, y>>[1] = x /\ <<x, y>>[2] = y
  OBVIOUS
<1>3. /\ t \in Seq(S) /\ Len(t) = n + 1 /\ t[n] = x /\ t[n + 1] = y
      /\ \A l \in 1..(n - 1) : t[l] = f[l]
  BY <1>1, <1>2
<1> HIDE DEF t
<1>4. /\ t \in Seq(S) /\ Len(t) = n + 1 /\ t[n] = x /\ t[n + 1] = y
      /\ \A l \in 1..(n - 1) : t[l] = s[l]
  BY <1>1, <1>3
<1> QED
  BY <1>4 DEF t, f, n

\* A sequence without its first element.
LEMMA TailIs ==
  ASSUME NEW S, NEW s \in Seq(S), s # << >>
  PROVE  /\ Len(s) \in Nat /\ Len(s) >= 1 /\ Head(s) = s[1] /\ s[1] \in S
         /\ Tail(s) \in Seq(S) /\ Len(Tail(s)) = Len(s) - 1
         /\ \A k \in 1..(Len(s) - 1) : Tail(s)[k] = s[k + 1]
<1>1. Len(s) \in Nat /\ Len(s) >= 1 /\ 1 \in 1..Len(s)
  OBVIOUS
<1>2. Head(s) = s[1] /\ s[1] \in S
  BY <1>1
<1>3. /\ Tail(s) \in Seq(S) /\ Len(Tail(s)) = Len(s) - 1
      /\ \A k \in 1..(Len(s) - 1) : Tail(s)[k] = s[k + 1]
  OBVIOUS
<1> QED
  BY <1>1, <1>2, <1>3

Emitted(s, x) == \E k \in 1..Len(s) : s[k] = x

\* What the output has of the dashboard: nothing twice, nothing malformed or too deep, a row
\* before its panels, and all of a panel before the next one beside it.
Emission ==
  /\ output \in Seq(Nat) /\ Len(output) <= MaxPanels
  /\ \A k \in 1..Len(output) :
       /\ output[k] \in 1..count /\ output[k] \notin malformed
       /\ output[k] \in rows => Cardinality(Ancestor[output[k]]) <= MaxDepth
       /\ parent[output[k]] # 0 => \E j \in 1..(k - 1) : output[j] = parent[output[k]]
  /\ \A j, k \in 1..Len(output) : j < k => output[j] # output[k]
  /\ \A k \in 1..Len(output), p \in 1..count, r \in 1..count :
       parent[p] = parent[output[k]] /\ p < output[k] /\ (r = p \/ p \in Ancestor[r])
         => \E j \in 1..(k - 1) : output[j] = r

\* The lists of panels still to come are those of a path from the dashboard down.
OnPath(path) ==
  /\ path \in Seq(Nat) /\ stack \in Seq(Seq(Nat)) /\ Len(path) = Len(stack)
  /\ Len(stack) <= MaxDepth + 1
  /\ \A l \in 1..Len(path) :
       /\ path[l] \in 0..count /\ Cardinality(Ancestor[path[l]]) = l - 1
       /\ l = 1 => path[l] = 0
       /\ l # 1 => path[l] \in 1..count /\ parent[path[l]] = path[l - 1] /\ Emitted(output, path[l])
  /\ \A l \in 1..Len(stack) :
       /\ \A k \in 1..Len(stack[l]) :
            /\ stack[l][k] \in 1..count /\ parent[stack[l][k]] = path[l] /\ ~Emitted(output, stack[l][k])
       /\ \A j, k \in 1..Len(stack[l]) : j < k => stack[l][j] < stack[l][k]
  /\ \A i \in 1..count : ~Emitted(output, i) /\ (parent[i] = 0 \/ Emitted(output, parent[i])) =>
       \E l \in 1..Len(stack) : \E k \in 1..Len(stack[l]) : stack[l][k] = i

DashboardInv ==
  /\ Tree /\ variables \in Nat
  /\ rows \subseteq 1..count /\ malformed \subseteq 1..count
  /\ \A p \in 1..count : parent[p] # 0 => parent[p] \in rows
  /\ dashboardVerdict = "reading" => output = << >>
  /\ dashboardVerdict = "flattening" =>
       variables <= MaxVariables /\ Emission /\ \E path : OnPath(path)
  /\ InventoryExact

\* Nothing was emitted, and the tree is numbered from the top.
LEMMA DashboardInitHolds == DashboardInit => DashboardInv
<1>1. SUFFICES ASSUME DashboardInit PROVE DashboardInv
  OBVIOUS
<1>2. /\ count \in 0..Panels /\ parent \in [1..count -> 0..Panels]
      /\ \A p \in 1..count : parent[p] < p
      /\ variables \in Nat /\ Panels \in Nat /\ output = << >> /\ dashboardVerdict = "reading"
  BY <1>1, BoundsAssumption DEF DashboardInit
<1>3. Tree
  BY <1>2 DEF Tree
<1>4. PICK leaf \in 0..count : rows = ({parent[p] : p \in 1..count} \cup {leaf}) \ {0}
  BY <1>1 DEF DashboardInit
<1>5. PICK bad \in 0..count : malformed = {bad} \ {0}
  BY <1>1 DEF DashboardInit
<1>6. count \in Nat /\ \A i : i \in 1..count <=> i \in 0..count /\ i # 0
  BY <1>2
<1>7. \A p \in 1..count : parent[p] \in 0..count
  BY <1>2
<1>8. rows \subseteq 1..count /\ malformed \subseteq 1..count
  BY <1>4, <1>5, <1>6, <1>7
<1>9. \A p \in 1..count : parent[p] # 0 => parent[p] \in rows
  BY <1>4
<1>10. InventoryExact
  BY <1>2 DEF InventoryExact, PanelsInOrder, LimitsExact
<1> QED
  BY <1>2, <1>3, <1>8, <1>9, <1>10 DEF DashboardInv

\* A panel that was emitted and is not on the path has been emitted with all it contains.
LEMMA SubtreeDone ==
  ASSUME Tree, NEW path, OnPath(path), NEW p \in 1..count, Emitted(output, p),
         \A l \in 1..Len(path) : path[l] # p
  PROVE  \A r \in 1..count : p \in Ancestor[r] => Emitted(output, r)
<1> DEFINE Out(r) == Emitted(output, r) /\ \A l \in 1..Len(path) : path[l] # r
           In(r) == r = p \/ p \in Ancestor[r]
           T == {n \in Nat : \A r \in 1..count : r <= n /\ In(r) => Out(r)}
<1>1. count \in Nat /\ \A r \in 1..count : parent[r] \in Nat /\ parent[r] < r
  BY DEF Tree
<1>2. Ancestor[0] = {} /\ \A r \in 1..count : Ancestor[r] = {parent[r]} \cup Ancestor[parent[r]]
  BY AncestorsOfAPanel
<1>3. /\ Len(path) \in Nat /\ Len(path) = Len(stack)
      /\ \A l \in 1..Len(path) : (l = 1 => path[l] = 0) /\ (l # 1 => parent[path[l]] = path[l - 1])
      /\ \A l \in 1..Len(stack) : \A k \in 1..Len(stack[l]) : parent[stack[l][k]] = path[l]
      /\ \A i \in 1..count : ~Emitted(output, i) /\ (parent[i] = 0 \/ Emitted(output, parent[i])) =>
           \E l \in 1..Len(stack) : \E k \in 1..Len(stack[l]) : stack[l][k] = i
  <2>1. path \in Seq(Nat) /\ Len(path) = Len(stack)
    BY DEF OnPath
  <2>2. \A l \in 1..Len(path) : (l = 1 => path[l] = 0) /\ (l # 1 => parent[path[l]] = path[l - 1])
    BY DEF OnPath
  <2>3. \A l \in 1..Len(stack) : \A k \in 1..Len(stack[l]) : parent[stack[l][k]] = path[l]
    BY DEF OnPath
  <2>4. \A i \in 1..count : ~Emitted(output, i) /\ (parent[i] = 0 \/ Emitted(output, parent[i])) =>
           \E l \in 1..Len(stack) : \E k \in 1..Len(stack[l]) : stack[l][k] = i
    BY DEF OnPath
  <2> QED
    BY <2>1, <2>2, <2>3, <2>4
<1>4. Out(p)
  OBVIOUS
<1>5. ASSUME NEW r \in 1..count, parent[r] \in 1..count, Out(parent[r]) PROVE Out(r)
  <2>1. Emitted(output, r)
    <3>1. SUFFICES ASSUME ~Emitted(output, r) PROVE FALSE
      OBVIOUS
    <3>2. PICK l \in 1..Len(stack) : \E k \in 1..Len(stack[l]) : stack[l][k] = r
      BY <1>3, <1>5, <3>1
    <3>3. parent[r] = path[l] /\ l \in 1..Len(path)
      BY <1>3, <3>2
    <3> QED
      BY <1>5, <3>3
  <2>2. ASSUME NEW l \in 1..Len(path), path[l] = r PROVE FALSE
    <3>1. l # 1
      BY <1>1, <1>3, <2>2
    <3>2. parent[r] = path[l - 1] /\ l - 1 \in 1..Len(path)
      BY <1>3, <2>2, <3>1
    <3> QED
      BY <1>5, <3>2
  <2> QED
    BY <2>1, <2>2
<1>6. 0 \in T
  BY <1>1
<1>7. ASSUME NEW n \in Nat, n \in T PROVE n + 1 \in T
  <2>1. ASSUME NEW r \in 1..count, r <= n + 1, In(r) PROVE Out(r)
    <3>1. CASE r = p
      BY <1>4, <3>1
    <3>2. CASE r # p
      <4>1. parent[r] = p \/ p \in Ancestor[parent[r]]
        BY <1>2, <2>1, <3>2
      <4>2. parent[r] # 0
        BY <1>1, <1>2, <4>1
      <4>3. parent[r] \in 1..count /\ parent[r] <= n
        BY <1>1, <2>1, <4>2
      <4>4. In(parent[r])
        BY <4>1
      <4>5. Out(parent[r])
        BY <1>7, <4>3, <4>4
      <4> HIDE DEF Out
      <4> QED
        BY <1>5, <4>3, <4>5
    <3> QED
      BY <3>1, <3>2
  <2> HIDE DEF Out, In
  <2> QED
    BY <2>1
<1> HIDE DEF T
<1>8. \A n \in Nat : n \in T
  BY <1>6, <1>7, NatSetInduction
<1>9. ASSUME NEW r \in 1..count, p \in Ancestor[r] PROVE Emitted(output, r)
  <2>1. r \in Nat /\ r <= r
    BY <1>1
  <2> QED
    BY <1>8, <1>9, <2>1 DEF T
<1> QED
  BY <1>9

\* No panel is on the path twice.
LEMMA PathIsSimple ==
  ASSUME NEW path, OnPath(path), NEW l \in 1..Len(path), NEW m \in 1..Len(path), path[l] = path[m]
  PROVE  l = m
<1>1. Cardinality(Ancestor[path[l]]) = l - 1 /\ Cardinality(Ancestor[path[m]]) = m - 1
  BY DEF OnPath
<1>2. l - 1 = m - 1
  BY <1>1
<1> QED
  BY <1>2

\* The panel that is visited next: the first of the deepest list, of which everything before
\* it is done.
LEMMA NextPanel ==
  ASSUME Tree, Emission, NEW path, OnPath(path), stack # << >>, Last(stack) # << >>,
         NEW p, p = Head(Last(stack))
  PROVE  /\ p \in 1..count /\ ~Emitted(output, p) /\ parent[p] = path[Len(stack)]
         /\ parent[p] = 0 \/ Emitted(output, parent[p])
         /\ Cardinality(Ancestor[p]) = Len(stack)
         /\ \A q \in 1..count, r \in 1..count :
              parent[q] = parent[p] /\ q < p /\ (r = q \/ q \in Ancestor[r]) => Emitted(output, r)
<1> DEFINE n == Len(stack)
           t == stack[n]
<1>1. stack \in Seq(Seq(Nat)) /\ path \in Seq(Nat) /\ Len(path) = n
  BY DEF OnPath
<1>2. n \in Nat /\ n >= 1 /\ Last(stack) = t /\ t \in Seq(Nat)
  <2>1. /\ Len(stack) \in Nat /\ Len(stack) >= 1 /\ Last(stack) = stack[Len(stack)]
        /\ Last(stack) \in Seq(Nat)
    BY <1>1, FrontIs
  <2> QED
    BY <2>1
<1>3. p = t[1] /\ Len(t) \in Nat /\ Len(t) >= 1
  <2>1. t # << >> /\ p = Head(t)
    BY <1>2
  <2> HIDE DEF t
  <2>2. Len(t) \in Nat /\ Len(t) >= 1 /\ Head(t) = t[1]
    BY <1>2, <2>1, TailIs
  <2> QED
    BY <2>1, <2>2
<1>4. n \in 1..n /\ 1 \in 1..Len(t)
  BY <1>2, <1>3
<1>5. /\ \A k \in 1..Len(t) : t[k] \in 1..count /\ parent[t[k]] = path[n] /\ ~Emitted(output, t[k])
      /\ \A j, k \in 1..Len(t) : j < k => t[j] < t[k]
  BY <1>4 DEF OnPath
<1>6. \A l \in 1..n : /\ path[l] \in 0..count /\ Cardinality(Ancestor[path[l]]) = l - 1
                      /\ l = 1 => path[l] = 0
                      /\ l # 1 => path[l] \in 1..count /\ parent[path[l]] = path[l - 1] /\ Emitted(output, path[l])
  BY <1>1 DEF OnPath
<1>7. \A l \in 1..n : \A k \in 1..Len(stack[l]) : parent[stack[l][k]] = path[l]
  BY DEF OnPath
<1>8. \A i \in 1..count : ~Emitted(output, i) /\ (parent[i] = 0 \/ Emitted(output, parent[i])) =>
           \E l \in 1..n : \E k \in 1..Len(stack[l]) : stack[l][k] = i
  BY DEF OnPath
<1>9. p \in 1..count /\ ~Emitted(output, p) /\ parent[p] = path[n]
  BY <1>3, <1>4, <1>5
<1>10. parent[p] = 0 \/ Emitted(output, parent[p])
  BY <1>4, <1>6, <1>9
<1>11. count \in Nat /\ \A r \in 1..count : parent[r] \in Nat /\ parent[r] < r
  BY DEF Tree
<1>12. Cardinality(Ancestor[p]) = n
  <2>1. p \in 0..count /\ p > 0
    BY <1>9, <1>11
  <2>2. Cardinality(Ancestor[p]) = Cardinality(Ancestor[parent[p]]) + 1
    BY <2>1, AncestorsAreCounted
  <2>3. Cardinality(Ancestor[parent[p]]) = n - 1
    BY <1>4, <1>6, <1>9
  <2> QED
    BY <1>2, <2>2, <2>3
<1>13. ASSUME NEW q \in 1..count, parent[q] = parent[p], q < p
       PROVE  Emitted(output, q) /\ \A l \in 1..Len(path) : path[l] # q
  <2>1. Emitted(output, q)
    <3>1. SUFFICES ASSUME ~Emitted(output, q) PROVE FALSE
      OBVIOUS
    <3>2. PICK l \in 1..n : \E k \in 1..Len(stack[l]) : stack[l][k] = q
      BY <1>8, <1>10, <1>13, <3>1
    <3>3. PICK k \in 1..Len(stack[l]) : stack[l][k] = q
      BY <3>2
    <3>4. path[l] = path[n]
      BY <1>7, <1>9, <1>13, <3>3
    <3>5. l = n
      BY <1>1, <1>4, <3>4, PathIsSimple
    <3>6. k \in 1..Len(t) /\ t[k] = q
      BY <3>3, <3>5
    <3> HIDE DEF t
    <3>7. k = 1 \/ t[1] < t[k]
      BY <1>3, <1>4, <1>5, <3>6
    <3> QED
      BY <1>3, <1>9, <1>11, <1>13, <3>6, <3>7
  <2>2. ASSUME NEW l \in 1..Len(path), path[l] = q PROVE FALSE
    <3>1. l \in 1..n /\ l # 1
      BY <1>1, <1>6, <1>11, <2>2
    <3>4. parent[path[l]] = path[l - 1]
      BY <1>6, <3>1
    <3>5. path[l - 1] = path[n]
      BY <1>9, <1>13, <2>2, <3>4
    <3>6. l - 1 \in 1..Len(path) /\ n \in 1..Len(path)
      BY <1>1, <1>2, <3>1
    <3>2. path[l - 1] = path[n] /\ l - 1 \in 1..Len(path) /\ n \in 1..Len(path)
      BY <3>5, <3>6
    <3>3. l - 1 = n
      BY <3>2, PathIsSimple
    <3> QED
      BY <1>2, <3>1, <3>3
  <2> QED
    BY <2>1, <2>2
<1>14. \A q \in 1..count, r \in 1..count :
         parent[q] = parent[p] /\ q < p /\ (r = q \/ q \in Ancestor[r]) => Emitted(output, r)
  BY <1>13, SubtreeDone
<1> QED
  BY <1>9, <1>10, <1>12, <1>14

\* What the output has stays right when the next panel is emitted.
LEMMA EmissionGrows ==
  ASSUME Tree, Emission, NEW p \in 1..count, ~Emitted(output, p), parent[p] = 0 \/ Emitted(output, parent[p]),
         \A q \in 1..count, r \in 1..count :
              parent[q] = parent[p] /\ q < p /\ (r = q \/ q \in Ancestor[r]) => Emitted(output, r),
         ~Full, p \notin malformed, p \in rows => Cardinality(Ancestor[p]) <= MaxDepth,
         UNCHANGED <<count, parent, rows, malformed>>, output' = Append(output, p)
  PROVE  Emission'
<1> DEFINE n == Len(output)
<1>1. /\ output \in Seq(Nat) /\ n \in Nat /\ n <= MaxPanels
      /\ \A k \in 1..n :
           /\ output[k] \in 1..count /\ output[k] \notin malformed
           /\ output[k] \in rows => Cardinality(Ancestor[output[k]]) <= MaxDepth
           /\ parent[output[k]] # 0 => \E j \in 1..(k - 1) : output[j] = parent[output[k]]
      /\ \A j, k \in 1..n : j < k => output[j] # output[k]
      /\ \A k \in 1..n, q \in 1..count, r \in 1..count :
           parent[q] = parent[output[k]] /\ q < output[k] /\ (r = q \/ q \in Ancestor[r])
             => \E j \in 1..(k - 1) : output[j] = r
  <2>1. output \in Seq(Nat) /\ n <= MaxPanels
    BY DEF Emission
  <2>2. n \in Nat
    BY <2>1
  <2>3. /\ \A k \in 1..n :
             /\ output[k] \in 1..count /\ output[k] \notin malformed
             /\ output[k] \in rows => Cardinality(Ancestor[output[k]]) <= MaxDepth
             /\ parent[output[k]] # 0 => \E j \in 1..(k - 1) : output[j] = parent[output[k]]
        /\ \A j, k \in 1..n : j < k => output[j] # output[k]
        /\ \A k \in 1..n, q \in 1..count, r \in 1..count :
             parent[q] = parent[output[k]] /\ q < output[k] /\ (r = q \/ q \in Ancestor[r])
               => \E j \in 1..(k - 1) : output[j] = r
    BY DEF Emission
  <2> QED
    BY <2>1, <2>2, <2>3
<1>2. MaxPanels \in Nat /\ p \in Nat
  BY BoundsAssumption DEF Tree
<1>3. /\ output' \in Seq(Nat) /\ Len(output') = n + 1 /\ output'[n + 1] = p
      /\ \A k \in 1..n : output'[k] = output[k]
  BY <1>1, <1>2
<1>4. n + 1 <= MaxPanels
  BY <1>1, <1>2 DEF Full
<1>5. Ancestor' = Ancestor
  BY DEF Ancestor
<1>6. \A r : Emitted(output, r) <=> \E k \in 1..n : output[k] = r
  BY DEF Emitted
<1> HIDE DEF n
<1>7. \A k \in 1..(n + 1) : k \in 1..n \/ k = n + 1
  BY <1>1
<1>8. (n + 1) - 1 = n
  BY <1>1
<1>9. \A k \in 1..n : \A j \in 1..(k - 1) : j \in 1..n
  BY <1>1
<1>10. ASSUME NEW k \in 1..(n + 1)
       PROVE  /\ output'[k] \in 1..count /\ output'[k] \notin malformed
              /\ output'[k] \in rows => Cardinality(Ancestor[output'[k]]) <= MaxDepth
              /\ parent[output'[k]] # 0 => \E j \in 1..(k - 1) : output'[j] = parent[output'[k]]
  <2>1. CASE k \in 1..n
    <3>1. output'[k] = output[k]
      BY <1>3, <2>1
    <3>2. ASSUME parent[output[k]] # 0 PROVE \E j \in 1..(k - 1) : output'[j] = parent[output[k]]
      <4>1. PICK j \in 1..(k - 1) : output[j] = parent[output[k]]
        BY <1>1, <2>1, <3>2
      <4> QED
        BY <1>3, <1>9, <2>1, <4>1
    <3> QED
      BY <1>1, <2>1, <3>1, <3>2
  <2>2. CASE k = n + 1
    <3>1. output'[k] = p
      BY <1>3, <2>2
    <3>2. ASSUME parent[p] # 0 PROVE \E j \in 1..(k - 1) : output'[j] = parent[p]
      <4>1. PICK j \in 1..n : output[j] = parent[p]
        BY <1>6, <3>2
      <4> QED
        BY <1>3, <1>8, <2>2, <4>1
    <3> QED
      BY <3>1, <3>2
  <2> QED
    BY <1>7, <2>1, <2>2
<1>11. ASSUME NEW j \in 1..(n + 1), NEW k \in 1..(n + 1), j < k PROVE output'[j] # output'[k]
  <2>1. j \in 1..n
    BY <1>1, <1>11
  <2>2. CASE k \in 1..n
    BY <1>1, <1>3, <1>11, <2>1, <2>2
  <2>3. CASE k = n + 1
    BY <1>3, <1>6, <2>1, <2>3
  <2> QED
    BY <1>7, <2>2, <2>3
<1>13. \A k \in 1..n, q \in 1..count, r \in 1..count :
           parent[q] = parent[output[k]] /\ q < output[k] /\ (r = q \/ q \in Ancestor[r])
             => \E j \in 1..(k - 1) : output[j] = r
  BY <1>1
<1>12. ASSUME NEW k \in 1..(n + 1), NEW q \in 1..count, NEW r \in 1..count,
              parent[q] = parent[output'[k]], q < output'[k], r = q \/ q \in Ancestor[r]
       PROVE  \E j \in 1..(k - 1) : output'[j] = r
  <2>1. CASE k \in 1..n
    <3>2. output'[k] = output[k]
      BY <1>3, <2>1
    <3>3. parent[q] = parent[output[k]] /\ q < output[k] /\ (r = q \/ q \in Ancestor[r])
      BY <1>12, <3>2
    <3>1. PICK j \in 1..(k - 1) : output[j] = r
      BY <1>13, <2>1, <3>3
    <3> QED
      BY <1>3, <1>9, <2>1, <3>1
  <2>2. CASE k = n + 1
    <3>1. Emitted(output, r)
      BY <1>3, <1>12, <2>2
    <3>2. PICK j \in 1..n : output[j] = r
      BY <1>6, <3>1
    <3> QED
      BY <1>3, <1>8, <2>2, <3>2
  <2> QED
    BY <1>7, <2>1, <2>2
<1> QED
  <2>1. output' \in Seq(Nat) /\ Len(output') <= MaxPanels
    BY <1>3, <1>4
  <2>2. ASSUME NEW k \in 1..Len(output')
        PROVE  /\ output'[k] \in 1..count' /\ output'[k] \notin malformed'
               /\ output'[k] \in rows' => Cardinality(Ancestor'[output'[k]]) <= MaxDepth
               /\ parent'[output'[k]] # 0 => \E j \in 1..(k - 1) : output'[j] = parent'[output'[k]]
    BY <1>3, <1>5, <1>10
  <2>3. \A j, k \in 1..Len(output') : j < k => output'[j] # output'[k]
    BY <1>3, <1>11
  <2>4. ASSUME NEW k \in 1..Len(output'), NEW q \in 1..count', NEW r \in 1..count',
               parent'[q] = parent'[output'[k]], q < output'[k], r = q \/ q \in Ancestor'[r]
        PROVE  \E j \in 1..(k - 1) : output'[j] = r
    BY <1>3, <1>5, <1>12, <2>4
  <2>5. \A k \in 1..Len(output') :
           /\ output'[k] \in 1..count' /\ output'[k] \notin malformed'
           /\ output'[k] \in rows' => Cardinality(Ancestor'[output'[k]]) <= MaxDepth
           /\ parent'[output'[k]] # 0 => \E j \in 1..(k - 1) : output'[j] = parent'[output'[k]]
    BY <2>2
  <2>6. \A k \in 1..Len(output'), q \in 1..count', r \in 1..count' :
           parent'[q] = parent'[output'[k]] /\ q < output'[k] /\ (r = q \/ q \in Ancestor'[r])
             => \E j \in 1..(k - 1) : output'[j] = r
    BY <2>4
  <2> QED
    BY <2>1, <2>5, <2>3, <2>6 DEF Emission

\* Once a panel has been emitted it stays so, and nothing else is.
LEMMA EmittedGrows ==
  ASSUME NEW s \in Seq(Nat), NEW p \in Nat
  PROVE  \A x : Emitted(Append(s, p), x) <=> Emitted(s, x) \/ x = p
<1> DEFINE t == Append(s, p)
<1>1. Len(s) \in Nat /\ Len(t) = Len(s) + 1 /\ t[Len(s) + 1] = p /\ \A k \in 1..Len(s) : t[k] = s[k]
  OBVIOUS
<1>2. \A k : k \in 1..(Len(s) + 1) <=> k \in 1..Len(s) \/ k = Len(s) + 1
  BY <1>1
<1> HIDE DEF t
<1>3. \A x : Emitted(t, x) <=> Emitted(s, x) \/ x = p
  BY <1>1, <1>2 DEF Emitted
<1> QED
  BY <1>3 DEF t

\* The lists of panels nested in a panel are in order.
LEMMA ChildrenAre ==
  ASSUME Tree, NEW p
  PROVE  /\ Children(p) \in Seq(Nat)
         /\ \A k \in 1..Len(Children(p)) : Children(p)[k] \in 1..count /\ parent[Children(p)[k]] = p
         /\ \A j, k \in 1..Len(Children(p)) : j < k => Children(p)[j] < Children(p)[k]
         /\ \A i \in 1..count : parent[i] = p => \E k \in 1..Len(Children(p)) : Children(p)[k] = i
<1> DEFINE S == {i \in 1..count : parent[i] = p}
<1>1. S \in SUBSET Nat /\ IsFiniteSet(S)
  <2>1. S \subseteq 1..count /\ 1 \in Int /\ count \in Int /\ \A i \in S : i \in Nat
    BY DEF Tree
  <2>2. IsFiniteSet(1..count)
    BY <2>1, FS_Interval
  <2> QED
    BY <2>1, <2>2, FS_Subset
<1>2. Children(p) = InOrder(S)
  BY DEF Children
<1>3. \A i : i \in S <=> i \in 1..count /\ parent[i] = p
  OBVIOUS
<1> HIDE DEF S
<1>4. InOrder(S) \in Seq(Nat) /\ Len(InOrder(S)) = Cardinality(S)
  BY <1>1, InOrderType
<1>5. /\ \A k \in 1..Cardinality(S) : InOrder(S)[k] \in S
      /\ \A i \in S : \E k \in 1..Cardinality(S) : InOrder(S)[k] = i
  BY <1>1, InOrderPlace
<1>6. \A j, k \in 1..Cardinality(S) : j < k => InOrder(S)[j] < InOrder(S)[k]
  BY <1>1, InOrderAscends
<1> QED
  BY <1>2, <1>3, <1>4, <1>5, <1>6

\* The state of the walk when the panel p has been taken off the deepest list, and emitted.
LEMMA PanelTaken ==
  ASSUME Tree, Emission, NEW path, OnPath(path), stack # << >>, Last(stack) # << >>,
         NEW p, p = Head(Last(stack)), output' = Append(output, p)
  PROVE  LET n == Len(stack)
             rest == Tail(Last(stack)) IN
         /\ n \in Nat /\ n >= 1 /\ rest \in Seq(Nat)
         /\ \A x : Emitted(output', x) <=> Emitted(output, x) \/ x = p
         /\ \A k \in 1..Len(rest) :
              rest[k] \in 1..count /\ parent[rest[k]] = path[n] /\ ~Emitted(output', rest[k])
         /\ \A j, k \in 1..Len(rest) : j < k => rest[j] < rest[k]
         /\ \A l \in 1..(n - 1) : \A k \in 1..Len(stack[l]) :
              /\ stack[l][k] \in 1..count /\ parent[stack[l][k]] = path[l]
              /\ ~Emitted(output', stack[l][k])
         /\ \A i \in 1..count :
              ~Emitted(output', i) /\ (parent[i] = 0 \/ Emitted(output, parent[i])) =>
                \/ \E l \in 1..(n - 1) : \E k \in 1..Len(stack[l]) : stack[l][k] = i
                \/ \E k \in 1..Len(rest) : rest[k] = i
<1> DEFINE n == Len(stack)
           t == stack[n]
           rest == Tail(t)
<1>1. stack \in Seq(Seq(Nat)) /\ path \in Seq(Nat) /\ Len(path) = n /\ output \in Seq(Nat)
  BY DEF OnPath, Emission
<1>2. n \in Nat /\ n >= 1 /\ Last(stack) = t /\ t \in Seq(Nat)
  <2>1. /\ Len(stack) \in Nat /\ Len(stack) >= 1 /\ Last(stack) = stack[Len(stack)]
        /\ Last(stack) \in Seq(Nat)
    BY <1>1, FrontIs
  <2> QED
    BY <2>1
<1>3. /\ p = t[1] /\ p \in Nat /\ Len(t) \in Nat /\ Len(t) >= 1
      /\ rest \in Seq(Nat) /\ Len(rest) = Len(t) - 1 /\ \A k \in 1..(Len(t) - 1) : rest[k] = t[k + 1]
  <2>1. t # << >> /\ p = Head(t)
    BY <1>2
  <2> HIDE DEF t
  <2>2. /\ Len(t) \in Nat /\ Len(t) >= 1 /\ Head(t) = t[1] /\ t[1] \in Nat
        /\ Tail(t) \in Seq(Nat) /\ Len(Tail(t)) = Len(t) - 1
        /\ \A k \in 1..(Len(t) - 1) : Tail(t)[k] = t[k + 1]
    BY <1>2, <2>1, TailIs
  <2> QED
    BY <2>1, <2>2
<1>4. n \in 1..n /\ 1 \in 1..Len(t) /\ \A l \in 1..(n - 1) : l \in 1..n /\ l # n
  BY <1>2, <1>3
<1>5. /\ \A k \in 1..Len(t) : t[k] \in 1..count /\ parent[t[k]] = path[n] /\ ~Emitted(output, t[k])
      /\ \A j, k \in 1..Len(t) : j < k => t[j] < t[k]
  BY <1>4 DEF OnPath
<1>6. \A l \in 1..n : \A k \in 1..Len(stack[l]) :
        stack[l][k] \in 1..count /\ parent[stack[l][k]] = path[l] /\ ~Emitted(output, stack[l][k])
  BY DEF OnPath
<1>7. \A i \in 1..count : ~Emitted(output, i) /\ (parent[i] = 0 \/ Emitted(output, parent[i])) =>
           \E l \in 1..n : \E k \in 1..Len(stack[l]) : stack[l][k] = i
  BY DEF OnPath
<1>8. \A x : Emitted(output', x) <=> Emitted(output, x) \/ x = p
  BY <1>1, <1>3, EmittedGrows
<1>9. \A l \in 1..(n - 1) : \A k \in 1..Len(stack[l]) :
        /\ stack[l][k] \in 1..count /\ parent[stack[l][k]] = path[l]
        /\ ~Emitted(output', stack[l][k])
  <2>1. ASSUME NEW l \in 1..(n - 1), NEW k \in 1..Len(stack[l]), stack[l][k] = p PROVE FALSE
    <3>2. parent[p] = path[n]
      BY <1>3, <1>4, <1>5
    <3>3. l \in 1..n /\ l # n /\ parent[stack[l][k]] = path[l]
      BY <1>4, <1>6, <2>1
    <3>1. l \in 1..n /\ l # n /\ path[l] = path[n]
      BY <2>1, <3>2, <3>3
    <3> QED
      BY <1>1, <1>4, <3>1, PathIsSimple
  <2> QED
    BY <1>4, <1>6, <1>8, <2>1
<1>10. ASSUME NEW i \in 1..count, ~Emitted(output', i), parent[i] = 0 \/ Emitted(output, parent[i])
       PROVE  \/ \E l \in 1..(n - 1) : \E k \in 1..Len(stack[l]) : stack[l][k] = i
              \/ \E k \in 1..Len(rest) : rest[k] = i
  <2>1. ~Emitted(output, i) /\ i # p
    BY <1>8, <1>10
  <2>2. PICK l \in 1..n : \E k \in 1..Len(stack[l]) : stack[l][k] = i
    BY <1>7, <1>10, <2>1
  <2>3. PICK k \in 1..Len(stack[l]) : stack[l][k] = i
    BY <2>2
  <2>4. CASE l # n
    <3>1. l \in 1..(n - 1)
      BY <1>2, <2>4
    <3> QED
      BY <2>3, <3>1
  <2>5. CASE l = n
    <3>1. k \in 1..Len(t) /\ t[k] = i
      BY <2>3, <2>5
    <3> HIDE DEF t
    <3>2. k # 1
      BY <1>3, <2>1, <3>1
    <3>3. k - 1 \in 1..(Len(t) - 1) /\ (k - 1) + 1 = k
      BY <1>3, <3>1, <3>2
    <3>4. rest[k - 1] = t[(k - 1) + 1]
      BY <1>3, <3>3
    <3>5. rest[k - 1] = i /\ k - 1 \in 1..Len(rest)
      BY <1>3, <3>1, <3>3, <3>4
    <3> QED
      BY <3>5
  <2> QED
    BY <2>4, <2>5
<1> HIDE DEF t
<1>11. \A k \in 1..Len(rest) : k + 1 \in 1..Len(t) /\ rest[k] = t[k + 1] /\ 1 < k + 1
  BY <1>3
<1>12. \A j, k \in 1..Len(rest) : j < k => rest[j] < rest[k]
  <2>1. ASSUME NEW j \in 1..Len(rest), NEW k \in 1..Len(rest), j < k PROVE rest[j] < rest[k]
    <3>1. j + 1 \in 1..Len(t) /\ k + 1 \in 1..Len(t) /\ j + 1 < k + 1
      BY <1>3, <1>11, <2>1
    <3>2. t[j + 1] < t[k + 1]
      BY <1>5, <3>1
    <3> QED
      BY <1>11, <3>2
  <2> QED
    BY <2>1
<1>13. \A k \in 1..Len(rest) :
         rest[k] \in 1..count /\ parent[rest[k]] = path[n] /\ ~Emitted(output', rest[k])
  <2>1. ASSUME NEW k \in 1..Len(rest) PROVE rest[k] # p
    <3>1. t[1] < t[k + 1] /\ t[1] \in Nat
      BY <1>3, <1>4, <1>5, <1>11
    <3>2. t[k + 1] # t[1]
      <4>1. t[k + 1] \in Nat
        BY <1>5, <1>11
      <4> QED
        BY <3>1, <4>1
    <3> QED
      BY <1>3, <1>11, <3>2
  <2> QED
    BY <1>5, <1>8, <1>11, <2>1
<1>14. rest = Tail(Last(stack))
  BY <1>2
<1> HIDE DEF rest
<1> QED
  BY <1>2, <1>3, <1>8, <1>9, <1>10, <1>12, <1>13, <1>14

\* The path after a panel without panels of its own: as before.
LEMMA LeafKeepsPath ==
  ASSUME Tree, Emission, NEW path, OnPath(path), stack # << >>, Last(stack) # << >>,
         NEW p, p = Head(Last(stack)), output' = Append(output, p), UNCHANGED <<count, parent>>,
         \A i \in 1..count : parent[i] # p,
         stack' = Front(stack) \o <<Tail(Last(stack))>>
  PROVE  OnPath(path)'
<1> DEFINE n == Len(stack)
           rest == Tail(Last(stack))
<1>1. /\ n \in Nat /\ n >= 1 /\ rest \in Seq(Nat)
      /\ \A x : Emitted(output', x) <=> Emitted(output, x) \/ x = p
      /\ \A k \in 1..Len(rest) :
           rest[k] \in 1..count /\ parent[rest[k]] = path[n] /\ ~Emitted(output', rest[k])
      /\ \A j, k \in 1..Len(rest) : j < k => rest[j] < rest[k]
      /\ \A l \in 1..(n - 1) : \A k \in 1..Len(stack[l]) :
           /\ stack[l][k] \in 1..count /\ parent[stack[l][k]] = path[l]
           /\ ~Emitted(output', stack[l][k])
      /\ \A i \in 1..count :
           ~Emitted(output', i) /\ (parent[i] = 0 \/ Emitted(output, parent[i])) =>
             \/ \E l \in 1..(n - 1) : \E k \in 1..Len(stack[l]) : stack[l][k] = i
             \/ \E k \in 1..Len(rest) : rest[k] = i
  BY PanelTaken
<1>2. /\ stack \in Seq(Seq(Nat)) /\ path \in Seq(Nat) /\ Len(path) = n /\ n <= MaxDepth + 1
      /\ \A l \in 1..Len(path) :
           /\ path[l] \in 0..count /\ Cardinality(Ancestor[path[l]]) = l - 1
           /\ l = 1 => path[l] = 0
           /\ l # 1 => path[l] \in 1..count /\ parent[path[l]] = path[l - 1] /\ Emitted(output, path[l])
  BY DEF OnPath
<1>3. \A l \in 1..n : \A j, k \in 1..Len(stack[l]) : j < k => stack[l][j] < stack[l][k]
  BY DEF OnPath
<1> HIDE DEF rest
<1>4. /\ stack' \in Seq(Seq(Nat)) /\ Len(stack') = n /\ stack'[n] = rest
      /\ \A l \in 1..(n - 1) : stack'[l] = stack[l]
  <2>1. stack' = Front(stack) \o <<rest>>
    BY DEF rest
  <2> DEFINE Lists == Seq(Nat)
  <2>3. stack \in Seq(Lists) /\ stack # << >> /\ rest \in Lists
    BY <1>1, <1>2
  <2> HIDE DEF Lists
  <2>4. LET t == Front(stack) \o <<rest>> IN
        /\ t \in Seq(Lists) /\ Len(t) = Len(stack) /\ t[Len(stack)] = rest
        /\ \A l \in 1..(Len(stack) - 1) : t[l] = stack[l]
    BY <2>3, LastReplaced
  <2>2. LET t == Front(stack) \o <<rest>> IN
        /\ t \in Seq(Seq(Nat)) /\ Len(t) = Len(stack) /\ t[Len(stack)] = rest
        /\ \A l \in 1..(Len(stack) - 1) : t[l] = stack[l]
    BY <2>4 DEF Lists
  <2> QED
    BY <2>1, <2>2
<1>5. Ancestor' = Ancestor
  BY DEF Ancestor
<1> HIDE DEF n
<1>6. \A l \in 1..n : l \in 1..(n - 1) \/ l = n
  BY <1>1
<1>7. \A l \in 1..Len(path) :
        /\ path[l] \in 0..count' /\ Cardinality(Ancestor'[path[l]]) = l - 1
        /\ l = 1 => path[l] = 0
        /\ l # 1 => path[l] \in 1..count' /\ parent'[path[l]] = path[l - 1] /\ Emitted(output', path[l])
  BY <1>1, <1>2, <1>5
<1>8. \A l \in 1..Len(stack') : \A k \in 1..Len(stack'[l]) :
        stack'[l][k] \in 1..count' /\ parent'[stack'[l][k]] = path[l] /\ ~Emitted(output', stack'[l][k])
  <2>1. ASSUME NEW l \in 1..n, NEW k \in 1..Len(stack'[l])
        PROVE  stack'[l][k] \in 1..count' /\ parent'[stack'[l][k]] = path[l] /\ ~Emitted(output', stack'[l][k])
    <3>1. CASE l = n
      BY <1>1, <1>4, <3>1
    <3>2. CASE l \in 1..(n - 1)
      <4>1. stack'[l] = stack[l]
        BY <1>4, <3>2
      <4>2. k \in 1..Len(stack[l])
        BY <4>1
      <4>3. stack[l][k] \in 1..count /\ parent[stack[l][k]] = path[l] /\ ~Emitted(output', stack[l][k])
        BY <1>1, <3>2, <4>2
      <4> QED
        BY <4>1, <4>3
    <3> QED
      BY <1>6, <3>1, <3>2
  <2> QED
    BY <1>4, <2>1
<1>9. \A l \in 1..Len(stack') : \A j, k \in 1..Len(stack'[l]) : j < k => stack'[l][j] < stack'[l][k]
  <2>1. ASSUME NEW l \in 1..n, NEW j \in 1..Len(stack'[l]), NEW k \in 1..Len(stack'[l]), j < k
        PROVE  stack'[l][j] < stack'[l][k]
    <3>1. CASE l = n
      BY <1>1, <1>4, <2>1, <3>1
    <3>2. CASE l \in 1..(n - 1)
      BY <1>3, <1>4, <2>1, <3>2
    <3> QED
      BY <1>6, <3>1, <3>2
  <2> QED
    BY <1>4, <2>1
<1>10. \A i \in 1..count' :
         ~Emitted(output', i) /\ (parent'[i] = 0 \/ Emitted(output', parent'[i])) =>
           \E l \in 1..Len(stack') : \E k \in 1..Len(stack'[l]) : stack'[l][k] = i
  <2>1. ASSUME NEW i \in 1..count, ~Emitted(output', i), parent[i] = 0 \/ Emitted(output', parent[i])
        PROVE  \E l \in 1..n : \E k \in 1..Len(stack'[l]) : stack'[l][k] = i
    <3>1. parent[i] = 0 \/ Emitted(output, parent[i])
      BY <1>1, <2>1
    <3>2. CASE \E l \in 1..(n - 1) : \E k \in 1..Len(stack[l]) : stack[l][k] = i
      <4>1. \A l \in 1..(n - 1) : l \in 1..n
        BY <1>1
      <4>2. PICK l \in 1..(n - 1) : \E k \in 1..Len(stack[l]) : stack[l][k] = i
        BY <3>2
      <4>3. stack'[l] = stack[l] /\ l \in 1..n
        BY <1>4, <4>1
      <4>4. \E k \in 1..Len(stack'[l]) : stack'[l][k] = i
        BY <4>2, <4>3
      <4> QED
        BY <4>3, <4>4
    <3>3. CASE \E k \in 1..Len(rest) : rest[k] = i
      <4>1. n \in 1..n
        BY <1>1
      <4> QED
        BY <1>4, <3>3, <4>1
    <3> QED
      BY <1>1, <2>1, <3>1, <3>2, <3>3
  <2> QED
    BY <1>4, <2>1
<1>11. path \in Seq(Nat) /\ stack' \in Seq(Seq(Nat)) /\ Len(path) = Len(stack') /\ Len(stack') <= MaxDepth + 1
  BY <1>2, <1>4
<1> QED
  BY <1>7, <1>8, <1>9, <1>10, <1>11 DEF OnPath

\* A path goes on to a panel.
Extends(way, path, p) ==
  /\ way \in Seq(Nat) /\ Len(way) = Len(path) + 1 /\ way[Len(path) + 1] = p
  /\ \A l \in 1..Len(path) : way[l] = path[l]

\* The path after a row: its panels are the deepest list, even if there are none.
LEMMA RowKeepsPath ==
  ASSUME Tree, Emission, NEW path, OnPath(path), stack # << >>, Last(stack) # << >>,
         NEW p, p = Head(Last(stack)), output' = Append(output, p), UNCHANGED <<count, parent>>,
         stack' = Front(stack) \o <<Tail(Last(stack)), Children(p)>>,
         Len(stack) + 1 <= MaxDepth + 1,
         NEW way, Extends(way, path, p)
  PROVE  OnPath(way)'
<1> DEFINE n == Len(stack)
           rest == Tail(Last(stack))
           own == Children(p)
<1>1. /\ n \in Nat /\ n >= 1 /\ rest \in Seq(Nat)
      /\ \A x : Emitted(output', x) <=> Emitted(output, x) \/ x = p
      /\ \A k \in 1..Len(rest) :
           rest[k] \in 1..count /\ parent[rest[k]] = path[n] /\ ~Emitted(output', rest[k])
      /\ \A j, k \in 1..Len(rest) : j < k => rest[j] < rest[k]
      /\ \A l \in 1..(n - 1) : \A k \in 1..Len(stack[l]) :
           /\ stack[l][k] \in 1..count /\ parent[stack[l][k]] = path[l]
           /\ ~Emitted(output', stack[l][k])
      /\ \A i \in 1..count :
           ~Emitted(output', i) /\ (parent[i] = 0 \/ Emitted(output, parent[i])) =>
             \/ \E l \in 1..(n - 1) : \E k \in 1..Len(stack[l]) : stack[l][k] = i
             \/ \E k \in 1..Len(rest) : rest[k] = i
  BY PanelTaken
<1>2. /\ stack \in Seq(Seq(Nat)) /\ path \in Seq(Nat) /\ Len(path) = n
      /\ \A l \in 1..Len(path) :
           /\ path[l] \in 0..count /\ Cardinality(Ancestor[path[l]]) = l - 1
           /\ l = 1 => path[l] = 0
           /\ l # 1 => path[l] \in 1..count /\ parent[path[l]] = path[l - 1] /\ Emitted(output, path[l])
  BY DEF OnPath
<1>3. \A l \in 1..n : \A j, k \in 1..Len(stack[l]) : j < k => stack[l][j] < stack[l][k]
  BY DEF OnPath
<1>4. /\ p \in 1..count /\ ~Emitted(output, p) /\ parent[p] = path[n] /\ Cardinality(Ancestor[p]) = n
  BY NextPanel
<1>5. count \in Nat /\ \A i \in 1..count : parent[i] \in Nat /\ parent[i] < i
  BY DEF Tree
<1>6. /\ own \in Seq(Nat)
      /\ \A k \in 1..Len(own) : own[k] \in 1..count /\ parent[own[k]] = p
      /\ \A j, k \in 1..Len(own) : j < k => own[j] < own[k]
      /\ \A i \in 1..count : parent[i] = p => \E k \in 1..Len(own) : own[k] = i
  BY ChildrenAre
<1> HIDE DEF rest, own
<1>7. /\ stack' \in Seq(Seq(Nat)) /\ Len(stack') = n + 1 /\ stack'[n] = rest /\ stack'[n + 1] = own
      /\ \A l \in 1..(n - 1) : stack'[l] = stack[l]
  <2>1. stack' = Front(stack) \o <<rest, own>>
    BY DEF rest, own
  <2> DEFINE Lists == Seq(Nat)
  <2>3. stack \in Seq(Lists) /\ stack # << >> /\ rest \in Lists /\ own \in Lists
    BY <1>1, <1>2, <1>6
  <2> HIDE DEF Lists
  <2>4. LET t == Front(stack) \o <<rest, own>> IN
        /\ t \in Seq(Lists) /\ Len(t) = Len(stack) + 1 /\ t[Len(stack)] = rest /\ t[Len(stack) + 1] = own
        /\ \A l \in 1..(Len(stack) - 1) : t[l] = stack[l]
    BY <2>3, LastReplacedByTwo
  <2>2. LET t == Front(stack) \o <<rest, own>> IN
        /\ t \in Seq(Seq(Nat)) /\ Len(t) = Len(stack) + 1 /\ t[Len(stack)] = rest /\ t[Len(stack) + 1] = own
        /\ \A l \in 1..(Len(stack) - 1) : t[l] = stack[l]
    BY <2>4 DEF Lists
  <2> QED
    BY <2>1, <2>2
<1>8. /\ way \in Seq(Nat) /\ Len(way) = n + 1 /\ way[n + 1] = p
      /\ \A l \in 1..n : way[l] = path[l]
  BY <1>2 DEF Extends
<1>9. Ancestor' = Ancestor
  BY DEF Ancestor
<1>10. n + 1 <= MaxDepth + 1
  OBVIOUS
<1> HIDE DEF n
<1>11. /\ \A l \in 1..(n + 1) : l \in 1..n \/ l = n + 1
       /\ \A l \in 1..n : l \in 1..(n - 1) \/ l = n
       /\ \A l \in 1..n : l # 1 => l - 1 \in 1..n
       /\ \A l \in 1..(n - 1) : l \in 1..n /\ l \in 1..(n + 1)
       /\ n \in 1..n /\ n \in 1..(n + 1) /\ n + 1 \in 1..(n + 1) /\ (n + 1) - 1 = n /\ n + 1 # 1
  BY <1>1
<1>12. \A l \in 1..Len(way) :
        /\ way[l] \in 0..count' /\ Cardinality(Ancestor'[way[l]]) = l - 1
        /\ l = 1 => way[l] = 0
        /\ l # 1 => way[l] \in 1..count' /\ parent'[way[l]] = way[l - 1] /\ Emitted(output', way[l])
  <2>1. ASSUME NEW l \in 1..n
        PROVE  /\ way[l] \in 0..count /\ Cardinality(Ancestor[way[l]]) = l - 1
               /\ l = 1 => way[l] = 0
               /\ l # 1 => way[l] \in 1..count /\ parent[way[l]] = way[l - 1] /\ Emitted(output', way[l])
    <3>1. way[l] = path[l] /\ (l # 1 => way[l - 1] = path[l - 1])
      BY <1>8, <1>11
    <3> QED
      BY <1>1, <1>2, <3>1
  <2>2. way[n + 1] \in 0..count /\ way[n + 1] \in 1..count
    BY <1>4, <1>5, <1>8
  <2>3. /\ Cardinality(Ancestor[way[n + 1]]) = (n + 1) - 1 /\ parent[way[n + 1]] = way[(n + 1) - 1]
        /\ Emitted(output', way[n + 1])
    BY <1>1, <1>4, <1>8, <1>11
  <2>4. \A l \in 1..(n + 1) :
          /\ way[l] \in 0..count /\ Cardinality(Ancestor[way[l]]) = l - 1
          /\ l = 1 => way[l] = 0
          /\ l # 1 => way[l] \in 1..count /\ parent[way[l]] = way[l - 1] /\ Emitted(output', way[l])
    BY <1>11, <2>1, <2>2, <2>3
  <2> QED
    BY <1>8, <1>9, <2>4
<1>13. ASSUME NEW k \in 1..Len(own) PROVE ~Emitted(output', own[k])
  <2>1. own[k] \in 1..count /\ parent[own[k]] = p
    BY <1>6
  <2>2. own[k] # p /\ p # 0
    <3>1. p \in Nat /\ parent[p] \in Nat /\ parent[p] < p
      BY <1>4, <1>5
    <3>2. parent[p] # p
      BY <3>1
    <3> QED
      BY <2>1, <3>1, <3>2
  <2>3. SUFFICES ASSUME Emitted(output, own[k]) PROVE FALSE
    BY <1>1, <2>2
  <2>4. PICK j \in 1..Len(output) : output[j] = own[k]
    BY <2>3 DEF Emitted
  <2>5. \E m \in 1..(j - 1) : output[m] = p
    <3>1. parent[output[j]] # 0 => \E m \in 1..(j - 1) : output[m] = parent[output[j]]
      BY DEF Emission
    <3>2. parent[output[j]] = p
      BY <2>1, <2>4
    <3> QED
      BY <2>2, <3>1, <3>2
  <2>6. Len(output) \in Nat
    BY DEF Emission
  <2>7. \A m \in 1..(j - 1) : m \in 1..Len(output)
    BY <2>6
  <2>8. Emitted(output, p)
    BY <2>5, <2>7 DEF Emitted
  <2> QED
    BY <1>4, <2>8
<1>14. \A l \in 1..Len(stack') : \A k \in 1..Len(stack'[l]) :
        stack'[l][k] \in 1..count' /\ parent'[stack'[l][k]] = way[l] /\ ~Emitted(output', stack'[l][k])
  <2>1. ASSUME NEW l \in 1..(n + 1), NEW k \in 1..Len(stack'[l])
        PROVE  stack'[l][k] \in 1..count' /\ parent'[stack'[l][k]] = way[l] /\ ~Emitted(output', stack'[l][k])
    <3>1. CASE l = n
      BY <1>1, <1>7, <1>8, <1>11, <3>1
    <3>2. CASE l \in 1..(n - 1)
      <4>1. stack'[l] = stack[l] /\ way[l] = path[l]
        BY <1>7, <1>8, <1>11, <3>2
      <4>2. k \in 1..Len(stack[l])
        BY <4>1
      <4>3. stack[l][k] \in 1..count /\ parent[stack[l][k]] = path[l] /\ ~Emitted(output', stack[l][k])
        BY <1>1, <3>2, <4>2
      <4> QED
        BY <4>1, <4>3
    <3>3. CASE l = n + 1
      <4>1. stack'[l] = own /\ way[l] = p
        BY <1>7, <1>8, <3>3
      <4> QED
        BY <1>6, <1>13, <4>1
    <3> QED
      BY <1>11, <3>1, <3>2, <3>3
  <2> QED
    BY <1>7, <2>1
<1>15. \A l \in 1..Len(stack') : \A j, k \in 1..Len(stack'[l]) : j < k => stack'[l][j] < stack'[l][k]
  <2>1. ASSUME NEW l \in 1..(n + 1), NEW j \in 1..Len(stack'[l]), NEW k \in 1..Len(stack'[l]), j < k
        PROVE  stack'[l][j] < stack'[l][k]
    <3>1. CASE l = n
      BY <1>1, <1>7, <2>1, <3>1
    <3>2. CASE l \in 1..(n - 1)
      BY <1>3, <1>7, <1>11, <2>1, <3>2
    <3>3. CASE l = n + 1
      BY <1>6, <1>7, <2>1, <3>3
    <3> QED
      BY <1>11, <3>1, <3>2, <3>3
  <2> QED
    BY <1>7, <2>1
<1>16. \A i \in 1..count' :
         ~Emitted(output', i) /\ (parent'[i] = 0 \/ Emitted(output', parent'[i])) =>
           \E l \in 1..Len(stack') : \E k \in 1..Len(stack'[l]) : stack'[l][k] = i
  <2>1. ASSUME NEW i \in 1..count, ~Emitted(output', i), parent[i] = 0 \/ Emitted(output', parent[i])
        PROVE  \E l \in 1..(n + 1) : \E k \in 1..Len(stack'[l]) : stack'[l][k] = i
    <3>1. CASE parent[i] = p
      BY <1>6, <1>7, <1>11, <3>1
    <3>2. CASE parent[i] # p
      <4>1. parent[i] = 0 \/ Emitted(output, parent[i])
        BY <1>1, <2>1, <3>2
      <4>2. CASE \E l \in 1..(n - 1) : \E k \in 1..Len(stack[l]) : stack[l][k] = i
        <5>2. PICK l \in 1..(n - 1) : \E k \in 1..Len(stack[l]) : stack[l][k] = i
          BY <4>2
        <5>3. stack'[l] = stack[l] /\ l \in 1..(n + 1)
          BY <1>7, <1>11
        <5>4. \E k \in 1..Len(stack'[l]) : stack'[l][k] = i
          BY <5>2, <5>3
        <5> QED
          BY <5>3, <5>4
      <4>3. CASE \E k \in 1..Len(rest) : rest[k] = i
        BY <1>7, <1>11, <4>3
      <4> QED
        BY <1>1, <2>1, <4>1, <4>2, <4>3
    <3> QED
      BY <3>1, <3>2
  <2>2. Len(stack') = n + 1
    BY <1>7
  <2>3. \A i \in 1..count : ~Emitted(output', i) /\ (parent[i] = 0 \/ Emitted(output', parent[i])) =>
          \E l \in 1..Len(stack') : \E k \in 1..Len(stack'[l]) : stack'[l][k] = i
    BY <2>1, <2>2
  <2> QED
    BY <2>3
<1>17. /\ way \in Seq(Nat) /\ stack' \in Seq(Seq(Nat)) /\ Len(way) = Len(stack')
       /\ Len(stack') <= MaxDepth + 1
  BY <1>7, <1>8, <1>10
<1>18. \A l \in 1..Len(stack') :
         /\ \A k \in 1..Len(stack'[l]) :
              /\ stack'[l][k] \in 1..count' /\ parent'[stack'[l][k]] = way[l]
              /\ ~Emitted(output', stack'[l][k])
         /\ \A j, k \in 1..Len(stack'[l]) : j < k => stack'[l][j] < stack'[l][k]
  <2>1. ASSUME NEW l \in 1..Len(stack'), NEW k \in 1..Len(stack'[l])
        PROVE  /\ stack'[l][k] \in 1..count' /\ parent'[stack'[l][k]] = way[l]
               /\ ~Emitted(output', stack'[l][k])
    BY <1>14, Zenon
  <2>2. ASSUME NEW l \in 1..Len(stack') PROVE \A j, k \in 1..Len(stack'[l]) : j < k => stack'[l][j] < stack'[l][k]
    BY <1>15, Zenon
  <2>3. ASSUME NEW l \in 1..Len(stack')
        PROVE  \A k \in 1..Len(stack'[l]) :
                 /\ stack'[l][k] \in 1..count' /\ parent'[stack'[l][k]] = way[l]
                 /\ ~Emitted(output', stack'[l][k])
    BY <2>1, Zenon
  <2>4. ASSUME NEW l \in 1..Len(stack')
        PROVE  /\ \A k \in 1..Len(stack'[l]) :
                    /\ stack'[l][k] \in 1..count' /\ parent'[stack'[l][k]] = way[l]
                    /\ ~Emitted(output', stack'[l][k])
               /\ \A j, k \in 1..Len(stack'[l]) : j < k => stack'[l][j] < stack'[l][k]
    <3>1. \A k \in 1..Len(stack'[l]) :
            /\ stack'[l][k] \in 1..count' /\ parent'[stack'[l][k]] = way[l]
            /\ ~Emitted(output', stack'[l][k])
      BY <2>3, Zenon
    <3>2. \A j, k \in 1..Len(stack'[l]) : j < k => stack'[l][j] < stack'[l][k]
      BY <2>2, Zenon
    <3> QED
      BY <3>1, <3>2, Zenon
  <2> QED
    BY <2>4, Zenon
<1> QED
  BY <1>12, <1>16, <1>17, <1>18, ZenonT(60) DEF OnPath

\* The path when the deepest list is used up: one list less.
LEMMA AscendKeepsPath ==
  ASSUME Tree, NEW path, OnPath(path), stack # << >>, Last(stack) = << >>,
         UNCHANGED <<count, parent, output>>, stack' = Front(stack),
         NEW way \in Seq(Nat), Len(way) = Len(stack) - 1,
         \A l \in 1..(Len(stack) - 1) : way[l] = path[l]
  PROVE  OnPath(way)'
<1> DEFINE n == Len(stack)
<1>1. /\ stack \in Seq(Seq(Nat)) /\ path \in Seq(Nat) /\ Len(path) = n /\ n <= MaxDepth + 1
      /\ \A l \in 1..Len(path) :
           /\ path[l] \in 0..count /\ Cardinality(Ancestor[path[l]]) = l - 1
           /\ l = 1 => path[l] = 0
           /\ l # 1 => path[l] \in 1..count /\ parent[path[l]] = path[l - 1] /\ Emitted(output, path[l])
      /\ \A l \in 1..n :
           /\ \A k \in 1..Len(stack[l]) :
                stack[l][k] \in 1..count /\ parent[stack[l][k]] = path[l] /\ ~Emitted(output, stack[l][k])
           /\ \A j, k \in 1..Len(stack[l]) : j < k => stack[l][j] < stack[l][k]
  BY DEF OnPath
<1>2. \A i \in 1..count : ~Emitted(output, i) /\ (parent[i] = 0 \/ Emitted(output, parent[i])) =>
           \E l \in 1..n : \E k \in 1..Len(stack[l]) : stack[l][k] = i
  BY DEF OnPath
<1>3. /\ n \in Nat /\ n >= 1 /\ stack[n] = << >> /\ stack' \in Seq(Seq(Nat)) /\ Len(stack') = n - 1
      /\ \A l \in 1..(n - 1) : stack'[l] = stack[l]
  <2> DEFINE Lists == Seq(Nat)
  <2>1. stack \in Seq(Lists) /\ stack # << >>
    BY <1>1
  <2> HIDE DEF Lists
  <2>2. /\ Len(stack) \in Nat /\ Len(stack) >= 1 /\ Last(stack) = stack[Len(stack)]
        /\ Front(stack) \in Seq(Lists) /\ Len(Front(stack)) = Len(stack) - 1
        /\ \A l \in 1..(Len(stack) - 1) : Front(stack)[l] = stack[l]
    BY <2>1, FrontIs
  <2>3. stack[Len(stack)] = << >>
    BY <2>2
  <2>4. stack' \in Seq(Lists) /\ Len(stack') = Len(stack) - 1 /\ \A l \in 1..(Len(stack) - 1) : stack'[l] = stack[l]
    BY <2>2
  <2> QED
    BY <2>2, <2>3, <2>4 DEF Lists
<1>4. way \in Seq(Nat) /\ Len(way) = n - 1 /\ \A l \in 1..(n - 1) : way[l] = path[l]
  OBVIOUS
<1>5. Ancestor' = Ancestor
  BY DEF Ancestor
<1>6. MaxDepth \in Nat
  BY BoundsAssumption
<1> HIDE DEF n
<1>7. /\ \A l \in 1..(n - 1) : l \in 1..n /\ (l # 1 => l - 1 \in 1..(n - 1))
      /\ \A l \in 1..n : l \in 1..(n - 1) \/ l = n
      /\ n - 1 <= MaxDepth + 1
  BY <1>1, <1>3, <1>6
<1>8. \A l \in 1..Len(way) :
        /\ way[l] \in 0..count' /\ Cardinality(Ancestor'[way[l]]) = l - 1
        /\ l = 1 => way[l] = 0
        /\ l # 1 => way[l] \in 1..count' /\ parent'[way[l]] = way[l - 1] /\ Emitted(output', way[l])
  <2>1. ASSUME NEW l \in 1..(n - 1)
        PROVE  /\ way[l] \in 0..count /\ Cardinality(Ancestor[way[l]]) = l - 1
               /\ l = 1 => way[l] = 0
               /\ l # 1 => way[l] \in 1..count /\ parent[way[l]] = way[l - 1] /\ Emitted(output, way[l])
    <3>1. way[l] = path[l] /\ (l # 1 => way[l - 1] = path[l - 1]) /\ l \in 1..Len(path)
      BY <1>1, <1>4, <1>7
    <3> QED
      BY <1>1, <3>1
  <2> QED
    BY <1>4, <1>5, <2>1
<1>9. \A l \in 1..Len(stack') :
        /\ \A k \in 1..Len(stack'[l]) :
             /\ stack'[l][k] \in 1..count' /\ parent'[stack'[l][k]] = way[l]
             /\ ~Emitted(output', stack'[l][k])
        /\ \A j, k \in 1..Len(stack'[l]) : j < k => stack'[l][j] < stack'[l][k]
  <2>1. ASSUME NEW l \in 1..(n - 1)
        PROVE  /\ \A k \in 1..Len(stack'[l]) :
                    /\ stack'[l][k] \in 1..count /\ parent[stack'[l][k]] = way[l]
                    /\ ~Emitted(output, stack'[l][k])
               /\ \A j, k \in 1..Len(stack'[l]) : j < k => stack'[l][j] < stack'[l][k]
    <3>1. stack'[l] = stack[l] /\ way[l] = path[l] /\ l \in 1..n
      BY <1>3, <1>4, <1>7
    <3>2. /\ \A k \in 1..Len(stack[l]) :
               stack[l][k] \in 1..count /\ parent[stack[l][k]] = path[l] /\ ~Emitted(output, stack[l][k])
          /\ \A j, k \in 1..Len(stack[l]) : j < k => stack[l][j] < stack[l][k]
      BY <1>1, <3>1
    <3> DEFINE list == stack[l]
    <3>3. stack'[l] = list
      BY <3>1
    <3>4. /\ \A k \in 1..Len(list) :
               list[k] \in 1..count /\ parent[list[k]] = way[l] /\ ~Emitted(output, list[k])
          /\ \A j, k \in 1..Len(list) : j < k => list[j] < list[k]
      BY <3>1, <3>2
    <3> HIDE DEF list
    <3> QED
      BY <3>3, <3>4
  <2>2. Len(stack') = n - 1
    BY <1>3
  <2> QED
    BY <2>1, <2>2
<1>10. \A i \in 1..count' :
         ~Emitted(output', i) /\ (parent'[i] = 0 \/ Emitted(output', parent'[i])) =>
           \E l \in 1..Len(stack') : \E k \in 1..Len(stack'[l]) : stack'[l][k] = i
  <2>1. ASSUME NEW i \in 1..count, ~Emitted(output, i), parent[i] = 0 \/ Emitted(output, parent[i])
        PROVE  \E l \in 1..(n - 1) : \E k \in 1..Len(stack'[l]) : stack'[l][k] = i
    <3>1. PICK l \in 1..n : \E k \in 1..Len(stack[l]) : stack[l][k] = i
      BY <1>2, <2>1
    <3>2. l # n
      <4>1. \A k \in 1..Len(<< >>) : FALSE
        OBVIOUS
      <4> QED
        BY <1>3, <3>1, <4>1
    <3>3. l \in 1..(n - 1) /\ stack'[l] = stack[l]
      BY <1>3, <1>7, <3>2
    <3>4. \E k \in 1..Len(stack'[l]) : stack'[l][k] = i
      BY <3>1, <3>3
    <3> QED
      BY <3>3, <3>4
  <2>2. Len(stack') = n - 1
    BY <1>3
  <2> QED
    BY <2>1, <2>2
<1>11. way \in Seq(Nat) /\ stack' \in Seq(Seq(Nat)) /\ Len(way) = Len(stack') /\ Len(stack') <= MaxDepth + 1
  BY <1>3, <1>4, <1>7
<1> QED
  BY <1>8, <1>9, <1>10, <1>11 DEF OnPath

\* The path at the start: the list of the panels of the dashboard itself.
LEMMA PathBegins ==
  ASSUME Tree, output = << >>, UNCHANGED <<count, parent, output>>, stack' = <<Children(0)>>,
         NEW way \in Seq(Nat), Len(way) = 1, way[1] = 0
  PROVE  OnPath(way)'
<1> DEFINE own == Children(0)
<1>1. /\ own \in Seq(Nat)
      /\ \A k \in 1..Len(own) : own[k] \in 1..count /\ parent[own[k]] = 0
      /\ \A j, k \in 1..Len(own) : j < k => own[j] < own[k]
      /\ \A i \in 1..count : parent[i] = 0 => \E k \in 1..Len(own) : own[k] = i
  BY ChildrenAre
<1>2. \A x : ~Emitted(output', x)
  <2>1. \A k \in 1..Len(output) : FALSE
    OBVIOUS
  <2> QED
    BY <2>1 DEF Emitted
<1> HIDE DEF own
<1>3. stack' \in Seq(Seq(Nat)) /\ Len(stack') = 1 /\ stack'[1] = own
  <2>1. stack' = <<own>>
    BY DEF own
  <2> DEFINE Lists == Seq(Nat)
  <2>2. own \in Lists
    BY <1>1
  <2> HIDE DEF Lists
  <2>3. stack' \in Seq(Lists) /\ Len(stack') = 1 /\ stack'[1] = own
    BY <2>1, <2>2
  <2> QED
    BY <2>3 DEF Lists
<1>4. way \in Seq(Nat) /\ Len(way) = 1 /\ way[1] = 0
  OBVIOUS
<1>5. Ancestor' = Ancestor
  BY DEF Ancestor
<1>6. Cardinality(Ancestor[0]) = 0
  BY AncestorsOfAPanel, FS_EmptySet
<1>7. MaxDepth \in Nat /\ count \in Nat /\ \A l \in 1..1 : l = 1
  BY BoundsAssumption DEF Tree
<1>8. \A l \in 1..Len(way) :
        /\ way[l] \in 0..count' /\ Cardinality(Ancestor'[way[l]]) = l - 1
        /\ l = 1 => way[l] = 0
        /\ l # 1 => way[l] \in 1..count' /\ parent'[way[l]] = way[l - 1] /\ Emitted(output', way[l])
  BY <1>4, <1>5, <1>6, <1>7
<1>9. \A l \in 1..Len(stack') :
        /\ \A k \in 1..Len(stack'[l]) :
             /\ stack'[l][k] \in 1..count' /\ parent'[stack'[l][k]] = way[l]
             /\ ~Emitted(output', stack'[l][k])
        /\ \A j, k \in 1..Len(stack'[l]) : j < k => stack'[l][j] < stack'[l][k]
  BY <1>1, <1>2, <1>3, <1>4, <1>7
<1>10. \A i \in 1..count' :
         ~Emitted(output', i) /\ (parent'[i] = 0 \/ Emitted(output', parent'[i])) =>
           \E l \in 1..Len(stack') : \E k \in 1..Len(stack'[l]) : stack'[l][k] = i
  <2>1. 1 \in 1..1
    OBVIOUS
  <2> QED
    BY <1>1, <1>2, <1>3, <2>1
<1>11. way \in Seq(Nat) /\ stack' \in Seq(Seq(Nat)) /\ Len(way) = Len(stack') /\ Len(stack') <= MaxDepth + 1
  BY <1>3, <1>4, <1>7
<1> QED
  BY <1>8, <1>9, <1>10, <1>11 DEF OnPath

\* A sequence without repetition has as many elements as it is long.
LEMMA ElementsAreCounted ==
  ASSUME NEW s \in Seq(Nat), \A j, k \in 1..Len(s) : j < k => s[j] # s[k]
  PROVE  /\ IsFiniteSet({s[k] : k \in 1..Len(s)})
         /\ Cardinality({s[k] : k \in 1..Len(s)}) = Len(s)
<1> DEFINE E(n) == {s[k] : k \in 1..n}
           T == {n \in Nat : n <= Len(s) => IsFiniteSet(E(n)) /\ Cardinality(E(n)) = n}
<1>1. Len(s) \in Nat
  OBVIOUS
<1>2. 0 \in T
  <2>1. E(0) = {}
    OBVIOUS
  <2> HIDE DEF E
  <2> QED
    BY <2>1, FS_EmptySet
<1>3. ASSUME NEW n \in Nat, n \in T PROVE n + 1 \in T
  <2>1. SUFFICES ASSUME n + 1 <= Len(s) PROVE IsFiniteSet(E(n + 1)) /\ Cardinality(E(n + 1)) = n + 1
    OBVIOUS
  <2>2. IsFiniteSet(E(n)) /\ Cardinality(E(n)) = n
    BY <1>1, <1>3, <2>1
  <2>3. \A k : k \in 1..(n + 1) <=> k \in 1..n \/ k = n + 1
    OBVIOUS
  <2>4. E(n + 1) = E(n) \cup {s[n + 1]}
    BY <2>3
  <2>5. s[n + 1] \notin E(n)
    <3>1. ASSUME NEW k \in 1..n, s[k] = s[n + 1] PROVE FALSE
      <4>1. k \in 1..Len(s) /\ n + 1 \in 1..Len(s) /\ k < n + 1
        BY <1>1, <2>1
      <4> QED
        BY <3>1, <4>1
    <3> QED
      BY <3>1
  <2> HIDE DEF E
  <2>6. IsFiniteSet(E(n) \cup {s[n + 1]}) /\ Cardinality(E(n) \cup {s[n + 1]}) = n + 1
    BY <2>2, <2>5, FS_AddElement
  <2> QED
    BY <2>4, <2>6
<1> HIDE DEF T, E
<1>4. \A n \in Nat : n \in T
  BY <1>2, <1>3, NatSetInduction
<1>5. IsFiniteSet(E(Len(s))) /\ Cardinality(E(Len(s))) = Len(s)
  BY <1>1, <1>4 DEF T
<1> QED
  BY <1>5 DEF E

\* As many panels as the dashboard has, when nothing is missing, and fewer before.
LEMMA OutputIsCounted ==
  ASSUME Tree, Emission
  PROVE  /\ Len(output) <= count
         /\ (\E i \in 1..count : ~Emitted(output, i)) => Len(output) < count
         /\ (\A i \in 1..count : Emitted(output, i)) => Len(output) = count
<1> DEFINE E == {output[k] : k \in 1..Len(output)}
           N == 1..count
<1>1. /\ output \in Seq(Nat) /\ \A j, k \in 1..Len(output) : j < k => output[j] # output[k]
      /\ \A k \in 1..Len(output) : output[k] \in 1..count
  BY DEF Emission
<1>2. IsFiniteSet(E) /\ Cardinality(E) = Len(output)
  BY <1>1, ElementsAreCounted
<1>3. IsFiniteSet(N) /\ Cardinality(N) = count
  <2>1. 1 \in Int /\ count \in Int /\ 1 <= count + 1 /\ count \in Nat
    BY DEF Tree
  <2>2. IsFiniteSet(1..count)
    BY <2>1, FS_Interval
  <2>3. Cardinality(1..count) = IF 1 > count THEN 0 ELSE count - 1 + 1
    BY <2>1, FS_Interval
  <2> QED
    BY <2>1, <2>2, <2>3
<1>4. E \subseteq N /\ \A i : i \in E <=> Emitted(output, i)
  BY <1>1 DEF Emitted
<1>5. Len(output) \in Nat /\ count \in Nat
  BY <1>1 DEF Tree
<1> HIDE DEF E, N
<1>6. Cardinality(E) <= Cardinality(N) /\ (Cardinality(N) = Cardinality(E) => N = E)
  BY <1>3, <1>4, FS_Subset
<1>7. (\E i \in N : i \notin E) => Len(output) < count
  BY <1>2, <1>3, <1>5, <1>6
<1>8. (\A i \in N : i \in E) => Len(output) = count
  <2>1. (\A i \in N : i \in E) => E = N
    BY <1>4
  <2> QED
    BY <1>2, <1>3, <2>1
<1>9. Len(output) <= count
  BY <1>2, <1>3, <1>6
<1> QED
  BY <1>4, <1>7, <1>8, <1>9 DEF N

\* At the end of the walk nothing is missing.
LEMMA NothingIsMissing ==
  ASSUME Tree, NEW path, OnPath(path), stack = << >>
  PROVE  \A i \in 1..count : Emitted(output, i)
<1> DEFINE U == {i \in 1..count : ~Emitted(output, i)}
<1>1. SUFFICES ASSUME U # {} PROVE FALSE
  OBVIOUS
<1>2. count \in Nat /\ \A i \in 1..count : parent[i] \in Nat /\ parent[i] < i
  BY DEF Tree
<1>3. U \subseteq Nat
  BY <1>2
<1>4. PICK u \in U : \A i \in U : u <= i
  <2> HIDE DEF U
  <2> QED
    BY <1>1, <1>3, LeastNat
<1>5. u \in 1..count /\ ~Emitted(output, u)
  OBVIOUS
<1>6. parent[u] = 0 \/ Emitted(output, parent[u])
  <2>1. SUFFICES ASSUME parent[u] # 0, ~Emitted(output, parent[u]) PROVE FALSE
    OBVIOUS
  <2>2. parent[u] \in 1..count /\ parent[u] < u
    BY <1>2, <1>5, <2>1
  <2>3. parent[u] \in U
    BY <2>1, <2>2
  <2>4. u <= parent[u]
    BY <1>4, <2>3
  <2> QED
    BY <1>2, <1>5, <2>2, <2>4
<1>7. \E l \in 1..Len(stack) : \E k \in 1..Len(stack[l]) : stack[l][k] = u
  BY <1>5, <1>6 DEF OnPath
<1>8. \A l \in 1..Len(stack) : FALSE
  OBVIOUS
<1> QED
  BY <1>7, <1>8

\* What an inventory that is returned says, and which dashboards have one.
WholeAndInOrder ==
  /\ Len(output) = count /\ Range(output) = 1..count
  /\ \A p \in 1..count, q \in 1..count :
       /\ p \in Ancestor[q] => Position(p) < Position(q)
       /\ parent[p] = parent[q] /\ p < q =>
            \A r \in 1..count : r = p \/ p \in Ancestor[r] => Position(r) < Position(q)

Within ==
  /\ count <= MaxPanels /\ malformed = {} /\ variables <= MaxVariables
  /\ \A p \in rows : Cardinality(Ancestor[p]) <= MaxDepth

\* A panel has one position, since nothing is emitted twice.
LEMMA PositionIs ==
  ASSUME Emission, NEW p, NEW k \in 1..Len(output), output[k] = p
  PROVE  Position(p) = k
<1>1. Position(p) \in 1..Len(output) /\ output[Position(p)] = p
  BY DEF Position
<1>2. \A i, j \in 1..Len(output) : i < j => output[i] # output[j]
  BY DEF Emission
<1>3. ~(Position(p) < k) /\ ~(k < Position(p))
  BY <1>1, <1>2
<1>4. output \in Seq(Nat)
  BY DEF Emission
<1>5. Position(p) \in Int /\ k \in Int
  BY <1>1, <1>4
<1> QED
  BY <1>3, <1>5

\* When everything was emitted, it was in the order of the dashboard.
LEMMA InventoryIsWhole ==
  ASSUME Tree, Emission, \A i \in 1..count : Emitted(output, i)
  PROVE  WholeAndInOrder
<1>1. count \in Nat /\ \A i \in 1..count : parent[i] \in Nat /\ parent[i] < i
  BY DEF Tree
<1>2. /\ output \in Seq(Nat) /\ \A k \in 1..Len(output) : output[k] \in 1..count
      /\ \A k \in 1..Len(output) :
           parent[output[k]] # 0 => \E j \in 1..(k - 1) : output[j] = parent[output[k]]
  BY DEF Emission
<1>3. \A k \in 1..Len(output), p \in 1..count, r \in 1..count :
        parent[p] = parent[output[k]] /\ p < output[k] /\ (r = p \/ p \in Ancestor[r])
          => \E j \in 1..(k - 1) : output[j] = r
  BY DEF Emission
<1>4. Ancestor[0] = {} /\ \A i \in 1..count : Ancestor[i] = {parent[i]} \cup Ancestor[parent[i]]
  BY AncestorsOfAPanel
<1>5. Len(output) = count
  BY OutputIsCounted
<1>6. Range(output) = 1..count
  <2>1. DOMAIN output = 1..Len(output)
    BY <1>2
  <2>2. \A i \in 1..count : \E k \in 1..Len(output) : output[k] = i
    BY DEF Emitted
  <2> QED
    BY <1>2, <2>1, <2>2 DEF Range
<1>7. ASSUME NEW q \in 1..count
      PROVE  /\ Position(q) \in 1..Len(output) /\ output[Position(q)] = q
             /\ \A r : (\E j \in 1..(Position(q) - 1) : output[j] = r) => Position(r) < Position(q)
  <2>1. PICK k \in 1..Len(output) : output[k] = q
    BY DEF Emitted
  <2>2. Position(q) = k
    BY <2>1, PositionIs
  <2>3. ASSUME NEW r, NEW j \in 1..(k - 1), output[j] = r PROVE Position(r) < k
    <3>1. Len(output) \in Nat
      BY <1>2
    <3>2. j \in 1..Len(output) /\ j < k
      BY <2>3, <3>1
    <3>3. Position(r) = j
      BY <2>3, <3>2, PositionIs
    <3> QED
      BY <3>2, <3>3
  <2> QED
    BY <2>1, <2>2, <2>3
<1>8. ASSUME NEW q \in 1..count, parent[q] # 0 PROVE Position(parent[q]) < Position(q)
  BY <1>2, <1>7, <1>8
<1> DEFINE T == {n \in Nat : \A q \in 1..count : q <= n =>
                   \A p \in 1..count : p \in Ancestor[q] => Position(p) < Position(q)}
<1>9. 0 \in T
  BY <1>1
<1>10. ASSUME NEW n \in Nat, n \in T PROVE n + 1 \in T
  <2>1. ASSUME NEW q \in 1..count, q <= n + 1, NEW p \in 1..count, p \in Ancestor[q]
        PROVE  Position(p) < Position(q)
    <3>1. p = parent[q] \/ p \in Ancestor[parent[q]]
      BY <1>4, <2>1
    <3>2. parent[q] # 0
      BY <1>1, <1>4, <3>1
    <3>3. parent[q] \in 1..count /\ parent[q] <= n
      BY <1>1, <2>1, <3>2
    <3>4. Position(parent[q]) < Position(q)
      BY <1>8, <3>2
    <3>5. p \in Ancestor[parent[q]] => Position(p) < Position(parent[q])
      BY <1>10, <3>3
    <3>6. Position(p) \in Int /\ Position(q) \in Int /\ Position(parent[q]) \in Int
      <4>1. \A i \in 1..count : Position(i) \in Int
        BY <1>2, <1>7
      <4> QED
        BY <3>3, <4>1
    <3>7. CASE p = parent[q]
      BY <3>4, <3>7
    <3>8. CASE p \in Ancestor[parent[q]]
      BY <3>4, <3>5, <3>6, <3>8
    <3> QED
      BY <3>1, <3>7, <3>8
  <2> QED
    BY <2>1
<1> HIDE DEF T
<1>11. \A n \in Nat : n \in T
  BY <1>9, <1>10, NatSetInduction
<1>12. ASSUME NEW q \in 1..count, NEW p \in 1..count, p \in Ancestor[q] PROVE Position(p) < Position(q)
  <2>1. q \in Nat /\ q <= q
    BY <1>1
  <2> QED
    BY <1>11, <1>12, <2>1 DEF T
<1>13. ASSUME NEW p \in 1..count, NEW q \in 1..count, parent[p] = parent[q], p < q,
              NEW r \in 1..count, r = p \/ p \in Ancestor[r]
       PROVE  Position(r) < Position(q)
  <2>1. Position(q) \in 1..Len(output) /\ output[Position(q)] = q
    BY <1>7
  <2>2. \E j \in 1..(Position(q) - 1) : output[j] = r
    BY <1>3, <1>13, <2>1
  <2> QED
    BY <1>7, <2>2
<1> QED
  BY <1>5, <1>6, <1>12, <1>13 DEF WholeAndInOrder

\* When everything was emitted, no limit is broken.
LEMMA WholeIsWithin ==
  ASSUME Tree, Emission, \A i \in 1..count : Emitted(output, i),
         variables <= MaxVariables, malformed \subseteq 1..count, rows \subseteq 1..count
  PROVE  Within
<1>1. \A i \in 1..count : i \notin malformed /\ (i \in rows => Cardinality(Ancestor[i]) <= MaxDepth)
  <2>1. \A k \in 1..Len(output) :
          output[k] \notin malformed /\ (output[k] \in rows => Cardinality(Ancestor[output[k]]) <= MaxDepth)
    BY DEF Emission
  <2> QED
    BY <2>1 DEF Emitted
<1>2. count <= MaxPanels
  <2>1. Len(output) = count
    BY OutputIsCounted
  <2> QED
    BY <2>1 DEF Emission
<1> QED
  BY <1>1, <1>2 DEF Within

\* The dashboard stays what it is, and so do its limits.
DashboardStays == UNCHANGED <<count, parent, rows, malformed, variables>>

\* A step changes no limit.
LEMMA LimitsStay ==
  ASSUME DashboardStays
  PROVE  (Tree => Tree') /\ Within' = Within
<1>1. Ancestor' = Ancestor
  BY DEF Ancestor, DashboardStays
<1>2. Tree => Tree'
  BY DEF Tree, DashboardStays
<1>3. Within' = Within
  BY <1>1 DEF Within, DashboardStays
<1> QED
  BY <1>2, <1>3

\* A step that emits nothing leaves what is known of the output.
LEMMA OutputStays ==
  ASSUME DashboardStays, output' = output
  PROVE  (Emission => Emission') /\ (WholeAndInOrder => WholeAndInOrder')
<1>1. Ancestor' = Ancestor
  BY DEF Ancestor, DashboardStays
<1>2. Emission => Emission'
  BY <1>1 DEF Emission, DashboardStays
<1>3. WholeAndInOrder => WholeAndInOrder'
  BY <1>1 DEF WholeAndInOrder, Position, DashboardStays
<1> QED
  BY <1>2, <1>3

\* What a step after the variables has to show.
LEMMA DashboardInvNext ==
  ASSUME DashboardInv, DashboardStays,
         dashboardVerdict' # "reading",
         dashboardVerdict' = "flattening" =>
           variables <= MaxVariables /\ Emission' /\ \E path : OnPath(path)',
         dashboardVerdict' = "ok" => WholeAndInOrder',
         dashboardVerdict' \in {"ok", "oversized"} => Within,
         dashboardVerdict' = "invalid_response" => ~Within
  PROVE  DashboardInv'
<1>1. Within' = Within /\ Tree'
  BY LimitsStay DEF DashboardInv
<1>2. PanelsInOrder'
  BY DEF PanelsInOrder, WholeAndInOrder
<1>3. /\ dashboardVerdict' \in {"ok", "oversized"} => Within'
      /\ dashboardVerdict' = "invalid_response" => ~Within'
  BY <1>1
<1>4. LimitsExact'
  BY <1>3 DEF LimitsExact, Within
<1>5. variables' \in Nat /\ rows' \subseteq 1..count' /\ malformed' \subseteq 1..count'
      /\ (\A p \in 1..count' : parent'[p] # 0 => parent'[p] \in rows')
      /\ (variables <= MaxVariables => variables' <= MaxVariables)
  BY DEF DashboardInv, DashboardStays
<1>6. InventoryExact'
  BY <1>2, <1>4 DEF InventoryExact
<1> QED
  BY <1>1, <1>5, <1>6, Zenon DEF DashboardInv

\* ReadVariables keeps the invariant.
LEMMA ReadVariablesStep ==
  ASSUME DashboardInv, ReadVariables PROVE DashboardInv'
<1>1. DashboardStays /\ output = << >> /\ output' = output /\ Tree /\ variables \in Nat
  BY DEF ReadVariables, DashboardStays, DashboardInv
<1>2. CASE variables > MaxVariables
  <2>1. dashboardVerdict' = "invalid_response"
    BY <1>2 DEF ReadVariables
  <2>2. MaxVariables \in Nat
    BY BoundsAssumption
  <2>3. ~Within
    BY <1>1, <1>2, <2>2 DEF Within
  <2> QED
    BY <1>1, <2>1, <2>3, DashboardInvNext
<1>3. CASE ~(variables > MaxVariables)
  <2>1. dashboardVerdict' = "flattening" /\ stack' = <<Children(0)>>
    BY <1>3 DEF ReadVariables
  <2>2. MaxVariables \in Nat /\ MaxPanels \in Nat
    BY BoundsAssumption
  <2>3. variables <= MaxVariables
    BY <1>1, <1>3, <2>2
  <2>4. output' \in Seq(Nat) /\ Len(output') = 0 /\ \A k \in 1..Len(output') : FALSE
    BY <1>1
  <2>5. Emission'
    <3>1. Len(output') <= MaxPanels
      BY <2>2, <2>4
    <3> QED
      BY <2>4, <3>1 DEF Emission
  <2>6. UNCHANGED <<count, parent, output>>
    BY <1>1 DEF DashboardStays
  <2>7. <<0>> \in Seq(Nat) /\ Len(<<0>>) = 1 /\ <<0>>[1] = 0
    OBVIOUS
  <2>8. OnPath(<<0>>)'
    BY <1>1, <2>1, <2>6, <2>7, PathBegins
  <2>9. \E path : OnPath(path)'
    BY <2>8
  <2> QED
    BY <1>1, <2>1, <2>3, <2>5, <2>9, DashboardInvNext
<1> QED
  BY <1>2, <1>3

\* Ascend keeps the invariant.
LEMMA AscendStep ==
  ASSUME DashboardInv, Ascend PROVE DashboardInv'
<1>1. /\ DashboardStays /\ UNCHANGED output /\ dashboardVerdict = "flattening"
      /\ dashboardVerdict' = dashboardVerdict /\ stack # << >> /\ Last(stack) = << >>
      /\ stack' = Front(stack)
  BY DEF Ascend, DashboardStays
<1>2. Tree /\ Emission /\ variables <= MaxVariables
  BY <1>1 DEF DashboardInv
<1>3. PICK path : OnPath(path)
  BY <1>1 DEF DashboardInv
<1>4. UNCHANGED <<count, parent, rows, malformed, output>>
  BY <1>1 DEF DashboardStays
<1>6. Emission'
  BY <1>1, <1>2, OutputStays
<1>7. path \in Seq(Nat) /\ path # << >> /\ Len(path) = Len(stack)
  <2>1. path \in Seq(Nat) /\ Len(path) = Len(stack) /\ stack \in Seq(Seq(Nat))
    BY <1>3 DEF OnPath
  <2>2. Len(stack) # 0
    BY <1>1, <2>1
  <2> QED
    BY <2>1, <2>2
<1>8. /\ Front(path) \in Seq(Nat) /\ Len(Front(path)) = Len(path) - 1
      /\ \A l \in 1..(Len(path) - 1) : Front(path)[l] = path[l]
  BY <1>7, FrontIs
<1>9. OnPath(Front(path))'
  <2> DEFINE way == Front(path)
  <2>1. way \in Seq(Nat) /\ Len(way) = Len(stack) - 1 /\ \A l \in 1..(Len(stack) - 1) : way[l] = path[l]
    BY <1>7, <1>8
  <2>2. UNCHANGED <<count, parent, output>>
    BY <1>4
  <2> HIDE DEF way
  <2>3. OnPath(way)'
    BY <1>1, <1>2, <1>3, <2>1, <2>2, AscendKeepsPath
  <2> QED
    BY <2>3 DEF way
<1>10. \E way : OnPath(way)'
  BY <1>9
<1> QED
  BY <1>1, <1>2, <1>6, <1>10, DashboardInvNext

\* Complete keeps the invariant.
LEMMA CompleteStep ==
  ASSUME DashboardInv, Complete PROVE DashboardInv'
<1>1. /\ DashboardStays /\ UNCHANGED output /\ dashboardVerdict = "flattening"
      /\ dashboardVerdict' \in {"ok", "oversized"} /\ stack = << >>
  BY DEF Complete, DashboardStays
<1>2. /\ Tree /\ Emission /\ variables <= MaxVariables
      /\ malformed \subseteq 1..count /\ rows \subseteq 1..count
  BY <1>1 DEF DashboardInv
<1>3. PICK path : OnPath(path)
  BY <1>1 DEF DashboardInv
<1>4. \A i \in 1..count : Emitted(output, i)
  BY <1>1, <1>2, <1>3, NothingIsMissing
<1>5. WholeAndInOrder /\ Within
  BY <1>2, <1>4, InventoryIsWhole, WholeIsWithin
<1>7. WholeAndInOrder'
  BY <1>1, <1>5, OutputStays
<1> QED
  BY <1>1, <1>5, <1>7, DashboardInvNext

\* Visit keeps the invariant.
LEMMA VisitStep ==
  ASSUME DashboardInv, Visit PROVE DashboardInv'
<1>1. /\ DashboardStays /\ dashboardVerdict = "flattening" /\ stack # << >> /\ Last(stack) # << >>
  BY DEF Visit, DashboardStays
<1>2. /\ Tree /\ Emission /\ variables <= MaxVariables
      /\ malformed \subseteq 1..count /\ rows \subseteq 1..count
      /\ \A i \in 1..count : parent[i] # 0 => parent[i] \in rows
  BY <1>1 DEF DashboardInv
<1>3. PICK path : OnPath(path)
  BY <1>1 DEF DashboardInv
<1>4. PICK p : p = Head(Last(stack))
  OBVIOUS
<1>5. /\ p \in 1..count /\ ~Emitted(output, p) /\ (parent[p] = 0 \/ Emitted(output, parent[p]))
      /\ Cardinality(Ancestor[p]) = Len(stack)
      /\ \A q \in 1..count, r \in 1..count :
           parent[q] = parent[p] /\ q < p /\ (r = q \/ q \in Ancestor[r]) => Emitted(output, r)
  BY <1>1, <1>2, <1>3, <1>4, NextPanel
<1>6. UNCHANGED <<count, parent, rows, malformed>>
  BY <1>1 DEF DashboardStays
<1>7. CASE Full \/ p \in malformed
  <2>1. dashboardVerdict' = "invalid_response"
    BY <1>4, <1>7 DEF Visit, Reject
  <2>2. ~Within
    <3>1. CASE p \in malformed
      BY <3>1 DEF Within
    <3>2. CASE Full
      <4>1. Len(output) < count /\ Len(output) >= MaxPanels
        BY <1>2, <1>5, <3>2, OutputIsCounted DEF Full
      <4>2. Len(output) \in Nat /\ count \in Nat /\ MaxPanels \in Nat
        BY <1>2, BoundsAssumption DEF Emission, Tree
      <4>3. ~(count <= MaxPanels)
        BY <4>1, <4>2
      <4> QED
        BY <4>3 DEF Within
    <3> QED
      BY <1>7, <3>1, <3>2
  <2> QED
    BY <1>1, <2>1, <2>2, DashboardInvNext
<1>8. CASE ~(Full \/ p \in malformed)
  <2>1. /\ output' = Append(output, p)
        /\ stack' = Front(stack) \o Descend(Tail(Last(stack)), p)
        /\ dashboardVerdict' = IF Len(stack') > MaxDepth + 1 THEN "invalid_response" ELSE dashboardVerdict
    BY <1>4, <1>8 DEF Visit
  <2>2. /\ stack \in Seq(Seq(Nat)) /\ Len(stack) \in Nat /\ Len(stack) <= MaxDepth + 1 /\ MaxDepth \in Nat
    <3>1. stack \in Seq(Seq(Nat)) /\ Len(stack) <= MaxDepth + 1
      BY <1>3 DEF OnPath
    <3> QED
      BY <3>1, BoundsAssumption
  <2>3. Tail(Last(stack)) \in Seq(Nat) /\ Children(p) \in Seq(Nat)
    <3>1. Last(stack) \in Seq(Nat)
      BY <1>1, <2>2, FrontIs
    <3> QED
      BY <1>1, <1>2, <3>1, ChildrenAre, TailIs
  <2>4. CASE p \in rows
    <3>1. stack' = Front(stack) \o <<Tail(Last(stack)), Children(p)>>
      BY <2>1, <2>4 DEF Descend
    <3>2. Len(stack') = Len(stack) + 1
      <4> DEFINE Lists == Seq(Nat)
                 x == Tail(Last(stack))
                 y == Children(p)
      <4>1. stack \in Seq(Lists) /\ x \in Lists /\ y \in Lists /\ stack' = Front(stack) \o <<x, y>>
        BY <2>2, <2>3, <3>1
      <4> HIDE DEF Lists, x, y
      <4>2. Len(Front(stack) \o <<x, y>>) = Len(stack) + 1
        BY <1>1, <4>1, LastReplacedByTwo
      <4> QED
        BY <4>1, <4>2
    <3>3. CASE Len(stack') > MaxDepth + 1
      <4>1. ~(Cardinality(Ancestor[p]) <= MaxDepth)
        BY <1>5, <2>2, <3>2, <3>3
      <4>2. ~Within
        BY <2>4, <4>1 DEF Within
      <4>3. dashboardVerdict' = "invalid_response"
        BY <2>1, <3>3
      <4> QED
        BY <1>1, <4>2, <4>3, DashboardInvNext
    <3>4. CASE ~(Len(stack') > MaxDepth + 1)
      <4>1. Len(stack) + 1 <= MaxDepth + 1 /\ Cardinality(Ancestor[p]) <= MaxDepth
        BY <1>5, <2>2, <3>2, <3>4
      <4>2. Emission'
        BY <1>2, <1>5, <1>6, <1>8, <2>1, <4>1, EmissionGrows
      <4>3. Extends(Append(path, p), path, p)
        <5>1. path \in Seq(Nat) /\ p \in Nat
          BY <1>2, <1>3, <1>5 DEF OnPath, Tree
        <5> QED
          BY <5>1 DEF Extends
      <4>4. OnPath(Append(path, p))'
        <5> DEFINE way == Append(path, p)
        <5>1. Extends(way, path, p)
          BY <4>3
        <5>2. UNCHANGED <<count, parent>> /\ output' = Append(output, p)
          BY <1>6, <2>1
        <5> HIDE DEF way
        <5>3. OnPath(way)'
          BY <1>1, <1>2, <1>3, <1>4, <3>1, <4>1, <5>1, <5>2, RowKeepsPath
        <5> QED
          BY <5>3 DEF way
      <4>5. \E way : OnPath(way)'
        BY <4>4
      <4>6. dashboardVerdict' = "flattening"
        BY <1>1, <2>1, <3>4
      <4> QED
        BY <1>1, <1>2, <4>2, <4>5, <4>6, DashboardInvNext
    <3> QED
      BY <3>3, <3>4
  <2>5. CASE p \notin rows
    <3>1. stack' = Front(stack) \o <<Tail(Last(stack))>>
      BY <2>1, <2>5 DEF Descend
    <3>2. Len(stack') = Len(stack)
      <4> DEFINE Lists == Seq(Nat)
                 x == Tail(Last(stack))
      <4>1. stack \in Seq(Lists) /\ x \in Lists /\ stack' = Front(stack) \o <<x>>
        BY <2>2, <2>3, <3>1
      <4> HIDE DEF Lists, x
      <4>2. Len(Front(stack) \o <<x>>) = Len(stack)
        BY <1>1, <4>1, LastReplaced
      <4> QED
        BY <4>1, <4>2
    <3>3. dashboardVerdict' = "flattening"
      <4>1. ~(Len(stack') > MaxDepth + 1)
        BY <2>2, <3>2
      <4> QED
        BY <1>1, <2>1, <4>1
    <3>4. Emission'
      BY <1>2, <1>5, <1>6, <1>8, <2>1, <2>5, EmissionGrows
    <3>5. \A i \in 1..count : parent[i] # p
      <4>1. p # 0
        BY <1>5
      <4> QED
        BY <1>2, <2>5, <4>1
    <3>6. UNCHANGED <<count, parent>> /\ output' = Append(output, p)
      BY <1>6, <2>1
    <3>7. OnPath(path)'
      BY <1>1, <1>2, <1>3, <1>4, <3>1, <3>5, <3>6, LeafKeepsPath
    <3>8. \E way : OnPath(way)'
      BY <3>7
    <3> QED
      BY <1>1, <1>2, <3>3, <3>4, <3>8, DashboardInvNext
  <2> QED
    BY <2>4, <2>5
<1> QED
  BY <1>7, <1>8

\* A step of another part changes nothing here.
LEMMA DashboardStutter ==
  ASSUME DashboardInv, UNCHANGED dashboardVars PROVE DashboardInv'
<1>1. /\ DashboardStays /\ stack' = stack /\ output' = output
      /\ dashboardVerdict' = dashboardVerdict
  BY DEF dashboardVars, DashboardStays
<1>2. Ancestor' = Ancestor
  BY <1>1 DEF Ancestor, DashboardStays
<1>3. (Emission => Emission') /\ (WholeAndInOrder => WholeAndInOrder')
  BY <1>1, OutputStays
<1>4. ASSUME NEW path, OnPath(path) PROVE OnPath(path)'
  BY <1>1, <1>2, <1>4 DEF OnPath, DashboardStays
<1>5. Within' = Within /\ (Tree => Tree')
  BY <1>1, LimitsStay
<1>7. InventoryExact => /\ dashboardVerdict = "ok" => WholeAndInOrder
                        /\ dashboardVerdict \in {"ok", "oversized"} => Within
                        /\ dashboardVerdict = "invalid_response" => ~Within
  BY DEF InventoryExact, PanelsInOrder, LimitsExact, WholeAndInOrder, Within
<1>8. CASE dashboardVerdict # "reading"
  <2>1. dashboardVerdict' = "flattening" =>
          variables <= MaxVariables /\ Emission' /\ \E path : OnPath(path)'
    BY <1>1, <1>3, <1>4 DEF DashboardInv
  <2>2. /\ dashboardVerdict' = "ok" => WholeAndInOrder'
        /\ dashboardVerdict' \in {"ok", "oversized"} => Within
        /\ dashboardVerdict' = "invalid_response" => ~Within
    BY <1>1, <1>3, <1>7 DEF DashboardInv
  <2>3. dashboardVerdict' # "reading"
    BY <1>1, <1>8
  <2> QED
    BY <1>1, <2>1, <2>2, <2>3, DashboardInvNext
<1>9. CASE dashboardVerdict = "reading"
  <2>1. dashboardVerdict' = "reading" /\ output' = << >>
    BY <1>1, <1>9 DEF DashboardInv
  <2>2. InventoryExact'
    BY <2>1 DEF InventoryExact, PanelsInOrder, LimitsExact
  <2>3. variables' \in Nat /\ rows' \subseteq 1..count' /\ malformed' \subseteq 1..count'
        /\ (\A p \in 1..count' : parent'[p] # 0 => parent'[p] \in rows') /\ Tree'
    BY <1>1, <1>5 DEF DashboardInv, DashboardStays
  <2> QED
    BY <2>1, <2>2, <2>3 DEF DashboardInv
<1> QED
  BY <1>8, <1>9

\* Every step of the walk keeps the invariant.
LEMMA DashboardStep == DashboardInv /\ [DashboardNext]_dashboardVars => DashboardInv'
BY ReadVariablesStep, VisitStep, AscendStep, CompleteStep, DashboardStutter DEF DashboardNext

\* Whatever the nesting and the limits: an inventory that is returned lists every panel once, a
\* row before its panels and these before the next row, and a dashboard is refused exactly for
\* a malformed panel, too many panels or variables, or rows too deep (client.rs:1105-1217).
THEOREM InventoriesAreExact == DashboardSpec => []InventoryExact
<1>1. DashboardInv => InventoryExact
  BY DEF DashboardInv
<1> QED
  BY DashboardInitHolds, DashboardStep, <1>1, PTL DEF DashboardSpec

\* The parts of a run share no state: what one does is no step of the others.
LEMMA PartsStep ==
  [MCNext]_mcVars => /\ [ExecNext]_execVars /\ [InputNext]_inputVars /\ [CephNext]_cephVars
                     /\ [KubeNext]_kubeVars /\ [GrafanaNext]_grafanaVars /\ [DashboardNext]_dashboardVars
<1>1. SUFFICES ASSUME [MCNext]_mcVars
               PROVE  /\ [ExecNext]_execVars /\ [InputNext]_inputVars /\ [CephNext]_cephVars
                      /\ [KubeNext]_kubeVars /\ [GrafanaNext]_grafanaVars /\ [DashboardNext]_dashboardVars
  OBVIOUS
<1>2. CASE UNCHANGED mcVars
  BY <1>2 DEF mcVars
<1>3. CASE MCNext
  BY <1>3 DEF MCNext, Others
<1> QED
  BY <1>1, <1>2, <1>3

\* A behaviour of the parts together is one of each.
LEMMA PartsRun == MCSpec => ExecSpec /\ InputSpec /\ CephSpec /\ KubeSpec /\ GrafanaSpec /\ DashboardSpec
<1>1. MCInit => ExecInit /\ InputInit /\ CephInit /\ KubeInit /\ GrafanaInit /\ DashboardInit
  BY DEF MCInit
<1> QED
  BY <1>1, PartsStep, PTL DEF MCSpec, ExecSpec, InputSpec, CephSpec, KubeSpec, GrafanaSpec, DashboardSpec

\* The parts together, as the run composes them: names of jobs, queries sent and answers
\* returned are sound in every reachable state (kubernetes/client.rs:559-695,
\* kubernetes/normalize.rs, ceph/normalize.rs, grafana/client.rs:751-1475).
THEOREM ValuesAreSound ==
  MCSpec => [](/\ JobNamesSound /\ QueriesBounded /\ CephListsExact /\ KubernetesCutsExact
               /\ GrafanaListsExact /\ InventoryExact)
BY PartsRun, JobNamesAreSound, QueriesAreBounded, CephListsAreExact, KubernetesCutsAreExact,
   GrafanaListsAreExact, InventoriesAreExact, PTL
=============================================================================
