----------------------------- MODULE RequestsProofs -----------------------------
(***************************************************************************)
(* Calls as sequences of requests, for any cluster behind them and any     *)
(* limits.  Each part has an inductive invariant of its own, which says    *)
(* what a call has read so far and what that is worth at the request it    *)
(* stands at.                                                              *)
(***************************************************************************)
EXTENDS MCRequests, DataLemmas

-----------------------------------------------------------------------------
(***************************************************************************)
(* Ceph operations.                                                        *)
(*                                                                         *)
(* OpInv follows a call from its arguments to its result: only arguments   *)
(* that were accepted come as far as a request, nothing was sent before    *)
(* the last one, and an OSD that has stayed within reach has not been      *)
(* passed by the pages.                                                    *)
(***************************************************************************)

\* What is known of a call at each of its requests.
OpWay ==
  /\ pc = "idle" => page = 0 /\ input = NoInput
  /\ pc # "done" => sent = {} /\ outcome = None /\ result = None
  /\ pc \in {"read", "detail", "page", "safe", "mutate"} =>
       Validate(input) /\ input.cluster \in Configured /\ input \in QueryInputs \cup ExecInputs
  /\ pc = "read" => input.tool \notin {"osd"} \cup Mutations
  /\ pc \in {"detail", "page"} => input.tool = "osd"
  /\ pc = "detail" => page = 0
  /\ pc = "safe" => input.tool \in Removals
  /\ pc = "mutate" => input.tool \in Mutations /\ (input.tool \in Removals => input.osd \in declared)

\* An OSD that has stayed within reach is on this page or on a later one.
OsdAhead ==
  reachable /\ pc \in {"detail", "page"} =>
    Within(osds, input.osd) /\ page * OpPageSize <= Rank(osds, input.osd)

OpInv ==
  /\ TypeOK /\ OpWay /\ OsdAhead /\ OsdFound
  /\ SentAsConfirmed /\ AcceptedTaskIsOurs /\ OsdIsTheOneAsked

(* Ranks in a finite set of numbers.                                       *)

\* The number of those below an element of a finite set.
LEMMA RankIsNat ==
  ASSUME NEW S, IsFiniteSet(S), NEW o
  PROVE  Rank(S, o) \in Nat
<1>1. {p \in S : p < o} \in SUBSET S
  OBVIOUS
<1> QED
  BY <1>1, FS_Subset, FS_CardinalityType DEF Rank

\* More elements never lower a rank.
LEMMA RankGrows ==
  ASSUME NEW S, NEW T, IsFiniteSet(T), S \subseteq T, NEW o
  PROVE  Rank(S, o) <= Rank(T, o)
<1>1. {p \in T : p < o} \in SUBSET T /\ {p \in S : p < o} \in SUBSET {p \in T : p < o}
  OBVIOUS
<1>2. IsFiniteSet({p \in T : p < o})
  BY <1>1, FS_Subset
<1> QED
  BY <1>1, <1>2, FS_Subset DEF Rank

\* The next larger element has the next rank.
LEMMA NextRank ==
  ASSUME NEW S, IsFiniteSet(S), S \subseteq Nat, NEW o \in S, NEW q \in S, o < q,
         \A p \in S : o < p => q <= p
  PROVE  Rank(S, q) = Rank(S, o) + 1
<1>1. {p \in S : p < q} = {p \in S : p < o} \cup {o}
  <2>1. \A p \in S : p < q <=> (p < o \/ p = o)
    OBVIOUS
  <2> QED
    BY <2>1
<1>2. IsFiniteSet({p \in S : p < o}) /\ o \notin {p \in S : p < o}
  <2>1. {p \in S : p < o} \in SUBSET S
    OBVIOUS
  <2> QED
    BY <2>1, FS_Subset
<1>3. Cardinality({p \in S : p < o} \cup {o}) = Cardinality({p \in S : p < o}) + 1
  BY <1>2, FS_AddElement
<1> QED
  BY <1>1, <1>3 DEF Rank

\* Ranks are ordered as the ids are.
LEMMA RankOrders ==
  ASSUME NEW S, IsFiniteSet(S), S \subseteq Nat, NEW o \in S, NEW q \in S, o < q
  PROVE  Rank(S, o) < Rank(S, q)
<1> DEFINE A == {p \in S : p < o}
<1> DEFINE B == {p \in S : p < q}
<1>1. A \in SUBSET B /\ o \in B /\ o \notin A
  <2>1. \A p \in S : p \in Nat
    OBVIOUS
  <2>2. \A p \in S : p < o => p < q
    BY <2>1
  <2>3. ~(o < o)
    BY <2>1
  <2> QED
    BY <2>2, <2>3
<1>2. B \in SUBSET S
  OBVIOUS
<1>3. IsFiniteSet(B) /\ IsFiniteSet(A)
  <2> HIDE DEF A, B
  <2>1. IsFiniteSet(B)
    BY <1>2, FS_Subset
  <2> QED
    BY <1>1, <2>1, FS_Subset
<1>4. Cardinality(A) <= Cardinality(B) /\ (Cardinality(B) = Cardinality(A) => B = A)
  <2> HIDE DEF A, B
  <2> QED BY <1>1, <1>3, FS_Subset
<1>5. Cardinality(A) \in Nat /\ Cardinality(B) \in Nat
  <2> HIDE DEF A, B
  <2> QED BY <1>3, FS_CardinalityType
<1>6. Rank(S, o) = Cardinality(A) /\ Rank(S, q) = Cardinality(B)
  BY DEF Rank
<1> QED
  <2> HIDE DEF A, B
  <2> QED BY <1>1, <1>4, <1>5, <1>6

\* Every rank below the size of the set is that of an element.
LEMMA RanksAreAll ==
  ASSUME NEW S, IsFiniteSet(S), S \subseteq Nat
  PROVE  \A k \in Nat : k < Cardinality(S) => \E o \in S : Rank(S, o) = k
<1> DEFINE T == {k \in Nat : k < Cardinality(S) => \E o \in S : Rank(S, o) = k}
<1>1. Cardinality(S) \in Nat
  BY FS_CardinalityType
<1>2. 0 \in T
  <2>1. SUFFICES ASSUME 0 < Cardinality(S) PROVE \E o \in S : Rank(S, o) = 0
    OBVIOUS
  <2>2. S # {}
    BY <2>1, FS_EmptySet
  <2>3. PICK o \in S : \A p \in S : o <= p
    BY <2>2, LeastNat
  <2>4. {p \in S : p < o} = {}
    <3>1. \A p \in S : ~(p < o)
      BY <2>3
    <3> QED
      BY <3>1
  <2> QED
    BY <2>4, FS_EmptySet DEF Rank
<1>3. ASSUME NEW k \in Nat, k \in T PROVE k + 1 \in T
  <2>1. SUFFICES ASSUME k + 1 < Cardinality(S) PROVE \E q \in S : Rank(S, q) = k + 1
    OBVIOUS
  <2>2. PICK o \in S : Rank(S, o) = k
    BY <1>1, <1>3, <2>1
  <2> DEFINE later == {p \in S : o < p}
  <2>3. later # {}
    <3>1. SUFFICES ASSUME later = {} PROVE FALSE
      OBVIOUS
    <3>2. S = {p \in S : p < o} \cup {o}
      <4>1. \A p \in S : p < o \/ p = o
        BY <3>1
      <4> QED
        BY <4>1
    <3>3. IsFiniteSet({p \in S : p < o}) /\ o \notin {p \in S : p < o}
      <4>1. {p \in S : p < o} \in SUBSET S
        OBVIOUS
      <4> QED
        BY <4>1, FS_Subset
    <3>4. Cardinality({p \in S : p < o} \cup {o}) = Cardinality({p \in S : p < o}) + 1
      BY <3>3, FS_AddElement
    <3> QED
      BY <3>2, <3>4, <2>1, <2>2 DEF Rank
  <2>4. PICK q \in later : \A p \in later : q <= p
    <3>1. later \subseteq Nat
      OBVIOUS
    <3> HIDE DEF later
    <3> QED BY <2>3, <3>1, LeastNat
  <2>5. Rank(S, q) = Rank(S, o) + 1
    <3>1. q \in S /\ o < q /\ \A p \in S : o < p => q <= p
      BY <2>4
    <3> QED
      BY <3>1, NextRank
  <2> QED
    BY <2>2, <2>4, <2>5
<1>4. \A k \in Nat : k \in T
  <2> HIDE DEF T
  <2> QED BY <1>2, <1>3, NatSetInduction
<1> QED
  BY <1>4

\* A page before an element is full.
LEMMA PageIsFull ==
  ASSUME NEW S, IsFiniteSet(S), S \subseteq Nat, NEW a \in Nat, NEW n \in Nat,
         NEW o \in S, a + n <= Rank(S, o)
  PROVE  Cardinality({q \in S : Rank(S, q) - a \in 0..(n - 1)}) = n
<1> DEFINE P == {q \in S : Rank(S, q) - a \in 0..(n - 1)}
<1> DEFINE g == [k \in 1..n |-> CHOOSE q \in S : Rank(S, q) = a + k - 1]
<1>1. \A q \in S : Rank(S, q) \in Nat
  BY RankIsNat
<1>2. Rank(S, o) < Cardinality(S) /\ Cardinality(S) \in Nat
  <2>1. {p \in S : p < o} \in SUBSET S /\ o \notin {p \in S : p < o}
    OBVIOUS
  <2>2. /\ Cardinality({p \in S : p < o}) <= Cardinality(S)
        /\ Cardinality(S) = Cardinality({p \in S : p < o}) => S = {p \in S : p < o}
    BY <2>1, FS_Subset
  <2>3. Cardinality(S) \in Nat
    BY FS_CardinalityType
  <2> QED
    BY <1>1, <2>1, <2>2, <2>3 DEF Rank
<1>3. \A k \in 1..n : g[k] \in S /\ Rank(S, g[k]) = a + k - 1
  <2>1. TAKE k \in 1..n
  <2>2. a + k - 1 \in Nat /\ a + k - 1 < Cardinality(S)
    BY <1>1, <1>2
  <2>3. \E q \in S : Rank(S, q) = a + k - 1
    BY <2>2, RanksAreAll
  <2>4. g[k] = CHOOSE q \in S : Rank(S, q) = a + k - 1
    OBVIOUS
  <2> QED
    BY <2>3, <2>4
<1>4. \A q, r \in S : Rank(S, q) = Rank(S, r) => q = r
  <2>1. TAKE q, r \in S
  <2>2. q < r => Rank(S, q) < Rank(S, r)
    BY RankOrders
  <2>3. r < q => Rank(S, r) < Rank(S, q)
    BY RankOrders
  <2>4. q \in Nat /\ r \in Nat /\ Rank(S, q) \in Nat /\ Rank(S, r) \in Nat
    BY <1>1
  <2> QED
    BY <2>2, <2>3, <2>4
<1>5. \A k \in 1..n : g[k] \in P
  <2>1. TAKE k \in 1..n
  <2>2. g[k] \in S /\ Rank(S, g[k]) = a + k - 1
    BY <1>3
  <2> HIDE DEF g
  <2>3. Rank(S, g[k]) - a \in 0..(n - 1)
    BY <2>2
  <2> QED
    BY <2>2, <2>3
<1>6. \A j, k \in 1..n : g[j] = g[k] => j = k
  <2>1. TAKE j, k \in 1..n
  <2>2. Rank(S, g[j]) = a + j - 1 /\ Rank(S, g[k]) = a + k - 1
    BY <1>3
  <2> QED
    <3> HIDE DEF g
    <3> QED BY <2>2
<1>7. ASSUME NEW q \in P PROVE \E k \in 1..n : g[k] = q
  <2>1. Rank(S, q) - a + 1 \in 1..n /\ a + (Rank(S, q) - a + 1) - 1 = Rank(S, q)
    BY <1>1
  <2>2. Rank(S, g[Rank(S, q) - a + 1]) = Rank(S, q) /\ g[Rank(S, q) - a + 1] \in S
    BY <2>1, <1>3
  <2>3. g[Rank(S, q) - a + 1] = q
    BY <2>2, <1>4
  <2> QED
    BY <2>1, <2>3
<1>8. g \in [1..n -> P]
  BY <1>5
<1>9. g \in Bijection(1..n, P)
  <2> HIDE DEF g, P
  <2> QED BY <1>6, <1>7, <1>8 DEF Bijection, Injection, Surjection, IsInjective
<1>10. ExistsBijection(1..n, P)
  BY <1>9 DEF ExistsBijection
<1> QED
  <2> HIDE DEF P
  <2>1. Cardinality(P) = n
    BY <1>10, FS_CountingElements
  <2> QED
    BY <2>1 DEF P

(* Arguments.                                                              *)

\* The arguments of a query: no mutation, an OSD only where one is asked for.
LEMMA QueryArguments ==
  ASSUME NEW i \in QueryInputs
  PROVE  i.tool \notin Mutations /\ (i.tool = "osd" => i.osd \in Ids)
  BY DEF QueryInputs, Mutations, Removals

\* The arguments of a mutation: an OSD that may exist.
LEMMA ExecArguments ==
  ASSUME NEW i \in ExecInputs
  PROVE  i.tool \in Mutations /\ i.osd \in Ids
  BY DEF ExecInputs, Mutations, Removals

\* There are finitely many OSD ids.
LEMMA OsdsAreFinite ==
  ASSUME NEW S, S \subseteq Ids
  PROVE  IsFiniteSet(S) /\ S \subseteq Nat
<1>1. IsFiniteSet(0..MaxOsdId)
  BY IdsAssumption, FS_Interval
<1>2. S \in SUBSET (0..MaxOsdId)
  BY IdsAssumption
<1>3. IsFiniteSet(S)
  BY <1>1, <1>2, FS_Subset
<1> QED
  BY <1>2, <1>3

(* The steps.                                                              *)

\* Nothing was asked or sent.
LEMMA OpInitHolds == OpInit => OpInv
<1>1. SUFFICES ASSUME OpInit PROVE OpInv
  OBVIOUS
<1>2. input = NoInput /\ pc = "idle" /\ page = 0 /\ sent = {} /\ outcome = None /\ result = None
  BY <1>1 DEF OpInit
<1>3. TypeOK
  BY <1>1, PagesAssumption, ChangesAssumption DEF OpInit, TypeOK
<1> QED
  BY <1>2, <1>3 DEF OpInv, OpWay, OsdAhead, OsdFound, SentAsConfirmed, AcceptedTaskIsOurs,
                    OsdIsTheOneAsked

\* Dispatch keeps the invariant.
LEMMA DispatchKeeps ==
  ASSUME OpInv, NEW i \in QueryInputs \cup ExecInputs, Dispatch(i)
  PROVE  OpInv'
<1>1. pc = "idle" /\ page = 0 /\ sent = {} /\ outcome = None /\ result = None
  BY DEF OpInv, OpWay, Dispatch
<1>2. /\ input' = i /\ page' = 0 /\ sent' = {} /\ result' = None
      /\ UNCHANGED <<osds, detail, found, changes, declared>>
      /\ reachable' = Within(osds, i.osd)
  BY <1>1 DEF Dispatch
<1>3. Within(osds, i.osd) \in BOOLEAN
  BY DEF Within
<1>4. TypeOK' /\ reachable' \in BOOLEAN
  BY <1>1, <1>2, <1>3 DEF OpInv, TypeOK, Dispatch, OpFinish, FirstRequest
<1>5. CASE pc' = "done" /\ outcome' \in {"invalid_arguments", "ok"}
  BY <1>2, <1>4, <1>5 DEF OpInv, OpWay, OsdAhead, OsdFound, SentAsConfirmed,
                          AcceptedTaskIsOurs, OsdIsTheOneAsked
<1>6. CASE /\ Validate(i) /\ i.cluster \in Configured
           /\ pc' = FirstRequest(i.tool) /\ outcome' = None
  <2>1. /\ i.tool = "osd" => pc' = "detail"
        /\ i.tool \in Removals => pc' = "safe"
        /\ i.tool \in Mutations \ Removals => pc' = "mutate"
        /\ i.tool \notin {"osd"} \cup Mutations => pc' = "read"
    BY <1>6 DEF FirstRequest, Mutations, Removals
  <2>2. /\ pc' = "detail" => i.tool = "osd"
        /\ pc' = "safe" => i.tool \in Removals
        /\ pc' = "mutate" => i.tool \in Mutations \ Removals
        /\ pc' = "read" => i.tool \notin {"osd"} \cup Mutations
        /\ pc' \in {"detail", "safe", "mutate", "read"}
    BY <2>1 DEF Mutations, Removals
  <2>3. Validate(input)'
    BY <1>2, <1>6 DEF Validate, ValidExec, ValidQuery, Confirmed
  <2>4. OpWay'
    BY <1>2, <1>6, <2>2, <2>3 DEF OpWay
  <2>5. OsdAhead'
    <3>1. SUFFICES ASSUME Within(osds, i.osd)
                   PROVE  0 * OpPageSize <= Rank(osds, i.osd)
      BY <1>2 DEF OsdAhead, Within, Rank
    <3>2. Rank(osds, i.osd) \in Nat
      <4>1. IsFiniteSet(osds)
        BY OsdsAreFinite DEF OpInv, TypeOK
      <4> QED
        BY <4>1, RankIsNat
    <3> QED
      BY <3>2, PagesAssumption
  <2>6. OsdFound'
    BY <2>2 DEF OsdFound
  <2>7. SentAsConfirmed' /\ AcceptedTaskIsOurs' /\ OsdIsTheOneAsked'
    BY <1>2 DEF SentAsConfirmed, AcceptedTaskIsOurs, OsdIsTheOneAsked
  <2> QED
    BY <1>4, <2>4, <2>5, <2>6, <2>7 DEF OpInv
<1> QED
  BY <1>1, <1>5, <1>6 DEF Dispatch, OpFinish

\* Read keeps the invariant.
LEMMA ReadKeeps == OpInv /\ Read => OpInv'
<1>1. SUFFICES ASSUME OpInv, Read PROVE OpInv'
  OBVIOUS
<1>2. /\ pc = "read" /\ pc' = "done" /\ sent = {} /\ result = None
      /\ input.tool \notin {"osd"} \cup Mutations
  BY <1>1 DEF OpInv, OpWay, Read, OpFinish
<1>3. UNCHANGED <<osds, input, page, detail, found, sent, result, changes, reachable, declared>>
  BY <1>1 DEF Read
<1>4. TypeOK'
  BY <1>1, <1>2, <1>3 DEF OpInv, TypeOK
<1> QED
  BY <1>2, <1>3, <1>4 DEF OpInv, OpWay, OsdAhead, OsdFound, SentAsConfirmed,
                          AcceptedTaskIsOurs, OsdIsTheOneAsked

\* ReadDetail keeps the invariant.
LEMMA ReadDetailKeeps == OpInv /\ ReadDetail => OpInv'
<1>1. SUFFICES ASSUME OpInv, ReadDetail PROVE OpInv'
  OBVIOUS
<1>2. /\ pc = "detail" /\ pc' = "page" /\ detail' \in Ids \cup {None}
      /\ UNCHANGED <<osds, input, page, found, sent, outcome, result, changes, reachable, declared>>
  BY <1>1 DEF ReadDetail
<1>3. TypeOK'
  BY <1>1, <1>2 DEF OpInv, TypeOK
<1>4. OpWay'
  <2>1. Validate(input) /\ Validate(input)' = Validate(input)
    BY <1>1, <1>2 DEF OpInv, OpWay, Validate, ValidExec, ValidQuery, Confirmed
  <2> QED
    BY <1>1, <1>2, <2>1 DEF OpInv, OpWay
<1>5. OsdAhead'
  BY <1>1, <1>2 DEF OpInv, OsdAhead, Within, Rank
<1> QED
  BY <1>1, <1>2, <1>3, <1>4, <1>5
     DEF OpInv, OpWay, OsdFound, SentAsConfirmed, AcceptedTaskIsOurs, OsdIsTheOneAsked

\* OpReadPage keeps the invariant.
LEMMA OpReadPageKeeps == OpInv /\ OpReadPage => OpInv'
<1>1. SUFFICES ASSUME OpInv, OpReadPage PROVE OpInv'
  OBVIOUS
<1> DEFINE hit == IF input.osd \in Page(page) THEN input.osd ELSE None
<1> DEFINE last == hit # None \/ Cardinality(Page(page)) < OpPageSize \/ page + 1 = OpMaxPages
<1>2. /\ pc = "page" /\ found' = hit
      /\ UNCHANGED <<osds, input, detail, sent, changes, reachable, declared>>
      /\ last => Normalize(hit) /\ page' = page
      /\ ~last => page' = page + 1 /\ UNCHANGED <<pc, outcome, result>>
  BY <1>1 DEF OpReadPage
<1>3. /\ input \in QueryInputs \cup ExecInputs /\ input.tool = "osd" /\ Validate(input)
      /\ input.cluster \in Configured
      /\ sent = {} /\ outcome = None /\ result = None /\ page \in 0..(OpMaxPages - 1)
  BY <1>1, <1>2 DEF OpInv, OpWay, TypeOK
<1>4. input.osd \in Ids /\ input.osd # None
  BY <1>3, QueryArguments, ExecArguments, IdsAssumption
<1>5. hit \in {input.osd, None}
  OBVIOUS
<1>6. last => pc' = "done" /\ (outcome' = "ok" => result' = [osd |-> hit, task |-> None])
                           /\ (outcome' # "ok" => result' = None)
                           /\ outcome' \in {"ok", "invalid_response"}
                           /\ (hit # None /\ hit = detail => outcome' = "ok")
                           /\ (hit = None => outcome' # "ok")
  <2> HIDE DEF hit, last
  <2> QED BY <1>2, <1>3 DEF Normalize, OpFinish
<1>7. TypeOK'
  <2>1. page' \in 0..(OpMaxPages - 1)
    <3>1. ~last => page + 1 # OpMaxPages
      OBVIOUS
    <3> HIDE DEF hit, last
    <3> QED BY <1>2, <1>3, <3>1, PagesAssumption
  <2>2. found' \in Ids \cup {None}
    BY <1>2, <1>4
  <2>3. pc' \in {"page", "done"}
    <3> HIDE DEF hit, last
    <3> QED BY <1>2, <1>6
  <2> HIDE DEF hit, last
  <2> QED BY <1>1, <1>2, <2>1, <2>2, <2>3 DEF OpInv, TypeOK
<1>8. ASSUME reachable, hit = None
      PROVE  /\ Cardinality(Page(page)) = OpPageSize /\ page + 1 # OpMaxPages
             /\ Within(osds, input.osd) /\ (page + 1) * OpPageSize <= Rank(osds, input.osd)
  <2>1. /\ input.osd \in osds /\ Rank(osds, input.osd) < OpMaxPages * OpPageSize
        /\ page * OpPageSize <= Rank(osds, input.osd)
    BY <1>1, <1>2, <1>8 DEF OpInv, OsdAhead, Within
  <2>2. IsFiniteSet(osds) /\ osds \subseteq Nat
    BY <1>1, OsdsAreFinite DEF OpInv, TypeOK
  <2>3. Rank(osds, input.osd) \in Nat
    BY <2>2, RankIsNat
  <2>4. Rank(osds, input.osd) - page * OpPageSize \notin 0..(OpPageSize - 1)
    BY <1>4, <1>8, <2>1 DEF Page
  <2>5. page * OpPageSize \in Nat /\ page \in Nat /\ OpPageSize \in Nat
    BY <1>3, PagesAssumption
  <2>6. page * OpPageSize + OpPageSize <= Rank(osds, input.osd)
    BY <2>1, <2>3, <2>4, <2>5
  <2>7. (page + 1) * OpPageSize = page * OpPageSize + OpPageSize
    BY <2>5
  <2>8. Cardinality(Page(page)) = OpPageSize
    <3>1. Cardinality({q \in osds : Rank(osds, q) - page * OpPageSize \in 0..(OpPageSize - 1)})
            = OpPageSize
      BY <2>1, <2>2, <2>5, <2>6, PageIsFull
    <3> QED
      BY <3>1 DEF Page
  <2>9. page + 1 # OpMaxPages
    <3>1. SUFFICES ASSUME page + 1 = OpMaxPages PROVE FALSE
      OBVIOUS
    <3>2. OpMaxPages * OpPageSize = page * OpPageSize + OpPageSize
      BY <2>7, <3>1
    <3> QED
      BY <2>1, <2>3, <2>5, <2>6, <3>2
  <2> QED
    BY <2>1, <2>6, <2>7, <2>8, <2>9 DEF Within
<1>9. CASE last
  <2>1. OsdFound'
    <3>1. SUFFICES ASSUME reachable, detail = input.osd PROVE outcome' = "ok"
      BY <1>2 DEF OsdFound
    <3>2. hit # None
      <4>1. SUFFICES ASSUME hit = None PROVE FALSE
        OBVIOUS
      <4>2. Cardinality(Page(page)) = OpPageSize /\ page + 1 # OpMaxPages
        BY <1>8, <3>1, <4>1
      <4> QED
        BY <1>9, <4>1, <4>2, PagesAssumption
    <3> HIDE DEF hit, last
    <3> QED BY <1>5, <1>6, <1>9, <3>1, <3>2
  <2>2. OsdIsTheOneAsked' /\ AcceptedTaskIsOurs' /\ SentAsConfirmed' /\ OpWay' /\ OsdAhead'
    <3>1. pc' = "done" /\ (outcome' = "ok" => result' = [osd |-> input.osd, task |-> None])
      <4> HIDE DEF hit, last
      <4> QED BY <1>5, <1>6, <1>9
    <3> HIDE DEF hit, last
    <3> QED BY <1>2, <1>3, <3>1
            DEF OsdIsTheOneAsked, AcceptedTaskIsOurs, SentAsConfirmed, OpWay, OsdAhead
  <2> QED
    BY <1>7, <2>1, <2>2 DEF OpInv
<1>10. CASE ~last
  <2>1. /\ page' = page + 1 /\ UNCHANGED <<pc, outcome, result>> /\ hit = None
    BY <1>2, <1>10
  <2>2. OsdAhead'
    <3>1. SUFFICES ASSUME reachable
                   PROVE  Within(osds, input.osd) /\ (page + 1) * OpPageSize <= Rank(osds, input.osd)
      BY <1>2, <2>1 DEF OsdAhead, Within, Rank
    <3> QED
      BY <1>8, <2>1, <3>1
  <2>3. Validate(input)'
    BY <1>2, <1>3 DEF Validate, ValidExec, ValidQuery, Confirmed
  <2> HIDE DEF hit, last
  <2>4. OpWay' /\ OsdFound' /\ OsdIsTheOneAsked' /\ AcceptedTaskIsOurs' /\ SentAsConfirmed'
    BY <1>2, <1>3, <2>1, <2>3
       DEF OpWay, OsdFound, OsdIsTheOneAsked, AcceptedTaskIsOurs, SentAsConfirmed
  <2> QED
    BY <1>7, <2>2, <2>4 DEF OpInv
<1> QED
  BY <1>9, <1>10

\* BadPage keeps the invariant.
LEMMA BadPageKeeps == OpInv /\ BadPage => OpInv'
<1>1. SUFFICES ASSUME OpInv, BadPage PROVE OpInv'
  OBVIOUS
<1>2. /\ pc' = "done" /\ outcome' = "invalid_response" /\ reachable' = FALSE
      /\ UNCHANGED <<osds, input, page, detail, found, sent, result, changes, declared>>
      /\ sent = {}
  BY <1>1 DEF BadPage, OpFinish, OpInv, OpWay
<1>3. TypeOK'
  BY <1>1, <1>2 DEF OpInv, TypeOK
<1> QED
  BY <1>2, <1>3 DEF OpInv, OpWay, OsdAhead, OsdFound, SentAsConfirmed,
                    AcceptedTaskIsOurs, OsdIsTheOneAsked

\* RequireSafe keeps the invariant.
LEMMA RequireSafeKeeps == OpInv /\ RequireSafe => OpInv'
<1>1. SUFFICES ASSUME OpInv, RequireSafe PROVE OpInv'
  OBVIOUS
<1>2. /\ pc = "safe" /\ sent = {} /\ result = None /\ outcome = None
      /\ UNCHANGED <<osds, input, page, detail, found, sent, result, changes, reachable>>
      /\ \/ declared' = declared \cup {input.osd} /\ pc' = "mutate" /\ outcome' = outcome
         \/ /\ pc' = "done" /\ outcome' \in {"unsafe_to_destroy", "invalid_response"}
            /\ declared' = declared
  BY <1>1 DEF RequireSafe, OpFinish, OpInv, OpWay
<1>3. /\ input.tool \in Removals /\ Validate(input) /\ input.cluster \in Configured
      /\ input \in QueryInputs \cup ExecInputs
  BY <1>1, <1>2 DEF OpInv, OpWay
<1>4. input.osd \in Ids /\ input.tool # "osd" /\ input.tool \in Mutations
  BY <1>3, QueryArguments, ExecArguments DEF Mutations, Removals
<1>5. TypeOK'
  <2>1. declared' \subseteq Ids
    BY <1>1, <1>2, <1>4 DEF OpInv, TypeOK
  <2>2. pc' \in {"mutate", "done"}
    BY <1>2
  <2> QED
    BY <1>1, <1>2, <2>1, <2>2 DEF OpInv, TypeOK
<1>6. Validate(input)'
  BY <1>2, <1>3 DEF Validate, ValidExec, ValidQuery, Confirmed
<1>7. OpWay'
  BY <1>2, <1>3, <1>4, <1>6 DEF OpWay
<1> QED
  BY <1>2, <1>4, <1>5, <1>7 DEF OpInv, OsdAhead, OsdFound, SentAsConfirmed,
                                AcceptedTaskIsOurs, OsdIsTheOneAsked

\* What is sent is the call's own mutation, in a cluster of the catalog.
LEMMA SendingKeeps ==
  ASSUME OpInv, pc = "mutate", UNCHANGED <<input, declared>>,
         sent' = sent \cup {[cluster |-> input.cluster, tool |-> input.tool, osd |-> input.osd]}
  PROVE  SentAsConfirmed'
<1>1. sent = {} /\ Validate(input) /\ input.cluster \in Configured
      /\ input.tool \in Mutations /\ (input.tool \in Removals => input.osd \in declared)
  BY DEF OpInv, OpWay
<1>2. input.tool \in Removals =>
        input.confirmation = [action |-> input.tool, osd |-> input.osd, cluster |-> input.cluster]
  BY <1>1 DEF Validate, ValidExec, Confirmed
<1> QED
  BY <1>1, <1>2 DEF SentAsConfirmed

\* Mutate keeps the invariant.
LEMMA MutateKeeps == OpInv /\ Mutate => OpInv'
<1>1. SUFFICES ASSUME OpInv, Mutate PROVE OpInv'
  OBVIOUS
<1>2. /\ pc = "mutate" /\ pc' = "done" /\ result = None
      /\ UNCHANGED <<osds, input, page, detail, found, changes, reachable, declared>>
      /\ sent' = sent \cup {[cluster |-> input.cluster, tool |-> input.tool, osd |-> input.osd]}
  BY <1>1 DEF Mutate, OpFinish, OpInv, OpWay
<1>3. /\ input.tool \in Mutations /\ input.tool # "osd" /\ input.osd # None
  <2>1. input.tool \in Mutations /\ input \in QueryInputs \cup ExecInputs
    BY <1>1, <1>2 DEF OpInv, OpWay
  <2> QED
    BY <2>1, QueryArguments, ExecArguments, IdsAssumption DEF Mutations, Removals
<1>4. TypeOK'
  BY <1>1, <1>2 DEF OpInv, TypeOK
<1>5. SentAsConfirmed'
  BY <1>1, <1>2, SendingKeeps
<1>6. OsdIsTheOneAsked' /\ AcceptedTaskIsOurs'
  <2>1. CASE outcome' = "ok" /\ result' = [osd |-> input.osd, task |-> None]
    BY <1>2, <2>1 DEF OsdIsTheOneAsked, AcceptedTaskIsOurs
  <2>2. CASE outcome' = "mutation_outcome_unknown"
    BY <2>2 DEF OsdIsTheOneAsked, AcceptedTaskIsOurs
  <2>3. ASSUME NEW t \in Tasks, MutationTask(t) # None, outcome' = "ok",
               result' = [osd |-> input.osd, task |-> t]
        PROVE  OsdIsTheOneAsked' /\ AcceptedTaskIsOurs'
    <3>1. input.tool \in Removals /\ t.name = "osd/delete" /\ NumericOsdId(t) = input.osd
      BY <2>3 DEF MutationTask
    <3>2. t.id = input.osd
      BY <1>3, <3>1 DEF NumericOsdId
    <3> QED
      BY <1>2, <2>3, <3>1, <3>2 DEF OsdIsTheOneAsked, AcceptedTaskIsOurs
  <2> QED
    BY <1>1, <2>1, <2>2, <2>3 DEF Mutate, OpFinish
<1> QED
  BY <1>2, <1>3, <1>4, <1>5, <1>6 DEF OpInv, OpWay, OsdAhead, OsdFound

\* OpRequestFails keeps the invariant.
LEMMA OpRequestFailsKeeps == OpInv /\ OpRequestFails => OpInv'
<1>1. SUFFICES ASSUME OpInv, OpRequestFails PROVE OpInv'
  OBVIOUS
<1>2. /\ pc' = "done" /\ outcome' \in {"mutation_failed", "query_failed"} /\ reachable' = FALSE
      /\ UNCHANGED <<osds, input, page, detail, found, result, changes, declared>>
      /\ pc # "done"
  BY <1>1 DEF OpRequestFails, OpFinish
<1>3. TypeOK'
  BY <1>1, <1>2 DEF OpInv, TypeOK
<1>4. SentAsConfirmed'
  <2>1. CASE pc = "mutate"
    BY <1>1, <1>2, <2>1, SendingKeeps DEF OpRequestFails
  <2>2. CASE pc # "mutate"
    BY <1>1, <1>2, <2>2 DEF OpRequestFails, OpInv, SentAsConfirmed
  <2> QED
    BY <2>1, <2>2
<1> QED
  BY <1>2, <1>3, <1>4 DEF OpInv, OpWay, OsdAhead, OsdFound, AcceptedTaskIsOurs, OsdIsTheOneAsked

\* OpChange keeps the invariant.
LEMMA OpChangeKeeps == ASSUME OpInv, NEW o \in Ids, OpChange(o) PROVE OpInv'
<1>1. /\ pc \in {"detail", "page"} /\ changes < MaxChanges /\ changes' = changes + 1
      /\ UNCHANGED <<input, pc, page, detail, found, sent, outcome, result, declared>>
      /\ reachable' = (reachable /\ o \notin osds /\ Within(osds', input.osd))
  BY DEF OpChange
<1>2. osds' \subseteq Ids /\ (o \notin osds => osds' = osds \cup {o})
  BY DEF OpChange, OpInv, TypeOK
<1>3. TypeOK'
  <2>1. changes' \in 0..MaxChanges
    BY <1>1, ChangesAssumption DEF OpInv, TypeOK
  <2>2. reachable' \in BOOLEAN
    BY <1>1 DEF Within
  <2> QED
    BY <1>1, <1>2, <2>1, <2>2 DEF OpInv, TypeOK
<1>4. Validate(input)'
  <2>1. Validate(input)
    BY <1>1 DEF OpInv, OpWay
  <2> QED
    BY <1>1, <2>1 DEF Validate, ValidExec, ValidQuery, Confirmed
<1>5. OpWay'
  BY <1>1, <1>4 DEF OpInv, OpWay
<1>6. OsdAhead'
  <2>1. SUFFICES ASSUME reachable, o \notin osds, Within(osds', input.osd)
                 PROVE  page * OpPageSize <= Rank(osds', input.osd)
    BY <1>1 DEF OsdAhead, Within, Rank
  <2>2. page * OpPageSize <= Rank(osds, input.osd)
    BY <1>1, <2>1 DEF OpInv, OsdAhead
  <2>3. IsFiniteSet(osds) /\ IsFiniteSet(osds')
    <3>1. osds \subseteq Ids
      BY DEF OpInv, TypeOK
    <3> QED
      BY <1>2, <3>1, OsdsAreFinite
  <2>4. Rank(osds, input.osd) <= Rank(osds', input.osd)
    <3>1. osds \subseteq osds'
      BY <1>2, <2>1
    <3> QED
      BY <2>3, <3>1, RankGrows
  <2>5. Rank(osds, input.osd) \in Nat /\ Rank(osds', input.osd) \in Nat
    BY <2>3, RankIsNat
  <2>6. page * OpPageSize \in Nat
    BY PagesAssumption DEF OpInv, TypeOK
  <2> QED
    BY <2>2, <2>4, <2>5, <2>6
<1> QED
  BY <1>1, <1>3, <1>5, <1>6 DEF OpInv, OsdFound, SentAsConfirmed, AcceptedTaskIsOurs,
                                OsdIsTheOneAsked

\* Every step of a Ceph call, or of other clients of the cluster, keeps the invariant.
LEMMA OpStep == OpInv /\ [OpNext]_opVars => OpInv'
<1>1. SUFFICES ASSUME OpInv, [OpNext]_opVars PROVE OpInv'
  OBVIOUS
<1>2. CASE UNCHANGED opVars
  <2>1. Validate(input)' = Validate(input)
    BY <1>2 DEF opVars, Validate, ValidExec, ValidQuery, Confirmed
  <2> QED
    BY <1>1, <1>2, <2>1
       DEF opVars, OpInv, TypeOK, OpWay, OsdAhead, Within, Rank, OsdFound, SentAsConfirmed,
           AcceptedTaskIsOurs, OsdIsTheOneAsked
<1>3. CASE OpNext
  <2>1. ASSUME NEW i \in QueryInputs \cup ExecInputs, Dispatch(i) PROVE OpInv'
    BY <1>1, <2>1, DispatchKeeps
  <2>2. ASSUME NEW o \in Ids, OpChange(o) PROVE OpInv'
    BY <1>1, <2>2, OpChangeKeeps
  <2> QED
    BY <1>1, <1>3, <2>1, <2>2, ReadKeeps, ReadDetailKeeps, OpReadPageKeeps, BadPageKeeps,
       RequireSafeKeeps, MutateKeeps, OpRequestFailsKeeps
       DEF OpNext, BeginQuery, BeginExec
<1> QED
  BY <1>1, <1>2, <1>3
-----------------------------------------------------------------------------
(***************************************************************************)
(* Kubernetes reads.                                                       *)
(*                                                                         *)
(* KubeInv knows, at each request of a call, which pod, objects and        *)
(* documents have been seen.  A log that is read by name is no older than  *)
(* the pod asked for: uids only grow, so a pod that still has that uid     *)
(* after the log was read had it while the log was read.                   *)
(***************************************************************************)

ReadFields == {"op", "step", "answer", "uid", "container", "text", "kinds", "docs", "supported",
               "snapshot", "items", "pages", "token", "seen", "asked", "served", "limit",
               "returned", "source_truncated", "result_truncated"}

KubeType ==
  /\ DOMAIN read = ReadFields
  /\ read.op \in {"none", "get", "logs", "capabilities", "list"}
  /\ read.step \in {"idle", "object", "pod", "log", "again", "kind", "page", "done"}
  /\ read.uid \in Int /\ read.text \in Int /\ read.limit \in Int
  /\ read.kinds \in Seq(Kinds) /\ read.supported \subseteq Kinds
  /\ read.snapshot \subseteq Objects /\ read.items \subseteq Objects
  /\ read.pages \in Nat /\ read.token \in Nat /\ read.seen \subseteq Nat
  /\ read.source_truncated \in BOOLEAN
  /\ pod.uid \in Nat /\ uids \in Nat \ {0} /\ stored \subseteq Objects /\ offered \subseteq Kinds

\* What is known at each request.
KubeWay ==
  /\ read.step = "idle" => read = Idle
  /\ read.step # "done" => read.answer = "none"
  /\ read.step = "object" => read.op = "get" /\ read.asked \in Requests /\ ValidTarget(read.asked)
  /\ read.step \in {"pod", "log", "again"} => read.op = "logs"
  /\ read.step = "kind" => read.op = "capabilities"
  /\ read.step = "page" => read.op = "list"

\* A pod has the newest uid; the one asked for existed, and the log is that of it or of a
\* later one.
KubePods ==
  /\ pod.uid \in {0, uids}
  /\ read.step \in {"pod", "log", "again"} => read.uid >= 1
  /\ read.step \in {"log", "again"} => read.uid <= uids
  /\ read.step = "again" => read.text \in read.uid..uids

\* Documents belong to the capabilities, and there are finitely many.
KubeDocs ==
  /\ IsFiniteSet(read.docs)
  /\ read.op # "capabilities" => read.docs = {}

\* Every page left its own token, and none has ended the list so far.
KubePages ==
  read.op = "list" =>
    /\ IsFiniteSet(read.seen) /\ read.items \subseteq read.snapshot
    /\ read.step = "page" =>
         /\ read.pages < KubeMaxPages /\ read.pages = Cardinality(read.seen)
         /\ 0 \notin read.seen /\ (read.items # {} => read.token # 0)
         /\ read.pages = 0 => read.items = {}
         /\ ~read.source_truncated

KubeInv ==
  /\ KubeType /\ KubeWay /\ KubePods /\ KubeDocs /\ KubePages
  /\ LogsOfTheAskedPod /\ GetIsExact /\ JudgedOnOneDocument
  /\ KubeListBounded /\ ListTellsWhatIsMissing

(* The names of the API server.                                            *)

\* Each kind has a path of its own in the API.
LEMMA MappingIsInjective ==
  ASSUME NEW k \in ResourceKinds, NEW l \in ResourceKinds,
         Mapping[k][1] = Mapping[l][1], Mapping[k][2] = Mapping[l][2]
  PROVE  k = l
  BY SMTT(120) DEF ResourceKinds, Mapping

\* Triples with equal components are equal.
LEMMA TriplesAreEqual ==
  ASSUME NEW K, NEW L, NEW M, NEW t \in K \X L \X M, NEW u \in K \X L \X M,
         t[1] = u[1], t[2] = u[2], t[3] = u[3]
  PROVE  t = u
  OBVIOUS

PathOf(v, resource, namespace, name) ==
  <<v>> \o (IF namespace # "" THEN <<"namespaces", namespace>> ELSE << >>)
        \o <<resource>> \o <<name>>

\* Two paths are equal only if all they are made of is.
LEMMA PathsTellApart ==
  ASSUME NEW v, NEW r, NEW m, NEW a, NEW w, NEW q, NEW n, NEW b,
         PathOf(v, r, m, a) = PathOf(w, q, n, b)
  PROVE  v = w /\ r = q /\ m = n /\ a = b
<1> DEFINE P1 == (<<v>> \o << >>) \o <<r>> \o <<a>>
           P2 == (<<v>> \o <<"namespaces", m>>) \o <<r>> \o <<a>>
           Q1 == (<<w>> \o << >>) \o <<q>> \o <<b>>
           Q2 == (<<w>> \o <<"namespaces", n>>) \o <<q>> \o <<b>>
<1>1. /\ m = "" => PathOf(v, r, m, a) = P1
      /\ m # "" => PathOf(v, r, m, a) = P2
      /\ n = "" => PathOf(w, q, n, b) = Q1
      /\ n # "" => PathOf(w, q, n, b) = Q2
  BY DEF PathOf
<1>2. Len(P1) = 3 /\ P1[1] = v /\ P1[2] = r /\ P1[3] = a
  OBVIOUS
<1>3. Len(Q1) = 3 /\ Q1[1] = w /\ Q1[2] = q /\ Q1[3] = b
  OBVIOUS
<1>4. Len(P2) = 5 /\ P2[1] = v
  OBVIOUS
<1>5. P2[3] = m /\ P2[4] = r /\ P2[5] = a
  OBVIOUS
<1>6. Len(Q2) = 5 /\ Q2[1] = w
  OBVIOUS
<1>7. Q2[3] = n /\ Q2[4] = q /\ Q2[5] = b
  OBVIOUS
<1> HIDE DEF P1, P2, Q1, Q2
<1> QED
  BY <1>1, <1>2, <1>3, <1>4, <1>5, <1>6, <1>7

\* The path of a valid request names its kind, its namespace and its name.
LEMMA PathIsInjective ==
  ASSUME NEW t \in Requests, NEW u \in Requests, ValidTarget(t), ValidTarget(u),
         ObjectPath(t[1], t[2], t[3]) = ObjectPath(u[1], u[2], u[3])
  PROVE  t = u
<1>1. /\ t[1] \in ResourceKinds /\ t[2] \in {"", "x", "y"} /\ t[3] \in {"x", "y"}
      /\ u[1] \in ResourceKinds /\ u[2] \in {"", "x", "y"} /\ u[3] \in {"x", "y"}
  BY KindsAssumption DEF Requests
<1>2. /\ ObjectPath(t[1], t[2], t[3]) = PathOf(ApiVersion(t[1]), Mapping[t[1]][2], t[2], t[3])
      /\ ObjectPath(u[1], u[2], u[3]) = PathOf(ApiVersion(u[1]), Mapping[u[1]][2], u[2], u[3])
  <2>1. t[3] # "" /\ u[3] # "" /\ Namespaced(t[1]) = (t[2] # "") /\ Namespaced(u[1]) = (u[2] # "")
    BY <1>1 DEF ValidTarget
  <2> QED
    BY <2>1, Zenon DEF ObjectPath, PathOf
<1>3. ApiVersion(t[1]) = ApiVersion(u[1]) /\ Mapping[t[1]][2] = Mapping[u[1]][2]
      /\ t[2] = u[2] /\ t[3] = u[3]
  <2>1. PathOf(ApiVersion(t[1]), Mapping[t[1]][2], t[2], t[3])
          = PathOf(ApiVersion(u[1]), Mapping[u[1]][2], u[2], u[3])
    BY <1>2
  <2> QED
    BY <2>1, PathsTellApart
<1>4. t[1] = u[1]
  BY <1>1, <1>3, MappingIsInjective DEF ApiVersion
<1> QED
  BY <1>3, <1>4, TriplesAreEqual DEF Requests

(* Sizes and ranks.                                                        *)

\* Sets of objects can be counted.
LEMMA ObjectsAreFinite ==
  ASSUME NEW S, S \subseteq Objects
  PROVE  IsFiniteSet(S) /\ S \subseteq Nat /\ Cardinality(S) \in Nat
<1>1. S \in SUBSET Objects /\ S \subseteq Nat
  BY ObjectsAssumption
<1>2. IsFiniteSet(S)
  BY <1>1, ObjectsAssumption, FS_Subset
<1> QED
  BY <1>1, <1>2, FS_CardinalityType

\* A rank is less than the size of the set.
LEMMA RankBelowSize ==
  ASSUME NEW S, IsFiniteSet(S), S \subseteq Nat, NEW o \in S
  PROVE  Rank(S, o) < Cardinality(S)
<1> DEFINE A == {p \in S : p < o}
<1>1. A \in SUBSET S /\ o \notin A
  OBVIOUS
<1>2. Cardinality(A) <= Cardinality(S) /\ (Cardinality(S) = Cardinality(A) => S = A)
  <2> HIDE DEF A
  <2> QED BY <1>1, FS_Subset
<1>3. Cardinality(S) \in Nat /\ Cardinality(A) \in Nat
  <2>1. Cardinality(S) \in Nat
    BY FS_CardinalityType
  <2>2. Rank(S, o) \in Nat
    BY RankIsNat
  <2> QED
    BY <2>1, <2>2 DEF Rank
<1>4. Rank(S, o) = Cardinality(A)
  BY DEF Rank
<1> QED
  <2> HIDE DEF A
  <2> QED BY <1>1, <1>2, <1>3, <1>4

\* The first n of a set of objects, by rank.
LEMMA KeptAreFirst ==
  ASSUME NEW S, S \subseteq Objects, NEW n \in Int, NEW kept, kept \subseteq S,
         \A o \in S : o \in kept <=> Rank(S, o) < n
  PROVE  /\ Cardinality(S) <= n => kept = S
         /\ \A o \in S \ kept : \A p \in kept : p < o
<1>1. IsFiniteSet(S) /\ S \subseteq Nat /\ Cardinality(S) \in Nat
  BY ObjectsAreFinite
<1>2. \A o \in S : o \in kept <=> Rank(S, o) < n
  OBVIOUS
<1>3. \A o \in S : Rank(S, o) \in Nat /\ Rank(S, o) < Cardinality(S)
  BY <1>1, RankIsNat, RankBelowSize
<1>4. ASSUME NEW o \in S \ kept, NEW p \in kept PROVE p < o
  <2>1. Rank(S, p) < Rank(S, o) /\ o \in S /\ p \in S
    BY <1>2, <1>3
  <2>2. o < p => Rank(S, o) < Rank(S, p)
    BY <1>1, <2>1, RankOrders
  <2>3. o # p
    BY <1>3, <2>1
  <2> QED
    BY <1>1, <1>3, <2>1, <2>2, <2>3
<1>5. ASSUME Cardinality(S) <= n PROVE kept = S
  <2>1. \A o \in S : Rank(S, o) < n
    BY <1>1, <1>3, <1>5
  <2> QED
    BY <1>2, <2>1
<1> QED
  BY <1>4, <1>5

\* The smaller of two numbers.
LEMMA MinOfTwo ==
  ASSUME NEW a \in Int, NEW b \in Int
  PROVE  Min({a, b}) <= a /\ Min({a, b}) <= b /\ Min({a, b}) \in {a, b}
<1>1. \E x \in {a, b} : \A y \in {a, b} : x <= y
  BY SMT
<1> QED
  BY <1>1 DEF Min

(* The steps.                                                              *)

\* Nothing was asked or read.
LEMMA KubeInitHolds == KubeInit => KubeInv
<1>1. SUFFICES ASSUME KubeInit PROVE KubeInv
  OBVIOUS
<1>2. read = Idle /\ pod.uid = 1 /\ uids = 1 /\ stored = {} /\ offered = {}
  BY <1>1 DEF KubeInit
<1>3. DOMAIN Idle = ReadFields
  BY DEF Idle, ReadFields
<1>4. /\ read.op = "none" /\ read.step = "idle" /\ read.uid = 0 /\ read.text = 0
      /\ read.limit = 0 /\ read.kinds = << >> /\ read.supported = {} /\ read.snapshot = {}
      /\ read.items = {} /\ read.pages = 0 /\ read.token = 0 /\ read.seen = {}
      /\ read.source_truncated = FALSE
  BY <1>2 DEF Idle
<1>5. KubeType
  <2>1. DOMAIN read = ReadFields
    BY <1>2, <1>3
  <2>2. read.kinds \in Seq(Kinds)
    BY <1>4
  <2>3. pod.uid \in Nat /\ uids \in Nat \ {0} /\ stored \subseteq Objects /\ offered \subseteq Kinds
    BY <1>2
  <2>4. /\ read.op \in {"none", "get", "logs", "capabilities", "list"}
        /\ read.step \in {"idle", "object", "pod", "log", "again", "kind", "page", "done"}
    BY <1>4
  <2>5. /\ read.uid \in Int /\ read.text \in Int /\ read.limit \in Int
        /\ read.pages \in Nat /\ read.token \in Nat
    BY <1>4
  <2>6. /\ read.supported \subseteq Kinds /\ read.seen \subseteq Nat
        /\ read.snapshot \subseteq Objects /\ read.items \subseteq Objects
    BY <1>4
  <2>7. read.source_truncated \in BOOLEAN
    BY <1>4
  <2> QED
    BY <2>1, <2>2, <2>3, <2>4, <2>5, <2>6, <2>7 DEF KubeType
<1>6. IsFiniteSet({})
  BY FS_EmptySet
<1> QED
  BY <1>2, <1>5, <1>6
     DEF KubeInv, Idle, KubeWay, KubePods, KubeDocs, KubePages, LogsOfTheAskedPod, GetIsExact,
         JudgedOnOneDocument, KubeListBounded, ListTellsWhatIsMissing

\* A call that ends without what it was asked for.
LEMMA KubeEndKeeps ==
  ASSUME KubeInv, NEW e, e \notin {"resource", "logs", "list"}, Do(Answer(e))
  PROVE  KubeInv'
<1>1. DOMAIN read = ReadFields /\ read' = [read EXCEPT !.step = "done", !.answer = e]
      /\ UNCHANGED <<pod, uids, stored, offered>>
  BY DEF KubeInv, KubeType, Do, Answer
<1>2. /\ read'.step = "done" /\ read'.answer = e /\ DOMAIN read' = ReadFields
      /\ read'.op = read.op /\ read'.items = read.items /\ read'.pages = read.pages
      /\ read'.seen = read.seen /\ read'.snapshot = read.snapshot /\ read'.token = read.token
      /\ read'.docs = read.docs /\ read'.supported = read.supported /\ read'.uid = read.uid
      /\ read'.text = read.text /\ read'.limit = read.limit /\ read'.kinds = read.kinds
      /\ read'.source_truncated = read.source_truncated
  BY <1>1 DEF ReadFields
<1>3. KubeType'
  BY <1>1, <1>2 DEF KubeInv, KubeType
<1> QED
  BY <1>1, <1>2, <1>3
     DEF KubeInv, KubeWay, KubePods, KubeDocs, KubePages, LogsOfTheAskedPod, GetIsExact,
         JudgedOnOneDocument, KubeListBounded, ListTellsWhatIsMissing

\* The start of a call.
LEMMA KubeBeginKeeps ==
  ASSUME KubeInv, BeginGet \/ BeginLogs \/ BeginCapabilities \/ BeginList
  PROVE  KubeInv'
<1>1. read = Idle /\ DOMAIN read = ReadFields /\ UNCHANGED <<pod, uids, stored, offered>>
  BY DEF KubeInv, KubeType, KubeWay, BeginGet, BeginLogs, BeginCapabilities, BeginList, Do
<1>2. /\ read.answer = "none" /\ read.docs = {} /\ read.supported = {} /\ read.pages = 0
      /\ read.items = {} /\ read.seen = {} /\ read.snapshot = {} /\ read.source_truncated = FALSE
      /\ read.token = 0 /\ read.text = 0 /\ read.uid = 0 /\ read.limit = 0 /\ read.kinds = << >>
  BY <1>1 DEF Idle
<1> DEFINE Same == /\ DOMAIN read' = ReadFields
                   /\ read'.answer = read.answer /\ read'.docs = read.docs
                   /\ read'.supported = read.supported /\ read'.pages = read.pages
                   /\ read'.items = read.items /\ read'.seen = read.seen
                   /\ read'.snapshot = read.snapshot /\ read'.token = read.token
                   /\ read'.text = read.text
                   /\ read'.source_truncated = read.source_truncated
<1>3. /\ Same /\ read'.uid \in Int /\ read'.limit \in Int /\ read'.kinds \in Seq(Kinds)
      /\ \/ /\ read'.op = "get" /\ read'.step = "object"
            /\ read'.asked \in Requests /\ ValidTarget(read'.asked)
         \/ read'.op = "logs" /\ read'.step = "pod" /\ read'.uid >= 1
         \/ read'.op = "capabilities" /\ read'.step = "kind"
         \/ read'.op = "list" /\ read'.step = "page"
  <2>1. CASE BeginGet
    <3>1. PICK t \in Requests : ValidTarget(t)
                    /\ read' = [read EXCEPT !.op = "get", !.step = "object", !.asked = t]
      BY <2>1 DEF BeginGet, Do
    <3>2. /\ Same /\ read'.op = "get" /\ read'.step = "object" /\ read'.asked = t
          /\ read'.uid = read.uid /\ read'.limit = read.limit /\ read'.kinds = read.kinds
      BY <1>1, <3>1 DEF ReadFields
    <3>3. read'.asked \in Requests /\ ValidTarget(read'.asked)
      BY <3>1, <3>2 DEF ValidTarget
    <3> QED
      BY <1>2, <3>2, <3>3
  <2>2. CASE BeginLogs
    <3>1. PICK u \in 1..KubeMaxUid, c \in Containers :
            read' = [read EXCEPT !.op = "logs", !.step = "pod", !.uid = u, !.container = c]
      BY <2>2 DEF BeginLogs, Do
    <3>2. /\ Same /\ read'.op = "logs" /\ read'.step = "pod"
          /\ read'.uid = u /\ read'.limit = read.limit /\ read'.kinds = read.kinds
      BY <1>1, <3>1 DEF ReadFields
    <3> QED
      BY <1>2, <3>2
  <2>3. CASE BeginCapabilities
    <3>1. PICK n \in 1..Cardinality(Kinds) : \E ks \in [1..n -> Kinds] :
            read' = [read EXCEPT !.op = "capabilities", !.step = "kind", !.kinds = ks]
      BY <2>3 DEF BeginCapabilities, Do
    <3>2. PICK ks \in [1..n -> Kinds] :
            read' = [read EXCEPT !.op = "capabilities", !.step = "kind", !.kinds = ks]
      BY <3>1
    <3>3. n \in Nat
      OBVIOUS
    <3>4. ks \in Seq(Kinds)
      BY <3>3
    <3>5. /\ Same /\ read'.op = "capabilities" /\ read'.step = "kind"
          /\ read'.uid = read.uid /\ read'.limit = read.limit /\ read'.kinds = ks
      BY <1>1, <3>2 DEF ReadFields
    <3> QED
      BY <1>2, <3>4, <3>5
  <2>4. CASE BeginList
    <3>1. PICK n \in {m \in 0..KubeMaxLimit : ValidLimit(m)} :
            read' = [read EXCEPT !.op = "list", !.step = "page", !.limit = n]
      BY <2>4 DEF BeginList, Do
    <3>2. /\ Same /\ read'.op = "list" /\ read'.step = "page"
          /\ read'.uid = read.uid /\ read'.limit = n /\ read'.kinds = read.kinds
      BY <1>1, <3>1 DEF ReadFields
    <3> QED
      BY <1>2, <3>2
  <2> QED
    BY <2>1, <2>2, <2>3, <2>4
<1>4. KubeType'
  BY <1>1, <1>3 DEF KubeInv, KubeType
<1>5. IsFiniteSet({}) /\ Cardinality({}) = 0
  BY FS_EmptySet
<1>6. KubeWay' /\ KubePods' /\ KubeDocs'
  BY <1>1, <1>2, <1>3, <1>5 DEF KubeInv, KubeWay, KubePods, KubeDocs
<1>7. KubePages'
  BY <1>2, <1>3, <1>5, PagingAssumption DEF KubePages
<1>8. KubeListBounded'
  BY <1>2, <1>3, <1>5, PagingAssumption DEF KubeListBounded
<1> QED
  BY <1>2, <1>3, <1>4, <1>5, <1>6, <1>7, <1>8
     DEF KubeInv, LogsOfTheAskedPod, GetIsExact, JudgedOnOneDocument, ListTellsWhatIsMissing

\* GetObject keeps the invariant.
LEMMA GetObjectKeeps == KubeInv /\ GetObject => KubeInv'
<1>1. SUFFICES ASSUME KubeInv, GetObject PROVE KubeInv'
  OBVIOUS
<1>2. PICK t \in Requests :
        /\ ValidTarget(t)
        /\ ObjectPath(t[1], t[2], t[3]) = ObjectPath(read.asked[1], read.asked[2], read.asked[3])
        /\ read' = [[read EXCEPT !.step = "done", !.answer = "resource"] EXCEPT !.served = t]
        /\ UNCHANGED <<pod, uids, stored, offered>>
  BY <1>1 DEF GetObject, Do, Answer
<1>3. /\ DOMAIN read = ReadFields /\ read.op = "get"
      /\ read.asked \in Requests /\ ValidTarget(read.asked)
  BY <1>1 DEF KubeInv, KubeType, KubeWay, GetObject
<1>4. t = read.asked
  BY <1>2, <1>3, PathIsInjective
<1>5. /\ read'.step = "done" /\ read'.answer = "resource" /\ DOMAIN read' = ReadFields
      /\ read'.op = read.op /\ read'.items = read.items /\ read'.pages = read.pages
      /\ read'.seen = read.seen /\ read'.snapshot = read.snapshot /\ read'.token = read.token
      /\ read'.docs = read.docs /\ read'.supported = read.supported /\ read'.uid = read.uid
      /\ read'.text = read.text /\ read'.limit = read.limit /\ read'.kinds = read.kinds
      /\ read'.source_truncated = read.source_truncated
      /\ read'.asked = read.asked /\ read'.served = t
  BY <1>2, <1>3 DEF ReadFields
<1>6. KubeType'
  BY <1>1, <1>2, <1>5 DEF KubeInv, KubeType
<1> QED
  BY <1>1, <1>2, <1>3, <1>4, <1>5, <1>6
     DEF KubeInv, KubeWay, KubePods, KubeDocs, KubePages, LogsOfTheAskedPod, GetIsExact,
         JudgedOnOneDocument, KubeListBounded, ListTellsWhatIsMissing

\* What the requests for a log leave alone.
LogKept ==
  /\ DOMAIN read' = ReadFields
  /\ read'.op = read.op /\ read'.items = read.items /\ read'.pages = read.pages
  /\ read'.seen = read.seen /\ read'.snapshot = read.snapshot /\ read'.token = read.token
  /\ read'.docs = read.docs /\ read'.supported = read.supported /\ read'.uid = read.uid
  /\ read'.limit = read.limit /\ read'.kinds = read.kinds
  /\ read'.source_truncated = read.source_truncated

\* KubeReadPod keeps the invariant.
LEMMA KubeReadPodKeeps == KubeInv /\ KubeReadPod => KubeInv'
<1>1. SUFFICES ASSUME KubeInv, KubeReadPod PROVE KubeInv'
  OBVIOUS
<1>2. CASE PodMatchesLogQuery
  <2>1. /\ read.step = "pod" /\ pod.uid = read.uid
        /\ read' = [read EXCEPT !.step = "log"] /\ UNCHANGED <<pod, uids, stored, offered>>
        /\ DOMAIN read = ReadFields /\ read.op = "logs" /\ read.answer = "none"
    BY <1>1, <1>2 DEF KubeReadPod, PodMatchesLogQuery, Do, KubeInv, KubeType, KubeWay
  <2>2. LogKept /\ read'.step = "log" /\ read'.answer = "none" /\ read'.text = read.text
    BY <2>1 DEF ReadFields, LogKept
  <2>3. KubeType'
    BY <1>1, <2>1, <2>2 DEF KubeInv, KubeType, LogKept
  <2>4. read.uid \in 1..uids
    BY <1>1, <2>1 DEF KubeInv, KubeType, KubePods
  <2> QED
    BY <1>1, <2>1, <2>2, <2>3, <2>4
       DEF KubeInv, LogKept, KubeWay, KubePods, KubeDocs, KubePages, LogsOfTheAskedPod, GetIsExact,
           JudgedOnOneDocument, KubeListBounded, ListTellsWhatIsMissing
<1>3. CASE ~PodMatchesLogQuery
  BY <1>1, <1>3, KubeEndKeeps DEF KubeReadPod
<1> QED
  BY <1>2, <1>3

\* The log read by name belongs to a pod that is no older than the one asked for.
LEMMA KubeReadLogKeeps == KubeInv /\ KubeReadLog => KubeInv'
<1>1. SUFFICES ASSUME KubeInv, KubeReadLog PROVE KubeInv'
  OBVIOUS
<1> DEFINE there == pod.uid # 0 /\ read.container \in pod.containers
<1>2. CASE there
  <2>1. /\ read.step = "log" /\ pod.uid # 0
        /\ read' = [read EXCEPT !.step = "again", !.text = pod.uid]
        /\ UNCHANGED <<pod, uids, stored, offered>>
        /\ DOMAIN read = ReadFields /\ read.op = "logs" /\ read.answer = "none"
    BY <1>1, <1>2 DEF KubeReadLog, Do, KubeInv, KubeType, KubeWay
  <2>2. LogKept /\ read'.step = "again" /\ read'.answer = "none" /\ read'.text = pod.uid
    BY <2>1 DEF ReadFields, LogKept
  <2>3. KubeType'
    BY <1>1, <2>1, <2>2 DEF KubeInv, KubeType, LogKept
  <2>4. KubePods'
    BY <1>1, <2>1, <2>2 DEF KubeInv, KubeType, KubePods, LogKept
  <2> QED
    BY <1>1, <2>1, <2>2, <2>3, <2>4
       DEF KubeInv, LogKept, KubeWay, KubeDocs, KubePages, LogsOfTheAskedPod, GetIsExact,
           JudgedOnOneDocument, KubeListBounded, ListTellsWhatIsMissing
<1>3. CASE ~there
  <2>1. \E e \in {"not_found", "query_rejected"} : Do(Answer(e))
    BY <1>1, <1>3 DEF KubeReadLog
  <2> QED
    BY <1>1, <2>1, KubeEndKeeps
<1> QED
  BY <1>2, <1>3

\* CheckPodAgain keeps the invariant.
LEMMA CheckPodAgainKeeps == KubeInv /\ CheckPodAgain => KubeInv'
<1>1. SUFFICES ASSUME KubeInv, CheckPodAgain PROVE KubeInv'
  OBVIOUS
<1>2. CASE PodMatchesLogQuery
  <2>1. /\ read.step = "again" /\ pod.uid = read.uid
        /\ read' = [read EXCEPT !.step = "done", !.answer = "logs"]
        /\ UNCHANGED <<pod, uids, stored, offered>>
        /\ DOMAIN read = ReadFields /\ read.op = "logs"
    BY <1>1, <1>2
       DEF CheckPodAgain, PodMatchesLogQuery, Do, Answer, KubeInv, KubeType, KubeWay
  <2>2. LogKept /\ read'.step = "done" /\ read'.answer = "logs" /\ read'.text = read.text
    BY <2>1 DEF ReadFields, LogKept
  <2>3. KubeType'
    BY <1>1, <2>1, <2>2 DEF KubeInv, KubeType, LogKept
  <2>4. read.text = read.uid
    BY <1>1, <2>1 DEF KubeInv, KubeType, KubePods
  <2> QED
    BY <1>1, <2>1, <2>2, <2>3, <2>4
       DEF KubeInv, LogKept, KubeWay, KubePods, KubeDocs, KubePages, LogsOfTheAskedPod,
           GetIsExact, JudgedOnOneDocument, KubeListBounded, ListTellsWhatIsMissing
<1>3. CASE ~PodMatchesLogQuery
  BY <1>1, <1>3, KubeEndKeeps DEF CheckPodAgain
<1> QED
  BY <1>2, <1>3

\* A kind is judged on the document of its version, fetched once.
LEMMA JudgeKeeps == KubeInv /\ Judge => KubeInv'
<1>1. SUFFICES ASSUME KubeInv, Judge PROVE KubeInv'
  OBVIOUS
<1> DEFINE k == Head(read.kinds)
           v == ApiVersion(k)
           cached == {d \in read.docs : d[1] = v}
<1>2. PICK fetched \in IF cached # {} THEN cached ELSE {<<v, Offers(v)>>, <<v, {}>>} :
        /\ read' = [read EXCEPT !.kinds = Tail(@), !.docs = @ \cup {fetched},
                        !.supported = IF k \in fetched[2] THEN @ \cup {k} ELSE @,
                        !.pages = IF cached = {} THEN @ + 1 ELSE @]
        /\ UNCHANGED <<pod, uids, stored, offered>>
  BY <1>1 DEF Judge, Do
<1>3. /\ DOMAIN read = ReadFields /\ read.step = "kind" /\ read.op = "capabilities"
      /\ read.kinds \in Seq(Kinds) /\ read.kinds # << >> /\ read.answer = "none"
      /\ IsFiniteSet(read.docs) /\ read.pages = Cardinality(read.docs)
      /\ read.supported \subseteq Kinds
      /\ read.supported \subseteq UNION {d[2] : d \in read.docs}
      /\ \A d, e \in read.docs : d[1] = e[1] => d = e
  BY <1>1 DEF KubeInv, KubeType, KubeWay, KubeDocs, JudgedOnOneDocument, Judge
<1>4. k \in Kinds /\ Tail(read.kinds) \in Seq(Kinds)
  BY <1>3
<1>5. fetched[1] = v
  BY <1>2
<1>6. /\ DOMAIN read' = ReadFields
      /\ read'.op = read.op /\ read'.step = read.step /\ read'.answer = read.answer
      /\ read'.items = read.items /\ read'.seen = read.seen /\ read'.snapshot = read.snapshot
      /\ read'.token = read.token /\ read'.uid = read.uid /\ read'.limit = read.limit
      /\ read'.text = read.text /\ read'.source_truncated = read.source_truncated
      /\ read'.kinds = Tail(read.kinds) /\ read'.docs = read.docs \cup {fetched}
      /\ read'.supported = IF k \in fetched[2] THEN read.supported \cup {k} ELSE read.supported
      /\ read'.pages = IF cached = {} THEN read.pages + 1 ELSE read.pages
  <2> HIDE DEF k, cached
  <2> QED BY <1>2, <1>3 DEF ReadFields
<1>7. /\ IsFiniteSet(read'.docs) /\ read'.pages = Cardinality(read'.docs)
      /\ \A d, e \in read'.docs : d[1] = e[1] => d = e
  <2>1. CASE cached = {}
    <3>1. \A d \in read.docs : d[1] # v
      BY <2>1
    <3>2. fetched \notin read.docs
      BY <1>5, <3>1
    <3>3. IsFiniteSet(read.docs \cup {fetched})
          /\ Cardinality(read.docs \cup {fetched}) = Cardinality(read.docs) + 1
      BY <1>3, <3>2, FS_AddElement
    <3>4. read'.docs = read.docs \cup {fetched} /\ read'.pages = read.pages + 1
      BY <1>6, <2>1
    <3>5. \A d, e \in read.docs \cup {fetched} : d[1] = e[1] => d = e
      BY <1>3, <1>5, <3>1
    <3> QED
      BY <1>3, <3>3, <3>4, <3>5
  <2>2. CASE cached # {}
    <3>1. fetched \in read.docs
      BY <1>2, <2>2
    <3>2. read'.docs = read.docs /\ read'.pages = read.pages
      BY <1>6, <2>2, <3>1
    <3> QED
      BY <1>3, <3>2
  <2> QED
    BY <2>1, <2>2
<1>8. read'.supported \subseteq Kinds /\ read'.supported \subseteq UNION {d[2] : d \in read'.docs}
  <2> HIDE DEF k
  <2> QED BY <1>3, <1>4, <1>6
<1>9. read'.pages \in Nat
  <2> HIDE DEF cached
  <2> QED BY <1>1, <1>6 DEF KubeInv, KubeType
<1>10. KubeType'
  <2>1. read'.kinds \in Seq(Kinds)
    BY <1>4, <1>6
  <2> HIDE DEF k, cached
  <2> QED BY <1>1, <1>2, <1>6, <1>8, <1>9, <2>1 DEF KubeInv, KubeType
<1> HIDE DEF k, cached
<1> QED
  BY <1>1, <1>2, <1>3, <1>6, <1>7, <1>8, <1>10
     DEF KubeInv, KubeWay, KubePods, KubeDocs, KubePages, LogsOfTheAskedPod, GetIsExact,
         JudgedOnOneDocument, KubeListBounded, ListTellsWhatIsMissing

\* A list between two of its pages, or at its end.
ListSoFar(k) ==
  /\ DOMAIN k = ReadFields /\ k.op = "list" /\ k.docs = {}
  /\ k.uid \in Int /\ k.text \in Int /\ k.limit \in Int
  /\ k.kinds \in Seq(Kinds) /\ k.supported \subseteq Kinds
  /\ k.snapshot \subseteq Objects /\ k.items \subseteq k.snapshot
  /\ k.pages \in Nat /\ k.token \in Nat /\ k.seen \subseteq Nat /\ IsFiniteSet(k.seen)
  /\ k.source_truncated \in BOOLEAN
  /\ k.pages <= KubeMaxPages /\ Cardinality(k.items) <= MaxInspected
  /\ k.pages = Cardinality(k.seen)

\* The list that was read is answered, whole or with what it misses.
LEMMA KubeListedKeeps ==
  ASSUME KubeInv, NEW k, ListSoFar(k), ~k.source_truncated => k.items = k.snapshot,
         Do(KubeListed(k))
  PROVE  KubeInv'
<1> DEFINE kept == {o \in k.items : Cardinality({p \in k.items : p < o}) < k.limit}
<1>1. /\ kept \subseteq k.items
      /\ Cardinality(k.items) <= k.limit => kept = k.items
      /\ \A o \in k.items \ kept : \A p \in kept : p < o
  <2>1. k.items \subseteq Objects /\ k.limit \in Int
    BY DEF ListSoFar
  <2>2. kept \subseteq k.items /\ \A o \in k.items : o \in kept <=> Rank(k.items, o) < k.limit
    BY DEF Rank
  <2> HIDE DEF kept
  <2> QED BY <2>1, <2>2, KeptAreFirst
<1>2. read' = [k EXCEPT !.step = "done", !.answer = "list", !.returned = kept,
                 !.result_truncated = Cardinality(k.items) > k.limit]
      /\ UNCHANGED <<pod, uids, stored, offered>>
  BY DEF KubeListed, Do
<1> HIDE DEF kept
<1>3. /\ DOMAIN read' = ReadFields /\ read'.step = "done" /\ read'.answer = "list"
      /\ read'.op = k.op /\ read'.items = k.items /\ read'.pages = k.pages
      /\ read'.seen = k.seen /\ read'.snapshot = k.snapshot /\ read'.token = k.token
      /\ read'.docs = k.docs /\ read'.supported = k.supported /\ read'.uid = k.uid
      /\ read'.text = k.text /\ read'.limit = k.limit /\ read'.kinds = k.kinds
      /\ read'.source_truncated = k.source_truncated
      /\ read'.returned = kept /\ read'.result_truncated = (Cardinality(k.items) > k.limit)
  BY <1>2 DEF ListSoFar, ReadFields
<1>4. KubeType'
  BY <1>2, <1>3 DEF KubeInv, KubeType, ListSoFar
<1>5. ListTellsWhatIsMissing'
  <2>1. k.items \subseteq Objects
    BY DEF ListSoFar
  <2>2. Cardinality(k.items) \in Nat /\ k.limit \in Int
    BY <2>1, ObjectsAreFinite DEF ListSoFar
  <2>3. ~read'.result_truncated => kept = k.items
    <3>1. CASE Cardinality(k.items) > k.limit
      <4>1. read'.result_truncated = TRUE
        BY <1>3, <3>1
      <4> QED
        BY <4>1
    <3>2. CASE ~(Cardinality(k.items) > k.limit)
      <4>1. kept = k.items
        BY <1>1, <2>2, <3>2
      <4> QED
        BY <4>1
    <3> QED
      BY <3>1, <3>2
  <2>4. k.items \subseteq k.snapshot
    BY DEF ListSoFar
  <2> QED
    BY <1>1, <1>3, <2>3, <2>4 DEF ListTellsWhatIsMissing
<1>6. IsFiniteSet({})
  BY FS_EmptySet
<1> QED
  BY <1>2, <1>3, <1>4, <1>5, <1>6
     DEF KubeInv, ListSoFar, KubeWay, KubePods, KubeDocs, KubePages, LogsOfTheAskedPod, GetIsExact,
         JudgedOnOneDocument, KubeListBounded

\* A page that goes on.
LEMMA KubeMoreKeeps ==
  ASSUME KubeInv, NEW k, ListSoFar(k), k.step = "page", k.answer = "none",
         k.pages < KubeMaxPages, 0 \notin k.seen, k.token # 0, k.pages # 0,
         ~k.source_truncated, Do(k)
  PROVE  KubeInv'
<1>1. read' = k /\ UNCHANGED <<pod, uids, stored, offered>>
  BY DEF Do
<1>2. KubeType'
  BY <1>1 DEF KubeInv, KubeType, ListSoFar
<1>3. IsFiniteSet({})
  BY FS_EmptySet
<1> QED
  BY <1>1, <1>2, <1>3
     DEF KubeInv, ListSoFar, KubeWay, KubePods, KubeDocs, KubePages, LogsOfTheAskedPod, GetIsExact,
         JudgedOnOneDocument, KubeListBounded, ListTellsWhatIsMissing

\* KubeReadPage keeps the invariant.
LEMMA KubeReadPageKeeps == KubeInv /\ KubeReadPage => KubeInv'
<1>1. SUFFICES ASSUME KubeInv, KubeReadPage PROVE KubeInv'
  OBVIOUS
<1> DEFINE snapshot == IF read.pages = 0 THEN stored ELSE read.snapshot
           rest == snapshot \ read.items
           remaining == MaxInspected - Cardinality(read.items)
           requested == Min({remaining, KubePageSize})
<1>2. /\ DOMAIN read = ReadFields /\ read.step = "page" /\ read.op = "list"
      /\ read.answer = "none" /\ read.docs = {} /\ read.pages \in Nat /\ read.token \in Nat
      /\ read.uid \in Int /\ read.text \in Int /\ read.limit \in Int
      /\ read.kinds \in Seq(Kinds) /\ read.supported \subseteq Kinds
      /\ read.snapshot \subseteq Objects /\ read.items \subseteq read.snapshot
      /\ read.seen \subseteq Nat /\ IsFiniteSet(read.seen)
      /\ read.pages < KubeMaxPages /\ read.pages = Cardinality(read.seen)
      /\ 0 \notin read.seen /\ (read.items # {} => read.token # 0)
      /\ (read.pages = 0 => read.items = {}) /\ read.source_truncated = FALSE
      /\ Cardinality(read.items) <= MaxInspected
  BY <1>1 DEF KubeReadPage, KubeInv, KubeType, KubeWay, KubeDocs, KubePages, KubeListBounded
<1>3. /\ snapshot \subseteq Objects /\ read.items \subseteq snapshot
      /\ Cardinality(read.items) \in Nat
  <2>1. stored \subseteq Objects /\ read.items \subseteq Objects
    BY <1>1, <1>2 DEF KubeInv, KubeType
  <2> QED
    BY <1>2, <2>1, ObjectsAreFinite
<1>4. KubePageSize \in Nat \ {0} /\ KubeMaxPages \in Nat \ {0} /\ MaxInspected \in Nat \ {0}
  BY PagingAssumption
<1>5. remaining \in Nat /\ requested <= remaining /\ requested \in Int
  <2>1. remaining \in Nat
    BY <1>2, <1>3, <1>4
  <2>2. remaining \in Int /\ KubePageSize \in Int
    BY <1>4, <2>1
  <2>3. \A a, b \in Int : Min({a, b}) <= a /\ Min({a, b}) \in {a, b}
    BY MinOfTwo
  <2> HIDE DEF remaining
  <2>4. Min({remaining, KubePageSize}) <= remaining
        /\ Min({remaining, KubePageSize}) \in {remaining, KubePageSize}
    BY <2>2, <2>3
  <2> QED
    BY <2>1, <2>2, <2>4
<1>6. CASE remaining = 0
  <2> DEFINE k == [read EXCEPT !.source_truncated = read.token # 0]
  <2>1. Do(KubeListed(k))
    BY <1>1, <1>6 DEF KubeReadPage
  <2>2. read.items # {}
    <3>1. Cardinality(read.items) # 0
      BY <1>3, <1>4, <1>6
    <3> QED
      BY <3>1, FS_EmptySet
  <2>3. ListSoFar(k) /\ k.source_truncated = TRUE
    <3>1. read.token # 0
      BY <1>2, <2>2
    <3>2. /\ DOMAIN k = ReadFields /\ k.op = read.op /\ k.docs = read.docs
          /\ k.uid = read.uid /\ k.text = read.text /\ k.limit = read.limit
          /\ k.kinds = read.kinds /\ k.supported = read.supported
          /\ k.snapshot = read.snapshot /\ k.items = read.items /\ k.pages = read.pages
          /\ k.token = read.token /\ k.seen = read.seen /\ k.source_truncated = TRUE
      BY <1>2, <3>1 DEF ReadFields
    <3> HIDE DEF k
    <3>3. k.pages \in Nat /\ k.pages <= KubeMaxPages /\ k.pages = Cardinality(k.seen)
      BY <1>2, <1>4, <3>2
    <3>4. /\ k.snapshot \subseteq Objects /\ k.items \subseteq k.snapshot
          /\ Cardinality(k.items) <= MaxInspected
      <4>1. stored \subseteq Objects /\ read.snapshot \subseteq Objects
        BY <1>1 DEF KubeInv, KubeType
      <4> QED
        BY <1>2, <3>2, <4>1
    <3>5. k.uid \in Int /\ k.text \in Int /\ k.limit \in Int /\ k.token \in Nat
      BY <1>2, <3>2
    <3>6. k.kinds \in Seq(Kinds) /\ k.supported \subseteq Kinds
      BY <1>2, <3>2
    <3>7. k.seen \subseteq Nat /\ IsFiniteSet(k.seen) /\ k.docs = {} /\ k.op = "list"
      BY <1>2, <3>2
    <3> QED BY <3>2, <3>3, <3>4, <3>5, <3>6, <3>7 DEF ListSoFar
  <2> HIDE DEF k
  <2> QED BY <1>1, <2>1, <2>3, KubeListedKeeps
<1>7. CASE remaining # 0
  <2>1. PICK items \in SUBSET rest, token \in 0..(read.pages + 1) :
          /\ token = 0 => items = rest
          /\ Do(KubeApplyPage([read EXCEPT !.snapshot = snapshot], requested, items, token))
    BY <1>1, <1>7 DEF KubeReadPage
  <2> DEFINE k == [read EXCEPT !.snapshot = snapshot]
             more == [k EXCEPT !.pages = @ + 1, !.items = @ \cup items, !.token = token,
                               !.seen = @ \cup {token}]
             cut == [more EXCEPT !.source_truncated = TRUE]
  <2> HIDE DEF remaining, requested, snapshot
  <2>2. /\ DOMAIN k = ReadFields /\ k.items = read.items /\ k.seen = read.seen
        /\ k.pages = read.pages
    BY <1>2 DEF ReadFields
  <2>3. /\ DOMAIN more = ReadFields /\ more.step = "page" /\ more.answer = "none"
        /\ more.op = "list" /\ more.docs = {} /\ more.uid = read.uid
        /\ more.text = read.text /\ more.limit = read.limit
        /\ more.kinds = read.kinds /\ more.supported = read.supported
        /\ more.snapshot = snapshot /\ more.items = read.items \cup items
        /\ more.pages = read.pages + 1 /\ more.token = token
        /\ more.seen = read.seen \cup {token} /\ more.source_truncated = FALSE
    BY <1>2 DEF ReadFields
  <2>4. CASE Cardinality(items) > requested \/ (token # 0 /\ token \in read.seen)
    <3>1. read' = [k EXCEPT !.step = "done", !.answer = "invalid_response"]
          /\ UNCHANGED <<pod, uids, stored, offered>>
      BY <2>1, <2>2, <2>4 DEF KubeApplyPage, Do
    <3>2. /\ read'.step = "done" /\ read'.answer = "invalid_response"
          /\ DOMAIN read' = ReadFields
          /\ read'.op = read.op /\ read'.items = read.items /\ read'.pages = read.pages
          /\ read'.seen = read.seen /\ read'.snapshot = snapshot /\ read'.token = read.token
          /\ read'.docs = read.docs /\ read'.supported = read.supported /\ read'.uid = read.uid
          /\ read'.text = read.text /\ read'.limit = read.limit /\ read'.kinds = read.kinds
          /\ read'.source_truncated = read.source_truncated
      BY <1>2, <3>1 DEF ReadFields
    <3>3. KubeType'
      BY <1>1, <1>3, <3>1, <3>2 DEF KubeInv, KubeType
    <3> QED
      BY <1>1, <1>2, <1>3, <3>1, <3>2, <3>3
         DEF KubeInv, KubeWay, KubePods, KubeDocs, KubePages, LogsOfTheAskedPod, GetIsExact,
             JudgedOnOneDocument, KubeListBounded, ListTellsWhatIsMissing
  <2>5. CASE Cardinality(items) <= requested /\ (token = 0 \/ token \notin read.seen)
    <3>1. token \notin read.seen /\ token \in Nat
      BY <1>2, <2>1, <2>5
    <3>2. read.items \cup items \subseteq snapshot
      BY <1>3, <2>1
    <3>3. Cardinality(read.items \cup items) <= MaxInspected
      <4>1. /\ IsFiniteSet(items) /\ IsFiniteSet(read.items) /\ Cardinality(items) \in Nat
            /\ Cardinality(read.items \cup items) \in Nat
        <5>1. items \subseteq Objects /\ read.items \subseteq Objects
              /\ read.items \cup items \subseteq Objects
          BY <1>3, <2>1
        <5> QED
          BY <5>1, ObjectsAreFinite
      <4>2. Cardinality(read.items \cup items) <= Cardinality(read.items) + Cardinality(items)
        <5>1. /\ Cardinality(read.items \cup items)
                   = Cardinality(read.items) + Cardinality(items)
                       - Cardinality(read.items \cap items)
          BY <4>1, FS_Union
        <5>2. Cardinality(read.items \cap items) \in Nat
          <6>1. read.items \cap items \subseteq Objects
            BY <1>3
          <6> QED
            BY <6>1, ObjectsAreFinite
        <5> QED
          BY <1>3, <4>1, <5>1, <5>2
      <4>3. Cardinality(items) <= MaxInspected - Cardinality(read.items)
        BY <1>5, <2>5, <4>1 DEF remaining
      <4> QED
        BY <1>3, <1>4, <4>1, <4>2, <4>3
    <3>4. /\ IsFiniteSet(read.seen \cup {token})
          /\ Cardinality(read.seen \cup {token}) = read.pages + 1
      BY <1>2, <3>1, FS_AddElement
    <3>5. read.pages + 1 \in Nat /\ read.pages + 1 <= KubeMaxPages
      BY <1>2, <1>4
    <3>6. ListSoFar(more)
      <4> HIDE DEF more
      <4> QED BY <1>2, <1>3, <2>3, <3>1, <3>2, <3>3, <3>4, <3>5 DEF ListSoFar
    <3>7. KubeApplyPage(k, requested, items, token)
            = IF token = 0 THEN KubeListed(more)
              ELSE IF more.pages >= KubeMaxPages THEN KubeListed(cut) ELSE more
      <4>1. ~(Cardinality(items) > requested \/ (token # 0 /\ token \in k.seen))
        <5>1. Cardinality(items) \in Nat
          <6>1. items \subseteq Objects
            BY <1>3, <2>1
          <6> QED
            BY <6>1, ObjectsAreFinite
        <5> HIDE DEF k
        <5> QED BY <1>5, <2>2, <2>5, <3>1, <5>1
      <4> HIDE DEF k
      <4> QED BY <4>1 DEF KubeApplyPage
    <3>8. CASE token = 0
      <4>1. Do(KubeListed(more))
        BY <2>1, <3>7, <3>8
      <4>2. more.items = more.snapshot
        <5>1. items = snapshot \ read.items
          BY <2>1, <3>8
        <5>2. read.items \cup items = snapshot
          BY <1>3, <5>1
        <5> HIDE DEF more
        <5> QED BY <2>3, <5>2
      <4> HIDE DEF more
      <4> QED BY <1>1, <3>6, <4>1, <4>2, KubeListedKeeps
    <3>9. CASE token # 0 /\ more.pages >= KubeMaxPages
      <4>1. Do(KubeListed(cut))
        BY <2>1, <3>7, <3>9
      <4>2. ListSoFar(cut) /\ cut.source_truncated = TRUE
        <5>1. /\ DOMAIN cut = ReadFields /\ cut.op = more.op /\ cut.docs = more.docs
              /\ cut.uid = more.uid /\ cut.text = more.text /\ cut.limit = more.limit
              /\ cut.kinds = more.kinds /\ cut.supported = more.supported
              /\ cut.snapshot = more.snapshot /\ cut.items = more.items
              /\ cut.pages = more.pages /\ cut.token = more.token
              /\ cut.seen = more.seen /\ cut.source_truncated = TRUE
          <6> HIDE DEF more
          <6> QED BY <2>3 DEF ReadFields
        <5> HIDE DEF cut, more
        <5> QED BY <3>6, <5>1 DEF ListSoFar
      <4> HIDE DEF cut
      <4> QED BY <1>1, <4>1, <4>2, KubeListedKeeps
    <3>10. CASE token # 0 /\ ~(more.pages >= KubeMaxPages)
      <4>1. Do(more)
        BY <2>1, <3>7, <3>10
      <4>2. /\ more.step = "page" /\ more.answer = "none" /\ more.pages < KubeMaxPages
            /\ 0 \notin more.seen /\ more.token # 0 /\ more.pages # 0 /\ ~more.source_truncated
        <5> HIDE DEF more
        <5> QED BY <1>2, <1>4, <2>3, <3>5, <3>10
      <4> HIDE DEF more
      <4> QED BY <1>1, <3>6, <4>1, <4>2, KubeMoreKeeps
    <3> QED
      BY <3>8, <3>9, <3>10
  <2>6. Cardinality(items) \in Nat
    <3>1. items \subseteq Objects
      BY <1>3, <2>1
    <3> QED
      BY <3>1, ObjectsAreFinite
  <2> QED
    BY <1>5, <2>4, <2>5, <2>6
<1> QED
  BY <1>6, <1>7

\* The cluster changes; nothing of the call does.
LEMMA KubeChangeKeeps ==
  ASSUME KubeInv, ReplacePod \/ DeletePod \/ ChangeObjects \/ ChangeApis
  PROVE  KubeInv'
<1>1. read' = read
  BY DEF ReplacePod, DeletePod, ChangeObjects, ChangeApis
<1>2. /\ uids' \in Nat \ {0} /\ uids' >= uids /\ pod'.uid \in {0, uids'} /\ pod'.uid \in Nat
      /\ stored' \subseteq Objects /\ offered' \subseteq Kinds
  <2>1. /\ uids \in Nat \ {0} /\ pod.uid \in {0, uids} /\ pod.uid \in Nat
        /\ stored \subseteq Objects /\ offered \subseteq Kinds
    BY DEF KubeInv, KubeType, KubePods
  <2>2. CASE ReplacePod
    <3>1. uids' = uids + 1 /\ pod'.uid = uids + 1 /\ UNCHANGED <<stored, offered>>
      BY <2>2 DEF ReplacePod
    <3> QED
      BY <2>1, <3>1
  <2>3. CASE DeletePod
    <3>1. uids' = uids /\ pod'.uid = 0 /\ UNCHANGED <<stored, offered>>
      BY <2>3 DEF DeletePod
    <3> QED
      BY <2>1, <3>1
  <2>4. CASE ChangeObjects
    <3>1. UNCHANGED <<pod, uids, offered>> /\ stored' \subseteq Objects
      BY <2>4 DEF ChangeObjects
    <3> QED
      BY <2>1, <3>1
  <2>5. CASE ChangeApis
    <3>1. UNCHANGED <<pod, uids, stored>> /\ offered' \subseteq Kinds
      BY <2>5 DEF ChangeApis
    <3> QED
      BY <2>1, <3>1
  <2> QED
    BY <2>2, <2>3, <2>4, <2>5
<1>3. KubeType'
  BY <1>1, <1>2 DEF KubeInv, KubeType
<1>4. KubePods'
  <2>1. read.uid \in Int /\ read.text \in Int /\ uids \in Nat
    BY DEF KubeInv, KubeType
  <2> QED
    BY <1>1, <1>2, <2>1 DEF KubeInv, KubePods
<1> QED
  BY <1>1, <1>3, <1>4
     DEF KubeInv, KubeWay, KubeDocs, KubePages, LogsOfTheAskedPod, GetIsExact,
         JudgedOnOneDocument, KubeListBounded, ListTellsWhatIsMissing

\* The steps that end a call without a resource, a list or logs.
LEMMA KubeEnds ==
  ASSUME KubeRefuseInput \/ GetOther \/ AnswerCapabilities \/ NormalizeFails \/ KubeRequestFails
  PROVE  \E e : e \notin {"resource", "logs", "list"} /\ Do(Answer(e))
<1>1. CASE KubeRefuseInput
  BY <1>1 DEF KubeRefuseInput
<1>2. CASE GetOther
  BY <1>2 DEF GetOther
<1>3. CASE AnswerCapabilities
  BY <1>3 DEF AnswerCapabilities
<1>4. CASE NormalizeFails
  BY <1>4 DEF NormalizeFails
<1>5. CASE KubeRequestFails
  BY <1>5 DEF KubeRequestFails, QueryErrors
<1> QED
  BY <1>1, <1>2, <1>3, <1>4, <1>5

\* Every step keeps the invariant of the Kubernetes part.
LEMMA KubeStep == KubeInv /\ [KubeNext]_kubeVars => KubeInv'
<1>1. SUFFICES ASSUME KubeInv, [KubeNext]_kubeVars PROVE KubeInv'
  OBVIOUS
<1>2. CASE UNCHANGED kubeVars
  BY <1>1, <1>2
     DEF kubeVars, KubeInv, KubeType, KubeWay, KubePods, KubeDocs, KubePages, LogsOfTheAskedPod,
         GetIsExact, JudgedOnOneDocument, KubeListBounded, ListTellsWhatIsMissing
<1>3. CASE KubeRefuseInput \/ GetOther \/ AnswerCapabilities \/ NormalizeFails \/ KubeRequestFails
  <2>1. PICK e : e \notin {"resource", "logs", "list"} /\ Do(Answer(e))
    BY <1>3, KubeEnds
  <2> QED
    BY <1>1, <2>1, KubeEndKeeps
<1>4. CASE BeginGet \/ BeginLogs \/ BeginCapabilities \/ BeginList
  BY <1>1, <1>4, KubeBeginKeeps
<1>5. CASE ReplacePod \/ DeletePod \/ ChangeObjects \/ ChangeApis
  BY <1>1, <1>5, KubeChangeKeeps
<1>6. CASE GetObject \/ KubeReadPod \/ KubeReadLog \/ CheckPodAgain \/ Judge \/ KubeReadPage
  BY <1>1, <1>6, GetObjectKeeps, KubeReadPodKeeps, KubeReadLogKeeps, CheckPodAgainKeeps,
     JudgeKeeps, KubeReadPageKeeps
<1> QED
  BY <1>1, <1>2, <1>3, <1>4, <1>5, <1>6 DEF KubeNext, KubeClientStep
-----------------------------------------------------------------------------
(***************************************************************************)
(* Tekton reads.                                                           *)
(*                                                                         *)
(* TektonInv follows the pages of a list as KubeInv does; then it accounts *)
(* for what the answer is made of, while it is gathered: each repository   *)
(* of the catalog is still to be read, read or reported, with as many      *)
(* identities as documents; and the texts of a task's steps and what is    *)
(* left of the budget add up to the budget.                                *)
(***************************************************************************)

CallFields == {"op", "step", "answer", "limit", "query", "uid", "task", "snapshot", "items",
               "pages", "token", "seen", "source_truncated", "result_truncated", "returned",
               "repositories", "read", "failures", "workflows", "documents", "budget",
               "remaining", "logs", "texts", "owners", "steps_omitted"}

ListOps == {"repositories", "workflows", "runs", "tasks", "status"}

Texts == [size : Nat, lines : Int, truncated : BOOLEAN]

TektonType ==
  /\ DOMAIN call = CallFields
  /\ call.limit \in Int /\ call.pages \in Nat /\ call.token \in Nat
  /\ call.seen \subseteq Nat /\ IsFiniteSet(call.seen)
  /\ call.snapshot \subseteq Items /\ call.items \subseteq call.snapshot

\* What is known at each request.
TektonWay ==
  /\ call.step = "idle" => call = NoCall
  /\ call.step # "done" => call.answer = "none"
  /\ call.step = "run" => call.op \in {"tasks", "status", "logs"}
  /\ call.step = "list" => call.op \in ListOps
  /\ call.step = "repository" => call.op = "workflows"
  /\ call.step \in {"run", "list"} =>
       /\ call.read = {} /\ call.failures = {} /\ call.workflows = {} /\ call.documents = 0
       /\ ~call.source_truncated
  /\ call.step \in {"run", "task", "pod"} => call.texts \in Seq(Texts) /\ Len(call.texts) = 0

\* Every page left its own token, and none has ended the list so far.
TektonPages ==
  /\ call.step \in {"idle", "run"} => call.pages = 0 /\ call.seen = {} /\ call.snapshot = {}
  /\ call.step = "list" =>
       /\ call.pages < TektonMaxPages /\ call.pages = Cardinality(call.seen)
       /\ 0 \notin call.seen /\ (call.items # {} => call.token # 0)
       /\ call.pages = 0 => call.items = {}
       /\ call.snapshot \subseteq Selected(Items)

Asked(k) == {r \in ParseRepository(k.snapshot) : k.query \in {<< >>, <<r.repository>>}}

\* Each repository asked for is still to be read, read, reported as failed or cut, and
\* each document that was read has an identity of its repository.
TektonCatalog ==
  call.step = "repository" =>
    /\ call.items = call.snapshot /\ ~Ambiguous(ParseRepository(call.snapshot))
    /\ call.repositories \cup call.read \cup call.failures \subseteq Asked(call)
    /\ call.source_truncated
         \/ call.repositories \cup call.read \cup call.failures = Asked(call)
    /\ call.repositories \cap call.read = {}
    /\ IsFiniteSet(call.workflows) /\ Cardinality(call.workflows) = call.documents
    /\ \A w \in call.workflows : \E r \in call.read : \E i, d \in Nat : w = <<r.repository, i, d>>

\* What the texts hold and what remains make up the budget.
TektonLogs ==
  call.step = "log" =>
    /\ call.budget \in Nat /\ call.remaining \in Nat
    /\ call.logs \in Seq(Nat) /\ call.texts \in Seq(Texts)
    /\ Len(call.texts) <= Len(call.logs)
    /\ SumFunction([i \in 1..Len(call.texts) |-> call.texts[i].size]) + call.remaining = call.budget
    /\ \A i \in 1..Len(call.texts) :
         ~call.texts[i].truncated => call.texts[i].lines = call.logs[i]

TektonInv ==
  /\ TektonType /\ TektonWay /\ TektonPages /\ TektonCatalog /\ TektonLogs
  /\ TektonListBounded /\ NewestAreListed /\ TasksOfTheRunRead
  /\ CatalogIsWhole /\ WorkflowsAccounted /\ LogsBounded

(* The order of the runs, the ranks in a catalog.                          *)

\* Sets of items can be counted.
LEMMA ItemsAreFinite ==
  ASSUME NEW S, S \subseteq Items
  PROVE  IsFiniteSet(S) /\ Cardinality(S) \in Nat
<1>1. S \in SUBSET Items /\ IsFiniteSet(Items)
  BY ItemsAssumption
<1>2. IsFiniteSet(S)
  BY <1>1, FS_Subset
<1> QED
  BY <1>2, FS_CardinalityType

\* Newer orders the items of each kind.
LEMMA NewerIsAnOrder ==
  ASSUME NEW a \in Items, NEW b \in Items, NEW c \in Items
  PROVE  /\ ~Newer(a, a)
         /\ Newer(a, b) /\ Newer(b, c) => Newer(a, c)
         /\ a.kind = b.kind => Newer(a, b) \/ Newer(b, a) \/ a = b
<1>1. /\ a.at \in Nat /\ b.at \in Nat /\ c.at \in Nat
      /\ a.id \in Nat /\ b.id \in Nat /\ c.id \in Nat
  BY ItemsAssumption
<1>2. a.kind = b.kind /\ a.id = b.id => a = b
  BY ItemsAssumption
<1> QED
  BY <1>1, <1>2 DEF Newer

\* What is left out is older than what is returned, and the list was too long.
LEMMA FirstAreNewest ==
  ASSUME NEW S, S \subseteq Items, \A i, j \in S : i.kind = j.kind, NEW n \in Int
  PROVE  /\ First(S, n) \subseteq S
         /\ \A o \in S \ First(S, n) :
              Cardinality(S) > n /\ \A r \in First(S, n) : Newer(r, o)
<1> DEFINE Before(o) == {j \in S : Newer(j, o)}
<1>1. \A T \in SUBSET S : IsFiniteSet(T) /\ Cardinality(T) \in Nat
  <2>1. \A T \in SUBSET S : T \subseteq Items
    OBVIOUS
  <2> QED
    BY <2>1, ItemsAreFinite
<1>2. \A o \in S : o \in First(S, n) <=> Cardinality(Before(o)) < n
  BY DEF First
<1>3. First(S, n) \subseteq S
  BY DEF First
<1>4. \A o \in S : Cardinality(Before(o)) < Cardinality(S)
  <2>1. SUFFICES ASSUME NEW o \in S PROVE Cardinality(Before(o)) < Cardinality(S)
    OBVIOUS
  <2>2. Before(o) \in SUBSET S /\ o \notin Before(o)
    BY NewerIsAnOrder
  <2> HIDE DEF Before
  <2> QED
    BY <1>1, <2>2, FS_Subset, FS_CardinalityType
<1>5. ASSUME NEW o \in S, NEW r \in S, Newer(o, r)
      PROVE  Cardinality(Before(o)) <= Cardinality(Before(r))
  <2>1. Before(o) \subseteq Before(r)
    BY <1>5, NewerIsAnOrder
  <2>2. IsFiniteSet(Before(r)) /\ Before(o) \in SUBSET Before(r)
    <3>1. Before(r) \in SUBSET S
      OBVIOUS
    <3> HIDE DEF Before
    <3> QED BY <1>1, <2>1, <3>1
  <2> HIDE DEF Before
  <2> QED BY <2>2, FS_Subset
<1>6. ASSUME NEW o \in S \ First(S, n)
      PROVE  Cardinality(S) > n /\ \A r \in First(S, n) : Newer(r, o)
  <2>1. Cardinality(Before(o)) \in Nat /\ Cardinality(S) \in Nat
    <3>1. Before(o) \in SUBSET S /\ S \in SUBSET S
      OBVIOUS
    <3> HIDE DEF Before
    <3> QED BY <1>1, <3>1
  <2>2. Cardinality(Before(o)) >= n
    <3> HIDE DEF Before
    <3> QED BY <1>2, <2>1
  <2>3. Cardinality(Before(o)) < Cardinality(S)
    BY <1>4
  <2>4. ASSUME NEW r \in First(S, n) PROVE Newer(r, o)
    <3>1. r \in S /\ r # o /\ r.kind = o.kind /\ r \in Items /\ o \in Items
      BY <1>3, <2>4
    <3>2. Newer(r, o) \/ Newer(o, r)
      BY <3>1, NewerIsAnOrder
    <3>3. CASE Newer(o, r)
      <4>1. Cardinality(Before(o)) <= Cardinality(Before(r))
        BY <1>5, <3>1, <3>3
      <4>2. Cardinality(Before(r)) \in Nat /\ Cardinality(Before(r)) < n
        <5>1. Before(r) \in SUBSET S
          OBVIOUS
        <5> HIDE DEF Before
        <5> QED BY <1>1, <1>2, <3>1, <5>1
      <4> HIDE DEF Before
      <4> QED BY <2>1, <2>2, <4>1, <4>2
    <3> QED
      BY <3>2, <3>3
  <2> HIDE DEF Before
  <2> QED BY <2>1, <2>2, <2>3, <2>4
<1> QED
  BY <1>3, <1>6

\* A catalog within the limit is read as a whole.
LEMMA SmallCatalogIsWhole ==
  ASSUME NEW S, S \subseteq Items, NEW n \in Int, Cardinality(S) <= n
  PROVE  FirstById(S, n) = S
<1> DEFINE Before(r) == {j \in S : j.repository < r.repository}
<1>1. ASSUME NEW r \in S PROVE Cardinality(Before(r)) < n
  <2>1. Before(r) \in SUBSET S /\ r \notin Before(r) /\ IsFiniteSet(S) /\ Cardinality(S) \in Nat
    <3>1. r.repository \in Nat /\ ~(r.repository < r.repository)
      BY ItemsAssumption
    <3> QED
      BY <3>1, ItemsAreFinite
  <2> HIDE DEF Before
  <2>2. Cardinality(Before(r)) <= Cardinality(S) /\ IsFiniteSet(Before(r))
        /\ (Cardinality(Before(r)) = Cardinality(S) => Before(r) = S)
    BY <2>1, FS_Subset
  <2>3. Cardinality(Before(r)) \in Nat
    BY <2>2, FS_CardinalityType
  <2> QED
    BY <2>1, <2>2, <2>3
<1> QED
  BY <1>1 DEF FirstById

\* The next repository is one of those that are left.
LEMMA NextIsThere ==
  ASSUME NEW S, S \subseteq Items, S # {}
  PROVE  NextRepository(S) \in S
<1>1. \A r \in S : r.repository \in Nat
  BY ItemsAssumption
<1> DEFINE T == {r.repository : r \in S}
<1>2. T \subseteq Nat /\ T # {}
  BY <1>1
<1>3. \E n \in T : \A m \in T : n <= m
  <2> HIDE DEF T
  <2> QED BY <1>2, LeastNat
<1>4. \E r \in S : \A s \in S : r.repository <= s.repository
  BY <1>3
<1> QED
  BY <1>4 DEF NextRepository

(* The identities of the workflows of a repository.                        *)

OfOneFile(R, i, m) == {<<R, i, d>> : d \in 1..m}
Numbered(R, n, f) == UNION {{<<R, i, d>> : d \in 1..f[i]} : i \in 1..n}

\* A file with m workflows contributes m of them.
LEMMA TriplesOfAFile ==
  ASSUME NEW R, NEW i, NEW m \in Nat
  PROVE  IsFiniteSet(OfOneFile(R, i, m)) /\ Cardinality(OfOneFile(R, i, m)) = m
<1> DEFINE S == {<<R, i, d>> : d \in 1..m}
           b == [d \in 1..m |-> <<R, i, d>>]
<1>1. b \in Bijection(1..m, S)
  BY DEF Bijection, Injection, Surjection, IsInjective
<1>2. ExistsBijection(1..m, S)
  <2> HIDE DEF b, S
  <2> QED BY <1>1 DEF ExistsBijection
<1>3. Cardinality(S) = m
  <2> HIDE DEF S
  <2> QED BY <1>2, FS_CountingElements
<1>4. IsFiniteSet(S)
  <2> HIDE DEF S
  <2>1. \E n \in Nat : ExistsBijection(1..n, S)
    BY <1>2
  <2> QED BY <2>1, FS_NatBijection
<1> QED
  BY <1>3, <1>4 DEF OfOneFile

\* As many identities as documents, over the files of a repository.
LEMMA WorkflowsAreCounted ==
  ASSUME NEW R, NEW n \in Nat, NEW f \in [1..n -> Nat]
  PROVE  /\ IsFiniteSet(Numbered(R, n, f))
         /\ Cardinality(Numbered(R, n, f)) = SumFunction(f)
         /\ SumFunction(f) \in Nat
<1> DEFINE Fits(k) == \A g \in [1..k -> Nat] :
                        /\ IsFiniteSet(Numbered(R, k, g))
                        /\ Cardinality(Numbered(R, k, g)) = SumFunction(g)
                        /\ SumFunction(g) \in Nat
           T == {k \in Nat : Fits(k)}
<1>1. 0 \in T
  <2>1. SUFFICES ASSUME NEW g \in [1..0 -> Nat]
                 PROVE  /\ IsFiniteSet(Numbered(R, 0, g))
                        /\ Cardinality(Numbered(R, 0, g)) = SumFunction(g)
                        /\ SumFunction(g) \in Nat
    OBVIOUS
  <2>2. Numbered(R, 0, g) = {}
    BY DEF Numbered
  <2>3. SumFunction(g) = 0
    <3>1. DOMAIN g = {}
      OBVIOUS
    <3> QED
      BY <3>1, SumOfEmpty
  <2>4. IsFiniteSet({}) /\ Cardinality({}) = 0
    BY FS_EmptySet
  <2>5. IsFiniteSet(Numbered(R, 0, g)) /\ Cardinality(Numbered(R, 0, g)) = 0
    BY <2>2, <2>4
  <2> HIDE DEF T
  <2> QED
    BY <2>3, <2>5
<1>2. ASSUME NEW k \in Nat, k \in T PROVE k + 1 \in T
  <2>1. SUFFICES ASSUME NEW g \in [1..(k + 1) -> Nat]
                 PROVE  /\ IsFiniteSet(Numbered(R, k + 1, g))
                        /\ Cardinality(Numbered(R, k + 1, g)) = SumFunction(g)
                        /\ SumFunction(g) \in Nat
    OBVIOUS
  <2> DEFINE h == [i \in 1..k |-> g[i]]
             A == Numbered(R, k, h)
             B == OfOneFile(R, k + 1, g[k + 1])
  <2>2. h \in [1..k -> Nat] /\ g[k + 1] \in Nat
    OBVIOUS
  <2>3. IsFiniteSet(A) /\ Cardinality(A) = SumFunction(h) /\ SumFunction(h) \in Nat
    <3> HIDE DEF h
    <3> QED BY <1>2, <2>2
  <2>4. IsFiniteSet(B) /\ Cardinality(B) = g[k + 1]
    BY <2>2, TriplesOfAFile
  <2>5. Numbered(R, k + 1, g) = A \cup B
    <3>1. \A i \in 1..(k + 1) : i \in 1..k \/ i = k + 1
      OBVIOUS
    <3>2. ASSUME NEW w PROVE w \in Numbered(R, k + 1, g) <=> w \in A \cup B
      <4>1. w \in Numbered(R, k + 1, g) <=> \E i \in 1..(k + 1) : \E d \in 1..g[i] : w = <<R, i, d>>
        BY DEF Numbered
      <4>2. w \in A <=> \E i \in 1..k : \E d \in 1..h[i] : w = <<R, i, d>>
        BY DEF Numbered
      <4>3. w \in B <=> \E d \in 1..g[k + 1] : w = <<R, k + 1, d>>
        BY DEF OfOneFile
      <4>4. \A i \in 1..k : h[i] = g[i] /\ i \in 1..(k + 1)
        OBVIOUS
      <4>5. k + 1 \in 1..(k + 1)
        OBVIOUS
      <4> HIDE DEF A, B, h
      <4> QED BY <3>1, <4>1, <4>2, <4>3, <4>4, <4>5
    <3> QED
      BY <3>2
  <2>6. A \cap B = {}
    <3>1. ASSUME NEW w \in A, w \in B PROVE FALSE
      <4>1. PICK i \in 1..k : \E d \in 1..h[i] : w = <<R, i, d>>
        BY <3>1 DEF Numbered
      <4>2. w[2] = i
        BY <4>1
      <4>3. w[2] = k + 1
        BY <3>1 DEF OfOneFile
      <4> QED
        BY <4>2, <4>3
    <3> QED
      BY <3>1
  <2>7. SumFunction(g) = SumFunction(h) + g[k + 1]
    <3>1. /\ DOMAIN h = 1..k /\ DOMAIN g = 1..(k + 1)
          /\ \A i \in 1..(k + 1) : g[i] \in Int
          /\ \A i \in 1..k : h[i] = g[i]
      OBVIOUS
    <3> HIDE DEF h
    <3> QED BY <3>1, SumGrows
  <2>8. IsFiniteSet(A \cup B) /\ Cardinality(A \cup B) = Cardinality(A) + Cardinality(B)
    <3> HIDE DEF A, B
    <3>1. IsFiniteSet(A \cup B)
          /\ Cardinality(A \cup B) = Cardinality(A) + Cardinality(B) - Cardinality(A \cap B)
      BY <2>3, <2>4, FS_Union
    <3>2. Cardinality(A \cap B) = 0
      BY <2>6, FS_EmptySet
    <3>3. Cardinality(A) \in Nat /\ Cardinality(B) \in Nat
      BY <2>2, <2>3, <2>4
    <3> QED BY <3>1, <3>2, <3>3
  <2> HIDE DEF A, B, h
  <2>9. IsFiniteSet(Numbered(R, k + 1, g))
        /\ Cardinality(Numbered(R, k + 1, g)) = Cardinality(A) + Cardinality(B)
    BY <2>5, <2>8
  <2>10. Cardinality(A) + Cardinality(B) = SumFunction(g) /\ SumFunction(g) \in Nat
    BY <2>2, <2>3, <2>4, <2>7
  <2> QED BY <2>9, <2>10
<1>3. n \in T
  <2> HIDE DEF T
  <2> QED BY <1>1, <1>2, NatSetInduction
<1> QED
  BY <1>3

(* The text of a step of a task.                                           *)

\* The smallest of three numbers.
LEMMA MinOfThree ==
  ASSUME NEW a \in Int, NEW b \in Int, NEW c \in Int
  PROVE  /\ Min({a, b, c}) <= a /\ Min({a, b, c}) <= b /\ Min({a, b, c}) <= c
         /\ Min({a, b, c}) \in {a, b, c}
<1>1. \E x \in {a, b, c} : \A y \in {a, b, c} : x <= y
  BY SMT
<1> QED
  BY <1>1 DEF Min

\* The text of one step stays within the lines it was given.
LEMMA StepTextFits ==
  ASSUME NEW requested \in Nat \ {0}, NEW lines \in Nat, NEW growth \in {-1, 0, 1},
         growth # 0 => Min({lines, TailLines}) > 0
  PROVE  LET text == StepText(requested, lines, growth) IN
         /\ text \in Texts
         /\ text.size <= requested
         /\ ~text.truncated => text.lines = lines
<1> DEFINE raw == Min({lines, TailLines, requested})
           size == raw + growth
           cut == Min({size, requested})
           text == StepText(requested, lines, growth)
<1>1. TailLines \in Nat \ {0}
  BY LimitsAssumption
<1>2. raw <= lines /\ raw <= TailLines /\ raw <= requested /\ raw \in {lines, TailLines, requested}
  <2>1. \A a, b, c \in Int :
          /\ Min({a, b, c}) <= a /\ Min({a, b, c}) <= b /\ Min({a, b, c}) <= c
          /\ Min({a, b, c}) \in {a, b, c}
    BY MinOfThree
  <2>2. lines \in Int /\ TailLines \in Int /\ requested \in Int
    BY <1>1
  <2> QED
    BY <2>1, <2>2
<1>3. raw \in Nat
  BY <1>1, <1>2
<1>4. size \in Nat
  <2>1. Min({lines, TailLines}) <= lines
    BY <1>1, MinOfTwo
  <2>2. Min({lines, TailLines}) \in Nat
    <3>1. Min({lines, TailLines}) \in {lines, TailLines}
      BY <1>1, MinOfTwo
    <3> QED
      BY <1>1, <3>1
  <2>3. growth # 0 => raw >= 1
    <3> HIDE DEF raw
    <3> QED BY <1>1, <1>2, <1>3, <2>1, <2>2
  <2> HIDE DEF raw
  <2> QED BY <1>3, <2>3
<1>5. cut <= requested /\ cut \in {size, requested} /\ cut <= size
  <2> HIDE DEF size
  <2> QED BY <1>4, MinOfTwo
<1>6. /\ text.size = cut
      /\ text.lines = raw - (IF size > requested THEN 1 ELSE 0)
      /\ text.truncated = (raw >= TailLines \/ raw >= requested \/ size > requested)
      /\ text = [size |-> text.size, lines |-> text.lines, truncated |-> text.truncated]
  BY DEF StepText
<1>7. cut \in Nat
  <2> HIDE DEF cut, size
  <2> QED BY <1>4, <1>5
<1>8. text.lines \in Int
  <2> HIDE DEF text, raw, size
  <2> QED BY <1>3, <1>6
<1>9. text.truncated \in BOOLEAN
  BY <1>6
<1>10. ~text.truncated => text.lines = lines
  <2>1. SUFFICES ASSUME ~text.truncated PROVE text.lines = lines
    OBVIOUS
  <2>2. ~(raw >= TailLines \/ raw >= requested \/ size > requested)
    BY <1>6, <2>1
  <2> HIDE DEF text, raw, size
  <2>3. raw = lines
    BY <1>1, <1>2, <1>3, <2>2
  <2> QED BY <1>6, <2>2, <2>3
<1> HIDE DEF text, raw, size, cut
<1>11. text \in Texts
  <2>1. text.size \in Nat
    BY <1>6, <1>7
  <2> QED
    BY <1>6, <1>8, <1>9, <2>1 DEF Texts
<1> QED
  BY <1>5, <1>6, <1>10, <1>11 DEF text

(* The steps.                                                              *)

\* What is known of every call, wherever it ends.
KnownCall(k) ==
  /\ DOMAIN k = CallFields
  /\ k.limit \in Int /\ k.pages \in Nat /\ k.token \in Nat
  /\ k.seen \subseteq Nat /\ IsFiniteSet(k.seen)
  /\ k.snapshot \subseteq Items /\ k.items \subseteq k.snapshot
  /\ k.pages <= TektonMaxPages /\ Cardinality(k.items) <= MaxItems

\* The invariant types the call.
LEMMA CallIsKnown == TektonInv => KnownCall(call)
  BY DEF TektonInv, TektonType, TektonListBounded, KnownCall

\* Nothing was asked or read.
LEMMA TektonInitHolds == TektonInit => TektonInv
<1>1. SUFFICES ASSUME TektonInit PROVE TektonInv
  OBVIOUS
<1>2. /\ DOMAIN call = CallFields /\ call.op = "none" /\ call.step = "idle"
      /\ call.answer = "none" /\ call.limit = 0 /\ call.pages = 0 /\ call.token = 0
      /\ call.seen = {} /\ call.items = {} /\ call.snapshot = {} /\ call = NoCall
  BY <1>1 DEF TektonInit, NoCall, CallFields
<1>3. IsFiniteSet({}) /\ Cardinality({}) = 0
  BY FS_EmptySet
<1>4. TektonType /\ TektonPages
  BY <1>2, <1>3 DEF TektonType, TektonPages
<1>5. TektonListBounded
  BY <1>2, <1>3, LimitsAssumption DEF TektonListBounded
<1>6. TektonWay /\ TektonCatalog /\ TektonLogs
  BY <1>2 DEF TektonWay, TektonCatalog, TektonLogs
<1> QED
  BY <1>2, <1>4, <1>5, <1>6
     DEF TektonInv, NewestAreListed, TasksOfTheRunRead, CatalogIsWhole, WorkflowsAccounted,
         LogsBounded

\* A call that ends without a result.
LEMMA TektonNoResult ==
  ASSUME KnownCall(call'), call'.step = "done", call'.answer \notin {"list", "workflows", "logs"}
  PROVE  TektonInv'
<1>1. TektonType' /\ TektonListBounded'
  BY DEF TektonType, TektonListBounded, KnownCall
<1> QED
  BY <1>1
     DEF TektonInv, TektonWay, TektonPages, TektonCatalog, TektonLogs, NewestAreListed,
         TasksOfTheRunRead, CatalogIsWhole, WorkflowsAccounted, LogsBounded

\* A call that ends without a result.
LEMMA TektonEndKeeps ==
  ASSUME NEW k, KnownCall(k), NEW e, e \notin {"list", "workflows", "logs"},
         call' = [k EXCEPT !.step = "done", !.answer = e]
  PROVE  TektonInv'
<1>1. /\ DOMAIN call' = CallFields /\ call'.step = "done" /\ call'.answer = e
      /\ call'.limit = k.limit /\ call'.pages = k.pages /\ call'.token = k.token
      /\ call'.seen = k.seen /\ call'.snapshot = k.snapshot /\ call'.items = k.items
  BY DEF KnownCall, CallFields
<1>2. KnownCall(call')
  BY <1>1 DEF KnownCall
<1> QED
  BY <1>1, <1>2, TektonNoResult

\* The fields of a request.
LEMMA ThreeFields ==
  ASSUME NEW A, NEW B, NEW C, NEW i \in [op : A, limit : B, id : C]
  PROVE  i.op \in A /\ i.limit \in B
  OBVIOUS

\* Begin keeps the invariant.
LEMMA TektonBeginKeeps == TektonInv /\ Begin => TektonInv'
<1>1. SUFFICES ASSUME TektonInv, Begin PROVE TektonInv'
  OBVIOUS
<1>2. \A i \in TektonInputs : i.op \in Ops /\ i.limit \in Int
  <2>1. \A i \in TektonInputs : i.op \in Ops /\ i.limit \in 0..(TektonMaxLimit + 1)
    BY ThreeFields, Zenon DEF TektonInputs
  <2> QED
    BY <2>1
<1>3. PICK i \in TektonInputs : \E q : 
        Set([call EXCEPT !.op = i.op, !.query = q,
               !.limit = IF i.op = "status" THEN MaxFailedTasks ELSE i.limit,
               !.step = IF i.op \in {"tasks", "status", "logs"} THEN "run" ELSE "list"])
  BY <1>1 DEF Begin
<1>4. call = NoCall
  BY <1>1 DEF Begin, TektonInv, TektonWay
<1>5. /\ DOMAIN call' = CallFields /\ call'.op = i.op
      /\ call'.step = (IF i.op \in {"tasks", "status", "logs"} THEN "run" ELSE "list")
      /\ call'.limit = (IF i.op = "status" THEN MaxFailedTasks ELSE i.limit)
      /\ call'.answer = "none" /\ call'.pages = 0 /\ call'.token = 0
      /\ call'.seen = {} /\ call'.items = {} /\ call'.snapshot = {}
      /\ call'.read = {} /\ call'.failures = {} /\ call'.workflows = {}
      /\ call'.documents = 0 /\ call'.source_truncated = FALSE /\ call'.texts = << >>
  BY <1>3, <1>4 DEF Set, NoCall, CallFields
<1>6. i.op \in Ops /\ i.limit \in Int /\ MaxFailedTasks \in Int
  BY <1>2, LimitsAssumption
<1>7. call'.limit \in Int
  BY <1>5, <1>6
<1>8. IsFiniteSet({}) /\ Cardinality({}) = 0
  BY FS_EmptySet
<1>9. TektonType'
  BY <1>5, <1>7, <1>8 DEF TektonType
<1>10. call'.step \in {"run", "list"}
  BY <1>5
<1>11. call'.texts \in Seq(Texts) /\ Len(call'.texts) = 0
  BY <1>5
<1>12. TektonWay'
  <2>1. call'.step = "run" => call'.op \in {"tasks", "status", "logs"}
    BY <1>5
  <2>2. call'.step = "list" => call'.op \in ListOps
    BY <1>5, <1>6 DEF Ops, ListOps
  <2> QED
    BY <1>5, <1>10, <1>11, <2>1, <2>2 DEF TektonWay
<1>13. TektonPages'
  BY <1>5, <1>8, <1>10, LimitsAssumption DEF TektonPages
<1>14. TektonListBounded'
  BY <1>5, <1>8, LimitsAssumption DEF TektonListBounded
<1> QED
  BY <1>5, <1>9, <1>10, <1>12, <1>13, <1>14
     DEF TektonInv, TektonCatalog, TektonLogs, NewestAreListed, TasksOfTheRunRead,
         CatalogIsWhole, WorkflowsAccounted, LogsBounded

\* ReadRun keeps the invariant.
LEMMA TektonReadRunKeeps == TektonInv /\ ReadRun => TektonInv'
<1>1. SUFFICES ASSUME TektonInv, ReadRun PROVE TektonInv'
  OBVIOUS
<1>2. CASE Set(Ended("not_found"))
  <2>1. call' = [call EXCEPT !.step = "done", !.answer = "not_found"]
    BY <1>2 DEF Set, Ended
  <2>2. KnownCall(call)
    BY <1>1, CallIsKnown
  <2>3. "not_found" \notin {"list", "workflows", "logs"}
    OBVIOUS
  <2> QED
    BY <2>1, <2>2, <2>3, TektonEndKeeps
<1>3. CASE Set([call EXCEPT !.uid = run, !.step = IF call.op = "logs" THEN "task" ELSE "list"])
  <2>1. /\ DOMAIN call = CallFields /\ call.op \in {"tasks", "status", "logs"}
        /\ call.answer = "none" /\ call.pages = 0 /\ call.seen = {} /\ call.items = {}
        /\ call.snapshot = {} /\ call.read = {} /\ call.failures = {} /\ call.workflows = {}
        /\ call.documents = 0 /\ ~call.source_truncated
        /\ call.texts \in Seq(Texts) /\ Len(call.texts) = 0
        /\ call.limit \in Int /\ call.token \in Nat
    BY <1>1 DEF ReadRun, TektonInv, TektonType, TektonWay, TektonPages
  <2>2. /\ DOMAIN call' = CallFields /\ call'.op = call.op
        /\ call'.step = (IF call.op = "logs" THEN "task" ELSE "list")
        /\ call'.answer = "none" /\ call'.pages = 0 /\ call'.seen = {} /\ call'.items = {}
        /\ call'.snapshot = {} /\ call'.read = {} /\ call'.failures = {}
        /\ call'.workflows = {} /\ call'.documents = 0
        /\ call'.source_truncated = call.source_truncated /\ call'.texts = call.texts
        /\ call'.limit = call.limit /\ call'.token = call.token
    BY <1>3, <2>1 DEF Set, CallFields
  <2>3. IsFiniteSet({}) /\ Cardinality({}) = 0
    BY FS_EmptySet
  <2>4. TektonType'
    BY <2>1, <2>2, <2>3 DEF TektonType
  <2>5. call'.step = "task" \/ (call'.step = "list" /\ call'.op \in ListOps)
    BY <2>1, <2>2 DEF ListOps
  <2>6. TektonWay'
    BY <2>1, <2>2, <2>5 DEF TektonWay
  <2>7. TektonPages'
    BY <2>2, <2>3, <2>5, LimitsAssumption DEF TektonPages
  <2>8. TektonListBounded'
    BY <2>2, <2>3, LimitsAssumption DEF TektonListBounded
  <2> QED
    BY <2>2, <2>4, <2>5, <2>6, <2>7, <2>8
       DEF TektonInv, TektonCatalog, TektonLogs, NewestAreListed, TasksOfTheRunRead,
           CatalogIsWhole, WorkflowsAccounted, LogsBounded
<1> QED
  BY <1>1, <1>2, <1>3 DEF ReadRun

\* A list that has been read, as far as its tool takes it.
ListedSoFar(k) ==
  /\ KnownCall(k) /\ k.op = call.op /\ k.query = call.query /\ k.uid = call.uid
  /\ k.op \in ListOps /\ k.answer = "none" /\ k.pages = Cardinality(k.seen)
  /\ k.snapshot \subseteq Selected(Items)
  /\ k.source_truncated \/ k.items = k.snapshot
  /\ k.read = {} /\ k.failures = {} /\ k.workflows = {} /\ k.documents = 0

\* The repositories are listed: those read so far are all, or it says what is missing.
LEMMA CatalogListedKeeps ==
  ASSUME NEW k, ListedSoFar(k), k.op \in {"repositories", "workflows"}, call' = TektonListed(k)
  PROVE  TektonInv'
<1> DEFINE rs == ParseRepository(k.items)
           asked == {r \in rs : k.query \in {<< >>, <<r.repository>>}}
           none == k.query # << >> /\ asked = {}
<1>1. /\ KnownCall(k) /\ k.answer = "none" /\ k.pages = Cardinality(k.seen)
      /\ k.source_truncated \/ k.items = k.snapshot
      /\ k.read = {} /\ k.failures = {} /\ k.workflows = {} /\ k.documents = 0
  BY DEF ListedSoFar
<1>2. /\ DOMAIN k = CallFields
      /\ k.limit \in Int /\ k.pages \in Nat /\ k.token \in Nat
      /\ k.seen \subseteq Nat /\ IsFiniteSet(k.seen)
      /\ k.snapshot \subseteq Items /\ k.items \subseteq k.snapshot
      /\ k.pages <= TektonMaxPages /\ Cardinality(k.items) <= MaxItems
  BY <1>1 DEF KnownCall
<1>3. rs \subseteq Items /\ asked \subseteq Items
  BY <1>2 DEF ParseRepository
<1>4. CASE k.source_truncated \/ Ambiguous(rs)
  <2>1. call' = [k EXCEPT !.step = "done", !.answer = "invalid_response"]
    BY <1>4 DEF TektonListed
  <2>2. "invalid_response" \notin {"list", "workflows", "logs"}
    OBVIOUS
  <2> QED
    BY <1>1, <2>1, <2>2, TektonEndKeeps
<1>5. CASE ~k.source_truncated /\ ~Ambiguous(rs) /\ k.op = "repositories"
  <2>1. call' = [k EXCEPT !.step = "done", !.answer = "list",
                          !.returned = FirstById(rs, k.limit),
                          !.result_truncated = Cardinality(rs) > k.limit]
    BY <1>5 DEF TektonListed
  <2>2. /\ DOMAIN call' = CallFields /\ call'.step = "done" /\ call'.answer = "list"
        /\ call'.op = "repositories"
        /\ call'.limit = k.limit /\ call'.pages = k.pages /\ call'.token = k.token
        /\ call'.seen = k.seen /\ call'.snapshot = k.snapshot /\ call'.items = k.items
    BY <1>2, <1>5, <2>1 DEF CallFields
  <2>3. TektonType' /\ TektonListBounded'
    BY <1>1, <1>2, <2>2 DEF TektonType, TektonListBounded
  <2>4. CatalogIsWhole'
    BY <1>1, <1>5, <2>2 DEF CatalogIsWhole, Ambiguous
  <2> QED
    BY <2>2, <2>3, <2>4
       DEF TektonInv, TektonWay, TektonPages, TektonCatalog, TektonLogs, NewestAreListed,
           TasksOfTheRunRead, WorkflowsAccounted, LogsBounded
<1>6. CASE ~k.source_truncated /\ ~Ambiguous(rs) /\ k.op = "workflows"
  <2>1. call' = [k EXCEPT !.step = IF none THEN "done" ELSE "repository",
                          !.answer = IF none THEN "not_found" ELSE @,
                          !.repositories = FirstById(asked, MaxRepositories),
                          !.source_truncated = Cardinality(asked) > MaxRepositories]
    BY <1>6 DEF TektonListed
  <2> HIDE DEF asked, none
  <2>2. /\ DOMAIN call' = CallFields /\ call'.step = (IF none THEN "done" ELSE "repository")
        /\ call'.answer = (IF none THEN "not_found" ELSE "none")
        /\ call'.op = "workflows" /\ call'.query = k.query
        /\ call'.limit = k.limit /\ call'.pages = k.pages /\ call'.token = k.token
        /\ call'.seen = k.seen /\ call'.snapshot = k.snapshot /\ call'.items = k.items
        /\ call'.read = {} /\ call'.failures = {} /\ call'.workflows = {}
        /\ call'.documents = 0
        /\ call'.repositories = FirstById(asked, MaxRepositories)
        /\ call'.source_truncated = (Cardinality(asked) > MaxRepositories)
    BY <1>1, <1>2, <1>6, <2>1 DEF CallFields
  <2>3. TektonType' /\ TektonListBounded'
    BY <1>1, <1>2, <2>2 DEF TektonType, TektonListBounded
  <2>4. CASE none
    <3>1. KnownCall(call') /\ call'.step = "done" /\ call'.answer = "not_found"
      BY <1>2, <2>2, <2>4 DEF KnownCall
    <3> QED
      BY <3>1, TektonNoResult
  <2>5. CASE ~none
    <3>1. call'.step = "repository" /\ call'.answer = "none"
      BY <2>2, <2>5
    <3>2. k.items = k.snapshot /\ asked = Asked(k) /\ ~Ambiguous(ParseRepository(k.snapshot))
      BY <1>1, <1>6 DEF asked, Asked
    <3>3. Asked(call') = asked
      BY <2>2, <3>2 DEF Asked
    <3>4. call'.repositories \subseteq asked
      BY <2>2 DEF FirstById
    <3>5. call'.source_truncated \/ call'.repositories = asked
      <4>1. CASE Cardinality(asked) > MaxRepositories
        BY <2>2, <4>1
      <4>2. CASE ~(Cardinality(asked) > MaxRepositories)
        <5>1. Cardinality(asked) \in Nat /\ MaxRepositories \in Nat
          BY <1>3, ItemsAreFinite, LimitsAssumption
        <5>2. asked \subseteq Items /\ MaxRepositories \in Int
              /\ Cardinality(asked) <= MaxRepositories
          BY <1>3, <4>2, <5>1
        <5>3. FirstById(asked, MaxRepositories) = asked
          BY <5>2, SmallCatalogIsWhole
        <5> QED
          BY <2>2, <5>3
      <4> QED
        BY <4>1, <4>2
    <3>6. IsFiniteSet({}) /\ Cardinality({}) = 0
      BY FS_EmptySet
    <3>7. TektonCatalog'
      <4>1. call'.repositories \cup call'.read \cup call'.failures = call'.repositories
        BY <2>2
      <4>2. IsFiniteSet(call'.workflows) /\ Cardinality(call'.workflows) = call'.documents
        BY <2>2, <3>6
      <4>3. /\ call'.items = call'.snapshot /\ ~Ambiguous(ParseRepository(call'.snapshot))
            /\ call'.repositories \cap call'.read = {}
        BY <2>2, <3>2
      <4>4. \A w \in call'.workflows :
              \E r \in call'.read : \E i, d \in Nat : w = <<r.repository, i, d>>
        BY <2>2
      <4> QED
        BY <3>3, <3>4, <3>5, <4>1, <4>2, <4>3, <4>4 DEF TektonCatalog
    <3> QED
      BY <2>2, <2>3, <3>1, <3>7
         DEF TektonInv, TektonWay, TektonPages, TektonLogs, NewestAreListed,
             TasksOfTheRunRead, CatalogIsWhole, WorkflowsAccounted, LogsBounded
  <2> QED
    BY <2>4, <2>5
<1> QED
  BY <1>4, <1>5, <1>6, <1>1 DEF ListedSoFar

\* The runs or tasks are listed: the newest within the limit.
LEMMA RunsListedKeep ==
  ASSUME NEW k, ListedSoFar(k), k.op \in {"runs", "tasks", "status"}, call' = TektonListed(k)
  PROVE  TektonInv'
<1> DEFINE m == Matching(k.items)
           wanted == Matching(k.snapshot)
<1>1. /\ KnownCall(k) /\ k.op = call.op /\ k.query = call.query /\ k.uid = call.uid
      /\ k.answer = "none" /\ k.pages = Cardinality(k.seen)
      /\ k.snapshot \subseteq Selected(Items)
      /\ k.source_truncated \/ k.items = k.snapshot
  BY DEF ListedSoFar
<1>2. /\ DOMAIN k = CallFields
      /\ k.limit \in Int /\ k.pages \in Nat /\ k.token \in Nat
      /\ k.seen \subseteq Nat /\ IsFiniteSet(k.seen)
      /\ k.snapshot \subseteq Items /\ k.items \subseteq k.snapshot
      /\ k.pages <= TektonMaxPages /\ Cardinality(k.items) <= MaxItems
  BY <1>1 DEF KnownCall
<1>3. call' = [k EXCEPT !.step = "done", !.answer = "list", !.returned = First(m, k.limit),
                        !.result_truncated = Cardinality(m) > k.limit]
  BY DEF TektonListed
<1>4. /\ m \subseteq k.items /\ wanted \subseteq k.snapshot
      /\ \A o \in k.items : o \in wanted => o \in m
      /\ m \subseteq wanted
  <2>1. /\ k.op = "runs" =>
             \A S : Matching(S) = {i \in NormalizeRun(S) : Passes(i, call.query)}
        /\ k.op = "tasks" => \A S : Matching(S) = {i \in S : OwnedBy(i) /\ i.origin = "ours"}
        /\ k.op = "status" =>
             \A S : Matching(S)
                = {i \in S : OwnedBy(i) /\ i.origin = "ours" /\ RunStatus(i) = "failed"}
    BY <1>1 DEF Matching
  <2> HIDE DEF m, wanted
  <2>2. CASE k.op = "runs"
    BY <1>2, <2>1, <2>2 DEF NormalizeRun, m, wanted
  <2>3. CASE k.op = "tasks"
    BY <1>2, <2>1, <2>3 DEF m, wanted
  <2>4. CASE k.op = "status"
    BY <1>2, <2>1, <2>4 DEF m, wanted
  <2> QED
    BY <2>2, <2>3, <2>4
<1>5. k.op \in {"tasks", "status"} => \A t \in m : t.owner = call.uid
  BY <1>1 DEF Matching, OwnedBy
<1>6. \A i, j \in k.snapshot : i.kind = j.kind
  BY <1>1 DEF Selected
<1> HIDE DEF m, wanted
<1>7. /\ DOMAIN call' = CallFields /\ call'.step = "done" /\ call'.answer = "list"
      /\ call'.op = k.op /\ call'.query = k.query /\ call'.uid = k.uid
      /\ call'.limit = k.limit /\ call'.pages = k.pages /\ call'.token = k.token
      /\ call'.seen = k.seen /\ call'.snapshot = k.snapshot /\ call'.items = k.items
      /\ call'.source_truncated = k.source_truncated
      /\ call'.returned = First(m, k.limit)
      /\ call'.result_truncated = (Cardinality(m) > k.limit)
  BY <1>2, <1>3 DEF CallFields
<1>8. TektonType' /\ TektonListBounded'
  BY <1>1, <1>2, <1>7 DEF TektonType, TektonListBounded
<1>9. /\ First(m, k.limit) \subseteq m
      /\ \A o \in m \ First(m, k.limit) :
           Cardinality(m) > k.limit /\ \A r \in First(m, k.limit) : Newer(r, o)
  <2>1. m \subseteq Items /\ \A i, j \in m : i.kind = j.kind
    BY <1>2, <1>4, <1>6
  <2> QED
    BY <1>2, <2>1, FirstAreNewest
<1>10. Matching(call.snapshot)' = wanted
  <2>1. Matching(call.snapshot)' = Matching(k.snapshot)
    BY <1>1, <1>7 DEF Matching, OwnedBy
  <2> QED
    BY <2>1 DEF wanted
<1>11. NewestAreListed'
  <2>1. call'.returned \subseteq wanted
    BY <1>4, <1>7, <1>9
  <2>2. ~call'.source_truncated => call'.items = call'.snapshot
    BY <1>1, <1>7
  <2>3. ASSUME NEW o \in wanted \ call'.returned
        PROVE  /\ call'.source_truncated \/ call'.result_truncated
               /\ o \in call'.items => \A r \in call'.returned : Newer(r, o)
    <3>1. o \in k.items => o \in m \ First(m, k.limit)
      BY <1>4, <1>7, <2>3
    <3>2. call'.source_truncated \/ o \in k.items
      BY <1>1, <1>4, <1>7, <2>3
    <3> QED
      BY <1>7, <1>9, <3>1, <3>2
  <2> QED
    BY <1>10, <2>1, <2>2, <2>3 DEF NewestAreListed
<1>12. TasksOfTheRunRead'
  BY <1>1, <1>5, <1>7, <1>9 DEF TasksOfTheRunRead
<1> QED
  BY <1>7, <1>8, <1>11, <1>12
     DEF TektonInv, TektonWay, TektonPages, TektonCatalog, TektonLogs, CatalogIsWhole,
         WorkflowsAccounted, LogsBounded

\* The list that was read is answered, whatever it lists.
LEMMA TektonListedKeeps ==
  ASSUME NEW k, ListedSoFar(k), call' = TektonListed(k)
  PROVE  TektonInv'
  BY CatalogListedKeeps, RunsListedKeep DEF ListedSoFar, ListOps

\* A page that goes on.
LEMMA TektonMoreKeeps ==
  ASSUME TektonInv, call.step = "list", NEW k, KnownCall(k), k.step = "list", k.op = call.op,
         k.answer = "none", k.read = {}, k.failures = {}, k.workflows = {}, k.documents = 0,
         ~k.source_truncated, k.pages < TektonMaxPages, k.pages = Cardinality(k.seen),
         0 \notin k.seen, k.token # 0, k.pages # 0, k.snapshot \subseteq Selected(Items),
         call' = k
  PROVE  TektonInv'
<1>1. k.op \in ListOps
  BY DEF TektonInv, TektonWay
<1>2. TektonType' /\ TektonListBounded'
  BY DEF TektonType, TektonListBounded, KnownCall
<1>3. Selected(Items)' = Selected(Items)
  BY DEF Selected
<1>4. TektonPages' /\ TektonWay'
  BY <1>1, <1>3 DEF TektonPages, TektonWay
<1> QED
  BY <1>2, <1>4
     DEF TektonInv, TektonCatalog, TektonLogs, NewestAreListed, TasksOfTheRunRead,
         CatalogIsWhole, WorkflowsAccounted, LogsBounded

\* TektonReadPage keeps the invariant.
LEMMA TektonReadPageKeeps == TektonInv /\ TektonReadPage => TektonInv'
<1>1. SUFFICES ASSUME TektonInv, TektonReadPage PROVE TektonInv'
  OBVIOUS
<1>2. PICK snapshot \in IF call.pages = 0 THEN SUBSET Selected(Items) ELSE {call.snapshot} :
        IF MaxItems - Cardinality(call.items) = 0
        THEN Set(TektonListed([call EXCEPT !.source_truncated = call.token # 0]))
        ELSE \E items \in SUBSET (snapshot \ call.items), token \in 0..(call.pages + 1) :
               /\ Cardinality(items)
                    <= Min({MaxItems - Cardinality(call.items), TektonPageSize})
               /\ token = 0 => items = snapshot \ call.items
               /\ Set(TektonApplyPage([call EXCEPT !.snapshot = snapshot], items, token))
  BY <1>1 DEF TektonReadPage
<1> DEFINE remaining == MaxItems - Cardinality(call.items)
<1>3. /\ DOMAIN call = CallFields /\ call.step = "list" /\ call.op \in ListOps
      /\ call.answer = "none" /\ call.read = {} /\ call.failures = {}
      /\ call.workflows = {} /\ call.documents = 0 /\ ~call.source_truncated
      /\ call.limit \in Int /\ call.pages \in Nat /\ call.token \in Nat
      /\ call.seen \subseteq Nat /\ IsFiniteSet(call.seen)
      /\ call.snapshot \subseteq Items /\ call.items \subseteq call.snapshot
      /\ call.pages < TektonMaxPages /\ call.pages = Cardinality(call.seen)
      /\ 0 \notin call.seen /\ (call.items # {} => call.token # 0)
      /\ (call.pages = 0 => call.items = {}) /\ call.snapshot \subseteq Selected(Items)
      /\ Cardinality(call.items) <= MaxItems
  BY <1>1 DEF TektonReadPage, TektonInv, TektonType, TektonWay, TektonPages, TektonListBounded
<1>4. /\ snapshot \subseteq Selected(Items) /\ snapshot \subseteq Items
      /\ call.items \subseteq snapshot
  <2>1. Selected(Items) \subseteq Items
    BY <1>3 DEF Selected
  <2>2. snapshot \subseteq Selected(Items) /\ call.items \subseteq snapshot
    BY <1>2, <1>3
  <2> QED
    BY <2>1, <2>2
<1>5. /\ TektonPageSize \in Nat \ {0} /\ TektonMaxPages \in Nat \ {0} /\ MaxItems \in Nat \ {0}
  BY LimitsAssumption
<1>6. Cardinality(call.items) \in Nat /\ remaining \in Nat
  <2>1. Cardinality(call.items) \in Nat
    <3>1. call.items \subseteq Items
      BY <1>3
    <3> QED
      BY <3>1, ItemsAreFinite
  <2> QED
    BY <1>3, <1>5, <2>1
<1>7. CASE remaining = 0
  <2> DEFINE k == [call EXCEPT !.source_truncated = call.token # 0]
  <2>1. call' = TektonListed(k)
    BY <1>2, <1>7 DEF Set
  <2>2. call.token # 0
    <3>1. Cardinality(call.items) # 0
      BY <1>5, <1>6, <1>7
    <3>2. call.items # {}
      BY <3>1, FS_EmptySet
    <3> QED
      BY <1>3, <3>2
  <2>3. /\ DOMAIN k = CallFields /\ k.op = call.op /\ k.query = call.query /\ k.uid = call.uid
        /\ k.answer = call.answer /\ k.read = call.read /\ k.failures = call.failures
        /\ k.workflows = call.workflows /\ k.documents = call.documents
        /\ k.limit = call.limit /\ k.pages = call.pages /\ k.token = call.token
        /\ k.seen = call.seen /\ k.snapshot = call.snapshot /\ k.items = call.items
        /\ k.source_truncated = TRUE
    BY <1>3, <2>2 DEF CallFields
  <2> HIDE DEF k
  <2>4. KnownCall(k)
    BY <1>1, <2>3, CallIsKnown DEF KnownCall
  <2>5. ListedSoFar(k)
    BY <1>3, <2>3, <2>4 DEF ListedSoFar
  <2> QED
    BY <2>1, <2>5, TektonListedKeeps
<1>8. CASE remaining # 0
  <2>1. PICK items \in SUBSET (snapshot \ call.items), token \in 0..(call.pages + 1) :
          /\ Cardinality(items) <= Min({remaining, TektonPageSize})
          /\ token = 0 => items = snapshot \ call.items
          /\ Set(TektonApplyPage([call EXCEPT !.snapshot = snapshot], items, token))
    BY <1>2, <1>8
  <2> DEFINE k == [call EXCEPT !.snapshot = snapshot]
             read_ == [k EXCEPT !.pages = @ + 1, !.items = @ \cup items, !.token = token,
                                !.seen = @ \cup {token}]
             cut == [read_ EXCEPT !.source_truncated = TRUE]
  <2> HIDE DEF remaining
  <2>2. token \in Nat
    BY <1>3, <2>1
  <2>3. k.seen = call.seen
    BY <1>3 DEF CallFields
  <2>4. /\ DOMAIN read_ = CallFields /\ read_.step = "list" /\ read_.answer = "none"
        /\ read_.op = call.op /\ read_.query = call.query /\ read_.uid = call.uid
        /\ read_.read = {} /\ read_.failures = {} /\ read_.workflows = {}
        /\ read_.documents = 0 /\ read_.limit = call.limit
        /\ read_.snapshot = snapshot /\ read_.items = call.items \cup items
        /\ read_.pages = call.pages + 1 /\ read_.token = token
        /\ read_.seen = call.seen \cup {token}
        /\ read_.source_truncated = call.source_truncated
    BY <1>3 DEF CallFields
  <2>5. call' = IF token = 0 THEN TektonListed(read_)
                ELSE IF token \in call.seen
                THEN [read_ EXCEPT !.step = "done", !.answer = "invalid_response"]
                ELSE IF read_.pages >= TektonMaxPages THEN TektonListed(cut)
                ELSE read_
    BY <2>1, <2>3 DEF TektonApplyPage, Set
  <2> HIDE DEF k, read_
  <2>6. Cardinality(call.items \cup items) <= MaxItems /\ call.items \cup items \subseteq snapshot
    <3>1. /\ IsFiniteSet(items) /\ IsFiniteSet(call.items) /\ Cardinality(items) \in Nat
          /\ Cardinality(call.items \cup items) \in Nat
      <4>1. items \subseteq Items /\ call.items \subseteq Items
            /\ call.items \cup items \subseteq Items
        BY <1>4, <2>1
      <4> QED
        BY <4>1, ItemsAreFinite
    <3>2. Cardinality(call.items \cup items) = Cardinality(call.items) + Cardinality(items)
      <4>1. /\ Cardinality(call.items \cup items)
                 = Cardinality(call.items) + Cardinality(items)
                     - Cardinality(call.items \cap items)
        BY <3>1, FS_Union
      <4>2. Cardinality(call.items \cap items) = 0
        <5>1. call.items \cap items = {}
          BY <2>1
        <5> QED
          BY <5>1, FS_EmptySet
      <4> QED
        BY <1>6, <3>1, <4>1, <4>2
    <3>3. Cardinality(items) <= MaxItems - Cardinality(call.items)
      <4>1. \A a, b \in Int : Min({a, b}) <= a /\ Min({a, b}) \in {a, b}
        BY MinOfTwo
      <4>2. remaining \in Int /\ TektonPageSize \in Int
        BY <1>5, <1>6
      <4>3. /\ Min({remaining, TektonPageSize}) <= remaining
            /\ Min({remaining, TektonPageSize}) \in {remaining, TektonPageSize}
        BY <4>1, <4>2
      <4>4. Cardinality(items) <= remaining
        BY <1>5, <1>6, <2>1, <3>1, <4>3
      <4> QED
        BY <4>4 DEF remaining
    <3> QED
      BY <1>4, <1>5, <1>6, <2>1, <3>1, <3>2, <3>3
  <2>7. /\ call.seen \cup {token} \subseteq Nat /\ IsFiniteSet(call.seen \cup {token})
        /\ token \notin call.seen => Cardinality(call.seen \cup {token}) = call.pages + 1
    BY <1>3, <2>2, FS_AddElement
  <2>8. call.pages + 1 \in Nat /\ call.pages + 1 <= TektonMaxPages /\ call.pages + 1 # 0
    BY <1>3, <1>5
  <2>9. KnownCall(read_)
    BY <1>3, <1>4, <2>2, <2>4, <2>6, <2>7, <2>8 DEF KnownCall
  <2>10. CASE token = 0
    <3>1. read_.items = read_.snapshot
      BY <1>4, <2>1, <2>4, <2>10
    <3>2. token \notin call.seen
      BY <1>3, <2>10
    <3>3. ListedSoFar(read_)
      <4>1. read_.pages = Cardinality(read_.seen)
        BY <2>4, <2>7, <3>2
      <4> QED
        BY <1>3, <1>4, <2>4, <2>9, <3>1, <4>1 DEF ListedSoFar
    <3> QED
      BY <2>5, <2>10, <3>3, TektonListedKeeps
  <2>11. CASE token # 0 /\ token \in call.seen
    <3>1. call' = [read_ EXCEPT !.step = "done", !.answer = "invalid_response"]
      BY <2>5, <2>11
    <3>2. "invalid_response" \notin {"list", "workflows", "logs"}
      OBVIOUS
    <3> QED
      BY <2>9, <3>1, <3>2, TektonEndKeeps
  <2>12. CASE token # 0 /\ token \notin call.seen /\ read_.pages >= TektonMaxPages
    <3>1. call' = TektonListed(cut)
      BY <2>5, <2>12
    <3>2. /\ DOMAIN cut = CallFields /\ cut.op = read_.op /\ cut.query = read_.query
          /\ cut.uid = read_.uid
          /\ cut.answer = read_.answer /\ cut.read = read_.read
          /\ cut.failures = read_.failures
          /\ cut.workflows = read_.workflows /\ cut.documents = read_.documents
          /\ cut.limit = read_.limit /\ cut.pages = read_.pages /\ cut.token = read_.token
          /\ cut.seen = read_.seen /\ cut.snapshot = read_.snapshot /\ cut.items = read_.items
          /\ cut.source_truncated = TRUE
      BY <2>4 DEF CallFields
    <3> HIDE DEF cut
    <3>3. KnownCall(cut)
      BY <2>9, <3>2 DEF KnownCall
    <3>4. ListedSoFar(cut)
      <4>1. cut.pages = Cardinality(cut.seen)
        BY <2>4, <2>7, <2>12, <3>2
      <4> QED
        BY <1>3, <1>4, <2>4, <3>2, <3>3, <4>1 DEF ListedSoFar
    <3> QED
      BY <3>1, <3>4, TektonListedKeeps
  <2>13. CASE token # 0 /\ token \notin call.seen /\ ~(read_.pages >= TektonMaxPages)
    <3>1. call' = read_
      BY <2>5, <2>13
    <3>2. read_.pages < TektonMaxPages /\ read_.pages = Cardinality(read_.seen)
          /\ read_.pages # 0
      BY <1>5, <2>4, <2>7, <2>8, <2>13
    <3>3. 0 \notin read_.seen /\ read_.token # 0
      BY <1>3, <2>4, <2>13
    <3> QED
      BY <1>1, <1>3, <1>4, <2>4, <2>9, <3>1, <3>2, <3>3, TektonMoreKeeps
  <2> QED
    BY <2>10, <2>11, <2>12, <2>13
<1> QED
  BY <1>7, <1>8

\* ReadRepository keeps the invariant.
LEMMA ReadRepositoryKeeps == TektonInv /\ ReadRepository => TektonInv'
<1>1. SUFFICES ASSUME TektonInv, ReadRepository PROVE TektonInv'
  OBVIOUS
<1> DEFINE r == NextRepository(call.repositories)
           rest == [call EXCEPT !.repositories = @ \ {r}]
<1>2. \/ \E n \in 0..(MaxFiles + 1) : \E files \in [1..n -> Files] :
           /\ FilesAccepted(files)
           /\ Set([rest EXCEPT !.read = @ \cup {r},
                    !.workflows = @ \cup ParseWorkflows(r.repository, files),
                    !.documents = @ + SumFunction([i \in 1..n |-> files[i].documents])])
      \/ Set([rest EXCEPT !.failures = @ \cup {r}])
  BY <1>1 DEF ReadRepository
<1>3. /\ DOMAIN call = CallFields /\ call.step = "repository" /\ call.op = "workflows"
      /\ call.answer = "none" /\ call.repositories # {}
      /\ call.limit \in Int /\ call.pages \in Nat /\ call.token \in Nat
      /\ call.seen \subseteq Nat /\ IsFiniteSet(call.seen)
      /\ call.snapshot \subseteq Items /\ call.items \subseteq call.snapshot
      /\ call.pages <= TektonMaxPages /\ Cardinality(call.items) <= MaxItems
  BY <1>1 DEF ReadRepository, TektonInv, TektonType, TektonWay, TektonListBounded
<1>4. /\ call.items = call.snapshot /\ ~Ambiguous(ParseRepository(call.snapshot))
      /\ call.repositories \cup call.read \cup call.failures \subseteq Asked(call)
      /\ call.source_truncated
           \/ call.repositories \cup call.read \cup call.failures = Asked(call)
      /\ call.repositories \cap call.read = {}
      /\ IsFiniteSet(call.workflows) /\ Cardinality(call.workflows) = call.documents
      /\ \A w \in call.workflows : \E s \in call.read : \E i, d \in Nat : w = <<s.repository, i, d>>
  BY <1>1, <1>3 DEF TektonInv, TektonCatalog
<1>5. Asked(call) \subseteq ParseRepository(call.snapshot) /\ Asked(call) \subseteq Items
  BY <1>3 DEF Asked, ParseRepository
<1>6. r \in call.repositories
  <2>1. call.repositories \subseteq Items
    BY <1>4, <1>5
  <2> QED
    BY <1>3, <2>1, NextIsThere
<1> HIDE DEF r
\* What either outcome leaves alone.
<1>7. ASSUME /\ DOMAIN call' = CallFields /\ call'.step = call.step /\ call'.op = call.op
             /\ call'.answer = call.answer /\ call'.query = call.query
             /\ call'.limit = call.limit /\ call'.pages = call.pages
             /\ call'.token = call.token /\ call'.seen = call.seen
             /\ call'.snapshot = call.snapshot /\ call'.items = call.items
             /\ call'.source_truncated = call.source_truncated
             /\ call'.repositories = call.repositories \ {r},
             call'.repositories \cup call'.read \cup call'.failures
               = call.repositories \cup call.read \cup call.failures,
             call'.repositories \cap call'.read = {},
             IsFiniteSet(call'.workflows) /\ Cardinality(call'.workflows) = call'.documents,
             \A w \in call'.workflows :
               \E s \in call'.read : \E i, d \in Nat : w = <<s.repository, i, d>>
      PROVE  TektonInv'
  <2>1. TektonType' /\ TektonListBounded'
    BY <1>3, <1>7 DEF TektonType, TektonListBounded
  <2>2. Asked(call') = Asked(call)
    BY <1>7 DEF Asked
  <2>3. TektonCatalog'
    BY <1>4, <1>7, <2>2 DEF TektonCatalog
  <2> QED
    BY <1>3, <1>7, <2>1, <2>3
       DEF TektonInv, TektonWay, TektonPages, TektonLogs, NewestAreListed,
           TasksOfTheRunRead, CatalogIsWhole, WorkflowsAccounted, LogsBounded
<1>8. CASE Set([rest EXCEPT !.failures = @ \cup {r}])
  <2>1. /\ DOMAIN call' = CallFields /\ call'.step = call.step /\ call'.op = call.op
        /\ call'.answer = call.answer /\ call'.query = call.query
        /\ call'.limit = call.limit /\ call'.pages = call.pages
        /\ call'.token = call.token /\ call'.seen = call.seen
        /\ call'.snapshot = call.snapshot /\ call'.items = call.items
        /\ call'.source_truncated = call.source_truncated
        /\ call'.repositories = call.repositories \ {r}
        /\ call'.read = call.read /\ call'.failures = call.failures \cup {r}
        /\ call'.workflows = call.workflows /\ call'.documents = call.documents
    BY <1>3, <1>8 DEF Set, CallFields
  <2>2. call'.repositories \cup call'.read \cup call'.failures
          = call.repositories \cup call.read \cup call.failures
    BY <1>6, <2>1
  <2>3. call'.repositories \cap call'.read = {}
    BY <1>4, <2>1
  <2> QED
    BY <1>4, <1>7, <2>1, <2>2, <2>3
<1>9. ASSUME NEW n \in 0..(MaxFiles + 1), NEW files \in [1..n -> Files],
             Set([rest EXCEPT !.read = @ \cup {r},
                    !.workflows = @ \cup ParseWorkflows(r.repository, files),
                    !.documents = @ + SumFunction([i \in 1..n |-> files[i].documents])])
      PROVE  TektonInv'
  <2> DEFINE f == [i \in 1..n |-> files[i].documents]
             names == ParseWorkflows(r.repository, files)
  <2>1. n \in Nat /\ Len(files) = n /\ f \in [1..n -> Nat]
    <3>1. \A i \in 1..n : files[i].documents \in Nat
      BY FilesAssumption
    <3> QED
      BY <3>1
  <2>2. names = Numbered(r.repository, n, f)
    <3>1. \A i \in 1..n : f[i] = files[i].documents
      OBVIOUS
    <3>2. ASSUME NEW w PROVE w \in names <=> w \in Numbered(r.repository, n, f)
      <4>1. w \in names
              <=> \E i \in 1..n : \E d \in 1..files[i].documents : w = <<r.repository, i, d>>
        BY <2>1 DEF ParseWorkflows, WorkflowId
      <4>2. w \in Numbered(r.repository, n, f)
              <=> \E i \in 1..n : \E d \in 1..f[i] : w = <<r.repository, i, d>>
        BY DEF Numbered
      <4> HIDE DEF f, names
      <4> QED BY <3>1, <4>1, <4>2
    <3> QED
      BY <3>2
  <2>3. /\ DOMAIN call' = CallFields /\ call'.step = call.step /\ call'.op = call.op
        /\ call'.answer = call.answer /\ call'.query = call.query
        /\ call'.limit = call.limit /\ call'.pages = call.pages
        /\ call'.token = call.token /\ call'.seen = call.seen
        /\ call'.snapshot = call.snapshot /\ call'.items = call.items
        /\ call'.source_truncated = call.source_truncated
        /\ call'.repositories = call.repositories \ {r}
        /\ call'.read = call.read \cup {r} /\ call'.failures = call.failures
        /\ call'.workflows = call.workflows \cup names
        /\ call'.documents = call.documents + SumFunction(f)
    <3> HIDE DEF f, names
    <3>1. Set([rest EXCEPT !.read = @ \cup {r}, !.workflows = @ \cup names,
                           !.documents = @ + SumFunction(f)])
      BY <1>9 DEF f, names
    <3> QED
      BY <1>3, <3>1 DEF Set, CallFields
  <2> HIDE DEF f, names
  <2>4. /\ IsFiniteSet(names) /\ Cardinality(names) = SumFunction(f) /\ SumFunction(f) \in Nat
    BY <2>1, <2>2, WorkflowsAreCounted
  <2>5. \A w \in names : \E i, d \in Nat : w = <<r.repository, i, d>>
    <3>1. ASSUME NEW w \in names PROVE \E i, d \in Nat : w = <<r.repository, i, d>>
      <4>1. PICK i \in 1..n : \E d \in 1..f[i] : w = <<r.repository, i, d>>
        BY <2>2 DEF Numbered
      <4>2. i \in Nat /\ \A d \in 1..f[i] : d \in Nat
        BY <2>1
      <4> QED
        BY <4>1, <4>2
    <3> QED
      BY <3>1
  <2>6. call.workflows \cap names = {}
    <3>1. ASSUME NEW w \in call.workflows, w \in names PROVE FALSE
      <4>1. PICK s \in call.read, i \in Nat, d \in Nat : w = <<s.repository, i, d>>
        BY <1>4
      <4>2. w[1] = s.repository
        BY <4>1
      <4>3. w[1] = r.repository
        BY <2>5, <3>1
      <4>4. s \in ParseRepository(call.snapshot) /\ r \in ParseRepository(call.snapshot)
        BY <1>4, <1>5, <1>6
      <4>5. s = r
        BY <1>4, <4>2, <4>3, <4>4 DEF Ambiguous
      <4> QED
        BY <1>4, <1>6, <4>5
    <3> QED
      BY <3>1
  <2>7. /\ IsFiniteSet(call.workflows \cup names)
        /\ Cardinality(call.workflows \cup names) = call.documents + SumFunction(f)
    <3>1. /\ IsFiniteSet(call.workflows \cup names)
          /\ Cardinality(call.workflows \cup names)
               = Cardinality(call.workflows) + Cardinality(names)
                   - Cardinality(call.workflows \cap names)
      BY <1>4, <2>4, FS_Union
    <3>2. Cardinality(call.workflows \cap names) = 0
      BY <2>6, FS_EmptySet
    <3>3. Cardinality(call.workflows) \in Nat /\ Cardinality(call.workflows) = call.documents
      BY <1>4, FS_CardinalityType
    <3> QED
      BY <2>4, <3>1, <3>2, <3>3
  <2>8. call'.repositories \cup call'.read \cup call'.failures
          = call.repositories \cup call.read \cup call.failures
    BY <1>6, <2>3
  <2>9. call'.repositories \cap call'.read = {}
    BY <1>4, <2>3
  <2>10. IsFiniteSet(call'.workflows) /\ Cardinality(call'.workflows) = call'.documents
    BY <2>3, <2>7
  <2>11. \A w \in call'.workflows :
           \E s \in call'.read : \E i, d \in Nat : w = <<s.repository, i, d>>
    BY <1>4, <2>3, <2>5
  <2> QED
    BY <1>7, <2>3, <2>8, <2>9, <2>10, <2>11
<1> QED
  BY <1>2, <1>8, <1>9

\* AnswerWorkflows keeps the invariant.
LEMMA AnswerWorkflowsKeeps == TektonInv /\ AnswerWorkflows => TektonInv'
<1>1. SUFFICES ASSUME TektonInv, AnswerWorkflows PROVE TektonInv'
  OBVIOUS
<1>2. /\ DOMAIN call = CallFields /\ call.step = "repository" /\ call.op = "workflows"
      /\ call.repositories = {}
      /\ call.limit \in Int /\ call.pages \in Nat /\ call.token \in Nat
      /\ call.seen \subseteq Nat /\ IsFiniteSet(call.seen)
      /\ call.snapshot \subseteq Items /\ call.items \subseteq call.snapshot
      /\ call.pages <= TektonMaxPages /\ Cardinality(call.items) <= MaxItems
  BY <1>1 DEF AnswerWorkflows, TektonInv, TektonType, TektonWay, TektonListBounded
<1>3. /\ call.items = call.snapshot /\ ~Ambiguous(ParseRepository(call.snapshot))
      /\ call.source_truncated \/ call.read \cup call.failures = Asked(call)
      /\ Cardinality(call.workflows) = call.documents
  BY <1>1, <1>2 DEF TektonInv, TektonCatalog
<1>4. /\ DOMAIN call' = CallFields /\ call'.step = "done" /\ call'.op = "workflows"
      /\ call'.answer = "workflows" /\ call'.query = call.query
      /\ call'.limit = call.limit /\ call'.pages = call.pages
      /\ call'.token = call.token /\ call'.seen = call.seen
      /\ call'.snapshot = call.snapshot /\ call'.items = call.items
      /\ call'.source_truncated = call.source_truncated
      /\ call'.read = call.read /\ call'.failures = call.failures
      /\ call'.workflows = call.workflows /\ call'.documents = call.documents
  BY <1>1, <1>2 DEF AnswerWorkflows, Set, Ended, CallFields
<1>5. TektonType' /\ TektonListBounded'
  BY <1>2, <1>4 DEF TektonType, TektonListBounded
<1>6. CatalogIsWhole'
  BY <1>3, <1>4 DEF CatalogIsWhole, Ambiguous
<1>7. WorkflowsAccounted'
  BY <1>3, <1>4 DEF WorkflowsAccounted, Asked
<1> QED
  BY <1>4, <1>5, <1>6, <1>7
     DEF TektonInv, TektonWay, TektonPages, TektonCatalog, TektonLogs, NewestAreListed,
         TasksOfTheRunRead, LogsBounded

\* ReadTask keeps the invariant.
LEMMA TektonReadTaskKeeps == TektonInv /\ ReadTask => TektonInv'
<1>1. SUFFICES ASSUME TektonInv, ReadTask PROVE TektonInv'
  OBVIOUS
<1>2. CASE call' = [call EXCEPT !.step = "done", !.answer = "not_found"]
  <2>1. KnownCall(call) /\ "not_found" \notin {"list", "workflows", "logs"}
    BY <1>1, CallIsKnown
  <2> QED
    BY <1>2, <2>1, TektonEndKeeps
<1>3. CASE call' = [call EXCEPT !.task = task.uid, !.step = "pod"]
  <2>1. /\ DOMAIN call = CallFields /\ call.answer = "none"
        /\ call.texts \in Seq(Texts) /\ Len(call.texts) = 0
    BY <1>1 DEF ReadTask, TektonInv, TektonType, TektonWay
  <2>2. /\ DOMAIN call' = CallFields /\ call'.step = "pod"
        /\ call'.answer = "none" /\ call'.texts = call.texts
        /\ call'.limit = call.limit /\ call'.pages = call.pages
        /\ call'.token = call.token /\ call'.seen = call.seen
        /\ call'.snapshot = call.snapshot /\ call'.items = call.items
    BY <1>3, <2>1 DEF CallFields
  <2>3. TektonType' /\ TektonListBounded'
    BY <1>1, <2>2 DEF TektonInv, TektonType, TektonListBounded
  <2>4. TektonWay'
    BY <2>1, <2>2 DEF TektonWay
  <2> QED
    BY <2>2, <2>3, <2>4
       DEF TektonInv, TektonPages, TektonCatalog, TektonLogs, NewestAreListed,
           TasksOfTheRunRead, CatalogIsWhole, WorkflowsAccounted, LogsBounded
<1> QED
  BY <1>1, <1>2, <1>3 DEF ReadTask, Set, Ended

\* TektonReadPod keeps the invariant.
LEMMA TektonReadPodKeeps == TektonInv /\ TektonReadPod => TektonInv'
<1>1. SUFFICES ASSUME TektonInv, TektonReadPod PROVE TektonInv'
  OBVIOUS
<1>2. CASE call' = [call EXCEPT !.step = "done", !.answer = "not_found"]
  <2>1. KnownCall(call) /\ "not_found" \notin {"list", "workflows", "logs"}
    BY <1>1, CallIsKnown
  <2> QED
    BY <1>2, <2>1, TektonEndKeeps
<1>3. ASSUME NEW n \in 1..MaxLog, NEW logs \in [1..n -> 0..MaxLog], NEW b \in Budgets,
             call' = [call EXCEPT !.step = "log", !.logs = SubSeq(logs, 1, Min({n, MaxSteps})),
                                  !.steps_omitted = n > MaxSteps, !.budget = b, !.remaining = b]
      PROVE  TektonInv'
  <2> DEFINE s == SubSeq(logs, 1, Min({n, MaxSteps}))
             sizes == [i \in 1..Len(call'.texts) |-> call'.texts[i].size]
  <2>1. /\ DOMAIN call = CallFields /\ call.answer = "none"
        /\ call.texts \in Seq(Texts) /\ Len(call.texts) = 0
    BY <1>1 DEF TektonReadPod, TektonInv, TektonType, TektonWay
  <2>2. s \in Seq(Nat)
    <3>1. Min({n, MaxSteps}) \in {n, MaxSteps} /\ n \in Nat /\ MaxSteps \in Nat
          /\ Min({n, MaxSteps}) <= n
      <4>1. n \in Nat /\ MaxSteps \in Nat
        BY LimitsAssumption
      <4>2. \A x, y \in Int : Min({x, y}) <= x /\ Min({x, y}) \in {x, y}
        BY MinOfTwo
      <4> QED
        BY <4>1, <4>2
    <3>2. logs \in Seq(Nat) /\ Len(logs) = n
      <4>1. logs \in [1..n -> Nat] /\ n \in Nat
        BY <3>1
      <4> QED
        BY <4>1
    <3> DEFINE m == Min({n, MaxSteps})
    <3>3. m \in 0..n
      BY <3>1
    <3> HIDE DEF m
    <3>4. SubSeq(logs, 1, m) \in Seq(Nat)
      BY <3>1, <3>2, <3>3
    <3> QED
      BY <3>4 DEF m
  <2> HIDE DEF s
  <2>3. call' = [call EXCEPT !.step = "log", !.logs = s, !.steps_omitted = n > MaxSteps,
                             !.budget = b, !.remaining = b]
    BY <1>3 DEF s
  <2>4. /\ DOMAIN call' = CallFields /\ call'.step = "log"
        /\ call'.answer = "none" /\ call'.texts = call.texts /\ call'.logs = s
        /\ call'.budget = b /\ call'.remaining = b
        /\ call'.limit = call.limit /\ call'.pages = call.pages
        /\ call'.token = call.token /\ call'.seen = call.seen
        /\ call'.snapshot = call.snapshot /\ call'.items = call.items
    BY <2>1, <2>3 DEF CallFields
  <2>5. TektonType' /\ TektonListBounded'
    BY <1>1, <2>4 DEF TektonInv, TektonType, TektonListBounded
  <2>6. TektonWay'
    BY <2>4 DEF TektonWay
  <2>7. TektonLogs'
    <3>1. b \in Nat
      BY LimitsAssumption
    <3>2. SumFunction(sizes) = 0
      <4>1. DOMAIN sizes = {}
        BY <2>1, <2>4
      <4> HIDE DEF sizes
      <4> QED BY <4>1, SumOfEmpty
    <3>3. SumFunction(sizes) + call'.remaining = call'.budget
      <4> HIDE DEF sizes
      <4> QED BY <2>4, <3>1, <3>2
    <3>4. Len(s) \in Nat
      BY <2>2
    <3>5. \A i \in 1..Len(call'.texts) :
            ~call'.texts[i].truncated => call'.texts[i].lines = call'.logs[i]
      BY <2>1, <2>4
    <3>6. call'.texts \in Seq(Texts) /\ Len(call'.texts) <= Len(call'.logs)
          /\ call'.logs \in Seq(Nat) /\ call'.budget \in Nat /\ call'.remaining \in Nat
      BY <2>1, <2>2, <2>4, <3>1, <3>4
    <3> QED
      BY <3>3, <3>5, <3>6 DEF TektonLogs
  <2> QED
    BY <2>4, <2>5, <2>6, <2>7
       DEF TektonInv, TektonPages, TektonCatalog, NewestAreListed, TasksOfTheRunRead,
           CatalogIsWhole, WorkflowsAccounted, LogsBounded
<1> QED
  BY <1>1, <1>2, <1>3 DEF TektonReadPod, Set, Ended

\* TektonReadLog keeps the invariant.
LEMMA TektonReadLogKeeps == TektonInv /\ TektonReadLog => TektonInv'
<1>1. SUFFICES ASSUME TektonInv, TektonReadLog PROVE TektonInv'
  OBVIOUS
<1> DEFINE n == Len(call.texts)
           lines == call.logs[n + 1]
<1>2. PICK growth \in {-1, 0, 1} :
        /\ growth # 0 => Min({lines, TailLines}) > 0
        /\ Set([call EXCEPT !.texts = Append(@, StepText(call.remaining, lines, growth)),
                            !.remaining = @ - StepText(call.remaining, lines, growth).size,
                            !.owners = @ \cup {tpod.owner}])
  BY <1>1 DEF TektonReadLog
<1> DEFINE text == StepText(call.remaining, lines, growth)
<1>3. /\ DOMAIN call = CallFields /\ call.answer = "none" /\ call.step = "log"
      /\ n < Len(call.logs) /\ call.remaining > 0
  BY <1>1 DEF TektonReadLog, TektonInv, TektonType, TektonWay
<1>4. /\ call.budget \in Nat /\ call.remaining \in Nat
      /\ call.logs \in Seq(Nat) /\ call.texts \in Seq(Texts)
      /\ SumFunction([i \in 1..n |-> call.texts[i].size]) + call.remaining = call.budget
      /\ \A i \in 1..n : ~call.texts[i].truncated => call.texts[i].lines = call.logs[i]
  BY <1>1, <1>3 DEF TektonInv, TektonLogs
<1>5. n \in Nat /\ lines \in Nat
  <2>1. n \in Nat /\ Len(call.logs) \in Nat
    BY <1>4
  <2>2. n + 1 \in 1..Len(call.logs)
    BY <1>3, <2>1
  <2> QED
    BY <1>4, <2>1, <2>2
<1>6. text \in Texts /\ text.size <= call.remaining /\ (~text.truncated => text.lines = lines)
  <2>1. call.remaining \in Nat \ {0}
    BY <1>3, <1>4
  <2> HIDE DEF lines
  <2> QED
    BY <1>2, <1>5, <2>1, StepTextFits
<1> HIDE DEF text
<1>7. text.size \in Nat
  BY <1>6 DEF Texts
<1>8. /\ DOMAIN call' = CallFields /\ call'.step = "log"
      /\ call'.answer = "none" /\ call'.texts = Append(call.texts, text)
      /\ call'.logs = call.logs
      /\ call'.budget = call.budget /\ call'.remaining = call.remaining - text.size
      /\ call'.limit = call.limit /\ call'.pages = call.pages
      /\ call'.token = call.token /\ call'.seen = call.seen
      /\ call'.snapshot = call.snapshot /\ call'.items = call.items
  <2>1. call' = [call EXCEPT !.texts = Append(@, text), !.remaining = @ - text.size,
                             !.owners = @ \cup {tpod.owner}]
    BY <1>2 DEF Set, text
  <2> QED
    BY <1>3, <2>1 DEF CallFields
<1>9. TektonType' /\ TektonListBounded'
  BY <1>1, <1>3, <1>8 DEF TektonInv, TektonType, TektonListBounded
<1>10. TektonWay'
  BY <1>8 DEF TektonWay
<1>11. /\ Append(call.texts, text) \in Seq(Texts) /\ Len(Append(call.texts, text)) = n + 1
       /\ \A i \in 1..n : Append(call.texts, text)[i] = call.texts[i]
       /\ Append(call.texts, text)[n + 1] = text
  BY <1>4, <1>5, <1>6
<1>12. TektonLogs'
  <2> DEFINE f == [i \in 1..n |-> call.texts[i].size]
             g == [i \in 1..(n + 1) |-> Append(call.texts, text)[i].size]
  <2>1. \A i \in 1..n : call.texts[i].size \in Nat
    <3>1. \A i \in 1..n : call.texts[i] \in Texts
      BY <1>4, <1>5
    <3> QED
      BY <3>1 DEF Texts
  <2>2. /\ DOMAIN f = 1..n /\ DOMAIN g = 1..(n + 1)
        /\ \A i \in 1..n : f[i] = g[i]
        /\ g[n + 1] = text.size
    BY <1>5, <1>11
  <2>3. \A i \in 1..(n + 1) : g[i] \in Int
    <3>1. \A i \in 1..(n + 1) : i \in 1..n \/ i = n + 1
      BY <1>5
    <3>2. \A i \in 1..n : g[i] \in Int
      BY <1>11, <1>5, <2>1
    <3>3. g[n + 1] \in Int
      BY <1>7, <2>2
    <3> HIDE DEF g
    <3> QED BY <3>1, <3>2, <3>3
  <2>4. SumFunction(g) = SumFunction(f) + text.size /\ SumFunction(f) \in Int
    <3> HIDE DEF f, g, n
    <3>1. SumFunction(g) = SumFunction(f) + g[n + 1] /\ SumFunction(f) \in Int
      BY <1>5, <2>2, <2>3, SumGrows
    <3> QED BY <2>2, <3>1
  <2>5. SumFunction([i \in 1..Len(call'.texts) |-> call'.texts[i].size]) = SumFunction(g)
    BY <1>8, <1>11
  <2>6. SumFunction(g) + call'.remaining = call'.budget
    <3>1. SumFunction(f) + call.remaining = call.budget
      BY <1>4
    <3> HIDE DEF f, g
    <3> QED BY <1>4, <1>7, <1>8, <2>4, <3>1
  <2>7. call'.budget \in Nat /\ call'.remaining \in Nat
    BY <1>4, <1>6, <1>7, <1>8
  <2>8. Len(call'.texts) <= Len(call'.logs)
    <3>1. Len(call.logs) \in Nat
      BY <1>4
    <3> QED
      BY <1>3, <1>5, <1>8, <1>11, <3>1
  <2>9. \A i \in 1..Len(call'.texts) :
          ~call'.texts[i].truncated => call'.texts[i].lines = call'.logs[i]
    <3>1. \A i \in 1..(n + 1) : i \in 1..n \/ i = n + 1
      BY <1>5
    <3> QED
      BY <1>4, <1>6, <1>8, <1>11, <3>1
  <2> HIDE DEF f, g
  <2> QED
    BY <1>4, <1>8, <1>11, <2>5, <2>6, <2>7, <2>8, <2>9 DEF TektonLogs
<1> QED
  BY <1>8, <1>9, <1>10, <1>12
     DEF TektonInv, TektonPages, TektonCatalog, NewestAreListed, TasksOfTheRunRead,
         CatalogIsWhole, WorkflowsAccounted, LogsBounded

\* AnswerLogs keeps the invariant.
LEMMA AnswerLogsKeeps == TektonInv /\ AnswerLogs => TektonInv'
<1>1. SUFFICES ASSUME TektonInv, AnswerLogs PROVE TektonInv'
  OBVIOUS
<1>2. /\ DOMAIN call = CallFields /\ call.step = "log"
      /\ Len(call.texts) = Len(call.logs) \/ call.remaining = 0
  BY <1>1 DEF AnswerLogs, TektonInv, TektonType
<1>3. /\ call.budget \in Nat /\ call.remaining \in Nat
      /\ call.texts \in Seq(Texts) /\ call.logs \in Seq(Nat)
      /\ SumFunction([i \in 1..Len(call.texts) |-> call.texts[i].size]) + call.remaining
           = call.budget
      /\ \A i \in 1..Len(call.texts) :
           ~call.texts[i].truncated => call.texts[i].lines = call.logs[i]
  BY <1>1, <1>2 DEF TektonInv, TektonLogs
<1>4. SumFunction([i \in 1..Len(call.texts) |-> call.texts[i].size]) \in Nat
  <2> DEFINE f == [i \in 1..Len(call.texts) |-> call.texts[i].size]
  <2>1. \A i \in 1..Len(call.texts) : call.texts[i].size \in Nat
    <3>1. \A i \in 1..Len(call.texts) : call.texts[i] \in Texts
      BY <1>3
    <3> QED
      BY <3>1 DEF Texts
  <2>2. IsFiniteSet(DOMAIN f) /\ \A i \in DOMAIN f : f[i] \in Nat
    <3>1. IsFiniteSet(1..Len(call.texts))
      <4>1. Len(call.texts) \in Int
        BY <1>3
      <4> QED
        BY <4>1, FS_Interval
    <3> QED
      BY <2>1, <3>1
  <2> HIDE DEF f
  <2>3. SumFunctionOnSet(f, DOMAIN f) \in Nat
    BY <2>2, SumOfNaturals
  <2>4. SumFunction(f) \in Nat
    BY <2>3 DEF SumFunction
  <2> QED
    BY <2>4 DEF f
<1>5. /\ DOMAIN call' = CallFields /\ call'.step = "done" /\ call'.answer = "logs"
      /\ call'.texts = call.texts /\ call'.logs = call.logs /\ call'.budget = call.budget
      /\ call'.limit = call.limit /\ call'.pages = call.pages
      /\ call'.token = call.token /\ call'.seen = call.seen
      /\ call'.snapshot = call.snapshot /\ call'.items = call.items
      /\ call'.result_truncated
           = (\/ call.steps_omitted \/ call.remaining = 0
              \/ \E i \in 1..Len(call.texts) : call.texts[i].truncated)
  BY <1>1, <1>2 DEF AnswerLogs, Set, Ended, CallFields
<1>6. TektonType' /\ TektonListBounded'
  BY <1>1, <1>2, <1>5 DEF TektonInv, TektonType, TektonListBounded
<1>7. LogsBounded'
  <2>1. SumFunction([i \in 1..Len(call'.texts) |-> call'.texts[i].size]) <= call'.budget
    <3>1. SumFunction([i \in 1..Len(call.texts) |-> call.texts[i].size]) <= call.budget
      BY <1>3, <1>4
    <3> QED
      BY <1>5, <3>1
  <2>2. ASSUME ~call'.result_truncated
        PROVE  /\ Len(call'.texts) = Len(call'.logs)
               /\ \A i \in 1..Len(call'.logs) : call'.texts[i].lines = call'.logs[i]
    BY <1>2, <1>3, <1>5, <2>2
  <2> QED
    BY <2>1, <2>2 DEF LogsBounded
<1> QED
  BY <1>5, <1>6, <1>7
     DEF TektonInv, TektonWay, TektonPages, TektonCatalog, TektonLogs, NewestAreListed,
         TasksOfTheRunRead, CatalogIsWhole, WorkflowsAccounted

\* A change of the cluster leaves what was read.
LEMMA TektonSameCall == TektonInv /\ UNCHANGED call => TektonInv'
  BY DEF TektonInv, TektonType, TektonWay, TektonPages, Selected, TektonCatalog, TektonLogs,
         TektonListBounded, NewestAreListed, Matching, OwnedBy, TasksOfTheRunRead,
         CatalogIsWhole, WorkflowsAccounted, LogsBounded

\* The steps that end a call without a result.
LEMMA TektonEnds ==
  ASSUME TektonRefuseInput \/ TektonRequestFails \/ WorkflowsTimeOut
  PROVE  \E e : /\ e \notin {"list", "workflows", "logs"}
                /\ call' = [call EXCEPT !.step = "done", !.answer = e]
<1>1. CASE TektonRefuseInput
  BY <1>1 DEF TektonRefuseInput, Set, Ended
<1>2. CASE TektonRequestFails
  BY <1>2 DEF TektonRequestFails, ReadErrors, Set, Ended
<1>3. CASE WorkflowsTimeOut
  BY <1>3 DEF WorkflowsTimeOut, Set, Ended
<1> QED
  BY <1>1, <1>2, <1>3

\* Every step of a Tekton call, or of the cluster, keeps the invariant.
LEMMA TektonStep == TektonInv /\ [TektonNext]_tektonVars => TektonInv'
<1>1. SUFFICES ASSUME TektonInv, [TektonNext]_tektonVars PROVE TektonInv'
  OBVIOUS
<1>2. CASE UNCHANGED tektonVars \/ Replace
  <2>1. UNCHANGED call
    BY <1>2 DEF tektonVars, Replace
  <2> QED
    BY <1>1, <2>1, TektonSameCall
<1>3. CASE TektonRefuseInput \/ TektonRequestFails \/ WorkflowsTimeOut
  <2>1. PICK e : /\ e \notin {"list", "workflows", "logs"}
                 /\ call' = [call EXCEPT !.step = "done", !.answer = e]
    BY <1>3, TektonEnds
  <2>2. KnownCall(call)
    BY <1>1, CallIsKnown
  <2> QED
    BY <2>1, <2>2, TektonEndKeeps
<1>4. CASE Begin \/ ReadRun \/ TektonReadPage
  BY <1>1, <1>4, TektonBeginKeeps, TektonReadRunKeeps, TektonReadPageKeeps
<1>5. CASE ReadRepository \/ AnswerWorkflows
  BY <1>1, <1>5, ReadRepositoryKeeps, AnswerWorkflowsKeeps
<1>6. CASE ReadTask \/ TektonReadPod \/ TektonReadLog \/ AnswerLogs
  BY <1>1, <1>6, TektonReadTaskKeeps, TektonReadPodKeeps, TektonReadLogKeeps, AnswerLogsKeeps
<1> QED
  BY <1>1, <1>2, <1>3, <1>4, <1>5, <1>6 DEF TektonNext, TektonClientStep
-----------------------------------------------------------------------------
(***************************************************************************)
(* The three together.                                                     *)
(***************************************************************************)

\* In every reachable state of a Tekton call the pages, the catalog and the texts add up
\* to what was asked for, whatever the cluster holds and the server hands out
\* (client.rs:245-289, 386-487, 562-677, 826-868).
THEOREM TektonCallsAreSound == TektonSpec => []TektonInv
<1>1. TektonInit => TektonInv
  BY TektonInitHolds
<1>2. TektonInv /\ [TektonNext]_tektonVars => TektonInv'
  BY TektonStep
<1> QED
  BY <1>1, <1>2, PTL DEF TektonSpec

RequestsInv == OpInv /\ KubeInv /\ TektonInv

\* The three parts together, as the run composes them.
LEMMA RequestsInvariant == MCSpec => []RequestsInv
<1>1. MCInit => RequestsInv
  BY OpInitHolds, KubeInitHolds, TektonInitHolds DEF MCInit, RequestsInv
<1>2. RequestsInv /\ [MCNext]_mcVars => RequestsInv'
  <2>1. [MCNext]_mcVars => [OpNext]_opVars /\ [KubeNext]_kubeVars /\ [TektonNext]_tektonVars
    BY DEF MCNext, mcVars
  <2> QED
    BY <2>1, OpStep, KubeStep, TektonStep DEF RequestsInv
<1> QED
  BY <1>1, <1>2, PTL DEF MCSpec

\* The Ceph dashboard is sent a mutation only as the caller confirmed it, and a mutation is
\* reported as accepted only with the task that carries it out (ceph/client.rs:253-457).
THEOREM MutationsAreConfirmed == MCSpec => []ConfirmedAndAccepted
<1>1. RequestsInv => ConfirmedAndAccepted
  BY DEF RequestsInv, OpInv, ConfirmedAndAccepted
<1> QED
  BY <1>1, RequestsInvariant, PTL

\* Logs, resources, capabilities, OSDs and tasks are those that were asked for, although
\* each is read by a name that may have been given to another object in the meantime.
THEOREM AnswersAreWhatWasAsked == MCSpec => []OnlyWhatWasAsked
<1>1. RequestsInv => OnlyWhatWasAsked
  BY DEF RequestsInv, OpInv, KubeInv, TektonInv, OnlyWhatWasAsked
<1> QED
  BY <1>1, RequestsInvariant, PTL

\* Lists read in pages hold the objects of one snapshot, or say that they do not; the
\* newest come first; no list outgrows its limits, whatever the server hands out.
THEOREM PagesAreAccounted == MCSpec => []PagesAccounted
<1>1. RequestsInv => PagesAccounted
  BY DEF RequestsInv, OpInv, KubeInv, TektonInv, PagesAccounted
<1> QED
  BY <1>1, RequestsInvariant, PTL

\* Every repository asked for is read, reported as failed or cut; every workflow document
\* has an identity of its own; the texts of a task's steps stay within max_bytes and a
\* missing line is admitted (tekton/client.rs:211-243, 444-487, 562-677, 1077-1145).
THEOREM CatalogIsAccounted == MCSpec => []CatalogAccounted
<1>1. RequestsInv => CatalogAccounted
  BY DEF RequestsInv, TektonInv, CatalogAccounted
<1> QED
  BY <1>1, RequestsInvariant, PTL
==============================================================================
