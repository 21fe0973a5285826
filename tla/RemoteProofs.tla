---------------------------- MODULE RemoteProofs ----------------------------
(***************************************************************************)
(* What holds of the audio of others for every set of speakers, both       *)
(* limits and every bound.  First the order of priority is shown to be     *)
(* total and the admission, one stream after the other, to follow the      *)
(* rule the property states; then the types and the decisions of the       *)
(* client are kept by every step; then an invariant over the room, the     *)
(* callbacks on their way, the publications and what each thread still     *)
(* has to tell shows that playback settles as it was decided.              *)
(***************************************************************************)
EXTENDS RemoteAudio, FiniteSetTheorems, WellFoundedInduction, TLAPS

Streams == [scope : RemoteScopes, who : Talkers, order : Nat, admitted : BOOLEAN,
            gain : 0..FullVolume]

\* Finitely many streams, no two of the same order: what the client keeps.
Ranked(S) ==
    /\ S \subseteq Streams /\ IsFiniteSet(S)
    /\ \A s, t \in S : s.order = t.order => s = t

\* A set of natural numbers that is not empty has a least element.
LEMMA LeastExists ==
    ASSUME NEW T \in SUBSET Nat, T # {}
    PROVE  \E x \in T : \A y \in T : x <= y
<1>1. PICK x \in T : \A y \in T : ~(<<y, x>> \in OpToRel(<, Nat))
  BY NatLessThanWellFounded, WFMin
<1>2. ASSUME NEW y \in T PROVE x <= y
  <2>1. x \in Nat /\ y \in Nat
    OBVIOUS
  <2>2. ~(y < x)
    BY <1>1, <2>1 DEF OpToRel
  <2>3. QED
    BY <2>1, <2>2
<1> QED
  BY <1>2

\* The three scopes have three priorities.
LEMMA PriorityType ==
    ASSUME NEW a \in RemoteScopes, NEW b \in RemoteScopes
    PROVE  Priority(a) \in 1..3 /\ (Priority(a) = Priority(b) => a = b)
BY RemoteAssumption DEF Priority

\* Before puts such a set in a strict total order.
LEMMA BeforeIsOrder ==
    ASSUME NEW S, Ranked(S)
    PROVE  /\ \A s \in S : ~Before(s, s)
           /\ \A s, t, u \in S : Before(s, t) /\ Before(t, u) => Before(s, u)
           /\ \A s, t \in S : s # t => Before(s, t) \/ Before(t, s)
<1>1. ASSUME NEW s \in S PROVE s.scope \in RemoteScopes /\ s.order \in Nat
  BY DEF Ranked, Streams
<1>2. ASSUME NEW s \in S PROVE ~Before(s, s)
  BY <1>1, PriorityType DEF Before
<1>3. ASSUME NEW s \in S, NEW t \in S, NEW u \in S, Before(s, t), Before(t, u)
      PROVE  Before(s, u)
  <2>1. /\ Priority(s.scope) \in 1..3 /\ Priority(t.scope) \in 1..3 /\ Priority(u.scope) \in 1..3
    BY <1>1, PriorityType
  <2> QED
    BY <1>1, <1>3, <2>1 DEF Before
<1>4. ASSUME NEW s \in S, NEW t \in S, s # t PROVE Before(s, t) \/ Before(t, s)
  <2>1. Priority(s.scope) \in 1..3 /\ Priority(t.scope) \in 1..3
    BY <1>1, PriorityType
  <2>2. Priority(s.scope) = Priority(t.scope) => s.scope = t.scope
    BY <1>1, PriorityType
  <2>3. s.order # t.order
    BY <1>4 DEF Ranked
  <2> QED
    BY <1>1, <2>1, <2>2, <2>3 DEF Before
<1> QED
  BY <1>2, <1>3, <1>4

Earlier(S, x) == {u \in S : Before(u, x)}
Rank(S, x) == Cardinality(Earlier(S, x)) + 1

LEMMA RankType ==
    ASSUME NEW S, Ranked(S), NEW x \in S
    PROVE  Rank(S, x) \in 1..Cardinality(S)
<1>1. IsFiniteSet(S)
  BY DEF Ranked
<1>2. Earlier(S, x) \in SUBSET S /\ x \notin Earlier(S, x)
  BY BeforeIsOrder DEF Earlier
<1>3. /\ IsFiniteSet(Earlier(S, x))
      /\ Cardinality(Earlier(S, x)) <= Cardinality(S)
      /\ Cardinality(S) # Cardinality(Earlier(S, x))
  BY <1>1, <1>2, FS_Subset
<1>4. Cardinality(S) \in Nat /\ Cardinality(Earlier(S, x)) \in Nat
  BY <1>1, <1>3, FS_CardinalityType
<1> QED
  BY <1>3, <1>4 DEF Rank

LEMMA RankGrows ==
    ASSUME NEW S, Ranked(S), NEW x \in S, NEW y \in S, Before(x, y)
    PROVE  Rank(S, x) < Rank(S, y)
<1>1. IsFiniteSet(S)
  BY DEF Ranked
<1>2. Earlier(S, x) \in SUBSET Earlier(S, y)
  BY BeforeIsOrder DEF Earlier
<1>3. x \in Earlier(S, y) /\ x \notin Earlier(S, x)
  BY BeforeIsOrder DEF Earlier
<1>4. Earlier(S, y) \in SUBSET S
  BY DEF Earlier
<1>5. IsFiniteSet(Earlier(S, y))
  BY <1>1, <1>4, FS_Subset
<1>6. /\ IsFiniteSet(Earlier(S, x))
      /\ Cardinality(Earlier(S, x)) <= Cardinality(Earlier(S, y))
      /\ Cardinality(Earlier(S, y)) # Cardinality(Earlier(S, x))
  BY <1>2, <1>3, <1>5, FS_Subset
<1>7. Cardinality(Earlier(S, x)) \in Nat /\ Cardinality(Earlier(S, y)) \in Nat
  BY <1>5, <1>6, FS_CardinalityType
<1> QED
  BY <1>6, <1>7 DEF Rank

InRankOrder(f) == \A i, j \in DOMAIN f : i < j => Before(f[i], f[j])

\* Such a set can be put in order.
LEMMA OrderExists ==
    ASSUME NEW S, Ranked(S)
    PROVE  \E f \in [1..Cardinality(S) -> S] : InRankOrder(f)
<1> DEFINE n == Cardinality(S)
           r == [x \in S |-> Rank(S, x)]
           f == [i \in 1..n |-> CHOOSE x \in S : r[x] = i]
<1>1. IsFiniteSet(S) /\ n \in Nat
  BY FS_CardinalityType DEF Ranked
<1>2. r \in [S -> 1..n]
  BY RankType
<1>3. \A x, y \in S : r[x] = r[y] => x = y
  <2>1. SUFFICES ASSUME NEW x \in S, NEW y \in S, r[x] = r[y], x # y PROVE FALSE
    OBVIOUS
  <2>2. Rank(S, x) = Rank(S, y) /\ Rank(S, x) \in Nat
    BY <2>1, <1>2, <1>1
  <2>3. Before(x, y) \/ Before(y, x)
    BY <2>1, BeforeIsOrder
  <2> QED
    BY <2>2, <2>3, RankGrows
<1>4. IsFiniteSet(1..n) /\ Cardinality(1..n) = n
  <2>1. 1 \in Int /\ n \in Int
    BY <1>1
  <2> HIDE DEF n
  <2>2. IsFiniteSet(1..n) /\ Cardinality(1..n) = IF 1 > n THEN 0 ELSE n - 1 + 1
    BY <2>1, FS_Interval
  <2> QED
    BY <2>2, <1>1
<1>5. r \in Injection(S, 1..n)
  BY <1>2, <1>3 DEF Injection, IsInjective
<1>6. r \in Surjection(S, 1..n)
  BY <1>4, <1>5, FS_Injection
<1>7. \A i \in 1..n : \E x \in S : r[x] = i
  BY <1>6 DEF Surjection
<1>8. f \in [1..n -> S] /\ \A i \in 1..n : r[f[i]] = i
  BY <1>7
<1> HIDE DEF f
<1>9. ASSUME NEW i \in 1..n, NEW j \in 1..n, i < j PROVE Before(f[i], f[j])
  <2>1. f[i] \in S /\ f[j] \in S /\ Rank(S, f[i]) = i /\ Rank(S, f[j]) = j
    BY <1>8
  <2>2. f[i] # f[j]
    BY <2>1, <1>9, <1>1
  <2>3. ~Before(f[j], f[i])
    <3>1. SUFFICES ASSUME Before(f[j], f[i]) PROVE FALSE
      OBVIOUS
    <3>2. j < i
      BY <2>1, <3>1, RankGrows
    <3> QED
      BY <3>2, <1>9, <1>1
  <2> QED
    BY <2>1, <2>2, <2>3, BeforeIsOrder
<1> QED
  BY <1>8, <1>9 DEF InRankOrder

\* Ordered lists every stream once, in the order of priority.
LEMMA OrderedLists ==
    ASSUME NEW S, Ranked(S)
    PROVE  /\ Cardinality(S) \in Nat
           /\ Ordered(S) \in [1..Cardinality(S) -> S]
           /\ \A i, j \in 1..Cardinality(S) : i < j => Before(Ordered(S)[i], Ordered(S)[j])
           /\ \A i, j \in 1..Cardinality(S) : Before(Ordered(S)[i], Ordered(S)[j]) => i < j
           /\ \A x \in S : \E i \in 1..Cardinality(S) : Ordered(S)[i] = x
           /\ Len(Ordered(S)) = Cardinality(S)
           /\ Ordered(S) \in Seq(S)
<1> DEFINE n == Cardinality(S)
           o == Ordered(S)
<1>1. IsFiniteSet(S) /\ n \in Nat
  BY FS_CardinalityType DEF Ranked
<1>2. o \in [1..n -> S] /\ InRankOrder(o)
  BY OrderExists DEF Ordered, InRankOrder
<1>3. \A i, j \in 1..n : i < j => Before(o[i], o[j])
  BY <1>2 DEF InRankOrder
<1> HIDE DEF o
<1>4. \A i, j \in 1..n : Before(o[i], o[j]) => i < j
  <2>1. SUFFICES ASSUME NEW i \in 1..n, NEW j \in 1..n, Before(o[i], o[j]), ~(i < j) PROVE FALSE
    OBVIOUS
  <2>2. o[i] \in S /\ o[j] \in S
    BY <1>2
  <2>3. i = j \/ j < i
    BY <2>1, <1>1
  <2>4. i # j
    BY <2>1, <2>2, BeforeIsOrder
  <2>5. Before(o[j], o[i])
    BY <2>3, <2>4, <1>3
  <2> QED
    BY <2>1, <2>2, <2>5, BeforeIsOrder
<1>5. \A i, j \in 1..n : o[i] = o[j] => i = j
  <2>1. SUFFICES ASSUME NEW i \in 1..n, NEW j \in 1..n, o[i] = o[j], i # j PROVE FALSE
    OBVIOUS
  <2>2. o[i] \in S
    BY <1>2
  <2>3. i < j \/ j < i
    BY <2>1, <1>1
  <2>4. Before(o[i], o[j]) \/ Before(o[j], o[i])
    BY <2>3, <1>3
  <2> QED
    BY <2>1, <2>2, <2>4, BeforeIsOrder
<1>6. o \in Surjection(1..n, S)
  <2>1. o \in Injection(1..n, S)
    BY <1>2, <1>5 DEF Injection, IsInjective
  <2>2. Cardinality(1..n) = Cardinality(S)
    <3>1. 1 \in Int /\ n \in Int
      BY <1>1
    <3>2. n = Cardinality(S)
      OBVIOUS
    <3> HIDE DEF n
    <3>3. Cardinality(1..n) = IF 1 > n THEN 0 ELSE n - 1 + 1
      BY <3>1, FS_Interval
    <3> QED
      BY <3>2, <3>3, <1>1
  <2> QED
    BY <2>1, <2>2, <1>1, FS_Injection
<1>7. \A x \in S : \E i \in 1..n : o[i] = x
  BY <1>6 DEF Surjection
<1>8. Len(o) = n /\ o \in Seq(S)
  <2> HIDE DEF n
  <2> QED
    BY <1>1, <1>2
<1> QED
  BY <1>1, <1>2, <1>3, <1>4, <1>7, <1>8 DEF o
-----------------------------------------------------------------------------
(* Admission, one stream after the other. *)

\* What one stream adds to the ones admitted before it.
Admit(in, s, quiet) == IF s.who \notin quiet /\ Fits(in, s) THEN in \cup {s} ELSE in

AdmitsUpTo(g, o, quiet, n) ==
    g = [i \in 0..n |-> IF i = 0 THEN {} ELSE Admit(g[i - 1], o[i], quiet)]

LEMMA TraceExists ==
    ASSUME NEW o, NEW quiet, NEW n \in Nat
    PROVE  \E g : AdmitsUpTo(g, o, quiet, n)
<1> DEFINE Bad == {k \in Nat : ~\E g : AdmitsUpTo(g, o, quiet, k)}
<1>1. SUFFICES ASSUME Bad # {} PROVE FALSE
  OBVIOUS
<1>2. PICK k \in Bad : \A j \in Bad : k <= j
  <2>1. Bad \in SUBSET Nat
    OBVIOUS
  <2> HIDE DEF Bad
  <2> QED
    BY <1>1, <2>1, LeastExists
<1>3. CASE k = 0
  <2> DEFINE g == [i \in 0..0 |-> {}]
  <2>1. AdmitsUpTo(g, o, quiet, 0)
    BY DEF AdmitsUpTo
  <2> QED
    BY <1>2, <1>3, <2>1
<1>4. CASE k # 0
  <2>1. k - 1 \in Nat /\ k - 1 \notin Bad
    BY <1>2, <1>4
  <2>2. PICK g : AdmitsUpTo(g, o, quiet, k - 1)
    BY <2>1
  <2> DEFINE h == [i \in 0..k |-> IF i = k THEN Admit(g[k - 1], o[k], quiet) ELSE g[i]]
  <2>3. \A i \in 0..(k - 1) : g[i] = IF i = 0 THEN {} ELSE Admit(g[i - 1], o[i], quiet)
    BY <2>2 DEF AdmitsUpTo
  <2>4. \A i \in 0..(k - 1) : h[i] = g[i]
    BY <2>1
  <2>5. ASSUME NEW i \in 0..k
        PROVE  h[i] = IF i = 0 THEN {} ELSE Admit(h[i - 1], o[i], quiet)
    <3>1. CASE i = k
      <4>1. h[k] = Admit(g[k - 1], o[k], quiet) /\ h[k - 1] = g[k - 1]
        BY <2>1, <2>4
      <4> QED
        BY <4>1, <3>1, <1>4
    <3>2. CASE i = 0
      BY <3>2, <2>3, <2>4, <2>1
    <3>3. CASE i # k /\ i # 0
      <4>1. i \in 0..(k - 1) /\ i - 1 \in 0..(k - 1)
        BY <2>1, <3>3
      <4>2. h[i] = g[i] /\ h[i - 1] = g[i - 1]
        BY <4>1, <2>4
      <4> QED
        BY <4>1, <4>2, <2>3, <3>3
    <3> QED
      BY <3>1, <3>2, <3>3
  <2>6. AdmitsUpTo(h, o, quiet, k)
    <3>1. h = [i \in 0..k |-> h[i]]
      OBVIOUS
    <3> HIDE DEF h
    <3> QED
      BY <3>1, <2>5 DEF AdmitsUpTo
  <2> QED
    BY <2>6, <1>2
<1> QED
  BY <1>3, <1>4

\* The recursion that the model writes is well defined.
LEMMA AdmissionsStep ==
    ASSUME NEW o, NEW quiet, Len(o) \in Nat
    PROVE  AdmitsUpTo(Admissions(o, quiet), o, quiet, Len(o))
<1>1. PICK g : AdmitsUpTo(g, o, quiet, Len(o))
  BY TraceExists
<1> QED
  BY <1>1 DEF Admissions, AdmitsUpTo, Admit

\* What a set of streams admitted in one decision has to satisfy.
AdmissionRule(S, quiet, A) ==
    /\ A \subseteq S
    /\ \A s \in A : s.who \notin quiet
    /\ Cardinality(A) <= MaxStreams
    /\ \A scope : Cardinality(InScope(A, scope)) <= MaxPerScope
    /\ \A s \in S \ A :
         \/ s.who \in quiet
         \/ Cardinality({u \in InScope(A, s.scope) : Before(u, s)}) = MaxPerScope
         \/ Cardinality({u \in A : Before(u, s)}) = MaxStreams

Limits(A) ==
    /\ IsFiniteSet(A)
    /\ Cardinality(A) <= MaxStreams
    /\ \A scope : Cardinality(InScope(A, scope)) <= MaxPerScope

LEMMA AdmitLimits ==
    ASSUME NEW A, NEW s, NEW quiet, Limits(A)
    PROVE  Limits(Admit(A, s, quiet))
<1>1. CASE ~(s.who \notin quiet /\ Fits(A, s))
  BY <1>1 DEF Admit
<1>2. CASE s.who \notin quiet /\ Fits(A, s)
  <2> DEFINE B == A \cup {s}
  <2>1. Admit(A, s, quiet) = B
    BY <1>2 DEF Admit
  <2>2. /\ IsFiniteSet(A) /\ Cardinality(A) \in Nat
        /\ IsFiniteSet(B)
        /\ Cardinality(B) = IF s \in A THEN Cardinality(A) ELSE Cardinality(A) + 1
    BY FS_AddElement, FS_CardinalityType DEF Limits
  <2>3. Cardinality(B) <= MaxStreams
    BY <1>2, <2>2, RemoteAssumption DEF Fits
  <2>4. ASSUME NEW scope PROVE Cardinality(InScope(B, scope)) <= MaxPerScope
    <3> DEFINE I == InScope(A, scope)
    <3>1. I \in SUBSET A
      BY DEF InScope
    <3>2. IsFiniteSet(I) /\ Cardinality(I) \in Nat
      BY <2>2, <3>1, FS_Subset, FS_CardinalityType
    <3>3. Cardinality(I) <= MaxPerScope
      BY DEF Limits
    <3>4. CASE s.scope # scope
      <4>1. InScope(B, scope) = I
        BY <3>4 DEF InScope
      <4> QED
        BY <4>1, <3>3
    <3>5. CASE s.scope = scope
      <4>1. InScope(B, scope) = I \cup {s}
        BY <3>5 DEF InScope
      <4>2. Cardinality(I) < MaxPerScope
        BY <1>2, <3>5 DEF Fits
      <4> HIDE DEF I
      <4>3. Cardinality(I \cup {s}) = IF s \in I THEN Cardinality(I) ELSE Cardinality(I) + 1
        BY <3>2, FS_AddElement
      <4> QED
        BY <4>1, <4>2, <4>3, <3>2, RemoteAssumption
    <3> QED
      BY <3>4, <3>5
  <2> QED
    BY <2>1, <2>2, <2>3, <2>4 DEF Limits
<1> QED
  BY <1>1, <1>2

\* A decision admits by priority.
LEMMA AdmissionIsByRule ==
    ASSUME NEW S, Ranked(S), NEW quiet
    PROVE  AdmissionRule(S, quiet, AdmittedOf(S, quiet))
<1> DEFINE n == Cardinality(S)
           o == Ordered(S)
           a == Admissions(o, quiet)
<1>1. /\ n \in Nat /\ o \in [1..n -> S] /\ Len(o) = n
      /\ \A i, j \in 1..n : i < j => Before(o[i], o[j])
      /\ \A i, j \in 1..n : Before(o[i], o[j]) => i < j
      /\ \A x \in S : \E i \in 1..n : o[i] = x
  BY OrderedLists
<1>2. AdmitsUpTo(a, o, quiet, n)
  BY <1>1, AdmissionsStep
<1>3. AdmittedOf(S, quiet) = a[n]
  BY DEF AdmittedOf
<1> HIDE DEF n, o, a
<1>4. a[0] = {} /\ \A i \in 1..n : a[i] = Admit(a[i - 1], o[i], quiet)
  <2>1. \A i \in 0..n : a[i] = IF i = 0 THEN {} ELSE Admit(a[i - 1], o[i], quiet)
    BY <1>2 DEF AdmitsUpTo
  <2>2. 0 \in 0..n /\ \A i \in 1..n : i \in 0..n /\ i # 0
    BY <1>1
  <2> QED
    BY <2>1, <2>2
<1>5. \A i, j \in 1..n : o[i] = o[j] => i = j
  <2>1. SUFFICES ASSUME NEW i \in 1..n, NEW j \in 1..n, o[i] = o[j], i # j PROVE FALSE
    OBVIOUS
  <2>2. i < j \/ j < i
    BY <2>1, <1>1
  <2>3. Before(o[i], o[i])
    BY <1>1, <2>1, <2>2
  <2> QED
    BY <2>3, <1>1, BeforeIsOrder
\* Every stage holds some of the streams so far, none of them silenced, within the limits.
<1> DEFINE Good(i) == /\ Limits(a[i])
                      /\ \A s \in a[i] : s.who \notin quiet /\ \E k \in 1..i : s = o[k]
<1>6. \A i \in 0..n : Good(i)
  <2> DEFINE Bad == {i \in 0..n : ~Good(i)}
  <2>1. SUFFICES ASSUME Bad # {} PROVE FALSE
    OBVIOUS
  <2>2. PICK i \in Bad : \A j \in Bad : i <= j
    <3>1. Bad \in SUBSET Nat
      BY <1>1
    <3> HIDE DEF Bad
    <3> QED
      BY <2>1, <3>1, LeastExists
  <2>3. i # 0
    <3>1. Limits({})
      <4>1. IsFiniteSet({}) /\ Cardinality({}) = 0
        BY FS_EmptySet
      <4>2. \A scope : InScope({}, scope) = {}
        BY DEF InScope
      <4> QED
        BY <4>1, <4>2, RemoteAssumption DEF Limits
    <3> QED
      BY <3>1, <2>2, <1>4
  <2>4. i \in 1..n /\ i - 1 \in 0..n /\ i - 1 \notin Bad
    BY <2>2, <2>3, <1>1
  <2>5. Good(i - 1)
    BY <2>4
  <2>6. a[i] = Admit(a[i - 1], o[i], quiet)
    BY <2>4, <1>4
  <2>7. Limits(a[i])
    BY <2>5, <2>6, AdmitLimits
  <2>8. ASSUME NEW s \in a[i] PROVE s.who \notin quiet /\ \E k \in 1..i : s = o[k]
    <3>1. CASE s \in a[i - 1]
      <4>1. 1..(i - 1) \subseteq 1..i
        BY <2>4, <1>1
      <4> QED
        BY <3>1, <4>1, <2>5
    <3>2. CASE s \notin a[i - 1]
      <4>1. s = o[i] /\ s.who \notin quiet
        BY <3>2, <2>6, <2>8 DEF Admit
      <4>2. i \in 1..i
        BY <2>4, <1>1
      <4> QED
        BY <4>1, <4>2
    <3> QED
      BY <3>1, <3>2
  <2> QED
    BY <2>2, <2>7, <2>8
\* A stage is what the last one holds of the streams so far.
<1> DEFINE First(i) == {o[k] : k \in 1..i}
<1>7. \A i \in 0..n : a[i] = a[n] \cap First(i)
  <2>1. SUFFICES ASSUME NEW i \in 0..n PROVE a[i] = a[n] \cap First(i)
    OBVIOUS
  <2> DEFINE Same(j) == a[i] = a[j] \cap First(i)
             Bad == {j \in i..n : ~Same(j)}
  <2>2. SUFFICES ASSUME Bad # {} PROVE FALSE
    BY <1>1
  <2>3. PICK j \in Bad : \A k \in Bad : j <= k
    <3>1. Bad \in SUBSET Nat
      BY <1>1
    <3> HIDE DEF Bad
    <3> QED
      BY <2>2, <3>1, LeastExists
  <2>4. j # i
    <3>1. a[i] = a[i] \cap First(i)
      BY <1>6
    <3> QED
      BY <3>1, <2>3
  <2>5. j \in 1..n /\ j - 1 \in i..n /\ j - 1 \notin Bad
    BY <2>3, <2>4, <1>1
  <2>6. a[i] = a[j - 1] \cap First(i)
    BY <2>5
  <2>7. a[j] = a[j - 1] \/ a[j] = a[j - 1] \cup {o[j]}
    BY <2>5, <1>4 DEF Admit
  <2>8. o[j] \notin First(i)
    <3>1. SUFFICES ASSUME NEW k \in 1..i, o[k] = o[j] PROVE FALSE
      OBVIOUS
    <3>2. k \in 1..n /\ k # j
      BY <2>5, <1>1
    <3> QED
      BY <3>1, <3>2, <2>5, <1>5
  <2> HIDE DEF First
  <2>9. a[i] = a[j] \cap First(i)
    BY <2>6, <2>7, <2>8
  <2> QED
    BY <2>3, <2>9
<1> DEFINE A == a[n]
<1>8. A \subseteq S /\ (\A s \in A : s.who \notin quiet) /\ Limits(A)
  <2>1. Good(n)
    BY <1>6, <1>1
  <2> QED
    BY <2>1, <1>1
<1>9. ASSUME NEW s \in S \ A, s.who \notin quiet
      PROVE  \/ Cardinality({u \in InScope(A, s.scope) : Before(u, s)}) = MaxPerScope
             \/ Cardinality({u \in A : Before(u, s)}) = MaxStreams
  <2>1. PICK i \in 1..n : o[i] = s
    BY <1>1
  <2>2. i - 1 \in 0..n /\ i \in 0..n /\ i \in 1..i
    BY <1>1
  <2>3. s \in First(i)
    BY <2>1, <2>2
  <2>4. s \notin a[i]
    BY <2>2, <2>3, <1>7
  <2>5. ~Fits(a[i - 1], s)
    BY <2>1, <2>4, <1>4, <1>9 DEF Admit
  <2>6. a[i - 1] = {u \in A : Before(u, s)}
    <3>1. ASSUME NEW u \in A PROVE u \in First(i - 1) <=> Before(u, s)
      <4>1. PICK k \in 1..n : o[k] = u
        BY <1>8, <1>1
      <4>2. Before(u, s) <=> k < i
        BY <4>1, <2>1, <1>1
      <4>3. (k < i) <=> (k \in 1..(i - 1))
        BY <1>1
      <4>4. ASSUME NEW m \in 1..(i - 1), o[m] = u PROVE k \in 1..(i - 1)
        <5>1. m \in 1..n
          BY <1>1
        <5> QED
          BY <5>1, <4>1, <4>4, <1>5
      <4> QED
        BY <4>1, <4>2, <4>3, <4>4
    <3>2. a[i - 1] = A \cap First(i - 1)
      BY <2>2, <1>7
    <3> HIDE DEF A, First
    <3> QED
      BY <3>1, <3>2
  <2>7. InScope(a[i - 1], s.scope) = {u \in InScope(A, s.scope) : Before(u, s)}
    BY <2>6 DEF InScope
  <2> DEFINE B == a[i - 1]
  <2>8. Limits(B)
    BY <2>2, <1>6
  <2>9. InScope(B, s.scope) \in SUBSET B
    BY DEF InScope
  <2> HIDE DEF B
  <2>10. Cardinality(B) \in Nat /\ Cardinality(InScope(B, s.scope)) \in Nat
    BY <2>8, <2>9, FS_Subset, FS_CardinalityType DEF Limits
  <2>11. Cardinality(B) = MaxStreams \/ Cardinality(InScope(B, s.scope)) = MaxPerScope
    <3>1. ~Fits(B, s)
      BY <2>5 DEF B
    <3>2. Cardinality(B) <= MaxStreams /\ Cardinality(InScope(B, s.scope)) <= MaxPerScope
      BY <2>8 DEF Limits
    <3> QED
      BY <3>1, <3>2, <2>10, RemoteAssumption DEF Fits
  <2> QED
    BY <2>6, <2>7, <2>11 DEF B
<1> QED
  BY <1>3, <1>8, <1>9 DEF AdmissionRule, Limits
-----------------------------------------------------------------------------
(* What the client decides. *)

SameStream(s, t) == s.scope = t.scope /\ s.who = t.who /\ s.order = t.order

LEMMA SameCount ==
    ASSUME NEW T, IsFiniteSet(T), NEW d, \A x, y \in T : d[x] = d[y] => x = y
    PROVE  Cardinality({d[x] : x \in T}) = Cardinality(T) /\ IsFiniteSet({d[x] : x \in T})
<1> DEFINE I == {d[x] : x \in T}
           f == [x \in T |-> d[x]]
<1>1. f \in [T -> I] /\ \A x, y \in T : f[x] = f[y] => x = y
  OBVIOUS
<1>2. \A y \in I : \E x \in T : f[x] = y
  OBVIOUS
<1>3. f \in Bijection(T, I)
  BY <1>1, <1>2 DEF Bijection, Injection, Surjection, IsInjective
<1> HIDE DEF f, I
<1>4. ExistsBijection(T, I)
  BY <1>3 DEF ExistsBijection
<1>5. Cardinality(I) = Cardinality(T) /\ IsFiniteSet(I)
  BY <1>4, FS_Bijection
<1> QED
  BY <1>5 DEF I

LEMMA BeforeSame ==
    ASSUME NEW s, NEW t, NEW u, NEW v, SameStream(s, u), SameStream(t, v)
    PROVE  Before(s, t) <=> Before(u, v)
BY DEF SameStream, Before

LEMMA GainType ==
    ASSUME NEW s \in Streams, NEW in, NEW vol \in [Talkers -> 0..FullVolume]
    PROVE  GainOf(s, in, vol) \in 0..FullVolume /\ (s \notin in => GainOf(s, in, vol) = 0)
<1>1. vol[s.who] \in 0..FullVolume
  BY DEF Streams
<1>2. \A m \in 0..4 : \A d \in {1, 2} : (m * d) \div 4 \in 0..4
  OBVIOUS
<1>3. \A over : Duck(s.scope, over) \in {1, 2}
  BY DEF Duck
<1>4. \A over : (vol[s.who] * Duck(s.scope, over)) \div FullVolume \in 0..FullVolume
  BY <1>1, <1>2, <1>3 DEF FullVolume
<1>5. 0 \in 0..FullVolume
  BY DEF FullVolume
<1> QED
  BY <1>1, <1>4, <1>5 DEF GainOf

\* AdmissionByPriority, of any set of streams.
ByPriority(S, quiet) ==
    LET in == {s \in S : s.admitted}
    IN  /\ \A s \in in : s.who \notin quiet
        /\ Cardinality(in) <= MaxStreams
        /\ \A scope \in RemoteScopes : Cardinality(InScope(in, scope)) <= MaxPerScope
        /\ \A s \in S \ in :
             \/ s.who \in quiet
             \/ Cardinality({u \in InScope(in, s.scope) : Before(u, s)}) = MaxPerScope
             \/ Cardinality({u \in in : Before(u, s)}) = MaxStreams

\* A set that differs in nothing but what is decided.
LEMMA Mapped ==
    ASSUME NEW S, Ranked(S), NEW d, DOMAIN d = S,
           \A s \in S : d[s] \in Streams /\ SameStream(s, d[s])
    PROVE  Ranked({d[s] : s \in S}) /\ \A s, t \in S : d[s] = d[t] => s = t
<1>1. \A s, t \in S : d[s].order = d[t].order => s = t
  BY DEF Ranked, SameStream
<1>2. \A s, t \in S : d[s] = d[t] => s = t
  BY <1>1
<1>3. IsFiniteSet({d[s] : s \in S})
  BY <1>2, SameCount DEF Ranked
<1>4. {d[s] : s \in S} \subseteq Streams
  OBVIOUS
<1> QED
  BY <1>1, <1>2, <1>3, <1>4 DEF Ranked

LEMMA RuleMapped ==
    ASSUME NEW S, Ranked(S), NEW d, DOMAIN d = S, NEW A, NEW quiet,
           AdmissionRule(S, quiet, A),
           \A s \in S : d[s] \in Streams /\ SameStream(s, d[s]) /\ d[s].admitted = (s \in A)
    PROVE  ByPriority({d[s] : s \in S}, quiet)
<1> DEFINE D == {d[s] : s \in S}
           in == {s \in D : s.admitted}
<1>1. \A s, t \in S : d[s] = d[t] => s = t
  BY Mapped
<1>2. A \subseteq S /\ IsFiniteSet(S)
  BY DEF AdmissionRule, Ranked
<1>3. ASSUME NEW T, T \subseteq A
      PROVE  Cardinality({d[s] : s \in T}) = Cardinality(T)
  <2>1. IsFiniteSet(T)
    BY <1>2, <1>3, FS_Subset
  <2>2. \A x, y \in T : d[x] = d[y] => x = y
    BY <1>1, <1>2, <1>3
  <2> QED
    BY <2>1, <2>2, SameCount
<1>4. in = {d[s] : s \in A}
  BY <1>2
<1>5. ASSUME NEW scope PROVE InScope(in, scope) = {d[s] : s \in InScope(A, scope)}
  BY <1>2, <1>4 DEF InScope, SameStream
<1>6. ASSUME NEW s \in S PROVE {u \in in : Before(u, d[s])} = {d[u] : u \in {v \in A : Before(v, s)}}
  <2>1. \A u \in A : Before(d[u], d[s]) <=> Before(u, s)
    BY <1>2, BeforeSame
  <2> HIDE DEF in
  <2> QED
    BY <2>1, <1>4
<1>7. ASSUME NEW s \in S
      PROVE  {u \in InScope(in, s.scope) : Before(u, d[s])}
               = {d[u] : u \in {v \in InScope(A, s.scope) : Before(v, s)}}
  <2> DEFINE J == InScope(A, s.scope)
  <2>1. J \subseteq A
    BY DEF InScope
  <2> HIDE DEF J
  <2>2. \A u \in J : Before(d[u], d[s]) <=> Before(u, s)
    BY <1>2, <2>1, BeforeSame
  <2>3. InScope(in, s.scope) = {d[u] : u \in J}
    BY <1>5 DEF J
  <2>4. {u \in InScope(in, s.scope) : Before(u, d[s])} = {d[u] : u \in {v \in J : Before(v, s)}}
    BY <2>2, <2>3
  <2> QED
    BY <2>4 DEF J
<1>8. \A s \in in : s.who \notin quiet
  BY <1>4, <1>2 DEF AdmissionRule, SameStream
<1>9. Cardinality(in) <= MaxStreams
  BY <1>4, <1>3 DEF AdmissionRule
<1>10. ASSUME NEW scope \in RemoteScopes PROVE Cardinality(InScope(in, scope)) <= MaxPerScope
  <2>1. InScope(A, scope) \subseteq A
    BY DEF InScope
  <2> HIDE DEF in
  <2> QED
    BY <2>1, <1>5, <1>3 DEF AdmissionRule
<1>11. ASSUME NEW t \in D \ in
       PROVE  \/ t.who \in quiet
              \/ Cardinality({u \in InScope(in, t.scope) : Before(u, t)}) = MaxPerScope
              \/ Cardinality({u \in in : Before(u, t)}) = MaxStreams
  <2>1. PICK s \in S : t = d[s]
    OBVIOUS
  <2>2. s \notin A /\ s.who = t.who /\ s.scope = t.scope
    BY <2>1, <1>11 DEF SameStream
  <2>3. CASE s.who \in quiet
    BY <2>2, <2>3
  <2>4. CASE Cardinality({u \in InScope(A, s.scope) : Before(u, s)}) = MaxPerScope
    <3> DEFINE T == {u \in InScope(A, s.scope) : Before(u, s)}
    <3>1. T \subseteq A
      BY DEF InScope
    <3>2. {u \in InScope(in, t.scope) : Before(u, t)} = {d[u] : u \in T}
      BY <2>1, <2>2, <1>7
    <3> HIDE DEF T
    <3>3. Cardinality({d[u] : u \in T}) = Cardinality(T)
      BY <3>1, <1>3
    <3> QED
      BY <3>2, <3>3, <2>4 DEF T
  <2>5. CASE Cardinality({u \in A : Before(u, s)}) = MaxStreams
    <3> DEFINE T == {u \in A : Before(u, s)}
    <3>1. T \subseteq A
      OBVIOUS
    <3>2. {u \in in : Before(u, t)} = {d[u] : u \in T}
      BY <2>1, <2>2, <1>6
    <3> HIDE DEF T
    <3>3. Cardinality({d[u] : u \in T}) = Cardinality(T)
      BY <3>1, <1>3
    <3> QED
      BY <3>2, <3>3, <2>5 DEF T
  <2> QED
    BY <2>2, <2>3, <2>4, <2>5 DEF AdmissionRule
<1> HIDE DEF in, D
<1>12. in = {s \in D : s.admitted}
  BY DEF in
<1>13. ByPriority(D, quiet)
  BY <1>8, <1>9, <1>10, <1>11, <1>12 DEF ByPriority
<1> QED
  BY <1>13 DEF D

\* What a decision makes of the streams: the same streams, admitted by priority,
\* and silent where they are not admitted.
LEMMA DecidedFacts ==
    ASSUME NEW avail, Ranked(avail), NEW quiet, NEW vol \in [Talkers -> 0..FullVolume]
    PROVE  /\ Ranked(Decided(avail, quiet, vol))
           /\ ByPriority(Decided(avail, quiet, vol), quiet)
           /\ \A s \in Decided(avail, quiet, vol) : ~s.admitted => s.gain = 0
           /\ \A s \in Decided(avail, quiet, vol) : \E t \in avail : SameStream(s, t)
           /\ \A s \in avail : \E t \in Decided(avail, quiet, vol) : SameStream(s, t)
<1> DEFINE p == [s \in avail |-> [s EXCEPT !.admitted = FALSE, !.gain = 0]]
           plain == {p[s] : s \in avail}
           in == AdmittedOf(plain, quiet)
           d == [s \in plain |-> [s EXCEPT !.admitted = s \in in, !.gain = GainOf(s, in, vol)]]
           D == {d[s] : s \in plain}
<1>1. D = Decided(avail, quiet, vol)
  <2>1. plain = {[s EXCEPT !.admitted = FALSE, !.gain = 0] : s \in avail}
    OBVIOUS
  <2>2. D = {[s EXCEPT !.admitted = s \in in, !.gain = GainOf(s, in, vol)] : s \in plain}
    OBVIOUS
  <2> HIDE DEF D, plain
  <2> QED
    BY <2>1, <2>2 DEF Decided
<1>2. DOMAIN p = avail /\ \A s \in avail : p[s] \in Streams /\ SameStream(s, p[s])
  <2>1. \A s \in avail : s \in Streams
    BY DEF Ranked
  <2>2. 0 \in 0..FullVolume
    BY DEF FullVolume
  <2> QED
    BY <2>1, <2>2 DEF Streams, SameStream
<1> HIDE DEF p
<1>3. Ranked(plain)
  BY <1>2, Mapped
<1> HIDE DEF in
<1>4. AdmissionRule(plain, quiet, in)
  <2> HIDE DEF plain
  <2> QED
    BY <1>3, AdmissionIsByRule DEF in
<1>5. ASSUME NEW s \in plain
      PROVE  /\ d[s] \in Streams /\ SameStream(s, d[s]) /\ d[s].admitted = (s \in in)
             /\ d[s].gain = GainOf(s, in, vol)
             /\ ~d[s].admitted => d[s].gain = 0
  <2>1. s \in Streams
    BY <1>3 DEF Ranked
  <2>2. GainOf(s, in, vol) \in 0..FullVolume /\ (s \notin in => GainOf(s, in, vol) = 0)
    BY <2>1, GainType
  <2>3. d[s] = [s EXCEPT !.admitted = s \in in, !.gain = GainOf(s, in, vol)]
    OBVIOUS
  <2> HIDE DEF d
  <2>4. PICK b \in BOOLEAN : b = (s \in in)
    <3>1. (s \in in) \in BOOLEAN
      OBVIOUS
    <3> QED
      BY <3>1, Zenon
  <2>5. PICK m \in 0..FullVolume : m = GainOf(s, in, vol) /\ (~b => m = 0)
    BY <2>2, <2>4
  <2>6. d[s] = [s EXCEPT !.admitted = b, !.gain = m]
    BY <2>3, <2>4, <2>5
  <2>7. d[s] \in Streams /\ SameStream(s, d[s]) /\ d[s].admitted = b /\ d[s].gain = m
    BY <2>1, <2>6 DEF Streams, SameStream
  <2> QED
    BY <2>4, <2>5, <2>7
<1>6. DOMAIN d = plain
  OBVIOUS
<1> HIDE DEF d, plain
<1>7. Ranked(D) /\ ByPriority(D, quiet)
  BY <1>3, <1>4, <1>5, <1>6, Mapped, RuleMapped
<1>8. \A s \in D : ~s.admitted => s.gain = 0
  BY <1>5
<1>9. \A s \in D : \E t \in avail : SameStream(s, t)
  BY <1>2, <1>5 DEF plain, SameStream
<1>10. \A s \in avail : \E t \in D : SameStream(s, t)
  <2>1. SUFFICES ASSUME NEW s \in avail PROVE \E t \in D : SameStream(s, t)
    OBVIOUS
  <2>2. p[s] \in plain
    BY DEF plain
  <2> QED
    BY <2>2, <1>2, <1>5 DEF SameStream
<1> QED
  BY <1>1, <1>7, <1>8, <1>9, <1>10
-----------------------------------------------------------------------------
(* Types, and what the client keeps. *)

TrackEvents ==
    [kind : {"published", "subscribed", "unsubscribed", "unpublished", "left"}, track : Tracks]
LinkEvents == [kind : {"reconnecting", "reconnected"}, track : {NoTrack}]
InHand == {Idle} \cup TrackEvents \cup LinkEvents
          \cup [kind : {"settle", "start", "withdraw"}, track : Tracks]
Publications == [track : Tracks, admitted : BOOLEAN, gain : 0..FullVolume, playing : BOOLEAN]
Calls == [id : 1..MaxPublications, on : BOOLEAN]

RoomShape ==
    /\ room \subseteq Tracks /\ IsFiniteSet(room) /\ tracks \subseteq Tracks
    /\ published \in 0..MaxPublications /\ settings \in Nat
    /\ subscribed \subseteq 1..MaxPublications
    /\ rooms \in {"disconnected", "connected", "reconnecting"}
    /\ subscribing \in [Threads -> {NoTrack} \cup Calls]
    /\ failed \subseteq 1..MaxPublications /\ backend \in BOOLEAN
QueueShape ==
    /\ callbacks \in Seq(TrackEvents \cup LinkEvents)
    /\ handling \in InHand
PublicationShape ==
    /\ DOMAIN publications \subseteq RemoteScopes \X Talkers
    /\ \A k \in DOMAIN publications :
         publications[k] \in Publications /\ Key(publications[k].track) = k
    /\ ~backend => \A k \in DOMAIN publications : ~publications[k].admitted /\ publications[k].gain = 0
ClientShape ==
    /\ orders \in Nat /\ raced \in BOOLEAN
    /\ silenced \subseteq Talkers /\ volumes \in [Talkers -> 0..FullVolume]
    /\ telling \in [Threads -> Seq(Streams)]

StreamKey(s) == <<s.scope, s.who>>

\* The streams of the client: one per scope and participant, each with an order
\* of its own, and silent where it is not admitted.
Kept(S, limit) ==
    /\ Ranked(S)
    /\ \A s \in S : s.order < limit
    /\ \A s, t \in S : StreamKey(s) = StreamKey(t) => s = t
StreamsOK ==
    /\ Kept(streams, orders)
    /\ \A s \in streams : ~s.admitted => s.gain = 0
    /\ ByPriority(streams, silenced)

RemoteShape == RoomShape /\ QueueShape /\ PublicationShape /\ ClientShape /\ StreamsOK

\* What a decision leaves: the streams it was given, decided, and a thread that
\* has all of them to tell.
Decision(t, avail, quiet) ==
    /\ Ranked(streams') /\ ByPriority(streams', quiet)
    /\ \A s \in streams' : ~s.admitted => s.gain = 0
    /\ \A s \in streams' : \E u \in avail : SameStream(s, u)
    /\ \A s \in avail : \E u \in streams' : SameStream(s, u)
    /\ telling' \in [Threads -> Seq(Streams)]
    /\ telling'[t] \in Seq(streams')
    /\ \A s \in streams' : \E i \in DOMAIN telling'[t] : telling'[t][i] = s
    /\ \A u \in Threads \ {t} : telling'[u] = telling[u]
    /\ raced' = (raced \/ \E u \in Threads \ {t} : ~Resting(u))

LEMMA RecomputeDecides ==
    ASSUME ClientShape, NEW t \in Threads, NEW avail, Ranked(avail), NEW quiet,
           NEW vol \in [Talkers -> 0..FullVolume], Recompute(t, avail, quiet, vol)
    PROVE  Decision(t, avail, quiet)
<1>1. streams' = Decided(avail, quiet, vol)
  BY DEF Recompute
<1>2. /\ Ranked(streams') /\ ByPriority(streams', quiet)
      /\ \A s \in streams' : ~s.admitted => s.gain = 0
      /\ \A s \in streams' : \E u \in avail : SameStream(s, u)
      /\ \A s \in avail : \E u \in streams' : SameStream(s, u)
  BY <1>1, DecidedFacts
<1>3. PICK o : o = Ordered(streams')
  OBVIOUS
<1>4. o \in Seq(streams') /\ \A s \in streams' : \E i \in DOMAIN o : o[i] = s
  <2>1. PICK S : S = streams'
    OBVIOUS
  <2>2. Ranked(S) /\ o = Ordered(S)
    BY <2>1, <1>2, <1>3
  <2>3. Ordered(S) \in Seq(S) /\ \A s \in S : \E i \in DOMAIN Ordered(S) : Ordered(S)[i] = s
    BY <2>2, OrderedLists
  <2> QED
    BY <2>1, <2>2, <2>3
<1>5. telling' = [telling EXCEPT ![t] = o]
  BY <1>3 DEF Recompute
<1>6. streams' \subseteq Streams
  BY <1>2 DEF Ranked
<1>7. o \in Seq(Streams)
  BY <1>4, <1>6
<1>8. /\ telling' \in [Threads -> Seq(Streams)] /\ telling'[t] = o
      /\ \A u \in Threads \ {t} : telling'[u] = telling[u]
  BY <1>5, <1>7 DEF ClientShape
<1>9. raced' = (raced \/ \E u \in Threads \ {t} : ~Resting(u))
  BY DEF Recompute
<1> QED
  BY <1>2, <1>4, <1>8, <1>9 DEF Decision

\* A decision about streams that are kept leaves streams that are kept.
LEMMA DecisionKeeps ==
    ASSUME NEW t \in Threads, NEW avail, NEW limit \in Nat, Kept(avail, limit), NEW quiet,
           Decision(t, avail, quiet)
    PROVE  /\ Kept(streams', limit)
           /\ \A s \in streams' : ~s.admitted => s.gain = 0
           /\ ByPriority(streams', quiet)
<1>1. \A s \in streams' : s.order < limit
  BY DEF Decision, Kept, SameStream
<1>2. ASSUME NEW s \in streams', NEW u \in streams', StreamKey(s) = StreamKey(u) PROVE s = u
  <2>1. PICK v \in avail : SameStream(s, v)
    BY DEF Decision
  <2>2. PICK w \in avail : SameStream(u, w)
    BY DEF Decision
  <2>3. v = w
    BY <1>2, <2>1, <2>2 DEF Kept, SameStream, StreamKey
  <2> QED
    BY <2>1, <2>2, <2>3 DEF Decision, Ranked, SameStream
<1> QED
  BY <1>1, <1>2 DEF Decision, Kept

\* Fewer streams are kept too, and so is one more that is new.
LEMMA KeptFewer ==
    ASSUME NEW S, NEW T, NEW limit, Kept(S, limit), T \subseteq S
    PROVE  Kept(T, limit)
<1>1. IsFiniteSet(T)
  BY FS_Subset DEF Kept, Ranked
<1> QED
  BY <1>1 DEF Kept, Ranked

LEMMA KeptMore ==
    ASSUME NEW S, NEW n \in Nat, Kept(S, n), NEW x \in Streams, x.order = n,
           \A s \in S : StreamKey(s) # StreamKey(x)
    PROVE  Kept(S \cup {x}, n + 1)
<1>1. IsFiniteSet(S \cup {x})
  BY FS_AddElement DEF Kept, Ranked
<1>2. \A s \in S : s.order < n /\ s.order \in Nat
  BY DEF Kept, Ranked, Streams
<1>3. \A s \in S \cup {x} : s.order < n + 1
  BY <1>2
<1>4. \A s, t \in S \cup {x} : s.order = t.order => s = t
  BY <1>2 DEF Kept, Ranked
<1>5. S \cup {x} \subseteq Streams
  BY DEF Kept, Ranked
<1>6. \A s, t \in S \cup {x} : StreamKey(s) = StreamKey(t) => s = t
  BY DEF Kept
<1> QED
  BY <1>1, <1>3, <1>4, <1>5, <1>6 DEF Kept, Ranked

LEMMA EmptyIsOK ==
    ASSUME NEW limit, NEW quiet
    PROVE  Kept({}, limit) /\ ByPriority({}, quiet)
<1>1. IsFiniteSet({}) /\ Cardinality({}) = 0
  BY FS_EmptySet
<1>2. {s \in {} : s.admitted} = {} /\ \A scope : InScope({}, scope) = {}
  BY DEF InScope
<1> QED
  BY <1>1, <1>2, RemoteAssumption DEF Kept, Ranked, ByPriority

Named == {"published", "subscribed", "unsubscribed", "unpublished", "left",
          "settle", "start", "withdraw"}

\* The event in hand is about a track, except for the two of the connection.
LEMMA InHandTrack ==
    ASSUME QueueShape, handling.kind \in Named
    PROVE  handling.track \in Tracks /\ handling = [kind |-> handling.kind, track |-> handling.track]
<1>1. handling \in TrackEvents \cup [kind : {"settle", "start", "withdraw"}, track : Tracks]
  BY DEF QueueShape, InHand, Named, Idle, LinkEvents
<1> QED
  BY <1>1 DEF TrackEvents

LEMMA InitShape == RemoteInit => RemoteShape
<1> SUFFICES ASSUME RemoteInit PROVE RemoteShape
  OBVIOUS
<1> USE DEF RemoteInit
<1>1. RoomShape
  BY RemoteAssumption, FS_EmptySet DEF RoomShape
<1>2. QueueShape
  BY DEF QueueShape, InHand
<1>3. PublicationShape
  <2>1. DOMAIN publications = {}
    OBVIOUS
  <2> QED
    BY <2>1 DEF PublicationShape
<1>4. ClientShape
  <2>1. volumes \in [Talkers -> 0..FullVolume]
    BY DEF FullVolume
  <2>2. telling \in [Threads -> Seq(Streams)]
    OBVIOUS
  <2> QED
    BY <2>1, <2>2 DEF ClientShape
<1>5. StreamsOK
  BY EmptyIsOK DEF StreamsOK
<1> QED
  BY <1>1, <1>2, <1>3, <1>4, <1>5 DEF RemoteShape

LEMMA StepRoomShape ==
    ASSUME RemoteShape, [RemoteNext]_remoteVars
    PROVE  RoomShape'
<1> USE DEF RemoteShape, RoomShape, sdkVars, clientVars, tellVars
<1>1. ASSUME NEW s \in Speakers, Publish(s[1], s[2]) PROVE RoomShape'
  <2>1. s[1] \in RemoteScopes /\ s[2] \in Talkers
    BY DEF RemoteScopes, Talkers
  <2>2. published' \in 1..MaxPublications
    BY <1>1, RemoteAssumption DEF Publish
  <2>3. [id |-> published', scope |-> s[1], who |-> s[2]] \in Tracks
    BY <2>1, <2>2 DEF Tracks
  <2>4. IsFiniteSet(room')
    BY <1>1, FS_AddElement DEF Publish
  <2> QED
    BY <1>1, <2>2, <2>3, <2>4 DEF Publish
<1>2. ASSUME NEW x \in room, Withdraw(x) PROVE RoomShape'
  <2>1. IsFiniteSet(room')
    BY <1>2, FS_RemoveElement DEF Withdraw
  <2> QED
    BY <1>2, <2>1 DEF Withdraw
<1>3. CASE Resume
  BY <1>3 DEF Resume
<1>4. CASE Deliver
  BY <1>4 DEF Deliver
<1>5. CASE RemoteAudioAvailable
  BY <1>5 DEF RemoteAudioAvailable
<1>6. CASE Settle
  BY <1>6 DEF Settle
<1>7. CASE RemoteAudioStarted
  <2>1. handling.track \in Tracks
    BY <1>7, InHandTrack DEF RemoteAudioStarted, Named
  <2>2. tracks' \subseteq Tracks
    BY <1>7, <2>1 DEF RemoteAudioStarted
  <2>3. failed' \subseteq 1..MaxPublications
    BY <1>7, <2>1 DEF RemoteAudioStarted, Fails, Tracks
  <2> QED
    BY <1>7, <2>2, <2>3 DEF RemoteAudioStarted
<1>8. CASE RemoteAudioStopped
  BY <1>8 DEF RemoteAudioStopped, Stopped
<1>9. CASE RemoteAudioUnavailable
  BY <1>9 DEF RemoteAudioUnavailable
<1>10. CASE ParticipantDisconnected
  BY <1>10 DEF ParticipantDisconnected
<1>11. CASE ConnectionChanged
  BY <1>11 DEF ConnectionChanged
<1>12. ASSUME NEW t \in Threads, Apply(t) PROVE RoomShape'
  <2>1. telling[t] \in Seq(Streams) /\ telling[t] # <<>>
    BY <1>12 DEF Apply, ClientShape
  <2>2. Head(telling[t]) \in Streams
    BY <2>1
  <2> DEFINE c == Head(telling[t])
             key == <<c.scope, c.who>>
  <2>3. c.admitted \in BOOLEAN
    BY <2>2 DEF Streams
  <2>4. key \in DOMAIN publications => publications[key].track.id \in 1..MaxPublications
    BY DEF PublicationShape, Publications, Tracks
  <2>5. subscribing' \in [Threads -> {NoTrack} \cup Calls]
    <3>1. CASE key \in DOMAIN publications /\ (c.admitted => backend)
      <4>1. [id |-> publications[key].track.id, on |-> c.admitted] \in Calls
        BY <2>3, <2>4, <3>1 DEF Calls
      <4> QED
        BY <1>12, <3>1, <4>1 DEF Apply
    <3>2. CASE ~(key \in DOMAIN publications /\ (c.admitted => backend))
      BY <1>12, <3>2 DEF Apply
    <3> QED
      BY <3>1, <3>2
  <2>6. failed' \subseteq 1..MaxPublications
    <3>1. \/ failed' = failed
          \/ failed' = failed \cup {publications[k].track.id : k \in DOMAIN publications \cap {key}}
      BY <1>12 DEF Apply, Fails
    <3> QED
      BY <3>1, <2>4
  <2> QED
    BY <1>12, <2>5, <2>6 DEF Apply
<1>13. ASSUME NEW t \in Threads, Subscribe(t) PROVE RoomShape'
  <2>1. subscribing[t] \in Calls
    BY <1>13 DEF Subscribe
  <2>2. subscribing[t].id \in 1..MaxPublications
    BY <2>1 DEF Calls
  <2>3. subscribed' \subseteq 1..MaxPublications
    BY <1>13, <2>2 DEF Subscribe
  <2>4. subscribing' \in [Threads -> {NoTrack} \cup Calls]
    BY <1>13 DEF Subscribe
  <2>5. failed' \subseteq 1..MaxPublications
    BY <1>13, <2>2 DEF Subscribe, Fails
  <2> QED
    BY <1>13, <2>3, <2>4, <2>5 DEF Subscribe
<1>14. ASSUME NEW p \in Talkers, NEW on \in BOOLEAN, SetSilenced(p, on) PROVE RoomShape'
  BY <1>14 DEF SetSilenced
<1>15. ASSUME NEW p \in Talkers, NEW v \in {2, FullVolume}, SetVolume(p, v) PROVE RoomShape'
  BY <1>15 DEF SetVolume
<1>16. CASE SelectPlayoutDevice
  <2>1. {x.id : x \in room} \subseteq 1..MaxPublications
    BY DEF Tracks
  <2>2. subscribed' \subseteq 1..MaxPublications
    BY <1>16, <2>1 DEF SelectPlayoutDevice, ReconnectForPlayoutDevice
  <2>3. IsFiniteSet(room')
    BY <1>16, FS_EmptySet DEF SelectPlayoutDevice, ReconnectForPlayoutDevice
  <2> QED
    BY <1>16, <2>2, <2>3 DEF SelectPlayoutDevice, ReconnectForPlayoutDevice
<1>17. CASE UNCHANGED remoteVars
  BY <1>17 DEF remoteVars
<1> QED
  BY <1>1, <1>2, <1>3, <1>4, <1>5, <1>6, <1>7, <1>8, <1>9, <1>10, <1>11, <1>12, <1>13, <1>14,
     <1>15, <1>16, <1>17 DEF RemoteNext, CallbackStep

\* Tracks in any order are a queue of callbacks.
LEMMA AnyOrderQueue ==
    ASSUME NEW S, IsFiniteSet(S), S \subseteq Tracks, NEW order \in AnyOrder(S), NEW q,
           q = [i \in DOMAIN order |-> Event("subscribed", order[i])]
    PROVE  /\ q \in Seq(TrackEvents) /\ Len(q) = Cardinality(S) /\ Len(q) \in Nat
           /\ \A i \in 1..Len(q) : q[i] = Event("subscribed", order[i]) /\ order[i] \in S
           /\ \A x \in S : \E i \in 1..Len(q) : order[i] = x
           /\ \A i, j \in 1..Len(q) : order[i] = order[j] => i = j
<1> DEFINE n == Cardinality(S)
<1>1. n \in Nat
  BY FS_CardinalityType
<1>2. order \in [1..n -> S] /\ \A x \in S : \E i \in DOMAIN order : order[i] = x
  BY DEF AnyOrder
<1>3. order \in Injection(1..n, S)
  <2>1. order \in Surjection(1..n, S)
    BY <1>2 DEF Surjection
  <2>2. IsFiniteSet(1..n) /\ Cardinality(1..n) = n
    <3>1. 1 \in Int /\ n \in Int
      BY <1>1
    <3> HIDE DEF n
    <3>2. IsFiniteSet(1..n) /\ Cardinality(1..n) = IF 1 > n THEN 0 ELSE n - 1 + 1
      BY <3>1, FS_Interval
    <3> QED
      BY <3>2, <1>1
  <2> QED
    BY <2>1, <2>2, FS_SurjSameCardinalityImpliesInj
<1>4. \A i, j \in 1..n : order[i] = order[j] => i = j
  BY <1>2, <1>3 DEF Injection, IsInjective
<1>5. \A i \in 1..n : q[i] = Event("subscribed", order[i]) /\ order[i] \in S
  BY <1>2
<1>6. ASSUME NEW i \in 1..n PROVE q[i] \in TrackEvents
  <2>1. order[i] \in Tracks /\ q[i] = [kind |-> "subscribed", track |-> order[i]]
    BY <1>5 DEF Event
  <2> QED
    BY <2>1 DEF TrackEvents
<1>7. DOMAIN q = 1..n /\ q = [i \in 1..n |-> q[i]]
  BY <1>2
<1> HIDE DEF n
<1>8. q \in Seq(TrackEvents) /\ Len(q) = n
  BY <1>1, <1>6, <1>7
<1> QED
  BY <1>1, <1>2, <1>4, <1>5, <1>8 DEF n

LEMMA StepQueueShape ==
    ASSUME RemoteShape, [RemoteNext]_remoteVars
    PROVE  QueueShape'
<1> USE DEF RemoteShape, QueueShape, sdkVars, clientVars, tellVars
<1> DEFINE Q == TrackEvents \cup LinkEvents
<1>0. ASSUME NEW x \in Tracks, NEW k \in Named
      PROVE  Event(k, x) \in InHand /\ (k \notin {"settle", "start", "withdraw"} => Event(k, x) \in Q)
  BY DEF Named, Event, TrackEvents, InHand
<1>1. ASSUME NEW s \in Speakers, Publish(s[1], s[2]) PROVE QueueShape'
  <2>1. s[1] \in RemoteScopes /\ s[2] \in Talkers
    BY DEF RemoteScopes, Talkers
  <2>2. published' \in 1..MaxPublications
    BY <1>1, RemoteAssumption DEF Publish, RoomShape
  <2>3. PICK x : x = [id |-> published', scope |-> s[1], who |-> s[2]]
    OBVIOUS
  <2>4. x \in Tracks
    BY <2>1, <2>2, <2>3 DEF Tracks
  <2>5. Event("published", x) \in Q /\ Event("subscribed", x) \in Q
    BY <2>4, <1>0 DEF Named
  <2>6. \/ callbacks' = callbacks \o <<Event("published", x), Event("subscribed", x)>>
        \/ callbacks' = callbacks \o <<Event("subscribed", x), Event("published", x)>>
    BY <1>1, <2>3 DEF Publish
  <2>8. callbacks \in Seq(Q)
    OBVIOUS
  <2> HIDE DEF Q, QueueShape
  <2>9. <<Event("published", x), Event("subscribed", x)>> \in Seq(Q)
    BY <2>5
  <2>10. <<Event("subscribed", x), Event("published", x)>> \in Seq(Q)
    BY <2>5
  <2>11. PICK d \in Seq(Q) : callbacks' = callbacks \o d
    BY <2>6, <2>9, <2>10
  <2>7. callbacks' \in Seq(Q)
    BY <2>8, <2>11
  <2> USE DEF QueueShape
  <2> QED
    BY <1>1, <2>7 DEF Publish, Q
<1>2. ASSUME NEW x \in room, Withdraw(x) PROVE QueueShape'
  <2>1. x \in Tracks
    BY DEF RoomShape
  <2>2. Event("unpublished", x) \in Q /\ Event("unsubscribed", x) \in Q /\ Event("left", x) \in Q
    BY <2>1, <1>0 DEF Named
  <2>3. \/ callbacks' = callbacks \o <<Event("unsubscribed", x)>> \o <<Event("unpublished", x)>>
        \/ callbacks' = callbacks \o <<>> \o <<Event("unpublished", x)>>
        \/ callbacks' = Append(callbacks, Event("left", x))
    BY <1>2 DEF Withdraw
  <2>5. callbacks \in Seq(Q)
    OBVIOUS
  <2> HIDE DEF Q, QueueShape
  <2>6. <<Event("unsubscribed", x)>> \in Seq(Q) /\ <<Event("unpublished", x)>> \in Seq(Q)
    BY <2>2
  <2>4. callbacks' \in Seq(Q)
    BY <2>2, <2>3, <2>5, <2>6
  <2> USE DEF QueueShape
  <2> QED
    BY <1>2, <2>4 DEF Withdraw, Q
<1>3. CASE Resume
  <2>1. Event("reconnecting", NoTrack) \in Q /\ Event("reconnected", NoTrack) \in Q
    BY DEF Event, LinkEvents
  <2>2. callbacks' = callbacks \o <<Event("reconnecting", NoTrack), Event("reconnected", NoTrack)>>
    BY <1>3 DEF Resume
  <2> HIDE DEF Q
  <2>3. callbacks' \in Seq(Q)
    BY <2>1, <2>2 DEF Q
  <2> QED
    BY <1>3, <2>3 DEF Resume, Q
<1>4. CASE Deliver
  <2>1. callbacks \in Seq(Q) /\ callbacks # <<>> /\ handling' = Head(callbacks) /\ callbacks' = Tail(callbacks)
    BY <1>4 DEF Deliver
  <2> HIDE DEF Q
  <2>2. Head(callbacks) \in Q /\ Tail(callbacks) \in Seq(Q)
    BY <2>1
  <2> QED
    BY <2>1, <2>2 DEF Q, InHand
<1>5. CASE RemoteAudioAvailable
  <2>1. handling.track \in Tracks /\ handling = [kind |-> handling.kind, track |-> handling.track]
    BY <1>5, InHandTrack DEF RemoteAudioAvailable, Named
  <2>2. handling' = Event("settle", handling.track) \/ handling' = Event("start", handling.track)
    BY <1>5, <2>1 DEF RemoteAudioAvailable, Next1, Event
  <2>3. handling' \in InHand
    BY <2>1, <2>2, <1>0 DEF Named
  <2> QED
    BY <1>5, <2>3 DEF RemoteAudioAvailable
<1>6. CASE Settle
  BY <1>6 DEF Settle, Done, InHand
<1>7. CASE RemoteAudioStarted
  BY <1>7 DEF RemoteAudioStarted, Done, InHand
<1>8. CASE RemoteAudioStopped
  <2>1. handling.track \in Tracks /\ handling = [kind |-> handling.kind, track |-> handling.track]
    BY <1>8, InHandTrack DEF RemoteAudioStopped, Named
  <2>2. handling' = Idle \/ handling' = Event("withdraw", handling.track)
    BY <1>8, <2>1 DEF RemoteAudioStopped, Done, Next1, Event
  <2>3. handling' \in InHand
    BY <2>1, <2>2, <1>0 DEF Named, InHand
  <2> QED
    BY <1>8, <2>3 DEF RemoteAudioStopped
<1>9. CASE RemoteAudioUnavailable
  <2>1. handling.track \in Tracks /\ handling = [kind |-> handling.kind, track |-> handling.track]
    BY <1>9, InHandTrack DEF RemoteAudioUnavailable, Named
  <2>2. handling' = Event("settle", handling.track)
    BY <1>9, <2>1 DEF RemoteAudioUnavailable, Next1, Event
  <2>3. handling' \in InHand
    BY <2>1, <2>2, <1>0 DEF Named
  <2> QED
    BY <1>9, <2>3 DEF RemoteAudioUnavailable
<1>10. CASE ParticipantDisconnected
  <2>1. handling.track \in Tracks /\ handling = [kind |-> handling.kind, track |-> handling.track]
    BY <1>10, InHandTrack DEF ParticipantDisconnected, Named
  <2>2. handling' = Event("settle", handling.track)
    BY <1>10, <2>1 DEF ParticipantDisconnected, Next1, Event
  <2>3. handling' \in InHand
    BY <2>1, <2>2, <1>0 DEF Named
  <2> QED
    BY <1>10, <2>3 DEF ParticipantDisconnected
<1>11. CASE ConnectionChanged
  BY <1>11 DEF ConnectionChanged, Done, InHand
<1>12. ASSUME NEW t \in Threads, Apply(t) PROVE QueueShape'
  BY <1>12 DEF Apply
<1>13. ASSUME NEW t \in Threads, Subscribe(t) PROVE QueueShape'
  <2> DEFINE id == subscribing[t].id
             on == subscribing[t].on
             e == [kind |-> IF on THEN "subscribed" ELSE "unsubscribed", track |-> TrackOf(id)]
  <2>0. handling' = handling
    BY <1>13 DEF Subscribe
  <2>1. CASE (\E x \in room : x.id = id) /\ callbacks' = Append(callbacks, e)
    <3>1. TrackOf(id) \in Tracks
      BY <2>1 DEF TrackOf, RoomShape
    <3>2. e \in TrackEvents
      BY <3>1 DEF TrackEvents
    <3> QED
      BY <2>0, <2>1, <3>2
  <2>2. CASE callbacks' = callbacks
    BY <2>0, <2>2
  <2> QED
    BY <1>13, <2>1, <2>2 DEF Subscribe
<1>14. ASSUME NEW p \in Talkers, NEW on \in BOOLEAN, SetSilenced(p, on) PROVE QueueShape'
  BY <1>14 DEF SetSilenced
<1>15. ASSUME NEW p \in Talkers, NEW v \in {2, FullVolume}, SetVolume(p, v) PROVE QueueShape'
  BY <1>15 DEF SetVolume
<1>16. CASE SelectPlayoutDevice
  <2>1. CASE callbacks' = <<>>
    BY <2>1, <1>16 DEF SelectPlayoutDevice
  <2>2. CASE \E order \in AnyOrder(room) :
               callbacks' = [i \in DOMAIN order |-> Event("subscribed", order[i])]
    <3>1. PICK order \in AnyOrder(room) :
               callbacks' = [i \in DOMAIN order |-> Event("subscribed", order[i])]
      BY <2>2
    <3>2. callbacks' \in Seq(TrackEvents)
      BY <3>1, AnyOrderQueue DEF RoomShape
    <3> QED
      BY <3>2, <1>16 DEF SelectPlayoutDevice
  <2> QED
    BY <1>16, <2>1, <2>2 DEF SelectPlayoutDevice, ReconnectForPlayoutDevice
<1>17. CASE UNCHANGED remoteVars
  BY <1>17 DEF remoteVars
<1> QED
  BY <1>1, <1>2, <1>3, <1>4, <1>5, <1>6, <1>7, <1>8, <1>9, <1>10, <1>11, <1>12, <1>13, <1>14,
     <1>15, <1>16, <1>17 DEF RemoteNext, CallbackStep

\* There is something to play on, or there is not.
LEMMA BackendStays ==
    ASSUME [RemoteNext]_remoteVars
    PROVE  backend' = backend
<1> USE DEF sdkVars
<1>1. ASSUME NEW s \in Speakers, Publish(s[1], s[2]) PROVE backend' = backend
  BY <1>1 DEF Publish
<1>2. ASSUME NEW x \in room, Withdraw(x) PROVE backend' = backend
  BY <1>2 DEF Withdraw
<1>3. CASE Resume
  BY <1>3 DEF Resume
<1>4. CASE CallbackStep
  BY <1>4 DEF CallbackStep, Deliver, RemoteAudioAvailable, Settle, RemoteAudioStarted,
     RemoteAudioStopped, RemoteAudioUnavailable, ParticipantDisconnected, ConnectionChanged
<1>5. ASSUME NEW t \in Threads, Apply(t) \/ Subscribe(t) PROVE backend' = backend
  BY <1>5 DEF Apply, Subscribe
<1>6. ASSUME NEW p \in Talkers, NEW on \in BOOLEAN, SetSilenced(p, on) PROVE backend' = backend
  BY <1>6 DEF SetSilenced
<1>7. ASSUME NEW p \in Talkers, NEW v \in {2, FullVolume}, SetVolume(p, v)
      PROVE  backend' = backend
  BY <1>7 DEF SetVolume
<1>8. CASE SelectPlayoutDevice
  BY <1>8 DEF SelectPlayoutDevice, ReconnectForPlayoutDevice
<1>9. CASE UNCHANGED remoteVars
  BY <1>9 DEF remoteVars
<1> QED
  BY <1>1, <1>2, <1>3, <1>4, <1>5, <1>6, <1>7, <1>8, <1>9 DEF RemoteNext

\* Nothing is admitted where there is nothing to play on.
Mute(rec) == ~rec.admitted /\ rec.gain = 0

\* A change of one publication that keeps its track.
LEMMA PublicationChanged ==
    ASSUME PublicationShape, NEW k \in DOMAIN publications, NEW rec \in Publications,
           rec.track = publications[k].track, publications' = [publications EXCEPT ![k] = rec],
           backend' = backend, ~backend => Mute(rec)
    PROVE  PublicationShape'
<1>1. DOMAIN publications' = DOMAIN publications
  OBVIOUS
<1>2. ASSUME NEW i \in DOMAIN publications
      PROVE  publications'[i] \in Publications /\ Key(publications'[i].track) = i
  BY DEF PublicationShape
<1>3. ASSUME ~backend, NEW i \in DOMAIN publications PROVE Mute(publications'[i])
  BY <1>3 DEF PublicationShape, Mute
<1> QED
  BY <1>1, <1>2, <1>3 DEF PublicationShape, Key, Mute

\* What configureRemoteAudio stores.
LEMMA ConfiguredIs ==
    ASSUME NEW rec \in Publications, NEW c \in Streams
    PROVE  /\ Configured(rec, c) \in Publications
           /\ Configured(rec, c).track = rec.track
           /\ Configured(rec, c).playing = rec.playing
           /\ Configured(rec, c).admitted = c.admitted
           /\ Configured(rec, c).gain = IF c.admitted THEN c.gain ELSE 0
<1>1. PICK g : g = IF c.admitted THEN c.gain ELSE 0
  OBVIOUS
<1>2. g \in 0..FullVolume /\ c.admitted \in BOOLEAN
  BY <1>1 DEF Streams, FullVolume
<1>3. Configured(rec, c) = [rec EXCEPT !.admitted = c.admitted, !.gain = g]
  BY <1>1 DEF Configured
<1> QED
  BY <1>1, <1>2, <1>3 DEF Publications

LEMMA StepPublicationShape ==
    ASSUME RemoteShape, [RemoteNext]_remoteVars
    PROVE  PublicationShape'
<1> USE DEF RemoteShape, sdkVars, clientVars, tellVars
<1>b. backend' = backend
  BY BackendStays
<1>0. ASSUME UNCHANGED publications PROVE PublicationShape'
  BY <1>0, <1>b DEF PublicationShape, Key
<1>1. ASSUME NEW s \in Speakers, Publish(s[1], s[2]) PROVE PublicationShape'
  BY <1>0, <1>1 DEF Publish
<1>2. ASSUME NEW x \in room, Withdraw(x) PROVE PublicationShape'
  BY <1>0, <1>2 DEF Withdraw
<1>3. CASE Resume
  BY <1>0, <1>3 DEF Resume
<1>4. CASE Deliver
  BY <1>0, <1>4 DEF Deliver
<1>5. CASE RemoteAudioAvailable
  <2>1. PICK x \in Tracks : x = handling.track
    BY <1>5, InHandTrack DEF RemoteAudioAvailable, Named
  <2>2. CASE Known(x)
    BY <1>0, <1>5, <2>1, <2>2 DEF RemoteAudioAvailable
  <2>3. CASE ~Known(x)
    <3>1. PICK new : new = [track |-> x, admitted |-> FALSE, gain |-> 0, playing |-> FALSE]
      OBVIOUS
    <3>2. new \in Publications /\ Key(new.track) = Key(x)
      BY <2>1, <3>1 DEF Publications, FullVolume
    <3>3. publications' = [k \in DOMAIN publications \cup {Key(x)} |->
                             IF k = Key(x) THEN new ELSE publications[k]]
      BY <1>5, <2>1, <2>3, <3>1 DEF RemoteAudioAvailable
    <3>4. Key(x) \in RemoteScopes \X Talkers
      BY <2>1 DEF Key, Tracks
    <3>5. DOMAIN publications' \subseteq RemoteScopes \X Talkers
      BY <3>3, <3>4 DEF PublicationShape
    <3>6. ASSUME NEW k \in DOMAIN publications'
          PROVE  publications'[k] \in Publications /\ Key(publications'[k].track) = k
      <4>1. CASE k = Key(x)
        BY <3>2, <3>3, <4>1
      <4>2. CASE k # Key(x)
        BY <3>3, <4>2 DEF PublicationShape
      <4> QED
        BY <4>1, <4>2
    <3>7. ASSUME ~backend, NEW k \in DOMAIN publications'
          PROVE  ~publications'[k].admitted /\ publications'[k].gain = 0
      BY <3>1, <3>3, <3>7 DEF PublicationShape
    <3> QED
      BY <3>5, <3>6, <3>7, <1>b DEF PublicationShape, Key
  <2> QED
    BY <2>2, <2>3
<1>6. CASE Settle
  BY <1>0, <1>6 DEF Settle
<1>7. CASE RemoteAudioStarted
  <2>1. PICK x \in Tracks : x = handling.track
    BY <1>7, InHandTrack DEF RemoteAudioStarted, Named
  <2>2. CASE MayPlay(x) /\ backend /\ publications' = [publications EXCEPT ![Key(x)].playing = TRUE]
    <3>1. PICK k \in DOMAIN publications : k = Key(x)
      BY <2>2 DEF MayPlay, Known
    <3>2. publications[k] \in Publications
      BY DEF PublicationShape
    <3>3. PICK rec : rec = [publications[k] EXCEPT !.playing = TRUE]
      OBVIOUS
    <3>4. rec \in Publications /\ rec.track = publications[k].track
      BY <3>2, <3>3 DEF Publications
    <3>5. publications' = [publications EXCEPT ![k] = rec]
      BY <2>2, <3>1, <3>3
    <3> QED
      BY <3>4, <3>5, <1>b, <2>2, PublicationChanged
  <2>3. CASE UNCHANGED publications
    BY <1>0, <2>3
  <2> QED
    BY <1>7, <2>1, <2>2, <2>3 DEF RemoteAudioStarted
<1>8. CASE RemoteAudioStopped
  <2>1. PICK x \in Tracks : x = handling.track
    BY <1>8, InHandTrack DEF RemoteAudioStopped, Named
  <2>2. CASE x \in tracks /\ Known(x)
    <3>1. PICK k \in DOMAIN publications : k = Key(x)
      BY <2>2 DEF Known
    <3>2. publications[k] \in Publications
      BY DEF PublicationShape
    <3>3. PICK rec : rec = [publications[k] EXCEPT !.playing = FALSE]
      OBVIOUS
    <3>4. rec \in Publications /\ rec.track = publications[k].track
      BY <3>2, <3>3 DEF Publications
    <3>5. publications' = [publications EXCEPT ![k] = rec]
      BY <1>8, <2>1, <2>2, <3>1, <3>3 DEF RemoteAudioStopped, Stopped
    <3>6. ~backend => Mute(rec)
      BY <3>2, <3>3 DEF PublicationShape, Publications, Mute
    <3> QED
      BY <3>4, <3>5, <3>6, <1>b, PublicationChanged
  <2>3. CASE ~(x \in tracks /\ Known(x))
    BY <1>0, <1>8, <2>1, <2>3 DEF RemoteAudioStopped, Stopped
  <2> QED
    BY <2>2, <2>3
<1>w. ASSUME NEW k, publications' = Without(publications, k) PROVE PublicationShape'
  BY <1>w, <1>b DEF Without, PublicationShape, Key
<1>9. CASE RemoteAudioUnavailable
  BY <1>0, <1>w, <1>9 DEF RemoteAudioUnavailable
<1>10. CASE ParticipantDisconnected
  BY <1>w, <1>10 DEF ParticipantDisconnected
<1>11. CASE ConnectionChanged
  BY <1>0, <1>11 DEF ConnectionChanged
<1>12. ASSUME NEW t \in Threads, Apply(t) PROVE PublicationShape'
  <2>1. PICK c \in Streams : c = Head(telling[t])
    BY <1>12 DEF Apply, ClientShape
  <2>2. CASE StreamKey(c) \in DOMAIN publications /\ (c.admitted => backend)
    <3>1. PICK k \in DOMAIN publications : k = StreamKey(c)
      BY <2>2
    <3>2. publications[k] \in Publications
      BY DEF PublicationShape
    <3>3. PICK rec : rec = Configured(publications[k], c)
      OBVIOUS
    <3>4. rec \in Publications /\ rec.track = publications[k].track
      BY <3>2, <3>3, ConfiguredIs
    <3>5. publications' = [publications EXCEPT ![k] = rec]
      BY <1>12, <2>1, <2>2, <3>1, <3>3 DEF Apply, StreamKey
    <3>6. ~backend => Mute(rec)
      BY <2>2, <3>2, <3>3, ConfiguredIs DEF Mute
    <3> QED
      BY <3>4, <3>5, <3>6, <1>b, PublicationChanged
  <2>3. CASE ~(StreamKey(c) \in DOMAIN publications /\ (c.admitted => backend))
    BY <1>0, <1>12, <2>1, <2>3 DEF Apply, StreamKey
  <2> QED
    BY <2>2, <2>3
<1>13. ASSUME NEW t \in Threads, Subscribe(t) PROVE PublicationShape'
  BY <1>0, <1>13 DEF Subscribe
<1>14. ASSUME NEW p \in Talkers, NEW on \in BOOLEAN, SetSilenced(p, on) PROVE PublicationShape'
  BY <1>0, <1>14 DEF SetSilenced
<1>15. ASSUME NEW p \in Talkers, NEW v \in {2, FullVolume}, SetVolume(p, v) PROVE PublicationShape'
  BY <1>0, <1>15 DEF SetVolume
<1>16. CASE SelectPlayoutDevice
  <2>1. publications' = <<>>
    BY <1>16 DEF SelectPlayoutDevice, ReconnectForPlayoutDevice
  <2>2. DOMAIN publications' = {}
    BY <2>1
  <2> QED
    BY <2>2 DEF PublicationShape
<1>17. CASE UNCHANGED remoteVars
  BY <1>0, <1>17 DEF remoteVars
<1> QED
  BY <1>1, <1>2, <1>3, <1>4, <1>5, <1>6, <1>7, <1>8, <1>9, <1>10, <1>11, <1>12, <1>13, <1>14,
     <1>15, <1>16, <1>17 DEF RemoteNext, CallbackStep

\* What a step does to the streams: nothing, a decision of one of four kinds, or
\* the end of all of them.
ClientStep ==
    \/ UNCHANGED <<streams, silenced, volumes, orders, raced>> /\ telling' \in [Threads -> Seq(Streams)]
    \/ /\ streams' = {}
       /\ UNCHANGED <<silenced, volumes, orders, raced, telling>>
    \/ \E t \in Threads, avail \in SUBSET Streams :
         /\ Kept(avail, orders') /\ orders' \in Nat
         /\ silenced' \subseteq Talkers /\ volumes' \in [Talkers -> 0..FullVolume]
         /\ Decision(t, avail, silenced')

\* A decision about fewer of the streams.
LEMMA DecidesOf ==
    ASSUME RemoteShape, NEW t \in Threads, NEW avail, avail \subseteq streams,
           NEW vol \in [Talkers -> 0..FullVolume], NEW quiet, Recompute(t, avail, quiet, vol)
    PROVE  Decision(t, avail, quiet) /\ Kept(avail, orders) /\ avail \in SUBSET Streams
<1>1. Kept(avail, orders)
  BY KeptFewer DEF RemoteShape, StreamsOK
<1>2. Ranked(avail) /\ avail \in SUBSET Streams
  BY <1>1 DEF Kept, Ranked
<1> QED
  BY <1>1, <1>2, RecomputeDecides DEF RemoteShape

\* A new stream and the decision it brings about.
Fresh(x) == [scope |-> x.scope, who |-> x.who, order |-> orders, admitted |-> FALSE, gain |-> 0]

LEMMA DecidesWithFresh ==
    ASSUME RemoteShape, NEW x \in Tracks, \A s \in streams : StreamKey(s) # Key(x),
           Recompute("sdk", streams \cup {Fresh(x)}, silenced, volumes)
    PROVE  /\ Decision("sdk", streams \cup {Fresh(x)}, silenced)
           /\ Kept(streams \cup {Fresh(x)}, orders + 1)
           /\ streams \cup {Fresh(x)} \in SUBSET Streams
<1>1. orders \in Nat /\ Kept(streams, orders)
  BY DEF RemoteShape, ClientShape, StreamsOK
<1>2. Fresh(x) \in Streams /\ Fresh(x).order = orders /\ StreamKey(Fresh(x)) = Key(x)
  BY <1>1 DEF Fresh, Streams, Tracks, FullVolume, StreamKey, Key
<1>3. Kept(streams \cup {Fresh(x)}, orders + 1)
  BY <1>1, <1>2, KeptMore
<1>4. Ranked(streams \cup {Fresh(x)}) /\ streams \cup {Fresh(x)} \in SUBSET Streams
  BY <1>3 DEF Kept, Ranked
<1>5. ClientShape /\ volumes \in [Talkers -> 0..FullVolume] /\ "sdk" \in Threads
  BY DEF RemoteShape, ClientShape, Threads
<1> QED
  BY <1>3, <1>4, <1>5, RecomputeDecides

\* A registration that tells the client of a new stream, and one that does not.
LEMMA AvailableDecides ==
    ASSUME RemoteShape, RemoteAudioAvailable
    PROVE  \/ UNCHANGED <<streams, telling, raced, orders>>
           \/ /\ \A s \in streams : StreamKey(s) # Key(handling.track)
              /\ ~Known(handling.track)
              /\ Decision("sdk", streams \cup {Fresh(handling.track)}, silenced)
              /\ Kept(streams \cup {Fresh(handling.track)}, orders + 1)
              /\ streams \cup {Fresh(handling.track)} \in SUBSET Streams
              /\ orders' = orders + 1
<1>1. PICK x \in Tracks : x = handling.track
  BY InHandTrack DEF RemoteShape, RemoteAudioAvailable, Named
<1>2. CASE ~Known(x) /\ ~\E s \in streams : s.scope = x.scope /\ s.who = x.who
  <2>1. \A s \in streams : StreamKey(s) # Key(x)
    BY <1>2 DEF StreamKey, Key
  <2>2. Recompute("sdk", streams \cup {Fresh(x)}, silenced, volumes) /\ orders' = orders + 1
    BY <1>1, <1>2 DEF RemoteAudioAvailable, Fresh
  <2> QED
    BY <1>1, <1>2, <2>1, <2>2, DecidesWithFresh
<1>3. CASE ~(~Known(x) /\ ~\E s \in streams : s.scope = x.scope /\ s.who = x.who)
  BY <1>1, <1>3 DEF RemoteAudioAvailable
<1> QED
  BY <1>2, <1>3

LEMMA ForgetDecides ==
    ASSUME RemoteShape, NEW k, ForgetStream(k)
    PROVE  LET rest == {s \in streams : StreamKey(s) # k}
           IN  Decision("sdk", rest, silenced) /\ Kept(rest, orders) /\ rest \in SUBSET Streams
<1> DEFINE rest == {s \in streams : StreamKey(s) # k}
<1>1. Recompute("sdk", rest, silenced, volumes)
  BY DEF ForgetStream, StreamKey
<1>2. "sdk" \in Threads /\ volumes \in [Talkers -> 0..FullVolume] /\ rest \subseteq streams
  BY DEF Threads, RemoteShape, ClientShape
<1> HIDE DEF rest
<1>3. Decision("sdk", rest, silenced) /\ Kept(rest, orders) /\ rest \in SUBSET Streams
  BY <1>1, <1>2, DecidesOf
<1> QED
  BY <1>3 DEF rest

LEMMA StepClient ==
    ASSUME RemoteShape, [RemoteNext]_remoteVars
    PROVE  ClientStep
<1> USE DEF sdkVars, clientVars, tellVars
<1>0. ASSUME UNCHANGED <<streams, silenced, volumes, orders, raced, telling>> PROVE ClientStep
  BY <1>0 DEF ClientStep, RemoteShape, ClientShape
<1>c. orders \in Nat /\ silenced \subseteq Talkers /\ volumes \in [Talkers -> 0..FullVolume]
  BY DEF RemoteShape, ClientShape
<1>1. ASSUME NEW s \in Speakers, Publish(s[1], s[2]) PROVE ClientStep
  BY <1>0, <1>1 DEF Publish
<1>2. ASSUME NEW x \in room, Withdraw(x) PROVE ClientStep
  BY <1>0, <1>2 DEF Withdraw
<1>3. CASE Resume
  BY <1>0, <1>3 DEF Resume
<1>4. CASE Deliver
  BY <1>0, <1>4 DEF Deliver
<1>5. CASE RemoteAudioAvailable
  <2>1. silenced' = silenced /\ volumes' = volumes
    BY <1>5 DEF RemoteAudioAvailable
  <2>2. CASE UNCHANGED <<streams, telling, raced, orders>>
    BY <2>1, <2>2, <1>0
  <2>3. CASE ~UNCHANGED <<streams, telling, raced, orders>>
    <3> DEFINE avail == streams \cup {Fresh(handling.track)}
    <3>1. Decision("sdk", avail, silenced) /\ Kept(avail, orders + 1) /\ avail \in SUBSET Streams
          /\ orders' = orders + 1
      BY <1>5, <2>3, AvailableDecides
    <3> HIDE DEF avail
    <3>2. orders' \in Nat /\ "sdk" \in Threads
      BY <3>1, <1>c DEF Threads
    <3> QED
      BY <3>1, <3>2, <2>1, <1>c DEF ClientStep
  <2> QED
    BY <2>2, <2>3
<1>6. CASE Settle
  BY <1>0, <1>6 DEF Settle
<1>7. CASE RemoteAudioStarted
  BY <1>0, <1>7 DEF RemoteAudioStarted
<1>8. CASE RemoteAudioStopped
  BY <1>0, <1>8 DEF RemoteAudioStopped
<1>f. ASSUME NEW k, ForgetStream(k), UNCHANGED <<silenced, volumes, orders>> PROVE ClientStep
  <2> DEFINE rest == {s \in streams : StreamKey(s) # k}
  <2>1. Decision("sdk", rest, silenced) /\ Kept(rest, orders) /\ rest \in SUBSET Streams
    BY <1>f, ForgetDecides
  <2>2. "sdk" \in Threads
    BY DEF Threads
  <2> HIDE DEF rest
  <2> QED
    BY <2>1, <2>2, <1>f, <1>c DEF ClientStep
<1>9. CASE RemoteAudioUnavailable
  BY <1>0, <1>f, <1>9 DEF RemoteAudioUnavailable
<1>10. CASE ParticipantDisconnected
  BY <1>0, <1>f, <1>10 DEF ParticipantDisconnected
<1>11. CASE ConnectionChanged
  <2>1. CASE handling.kind = "reconnecting"
    BY <1>11, <2>1 DEF ConnectionChanged, ClientStep
  <2>2. CASE handling.kind # "reconnecting"
    BY <1>11, <2>2, <1>0 DEF ConnectionChanged
  <2> QED
    BY <2>1, <2>2
<1>12. ASSUME NEW t \in Threads, Apply(t) PROVE ClientStep
  <2>1. telling[t] \in Seq(Streams) /\ telling[t] # <<>>
    BY <1>12 DEF Apply, RemoteShape, ClientShape
  <2>2. telling' \in [Threads -> Seq(Streams)]
    BY <1>12, <2>1 DEF Apply, RemoteShape, ClientShape
  <2> QED
    BY <1>12, <2>2 DEF Apply, ClientStep
<1>13. ASSUME NEW t \in Threads, Subscribe(t) PROVE ClientStep
  BY <1>0, <1>13 DEF Subscribe
<1>a. "app" \in Threads
  BY DEF Threads
<1>14. ASSUME NEW p \in Talkers, NEW on \in BOOLEAN, SetSilenced(p, on) PROVE ClientStep
  <2>1. silenced' \subseteq Talkers
    BY <1>14, <1>c DEF SetSilenced
  <2>2. Recompute("app", streams, silenced', volumes) /\ volumes' = volumes /\ orders' = orders
    BY <1>14 DEF SetSilenced
  <2>3. Decision("app", streams, silenced') /\ Kept(streams, orders) /\ streams \in SUBSET Streams
    BY <2>2, <1>a, <1>c, DecidesOf
  <2> QED
    BY <2>1, <2>2, <2>3, <1>a, <1>c DEF ClientStep
<1>15. ASSUME NEW p \in Talkers, NEW v \in {2, FullVolume}, SetVolume(p, v) PROVE ClientStep
  <2>1. volumes' \in [Talkers -> 0..FullVolume]
    BY <1>15, <1>c DEF SetVolume, FullVolume
  <2>2. Recompute("app", streams, silenced, volumes') /\ silenced' = silenced /\ orders' = orders
    BY <1>15 DEF SetVolume
  <2>3. Decision("app", streams, silenced) /\ Kept(streams, orders) /\ streams \in SUBSET Streams
    BY <2>1, <2>2, <1>a, DecidesOf
  <2> QED
    BY <2>1, <2>2, <2>3, <1>a, <1>c DEF ClientStep
<1>16. CASE SelectPlayoutDevice
  BY <1>16 DEF SelectPlayoutDevice, ReconnectForPlayoutDevice, ClientStep
<1>17. CASE UNCHANGED remoteVars
  BY <1>0, <1>17 DEF remoteVars
<1> QED
  BY <1>1, <1>2, <1>3, <1>4, <1>5, <1>6, <1>7, <1>8, <1>9, <1>10, <1>11, <1>12, <1>13, <1>14,
     <1>15, <1>16, <1>17 DEF RemoteNext, CallbackStep

LEMMA StepShape == RemoteShape /\ [RemoteNext]_remoteVars => RemoteShape'
<1> SUFFICES ASSUME RemoteShape, [RemoteNext]_remoteVars PROVE RemoteShape'
  OBVIOUS
<1>1. RoomShape' /\ QueueShape' /\ PublicationShape'
  BY StepRoomShape, StepQueueShape, StepPublicationShape
<1>2. ClientShape /\ StreamsOK
  BY DEF RemoteShape
<1>3. ClientShape' /\ StreamsOK'
  <2>1. CASE /\ UNCHANGED <<streams, silenced, volumes, orders, raced>>
             /\ telling' \in [Threads -> Seq(Streams)]
    <3>1. ClientShape'
      BY <2>1, <1>2 DEF ClientShape
    <3>2. streams' = streams /\ silenced' = silenced /\ orders' = orders
      BY <2>1
    <3>3. Kept(streams', orders') /\ ByPriority(streams', silenced')
      BY <3>2, <1>2 DEF StreamsOK
    <3> QED
      BY <3>1, <3>2, <3>3, <1>2 DEF StreamsOK
  <2>2. CASE streams' = {} /\ UNCHANGED <<silenced, volumes, orders, raced, telling>>
    <3>1. ClientShape'
      BY <2>2, <1>2 DEF ClientShape
    <3>2. Kept(streams', orders') /\ ByPriority(streams', silenced')
      BY <2>2, EmptyIsOK
    <3> QED
      BY <3>1, <3>2, <2>2 DEF StreamsOK
  <2>3. ASSUME NEW t \in Threads, NEW avail \in SUBSET Streams,
               Kept(avail, orders'), orders' \in Nat,
               silenced' \subseteq Talkers, volumes' \in [Talkers -> 0..FullVolume],
               Decision(t, avail, silenced')
        PROVE  ClientShape' /\ StreamsOK'
    <3>1. ClientShape'
      BY <2>3, <1>2 DEF ClientShape, Decision
    <3>2. /\ Kept(streams', orders')
          /\ \A s \in streams' : ~s.admitted => s.gain = 0
          /\ ByPriority(streams', silenced')
      BY <2>3, DecisionKeeps
    <3> QED
      BY <3>1, <3>2 DEF StreamsOK
  <2> QED
    BY <2>1, <2>2, <2>3, StepClient DEF ClientStep
<1> QED
  BY <1>1, <1>3 DEF RemoteShape

LEMMA ShapeInvariance == RemoteSpec => []RemoteShape
BY InitShape, StepShape, PTL DEF RemoteSpec

LEMMA ShapeIsTyped == RemoteShape => RemoteTypeOK
<1> SUFFICES ASSUME RemoteShape PROVE RemoteTypeOK
  OBVIOUS
<1>1. \A s \in streams : s.scope \in RemoteScopes /\ s.who \in Talkers /\ s.gain \in 0..FullVolume
  BY DEF RemoteShape, StreamsOK, Kept, Ranked, Streams
<1> QED
  BY <1>1 DEF RemoteShape, RoomShape, PublicationShape, ClientShape, RemoteTypeOK

\* The types of the rooms, the transport and the client hold in every state.
THEOREM RemoteTypeCorrect == RemoteSpec => []RemoteTypeOK
BY ShapeInvariance, ShapeIsTyped, PTL

LEMMA ShapeAdmits == RemoteShape => AdmissionByPriority
BY DEF RemoteShape, StreamsOK, ByPriority, AdmissionByPriority

\* The client admits by priority in every state, however many streams there are and
\* whatever the limits: recomputePlaybackLocked never lets a stream pass one that
\* comes before it.
THEOREM AdmissionIsByPriority == RemoteSpec => []AdmissionByPriority
BY ShapeInvariance, ShapeAdmits, PTL
-----------------------------------------------------------------------------
(* What waits to be handled: the event in hand and the callbacks behind it.  The
   invariant is stated of values, so that its parts can be argued about apart
   from the steps: rm is the room, sb the subscriptions, pb the publications, st
   the streams, q what is pending, te what is being told, su the calls. *)

Pending == [i \in 0..Len(callbacks) |-> IF i = 0 THEN handling ELSE callbacks[i]]

Registers(e) == e.kind \in {"published", "subscribed"}
Plugs(e) == e.kind \in {"subscribed", "start", "unsubscribed"}
Removes(e) == e.kind \in {"unpublished", "withdraw", "left"}
Tracked(e) == Registers(e) \/ Plugs(e) \/ Removes(e)

KnownIn(pb, x) == Key(x) \in DOMAIN pb /\ pb[Key(x)].track.id = x.id
Mention(rm, pb, q, x) ==
    \/ x \in rm
    \/ \E k \in DOMAIN pb : pb[k].track = x
    \/ \E i \in DOMAIN q : Tracked(q[i]) /\ q[i].track = x

\* Every track has an id of its own, and a participant's track in the rooms is
\* the participant's newest.
IdsOK(rm, pb, q, n) ==
    /\ \A x : Mention(rm, pb, q, x) => x \in Tracks /\ x.id <= n
    /\ \A x, y : Mention(rm, pb, q, x) /\ Mention(rm, pb, q, y) /\ x.id = y.id => x = y
    /\ \A x \in rm : \A y : Mention(rm, pb, q, y) /\ x.who = y.who => y.id <= x.id

\* The events of a participant are handled in the order of its tracks.
OrderOK(pb, q) ==
    /\ \A i, j \in DOMAIN q :
         i < j /\ Tracked(q[i]) /\ Tracked(q[j]) /\ q[i].track.who = q[j].track.who =>
           q[i].track.id <= q[j].track.id
    /\ \A k \in DOMAIN pb : \A i \in DOMAIN q :
         Tracked(q[i]) /\ q[i].track.who = pb[k].track.who => pb[k].track.id <= q[i].track.id

\* What has left the rooms is going to be removed.
LeavesOK(rm, pb, q) ==
    /\ \A i \in DOMAIN q : Removes(q[i]) => q[i].track \notin rm
    /\ \A k \in DOMAIN pb : pb[k].track \notin rm =>
         \E i \in DOMAIN q : Removes(q[i]) /\ q[i].track = pb[k].track
    /\ \A j \in DOMAIN q : Registers(q[j]) /\ q[j].track \notin rm =>
         \E i \in DOMAIN q : i > j /\ Removes(q[i]) /\ q[i].track = q[j].track

\* What is in the rooms is registered or going to be, and has a stream, unless it
\* outlives a reconnect.
RegisteredOK(rm, pb, q, st, kp) ==
    /\ \A x \in rm :
         \/ KnownIn(pb, x)
         \/ \E i \in DOMAIN q : q[i].kind = "subscribed" /\ q[i].track = x
    /\ \A s \in st : StreamKey(s) \in DOMAIN pb
    /\ \A x \in rm : KnownIn(pb, x) /\ x.id \notin kp => \E s \in st : StreamKey(s) = Key(x)
KeptOK(rm, pb, q, kp) ==
    \A i \in DOMAIN q : q[i].kind = "reconnecting" =>
       /\ \A k \in DOMAIN pb : pb[k].track \in rm => pb[k].track.id \in kp
       /\ \A j \in DOMAIN q : j < i /\ Registers(q[j]) /\ q[j].track \in rm => q[j].track.id \in kp

Rests(te, su, t) == te[t] = <<>> /\ su[t] = NoTrack

\* A callback leaves the thread at rest.
HandsOK(q, te, su) == q[0].kind \notin {"settle", "start"} => Rests(te, su, "sdk")

\* One thread tells at a time, and what it tells is what was decided.
TellingOK(pb, st, te, su) ==
    /\ Rests(te, su, "sdk") \/ Rests(te, su, "app")
    /\ \A t \in Threads : \A i \in DOMAIN te[t] : \A s \in st :
         StreamKey(s) = StreamKey(te[t][i]) => s = te[t][i]
    /\ \A t \in Threads : su[t] # NoTrack =>
         \A k \in DOMAIN pb : pb[k].track.id = su[t].id => pb[k].admitted = su[t].on

\* The transport has the decision, or is about to be told.
ToldOK(pb, st, te, bk, fl) ==
    \A s \in st :
       \/ /\ pb[StreamKey(s)].admitted = (s.admitted /\ bk)
          /\ pb[StreamKey(s)].gain = IF bk THEN s.gain ELSE 0
          /\ s.admitted => bk \/ pb[StreamKey(s)].track.id \in fl
       \/ \E t \in Threads : \E i \in DOMAIN te[t] : te[t][i] = s

\* The room has the subscription, or is about to be told, or an error was reported.
AskedOK(rm, sb, pb, st, te, su, fl) ==
    \A s \in st : pb[StreamKey(s)].track \in rm =>
       \/ pb[StreamKey(s)].track.id \in fl
       \/ (pb[StreamKey(s)].track.id \in sb) <=> pb[StreamKey(s)].admitted
       \/ \E t \in Threads : su[t] # NoTrack /\ su[t].id = pb[StreamKey(s)].track.id
       \/ \E i \in DOMAIN te["sdk"] : StreamKey(te["sdk"][i]) = StreamKey(s)

\* The last event of a track says whether it is subscribed.
PlugAt(q, i, x) == Plugs(q[i]) /\ q[i].track = x
SaysOK(rm, sb, q) ==
    \A x \in rm : \A i \in DOMAIN q :
       PlugAt(q, i, x) /\ (\A j \in DOMAIN q : j > i => ~PlugAt(q, j, x)) =>
         ((x.id \in sb) <=> (q[i].kind # "unsubscribed"))

\* A track that is played has a playout; one without an event to come plays as it
\* is subscribed, or is about to be unsubscribed.
PlayingOK(tr, pb) == \A k \in DOMAIN pb : pb[k].playing => pb[k].track \in tr
PlaysOK(rm, sb, pb, q, st, su, fl) ==
    \A s \in st :
       pb[StreamKey(s)].track \in rm /\ (\A i \in DOMAIN q : ~PlugAt(q, i, pb[StreamKey(s)].track)) =>
         \/ pb[StreamKey(s)].track.id \in fl
         \/ pb[StreamKey(s)].playing <=> (pb[StreamKey(s)].track.id \in sb)
         \/ /\ pb[StreamKey(s)].track.id \in sb
            /\ \E t \in Threads : /\ su[t] # NoTrack
                                  /\ su[t].id = pb[StreamKey(s)].track.id
                                  /\ ~su[t].on

Ids == IdsOK(room, publications, Pending, published)
InOrder == OrderOK(publications, Pending)
Leaves == LeavesOK(room, publications, Pending)
Registered == RegisteredOK(room, publications, Pending, streams, kept)
Outlives == KeptOK(room, publications, Pending, kept)
Hands == HandsOK(Pending, telling, subscribing)
Says == SaysOK(room, subscribed, Pending)
Playing == PlayingOK(tracks, publications)
Tells == ~raced => TellingOK(publications, streams, telling, subscribing)
Told == ~raced => ToldOK(publications, streams, telling, backend, failed)
Asked == ~raced => AskedOK(room, subscribed, publications, streams, telling, subscribing, failed)
PlaysAsTold ==
    ~raced => PlaysOK(room, subscribed, publications, Pending, streams, subscribing, failed)

PlaybackInv ==
    /\ Ids /\ InOrder /\ Leaves /\ Registered /\ Outlives /\ Hands
    /\ Says /\ Playing /\ Tells /\ Told /\ Asked /\ PlaysAsTold

-----------------------------------------------------------------------------
(* How what is pending can change. *)

IsQueue(q) == DOMAIN q \subseteq Nat /\ 0 \in DOMAIN q

\* Events are added behind the others.
Grown(q, r, new) ==
    /\ IsQueue(q) /\ IsQueue(r)
    /\ DOMAIN q \subseteq DOMAIN r
    /\ \A i \in DOMAIN q : r[i] = q[i]
    /\ \A i \in DOMAIN r \ DOMAIN q : r[i] \in new /\ \A j \in DOMAIN q : j < i
    /\ \A e \in new : \E i \in DOMAIN r \ DOMAIN q : r[i] = e

\* The next one comes into the hand, which held none.
Moved(q, r) ==
    /\ IsQueue(q) /\ IsQueue(r)
    /\ q[0].kind = "none"
    /\ \A i \in DOMAIN r : i + 1 \in DOMAIN q /\ r[i] = q[i + 1]
    /\ \A i \in DOMAIN q \ {0} : i - 1 \in DOMAIN r /\ r[i - 1] = q[i]

\* The event in hand goes on or ends.
Handed(q, r, h) ==
    /\ IsQueue(q) /\ DOMAIN r = DOMAIN q
    /\ r[0] = h
    /\ \A i \in DOMAIN q \ {0} : r[i] = q[i]
    /\ h.kind \notin {"published", "subscribed", "unsubscribed", "unpublished", "left",
                      "reconnecting"}
    /\ Plugs(h) => q[0].kind = "subscribed" /\ h.track = q[0].track
    /\ Removes(h) => Removes(q[0]) /\ h.track = q[0].track

LEMMA PendingIs ==
    ASSUME QueueShape
    PROVE  /\ IsQueue(Pending) /\ Pending[0] = handling /\ Len(callbacks) \in Nat
           /\ DOMAIN Pending = 0..Len(callbacks)
           /\ \A i \in 1..Len(callbacks) : Pending[i] = callbacks[i]
<1>1. Len(callbacks) \in Nat
  BY DEF QueueShape
<1> QED
  BY <1>1 DEF Pending, IsQueue

LEMMA PendingIsNext ==
    ASSUME QueueShape'
    PROVE  /\ IsQueue(Pending') /\ Pending'[0] = handling' /\ Len(callbacks') \in Nat
           /\ DOMAIN Pending' = 0..Len(callbacks')
           /\ \A i \in 1..Len(callbacks') : Pending'[i] = callbacks'[i]
<1>1. Len(callbacks') \in Nat
  BY DEF QueueShape
<1>2. Pending' = [i \in 0..Len(callbacks') |-> IF i = 0 THEN handling' ELSE callbacks'[i]]
  BY DEF Pending
<1> QED
  BY <1>1, <1>2 DEF IsQueue

LEMMA PendingSame ==
    ASSUME UNCHANGED <<callbacks, handling>>
    PROVE  Pending' = Pending
BY DEF Pending

LEMMA PendingGrows ==
    ASSUME QueueShape, QueueShape', NEW S, NEW es \in Seq(S), callbacks' = callbacks \o es,
           handling' = handling
    PROVE  Grown(Pending, Pending', {es[i] : i \in 1..Len(es)})
<1>1. PICK n \in Nat : n = Len(callbacks)
  BY DEF QueueShape
<1>2. PICK m \in Nat : m = Len(es)
  OBVIOUS
<1>3. PICK q : q = Pending
  OBVIOUS
<1>4. PICK r : r = Pending'
  OBVIOUS
<1>5. /\ Len(callbacks') = n + m
      /\ \A i \in 1..n : callbacks'[i] = callbacks[i]
      /\ \A i \in 1..m : callbacks'[n + i] = es[i]
  <2>1. callbacks \in Seq(TrackEvents \cup LinkEvents)
    BY DEF QueueShape
  <2> QED
    BY <2>1, <1>1, <1>2
<1>6. IsQueue(q) /\ q[0] = handling /\ DOMAIN q = 0..n /\ \A i \in 1..n : q[i] = callbacks[i]
  BY <1>1, <1>3, PendingIs
<1>7. /\ IsQueue(r) /\ r[0] = handling /\ DOMAIN r = 0..(n + m)
      /\ \A i \in 1..(n + m) : r[i] = callbacks'[i]
  BY <1>4, <1>5, PendingIsNext
<1> DEFINE new == {es[i] : i \in 1..m}
<1>8. \A i \in 0..n : i \in 0..(n + m) /\ r[i] = q[i]
  <2>1. \A i \in 1..n : i \in 1..(n + m)
    OBVIOUS
  <2>2. \A i \in 1..n : r[i] = q[i]
    BY <2>1, <1>5, <1>6, <1>7
  <2>3. \A i \in 0..n : i = 0 \/ i \in 1..n
    OBVIOUS
  <2> QED
    BY <2>2, <2>3, <1>6, <1>7
<1>9. ASSUME NEW i \in 0..(n + m), i \notin 0..n PROVE r[i] \in new /\ \A j \in 0..n : j < i
  <2>1. PICK k \in 1..m : i = n + k
    <3>1. i - n \in 1..m /\ i = n + (i - n)
      BY <1>9
    <3> QED
      BY <3>1
  <2>2. r[i] = es[k]
    <3>1. n + k \in 1..(n + m)
      BY <2>1
    <3> QED
      BY <3>1, <2>1, <1>5, <1>7
  <2> QED
    BY <2>1, <2>2, <1>9
<1>10. ASSUME NEW k \in 1..m PROVE n + k \in 0..(n + m) /\ n + k \notin 0..n /\ r[n + k] = es[k]
  <2>1. n + k \in 1..(n + m) /\ n + k \in 0..(n + m) /\ n + k \notin 0..n
    OBVIOUS
  <2> QED
    BY <2>1, <1>5, <1>7
<1>12. \A e \in new : \E i \in (0..(n + m)) \ (0..n) : r[i] = e
  BY <1>10
<1>13. new = {es[i] : i \in 1..Len(es)}
  BY <1>2
<1> HIDE DEF new
<1>11. Grown(q, r, new)
  <2>1. DOMAIN q \subseteq DOMAIN r /\ \A i \in DOMAIN q : r[i] = q[i]
    BY <1>6, <1>7, <1>8
  <2>2. \A i \in DOMAIN r \ DOMAIN q : r[i] \in new /\ \A j \in DOMAIN q : j < i
    BY <1>6, <1>7, <1>9
  <2>3. \A e \in new : \E i \in DOMAIN r \ DOMAIN q : r[i] = e
    BY <1>6, <1>7, <1>12
  <2> QED
    BY <1>6, <1>7, <2>1, <2>2, <2>3 DEF Grown
<1> QED
  BY <1>3, <1>4, <1>11, <1>13

LEMMA PendingGrowsByOne ==
    ASSUME QueueShape, QueueShape', NEW e, callbacks' = Append(callbacks, e), handling' = handling
    PROVE  Grown(Pending, Pending', {e})
<1>1. callbacks' = callbacks \o <<e>>
  <2>1. callbacks \in Seq(TrackEvents \cup LinkEvents)
    BY DEF QueueShape
  <2>2. Append(callbacks, e) = callbacks \o <<e>>
    BY <2>1
  <2> QED
    BY <2>2
<1>2. <<e>> \in Seq({e}) /\ {<<e>>[i] : i \in 1..Len(<<e>>)} = {e}
  OBVIOUS
<1>3. Grown(Pending, Pending', {<<e>>[i] : i \in 1..Len(<<e>>)})
  BY <1>1, <1>2, PendingGrows
<1> QED
  BY <1>2, <1>3

LEMMA PendingGrowsByTwo ==
    ASSUME QueueShape, QueueShape', NEW d, NEW e, callbacks' = callbacks \o <<d, e>>,
           handling' = handling
    PROVE  Grown(Pending, Pending', {d, e})
<1>1. PICK es : es = <<d, e>>
  OBVIOUS
<1>2. es \in Seq({d, e}) /\ {es[i] : i \in 1..Len(es)} = {d, e}
  BY <1>1
<1>4. PICK S : S = {d, e}
  OBVIOUS
<1>5. es \in Seq(S) /\ callbacks' = callbacks \o es
  BY <1>1, <1>2, <1>4
<1>3. Grown(Pending, Pending', {es[i] : i \in 1..Len(es)})
  BY <1>5, PendingGrows
<1> QED
  BY <1>2, <1>3

LEMMA PendingMoves ==
    ASSUME QueueShape, QueueShape', Deliver
    PROVE  Moved(Pending, Pending')
<1>1. PICK n \in Nat : n = Len(callbacks)
  BY DEF QueueShape
<1>2. callbacks \in Seq(TrackEvents \cup LinkEvents) /\ callbacks # <<>>
  BY DEF QueueShape, Deliver
<1>3. n > 0 /\ Len(callbacks') = n - 1 /\ handling' = callbacks[1]
      /\ \A i \in 1..(n - 1) : callbacks'[i] = callbacks[i + 1]
  BY <1>1, <1>2 DEF Deliver
<1>4. PICK q : q = Pending
  OBVIOUS
<1>5. PICK r : r = Pending'
  OBVIOUS
<1>6. IsQueue(q) /\ q[0] = handling /\ DOMAIN q = 0..n /\ \A i \in 1..n : q[i] = callbacks[i]
  BY <1>1, <1>4, PendingIs
<1>7. /\ IsQueue(r) /\ r[0] = handling' /\ DOMAIN r = 0..(n - 1)
      /\ \A i \in 1..(n - 1) : r[i] = callbacks'[i]
  BY <1>3, <1>5, PendingIsNext
<1>8. q[0].kind = "none"
  BY <1>6 DEF Deliver, Idle
<1>9. ASSUME NEW i \in 0..(n - 1) PROVE i + 1 \in 0..n /\ r[i] = q[i + 1]
  <2>1. i + 1 \in 1..n /\ (i = 0 \/ i \in 1..(n - 1))
    OBVIOUS
  <2>2. CASE i = 0
    BY <2>1, <2>2, <1>3, <1>6, <1>7
  <2>3. CASE i \in 1..(n - 1)
    BY <2>1, <2>3, <1>3, <1>6, <1>7
  <2> QED
    BY <2>1, <2>2, <2>3
<1>10. ASSUME NEW i \in 0..n, i # 0 PROVE i - 1 \in 0..(n - 1) /\ r[i - 1] = q[i]
  <2>1. i - 1 \in 0..(n - 1) /\ (i - 1) + 1 = i
    BY <1>10
  <2> QED
    BY <2>1, <1>9
<1>11. Moved(q, r)
  BY <1>6, <1>7, <1>8, <1>9, <1>10 DEF Moved
<1> QED
  BY <1>4, <1>5, <1>11

\* The event after a step of a handler.
GoesOn(h) ==
    \/ h = Idle
    \/ handling.kind \in {"published", "withdraw", "left"} /\ h = Event("settle", handling.track)
    \/ handling.kind = "subscribed" /\ h = Event("start", handling.track)
    \/ handling.kind = "unpublished" /\ h = Event("withdraw", handling.track)

LEMMA PendingHanded ==
    ASSUME QueueShape, QueueShape', callbacks' = callbacks, GoesOn(handling')
    PROVE  Handed(Pending, Pending', handling')
<1>1. PICK q : q = Pending
  OBVIOUS
<1>2. PICK r : r = Pending'
  OBVIOUS
<1>3. PICK h : h = handling'
  OBVIOUS
<1>4. PICK n \in Nat : n = Len(callbacks)
  BY DEF QueueShape
<1>5. IsQueue(q) /\ q[0] = handling /\ DOMAIN q = 0..n /\ \A i \in 1..n : q[i] = callbacks[i]
  BY <1>1, <1>4, PendingIs
<1>6. r[0] = h /\ DOMAIN r = 0..n /\ \A i \in 1..n : r[i] = callbacks[i]
  BY <1>2, <1>3, <1>4, PendingIsNext
<1>7. \A i \in DOMAIN q \ {0} : r[i] = q[i]
  <2>1. \A i \in 0..n : i # 0 => i \in 1..n
    OBVIOUS
  <2> QED
    BY <2>1, <1>5, <1>6
<1>8. /\ h.kind \notin {"published", "subscribed", "unsubscribed", "unpublished", "left",
                         "reconnecting"}
      /\ Plugs(h) => handling.kind = "subscribed" /\ h.track = handling.track
      /\ Removes(h) => Removes(handling) /\ h.track = handling.track
  <2>1. GoesOn(h)
    BY <1>3
  <2> QED
    BY <2>1 DEF GoesOn, Idle, Event, Plugs, Removes
<1>9. Handed(q, r, h)
  BY <1>5, <1>6, <1>7, <1>8 DEF Handed
<1> QED
  BY <1>1, <1>2, <1>3, <1>9

-----------------------------------------------------------------------------
(* The next callback comes into the hand. *)

LEMMA MovedEvents ==
    ASSUME NEW q, NEW r, Moved(q, r)
    PROVE  /\ \A i \in DOMAIN r : i \in Nat /\ i + 1 \in DOMAIN q \ {0} /\ r[i] = q[i + 1]
           /\ \A i \in DOMAIN q : i \in Nat /\ (i # 0 => i - 1 \in DOMAIN r /\ r[i - 1] = q[i])
           /\ ~Tracked(q[0]) /\ q[0].kind = "none"
<1>1. q[0].kind = "none"
  BY DEF Moved
<1>2. ~Tracked(q[0])
  BY <1>1 DEF Tracked, Registers, Plugs, Removes
<1>3. ASSUME NEW i \in DOMAIN r PROVE i \in Nat /\ i + 1 \in DOMAIN q \ {0} /\ r[i] = q[i + 1]
  <2>1. i \in Nat /\ i + 1 \in DOMAIN q /\ r[i] = q[i + 1]
    BY DEF Moved, IsQueue
  <2> QED
    BY <2>1
<1>4. ASSUME NEW i \in DOMAIN q PROVE i \in Nat /\ (i # 0 => i - 1 \in DOMAIN r /\ r[i - 1] = q[i])
  BY DEF Moved, IsQueue
<1> QED
  BY <1>1, <1>2, <1>3, <1>4

LEMMA MovedMention ==
    ASSUME NEW q, NEW r, Moved(q, r), NEW rm, NEW pb, NEW x, Mention(rm, pb, r, x)
    PROVE  Mention(rm, pb, q, x)
<1>1. CASE \E i \in DOMAIN r : Tracked(r[i]) /\ r[i].track = x
  <2>1. PICK i \in DOMAIN r : Tracked(r[i]) /\ r[i].track = x
    BY <1>1
  <2>2. i + 1 \in DOMAIN q /\ r[i] = q[i + 1]
    BY MovedEvents
  <2> QED
    BY <2>1, <2>2 DEF Mention
<1> QED
  BY <1>1 DEF Mention

LEMMA IdsFewer ==
    ASSUME NEW rm, NEW pb, NEW q, NEW n, IdsOK(rm, pb, q, n),
           NEW rm2, NEW pb2, NEW r, rm2 \subseteq rm,
           \A x : Mention(rm2, pb2, r, x) => Mention(rm, pb, q, x)
    PROVE  IdsOK(rm2, pb2, r, n)
BY DEF IdsOK

LEMMA MovedOrder ==
    ASSUME NEW q, NEW r, Moved(q, r), NEW pb, OrderOK(pb, q)
    PROVE  OrderOK(pb, r)
<1>1. ASSUME NEW i \in DOMAIN r, NEW j \in DOMAIN r,
             i < j, Tracked(r[i]), Tracked(r[j]), r[i].track.who = r[j].track.who
      PROVE  r[i].track.id <= r[j].track.id
  <2>1. /\ i + 1 \in DOMAIN q /\ r[i] = q[i + 1]
        /\ j + 1 \in DOMAIN q /\ r[j] = q[j + 1]
        /\ i + 1 < j + 1
    BY <1>1, MovedEvents
  <2> QED
    BY <1>1, <2>1 DEF OrderOK
<1>2. ASSUME NEW k \in DOMAIN pb, NEW i \in DOMAIN r,
             Tracked(r[i]), r[i].track.who = pb[k].track.who
      PROVE  pb[k].track.id <= r[i].track.id
  <2>1. i + 1 \in DOMAIN q /\ r[i] = q[i + 1]
    BY MovedEvents
  <2> QED
    BY <1>2, <2>1 DEF OrderOK
<1> QED
  BY <1>1, <1>2 DEF OrderOK

LEMMA MovedLeaves ==
    ASSUME NEW q, NEW r, Moved(q, r), NEW rm, NEW pb, LeavesOK(rm, pb, q)
    PROVE  LeavesOK(rm, pb, r)
<1>1. \A i \in DOMAIN r : Removes(r[i]) => r[i].track \notin rm
  BY MovedEvents DEF LeavesOK
<1>2. ASSUME NEW i \in DOMAIN q, Removes(q[i])
      PROVE  i \in Nat /\ i # 0 /\ i - 1 \in DOMAIN r /\ r[i - 1] = q[i]
  <2>1. i # 0
    BY <1>2, MovedEvents DEF Tracked
  <2> QED
    BY <2>1, MovedEvents
<1>3. ASSUME NEW k \in DOMAIN pb, pb[k].track \notin rm
      PROVE  \E i \in DOMAIN r : Removes(r[i]) /\ r[i].track = pb[k].track
  <2>1. PICK i \in DOMAIN q : Removes(q[i]) /\ q[i].track = pb[k].track
    BY <1>3 DEF LeavesOK
  <2> QED
    BY <2>1, <1>2
<1>4. ASSUME NEW j \in DOMAIN r, Registers(r[j]), r[j].track \notin rm
      PROVE  \E i \in DOMAIN r : i > j /\ Removes(r[i]) /\ r[i].track = r[j].track
  <2>1. j \in Nat /\ j + 1 \in DOMAIN q /\ r[j] = q[j + 1]
    BY MovedEvents
  <2>2. PICK i \in DOMAIN q : i > j + 1 /\ Removes(q[i]) /\ q[i].track = q[j + 1].track
    BY <1>4, <2>1 DEF LeavesOK
  <2>3. i \in Nat /\ i - 1 \in DOMAIN r /\ r[i - 1] = q[i]
    BY <2>2, <1>2
  <2>4. i - 1 > j
    BY <2>1, <2>2, <2>3
  <2> QED
    BY <2>1, <2>2, <2>3, <2>4
<1> QED
  BY <1>1, <1>3, <1>4 DEF LeavesOK

LEMMA MovedRegistered ==
    ASSUME NEW q, NEW r, Moved(q, r), NEW rm, NEW pb, NEW st, NEW kp,
           RegisteredOK(rm, pb, q, st, kp), KeptOK(rm, pb, q, kp)
    PROVE  RegisteredOK(rm, pb, r, st, kp) /\ KeptOK(rm, pb, r, kp)
<1>1. ASSUME NEW x \in rm, ~KnownIn(pb, x)
      PROVE  \E i \in DOMAIN r : r[i].kind = "subscribed" /\ r[i].track = x
  <2>1. PICK i \in DOMAIN q : q[i].kind = "subscribed" /\ q[i].track = x
    BY <1>1 DEF RegisteredOK
  <2>2. i # 0
    BY <2>1, MovedEvents
  <2> QED
    BY <2>1, <2>2, MovedEvents
<1>2. RegisteredOK(rm, pb, r, st, kp)
  BY <1>1 DEF RegisteredOK
<1>3. ASSUME NEW i \in DOMAIN r, r[i].kind = "reconnecting"
      PROVE  /\ \A k \in DOMAIN pb : pb[k].track \in rm => pb[k].track.id \in kp
             /\ \A j \in DOMAIN r : j < i /\ Registers(r[j]) /\ r[j].track \in rm =>
                  r[j].track.id \in kp
  <2>1. i \in Nat /\ i + 1 \in DOMAIN q /\ r[i] = q[i + 1]
    BY MovedEvents
  <2>2. \A k \in DOMAIN pb : pb[k].track \in rm => pb[k].track.id \in kp
    BY <1>3, <2>1 DEF KeptOK
  <2>3. ASSUME NEW j \in DOMAIN r, j < i, Registers(r[j]), r[j].track \in rm
        PROVE  r[j].track.id \in kp
    <3>1. j \in Nat /\ j + 1 \in DOMAIN q /\ r[j] = q[j + 1] /\ j + 1 < i + 1
      BY <2>1, <2>3, MovedEvents
    <3> QED
      BY <1>3, <2>1, <2>3, <3>1 DEF KeptOK
  <2> QED
    BY <2>2, <2>3
<1> QED
  BY <1>2, <1>3 DEF KeptOK

LEMMA MovedPlug ==
    ASSUME NEW q, NEW r, Moved(q, r), NEW x, NEW i \in DOMAIN q, PlugAt(q, i, x)
    PROVE  i \in Nat /\ i # 0 /\ i - 1 \in DOMAIN r /\ r[i - 1] = q[i] /\ PlugAt(r, i - 1, x)
<1>1. i # 0
  BY MovedEvents DEF PlugAt, Tracked
<1> QED
  BY <1>1, MovedEvents DEF PlugAt

LEMMA MovedSays ==
    ASSUME NEW q, NEW r, Moved(q, r), NEW rm, NEW sb, SaysOK(rm, sb, q)
    PROVE  SaysOK(rm, sb, r)
<1>1. ASSUME NEW x \in rm, NEW i \in DOMAIN r, PlugAt(r, i, x),
             \A j \in DOMAIN r : j > i => ~PlugAt(r, j, x)
      PROVE  (x.id \in sb) <=> (r[i].kind # "unsubscribed")
  <2>1. i \in Nat /\ i + 1 \in DOMAIN q /\ r[i] = q[i + 1]
    BY MovedEvents
  <2>2. ASSUME NEW j \in DOMAIN q, j > i + 1, PlugAt(q, j, x) PROVE FALSE
    <3>1. j \in Nat /\ j - 1 \in DOMAIN r /\ PlugAt(r, j - 1, x)
      BY <2>2, MovedPlug
    <3>2. j - 1 > i
      BY <2>1, <2>2, <3>1
    <3> QED
      BY <3>1, <3>2, <1>1
  <2>3. PlugAt(q, i + 1, x)
    BY <1>1, <2>1 DEF PlugAt
  <2> QED
    BY <2>1, <2>2, <2>3 DEF SaysOK
<1> QED
  BY <1>1 DEF SaysOK

LEMMA MovedPlays ==
    ASSUME NEW q, NEW r, Moved(q, r), NEW rm, NEW sb, NEW pb, NEW st, NEW su, NEW fl,
           PlaysOK(rm, sb, pb, q, st, su, fl)
    PROVE  PlaysOK(rm, sb, pb, r, st, su, fl)
<1>1. ASSUME NEW x, \A i \in DOMAIN r : ~PlugAt(r, i, x)
      PROVE  \A i \in DOMAIN q : ~PlugAt(q, i, x)
  BY <1>1, MovedPlug
<1> QED
  BY <1>1 DEF PlaysOK

LEMMA DeliverInv ==
    ASSUME QueueShape, QueueShape', PlaybackInv, Deliver
    PROVE  PlaybackInv'
<1>1. PICK q : q = Pending
  OBVIOUS
<1>2. PICK r : r = Pending'
  OBVIOUS
<1>3. Moved(q, r)
  BY <1>1, <1>2, PendingMoves
<1>4. UNCHANGED <<failed, backend, room, subscribed, rooms, publications, tracks, streams, silenced, volumes, orders,
                  telling, subscribing, settings, published, kept, raced>>
  BY DEF Deliver, sdkVars, clientVars, tellVars
<1>5. Ids'
  <2>1. IdsOK(room, publications, q, published)
    BY <1>1 DEF PlaybackInv, Ids
  <2>2. \A x : Mention(room, publications, r, x) => Mention(room, publications, q, x)
    BY <1>3, MovedMention
  <2>3. IdsOK(room, publications, r, published)
    BY <2>1, <2>2, IdsFewer
  <2> QED
    BY <2>3, <1>2, <1>4 DEF Ids
<1>6. InOrder'
  <2>1. OrderOK(publications, r)
    BY <1>1, <1>3, MovedOrder DEF PlaybackInv, InOrder
  <2> QED
    BY <2>1, <1>2, <1>4 DEF InOrder
<1>7. Leaves'
  <2>1. LeavesOK(room, publications, r)
    BY <1>1, <1>3, MovedLeaves DEF PlaybackInv, Leaves
  <2> QED
    BY <2>1, <1>2, <1>4 DEF Leaves
<1>8. Registered' /\ Outlives'
  <2>1. RegisteredOK(room, publications, r, streams, kept) /\ KeptOK(room, publications, r, kept)
    BY <1>1, <1>3, MovedRegistered DEF PlaybackInv, Registered, Outlives
  <2> QED
    BY <2>1, <1>2, <1>4 DEF Registered, Outlives
<1>9. Hands'
  <2>1. HandsOK(q, telling, subscribing)
    BY <1>1 DEF PlaybackInv, Hands
  <2>2. HandsOK(r, telling, subscribing)
    BY <2>1, <1>3 DEF HandsOK, Moved
  <2> QED
    BY <2>2, <1>2, <1>4 DEF Hands
<1>10. Says'
  <2>1. SaysOK(room, subscribed, r)
    BY <1>1, <1>3, MovedSays DEF PlaybackInv, Says
  <2> QED
    BY <2>1, <1>2, <1>4 DEF Says
<1>11. Playing' /\ Tells' /\ Told' /\ Asked'
  BY <1>4 DEF PlaybackInv, Playing, Tells, Told, Asked
<1>12. PlaysAsTold'
  <2>1. ~raced => PlaysOK(room, subscribed, publications, r, streams, subscribing, failed)
    BY <1>1, <1>3, MovedPlays DEF PlaybackInv, PlaysAsTold
  <2> QED
    BY <2>1, <1>2, <1>4 DEF PlaysAsTold
<1> QED
  BY <1>5, <1>6, <1>7, <1>8, <1>9, <1>10, <1>11, <1>12 DEF PlaybackInv

-----------------------------------------------------------------------------
(* Events are added: what the room does, and what it is asked to do. *)

LEMMA GrownEvents ==
    ASSUME NEW q, NEW r, NEW new, Grown(q, r, new), NEW i \in DOMAIN r
    PROVE  /\ i \in Nat
           /\ \/ i \in DOMAIN q /\ r[i] = q[i]
              \/ i \notin DOMAIN q /\ r[i] \in new /\ \A j \in DOMAIN q : j < i
BY DEF Grown, IsQueue

LEMMA GrownMention ==
    ASSUME NEW q, NEW r, NEW new, Grown(q, r, new), NEW rm, NEW rm2, NEW pb, NEW x,
           Mention(rm2, pb, r, x)
    PROVE  \/ x \in rm2
           \/ Mention(rm, pb, q, x)
           \/ \E e \in new : Tracked(e) /\ e.track = x
<1>1. CASE \E i \in DOMAIN r : Tracked(r[i]) /\ r[i].track = x
  <2>1. PICK i \in DOMAIN r : Tracked(r[i]) /\ r[i].track = x
    BY <1>1
  <2>2. CASE i \in DOMAIN q /\ r[i] = q[i]
    BY <2>1, <2>2 DEF Mention
  <2>3. CASE r[i] \in new
    BY <2>1, <2>3
  <2> QED
    BY <2>2, <2>3, GrownEvents
<1> QED
  BY <1>1 DEF Mention

\* Events about tracks that were already mentioned.
LEMMA GrownIds ==
    ASSUME NEW q, NEW r, NEW new, Grown(q, r, new), NEW rm, NEW rm2, rm2 \subseteq rm, NEW pb, NEW n,
           IdsOK(rm, pb, q, n), \A e \in new : Tracked(e) => e.track \in rm
    PROVE  IdsOK(rm2, pb, r, n)
<1>1. ASSUME NEW x, Mention(rm2, pb, r, x) PROVE Mention(rm, pb, q, x)
  <2>1. \A y \in rm : Mention(rm, pb, q, y)
    BY DEF Mention
  <2> QED
    BY <1>1, <2>1, GrownMention
<1> QED
  BY <1>1, IdsFewer

\* A new track.
LEMMA GrownIdsNew ==
    ASSUME NEW q, NEW r, NEW new, Grown(q, r, new), NEW rm, NEW pb, NEW n \in Nat,
           IdsOK(rm, pb, q, n), NEW x \in Tracks, x.id = n + 1,
           \A e \in new : Tracked(e) => e.track = x,
           \A y \in rm : y.who # x.who
    PROVE  IdsOK(rm \cup {x}, pb, r, n + 1)
<1>1. ASSUME NEW y, Mention(rm \cup {x}, pb, r, y) PROVE y = x \/ Mention(rm, pb, q, y)
  <2>1. \A z \in rm : Mention(rm, pb, q, z)
    BY DEF Mention
  <2> QED
    BY <1>1, <2>1, GrownMention
<1>2. ASSUME NEW y, Mention(rm, pb, q, y) PROVE y \in Tracks /\ y.id <= n /\ y.id \in Nat
  BY <1>2 DEF IdsOK, Tracks
<1>3. ASSUME NEW y, Mention(rm \cup {x}, pb, r, y) PROVE y \in Tracks /\ y.id <= n + 1
  BY <1>1, <1>2, <1>3
<1>4. ASSUME NEW y, NEW z, Mention(rm \cup {x}, pb, r, y), Mention(rm \cup {x}, pb, r, z), y.id = z.id
      PROVE  y = z
  <2>1. CASE y = x /\ z = x
    BY <2>1
  <2>2. CASE Mention(rm, pb, q, y) /\ Mention(rm, pb, q, z)
    BY <2>2, <1>4 DEF IdsOK
  <2>3. CASE y = x /\ Mention(rm, pb, q, z)
    BY <2>3, <1>2, <1>4
  <2>4. CASE z = x /\ Mention(rm, pb, q, y)
    BY <2>4, <1>2, <1>4
  <2> QED
    BY <2>1, <2>2, <2>3, <2>4, <1>1, <1>4
<1>5. ASSUME NEW y \in rm \cup {x}, NEW z, Mention(rm \cup {x}, pb, r, z), y.who = z.who
      PROVE  z.id <= y.id
  <2>1. CASE y = x
    BY <2>1, <1>3, <1>5
  <2>2. CASE y \in rm /\ z = x
    BY <2>2, <1>5
  <2>3. CASE y \in rm /\ Mention(rm, pb, q, z)
    BY <2>3, <1>5 DEF IdsOK
  <2> QED
    BY <2>1, <2>2, <2>3, <1>1, <1>5
<1> QED
  BY <1>3, <1>4, <1>5 DEF IdsOK

LEMMA GrownOrder ==
    ASSUME NEW q, NEW r, NEW new, Grown(q, r, new), NEW rm, NEW pb, NEW n, IdsOK(rm, pb, q, n),
           OrderOK(pb, q), NEW x \in Tracks,
           \A e \in new : Tracked(e) => e.track = x,
           \A y : Mention(rm, pb, q, y) /\ y.who = x.who => y.id <= x.id
    PROVE  OrderOK(pb, r)
<1>1. ASSUME NEW i \in DOMAIN r, NEW j \in DOMAIN r,
             i < j, Tracked(r[i]), Tracked(r[j]), r[i].track.who = r[j].track.who
      PROVE  r[i].track.id <= r[j].track.id
  <2>1. CASE j \in DOMAIN q /\ r[j] = q[j]
    <3>1. i \in DOMAIN q /\ r[i] = q[i]
      <4>1. i \in Nat /\ j \in Nat
        BY GrownEvents
      <4>2. i \notin DOMAIN q => j < i
        BY <2>1, GrownEvents
      <4> QED
        BY <4>1, <4>2, <1>1, GrownEvents
    <3> QED
      BY <3>1, <2>1, <1>1 DEF OrderOK
  <2>2. CASE r[j] \in new
    <3>1. r[j].track = x
      BY <2>2, <1>1
    <3>2. CASE i \in DOMAIN q /\ r[i] = q[i]
      <4>1. Mention(rm, pb, q, r[i].track)
        BY <3>2, <1>1 DEF Mention
      <4> QED
        BY <4>1, <3>1, <1>1
    <3>3. CASE r[i] \in new
      <4>1. r[i].track = x /\ x.id \in Int
        BY <3>3, <1>1 DEF Tracks
      <4> QED
        BY <4>1, <3>1
    <3> QED
      BY <3>2, <3>3, GrownEvents
  <2> QED
    BY <2>1, <2>2, GrownEvents
<1>2. ASSUME NEW k \in DOMAIN pb, NEW i \in DOMAIN r,
             Tracked(r[i]), r[i].track.who = pb[k].track.who
      PROVE  pb[k].track.id <= r[i].track.id
  <2>1. CASE i \in DOMAIN q /\ r[i] = q[i]
    BY <2>1, <1>2 DEF OrderOK
  <2>2. CASE r[i] \in new
    <3>1. r[i].track = x
      BY <2>2, <1>2
    <3>2. Mention(rm, pb, q, pb[k].track)
      BY DEF Mention
    <3> QED
      BY <3>1, <3>2, <1>2
  <2> QED
    BY <2>1, <2>2, GrownEvents
<1> QED
  BY <1>1, <1>2 DEF OrderOK

LEMMA GrownLeaves ==
    ASSUME NEW q, NEW r, NEW new, Grown(q, r, new), NEW rm, NEW rm2, NEW pb, LeavesOK(rm, pb, q),
           \A y : Mention(rm, pb, q, y) /\ y \in rm2 => y \in rm,
           \A e \in new : Removes(e) => e.track \notin rm2,
           \A e \in new : Registers(e) => e.track \in rm2,
           \A y \in rm \ rm2 : \E e \in new : Removes(e) /\ e.track = y
    PROVE  LeavesOK(rm2, pb, r)
<1>0. ASSUME NEW y \in rm \ rm2
      PROVE  \E i \in DOMAIN r : (\A j \in DOMAIN q : i > j) /\ Removes(r[i]) /\ r[i].track = y
  <2>1. PICK e \in new : Removes(e) /\ e.track = y
    OBVIOUS
  <2>2. PICK i \in DOMAIN r \ DOMAIN q : r[i] = e
    BY DEF Grown
  <2>3. \A j \in DOMAIN q : i > j
    <3>1. i \in Nat /\ \A j \in DOMAIN q : j < i /\ j \in Nat
      BY <2>2 DEF Grown, IsQueue
    <3> QED
      BY <3>1
  <2> QED
    BY <2>1, <2>2, <2>3
<1>1. ASSUME NEW i \in DOMAIN r, Removes(r[i]) PROVE r[i].track \notin rm2
  <2>1. CASE i \in DOMAIN q /\ r[i] = q[i]
    <3>1. Mention(rm, pb, q, q[i].track) /\ q[i].track \notin rm
      BY <2>1, <1>1 DEF LeavesOK, Mention, Tracked
    <3> QED
      BY <3>1, <2>1
  <2>2. CASE r[i] \in new
    BY <2>2, <1>1
  <2> QED
    BY <2>1, <2>2, GrownEvents
<1>2. ASSUME NEW k \in DOMAIN pb, pb[k].track \notin rm2
      PROVE  \E i \in DOMAIN r : Removes(r[i]) /\ r[i].track = pb[k].track
  <2>1. CASE pb[k].track \in rm
    BY <2>1, <1>0, <1>2
  <2>2. CASE pb[k].track \notin rm
    <3>1. PICK i \in DOMAIN q : Removes(q[i]) /\ q[i].track = pb[k].track
      BY <2>2 DEF LeavesOK
    <3>2. i \in DOMAIN r /\ r[i] = q[i]
      BY DEF Grown
    <3> QED
      BY <3>1, <3>2
  <2> QED
    BY <2>1, <2>2
<1>3. ASSUME NEW j \in DOMAIN r, Registers(r[j]), r[j].track \notin rm2
      PROVE  \E i \in DOMAIN r : i > j /\ Removes(r[i]) /\ r[i].track = r[j].track
  <2>1. j \in DOMAIN q /\ r[j] = q[j]
    BY <1>3, GrownEvents
  <2>2. CASE q[j].track \in rm
    BY <2>1, <2>2, <1>0, <1>3
  <2>3. CASE q[j].track \notin rm
    <3>1. PICK i \in DOMAIN q : i > j /\ Removes(q[i]) /\ q[i].track = q[j].track
      BY <2>1, <2>3, <1>3 DEF LeavesOK
    <3>2. i \in DOMAIN r /\ r[i] = q[i]
      BY DEF Grown
    <3> QED
      BY <3>1, <3>2, <2>1
  <2> QED
    BY <2>2, <2>3
<1> QED
  BY <1>1, <1>2, <1>3 DEF LeavesOK

LEMMA GrownRegistered ==
    ASSUME NEW q, NEW r, NEW new, Grown(q, r, new), NEW rm, NEW rm2, NEW pb, NEW st, NEW kp, NEW kp2,
           RegisteredOK(rm, pb, q, st, kp), kp \subseteq kp2,
           \A y \in rm2 : y \notin rm =>
              ~KnownIn(pb, y) /\ \E e \in new : e.kind = "subscribed" /\ e.track = y
    PROVE  RegisteredOK(rm2, pb, r, st, kp2)
<1>1. ASSUME NEW x \in rm2, ~KnownIn(pb, x)
      PROVE  \E i \in DOMAIN r : r[i].kind = "subscribed" /\ r[i].track = x
  <2>1. CASE x \in rm
    <3>1. PICK i \in DOMAIN q : q[i].kind = "subscribed" /\ q[i].track = x
      BY <1>1, <2>1 DEF RegisteredOK
    <3>2. i \in DOMAIN r /\ r[i] = q[i]
      BY DEF Grown
    <3> QED
      BY <3>1, <3>2
  <2>2. CASE x \notin rm
    BY <2>2 DEF Grown
  <2> QED
    BY <2>1, <2>2
<1>2. \A x \in rm2 : KnownIn(pb, x) /\ x.id \notin kp2 => \E s \in st : StreamKey(s) = Key(x)
  BY DEF RegisteredOK
<1> QED
  BY <1>1, <1>2 DEF RegisteredOK

LEMMA GrownKept ==
    ASSUME NEW q, NEW r, NEW new, Grown(q, r, new), NEW rm, NEW rm2, NEW pb, NEW kp, NEW kp2,
           KeptOK(rm, pb, q, kp), kp \subseteq kp2,
           \A y : Mention(rm, pb, q, y) /\ y \in rm2 => y \in rm,
           \A e \in new : e.kind = "reconnecting" => \A y \in rm2 : y.id \in kp2
    PROVE  KeptOK(rm2, pb, r, kp2)
<1>1. ASSUME NEW i \in DOMAIN r, r[i].kind = "reconnecting"
      PROVE  /\ \A k \in DOMAIN pb : pb[k].track \in rm2 => pb[k].track.id \in kp2
             /\ \A j \in DOMAIN r : j < i /\ Registers(r[j]) /\ r[j].track \in rm2 =>
                  r[j].track.id \in kp2
  <2>1. CASE r[i] \in new
    BY <2>1, <1>1
  <2>2. CASE i \in DOMAIN q /\ r[i] = q[i]
    <3>1. ASSUME NEW k \in DOMAIN pb, pb[k].track \in rm2 PROVE pb[k].track.id \in kp2
      <4>1. pb[k].track \in rm
        BY <3>1 DEF Mention
      <4> QED
        BY <4>1, <2>2, <1>1 DEF KeptOK
    <3>2. ASSUME NEW j \in DOMAIN r, j < i, Registers(r[j]), r[j].track \in rm2
          PROVE  r[j].track.id \in kp2
      <4>1. j \in DOMAIN q /\ r[j] = q[j]
        <5>1. i \in Nat /\ j \in Nat /\ (j \notin DOMAIN q => i < j)
          BY <2>2, GrownEvents
        <5> QED
          BY <5>1, <3>2, GrownEvents
      <4>2. q[j].track \in rm
        BY <4>1, <3>2 DEF Mention, Tracked
      <4> QED
        BY <4>1, <4>2, <3>2, <2>2, <1>1 DEF KeptOK
    <3> QED
      BY <3>1, <3>2
  <2> QED
    BY <2>1, <2>2, GrownEvents
<1> QED
  BY <1>1 DEF KeptOK

LEMMA GrownSays ==
    ASSUME NEW q, NEW r, NEW new, Grown(q, r, new), NEW rm, NEW rm2, NEW sb, NEW sb2,
           SaysOK(rm, sb, q),
           \A y \in rm2 :
              \/ /\ y \in rm /\ ((y.id \in sb2) <=> (y.id \in sb))
                 /\ \A e \in new : Plugs(e) => e.track # y
              \/ /\ \E e \in new : Plugs(e) /\ e.track = y
                 /\ \A e \in new : Plugs(e) /\ e.track = y =>
                      ((y.id \in sb2) <=> (e.kind # "unsubscribed"))
    PROVE  SaysOK(rm2, sb2, r)
<1>1. ASSUME NEW x \in rm2, NEW i \in DOMAIN r, PlugAt(r, i, x),
             \A j \in DOMAIN r : j > i => ~PlugAt(r, j, x)
      PROVE  (x.id \in sb2) <=> (r[i].kind # "unsubscribed")
  <2>1. CASE /\ x \in rm /\ ((x.id \in sb2) <=> (x.id \in sb))
             /\ \A e \in new : Plugs(e) => e.track # x
    <3>1. i \in DOMAIN q /\ r[i] = q[i]
      BY <2>1, <1>1, GrownEvents DEF PlugAt
    <3>2. ASSUME NEW j \in DOMAIN q, j > i PROVE ~PlugAt(q, j, x)
      <4>1. j \in DOMAIN r /\ r[j] = q[j]
        BY DEF Grown
      <4> QED
        BY <4>1, <3>2, <1>1 DEF PlugAt
    <3>3. PlugAt(q, i, x)
      BY <3>1, <1>1 DEF PlugAt
    <3> QED
      BY <3>1, <3>2, <3>3, <2>1 DEF SaysOK
  <2>2. CASE /\ \E e \in new : Plugs(e) /\ e.track = x
             /\ \A e \in new : Plugs(e) /\ e.track = x =>
                  ((x.id \in sb2) <=> (e.kind # "unsubscribed"))
    <3>1. r[i] \in new
      <4>1. PICK e \in new : Plugs(e) /\ e.track = x
        BY <2>2
      <4>2. PICK j \in DOMAIN r \ DOMAIN q : r[j] = e
        BY DEF Grown
      <4>3. PlugAt(r, j, x)
        BY <4>1, <4>2 DEF PlugAt
      <4>4. i \in Nat /\ j \in Nat /\ ~(j > i)
        BY <4>2, <4>3, <1>1, GrownEvents
      <4>5. i \in DOMAIN q => i < j
        BY <4>2, GrownEvents
      <4> QED
        BY <4>4, <4>5, GrownEvents
    <3> QED
      BY <3>1, <2>2, <1>1 DEF PlugAt
  <2> QED
    BY <2>1, <2>2
<1> QED
  BY <1>1 DEF SaysOK

LEMMA GrownPlays ==
    ASSUME NEW q, NEW r, NEW new, Grown(q, r, new), NEW rm, NEW rm2, NEW sb, NEW sb2, NEW pb, NEW st,
           NEW su, NEW fl, PlaysOK(rm, sb, pb, q, st, su, fl),
           \A s \in st : pb[StreamKey(s)].track \in rm2 =>
              /\ pb[StreamKey(s)].track \in rm
              /\ \/ \E e \in new : Plugs(e) /\ e.track = pb[StreamKey(s)].track
                 \/ (pb[StreamKey(s)].track.id \in sb2) <=> (pb[StreamKey(s)].track.id \in sb)
    PROVE  PlaysOK(rm2, sb2, pb, r, st, su, fl)
<1>1. ASSUME NEW s \in st, NEW x, x = pb[StreamKey(s)].track, x \in rm2,
             \A i \in DOMAIN r : ~PlugAt(r, i, x)
      PROVE  /\ x \in rm /\ ((x.id \in sb2) <=> (x.id \in sb))
             /\ \A i \in DOMAIN q : ~PlugAt(q, i, x)
  <2>1. ASSUME NEW e \in new, Plugs(e), e.track = x PROVE FALSE
    <3>1. PICK i \in DOMAIN r \ DOMAIN q : r[i] = e
      BY DEF Grown
    <3> QED
      BY <3>1, <2>1, <1>1 DEF PlugAt
  <2>2. ASSUME NEW i \in DOMAIN q PROVE ~PlugAt(q, i, x)
    <3>1. i \in DOMAIN r /\ r[i] = q[i]
      BY DEF Grown
    <3> QED
      BY <3>1, <1>1 DEF PlugAt
  <2> QED
    BY <2>1, <2>2, <1>1
<1> QED
  BY <1>1 DEF PlaysOK

\* Tracks that a state mentions.
LEMMA MentionFacts ==
    ASSUME NEW rm, NEW pb, NEW q
    PROVE  /\ \A x \in rm : Mention(rm, pb, q, x)
           /\ \A k \in DOMAIN pb : Mention(rm, pb, q, pb[k].track)
           /\ \A i \in DOMAIN q : Tracked(q[i]) => Mention(rm, pb, q, q[i].track)
BY DEF Mention

\* The streams' publications and their subscriptions stay as they are.
LEMMA AskedSame ==
    ASSUME NEW rm, NEW rm2, NEW sb, NEW sb2, NEW pb, NEW st, NEW te, NEW su, NEW fl,
           AskedOK(rm, sb, pb, st, te, su, fl),
           \A s \in st : pb[StreamKey(s)].track \in rm2 =>
              /\ pb[StreamKey(s)].track \in rm
              /\ (pb[StreamKey(s)].track.id \in sb2) <=> (pb[StreamKey(s)].track.id \in sb)
    PROVE  AskedOK(rm2, sb2, pb, st, te, su, fl)
BY DEF AskedOK

LEMMA PublishInv ==
    ASSUME RemoteShape, QueueShape', PlaybackInv, NEW s \in Speakers, Publish(s[1], s[2])
    PROVE  PlaybackInv'
<1>1. PICK q : q = Pending
  OBVIOUS
<1>2. PICK r : r = Pending'
  OBVIOUS
<1>3. PICK x : x = [id |-> published', scope |-> s[1], who |-> s[2]]
  OBVIOUS
<1>4. x \in Tracks /\ x.id = published + 1 /\ x.who = s[2] /\ published \in Nat
  <2>1. s[1] \in RemoteScopes /\ s[2] \in Talkers
    BY DEF RemoteScopes, Talkers
  <2>2. published' = published + 1 /\ published' \in 1..MaxPublications /\ published \in Nat
    BY RemoteAssumption DEF Publish, RemoteShape, RoomShape
  <2> QED
    BY <1>3, <2>1, <2>2 DEF Tracks
<1>5. /\ room' = room \cup {x} /\ subscribed' = subscribed \cup {x.id} /\ published' = published + 1
      /\ \A y \in room : y.who # x.who
      /\ UNCHANGED <<failed, backend, handling, rooms, publications, tracks, subscribing, settings, kept, streams,
                     telling, raced>>
  BY <1>3, <1>4 DEF Publish, clientVars, tellVars
<1> DEFINE new == {Event("published", x), Event("subscribed", x)}
<1>6. Grown(q, r, new)
  <2>1. \/ callbacks' = callbacks \o <<Event("published", x), Event("subscribed", x)>>
        \/ callbacks' = callbacks \o <<Event("subscribed", x), Event("published", x)>>
    BY <1>3 DEF Publish
  <2>2. CASE callbacks' = callbacks \o <<Event("published", x), Event("subscribed", x)>>
    BY <2>2, <1>1, <1>2, <1>5, PendingGrowsByTwo DEF RemoteShape
  <2>3. CASE callbacks' = callbacks \o <<Event("subscribed", x), Event("published", x)>>
    <3>1. Grown(q, r, {Event("subscribed", x), Event("published", x)})
      BY <2>3, <1>1, <1>2, <1>5, PendingGrowsByTwo DEF RemoteShape
    <3>2. {Event("subscribed", x), Event("published", x)} = new
      OBVIOUS
    <3> QED
      BY <3>1, <3>2
  <2> QED
    BY <2>1, <2>2, <2>3
<1>7. /\ \A e \in new : e.track = x /\ ~Removes(e) /\ e.kind # "reconnecting" /\ e.kind # "unsubscribed"
      /\ \E e \in new : e.kind = "subscribed" /\ Plugs(e) /\ e.track = x
  BY DEF Event, Removes, Plugs
<1> HIDE DEF new
<1>8. IdsOK(room, publications, q, published) /\ OrderOK(publications, q)
  BY <1>1 DEF PlaybackInv, Ids, InOrder
<1>9. ASSUME NEW y, Mention(room, publications, q, y) PROVE y # x /\ y.id # x.id /\ y.id <= x.id
  <2>1. y \in Tracks /\ y.id <= published
    BY <1>8, <1>9 DEF IdsOK
  <2>2. y.id \in Nat
    BY <2>1 DEF Tracks
  <2> QED
    BY <2>1, <2>2, <1>4
<1>10. Ids'
  <2>1. IdsOK(room \cup {x}, publications, r, published + 1)
    BY <1>4, <1>5, <1>6, <1>7, <1>8, GrownIdsNew
  <2> QED
    BY <2>1, <1>2, <1>5 DEF Ids
<1>11. InOrder'
  <2>1. OrderOK(publications, r)
    BY <1>4, <1>6, <1>7, <1>8, <1>9, GrownOrder
  <2> QED
    BY <2>1, <1>2, <1>5 DEF InOrder
<1> DEFINE rm2 == room \cup {x}
<1>12. \A y : Mention(room, publications, q, y) /\ y \in rm2 => y \in room
  BY <1>9
<1>13. Leaves'
  <2>1. LeavesOK(room, publications, q)
    BY <1>1 DEF PlaybackInv, Leaves
  <2>2. /\ \A e \in new : Removes(e) => e.track \notin rm2
        /\ \A e \in new : Registers(e) => e.track \in rm2
        /\ \A y \in room \ rm2 : \E e \in new : Removes(e) /\ e.track = y
    BY <1>7
  <2> HIDE DEF rm2
  <2>3. LeavesOK(rm2, publications, r)
    BY <2>1, <2>2, <1>6, <1>12, GrownLeaves
  <2> QED
    BY <2>3, <1>2, <1>5 DEF Leaves, rm2
<1>14. Registered'
  <2>1. RegisteredOK(room, publications, q, streams, kept)
    BY <1>1 DEF PlaybackInv, Registered
  <2>2. ~KnownIn(publications, x)
    <3>1. ASSUME KnownIn(publications, x) PROVE FALSE
      <4>1. Mention(room, publications, q, publications[Key(x)].track)
        BY <3>1, MentionFacts DEF KnownIn
      <4> QED
        BY <4>1, <3>1, <1>9 DEF KnownIn
    <3> QED
      BY <3>1
  <2>3. \A y \in rm2 : y \notin room =>
              ~KnownIn(publications, y) /\ \E e \in new : e.kind = "subscribed" /\ e.track = y
    BY <2>2, <1>7
  <2> HIDE DEF rm2
  <2>4. RegisteredOK(rm2, publications, r, streams, kept)
    BY <2>1, <2>3, <1>6, GrownRegistered
  <2> QED
    BY <2>4, <1>2, <1>5 DEF Registered, rm2
<1>15. Outlives'
  <2>1. KeptOK(room, publications, q, kept)
    BY <1>1 DEF PlaybackInv, Outlives
  <2>2. \A e \in new : e.kind = "reconnecting" => \A y \in rm2 : y.id \in kept
    BY <1>7
  <2> HIDE DEF rm2
  <2>3. KeptOK(rm2, publications, r, kept)
    BY <2>1, <2>2, <1>6, <1>12, GrownKept
  <2> QED
    BY <2>3, <1>2, <1>5 DEF Outlives, rm2
<1>16. Hands'
  <2>1. HandsOK(q, telling, subscribing)
    BY <1>1 DEF PlaybackInv, Hands
  <2>2. r[0] = q[0]
    BY <1>6 DEF Grown, IsQueue
  <2> QED
    BY <2>1, <2>2, <1>2, <1>5 DEF Hands, HandsOK
<1>17. Says'
  <2>1. SaysOK(room, subscribed, q)
    BY <1>1 DEF PlaybackInv, Says
  <2> DEFINE sb2 == subscribed \cup {x.id}
  <2>2. ASSUME NEW y \in rm2
        PROVE  \/ /\ y \in room /\ ((y.id \in sb2) <=> (y.id \in subscribed))
                  /\ \A e \in new : Plugs(e) => e.track # y
               \/ /\ \E e \in new : Plugs(e) /\ e.track = y
                  /\ \A e \in new : Plugs(e) /\ e.track = y =>
                       ((y.id \in sb2) <=> (e.kind # "unsubscribed"))
    <3>1. CASE y = x
      BY <3>1, <1>7
    <3>2. CASE y \in room
      <4>1. y # x /\ y.id # x.id
        BY <3>2, <1>9, MentionFacts
      <4> QED
        BY <3>2, <4>1, <1>7
    <3> QED
      BY <3>1, <3>2
  <2> HIDE DEF sb2, rm2
  <2>3. SaysOK(rm2, sb2, r)
    BY <2>1, <2>2, <1>6, GrownSays
  <2> QED
    BY <2>3, <1>2, <1>5 DEF Says, sb2, rm2
<1>18. Playing' /\ Tells' /\ Told'
  BY <1>5 DEF PlaybackInv, Playing, Tells, Told
<1>19. ASSUME NEW u \in streams
       PROVE  LET y == publications[StreamKey(u)].track
              IN  y \in rm2 => y \in room /\ ((y.id \in subscribed \cup {x.id}) <=> (y.id \in subscribed))
  <2>1. StreamKey(u) \in DOMAIN publications
    BY DEF PlaybackInv, Registered, RegisteredOK
  <2>2. PICK y : y = publications[StreamKey(u)].track
    OBVIOUS
  <2>3. Mention(room, publications, q, y)
    BY <2>1, <2>2, MentionFacts
  <2> QED
    BY <2>2, <2>3, <1>9
<1>20. Asked'
  <2>1. ASSUME ~raced PROVE AskedOK(rm2, subscribed \cup {x.id}, publications, streams, telling, subscribing, failed)
    <3>1. AskedOK(room, subscribed, publications, streams, telling, subscribing, failed)
      BY <2>1 DEF PlaybackInv, Asked
    <3> HIDE DEF rm2
    <3> QED
      BY <3>1, <1>19, AskedSame
  <2> QED
    BY <2>1, <1>5 DEF Asked
<1>21. PlaysAsTold'
  <2>1. ASSUME ~raced PROVE PlaysOK(rm2, subscribed \cup {x.id}, publications, r, streams, subscribing, failed)
    <3>1. PlaysOK(room, subscribed, publications, q, streams, subscribing, failed)
      BY <2>1, <1>1 DEF PlaybackInv, PlaysAsTold
    <3> HIDE DEF rm2
    <3> QED
      BY <3>1, <1>6, <1>19, GrownPlays
  <2> QED
    BY <2>1, <1>2, <1>5 DEF PlaysAsTold
<1> QED
  BY <1>10, <1>11, <1>13, <1>14, <1>15, <1>16, <1>17, <1>18, <1>20, <1>21 DEF PlaybackInv

\* The events with which a track goes.
LEMMA WithdrawGrows ==
    ASSUME QueueShape, QueueShape', NEW x, Withdraw(x)
    PROVE  \E new : /\ Grown(Pending, Pending', new)
                    /\ \A e \in new : e.track = x /\ ~Registers(e) /\ e.kind # "reconnecting"
                    /\ \E e \in new : Removes(e) /\ e.track = x
<1>1. handling' = handling
  BY DEF Withdraw
<1>2. callbacks \in Seq(TrackEvents \cup LinkEvents)
  BY DEF QueueShape
<1>3. \/ callbacks' = callbacks \o <<Event("unsubscribed", x)>> \o <<Event("unpublished", x)>>
      \/ callbacks' = callbacks \o <<>> \o <<Event("unpublished", x)>>
      \/ callbacks' = Append(callbacks, Event("left", x))
  BY DEF Withdraw
<1>4. PICK u : u = Event("unsubscribed", x)
  OBVIOUS
<1>5. PICK p : p = Event("unpublished", x)
  OBVIOUS
<1>6. PICK l : l = Event("left", x)
  OBVIOUS
<1>7. /\ u.track = x /\ u.kind = "unsubscribed"
      /\ p.track = x /\ p.kind = "unpublished"
      /\ l.track = x /\ l.kind = "left"
  BY <1>4, <1>5, <1>6 DEF Event
<1>8. CASE callbacks' = callbacks \o <<Event("unsubscribed", x)>> \o <<Event("unpublished", x)>>
  <2>1. callbacks' = callbacks \o <<u, p>>
    BY <1>2, <1>4, <1>5, <1>8
  <2>2. Grown(Pending, Pending', {u, p})
    BY <2>1, <1>1, PendingGrowsByTwo
  <2>3. PICK new : new = {u, p}
    OBVIOUS
  <2>4. /\ \A e \in new : e.track = x /\ ~Registers(e) /\ e.kind # "reconnecting"
        /\ \E e \in new : Removes(e) /\ e.track = x
    BY <2>3, <1>7 DEF Registers, Removes
  <2> QED
    BY <2>2, <2>3, <2>4
<1>9. CASE callbacks' = callbacks \o <<>> \o <<Event("unpublished", x)>>
  <2>1. callbacks' = Append(callbacks, p)
    BY <1>2, <1>5, <1>9
  <2>2. Grown(Pending, Pending', {p})
    BY <2>1, <1>1, PendingGrowsByOne
  <2>3. PICK new : new = {p}
    OBVIOUS
  <2>4. /\ \A e \in new : e.track = x /\ ~Registers(e) /\ e.kind # "reconnecting"
        /\ \E e \in new : Removes(e) /\ e.track = x
    BY <2>3, <1>7 DEF Registers, Removes
  <2> QED
    BY <2>2, <2>3, <2>4
<1>10. CASE callbacks' = Append(callbacks, Event("left", x))
  <2>1. Grown(Pending, Pending', {l})
    BY <1>1, <1>6, <1>10, PendingGrowsByOne
  <2>2. PICK new : new = {l}
    OBVIOUS
  <2>3. /\ \A e \in new : e.track = x /\ ~Registers(e) /\ e.kind # "reconnecting"
        /\ \E e \in new : Removes(e) /\ e.track = x
    BY <2>2, <1>7 DEF Registers, Removes
  <2> QED
    BY <2>1, <2>2, <2>3
<1> QED
  BY <1>3, <1>8, <1>9, <1>10

LEMMA WithdrawInv ==
    ASSUME RemoteShape, QueueShape', PlaybackInv, NEW x \in room, Withdraw(x)
    PROVE  PlaybackInv'
<1>1. PICK q : q = Pending
  OBVIOUS
<1>2. PICK r : r = Pending'
  OBVIOUS
<1>3. PICK new : /\ Grown(q, r, new)
                 /\ \A e \in new : e.track = x /\ ~Registers(e) /\ e.kind # "reconnecting"
                 /\ \E e \in new : Removes(e) /\ e.track = x
  BY <1>1, <1>2, WithdrawGrows DEF RemoteShape
<1>4. /\ room' = room \ {x} /\ subscribed' = subscribed \ {x.id}
      /\ UNCHANGED <<failed, backend, handling, rooms, publications, tracks, subscribing, settings, published, kept,
                     streams, telling, raced>>
  BY DEF Withdraw, clientVars, tellVars
<1>5. PICK rm2 : rm2 = room \ {x}
  OBVIOUS
<1>6. PICK sb2 : sb2 = subscribed \ {x.id}
  OBVIOUS
<1>7. IdsOK(room, publications, q, published) /\ OrderOK(publications, q)
  BY <1>1 DEF PlaybackInv, Ids, InOrder
<1>8. x \in Tracks
  BY DEF RemoteShape, RoomShape
<1>9. ASSUME NEW y, y \in rm2 PROVE y \in room /\ y # x /\ y.id # x.id
  <2>1. y \in room /\ y # x
    BY <1>5, <1>9
  <2>2. Mention(room, publications, q, y) /\ Mention(room, publications, q, x)
    BY <2>1, MentionFacts
  <2> QED
    BY <2>1, <2>2, <1>7 DEF IdsOK
<1>10. Ids'
  <2>1. IdsOK(rm2, publications, r, published)
    BY <1>3, <1>5, <1>7, GrownIds
  <2> QED
    BY <2>1, <1>2, <1>4, <1>5 DEF Ids
<1>11. InOrder'
  <2>1. \A y : Mention(room, publications, q, y) /\ y.who = x.who => y.id <= x.id
    BY <1>7 DEF IdsOK
  <2>2. OrderOK(publications, r)
    BY <2>1, <1>3, <1>7, <1>8, GrownOrder
  <2> QED
    BY <2>2, <1>2, <1>4 DEF InOrder
<1>12. Leaves'
  <2>1. LeavesOK(room, publications, q)
    BY <1>1 DEF PlaybackInv, Leaves
  <2>2. /\ \A e \in new : Removes(e) => e.track \notin rm2
        /\ \A e \in new : Registers(e) => e.track \in rm2
        /\ \A y \in room \ rm2 : \E e \in new : Removes(e) /\ e.track = y
    BY <1>3, <1>5
  <2>3. LeavesOK(rm2, publications, r)
    BY <2>1, <2>2, <1>3, <1>9, GrownLeaves
  <2> QED
    BY <2>3, <1>2, <1>4, <1>5 DEF Leaves
<1>13. Registered'
  <2>1. RegisteredOK(room, publications, q, streams, kept)
    BY <1>1 DEF PlaybackInv, Registered
  <2>2. RegisteredOK(rm2, publications, r, streams, kept)
    BY <2>1, <1>3, <1>9, GrownRegistered
  <2> QED
    BY <2>2, <1>2, <1>4, <1>5 DEF Registered
<1>14. Outlives'
  <2>1. KeptOK(room, publications, q, kept)
    BY <1>1 DEF PlaybackInv, Outlives
  <2>2. KeptOK(rm2, publications, r, kept)
    BY <2>1, <1>3, <1>9, GrownKept
  <2> QED
    BY <2>2, <1>2, <1>4, <1>5 DEF Outlives
<1>15. Hands'
  <2>1. HandsOK(q, telling, subscribing)
    BY <1>1 DEF PlaybackInv, Hands
  <2>2. r[0] = q[0]
    BY <1>3 DEF Grown, IsQueue
  <2> QED
    BY <2>1, <2>2, <1>2, <1>4 DEF Hands, HandsOK
<1>16. Says'
  <2>1. SaysOK(room, subscribed, q)
    BY <1>1 DEF PlaybackInv, Says
  <2>2. \A y \in rm2 : /\ y \in room /\ ((y.id \in sb2) <=> (y.id \in subscribed))
                       /\ \A e \in new : Plugs(e) => e.track # y
    BY <1>3, <1>6, <1>9
  <2>3. SaysOK(rm2, sb2, r)
    BY <2>1, <2>2, <1>3, GrownSays
  <2> QED
    BY <2>3, <1>2, <1>4, <1>5, <1>6 DEF Says
<1>17. Playing' /\ Tells' /\ Told'
  BY <1>4 DEF PlaybackInv, Playing, Tells, Told
<1>18. \A y \in rm2 : y \in room /\ ((y.id \in sb2) <=> (y.id \in subscribed))
  BY <1>6, <1>9
<1>19. Asked'
  <2>1. ASSUME ~raced PROVE AskedOK(rm2, sb2, publications, streams, telling, subscribing, failed)
    <3>1. AskedOK(room, subscribed, publications, streams, telling, subscribing, failed)
      BY <2>1 DEF PlaybackInv, Asked
    <3> QED
      BY <3>1, <1>18, AskedSame
  <2> QED
    BY <2>1, <1>4, <1>5, <1>6 DEF Asked
<1>20. PlaysAsTold'
  <2>1. ASSUME ~raced PROVE PlaysOK(rm2, sb2, publications, r, streams, subscribing, failed)
    <3>1. PlaysOK(room, subscribed, publications, q, streams, subscribing, failed)
      BY <2>1, <1>1 DEF PlaybackInv, PlaysAsTold
    <3> QED
      BY <3>1, <1>3, <1>18, GrownPlays
  <2> QED
    BY <2>1, <1>2, <1>4, <1>5, <1>6 DEF PlaysAsTold
<1> QED
  BY <1>10, <1>11, <1>12, <1>13, <1>14, <1>15, <1>16, <1>17, <1>19, <1>20 DEF PlaybackInv

LEMMA ResumeInv ==
    ASSUME RemoteShape, QueueShape', PlaybackInv, Resume
    PROVE  PlaybackInv'
<1>1. PICK q : q = Pending
  OBVIOUS
<1>2. PICK r : r = Pending'
  OBVIOUS
<1>3. PICK new : new = {Event("reconnecting", NoTrack), Event("reconnected", NoTrack)}
  OBVIOUS
<1>4. Grown(q, r, new)
  <2>1. /\ handling' = handling
        /\ callbacks' = callbacks \o <<Event("reconnecting", NoTrack), Event("reconnected", NoTrack)>>
    BY DEF Resume
  <2> QED
    BY <2>1, <1>1, <1>2, <1>3, PendingGrowsByTwo DEF RemoteShape
<1>5. \A e \in new : ~Tracked(e) /\ ~Registers(e) /\ ~Removes(e) /\ ~Plugs(e)
  BY <1>3 DEF Event, Tracked, Registers, Removes, Plugs
<1>6. PICK kp2 : kp2 = kept \cup {y.id : y \in room}
  OBVIOUS
<1>7. /\ kept' = kp2 /\ kept \subseteq kp2 /\ \A y \in room : y.id \in kp2
      /\ UNCHANGED <<failed, backend, room, subscribed, handling, rooms, publications, tracks, subscribing, published,
                     streams, telling, raced>>
  BY <1>6 DEF Resume, sdkVars, clientVars, tellVars
<1>8. IdsOK(room, publications, q, published) /\ OrderOK(publications, q)
  BY <1>1 DEF PlaybackInv, Ids, InOrder
<1>9. Ids'
  <2>1. IdsOK(room, publications, r, published)
    BY <1>4, <1>5, <1>8, GrownIds
  <2> QED
    BY <2>1, <1>2, <1>7 DEF Ids
<1>10. InOrder'
  <2>1. PICK y \in room : TRUE
    BY DEF Resume
  <2>2. /\ y \in Tracks /\ \A z : Mention(room, publications, q, z) /\ z.who = y.who => z.id <= y.id
    BY <1>8 DEF IdsOK, RemoteShape, RoomShape
  <2>3. OrderOK(publications, r)
    BY <2>2, <1>4, <1>5, <1>8, GrownOrder
  <2> QED
    BY <2>3, <1>2, <1>7 DEF InOrder
<1>11. Leaves'
  <2>1. LeavesOK(room, publications, q)
    BY <1>1 DEF PlaybackInv, Leaves
  <2>2. LeavesOK(room, publications, r)
    BY <2>1, <1>4, <1>5, GrownLeaves
  <2> QED
    BY <2>2, <1>2, <1>7 DEF Leaves
<1>12. Registered'
  <2>1. RegisteredOK(room, publications, q, streams, kept)
    BY <1>1 DEF PlaybackInv, Registered
  <2>2. RegisteredOK(room, publications, r, streams, kp2)
    BY <2>1, <1>4, <1>7, GrownRegistered
  <2> QED
    BY <2>2, <1>2, <1>7 DEF Registered
<1>13. Outlives'
  <2>1. KeptOK(room, publications, q, kept)
    BY <1>1 DEF PlaybackInv, Outlives
  <2>2. KeptOK(room, publications, r, kp2)
    BY <2>1, <1>4, <1>7, GrownKept
  <2> QED
    BY <2>2, <1>2, <1>7 DEF Outlives
<1>14. Hands'
  <2>1. HandsOK(q, telling, subscribing)
    BY <1>1 DEF PlaybackInv, Hands
  <2>2. r[0] = q[0]
    BY <1>4 DEF Grown, IsQueue
  <2> QED
    BY <2>1, <2>2, <1>2, <1>7 DEF Hands, HandsOK
<1>15. Says'
  <2>1. SaysOK(room, subscribed, q)
    BY <1>1 DEF PlaybackInv, Says
  <2>2. SaysOK(room, subscribed, r)
    BY <2>1, <1>4, <1>5, GrownSays
  <2> QED
    BY <2>2, <1>2, <1>7 DEF Says
<1>16. Playing' /\ Tells' /\ Told' /\ Asked'
  BY <1>7 DEF PlaybackInv, Playing, Tells, Told, Asked
<1>17. PlaysAsTold'
  <2>1. ASSUME ~raced PROVE PlaysOK(room, subscribed, publications, r, streams, subscribing, failed)
    <3>1. PlaysOK(room, subscribed, publications, q, streams, subscribing, failed)
      BY <2>1, <1>1 DEF PlaybackInv, PlaysAsTold
    <3> QED
      BY <3>1, <1>4, GrownPlays
  <2> QED
    BY <2>1, <1>2, <1>7 DEF PlaysAsTold
<1> QED
  BY <1>9, <1>10, <1>11, <1>12, <1>13, <1>14, <1>15, <1>16, <1>17 DEF PlaybackInv

\* A call that is over.
LEMMA CallEnds ==
    ASSUME NEW t \in Threads, NEW su, NEW su2, su2 = [su EXCEPT ![t] = NoTrack], DOMAIN su = Threads
    PROVE  /\ su2[t] = NoTrack /\ \A u \in Threads : u # t => su2[u] = su[u]
           /\ \A u \in Threads : su2[u] # NoTrack => su2[u] = su[u] /\ u # t
OBVIOUS

LEMMA CallEndsTells ==
    ASSUME NEW t \in Threads, NEW su, NEW su2, su2 = [su EXCEPT ![t] = NoTrack], DOMAIN su = Threads,
           NEW pb, NEW st, NEW te, TellingOK(pb, st, te, su)
    PROVE  TellingOK(pb, st, te, su2)
<1>1. \A u \in Threads : Rests(te, su, u) => Rests(te, su2, u)
  BY CallEnds DEF Rests
<1>2. Rests(te, su2, "sdk") \/ Rests(te, su2, "app")
  BY <1>1 DEF TellingOK, Threads
<1>3. \A u \in Threads : su2[u] # NoTrack => su2[u] = su[u] /\ su[u] # NoTrack
  BY CallEnds
<1> QED
  BY <1>2, <1>3 DEF TellingOK

LEMMA SubscribeInv ==
    ASSUME RemoteShape, QueueShape', PlaybackInv, NEW t \in Threads, Subscribe(t)
    PROVE  PlaybackInv'
<1>1. PICK q : q = Pending
  OBVIOUS
<1>2. PICK r : r = Pending'
  OBVIOUS
<1>3. PICK id : id = subscribing[t].id
  OBVIOUS
<1>4. subscribing[t] \in Calls /\ subscribing[t] # NoTrack /\ DOMAIN subscribing = Threads
  BY DEF RemoteShape, RoomShape, Subscribe
<1>5. PICK on \in BOOLEAN : on = subscribing[t].on
  BY <1>4 DEF Calls
<1>6. PICK su2 : su2 = [subscribing EXCEPT ![t] = NoTrack]
  OBVIOUS
<1>7. /\ subscribing' = su2
      /\ UNCHANGED <<room, published, handling, rooms, publications, tracks, settings, kept, streams,
                     telling, raced, backend>>
  BY <1>6 DEF Subscribe, sdkVars, clientVars, tellVars
<1>f. PICK fl2 : fl2 = failed'
  OBVIOUS
<1>g. failed \subseteq fl2
  BY <1>f DEF Subscribe, Fails
<1>8. IdsOK(room, publications, q, published) /\ OrderOK(publications, q)
  BY <1>1 DEF PlaybackInv, Ids, InOrder
<1>9. \A u \in streams : StreamKey(u) \in DOMAIN publications
  BY DEF PlaybackInv, Registered, RegisteredOK
<1>10. Tells'
  <2>1. ASSUME ~raced PROVE TellingOK(publications, streams, telling, su2)
    BY <2>1, <1>4, <1>6, CallEndsTells DEF PlaybackInv, Tells
  <2> QED
    BY <2>1, <1>7 DEF Tells
<1>11. Playing' /\ Told'
  <2>1. ASSUME ~raced PROVE ToldOK(publications, streams, telling, backend, fl2)
    BY <2>1, <1>g DEF PlaybackInv, Told, ToldOK
  <2> QED
    BY <2>1, <1>7, <1>f DEF PlaybackInv, Playing, Told
<1>12. \A u \in Threads : Rests(telling, subscribing, u) => Rests(telling, su2, u)
  BY <1>4, <1>6, CallEnds DEF Rests
\* What the call leaves of the subscriptions, and what it says.
<1>13. ASSUME ~raced, NEW k \in DOMAIN publications, publications[k].track.id = id
       PROVE  publications[k].admitted <=> on
  <2>1. TellingOK(publications, streams, telling, subscribing)
    BY <1>13 DEF PlaybackInv, Tells
  <2> QED
    BY <2>1, <1>3, <1>4, <1>5, <1>13 DEF TellingOK
<1>a. ASSUME ~raced, NEW sb2,
             \A y \in room : IF y.id = id THEN y.id \in fl2 \/ ((y.id \in sb2) <=> on)
                             ELSE (y.id \in sb2) <=> (y.id \in subscribed)
      PROVE  AskedOK(room, sb2, publications, streams, telling, su2, fl2)
  <2>1. AskedOK(room, subscribed, publications, streams, telling, subscribing, failed)
    BY <1>a DEF PlaybackInv, Asked
  <2>2. ASSUME NEW s \in streams, NEW x, x = publications[StreamKey(s)].track, x \in room
        PROVE  \/ x.id \in fl2
               \/ (x.id \in sb2) <=> publications[StreamKey(s)].admitted
               \/ \E u \in Threads : su2[u] # NoTrack /\ su2[u].id = x.id
               \/ \E i \in DOMAIN telling["sdk"] : StreamKey(telling["sdk"][i]) = StreamKey(s)
    <3>1. CASE x.id = id
      <4>1. publications[StreamKey(s)].admitted <=> on
        BY <3>1, <2>2, <1>a, <1>9, <1>13
      <4> QED
        BY <4>1, <3>1, <2>2, <1>a
    <3>2. CASE x.id # id
      <4>1. (x.id \in sb2) <=> (x.id \in subscribed)
        BY <3>2, <2>2, <1>a
      <4>2. ASSUME NEW u \in Threads, subscribing[u] # NoTrack, subscribing[u].id = x.id
            PROVE  su2[u] # NoTrack /\ su2[u].id = x.id
        <5>1. u # t
          BY <4>2, <3>2, <1>3
        <5> QED
          BY <5>1, <4>2, <1>4, <1>6, CallEnds
      <4> QED
        BY <4>1, <4>2, <2>1, <2>2, <1>g DEF AskedOK
    <3> QED
      BY <3>1, <3>2
  <2> QED
    BY <2>2 DEF AskedOK
<1>14. CASE /\ (\E x \in room : x.id = id) /\ ~((id \in subscribed) <=> on)
            /\ subscribed' # subscribed
  <2>1. PICK x : x = TrackOf(id)
    OBVIOUS
  <2>2. x \in room /\ x.id = id /\ x \in Tracks
    BY <1>14, <2>1 DEF TrackOf, RemoteShape, RoomShape
  <2>3. PICK e : e = [kind |-> IF on THEN "subscribed" ELSE "unsubscribed", track |-> x]
    OBVIOUS
  <2>4. /\ e.track = x /\ Plugs(e) /\ ~Removes(e) /\ e.kind # "reconnecting"
        /\ (e.kind # "unsubscribed") <=> on
    BY <2>3 DEF Plugs, Removes
  <2>5. PICK sb2 : sb2 = IF on THEN subscribed \cup {id} ELSE subscribed \ {id}
    OBVIOUS
  <2>6. subscribed' = sb2 /\ callbacks' = Append(callbacks, e)
    <3> QED
      BY <1>3, <1>5, <1>14, <2>1, <2>3, <2>5 DEF Subscribe
  <2>7. PICK new : new = {e}
    OBVIOUS
  <2>8. Grown(q, r, new)
    BY <2>6, <2>7, <1>1, <1>2, <1>7, PendingGrowsByOne DEF RemoteShape
  <2>9. ASSUME NEW y \in room
        PROVE  IF y.id = id THEN (y.id \in sb2) <=> on ELSE (y.id \in sb2) <=> (y.id \in subscribed)
    BY <2>5
  <2>10. \A y : Mention(room, publications, q, y) /\ y.id = id => y = x
    BY <2>2, <1>8, MentionFacts DEF IdsOK
  <2>11. Ids'
    <3>1. IdsOK(room, publications, r, published)
      BY <2>2, <2>4, <2>7, <2>8, <1>8, GrownIds
    <3> QED
      BY <3>1, <1>2, <1>7 DEF Ids
  <2>12. InOrder'
    <3>1. \A y : Mention(room, publications, q, y) /\ y.who = x.who => y.id <= x.id
      BY <2>2, <1>8 DEF IdsOK
    <3>2. OrderOK(publications, r)
      BY <3>1, <2>2, <2>4, <2>7, <2>8, <1>8, GrownOrder
    <3> QED
      BY <3>2, <1>2, <1>7 DEF InOrder
  <2>13. Leaves'
    <3>1. LeavesOK(room, publications, q)
      BY <1>1 DEF PlaybackInv, Leaves
    <3>2. LeavesOK(room, publications, r)
      BY <3>1, <2>2, <2>4, <2>7, <2>8, GrownLeaves
    <3> QED
      BY <3>2, <1>2, <1>7 DEF Leaves
  <2>14. Registered'
    <3>1. RegisteredOK(room, publications, q, streams, kept)
      BY <1>1 DEF PlaybackInv, Registered
    <3>2. RegisteredOK(room, publications, r, streams, kept)
      BY <3>1, <2>8, GrownRegistered
    <3> QED
      BY <3>2, <1>2, <1>7 DEF Registered
  <2>15. Outlives'
    <3>1. KeptOK(room, publications, q, kept)
      BY <1>1 DEF PlaybackInv, Outlives
    <3>2. KeptOK(room, publications, r, kept)
      BY <3>1, <2>4, <2>7, <2>8, GrownKept
    <3> QED
      BY <3>2, <1>2, <1>7 DEF Outlives
  <2>16. Hands'
    <3>1. HandsOK(q, telling, subscribing)
      BY <1>1 DEF PlaybackInv, Hands
    <3>2. r[0] = q[0]
      BY <2>8 DEF Grown, IsQueue
    <3>3. HandsOK(r, telling, su2)
      BY <3>1, <3>2, <1>12 DEF HandsOK, Threads
    <3> QED
      BY <3>3, <1>2, <1>7 DEF Hands
  <2>17. Says'
    <3>1. SaysOK(room, subscribed, q)
      BY <1>1 DEF PlaybackInv, Says
    <3>2. ASSUME NEW y \in room
          PROVE  \/ /\ y \in room /\ ((y.id \in sb2) <=> (y.id \in subscribed))
                    /\ \A d \in new : Plugs(d) => d.track # y
                 \/ /\ \E d \in new : Plugs(d) /\ d.track = y
                    /\ \A d \in new : Plugs(d) /\ d.track = y =>
                         ((y.id \in sb2) <=> (d.kind # "unsubscribed"))
      <4>1. CASE y = x
        BY <4>1, <2>2, <2>4, <2>7, <2>9
      <4>2. CASE y # x
        <5>1. y.id # id
          BY <4>2, <2>10, MentionFacts
        <5> QED
          BY <5>1, <4>2, <2>4, <2>7, <2>9
      <4> QED
        BY <4>1, <4>2
    <3>3. SaysOK(room, sb2, r)
      BY <3>1, <3>2, <2>8, GrownSays
    <3> QED
      BY <3>3, <2>6, <1>2, <1>7 DEF Says
  <2>18. Asked'
    <3>1. ASSUME ~raced PROVE AskedOK(room, sb2, publications, streams, telling, su2, fl2)
      BY <3>1, <2>9, <1>a
    <3> QED
      BY <3>1, <2>6, <1>7, <1>f DEF Asked
  <2>19. PlaysAsTold'
    <3>1. ASSUME ~raced PROVE PlaysOK(room, sb2, publications, r, streams, su2, fl2)
      <4>1. PlaysOK(room, subscribed, publications, q, streams, subscribing, failed)
        BY <3>1, <1>1 DEF PlaybackInv, PlaysAsTold
      <4>2. ASSUME NEW s \in streams, publications[StreamKey(s)].track \in room
            PROVE  \/ publications[StreamKey(s)].track = x
                   \/ /\ publications[StreamKey(s)].track.id # id
                      /\ (publications[StreamKey(s)].track.id \in sb2)
                           <=> (publications[StreamKey(s)].track.id \in subscribed)
        BY <4>2, <2>9, <2>10, MentionFacts
      <4>3. PlaysOK(room, sb2, publications, r, streams, subscribing, failed)
        BY <4>1, <4>2, <2>4, <2>7, <2>8, GrownPlays
      <4>4. \E i \in DOMAIN r : PlugAt(r, i, x)
        BY <2>4, <2>7, <2>8 DEF Grown, PlugAt
      <4>5. \A u \in Threads : subscribing[u] # NoTrack /\ subscribing[u].id # id => su2[u] = subscribing[u]
        BY <1>3, <1>4, <1>6, CallEnds
      <4>6. ASSUME NEW s \in streams, NEW y, y = publications[StreamKey(s)].track, y \in room,
                   \A i \in DOMAIN r : ~PlugAt(r, i, y)
            PROVE  \/ y.id \in fl2
                   \/ publications[StreamKey(s)].playing <=> (y.id \in sb2)
                   \/ /\ y.id \in sb2
                      /\ \E u \in Threads : su2[u] # NoTrack /\ su2[u].id = y.id /\ ~su2[u].on
        <5>1. y.id # id
          BY <4>2, <4>4, <4>6
        <5>2. \/ y.id \in failed
              \/ publications[StreamKey(s)].playing <=> (y.id \in sb2)
              \/ /\ y.id \in sb2
                 /\ \E u \in Threads : /\ subscribing[u] # NoTrack
                                       /\ subscribing[u].id = y.id
                                       /\ ~subscribing[u].on
          BY <4>3, <4>6 DEF PlaysOK
        <5> QED
          BY <5>1, <5>2, <4>5, <1>g
      <4> QED
        BY <4>6 DEF PlaysOK
    <3> QED
      BY <3>1, <2>6, <1>2, <1>7, <1>f DEF PlaysAsTold
  <2> QED
    BY <2>11, <2>12, <2>13, <2>14, <2>15, <2>16, <2>17, <2>18, <2>19, <1>10, <1>11 DEF PlaybackInv
<1>15. CASE ~((\E x \in room : x.id = id) /\ ~((id \in subscribed) <=> on))
            \/ subscribed' = subscribed
  <2>1. UNCHANGED <<subscribed, callbacks>>
    <3>1. CASE subscribed' = subscribed
      BY <3>1, <1>3, <1>5 DEF Subscribe
    <3>2. CASE ~((\E x \in room : x.id = id) /\ ~((id \in subscribed) <=> on))
      BY <3>2, <1>3, <1>5 DEF Subscribe
    <3> QED
      BY <3>1, <3>2, <1>15
  <2>2. r = q
    BY <2>1, <1>1, <1>2, <1>7, PendingSame
  <2>3. Ids' /\ InOrder' /\ Leaves' /\ Registered' /\ Outlives' /\ Says'
    BY <2>1, <2>2, <1>1, <1>2, <1>7 DEF PlaybackInv, Ids, InOrder, Leaves, Registered, Outlives, Says
  <2>4. Hands'
    <3>1. HandsOK(q, telling, subscribing)
      BY <1>1 DEF PlaybackInv, Hands
    <3>2. HandsOK(r, telling, su2)
      BY <3>1, <2>2, <1>12 DEF HandsOK, Threads
    <3> QED
      BY <3>2, <1>2, <1>7 DEF Hands
  <2>5. \A y \in room : y.id = id => y.id \in fl2 \/ ((y.id \in subscribed) <=> on)
    BY <2>1, <1>3, <1>5, <1>f DEF Subscribe, Fails
  <2>6. Asked'
    <3>1. ASSUME ~raced PROVE AskedOK(room, subscribed, publications, streams, telling, su2, fl2)
      BY <3>1, <2>5, <1>a
    <3> QED
      BY <3>1, <2>1, <1>7, <1>f DEF Asked
  <2>7. PlaysAsTold'
    <3>1. ASSUME ~raced PROVE PlaysOK(room, subscribed, publications, q, streams, su2, fl2)
      <4>1. PlaysOK(room, subscribed, publications, q, streams, subscribing, failed)
        BY <3>1, <1>1 DEF PlaybackInv, PlaysAsTold
      <4>2. ASSUME NEW y \in room, y.id \in subscribed, NEW u \in Threads, subscribing[u] # NoTrack,
                   subscribing[u].id = y.id, ~subscribing[u].on, y.id \notin fl2
            PROVE  su2[u] # NoTrack /\ su2[u].id = y.id /\ ~su2[u].on
        <5>1. u # t
          BY <4>2, <2>5, <1>3, <1>5
        <5> QED
          BY <5>1, <4>2, <1>4, <1>6, CallEnds
      <4> QED
        BY <4>1, <4>2, <1>g DEF PlaysOK
    <3> QED
      BY <3>1, <2>1, <2>2, <1>2, <1>7, <1>f DEF PlaysAsTold
  <2> QED
    BY <2>3, <2>4, <2>6, <2>7, <1>10, <1>11 DEF PlaybackInv
<1> QED
  BY <1>14, <1>15

-----------------------------------------------------------------------------
(* A publication is told what was decided. *)

\* The same publications of the same tracks.
SameTracks(pb, pb2) ==
    /\ DOMAIN pb2 = DOMAIN pb
    /\ \A k \in DOMAIN pb : pb2[k].track = pb[k].track

LEMMA SameTracksKeep ==
    ASSUME NEW pb, NEW pb2, SameTracks(pb, pb2), NEW rm, NEW q, NEW n, NEW st, NEW kp,
           IdsOK(rm, pb, q, n), OrderOK(pb, q), LeavesOK(rm, pb, q),
           RegisteredOK(rm, pb, q, st, kp), KeptOK(rm, pb, q, kp)
    PROVE  /\ IdsOK(rm, pb2, q, n) /\ OrderOK(pb2, q) /\ LeavesOK(rm, pb2, q)
           /\ RegisteredOK(rm, pb2, q, st, kp) /\ KeptOK(rm, pb2, q, kp)
<1>1. \A x : Mention(rm, pb2, q, x) => Mention(rm, pb, q, x)
  BY DEF Mention, SameTracks
<1>2. IdsOK(rm, pb2, q, n)
  BY <1>1, IdsFewer
<1>3. OrderOK(pb2, q)
  BY DEF OrderOK, SameTracks
<1>4. LeavesOK(rm, pb2, q)
  BY DEF LeavesOK, SameTracks
<1>5. \A x : KnownIn(pb2, x) <=> KnownIn(pb, x)
  BY DEF KnownIn, SameTracks
<1>6. RegisteredOK(rm, pb2, q, st, kp)
  BY <1>5 DEF RegisteredOK, SameTracks
<1>7. KeptOK(rm, pb2, q, kp)
  BY DEF KeptOK, SameTracks
<1> QED
  BY <1>2, <1>3, <1>4, <1>6, <1>7

LEMMA TailFacts ==
    ASSUME NEW S, NEW w \in Seq(S), w # <<>>
    PROVE  /\ 1 \in DOMAIN w /\ Head(w) = w[1]
           /\ \A i \in DOMAIN Tail(w) : i + 1 \in DOMAIN w /\ Tail(w)[i] = w[i + 1]
           /\ \A i \in DOMAIN w : i # 1 => \E j \in DOMAIN Tail(w) : Tail(w)[j] = w[i]
<1>1. PICK n \in Nat : n = Len(w)
  OBVIOUS
<1>2. n > 0 /\ DOMAIN w = 1..n /\ DOMAIN Tail(w) = 1..(n - 1) /\ Head(w) = w[1]
  BY <1>1
<1>3. \A i \in 1..(n - 1) : Tail(w)[i] = w[i + 1]
  BY <1>1, <1>2
<1>4. ASSUME NEW i \in 1..n, i # 1 PROVE i - 1 \in 1..(n - 1) /\ Tail(w)[i - 1] = w[i]
  <2>1. i - 1 \in 1..(n - 1) /\ (i - 1) + 1 = i
    BY <1>4
  <2> QED
    BY <2>1, <1>3
<1>5. 1 \in DOMAIN w /\ \A i \in DOMAIN Tail(w) : i + 1 \in DOMAIN w /\ Tail(w)[i] = w[i + 1]
  BY <1>2, <1>3
<1>6. ASSUME NEW i \in DOMAIN w, i # 1 PROVE \E j \in DOMAIN Tail(w) : Tail(w)[j] = w[i]
  BY <1>2, <1>4, <1>6
<1> QED
  BY <1>2, <1>5, <1>6

LEMMA ApplyInv ==
    ASSUME RemoteShape, PlaybackInv, NEW t \in Threads, Apply(t)
    PROVE  PlaybackInv'
<1>1. PICK q : q = Pending
  OBVIOUS
<1>2. Pending' = q
  BY <1>1, PendingSame DEF Apply
<1>3. telling[t] \in Seq(Streams) /\ telling[t] # <<>> /\ subscribing[t] = NoTrack
      /\ DOMAIN telling = Threads /\ DOMAIN subscribing = Threads
  BY DEF Apply, RemoteShape, ClientShape, RoomShape
<1>4. PICK w : w = telling[t]
  OBVIOUS
<1>5. PICK c \in Streams : c = Head(w)
  BY <1>3, <1>4
<1>6. PICK key : key = StreamKey(c)
  OBVIOUS
<1>7. PICK te2 : te2 = [telling EXCEPT ![t] = Tail(w)]
  OBVIOUS
<1>8. /\ telling' = te2
      /\ UNCHANGED <<room, published, subscribed, callbacks, handling, rooms, tracks, settings, kept,
                     raced, streams, backend>>
  BY <1>4, <1>7 DEF Apply, sdkVars, clientVars
<1>9. PICK pb2 : pb2 = publications'
  OBVIOUS
<1>10. PICK su2 : su2 = subscribing'
  OBVIOUS
<1>f. PICK fl2 : fl2 = failed'
  OBVIOUS
\* What the call changes of the publications, and what it is about to ask; or the
\* stream is refused, and this is reported.
<1> DEFINE told == key \in DOMAIN publications /\ (c.admitted => backend)
<1>11. /\ SameTracks(publications, pb2)
       /\ \A k \in DOMAIN publications : pb2[k].playing = publications[k].playing
       /\ \A k \in DOMAIN publications : k # key => pb2[k] = publications[k]
       /\ told =>
            /\ pb2[key].admitted = c.admitted
            /\ pb2[key].gain = (IF c.admitted THEN c.gain ELSE 0)
            /\ su2[t] = [id |-> publications[key].track.id, on |-> c.admitted]
       /\ ~told => /\ pb2 = publications /\ su2[t] = NoTrack
                   /\ key \in DOMAIN publications => publications[key].track.id \in fl2
       /\ \A u \in Threads : u # t => su2[u] = subscribing[u]
       /\ failed \subseteq fl2
  <2>1. CASE told
    <3>1. publications[key] \in Publications
      BY <2>1 DEF RemoteShape, PublicationShape
    <3>2. PICK rec : rec = Configured(publications[key], c)
      OBVIOUS
    <3>3. /\ rec.track = publications[key].track /\ rec.playing = publications[key].playing
          /\ rec.admitted = c.admitted /\ rec.gain = IF c.admitted THEN c.gain ELSE 0
      BY <3>1, <3>2, ConfiguredIs
    <3>4. pb2 = [publications EXCEPT ![key] = rec]
      BY <2>1, <3>2, <1>4, <1>5, <1>6, <1>9 DEF Apply, StreamKey
    <3>5. su2 = [subscribing EXCEPT ![t] = [id |-> publications[key].track.id, on |-> c.admitted]]
      BY <2>1, <1>4, <1>5, <1>6, <1>10 DEF Apply, StreamKey
    <3>6. SameTracks(publications, pb2)
      BY <2>1, <3>3, <3>4 DEF SameTracks
    <3>7. /\ \A k \in DOMAIN publications : k # key => pb2[k] = publications[k]
          /\ pb2[key] = rec
      BY <2>1, <3>4
    <3>8. su2[t] = [id |-> publications[key].track.id, on |-> c.admitted]
          /\ \A u \in Threads : u # t => su2[u] = subscribing[u]
      BY <3>5, <1>3
    <3>9. fl2 = failed
      BY <2>1, <1>4, <1>5, <1>6, <1>f DEF Apply, StreamKey
    <3> QED
      BY <2>1, <3>3, <3>6, <3>7, <3>8, <3>9
  <2>2. CASE ~told
    <3>1. pb2 = publications /\ su2 = subscribing
      BY <2>2, <1>4, <1>5, <1>6, <1>9, <1>10 DEF Apply, StreamKey
    <3>2. fl2 = failed \cup {publications[k].track.id : k \in DOMAIN publications \cap {key}}
      BY <2>2, <1>4, <1>5, <1>6, <1>f DEF Apply, StreamKey, Fails
    <3> QED
      BY <2>2, <3>1, <3>2, <1>3 DEF SameTracks
  <2> QED
    BY <2>1, <2>2
<1>12. /\ te2[t] = Tail(w) /\ \A u \in Threads : u # t => te2[u] = telling[u]
       /\ \A i \in DOMAIN te2[t] : i + 1 \in DOMAIN w /\ te2[t][i] = w[i + 1]
       /\ \A i \in DOMAIN w : w[i] = c \/ \E j \in DOMAIN te2[t] : te2[t][j] = w[i]
       /\ \E i \in DOMAIN w : w[i] = c
  <2>1. te2[t] = Tail(w) /\ \A u \in Threads : u # t => te2[u] = telling[u]
    BY <1>3, <1>7
  <2> QED
    BY <2>1, <1>3, <1>4, <1>5, TailFacts
<1>13. Ids' /\ InOrder' /\ Leaves' /\ Registered' /\ Outlives'
  <2>1. /\ IdsOK(room, publications, q, published) /\ OrderOK(publications, q)
        /\ LeavesOK(room, publications, q)
        /\ RegisteredOK(room, publications, q, streams, kept) /\ KeptOK(room, publications, q, kept)
    BY <1>1 DEF PlaybackInv, Ids, InOrder, Leaves, Registered, Outlives
  <2>2. /\ IdsOK(room, pb2, q, published) /\ OrderOK(pb2, q)
        /\ LeavesOK(room, pb2, q)
        /\ RegisteredOK(room, pb2, q, streams, kept) /\ KeptOK(room, pb2, q, kept)
    BY <2>1, <1>11, SameTracksKeep
  <2> QED
    BY <2>2, <1>2, <1>8, <1>9 DEF Ids, InOrder, Leaves, Registered, Outlives
<1>14. Hands'
  <2>1. HandsOK(q, telling, subscribing)
    BY <1>1 DEF PlaybackInv, Hands
  <2>2. HandsOK(q, te2, su2)
    <3>1. CASE t = "sdk"
      BY <3>1, <2>1, <1>3 DEF HandsOK, Rests
    <3>2. CASE t # "sdk"
      BY <3>2, <2>1, <1>11, <1>12 DEF HandsOK, Rests, Threads
    <3> QED
      BY <3>1, <3>2
  <2> QED
    BY <2>2, <1>2, <1>8, <1>10 DEF Hands
<1>15. Says'
  BY <1>1, <1>2, <1>8 DEF PlaybackInv, Says
<1>16. Playing'
  <2>1. PlayingOK(tracks, pb2)
    BY <1>11 DEF PlaybackInv, Playing, PlayingOK, SameTracks
  <2> QED
    BY <2>1, <1>8, <1>9 DEF Playing
<1>17. \A s \in streams : StreamKey(s) \in DOMAIN publications
  BY DEF PlaybackInv, Registered, RegisteredOK
<1>18. ASSUME ~raced
       PROVE  /\ TellingOK(pb2, streams, te2, su2) /\ ToldOK(pb2, streams, te2, backend, fl2)
              /\ AskedOK(room, subscribed, pb2, streams, te2, su2, fl2)
              /\ PlaysOK(room, subscribed, pb2, q, streams, su2, fl2)
  <2>1. TellingOK(publications, streams, telling, subscribing)
    BY <1>18 DEF PlaybackInv, Tells
  <2>2. \A u \in Threads : u # t => Rests(telling, subscribing, u)
    BY <2>1, <1>3 DEF TellingOK, Rests, Threads
  <2>3. \A s \in streams : StreamKey(s) = key => s = c
    <3>1. PICK i \in DOMAIN telling[t] : telling[t][i] = c
      BY <1>4, <1>12
    <3> QED
      BY <3>1, <2>1, <1>6 DEF TellingOK
  <2>4. TellingOK(pb2, streams, te2, su2)
    <3>1. \A u \in Threads : u # t => Rests(te2, su2, u)
      BY <2>2, <1>11, <1>12 DEF Rests
    <3>2. Rests(te2, su2, "sdk") \/ Rests(te2, su2, "app")
      BY <3>1 DEF Threads
    <3>3. ASSUME NEW u \in Threads, NEW i \in DOMAIN te2[u], NEW s \in streams,
                 StreamKey(s) = StreamKey(te2[u][i])
          PROVE  s = te2[u][i]
      <4>1. CASE u = t
        <5>1. i + 1 \in DOMAIN telling[t] /\ te2[t][i] = telling[t][i + 1]
          BY <4>1, <1>4, <1>12
        <5> QED
          BY <4>1, <5>1, <3>3, <2>1 DEF TellingOK
      <4>2. CASE u # t
        BY <4>2, <3>3, <1>12, <2>1 DEF TellingOK
      <4> QED
        BY <4>1, <4>2
    <3>4. ASSUME NEW u \in Threads, su2[u] # NoTrack, NEW k \in DOMAIN pb2, pb2[k].track.id = su2[u].id
          PROVE  pb2[k].admitted = su2[u].on
      <4>1. u = t /\ told
        BY <3>1, <3>4, <1>11 DEF Rests
      <4>2. /\ k \in DOMAIN publications /\ publications[k].track.id = publications[key].track.id
            /\ su2[u].on = c.admitted
        BY <4>1, <3>4, <1>11 DEF SameTracks
      <4>3. publications[k].track = publications[key].track
        <5>1. IdsOK(room, publications, q, published)
          BY <1>1 DEF PlaybackInv, Ids
        <5> QED
          BY <5>1, <4>1, <4>2, MentionFacts DEF IdsOK
      <4>4. k = key
        BY <4>1, <4>2, <4>3 DEF RemoteShape, PublicationShape
      <4> QED
        BY <4>1, <4>2, <4>4, <1>11
    <3> QED
      BY <3>2, <3>3, <3>4 DEF TellingOK
  <2>5. ToldOK(pb2, streams, te2, backend, fl2)
    <3>1. ASSUME NEW s \in streams
          PROVE  \/ /\ pb2[StreamKey(s)].admitted = (s.admitted /\ backend)
                    /\ pb2[StreamKey(s)].gain = IF backend THEN s.gain ELSE 0
                    /\ s.admitted => backend \/ pb2[StreamKey(s)].track.id \in fl2
                 \/ \E u \in Threads : \E i \in DOMAIN te2[u] : te2[u][i] = s
      <4>1. CASE StreamKey(s) = key
        <5>1. s = c /\ key \in DOMAIN publications
          BY <4>1, <2>3, <1>17
        <5>2. (~s.admitted => s.gain = 0) /\ s.admitted \in BOOLEAN /\ backend \in BOOLEAN
          BY <5>1 DEF RemoteShape, RoomShape, StreamsOK, Streams
        <5>3. CASE told
          <6>1. pb2[key].admitted = c.admitted /\ pb2[key].gain = IF c.admitted THEN c.gain ELSE 0
            BY <5>3, <1>11
          <6>2. c.admitted = (c.admitted /\ backend)
            BY <5>1, <5>2, <5>3
          <6>3. (IF c.admitted THEN c.gain ELSE 0) = IF backend THEN c.gain ELSE 0
            BY <5>1, <5>2, <5>3
          <6> QED
            BY <4>1, <5>1, <5>3, <6>1, <6>2, <6>3
        <5>4. CASE ~told
          <6>1. ~backend /\ pb2[key] = publications[key] /\ publications[key].track.id \in fl2
            BY <5>1, <5>4, <1>11
          <6>2. ~pb2[key].admitted /\ pb2[key].gain = 0 /\ pb2[key].admitted \in BOOLEAN
            BY <5>1, <6>1 DEF RemoteShape, PublicationShape, Publications
          <6> QED
            BY <4>1, <5>1, <6>1, <6>2
        <5> QED
          BY <5>3, <5>4
      <4>2. CASE StreamKey(s) # key
        <5>1. pb2[StreamKey(s)] = publications[StreamKey(s)]
          BY <4>2, <1>11, <1>17
        <5>2. CASE \E u \in Threads : \E i \in DOMAIN telling[u] : telling[u][i] = s
          <6>1. PICK u \in Threads : \E i \in DOMAIN telling[u] : telling[u][i] = s
            BY <5>2
          <6>2. CASE u = t
            <7>1. PICK i \in DOMAIN w : w[i] = s
              BY <6>1, <6>2, <1>4
            <7>2. s # c
              BY <4>2, <1>6
            <7>3. \E j \in DOMAIN te2[t] : te2[t][j] = w[i]
              BY <7>1, <7>2, <1>12
            <7> QED
              BY <7>1, <7>3
          <6>3. CASE u # t
            BY <6>1, <6>3, <1>12
          <6> QED
            BY <6>2, <6>3
        <5>3. CASE ~\E u \in Threads : \E i \in DOMAIN telling[u] : telling[u][i] = s
          <6>1. ToldOK(publications, streams, telling, backend, failed)
            BY <1>18 DEF PlaybackInv, Told
          <6> QED
            BY <6>1, <5>1, <5>3, <1>11 DEF ToldOK
        <5> QED
          BY <5>2, <5>3
      <4> QED
        BY <4>1, <4>2
    <3> QED
      BY <3>1 DEF ToldOK
  <2>6. AskedOK(room, subscribed, pb2, streams, te2, su2, fl2)
    <3>1. AskedOK(room, subscribed, publications, streams, telling, subscribing, failed)
      BY <1>18 DEF PlaybackInv, Asked
    <3>2. ASSUME NEW s \in streams, NEW x, x = pb2[StreamKey(s)].track, x \in room
          PROVE  \/ x.id \in fl2
                 \/ (x.id \in subscribed) <=> pb2[StreamKey(s)].admitted
                 \/ \E u \in Threads : su2[u] # NoTrack /\ su2[u].id = x.id
                 \/ \E i \in DOMAIN te2["sdk"] : StreamKey(te2["sdk"][i]) = StreamKey(s)
      <4>1. x = publications[StreamKey(s)].track /\ StreamKey(s) \in DOMAIN publications
        BY <3>2, <1>11, <1>17 DEF SameTracks
      <4>4. CASE StreamKey(s) = key /\ ~told
        BY <4>1, <4>4, <1>11
      <4>2. CASE StreamKey(s) = key /\ told
        <5>1. su2[t] = [id |-> x.id, on |-> c.admitted]
          BY <4>1, <4>2, <1>11
        <5>2. su2[t] # NoTrack /\ su2[t].id = x.id
          <6>1. c.admitted \in BOOLEAN
            BY DEF Streams
          <6>2. DOMAIN su2[t] = {"id", "on"} /\ DOMAIN NoTrack = {"id"}
            BY <5>1 DEF NoTrack
          <6>3. "on" \in DOMAIN su2[t] /\ "on" \notin DOMAIN NoTrack
            BY <6>2
          <6> QED
            BY <5>1, <6>3
        <5> QED
          BY <5>2
      <4>3. CASE StreamKey(s) # key
        <5>1. pb2[StreamKey(s)] = publications[StreamKey(s)]
          BY <4>1, <4>3, <1>11
        <5>2. ASSUME NEW u \in Threads, subscribing[u] # NoTrack, subscribing[u].id = x.id
              PROVE  su2[u] # NoTrack /\ su2[u].id = x.id
          BY <5>2, <1>3, <1>11
        <5>3. ASSUME NEW i \in DOMAIN telling["sdk"], StreamKey(telling["sdk"][i]) = StreamKey(s)
              PROVE  \E j \in DOMAIN te2["sdk"] : StreamKey(te2["sdk"][j]) = StreamKey(s)
          <6>1. CASE t = "sdk"
            BY <6>1, <5>3, <4>3, <1>4, <1>6, <1>12
          <6>2. CASE t # "sdk"
            BY <6>2, <5>3, <1>12 DEF Threads
          <6> QED
            BY <6>1, <6>2
        <5> QED
          BY <5>1, <5>2, <5>3, <4>1, <3>1, <3>2, <1>11 DEF AskedOK
      <4> QED
        BY <4>2, <4>3, <4>4
    <3> QED
      BY <3>2 DEF AskedOK
  <2>7. PlaysOK(room, subscribed, pb2, q, streams, su2, fl2)
    <3>1. PlaysOK(room, subscribed, publications, q, streams, subscribing, failed)
      BY <1>18, <1>1 DEF PlaybackInv, PlaysAsTold
    <3>2. \A s \in streams : /\ pb2[StreamKey(s)].track = publications[StreamKey(s)].track
                             /\ pb2[StreamKey(s)].playing = publications[StreamKey(s)].playing
      BY <1>11, <1>17 DEF SameTracks
    <3>3. \A u \in Threads : subscribing[u] # NoTrack => su2[u] = subscribing[u]
      BY <1>3, <1>11
    <3> QED
      BY <3>1, <3>2, <3>3, <1>11 DEF PlaysOK
  <2> QED
    BY <2>4, <2>5, <2>6, <2>7
<1>19. Tells' /\ Told' /\ Asked' /\ PlaysAsTold'
  BY <1>2, <1>8, <1>9, <1>10, <1>18, <1>f DEF Tells, Told, Asked, PlaysAsTold
<1> QED
  BY <1>13, <1>14, <1>15, <1>16, <1>19 DEF PlaybackInv

-----------------------------------------------------------------------------
(* A decision while nobody else tells one. *)

LEMMA DecisionTells ==
    ASSUME NEW t \in Threads, NEW avail, NEW quiet, Decision(t, avail, quiet),
           \A u \in Threads : subscribing[u] = NoTrack,
           \A u \in Threads : u # t => telling[u] = <<>>,
           NEW limit, Kept(streams', limit), NEW pb, NEW bk, NEW fl
    PROVE  TellingOK(pb, streams', telling', subscribing) /\ ToldOK(pb, streams', telling', bk, fl)
<1>1. PICK te : te = telling'
  OBVIOUS
<1>2. PICK st : st = streams'
  OBVIOUS
<1>3. \A u \in Threads : u # t => te[u] = <<>>
  BY <1>1 DEF Decision
<1>4. te[t] \in Seq(st) /\ \A s \in st : \E i \in DOMAIN te[t] : te[t][i] = s
  BY <1>1, <1>2 DEF Decision
<1>5. \A s, v \in st : StreamKey(s) = StreamKey(v) => s = v
  BY <1>2 DEF Kept
<1>6. ASSUME NEW u \in Threads, NEW i \in DOMAIN te[u], NEW s \in st,
             StreamKey(s) = StreamKey(te[u][i])
      PROVE  s = te[u][i]
  <2>1. u = t
    <3>1. DOMAIN <<>> = {}
      OBVIOUS
    <3> QED
      BY <3>1, <1>3
  <2>2. te[u][i] \in st
    BY <2>1, <1>4
  <2> QED
    BY <2>2, <1>5, <1>6
<1>7. Rests(te, subscribing, "sdk") \/ Rests(te, subscribing, "app")
  BY <1>3 DEF Rests, Threads
<1>8. TellingOK(pb, st, te, subscribing)
  BY <1>6, <1>7 DEF TellingOK
<1>9. ToldOK(pb, st, te, bk, fl)
  BY <1>4 DEF ToldOK
<1> QED
  BY <1>1, <1>2, <1>8, <1>9

\* The same streams, by scope and participant.
SameKeys(st, st2) ==
    /\ \A s \in st2 : \E u \in st : StreamKey(u) = StreamKey(s)
    /\ \A s \in st : \E u \in st2 : StreamKey(u) = StreamKey(s)

LEMMA DecisionKeys ==
    ASSUME NEW t, NEW avail, NEW quiet, Decision(t, avail, quiet)
    PROVE  SameKeys(avail, streams')
<1>1. PICK st : st = streams'
  OBVIOUS
<1>2. /\ \A s \in st : \E u \in avail : SameStream(s, u)
      /\ \A s \in avail : \E u \in st : SameStream(s, u)
  BY <1>1 DEF Decision
<1>3. SameKeys(avail, st)
  BY <1>2 DEF SameKeys, SameStream, StreamKey
<1> QED
  BY <1>1, <1>3

LEMMA SameKeysPlays ==
    ASSUME NEW st, NEW st2, SameKeys(st, st2), NEW rm, NEW sb, NEW pb, NEW q, NEW su, NEW fl,
           PlaysOK(rm, sb, pb, q, st, su, fl)
    PROVE  PlaysOK(rm, sb, pb, q, st2, su, fl)
<1>1. ASSUME NEW s \in st2 PROVE \E u \in st : StreamKey(u) = StreamKey(s)
  BY DEF SameKeys
<1> QED
  BY <1>1 DEF PlaysOK

LEMMA SameKeysRegistered ==
    ASSUME NEW st, NEW st2, SameKeys(st, st2), NEW rm, NEW pb, NEW q, NEW kp,
           RegisteredOK(rm, pb, q, st, kp)
    PROVE  RegisteredOK(rm, pb, q, st2, kp)
<1>1. \A s \in st2 : StreamKey(s) \in DOMAIN pb
  BY DEF SameKeys, RegisteredOK
<1>2. ASSUME NEW x \in rm, KnownIn(pb, x), x.id \notin kp
      PROVE  \E s \in st2 : StreamKey(s) = Key(x)
  <2>1. PICK s \in st : StreamKey(s) = Key(x)
    BY <1>2 DEF RegisteredOK
  <2> QED
    BY <2>1 DEF SameKeys
<1> QED
  BY <1>1, <1>2 DEF RegisteredOK

\* The application decides.
LEMMA AppDecides ==
    ASSUME RemoteShape, PlaybackInv, StreamsOK', Resting("app"), NEW quiet,
           Decision("app", streams, quiet),
           UNCHANGED <<failed, backend, room, subscribed, callbacks, handling, publications, tracks, subscribing,
                       published, kept>>
    PROVE  PlaybackInv'
<1>1. PICK q : q = Pending
  OBVIOUS
<1>2. Pending' = q
  BY <1>1, PendingSame
<1>3. PICK st2 : st2 = streams'
  OBVIOUS
<1>4. PICK te2 : te2 = telling'
  OBVIOUS
<1>5. SameKeys(streams, st2)
  BY <1>3, DecisionKeys
<1>6. te2["sdk"] = telling["sdk"] /\ telling["app"] = <<>> /\ subscribing["app"] = NoTrack
  BY <1>4 DEF Decision, Resting, Threads
<1>7. Ids' /\ InOrder' /\ Leaves' /\ Outlives' /\ Says' /\ Playing'
  BY <1>1, <1>2 DEF PlaybackInv, Ids, InOrder, Leaves, Outlives, Says, Playing
<1>8. Registered'
  <2>1. RegisteredOK(room, publications, q, st2, kept)
    BY <1>1, <1>5, SameKeysRegistered DEF PlaybackInv, Registered
  <2> QED
    BY <2>1, <1>2, <1>3 DEF Registered
<1>9. Hands'
  <2>1. HandsOK(q, te2, subscribing)
    BY <1>1, <1>6 DEF PlaybackInv, Hands, HandsOK, Rests
  <2> QED
    BY <2>1, <1>2, <1>4 DEF Hands
<1>10. ASSUME ~raced'
       PROVE  /\ TellingOK(publications, st2, te2, subscribing) /\ ToldOK(publications, st2, te2, backend, failed)
              /\ AskedOK(room, subscribed, publications, st2, te2, subscribing, failed)
              /\ PlaysOK(room, subscribed, publications, q, st2, subscribing, failed)
  <2>1. ~raced /\ telling["sdk"] = <<>> /\ subscribing["sdk"] = NoTrack
    BY <1>10 DEF Decision, Resting, Threads
  <2>2. /\ \A u \in Threads : subscribing[u] = NoTrack
        /\ \A u \in Threads : u # "app" => telling[u] = <<>>
    BY <2>1, <1>6 DEF Threads
  <2>3. "app" \in Threads /\ Kept(streams', orders')
    BY DEF Threads, StreamsOK
  <2>4. TellingOK(publications, st2, te2, subscribing) /\ ToldOK(publications, st2, te2, backend, failed)
    BY <2>2, <2>3, <1>3, <1>4, DecisionTells
  <2>5. AskedOK(room, subscribed, publications, st2, te2, subscribing, failed)
    <3>1. AskedOK(room, subscribed, publications, streams, telling, subscribing, failed)
      BY <2>1 DEF PlaybackInv, Asked
    <3>2. ASSUME NEW s \in st2, publications[StreamKey(s)].track \in room
          PROVE  \/ publications[StreamKey(s)].track.id \in failed
                 \/ (publications[StreamKey(s)].track.id \in subscribed)
                       <=> publications[StreamKey(s)].admitted
      <4>1. PICK u \in streams : StreamKey(u) = StreamKey(s)
        BY <1>5 DEF SameKeys
      <4>2. DOMAIN telling["sdk"] = {}
        BY <2>1
      <4> QED
        BY <4>1, <4>2, <3>1, <3>2, <2>2 DEF AskedOK
    <3> QED
      BY <3>2 DEF AskedOK
  <2>6. PlaysOK(room, subscribed, publications, q, st2, subscribing, failed)
    BY <2>1, <1>1, <1>5, SameKeysPlays DEF PlaybackInv, PlaysAsTold
  <2> QED
    BY <2>4, <2>5, <2>6
<1>11. Tells' /\ Told' /\ Asked' /\ PlaysAsTold'
  BY <1>2, <1>3, <1>4, <1>10 DEF Tells, Told, Asked, PlaysAsTold
<1> QED
  BY <1>7, <1>8, <1>9, <1>11 DEF PlaybackInv

\* The callback thread decides: what is told and asked does not depend on what the
\* publications were, for every stream is going to be told.
LEMMA SdkDecides ==
    ASSUME RemoteShape, StreamsOK', Resting("sdk"), NEW avail, NEW quiet,
           Decision("sdk", avail, quiet), ~raced',
           NEW pb, NEW rm, NEW sb, NEW fl, NEW bk
    PROVE  /\ ~raced /\ \A u \in Threads : subscribing[u] = NoTrack
           /\ TellingOK(pb, streams', telling', subscribing) /\ ToldOK(pb, streams', telling', bk, fl)
           /\ AskedOK(rm, sb, pb, streams', telling', subscribing, fl)
<1>1. ~raced /\ telling["app"] = <<>> /\ subscribing["app"] = NoTrack /\ subscribing["sdk"] = NoTrack
  BY DEF Decision, Resting, Threads
<1>2. /\ \A u \in Threads : subscribing[u] = NoTrack
      /\ \A u \in Threads : u # "sdk" => telling[u] = <<>>
  BY <1>1 DEF Threads
<1>3. "sdk" \in Threads /\ Kept(streams', orders')
  BY DEF Threads, StreamsOK
<1>4. TellingOK(pb, streams', telling', subscribing) /\ ToldOK(pb, streams', telling', bk, fl)
  BY <1>2, <1>3, DecisionTells
<1>5. PICK te2 : te2 = telling'
  OBVIOUS
<1>6. PICK st2 : st2 = streams'
  OBVIOUS
<1>7. \A s \in st2 : \E i \in DOMAIN te2["sdk"] : te2["sdk"][i] = s
  BY <1>5, <1>6 DEF Decision
<1>8. AskedOK(rm, sb, pb, st2, te2, subscribing, fl)
  BY <1>7 DEF AskedOK
<1> QED
  BY <1>1, <1>2, <1>4, <1>5, <1>6, <1>8

-----------------------------------------------------------------------------
(* The event in hand goes on. *)

LEMMA HandedEvents ==
    ASSUME NEW q, NEW r, NEW h, Handed(q, r, h), NEW i \in DOMAIN r
    PROVE  /\ i \in Nat /\ i \in DOMAIN q /\ (i # 0 => r[i] = q[i])
           /\ Tracked(r[i]) => Tracked(q[i]) /\ r[i].track = q[i].track
           /\ Removes(r[i]) => Removes(q[i]) /\ r[i].track = q[i].track
           /\ Registers(r[i]) => i # 0
           /\ r[i].kind = "reconnecting" => i # 0
           /\ Plugs(r[i]) => Plugs(q[i]) /\ r[i].track = q[i].track
           /\ Plugs(r[i]) => ((r[i].kind = "unsubscribed") <=> (q[i].kind = "unsubscribed"))
<1>1. i \in Nat /\ i \in DOMAIN q /\ (i # 0 => r[i] = q[i])
  BY DEF Handed, IsQueue
<1>2. CASE i # 0
  BY <1>1, <1>2
<1>3. CASE i = 0
  <2>1. r[i] = h
    BY <1>3 DEF Handed
  <2>2. ~Registers(h) /\ h.kind # "reconnecting" /\ h.kind # "unsubscribed"
    BY DEF Handed, Registers
  <2>3. Plugs(h) => q[i].kind = "subscribed" /\ h.track = q[i].track
    BY <1>3 DEF Handed
  <2>4. Removes(h) => Removes(q[i]) /\ h.track = q[i].track
    BY <1>3 DEF Handed
  <2> QED
    BY <1>1, <1>3, <2>1, <2>2, <2>3, <2>4 DEF Tracked, Plugs
<1> QED
  BY <1>2, <1>3

\* A publication is one of the old ones, or of the track that is being registered.
Comes(q, pb, pb2) ==
    \A k \in DOMAIN pb2 :
       \/ k \in DOMAIN pb /\ pb2[k].track = pb[k].track
       \/ Registers(q[0]) /\ pb2[k].track = q[0].track

LEMMA HandedIds ==
    ASSUME NEW q, NEW r, NEW h, Handed(q, r, h), NEW rm, NEW pb, NEW pb2, NEW n,
           Comes(q, pb, pb2), IdsOK(rm, pb, q, n)
    PROVE  IdsOK(rm, pb2, r, n)
<1>1. 0 \in DOMAIN q
  BY DEF Handed, IsQueue
<1>2. ASSUME NEW x, Mention(rm, pb2, r, x) PROVE Mention(rm, pb, q, x)
  <2>1. CASE x \in rm
    BY <2>1 DEF Mention
  <2>2. CASE \E k \in DOMAIN pb2 : pb2[k].track = x
    BY <2>2, <1>1 DEF Mention, Comes, Tracked
  <2>3. CASE \E i \in DOMAIN r : Tracked(r[i]) /\ r[i].track = x
    BY <2>3, HandedEvents DEF Mention
  <2> QED
    BY <1>2, <2>1, <2>2, <2>3 DEF Mention
<1> QED
  BY <1>2, IdsFewer

LEMMA HandedOrder ==
    ASSUME NEW q, NEW r, NEW h, Handed(q, r, h), NEW rm, NEW pb, NEW pb2, NEW n,
           Comes(q, pb, pb2), IdsOK(rm, pb, q, n), OrderOK(pb, q)
    PROVE  OrderOK(pb2, r)
<1>1. ASSUME NEW i \in DOMAIN r, NEW j \in DOMAIN r,
             i < j, Tracked(r[i]), Tracked(r[j]), r[i].track.who = r[j].track.who
      PROVE  r[i].track.id <= r[j].track.id
  <2>1. /\ i \in DOMAIN q /\ Tracked(q[i]) /\ r[i].track = q[i].track
        /\ j \in DOMAIN q /\ Tracked(q[j]) /\ r[j].track = q[j].track
    BY <1>1, HandedEvents
  <2> QED
    BY <2>1, <1>1 DEF OrderOK
<1>2. ASSUME NEW k \in DOMAIN pb2, NEW i \in DOMAIN r,
             Tracked(r[i]), r[i].track.who = pb2[k].track.who
      PROVE  pb2[k].track.id <= r[i].track.id
  <2>1. i \in DOMAIN q /\ i \in Nat /\ Tracked(q[i]) /\ r[i].track = q[i].track
    BY <1>2, HandedEvents
  <2>2. CASE k \in DOMAIN pb /\ pb2[k].track = pb[k].track
    BY <2>1, <2>2, <1>2 DEF OrderOK
  <2>3. CASE Registers(q[0]) /\ pb2[k].track = q[0].track
    <3>1. 0 \in DOMAIN q /\ Tracked(q[0])
      BY <2>3 DEF Handed, IsQueue, Tracked
    <3>2. CASE i = 0
      <4>1. q[0].track \in Tracks
        BY <3>1, MentionFacts DEF IdsOK
      <4>2. q[0].track.id \in Int
        BY <4>1 DEF Tracks
      <4> QED
        BY <4>2, <3>2, <2>1, <2>3
    <3>3. CASE i # 0
      <4>1. 0 < i
        BY <3>3, <2>1
      <4> QED
        BY <4>1, <3>1, <2>1, <2>3, <1>2 DEF OrderOK
    <3> QED
      BY <3>2, <3>3
  <2> QED
    BY <2>2, <2>3 DEF Comes
<1> QED
  BY <1>1, <1>2 DEF OrderOK

LEMMA HandedLeaves ==
    ASSUME NEW q, NEW r, NEW h, Handed(q, r, h), NEW rm, NEW pb, NEW pb2,
           Comes(q, pb, pb2), LeavesOK(rm, pb, q),
           Removes(q[0]) => \/ Removes(h) /\ h.track = q[0].track
                            \/ \A k \in DOMAIN pb2 : pb2[k].track # q[0].track
    PROVE  LeavesOK(rm, pb2, r)
<1>0. 0 \in DOMAIN q /\ DOMAIN r = DOMAIN q /\ r[0] = h /\ \A i \in DOMAIN q \ {0} : r[i] = q[i]
  BY DEF Handed, IsQueue
<1>1. \A i \in DOMAIN r : Removes(r[i]) => r[i].track \notin rm
  BY HandedEvents DEF LeavesOK
<1>2. ASSUME NEW k \in DOMAIN pb2, pb2[k].track \notin rm
      PROVE  \E i \in DOMAIN r : Removes(r[i]) /\ r[i].track = pb2[k].track
  <2>1. CASE Registers(q[0]) /\ pb2[k].track = q[0].track
    <3>1. PICK i \in DOMAIN q : i > 0 /\ Removes(q[i]) /\ q[i].track = q[0].track
      BY <2>1, <1>0, <1>2 DEF LeavesOK
    <3>2. i # 0
      BY <3>1
    <3> QED
      BY <3>1, <3>2, <2>1, <1>0
  <2>2. CASE k \in DOMAIN pb /\ pb2[k].track = pb[k].track
    <3>1. PICK i \in DOMAIN q : Removes(q[i]) /\ q[i].track = pb2[k].track
      BY <2>2, <1>2 DEF LeavesOK
    <3>2. CASE i # 0
      BY <3>1, <3>2, <1>0
    <3>3. CASE i = 0
      BY <3>1, <3>3, <1>0
    <3> QED
      BY <3>2, <3>3
  <2> QED
    BY <2>1, <2>2 DEF Comes
<1>3. ASSUME NEW j \in DOMAIN r, Registers(r[j]), r[j].track \notin rm
      PROVE  \E i \in DOMAIN r : i > j /\ Removes(r[i]) /\ r[i].track = r[j].track
  <2>1. j \in Nat /\ j # 0 /\ r[j] = q[j] /\ j \in DOMAIN q
    BY <1>3, HandedEvents
  <2>2. PICK i \in DOMAIN q : i > j /\ Removes(q[i]) /\ q[i].track = q[j].track
    BY <2>1, <1>3 DEF LeavesOK
  <2>3. i # 0
    BY <2>1, <2>2
  <2> QED
    BY <2>1, <2>2, <2>3, <1>0
<1> QED
  BY <1>1, <1>2, <1>3 DEF LeavesOK

LEMMA HandedRegistered ==
    ASSUME NEW q, NEW r, NEW h, Handed(q, r, h), NEW rm, NEW pb, NEW pb2, NEW st, NEW st2, NEW kp,
           RegisteredOK(rm, pb, q, st, kp),
           \A x \in rm : KnownIn(pb, x) => KnownIn(pb2, x),
           q[0].kind = "subscribed" /\ q[0].track \in rm => KnownIn(pb2, q[0].track),
           \A s \in st2 : StreamKey(s) \in DOMAIN pb2,
           \A x \in rm : KnownIn(pb2, x) /\ x.id \notin kp => \E s \in st2 : StreamKey(s) = Key(x)
    PROVE  RegisteredOK(rm, pb2, r, st2, kp)
<1>1. ASSUME NEW x \in rm, ~KnownIn(pb2, x)
      PROVE  \E i \in DOMAIN r : r[i].kind = "subscribed" /\ r[i].track = x
  <2>1. PICK i \in DOMAIN q : q[i].kind = "subscribed" /\ q[i].track = x
    BY <1>1 DEF RegisteredOK
  <2>2. i # 0
    BY <2>1, <1>1
  <2> QED
    BY <2>1, <2>2 DEF Handed
<1> QED
  BY <1>1 DEF RegisteredOK

LEMMA HandedKept ==
    ASSUME NEW q, NEW r, NEW h, Handed(q, r, h), NEW rm, NEW pb, NEW pb2, NEW kp,
           Comes(q, pb, pb2), KeptOK(rm, pb, q, kp)
    PROVE  KeptOK(rm, pb2, r, kp)
<1>1. ASSUME NEW i \in DOMAIN r, r[i].kind = "reconnecting"
      PROVE  /\ \A k \in DOMAIN pb2 : pb2[k].track \in rm => pb2[k].track.id \in kp
             /\ \A j \in DOMAIN r : j < i /\ Registers(r[j]) /\ r[j].track \in rm =>
                  r[j].track.id \in kp
  <2>1. i \in Nat /\ i # 0 /\ r[i] = q[i] /\ i \in DOMAIN q
    BY <1>1, HandedEvents
  <2>2. ASSUME NEW k \in DOMAIN pb2, pb2[k].track \in rm PROVE pb2[k].track.id \in kp
    <3>1. CASE k \in DOMAIN pb /\ pb2[k].track = pb[k].track
      BY <3>1, <2>1, <2>2, <1>1 DEF KeptOK
    <3>2. CASE Registers(q[0]) /\ pb2[k].track = q[0].track
      <4>1. 0 \in DOMAIN q /\ 0 < i
        BY <2>1 DEF Handed, IsQueue
      <4> QED
        BY <4>1, <3>2, <2>1, <2>2, <1>1 DEF KeptOK
    <3> QED
      BY <3>1, <3>2 DEF Comes
  <2>3. ASSUME NEW j \in DOMAIN r, j < i, Registers(r[j]), r[j].track \in rm
        PROVE  r[j].track.id \in kp
    <3>1. j \in DOMAIN q /\ r[j] = q[j]
      BY <2>3, HandedEvents
    <3> QED
      BY <3>1, <2>1, <2>3, <1>1 DEF KeptOK
  <2> QED
    BY <2>2, <2>3
<1> QED
  BY <1>1 DEF KeptOK

LEMMA HandedSays ==
    ASSUME NEW q, NEW r, NEW h, Handed(q, r, h), NEW rm, NEW sb, SaysOK(rm, sb, q)
    PROVE  SaysOK(rm, sb, r)
<1>1. ASSUME NEW x \in rm, NEW i \in DOMAIN r, PlugAt(r, i, x),
             \A j \in DOMAIN r : j > i => ~PlugAt(r, j, x)
      PROVE  (x.id \in sb) <=> (r[i].kind # "unsubscribed")
  <2>1. /\ i \in DOMAIN q /\ i \in Nat /\ PlugAt(q, i, x)
        /\ (r[i].kind = "unsubscribed") <=> (q[i].kind = "unsubscribed")
    BY <1>1, HandedEvents DEF PlugAt
  <2>2. ASSUME NEW j \in DOMAIN q, j > i PROVE ~PlugAt(q, j, x)
    <3>1. j # 0 /\ j \in DOMAIN r /\ r[j] = q[j]
      BY <2>1, <2>2 DEF Handed
    <3> QED
      BY <3>1, <2>2, <1>1 DEF PlugAt
  <2> QED
    BY <2>1, <2>2 DEF SaysOK
<1> QED
  BY <1>1 DEF SaysOK

LEMMA HandedNoPlug ==
    ASSUME NEW q, NEW r, NEW h, Handed(q, r, h), NEW x, \A i \in DOMAIN r : ~PlugAt(r, i, x)
    PROVE  \A i \in DOMAIN q : i # 0 => ~PlugAt(q, i, x)
BY DEF Handed, PlugAt

\* What a step of a handler keeps of the queue, the room and the publications.
LEMMA HandedParts ==
    ASSUME QueueShape, QueueShape', PlaybackInv,
           UNCHANGED <<room, subscribed, callbacks, published, kept>>, GoesOn(handling'),
           Comes(Pending, publications, publications'),
           Removes(handling) =>
             \/ Removes(handling') /\ handling'.track = handling.track
             \/ \A k \in DOMAIN publications' : publications'[k].track # handling.track,
           \A x \in room : KnownIn(publications, x) => KnownIn(publications', x),
           handling.kind = "subscribed" /\ handling.track \in room =>
             KnownIn(publications', handling.track),
           \A s \in streams' : StreamKey(s) \in DOMAIN publications',
           \A x \in room : KnownIn(publications', x) /\ x.id \notin kept =>
             \E s \in streams' : StreamKey(s) = Key(x)
    PROVE  Ids' /\ InOrder' /\ Leaves' /\ Registered' /\ Outlives' /\ Says'
<1>1. PICK q : q = Pending
  OBVIOUS
<1>2. PICK r : r = Pending'
  OBVIOUS
<1>3. PICK h : h = handling'
  OBVIOUS
<1>4. PICK pb2 : pb2 = publications'
  OBVIOUS
<1>5. PICK st2 : st2 = streams'
  OBVIOUS
<1>6. Handed(q, r, h)
  BY <1>1, <1>2, <1>3, PendingHanded
<1>7. q[0] = handling
  BY <1>1, PendingIs
<1>8. Comes(q, publications, pb2)
  BY <1>1, <1>4
<1>9. /\ IdsOK(room, publications, q, published) /\ OrderOK(publications, q)
      /\ LeavesOK(room, publications, q)
      /\ RegisteredOK(room, publications, q, streams, kept) /\ KeptOK(room, publications, q, kept)
      /\ SaysOK(room, subscribed, q)
  BY <1>1 DEF PlaybackInv, Ids, InOrder, Leaves, Registered, Outlives, Says
<1>10. IdsOK(room, pb2, r, published) /\ OrderOK(pb2, r)
  BY <1>6, <1>8, <1>9, HandedIds, HandedOrder
<1>11. LeavesOK(room, pb2, r)
  <2>1. Removes(q[0]) => \/ Removes(h) /\ h.track = q[0].track
                         \/ \A k \in DOMAIN pb2 : pb2[k].track # q[0].track
    BY <1>3, <1>4, <1>7
  <2> QED
    BY <2>1, <1>6, <1>8, <1>9, HandedLeaves
<1>12. RegisteredOK(room, pb2, r, st2, kept)
  <2>1. /\ \A x \in room : KnownIn(publications, x) => KnownIn(pb2, x)
        /\ q[0].kind = "subscribed" /\ q[0].track \in room => KnownIn(pb2, q[0].track)
    BY <1>4, <1>7
  <2>2. /\ \A s \in st2 : StreamKey(s) \in DOMAIN pb2
        /\ \A x \in room : KnownIn(pb2, x) /\ x.id \notin kept => \E s \in st2 : StreamKey(s) = Key(x)
    BY <1>4, <1>5
  <2> QED
    BY <2>1, <2>2, <1>6, <1>9, HandedRegistered
<1>13. KeptOK(room, pb2, r, kept) /\ SaysOK(room, subscribed, r)
  BY <1>6, <1>8, <1>9, HandedKept, HandedSays
<1> QED
  BY <1>2, <1>4, <1>5, <1>10, <1>11, <1>12, <1>13
     DEF Ids, InOrder, Leaves, Registered, Outlives, Says

\* The same for a step that registers nothing and forgets nothing.
LEMMA HandedSameParts ==
    ASSUME QueueShape, QueueShape', PlaybackInv,
           UNCHANGED <<room, subscribed, callbacks, published, kept, streams>>, GoesOn(handling'),
           SameTracks(publications, publications'),
           Removes(handling) => Removes(handling') /\ handling'.track = handling.track,
           handling.kind = "subscribed" /\ handling.track \in room =>
             KnownIn(publications', handling.track)
    PROVE  Ids' /\ InOrder' /\ Leaves' /\ Registered' /\ Outlives' /\ Says'
<1>1. PICK pb2 : pb2 = publications'
  OBVIOUS
<1>2. SameTracks(publications, pb2)
  BY <1>1
<1>3. PICK q : q = Pending
  OBVIOUS
<1>4. Comes(q, publications, pb2)
  BY <1>2 DEF Comes, SameTracks
<1>5. \A x \in room : KnownIn(publications, x) <=> KnownIn(pb2, x)
  BY <1>2 DEF KnownIn, SameTracks
<1>6. RegisteredOK(room, publications, q, streams, kept)
  BY <1>3 DEF PlaybackInv, Registered
<1>7. /\ \A s \in streams : StreamKey(s) \in DOMAIN pb2
      /\ \A x \in room : KnownIn(pb2, x) /\ x.id \notin kept =>
           \E s \in streams : StreamKey(s) = Key(x)
  BY <1>2, <1>5, <1>6 DEF RegisteredOK, SameTracks
<1> QED
  BY <1>1, <1>3, <1>4, <1>5, <1>7, HandedParts

\* The same publications with the same decisions: what is told and asked is as it was.
SamePolicy(pb, pb2) ==
    /\ SameTracks(pb, pb2)
    /\ \A k \in DOMAIN pb : pb2[k].admitted = pb[k].admitted /\ pb2[k].gain = pb[k].gain

LEMMA SamePolicyKeeps ==
    ASSUME NEW pb, NEW pb2, SamePolicy(pb, pb2), NEW st, NEW te, NEW su, NEW rm, NEW sb,
           NEW fl, NEW bk,
           \A s \in st : StreamKey(s) \in DOMAIN pb,
           TellingOK(pb, st, te, su), ToldOK(pb, st, te, bk, fl), AskedOK(rm, sb, pb, st, te, su, fl)
    PROVE  TellingOK(pb2, st, te, su) /\ ToldOK(pb2, st, te, bk, fl) /\ AskedOK(rm, sb, pb2, st, te, su, fl)
<1>1. TellingOK(pb2, st, te, su)
  BY DEF SamePolicy, SameTracks, TellingOK
<1>2. ToldOK(pb2, st, te, bk, fl)
  BY DEF SamePolicy, SameTracks, ToldOK
<1>3. \A s \in st : /\ pb2[StreamKey(s)].track = pb[StreamKey(s)].track
                    /\ pb2[StreamKey(s)].admitted = pb[StreamKey(s)].admitted
  BY DEF SamePolicy, SameTracks
<1>4. AskedOK(rm, sb, pb2, st, te, su, fl)
  BY <1>3 DEF AskedOK
<1> QED
  BY <1>1, <1>2, <1>4

LEMMA SettleInv ==
    ASSUME RemoteShape, QueueShape', PlaybackInv, Settle
    PROVE  PlaybackInv'
<1>1. /\ UNCHANGED <<failed, backend, room, published, subscribed, callbacks, publications, tracks, streams,
                     subscribing, kept, telling, raced>>
      /\ handling.kind = "settle" /\ Resting("sdk") /\ handling' = Idle
  BY DEF Settle, sdkVars, clientVars, tellVars, Done
<1>2. QueueShape
  BY DEF RemoteShape
<1>3. GoesOn(handling')
  BY <1>1 DEF GoesOn
<1>4. SameTracks(publications, publications')
  BY <1>1 DEF SameTracks
<1>5. ~Removes(handling) /\ handling.kind # "subscribed"
  BY <1>1 DEF Removes
<1>6. Ids' /\ InOrder' /\ Leaves' /\ Registered' /\ Outlives' /\ Says'
  BY <1>1, <1>2, <1>3, <1>4, <1>5, HandedSameParts
<1>7. Hands'
  <2>1. Rests(telling', subscribing', "sdk")
    BY <1>1 DEF Resting, Rests
  <2> QED
    BY <2>1 DEF Hands, HandsOK
<1>8. Playing' /\ Tells' /\ Told' /\ Asked'
  BY <1>1 DEF PlaybackInv, Playing, Tells, Told, Asked
<1>9. PlaysAsTold'
  <2>1. PICK q : q = Pending
    OBVIOUS
  <2>2. PICK r : r = Pending'
    OBVIOUS
  <2>3. Handed(q, r, Idle)
    BY <2>1, <2>2, <1>1, <1>2, <1>3, PendingHanded
  <2>4. q[0].kind = "settle"
    BY <2>1, <1>1, <1>2, PendingIs
  <2>5. ASSUME NEW x, \A i \in DOMAIN r : ~PlugAt(r, i, x) PROVE \A i \in DOMAIN q : ~PlugAt(q, i, x)
    <3>1. \A i \in DOMAIN q : i # 0 => ~PlugAt(q, i, x)
      BY <2>3, <2>5, HandedNoPlug
    <3>2. ~PlugAt(q, 0, x)
      BY <2>4 DEF PlugAt, Plugs
    <3> QED
      BY <3>1, <3>2
  <2>6. ~raced => PlaysOK(room, subscribed, publications, q, streams, subscribing, failed)
    BY <2>1 DEF PlaybackInv, PlaysAsTold
  <2>7. ~raced => PlaysOK(room, subscribed, publications, r, streams, subscribing, failed)
    BY <2>5, <2>6 DEF PlaysOK
  <2> QED
    BY <2>2, <2>7, <1>1 DEF PlaysAsTold
<1> QED
  BY <1>6, <1>7, <1>8, <1>9 DEF PlaybackInv

\* The track in hand is registered only as itself.
LEMMA InHandKnown ==
    ASSUME RemoteShape, PlaybackInv, Tracked(handling)
    PROVE  /\ Known(handling.track) => publications[Key(handling.track)].track = handling.track
           /\ \A k \in DOMAIN publications : publications[k].track = handling.track =>
                k = Key(handling.track) /\ Known(handling.track)
<1>1. PICK q : q = Pending
  OBVIOUS
<1>2. PICK x : x = handling.track
  OBVIOUS
<1>3. 0 \in DOMAIN q /\ q[0] = handling
  BY <1>1, PendingIs DEF RemoteShape, IsQueue
<1>4. IdsOK(room, publications, q, published)
  BY <1>1 DEF PlaybackInv, Ids
<1>5. Mention(room, publications, q, x)
  BY <1>2, <1>3, MentionFacts
<1>6. ASSUME Known(x) PROVE publications[Key(x)].track = x
  <2>1. Key(x) \in DOMAIN publications /\ publications[Key(x)].track.id = x.id
    BY <1>6 DEF Known
  <2>2. Mention(room, publications, q, publications[Key(x)].track)
    BY <2>1, MentionFacts
  <2> QED
    BY <2>1, <2>2, <1>4, <1>5 DEF IdsOK
<1>7. ASSUME NEW k \in DOMAIN publications, publications[k].track = x
      PROVE  k = Key(x) /\ Known(x)
  BY <1>7 DEF RemoteShape, PublicationShape, Known
<1> QED
  BY <1>2, <1>6, <1>7

\* One publication begins or ends to play.
SetsPlaying(pb, pb2, on) ==
    /\ SamePolicy(pb, pb2)
    /\ \A k \in DOMAIN pb : pb2[k] = pb[k] \/ (pb2[k].playing = on /\ pb[k].track = handling.track)

LEMMA PlayingSet ==
    ASSUME RemoteShape, PlaybackInv, Tracked(handling), Known(handling.track), NEW on \in BOOLEAN,
           NEW pb2, pb2 = [publications EXCEPT ![Key(handling.track)].playing = on]
    PROVE  SetsPlaying(publications, pb2, on) /\ pb2[Key(handling.track)].playing = on
<1>1. PICK k : k = Key(handling.track)
  OBVIOUS
<1>2. k \in DOMAIN publications /\ publications[k] \in Publications
      /\ publications[k].track = handling.track
  BY <1>1, InHandKnown DEF Known, RemoteShape, PublicationShape
<1>3. PICK rec : rec = [publications[k] EXCEPT !.playing = on]
  OBVIOUS
<1>4. /\ rec.track = publications[k].track /\ rec.admitted = publications[k].admitted
      /\ rec.gain = publications[k].gain /\ rec.playing = on
  BY <1>2, <1>3 DEF Publications
<1>5. PICK pb3 : pb3 = pb2
  OBVIOUS
<1>6. pb3 = [publications EXCEPT ![k] = rec]
  BY <1>1, <1>2, <1>3, <1>5
<1>7. DOMAIN pb3 = DOMAIN publications /\ pb3[k] = rec
      /\ \A j \in DOMAIN publications : j # k => pb3[j] = publications[j]
  BY <1>2, <1>6
<1>8. SetsPlaying(publications, pb3, on) /\ pb3[k].playing = on
  <2>1. SameTracks(publications, pb3)
    BY <1>2, <1>4, <1>7 DEF SameTracks
  <2>2. \A j \in DOMAIN publications : /\ pb3[j].admitted = publications[j].admitted
                                       /\ pb3[j].gain = publications[j].gain
    BY <1>4, <1>7, Zenon
  <2>3. pb3[k].playing = on
    BY <1>4, <1>7, Zenon
  <2>4. \A j \in DOMAIN publications :
          pb3[j] = publications[j] \/ (pb3[j].playing = on /\ publications[j].track = handling.track)
    <3>1. SUFFICES ASSUME NEW j \in DOMAIN publications, pb3[j] # publications[j]
                   PROVE  pb3[j].playing = on /\ publications[j].track = handling.track
      BY Zenon
    <3>2. j = k
      BY <3>1, <1>7
    <3> QED
      BY <3>2, <2>3, <1>2, Zenon
  <2> QED
    BY <2>1, <2>2, <2>3, <2>4, Zenon DEF SetsPlaying, SamePolicy
<1> QED
  BY <1>1, <1>5, <1>8

LEMMA StartedInv ==
    ASSUME RemoteShape, QueueShape', PlaybackInv, RemoteAudioStarted
    PROVE  PlaybackInv'
<1>1. /\ UNCHANGED <<room, published, subscribed, callbacks, streams, subscribing, kept, telling,
                     raced, backend>>
      /\ handling.kind = "start" /\ Resting("sdk") /\ handling' = Idle
  BY DEF RemoteAudioStarted, sdkVars, clientVars, tellVars, Done
<1>2. QueueShape /\ Tracked(handling) /\ Plugs(handling)
  BY <1>1 DEF RemoteShape, Tracked, Plugs
<1>3. PICK x : x = handling.track
  OBVIOUS
<1>4. PICK pb2 : pb2 = publications'
  OBVIOUS
<1>f. PICK fl2 : fl2 = failed'
  OBVIOUS
\* The track is played; or it may not be; or it could not be, and this is reported.
<1>5. /\ SetsPlaying(publications, pb2, TRUE)
      /\ MayPlay(x) => \/ pb2[Key(x)].playing /\ x \in tracks'
                       \/ pb2 = publications /\ x.id \in fl2
      /\ ~MayPlay(x) => pb2 = publications
      /\ tracks \subseteq tracks' /\ failed \subseteq fl2
  <2>0. failed \subseteq fl2
    BY <1>f DEF RemoteAudioStarted, Fails
  <2>1. CASE MayPlay(x) /\ publications' = [publications EXCEPT ![Key(x)].playing = TRUE]
             /\ tracks' = tracks \cup {x}
    <3>1. pb2 = [publications EXCEPT ![Key(handling.track)].playing = TRUE]
          /\ tracks' = tracks \cup {x}
      BY <2>1, <1>3, <1>4 DEF RemoteAudioStarted
    <3>2. Known(handling.track)
      BY <2>1, <1>3 DEF MayPlay
    <3>3. SetsPlaying(publications, pb2, TRUE) /\ pb2[Key(handling.track)].playing = TRUE
      BY <3>1, <3>2, <1>2, PlayingSet
    <3>4. pb2[Key(x)].playing
      BY <3>3, <1>3, Zenon
    <3>5. x \in tracks' /\ tracks \subseteq tracks'
      BY <3>1
    <3>6. SetsPlaying(publications, pb2, TRUE)
      BY <3>3
    <3>7. MayPlay(x) => pb2[Key(x)].playing /\ x \in tracks'
      BY <3>4, <3>5
    <3>8. ~MayPlay(x) => pb2 = publications
      BY <2>1
    <3> QED
      BY <3>5, <3>6, <3>7, <3>8, <2>0
  <2>2. CASE /\ UNCHANGED <<publications, tracks>>
             /\ MayPlay(x) => x.id \in fl2
    BY <2>0, <2>2, <1>4 DEF SetsPlaying, SamePolicy, SameTracks
  <2> QED
    BY <2>1, <2>2, <1>3, <1>f DEF RemoteAudioStarted, Fails
<1>6. SamePolicy(publications, pb2) /\ SameTracks(publications, pb2)
  BY <1>5 DEF SetsPlaying, SamePolicy
<1>7. Ids' /\ InOrder' /\ Leaves' /\ Registered' /\ Outlives' /\ Says'
  <2>1. GoesOn(handling') /\ ~Removes(handling) /\ handling.kind # "subscribed"
    BY <1>1 DEF GoesOn, Removes
  <2> QED
    BY <2>1, <1>1, <1>2, <1>4, <1>6, HandedSameParts
<1>8. Hands'
  <2>1. Rests(telling', subscribing', "sdk")
    BY <1>1 DEF Resting, Rests
  <2> QED
    BY <2>1 DEF Hands, HandsOK
<1>9. Playing'
  <2>1. PICK tr2 : tr2 = tracks'
    OBVIOUS
  <2>2. ASSUME NEW k \in DOMAIN pb2, pb2[k].playing PROVE pb2[k].track \in tr2
    <3>1. k \in DOMAIN publications /\ pb2[k].track = publications[k].track
      BY <1>6 DEF SameTracks
    <3>2. CASE pb2[k] = publications[k]
      BY <3>1, <3>2, <2>1, <2>2, <1>5 DEF PlaybackInv, Playing, PlayingOK
    <3>3. CASE pb2[k] # publications[k]
      <4>1. MayPlay(x) /\ publications[k].track = x
        BY <3>1, <3>3, <1>3, <1>5 DEF SetsPlaying
      <4> QED
        BY <4>1, <3>1, <3>3, <2>1, <1>5
    <3> QED
      BY <3>2, <3>3
  <2>3. PlayingOK(tr2, pb2)
    BY <2>2 DEF PlayingOK
  <2> QED
    BY <2>1, <2>3, <1>4 DEF Playing
<1>10. PICK q : q = Pending
  OBVIOUS
<1>11. PICK r : r = Pending'
  OBVIOUS
<1>12. \A s \in streams : StreamKey(s) \in DOMAIN publications
  BY DEF PlaybackInv, Registered, RegisteredOK
<1>13. ASSUME ~raced
       PROVE  /\ TellingOK(pb2, streams, telling, subscribing) /\ ToldOK(pb2, streams, telling, backend, fl2)
              /\ AskedOK(room, subscribed, pb2, streams, telling, subscribing, fl2)
              /\ PlaysOK(room, subscribed, pb2, r, streams, subscribing, fl2)
  <2>1. /\ TellingOK(publications, streams, telling, subscribing)
        /\ ToldOK(publications, streams, telling, backend, failed)
        /\ AskedOK(room, subscribed, publications, streams, telling, subscribing, failed)
        /\ PlaysOK(room, subscribed, publications, q, streams, subscribing, failed)
    BY <1>13, <1>10 DEF PlaybackInv, Tells, Told, Asked, PlaysAsTold
  <2>0. /\ TellingOK(pb2, streams, telling, subscribing)
        /\ ToldOK(pb2, streams, telling, backend, failed)
        /\ AskedOK(room, subscribed, pb2, streams, telling, subscribing, failed)
    BY <2>1, <1>6, <1>12, SamePolicyKeeps
  <2>2. /\ ToldOK(pb2, streams, telling, backend, fl2)
        /\ AskedOK(room, subscribed, pb2, streams, telling, subscribing, fl2)
    BY <2>0, <1>5 DEF ToldOK, AskedOK
  <2>3. Handed(q, r, Idle) /\ q[0] = handling
    <3>1. GoesOn(handling')
      BY <1>1 DEF GoesOn
    <3> QED
      BY <3>1, <1>1, <1>2, <1>10, <1>11, PendingHanded, PendingIs
  <2>4. ASSUME NEW s \in streams, NEW k, k = StreamKey(s), NEW p, p = pb2[k].track, p \in room,
               \A i \in DOMAIN r : ~PlugAt(r, i, p)
        PROVE  \/ p.id \in fl2
               \/ pb2[k].playing <=> (p.id \in subscribed)
               \/ /\ p.id \in subscribed
                  /\ \E t \in Threads : /\ subscribing[t] # NoTrack
                                        /\ subscribing[t].id = p.id /\ ~subscribing[t].on
    <3>1. k \in DOMAIN publications /\ p = publications[k].track
      BY <2>4, <1>6, <1>12 DEF SameTracks
    <3>2. \A i \in DOMAIN q : i # 0 => ~PlugAt(q, i, p)
      BY <2>3, <2>4, HandedNoPlug
    <3>3. CASE p # x
      <4>1. pb2[k] = publications[k]
        BY <3>1, <3>3, <1>3, <1>5 DEF SetsPlaying
      <4>2. \A i \in DOMAIN q : ~PlugAt(q, i, p)
        BY <3>2, <3>3, <2>3, <1>3 DEF PlugAt
      <4> QED
        BY <4>1, <4>2, <3>1, <2>1, <2>4, <1>5 DEF PlaysOK
    <3>4. CASE p = x
      <4>1. k = Key(x) /\ Known(x)
        BY <3>1, <3>4, <1>2, <1>3, InHandKnown
      <4>2. x.id \in subscribed
        <5>1. SaysOK(room, subscribed, q)
          BY <1>10 DEF PlaybackInv, Says
        <5>2. 0 \in DOMAIN q /\ PlugAt(q, 0, x) /\ q[0].kind # "unsubscribed"
          BY <2>3, <1>1, <1>2, <1>3 DEF PlugAt, Handed, IsQueue
        <5>3. \A j \in DOMAIN q : j > 0 => ~PlugAt(q, j, x)
          BY <3>2, <3>4
        <5> QED
          BY <5>1, <5>2, <5>3, <3>4, <2>4 DEF SaysOK
      <4>3. CASE MayPlay(x)
        BY <4>1, <4>2, <4>3, <3>4, <1>5
      <4>4. CASE ~MayPlay(x) /\ x.id \in failed
        BY <4>4, <3>4, <1>5
      <4>5. CASE ~MayPlay(x) /\ x.id \notin failed
        <5>1. ~publications[k].admitted
          BY <4>1, <4>5 DEF MayPlay
        <5>2. DOMAIN telling["sdk"] = {}
          BY <1>1 DEF Resting
        <5>3. PICK t \in Threads : subscribing[t] # NoTrack /\ subscribing[t].id = publications[k].track.id
          BY <5>1, <5>2, <4>2, <4>5, <3>1, <3>4, <2>1, <2>4 DEF AskedOK
        <5>4. ~subscribing[t].on
          BY <5>1, <5>3, <3>1, <2>1 DEF TellingOK
        <5> QED
          BY <5>3, <5>4, <4>2, <3>1, <3>4
      <4> QED
        BY <4>3, <4>4, <4>5
    <3> QED
      BY <3>3, <3>4
  <2>5. PlaysOK(room, subscribed, pb2, r, streams, subscribing, fl2)
    BY <2>4 DEF PlaysOK
  <2> QED
    BY <2>0, <2>2, <2>5
<1>14. Tells' /\ Told' /\ Asked' /\ PlaysAsTold'
  BY <1>1, <1>4, <1>11, <1>13, <1>f DEF Tells, Told, Asked, PlaysAsTold
<1> QED
  BY <1>7, <1>8, <1>9, <1>14 DEF PlaybackInv

LEMMA StoppedInv ==
    ASSUME RemoteShape, QueueShape', PlaybackInv, RemoteAudioStopped
    PROVE  PlaybackInv'
<1>1. /\ UNCHANGED <<failed, backend, room, published, subscribed, callbacks, streams, subscribing, kept, telling,
                     raced>>
      /\ handling.kind \in {"unsubscribed", "unpublished"}
      /\ Stopped(handling.track)
  BY DEF RemoteAudioStopped, sdkVars, clientVars, tellVars
<1>2. QueueShape /\ Tracked(handling)
  BY <1>1 DEF RemoteShape, Tracked, Plugs, Removes
<1>3. PICK x \in Tracks : x = handling.track
  BY <1>1, <1>2, InHandTrack DEF Named
<1>4. /\ handling.kind = "unsubscribed" => handling' = Idle
      /\ handling.kind = "unpublished" => handling' = Event("withdraw", x)
  <2>1. handling = [kind |-> handling.kind, track |-> x]
    BY <1>1, <1>2, <1>3, InHandTrack DEF Named
  <2>2. ASSUME handling.kind = "unpublished" PROVE handling' = Event("withdraw", x)
    <3>1. handling' = [handling EXCEPT !.kind = "withdraw"]
      BY <2>2 DEF RemoteAudioStopped, Next1
    <3> QED
      BY <3>1, <2>1 DEF Event
  <2> QED
    BY <2>2 DEF RemoteAudioStopped, Done
<1>5. GoesOn(handling') /\ (Removes(handling) => Removes(handling') /\ handling'.track = handling.track)
  BY <1>1, <1>3, <1>4 DEF GoesOn, Removes, Event
<1>6. PICK pb2 : pb2 = publications'
  OBVIOUS
<1>7. PICK tr2 : tr2 = tracks'
  OBVIOUS
<1>8. /\ SetsPlaying(publications, pb2, FALSE)
      /\ x \in tracks /\ Known(x) => ~pb2[Key(x)].playing
      /\ ~(x \in tracks /\ Known(x)) => pb2 = publications
      /\ tr2 = tracks \ {x}
  <2>1. tr2 = tracks \ {x}
    BY <1>1, <1>3, <1>7 DEF Stopped
  <2>2. CASE x \in tracks /\ Known(x)
    <3>1. pb2 = [publications EXCEPT ![Key(handling.track)].playing = FALSE]
      BY <2>2, <1>1, <1>3, <1>6 DEF Stopped
    <3>2. Known(handling.track)
      BY <2>2, <1>3
    <3>3. SetsPlaying(publications, pb2, FALSE) /\ pb2[Key(handling.track)].playing = FALSE
      BY <3>1, <3>2, <1>2, PlayingSet
    <3>4. ~pb2[Key(x)].playing
      BY <3>3, <1>3
    <3> QED
      BY <2>1, <2>2, <3>3, <3>4
  <2>3. CASE ~(x \in tracks /\ Known(x))
    <3>1. pb2 = publications
      BY <2>3, <1>1, <1>3, <1>6 DEF Stopped
    <3> QED
      BY <2>1, <2>3, <3>1 DEF SetsPlaying, SamePolicy, SameTracks
  <2> QED
    BY <2>2, <2>3
<1>9. SamePolicy(publications, pb2) /\ SameTracks(publications, pb2)
  BY <1>8 DEF SetsPlaying, SamePolicy
<1>10. Ids' /\ InOrder' /\ Leaves' /\ Registered' /\ Outlives' /\ Says'
  <2>1. handling.kind # "subscribed"
    BY <1>1
  <2> QED
    BY <2>1, <1>1, <1>2, <1>5, <1>6, <1>9, HandedSameParts
<1>11. PICK q : q = Pending
  OBVIOUS
<1>12. PICK r : r = Pending'
  OBVIOUS
<1>13. q[0] = handling
  BY <1>2, <1>11, PendingIs
<1>14. Hands'
  <2>1. Rests(telling, subscribing, "sdk")
    BY <1>1, <1>11, <1>13 DEF PlaybackInv, Hands, HandsOK
  <2> QED
    BY <2>1, <1>1 DEF Hands, HandsOK
<1>15. Playing'
  <2>1. ASSUME NEW k \in DOMAIN pb2, pb2[k].playing PROVE pb2[k].track \in tr2
    <3>1. k \in DOMAIN publications /\ pb2[k].track = publications[k].track
      BY <1>9 DEF SameTracks
    <3>2. pb2[k] = publications[k]
      BY <3>1, <2>1, <1>8 DEF SetsPlaying
    <3>3. pb2[k].track \in tracks
      BY <3>1, <3>2, <2>1 DEF PlaybackInv, Playing, PlayingOK
    <3>4. pb2[k].track # x
      <4>1. SUFFICES ASSUME publications[k].track = x PROVE FALSE
        BY <3>1
      <4>2. k = Key(x) /\ Known(x)
        BY <4>1, <3>1, <1>2, <1>3, InHandKnown
      <4> QED
        BY <4>1, <4>2, <3>1, <3>3, <2>1, <1>8
    <3> QED
      BY <3>3, <3>4, <1>8
  <2>2. PlayingOK(tr2, pb2)
    BY <2>1 DEF PlayingOK
  <2> QED
    BY <2>2, <1>6, <1>7 DEF Playing
<1>16. \A s \in streams : StreamKey(s) \in DOMAIN publications
  BY DEF PlaybackInv, Registered, RegisteredOK
<1>17. ASSUME ~raced
       PROVE  /\ TellingOK(pb2, streams, telling, subscribing) /\ ToldOK(pb2, streams, telling, backend, failed)
              /\ AskedOK(room, subscribed, pb2, streams, telling, subscribing, failed)
              /\ PlaysOK(room, subscribed, pb2, r, streams, subscribing, failed)
  <2>1. /\ TellingOK(publications, streams, telling, subscribing)
        /\ ToldOK(publications, streams, telling, backend, failed)
        /\ AskedOK(room, subscribed, publications, streams, telling, subscribing, failed)
        /\ PlaysOK(room, subscribed, publications, q, streams, subscribing, failed)
    BY <1>17, <1>11 DEF PlaybackInv, Tells, Told, Asked, PlaysAsTold
  <2>2. /\ TellingOK(pb2, streams, telling, subscribing) /\ ToldOK(pb2, streams, telling, backend, failed)
        /\ AskedOK(room, subscribed, pb2, streams, telling, subscribing, failed)
    BY <2>1, <1>9, <1>16, SamePolicyKeeps
  <2>3. PICK h : Handed(q, r, h)
    BY <1>1, <1>2, <1>5, <1>11, <1>12, PendingHanded
  <2>4. ASSUME NEW s \in streams, NEW k, k = StreamKey(s), NEW p, p = pb2[k].track, p \in room,
               \A i \in DOMAIN r : ~PlugAt(r, i, p)
        PROVE  \/ p.id \in failed
               \/ pb2[k].playing <=> (p.id \in subscribed)
               \/ /\ p.id \in subscribed
                  /\ \E t \in Threads : /\ subscribing[t] # NoTrack
                                        /\ subscribing[t].id = p.id /\ ~subscribing[t].on
    <3>1. k \in DOMAIN publications /\ p = publications[k].track
      BY <2>4, <1>9, <1>16 DEF SameTracks
    <3>2. \A i \in DOMAIN q : i # 0 => ~PlugAt(q, i, p)
      BY <2>3, <2>4, HandedNoPlug
    <3>3. CASE p # x
      <4>1. pb2[k] = publications[k]
        BY <3>1, <3>3, <1>3, <1>8 DEF SetsPlaying
      <4>2. \A i \in DOMAIN q : ~PlugAt(q, i, p)
        BY <3>2, <3>3, <1>3, <1>13 DEF PlugAt
      <4> QED
        BY <4>1, <4>2, <3>1, <2>1, <2>4 DEF PlaysOK
    <3>4. CASE p = x
      <4>1. k = Key(x) /\ Known(x)
        BY <3>1, <3>4, <1>2, <1>3, InHandKnown
      <4>2. 0 \in DOMAIN q
        BY <2>3 DEF Handed, IsQueue
      <4>3. handling.kind = "unsubscribed"
        <5>1. LeavesOK(room, publications, q)
          BY <1>11 DEF PlaybackInv, Leaves
        <5>2. ~Removes(q[0])
          BY <5>1, <4>2, <3>4, <2>4, <1>3, <1>13 DEF LeavesOK
        <5> QED
          BY <5>2, <1>1, <1>13 DEF Removes
      <4>4. x.id \notin subscribed
        <5>1. SaysOK(room, subscribed, q)
          BY <1>11 DEF PlaybackInv, Says
        <5>2. PlugAt(q, 0, x) /\ q[0].kind = "unsubscribed"
          BY <4>3, <1>3, <1>13 DEF PlugAt, Plugs
        <5>3. \A j \in DOMAIN q : j > 0 => ~PlugAt(q, j, x)
          BY <3>2, <3>4
        <5> QED
          BY <5>1, <5>2, <5>3, <4>2, <3>4, <2>4 DEF SaysOK
      <4>5. ~pb2[k].playing
        <5>1. CASE x \in tracks
          BY <5>1, <4>1, <1>8
        <5>2. CASE x \notin tracks
          BY <5>2, <3>1, <3>4, <1>8 DEF PlaybackInv, Playing, PlayingOK
        <5> QED
          BY <5>1, <5>2
      <4> QED
        BY <4>4, <4>5, <3>4
    <3> QED
      BY <3>3, <3>4
  <2>5. PlaysOK(room, subscribed, pb2, r, streams, subscribing, failed)
    BY <2>4 DEF PlaysOK
  <2> QED
    BY <2>2, <2>5
<1>18. Tells' /\ Told' /\ Asked' /\ PlaysAsTold'
  BY <1>1, <1>6, <1>12, <1>17 DEF Tells, Told, Asked, PlaysAsTold
<1> QED
  BY <1>10, <1>14, <1>15, <1>18 DEF PlaybackInv

-----------------------------------------------------------------------------
(* A publication is registered. *)

\* When a track is in hand, the participant's older publication of the scope is gone.
LEMMA FreshKey ==
    ASSUME RemoteShape, PlaybackInv, Tracked(handling), ~Known(handling.track)
    PROVE  Key(handling.track) \notin DOMAIN publications
<1>1. PICK q : q = Pending
  OBVIOUS
<1>2. PICK x : x = handling.track
  OBVIOUS
<1>3. SUFFICES ASSUME Key(x) \in DOMAIN publications PROVE FALSE
  BY <1>2
<1>4. PICK y : y = publications[Key(x)].track
  OBVIOUS
<1>5. 0 \in DOMAIN q /\ q[0] = handling /\ DOMAIN q \subseteq Nat
  BY <1>1, PendingIs DEF RemoteShape, IsQueue
<1>6. Tracked(q[0])
  BY <1>5
<1>7. IdsOK(room, publications, q, published) /\ OrderOK(publications, q)
      /\ LeavesOK(room, publications, q)
  BY <1>1 DEF PlaybackInv, Ids, InOrder, Leaves
<1>8. Mention(room, publications, q, x) /\ Mention(room, publications, q, y)
  BY <1>2, <1>3, <1>4, <1>5, <1>6, MentionFacts
<1>9. x \in Tracks /\ y \in Tracks
  BY <1>7, <1>8 DEF IdsOK
<1>10. x.id \in Int /\ y.id \in Int /\ x.id # y.id
  BY <1>2, <1>3, <1>4, <1>9 DEF Known, Tracks
<1>11. Key(y) = Key(x)
  BY <1>3, <1>4 DEF RemoteShape, PublicationShape
<1>12. y.who = x.who
  BY <1>11 DEF Key
<1>13. y.id <= x.id
  BY <1>2, <1>3, <1>4, <1>5, <1>6, <1>7, <1>12 DEF OrderOK
<1>14. y \notin room
  <2>1. SUFFICES ASSUME y \in room PROVE FALSE
    OBVIOUS
  <2>2. x.id <= y.id
    BY <2>1, <1>7, <1>8, <1>12 DEF IdsOK
  <2> QED
    BY <2>2, <1>10, <1>13
<1>15. PICK i \in DOMAIN q : Removes(q[i]) /\ q[i].track = y
  BY <1>3, <1>4, <1>7, <1>14 DEF LeavesOK
<1>16. i # 0 /\ i \in Nat /\ Tracked(q[i])
  BY <1>2, <1>5, <1>10, <1>15 DEF Tracked
<1>17. 0 < i
  BY <1>16
<1>18. x.id <= y.id
  BY <1>2, <1>5, <1>6, <1>7, <1>12, <1>15, <1>16, <1>17 DEF OrderOK
<1> QED
  BY <1>10, <1>13, <1>18

\* A registration that goes on to the playout leaves the same plugs pending.
LEMMA RegisterPlugs ==
    ASSUME NEW q, NEW r, NEW h, Handed(q, r, h), Registers(q[0]),
           q[0].kind = "subscribed" => h.kind = "start" /\ h.track = q[0].track,
           NEW x, \A i \in DOMAIN r : ~PlugAt(r, i, x)
    PROVE  \A i \in DOMAIN q : ~PlugAt(q, i, x)
<1>1. \A i \in DOMAIN q : i # 0 => ~PlugAt(q, i, x)
  BY HandedNoPlug
<1>2. ~PlugAt(q, 0, x)
  <2>1. SUFFICES ASSUME PlugAt(q, 0, x) PROVE FALSE
    OBVIOUS
  <2>2. q[0].kind = "subscribed" /\ q[0].track = x
    BY <2>1 DEF PlugAt, Plugs, Registers
  <2>3. 0 \in DOMAIN r /\ PlugAt(r, 0, x)
    BY <2>2 DEF Handed, IsQueue, PlugAt, Plugs
  <2> QED
    BY <2>3
<1> QED
  BY <1>1, <1>2

LEMMA AvailableInv ==
    ASSUME RemoteShape, QueueShape', StreamsOK', PlaybackInv, RemoteAudioAvailable
    PROVE  PlaybackInv'
<1>1. /\ UNCHANGED <<failed, backend, room, published, subscribed, callbacks, tracks, subscribing, kept>>
      /\ handling.kind \in {"published", "subscribed"}
  BY DEF RemoteAudioAvailable, sdkVars
<1>2. QueueShape /\ Tracked(handling) /\ Registers(handling) /\ ~Removes(handling)
  BY <1>1 DEF RemoteShape, Tracked, Registers, Removes
<1>3. PICK x \in Tracks : x = handling.track
  BY <1>1, <1>2, InHandTrack DEF Named
<1>4. /\ handling.kind = "published" => handling' = Event("settle", x)
      /\ handling.kind = "subscribed" => handling' = Event("start", x)
  <2>1. handling = [kind |-> handling.kind, track |-> x]
    BY <1>1, <1>2, <1>3, InHandTrack DEF Named
  <2>2. ASSUME handling.kind = "published" PROVE handling' = Event("settle", x)
    <3>1. handling' = [handling EXCEPT !.kind = "settle"]
      BY <2>2 DEF RemoteAudioAvailable, Next1
    <3> QED
      BY <3>1, <2>1 DEF Event
  <2>3. ASSUME handling.kind = "subscribed" PROVE handling' = Event("start", x)
    <3>1. handling' = [handling EXCEPT !.kind = "start"]
      BY <2>3 DEF RemoteAudioAvailable, Next1
    <3> QED
      BY <3>1, <2>1 DEF Event
  <2> QED
    BY <2>2, <2>3
<1>5. GoesOn(handling')
  BY <1>1, <1>3, <1>4 DEF GoesOn
<1>6. PICK q : q = Pending
  OBVIOUS
<1>7. PICK r : r = Pending'
  OBVIOUS
<1>8. PICK h : h = handling'
  OBVIOUS
<1>9. Handed(q, r, h) /\ q[0] = handling /\ r[0] = h /\ 0 \in DOMAIN r
  <2>1. Handed(q, r, h) /\ q[0] = handling
    BY <1>1, <1>2, <1>5, <1>6, <1>7, <1>8, PendingHanded, PendingIs
  <2> QED
    BY <2>1 DEF Handed, IsQueue
<1>10. q[0].kind = "subscribed" => h.kind = "start" /\ h.track = q[0].track
  BY <1>3, <1>4, <1>8, <1>9 DEF Event
<1>11. ASSUME NEW y, \A i \in DOMAIN r : ~PlugAt(r, i, y) PROVE \A i \in DOMAIN q : ~PlugAt(q, i, y)
  BY <1>2, <1>9, <1>10, <1>11, RegisterPlugs
<1>12. Resting("sdk")
  BY <1>1, <1>6, <1>9 DEF PlaybackInv, Hands, HandsOK, Rests, Resting
<1>13. Hands'
  <2>1. h.kind \in {"settle", "start"}
    BY <1>1, <1>4, <1>8 DEF Event
  <2>2. PICK te2 : te2 = telling'
    OBVIOUS
  <2>3. PICK su2 : su2 = subscribing'
    OBVIOUS
  <2>4. HandsOK(r, te2, su2)
    BY <2>1, <1>9 DEF HandsOK
  <2> QED
    BY <2>2, <2>3, <2>4, <1>7 DEF Hands
<1>14. CASE Known(x)
  <2>1. UNCHANGED <<publications, streams, telling, raced>>
    BY <1>3, <1>14 DEF RemoteAudioAvailable
  <2>2. SameTracks(publications, publications') /\ KnownIn(publications', handling.track)
    BY <2>1, <1>3, <1>14 DEF SameTracks, KnownIn, Known
  <2>3. Ids' /\ InOrder' /\ Leaves' /\ Registered' /\ Outlives' /\ Says'
    BY <2>1, <2>2, <1>1, <1>2, <1>5, HandedSameParts
  <2>4. Playing' /\ Tells' /\ Told' /\ Asked'
    BY <2>1, <1>1 DEF PlaybackInv, Playing, Tells, Told, Asked
  <2>5. ~raced => PlaysOK(room, subscribed, publications, q, streams, subscribing, failed)
    BY <1>6 DEF PlaybackInv, PlaysAsTold
  <2>6. ~raced => PlaysOK(room, subscribed, publications, r, streams, subscribing, failed)
    BY <2>5, <1>11 DEF PlaysOK
  <2>7. PlaysAsTold'
    BY <2>1, <2>6, <1>1, <1>7 DEF PlaysAsTold
  <2> QED
    BY <2>3, <2>4, <2>7, <1>13 DEF PlaybackInv
<1>15. CASE ~Known(x)
  <2>1. Key(x) \notin DOMAIN publications
    BY <1>2, <1>3, <1>15, FreshKey
  <2>2. PICK pb2 : pb2 = publications'
    OBVIOUS
  <2>3. /\ DOMAIN pb2 = DOMAIN publications \cup {Key(x)}
        /\ pb2[Key(x)] = [track |-> x, admitted |-> FALSE, gain |-> 0, playing |-> FALSE]
        /\ \A k \in DOMAIN publications : k # Key(x) /\ pb2[k] = publications[k]
    <3>1. pb2 = [k \in DOMAIN publications \cup {Key(x)} |->
                   IF k = Key(x)
                   THEN [track |-> x, admitted |-> FALSE, gain |-> 0, playing |-> FALSE]
                   ELSE publications[k]]
      BY <2>2, <1>3, <1>15 DEF RemoteAudioAvailable
    <3> QED
      BY <3>1, <2>1
  <2>4. /\ \A s \in streams : StreamKey(s) \in DOMAIN publications
        /\ \A y \in room : Known(y) /\ y.id \notin kept => \E s \in streams : StreamKey(s) = Key(y)
        /\ \A y \in room : ~Known(y) => \E i \in DOMAIN q : q[i].kind = "subscribed" /\ q[i].track = y
    BY <1>6 DEF PlaybackInv, Registered, RegisteredOK, KnownIn, Known
  <2>5. PICK avail : avail = streams \cup {Fresh(x)}
    OBVIOUS
  <2>6. Decision("sdk", avail, silenced)
    <3>1. \A s \in streams : StreamKey(s) # Key(x)
      BY <2>1, <2>4
    <3>2. ~\E s \in streams : s.scope = x.scope /\ s.who = x.who
      BY <3>1 DEF StreamKey, Key
    <3>3. Recompute("sdk", streams \cup {Fresh(x)}, silenced, volumes)
      BY <3>2, <1>3, <1>15 DEF RemoteAudioAvailable, Fresh
    <3> QED
      BY <3>1, <3>3, <2>5, DecidesWithFresh
  <2>7. PICK st2 : st2 = streams'
    OBVIOUS
  <2>8. SameKeys(avail, st2)
    BY <2>6, <2>7, DecisionKeys
  <2>9. StreamKey(Fresh(x)) = Key(x)
    BY DEF Fresh, StreamKey, Key
  <2>10. ASSUME NEW s \in st2
         PROVE  StreamKey(s) = Key(x) \/ \E u \in streams : StreamKey(u) = StreamKey(s)
    BY <2>5, <2>8, <2>9 DEF SameKeys
  <2>11. \A s \in st2 : StreamKey(s) \in DOMAIN pb2
    BY <2>3, <2>4, <2>10
  <2>12. \A y : KnownIn(publications, y) => KnownIn(pb2, y)
    BY <2>3 DEF KnownIn
  <2>13. ASSUME NEW y \in room, KnownIn(pb2, y), y.id \notin kept
         PROVE  \E s \in st2 : StreamKey(s) = Key(y)
    <3>1. \E u \in avail : StreamKey(u) = Key(y)
      <4>1. CASE Key(y) = Key(x)
        BY <4>1, <2>5, <2>9
      <4>2. CASE Key(y) # Key(x)
        <5>1. Known(y)
          BY <4>2, <2>3, <2>13 DEF KnownIn, Known
        <5> QED
          BY <5>1, <2>4, <2>5, <2>13
      <4> QED
        BY <4>1, <4>2
    <3> QED
      BY <3>1, <2>8 DEF SameKeys
  <2>14. Ids' /\ InOrder' /\ Leaves' /\ Registered' /\ Outlives' /\ Says'
    <3>1. Comes(q, publications, pb2)
      BY <2>3, <1>2, <1>3, <1>9 DEF Comes
    <3>2. KnownIn(pb2, handling.track)
      BY <2>3, <1>3 DEF KnownIn
    <3> QED
      BY <3>1, <3>2, <2>2, <2>7, <2>11, <2>12, <2>13, <1>1, <1>2, <1>5, <1>6, HandedParts
  <2>15. Playing'
    <3>1. PlayingOK(tracks, pb2)
      BY <2>3 DEF PlaybackInv, Playing, PlayingOK
    <3> QED
      BY <3>1, <2>2, <1>1 DEF Playing
  <2>16. PICK te2 : te2 = telling'
    OBVIOUS
  <2>17. ASSUME ~raced'
         PROVE  /\ TellingOK(pb2, st2, te2, subscribing) /\ ToldOK(pb2, st2, te2, backend, failed)
                /\ AskedOK(room, subscribed, pb2, st2, te2, subscribing, failed)
                /\ PlaysOK(room, subscribed, pb2, r, st2, subscribing, failed)
    <3>1. /\ ~raced /\ TellingOK(pb2, st2, te2, subscribing) /\ ToldOK(pb2, st2, te2, backend, failed)
          /\ AskedOK(room, subscribed, pb2, st2, te2, subscribing, failed)
      BY <2>6, <2>7, <2>16, <2>17, <1>12, SdkDecides
    <3>2. PlaysOK(room, subscribed, publications, q, streams, subscribing, failed)
      BY <3>1, <1>6 DEF PlaybackInv, PlaysAsTold
    <3>3. ASSUME NEW s \in st2, NEW k, k = StreamKey(s), NEW p, p = pb2[k].track, p \in room,
                 \A i \in DOMAIN r : ~PlugAt(r, i, p)
          PROVE  \/ p.id \in failed
                 \/ pb2[k].playing <=> (p.id \in subscribed)
                 \/ /\ p.id \in subscribed
                    /\ \E t \in Threads : /\ subscribing[t] # NoTrack
                                          /\ subscribing[t].id = p.id /\ ~subscribing[t].on
      <4>1. CASE k = Key(x)
        <5>1. p = x
          BY <4>1, <3>3, <2>3
        <5>2. PICK i \in DOMAIN q : q[i].kind = "subscribed" /\ q[i].track = x
          BY <5>1, <3>3, <2>4, <1>15
        <5>3. PlugAt(q, i, x)
          BY <5>2 DEF PlugAt, Plugs
        <5> QED
          BY <5>1, <5>3, <3>3, <1>11
      <4>2. CASE k # Key(x)
        <5>1. PICK u \in streams : StreamKey(u) = k
          BY <4>2, <3>3, <2>10
        <5>2. pb2[k] = publications[k]
          BY <5>1, <2>3, <2>4
        <5> QED
          BY <5>1, <5>2, <3>2, <3>3, <1>11 DEF PlaysOK
      <4> QED
        BY <4>1, <4>2
    <3>4. PlaysOK(room, subscribed, pb2, r, st2, subscribing, failed)
      BY <3>3 DEF PlaysOK
    <3> QED
      BY <3>1, <3>4
  <2>18. Tells' /\ Told' /\ Asked' /\ PlaysAsTold'
    BY <2>2, <2>7, <2>16, <2>17, <1>1, <1>7 DEF Tells, Told, Asked, PlaysAsTold
  <2> QED
    BY <2>14, <2>15, <2>18, <1>13 DEF PlaybackInv
<1> QED
  BY <1>14, <1>15

-----------------------------------------------------------------------------
(* A publication is forgotten. *)

LEMMA ForgetInv ==
    ASSUME RemoteShape, QueueShape', StreamsOK', PlaybackInv,
           handling.kind \in {"withdraw", "left"}, handling' = Event("settle", handling.track),
           UNCHANGED <<failed, backend, room, published, subscribed, callbacks, subscribing, kept>>,
           DOMAIN publications' = DOMAIN publications \ {Key(handling.track)},
           \A j \in DOMAIN publications' : publications'[j] = publications[j],
           \A y \in tracks : Key(y) # Key(handling.track) => y \in tracks',
           \/ ForgetStream(Key(handling.track))
           \/ /\ Key(handling.track) \notin DOMAIN publications
              /\ UNCHANGED <<streams, telling, raced>>
    PROVE  PlaybackInv'
<1>1. QueueShape /\ Tracked(handling) /\ Removes(handling) /\ handling.kind # "subscribed"
  BY DEF RemoteShape, Tracked, Removes
<1>2. PICK x : x = handling.track
  OBVIOUS
<1>3. PICK k : k = Key(x)
  OBVIOUS
<1>4. PICK pb2 : pb2 = publications'
  OBVIOUS
<1>5. PICK st2 : st2 = streams'
  OBVIOUS
<1>6. PICK te2 : te2 = telling'
  OBVIOUS
<1>7. PICK q : q = Pending
  OBVIOUS
<1>8. PICK r : r = Pending'
  OBVIOUS
<1>9. GoesOn(handling')
  BY DEF GoesOn
<1>10. PICK h : h = handling'
  OBVIOUS
<1>11. Handed(q, r, h) /\ q[0] = handling /\ h.kind = "settle"
  BY <1>1, <1>7, <1>8, <1>9, <1>10, PendingHanded, PendingIs DEF Event
<1>12. r[0].kind = "settle" /\ 0 \in DOMAIN q
  BY <1>11 DEF Handed, IsQueue
<1>13. DOMAIN pb2 = DOMAIN publications \ {k} /\ \A j \in DOMAIN pb2 : pb2[j] = publications[j]
  BY <1>2, <1>3, <1>4
<1>14. /\ IdsOK(room, publications, q, published) /\ LeavesOK(room, publications, q)
       /\ RegisteredOK(room, publications, q, streams, kept)
  BY <1>7 DEF PlaybackInv, Ids, Leaves, Registered
<1>15. \A j \in DOMAIN publications : Key(publications[j].track) = j
  BY DEF RemoteShape, PublicationShape
<1>16. x \notin room
  BY <1>1, <1>2, <1>11, <1>12, <1>14 DEF LeavesOK
<1>17. \A s \in streams : StreamKey(s) \in DOMAIN publications
  BY <1>14 DEF RegisteredOK
<1>18. PICK rest : rest = {s \in streams : StreamKey(s) # k}
  OBVIOUS
<1>19. /\ SameKeys(rest, st2)
       /\ Decision("sdk", rest, silenced)
          \/ (k \notin DOMAIN publications /\ UNCHANGED <<streams, telling, raced>>)
  <2>1. CASE ForgetStream(k)
    <3>1. Decision("sdk", rest, silenced)
      BY <2>1, <1>18, ForgetDecides
    <3> QED
      BY <3>1, <1>5, DecisionKeys
  <2>2. CASE k \notin DOMAIN publications /\ UNCHANGED <<streams, telling, raced>>
    <3>1. rest = streams
      BY <2>2, <1>17, <1>18
    <3>2. st2 = rest
      BY <3>1, <2>2, <1>5
    <3> QED
      BY <3>2, <2>2 DEF SameKeys
  <2> QED
    BY <2>1, <2>2, <1>2, <1>3
<1>20. ASSUME NEW s \in st2
       PROVE  /\ StreamKey(s) \in DOMAIN pb2 /\ pb2[StreamKey(s)] = publications[StreamKey(s)]
              /\ \E u \in streams : StreamKey(u) = StreamKey(s)
  <2>1. PICK u \in rest : StreamKey(u) = StreamKey(s)
    BY <1>19 DEF SameKeys
  <2>2. u \in streams /\ StreamKey(u) # k
    BY <1>18
  <2> QED
    BY <2>1, <2>2, <1>13, <1>17
<1>21. Ids' /\ InOrder' /\ Leaves' /\ Registered' /\ Outlives' /\ Says'
  <2>1. Comes(q, publications, pb2)
    BY <1>13 DEF Comes
  <2>2. \A j \in DOMAIN pb2 : pb2[j].track # x
    BY <1>3, <1>13, <1>15
  <2>3. ASSUME NEW y \in room, KnownIn(publications, y) PROVE KnownIn(pb2, y)
    <3>1. Key(y) # k
      <4>1. SUFFICES ASSUME Key(y) = k PROVE FALSE
        OBVIOUS
      <4>2. k \in DOMAIN publications /\ publications[k].track.id = y.id
        BY <4>1, <2>3 DEF KnownIn
      <4>3. publications[k].track = y
        BY <4>2, <1>14, MentionFacts DEF IdsOK
      <4>4. Known(x)
        BY <4>2, <1>1, <1>2, <1>3, FreshKey
      <4>5. publications[k].track = x
        BY <4>4, <1>1, <1>2, <1>3, InHandKnown
      <4> QED
        BY <4>3, <4>5, <1>16
    <3> QED
      BY <3>1, <2>3, <1>13 DEF KnownIn
  <2>4. ASSUME NEW y \in room, KnownIn(pb2, y), y.id \notin kept
        PROVE  \E s \in st2 : StreamKey(s) = Key(y)
    <3>1. KnownIn(publications, y) /\ Key(y) # k
      BY <2>4, <1>13 DEF KnownIn
    <3>2. PICK u \in streams : StreamKey(u) = Key(y)
      BY <3>1, <2>4, <1>14 DEF RegisteredOK
    <3>3. u \in rest
      BY <3>1, <3>2, <1>18
    <3> QED
      BY <3>2, <3>3, <1>19 DEF SameKeys
  <2> QED
    BY <2>1, <2>2, <2>3, <2>4, <1>1, <1>2, <1>4, <1>5, <1>7, <1>9, <1>20, HandedParts
<1>22. Hands'
  <2>1. PICK su2 : su2 = subscribing'
    OBVIOUS
  <2>2. HandsOK(r, te2, su2)
    BY <1>12 DEF HandsOK
  <2> QED
    BY <2>1, <2>2, <1>6, <1>8 DEF Hands
<1>23. Playing'
  <2>1. PICK tr2 : tr2 = tracks'
    OBVIOUS
  <2>2. \A y \in tracks : Key(y) # k => y \in tr2
    BY <2>1, <1>2, <1>3
  <2>3. PlayingOK(tr2, pb2)
    BY <2>2, <1>13, <1>15 DEF PlaybackInv, Playing, PlayingOK
  <2> QED
    BY <2>1, <2>3, <1>4 DEF Playing
<1>24. Resting("sdk")
  BY <1>7, <1>11 DEF PlaybackInv, Hands, HandsOK, Rests, Resting
<1>25. ASSUME ~raced'
       PROVE  /\ TellingOK(pb2, st2, te2, subscribing) /\ ToldOK(pb2, st2, te2, backend, failed)
              /\ AskedOK(room, subscribed, pb2, st2, te2, subscribing, failed)
              /\ PlaysOK(room, subscribed, pb2, r, st2, subscribing, failed)
  <2>1. /\ ~raced /\ TellingOK(pb2, st2, te2, subscribing) /\ ToldOK(pb2, st2, te2, backend, failed)
        /\ AskedOK(room, subscribed, pb2, st2, te2, subscribing, failed)
    <3>1. CASE Decision("sdk", rest, silenced)
      BY <3>1, <1>5, <1>6, <1>24, <1>25, SdkDecides
    <3>2. CASE k \notin DOMAIN publications /\ UNCHANGED <<streams, telling, raced>>
      <4>1. ~raced /\ st2 = streams /\ te2 = telling
        BY <3>2, <1>5, <1>6, <1>25
      <4>2. SamePolicy(publications, pb2)
        BY <3>2, <1>13 DEF SamePolicy, SameTracks
      <4>3. /\ TellingOK(publications, streams, telling, subscribing)
            /\ ToldOK(publications, streams, telling, backend, failed)
            /\ AskedOK(room, subscribed, publications, streams, telling, subscribing, failed)
        BY <4>1 DEF PlaybackInv, Tells, Told, Asked
      <4> QED
        BY <4>1, <4>2, <4>3, <1>17, SamePolicyKeeps
    <3> QED
      BY <3>1, <3>2, <1>19
  <2>2. PlaysOK(room, subscribed, publications, q, streams, subscribing, failed)
    BY <2>1, <1>7 DEF PlaybackInv, PlaysAsTold
  <2>3. ASSUME NEW y, \A i \in DOMAIN r : ~PlugAt(r, i, y) PROVE \A i \in DOMAIN q : ~PlugAt(q, i, y)
    <3>1. \A i \in DOMAIN q : i # 0 => ~PlugAt(q, i, y)
      BY <2>3, <1>11, HandedNoPlug
    <3>2. ~PlugAt(q, 0, y)
      BY <1>11 DEF PlugAt, Plugs
    <3> QED
      BY <3>1, <3>2
  <2>4. PlaysOK(room, subscribed, pb2, r, st2, subscribing, failed)
    BY <2>2, <2>3, <1>20 DEF PlaysOK
  <2> QED
    BY <2>1, <2>4
<1>26. Tells' /\ Told' /\ Asked' /\ PlaysAsTold'
  BY <1>4, <1>5, <1>6, <1>8, <1>25 DEF Tells, Told, Asked, PlaysAsTold
<1> QED
  BY <1>21, <1>22, <1>23, <1>26 DEF PlaybackInv

LEMMA SettlesNext ==
    ASSUME QueueShape, handling.kind \in Named, Next1("settle")
    PROVE  handling' = Event("settle", handling.track)
<1>1. handling = [kind |-> handling.kind, track |-> handling.track]
  BY InHandTrack
<1>2. PICK k, x : handling = [kind |-> k, track |-> x]
  BY <1>1
<1>3. handling' = [handling EXCEPT !.kind = "settle"]
  BY DEF Next1
<1> QED
  BY <1>2, <1>3 DEF Event

LEMMA UnavailableInv ==
    ASSUME RemoteShape, QueueShape', StreamsOK', PlaybackInv, RemoteAudioUnavailable
    PROVE  PlaybackInv'
<1>1. /\ UNCHANGED <<failed, backend, room, published, subscribed, callbacks, tracks, subscribing, kept>>
      /\ handling.kind = "withdraw" /\ Next1("settle")
  BY DEF RemoteAudioUnavailable, sdkVars
<1>2. Tracked(handling) /\ handling' = Event("settle", handling.track)
  BY <1>1, SettlesNext DEF Tracked, Removes, Named, RemoteShape
<1>3. CASE Known(handling.track)
  <2>1. publications' = Without(publications, Key(handling.track)) /\ ForgetStream(Key(handling.track))
    BY <1>3 DEF RemoteAudioUnavailable
  <2>2. /\ DOMAIN publications' = DOMAIN publications \ {Key(handling.track)}
        /\ \A j \in DOMAIN publications' : publications'[j] = publications[j]
    BY <2>1 DEF Without
  <2> QED
    BY <2>1, <2>2, <1>1, <1>2, ForgetInv
<1>4. CASE ~Known(handling.track)
  <2>1. UNCHANGED <<publications, streams, telling, raced>>
    BY <1>4 DEF RemoteAudioUnavailable
  <2>2. Key(handling.track) \notin DOMAIN publications
    BY <1>2, <1>4, FreshKey
  <2>3. /\ DOMAIN publications' = DOMAIN publications \ {Key(handling.track)}
        /\ \A j \in DOMAIN publications' : publications'[j] = publications[j]
    BY <2>1, <2>2
  <2> QED
    BY <2>1, <2>2, <2>3, <1>1, <1>2, ForgetInv
<1> QED
  BY <1>3, <1>4

LEMMA DisconnectedInv ==
    ASSUME RemoteShape, QueueShape', StreamsOK', PlaybackInv, ParticipantDisconnected
    PROVE  PlaybackInv'
<1>1. /\ UNCHANGED <<failed, backend, room, published, subscribed, callbacks, subscribing, kept>>
      /\ handling.kind = "left" /\ Next1("settle")
  BY DEF ParticipantDisconnected, sdkVars
<1>2. handling' = Event("settle", handling.track)
  BY <1>1, SettlesNext DEF Named, RemoteShape
<1>3. /\ tracks' = {y \in tracks : Key(y) # Key(handling.track)}
      /\ publications' = Without(publications, Key(handling.track))
      /\ \/ ForgetStream(Key(handling.track))
         \/ /\ Key(handling.track) \notin DOMAIN publications
            /\ UNCHANGED <<streams, telling, raced>>
  BY DEF ParticipantDisconnected
<1>4. /\ DOMAIN publications' = DOMAIN publications \ {Key(handling.track)}
      /\ \A j \in DOMAIN publications' : publications'[j] = publications[j]
  BY <1>3 DEF Without
<1>5. \A y \in tracks : Key(y) # Key(handling.track) => y \in tracks'
  BY <1>3
<1> QED
  BY <1>1, <1>2, <1>3, <1>4, <1>5, ForgetInv

-----------------------------------------------------------------------------
(* The connection changes, and the playout device. *)

LEMMA ConnectionInv ==
    ASSUME RemoteShape, QueueShape', PlaybackInv, ConnectionChanged
    PROVE  PlaybackInv'
<1>1. /\ UNCHANGED <<failed, backend, room, published, subscribed, callbacks, publications, tracks, subscribing, kept,
                     telling, raced>>
      /\ handling.kind \in {"reconnecting", "reconnected"} /\ handling' = Idle
      /\ handling.kind = "reconnecting" => streams' = {}
      /\ handling.kind = "reconnected" => streams' = streams
  BY DEF ConnectionChanged, sdkVars, tellVars, Done
<1>2. QueueShape /\ ~Removes(handling) /\ handling.kind # "subscribed" /\ GoesOn(handling')
  BY <1>1 DEF RemoteShape, Removes, GoesOn
<1>3. PICK q : q = Pending
  OBVIOUS
<1>4. PICK r : r = Pending'
  OBVIOUS
<1>5. Handed(q, r, Idle) /\ q[0] = handling /\ 0 \in DOMAIN q
  BY <1>1, <1>2, <1>3, <1>4, PendingHanded, PendingIs DEF IsQueue
<1>6. Hands'
  <2>1. Rests(telling, subscribing, "sdk")
    BY <1>1, <1>3, <1>5 DEF PlaybackInv, Hands, HandsOK
  <2> QED
    BY <2>1, <1>1 DEF Hands, HandsOK
<1>7. Playing'
  BY <1>1 DEF PlaybackInv, Playing
<1>8. CASE handling.kind = "reconnecting"
  <2>1. streams' = {}
    BY <1>1, <1>8
  <2>2. ASSUME NEW x \in room, KnownIn(publications, x), x.id \notin kept PROVE FALSE
    <3>1. Key(x) \in DOMAIN publications /\ publications[Key(x)].track.id = x.id
      BY <2>2 DEF KnownIn
    <3>2. IdsOK(room, publications, q, published) /\ KeptOK(room, publications, q, kept)
      BY <1>3 DEF PlaybackInv, Ids, Outlives
    <3>3. publications[Key(x)].track = x
      BY <3>1, <3>2, MentionFacts DEF IdsOK
    <3> QED
      BY <3>1, <3>2, <3>3, <2>2, <1>5, <1>8 DEF KeptOK
  <2>3. Comes(q, publications, publications)
    BY DEF Comes
  <2>4. Ids' /\ InOrder' /\ Leaves' /\ Registered' /\ Outlives' /\ Says'
    BY <2>1, <2>2, <2>3, <1>1, <1>2, <1>3, HandedParts
  <2>5. ASSUME ~raced
        PROVE  /\ TellingOK(publications, {}, telling, subscribing)
               /\ ToldOK(publications, {}, telling, backend, failed)
               /\ AskedOK(room, subscribed, publications, {}, telling, subscribing, failed)
               /\ PlaysOK(room, subscribed, publications, r, {}, subscribing, failed)
    <3>1. TellingOK(publications, streams, telling, subscribing)
      BY <2>5 DEF PlaybackInv, Tells
    <3>2. TellingOK(publications, {}, telling, subscribing)
      BY <3>1 DEF TellingOK
    <3> QED
      BY <3>2 DEF ToldOK, AskedOK, PlaysOK
  <2>6. Tells' /\ Told' /\ Asked' /\ PlaysAsTold'
    BY <2>1, <2>5, <1>1, <1>4 DEF Tells, Told, Asked, PlaysAsTold
  <2> QED
    BY <2>4, <2>6, <1>6, <1>7 DEF PlaybackInv
<1>9. CASE handling.kind = "reconnected"
  <2>1. streams' = streams /\ SameTracks(publications, publications')
    BY <1>1, <1>9 DEF SameTracks
  <2>2. Ids' /\ InOrder' /\ Leaves' /\ Registered' /\ Outlives' /\ Says'
    BY <2>1, <1>1, <1>2, HandedSameParts
  <2>3. Tells' /\ Told' /\ Asked'
    BY <2>1, <1>1 DEF PlaybackInv, Tells, Told, Asked
  <2>4. ASSUME NEW x, \A i \in DOMAIN r : ~PlugAt(r, i, x) PROVE \A i \in DOMAIN q : ~PlugAt(q, i, x)
    <3>1. \A i \in DOMAIN q : i # 0 => ~PlugAt(q, i, x)
      BY <2>4, <1>5, HandedNoPlug
    <3>2. ~PlugAt(q, 0, x)
      BY <1>5, <1>9 DEF PlugAt, Plugs
    <3> QED
      BY <3>1, <3>2
  <2>5. ~raced => PlaysOK(room, subscribed, publications, q, streams, subscribing, failed)
    BY <1>3 DEF PlaybackInv, PlaysAsTold
  <2>6. ~raced => PlaysOK(room, subscribed, publications, r, streams, subscribing, failed)
    BY <2>4, <2>5 DEF PlaysOK
  <2>7. PlaysAsTold'
    BY <2>1, <2>6, <1>1, <1>4 DEF PlaysAsTold
  <2> QED
    BY <2>2, <2>3, <2>7, <1>6, <1>7 DEF PlaybackInv
<1> QED
  BY <1>1, <1>8, <1>9

\* The transport begins with nothing registered, and every track of the rooms,
\* subscribed, is on its way.
Begins(rm, sb, q, n) ==
    /\ IsQueue(q) /\ q[0] = Idle
    /\ \A i \in DOMAIN q : i # 0 => q[i].kind = "subscribed" /\ q[i].track \in rm
    /\ \A x \in rm : \E i \in DOMAIN q : i # 0 /\ q[i].track = x
    /\ \A x \in rm : x.id \in sb /\ x \in Tracks /\ x.id <= n
    /\ \A x, y \in rm : x.id = y.id => x = y
    /\ \A x, y \in rm : x.who = y.who => y.id <= x.id

LEMMA BeginsWell ==
    ASSUME NEW rm, NEW sb, NEW q, NEW n, Begins(rm, sb, q, n), NEW pb, DOMAIN pb = {},
           NEW tr, NEW te, NEW su, NEW fl, NEW bk, \A t \in Threads : Rests(te, su, t)
    PROVE  /\ IdsOK(rm, pb, q, n) /\ OrderOK(pb, q) /\ LeavesOK(rm, pb, q)
           /\ RegisteredOK(rm, pb, q, {}, {}) /\ KeptOK(rm, pb, q, {}) /\ HandsOK(q, te, su)
           /\ SaysOK(rm, sb, q) /\ PlayingOK(tr, pb) /\ TellingOK(pb, {}, te, su)
           /\ ToldOK(pb, {}, te, bk, fl) /\ AskedOK(rm, sb, pb, {}, te, su, fl) /\ PlaysOK(rm, sb, pb, q, {}, su, fl)
<1>1. q[0].kind = "none" /\ 0 \in DOMAIN q
  BY DEF Begins, Idle, IsQueue
<1>2. \A i \in DOMAIN q : i # 0 => q[i].kind = "subscribed" /\ q[i].track \in rm
  BY DEF Begins
<1>3. \A i \in DOMAIN q : /\ q[i].kind \in {"none", "subscribed"}
                          /\ Tracked(q[i]) => q[i].track \in rm
                          /\ ~Removes(q[i])
                          /\ Registers(q[i]) => q[i].track \in rm
  BY <1>1, <1>2 DEF Tracked, Registers, Plugs, Removes
<1>4. \A x : Mention(rm, pb, q, x) => x \in rm
  BY <1>3 DEF Mention
<1>5. IdsOK(rm, pb, q, n)
  BY <1>4 DEF IdsOK, Begins
<1>6. OrderOK(pb, q)
  BY <1>3 DEF OrderOK, Begins
<1>7. LeavesOK(rm, pb, q)
  BY <1>3 DEF LeavesOK
<1>8. \A x : ~KnownIn(pb, x)
  BY DEF KnownIn
<1>9. \A x \in rm : \E i \in DOMAIN q : q[i].kind = "subscribed" /\ q[i].track = x
  BY <1>2 DEF Begins
<1>10. RegisteredOK(rm, pb, q, {}, {})
  BY <1>8, <1>9 DEF RegisteredOK
<1>11. KeptOK(rm, pb, q, {})
  BY <1>3 DEF KeptOK
<1>12. HandsOK(q, te, su)
  BY DEF HandsOK, Threads
<1>13. SaysOK(rm, sb, q)
  BY <1>3 DEF SaysOK, Begins
<1>14. PlayingOK(tr, pb)
  BY DEF PlayingOK
<1>15. TellingOK(pb, {}, te, su)
  BY DEF TellingOK, Rests, Threads
<1>16. ToldOK(pb, {}, te, bk, fl) /\ AskedOK(rm, sb, pb, {}, te, su, fl) /\ PlaysOK(rm, sb, pb, q, {}, su, fl)
  BY DEF ToldOK, AskedOK, PlaysOK
<1> QED
  BY <1>5, <1>6, <1>7, <1>10, <1>11, <1>12, <1>13, <1>14, <1>15, <1>16

LEMMA BeginsEmpty ==
    ASSUME NEW sb, NEW q, NEW n, IsQueue(q), q[0] = Idle, DOMAIN q = {0}
    PROVE  Begins({}, sb, q, n)
BY DEF Begins

LEMMA SelectInv ==
    ASSUME RemoteShape, QueueShape', PlaybackInv, SelectPlayoutDevice
    PROVE  PlaybackInv'
<1>1. /\ UNCHANGED <<handling, subscribing, telling, raced, published, backend>>
      /\ handling = Idle /\ Resting("app")
      /\ publications' = <<>> /\ tracks' = {} /\ streams' = {} /\ kept' = {}
  BY DEF SelectPlayoutDevice, ReconnectForPlayoutDevice, sdkVars, tellVars
<1>2. PICK q : q = Pending
  OBVIOUS
<1>3. PICK r : r = Pending'
  OBVIOUS
<1>4. PICK rm : rm = room'
  OBVIOUS
<1>5. PICK sb : sb = subscribed'
  OBVIOUS
<1>6. \A t \in Threads : Rests(telling, subscribing, t)
  <2>1. q[0] = handling
    BY <1>2, PendingIs DEF RemoteShape
  <2>2. Rests(telling, subscribing, "sdk")
    BY <2>1, <1>1, <1>2 DEF PlaybackInv, Hands, HandsOK, Idle
  <2> QED
    BY <2>2, <1>1 DEF Rests, Resting, Threads
<1>7. PICK n \in Nat : n = Len(callbacks')
  BY PendingIsNext
<1>8. IsQueue(r) /\ r[0] = Idle /\ DOMAIN r = 0..n /\ \A i \in 1..n : r[i] = callbacks'[i]
  BY <1>1, <1>3, <1>7, PendingIsNext
<1>9. Begins(rm, sb, r, published)
  <2>1. CASE /\ subscribed' = {x.id : x \in room} /\ room' = room
             /\ \E order \in AnyOrder(room) :
                  callbacks' = [i \in DOMAIN order |-> Event("subscribed", order[i])]
    <3>1. PICK order \in AnyOrder(room) :
            callbacks' = [i \in DOMAIN order |-> Event("subscribed", order[i])]
      BY <2>1
    <3>2. PICK c : c = callbacks'
      OBVIOUS
    <3>3. /\ \A i \in 1..n : c[i] = Event("subscribed", order[i]) /\ order[i] \in room
          /\ \A x \in room : \E i \in 1..n : order[i] = x
      <4>1. IsFiniteSet(room) /\ room \subseteq Tracks
        BY DEF RemoteShape, RoomShape
      <4>2. c = [i \in DOMAIN order |-> Event("subscribed", order[i])] /\ n = Len(c)
        BY <3>1, <3>2, <1>7
      <4> QED
        BY <4>1, <4>2, AnyOrderQueue
    <3>4. \A i \in 0..n : i # 0 => r[i].kind = "subscribed" /\ r[i].track = order[i] /\ order[i] \in room
      <4>1. \A i \in 0..n : i # 0 => i \in 1..n
        OBVIOUS
      <4>2. \A i \in 1..n : r[i] = Event("subscribed", order[i]) /\ order[i] \in room
        BY <3>2, <3>3, <1>8
      <4>3. \A x : Event("subscribed", x).kind = "subscribed" /\ Event("subscribed", x).track = x
        BY DEF Event
      <4> QED
        BY <4>1, <4>2, <4>3
    <3>5. \A x \in room : \E i \in 0..n : i # 0 /\ r[i].track = x
      <4>1. SUFFICES ASSUME NEW x \in room PROVE \E i \in 0..n : i # 0 /\ r[i].track = x
        OBVIOUS
      <4>2. PICK i \in 1..n : order[i] = x
        BY <3>3
      <4>3. i \in 0..n /\ i # 0
        OBVIOUS
      <4> QED
        BY <4>2, <4>3, <3>4
    <3>6. IdsOK(room, publications, q, published)
      BY <1>2 DEF PlaybackInv, Ids
    <3>7. /\ \A x \in room : x \in Tracks /\ x.id <= published
          /\ \A x, y \in room : x.id = y.id => x = y
          /\ \A x, y \in room : x.who = y.who => y.id <= x.id
      BY <3>6, MentionFacts DEF IdsOK
    <3>8. rm = room /\ \A x \in room : x.id \in sb
      BY <2>1, <1>4, <1>5
    <3> QED
      BY <3>4, <3>5, <3>7, <3>8, <1>8 DEF Begins
  <2>2. CASE room' = {} /\ callbacks' = <<>>
    <3>1. n = 0
      BY <2>2, <1>7
    <3>2. DOMAIN r = {0}
      BY <3>1, <1>8
    <3> QED
      BY <3>2, <2>2, <1>4, <1>8, BeginsEmpty
  <2> QED
    BY <2>1, <2>2 DEF SelectPlayoutDevice, ReconnectForPlayoutDevice, sdkVars
<1>10. PICK pb : pb = publications' /\ DOMAIN pb = {}
  BY <1>1
<1>11. PICK tr : tr = tracks'
  OBVIOUS
<1>f. PICK fl2 : fl2 = failed'
  OBVIOUS
<1>12. /\ IdsOK(rm, pb, r, published) /\ OrderOK(pb, r) /\ LeavesOK(rm, pb, r)
       /\ RegisteredOK(rm, pb, r, {}, {}) /\ KeptOK(rm, pb, r, {})
       /\ HandsOK(r, telling, subscribing)
       /\ SaysOK(rm, sb, r) /\ PlayingOK(tr, pb) /\ TellingOK(pb, {}, telling, subscribing)
       /\ ToldOK(pb, {}, telling, backend, fl2) /\ AskedOK(rm, sb, pb, {}, telling, subscribing, fl2)
       /\ PlaysOK(rm, sb, pb, r, {}, subscribing, fl2)
  BY <1>6, <1>9, <1>10, BeginsWell
<1>13. Ids' /\ InOrder' /\ Leaves' /\ Registered' /\ Outlives' /\ Hands'
  BY <1>1, <1>3, <1>4, <1>10, <1>12 DEF Ids, InOrder, Leaves, Registered, Outlives, Hands
<1>14. Says' /\ Playing' /\ Tells' /\ Told' /\ Asked' /\ PlaysAsTold'
  BY <1>1, <1>3, <1>4, <1>5, <1>10, <1>11, <1>12, <1>f
     DEF Says, Playing, Tells, Told, Asked, PlaysAsTold
<1> QED
  BY <1>13, <1>14 DEF PlaybackInv

LEMMA InitPlayback == RemoteInit => PlaybackInv
<1> SUFFICES ASSUME RemoteInit PROVE PlaybackInv
  OBVIOUS
<1>1. QueueShape
  BY InitShape DEF RemoteShape
<1>2. PICK q : q = Pending
  OBVIOUS
<1>3. callbacks = <<>> /\ handling = Idle /\ Len(callbacks) = 0
  BY DEF RemoteInit
<1>4. IsQueue(q) /\ q[0] = Idle /\ DOMAIN q = {0}
  <2>1. DOMAIN q = 0..0
    BY <1>1, <1>2, <1>3, PendingIs
  <2> QED
    BY <2>1, <1>1, <1>2, <1>3, PendingIs
<1>5. Begins({}, {}, q, published)
  BY <1>4, BeginsEmpty
<1>6. /\ room = {} /\ subscribed = {} /\ DOMAIN publications = {} /\ streams = {} /\ kept = {}
      /\ \A t \in Threads : Rests(telling, subscribing, t)
  BY DEF RemoteInit, Rests
<1>7. /\ IdsOK({}, publications, q, published) /\ OrderOK(publications, q)
      /\ LeavesOK({}, publications, q)
      /\ RegisteredOK({}, publications, q, {}, {}) /\ KeptOK({}, publications, q, {})
      /\ HandsOK(q, telling, subscribing)
      /\ SaysOK({}, {}, q) /\ PlayingOK(tracks, publications)
      /\ TellingOK(publications, {}, telling, subscribing)
      /\ ToldOK(publications, {}, telling, backend, failed) /\ AskedOK({}, {}, publications, {}, telling, subscribing, failed)
      /\ PlaysOK({}, {}, publications, q, {}, subscribing, failed)
  BY <1>5, <1>6, BeginsWell
<1>8. Ids /\ InOrder /\ Leaves /\ Registered /\ Outlives /\ Hands
  BY <1>2, <1>6, <1>7 DEF Ids, InOrder, Leaves, Registered, Outlives, Hands
<1>9. Says /\ Playing /\ Tells /\ Told /\ Asked /\ PlaysAsTold
  BY <1>2, <1>6, <1>7 DEF Says, Playing, Tells, Told, Asked, PlaysAsTold
<1> QED
  BY <1>8, <1>9 DEF PlaybackInv

LEMMA StepPlayback ==
    ASSUME RemoteShape, PlaybackInv, [RemoteNext]_remoteVars
    PROVE  PlaybackInv'
<1>1. RemoteShape'
  BY StepShape
<1>2. QueueShape' /\ StreamsOK'
  BY <1>1 DEF RemoteShape
<1>3. ASSUME NEW s \in Speakers, Publish(s[1], s[2]) PROVE PlaybackInv'
  BY <1>2, <1>3, PublishInv
<1>4. ASSUME NEW x \in room, Withdraw(x) PROVE PlaybackInv'
  BY <1>2, <1>4, WithdrawInv
<1>5. CASE Resume
  BY <1>2, <1>5, ResumeInv
<1>6. CASE CallbackStep
  <2>1. CASE Deliver
    BY <1>2, <2>1, DeliverInv DEF RemoteShape
  <2>2. CASE RemoteAudioAvailable
    BY <1>2, <2>2, AvailableInv
  <2>3. CASE Settle
    BY <1>2, <2>3, SettleInv
  <2>4. CASE RemoteAudioStarted
    BY <1>2, <2>4, StartedInv
  <2>5. CASE RemoteAudioStopped
    BY <1>2, <2>5, StoppedInv
  <2>6. CASE RemoteAudioUnavailable
    BY <1>2, <2>6, UnavailableInv
  <2>7. CASE ParticipantDisconnected
    BY <1>2, <2>7, DisconnectedInv
  <2>8. CASE ConnectionChanged
    BY <1>2, <2>8, ConnectionInv
  <2> QED
    BY <1>6, <2>1, <2>2, <2>3, <2>4, <2>5, <2>6, <2>7, <2>8 DEF CallbackStep
<1>7. ASSUME NEW t \in Threads, Apply(t) PROVE PlaybackInv'
  BY <1>7, ApplyInv
<1>8. ASSUME NEW t \in Threads, Subscribe(t) PROVE PlaybackInv'
  BY <1>2, <1>8, SubscribeInv
<1>9. "app" \in Threads /\ volumes \in [Talkers -> 0..FullVolume]
  BY DEF Threads, RemoteShape, ClientShape
<1>10. ASSUME NEW p \in Talkers, NEW on \in BOOLEAN, SetSilenced(p, on) PROVE PlaybackInv'
  <2>1. PICK quiet : quiet = silenced'
    OBVIOUS
  <2>2. Recompute("app", streams, quiet, volumes)
    BY <2>1, <1>10 DEF SetSilenced
  <2>3. Decision("app", streams, quiet)
    BY <2>2, <1>9, DecidesOf
  <2>4. Resting("app") /\ UNCHANGED <<room, subscribed, callbacks, handling, publications, tracks,
                                      subscribing, published, kept, failed, backend>>
    BY <1>10 DEF SetSilenced, sdkVars
  <2> QED
    BY <2>3, <2>4, <1>2, AppDecides
<1>11. ASSUME NEW p \in Talkers, NEW v \in {2, FullVolume}, SetVolume(p, v) PROVE PlaybackInv'
  <2>1. PICK vol : vol = volumes'
    OBVIOUS
  <2>2. vol \in [Talkers -> 0..FullVolume]
    BY <2>1, <1>1 DEF RemoteShape, ClientShape
  <2>3. Recompute("app", streams, silenced, vol)
    BY <2>1, <1>11 DEF SetVolume
  <2>4. Decision("app", streams, silenced)
    BY <2>2, <2>3, <1>9, DecidesOf
  <2>5. Resting("app") /\ UNCHANGED <<room, subscribed, callbacks, handling, publications, tracks,
                                      subscribing, published, kept, failed, backend>>
    BY <1>11 DEF SetVolume, sdkVars
  <2> QED
    BY <2>4, <2>5, <1>2, AppDecides
<1>12. CASE SelectPlayoutDevice
  BY <1>2, <1>12, SelectInv
<1>13. CASE UNCHANGED remoteVars
  <2>1. UNCHANGED <<room, subscribed, callbacks, handling, publications, tracks, streams, telling,
                    subscribing, published, kept, raced, failed, backend>> /\ Pending' = Pending
    BY <1>13, PendingSame DEF remoteVars
  <2>2. Ids' /\ InOrder' /\ Leaves' /\ Registered' /\ Outlives' /\ Hands'
    BY <2>1 DEF PlaybackInv, Ids, InOrder, Leaves, Registered, Outlives, Hands
  <2>3. Says' /\ Playing' /\ Tells' /\ Told' /\ Asked' /\ PlaysAsTold'
    BY <2>1 DEF PlaybackInv, Says, Playing, Tells, Told, Asked, PlaysAsTold
  <2> QED
    BY <2>2, <2>3 DEF PlaybackInv
<1> QED
  BY <1>3, <1>4, <1>5, <1>6, <1>7, <1>8, <1>10, <1>11, <1>12, <1>13 DEF RemoteNext

LEMMA PlaybackInvariance == RemoteSpec => [](RemoteShape /\ PlaybackInv)
<1>1. RemoteInit => RemoteShape /\ PlaybackInv
  BY InitShape, InitPlayback
<1>2. RemoteShape /\ PlaybackInv /\ [RemoteNext]_remoteVars => RemoteShape' /\ PlaybackInv'
  BY StepShape, StepPlayback
<1> QED
  BY <1>1, <1>2, PTL DEF RemoteSpec

\* When nothing is pending, told or asked, the invariant leaves only what was decided.
LEMMA QuietSettles ==
    ASSUME RemoteShape, PlaybackInv
    PROVE  PlaybackSettles
<1>1. SUFFICES ASSUME Quiet, ~raced, NEW x \in room, x.id \notin kept
               PROVE  \E s \in streams :
                        /\ <<s.scope, s.who>> = Key(x)
                        /\ Known(x)
                        /\ publications[Key(x)].admitted = (s.admitted /\ backend)
                        /\ publications[Key(x)].gain = IF backend THEN s.gain ELSE 0
                        /\ x.id \notin failed =>
                             /\ publications[Key(x)].playing = s.admitted
                             /\ (x.id \in subscribed) = s.admitted
  BY DEF PlaybackSettles
<1>2. PICK q : q = Pending
  OBVIOUS
<1>3. q[0].kind = "none" /\ DOMAIN q = {0}
  <2>1. callbacks = <<>> /\ handling = Idle /\ Len(callbacks) = 0
    BY <1>1 DEF Quiet
  <2>2. DOMAIN q = 0..0 /\ q[0] = handling
    BY <2>1, <1>2, PendingIs DEF RemoteShape
  <2> QED
    BY <2>1, <2>2 DEF Idle
<1>4. \A t \in Threads : telling[t] = <<>> /\ subscribing[t] = NoTrack /\ DOMAIN telling[t] = {}
  BY <1>1 DEF Quiet, Resting
<1>5. /\ IdsOK(room, publications, q, published)
      /\ RegisteredOK(room, publications, q, streams, kept)
      /\ ToldOK(publications, streams, telling, backend, failed)
      /\ AskedOK(room, subscribed, publications, streams, telling, subscribing, failed)
      /\ PlaysOK(room, subscribed, publications, q, streams, subscribing, failed)
  BY <1>1, <1>2 DEF PlaybackInv, Ids, Registered, Told, Asked, PlaysAsTold
<1>6. KnownIn(publications, x)
  BY <1>1, <1>3, <1>5 DEF RegisteredOK
<1>7. PICK s \in streams : StreamKey(s) = Key(x)
  BY <1>1, <1>5, <1>6 DEF RegisteredOK
<1>8. PICK p : p = publications[Key(x)]
  OBVIOUS
<1>9. Known(x) /\ Key(x) \in DOMAIN publications /\ p.track.id = x.id
  BY <1>6, <1>8 DEF KnownIn, Known
<1>10. p.track = x
  BY <1>5, <1>8, <1>9, MentionFacts DEF IdsOK
<1>11. /\ p.admitted = (s.admitted /\ backend) /\ p.gain = IF backend THEN s.gain ELSE 0
       /\ s.admitted => backend \/ p.track.id \in failed
  BY <1>4, <1>5, <1>7, <1>8 DEF ToldOK
<1>12. x.id \notin failed => ((x.id \in subscribed) <=> p.admitted)
  <2>1. "sdk" \in Threads
    BY DEF Threads
  <2> QED
    BY <2>1, <1>1, <1>4, <1>5, <1>7, <1>8, <1>10 DEF AskedOK
<1>13. x.id \notin failed => (p.playing <=> (x.id \in subscribed))
  <2>1. \A i \in DOMAIN q : ~PlugAt(q, i, x)
    BY <1>3 DEF PlugAt, Plugs
  <2> QED
    BY <2>1, <1>1, <1>4, <1>5, <1>7, <1>8, <1>10 DEF PlaysOK
<1>14. p.playing \in BOOLEAN /\ p.admitted \in BOOLEAN /\ s.admitted \in BOOLEAN
  BY <1>8, <1>9 DEF RemoteShape, PublicationShape, Publications, StreamsOK, Kept, Ranked, Streams
<1>15. ASSUME x.id \notin failed
       PROVE  p.playing = s.admitted /\ (x.id \in subscribed) = s.admitted
  <2>1. p.admitted = s.admitted
    BY <1>10, <1>11, <1>14, <1>15
  <2> QED
    BY <2>1, <1>12, <1>13, <1>14, <1>15
<1> QED
  BY <1>7, <1>8, <1>9, <1>11, <1>15 DEF StreamKey

\* PlaybackSettles, for every number of speakers, publications, calls and limits:
\* when the callbacks have been handled and no thread is telling the transport
\* anything, every track in the rooms is registered, has the decision of the
\* client and its gain, or silence where nothing can be played, and is subscribed
\* and played exactly when it is admitted unless the transport reported an error
\* of it: no publication, no backend, a subscription or a playout that failed
\* (voice_client.cpp recomputePlaybackLocked and applyPlaybackChanges,
\* livekit_voice_transport.cpp configureRemoteAudio and the handlers of the room).
THEOREM PlaybackAlwaysSettles == RemoteSpec => []PlaybackSettles
<1>1. RemoteShape /\ PlaybackInv => PlaybackSettles
  BY QuietSettles
<1> QED
  BY <1>1, PlaybackInvariance, PTL
=============================================================================
