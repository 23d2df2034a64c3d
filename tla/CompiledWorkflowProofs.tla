------------------------- MODULE CompiledWorkflowProofs -------------------------
(***************************************************************************)
(* Proofs about CompiledWorkflow, for every set of drafts, every catalog and *)
(* every limit.  Part one is about the graph algorithms of the validators:   *)
(* their recursive functions have a value, and what it is.  Part two follows *)
(* the sealed chain of a write task through an executable graph.  Part three *)
(* shows that the last check accepts what the compiler makes of a draft that *)
(* goes one way.  Part four is about the run of an executable graph.         *)
(***************************************************************************)
EXTENDS CompiledWorkflow, FiniteSetTheorems, FunctionTheorems, TLAPS

-------------------------------------------------------------------------------
(* Recursive functions over an interval *)

\* A set of numbers has a least one: the induction principle used below.
LEMMA LeastNumber ==
  ASSUME NEW T \in SUBSET Nat, T # {}
  PROVE \E m \in T : \A k \in T : m <= k
<1> DEFINE Less == {ss \in Nat \X Nat : ss[1] < ss[2]}
<1>1. IsWellFoundedOn(Less, Nat) BY NatLessThanWellFounded DEF OpToRel
<1>2. \A k, m \in T : <<k, m>> \notin Less => m <= k OBVIOUS
<1> HIDE DEF Less
<1>3. \E m \in T : \A k \in T : ~(<<k, m>> \in Less) BY <1>1, WFMin
<1> QED BY <1>2, <1>3

\* What holds at 0 and is handed on from each number to the next holds up to n.
LEMMA Upwards ==
  ASSUME NEW n \in Nat, NEW T, 0 \in T, \A k \in 1 .. n : k - 1 \in T => k \in T
  PROVE \A k \in 0 .. n : k \in T
<1> DEFINE Bad == {k \in 0 .. n : k \notin T}
<1>1. ASSUME Bad # {} PROVE FALSE
  <2>1. Bad \in SUBSET Nat OBVIOUS
  <2>2. PICK m \in Bad : \A k \in Bad : m <= k
    <3> HIDE DEF Bad
    <3> QED BY <1>1, <2>1, LeastNumber
  <2>3. m \in 1 .. n /\ m - 1 \in 0 .. n /\ ~(m <= m - 1) BY <2>2
  <2>4. m - 1 \in T BY <2>2, <2>3
  <2> QED BY <2>2, <2>3, <2>4
<1> QED BY <1>1

\* A step from one value of D to the next, and the n + 1 values it makes of a start.
IsStep(F, n, D) == F \in [(1 .. n) \X D -> D]

Unfolds(f, F, n, D, start) ==
  f \in [0 .. n -> D] /\ f[0] = start /\ \A k \in 1 .. n : f[k] = F[<<k, f[k - 1]>>]

\* A start and a step determine a sequence of values.
LEMMA Recursion ==
  ASSUME NEW D, NEW n \in Nat, NEW start \in D, NEW F, IsStep(F, n, D)
  PROVE \E f : Unfolds(f, F, n, D, start)
<1> DEFINE Good(f, m) == f[0] = start /\ \A k \in 1 .. m : f[k] = F[<<k, f[k - 1]>>]
           Some(m) == \E f \in [0 .. n -> D] : Good(f, m)
           T == {m \in 0 .. n : Some(m)}
<1>0. F \in [(1 .. n) \X D -> D] BY DEF IsStep
<1>1. 0 \in T
  <2>1. [k \in 0 .. n |-> start] \in [0 .. n -> D] /\ Good([k \in 0 .. n |-> start], 0) OBVIOUS
  <2> HIDE DEF Good
  <2>2. Some(0) BY <2>1
  <2> HIDE DEF Some
  <2> QED BY <2>2
<1>2. ASSUME NEW m \in 1 .. n, m - 1 \in T PROVE m \in T
  <2>1. PICK f \in [0 .. n -> D] : Good(f, m - 1) BY <1>2
  <2> DEFINE g == [f EXCEPT ![m] = F[<<m, f[m - 1]>>]]
  <2>2. m - 1 \in 0 .. n /\ <<m, f[m - 1]>> \in (1 .. n) \X D OBVIOUS
  <2>3. g \in [0 .. n -> D] BY <1>0, <2>2
  <2>4. g[m] = F[<<m, f[m - 1]>>] /\ \A k \in 0 .. n : k # m => g[k] = f[k] OBVIOUS
  <2> HIDE DEF g
  <2>5. g[0] = start BY <2>1, <2>4
  <2>6. ASSUME NEW k \in 1 .. m PROVE g[k] = F[<<k, g[k - 1]>>]
    <3>1. k - 1 \in 0 .. n /\ k - 1 # m /\ k \in 0 .. n OBVIOUS
    <3>2. g[k - 1] = f[k - 1] BY <2>4, <3>1
    <3>3. CASE k = m BY <2>4, <3>2, <3>3
    <3>4. CASE k # m
      <4>1. k \in 1 .. m - 1 BY <3>4
      <4>2. f[k] = F[<<k, f[k - 1]>>] BY <2>1, <4>1
      <4> QED BY <2>4, <3>1, <3>2, <3>4, <4>2
    <3> QED BY <3>3, <3>4
  <2> QED BY <2>3, <2>5, <2>6
<1> HIDE DEF Some
<1>3. n \in T
  <2> HIDE DEF T
  <2>1. n \in 0 .. n OBVIOUS
  <2> QED BY <1>1, <1>2, <2>1, Upwards
<1>4. Some(n) BY <1>3
<1>5. PICK f \in [0 .. n -> D] : Good(f, n) BY <1>4 DEF Some
<1>6. Unfolds(f, F, n, D, start) BY <1>5 DEF Unfolds
<1> QED BY <1>6

-------------------------------------------------------------------------------
(* Closure *)

Onward(A, E) == A \cup {e.to : e \in {f \in E : f.from \in A}}

Rounds(r, S, E) ==
  /\ r[0] = S
  /\ \A k \in 1 .. Cardinality(E) : r[k] = Onward(r[k - 1], E)
  /\ Closure(S, E) = r[Cardinality(E)]

\* Closure(S, E) is reached from S in as many rounds as there are edges.
LEMMA ClosureRounds ==
  ASSUME NEW S, NEW E, IsFiniteSet(E)
  PROVE \E r : Rounds(r, S, E)
<1> DEFINE n == Cardinality(E)
           D == SUBSET (S \cup {e.to : e \in E})
           Eq(g) == g = [k \in 0 .. n |-> IF k = 0 THEN S ELSE Onward(g[k - 1], E)]
           F == [p \in (1 .. n) \X D |-> Onward(p[2], E)]
<1>1. n \in Nat BY FS_CardinalityType
<1>2. IsStep(F, n, D) BY DEF IsStep, Onward
<1>3. S \in D OBVIOUS
<1>4. Closure(S, E) = (CHOOSE g : Eq(g))[n] BY DEF Closure, Onward
<1> HIDE DEF n
<1>5. PICK f : Unfolds(f, F, n, D, S)
  <2> HIDE DEF D, F
  <2> QED BY <1>1, <1>2, <1>3, Recursion
<1>6. /\ f \in [0 .. n -> D] /\ f[0] = S
      /\ \A k \in 1 .. n : f[k] = F[<<k, f[k - 1]>>]
  <2> HIDE DEF D, F
  <2> QED BY <1>5 DEF Unfolds
<1>7. \A k \in 1 .. n : f[k] = Onward(f[k - 1], E)
  <2> SUFFICES ASSUME NEW k \in 1 .. n PROVE f[k] = Onward(f[k - 1], E) OBVIOUS
  <2>1. k - 1 \in 0 .. n BY <1>1
  <2>2. f[k - 1] \in D BY <1>6, <2>1
  <2>3. <<k, f[k - 1]>> \in (1 .. n) \X D BY <2>2
  <2> QED BY <1>6, <2>3
<1>8. f = [k \in 0 .. n |-> IF k = 0 THEN S ELSE Onward(f[k - 1], E)]
  <2>1. \A k \in 0 .. n : f[k] = IF k = 0 THEN S ELSE Onward(f[k - 1], E) BY <1>1, <1>6, <1>7
  <2> QED BY <1>6, <2>1
<1>9. Eq(f) BY <1>8
<1> HIDE DEF Eq
<1>10. PICK g : g = (CHOOSE h : Eq(h)) OBVIOUS
<1>11. Eq(g) BY <1>9, <1>10
<1>12. g = [k \in 0 .. n |-> IF k = 0 THEN S ELSE Onward(g[k - 1], E)] BY <1>11 DEF Eq
<1>13. g[0] = S /\ \A k \in 1 .. n : g[k] = Onward(g[k - 1], E) BY <1>1, <1>12
<1>14. Closure(S, E) = g[n] BY <1>4, <1>10
<1>15. Rounds(g, S, E) BY <1>13, <1>14 DEF Rounds, n
<1> QED BY <1>15

\* A set that the edges of E do not leave.
Closed(T, E) == \A e \in E : e.from \in T => e.to \in T

\* Closure(S, E) is the least set with S that the edges do not leave: as many steps as
\* there are edges are enough.
LEMMA ClosureFacts ==
  ASSUME NEW S, NEW E, IsFiniteSet(E)
  PROVE /\ S \subseteq Closure(S, E)
        /\ Closed(Closure(S, E), E)
        /\ \A T : S \subseteq T /\ Closed(T, E) => Closure(S, E) \subseteq T
<1> DEFINE n == Cardinality(E)
           Ahead(A) == Onward(A, E)
<1>0. PICK r : Rounds(r, S, E) BY ClosureRounds
<1>1. /\ r[0] = S
      /\ \A k \in 1 .. n : r[k] = Ahead(r[k - 1])
      /\ Closure(S, E) = r[n]
  BY <1>0 DEF Rounds
<1> USE DEF Onward
<1>2. n \in Nat BY FS_CardinalityType
<1> DEFINE Used(A) == {e \in E : e.to \in A}
           Late(A, k) == Closed(A, E) \/ Cardinality(Used(A)) >= k
<1>3. \A A : IsFiniteSet(Used(A)) /\ Cardinality(Used(A)) \in Nat
  <2>1. \A A : Used(A) \in SUBSET E OBVIOUS
  <2> HIDE DEF Used
  <2> QED BY <2>1, FS_Subset, FS_CardinalityType
<1>4. ASSUME NEW A, NEW k \in 1 .. n, Late(A, k - 1) PROVE Late(Ahead(A), k)
  <2>1. CASE Closed(A, E)
    <3>1. Ahead(A) = A BY <2>1 DEF Closed
    <3> QED BY <2>1, <3>1
  <2>2. CASE ~Closed(A, E)
    <3>1. PICK e \in E : e.from \in A /\ e.to \notin A BY <2>2 DEF Closed
    <3>2. Used(A) \subseteq Used(Ahead(A)) /\ e \in Used(Ahead(A)) /\ e \notin Used(A) BY <3>1
    <3>3. Cardinality(Used(A)) >= k - 1 BY <1>4, <2>2
    <3> HIDE DEF Used, Ahead
    <3>4. Used(A) \in SUBSET Used(Ahead(A)) BY <3>2
    <3>5. /\ Cardinality(Used(A)) <= Cardinality(Used(Ahead(A)))
          /\ Cardinality(Used(Ahead(A))) = Cardinality(Used(A)) => Used(Ahead(A)) = Used(A)
      BY <1>3, <3>4, FS_Subset
    <3>6. Cardinality(Used(A)) # Cardinality(Used(Ahead(A))) BY <3>2, <3>5
    <3>7. Cardinality(Used(A)) \in Nat /\ Cardinality(Used(Ahead(A))) \in Nat BY <1>3
    <3>8. Cardinality(Used(Ahead(A))) >= k BY <1>2, <3>3, <3>5, <3>6, <3>7
    <3> QED BY <3>8
  <2> QED BY <2>1, <2>2
<1>5. \A k \in 0 .. n : k \in {j \in 0 .. n : Late(r[j], j)}
  <2> DEFINE T == {j \in 0 .. n : Late(r[j], j)}
  <2>1. 0 \in T
    <3>1. Cardinality(Used(r[0])) >= 0
      <4> HIDE DEF Used
      <4> QED BY <1>3
    <3> QED BY <1>2, <3>1
  <2>2. ASSUME NEW k \in 1 .. n, k - 1 \in T PROVE k \in T
    <3>1. Late(r[k - 1], k - 1) BY <2>2
    <3> HIDE DEF Late, Ahead
    <3>2. Late(Ahead(r[k - 1]), k) BY <1>4, <3>1
    <3>3. r[k] = Ahead(r[k - 1]) BY <1>1
    <3> QED BY <3>2, <3>3
  <2> HIDE DEF T, n
  <2>3. \A k \in 0 .. n : k \in T BY <1>2, <2>1, <2>2, Upwards
  <2> QED BY <2>3 DEF T
<1>6. Closed(r[n], E)
  <2>1. n \in 0 .. n BY <1>2
  <2>2. Late(r[n], n) BY <1>5, <2>1
  <2>3. ASSUME Cardinality(Used(r[n])) >= n PROVE Closed(r[n], E)
    <3>1. Used(r[n]) \in SUBSET E OBVIOUS
    <3>2. Cardinality(Used(r[n])) <= n /\ (n = Cardinality(Used(r[n])) => E = Used(r[n]))
      <4> HIDE DEF Used
      <4> QED BY <3>1, FS_Subset
    <3>3. Cardinality(Used(r[n])) \in Nat BY <1>3
    <3>4. Cardinality(Used(r[n])) = n
      <4> HIDE DEF Used, n
      <4> QED BY <1>2, <2>3, <3>2, <3>3
    <3>5. E = Used(r[n]) BY <3>2, <3>4
    <3> QED BY <3>5 DEF Closed
  <2> QED BY <2>2, <2>3
<1>7. S \subseteq r[n]
  <2> DEFINE T == {j \in 0 .. n : S \subseteq r[j]}
  <2>1. 0 \in T BY <1>1, <1>2
  <2>2. ASSUME NEW k \in 1 .. n, k - 1 \in T PROVE k \in T BY <1>1, <2>2
  <2>3. n \in 0 .. n BY <1>2
  <2> HIDE DEF T, n
  <2>4. n \in T BY <1>2, <2>1, <2>2, <2>3, Upwards
  <2> QED BY <2>4 DEF T
<1>8. ASSUME NEW T, S \subseteq T, Closed(T, E) PROVE r[n] \subseteq T
  <2> DEFINE V == {j \in 0 .. n : r[j] \subseteq T}
  <2>1. 0 \in V BY <1>1, <1>2, <1>8
  <2>2. ASSUME NEW k \in 1 .. n, k - 1 \in V PROVE k \in V BY <1>1, <1>8, <2>2 DEF Closed
  <2>3. n \in 0 .. n BY <1>2
  <2> HIDE DEF V, n
  <2>4. n \in V BY <1>2, <2>1, <2>2, <2>3, Upwards
  <2> QED BY <2>4 DEF V
<1> QED BY <1>1, <1>6, <1>7, <1>8

-------------------------------------------------------------------------------
(* Part two: the sealed chain of a write task in an executable graph *)

FiniteGraph(g) ==
  /\ IsFiniteSet(Ids(g)) /\ IsFiniteSet(g.edges)
  /\ \A n \in Ids(g) : Len(g.node[n].cmds) \in Nat /\ DOMAIN g.node[n].cmds = 1 .. Len(g.node[n].cmds)

Before(w, c, i) == IF i = 1 THEN w ELSE c[i - 1]

\* The last node of a chain, or w before the first.
At(w, c) == IF c = <<>> THEN w ELSE c[Len(c)]

\* The sealed nodes that a happy edge leads to from m.
NextOf(g, w, m) == {e.to : e \in HappyEdges(g, m)} \cap SystemOf(g, w)

\* Each node of c is led to by a happy edge of the one before.
Linked(g, w, c) ==
  /\ c \in Seq(SystemOf(g, w))
  /\ \A i \in 1 .. Len(c) : \E e \in HappyEdges(g, Before(w, c, i)) : e.to = c[i]

Further(g, w, c, k) ==
  IF Len(c) = k - 1 /\ Cardinality(HappyEdges(g, At(w, c))) = 1 /\ NextOf(g, w, At(w, c)) # {}
  THEN Append(c, CHOOSE m \in NextOf(g, w, At(w, c)) : TRUE) ELSE c

\* One step along the happy edges keeps the chain linked.
LEMMA FurtherLinked ==
  ASSUME NEW g, NEW w, NEW c, NEW k, Linked(g, w, c)
  PROVE Linked(g, w, Further(g, w, c, k))
<1> DEFINE S == SystemOf(g, w)
           m == CHOOSE x \in NextOf(g, w, At(w, c)) : TRUE
<1>1. CASE Further(g, w, c, k) = c BY <1>1
<1>2. CASE Further(g, w, c, k) # c
  <2>1. NextOf(g, w, At(w, c)) # {} /\ Further(g, w, c, k) = Append(c, m) BY <1>2 DEF Further
  <2>2. m \in NextOf(g, w, At(w, c)) BY <2>1
  <2> DEFINE d == Append(c, m)
  <2>3. m \in S /\ \E e \in HappyEdges(g, At(w, c)) : e.to = m BY <2>2 DEF NextOf
  <2>4. c \in Seq(S) BY DEF Linked
  <2> HIDE DEF S, m
  <2>5. /\ d \in Seq(S) /\ Len(d) = Len(c) + 1 /\ d[Len(c) + 1] = m
        /\ \A i \in 1 .. Len(c) : d[i] = c[i]
        /\ Len(c) \in Nat /\ (c = <<>> <=> Len(c) = 0)
    BY <2>3, <2>4
  <2> HIDE DEF d
  <2>6. ASSUME NEW i \in 1 .. Len(d) PROVE \E e \in HappyEdges(g, Before(w, d, i)) : e.to = d[i]
    <3>1. CASE i = Len(c) + 1
      <4>1. Before(w, d, i) = At(w, c)
        <5>1. CASE c = <<>> BY <2>5, <3>1, <5>1 DEF Before, At
        <5>2. CASE c # <<>>
          <6>1. Len(c) \in 1 .. Len(c) /\ i # 1 /\ i - 1 = Len(c) BY <2>5, <3>1, <5>2
          <6> QED BY <2>5, <5>2, <6>1 DEF Before, At
        <5> QED BY <5>1, <5>2
      <4> QED BY <2>3, <2>5, <3>1, <4>1
    <3>2. CASE i # Len(c) + 1
      <4>1. i \in 1 .. Len(c) /\ (i # 1 => i - 1 \in 1 .. Len(c)) BY <2>5, <3>2
      <4>2. d[i] = c[i] /\ Before(w, d, i) = Before(w, c, i) BY <2>5, <4>1 DEF Before
      <4>3. \E e \in HappyEdges(g, Before(w, c, i)) : e.to = c[i] BY <4>1 DEF Linked
      <4> QED BY <4>2, <4>3
    <3> QED BY <3>1, <3>2
  <2>7. Linked(g, w, d) BY <2>5, <2>6 DEF Linked, S
  <2> QED BY <2>1, <2>7 DEF d
<1> QED BY <1>1, <1>2

\* The rounds in which HappyChain follows the happy edges.
LEMMA HappyRounds ==
  ASSUME NEW g, NEW w, IsFiniteSet(Ids(g))
  PROVE \E h : /\ h[0] = <<>>
               /\ \A k \in 1 .. Cardinality(Ids(g)) : h[k] = Further(g, w, h[k - 1], k)
               /\ HappyChain(g, w) = h[Cardinality(Ids(g))]
<1> DEFINE n == Cardinality(Ids(g))
           D == {c \in Seq(SystemOf(g, w)) : Linked(g, w, c)}
           F == [p \in (1 .. n) \X D |-> Further(g, w, p[2], p[1])]
           Eq(h) == h = [k \in 0 .. n |-> IF k = 0 THEN <<>> ELSE Further(g, w, h[k - 1], k)]
<1>1. n \in Nat BY FS_CardinalityType
<1>2. IsStep(F, n, D)
  <2>1. ASSUME NEW k \in 1 .. n, NEW c \in D PROVE Further(g, w, c, k) \in D
    <3>1. Linked(g, w, Further(g, w, c, k)) BY FurtherLinked
    <3> QED BY <3>1 DEF Linked
  <2> HIDE DEF D
  <2> QED BY <2>1 DEF IsStep
<1>3. <<>> \in D
  <2>1. <<>> \in Seq(SystemOf(g, w)) /\ Len(<<>>) = 0 OBVIOUS
  <2> QED BY <2>1 DEF Linked
<1>4. HappyChain(g, w) = (CHOOSE h : Eq(h))[n] BY DEF HappyChain, Further, NextOf, At
<1> HIDE DEF n
<1>5. PICK f : Unfolds(f, F, n, D, <<>>)
  <2> HIDE DEF D, F
  <2> QED BY <1>1, <1>2, <1>3, Recursion
<1>6. /\ f \in [0 .. n -> D] /\ f[0] = <<>>
      /\ \A k \in 1 .. n : f[k] = F[<<k, f[k - 1]>>]
  <2> HIDE DEF D, F
  <2> QED BY <1>5 DEF Unfolds
<1> HIDE DEF D
<1>7. \A k \in 1 .. n : f[k] = Further(g, w, f[k - 1], k)
  <2> SUFFICES ASSUME NEW k \in 1 .. n PROVE f[k] = Further(g, w, f[k - 1], k) OBVIOUS
  <2>1. k - 1 \in 0 .. n BY <1>1
  <2>2. f[k - 1] \in D BY <1>6, <2>1
  <2>3. <<k, f[k - 1]>> \in (1 .. n) \X D BY <2>2
  <2> QED BY <1>6, <2>3
<1>8. f = [k \in 0 .. n |-> IF k = 0 THEN <<>> ELSE Further(g, w, f[k - 1], k)]
  <2>1. \A k \in 0 .. n : f[k] = IF k = 0 THEN <<>> ELSE Further(g, w, f[k - 1], k) BY <1>1, <1>6, <1>7
  <2> QED BY <1>6, <2>1
<1>9. Eq(f) BY <1>8
<1> HIDE DEF Eq
<1>10. PICK h : h = (CHOOSE x : Eq(x)) OBVIOUS
<1>11. Eq(h) BY <1>9, <1>10
<1>12. h = [k \in 0 .. n |-> IF k = 0 THEN <<>> ELSE Further(g, w, h[k - 1], k)] BY <1>11 DEF Eq
<1>13. h[0] = <<>> /\ \A k \in 1 .. n : h[k] = Further(g, w, h[k - 1], k)
  <2> DEFINE G(k) == Further(g, w, h[k - 1], k)
  <2> HIDE DEF G
  <2>1. h = [k \in 0 .. n |-> IF k = 0 THEN <<>> ELSE G(k)] BY <1>12 DEF G
  <2>2. 0 \in 0 .. n /\ \A k \in 1 .. n : k \in 0 .. n /\ k # 0 BY <1>1
  <2>3. h[0] = <<>> /\ \A k \in 1 .. n : h[k] = G(k) BY <2>1, <2>2
  <2> QED BY <2>3 DEF G
<1> QED BY <1>4, <1>10, <1>13 DEF n

\* HappyChain(g, w) is a sequence of sealed nodes of w, linked by happy edges.
LEMMA HappyChainLinked ==
  ASSUME NEW g, NEW w, IsFiniteSet(Ids(g))
  PROVE Linked(g, w, HappyChain(g, w))
<1> DEFINE n == Cardinality(Ids(g))
<1>1. n \in Nat BY FS_CardinalityType
<1>2. PICK h : /\ h[0] = <<>>
               /\ \A k \in 1 .. n : h[k] = Further(g, w, h[k - 1], k)
               /\ HappyChain(g, w) = h[n]
  BY HappyRounds
<1> HIDE DEF n
<1> DEFINE T == {k \in 0 .. n : Linked(g, w, h[k])}
<1>3. 0 \in T
  <2>1. <<>> \in Seq(SystemOf(g, w)) /\ Len(<<>>) = 0 OBVIOUS
  <2>2. Linked(g, w, <<>>) BY <2>1 DEF Linked
  <2> QED BY <1>1, <1>2, <2>2
<1>4. ASSUME NEW k \in 1 .. n, k - 1 \in T PROVE k \in T
  <2>1. Linked(g, w, h[k - 1]) BY <1>4
  <2>2. Linked(g, w, Further(g, w, h[k - 1], k)) BY <2>1, FurtherLinked
  <2> QED BY <1>2, <2>2
<1>5. n \in 0 .. n BY <1>1
<1> HIDE DEF T
<1>6. n \in T BY <1>1, <1>3, <1>4, <1>5, Upwards
<1> QED BY <1>2, <1>6 DEF T

Kind(g, n) == g.node[n].kind

\* The kinds along a sealed chain: the tests and their guards are in the middle.
KindsInOrder(g, c) ==
  LET last == Len(c)
  IN  /\ Kind(g, c[1]) = "patch_guard"
      /\ \A i \in 2 .. last - 3 : Kind(g, c[i]) \in {"command_guard", "test"}
      /\ Kind(g, c[last - 2]) = "risk"
      /\ Kind(g, c[last - 1]) = "approval"
      /\ Kind(g, c[last]) = "merge"

\* The chain c of w: its nodes are the sealed nodes of w, each led to by the happy
\* edge of the one before, and giving up at the output.
SealedChain(g, w, c) ==
  /\ c \in Seq(SystemOf(g, w)) /\ Len(c) >= 5
  /\ \A n \in SystemOf(g, w) : \E i \in 1 .. Len(c) : n = c[i]
  /\ \A i \in 1 .. Len(c) : \E e \in HappyEdges(g, Before(w, c, i)) : e.to = c[i]
  /\ KindsInOrder(g, c)
  /\ ExitsValid(g, w)

\* The check of a sealed chain follows it to the merge.
LEMMA ExecutableChain ==
  ASSUME NEW g, FiniteGraph(g), Executable(g), NEW w \in KindNodes(g, "write_task")
  PROVE SealedChain(g, w, HappyChain(g, w)) /\ SequenceValid(g, w, HappyChain(g, w))
<1> DEFINE c == HappyChain(g, w)
           S == SystemOf(g, w)
           cmds == g.node[w].cmds
<1>1. Linked(g, w, c) BY HappyChainLinked DEF FiniteGraph
<1>2. {c[i] : i \in DOMAIN c} = S /\ SequenceValid(g, w, c) /\ ExitsValid(g, w)
  <2> HIDE DEF c, S
  <2> QED BY DEF Executable, SecurityChainsValid, c, S
<1>3. w \in Ids(g) BY DEF KindNodes
<1>4. Len(cmds) \in Nat /\ DOMAIN cmds = 1 .. Len(cmds) BY <1>3 DEF FiniteGraph
<1> HIDE DEF c, S, cmds
<1>5. c \in Seq(S) /\ \A i \in 1 .. Len(c) : \E e \in HappyEdges(g, Before(w, c, i)) : e.to = c[i]
  BY <1>1 DEF Linked, S
<1>6. DOMAIN c = 1 .. Len(c) /\ Len(c) \in Nat BY <1>5
<1>7. \A n \in S : \E i \in 1 .. Len(c) : n = c[i] BY <1>2, <1>6
<1>8. Len(c) >= 5 BY <1>2 DEF SequenceValid
<1>9. KindsInOrder(g, c)
  <2>1. /\ Kind(g, c[1]) = "patch_guard" /\ Kind(g, c[Len(c) - 2]) = "risk"
        /\ Kind(g, c[Len(c) - 1]) = "approval" /\ Kind(g, c[Len(c)]) = "merge"
    BY <1>2 DEF SequenceValid, Kind
  <2>2. ASSUME NEW i \in 2 .. Len(c) - 3 PROVE Kind(g, c[i]) \in {"command_guard", "test"}
    <3>1. CASE Len(c) = 5
      <4>1. i = 2 BY <3>1
      <4>2. Kind(g, c[2]) = "test" BY <1>2, <3>1 DEF SequenceValid, Kind
      <4> QED BY <4>1, <4>2
    <3>2. CASE Len(c) # 5
      <4>1. Len(c) = 2 * Len(cmds) + 4 BY <1>2, <3>2 DEF SequenceValid, cmds
      <4>2. \A k \in 1 .. Len(cmds) : Kind(g, c[2 * k]) = "command_guard" /\ Kind(g, c[2 * k + 1]) = "test"
        BY <1>2, <1>4, <3>2 DEF SequenceValid, Kind, cmds
      <4>3. PICK k \in Int : i = 2 * k \/ i = 2 * k + 1
        <5>1. i \div 2 \in Int /\ (i = 2 * (i \div 2) \/ i = 2 * (i \div 2) + 1) OBVIOUS
        <5> QED BY <5>1
      <4>4. k \in 1 .. Len(cmds) BY <1>4, <4>1, <4>3
      <4> QED BY <4>2, <4>3, <4>4
    <3> QED BY <3>1, <3>2
  <2> QED BY <2>1, <2>2 DEF KindsInOrder
<1> QED BY <1>2, <1>5, <1>7, <1>8, <1>9 DEF SealedChain, c, S

\* Where a node of a sealed chain stands tells its kind.
LEMMA ChainKinds ==
  ASSUME NEW g, NEW w, NEW c, SealedChain(g, w, c), NEW i \in 1 .. Len(c)
  PROVE /\ c[i] \in SystemOf(g, w) /\ Kind(g, c[i]) \in SystemKinds
        /\ Kind(g, c[i]) = "approval" <=> i = Len(c) - 1
        /\ Kind(g, c[i]) = "merge" <=> i = Len(c)
        /\ Kind(g, c[i]) = "patch_guard" <=> i = 1
<1>1. Len(c) \in Nat /\ Len(c) >= 5 /\ c[i] \in SystemOf(g, w) BY DEF SealedChain
<1>2. KindsInOrder(g, c) BY DEF SealedChain
<1>3. i = 1 \/ i \in 2 .. Len(c) - 3 \/ i = Len(c) - 2 \/ i = Len(c) - 1 \/ i = Len(c) BY <1>1
<1>4. Kind(g, c[i]) = IF i = 1 THEN "patch_guard"
                      ELSE IF i = Len(c) THEN "merge"
                      ELSE IF i = Len(c) - 1 THEN "approval"
                      ELSE IF i = Len(c) - 2 THEN "risk" ELSE Kind(g, c[i])
  BY <1>1, <1>2, <1>3 DEF KindsInOrder
<1>5. i \in 2 .. Len(c) - 3 => Kind(g, c[i]) \in {"command_guard", "test"} BY <1>2 DEF KindsInOrder
<1> QED BY <1>1, <1>3, <1>4, <1>5 DEF SystemKinds

\* An edge of a node of the chain is the happy one, to the next, or gives up.
LEMMA ChainEdgesLead ==
  ASSUME NEW g, NEW w \in KindNodes(g, "write_task"), NEW c, Executable(g), SealedChain(g, w, c),
         NEW e \in g.edges
  PROVE /\ e \in HappyEdges(g, w) => e.to = c[1]
        /\ \A i \in 1 .. Len(c) : e.from = c[i] =>
             \/ e \in HappyEdges(g, c[i]) /\ (i < Len(c) => e.to = c[i + 1])
             \/ e \in UnhappyEdges(g, c[i]) /\ e.to \in KindNodes(g, "output")
<1>1. \A f \in g.edges : e.from = f.from /\ e.cond = f.cond => e = f
  BY DEF Executable, FanoutAndJoinsValid
<1>2. ASSUME NEW i \in 1 .. Len(c), e \in HappyEdges(g, Before(w, c, i)) PROVE e.to = c[i]
  <2>1. PICK f \in HappyEdges(g, Before(w, c, i)) : f.to = c[i] BY DEF SealedChain
  <2>2. e.from = f.from /\ e.cond = f.cond /\ f \in g.edges BY <1>2, <2>1 DEF HappyEdges, Out
  <2> QED BY <1>1, <2>1, <2>2
<1>3. e \in HappyEdges(g, w) => e.to = c[1]
  <2>1. Len(c) \in Nat /\ 1 \in 1 .. Len(c) BY DEF SealedChain
  <2> QED BY <1>2, <2>1 DEF Before
<1>4. ASSUME NEW i \in 1 .. Len(c), e.from = c[i]
      PROVE \/ e \in HappyEdges(g, c[i]) /\ (i < Len(c) => e.to = c[i + 1])
            \/ e \in UnhappyEdges(g, c[i]) /\ e.to \in KindNodes(g, "output")
  <2>1. c[i] \in SystemOf(g, w) /\ Kind(g, c[i]) \in SystemKinds BY ChainKinds
  <2>2. e.cond \in EmitsCompiled(Kind(g, c[i])) BY <1>4 DEF Executable, EdgeExecutable, Kind
  <2>3. e.cond = Happy(Kind(g, c[i])) \/ e.cond = Unhappy(Kind(g, c[i]))
    BY <2>1, <2>2 DEF EmitsCompiled, Happy, Unhappy, SystemKinds
  <2>4. e \in HappyEdges(g, c[i]) \/ e \in UnhappyEdges(g, c[i])
    BY <1>4, <2>3 DEF HappyEdges, UnhappyEdges, Out, Kind
  <2>5. e \in UnhappyEdges(g, c[i]) => e.to \in KindNodes(g, "output")
    BY <2>1 DEF SealedChain, ExitsValid
  <2>6. ASSUME i < Len(c), e \in HappyEdges(g, c[i]) PROVE e.to = c[i + 1]
    <3>1. i + 1 \in 1 .. Len(c) /\ i + 1 # 1 /\ i + 1 - 1 = i BY <2>6 DEF SealedChain
    <3> QED BY <1>2, <2>6, <3>1 DEF Before
  <2> QED BY <2>4, <2>5, <2>6
<1> QED BY <1>3, <1>4

\* The last check alone, whatever made the graph, leaves nothing between the success of
\* a write task and the success of its merge but its own chain and the output: an
\* approval leads on to the merge of its own task and nowhere else.
THEOREM ExecutableIsGuarded ==
  ASSUME NEW g, FiniteGraph(g), Executable(g)
  PROVE Guarded(g)
<1> SUFFICES ASSUME NEW w \in KindNodes(g, "write_task")
             PROVE BeforeMerge(g, w) \subseteq SystemOf(g, w) \cup KindNodes(g, "output")
  BY DEF Guarded
<1> DEFINE c == HappyChain(g, w)
           T == SystemOf(g, w) \cup KindNodes(g, "output")
           S == {e.to : e \in {f \in Out(g.edges, w) : f.cond = "success"}}
           E == {e \in g.edges : ~ /\ g.node[e.from].kind = "merge"
                                   /\ g.node[e.from].source = w
                                   /\ e.cond = "success"}
<1>1. SealedChain(g, w, c) BY ExecutableChain
<1> HIDE DEF c
<1>2. IsFiniteSet(E)
  <2>1. E \in SUBSET g.edges OBVIOUS
  <2> HIDE DEF E
  <2> QED BY <2>1, FS_Subset DEF FiniteGraph
<1>3. S \subseteq T
  <2> SUFFICES ASSUME NEW e \in g.edges, e.from = w, e.cond = "success" PROVE e.to \in T BY DEF Out
  <2>1. e \in HappyEdges(g, w) BY DEF HappyEdges, Out, Happy, KindNodes
  <2>2. e.to = c[1] BY <1>1, <2>1, ChainEdgesLead
  <2>3. c[1] \in SystemOf(g, w) BY <1>1 DEF SealedChain
  <2> QED BY <2>2, <2>3
<1>4. Closed(T, E)
  <2> SUFFICES ASSUME NEW e \in E, e.from \in T PROVE e.to \in T BY DEF Closed
  <2>1. CASE e.from \in KindNodes(g, "output")
    <3>1. Out(g.edges, e.from) = {} BY <2>1 DEF Executable, BoundariesValid
    <3> QED BY <3>1 DEF Out
  <2>2. CASE e.from \in SystemOf(g, w)
    <3>1. PICK i \in 1 .. Len(c) : e.from = c[i] BY <1>1, <2>2 DEF SealedChain
    <3>2. Len(c) \in Nat BY <1>1 DEF SealedChain
    <3>3. \/ e \in HappyEdges(g, c[i]) /\ (i < Len(c) => e.to = c[i + 1])
          \/ e \in UnhappyEdges(g, c[i]) /\ e.to \in KindNodes(g, "output")
      BY <1>1, <3>1, ChainEdgesLead
    <3>4. ASSUME e \in HappyEdges(g, c[i]) PROVE i < Len(c)
      <4>1. Kind(g, c[i]) # "merge"
        <5>1. Kind(g, c[i]) = "merge" => e.cond = "success"
          BY <3>4 DEF HappyEdges, Out, Happy, Kind
        <5>2. g.node[e.from].source = w BY <2>2 DEF SystemOf
        <5> QED BY <3>1, <5>1, <5>2 DEF Kind
      <4>2. Kind(g, c[i]) = "merge" <=> i = Len(c) BY <1>1, ChainKinds
      <4> QED BY <3>2, <4>1, <4>2
    <3>5. i < Len(c) => c[i + 1] \in SystemOf(g, w)
      <4>1. i < Len(c) => i + 1 \in 1 .. Len(c) BY <3>2
      <4>2. c \in Seq(SystemOf(g, w)) BY <1>1 DEF SealedChain
      <4> QED BY <4>1, <4>2
    <3> QED BY <3>3, <3>4, <3>5
  <2> QED BY <2>1, <2>2
<1> HIDE DEF S, T, E
<1>5. Closure(S, E) \subseteq T BY <1>2, <1>3, <1>4, ClosureFacts
<1> QED BY <1>5 DEF BeforeMerge, S, T, E

-------------------------------------------------------------------------------
(* The compiled graph of a draft is finite *)

\* The image of a finite set is finite.
LEMMA FiniteImage ==
  ASSUME NEW W, IsFiniteSet(W), NEW G
  PROVE IsFiniteSet({G[w] : w \in W})
<1> DEFINE T == {G[w] : w \in W}
           f == [w \in W |-> G[w]]
<1>1. f \in Surjection(W, T) BY DEF Surjection
<1> HIDE DEF f, T
<1>2. IsFiniteSet(T) BY <1>1, FS_Surjection
<1> QED BY <1>2 DEF T

\* Finitely many finite sets have a finite union.
LEMMA FiniteUnion ==
  ASSUME NEW W, IsFiniteSet(W), NEW G, \A w \in W : IsFiniteSet(G[w])
  PROVE IsFiniteSet(UNION {G[w] : w \in W})
<1> DEFINE n == Cardinality(W)
           U == UNION {G[w] : w \in W}
<1>1. n \in Nat /\ ExistsBijection(1 .. n, W) BY FS_CardinalityType
<1>2. PICK f \in Bijection(1 .. n, W) : TRUE BY <1>1 DEF ExistsBijection
<1>3. /\ \A i \in 1 .. n : f[i] \in W
      /\ \A w \in W : \E i \in 1 .. n : f[i] = w
  BY <1>2 DEF Bijection, Surjection
<1> HIDE DEF n
<1> DEFINE V(k) == UNION {G[f[i]] : i \in 1 .. k}
           T == {k \in 0 .. n : IsFiniteSet(V(k))}
<1>4. 0 \in T
  <2>1. V(0) = {} OBVIOUS
  <2>2. IsFiniteSet(V(0)) BY <2>1, FS_EmptySet
  <2> HIDE DEF V
  <2> QED BY <1>1, <2>2
<1>5. ASSUME NEW k \in 1 .. n, k - 1 \in T PROVE k \in T
  <2>1. V(k) = V(k - 1) \cup G[f[k]]
    <3>1. 1 .. k = (1 .. k - 1) \cup {k} BY <1>1
    <3> QED BY <3>1
  <2> HIDE DEF V
  <2>2. IsFiniteSet(V(k - 1)) /\ IsFiniteSet(G[f[k]]) BY <1>3, <1>5
  <2>3. IsFiniteSet(V(k)) BY <2>1, <2>2, FS_Union
  <2> QED BY <2>3
<1>6. V(n) = U
  <2>1. V(n) \subseteq U BY <1>3
  <2>2. U \subseteq V(n) BY <1>3
  <2> QED BY <2>1, <2>2
<1>7. n \in T
  <2>1. n \in 0 .. n BY <1>1
  <2> HIDE DEF T
  <2> QED BY <1>1, <1>4, <1>5, <2>1, Upwards
<1> HIDE DEF V, U
<1> QED BY <1>6, <1>7 DEF U

\* A chain is a sequence of nodes of the kinds that only the compiler uses.
LEMMA StepsFinite ==
  ASSUME NEW x, Len(x.cmds) \in Nat
  PROVE /\ Len(ChainSteps(x)) \in Nat
        /\ DOMAIN ChainSteps(x) = 1 .. Len(ChainSteps(x))
        /\ \A s \in StepsOf(x) : s.kind \in SystemKinds
        /\ IsFiniteSet(StepsOf(x))
<1> DEFINE guard == Step("patch_guard", "patch_guard", 0, "none", "none")
           risk == Step("risk", "risk_classifier", 0, "none", "none")
           approval == Step("approval", "changeset_approval", 0, "none", "none")
           merge == Step("merge", "merge_patch", 0, "none", "none")
           missing == Step("command_guard", "command_guard", 0, "none", "none")
           failing == Step("test", "command_test", 0, "command", "none")
           docs == Step("test", "docs_static_test", 0, "docs_static", "none")
           n == 2 * Len(x.cmds)
           f == CommandTests(x.cmds)
           P == {guard, risk, approval, merge, missing, failing, docs} \cup {f[i] : i \in 1 .. n}
           c == ChainSteps(x)
<1>1. n \in Nat /\ f = [i \in 1 .. n |-> f[i]] BY DEF CommandTests
<1>2. \A i \in 1 .. n : f[i].kind \in SystemKinds BY DEF CommandTests, Step, SystemKinds
<1>3. /\ guard.kind \in SystemKinds /\ risk.kind \in SystemKinds /\ approval.kind \in SystemKinds
      /\ merge.kind \in SystemKinds /\ missing.kind \in SystemKinds /\ failing.kind \in SystemKinds
      /\ docs.kind \in SystemKinds
  BY DEF Step, SystemKinds
<1>4. /\ ChainSteps(x) = <<guard>> \o Tests(x) \o <<risk, approval, merge>>
      /\ DocsTest = <<docs>> /\ MissingTest = <<missing, failing>>
  BY DEF ChainSteps, DocsTest, MissingTest
<1> HIDE DEF guard, risk, approval, merge, missing, failing, docs, n, f
<1>5. \A s \in P : s.kind \in SystemKinds BY <1>2, <1>3
<1>6. <<guard>> \in Seq(P) /\ <<risk, approval, merge>> \in Seq(P) OBVIOUS
<1>7. DocsTest \in Seq(P) /\ MissingTest \in Seq(P) BY <1>4
<1>8. \A i \in 1 .. n : f[i] \in P OBVIOUS
<1> HIDE DEF P
<1>9. f \in [1 .. n -> P] BY <1>1, <1>8
<1>10. f \in Seq(P) BY <1>1, <1>9
<1>11. Tests(x) \in Seq(P) BY <1>7, <1>10 DEF Tests, f
<1>12. c \in Seq(P) BY <1>4, <1>6, <1>11
<1> HIDE DEF c
<1>13. Len(c) \in Nat /\ DOMAIN c = 1 .. Len(c) /\ \A i \in 1 .. Len(c) : c[i] \in P BY <1>12
<1>14. \A i \in DOMAIN c : c[i].kind \in SystemKinds BY <1>5, <1>13
<1>15. IsFiniteSet({c[i] : i \in DOMAIN c})
  <2>1. IsFiniteSet(DOMAIN c) BY <1>13, FS_Interval
  <2> QED BY <2>1, FiniteImage
<1>16. StepsOf(x) = {c[i] : i \in DOMAIN c} BY DEF StepsOf, c
<1>17. \A s \in StepsOf(x) : s.kind \in SystemKinds BY <1>14, <1>16
<1> QED BY <1>13, <1>15, <1>16, <1>17 DEF c

\* A chain brings finitely many edges.
LEMMA ChainEdgesFinite ==
  ASSUME NEW w, NEW x, Len(x.cmds) \in Nat, NEW originals, IsFiniteSet(originals), NEW output
  PROVE IsFiniteSet(ChainEdges(w, x, originals, output))
<1> DEFINE steps == ChainSteps(x)
           id == [i \in DOMAIN steps |-> SystemId(w, steps[i])]
           a(i) == SystemEdge(i, id[i], Happy(steps[i].kind), id[i + 1])
           b(i) == SystemEdge(i, id[i], Unhappy(steps[i].kind), output)
           last == id[Len(steps)]
           A == {a(i) : i \in 1 .. Len(steps) - 1}
           B == {b(i) : i \in DOMAIN steps}
           C == ResumeEdges(last, originals, output)
<1>1. Len(steps) \in Nat /\ DOMAIN steps = 1 .. Len(steps) BY StepsFinite
<1>2. ChainEdges(w, x, originals, output) = {SystemEdge(0, w, "success", id[1])} \cup A \cup B \cup C
  BY DEF ChainEdges
<1> HIDE DEF steps
<1>3. IsFiniteSet(A)
  <2> DEFINE f == [i \in 1 .. Len(steps) - 1 |-> a(i)]
  <2> HIDE DEF a
  <2>1. A = {f[i] : i \in 1 .. Len(steps) - 1} OBVIOUS
  <2>2. IsFiniteSet(1 .. Len(steps) - 1) BY <1>1, FS_Interval
  <2> HIDE DEF f, A
  <2> QED BY <2>1, <2>2, FiniteImage
<1>4. IsFiniteSet(B)
  <2> DEFINE f == [i \in DOMAIN steps |-> b(i)]
  <2> HIDE DEF b
  <2>1. B = {f[i] : i \in DOMAIN steps} OBVIOUS
  <2>2. IsFiniteSet(DOMAIN steps) BY <1>1, FS_Interval
  <2> HIDE DEF f, B
  <2> QED BY <2>1, <2>2, FiniteImage
<1> HIDE DEF A, B, id, last
<1>5. IsFiniteSet(C)
  <2>1. CASE originals = {}
    <3>1. C = {SystemEdge(0, last, "success", output)} BY <2>1 DEF ResumeEdges
    <3> QED BY <3>1, FS_Singleton
  <2>2. CASE originals # {}
    <3> DEFINE f == [e \in originals |-> SystemEdge(e.id, last, "success", e.to)]
    <3>1. C = {f[e] : e \in originals} BY <2>2 DEF ResumeEdges
    <3> HIDE DEF f, C
    <3> QED BY <3>1, FiniteImage
  <2> QED BY <2>1, <2>2
<1> HIDE DEF C
<1>6. IsFiniteSet({SystemEdge(0, w, "success", id[1])}) BY FS_Singleton
<1>7. IsFiniteSet({SystemEdge(0, w, "success", id[1])} \cup A) BY <1>3, <1>6, FS_Union
<1>8. IsFiniteSet({SystemEdge(0, w, "success", id[1])} \cup A \cup B) BY <1>4, <1>7, FS_Union
<1> QED BY <1>2, <1>5, <1>8, FS_Union

\* What the injector makes of a finite graph: its own nodes have kinds no author's node has.
Injected(g, node, edges) ==
  /\ g = [node |-> g.node, edges |-> g.edges]
  /\ IsFiniteSet(Ids(g)) /\ IsFiniteSet(g.edges)
  /\ DOMAIN node \subseteq Ids(g)
  /\ \A n \in DOMAIN node : g.node[n] = node[n]
  /\ \A n \in Ids(g) \ DOMAIN node : g.node[n].kind \in SystemKinds /\ g.node[n].cmds = <<>>

\* What the compiler adds to a finite graph leaves it finite and its own nodes as they were.
LEMMA InjectFacts ==
  ASSUME NEW node, NEW edges, IsFiniteSet(DOMAIN node), IsFiniteSet(edges),
         \A n \in DOMAIN node : Len(node[n].cmds) \in Nat
  PROVE Injected(Inject(node, edges), node, edges)
<1> DEFINE writes == {n \in DOMAIN node : node[n].kind = "write_task"}
           output == CHOOSE n \in DOMAIN node : node[n].kind = "output"
           a(w, s) == [id |-> SystemId(w, s), is |-> ChainNode(w, node[w], s)]
           G == [w \in writes |-> {a(w, s) : s \in StepsOf(node[w])}]
           added == UNION {{a(w, s) : s \in StepsOf(node[w])} : w \in writes}
           ids == DOMAIN node \cup {x.id : x \in added}
           nodes == [n \in ids |-> IF n \in DOMAIN node THEN node[n]
                                   ELSE (CHOOSE x \in added : x.id = n).is]
           H == [w \in writes |-> ChainEdges(w, node[w], SuccessEdges(edges, w), output)]
           E == (edges \ Replaced(edges, writes))
                 \cup UNION {ChainEdges(w, node[w], SuccessEdges(edges, w), output) : w \in writes}
<1>1. Inject(node, edges) = [node |-> nodes, edges |-> E] BY DEF Inject
<1>2. writes \in SUBSET DOMAIN node OBVIOUS
<1>3. IsFiniteSet(writes)
  <2> HIDE DEF writes
  <2> QED BY <1>2, FS_Subset
<1>4. IsFiniteSet(added)
  <2>1. ASSUME NEW w \in writes PROVE IsFiniteSet(G[w])
    <3> DEFINE f == [s \in StepsOf(node[w]) |-> a(w, s)]
    <3>1. G[w] = {f[s] : s \in StepsOf(node[w])} OBVIOUS
    <3>2. IsFiniteSet(StepsOf(node[w])) BY <1>2, StepsFinite
    <3> HIDE DEF f, G
    <3> QED BY <3>1, <3>2, FiniteImage
  <2>2. added = UNION {G[w] : w \in writes}
    <3> DEFINE J(w) == {a(w, s) : s \in StepsOf(node[w])}
    <3> HIDE DEF J
    <3>1. \A w \in writes : G[w] = J(w) BY DEF J
    <3>2. added = UNION {J(w) : w \in writes} BY DEF J
    <3> HIDE DEF G, added, writes
    <3> QED BY <3>1, <3>2
  <2> HIDE DEF added, G, writes
  <2> QED BY <1>3, <2>1, <2>2, FiniteUnion
<1>5. \A x \in added : x.is.kind \in SystemKinds /\ x.is.cmds = <<>>
  <2> SUFFICES ASSUME NEW w \in writes, NEW s \in StepsOf(node[w])
               PROVE a(w, s).is.kind \in SystemKinds /\ a(w, s).is.cmds = <<>>
    OBVIOUS
  <2>1. s.kind \in SystemKinds BY <1>2, StepsFinite
  <2> QED BY <2>1 DEF ChainNode
<1>6. IsFiniteSet(E)
  <2>1. ASSUME NEW w \in writes PROVE IsFiniteSet(H[w])
    <3>1. SuccessEdges(edges, w) \in SUBSET edges BY DEF SuccessEdges, Out
    <3>2. IsFiniteSet(SuccessEdges(edges, w)) BY <3>1, FS_Subset
    <3>3. Len(node[w].cmds) \in Nat BY <1>2
    <3> HIDE DEF writes, output
    <3>4. IsFiniteSet(ChainEdges(w, node[w], SuccessEdges(edges, w), output)) BY <3>2, <3>3, ChainEdgesFinite
    <3> QED BY <3>4
  <2> DEFINE L == edges \ Replaced(edges, writes)
             M == UNION {H[w] : w \in writes}
  <2>2. E = L \cup M OBVIOUS
  <2>3. L \in SUBSET edges OBVIOUS
  <2> HIDE DEF H, writes, E, L
  <2>4. IsFiniteSet(L) BY <2>3, FS_Subset
  <2>5. IsFiniteSet(M) BY <1>3, <2>1, FiniteUnion
  <2> HIDE DEF M
  <2> QED BY <2>2, <2>4, <2>5, FS_Union
<1>7. IsFiniteSet(ids)
  <2> DEFINE f == [x \in added |-> x.id]
             J == {x.id : x \in added}
  <2> HIDE DEF added
  <2>1. J = {f[x] : x \in added} OBVIOUS
  <2>2. IsFiniteSet({f[x] : x \in added})
    <3> HIDE DEF f
    <3> QED BY <1>4, FiniteImage
  <2>3. ids = DOMAIN node \cup J OBVIOUS
  <2>4. IsFiniteSet(J) BY <2>1, <2>2
  <2> HIDE DEF J, ids
  <2> QED BY <2>3, <2>4, FS_Union
<1>8. ASSUME NEW n \in ids, n \notin DOMAIN node
      PROVE nodes[n].kind \in SystemKinds /\ nodes[n].cmds = <<>>
  <2> HIDE DEF added
  <2>1. \E x \in added : x.id = n BY <1>8
  <2>2. (CHOOSE x \in added : x.id = n) \in added BY <2>1
  <2>3. nodes[n] = (CHOOSE x \in added : x.id = n).is BY <1>8
  <2> QED BY <1>5, <2>2, <2>3
<1>9. DOMAIN nodes = ids /\ DOMAIN node \subseteq ids /\ \A n \in DOMAIN node : nodes[n] = node[n]
  OBVIOUS
<1> HIDE DEF nodes, ids, E
<1> QED BY <1>1, <1>6, <1>7, <1>8, <1>9 DEF Injected, Ids

\* sorted() lists the ids N.
InOrder(N) == Len(Sorted) \in Nat /\ N \subseteq {Sorted[i] : i \in 1 .. Len(Sorted)}

\* A draft as the author may submit it.
FiniteDraft(d) ==
  /\ d = [node |-> d.node, edges |-> d.edges]
  /\ IsFiniteSet(Ids(d)) /\ IsFiniteSet(d.edges) /\ InOrder(Ids(d))
  /\ \A n \in Ids(d) : Len(d.node[n].cmds) \in Nat /\ DOMAIN d.node[n].cmds = 1 .. Len(d.node[n].cmds)

\* The edges, the ids and the commands of a draft as the author's request holds them.
EdgeShape(E) ==
  \A e \in E :
    /\ e = [id |-> e.id, from |-> e.from, to |-> e.to, cond |-> e.cond, sys |-> e.sys]
    /\ e.sys \in BOOLEAN

DraftShape(d) ==
  /\ EdgeShape(d.edges)
  /\ \A n \in Ids(d) :
       /\ n = <<n[1], "author", 0>> /\ n # NoNode
       /\ LET cmds == d.node[n].cmds
          IN  cmds = [k \in 1 .. Len(cmds) |-> cmds[k]] /\ \A k \in 1 .. Len(cmds) : cmds[k] # "none"

\* A compiled graph is finite, a write task has the commands of its draft, and the
\* compiler added none.
LEMMA CompiledFacts ==
  ASSUME NEW d, FiniteDraft(d)
  PROVE /\ Compiled(d) = [node |-> Compiled(d).node, edges |-> Compiled(d).edges]
        /\ FiniteGraph(Compiled(d))
        /\ \A w \in KindNodes(Compiled(d), "write_task") :
             w \in Ids(d) /\ Compiled(d).node[w].cmds = d.node[w].cmds
<1> DEFINE node == [n \in Ids(d) |-> Sealed(d.node[n])]
           g == Compiled(d)
<1>1. g = Inject(node, d.edges) BY DEF Compiled
<1>2. \A n \in Ids(d) : node[n].cmds = d.node[n].cmds BY DEF Sealed, EffectiveCommands
<1>3. DOMAIN node = Ids(d) OBVIOUS
<1> HIDE DEF node, g
<1>4. Injected(g, node, d.edges)
  <2>1. \A n \in DOMAIN node : Len(node[n].cmds) \in Nat BY <1>2, <1>3 DEF FiniteDraft
  <2> QED BY <1>1, <1>3, <2>1, InjectFacts DEF FiniteDraft
<1>5. ASSUME NEW n \in Ids(g)
      PROVE \/ n \in Ids(d) /\ g.node[n].cmds = d.node[n].cmds
            \/ g.node[n].kind \in SystemKinds /\ g.node[n].cmds = <<>>
  <2>1. CASE n \in Ids(d) BY <1>2, <1>3, <1>4, <2>1 DEF Injected
  <2>2. CASE n \notin Ids(d) BY <1>3, <1>4, <2>2 DEF Injected
  <2> QED BY <2>1, <2>2
<1>6. ASSUME NEW n \in Ids(g)
      PROVE Len(g.node[n].cmds) \in Nat /\ DOMAIN g.node[n].cmds = 1 .. Len(g.node[n].cmds)
  <2>1. CASE n \in Ids(d) /\ g.node[n].cmds = d.node[n].cmds BY <2>1 DEF FiniteDraft
  <2>2. CASE g.node[n].cmds = <<>> BY <2>2
  <2> QED BY <1>5, <2>1, <2>2
<1>7. FiniteGraph(g) BY <1>4, <1>6 DEF Injected, FiniteGraph
<1>8. \A w \in KindNodes(g, "write_task") : w \in Ids(d) /\ g.node[w].cmds = d.node[w].cmds
  BY <1>5 DEF KindNodes, SystemKinds
<1> QED BY <1>4, <1>7, <1>8 DEF Injected, g

-------------------------------------------------------------------------------
(* The stages of a draft *)

\* What the stage of a draft says of it and of its graph.
StageInv ==
  /\ FiniteDraft(draft) /\ DraftShape(draft)
  /\ stage = "new" => IsFiniteSet(canvas) /\ EdgeShape(canvas)
  /\ stage \in {"compiled", "running"} => Compiles(draft) /\ graph = Compiled(draft)
  /\ stage = "running" => Accepted

\* A new draft is one of the scenarios, without an edge.
LEMMA InitStage == Init => StageInv
<1> SUFFICES ASSUME Init PROVE StageInv OBVIOUS
<1>1. PICK s \in Scenarios : draft = [node |-> s.node, edges |-> {}] /\ canvas = s.edges BY DEF Init
<1>2. draft.node = s.node /\ draft.edges = {} /\ Ids(draft) = DOMAIN s.node BY <1>1 DEF Ids
<1>3. FiniteDraft(draft)
  <2>1. \A n \in DOMAIN s.node : Len(s.node[n].cmds) \in Nat /\ DOMAIN s.node[n].cmds = 1 .. Len(s.node[n].cmds)
    BY ScenarioAssumption
  <2> QED BY <1>1, <1>2, <2>1, ScenarioAssumption, FS_EmptySet DEF FiniteDraft, InOrder
<1>4. DraftShape(draft) BY <1>2, ScenarioAssumption DEF DraftShape, EdgeShape
<1>5. IsFiniteSet(canvas) /\ EdgeShape(canvas) BY <1>1, ScenarioAssumption DEF EdgeShape
<1> QED BY <1>3, <1>4, <1>5 DEF StageInv, Init

\* Drawing, compiling, checking and running a draft keep what its stage says of it.
LEMMA NextStage == StageInv /\ [Next]_vars => StageInv'
<1> SUFFICES ASSUME StageInv, [Next]_vars PROVE StageInv' OBVIOUS
<1>1. CASE UNCHANGED vars BY <1>1 DEF StageInv, vars, Accepted
<1>2. CASE Submit
  <2>1. PICK E \in SUBSET canvas : draft' = [draft EXCEPT !.edges = E] BY <1>2 DEF Submit
  <2>2. IsFiniteSet(E) /\ EdgeShape(E) BY <1>2, FS_Subset DEF StageInv, Submit, EdgeShape
  <2>3. draft' = [node |-> draft.node, edges |-> E]
    <3>1. draft = [node |-> draft.node, edges |-> draft.edges] BY DEF StageInv, FiniteDraft
    <3> QED BY <2>1, <3>1
  <2>4. draft'.node = draft.node /\ draft'.edges = E /\ Ids(draft') = Ids(draft) BY <2>3 DEF Ids
  <2>5. FiniteDraft(draft') BY <2>2, <2>3, <2>4 DEF StageInv, FiniteDraft
  <2>6. DraftShape(draft') BY <2>2, <2>4 DEF StageInv, DraftShape
  <2>7. stage' = "draft" BY <1>2 DEF Submit
  <2>8. FiniteDraft(draft)' /\ DraftShape(draft)' BY <2>5, <2>6
  <2> QED BY <2>7, <2>8 DEF StageInv
<1>3. CASE Compile
  <2>1. /\ draft' = draft /\ stage' \in {"compiled", "rejected"}
        /\ stage' = "compiled" => Compiles(draft) /\ graph' = Compiled(draft)
    BY <1>3 DEF Compile
  <2> QED BY <2>1 DEF StageInv
<1>4. CASE Validate
  <2>1. /\ draft' = draft /\ graph' = graph /\ stage = "compiled" /\ stage' \in {"running", "rejected"}
        /\ stage' = "running" => Accepted
    BY <1>4 DEF Validate
  <2> QED BY <2>1 DEF StageInv, Accepted
<1>5. ASSUME NEW n \in Ids(graph), Finish(n) PROVE StageInv'
  <2>1. draft' = draft /\ graph' = graph /\ stage' = stage /\ canvas' = canvas BY <1>5 DEF Finish
  <2> QED BY <2>1 DEF StageInv, Accepted
<1> QED BY <1>1, <1>2, <1>3, <1>4, <1>5 DEF Next

\* A draft stays finite and well formed, what is compiled is the compiler's graph of a
\* valid draft, and what runs has passed the last check.
THEOREM StageCorrect == Spec => []StageInv
<1> QED BY InitStage, NextStage, PTL DEF Spec

\* What runs is finite, and passed the last check.
LEMMA RunningGraph ==
  ASSUME StageInv, stage = "running"
  PROVE /\ graph = [node |-> graph.node, edges |-> graph.edges]
        /\ FiniteGraph(graph) /\ Executable(graph)
        /\ \A w \in KindNodes(graph, "write_task") : graph.node[w].cmds = draft.node[w].cmds
BY CompiledFacts DEF StageInv, Accepted

\* No accepted graph, and no accepted graph in which two edges lead to each other's
\* target, lets a write task's success reach anything but its own chain and the output
\* before its merge has succeeded, by way of an approval or otherwise: the last check does
\* not rely on the compiler.
THEOREM BypassIsRefused == Spec => []BypassRefused
<1>1. StageInv => BypassRefused
  <2> SUFFICES ASSUME StageInv, stage = "running",
                      NEW e \in graph.edges, NEW f \in graph.edges
               PROVE /\ Guarded(graph)
                     /\ Executable(Swapped(e, f)) => Guarded(Swapped(e, f))
    <3>1. ASSUME StageInv, stage = "running" PROVE Guarded(graph)
      BY <3>1, RunningGraph, ExecutableIsGuarded
    <3> QED BY <3>1 DEF BypassRefused
  <2>1. FiniteGraph(graph) /\ Executable(graph) BY RunningGraph
  <2>2. Guarded(graph) BY <2>1, ExecutableIsGuarded
  <2> DEFINE To(x, n) == [x EXCEPT !.to = n, !.sys = IsSystem(graph, x.from) \/ IsSystem(graph, n)]
             E == (graph.edges \ {e, f}) \cup {To(e, f.to), To(f, e.to)}
             h == Swapped(e, f)
  <2>3. IsFiniteSet(E)
    <3> DEFINE L == graph.edges \ {e, f}
               a == To(e, f.to)
               b == To(f, e.to)
    <3>1. L \in SUBSET graph.edges OBVIOUS
    <3>2. E = (L \cup {a}) \cup {b} OBVIOUS
    <3> HIDE DEF L, a, b, E, To
    <3>3. IsFiniteSet(L) BY <2>1, <3>1, FS_Subset DEF FiniteGraph
    <3>4. IsFiniteSet(L \cup {a}) BY <3>3, FS_AddElement
    <3>5. IsFiniteSet((L \cup {a}) \cup {b}) BY <3>4, FS_AddElement
    <3> QED BY <3>2, <3>5
  <2>4. h = [graph EXCEPT !.edges = E] BY DEF Swapped
  <2> HIDE DEF E, h
  <2>5. h = [node |-> graph.node, edges |-> E]
    <3>1. graph = [node |-> graph.node, edges |-> graph.edges] BY RunningGraph
    <3> QED BY <2>4, <3>1
  <2>6. h.node = graph.node /\ h.edges = E BY <2>5
  <2>7. FiniteGraph(h) BY <2>1, <2>3, <2>6 DEF FiniteGraph, Ids
  <2>8. Executable(h) => Guarded(h) BY <2>7, ExecutableIsGuarded
  <2> QED BY <2>2, <2>8 DEF h
<1> QED BY <1>1, StageCorrect, PTL

-------------------------------------------------------------------------------
(* _contains_cycle *)

\* The nodes whose predecessors are all in A.
Freed(A, nodes, E) == {m \in nodes : \A e \in Into(E, m) : e.from \in A}

Kahn(v, nodes, E) ==
  /\ v[0] = {}
  /\ \A k \in 1 .. Cardinality(nodes) : v[k] = Freed(v[k - 1], nodes, E)
  /\ \A k \in 0 .. Cardinality(nodes) : v[k] \in SUBSET nodes
  /\ ContainsCycle(nodes, E) <=> v[Cardinality(nodes)] # nodes

\* The rounds of Kahn's algorithm, and what _contains_cycle answers after them.
LEMMA KahnRounds ==
  ASSUME NEW nodes, IsFiniteSet(nodes), NEW E
  PROVE \E v : Kahn(v, nodes, E)
<1> DEFINE n == Cardinality(nodes)
           D == SUBSET nodes
           Eq(g) == g = [k \in 0 .. n |-> IF k = 0 THEN {} ELSE Freed(g[k - 1], nodes, E)]
           F == [p \in (1 .. n) \X D |-> Freed(p[2], nodes, E)]
<1>1. n \in Nat BY FS_CardinalityType
<1>2. IsStep(F, n, D) BY DEF IsStep, Freed
<1>3. {} \in D OBVIOUS
<1>4. ContainsCycle(nodes, E) <=> (CHOOSE g : Eq(g))[n] # nodes BY DEF ContainsCycle, Freed
<1> HIDE DEF n
<1>5. PICK f : Unfolds(f, F, n, D, {})
  <2> HIDE DEF D, F
  <2> QED BY <1>1, <1>2, <1>3, Recursion
<1>6. /\ f \in [0 .. n -> D] /\ f[0] = {}
      /\ \A k \in 1 .. n : f[k] = F[<<k, f[k - 1]>>]
  <2> HIDE DEF D, F
  <2> QED BY <1>5 DEF Unfolds
<1>7. \A k \in 1 .. n : f[k] = Freed(f[k - 1], nodes, E)
  <2> SUFFICES ASSUME NEW k \in 1 .. n PROVE f[k] = Freed(f[k - 1], nodes, E) OBVIOUS
  <2>1. k - 1 \in 0 .. n BY <1>1
  <2>2. f[k - 1] \in D BY <1>6, <2>1
  <2>3. <<k, f[k - 1]>> \in (1 .. n) \X D BY <2>2
  <2> QED BY <1>6, <2>3
<1>8. f = [k \in 0 .. n |-> IF k = 0 THEN {} ELSE Freed(f[k - 1], nodes, E)]
  <2>1. \A k \in 0 .. n : f[k] = IF k = 0 THEN {} ELSE Freed(f[k - 1], nodes, E) BY <1>1, <1>6, <1>7
  <2> QED BY <1>6, <2>1
<1>9. Eq(f) BY <1>8
<1> HIDE DEF Eq
<1>10. PICK g : g = (CHOOSE h : Eq(h)) OBVIOUS
<1>11. Eq(g) BY <1>9, <1>10
<1>12. g = [k \in 0 .. n |-> IF k = 0 THEN {} ELSE Freed(g[k - 1], nodes, E)] BY <1>11 DEF Eq
<1>13. g[0] = {} /\ \A k \in 1 .. n : g[k] = Freed(g[k - 1], nodes, E)
  <2> DEFINE G(k) == Freed(g[k - 1], nodes, E)
  <2> HIDE DEF G
  <2>1. g = [k \in 0 .. n |-> IF k = 0 THEN {} ELSE G(k)] BY <1>12 DEF G
  <2>2. g[0] = {} /\ \A k \in 1 .. n : g[k] = G(k)
    <3>1. 0 \in 0 .. n /\ \A k \in 1 .. n : k \in 0 .. n /\ k # 0 BY <1>1
    <3> QED BY <2>1, <3>1
  <2> QED BY <2>2 DEF G
<1>14. \A k \in 0 .. n : g[k] \in SUBSET nodes
  <2> SUFFICES ASSUME NEW k \in 0 .. n PROVE g[k] \in SUBSET nodes OBVIOUS
  <2>1. k = 0 \/ k \in 1 .. n BY <1>1
  <2> QED BY <1>13, <2>1 DEF Freed
<1>15. ContainsCycle(nodes, E) <=> g[n] # nodes BY <1>4, <1>10
<1>16. Kahn(g, nodes, E) BY <1>13, <1>14, <1>15 DEF Kahn, n
<1> QED BY <1>16

\* What is freed stays freed, and every round frees a node until nothing changes.
LEMMA KahnGrows ==
  ASSUME NEW nodes, IsFiniteSet(nodes), NEW E, NEW v, Kahn(v, nodes, E)
  PROVE LET n == Cardinality(nodes)
        IN  /\ n \in Nat
            /\ \A k \in 1 .. n : v[k - 1] \subseteq v[k]
            /\ v[n] = nodes \/ Freed(v[n], nodes, E) = v[n]
<1> DEFINE n == Cardinality(nodes)
           Free(A) == Freed(A, nodes, E)
<1>1. n \in Nat BY FS_CardinalityType
<1>2. /\ v[0] = {} /\ \A k \in 1 .. n : v[k] = Free(v[k - 1])
      /\ \A k \in 0 .. n : v[k] \in SUBSET nodes
  BY DEF Kahn
<1>3. \A A, B : A \subseteq B => Free(A) \subseteq Free(B) BY DEF Freed
<1> HIDE DEF n, Free
<1>4. \A k \in 0 .. n : k = 0 \/ v[k - 1] \subseteq v[k]
  <2> DEFINE T == {k \in 0 .. n : k = 0 \/ v[k - 1] \subseteq v[k]}
  <2>1. 0 \in T BY <1>1
  <2>2. ASSUME NEW k \in 1 .. n, k - 1 \in T PROVE k \in T
    <3>1. CASE k = 1 BY <1>2, <3>1
    <3>2. CASE k # 1
      <4>1. k - 1 \in 1 .. n /\ k - 1 # 0 /\ (k - 1) - 1 = k - 2 BY <1>1, <3>2
      <4>2. v[k - 2] \subseteq v[k - 1] BY <2>2, <4>1
      <4>3. v[k - 1] = Free(v[k - 2]) /\ v[k] = Free(v[k - 1]) BY <1>2, <4>1
      <4>4. Free(v[k - 2]) \subseteq Free(v[k - 1]) BY <1>3, <4>2
      <4> QED BY <4>3, <4>4
    <3> QED BY <3>1, <3>2
  <2> HIDE DEF T
  <2>3. \A k \in 0 .. n : k \in T BY <1>1, <2>1, <2>2, Upwards
  <2> QED BY <2>3 DEF T
<1>5. \A k \in 1 .. n : v[k - 1] \subseteq v[k] BY <1>1, <1>4
<1>6. \A k \in 0 .. n : IsFiniteSet(v[k]) /\ Cardinality(v[k]) \in Nat BY <1>2, FS_Subset, FS_CardinalityType
<1> DEFINE Late(k) == Free(v[k]) = v[k] \/ Cardinality(v[k]) >= k
<1>7. \A k \in 0 .. n : Late(k)
  <2> DEFINE T == {k \in 0 .. n : Late(k)}
  <2>1. 0 \in T BY <1>1, <1>6
  <2>2. ASSUME NEW k \in 1 .. n, k - 1 \in T PROVE k \in T
    <3>1. v[k] = Free(v[k - 1]) /\ v[k - 1] \in SUBSET v[k] /\ k - 1 \in 0 .. n BY <1>1, <1>2, <1>5
    <3>2. CASE Free(v[k - 1]) = v[k - 1] BY <3>1, <3>2
    <3>3. CASE v[k] # v[k - 1]
      <4>1. Cardinality(v[k - 1]) >= k - 1 BY <2>2, <3>1, <3>3
      <4>2. Cardinality(v[k - 1]) # Cardinality(v[k]) /\ Cardinality(v[k - 1]) <= Cardinality(v[k])
        BY <1>6, <3>1, <3>3, FS_Subset
      <4>3. Cardinality(v[k]) \in Nat /\ Cardinality(v[k - 1]) \in Nat BY <1>6, <3>1
      <4>4. Cardinality(v[k]) >= k BY <4>1, <4>2, <4>3
      <4> QED BY <4>4
    <3> QED BY <3>1, <3>2, <3>3
  <2> HIDE DEF T
  <2>3. \A k \in 0 .. n : k \in T BY <1>1, <2>1, <2>2, Upwards
  <2> QED BY <2>3 DEF T
<1>8. v[n] = nodes \/ Free(v[n]) = v[n]
  <2>1. n \in 0 .. n BY <1>1
  <2>2. ASSUME Cardinality(v[n]) >= n PROVE v[n] = nodes
    <3>1. v[n] \in SUBSET nodes /\ Cardinality(v[n]) \in Nat BY <1>2, <1>6, <2>1
    <3>2. Cardinality(v[n]) <= n /\ (n = Cardinality(v[n]) => nodes = v[n]) BY <3>1, FS_Subset DEF n
    <3> QED BY <1>1, <2>2, <3>1, <3>2
  <2> QED BY <1>7, <2>1, <2>2
<1> QED BY <1>1, <1>5, <1>8 DEF n, Free

\* Some nodes each have a predecessor among themselves.
Cyclic(nodes, E) ==
  \E S \in (SUBSET nodes) \ {{}} : \A n \in S : \E e \in Into(E, n) : e.from \in S

\* _contains_cycle finds a cycle when, and only when, there is one.
LEMMA CycleCheckExact ==
  ASSUME NEW nodes, IsFiniteSet(nodes), NEW E, \A e \in E : e.from \in nodes
  PROVE ContainsCycle(nodes, E) <=> Cyclic(nodes, E)
<1> DEFINE n == Cardinality(nodes)
<1>1. PICK v : Kahn(v, nodes, E) BY KahnRounds
<1>2. /\ n \in Nat
      /\ v[n] = nodes \/ Freed(v[n], nodes, E) = v[n]
  BY <1>1, KahnGrows
<1>3. /\ v[0] = {} /\ \A k \in 1 .. n : v[k] = Freed(v[k - 1], nodes, E)
      /\ \A k \in 0 .. n : v[k] \in SUBSET nodes
      /\ ContainsCycle(nodes, E) <=> v[n] # nodes
  BY <1>1 DEF Kahn
<1> HIDE DEF n
<1>4. ASSUME NEW S \in SUBSET nodes, S # {}, \A m \in S : \E e \in Into(E, m) : e.from \in S
      PROVE v[n] # nodes
  <2> DEFINE T == {k \in 0 .. n : v[k] \cap S = {}}
  <2>1. 0 \in T BY <1>2, <1>3
  <2>2. ASSUME NEW k \in 1 .. n, k - 1 \in T PROVE k \in T
    <3>1. v[k] = Freed(v[k - 1], nodes, E) /\ v[k - 1] \cap S = {} BY <1>3, <2>2
    <3>2. v[k] \cap S = {} BY <1>4, <3>1 DEF Freed
    <3> QED BY <3>2
  <2>3. n \in 0 .. n BY <1>2
  <2> HIDE DEF T
  <2>4. n \in T BY <1>2, <2>1, <2>2, <2>3, Upwards
  <2>5. v[n] \cap S = {} BY <2>4 DEF T
  <2> QED BY <1>4, <2>5
<1>5. ASSUME v[n] # nodes PROVE Cyclic(nodes, E)
  <2> DEFINE S == nodes \ v[n]
  <2>1. n \in 0 .. n BY <1>2
  <2>2. v[n] \in SUBSET nodes /\ Freed(v[n], nodes, E) = v[n] BY <1>2, <1>3, <1>5, <2>1
  <2>3. S \in (SUBSET nodes) \ {{}} BY <1>5, <2>2
  <2>4. ASSUME NEW m \in S PROVE \E e \in Into(E, m) : e.from \in S
    <3>1. m \in nodes /\ m \notin Freed(v[n], nodes, E) BY <2>2
    <3>2. PICK e \in Into(E, m) : e.from \notin v[n] BY <3>1 DEF Freed
    <3> QED BY <3>2 DEF Into
  <2> QED BY <2>3, <2>4 DEF Cyclic
<1>6. Cyclic(nodes, E) => v[n] # nodes BY <1>4 DEF Cyclic
<1> QED BY <1>3, <1>5, <1>6

-------------------------------------------------------------------------------
(* _dominators.  A sweep may change a node before or after the nodes it leads   *)
(* to, so the sets shrink at different times; two facts hold all along: a node   *)
(* keeps what is on every path to it, and after the k-th sweep a node that is k   *)
(* edges from a root, x avoided, has lost x.                                     *)

Prior(E, m) == {e.from : e \in Into(E, m)}
Preds(N, E) == [m \in N |-> Prior(E, m)]
RootsOf(N, E) == {m \in N : Into(E, m) = {}}
Avoiding(x, E) == {e \in E : x \notin {e.from, e.to}}
Around(x, N, E) == Closure(RootsOf(N, E) \ {x}, Avoiding(x, E))

DrawnGraph(N, E) ==
  /\ IsFiniteSet(N) /\ IsFiniteSet(E) /\ InOrder(N)
  /\ \A e \in E : e.from \in N /\ e.to \in N

\* What may be said of a node while the sweeps go on.
Tables(N) == [N -> SUBSET N]

FirstTable(N, E) == [m \in N |-> IF Preds(N, E)[m] = {} THEN {m} ELSE N]

\* A node is redone from its predecessors, the rest stays.
LEMMA RedoneFacts ==
  ASSUME NEW N, NEW E, \A e \in E : e.from \in N, NEW d \in Tables(N), NEW m
  PROVE /\ Redone(d, m, Preds(N, E)) \in Tables(N)
        /\ \A k \in N : k # m \/ Into(E, k) = {} => Redone(d, m, Preds(N, E))[k] = d[k]
        /\ m \in N /\ Into(E, m) # {} =>
             \A x \in N : x \in Redone(d, m, Preds(N, E))[m]
                            <=> x = m \/ \A e \in Into(E, m) : x \in d[e.from]
<1> DEFINE preds == Preds(N, E)
           C == Common(d, preds[m])
           r == Redone(d, m, preds)
<1>1. DOMAIN d = N /\ \A k \in N : preds[k] = Prior(E, k) BY DEF Tables, Preds
<1>2. CASE m \notin N \/ preds[m] = {}
  <2>1. r = d BY <1>1, <1>2 DEF Redone
  <2>2. m \in N => Into(E, m) = {} BY <1>1, <1>2 DEF Prior
  <2> QED BY <2>1, <2>2
<1>3. CASE m \in N /\ preds[m] # {}
  <2>1. preds[m] = Prior(E, m) BY <1>1, <1>3
  <2>2. \A p \in preds[m] : p \in N BY <2>1 DEF Prior, Into
  <2>3. \A x : x \in C <=> \A p \in preds[m] : x \in d[p] BY <1>3 DEF Common
  <2>4. C \in SUBSET N
    <3>1. PICK p \in preds[m] : TRUE BY <1>3
    <3>2. d[p] \in SUBSET N BY <2>2, <3>1 DEF Tables
    <3> QED BY <2>3, <3>1, <3>2
  <2>5. \A x : x \in C <=> \A e \in Into(E, m) : x \in d[e.from] BY <2>1, <2>3 DEF Prior
  <2>6. r = [d EXCEPT ![m] = {m} \cup C] BY <1>1, <1>3 DEF Redone
  <2> HIDE DEF C, preds, r
  <2>7. r \in Tables(N) BY <1>3, <2>4, <2>6 DEF Tables
  <2>8. r[m] = {m} \cup C /\ \A k \in N : k # m => r[k] = d[k] BY <1>1, <1>3, <2>6
  <2>9. Into(E, m) # {} BY <1>3, <2>1 DEF Prior
  <2>10. \A k \in N : k # m \/ Into(E, k) = {} => r[k] = d[k] BY <2>8, <2>9
  <2>11. \A x \in N : x \in r[m] <=> x = m \/ \A e \in Into(E, m) : x \in d[e.from] BY <2>5, <2>8
  <2> QED BY <2>7, <2>10, <2>11 DEF r, preds
<1> QED BY <1>2, <1>3

Sweep(a, d, N, E) ==
  /\ a \in [0 .. Len(Sorted) -> Tables(N)] /\ a[0] = d
  /\ \A j \in 1 .. Len(Sorted) : a[j] = Redone(a[j - 1], Sorted[j], Preds(N, E))
  /\ Swept(d, Preds(N, E)) = a[Len(Sorted)]

\* One sweep redoes the ids one after the other.
LEMMA SweepSteps ==
  ASSUME NEW N, NEW E, DrawnGraph(N, E), NEW d \in Tables(N)
  PROVE \E a : Sweep(a, d, N, E)
<1> DEFINE n == Len(Sorted)
           D == Tables(N)
           Do(t, j) == Redone(t, Sorted[j], Preds(N, E))
           Eq(g) == g = [j \in 0 .. n |-> IF j = 0 THEN d ELSE Do(g[j - 1], j)]
           F == [p \in (1 .. n) \X D |-> Do(p[2], p[1])]
<1>1. n \in Nat BY DEF DrawnGraph, InOrder
<1>2. IsStep(F, n, D)
  <2>1. \A t \in D, j \in 1 .. n : Do(t, j) \in D BY RedoneFacts DEF DrawnGraph
  <2> HIDE DEF D, Do
  <2> QED BY <2>1 DEF IsStep
<1>3. d \in D OBVIOUS
<1>4. Swept(d, Preds(N, E)) = (CHOOSE g : Eq(g))[n] BY DEF Swept
<1> HIDE DEF n, D, Do
<1>5. PICK f : Unfolds(f, F, n, D, d)
  <2> HIDE DEF F
  <2> QED BY <1>1, <1>2, <1>3, Recursion
<1>6. /\ f \in [0 .. n -> D] /\ f[0] = d
      /\ \A j \in 1 .. n : f[j] = F[<<j, f[j - 1]>>]
  <2> HIDE DEF F
  <2> QED BY <1>5 DEF Unfolds
<1>7. \A j \in 1 .. n : f[j] = Do(f[j - 1], j)
  <2> SUFFICES ASSUME NEW j \in 1 .. n PROVE f[j] = Do(f[j - 1], j) OBVIOUS
  <2>1. j - 1 \in 0 .. n BY <1>1
  <2>2. f[j - 1] \in D BY <1>6, <2>1
  <2>3. <<j, f[j - 1]>> \in (1 .. n) \X D BY <2>2
  <2> QED BY <1>6, <2>3
<1>8. f = [j \in 0 .. n |-> IF j = 0 THEN d ELSE Do(f[j - 1], j)]
  <2>1. \A j \in 0 .. n : f[j] = IF j = 0 THEN d ELSE Do(f[j - 1], j) BY <1>1, <1>6, <1>7
  <2> QED BY <1>6, <2>1
<1>9. Eq(f) BY <1>8
<1> HIDE DEF Eq
<1>10. PICK g : g = (CHOOSE h : Eq(h)) OBVIOUS
<1>11. Eq(g) BY <1>9, <1>10
<1>12. g = [j \in 0 .. n |-> IF j = 0 THEN d ELSE Do(g[j - 1], j)] BY <1>11 DEF Eq
<1>13. g[0] = d /\ \A j \in 1 .. n : g[j] = Do(g[j - 1], j)
  <2>1. 0 \in 0 .. n /\ \A j \in 1 .. n : j \in 0 .. n /\ j # 0 BY <1>1
  <2> QED BY <1>12, <2>1
<1>14. g \in [0 .. n -> D]
  <2> DEFINE T == {j \in 0 .. n : g[j] \in D}
  <2>1. 0 \in T BY <1>1, <1>3, <1>13
  <2>2. ASSUME NEW j \in 1 .. n, j - 1 \in T PROVE j \in T
    <3>1. g[j - 1] \in D /\ j \in 0 .. n BY <1>1, <2>2
    <3>2. Do(g[j - 1], j) \in D
      <4> USE DEF D, Do
      <4> QED BY <3>1, RedoneFacts DEF DrawnGraph
    <3> QED BY <1>13, <3>1, <3>2
  <2> HIDE DEF T
  <2>3. \A j \in 0 .. n : j \in T BY <1>1, <2>1, <2>2, Upwards
  <2> QED BY <1>12, <2>3 DEF T
<1>15. Swept(d, Preds(N, E)) = g[n] BY <1>4, <1>10
<1>16. Sweep(g, d, N, E) BY <1>13, <1>14, <1>15 DEF Sweep, n, D, Do
<1> QED BY <1>16

Dom(d, n, N, E) ==
  /\ d \in [0 .. n -> Tables(N)] /\ d[0] = FirstTable(N, E)
  /\ \A k \in 1 .. n : d[k] = Swept(d[k - 1], Preds(N, E))
  /\ DominatorsAfter(n, N, E) = d[n]

\* Sweep follows on sweep.
LEMMA DominatorSweeps ==
  ASSUME NEW N, NEW E, DrawnGraph(N, E), NEW n \in Nat
  PROVE \E d : Dom(d, n, N, E)
<1> DEFINE D == Tables(N)
           first == FirstTable(N, E)
           Do(t) == Swept(t, Preds(N, E))
           Eq(g) == g = [k \in 0 .. n |-> IF k = 0 THEN first ELSE Do(g[k - 1])]
           F == [p \in (1 .. n) \X D |-> Do(p[2])]
<1>1. \A t \in D : Do(t) \in D
  <2> SUFFICES ASSUME NEW t \in D PROVE Do(t) \in D OBVIOUS
  <2>1. PICK a : Sweep(a, t, N, E) BY SweepSteps
  <2>2. Len(Sorted) \in 0 .. Len(Sorted) BY DEF DrawnGraph, InOrder
  <2> HIDE DEF D
  <2> QED BY <2>1, <2>2 DEF Sweep, D
<1>2. first \in D BY DEF FirstTable, Tables
<1>3. DominatorsAfter(n, N, E) = (CHOOSE g : Eq(g))[n] BY DEF DominatorsAfter, FirstTable, Preds, Prior
<1> HIDE DEF D, Do, first
<1>4. IsStep(F, n, D) BY <1>1 DEF IsStep
<1>5. PICK f : Unfolds(f, F, n, D, first)
  <2> HIDE DEF F
  <2> QED BY <1>2, <1>4, Recursion
<1>6. /\ f \in [0 .. n -> D] /\ f[0] = first
      /\ \A k \in 1 .. n : f[k] = F[<<k, f[k - 1]>>]
  <2> HIDE DEF F
  <2> QED BY <1>5 DEF Unfolds
<1>7. \A k \in 1 .. n : f[k] = Do(f[k - 1])
  <2> SUFFICES ASSUME NEW k \in 1 .. n PROVE f[k] = Do(f[k - 1]) OBVIOUS
  <2>1. k - 1 \in 0 .. n OBVIOUS
  <2>2. f[k - 1] \in D BY <1>6, <2>1
  <2>3. <<k, f[k - 1]>> \in (1 .. n) \X D BY <2>2
  <2> QED BY <1>6, <2>3
<1>8. f = [k \in 0 .. n |-> IF k = 0 THEN first ELSE Do(f[k - 1])]
  <2>1. \A k \in 0 .. n : f[k] = IF k = 0 THEN first ELSE Do(f[k - 1]) BY <1>6, <1>7
  <2> QED BY <1>6, <2>1
<1>9. Eq(f) BY <1>8
<1> HIDE DEF Eq
<1>10. PICK g : g = (CHOOSE h : Eq(h)) OBVIOUS
<1>11. Eq(g) BY <1>9, <1>10
<1>12. g = [k \in 0 .. n |-> IF k = 0 THEN first ELSE Do(g[k - 1])] BY <1>11 DEF Eq
<1>13. g[0] = first /\ \A k \in 1 .. n : g[k] = Do(g[k - 1])
  <2>1. 0 \in 0 .. n /\ \A k \in 1 .. n : k \in 0 .. n /\ k # 0 OBVIOUS
  <2> QED BY <1>12, <2>1
<1>14. g \in [0 .. n -> D]
  <2> DEFINE T == {k \in 0 .. n : g[k] \in D}
  <2>1. 0 \in T BY <1>2, <1>13
  <2>2. ASSUME NEW k \in 1 .. n, k - 1 \in T PROVE k \in T BY <1>1, <1>13, <2>2
  <2> HIDE DEF T
  <2>3. \A k \in 0 .. n : k \in T BY <2>1, <2>2, Upwards
  <2> QED BY <1>12, <2>3 DEF T
<1>15. DominatorsAfter(n, N, E) = g[n] BY <1>3, <1>10
<1>16. Dom(g, n, N, E) BY <1>13, <1>14, <1>15 DEF Dom, D, Do, first
<1> QED BY <1>16

\* No node has lost a node that is on every path to it.
Kept(d, N, E) == \A x, m \in N : x = m \/ m \notin Around(x, N, E) => x \in d[m]

\* A node that is redone keeps what is on every path to it.
LEMMA RedoneKeeps ==
  ASSUME NEW N, NEW E, DrawnGraph(N, E), NEW d \in Tables(N), Kept(d, N, E), NEW m
  PROVE Kept(Redone(d, m, Preds(N, E)), N, E)
<1> DEFINE r == Redone(d, m, Preds(N, E))
<1>1. SUFFICES ASSUME NEW x \in N, NEW k \in N, x = k \/ k \notin Around(x, N, E) PROVE x \in r[k]
  BY DEF Kept
<1>2. x \in d[k] BY <1>1 DEF Kept
<1>3. /\ k # m \/ Into(E, k) = {} => r[k] = d[k]
      /\ k = m /\ Into(E, k) # {} => (x \in r[k] <=> x = k \/ \A e \in Into(E, k) : x \in d[e.from])
  BY RedoneFacts DEF DrawnGraph
<1> HIDE DEF r
<1>4. CASE k # m \/ Into(E, k) = {} BY <1>2, <1>3, <1>4
<1>5. CASE k = m /\ Into(E, k) # {} /\ x # k
  <2>1. ASSUME NEW e \in Into(E, k) PROVE x \in d[e.from]
    <3>1. e \in E /\ e.to = k /\ e.from \in N BY DEF Into, DrawnGraph
    <3>2. CASE e.from = x BY <3>1, <3>2 DEF Kept
    <3>3. CASE e.from # x
      <4>1. e \in Avoiding(x, E) BY <1>5, <3>1, <3>3 DEF Avoiding
      <4>2. IsFiniteSet(Avoiding(x, E)) BY FS_Subset DEF DrawnGraph, Avoiding
      <4>3. Closed(Around(x, N, E), Avoiding(x, E)) BY <4>2, ClosureFacts DEF Around
      <4>4. e.from \notin Around(x, N, E) BY <1>1, <1>5, <3>1, <4>1, <4>3 DEF Closed
      <4> QED BY <3>1, <4>4 DEF Kept
    <3> QED BY <3>2, <3>3
  <2> QED BY <1>3, <1>5, <2>1
<1>6. CASE k = m /\ Into(E, k) # {} /\ x = k BY <1>3, <1>6
<1> QED BY <1>4, <1>5, <1>6

\* So does every node in a sweep.
LEMMA SweepKeeps ==
  ASSUME NEW N, NEW E, DrawnGraph(N, E), NEW d \in Tables(N), Kept(d, N, E)
  PROVE Kept(Swept(d, Preds(N, E)), N, E)
<1> DEFINE n == Len(Sorted)
<1>1. PICK a : Sweep(a, d, N, E) BY SweepSteps
<1>2. n \in Nat BY DEF DrawnGraph, InOrder
<1>3. /\ a[0] = d /\ \A j \in 0 .. n : a[j] \in Tables(N)
      /\ \A j \in 1 .. n : a[j] = Redone(a[j - 1], Sorted[j], Preds(N, E))
      /\ Swept(d, Preds(N, E)) = a[n]
  BY <1>1, <1>2 DEF Sweep
<1> DEFINE T == {j \in 0 .. n : Kept(a[j], N, E)}
<1> HIDE DEF n
<1>4. 0 \in T BY <1>2, <1>3
<1>5. ASSUME NEW j \in 1 .. n, j - 1 \in T PROVE j \in T
  <2>1. Kept(a[j - 1], N, E) /\ j - 1 \in 0 .. n /\ a[j - 1] \in Tables(N) BY <1>2, <1>3, <1>5
  <2>2. Kept(Redone(a[j - 1], Sorted[j], Preds(N, E)), N, E) BY <2>1, RedoneKeeps
  <2>3. Kept(a[j], N, E) BY <1>3, <2>2
  <2> QED BY <1>2, <2>3
<1>6. n \in 0 .. n BY <1>2
<1> HIDE DEF T
<1>7. n \in T BY <1>2, <1>4, <1>5, <1>6, Upwards
<1> QED BY <1>3, <1>7 DEF T

\* x is in none of the sets of A's nodes, and A leads from a root to each of its nodes.
Lost(d, A, x) == \A m \in A : x \notin d[m]

Grounded(A, x, N, E) ==
  /\ A \in SUBSET N /\ x \notin A
  /\ \A m \in A : Into(E, m) = {} \/ \E e \in Avoiding(x, E) : e.to = m /\ e.from \in A

Ahead(A, x, E) == Onward(A, Avoiding(x, E))

\* One edge further is still on a path from a root.
LEMMA AheadGrounded ==
  ASSUME NEW N, NEW E, DrawnGraph(N, E), NEW x, NEW A, Grounded(A, x, N, E)
  PROVE Grounded(Ahead(A, x, E), x, N, E)
BY DEF Grounded, Ahead, Onward, Avoiding, DrawnGraph

\* One sweep takes x out of the sets of the nodes that an edge from A leads to.
LEMMA SweepLoses ==
  ASSUME NEW N, NEW E, DrawnGraph(N, E), NEW d \in Tables(N), NEW x \in N, NEW A,
         Grounded(A, x, N, E), Lost(d, A, x)
  PROVE Lost(Swept(d, Preds(N, E)), Ahead(A, x, E), x)
<1> DEFINE n == Len(Sorted)
           B == Ahead(A, x, E)
           LostUpTo(t, j) == \A m \in B : m \in A \/ m \in {Sorted[i] : i \in 1 .. j} => x \notin t[m]
<1>1. PICK a : Sweep(a, d, N, E) BY SweepSteps
<1>2. n \in Nat BY DEF DrawnGraph, InOrder
<1>3. /\ a[0] = d /\ \A j \in 0 .. n : a[j] \in Tables(N)
      /\ \A j \in 1 .. n : a[j] = Redone(a[j - 1], Sorted[j], Preds(N, E))
      /\ Swept(d, Preds(N, E)) = a[n]
  BY <1>1, <1>2 DEF Sweep
<1>4. Grounded(B, x, N, E) BY AheadGrounded
<1> DEFINE T == {j \in 0 .. n : LostUpTo(a[j], j)}
<1>5. 0 \in T BY <1>2, <1>3 DEF Lost
<1>6. ASSUME NEW j \in 1 .. n, j - 1 \in T PROVE j \in T
  <2>1. j \in 0 .. n /\ j - 1 \in 0 .. n BY <1>2
  <2>2. LostUpTo(a[j - 1], j - 1) BY <1>6
  <2>3. SUFFICES ASSUME NEW m \in B, m \in A \/ m \in {Sorted[i] : i \in 1 .. j} PROVE x \notin a[j][m]
    BY <2>1
  <2>4. m \in A \/ m \in {Sorted[i] : i \in 1 .. j - 1} \/ m = Sorted[j] BY <1>2, <2>3
  <2>5. m \in N /\ m # x BY <1>4 DEF Grounded
  <2>6. /\ m # Sorted[j] \/ Into(E, m) = {} => a[j][m] = a[j - 1][m]
        /\ m = Sorted[j] /\ Into(E, m) # {} =>
             (x \in a[j][m] <=> x = m \/ \A e \in Into(E, m) : x \in a[j - 1][e.from])
    <3>1. a[j - 1] \in Tables(N) /\ a[j] = Redone(a[j - 1], Sorted[j], Preds(N, E)) BY <1>3, <2>1
    <3>2. \A e \in E : e.from \in N BY DEF DrawnGraph
    <3>3. PICK s : s = Sorted[j] OBVIOUS
    <3>4. a[j] = Redone(a[j - 1], s, Preds(N, E)) BY <3>1, <3>3
    <3>5. \A k \in N : k # s \/ Into(E, k) = {} => a[j][k] = a[j - 1][k]
      BY <3>1, <3>2, <3>4, RedoneFacts
    <3>6. s \in N /\ Into(E, s) # {} =>
            \A y \in N : y \in a[j][s] <=> y = s \/ \A e \in Into(E, s) : y \in a[j - 1][e.from]
      <4> DEFINE t == a[j - 1]
      <4>1. t \in Tables(N) BY <3>1
      <4> HIDE DEF t
      <4>2. s \in N /\ Into(E, s) # {} =>
              \A y \in N : y \in Redone(t, s, Preds(N, E))[s]
                             <=> y = s \/ \A e \in Into(E, s) : y \in t[e.from]
        BY <3>2, <4>1, RedoneFacts
      <4> QED BY <3>4, <4>2 DEF t
    <3> QED BY <2>5, <3>3, <3>5, <3>6
  <2>7. CASE m # Sorted[j] BY <2>2, <2>4, <2>6, <2>7
  <2>8. CASE m = Sorted[j] /\ Into(E, m) = {}
    <3>1. m \in A BY <2>8 DEF Ahead, Onward, Avoiding, Into
    <3> QED BY <2>2, <2>6, <2>8, <3>1
  <2>9. CASE m = Sorted[j] /\ Into(E, m) # {}
    <3>1. PICK e \in Avoiding(x, E) : e.to = m /\ e.from \in A
      BY <2>9 DEF Grounded, Ahead, Onward
    <3>2. e \in Into(E, m) /\ e.from \in B BY <3>1 DEF Avoiding, Into, Ahead, Onward
    <3>3. x \notin a[j - 1][e.from] BY <2>2, <3>1, <3>2
    <3> QED BY <2>5, <2>6, <2>9, <3>2, <3>3
  <2> QED BY <2>7, <2>8, <2>9
<1>7. n \in 0 .. n BY <1>2
<1>8. n \in T
  <2> HIDE DEF T, n
  <2> QED BY <1>2, <1>5, <1>6, <1>7, Upwards
<1>9. \A m \in B : m \in {Sorted[i] : i \in 1 .. n} BY <1>4 DEF Grounded, DrawnGraph, InOrder
<1>10. Lost(a[n], B, x) BY <1>8, <1>9 DEF Lost
<1> QED BY <1>3, <1>10

\* The nodes that 0, 1, .. edges lead to from a root, x avoided.
Wave(w, n, x, N, E) ==
  /\ w \in [0 .. n -> SUBSET N] /\ w[0] = RootsOf(N, E) \ {x}
  /\ \A k \in 1 .. n : w[k] = Ahead(w[k - 1], x, E)

\* As many edges as there are nodes are enough.
LEMMA Waves ==
  ASSUME NEW N, NEW E, DrawnGraph(N, E), NEW x
  PROVE \E w : /\ Wave(w, Cardinality(N), x, N, E)
               /\ Around(x, N, E) \subseteq w[Cardinality(N)]
<1> DEFINE n == Cardinality(N)
           D == SUBSET N
           start == RootsOf(N, E) \ {x}
           Beyond(A) == Ahead(A, x, E)
           F == [p \in (1 .. n) \X D |-> Beyond(p[2])]
           V == Avoiding(x, E)
<1>1. n \in Nat BY FS_CardinalityType DEF DrawnGraph
<1>2. \A A \in D : Beyond(A) \in D /\ A \subseteq Beyond(A)
  BY DEF Ahead, Onward, Avoiding, DrawnGraph
<1>3. start \in D BY DEF RootsOf
<1>4. \A A \in D : IsFiniteSet(A) /\ Cardinality(A) \in Nat BY FS_Subset, FS_CardinalityType DEF DrawnGraph
<1>5. \A A : Beyond(A) = A => Closed(A, V) BY DEF Closed, Ahead, Onward
<1>6. \A A \in D : Cardinality(A) >= n => A = N BY <1>1, <1>4, FS_Subset DEF DrawnGraph
<1> HIDE DEF n, D, start, Beyond
<1>7. IsStep(F, n, D) BY <1>2 DEF IsStep
<1>8. PICK w : Unfolds(w, F, n, D, start)
  <2> HIDE DEF F
  <2> QED BY <1>1, <1>3, <1>7, Recursion
<1>9. /\ w \in [0 .. n -> D] /\ w[0] = start
      /\ \A k \in 1 .. n : w[k] = F[<<k, w[k - 1]>>]
  <2> HIDE DEF F
  <2> QED BY <1>8 DEF Unfolds
<1>10. \A k \in 1 .. n : w[k] = Beyond(w[k - 1])
  <2> SUFFICES ASSUME NEW k \in 1 .. n PROVE w[k] = Beyond(w[k - 1]) OBVIOUS
  <2>1. k - 1 \in 0 .. n BY <1>1
  <2>2. w[k - 1] \in D BY <1>9, <2>1
  <2>3. <<k, w[k - 1]>> \in (1 .. n) \X D BY <2>2
  <2> QED BY <1>9, <2>3
<1> DEFINE Late(k) == start \subseteq w[k] /\ (Beyond(w[k]) = w[k] \/ Cardinality(w[k]) >= k)
           T == {k \in 0 .. n : Late(k)}
<1>11. n \in T
  <2>1. 0 \in T
    <3>1. 0 \in 0 .. n BY <1>1
    <3> QED BY <1>3, <1>4, <1>9, <3>1
  <2>2. ASSUME NEW k \in 1 .. n, k - 1 \in T PROVE k \in T
    <3>1. k \in 0 .. n /\ k - 1 \in 0 .. n BY <1>1
    <3>2. w[k] = Beyond(w[k - 1]) /\ w[k - 1] \in D /\ w[k] \in D BY <1>9, <1>10, <3>1
    <3>3. w[k - 1] \subseteq w[k] BY <1>2, <3>2
    <3>4. start \subseteq w[k] BY <2>2, <3>3
    <3>5. CASE w[k] = w[k - 1] BY <3>1, <3>2, <3>4, <3>5
    <3>6. CASE w[k] # w[k - 1]
      <4>1. Cardinality(w[k - 1]) >= k - 1 BY <2>2, <3>2, <3>6
      <4>2. /\ IsFiniteSet(w[k]) /\ w[k - 1] \in SUBSET w[k]
            /\ Cardinality(w[k]) \in Nat /\ Cardinality(w[k - 1]) \in Nat
        BY <1>4, <3>2, <3>3
      <4>3. /\ Cardinality(w[k - 1]) <= Cardinality(w[k])
            /\ Cardinality(w[k]) = Cardinality(w[k - 1]) => w[k] = w[k - 1]
        BY <4>2, FS_Subset
      <4>4. Cardinality(w[k]) >= k BY <1>1, <3>6, <4>1, <4>2, <4>3
      <4> QED BY <3>1, <3>4, <4>4
    <3> QED BY <3>5, <3>6
  <2>3. n \in 0 .. n BY <1>1
  <2> HIDE DEF T
  <2> QED BY <1>1, <2>1, <2>2, <2>3, Upwards
<1>12. w[n] \in D BY <1>1, <1>9
<1>13. Closed(w[n], V) /\ start \subseteq w[n]
  <2>1. CASE Beyond(w[n]) = w[n] BY <1>5, <1>11, <2>1
  <2>2. CASE w[n] = N
    <3>1. Closed(w[n], V) BY <2>2 DEF Closed, DrawnGraph, Avoiding
    <3> QED BY <1>11, <3>1
  <2> QED BY <1>6, <1>11, <1>12, <2>1, <2>2
<1>14. Around(x, N, E) \subseteq w[n]
  <2>1. IsFiniteSet(V) BY FS_Subset DEF DrawnGraph, Avoiding
  <2>2. Around(x, N, E) = Closure(start, V) BY DEF Around, start
  <2> HIDE DEF V
  <2> QED BY <1>13, <2>1, <2>2, ClosureFacts
<1>15. Wave(w, n, x, N, E) BY <1>9, <1>10 DEF Wave, D, start, Beyond
<1> QED BY <1>14, <1>15 DEF n

\* _dominators finds for each node the nodes on every path to it, in as many sweeps as
\* there are nodes and in whatever order they are swept.
LEMMA DominatorsExact ==
  ASSUME NEW N, NEW E, DrawnGraph(N, E), NEW m \in N
  PROVE Dominators(N, E)[m] = {x \in N : x = m \/ m \notin Around(x, N, E)}
<1> DEFINE n == Cardinality(N)
<1>1. n \in Nat BY FS_CardinalityType DEF DrawnGraph
<1>2. PICK d : Dom(d, n, N, E)
  <2> HIDE DEF n
  <2> QED BY <1>1, DominatorSweeps
<1>3. /\ d[0] = FirstTable(N, E) /\ \A k \in 0 .. n : d[k] \in Tables(N)
      /\ \A k \in 1 .. n : d[k] = Swept(d[k - 1], Preds(N, E))
      /\ Dominators(N, E) = d[n]
  BY <1>1, <1>2 DEF Dom, Dominators
<1>4. n \in 0 .. n BY <1>1
<1> HIDE DEF n
<1>5. \A k \in N : d[0][k] = IF Into(E, k) = {} THEN {k} ELSE N
  <2>1. \A k \in N : Preds(N, E)[k] = Prior(E, k) BY DEF Preds
  <2>2. \A k : Prior(E, k) = {} <=> Into(E, k) = {} BY DEF Prior
  <2> QED BY <1>3, <2>1, <2>2 DEF FirstTable
<1>6. Kept(d[n], N, E)
  <2> DEFINE T == {k \in 0 .. n : Kept(d[k], N, E)}
  <2>1. 0 \in T
    <3>1. SUFFICES ASSUME NEW x \in N, NEW k \in N, x = k \/ k \notin Around(x, N, E) PROVE x \in d[0][k]
      BY <1>1 DEF Kept
    <3>2. CASE Into(E, k) = {} /\ x # k
      <4>1. IsFiniteSet(Avoiding(x, E)) BY FS_Subset DEF DrawnGraph, Avoiding
      <4>2. k \in Around(x, N, E) BY <3>2, <4>1, ClosureFacts DEF Around, RootsOf
      <4> QED BY <3>1, <3>2, <4>2
    <3> QED BY <1>5, <3>2
  <2>2. ASSUME NEW k \in 1 .. n, k - 1 \in T PROVE k \in T
    <3>1. k \in 0 .. n /\ k - 1 \in 0 .. n BY <1>1
    <3>2. d[k - 1] \in Tables(N) /\ Kept(d[k - 1], N, E) BY <1>3, <2>2, <3>1
    <3>3. Kept(d[k], N, E) BY <1>3, <3>2, SweepKeeps
    <3> QED BY <3>1, <3>3
  <2> HIDE DEF T
  <2>3. n \in T BY <1>1, <1>4, <2>1, <2>2, Upwards
  <2> QED BY <2>3 DEF T
<1>7. ASSUME NEW x \in N, x # m, m \in Around(x, N, E) PROVE x \notin d[n][m]
  <2>1. PICK w : Wave(w, n, x, N, E) /\ Around(x, N, E) \subseteq w[n] BY Waves DEF n
  <2>2. /\ w[0] = RootsOf(N, E) \ {x} /\ \A k \in 0 .. n : w[k] \in SUBSET N
        /\ \A k \in 1 .. n : w[k] = Ahead(w[k - 1], x, E)
    BY <1>1, <2>1 DEF Wave
  <2> DEFINE T == {k \in 0 .. n : Grounded(w[k], x, N, E) /\ Lost(d[k], w[k], x)}
  <2>3. 0 \in T
    <3>1. 0 \in 0 .. n BY <1>1
    <3>2. Grounded(w[0], x, N, E)
      <4>1. w[0] \in SUBSET N /\ x \notin w[0] BY <2>2, <3>1
      <4>2. \A k \in w[0] : Into(E, k) = {} BY <2>2 DEF RootsOf
      <4> QED BY <4>1, <4>2 DEF Grounded
    <3>3. Lost(d[0], w[0], x) BY <1>5, <2>2 DEF Lost, RootsOf
    <3> QED BY <3>1, <3>2, <3>3
  <2>4. ASSUME NEW k \in 1 .. n, k - 1 \in T PROVE k \in T
    <3>1. k \in 0 .. n /\ k - 1 \in 0 .. n BY <1>1
    <3>2. d[k - 1] \in Tables(N) /\ Grounded(w[k - 1], x, N, E) /\ Lost(d[k - 1], w[k - 1], x)
      BY <1>3, <2>4, <3>1
    <3>3. Lost(d[k], w[k], x) BY <1>3, <2>2, <3>2, SweepLoses
    <3>4. Grounded(w[k], x, N, E) BY <2>2, <3>2, AheadGrounded
    <3> QED BY <3>1, <3>3, <3>4
  <2> HIDE DEF T
  <2>5. n \in T BY <1>1, <1>4, <2>3, <2>4, Upwards
  <2>6. Lost(d[n], w[n], x) BY <2>5 DEF T
  <2> QED BY <1>7, <2>1, <2>6 DEF Lost
<1>8. d[n][m] \in SUBSET N BY <1>3, <1>4 DEF Tables
<1>9. \A x \in N : x \in d[n][m] <=> x = m \/ m \notin Around(x, N, E) BY <1>6, <1>7 DEF Kept
<1> QED BY <1>3, <1>8, <1>9

\* The two fixpoints that the check of a draft rests on are exact, for every draft.
THEOREM GraphChecksAreExact == Spec => []GraphChecksExact
<1>1. StageInv => GraphChecksExact
  <2> SUFFICES ASSUME StageInv, stage = "draft" PROVE GraphChecksExact BY DEF GraphChecksExact
  <2> DEFINE N == Ids(draft)
             E == DraftEdges
  <2>1. E \in SUBSET draft.edges /\ \A e \in E : e.from \in N /\ e.to \in N
    BY DEF DraftEdges, ValidEdges
  <2>2. DrawnGraph(N, E)
    <3>1. IsFiniteSet(E) BY <2>1, FS_Subset DEF StageInv, FiniteDraft
    <3> QED BY <2>1, <3>1 DEF DrawnGraph, StageInv, FiniteDraft
  <2>3. ContainsCycle(N, E) <=> Cyclic(N, E) BY <2>1, <2>2, CycleCheckExact DEF DrawnGraph
  <2>4. ASSUME NEW m \in N
        PROVE Dominators(N, E)[m] = {x \in N : x = m \/ OnEveryPath(x, m)}
    <3>1. \A x : OnEveryPath(x, m) <=> m \notin Around(x, N, E)
      BY DEF OnEveryPath, Around, Roots, RootsOf, Avoiding
    <3> QED BY <2>2, <3>1, DominatorsExact
  <2> QED BY <2>3, <2>4 DEF GraphChecksExact, Cyclic
<1> QED BY <1>1, StageCorrect, PTL

-------------------------------------------------------------------------------
(* Part three: the compiler and the last check agree.  The steps of a chain. *)

\* The chain of a write task that has its tests: where which step stands.
Shaped(x, s) ==
  LET n == Len(s)
  IN  /\ n \in Nat /\ n >= 5 /\ DOMAIN s = 1 .. n
      /\ s[1] = Step("patch_guard", "patch_guard", 0, "none", "none")
      /\ s[n - 2] = Step("risk", "risk_classifier", 0, "none", "none")
      /\ s[n - 1] = Step("approval", "changeset_approval", 0, "none", "none")
      /\ s[n] = Step("merge", "merge_patch", 0, "none", "none")
      /\ IF IsDocsStatic(x)
         THEN n = 5 /\ s[2] = Step("test", "docs_static_test", 0, "docs_static", "none")
         ELSE /\ n = 2 * Len(x.cmds) + 4
              /\ \A k \in 1 .. Len(x.cmds) :
                   /\ s[2 * k] = Step("command_guard", "command_guard", k, "none", "none")
                   /\ s[2 * k + 1] = Step("test", "command_test", k, "command", x.cmds[k])

\* Two sequences in a row.
LEMMA Joined ==
  ASSUME NEW P, NEW a \in Seq(P), NEW b \in Seq(P), NEW c, c = a \o b
  PROVE /\ c \in Seq(P) /\ Len(c) = Len(a) + Len(b)
        /\ \A i \in 1 .. Len(a) : c[i] = a[i]
        /\ \A i \in 1 .. Len(b) : c[Len(a) + i] = b[i]
OBVIOUS

\* _build_chain puts the guard first, the tests next, and risk, approval and merge last.
LEMMA ChainShaped ==
  ASSUME NEW x, Len(x.cmds) \in Nat, x.cmds # <<>> => Len(x.cmds) # 0,
         IsDocsStatic(x) \/ x.cmds # <<>>
  PROVE Shaped(x, ChainSteps(x))
<1> DEFINE guard == Step("patch_guard", "patch_guard", 0, "none", "none")
           risk == Step("risk", "risk_classifier", 0, "none", "none")
           approval == Step("approval", "changeset_approval", 0, "none", "none")
           merge == Step("merge", "merge_patch", 0, "none", "none")
           docs == Step("test", "docs_static_test", 0, "docs_static", "none")
           f == CommandTests(x.cmds)
           m == Len(x.cmds)
           s == ChainSteps(x)
           P == {guard, risk, approval, merge, docs} \cup {f[i] : i \in 1 .. 2 * m}
           H == <<guard>>
           T == <<risk, approval, merge>>
<1>1. /\ f = [i \in 1 .. 2 * m |-> f[i]]
      /\ \A k \in 1 .. m : /\ f[2 * k - 1] = Step("command_guard", "command_guard", k, "none", "none")
                           /\ f[2 * k] = Step("test", "command_test", k, "command", x.cmds[k])
  <2>1. f = [i \in 1 .. 2 * m |-> f[i]] BY DEF CommandTests
  <2> SUFFICES ASSUME NEW k \in 1 .. m
               PROVE /\ f[2 * k - 1] = Step("command_guard", "command_guard", k, "none", "none")
                     /\ f[2 * k] = Step("test", "command_test", k, "command", x.cmds[k])
    BY <2>1
  <2>2. /\ 2 * k - 1 \in 1 .. 2 * m /\ 2 * k \in 1 .. 2 * m
        /\ (2 * k - 1) % 2 = 1 /\ (2 * k) % 2 # 1
        /\ ((2 * k - 1) + 1) \div 2 = k /\ (2 * k + 1) \div 2 = k
    OBVIOUS
  <2> HIDE DEF m
  <2> QED BY <2>2 DEF CommandTests, m
<1>2. s = H \o Tests(x) \o T BY DEF ChainSteps
<1>3. DocsTest = <<docs>> BY DEF DocsTest
<1>4. m \in Nat /\ (IsDocsStatic(x) => Tests(x) = <<docs>>) /\ (~IsDocsStatic(x) => Tests(x) = f /\ m # 0)
  BY <1>3 DEF Tests
<1> HIDE DEF guard, risk, approval, merge, docs, f, m, s
<1>5. /\ guard \in P /\ risk \in P /\ approval \in P /\ merge \in P /\ docs \in P
      /\ \A i \in 1 .. 2 * m : f[i] \in P
  OBVIOUS
<1> HIDE DEF P
<1>6. f \in Seq(P) /\ Len(f) = 2 * m
  <2>1. f \in [1 .. 2 * m -> P] /\ 2 * m \in Nat BY <1>1, <1>4, <1>5
  <2> QED BY <2>1
<1>7. H \in Seq(P) /\ T \in Seq(P) /\ <<docs>> \in Seq(P) BY <1>5
<1>8. Len(H) = 1 /\ H[1] = guard /\ Len(T) = 3 /\ T[1] = risk /\ T[2] = approval /\ T[3] = merge
      /\ Len(<<docs>>) = 1 /\ <<docs>>[1] = docs
  OBVIOUS
<1> HIDE DEF H, T
<1>9. ASSUME NEW U \in Seq(P), s = H \o U \o T
      PROVE LET n == Len(s)
            IN  /\ n \in Nat /\ n = Len(U) + 4 /\ DOMAIN s = 1 .. n /\ s[1] = guard
                /\ s[n - 2] = risk /\ s[n - 1] = approval /\ s[n] = merge
                /\ \A i \in 1 .. Len(U) : s[i + 1] = U[i]
  <2> DEFINE V == H \o U
  <2>1. /\ V \in Seq(P) /\ Len(V) = Len(H) + Len(U)
        /\ \A i \in 1 .. Len(H) : V[i] = H[i]
        /\ \A i \in 1 .. Len(U) : V[Len(H) + i] = U[i]
    BY <1>7, Joined
  <2>2. s = V \o T BY <1>9
  <2> HIDE DEF V
  <2>3. Len(U) \in Nat OBVIOUS
  <2>9. V \in Seq(P) /\ T \in Seq(P) BY <1>7, <2>1
  <2>a. /\ s \in Seq(P) /\ Len(s) = Len(V) + Len(T)
        /\ \A i \in 1 .. Len(V) : s[i] = V[i]
        /\ \A i \in 1 .. Len(T) : s[Len(V) + i] = T[i]
    BY <2>2, <2>9, Joined
  <2>b. Len(V) = Len(U) + 1 /\ V[1] = guard /\ \A i \in 1 .. Len(U) : V[i + 1] = U[i]
    BY <1>8, <2>1, <2>3
  <2>4. s \in Seq(P) /\ Len(s) = Len(V) + 3 /\ \A i \in 1 .. Len(V) : s[i] = V[i]
    BY <1>8, <2>a
  <2>5. s[Len(V) + 1] = risk /\ s[Len(V) + 2] = approval /\ s[Len(V) + 3] = merge
    BY <1>8, <2>a
  <2>6. Len(s) = Len(U) + 4 /\ DOMAIN s = 1 .. Len(s) BY <2>b, <2>3, <2>4
  <2>7. Len(V) + 1 = Len(s) - 2 /\ Len(V) + 2 = Len(s) - 1 /\ Len(V) + 3 = Len(s) BY <2>b, <2>3, <2>4
  <2>8. s[1] = guard /\ \A i \in 1 .. Len(U) : s[i + 1] = U[i] BY <2>b, <2>3, <2>4
  <2> QED BY <2>3, <2>5, <2>6, <2>7, <2>8
<1>10. CASE IsDocsStatic(x)
  <2>1. s = H \o <<docs>> \o T BY <1>2, <1>4, <1>10
  <2>2. /\ Len(s) = 5 /\ DOMAIN s = 1 .. 5 /\ s[1] = guard /\ s[2] = docs
        /\ s[3] = risk /\ s[4] = approval /\ s[5] = merge
    <3> DEFINE U == <<docs>>
    <3>1. 1 \in 1 .. Len(U) /\ Len(U) = 1 /\ U[1] = docs /\ U \in Seq(P) BY <1>7
    <3> HIDE DEF U
    <3>2. s = H \o U \o T BY <2>1 DEF U
    <3>3. /\ Len(s) = Len(U) + 4 /\ DOMAIN s = 1 .. Len(s) /\ s[1] = guard
          /\ s[Len(s) - 2] = risk /\ s[Len(s) - 1] = approval /\ s[Len(s)] = merge
          /\ \A i \in 1 .. Len(U) : s[i + 1] = U[i]
      BY <1>9, <3>1, <3>2
    <3>4. Len(s) = 5 /\ s[2] = docs BY <3>1, <3>3
    <3>5. Len(s) - 2 = 3 /\ Len(s) - 1 = 4 BY <3>4
    <3> HIDE DEF s
    <3> QED BY <3>3, <3>4, <3>5
  <2>3. Shaped(x, s) BY <1>10, <2>2 DEF Shaped, guard, docs, risk, approval, merge
  <2> QED BY <2>3 DEF s
<1>11. CASE ~IsDocsStatic(x)
  <2>1. s = H \o f \o T /\ m # 0 BY <1>2, <1>4, <1>11
  <2>2. /\ Len(s) = 2 * m + 4 /\ DOMAIN s = 1 .. Len(s) /\ s[1] = guard
        /\ s[Len(s) - 2] = risk /\ s[Len(s) - 1] = approval /\ s[Len(s)] = merge
        /\ \A i \in 1 .. 2 * m : s[i + 1] = f[i]
    BY <1>6, <1>9, <2>1
  <2>3. ASSUME NEW k \in 1 .. m PROVE s[2 * k] = f[2 * k - 1] /\ s[2 * k + 1] = f[2 * k]
    <3>1. 2 * k - 1 \in 1 .. 2 * m /\ 2 * k \in 1 .. 2 * m /\ (2 * k - 1) + 1 = 2 * k BY <1>4
    <3>2. s[(2 * k - 1) + 1] = f[2 * k - 1] /\ s[2 * k + 1] = f[2 * k] BY <2>2, <3>1
    <3> QED BY <3>1, <3>2
  <2>4. \A k \in 1 .. m : /\ s[2 * k] = Step("command_guard", "command_guard", k, "none", "none")
                          /\ s[2 * k + 1] = Step("test", "command_test", k, "command", x.cmds[k])
    BY <1>1, <2>3
  <2>5. Shaped(x, s)
    <3>1. Len(s) \in Nat /\ Len(s) >= 5 BY <1>4, <2>1, <2>2
    <3> QED BY <1>11, <2>2, <2>4, <3>1 DEF Shaped, guard, risk, approval, merge, m
  <2> QED BY <2>5 DEF s
<1> QED BY <1>10, <1>11

\* What the check of a chain asks of a step.
KnownStep(x, s, i) ==
  LET n == Len(s)
  IN  /\ s[i].kind \in SystemKinds
      /\ s[i].rule[1] # "author"
      /\ s[i].kind = "patch_guard" <=> i = 1
      /\ s[i].kind = "risk" <=> i = n - 2
      /\ s[i].kind = "approval" <=> i = n - 1
      /\ s[i].kind = "merge" <=> i = n
      /\ IF s[i].kind = "test"
         THEN \/ s[i].test = "command" /\ s[i].argv # "none"
              \/ s[i].test = "docs_static" /\ s[i].argv = "none" /\ IsDocsStatic(x)
         ELSE s[i].test = "none" /\ s[i].argv = "none"

\* What each step of such a chain is, and that no rule occurs twice.
LEMMA ChainKnown ==
  ASSUME NEW x, NEW s, Shaped(x, s), Len(x.cmds) \in Nat, \A k \in 1 .. Len(x.cmds) : x.cmds[k] # "none"
  PROVE /\ Len(s) \in Nat /\ Len(s) >= 5 /\ DOMAIN s = 1 .. Len(s)
        /\ \A i \in 1 .. Len(s) : KnownStep(x, s, i)
        /\ \E i \in 1 .. Len(s) : s[i].kind = "test"
        /\ \A i, j \in 1 .. Len(s) : s[i].rule[1] = s[j].rule[1] /\ s[i].rule[2] = s[j].rule[2] => i = j
        /\ \A i \in 1 .. Len(s) : s[i].rule = <<s[i].rule[1], s[i].rule[2]>>
<1> DEFINE n == Len(s)
           m == Len(x.cmds)
           At1(r) == IF r[1] = "patch_guard" THEN 1
                     ELSE IF r[1] = "risk_classifier" THEN n - 2
                     ELSE IF r[1] = "changeset_approval" THEN n - 1
                     ELSE IF r[1] = "merge_patch" THEN n
                     ELSE IF r[1] = "command_guard" THEN 2 * r[2]
                     ELSE IF r[1] = "command_test" THEN 2 * r[2] + 1 ELSE 2
           Ok(i) == /\ KnownStep(x, s, i) /\ At1(s[i].rule) = i
                    /\ s[i].rule = <<s[i].rule[1], s[i].rule[2]>>
<1>1. n \in Nat /\ n >= 5 /\ DOMAIN s = 1 .. n BY DEF Shaped
<1>2. /\ s[1] = Step("patch_guard", "patch_guard", 0, "none", "none")
      /\ s[n - 2] = Step("risk", "risk_classifier", 0, "none", "none")
      /\ s[n - 1] = Step("approval", "changeset_approval", 0, "none", "none")
      /\ s[n] = Step("merge", "merge_patch", 0, "none", "none")
  BY DEF Shaped
<1>3. IsDocsStatic(x) => n = 5 /\ s[2] = Step("test", "docs_static_test", 0, "docs_static", "none")
  BY DEF Shaped
<1>4. ~IsDocsStatic(x) =>
        /\ n = 2 * m + 4
        /\ \A k \in 1 .. m :
             /\ s[2 * k] = Step("command_guard", "command_guard", k, "none", "none")
             /\ s[2 * k + 1] = Step("test", "command_test", k, "command", x.cmds[k])
  BY DEF Shaped
<1> HIDE DEF n
<1>5. Ok(1)
  <2>1. 1 # n /\ 1 # n - 1 /\ 1 # n - 2 BY <1>1
  <2> QED BY <1>2, <2>1 DEF KnownStep, Step, SystemKinds, n
<1>6. Ok(n - 2)
  <2>1. n - 2 # n /\ n - 2 # n - 1 /\ n - 2 # 1 BY <1>1
  <2> QED BY <1>2, <2>1 DEF KnownStep, Step, SystemKinds, n
<1>7. Ok(n - 1)
  <2>1. n - 1 # n /\ n - 1 # n - 2 /\ n - 1 # 1 BY <1>1
  <2> QED BY <1>2, <2>1 DEF KnownStep, Step, SystemKinds, n
<1>8. Ok(n)
  <2>1. n # n - 1 /\ n # n - 2 /\ n # 1 BY <1>1
  <2> QED BY <1>2, <2>1 DEF KnownStep, Step, SystemKinds, n
<1>9. ASSUME IsDocsStatic(x) PROVE Ok(2)
  <2>1. 2 # n - 1 /\ 2 # n - 2 /\ 2 # 1 /\ 2 # n BY <1>3, <1>9
  <2>2. s[2] = Step("test", "docs_static_test", 0, "docs_static", "none") BY <1>3, <1>9
  <2> QED BY <1>9, <2>1, <2>2 DEF KnownStep, Step, SystemKinds, n
<1>10. ASSUME ~IsDocsStatic(x), NEW k \in 1 .. m PROVE Ok(2 * k) /\ Ok(2 * k + 1)
  <2>1. /\ 2 * k # 1 /\ 2 * k # n /\ 2 * k # n - 1 /\ 2 * k # n - 2
        /\ 2 * k + 1 # 1 /\ 2 * k + 1 # n /\ 2 * k + 1 # n - 1 /\ 2 * k + 1 # n - 2
    BY <1>4, <1>10
  <2>2. Ok(2 * k)
    <3>1. s[2 * k] = Step("command_guard", "command_guard", k, "none", "none") BY <1>4, <1>10
    <3> QED BY <2>1, <3>1 DEF KnownStep, Step, SystemKinds, n
  <2>3. Ok(2 * k + 1)
    <3>1. s[2 * k + 1] = Step("test", "command_test", k, "command", x.cmds[k]) BY <1>4, <1>10
    <3> QED BY <2>1, <3>1 DEF KnownStep, Step, SystemKinds, n
  <2> QED BY <2>2, <2>3
<1> HIDE DEF Ok
<1>11. ASSUME NEW i \in 1 .. n PROVE Ok(i)
  <2>1. CASE IsDocsStatic(x)
    <3>1. i = 1 \/ i = 2 \/ i = n - 2 \/ i = n - 1 \/ i = n BY <1>3, <2>1
    <3> QED BY <1>5, <1>6, <1>7, <1>8, <1>9, <2>1, <3>1
  <2>2. CASE ~IsDocsStatic(x)
    <3>1. PICK k \in Int : i = 2 * k \/ i = 2 * k + 1
      <4>1. i \div 2 \in Int /\ (i = 2 * (i \div 2) \/ i = 2 * (i \div 2) + 1) BY <1>1
      <4> QED BY <4>1
    <3>2. k \in 1 .. m \/ i = 1 \/ i = n - 2 \/ i = n - 1 \/ i = n
      <4>1. n = 2 * m + 4 BY <1>4, <2>2
      <4> HIDE DEF m
      <4>2. m \in Nat BY DEF m
      <4> QED BY <3>1, <4>1, <4>2
    <3> QED BY <1>5, <1>6, <1>7, <1>8, <1>10, <2>2, <3>1, <3>2
  <2> QED BY <2>1, <2>2
<1>12. \E i \in 1 .. n : s[i].kind = "test"
  <2>1. CASE IsDocsStatic(x)
    <3>1. 2 \in 1 .. n /\ s[2].kind = "test" BY <1>3, <2>1 DEF Step
    <3> QED BY <3>1
  <2>2. CASE ~IsDocsStatic(x)
    <3>1. 1 \in 1 .. m /\ 3 \in 1 .. n /\ 3 = 2 * 1 + 1 BY <1>1, <1>4, <2>2
    <3>2. s[2 * 1 + 1] = Step("test", "command_test", 1, "command", x.cmds[1])
      <4> HIDE DEF m
      <4> QED BY <1>4, <2>2, <3>1
    <3>3. s[3].kind = "test" BY <3>1, <3>2 DEF Step
    <3> QED BY <3>1, <3>3
  <2> QED BY <2>1, <2>2
<1>13. ASSUME NEW i \in 1 .. n, NEW j \in 1 .. n, s[i].rule[1] = s[j].rule[1], s[i].rule[2] = s[j].rule[2]
       PROVE i = j
  <2>1. At1(s[i].rule) = i /\ At1(s[j].rule) = j BY <1>11 DEF Ok
  <2> QED BY <1>13, <2>1
<1>14. \A i \in 1 .. n : KnownStep(x, s, i) /\ s[i].rule = <<s[i].rule[1], s[i].rule[2]>> BY <1>11 DEF Ok
<1> QED BY <1>1, <1>12, <1>13, <1>14 DEF n

-------------------------------------------------------------------------------
(* What the injector makes of the nodes and the edges of a valid draft *)

\* The write tasks of a draft, and its output.
Writes(node) == {n \in DOMAIN node : node[n].kind = "write_task"}
Exit(node) == CHOOSE n \in DOMAIN node : node[n].kind = "output"

\* The chain of w, its length, and the id of its i-th node.
Chain(node, w) == ChainSteps(node[w])
Last(node, w) == Len(Chain(node, w))
Place(node, w, i) == SystemId(w, Chain(node, w)[i])

\* The edges of a chain, from the task to whatever follows the merge.
Enter(node, w) == SystemEdge(0, w, "success", Place(node, w, 1))
Pass(node, w, i) == SystemEdge(i, Place(node, w, i), Happy(Chain(node, w)[i].kind), Place(node, w, i + 1))
Fail(node, w, i) == SystemEdge(i, Place(node, w, i), Unhappy(Chain(node, w)[i].kind), Exit(node))
Resumes(node, edges, w) == ResumeEdges(Place(node, w, Last(node, w)), SuccessEdges(edges, w), Exit(node))

\* The edges of the draft that no chain takes the place of.
Untouched(node, edges) == {e \in edges : ~(e.from \in Writes(node) /\ e.cond = "success")}

\* The nodes and edges of a valid draft, every write task with its tests.
Sealable(node, edges) ==
  /\ IsFiniteSet(DOMAIN node) /\ IsFiniteSet(edges)
  /\ \A n \in DOMAIN node :
       /\ n = <<n[1], "author", 0>> /\ n # NoNode
       /\ node[n].kind \notin SystemKinds /\ node[n].source = NoNode
  /\ \A w \in Writes(node) :
       LET s == Chain(node, w)
       IN  /\ Len(s) \in Nat /\ Len(s) >= 5 /\ DOMAIN s = 1 .. Len(s)
           /\ \A i \in 1 .. Len(s) : KnownStep(node[w], s, i)
           /\ \A i, j \in 1 .. Len(s) : s[i].rule[1] = s[j].rule[1] /\ s[i].rule[2] = s[j].rule[2] => i = j
  /\ \A e \in edges :
       /\ e = [id |-> e.id, from |-> e.from, to |-> e.to, cond |-> e.cond, sys |-> FALSE]
       /\ e.from \in DOMAIN node /\ e.to \in DOMAIN node
  /\ Exit(node) \in DOMAIN node /\ \A n \in DOMAIN node : node[n].kind = "output" <=> n = Exit(node)

\* The ids of all chains, and the edges of one.
Places(node) == UNION {{Place(node, w, i) : i \in 1 .. Last(node, w)} : w \in Writes(node)}

ChainLinks(node, edges, w) ==
  {Enter(node, w)} \cup {Pass(node, w, i) : i \in 1 .. Last(node, w) - 1}
  \cup {Fail(node, w, i) : i \in 1 .. Last(node, w)} \cup Resumes(node, edges, w)

\* g has the draft's nodes and the chains, no id twice, and the edges of both.
Woven(g, node, edges) ==
  /\ Ids(g) = DOMAIN node \cup Places(node)
  /\ \A n \in DOMAIN node : g.node[n] = node[n]
  /\ \A w \in Writes(node) : \A i \in 1 .. Last(node, w) :
       /\ Place(node, w, i) \notin DOMAIN node
       /\ g.node[Place(node, w, i)] = ChainNode(w, node[w], Chain(node, w)[i])
       /\ \A v \in Writes(node) : \A j \in 1 .. Last(node, v) :
            Place(node, w, i) = Place(node, v, j) => w = v /\ i = j
  /\ g.edges = Untouched(node, edges) \cup UNION {ChainLinks(node, edges, w) : w \in Writes(node)}

\* The injector adds the chains, and the chains are apart from each other and the draft.
LEMMA Weaving ==
  ASSUME NEW node, NEW edges, Sealable(node, edges)
  PROVE Woven(Inject(node, edges), node, edges)
<1> DEFINE W == Writes(node)
           N == DOMAIN node
           g == Inject(node, edges)
           a(w, s) == [id |-> SystemId(w, s), is |-> ChainNode(w, node[w], s)]
           added == UNION {{a(w, s) : s \in StepsOf(node[w])} : w \in W}
           ids == N \cup {x.id : x \in added}
           made == [n \in ids |-> IF n \in N THEN node[n] ELSE (CHOOSE x \in added : x.id = n).is]
           E == (edges \ Replaced(edges, W))
                 \cup UNION {ChainEdges(w, node[w], SuccessEdges(edges, w), Exit(node)) : w \in W}
<1>1. g = [node |-> made, edges |-> E] BY DEF Inject, Writes, Exit
<1>2. \A w \in W : /\ w \in N /\ w = <<w[1], "author", 0>>
                   /\ Last(node, w) \in Nat /\ Last(node, w) >= 5 /\ DOMAIN Chain(node, w) = 1 .. Last(node, w)
  BY DEF Sealable, Writes, Last
<1>3. ASSUME NEW w \in W, NEW i \in 1 .. Last(node, w)
      PROVE Place(node, w, i) = <<w[1], Chain(node, w)[i].rule[1], Chain(node, w)[i].rule[2]>>
  BY DEF Place, SystemId
<1>4. ASSUME NEW w \in W, NEW i \in 1 .. Last(node, w) PROVE Place(node, w, i) \notin N
  <2>1. Chain(node, w)[i].rule[1] # "author" BY DEF Sealable, KnownStep, Last
  <2>2. Place(node, w, i)[2] # "author" BY <1>3, <2>1
  <2>3. \A n \in N : n[2] = "author"
    <3>1. \A n \in N : n = <<n[1], "author", 0>> BY DEF Sealable
    <3> QED BY <3>1
  <2> QED BY <2>2, <2>3
<1>5. ASSUME NEW w \in W, NEW i \in 1 .. Last(node, w), NEW v \in W, NEW j \in 1 .. Last(node, v),
             Place(node, w, i) = Place(node, v, j)
      PROVE w = v /\ i = j
  <2>1. /\ w[1] = v[1]
        /\ Chain(node, w)[i].rule[1] = Chain(node, v)[j].rule[1]
        /\ Chain(node, w)[i].rule[2] = Chain(node, v)[j].rule[2]
    BY <1>3, <1>5
  <2>2. w = v
    <3>1. w = <<w[1], "author", 0>> /\ v = <<v[1], "author", 0>> BY <1>2
    <3> QED BY <2>1, <3>1
  <2>3. i = j
    <3>1. \A k, l \in 1 .. Last(node, w) :
            Chain(node, w)[k].rule[1] = Chain(node, w)[l].rule[1]
            /\ Chain(node, w)[k].rule[2] = Chain(node, w)[l].rule[2] => k = l
      BY DEF Sealable, Last
    <3> QED BY <2>1, <2>2, <3>1
  <2> QED BY <2>2, <2>3
<1>6. ASSUME NEW x \in added
      PROVE \E w \in W : \E i \in 1 .. Last(node, w) :
              x.id = Place(node, w, i) /\ x.is = ChainNode(w, node[w], Chain(node, w)[i])
  <2>1. PICK w \in W : x \in {a(w, s) : s \in StepsOf(node[w])} OBVIOUS
  <2>2. PICK s \in StepsOf(node[w]) : x = a(w, s) BY <2>1
  <2>3. PICK i \in 1 .. Last(node, w) : s = Chain(node, w)[i]
    <3>1. DOMAIN Chain(node, w) = 1 .. Last(node, w) BY <1>2
    <3> QED BY <3>1 DEF StepsOf, Chain
  <2> QED BY <2>2, <2>3 DEF Place
<1>7. ASSUME NEW w \in W, NEW i \in 1 .. Last(node, w)
      PROVE \E x \in added : x.id = Place(node, w, i)
  <2>1. Chain(node, w)[i] \in StepsOf(node[w])
    <3>1. DOMAIN Chain(node, w) = 1 .. Last(node, w) BY <1>2
    <3> QED BY <3>1 DEF StepsOf, Chain
  <2>2. a(w, Chain(node, w)[i]) \in added /\ a(w, Chain(node, w)[i]).id = Place(node, w, i)
    BY <2>1 DEF Place
  <2> QED BY <2>2
<1> HIDE DEF W, added
<1>8. ids = N \cup Places(node)
  <2>1. {x.id : x \in added} \subseteq Places(node) BY <1>6 DEF Places, W
  <2>2. Places(node) \subseteq {x.id : x \in added}
    <3> SUFFICES ASSUME NEW w \in W, NEW i \in 1 .. Last(node, w)
                 PROVE Place(node, w, i) \in {x.id : x \in added}
      BY DEF Places, W
    <3> QED BY <1>7
  <2> QED BY <2>1, <2>2
<1>9. ASSUME NEW w \in W, NEW i \in 1 .. Last(node, w)
      PROVE made[Place(node, w, i)] = ChainNode(w, node[w], Chain(node, w)[i])
  <2> DEFINE p == Place(node, w, i)
             c == CHOOSE x \in added : x.id = p
  <2>1. p \in ids /\ p \notin N BY <1>4, <1>8 DEF Places, W
  <2>2. c \in added /\ c.id = p BY <1>7
  <2>3. made[p] = c.is BY <2>1
  <2> HIDE DEF c
  <2>6. PICK v \in W : \E j \in 1 .. Last(node, v) :
          c.id = Place(node, v, j) /\ c.is = ChainNode(v, node[v], Chain(node, v)[j])
    BY <1>6, <2>2
  <2>4. PICK j \in 1 .. Last(node, v) :
          c.id = Place(node, v, j) /\ c.is = ChainNode(v, node[v], Chain(node, v)[j])
    BY <2>6
  <2>5. v = w /\ j = i
    <3>1. Place(node, w, i) = Place(node, v, j) BY <2>2, <2>4
    <3> QED BY <1>5, <3>1
  <2> QED BY <2>3, <2>4, <2>5
<1>10. \A n \in N : made[n] = node[n] OBVIOUS
<1>11. E = Untouched(node, edges) \cup UNION {ChainLinks(node, edges, w) : w \in W}
  <2>1. edges \ Replaced(edges, W) = Untouched(node, edges) BY DEF Replaced, SuccessEdges, Out, Untouched, W
  <2>2. ASSUME NEW w \in W
        PROVE ChainEdges(w, node[w], SuccessEdges(edges, w), Exit(node)) = ChainLinks(node, edges, w)
    <3> DEFINE s == Chain(node, w)
               n == Last(node, w)
               id == [i \in DOMAIN s |-> SystemId(w, s[i])]
    <3>1. n \in Nat /\ n >= 5 /\ DOMAIN s = 1 .. n BY <1>2
    <3>2. \A i \in 1 .. n : id[i] = Place(node, w, i) BY <3>1 DEF Place
    <3>3. ChainEdges(w, node[w], SuccessEdges(edges, w), Exit(node)) =
            {SystemEdge(0, w, "success", id[1])}
            \cup {SystemEdge(i, id[i], Happy(s[i].kind), id[i + 1]) : i \in 1 .. n - 1}
            \cup {SystemEdge(i, id[i], Unhappy(s[i].kind), Exit(node)) : i \in DOMAIN s}
            \cup ResumeEdges(id[n], SuccessEdges(edges, w), Exit(node))
      BY DEF ChainEdges, Chain, Last
    <3> HIDE DEF id, s, n
    <3>4. 1 \in 1 .. n /\ n \in 1 .. n /\ \A i \in 1 .. n - 1 : i \in 1 .. n /\ i + 1 \in 1 .. n BY <3>1
    <3>5. {SystemEdge(i, id[i], Happy(s[i].kind), id[i + 1]) : i \in 1 .. n - 1}
            = {Pass(node, w, i) : i \in 1 .. n - 1}
      <4>1. \A i \in 1 .. n - 1 : SystemEdge(i, id[i], Happy(s[i].kind), id[i + 1]) = Pass(node, w, i)
        BY <3>2, <3>4 DEF Pass, s
      <4> QED BY <4>1
    <3>6. {SystemEdge(i, id[i], Unhappy(s[i].kind), Exit(node)) : i \in DOMAIN s}
            = {Fail(node, w, i) : i \in 1 .. n}
      <4>1. \A i \in 1 .. n : SystemEdge(i, id[i], Unhappy(s[i].kind), Exit(node)) = Fail(node, w, i)
        BY <3>2 DEF Fail, s
      <4> QED BY <3>1, <4>1
    <3>7. /\ SystemEdge(0, w, "success", id[1]) = Enter(node, w)
          /\ ResumeEdges(id[n], SuccessEdges(edges, w), Exit(node)) = Resumes(node, edges, w)
      BY <3>2, <3>4 DEF Enter, Resumes, n
    <3> QED BY <3>3, <3>5, <3>6, <3>7 DEF ChainLinks, n
  <2> DEFINE J(w) == ChainEdges(w, node[w], SuccessEdges(edges, w), Exit(node))
  <2>3. \A w \in W : J(w) = ChainLinks(node, edges, w) BY <2>2
  <2>4. E = (edges \ Replaced(edges, W)) \cup UNION {J(w) : w \in W} OBVIOUS
  <2> HIDE DEF J, E
  <2> QED BY <2>1, <2>3, <2>4
<1>12. g.node = made /\ g.edges = E /\ Ids(g) = ids BY <1>1 DEF Ids
<1> HIDE DEF g, made, E, ids
<1> QED BY <1>4, <1>5, <1>8, <1>9, <1>10, <1>11, <1>12 DEF Woven, W, g

\* The success edge of a merge to where f led from its task, and to the output if
\* nothing followed the task.
Resumed(node, w, f) == SystemEdge(f.id, Place(node, w, Last(node, w)), "success", f.to)
Ends(node, w) == SystemEdge(0, Place(node, w, Last(node, w)), "success", Exit(node))

\* What the lemmas below are about: g is what the injector made of node and edges.
Sewn(g, node, edges) == Sealable(node, edges) /\ Woven(g, node, edges)

\* Where the chain of a write task stands.
LEMMA PlaceFacts ==
  ASSUME NEW g, NEW node, NEW edges, Sewn(g, node, edges), NEW w \in Writes(node)
  PROVE /\ w \in DOMAIN node /\ w \in Ids(g) /\ g.node[w] = node[w] /\ w # NoNode
        /\ node[w].kind = "write_task"
        /\ Last(node, w) \in Nat /\ Last(node, w) >= 5
        /\ \A i \in 1 .. Last(node, w) :
             /\ Place(node, w, i) \in Ids(g) /\ Place(node, w, i) \notin DOMAIN node
             /\ g.node[Place(node, w, i)] = ChainNode(w, node[w], Chain(node, w)[i])
             /\ KnownStep(node[w], Chain(node, w), i)
<1>1. w \in DOMAIN node /\ node[w].kind = "write_task" BY DEF Writes
<1>2. w \in Ids(g) /\ g.node[w] = node[w] BY <1>1 DEF Sewn, Woven
<1>3. w # NoNode BY <1>1 DEF Sewn, Sealable
<1>4. /\ Last(node, w) \in Nat /\ Last(node, w) >= 5
      /\ \A i \in 1 .. Last(node, w) : KnownStep(node[w], Chain(node, w), i)
  BY DEF Sewn, Sealable, Last
<1>5. ASSUME NEW i \in 1 .. Last(node, w)
      PROVE /\ Place(node, w, i) \in Ids(g) /\ Place(node, w, i) \notin DOMAIN node
            /\ g.node[Place(node, w, i)] = ChainNode(w, node[w], Chain(node, w)[i])
  <2>1. Place(node, w, i) \in Places(node) BY DEF Places
  <2> QED BY <2>1 DEF Sewn, Woven
<1> QED BY <1>1, <1>2, <1>3, <1>4, <1>5

\* A node of g is the draft's or stands in a chain.
LEMMA NodeCases ==
  ASSUME NEW g, NEW node, NEW edges, Sewn(g, node, edges), NEW n \in Ids(g)
  PROVE \/ n \in DOMAIN node /\ g.node[n] = node[n]
        \/ \E w \in Writes(node) : \E i \in 1 .. Last(node, w) : n = Place(node, w, i)
<1>1. n \in DOMAIN node \cup Places(node) BY DEF Sewn, Woven
<1>2. CASE n \in DOMAIN node BY <1>2 DEF Sewn, Woven
<1>3. CASE n \in Places(node) BY <1>3 DEF Places
<1> QED BY <1>1, <1>2, <1>3

\* The kinds of the draft's nodes are no system kinds, those of a chain are.
LEMMA KindCases ==
  ASSUME NEW g, NEW node, NEW edges, Sewn(g, node, edges)
  PROVE /\ \A k : k \notin SystemKinds => KindNodes(g, k) = {n \in DOMAIN node : node[n].kind = k}
        /\ KindNodes(g, "write_task") = Writes(node)
        /\ \A n \in DOMAIN node : n \in Ids(g) /\ g.node[n] = node[n] /\ ~IsSystem(g, n)
        /\ \A w \in Writes(node) : \A i \in 1 .. Last(node, w) : IsSystem(g, Place(node, w, i))
        /\ \A w \in Writes(node) : SystemOf(g, w) = {Place(node, w, i) : i \in 1 .. Last(node, w)}
<1>1. \A n \in DOMAIN node : n \in Ids(g) /\ g.node[n] = node[n] /\ node[n].kind \notin SystemKinds
                             /\ node[n].source = NoNode
  BY DEF Sewn, Woven, Sealable
<1>2. \A n \in DOMAIN node : ~IsSystem(g, n) BY <1>1 DEF IsSystem
<1>3. ASSUME NEW w \in Writes(node), NEW i \in 1 .. Last(node, w)
      PROVE /\ g.node[Place(node, w, i)].kind \in SystemKinds /\ g.node[Place(node, w, i)].source = w
            /\ Place(node, w, i) \in Ids(g)
  <2>1. /\ g.node[Place(node, w, i)] = ChainNode(w, node[w], Chain(node, w)[i])
        /\ KnownStep(node[w], Chain(node, w), i) /\ Place(node, w, i) \in Ids(g)
    BY PlaceFacts
  <2> QED BY <2>1 DEF ChainNode, KnownStep
<1>4. ASSUME NEW k, k \notin SystemKinds PROVE KindNodes(g, k) = {n \in DOMAIN node : node[n].kind = k}
  <2>1. ASSUME NEW n \in KindNodes(g, k) PROVE n \in DOMAIN node /\ node[n].kind = k
    <3>1. n \in Ids(g) /\ g.node[n].kind = k BY DEF KindNodes
    <3> QED BY <1>3, <1>4, <3>1, NodeCases
  <2>2. ASSUME NEW n \in DOMAIN node, node[n].kind = k PROVE n \in KindNodes(g, k)
    BY <1>1, <2>2 DEF KindNodes
  <2> QED BY <2>1, <2>2
<1>5. KindNodes(g, "write_task") = Writes(node)
  <2>1. "write_task" \notin SystemKinds BY DEF SystemKinds
  <2> QED BY <1>4, <2>1 DEF Writes
<1>6. ASSUME NEW w \in Writes(node)
      PROVE SystemOf(g, w) = {Place(node, w, i) : i \in 1 .. Last(node, w)}
  <2>1. ASSUME NEW n \in SystemOf(g, w) PROVE n \in {Place(node, w, i) : i \in 1 .. Last(node, w)}
    <3>1. n \in Ids(g) /\ g.node[n].source = w BY DEF SystemOf
    <3>2. w # NoNode BY PlaceFacts
    <3>3. n \notin DOMAIN node BY <1>1, <3>1, <3>2
    <3>4. PICK v \in Writes(node) : \E i \in 1 .. Last(node, v) : n = Place(node, v, i)
      BY <3>1, <3>3, NodeCases
    <3>5. v = w BY <1>3, <3>1, <3>4
    <3> QED BY <3>4, <3>5
  <2>2. {Place(node, w, i) : i \in 1 .. Last(node, w)} \subseteq SystemOf(g, w) BY <1>3 DEF SystemOf
  <2> QED BY <2>1, <2>2
<1>7. \A w \in Writes(node) : \A i \in 1 .. Last(node, w) : IsSystem(g, Place(node, w, i)) BY <1>3 DEF IsSystem
<1> QED BY <1>1, <1>2, <1>4, <1>5, <1>6, <1>7

\* The edges of g one by one.
Link(e, node, edges, w) ==
  \/ e = Enter(node, w)
  \/ \E i \in 1 .. Last(node, w) - 1 : e = Pass(node, w, i)
  \/ \E i \in 1 .. Last(node, w) : e = Fail(node, w, i)
  \/ SuccessEdges(edges, w) = {} /\ e = Ends(node, w)
  \/ \E f \in SuccessEdges(edges, w) : e = Resumed(node, w, f)

\* The injector keeps the edges it does not replace, and adds those of the chains.
LEMMA EdgeCases ==
  ASSUME NEW g, NEW node, NEW edges, Sewn(g, node, edges)
  PROVE \A e : e \in g.edges <=> \/ e \in Untouched(node, edges)
                                 \/ \E w \in Writes(node) : Link(e, node, edges, w)
<1>1. g.edges = Untouched(node, edges) \cup UNION {ChainLinks(node, edges, w) : w \in Writes(node)}
  BY DEF Sewn, Woven
<1>2. ASSUME NEW w, NEW e PROVE e \in ChainLinks(node, edges, w) <=> Link(e, node, edges, w)
  <2>1. e \in Resumes(node, edges, w) <=>
          \/ SuccessEdges(edges, w) = {} /\ e = Ends(node, w)
          \/ \E f \in SuccessEdges(edges, w) : e = Resumed(node, w, f)
    <3>1. CASE SuccessEdges(edges, w) = {} BY <3>1 DEF Resumes, ResumeEdges, Ends
    <3>2. CASE SuccessEdges(edges, w) # {} BY <3>2 DEF Resumes, ResumeEdges, Resumed
    <3> QED BY <3>1, <3>2
  <2> QED BY <2>1 DEF ChainLinks, Link
<1> QED BY <1>1, <1>2

\* The ends of an edge.
LEMMA KeptFacts ==
  ASSUME NEW g, NEW node, NEW edges, Sewn(g, node, edges), NEW e \in edges
  PROVE /\ e.from \in DOMAIN node /\ e.to \in DOMAIN node /\ ~e.sys /\ e.sys = FALSE
        /\ e = [id |-> e.id, from |-> e.from, to |-> e.to, cond |-> e.cond, sys |-> FALSE]
<1>1. /\ e.from \in DOMAIN node /\ e.to \in DOMAIN node
      /\ e = [id |-> e.id, from |-> e.from, to |-> e.to, cond |-> e.cond, sys |-> FALSE]
  BY DEF Sewn, Sealable
<1>2. e.sys = FALSE
  <2>1. [id |-> e.id, from |-> e.from, to |-> e.to, cond |-> e.cond, sys |-> FALSE].sys = FALSE OBVIOUS
  <2> QED BY <1>1, <2>1
<1> QED BY <1>1, <1>2

\* Where an edge of the chain of w starts, and where it leads.
LinkFrom(e, node, w) ==
  IF e.from \in DOMAIN node THEN e = Enter(node, w) /\ e.from = w
  ELSE \E i \in 1 .. Last(node, w) : e.from = Place(node, w, i)

LinkTo(e, node, edges, w) ==
  IF e.to \in DOMAIN node
  THEN e.to = Exit(node) \/ \E f \in SuccessEdges(edges, w) : e = Resumed(node, w, f)
  ELSE e = Enter(node, w) \/ \E i \in 1 .. Last(node, w) - 1 : e = Pass(node, w, i)

\* Both ends of a chain's edge: the first is the task or in its chain, the second is in its
\* chain or of the draft.
LEMMA LinkFacts ==
  ASSUME NEW g, NEW node, NEW edges, Sewn(g, node, edges), NEW w \in Writes(node), NEW e,
         Link(e, node, edges, w)
  PROVE /\ e.sys = TRUE
        /\ e.from \in Ids(g) /\ e.to \in Ids(g)
        /\ LinkFrom(e, node, w) /\ LinkTo(e, node, edges, w)
<1> DEFINE n == Last(node, w)
           p(i) == Place(node, w, i)
<1>1. /\ w \in DOMAIN node /\ w \in Ids(g) /\ n \in Nat /\ n >= 5
      /\ \A i \in 1 .. n : p(i) \in Ids(g) /\ p(i) \notin DOMAIN node
  BY PlaceFacts
<1>2. Exit(node) \in DOMAIN node /\ Exit(node) \in Ids(g) BY DEF Sewn, Sealable, Woven
<1> HIDE DEF n, p
<1>3. CASE e = Enter(node, w)
  <2>1. e.from = w /\ e.to = p(1) /\ e.sys = TRUE BY <1>3 DEF Enter, SystemEdge, p
  <2>2. 1 \in 1 .. n BY <1>1
  <2> QED BY <1>1, <1>3, <2>1, <2>2 DEF LinkFrom, LinkTo
<1>4. ASSUME NEW i \in 1 .. n - 1, e = Pass(node, w, i)
      PROVE /\ e.sys = TRUE /\ e.from = p(i) /\ i \in 1 .. n
            /\ e.to \in Ids(g) /\ e.to \notin DOMAIN node /\ e.from \in Ids(g) /\ e.from \notin DOMAIN node
  <2>1. e.from = p(i) /\ e.to = p(i + 1) /\ e.sys = TRUE BY <1>4 DEF Pass, SystemEdge, p
  <2>2. i \in 1 .. n /\ i + 1 \in 1 .. n BY <1>1
  <2> QED BY <1>1, <2>1, <2>2
<1>5. ASSUME NEW i \in 1 .. n, e = Fail(node, w, i)
      PROVE /\ e.sys = TRUE /\ e.from = p(i) /\ e.to = Exit(node)
            /\ e.from \in Ids(g) /\ e.from \notin DOMAIN node
  <2>1. e.from = p(i) /\ e.to = Exit(node) /\ e.sys = TRUE BY <1>5 DEF Fail, SystemEdge, p
  <2> QED BY <1>1, <2>1
<1>6. ASSUME e = Ends(node, w)
      PROVE /\ e.sys = TRUE /\ e.from = p(n) /\ n \in 1 .. n /\ e.to = Exit(node)
            /\ e.from \in Ids(g) /\ e.from \notin DOMAIN node
  <2>1. e.from = p(n) /\ e.to = Exit(node) /\ e.sys = TRUE BY <1>6 DEF Ends, SystemEdge, p, n
  <2>2. n \in 1 .. n BY <1>1
  <2> QED BY <1>1, <2>1, <2>2
<1>7. ASSUME NEW f \in SuccessEdges(edges, w), e = Resumed(node, w, f)
      PROVE /\ e.sys = TRUE /\ e.from = p(n) /\ n \in 1 .. n /\ e.to = f.to /\ f.to \in DOMAIN node
            /\ e.from \in Ids(g) /\ e.from \notin DOMAIN node
  <2>1. e.from = p(n) /\ e.to = f.to /\ e.sys = TRUE BY <1>7 DEF Resumed, SystemEdge, p, n
  <2>2. n \in 1 .. n BY <1>1
  <2>3. f \in edges BY DEF SuccessEdges, Out
  <2>4. f.to \in DOMAIN node BY <2>3, KeptFacts
  <2> QED BY <1>1, <2>1, <2>2, <2>4
<1>8. DOMAIN node \subseteq Ids(g) BY DEF Sewn, Woven
<1>9. CASE \E i \in 1 .. n - 1 : e = Pass(node, w, i)
  <2>1. PICK i \in 1 .. n - 1 : e = Pass(node, w, i) BY <1>9
  <2> QED BY <1>4, <2>1 DEF n, p, LinkFrom, LinkTo
<1>10. CASE \E i \in 1 .. n : e = Fail(node, w, i)
  <2>1. PICK i \in 1 .. n : e = Fail(node, w, i) BY <1>10
  <2> QED BY <1>2, <1>5, <2>1 DEF n, p, LinkFrom, LinkTo
<1>11. CASE SuccessEdges(edges, w) = {} /\ e = Ends(node, w) BY <1>2, <1>6, <1>11 DEF n, p, LinkFrom, LinkTo
<1>12. CASE \E f \in SuccessEdges(edges, w) : e = Resumed(node, w, f)
  <2>1. PICK f \in SuccessEdges(edges, w) : e = Resumed(node, w, f) BY <1>12
  <2> QED BY <1>7, <1>8, <2>1 DEF n, p, LinkFrom, LinkTo
<1> QED BY <1>3, <1>9, <1>10, <1>11, <1>12 DEF Link, n

\* An edge of the compiled graph is one of the draft, or belongs to a chain.
LEMMA LinkOrKept ==
  ASSUME NEW g, NEW node, NEW edges, Sewn(g, node, edges), NEW e \in g.edges
  PROVE \/ e \in Untouched(node, edges) /\ e \in edges /\ e.from \in DOMAIN node /\ e.to \in DOMAIN node
        \/ \E w \in Writes(node) : Link(e, node, edges, w)
<1>1. CASE e \in Untouched(node, edges)
  <2>1. e \in edges BY <1>1 DEF Untouched
  <2> QED BY <1>1, <2>1, KeptFacts
<1> QED BY <1>1, EdgeCases

\* No place is taken twice.
LEMMA PlaceApart ==
  ASSUME NEW g, NEW node, NEW edges, Sewn(g, node, edges),
         NEW w \in Writes(node), NEW i \in 1 .. Last(node, w),
         NEW v \in Writes(node), NEW j \in 1 .. Last(node, v), Place(node, w, i) = Place(node, v, j)
  PROVE w = v /\ i = j
BY DEF Sewn, Woven

\* An edge from a node of a chain belongs to that chain.
LEMMA FromPlace ==
  ASSUME NEW g, NEW node, NEW edges, Sewn(g, node, edges), NEW e \in g.edges,
         NEW w \in Writes(node), NEW i \in 1 .. Last(node, w), e.from = Place(node, w, i)
  PROVE \/ i < Last(node, w) /\ e = Pass(node, w, i)
        \/ e = Fail(node, w, i)
        \/ /\ i = Last(node, w)
           /\ \/ SuccessEdges(edges, w) = {} /\ e = Ends(node, w)
              \/ \E f \in SuccessEdges(edges, w) : e = Resumed(node, w, f)
<1> DEFINE n == Last(node, w)
<1>1. Place(node, w, i) \notin DOMAIN node /\ n \in Nat /\ n >= 5 BY PlaceFacts
<1>2. PICK v \in Writes(node) : Link(e, node, edges, v) BY <1>1, LinkOrKept
<1>0. LinkFrom(e, node, v) BY <1>2, LinkFacts
<1>3. PICK j \in 1 .. Last(node, v) : e.from = Place(node, v, j) BY <1>1, <1>0 DEF LinkFrom
<1>4. v = w
  <2>1. Place(node, w, i) = Place(node, v, j) BY <1>3
  <2> QED BY <2>1, PlaceApart
<1>5. \A k \in 1 .. n : Place(node, w, k) = Place(node, w, i) => k = i BY PlaceApart
<1> HIDE DEF n
<1>6. e # Enter(node, w)
  <2>1. Enter(node, w).from = w BY DEF Enter, SystemEdge
  <2>2. w \in DOMAIN node BY PlaceFacts
  <2> QED BY <1>1, <2>1, <2>2
<1>7. ASSUME NEW k \in 1 .. n - 1, e = Pass(node, w, k) PROVE i < n /\ e = Pass(node, w, i)
  <2>1. e.from = Place(node, w, k) /\ k \in 1 .. n BY <1>1, <1>7 DEF Pass, SystemEdge
  <2>2. k = i BY <1>5, <2>1
  <2> QED BY <1>1, <1>7, <2>2
<1>8. ASSUME NEW k \in 1 .. n, e = Fail(node, w, k) PROVE e = Fail(node, w, i)
  <2>1. e.from = Place(node, w, k) BY <1>8 DEF Fail, SystemEdge
  <2>2. k = i BY <1>5, <2>1
  <2> QED BY <1>8, <2>2
<1>9. ASSUME e = Ends(node, w) \/ \E f \in SuccessEdges(edges, w) : e = Resumed(node, w, f)
      PROVE i = n
  <2>1. e.from = Place(node, w, n) BY <1>9 DEF Ends, Resumed, SystemEdge, n
  <2>2. n \in 1 .. n BY <1>1
  <2> QED BY <1>5, <2>1, <2>2
<1>10. Link(e, node, edges, w) BY <1>2, <1>4
<1> QED BY <1>6, <1>7, <1>8, <1>9, <1>10 DEF Link, n

\* An edge to a node of a chain comes from the node before it, or from the task.
LEMMA ToPlace ==
  ASSUME NEW g, NEW node, NEW edges, Sewn(g, node, edges), NEW e \in g.edges,
         NEW w \in Writes(node), NEW i \in 1 .. Last(node, w), e.to = Place(node, w, i)
  PROVE \/ i = 1 /\ e = Enter(node, w)
        \/ i > 1 /\ e = Pass(node, w, i - 1)
<1>1. Place(node, w, i) \notin DOMAIN node BY PlaceFacts
<1>2. PICK v \in Writes(node) : Link(e, node, edges, v) BY <1>1, LinkOrKept
<1>3. Last(node, v) \in Nat /\ Last(node, v) >= 5 BY PlaceFacts
<1>4. \A k \in 1 .. Last(node, v) : Place(node, v, k) = Place(node, w, i) => v = w /\ k = i
  BY PlaceApart
<1>0. LinkTo(e, node, edges, v) BY <1>2, LinkFacts
<1>5. e = Enter(node, v) \/ \E k \in 1 .. Last(node, v) - 1 : e = Pass(node, v, k)
  BY <1>0, <1>1 DEF LinkTo
<1>6. CASE e = Enter(node, v)
  <2>1. e.to = Place(node, v, 1) /\ 1 \in 1 .. Last(node, v) BY <1>3, <1>6 DEF Enter, SystemEdge
  <2>2. v = w /\ i = 1 BY <1>4, <2>1
  <2> QED BY <1>6, <2>2
<1>7. ASSUME NEW k \in 1 .. Last(node, v) - 1, e = Pass(node, v, k) PROVE i > 1 /\ e = Pass(node, w, i - 1)
  <2>1. e.to = Place(node, v, k + 1) /\ k + 1 \in 1 .. Last(node, v) BY <1>3, <1>7 DEF Pass, SystemEdge
  <2>2. v = w /\ k + 1 = i BY <1>4, <2>1
  <2>3. i > 1 /\ k = i - 1 BY <1>3, <2>2
  <2> QED BY <1>7, <2>2, <2>3
<1> QED BY <1>5, <1>6, <1>7

\* An edge from a node of the draft is the draft's, or enters a chain.
LEMMA FromDraft ==
  ASSUME NEW g, NEW node, NEW edges, Sewn(g, node, edges), NEW e \in g.edges, e.from \in DOMAIN node
  PROVE e \in Untouched(node, edges) \/ (e.from \in Writes(node) /\ e = Enter(node, e.from))
<1>1. CASE e \in Untouched(node, edges) BY <1>1
<1>2. CASE \E w \in Writes(node) : Link(e, node, edges, w)
  <2>1. PICK w \in Writes(node) : Link(e, node, edges, w) BY <1>2
  <2>2. LinkFrom(e, node, w) BY <2>1, LinkFacts
  <2> QED BY <2>2 DEF LinkFrom
<1> QED BY <1>1, <1>2, LinkOrKept

\* An edge to a node of the draft is the draft's, or leaves a chain.
LEMMA ToDraft ==
  ASSUME NEW g, NEW node, NEW edges, Sewn(g, node, edges), NEW e \in g.edges, e.to \in DOMAIN node
  PROVE \/ e \in Untouched(node, edges)
        \/ \E w \in Writes(node) : \E f \in SuccessEdges(edges, w) : e = Resumed(node, w, f)
        \/ e.to = Exit(node) /\ e.from \notin DOMAIN node
<1>1. CASE e \in Untouched(node, edges) BY <1>1
<1>2. CASE \E w \in Writes(node) : Link(e, node, edges, w)
  <2>1. PICK w \in Writes(node) : Link(e, node, edges, w) BY <1>2
  <2>0. LinkFrom(e, node, w) /\ LinkTo(e, node, edges, w) BY <2>1, LinkFacts
  <2>2. CASE \E f \in SuccessEdges(edges, w) : e = Resumed(node, w, f) BY <2>2
  <2>3. CASE e.from \notin DOMAIN node /\ ~\E f \in SuccessEdges(edges, w) : e = Resumed(node, w, f)
    <3>1. e.to = Exit(node) BY <2>0, <2>3 DEF LinkTo
    <3> QED BY <2>3, <3>1
  <2>4. CASE e.from \in DOMAIN node
    <3>1. e = Enter(node, w) BY <2>0, <2>4 DEF LinkFrom
    <3>2. e.to = Place(node, w, 1) BY <3>1 DEF Enter, SystemEdge
    <3>3. 1 \in 1 .. Last(node, w) BY PlaceFacts
    <3> QED BY <3>2, <3>3, PlaceFacts
  <2> QED BY <2>2, <2>3, <2>4
<1> QED BY <1>1, <1>2, LinkOrKept

\* The edges that the injector makes are edges of the graph.
LEMMA LinksIn ==
  ASSUME NEW g, NEW node, NEW edges, Sewn(g, node, edges)
  PROVE /\ Untouched(node, edges) \subseteq g.edges
        /\ \A w \in Writes(node) :
             /\ Enter(node, w) \in g.edges
             /\ \A i \in 1 .. Last(node, w) - 1 : Pass(node, w, i) \in g.edges
             /\ \A i \in 1 .. Last(node, w) : Fail(node, w, i) \in g.edges
             /\ SuccessEdges(edges, w) = {} => Ends(node, w) \in g.edges
             /\ \A f \in SuccessEdges(edges, w) : Resumed(node, w, f) \in g.edges
<1>1. Untouched(node, edges) \subseteq g.edges BY EdgeCases
<1>2. ASSUME NEW w \in Writes(node), NEW e, Link(e, node, edges, w) PROVE e \in g.edges
  BY <1>2, EdgeCases
<1>3. ASSUME NEW w \in Writes(node)
      PROVE /\ Enter(node, w) \in g.edges
            /\ \A i \in 1 .. Last(node, w) - 1 : Pass(node, w, i) \in g.edges
            /\ \A i \in 1 .. Last(node, w) : Fail(node, w, i) \in g.edges
            /\ SuccessEdges(edges, w) = {} => Ends(node, w) \in g.edges
            /\ \A f \in SuccessEdges(edges, w) : Resumed(node, w, f) \in g.edges
  <2>1. Enter(node, w) \in g.edges
    <3>1. Link(Enter(node, w), node, edges, w) BY DEF Link
    <3> QED BY <1>2, <3>1
  <2>2. ASSUME NEW i \in 1 .. Last(node, w) - 1 PROVE Pass(node, w, i) \in g.edges
    <3>1. Link(Pass(node, w, i), node, edges, w) BY DEF Link
    <3> QED BY <1>2, <3>1
  <2>3. ASSUME NEW i \in 1 .. Last(node, w) PROVE Fail(node, w, i) \in g.edges
    <3>1. Link(Fail(node, w, i), node, edges, w) BY DEF Link
    <3> QED BY <1>2, <3>1
  <2>4. ASSUME SuccessEdges(edges, w) = {} PROVE Ends(node, w) \in g.edges
    <3>1. Link(Ends(node, w), node, edges, w) BY <2>4 DEF Link
    <3> QED BY <1>2, <3>1
  <2>5. ASSUME NEW f \in SuccessEdges(edges, w) PROVE Resumed(node, w, f) \in g.edges
    <3>1. Link(Resumed(node, w, f), node, edges, w) BY DEF Link
    <3> QED BY <1>2, <3>1
  <2> QED BY <2>1, <2>2, <2>3, <2>4, <2>5
<1> QED BY <1>1, <1>3

\* A finite set has one element at most when all its elements are the same.
LEMMA AtMostOne ==
  ASSUME NEW S, IsFiniteSet(S)
  PROVE Cardinality(S) <= 1 <=> \A x, y \in S : x = y
<1>1. ASSUME Cardinality(S) <= 1, NEW x \in S, NEW y \in S PROVE x = y
  <2>1. {x} \in SUBSET S /\ Cardinality({x}) = 1 /\ Cardinality(S) \in Nat BY FS_Singleton, FS_CardinalityType
  <2>2. Cardinality({x}) <= Cardinality(S) BY <2>1, FS_Subset
  <2>3. Cardinality(S) = Cardinality({x}) BY <1>1, <2>1, <2>2
  <2>4. S = {x} BY <2>1, <2>3, FS_Subset
  <2> QED BY <2>4
<1>2. ASSUME \A x, y \in S : x = y PROVE Cardinality(S) <= 1
  <2>1. CASE S = {} BY <2>1, FS_EmptySet
  <2>2. CASE S # {}
    <3>1. PICK x : x \in S BY <2>2
    <3>2. S = {x} BY <1>2, <3>1
    <3> QED BY <3>2, FS_Singleton
  <2> QED BY <2>1, <2>2
<1> QED BY <1>1, <1>2

\* What _validate_fanout_and_joins asks, of a draft's nodes and edges.
SingleWay(node, edges) ==
  /\ \A e, f \in edges : e.from = f.from /\ e.cond = f.cond => e = f
  /\ \A n \in DOMAIN node \ {Exit(node)} : \A e, f \in Into(edges, n) : e = f

\* An edge of the draft that the injector replaced, by the merge's edge; any other by itself.
Moved(node, e) == IF e.from \in Writes(node) /\ e.cond = "success" THEN Resumed(node, e.from, e) ELSE e

\* Every edge of the draft has its own place in the compiled graph, at the same target.
LEMMA MovedFacts ==
  ASSUME NEW g, NEW node, NEW edges, Sewn(g, node, edges)
  PROVE /\ \A e \in edges : Moved(node, e) \in g.edges /\ Moved(node, e).to = e.to
        /\ \A e, f \in edges : Moved(node, e) = Moved(node, f) => e = f
        /\ \A e, f \in edges : e.from = f.from /\ e.cond = f.cond
             => Moved(node, e).from = Moved(node, f).from /\ Moved(node, e).cond = Moved(node, f).cond
<1> DEFINE Gone(e) == e.from \in Writes(node) /\ e.cond = "success"
<1>1. ASSUME NEW e \in edges, Gone(e)
      PROVE /\ Moved(node, e) = Resumed(node, e.from, e) /\ Moved(node, e) \in g.edges
            /\ Moved(node, e).id = e.id /\ Moved(node, e).to = e.to /\ Moved(node, e).cond = "success"
            /\ Moved(node, e).from = Place(node, e.from, Last(node, e.from))
            /\ Last(node, e.from) \in 1 .. Last(node, e.from)
            /\ Moved(node, e).from \notin DOMAIN node
  <2>1. e \in SuccessEdges(edges, e.from) BY <1>1 DEF SuccessEdges, Out
  <2>2. Moved(node, e) = Resumed(node, e.from, e) BY <1>1 DEF Moved
  <2>3. Resumed(node, e.from, e) \in g.edges BY <1>1, <2>1, LinksIn
  <2>4. Last(node, e.from) \in Nat /\ Last(node, e.from) >= 5 BY <1>1, PlaceFacts
  <2>5. Last(node, e.from) \in 1 .. Last(node, e.from) BY <2>4
  <2>6. Place(node, e.from, Last(node, e.from)) \notin DOMAIN node BY <1>1, <2>5, PlaceFacts
  <2>7. /\ Resumed(node, e.from, e).id = e.id /\ Resumed(node, e.from, e).to = e.to
        /\ Resumed(node, e.from, e).cond = "success"
        /\ Resumed(node, e.from, e).from = Place(node, e.from, Last(node, e.from))
    BY DEF Resumed, SystemEdge
  <2> QED BY <2>2, <2>3, <2>5, <2>6, <2>7
<1>2. ASSUME NEW e \in edges, ~Gone(e)
      PROVE Moved(node, e) = e /\ Moved(node, e) \in g.edges /\ e.from \in DOMAIN node
  <2>1. e \in Untouched(node, edges) BY <1>2 DEF Untouched
  <2>2. e \in g.edges BY <2>1, LinksIn
  <2>3. e.from \in DOMAIN node BY KeptFacts
  <2> QED BY <1>2, <2>2, <2>3 DEF Moved
<1> HIDE DEF Gone
<1>3. ASSUME NEW e \in edges, NEW f \in edges, Moved(node, e) = Moved(node, f) PROVE e = f
  <2>1. CASE Gone(e) /\ Gone(f)
    <3>1. /\ Place(node, e.from, Last(node, e.from)) = Place(node, f.from, Last(node, f.from))
          /\ e.id = f.id /\ e.to = f.to
      BY <1>1, <1>3, <2>1
    <3>2. e.from \in Writes(node) /\ f.from \in Writes(node) /\ e.cond = f.cond BY <2>1 DEF Gone
    <3>3. e.from = f.from BY <1>1, <2>1, <3>1, <3>2, PlaceApart
    <3>4. /\ e = [id |-> e.id, from |-> e.from, to |-> e.to, cond |-> e.cond, sys |-> FALSE]
          /\ f = [id |-> f.id, from |-> f.from, to |-> f.to, cond |-> f.cond, sys |-> FALSE]
      BY KeptFacts
    <3> QED BY <3>1, <3>2, <3>3, <3>4
  <2>2. CASE ~Gone(e) /\ ~Gone(f) BY <1>2, <1>3, <2>2
  <2>3. CASE Gone(e) /\ ~Gone(f)
    <3>1. Moved(node, e).from \notin DOMAIN node BY <1>1, <2>3
    <3>2. Moved(node, f).from \in DOMAIN node BY <1>2, <2>3
    <3> QED BY <1>3, <3>1, <3>2
  <2>4. CASE ~Gone(e) /\ Gone(f)
    <3>1. Moved(node, f).from \notin DOMAIN node BY <1>1, <2>4
    <3>2. Moved(node, e).from \in DOMAIN node BY <1>2, <2>4
    <3> QED BY <1>3, <3>1, <3>2
  <2> QED BY <2>1, <2>2, <2>3, <2>4
<1>4. ASSUME NEW e \in edges, NEW f \in edges, e.from = f.from, e.cond = f.cond
      PROVE Moved(node, e).from = Moved(node, f).from /\ Moved(node, e).cond = Moved(node, f).cond
  <2>1. Gone(e) <=> Gone(f) BY <1>4 DEF Gone
  <2>2. CASE Gone(e) BY <1>1, <1>4, <2>1, <2>2
  <2>3. CASE ~Gone(e) BY <1>2, <1>4, <2>1, <2>3
  <2> QED BY <2>2, <2>3
<1>5. \A e \in edges : Moved(node, e) \in g.edges /\ Moved(node, e).to = e.to BY <1>1, <1>2
<1> QED BY <1>3, <1>4, <1>5

\* The output of the draft is the only one of the graph.
LEMMA OneExit ==
  ASSUME NEW g, NEW node, NEW edges, Sewn(g, node, edges)
  PROVE KindNodes(g, "output") = {Exit(node)} /\ Exit(node) \in DOMAIN node /\ Exit(node) \in Ids(g)
<1>1. "output" \notin SystemKinds BY DEF SystemKinds
<1>2. KindNodes(g, "output") = {n \in DOMAIN node : node[n].kind = "output"} BY <1>1, KindCases
<1>3. Exit(node) \in DOMAIN node /\ \A n \in DOMAIN node : node[n].kind = "output" <=> n = Exit(node)
  BY DEF Sewn, Sealable
<1>4. Exit(node) \in Ids(g) BY <1>3 DEF Sewn, Woven
<1> QED BY <1>2, <1>3, <1>4

\* An edge of a chain has another outcome than every edge that leaves the same node.
LEMMA ChainFans ==
  ASSUME NEW g, NEW node, NEW edges, Sewn(g, node, edges), SingleWay(node, edges),
         NEW e \in g.edges, NEW f \in g.edges, e.from = f.from, e.cond = f.cond
  PROVE e = f
<1>1. CASE e.from \in DOMAIN node
  <2>1. \/ e \in Untouched(node, edges)
        \/ e.from \in Writes(node) /\ e = Enter(node, e.from)
    BY <1>1, FromDraft
  <2>2. f.from \in DOMAIN node BY <1>1
  <2>3. \/ f \in Untouched(node, edges)
        \/ f.from \in Writes(node) /\ f = Enter(node, f.from)
    BY <2>2, FromDraft
  <2>4. \A x \in Untouched(node, edges) : x \in edges /\ ~(x.from \in Writes(node) /\ x.cond = "success")
    BY DEF Untouched
  <2>5. \A w : Enter(node, w).cond = "success" BY DEF Enter, SystemEdge
  <2> QED BY <2>1, <2>3, <2>4, <2>5 DEF SingleWay
<1>2. CASE e.from \notin DOMAIN node
  <2>1. PICK w \in Writes(node) : \E i \in 1 .. Last(node, w) : e.from = Place(node, w, i)
    <3>1. PICK w \in Writes(node) : Link(e, node, edges, w) BY <1>2, LinkOrKept
    <3>2. LinkFrom(e, node, w) BY <3>1, LinkFacts
    <3> QED BY <1>2, <3>2 DEF LinkFrom
  <2>2. PICK i \in 1 .. Last(node, w) : e.from = Place(node, w, i) BY <2>1
  <2> DEFINE s == Chain(node, w)
             Way(x) == \/ i < Last(node, w) /\ x = Pass(node, w, i)
                       \/ x = Fail(node, w, i)
                       \/ /\ i = Last(node, w)
                          /\ \/ SuccessEdges(edges, w) = {} /\ x = Ends(node, w)
                             \/ \E y \in SuccessEdges(edges, w) : x = Resumed(node, w, y)
  <2>3. Way(e) BY <2>2, FromPlace
  <2>4. f.from = Place(node, w, i) BY <2>2
  <2>5. Way(f) BY <2>4, FromPlace
  <2>6. KnownStep(node[w], s, i) /\ Last(node, w) \in Nat /\ Last(node, w) = Len(s) BY PlaceFacts DEF Last
  <2>7. i = Last(node, w) <=> s[i].kind = "merge" BY <2>6 DEF KnownStep
  <2>8. /\ Pass(node, w, i).cond = Happy(s[i].kind) /\ Fail(node, w, i).cond = Unhappy(s[i].kind)
        /\ Ends(node, w).cond = "success" /\ \A y : Resumed(node, w, y).cond = "success"
    BY DEF Pass, Fail, Ends, Resumed, SystemEdge
  <2>9. Happy(s[i].kind) # Unhappy(s[i].kind) /\ Unhappy(s[i].kind) # "success" BY DEF Happy, Unhappy
  <2>10. \A x, y \in SuccessEdges(edges, w) : x = y
    BY DEF SuccessEdges, Out, SingleWay
  <2> HIDE DEF s
  <2>11. CASE e = Fail(node, w, i)
    <3>1. f.cond = Unhappy(s[i].kind) BY <2>8, <2>11
    <3> QED BY <2>5, <2>8, <2>9, <2>11, <3>1
  <2>12. CASE f = Fail(node, w, i)
    <3>1. e.cond = Unhappy(s[i].kind) BY <2>8, <2>12
    <3> QED BY <2>3, <2>8, <2>9, <2>12, <3>1
  <2>13. CASE e # Fail(node, w, i) /\ f # Fail(node, w, i)
    <3>1. CASE i < Last(node, w)
      <4>1. e = Pass(node, w, i) /\ f = Pass(node, w, i) BY <2>3, <2>5, <2>6, <2>13, <3>1
      <4> QED BY <4>1
    <3>2. CASE i = Last(node, w)
      <4>1. CASE SuccessEdges(edges, w) = {}
        <5>1. e = Ends(node, w) /\ f = Ends(node, w) BY <2>3, <2>5, <2>6, <2>13, <3>2, <4>1
        <5> QED BY <5>1
      <4>2. CASE SuccessEdges(edges, w) # {}
        <5>1. PICK x \in SuccessEdges(edges, w) : e = Resumed(node, w, x)
          BY <2>3, <2>6, <2>13, <3>2, <4>2
        <5>2. PICK y \in SuccessEdges(edges, w) : f = Resumed(node, w, y)
          BY <2>5, <2>6, <2>13, <3>2, <4>2
        <5> QED BY <2>10, <5>1, <5>2
      <4> QED BY <4>1, <4>2
    <3> QED BY <2>6, <3>1, <3>2
  <2> QED BY <2>11, <2>12, <2>13
<1> QED BY <1>1, <1>2

\* The injector neither makes nor unmakes a fan or a join.
LEMMA SameFans ==
  ASSUME NEW g, NEW node, NEW edges, Sewn(g, node, edges), IsFiniteSet(g.edges)
  PROVE FanoutAndJoinsValid(g) <=> SingleWay(node, edges)
<1> DEFINE x == Exit(node)
<1>1. KindNodes(g, "output") = {x} /\ x \in DOMAIN node BY OneExit
<1>2. \A n : IsFiniteSet(Into(g.edges, n))
  <2>1. \A n : Into(g.edges, n) \in SUBSET g.edges BY DEF Into
  <2> QED BY <2>1, FS_Subset
<1>3. FanoutAndJoinsValid(g) <=>
        /\ \A e, f \in g.edges : e.from = f.from /\ e.cond = f.cond => e = f
        /\ \A n \in Ids(g) \ {x} : \A e, f \in Into(g.edges, n) : e = f
  <2>1. \A n : Cardinality(Into(g.edges, n)) <= 1 <=> \A e, f \in Into(g.edges, n) : e = f
    BY <1>2, AtMostOne
  <2> QED BY <1>1, <2>1 DEF FanoutAndJoinsValid
<1>4. DOMAIN node \subseteq Ids(g) BY DEF Sewn, Woven
<1> HIDE DEF x
<1>5. ASSUME FanoutAndJoinsValid(g) PROVE SingleWay(node, edges)
  <2>1. ASSUME NEW e \in edges, NEW f \in edges, e.from = f.from, e.cond = f.cond PROVE e = f
    <3>1. /\ Moved(node, e) \in g.edges /\ Moved(node, f) \in g.edges
          /\ Moved(node, e).from = Moved(node, f).from /\ Moved(node, e).cond = Moved(node, f).cond
      BY <2>1, MovedFacts
    <3>2. Moved(node, e) = Moved(node, f) BY <1>3, <1>5, <3>1
    <3> QED BY <3>2, MovedFacts
  <2>2. ASSUME NEW n \in DOMAIN node \ {x}, NEW e \in Into(edges, n), NEW f \in Into(edges, n)
        PROVE e = f
    <3>1. e \in edges /\ f \in edges /\ e.to = n /\ f.to = n BY DEF Into
    <3>2. /\ Moved(node, e) \in g.edges /\ Moved(node, f) \in g.edges
          /\ Moved(node, e).to = n /\ Moved(node, f).to = n
      BY <3>1, MovedFacts
    <3>3. Moved(node, e) \in Into(g.edges, n) /\ Moved(node, f) \in Into(g.edges, n) BY <3>2 DEF Into
    <3>4. Moved(node, e) = Moved(node, f) BY <1>3, <1>4, <1>5, <3>3
    <3> QED BY <3>1, <3>4, MovedFacts
  <2> QED BY <2>1, <2>2 DEF SingleWay, x
<1>6. ASSUME SingleWay(node, edges) PROVE FanoutAndJoinsValid(g)
  <2>1. \A e, f \in g.edges : e.from = f.from /\ e.cond = f.cond => e = f BY <1>6, ChainFans
  <2>2. ASSUME NEW n \in Ids(g) \ {x}, NEW e \in Into(g.edges, n), NEW f \in Into(g.edges, n)
        PROVE e = f
    <3>0. e \in g.edges /\ f \in g.edges /\ e.to = n /\ f.to = n BY DEF Into
    <3>1. CASE n \in DOMAIN node
      <4>1. ASSUME NEW h \in g.edges, h.to = n
            PROVE \E o \in Into(edges, n) : h = Moved(node, o)
        <5>1. \/ h \in Untouched(node, edges)
              \/ \E w \in Writes(node) : \E o \in SuccessEdges(edges, w) : h = Resumed(node, w, o)
          BY <3>1, <4>1, ToDraft DEF x
        <5>2. CASE h \in Untouched(node, edges)
          <6>1. h \in edges /\ h = Moved(node, h) BY <5>2 DEF Untouched, Moved
          <6> QED BY <4>1, <6>1 DEF Into
        <5>3. CASE \E w \in Writes(node) : \E o \in SuccessEdges(edges, w) : h = Resumed(node, w, o)
          <6>1. PICK w \in Writes(node) : \E o \in SuccessEdges(edges, w) : h = Resumed(node, w, o) BY <5>3
          <6>2. PICK o \in SuccessEdges(edges, w) : h = Resumed(node, w, o) BY <6>1
          <6>3. o \in edges /\ o.from = w /\ o.cond = "success" BY DEF SuccessEdges, Out
          <6>4. h = Moved(node, o) BY <6>2, <6>3 DEF Moved
          <6>5. h.to = o.to BY <6>2 DEF Resumed, SystemEdge
          <6> QED BY <4>1, <6>3, <6>4, <6>5 DEF Into
        <5> QED BY <5>1, <5>2, <5>3
      <4>2. PICK o \in Into(edges, n) : e = Moved(node, o) BY <3>0, <4>1
      <4>3. PICK p \in Into(edges, n) : f = Moved(node, p) BY <3>0, <4>1
      <4>4. o = p BY <1>6, <3>1 DEF SingleWay, x
      <4> QED BY <4>2, <4>3, <4>4
    <3>2. CASE n \notin DOMAIN node
      <4>1. PICK w \in Writes(node) : \E i \in 1 .. Last(node, w) : n = Place(node, w, i)
        BY <3>2, NodeCases
      <4>2. PICK i \in 1 .. Last(node, w) : n = Place(node, w, i) BY <4>1
      <4>3. Last(node, w) \in Nat BY PlaceFacts
      <4>4. e.to = Place(node, w, i) /\ f.to = Place(node, w, i) BY <3>0, <4>2
      <4>5. (i = 1 /\ e = Enter(node, w)) \/ (i > 1 /\ e = Pass(node, w, i - 1)) BY <3>0, <4>4, ToPlace
      <4>6. (i = 1 /\ f = Enter(node, w)) \/ (i > 1 /\ f = Pass(node, w, i - 1)) BY <3>0, <4>4, ToPlace
      <4> QED BY <4>5, <4>6
    <3> QED BY <3>1, <3>2
  <2> QED BY <1>3, <2>1, <2>2
<1> QED BY <1>5, <1>6

-------------------------------------------------------------------------------
(* The last check of the chains the injector made *)

\* One happy edge leaves the i-th node, and the last one's leads out of the chain.
HappyWay(g, node, w, i) ==
  \E e : HappyEdges(g, Place(node, w, i)) = {e} /\ (i = Last(node, w) => e.to \in DOMAIN node)

\* The happy edges of a chain, one at every node.
LEMMA ChainHappy ==
  ASSUME NEW g, NEW node, NEW edges, Sewn(g, node, edges), SingleWay(node, edges),
         NEW w \in Writes(node)
  PROVE /\ HappyEdges(g, w) = {Enter(node, w)}
        /\ \A i \in 1 .. Last(node, w) :
             /\ i < Last(node, w) => HappyEdges(g, Place(node, w, i)) = {Pass(node, w, i)}
             /\ HappyWay(g, node, w, i)
             /\ UnhappyEdges(g, Place(node, w, i)) = {Fail(node, w, i)}
<1> DEFINE s == Chain(node, w)
           n == Last(node, w)
           p(i) == Place(node, w, i)
<1>1. /\ w \in DOMAIN node /\ g.node[w] = node[w] /\ node[w].kind = "write_task" /\ n \in Nat /\ n >= 5
      /\ \A i \in 1 .. n : /\ g.node[p(i)] = ChainNode(w, node[w], s[i])
                           /\ KnownStep(node[w], s, i)
  BY PlaceFacts
<1>2. /\ Enter(node, w) \in g.edges
      /\ \A i \in 1 .. n - 1 : Pass(node, w, i) \in g.edges
      /\ \A i \in 1 .. n : Fail(node, w, i) \in g.edges
      /\ SuccessEdges(edges, w) = {} => Ends(node, w) \in g.edges
      /\ \A f \in SuccessEdges(edges, w) : Resumed(node, w, f) \in g.edges
  BY LinksIn
<1>3. HappyEdges(g, w) = {Enter(node, w)}
  <2>1. Enter(node, w).from = w /\ Enter(node, w).cond = "success" BY DEF Enter, SystemEdge
  <2>2. Happy(g.node[w].kind) = "success" BY <1>1 DEF Happy
  <2>3. Enter(node, w) \in HappyEdges(g, w) BY <1>2, <2>1, <2>2 DEF HappyEdges, Out
  <2>4. ASSUME NEW e \in HappyEdges(g, w) PROVE e = Enter(node, w)
    <3>1. e \in g.edges /\ e.from = w /\ e.cond = "success" BY <2>2 DEF HappyEdges, Out
    <3>2. e \notin Untouched(node, edges) BY <3>1 DEF Untouched
    <3>3. e = Enter(node, e.from) BY <1>1, <3>1, <3>2, FromDraft
    <3> QED BY <3>1, <3>3
  <2> QED BY <2>3, <2>4
<1>4. ASSUME NEW i \in 1 .. n
      PROVE /\ i < n => HappyEdges(g, p(i)) = {Pass(node, w, i)}
            /\ HappyWay(g, node, w, i)
            /\ UnhappyEdges(g, p(i)) = {Fail(node, w, i)}
  <2> DEFINE k == s[i].kind
  <2>1. g.node[p(i)].kind = k
    <3>1. g.node[p(i)] = ChainNode(w, node[w], s[i]) BY <1>1
    <3> QED BY <3>1 DEF ChainNode
  <2>2. Happy(k) # Unhappy(k) /\ (i = n => Happy(k) = "success")
    <3>1. n = Len(s) BY DEF Last
    <3>2. i = n => k = "merge" BY <1>1, <3>1 DEF KnownStep
    <3> QED BY <3>2 DEF Happy, Unhappy
  <2>3. /\ Pass(node, w, i).cond = Happy(k) /\ Fail(node, w, i).cond = Unhappy(k)
        /\ Pass(node, w, i).from = p(i) /\ Fail(node, w, i).from = p(i)
    BY DEF Pass, Fail, SystemEdge
  <2>4. /\ Ends(node, w).cond = "success" /\ Ends(node, w).from = p(n) /\ Ends(node, w).to = Exit(node)
        /\ \A f : /\ Resumed(node, w, f).cond = "success" /\ Resumed(node, w, f).from = p(n)
                  /\ Resumed(node, w, f).to = f.to
    BY DEF Ends, Resumed, SystemEdge
  <2> DEFINE Way(x) == \/ i < n /\ x = Pass(node, w, i)
                       \/ x = Fail(node, w, i)
                       \/ /\ i = n
                          /\ \/ SuccessEdges(edges, w) = {} /\ x = Ends(node, w)
                             \/ \E y \in SuccessEdges(edges, w) : x = Resumed(node, w, y)
  <2>5. ASSUME NEW x \in Out(g.edges, p(i)) PROVE Way(x) /\ x \in g.edges
    <3>1. x \in g.edges /\ x.from = Place(node, w, i) BY DEF Out
    <3> QED BY <3>1, FromPlace
  <2> HIDE DEF k, p
  <2>6. UnhappyEdges(g, p(i)) = {Fail(node, w, i)}
    <3>1. Fail(node, w, i) \in UnhappyEdges(g, p(i)) BY <1>2, <2>1, <2>3 DEF UnhappyEdges, Out
    <3>2. ASSUME NEW x \in UnhappyEdges(g, p(i)) PROVE x = Fail(node, w, i)
      <4>1. x \in Out(g.edges, p(i)) /\ x.cond = Unhappy(k) BY <2>1 DEF UnhappyEdges
      <4>2. Way(x) BY <2>5, <4>1
      <4> QED BY <2>2, <2>3, <2>4, <4>1, <4>2
    <3> QED BY <3>1, <3>2
  <2>7. ASSUME i < n PROVE HappyEdges(g, p(i)) = {Pass(node, w, i)}
    <3>0. i \in 1 .. n - 1 BY <1>1, <2>7
    <3>1. Pass(node, w, i) \in HappyEdges(g, p(i)) BY <1>2, <2>1, <2>3, <3>0 DEF HappyEdges, Out
    <3>2. ASSUME NEW x \in HappyEdges(g, p(i)) PROVE x = Pass(node, w, i)
      <4>1. x \in Out(g.edges, p(i)) /\ x.cond = Happy(k) BY <2>1 DEF HappyEdges
      <4>2. Way(x) /\ x # Fail(node, w, i) BY <2>2, <2>3, <2>5, <4>1
      <4> QED BY <1>1, <2>7, <4>2
    <3> QED BY <3>1, <3>2
  <2>8. ASSUME i = n PROVE \E e : HappyEdges(g, p(i)) = {e} /\ e.to \in DOMAIN node
    <3>1. ASSUME NEW x \in HappyEdges(g, p(i))
          PROVE /\ x \in g.edges
                /\ \/ SuccessEdges(edges, w) = {} /\ x = Ends(node, w)
                   \/ \E y \in SuccessEdges(edges, w) : x = Resumed(node, w, y)
      <4>1. x \in Out(g.edges, p(i)) /\ x.cond = Happy(k) BY <2>1 DEF HappyEdges
      <4>2. Way(x) /\ x # Fail(node, w, i) /\ x \in g.edges BY <2>2, <2>3, <2>5, <4>1
      <4> QED BY <1>1, <2>8, <4>2
    <3>2. CASE SuccessEdges(edges, w) = {}
      <4>1. Ends(node, w) \in HappyEdges(g, p(i)) BY <1>2, <2>1, <2>2, <2>4, <2>8, <3>2 DEF HappyEdges, Out
      <4>2. HappyEdges(g, p(i)) = {Ends(node, w)} BY <3>1, <3>2, <4>1
      <4>3. Ends(node, w).to \in DOMAIN node BY <2>4, OneExit
      <4> QED BY <4>2, <4>3
    <3>3. CASE SuccessEdges(edges, w) # {}
      <4>1. PICK f \in SuccessEdges(edges, w) : TRUE BY <3>3
      <4>2. \A y \in SuccessEdges(edges, w) : y = f BY DEF SuccessEdges, Out, SingleWay
      <4>3. Resumed(node, w, f) \in HappyEdges(g, p(i)) BY <1>2, <2>1, <2>2, <2>4, <2>8 DEF HappyEdges, Out
      <4>4. HappyEdges(g, p(i)) = {Resumed(node, w, f)} BY <3>1, <3>3, <4>2, <4>3
      <4>5. f \in edges BY DEF SuccessEdges, Out
      <4>6. Resumed(node, w, f).to \in DOMAIN node BY <2>4, <4>5, KeptFacts
      <4> QED BY <4>4, <4>6
    <3> QED BY <3>2, <3>3
  <2>9. HappyWay(g, node, w, i)
    <3>1. CASE i = n BY <2>8, <3>1 DEF HappyWay, p
    <3>2. CASE i # n
      <4>1. i < n BY <1>1, <3>2
      <4> QED BY <2>7, <3>2, <4>1 DEF HappyWay, p, n
    <3> QED BY <3>1, <3>2
  <2> QED BY <1>1, <2>6, <2>7, <2>9
<1> QED BY <1>3, <1>4

\* The first k nodes of the chain of w.
Prefix(node, w, k) == [i \in 1 .. k |-> Place(node, w, i)]

\* HappyChain goes on by one node of the chain, and stops after the merge.
LEMMA FurtherPrefix ==
  ASSUME NEW g, NEW node, NEW edges, Sewn(g, node, edges), SingleWay(node, edges),
         NEW w \in Writes(node), NEW m \in 0 .. Last(node, w), NEW k \in Nat, k # 0
  PROVE Further(g, w, Prefix(node, w, m), k) =
          Prefix(node, w, IF m = k - 1 /\ m < Last(node, w) THEN m + 1 ELSE m)
<1> DEFINE n == Last(node, w)
           S == {Place(node, w, i) : i \in 1 .. n}
           c == Prefix(node, w, m)
           a == At(w, c)
<1>1. n \in Nat /\ n >= 5 BY PlaceFacts
<1>2. SystemOf(g, w) = S BY KindCases
<1>3. c \in Seq(S) /\ Len(c) = m /\ \A i \in 1 .. m : c[i] = Place(node, w, i)
  <2>1. c \in [1 .. m -> S] BY <1>1 DEF Prefix
  <2>2. m \in Nat BY <1>1
  <2> HIDE DEF S, c
  <2>3. c \in Seq(S) /\ Len(c) = m BY <2>1, <2>2
  <2> QED BY <2>3 DEF c, Prefix
<1>4. a = IF m = 0 THEN w ELSE Place(node, w, m)
  <2> HIDE DEF S
  <2>1. c = <<>> <=> m = 0 BY <1>3
  <2>2. m # 0 => m \in 1 .. m BY <1>1
  <2> HIDE DEF c
  <2> QED BY <1>3, <2>1, <2>2 DEF At
<1>5. m < n => /\ Cardinality(HappyEdges(g, a)) = 1
               /\ NextOf(g, w, a) = {Place(node, w, m + 1)}
  <2> SUFFICES ASSUME m < n
               PROVE Cardinality(HappyEdges(g, a)) = 1 /\ NextOf(g, w, a) = {Place(node, w, m + 1)}
    OBVIOUS
  <2>1. m + 1 \in 1 .. n BY <1>1
  <2>2. Place(node, w, m + 1) \in SystemOf(g, w) BY <1>2, <2>1
  <2>3. \E e : HappyEdges(g, a) = {e} /\ e.to = Place(node, w, m + 1)
    <3>1. CASE m = 0
      <4>1. HappyEdges(g, a) = {Enter(node, w)} BY <1>4, <3>1, ChainHappy
      <4>2. Enter(node, w).to = Place(node, w, m + 1) BY <3>1 DEF Enter, SystemEdge
      <4> QED BY <4>1, <4>2
    <3>2. CASE m # 0
      <4>1. m \in 1 .. n BY <1>1, <3>2
      <4>2. HappyEdges(g, a) = {Pass(node, w, m)} BY <1>4, <3>2, <4>1, ChainHappy
      <4>3. Pass(node, w, m).to = Place(node, w, m + 1) BY DEF Pass, SystemEdge
      <4> QED BY <4>2, <4>3
    <3> QED BY <3>1, <3>2
  <2>4. PICK e : HappyEdges(g, a) = {e} /\ e.to = Place(node, w, m + 1) BY <2>3
  <2>5. Cardinality(HappyEdges(g, a)) = 1 BY <2>4, FS_Singleton
  <2>6. NextOf(g, w, a) = {Place(node, w, m + 1)} BY <2>2, <2>4 DEF NextOf
  <2> QED BY <2>5, <2>6
<1>6. m = n => NextOf(g, w, a) = {}
  <2> SUFFICES ASSUME m = n PROVE NextOf(g, w, a) = {} OBVIOUS
  <2>1. n \in 1 .. n /\ a = Place(node, w, n) BY <1>1, <1>4
  <2>4. HappyWay(g, node, w, n) BY <2>1, ChainHappy
  <2>2. PICK e : HappyEdges(g, a) = {e} /\ e.to \in DOMAIN node BY <2>1, <2>4 DEF HappyWay
  <2>3. \A x \in SystemOf(g, w) : x \notin DOMAIN node BY <1>2, PlaceFacts
  <2> QED BY <2>2, <2>3 DEF NextOf
<1>7. CASE m = k - 1 /\ m < n
  <2> DEFINE x == CHOOSE y \in NextOf(g, w, a) : TRUE
  <2>1. x = Place(node, w, m + 1) BY <1>5, <1>7
  <2>2. Further(g, w, c, k) = Append(c, x)
    <3> HIDE DEF c
    <3> QED BY <1>3, <1>5, <1>7 DEF Further
  <2> HIDE DEF x, S
  <2>3. Append(c, Place(node, w, m + 1)) = Prefix(node, w, m + 1)
    <3> DEFINE d == Append(c, Place(node, w, m + 1))
               f == Prefix(node, w, m + 1)
    <3>1. m \in Nat /\ m + 1 \in Nat BY <1>1
    <3>2. d = [i \in 1 .. m + 1 |-> IF i = m + 1 THEN Place(node, w, m + 1) ELSE c[i]]
      <4> HIDE DEF c
      <4> QED BY <1>3, <3>1
    <3>3. \A i \in 1 .. m + 1 : (IF i = m + 1 THEN Place(node, w, m + 1) ELSE c[i]) = Place(node, w, i)
      <4> SUFFICES ASSUME NEW i \in 1 .. m + 1, i # m + 1 PROVE c[i] = Place(node, w, i) OBVIOUS
      <4>1. i \in 1 .. m BY <3>1
      <4> HIDE DEF c
      <4> QED BY <1>3, <4>1
    <3> HIDE DEF c
    <3> QED BY <3>2, <3>3 DEF Prefix
  <2> QED BY <1>7, <2>1, <2>2, <2>3
<1>8. CASE ~(m = k - 1 /\ m < n)
  <2>1. Further(g, w, c, k) = c
    <3>1. m # k - 1 \/ m = n BY <1>1, <1>8
    <3> HIDE DEF c
    <3> QED BY <1>3, <1>6, <3>1 DEF Further
  <2> QED BY <1>8, <2>1
<1> QED BY <1>7, <1>8

\* The chain that the last check follows is the one that the injector made.
LEMMA ChainFollowed ==
  ASSUME NEW g, NEW node, NEW edges, Sewn(g, node, edges), SingleWay(node, edges), IsFiniteSet(Ids(g)),
         NEW w \in Writes(node)
  PROVE HappyChain(g, w) = Prefix(node, w, Last(node, w))
<1> DEFINE N == Cardinality(Ids(g))
           n == Last(node, w)
           upto(k) == IF k <= n THEN k ELSE n
<1>1. n \in Nat /\ n >= 5 /\ \A i \in 1 .. n : Place(node, w, i) \in Ids(g) BY PlaceFacts
<1>2. N \in Nat BY FS_CardinalityType
<1>3. PICK h : /\ h[0] = <<>>
               /\ \A k \in 1 .. N : h[k] = Further(g, w, h[k - 1], k)
               /\ HappyChain(g, w) = h[N]
  BY HappyRounds
<1>4. n <= N
  <2> DEFINE f == [i \in 1 .. n |-> Place(node, w, i)]
  <2>1. f \in [1 .. n -> Ids(g)] BY <1>1
  <2>2. \A i, j \in 1 .. n : Place(node, w, i) = Place(node, w, j) => i = j BY PlaceApart
  <2>3. \A i, j \in 1 .. n : f[i] = f[j] => i = j
    <3>1. \A i \in 1 .. n : f[i] = Place(node, w, i) OBVIOUS
    <3> HIDE DEF f
    <3> QED BY <2>2, <3>1
  <2>4. f \in Injection(1 .. n, Ids(g))
    <3> HIDE DEF f
    <3> QED BY <2>1, <2>3, Fun_IsInj
  <2> HIDE DEF f, n
  <2>5. Cardinality(1 .. n) <= N BY <2>4, FS_Injection
  <2>6. Cardinality(1 .. n) = n
    <3>1. Cardinality(1 .. n) = IF 1 > n THEN 0 ELSE n - 1 + 1 BY <1>1, FS_Interval
    <3> QED BY <1>1, <3>1
  <2> QED BY <2>5, <2>6
<1> HIDE DEF n, N
<1>5. \A k \in 0 .. N : k \in {j \in 0 .. N : h[j] = Prefix(node, w, upto(j))}
  <2> DEFINE U == {j \in 0 .. N : h[j] = Prefix(node, w, upto(j))}
  <2>1. 0 \in U
    <3>1. Prefix(node, w, 0) = <<>>
      <4>1. 1 .. 0 = {} OBVIOUS
      <4> QED BY <4>1 DEF Prefix
    <3>2. upto(0) = 0 /\ 0 \in 0 .. N BY <1>1, <1>2
    <3> QED BY <1>3, <3>1, <3>2
  <2>2. ASSUME NEW k \in 1 .. N, k - 1 \in U PROVE k \in U
    <3> DEFINE m == upto(k - 1)
    <3>1. h[k - 1] = Prefix(node, w, m) BY <2>2
    <3>2. m \in 0 .. n /\ k \in Nat /\ k # 0 BY <1>1, <1>2
    <3>3. Further(g, w, Prefix(node, w, m), k)
            = Prefix(node, w, IF m = k - 1 /\ m < n THEN m + 1 ELSE m)
      <4> HIDE DEF m
      <4> QED BY <3>2, FurtherPrefix DEF n
    <3>4. (IF m = k - 1 /\ m < n THEN m + 1 ELSE m) = upto(k) BY <1>1, <1>2
    <3>5. h[k] = Prefix(node, w, upto(k))
      <4> HIDE DEF upto, m
      <4> QED BY <1>3, <3>1, <3>3, <3>4
    <3> HIDE DEF upto
    <3> QED BY <3>5
  <2> HIDE DEF U
  <2>3. \A k \in 0 .. N : k \in U BY <1>2, <2>1, <2>2, Upwards
  <2> QED BY <2>3 DEF U
<1>6. N \in 0 .. N /\ upto(N) = n BY <1>1, <1>2, <1>4
<1>7. h[N] = Prefix(node, w, upto(N))
  <2> HIDE DEF upto
  <2> QED BY <1>5, <1>6
<1> QED BY <1>3, <1>6, <1>7 DEF n

\* Every write task has its tests, and a floor that a person may approve.
Tested(node) ==
  \A w \in Writes(node) :
    /\ Shaped(node[w], Chain(node, w))
    /\ Len(node[w].cmds) \in Nat /\ DOMAIN node[w].cmds = 1 .. Len(node[w].cmds)
    /\ \A k \in 1 .. Len(node[w].cmds) : node[w].cmds[k] # "none"
    /\ node[w].floor # L4

\* _validate_security_sequence accepts the chain.
LEMMA SequenceOfChain ==
  ASSUME NEW g, NEW node, NEW edges, Sewn(g, node, edges), Tested(node),
         NEW w \in Writes(node)
  PROVE SequenceValid(g, w, Prefix(node, w, Last(node, w)))
<1> DEFINE s == Chain(node, w)
           n == Last(node, w)
           x == node[w]
           c == Prefix(node, w, n)
           m == Len(x.cmds)
           Is(i, kind, rule) == g.node[c[i]].kind = kind /\ g.node[c[i]].rule = rule
<1>1. /\ g.node[w] = x /\ n \in Nat /\ n >= 5 /\ n = Len(s)
      /\ \A i \in 1 .. n : g.node[Place(node, w, i)] = ChainNode(w, x, s[i])
  BY PlaceFacts DEF Last
<1>2. Shaped(x, s) /\ m \in Nat /\ DOMAIN x.cmds = 1 .. m BY DEF Tested
<1>3. Len(c) = n
  <2> DEFINE S == {Place(node, w, i) : i \in 1 .. n}
  <2>1. c \in [1 .. n -> S] BY DEF Prefix
  <2> HIDE DEF c, n, S
  <2> QED BY <1>1, <2>1
<1>4. ASSUME NEW i \in 1 .. n
      PROVE /\ g.node[c[i]].kind = s[i].kind /\ g.node[c[i]].rule = s[i].rule
            /\ g.node[c[i]].test = s[i].test /\ g.node[c[i]].argv = s[i].argv
  <2>1. c[i] = Place(node, w, i) BY DEF Prefix
  <2>2. g.node[c[i]] = ChainNode(w, x, s[i]) BY <1>1, <2>1
  <2> QED BY <2>2 DEF ChainNode
<1>5. ASSUME NEW i \in 1 .. n, NEW kind, NEW name, NEW k, NEW test, NEW argv,
             s[i] = Step(kind, name, k, test, argv)
      PROVE Is(i, kind, <<name, k>>) /\ g.node[c[i]].test = test /\ g.node[c[i]].argv = argv
  BY <1>4, <1>5 DEF Step
<1> DEFINE Good(l, D) ==
             /\ l >= 5
             /\ Is(1, "patch_guard", <<"patch_guard", 0>>)
             /\ Is(l - 2, "risk", <<"risk_classifier", 0>>)
             /\ Is(l - 1, "approval", <<"changeset_approval", 0>>)
             /\ Is(l, "merge", <<"merge_patch", 0>>)
             /\ IF l = 5
                THEN Is(2, "test", <<"docs_static_test", 0>>) /\ g.node[c[2]].test = "docs_static" /\ x.cmds = <<>>
                ELSE /\ l = 2 * m + 4
                     /\ \A k \in D :
                          /\ Is(2 * k, "command_guard", <<"command_guard", k>>)
                          /\ Is(2 * k + 1, "test", <<"command_test", k>>)
                          /\ g.node[c[2 * k + 1]].test = "command" /\ g.node[c[2 * k + 1]].argv = x.cmds[k]
<1>9. SequenceValid(g, w, c) <=> Good(Len(c), DOMAIN x.cmds)
  <2> HIDE DEF c, x
  <2>1. g.node[w] = x BY <1>1
  <2> QED BY <2>1 DEF SequenceValid
<1>10. SequenceValid(g, w, c) <=> Good(n, 1 .. m)
  <2> HIDE DEF Good, c, x, n, m
  <2> QED BY <1>2, <1>3, <1>9
<1> HIDE DEF s, n, c, m, Is
<1>6. /\ Is(1, "patch_guard", <<"patch_guard", 0>>)
      /\ Is(n - 2, "risk", <<"risk_classifier", 0>>)
      /\ Is(n - 1, "approval", <<"changeset_approval", 0>>)
      /\ Is(n, "merge", <<"merge_patch", 0>>)
  <2>1. /\ s[1] = Step("patch_guard", "patch_guard", 0, "none", "none")
        /\ s[n - 2] = Step("risk", "risk_classifier", 0, "none", "none")
        /\ s[n - 1] = Step("approval", "changeset_approval", 0, "none", "none")
        /\ s[n] = Step("merge", "merge_patch", 0, "none", "none")
    BY <1>1, <1>2 DEF Shaped
  <2>2. 1 \in 1 .. n /\ n - 2 \in 1 .. n /\ n - 1 \in 1 .. n /\ n \in 1 .. n BY <1>1
  <2> QED BY <1>5, <2>1, <2>2
<1>7. CASE IsDocsStatic(x)
  <2>1. n = 5 /\ s[2] = Step("test", "docs_static_test", 0, "docs_static", "none")
    BY <1>1, <1>2, <1>7 DEF Shaped
  <2>2. 2 \in 1 .. n BY <2>1
  <2>3. Is(2, "test", <<"docs_static_test", 0>>) /\ g.node[c[2]].test = "docs_static"
    BY <1>5, <2>1, <2>2
  <2>4. x.cmds = <<>> BY <1>7 DEF IsDocsStatic
  <2>5. Good(n, 1 .. m) BY <1>6, <2>1, <2>3, <2>4
  <2> HIDE DEF Good
  <2>6. SequenceValid(g, w, c) BY <1>10, <2>5
  <2> QED BY <2>6 DEF c, n
<1>8. CASE ~IsDocsStatic(x)
  <2>1. /\ n = 2 * m + 4
        /\ \A k \in 1 .. m :
             /\ s[2 * k] = Step("command_guard", "command_guard", k, "none", "none")
             /\ s[2 * k + 1] = Step("test", "command_test", k, "command", x.cmds[k])
    BY <1>1, <1>2, <1>8 DEF Shaped, m
  <2>2. n # 5 BY <1>2, <2>1
  <2>3. ASSUME NEW k \in 1 .. m
        PROVE /\ Is(2 * k, "command_guard", <<"command_guard", k>>)
              /\ Is(2 * k + 1, "test", <<"command_test", k>>)
              /\ g.node[c[2 * k + 1]].test = "command" /\ g.node[c[2 * k + 1]].argv = x.cmds[k]
    <3>1. 2 * k \in 1 .. n /\ 2 * k + 1 \in 1 .. n BY <1>2, <2>1
    <3>2. /\ s[2 * k] = Step("command_guard", "command_guard", k, "none", "none")
          /\ s[2 * k + 1] = Step("test", "command_test", k, "command", x.cmds[k])
      BY <2>1
    <3>3. Is(2 * k, "command_guard", <<"command_guard", k>>) BY <1>5, <3>1, <3>2
    <3>4. /\ Is(2 * k + 1, "test", <<"command_test", k>>)
          /\ g.node[c[2 * k + 1]].test = "command" /\ g.node[c[2 * k + 1]].argv = x.cmds[k]
      BY <1>5, <3>1, <3>2
    <3> QED BY <3>3, <3>4
  <2>4. Good(n, 1 .. m) BY <1>1, <1>6, <2>1, <2>2, <2>3
  <2> HIDE DEF Good
  <2>6. SequenceValid(g, w, c) BY <1>10, <2>4
  <2> QED BY <2>6 DEF c, n
<1> QED BY <1>7, <1>8 DEF c, n

\* _validate_security_chains accepts what the injector made of a single-path draft.
LEMMA SealedAsAsked ==
  ASSUME NEW g, NEW node, NEW edges, Sewn(g, node, edges), SingleWay(node, edges), Tested(node),
         IsFiniteSet(Ids(g))
  PROVE SecurityChainsValid(g)
<1> SUFFICES ASSUME NEW w \in Writes(node)
             PROVE LET chain == HappyChain(g, w)
                   IN  /\ \A k \in {"patch_guard", "risk", "approval", "merge"} :
                            Cardinality({n \in SystemOf(g, w) : g.node[n].kind = k}) = 1
                       /\ \E n \in SystemOf(g, w) : g.node[n].kind = "test"
                       /\ \A m, n \in SystemOf(g, w) : g.node[m].rule = g.node[n].rule => m = n
                       /\ g.node[w].floor # L4
                       /\ {chain[i] : i \in DOMAIN chain} = SystemOf(g, w)
                       /\ \A n \in {w} \cup SystemOf(g, w) : Cardinality(HappyEdges(g, n)) = 1
                       /\ SequenceValid(g, w, chain)
                       /\ ExitsValid(g, w)
  <2>1. KindNodes(g, "write_task") = Writes(node) BY KindCases
  <2> QED BY <2>1 DEF SecurityChainsValid
<1> DEFINE s == Chain(node, w)
           n == Last(node, w)
           x == node[w]
           p(i) == Place(node, w, i)
           chain == HappyChain(g, w)
<1>1. /\ g.node[w] = x /\ n \in Nat /\ n >= 5 /\ n = Len(s)
      /\ \A i \in 1 .. n : g.node[p(i)] = ChainNode(w, x, s[i]) /\ KnownStep(x, s, i)
  BY PlaceFacts DEF Last
<1>2. SystemOf(g, w) = {p(i) : i \in 1 .. n} BY KindCases
<1>3. \A i, j \in 1 .. n : p(i) = p(j) => i = j BY PlaceApart
<1>4. ASSUME NEW i \in 1 .. n PROVE g.node[p(i)].kind = s[i].kind /\ g.node[p(i)].rule = s[i].rule
  <2>1. g.node[p(i)] = ChainNode(w, x, s[i]) BY <1>1
  <2> QED BY <2>1 DEF ChainNode
<1>5. Shaped(x, s) /\ x.floor # L4 BY DEF Tested
<1>6. chain = Prefix(node, w, n) BY ChainFollowed
<1> HIDE DEF s, n, p, chain
<1>7. ASSUME NEW k \in {"patch_guard", "risk", "approval", "merge"}
      PROVE Cardinality({m \in SystemOf(g, w) : g.node[m].kind = k}) = 1
  <2> DEFINE a == CASE k = "patch_guard" -> 1 [] k = "risk" -> n - 2 [] k = "approval" -> n - 1
                    [] OTHER -> n
  <2>1. a \in 1 .. n /\ \A i \in 1 .. n : s[i].kind = k <=> i = a
    <3>1. \A i \in 1 .. n : KnownStep(x, s, i) BY <1>1
    <3>2. \A i \in 1 .. n : /\ s[i].kind = "patch_guard" <=> i = 1
                            /\ s[i].kind = "risk" <=> i = n - 2
                            /\ s[i].kind = "approval" <=> i = n - 1
                            /\ s[i].kind = "merge" <=> i = n
      BY <1>1, <3>1 DEF KnownStep
    <3>3. CASE k = "patch_guard" BY <1>1, <3>2, <3>3
    <3>4. CASE k = "risk" BY <1>1, <3>2, <3>4
    <3>5. CASE k = "approval" BY <1>1, <3>2, <3>5
    <3>6. CASE k = "merge" BY <1>1, <3>2, <3>6
    <3> QED BY <3>3, <3>4, <3>5, <3>6
  <2> HIDE DEF a
  <2>2. {m \in SystemOf(g, w) : g.node[m].kind = k} = {p(a)} BY <1>2, <1>4, <2>1
  <2> QED BY <2>2, FS_Singleton
<1>8. \E m \in SystemOf(g, w) : g.node[m].kind = "test"
  <2>1. Len(x.cmds) \in Nat /\ \A k \in 1 .. Len(x.cmds) : x.cmds[k] # "none" BY DEF Tested
  <2>2. \E i \in 1 .. n : s[i].kind = "test" BY <1>1, <1>5, <2>1, ChainKnown
  <2> QED BY <1>2, <1>4, <2>2
<1>9. ASSUME NEW m \in SystemOf(g, w), NEW o \in SystemOf(g, w), g.node[m].rule = g.node[o].rule
      PROVE m = o
  <2>1. PICK i \in 1 .. n : m = p(i) BY <1>2
  <2>2. PICK j \in 1 .. n : o = p(j) BY <1>2
  <2>3. s[i].rule = s[j].rule BY <1>4, <1>9, <2>1, <2>2
  <2>4. \A k, l \in 1 .. n : s[k].rule[1] = s[l].rule[1] /\ s[k].rule[2] = s[l].rule[2] => k = l
    BY <1>1 DEF Sewn, Sealable, s
  <2>5. i = j BY <2>3, <2>4
  <2> QED BY <2>1, <2>2, <2>5
<1>10. {chain[i] : i \in DOMAIN chain} = SystemOf(g, w)
  <2>1. DOMAIN chain = 1 .. n /\ \A i \in 1 .. n : chain[i] = p(i) BY <1>6 DEF Prefix, p
  <2> QED BY <1>2, <2>1
<1>11. ASSUME NEW m \in {w} \cup SystemOf(g, w) PROVE Cardinality(HappyEdges(g, m)) = 1
  <2>1. CASE m = w
    <3>1. HappyEdges(g, w) = {Enter(node, w)} BY ChainHappy
    <3> QED BY <2>1, <3>1, FS_Singleton
  <2>2. CASE m # w
    <3>1. PICK i \in 1 .. n : m = Place(node, w, i) BY <1>2, <2>2 DEF p
    <3>2. i \in 1 .. Last(node, w) BY DEF n
    <3>4. HappyWay(g, node, w, i) BY <3>2, ChainHappy
    <3>3. \E e : HappyEdges(g, Place(node, w, i)) = {e} BY <3>4 DEF HappyWay
    <3> QED BY <3>1, <3>3, FS_Singleton
  <2> QED BY <2>1, <2>2
<1>12. SequenceValid(g, w, chain) BY <1>6, SequenceOfChain DEF n
<1>13. ExitsValid(g, w)
  <2> SUFFICES ASSUME NEW m \in SystemOf(g, w)
               PROVE /\ Cardinality(UnhappyEdges(g, m)) = 1
                     /\ \A e \in UnhappyEdges(g, m) : e.to \in KindNodes(g, "output")
    BY DEF ExitsValid
  <2>1. PICK i \in 1 .. n : m = Place(node, w, i) BY <1>2 DEF p
  <2>2. UnhappyEdges(g, m) = {Fail(node, w, i)} BY <2>1, ChainHappy DEF n
  <2>3. Fail(node, w, i).to = Exit(node) BY DEF Fail, SystemEdge
  <2>4. KindNodes(g, "output") = {Exit(node)} BY OneExit
  <2> QED BY <2>2, <2>3, <2>4, FS_Singleton
<1> QED BY <1>1, <1>5, <1>7, <1>8, <1>9, <1>10, <1>11, <1>12, <1>13 DEF chain

-------------------------------------------------------------------------------
(* The last check of the nodes and edges one by one *)

\* The kinds of an author's nodes that are no task.
PlainKinds == {"input", "context_builder", "if", "output"}

\* The author's nodes and edges carry what their kinds may.
Proper(node, edges) ==
  /\ \A n \in DOMAIN node :
       /\ node[n].kind \in PlainKinds \cup {"write_task", "read_task"}
       /\ IF node[n].kind \in PlainKinds
          THEN /\ node[n].source = NoNode /\ node[n].agent = "none" /\ node[n].floor < 0
               /\ node[n].test = "none" /\ node[n].argv = "none"
          ELSE TaskExecutable(node[n])
  /\ \A e \in edges : e.cond \in EmitsCompiled(node[e.from].kind)

\* _validate_node accepts every node of the compiled graph.
LEMMA NodesAsAsked ==
  ASSUME NEW g, NEW node, NEW edges, Sewn(g, node, edges), Proper(node, edges), NEW n \in Ids(g)
  PROVE NodeExecutable(g, g.node[n])
<1>1. CASE n \in DOMAIN node
  <2>1. g.node[n] = node[n] BY <1>1, KindCases
  <2> DEFINE x == node[n]
  <2>2. /\ x.kind \in PlainKinds \cup {"write_task", "read_task"}
        /\ IF x.kind \in PlainKinds
           THEN /\ x.source = NoNode /\ x.agent = "none" /\ x.floor < 0
                /\ x.test = "none" /\ x.argv = "none"
           ELSE TaskExecutable(x)
    BY <1>1 DEF Proper
  <2> HIDE DEF x
  <2>3. CASE x.kind \in PlainKinds
    <3>1. x.kind \notin SystemKinds /\ x.kind \notin {"write_task", "read_task"}
      BY <2>3 DEF PlainKinds, SystemKinds
    <3>2. NodeExecutable(g, x) BY <2>2, <2>3, <3>1 DEF NodeExecutable
    <3> QED BY <2>1, <3>2 DEF x
  <2>4. CASE x.kind \notin PlainKinds
    <3>1. x.kind \notin SystemKinds /\ x.kind \in {"write_task", "read_task"}
      BY <2>2, <2>4 DEF SystemKinds
    <3>2. NodeExecutable(g, x) BY <2>2, <2>4, <3>1 DEF NodeExecutable
    <3> QED BY <2>1, <3>2 DEF x
  <2> QED BY <2>3, <2>4
<1>2. CASE n \notin DOMAIN node
  <2>1. PICK w \in Writes(node) : \E i \in 1 .. Last(node, w) : n = Place(node, w, i) BY <1>2, NodeCases
  <2>2. PICK i \in 1 .. Last(node, w) : n = Place(node, w, i) BY <2>1
  <2> DEFINE x == g.node[n]
             y == node[w]
             s == Chain(node, w)[i]
  <2>3. x = ChainNode(w, y, s) /\ KnownStep(y, Chain(node, w), i) BY <2>2, PlaceFacts
  <2>4. w \in Ids(g) /\ g.node[w] = y /\ y.kind = "write_task" BY PlaceFacts
  <2>5. /\ s.kind \in SystemKinds
        /\ IF s.kind = "test"
           THEN \/ s.test = "command" /\ s.argv # "none"
                \/ s.test = "docs_static" /\ s.argv = "none" /\ IsDocsStatic(y)
           ELSE s.test = "none" /\ s.argv = "none"
    BY <2>3 DEF KnownStep
  <2> HIDE DEF x, y, s
  <2>6. /\ x.kind = s.kind /\ x.source = w /\ x.floor = y.floor /\ x.files = 0 /\ x.cmds = <<>>
        /\ x.agent = "none" /\ x.up = NoNode /\ x.test = s.test /\ x.argv = s.argv
    BY <2>3 DEF ChainNode
  <2>7. s.kind = "test" => TestNodeValid(g, x) BY <2>4, <2>5, <2>6 DEF TestNodeValid, IsDocsStatic
  <2>8. SystemNodeExecutable(g, x) BY <2>4, <2>5, <2>6, <2>7 DEF SystemNodeExecutable
  <2>9. x.kind \notin {"write_task", "read_task"} BY <2>5, <2>6 DEF SystemKinds
  <2>10. NodeExecutable(g, x) BY <2>5, <2>6, <2>8, <2>9 DEF NodeExecutable
  <2> QED BY <2>10 DEF x
<1> QED BY <1>1, <1>2

\* Every edge carries an outcome of its source, and stays within one chain.
LEMMA EdgesAsAsked ==
  ASSUME NEW g, NEW node, NEW edges, Sewn(g, node, edges), Proper(node, edges), NEW e \in g.edges
  PROVE EdgeExecutable(g, e)
<1>1. CASE e \in Untouched(node, edges) /\ e \in edges /\ e.from \in DOMAIN node /\ e.to \in DOMAIN node
  <2>1. /\ e.from \in Ids(g) /\ e.to \in Ids(g) /\ g.node[e.from] = node[e.from]
        /\ ~IsSystem(g, e.from) /\ ~IsSystem(g, e.to)
    BY <1>1, KindCases
  <2>2. ~e.sys BY <1>1, KeptFacts
  <2>3. e.cond \in EmitsCompiled(g.node[e.from].kind) BY <1>1, <2>1 DEF Proper
  <2> QED BY <2>1, <2>2, <2>3 DEF EdgeExecutable
<1>2. ASSUME NEW w \in Writes(node), Link(e, node, edges, w) PROVE EdgeExecutable(g, e)
  <2> DEFINE n == Last(node, w)
             p(i) == Place(node, w, i)
             s == Chain(node, w)
  <2>1. /\ e.sys = TRUE /\ e.from \in Ids(g) /\ e.to \in Ids(g)
        /\ LinkFrom(e, node, w) /\ LinkTo(e, node, edges, w)
    BY <1>2, LinkFacts
  <2>2. /\ w \in Ids(g) /\ w \in DOMAIN node /\ g.node[w] = node[w] /\ node[w].kind = "write_task"
        /\ n \in Nat /\ n >= 5 /\ n = Len(s)
    BY PlaceFacts DEF Last
  <2>3. ASSUME NEW i \in 1 .. n
        PROVE /\ IsSystem(g, p(i)) /\ g.node[p(i)].source = w /\ g.node[p(i)].kind = s[i].kind
              /\ s[i].kind \in SystemKinds /\ (i = n => s[i].kind = "merge")
              /\ p(i) \notin DOMAIN node
    <3>1. /\ g.node[p(i)] = ChainNode(w, node[w], s[i]) /\ KnownStep(node[w], s, i)
          /\ p(i) \notin DOMAIN node
      BY PlaceFacts
    <3>2. g.node[p(i)].source = w /\ g.node[p(i)].kind = s[i].kind BY <3>1 DEF ChainNode
    <3>3. s[i].kind \in SystemKinds /\ (i = n => s[i].kind = "merge") BY <2>2, <3>1 DEF KnownStep
    <3> QED BY <3>1, <3>2, <3>3 DEF IsSystem
  <2>4. \A x \in DOMAIN node : ~IsSystem(g, x) BY KindCases
  <2>5. \A k \in SystemKinds : Happy(k) \in EmitsCompiled(k) /\ Unhappy(k) \in EmitsCompiled(k)
    BY DEF SystemKinds, Happy, Unhappy, EmitsCompiled
  <2>6. "success" \in EmitsCompiled("write_task") /\ "success" \in EmitsCompiled("merge")
    BY DEF EmitsCompiled
  <2> HIDE DEF n, p, s
  <2>7. CASE e = Enter(node, w)
    <3>1. e.from = w /\ e.to = p(1) /\ e.cond = "success" /\ 1 \in 1 .. n
      BY <2>2, <2>7 DEF Enter, SystemEdge, p
    <3>2. IsSystem(g, e.to) /\ ~IsSystem(g, e.from) BY <2>2, <2>3, <2>4, <3>1
    <3>3. e.cond \in EmitsCompiled(g.node[e.from].kind) BY <2>2, <2>6, <3>1
    <3> QED BY <2>1, <3>2, <3>3 DEF EdgeExecutable
  <2>8. ASSUME NEW i \in 1 .. n - 1, e = Pass(node, w, i) PROVE EdgeExecutable(g, e)
    <3>1. e.from = p(i) /\ e.to = p(i + 1) /\ e.cond = Happy(s[i].kind)
      BY <2>8 DEF Pass, SystemEdge, p, s
    <3>2. i \in 1 .. n /\ i + 1 \in 1 .. n BY <2>2
    <3>3. /\ IsSystem(g, e.from) /\ IsSystem(g, e.to)
          /\ g.node[e.from].source = g.node[e.to].source
          /\ g.node[e.from].kind = s[i].kind /\ s[i].kind \in SystemKinds
      BY <2>3, <3>1, <3>2
    <3>4. e.cond \in EmitsCompiled(g.node[e.from].kind) BY <2>5, <3>1, <3>3
    <3> QED BY <2>1, <3>3, <3>4 DEF EdgeExecutable
  <2>9. ASSUME NEW i \in 1 .. n, e.from = p(i), e.to \in DOMAIN node,
               e.cond \in EmitsCompiled(s[i].kind)
        PROVE EdgeExecutable(g, e)
    <3>1. /\ IsSystem(g, e.from) /\ ~IsSystem(g, e.to) /\ g.node[e.from].kind = s[i].kind
      BY <2>3, <2>4, <2>9
    <3> QED BY <2>1, <2>9, <3>1 DEF EdgeExecutable
  <2>10. ASSUME NEW i \in 1 .. n, e = Fail(node, w, i) PROVE EdgeExecutable(g, e)
    <3>1. e.from = p(i) /\ e.to = Exit(node) /\ e.cond = Unhappy(s[i].kind)
      BY <2>10 DEF Fail, SystemEdge, p, s
    <3>2. e.to \in DOMAIN node BY <3>1, OneExit
    <3>3. e.cond \in EmitsCompiled(s[i].kind) BY <2>3, <2>5, <3>1
    <3> QED BY <2>9, <3>1, <3>2, <3>3
  <2>11. ASSUME e = Ends(node, w) PROVE EdgeExecutable(g, e)
    <3>1. e.from = p(n) /\ e.to = Exit(node) /\ e.cond = "success" /\ n \in 1 .. n
      BY <2>2, <2>11 DEF Ends, SystemEdge, p, n
    <3>2. e.to \in DOMAIN node BY <3>1, OneExit
    <3>3. e.cond \in EmitsCompiled(s[n].kind) BY <2>3, <2>6, <3>1
    <3> QED BY <2>9, <3>1, <3>2, <3>3
  <2>12. ASSUME NEW f \in SuccessEdges(edges, w), e = Resumed(node, w, f) PROVE EdgeExecutable(g, e)
    <3>1. e.from = p(n) /\ e.to = f.to /\ e.cond = "success" /\ n \in 1 .. n
      BY <2>2, <2>12 DEF Resumed, SystemEdge, p, n
    <3>2. f \in edges BY DEF SuccessEdges, Out
    <3>3. e.to \in DOMAIN node BY <3>1, <3>2, KeptFacts
    <3>4. e.cond \in EmitsCompiled(s[n].kind) BY <2>3, <2>6, <3>1
    <3> QED BY <2>9, <3>1, <3>3, <3>4
  <2> QED BY <1>2, <2>7, <2>8, <2>10, <2>11, <2>12 DEF Link, n
<1> QED BY <1>1, <1>2, LinkOrKept

-------------------------------------------------------------------------------
(* The last check of the paths *)

\* What the checks of a draft say of its paths.
Bounded(node, edges) ==
  /\ \E i \in DOMAIN node :
       /\ {n \in DOMAIN node : node[n].kind = "input"} = {i}
       /\ Into(edges, i) = {} /\ DOMAIN node \subseteq Closure({i}, edges)
  /\ \A e \in edges : e.from # Exit(node)
  /\ \A n \in DOMAIN node \ {Exit(node)} : Out(edges, n) # {}
  /\ ~ContainsCycle(DOMAIN node, edges)

\* Whoever can be reached backwards from a node of a chain without end, so can its task.
LEMMA BackAlong ==
  ASSUME NEW g, NEW node, NEW edges, Sewn(g, node, edges),
         NEW S, \A n \in S : \E e \in Into(g.edges, n) : e.from \in S,
         NEW w \in Writes(node), NEW i \in 1 .. Last(node, w), Place(node, w, i) \in S
  PROVE w \in S
<1> DEFINE n == Last(node, w)
           T == {k \in 0 .. n : k = 0 \/ (Place(node, w, k) \in S => w \in S)}
<1>1. n \in Nat BY PlaceFacts
<1>2. 0 \in T BY <1>1
<1>3. ASSUME NEW k \in 1 .. n, k - 1 \in T PROVE k \in T
  <2> SUFFICES ASSUME Place(node, w, k) \in S PROVE w \in S BY <1>1
  <2>1. PICK e \in Into(g.edges, Place(node, w, k)) : e.from \in S OBVIOUS
  <2>2. e \in g.edges /\ e.to = Place(node, w, k) BY DEF Into
  <2>3. (k = 1 /\ e = Enter(node, w)) \/ (k > 1 /\ e = Pass(node, w, k - 1)) BY <2>2, ToPlace
  <2>4. CASE k = 1 /\ e = Enter(node, w)
    <3>1. e.from = w BY <2>4 DEF Enter, SystemEdge
    <3> QED BY <2>1, <3>1
  <2>5. CASE k > 1 /\ e = Pass(node, w, k - 1)
    <3>1. e.from = Place(node, w, k - 1) BY <2>5 DEF Pass, SystemEdge
    <3>2. k - 1 # 0 BY <1>1, <2>5
    <3> QED BY <1>3, <2>1, <3>1, <3>2
  <2> QED BY <2>3, <2>4, <2>5
<1> HIDE DEF T, n
<1>4. \A k \in 0 .. n : k \in T BY <1>1, <1>2, <1>3, Upwards
<1>5. i \in 0 .. n /\ i # 0 BY <1>1 DEF n
<1>6. i \in T BY <1>4, <1>5
<1> QED BY <1>5, <1>6 DEF T

\* No chain closes a cycle.
LEMMA StaysAcyclic ==
  ASSUME NEW g, NEW node, NEW edges, Sewn(g, node, edges), Bounded(node, edges), IsFiniteSet(Ids(g)),
         \A e \in g.edges : e.from \in Ids(g)
  PROVE ~ContainsCycle(Ids(g), g.edges)
<1> SUFFICES ASSUME ContainsCycle(Ids(g), g.edges) PROVE FALSE OBVIOUS
<1>1. PICK S \in (SUBSET Ids(g)) \ {{}} : \A n \in S : \E e \in Into(g.edges, n) : e.from \in S
  BY CycleCheckExact DEF Cyclic
<1> DEFINE T == (S \cap DOMAIN node) \ {Exit(node)}
<1>2. ASSUME NEW w \in Writes(node), w \in S PROVE w \in T
  <2>1. node[w].kind = "write_task" /\ w \in DOMAIN node BY PlaceFacts
  <2>2. \A n \in DOMAIN node : node[n].kind = "output" <=> n = Exit(node) BY DEF Sewn, Sealable
  <2> QED BY <1>2, <2>1, <2>2
<1>3. ASSUME NEW w \in Writes(node), NEW i \in 1 .. Last(node, w), Place(node, w, i) \in S PROVE w \in T
  BY <1>1, <1>2, <1>3, BackAlong
<1>4. ASSUME NEW e \in g.edges, e.from \in S, e.to \in DOMAIN node
      PROVE /\ \E x : x \in T
            /\ e.to # Exit(node) => \E f \in Into(edges, e.to) : f.from \in T
  <2>1. CASE e \in Untouched(node, edges)
    <3>1. e \in edges BY <2>1 DEF Untouched
    <3>2. e.from \in DOMAIN node /\ e.from # Exit(node) BY <3>1, KeptFacts DEF Bounded
    <3>3. e.from \in T BY <1>4, <3>2
    <3> QED BY <3>1, <3>3 DEF Into
  <2>2. CASE \E w \in Writes(node) : \E f \in SuccessEdges(edges, w) : e = Resumed(node, w, f)
    <3>1. PICK w \in Writes(node) : \E f \in SuccessEdges(edges, w) : e = Resumed(node, w, f) BY <2>2
    <3>2. PICK f \in SuccessEdges(edges, w) : e = Resumed(node, w, f) BY <3>1
    <3>3. e.from = Place(node, w, Last(node, w)) /\ e.to = f.to BY <3>2 DEF Resumed, SystemEdge
    <3>4. Last(node, w) \in Nat /\ Last(node, w) >= 5 BY PlaceFacts
    <3>5. Last(node, w) \in 1 .. Last(node, w) BY <3>4
    <3>6. w \in T BY <1>3, <1>4, <3>3, <3>5
    <3>7. f \in edges /\ f.from = w BY DEF SuccessEdges, Out
    <3> QED BY <3>3, <3>6, <3>7 DEF Into
  <2>3. CASE e.to = Exit(node) /\ e.from \notin DOMAIN node
    <3>1. e.from \in Ids(g) BY <1>1, <1>4
    <3>2. PICK w \in Writes(node) : \E i \in 1 .. Last(node, w) : e.from = Place(node, w, i)
      BY <2>3, <3>1, NodeCases
    <3>3. PICK i \in 1 .. Last(node, w) : e.from = Place(node, w, i) BY <3>2
    <3>4. w \in T BY <1>3, <1>4, <3>3
    <3> QED BY <2>3, <3>4
  <2> QED BY <1>4, <2>1, <2>2, <2>3, ToDraft
<1>5. T # {}
  <2>1. PICK n \in S : TRUE BY <1>1
  <2>2. CASE n \in DOMAIN node
    <3>1. PICK e \in Into(g.edges, n) : e.from \in S BY <1>1
    <3>2. e \in g.edges /\ e.to = n BY DEF Into
    <3> HIDE DEF T
    <3> QED BY <1>4, <2>2, <3>1, <3>2
  <2>3. CASE n \notin DOMAIN node
    <3>1. n \in Ids(g) BY <1>1
    <3>2. PICK w \in Writes(node) : \E i \in 1 .. Last(node, w) : n = Place(node, w, i)
      BY <2>3, <3>1, NodeCases
    <3>3. PICK i \in 1 .. Last(node, w) : n = Place(node, w, i) BY <3>2
    <3>4. w \in T BY <1>3, <3>3
    <3> QED BY <3>4
  <2> QED BY <2>2, <2>3
<1>6. ASSUME NEW n \in T PROVE \E f \in Into(edges, n) : f.from \in T
  <2>1. n \in S /\ n \in DOMAIN node /\ n # Exit(node) OBVIOUS
  <2>2. PICK e \in Into(g.edges, n) : e.from \in S BY <1>1, <2>1
  <2>3. e \in g.edges /\ e.to = n BY DEF Into
  <2> HIDE DEF T
  <2> QED BY <1>4, <2>1, <2>2, <2>3
<1>7. Cyclic(DOMAIN node, edges)
  <2>1. T \in (SUBSET DOMAIN node) \ {{}} BY <1>5
  <2> HIDE DEF T
  <2> QED BY <1>6, <2>1 DEF Cyclic
<1>8. \A e \in edges : e.from \in DOMAIN node BY KeptFacts
<1>9. IsFiniteSet(DOMAIN node) BY DEF Sewn, Sealable
<1>10. ContainsCycle(DOMAIN node, edges) BY <1>7, <1>8, <1>9, CycleCheckExact
<1> QED BY <1>10 DEF Bounded

\* In a graph without a cycle some node of every set leads out of it.
LEMMA SomeLeads ==
  ASSUME NEW nodes, IsFiniteSet(nodes), NEW E, ~ContainsCycle(nodes, E), NEW S \in SUBSET nodes, S # {}
  PROVE \E m \in S : \A e \in E : e.from = m => e.to \notin S
<1> SUFFICES ASSUME \A m \in S : \E e \in E : e.from = m /\ e.to \in S PROVE FALSE OBVIOUS
<1> DEFINE n == Cardinality(nodes)
<1>1. PICK v : Kahn(v, nodes, E) BY KahnRounds
<1>2. n \in Nat BY FS_CardinalityType
<1>3. v[0] = {} /\ v[n] = nodes /\ \A k \in 1 .. n : v[k] = Freed(v[k - 1], nodes, E) BY <1>1 DEF Kahn
<1> DEFINE T == {k \in 0 .. n : \E m \in S : m \notin v[k]}
<1> HIDE DEF n
<1>4. 0 \in T BY <1>2, <1>3
<1>5. ASSUME NEW k \in 1 .. n, k - 1 \in T PROVE k \in T
  <2>1. PICK m \in S : m \notin v[k - 1] BY <1>5
  <2>2. PICK e \in E : e.from = m /\ e.to \in S OBVIOUS
  <2>3. e.to \notin Freed(v[k - 1], nodes, E) BY <2>1, <2>2 DEF Freed, Into
  <2>4. e.to \notin v[k] BY <1>3, <2>3
  <2> QED BY <1>2, <2>2, <2>4
<1>6. n \in 0 .. n BY <1>2
<1> HIDE DEF T
<1>7. n \in T BY <1>2, <1>4, <1>5, <1>6, Upwards
<1> QED BY <1>3, <1>7 DEF T

\* A set that the edges do not leave has, with a write task, the whole of its chain.
LEMMA AlongChain ==
  ASSUME NEW g, NEW node, NEW edges, Sewn(g, node, edges),
         NEW C, Closed(C, g.edges), NEW w \in Writes(node), w \in C
  PROVE \A i \in 1 .. Last(node, w) : Place(node, w, i) \in C
<1> DEFINE n == Last(node, w)
           T == {k \in 0 .. n : k = 0 \/ Place(node, w, k) \in C}
<1>1. n \in Nat /\ n >= 5 BY PlaceFacts
<1>2. Enter(node, w) \in g.edges /\ \A i \in 1 .. n - 1 : Pass(node, w, i) \in g.edges BY LinksIn
<1>3. 0 \in T BY <1>1
<1>4. ASSUME NEW k \in 1 .. n, k - 1 \in T PROVE k \in T
  <2>1. CASE k = 1
    <3>1. Enter(node, w).from = w /\ Enter(node, w).to = Place(node, w, 1) BY DEF Enter, SystemEdge
    <3>2. Place(node, w, 1) \in C BY <1>2, <3>1 DEF Closed
    <3> QED BY <1>1, <2>1, <3>2
  <2>2. CASE k # 1
    <3>1. k - 1 \in 1 .. n - 1 /\ (k - 1) + 1 = k BY <1>1, <2>2
    <3>2. /\ Pass(node, w, k - 1).from = Place(node, w, k - 1)
          /\ Pass(node, w, k - 1).to = Place(node, w, (k - 1) + 1)
      BY DEF Pass, SystemEdge
    <3>3. Pass(node, w, k - 1) \in g.edges /\ Place(node, w, k - 1) \in C BY <1>2, <1>4, <3>1
    <3>4. Place(node, w, k) \in C BY <3>1, <3>2, <3>3 DEF Closed
    <3> QED BY <1>1, <3>4
  <2> QED BY <2>1, <2>2
<1> HIDE DEF T, n
<1>5. \A k \in 0 .. n : k \in T BY <1>1, <1>3, <1>4, Upwards
<1>6. \A k \in 1 .. n : k \in 0 .. n /\ k # 0 BY <1>1
<1>7. \A k \in 1 .. n : Place(node, w, k) \in C BY <1>5, <1>6 DEF T
<1> QED BY <1>7 DEF n

\* Every edge is a record.
LEMMA EdgeRecords ==
  ASSUME NEW g, NEW node, NEW edges, Sewn(g, node, edges), NEW e \in g.edges
  PROVE \E b : e = [id |-> e.id, from |-> e.from, to |-> e.to, cond |-> e.cond, sys |-> b]
<1>1. CASE e \in edges BY <1>1, KeptFacts
<1>2. ASSUME NEW w \in Writes(node), Link(e, node, edges, w)
      PROVE \E b : e = [id |-> e.id, from |-> e.from, to |-> e.to, cond |-> e.cond, sys |-> b]
  <2>1. \E k, m, c, n : e = SystemEdge(k, m, c, n)
    <3>1. CASE e = Enter(node, w) BY <3>1 DEF Enter
    <3>2. CASE \E i \in 1 .. Last(node, w) - 1 : e = Pass(node, w, i) BY <3>2 DEF Pass
    <3>3. CASE \E i \in 1 .. Last(node, w) : e = Fail(node, w, i) BY <3>3 DEF Fail
    <3>4. CASE e = Ends(node, w) BY <3>4 DEF Ends
    <3>5. CASE \E f \in SuccessEdges(edges, w) : e = Resumed(node, w, f) BY <3>5 DEF Resumed
    <3> QED BY <1>2, <3>1, <3>2, <3>3, <3>4, <3>5 DEF Link
  <2>2. PICK k, m, c, n : e = SystemEdge(k, m, c, n) BY <2>1
  <2> QED BY <2>2 DEF SystemEdge
<1> QED BY <1>1, <1>2, LinkOrKept

\* From the input every node is reached.
LEMMA ReachesAll ==
  ASSUME NEW g, NEW node, NEW edges, Sewn(g, node, edges), IsFiniteSet(g.edges),
         \A e \in g.edges : e.from \in Ids(g) /\ e.to \in Ids(g),
         NEW i \in DOMAIN node, DOMAIN node \subseteq Closure({i}, edges)
  PROVE ReachableFrom(i, g.edges) = Ids(g)
<1> DEFINE C == Closure({i}, g.edges)
<1>1. /\ {i} \subseteq C /\ Closed(C, g.edges)
      /\ \A T : {i} \subseteq T /\ Closed(T, g.edges) => C \subseteq T
  BY ClosureFacts
<1>2. i \in Ids(g) BY DEF Sewn, Woven
<1>3. C \subseteq Ids(g)
  <2>1. {i} \subseteq Ids(g) /\ Closed(Ids(g), g.edges) BY <1>2 DEF Closed
  <2> HIDE DEF C
  <2> QED BY <1>1, <2>1
<1> HIDE DEF C
<1>4. \A w \in Writes(node) : w \in C => \A k \in 1 .. Last(node, w) : Place(node, w, k) \in C
  BY <1>1, AlongChain
<1>5. Closed(C, edges)
  <2> SUFFICES ASSUME NEW e \in edges, e.from \in C PROVE e.to \in C BY DEF Closed
  <2>1. Moved(node, e) \in g.edges /\ Moved(node, e).to = e.to BY MovedFacts
  <2>2. Moved(node, e).from \in C
    <3>1. CASE e.from \in Writes(node) /\ e.cond = "success"
      <4>1. Last(node, e.from) \in Nat /\ Last(node, e.from) >= 5 BY <3>1, PlaceFacts
      <4>2. Last(node, e.from) \in 1 .. Last(node, e.from) BY <4>1
      <4>3. Place(node, e.from, Last(node, e.from)) \in C BY <1>4, <3>1, <4>2
      <4>4. Moved(node, e).from = Place(node, e.from, Last(node, e.from))
        BY <3>1 DEF Moved, Resumed, SystemEdge
      <4> QED BY <4>3, <4>4
    <3>2. CASE ~(e.from \in Writes(node) /\ e.cond = "success") BY <3>2 DEF Moved
    <3> QED BY <3>1, <3>2
  <2> QED BY <1>1, <2>1, <2>2 DEF Closed
<1>6. IsFiniteSet(edges) BY DEF Sewn, Sealable
<1>7. Closure({i}, edges) \subseteq C BY <1>1, <1>5, <1>6, ClosureFacts
<1>8. Ids(g) \subseteq C
  <2> SUFFICES ASSUME NEW n \in Ids(g) PROVE n \in C OBVIOUS
  <2>1. CASE n \in DOMAIN node BY <1>7, <2>1
  <2>2. CASE n \notin DOMAIN node
    <3>1. PICK w \in Writes(node) : \E k \in 1 .. Last(node, w) : n = Place(node, w, k)
      BY <2>2, NodeCases
    <3>2. w \in DOMAIN node BY PlaceFacts
    <3> QED BY <1>4, <1>7, <3>1, <3>2
  <2> QED BY <2>1, <2>2
<1> QED BY <1>3, <1>8 DEF ReachableFrom, C

\* From every node the output is reached.
LEMMA AllReachExit ==
  ASSUME NEW g, NEW node, NEW edges, Sewn(g, node, edges), IsFiniteSet(g.edges), IsFiniteSet(Ids(g)),
         \A e \in g.edges : e.from \in Ids(g) /\ e.to \in Ids(g),
         ~ContainsCycle(Ids(g), g.edges),
         \A n \in Ids(g) \ {Exit(node)} : Out(g.edges, n) # {}
  PROVE ReachableFrom(Exit(node), Reversed(g.edges)) = Ids(g)
<1> DEFINE E == Reversed(g.edges)
           back(e) == [e EXCEPT !.from = e.to, !.to = e.from]
           C == Closure({Exit(node)}, E)
           S == Ids(g) \ C
<1>1. IsFiniteSet(E)
  <2> DEFINE G == [e \in g.edges |-> back(e)]
  <2>1. E = {G[e] : e \in g.edges} BY DEF Reversed
  <2> HIDE DEF G, E
  <2> QED BY <2>1, FiniteImage
<1>2. ASSUME NEW e \in g.edges PROVE back(e) \in E /\ back(e).from = e.to /\ back(e).to = e.from
  <2>1. back(e) \in E BY DEF Reversed
  <2>2. PICK b : e = [id |-> e.id, from |-> e.from, to |-> e.to, cond |-> e.cond, sys |-> b]
    BY EdgeRecords
  <2>3. back(e).from = e.to /\ back(e).to = e.from BY <2>2
  <2> QED BY <2>1, <2>3
<1>3. \A r \in E : \E e \in g.edges : r = back(e) BY DEF Reversed
<1> HIDE DEF E, back
<1>4. /\ {Exit(node)} \subseteq C /\ Closed(C, E)
      /\ \A T : {Exit(node)} \subseteq T /\ Closed(T, E) => C \subseteq T
  BY <1>1, ClosureFacts
<1>5. Exit(node) \in Ids(g) BY OneExit
<1>6. C \subseteq Ids(g)
  <2>1. Closed(Ids(g), E) BY <1>2, <1>3 DEF Closed
  <2> HIDE DEF C
  <2> QED BY <1>4, <1>5, <2>1
<1> HIDE DEF C
<1>7. ASSUME S # {} PROVE FALSE
  <2>1. S \in SUBSET Ids(g) OBVIOUS
  <2>2. PICK m \in S : \A e \in g.edges : e.from = m => e.to \notin S
    <3> HIDE DEF S
    <3> QED BY <1>7, <2>1, SomeLeads
  <2>3. m \in Ids(g) \ {Exit(node)} /\ m \notin C BY <1>4, <2>2
  <2>4. PICK e \in Out(g.edges, m) : TRUE BY <2>3
  <2>5. e \in g.edges /\ e.from = m BY DEF Out
  <2>6. e.to \in C BY <2>2, <2>5
  <2>7. m \in C BY <1>2, <1>4, <2>5, <2>6 DEF Closed
  <2> QED BY <2>3, <2>7
<1> QED BY <1>6, <1>7 DEF ReachableFrom, C, E

\* _validate_boundaries accepts the compiled graph: every path still leads to the output.
LEMMA BoundariesAsAsked ==
  ASSUME NEW g, NEW node, NEW edges, Sewn(g, node, edges), Bounded(node, edges),
         IsFiniteSet(g.edges), IsFiniteSet(Ids(g)),
         \A e \in g.edges : e.from \in Ids(g) /\ e.to \in Ids(g)
  PROVE BoundariesValid(g)
<1>1. PICK i \in DOMAIN node :
        /\ {n \in DOMAIN node : node[n].kind = "input"} = {i}
        /\ Into(edges, i) = {} /\ DOMAIN node \subseteq Closure({i}, edges)
  BY DEF Bounded
<1>2. KindNodes(g, "input") = {i}
  <2>1. "input" \notin SystemKinds BY DEF SystemKinds
  <2> QED BY <1>1, <2>1, KindCases
<1>3. KindNodes(g, "output") = {Exit(node)} /\ Exit(node) \in DOMAIN node BY OneExit
<1>4. \A n \in DOMAIN node : node[n].kind = "output" <=> n = Exit(node) BY DEF Sewn, Sealable
<1>5. Exit(node) \notin Writes(node) BY <1>3, <1>4, PlaceFacts
<1>6. Into(g.edges, i) = {}
  <2> SUFFICES ASSUME NEW e \in g.edges, e.to = i PROVE FALSE BY DEF Into
  <2>1. i # Exit(node) BY <1>1, <1>4
  <2>2. CASE e \in Untouched(node, edges)
    <3>1. e \in Into(edges, i) BY <2>2 DEF Untouched, Into
    <3> QED BY <1>1, <3>1
  <2>3. CASE \E w \in Writes(node) : \E f \in SuccessEdges(edges, w) : e = Resumed(node, w, f)
    <3>1. PICK w \in Writes(node) : \E f \in SuccessEdges(edges, w) : e = Resumed(node, w, f) BY <2>3
    <3>2. PICK f \in SuccessEdges(edges, w) : e = Resumed(node, w, f) BY <3>1
    <3>3. f.to = i BY <3>2 DEF Resumed, SystemEdge
    <3>4. f \in Into(edges, i) BY <3>3 DEF SuccessEdges, Out, Into
    <3> QED BY <1>1, <3>4
  <2> QED BY <2>1, <2>2, <2>3, ToDraft
<1>7. ReachableFrom(i, g.edges) = Ids(g) BY <1>1, ReachesAll
<1>8. Out(g.edges, Exit(node)) = {}
  <2> SUFFICES ASSUME NEW e \in g.edges, e.from = Exit(node) PROVE FALSE BY DEF Out
  <2>1. e \in Untouched(node, edges) BY <1>3, <1>5, FromDraft
  <2>2. e \in edges BY <2>1 DEF Untouched
  <2> QED BY <2>2 DEF Bounded
<1>9. ASSUME NEW n \in Ids(g) \ {Exit(node)} PROVE Out(g.edges, n) # {}
  <2>1. CASE n \in Writes(node)
    <3>1. Enter(node, n) \in g.edges /\ Enter(node, n).from = n BY <2>1, LinksIn DEF Enter, SystemEdge
    <3> QED BY <3>1 DEF Out
  <2>2. CASE n \in DOMAIN node /\ n \notin Writes(node)
    <3>1. Out(edges, n) # {} BY <2>2 DEF Bounded
    <3>2. PICK e \in edges : e.from = n BY <3>1 DEF Out
    <3>3. e \in Untouched(node, edges) BY <2>2, <3>2 DEF Untouched
    <3>4. e \in g.edges BY <3>3, LinksIn
    <3> QED BY <3>2, <3>4 DEF Out
  <2>3. CASE n \notin DOMAIN node
    <3>1. PICK w \in Writes(node) : \E k \in 1 .. Last(node, w) : n = Place(node, w, k)
      BY <2>3, NodeCases
    <3>2. PICK k \in 1 .. Last(node, w) : n = Place(node, w, k) BY <3>1
    <3>3. Fail(node, w, k) \in g.edges /\ Fail(node, w, k).from = n
      BY <3>2, LinksIn DEF Fail, SystemEdge
    <3> QED BY <3>3 DEF Out
  <2> QED BY <2>1, <2>2, <2>3
<1>10. ~ContainsCycle(Ids(g), g.edges) BY StaysAcyclic
<1>11. ReachableFrom(Exit(node), Reversed(g.edges)) = Ids(g) BY <1>9, <1>10, AllReachExit
<1>12. Cardinality(KindNodes(g, "input")) = 1 /\ Cardinality(KindNodes(g, "output")) = 1
  BY <1>2, <1>3, FS_Singleton
<1> QED BY <1>2, <1>3, <1>6, <1>7, <1>8, <1>9, <1>11, <1>12 DEF BoundariesValid

\* An if node of the draft has one edge for either answer.
Branches(node, edges) ==
  \A n \in DOMAIN node : node[n].kind = "if" =>
    \A c \in {"matched", "not_matched"} : Count(edges, n, c) = 1

\* _validate_outcome_branches accepts the compiled graph.
LEMMA BranchesAsAsked ==
  ASSUME NEW g, NEW node, NEW edges, Sewn(g, node, edges), SingleWay(node, edges), Branches(node, edges)
  PROVE OutcomeBranchesValid(g)
<1>1. ASSUME NEW n \in KindNodes(g, "if"), NEW c \in {"matched", "not_matched"}
      PROVE Count(g.edges, n, c) = 1
  <2>1. n \in DOMAIN node /\ node[n].kind = "if"
    <3>1. "if" \notin SystemKinds BY DEF SystemKinds
    <3> QED BY <3>1, KindCases
  <2>2. n \notin Writes(node) BY <2>1, PlaceFacts
  <2>3. ASSUME NEW e PROVE e \in Out(g.edges, n) <=> e \in Out(edges, n)
    <3>1. ASSUME e \in Out(g.edges, n) PROVE e \in Out(edges, n)
      <4>1. e \in g.edges /\ e.from = n BY <3>1 DEF Out
      <4>2. e \in Untouched(node, edges) BY <2>1, <2>2, <4>1, FromDraft
      <4> QED BY <4>1, <4>2 DEF Untouched, Out
    <3>2. ASSUME e \in Out(edges, n) PROVE e \in Out(g.edges, n)
      <4>1. e \in Untouched(node, edges) /\ e.from = n BY <2>2, <3>2 DEF Untouched, Out
      <4>2. e \in g.edges BY <4>1, LinksIn
      <4> QED BY <4>1, <4>2 DEF Out
    <3> QED BY <3>1, <3>2
  <2>4. Out(g.edges, n) = Out(edges, n) BY <2>3
  <2>5. Count(edges, n, c) = 1 BY <2>1 DEF Branches
  <2> QED BY <2>4, <2>5 DEF Count
<1>2. ASSUME NEW n \in KindNodes(g, "approval"), NEW c \in {"approved", "rejected"}
      PROVE Count(g.edges, n, c) = 1
  <2>1. n \in Ids(g) /\ g.node[n].kind = "approval" BY DEF KindNodes
  <2>2. n \notin DOMAIN node
    <3>1. "approval" \in SystemKinds BY DEF SystemKinds
    <3>2. \A m \in DOMAIN node : ~IsSystem(g, m) BY KindCases
    <3> QED BY <2>1, <3>1, <3>2 DEF IsSystem
  <2>3. PICK w \in Writes(node) : \E i \in 1 .. Last(node, w) : n = Place(node, w, i)
    BY <2>1, <2>2, NodeCases
  <2>4. PICK i \in 1 .. Last(node, w) : n = Place(node, w, i) BY <2>3
  <2>8. HappyWay(g, node, w, i) BY ChainHappy
  <2>5. \E e : HappyEdges(g, Place(node, w, i)) = {e} BY <2>8 DEF HappyWay
  <2>6. UnhappyEdges(g, Place(node, w, i)) = {Fail(node, w, i)} BY ChainHappy
  <2>7. \E x : {f \in Out(g.edges, n) : f.cond = c} = {x}
    <3>1. CASE c = "approved"
      <4>1. {f \in Out(g.edges, n) : f.cond = c} = HappyEdges(g, n) BY <2>1, <3>1 DEF HappyEdges, Happy
      <4> QED BY <2>4, <2>5, <4>1
    <3>2. CASE c = "rejected"
      <4>1. {f \in Out(g.edges, n) : f.cond = c} = UnhappyEdges(g, n)
        BY <2>1, <3>2 DEF UnhappyEdges, Unhappy
      <4> QED BY <2>4, <2>6, <4>1
    <3> QED BY <3>1, <3>2
  <2> QED BY <2>7, FS_Singleton DEF Count
<1> QED BY <1>1, <1>2 DEF OutcomeBranchesValid

\* The injector's graph passes the last check when the draft goes one way.
LEMMA InjectedIsExecutable ==
  ASSUME NEW g, NEW node, NEW edges, Sewn(g, node, edges), Tested(node), Proper(node, edges),
         Bounded(node, edges), Branches(node, edges), IsFiniteSet(g.edges), IsFiniteSet(Ids(g)),
         Cardinality(Ids(g)) <= MaxCompiledNodes, Cardinality(g.edges) <= MaxCompiledEdges
  PROVE Executable(g) <=> SingleWay(node, edges)
<1>1. Executable(g) => SingleWay(node, edges) BY SameFans DEF Executable
<1>2. ASSUME SingleWay(node, edges) PROVE Executable(g)
  <2>1. FanoutAndJoinsValid(g) BY <1>2, SameFans
  <2>2. \A n \in Ids(g) : NodeExecutable(g, g.node[n]) BY NodesAsAsked
  <2>3. \A e \in g.edges : EdgeExecutable(g, e) BY EdgesAsAsked
  <2>4. \A e \in g.edges : e.from \in Ids(g) /\ e.to \in Ids(g) BY <2>3 DEF EdgeExecutable
  <2>5. ~ContainsCycle(Ids(g), g.edges) BY <2>4, StaysAcyclic
  <2>6. BoundariesValid(g) BY <2>4, BoundariesAsAsked
  <2>7. OutcomeBranchesValid(g) BY <1>2, BranchesAsAsked
  <2>8. SecurityChainsValid(g) BY <1>2, SealedAsAsked
  <2> QED BY <2>1, <2>2, <2>3, <2>5, <2>6, <2>7, <2>8 DEF Executable
<1> QED BY <1>1, <1>2

-------------------------------------------------------------------------------
(* What a draft that compiles brings along *)

\* The author's nodes as compiled.
Author(d) == [n \in Ids(d) |-> Sealed(d.node[n])]

\* The router finds an agent for a task that has a candidate.
LEMMA Routed ==
  ASSUME NEW x, Candidates(x) # {}
  PROVE Route(x).id # "none"
<1> DEFINE Best(a) == \A b \in Candidates(x) : Score(x, b) <= Score(x, a)
<1>1. \A a : Score(x, a) = 0 \/ Score(x, a) = 1 BY DEF Score
<1>2. \E a \in Candidates(x) : Best(a)
  <2>1. CASE \E a \in Candidates(x) : Score(x, a) = 1
    <3>1. PICK a \in Candidates(x) : Score(x, a) = 1 BY <2>1
    <3>2. Best(a) BY <1>1, <3>1
    <3> QED BY <3>2
  <2>2. CASE \A a \in Candidates(x) : Score(x, a) # 1
    <3>1. PICK a \in Candidates(x) : TRUE OBVIOUS
    <3>2. Best(a) BY <1>1, <2>2
    <3> QED BY <3>2
  <2> QED BY <2>1, <2>2
<1>3. Route(x) = CHOOSE a \in Candidates(x) : Best(a) BY DEF Route
<1> HIDE DEF Best
<1>4. Route(x) \in Candidates(x) BY <1>2, <1>3
<1> QED BY <1>4, CatalogAssumption DEF Candidates

\* What compiling keeps and adds, node by node.
LEMMA AuthorFacts ==
  ASSUME NEW d, NEW n \in Ids(d), NodeValid(d.node[n])
  PROVE LET x == d.node[n]
            y == Author(d)[n]
        IN  /\ x.type \in AuthorTypes
            /\ y.kind = IF x.type # "agent_task" THEN x.type
                        ELSE IF x.write THEN "write_task" ELSE "read_task"
            /\ y.source = NoNode /\ y.test = "none" /\ y.argv = "none"
            /\ y.cmds = x.cmds /\ y.docs = x.docs /\ y.files = x.files
            /\ y.hint = x.hint /\ y.scope = x.scope
            /\ y.floor = IF x.type = "agent_task" THEN RiskFloor(x) ELSE 0 - 1
            /\ y.agent = IF x.type = "agent_task" THEN Route(x).id ELSE "none"
BY DEF Author, Sealed, NodeValid, EffectiveCommands

\* The kinds tell the types.
LEMMA AuthorKinds ==
  ASSUME NEW d, NEW n \in Ids(d), NodeValid(d.node[n])
  PROVE /\ Author(d)[n].kind \in PlainKinds \cup {"write_task", "read_task"}
        /\ Author(d)[n].kind \notin SystemKinds
        /\ Author(d)[n].kind \in PlainKinds <=> d.node[n].type # "agent_task"
        /\ Author(d)[n].kind \in PlainKinds => Author(d)[n].kind = d.node[n].type
        /\ \A k \in PlainKinds : Author(d)[n].kind = k <=> d.node[n].type = k
        /\ Author(d)[n].kind = "write_task" <=> d.node[n].type = "agent_task" /\ d.node[n].write
<1> DEFINE x == d.node[n]
           y == Author(d)[n]
<1>1. /\ x.type \in AuthorTypes
      /\ y.kind = IF x.type # "agent_task" THEN x.type
                  ELSE IF x.write THEN "write_task" ELSE "read_task"
  BY AuthorFacts
<1> HIDE DEF x, y
<1>2. x.type # "agent_task" => y.kind = x.type /\ x.type \in PlainKinds
  BY <1>1 DEF AuthorTypes, PlainKinds
<1>3. x.type = "agent_task" => y.kind = "write_task" \/ y.kind = "read_task" BY <1>1
<1>4. /\ "write_task" \notin PlainKinds /\ "read_task" \notin PlainKinds /\ "agent_task" \notin PlainKinds
      /\ \A k \in PlainKinds : k \notin SystemKinds
      /\ "write_task" \notin SystemKinds /\ "read_task" \notin SystemKinds
  BY DEF PlainKinds, SystemKinds
<1>5. y.kind = "write_task" <=> x.type = "agent_task" /\ x.write BY <1>1, <1>2, <1>4
<1>6. y.kind \in PlainKinds \cup {"write_task", "read_task"} /\ y.kind \notin SystemKinds
  BY <1>2, <1>3, <1>4
<1>7. /\ y.kind \in PlainKinds <=> x.type # "agent_task"
      /\ y.kind \in PlainKinds => y.kind = x.type
      /\ \A k \in PlainKinds : y.kind = k <=> x.type = k
  BY <1>2, <1>3, <1>4
<1> QED BY <1>5, <1>6, <1>7 DEF x, y

\* What the lemmas below ask of a draft.
Ready(d) ==
  /\ FiniteDraft(d) /\ DraftShape(d) /\ Compiles(d) /\ ~TestMissing(d)

\* The output of the draft is the injector's.
LEMMA DraftExit ==
  ASSUME NEW d, Ready(d)
  PROVE /\ OfType(d, "output") = {Exit(Author(d))}
        /\ Exit(Author(d)) \in Ids(d)
        /\ \A n \in Ids(d) : Author(d)[n].kind = "output" <=> n = Exit(Author(d))
        /\ DOMAIN Author(d) = Ids(d)
<1> DEFINE node == Author(d)
<1>1. DOMAIN node = Ids(d) BY DEF Author
<1>2. /\ Cardinality(OfType(d, "output")) = 1 /\ \A n \in Ids(d) : NodeValid(d.node[n])
      /\ IsFiniteSet(Ids(d))
  BY DEF Ready, Compiles, DraftValid, Complete, FiniteDraft
<1>3. OfType(d, "output") \in SUBSET Ids(d) BY DEF OfType
<1>4. IsFiniteSet(OfType(d, "output")) BY <1>2, <1>3, FS_Subset
<1>5. PICK o : OfType(d, "output") = {o} BY <1>2, <1>4, FS_Singleton
<1>6. "output" \in PlainKinds BY DEF PlainKinds
<1>7. \A n \in Ids(d) : node[n].kind = "output" <=> d.node[n].type = "output" BY <1>2, <1>6, AuthorKinds
<1> HIDE DEF node
<1>8. o \in Ids(d) /\ \A n \in Ids(d) : node[n].kind = "output" <=> n = o BY <1>5, <1>7 DEF OfType
<1>9. Exit(node) = o
  <2> DEFINE p == CHOOSE n \in DOMAIN node : node[n].kind = "output"
  <2>1. p \in DOMAIN node /\ node[p].kind = "output" BY <1>1, <1>8
  <2> HIDE DEF p
  <2>2. p = o BY <1>1, <1>8, <2>1
  <2> QED BY <2>2 DEF Exit, p
<1> QED BY <1>1, <1>5, <1>8, <1>9 DEF node

\* The commands of a write task.
LEMMA DraftTested ==
  ASSUME NEW d, Ready(d)
  PROVE Tested(Author(d))
<1> SUFFICES ASSUME NEW w \in Writes(Author(d))
             PROVE LET y == Author(d)[w]
                   IN  /\ Shaped(y, Chain(Author(d), w))
                       /\ Len(y.cmds) \in Nat /\ DOMAIN y.cmds = 1 .. Len(y.cmds)
                       /\ \A k \in 1 .. Len(y.cmds) : y.cmds[k] # "none"
                       /\ y.floor # L4
  BY DEF Tested
<1> DEFINE x == d.node[w]
           y == Author(d)[w]
<1>1. w \in Ids(d) /\ y.kind = "write_task" BY DEF Writes, Author
<1>2. NodeValid(x) BY <1>1 DEF Ready, Compiles, DraftValid
<1>3. x.type = "agent_task" /\ x.write BY <1>1, <1>2, AuthorKinds
<1>4. y.cmds = x.cmds /\ y.docs = x.docs /\ y.floor = RiskFloor(x) BY <1>1, <1>2, <1>3, AuthorFacts
<1>5. w \in OfType(d, "agent_task") BY <1>1, <1>3 DEF OfType
<1>6. TaskCompiles(x) /\ (IsDocsStatic(x) \/ x.cmds # <<>>) BY <1>3, <1>5 DEF Ready, Compiles, TestMissing
<1>7. /\ Len(x.cmds) \in Nat /\ DOMAIN x.cmds = 1 .. Len(x.cmds)
      /\ x.cmds = [k \in 1 .. Len(x.cmds) |-> x.cmds[k]]
      /\ \A k \in 1 .. Len(x.cmds) : x.cmds[k] # "none"
  BY <1>1 DEF Ready, FiniteDraft, DraftShape
<1> HIDE DEF x, y
<1>8. Len(x.cmds) = 0 => x.cmds = <<>>
  <2> DEFINE c == x.cmds
  <2>1. c = [k \in 1 .. Len(c) |-> c[k]] BY <1>7
  <2> HIDE DEF c
  <2>2. Len(c) = 0 => c = <<>>
    <3> SUFFICES ASSUME Len(c) = 0 PROVE c = <<>> OBVIOUS
    <3>1. 1 .. Len(c) = {} OBVIOUS
    <3>2. <<>> = [k \in {} |-> c[k]] OBVIOUS
    <3> QED BY <2>1, <3>1, <3>2
  <2> QED BY <2>2 DEF c
<1>9. IsDocsStatic(y) \/ y.cmds # <<>> BY <1>4, <1>6 DEF IsDocsStatic
<1>10. Shaped(y, ChainSteps(y)) BY <1>4, <1>7, <1>8, <1>9, ChainShaped
<1>11. y.floor # L4 BY <1>4, <1>6 DEF TaskCompiles
<1> QED BY <1>4, <1>7, <1>10, <1>11 DEF Chain, y

\* The nodes and edges of a draft that compiles can be sealed.
LEMMA DraftSealable ==
  ASSUME NEW d, Ready(d)
  PROVE Sealable(Author(d), d.edges)
<1> DEFINE node == Author(d)
<1>1. DOMAIN node = Ids(d) BY DEF Author
<1>2. IsFiniteSet(DOMAIN node) /\ IsFiniteSet(d.edges) BY <1>1 DEF Ready, FiniteDraft
<1>3. ASSUME NEW n \in DOMAIN node
      PROVE /\ n = <<n[1], "author", 0>> /\ n # NoNode
            /\ node[n].kind \notin SystemKinds /\ node[n].source = NoNode
  <2>1. NodeValid(d.node[n]) BY <1>1 DEF Ready, Compiles, DraftValid
  <2>2. n = <<n[1], "author", 0>> /\ n # NoNode BY <1>1 DEF Ready, DraftShape
  <2> QED BY <1>1, <2>1, <2>2, AuthorFacts, AuthorKinds
<1>4. ASSUME NEW w \in Writes(node)
      PROVE LET s == Chain(node, w)
            IN  /\ Len(s) \in Nat /\ Len(s) >= 5 /\ DOMAIN s = 1 .. Len(s)
                /\ \A i \in 1 .. Len(s) : KnownStep(node[w], s, i)
                /\ \A i, j \in 1 .. Len(s) : s[i].rule[1] = s[j].rule[1] /\ s[i].rule[2] = s[j].rule[2] => i = j
  <2>1. /\ Shaped(node[w], Chain(node, w)) /\ Len(node[w].cmds) \in Nat
        /\ \A k \in 1 .. Len(node[w].cmds) : node[w].cmds[k] # "none"
    BY DraftTested DEF Tested
  <2> QED BY <2>1, ChainKnown
<1>5. ASSUME NEW e \in d.edges
      PROVE /\ e = [id |-> e.id, from |-> e.from, to |-> e.to, cond |-> e.cond, sys |-> FALSE]
            /\ e.from \in DOMAIN node /\ e.to \in DOMAIN node
  <2>1. EdgeValid(d, e) BY DEF Ready, Compiles, DraftValid
  <2>2. e.from \in Ids(d) /\ e.to \in Ids(d) /\ ~e.sys BY <2>1 DEF EdgeValid
  <2>3. /\ e = [id |-> e.id, from |-> e.from, to |-> e.to, cond |-> e.cond, sys |-> e.sys]
        /\ e.sys \in BOOLEAN
    BY DEF Ready, DraftShape, EdgeShape
  <2>4. e.sys = FALSE BY <2>2, <2>3
  <2> QED BY <1>1, <2>2, <2>3, <2>4
<1>6. Exit(node) \in DOMAIN node /\ \A n \in DOMAIN node : node[n].kind = "output" <=> n = Exit(node)
  BY DraftExit
<1> HIDE DEF node
<1>7. Sealable(node, d.edges) BY <1>2, <1>3, <1>4, <1>5, <1>6 DEF Sealable
<1> QED BY <1>7 DEF node


\* Every node carries what its kind may, and every edge an outcome of its source.
LEMMA DraftProper ==
  ASSUME NEW d, Ready(d)
  PROVE Proper(Author(d), d.edges)
<1> DEFINE node == Author(d)
<1>1. DOMAIN node = Ids(d) BY DEF Author
<1>2. \A n \in Ids(d) : NodeValid(d.node[n]) BY DEF Ready, Compiles, DraftValid
<1>3. ASSUME NEW n \in Ids(d)
      PROVE IF node[n].kind \in PlainKinds
            THEN /\ node[n].source = NoNode /\ node[n].agent = "none" /\ node[n].floor < 0
                 /\ node[n].test = "none" /\ node[n].argv = "none"
            ELSE TaskExecutable(node[n])
  <2> DEFINE x == d.node[n]
             y == node[n]
  <2>1. /\ y.kind = IF x.type # "agent_task" THEN x.type
                    ELSE IF x.write THEN "write_task" ELSE "read_task"
        /\ y.source = NoNode /\ y.test = "none" /\ y.argv = "none"
        /\ y.cmds = x.cmds /\ y.files = x.files /\ y.hint = x.hint /\ y.scope = x.scope
        /\ y.floor = IF x.type = "agent_task" THEN RiskFloor(x) ELSE 0 - 1
        /\ y.agent = IF x.type = "agent_task" THEN Route(x).id ELSE "none"
    BY <1>2, AuthorFacts
  <2>2. y.kind \in PlainKinds <=> x.type # "agent_task" BY <1>2, AuthorKinds
  <2>3. x.cmds # <<>> => x.write BY <1>2 DEF NodeValid
  <2>4. x.type = "agent_task" => TaskCompiles(x)
    <3>1. x.type = "agent_task" => n \in OfType(d, "agent_task") BY DEF OfType
    <3> QED BY <3>1 DEF Ready, Compiles
  <2>5. x.type = "agent_task" => Route(x).id # "none" BY <2>4, Routed DEF TaskCompiles
  <2> HIDE DEF x, y
  <2>6. CASE x.type # "agent_task"
    <3>1. y.floor < 0 /\ y.agent = "none" BY <2>1, <2>6
    <3> QED BY <2>1, <2>2, <2>6, <3>1 DEF y
  <2>7. CASE x.type = "agent_task"
    <3>1. y.kind = (IF x.write THEN "write_task" ELSE "read_task") /\ y.agent # "none" BY <2>1, <2>5, <2>7
    <3>2. y.floor = RiskFloor(x) BY <2>1, <2>7
    <3>3. x.write => x.files > 0 BY <2>4, <2>7 DEF TaskCompiles
    <3>4. y.kind = "write_task" <=> x.write BY <3>1
    <3>5. y.floor = LeastRisk(y.hint, y.scope, y.kind = "write_task")
      BY <2>1, <3>2, <3>4 DEF RiskFloor, LeastRisk
    <3>6. IF y.kind = "write_task" THEN y.files > 0 ELSE y.cmds = <<>> BY <2>1, <2>3, <3>3, <3>4
    <3>7. TaskExecutable(y) BY <2>1, <3>1, <3>5, <3>6 DEF TaskExecutable
    <3> QED BY <2>2, <2>7, <3>7 DEF y
  <2> QED BY <2>6, <2>7
<1>4. ASSUME NEW e \in d.edges PROVE e.cond \in EmitsCompiled(node[e.from].kind)
  <2>1. e.from \in Ids(d) /\ e.cond \in Emits(d.node[e.from].type)
    BY DEF Ready, Compiles, DraftValid, EdgeValid
  <2>2. /\ node[e.from].kind = "if" <=> d.node[e.from].type = "if"
        /\ node[e.from].kind \notin SystemKinds
    <3>1. "if" \in PlainKinds BY DEF PlainKinds
    <3> QED BY <1>2, <2>1, <3>1, AuthorKinds
  <2>3. node[e.from].kind # "approval" BY <2>2 DEF SystemKinds
  <2> HIDE DEF node
  <2> QED BY <2>1, <2>2, <2>3 DEF Emits, EmitsCompiled
<1>5. \A n \in Ids(d) : node[n].kind \in PlainKinds \cup {"write_task", "read_task"} BY <1>2, AuthorKinds
<1> HIDE DEF node
<1>6. Proper(node, d.edges) BY <1>1, <1>3, <1>4, <1>5 DEF Proper
<1> QED BY <1>6 DEF node

\* Every path of a draft leads from the input to the output.
LEMMA DraftBounded ==
  ASSUME NEW d, Ready(d)
  PROVE Bounded(Author(d), d.edges)
<1> DEFINE node == Author(d)
           o == Exit(node)
<1>1. DOMAIN node = Ids(d) BY DEF Author
<1>2. ValidEdges(d) = d.edges
  <2>1. \A e \in d.edges : e.from \in Ids(d) /\ e.to \in Ids(d)
    BY DEF Ready, Compiles, DraftValid, EdgeValid
  <2> QED BY <2>1 DEF ValidEdges
<1>3. /\ Complete(d) /\ ~ContainsCycle(Ids(d), d.edges) /\ IsFiniteSet(Ids(d))
      /\ \A n \in Ids(d) : NodeValid(d.node[n])
  BY <1>2 DEF Ready, Compiles, DraftValid, FiniteDraft
<1>4. OfType(d, "output") = {o} BY DraftExit
<1>5. \A n \in Ids(d) : node[n].kind = "input" <=> d.node[n].type = "input"
  <2>1. "input" \in PlainKinds BY DEF PlainKinds
  <2> QED BY <1>3, <2>1, AuthorKinds
<1> HIDE DEF node, o
<1>6. PICK i : OfType(d, "input") = {i}
  <2>1. OfType(d, "input") \in SUBSET Ids(d) BY DEF OfType
  <2>2. Cardinality(OfType(d, "input")) = 1 BY <1>3 DEF Complete
  <2> QED BY <1>3, <2>1, <2>2, FS_Subset, FS_Singleton
<1>7. i \in Ids(d) BY <1>6 DEF OfType
<1>8. {n \in DOMAIN node : node[n].kind = "input"} = {i}
  <2>1. {n \in DOMAIN node : node[n].kind = "input"} = OfType(d, "input") BY <1>1, <1>5 DEF OfType
  <2> QED BY <1>6, <2>1
<1>9. Into(d.edges, i) = {} /\ Ids(d) \subseteq Closure({i}, d.edges)
  BY <1>2, <1>3, <1>6 DEF Complete, ReachableFrom
<1>10. \A e \in d.edges : e.from # o
  <2>1. Out(d.edges, o) = {} BY <1>2, <1>3, <1>4 DEF Complete
  <2> QED BY <2>1 DEF Out
<1>11. \A n \in Ids(d) \ {o} : Out(d.edges, n) # {} BY <1>2, <1>3, <1>4 DEF Complete
<1>12. Bounded(node, d.edges) BY <1>1, <1>3, <1>7, <1>8, <1>9, <1>10, <1>11 DEF Bounded, o
<1> QED BY <1>12 DEF node

\* Either answer of an if node has its edge.
LEMMA DraftBranches ==
  ASSUME NEW d, Ready(d)
  PROVE Branches(Author(d), d.edges)
<1> SUFFICES ASSUME NEW n \in DOMAIN Author(d), Author(d)[n].kind = "if",
                    NEW c \in {"matched", "not_matched"}
             PROVE Count(d.edges, n, c) = 1
  BY DEF Branches
<1>1. n \in Ids(d) /\ NodeValid(d.node[n]) BY DEF Author, Ready, Compiles, DraftValid
<1>2. d.node[n].type = "if"
  <2>1. "if" \in PlainKinds BY DEF PlainKinds
  <2> QED BY <1>1, <2>1, AuthorKinds
<1>3. n \in OfType(d, "if") BY <1>1, <1>2 DEF OfType
<1>4. IfBranchesValid(d, n) BY <1>3 DEF Ready, Compiles, DraftValid
<1>5. ValidEdges(d) = d.edges
  <2>1. \A e \in d.edges : e.from \in Ids(d) /\ e.to \in Ids(d)
    BY DEF Ready, Compiles, DraftValid, EdgeValid
  <2> QED BY <2>1 DEF ValidEdges
<1> QED BY <1>4, <1>5 DEF IfBranchesValid

\* SinglePath is what _validate_fanout_and_joins asks, said of the draft.
LEMMA DraftSingle ==
  ASSUME NEW d, Ready(d)
  PROVE SinglePath(d) <=> SingleWay(Author(d), d.edges)
<1> DEFINE o == Exit(Author(d))
<1>1. OfType(d, "output") = {o} /\ DOMAIN Author(d) = Ids(d) BY DraftExit
<1>2. IsFiniteSet(d.edges) BY DEF Ready, FiniteDraft
<1> HIDE DEF o
<1>3. ASSUME NEW n \in Ids(d)
      PROVE Cardinality(Into(d.edges, n)) <= 1 <=> \A e, f \in Into(d.edges, n) : e = f
  <2>1. Into(d.edges, n) \in SUBSET d.edges BY DEF Into
  <2>2. IsFiniteSet(Into(d.edges, n)) BY <1>2, <2>1, FS_Subset
  <2> QED BY <2>2, AtMostOne
<1> QED BY <1>1, <1>3 DEF SinglePath, SingleWay, o

\* The compiler and the last check agree, of a draft whose tasks have their tests.
LEMMA CompiledAgrees ==
  ASSUME NEW d, Ready(d),
         Cardinality(Ids(Compiled(d))) <= MaxCompiledNodes,
         Cardinality(Compiled(d).edges) <= MaxCompiledEdges
  PROVE Executable(Compiled(d)) <=> SinglePath(d)
<1> DEFINE node == Author(d)
           g == Compiled(d)
<1>1. g = Inject(node, d.edges) BY DEF Compiled, Author
<1>2. Sealable(node, d.edges) BY DraftSealable
<1>3. Tested(node) /\ Proper(node, d.edges) /\ Bounded(node, d.edges) /\ Branches(node, d.edges)
  BY DraftTested, DraftProper, DraftBounded, DraftBranches
<1>4. FiniteGraph(g) BY CompiledFacts DEF Ready
<1>5. SinglePath(d) <=> SingleWay(node, d.edges) BY DraftSingle
<1>6. Cardinality(Ids(g)) <= MaxCompiledNodes /\ Cardinality(g.edges) <= MaxCompiledEdges OBVIOUS
<1> HIDE DEF node, g
<1>7. Sewn(g, node, d.edges) BY <1>1, <1>2, Weaving DEF Sewn
<1>8. IsFiniteSet(g.edges) /\ IsFiniteSet(Ids(g)) BY <1>4 DEF FiniteGraph
<1>9. Executable(g) <=> SingleWay(node, d.edges) BY <1>3, <1>6, <1>7, <1>8, InjectedIsExecutable
<1> QED BY <1>5, <1>9 DEF g

\* Of the graphs that compile without an error and are not too large, the last check
\* accepts those whose draft goes one way, and no others: neither side is stricter.
THEOREM AcceptsInjected == Spec => []AcceptsWhatIsInjected
<1>1. StageInv => AcceptsWhatIsInjected
  <2> SUFFICES ASSUME StageInv, stage = "compiled", ~TestMissing(draft),
                      Cardinality(Ids(graph)) <= MaxCompiledNodes,
                      Cardinality(graph.edges) <= MaxCompiledEdges
               PROVE Executable(graph) <=> SinglePath(draft)
    BY DEF AcceptsWhatIsInjected
  <2>1. Ready(draft) /\ graph = Compiled(draft) BY DEF StageInv, Ready
  <2> QED BY <2>1, CompiledAgrees
<1> QED BY <1>1, StageCorrect, PTL

-------------------------------------------------------------------------------
(* Part four: the run of an executable graph.  Reconciliation. *)

Over == {"blocked_by_guard", "failed", "completed", "skipped", "cancelled", "orphaned"}

Satisfied(e, s) == R!EdgeSatisfied(e, s)

\* Every node before n has ended; and one of its edges leads to n.
Decided(g, n, s) == \A e \in Into(g.edges, n) : s[e.from].status \in Over
Arrived(g, n, s) == \E e \in Into(g.edges, n) : Satisfied(e, s)

Drops(g, s, f, n) ==
  /\ s[n].status = "pending" /\ Kind(g, n) # "input"
  /\ \A e \in Into(g.edges, n) : s[e.from].status \in Over \/ f[e.from]
  /\ ~Arrived(g, n, s)

\* In a graph without a cycle the sweep that skips nodes ends.
LEMMA SweepEnds ==
  ASSUME NEW g, FiniteGraph(g), ~ContainsCycle(Ids(g), g.edges),
         \A e \in g.edges : e.from \in Ids(g), NEW s
  PROVE \E f \in [Ids(g) -> BOOLEAN] : f = [m \in Ids(g) |-> Drops(g, s, f, m)]
<1> DEFINE N == Ids(g)
           n == Cardinality(N)
           Test(f, m) == Drops(g, s, f, m)
<1>0. \A f, m : Test(f, m) \in BOOLEAN BY DEF Drops
<1>1. PICK v : Kahn(v, N, g.edges) BY KahnRounds DEF FiniteGraph
<1>2. /\ n \in Nat /\ v[0] = {} /\ v[n] = N
      /\ \A k \in 1 .. n : v[k - 1] \subseteq v[k] /\ v[k] = Freed(v[k - 1], N, g.edges)
      /\ \A k \in 0 .. n : v[k] \in SUBSET N
  BY <1>1, KahnGrows DEF Kahn, FiniteGraph
<1> HIDE DEF n
<1> DEFINE Upto(f, k) == \A m \in v[k] : f[m] <=> Test(f, m)
           Some(k) == \E f \in [N -> BOOLEAN] : Upto(f, k)
           T == {k \in 0 .. n : Some(k)}
<1>3. 0 \in T
  <2>1. [m \in N |-> TRUE] \in [N -> BOOLEAN] /\ Upto([m \in N |-> TRUE], 0) BY <1>2
  <2> HIDE DEF Upto
  <2>2. Some(0) BY <2>1
  <2> HIDE DEF Some
  <2> QED BY <1>2, <2>2
<1>4. ASSUME NEW k \in 1 .. n, k - 1 \in T PROVE k \in T
  <2>1. PICK f \in [N -> BOOLEAN] : Upto(f, k - 1) BY <1>4
  <2> DEFINE h == [m \in N |-> IF m \in v[k - 1] THEN f[m] ELSE Test(f, m)]
  <2>2. h \in [N -> BOOLEAN] BY <1>0
  <2>3. k - 1 \in 0 .. n /\ v[k] \in SUBSET N /\ v[k - 1] \subseteq v[k]
        /\ v[k] = Freed(v[k - 1], N, g.edges)
    BY <1>2
  <2>4. \A m \in v[k - 1] : h[m] = f[m] BY <2>3
  <2>5. \A m \in v[k] : m \notin v[k - 1] => h[m] = Test(f, m) BY <2>3
  <2> HIDE DEF h
  <2>6. ASSUME NEW m \in v[k] PROVE h[m] <=> Test(h, m)
    <3>1. \A e \in Into(g.edges, m) : h[e.from] = f[e.from] BY <2>3, <2>4, <2>6 DEF Freed
    <3>2. Test(h, m) <=> Test(f, m) BY <3>1 DEF Drops
    <3>3. CASE m \in v[k - 1] BY <2>1, <2>4, <3>2, <3>3
    <3>4. CASE m \notin v[k - 1] BY <2>5, <3>2, <3>4
    <3> QED BY <3>3, <3>4
  <2>7. Some(k) BY <2>2, <2>6
  <2> HIDE DEF Some
  <2> QED BY <1>2, <2>7
<1>5. Some(n)
  <2>1. n \in 0 .. n BY <1>2
  <2> HIDE DEF T
  <2>2. n \in T BY <1>2, <1>3, <1>4, <2>1, Upwards
  <2> HIDE DEF Some
  <2> QED BY <2>2 DEF T
<1>6. PICK f \in [N -> BOOLEAN] : \A m \in N : f[m] <=> Test(f, m) BY <1>2, <1>5
<1>7. \A m \in N : f[m] = Test(f, m) BY <1>0, <1>6
<1>8. f = [m \in N |-> Test(f, m)] BY <1>7
<1> QED BY <1>8

\* So Dropped satisfies its equation.
LEMMA DroppedFacts ==
  ASSUME FiniteGraph(graph), Executable(graph), NEW s, NEW n \in Ids(graph)
  PROVE R!Dropped(s)[n] \in BOOLEAN /\ (R!Dropped(s)[n] <=> Drops(graph, s, R!Dropped(s), n))
<1>1. PICK f \in [Ids(graph) -> BOOLEAN] : f = [m \in Ids(graph) |-> Drops(graph, s, f, m)]
  <2>1. ~ContainsCycle(Ids(graph), graph.edges) /\ \A e \in graph.edges : e.from \in Ids(graph)
    BY DEF Executable, EdgeExecutable
  <2> QED BY <2>1, SweepEnds
<1>2. R!Dropped(s) = CHOOSE h : h = [m \in Ids(graph) |-> Drops(graph, s, h, m)]
  BY DEF R!Dropped, Drops, R!NodeTerminal, Over, R!In, Into, R!Enabled, Arrived, Satisfied, Kind
<1>3. R!Dropped(s) = [m \in Ids(graph) |-> Drops(graph, s, R!Dropped(s), m)] BY <1>1, <1>2
<1>4. Drops(graph, s, R!Dropped(s), n) \in BOOLEAN BY DEF Drops
<1> QED BY <1>3, <1>4

\* What a handler may make of a node, and the states of a node.
Results == [status : {"completed", "failed", "blocked_by_guard"}, outcome : R!Outcomes \ {"none"}]

States == {R!Pending, R!Ready, R!Skipped} \cup Results

\* A node has started where its branch led to it, and is skipped where no branch did.
Consistent(g, s) ==
  /\ s \in [Ids(g) -> States]
  /\ \A n \in Ids(g) :
       /\ s[n].status \notin {"pending", "skipped"} =>
            Kind(g, n) = "input" \/ (Decided(g, n, s) /\ Arrived(g, n, s))
       /\ s[n].status = "skipped" => Kind(g, n) # "input" /\ Decided(g, n, s) /\ ~Arrived(g, n, s)

\* No node waits for nothing.
Settled(g, s) ==
  \A n \in Ids(g) : s[n].status = "pending" => Kind(g, n) # "input" /\ ~Decided(g, n, s)

\* What the state of a node tells: only an ended node has an outcome, and a node that was
\* not skipped ends with a result of its handler.
LEMMA StateFacts ==
  ASSUME NEW x \in States
  PROVE /\ x.status \in {"pending", "ready", "skipped"} \/ x \in Results
        /\ x \in Results => x.status \in Over /\ x.status \notin {"pending", "ready", "skipped"}
                            /\ x.outcome # "none"
        /\ x.status \in {"pending", "ready", "skipped"} => x.outcome = "none" /\ x \notin Results
        /\ x.status \in Over => x.status = "skipped" \/ x \in Results
        /\ x.status = "pending" => x = R!Pending
        /\ x.status = "ready" => x = R!Ready
        /\ x.status = "skipped" => x = R!Skipped
BY DEF States, Results, R!Pending, R!Ready, R!Skipped, Over

\* The three states a node has without having run.
LEMMA StateNames ==
  /\ R!Pending \in States /\ R!Pending.status = "pending" /\ R!Pending.outcome = "none"
  /\ R!Ready \in States /\ R!Ready.status = "ready" /\ R!Ready.outcome = "none"
  /\ R!Skipped \in States /\ R!Skipped.status = "skipped" /\ R!Skipped.outcome = "none"
BY DEF States, R!Pending, R!Ready, R!Skipped

\* An edge of a node without an outcome is not satisfied.
LEMMA NoneLeads ==
  ASSUME NEW g, Executable(g), NEW e \in g.edges, NEW s, s[e.from].outcome = "none"
  PROVE ~Satisfied(e, s)
<1>1. e.cond # "none"
  BY DEF Executable, EdgeExecutable, EmitsCompiled
<1> QED BY <1>1 DEF Satisfied, R!EdgeSatisfied, R!Accepts

\* Reconciliation moves pending nodes only, and leaves a consistent state settled.
LEMMA Reconciles ==
  ASSUME FiniteGraph(graph), Executable(graph), NEW s, Consistent(graph, s)
  PROVE /\ Consistent(graph, R!Reconciled(s)) /\ Settled(graph, R!Reconciled(s))
        /\ \A n \in Ids(graph) :
             /\ s[n].status # "pending" => R!Reconciled(s)[n] = s[n]
             /\ s[n].status = "pending" => R!Reconciled(s)[n].status \in {"pending", "ready", "skipped"}
<1> DEFINE skip == R!Dropped(s)
           mid == R!AfterSkips(s)
           t == R!Reconciled(s)
           N == Ids(graph)
           E == graph.edges
<1>1. \A n \in N : skip[n] \in BOOLEAN /\ (skip[n] <=> Drops(graph, s, skip, n)) BY DroppedFacts
<1>2. /\ mid = [n \in N |-> IF skip[n] THEN R!Skipped ELSE s[n]]
      /\ t = R!AfterReadies(mid)
  BY DEF R!AfterSkips, R!Reconciled
<1>3. t = [n \in N |-> IF /\ mid[n].status = "pending"
                          /\ Kind(graph, n) = "input" \/ (Decided(graph, n, mid) /\ Arrived(graph, n, mid))
                       THEN R!Ready ELSE mid[n]]
  BY <1>2 DEF R!AfterReadies, R!Resolved, R!Enabled, R!In, Into, Decided, Arrived, Satisfied, Over,
              R!NodeTerminal, Kind
<1>4. /\ s \in [N -> States]
      /\ \A n \in N : s[n] \in States
      /\ \A e \in E : e.from \in N /\ e.to \in N
  BY DEF Consistent, Executable, EdgeExecutable
<1> HIDE DEF skip, mid, t
<1>5. ASSUME NEW n \in N PROVE skip[n] => s[n].status = "pending" BY <1>1 DEF Drops
<1>6. ASSUME NEW n \in N
      PROVE /\ mid[n] \in States
            /\ mid[n].status \in Over <=> s[n].status \in Over \/ skip[n]
            /\ mid[n].outcome = s[n].outcome
            /\ ~skip[n] => mid[n] = s[n]
            /\ skip[n] => mid[n] = R!Skipped
  BY <1>1, <1>2, <1>4, <1>5, StateFacts, StateNames DEF Over
<1>7. ASSUME NEW n \in N
      PROVE /\ t[n] \in States
            /\ t[n].status \in Over <=> mid[n].status \in Over
            /\ t[n].outcome = mid[n].outcome
            /\ t[n].status # "pending" /\ t[n].status # "ready" => t[n] = mid[n]
            /\ mid[n].status # "pending" => t[n] = mid[n]
            /\ t[n].status = "pending" => t[n] = mid[n]
  <2>1. t[n] = mid[n] \/ (mid[n].status = "pending" /\ t[n] = R!Ready) BY <1>3
  <2>2. mid[n] \in States BY <1>6
  <2> QED BY <2>1, <2>2, StateFacts, StateNames DEF Over
<1>8. ASSUME NEW e \in E
      PROVE /\ Satisfied(e, mid) <=> Satisfied(e, s)
            /\ Satisfied(e, t) <=> Satisfied(e, s)
  <2>1. e.from \in N /\ s[e.from] \in States BY <1>4
  <2>2. CASE s[e.from].outcome = "none"
    <3>1. mid[e.from].outcome = "none" /\ t[e.from].outcome = "none" BY <1>6, <1>7, <2>1, <2>2
    <3> QED BY <2>2, <3>1, NoneLeads
  <2>3. CASE s[e.from].outcome # "none"
    <3>1. s[e.from].status \notin {"pending", "ready", "skipped"} BY <2>1, <2>3, StateFacts
    <3>2. mid[e.from] = s[e.from] BY <1>5, <1>6, <2>1, <3>1
    <3>3. t[e.from] = s[e.from] BY <1>7, <2>1, <3>1, <3>2
    <3> QED BY <3>2, <3>3 DEF Satisfied, R!EdgeSatisfied
  <2> QED BY <2>2, <2>3
<1>9. ASSUME NEW n \in N
      PROVE /\ Arrived(graph, n, t) <=> Arrived(graph, n, s)
            /\ Arrived(graph, n, mid) <=> Arrived(graph, n, s)
            /\ Decided(graph, n, t) <=> \A e \in Into(E, n) : s[e.from].status \in Over \/ skip[e.from]
            /\ Decided(graph, n, mid) <=> Decided(graph, n, t)
  <2>1. \A e \in Into(E, n) : e \in E /\ e.from \in N BY <1>4 DEF Into
  <2>2. Arrived(graph, n, t) <=> Arrived(graph, n, s) BY <1>8, <2>1 DEF Arrived
  <2>3. Arrived(graph, n, mid) <=> Arrived(graph, n, s) BY <1>8, <2>1 DEF Arrived
  <2>4. \A e \in Into(E, n) : mid[e.from].status \in Over <=> s[e.from].status \in Over \/ skip[e.from]
    BY <1>6, <2>1
  <2>5. \A e \in Into(E, n) : t[e.from].status \in Over <=> mid[e.from].status \in Over
    BY <1>7, <2>1
  <2>6. Decided(graph, n, mid) <=> Decided(graph, n, t) BY <2>5 DEF Decided
  <2>7. Decided(graph, n, mid) <=> \A e \in Into(E, n) : s[e.from].status \in Over \/ skip[e.from]
    BY <2>4 DEF Decided
  <2> QED BY <2>2, <2>3, <2>6, <2>7
<1>10. ASSUME NEW n \in N, Decided(graph, n, s) PROVE Decided(graph, n, t)
  BY <1>9, <1>10 DEF Decided
<1>11. t \in [N -> States]
  <2>1. t = [n \in N |-> t[n]] BY <1>3
  <2> QED BY <1>7, <2>1
<1>12. ASSUME NEW n \in N, t[n].status \notin {"pending", "skipped"}
       PROVE Kind(graph, n) = "input" \/ (Decided(graph, n, t) /\ Arrived(graph, n, t))
  <2>1. CASE t[n] = mid[n]
    <3>1. ~skip[n] /\ mid[n] = s[n] BY <1>1, <1>6, <1>12, <2>1, StateNames
    <3>2. Kind(graph, n) = "input" \/ (Decided(graph, n, s) /\ Arrived(graph, n, s))
      BY <1>12, <2>1, <3>1 DEF Consistent
    <3> QED BY <1>9, <1>10, <3>2
  <2>2. CASE t[n] # mid[n]
    <3>1. Kind(graph, n) = "input" \/ (Decided(graph, n, mid) /\ Arrived(graph, n, mid)) BY <1>3, <2>2
    <3> QED BY <1>9, <3>1
  <2> QED BY <2>1, <2>2
<1>13. ASSUME NEW n \in N, t[n].status = "skipped"
       PROVE Kind(graph, n) # "input" /\ Decided(graph, n, t) /\ ~Arrived(graph, n, t)
  <2>1. mid[n] = t[n] BY <1>7, <1>13
  <2>2. CASE skip[n]
    <3>1. Drops(graph, s, skip, n) BY <1>1, <2>2
    <3> QED BY <1>9, <3>1 DEF Drops
  <2>3. CASE ~skip[n]
    <3>1. s[n].status = "skipped" BY <1>6, <1>13, <2>1, <2>3
    <3>2. Kind(graph, n) # "input" /\ Decided(graph, n, s) /\ ~Arrived(graph, n, s) BY <3>1 DEF Consistent
    <3> QED BY <1>9, <1>10, <3>2
  <2> QED BY <1>1, <2>2, <2>3
<1>14. ASSUME NEW n \in N, t[n].status = "pending"
       PROVE Kind(graph, n) # "input" /\ ~Decided(graph, n, t)
  <2>1. mid[n] = t[n] /\ mid[n].status = "pending" BY <1>7, <1>14
  <2>2. ~skip[n] /\ s[n] = mid[n] BY <1>1, <1>6, <2>1, StateNames
  <2>3. ~(Kind(graph, n) = "input" \/ (Decided(graph, n, mid) /\ Arrived(graph, n, mid)))
    BY <1>3, <1>14, <2>1, StateNames
  <2>4. ~Drops(graph, s, skip, n) BY <1>1, <2>2
  <2>5. ASSUME Decided(graph, n, t) PROVE FALSE
    <3>1. \A e \in Into(E, n) : s[e.from].status \in Over \/ skip[e.from] BY <1>9, <2>5
    <3>2. Arrived(graph, n, s) BY <2>1, <2>2, <2>3, <2>4, <3>1 DEF Drops
    <3> QED BY <1>9, <2>3, <2>5, <3>2
  <2> QED BY <2>3, <2>5
<1>15. ASSUME NEW n \in N, s[n].status # "pending" PROVE t[n] = s[n]
  BY <1>1, <1>5, <1>6, <1>7, <1>15
<1>18. ASSUME NEW n \in N, s[n].status = "pending" PROVE t[n].status \in {"pending", "ready", "skipped"}
  <2>1. mid[n].status \in {"pending", "skipped"} BY <1>1, <1>6, <1>18, StateNames
  <2>2. t[n] = mid[n] \/ t[n] = R!Ready BY <1>3
  <2> QED BY <2>1, <2>2, StateNames
<1>16. Consistent(graph, t) BY <1>11, <1>12, <1>13 DEF Consistent
<1>17. Settled(graph, t) BY <1>14 DEF Settled
<1> QED BY <1>15, <1>16, <1>17, <1>18 DEF t

\* A ready node may end: what follows it has waited.
LEMMA EndsConsistent ==
  ASSUME NEW g, Executable(g), NEW s, Consistent(g, s),
         NEW n \in Ids(g), s[n].status = "ready", NEW x \in Results
  PROVE Consistent(g, [s EXCEPT ![n] = x])
<1> DEFINE t == [s EXCEPT ![n] = x]
<1>1. /\ s \in [Ids(g) -> States] /\ x \in States
      /\ \A e \in g.edges : e.from \in Ids(g)
  BY DEF Consistent, Executable, EdgeExecutable, States
<1>2. /\ t \in [Ids(g) -> States] /\ t[n] = x
      /\ \A m \in Ids(g) : m # n => t[m] = s[m]
  BY <1>1
<1>3. x.status \in Over /\ x.status \notin {"pending", "ready", "skipped"} BY <1>1, StateFacts
<1>4. "ready" \notin Over BY DEF Over
<1> HIDE DEF t
<1>5. ASSUME NEW m \in Ids(g), Decided(g, m, s)
      PROVE Decided(g, m, t) /\ (Arrived(g, m, t) <=> Arrived(g, m, s))
  <2>1. \A e \in Into(g.edges, m) : e.from \in Ids(g) /\ e.from # n
    BY <1>1, <1>4, <1>5 DEF Decided, Into
  <2>2. \A e \in Into(g.edges, m) : t[e.from] = s[e.from] BY <1>2, <2>1
  <2> QED BY <1>5, <2>2 DEF Decided, Arrived, Satisfied, R!EdgeSatisfied
<1>6. ASSUME NEW m \in Ids(g), t[m].status \notin {"pending", "skipped"}
      PROVE Kind(g, m) = "input" \/ (Decided(g, m, t) /\ Arrived(g, m, t))
  <2>1. s[m].status \notin {"pending", "skipped"} BY <1>2, <1>6
  <2>2. Kind(g, m) = "input" \/ (Decided(g, m, s) /\ Arrived(g, m, s)) BY <2>1 DEF Consistent
  <2> QED BY <1>5, <2>2
<1>7. ASSUME NEW m \in Ids(g), t[m].status = "skipped"
      PROVE Kind(g, m) # "input" /\ Decided(g, m, t) /\ ~Arrived(g, m, t)
  <2>1. s[m].status = "skipped" BY <1>2, <1>3, <1>7
  <2>2. Kind(g, m) # "input" /\ Decided(g, m, s) /\ ~Arrived(g, m, s) BY <2>1 DEF Consistent
  <2> QED BY <1>5, <2>2
<1>8. Consistent(g, t) BY <1>2, <1>6, <1>7 DEF Consistent
<1> QED BY <1>8 DEF t

\* Whatever a handler returns ends its node.
LEMMA ResultTypes ==
  ASSUME NEW n
  PROVE HandlerResults(n) \subseteq Results
<1>1. Failed \in Results /\ Blocked \in Results BY DEF Failed, Blocked, Results, R!Outcomes
<1>2. \A o \in R!Outcomes \ {"none"} : Done(o) \in Results BY DEF Done, Results
<1>3. /\ "success" \in R!Outcomes \ {"none"} /\ "approved" \in R!Outcomes \ {"none"}
      /\ "rejected" \in R!Outcomes \ {"none"} /\ "matched" \in R!Outcomes \ {"none"}
      /\ "not_matched" \in R!Outcomes \ {"none"}
  BY DEF R!Outcomes
<1>4. /\ Done("success") \in Results /\ Done("approved") \in Results /\ Done("rejected") \in Results
      /\ Done("matched") \in Results /\ Done("not_matched") \in Results
  BY <1>2, <1>3
<1>5. \A x : IfResults(x) \subseteq Results BY <1>4 DEF IfResults
<1>6. OutputResult(n) \in Results BY <1>1, <1>4 DEF OutputResult
<1> HIDE DEF Results
<1> QED BY <1>1, <1>4, <1>5, <1>6 DEF HandlerResults

\* An output that succeeded was led to by no failure, block or rejection.
OutputTells(g, s) ==
  \A o \in KindNodes(g, "output") : s[o] = Done("success") =>
    \A e \in Into(g.edges, o) : Satisfied(e, s) => s[e.from].outcome \notin {"blocked", "failure", "rejected"}

\* A run between two steps.
RunInv == stage = "running" => Consistent(graph, st) /\ Settled(graph, st) /\ OutputTells(graph, st)

\* A success is told from every other end.
LEMMA DoneFacts ==
  /\ Done("success") \in Results /\ Done("success").status = "completed"
  /\ Done("success").outcome = "success"
  /\ Done("success") # Blocked /\ Done("success") # Failed /\ Done("success") # Done("rejected")
BY DEF Done, Blocked, Failed, Results, R!Outcomes

\* The run of an accepted graph starts reconciled.
LEMMA ValidateRun ==
  ASSUME StageInv, StageInv', Validate
  PROVE RunInv'
<1> SUFFICES ASSUME stage' = "running"
             PROVE Consistent(graph, st') /\ Settled(graph, st') /\ OutputTells(graph, st')
  BY DEF RunInv, Validate
<1> DEFINE s == [n \in Ids(graph) |-> R!Pending]
<1>1. graph' = graph /\ st' = R!Reconciled(s) BY DEF Validate
<1>2. FiniteGraph(graph) /\ Executable(graph)
  BY CompiledFacts DEF StageInv, Validate, Accepted
<1>3. \A n \in Ids(graph) : s[n] = R!Pending OBVIOUS
<1>4. s \in [Ids(graph) -> States] BY StateNames
<1> HIDE DEF s
<1>5. Consistent(graph, s) BY <1>3, <1>4, StateNames DEF Consistent
<1>6. /\ Consistent(graph, st') /\ Settled(graph, st')
      /\ \A n \in Ids(graph) : st'[n].status \in {"pending", "ready", "skipped"}
  BY <1>1, <1>2, <1>3, <1>5, Reconciles, StateNames
<1>7. OutputTells(graph, st') BY <1>6, DoneFacts DEF OutputTells, KindNodes
<1> QED BY <1>6, <1>7

\* A node that has ended keeps its result, and no node but n gets one.
LEMMA FinishFrame ==
  ASSUME StageInv, RunInv, NEW n \in Ids(graph), Finish(n)
  PROVE /\ FiniteGraph(graph) /\ Executable(graph) /\ graph' = graph
        /\ Consistent(graph, st') /\ Settled(graph, st')
        /\ st[n].status = "ready" /\ st'[n] \in HandlerResults(n)
        /\ \A m \in Ids(graph) : m # n /\ st'[m] \in Results => st'[m] = st[m]
        /\ \A m \in Ids(graph) : st[m] \in Results => st'[m] = st[m]
<1>1. stage = "running" /\ graph' = graph /\ n \in R!ReadyNodes(st) BY DEF Finish
<1>2. FiniteGraph(graph) /\ Executable(graph) BY <1>1, RunningGraph
<1>3. st[n].status = "ready" BY <1>1 DEF R!ReadyNodes
<1>4. PICK x \in HandlerResults(n) : st' = R!Reconciled([st EXCEPT ![n] = x]) BY DEF Finish
<1>5. x \in Results /\ x \in States BY ResultTypes DEF States
<1>6. Consistent(graph, st) BY <1>1 DEF RunInv
<1> DEFINE s == [st EXCEPT ![n] = x]
<1>7. s[n] = x /\ \A m \in Ids(graph) : m # n => s[m] = st[m] BY <1>6 DEF Consistent
<1>8. Consistent(graph, s) BY <1>2, <1>3, <1>5, <1>6, EndsConsistent
<1> HIDE DEF s
<1>9. st' = R!Reconciled(s) BY <1>4 DEF s
<1>10. /\ Consistent(graph, st') /\ Settled(graph, st')
       /\ \A m \in Ids(graph) :
            /\ s[m].status # "pending" => st'[m] = s[m]
            /\ s[m].status = "pending" => st'[m].status \in {"pending", "ready", "skipped"}
  BY <1>2, <1>8, <1>9, Reconciles
<1>11. st'[n] = x BY <1>5, <1>7, <1>10, StateFacts
<1>12. \A m \in Ids(graph) : st'[m] \in States /\ st[m] \in States BY <1>6, <1>10 DEF Consistent
<1>13. ASSUME NEW m \in Ids(graph), m # n, st'[m] \in Results PROVE st'[m] = st[m]
  BY <1>7, <1>10, <1>12, <1>13, StateFacts
<1>14. ASSUME NEW m \in Ids(graph), st[m] \in Results PROVE st'[m] = st[m]
  <2>1. m # n BY <1>3, <1>12, <1>14, StateFacts
  <2> QED BY <1>7, <1>10, <1>12, <1>14, <2>1, StateFacts
<1> QED BY <1>1, <1>2, <1>3, <1>10, <1>11, <1>13, <1>14

\* A node that finishes leaves the run reconciled.
LEMMA FinishRun ==
  ASSUME StageInv, RunInv, NEW n \in Ids(graph), Finish(n)
  PROVE RunInv'
<1>1. /\ FiniteGraph(graph) /\ Executable(graph) /\ graph' = graph
      /\ Consistent(graph, st') /\ Settled(graph, st')
      /\ st[n].status = "ready" /\ st'[n] \in HandlerResults(n)
      /\ \A m \in Ids(graph) : m # n /\ st'[m] \in Results => st'[m] = st[m]
      /\ \A m \in Ids(graph) : st[m] \in Results => st'[m] = st[m]
  BY FinishFrame
<1>2. Consistent(graph, st) /\ OutputTells(graph, st) BY DEF RunInv, Finish
<1>3. \A m \in Ids(graph) : st[m] \in States /\ st'[m] \in States BY <1>1, <1>2 DEF Consistent
<1>4. \A e \in graph.edges : e.from \in Ids(graph) BY <1>1 DEF Executable, EdgeExecutable
<1>5. ASSUME NEW o \in KindNodes(graph, "output"), st'[o] = Done("success"),
             NEW e \in Into(graph.edges, o), Satisfied(e, st')
      PROVE st'[e.from].outcome \notin {"blocked", "failure", "rejected"}
  <2>1. o \in Ids(graph) /\ e \in graph.edges /\ e.from \in Ids(graph) /\ Kind(graph, o) = "output"
    BY <1>4 DEF KindNodes, Into, Kind
  <2>2. st'[e.from] \in Results BY <1>1, <1>3, <1>5, <2>1, NoneLeads, StateFacts
  <2>3. CASE e.from = n
    <3>1. CASE o = n
      <4>1. Out(graph.edges, o) = {} BY <1>1 DEF Executable, BoundariesValid
      <4> QED BY <2>1, <2>3, <3>1, <4>1 DEF Out
    <3>2. CASE o # n
      <4>1. st[o] = Done("success") BY <1>1, <1>5, <2>1, <3>2, DoneFacts
      <4>2. Decided(graph, o, st) BY <1>2, <2>1, <4>1, DoneFacts DEF Consistent
      <4>3. st[n].status \in Over BY <2>3, <4>2 DEF Decided, Into
      <4> QED BY <1>1, <4>3 DEF Over
    <3> QED BY <3>1, <3>2
  <2>4. CASE e.from # n
    <3>1. st'[e.from] = st[e.from] BY <1>1, <2>1, <2>2, <2>4
    <3>2. Satisfied(e, st) BY <1>5, <3>1 DEF Satisfied, R!EdgeSatisfied
    <3>3. CASE o = n
      <4>1. st'[n] \in {Failed, OutputResult(n)}
        BY <1>1, <2>1, <3>3 DEF HandlerResults, Kind
      <4>2. OutputResult(n) = Done("success") BY <1>5, <3>3, <4>1, DoneFacts
      <4> DEFINE outcomes == {st[f.from].outcome : f \in {h \in Into(graph.edges, n) : R!EdgeSatisfied(h, st)}}
      <4>3. OutputResult(n) = CASE "blocked" \in outcomes -> Blocked
                                [] "failure" \in outcomes -> Failed
                                [] "rejected" \in outcomes -> Done("rejected")
                                [] OTHER -> Done("success")
        BY DEF OutputResult
      <4>4. st[e.from].outcome \in outcomes BY <1>5, <3>2, <3>3 DEF Satisfied
      <4> HIDE DEF outcomes
      <4>5. "blocked" \notin outcomes BY <4>2, <4>3, DoneFacts
      <4>6. "failure" \notin outcomes BY <4>2, <4>3, <4>5, DoneFacts
      <4>7. "rejected" \notin outcomes BY <4>2, <4>3, <4>5, <4>6, DoneFacts
      <4> QED BY <3>1, <4>4, <4>5, <4>6, <4>7
    <3>4. CASE o # n
      <4>1. st[o] = Done("success") BY <1>1, <1>5, <2>1, <3>4, DoneFacts
      <4> QED BY <1>2, <1>5, <3>1, <3>2, <4>1 DEF OutputTells
    <3> QED BY <3>3, <3>4
  <2> QED BY <2>3, <2>4
<1>6. OutputTells(graph, st') BY <1>5 DEF OutputTells
<1> QED BY <1>1, <1>6 DEF RunInv

\* A run is reconciled after every step: what waits for an open node is pending, what has
\* nothing left to wait for was released or dropped, and the output tells what led to it.
THEOREM RunCorrect == Spec => []RunInv
<1>1. Init => RunInv BY DEF Init, RunInv
<1>2. StageInv /\ StageInv' /\ RunInv /\ [Next]_vars => RunInv'
  <2> SUFFICES ASSUME StageInv, StageInv', RunInv, [Next]_vars PROVE RunInv' OBVIOUS
  <2>1. CASE UNCHANGED vars
    <3>1. graph' = graph /\ st' = st /\ stage' = stage BY <2>1 DEF vars
    <3> QED BY <3>1 DEF RunInv
  <2>2. CASE Submit BY <2>2 DEF Submit, RunInv
  <2>3. CASE Compile BY <2>3 DEF Compile, RunInv
  <2>4. CASE Validate BY <2>4, ValidateRun
  <2>5. ASSUME NEW n \in Ids(graph), Finish(n) PROVE RunInv' BY <2>5, FinishRun
  <2> QED BY <2>1, <2>2, <2>3, <2>4, <2>5 DEF Next
<1> QED BY <1>1, <1>2, StageCorrect, PTL DEF Spec

-------------------------------------------------------------------------------
(* Where a run stands.  An outcome leads to one node, so the nodes that have   *)
(* started, but for the output, are on one path from the input.               *)

\* The nodes that have started, but for the output.
Started(g, s) ==
  {n \in Ids(g) \ KindNodes(g, "output") : s[n].status \notin {"pending", "skipped"}}

Leads(g, s, m, n) == \E e \in g.edges : e.from = m /\ e.to = n /\ Satisfied(e, s)

\* The end of the path.
Tip(g, s, t) == t \in Started(g, s) /\ \A n \in Started(g, s) : ~Leads(g, s, t, n)

\* An outcome satisfies one edge of a node.
LEMMA LeadsToOne ==
  ASSUME NEW g, Executable(g), NEW s,
         NEW e \in g.edges, NEW f \in g.edges, e.from = f.from, Satisfied(e, s), Satisfied(f, s)
  PROVE e = f
<1> DEFINE C == {"matched", "not_matched", "failure", "approved", "rejected", "success"}
<1>1. e.cond \in C /\ f.cond \in C BY DEF Executable, EdgeExecutable, EmitsCompiled
<1>2. s[e.from].outcome \in R!Accepts(e.cond) /\ s[e.from].outcome \in R!Accepts(f.cond)
  BY DEF Satisfied, R!EdgeSatisfied
<1>3. e.cond = f.cond BY <1>1, <1>2 DEF R!Accepts
<1> QED BY <1>3 DEF Executable, FanoutAndJoinsValid

\* A satisfied edge comes from a node with a result, which is not the output.
LEMMA SatisfiedFrom ==
  ASSUME NEW g, Executable(g), NEW s, Consistent(g, s), NEW e \in g.edges, Satisfied(e, s)
  PROVE s[e.from] \in Results /\ e.from \in Started(g, s)
<1>1. e.from \in Ids(g) BY DEF Executable, EdgeExecutable
<1>2. s[e.from] \in States /\ s[e.from].outcome # "none" BY <1>1, NoneLeads DEF Consistent
<1>3. s[e.from] \in Results BY <1>2, StateFacts
<1>4. s[e.from].status \notin {"pending", "skipped"} BY <1>2, <1>3, StateFacts
<1>5. e.from \notin KindNodes(g, "output")
  <2>1. e.from \in KindNodes(g, "output") => Out(g.edges, e.from) = {} BY DEF Executable, BoundariesValid
  <2> QED BY <2>1 DEF Out
<1> QED BY <1>1, <1>3, <1>4, <1>5 DEF Started

\* A node that has started, but for the input, was led to by one that has.
LEMMA LedTo ==
  ASSUME NEW g, Executable(g), NEW s, Consistent(g, s), NEW n \in Ids(g),
         s[n].status \notin {"pending", "skipped"}, Kind(g, n) # "input"
  PROVE \E m \in Started(g, s) : Leads(g, s, m, n)
<1>1. Arrived(g, n, s) BY DEF Consistent
<1>2. PICK e \in g.edges : e.to = n /\ Satisfied(e, s) BY <1>1 DEF Arrived, Into
<1>3. e.from \in Started(g, s) BY <1>2, SatisfiedFrom
<1> QED BY <1>2, <1>3 DEF Leads

\* Some node of every set of nodes has no predecessor in the set.
LEMMA FirstNode ==
  ASSUME NEW g, FiniteGraph(g), Executable(g), NEW S \in SUBSET Ids(g), S # {}
  PROVE \E n \in S : \A e \in g.edges : e.to = n => e.from \notin S
<1>1. ~ContainsCycle(Ids(g), g.edges) /\ \A e \in g.edges : e.from \in Ids(g)
  BY DEF Executable, EdgeExecutable
<1>2. ~Cyclic(Ids(g), g.edges) BY <1>1, CycleCheckExact DEF FiniteGraph
<1>3. S \in (SUBSET Ids(g)) \ {{}} OBVIOUS
<1> QED BY <1>2, <1>3 DEF Cyclic, Into

\* The path has one end.
LEMMA OneTip ==
  ASSUME NEW g, FiniteGraph(g), Executable(g), NEW s, Consistent(g, s),
         NEW t, NEW u, Tip(g, s, t), Tip(g, s, u)
  PROVE t = u
<1> DEFINE P == Started(g, s)
           Behind(T) == t \in T /\ \A m \in P, n \in T : Leads(g, s, m, n) => m \in T
           A == {a \in P : \A T \in SUBSET P : Behind(T) => a \in T}
<1>1. t \in P /\ u \in P /\ P \in SUBSET Ids(g) BY DEF Tip, Started
<1>2. t \in A BY <1>1
<1>3. ASSUME NEW n \in A, NEW m \in P, Leads(g, s, m, n) PROVE m \in A BY <1>3
<1>4. ASSUME NEW T \in SUBSET P, Behind(T), NEW a \in A PROVE a \in T BY <1>4
<1>5. A \in SUBSET P OBVIOUS
<1> HIDE DEF A, Behind
<1>6. ASSUME NEW a \in A, a # t PROVE \E c \in A : Leads(g, s, a, c)
  <2> DEFINE T == {t} \cup {b \in A : \E c \in A : Leads(g, s, b, c)}
  <2>1. T \in SUBSET P BY <1>1, <1>5
  <2>2. ASSUME NEW m \in P, NEW n \in T, Leads(g, s, m, n) PROVE m \in T
    <3>1. n \in A BY <1>2
    <3>2. m \in A BY <1>3, <2>2, <3>1
    <3> QED BY <2>2, <3>1, <3>2
  <2>3. Behind(T) BY <2>2 DEF Behind
  <2> HIDE DEF T
  <2>4. a \in T BY <1>4, <2>1, <2>3
  <2> QED BY <1>6, <2>4 DEF T
<1>7. ASSUME NEW n \in P, Kind(g, n) # "input" PROVE \E m \in P : Leads(g, s, m, n)
  <2>1. n \in Ids(g) /\ s[n].status \notin {"pending", "skipped"} BY DEF Started
  <2> QED BY <1>7, <2>1, LedTo
<1>8. \E a \in A : Kind(g, a) = "input"
  <2>1. PICK a \in A : \A e \in g.edges : e.to = a => e.from \notin A
    <3>1. A \in SUBSET Ids(g) /\ A # {} BY <1>1, <1>2, <1>5
    <3> QED BY <3>1, FirstNode
  <2>2. ASSUME Kind(g, a) # "input" PROVE FALSE
    <3>1. PICK m \in P : Leads(g, s, m, a) BY <1>5, <1>7, <2>2
    <3>2. m \in A BY <1>3, <3>1
    <3> QED BY <2>1, <3>1, <3>2 DEF Leads
  <2> QED BY <2>2
<1>9. ASSUME NEW a \in Ids(g), NEW b \in Ids(g), Kind(g, a) = "input", Kind(g, b) = "input"
      PROVE a = b
  <2>1. KindNodes(g, "input") \in SUBSET Ids(g) /\ IsFiniteSet(Ids(g)) BY DEF KindNodes, FiniteGraph
  <2>2. IsFiniteSet(KindNodes(g, "input")) BY <2>1, FS_Subset
  <2>3. Cardinality(KindNodes(g, "input")) = 1 BY DEF Executable, BoundariesValid
  <2>4. PICK x : KindNodes(g, "input") = {x} BY <2>2, <2>3, FS_Singleton
  <2>5. a \in KindNodes(g, "input") /\ b \in KindNodes(g, "input") BY <1>9 DEF KindNodes, Kind
  <2> QED BY <2>4, <2>5
<1>10. P \subseteq A
  <2> DEFINE B == P \ A
  <2>1. ASSUME B # {} PROVE FALSE
    <3>1. PICK b \in B : \A e \in g.edges : e.to = b => e.from \notin B
      <4>1. B \in SUBSET Ids(g) BY <1>1
      <4> HIDE DEF B
      <4> QED BY <2>1, <4>1, FirstNode
    <3>2. b \in P /\ b \notin A /\ b \in Ids(g) BY <1>1
    <3>3. Kind(g, b) # "input" BY <1>1, <1>5, <1>8, <1>9, <3>2
    <3>4. PICK m \in P : Leads(g, s, m, b) BY <1>7, <3>2, <3>3
    <3>5. m \in A BY <3>1, <3>4 DEF Leads
    <3>6. m # t BY <3>2, <3>4 DEF Tip
    <3>7. PICK c \in A : Leads(g, s, m, c) BY <1>6, <3>5, <3>6
    <3>8. c = b BY <3>4, <3>7, LeadsToOne DEF Leads
    <3> QED BY <3>2, <3>7, <3>8
  <2> QED BY <2>1
<1>11. ASSUME u # t PROVE FALSE
  <2>1. PICK c \in A : Leads(g, s, u, c) BY <1>1, <1>6, <1>10, <1>11
  <2> QED BY <1>5, <2>1 DEF Tip
<1> QED BY <1>11

\* A satisfied edge of a node of a sealed chain is the happy one exactly when the
\* outcome is.
LEMMA HappySatisfied ==
  ASSUME NEW g, NEW n, NEW s, NEW e
  PROVE /\ e \in HappyEdges(g, n) /\ Satisfied(e, s) => s[n].outcome = Happy(Kind(g, n))
        /\ e \in UnhappyEdges(g, n) /\ Satisfied(e, s) =>
             s[n].outcome \in {"failure", "blocked", "rejected"}
        /\ e \in HappyEdges(g, n) /\ s[n].outcome = Happy(Kind(g, n)) /\ s[n].status # "skipped" =>
             Satisfied(e, s)
BY DEF HappyEdges, UnhappyEdges, Out, Happy, Unhappy, Kind, Satisfied, R!EdgeSatisfied, R!Accepts

\* A node of a chain is led to by the happy edge of the one before and no other.
LEMMA OneWayIn ==
  ASSUME NEW g, FiniteGraph(g), Executable(g), NEW w \in KindNodes(g, "write_task"), NEW c,
         SealedChain(g, w, c), NEW i \in 1 .. Len(c)
  PROVE /\ c[i] \in Ids(g) \ KindNodes(g, "output") /\ Kind(g, c[i]) # "input"
        /\ Before(w, c, i) \in Ids(g)
        /\ \E e \in HappyEdges(g, Before(w, c, i)) : Into(g.edges, c[i]) = {e}
<1>1. c[i] \in SystemOf(g, w) /\ Kind(g, c[i]) \in SystemKinds BY ChainKinds
<1>2. c[i] \in Ids(g) \ KindNodes(g, "output") /\ Kind(g, c[i]) # "input"
  BY <1>1 DEF SystemOf, KindNodes, SystemKinds, Kind
<1>3. PICK e \in HappyEdges(g, Before(w, c, i)) : e.to = c[i] BY DEF SealedChain
<1> DEFINE I == Into(g.edges, c[i])
<1>4. e \in I /\ I \in SUBSET g.edges /\ e.from = Before(w, c, i) /\ e \in g.edges
  BY <1>3 DEF HappyEdges, Out, Into
<1>5. Cardinality(I) <= 1 BY <1>2 DEF Executable, FanoutAndJoinsValid
<1> HIDE DEF I
<1>6. IsFiniteSet(I) /\ Cardinality(I) \in Nat BY <1>4, FS_Subset, FS_CardinalityType DEF FiniteGraph
<1>7. Cardinality(I) # 0 BY <1>4, <1>6, FS_EmptySet
<1>8. Cardinality(I) = 1 BY <1>5, <1>6, <1>7
<1>9. PICK x : I = {x} BY <1>6, <1>8, FS_Singleton
<1>10. I = {e} BY <1>4, <1>9
<1>11. Before(w, c, i) \in Ids(g) BY <1>4 DEF Executable, EdgeExecutable
<1> QED BY <1>2, <1>3, <1>10, <1>11 DEF I

\* What has led to a node of a chain that started is the success of the one before.
LEMMA StartedAfter ==
  ASSUME NEW g, FiniteGraph(g), Executable(g), NEW w \in KindNodes(g, "write_task"), NEW c,
         SealedChain(g, w, c), NEW i \in 1 .. Len(c), NEW s, Consistent(g, s), Settled(g, s)
  PROVE LET m == Before(w, c, i)
        IN  c[i] \in Started(g, s) <=> s[m].outcome = Happy(Kind(g, m))
<1> DEFINE m == Before(w, c, i)
           n == c[i]
<1>1. /\ n \in Ids(g) \ KindNodes(g, "output") /\ Kind(g, n) # "input" /\ m \in Ids(g)
      /\ \E e \in HappyEdges(g, m) : Into(g.edges, n) = {e}
  BY OneWayIn
<1> HIDE DEF m, n
<1>2. PICK e \in HappyEdges(g, m) : Into(g.edges, n) = {e} BY <1>1
<1>3. e \in g.edges /\ e.to = n /\ e.from = m BY <1>2 DEF HappyEdges, Out, Into
<1>4. s[m] \in States /\ s[n] \in States BY <1>1 DEF Consistent
<1>5. ASSUME n \in Started(g, s) PROVE s[m].outcome = Happy(Kind(g, m))
  <2>1. Arrived(g, n, s) BY <1>1, <1>5 DEF Started, Consistent
  <2>2. Satisfied(e, s) BY <1>2, <2>1 DEF Arrived
  <2> QED BY <1>2, <2>2, HappySatisfied
<1>6. ASSUME s[m].outcome = Happy(Kind(g, m)) PROVE n \in Started(g, s)
  <2>1. s[m].outcome # "none" BY <1>6 DEF Happy
  <2>2. s[m] \in Results BY <1>4, <2>1, StateFacts
  <2>3. s[m].status \in Over /\ s[m].status # "skipped" BY <1>4, <2>2, StateFacts
  <2>4. Satisfied(e, s) BY <1>2, <1>6, <2>3, HappySatisfied
  <2>5. Decided(g, n, s) /\ Arrived(g, n, s) BY <1>2, <1>3, <2>3, <2>4 DEF Decided, Arrived
  <2>6. s[n].status # "pending" BY <1>1, <2>5 DEF Settled
  <2>7. s[n].status # "skipped" BY <1>1, <2>5 DEF Consistent
  <2> QED BY <1>1, <2>6, <2>7 DEF Started
<1> QED BY <1>5, <1>6 DEF m, n

\* When a write task has succeeded and not all of its chain has, the path of the run
\* ends in the chain.
LEMMA ChainStops ==
  ASSUME NEW g, FiniteGraph(g), Executable(g), NEW w \in KindNodes(g, "write_task"), NEW c,
         SealedChain(g, w, c), NEW s, Consistent(g, s), Settled(g, s),
         s[w].outcome = "success",
         NEW k \in 1 .. Len(c), s[c[k]].outcome # Happy(Kind(g, c[k]))
  PROVE \E i \in 1 .. Len(c) : Tip(g, s, c[i]) /\ s[c[i]].outcome # Happy(Kind(g, c[i]))
<1> DEFINE Off(i) == s[c[i]].outcome # Happy(Kind(g, c[i]))
           B == {i \in 1 .. Len(c) : Off(i)}
<1>1. PICK i \in B : \A j \in B : i <= j
  <2>1. B \in SUBSET Nat /\ k \in B OBVIOUS
  <2> HIDE DEF B
  <2> QED BY <2>1, LeastNumber
<1>2. i \in 1 .. Len(c) /\ Off(i) /\ Len(c) \in Nat BY <1>1 DEF SealedChain
<1>3. s[Before(w, c, i)].outcome = Happy(Kind(g, Before(w, c, i)))
  <2>1. CASE i = 1 BY <2>1 DEF Before, Happy, KindNodes, Kind
  <2>2. CASE i # 1
    <3>1. i - 1 \in 1 .. Len(c) /\ ~(i <= i - 1) BY <1>2, <2>2
    <3>2. ~Off(i - 1) BY <1>1, <3>1
    <3> QED BY <2>2, <3>2 DEF Before
  <2> QED BY <2>1, <2>2
<1> HIDE DEF B
<1>4. c[i] \in Started(g, s) BY <1>2, <1>3, StartedAfter
<1>5. ASSUME NEW n \in Started(g, s), Leads(g, s, c[i], n) PROVE FALSE
  <2>1. PICK e \in g.edges : e.from = c[i] /\ e.to = n /\ Satisfied(e, s) BY <1>5 DEF Leads
  <2>2. \/ e \in HappyEdges(g, c[i])
        \/ e \in UnhappyEdges(g, c[i]) /\ e.to \in KindNodes(g, "output")
    BY <1>2, <2>1, ChainEdgesLead
  <2>3. e \notin HappyEdges(g, c[i]) BY <1>2, <2>1, HappySatisfied
  <2> QED BY <2>1, <2>2, <2>3 DEF Started
<1>6. Tip(g, s, c[i]) BY <1>4, <1>5 DEF Tip
<1> QED BY <1>2, <1>6

-------------------------------------------------------------------------------
(* What a run may do *)

\* While a write task has succeeded and its merge has not, what is ready is in its chain
\* or the output.
LEMMA ReadyInChain ==
  ASSUME NEW g, FiniteGraph(g), Executable(g), NEW s, Consistent(g, s), Settled(g, s),
         NEW w \in KindNodes(g, "write_task"), s[w].outcome = "success",
         \A m \in SystemOf(g, w) : g.node[m].kind = "merge" => s[m].outcome # "success",
         NEW n \in Ids(g), s[n] = R!Ready
  PROVE n \in SystemOf(g, w) \cup KindNodes(g, "output")
<1> DEFINE c == HappyChain(g, w)
<1>1. SealedChain(g, w, c) BY ExecutableChain
<1> HIDE DEF c
<1>2. /\ Len(c) \in Nat /\ Len(c) \in 1 .. Len(c)
      /\ \A i \in 1 .. Len(c) : c[i] \in SystemOf(g, w)
  BY <1>1 DEF SealedChain
<1>3. Kind(g, c[Len(c)]) = "merge" BY <1>1, <1>2, ChainKinds
<1>4. s[c[Len(c)]].outcome # Happy(Kind(g, c[Len(c)])) BY <1>2, <1>3 DEF Happy, Kind
<1>5. PICK i \in 1 .. Len(c) : Tip(g, s, c[i]) BY <1>1, <1>2, <1>4, ChainStops
<1>6. CASE n \notin KindNodes(g, "output")
  <2>1. n \in Started(g, s) BY <1>6, StateNames DEF Started
  <2>2. ASSUME NEW e \in g.edges, e.from = n PROVE ~Satisfied(e, s) BY <2>2, StateNames, NoneLeads
  <2>3. Tip(g, s, n) BY <2>1, <2>2 DEF Tip, Leads
  <2>4. n = c[i] BY <1>5, <2>3, OneTip
  <2> QED BY <1>2, <2>4
<1> QED BY <1>6

\* Nobody's work starts between a write task's success and the merge of its ChangeSet:
\* claims and completions may come in any order, and only the task's own chain and the
\* output become ready.
THEOREM NothingBeforeTheMerge == Spec => NothingBeforeMerge
<1>1. StageInv /\ StageInv' /\ RunInv /\ RunInv' /\ [Next]_vars =>
        [stage = "running" =>
           \A w \in KindNodes(graph, "write_task"), n \in Ids(graph) :
             /\ st[w].outcome = "success" /\ st'[n] = R!Ready /\ st[n] # R!Ready
             /\ \A m \in SystemOf(graph, w) : graph.node[m].kind = "merge" => st'[m].outcome # "success"
             => n \in SystemOf(graph, w) \cup KindNodes(graph, "output")]_vars
  <2> SUFFICES ASSUME StageInv, StageInv', RunInv, RunInv', Next, stage = "running",
                      NEW w \in KindNodes(graph, "write_task"), NEW n \in Ids(graph),
                      st[w].outcome = "success", st'[n] = R!Ready,
                      \A m \in SystemOf(graph, w) : graph.node[m].kind = "merge" => st'[m].outcome # "success"
               PROVE n \in SystemOf(graph, w) \cup KindNodes(graph, "output")
    OBVIOUS
  <2>1. PICK k \in Ids(graph) : Finish(k) BY DEF Next, Submit, Compile, Validate
  <2>2. /\ FiniteGraph(graph) /\ Executable(graph)
        /\ Consistent(graph, st') /\ Settled(graph, st')
        /\ \A m \in Ids(graph) : st[m] \in Results => st'[m] = st[m]
    BY <2>1, FinishFrame
  <2>3. st'[w].outcome = "success"
    <3>1. w \in Ids(graph) /\ st[w] \in States BY DEF KindNodes, RunInv, Consistent
    <3>2. st[w] \in Results BY <3>1, StateFacts
    <3> QED BY <2>2, <3>1, <3>2
  <2> QED BY <2>2, <2>3, ReadyInChain
<1> QED BY <1>1, StageCorrect, RunCorrect, PTL DEF Spec, NothingBeforeMerge

\* A run that ends with success has merged the work of every write task that succeeded,
\* and no failure, block or rejection of a sealed chain is behind it.
LEMMA MergedBefore ==
  ASSUME NEW g, FiniteGraph(g), Executable(g), NEW s, Consistent(g, s), Settled(g, s),
         OutputTells(g, s), NEW o \in KindNodes(g, "output"), s[o] = Done("success"),
         NEW w \in KindNodes(g, "write_task"), s[w].outcome = "success",
         NEW n \in SystemOf(g, w)
  PROVE s[n].outcome = Happy(Kind(g, n))
<1> SUFFICES ASSUME s[n].outcome # Happy(Kind(g, n)) PROVE FALSE OBVIOUS
<1> DEFINE c == HappyChain(g, w)
<1>1. SealedChain(g, w, c) BY ExecutableChain
<1> HIDE DEF c
<1>2. PICK k \in 1 .. Len(c) : n = c[k] BY <1>1 DEF SealedChain
<1>3. PICK i \in 1 .. Len(c) : Tip(g, s, c[i]) /\ s[c[i]].outcome # Happy(Kind(g, c[i]))
  BY <1>1, <1>2, ChainStops
<1>4. o \in Ids(g) /\ Kind(g, o) = "output" BY DEF KindNodes, Kind
<1>5. Arrived(g, o, s) BY <1>4, DoneFacts DEF Consistent
<1>6. PICK e \in Into(g.edges, o) : Satisfied(e, s) BY <1>5 DEF Arrived
<1>7. e \in g.edges /\ e.to = o BY <1>6 DEF Into
<1>8. e.from \in Started(g, s) BY <1>6, <1>7, SatisfiedFrom
<1>9. ASSUME NEW m \in Started(g, s), Leads(g, s, e.from, m) PROVE FALSE
  <2>1. PICK f \in g.edges : f.from = e.from /\ f.to = m /\ Satisfied(f, s) BY <1>9 DEF Leads
  <2>2. f = e BY <1>6, <1>7, <2>1, LeadsToOne
  <2> QED BY <1>7, <2>1, <2>2 DEF Started
<1>10. Tip(g, s, e.from) BY <1>8, <1>9 DEF Tip
<1>11. e.from = c[i] BY <1>3, <1>10, OneTip
<1>12. e \in HappyEdges(g, c[i]) \/ e \in UnhappyEdges(g, c[i]) BY <1>1, <1>7, <1>11, ChainEdgesLead
<1>13. s[e.from].outcome \in {"failure", "blocked", "rejected"}
  BY <1>3, <1>6, <1>11, <1>12, HappySatisfied
<1> QED BY <1>6, <1>13 DEF OutputTells

\* A run whose output succeeds has merged every write task that succeeded: the output is
\* reached only behind the last node of the chain, and tells a block, a failure or a
\* rejection that led to it.
THEOREM SuccessIsMerged == Spec => []SuccessMeansMerged
<1>1. StageInv /\ RunInv => SuccessMeansMerged
  <2> SUFFICES ASSUME StageInv, RunInv, stage = "running",
                      NEW o \in KindNodes(graph, "output"), st[o] = Done("success"),
                      NEW w \in KindNodes(graph, "write_task"), st[w].outcome = "success",
                      NEW n \in SystemOf(graph, w)
               PROVE st[n].outcome = Happy(graph.node[n].kind)
    BY DEF SuccessMeansMerged
  <2>1. FiniteGraph(graph) /\ Executable(graph) BY RunningGraph
  <2>2. Consistent(graph, st) /\ Settled(graph, st) /\ OutputTells(graph, st) BY DEF RunInv
  <2>3. st[n].outcome = Happy(Kind(graph, n)) BY <2>1, <2>2, MergedBefore
  <2> QED BY <2>3 DEF Kind
<1> QED BY <1>1, StageCorrect, RunCorrect, PTL

\* A node of a chain that has started had the success of all before it.
LEMMA PassedBefore ==
  ASSUME NEW g, FiniteGraph(g), Executable(g), NEW w \in KindNodes(g, "write_task"), NEW c,
         SealedChain(g, w, c), NEW s, Consistent(g, s), Settled(g, s),
         c[Len(c) - 1] \in Started(g, s)
  PROVE \A i \in 1 .. Len(c) - 2 : s[c[i]].outcome = "success"
<1> DEFINE last == Len(c) - 1
           T == {k \in 0 .. last - 1 : c[last - k] \in Started(g, s)}
<1>1. last \in Nat /\ last >= 4 /\ Len(c) = last + 1
  <2>1. Len(c) \in Nat /\ Len(c) >= 5 BY DEF SealedChain
  <2> QED BY <2>1
<1> HIDE DEF last
<1>2. 0 \in T
  <2>1. last - 0 = Len(c) - 1 BY <1>1
  <2> QED BY <1>1, <2>1
<1>3. ASSUME NEW i \in 1 .. last, i # 1, c[i] \in Started(g, s)
      PROVE /\ s[c[i - 1]].outcome = Happy(Kind(g, c[i - 1]))
            /\ c[i - 1] \in Started(g, s)
  <2>1. i \in 1 .. Len(c) /\ i - 1 \in 1 .. Len(c) BY <1>1, <1>3
  <2>2. Before(w, c, i) = c[i - 1] BY <1>3 DEF Before
  <2>3. s[c[i - 1]].outcome = Happy(Kind(g, c[i - 1])) BY <1>3, <2>1, <2>2, StartedAfter
  <2>4. c[i - 1] \in Ids(g) \ KindNodes(g, "output") BY <2>1, OneWayIn
  <2>5. s[c[i - 1]].outcome # "none" BY <2>3 DEF Happy
  <2>6. s[c[i - 1]].status \notin {"pending", "skipped"} BY <2>4, <2>5, StateFacts DEF Consistent
  <2> QED BY <2>3, <2>4, <2>6 DEF Started
<1>4. ASSUME NEW k \in 1 .. last - 1, k - 1 \in T PROVE k \in T
  <2>1. c[last - (k - 1)] \in Started(g, s) BY <1>4
  <2>2. last - (k - 1) \in 1 .. last /\ last - (k - 1) # 1 /\ (last - (k - 1)) - 1 = last - k BY <1>1
  <2>3. c[last - k] \in Started(g, s) BY <1>3, <2>1, <2>2
  <2> QED BY <1>1, <2>3
<1>5. \A k \in 0 .. last - 1 : k \in T
  <2>1. last - 1 \in Nat BY <1>1
  <2> HIDE DEF T
  <2> QED BY <1>2, <1>4, <2>1, Upwards
<1> SUFFICES ASSUME NEW i \in 1 .. Len(c) - 2 PROVE s[c[i]].outcome = "success" OBVIOUS
<1>6. i + 1 \in 1 .. last /\ i + 1 # 1 /\ (i + 1) - 1 = i /\ last - (i + 1) \in 0 .. last - 1
      /\ last - (last - (i + 1)) = i + 1 /\ i \in 1 .. Len(c) /\ i # Len(c) - 1
  BY <1>1
<1>7. last - (i + 1) \in T BY <1>5, <1>6
<1>8. c[i + 1] \in Started(g, s) BY <1>6, <1>7
<1>9. s[c[i]].outcome = Happy(Kind(g, c[i])) BY <1>3, <1>6, <1>8
<1>10. Kind(g, c[i]) # "approval" BY <1>6, ChainKinds
<1> QED BY <1>9, <1>10 DEF Happy

\* The tests of a chain are the commands of its task, or the documentation check.
LEMMA TestsInChain ==
  ASSUME NEW g, FiniteGraph(g), NEW w \in KindNodes(g, "write_task"), NEW c, Len(c) \in Nat,
         SequenceValid(g, w, c)
  PROVE LET cmds == g.node[w].cmds
        IN  /\ Kind(g, c[1]) = "patch_guard" /\ 1 \in 1 .. Len(c) - 2
            /\ \A i \in DOMAIN cmds : \E j \in 1 .. Len(c) - 2 :
                 g.node[c[j]].kind = "test" /\ g.node[c[j]].argv = cmds[i]
            /\ cmds = <<>> => \E j \in 1 .. Len(c) - 2 : g.node[c[j]].test = "docs_static"
<1> DEFINE cmds == g.node[w].cmds
<1>1. Len(cmds) \in Nat /\ DOMAIN cmds = 1 .. Len(cmds) BY DEF FiniteGraph, KindNodes
<1>2. Len(c) >= 5 /\ Kind(g, c[1]) = "patch_guard" BY DEF SequenceValid, Kind
<1>3. CASE Len(c) = 5
  <2>1. cmds = <<>> /\ g.node[c[2]].test = "docs_static" BY <1>3 DEF SequenceValid
  <2>2. 2 \in 1 .. Len(c) - 2 BY <1>3
  <2> QED BY <1>2, <1>3, <2>1, <2>2
<1>4. CASE Len(c) # 5
  <2>1. Len(c) = 2 * Len(cmds) + 4 BY <1>4 DEF SequenceValid
  <2>2. \A k \in DOMAIN cmds : g.node[c[2 * k + 1]].kind = "test" /\ g.node[c[2 * k + 1]].argv = cmds[k]
    BY <1>4 DEF SequenceValid
  <2> HIDE DEF cmds
  <2>3. \A k \in 1 .. Len(cmds) : 2 * k + 1 \in 1 .. Len(c) - 2 BY <1>1, <2>1
  <2>4. cmds # <<>> BY <1>1, <1>2, <2>1
  <2>5. 1 \in 1 .. Len(c) - 2 BY <1>2
  <2> QED BY <1>1, <1>2, <2>2, <2>3, <2>4, <2>5 DEF cmds
<1> QED BY <1>3, <1>4

\* A reviewer is asked only after the patch guard and every command of the author's
\* draft, or the documentation check, has passed.
THEOREM TestedFirst == Spec => []TestedBeforeReview
<1>1. StageInv /\ RunInv => TestedBeforeReview
  <2> SUFFICES ASSUME StageInv, RunInv, stage = "running",
                      NEW w \in KindNodes(graph, "write_task"),
                      NEW n \in SystemOf(graph, w), graph.node[n].kind = "approval", st[n] = R!Ready
               PROVE LET passed == {graph.node[m] : m \in {k \in SystemOf(graph, w) : st[k].outcome = "success"}}
                         cmds == draft.node[w].cmds
                     IN  /\ \E x \in passed : x.kind = "patch_guard"
                         /\ \A i \in DOMAIN cmds : \E x \in passed : x.kind = "test" /\ x.argv = cmds[i]
                         /\ cmds = <<>> => \E x \in passed : x.test = "docs_static"
    BY DEF TestedBeforeReview
  <2> DEFINE c == HappyChain(graph, w)
             passed == {graph.node[m] : m \in {k \in SystemOf(graph, w) : st[k].outcome = "success"}}
  <2>1. /\ FiniteGraph(graph) /\ Executable(graph)
        /\ graph.node[w].cmds = draft.node[w].cmds
    BY RunningGraph
  <2>2. Consistent(graph, st) /\ Settled(graph, st) BY DEF RunInv
  <2>3. SealedChain(graph, w, c) /\ SequenceValid(graph, w, c) BY <2>1, ExecutableChain
  <2> HIDE DEF c
  <2>4. Len(c) \in Nat /\ \A i \in 1 .. Len(c) : c[i] \in SystemOf(graph, w) BY <2>3 DEF SealedChain
  <2>5. PICK i \in 1 .. Len(c) : n = c[i] BY <2>3 DEF SealedChain
  <2>6. i = Len(c) - 1 BY <2>3, <2>5, ChainKinds DEF Kind
  <2>7. c[Len(c) - 1] \in Started(graph, st)
    <3>1. n \in Ids(graph) \ KindNodes(graph, "output") BY <2>1, <2>3, <2>5, OneWayIn
    <3> QED BY <2>5, <2>6, <3>1, StateNames DEF Started
  <2>8. \A j \in 1 .. Len(c) - 2 : st[c[j]].outcome = "success"
    BY <2>1, <2>2, <2>3, <2>7, PassedBefore
  <2>9. \A j \in 1 .. Len(c) - 2 : graph.node[c[j]] \in passed
    <3> SUFFICES ASSUME NEW j \in 1 .. Len(c) - 2 PROVE graph.node[c[j]] \in passed OBVIOUS
    <3>1. j \in 1 .. Len(c) BY <2>4
    <3> QED BY <2>4, <2>8, <3>1
  <2> HIDE DEF passed
  <2>10. /\ Kind(graph, c[1]) = "patch_guard" /\ 1 \in 1 .. Len(c) - 2
         /\ \A k \in DOMAIN graph.node[w].cmds : \E j \in 1 .. Len(c) - 2 :
              graph.node[c[j]].kind = "test" /\ graph.node[c[j]].argv = graph.node[w].cmds[k]
         /\ graph.node[w].cmds = <<>> => \E j \in 1 .. Len(c) - 2 : graph.node[c[j]].test = "docs_static"
    BY <2>1, <2>3, <2>4, TestsInChain
  <2>11. /\ \E x \in passed : x.kind = "patch_guard"
         /\ \A k \in DOMAIN graph.node[w].cmds : \E x \in passed :
              x.kind = "test" /\ x.argv = graph.node[w].cmds[k]
         /\ graph.node[w].cmds = <<>> => \E x \in passed : x.test = "docs_static"
    BY <2>9, <2>10 DEF Kind
  <2> QED BY <2>1, <2>11 DEF passed
<1> QED BY <1>1, StageCorrect, RunCorrect, PTL

================================================================================
