--------------------------- MODULE GraphTreeProofs ---------------------------
(***************************************************************************)
(* Proofs about GraphTree: the five properties the run checks, for every    *)
(* finite set of elements, any bounds and any graph, constructed or parsed. *)
(*                                                                         *)
(* First what the recursive functions of the model compute: the subtree of  *)
(* an element is the least set that holds it and is closed under children,  *)
(* the attached elements are the least fixed point of "a top, or listed by   *)
(* an attached parent", and the path of an attached element is that of its   *)
(* parent and its name.  Then what one change of one list of children does   *)
(* to those, and from that that every operation keeps TreeInv.              *)
(***************************************************************************)
EXTENDS GraphTree, SequenceTheorems, FiniteSetTheorems, TLAPS

-----------------------------------------------------------------------------
(* Induction.  The library's induction principle takes the formula as a     *)
(* parameter; here the set of the numbers that satisfy it is one.           *)

LEMMA LeastNumber ==
  ASSUME NEW T \in SUBSET Nat, T # {}
  PROVE  \E n \in T : \A m \in T : n <= m
<1> DEFINE R == OpToRel(<, Nat)
<1>1. IsWellFoundedOn(R, Nat)
  BY NatLessThanWellFounded
<1>2. \A m, n \in Nat : m < n => <<m, n>> \in R
  BY DEF OpToRel
<1>3. PICK n \in T : \A m \in T : <<m, n>> \notin R
  BY <1>1, WFMin
<1> HIDE DEF R
<1>4. ASSUME NEW m \in T PROVE n <= m
  <2>1. m \in Nat /\ n \in Nat /\ <<m, n>> \notin R
    BY <1>3, <1>4
  <2>2. ~ (m < n)
    BY <1>2, <2>1
  <2> QED
    BY <2>1, <2>2
<1> QED
  BY <1>4

LEMMA SetInduction ==
  ASSUME NEW S, 0 \in S, \A n \in Nat : n \in S => n + 1 \in S
  PROVE  \A n \in Nat : n \in S
<1> SUFFICES ASSUME Nat \ S # {} PROVE FALSE
  OBVIOUS
<1>1. PICK n \in Nat \ S : \A m \in Nat \ S : n <= m
  BY LeastNumber
<1>2. n - 1 \in Nat /\ n - 1 \notin Nat \ S
  BY <1>1
<1> QED
  BY <1>1, <1>2

LEMMA SetInductionTo ==
  ASSUME NEW N \in Nat, NEW S, 0 \in S,
         \A n \in Nat : n < N /\ n \in S => n + 1 \in S
  PROVE  \A n \in 0..N : n \in S
<1> DEFINE T == S \cup {n \in Nat : n > N}
<1>1. 0 \in T /\ \A n \in Nat : n \in T => n + 1 \in T
  OBVIOUS
<1> HIDE DEF T
<1>2. \A n \in Nat : n \in T
  BY <1>1, SetInduction
<1> QED
  BY <1>2 DEF T

\* g tells what applying F again and again makes of v0.
IsRun(g, V, F, v0, N) ==
    g \in [0..N -> V] /\ g[0] = v0 /\ \A n \in 1..N : g[n] = F[g[n - 1]]

\* There is such a g, so what a recursive function over numbers stands for
\* exists.
LEMMA Iterates ==
  ASSUME NEW V, NEW F \in [V -> V], NEW v0 \in V, NEW N \in Nat
  PROVE  \E g : IsRun(g, V, F, v0, N)
<1> DEFINE S == {k \in Nat : \E g : IsRun(g, V, F, v0, k)}
<1>1. 0 \in S
  <2>1. IsRun([n \in 0..0 |-> v0], V, F, v0, 0)
    BY DEF IsRun
  <2> QED
    BY <2>1
<1>2. ASSUME NEW k \in Nat, k \in S PROVE k + 1 \in S
  <2>1. PICK g : IsRun(g, V, F, v0, k)
    BY <1>2
  <2> DEFINE h == [n \in 0..(k + 1) |-> IF n = k + 1 THEN F[g[k]] ELSE g[n]]
  <2>2. h \in [0..(k + 1) -> V]
    BY <2>1 DEF IsRun
  <2>3. h[0] = v0
    BY <2>1 DEF IsRun
  <2>4. ASSUME NEW n \in 1..(k + 1) PROVE h[n] = F[h[n - 1]]
    BY <2>1 DEF IsRun
  <2> HIDE DEF h
  <2>5. IsRun(h, V, F, v0, k + 1)
    BY <2>2, <2>3, <2>4 DEF IsRun
  <2> QED
    BY <2>5
<1> HIDE DEF S
<1>3. N \in S
  BY <1>1, <1>2, SetInduction
<1> QED
  BY <1>3 DEF S

-----------------------------------------------------------------------------
(* What the recursive functions of the model compute. *)

LEMMA Sizes == /\ Cardinality(Elems) \in Nat \ {0}
               /\ Depth = 0..Cardinality(Elems)
               /\ \A S \in SUBSET Elems : /\ IsFiniteSet(S)
                                          /\ Cardinality(S) \in Nat
                                          /\ Cardinality(S) <= Cardinality(Elems)
<1>1. IsFiniteSet(Elems) /\ Root \in Elems
  BY ElemsAssumption
<1>2. Cardinality(Elems) \in Nat /\ Cardinality(Elems) # 0
  BY <1>1, FS_CardinalityType, FS_EmptySet
<1>3. \A S \in SUBSET Elems : IsFiniteSet(S) /\ Cardinality(S) <= Cardinality(Elems)
  BY <1>1, FS_Subset
<1>4. \A S \in SUBSET Elems : Cardinality(S) \in Nat
  BY <1>3, FS_CardinalityType
<1> QED
  BY <1>2, <1>3, <1>4 DEF Depth

Lists == [Elems -> Seq(Elems)]

LEMMA SubtreesDef ==
  ASSUME NEW ch \in Lists
  PROVE  LET f == SubtreesDownTo(ch) IN
         /\ f \in [Depth -> [Elems -> SUBSET Elems]]
         /\ \A e \in Elems : f[0][e] = {e}
         /\ \A n \in Depth, e \in Elems : n # 0 =>
               f[n][e] = {e} \cup UNION {f[n - 1][c] : c \in Range(ch[e])}
<1> DEFINE V == [Elems -> SUBSET Elems]
           F == [g \in V |-> [e \in Elems |->
                    {e} \cup UNION {g[c] : c \in Range(ch[e])}]]
           v0 == [e \in Elems |-> {e}]
           N == Cardinality(Elems)
<1>0. \A e \in Elems : Range(ch[e]) \in SUBSET Elems
  BY RangeOfSeq DEF Lists
<1>1. F \in [V -> V] /\ v0 \in V
  BY <1>0
<1>2. N \in Nat /\ Depth = 0..N
  BY Sizes
<1>3. \E g : IsRun(g, V, F, v0, N)
  <2> HIDE DEF V, F, v0, N
  <2> QED
    BY <1>1, <1>2, Iterates
<1> PICK g : IsRun(g, V, F, v0, N)
  BY <1>3
<1>4. g = [n \in Depth |->
             [e \in Elems |-> {e} \cup (IF n = 0 THEN {}
                                        ELSE UNION {g[n - 1][c] : c \in Range(ch[e])})]]
  <2>1. ASSUME NEW n \in Depth
        PROVE  g[n] = [e \in Elems |-> {e} \cup (IF n = 0 THEN {}
                                        ELSE UNION {g[n - 1][c] : c \in Range(ch[e])})]
    <3>1. CASE n = 0
      BY <3>1 DEF IsRun
    <3>2. CASE n # 0
      <4>1. n \in 1..N /\ n - 1 \in 0..N
        BY <1>2, <3>2
      <4>2. g[n] = F[g[n - 1]] /\ g[n - 1] \in V
        BY <4>1 DEF IsRun
      <4> QED
        BY <3>2, <4>2
    <3> QED
      BY <3>1, <3>2
  <2> QED
    BY <1>2, <2>1 DEF IsRun
<1>5. LET f == SubtreesDownTo(ch) IN
      f = [n \in Depth |->
             [e \in Elems |-> {e} \cup (IF n = 0 THEN {}
                                        ELSE UNION {f[n - 1][c] : c \in Range(ch[e])})]]
  <2> DEFINE h == SubtreesDownTo(ch)
             Level(f, n) == [e \in Elems |-> {e} \cup (IF n = 0 THEN {}
                                              ELSE UNION {f[n - 1][c] : c \in Range(ch[e])})]
  <2>1. h = CHOOSE f : f = [n \in Depth |-> Level(f, n)]
    BY Zenon DEF SubtreesDownTo
  <2>2. g = [n \in Depth |-> Level(g, n)]
    BY <1>4, Zenon
  <2> HIDE DEF h, Level
  <2>3. h = [n \in Depth |-> Level(h, n)]
    BY <2>1, <2>2
  <2> QED
    BY <2>3, Zenon DEF h, Level
<1> DEFINE f == SubtreesDownTo(ch)
<1>6. f = [n \in Depth |->
             [e \in Elems |-> {e} \cup (IF n = 0 THEN {}
                                        ELSE UNION {f[n - 1][c] : c \in Range(ch[e])})]]
  BY <1>5
<1> HIDE DEF f
<1>7. 0 \in Depth /\ \A n \in Depth : n # 0 => n - 1 \in Depth
  BY <1>2
<1>8. \A e \in Elems : f[0][e] = {e}
  BY <1>6, <1>7
<1>9. ASSUME NEW n \in Depth, n # 0
      PROVE  f[n] = [e \in Elems |-> {e} \cup UNION {f[n - 1][c] : c \in Range(ch[e])}]
  <2>1. f[n] = [e \in Elems |-> {e} \cup (IF n = 0 THEN {}
                                   ELSE UNION {f[n - 1][c] : c \in Range(ch[e])})]
    BY <1>6
  <2> QED
    BY <1>9, <2>1
<1>10. \A n \in Depth : f[n] \in V
  <2> DEFINE T == {n \in Nat : n \in Depth => f[n] \in V}
  <2>1. 0 \in T
    BY <1>6, <1>7
  <2>2. ASSUME NEW n \in Nat, n < N, n \in T PROVE n + 1 \in T
    <3>1. n \in Depth /\ f[n] \in V /\ n + 1 \in Depth /\ (n + 1) - 1 = n
      BY <1>2, <2>2
    <3>2. f[n + 1] = [e \in Elems |-> {e} \cup UNION {f[n][c] : c \in Range(ch[e])}]
      BY <1>9, <3>1
    <3>3. ASSUME NEW e \in Elems
          PROVE  {e} \cup UNION {f[n][c] : c \in Range(ch[e])} \in SUBSET Elems
      <4>1. \A c \in Range(ch[e]) : f[n][c] \in SUBSET Elems
        BY <1>0, <3>1
      <4> QED
        BY <4>1
    <3>4. f[n + 1] \in V
      BY <3>2, <3>3
    <3> QED
      BY <3>4
  <2> HIDE DEF T
  <2>3. \A n \in 0..N : n \in T
    BY <1>2, <2>1, <2>2, SetInductionTo
  <2> QED
    BY <1>2, <2>3 DEF T
<1>11. f \in [Depth -> V]
  BY <1>6, <1>10
<1> QED
  <2>1. \A n \in Depth, e \in Elems : n # 0 =>
           f[n][e] = {e} \cup UNION {f[n - 1][c] : c \in Range(ch[e])}
    BY <1>9
  <2> QED
    BY <1>8, <1>11, <2>1 DEF f

\* No child of an element of S is outside it.
Closed(S, ch) == \A x \in S : \A y \in Range(ch[x]) : y \in S

LEMMA SubtreesLeast ==
  ASSUME NEW ch \in Lists, NEW S \in SUBSET Elems, Closed(S, ch),
         NEW n \in Depth, NEW e \in S
  PROVE  SubtreesDownTo(ch)[n][e] \subseteq S
<1> DEFINE f == SubtreesDownTo(ch)
           T == {k \in Nat : k \in Depth => \A x \in S : f[k][x] \subseteq S}
           N == Cardinality(Elems)
<1>1. /\ \A x \in Elems : f[0][x] = {x}
      /\ \A k \in Depth, x \in Elems : k # 0 =>
            f[k][x] = {x} \cup UNION {f[k - 1][c] : c \in Range(ch[x])}
  BY SubtreesDef
<1>2. N \in Nat /\ Depth = 0..N
  BY Sizes
<1> HIDE DEF f, N
<1>3. 0 \in T
  BY <1>1
<1>4. ASSUME NEW k \in Nat, k < N, k \in T PROVE k + 1 \in T
  <2>1. k \in Depth /\ k + 1 \in Depth /\ k + 1 # 0 /\ (k + 1) - 1 = k
    BY <1>2, <1>4
  <2>2. ASSUME NEW x \in S PROVE f[k + 1][x] \subseteq S
    <3>1. f[k + 1][x] = {x} \cup UNION {f[k][c] : c \in Range(ch[x])}
      BY <1>1, <2>1
    <3>2. \A c \in Range(ch[x]) : f[k][c] \subseteq S
      BY <1>4, <2>1 DEF Closed
    <3> QED
      BY <3>1, <3>2
  <2> QED
    BY <2>2
<1> HIDE DEF T
<1>5. \A k \in 0..N : k \in T
  BY <1>2, <1>3, <1>4, SetInductionTo
<1> QED
  BY <1>2, <1>5 DEF T, f

LEMMA SubtreesGrow ==
  ASSUME NEW ch \in Lists, NEW n \in Nat, n < Cardinality(Elems), NEW e \in Elems
  PROVE  LET f == SubtreesDownTo(ch) IN
         /\ f[n][e] \subseteq f[n + 1][e]
         /\ \A x \in f[n][e] : \A y \in Range(ch[x]) : y \in f[n + 1][e]
<1> DEFINE f == SubtreesDownTo(ch)
           N == Cardinality(Elems)
           Up(k, x) == f[k][x] \subseteq f[k + 1][x]
           Down(k, x) == \A y \in f[k][x] : \A z \in Range(ch[y]) : z \in f[k + 1][x]
           T == {k \in Nat : k < N => \A x \in Elems : Up(k, x) /\ Down(k, x)}
<1>1. /\ \A x \in Elems : f[0][x] = {x}
      /\ \A k \in Depth, x \in Elems : k # 0 =>
            f[k][x] = {x} \cup UNION {f[k - 1][c] : c \in Range(ch[x])}
  BY SubtreesDef
<1>2. N \in Nat /\ Depth = 0..N
  BY Sizes
<1>3. \A x \in Elems : Range(ch[x]) \subseteq Elems
  BY RangeOfSeq DEF Lists
<1> HIDE DEF f, N
<1>4. \A k \in Nat, x \in Elems : k < N =>
         f[k + 1][x] = {x} \cup UNION {f[k][c] : c \in Range(ch[x])}
  <2> SUFFICES ASSUME NEW k \in Nat, NEW x \in Elems, k < N
               PROVE  f[k + 1][x] = {x} \cup UNION {f[k][c] : c \in Range(ch[x])}
    OBVIOUS
  <2>1. k + 1 \in Depth /\ k + 1 # 0 /\ (k + 1) - 1 = k
    BY <1>2
  <2> QED
    BY <1>1, <2>1
<1>5. \A k \in Depth, x \in Elems : x \in f[k][x]
  BY <1>1, <1>2
<1>6. 0 \in T
  <2> SUFFICES ASSUME 0 < N, NEW x \in Elems PROVE Up(0, x) /\ Down(0, x)
    OBVIOUS
  <2>1. f[0][x] = {x}
    BY <1>1
  <2>2. f[0 + 1][x] = {x} \cup UNION {f[0][c] : c \in Range(ch[x])}
    BY <1>4
  <2>3. \A c \in Range(ch[x]) : c \in f[0][c]
    BY <1>1, <1>3
  <2> QED
    BY <2>1, <2>2, <2>3
<1>7. ASSUME NEW k \in Nat, k \in T PROVE k + 1 \in T
  <2> SUFFICES ASSUME k + 1 < N, NEW x \in Elems PROVE Up(k + 1, x) /\ Down(k + 1, x)
    OBVIOUS
  <2>1. k < N /\ k + 1 \in Nat /\ k + 1 \in Depth
    BY <1>2
  <2>2. f[k + 1][x] = {x} \cup UNION {f[k][c] : c \in Range(ch[x])}
    BY <1>4, <2>1
  <2>3. f[(k + 1) + 1][x] = {x} \cup UNION {f[k + 1][c] : c \in Range(ch[x])}
    BY <1>4, <2>1
  <2>4. \A c \in Range(ch[x]) : Up(k, c) /\ Down(k, c) /\ c \in f[k + 1][c]
    BY <1>3, <1>5, <1>7, <2>1
  <2>5. Up(k + 1, x)
    BY <2>2, <2>3, <2>4
  <2>6. Down(k + 1, x)
    <3> SUFFICES ASSUME NEW y \in f[k + 1][x], NEW z \in Range(ch[y])
                 PROVE  z \in f[(k + 1) + 1][x]
      OBVIOUS
    <3>1. CASE y = x
      BY <2>3, <2>4, <3>1
    <3>2. ASSUME NEW c \in Range(ch[x]), y \in f[k][c] PROVE z \in f[(k + 1) + 1][x]
      BY <2>3, <2>4, <3>2
    <3> QED
      BY <2>2, <3>1, <3>2
  <2> QED
    BY <2>5, <2>6
<1> HIDE DEF T
<1>8. \A k \in Nat : k \in T
  BY <1>6, <1>7, SetInduction
<1> QED
  BY <1>8 DEF T, N, f

\* The subtree of an element is the least set that holds it and the children of
\* all it holds.
LEMMA SubtreeIsLeast ==
  ASSUME NEW ch \in Lists, NEW e \in Elems
  PROVE  LET S == SubtreeOf(ch)[e] IN
         /\ S \in SUBSET Elems /\ e \in S /\ Closed(S, ch)
         /\ \A U \in SUBSET Elems : e \in U /\ Closed(U, ch) => S \subseteq U
<1> DEFINE f == SubtreesDownTo(ch)
           N == Cardinality(Elems)
           T == {k \in Nat : k \in Depth =>
                    Closed(f[k][e], ch) \/ Cardinality(f[k][e]) >= k + 1}
<1>1. /\ f \in [Depth -> [Elems -> SUBSET Elems]]
      /\ f[0][e] = {e}
      /\ \A k \in Depth : e \in f[k][e]
  BY SubtreesDef
<1>2. N \in Nat /\ Depth = 0..N
  BY Sizes
<1>3. \A k \in Depth : /\ f[k][e] \in SUBSET Elems
                       /\ IsFiniteSet(f[k][e])
                       /\ Cardinality(f[k][e]) \in Nat
                       /\ Cardinality(f[k][e]) <= N
  BY <1>1, Sizes
<1>4. 0 \in T
  <2>1. Cardinality({e}) = 1
    BY FS_Singleton
  <2>2. Cardinality(f[0][e]) = 1
    BY <1>1, <2>1
  <2> HIDE DEF f
  <2> QED
    BY <2>2
<1>5. ASSUME NEW k \in Nat, k < N, k \in T PROVE k + 1 \in T
  <2>1. k \in Depth /\ k + 1 \in Depth
    BY <1>2, <1>5
  <2>2. /\ f[k][e] \subseteq f[k + 1][e]
        /\ \A x \in f[k][e] : \A y \in Range(ch[x]) : y \in f[k + 1][e]
    BY <1>5, SubtreesGrow
  <2>3. CASE Closed(f[k][e], ch)
    <3>1. f[k + 1][e] \subseteq f[k][e]
      BY <1>1, <1>3, <2>1, <2>3, SubtreesLeast
    <3>2. f[k + 1][e] = f[k][e]
      BY <2>2, <3>1
    <3> QED
      BY <2>3, <3>2
  <2>4. CASE ~Closed(f[k][e], ch)
    <3>1. f[k + 1][e] # f[k][e]
      BY <2>2, <2>4 DEF Closed
    <3>2. Cardinality(f[k][e]) < Cardinality(f[k + 1][e])
      <4>1. /\ Cardinality(f[k][e]) <= Cardinality(f[k + 1][e])
            /\ Cardinality(f[k + 1][e]) = Cardinality(f[k][e]) => f[k + 1][e] = f[k][e]
        BY <1>3, <2>1, <2>2, FS_Subset
      <4> QED
        BY <1>3, <2>1, <3>1, <4>1
    <3>3. Cardinality(f[k][e]) >= k + 1
      BY <1>5, <2>1, <2>4
    <3>4. Cardinality(f[k + 1][e]) >= (k + 1) + 1
      BY <1>3, <2>1, <3>2, <3>3
    <3> QED
      BY <3>4
  <2> QED
    BY <2>3, <2>4
<1>6. N \in T
  <2> HIDE DEF T
  <2>1. \A k \in 0..N : k \in T
    BY <1>2, <1>4, <1>5, SetInductionTo
  <2> QED
    BY <1>2, <2>1
<1>7. N \in Depth
  BY <1>2
<1>8. Closed(f[N][e], ch)
  BY <1>3, <1>6, <1>7
<1>9. \A U \in SUBSET Elems : e \in U /\ Closed(U, ch) => f[N][e] \subseteq U
  BY <1>7, SubtreesLeast
<1>10. SubtreeOf(ch)[e] = f[N][e]
  BY DEF SubtreeOf
<1>11. f[N][e] \in SUBSET Elems /\ e \in f[N][e]
  BY <1>1, <1>3, <1>7
<1> HIDE DEF f, N
<1> QED
  BY <1>8, <1>9, <1>10, <1>11

-----------------------------------------------------------------------------
Parents == [Elems -> Elems \cup {Nil}]

\* The elements whose parent, if any, is in U and lists them.
Up(par, ch, U) ==
    {e \in Elems : par[e] = Nil \/ (par[e] \in U /\ e \in Range(ch[par[e]]))}

LEMMA AttachedDef ==
  ASSUME NEW par \in Parents, NEW ch \in Lists
  PROVE  LET f == AttachedWithin(par, ch) IN
         /\ f[0] = Up(par, ch, {})
         /\ \A n \in Depth : n # 0 => f[n] = Up(par, ch, f[n - 1])
<1> DEFINE V == SUBSET Elems
           F == [U \in V |-> Up(par, ch, U)]
           v0 == Up(par, ch, {})
           N == Cardinality(Elems)
<1>1. F \in [V -> V] /\ v0 \in V
  BY DEF Up
<1>2. N \in Nat /\ Depth = 0..N
  BY Sizes
<1>3. \E g : IsRun(g, V, F, v0, N)
  <2> HIDE DEF V, F, v0, N
  <2> QED
    BY <1>1, <1>2, Iterates
<1> PICK g : IsRun(g, V, F, v0, N)
  BY <1>3
<1>4. g = [n \in Depth |-> Up(par, ch, IF n = 0 THEN {} ELSE g[n - 1])]
  <2>1. ASSUME NEW n \in Depth
        PROVE  g[n] = Up(par, ch, IF n = 0 THEN {} ELSE g[n - 1])
    <3>1. CASE n = 0
      BY <3>1 DEF IsRun
    <3>2. CASE n # 0
      <4>1. n \in 1..N /\ n - 1 \in 0..N
        BY <1>2, <3>2
      <4>2. g[n] = F[g[n - 1]] /\ g[n - 1] \in V
        BY <4>1 DEF IsRun
      <4> QED
        BY <3>2, <4>2
    <3> QED
      BY <3>1, <3>2
  <2> QED
    BY <1>2, <2>1 DEF IsRun
<1>5. LET f == AttachedWithin(par, ch) IN
      f = [n \in Depth |-> Up(par, ch, IF n = 0 THEN {} ELSE f[n - 1])]
  BY <1>4 DEF AttachedWithin, Up
<1> DEFINE f == AttachedWithin(par, ch)
<1>6. f = [n \in Depth |-> Up(par, ch, IF n = 0 THEN {} ELSE f[n - 1])]
  BY <1>5
<1> HIDE DEF f
<1>7. \A n \in Depth : f[n] = Up(par, ch, IF n = 0 THEN {} ELSE f[n - 1])
  BY <1>6
<1>8. 0 \in Depth
  BY <1>2
<1> QED
  BY <1>7, <1>8 DEF f

\* The attached elements are the least set that holds the tops and whatever a
\* parent in it lists.
LEMMA AttachedIsLeast ==
  ASSUME NEW par \in Parents, NEW ch \in Lists
  PROVE  LET A == AttachedIn(par, ch) IN
         /\ A \in SUBSET Elems
         /\ A = Up(par, ch, A)
         /\ A = AttachedWithin(par, ch)[Cardinality(Elems) - 1]
         /\ \A S \in SUBSET Elems : Up(par, ch, S) \subseteq S => A \subseteq S
<1> DEFINE f == AttachedWithin(par, ch)
           N == Cardinality(Elems)
           T == {n \in Nat : n \in Depth =>
                    /\ f[n] \subseteq Up(par, ch, f[n])
                    /\ f[n] = Up(par, ch, f[n]) \/ Cardinality(f[n]) >= n + 1}
<1>1. /\ f[0] = Up(par, ch, {})
      /\ \A n \in Depth : n # 0 => f[n] = Up(par, ch, f[n - 1])
  BY AttachedDef
<1>2. N \in Nat /\ Depth = 0..N
  BY Sizes
<1> HIDE DEF f, N
<1>3. ASSUME NEW n \in Nat, n < N
      PROVE  n \in Depth /\ n + 1 \in Depth /\ f[n + 1] = Up(par, ch, f[n])
  <2>1. n \in Depth /\ n + 1 \in Depth /\ n + 1 # 0 /\ (n + 1) - 1 = n
    BY <1>2, <1>3
  <2> QED
    BY <1>1, <2>1
<1>4. ASSUME NEW n \in Depth PROVE f[n] \in SUBSET Elems
  <2>1. f[n] = Up(par, ch, {}) \/ f[n] = Up(par, ch, f[n - 1])
    BY <1>1
  <2> QED
    BY <2>1 DEF Up
<1>5. \A n \in Depth : /\ IsFiniteSet(f[n])
                       /\ Cardinality(f[n]) \in Nat
                       /\ Cardinality(f[n]) <= N
  BY <1>4, Sizes DEF N
<1>6. 0 \in T
  <2>1. f[0] \subseteq Up(par, ch, f[0])
    BY <1>1 DEF Up
  <2>2. CASE f[0] = {}
    <3>1. f[0] = Up(par, ch, f[0])
      BY <1>1, <2>2
    <3> QED
      BY <2>1, <3>1
  <2>3. CASE f[0] # {}
    <3>1. 0 \in Depth
      BY <1>2
    <3>2. Cardinality(f[0]) # 0
      BY <1>5, <2>3, <3>1, FS_EmptySet
    <3>3. Cardinality(f[0]) >= 0 + 1
      BY <1>5, <3>1, <3>2
    <3> QED
      BY <2>1, <3>3
  <2> QED
    BY <2>2, <2>3
<1>7. ASSUME NEW n \in Nat, n < N, n \in T PROVE n + 1 \in T
  <2>1. n \in Depth /\ n + 1 \in Depth /\ f[n + 1] = Up(par, ch, f[n])
    BY <1>3, <1>7
  <2>2. f[n] \subseteq f[n + 1]
    BY <1>7, <2>1
  <2>3. f[n + 1] \subseteq Up(par, ch, f[n + 1])
    BY <2>1, <2>2 DEF Up
  <2>4. CASE f[n] = f[n + 1]
    BY <2>1, <2>3, <2>4
  <2>5. CASE f[n] # f[n + 1]
    <3>1. Cardinality(f[n]) >= n + 1
      BY <1>7, <2>1, <2>5
    <3>2. /\ Cardinality(f[n]) <= Cardinality(f[n + 1])
          /\ Cardinality(f[n]) = Cardinality(f[n + 1]) => f[n] = f[n + 1]
      BY <1>5, <2>1, <2>2, FS_Subset
    <3>3. Cardinality(f[n + 1]) >= (n + 1) + 1
      BY <1>5, <2>1, <2>5, <3>1, <3>2
    <3> QED
      BY <2>3, <3>3
  <2> QED
    BY <2>4, <2>5
<1>8. f[N] = f[N - 1] /\ f[N] = Up(par, ch, f[N])
  <2>1. N - 1 \in Nat /\ N - 1 < N /\ N - 1 \in 0..N /\ (N - 1) + 1 = N
    BY Sizes DEF N
  <2>2. N - 1 \in T
    <3> HIDE DEF T
    <3>1. \A k \in 0..N : k \in T
      BY <1>2, <1>6, <1>7, SetInductionTo
    <3> QED
      BY <2>1, <3>1
  <2>3. N - 1 \in Depth /\ f[N] = Up(par, ch, f[N - 1])
    BY <1>3, <2>1
  <2>4. f[N - 1] \subseteq Up(par, ch, f[N - 1])
    BY <2>2, <2>3
  <2>5. CASE Cardinality(f[N - 1]) >= N
    <3>1. Cardinality(f[N - 1]) = Cardinality(Elems)
      BY <1>2, <1>5, <2>3, <2>5 DEF N
    <3>2. f[N - 1] = Elems
      BY <1>4, <2>3, <3>1, ElemsAssumption, FS_Subset
    <3>3. f[N - 1] = Up(par, ch, f[N - 1])
      BY <2>4, <3>2 DEF Up
    <3> QED
      BY <2>3, <3>3
  <2>6. CASE ~(Cardinality(f[N - 1]) >= N)
    <3>1. f[N - 1] = Up(par, ch, f[N - 1])
      BY <2>1, <2>2, <2>3, <2>6
    <3> QED
      BY <2>3, <3>1
  <2> QED
    BY <2>5, <2>6
<1>9. ASSUME NEW S \in SUBSET Elems, Up(par, ch, S) \subseteq S PROVE f[N] \subseteq S
  <2> DEFINE W == {n \in Nat : n \in Depth => f[n] \subseteq S}
  <2>1. 0 \in W
    BY <1>1, <1>9 DEF Up
  <2>2. ASSUME NEW n \in Nat, n < N, n \in W PROVE n + 1 \in W
    <3>1. n \in Depth /\ n + 1 \in Depth /\ f[n + 1] = Up(par, ch, f[n])
      BY <1>3, <2>2
    <3>2. f[n] \subseteq S
      BY <2>2, <3>1
    <3>3. Up(par, ch, f[n]) \subseteq Up(par, ch, S)
      BY <3>2 DEF Up
    <3> QED
      BY <1>9, <3>1, <3>3
  <2> HIDE DEF W
  <2>3. \A n \in 0..N : n \in W
    BY <1>2, <2>1, <2>2, SetInductionTo
  <2> QED
    BY <1>2, <2>3 DEF W
<1>10. AttachedIn(par, ch) = f[N]
  BY DEF AttachedIn, f, N
<1>11. f[N] \in SUBSET Elems
  BY <1>2, <1>4
<1>12. AttachedWithin(par, ch)[Cardinality(Elems) - 1] = f[N - 1]
  BY DEF f, N
<1> QED
  BY <1>8, <1>9, <1>10, <1>11, <1>12

-----------------------------------------------------------------------------
LEMMA NotEmpty ==
  ASSUME NEW S, NEW s \in Seq(S), NEW x \in S
  PROVE  Append(s, x) \in Seq(S) \ {<<>>}
<1>1. Append(s, x) \in Seq(S) /\ Len(Append(s, x)) # 0
  OBVIOUS
<1>2. Len(<<>>) = 0
  OBVIOUS
<1> QED
  BY <1>1, <1>2

ArePaths(f, par, nam) ==
    /\ f \in [Depth -> [Elems -> Seq(Names) \ {<<>>}]]
    /\ \A e \in Elems : f[0][e] = <<nam[e]>>
    /\ \A n \in Depth, e \in Elems : par[e] = Nil => f[n][e] = <<nam[e]>>
    /\ \A n \in Depth, e \in Elems : n # 0 /\ par[e] # Nil =>
          f[n][e] = Append(f[n - 1][par[e]], nam[e])

LEMMA PathsDef ==
  ASSUME NEW par \in Parents, NEW nam \in [Elems -> Names]
  PROVE  ArePaths(PathsUpTo(par, nam), par, nam)
<1> DEFINE V == [Elems -> Seq(Names) \ {<<>>}]
           F == [g \in V |-> [e \in Elems |-> IF par[e] = Nil THEN <<nam[e]>>
                                              ELSE Append(g[par[e]], nam[e])]]
           v0 == [e \in Elems |-> <<nam[e]>>]
           N == Cardinality(Elems)
<1>1. F \in [V -> V] /\ v0 \in V
  <2>1. ASSUME NEW g \in V, NEW e \in Elems
        PROVE  (IF par[e] = Nil THEN <<nam[e]>> ELSE Append(g[par[e]], nam[e]))
                   \in Seq(Names) \ {<<>>}
    <3>1. CASE par[e] = Nil
      BY <3>1
    <3>2. CASE par[e] # Nil
      <4>1. par[e] \in Elems
        BY <3>2 DEF Parents
      <4>2. g[par[e]] \in Seq(Names) /\ nam[e] \in Names
        BY <4>1
      <4>3. Append(g[par[e]], nam[e]) \in Seq(Names) \ {<<>>}
        BY <4>2, NotEmpty
      <4> QED
        BY <3>2, <4>3
    <3> QED
      BY <3>1, <3>2
  <2>2. ASSUME NEW g \in V PROVE F[g] \in V
    BY <2>1
  <2>3. \A e \in Elems : <<nam[e]>> \in Seq(Names) \ {<<>>}
    OBVIOUS
  <2>4. v0 \in V
    BY <2>3
  <2> QED
    BY <2>2, <2>4
<1>2. N \in Nat /\ Depth = 0..N
  BY Sizes
<1>3. \E g : IsRun(g, V, F, v0, N)
  <2> HIDE DEF V, F, v0, N
  <2> QED
    BY <1>1, <1>2, Iterates
<1> PICK g : IsRun(g, V, F, v0, N)
  BY <1>3
<1>4. g = [n \in Depth |->
             [e \in Elems |-> IF n = 0 \/ par[e] = Nil THEN <<nam[e]>>
                              ELSE Append(g[n - 1][par[e]], nam[e])]]
  <2>1. ASSUME NEW n \in Depth
        PROVE  g[n] = [e \in Elems |-> IF n = 0 \/ par[e] = Nil THEN <<nam[e]>>
                                       ELSE Append(g[n - 1][par[e]], nam[e])]
    <3>1. CASE n = 0
      BY <3>1 DEF IsRun
    <3>2. CASE n # 0
      <4>1. n \in 1..N /\ n - 1 \in 0..N
        BY <1>2, <3>2
      <4>2. g[n] = F[g[n - 1]] /\ g[n - 1] \in V
        BY <4>1 DEF IsRun
      <4> QED
        BY <3>2, <4>2
    <3> QED
      BY <3>1, <3>2
  <2> QED
    BY <1>2, <2>1 DEF IsRun
<1>5. LET f == PathsUpTo(par, nam) IN
      f = [n \in Depth |->
             [e \in Elems |-> IF n = 0 \/ par[e] = Nil THEN <<nam[e]>>
                              ELSE Append(f[n - 1][par[e]], nam[e])]]
  BY <1>4 DEF PathsUpTo
<1> DEFINE f == PathsUpTo(par, nam)
<1>6. f = [n \in Depth |->
             [e \in Elems |-> IF n = 0 \/ par[e] = Nil THEN <<nam[e]>>
                              ELSE Append(f[n - 1][par[e]], nam[e])]]
  BY <1>5
<1> HIDE DEF f
<1>7. 0 \in Depth /\ \A n \in Depth : n # 0 => n - 1 \in Depth
  BY <1>2
<1>8. f[0] = v0
  BY <1>6, <1>7
<1>9. ASSUME NEW n \in Depth, n # 0
      PROVE  f[n] = [e \in Elems |-> IF par[e] = Nil THEN <<nam[e]>>
                                     ELSE Append(f[n - 1][par[e]], nam[e])]
  <2>1. f[n] = [e \in Elems |-> IF n = 0 \/ par[e] = Nil THEN <<nam[e]>>
                                ELSE Append(f[n - 1][par[e]], nam[e])]
    BY <1>6
  <2> QED
    BY <1>9, <2>1
<1>10. \A n \in Depth : f[n] \in V
  <2> DEFINE T == {n \in Nat : n \in Depth => f[n] \in V}
  <2>1. 0 \in T
    BY <1>1, <1>8
  <2>2. ASSUME NEW n \in Nat, n < N, n \in T PROVE n + 1 \in T
    <3>1. n \in Depth /\ f[n] \in V /\ n + 1 \in Depth /\ (n + 1) - 1 = n /\ n + 1 # 0
      BY <1>2, <2>2
    <3>2. f[n + 1] = F[f[n]]
      <4>1. f[n + 1] = [e \in Elems |-> IF par[e] = Nil THEN <<nam[e]>>
                                       ELSE Append(f[(n + 1) - 1][par[e]], nam[e])]
        BY <1>9, <3>1
      <4>2. f[n + 1] = [e \in Elems |-> IF par[e] = Nil THEN <<nam[e]>>
                                       ELSE Append(f[n][par[e]], nam[e])]
        BY <3>1, <4>1
      <4> QED
        BY <3>1, <4>2
    <3>3. f[n + 1] \in V
      BY <1>1, <3>1, <3>2
    <3> QED
      BY <3>3
  <2> HIDE DEF T
  <2>3. \A n \in 0..N : n \in T
    BY <1>2, <2>1, <2>2, SetInductionTo
  <2> QED
    BY <1>2, <2>3 DEF T
<1>11. f \in [Depth -> V]
  BY <1>6, <1>10
<1>12. \A e \in Elems : f[0][e] = <<nam[e]>>
  BY <1>8
<1>13. \A n \in Depth, e \in Elems : par[e] = Nil => f[n][e] = <<nam[e]>>
  BY <1>9, <1>12
<1>14. \A n \in Depth, e \in Elems : n # 0 /\ par[e] # Nil =>
          f[n][e] = Append(f[n - 1][par[e]], nam[e])
  BY <1>9
<1> QED
  BY <1>11, <1>12, <1>13, <1>14 DEF f, ArePaths

\* The path of an attached element is that of its parent and its name.
LEMMA PathOfAttached ==
  ASSUME NEW par \in Parents, NEW nam \in [Elems -> Names], NEW ch \in Lists
  PROVE  LET path == PathOf(par, nam) IN
         /\ path \in [Elems -> Seq(Names) \ {<<>>}]
         /\ \A e \in Elems : par[e] = Nil => path[e] = <<nam[e]>>
         /\ \A e \in AttachedIn(par, ch) :
               par[e] # Nil => path[e] = Append(path[par[e]], nam[e])
<1> DEFINE f == PathsUpTo(par, nam)
           N == Cardinality(Elems)
           U == AttachedWithin(par, ch)
           A == AttachedIn(par, ch)
<1>1. /\ f \in [Depth -> [Elems -> Seq(Names) \ {<<>>}]]
      /\ \A n \in Depth, e \in Elems : par[e] = Nil => f[n][e] = <<nam[e]>>
      /\ \A n \in Depth, e \in Elems : n # 0 /\ par[e] # Nil =>
            f[n][e] = Append(f[n - 1][par[e]], nam[e])
  <2>1. ArePaths(f, par, nam)
    BY PathsDef
  <2> QED
    BY <2>1 DEF ArePaths
<1>2. N \in Nat /\ N # 0 /\ Depth = 0..N
  BY Sizes
<1>3. /\ U[0] = Up(par, ch, {})
      /\ \A n \in Depth : n # 0 => U[n] = Up(par, ch, U[n - 1])
  BY AttachedDef
<1>4. A \in SUBSET Elems /\ A = U[N - 1] /\ A = Up(par, ch, A)
  BY AttachedIsLeast
<1>5. PathOf(par, nam) = f[N]
  BY DEF PathOf
<1> HIDE DEF f, U, A, N
<1> DEFINE T == {n \in Nat : n < N => \A e \in U[n] : f[n + 1][e] = f[n][e]}
<1>6. 0 \in T
  <2> SUFFICES ASSUME NEW e \in U[0] PROVE f[0 + 1][e] = f[0][e]
    OBVIOUS
  <2>1. e \in Elems /\ par[e] = Nil
    BY <1>3 DEF Up
  <2>2. 0 \in Depth /\ 0 + 1 \in Depth
    BY <1>2
  <2> QED
    BY <1>1, <2>1, <2>2
<1>7. ASSUME NEW n \in Nat, n \in T PROVE n + 1 \in T
  <2> SUFFICES ASSUME n + 1 < N, NEW e \in U[n + 1]
               PROVE  f[(n + 1) + 1][e] = f[n + 1][e]
    OBVIOUS
  <2>1. /\ n \in Depth /\ n + 1 \in Depth /\ (n + 1) + 1 \in Depth /\ n < N
        /\ n + 1 # 0 /\ (n + 1) + 1 # 0
        /\ (n + 1) - 1 = n /\ ((n + 1) + 1) - 1 = n + 1
    BY <1>2
  <2>2. U[n + 1] = Up(par, ch, U[n])
    BY <1>3, <2>1
  <2>3. e \in Elems /\ (par[e] # Nil => par[e] \in U[n])
    BY <2>2 DEF Up
  <2>4. CASE par[e] = Nil
    BY <1>1, <2>1, <2>3, <2>4
  <2>5. CASE par[e] # Nil
    <3>1. f[n + 1][par[e]] = f[n][par[e]]
      BY <1>7, <2>1, <2>3, <2>5
    <3>2. f[(n + 1) + 1][e] = Append(f[n + 1][par[e]], nam[e])
      BY <1>1, <2>1, <2>3, <2>5
    <3>3. f[n + 1][e] = Append(f[n][par[e]], nam[e])
      BY <1>1, <2>1, <2>3, <2>5
    <3> QED
      BY <3>1, <3>2, <3>3
  <2> QED
    BY <2>4, <2>5
<1>8. N - 1 \in Nat /\ N - 1 < N /\ (N - 1) + 1 = N /\ N \in Depth
  BY <1>2
<1>9. \A e \in A : f[N][e] = f[N - 1][e]
  <2>1. N - 1 \in T
    <3> HIDE DEF T
    <3>1. \A k \in Nat : k \in T
      BY <1>6, <1>7, SetInduction
    <3> QED
      BY <1>8, <3>1
  <2> QED
    BY <1>4, <1>8, <2>1
<1>10. f[N] \in [Elems -> Seq(Names) \ {<<>>}]
  BY <1>1, <1>8
<1>11. \A e \in Elems : par[e] = Nil => f[N][e] = <<nam[e]>>
  BY <1>1, <1>8
<1>12. ASSUME NEW e \in A, par[e] # Nil PROVE f[N][e] = Append(f[N][par[e]], nam[e])
  <2>1. e \in Elems /\ par[e] \in A
    BY <1>4, <1>12 DEF Up
  <2>2. f[N][par[e]] = f[N - 1][par[e]]
    BY <1>9, <2>1
  <2> QED
    BY <1>1, <1>2, <1>8, <1>12, <2>1, <2>2
<1> QED
  BY <1>5, <1>10, <1>11, <1>12 DEF A

-----------------------------------------------------------------------------
(* Lists of children. *)

LEMMA Joined ==
  ASSUME NEW S, NEW a \in Seq(S), NEW b \in Seq(S)
  PROVE  /\ a \o b \in Seq(S) /\ Len(a \o b) = Len(a) + Len(b)
         /\ \A k \in 1..Len(a) : (a \o b)[k] = a[k]
         /\ \A k \in (Len(a) + 1)..(Len(a) + Len(b)) : (a \o b)[k] = b[k - Len(a)]
<1>1. /\ a \o b \in Seq(S) /\ Len(a \o b) = Len(a) + Len(b)
      /\ \A k \in 1..(Len(a) + Len(b)) :
            (a \o b)[k] = IF k <= Len(a) THEN a[k] ELSE b[k - Len(a)]
  BY ConcatProperties
<1> QED
  BY <1>1, LenProperties

LEMMA InsertedAt ==
  ASSUME NEW S, NEW s \in Seq(S), NEW x \in S, NEW i \in 1..(Len(s) + 1)
  PROVE  LET t == InsertAt(s, i, x) IN
         /\ t \in Seq(S) /\ Len(t) = Len(s) + 1 /\ t[i] = x
         /\ \A k \in 1..(i - 1) : t[k] = s[k]
         /\ \A k \in (i + 1)..(Len(s) + 1) : t[k] = s[k - 1]
<1> DEFINE a == SubSeq(s, 1, i - 1)
           b == SubSeq(s, i, Len(s))
<1>1. /\ a \in Seq(S) /\ Len(a) = i - 1
      /\ \A k \in 1..(i - 1) : a[k] = s[k]
  OBVIOUS
<1>2. /\ b \in Seq(S) /\ Len(b) = Len(s) - i + 1
      /\ \A k \in 1..(Len(s) - i + 1) : b[k] = s[i + k - 1]
  OBVIOUS
<1>3. InsertAt(s, i, x) = a \o <<x>> \o b
  BY DEF InsertAt
<1> HIDE DEF a, b
<1> DEFINE c == a \o <<x>>
<1>4. /\ c \in Seq(S) /\ Len(c) = i
      /\ \A k \in 1..(i - 1) : c[k] = s[k]
      /\ c[i] = x
  BY <1>1
<1> HIDE DEF c
<1>5. InsertAt(s, i, x) = c \o b
  BY <1>3 DEF c
<1> DEFINE t == c \o b
<1>6. /\ t \in Seq(S) /\ Len(t) = Len(c) + Len(b)
      /\ \A k \in 1..Len(c) : t[k] = c[k]
      /\ \A k \in (Len(c) + 1)..(Len(c) + Len(b)) : t[k] = b[k - Len(c)]
  BY <1>2, <1>4, Joined
<1> HIDE DEF t
<1>7. Len(t) = Len(s) + 1
  BY <1>2, <1>4, <1>6
<1>8. ASSUME NEW k \in (i + 1)..(Len(s) + 1) PROVE t[k] = s[k - 1]
  <2>1. t[k] = b[k - i]
    BY <1>2, <1>4, <1>6
  <2>2. k - i \in 1..(Len(s) - i + 1) /\ i + (k - i) - 1 = k - 1
    OBVIOUS
  <2> QED
    BY <1>2, <2>1, <2>2
<1>9. t[i] = x /\ \A k \in 1..(i - 1) : t[k] = s[k]
  BY <1>4, <1>6
<1> QED
  BY <1>5, <1>6, <1>7, <1>8, <1>9 DEF t

LEMMA RemovedAt ==
  ASSUME NEW S, NEW s \in Seq(S), NEW i \in 1..Len(s)
  PROVE  LET t == RemoveAt(s, i) IN
         /\ t \in Seq(S) /\ Len(t) = Len(s) - 1
         /\ \A k \in 1..(i - 1) : t[k] = s[k]
         /\ \A k \in i..(Len(s) - 1) : t[k] = s[k + 1]
<1> DEFINE a == SubSeq(s, 1, i - 1)
           b == SubSeq(s, i + 1, Len(s))
<1>1. /\ a \in Seq(S) /\ Len(a) = i - 1
      /\ \A k \in 1..(i - 1) : a[k] = s[k]
  OBVIOUS
<1>2. /\ b \in Seq(S) /\ Len(b) = Len(s) - i
      /\ \A k \in 1..(Len(s) - i) : b[k] = s[i + k]
  OBVIOUS
<1>3. RemoveAt(s, i) = a \o b
  BY DEF RemoveAt
<1> HIDE DEF a, b
<1> DEFINE t == a \o b
<1>4. /\ t \in Seq(S) /\ Len(t) = Len(a) + Len(b)
      /\ \A k \in 1..Len(a) : t[k] = a[k]
      /\ \A k \in (Len(a) + 1)..(Len(a) + Len(b)) : t[k] = b[k - Len(a)]
  BY <1>1, <1>2, Joined
<1> HIDE DEF t
<1>5. Len(t) = Len(s) - 1
  BY <1>1, <1>2, <1>4
<1>6. ASSUME NEW k \in i..(Len(s) - 1) PROVE t[k] = s[k + 1]
  <2>1. t[k] = b[k - (i - 1)]
    BY <1>1, <1>2, <1>4
  <2>2. k - (i - 1) \in 1..(Len(s) - i) /\ i + (k - (i - 1)) = k + 1
    OBVIOUS
  <2> QED
    BY <1>2, <2>1, <2>2
<1>7. \A k \in 1..(i - 1) : t[k] = s[k]
  BY <1>1, <1>4
<1> QED
  BY <1>3, <1>4, <1>5, <1>6, <1>7 DEF t

\* A list without repetitions gets an element it does not hold.
LEMMA ListWith ==
  ASSUME NEW S, NEW s \in Seq(S), IsInjective(s), NEW x \in S, x \notin Range(s),
         NEW i \in 1..(Len(s) + 1)
  PROVE  LET t == InsertAt(s, i, x) IN
         t \in Seq(S) /\ IsInjective(t) /\ Range(t) = Range(s) \cup {x}
<1> DEFINE t == InsertAt(s, i, x)
<1>1. /\ t \in Seq(S) /\ Len(t) = Len(s) + 1 /\ t[i] = x
      /\ \A k \in 1..(i - 1) : t[k] = s[k]
      /\ \A k \in (i + 1)..(Len(s) + 1) : t[k] = s[k - 1]
  BY InsertedAt
<1>2. DOMAIN s = 1..Len(s) /\ DOMAIN t = 1..(Len(s) + 1) /\ Len(s) \in Nat
  BY <1>1
<1> HIDE DEF t
<1> DEFINE o(k) == IF k < i THEN k ELSE k - 1
<1>3. \A k \in 1..(Len(s) + 1) : k # i => o(k) \in 1..Len(s) /\ t[k] = s[o(k)]
  BY <1>1, <1>2
<1>4. Range(t) \subseteq Range(s) \cup {x}
  BY <1>1, <1>2, <1>3 DEF Range
<1>5. ASSUME NEW k \in 1..Len(s) PROVE s[k] \in Range(t)
  <2>1. CASE k < i
    <3>1. t[k] = s[k] /\ k \in 1..(Len(s) + 1)
      BY <1>1, <2>1
    <3> QED
      BY <1>2, <3>1 DEF Range
  <2>2. CASE ~(k < i)
    <3>1. k + 1 \in (i + 1)..(Len(s) + 1) /\ (k + 1) - 1 = k
      BY <2>2
    <3>2. t[k + 1] = s[k]
      BY <1>1, <3>1
    <3>3. k + 1 \in DOMAIN t
      BY <1>2
    <3> QED
      BY <3>2, <3>3 DEF Range
  <2> QED
    BY <2>1, <2>2
<1>6. x \in Range(t)
  BY <1>1, <1>2 DEF Range
<1>7. Range(t) = Range(s) \cup {x}
  BY <1>2, <1>4, <1>5, <1>6 DEF Range
<1>8. \A k \in 1..(Len(s) + 1) : k # i => t[k] # x
  BY <1>2, <1>3 DEF Range
<1>9. ASSUME NEW j \in 1..(Len(s) + 1), NEW k \in 1..(Len(s) + 1), t[j] = t[k] PROVE j = k
  <2>1. CASE j = i \/ k = i
    BY <1>1, <1>8, <1>9, <2>1
  <2>2. CASE j # i /\ k # i
    <3>1. o(j) = o(k)
      BY <1>2, <1>3, <1>9, <2>2 DEF IsInjective
    <3> QED
      BY <2>2, <3>1
  <2> QED
    BY <2>1, <2>2
<1>10. IsInjective(t)
  BY <1>2, <1>9 DEF IsInjective
<1> QED
  BY <1>1, <1>7, <1>10 DEF t

LEMMA ListAppended ==
  ASSUME NEW S, NEW s \in Seq(S), IsInjective(s), NEW x \in S, x \notin Range(s)
  PROVE  LET t == Append(s, x) IN
         t \in Seq(S) /\ IsInjective(t) /\ Range(t) = Range(s) \cup {x}
<1> DEFINE t == Append(s, x)
<1>1. /\ t \in Seq(S) /\ Len(t) = Len(s) + 1 /\ Len(s) \in Nat
      /\ \A k \in 1..Len(s) : t[k] = s[k]
      /\ t[Len(s) + 1] = x
  OBVIOUS
<1>2. DOMAIN s = 1..Len(s) /\ DOMAIN t = 1..(Len(s) + 1)
  BY <1>1
<1> HIDE DEF t
<1>3. Range(t) = Range(s) \cup {x}
  BY <1>1, <1>2 DEF Range
<1>4. ASSUME NEW j \in 1..(Len(s) + 1), NEW k \in 1..(Len(s) + 1), t[j] = t[k] PROVE j = k
  <2>1. \A m \in 1..Len(s) : s[m] # x
    BY <1>2 DEF Range
  <2>2. \A m \in 1..(Len(s) + 1) : m = Len(s) + 1 \/ m \in 1..Len(s)
    BY <1>1
  <2> QED
    BY <1>1, <1>2, <1>4, <2>1, <2>2 DEF IsInjective
<1>5. IsInjective(t)
  BY <1>2, <1>4 DEF IsInjective
<1> QED
  BY <1>1, <1>3, <1>5 DEF t

\* A list without repetitions loses one of its elements.
LEMMA ListWithout ==
  ASSUME NEW S, NEW s \in Seq(S), IsInjective(s), NEW i \in 1..Len(s)
  PROVE  LET t == RemoveAt(s, i) IN
         /\ t \in Seq(S) /\ IsInjective(t) /\ Len(t) = Len(s) - 1
         /\ Range(t) = Range(s) \ {s[i]}
<1> DEFINE t == RemoveAt(s, i)
<1>1. /\ t \in Seq(S) /\ Len(t) = Len(s) - 1
      /\ \A k \in 1..(i - 1) : t[k] = s[k]
      /\ \A k \in i..(Len(s) - 1) : t[k] = s[k + 1]
  BY RemovedAt
<1>2. DOMAIN s = 1..Len(s) /\ DOMAIN t = 1..(Len(s) - 1) /\ Len(s) \in Nat
  BY <1>1
<1> HIDE DEF t
<1> DEFINE o(k) == IF k < i THEN k ELSE k + 1
<1>3. \A k \in 1..(Len(s) - 1) : o(k) \in 1..Len(s) /\ o(k) # i /\ t[k] = s[o(k)]
  BY <1>1, <1>2
<1>4. ASSUME NEW k \in 1..(Len(s) - 1) PROVE t[k] \in Range(s) \ {s[i]}
  <2>1. s[o(k)] # s[i]
    BY <1>2, <1>3 DEF IsInjective
  <2> QED
    BY <1>2, <1>3, <2>1 DEF Range
<1>5. ASSUME NEW k \in 1..Len(s), k # i PROVE s[k] \in Range(t)
  <2>1. CASE k < i
    <3>1. t[k] = s[k] /\ k \in 1..(Len(s) - 1)
      BY <1>1, <2>1
    <3> QED
      BY <1>2, <3>1 DEF Range
  <2>2. CASE ~(k < i)
    <3>1. k - 1 \in i..(Len(s) - 1) /\ (k - 1) + 1 = k
      BY <1>5, <2>2
    <3>2. t[k - 1] = s[k] /\ k - 1 \in 1..(Len(s) - 1)
      BY <1>1, <3>1
    <3> QED
      BY <1>2, <3>2 DEF Range
  <2> QED
    BY <2>1, <2>2
<1>6. Range(t) = Range(s) \ {s[i]}
  <2>1. Range(t) \subseteq Range(s) \ {s[i]}
    BY <1>2, <1>4 DEF Range
  <2>2. Range(s) \ {s[i]} \subseteq Range(t)
    BY <1>2, <1>5 DEF Range
  <2> QED
    BY <2>1, <2>2
<1>7. ASSUME NEW j \in 1..(Len(s) - 1), NEW k \in 1..(Len(s) - 1), t[j] = t[k] PROVE j = k
  <2>1. o(j) = o(k)
    BY <1>2, <1>3, <1>7 DEF IsInjective
  <2> QED
    BY <2>1
<1>8. IsInjective(t)
  BY <1>2, <1>7 DEF IsInjective
<1> QED
  BY <1>1, <1>6, <1>8 DEF t

\* Where a child of the given id stands.
LEMMA PositionOfChild ==
  ASSUME NEW p \in Elems, children \in Lists, NEW x
  PROVE  /\ Position(p, x) \in 0..Len(children[p])
         /\ Position(p, x) # 0 => /\ Position(p, x) \in 1..Len(children[p])
                                  /\ id[children[p][Position(p, x)]] = x
<1> DEFINE s == children[p]
           I == {i \in 1..Len(s) : id[s[i]] = x}
<1>1. Position(p, x) = IF I # {} THEN Min(I) ELSE 0
  BY DEF Position, SelectInSeq
<1>2. Len(s) \in Nat
  BY DEF Lists
<1>3. CASE I = {}
  BY <1>1, <1>2, <1>3
<1>4. CASE I # {}
  <2>1. I \in SUBSET Nat
    OBVIOUS
  <2> HIDE DEF I
  <2>2. PICK n \in I : \A m \in I : n <= m
    BY <1>4, <2>1, LeastNumber
  <2>3. Min(I) \in I
    BY <2>2 DEF Min
  <2> QED
    BY <1>1, <1>2, <1>4, <2>3 DEF I
<1> QED
  BY <1>3, <1>4

-----------------------------------------------------------------------------
(* What the shape of the tree says about subtrees and paths. *)

\* No element has two places or is below itself, and a child knows its parent.
Shape(par, ch) ==
    /\ \A p \in Elems : IsInjective(ch[p])
    /\ \A p \in Elems : \A c \in Range(ch[p]) : par[c] = p /\ p \notin SubtreeOf(ch)[c]

SiblingsDiffer(nam, ch) ==
    \A p \in Elems : \A c, d \in Range(ch[p]) : c # d => nam[c] # nam[d]

LEMMA ChildIsElem ==
  ASSUME NEW ch \in Lists, NEW p \in Elems
  PROVE  ch[p] \in Seq(Elems) /\ Range(ch[p]) \in SUBSET Elems
<1>1. ch[p] \in Seq(Elems)
  BY DEF Lists
<1> QED
  BY <1>1, RangeOfSeq

LEMMA SubtreeWithin ==
  ASSUME NEW ch \in Lists, NEW e \in Elems, NEW x \in SubtreeOf(ch)[e]
  PROVE  SubtreeOf(ch)[x] \subseteq SubtreeOf(ch)[e]
<1>1. /\ SubtreeOf(ch)[e] \in SUBSET Elems
      /\ Closed(SubtreeOf(ch)[e], ch)
  BY SubtreeIsLeast
<1> QED
  BY <1>1, SubtreeIsLeast

LEMMA ParentInSubtree ==
  ASSUME NEW par \in Parents, NEW ch \in Lists, Shape(par, ch),
         NEW e \in Elems, NEW x \in SubtreeOf(ch)[e], x # e
  PROVE  /\ par[x] \in Elems /\ par[x] \in SubtreeOf(ch)[e]
         /\ x \in Range(ch[par[x]])
<1> DEFINE S == SubtreeOf(ch)[e]
           U == {y \in S : y = e \/ (par[y] \in S /\ y \in Range(ch[par[y]]))}
<1>1. S \in SUBSET Elems /\ e \in S /\ Closed(S, ch)
  BY SubtreeIsLeast
<1>2. \A W \in SUBSET Elems : e \in W /\ Closed(W, ch) => S \subseteq W
  BY SubtreeIsLeast
<1> HIDE DEF S
<1>3. ASSUME NEW y \in U, NEW z \in Range(ch[y]) PROVE z \in U
  <2>1. y \in Elems /\ y \in S /\ z \in S
    BY <1>1 DEF Closed
  <2>2. par[z] = y
    BY <2>1 DEF Shape
  <2> QED
    BY <2>1, <2>2
<1>4. S \subseteq U
  <2>1. Closed(U, ch)
    BY <1>3 DEF Closed
  <2>2. e \in U /\ U \in SUBSET Elems
    BY <1>1
  <2> HIDE DEF U
  <2> QED
    BY <1>2, <2>1, <2>2
<1>5. x \in S
  BY DEF S
<1>6. par[x] \in S /\ x \in Range(ch[par[x]])
  BY <1>4, <1>5
<1> QED
  BY <1>1, <1>6 DEF S

LEMMA AttachedSubtree ==
  ASSUME NEW par \in Parents, NEW ch \in Lists, Shape(par, ch),
         NEW e \in AttachedIn(par, ch)
  PROVE  SubtreeOf(ch)[e] \subseteq AttachedIn(par, ch)
<1> DEFINE A == AttachedIn(par, ch)
<1>1. A \in SUBSET Elems /\ A = Up(par, ch, A)
  BY AttachedIsLeast
<1> HIDE DEF A
<1>2. ASSUME NEW x \in A, NEW y \in Range(ch[x]) PROVE y \in A
  <2>1. x \in Elems
    BY <1>1
  <2>2. y \in Elems /\ par[y] = x
    BY <2>1, ChildIsElem DEF Shape
  <2>3. y \in Up(par, ch, A)
    BY <2>2 DEF Up
  <2> QED
    BY <1>1, <2>3
<1>3. Closed(A, ch)
  BY <1>2 DEF Closed
<1>4. e \in A /\ e \in Elems
  BY <1>1 DEF A
<1> QED
  BY <1>1, <1>3, <1>4, SubtreeIsLeast DEF A

LEMMA RootIsTop ==
  ASSUME NEW par \in Parents, NEW ch \in Lists, Shape(par, ch), par[Root] = Nil
  PROVE  /\ Root \in AttachedIn(par, ch)
         /\ SubtreeOf(ch)[Root] \subseteq AttachedIn(par, ch)
         /\ \A e \in Elems : Root \notin Range(ch[e])
         /\ \A e \in Elems : e # Root => Root \notin SubtreeOf(ch)[e]
<1>0. Root \in Elems /\ Nil \notin Elems
  BY ElemsAssumption
<1>1. Root \in AttachedIn(par, ch)
  <2>1. Root \in Up(par, ch, AttachedIn(par, ch))
    BY <1>0 DEF Up
  <2> QED
    BY <2>1, AttachedIsLeast
<1>2. SubtreeOf(ch)[Root] \subseteq AttachedIn(par, ch)
  BY <1>1, AttachedSubtree
<1>3. \A e \in Elems : Root \notin Range(ch[e])
  BY <1>0 DEF Shape
<1>4. ASSUME NEW e \in Elems, e # Root, Root \in SubtreeOf(ch)[e] PROVE FALSE
  <2>1. par[Root] \in Elems
    BY <1>4, ParentInSubtree
  <2> QED
    BY <1>0, <2>1
<1> QED
  BY <1>1, <1>2, <1>3, <1>4

\* A subtree that does not start in the tree of the root has nothing in it.
LEMMA Apart ==
  ASSUME NEW par \in Parents, NEW ch \in Lists, Shape(par, ch), par[Root] = Nil,
         NEW x \in Elems, x \notin SubtreeOf(ch)[Root]
  PROVE  SubtreeOf(ch)[x] \cap SubtreeOf(ch)[Root] = {}
<1> DEFINE R == SubtreeOf(ch)[Root]
           S == SubtreeOf(ch)[x]
           U == S \ R
<1>1. S \in SUBSET Elems /\ x \in S /\ Closed(S, ch)
  BY SubtreeIsLeast
<1>2. \A W \in SUBSET Elems : x \in W /\ Closed(W, ch) => S \subseteq W
  BY SubtreeIsLeast
<1>3. \A z \in R : z # Root => par[z] \in R
  BY ElemsAssumption, ParentInSubtree
<1>4. x \notin R
  OBVIOUS
<1> HIDE DEF S, R
<1>5. ASSUME NEW y \in U, NEW z \in Range(ch[y]) PROVE z \in U
  <2>1. y \in Elems /\ z \in S
    BY <1>1 DEF Closed
  <2>2. par[z] = y /\ z # Root
    BY <2>1, RootIsTop DEF Shape
  <2> QED
    BY <1>3, <2>1, <2>2
<1>6. Closed(U, ch) /\ x \in U /\ U \in SUBSET Elems
  BY <1>1, <1>4, <1>5 DEF Closed
<1>7. S \subseteq U
  <2> HIDE DEF U
  <2> QED
    BY <1>2, <1>6
<1>8. S \cap R = {}
  BY <1>7
<1> QED
  BY <1>8 DEF S, R

LEMMA SameAppend ==
  ASSUME NEW s \in Seq(Names), NEW t \in Seq(Names),
         NEW m \in Names, NEW n \in Names, Append(s, m) = Append(t, n)
  PROVE  s = t /\ m = n
BY AppendInjective

\* Where siblings have different names, different elements of the tree have
\* different paths.
LEMMA PathsDiffer ==
  ASSUME NEW par \in Parents, NEW nam \in [Elems -> Names], NEW ch \in Lists,
         Shape(par, ch), par[Root] = Nil, SiblingsDiffer(nam, ch),
         NEW d \in SubtreeOf(ch)[Root], NEW e \in SubtreeOf(ch)[Root],
         PathOf(par, nam)[d] = PathOf(par, nam)[e]
  PROVE  d = e
<1> DEFINE R == SubtreeOf(ch)[Root]
           path == PathOf(par, nam)
           U == {x \in R : \A y \in R : path[y] = path[x] => y = x}
<1>1. Root \in Elems /\ Nil \notin Elems
  BY ElemsAssumption
<1>2. R \in SUBSET Elems /\ Root \in R /\ Closed(R, ch)
  BY <1>1, SubtreeIsLeast
<1>3. \A W \in SUBSET Elems : Root \in W /\ Closed(W, ch) => R \subseteq W
  BY <1>1, SubtreeIsLeast
<1>4. \A x \in R : x # Root => /\ par[x] \in R /\ par[x] \in Elems
                               /\ x \in Range(ch[par[x]])
  BY <1>1, ParentInSubtree
<1>5. R \subseteq AttachedIn(par, ch)
  BY RootIsTop
<1>6. /\ path \in [Elems -> Seq(Names) \ {<<>>}]
      /\ \A x \in Elems : par[x] = Nil => path[x] = <<nam[x]>>
      /\ \A x \in AttachedIn(par, ch) :
            par[x] # Nil => path[x] = Append(path[par[x]], nam[x])
  BY PathOfAttached
<1> HIDE DEF path, R
<1>7. \A x \in Elems : path[x] \in Seq(Names) /\ path[x] # <<>> /\ nam[x] \in Names
  BY <1>6
<1>8. \A x \in R : x # Root => path[x] = Append(path[par[x]], nam[x])
  BY <1>1, <1>4, <1>5, <1>6
<1>9. ASSUME NEW x \in R, x # Root PROVE path[x] # path[Root]
  <2>1. path[x] = Append(path[par[x]], nam[x]) /\ par[x] \in Elems
    BY <1>4, <1>8, <1>9
  <2>2. path[Root] = <<nam[Root]>>
    BY <1>1, <1>6
  <2>3. path[par[x]] \in Seq(Names) /\ path[par[x]] # <<>>
    BY <1>7, <2>1
  <2>4. Len(path[par[x]]) \in Nat /\ Len(path[par[x]]) # 0
    BY <2>3
  <2>5. Len(path[x]) = Len(path[par[x]]) + 1
    BY <2>1, <2>3
  <2>6. Len(path[Root]) = 1
    BY <2>2
  <2>7. Len(path[x]) # Len(path[Root])
    BY <2>4, <2>5, <2>6
  <2> QED
    BY <2>7
<1>10. Root \in U
  BY <1>2, <1>9
<1>11. ASSUME NEW x \in U, NEW y \in Range(ch[x]) PROVE y \in U
  <2>1. x \in R /\ x \in Elems /\ y \in R
    BY <1>2 DEF Closed
  <2>2. par[y] = x /\ y # Root
    BY <2>1, RootIsTop DEF Shape
  <2>3. ASSUME NEW z \in R, path[z] = path[y] PROVE z = y
    <3>1. z # Root
      BY <1>9, <2>1, <2>2, <2>3
    <3>2. path[z] = Append(path[par[z]], nam[z]) /\ par[z] \in R /\ par[z] \in Elems
          /\ z \in Range(ch[par[z]]) /\ z \in Elems
      BY <1>2, <1>4, <1>8, <3>1
    <3>3. path[y] = Append(path[x], nam[y]) /\ y \in Elems
      BY <1>2, <1>8, <2>1, <2>2
    <3>4. Append(path[par[z]], nam[z]) = Append(path[x], nam[y])
      BY <2>3, <3>2, <3>3
    <3>5. path[par[z]] = path[x] /\ nam[z] = nam[y]
      <4>1. /\ path[par[z]] \in Seq(Names) /\ nam[z] \in Names
            /\ path[x] \in Seq(Names) /\ nam[y] \in Names
        BY <1>7, <2>1, <3>2, <3>3
      <4> QED
        BY <3>4, <4>1, SameAppend
    <3>6. par[z] = x
      BY <3>2, <3>5
    <3> QED
      BY <2>1, <3>2, <3>5, <3>6 DEF SiblingsDiffer
  <2> QED
    BY <2>1, <2>3
<1>12. R \subseteq U
  <2>1. Closed(U, ch) /\ U \in SUBSET Elems
    BY <1>2, <1>11 DEF Closed
  <2> HIDE DEF U
  <2> QED
    BY <1>3, <1>10, <2>1
<1>13. d \in R /\ e \in R /\ path[d] = path[e]
  BY DEF R, path
<1> QED
  BY <1>12, <1>13

-----------------------------------------------------------------------------
(* What a change of one list of children does to the tree. *)

\* p gets the child c, which was nobody's.
Adds(ch, p, c, s) ==
    /\ s \in Seq(Elems) /\ IsInjective(s) /\ Range(s) = Range(ch[p]) \cup {c}
    /\ \A q \in Elems : c \notin Range(ch[q])
    /\ p \notin SubtreeOf(ch)[c]

LEMMA AddedChildren ==
  ASSUME NEW ch \in Lists, NEW p \in Elems, NEW c \in Elems, NEW s, Adds(ch, p, c, s)
  PROVE  LET ch2 == [ch EXCEPT ![p] = s] IN
         /\ ch2 \in Lists
         /\ \A q \in Elems : \A d \in Range(ch2[q]) :
               (d = c /\ q = p) \/ (d # c /\ d \in Range(ch[q]))
         /\ \A q \in Elems : Range(ch[q]) \subseteq Range(ch2[q])
         /\ c \in Range(ch2[p])
<1> DEFINE ch2 == [ch EXCEPT ![p] = s]
<1>1. ch2 \in Lists
  BY DEF Lists, Adds
<1>2. ch2[p] = s /\ \A q \in Elems : q # p => ch2[q] = ch[q]
  BY DEF Lists
<1> HIDE DEF ch2
<1>3. ASSUME NEW q \in Elems, NEW d \in Range(ch2[q])
      PROVE  (d = c /\ q = p) \/ (d # c /\ d \in Range(ch[q]))
  BY <1>2 DEF Adds
<1>4. \A q \in Elems : Range(ch[q]) \subseteq Range(ch2[q])
  BY <1>2 DEF Adds
<1>5. c \in Range(ch2[p])
  BY <1>2 DEF Adds
<1> QED
  BY <1>1, <1>3, <1>4, <1>5 DEF ch2

\* Subtrees that hold p grow by the subtree of c.
Grown(ch, ch2, p, c) ==
    /\ \A x \in Elems : p \notin SubtreeOf(ch)[x] =>
          SubtreeOf(ch2)[x] = SubtreeOf(ch)[x]
    /\ \A x \in Elems : p \in SubtreeOf(ch)[x] =>
          SubtreeOf(ch2)[x] = SubtreeOf(ch)[x] \cup SubtreeOf(ch)[c]
    /\ SubtreeOf(ch2)[c] = SubtreeOf(ch)[c]

LEMMA AddedSubtrees ==
  ASSUME NEW ch \in Lists, NEW p \in Elems, NEW c \in Elems, NEW s, Adds(ch, p, c, s)
  PROVE  Grown(ch, [ch EXCEPT ![p] = s], p, c)
<1> DEFINE ch2 == [ch EXCEPT ![p] = s]
<1>1. /\ ch2 \in Lists /\ c \in Range(ch2[p])
      /\ \A q \in Elems : \A d \in Range(ch2[q]) :
            (d = c /\ q = p) \/ (d # c /\ d \in Range(ch[q]))
      /\ \A q \in Elems : Range(ch[q]) \subseteq Range(ch2[q])
  BY AddedChildren
<1> HIDE DEF ch2
<1> DEFINE T(x) == SubtreeOf(ch)[x]
           T2(x) == SubtreeOf(ch2)[x]
<1>2. \A x \in Elems : /\ T(x) \in SUBSET Elems /\ x \in T(x) /\ Closed(T(x), ch)
                       /\ T2(x) \in SUBSET Elems /\ x \in T2(x) /\ Closed(T2(x), ch2)
  BY <1>1, SubtreeIsLeast
<1>3. ASSUME NEW x \in Elems PROVE T(x) \subseteq T2(x)
  <2>1. Closed(T2(x), ch)
    BY <1>1, <1>2 DEF Closed
  <2> QED
    BY <1>2, <2>1, SubtreeIsLeast
<1>4. ASSUME NEW x \in Elems, p \notin T(x) PROVE T2(x) \subseteq T(x)
  <2>1. Closed(T(x), ch2)
    BY <1>1, <1>2, <1>4 DEF Closed
  <2> QED
    BY <1>1, <1>2, <2>1, SubtreeIsLeast
<1>5. ASSUME NEW x \in Elems, p \in T(x) PROVE T2(x) = T(x) \cup T(c)
  <2> DEFINE U == T(x) \cup T(c)
  <2>1. U \in SUBSET Elems /\ x \in U
    BY <1>2
  <2>2. ASSUME NEW y \in U, NEW z \in Range(ch2[y]) PROVE z \in U
    <3>1. y \in Elems /\ (z = c \/ z \in Range(ch[y]))
      BY <1>1, <2>1
    <3> QED
      BY <1>2, <3>1 DEF Closed
  <2>3. Closed(U, ch2)
    BY <2>2 DEF Closed
  <2>4. T2(x) \subseteq U
    <3> HIDE DEF U
    <3> QED
      BY <1>1, <2>1, <2>3, SubtreeIsLeast
  <2>5. p \in T2(x)
    BY <1>3, <1>5
  <2>6. c \in T2(x)
    BY <1>1, <1>2, <2>5 DEF Closed
  <2>7. T2(c) \subseteq T2(x)
    BY <1>1, <2>6, SubtreeWithin
  <2> QED
    BY <1>3, <2>4, <2>7
<1>6. \A x \in Elems : p \notin T(x) => T2(x) = T(x)
  BY <1>3, <1>4
<1>7. T2(c) = T(c)
  BY <1>6 DEF Adds
<1> QED
  BY <1>5, <1>6, <1>7 DEF ch2, Grown

LEMMA AddedShape ==
  ASSUME NEW par \in Parents, NEW ch \in Lists, Shape(par, ch),
         NEW p \in Elems, NEW c \in Elems, NEW s, Adds(ch, p, c, s)
  PROVE  Shape([par EXCEPT ![c] = p], [ch EXCEPT ![p] = s])
<1> DEFINE par2 == [par EXCEPT ![c] = p]
           ch2 == [ch EXCEPT ![p] = s]
           T(x) == SubtreeOf(ch)[x]
           T2(x) == SubtreeOf(ch2)[x]
<1>1. ASSUME NEW q \in Elems PROVE IsInjective(ch2[q])
  BY DEF Lists, Adds, Shape
<1>2. \A q \in Elems : \A d \in Range(ch2[q]) :
         (d = c /\ q = p) \/ (d # c /\ d \in Range(ch[q]))
  BY AddedChildren
<1>3. /\ \A x \in Elems : p \notin T(x) => T2(x) = T(x)
      /\ \A x \in Elems : p \in T(x) => T2(x) = T(x) \cup T(c)
      /\ T2(c) = T(c)
  <2> HIDE DEF par2, T, T2
  <2>1. Grown(ch, ch2, p, c)
    BY AddedSubtrees
  <2> HIDE DEF ch2
  <2> QED
    BY <2>1 DEF T, T2, Grown
<1>4. par2[c] = p /\ \A d \in Elems : d # c => par2[d] = par[d]
  BY DEF Parents
<1>5. \A x \in Elems : T(x) \in SUBSET Elems /\ Closed(T(x), ch)
  BY SubtreeIsLeast
<1>6. \A q \in Elems : \A d \in Range(ch[q]) : d \in Elems /\ par[d] = q /\ q \notin T(d)
  BY ChildIsElem DEF Shape
<1>7. p \notin T(c)
  BY DEF Adds
<1>8. \A x \in Elems : \A y \in T(x) : T(y) \subseteq T(x)
  BY SubtreeWithin
<1> HIDE DEF par2, ch2, T, T2
<1>9. ASSUME NEW q \in Elems, NEW d \in Range(ch2[q]) PROVE par2[d] = q /\ q \notin T2(d)
  <2>1. CASE d = c /\ q = p
    BY <1>3, <1>4, <1>7, <2>1
  <2>2. CASE d # c /\ d \in Range(ch[q])
    <3>1. d \in Elems /\ par2[d] = q /\ q \notin T(d)
      BY <1>4, <1>6, <2>2
    <3>2. CASE p \notin T(d)
      BY <1>3, <3>1, <3>2
    <3>3. CASE p \in T(d)
      <4>1. T2(d) = T(d) \cup T(c)
        BY <1>3, <3>1, <3>3
      <4>2. q \in T(c) => d \in T(c)
        BY <1>5, <2>2 DEF Closed
      <4>3. d \in T(c) => p \in T(c)
        BY <1>8, <3>3
      <4> QED
        BY <1>7, <3>1, <4>1, <4>2, <4>3
    <3> QED
      BY <3>2, <3>3
  <2> QED
    BY <1>2, <2>1, <2>2
<1> QED
  BY <1>1, <1>9 DEF Shape, par2, ch2, T2

\* Outside the subtree of c nothing gets attached, and no path changes.
OthersKeepPaths(par, nam, ch, par2, nam2, ch2, c) ==
    \A e \in AttachedIn(par2, ch2) : e \notin SubtreeOf(ch2)[c] =>
        e \in AttachedIn(par, ch) /\ PathOf(par2, nam2)[e] = PathOf(par, nam)[e]

LEMMA AddedAttached ==
  ASSUME NEW par \in Parents, NEW nam \in [Elems -> Names],
         NEW ch \in Lists, Shape(par, ch),
         NEW p \in Elems, NEW c \in Elems, NEW s, Adds(ch, p, c, s),
         NEW n \in Names
  PROVE  OthersKeepPaths(par, nam, ch, [par EXCEPT ![c] = p], [nam EXCEPT ![c] = n],
                         [ch EXCEPT ![p] = s], c)
<1> DEFINE par2 == [par EXCEPT ![c] = p]
           ch2 == [ch EXCEPT ![p] = s]
           nam2 == [nam EXCEPT ![c] = n]
           A == AttachedIn(par, ch)
           A2 == AttachedIn(par2, ch2)
           T2 == SubtreeOf(ch2)[c]
           path == PathOf(par, nam)
           path2 == PathOf(par2, nam2)
           S == {e \in A2 : e \notin T2 => e \in A /\ path2[e] = path[e]}
<1>1. /\ par2 \in Parents /\ ch2 \in Lists
      /\ \A q \in Elems : \A d \in Range(ch2[q]) :
            (d = c /\ q = p) \/ (d # c /\ d \in Range(ch[q]))
  <2>1. par2 \in Parents
    BY DEF Parents
  <2> QED
    BY <2>1, AddedChildren
<1>2. nam2 \in [Elems -> Names]
  OBVIOUS
<1>3. \A d \in Elems : d # c => par2[d] = par[d] /\ nam2[d] = nam[d]
  BY DEF Parents
<1> HIDE DEF par2, ch2, nam2
<1>4. A \in SUBSET Elems /\ A = Up(par, ch, A)
  BY AttachedIsLeast
<1>5. A2 \in SUBSET Elems /\ A2 = Up(par2, ch2, A2)
  BY <1>1, AttachedIsLeast
<1>6. \A U \in SUBSET Elems : Up(par2, ch2, U) \subseteq U => A2 \subseteq U
  BY <1>1, AttachedIsLeast
<1>7. /\ \A e \in Elems : par[e] = Nil => path[e] = <<nam[e]>>
      /\ \A e \in A : par[e] # Nil => path[e] = Append(path[par[e]], nam[e])
  BY PathOfAttached
<1>8. /\ \A e \in Elems : par2[e] = Nil => path2[e] = <<nam2[e]>>
      /\ \A e \in A2 : par2[e] # Nil => path2[e] = Append(path2[par2[e]], nam2[e])
  BY <1>1, <1>2, PathOfAttached
<1>9. c \in T2 /\ T2 \in SUBSET Elems /\ Closed(T2, ch2)
  BY <1>1, SubtreeIsLeast
<1> HIDE DEF A, A2, path, path2, T2
<1>10. ASSUME NEW e \in Up(par2, ch2, S) PROVE e \in S
  <2>1. e \in Elems /\ (par2[e] = Nil \/ (par2[e] \in S /\ e \in Range(ch2[par2[e]])))
    BY DEF Up
  <2>2. e \in A2
    <3>1. e \in Up(par2, ch2, A2)
      BY <2>1 DEF Up
    <3> QED
      BY <1>5, <3>1
  <2>3. SUFFICES ASSUME e \notin T2 PROVE e \in A /\ path2[e] = path[e]
    BY <2>2
  <2>4. e # c /\ par2[e] = par[e] /\ nam2[e] = nam[e]
    BY <1>3, <1>9, <2>1, <2>3
  <2>5. CASE par2[e] = Nil
    <3>1. e \in Up(par, ch, A)
      BY <2>1, <2>4, <2>5 DEF Up
    <3>2. e \in A
      BY <1>4, <3>1
    <3>3. path2[e] = <<nam2[e]>> /\ path[e] = <<nam[e]>>
      BY <1>7, <1>8, <2>1, <2>4, <2>5
    <3> QED
      BY <2>4, <3>2, <3>3
  <2>6. CASE par2[e] # Nil
    <3>1. par2[e] \in S /\ e \in Range(ch2[par2[e]]) /\ par2[e] \in Elems
      BY <1>5, <2>1, <2>6
    <3>2. par2[e] \notin T2
      BY <1>9, <2>3, <3>1 DEF Closed
    <3>3. par2[e] \in A /\ path2[par2[e]] = path[par2[e]]
      BY <3>1, <3>2
    <3>4. e \in Range(ch[par2[e]])
      BY <1>1, <2>4, <3>1
    <3>5. e \in Up(par, ch, A)
      BY <2>1, <2>4, <3>3, <3>4 DEF Up
    <3>6. e \in A
      BY <1>4, <3>5
    <3>7. path2[e] = Append(path2[par2[e]], nam2[e]) /\ path[e] = Append(path[par[e]], nam[e])
      BY <1>7, <1>8, <2>2, <2>4, <2>6, <3>6
    <3> QED
      BY <2>4, <3>3, <3>6, <3>7
  <2> QED
    BY <2>5, <2>6
<1>11. A2 \subseteq S
  <2>1. S \in SUBSET Elems /\ Up(par2, ch2, S) \subseteq S
    BY <1>5, <1>10
  <2> HIDE DEF S
  <2> QED
    BY <1>6, <2>1
<1>12. \A e \in A2 : e \notin T2 => e \in A /\ path2[e] = path[e]
  BY <1>11
<1> QED
  BY <1>12 DEF A, A2, T2, path, path2, par2, ch2, nam2, OthersKeepPaths

Fewer(ch2, ch) == \A q \in Elems : Range(ch2[q]) \subseteq Range(ch[q])

LEMMA FewerSubtrees ==
  ASSUME NEW ch \in Lists, NEW ch2 \in Lists, Fewer(ch2, ch), NEW x \in Elems
  PROVE  SubtreeOf(ch2)[x] \subseteq SubtreeOf(ch)[x]
<1>1. /\ SubtreeOf(ch)[x] \in SUBSET Elems /\ x \in SubtreeOf(ch)[x]
      /\ Closed(SubtreeOf(ch)[x], ch)
  BY SubtreeIsLeast
<1>2. Closed(SubtreeOf(ch)[x], ch2)
  BY <1>1 DEF Closed, Fewer
<1> QED
  BY <1>1, <1>2, SubtreeIsLeast

LEMMA FewerShape ==
  ASSUME NEW par \in Parents, NEW ch \in Lists, Shape(par, ch),
         NEW ch2 \in Lists, Fewer(ch2, ch), \A q \in Elems : IsInjective(ch2[q])
  PROVE  Shape(par, ch2)
<1> SUFFICES ASSUME NEW q \in Elems, NEW d \in Range(ch2[q])
             PROVE  par[d] = q /\ q \notin SubtreeOf(ch2)[d]
  BY DEF Shape
<1>1. d \in Range(ch[q]) /\ d \in Elems
  BY ChildIsElem DEF Fewer
<1>2. par[d] = q /\ q \notin SubtreeOf(ch)[d]
  BY <1>1 DEF Shape
<1>3. SubtreeOf(ch2)[d] \subseteq SubtreeOf(ch)[d]
  BY <1>1, FewerSubtrees
<1> QED
  BY <1>2, <1>3

LEMMA FewerAttached ==
  ASSUME NEW par \in Parents, NEW ch \in Lists, NEW ch2 \in Lists, Fewer(ch2, ch)
  PROVE  AttachedIn(par, ch2) \subseteq AttachedIn(par, ch)
<1> DEFINE A == AttachedIn(par, ch)
<1>1. A \in SUBSET Elems /\ A = Up(par, ch, A)
  BY AttachedIsLeast
<1>2. Up(par, ch2, A) \subseteq Up(par, ch, A)
  <2> HIDE DEF A
  <2> QED
    BY <1>1 DEF Up, Fewer
<1> QED
  BY <1>1, <1>2, AttachedIsLeast

\* What is attached after the change was in the tree of the root if it is now.
LEMMA StillInTree ==
  ASSUME NEW par \in Parents, NEW ch \in Lists, Shape(par, ch), par[Root] = Nil,
         NEW ch2 \in Lists, Fewer(ch2, ch),
         NEW e \in AttachedIn(par, ch2), e \in SubtreeOf(ch)[Root]
  PROVE  e \in SubtreeOf(ch2)[Root]
<1> DEFINE A2 == AttachedIn(par, ch2)
           R == SubtreeOf(ch)[Root]
           R2 == SubtreeOf(ch2)[Root]
           S == {x \in A2 : x \in R => x \in R2}
<1>1. Root \in Elems /\ Nil \notin Elems
  BY ElemsAssumption
<1>2. A2 \in SUBSET Elems /\ A2 = Up(par, ch2, A2)
  BY AttachedIsLeast
<1>3. \A U \in SUBSET Elems : Up(par, ch2, U) \subseteq U => A2 \subseteq U
  BY AttachedIsLeast
<1>4. \A x \in R : x # Root => par[x] \in R /\ par[x] \in Elems
  BY <1>1, ParentInSubtree
<1>5. Root \in R2 /\ Closed(R2, ch2)
  BY <1>1, SubtreeIsLeast
<1>6. e \in A2 /\ e \in R
  OBVIOUS
<1> HIDE DEF A2, R, R2
<1>7. ASSUME NEW x \in Up(par, ch2, S) PROVE x \in S
  <2>1. x \in Elems /\ (par[x] = Nil \/ (par[x] \in S /\ x \in Range(ch2[par[x]])))
    BY DEF Up
  <2>2. x \in A2
    <3>1. x \in Up(par, ch2, A2)
      BY <2>1 DEF Up
    <3> QED
      BY <1>2, <3>1
  <2>3. ASSUME x \in R PROVE x \in R2
    <3>1. CASE x = Root
      BY <1>5, <3>1
    <3>2. CASE x # Root
      <4>1. par[x] \in R /\ par[x] # Nil
        BY <1>1, <1>4, <2>3, <3>2
      <4>2. par[x] \in R2 /\ x \in Range(ch2[par[x]])
        BY <2>1, <4>1
      <4> QED
        BY <1>5, <4>2 DEF Closed
    <3> QED
      BY <3>1, <3>2
  <2> QED
    BY <2>2, <2>3
<1>8. A2 \subseteq S
  <2>1. S \in SUBSET Elems /\ Up(par, ch2, S) \subseteq S
    BY <1>2, <1>7
  <2> HIDE DEF S
  <2> QED
    BY <1>3, <2>1
<1> QED
  BY <1>6, <1>8 DEF R2

\* p loses the child c.
Cuts(ch, ch2, p, c) ==
    /\ p \in Elems /\ c \in Range(ch[p]) /\ Range(ch2[p]) = Range(ch[p]) \ {c}
    /\ \A q \in Elems : q # p => ch2[q] = ch[q]

LEMMA CutOff ==
  ASSUME NEW par \in Parents, NEW ch \in Lists, Shape(par, ch), par[Root] = Nil,
         NEW ch2 \in Lists, NEW p, NEW c, Cuts(ch, ch2, p, c)
  PROVE  /\ c \in Elems /\ c # Root /\ Fewer(ch2, ch)
         /\ \A q \in Elems : c \notin Range(ch2[q])
         /\ SubtreeOf(ch2)[Root] \cap SubtreeOf(ch)[c] = {}
         /\ \A e \in AttachedIn(par, ch) :
               e \notin SubtreeOf(ch)[c] => e \in AttachedIn(par, ch2)
<1> DEFINE A == AttachedIn(par, ch)
           A2 == AttachedIn(par, ch2)
           T == SubtreeOf(ch)[c]
           R2 == SubtreeOf(ch2)[Root]
<1>1. Root \in Elems /\ Nil \notin Elems /\ p \in Elems
  BY ElemsAssumption DEF Cuts
<1>2. c \in Elems /\ c # Root /\ par[c] = p
  BY <1>1, ChildIsElem, RootIsTop DEF Cuts, Shape
<1>3. Fewer(ch2, ch)
  BY DEF Fewer, Cuts
<1>4. \A q \in Elems : c \notin Range(ch2[q])
  BY <1>2 DEF Cuts, Shape
<1>5. \A q \in Elems : \A d \in Range(ch[q]) : d # c => d \in Range(ch2[q])
  BY DEF Cuts
<1>6. c \in T /\ T \in SUBSET Elems /\ Closed(T, ch)
  BY <1>2, SubtreeIsLeast
<1>7. \A x \in T : x # c => par[x] \in T
  BY <1>2, ParentInSubtree
<1>8. Root \notin T
  BY <1>2, RootIsTop
<1>9. R2 \cap T = {}
  <2> DEFINE U == Elems \ T
  <2>1. ASSUME NEW x \in U, NEW y \in Range(ch2[x]) PROVE y \in U
    <3>1. x \in Elems /\ y # c /\ y \in Range(ch[x])
      BY <1>3, <1>4 DEF Fewer
    <3>2. y \in Elems /\ par[y] = x
      BY <3>1, ChildIsElem DEF Shape
    <3> QED
      BY <1>7, <3>1, <3>2
  <2>2. U \in SUBSET Elems /\ Root \in U /\ Closed(U, ch2)
    BY <1>1, <1>8, <2>1 DEF Closed
  <2>3. R2 \subseteq U
    <3> HIDE DEF U
    <3> QED
      BY <1>1, <2>2, SubtreeIsLeast
  <2> QED
    BY <2>3
<1>10. A \in SUBSET Elems /\ A = Up(par, ch, A)
  BY AttachedIsLeast
<1>11. \A U \in SUBSET Elems : Up(par, ch, U) \subseteq U => A \subseteq U
  BY AttachedIsLeast
<1>12. A2 \in SUBSET Elems /\ A2 = Up(par, ch2, A2)
  BY AttachedIsLeast
<1> HIDE DEF A, A2, T, R2
<1>13. \A e \in A : e \notin T => e \in A2
  <2> DEFINE S == A2 \cup T
  <2>1. ASSUME NEW x \in Up(par, ch, S), x \notin T PROVE x \in A2
    <3>1. x \in Elems /\ (par[x] = Nil \/ (par[x] \in S /\ x \in Range(ch[par[x]])))
      BY DEF Up
    <3>2. CASE par[x] = Nil
      <4>1. x \in Up(par, ch2, A2)
        BY <3>1, <3>2 DEF Up
      <4> QED
        BY <1>12, <4>1
    <3>3. CASE par[x] # Nil
      <4>1. par[x] \in S /\ x \in Range(ch[par[x]]) /\ par[x] \in Elems
        BY <1>6, <1>12, <3>1, <3>3
      <4>2. par[x] \notin T /\ x # c
        BY <1>6, <2>1, <4>1 DEF Closed
      <4>3. x \in Range(ch2[par[x]])
        BY <1>5, <4>1, <4>2
      <4>4. x \in Up(par, ch2, A2)
        BY <3>1, <4>1, <4>2, <4>3 DEF Up
      <4> QED
        BY <1>12, <4>4
    <3> QED
      BY <3>2, <3>3
  <2>2. Up(par, ch, S) \subseteq S /\ S \in SUBSET Elems
    BY <1>6, <1>12, <2>1
  <2>3. A \subseteq S
    <3> HIDE DEF S
    <3> QED
      BY <1>11, <2>2
  <2> QED
    BY <2>3
<1> QED
  BY <1>2, <1>3, <1>4, <1>9, <1>13 DEF A, A2, T, R2

-----------------------------------------------------------------------------
(* The name a new child gets. *)

LEMMA NumberedNames ==
  ASSUME NEW n \in Names
  PROVE  /\ \A k \in Nat : Numbered(n, k) \in Names
         /\ \A j, k \in Nat : Numbered(n, j) = Numbered(n, k) => j = k
<1>1. n.suffix \in Seq(Nat)
  BY DEF Names
<1>2. \A k \in Nat : Append(n.suffix, k) \in Seq(Nat)
  BY <1>1
<1>3. \A k \in Nat : /\ Numbered(n, k).suffix = Append(n.suffix, k)
                     /\ Numbered(n, k) \in Names
  BY <1>2 DEF Numbered, Names
<1>4. ASSUME NEW j \in Nat, NEW k \in Nat, Numbered(n, j) = Numbered(n, k) PROVE j = k
  <2>1. Append(n.suffix, j) = Append(n.suffix, k)
    BY <1>3, <1>4
  <2> QED
    BY <1>1, <2>1, AppendInjective
<1> QED
  BY <1>3, <1>4

\* compute_next_available_name finds a name that no sibling has: of Len(s) + 1
\* numbered names the siblings take at most Len(s).
LEMMA NextAvailableNameIsFree ==
  ASSUME name \in [Elems -> Names], NEW s \in Seq(Elems), NEW n \in Names
  PROVE  /\ NextAvailableName(s, n) \in Names
         /\ NextAvailableName(s, n) \notin SiblingNames(s)
<1> DEFINE K == 1..(Len(s) + 1)
           Free(k) == k > 0 /\ Numbered(n, k) \notin SiblingNames(s)
           First(k) == Free(k) /\ \A j \in 1..(k - 1) : ~Free(j)
<1>1. CASE n \notin SiblingNames(s)
  BY <1>1 DEF NextAvailableName
<1>2. CASE n \in SiblingNames(s)
  <2>1. NextAvailableName(s, n) = Numbered(n, CHOOSE k \in K : First(k))
    BY <1>2 DEF NextAvailableName
  <2>2. Len(s) \in Nat /\ IsFiniteSet(K) /\ Cardinality(K) = Len(s) + 1
    <3>1. Len(s) \in Nat /\ 1 \in Int /\ Len(s) + 1 \in Int
      OBVIOUS
    <3> QED
      BY <3>1, FS_Interval
  <2>3. IsFiniteSet(SiblingNames(s)) /\ Cardinality(SiblingNames(s)) <= Len(s)
        /\ Cardinality(SiblingNames(s)) \in Nat
    <3> DEFINE f == [i \in 1..Len(s) |-> name[s[i]]]
    <3>0. DOMAIN s = 1..Len(s)
      OBVIOUS
    <3>1. f \in Surjection(1..Len(s), SiblingNames(s))
      <4>1. f \in [1..Len(s) -> SiblingNames(s)]
        BY <3>0 DEF SiblingNames, Range
      <4>2. ASSUME NEW t \in SiblingNames(s) PROVE \E i \in 1..Len(s) : f[i] = t
        BY <3>0 DEF SiblingNames, Range
      <4> HIDE DEF f
      <4> QED
        BY <4>1, <4>2 DEF Surjection
    <3>2. IsFiniteSet(1..Len(s)) /\ Cardinality(1..Len(s)) = Len(s)
      <4>1. /\ IsFiniteSet(1..Len(s))
            /\ Cardinality(1..Len(s)) = IF 1 > Len(s) THEN 0 ELSE Len(s) - 1 + 1
        BY <2>2, FS_Interval
      <4> QED
        BY <2>2, <4>1
    <3>3. IsFiniteSet(SiblingNames(s)) /\ Cardinality(SiblingNames(s)) <= Len(s)
      BY <3>1, <3>2, FS_Surjection
    <3> QED
      BY <3>3, FS_CardinalityType
  <2>4. \E k \in K : Free(k)
    <3> SUFFICES ASSUME \A k \in K : ~Free(k) PROVE FALSE
      OBVIOUS
    <3> DEFINE g == [k \in K |-> Numbered(n, k)]
    <3>1. \A k \in K : Numbered(n, k) \in SiblingNames(s)
      BY <2>2
    <3>2. g \in [K -> SiblingNames(s)]
      BY <3>1
    <3>3. Cardinality(SiblingNames(s)) < Cardinality(K)
      BY <2>2, <2>3
    <3>4. PICK x, y \in K : x # y /\ g[x] = g[y]
      <4> HIDE DEF g, K
      <4> QED
        BY <2>2, <2>3, <3>2, <3>3, FS_PigeonHole
    <3>5. x \in Nat /\ y \in Nat /\ Numbered(n, x) = Numbered(n, y)
      BY <3>4
    <3> QED
      BY <3>4, <3>5, NumberedNames
  <2>5. \E k \in K : First(k)
    <3> DEFINE F == {k \in K : Free(k)}
    <3>1. F \in SUBSET Nat /\ F # {}
      BY <2>4
    <3> HIDE DEF F
    <3>2. PICK k \in F : \A j \in F : k <= j
      BY <3>1, LeastNumber
    <3>3. k \in K /\ Free(k)
      BY DEF F
    <3>4. ASSUME NEW j \in 1..(k - 1) PROVE ~Free(j)
      <4>1. j \in K /\ ~(k <= j)
        BY <2>2, <3>3
      <4> QED
        BY <3>2, <4>1 DEF F
    <3> QED
      BY <3>3, <3>4
  <2> DEFINE k == CHOOSE i \in K : First(i)
  <2>6. k \in K /\ First(k)
    BY <2>5
  <2> HIDE DEF k
  <2>7. NextAvailableName(s, n) = Numbered(n, k)
    BY <2>1 DEF k
  <2>8. k \in Nat /\ Numbered(n, k) \notin SiblingNames(s)
    BY <2>2, <2>6
  <2> QED
    BY <2>7, <2>8, NumberedNames
<1> QED
  BY <1>1, <1>2

-----------------------------------------------------------------------------
(* The invariant.  Its parts are stated for any values, so that they can be  *)
(* used of the state between the two halves of MoveChildIn.                  *)

WellFormed(par, nam, ch) ==
    /\ par \in Parents /\ nam \in [Elems -> Names] /\ ch \in Lists
    /\ Shape(par, ch)
    /\ par[Root] = Nil
    /\ SiblingsDiffer(nam, ch)

IdsArePaths(par, nam, ch, ids) ==
    \A e \in AttachedIn(par, ch) : ids[e] = PathOf(par, nam)[e]

\* Of the attached elements the graph owns those of its tree, or none.
OwnedIsTree(par, ch, own) ==
    /\ own \in [Elems -> BOOLEAN]
    /\ \A e \in AttachedIn(par, ch) : own[e] <=> own[Root] /\ e \in SubtreeOf(ch)[Root]

Indexed(ch, ids, own, ix) ==
    /\ own[Root] => \A e \in SubtreeOf(ch)[Root] : ids[e] \in DOMAIN ix /\ ix[ids[e]] = e
    /\ ~own[Root] => DOMAIN ix = {}

Tidy(par, nam, ch, ids, own, ix) ==
    /\ WellFormed(par, nam, ch)
    /\ IdsArePaths(par, nam, ch, ids)
    /\ OwnedIsTree(par, ch, own)
    /\ Indexed(ch, ids, own, ix)

TreeInv == Tidy(parent, name, children, id, owned, index)

LEMMA UniqueIds ==
  ASSUME NEW par, NEW nam, NEW ch, NEW ids, WellFormed(par, nam, ch),
         IdsArePaths(par, nam, ch, ids),
         NEW d \in SubtreeOf(ch)[Root], NEW e \in SubtreeOf(ch)[Root], ids[d] = ids[e]
  PROVE  d = e
<1>1. d \in AttachedIn(par, ch) /\ e \in AttachedIn(par, ch)
  BY RootIsTop DEF WellFormed
<1>2. PathOf(par, nam)[d] = PathOf(par, nam)[e]
  BY <1>1 DEF IdsArePaths
<1> QED
  BY <1>2, PathsDiffer DEF WellFormed

-----------------------------------------------------------------------------
(* A child is attached. *)

LEMMA AttachForm ==
  ASSUME NEW ch, WellFormed(parent, name, ch), NEW p \in Elems, NEW c \in Elems,
         NEW s, NEW top, Adds(ch, p, c, s), c # Root, Attach(p, c, ch, s, top)
  PROVE  WellFormed(parent', name', children')
<1> DEFINE n == NextAvailableName(ch[p], name[c])
<1>1. /\ name' = [name EXCEPT ![c] = n]
      /\ parent' = [parent EXCEPT ![c] = p]
      /\ children' = [ch EXCEPT ![p] = s]
  BY DEF Attach
<1>2. /\ parent \in Parents /\ name \in [Elems -> Names] /\ ch \in Lists
      /\ Shape(parent, ch) /\ parent[Root] = Nil /\ SiblingsDiffer(name, ch)
  BY DEF WellFormed
<1>3. n \in Names /\ n \notin SiblingNames(ch[p])
  BY <1>2, ChildIsElem, NextAvailableNameIsFree
<1> HIDE DEF n
<1>4. parent' \in Parents /\ parent'[Root] = Nil
  BY <1>1, <1>2, ElemsAssumption DEF Parents
<1>5. name' \in [Elems -> Names]
  BY <1>1, <1>2, <1>3
<1>6. /\ children' \in Lists
      /\ \A q \in Elems : \A d \in Range(children'[q]) :
            (d = c /\ q = p) \/ (d # c /\ d \in Range(ch[q]))
  BY <1>1, <1>2, AddedChildren
<1>7. Shape(parent', children')
  BY <1>1, <1>2, AddedShape
<1>8. name'[c] = n /\ \A d \in Elems : d # c => name'[d] = name[d]
  BY <1>1, <1>2
<1>9. ASSUME NEW q \in Elems, NEW d \in Range(children'[q]), NEW e \in Range(children'[q]),
             d # e
      PROVE  name'[d] # name'[e]
  <2>1. \A x \in Range(ch[p]) : name[x] # n
    BY <1>3 DEF SiblingNames
  <2>2. \A x \in Range(ch[q]) : x \in Elems
    BY <1>2, ChildIsElem
  <2>3. CASE d = c /\ q = p
    <3>1. e # c /\ e \in Range(ch[q])
      BY <1>6, <1>9, <2>3
    <3> QED
      BY <1>8, <2>1, <2>2, <2>3, <3>1
  <2>4. CASE d # c /\ d \in Range(ch[q])
    <3>1. CASE e = c /\ q = p
      BY <1>8, <2>1, <2>2, <2>4, <3>1
    <3>2. CASE e # c /\ e \in Range(ch[q])
      <4>1. name[d] # name[e]
        BY <1>2, <1>9, <2>4, <3>2 DEF SiblingsDiffer
      <4> QED
        BY <1>8, <2>2, <2>4, <3>2, <4>1
    <3> QED
      BY <1>6, <3>1, <3>2
  <2> QED
    BY <1>6, <2>3, <2>4
<1>10. SiblingsDiffer(name', children')
  BY <1>9 DEF SiblingsDiffer
<1> QED
  BY <1>4, <1>5, <1>6, <1>7, <1>10 DEF WellFormed

\* Every attached element has the id of its path, and the id of one outside the
\* subtree of c is the one it had.
LEMMA AttachIds ==
  ASSUME NEW ch, WellFormed(parent, name, ch), NEW p \in Elems, NEW c \in Elems,
         NEW s, NEW top \in {p, c}, Adds(ch, p, c, s), c # Root, Attach(p, c, ch, s, top),
         IdsArePaths(parent, name, ch, id)
  PROVE  /\ IdsArePaths(parent', name', children', id')
         /\ \A e \in AttachedIn(parent', children') : e \notin SubtreeOf(children')[c] =>
               e \in AttachedIn(parent, ch) /\ id'[e] = id[e]
<1> DEFINE n == NextAvailableName(ch[p], name[c])
           A == AttachedIn(parent, ch)
           A2 == AttachedIn(parent', children')
           T2 == SubtreeOf(children')[c]
           D == SubtreeOf(children')[top]
           path == PathOf(parent, name)
           path2 == PathOf(parent', name')
<1>1. /\ name' = [name EXCEPT ![c] = n]
      /\ parent' = [parent EXCEPT ![c] = p]
      /\ children' = [ch EXCEPT ![p] = s]
      /\ id' = [x \in Elems |-> IF x \in D THEN path2[x] ELSE id[x]]
  BY DEF Attach, Reattributed
<1>2. /\ parent \in Parents /\ name \in [Elems -> Names] /\ ch \in Lists
      /\ Shape(parent, ch)
  BY DEF WellFormed
<1>3. n \in Names
  BY <1>2, ChildIsElem, NextAvailableNameIsFree
<1> HIDE DEF n
<1>4. children' \in Lists /\ c \in Range(children'[p])
  BY <1>1, <1>2, AddedChildren
<1>5. T2 \subseteq D
  <2>1. top = c \/ (top = p /\ c \in D)
    BY <1>4, SubtreeIsLeast DEF Closed
  <2> QED
    BY <1>4, <2>1, SubtreeWithin
<1>6. \A e \in A2 : e \notin T2 => e \in A /\ path2[e] = path[e]
  <2>1. OthersKeepPaths(parent, name, ch, parent', name', children', c)
    BY <1>1, <1>2, <1>3, AddedAttached
  <2> QED
    BY <2>1 DEF OthersKeepPaths
<1>7. A2 \in SUBSET Elems
  BY <1>4, AttachForm, AttachedIsLeast DEF WellFormed
<1>8. \A e \in A : id[e] = path[e]
  BY DEF IdsArePaths
<1> HIDE DEF A, A2, T2, D, path, path2
<1>9. \A e \in Elems : id'[e] = IF e \in D THEN path2[e] ELSE id[e]
  BY <1>1
<1>10. \A e \in A2 : id'[e] = path2[e]
  BY <1>5, <1>6, <1>7, <1>8, <1>9
<1>11. \A e \in A2 : e \notin T2 => e \in A /\ id'[e] = id[e]
  BY <1>6, <1>7, <1>8, <1>9
<1> QED
  BY <1>10, <1>11 DEF IdsArePaths, A, A2, T2, path2

LEMMA AttachKeeps ==
  ASSUME NEW ch, Tidy(parent, name, ch, id, owned, index),
         NEW p \in Elems, NEW c \in Elems, NEW s, NEW top \in {p, c},
         Adds(ch, p, c, s), c # Root, p \in AttachedIn(parent, ch),
         Attach(p, c, ch, s, top)
  PROVE  TreeInv'
<1> DEFINE A == AttachedIn(parent, ch)
           A2 == AttachedIn(parent', children')
           T == SubtreeOf(ch)[c]
           T2 == SubtreeOf(children')[c]
           R == SubtreeOf(ch)[Root]
           R2 == SubtreeOf(children')[Root]
<1>1. /\ WellFormed(parent, name, ch)
      /\ IdsArePaths(parent, name, ch, id)
      /\ OwnedIsTree(parent, ch, owned)
      /\ Indexed(ch, id, owned, index)
  BY DEF Tidy
<1>2. WellFormed(parent', name', children')
  BY <1>1, AttachForm
<1>3. /\ IdsArePaths(parent', name', children', id')
      /\ \A e \in A2 : e \notin T2 => e \in A /\ id'[e] = id[e]
  BY <1>1, AttachIds
<1>4. /\ parent \in Parents /\ ch \in Lists /\ Shape(parent, ch) /\ parent[Root] = Nil
      /\ parent' \in Parents /\ children' \in Lists
      /\ Shape(parent', children') /\ parent'[Root] = Nil
  BY <1>1, <1>2 DEF WellFormed
<1>5. Root \in Elems
  BY ElemsAssumption
<1>6. /\ p \notin R => R2 = R
      /\ p \in R => R2 = R \cup T
      /\ T2 = T
  <2>1. children' = [ch EXCEPT ![p] = s]
    BY DEF Attach
  <2>2. Grown(ch, children', p, c)
    BY <1>4, <2>1, AddedSubtrees
  <2> QED
    BY <1>5, <2>2 DEF Grown
<1>7. /\ T2 \in SUBSET Elems /\ c \in T2 /\ Root \notin T2
      /\ R2 \in SUBSET Elems /\ R2 \subseteq A2 /\ Root \in R2
      /\ A2 \in SUBSET Elems /\ R \subseteq A /\ p \in A
  <2>1. T2 \in SUBSET Elems /\ c \in T2 /\ R2 \in SUBSET Elems /\ Root \in R2
    BY <1>4, <1>5, SubtreeIsLeast
  <2>2. Root \notin T2 /\ R2 \subseteq A2
    BY <1>4, RootIsTop
  <2>3. A2 \in SUBSET Elems
    BY <1>4, AttachedIsLeast
  <2>4. R \subseteq A
    BY <1>4, RootIsTop
  <2> QED
    BY <2>1, <2>2, <2>3, <2>4
<1>8. p \notin R => T2 \cap R2 = {}
  <2> SUFFICES ASSUME p \notin R PROVE T2 \cap R2 = {}
    OBVIOUS
  <2>1. c \notin R
    <3> SUFFICES ASSUME c \in R PROVE FALSE
      OBVIOUS
    <3>1. parent[c] \in Elems /\ c \in Range(ch[parent[c]])
      BY <1>4, <1>5, ParentInSubtree
    <3> QED
      BY <3>1 DEF Adds
  <2>2. c \notin R2
    BY <1>6, <2>1
  <2> QED
    BY <1>4, <2>2, Apart
<1>9. /\ owned' = [x \in Elems |-> IF x \in T2 THEN owned[p] ELSE owned[x]]
      /\ index' = IF owned[p] THEN Registered(c, id', children') ELSE index
  BY DEF Attach, OwnedBelow
<1>10. \A d, e \in R2 : id'[d] = id'[e] => d = e
  BY <1>2, <1>3, UniqueIds
<1>11. Registered(c, id', children') =
         [x \in DOMAIN index \cup {id'[d] : d \in T2} |->
            IF \E d \in T2 : id'[d] = x THEN CHOOSE d \in T2 : id'[d] = x ELSE index[x]]
  BY DEF Registered
<1>12. \A e \in A : owned[e] <=> owned[Root] /\ e \in R
  BY <1>1 DEF OwnedIsTree
<1>13. owned \in [Elems -> BOOLEAN]
  BY <1>1 DEF OwnedIsTree
<1>14. /\ owned[Root] => \A e \in R : id[e] \in DOMAIN index /\ index[id[e]] = e
       /\ ~owned[Root] => DOMAIN index = {}
  BY <1>1 DEF Indexed
<1> HIDE DEF A, A2, T, T2, R, R2
<1>15. owned[p] <=> owned[Root] /\ p \in R
  BY <1>7, <1>12
<1>16. owned' \in [Elems -> BOOLEAN] /\ owned'[Root] = owned[Root]
  BY <1>5, <1>7, <1>9, <1>13
<1>17. \A e \in T2 : owned'[e] = owned[p]
  BY <1>7, <1>9
<1>18. \A e \in Elems : e \notin T2 => owned'[e] = owned[e]
  BY <1>9
<1>19. ASSUME NEW e \in A2 PROVE owned'[e] <=> owned'[Root] /\ e \in R2
  <2>1. CASE e \in T2
    BY <1>6, <1>8, <1>15, <1>16, <1>17, <2>1
  <2>2. CASE e \notin T2
    <3>1. e \in A /\ owned'[e] = owned[e]
      BY <1>3, <1>7, <1>18, <2>2
    <3>2. e \in R2 <=> e \in R
      BY <1>6, <2>2
    <3> QED
      BY <1>12, <1>16, <3>1, <3>2
  <2> QED
    BY <2>1, <2>2
<1>20. ASSUME owned'[Root], NEW e \in R2 PROVE id'[e] \in DOMAIN index' /\ index'[id'[e]] = e
  <2>1. e \in T2 \/ (e \in R /\ id'[e] = id[e])
    BY <1>3, <1>6, <1>7
  <2>2. CASE owned[p]
    <3>1. T2 \subseteq R2
      BY <1>6, <1>15, <2>2
    <3>2. index' = [x \in DOMAIN index \cup {id'[d] : d \in T2} |->
            IF \E d \in T2 : id'[d] = x THEN CHOOSE d \in T2 : id'[d] = x ELSE index[x]]
      BY <1>9, <1>11, <2>2
    <3>3. CASE e \in T2
      <4>1. id'[e] \in DOMAIN index'
        BY <3>2, <3>3
      <4>2. index'[id'[e]] = CHOOSE d \in T2 : id'[d] = id'[e]
        BY <3>2, <3>3
      <4>3. \A d \in T2 : id'[d] = id'[e] => d = e
        BY <1>10, <3>1, <3>3
      <4>4. (CHOOSE d \in T2 : id'[d] = id'[e]) = e
        BY <3>3, <4>3
      <4> QED
        BY <4>1, <4>2, <4>4
    <3>4. CASE e \notin T2
      <4>1. e \in R /\ id'[e] = id[e]
        BY <2>1, <3>4
      <4>2. id[e] \in DOMAIN index /\ index[id[e]] = e
        BY <1>14, <1>16, <1>20, <4>1
      <4>3. ~ \E d \in T2 : id'[d] = id'[e]
        BY <1>10, <3>1, <3>4
      <4> QED
        BY <3>2, <4>1, <4>2, <4>3
    <3> QED
      BY <3>3, <3>4
  <2>3. CASE ~owned[p]
    <3>1. index' = index /\ p \notin R
      BY <1>9, <1>15, <1>16, <1>20, <2>3
    <3>2. e \in R /\ id'[e] = id[e]
      BY <1>8, <2>1, <3>1
    <3> QED
      BY <1>14, <1>16, <1>20, <3>1, <3>2
  <2> QED
    BY <2>2, <2>3
<1>21. ~owned'[Root] => DOMAIN index' = {}
  BY <1>9, <1>14, <1>15, <1>16
<1>22. OwnedIsTree(parent', children', owned')
  BY <1>16, <1>19 DEF OwnedIsTree, A2, R2
<1>23. Indexed(children', id', owned', index')
  BY <1>20, <1>21 DEF Indexed, R2
<1> QED
  BY <1>2, <1>3, <1>22, <1>23 DEF TreeInv, Tidy

-----------------------------------------------------------------------------
(* A list of children loses a child, or only its order. *)

LEMMA FewerForm ==
  ASSUME NEW par, NEW nam, NEW ch, WellFormed(par, nam, ch),
         NEW ch2 \in Lists, Fewer(ch2, ch), \A q \in Elems : IsInjective(ch2[q])
  PROVE  WellFormed(par, nam, ch2)
<1>1. /\ par \in Parents /\ nam \in [Elems -> Names] /\ ch \in Lists
      /\ Shape(par, ch) /\ par[Root] = Nil /\ SiblingsDiffer(nam, ch)
  BY DEF WellFormed
<1>2. Shape(par, ch2)
  BY <1>1, FewerShape
<1>3. SiblingsDiffer(nam, ch2)
  BY <1>1 DEF SiblingsDiffer, Fewer
<1> QED
  BY <1>1, <1>2, <1>3 DEF WellFormed

LEMMA FewerOwned ==
  ASSUME NEW par, NEW nam, NEW ch, WellFormed(par, nam, ch),
         NEW own, OwnedIsTree(par, ch, own),
         NEW ch2 \in Lists, Fewer(ch2, ch)
  PROVE  OwnedIsTree(par, ch2, own)
<1>1. par \in Parents /\ ch \in Lists /\ Shape(par, ch) /\ par[Root] = Nil
  BY DEF WellFormed
<1>2. own \in [Elems -> BOOLEAN]
  BY DEF OwnedIsTree
<1>3. ASSUME NEW e \in AttachedIn(par, ch2)
      PROVE  own[e] <=> own[Root] /\ e \in SubtreeOf(ch2)[Root]
  <2>1. e \in AttachedIn(par, ch)
    BY <1>1, FewerAttached
  <2>2. own[e] <=> own[Root] /\ e \in SubtreeOf(ch)[Root]
    BY <2>1 DEF OwnedIsTree
  <2>3. e \in SubtreeOf(ch)[Root] => e \in SubtreeOf(ch2)[Root]
    BY <1>1, StillInTree
  <2>4. e \in SubtreeOf(ch2)[Root] => e \in SubtreeOf(ch)[Root]
    BY <1>1, FewerSubtrees, ElemsAssumption
  <2> QED
    BY <2>2, <2>3, <2>4
<1> QED
  BY <1>2, <1>3 DEF OwnedIsTree

LEMMA FewerIndexed ==
  ASSUME NEW ch \in Lists, NEW ids, NEW own, NEW ix, Indexed(ch, ids, own, ix),
         NEW ch2 \in Lists, Fewer(ch2, ch)
  PROVE  Indexed(ch2, ids, own, ix)
<1>1. SubtreeOf(ch2)[Root] \subseteq SubtreeOf(ch)[Root]
  BY FewerSubtrees, ElemsAssumption
<1> QED
  BY <1>1 DEF Indexed

LEMMA FewerKeeps ==
  ASSUME NEW par, NEW nam, NEW ch, NEW ids, NEW own, NEW ix,
         Tidy(par, nam, ch, ids, own, ix),
         NEW ch2 \in Lists, Fewer(ch2, ch), \A q \in Elems : IsInjective(ch2[q])
  PROVE  Tidy(par, nam, ch2, ids, own, ix)
<1>1. /\ WellFormed(par, nam, ch) /\ IdsArePaths(par, nam, ch, ids)
      /\ OwnedIsTree(par, ch, own) /\ Indexed(ch, ids, own, ix)
  BY DEF Tidy
<1>2. par \in Parents /\ ch \in Lists
  BY <1>1 DEF WellFormed
<1>3. WellFormed(par, nam, ch2)
  BY <1>1, FewerForm
<1>4. AttachedIn(par, ch2) \subseteq AttachedIn(par, ch)
  BY <1>2, FewerAttached
<1>5. IdsArePaths(par, nam, ch2, ids)
  BY <1>1, <1>4 DEF IdsArePaths
<1>6. OwnedIsTree(par, ch2, own)
  BY <1>1, FewerOwned
<1>7. Indexed(ch2, ids, own, ix)
  BY <1>1, <1>2, FewerIndexed
<1> QED
  BY <1>3, <1>5, <1>6, <1>7 DEF Tidy

\* The order of the children and the ids are computed again: nothing else
\* changes.
LEMMA ShuffleKeeps ==
  ASSUME TreeInv, NEW p \in Elems, NEW s \in Seq(Elems), IsInjective(s),
         Range(s) = Range(children[p]),
         children' = [children EXCEPT ![p] = s],
         id' = Reattributed(p, parent, name, children'),
         UNCHANGED <<name, parent, owned, index>>
  PROVE  TreeInv'
<1>1. /\ WellFormed(parent, name, children) /\ IdsArePaths(parent, name, children, id)
      /\ OwnedIsTree(parent, children, owned) /\ Indexed(children, id, owned, index)
  BY DEF TreeInv, Tidy
<1>2. parent \in Parents /\ children \in Lists /\ Shape(parent, children)
      /\ parent[Root] = Nil
  BY <1>1 DEF WellFormed
<1>3. children' \in Lists
  BY <1>2 DEF Lists
<1>4. \A q \in Elems : Range(children'[q]) = Range(children[q])
  BY <1>2 DEF Lists
<1>5. Fewer(children', children) /\ Fewer(children, children')
  BY <1>4 DEF Fewer
<1>6. \A q \in Elems : IsInjective(children'[q])
  BY <1>2 DEF Lists, Shape
<1>7. Tidy(parent, name, children', id, owned, index)
  BY <1>3, <1>5, <1>6, FewerKeeps DEF TreeInv
<1>8. IdsArePaths(parent, name, children', id)
  BY <1>7 DEF Tidy
<1>9. AttachedIn(parent, children') \in SUBSET Elems
  BY <1>2, <1>3, AttachedIsLeast
<1>10. \A e \in AttachedIn(parent, children') :
          id'[e] = id[e] /\ id'[e] = PathOf(parent, name)[e]
  BY <1>8, <1>9 DEF IdsArePaths, Reattributed
<1>11. IdsArePaths(parent, name, children', id')
  BY <1>10 DEF IdsArePaths
<1>12. SubtreeOf(children')[Root] \subseteq AttachedIn(parent, children')
  BY <1>3, <1>7, RootIsTop DEF Tidy, WellFormed
<1>13. Indexed(children', id', owned, index)
  BY <1>7, <1>10, <1>12 DEF Tidy, Indexed
<1>14. Tidy(parent, name, children', id', owned, index)
  BY <1>7, <1>11, <1>13 DEF Tidy
<1> QED
  BY <1>14 DEF TreeInv

\* The subtree that is cut off is unregistered: what stays in the tree stays in
\* the index, because no other element has one of the ids that go.
LEMMA UnregisterKeeps ==
  ASSUME TreeInv, NEW p \in Elems, NEW c \in Elems, Attached(p),
         children' \in Lists, Cuts(children, children', p, c),
         \A q \in Elems : IsInjective(children'[q]),
         index' = IF owned[p] THEN Unregistered(c) ELSE index,
         UNCHANGED <<name, parent, id, owned>>
  PROVE  TreeInv'
<1>1. /\ WellFormed(parent, name, children) /\ IdsArePaths(parent, name, children, id)
      /\ OwnedIsTree(parent, children, owned) /\ Indexed(children, id, owned, index)
  BY DEF TreeInv, Tidy
<1>2. parent \in Parents /\ children \in Lists /\ Shape(parent, children)
      /\ parent[Root] = Nil
  BY <1>1 DEF WellFormed
<1> DEFINE R == SubtreeOf(children)[Root]
           R2 == SubtreeOf(children')[Root]
           T == SubtreeOf(children)[c]
<1>3. Fewer(children', children) /\ R2 \cap T = {}
  BY <1>2, CutOff
<1>4. Tidy(parent, name, children', id, owned, index)
  BY <1>3, FewerKeeps DEF TreeInv
<1>5. R2 \subseteq R
  BY <1>2, <1>3, FewerSubtrees, ElemsAssumption
<1>6. CASE owned[p]
  <2>1. p \in R
    BY <1>1, <1>6 DEF OwnedIsTree, Attached
  <2>2. c \in R
    <3>1. Closed(R, children)
      BY <1>2, SubtreeIsLeast, ElemsAssumption
    <3> QED
      BY <2>1, <3>1 DEF Closed, Cuts
  <2>3. T \subseteq R
    BY <1>2, <2>2, SubtreeWithin, ElemsAssumption
  <2>4. \A d, e \in R : id[d] = id[e] => d = e
    BY <1>1, UniqueIds
  <2>5. index' = [x \in DOMAIN index \ {id[d] : d \in T} |-> index[x]]
    BY <1>6 DEF Unregistered, Subtree
  <2>6. /\ owned[Root] => \A e \in R2 : id[e] \in DOMAIN index /\ index[id[e]] = e
        /\ ~owned[Root] => DOMAIN index = {}
    BY <1>4 DEF Tidy, Indexed
  <2> HIDE DEF R, R2, T
  <2>7. \A e \in R2 : id[e] \notin {id[d] : d \in T}
    BY <1>3, <1>5, <2>3, <2>4
  <2>8. owned[Root] => \A e \in R2 : id[e] \in DOMAIN index' /\ index'[id[e]] = e
    BY <2>5, <2>6, <2>7
  <2>9. ~owned[Root] => DOMAIN index' = {}
    BY <2>5, <2>6
  <2>10. Indexed(children', id, owned, index')
    BY <2>8, <2>9 DEF Indexed, R2
  <2>11. Tidy(parent, name, children', id, owned, index')
    BY <1>4, <2>10 DEF Tidy
  <2> QED
    BY <2>11 DEF TreeInv
<1>7. CASE ~owned[p]
  BY <1>4, <1>7 DEF TreeInv
<1> QED
  BY <1>6, <1>7

-----------------------------------------------------------------------------
(* The invariant holds. *)

LEMMA TreeInit == Init => TreeInv
<1> SUFFICES ASSUME Init PROVE TreeInv
  OBVIOUS
<1>1. Root \in Elems /\ Nil \notin Elems
  BY ElemsAssumption
<1>2. /\ parent = [e \in Elems |-> Nil]
      /\ children = [e \in Elems |-> <<>>]
      /\ id = [e \in Elems |-> <<name[e]>>]
  BY DEF Init
<1>3. name \in [Elems -> Names]
  <2>1. PICK given \in [Elems \ {Root} -> GivenNames] :
           name = [e \in Elems |-> IF e = Root THEN Name("root", <<>>) ELSE given[e]]
    BY DEF Init
  <2>2. Name("root", <<>>) \in Names
    BY NamesAssumption DEF Name, Names
  <2>3. GivenNames \subseteq Names
    BY NamesAssumption
  <2> QED
    BY <2>1, <2>2, <2>3
<1>4. parent \in Parents /\ children \in Lists /\ parent[Root] = Nil
  BY <1>1, <1>2 DEF Parents, Lists
<1>5. \A p \in Elems : Range(children[p]) = {} /\ IsInjective(children[p])
  BY <1>2 DEF Range, IsInjective
<1>6. WellFormed(parent, name, children)
  BY <1>3, <1>4, <1>5 DEF WellFormed, Shape, SiblingsDiffer
<1>7. \A e \in Elems : PathOf(parent, name)[e] = <<name[e]>>
  BY <1>2, <1>3, <1>4, PathOfAttached
<1>8. AttachedIn(parent, children) \in SUBSET Elems
  BY <1>4, AttachedIsLeast
<1>9. IdsArePaths(parent, name, children, id)
  BY <1>2, <1>7, <1>8 DEF IdsArePaths
<1>10. SubtreeOf(children)[Root] = {Root}
  <2>1. {Root} \in SUBSET Elems /\ Closed({Root}, children)
    BY <1>1, <1>5 DEF Closed
  <2> QED
    BY <1>1, <1>4, <2>1, SubtreeIsLeast
<1>11. PICK constructed \in BOOLEAN :
          /\ owned = [e \in Elems |-> e = Root /\ constructed]
          /\ index = [x \in IF constructed THEN {id[Root]} ELSE {} |-> Root]
  BY DEF Init
<1>12. owned[Root] = constructed
  BY <1>1, <1>11
<1>13. OwnedIsTree(parent, children, owned)
  BY <1>1, <1>8, <1>10, <1>11 DEF OwnedIsTree
<1>14. Indexed(children, id, owned, index)
  BY <1>10, <1>11, <1>12 DEF Indexed
<1> QED
  BY <1>6, <1>9, <1>13, <1>14 DEF TreeInv, Tidy

LEMMA AddKeeps ==
  ASSUME TreeInv, NEW p \in Elems, NEW c \in Elems, MayAdd(p, c),
         NEW s, NEW top \in {p, c}, Attach(p, c, children, s, top),
         s \in Seq(Elems), IsInjective(s), Range(s) = Range(children[p]) \cup {c}
  PROVE  TreeInv'
<1>1. Adds(children, p, c, s)
  BY DEF Adds, MayAdd, Loose, Subtree
<1>2. c # Root /\ p \in AttachedIn(parent, children)
  BY DEF MayAdd, Attached
<1> QED
  BY <1>1, <1>2, AttachKeeps DEF TreeInv

LEMMA InsertKeeps ==
  ASSUME TreeInv, NEW p \in Elems, NEW c \in Elems,
         NEW i \in 1..(Len(children[p]) + 1), InsertChildAt(p, c, i)
  PROVE  TreeInv'
<1> DEFINE s == InsertAt(children[p], i, c)
<1>1. children[p] \in Seq(Elems) /\ IsInjective(children[p])
  BY DEF TreeInv, Tidy, WellFormed, Lists, Shape
<1>2. MayAdd(p, c) /\ Attach(p, c, children, s, p)
  BY DEF InsertChildAt
<1>3. c \notin Range(children[p])
  BY <1>2 DEF MayAdd, Loose
<1>4. s \in Seq(Elems) /\ IsInjective(s) /\ Range(s) = Range(children[p]) \cup {c}
  BY <1>1, <1>3, ListWith
<1> HIDE DEF s
<1> QED
  BY <1>2, <1>4, AddKeeps

LEMMA MoveKeeps ==
  ASSUME TreeInv, NEW p \in Elems, NEW x, NEW target, NEW offset \in {0, 1},
         Move(p, x, target, offset)
  PROVE  TreeInv'
<1> DEFINE at == Position(p, target)
           i == Position(p, x)
           moving == children[p][i]
           rest == RemoveAt(children[p], i)
<1>1. children \in Lists /\ children[p] \in Seq(Elems) /\ IsInjective(children[p])
  BY DEF TreeInv, Tidy, WellFormed, Lists, Shape
<1>2. i \in 1..Len(children[p]) /\ at \in 1..Len(children[p])
  BY <1>1, PositionOfChild DEF Move
<1>3. /\ rest \in Seq(Elems) /\ IsInjective(rest) /\ Len(rest) = Len(children[p]) - 1
      /\ Range(rest) = Range(children[p]) \ {moving}
  BY <1>1, <1>2, ListWithout
<1>4. moving \in Elems /\ moving \in Range(children[p])
  BY <1>1, <1>2 DEF Range
<1>5. UNCHANGED <<name, parent, owned, index>>
  BY DEF Move
<1>6. CASE at > Len(rest)
  <2>1. children' = [children EXCEPT ![p] = rest] /\ UNCHANGED id
    BY <1>6 DEF Move
  <2> HIDE DEF rest
  <2>2. children' \in Lists
    BY <1>1, <1>3, <2>1 DEF Lists
  <2>3. Fewer(children', children)
    BY <1>1, <1>3, <2>1 DEF Lists, Fewer
  <2>4. \A q \in Elems : IsInjective(children'[q])
    BY <1>1, <1>3, <2>1 DEF Lists, TreeInv, Tidy, WellFormed, Shape
  <2>5. Tidy(parent, name, children', id, owned, index)
    BY <2>2, <2>3, <2>4, FewerKeeps DEF TreeInv
  <2> QED
    BY <1>5, <2>1, <2>5 DEF TreeInv
<1>7. CASE ~(at > Len(rest))
  <2> DEFINE s == InsertAt(rest, at + offset, moving)
  <2>1. /\ children' = [children EXCEPT ![p] = s]
        /\ id' = Reattributed(p, parent, name, children')
    BY <1>7 DEF Move
  <2>2. Len(rest) \in Nat
    BY <1>3
  <2> HIDE DEF rest, at, moving
  <2>3. at + offset \in 1..(Len(rest) + 1)
    BY <1>2, <1>7, <2>2
  <2>4. moving \notin Range(rest)
    BY <1>3
  <2>5. s \in Seq(Elems) /\ IsInjective(s) /\ Range(s) = Range(rest) \cup {moving}
    BY <1>3, <1>4, <2>3, <2>4, ListWith
  <2>6. Range(s) = Range(children[p])
    BY <1>3, <1>4, <2>5
  <2> HIDE DEF s
  <2> QED
    BY <1>5, <2>1, <2>5, <2>6, ShuffleKeeps
<1> QED
  BY <1>6, <1>7

LEMMA RemoveKeeps ==
  ASSUME TreeInv, NEW p \in Elems, NEW x, RemoveChild(p, x)
  PROVE  TreeInv'
<1> DEFINE i == Position(p, x)
           c == children[p][i]
           rest == RemoveAt(children[p], i)
<1>1. children \in Lists /\ children[p] \in Seq(Elems) /\ IsInjective(children[p])
  BY DEF TreeInv, Tidy, WellFormed, Lists, Shape
<1>2. i \in 1..Len(children[p])
  BY <1>1, PositionOfChild DEF RemoveChild
<1>3. /\ rest \in Seq(Elems) /\ IsInjective(rest)
      /\ Range(rest) = Range(children[p]) \ {c}
  BY <1>1, <1>2, ListWithout
<1>4. c \in Elems /\ c \in Range(children[p])
  BY <1>1, <1>2 DEF Range
<1>5. /\ Attached(p)
      /\ children' = [children EXCEPT ![p] = rest]
      /\ index' = IF owned[p] THEN Unregistered(c) ELSE index
      /\ UNCHANGED <<name, parent, id, owned>>
  BY DEF RemoveChild
<1> HIDE DEF rest, c, i
<1>6. children' \in Lists
  BY <1>1, <1>3, <1>5 DEF Lists
<1>7. Cuts(children, children', p, c)
  BY <1>1, <1>3, <1>4, <1>5 DEF Lists, Cuts
<1>8. \A q \in Elems : IsInjective(children'[q])
  BY <1>1, <1>3, <1>5 DEF Lists, TreeInv, Tidy, WellFormed, Shape
<1> QED
  BY <1>4, <1>5, <1>6, <1>7, <1>8, UnregisterKeeps

LEMMA MoveInKeeps ==
  ASSUME TreeInv, NEW p \in Elems, NEW x, NEW q \in Elems, MoveChildIn(p, x, q)
  PROVE  TreeInv'
<1> DEFINE i == Position(p, x)
           c == children[p][i]
           rest == RemoveAt(children[p], i)
           ch == Erased(p, x)
           s == Append(ch[q], c)
<1>1. children \in Lists /\ children[p] \in Seq(Elems) /\ IsInjective(children[p])
  BY DEF TreeInv, Tidy, WellFormed, Lists, Shape
<1>2. i \in 1..Len(children[p])
  BY <1>1, PositionOfChild DEF MoveChildIn
<1>3. /\ rest \in Seq(Elems) /\ IsInjective(rest)
      /\ Range(rest) = Range(children[p]) \ {c}
  BY <1>1, <1>2, ListWithout
<1>4. c \in Elems /\ c \in Range(children[p])
  BY <1>1, <1>2 DEF Range
<1>5. ch = [children EXCEPT ![p] = rest]
  BY DEF Erased
<1>6. /\ q \in AttachedIn(parent, children)
      /\ q \notin SubtreeOf(children)[c]
      /\ Attach(q, c, ch, s, q)
  BY DEF MoveChildIn, Attached, Subtree
<1> HIDE DEF rest, c, i, ch
<1>7. ch \in Lists
  BY <1>1, <1>3, <1>5 DEF Lists
<1>8. Cuts(children, ch, p, c)
  BY <1>1, <1>3, <1>4, <1>5 DEF Lists, Cuts
<1>9. \A e \in Elems : IsInjective(ch[e])
  BY <1>1, <1>3, <1>5 DEF Lists, TreeInv, Tidy, WellFormed, Shape
<1>10. parent \in Parents /\ Shape(parent, children) /\ parent[Root] = Nil
  BY DEF TreeInv, Tidy, WellFormed
<1>11. /\ c # Root /\ Fewer(ch, children)
       /\ \A e \in Elems : c \notin Range(ch[e])
       /\ q \in AttachedIn(parent, ch)
  BY <1>1, <1>6, <1>7, <1>8, <1>10, CutOff
<1>12. Tidy(parent, name, ch, id, owned, index)
  BY <1>7, <1>9, <1>11, FewerKeeps DEF TreeInv
<1>13. ch[q] \in Seq(Elems) /\ IsInjective(ch[q]) /\ c \notin Range(ch[q])
  BY <1>7, <1>9, <1>11 DEF Lists
<1>14. s \in Seq(Elems) /\ IsInjective(s) /\ Range(s) = Range(ch[q]) \cup {c}
  BY <1>4, <1>13, ListAppended
<1>15. q \notin SubtreeOf(ch)[c]
  BY <1>1, <1>4, <1>6, <1>7, <1>11, FewerSubtrees
<1> HIDE DEF s
<1>16. Adds(ch, q, c, s)
  BY <1>11, <1>14, <1>15 DEF Adds
<1> QED
  BY <1>4, <1>6, <1>11, <1>12, <1>16, AttachKeeps

LEMMA TreeNext == TreeInv /\ [Next]_vars => TreeInv'
<1> SUFFICES ASSUME TreeInv, [Next]_vars PROVE TreeInv'
  OBVIOUS
<1>0. children \in Lists
  BY DEF TreeInv, Tidy, WellFormed
<1>1. ASSUME NEW p \in Elems, NEW c \in Elems, AddChild(p, c) PROVE TreeInv'
  <2> DEFINE s == Append(children[p], c)
  <2>1. children[p] \in Seq(Elems) /\ IsInjective(children[p])
    BY DEF TreeInv, Tidy, WellFormed, Lists, Shape
  <2>2. MayAdd(p, c) /\ Attach(p, c, children, s, c)
    BY <1>1 DEF AddChild
  <2>3. c \notin Range(children[p])
    BY <2>2 DEF MayAdd, Loose
  <2>4. s \in Seq(Elems) /\ IsInjective(s) /\ Range(s) = Range(children[p]) \cup {c}
    BY <2>1, <2>3, ListAppended
  <2> HIDE DEF s
  <2> QED
    BY <2>2, <2>4, AddKeeps
<1>2. ASSUME NEW p \in Elems, NEW c \in Elems, NEW x,
             InsertChildBefore(p, c, x) \/ InsertChildAfter(p, c, x)
      PROVE  TreeInv'
  <2>1. Position(p, x) \in 1..Len(children[p]) /\ Len(children[p]) \in Nat
    BY <1>0, <1>2, PositionOfChild DEF InsertChildBefore, InsertChildAfter, Lists
  <2>2. /\ Position(p, x) \in 1..(Len(children[p]) + 1)
        /\ Position(p, x) + 1 \in 1..(Len(children[p]) + 1)
    BY <2>1
  <2>3. InsertChildAt(p, c, Position(p, x)) \/ InsertChildAt(p, c, Position(p, x) + 1)
    BY <1>2 DEF InsertChildBefore, InsertChildAfter
  <2> QED
    BY <2>2, <2>3, InsertKeeps
<1>3. ASSUME NEW p \in Elems, NEW x, NEW y, MoveChildBefore(p, x, y) \/ MoveChildAfter(p, x, y)
      PROVE  TreeInv'
  BY <1>3, MoveKeeps DEF MoveChildBefore, MoveChildAfter
<1>4. CASE UNCHANGED vars
  BY <1>4 DEF TreeInv, vars
<1>5. CASE Next
  BY <1>1, <1>2, <1>3, <1>5, InsertKeeps, RemoveKeeps, MoveInKeeps DEF Next
<1> QED
  BY <1>4, <1>5

LEMMA TreeInvHolds == Spec => []TreeInv
BY TreeInit, TreeNext, PTL DEF Spec

LEMMA ShapeFollows == TreeInv => TreeShape
<1> SUFFICES ASSUME TreeInv PROVE TreeShape
  OBVIOUS
<1>1. Shape(parent, children)
  BY DEF TreeInv, Tidy, WellFormed
<1>2. \A p \in Elems : IsInjective(children[p])
  BY <1>1 DEF Shape
<1>3. \A p \in Elems : \A c \in Range(children[p]) : parent[c] = p /\ p \notin Subtree(c)
  BY <1>1 DEF Shape, Subtree
<1>4. \A p, q \in Elems : p # q => Range(children[p]) \cap Range(children[q]) = {}
  BY <1>3
<1> QED
  BY <1>2, <1>3, <1>4 DEF TreeShape

LEMMA IdsFollow == TreeInv => IdIsPath
<1> SUFFICES ASSUME TreeInv PROVE IdIsPath
  OBVIOUS
<1>1. \A e \in AttachedIn(parent, children) : id[e] = PathOf(parent, name)[e]
  BY DEF TreeInv, Tidy, IdsArePaths
<1> QED
  BY <1>1 DEF IdIsPath, Attached

LEMMA NamesFollow == TreeInv => UniqueNames
<1> SUFFICES ASSUME TreeInv PROVE UniqueNames
  OBVIOUS
<1>1. WellFormed(parent, name, children) /\ IdsArePaths(parent, name, children, id)
  BY DEF TreeInv, Tidy
<1>2. \A p \in Elems : \A c, d \in Range(children[p]) : c # d => name[c] # name[d]
  BY <1>1 DEF WellFormed, SiblingsDiffer
<1>3. \A d, e \in SubtreeOf(children)[Root] : d # e => id[d] # id[e]
  BY <1>1, UniqueIds
<1> QED
  BY <1>2, <1>3 DEF UniqueNames, Subtree

LEMMA RegisteredFollows == TreeInv => RegisteredInTree
<1> SUFFICES ASSUME TreeInv, owned[Root], NEW e \in SubtreeOf(children)[Root]
             PROVE  owned[e] /\ id[e] \in DOMAIN index /\ index[id[e]] = e
  BY DEF RegisteredInTree, Subtree
<1>1. /\ WellFormed(parent, name, children)
      /\ OwnedIsTree(parent, children, owned) /\ Indexed(children, id, owned, index)
  BY DEF TreeInv, Tidy
<1>2. e \in AttachedIn(parent, children)
  BY <1>1, RootIsTop DEF WellFormed
<1> QED
  BY <1>1, <1>2 DEF OwnedIsTree, Indexed

LEMMA FindFollows == TreeInv => FindsElement
<1> SUFFICES ASSUME TreeInv, NEW e \in Subtree(Root) PROVE FindElement(id[e]) = e
  BY DEF FindsElement
<1>1. Indexed(children, id, owned, index)
  BY DEF TreeInv, Tidy
<1>2. CASE id[e] \in DOMAIN index
  <2>1. owned[Root]
    BY <1>1, <1>2 DEF Indexed
  <2>2. index[id[e]] = e
    BY <1>1, <2>1 DEF Indexed, Subtree
  <2> QED
    BY <1>2, <2>2 DEF FindElement
<1>3. CASE id[e] \notin DOMAIN index
  <2>1. \A d \in Subtree(Root) : id[d] = id[e] => d = e
    BY NamesFollow DEF UniqueNames
  <2>2. (CHOOSE d \in Subtree(Root) : id[d] = id[e]) = e
    BY <2>1
  <2> QED
    BY <1>3, <2>2 DEF FindElement
<1> QED
  BY <1>2, <1>3

\* Whatever is added, inserted, moved, lost by a move or removed, the elements
\* form trees (GraphElement.cpp:53, 169, 293).
THEOREM ElementsFormTrees == Spec => []TreeShape
BY TreeInvHolds, ShapeFollows, PTL

\* INVARIANT #1: every attached element has the id of its path, however deep it
\* is below the element that was moved (GraphElement.cpp:11-17).
THEOREM IdsFollowPaths == Spec => []IdIsPath
BY TreeInvHolds, IdsFollow, PTL

\* INVARIANT #2: siblings have different names and elements of the tree different
\* ids, for any number of children and whatever names without slashes the callers
\* give them (GraphElement.cpp:19-21).
THEOREM NamesAreUnique == Spec => []UniqueNames
BY TreeInvHolds, NamesFollow, PTL

\* INVARIANT #3: a graph that owns its root owns all of the tree and has it in
\* its index under the present ids (GraphElement.cpp:23-25).
THEOREM TreeIsRegistered == Spec => []RegisteredInTree
BY TreeInvHolds, RegisteredFollows, PTL

\* Looking up the id of an element of the tree finds that element, with or
\* without entries in the index (Graph.cpp:81-87).
THEOREM ElementsAreFound == Spec => []FindsElement
BY TreeInvHolds, FindFollows, PTL
=============================================================================
