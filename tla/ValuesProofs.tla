---------------------------- MODULE ValuesProofs ----------------------------
(***************************************************************************)
(* What Values checks over small tables, for every table: the theorems      *)
(*                                                                         *)
(*     BlocksAreAuthentic     BlockIsAuthentic                             *)
(*     SegmentsAreComplete    SegmentIsComplete                            *)
(*     ActionsSurvive         CodecKeepsActions                            *)
(*     StatusWalksRight       WalkTracksRight                              *)
(*                                                                         *)
(* A behaviour picks one input and stops, so each rests on a lemma about    *)
(* the algorithm, for any input of its kind: AlteredIsJudged and            *)
(* JsonKeepsBlock, SegmentReturned, PlanIsRead, WalkIsRight.  The loops (of *)
(* get_chain_segment and the batches, over the characters of a file and of  *)
(* a glob, over the elements of an expression and the rules) are functions  *)
(* over numbers, and what they keep is proved by induction over the rounds. *)
(***************************************************************************)
EXTENDS Values, SequenceTheorems, FiniteSetTheorems, TLAPS

-----------------------------------------------------------------------------
(* Induction and recursion over numbers.  The library's induction principle    *)
(* takes the formula as a parameter; here the set of the numbers that satisfy *)
(* it is one.                                                               *)

LEMMA LeastNumber ==
  ASSUME NEW T \in SUBSET Nat, T # {}
  PROVE  \E n \in T : \A m \in T : n <= m
<1> DEFINE R == OpToRel(<, Nat)
<1>1. IsWellFoundedOn(R, Nat)
  BY NatLessThanWellFounded
<1>2. \A m, n \in Nat : m < n => <<m, n>> \in R
  BY DEF OpToRel
<1>3. PICK n \in T : \A m \in T : <<m, n>> \notin R
  BY <1>1, WFMin
<1> HIDE DEF R
<1>4. ASSUME NEW m \in T PROVE n <= m
  <2>1. m \in Nat /\ n \in Nat /\ <<m, n>> \notin R
    BY <1>3, <1>4
  <2>2. ~ (m < n)
    BY <1>2, <2>1
  <2> QED
    BY <2>1, <2>2
<1> QED
  BY <1>4

LEMMA SetInductionTo ==
  ASSUME NEW N \in Nat, NEW S, 0 \in S,
         \A n \in Nat : n < N /\ n \in S => n + 1 \in S
  PROVE  \A n \in 0..N : n \in S
<1> SUFFICES ASSUME {n \in 0..N : n \notin S} # {} PROVE FALSE
  OBVIOUS
<1> DEFINE T == {n \in 0..N : n \notin S}
<1>0. T \in SUBSET Nat /\ T # {}
  OBVIOUS
<1>1. PICK n \in T : \A m \in T : n <= m
  <2> HIDE DEF T
  <2> QED
    BY <1>0, LeastNumber
<1>2. n - 1 \in Nat /\ n - 1 \notin T
  BY <1>1
<1> QED
  BY <1>1, <1>2

\* g[n] is what the steps F[1], ..., F[n] make of v0, one after the other.
IsRun(g, V, F, v0, N) ==
    g \in [0..N -> V] /\ g[0] = v0 /\ \A n \in 1..N : g[n] = F[n][g[n - 1]]

LEMMA RunExists ==
  ASSUME NEW V, NEW N \in Nat, NEW F \in [1..N -> [V -> V]], NEW v0 \in V
  PROVE  \E g : IsRun(g, V, F, v0, N)
<1> DEFINE S == {k \in 0..N : \E g : IsRun(g, V, F, v0, k)}
<1>1. 0 \in S
  <2>1. IsRun([n \in 0..0 |-> v0], V, F, v0, 0)
    BY DEF IsRun
  <2> QED
    BY <2>1
<1>2. ASSUME NEW k \in Nat, k < N, k \in S PROVE k + 1 \in S
  <2>1. PICK g : IsRun(g, V, F, v0, k)
    BY <1>2
  <2> DEFINE h == [n \in 0..(k + 1) |-> IF n = k + 1 THEN F[k + 1][g[k]] ELSE g[n]]
  <2>2. h \in [0..(k + 1) -> V]
    <3>1. g[k] \in V /\ F[k + 1] \in [V -> V]
      BY <1>2, <2>1 DEF IsRun
    <3> QED
      BY <2>1, <3>1 DEF IsRun
  <2>3. h[0] = v0
    BY <2>1 DEF IsRun
  <2>4. ASSUME NEW n \in 1..(k + 1) PROVE h[n] = F[n][h[n - 1]]
    BY <2>1 DEF IsRun
  <2> HIDE DEF h
  <2>5. IsRun(h, V, F, v0, k + 1)
    BY <2>2, <2>3, <2>4 DEF IsRun
  <2>6. k + 1 \in 0..N
    BY <1>2
  <2> QED
    BY <2>5, <2>6
<1> HIDE DEF S
<1>3. \A k \in 0..N : k \in S
  BY <1>1, <1>2, SetInductionTo
<1>4. N \in S
  BY <1>3
<1> QED
  BY <1>4 DEF S

-----------------------------------------------------------------------------
(* Segments. *)

\* A page is sorted the only way there is.
LEMMA SortedInterval ==
  ASSUME NEW a \in Nat, NEW b \in Nat
  PROVE  Sorted({i \in Nat : a <= i /\ i < b})
            = [i \in 1..(IF a < b THEN b - a ELSE 0) |-> a + i - 1]
<1> DEFINE S == {i \in Nat : a <= i /\ i < b}
           n == IF a < b THEN b - a ELSE 0
           s == [i \in 1..n |-> a + i - 1]
<1>1. n \in Nat /\ Cardinality(S) = n
  <2>1. S = a..(b - 1)
    OBVIOUS
  <2>2. Cardinality(a..(b - 1)) = IF a > b - 1 THEN 0 ELSE (b - 1) - a + 1
    BY FS_Interval
  <2>3. n \in Nat /\ n = IF a > b - 1 THEN 0 ELSE (b - 1) - a + 1
    OBVIOUS
  <2> HIDE DEF S, n
  <2> QED
    BY <2>1, <2>2, <2>3
<1>2. SetToSeqs(S) = {f \in [1..n -> S] : \A i, j \in 1..n : i # j => f[i] # f[j]}
  BY <1>1 DEF SetToSeqs
<1>3. s \in SetToSeqs(S) /\ \A i, j \in DOMAIN s : i < j => s[i] < s[j]
  <2>1. s \in [1..n -> S]
    BY <1>1
  <2>2. \A i, j \in 1..n : i # j => s[i] # s[j]
    BY <1>1
  <2>3. DOMAIN s = 1..n /\ \A i, j \in 1..n : i < j => s[i] < s[j]
    BY <1>1
  <2> HIDE DEF s, n, S
  <2> QED
    BY <1>2, <2>1, <2>2, <2>3
<1>4. ASSUME NEW t \in SetToSeqs(S), \A i, j \in DOMAIN t : i < j => t[i] < t[j]
      PROVE  t = s
  <2>1. t \in [1..n -> S]
    BY <1>2
  <2>2. \A i, j \in 1..n : i < j => t[i] < t[j]
    BY <1>4, <2>1
  <2>3. \A i \in 1..n : t[i] \in Nat /\ a <= t[i] /\ t[i] < b
    BY <2>1
  <2> DEFINE Up == {k \in Nat : k # 0 => t[k] >= a + k - 1}
             Down == {k \in Nat : k < n => t[n - k] < b - k}
  <2> HIDE DEF S, s, n
  <2>4. \A k \in 0..n : k \in Up
    <3>1. 0 \in Up
      OBVIOUS
    <3>2. ASSUME NEW k \in Nat, k < n, k \in Up PROVE k + 1 \in Up
      <4>1. CASE k = 0
        BY <1>1, <2>3, <3>2, <4>1
      <4>2. CASE k # 0
        <5>1. k \in 1..n /\ k + 1 \in 1..n
          BY <1>1, <3>2, <4>2
        <5>2. t[k] < t[k + 1] /\ t[k] \in Nat /\ t[k + 1] \in Nat
          BY <2>2, <2>3, <5>1
        <5> QED
          BY <3>2, <4>2, <5>2
      <4> QED
        BY <4>1, <4>2
    <3> HIDE DEF Up
    <3> QED
      BY <1>1, <3>1, <3>2, SetInductionTo
  <2>5. \A k \in 0..n : k \in Down
    <3>1. 0 \in Down
      BY <1>1, <2>3
    <3>2. ASSUME NEW k \in Nat, k < n, k \in Down PROVE k + 1 \in Down
      <4> SUFFICES ASSUME k + 1 < n PROVE t[n - (k + 1)] < b - (k + 1)
        OBVIOUS
      <4>1. n - (k + 1) \in 1..n /\ n - k \in 1..n /\ n - (k + 1) < n - k
        BY <1>1
      <4>2. /\ t[n - (k + 1)] < t[n - k]
            /\ t[n - k] \in Nat /\ t[n - (k + 1)] \in Nat
        BY <2>2, <2>3, <4>1
      <4>3. t[n - k] < b - k
        BY <3>2
      <4> QED
        BY <4>2, <4>3
    <3> HIDE DEF Down
    <3> QED
      BY <1>1, <3>1, <3>2, SetInductionTo
  <2>6. ASSUME NEW i \in 1..n PROVE t[i] = a + i - 1
    <3>1. t[i] \in Nat /\ t[i] >= a + i - 1
      BY <2>3, <2>4
    <3>2. n - i \in 0..n /\ n - i < n /\ n - (n - i) = i
      BY <1>1
    <3>3. t[i] < b - (n - i)
      BY <2>5, <3>2
    <3>4. n = b - a
      BY <1>1 DEF n
    <3> QED
      BY <3>1, <3>3, <3>4
  <2> QED
    BY <2>1, <2>6 DEF s
<1> HIDE DEF s, S, n
<1>5. Sorted(S) = s
  <2> DEFINE InOrder(t) == \A i, j \in DOMAIN t : i < j => t[i] < t[j]
  <2>1. Sorted(S) = CHOOSE t \in SetToSeqs(S) : InOrder(t)
    BY DEF Sorted
  <2>2. InOrder(s) /\ s \in SetToSeqs(S)
    BY <1>3
  <2>3. \A t \in SetToSeqs(S) : InOrder(t) => t = s
    BY <1>4
  <2> HIDE DEF InOrder
  <2> QED
    BY <2>1, <2>2, <2>3
<1> QED
  BY <1>5 DEF S, s, n

\* The blocks from index a on, before b.
Stretch(s, a, b) ==
    /\ s \in Seq(Nat) /\ Len(s) = b - a
    /\ \A i \in 1..Len(s) : s[i] = a + i - 1

\* What the loop has at any time, when the node's chain had `first` blocks at the
\* first request and may have filled its pages: the blocks from the start to its cursor,
\* unless it failed.
Loops(start, end, first, filled) ==
    {loop \in [blocks : Seq(Nat), cursor : Nat, state : {"reading", "done", "failed"}] :
        /\ Stretch(loop.blocks, start, loop.cursor)
        /\ start <= loop.cursor /\ loop.cursor <= end
        /\ loop.state = "reading" => loop.cursor < end
        /\ loop.state = "done" /\ filled => loop.cursor = end \/ first <= loop.cursor}

\* What one page adds: the blocks from the cursor on, as far as the page, the chain
\* and the range go.
Adds(step, cursor, end, full, length) ==
    /\ step.cursor \in Nat /\ cursor <= step.cursor
    /\ step.cursor = cursor \/ step.cursor <= end
    /\ end <= step.cursor \/ length <= step.cursor \/ full <= step.cursor
    /\ Stretch(step.blocks, cursor, step.cursor)

LEMMA PageAdds ==
  ASSUME NEW cursor \in Nat, NEW end \in Nat, NEW from \in Nat, NEW length \in Nat,
         NEW size \in Nat, from <= cursor,
         NEW page, page = {i \in from..(from + size - 1) : i < length}
  PROVE  Adds(Collect(page, cursor, end), cursor, end, from + size, length)
<1> DEFINE step == Collect(page, cursor, end)
           taken == {i \in page : cursor <= i /\ i < end}
           full == from + size
           m == IF full <= length THEN (IF full <= end THEN full ELSE end)
                ELSE (IF length <= end THEN length ELSE end)
<1>1. m \in Nat /\ full \in Nat
  OBVIOUS
<1>2. taken = {i \in Nat : cursor <= i /\ i < m}
  OBVIOUS
<1>3. step.blocks = Sorted(taken)
  BY DEF Collect
<1>4. step.cursor = IF taken = {} THEN cursor ELSE Max(taken) + 1
  BY DEF Collect
<1>5. /\ m <= full /\ m <= length /\ m <= end
      /\ m = full \/ m = length \/ m = end
  OBVIOUS
<1> HIDE DEF step, m, taken, full
<1>6. ASSUME cursor < m PROVE Adds(step, cursor, end, full, length)
  <2>1. m - 1 \in taken /\ \A i \in taken : i <= m - 1 /\ i \in Nat
    BY <1>1, <1>2, <1>6
  <2>2. Max(taken) = m - 1
    <3>1. \A x \in taken : (\A y \in taken : x >= y) => x = m - 1
      BY <2>1, <1>1
    <3>2. \A y \in taken : m - 1 >= y
      BY <2>1, <1>1
    <3> DEFINE Greatest(x) == x \in taken /\ \A y \in taken : x >= y
    <3>3. Greatest(m - 1) /\ \A x : Greatest(x) => x = m - 1
      BY <2>1, <3>1, <3>2
    <3>4. Max(taken) = CHOOSE x : Greatest(x)
      BY Zenon DEF Max
    <3> HIDE DEF Greatest
    <3> QED
      BY Zenon, <3>3, <3>4
  <2>3. step.cursor = m
    BY <1>1, <1>4, <2>1, <2>2
  <2>4. step.blocks = [i \in 1..(m - cursor) |-> cursor + i - 1]
    BY <1>1, <1>2, <1>3, <1>6, SortedInterval
  <2>5. Stretch(step.blocks, cursor, step.cursor)
    <3> DEFINE n == m - cursor
               run == [i \in 1..n |-> cursor + i - 1]
    <3>1. n \in Nat
      BY <1>1, <1>6
    <3>2. step.blocks = run
      BY <2>4
    <3> HIDE DEF n
    <3>3. /\ run \in Seq(Nat) /\ Len(run) = n
          /\ \A i \in 1..n : run[i] = cursor + i - 1
      BY <3>1
    <3> HIDE DEF run
    <3>4. Stretch(run, cursor, m)
      BY <3>3 DEF Stretch, n
    <3> QED
      BY Zenon, <2>3, <3>2, <3>4
  <2> QED
    BY <1>1, <1>5, <1>6, <2>3, <2>5 DEF Adds
<1>7. ASSUME ~(cursor < m) PROVE Adds(step, cursor, end, full, length)
  <2>1. taken = {}
    BY <1>1, <1>2, <1>7
  <2>2. step.cursor = cursor
    BY <1>4, <2>1
  <2>3. step.blocks = [i \in 1..0 |-> cursor + i - 1]
    BY <1>1, <1>2, <1>3, <1>7, SortedInterval
  <2>4. step.blocks = <<>>
    BY <2>3
  <2>5. Stretch(step.blocks, cursor, step.cursor)
    BY <2>2, <2>4 DEF Stretch
  <2> QED
    BY <1>1, <1>5, <1>7, <2>2, <2>5 DEF Adds
<1>8. Adds(step, cursor, end, full, length)
  BY <1>6, <1>7
<1> QED
  BY <1>8 DEF step, full

\* The lengths of a chain that grows between the requests, some of which may fail.
Growing(lengths) ==
    /\ lengths \in [1..3 -> Nat \cup {Fails}]
    /\ lengths[1] \in Nat
    /\ \A i \in 1..3 : lengths[i] # Fails => lengths[1] <= lengths[i]

\* A node with such a chain.
Answers(node) ==
    /\ Growing(node.lengths) /\ node.sizes \in [1..3 -> 1..PageSize] /\ node.back \in Nat

Filled(node) == \A k \in DOMAIN node.sizes : node.sizes[k] = PageSize

\* What is known of a page that answers a request.
Answered(node, cursor, page, length, from, size) ==
    /\ node.lengths[1] <= length /\ from <= cursor
    /\ node.back < PageSize => cursor < from + PageSize
    /\ Filled(node) => size = PageSize
    /\ page = {i \in from..(from + size - 1) : i < length}

LEMMA PageOf ==
  ASSUME NEW node, Answers(node), NEW k \in Nat \ {0}, NEW cursor \in Nat,
         Page(node, k, cursor) # Fails
  PROVE  \E length, from \in Nat, size \in 1..PageSize :
            Answered(node, cursor, Page(node, k, cursor), length, from, size)
<1> DEFINE lengths == node.lengths
           sizes == node.sizes
           at == Min({k, 3})
           length == lengths[at]
           size == sizes[at]
           from == IF node.back > cursor THEN 0 ELSE cursor - node.back
<1>0. PageSize \in Nat \ {0} /\ node.back \in Nat
  BY PageAssumption DEF Answers
<1>1. Len(lengths) = 3 /\ Len(sizes) = 3 /\ DOMAIN sizes = 1..3
  BY DEF Answers, Growing
<1>2. at \in 1..3
  <2>1. \E x \in {k, 3} : \A y \in {k, 3} : x <= y
    OBVIOUS
  <2>2. at \in {k, 3} /\ \A y \in {k, 3} : at <= y
    BY <2>1 DEF Min
  <2> QED
    BY <2>2
<1>3. Page(node, k, cursor) = IF length = Fails THEN Fails
                              ELSE {i \in from..(from + size - 1) : i < length}
  BY <1>1 DEF Page, At
<1> HIDE DEF at
<1>4. length \in Nat /\ lengths[1] <= length
  BY <1>2, <1>3 DEF Growing, Answers
<1>5. size \in 1..PageSize /\ (Filled(node) => size = PageSize)
  BY <1>1, <1>2 DEF Answers, Filled
<1>6. from \in Nat /\ from <= cursor /\ (node.back < PageSize => cursor < from + PageSize)
  BY <1>0
<1>7. Answered(node, cursor, Page(node, k, cursor), length, from, size)
  BY <1>3, <1>4, <1>5, <1>6, PageAssumption DEF Answered
<1> HIDE DEF lengths, length, size, from
<1> QED
  BY <1>4, <1>5, <1>6, <1>7

LEMMA StretchesJoin ==
  ASSUME NEW a \in Nat, NEW b \in Nat, NEW c \in Nat, NEW s, NEW t,
         Stretch(s, a, b), Stretch(t, b, c)
  PROVE  Stretch(s \o t, a, c)
<1>1. /\ s \in Seq(Nat) /\ Len(s) = b - a /\ Len(s) \in Nat
      /\ t \in Seq(Nat) /\ Len(t) = c - b /\ Len(t) \in Nat
      /\ \A i \in 1..Len(s) : s[i] = a + i - 1
      /\ \A i \in 1..Len(t) : t[i] = b + i - 1
  BY DEF Stretch
<1>2. /\ s \o t \in Seq(Nat) /\ Len(s \o t) = Len(s) + Len(t)
      /\ \A i \in 1..Len(s) : (s \o t)[i] = s[i]
      /\ \A i \in (Len(s) + 1)..(Len(s) + Len(t)) : (s \o t)[i] = t[i - Len(s)]
  <2>1. s \in Seq(Nat) /\ t \in Seq(Nat)
    BY <1>1
  <2> QED
    BY <2>1
<1>3. ASSUME NEW i \in 1..Len(s \o t) PROVE (s \o t)[i] = a + i - 1
  <2>1. CASE i <= Len(s)
    <3>1. i \in 1..Len(s)
      BY <1>1, <2>1
    <3> QED
      BY <1>1, <1>2, <3>1
  <2>2. CASE i > Len(s)
    <3>1. i \in (Len(s) + 1)..(Len(s) + Len(t)) /\ i - Len(s) \in 1..Len(t)
      BY <1>1, <1>2, <2>2
    <3>2. (s \o t)[i] = b + (i - Len(s)) - 1
      BY <1>1, <1>2, <3>1
    <3> QED
      BY <1>1, <3>2
  <2> QED
    BY <1>1, <2>1, <2>2
<1>4. Len(s \o t) = c - a
  BY <1>1, <1>2
<1> QED
  BY <1>2, <1>3, <1>4 DEF Stretch

LEMMA RoundKeeps ==
  ASSUME NEW node, Answers(node), NEW start \in Nat, NEW end \in Nat, NEW k \in Nat \ {0},
         NEW loop \in Loops(start, end, node.lengths[1], Filled(node))
  PROVE  LET next == Round(node, end, k, loop) IN
         /\ next \in Loops(start, end, node.lengths[1], Filled(node))
         /\ next.state = "reading" /\ node.back < PageSize =>
               loop.state = "reading" /\ loop.cursor < next.cursor
<1> DEFINE next == Round(node, end, k, loop)
           page == Page(node, k, loop.cursor)
<1>1. CASE loop.state # "reading"
  BY <1>1 DEF Round
<1>2. CASE loop.state = "reading" /\ page = Fails
  <2>1. next = [loop EXCEPT !.state = "failed"]
    BY <1>2 DEF Round, ReadPage
  <2>2. loop \in [blocks : Seq(Nat), cursor : Nat, state : {"reading", "done", "failed"}]
    BY DEF Loops
  <2>3. /\ next \in [blocks : Seq(Nat), cursor : Nat, state : {"reading", "done", "failed"}]
        /\ next.blocks = loop.blocks /\ next.cursor = loop.cursor /\ next.state = "failed"
    BY <2>1, <2>2
  <2> HIDE DEF next
  <2>4. next \in Loops(start, end, node.lengths[1], Filled(node))
    BY <2>3 DEF Loops
  <2> QED
    BY <2>3, <2>4 DEF next
<1>3. ASSUME loop.state = "reading", page # Fails
      PROVE  /\ next \in Loops(start, end, node.lengths[1], Filled(node))
             /\ next.state = "reading" /\ node.back < PageSize => loop.cursor < next.cursor
  <2> DEFINE cursor == loop.cursor
             step == Collect(page, cursor, end)
  <2>1. /\ Stretch(loop.blocks, start, cursor)
        /\ cursor \in Nat /\ start <= cursor /\ cursor < end
    BY <1>3 DEF Loops
  <2>2. PICK length \in Nat, from \in Nat, size \in 1..PageSize :
           /\ node.lengths[1] <= length /\ from <= cursor
           /\ node.back < PageSize => cursor < from + PageSize
           /\ Filled(node) => size = PageSize
           /\ page = {i \in from..(from + size - 1) : i < length}
    <3>1. cursor \in Nat /\ Page(node, k, cursor) # Fails /\ page = Page(node, k, cursor)
      BY <1>3, <2>1
    <3> HIDE DEF cursor, page
    <3>2. \E length, from \in Nat, size \in 1..PageSize :
             Answered(node, cursor, Page(node, k, cursor), length, from, size)
      BY <3>1, PageOf
    <3> QED
      BY Zenon, <3>1, <3>2 DEF Answered
  <2>15. size \in Nat
    BY PageAssumption
  <2>3. Adds(step, cursor, end, from + size, length)
    BY <2>1, <2>2, <2>15, PageAdds
  <2>4. next = [blocks |-> loop.blocks \o step.blocks, cursor |-> step.cursor,
                state |-> IF Cardinality(page) = PageSize /\ step.cursor < end
                          THEN "reading" ELSE "done"]
    BY <1>3 DEF Round, ReadPage
  <2>5. Cardinality(page) = PageSize <=> size = PageSize /\ from + size <= length
    <3>0. PageSize \in Nat \ {0} /\ size \in 1..PageSize
      BY PageAssumption
    <3> DEFINE last == IF from + size <= length THEN from + size - 1 ELSE length - 1
    <3>1. page = from..last /\ last \in Int
      BY <2>2, <3>0
    <3>2. Cardinality(page) = IF from > last THEN 0 ELSE last - from + 1
      <4> HIDE DEF page, last
      <4> QED
        BY <3>1, FS_Interval
    <3> HIDE DEF page
    <3>3. CASE from + size <= length
      <4>1. last = from + size - 1
        BY <3>3
      <4> HIDE DEF last
      <4> QED
        BY <3>0, <3>2, <3>3, <4>1
    <3>4. CASE ~(from + size <= length)
      <4>1. last = length - 1
        BY <3>4
      <4> HIDE DEF last
      <4> QED
        BY <3>0, <3>2, <3>4, <4>1
    <3> QED
      BY <3>3, <3>4
  <2> HIDE DEF next, page, step, cursor
  <2>6. /\ step.cursor \in Nat /\ cursor <= step.cursor /\ step.cursor <= end
        /\ end <= step.cursor \/ length <= step.cursor \/ from + size <= step.cursor
        /\ Stretch(step.blocks, cursor, step.cursor)
    BY <2>1, <2>3 DEF Adds
  <2>7. Stretch(loop.blocks \o step.blocks, start, step.cursor)
    BY <2>1, <2>6, StretchesJoin
  <2>8. /\ next.blocks = loop.blocks \o step.blocks
        /\ next.cursor = step.cursor
        /\ next.state = IF Cardinality(page) = PageSize /\ step.cursor < end
                        THEN "reading" ELSE "done"
    BY <2>4
  <2>9. next \in [blocks : Seq(Nat), cursor : Nat, state : {"reading", "done", "failed"}]
    <3>1. loop.blocks \o step.blocks \in Seq(Nat)
      BY <2>7 DEF Stretch
    <3> QED
      BY <2>4, <2>6, <3>1
  <2>10. PageSize \in Nat \ {0} /\ node.lengths[1] \in Nat /\ size \in Nat
    BY PageAssumption DEF Growing, Answers
  <2>14. next.state = "reading" => next.cursor < end
    BY <2>8
  <2>11. next.state = "reading" /\ node.back < PageSize => cursor < next.cursor
    <3> SUFFICES ASSUME next.state = "reading", node.back < PageSize
                 PROVE  cursor < step.cursor
      BY <2>8
    <3>1. size = PageSize /\ from + size <= length /\ step.cursor < end
      BY <2>5, <2>8
    <3> QED
      BY <2>1, <2>2, <2>6, <2>10, <3>1
  <2>12. next.state = "done" /\ Filled(node) =>
            next.cursor = end \/ node.lengths[1] <= next.cursor
    <3> SUFFICES ASSUME next.state = "done", Filled(node)
                 PROVE  step.cursor = end \/ node.lengths[1] <= step.cursor
      BY <2>8
    <3>1. ~(from + size <= length) \/ ~(step.cursor < end)
      BY <2>2, <2>5, <2>8
    <3> QED
      BY <2>2, <2>6, <2>10, <3>1
  <2>13. start <= next.cursor /\ next.cursor <= end
    BY <2>1, <2>6, <2>8
  <2> QED
    BY <2>7, <2>8, <2>9, <2>11, <2>12, <2>13, <2>14 DEF Loops, cursor
<1> QED
  BY <1>1, <1>2, <1>3

LEMMA PagesDef ==
  ASSUME NEW node, Answers(node), NEW start \in Nat, NEW count \in Nat
  PROVE  LET loop == Pages(node, start, count) IN
         /\ loop[0] = [blocks |-> <<>>, cursor |-> start,
                       state |-> IF start < start + count THEN "reading" ELSE "done"]
         /\ loop[0] \in Loops(start, start + count, node.lengths[1], Filled(node))
         /\ \A k \in 1..(count + 3) : loop[k] = Round(node, start + count, k, loop[k - 1])
<1> DEFINE end == start + count
           rounds == count + 3
           V == Loops(start, end, node.lengths[1], Filled(node))
           F == [k \in 1..rounds |-> [v \in V |-> Round(node, end, k, v)]]
           v0 == [blocks |-> <<>>, cursor |-> start,
                  state |-> IF start < end THEN "reading" ELSE "done"]
           loop == Pages(node, start, count)
<1>1. v0 \in V
  <2>1. v0 \in [blocks : Seq(Nat), cursor : Nat, state : {"reading", "done", "failed"}]
    OBVIOUS
  <2>2. Stretch(<<>>, start, start)
    BY DEF Stretch
  <2>3. end \in Nat /\ start <= end
    OBVIOUS
  <2>4. v0.blocks = <<>> /\ v0.cursor = start
        /\ v0.state = IF start < end THEN "reading" ELSE "done"
    OBVIOUS
  <2> HIDE DEF v0, end
  <2> QED
    BY <2>1, <2>2, <2>3, <2>4 DEF Loops
<1>2. \A k \in 1..rounds, v \in V : Round(node, end, k, v) \in V
  <2>1. end \in Nat
    OBVIOUS
  <2> SUFFICES ASSUME NEW k \in 1..rounds, NEW v \in V
               PROVE  Round(node, end, k, v) \in V
    OBVIOUS
  <2>2. k \in Nat \ {0}
    OBVIOUS
  <2> HIDE DEF end
  <2> QED
    BY <2>1, <2>2, RoundKeeps
<1>3. F \in [1..rounds -> [V -> V]]
  BY <1>2
<1>4. \E g : IsRun(g, V, F, v0, rounds)
  <2>1. rounds \in Nat
    OBVIOUS
  <2> HIDE DEF V, F, v0, rounds
  <2> QED
    BY <1>1, <1>3, <2>1, RunExists
<1> PICK g : IsRun(g, V, F, v0, rounds)
  BY <1>4
<1>5. g = [k \in 0..rounds |-> IF k = 0 THEN v0 ELSE Round(node, end, k, g[k - 1])]
  <2>1. g \in [0..rounds -> V] /\ g[0] = v0 /\ \A k \in 1..rounds : g[k] = F[k][g[k - 1]]
    BY DEF IsRun
  <2>2. ASSUME NEW k \in 1..rounds PROVE g[k] = Round(node, end, k, g[k - 1])
    <3>1. k - 1 \in 0..rounds
      OBVIOUS
    <3>2. g[k - 1] \in V
      BY <2>1, <3>1
    <3>3. F[k][g[k - 1]] = Round(node, end, k, g[k - 1])
      BY <3>2
    <3> QED
      BY <2>1, <3>3
  <2>3. \A k \in 0..rounds : k # 0 => k \in 1..rounds
    OBVIOUS
  <2> HIDE DEF V, F, v0, end
  <2> QED
    BY <2>1, <2>2, <2>3
<1>10. Len(node.lengths) = 3
  BY DEF Answers, Growing
<1>6. loop = CHOOSE f : f = [k \in 0..rounds |-> IF k = 0 THEN v0
                                               ELSE Round(node, end, k, f[k - 1])]
  BY Zenon, <1>10 DEF Pages
<1>11. rounds \in Nat
  OBVIOUS
<1> HIDE DEF V, F, v0, end, loop, rounds
<1>7. loop = [k \in 0..rounds |-> IF k = 0 THEN v0
                                 ELSE Round(node, end, k, loop[k - 1])]
  BY <1>5, <1>6
<1>8. 0 \in 0..rounds /\ \A k \in 1..rounds : k \in 0..rounds /\ k # 0
  BY <1>11
<1>9. loop[0] = v0 /\ \A k \in 1..rounds : loop[k] = Round(node, end, k, loop[k - 1])
  BY <1>7, <1>8
<1> QED
  BY <1>1, <1>9 DEF loop, v0, V, end, rounds

LEMMA PagesKeep ==
  ASSUME NEW node, Answers(node), NEW start \in Nat, NEW count \in Nat, NEW n \in 0..(count + 3)
  PROVE  LET loop == Pages(node, start, count) IN
         /\ loop[n] \in Loops(start, start + count, node.lengths[1], Filled(node))
         /\ loop[n].state = "reading" /\ node.back < PageSize => start + n <= loop[n].cursor
<1> DEFINE loop == Pages(node, start, count)
           V == Loops(start, start + count, node.lengths[1], Filled(node))
           S == {k \in 0..(count + 3) :
                     /\ loop[k] \in V
                     /\ loop[k].state = "reading" /\ node.back < PageSize =>
                           start + k <= loop[k].cursor}
<1>1. /\ loop[0] = [blocks |-> <<>>, cursor |-> start,
                    state |-> IF start < start + count THEN "reading" ELSE "done"]
      /\ loop[0] \in V
      /\ \A k \in 1..(count + 3) : loop[k] = Round(node, start + count, k, loop[k - 1])
  BY PagesDef
<1> HIDE DEF loop, V
<1>2. 0 \in S
  BY <1>1
<1>3. ASSUME NEW k \in Nat, k < count + 3, k \in S PROVE k + 1 \in S
  <2>1. k + 1 \in 0..(count + 3) /\ k + 1 \in Nat \ {0} /\ start + count \in Nat /\ (k + 1) - 1 = k
    BY <1>3
  <2>2. loop[k + 1] = Round(node, start + count, k + 1, loop[k])
    BY <1>1, <2>1
  <2>3. loop[k] \in V
    BY <1>3
  <2>4. /\ loop[k + 1] \in V
        /\ loop[k + 1].state = "reading" /\ node.back < PageSize =>
              loop[k].state = "reading" /\ loop[k].cursor < loop[k + 1].cursor
    BY <2>1, <2>2, <2>3, RoundKeeps DEF V
  <2>5. loop[k].cursor \in Nat /\ loop[k + 1].cursor \in Nat
    BY <2>3, <2>4 DEF V, Loops
  <2>6. loop[k + 1].state = "reading" /\ node.back < PageSize => start + (k + 1) <= loop[k + 1].cursor
    <3> SUFFICES ASSUME loop[k + 1].state = "reading", node.back < PageSize
                 PROVE  start + (k + 1) <= loop[k + 1].cursor
      OBVIOUS
    <3>1. start + k <= loop[k].cursor /\ loop[k].cursor < loop[k + 1].cursor
      BY <1>3, <2>4
    <3> QED
      BY <2>5, <3>1
  <2> QED
    BY <2>1, <2>4, <2>6
<1> HIDE DEF S
<1>4. \A k \in 0..(count + 3) : k \in S
  BY <1>2, <1>3, SetInductionTo
<1>5. n \in S
  BY <1>4
<1> QED
  BY <1>5 DEF S, V, loop

\* What get_chain_segment returns.
LEMMA SegmentReturned ==
  ASSUME NEW node, Answers(node), NEW start \in Nat, NEW count \in Nat
  PROVE  LET loop == get_chain_segment(node, start, count) IN
         /\ node.back < PageSize => loop.state # "reading"
         /\ loop.state = "done" =>
               /\ \A i \in DOMAIN loop.blocks : loop.blocks[i] = start + i - 1
               /\ Len(loop.blocks) <= count
               /\ Filled(node) => start + Len(loop.blocks)
                                     >= Min({start + count, Max({start, node.lengths[1]})})
<1> DEFINE loop == get_chain_segment(node, start, count)
           end == start + count
<1>1. /\ loop \in Loops(start, end, node.lengths[1], Filled(node))
      /\ loop.state = "reading" /\ node.back < PageSize => start + (count + 3) <= loop.cursor
  <2>1. count + 3 \in 0..(count + 3)
    OBVIOUS
  <2>3. Len(node.lengths) = 3
    BY DEF Answers, Growing
  <2>2. loop = Pages(node, start, count)[count + 3]
    BY <2>3 DEF get_chain_segment
  <2> HIDE DEF loop
  <2> QED
    BY <2>1, <2>2, PagesKeep
<1> HIDE DEF loop
<1>2. /\ Stretch(loop.blocks, start, loop.cursor)
      /\ loop.cursor \in Nat /\ start <= loop.cursor /\ loop.cursor <= end
      /\ loop.state = "reading" => loop.cursor < end
      /\ loop.state = "done" /\ Filled(node) => loop.cursor = end \/ node.lengths[1] <= loop.cursor
  BY <1>1 DEF Loops
<1>3. node.back < PageSize => loop.state # "reading"
  BY <1>1, <1>2
<1>4. ASSUME loop.state = "done"
      PROVE  /\ \A i \in DOMAIN loop.blocks : loop.blocks[i] = start + i - 1
             /\ Len(loop.blocks) <= count
             /\ Filled(node) => start + Len(loop.blocks)
                                   >= Min({end, Max({start, node.lengths[1]})})
  <2>1. /\ Len(loop.blocks) = loop.cursor - start
        /\ \A i \in 1..Len(loop.blocks) : loop.blocks[i] = start + i - 1
        /\ DOMAIN loop.blocks = 1..Len(loop.blocks)
    BY <1>2 DEF Stretch
  <2> DEFINE first == node.lengths[1]
             asked == Max({start, first})
             reached == Min({end, asked})
  <2>2. first \in Nat /\ end \in Nat /\ start <= end
    BY DEF Growing, Answers
  <2>3. asked \in {start, first} /\ start <= asked /\ first <= asked
    <3>1. \E x \in {start, first} : \A y \in {start, first} : x >= y
      BY <2>2
    <3> QED
      BY <2>2, <3>1 DEF Max
  <2>4. reached <= end /\ reached <= asked
    <3>1. \E x \in {end, asked} : \A y \in {end, asked} : x <= y
      BY <2>2, <2>3
    <3> QED
      BY <2>2, <2>3, <3>1 DEF Min
  <2>5. reached \in Nat
    <3>1. \E x \in {end, asked} : \A y \in {end, asked} : x <= y
      BY <2>2, <2>3
    <3> QED
      BY <2>2, <2>3, <3>1 DEF Min
  <2>6. asked = start \/ asked = first
    BY <2>3
  <2> HIDE DEF first, asked, reached, end
  <2>7. Filled(node) => reached <= loop.cursor
    BY <1>2, <1>4, <2>2, <2>4, <2>5, <2>6 DEF first
  <2>8. Len(loop.blocks) <= count
    BY <1>2, <2>1 DEF end
  <2>9. start + Len(loop.blocks) = loop.cursor
    BY <1>2, <2>1
  <2> QED
    BY <1>2, <2>1, <2>5, <2>7, <2>8, <2>9 DEF reached, asked, first
<1> QED
  BY <1>3, <1>4 DEF loop

-----------------------------------------------------------------------------
(* Actions. *)

\* A text is put together from its letter, the id and the field of a payload.
Parts(raw, c, id, field) ==
    /\ raw # <<>> /\ raw[1] = c /\ Len(raw) = 1 + Len(id) + Len(field)
    /\ Tail(raw) = id \o field
    /\ SubSeq(raw, 2, Len(id) + 1) = id
    /\ SubSeq(raw, Len(id) + 2, Len(raw)) = field

LEMMA TextParts ==
  ASSUME NEW S, NEW c \in S, NEW id \in Seq(S), NEW field \in Seq(S)
  PROVE  Parts(<< c >> \o id \o field, c, id, field)
<1> DEFINE raw == << c >> \o id \o field
<1>1. /\ << c >> \in Seq(S) /\ Len(<< c >>) = 1 /\ Len(id) \in Nat /\ Len(field) \in Nat
      /\ id \o field \in Seq(S)
  OBVIOUS
<1>2. << c >> \o id \in Seq(S)
  BY <1>1
<1>3. /\ raw \in Seq(S) /\ Len(raw) = 1 + Len(id) + Len(field)
      /\ raw[1] = c
      /\ \A i \in 1..Len(id) : raw[i + 1] = id[i]
      /\ \A i \in 1..Len(field) : raw[i + 1 + Len(id)] = field[i]
  BY <1>1, <1>2
<1>4. raw # <<>>
  BY <1>1, <1>3
<1>5. Tail(raw) = id \o field
  <2>1. /\ Tail(raw) \in Seq(S) /\ Len(Tail(raw)) = Len(id) + Len(field)
        /\ \A i \in 1..(Len(id) + Len(field)) : Tail(raw)[i] = raw[i + 1]
    BY <1>1, <1>3, <1>4
  <2>2. /\ Len(id \o field) = Len(id) + Len(field)
        /\ \A i \in 1..Len(id) : (id \o field)[i] = id[i]
        /\ \A i \in 1..Len(field) : (id \o field)[i + Len(id)] = field[i]
    BY <1>1
  <2>3. ASSUME NEW i \in 1..(Len(id) + Len(field)) PROVE Tail(raw)[i] = (id \o field)[i]
    <3>1. CASE i <= Len(id)
      BY <1>1, <1>3, <2>1, <2>2, <3>1
    <3>2. CASE i > Len(id)
      <4> DEFINE j == i - Len(id)
      <4>1. j \in 1..Len(field) /\ i = j + Len(id) /\ i + 1 = j + 1 + Len(id)
        BY <1>1, <3>2
      <4> HIDE DEF j
      <4> QED
        BY <1>3, <2>1, <2>2, <4>1
    <3> QED
      BY <1>1, <3>1, <3>2
  <2> QED
    BY <1>1, <2>1, <2>2, <2>3, SeqEqual
<1>6. SubSeq(raw, 2, Len(id) + 1) = id
  <2>1. /\ SubSeq(raw, 2, Len(id) + 1) \in Seq(S)
        /\ Len(SubSeq(raw, 2, Len(id) + 1)) = Len(id)
        /\ \A i \in 1..Len(id) : SubSeq(raw, 2, Len(id) + 1)[i] = raw[i + 1]
    BY <1>1, <1>3, SubSeqProperties
  <2> QED
    BY <1>1, <1>3, <2>1, SeqEqual
<1>7. SubSeq(raw, Len(id) + 2, Len(raw)) = field
  <2> DEFINE rest == SubSeq(raw, Len(id) + 2, Len(raw))
  <2>1. /\ rest \in Seq(S)
        /\ Len(rest) = Len(field)
        /\ \A i \in 1..Len(field) : rest[i] = raw[i + 1 + Len(id)]
    BY <1>1, <1>3, SubSeqProperties
  <2> HIDE DEF rest
  <2>2. \A i \in 1..Len(field) : rest[i] = field[i]
    BY <1>3, <2>1
  <2>3. rest = field
    BY <2>1, <2>2, SeqEqual
  <2> QED
    BY <2>3 DEF rest
<1> QED
  BY <1>3, <1>4, <1>5, <1>6, <1>7 DEF Parts

LEMMA BuiltIsRead ==
  ASSUME NEW a, IsBuilt(a)
  PROVE  decode_action(encode(a)) = a /\ encode(a)[1] # "G"
<1> DEFINE c == action_type_to_char(a.type)
           S == STRING \cup {c, Field(a.payload[1])}
           field == IF a.payload = None THEN <<>> ELSE << Field(a.payload[1]) >>
           raw == encode(a)
<1>1. /\ a.type \in {"SET", "MOVE", "DELETE", "COMMIT_TAG"}
      /\ c \in S /\ c # "G"
  <2>1. a.type \in {"SET", "MOVE", "DELETE", "COMMIT_TAG"}
    BY DEF IsBuilt
  <2>2. c # "G"
    BY <2>1 DEF action_type_to_char
  <2> QED
    BY <2>1, <2>2
<1>2. a.element_id \in Seq(S) /\ Len(a.element_id) \in Nat
  <2>1. a.element_id \in Seq(STRING)
    BY DEF IsBuilt
  <2> QED
    BY <2>1
<1>3. field \in Seq(S)
  <2>1. Field(a.payload[1]) \in S
    OBVIOUS
  <2> HIDE DEF S
  <2>2. <<>> \in Seq(S) /\ << Field(a.payload[1]) >> \in Seq(S)
    BY <2>1
  <2> QED
    BY <2>2
<1>4. raw = << c >> \o a.element_id \o field
  BY DEF encode
<1>5. /\ Len(field) \in Nat
      /\ a.payload = None => field = <<>> /\ Len(field) = 0
      /\ a.payload # None => /\ Len(field) = 1 /\ Decoded(field) = a.payload[1]
                             /\ a.payload = Some(a.payload[1])
  BY DEF Field, Decoded, IsBuilt
<1>6. a = [type |-> a.type, element_id |-> a.element_id, payload |-> a.payload]
  BY DEF IsBuilt
<1> HIDE DEF S, field, raw, c
<1>7. /\ raw # <<>> /\ raw[1] = c /\ Len(raw) = 1 + Len(a.element_id) + Len(field)
      /\ Tail(raw) = a.element_id \o field
      /\ SubSeq(raw, 2, Len(a.element_id) + 1) = a.element_id
      /\ SubSeq(raw, Len(a.element_id) + 2, Len(raw)) = field
  <2>1. Parts(<< c >> \o a.element_id \o field, c, a.element_id, field)
    BY <1>1, <1>2, <1>3, TextParts
  <2> QED
    BY <1>4, <2>1, Zenon DEF Parts
<1>8. CASE a.type \in {"SET", "MOVE"}
  <2>1. /\ Len(a.element_id) = IdLength /\ a.payload # None
    BY <1>8 DEF IsBuilt
  <2>2. /\ c \in {"S", "M"} /\ (IF c = "S" THEN "SET" ELSE "MOVE") = a.type
    BY <1>8 DEF action_type_to_char, c
  <2>3. Len(raw) > 1 + IdLength /\ Len(raw) > 1
    BY <1>2, <1>5, <1>7, <2>1
  <2>4. /\ SubSeq(raw, 2, IdLength + 1) = a.element_id
        /\ Decoded(SubSeq(raw, IdLength + 2, Len(raw))) = a.payload[1]
    BY <1>5, <1>7, <2>1
  <2>5. decode_action(raw) =
           [type |-> IF raw[1] = "S" THEN "SET" ELSE "MOVE",
            element_id |-> SubSeq(raw, 2, IdLength + 1),
            payload |-> Some(Decoded(SubSeq(raw, IdLength + 2, Len(raw))))]
    BY <1>7, <2>2, <2>3 DEF decode_action
  <2> QED
    BY <1>1, <1>5, <1>6, <1>7, <2>1, <2>2, <2>4, <2>5 DEF raw
<1>9. CASE a.type = "DELETE"
  <2>1. a.payload = None /\ field = <<>>
    BY <1>5, <1>9 DEF IsBuilt
  <2>2. raw[1] = "D"
    BY <1>7, <1>9 DEF action_type_to_char, c
  <2>3. Tail(raw) = a.element_id
    BY <1>2, <1>7, <2>1
  <2>4. decode_action(raw) = [type |-> "DELETE", element_id |-> Tail(raw), payload |-> None]
    BY <1>7, <2>2 DEF decode_action
  <2> QED
    BY <1>1, <1>6, <1>7, <1>9, <2>1, <2>3, <2>4 DEF raw
<1>10. CASE a.type = "COMMIT_TAG"
  <2>1. a.element_id = <<>>
    BY <1>10 DEF IsBuilt
  <2>2. raw[1] = "T"
    BY <1>7, <1>10 DEF action_type_to_char, c
  <2>3. Tail(raw) = field /\ Len(raw) = 1 + Len(field)
    BY <1>3, <1>5, <1>7, <2>1
  <2>4. decode_action(raw) =
           [type |-> "COMMIT_TAG", element_id |-> <<>>,
            payload |-> IF Len(raw) > 1 THEN Some(Decoded(Tail(raw))) ELSE None]
    BY <1>7, <2>2 DEF decode_action
  <2>5. (IF Len(raw) > 1 THEN Some(Decoded(Tail(raw))) ELSE None) = a.payload
    <3>1. CASE a.payload = None
      <4>1. ~(Len(raw) > 1)
        BY <1>5, <2>3, <3>1
      <4> QED
        BY <3>1, <4>1
    <3>2. CASE a.payload # None
      <4>1. Len(raw) > 1 /\ Decoded(Tail(raw)) = a.payload[1]
        <5>1. Len(raw) > 1
          BY <1>5, <2>3, <3>2
        <5>2. Decoded(Tail(raw)) = a.payload[1]
          BY <1>5, <2>3, <3>2, Zenon
        <5> QED
          BY <5>1, <5>2
      <4> QED
        BY <1>5, <3>2, <4>1
    <3> QED
      BY <3>1, <3>2
  <2> QED
    BY <1>1, <1>6, <1>7, <1>10, <2>1, <2>4, <2>5 DEF raw
<1> QED
  BY <1>1, <1>8, <1>9, <1>10

\* A group within the limit is read as the actions that were put in it.
LEMMA GroupIsRead ==
  ASSUME NEW A, \A a \in A : IsBuilt(a), NEW s \in Seq(A), Len(s) <= MaxGroupActions
  PROVE  ActionsOf(encode(build_group_action(s))) = s
<1> DEFINE texts == [i \in DOMAIN s |-> encode(s[i])]
           raw == encode(build_group_action(s))
           S == {"G", Field(texts)}
<1>1. raw = << "G" >> \o <<>> \o << Field(texts) >>
  BY DEF encode, build_group_action, action_type_to_char, Some, None
<1>2. /\ raw # <<>> /\ raw[1] = "G" /\ Tail(raw) = << Field(texts) >>
  <2>1. "G" \in S /\ <<>> \in Seq(S) /\ << Field(texts) >> \in Seq(S)
        /\ <<>> \o << Field(texts) >> = << Field(texts) >>
    <3> HIDE DEF texts
    <3>1. "G" \in S /\ Field(texts) \in S
      OBVIOUS
    <3> HIDE DEF S
    <3> QED
      BY <3>1
  <2> HIDE DEF S, texts, raw
  <2> QED
    <3>1. Parts(<< "G" >> \o <<>> \o << Field(texts) >>, "G", <<>>, << Field(texts) >>)
      BY <2>1, TextParts
    <3>2. Parts(raw, "G", <<>>, << Field(texts) >>)
      BY <1>1, <3>1
    <3> QED
      BY <2>1, <3>2 DEF Parts
<1>3. Decoded(Tail(raw)) = texts
  <2> HIDE DEF texts, raw
  <2> DEFINE rest == Tail(raw)
  <2>1. rest = << Field(texts) >>
    BY <1>2
  <2>2. Len(rest) = 1 /\ rest[1] = Field(texts)
    <3> HIDE DEF rest
    <3> QED
      BY <2>1
  <2> HIDE DEF rest
  <2>3. Decoded(rest) = texts
    BY <2>2 DEF Decoded, Field
  <2> QED
    BY <2>3 DEF rest
<1> HIDE DEF raw
<1>4. decode_action(raw) = [type |-> "GROUP", element_id |-> <<>>, payload |-> Some(texts)]
  <2> HIDE DEF texts
  <2> QED
    BY <1>2, <1>3 DEF decode_action
<1>5. decode_blockchain_action(raw) = decode_action(raw)
  <2>1. Len(texts) = Len(s) /\ \A i \in DOMAIN texts : texts[i] = encode(s[i])
    OBVIOUS
  <2>2. \A i \in DOMAIN texts : texts[i][1] # "G"
    BY BuiltIsRead
  <2>3. ~(Len(texts) > MaxGroupActions)
    BY <2>1, LimitsAssumption
  <2> HIDE DEF texts
  <2>4. decode_action(raw).payload[1] = texts
    BY <1>4 DEF Some
  <2> QED
    BY <2>2, <2>3, <2>4 DEF decode_blockchain_action
<1>6. ActionsOf(raw) = [i \in DOMAIN texts |-> decode_action(texts[i])]
  <2> HIDE DEF texts
  <2> QED
    BY <1>4, <1>5 DEF ActionsOf, Some
<1>7. [i \in DOMAIN texts |-> decode_action(texts[i])] = s
  <2>1. DOMAIN texts = DOMAIN s
    OBVIOUS
  <2>2. \A i \in DOMAIN s : s[i] \in A /\ decode_action(texts[i]) = s[i]
    BY BuiltIsRead
  <2>3. s = [i \in DOMAIN s |-> s[i]]
    OBVIOUS
  <2> HIDE DEF texts
  <2> QED
    BY <2>1, <2>2, <2>3
<1> QED
  BY <1>6, <1>7 DEF raw

\* A sequence that is cut at some places and put together again.
LEMMA PiecesJoin ==
  ASSUME NEW S, NEW s \in Seq(S), NEW N \in Nat, NEW ends \in [0..N -> 0..Len(s)],
         ends[0] = 0, ends[N] = Len(s), \A i \in 1..N : ends[i - 1] <= ends[i]
  PROVE  FlattenSeq([i \in 1..N |-> SubSeq(s, ends[i - 1] + 1, ends[i])]) = s
<1> DEFINE pieces == [i \in 1..N |-> SubSeq(s, ends[i - 1] + 1, ends[i])]
           upto == [i \in 1..N |-> SubSeq(s, 1, ends[i])]
<1>1. \A i \in 0..N : ends[i] \in Nat /\ ends[i] <= Len(s)
  OBVIOUS
<1>2. \A i \in 1..N : i - 1 \in 0..N /\ i \in 0..N
  OBVIOUS
<1>3. pieces \in Seq(Seq(S)) /\ Len(pieces) = N
  <2>1. ASSUME NEW i \in 1..N PROVE SubSeq(s, ends[i - 1] + 1, ends[i]) \in Seq(S)
    <3>1. /\ ends[i - 1] \in Nat /\ ends[i] \in Nat /\ ends[i] <= Len(s)
      BY <1>1, <1>2
    <3>2. \A j \in (ends[i - 1] + 1) .. ends[i] : s[j] \in S
      BY <3>1
    <3> QED
      BY <3>1, <3>2, SubSeqProperties
  <2> QED
    BY <2>1
<1>4. CASE N = 0
  <2>1. s = <<>> /\ pieces = <<>>
    BY <1>4
  <2> QED
    BY <1>3, <1>4, <2>1 DEF FlattenSeq
<1>5. CASE N # 0
  <2>1. ASSUME NEW i \in 1..N, i # 1 PROVE upto[i] = upto[i - 1] \o pieces[i]
    <3>1. i - 1 \in 1..N /\ i - 1 \in 0..N
      BY <2>1
    <3> DEFINE k == ends[i - 1]
               n == ends[i]
    <3>2. k \in 1 - 1 .. Len(s) /\ n \in k .. Len(s) /\ 1 \in 1..(Len(s) + 1)
      BY <1>1, <1>2, <3>1
    <3> HIDE DEF k, n
    <3>3. SubSeq(s, 1, k) \o SubSeq(s, k + 1, n) = SubSeq(s, 1, n)
      BY <3>2, ConcatAdjacentSubSeq
    <3> USE DEF k, n
    <3> QED
      BY <3>1, <3>3
  <2>2. upto[1] = pieces[1] /\ 1 \in 1..N /\ N \in 1..N
    BY <1>5
  <2>3. upto[N] = s
    BY <2>2, SubSeqFull
  <2> DEFINE f == CHOOSE h : h = [i \in 1..Len(pieces) |->
                                   IF i = 1 THEN pieces[i] ELSE h[i - 1] \o pieces[i]]
  <2> HIDE DEF pieces
  <2>4. FlattenSeq(pieces) = f[N]
    <3>1. Len(pieces) # 0
      BY <1>3, <1>5
    <3>2. FlattenSeq(pieces) = IF Len(pieces) = 0 THEN pieces ELSE f[Len(pieces)]
      BY Zenon DEF FlattenSeq
    <3> HIDE DEF f
    <3> QED
      BY <1>3, <3>1, <3>2
  <2>5. upto = [i \in 1..N |-> IF i = 1 THEN pieces[i] ELSE upto[i - 1] \o pieces[i]]
    <3>1. upto = [i \in 1..N |-> upto[i]]
      OBVIOUS
    <3> HIDE DEF upto
    <3> QED
      BY <2>1, <2>2, <3>1
  <2> HIDE DEF upto
  <2>6. f = [i \in 1..N |-> IF i = 1 THEN pieces[i] ELSE f[i - 1] \o pieces[i]]
    BY <1>3, <2>5
  <2> HIDE DEF f
  <2> DEFINE Same == {k \in 0..(N - 1) : f[k + 1] = upto[k + 1]}
  <2>7. 0 \in Same
    BY <2>2, <2>6
  <2>8. ASSUME NEW k \in Nat, k < N - 1, k \in Same PROVE k + 1 \in Same
    <3>1. k + 2 \in 1..N /\ k + 2 # 1 /\ (k + 2) - 1 = k + 1 /\ k + 1 \in 0..(N - 1)
          /\ (k + 1) + 1 = k + 2
      BY <2>8
    <3>2. f[k + 1] = upto[k + 1]
      BY <2>8
    <3>3. f[k + 2] = f[k + 1] \o pieces[k + 2]
      BY <2>6, <3>1
    <3>4. upto[k + 2] = upto[k + 1] \o pieces[k + 2]
      BY <2>1, <3>1
    <3>5. f[k + 2] = upto[k + 2]
      BY <3>2, <3>3, <3>4
    <3> QED
      BY <3>1, <3>5
  <2> HIDE DEF Same
  <2>9. N - 1 \in Nat /\ N - 1 \in 0..(N - 1)
    BY <1>5
  <2>10. N - 1 \in Same
    BY <2>7, <2>8, <2>9, SetInductionTo
  <2>11. f[N] = upto[N]
    BY <2>10 DEF Same
  <2> QED
    BY <2>3, <2>4, <2>11 DEF pieces
<1> QED
  BY <1>4, <1>5

\* How many batches of a size there are.
LEMMA BatchCount ==
  ASSUME NEW L \in Nat, NEW size \in Nat \ {0}
  PROVE  LET G == (L + size - 1) \div size IN
         /\ G \in Nat
         /\ L <= G * size
         /\ \A g \in 1..G : (g - 1) * size < L
<1> DEFINE a == L + size - 1
           G == a \div size
<1>1. a \in Nat
  OBVIOUS
<1> HIDE DEF a
<1>2. G \in Nat /\ G * size <= a /\ a < G * size + size
  BY <1>1
<1> HIDE DEF G
<1>3. L <= G * size
  BY <1>2 DEF a
<1>4. ASSUME NEW g \in 1..G PROVE (g - 1) * size < L
  <2>1. g * size <= G * size
    BY <1>2
  <2>2. (g - 1) * size = g * size - size
    OBVIOUS
  <2> QED
    BY <1>2, <2>1, <2>2 DEF a
<1> QED
  BY <1>2, <1>3, <1>4 DEF G, a

\* A plan cut into groups, written and read again.
LEMMA PlanIsRead ==
  ASSUME NEW A, \A a \in A : IsBuilt(a), NEW s \in Seq(A), NEW size \in 1..MaxGroupActions
  PROVE  RoundTrip(s, size) = s
<1> DEFINE L == Len(s)
           G == (L + size - 1) \div size
           ends == [g \in 0..G |-> IF g * size > L THEN L ELSE g * size]
           piece(g) == SubSeq(s, ends[g - 1] + 1, ends[g])
           groups == batch_into_group_actions(s, size)
<1>0. L \in Nat /\ size \in Nat \ {0} /\ MaxGroupActions \in Nat
  BY LimitsAssumption
<1>1. /\ G \in Nat
      /\ L <= G * size
      /\ \A g \in 1..G : (g - 1) * size < L
  BY <1>0, BatchCount
<1>2. groups = [g \in 1..G |->
                  build_group_action(SubSeq(s, (g - 1) * size + 1,
                                            IF g * size > Len(s) THEN Len(s) ELSE g * size))]
  BY DEF batch_into_group_actions
<1> HIDE DEF G, L, groups
<1>3. \A g \in 0..G : g * size \in Nat
  BY <1>0, <1>1
<1>4. /\ ends \in [0..G -> 0..L] /\ ends[0] = 0 /\ ends[G] = L
  <2>1. ends \in [0..G -> 0..L]
    BY <1>0, <1>3
  <2>2. ends[0] = 0
    BY <1>0, <1>1
  <2>3. ends[G] = L
    BY <1>0, <1>1, <1>3
  <2> QED
    BY <2>1, <2>2, <2>3
<1>5. ASSUME NEW g \in 1..G
      PROVE  /\ ends[g - 1] = (g - 1) * size
             /\ ends[g] = IF g * size > L THEN L ELSE g * size
             /\ ends[g - 1] <= ends[g] /\ ends[g] <= ends[g - 1] + size
             /\ ends[g] \in 0..L /\ ends[g - 1] \in 0..L
  <2>1. g - 1 \in 0..G /\ g \in 0..G
    BY <1>1
  <2>2. (g - 1) * size < L /\ (g - 1) * size \in Nat /\ g * size \in Nat
    BY <1>1, <1>3, <2>1
  <2>3. g * size = (g - 1) * size + size
    BY <1>0, <1>1
  <2>4. /\ ends[g - 1] = (g - 1) * size
        /\ ends[g] = IF g * size > L THEN L ELSE g * size
    BY <1>0, <2>1, <2>2
  <2>5. /\ ends[g - 1] <= ends[g] /\ ends[g] <= ends[g - 1] + size
    <3> HIDE DEF ends
    <3>1. CASE g * size > L
      BY <1>0, <2>2, <2>3, <2>4, <3>1
    <3>2. CASE ~(g * size > L)
      BY <1>0, <2>2, <2>3, <2>4, <3>2
    <3> QED
      BY <3>1, <3>2
  <2>6. ends[g] \in 0..L /\ ends[g - 1] \in 0..L
    BY <1>4, <2>1
  <2> QED
    BY <2>4, <2>5, <2>6
<1> HIDE DEF ends
<1>6. ASSUME NEW g \in 1..G
      PROVE  ActionsOf(encode(groups[g])) = piece(g)
  <2>1. groups[g] = build_group_action(piece(g))
    BY <1>2, <1>5 DEF L
  <2>2. piece(g) \in Seq(A) /\ Len(piece(g)) <= MaxGroupActions
    <3> DEFINE k == ends[g - 1]
               n == ends[g]
    <3>1. k \in Nat /\ n \in Nat /\ k <= n /\ n <= k + size /\ n <= L
      BY <1>0, <1>5
    <3> HIDE DEF k, n
    <3>2. \A i \in (k + 1) .. n : s[i] \in A
      BY <3>1 DEF L
    <3>3. SubSeq(s, k + 1, n) \in Seq(A) /\ Len(SubSeq(s, k + 1, n)) <= MaxGroupActions
      BY <1>0, <3>1, <3>2, SubSeqProperties
    <3> QED
      BY <3>3 DEF k, n
  <2> HIDE DEF piece
  <2> QED
    BY <2>1, <2>2, GroupIsRead
<1>7. RoundTrip(s, size) = FlattenSeq([g \in DOMAIN groups |-> ActionsOf(encode(groups[g]))])
  BY DEF RoundTrip, groups
<1>8. DOMAIN groups = 1..G
  BY <1>2
<1>9. [g \in DOMAIN groups |-> ActionsOf(encode(groups[g]))] = [g \in 1..G |-> piece(g)]
  <2> HIDE DEF piece
  <2> QED
    BY <1>6, <1>8
<1>10. FlattenSeq([g \in 1..G |-> piece(g)]) = s
  <2>1. \A g \in 1..G : ends[g - 1] <= ends[g]
    BY <1>5
  <2> QED
    BY <1>1, <1>4, <2>1, PiecesJoin DEF L
<1> QED
  BY <1>7, <1>9, <1>10

-----------------------------------------------------------------------------
(* Joining the sequences of a sequence. *)

\* What FlattenSeq makes of a sequence, one element after the other.
LEMMA FlattenUpTo ==
  ASSUME NEW S, NEW seqs \in Seq(Seq(S)), NEW upto, upto[0] = <<>>,
         \A i \in 1..Len(seqs) : upto[i] = upto[i - 1] \o seqs[i]
  PROVE  FlattenSeq(seqs) = upto[Len(seqs)]
<1> DEFINE N == Len(seqs)
<1>1. N \in Nat
  OBVIOUS
<1>2. CASE N = 0
  <2>1. seqs = <<>>
    BY <1>2
  <2> QED
    BY <1>2, <2>1 DEF FlattenSeq
<1>3. CASE N # 0
  <2>1. 1 \in 1..N /\ N \in 1..N /\ seqs[1] \in Seq(S)
    BY <1>1, <1>3
  <2>2. upto[1] = seqs[1]
    <3>1. upto[1] = upto[1 - 1] \o seqs[1]
      BY <2>1
    <3>2. 1 - 1 = 0
      OBVIOUS
    <3>3. upto[1] = <<>> \o seqs[1]
      BY <3>1, <3>2
    <3> QED
      BY <2>1, <3>3
  <2> DEFINE f == CHOOSE h : h = [i \in 1..Len(seqs) |->
                                   IF i = 1 THEN seqs[i] ELSE h[i - 1] \o seqs[i]]
  <2>3. FlattenSeq(seqs) = f[N]
    <3>1. FlattenSeq(seqs) = IF Len(seqs) = 0 THEN seqs ELSE f[Len(seqs)]
      BY Zenon DEF FlattenSeq
    <3> HIDE DEF f
    <3> QED
      BY <1>3, <3>1
  <2> DEFINE g == [i \in 1..N |-> upto[i]]
  <2>4. g = [i \in 1..N |-> IF i = 1 THEN seqs[i] ELSE g[i - 1] \o seqs[i]]
    <3>1. ASSUME NEW i \in 1..N PROVE g[i] = IF i = 1 THEN seqs[i] ELSE g[i - 1] \o seqs[i]
      <4>1. CASE i = 1
        BY <2>2, <4>1
      <4>2. CASE i # 1
        <5>1. i - 1 \in 1..N
          BY <4>2
        <5>2. g[i] = upto[i] /\ g[i - 1] = upto[i - 1]
          BY <5>1
        <5> HIDE DEF g
        <5> QED
          BY <4>2, <5>2
      <4> QED
        BY <4>1, <4>2
    <3>2. g = [i \in 1..N |-> g[i]]
      OBVIOUS
    <3> HIDE DEF g
    <3> QED
      BY <3>1, <3>2
  <2> HIDE DEF g
  <2>5. f = [i \in 1..N |-> IF i = 1 THEN seqs[i] ELSE f[i - 1] \o seqs[i]]
    BY <2>4
  <2> HIDE DEF f
  <2> DEFINE Same == {k \in 0..(N - 1) : f[k + 1] = upto[k + 1]}
  <2>6. 0 \in Same
    BY <2>1, <2>2, <2>5
  <2>7. ASSUME NEW k \in Nat, k < N - 1, k \in Same PROVE k + 1 \in Same
    <3>1. k + 2 \in 1..N /\ k + 2 # 1 /\ (k + 2) - 1 = k + 1 /\ k + 1 \in 0..(N - 1)
          /\ (k + 1) + 1 = k + 2
      BY <1>1, <2>7
    <3>2. f[k + 1] = upto[k + 1]
      BY <2>7
    <3>3. f[k + 2] = f[k + 1] \o seqs[k + 2]
      BY <2>5, <3>1
    <3>4. upto[k + 2] = upto[k + 1] \o seqs[k + 2]
      BY <3>1
    <3>5. f[k + 2] = upto[k + 2]
      BY <3>2, <3>3, <3>4
    <3> QED
      BY <3>1, <3>5
  <2> HIDE DEF Same
  <2>8. N - 1 \in Nat /\ N - 1 \in 0..(N - 1)
    BY <1>1, <1>3
  <2>9. N - 1 \in Same
    BY <2>6, <2>7, <2>8, SetInductionTo
  <2>10. f[N] = upto[N]
    BY <1>1, <2>9 DEF Same
  <2> QED
    BY <2>3, <2>10
<1> QED
  BY <1>2, <1>3

\* FlattenSeq joins the sequences one after the other.
LEMMA FlattenSteps ==
  ASSUME NEW S, NEW seqs \in Seq(Seq(S))
  PROVE  \E upto \in [0..Len(seqs) -> Seq(S)] :
            /\ upto[0] = <<>>
            /\ \A i \in 1..Len(seqs) : upto[i] = upto[i - 1] \o seqs[i]
            /\ FlattenSeq(seqs) = upto[Len(seqs)]
<1> DEFINE N == Len(seqs)
           V == Seq(S)
           F == [i \in 1..N |-> [v \in V |-> v \o seqs[i]]]
<1>1. N \in Nat /\ <<>> \in V
  OBVIOUS
<1>2. F \in [1..N -> [V -> V]]
  OBVIOUS
<1>3. \E g : IsRun(g, V, F, <<>>, N)
  <2> HIDE DEF V, F, N
  <2> QED
    BY <1>1, <1>2, RunExists
<1> PICK g : IsRun(g, V, F, <<>>, N)
  BY <1>3
<1>4. g \in [0..N -> V] /\ g[0] = <<>>
  BY DEF IsRun
<1>5. ASSUME NEW i \in 1..N PROVE g[i] = g[i - 1] \o seqs[i]
  <2>1. g[i - 1] \in V
    <3>1. i - 1 \in 0..N
      BY <1>1
    <3> HIDE DEF V
    <3> QED
      BY <1>4, <3>1
  <2>2. g[i] = F[i][g[i - 1]]
    BY DEF IsRun
  <2> QED
    BY <2>1, <2>2
<1>6. FlattenSeq(seqs) = g[N]
  BY <1>4, <1>5, FlattenUpTo
<1> QED
  BY <1>4, <1>5, <1>6

-----------------------------------------------------------------------------
(* Reading a file of lines. *)

\* Nothing of the text was read.
Fresh == [done |-> <<>>, line |-> <<>>]

\* The loop over the characters that Lines makes.
Reading(text) ==
    CHOOSE f : f = [i \in 0..Len(text) |-> IF i = 0 THEN Fresh ELSE Read(f[i - 1], text[i])]

LEMMA LinesRead ==
  ASSUME NEW text
  PROVE  Lines(text) = IF Reading(text)[Len(text)].line = <<>>
                       THEN Reading(text)[Len(text)].done
                       ELSE Append(Reading(text)[Len(text)].done, Reading(text)[Len(text)].line)
BY Zenon DEF Lines, Reading, Fresh

\* The loop has a value after each character.
LEMMA ReadingSteps ==
  ASSUME NEW S, NEW text \in Seq(S)
  PROVE  LET read == Reading(text) IN
         /\ read[0] = Fresh
         /\ \A i \in 1..Len(text) : read[i] = Read(read[i - 1], text[i])
<1> DEFINE N == Len(text)
           V == [done : Seq(Seq(S)), line : Seq(S)]
           F == [i \in 1..N |-> [v \in V |-> Read(v, text[i])]]
           read == Reading(text)
<1>1. N \in Nat /\ Fresh \in V
  BY DEF Fresh
<1>2. \A i \in 1..N, v \in V : Read(v, text[i]) \in V
  BY DEF Read
<1>3. F \in [1..N -> [V -> V]]
  BY <1>2
<1>4. \E g : IsRun(g, V, F, Fresh, N)
  <2> HIDE DEF V, F, N
  <2> QED
    BY <1>1, <1>3, RunExists
<1> PICK g : IsRun(g, V, F, Fresh, N)
  BY <1>4
<1>5. g = [i \in 0..N |-> IF i = 0 THEN Fresh ELSE Read(g[i - 1], text[i])]
  <2>1. g \in [0..N -> V] /\ g[0] = Fresh
    BY DEF IsRun
  <2>2. ASSUME NEW i \in 1..N PROVE g[i] = Read(g[i - 1], text[i])
    <3>1. g[i - 1] \in V
      <4>1. i - 1 \in 0..N
        BY <1>1
      <4> HIDE DEF V
      <4> QED
        BY <2>1, <4>1
    <3>2. g[i] = F[i][g[i - 1]]
      BY DEF IsRun
    <3> QED
      BY <3>1, <3>2
  <2>3. \A i \in 0..N : i # 0 => i \in 1..N
    BY <1>1
  <2> HIDE DEF V, F, N
  <2> QED
    BY <2>1, <2>2, <2>3
<1>6. read = CHOOSE f : f = [i \in 0..N |-> IF i = 0 THEN Fresh ELSE Read(f[i - 1], text[i])]
  BY DEF Reading
<1> HIDE DEF V, F, read
<1>7. read = [i \in 0..N |-> IF i = 0 THEN Fresh ELSE Read(read[i - 1], text[i])]
  BY <1>5, <1>6
<1>8. 0 \in 0..N /\ \A i \in 1..N : i \in 0..N /\ i # 0
  BY <1>1
<1>9. read[0] = Fresh /\ \A i \in 1..N : read[i] = Read(read[i - 1], text[i])
  BY <1>7, <1>8
<1> QED
  BY <1>9 DEF read

\* The text was read to its end, which is the end of a line.
ReadAs(text, lines) ==
    Reading(text)[Len(text)] = [done |-> lines, line |-> <<>>]

LEMMA NothingRead ==
  ReadAs(<<>>, <<>>)
<1>1. <<>> \in Seq({}) /\ Len(<<>>) = 0
  OBVIOUS
<1>2. Reading(<<>>)[0] = Fresh
  BY <1>1, ReadingSteps
<1> QED
  BY <1>1, <1>2 DEF ReadAs, Fresh

\* One more line.
LEMMA LineRead ==
  ASSUME NEW S, NEW text \in Seq(S), NEW lines, ReadAs(text, lines),
         NEW line \in Seq(S), \A i \in 1..Len(line) : line[i] # "nl", "nl" \in S
  PROVE  ReadAs(text \o line \o <<"nl">>, Append(lines, line))
<1> DEFINE all == text \o line \o <<"nl">>
           L == Len(text)
           M == Len(line)
           old == Reading(text)
           new == Reading(all)
<1>0. L \in Nat /\ M \in Nat
  OBVIOUS
<1>1. /\ all \in Seq(S) /\ Len(all) = L + M + 1
      /\ \A i \in 1..L : all[i] = text[i]
      /\ \A i \in 1..M : all[L + i] = line[i]
      /\ all[L + M + 1] = "nl"
  <2>1. <<"nl">> \in Seq(S) /\ Len(<<"nl">>) = 1 /\ <<"nl">>[1] = "nl"
    OBVIOUS
  <2>2. /\ text \o line \in Seq(S) /\ Len(text \o line) = L + M
        /\ \A i \in 1..L : (text \o line)[i] = text[i]
        /\ \A i \in 1..M : (text \o line)[L + i] = line[i]
    OBVIOUS
  <2> DEFINE both == text \o line
  <2> HIDE DEF both
  <2>3. /\ both \o <<"nl">> \in Seq(S) /\ Len(both \o <<"nl">>) = L + M + 1
        /\ \A i \in 1..(L + M) : (both \o <<"nl">>)[i] = both[i]
        /\ (both \o <<"nl">>)[L + M + 1] = "nl"
    BY <1>0, <2>1, <2>2 DEF both
  <2>4. \A i \in 1..L : i \in 1..(L + M)
    BY <1>0
  <2>5. \A i \in 1..M : L + i \in 1..(L + M)
    BY <1>0
  <2> QED
    BY <2>2, <2>3, <2>4, <2>5 DEF both
<1> HIDE DEF all
<1>2. /\ old[0] = Fresh /\ \A i \in 1..L : old[i] = Read(old[i - 1], text[i])
      /\ new[0] = Fresh /\ \A i \in 1..(L + M + 1) : new[i] = Read(new[i - 1], all[i])
  BY <1>1, ReadingSteps
<1>3. old[L] = [done |-> lines, line |-> <<>>]
  BY DEF ReadAs
<1> HIDE DEF old, new, L, M
<1>4. new[L] = old[L]
  <2> DEFINE Same == {k \in 0..L : new[k] = old[k]}
  <2>1. 0 \in Same
    BY <1>0, <1>2
  <2>2. ASSUME NEW k \in Nat, k < L, k \in Same PROVE k + 1 \in Same
    <3>1. k + 1 \in 1..L /\ k + 1 \in 1..(L + M + 1) /\ (k + 1) - 1 = k /\ k + 1 \in 0..L
      BY <1>0, <2>2
    <3>2. new[k + 1] = Read(new[k], text[k + 1]) /\ old[k + 1] = Read(old[k], text[k + 1])
      BY <1>1, <1>2, <3>1
    <3> QED
      BY <2>2, <3>1, <3>2
  <2> HIDE DEF Same
  <2>3. \A k \in 0..L : k \in Same
    BY <1>0, <2>1, <2>2, SetInductionTo
  <2> QED
    BY <1>0, <2>3 DEF Same
<1>5. new[L + M] = [done |-> lines, line |-> line]
  <2> DEFINE So == {k \in 0..M : new[L + k] = [done |-> lines, line |-> SubSeq(line, 1, k)]}
  <2>1. 0 \in So
    <3>1. SubSeq(line, 1, 0) = <<>>
      BY SubSeqEmpty
    <3> QED
      BY <1>0, <1>3, <1>4, <3>1
  <2>2. ASSUME NEW k \in Nat, k < M, k \in So PROVE k + 1 \in So
    <3>1. /\ k + 1 \in 1..M /\ L + (k + 1) \in 1..(L + M + 1)
          /\ (L + (k + 1)) - 1 = L + k /\ k + 1 \in 0..M
      BY <1>0, <2>2
    <3>2. new[L + (k + 1)] = Read(new[L + k], line[k + 1])
      BY <1>1, <1>2, <3>1
    <3>3. line[k + 1] # "nl"
      BY <3>1 DEF M
    <3>4. Append(SubSeq(line, 1, k), line[k + 1]) = SubSeq(line, 1, k + 1)
      BY <3>1 DEF M
    <3>5. new[L + k] = [done |-> lines, line |-> SubSeq(line, 1, k)]
      BY <2>2
    <3>6. new[L + (k + 1)] = [done |-> lines, line |-> SubSeq(line, 1, k + 1)]
      <4> DEFINE before == new[L + k]
      <4>1. before.done = lines /\ before.line = SubSeq(line, 1, k)
        BY <3>5
      <4>2. new[L + (k + 1)] = [done |-> before.done, line |-> Append(before.line, line[k + 1])]
        BY <3>2, <3>3 DEF Read
      <4> HIDE DEF before
      <4> QED
        BY <3>4, <4>1, <4>2
    <3> QED
      BY <3>1, <3>6
  <2> HIDE DEF So
  <2>3. \A k \in 0..M : k \in So
    BY <1>0, <2>1, <2>2, SetInductionTo
  <2>4. SubSeq(line, 1, M) = line
    BY SubSeqFull DEF M
  <2> QED
    BY <1>0, <2>3, <2>4 DEF So
<1>6. new[L + M + 1] = Read(new[L + M], "nl")
  BY <1>0, <1>1, <1>2
<1>7. new[L + M + 1] = [done |-> Append(lines, line), line |-> <<>>]
  BY <1>5, <1>6 DEF Read
<1> QED
  BY <1>1, <1>7 DEF ReadAs, new, all

-----------------------------------------------------------------------------
(* The file after a few additions. *)

\* Characters that CharAssumption names.
LEMMA SomeChars ==
  /\ "nl" \in Char /\ Blank \in Char /\ "/" \in Char /\ "." \in Char /\ "#" \in Char
  /\ "!" \in Char /\ "*" \in Char /\ "?" \in Char /\ "i" \in Char /\ "n" \in Char
  /\ "r" \in Char /\ "v" \in Char /\ "w" \in Char
  /\ "**" \notin Char /\ ".*" \notin Char /\ "[^/]*" \notin Char /\ "[^/]" \notin Char
BY Zenon, CharAssumption DEF Blank

LEMMA BlankDiffers ==
  Blank # "/" /\ Blank # "!" /\ Blank # "#" /\ Blank # "*" /\ Blank # "i" /\ Blank # "n" /\ Blank # "r"
  /\ Blank # "v" /\ Blank # "w"
BY Zenon DEF Blank

\* a and then b: an operator, for provers that do not match \o.
IsJoined(s, a, b) == s = a \o b

LEMMA JoinedNext ==
  ASSUME NEW S, NEW a \in Seq(S), NEW some \in Seq(S), NEW x \in S,
         NEW both, IsJoined(both, a, some), NEW more, more = Append(some, x)
  PROVE  IsJoined(Append(both, x), a, more)
<1> DEFINE one == <<x>>
<1>0. both = a \o some
  BY DEF IsJoined
<1>1. one \in Seq(S)
  OBVIOUS
<1>2. both \in Seq(S)
  BY <1>0
<1>3. Append(both, x) = both \o one
  BY <1>2, AppendIsConcat
<1>4. more = some \o one
  BY AppendIsConcat
<1> HIDE DEF one
<1>5. (a \o some) \o one = a \o (some \o one)
  BY <1>1, ConcatAssociative
<1> QED
  BY Zenon, <1>0, <1>3, <1>4, <1>5 DEF IsJoined

\* A sequence and the first k elements of another one.
Extended(a, b, k) == a \o SubSeq(b, 1, k)

LEMMA ExtendedNext ==
  ASSUME NEW S, NEW a \in Seq(S), NEW b \in Seq(S), NEW k \in Nat, k < Len(b)
  PROVE  Append(Extended(a, b, k), b[k + 1]) = Extended(a, b, k + 1)
<1> DEFINE some == SubSeq(b, 1, k)
           more == SubSeq(b, 1, k + 1)
           x == b[k + 1]
<1>1. some \in Seq(S) /\ x \in S /\ more = Append(some, x)
  OBVIOUS
<1> HIDE DEF some, x, more
<1>2. some \in Seq(S) /\ x \in S
  BY <1>1
<1> DEFINE both == a \o some
<1>3. IsJoined(both, a, some)
  BY DEF IsJoined
<1> HIDE DEF both
<1>4. IsJoined(Append(both, x), a, more)
  BY Zenon, <1>1, <1>2, <1>3, JoinedNext
<1> QED
  BY Zenon, <1>4 DEF IsJoined, both, Extended, some, x, more

LEMMA ExtendedBy ==
  ASSUME NEW S, NEW a \in Seq(S), NEW b \in Seq(S)
  PROVE  /\ Extended(a, b, 0) = a
         /\ Extended(a, b, Len(b)) = a \o b
         /\ \A k \in 0..(Len(b) - 1) :
               Append(Extended(a, b, k), b[k + 1]) = Extended(a, b, k + 1)
<1>1. Extended(a, b, 0) = a
  <2>1. SubSeq(b, 1, 0) = <<>>
    BY SubSeqEmpty
  <2> QED
    BY <2>1 DEF Extended
<1>2. Extended(a, b, Len(b)) = a \o b
  BY SubSeqFull DEF Extended
<1>3. ASSUME NEW k \in 0..(Len(b) - 1)
      PROVE  Append(Extended(a, b, k), b[k + 1]) = Extended(a, b, k + 1)
  <2>1. k \in Nat /\ k < Len(b)
    OBVIOUS
  <2> QED
    BY <2>1, ExtendedNext
<1> QED
  BY <1>1, <1>2, <1>3

\* The text after the first patterns were added.
Adding(text, patterns) ==
    CHOOSE f : f = [i \in 0..Len(patterns) |->
                      IF i = 0 THEN text ELSE append_ignore_pattern(f[i - 1], patterns[i])]

LEMMA FileAfterAdding ==
  ASSUME NEW text, NEW patterns
  PROVE  FileAfter(text, patterns) = Adding(text, patterns)[Len(patterns)]
BY Zenon DEF FileAfter, Adding

LEMMA AddingSteps ==
  ASSUME NEW text \in Seq(Char) \cup {Absent}, NEW patterns \in Seq(Seq(Char))
  PROVE  LET adding == Adding(text, patterns) IN
         /\ adding[0] = text
         /\ \A i \in 1..Len(patterns) :
               adding[i] = append_ignore_pattern(adding[i - 1], patterns[i])
<1> DEFINE N == Len(patterns)
           V == Seq(Char) \cup {Absent}
           F == [i \in 1..N |-> [v \in V |-> append_ignore_pattern(v, patterns[i])]]
           adding == Adding(text, patterns)
<1>1. N \in Nat
  OBVIOUS
<1>2. ASSUME NEW i \in 1..N, NEW v \in V PROVE append_ignore_pattern(v, patterns[i]) \in V
  <2>1. <<"nl">> \in Seq(Char)
    <3>1. "nl" \in Char
      BY Zenon, SomeChars
    <3> QED
      BY <3>1
  <2>2. patterns[i] \in Seq(Char)
    OBVIOUS
  <2> DEFINE so_far == IF v = Absent THEN <<>> ELSE v
  <2>3. so_far \in Seq(Char)
    OBVIOUS
  <2>4. append_ignore_pattern(v, patterns[i])
          = IF patterns[i] = <<>> THEN v ELSE so_far \o patterns[i] \o <<"nl">>
    BY DEF append_ignore_pattern
  <2> HIDE DEF so_far
  <2> QED
    BY <2>1, <2>2, <2>3, <2>4
<1>3. F \in [1..N -> [V -> V]]
  BY <1>2
<1>4. \E g : IsRun(g, V, F, text, N)
  <2> HIDE DEF F, N
  <2> QED
    BY <1>1, <1>3, RunExists
<1> PICK g : IsRun(g, V, F, text, N)
  BY <1>4
<1> DEFINE Next1(h, i) == append_ignore_pattern(h[i - 1], patterns[i])
<1>5. g = [i \in 0..N |-> IF i = 0 THEN text ELSE Next1(g, i)]
  <2>1. g \in [0..N -> V] /\ g[0] = text
    BY DEF IsRun
  <2>2. ASSUME NEW i \in 1..N PROVE g[i] = Next1(g, i)
    <3>1. g[i - 1] \in V
      <4>1. i - 1 \in 0..N
        BY <1>1
      <4> HIDE DEF V
      <4> QED
        BY <2>1, <4>1
    <3>2. g[i] = F[i][g[i - 1]]
      BY DEF IsRun
    <3> HIDE DEF V
    <3> QED
      BY <3>1, <3>2
  <2>3. \A i \in 0..N : i # 0 => i \in 1..N
    BY <1>1
  <2> HIDE DEF V, F, N, Next1
  <2> QED
    BY <2>1, <2>2, <2>3
<1>6. adding = CHOOSE f : f = [i \in 0..N |-> IF i = 0 THEN text ELSE Next1(f, i)]
  BY DEF Adding
<1> HIDE DEF V, F, adding
<1>7. adding = [i \in 0..N |-> IF i = 0 THEN text ELSE Next1(adding, i)]
  BY <1>5, <1>6
<1>8. 0 \in 0..N /\ \A i \in 1..N : i \in 0..N /\ i # 0
  BY <1>1
<1> HIDE DEF Next1
<1>9. adding[0] = text /\ \A i \in 1..N : adding[i] = Next1(adding, i)
  BY <1>7, <1>8
<1> QED
  BY <1>9 DEF adding, Next1

\* What a file holds: nothing, as it is not there, or lines.
Holds(text, lines) ==
    \/ text = Absent /\ lines = <<>>
    \/ text \in Seq(Char) /\ ReadAs(text, lines)

\* Patterns that are added are the last lines of the file.
LEMMA AddedLines ==
  ASSUME NEW text, NEW lines \in Seq(Seq(Char)), Holds(text, lines),
         NEW added \in Seq(Seq(Char)),
         \A i \in 1..Len(added) :
            added[i] # <<>> /\ \A j \in 1..Len(added[i]) : added[i][j] # "nl"
  PROVE  Holds(FileAfter(text, added), lines \o added)
<1> DEFINE N == Len(added)
           adding == Adding(text, added)
           So == {k \in 0..N : Holds(adding[k], Extended(lines, added, k))}
<1>0. "nl" \in Char
  BY Zenon, SomeChars
<1>1. N \in Nat /\ "nl" \in Char
  BY <1>0
<1>2. /\ adding[0] = text
      /\ \A i \in 1..N : adding[i] = append_ignore_pattern(adding[i - 1], added[i])
  <2>1. text \in Seq(Char) \cup {Absent}
    BY DEF Holds
  <2> QED
    BY <2>1, AddingSteps
<1> HIDE DEF adding
<1>3. /\ Extended(lines, added, 0) = lines
      /\ Extended(lines, added, N) = lines \o added
      /\ \A k \in 0..(N - 1) :
            Append(Extended(lines, added, k), added[k + 1]) = Extended(lines, added, k + 1)
  BY ExtendedBy
<1> HIDE DEF N
<1>4. 0 \in So
  BY <1>1, <1>2, <1>3
<1>5. ASSUME NEW k \in Nat, k < N, k \in So PROVE k + 1 \in So
  <2>1. k + 1 \in 1..N /\ (k + 1) - 1 = k /\ k + 1 \in 0..N /\ k \in 0..(N - 1)
    <3> HIDE DEF So
    <3> QED
      BY <1>1, <1>5
  <2> DEFINE line == added[k + 1]
             before == adding[k]
             sofar == IF before = Absent THEN <<>> ELSE before
             held == Extended(lines, added, k)
  <2>2. line \in Seq(Char) /\ line # <<>> /\ \A j \in 1..Len(line) : line[j] # "nl"
    BY <2>1 DEF N
  <2>3. adding[k + 1] = append_ignore_pattern(before, line)
    BY <1>2, <2>1
  <2>5. Append(held, line) = Extended(lines, added, k + 1)
    BY <1>3, <2>1
  <2>6. Holds(before, held)
    BY <1>5
  <2> HIDE DEF line, before, held
  <2>7. sofar \in Seq(Char) /\ ReadAs(sofar, held)
    <3>1. CASE before = Absent /\ held = <<>>
      BY <3>1, NothingRead
    <3>2. CASE before \in Seq(Char) /\ ReadAs(before, held)
      BY <3>2, AbsentAssumption
    <3> QED
      BY <2>6, <3>1, <3>2 DEF Holds
  <2>8. adding[k + 1] = sofar \o line \o <<"nl">>
    BY <2>2, <2>3 DEF append_ignore_pattern
  <2> HIDE DEF sofar
  <2>9. ReadAs(sofar \o line \o <<"nl">>, Append(held, line))
    BY <1>1, <2>2, <2>7, LineRead
  <2>10. sofar \o line \o <<"nl">> \in Seq(Char)
    BY <1>1, <2>2, <2>7
  <2>11. Holds(adding[k + 1], Extended(lines, added, k + 1))
    BY <2>5, <2>8, <2>9, <2>10 DEF Holds
  <2> QED
    BY <2>1, <2>11
<1> HIDE DEF So
<1>6. \A k \in 0..N : k \in So
  BY <1>1, <1>4, <1>5, SetInductionTo
<1>7. Holds(adding[N], lines \o added)
  <2>1. N \in So
    BY <1>1, <1>6
  <2>2. Holds(adding[N], Extended(lines, added, N))
    BY <2>1 DEF So
  <2> QED
    BY <1>3, <2>2
<1>8. FileAfter(text, added) = adding[N]
  BY FileAfterAdding DEF adding, N
<1> QED
  BY <1>7, <1>8

-----------------------------------------------------------------------------
(* The rules of a file. *)

\* Joining two sequences of sequences.
LEMMA FlattenConcat ==
  ASSUME NEW S, NEW a \in Seq(Seq(S)), NEW b \in Seq(Seq(S))
  PROVE  FlattenSeq(a \o b) = FlattenSeq(a) \o FlattenSeq(b)
<1> DEFINE L == Len(a)
           M == Len(b)
<1>1. L \in Nat /\ M \in Nat
  OBVIOUS
<1>2. PICK ua \in [0..L -> Seq(S)] :
            /\ ua[0] = <<>>
            /\ \A i \in 1..L : ua[i] = ua[i - 1] \o a[i]
            /\ FlattenSeq(a) = ua[L]
  BY FlattenSteps
<1>3. PICK ub \in [0..M -> Seq(S)] :
            /\ ub[0] = <<>>
            /\ \A i \in 1..M : ub[i] = ub[i - 1] \o b[i]
            /\ FlattenSeq(b) = ub[M]
  BY FlattenSteps
<1>j. \A x, y, z \in Seq(S) : (x \o y) \o z = x \o (y \o z)
  <2> TAKE x, y, z \in Seq(S)
  <2> DEFINE l == (x \o y) \o z
             r == x \o (y \o z)
  <2>1. Len(x) \in Nat /\ Len(y) \in Nat /\ Len(z) \in Nat
    OBVIOUS
  <2>2. /\ l \in Seq(S) /\ Len(l) = Len(x) + Len(y) + Len(z)
        /\ r \in Seq(S) /\ Len(r) = Len(x) + Len(y) + Len(z)
    OBVIOUS
  <2>3. ASSUME NEW i \in 1..(Len(x) + Len(y) + Len(z)) PROVE l[i] = r[i]
    <3>1. CASE i <= Len(x)
      BY <2>1, <3>1
    <3>2. CASE i > Len(x) /\ i <= Len(x) + Len(y)
      BY <2>1, <3>2
    <3>3. CASE i > Len(x) + Len(y)
      BY <2>1, <3>3
    <3> QED
      BY <2>1, <3>1, <3>2, <3>3
  <2> HIDE DEF l, r
  <2>4. l = [i \in 1..Len(l) |-> l[i]] /\ r = [i \in 1..Len(r) |-> r[i]]
    BY <2>2
  <2> QED
    BY <2>2, <2>3, <2>4 DEF l, r
<1> DEFINE all == a \o b
           upto == [k \in 0..(L + M) |-> IF k <= L THEN ua[k] ELSE ua[L] \o ub[k - L]]
<1>4. /\ all \in Seq(Seq(S)) /\ Len(all) = L + M
      /\ \A i \in 1..L : all[i] = a[i]
      /\ \A i \in (L + 1)..(L + M) : all[i] = b[i - L]
  OBVIOUS
<1>5. /\ \A i \in 1..L : a[i] \in Seq(S)
      /\ \A i \in 1..M : b[i] \in Seq(S)
  OBVIOUS
<1> HIDE DEF all, L, M
<1>6. upto[0] = <<>>
  BY <1>1, <1>2
<1>7. ua[L] \in Seq(S)
  BY <1>1, <1>2
<1>8. ASSUME NEW i \in 1..(L + M) PROVE upto[i] = upto[i - 1] \o all[i]
  <2>1. i \in 0..(L + M) /\ i - 1 \in 0..(L + M)
    BY <1>1
  <2>2. CASE i <= L
    <3>1. i \in 1..L /\ i - 1 <= L
      BY <1>1, <2>2
    <3>2. upto[i] = ua[i] /\ upto[i - 1] = ua[i - 1]
      BY <2>1, <3>1
    <3> HIDE DEF upto
    <3> QED
      BY <1>2, <1>4, <3>1, <3>2
  <2>3. CASE i = L + 1
    <3>1. i - L = 1 /\ i - L \in 1..M /\ (i - L) - 1 = 0 /\ i - 1 = L /\ ~ (i <= L) /\ L <= L
          /\ i \in (L + 1)..(L + M)
      BY <1>1, <2>3
    <3>2. upto[i] = ua[L] \o ub[i - L] /\ upto[i - 1] = ua[L]
      BY <2>1, <3>1
    <3>3. ub[i - L] = ub[(i - L) - 1] \o b[i - L]
      BY <1>3, <3>1
    <3>4. ub[(i - L) - 1] = <<>>
      BY <1>3, <3>1
    <3>5. b[i - L] \in Seq(S)
      BY <1>5, <3>1
    <3>6. ub[i - L] = b[i - L]
      BY <3>3, <3>4, <3>5
    <3>7. all[i] = b[i - L]
      BY <1>4, <3>1
    <3> HIDE DEF upto
    <3> QED
      BY <3>2, <3>6, <3>7
  <2>4. CASE i > L + 1
    <3>1. /\ i - L \in 1..M /\ (i - L) - 1 = (i - 1) - L /\ ~ (i <= L) /\ ~ (i - 1 <= L)
          /\ (i - 1) - L \in 0..M /\ i \in (L + 1)..(L + M)
      BY <1>1, <2>4
    <3> DEFINE before == ub[(i - 1) - L]
               last == b[i - L]
               start == ua[L]
    <3>2. upto[i] = start \o ub[i - L] /\ upto[i - 1] = start \o before
      BY <2>1, <3>1
    <3>3. ub[i - L] = before \o last
      BY <1>3, <3>1
    <3>4. before \in Seq(S) /\ last \in Seq(S) /\ start \in Seq(S)
      BY <1>3, <1>5, <1>7, <3>1
    <3>5. all[i] = last
      BY <1>4, <3>1
    <3> HIDE DEF upto, before, last, start
    <3>6. (start \o before) \o last = start \o (before \o last)
      BY <1>j, <3>4, Zenon
    <3> QED
      BY <3>2, <3>3, <3>5, <3>6
  <2>5. i <= L \/ i = L + 1 \/ i > L + 1
    BY <1>1
  <2> HIDE DEF upto
  <2> QED
    BY <2>2, <2>3, <2>4, <2>5
<1>9. upto[L + M] = ua[L] \o ub[M]
  <2>1. CASE M = 0
    <3>1. upto[L + M] = ua[L] /\ ub[M] = <<>>
      BY <1>1, <1>3, <2>1
    <3> HIDE DEF upto
    <3> QED
      BY <1>7, <3>1
  <2>2. CASE M # 0
    BY <1>1, <2>2
  <2> QED
    BY <2>1, <2>2
<1> HIDE DEF upto
<1>10. FlattenSeq(all) = upto[L + M]
  BY <1>4, <1>6, <1>8, FlattenUpTo
<1> QED
  BY <1>2, <1>3, <1>9, <1>10 DEF all

\* Joining sequences of one element each.
LEMMA FlattenSingles ==
  ASSUME NEW S, NEW r \in Seq(S)
  PROVE  FlattenSeq([i \in 1..Len(r) |-> <<r[i]>>]) = r
<1> DEFINE N == Len(r)
           singles == [i \in 1..N |-> <<r[i]>>]
           upto == [k \in 0..N |-> SubSeq(r, 1, k)]
<1>1. N \in Nat /\ singles \in Seq(Seq(S)) /\ Len(singles) = N
  OBVIOUS
<1>2. upto[0] = <<>>
  BY SubSeqEmpty
<1>3. ASSUME NEW i \in 1..N PROVE upto[i] = upto[i - 1] \o singles[i]
  OBVIOUS
<1>4. upto[N] = r
  BY SubSeqFull
<1> HIDE DEF upto, singles
<1>5. FlattenSeq(singles) = upto[N]
  BY <1>1, <1>2, <1>3, FlattenUpTo
<1> QED
  BY <1>4, <1>5 DEF singles

-----------------------------------------------------------------------------
(* A glob as text. *)

\* What a line is made of.
PlainChars == Char \ {"nl"}
GlobPieces(glob) ==
    [i \in DOMAIN glob |-> IF glob[i] = "**" THEN <<"*", "*">> ELSE <<glob[i]>>]

\* Element k of the glob is in the text after place at[k - 1].
Places(glob, at) ==
    LET text == GlobText(glob) IN
    /\ text \in Seq(PlainChars)
    /\ at \in [0..Len(glob) -> Nat] /\ at[0] = 0 /\ at[Len(glob)] = Len(text)
    /\ \A k \in 1..Len(glob) :
          /\ glob[k] = "**" => /\ at[k] = at[k - 1] + 2
                               /\ text[at[k - 1] + 1] = "*" /\ text[at[k - 1] + 2] = "*"
          /\ glob[k] # "**" => at[k] = at[k - 1] + 1 /\ text[at[k - 1] + 1] = glob[k]
          /\ at[k] <= Len(text)

\* Each element of a glob has its place in the text.
LEMMA GlobPlaces ==
  ASSUME NEW glob \in Seq(PlainChars \cup {"**"})
  PROVE  \E at : Places(glob, at)
<1> DEFINE N == Len(glob)
           seqs == GlobPieces(glob)
           text == GlobText(glob)
<1>1. N \in Nat
  OBVIOUS
<1>2. "*" \in PlainChars
  <2>1. "*" \in Char
    BY Zenon, SomeChars
  <2> QED
    BY <2>1 DEF PlainChars
<1>3. seqs \in Seq(Seq(PlainChars)) /\ Len(seqs) = N
  <2>1. \A i \in 1..N : (IF glob[i] = "**" THEN <<"*", "*">> ELSE <<glob[i]>>) \in Seq(PlainChars)
    BY <1>2
  <2>2. seqs = [i \in 1..N |-> IF glob[i] = "**" THEN <<"*", "*">> ELSE <<glob[i]>>]
    BY DEF GlobPieces
  <2> DEFINE V == Seq(PlainChars)
  <2>3. seqs \in [1..N -> V]
    <3> DEFINE piece(i) == IF glob[i] = "**" THEN <<"*", "*">> ELSE <<glob[i]>>
    <3>1. \A i \in 1..N : piece(i) \in V
      BY <2>1
    <3>2. seqs = [i \in 1..N |-> piece(i)]
      BY <2>2
    <3> HIDE DEF piece, V, seqs, N
    <3> QED
      BY <3>1, <3>2
  <2> HIDE DEF seqs, V, N
  <2> QED
    BY <1>1, <2>3 DEF V
<1>4. text = FlattenSeq(seqs)
  BY DEF GlobText, GlobPieces
<1>5. \A k \in 1..N :
         /\ glob[k] = "**" => Len(seqs[k]) = 2 /\ seqs[k][1] = "*" /\ seqs[k][2] = "*"
         /\ glob[k] # "**" => Len(seqs[k]) = 1 /\ seqs[k][1] = glob[k]
  BY DEF GlobPieces
<1> HIDE DEF seqs
<1>6. PICK u \in [0..N -> Seq(PlainChars)] :
         /\ u[0] = <<>>
         /\ \A i \in 1..N : u[i] = u[i - 1] \o seqs[i]
         /\ FlattenSeq(seqs) = u[N]
  <2>1. seqs \in Seq(Seq(PlainChars))
    BY <1>3
  <2>2. \E u \in [0..Len(seqs) -> Seq(PlainChars)] :
           /\ u[0] = <<>>
           /\ \A i \in 1..Len(seqs) : u[i] = u[i - 1] \o seqs[i]
           /\ FlattenSeq(seqs) = u[Len(seqs)]
    BY Zenon, <2>1, FlattenSteps
  <2>3. Len(seqs) = N
    BY <1>3
  <2> HIDE DEF N
  <2> QED
    BY Zenon, <2>2, <2>3
<1> DEFINE at == [k \in 0..N |-> Len(u[k])]
<1>7. ASSUME NEW k \in 1..N
      PROVE  /\ k - 1 \in 0..N /\ k \in 0..N
             /\ Len(u[k - 1]) \in Nat /\ Len(seqs[k]) \in Nat
             /\ Len(u[k]) = Len(u[k - 1]) + Len(seqs[k])
             /\ \A j \in 1..Len(u[k - 1]) : u[k][j] = u[k - 1][j]
             /\ \A j \in 1..Len(seqs[k]) : u[k][Len(u[k - 1]) + j] = seqs[k][j]
  <2>1. k - 1 \in 0..N /\ k \in 0..N
    BY <1>1
  <2>2. u[k - 1] \in Seq(PlainChars) /\ seqs[k] \in Seq(PlainChars)
    <3> DEFINE V == Seq(PlainChars)
    <3>1. u \in [0..N -> V] /\ seqs \in Seq(V) /\ Len(seqs) = N
      BY <1>3, <1>6
    <3> HIDE DEF V, N
    <3>2. u[k - 1] \in V /\ seqs[k] \in V
      BY <2>1, <3>1
    <3> QED
      BY <3>2 DEF V
  <2>3. u[k] = u[k - 1] \o seqs[k]
    BY <1>6
  <2> DEFINE a == u[k - 1]
             b == seqs[k]
  <2>5. a \in Seq(PlainChars) /\ b \in Seq(PlainChars)
    BY <2>2
  <2> HIDE DEF a, b
  <2>4. /\ Len(a) \in Nat /\ Len(b) \in Nat
        /\ Len(a \o b) = Len(a) + Len(b)
        /\ \A j \in 1..Len(a) : (a \o b)[j] = a[j]
        /\ \A j \in 1..Len(b) : (a \o b)[Len(a) + j] = b[j]
    BY <2>5
  <2> QED
    BY <2>1, <2>3, <2>4 DEF a, b
<1> DEFINE Before(m) == \A k \in 0..m : /\ Len(u[k]) <= Len(u[m])
                                        /\ \A j \in 1..Len(u[k]) : u[m][j] = u[k][j]
           So == {m \in 0..N : Before(m)}
<1>8. \A k \in 0..N : Len(u[k]) \in Nat
  BY <1>6
<1>9. 0 \in So
  BY <1>1, <1>8
<1>10. ASSUME NEW m \in Nat, m < N, m \in So PROVE m + 1 \in So
  <2>1. m + 1 \in 1..N /\ m + 1 \in 0..N /\ (m + 1) - 1 = m /\ m \in 0..N
    <3> HIDE DEF So
    <3> QED
      BY <1>1, <1>10
  <2>2. Before(m)
    BY <1>10
  <2>3. /\ Len(u[m]) \in Nat /\ Len(u[m]) <= Len(u[m + 1])
        /\ \A j \in 1..Len(u[m]) : u[m + 1][j] = u[m][j]
    <3>1. /\ Len(u[(m + 1) - 1]) \in Nat /\ Len(seqs[m + 1]) \in Nat
          /\ Len(u[m + 1]) = Len(u[(m + 1) - 1]) + Len(seqs[m + 1])
          /\ \A j \in 1..Len(u[(m + 1) - 1]) : u[m + 1][j] = u[(m + 1) - 1][j]
      BY <1>7, <2>1
    <3>2. /\ Len(u[m]) \in Nat /\ Len(seqs[m + 1]) \in Nat
          /\ Len(u[m + 1]) = Len(u[m]) + Len(seqs[m + 1])
          /\ \A j \in 1..Len(u[m]) : u[m + 1][j] = u[m][j]
      BY <2>1, <3>1
    <3> DEFINE x == Len(u[m])
               y == Len(seqs[m + 1])
    <3>3. x \in Nat /\ y \in Nat
      BY <3>2
    <3> HIDE DEF So, Before, N, x, y
    <3>4. x <= x + y
      BY <3>3
    <3> QED
      BY <3>2, <3>4 DEF x, y
  <2>4. ASSUME NEW k \in 0..(m + 1)
        PROVE  Len(u[k]) <= Len(u[m + 1]) /\ \A j \in 1..Len(u[k]) : u[m + 1][j] = u[k][j]
    <3>1. CASE k = m + 1
      BY <1>8, <2>1, <3>1
    <3>2. CASE k # m + 1
      <4>1. k \in 0..m /\ k \in 0..N
        BY <2>1, <3>2
      <4>2. Len(u[k]) \in Nat /\ Len(u[k]) <= Len(u[m]) /\ \A j \in 1..Len(u[k]) : u[m][j] = u[k][j]
        BY <1>8, <2>2, <4>1
      <4>3. \A j \in 1..Len(u[k]) : j \in 1..Len(u[m])
        BY <2>3, <4>2
      <4>4. Len(u[k]) <= Len(u[m + 1])
        BY <1>8, <2>1, <2>3, <4>2
      <4> HIDE DEF Before, So, N
      <4> QED
        BY <2>3, <4>2, <4>3, <4>4
    <3> QED
      BY <3>1, <3>2
  <2>5. Before(m + 1)
    BY <2>4
  <2> HIDE DEF Before
  <2> QED
    BY <2>1, <2>5
<1> HIDE DEF So
<1>11. \A m \in 0..N : m \in So
  BY <1>1, <1>9, <1>10, SetInductionTo
<1>12. N \in So
  BY <1>1, <1>11
<1>13. text = u[N] /\ Before(N)
  BY <1>4, <1>6, <1>12 DEF So
<1>14. text \in Seq(PlainChars)
  BY <1>1, <1>6, <1>13
<1>15. at \in [0..N -> Nat] /\ at[0] = 0 /\ at[N] = Len(text)
  BY <1>1, <1>6, <1>8, <1>13
<1>16. ASSUME NEW k \in 1..N
       PROVE  /\ glob[k] = "**" => /\ at[k] = at[k - 1] + 2
                                   /\ text[at[k - 1] + 1] = "*" /\ text[at[k - 1] + 2] = "*"
              /\ glob[k] # "**" => at[k] = at[k - 1] + 1 /\ text[at[k - 1] + 1] = glob[k]
              /\ at[k] <= Len(text)
  <2>1. k - 1 \in 0..N /\ k \in 0..N
    BY <1>1
  <2>2. at[k] = Len(u[k]) /\ at[k - 1] = Len(u[k - 1])
    BY <2>1
  <2>3. Len(u[k]) <= Len(text) /\ \A j \in 1..Len(u[k]) : text[j] = u[k][j]
    BY <1>13, <2>1
  <2> HIDE DEF at, text, N
  <2>4. /\ Len(u[k - 1]) \in Nat /\ Len(seqs[k]) \in Nat
        /\ Len(u[k]) = Len(u[k - 1]) + Len(seqs[k])
        /\ \A j \in 1..Len(seqs[k]) : u[k][Len(u[k - 1]) + j] = seqs[k][j]
    BY <1>7
  <2>5. \A j \in 1..Len(seqs[k]) : Len(u[k - 1]) + j \in 1..Len(u[k])
    <3> DEFINE x == Len(u[k - 1])
               y == Len(seqs[k])
               z == Len(u[k])
    <3>1. x \in Nat /\ y \in Nat /\ z = x + y
      BY <2>4
    <3> HIDE DEF x, y, z
    <3>2. \A j \in 1..y : x + j \in 1..z
      BY <3>1
    <3> QED
      BY <3>2 DEF x, y, z
  <2>6. /\ \A j \in 1..Len(seqs[k]) : text[Len(u[k - 1]) + j] = seqs[k][j]
    BY <2>3, <2>4, <2>5
  <2>7. CASE glob[k] = "**"
    <3>1. Len(seqs[k]) = 2 /\ seqs[k][1] = "*" /\ seqs[k][2] = "*"
      BY <1>5, <2>7
    <3> QED
      BY <2>2, <2>3, <2>4, <2>6, <2>7, <3>1
  <2>8. CASE glob[k] # "**"
    <3>1. Len(seqs[k]) = 1 /\ seqs[k][1] = glob[k]
      BY <1>5, <2>8
    <3> QED
      BY <2>2, <2>3, <2>4, <2>6, <2>8, <3>1
  <2> QED
    BY <2>7, <2>8
<1> HIDE DEF at
<1>17. Places(glob, at)
  BY <1>14, <1>15, <1>16 DEF Places
<1> QED
  BY <1>17

-----------------------------------------------------------------------------
(* A glob as an expression. *)

\* The loop of glob_to_regex.
Scanning(pattern) ==
    CHOOSE f : f = [k \in 0..Len(pattern) |->
                      IF k = 0 THEN [r |-> <<>>, i |-> 1] ELSE Scan(pattern, f[k - 1])]

LEMMA RegexScanned ==
  ASSUME NEW pattern
  PROVE  glob_to_regex(pattern) = Scanning(pattern)[Len(pattern)].r
BY Zenon DEF glob_to_regex, Scanning

LEMMA ScanningSteps ==
  ASSUME NEW S, NEW pattern \in Seq(S)
  PROVE  LET loop == Scanning(pattern) IN
         /\ loop[0] = [r |-> <<>>, i |-> 1]
         /\ \A k \in 1..Len(pattern) : loop[k] = Scan(pattern, loop[k - 1])
<1> DEFINE N == Len(pattern)
           E == S \cup {".*", "[^/]*", "[^/]"}
           V == [r : Seq(E), i : Nat \ {0}]
           v0 == [r |-> <<>>, i |-> 1]
           F == [k \in 1..N |-> [v \in V |-> Scan(pattern, v)]]
           loop == Scanning(pattern)
<1>1. N \in Nat
  OBVIOUS
<1>2. v0 \in V
  OBVIOUS
<1>3. ASSUME NEW v \in V PROVE Scan(pattern, v) \in V
  <2>1. v.r \in Seq(E) /\ v.i \in Nat \ {0}
    OBVIOUS
  <2>2. v.i <= N => pattern[v.i] \in E
    BY <2>1
  <2> DEFINE two == v.i < Len(pattern) /\ pattern[v.i] = "*" /\ pattern[v.i + 1] = "*"
             element == CASE two -> ".*"
                          [] pattern[v.i] = "*" /\ ~two -> "[^/]*"
                          [] pattern[v.i] = "?" -> "[^/]"
                          [] OTHER -> pattern[v.i]
             round == [r |-> Append(v.r, element), i |-> v.i + (IF two THEN 2 ELSE 1)]
  <2>3. Scan(pattern, v) = IF v.i > N THEN v ELSE round
    BY DEF Scan
  <2>4. CASE v.i > N
    BY <2>3, <2>4
  <2>5. CASE v.i <= N
    <3>1. element \in E
      <4>1. pattern[v.i] \in E /\ ".*" \in E /\ "[^/]*" \in E /\ "[^/]" \in E
        BY <2>2, <2>5
      <4> HIDE DEF E, two
      <4> QED
        BY <4>1
    <3>2. v.i + (IF two THEN 2 ELSE 1) \in Nat \ {0}
      BY <2>1
    <3> HIDE DEF E, two, element
    <3>3. round \in V
      BY <2>1, <3>1, <3>2
    <3> QED
      BY <1>1, <2>1, <2>3, <2>5, <3>3
  <2> QED
    BY <1>1, <2>1, <2>4, <2>5
<1>4. F \in [1..N -> [V -> V]]
  BY <1>3
<1>5. \E g : IsRun(g, V, F, v0, N)
  <2> HIDE DEF V, F, N, v0
  <2> QED
    BY <1>1, <1>2, <1>4, RunExists
<1> PICK g : IsRun(g, V, F, v0, N)
  BY <1>5
<1> DEFINE Then(h, k) == Scan(pattern, h[k - 1])
<1>6. g = [k \in 0..N |-> IF k = 0 THEN v0 ELSE Then(g, k)]
  <2>1. g \in [0..N -> V] /\ g[0] = v0
    BY DEF IsRun
  <2>2. ASSUME NEW k \in 1..N PROVE g[k] = Then(g, k)
    <3>1. g[k - 1] \in V
      <4>1. k - 1 \in 0..N
        BY <1>1
      <4> HIDE DEF V
      <4> QED
        BY <2>1, <4>1
    <3>2. g[k] = F[k][g[k - 1]]
      BY DEF IsRun
    <3> HIDE DEF V
    <3> QED
      BY <3>1, <3>2
  <2>3. \A k \in 0..N : k # 0 => k \in 1..N
    BY <1>1
  <2> HIDE DEF V, F, N, Then, v0
  <2> QED
    BY <2>1, <2>2, <2>3
<1>7. loop = CHOOSE f : f = [k \in 0..N |-> IF k = 0 THEN v0 ELSE Then(f, k)]
  BY DEF Scanning
<1> HIDE DEF V, F, loop, v0
<1>8. loop = [k \in 0..N |-> IF k = 0 THEN v0 ELSE Then(loop, k)]
  BY <1>6, <1>7
<1>9. 0 \in 0..N /\ \A k \in 1..N : k \in 0..N /\ k # 0
  BY <1>1
<1> HIDE DEF Then
<1>10. loop[0] = v0 /\ \A k \in 1..N : loop[k] = Then(loop, k)
  BY <1>8, <1>9
<1> QED
  BY <1>10 DEF loop, Then, v0

\* The element of the expression for an element of the glob.
Element(c) ==
    CASE c = "**" -> ".*" [] c = "*" -> "[^/]*" [] c = "?" -> "[^/]" [] OTHER -> c
Elements(glob) == [i \in 1..Len(glob) |-> Element(glob[i])]

\* No two wildcards that the text would run together.
RunsApart(glob) ==
    \A i \in 1..(Len(glob) - 1) : glob[i] \in {"*", "**"} => glob[i + 1] \notin {"*", "**"}

\* glob_to_regex makes one element of the expression for each element of the glob.
LEMMA GlobCompiled ==
  ASSUME NEW glob \in Seq(PlainChars \cup {"**"}), RunsApart(glob)
  PROVE  glob_to_regex(GlobText(glob)) = Elements(glob)
<1> DEFINE N == Len(glob)
           text == GlobText(glob)
           L == Len(text)
           rx == Elements(glob)
           loop == Scanning(text)
<1>1. N \in Nat
  OBVIOUS
<1>2. PICK at : Places(glob, at)
  BY GlobPlaces
<1>3. /\ text \in Seq(PlainChars) /\ L \in Nat
      /\ at \in [0..N -> Nat] /\ at[0] = 0 /\ at[N] = L
      /\ \A k \in 1..N :
            /\ glob[k] = "**" => /\ at[k] = at[k - 1] + 2
                                 /\ text[at[k - 1] + 1] = "*" /\ text[at[k - 1] + 2] = "*"
            /\ glob[k] # "**" => at[k] = at[k - 1] + 1 /\ text[at[k - 1] + 1] = glob[k]
            /\ at[k] <= L
  BY <1>2 DEF Places
<1>4. /\ loop[0] = [r |-> <<>>, i |-> 1]
      /\ \A k \in 1..L : loop[k] = Scan(text, loop[k - 1])
  BY <1>3, ScanningSteps
<1>5. /\ \A k \in 0..N : SubSeq(rx, 1, k) = [i \in 1..k |-> Element(glob[i])]
      /\ \A k \in 0..(N - 1) : Append(SubSeq(rx, 1, k), Element(glob[k + 1])) = SubSeq(rx, 1, k + 1)
      /\ SubSeq(rx, 1, N) = rx
      /\ SubSeq(rx, 1, 0) = <<>>
  <2> DEFINE S == {Element(glob[i]) : i \in 1..N}
  <2>1. rx \in Seq(S) /\ Len(rx) = N
    BY DEF Elements
  <2>2. \A i \in 1..N : rx[i] = Element(glob[i])
    BY DEF Elements
  <2> HIDE DEF rx, S, N
  <2>3. \A k \in 0..N : SubSeq(rx, 1, k) = [i \in 1..k |-> Element(glob[i])]
    BY <1>1, <2>1, <2>2
  <2>4. \A k \in 0..(N - 1) : Append(SubSeq(rx, 1, k), rx[k + 1]) = SubSeq(rx, 1, k + 1)
    BY <1>1, <2>1
  <2>5. \A k \in 0..(N - 1) : k + 1 \in 1..N
    BY <1>1
  <2>6. SubSeq(rx, 1, N) = rx
    BY <2>1, SubSeqFull
  <2>7. SubSeq(rx, 1, 0) = <<>>
    BY SubSeqEmpty
  <2> QED
    BY <2>2, <2>3, <2>4, <2>5, <2>6, <2>7
<1> HIDE DEF N, text, L, rx, loop
<1> DEFINE So == {k \in 0..N : /\ k <= at[k]
                               /\ at[k] <= L
                               /\ loop[k] = [r |-> SubSeq(rx, 1, k), i |-> at[k] + 1]}
<1>6. 0 \in So
  BY <1>1, <1>3, <1>4, <1>5
<1>7. ASSUME NEW k \in Nat, k < N, k \in So PROVE k + 1 \in So
  <2>1. k \in 0..N /\ k <= at[k] /\ loop[k] = [r |-> SubSeq(rx, 1, k), i |-> at[k] + 1]
    BY <1>7
  <2> HIDE DEF So
  <2>2. k + 1 \in 1..N /\ (k + 1) - 1 = k /\ k + 1 \in 0..N /\ k \in 0..(N - 1)
    BY <1>1, <1>7
  <2>3. at[k] \in Nat /\ at[k + 1] \in Nat
    BY <1>3, <2>1, <2>2
  <2> DEFINE c == glob[k + 1]
             i == at[k] + 1
             two == i < L /\ text[i] = "*" /\ text[i + 1] = "*"
             element == CASE two -> ".*"
                          [] text[i] = "*" /\ ~two -> "[^/]*"
                          [] text[i] = "?" -> "[^/]"
                          [] OTHER -> text[i]
             before == loop[k]
  <2>4. /\ c = "**" => at[k + 1] = at[k] + 2 /\ text[at[k] + 1] = "*" /\ text[at[k] + 2] = "*"
        /\ c # "**" => at[k + 1] = at[k] + 1 /\ text[at[k] + 1] = c
        /\ at[k + 1] <= L
    BY <1>3, <2>2
  <2>5. i \in Nat /\ i <= L /\ k + 1 <= at[k + 1]
    BY <1>3, <2>1, <2>3, <2>4
  <2>6. before.r = SubSeq(rx, 1, k) /\ before.i = i
    BY <2>1
  <2>7. loop[k + 1] = Scan(text, before)
    <3>1. k + 1 \in 1..L
      BY <1>1, <1>3, <2>1, <2>3, <2>4, <2>5
    <3>2. loop[k + 1] = Scan(text, loop[(k + 1) - 1])
      BY <1>4, <3>1
    <3> QED
      BY <2>2, <3>2
  <2>8. Scan(text, before) = [r |-> Append(before.r, element), i |-> i + (IF two THEN 2 ELSE 1)]
    <3> HIDE DEF before
    <3>1. ~ (before.i > L)
      BY <1>3, <2>5, <2>6
    <3> QED
      BY <2>6, <3>1 DEF Scan, L
  <2>9. element = Element(c) /\ i + (IF two THEN 2 ELSE 1) = at[k + 1] + 1
    <3>1. CASE c = "**"
      <4>1. i + 1 = at[k] + 2 /\ i + 1 <= L
        BY <2>3, <2>4, <3>1
      <4>2. two
        BY <1>3, <2>3, <2>4, <3>1, <4>1
      <4>5. element = ".*"
        BY <4>2
      <4> HIDE DEF two
      <4>3. i + 2 = at[k + 1] + 1
        BY <2>3, <2>4, <3>1
      <4>4. i + (IF two THEN 2 ELSE 1) = at[k + 1] + 1
        BY <4>2, <4>3
      <4>6. Element(c) = ".*"
        BY <3>1 DEF Element
      <4> QED
        BY <4>4, <4>5, <4>6
    <3>2. CASE c # "**"
      <4>1. text[i] = c /\ i = at[k + 1] /\ i + 1 = at[k + 1] + 1
        BY <2>4, <3>2
      <4>2. ~ two
        <5> SUFFICES ASSUME two PROVE FALSE
          OBVIOUS
        <5>1. i < L /\ c = "*" /\ text[i + 1] = "*"
          BY <4>1
        <5>2. k + 1 # N
          BY <1>3, <4>1, <5>1
        <5>3. k + 1 \in 1..(N - 1) /\ k + 2 \in 1..N /\ (k + 2) - 1 = k + 1 /\ (k + 1) + 1 = k + 2
          BY <1>1, <1>7, <5>2
        <5>4. glob[k + 2] \notin {"*", "**"}
          BY <5>1, <5>3 DEF RunsApart, N
        <5>5. text[at[k + 1] + 1] = glob[k + 2]
          BY <1>3, <5>3, <5>4
        <5> QED
          BY <4>1, <5>1, <5>4, <5>5
      <4> HIDE DEF two
      <4> QED
        BY <3>2, <4>1, <4>2 DEF Element
    <3> QED
      BY <3>1, <3>2
  <2> HIDE DEF element, two, before, i
  <2>10. loop[k + 1] = [r |-> SubSeq(rx, 1, k + 1), i |-> at[k + 1] + 1]
    BY <1>5, <2>2, <2>6, <2>7, <2>8, <2>9
  <2> QED
    BY <2>2, <2>4, <2>5, <2>10 DEF So
<1> HIDE DEF So
<1>8. \A k \in 0..N : k \in So
  BY <1>1, <1>6, <1>7, SetInductionTo
<1>9. N \in So
  BY <1>1, <1>8
<1>10. N <= L /\ loop[N] = [r |-> rx, i |-> L + 1]
  BY <1>3, <1>5, <1>9 DEF So
<1> DEFINE Still == {k \in 0..(L - N) : loop[N + k] = [r |-> rx, i |-> L + 1]}
<1>11. 0 \in Still
  BY <1>1, <1>3, <1>10
<1>12. ASSUME NEW k \in Nat, k < L - N, k \in Still PROVE k + 1 \in Still
  <2>1. loop[N + k] = [r |-> rx, i |-> L + 1]
    BY <1>12
  <2> HIDE DEF Still
  <2>2. N + (k + 1) \in 1..L /\ (N + (k + 1)) - 1 = N + k /\ k + 1 \in 0..(L - N)
    BY <1>1, <1>3, <1>10, <1>12
  <2> DEFINE before == loop[N + k]
  <2>3. before.i = L + 1
    BY <2>1
  <2>4. loop[N + (k + 1)] = Scan(text, before)
    BY <1>4, <2>2
  <2> HIDE DEF before
  <2>5. Scan(text, before) = before
    <3>1. before.i > Len(text)
      BY <1>3, <2>3 DEF L
    <3> QED
      BY <3>1 DEF Scan
  <2>6. loop[N + (k + 1)] = [r |-> rx, i |-> L + 1]
    BY <2>1, <2>4, <2>5 DEF before
  <2> QED
    BY <2>2, <2>6 DEF Still
<1> HIDE DEF Still
<1>13. L - N \in Nat /\ N + (L - N) = L
  BY <1>1, <1>3, <1>10
<1>14. \A k \in 0..(L - N) : k \in Still
  BY <1>11, <1>12, <1>13, SetInductionTo
<1>15. loop[L] = [r |-> rx, i |-> L + 1]
  <2>1. L - N \in Still
    BY <1>13, <1>14
  <2> QED
    BY <1>13, <2>1 DEF Still
<1>16. glob_to_regex(text) = loop[L].r
  BY RegexScanned DEF loop, L
<1> QED
  BY <1>15, <1>16 DEF text, rx

-----------------------------------------------------------------------------
(* What an expression matches. *)

\* The places of the text that the first elements lead to.
Reaching(rx, text) ==
    CHOOSE f : f = [k \in 0..Len(rx) |-> IF k = 0 THEN {0} ELSE After(f[k - 1], rx[k], text)]

LEMMA MatchReached ==
  ASSUME NEW rx, NEW text
  PROVE  regex_match(rx, text) <=> Len(text) \in Reaching(rx, text)[Len(rx)]
BY Zenon DEF regex_match, Reaching

LEMMA ReachingSteps ==
  ASSUME NEW R, NEW rx \in Seq(R), NEW C, NEW text \in Seq(C)
  PROVE  LET reached == Reaching(rx, text) IN
         /\ reached[0] = {0}
         /\ \A k \in 1..Len(rx) : reached[k] = After(reached[k - 1], rx[k], text)
<1> DEFINE N == Len(rx)
           V == SUBSET (0..Len(text))
           F == [k \in 1..N |-> [v \in V |-> After(v, rx[k], text)]]
           reached == Reaching(rx, text)
<1>1. N \in Nat /\ {0} \in V
  OBVIOUS
<1>2. \A k \in 1..N, v \in V : After(v, rx[k], text) \in V
  BY DEF After
<1>3. F \in [1..N -> [V -> V]]
  BY <1>2
<1>4. \E g : IsRun(g, V, F, {0}, N)
  <2> HIDE DEF V, F, N
  <2> QED
    BY <1>1, <1>3, RunExists
<1> PICK g : IsRun(g, V, F, {0}, N)
  BY <1>4
<1> DEFINE Then(h, k) == After(h[k - 1], rx[k], text)
<1>5. g = [k \in 0..N |-> IF k = 0 THEN {0} ELSE Then(g, k)]
  <2>1. g \in [0..N -> V] /\ g[0] = {0}
    BY DEF IsRun
  <2>2. ASSUME NEW k \in 1..N PROVE g[k] = Then(g, k)
    <3>1. g[k - 1] \in V
      <4>1. k - 1 \in 0..N
        BY <1>1
      <4> HIDE DEF V
      <4> QED
        BY <2>1, <4>1
    <3>2. g[k] = F[k][g[k - 1]]
      BY DEF IsRun
    <3> HIDE DEF V
    <3> QED
      BY <3>1, <3>2
  <2>3. \A k \in 0..N : k # 0 => k \in 1..N
    BY <1>1
  <2> HIDE DEF V, F, N, Then
  <2> QED
    BY <2>1, <2>2, <2>3
<1>6. reached = CHOOSE f : f = [k \in 0..N |-> IF k = 0 THEN {0} ELSE Then(f, k)]
  BY DEF Reaching
<1> HIDE DEF V, F, reached
<1>7. reached = [k \in 0..N |-> IF k = 0 THEN {0} ELSE Then(reached, k)]
  BY <1>5, <1>6
<1>8. 0 \in 0..N /\ \A k \in 1..N : k \in 0..N /\ k # 0
  BY <1>1
<1> HIDE DEF Then
<1>9. reached[0] = {0} /\ \A k \in 1..N : reached[k] = Then(reached, k)
  BY <1>7, <1>8
<1> QED
  BY <1>9 DEF reached, Then

\* The first k elements of the glob fit the first d characters of the path.
FitsUpTo(glob, path, k, d) ==
    \E cut \in [0..k -> 0..Len(path)] :
        /\ cut[0] = 0 /\ cut[k] = d
        /\ \A j \in 1..k : /\ cut[j - 1] <= cut[j]
                           /\ Fits(SubSeq(path, cut[j - 1] + 1, cut[j]), glob[j])

\* An element of the expression matches what the element of the glob stands for.
LEMMA ElementFits ==
  ASSUME NEW c \in PlainChars \cup {"**"}, NEW piece \in Seq(PlainChars)
  PROVE  Eats(Element(c), piece) <=> Fits(piece, c)
<1>1. c \notin {".*", "[^/]*", "[^/]"}
  <2>1. /\ ".*" \notin Char /\ "[^/]*" \notin Char /\ "[^/]" \notin Char
    BY Zenon, SomeChars
  <2>2. c \in Char \/ c = "**"
    BY DEF PlainChars
  <2> QED
    BY <2>1, <2>2
<1>2. CASE c = "**"
  <2>1. \A i \in DOMAIN piece : piece[i] # "nl"
    BY DEF PlainChars
  <2> QED
    BY <1>2, <2>1 DEF Element, Eats, Fits
<1>3. CASE c = "*"
  BY <1>3 DEF Element, Eats, Fits
<1>4. CASE c = "?"
  BY <1>4 DEF Element, Eats, Fits
<1>5. CASE c \notin {"**", "*", "?"}
  <2>1. Element(c) = c
    BY <1>5 DEF Element
  <2> QED
    BY <1>1, <1>5, <2>1 DEF Eats, Fits
<1> QED
  BY <1>2, <1>3, <1>4, <1>5

\* A path is cut one piece after the other.
LEMMA OneMoreFits ==
  ASSUME NEW C, NEW path \in Seq(C), NEW glob, NEW k \in Nat, NEW d \in 0..Len(path)
  PROVE  FitsUpTo(glob, path, k + 1, d)
           <=> \E c \in 0..Len(path) : /\ FitsUpTo(glob, path, k, c) /\ c <= d
                                       /\ Fits(SubSeq(path, c + 1, d), glob[k + 1])
<1> DEFINE L == Len(path)
           Step(a, b, g) == a <= b /\ Fits(SubSeq(path, a + 1, b), g)
<1>1. L \in Nat
  OBVIOUS
<1>2. \A n : FitsUpTo(glob, path, n, d)
               <=> \E cut \in [0..n -> 0..L] :
                      cut[0] = 0 /\ cut[n] = d /\ \A j \in 1..n : Step(cut[j - 1], cut[j], glob[j])
  BY DEF FitsUpTo
<1>3. \A c : FitsUpTo(glob, path, k, c)
               <=> \E cut \in [0..k -> 0..L] :
                      cut[0] = 0 /\ cut[k] = c /\ \A j \in 1..k : Step(cut[j - 1], cut[j], glob[j])
  BY DEF FitsUpTo
<1> SUFFICES FitsUpTo(glob, path, k + 1, d)
               <=> \E c \in 0..L : FitsUpTo(glob, path, k, c) /\ Step(c, d, glob[k + 1])
  OBVIOUS
<1> HIDE DEF L, Step
<1>4. ASSUME FitsUpTo(glob, path, k + 1, d)
      PROVE  \E c \in 0..L : FitsUpTo(glob, path, k, c) /\ Step(c, d, glob[k + 1])
  <2>1. PICK cut \in [0..(k + 1) -> 0..L] :
              /\ cut[0] = 0 /\ cut[k + 1] = d
              /\ \A j \in 1..(k + 1) : Step(cut[j - 1], cut[j], glob[j])
    BY <1>2, <1>4
  <2> DEFINE part == [j \in 0..k |-> cut[j]]
  <2>2. part \in [0..k -> 0..L] /\ part[0] = 0 /\ part[k] = cut[k] /\ cut[k] \in 0..L
    BY <2>1
  <2>3. ASSUME NEW j \in 1..k PROVE Step(part[j - 1], part[j], glob[j])
    <3>1. j \in 1..(k + 1) /\ j \in 0..k /\ j - 1 \in 0..k
      OBVIOUS
    <3> QED
      BY <2>1, <3>1
  <2>4. FitsUpTo(glob, path, k, cut[k])
    <3> HIDE DEF part
    <3> QED
      BY <1>3, <2>2, <2>3
  <2>5. k + 1 \in 1..(k + 1) /\ (k + 1) - 1 = k
    OBVIOUS
  <2>6. Step(cut[k], d, glob[k + 1])
    BY <2>1, <2>5
  <2> QED
    BY <2>2, <2>4, <2>6
<1>5. ASSUME NEW c \in 0..L, FitsUpTo(glob, path, k, c), Step(c, d, glob[k + 1])
      PROVE  FitsUpTo(glob, path, k + 1, d)
  <2>1. PICK cut \in [0..k -> 0..L] :
              /\ cut[0] = 0 /\ cut[k] = c
              /\ \A j \in 1..k : Step(cut[j - 1], cut[j], glob[j])
    BY <1>3, <1>5
  <2> DEFINE longer == [j \in 0..(k + 1) |-> IF j = k + 1 THEN d ELSE cut[j]]
  <2>2. longer \in [0..(k + 1) -> 0..L] /\ longer[0] = 0 /\ longer[k + 1] = d
    BY <2>1 DEF L
  <2>3. ASSUME NEW j \in 1..(k + 1) PROVE Step(longer[j - 1], longer[j], glob[j])
    <3>1. CASE j = k + 1
      <4>1. longer[j] = d /\ longer[j - 1] = cut[k] /\ glob[j] = glob[k + 1]
        BY <3>1
      <4> HIDE DEF longer
      <4> QED
        BY <1>5, <2>1, <4>1
    <3>2. CASE j # k + 1
      <4>1. j \in 1..k /\ longer[j] = cut[j] /\ longer[j - 1] = cut[j - 1]
        BY <3>2
      <4> HIDE DEF longer
      <4> QED
        BY <2>1, <4>1
    <3> QED
      BY <3>1, <3>2
  <2> HIDE DEF longer
  <2> QED
    BY <1>2, <2>2, <2>3
<1> QED
  BY <1>4, <1>5

\* The expression of a glob matches the paths that the glob fits.
LEMMA MatchesGlob ==
  ASSUME NEW glob \in Seq(PlainChars \cup {"**"}), NEW path \in Seq(PlainChars)
  PROVE  regex_match(Elements(glob), path) <=> GlobFits(glob, path)
<1> DEFINE N == Len(glob)
           L == Len(path)
           rx == Elements(glob)
           reached == Reaching(rx, path)
           So == {k \in 0..N : \A d \in 0..L : d \in reached[k] <=> FitsUpTo(glob, path, k, d)}
<1>1. N \in Nat /\ L \in Nat
  OBVIOUS
<1>2. Len(rx) = N /\ (\A k \in 1..N : rx[k] = Element(glob[k]))
      /\ rx \in Seq({Element(glob[i]) : i \in 1..N})
  BY DEF Elements
<1>3. reached[0] = {0} /\ \A k \in 1..N : reached[k] = After(reached[k - 1], rx[k], path)
  <2>1. reached[0] = {0} /\ \A k \in 1..Len(rx) : reached[k] = After(reached[k - 1], rx[k], path)
    BY <1>2, ReachingSteps
  <2> QED
    BY <1>2, <2>1
<1> HIDE DEF rx, reached
<1>4. 0 \in So
  <2>1. ASSUME NEW d \in 0..L PROVE d = 0 <=> FitsUpTo(glob, path, 0, d)
    <3>1. ASSUME d = 0 PROVE FitsUpTo(glob, path, 0, d)
      <4> DEFINE cut == [j \in 0..0 |-> 0]
      <4>1. /\ cut \in [0..0 -> 0..Len(path)] /\ cut[0] = 0
            /\ \A j \in 1..0 : /\ cut[j - 1] <= cut[j]
                               /\ Fits(SubSeq(path, cut[j - 1] + 1, cut[j]), glob[j])
        BY <1>1
      <4> HIDE DEF cut
      <4> QED
        BY <3>1, <4>1 DEF FitsUpTo
    <3>2. ASSUME FitsUpTo(glob, path, 0, d) PROVE d = 0
      BY <3>2 DEF FitsUpTo
    <3> QED
      BY <3>1, <3>2
  <2> QED
    BY <1>1, <1>3, <2>1
<1>5. ASSUME NEW k \in Nat, k < N, k \in So PROVE k + 1 \in So
  <2>1. \A d \in 0..L : d \in reached[k] <=> FitsUpTo(glob, path, k, d)
    BY <1>5
  <2>2. k + 1 \in 1..N /\ (k + 1) - 1 = k /\ k + 1 \in 0..N
    <3> HIDE DEF So
    <3> QED
      BY <1>1, <1>5
  <2>3. reached[k + 1] = After(reached[k], Element(glob[k + 1]), path)
    BY <1>2, <1>3, <2>2
  <2>4. glob[k + 1] \in PlainChars \cup {"**"}
    BY <2>2
  <2>5. reached[k] \subseteq 0..L
    <3>1. CASE k = 0
      BY <1>1, <1>3, <3>1
    <3>2. CASE k # 0
      <4>1. k \in 1..N
        BY <1>1, <1>5, <3>2
      <4> QED
        BY <1>3, <4>1 DEF After
    <3> QED
      BY <3>1, <3>2
  <2> HIDE DEF So, N
  <2>6. ASSUME NEW d \in 0..L
        PROVE  d \in reached[k + 1] <=> FitsUpTo(glob, path, k + 1, d)
    <3> DEFINE Eaten(c) == Eats(Element(glob[k + 1]), SubSeq(path, c + 1, d))
               Fitting(c) == Fits(SubSeq(path, c + 1, d), glob[k + 1])
    <3>1. \A c \in 0..L : Eaten(c) <=> Fitting(c)
      <4>1. \A c \in 0..L : SubSeq(path, c + 1, d) \in Seq(PlainChars)
        BY <1>1
      <4> QED
        BY <2>4, <4>1, ElementFits
    <3>2. d \in reached[k + 1] <=> \E c \in reached[k] : c <= d /\ Eaten(c)
      BY <2>3 DEF After
    <3>3. FitsUpTo(glob, path, k + 1, d)
            <=> \E c \in 0..L : FitsUpTo(glob, path, k, c) /\ c <= d /\ Fitting(c)
      BY OneMoreFits
    <3> HIDE DEF Eaten, Fitting, L
    <3> QED
      BY <2>1, <2>5, <3>1, <3>2, <3>3
  <2> QED
    BY <2>2, <2>6 DEF So
<1> HIDE DEF So
<1>6. \A k \in 0..N : k \in So
  BY <1>1, <1>4, <1>5, SetInductionTo
<1>7. N \in So /\ L \in 0..L
  BY <1>1, <1>6
<1>8. L \in reached[N] <=> FitsUpTo(glob, path, N, L)
  BY <1>7 DEF So
<1>9. FitsUpTo(glob, path, N, L) <=> GlobFits(glob, path)
  <2> DEFINE Good(cut, j) == /\ cut[j - 1] <= cut[j]
                             /\ Fits(SubSeq(path, cut[j - 1] + 1, cut[j]), glob[j])
  <2>1. DOMAIN glob = 1..N
    OBVIOUS
  <2>2. FitsUpTo(glob, path, N, L)
          <=> \E cut \in [0..N -> 0..L] : cut[0] = 0 /\ cut[N] = L /\ \A j \in 1..N : Good(cut, j)
    BY Zenon DEF FitsUpTo
  <2>3. GlobFits(glob, path)
          <=> \E cut \in [0..N -> 0..L] :
                 cut[0] = 0 /\ cut[N] = L /\ \A j \in DOMAIN glob : Good(cut, j)
    BY Zenon DEF GlobFits
  <2> HIDE DEF Good
  <2> QED
    BY Zenon, <2>1, <2>2, <2>3
<1>10. regex_match(rx, path) <=> L \in reached[N]
  BY <1>2, MatchReached DEF reached
<1> QED
  BY <1>8, <1>9, <1>10 DEF rx

-----------------------------------------------------------------------------
(* The rule of a line. *)

LEMMA TailOfConcat ==
  ASSUME NEW S, NEW x \in S, NEW s \in Seq(S), NEW line, line = <<x>> \o s
  PROVE  /\ line \in Seq(S) /\ Len(line) = Len(s) + 1 /\ line[1] = x
         /\ \A i \in 1..Len(s) : line[i + 1] = s[i]
         /\ Tail(line) = s
<1>1. /\ <<x>> \o s \in Seq(S) /\ Len(<<x>> \o s) = Len(s) + 1 /\ (<<x>> \o s)[1] = x
      /\ \A i \in 1..Len(s) : (<<x>> \o s)[i + 1] = s[i]
  OBVIOUS
<1>2. Tail(<<x>> \o s) = s
  OBVIOUS
<1> QED
  BY <1>1, <1>2

LEMMA FrontOfConcat ==
  ASSUME NEW S, NEW x \in S, NEW s \in Seq(S), NEW line, line = s \o <<x>>
  PROVE  /\ line \in Seq(S) /\ Len(line) = Len(s) + 1 /\ line[Len(s) + 1] = x
         /\ \A i \in 1..Len(s) : line[i] = s[i]
         /\ SubSeq(line, 1, Len(s)) = s
<1>1. /\ s \o <<x>> \in Seq(S) /\ Len(s \o <<x>>) = Len(s) + 1 /\ (s \o <<x>>)[Len(s) + 1] = x
      /\ \A i \in 1..Len(s) : (s \o <<x>>)[i] = s[i]
  OBVIOUS
<1>2. SubSeq(s \o <<x>>, 1, Len(s)) = s
  OBVIOUS
<1> QED
  BY <1>1, <1>2

LEMMA FirstOf ==
  ASSUME NEW S, NEW s \in Seq(S), Len(s) > 0
  PROVE  SubSeq(s, 1, 1) = <<s[1]>>
<1>1. SubSeq(s, 1, 1) = [i \in 1..1 |-> s[i]]
  OBVIOUS
<1>2. <<s[1]>> = [i \in 1..1 |-> s[i]]
  OBVIOUS
<1> QED
  BY <1>1, <1>2

LEMMA SeqOfMore ==
  ASSUME NEW S, NEW T, S \subseteq T, NEW s \in Seq(S)
  PROVE  s \in Seq(T)
OBVIOUS

\* A line without spaces at its ends is not changed by Trimmed ...
LEMMA TrimmedSame ==
  ASSUME NEW S, NEW line \in Seq(S), Len(line) > 0,
         line[1] # Blank, line[Len(line)] # Blank
  PROVE  Trimmed(line) = line
<1> DEFINE ink == {i \in DOMAIN line : line[i] # Blank}
           L == Len(line)
<1>0. L \in Nat /\ L > 0 /\ DOMAIN line = 1..L /\ line[1] # Blank /\ line[L] # Blank
  OBVIOUS
<1>1. /\ 1 \in ink /\ L \in ink /\ ink # {}
      /\ \A i \in ink : i \in Nat /\ 1 <= i /\ i <= L
  <2> HIDE DEF L
  <2> QED
    BY <1>0
<1>2. Min(ink) = 1
  <2> DEFINE least == Min(ink)
  <2> HIDE DEF ink
  <2>1. \E x \in ink : \A y \in ink : x <= y
    BY <1>1
  <2>2. least \in ink /\ \A y \in ink : least <= y
    BY <2>1 DEF Min
  <2> HIDE DEF least
  <2>3. least = 1
    <3>1. 1 \in ink /\ least \in Nat /\ 1 <= least
      BY <1>1, <2>2
    <3>2. least <= 1
      BY <2>2, <3>1
    <3> QED
      BY <3>1, <3>2
  <2> QED
    BY <2>3 DEF least
<1>3. Max(ink) = Len(line)
  <2> DEFINE most == Max(ink)
  <2> HIDE DEF ink
  <2>1. \E x \in ink : \A y \in ink : x >= y
    BY <1>1
  <2>2. most \in ink /\ \A y \in ink : most >= y
    BY <2>1 DEF Max
  <2> HIDE DEF most, L
  <2>3. most = L
    <3>1. L \in ink /\ most \in Nat /\ most <= L
      BY <1>1, <2>2
    <3>2. most >= L
      BY <2>2, <3>1
    <3> QED
      BY <1>0, <3>1, <3>2
  <2> QED
    BY <2>3 DEF most, L
<1>4. Trimmed(line) = IF ink = {} THEN <<>> ELSE SubSeq(line, Min(ink), Max(ink))
  BY DEF Trimmed
<1> HIDE DEF ink
<1>5. SubSeq(line, 1, Len(line)) = line
  BY SubSeqFull
<1> QED
  BY <1>1, <1>2, <1>3, <1>4, <1>5

\* ... nor, without ./ in front, by normalize_rel_path.
LEMMA NormalizedSame ==
  ASSUME NEW S, NEW s \in Seq(S), Len(s) > 0,
         s[1] = "." => Len(s) > 1 /\ s[2] # Separator
  PROVE  normalize_rel_path(s) = s
<1> DEFINE half == Len(s) \div 2
           K == {i \in 0..half : \A j \in 1..i : s[2*j - 1] = "." /\ s[2*j] = Separator}
           rest == SubSeq(s, 2*Max(K) + 1, Len(s))
<1>1. half \in Nat /\ Len(s) \in Nat
  OBVIOUS
<1>2. K = {0}
  <2>1. 0 \in K
    BY <1>1
  <2>2. ASSUME NEW i \in K PROVE i = 0
    <3> SUFFICES ASSUME i # 0 PROVE FALSE
      OBVIOUS
    <3>1. 1 \in 1..i
      BY <1>1, <2>2
    <3>2. s[2*1 - 1] = "." /\ s[2*1] = Separator
      BY <2>2, <3>1
    <3>3. 2*1 - 1 = 1 /\ 2*1 = 2
      OBVIOUS
    <3>4. s[1] = "." /\ s[2] = Separator
      BY <3>2, <3>3
    <3> QED
      BY <3>4
  <2> HIDE DEF K
  <2> QED
    BY <2>1, <2>2
<1>3. Max(K) = 0
  <2> DEFINE most == Max({0})
  <2>1. \E x \in {0} : \A y \in {0} : x >= y
    OBVIOUS
  <2>2. most \in {0}
    BY <2>1 DEF Max
  <2> HIDE DEF K
  <2> QED
    BY <1>2, <2>2
<1>4. normalize_rel_path(s) = IF rest = <<".">> THEN <<>> ELSE rest
  BY DEF normalize_rel_path
<1> HIDE DEF K
<1>5. rest = s
  <2>1. 2*Max(K) + 1 = 1
    BY <1>3
  <2>2. SubSeq(s, 1, Len(s)) = s
    BY SubSeqFull
  <2> QED
    BY <2>1, <2>2
<1>6. s # <<".">>
  OBVIOUS
<1> HIDE DEF rest
<1> QED
  BY <1>4, <1>5, <1>6

LEMMA FirstIs ==
  ASSUME NEW S, NEW s \in Seq(S), Len(s) > 0, NEW c
  PROVE  StartsWith(s, <<c>>) <=> s[1] = c
<1>1. SubSeq(s, 1, 1) = <<s[1]>>
  BY FirstOf
<1>2. Len(<<c>>) = 1 /\ Len(<<c>>) <= Len(s)
  OBVIOUS
<1>3. StartsWith(s, <<c>>) <=> SubSeq(s, 1, 1) = <<c>>
  BY <1>2 DEF StartsWith
<1> QED
  BY <1>1, <1>3

\* A text that is the pattern of a line of its own.
Plain(text) ==
    /\ text \in Seq(PlainChars) /\ Len(text) > 0
    /\ text[1] \notin {Blank, "#", "!"} /\ text[Len(text)] \notin {Blank, Separator}
    /\ text[1] = "." => Len(text) > 1 /\ text[2] # Separator

\* The line of a pattern is read as the rule of its glob, negated and for directories
\* as it was written.
LEMMA RuleOfLine ==
  ASSUME NEW negated \in BOOLEAN, NEW dir_only \in BOOLEAN, NEW text, Plain(text)
  PROVE  RulesOfLine((IF negated THEN <<"!">> ELSE <<>>) \o text
                       \o (IF dir_only THEN <<Separator>> ELSE <<>>))
           = << Rule(negated, dir_only, text) >>
<1> DEFINE front == IF negated THEN <<"!">> ELSE <<>>
           back == IF dir_only THEN <<Separator>> ELSE <<>>
           shown == text \o back
           line == front \o text \o back
           C == Char
<1>1. "!" \in C /\ Separator \in C /\ Separator # Blank /\ Separator # "!" /\ Blank # "!"
  <2>1. "!" \in Char /\ "/" \in Char /\ Blank # "/" /\ Blank # "!"
    BY Zenon, SomeChars, BlankDiffers
  <2> QED
    BY <2>1 DEF Separator
<1> HIDE DEF C
<1>2. text \in Seq(C) /\ Len(text) \in Nat /\ Len(text) > 0
  <2>1. text \in Seq(PlainChars) /\ Len(text) > 0 /\ Len(text) \in Nat
    BY DEF Plain
  <2>2. PlainChars \subseteq C
    BY DEF PlainChars, C
  <2>3. text \in Seq(C)
    BY <2>1, <2>2, SeqOfMore
  <2> QED
    BY <2>1, <2>3
<1>3. text[1] \notin {Blank, "#", "!"} /\ text[Len(text)] \notin {Blank, Separator}
  BY DEF Plain
<1>4. /\ shown \in Seq(C) /\ Len(shown) > 0 /\ Len(shown) \in Nat
      /\ shown[1] = text[1]
      /\ shown[Len(shown)] = IF dir_only THEN Separator ELSE text[Len(text)]
      /\ (IF dir_only THEN Front(shown) ELSE shown) = text
  <2>1. CASE dir_only
    <3>1. shown = text \o <<Separator>>
      BY <2>1
    <3>2. /\ shown \in Seq(C) /\ Len(shown) = Len(text) + 1
          /\ shown[1] = text[1] /\ shown[Len(text) + 1] = Separator
          /\ SubSeq(shown, 1, Len(text)) = text
      <4> HIDE DEF shown
      <4>1. /\ shown \in Seq(C) /\ Len(shown) = Len(text) + 1 /\ shown[Len(text) + 1] = Separator
            /\ \A i \in 1..Len(text) : shown[i] = text[i]
            /\ SubSeq(shown, 1, Len(text)) = text
        BY <1>1, <1>2, <3>1, FrontOfConcat
      <4> QED
        BY <1>2, <4>1
    <3> HIDE DEF shown
    <3>3. Len(shown) - 1 = Len(text)
      BY <1>2, <3>2
    <3> QED
      BY <1>2, <2>1, <3>2, <3>3 DEF Front
  <2>2. CASE ~dir_only
    <3>1. shown = text
      BY <1>2, <2>2
    <3> HIDE DEF shown
    <3> QED
      BY <1>2, <2>2, <3>1
  <2> QED
    BY <2>1, <2>2
<1>5. /\ line \in Seq(C) /\ Len(line) > 0 /\ Len(line) \in Nat
      /\ line[1] = IF negated THEN "!" ELSE text[1]
      /\ line[Len(line)] = shown[Len(shown)]
      /\ (IF negated THEN Tail(line) ELSE line) = shown
  <2>1. back \in Seq(C)
    <3>1. <<Separator>> \in Seq(C) /\ <<>> \in Seq(C)
      BY <1>1
    <3> QED
      BY <3>1
  <2>2. line = front \o shown
    <3>1. front \in Seq(C)
      <4>1. <<"!">> \in Seq(C) /\ <<>> \in Seq(C)
        BY <1>1
      <4> QED
        BY <4>1
    <3> HIDE DEF front, back
    <3> QED
      BY <1>2, <2>1, <3>1
  <2> HIDE DEF line, shown
  <2>3. CASE negated
    <3>1. line = <<"!">> \o shown
      BY <2>2, <2>3
    <3>2. /\ line \in Seq(C) /\ Len(line) = Len(shown) + 1 /\ line[1] = "!"
          /\ line[Len(shown) + 1] = shown[Len(shown)]
          /\ Tail(line) = shown
      <4>1. /\ line \in Seq(C) /\ Len(line) = Len(shown) + 1 /\ line[1] = "!"
            /\ \A i \in 1..Len(shown) : line[i + 1] = shown[i]
            /\ Tail(line) = shown
        BY <1>1, <1>4, <3>1, TailOfConcat
      <4>2. Len(shown) \in 1..Len(shown)
        BY <1>4
      <4> QED
        BY <4>1, <4>2
    <3> QED
      BY <1>4, <2>3, <3>2
  <2>4. CASE ~negated
    <3>1. line = shown
      BY <1>4, <2>2, <2>4
    <3> QED
      BY <1>4, <2>4, <3>1
  <2> QED
    BY <2>3, <2>4
<1> HIDE DEF shown, line
<1>6. Trimmed(line) = line
  <2>1. line[1] # Blank /\ line[Len(line)] # Blank
    BY <1>1, <1>3, <1>4, <1>5
  <2> QED
    BY <1>5, <2>1, TrimmedSame
<1>7. (StartsWith(line, <<"!">>) <=> negated) /\ ~StartsWith(line, <<"#">>)
  <2>1. StartsWith(line, <<"!">>) <=> line[1] = "!"
    BY <1>5, FirstIs
  <2>2. StartsWith(line, <<"#">>) <=> line[1] = "#"
    BY <1>5, FirstIs
  <2> QED
    BY <1>3, <1>5, <2>1, <2>2
<1>8. (Last(shown) = Separator <=> dir_only) /\ shown # <<>> /\ line # <<>>
  <2>1. Last(shown) = shown[Len(shown)]
    BY DEF Last
  <2>2. shown # <<>> /\ line # <<>>
    BY <1>4, <1>5
  <2> QED
    BY <1>3, <1>4, <2>1, <2>2
<1>9. normalize_rel_path(text) = text /\ text # <<>>
  <2>1. text[1] = "." => Len(text) > 1 /\ text[2] # Separator
    BY DEF Plain
  <2>2. text # <<>>
    BY <1>2
  <2> QED
    BY <1>2, <2>1, <2>2, NormalizedSame
<1> DEFINE neg == StartsWith(line, <<"!">>)
           bare == IF neg THEN Tail(line) ELSE line
           dir == bare # <<>> /\ Last(bare) = Separator
           pattern == normalize_rel_path(IF dir THEN Front(bare) ELSE bare)
<1>10. RulesOfLine(line) = IF line = <<>> \/ StartsWith(line, <<"#">>) \/ pattern = <<>>
                          THEN <<>> ELSE << Rule(neg, dir, pattern) >>
  BY <1>6 DEF RulesOfLine
<1>11. neg = negated
  BY <1>7 DEF StartsWith
<1>12. bare = shown
  <2> HIDE DEF neg
  <2> QED
    BY <1>5, <1>11
<1>13. dir = dir_only
  <2> HIDE DEF bare
  <2> QED
    BY <1>8, <1>12
<1>14. pattern = text
  <2> HIDE DEF dir, bare
  <2> QED
    BY <1>4, <1>9, <1>12, <1>13
<1> HIDE DEF neg, bare, dir, pattern
<1>15. RulesOfLine(line) = << Rule(negated, dir_only, text) >>
  BY <1>7, <1>8, <1>9, <1>10, <1>11, <1>13, <1>14
<1> QED
  BY <1>15 DEF line

LEMMA NoRules ==
  RulesOfLine(<<>>) = <<>> /\ RulesOfLine(<<"#", "r">>) = <<>>
<1>1. RulesOfLine(<<>>) = <<>>
  <2>1. {i \in DOMAIN <<>> : <<>>[i] # Blank} = {}
    OBVIOUS
  <2>2. Trimmed(<<>>) = <<>>
    BY <2>1 DEF Trimmed
  <2> QED
    BY <2>2 DEF RulesOfLine
<1>2. RulesOfLine(<<"#", "r">>) = <<>>
  <2> DEFINE line == <<"#", "r">>
  <2>1. line \in Seq({"#", "r"}) /\ Len(line) = 2 /\ line[1] = "#" /\ line[2] = "r"
    OBVIOUS
  <2> HIDE DEF line
  <2>2. Trimmed(line) = line
    <3>1. line[1] # Blank /\ line[Len(line)] # Blank /\ Len(line) > 0
      BY <2>1, BlankDiffers
    <3> QED
      BY <2>1, <3>1, TrimmedSame
  <2>3. StartsWith(line, <<"#">>)
    BY <2>1, FirstIs
  <2>4. RulesOfLine(line) = <<>>
    BY <2>2, <2>3 DEF RulesOfLine
  <2> QED
    BY <2>4 DEF line
<1> QED
  BY <1>1, <1>2

-----------------------------------------------------------------------------
(* The rules of the patterns a user wrote. *)

\* A pattern's glob is written as a text that its line is read as.
LEMMA GlobEnds ==
  ASSUME NEW p, IsPattern(p)
  PROVE  /\ p.negated \in BOOLEAN /\ p.dir_only \in BOOLEAN
         /\ p.glob \in Seq(PlainChars \cup {"**"})
         /\ RunsApart(p.glob)
         /\ Plain(GlobText(p.glob))
<1> DEFINE glob == p.glob
           N == Len(glob)
           text == GlobText(glob)
<1>1. /\ p.negated \in BOOLEAN /\ p.dir_only \in BOOLEAN
      /\ glob \in Seq(PlainChars \cup {"**"}) /\ N > 0
      /\ \A i \in 1..(N - 1) : glob[i] \in {"*", "**"} => glob[i + 1] \notin {"*", "**"}
      /\ glob[1] \notin {Blank, "#", "!"} /\ glob[N] \notin {Blank, Separator}
      /\ glob[1] = "." => N > 1 /\ glob[2] # Separator
  BY DEF IsPattern, PlainChars
<1> HIDE DEF glob
<1>2. N \in Nat
  BY <1>1
<1>3. PICK at : Places(glob, at)
  BY <1>1, GlobPlaces
<1>4. /\ text \in Seq(PlainChars)
      /\ at \in [0..N -> Nat] /\ at[0] = 0 /\ at[N] = Len(text)
      /\ \A k \in 1..N :
            /\ glob[k] = "**" => /\ at[k] = at[k - 1] + 2
                                 /\ text[at[k - 1] + 1] = "*" /\ text[at[k - 1] + 2] = "*"
            /\ glob[k] # "**" => at[k] = at[k - 1] + 1 /\ text[at[k - 1] + 1] = glob[k]
            /\ at[k] <= Len(text)
  BY <1>3 DEF Places
<1>5. Len(text) \in Nat
  BY <1>4
<1> HIDE DEF N, text
<1>6. Separator # "*" /\ "*" # Blank
  BY Zenon, BlankDiffers DEF Separator
<1>7. Len(text) > 0 /\ text[1] = (IF glob[1] = "**" THEN "*" ELSE glob[1])
      /\ (glob[1] # "**" => at[1] = 1)
  <2>1. 1 \in 1..N /\ 1 - 1 = 0 /\ at[1] \in Nat
    BY <1>1, <1>2, <1>4
  <2>2. /\ glob[1] = "**" => at[1] = at[0] + 2 /\ text[at[0] + 1] = "*"
        /\ glob[1] # "**" => at[1] = at[0] + 1 /\ text[at[0] + 1] = glob[1]
        /\ at[1] <= Len(text)
    BY <1>4, <2>1
  <2>3. at[0] + 1 = 1 /\ at[0] + 2 = 2
    BY <1>4
  <2> QED
    BY <1>5, <2>1, <2>2, <2>3
<1>8. text[Len(text)] = (IF glob[N] = "**" THEN "*" ELSE glob[N])
  <2>1. N \in 1..N /\ at[N - 1] \in Nat
    BY <1>1, <1>2, <1>4
  <2>2. /\ glob[N] = "**" => at[N] = at[N - 1] + 2 /\ text[at[N - 1] + 2] = "*"
        /\ glob[N] # "**" => at[N] = at[N - 1] + 1 /\ text[at[N - 1] + 1] = glob[N]
    BY <1>4, <2>1
  <2> QED
    BY <1>4, <2>2
<1>9. ASSUME text[1] = "." PROVE Len(text) > 1 /\ text[2] # Separator
  <2>1. glob[1] = "."
    BY <1>7, <1>9
  <2>2. glob[1] # "**" /\ at[1] = 1
    BY <1>7, <2>1
  <2>3. N > 1 /\ glob[2] # Separator
    BY <1>1, <2>1
  <2>4. 2 \in 1..N /\ 2 - 1 = 1
    BY <1>2, <2>3
  <2>5. /\ glob[2] = "**" => at[2] = at[1] + 2 /\ text[at[1] + 1] = "*"
        /\ glob[2] # "**" => at[2] = at[1] + 1 /\ text[at[1] + 1] = glob[2]
        /\ at[2] <= Len(text)
    BY <1>4, <2>4
  <2>6. at[1] + 1 = 2 /\ at[1] + 2 = 3
    BY <2>2
  <2> QED
    BY <1>5, <1>6, <2>3, <2>5, <2>6
<1>10. Plain(text)
  <2>1. text[1] \notin {Blank, "#", "!"}
    BY <1>1, <1>6, <1>7
  <2>2. text[Len(text)] \notin {Blank, Separator}
    BY <1>1, <1>6, <1>8
  <2> QED
    BY <1>4, <1>7, <1>9, <2>1, <2>2 DEF Plain
<1>11. RunsApart(glob)
  BY <1>1 DEF RunsApart, N
<1> QED
  BY <1>1, <1>10, <1>11 DEF glob, text

\* The rule a pattern should be.
RuleOf(p) == [negated |-> p.negated, dir_only |-> p.dir_only, rx |-> Elements(p.glob)]

\* ... and is, when its line is read.
LEMMA RuleOfPattern ==
  ASSUME NEW p, IsPattern(p)
  PROVE  /\ RulesOfLine(Written(p)) = << RuleOf(p) >>
         /\ Rule(p.negated, p.dir_only, GlobText(p.glob)) = RuleOf(p)
<1>1. /\ p.negated \in BOOLEAN /\ p.dir_only \in BOOLEAN
      /\ p.glob \in Seq(PlainChars \cup {"**"})
      /\ RunsApart(p.glob)
      /\ Plain(GlobText(p.glob))
  BY GlobEnds
<1>2. glob_to_regex(GlobText(p.glob)) = Elements(p.glob)
  BY <1>1, GlobCompiled
<1>3. Rule(p.negated, p.dir_only, GlobText(p.glob)) = RuleOf(p)
  BY <1>2 DEF Rule, RuleOf
<1> DEFINE negated == p.negated
           dir_only == p.dir_only
           text == GlobText(p.glob)
<1>4. Written(p) = (IF negated THEN <<"!">> ELSE <<>>) \o text
                      \o (IF dir_only THEN <<Separator>> ELSE <<>>)
  BY DEF Written
<1>5. negated \in BOOLEAN /\ dir_only \in BOOLEAN /\ Plain(text)
  BY <1>1
<1> HIDE DEF negated, dir_only, text
<1>6. RulesOfLine(Written(p)) = << Rule(negated, dir_only, text) >>
  BY <1>4, <1>5, RuleOfLine
<1> QED
  BY <1>3, <1>6 DEF negated, dir_only, text

LEMMA WrittenLine ==
  ASSUME NEW p, IsPattern(p)
  PROVE  Written(p) \in Seq(PlainChars) /\ Written(p) # <<>>
<1>1. p.negated \in BOOLEAN /\ p.dir_only \in BOOLEAN /\ Plain(GlobText(p.glob))
  BY GlobEnds
<1> DEFINE text == GlobText(p.glob)
           front == IF p.negated THEN <<"!">> ELSE <<>>
           back == IF p.dir_only THEN <<Separator>> ELSE <<>>
<1>2. text \in Seq(PlainChars) /\ Len(text) > 0
  BY <1>1 DEF Plain
<1>3. "!" \in PlainChars /\ Separator \in PlainChars
  <2>1. "!" \in Char /\ "/" \in Char
    BY Zenon, SomeChars
  <2> QED
    BY <2>1 DEF PlainChars, Separator
<1>4. front \in Seq(PlainChars) /\ back \in Seq(PlainChars)
  <2>1. <<"!">> \in Seq(PlainChars) /\ <<Separator>> \in Seq(PlainChars) /\ <<>> \in Seq(PlainChars)
    BY <1>3
  <2> QED
    BY <2>1
<1>5. Written(p) = front \o text \o back
  BY DEF Written
<1> HIDE DEF text, front, back
<1>6. front \o text \o back \in Seq(PlainChars) /\ front \o text \o back # <<>>
  <2>1. /\ front \o text \o back \in Seq(PlainChars)
        /\ Len(front \o text \o back) = Len(front) + Len(text) + Len(back)
        /\ Len(front) \in Nat /\ Len(text) \in Nat /\ Len(back) \in Nat
    BY <1>2, <1>4
  <2> DEFINE line == front \o text \o back
  <2>2. Len(line) > 0
    BY <1>2, <2>1
  <2> HIDE DEF line
  <2>3. line # <<>>
    BY <2>2
  <2> QED
    BY <2>1, <2>3 DEF line
<1> QED
  BY <1>5, <1>6

-----------------------------------------------------------------------------
(* The last rule decides. *)

\* A pattern says something about an entry.
About(p, rel, is_dir) == (p.dir_only => is_dir) /\ GlobFits(p.glob, rel)

\* The rule of a pattern matches the entries the pattern is about.
LEMMA RuleMatches ==
  ASSUME NEW p, IsPattern(p), NEW rel \in Seq(PlainChars), NEW is_dir
  PROVE  Matches(RuleOf(p), rel, is_dir) <=> About(p, rel, is_dir)
<1>1. p.glob \in Seq(PlainChars \cup {"**"})
  BY GlobEnds
<1>2. regex_match(Elements(p.glob), rel) <=> GlobFits(p.glob, rel)
  BY <1>1, MatchesGlob
<1>3. RuleOf(p).rx = Elements(p.glob) /\ RuleOf(p).dir_only = p.dir_only
  BY DEF RuleOf
<1> QED
  BY <1>2, <1>3 DEF Matches, About

\* The loop of is_ignored over the rules.
Saying(rules, rel, is_dir) ==
    CHOOSE f : f = [i \in 0..Len(rules) |->
                      IF i = 0 THEN "listed"
                      ELSE IF Matches(rules[i], rel, is_dir)
                      THEN IF rules[i].negated THEN "listed" ELSE "ignored"
                      ELSE f[i - 1]]

LEMMA IgnoredSaid ==
  ASSUME NEW rules, NEW rel, NEW is_dir
  PROVE  is_ignored(rules, rel, is_dir)
           <=> Internal(rel) \/ Saying(rules, rel, is_dir)[Len(rules)] = "ignored"
BY Zenon DEF is_ignored, Saying

LEMMA SayingSteps ==
  ASSUME NEW rules, Len(rules) \in Nat, NEW rel, NEW is_dir
  PROVE  LET says == Saying(rules, rel, is_dir) IN
         /\ says[0] = "listed"
         /\ \A i \in 1..Len(rules) :
               says[i] = IF Matches(rules[i], rel, is_dir)
                         THEN IF rules[i].negated THEN "listed" ELSE "ignored"
                         ELSE says[i - 1]
<1> DEFINE N == Len(rules)
           V == {"listed", "ignored"}
           Next1(v, i) == IF Matches(rules[i], rel, is_dir)
                          THEN IF rules[i].negated THEN "listed" ELSE "ignored"
                          ELSE v
           F == [i \in 1..N |-> [v \in V |-> Next1(v, i)]]
           says == Saying(rules, rel, is_dir)
<1>1. N \in Nat /\ "listed" \in V
  OBVIOUS
<1>2. \A i \in 1..N, v \in V : Next1(v, i) \in V
  OBVIOUS
<1> HIDE DEF Next1
<1>3. F \in [1..N -> [V -> V]]
  BY <1>2
<1>4. \E g : IsRun(g, V, F, "listed", N)
  <2> HIDE DEF V, F, N
  <2> QED
    BY <1>1, <1>3, RunExists
<1> PICK g : IsRun(g, V, F, "listed", N)
  BY <1>4
<1>5. g = [i \in 0..N |-> IF i = 0 THEN "listed" ELSE Next1(g[i - 1], i)]
  <2>1. g \in [0..N -> V] /\ g[0] = "listed"
    BY DEF IsRun
  <2>2. ASSUME NEW i \in 1..N PROVE g[i] = Next1(g[i - 1], i)
    <3>1. g[i - 1] \in V
      <4>1. i - 1 \in 0..N
        BY <1>1
      <4> HIDE DEF V
      <4> QED
        BY <2>1, <4>1
    <3>2. g[i] = F[i][g[i - 1]]
      BY DEF IsRun
    <3> HIDE DEF V
    <3> QED
      BY <3>1, <3>2
  <2>3. \A i \in 0..N : i # 0 => i \in 1..N
    BY <1>1
  <2> HIDE DEF V, F, N
  <2> QED
    BY <2>1, <2>2, <2>3
<1>6. says = CHOOSE f : f = [i \in 0..N |-> IF i = 0 THEN "listed" ELSE Next1(f[i - 1], i)]
  BY Zenon DEF Saying, Next1
<1> HIDE DEF V, F, says
<1>7. says = [i \in 0..N |-> IF i = 0 THEN "listed" ELSE Next1(says[i - 1], i)]
  BY <1>5, <1>6
<1>8. 0 \in 0..N /\ \A i \in 1..N : i \in 0..N /\ i # 0
  BY <1>1
<1>9. says[0] = "listed" /\ \A i \in 1..N : says[i] = Next1(says[i - 1], i)
  BY <1>7, <1>8
<1> QED
  BY <1>9 DEF says, Next1

\* A set of numbers up to N that is not empty has a greatest one.
LEMMA GreatestNumber ==
  ASSUME NEW N \in Nat, NEW T \in SUBSET (1..N), T # {}
  PROVE  \E m \in T : \A j \in T : j <= m
<1> DEFINE D == {N - i : i \in T}
<1>1. D \in SUBSET Nat /\ D # {}
  <2>1. \A i \in T : N - i \in Nat
    OBVIOUS
  <2>2. PICK i \in T : TRUE
    OBVIOUS
  <2>3. N - i \in D
    BY <2>2
  <2> QED
    BY <2>1, <2>3
<1>2. PICK d \in D : \A e \in D : d <= e
  <2> HIDE DEF D
  <2> QED
    BY <1>1, LeastNumber
<1>3. PICK m \in T : d = N - m
  BY <1>2
<1>4. ASSUME NEW j \in T PROVE j <= m
  <2>1. N - j \in D /\ j \in Nat /\ m \in Nat
    BY <1>4
  <2>2. d <= N - j
    BY <1>2, <2>1
  <2> QED
    BY <1>3, <2>1, <2>2
<1> QED
  BY <1>4

\* The last of the first k patterns that is about an entry ignores it.
Ignores(patterns, k, rel, is_dir) ==
    \E i \in 1..k : /\ About(patterns[i], rel, is_dir) /\ ~patterns[i].negated
                    /\ \A j \in (i + 1)..k : ~About(patterns[j], rel, is_dir)

RulesOf(patterns) == [i \in 1..Len(patterns) |-> RuleOf(patterns[i])]

\* is_ignored, with the rules of some patterns, is what the last pattern about an entry
\* says.
LEMMA RulesIgnore ==
  ASSUME NEW patterns, Len(patterns) \in Nat,
         \A i \in 1..Len(patterns) : IsPattern(patterns[i]),
         NEW rel \in Seq(PlainChars), NEW is_dir
  PROVE  is_ignored(RulesOf(patterns), rel, is_dir)
           <=> Internal(rel) \/ Ignores(patterns, Len(patterns), rel, is_dir)
<1> DEFINE N == Len(patterns)
           rules == RulesOf(patterns)
           says == Saying(rules, rel, is_dir)
           Ab(i) == About(patterns[i], rel, is_dir)
           So == {k \in 0..N : says[k] = "ignored" <=> Ignores(patterns, k, rel, is_dir)}
<1>1. /\ N \in Nat /\ Len(rules) = N
      /\ \A i \in 1..N : Matches(rules[i], rel, is_dir) <=> Ab(i)
      /\ \A i \in 1..N : rules[i].negated = patterns[i].negated
  <2>1. Len(rules) = N
    BY DEF RulesOf
  <2>2. \A i \in 1..N : rules[i] = RuleOf(patterns[i])
    BY DEF RulesOf
  <2>3. \A i \in 1..N : Matches(RuleOf(patterns[i]), rel, is_dir) <=> Ab(i)
    BY RuleMatches
  <2>4. \A i \in 1..N : RuleOf(patterns[i]).negated = patterns[i].negated
    BY DEF RuleOf
  <2> HIDE DEF rules, Ab
  <2> QED
    BY <2>1, <2>2, <2>3, <2>4
<1>2. /\ says[0] = "listed"
      /\ \A i \in 1..N : says[i] = IF Ab(i)
                                   THEN IF patterns[i].negated THEN "listed" ELSE "ignored"
                                   ELSE says[i - 1]
  <2>1. /\ says[0] = "listed"
        /\ \A i \in 1..Len(rules) :
              says[i] = IF Matches(rules[i], rel, is_dir)
                        THEN IF rules[i].negated THEN "listed" ELSE "ignored"
                        ELSE says[i - 1]
    BY <1>1, SayingSteps
  <2> HIDE DEF Ab, says, rules
  <2> QED
    BY <1>1, <2>1
<1>3. \A k : Ignores(patterns, k, rel, is_dir)
               <=> \E i \in 1..k : Ab(i) /\ ~patterns[i].negated /\ \A j \in (i + 1)..k : ~Ab(j)
  BY DEF Ignores
<1> HIDE DEF Ab, says, rules, N
<1>4. 0 \in So
  BY <1>1, <1>2, <1>3
<1>5. ASSUME NEW k \in Nat, k < N, k \in So PROVE k + 1 \in So
  <2>1. says[k] = "ignored" <=> Ignores(patterns, k, rel, is_dir)
    BY <1>5
  <2> HIDE DEF So
  <2>2. k + 1 \in 1..N /\ (k + 1) - 1 = k /\ k + 1 \in 0..N
    BY <1>1, <1>5
  <2>3. says[k + 1] = IF Ab(k + 1)
                      THEN IF patterns[k + 1].negated THEN "listed" ELSE "ignored"
                      ELSE says[k]
    BY <1>2, <2>2
  <2>4. CASE Ab(k + 1)
    <3>1. ASSUME Ignores(patterns, k + 1, rel, is_dir) PROVE ~patterns[k + 1].negated
      <4>1. PICK i \in 1..(k + 1) : Ab(i) /\ ~patterns[i].negated
                                    /\ \A j \in (i + 1)..(k + 1) : ~Ab(j)
        BY <1>3, <3>1
      <4>2. i = k + 1
        BY <2>4, <4>1
      <4> QED
        BY <4>1, <4>2
    <3>2. ASSUME ~patterns[k + 1].negated PROVE Ignores(patterns, k + 1, rel, is_dir)
      <4>1. k + 1 \in 1..(k + 1) /\ \A j \in (k + 1 + 1)..(k + 1) : FALSE
        OBVIOUS
      <4> QED
        BY <1>3, <2>4, <3>2, <4>1
    <3>3. says[k + 1] = "ignored" <=> ~patterns[k + 1].negated
      BY <2>3, <2>4
    <3> QED
      BY <2>2, <3>1, <3>2, <3>3 DEF So
  <2>5. CASE ~Ab(k + 1)
    <3>1. Ignores(patterns, k + 1, rel, is_dir) <=> Ignores(patterns, k, rel, is_dir)
      <4>1. ASSUME NEW i \in 1..(k + 1), Ab(i), ~patterns[i].negated,
                   \A j \in (i + 1)..(k + 1) : ~Ab(j)
            PROVE  Ignores(patterns, k, rel, is_dir)
        <5>1. i \in 1..k /\ \A j \in (i + 1)..k : j \in (i + 1)..(k + 1)
          BY <2>5, <4>1
        <5> QED
          BY <1>3, <4>1, <5>1
      <4>2. ASSUME NEW i \in 1..k, Ab(i), ~patterns[i].negated,
                   \A j \in (i + 1)..k : ~Ab(j)
            PROVE  Ignores(patterns, k + 1, rel, is_dir)
        <5>1. i \in 1..(k + 1) /\ \A j \in (i + 1)..(k + 1) : j \in (i + 1)..k \/ j = k + 1
          OBVIOUS
        <5> QED
          BY <1>3, <2>5, <4>2, <5>1
      <4> QED
        BY <1>3, <4>1, <4>2
    <3> QED
      BY <2>1, <2>2, <2>3, <2>5, <3>1 DEF So
  <2> QED
    BY <2>4, <2>5
<1> HIDE DEF So
<1>6. \A k \in 0..N : k \in So
  BY <1>1, <1>4, <1>5, SetInductionTo
<1>7. says[N] = "ignored" <=> Ignores(patterns, N, rel, is_dir)
  <2>1. N \in So
    BY <1>1, <1>6
  <2> QED
    BY <2>1 DEF So
<1>8. is_ignored(rules, rel, is_dir) <=> Internal(rel) \/ says[N] = "ignored"
  <2>1. is_ignored(rules, rel, is_dir) <=> Internal(rel) \/ says[Len(rules)] = "ignored"
    BY IgnoredSaid DEF says
  <2> QED
    BY <1>1, <2>1
<1> QED
  BY <1>7, <1>8 DEF rules, N

\* So is SaidIgnored.
LEMMA LastSaid ==
  ASSUME NEW P, NEW patterns \in Seq(P), NEW rel, NEW is_dir,
         \A i \in 1..Len(patterns) : patterns[i].negated \in BOOLEAN
  PROVE  SaidIgnored(patterns, rel, is_dir) <=> Ignores(patterns, Len(patterns), rel, is_dir)
<1> DEFINE N == Len(patterns)
           Ab(i) == About(patterns[i], rel, is_dir)
           about == {i \in DOMAIN patterns : Ab(i)}
           last == Max(about)
<1>1. N \in Nat /\ DOMAIN patterns = 1..N
  OBVIOUS
<1>2. SaidIgnored(patterns, rel, is_dir) <=> about # {} /\ ~patterns[last].negated
  BY DEF SaidIgnored, About
<1>3. Ignores(patterns, N, rel, is_dir)
        <=> \E i \in 1..N : Ab(i) /\ ~patterns[i].negated /\ \A j \in (i + 1)..N : ~Ab(j)
  BY DEF Ignores
<1> HIDE DEF Ab, N
<1>4. about \subseteq 1..N /\ \A i : i \in about <=> i \in 1..N /\ Ab(i)
  BY <1>1
<1> HIDE DEF about
<1>5. about # {} => last \in about /\ \A j \in about : j <= last
  <2> SUFFICES ASSUME about # {} PROVE last \in about /\ \A j \in about : j <= last
    OBVIOUS
  <2>1. \E m \in about : \A j \in about : j <= m
    BY <1>1, <1>4, GreatestNumber
  <2>2. \E m \in about : \A j \in about : m >= j
    BY <1>4, <2>1
  <2>3. last \in about /\ \A j \in about : last >= j
    BY <2>2 DEF Max
  <2> HIDE DEF last
  <2> QED
    BY <1>4, <2>3
<1> HIDE DEF last
<1>6. ASSUME about # {}, ~patterns[last].negated
      PROVE  Ignores(patterns, N, rel, is_dir)
  <2>1. last \in 1..N /\ Ab(last) /\ \A j \in about : j <= last
    BY <1>4, <1>5, <1>6
  <2>2. \A j \in (last + 1)..N : ~Ab(j)
    BY <1>1, <1>4, <2>1
  <2> QED
    BY <1>3, <1>6, <2>1, <2>2
<1>7. ASSUME NEW i \in 1..N, Ab(i), ~patterns[i].negated, \A j \in (i + 1)..N : ~Ab(j)
      PROVE  about # {} /\ ~patterns[last].negated
  <2>1. i \in about
    BY <1>4, <1>7
  <2>2. last \in 1..N /\ Ab(last) /\ i <= last
    BY <1>4, <1>5, <2>1
  <2>3. last = i
    BY <1>1, <1>7, <2>2
  <2> QED
    BY <1>7, <2>1, <2>3
<1> QED
  BY <1>2, <1>3, <1>6, <1>7 DEF N

-----------------------------------------------------------------------------
(* What the file is read as. *)

\* The names of the defaults and of what init writes.
RuleNames == {<<"n">>, kIgnoreFile, EnvFile, IdeaDir}

LEMMA DefaultPatterns ==
  ASSUME NEW glob \in RuleNames
  PROVE  /\ \A dir_only \in BOOLEAN : IsPattern(Says(dir_only, glob))
         /\ GlobText(glob) = glob
<1>1. ASSUME NEW c \in {"n", "i", "v", "w"}
      PROVE  /\ \A dir_only \in BOOLEAN : IsPattern(Says(dir_only, <<c>>))
             /\ GlobText(<<c>>) = <<c>>
  <2>1. c \in PlainChars /\ c # "**" /\ c # "." /\ c \notin {Blank, "#", "!"} /\ c # Separator
    <3>1. /\ "n" \in Char /\ "i" \in Char /\ "v" \in Char /\ "w" \in Char
          /\ Blank # "n" /\ Blank # "i" /\ Blank # "v" /\ Blank # "w"
      BY Zenon, SomeChars, BlankDiffers
    <3> QED
      BY <3>1 DEF PlainChars, Separator
  <2> DEFINE one == <<c>>
  <2>2. /\ one \in Seq(PlainChars) /\ Len(one) = 1 /\ one[1] = c /\ DOMAIN one = 1..1
        /\ one \in Seq((Char \ {"nl"}) \cup {"**"})
    BY <2>1 DEF PlainChars
  <2>3. GlobText(one) = one
    <3>1. GlobText(one) = FlattenSeq([i \in DOMAIN one |-> IF one[i] = "**" THEN <<"*", "*">>
                                                            ELSE <<one[i]>>])
      BY DEF GlobText
    <3> HIDE DEF one
    <3>2. [i \in DOMAIN one |-> IF one[i] = "**" THEN <<"*", "*">> ELSE <<one[i]>>]
             = [i \in 1..Len(one) |-> <<one[i]>>]
      BY <2>1, <2>2
    <3>3. FlattenSeq([i \in 1..Len(one) |-> <<one[i]>>]) = one
      BY <2>2, FlattenSingles
    <3> QED
      BY <3>1, <3>2, <3>3
  <2>4. ASSUME NEW dir_only \in BOOLEAN
        PROVE  IsPattern(Says(dir_only, one))
    <3> DEFINE p == Says(dir_only, one)
    <3>1. p.negated \in BOOLEAN /\ p.dir_only \in BOOLEAN /\ p.glob = one
      BY DEF Says
    <3>2. \A i \in 1..(Len(one) - 1) : FALSE
      BY <2>2
    <3>3. Len(one) > 0 /\ one[1] \notin {Blank, "#", "!"} /\ one[1] # "."
          /\ one[Len(one)] \notin {Blank, Separator}
      BY <2>1, <2>2
    <3> HIDE DEF one, p
    <3>4. IsPattern(p)
      BY <2>2, <3>1, <3>2, <3>3 DEF IsPattern
    <3> QED
      BY <3>4 DEF p
  <2> QED
    BY <2>3, <2>4
<1>2. \E c \in {"n", "i", "v", "w"} : glob = <<c>>
  BY DEF RuleNames, kIgnoreFile, EnvFile, IdeaDir
<1> QED
  BY <1>1, <1>2

\* Lines that end with a line feed each are read as those lines.
LEMMA LinesWritten ==
  ASSUME NEW lines \in Seq(Seq(PlainChars))
  PROVE  Holds(FlattenSeq([i \in 1..Len(lines) |-> lines[i] \o <<"nl">>]), lines)
<1> DEFINE N == Len(lines)
           ended == [i \in 1..N |-> lines[i] \o <<"nl">>]
<1>1. N \in Nat /\ \A i \in 1..N : lines[i] \in Seq(PlainChars)
  OBVIOUS
<1>2. "nl" \in Char
  BY Zenon, SomeChars
<1>3. PlainChars \subseteq Char /\ \A c \in PlainChars : c # "nl"
  BY DEF PlainChars
<1>4. ASSUME NEW i \in 1..N
      PROVE  /\ lines[i] \in Seq(Char) /\ \A j \in 1..Len(lines[i]) : lines[i][j] # "nl"
             /\ lines[i] \o <<"nl">> \in Seq(Char)
  <2> DEFINE line == lines[i]
  <2>1. line \in Seq(PlainChars)
    BY <1>1
  <2> HIDE DEF line
  <2>2. line \in Seq(Char)
    BY <1>3, <2>1, SeqOfMore
  <2>3. \A j \in 1..Len(line) : line[j] # "nl"
    BY <1>3, <2>1
  <2>4. line \o <<"nl">> \in Seq(Char)
    BY <1>2, <2>2
  <2> QED
    BY <2>2, <2>3, <2>4 DEF line
<1>5. ended \in Seq(Seq(Char)) /\ Len(ended) = N
  <2> DEFINE V == Seq(Char)
             one(i) == lines[i] \o <<"nl">>
  <2>1. \A i \in 1..N : one(i) \in V
    BY <1>4
  <2>2. ended = [i \in 1..N |-> one(i)]
    OBVIOUS
  <2> HIDE DEF V, one, ended, N
  <2>3. ended \in Seq(V) /\ Len(ended) = N
    BY <1>1, <2>1, <2>2
  <2> QED
    BY <2>3 DEF V
<1>6. \A i \in 1..N : ended[i] = lines[i] \o <<"nl">>
  OBVIOUS
<1> HIDE DEF ended
<1>7. \E u \in [0..Len(ended) -> Seq(Char)] :
         /\ u[0] = <<>>
         /\ \A i \in 1..Len(ended) : u[i] = u[i - 1] \o ended[i]
         /\ FlattenSeq(ended) = u[Len(ended)]
  BY Zenon, <1>5, FlattenSteps
<1>8. Len(ended) = N
  BY <1>5
<1> HIDE DEF N
<1>9. PICK u \in [0..N -> Seq(Char)] :
         /\ u[0] = <<>>
         /\ \A i \in 1..N : u[i] = u[i - 1] \o ended[i]
         /\ FlattenSeq(ended) = u[N]
  BY Zenon, <1>7, <1>8
<1> DEFINE So == {k \in 0..N : ReadAs(u[k], SubSeq(lines, 1, k))}
<1>10. 0 \in So
  <2>1. SubSeq(lines, 1, 0) = <<>>
    BY SubSeqEmpty
  <2> QED
    <3>1. ReadAs(u[0], SubSeq(lines, 1, 0))
      BY <1>9, <2>1, NothingRead
    <3> QED
      BY <1>1, <3>1
<1>11. ASSUME NEW k \in Nat, k < N, k \in So PROVE k + 1 \in So
  <2>1. ReadAs(u[k], SubSeq(lines, 1, k))
    BY <1>11
  <2> HIDE DEF So
  <2>2. k + 1 \in 1..N /\ (k + 1) - 1 = k /\ k + 1 \in 0..N /\ k \in 0..N
    BY <1>1, <1>11
  <2> DEFINE line == lines[k + 1]
             sofar == u[k]
             held == SubSeq(lines, 1, k)
  <2>3. /\ line \in Seq(Char) /\ \A j \in 1..Len(line) : line[j] # "nl"
    BY <1>4, <2>2
  <2>4. sofar \in Seq(Char)
    <3> DEFINE V == Seq(Char)
    <3>1. u \in [0..N -> V]
      BY <1>9
    <3> HIDE DEF V
    <3>2. u[k] \in V
      BY <2>2, <3>1
    <3> QED
      BY <3>2 DEF V
  <2>5. Append(held, line) = SubSeq(lines, 1, k + 1)
    BY <2>2 DEF N
  <2>6. u[k + 1] = sofar \o (line \o <<"nl">>)
    <3>1. u[k + 1] = u[(k + 1) - 1] \o ended[k + 1]
      BY <1>9, <2>2
    <3> QED
      BY <1>6, <2>2, <3>1
  <2> HIDE DEF line, sofar, held
  <2>7. u[k + 1] = sofar \o line \o <<"nl">>
    <3>1. <<"nl">> \in Seq(Char)
      BY <1>2
    <3> QED
      BY <2>3, <2>4, <2>6, <3>1
  <2>8. ReadAs(sofar, held)
    BY <2>1 DEF sofar, held
  <2>9. ReadAs(sofar \o line \o <<"nl">>, Append(held, line))
    BY <1>2, <2>3, <2>4, <2>8, LineRead
  <2>10. ReadAs(u[k + 1], SubSeq(lines, 1, k + 1))
    BY <2>5, <2>7, <2>9
  <2> QED
    BY <2>2, <2>10 DEF So
<1> HIDE DEF So
<1>12. \A k \in 0..N : k \in So
  BY <1>1, <1>10, <1>11, SetInductionTo
<1>13. ReadAs(u[N], lines)
  <2>1. N \in So
    BY <1>1, <1>12
  <2>2. SubSeq(lines, 1, N) = lines
    BY SubSeqFull DEF N
  <2> QED
    BY <2>1, <2>2 DEF So
<1>14. u[N] \in Seq(Char)
  <2> DEFINE V == Seq(Char)
  <2>1. u \in [0..N -> V] /\ N \in 0..N
    BY <1>1, <1>9
  <2> HIDE DEF V
  <2>2. u[N] \in V
    BY <2>1
  <2> QED
    BY <2>2 DEF V
<1>15. Holds(FlattenSeq(ended), lines)
  BY <1>9, <1>13, <1>14 DEF Holds
<1> QED
  BY <1>15 DEF ended, N

\* The file that init makes is read as the lines it wrote.
LEMMA InitHolds ==
  /\ InitLines \in Seq(Seq(PlainChars))
  /\ Holds(InitFile(Absent), InitLines)
<1>1. /\ "#" \in PlainChars /\ "r" \in PlainChars /\ "i" \in PlainChars /\ "n" \in PlainChars
      /\ "/" \in PlainChars /\ "v" \in PlainChars /\ "w" \in PlainChars
  <2>1. /\ "#" \in Char /\ "r" \in Char /\ "i" \in Char /\ "n" \in Char /\ "/" \in Char
        /\ "v" \in Char /\ "w" \in Char
    BY Zenon, SomeChars
  <2> QED
    BY <2>1 DEF PlainChars
<1>2. /\ <<"#", "r">> \in Seq(PlainChars) /\ <<>> \in Seq(PlainChars)
      /\ kIgnoreFile \in Seq(PlainChars) /\ <<"n", Separator>> \in Seq(PlainChars)
      /\ EnvFile \in Seq(PlainChars) /\ IdeaDir \in Seq(PlainChars)
  BY <1>1 DEF kIgnoreFile, Separator, EnvFile, IdeaDir
<1>3. InitLines \in Seq(Seq(PlainChars))
  <2> DEFINE V == Seq(PlainChars)
  <2>1. /\ <<"#", "r">> \in V /\ <<>> \in V /\ kIgnoreFile \in V /\ <<"n", Separator>> \in V
        /\ EnvFile \in V /\ IdeaDir \in V
    BY <1>2
  <2> HIDE DEF V
  <2>2. InitLines \in Seq(V)
    BY <2>1 DEF InitLines
  <2> QED
    BY <2>2 DEF V
<1>4. InitFile(Absent) = FlattenSeq([i \in 1..Len(InitLines) |-> InitLines[i] \o <<"nl">>])
  <2>1. DOMAIN InitLines = 1..Len(InitLines)
    BY <1>3
  <2>2. InitFile(Absent) = FlattenSeq([i \in DOMAIN InitLines |-> InitLines[i] \o <<"nl">>])
    BY DEF InitFile, InitText
  <2> QED
    BY Zenon, <2>1, <2>2
<1>5. Holds(InitFile(Absent), InitLines)
  BY <1>3, <1>4, LinesWritten
<1> QED
  BY <1>3, <1>5

\* load_ignore_set makes the rules of the lines, after its own.
LEMMA LinesAreRead ==
  ASSUME NEW text, NEW lines \in Seq(Seq(Char)), Holds(text, lines)
  PROVE  load_ignore_set(text)
           = DefaultRules \o FlattenSeq([i \in 1..Len(lines) |-> RulesOfLine(lines[i])])
<1> DEFINE ofLines == FlattenSeq([i \in 1..Len(lines) |-> RulesOfLine(lines[i])])
<1>1. CASE text = Absent /\ lines = <<>>
  <2>1. ofLines = <<>>
    <3>1. [i \in 1..Len(lines) |-> RulesOfLine(lines[i])] = <<>>
      BY <1>1
    <3>2. FlattenSeq(<<>>) = <<>>
      BY DEF FlattenSeq
    <3> QED
      BY <3>1, <3>2
  <2>2. load_ignore_set(text) = DefaultRules \o <<>>
    BY Zenon, <1>1 DEF load_ignore_set
  <2> HIDE DEF ofLines
  <2>3. load_ignore_set(text) = DefaultRules \o ofLines
    BY Zenon, <2>1, <2>2
  <2> QED
    BY Zenon, <2>3 DEF ofLines
<1>2. CASE text \in Seq(Char) /\ ReadAs(text, lines)
  <2>1. text # Absent
    BY <1>2, AbsentAssumption
  <2>2. Lines(text) = lines
    <3> DEFINE end == Reading(text)[Len(text)]
    <3>1. end.done = lines /\ end.line = <<>>
      BY <1>2 DEF ReadAs
    <3>2. Lines(text) = IF end.line = <<>> THEN end.done ELSE Append(end.done, end.line)
      BY LinesRead
    <3> HIDE DEF end
    <3> QED
      BY <3>1, <3>2
  <2>3. DOMAIN lines = 1..Len(lines)
    OBVIOUS
  <2>4. load_ignore_set(text)
          = DefaultRules \o FlattenSeq([i \in DOMAIN Lines(text) |-> RulesOfLine(Lines(text)[i])])
    BY <2>1 DEF load_ignore_set
  <2> QED
    BY Zenon, <2>2, <2>3, <2>4
<1> QED
  BY <1>1, <1>2 DEF Holds

LEMMA RuleLinesConcat ==
  ASSUME NEW S, NEW R, \A line \in S : RulesOfLine(line) \in R, NEW a \in Seq(S), NEW b \in Seq(S)
  PROVE  [i \in 1..Len(a \o b) |-> RulesOfLine((a \o b)[i])]
           = [i \in 1..Len(a) |-> RulesOfLine(a[i])] \o [i \in 1..Len(b) |-> RulesOfLine(b[i])]
OBVIOUS

LEMMA RulesOfConcat ==
  ASSUME NEW S, NEW a \in Seq(S), NEW b \in Seq(S)
  PROVE  RulesOf(a \o b) = RulesOf(a) \o RulesOf(b)
<1> DEFINE R == {RuleOf(x) : x \in S}
<1>1. \A x \in S : RuleOf(x) \in R
  OBVIOUS
<1> HIDE DEF R
<1> QED
  BY <1>1 DEF RulesOf

LEMMA FewJoined ==
  ASSUME NEW a, NEW b
  PROVE  <<>> \o <<a>> = <<a>> /\ <<a>> \o <<b>> = <<a, b>>
<1> DEFINE q == <<a>> \o <<b>>
<1>1. <<a>> \in Seq({a, b}) /\ <<b>> \in Seq({a, b})
  OBVIOUS
<1>2. q \in Seq({a, b}) /\ Len(q) = 2
  BY <1>1
<1>3. q[1] = a
  BY <1>1
<1>4. q[2] = b
  BY <1>1
<1>5. q = <<q[1], q[2]>>
  <2> HIDE DEF q
  <2> QED
    BY <1>2
<1>6. q = <<a, b>>
  <2> HIDE DEF q
  <2> QED
    BY <1>3, <1>4, <1>5
<1>7. <<>> \o <<a>> = <<a>>
  OBVIOUS
<1> QED
  BY <1>6, <1>7

LEMMA SaidRule ==
  ASSUME NEW glob \in RuleNames, NEW dir_only \in BOOLEAN
  PROVE  /\ IsPattern(Says(dir_only, glob))
         /\ Rule(FALSE, dir_only, glob) = RuleOf(Says(dir_only, glob))
         /\ RulesOfLine(IF dir_only THEN glob \o <<Separator>> ELSE glob)
              = << RuleOf(Says(dir_only, glob)) >>
<1> DEFINE p == Says(dir_only, glob)
<1>1. p.negated = FALSE /\ p.dir_only = dir_only /\ p.glob = glob
  BY DEF Says
<1>2. IsPattern(p) /\ GlobText(glob) = glob
  BY DefaultPatterns
<1>3. Written(p) = IF dir_only THEN glob \o <<Separator>> ELSE glob
  <2>1. Written(p) = <<>> \o GlobText(glob) \o (IF dir_only THEN <<Separator>> ELSE <<>>)
    BY <1>1 DEF Written
  <2>2. Written(p) = <<>> \o glob \o (IF dir_only THEN <<Separator>> ELSE <<>>)
    BY Zenon, <1>2, <2>1
  <2>3. \E c : glob = <<c>>
    BY DEF RuleNames, kIgnoreFile, EnvFile, IdeaDir
  <2>4. <<>> \o glob = glob /\ glob \o <<>> = glob
    BY <2>3
  <2> HIDE DEF p
  <2>5. Written(p) = glob \o (IF dir_only THEN <<Separator>> ELSE <<>>)
    BY Zenon, <2>2, <2>4
  <2> QED
    BY <2>4, <2>5
<1>4. RulesOfLine(Written(p)) = << RuleOf(p) >>
      /\ Rule(p.negated, p.dir_only, GlobText(p.glob)) = RuleOf(p)
  <2> HIDE DEF p
  <2> QED
    BY <1>2, RuleOfPattern
<1> HIDE DEF p
<1>5. RulesOfLine(IF dir_only THEN glob \o <<Separator>> ELSE glob) = << RuleOf(p) >>
  BY Zenon, <1>3, <1>4
<1>6. Rule(FALSE, dir_only, glob) = RuleOf(p)
  BY Zenon, <1>1, <1>2, <1>4
<1> QED
  BY <1>2, <1>5, <1>6 DEF p

LEMMA DefaultsAreRules ==
  DefaultRules = RulesOf(Defaults)
<1> DEFINE r1 == RuleOf(Says(TRUE, <<"n">>))
           r2 == RuleOf(Says(FALSE, kIgnoreFile))
           r(i) == RuleOf(Defaults[i])
<1>1. Rule(FALSE, TRUE, <<"n">>) = r1 /\ Rule(FALSE, FALSE, kIgnoreFile) = r2
  <2>1. <<"n">> \in RuleNames /\ kIgnoreFile \in RuleNames
    BY Zenon DEF RuleNames
  <2> QED
    BY <2>1, SaidRule
<1>2. Len(Defaults) = 2 /\ Defaults[1] = Says(TRUE, <<"n">>) /\ Defaults[2] = Says(FALSE, kIgnoreFile)
  BY DEF Defaults
<1>3. r(1) = r1 /\ r(2) = r2
  BY <1>2
<1>4. RulesOf(Defaults) = [i \in 1..2 |-> r(i)]
  BY <1>2 DEF RulesOf
<1> HIDE DEF r, r1, r2
<1>5. [i \in 1..2 |-> r(i)] = <<r1, r2>>
  BY <1>3
<1> QED
  BY <1>1, <1>4, <1>5 DEF DefaultRules

\* Two of the lines that init writes are none; the others are its patterns.
LEMMA InitLineRules ==
  /\ Len(InitLines) = 6 /\ Len(InitPatterns) = 4
  /\ \A i \in 1..2 : RulesOfLine(InitLines[i]) = <<>>
  /\ \A i \in 1..4 : /\ IsPattern(InitPatterns[i])
                     /\ RulesOfLine(InitLines[2 + i]) = << RuleOf(InitPatterns[i]) >>
<1>1. /\ Len(InitLines) = 6 /\ InitLines[1] = <<"#", "r">> /\ InitLines[2] = <<>>
      /\ InitLines[2 + 1] = kIgnoreFile /\ InitLines[2 + 2] = EnvFile
      /\ InitLines[2 + 3] = IdeaDir /\ InitLines[2 + 4] = <<"n", Separator>>
  BY DEF InitLines
<1>2. /\ Len(InitPatterns) = 4 /\ InitPatterns[1] = Says(FALSE, kIgnoreFile)
      /\ InitPatterns[2] = Says(FALSE, EnvFile) /\ InitPatterns[3] = Says(FALSE, IdeaDir)
      /\ InitPatterns[4] = Says(TRUE, <<"n">>)
  BY DEF InitPatterns
<1>3. RulesOfLine(<<"#", "r">>) = <<>> /\ RulesOfLine(<<>>) = <<>>
  BY NoRules
<1>4. ASSUME NEW glob \in {kIgnoreFile, EnvFile, IdeaDir}
      PROVE  IsPattern(Says(FALSE, glob)) /\ RulesOfLine(glob) = << RuleOf(Says(FALSE, glob)) >>
  <2>1. glob \in RuleNames
    BY Zenon DEF RuleNames
  <2>2. RulesOfLine(IF FALSE THEN glob \o <<Separator>> ELSE glob) = << RuleOf(Says(FALSE, glob)) >>
        /\ IsPattern(Says(FALSE, glob))
    BY <2>1, SaidRule
  <2> QED
    BY Zenon, <2>2
<1>5. /\ IsPattern(Says(TRUE, <<"n">>))
      /\ RulesOfLine(<<"n", Separator>>) = << RuleOf(Says(TRUE, <<"n">>)) >>
  <2>1. <<"n">> \in RuleNames
    BY Zenon DEF RuleNames
  <2>2. RulesOfLine(IF TRUE THEN <<"n">> \o <<Separator>> ELSE <<"n">>)
           = << RuleOf(Says(TRUE, <<"n">>)) >> /\ IsPattern(Says(TRUE, <<"n">>))
    BY <2>1, SaidRule
  <2>3. <<"n">> \o <<Separator>> = <<"n", Separator>>
    BY Zenon, FewJoined
  <2> QED
    BY Zenon, <2>2, <2>3
<1>6. \A i \in 1..2 : i = 1 \/ i = 2
  OBVIOUS
<1>7. \A i \in 1..4 : i = 1 \/ i = 2 \/ i = 3 \/ i = 4
  OBVIOUS
<1>8. \A i \in 1..2 : RulesOfLine(InitLines[i]) = <<>>
  BY Zenon, <1>1, <1>3, <1>6
<1>9. ASSUME NEW i \in 1..4
      PROVE  /\ IsPattern(InitPatterns[i])
             /\ RulesOfLine(InitLines[2 + i]) = << RuleOf(InitPatterns[i]) >>
  BY Zenon, <1>1, <1>2, <1>4, <1>5, <1>7
<1> QED
  BY <1>1, <1>2, <1>8, <1>9

\* The file that init makes is read as the patterns it wrote.
LEMMA InitRules ==
  ASSUME NEW R, \A i \in 1..4 : RuleOf(InitPatterns[i]) \in R
  PROVE  /\ FlattenSeq([i \in 1..Len(InitLines) |-> RulesOfLine(InitLines[i])])
               = RulesOf(InitPatterns)
         /\ \A i \in 1..Len(InitLines) : RulesOfLine(InitLines[i]) \in Seq(R)
<1> DEFINE none == [i \in 1..2 |-> <<>>]
           rule(i) == RuleOf(InitPatterns[i])
           rules == [i \in 1..4 |-> rule(i)]
           some == [i \in 1..4 |-> <<rule(i)>>]
           line(i) == RulesOfLine(InitLines[i])
           V == Seq(R)
<1>1. /\ Len(InitLines) = 6 /\ Len(InitPatterns) = 4
      /\ line(1) = <<>> /\ line(2) = <<>>
      /\ \A i \in 1..4 : line(2 + i) = <<rule(i)>>
  BY InitLineRules
<1>2. \A i \in 1..4 : rule(i) \in R /\ <<rule(i)>> \in V
  <2>1. \A i \in 1..4 : rule(i) \in R
    OBVIOUS
  <2> HIDE DEF rule
  <2> QED
    BY <2>1
<1>3. RulesOf(InitPatterns) = rules
  BY <1>1 DEF RulesOf
<1> HIDE DEF rule, line
<1>4. rules \in Seq(R) /\ Len(rules) = 4 /\ \A i \in 1..4 : rules[i] = rule(i)
  BY <1>2
<1>5. <<>> \in V
  OBVIOUS
<1> HIDE DEF V
<1>6. none \in Seq(V) /\ some \in Seq(V) /\ Len(none) = 2 /\ Len(some) = 4
  BY <1>2, <1>5
<1>7. \A i \in 1..6 : i = 1 \/ i = 2 \/ i = 2 + 1 \/ i = 2 + 2 \/ i = 2 + 3 \/ i = 2 + 4
  OBVIOUS
<1>8. [i \in 1..6 |-> line(i)] = none \o some
  <2>1. Len(none \o some) = 6 /\ none \o some \in Seq(V)
    BY <1>6
  <2>2. \A i \in 1..2 : (none \o some)[i] = <<>>
    BY <1>6
  <2>3. \A i \in 1..4 : (none \o some)[2 + i] = <<rule(i)>>
    BY <1>6
  <2> DEFINE all == none \o some
  <2> HIDE DEF none, some
  <2>8. all[1] = <<>> /\ all[2] = <<>>
    <3>1. 1 \in 1..2 /\ 2 \in 1..2
      OBVIOUS
    <3> QED
      BY Zenon, <2>2, <3>1
  <2>9. \A i \in 1..4 : all[2 + i] = <<rule(i)>>
    BY <2>3
  <2>4. /\ all[1] = line(1) /\ all[2] = line(2)
        /\ all[2 + 1] = line(2 + 1) /\ all[2 + 2] = line(2 + 2)
        /\ all[2 + 3] = line(2 + 3) /\ all[2 + 4] = line(2 + 4)
    <3> HIDE DEF all
    <3>1. 1 \in 1..4 /\ 2 \in 1..4 /\ 3 \in 1..4 /\ 4 \in 1..4
      OBVIOUS
    <3> QED
      BY Zenon, <1>1, <2>8, <2>9, <3>1
  <2>5. Len(all) = 6 /\ all \in Seq(V)
    BY <2>1
  <2> HIDE DEF all
  <2>6. \A i \in 1..6 : all[i] = line(i)
    BY <1>7, <2>4
  <2>7. all = [i \in 1..6 |-> line(i)]
    BY <2>5, <2>6
  <2> QED
    BY <2>7 DEF all
<1>9. FlattenSeq(none \o some) = FlattenSeq(none) \o FlattenSeq(some)
  <2> HIDE DEF none, some
  <2> QED
    BY <1>6, FlattenConcat DEF V
<1>10. FlattenSeq(none) = <<>>
  <2> DEFINE upto == [k \in 0..2 |-> <<>>]
  <2>1. upto[0] = <<>> /\ upto[2] = <<>>
        /\ \A i \in 1..2 : upto[i] = <<>> /\ upto[i - 1] = <<>> /\ none[i] = <<>>
    OBVIOUS
  <2>2. <<>> \o <<>> = <<>>
    OBVIOUS
  <2> HIDE DEF upto, none
  <2>3. \A i \in 1..Len(none) : upto[i] = upto[i - 1] \o none[i]
    BY <1>6, <2>1, <2>2
  <2>4. none \in Seq(Seq(R))
    BY <1>6 DEF V
  <2>5. FlattenSeq(none) = upto[Len(none)]
    BY <2>1, <2>3, <2>4, FlattenUpTo
  <2> QED
    BY <1>6, <2>1, <2>5
<1>11. FlattenSeq(some) = rules
  <2>1. some = [i \in 1..Len(rules) |-> <<rules[i]>>]
    BY <1>4
  <2> HIDE DEF rules, some
  <2>2. FlattenSeq([i \in 1..Len(rules) |-> <<rules[i]>>]) = rules
    BY <1>4, FlattenSingles
  <2> QED
    BY Zenon, <2>1, <2>2
<1>12. FlattenSeq([i \in 1..6 |-> line(i)]) = rules
  <2>1. <<>> \o rules = rules
    BY <1>4
  <2> HIDE DEF none, some, rules
  <2> QED
    BY Zenon, <1>8, <1>9, <1>10, <1>11, <2>1
<1>13. \A i \in 1..6 : line(i) \in V
  <2>1. 1 \in 1..4 /\ 2 \in 1..4 /\ 3 \in 1..4 /\ 4 \in 1..4
    OBVIOUS
  <2> QED
    BY Zenon, <1>1, <1>2, <1>5, <1>7, <2>1
<1>14. FlattenSeq([i \in 1..Len(InitLines) |-> line(i)]) = RulesOf(InitPatterns)
  BY Zenon, <1>1, <1>3, <1>12
<1>15. \A i \in 1..Len(InitLines) : line(i) \in V
  BY <1>1, <1>13
<1> QED
  BY <1>14, <1>15 DEF line, V

WrittenLines(added) == [i \in DOMAIN added |-> Written(added[i])]

\* The lines of a file written before the patterns are added give the rules of base.
GiveRules(before, first, base, P) ==
    /\ base \in Seq(P) /\ first \in Seq(Seq(PlainChars)) /\ Holds(before, first)
    /\ FlattenSeq([i \in 1..Len(first) |-> RulesOfLine(first[i])]) = RulesOf(base)
    /\ \A i \in 1..Len(first) : RulesOfLine(first[i]) \in Seq({RuleOf(p) : p \in P})

\* The rules after additions: the defaults, those of base, and one for each added.
AreRead(before, base, added) ==
    load_ignore_set(FileAfter(before, WrittenLines(added)))
      = RulesOf(Defaults) \o (RulesOf(base) \o RulesOf(added))

LEMMA RulesAreRead ==
  ASSUME NEW P, \A p \in P : IsPattern(p), NEW base, NEW first, NEW before,
         GiveRules(before, first, base, P), NEW added \in Seq(P)
  PROVE  AreRead(before, base, added)
<1>0. /\ base \in Seq(P) /\ first \in Seq(Seq(PlainChars)) /\ Holds(before, first)
      /\ FlattenSeq([i \in 1..Len(first) |-> RulesOfLine(first[i])]) = RulesOf(base)
      /\ \A i \in 1..Len(first) : RulesOfLine(first[i]) \in Seq({RuleOf(p) : p \in P})
  BY Zenon DEF GiveRules
<1> USE <1>0
<1> DEFINE R == {RuleOf(p) : p \in P}
           M == Len(added)
           W == WrittenLines(added)
           all == first \o W
           ofFirst == [i \in 1..Len(first) |-> RulesOfLine(first[i])]
           ofW == [i \in 1..Len(W) |-> RulesOfLine(W[i])]
           ofAll == [i \in 1..Len(all) |-> RulesOfLine(all[i])]
<1>1. M \in Nat /\ \A i \in 1..M : added[i] \in P /\ IsPattern(added[i])
  OBVIOUS
<1>2. /\ Len(W) = M /\ W = [i \in 1..M |-> Written(added[i])]
      /\ \A i \in 1..M : W[i] = Written(added[i])
  BY DEF WrittenLines
<1>3. PlainChars \subseteq Char /\ \A c \in PlainChars : c # "nl"
  BY DEF PlainChars
<1>4. ASSUME NEW line \in Seq(PlainChars)
      PROVE  line \in Seq(Char) /\ \A j \in 1..Len(line) : line[j] # "nl"
  <2>1. line \in Seq(Char)
    BY <1>3, SeqOfMore
  <2> QED
    BY <1>3, <2>1
<1>5. \A i \in 1..M : W[i] \in Seq(PlainChars) /\ W[i] # <<>>
  BY <1>1, <1>2, WrittenLine
<1>6. first \in Seq(Seq(Char)) /\ W \in Seq(Seq(Char)) /\ W \in Seq(Seq(PlainChars))
  <2> DEFINE V == Seq(Char)
             U == Seq(PlainChars)
  <2>1. U \subseteq V /\ first \in Seq(U) /\ \A i \in 1..M : W[i] \in U
    BY <1>4, <1>5
  <2> HIDE DEF U, V, W, M
  <2>2. W \in Seq(U)
    <3>1. \A i \in 1..M : Written(added[i]) \in U
      BY <1>2, <2>1
    <3> QED
      BY <1>1, <1>2, <2>1, <3>1
  <2>3. first \in Seq(V) /\ W \in Seq(V)
    BY <2>1, <2>2, SeqOfMore
  <2> QED
    BY <2>2, <2>3 DEF U, V
<1> HIDE DEF W
<1>7. Holds(FileAfter(before, W), all)
  <2>1. \A i \in 1..Len(W) : W[i] # <<>> /\ \A j \in 1..Len(W[i]) : W[i][j] # "nl"
    BY <1>2, <1>4, <1>5
  <2> QED
    BY <1>6, <2>1, AddedLines
<1>8. load_ignore_set(FileAfter(before, W)) = DefaultRules \o FlattenSeq(ofAll)
  <2>1. all \in Seq(Seq(Char))
    <3> DEFINE V == Seq(Char)
    <3>1. first \in Seq(V) /\ W \in Seq(V)
      BY <1>6
    <3> HIDE DEF V
    <3>2. all \in Seq(V)
      BY <3>1
    <3> QED
      BY <3>2 DEF V
  <2> HIDE DEF all
  <2> QED
    BY <1>7, <2>1, LinesAreRead
<1>9. ofAll = ofFirst \o ofW
  <2> DEFINE S == Seq(PlainChars)
             Q == {RulesOfLine(line) : line \in S}
  <2>1. first \in Seq(S) /\ W \in Seq(S) /\ \A line \in S : RulesOfLine(line) \in Q
    BY <1>6
  <2> HIDE DEF S, Q
  <2> QED
    BY <2>1, RuleLinesConcat
<1>10. ofW = [i \in 1..M |-> << RuleOf(added[i]) >>]
  BY <1>1, <1>2, RuleOfPattern
<1>11. RulesOf(added) = [i \in 1..M |-> RuleOf(added[i])] /\ RulesOf(added) \in Seq(R)
       /\ Len(RulesOf(added)) = M
  BY <1>1 DEF RulesOf
<1>12. ofW = [i \in 1..Len(RulesOf(added)) |-> << RulesOf(added)[i] >>]
  BY <1>10, <1>11
<1>13. FlattenSeq(ofW) = RulesOf(added)
  <2> HIDE DEF ofW, R
  <2> QED
    BY <1>11, <1>12, FlattenSingles
<1>14. ofFirst \in Seq(Seq(R)) /\ ofW \in Seq(Seq(R))
  <2> DEFINE V == Seq(R)
  <2>1. \A i \in 1..Len(first) : RulesOfLine(first[i]) \in V
    OBVIOUS
  <2>2. \A i \in 1..M : << RuleOf(added[i]) >> \in V
    <3>1. \A i \in 1..M : RuleOf(added[i]) \in R
      BY <1>1
    <3> HIDE DEF R
    <3> QED
      BY <3>1
  <2> HIDE DEF V, R
  <2>3. Len(first) \in Nat
    OBVIOUS
  <2>4. ofFirst \in Seq(V) /\ ofW \in Seq(V)
    <3> DEFINE one(i) == << RuleOf(added[i]) >>
               other(i) == RulesOfLine(first[i])
    <3>1. ofW = [i \in 1..M |-> one(i)] /\ ofFirst = [i \in 1..Len(first) |-> other(i)]
      BY <1>10
    <3>2. (\A i \in 1..M : one(i) \in V) /\ \A i \in 1..Len(first) : other(i) \in V
      BY <2>1, <2>2
    <3> HIDE DEF one, other, ofW, ofFirst, M
    <3> QED
      BY <1>1, <2>3, <3>1, <3>2
  <2> QED
    BY <2>4 DEF V
<1>15. FlattenSeq(ofFirst \o ofW) = FlattenSeq(ofFirst) \o FlattenSeq(ofW)
  <2> HIDE DEF ofFirst, ofW, R
  <2> QED
    BY <1>14, FlattenConcat
<1>16. FlattenSeq(ofFirst) = RulesOf(base)
  OBVIOUS
<1> HIDE DEF ofAll, ofFirst, ofW
<1>17. FlattenSeq(ofAll) = RulesOf(base) \o RulesOf(added)
  BY Zenon, <1>9, <1>13, <1>15, <1>16
<1>18. load_ignore_set(FileAfter(before, W)) = RulesOf(Defaults) \o (RulesOf(base) \o RulesOf(added))
  BY Zenon, <1>8, <1>17, DefaultsAreRules
<1> QED
  BY Zenon, <1>18 DEF W, AreRead

-----------------------------------------------------------------------------
(* What the file ignores. *)

LEMMA InSeq ==
  ASSUME NEW S, NEW q \in Seq(S), NEW n, n = Len(q)
  PROVE  \A i \in 1..n : q[i] \in S
OBVIOUS

\* The patterns of a file that init made or that was not there.
Base(made) == IF made THEN InitPatterns ELSE <<>>

\* is_ignored, with the rules of the file, is what the defaults, init's patterns and
\* those that were added say.
LEMMA IgnoredAsSaid ==
  ASSUME NEW P, \A p \in P : IsPattern(p), NEW made \in BOOLEAN, NEW added \in Seq(P),
         NEW rel \in Seq(PlainChars), NEW is_dir
  PROVE  LET before == IF made THEN InitFile(Absent) ELSE Absent
             rules == load_ignore_set(FileAfter(before, WrittenLines(added))) IN
         is_ignored(rules, rel, is_dir)
           <=> Internal(rel) \/ SaidIgnored(Defaults \o (Base(made) \o added), rel, is_dir)
<1> DEFINE before == IF made THEN InitFile(Absent) ELSE Absent
           rules == load_ignore_set(FileAfter(before, WrittenLines(added)))
           All == P \cup {Says(d, g) : d \in BOOLEAN, g \in RuleNames}
           first == IF made THEN InitLines ELSE <<>>
           base == Base(made)
           more == base \o added
           list == Defaults \o more
<1>1. \A p \in All : IsPattern(p)
  BY DefaultPatterns
<1>2. \A d \in BOOLEAN, g \in RuleNames : Says(d, g) \in All
  OBVIOUS
<1>3. added \in Seq(All)
  <2>1. P \subseteq All
    OBVIOUS
  <2> HIDE DEF All
  <2> QED
    BY <2>1, SeqOfMore
<1> HIDE DEF All
<1>4. Defaults \in Seq(All) /\ InitPatterns \in Seq(All)
  <2>1. /\ Says(TRUE, <<"n">>) \in All /\ Says(FALSE, kIgnoreFile) \in All
        /\ Says(FALSE, EnvFile) \in All /\ Says(FALSE, IdeaDir) \in All
    BY <1>2 DEF RuleNames
  <2> DEFINE n == Says(TRUE, <<"n">>)
             i == Says(FALSE, kIgnoreFile)
             v == Says(FALSE, EnvFile)
             w == Says(FALSE, IdeaDir)
  <2>2. Defaults = <<n, i>> /\ InitPatterns = <<i, v, w, n>>
    BY DEF Defaults, InitPatterns
  <2> HIDE DEF n, i, v, w
  <2>3. n \in All /\ i \in All /\ v \in All /\ w \in All
    BY <2>1 DEF n, i, v, w
  <2>4. <<n, i>> \in Seq(All) /\ <<i, v, w, n>> \in Seq(All)
    BY <2>3
  <2> QED
    BY <2>2, <2>4
<1>5. base \in Seq(All)
  BY <1>4 DEF Base
<1> HIDE DEF base
<1>6. more \in Seq(All)
  BY <1>3, <1>5
<1> HIDE DEF more
<1>7. list \in Seq(All)
  BY <1>4, <1>6
<1>8. GiveRules(before, first, base, All)
  <2>1. CASE made
    <3>1. first = InitLines /\ base = InitPatterns /\ before = InitFile(Absent)
      BY <2>1 DEF base, Base
    <3> DEFINE R == {RuleOf(p) : p \in All}
    <3>2. \A i \in 1..4 : RuleOf(InitPatterns[i]) \in R
      <4>1. \A i \in 1..4 : InitPatterns[i] \in All
        BY <1>4, InitLineRules, InSeq
      <4> QED
        BY <4>1
    <3> HIDE DEF R, first, before
    <3>3. /\ FlattenSeq([i \in 1..Len(InitLines) |-> RulesOfLine(InitLines[i])])
               = RulesOf(InitPatterns)
          /\ \A i \in 1..Len(InitLines) : RulesOfLine(InitLines[i]) \in Seq(R)
      BY <3>2, InitRules
    <3> QED
      BY Zenon, <1>5, <3>1, <3>3, InitHolds DEF GiveRules, R
  <2>2. CASE ~made
    <3>1. first = <<>> /\ base = <<>> /\ before = Absent
      BY <2>2 DEF base, Base
    <3> HIDE DEF first, before
    <3>2. first \in Seq(Seq(PlainChars)) /\ Len(first) = 0
      BY <3>1
    <3>3. Holds(before, first)
      BY <3>1 DEF Holds
    <3>4. [i \in 1..Len(first) |-> RulesOfLine(first[i])] = <<>>
      BY <3>2
    <3>5. RulesOf(base) = <<>>
      BY <3>1 DEF RulesOf
    <3>6. FlattenSeq(<<>>) = <<>>
      BY DEF FlattenSeq
    <3>7. FlattenSeq([i \in 1..Len(first) |-> RulesOfLine(first[i])]) = RulesOf(base)
      BY Zenon, <3>4, <3>5, <3>6
    <3>8. \A i \in 1..Len(first) : RulesOfLine(first[i]) \in Seq({RuleOf(p) : p \in All})
      BY <3>2
    <3> QED
      BY Zenon, <1>5, <3>2, <3>3, <3>7, <3>8 DEF GiveRules
  <2> QED
    BY <2>1, <2>2
<1> HIDE DEF first, before
<1>9. rules = RulesOf(Defaults) \o (RulesOf(base) \o RulesOf(added))
  <2>1. AreRead(before, base, added)
    BY Zenon, <1>1, <1>3, <1>8, RulesAreRead
  <2> QED
    BY Zenon, <2>1 DEF AreRead, before
<1>10. RulesOf(list) = RulesOf(Defaults) \o (RulesOf(base) \o RulesOf(added))
  <2>1. RulesOf(base \o added) = RulesOf(base) \o RulesOf(added)
    BY <1>3, <1>5, RulesOfConcat
  <2>2. RulesOf(Defaults \o more) = RulesOf(Defaults) \o RulesOf(more)
    BY <1>4, <1>6, RulesOfConcat
  <2> QED
    BY Zenon, <2>1, <2>2 DEF more
<1>11. rules = RulesOf(list)
  BY Zenon, <1>9, <1>10
<1> HIDE DEF rules, list
<1>12. /\ Len(list) \in Nat /\ \A i \in 1..Len(list) : IsPattern(list[i])
       /\ \A i \in 1..Len(list) : list[i].negated \in BOOLEAN
  <2>1. \A p \in All : p.negated \in BOOLEAN
    BY <1>1, GlobEnds
  <2> QED
    BY <1>1, <1>7, <2>1
<1>13. is_ignored(rules, rel, is_dir) <=> Internal(rel) \/ Ignores(list, Len(list), rel, is_dir)
  BY <1>11, <1>12, RulesIgnore
<1>14. SaidIgnored(list, rel, is_dir) <=> Ignores(list, Len(list), rel, is_dir)
  BY <1>7, <1>12, LastSaid
<1>15. is_ignored(rules, rel, is_dir) <=> Internal(rel) \/ SaidIgnored(list, rel, is_dir)
  BY <1>13, <1>14
<1> QED
  BY Zenon, <1>15 DEF rules, list, more, base, before

\* The walk lists the files it should: an ignored directory takes what it holds with it.
LEMMA WalkIsRight ==
  ASSUME NEW made \in BOOLEAN, NEW added \in Seq(Patterns)
  PROVE  LET before == IF made THEN InitFile(Absent) ELSE Absent IN
         Untracked(Files, {}, FileAfter(before, WrittenLines(added)))
           = ShouldList(Files, Defaults \o (Base(made) \o added))
<1> DEFINE before == IF made THEN InitFile(Absent) ELSE Absent
           rules == load_ignore_set(FileAfter(before, WrittenLines(added)))
           said == Defaults \o (Base(made) \o added)
           Out(rel, is_dir) == Internal(rel) \/ SaidIgnored(said, rel, is_dir)
           skipped == {d \in Entries(Files) \ Files : is_ignored(rules, d, TRUE)}
<1>1. \A p \in Patterns : IsPattern(p)
  BY PatternsAssumption
<1>2. \A rel \in Seq(PlainChars), is_dir \in BOOLEAN : is_ignored(rules, rel, is_dir) <=> Out(rel, is_dir)
  BY <1>1, IgnoredAsSaid
<1>3. \A f \in Files : f \in Seq(PlainChars) /\ \A g \in Files : f \notin Parents(g)
  BY FilesAssumption DEF PlainChars
<1>4. ASSUME NEW f \in Files, NEW d \in Parents(f) PROVE d \in Seq(PlainChars)
  <2>1. PICK i \in DOMAIN f : d = SubSeq(f, 1, i - 1)
    BY DEF Parents
  <2>2. f \in Seq(PlainChars)
    BY <1>3
  <2> QED
    BY <2>1, <2>2
<1>5. Untracked(Files, {}, FileAfter(before, WrittenLines(added)))
        = {f \in Files : Parents(f) \cap skipped = {} /\ ~is_ignored(rules, f, FALSE)}
  BY DEF Untracked, Walk
<1>6. ShouldList(Files, said)
        = {f \in Files : ~Out(f, FALSE) /\ \A d \in Parents(f) : ~Out(d, TRUE)}
  BY DEF ShouldList
<1> HIDE DEF rules, Out, said, before
<1>7. ASSUME NEW f \in Files
      PROVE  Parents(f) \cap skipped = {} <=> \A d \in Parents(f) : ~Out(d, TRUE)
  <2>1. \A d \in Parents(f) : d \in Entries(Files) /\ d \notin Files /\ d \in Seq(PlainChars)
    <3>1. \A d \in Parents(f) : d \in Entries(Files)
      BY DEF Entries
    <3> QED
      BY <1>3, <1>4, <3>1
  <2>2. \A d \in Parents(f) : d \in skipped <=> Out(d, TRUE)
    BY <1>2, <2>1
  <2> HIDE DEF skipped
  <2> QED
    BY <2>2
<1>8. \A f \in Files : is_ignored(rules, f, FALSE) <=> Out(f, FALSE)
  BY <1>2, <1>3
<1> HIDE DEF skipped
<1>9. Untracked(Files, {}, FileAfter(before, WrittenLines(added))) = ShouldList(Files, said)
  BY <1>5, <1>6, <1>7, <1>8
<1> QED
  BY <1>9 DEF before, said

-----------------------------------------------------------------------------
(* Blocks. *)

\* What verify_signatures accepts: each of the three signatures holds.
LEMMA Accepted ==
  ASSUME NEW block
  PROVE  "accepted" \in verify_signatures(block) <=>
            /\ verify_atomic_block_signature_with_ecdsa(block)
            /\ \A i \in DOMAIN block.attestations :
                  VerdictOn(block.attestations[i], calculate_hash(block)) = "accepted"
            /\ verify_incoming_transaction(block.transaction)
<1> DEFINE Verdict(i) == VerdictOn(block.attestations[i], calculate_hash(block))
           bad == {Verdict(i) : i \in DOMAIN block.attestations} \ {"accepted"}
           attested == verify_block_attestations_with_ecdsa(block)
<1>1. attested = IF bad = {} THEN {"accepted"} ELSE bad
  BY DEF verify_block_attestations_with_ecdsa
<1>2. bad = {} <=> \A i \in DOMAIN block.attestations : Verdict(i) = "accepted"
  OBVIOUS
<1>3. "accepted" \notin bad
  OBVIOUS
<1> HIDE DEF bad, attested, Verdict
<1>4. attested = {"accepted"} <=> bad = {}
  BY <1>1, <1>3
<1>5. ~(attested # {"accepted"} /\ "accepted" \in attested)
  BY <1>1, <1>3
<1>6. verify_signatures(block) =
        IF ~verify_atomic_block_signature_with_ecdsa(block) THEN {"refused"}
        ELSE IF attested # {"accepted"} THEN attested
        ELSE {IF verify_incoming_transaction(block.transaction)
              THEN "accepted" ELSE "refused"}
  BY DEF verify_signatures, attested
<1>7. "accepted" \in verify_signatures(block) <=>
         /\ verify_atomic_block_signature_with_ecdsa(block)
         /\ attested = {"accepted"}
         /\ verify_incoming_transaction(block.transaction)
  BY <1>5, <1>6
<1> QED
  BY <1>2, <1>4, <1>7 DEF Verdict

LEMMA VerdictAccepts ==
  ASSUME NEW a, NEW hash
  PROVE  VerdictOn(a, hash) = "accepted" <=> Verified(a.public_key, hash, a.signature)
BY DEF VerdictOn

LEMMA SignsOne ==
  ASSUME NEW k1, NEW k2, NEW h1, NEW h2, SignatureBytes(k1, h1) = SignatureBytes(k2, h2)
  PROVE  k1 = k2 /\ h1 = h2
BY DEF SignatureBytes

IsText(x) == \E T : x \in Seq(T)

LEMMA ShortTexts == \A x, y : IsText(<<x>>) /\ IsText(<<x, y>>)
<1>1. \A x, y : <<x>> \in Seq({x}) /\ <<x, y>> \in Seq({x, y})
  OBVIOUS
<1> QED
  BY <1>1 DEF IsText

LEMMA MadeSequence ==
  ASSUME NEW A, NEW m \in Nat, NEW f, f = [i \in 1..m |-> f[i]], \A i \in 1..m : f[i] \in A
  PROVE  f \in Seq(A) /\ Len(f) = m
<1>1. f \in [1..m -> A]
  OBVIOUS
<1>2. f \in Seq(A)
  BY <1>1, SeqDef
<1> QED
  BY <1>1, <1>2

\* Two rows of n texts that differ at most in the k-th.
DifferOnlyAt(n, k, s, t) ==
    /\ n \in Nat /\ k \in 1..n
    /\ s = [i \in 1..n |-> s[i]] /\ t = [i \in 1..n |-> t[i]]
    /\ \A i \in 1..n : IsText(s[i]) /\ IsText(t[i])
    /\ \A i \in (1..n) \ {k} : s[i] = t[i]

\* Side by side they are told apart.
LEMMA OneDiffers ==
  ASSUME NEW n, NEW k, NEW s, NEW t, DifferOnlyAt(n, k, s, t), FlattenSeq(s) = FlattenSeq(t)
  PROVE  s[k] = t[k]
<1> USE DEF DifferOnlyAt
<1> DEFINE Atoms(v) == {v[j] : j \in DOMAIN v}
           S == UNION ({Atoms(s[i]) : i \in 1..n} \cup {Atoms(t[i]) : i \in 1..n})
<1>0. ASSUME NEW v, IsText(v), \A j \in DOMAIN v : v[j] \in S PROVE v \in Seq(S)
  <2>1. PICK T : v \in Seq(T)
    BY <1>0 DEF IsText
  <2> HIDE DEF S
  <2>2. Len(v) \in Nat /\ v \in [1..Len(v) -> S]
    BY <1>0, <2>1
  <2> QED
    BY <2>2, SeqDef
<1>1. ASSUME NEW i \in 1..n PROVE s[i] \in Seq(S) /\ t[i] \in Seq(S)
  <2>1. Atoms(s[i]) \subseteq S /\ Atoms(t[i]) \subseteq S
    <3> HIDE DEF Atoms
    <3> QED
      OBVIOUS
  <2>2. /\ \A j \in DOMAIN s[i] : s[i][j] \in Atoms(s[i])
        /\ \A j \in DOMAIN t[i] : t[i][j] \in Atoms(t[i])
    OBVIOUS
  <2> HIDE DEF S, Atoms
  <2> QED
    BY <1>0, <2>1, <2>2
<1> HIDE DEF S, Atoms
<1> DEFINE before == [i \in 1..(k - 1) |-> s[i]]
           after == [i \in 1..(n - k) |-> s[k + i]]
           V == Seq(S)
<1>2. /\ before \in Seq(V) /\ after \in Seq(V)
      /\ s[k] \in V /\ t[k] \in V
      /\ Len(before) = k - 1 /\ Len(after) = n - k
  <2>1. k - 1 \in Nat /\ n - k \in Nat
    OBVIOUS
  <2>2. \A i \in 1..n : s[i] \in V /\ t[i] \in V
    BY <1>1
  <2>3. /\ \A i \in 1..(k - 1) : s[i] \in V
        /\ \A i \in 1..(n - k) : s[k + i] \in V
    <3>1. \A i \in 1..(k - 1) : i \in 1..n
      OBVIOUS
    <3>2. \A i \in 1..(n - k) : k + i \in 1..n
      OBVIOUS
    <3> HIDE DEF V
    <3> QED
      BY <2>2, <3>1, <3>2
  <2>4. /\ before = [i \in 1..(k - 1) |-> before[i]]
        /\ after = [i \in 1..(n - k) |-> after[i]]
        /\ \A i \in 1..(k - 1) : before[i] \in V
        /\ \A i \in 1..(n - k) : after[i] \in V
    <3> HIDE DEF V
    <3> QED
      BY <2>3
  <2> HIDE DEF V, before, after
  <2> QED
    BY <2>1, <2>2, <2>4, MadeSequence
<1>3. ASSUME NEW v \in Seq(V), Len(v) = n, \A i \in (1..n) \ {k} : v[i] = s[i]
      PROVE  FlattenSeq(v) = (FlattenSeq(before) \o v[k]) \o FlattenSeq(after)
  <2>1. v[k] \in V
    <3> HIDE DEF V
    <3> QED
      BY <1>3
  <2> DEFINE here == <<v[k]>>
  <2>2. here \in Seq(V) /\ Len(here) = 1 /\ here[1] = v[k]
    <3> HIDE DEF V
    <3> QED
      BY <2>1
  <2>3. v = (before \o here) \o after
    <3> DEFINE some == before \o here
               all == some \o after
    <3>0. n \in Nat /\ k \in 1..n /\ (k - 1) + 1 = k /\ k + (n - k) = n
      OBVIOUS
    <3> HIDE DEF V, before, after, here, DifferOnlyAt
    <3>1. /\ some \in Seq(V) /\ Len(some) = k
          /\ \A i \in 1..k : some[i] = IF i <= k - 1 THEN before[i] ELSE here[i - (k - 1)]
      <4>1. /\ some \in Seq(V) /\ Len(some) = Len(before) + Len(here)
            /\ \A i \in 1..(Len(before) + Len(here)) :
                  some[i] = IF i <= Len(before) THEN before[i] ELSE here[i - Len(before)]
        BY <1>2, <2>2, ConcatProperties
      <4> HIDE DEF some
      <4> QED
        BY <1>2, <2>2, <3>0, <4>1
    <3> HIDE DEF some
    <3>2. /\ all \in Seq(V) /\ Len(all) = n
          /\ \A i \in 1..n : all[i] = IF i <= k THEN some[i] ELSE after[i - k]
      <4>1. /\ all \in Seq(V) /\ Len(all) = Len(some) + Len(after)
            /\ \A i \in 1..(Len(some) + Len(after)) :
                  all[i] = IF i <= Len(some) THEN some[i] ELSE after[i - Len(some)]
        BY <1>2, <3>1, ConcatProperties
      <4> HIDE DEF all
      <4> QED
        BY <1>2, <3>0, <3>1, <4>1
    <3> HIDE DEF all
    <3>3. ASSUME NEW i \in 1..n PROVE all[i] = v[i]
      <4>1. CASE i < k
        <5>1. all[i] = before[i]
          BY <3>0, <3>1, <3>2, <4>1
        <5>2. before[i] = s[i]
          BY <3>0, <4>1 DEF before
        <5> QED
          BY <1>3, <4>1, <5>1, <5>2
      <4>2. CASE i = k
        BY <2>2, <3>0, <3>1, <3>2, <4>2
      <4>3. CASE i > k
        <5>1. all[i] = after[i - k] /\ i - k \in 1..(n - k) /\ k + (i - k) = i
          BY <3>0, <3>2, <4>3
        <5>2. after[i - k] = s[k + (i - k)]
          BY <5>1 DEF after
        <5> QED
          BY <1>3, <4>3, <5>1, <5>2
      <4> QED
        BY <3>0, <4>1, <4>2, <4>3
    <3>4. all = v
      <4>1. /\ all = [i \in 1..Len(all) |-> all[i]]
            /\ v = [i \in 1..Len(v) |-> v[i]]
        BY <1>3, <3>2
      <4> QED
        BY <1>3, <3>2, <3>3, <4>1
    <3> QED
      BY <3>4 DEF all, some
  <2>4. before \o here \in Seq(V)
    <3> HIDE DEF V, before, here
    <3> QED
      BY <1>2, <2>2
  <2>5. FlattenSeq(here) = v[k]
    <3> DEFINE upto == [i \in 0..1 |-> IF i = 0 THEN <<>> ELSE v[k]]
    <3>1. upto[0] = <<>> /\ upto[Len(here)] = v[k]
      BY <2>2
    <3>2. \A i \in 1..Len(here) : upto[i] = upto[i - 1] \o here[i]
      BY <2>1, <2>2
    <3> HIDE DEF upto, here
    <3> QED
      BY <2>2, <3>1, <3>2, FlattenUpTo
  <2> HIDE DEF here, before, after
  <2>6. FlattenSeq(before \o here) = FlattenSeq(before) \o FlattenSeq(here)
    BY <1>2, <2>2, FlattenConcat
  <2>7. FlattenSeq((before \o here) \o after) = FlattenSeq(before \o here) \o FlattenSeq(after)
    BY <1>2, <2>4, FlattenConcat
  <2> QED
    BY <2>3, <2>5, <2>6, <2>7
<1>4. s \in Seq(V) /\ t \in Seq(V) /\ Len(s) = n /\ Len(t) = n
  <2>1. \A i \in 1..n : s[i] \in V /\ t[i] \in V
    BY <1>1
  <2> HIDE DEF V
  <2> QED
    BY <2>1, MadeSequence
<1> DEFINE p == FlattenSeq(before)
           q == FlattenSeq(after)
<1>5. p \in Seq(S) /\ q \in Seq(S)
  <2> HIDE DEF before, after
  <2>1. ASSUME NEW v \in Seq(Seq(S)) PROVE FlattenSeq(v) \in Seq(S)
    <3>1. PICK upto \in [0..Len(v) -> Seq(S)] : FlattenSeq(v) = upto[Len(v)]
      BY FlattenSteps
    <3>2. Len(v) \in 0..Len(v)
      OBVIOUS
    <3> QED
      BY <3>1, <3>2
  <2> QED
    BY <1>2, <2>1
<1>6. (p \o s[k]) \o q = (p \o t[k]) \o q
  <2> HIDE DEF before, after
  <2> QED
    BY <1>3, <1>4
<1> HIDE DEF p, q, before, after
<1>7. Len(s[k]) = Len(t[k])
  BY <1>2, <1>5, <1>6
<1>8. ASSUME NEW i \in 1..Len(s[k]) PROVE s[k][i] = t[k][i]
  <2>1. ASSUME NEW x \in V, i \in 1..Len(x) PROVE ((p \o x) \o q)[Len(p) + i] = x[i]
    <3>1. p \o x \in Seq(S) /\ Len(p \o x) = Len(p) + Len(x)
      BY <1>5, <2>1
    <3>2. Len(p) \in Nat /\ Len(x) \in Nat /\ Len(q) \in Nat
      BY <1>5, <2>1
    <3>3. (p \o x)[Len(p) + i] = x[i]
      BY <1>5, <2>1, <3>2
    <3>4. ((p \o x) \o q)[Len(p) + i] = (p \o x)[Len(p) + i]
      BY <1>5, <2>1, <3>1, <3>2
    <3> QED
      BY <3>3, <3>4
  <2> HIDE DEF V
  <2> QED
    BY <1>2, <1>6, <1>7, <2>1
<1>9. /\ s[k] = [i \in 1..Len(s[k]) |-> s[k][i]]
      /\ t[k] = [i \in 1..Len(t[k]) |-> t[k][i]]
  BY <1>2
<1> QED
  BY <1>7, <1>8, <1>9

BlockFields == HeaderFields \cup {"transaction", "attestations"}

\* A record with the fields of a block, whatever they are.
ShapedList(list) ==
    /\ \A i \in DOMAIN list : list[i] = [f \in AttestationFields |-> list[i][f]]
    /\ list = [i \in DOMAIN list |-> list[i]]

Shaped(b) ==
    /\ b = [f \in BlockFields |-> b[f]]
    /\ b.transaction = [f \in TransactionFields |-> b.transaction[f]]
    /\ ShapedList(b.attestations)

LEMMA HexIsRead == \A bytes : hex_to_bytes(Hex(bytes)) = bytes
BY DEF hex_to_bytes, Hex

\* The fields that are hashed, but for the hash itself.
HashedHeader == <<"index", "previous_hash", "state_hash", "chain_address", "timestamp",
                  "leader_public_key", "leader_address">>

HashedParts(b) ==
    <<b.index, b.previous_hash, b.state_hash, b.chain_address, b.timestamp,
      b.leader_public_key, b.leader_address,
      b.transaction.sender_public_key, b.transaction.signature>>

SignedParts(tx) ==
    <<tx.sender, <<":">>, tx.receiver, <<":">>, tx.amount, <<":">>, tx.data, <<":">>, tx.nonce>>

\* They are texts.
Textual(b) ==
    /\ \A f \in Range(HashedHeader) : IsText(b[f])
    /\ \A f \in TransactionFields : IsText(b.transaction[f])

AllSigned(b) ==
    /\ verify_atomic_block_signature_with_ecdsa(b)
    /\ \A i \in DOMAIN b.attestations :
          VerdictOn(b.attestations[i], calculate_hash(b)) = "accepted"
    /\ verify_incoming_transaction(b.transaction)

\* A block that its sender, its leader and the nodes signed as they should.
Genuine(b) == Shaped(b) /\ Textual(b) /\ AllSigned(b)

\* What the property does with a block.
Altered(b, change, rehashed) ==
    IF rehashed THEN [Changed(b, change) EXCEPT !.hash = calculate_hash(Changed(b, change))]
    ELSE Changed(b, change)

USE DEF Shaped, ShapedList

LEMMA GenuineIsAccepted ==
  ASSUME NEW b, AllSigned(b)
  PROVE  verify_signatures(b) = {"accepted"}
<1> DEFINE Verdict(i) == VerdictOn(b.attestations[i], calculate_hash(b))
           bad == {Verdict(i) : i \in DOMAIN b.attestations} \ {"accepted"}
<1>1. bad = {}
  BY DEF AllSigned
<1>2. verify_block_attestations_with_ecdsa(b) = {"accepted"}
  BY <1>1 DEF verify_block_attestations_with_ecdsa
<1> QED
  BY <1>2 DEF AllSigned, verify_signatures

LEMMA AcceptedHolds ==
  ASSUME NEW b, "accepted" \in verify_signatures(b)
  PROVE  AllSigned(b)
BY Accepted DEF AllSigned

\* The places in what is hashed and in what is signed.
SameBut(k, p, q) == k \in 1..9 /\ \A i \in (1..9) \ {k} : p[i] = q[i]

LEMMA HashIsOfParts ==
  ASSUME NEW a, NEW b, Textual(a), Textual(b), calculate_hash(a) = calculate_hash(b),
         NEW k, SameBut(k, HashedParts(a), HashedParts(b))
  PROVE  HashedParts(a)[k] = HashedParts(b)[k]
<1>1. ASSUME NEW x, Textual(x) PROVE \A i \in 1..9 : IsText(HashedParts(x)[i])
  <2>1. /\ {"index", "previous_hash", "state_hash", "chain_address", "timestamp",
            "leader_public_key", "leader_address"} \subseteq Range(HashedHeader)
        /\ {"sender_public_key", "signature"} \subseteq TransactionFields
    BY DEF HashedHeader, TransactionFields, Range
  <2>2. /\ IsText(x.index) /\ IsText(x.previous_hash) /\ IsText(x.state_hash)
        /\ IsText(x.chain_address) /\ IsText(x.timestamp)
        /\ IsText(x.leader_public_key) /\ IsText(x.leader_address)
        /\ IsText(x.transaction.sender_public_key) /\ IsText(x.transaction.signature)
    BY <1>1, <2>1 DEF Textual
  <2> QED
    BY <2>2 DEF HashedParts
<1>2. \A x : HashedParts(x) = [i \in 1..9 |-> HashedParts(x)[i]]
  BY DEF HashedParts
<1>3. FlattenSeq(HashedParts(a)) = FlattenSeq(HashedParts(b))
  BY DEF calculate_hash, HashedParts
<1> DEFINE p == HashedParts(a)
           q == HashedParts(b)
<1>0. FlattenSeq(p) = FlattenSeq(q)
  BY <1>3
<1>4. \A i \in 1..9 : IsText(p[i]) /\ IsText(q[i])
  BY <1>1
<1>5. p = [i \in 1..9 |-> p[i]] /\ q = [i \in 1..9 |-> q[i]]
  BY <1>2
<1>6. k \in 1..9 /\ \A i \in (1..9) \ {k} : p[i] = q[i]
  BY DEF SameBut
<1> HIDE DEF p, q
<1>7. DifferOnlyAt(9, k, p, q)
  BY <1>4, <1>5, <1>6 DEF DifferOnlyAt
<1>8. p[k] = q[k]
  BY <1>0, <1>7, OneDiffers
<1> QED
  BY <1>8 DEF p, q

LEMMA TextIsOfParts ==
  ASSUME NEW s, NEW t, serialize_for_signing(s) = serialize_for_signing(t),
         \A f \in TransactionFields : IsText(s[f]) /\ IsText(t[f]),
         NEW k, SameBut(k, SignedParts(s), SignedParts(t))
  PROVE  SignedParts(s)[k] = SignedParts(t)[k]
<1>1. ASSUME NEW x, \A f \in TransactionFields : IsText(x[f])
      PROVE  \A i \in 1..9 : IsText(SignedParts(x)[i])
  <2>1. IsText(<<":">>)
    BY ShortTexts
  <2>2. /\ IsText(x.sender) /\ IsText(x.receiver) /\ IsText(x.amount) /\ IsText(x.data)
        /\ IsText(x.nonce)
    BY <1>1 DEF TransactionFields
  <2> QED
    BY <2>1, <2>2 DEF SignedParts
<1>2. \A x : SignedParts(x) = [i \in 1..9 |-> SignedParts(x)[i]]
  BY DEF SignedParts
<1>3. FlattenSeq(SignedParts(s)) = FlattenSeq(SignedParts(t))
  BY DEF serialize_for_signing, SignedParts
<1> DEFINE p == SignedParts(s)
           q == SignedParts(t)
<1>0. FlattenSeq(p) = FlattenSeq(q)
  BY <1>3
<1>4. \A i \in 1..9 : IsText(p[i]) /\ IsText(q[i])
  BY <1>1
<1>5. p = [i \in 1..9 |-> p[i]] /\ q = [i \in 1..9 |-> q[i]]
  BY <1>2
<1>6. k \in 1..9 /\ \A i \in (1..9) \ {k} : p[i] = q[i]
  BY DEF SameBut
<1> HIDE DEF p, q
<1>7. DifferOnlyAt(9, k, p, q)
  BY <1>4, <1>5, <1>6 DEF DifferOnlyAt
<1>8. p[k] = q[k]
  BY <1>0, <1>7, OneDiffers
<1> QED
  BY <1>8 DEF p, q

\* What is signed of a block that holds.
LEMMA SignedBytes ==
  ASSUME NEW b, AllSigned(b)
  PROVE  /\ b.sig_type = ECDSA /\ b.hash = calculate_hash(b)
         /\ hex_to_bytes(b.signature) = SignatureBytes(hex_to_bytes(b.leader_public_key), b.hash)
         /\ hex_to_bytes(b.transaction.signature)
               = SignatureBytes(hex_to_bytes(b.transaction.sender_public_key),
                                serialize_for_signing(b.transaction))
         /\ \A i \in DOMAIN b.attestations :
               hex_to_bytes(b.attestations[i].signature)
                  = SignatureBytes(hex_to_bytes(b.attestations[i].public_key), calculate_hash(b))
BY VerdictAccepts
   DEF AllSigned, verify_atomic_block_signature_with_ecdsa, verify_incoming_transaction, Verified

\* The bytes of a block: all fields but the spelling of the outer signatures.
SameBytes(d, b) ==
    /\ \A f \in BlockFields \ {"signature", "attestations"} : d[f] = b[f]
    /\ hex_to_bytes(d.signature) = hex_to_bytes(b.signature)
    /\ DOMAIN d.attestations = DOMAIN b.attestations
    /\ \A i \in DOMAIN b.attestations :
          /\ hex_to_bytes(d.attestations[i].public_key)
                = hex_to_bytes(b.attestations[i].public_key)
          /\ hex_to_bytes(d.attestations[i].signature)
                = hex_to_bytes(b.attestations[i].signature)

LEMMA BytesCompared ==
  ASSUME NEW b, NEW d, Shaped(b), Shaped(d)
  PROVE  BytesOf(d) = BytesOf(b) <=> SameBytes(d, b)
<1> DEFINE list(x) == [i \in DOMAIN x.attestations |->
                         [public_key |-> hex_to_bytes(x.attestations[i].public_key),
                          signature |-> hex_to_bytes(x.attestations[i].signature)]]
<1>1. ASSUME NEW x, x = [f \in BlockFields |-> x[f]]
      PROVE  /\ BytesOf(x) = [f \in BlockFields |-> BytesOf(x)[f]]
             /\ \A f \in BlockFields \ {"signature", "attestations"} : BytesOf(x)[f] = x[f]
             /\ BytesOf(x).signature = hex_to_bytes(x.signature)
             /\ BytesOf(x).attestations = list(x)
  <2>1. BytesOf(x) = [x EXCEPT !.signature = hex_to_bytes(x.signature), !.attestations = list(x)]
    BY DEF BytesOf
  <2>2. "signature" \in BlockFields /\ "attestations" \in BlockFields
    BY DEF BlockFields, HeaderFields
  <2> HIDE DEF list
  <2> QED
    BY <1>1, <2>1, <2>2
<1>2. list(d) = list(b) <=>
        /\ DOMAIN d.attestations = DOMAIN b.attestations
        /\ \A i \in DOMAIN b.attestations :
              /\ hex_to_bytes(d.attestations[i].public_key)
                    = hex_to_bytes(b.attestations[i].public_key)
              /\ hex_to_bytes(d.attestations[i].signature)
                    = hex_to_bytes(b.attestations[i].signature)
  <2>1. ASSUME list(d) = list(b)
        PROVE  /\ DOMAIN d.attestations = DOMAIN b.attestations
               /\ \A i \in DOMAIN b.attestations : list(d)[i] = list(b)[i]
    <3>1. DOMAIN list(d) = DOMAIN d.attestations /\ DOMAIN list(b) = DOMAIN b.attestations
      OBVIOUS
    <3> HIDE DEF list
    <3> QED
      BY <2>1, <3>1
  <2>2. ASSUME NEW i \in DOMAIN b.attestations, i \in DOMAIN d.attestations,
               list(d)[i] = list(b)[i]
        PROVE  /\ hex_to_bytes(d.attestations[i].public_key)
                     = hex_to_bytes(b.attestations[i].public_key)
               /\ hex_to_bytes(d.attestations[i].signature)
                     = hex_to_bytes(b.attestations[i].signature)
    BY <2>2
  <2>3. ASSUME DOMAIN d.attestations = DOMAIN b.attestations,
               \A i \in DOMAIN b.attestations :
                  /\ hex_to_bytes(d.attestations[i].public_key)
                        = hex_to_bytes(b.attestations[i].public_key)
                  /\ hex_to_bytes(d.attestations[i].signature)
                        = hex_to_bytes(b.attestations[i].signature)
        PROVE  list(d) = list(b)
    BY <2>3
  <2> HIDE DEF list
  <2> QED
    BY <2>1, <2>2, <2>3
<1> HIDE DEF list
<1>3. "signature" \in BlockFields /\ "attestations" \in BlockFields
  BY DEF BlockFields, HeaderFields
<1>4. BytesOf(d) = BytesOf(b) <=>
        /\ \A f \in BlockFields \ {"signature", "attestations"} : d[f] = b[f]
        /\ hex_to_bytes(d.signature) = hex_to_bytes(b.signature)
        /\ list(d) = list(b)
  <2>1. /\ d = [f \in BlockFields |-> d[f]]
        /\ b = [f \in BlockFields |-> b[f]]
    OBVIOUS
  <2>2. /\ BytesOf(d) = [f \in BlockFields |-> BytesOf(d)[f]]
        /\ BytesOf(b) = [f \in BlockFields |-> BytesOf(b)[f]]
        /\ \A f \in BlockFields \ {"signature", "attestations"} :
              BytesOf(d)[f] = d[f] /\ BytesOf(b)[f] = b[f]
        /\ BytesOf(d)["signature"] = hex_to_bytes(d.signature)
        /\ BytesOf(b)["signature"] = hex_to_bytes(b.signature)
        /\ BytesOf(d)["attestations"] = list(d)
        /\ BytesOf(b)["attestations"] = list(b)
    BY <1>1, <2>1
  <2>3. BytesOf(d) = BytesOf(b) <=> \A f \in BlockFields : BytesOf(d)[f] = BytesOf(b)[f]
    BY <2>2
  <2> HIDE DEF Shaped
  <2> QED
    BY <1>3, <2>2, <2>3
<1> QED
  BY <1>2, <1>4 DEF SameBytes

\* How the outer signatures are spelled is nobody's concern.
LEMMA SameBytesHold ==
  ASSUME NEW b, NEW d, AllSigned(b), SameBytes(d, b)
  PROVE  AllSigned(d)
<1>1. /\ d.index = b.index /\ d.previous_hash = b.previous_hash
      /\ d.state_hash = b.state_hash /\ d.chain_address = b.chain_address
      /\ d.timestamp = b.timestamp /\ d.leader_public_key = b.leader_public_key
      /\ d.leader_address = b.leader_address /\ d.transaction = b.transaction
      /\ d.sig_type = b.sig_type /\ d.hash = b.hash
  BY DEF SameBytes, BlockFields, HeaderFields
<1>2. calculate_hash(d) = calculate_hash(b)
  BY <1>1 DEF calculate_hash
<1>3. verify_atomic_block_signature_with_ecdsa(d)
  BY <1>1, <1>2 DEF SameBytes, AllSigned, verify_atomic_block_signature_with_ecdsa, Verified
<1>4. ASSUME NEW i \in DOMAIN d.attestations
      PROVE  VerdictOn(d.attestations[i], calculate_hash(d)) = "accepted"
  <2>1. /\ i \in DOMAIN b.attestations
        /\ hex_to_bytes(d.attestations[i].public_key)
              = hex_to_bytes(b.attestations[i].public_key)
        /\ hex_to_bytes(d.attestations[i].signature)
              = hex_to_bytes(b.attestations[i].signature)
    BY DEF SameBytes
  <2>2. VerdictOn(b.attestations[i], calculate_hash(b)) = "accepted"
    BY <2>1 DEF AllSigned
  <2> QED
    BY <1>2, <2>1, <2>2, VerdictAccepts DEF Verified
<1> QED
  BY <1>1, <1>3, <1>4 DEF AllSigned

\* d differs from b in one field of one kind, and maybe in the hash.
OtherHeader(d, b, field) ==
    /\ field \in HeaderFields
    /\ \A f \in BlockFields \ {field, "hash"} : d[f] = b[f]

OtherTransaction(d, b, field) ==
    /\ field \in TransactionFields
    /\ \A f \in BlockFields \ {"transaction", "hash"} : d[f] = b[f]
    /\ \A f \in TransactionFields \ {field} : d.transaction[f] = b.transaction[f]

OtherAttestation(d, b, at, field) ==
    /\ at \in DOMAIN b.attestations /\ field \in AttestationFields
    /\ \A f \in BlockFields \ {"attestations", "hash"} : d[f] = b[f]
    /\ d.attestations = [i \in DOMAIN b.attestations |-> d.attestations[i]]
    /\ \A i \in DOMAIN b.attestations \ {at} : d.attestations[i] = b.attestations[i]
    /\ \A f \in AttestationFields \ {field} :
          d.attestations[at][f] = b.attestations[at][f]

LEMMA SameButSpelling ==
  ASSUME NEW b, NEW d, \A f \in BlockFields \ {"signature"} : d[f] = b[f],
         hex_to_bytes(d.signature) = hex_to_bytes(b.signature)
  PROVE  SameBytes(d, b)
BY DEF SameBytes, BlockFields, HeaderFields

LEMMA HeaderCovered ==
  ASSUME NEW b, NEW d, NEW field, Genuine(b), Textual(d), AllSigned(d), OtherHeader(d, b, field)
  PROVE  SameBytes(d, b)
<1> USE DEF OtherHeader
<1>0. AllSigned(b) /\ Textual(b)
  BY DEF Genuine
<1>1. d.transaction = b.transaction /\ d.attestations = b.attestations
  BY DEF BlockFields, HeaderFields
<1>2. CASE field \notin Range(HashedHeader)
  <2>1. field \in {"sig_type", "signature", "hash"}
    <3>1. Range(HashedHeader) = {"index", "previous_hash", "state_hash", "chain_address",
                                 "timestamp", "leader_public_key", "leader_address"}
      BY DEF Range, HashedHeader
    <3> QED
      BY <1>2, <3>1 DEF HeaderFields
  <2>2. calculate_hash(d) = calculate_hash(b)
    BY <2>1 DEF calculate_hash, BlockFields, HeaderFields
  <2>3. d.hash = b.hash /\ d.sig_type = b.sig_type
    BY <1>0, <2>2, SignedBytes
  <2>4. d.leader_public_key = b.leader_public_key
    BY <2>1 DEF BlockFields, HeaderFields
  <2>5. hex_to_bytes(d.signature) = hex_to_bytes(b.signature)
    BY <1>0, <2>3, <2>4, SignedBytes
  <2>6. \A f \in BlockFields \ {"signature"} : d[f] = b[f]
    BY <1>1, <2>1, <2>3 DEF BlockFields, HeaderFields
  <2> QED
    BY <2>5, <2>6, SameButSpelling
<1>3. CASE field \in Range(HashedHeader)
  <2>1. field \notin {"sig_type", "signature", "hash"}
    BY <1>3 DEF Range, HashedHeader
  <2>2. d.signature = b.signature /\ d.sig_type = b.sig_type
    BY <2>1 DEF BlockFields, HeaderFields
  <2>3. d.hash = b.hash /\ calculate_hash(d) = calculate_hash(b)
    BY <1>0, <2>2, SignedBytes, SignsOne
  <2>4. PICK k \in 1..7 : HashedHeader[k] = field
    BY <1>3 DEF Range, HashedHeader
  <2>5. \A x : \A i \in 1..7 : HashedParts(x)[i] = x[HashedHeader[i]]
    BY DEF HashedParts, HashedHeader
  <2>6. \A i \in (1..7) \ {k} : HashedHeader[i] \in BlockFields \ {field, "hash"}
    BY <2>4 DEF HashedHeader, BlockFields, HeaderFields
  <2>7. \A i \in (1..9) \ {k} : HashedParts(d)[i] = HashedParts(b)[i]
    <3>1. /\ HashedParts(d)[8] = HashedParts(b)[8]
          /\ HashedParts(d)[9] = HashedParts(b)[9]
      BY <1>1 DEF HashedParts
    <3>2. \A i \in (1..7) \ {k} : HashedParts(d)[i] = HashedParts(b)[i]
      BY <2>5, <2>6
    <3> QED
      BY <3>1, <3>2
  <2>8. HashedParts(d)[k] = HashedParts(b)[k]
    <3>1. SameBut(k, HashedParts(d), HashedParts(b))
      BY <2>7 DEF SameBut
    <3> QED
      BY <1>0, <2>3, <3>1, HashIsOfParts
  <2>9. d[field] = b[field]
    BY <2>4, <2>5, <2>8
  <2>10. \A f \in BlockFields \ {"signature"} : d[f] = b[f]
    BY <2>3, <2>9
  <2> QED
    BY <2>2, <2>10, SameButSpelling
<1> QED
  BY <1>2, <1>3

LEMMA TransactionCovered ==
  ASSUME NEW b, NEW d, NEW field, Genuine(b), Shaped(d), Textual(d), AllSigned(d),
         OtherTransaction(d, b, field)
  PROVE  SameBytes(d, b)
<1> USE DEF OtherTransaction
<1> DEFINE s == d.transaction
           t == b.transaction
<1>0. AllSigned(b) /\ Textual(b) /\ Shaped(b)
  BY DEF Genuine
<1>1. /\ d.index = b.index /\ d.previous_hash = b.previous_hash
      /\ d.state_hash = b.state_hash /\ d.chain_address = b.chain_address
      /\ d.timestamp = b.timestamp /\ d.leader_public_key = b.leader_public_key
      /\ d.leader_address = b.leader_address
      /\ d.signature = b.signature
  BY DEF BlockFields, HeaderFields
<1>2. d.hash = b.hash /\ calculate_hash(d) = calculate_hash(b)
  BY <1>0, <1>1, SignedBytes, SignsOne
<1>3. s[field] = t[field]
  <2>1. CASE field \in {"sender_public_key", "signature"}
    <3> DEFINE k == IF field = "sender_public_key" THEN 8 ELSE 9
    <3>1. /\ k \in 1..9
          /\ HashedParts(d)[k] = s[field] /\ HashedParts(b)[k] = t[field]
      BY <2>1 DEF HashedParts
    <3>2. \A i \in (1..9) \ {k} : HashedParts(d)[i] = HashedParts(b)[i]
      <4>1. CASE field = "sender_public_key"
        <5>1. s.signature = t.signature
          BY <4>1 DEF TransactionFields
        <5>2. k = 8
          BY <4>1
        <5> HIDE DEF k, OtherTransaction, Shaped
        <5> QED
          BY <1>1, <5>1, <5>2 DEF HashedParts
      <4>2. CASE field = "signature"
        <5>1. s.sender_public_key = t.sender_public_key
          BY <4>2 DEF TransactionFields
        <5>2. k = 9
          BY <4>2
        <5> HIDE DEF k, OtherTransaction, Shaped
        <5> QED
          BY <1>1, <5>1, <5>2 DEF HashedParts
      <4> QED
        BY <2>1, <4>1, <4>2
    <3> HIDE DEF k, s, t
    <3>3. HashedParts(d)[k] = HashedParts(b)[k]
      <4>1. SameBut(k, HashedParts(d), HashedParts(b))
        BY <3>1, <3>2 DEF SameBut
      <4> QED
        BY <1>0, <1>2, <4>1, HashIsOfParts
    <3> QED
      BY <3>1, <3>3
  <2>2. CASE field \in {"sender", "receiver", "amount", "data", "nonce"}
    <3>1. s.signature = t.signature /\ s.sender_public_key = t.sender_public_key
      BY <2>2 DEF TransactionFields
    <3>2. serialize_for_signing(s) = serialize_for_signing(t)
      BY <1>0, <3>1, SignedBytes, SignsOne
    <3> DEFINE k == IF field = "sender" THEN 1 ELSE IF field = "receiver" THEN 3
                    ELSE IF field = "amount" THEN 5 ELSE IF field = "data" THEN 7 ELSE 9
    <3>3. /\ k \in 1..9
          /\ SignedParts(s)[k] = s[field] /\ SignedParts(t)[k] = t[field]
      BY <2>2 DEF SignedParts
    <3>4. \A i \in (1..9) \ {k} : SignedParts(s)[i] = SignedParts(t)[i]
      <4>1. \A f \in {"sender", "receiver", "amount", "data", "nonce"} \ {field} : s[f] = t[f]
        BY DEF TransactionFields
      <4>2. /\ field = "sender" \/ s.sender = t.sender
            /\ field = "receiver" \/ s.receiver = t.receiver
            /\ field = "amount" \/ s.amount = t.amount
            /\ field = "data" \/ s.data = t.data
            /\ field = "nonce" \/ s.nonce = t.nonce
        BY <4>1
      <4> HIDE DEF s, t
      <4> QED
        BY <2>2, <4>2 DEF SignedParts
    <3>5. \A f \in TransactionFields : IsText(s[f]) /\ IsText(t[f])
      BY <1>0 DEF Textual
    <3> HIDE DEF k, s, t
    <3>6. SignedParts(s)[k] = SignedParts(t)[k]
      <4>1. SameBut(k, SignedParts(s), SignedParts(t))
        BY <3>3, <3>4 DEF SameBut
      <4> QED
        BY <3>2, <3>5, <4>1, TextIsOfParts
    <3> QED
      BY <3>3, <3>6
  <2> QED
    BY <2>1, <2>2 DEF TransactionFields
<1>4. s = t
  <2>1. \A f \in TransactionFields : s[f] = t[f]
    BY <1>3
  <2>2. s = [f \in TransactionFields |-> s[f]] /\ t = [f \in TransactionFields |-> t[f]]
    BY <1>0
  <2> HIDE DEF s, t
  <2> QED
    BY <2>1, <2>2
<1>5. \A f \in BlockFields \ {"signature"} : d[f] = b[f]
  BY <1>2, <1>4
<1> QED
  BY <1>1, <1>5, SameButSpelling

LEMMA AttestationCovered ==
  ASSUME NEW b, NEW d, NEW at, NEW field, Genuine(b), AllSigned(d), OtherAttestation(d, b, at, field)
  PROVE  SameBytes(d, b)
<1> USE DEF OtherAttestation
<1> DEFINE old == b.attestations[at]
           new == d.attestations[at]
<1>0. AllSigned(b)
  BY DEF Genuine
<1>1. calculate_hash(d) = calculate_hash(b)
  BY DEF calculate_hash, BlockFields, HeaderFields
<1>2. d.hash = b.hash
  BY <1>0, <1>1, SignedBytes
<1>3. /\ hex_to_bytes(new.signature)
            = SignatureBytes(hex_to_bytes(new.public_key), calculate_hash(b))
      /\ hex_to_bytes(old.signature)
            = SignatureBytes(hex_to_bytes(old.public_key), calculate_hash(b))
  <2>1. at \in DOMAIN d.attestations
    OBVIOUS
  <2> QED
    BY <1>0, <1>1, <2>1, SignedBytes
<1>4. /\ hex_to_bytes(new.public_key) = hex_to_bytes(old.public_key)
      /\ hex_to_bytes(new.signature) = hex_to_bytes(old.signature)
  <2>1. CASE field = "public_key"
    <3>1. new.signature = old.signature
      BY <2>1 DEF AttestationFields
    <3> QED
      BY <1>3, <3>1, SignsOne
  <2>2. CASE field = "signature"
    <3>1. new.public_key = old.public_key
      BY <2>2 DEF AttestationFields
    <3> QED
      BY <1>3, <3>1
  <2> QED
    BY <2>1, <2>2 DEF AttestationFields
<1>5. \A f \in BlockFields \ {"attestations"} : d[f] = b[f]
  BY <1>2
<1>6. d.signature = b.signature
  BY <1>5 DEF BlockFields, HeaderFields
<1>7. DOMAIN d.attestations = DOMAIN b.attestations
  OBVIOUS
<1>8. \A i \in DOMAIN b.attestations :
         /\ hex_to_bytes(d.attestations[i].public_key)
               = hex_to_bytes(b.attestations[i].public_key)
         /\ hex_to_bytes(d.attestations[i].signature)
               = hex_to_bytes(b.attestations[i].signature)
  <2>1. ASSUME NEW i \in DOMAIN b.attestations \ {at} PROVE d.attestations[i] = b.attestations[i]
    OBVIOUS
  <2> QED
    BY <1>4, <2>1
<1> QED
  BY <1>5, <1>6, <1>7, <1>8 DEF SameBytes

LEMMA KindsOfChange ==
  ASSUME NEW b, NEW change \in Changes(b)
  PROVE  /\ IsText(change.to)
         /\ \/ change.part = "header" /\ change.field \in HeaderFields
            \/ change.part = "transaction" /\ change.field \in TransactionFields
            \/ /\ change.part = "attestation" /\ change.field \in AttestationFields
               /\ change.at \in DOMAIN b.attestations
<1>0. ASSUME NEW field, NEW v \in NewValues(field, b) PROVE IsText(v)
  <2> DEFINE Signed == {SignatureBytes(k, h) : k \in Keys,
                           h \in {b.hash, serialize_for_signing(b.transaction)}}
  <2>1. \/ v = DamagedText
        \/ v \in Keys \X Spellings
        \/ v \in {derive_address(Hex(k)) : k \in Keys}
        \/ v \in Signed \X Spellings
    BY <1>0 DEF NewValues
  <2> HIDE DEF Signed
  <2>2. \/ \E x, y : v = <<x, y>>
        \/ \E x : v = <<x>>
    <3>1. \A A, B : v \in A \X B => \E x, y : v = <<x, y>>
      OBVIOUS
    <3>2. v = DamagedText => \E x, y : v = <<x, y>>
      BY DEF DamagedText, Hex
    <3>3. v \in {derive_address(Hex(k)) : k \in Keys} => \E x : v = <<x>>
      BY DEF derive_address
    <3> QED
      BY <2>1, <3>1, <3>2, <3>3
  <2> QED
    BY <2>2, ShortTexts
<1>1. ASSUME NEW part, NEW at, NEW fields, change \in ChangesOf(part, at, fields, b)
      PROVE  /\ change.part = part /\ change.at = at /\ change.field \in fields
             /\ IsText(change.to)
  <2>1. PICK f \in fields :
           change \in {[part |-> part, at |-> at, field |-> f, to |-> v] : v \in NewValues(f, b)}
    BY <1>1 DEF ChangesOf
  <2> QED
    BY <1>0, <2>1
<1>2. CASE change \in ChangesOf("header", 0, HeaderFields, b)
  BY <1>1, <1>2
<1>3. CASE change \in ChangesOf("transaction", 0, TransactionFields, b)
  BY <1>1, <1>3
<1>4. CASE change \in UNION {ChangesOf("attestation", i, AttestationFields, b) :
                               i \in DOMAIN b.attestations}
  <2>1. PICK i \in DOMAIN b.attestations :
           change \in ChangesOf("attestation", i, AttestationFields, b)
    BY <1>4
  <2> QED
    BY <1>1, <2>1
<1> QED
  BY <1>2, <1>3, <1>4 DEF Changes

LEMMA AlteredInOneField ==
  ASSUME NEW b, Shaped(b), Textual(b), NEW change \in Changes(b), NEW rehashed \in BOOLEAN
  PROVE  LET d == Altered(b, change, rehashed) IN
         /\ Shaped(d) /\ Textual(d)
         /\ \/ OtherHeader(d, b, change.field)
            \/ OtherTransaction(d, b, change.field)
            \/ OtherAttestation(d, b, change.at, change.field)
<1> DEFINE c == Changed(b, change)
           d == Altered(b, change, rehashed)
<1>0. \A x : x = [f \in BlockFields |-> x[f]] =>
         /\ [x EXCEPT !.hash = calculate_hash(x)]
               = [f \in BlockFields |-> [x EXCEPT !.hash = calculate_hash(x)][f]]
         /\ \A f \in BlockFields \ {"hash"} : [x EXCEPT !.hash = calculate_hash(x)][f] = x[f]
  OBVIOUS
<1>1. c = [f \in BlockFields |-> c[f]] =>
         /\ d = [f \in BlockFields |-> d[f]]
         /\ \A f \in BlockFields \ {"hash"} : d[f] = c[f]
  BY <1>0 DEF Altered
<1>2. b = [f \in BlockFields |-> b[f]]
  OBVIOUS
<1>3. /\ "transaction" \in BlockFields \ HeaderFields
      /\ "attestations" \in BlockFields \ HeaderFields
      /\ "hash" \in HeaderFields
      /\ Range(HashedHeader) \subseteq HeaderFields \ {"hash"}
  BY DEF BlockFields, HeaderFields, HashedHeader, Range
<1>t. IsText(change.to)
  BY KindsOfChange
<1>4. CASE change.part = "header" /\ change.field \in HeaderFields
  <2>1. c = [b EXCEPT ![change.field] = change.to]
    BY <1>4 DEF Changed
  <2>2. /\ c = [f \in BlockFields |-> c[f]]
        /\ \A f \in BlockFields \ {change.field} : c[f] = b[f]
    <3> HIDE DEF c
    <3> QED
      BY <1>2, <2>1
  <2> HIDE DEF c, d
  <2>3. /\ d = [f \in BlockFields |-> d[f]]
        /\ \A f \in BlockFields \ {change.field, "hash"} : d[f] = b[f]
    BY <1>1, <2>2
  <2>4. d.transaction = b.transaction /\ d.attestations = b.attestations
    BY <1>3, <1>4, <2>3
  <2>5. Shaped(d)
    <3> HIDE DEF ShapedList
    <3>1. d = [f \in BlockFields |-> d[f]]
      BY <2>3
    <3>2. d.transaction = [f \in TransactionFields |-> d.transaction[f]]
      BY <2>4
    <3>3. ShapedList(d.attestations)
      BY <2>4
    <3> QED
      BY <3>1, <3>2, <3>3
  <2>6. OtherHeader(d, b, change.field)
    BY <1>4, <2>3 DEF OtherHeader
  <2>7. Textual(d)
    <3>1. change.field # "hash" => d[change.field] = change.to
      <4>1. c[change.field] = change.to
        <5> HIDE DEF c
        <5>1. change.field \in BlockFields
          BY <1>4 DEF BlockFields
        <5> QED
          BY <1>2, <2>1, <5>1 DEF c
      <4>2. change.field # "hash" => d[change.field] = c[change.field]
        BY <1>1, <1>4, <2>2 DEF BlockFields
      <4> QED
        BY <4>1, <4>2
    <3>2. \A f \in Range(HashedHeader) : f = change.field \/ d[f] = b[f]
      BY <1>3, <2>3 DEF BlockFields
    <3>3. \A f \in Range(HashedHeader) : IsText(d[f])
      BY <1>3, <1>t, <3>1, <3>2 DEF Textual
    <3> QED
      BY <2>4, <3>3 DEF Textual
  <2> QED
    BY <2>5, <2>6, <2>7 DEF d
<1>5. CASE change.part = "transaction" /\ change.field \in TransactionFields
  <2>1. c = [b EXCEPT !.transaction = [b.transaction EXCEPT ![change.field] = change.to]]
    BY <1>5 DEF Changed
  <2>2. /\ c = [f \in BlockFields |-> c[f]]
        /\ \A f \in BlockFields \ {"transaction"} : c[f] = b[f]
        /\ c.transaction = [b.transaction EXCEPT ![change.field] = change.to]
    <3> HIDE DEF c
    <3> QED
      BY <1>2, <1>3, <2>1
  <2>3. /\ c.transaction = [f \in TransactionFields |-> c.transaction[f]]
        /\ \A f \in TransactionFields \ {change.field} : c.transaction[f] = b.transaction[f]
        /\ c.transaction[change.field] = change.to
    <3>1. b.transaction = [f \in TransactionFields |-> b.transaction[f]]
      OBVIOUS
    <3> HIDE DEF c
    <3> QED
      BY <1>5, <2>2, <3>1
  <2> HIDE DEF c, d
  <2>4. /\ d = [f \in BlockFields |-> d[f]]
        /\ \A f \in BlockFields \ {"transaction", "hash"} : d[f] = b[f]
        /\ d.transaction = [f \in TransactionFields |-> d.transaction[f]]
        /\ d.transaction = c.transaction
    BY <1>1, <1>3, <2>2, <2>3
  <2>5. d.attestations = b.attestations
    BY <1>3, <2>4
  <2>6. Shaped(d)
    <3> HIDE DEF ShapedList
    <3>1. ShapedList(d.attestations)
      BY <2>5
    <3> QED
      BY <2>4, <3>1
  <2>7. OtherTransaction(d, b, change.field)
    BY <1>5, <2>3, <2>4 DEF OtherTransaction
  <2>8. Textual(d)
    <3>1. \A f \in Range(HashedHeader) : d[f] = b[f]
      BY <1>3, <2>4 DEF BlockFields
    <3>2. \A f \in TransactionFields : IsText(d.transaction[f])
      BY <1>t, <2>3, <2>4 DEF Textual
    <3> QED
      BY <3>1, <3>2 DEF Textual
  <2> QED
    BY <2>6, <2>7, <2>8 DEF d
<1>6. CASE /\ change.part = "attestation" /\ change.field \in AttestationFields
           /\ change.at \in DOMAIN b.attestations
  <2> DEFINE at == change.at
             new == [b.attestations[at] EXCEPT ![change.field] = change.to]
  <2>1. c = [b EXCEPT !.attestations = [b.attestations EXCEPT ![at] = new]]
    BY <1>6 DEF Changed
  <2>2. /\ c = [f \in BlockFields |-> c[f]]
        /\ \A f \in BlockFields \ {"attestations"} : c[f] = b[f]
        /\ c.attestations = [b.attestations EXCEPT ![at] = new]
    <3> HIDE DEF c, new
    <3> QED
      BY <1>2, <1>3, <2>1
  <2>3. b.attestations = [i \in DOMAIN b.attestations |-> b.attestations[i]]
    OBVIOUS
  <2>4. /\ c.attestations = [i \in DOMAIN b.attestations |-> c.attestations[i]]
        /\ c.attestations[at] = new
        /\ \A i \in DOMAIN b.attestations \ {at} : c.attestations[i] = b.attestations[i]
    <3> HIDE DEF c, new
    <3> QED
      BY <1>6, <2>2, <2>3
  <2>5. /\ new = [f \in AttestationFields |-> new[f]]
        /\ \A f \in AttestationFields \ {change.field} : new[f] = b.attestations[at][f]
    <3>1. b.attestations[at] = [f \in AttestationFields |-> b.attestations[at][f]]
      BY <1>6
    <3> QED
      BY <3>1
  <2> HIDE DEF c, d, new
  <2>6. /\ d = [f \in BlockFields |-> d[f]]
        /\ \A f \in BlockFields \ {"attestations", "hash"} : d[f] = b[f]
        /\ d.attestations = c.attestations
    BY <1>1, <1>3, <2>2
  <2>7. /\ d.attestations = [i \in DOMAIN b.attestations |-> d.attestations[i]]
        /\ d.attestations[at] = [f \in AttestationFields |-> d.attestations[at][f]]
        /\ \A f \in AttestationFields \ {change.field} :
              d.attestations[at][f] = b.attestations[at][f]
        /\ \A i \in DOMAIN b.attestations \ {at} : d.attestations[i] = b.attestations[i]
    BY <2>4, <2>5, <2>6
  <2>8. OtherAttestation(d, b, at, change.field)
    BY <1>6, <2>6, <2>7 DEF OtherAttestation
  <2>9. d.transaction = b.transaction
    BY <1>3, <2>6
  <2>10. Shaped(d)
    <3>1. DOMAIN d.attestations = DOMAIN b.attestations
      BY <2>7
    <3>2. \A i \in DOMAIN d.attestations :
             d.attestations[i] = [f \in AttestationFields |-> d.attestations[i][f]]
      BY <2>7, <3>1
    <3> QED
      BY <2>6, <2>7, <2>9, <3>1, <3>2
  <2>11. Textual(d)
    <3>1. \A f \in Range(HashedHeader) : d[f] = b[f]
      BY <1>3, <2>6 DEF BlockFields
    <3> QED
      BY <2>9, <3>1 DEF Textual
  <2> QED
    BY <2>8, <2>10, <2>11 DEF d
<1> QED
  BY <1>4, <1>5, <1>6, KindsOfChange

\* An altered block is accepted exactly when its bytes are those of the block.
LEMMA AlteredIsJudged ==
  ASSUME NEW b, Genuine(b), NEW change \in Changes(b), NEW rehashed \in BOOLEAN
  PROVE  LET d == Altered(b, change, rehashed) IN
         /\ Shaped(d)
         /\ BytesOf(d) = BytesOf(b) => verify_signatures(d) = {"accepted"}
         /\ BytesOf(d) # BytesOf(b) => "accepted" \notin verify_signatures(d)
<1> DEFINE d == Altered(b, change, rehashed)
<1>1. /\ Shaped(d) /\ Textual(d)
      /\ \/ OtherHeader(d, b, change.field)
         \/ OtherTransaction(d, b, change.field)
         \/ OtherAttestation(d, b, change.at, change.field)
  BY AlteredInOneField DEF Genuine
<1>2. Shaped(b) /\ AllSigned(b)
  BY DEF Genuine
<1> HIDE DEF d, Shaped
<1>3. BytesOf(d) = BytesOf(b) <=> SameBytes(d, b)
  BY <1>1, <1>2, BytesCompared
<1>4. SameBytes(d, b) => verify_signatures(d) = {"accepted"}
  BY <1>2, SameBytesHold, GenuineIsAccepted
<1>5. "accepted" \in verify_signatures(d) => SameBytes(d, b)
  BY <1>1, AcceptedHolds, HeaderCovered, TransactionCovered, AttestationCovered
<1> QED
  BY <1>1, <1>3, <1>4, <1>5 DEF d

LEMMA JsonKeepsTransaction ==
  ASSUME NEW tx, tx = [f \in TransactionFields |-> tx[f]]
  PROVE  TransactionOfJson(TransactionJson(tx)) = tx
<1>1. tx = [sender |-> tx.sender, receiver |-> tx.receiver, amount |-> tx.amount,
            data |-> tx.data, nonce |-> tx.nonce,
            sender_public_key |-> tx.sender_public_key, signature |-> tx.signature]
  BY DEF TransactionFields
<1> QED
  BY <1>1 DEF TransactionOfJson, TransactionJson

\* The JSON of a block gives the block back.
LEMMA JsonKeepsBlock ==
  ASSUME NEW b, Shaped(b)
  PROVE  BlockOfJson(BlockJson(b)) = b
<1> DEFINE D == DOMAIN b.attestations
           written == [i \in D |-> AttestationJson(b.attestations[i])]
           j == BlockJson(b)
           c == BlockOfJson(j)
<1>0. TransactionOfJson(TransactionJson(b.transaction)) = b.transaction
  BY JsonKeepsTransaction
<1>1. j = [b EXCEPT !.transaction = TransactionJson(b.transaction), !.attestations = written]
  BY DEF BlockJson
<1>2. "transaction" \in BlockFields /\ "attestations" \in BlockFields
  BY DEF BlockFields
<1> HIDE DEF written, j
<1>3. /\ j = [f \in BlockFields |-> j[f]]
      /\ j.transaction = TransactionJson(b.transaction)
      /\ j.attestations = written
      /\ \A f \in BlockFields \ {"transaction", "attestations"} : j[f] = b[f]
  BY <1>1, <1>2
<1>4. c = [j EXCEPT !.transaction = TransactionOfJson(j.transaction),
                    !.attestations = [i \in DOMAIN j.attestations |->
                                         AttestationOfJson(j.attestations[i])]]
  BY DEF BlockOfJson
<1>5. ASSUME NEW i \in D PROVE AttestationOfJson(written[i]) = b.attestations[i]
  <2>1. written[i] = AttestationJson(b.attestations[i])
    BY DEF written
  <2>2. b.attestations[i] = [f \in AttestationFields |-> b.attestations[i][f]]
    OBVIOUS
  <2>3. b.attestations[i] = [public_key |-> b.attestations[i].public_key,
                             signature |-> b.attestations[i].signature]
    BY <2>2 DEF AttestationFields
  <2> QED
    BY <2>1, <2>3 DEF AttestationJson, AttestationOfJson
<1>6. DOMAIN written = D
  BY DEF written
<1>7. [i \in DOMAIN written |-> AttestationOfJson(written[i])] = b.attestations
  BY <1>5, <1>6
<1> HIDE DEF c
<1>8. /\ c = [f \in BlockFields |-> c[f]]
      /\ \A f \in BlockFields : c[f] = b[f]
  BY <1>0, <1>2, <1>3, <1>4, <1>7
<1>9. c = b
  BY <1>8
<1> QED
  BY <1>9 DEF c, j

-----------------------------------------------------------------------------
\* What PickBlock picks.
LEMMA TransactionIsSigned ==
  ASSUME NEW data, IsText(data), NEW receiver, IsText(receiver), NEW nonce, IsText(nonce),
         NEW key \in Keys
  PROVE  LET tx == build_signed_tx_for_receiver(data, receiver, nonce, key) IN
         /\ tx = [f \in TransactionFields |-> tx[f]]
         /\ \A f \in TransactionFields : IsText(tx[f])
         /\ verify_incoming_transaction(tx)
         /\ TransactionOfJson(TransactionJson(tx)) = tx
<1> DEFINE tx == build_signed_tx_for_receiver(data, receiver, nonce, key)
           bare == [sender |-> derive_address(Hex(key)), receiver |-> receiver,
                    amount |-> <<"0">>, data |-> data, nonce |-> nonce]
           text == serialize_for_signing(bare)
<1>1. tx = [sender |-> derive_address(Hex(key)), receiver |-> receiver, amount |-> <<"0">>,
            data |-> data, nonce |-> nonce, sender_public_key |-> Hex(key),
            signature |-> Sign(key, text)]
  BY DEF build_signed_tx_for_receiver
<1>2. serialize_for_signing(tx) = text
  <2> HIDE DEF tx
  <2> QED
    BY <1>1 DEF serialize_for_signing
<1> HIDE DEF tx, text
<1>3. tx = [f \in TransactionFields |-> tx[f]]
  BY <1>1 DEF TransactionFields
<1>4. /\ tx.sender_public_key = Hex(key) /\ tx.sender = derive_address(Hex(key))
      /\ tx.signature = Sign(key, text)
  BY <1>1
<1>5. verify_incoming_transaction(tx)
  BY <1>2, <1>4, HexIsRead DEF verify_incoming_transaction, Verified, Sign
<1>6. TransactionOfJson(TransactionJson(tx)) = tx
  BY <1>3, JsonKeepsTransaction
<1>7. \A f \in TransactionFields : IsText(tx[f])
  <2>1. /\ IsText(tx.sender) /\ IsText(tx.amount) /\ IsText(tx.sender_public_key)
        /\ IsText(tx.signature)
    BY <1>1, ShortTexts DEF derive_address, Hex, Sign
  <2>2. tx.receiver = receiver /\ tx.data = data /\ tx.nonce = nonce
    BY <1>1
  <2> QED
    BY <2>1, <2>2 DEF TransactionFields
<1> QED
  BY <1>3, <1>5, <1>6, <1>7 DEF tx

LEMMA SealedIsGenuine ==
  ASSUME NEW tx, NEW chain, NEW index, NEW previous, NEW state, NEW timestamp,
         IsText(chain), IsText(index), IsText(previous), IsText(state), IsText(timestamp),
         NEW leader \in Keys, NEW n, NEW attesting \in [1..n -> Keys],
         tx = [f \in TransactionFields |-> tx[f]], \A f \in TransactionFields : IsText(tx[f]),
         verify_incoming_transaction(tx)
  PROVE  Genuine(Sealed(from_incoming_transaction(tx, chain, index, previous, state, timestamp),
                        leader, attesting))
<1> DEFINE empty == from_incoming_transaction(tx, chain, index, previous, state, timestamp)
           led == [empty EXCEPT !.leader_public_key = Hex(leader),
                                !.leader_address = derive_address(Hex(leader))]
           hash == calculate_hash(led)
           attestations == [i \in DOMAIN attesting |->
                              [public_key |-> Hex(attesting[i]),
                               signature |-> Sign(attesting[i], hash)]]
           b == Sealed(empty, leader, attesting)
<1>1. /\ empty = [f \in BlockFields |-> empty[f]]
      /\ empty.sig_type = ECDSA /\ empty.transaction = tx
      /\ empty.chain_address = chain /\ empty.index = index /\ empty.previous_hash = previous
      /\ empty.state_hash = state /\ empty.timestamp = timestamp
  <2>1. empty = [index |-> index, previous_hash |-> previous, state_hash |-> state,
                 chain_address |-> chain, timestamp |-> timestamp, transaction |-> tx,
                 sig_type |-> ECDSA, leader_public_key |-> <<>>, leader_address |-> <<>>,
                 signature |-> <<>>, hash |-> <<>>, attestations |-> <<>>]
    BY Zenon DEF from_incoming_transaction
  <2> HIDE DEF empty
  <2> QED
    BY <2>1 DEF BlockFields, HeaderFields
<1> HIDE DEF empty
<1>2. b = [led EXCEPT !.hash = hash, !.signature = Sign(leader, hash),
                      !.attestations = attestations]
  BY Zenon DEF Sealed
<1>3. /\ led = [f \in BlockFields |-> led[f]]
      /\ led.leader_public_key = Hex(leader)
      /\ led.leader_address = derive_address(Hex(leader))
      /\ led.sig_type = ECDSA /\ led.transaction = tx
      /\ led.chain_address = chain /\ led.index = index /\ led.previous_hash = previous
      /\ led.state_hash = state /\ led.timestamp = timestamp
  BY <1>1 DEF BlockFields, HeaderFields
<1> HIDE DEF led, hash, attestations, b
<1>4. /\ b.hash = hash /\ b.signature = Sign(leader, hash)
      /\ b.attestations = attestations
      /\ \A f \in BlockFields \ {"hash", "signature", "attestations"} : b[f] = led[f]
      /\ b = [f \in BlockFields |-> b[f]]
  BY <1>2, <1>3 DEF BlockFields, HeaderFields
<1>5. calculate_hash(b) = hash
  BY <1>4 DEF hash, calculate_hash, BlockFields, HeaderFields
<1>6. /\ b.transaction = tx /\ b.sig_type = ECDSA /\ b.leader_public_key = Hex(leader)
      /\ b.leader_address = derive_address(Hex(leader))
      /\ b.chain_address = chain /\ b.index = index /\ b.previous_hash = previous
      /\ b.state_hash = state /\ b.timestamp = timestamp
  BY <1>3, <1>4 DEF BlockFields, HeaderFields
<1>7. verify_atomic_block_signature_with_ecdsa(b)
  BY <1>4, <1>5, <1>6, HexIsRead
     DEF verify_atomic_block_signature_with_ecdsa, Verified, Sign
<1>8. /\ attestations = [i \in DOMAIN attestations |-> attestations[i]]
      /\ \A i \in DOMAIN attestations :
            attestations[i] = [f \in AttestationFields |-> attestations[i][f]]
  BY DEF attestations, AttestationFields
<1>9. \A i \in DOMAIN attestations : Verified(attestations[i].public_key, hash,
                                              attestations[i].signature)
  <2>1. ASSUME NEW i \in 1..n
        PROVE  /\ attestations[i].public_key = Hex(attesting[i])
               /\ attestations[i].signature = Sign(attesting[i], hash)
               /\ attesting[i] \in Keys
    BY DEF attestations
  <2>2. DOMAIN attestations = 1..n
    BY DEF attestations
  <2> QED
    BY <2>1, <2>2, HexIsRead DEF Verified, Sign
<1>10. \A i \in DOMAIN b.attestations :
         VerdictOn(b.attestations[i], calculate_hash(b)) = "accepted"
  BY <1>4, <1>5, <1>9, VerdictAccepts
<1>11. Textual(b)
  <2>1. IsText(Hex(leader)) /\ IsText(derive_address(Hex(leader)))
    BY ShortTexts DEF Hex, derive_address
  <2>2. Range(HashedHeader) = {"index", "previous_hash", "state_hash", "chain_address",
                               "timestamp", "leader_public_key", "leader_address"}
    BY DEF Range, HashedHeader
  <2>3. \A f \in Range(HashedHeader) : IsText(b[f])
    BY <1>6, <2>1, <2>2
  <2> QED
    BY <1>6, <2>3 DEF Textual
<1>12. Shaped(b)
  BY <1>4, <1>6, <1>8
<1> QED
  BY <1>6, <1>7, <1>10, <1>11, <1>12 DEF Genuine, AllSigned, b, empty

HIDE DEF Shaped

-----------------------------------------------------------------------------
\* A step picks an input of one of four kinds.
LEMMA OtherInputs ==
  ASSUME Next
  PROVE  /\ input'.of # "ignore" \/ PickPatterns
         /\ input'.of # "actions" \/ PickActions
         /\ input'.of # "segment" \/ PickSegment
         /\ input'.of # "block" \/ PickBlock
<1>1. PickPatterns => input'.of = "ignore"
  BY DEF PickPatterns
<1>2. PickActions => input'.of = "actions"
  BY DEF PickActions
<1>3. PickSegment => input'.of = "segment"
  BY DEF PickSegment
<1>4. PickBlock => input'.of = "block"
  BY DEF PickBlock
<1> QED
  BY <1>1, <1>2, <1>3, <1>4 DEF Next

LEMMA NothingPicked == Nothing.of = "nothing"
BY DEF Nothing

(* BlockIsAuthentic: what the client, the leader and the nodes signed is      *)
(* accepted, also after its JSON was read; with any one field changed, and    *)
(* the hash computed anew or not, it is accepted exactly when only the         *)
(* spelling of the leader's signature or of an attestation has changed.      *)
THEOREM BlocksAreAuthentic == Spec => []BlockIsAuthentic
<1>1. Init => BlockIsAuthentic
  BY NothingPicked DEF Init, BlockIsAuthentic
<1>2. BlockIsAuthentic /\ [Next]_input => BlockIsAuthentic'
  <2>1. CASE UNCHANGED input
    BY <2>1 DEF BlockIsAuthentic
  <2>2. CASE Next /\ input'.of # "block"
    BY <2>2 DEF BlockIsAuthentic
  <2>3. ASSUME PickBlock PROVE BlockIsAuthentic'
    <3> DEFINE Tx(sender, receiver) ==
                  build_signed_tx_for_receiver(<<"data">>, derive_address(Hex(receiver)),
                                               <<"1">>, sender)
               Block(tx, leader, attesting) ==
                  Sealed(from_incoming_transaction(tx, <<"chain">>, <<"1">>, <<"previous">>,
                                                   <<"state">>, <<"2">>),
                         leader, attesting)
    <3>1. PICK sender \in Keys, receiver \in Keys, leader \in Keys,
               attesting \in SeqOf(Keys, MaxAttestations) :
             \E change \in Changes(Block(Tx(sender, receiver), leader, attesting)),
                rehashed \in BOOLEAN :
                input' = [of |-> "block", tx |-> Tx(sender, receiver),
                          block |-> Block(Tx(sender, receiver), leader, attesting),
                          change |-> change, rehashed |-> rehashed]
      BY <2>3 DEF PickBlock
    <3> DEFINE tx == Tx(sender, receiver)
               block == Block(tx, leader, attesting)
    <3>2. PICK change \in Changes(block), rehashed \in BOOLEAN :
             input' = [of |-> "block", tx |-> tx, block |-> block,
                       change |-> change, rehashed |-> rehashed]
      BY <3>1
    <3>3. PICK n \in 0..MaxAttestations : attesting \in [1..n -> Keys]
      BY DEF SeqOf
    <3>4. /\ tx = [f \in TransactionFields |-> tx[f]]
          /\ \A f \in TransactionFields : IsText(tx[f])
          /\ verify_incoming_transaction(tx)
          /\ TransactionOfJson(TransactionJson(tx)) = tx
      <4>1. IsText(<<"data">>) /\ IsText(<<"1">>) /\ IsText(derive_address(Hex(receiver)))
        BY ShortTexts DEF derive_address
      <4> QED
        BY <4>1, TransactionIsSigned
    <3> HIDE DEF Tx, tx
    <3>5. Genuine(block)
      <4>1. /\ IsText(<<"chain">>) /\ IsText(<<"1">>) /\ IsText(<<"previous">>)
            /\ IsText(<<"state">>) /\ IsText(<<"2">>)
        BY ShortTexts
      <4> QED
        BY <3>3, <3>4, <4>1, SealedIsGenuine
    <3> HIDE DEF Block, block
    <3> DEFINE d == Altered(block, change, rehashed)
    <3>6. /\ Shaped(d)
          /\ BytesOf(d) = BytesOf(block) => verify_signatures(d) = {"accepted"}
          /\ BytesOf(d) # BytesOf(block) => "accepted" \notin verify_signatures(d)
      BY <3>5, AlteredIsJudged
    <3>7. BlockOfJson(BlockJson(d)) = d
      <4> HIDE DEF d
      <4> QED
        BY <3>6, JsonKeepsBlock
    <3> QED
      BY <3>2, <3>4, <3>6, <3>7 DEF BlockIsAuthentic, Altered
  <2> QED
    BY <2>1, <2>2, <2>3, OtherInputs
<1> QED
  BY <1>1, <1>2, PTL DEF Spec

(* SegmentIsComplete: for chains of any length that grow between the requests *)
(* of get_chain_segment and pages of any size, what is returned is the start  *)
(* of the range asked for; if the node fills its pages, all of it that the    *)
(* chain had; and if no page starts a whole page before the cursor, the loop   *)
(* ends.  Neither condition is one the code checks.                          *)
THEOREM SegmentsAreComplete == Spec => []SegmentIsComplete
<1>1. Init => SegmentIsComplete
  BY NothingPicked DEF Init, SegmentIsComplete
<1>2. SegmentIsComplete /\ [Next]_input => SegmentIsComplete'
  <2>1. CASE UNCHANGED input
    BY <2>1 DEF SegmentIsComplete
  <2>2. CASE Next /\ input'.of # "segment"
    BY <2>2 DEF SegmentIsComplete
  <2>3. ASSUME PickSegment PROVE SegmentIsComplete'
    <3>1. PICK first \in 0..MaxLength, start \in 0..MaxLength, count \in 0..MaxLength,
               back \in 0..MaxLength, later \in (0..MaxLength) \cup {Fails},
               last \in (0..MaxLength) \cup {Fails}, sizes \in [1..3 -> 1..PageSize] :
             /\ later # Fails => first <= later
             /\ (last # Fails /\ later # Fails) => later <= last
             /\ last # Fails => first <= last
             /\ input' = [of |-> "segment", node |-> Serving(<<first, later, last>>, sizes, back),
                          start |-> start, count |-> count]
      BY <2>3, Zenon DEF PickSegment
    <3> DEFINE lengths == <<first, later, last>>
               node == Serving(lengths, sizes, back)
    <3>2. Growing(lengths) /\ start \in Nat /\ count \in Nat /\ back \in Nat
      <4>1. first \in Nat /\ start \in Nat /\ count \in Nat /\ back \in Nat
        BY LengthAssumption
      <4>2. later \in Nat \cup {Fails} /\ last \in Nat \cup {Fails}
        BY LengthAssumption
      <4> QED
        BY <3>1, <4>1, <4>2 DEF Growing
    <3> HIDE DEF lengths
    <3>3. Answers(node)
      BY <3>2 DEF Answers, Serving
    <3> HIDE DEF node
    <3>4. input'.node = node /\ input'.start = start /\ input'.count = count
      BY <3>1 DEF node, lengths
    <3> QED
      BY <3>2, <3>3, <3>4, SegmentReturned DEF SegmentIsComplete, Filled
  <2> QED
    BY <2>1, <2>2, <2>3, OtherInputs
<1> QED
  BY <1>1, <1>2, PTL DEF Spec

(* CodecKeepsActions: a plan of any length, cut into groups of any size the    *)
(* limit allows, is read from the blocks as it was.                          *)
THEOREM ActionsSurvive == Spec => []CodecKeepsActions
<1>1. Init => CodecKeepsActions
  BY NothingPicked DEF Init, CodecKeepsActions
<1>2. CodecKeepsActions /\ [Next]_input => CodecKeepsActions'
  <2>1. CASE UNCHANGED input
    BY <2>1 DEF CodecKeepsActions
  <2>2. CASE Next /\ input'.of # "actions"
    BY <2>2 DEF CodecKeepsActions
  <2>3. ASSUME PickActions PROVE CodecKeepsActions'
    <3>1. PICK actions \in SeqOf(Actions, MaxActions), size \in 1..MaxGroupActions :
             input' = [of |-> "actions", actions |-> actions, size |-> size]
      BY <2>3 DEF PickActions
    <3>2. actions \in Seq(Actions)
      BY DEF SeqOf
    <3>3. RoundTrip(actions, size) = actions
      BY <3>2, ActionsAssumption, PlanIsRead
    <3> QED
      BY <3>1, <3>3 DEF CodecKeepsActions
  <2> QED
    BY <2>1, <2>2, <2>3, OtherInputs
<1> QED
  BY <1>1, <1>2, PTL DEF Spec

(* WalkTracksRight: for any patterns, added to a .utxignore that init made or  *)
(* that was not there, and any files, status walks over the files it should. *)
THEOREM StatusWalksRight == Spec => []WalkTracksRight
<1>1. Init => WalkTracksRight
  BY NothingPicked DEF Init, WalkTracksRight
<1>2. WalkTracksRight /\ [Next]_input => WalkTracksRight'
  <2>1. CASE UNCHANGED input
    BY <2>1 DEF WalkTracksRight
  <2>2. CASE Next /\ input'.of # "ignore"
    BY <2>2 DEF WalkTracksRight
  <2>3. ASSUME PickPatterns PROVE WalkTracksRight'
    <3>1. PICK made \in BOOLEAN, added \in SeqOf(Patterns, MaxAdds) :
             input' = [of |-> "ignore", made |-> made, added |-> added]
      BY <2>3 DEF PickPatterns
    <3>2. added \in Seq(Patterns)
      BY DEF SeqOf
    <3>3. input'.of = "ignore" /\ input'.made = made /\ input'.added = added
      BY <3>1
    <3>4. (IF made THEN InitPatterns ELSE <<>>) = Base(made)
      BY DEF Base
    <3> DEFINE before == IF made THEN InitFile(Absent) ELSE Absent
    <3>5. Untracked(Files, {}, FileAfter(before, WrittenLines(added)))
            = ShouldList(Files, Defaults \o (Base(made) \o added))
      BY <3>2, WalkIsRight
    <3>6. WrittenLines(added) = [i \in DOMAIN added |-> Written(added[i])]
      BY DEF WrittenLines
    <3> QED
      BY Zenon, <3>3, <3>4, <3>5, <3>6 DEF WalkTracksRight
  <2> QED
    BY <2>1, <2>2, <2>3, OtherInputs
<1> QED
  BY <1>1, <1>2, PTL DEF Spec
=============================================================================
