---------------------------- MODULE ChainSegment ----------------------------
(***************************************************************************)
(* NetworkClient::get_chain_segment: a range of a chain's blocks, read page *)
(* by page from a node while the chain may be growing.                     *)
(*                                                                         *)
(* The node (external): it answers /chain/<address>/sync/<cursor> with      *)
(* consecutive blocks of its chain, from `back` blocks before the cursor on, *)
(* in the order it likes.  At the k-th request its chain has lengths[k]      *)
(* blocks, or the request has no usable answer ("fails"), and a page holds   *)
(* sizes[k] blocks, unless the chain ends earlier; the last entry of either  *)
(* list stands for every later request.                                    *)
(***************************************************************************)
EXTENDS Naturals, Sequences, SequencesExt, FiniteSetsExt

CONSTANTS PageSize,     \* kPageSize, 100 in the code
          Fails

ASSUME PageAssumption == PageSize \in Nat \ {0}

At(list, k) == list[Min({k, Len(list)})]

\* The set of block indices of the answer to the k-th request.
Page(node, k, cursor) ==
    LET length == At(node.lengths, k)
        from == IF node.back > cursor THEN 0 ELSE cursor - node.back
    IN IF length = Fails THEN Fails
       ELSE {i \in from..(from + At(node.sizes, k) - 1) : i < length}

\* The blocks of a page in the order of their indices (ranges::sort).
Sorted(blocks) ==
    CHOOSE s \in SetToSeqs(blocks) : \A i, j \in DOMAIN s : i < j => s[i] < s[j]

\* Mutant: a block below the cursor, sent again, is collected again.
Collect_Again(page, cursor, end) ==
    LET taken == {i \in page : i < end} IN
    [blocks |-> Sorted(taken),
     cursor |-> IF taken = {} THEN cursor ELSE Max(taken) + 1]

\* The blocks of one page: from the cursor on, before the end.
Collect(page, cursor, end) ==
    LET taken == {i \in page : cursor <= i /\ i < end} IN
    [blocks |-> Sorted(taken),
     cursor |-> IF taken = {} THEN cursor ELSE Max(taken) + 1]

\* One page: the loop fails, goes on after a full page that has not reached the end,
\* or breaks off; an empty page is not a full one.
ReadPage(loop, page, end) ==
    IF page = Fails THEN [loop EXCEPT !.state = "failed"]
    ELSE LET step == Collect(page, loop.cursor, end) IN
         [blocks |-> loop.blocks \o step.blocks, cursor |-> step.cursor,
          state |-> IF Cardinality(page) = PageSize /\ step.cursor < end
                    THEN "reading" ELSE "done"]

\* What a round of the loop makes of it, with the k-th page.
Round(node, end, k, loop) ==
    IF loop.state = "reading" THEN ReadPage(loop, Page(node, k, loop.cursor), end)
    ELSE loop

\* The loop after each number of pages.  Once the node's lists are at their end a
\* round that moves the cursor no further is followed by the same round for ever, so
\* a loop that still reads after this many never ends.
Pages(node, start, count) ==
    LET end == start + count
        loop[k \in 0..(count + Len(node.lengths))] ==
            IF k = 0 THEN [blocks |-> <<>>, cursor |-> start,
                           state |-> IF start < end THEN "reading" ELSE "done"]
            ELSE Round(node, end, k, loop[k - 1])
    IN loop

get_chain_segment(node, start, count) ==
    Pages(node, start, count)[count + Len(node.lengths)]
=============================================================================
