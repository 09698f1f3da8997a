------------------------------- MODULE Values -------------------------------
(***************************************************************************)
(* Four of the pure algorithms, each put on a table of inputs: a behaviour  *)
(* picks one input, and an invariant compares what the algorithm makes of   *)
(* it with a definition of its own.                                        *)
(***************************************************************************)
EXTENDS IgnoreRules, ActionCodec, ChainSegment, BlockCheck

CONSTANTS Patterns,     \* patterns a user may add to .utxignore
          Files,        \* the files of the working copy
          MaxAdds,      \* how many patterns are added
          Actions,      \* actions a plan may hold
          MaxActions,   \* how many it holds
          MaxLength,    \* the longest a chain may be
          MaxAttestations  \* how many nodes attest a block

ASSUME PatternsAssumption == \A p \in Patterns : IsPattern(p)
\* No file is a directory, and no name has an end of line in it.
ASSUME FilesAssumption ==
    \A f, g \in Files : f \in Seq(Char \ {"nl"}) /\ f \notin Parents(g)
ASSUME ActionsAssumption == \A action \in Actions : IsBuilt(action)
ASSUME LengthAssumption == MaxLength \in Nat

VARIABLE input

Nothing == [of |-> "nothing"]

\* A .utxignore, made by `utx ignore init` or not, and a few `utx ignore add`.
PickPatterns ==
    /\ input = Nothing
    /\ \E made \in BOOLEAN, added \in SeqOf(Patterns, MaxAdds) :
          input' = [of |-> "ignore", made |-> made, added |-> added]

\* A plan and the size of its batches.
PickActions ==
    /\ input = Nothing
    /\ \E actions \in SeqOf(Actions, MaxActions), size \in 1..MaxGroupActions :
          input' = [of |-> "actions", actions |-> actions, size |-> size]

\* What a node answers: its chain grows, a page may start before the cursor and be
\* shorter than it could be.
Serving(lengths, sizes, back) == [lengths |-> lengths, sizes |-> sizes, back |-> back]

\* A range of a chain, and its node.
PickSegment ==
    /\ input = Nothing
    /\ \E first, start, count, back \in 0..MaxLength,
          later, last \in (0..MaxLength) \cup {Fails}, sizes \in [1..3 -> 1..PageSize] :
          /\ later # Fails => first <= later
          /\ (last # Fails /\ later # Fails) => later <= last
          /\ last # Fails => first <= last
          /\ input' = [of |-> "segment", node |-> Serving(<<first, later, last>>, sizes, back),
                       start |-> start, count |-> count]

\* A block of a client's transaction, one of its fields that is read back with
\* another value, and whether its hash is then computed anew.
PickBlock ==
    /\ input = Nothing
    /\ \E sender, receiver, leader \in Keys, attesting \in SeqOf(Keys, MaxAttestations) :
          LET tx == build_signed_tx_for_receiver(<<"data">>, derive_address(Hex(receiver)),
                                                 <<"1">>, sender)
              block == Sealed(from_incoming_transaction(tx, <<"chain">>, <<"1">>, <<"previous">>,
                                                        <<"state">>, <<"2">>),
                              leader, attesting)
          IN \E change \in Changes(block), rehashed \in BOOLEAN :
                input' = [of |-> "block", tx |-> tx, block |-> block,
                          change |-> change, rehashed |-> rehashed]

Init == input = Nothing

Next == PickPatterns \/ PickActions \/ PickSegment \/ PickBlock

Spec == Init /\ [][Next]_input

-----------------------------------------------------------------------------
(* After any `utx ignore add`s on a file that init made or that was not     *)
(* there, status lists the files it should: neither the program's own, nor  *)
(* one that the last matching pattern ignores, of the defaults, of init's    *)
(* and of the added ones, nor one in a directory that is ignored.           *)
WalkTracksRight ==
    input.of = "ignore" =>
        LET before == IF input.made THEN InitFile(Absent) ELSE Absent
            text == FileAfter(before, [i \in DOMAIN input.added |-> Written(input.added[i])])
            base == IF input.made THEN InitPatterns ELSE <<>>
        IN Untracked(Files, {}, text) = ShouldList(Files, Defaults \o (base \o input.added))

(* A plan cut into groups of any size the limit allows, written into blocks *)
(* and read from them, is the plan.                                        *)
CodecKeepsActions ==
    input.of = "actions" => RoundTrip(input.actions, input.size) = input.actions

(* A segment that is returned is the start of the range asked for, every     *)
(* block once and in order, however the chain grows between the pages, how   *)
(* far back a page starts and how short it is.  It goes as far as the chain  *)
(* went when it was first asked if the node fills its pages: the loop breaks *)
(* off after a shorter one and returns what it has as if that were all.     *)
(* The loop ends if no page starts a whole page before the cursor: a full    *)
(* page of blocks that it has makes it ask for the same page again, for ever *)
(* (NetworkClient.hpp:84-122).                                              *)
SegmentIsComplete ==
    input.of = "segment" =>
        LET node == input.node
            loop == get_chain_segment(node, input.start, input.count)
            segment == loop.blocks
            Filled == \A k \in DOMAIN node.sizes : node.sizes[k] = PageSize
        IN /\ loop.state = "done" =>
                 /\ \A i \in DOMAIN segment : segment[i] = input.start + i - 1
                 /\ Len(segment) <= input.count
                 /\ Filled => input.start + Len(segment)
                       >= Min({input.start + input.count,
                               Max({input.start, node.lengths[1]})})
           /\ node.back < PageSize => loop.state # "reading"

(* A transaction that a client signs is accepted, alone and in the block its *)
(* leader and the nodes sealed, also after both went through JSON.  A block   *)
(* that is read back with another value in one field, its hash computed anew *)
(* or not, is accepted exactly when all that has changed is how the leader's  *)
(* signature or an attestation is spelled: neither calculate_hash nor the    *)
(* transaction's signature covers every field, together they do, and they    *)
(* cover the spelling of the keys and of the transaction's signature.  Blocks *)
(* that differ in several fields are not compared: calculate_hash puts its   *)
(* fields side by side and could take one for another.                      *)
BlockIsAuthentic ==
    input.of = "block" =>
        LET altered == Changed(input.block, input.change)
            block == IF input.rehashed
                     THEN [altered EXCEPT !.hash = calculate_hash(altered)]
                     ELSE altered
        IN /\ verify_incoming_transaction(TransactionOfJson(TransactionJson(input.tx)))
           /\ BlockOfJson(BlockJson(block)) = block
           /\ BytesOf(block) = BytesOf(input.block) => verify_signatures(block) = {"accepted"}
           /\ BytesOf(block) # BytesOf(input.block) => "accepted" \notin verify_signatures(block)
=============================================================================
