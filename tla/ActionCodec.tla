----------------------------- MODULE ActionCodec -----------------------------
(***************************************************************************)
(* Graph actions on their way to a chain and back (Action.hpp, Action.cpp): *)
(* how a list of actions is batched into groups, written into block data    *)
(* and read again.                                                         *)
(*                                                                         *)
(* A text is a sequence: the type's letter, the element id's characters     *)
(* and, when there is a payload, one base64 field, an element of the       *)
(* sequence that stands for the characters of the encoding.                *)
(***************************************************************************)
EXTENDS Naturals, Sequences, SequencesExt

CONSTANTS IdLength,         \* 32 in the code
          MaxGroupActions   \* MAX_GROUP_ACTIONS, 50 in the code

ASSUME LimitsAssumption == IdLength \in Nat \ {0} /\ MaxGroupActions \in Nat \ {0}

\* The optional payload.
None == <<>>
Some(payload) == <<payload>>

\* An action that could not be read: the code throws.
Throw == [type |-> "throws", element_id |-> <<>>, payload |-> None]

Field(payload) == [base64 |-> payload]

action_type_to_char(type) ==
    CASE type = "SET" -> "S" [] type = "GROUP" -> "G" [] type = "MOVE" -> "M"
      [] type = "DELETE" -> "D" [] type = "COMMIT_TAG" -> "T"

-----------------------------------------------------------------------------
(* Builders. *)

build_set_action(id, property, value, deleted) ==
    [type |-> "SET", element_id |-> id,
     payload |-> Some([property |-> property, value |-> value,
                       is_property_deleted |-> deleted])]

build_delete_property_action(id, property) == build_set_action(id, property, "", TRUE)

build_move_action(id, destination, direction) ==
    [type |-> "MOVE", element_id |-> id,
     payload |-> Some([destination_id |-> destination, direction |-> direction])]

build_commit_action(message) ==
    [type |-> "COMMIT_TAG", element_id |-> <<>>, payload |-> Some([message |-> message])]

\* What the builders make, apart from groups.  SET and MOVE name an element and
\* have a payload, DELETE has none; a text is a sequence of characters.
IsBuilt(action) ==
    /\ action = [type |-> action.type, element_id |-> action.element_id,
                 payload |-> action.payload]
    /\ action.element_id \in Seq(STRING)
    /\ action.payload # None => action.payload = Some(action.payload[1])
    /\ \/ action.type \in {"SET", "MOVE"} /\ Len(action.element_id) = IdLength
                                        /\ action.payload # None
       \/ action.type = "DELETE" /\ action.payload = None
       \/ action.type = "COMMIT_TAG" /\ action.element_id = <<>>

encode(action) ==
    << action_type_to_char(action.type) >> \o action.element_id
    \o (IF action.payload = None THEN <<>> ELSE << Field(action.payload[1]) >>)

build_group_action(actions) ==
    [type |-> "GROUP", element_id |-> <<>>,
     payload |-> Some([i \in DOMAIN actions |-> encode(actions[i])])]

\* Mutant: the last action of a batch is the first of the next.
batch_into_group_actions_Overlap(actions, size) ==
    [g \in 1..((Len(actions) + size - 1) \div size) |->
        build_group_action(SubSeq(actions, (g - 1) * size + 1,
                                  IF g * size + 1 > Len(actions) THEN Len(actions)
                                  ELSE g * size + 1))]

\* The g-th batch starts where the one before it stopped.
batch_into_group_actions(actions, size) ==
    [g \in 1..((Len(actions) + size - 1) \div size) |->
        build_group_action(SubSeq(actions, (g - 1) * size + 1,
                                  IF g * size > Len(actions) THEN Len(actions)
                                  ELSE g * size))]

-----------------------------------------------------------------------------
(* Reading. *)

\* What base64 decoding makes of the rest of a text: characters that are no field
\* of their own decode to bytes that are no payload.
Decoded(field) ==
    IF Len(field) = 1 /\ field[1] \in [base64 : {field[1].base64}]
    THEN field[1].base64 ELSE "garbage"

\* SET and MOVE: an id of IdLength characters, and a payload that is not empty.
decode_action(raw) ==
    LET action(type, id, payload) == [type |-> type, element_id |-> id, payload |-> payload] IN
    CASE raw = <<>> -> Throw
      [] raw[1] = "D" -> action("DELETE", Tail(raw), None)
      [] raw[1] = "G" -> action("GROUP", <<>>, Some(Decoded(Tail(raw))))
      [] raw[1] = "T" -> action("COMMIT_TAG", <<>>,
                                IF Len(raw) > 1 THEN Some(Decoded(Tail(raw))) ELSE None)
      [] raw[1] \in {"S", "M"} ->
            LET type == IF raw[1] = "S" THEN "SET" ELSE "MOVE" IN
            IF Len(raw) > 1 + IdLength
            THEN action(type, SubSeq(raw, 2, IdLength + 1),
                        Some(Decoded(SubSeq(raw, IdLength + 2, Len(raw)))))
            ELSE action(type, <<>>, None)
      [] OTHER -> Throw

\* The checks on a group that comes from a chain.
decode_blockchain_action(raw) ==
    LET action == decode_action(raw) IN
    IF /\ action.type = "GROUP"
       /\ LET group == action.payload[1] IN
          Len(group) > MaxGroupActions \/ \E i \in DOMAIN group : group[i][1] = "G"
    THEN Throw ELSE action

\* What a graph is given of a block: the actions of its group, in their order.
ActionsOf(raw) ==
    LET action == decode_blockchain_action(raw) IN
    IF action.type = "GROUP"
    THEN [i \in DOMAIN action.payload[1] |-> decode_action(action.payload[1][i])]
    ELSE <<action>>

-----------------------------------------------------------------------------
RoundTrip(actions, size) ==
    LET groups == batch_into_group_actions(actions, size) IN
    FlattenSeq([g \in DOMAIN groups |-> ActionsOf(encode(groups[g]))])
=============================================================================
