----------------------------- MODULE BlockCheck -----------------------------
(***************************************************************************)
(* A block and its checks: the transaction a client signs, the block a      *)
(* leader makes of it, its JSON, and what OpenSSLCryptoService says of a     *)
(* block that comes back.                                                  *)
(*                                                                         *)
(* Texts are sequences.  A pair of keys is one element of Keys; the text of   *)
(* a public key or of a signature is its bytes and a spelling, as there are   *)
(* many hexadecimal texts of the same bytes, and many signatures that hold    *)
(* for the same key and hash: hex_to_bytes forgets which it was.  A hash is   *)
(* the text that is hashed: SHA-256 has no collisions here, and nobody signs  *)
(* without the key.  DamagedText stands for any text that cannot be read as   *)
(* a key or a signature; in another field it is just another value.          *)
(***************************************************************************)
EXTENDS Naturals, Sequences, SequencesExt

CONSTANTS Keys, Damaged

Spellings == {"as written", "another"}
Hex(bytes) == <<bytes, "as written">>
DamagedText == Hex(Damaged)
hex_to_bytes(text) == text[1]

SignatureBytes(key, hash) == [key |-> key, hash |-> hash]
Sign(key, hash) == Hex(SignatureBytes(key, hash))

derive_address(pub_hex) == <<[address_of |-> hex_to_bytes(pub_hex)]>>

\* EVP_PKEY_verify with a key and a signature that could be read.
Verified(key, hash, signature) ==
    hex_to_bytes(key) \in Keys
    /\ hex_to_bytes(signature) = SignatureBytes(hex_to_bytes(key), hash)

-----------------------------------------------------------------------------
serialize_for_signing(tx) ==
    FlattenSeq(<<tx.sender, <<":">>, tx.receiver, <<":">>, tx.amount, <<":">>,
                 tx.data, <<":">>, tx.nonce>>)

\* A SignedTransaction: the fields, then the signature of their hash.
build_signed_tx_for_receiver(data, receiver, nonce, key) ==
    LET tx == [sender |-> derive_address(Hex(key)), receiver |-> receiver, amount |-> <<"0">>,
               data |-> data, nonce |-> nonce] IN
    [sender |-> tx.sender, receiver |-> tx.receiver, amount |-> tx.amount,
     data |-> tx.data, nonce |-> tx.nonce, sender_public_key |-> Hex(key),
     signature |-> Sign(key, serialize_for_signing(tx))]

verify_incoming_transaction(tx) ==
    /\ hex_to_bytes(tx.sender_public_key) \in Keys
    /\ tx.sender = derive_address(tx.sender_public_key)
    /\ Verified(tx.sender_public_key, serialize_for_signing(tx), tx.signature)

\* The JSON of a transaction, in a block or on its own.
TransactionJson(tx) ==
    [sender |-> tx.sender, receiver |-> tx.receiver, amount |-> tx.amount,
     data |-> tx.data, nonce |-> tx.nonce, sender_pubkey |-> tx.sender_public_key,
     signature |-> tx.signature]

TransactionOfJson(j) ==
    [sender |-> j.sender, receiver |-> j.receiver, amount |-> j.amount,
     data |-> j.data, nonce |-> j.nonce, sender_public_key |-> j.sender_pubkey,
     signature |-> j.signature]

-----------------------------------------------------------------------------
ECDSA == <<"ecdsa">>

from_incoming_transaction(tx, chain_address, index, previous_hash, state_hash, timestamp) ==
    [index |-> index, previous_hash |-> previous_hash, state_hash |-> state_hash,
     chain_address |-> chain_address, timestamp |-> timestamp, transaction |-> tx,
     sig_type |-> ECDSA, leader_public_key |-> <<>>, leader_address |-> <<>>,
     signature |-> <<>>, hash |-> <<>>, attestations |-> <<>>]

\* Mutant: the state after the block is left out of its hash.
calculate_hash_NoState(block) ==
    FlattenSeq(<<block.index, block.previous_hash, block.chain_address, block.timestamp,
                 block.leader_public_key, block.leader_address,
                 block.transaction.sender_public_key, block.transaction.signature>>)

\* The fields side by side, with nothing between them.  The format has nine places
\* for ten arguments: the text of the transaction is not hashed, only its key and
\* its signature.
calculate_hash(block) ==
    FlattenSeq(<<block.index, block.previous_hash, block.state_hash, block.chain_address,
                 block.timestamp, block.leader_public_key, block.leader_address,
                 block.transaction.sender_public_key, block.transaction.signature>>)

\* What a leader and the nodes that attest the block do with it (external).
Sealed(block, leader, attesting) ==
    LET led == [block EXCEPT !.leader_public_key = Hex(leader),
                             !.leader_address = derive_address(Hex(leader))]
        hash == calculate_hash(led) IN
    [led EXCEPT !.hash = hash, !.signature = Sign(leader, hash),
                !.attestations = [i \in DOMAIN attesting |->
                    [public_key |-> Hex(attesting[i]), signature |-> Sign(attesting[i], hash)]]]

AttestationJson(a) == [pubkey |-> a.public_key, sig |-> a.signature]
AttestationOfJson(j) == [public_key |-> j.pubkey, signature |-> j.sig]

BlockJson(block) ==
    [block EXCEPT !.transaction = TransactionJson(@),
                  !.attestations = [i \in DOMAIN @ |-> AttestationJson(@[i])]]

BlockOfJson(j) ==
    [j EXCEPT !.transaction = TransactionOfJson(@),
              !.attestations = [i \in DOMAIN @ |-> AttestationOfJson(@[i])]]

-----------------------------------------------------------------------------
verify_atomic_block_signature_with_ecdsa(block) ==
    /\ block.sig_type = ECDSA
    /\ hex_to_bytes(block.leader_public_key) \in Keys
    /\ block.hash = calculate_hash(block)
    /\ Verified(block.leader_public_key, block.hash, block.signature)

\* Attestations are checked in parallel: a key or a signature that cannot be read
\* throws inside std::execution::par, which ends the process.
VerdictOn(attestation, hash) ==
    IF Verified(attestation.public_key, hash, attestation.signature) THEN "accepted"
    ELSE IF \/ hex_to_bytes(attestation.public_key) \notin Keys
            \/ hex_to_bytes(attestation.signature) = Damaged
         THEN "terminates" ELSE "refused"

\* The outcomes there may be: one bad attestation decides, whichever is met.
verify_block_attestations_with_ecdsa(block) ==
    LET hash == calculate_hash(block)
        bad == {VerdictOn(block.attestations[i], hash) : i \in DOMAIN block.attestations}
                  \ {"accepted"}
    IN IF bad = {} THEN {"accepted"} ELSE bad

verify_signatures(block) ==
    IF ~verify_atomic_block_signature_with_ecdsa(block) THEN {"refused"}
    ELSE LET attested == verify_block_attestations_with_ecdsa(block) IN
         IF attested # {"accepted"} THEN attested
         ELSE {IF verify_incoming_transaction(block.transaction)
               THEN "accepted" ELSE "refused"}

-----------------------------------------------------------------------------
\* A block that is read back with another value in one field: of the header, of
\* the transaction, or of its attestation `at`.
HeaderFields == {"index", "previous_hash", "state_hash", "chain_address", "timestamp",
                 "sig_type", "leader_public_key", "leader_address", "signature", "hash"}
TransactionFields == {"sender", "receiver", "amount", "data", "nonce",
                      "sender_public_key", "signature"}
AttestationFields == {"public_key", "signature"}

\* A key becomes another key or spelling, an address another address, a signature
\* that of another key or of another hash or another one of the same; any value may
\* be damaged.
NewValues(field, block) ==
    {DamagedText}
    \cup IF field \in {"leader_public_key", "sender_public_key", "public_key"}
         THEN Keys \X Spellings
         ELSE IF field \in {"leader_address", "sender", "receiver"}
         THEN {derive_address(Hex(k)) : k \in Keys}
         ELSE IF field = "signature"
         THEN {SignatureBytes(k, h) : k \in Keys,
                  h \in {block.hash, serialize_for_signing(block.transaction)}} \X Spellings
         ELSE {}

ChangesOf(part, at, fields, block) ==
    UNION {{[part |-> part, at |-> at, field |-> f, to |-> v] : v \in NewValues(f, block)} :
             f \in fields}

Changes(block) ==
    ChangesOf("header", 0, HeaderFields, block)
    \cup ChangesOf("transaction", 0, TransactionFields, block)
    \cup UNION {ChangesOf("attestation", i, AttestationFields, block) :
                  i \in DOMAIN block.attestations}

Changed(block, change) ==
    CASE change.part = "header" -> [block EXCEPT ![change.field] = change.to]
      [] change.part = "transaction" ->
            [block EXCEPT !.transaction = [@ EXCEPT ![change.field] = change.to]]
      [] change.part = "attestation" ->
            [block EXCEPT !.attestations[change.at] = [@ EXCEPT ![change.field] = change.to]]

\* What is read of a block: the leader's signature and the attestations are hashed
\* nowhere, so their spelling is nobody's concern.
BytesOf(block) ==
    [block EXCEPT
        !.signature = hex_to_bytes(@),
        !.attestations = [i \in DOMAIN @ |->
            [public_key |-> hex_to_bytes(@[i].public_key),
             signature |-> hex_to_bytes(@[i].signature)]]]
=============================================================================
