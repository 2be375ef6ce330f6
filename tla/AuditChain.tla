----------------------------- MODULE AuditChain -----------------------------
(***************************************************************************)
(* The evidence: receipts (core/receipt_generator.py) in a hash chain      *)
(* (core/audit_chain.py), written by concurrent calls of Gateway.record    *)
(* and read by clients that page through GET /receipts, while at most one  *)
(* stored entry is damaged.                                                *)
(*                                                                         *)
(* A hash is an injective tag.  The digest of a receipt is its body; the   *)
(* hash of a block is the sequence of what was hashed into it, so that the *)
(* genesis hash is the empty sequence.                                     *)
(***************************************************************************)
EXTENDS MerkleTree

CONSTANTS Calls,      \* calls of Gateway.record, one-shot
          Decisions,  \* the decisions they record
          Times,      \* values of time_ns: no order is assumed between them
          Keys,       \* signing keys; the server has one of them
          Limit,      \* the page size of the reader
          CanDamage   \* TRUE: a stored entry may be altered or lost

ASSUME LimitAssumption == Limit \in Nat \ {0}
ASSUME DamageAssumption == CanDamage \in BOOLEAN

VARIABLES
  entries,    \* AuditChain._entries
  lastHash,   \* AuditChain._last_hash
  signed,     \* signed[c]: the receipt call c signed, if it got that far
  appended,   \* history: the entries as they were appended
  damage,     \* history: "none" or what happened to a stored entry
  page        \* a client of GET /receipts: offset, what it collected, the total

vars == <<entries, lastHash, signed, appended, damage, page>>

-----------------------------------------------------------------------------
(* Receipts and blocks.                                                    *)

Bodies == [receiptId : Calls, decision : Decisions]
Signatures == [key : Keys, digest : Bodies]
Receipts == [receipt : Bodies, receiptHash : Bodies,
             signature : Signatures, publicKey : Keys]
NoReceipt == [receipt |-> "none"]
Hashes == Seq([digest : Bodies, time : Times])
Entries == [signed : Receipts, blockHash : Hashes, previous : Hashes, time : Times]

Genesis == <<>>
BlockHash(previous, digest, time) == Append(previous, [digest |-> digest, time |-> time])

\* Mutant: the receipt has no id of its own.
GenerateAnonymous(c, d) ==
    [receiptId |-> CHOOSE one \in Calls : TRUE, decision |-> d]

\* Mutant: the two are taken in the wrong order.
GenerateSwapped(c, d) == [receiptId |-> d, decision |-> c]

\* The action id makes every receipt unique.  record passes no previous_hash.
Generate(c, d) == [receiptId |-> c, decision |-> d]

\* receipt_hash and the Ed25519 signature over it.
SignReceipt(body, key) ==
    [receipt |-> body, receiptHash |-> body,
     signature |-> [key |-> key, digest |-> body], publicKey |-> key]

\* ReceiptGenerator.verify: the signature over the hash that was stored, with
\* the key that was stored; the receipt itself is not hashed again.
SignatureHolds(s) == s.signature = [key |-> s.publicKey, digest |-> s.receiptHash]

Init ==
    /\ entries = <<>> /\ lastHash = Genesis
    /\ signed = [c \in Calls |-> NoReceipt]
    /\ appended = <<>> /\ damage = "none"
    /\ page = [step |-> "first", offset |-> 0, got |-> <<>>, total |-> 0]

\* generate and sign: on the stack of the call.
Sign(c) ==
    /\ signed[c] = NoReceipt
    /\ \E d \in Decisions, key \in Keys :
          signed' = [signed EXCEPT ![c] = SignReceipt(Generate(c, d), key)]
    /\ UNCHANGED <<entries, lastHash, appended, damage, page>>

Recorded(c) == \E i \in DOMAIN appended : appended[i].signed = signed[c]

NewEntry(s, previous, time) ==
    [signed |-> s, previous |-> previous, time |-> time,
     blockHash |-> BlockHash(previous, s.receiptHash, time)]

\* append, under the lock of the chain.
AppendEntry(c) ==
    /\ signed[c] # NoReceipt /\ ~Recorded(c)
    /\ \E time \in Times :
          LET entry == NewEntry(signed[c], lastHash, time)
          IN  /\ entries' = Append(entries, entry)
              /\ appended' = Append(appended, entry)
              /\ lastHash' = entry.blockHash
    /\ UNCHANGED <<signed, damage, page>>

-----------------------------------------------------------------------------
(* verify.                                                                 *)

\* Mutant: every entry is compared with the hash it carries itself.
ExpectAnything(i) == entries[i].previous

\* expected_hash when the walk of verify reaches entry i.
Expected(i) == IF i = 1 THEN Genesis ELSE entries[i - 1].blockHash

Mismatched(i) == entries[i].previous # Expected(i)

Recomputed(i) ==
    BlockHash(entries[i].previous, entries[i].signed.receiptHash, entries[i].time)

\* The entries verify reports; the chain is valid when there are none.
Errors == {i \in DOMAIN entries : Mismatched(i) \/ Recomputed(i) # entries[i].blockHash}

-----------------------------------------------------------------------------
(* The readers.                                                            *)

\* Mutant: pages count from the newest entry.
SliceNewest(offset) ==
    LET reversed == [i \in DOMAIN entries |-> entries[Len(entries) + 1 - i]]
    IN  SubSeq(reversed, offset + 1,
               IF offset + Limit <= Len(entries) THEN offset + Limit ELSE Len(entries))

\* entries[offset : offset + limit], oldest first.
Slice(offset) ==
    SubSeq(entries, offset + 1,
           IF offset + Limit <= Len(entries) THEN offset + Limit ELSE Len(entries))

\* One GET /receipts; a client asks on until it has the total it was told.
GetReceipts ==
    /\ page.step # "done"
    /\ page' = [step   |-> IF page.offset + Limit >= Len(entries) THEN "done" ELSE "next",
                offset |-> page.offset + Limit,
                got    |-> page.got \o [i \in DOMAIN Slice(page.offset) |->
                                          Slice(page.offset)[i].signed],
                total  |-> Len(entries)]
    /\ UNCHANGED <<entries, lastHash, signed, appended, damage>>

\* GET /receipts/{hash}: the first entry with that receipt hash.
Found(digest) ==
    LET hits == {i \in DOMAIN entries : entries[i].signed.receiptHash = digest}
    IN  IF hits = {} THEN NoReceipt
        ELSE entries[CHOOSE i \in hits : \A j \in hits : i <= j].signed

-----------------------------------------------------------------------------
(* Damage to what is stored, at most once: a field of an entry, an entry   *)
(* that is lost, two neighbours that are exchanged.  The entries are plain *)
(* dictionaries handed out by reference, and outlive no check of a reader. *)

Altered(i, changed) == changed # entries[i] /\ entries' = [entries EXCEPT ![i] = changed]

AlterLinked(i) ==
    /\ \/ \E t \in Times : Altered(i, [entries[i] EXCEPT !.time = t])
       \/ \E b \in Bodies : Altered(i, [entries[i] EXCEPT !.signed.receiptHash = b])
       \/ \E j \in DOMAIN entries :
             \/ Altered(i, [entries[i] EXCEPT !.blockHash = entries[j].blockHash])
             \/ Altered(i, [entries[i] EXCEPT !.previous = entries[j].blockHash])
    /\ damage' = "linked"

AlterReceipt(i) ==
    /\ \E b \in Bodies : Altered(i, [entries[i] EXCEPT !.signed.receipt = b])
    /\ damage' = "receipt"

Without(i) == [j \in 1 .. Len(entries) - 1 |-> IF j < i THEN entries[j] ELSE entries[j + 1]]

LoseEntry(i) == entries' = Without(i) /\ damage' = "lost"

Exchange(i) ==
    /\ i < Len(entries)
    /\ entries' = [entries EXCEPT ![i] = entries[i + 1], ![i + 1] = entries[i]]
    /\ damage' = "exchanged"

Damage ==
    /\ CanDamage /\ damage = "none"
    /\ \E i \in DOMAIN entries :
          AlterLinked(i) \/ AlterReceipt(i) \/ LoseEntry(i) \/ Exchange(i)
    /\ UNCHANGED <<lastHash, signed, appended, page>>

Next == \/ \E c \in Calls : Sign(c) \/ AppendEntry(c)
        \/ GetReceipts
        \/ Damage

Spec == Init /\ [][Next]_vars

-----------------------------------------------------------------------------
(* Properties.                                                             *)

\* Every variable holds a value of its type.
TypeOK ==
    /\ entries \in Seq(Entries) /\ appended \in Seq(Entries)
    /\ lastHash \in Hashes
    /\ signed \in [Calls -> Receipts \cup {NoReceipt}]
    /\ damage \in {"none", "linked", "receipt", "lost", "exchanged"}
    /\ page \in [step : {"first", "next", "done"}, offset : Nat,
                 got : Seq(Receipts), total : Nat]

\* What verify looks at in an entry.
Linked(entry) == [entry EXCEPT !.signed = entry.signed.receiptHash]

\* The stored entries are, as far as verify looks at them, the ones that were
\* appended, or the first of them with nothing appended after the loss.
Intact ==
    /\ Len(entries) <= Len(appended)
    /\ \A i \in DOMAIN entries : Linked(entries[i]) = Linked(appended[i])

\* "Tamper detection through chain integrity verification" (audit_chain.py), for
\* what it covers: the verdict of verify is the truth about hashes, links, times
\* and order, whatever happened to an entry and however many were appended since.
\* A lost tail is found by the next append and not before.
VerifyTellsDamage == Errors = {} <=> Intact

ReceiptHashes == [i \in DOMAIN entries |-> entries[i].signed.receiptHash]

\* The Merkle tree over the receipts of the chain: a proof leads from its leaf at
\* its position to the root, for every length and position, and from no other
\* receipt of the chain.  The receipts taken twice give the larger trees, with odd
\* levels above the leaves.
ProofsLeadToRoot ==
    \A times \in IF damage = "none" THEN {1, 2} ELSE {1} :
        LET leaves == IF times = 1 THEN ReceiptHashes ELSE ReceiptHashes \o ReceiptHashes
            root == Root(leaves)
        IN
        \A i \in DOMAIN leaves : \A j \in DOMAIN entries :
            Climb(leaves[j], i - 1, Proof(leaves, i - 1)) = root <=> leaves[i] = leaves[j]

\* A client that pages through GET /receipts while calls record has seen every
\* receipt up to the total it was told last, in the order of the chain and each
\* one once.
PagesAreComplete ==
    page.step = "done" /\ damage = "none" =>
        /\ Len(page.got) = page.total
        /\ \A i \in DOMAIN page.got : page.got[i] = appended[i].signed

\* The hash a caller was given leads to its own receipt, and the signature on it
\* holds, as long as what is stored was not damaged.
ReceiptsAreFound ==
    damage = "none" =>
        \A c \in Calls : Recorded(c) =>
            /\ Found(signed[c].receiptHash) = signed[c]
            /\ signed[c].receipt.receiptId = c
            /\ SignatureHolds(Found(signed[c].receiptHash))
=============================================================================
