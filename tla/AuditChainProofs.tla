-------------------------- MODULE AuditChainProofs --------------------------
(***************************************************************************)
(* Theorems about AuditChain, for any calls, decisions, times, keys and    *)
(* page size, with or without damage, and about the Merkle tree over any   *)
(* sequence of leaves.                                                     *)
(***************************************************************************)
EXTENDS AuditChain, SequenceTheorems, TLAPS

-----------------------------------------------------------------------------
(* Hashes and entries.                                                     *)

\* A block hash is as long as its chain, and tells everything that went into it.
LEMMA BlockHashType ==
    ASSUME NEW p \in Hashes, NEW d \in Bodies, NEW t \in Times
    PROVE  BlockHash(p, d, t) \in Hashes /\ Len(BlockHash(p, d, t)) = Len(p) + 1
BY AppendProperties DEF BlockHash, Hashes

LEMMA BlockHashInjective ==
    ASSUME NEW p \in Hashes, NEW d \in Bodies, NEW t \in Times,
           NEW q \in Hashes, NEW e \in Bodies, NEW u \in Times,
           BlockHash(p, d, t) = BlockHash(q, e, u)
    PROVE  p = q /\ d = e /\ t = u
<1>1. [digest |-> d, time |-> t] \in [digest : Bodies, time : Times]
      /\ [digest |-> e, time |-> u] \in [digest : Bodies, time : Times]
      OBVIOUS
<1>2. p = q /\ [digest |-> d, time |-> t] = [digest |-> e, time |-> u]
      BY <1>1, AppendInjective DEF BlockHash, Hashes
<1> QED BY <1>2

LEMMA SignReceiptType ==
    ASSUME NEW c \in Calls, NEW d \in Decisions, NEW key \in Keys
    PROVE  SignReceipt(Generate(c, d), key) \in Receipts
BY DEF SignReceipt, Generate, Receipts, Bodies, Signatures

LEMMA NewEntryType ==
    ASSUME NEW s \in Receipts, NEW p \in Hashes, NEW t \in Times
    PROVE  NewEntry(s, p, t) \in Entries
BY BlockHashType DEF NewEntry, Entries, Receipts

\* What verify looks at is the receipt hash, the block hash, the link and the time.
SameLink(e, f) ==
    /\ e.signed.receiptHash = f.signed.receiptHash
    /\ e.blockHash = f.blockHash /\ e.previous = f.previous /\ e.time = f.time

LEMMA LinkedSame ==
    ASSUME NEW e \in Entries, NEW f \in Entries
    PROVE  Linked(e) = Linked(f) <=> SameLink(e, f)
BY DEF Linked, SameLink, Entries

Sound(i) ==
    /\ entries[i].previous = Expected(i)
    /\ entries[i].blockHash =
         BlockHash(entries[i].previous, entries[i].signed.receiptHash, entries[i].time)

LEMMA NoErrors == Errors = {} <=> \A i \in DOMAIN entries : Sound(i)
BY DEF Errors, Mismatched, Recomputed, Sound

LEMMA IntactMeans ==
    ASSUME entries \in Seq(Entries), appended \in Seq(Entries)
    PROVE  Intact <=> /\ Len(entries) <= Len(appended)
                      /\ \A i \in DOMAIN entries : SameLink(entries[i], appended[i])
<1>1. ASSUME Len(entries) <= Len(appended), NEW i \in DOMAIN entries
      PROVE  entries[i] \in Entries /\ appended[i] \in Entries
      BY <1>1
<1> QED BY <1>1, LinkedSame DEF Intact

-----------------------------------------------------------------------------
(* Types.                                                                  *)

LEMMA SliceType ==
    ASSUME entries \in Seq(Entries), NEW offset \in Nat
    PROVE  /\ Slice(offset) \in Seq(Entries)
           /\ Len(Slice(offset)) = IF offset >= Len(entries) THEN 0
                                   ELSE IF offset + Limit <= Len(entries) THEN Limit
                                   ELSE Len(entries) - offset
           /\ \A i \in 1 .. Len(Slice(offset)) : Slice(offset)[i] = entries[offset + i]
<1> DEFINE last == IF offset + Limit <= Len(entries) THEN offset + Limit ELSE Len(entries)
<1>1. last \in Int /\ offset + 1 \in Int /\ Limit \in Nat \ {0} /\ Len(entries) \in Nat
      BY LimitAssumption
<1>2. \A i \in offset + 1 .. last : entries[i] \in Entries
      BY <1>1
<1> HIDE DEF last
<1>3. /\ SubSeq(entries, offset + 1, last) \in Seq(Entries)
      /\ Len(SubSeq(entries, offset + 1, last)) =
            IF offset + 1 <= last THEN last - (offset + 1) + 1 ELSE 0
      /\ \A i \in 1 .. last - (offset + 1) + 1 :
            SubSeq(entries, offset + 1, last)[i] = entries[offset + 1 + i - 1]
      BY <1>1, <1>2, SubSeqProperties
<1>4. Slice(offset) = SubSeq(entries, offset + 1, last)
      BY DEF Slice, last
<1>5. \A i \in 1 .. Len(Slice(offset)) : Slice(offset)[i] = entries[offset + i]
      BY <1>1, <1>3, <1>4
<1> QED BY <1>1, <1>3, <1>4, <1>5 DEF last

\* The receipts of one page.
Signeds(offset) == [i \in DOMAIN Slice(offset) |-> Slice(offset)[i].signed]

LEMMA PageType ==
    ASSUME entries \in Seq(Entries), page.got \in Seq(Receipts), NEW offset \in Nat
    PROVE  /\ Signeds(offset) \in Seq(Receipts)
           /\ Len(Signeds(offset)) = Len(Slice(offset))
           /\ page.got \o Signeds(offset) \in Seq(Receipts)
<1>1. Slice(offset) \in Seq(Entries)
      BY SliceType
<1>2. \A i \in DOMAIN Slice(offset) : Slice(offset)[i].signed \in Receipts
  <2>1. \A i \in DOMAIN Slice(offset) : Slice(offset)[i] \in Entries
        BY <1>1, LenProperties, ElementOfSeq
  <2> QED BY <2>1 DEF Entries
<1>3. Signeds(offset) \in Seq(Receipts) /\ Len(Signeds(offset)) = Len(Slice(offset))
  <2>1. Len(Slice(offset)) \in Nat /\ DOMAIN Slice(offset) = 1 .. Len(Slice(offset))
        BY <1>1, LenProperties
  <2>2. Signeds(offset) = [i \in 1 .. Len(Slice(offset)) |-> Slice(offset)[i].signed]
        BY <2>1 DEF Signeds
  <2> QED BY <1>2, <2>1, <2>2
<1> QED BY <1>3, ConcatProperties

\* What damage leaves behind is still a list of entries.
LEMMA DamageType ==
    ASSUME entries \in Seq(Entries), Damage
    PROVE  entries' \in Seq(Entries) /\ damage' \in {"linked", "receipt", "lost", "exchanged"}
<1>1. PICK i \in DOMAIN entries :
        AlterLinked(i) \/ AlterReceipt(i) \/ LoseEntry(i) \/ Exchange(i)
      BY DEF Damage
<1>2. \A j \in DOMAIN entries : entries[j] \in Entries
      OBVIOUS
<1>3. ASSUME NEW e \in Entries, entries' = [entries EXCEPT ![i] = e]
      PROVE  entries' \in Seq(Entries)
      BY <1>3, ExceptSeq
<1>4. CASE AlterLinked(i)
  <2>1. PICK e : /\ entries' = [entries EXCEPT ![i] = e]
                 /\ \/ \E t \in Times : e = [entries[i] EXCEPT !.time = t]
                    \/ \E b \in Bodies : e = [entries[i] EXCEPT !.signed.receiptHash = b]
                    \/ \E j \in DOMAIN entries :
                          \/ e = [entries[i] EXCEPT !.blockHash = entries[j].blockHash]
                          \/ e = [entries[i] EXCEPT !.previous = entries[j].blockHash]
        BY <1>4 DEF AlterLinked, Altered
  <2>2. e \in Entries
        BY <1>2, <2>1 DEF Entries, Receipts
  <2> QED BY <1>3, <1>4, <2>1, <2>2 DEF AlterLinked
<1>5. CASE AlterReceipt(i)
  <2>1. PICK b \in Bodies : entries' = [entries EXCEPT ![i] =
                                          [entries[i] EXCEPT !.signed.receipt = b]]
        BY <1>5 DEF AlterReceipt, Altered
  <2>2. [entries[i] EXCEPT !.signed.receipt = b] \in Entries
        BY <1>2 DEF Entries, Receipts
  <2> QED BY <1>3, <1>5, <2>1, <2>2 DEF AlterReceipt
<1>6. CASE LoseEntry(i)
  <2>1. Len(entries) - 1 \in Nat
        OBVIOUS
  <2>2. \A j \in 1 .. Len(entries) - 1 :
            (IF j < i THEN entries[j] ELSE entries[j + 1]) \in Entries
        BY <1>2
  <2> QED BY <1>6, <2>1, <2>2 DEF LoseEntry, Without
<1>7. CASE Exchange(i)
  <2>1. i + 1 \in DOMAIN entries /\ i + 1 # i
        BY <1>7 DEF Exchange
  <2>2. entries' = [[entries EXCEPT ![i] = entries[i + 1]] EXCEPT ![i + 1] = entries[i]]
        BY <1>7 DEF Exchange
  <2> QED BY <1>2, <1>7, <2>1, <2>2 DEF Exchange
<1> QED BY <1>1, <1>4, <1>5, <1>6, <1>7

\* Types, for every instance.
THEOREM TypeCorrect == Spec => []TypeOK
<1>1. Init => TypeOK
  <2> SUFFICES ASSUME Init PROVE TypeOK
      OBVIOUS
  <2>1. <<>> \in Seq(Entries) /\ <<>> \in Hashes /\ <<>> \in Seq(Receipts)
        BY EmptySeq DEF Hashes
  <2> QED BY <2>1 DEF Init, TypeOK, Genesis
<1>2. TypeOK /\ [Next]_vars => TypeOK'
  <2> SUFFICES ASSUME TypeOK, [Next]_vars PROVE TypeOK'
      OBVIOUS
  <2> USE DEF TypeOK
  <2>1. ASSUME NEW c \in Calls, Sign(c)
        PROVE  TypeOK'
        BY <2>1, SignReceiptType DEF Sign
  <2>2. ASSUME NEW c \in Calls, AppendEntry(c)
        PROVE  TypeOK'
    <3>1. PICK time \in Times :
            LET entry == NewEntry(signed[c], lastHash, time)
            IN  /\ entries' = Append(entries, entry)
                /\ appended' = Append(appended, entry)
                /\ lastHash' = entry.blockHash
          BY <2>2 DEF AppendEntry
    <3>2. signed[c] \in Receipts
          BY <2>2 DEF AppendEntry
    <3>3. NewEntry(signed[c], lastHash, time) \in Entries
          BY <3>2, NewEntryType
    <3>4. entries' \in Seq(Entries) /\ appended' \in Seq(Entries)
          BY <3>1, <3>3, AppendProperties
    <3>5. lastHash' \in Hashes
          BY <3>1, <3>3 DEF Entries
    <3> QED BY <2>2, <3>4, <3>5 DEF AppendEntry
  <2>3. CASE GetReceipts
    <3>1. page' = [step   |-> IF page.offset + Limit >= Len(entries) THEN "done" ELSE "next",
                   offset |-> page.offset + Limit,
                   got    |-> page.got \o Signeds(page.offset),
                   total  |-> Len(entries)]
          BY <2>3 DEF GetReceipts, Signeds
    <3>2. page.got \o Signeds(page.offset) \in Seq(Receipts)
          BY PageType
    <3>3. page.offset + Limit \in Nat /\ Len(entries) \in Nat
          BY LimitAssumption
    <3>4. page' \in [step : {"first", "next", "done"}, offset : Nat,
                     got : Seq(Receipts), total : Nat]
          BY <3>1, <3>2, <3>3
    <3> QED BY <2>3, <3>4 DEF GetReceipts
  <2>4. CASE Damage
    <3>1. UNCHANGED <<lastHash, signed, appended, page>>
          BY <2>4 DEF Damage
    <3> QED BY <2>4, <3>1, DamageType
  <2>5. CASE UNCHANGED vars
        BY <2>5 DEF vars
  <2> QED BY <2>1, <2>2, <2>3, <2>4, <2>5 DEF Next
<1> QED BY <1>1, <1>2, PTL DEF Spec

-----------------------------------------------------------------------------
(* verify.                                                                 *)

Tip == IF appended = <<>> THEN Genesis ELSE appended[Len(appended)].blockHash

\* What was appended is a chain that starts at the genesis hash and ends at the head
\* of the chain; as long as nothing was damaged it is what is stored.
HonestOK ==
    /\ lastHash = Tip
    /\ \A i \in DOMAIN appended :
          /\ appended[i].previous = IF i = 1 THEN Genesis ELSE appended[i - 1].blockHash
          /\ appended[i].blockHash =
                BlockHash(appended[i].previous, appended[i].signed.receiptHash, appended[i].time)
          /\ Len(appended[i].blockHash) = i
    /\ damage = "none" => entries = appended

\* The head of the chain is as long as the chain.
LEMMA HeadLength ==
    ASSUME TypeOK, HonestOK
    PROVE  Len(lastHash) = Len(appended)
<1>1. CASE appended = <<>>
      BY <1>1, EmptySeq DEF HonestOK, Tip, Genesis, Hashes, TypeOK
<1>2. CASE appended # <<>>
      BY <1>2 DEF HonestOK, Tip, TypeOK
<1> QED BY <1>1, <1>2

\* A chain to which nothing happened verifies.
LEMMA HonestVerifies ==
    ASSUME TypeOK, HonestOK, damage = "none"
    PROVE  Errors = {} /\ Intact
<1>1. entries = appended
      BY DEF HonestOK
<1>2. \A i \in DOMAIN entries : Sound(i)
      BY <1>1 DEF Sound, Expected, HonestOK
<1>3. Intact
      BY <1>1 DEF Intact, TypeOK
<1> QED BY <1>2, <1>3, NoErrors

\* What an append does to both lists.
LEMMA AppendEffect ==
    ASSUME TypeOK, NEW c \in Calls, AppendEntry(c)
    PROVE  \E e \in Entries :
              /\ e.signed = signed[c] /\ e.previous = lastHash /\ lastHash' = e.blockHash
              /\ e.blockHash = BlockHash(e.previous, e.signed.receiptHash, e.time)
              /\ Len(e.blockHash) = Len(lastHash) + 1
              /\ entries' = Append(entries, e) /\ appended' = Append(appended, e)
<1>1. PICK time \in Times :
        /\ entries' = Append(entries, NewEntry(signed[c], lastHash, time))
        /\ appended' = Append(appended, NewEntry(signed[c], lastHash, time))
        /\ lastHash' = NewEntry(signed[c], lastHash, time).blockHash
      BY DEF AppendEntry
<1>2. signed[c] \in Receipts /\ lastHash \in Hashes
      BY DEF AppendEntry, TypeOK
<1>3. signed[c].receiptHash \in Bodies
      BY <1>2 DEF Receipts
<1> DEFINE e == NewEntry(signed[c], lastHash, time)
<1>4. e \in Entries
      BY <1>2, NewEntryType
<1>5. /\ e.signed = signed[c] /\ e.previous = lastHash
      /\ e.blockHash = BlockHash(e.previous, e.signed.receiptHash, e.time)
      BY DEF NewEntry
<1>6. Len(e.blockHash) = Len(lastHash) + 1
      BY <1>2, <1>3, <1>4, <1>5, BlockHashType DEF Entries
<1> HIDE DEF e
<1> QED BY <1>1, <1>4, <1>5, <1>6 DEF e

\* A step appends honestly or not at all.
LEMMA HonestStep ==
    ASSUME TypeOK, HonestOK, [Next]_vars
    PROVE  HonestOK'
<1>1. ASSUME NEW c \in Calls, AppendEntry(c)
      PROVE  HonestOK'
  <2>1. PICK e \in Entries :
          /\ e.signed = signed[c] /\ e.previous = lastHash /\ lastHash' = e.blockHash
          /\ e.blockHash = BlockHash(e.previous, e.signed.receiptHash, e.time)
          /\ Len(e.blockHash) = Len(lastHash) + 1
          /\ entries' = Append(entries, e) /\ appended' = Append(appended, e)
        BY <1>1, AppendEffect
  <2>2. /\ Len(appended') = Len(appended) + 1 /\ appended' # <<>>
        /\ appended'[Len(appended) + 1] = e
        /\ \A i \in DOMAIN appended : appended'[i] = appended[i]
        /\ DOMAIN appended' = DOMAIN appended \cup {Len(appended) + 1}
        /\ Len(appended) \in Nat /\ DOMAIN appended = 1 .. Len(appended)
        BY <2>1, AppendProperties DEF TypeOK
  <2>3. lastHash' = Tip'
        BY <2>1, <2>2 DEF Tip
  <2>4. damage' = damage /\ (damage = "none" => entries' = appended')
        BY <1>1, <2>1 DEF AppendEntry, HonestOK
  <2>5. ASSUME NEW i \in DOMAIN appended'
        PROVE  /\ appended'[i].previous = IF i = 1 THEN Genesis ELSE appended'[i - 1].blockHash
               /\ appended'[i].blockHash = BlockHash(appended'[i].previous,
                     appended'[i].signed.receiptHash, appended'[i].time)
               /\ Len(appended'[i].blockHash) = i
    <3>1. CASE i \in DOMAIN appended
          BY <2>2, <3>1 DEF HonestOK
    <3>2. CASE i = Len(appended) + 1
      <4>1. e.previous = IF i = 1 THEN Genesis ELSE appended'[i - 1].blockHash
        <5>1. CASE appended = <<>>
              BY <2>1, <3>2, <5>1 DEF HonestOK, Tip
        <5>2. CASE appended # <<>>
          <6>1. Len(appended) \in DOMAIN appended /\ i - 1 = Len(appended) /\ i # 1
                BY <2>2, <3>2, <5>2, EmptySeq DEF TypeOK
          <6> QED BY <2>1, <2>2, <5>2, <6>1 DEF HonestOK, Tip
        <5> QED BY <5>1, <5>2
      <4>2. Len(e.blockHash) = i
            BY <2>1, <3>2, HeadLength
      <4> QED BY <2>1, <2>2, <3>2, <4>1, <4>2
    <3> QED BY <2>2, <3>1, <3>2
  <2> QED BY <2>3, <2>4, <2>5 DEF HonestOK
<1>2. ASSUME NEW c \in Calls, Sign(c)
      PROVE  HonestOK'
      BY <1>2 DEF Sign, HonestOK, Tip
<1>3. CASE GetReceipts
      BY <1>3 DEF GetReceipts, HonestOK, Tip
<1>4. CASE Damage
  <2>1. damage' # "none"
        BY <1>4, DamageType DEF TypeOK
  <2> QED BY <1>4, <2>1 DEF Damage, HonestOK, Tip
<1>5. CASE UNCHANGED vars
      BY <1>5 DEF vars, HonestOK, Tip
<1> QED BY <1>1, <1>2, <1>3, <1>4, <1>5 DEF Next

\* An append after the verdict was right leaves it right: a lost tail shows now.
LEMMA VerdictAfterAppend ==
    ASSUME TypeOK, HonestOK, VerifyTellsDamage, NEW c \in Calls, AppendEntry(c), TypeOK'
    PROVE  VerifyTellsDamage'
<1>1. PICK e \in Entries :
        /\ e.signed = signed[c] /\ e.previous = lastHash /\ lastHash' = e.blockHash
        /\ e.blockHash = BlockHash(e.previous, e.signed.receiptHash, e.time)
        /\ Len(e.blockHash) = Len(lastHash) + 1
        /\ entries' = Append(entries, e) /\ appended' = Append(appended, e)
      BY AppendEffect
<1>n. PICK n \in Nat, m \in Nat : n = Len(entries) /\ m = Len(appended)
      BY DEF TypeOK
<1>2. /\ DOMAIN entries = 1 .. n /\ DOMAIN appended = 1 .. m
      /\ DOMAIN entries' = 1 .. n + 1 /\ DOMAIN appended' = 1 .. m + 1
      /\ Len(entries') = n + 1 /\ Len(appended') = m + 1
      /\ entries'[n + 1] = e /\ appended'[m + 1] = e
      /\ \A i \in 1 .. n : entries'[i] = entries[i]
      /\ \A i \in 1 .. m : appended'[i] = appended[i]
      BY <1>1, <1>n, AppendProperties DEF TypeOK
<1>3. \A i \in 1 .. n : Sound(i)' <=> Sound(i)
      BY <1>2 DEF Sound, Expected
<1>4. Sound(n + 1)' <=> e.previous = IF n = 0 THEN Genesis ELSE entries[n].blockHash
      BY <1>1, <1>2 DEF Sound, Expected
<1>5. Intact <=> n <= m /\ \A i \in 1 .. n : SameLink(entries[i], appended[i])
      BY <1>2, <1>n, IntactMeans DEF TypeOK
<1>6. Intact' <=> n + 1 <= m + 1 /\ \A i \in 1 .. n + 1 : SameLink(entries'[i], appended'[i])
  <2>1. (entries \in Seq(Entries))' /\ (appended \in Seq(Entries))'
        BY DEF TypeOK
  <2>2. Intact' <=> /\ Len(entries') <= Len(appended')
                    /\ \A i \in DOMAIN entries' : SameLink(entries'[i], appended'[i])
    <3>1. ASSUME Len(entries') <= Len(appended'), NEW i \in DOMAIN entries'
          PROVE  entries'[i] \in Entries /\ appended'[i] \in Entries
          BY <2>1, <3>1
    <3> QED BY <3>1, LinkedSame DEF Intact
  <2> QED BY <1>2, <2>2
<1>7. Errors' = {} <=> (\A i \in 1 .. n : Sound(i)) /\ Sound(n + 1)'
  <2>1. Errors' = {} <=> \A i \in 1 .. n + 1 : Sound(i)'
        BY <1>2 DEF Errors, Mismatched, Recomputed, Sound
  <2> QED BY <1>2, <1>3, <2>1
<1>8. Errors = {} <=> \A i \in 1 .. n : Sound(i)
      BY <1>2, NoErrors
<1>9. Len(lastHash) = m
      BY <1>n, HeadLength
<1>10. \A i \in 1 .. m : Len(appended[i].blockHash) = i
      BY <1>2 DEF HonestOK
<1>11. CASE n = m
  <2>1. SameLink(entries'[n + 1], appended'[n + 1])
    <3>1. entries'[n + 1] = e /\ appended'[n + 1] = e
          BY <1>2, <1>11
    <3> QED BY <3>1 DEF SameLink
  <2>2. Intact' <=> Intact
        BY <1>2, <1>5, <1>6, <1>11, <2>1
  <2>3. Intact => Sound(n + 1)'
    <3>1. CASE n = 0
      <4>1. appended = <<>>
            BY <1>n, <1>11, <3>1, EmptySeq DEF TypeOK
      <4> QED BY <1>1, <1>4, <3>1, <4>1 DEF HonestOK, Tip
    <3>2. CASE n # 0
      <4>1. n \in 1 .. n /\ appended # <<>>
            BY <1>n, <1>11, <3>2, EmptySeq DEF TypeOK
      <4>2. lastHash = appended[n].blockHash
            BY <1>n, <1>11, <4>1 DEF HonestOK, Tip
      <4>3. Intact => entries[n].blockHash = appended[n].blockHash
            BY <1>5, <4>1 DEF SameLink
      <4> QED BY <1>1, <1>4, <3>2, <4>2, <4>3
    <3> QED BY <3>1, <3>2
  <2> QED BY <1>7, <1>8, <2>2, <2>3 DEF VerifyTellsDamage
<1>12. CASE n < m
  <2>1. ~Intact'
    <3>1. appended'[n + 1] = appended[n + 1] /\ Len(appended[n + 1].blockHash) = n + 1
          BY <1>2, <1>10, <1>12
    <3>2. Len(e.blockHash) # n + 1
          BY <1>1, <1>2, <1>9, <1>12
    <3>3. ~SameLink(entries'[n + 1], appended'[n + 1])
          BY <1>2, <3>1, <3>2 DEF SameLink
    <3> QED BY <1>2, <1>6, <3>3
  <2>2. Intact => ~Sound(n + 1)'
    <3>1. CASE n = 0
      <4>1. Len(Genesis) = 0
            BY EmptySeq DEF Genesis
      <4> QED BY <1>1, <1>2, <1>4, <1>9, <1>12, <3>1, <4>1
    <3>2. CASE n # 0
      <4>1. n \in 1 .. n /\ n \in 1 .. m
            BY <1>2, <1>12, <3>2
      <4>2. Intact => Len(entries[n].blockHash) = n
            BY <1>5, <1>10, <4>1 DEF SameLink
      <4> QED BY <1>1, <1>2, <1>4, <1>9, <1>12, <3>2, <4>2
    <3> QED BY <3>1, <3>2
  <2> QED BY <1>7, <1>8, <2>1, <2>2 DEF VerifyTellsDamage
<1>13. CASE n > m
  <2>1. ~Intact /\ ~Intact'
        BY <1>2, <1>5, <1>6, <1>13
  <2> QED BY <1>7, <1>8, <2>1 DEF VerifyTellsDamage
<1> QED BY <1>2, <1>11, <1>12, <1>13

\* Any damage to a chain that verified is reported, except to what verify does not
\* look at and except the loss of the tail.
LEMMA VerdictAfterDamage ==
    ASSUME TypeOK, HonestOK, Damage, TypeOK'
    PROVE  VerifyTellsDamage'
<1>1. PICK i \in DOMAIN entries :
        AlterLinked(i) \/ AlterReceipt(i) \/ LoseEntry(i) \/ Exchange(i)
      BY DEF Damage
<1>2. entries = appended /\ appended' = appended /\ Errors = {}
      BY HonestVerifies DEF Damage, HonestOK
<1>n. PICK n \in Nat : n = Len(entries)
      BY DEF TypeOK
<1>3. /\ DOMAIN entries = 1 .. n /\ i \in 1 .. n
      /\ \A j \in 1 .. n : entries[j] \in Entries /\ Sound(j)
      /\ \A j \in 1 .. n : Len(entries[j].blockHash) = j
  <2>1. DOMAIN entries = 1 .. n /\ \A j \in 1 .. n : entries[j] \in Entries
        BY <1>n DEF TypeOK
  <2>2. \A j \in 1 .. n : Sound(j)
        BY <1>2, <2>1, NoErrors
  <2>3. \A j \in 1 .. n : Len(entries[j].blockHash) = j
        BY <1>2, <2>1 DEF HonestOK
  <2> QED BY <1>1, <2>1, <2>2, <2>3
<1>4. \A j \in 1 .. n : /\ entries[j].previous \in Hashes /\ entries[j].time \in Times
                        /\ entries[j].signed.receiptHash \in Bodies
      BY <1>3 DEF Entries, Receipts
<1>5. Errors' = {} <=> \A j \in DOMAIN entries' : Sound(j)'
      BY DEF Errors, Mismatched, Recomputed, Sound
<1>6. Intact' <=> /\ Len(entries') <= Len(appended')
                  /\ \A j \in DOMAIN entries' : SameLink(entries'[j], appended'[j])
  <2>1. ASSUME Len(entries') <= Len(appended'), NEW j \in DOMAIN entries'
        PROVE  entries'[j] \in Entries /\ appended'[j] \in Entries
        BY <2>1 DEF TypeOK
  <2> QED BY <2>1, LinkedSame DEF Intact
\* An entry that verify looks at is altered: it, or its link, no longer fits.
<1>7. ASSUME NEW e, entries' = [entries EXCEPT ![i] = e], ~SameLink(e, entries[i]),
             \/ e.previous # Expected(i)
             \/ e.blockHash # BlockHash(e.previous, e.signed.receiptHash, e.time)
      PROVE  VerifyTellsDamage'
  <2>1. /\ DOMAIN entries' = 1 .. n /\ entries'[i] = e
        /\ \A j \in 1 .. n : j # i => entries'[j] = entries[j]
        BY <1>3, <1>7
  <2>2. ~Intact'
        BY <1>2, <1>3, <1>6, <1>7, <2>1
  <2>3. ~Sound(i)'
        BY <1>3, <1>7, <2>1 DEF Sound, Expected
  <2> QED BY <1>3, <1>5, <2>1, <2>2, <2>3 DEF VerifyTellsDamage
<1>8. CASE AlterLinked(i)
  <2>1. CASE \E t \in Times : Altered(i, [entries[i] EXCEPT !.time = t])
    <3>1. PICK t \in Times : LET e == [entries[i] EXCEPT !.time = t]
                             IN  e # entries[i] /\ entries' = [entries EXCEPT ![i] = e]
          BY <2>1 DEF Altered
    <3> DEFINE e == [entries[i] EXCEPT !.time = t]
    <3>2. /\ e.time = t /\ t # entries[i].time /\ e.previous = entries[i].previous
          /\ e.blockHash = entries[i].blockHash
          /\ e.signed.receiptHash = entries[i].signed.receiptHash
          BY <1>3, <3>1 DEF Entries
    <3>3. e.blockHash # BlockHash(e.previous, e.signed.receiptHash, e.time)
          BY <1>3, <1>4, <3>2, BlockHashInjective DEF Sound
    <3>4. ~SameLink(e, entries[i])
          BY <3>2 DEF SameLink
    <3> QED BY <1>7, <3>1, <3>3, <3>4
  <2>2. CASE \E b \in Bodies : Altered(i, [entries[i] EXCEPT !.signed.receiptHash = b])
    <3>1. PICK b \in Bodies : LET e == [entries[i] EXCEPT !.signed.receiptHash = b]
                              IN  e # entries[i] /\ entries' = [entries EXCEPT ![i] = e]
          BY <2>2 DEF Altered
    <3> DEFINE e == [entries[i] EXCEPT !.signed.receiptHash = b]
    <3>2. /\ e.time = entries[i].time /\ e.previous = entries[i].previous
          /\ e.blockHash = entries[i].blockHash /\ e.signed.receiptHash = b
          /\ b # entries[i].signed.receiptHash
      <4>1. entries[i] \in Entries /\ entries[i].signed \in Receipts
            BY <1>3 DEF Entries
      <4> QED BY <3>1, <4>1 DEF Entries, Receipts
    <3>3. e.blockHash # BlockHash(e.previous, e.signed.receiptHash, e.time)
          BY <1>3, <1>4, <3>2, BlockHashInjective DEF Sound
    <3>4. ~SameLink(e, entries[i])
          BY <3>2 DEF SameLink
    <3> QED BY <1>7, <3>1, <3>3, <3>4
  <2>3. CASE \E j \in DOMAIN entries :
                Altered(i, [entries[i] EXCEPT !.blockHash = entries[j].blockHash])
    <3>1. PICK j \in DOMAIN entries :
            LET e == [entries[i] EXCEPT !.blockHash = entries[j].blockHash]
            IN  e # entries[i] /\ entries' = [entries EXCEPT ![i] = e]
          BY <2>3 DEF Altered
    <3> DEFINE e == [entries[i] EXCEPT !.blockHash = entries[j].blockHash]
    <3>2. /\ e.time = entries[i].time /\ e.previous = entries[i].previous
          /\ e.signed = entries[i].signed /\ e.blockHash # entries[i].blockHash
          BY <1>3, <3>1 DEF Entries
    <3>3. e.blockHash # BlockHash(e.previous, e.signed.receiptHash, e.time)
          BY <1>3, <3>2 DEF Sound
    <3>4. ~SameLink(e, entries[i])
          BY <3>2 DEF SameLink
    <3> QED BY <1>7, <3>1, <3>3, <3>4
  <2>4. CASE \E j \in DOMAIN entries :
                Altered(i, [entries[i] EXCEPT !.previous = entries[j].blockHash])
    <3>1. PICK j \in DOMAIN entries :
            LET e == [entries[i] EXCEPT !.previous = entries[j].blockHash]
            IN  e # entries[i] /\ entries' = [entries EXCEPT ![i] = e]
          BY <2>4 DEF Altered
    <3> DEFINE e == [entries[i] EXCEPT !.previous = entries[j].blockHash]
    <3>2. e.previous # entries[i].previous
          BY <1>3, <3>1 DEF Entries
    <3>3. e.previous # Expected(i)
          BY <1>3, <3>2 DEF Sound
    <3>4. ~SameLink(e, entries[i])
          BY <3>2 DEF SameLink
    <3> QED BY <1>7, <3>1, <3>3, <3>4
  <2> QED BY <1>8, <2>1, <2>2, <2>3, <2>4 DEF AlterLinked
\* The body of a receipt is altered: verify does not look at it.
<1>9. CASE AlterReceipt(i)
  <2>1. PICK b \in Bodies : entries' = [entries EXCEPT ![i] =
                                          [entries[i] EXCEPT !.signed.receipt = b]]
        BY <1>9 DEF AlterReceipt, Altered
  <2>2. DOMAIN entries' = 1 .. n /\ Len(entries') = n
        /\ \A j \in 1 .. n : SameLink(entries'[j], entries[j])
    <3>1. DOMAIN entries' = 1 .. n /\ Len(entries') = n
          BY <1>n, <1>3, <2>1, ExceptSeq DEF TypeOK
    <3>2. entries[i] \in Entries /\ entries[i].signed \in Receipts
          BY <1>3 DEF Entries
    <3>3. SameLink(entries'[i], entries[i])
          BY <1>3, <2>1, <3>2 DEF SameLink, Entries, Receipts
    <3>4. \A j \in 1 .. n : j # i => entries'[j] = entries[j]
          BY <1>3, <2>1
    <3> QED BY <3>1, <3>3, <3>4 DEF SameLink
  <2>3. Intact'
        BY <1>2, <1>6, <1>n, <2>2
  <2>4. ASSUME NEW j \in 1 .. n
        PROVE  Sound(j)'
    <3>1. SameLink(entries'[j], entries[j])
          BY <2>2
    <3>2. Expected(j)' = Expected(j)
      <4>1. j # 1 => j - 1 \in 1 .. n
            OBVIOUS
      <4> QED BY <2>2, <4>1 DEF Expected, SameLink
    <3>3. Sound(j)
          BY <1>3
    <3> QED BY <3>1, <3>2, <3>3 DEF Sound, SameLink
  <2> QED BY <1>5, <2>2, <2>3, <2>4 DEF VerifyTellsDamage
\* An entry is not at its place: another one with a longer hash is.
<1>10. ASSUME i < n, i \in DOMAIN entries', entries'[i] = entries[i + 1],
              \A j \in 1 .. i - 1 : entries'[j] = entries[j]
       PROVE  VerifyTellsDamage'
  <2>1. Len(entries[i + 1].blockHash) = i + 1 /\ Len(entries[i].blockHash) = i
        BY <1>3, <1>10
  <2>2. ~Intact'
        BY <1>2, <1>6, <1>10, <2>1 DEF SameLink
  <2>3. entries[i + 1].previous = entries[i].blockHash
        BY <1>3, <1>10 DEF Sound, Expected
  <2>4. Expected(i)' = Expected(i)
        BY <1>3, <1>10 DEF Expected
  <2>5. Expected(i) = entries[i].previous /\ Len(Expected(i)) = i - 1
    <3>1. CASE i = 1
          BY <1>3, <3>1, EmptySeq DEF Sound, Expected, Genesis
    <3>2. CASE i # 1
          BY <1>3, <3>2 DEF Sound, Expected
    <3> QED BY <3>1, <3>2
  <2>6. ~Sound(i)'
        BY <1>3, <1>10, <2>1, <2>3, <2>4, <2>5 DEF Sound
  <2> QED BY <1>5, <1>10, <2>2, <2>6 DEF VerifyTellsDamage
<1>11. CASE LoseEntry(i)
  <2>1. /\ DOMAIN entries' = 1 .. n - 1
        /\ \A j \in 1 .. n - 1 : entries'[j] = IF j < i THEN entries[j] ELSE entries[j + 1]
        BY <1>11, <1>n DEF LoseEntry, Without
  <2>2. CASE i < n
        BY <1>3, <1>10, <2>1, <2>2
  <2>3. CASE i = n
    <3>1. \A j \in 1 .. n - 1 : entries'[j] = entries[j]
          BY <2>1, <2>3
    <3>2. Len(entries') = n - 1
          BY <1>11, <1>3, <1>n DEF LoseEntry, Without
    <3>3. Intact'
          BY <1>2, <1>6, <1>n, <2>1, <3>1, <3>2 DEF SameLink
    <3>4. \A j \in 1 .. n - 1 : Sound(j)'
          BY <1>3, <3>1 DEF Sound, Expected
    <3> QED BY <1>5, <2>1, <3>3, <3>4 DEF VerifyTellsDamage
  <2> QED BY <1>3, <2>2, <2>3
<1>12. CASE Exchange(i)
  <2>1. i < n /\ i + 1 # i
        BY <1>12, <1>n DEF Exchange
  <2>2. entries' = [[entries EXCEPT ![i] = entries[i + 1]] EXCEPT ![i + 1] = entries[i]]
        BY <1>12 DEF Exchange
  <2>3. DOMAIN entries' = 1 .. n /\ entries'[i] = entries[i + 1]
        /\ \A j \in 1 .. i - 1 : entries'[j] = entries[j]
        BY <1>3, <2>1, <2>2
  <2> QED BY <1>3, <1>10, <2>1, <2>3
<1> QED BY <1>1, <1>8, <1>9, <1>11, <1>12

\* The verdict of verify is the truth about what it covers, however long the chain,
\* whatever was damaged and however many entries were appended since.
THEOREM VerifyTellsDamageAlways == Spec => []VerifyTellsDamage
<1>1. Init => HonestOK /\ VerifyTellsDamage
  <2> SUFFICES ASSUME Init PROVE HonestOK /\ VerifyTellsDamage
      OBVIOUS
  <2>1. HonestOK
        BY EmptySeq DEF Init, HonestOK, Tip
  <2>2. Errors = {} /\ Intact
        BY EmptySeq DEF Init, Errors, Intact
  <2> QED BY <2>1, <2>2 DEF VerifyTellsDamage
<1>2. TypeOK /\ TypeOK' /\ HonestOK /\ VerifyTellsDamage /\ [Next]_vars => VerifyTellsDamage'
  <2> SUFFICES ASSUME TypeOK, TypeOK', HonestOK, VerifyTellsDamage, [Next]_vars
               PROVE  VerifyTellsDamage'
      OBVIOUS
  <2>1. ASSUME UNCHANGED <<entries, appended>>
        PROVE  VerifyTellsDamage'
        BY <2>1 DEF VerifyTellsDamage, Errors, Mismatched, Recomputed, Expected, Intact
  <2>2. (\E c \in Calls : AppendEntry(c)) \/ Damage \/ UNCHANGED <<entries, appended>>
        BY DEF Next, Sign, GetReceipts, vars
  <2> QED BY <2>1, <2>2, VerdictAfterAppend, VerdictAfterDamage
<1>3. TypeOK /\ HonestOK /\ [Next]_vars => HonestOK'
      BY HonestStep
<1> QED BY <1>1, <1>2, <1>3, TypeCorrect, PTL DEF Spec

-----------------------------------------------------------------------------
(* Receipts and pages.                                                     *)

\* A call signs its own receipt, and the chain has it at most once and from a call
\* that signed it.
ReceiptsOK ==
    /\ \A c \in Calls : signed[c] # NoReceipt =>
          \E d \in Decisions, key \in Keys : signed[c] = SignReceipt(Generate(c, d), key)
    /\ \A i \in DOMAIN appended : \E c \in Calls :
          signed[c] # NoReceipt /\ appended[i].signed = signed[c]
    /\ \A i, j \in DOMAIN appended : appended[i].signed = appended[j].signed => i = j

\* A signed receipt is one, for its own call.
LEMMA SignedReceipt ==
    ASSUME ReceiptsOK, NEW c \in Calls, signed[c] # NoReceipt
    PROVE  /\ signed[c].receiptHash = signed[c].receipt
           /\ signed[c].receipt.receiptId = c
           /\ SignatureHolds(signed[c])
<1>1. PICK d \in Decisions, key \in Keys : signed[c] = SignReceipt(Generate(c, d), key)
      BY DEF ReceiptsOK
<1>2. Generate(c, d).receiptId = c
      BY DEF Generate
<1> QED BY <1>1, <1>2 DEF SignReceipt, SignatureHolds

LEMMA ReceiptsStep ==
    ASSUME TypeOK, ReceiptsOK, [Next]_vars
    PROVE  ReceiptsOK'
<1>1. ASSUME NEW c \in Calls, Sign(c)
      PROVE  ReceiptsOK'
  <2>1. /\ signed[c] = NoReceipt /\ appended' = appended
        /\ \E d \in Decisions, key \in Keys :
              signed' = [signed EXCEPT ![c] = SignReceipt(Generate(c, d), key)]
        BY <1>1 DEF Sign
  <2>2. \A b \in Calls : b # c => signed'[b] = signed[b]
        BY <2>1 DEF TypeOK
  <2>3. \E d \in Decisions, key \in Keys : signed'[c] = SignReceipt(Generate(c, d), key)
        BY <2>1 DEF TypeOK
  <2>4. \A i \in DOMAIN appended : \E b \in Calls :
           signed'[b] # NoReceipt /\ appended[i].signed = signed'[b]
        BY <2>1, <2>2 DEF ReceiptsOK
  <2> QED BY <2>1, <2>2, <2>3, <2>4 DEF ReceiptsOK
<1>2. ASSUME NEW c \in Calls, AppendEntry(c)
      PROVE  ReceiptsOK'
  <2>1. PICK e \in Entries : e.signed = signed[c] /\ appended' = Append(appended, e)
        BY <1>2, AppendEffect
  <2>2. /\ DOMAIN appended' = DOMAIN appended \cup {Len(appended) + 1}
        /\ appended'[Len(appended) + 1] = e
        /\ \A i \in DOMAIN appended : appended'[i] = appended[i]
        BY <2>1, AppendProperties DEF TypeOK
  <2>3. /\ signed' = signed /\ signed[c] # NoReceipt
        /\ \A i \in DOMAIN appended : appended[i].signed # signed[c]
        BY <1>2 DEF AppendEntry, Recorded
  <2>4. ASSUME NEW i \in DOMAIN appended', NEW j \in DOMAIN appended',
               appended'[i].signed = appended'[j].signed
        PROVE  i = j
        BY <2>1, <2>2, <2>3, <2>4 DEF ReceiptsOK
  <2>5. ASSUME NEW i \in DOMAIN appended'
        PROVE  \E b \in Calls : signed[b] # NoReceipt /\ appended'[i].signed = signed[b]
        BY <2>1, <2>2, <2>3 DEF ReceiptsOK
  <2> QED BY <2>3, <2>4, <2>5 DEF ReceiptsOK
<1>3. CASE GetReceipts \/ Damage \/ UNCHANGED vars
  <2>1. UNCHANGED <<signed, appended>>
        BY <1>3 DEF GetReceipts, Damage, vars
  <2> QED BY <2>1 DEF ReceiptsOK
<1> QED BY <1>1, <1>2, <1>3 DEF Next

\* The hash a caller was given leads to its own receipt, with a signature that holds.
THEOREM ReceiptsAreFoundAlways == Spec => []ReceiptsAreFound
<1>1. Init => ReceiptsOK /\ HonestOK
      BY EmptySeq DEF Init, ReceiptsOK, HonestOK, Tip
<1>2. ASSUME TypeOK, HonestOK, ReceiptsOK, damage = "none", NEW c \in Calls, Recorded(c)
      PROVE  /\ Found(signed[c].receiptHash) = signed[c]
             /\ signed[c].receipt.receiptId = c
             /\ SignatureHolds(Found(signed[c].receiptHash))
  <2>1. PICK i \in DOMAIN appended : appended[i].signed = signed[c]
        BY <1>2 DEF Recorded
  <2>2. entries = appended
        BY <1>2 DEF HonestOK
  <2>3. signed[c] # NoReceipt
    <3>1. appended[i] \in Entries
          BY <1>2 DEF TypeOK
    <3>2. appended[i].signed \in Receipts
          BY <3>1 DEF Entries
    <3> QED BY <2>1, <3>2, <1>2 DEF Receipts, NoReceipt, Bodies, ReceiptsOK
  <2>4. /\ signed[c].receiptHash.receiptId = c /\ signed[c].receipt.receiptId = c
        /\ SignatureHolds(signed[c])
        BY <1>2, <2>3, SignedReceipt
  <2>5. ASSUME NEW j \in DOMAIN appended, appended[j].signed.receiptHash = signed[c].receiptHash
        PROVE  j = i
    <3>1. PICK b \in Calls : signed[b] # NoReceipt /\ appended[j].signed = signed[b]
          BY <1>2 DEF ReceiptsOK
    <3>2. signed[b].receiptHash.receiptId = b
          BY <1>2, <3>1, SignedReceipt
    <3>3. b = c
          BY <2>4, <2>5, <3>1, <3>2
    <3> QED BY <1>2, <2>1, <3>1, <3>3 DEF ReceiptsOK
  <2>6. {j \in DOMAIN entries : entries[j].signed.receiptHash = signed[c].receiptHash} = {i}
        BY <2>1, <2>2, <2>5
  <2>7. i \in Nat
        BY <1>2 DEF TypeOK
  <2>8. (CHOOSE k \in {i} : \A j \in {i} : k <= j) = i
        BY <2>7
  <2>9. Found(signed[c].receiptHash) = signed[c]
        BY <2>1, <2>2, <2>6, <2>8 DEF Found
  <2> QED BY <2>4, <2>9
<1>3. TypeOK /\ HonestOK /\ ReceiptsOK => ReceiptsAreFound
      BY <1>2 DEF ReceiptsAreFound
<1>4. TypeOK /\ HonestOK /\ ReceiptsOK /\ [Next]_vars => (HonestOK /\ ReceiptsOK)'
      BY HonestStep, ReceiptsStep
<1> QED BY <1>1, <1>3, <1>4, TypeCorrect, PTL DEF Spec

\* A client has collected the receipts up to its offset, or up to the total.
PageOK ==
    damage = "none" =>
        /\ Len(page.got) <= Len(appended)
        /\ \A i \in 1 .. Len(page.got) : page.got[i] = appended[i].signed
        /\ page.step \in {"first", "next"} => Len(page.got) = page.offset
        /\ page.step = "done" => Len(page.got) = page.total

LEMMA PageStep ==
    ASSUME TypeOK, HonestOK, PageOK, [Next]_vars
    PROVE  PageOK'
<1>1. ASSUME NEW c \in Calls, AppendEntry(c)
      PROVE  PageOK'
  <2>1. PICK e \in Entries : appended' = Append(appended, e)
        BY <1>1, AppendEffect
  <2>2. /\ Len(appended') = Len(appended) + 1 /\ Len(appended) \in Nat
        /\ \A i \in 1 .. Len(appended) : appended'[i] = appended[i]
        /\ Len(page.got) \in Nat
        BY <2>1, AppendProperties DEF TypeOK
  <2>3. page' = page /\ damage' = damage
        BY <1>1 DEF AppendEntry
  <2> QED BY <2>2, <2>3 DEF PageOK
<1>2. ASSUME GetReceipts, damage = "none"
      PROVE  PageOK'
  <2>1. entries = appended /\ page.step \in {"first", "next"} /\ appended' = appended
        BY <1>2 DEF HonestOK, GetReceipts, TypeOK
  <2>2. PICK o \in Nat, n \in Nat : o = page.offset /\ n = Len(entries)
        BY DEF TypeOK
  <2>3. page' = [step   |-> IF o + Limit >= n THEN "done" ELSE "next",
                 offset |-> o + Limit,
                 got    |-> page.got \o Signeds(o),
                 total  |-> n]
        BY <1>2, <2>2 DEF GetReceipts, Signeds
  <2>4. Len(page.got) = o /\ o <= n /\ page.got \in Seq(Receipts)
        /\ \A i \in 1 .. o : page.got[i] = entries[i].signed
        BY <1>2, <2>1, <2>2 DEF PageOK, TypeOK
  <2>5. /\ Slice(o) \in Seq(Entries)
        /\ Len(Slice(o)) = IF o >= n THEN 0 ELSE IF o + Limit <= n THEN Limit ELSE n - o
        /\ \A i \in 1 .. Len(Slice(o)) : Slice(o)[i] = entries[o + i]
        BY <2>2, SliceType DEF TypeOK
  <2>6. PICK k \in Nat : k = Len(Slice(o))
        BY <2>5, LenProperties
  <2>7. /\ Signeds(o) \in Seq(Receipts) /\ Len(Signeds(o)) = k
        BY <2>4, <2>6, PageType DEF TypeOK
  <2>8. \A i \in 1 .. k : Signeds(o)[i] = entries[o + i].signed
        BY <2>5, <2>6, LenProperties DEF Signeds
  <2>9. /\ Len(page'.got) = o + k
        /\ \A i \in 1 .. o + k : page'.got[i] = IF i <= o THEN page.got[i] ELSE Signeds(o)[i - o]
        BY <2>3, <2>4, <2>7, ConcatProperties
  <2>10. ASSUME NEW i \in 1 .. o + k
         PROVE  page'.got[i] = entries[i].signed
    <3>1. CASE i <= o
          BY <2>4, <2>9, <3>1
    <3>2. CASE i > o
      <4>1. i - o \in 1 .. k /\ o + (i - o) = i
            BY <2>10, <3>2
      <4>2. Signeds(o)[i - o] = entries[i].signed
            BY <2>8, <4>1
      <4> QED BY <2>9, <3>2, <4>2
    <3> QED BY <3>1, <3>2
  <2>11. o + k <= n /\ (o + Limit >= n => o + k = n) /\ (o + Limit < n => k = Limit)
    <3>1. k = IF o >= n THEN 0 ELSE IF o + Limit <= n THEN Limit ELSE n - o
          BY <2>5, <2>6
    <3> QED BY <2>4, <3>1, LimitAssumption
  <2>12. page'.offset = o + Limit /\ page'.total = n
         /\ page'.step = IF o + Limit >= n THEN "done" ELSE "next"
         BY <2>3
  <2>13. Len(page'.got) <= Len(appended')
         BY <2>1, <2>2, <2>9, <2>11
  <2>14. /\ page'.step \in {"first", "next"} => Len(page'.got) = page'.offset
         /\ page'.step = "done" => Len(page'.got) = page'.total
         BY <2>9, <2>11, <2>12, LimitAssumption
  <2> QED BY <2>1, <2>9, <2>10, <2>13, <2>14 DEF PageOK
<1>3. ASSUME \/ \E c \in Calls : Sign(c)
             \/ UNCHANGED vars
      PROVE  PageOK'
  <2>1. UNCHANGED <<appended, damage, page>>
        BY <1>3 DEF Sign, vars
  <2> QED BY <2>1 DEF PageOK
<1>4. CASE Damage
  <2>1. damage' # "none"
        BY <1>4, DamageType DEF TypeOK
  <2> QED BY <2>1 DEF PageOK
<1>5. CASE GetReceipts /\ damage # "none"
      BY <1>5 DEF GetReceipts, PageOK
<1> QED BY <1>1, <1>2, <1>3, <1>4, <1>5 DEF Next

\* A client that pages while calls record sees every receipt up to the total it was
\* told last, in order and once, for every page size.
THEOREM PagesAreCompleteAlways == Spec => []PagesAreComplete
<1>1. Init => HonestOK /\ PageOK
      BY EmptySeq DEF Init, PageOK, HonestOK, Tip
<1>2. TypeOK /\ HonestOK /\ PageOK /\ [Next]_vars => (HonestOK /\ PageOK)'
      BY HonestStep, PageStep
<1>3. TypeOK /\ PageOK => PagesAreComplete
      BY LenProperties DEF TypeOK, PageOK, PagesAreComplete
<1> QED BY <1>1, <1>2, <1>3, TypeCorrect, PTL DEF Spec

-----------------------------------------------------------------------------
(* The Merkle tree, over any sequence of leaves.                           *)

LevelFirst(leaves) == [i \in DOMAIN leaves |-> HashLeaf(leaves[i])]
LevelStep(leaves, n, level) == NextLevel(level)
Levels == INSTANCE Recursion WITH First <- LevelFirst, Step <- LevelStep

PositionStep(index, n, here) == here \div 2
PositionFirst(index) == index
Positions == INSTANCE Recursion WITH First <- PositionFirst, Step <- PositionStep

ClimbFirst(c) == HashLeaf(c.leaf)
ClimbStep(c, n, node) ==
    IF Position(c.index)[n - 1] % 2 = 0 THEN HashPair(node, c.proof[n])
                                        ELSE HashPair(c.proof[n], node)
Climbs == INSTANCE Recursion WITH First <- ClimbFirst, Step <- ClimbStep

\* The path of a climb, of which it answers the last node.
Path(leaf, index, proof) ==
    Climbs!Solution([leaf |-> leaf, index |-> index, proof |-> proof], 0 .. Len(proof))

LEMMA Pairs ==
    ASSUME NEW a, NEW b, NEW c, NEW d, HashPair(a, b) = HashPair(c, d)
    PROVE  a = c /\ b = d
<1>1. HashPair(a, b).left = HashPair(c, d).left /\ HashPair(a, b).right = HashPair(c, d).right
      OBVIOUS
<1> QED BY <1>1 DEF HashPair

LEMMA Leaves ==
    ASSUME NEW a, NEW b, HashLeaf(a) = HashLeaf(b)
    PROVE  a = b
<1>1. HashLeaf(a).leaf = HashLeaf(b).leaf
      OBVIOUS
<1> QED BY <1>1 DEF HashLeaf

\* A function on the first numbers is as long as they are many.
LEMMA LengthOf ==
    ASSUME NEW m \in Nat, NEW s, s = [i \in 1 .. m |-> s[i]]
    PROVE  Len(s) = m
<1>1. s \in [1 .. m -> {s[i] : i \in 1 .. m}]
      OBVIOUS
<1>2. s \in Seq({s[i] : i \in 1 .. m})
      BY <1>1, SeqDef
<1> QED BY <1>1, <1>2

LEMMA NextLevelType ==
    ASSUME NEW level, Len(level) \in Nat \ {0}
    PROVE  LET m == Len(level)
           IN  /\ Len(NextLevel(level)) = (m + 1) \div 2
               /\ \A i \in 1 .. (m + 1) \div 2 :
                     NextLevel(level)[i] =
                        HashPair(level[2 * i - 1],
                                 IF 2 * i <= m THEN level[2 * i] ELSE level[2 * i - 1])
<1> DEFINE m == Len(level)
           h == (m + 1) \div 2
           next == NextLevel(level)
<1>1. h \in Nat
      OBVIOUS
<1>2. next = [i \in 1 .. h |->
                 HashPair(level[2 * i - 1],
                          IF 2 * i <= m THEN level[2 * i] ELSE level[2 * i - 1])]
      BY DEF NextLevel
<1> HIDE DEF m, h, next
<1>3. next = [i \in 1 .. h |-> next[i]]
      BY <1>2
<1>4. Len(next) = h
      BY <1>1, <1>3, LengthOf
<1> QED BY <1>2, <1>4 DEF m, h, next

LEMMA LevelType ==
    ASSUME NEW S, NEW leaves \in Seq(S), leaves # <<>>
    PROVE  /\ Level(leaves)[0] = LevelFirst(leaves)
           /\ Len(Level(leaves)[0]) = Len(leaves)
           /\ \A k \in Nat : Level(leaves)[k + 1] = NextLevel(Level(leaves)[k])
           /\ \A k \in Nat : Len(Level(leaves)[k]) \in Nat \ {0}
<1> DEFINE level == Levels!Solution(leaves, Nat)
<1>1. \A n \in Nat : n = 0 \/ n - 1 \in Nat
      OBVIOUS
<1>2. Levels!Equation(leaves, Nat, level)
      BY <1>1, Levels!RecursionEquation
<1>3. level = [k \in Nat |-> IF k = 0 THEN LevelFirst(leaves) ELSE NextLevel(level[k - 1])]
      BY <1>2 DEF Levels!Equation, LevelStep
<1>4. Level(leaves) = level
      BY DEF Level, Levels!Solution, LevelFirst, LevelStep
<1> HIDE DEF level
<1>5. level[0] = LevelFirst(leaves)
      BY <1>3
<1>6. ASSUME NEW k \in Nat
      PROVE  level[k + 1] = NextLevel(level[k])
  <2>1. k + 1 \in Nat /\ k + 1 # 0 /\ (k + 1) - 1 = k
        OBVIOUS
  <2> QED BY <1>3, <2>1
<1>7. Len(level[0]) = Len(leaves) /\ Len(leaves) \in Nat \ {0}
  <2>1. Len(leaves) \in Nat \ {0} /\ DOMAIN leaves = 1 .. Len(leaves)
        BY EmptySeq
  <2>2. level[0] = [i \in 1 .. Len(leaves) |-> level[0][i]]
        BY <1>5, <2>1 DEF LevelFirst
  <2> QED BY <2>1, <2>2, LengthOf
<1> DEFINE T == {k \in Nat : Len(level[k]) \in Nat \ {0}}
<1>8. 0 \in T
      BY <1>7
<1>9. ASSUME NEW k \in Nat, k \in T
      PROVE  k + 1 \in T
  <2>1. Len(level[k]) \in Nat \ {0}
        BY <1>9
  <2>2. Len(level[k + 1]) = (Len(level[k]) + 1) \div 2
        BY <1>6, <2>1, NextLevelType
  <2>3. \A n \in Nat \ {0} : (n + 1) \div 2 \in Nat \ {0}
        OBVIOUS
  <2>4. Len(level[k + 1]) \in Nat \ {0}
        BY <2>1, <2>2, <2>3
  <2> QED BY <2>4
<1> HIDE DEF T
<1>10. \A k \in Nat : k \in T
       BY <1>8, <1>9, Levels!Induction
<1>11. \A k \in Nat : Len(level[k]) \in Nat \ {0}
       BY <1>10 DEF T
<1> QED BY <1>4, <1>5, <1>6, <1>7, <1>11

\* Every level above the first has half the nodes, rounded up; some level is a root,
\* no later than there are leaves.
LEMMA HeightType ==
    ASSUME NEW S, NEW leaves \in Seq(S), leaves # <<>>
    PROVE  Height(leaves) \in Nat /\ Len(Level(leaves)[Height(leaves)]) = 1
<1> DEFINE m(k) == Len(Level(leaves)[k])
           N == Len(leaves)
<1>1. N \in Nat /\ m(0) = N
      BY LevelType
<1>2. \A k \in Nat : m(k) \in Nat \ {0}
      BY LevelType
<1>3. ASSUME NEW k \in Nat
      PROVE  m(k + 1) = (m(k) + 1) \div 2
  <2>1. Level(leaves)[k + 1] = NextLevel(Level(leaves)[k])
        BY LevelType
  <2> QED BY <1>2, <2>1, NextLevelType
<1> HIDE DEF m, N
<1> DEFINE T == {k \in Nat : m(k) = 1 \/ m(k) <= N - k}
<1>4. 0 \in T
      BY <1>1
<1>5. ASSUME NEW k \in Nat, k \in T
      PROVE  k + 1 \in T
  <2>1. m(k) \in Nat \ {0} /\ m(k + 1) = (m(k) + 1) \div 2
        BY <1>2, <1>3
  <2>2. CASE m(k) = 1
        BY <2>1, <2>2
  <2>3. CASE m(k) # 1
    <3>1. m(k) <= N - k
          BY <1>5, <2>3
    <3>2. m(k + 1) <= m(k) - 1
          BY <2>1, <2>3
    <3>3. m(k + 1) \in Nat
          BY <2>1
    <3>4. m(k + 1) <= N - (k + 1)
          BY <1>1, <2>1, <3>1, <3>2, <3>3
    <3> QED BY <3>4
  <2> QED BY <2>2, <2>3
<1> HIDE DEF T
<1>6. \A k \in Nat : k \in T
      BY <1>4, <1>5, Levels!Induction
<1>7. m(N) = 1
  <2>1. m(N) = 1 \/ m(N) <= N - N
        BY <1>1, <1>6 DEF T
  <2> QED BY <1>1, <1>2, <2>1
<1> DEFINE Ones == {k \in Nat : m(k) = 1}
<1>8. PICK k \in Ones : \A j \in Ones : k <= j
      BY <1>1, <1>7, Levels!Least
<1>9. k \in 0 .. N /\ m(k) = 1
      BY <1>1, <1>7, <1>8
<1>10. \A j \in 0 .. k - 1 : m(j) > 1
  <2> TAKE j \in 0 .. k - 1
  <2>1. j \in Nat /\ ~(k <= j)
        BY <1>9
  <2>2. m(j) # 1
        BY <1>8, <2>1
  <2> QED BY <1>2, <2>1, <2>2
<1>11. Height(leaves) = CHOOSE i \in 0 .. N : m(i) = 1 /\ \A j \in 0 .. i - 1 : m(j) > 1
       BY DEF Height, m, N
<1>12. Height(leaves) \in 0 .. N /\ m(Height(leaves)) = 1
       BY <1>9, <1>10, <1>11
<1> QED BY <1>1, <1>12 DEF m

\* The node of a leaf, on every level.
LEMMA PositionType ==
    ASSUME NEW S, NEW leaves \in Seq(S), leaves # <<>>, NEW index \in 0 .. Len(leaves) - 1
    PROVE  /\ Position(index)[0] = index
           /\ \A k \in Nat : Position(index)[k + 1] = Position(index)[k] \div 2
           /\ \A k \in Nat : Position(index)[k] \in 0 .. Len(Level(leaves)[k]) - 1
<1> DEFINE at == Positions!Solution(index, Nat)
           m(k) == Len(Level(leaves)[k])
<1>1. \A n \in Nat : n = 0 \/ n - 1 \in Nat
      OBVIOUS
<1>2. Positions!Equation(index, Nat, at)
      BY <1>1, Positions!RecursionEquation
<1>3. at = [k \in Nat |-> IF k = 0 THEN index ELSE at[k - 1] \div 2]
      BY <1>2 DEF Positions!Equation, PositionFirst, PositionStep
<1>4. Position(index) = at
      BY DEF Position, Positions!Solution, PositionFirst, PositionStep
<1>5. m(0) = Len(leaves) /\ \A k \in Nat : m(k) \in Nat \ {0}
      BY LevelType
<1>6. ASSUME NEW k \in Nat
      PROVE  m(k + 1) = (m(k) + 1) \div 2
  <2>1. Level(leaves)[k + 1] = NextLevel(Level(leaves)[k])
        BY LevelType
  <2> QED BY <1>5, <2>1, NextLevelType
<1> HIDE DEF at, m
<1>7. at[0] = index
      BY <1>3
<1>8. ASSUME NEW k \in Nat
      PROVE  at[k + 1] = at[k] \div 2
  <2>1. k + 1 \in Nat /\ k + 1 # 0 /\ (k + 1) - 1 = k
        OBVIOUS
  <2> QED BY <1>3, <2>1
<1> DEFINE T == {k \in Nat : at[k] \in 0 .. m(k) - 1}
<1>9. 0 \in T
      BY <1>5, <1>7
<1>10. ASSUME NEW k \in Nat, k \in T
       PROVE  k + 1 \in T
  <2>1. at[k] \in 0 .. m(k) - 1 /\ m(k) \in Nat \ {0}
        BY <1>5, <1>10
  <2>2. at[k + 1] = at[k] \div 2 /\ m(k + 1) = (m(k) + 1) \div 2
        BY <1>6, <1>8
  <2>3. \A n \in Nat \ {0} : \A i \in 0 .. n - 1 : i \div 2 \in 0 .. (n + 1) \div 2 - 1
        OBVIOUS
  <2>4. at[k + 1] \in 0 .. m(k + 1) - 1
        BY <2>1, <2>2, <2>3
  <2> QED BY <2>4
<1> HIDE DEF T
<1>11. \A k \in Nat : k \in T
       BY <1>9, <1>10, Levels!Induction
<1>12. \A k \in Nat : at[k] \in 0 .. m(k) - 1
       BY <1>11 DEF T
<1> QED BY <1>4, <1>7, <1>8, <1>12 DEF m

LEMMA PathType ==
    ASSUME NEW leaf, NEW index, NEW proof, Len(proof) \in Nat
    PROVE  LET up == Path(leaf, index, proof)
           IN  /\ Climb(leaf, index, proof) = up[Len(proof)]
               /\ up[0] = HashLeaf(leaf)
               /\ \A k \in 0 .. Len(proof) - 1 :
                     up[k + 1] = IF Position(index)[k] % 2 = 0 THEN HashPair(up[k], proof[k + 1])
                                                               ELSE HashPair(proof[k + 1], up[k])
<1> DEFINE c == [leaf |-> leaf, index |-> index, proof |-> proof]
           D == 0 .. Len(proof)
           up == Climbs!Solution(c, D)
<1>1. D \subseteq Nat /\ \A n \in D : n = 0 \/ n - 1 \in D
      OBVIOUS
<1>2. c.leaf = leaf /\ c.index = index /\ c.proof = proof
      OBVIOUS
<1>3. Climbs!Equation(c, D, up)
      BY <1>1, Climbs!RecursionEquation
<1>4. up = Path(leaf, index, proof)
      BY DEF Path
<1> HIDE DEF c
<1>5. up = [k \in D |-> IF k = 0 THEN HashLeaf(leaf)
                        ELSE IF Position(index)[k - 1] % 2 = 0
                               THEN HashPair(up[k - 1], proof[k])
                               ELSE HashPair(proof[k], up[k - 1])]
      BY <1>2, <1>3 DEF Climbs!Equation, ClimbFirst, ClimbStep
<1>6. Climb(leaf, index, proof) = up[Len(proof)]
      BY <1>2 DEF Climb, Climbs!Solution, ClimbFirst, ClimbStep
<1> HIDE DEF up
<1>7. up[0] = HashLeaf(leaf)
      BY <1>5
<1>8. ASSUME NEW k \in 0 .. Len(proof) - 1
      PROVE  up[k + 1] = IF Position(index)[k] % 2 = 0 THEN HashPair(up[k], proof[k + 1])
                                                       ELSE HashPair(proof[k + 1], up[k])
  <2>1. k + 1 \in D /\ k + 1 # 0 /\ (k + 1) - 1 = k
        OBVIOUS
  <2> QED BY <1>5, <2>1
<1> QED BY <1>4, <1>6, <1>7, <1>8

LEMMA ProofType ==
    ASSUME NEW S, NEW leaves \in Seq(S), leaves # <<>>, NEW index \in 0 .. Len(leaves) - 1
    PROVE  /\ Len(Proof(leaves, index)) = Height(leaves)
           /\ \A k \in 1 .. Height(leaves) :
                 LET level == Level(leaves)[k - 1]
                     here  == Position(index)[k - 1]
                 IN  Proof(leaves, index)[k] =
                        IF Sibling(here) < Len(level) THEN level[Sibling(here) + 1]
                                                      ELSE level[here + 1]
<1> DEFINE h == Height(leaves)
           proof == Proof(leaves, index)
           step(k) == LET level == Level(leaves)[k - 1]
                          here  == Position(index)[k - 1]
                      IN  IF Sibling(here) < Len(level) THEN level[Sibling(here) + 1]
                                                        ELSE level[here + 1]
<1>1. h \in Nat
      BY HeightType
<1>2. proof = [k \in 1 .. h |-> step(k)]
      BY DEF Proof
<1> HIDE DEF h, proof, step
<1>3. Len(proof) = h
  <2>1. proof = [k \in 1 .. h |-> proof[k]]
        BY <1>2
  <2> QED BY <1>1, <2>1, LengthOf
<1>4. \A k \in 1 .. h : proof[k] = step(k)
      BY <1>2
<1> QED BY <1>3, <1>4 DEF h, proof, step

\* A node and what the proof gives for its sibling make the node above.
LEMMA NodeAbove ==
    ASSUME NEW level, NEW m \in Nat \ {0}, Len(level) = m, NEW here \in 0 .. m - 1
    PROVE  LET sibling == IF Sibling(here) < m THEN level[Sibling(here) + 1]
                                               ELSE level[here + 1]
           IN  NextLevel(level)[here \div 2 + 1] =
                  IF here % 2 = 0 THEN HashPair(level[here + 1], sibling)
                                  ELSE HashPair(sibling, level[here + 1])
<1> DEFINE i == here \div 2 + 1
           sibling == IF Sibling(here) < m THEN level[Sibling(here) + 1]
                                           ELSE level[here + 1]
<1>1. i \in 1 .. (m + 1) \div 2
      OBVIOUS
<1>2. NextLevel(level)[i] = HashPair(level[2 * i - 1],
                                     IF 2 * i <= m THEN level[2 * i] ELSE level[2 * i - 1])
      BY <1>1, NextLevelType
<1>3. CASE here % 2 = 0
  <2>1. 2 * i = here + 2 /\ 2 * i - 1 = here + 1
        BY <1>3
  <2>2. Sibling(here) = here + 1 /\ Sibling(here) + 1 = here + 2
        BY <1>3 DEF Sibling
  <2>3. here + 2 <= m <=> here + 1 < m
        OBVIOUS
  <2>4. sibling = IF 2 * i <= m THEN level[2 * i] ELSE level[2 * i - 1]
        BY <2>1, <2>2, <2>3
  <2> HIDE DEF i, sibling
  <2>5. NextLevel(level)[i] = HashPair(level[here + 1], sibling)
        BY <1>2, <2>1, <2>4
  <2> QED BY <1>3, <2>5 DEF i, sibling
<1>4. CASE here % 2 # 0
  <2>1. 2 * i = here + 1 /\ 2 * i - 1 = here /\ 2 * i <= m
        BY <1>4
  <2>2. Sibling(here) = here - 1 /\ Sibling(here) + 1 = here /\ Sibling(here) < m
        BY <1>4 DEF Sibling
  <2>3. sibling = level[2 * i - 1]
        BY <2>1, <2>2
  <2> HIDE DEF i, sibling
  <2>4. NextLevel(level)[i] = HashPair(sibling, level[here + 1])
        BY <1>2, <2>1, <2>3
  <2> QED BY <1>4, <2>4 DEF i, sibling
<1> QED BY <1>3, <1>4

\* The climb from a leaf of the tree stays in the tree, and ends at the root.
LEMMA ProofLeadsToRoot ==
    ASSUME NEW S, NEW leaves \in Seq(S), leaves # <<>>, NEW index \in 0 .. Len(leaves) - 1
    PROVE  Climb(leaves[index + 1], index, Proof(leaves, index)) = Root(leaves)
<1> DEFINE h == Height(leaves)
           level == Level(leaves)
           at == Position(index)
           proof == Proof(leaves, index)
           up == Path(leaves[index + 1], index, proof)
<1>1. /\ h \in Nat /\ Len(level[h]) = 1
      /\ Len(proof) = h
      BY HeightType, ProofType
<1>2. /\ level[0] = LevelFirst(leaves)
      /\ \A k \in Nat : level[k + 1] = NextLevel(level[k])
      /\ \A k \in Nat : Len(level[k]) \in Nat \ {0}
      BY LevelType
<1>3. /\ at[0] = index /\ \A k \in Nat : at[k + 1] = at[k] \div 2
      /\ \A k \in Nat : at[k] \in 0 .. Len(level[k]) - 1
      BY PositionType
<1>4. \A k \in 1 .. h :
         proof[k] = IF Sibling(at[k - 1]) < Len(level[k - 1])
                      THEN level[k - 1][Sibling(at[k - 1]) + 1]
                      ELSE level[k - 1][at[k - 1] + 1]
      BY ProofType
<1>5. /\ Climb(leaves[index + 1], index, proof) = up[h]
      /\ up[0] = HashLeaf(leaves[index + 1])
      /\ \A k \in 0 .. h - 1 :
            up[k + 1] = IF at[k] % 2 = 0 THEN HashPair(up[k], proof[k + 1])
                                         ELSE HashPair(proof[k + 1], up[k])
      BY <1>1, PathType
<1>6. Root(leaves) = level[h][1]
      BY DEF Root
<1> HIDE DEF h, level, at, proof, up
<1> DEFINE T == {k \in Nat : k <= h => up[k] = level[k][at[k] + 1]}
<1>7. 0 \in T
  <2>1. index + 1 \in DOMAIN leaves
        OBVIOUS
  <2>2. LevelFirst(leaves)[index + 1] = HashLeaf(leaves[index + 1])
        BY <2>1 DEF LevelFirst
  <2> QED BY <1>2, <1>3, <1>5, <2>2
<1>8. ASSUME NEW k \in Nat, k \in T
      PROVE  k + 1 \in T
  <2> SUFFICES ASSUME k + 1 <= h PROVE up[k + 1] = level[k + 1][at[k + 1] + 1]
      OBVIOUS
  <2> DEFINE here == at[k]
             m == Len(level[k])
             sibling == IF Sibling(here) < m THEN level[k][Sibling(here) + 1]
                                             ELSE level[k][here + 1]
  <2>1. up[k] = level[k][here + 1] /\ k \in 0 .. h - 1
        BY <1>1, <1>8
  <2>2. proof[k + 1] = sibling
    <3>1. k + 1 \in 1 .. h /\ (k + 1) - 1 = k
          BY <1>1
    <3> QED BY <1>4, <3>1
  <2>3. m \in Nat \ {0} /\ here \in 0 .. m - 1
        BY <1>2, <1>3
  <2>4. NextLevel(level[k])[here \div 2 + 1] =
           IF here % 2 = 0 THEN HashPair(level[k][here + 1], sibling)
                           ELSE HashPair(sibling, level[k][here + 1])
        BY <2>3, NodeAbove
  <2>5. level[k + 1] = NextLevel(level[k]) /\ at[k + 1] = here \div 2
        BY <1>2, <1>3
  <2>6. up[k + 1] = IF here % 2 = 0 THEN HashPair(up[k], proof[k + 1])
                                    ELSE HashPair(proof[k + 1], up[k])
        BY <1>5, <2>1
  <2> HIDE DEF here, m, sibling
  <2> QED BY <2>1, <2>2, <2>4, <2>5, <2>6
<1> HIDE DEF T
<1>9. \A k \in Nat : k \in T
      BY <1>7, <1>8, Levels!Induction
<1>10. up[h] = level[h][at[h] + 1]
       BY <1>1, <1>9 DEF T
<1>11. at[h] \in 0 .. 0
  <2>1. Len(level[h]) = 1 /\ at[h] \in 0 .. Len(level[h]) - 1
        BY <1>1, <1>3
  <2> QED BY <2>1
<1>12. at[h] + 1 = 1
       BY <1>11
<1>13. up[h] = level[h][1]
       BY <1>10, <1>12
<1> QED BY <1>5, <1>6, <1>13 DEF proof

\* Two leaves with one position and one proof lead to different nodes.
LEMMA ClimbInjective ==
    ASSUME NEW a, NEW b, NEW index, NEW proof, Len(proof) \in Nat,
           Climb(a, index, proof) = Climb(b, index, proof)
    PROVE  a = b
<1> DEFINE h == Len(proof)
           up == Path(a, index, proof)
           to == Path(b, index, proof)
           left(k) == Position(index)[k] % 2 = 0
<1>1. /\ Climb(a, index, proof) = up[h] /\ up[0] = HashLeaf(a)
      /\ \A k \in 0 .. h - 1 :
            up[k + 1] = IF left(k) THEN HashPair(up[k], proof[k + 1])
                                   ELSE HashPair(proof[k + 1], up[k])
      BY PathType
<1>2. /\ Climb(b, index, proof) = to[h] /\ to[0] = HashLeaf(b)
      /\ \A k \in 0 .. h - 1 :
            to[k + 1] = IF left(k) THEN HashPair(to[k], proof[k + 1])
                                   ELSE HashPair(proof[k + 1], to[k])
      BY PathType
<1> HIDE DEF h, up, to
<1> DEFINE T == {k \in Nat : k <= h => (up[k] = to[k] => a = b)}
<1>3. 0 \in T
      BY <1>1, <1>2, Leaves
<1>4. ASSUME NEW k \in Nat, k \in T
      PROVE  k + 1 \in T
  <2> SUFFICES ASSUME k + 1 <= h, up[k + 1] = to[k + 1] PROVE a = b
      OBVIOUS
  <2>1. k \in 0 .. h - 1 /\ k <= h
        BY DEF h
  <2>2. up[k] = to[k]
    <3>1. CASE left(k)
      <4>1. HashPair(up[k], proof[k + 1]) = HashPair(to[k], proof[k + 1])
            BY <1>1, <1>2, <2>1, <3>1
      <4> QED BY <4>1, Pairs
    <3>2. CASE ~left(k)
      <4>1. HashPair(proof[k + 1], up[k]) = HashPair(proof[k + 1], to[k])
            BY <1>1, <1>2, <2>1, <3>2
      <4> QED BY <4>1, Pairs
    <3> QED BY <3>1, <3>2
  <2> QED BY <1>4, <2>1, <2>2
<1> HIDE DEF T
<1>5. \A k \in Nat : k \in T
      BY <1>3, <1>4, Levels!Induction
<1>6. h \in Nat
      BY DEF h
<1>7. up[h] = to[h] => a = b
      BY <1>5, <1>6 DEF T
<1> QED BY <1>1, <1>2, <1>7

\* A leaf and a position fit a proof of the tree exactly if the leaf is the one there.
LEMMA ProofTells ==
    ASSUME NEW S, NEW leaves \in Seq(S), NEW i \in DOMAIN leaves, NEW leaf
    PROVE  Climb(leaf, i - 1, Proof(leaves, i - 1)) = Root(leaves) <=> leaves[i] = leaf
<1>1. leaves # <<>> /\ i - 1 \in 0 .. Len(leaves) - 1 /\ (i - 1) + 1 = i
      OBVIOUS
<1>2. Climb(leaves[i], i - 1, Proof(leaves, i - 1)) = Root(leaves)
      BY <1>1, ProofLeadsToRoot
<1>3. Len(Proof(leaves, i - 1)) \in Nat
      BY <1>1, ProofType, HeightType
<1>4. Climb(leaf, i - 1, Proof(leaves, i - 1)) = Root(leaves) => leaves[i] = leaf
      BY <1>2, <1>3, ClimbInjective
<1> QED BY <1>2, <1>4

\* The proof of a position leads from the receipt there to the root of the tree over
\* the chain, and from no other receipt of it, for a chain of any length.
THEOREM ProofsLeadToRootAlways == Spec => []ProofsLeadToRoot
<1>1. TypeOK => ProofsLeadToRoot
  <2> SUFFICES ASSUME TypeOK, NEW times \in {1, 2}
               PROVE  LET leaves == IF times = 1 THEN ReceiptHashes
                                    ELSE ReceiptHashes \o ReceiptHashes
                      IN  \A i \in DOMAIN leaves : \A j \in DOMAIN entries :
                             Climb(leaves[j], i - 1, Proof(leaves, i - 1)) = Root(leaves)
                                <=> leaves[i] = leaves[j]
      BY DEF ProofsLeadToRoot
  <2> DEFINE leaves == IF times = 1 THEN ReceiptHashes ELSE ReceiptHashes \o ReceiptHashes
  <2>1. ReceiptHashes \in Seq(Bodies)
    <3>1. entries \in Seq(Entries)
          BY DEF TypeOK
    <3>2. \A i \in DOMAIN entries : entries[i].signed.receiptHash \in Bodies
      <4> TAKE i \in DOMAIN entries
      <4>1. entries[i] \in Entries
            BY <3>1
      <4>2. entries[i].signed \in Receipts
            BY <4>1 DEF Entries
      <4> QED BY <4>2 DEF Receipts
    <3> QED BY <3>1, <3>2 DEF ReceiptHashes
  <2>2. leaves \in Seq(Bodies)
        BY <2>1
  <2> HIDE DEF leaves
  <2>3. \A i \in DOMAIN leaves : \A j \in DOMAIN entries :
           Climb(leaves[j], i - 1, Proof(leaves, i - 1)) = Root(leaves)
              <=> leaves[i] = leaves[j]
        BY <2>2, ProofTells
  <2> QED BY <2>3 DEF leaves
<1> QED BY <1>1, TypeCorrect, PTL

=============================================================================
