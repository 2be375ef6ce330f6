----------------------------- MODULE MerkleTree -----------------------------
(***************************************************************************)
(* MerkleTree (core/receipt_generator.py).  A hash is an injective tag:    *)
(* two hashes are equal exactly when what they were computed from is.      *)
(* Positions count from 0, as in the code; sequences from 1.               *)
(***************************************************************************)
EXTENDS Naturals, Sequences

HashLeaf(leaf) == [leaf |-> leaf]
HashPair(left, right) == [left |-> left, right |-> right]

\* Mutant: the odd node is carried up without a partner.
CarryOdd(level) ==
    [i \in 1 .. (Len(level) + 1) \div 2 |->
        IF 2 * i <= Len(level) THEN HashPair(level[2 * i - 1], level[2 * i])
                               ELSE level[2 * i - 1]]

\* One round of the loop of _build_tree: an odd level pairs its last node with
\* itself.
NextLevel(level) ==
    [i \in 1 .. (Len(level) + 1) \div 2 |->
        LET left == level[2 * i - 1]
        IN  HashPair(left, IF 2 * i <= Len(level) THEN level[2 * i] ELSE left)]

\* Level(leaves)[k]: the level k steps above the hashed leaves.
Level(leaves) ==
    LET level[k \in Nat] == IF k = 0 THEN [i \in DOMAIN leaves |-> HashLeaf(leaves[i])]
                                     ELSE NextLevel(level[k - 1])
    IN  level

\* The number of rounds until one node is left.
Height(leaves) ==
    CHOOSE k \in 0 .. Len(leaves) :
        /\ Len(Level(leaves)[k]) = 1
        /\ \A j \in 0 .. k - 1 : Len(Level(leaves)[j]) > 1

Root(leaves) == Level(leaves)[Height(leaves)][1]

Sibling(index) == IF index % 2 = 0 THEN index + 1 ELSE index - 1

\* The position of a leaf's node, k levels above the leaves: current_index.
Position(index) ==
    LET at[k \in Nat] == IF k = 0 THEN index ELSE at[k - 1] \div 2
    IN  at

\* proof(index): one sibling per level, below the root.
Proof(leaves, index) ==
    [k \in 1 .. Height(leaves) |->
        LET level == Level(leaves)[k - 1]
            here  == Position(index)[k - 1]
        IN  IF Sibling(here) < Len(level) THEN level[Sibling(here) + 1]
                                          ELSE level[here + 1]]

\* What somebody who holds a leaf, its position and a proof computes: the code
\* has no such function, its tests count the hashes of a proof.
Climb(leaf, index, proof) ==
    LET up[k \in 0 .. Len(proof)] ==
          IF k = 0 THEN HashLeaf(leaf)
          ELSE IF Position(index)[k - 1] % 2 = 0
                 THEN HashPair(up[k - 1], proof[k])
                 ELSE HashPair(proof[k], up[k - 1])
    IN  up[Len(proof)]
=============================================================================
