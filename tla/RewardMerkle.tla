---------------------------- MODULE RewardMerkle ----------------------------
(***************************************************************************)
(* buildRewardMerkle: one leaf per payment, pairs hashed in either order,  *)
(* an odd node moved up as it is.  A hash is what it was computed from.    *)
(***************************************************************************)
EXTENDS SequencesExt, Integers

PairHash(left, right) == <<"node", {left, right}>>

LevelAbove(level) ==
  [i \in 1..((Len(level) + 1) \div 2) |->
     IF 2 * i <= Len(level) THEN PairHash(level[2 * i - 1], level[2 * i]) ELSE level[2 * i - 1]]

\* Level 0 are the leaves; the levels above the root repeat it.
Levels(leaves) ==
  LET level[d \in 0..Len(leaves)] == IF d = 0 THEN leaves ELSE LevelAbove(level[d - 1])
  IN level

Root(leaves) == Levels(leaves)[Len(leaves)][1]

\* The siblings on the way up, where there is one.
Proof(leaves, i) ==
  LET index(d) == (i - 1) \div 2^d
      sibling(d) == (IF index(d) % 2 = 0 THEN index(d) + 1 ELSE index(d) - 1) + 1
      levels == Levels(leaves)
      steps == SelectSeq([d \in 1..Len(leaves) |-> d - 1],
                         LAMBDA d : sibling(d) <= Len(levels[d]))
  IN [k \in DOMAIN steps |-> levels[steps[k]][sibling(steps[k])]]

VerifyRewardProof(root, leaf, proof) == FoldLeft(PairHash, leaf, proof) = root

=============================================================================
