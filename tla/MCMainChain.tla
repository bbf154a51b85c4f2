---------------------------- MODULE MCMainChain ----------------------------
(* MainChain with three accounts, two trees that differ in their stakes,    *)
(* and one whose top node is not a root.                                    *)
EXTENDS MainChain

CONSTANTS a1, a2, a3, t1, t2, t3

MCAccounts == {a1, a2, a3}
MCTrees == {t1, t2, t3}
MCTopPath(tree) == IF tree = t3 THEN <<0>> ELSE <<>>
Line(tree) == IF tree = t1 THEN <<a1, a2, a1>> ELSE <<a2, a3>>
MCStake(tree) == Len(Line(tree))
MCAccountAt(tree, ix) == Line(tree)[ix + 1]

(* In place of a hash, a sum of some of what is hashed.                     *)
MCRandVal(seed, version, rand_id) ==
  LET number == IF Len(rand_id) = 1 THEN 0 ELSE rand_id[Len(rand_id)]
  IN seed.timestamp + (IF seed.tree = t1 THEN 0 ELSE 1) + version + number

(* A quorum signs a tree if a1 and a2, who approve of every tree, are all   *)
(* of its members.                                                          *)
MCTreeEndorsed(prev, tree) ==
  LET quorums == Quorums(prev, <<>>)
  IN \E i \in DOMAIN quorums : \A j \in DOMAIN quorums[i].members :
       quorums[i].members[j] \in {a1, a2}

MCOptions ==
  [timestamp_period |-> 2, main_block_signers |-> 2,
   main_block_signatures_required |-> 2, random_seed_period |-> 2,
   quorum_period |-> 2,
   quorum_sizes_thresholds |-> <<[size |-> 1, threshold |-> 1]>>]
MCAllOptions == {MCOptions, [MCOptions EXCEPT !.main_block_signatures_required = 0]}
MCTimestamps == {-2, 0, 1, 2, 4, 6}
MCGenesis ==
  [version |-> 0, timestamp |-> -2, tree |-> t1, options |-> MCOptions,
   signatures |-> <<a1>>, signature |-> a1]
MCSignatureLists ==
  {<<a1>>, <<a2, a1>>, <<a1, a1>>, <<a2, None>>}
MCPaths == {<<>>}
=============================================================================
