------------------------------ MODULE Selection ------------------------------
(***************************************************************************)
(* queries.rs: who mines and signs the main block after a given one, and   *)
(* which quorums may sign quorum nodes.  Operators only; MainChain uses    *)
(* them.                                                                   *)
(*                                                                         *)
(* A main block is the sequence of what it and the blocks before it say,   *)
(* from the genesis block on, so that its predecessor is the sequence      *)
(* without the last element.  The result None is that of an operation that *)
(* ends in an error, panics (a division by zero) or does not return.       *)
(*                                                                         *)
(* A name with an underscore is a faulty variant of the definition after   *)
(* it, which the checks put in its place.                                  *)
(***************************************************************************)
EXTENDS Integers, Sequences

CONSTANTS
  None,
  Accounts,          \* the hashes of public keys
  Trees,             \* hashes of the quorum trees
  Stake(_),          \* the stake at the root of a tree
  AccountAt(_, _),   \* what stake_indexed_account returns, of a tree and an index
  RandVal(_, _, _),  \* rand_val, a hash of the seed, the version and rand_id
  Options,           \* MainOptions
  Timestamps         \* multiples of a millisecond, an i64

SizesThresholds == [size : Nat, threshold : Nat]
ASSUME SelectionAssumption ==
  /\ Timestamps \subseteq Int
  /\ \A tree \in Trees : Stake(tree) \in Nat
  /\ \A options \in Options :
       /\ options.timestamp_period \in Nat
       /\ options.main_block_signers \in Nat
       /\ options.main_block_signatures_required \in Nat
       /\ options.random_seed_period \in Nat
       /\ options.quorum_period \in Nat
       /\ options.quorum_sizes_thresholds \in Seq(SizesThresholds)

(* A signature is the account that made it, or None if it is invalid.       *)
Signatures == Accounts \cup {None}
MainBlock ==
  [version : Nat, timestamp : Timestamps, tree : Trees, options : Options,
   signatures : Seq(Signatures), signature : Signatures]

Tip(main) == main[Len(main)]
Ancestor(main, n) == SubSeq(main, 1, n)
Prev(main) == Ancestor(main, Len(main) - 1)

(* What remains of a block without its signatures; its predecessor, of      *)
(* which it has the hash, keeps those that it has.                          *)
Body(main) ==
  [prev |-> Prev(main), version |-> Tip(main).version,
   timestamp |-> Tip(main).timestamp, tree |-> Tip(main).tree,
   options |-> Tip(main).options]

(* block_with_version goes back until the version is not above the one      *)
(* asked for, and returns that block if it has that version.                *)
StopsAt(main, i, version) ==
  /\ main[i].version <= version
  /\ \A j \in DOMAIN main : j > i => main[j].version > version
BlockWithVersion(main, version) ==
  IF \E i \in DOMAIN main : StopsAt(main, i, version) /\ main[i].version = version
  THEN Ancestor(main, CHOOSE i \in DOMAIN main :
                        StopsAt(main, i, version) /\ main[i].version = version)
  ELSE None

(* The first version of a period, and of the period before unless there is  *)
(* none.                                                                    *)
Rounded(version, period) == (version \div period) * period
RoundedBefore_Not(version, period) == Rounded(version, period)
RoundedBefore_Always(version, period) == Rounded(version, period) - period
RoundedBefore(version, period) ==
  IF Rounded(version, period) > 0
  THEN Rounded(version, period) - period ELSE Rounded(version, period)

(* random_seed_of_block: the hash of the body of the first block of its     *)
(* period.                                                                  *)
SeedBlock_Tip(main) ==
  IF Tip(main).options.random_seed_period = 0 THEN None ELSE main
SeedBlock(main) ==
  LET period == Tip(main).options.random_seed_period
  IN IF period = 0 THEN None
     ELSE BlockWithVersion(main, Rounded(Tip(main).version, period))
RandomSeed(main) ==
  LET block == SeedBlock(main) IN IF block = None THEN None ELSE Body(block)

(* random_account, whose stakes are those of a block one period earlier.    *)
StakeBlock(main) ==
  LET period == Tip(main).options.random_seed_period
  IN IF period = 0 THEN None
     ELSE BlockWithVersion(main, RoundedBefore(Tip(main).version, period))
RandomAccount(main, seed, rand_id) ==
  LET stake_main == StakeBlock(main)
      tree == Tip(stake_main).tree
  IN IF stake_main = None \/ seed = None THEN None
     ELSE IF Stake(tree) = 0 THEN None
     ELSE AccountAt(tree, RandVal(seed, Tip(main).version, rand_id) % Stake(tree))

Miner(main) == RandomAccount(main, RandomSeed(main), <<"miner">>)
Signers(main) ==
  LET seed == RandomSeed(main)
  IN [i \in 1..Tip(main).options.main_block_signers |->
        RandomAccount(main, seed, <<"signer", i>>)]

(* miner_and_signers_by_prev_block has a result.                            *)
HasMinerAndSigners(main) ==
  LET signers == Signers(main)
  IN /\ Miner(main) # None
     /\ \A i \in DOMAIN signers : signers[i] # None

(* quorums_by_prev_block: everything is drawn as for a block that is one    *)
(* period of quorums older.                                                 *)
QuorumBlock_Unrounded(main) == main
QuorumBlock(main) ==
  LET period == Tip(main).options.quorum_period
  IN IF period = 0 THEN None
     ELSE BlockWithVersion(main, RoundedBefore(Tip(main).version, period))
Quorums(main, path) ==
  LET base == QuorumBlock(main)
      seed == RandomSeed(base)
      sizes_thresholds == Tip(main).options.quorum_sizes_thresholds
  IN IF base = None THEN None
     ELSE [i \in DOMAIN sizes_thresholds |->
             [members |-> [j \in 1..sizes_thresholds[i].size |->
                             RandomAccount(base, seed, <<"quorum", path, i, j>>)],
              threshold |-> sizes_thresholds[i].threshold]]
=============================================================================
