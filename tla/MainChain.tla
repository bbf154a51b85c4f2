------------------------------ MODULE MainChain ------------------------------
(***************************************************************************)
(* Main blocks: construction.rs proposes the body of the next one, signers *)
(* and the miner sign it, and verification.rs accepts it or not.  Blocks   *)
(* that nobody proposed, and such that too few signed, are offered too.    *)
(*                                                                         *)
(* A name with an underscore is a faulty variant of the definition after   *)
(* it, which the checks put in its place.                                  *)
(***************************************************************************)
EXTENDS Selection, FiniteSets

CONSTANTS
  Genesis,              \* the genesis block
  TreeEndorsed(_, _),   \* verify_endorsed_quorum_node, of a block and a tree
  TopPath(_),           \* the path of the top node of a tree
  SignatureLists,       \* the lists of signatures that blocks are offered with
  Paths,                \* paths of quorum nodes
  MaxVersion, MaxKnown  \* bounds: the versions, and the number of blocks

ASSUME MainChainAssumption ==
  /\ Genesis \in MainBlock
  /\ Genesis.version = 0
  /\ SignatureLists \subseteq Seq(Signatures)

VARIABLE known  \* the blocks that were found to be valid and endorsed

Chains == Seq(MainBlock) \ {<<>>}

(* verify_well_formed_main_block_body, for a body that has a predecessor.   *)
IsMultiple(timestamp, period) == timestamp % period = 0
WellFormed_AnyMultiple(prev, body) ==
  /\ body.options.timestamp_period # 0
  /\ body.version = Tip(prev).version + 1
  /\ body.timestamp > Tip(prev).timestamp
WellFormed(prev, body) ==
  /\ body.options.timestamp_period # 0
  /\ IsMultiple(body.timestamp, body.options.timestamp_period)
  /\ body.version = Tip(prev).version + 1
  /\ body.timestamp > Tip(prev).timestamp

(* verify_valid_main_block_body.                                            *)
Valid(prev, body) ==
  /\ WellFormed(prev, body)
  /\ TopPath(body.tree) = <<>>
  /\ body.options = Tip(prev).options
  /\ body.tree = Tip(prev).tree \/ TreeEndorsed(prev, body.tree)

(* verify_endorsed_pre_signed_main_block and verify_endorsed_main_block: a  *)
(* signer who was drawn several times is counted several times.             *)
Signed(signatures) ==
  /\ \A i \in DOMAIN signatures : signatures[i] # None
  /\ \A i, j \in DOMAIN signatures : signatures[i] = signatures[j] => i = j
Count_Distinct(prev, signatures) ==
  Cardinality({signatures[i] : i \in DOMAIN signatures}
                \cap {Signers(prev)[i] : i \in DOMAIN Signers(prev)})
Count(prev, signatures) ==
  LET needed_signers == Signers(prev)
  IN Cardinality({i \in DOMAIN needed_signers :
                    \E j \in DOMAIN signatures : signatures[j] = needed_signers[i]})
Endorsed(prev, block) ==
  /\ WellFormed(prev, block)
  /\ Signed(block.signatures)
  /\ HasMinerAndSigners(prev)
  /\ Count(prev, block.signatures) >= block.options.main_block_signatures_required
  /\ block.signature = Miner(prev)

(* next_main_block_body; it divides by the period.                          *)
CanPropose_AnyPath(prev, timestamp, tree) ==
  LET options == Tip(prev).options
  IN /\ options.timestamp_period # 0
     /\ IsMultiple(timestamp, options.timestamp_period)
     /\ timestamp > Tip(prev).timestamp
     /\ tree = Tip(prev).tree \/ TreeEndorsed(prev, tree)
CanPropose(prev, timestamp, tree) ==
  LET options == Tip(prev).options
  IN /\ options.timestamp_period # 0
     /\ IsMultiple(timestamp, options.timestamp_period)
     /\ timestamp > Tip(prev).timestamp
     /\ TopPath(tree) = <<>>
     /\ tree = Tip(prev).tree \/ TreeEndorsed(prev, tree)
NextBody(prev, timestamp, tree) ==
  [version |-> Tip(prev).version + 1, timestamp |-> timestamp, tree |-> tree,
   options |-> Tip(prev).options]

(* PreSignedMainBlock::sign and MainBlock::sign.                            *)
Sign(body, signatures, signature) ==
  [version |-> body.version, timestamp |-> body.timestamp, tree |-> body.tree,
   options |-> body.options, signatures |-> signatures, signature |-> signature]

(* The block with the hash of prev as its predecessor.                      *)
Extended_Sibling(prev, block) == Append(Prev(prev), block)
Extended(prev, block) == Append(prev, block)

(* Any body is signed, by whoever does, and offered.                        *)
Offer(prev, body) ==
  /\ Len(prev) <= MaxVersion
  /\ Cardinality(known) < MaxKnown
  /\ Valid(prev, body)
  /\ \E signatures \in SignatureLists, signature \in Signatures :
       LET block == Sign(body, signatures, signature)
       IN /\ Endorsed(prev, block)
          /\ known' = known \cup {Extended(prev, block)}

Init == known = {<<Genesis>>}
Next ==
  \E prev \in known, version \in 0..MaxVersion, timestamp \in Timestamps,
     tree \in Trees, options \in Options :
    Offer(prev, [version |-> version, timestamp |-> timestamp, tree |-> tree,
                 options |-> options])
Spec == Init /\ [][Next]_known
-----------------------------------------------------------------------------
(* What is known are chains from the genesis block on, and all ancestors of *)
(* a block are known with it, so that no lookup of one fails.               *)
TypeOK ==
  \A main \in known :
    /\ main \in Chains
    /\ main[1] = Genesis
    /\ \A n \in DOMAIN main : Ancestor(main, n) \in known

(* A version is the number of blocks before, as block_with_version and the  *)
(* rounding of versions rely on, and the options never change.              *)
ChainsWellFormed ==
  \A main \in known : \A i \in DOMAIN main :
    main[i].version = i - 1 /\ main[i].options = Genesis.options

(* "The period of time by which a new block may be created"                 *)
(* (blockdata.rs:103): between two blocks of a chain at least that time     *)
(* passes for each block.                                                   *)
OneBlockPerPeriod ==
  \A main \in known : \A i, j \in 2..Len(main) :
    i <= j => main[j].timestamp - main[i].timestamp
                >= Genesis.options.timestamp_period * (j - i)

(* No walk back to the seed, the stakes or the quorums ends in one of the   *)
(* errors of block_with_version, and it finds the ancestor that has the     *)
(* version.                                                                 *)
FindsAncestor(main, found, version) ==
  version \in 0..Tip(main).version /\ found = Ancestor(main, version + 1)
NoVersionError ==
  \A main \in known :
    LET version == Tip(main).version
        period == Genesis.options.random_seed_period
        quorum_period == Genesis.options.quorum_period
    IN /\ period # 0 =>
            /\ FindsAncestor(main, SeedBlock(main), Rounded(version, period))
            /\ FindsAncestor(main, StakeBlock(main), RoundedBefore(version, period))
       /\ quorum_period # 0 =>
            FindsAncestor(main, QuorumBlock(main),
                          RoundedBefore(version, quorum_period))

(* Whoever makes a block that is not the first of its period cannot choose, *)
(* by its tree, its timestamp or its signatures, who makes the next one.    *)
NoInfluence ==
  \A main, other \in known :
    (/\ Genesis.options.random_seed_period # 0
     /\ Prev(main) = Prev(other)
     /\ Tip(main).version % Genesis.options.random_seed_period # 0)
    => Miner(main) = Miner(other) /\ Signers(main) = Signers(other)

(* The stakes by which accounts are drawn were settled before the seed was: *)
(* they are those of a block before the one that is the seed, except in the *)
(* first period, where both are the genesis block.                          *)
StakeSettled ==
  \A main \in known :
    Genesis.options.random_seed_period # 0 =>
      \/ Len(StakeBlock(main)) < Len(SeedBlock(main))
      \/ StakeBlock(main) = <<Genesis>> /\ SeedBlock(main) = <<Genesis>>

(* "The number of blocks created between reshufflings of quorums"           *)
(* (blockdata.rs:111): blocks of one period have the same quorums if they   *)
(* have a common ancestor in it, or in the one before, and else if their    *)
(* common ancestor is the block that the quorums are drawn from.            *)
QuorumsKept ==
  \A main, other \in known :
    LET period == Genesis.options.quorum_period
        version == Tip(main).version
        base == RoundedBefore(version, period)
    IN (/\ period # 0
        /\ version \div period = Tip(other).version \div period
        /\ Ancestor(main, base + 1) = Ancestor(other, base + 1))
       => main = other \/ \A path \in Paths : Quorums(main, path) = Quorums(other, path)

(* next_main_block_body makes a body exactly when it will be found valid;   *)
(* and if all the signers that were drawn sign it, and the miner does, it   *)
(* is endorsed, however often one of them was drawn, as long as the options *)
(* ask for no more signatures than signers.                                 *)
ProposalsAreAccepted ==
  \A prev \in known :
    LET drawn == {Signers(prev)[i] : i \in DOMAIN Signers(prev)}
        all_sign == {signatures \in SignatureLists :
                       /\ Signed(signatures)
                       /\ {signatures[i] : i \in DOMAIN signatures} = drawn}
    IN \A timestamp \in Timestamps, tree \in Trees :
         LET body == NextBody(prev, timestamp, tree)
         IN /\ CanPropose(prev, timestamp, tree) <=> Valid(prev, body)
            /\ (/\ CanPropose(prev, timestamp, tree)
                /\ HasMinerAndSigners(prev)
                /\ Genesis.options.main_block_signatures_required
                     <= Genesis.options.main_block_signers)
               => \A signatures \in all_sign :
                    Endorsed(prev, Sign(body, signatures, Miner(prev)))
=============================================================================
