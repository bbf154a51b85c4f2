--------------------------- MODULE MainChainProofs ---------------------------
(***************************************************************************)
(* Theorems about MainChain, for all periods, trees, draws and bounds.     *)
(***************************************************************************)
EXTENDS MainChain, FiniteSetTheorems, SequenceTheorems, TLAPS

(***************************************************************************)
(* Ancestors of a block.                                                   *)
(***************************************************************************)
LEMMA AncestorIsChain ==
  ASSUME NEW main \in Chains, NEW n \in DOMAIN main
  PROVE  /\ Ancestor(main, n) \in Chains
         /\ Len(Ancestor(main, n)) = n
         /\ \A i \in 1..n : Ancestor(main, n)[i] = main[i]
         /\ Tip(Ancestor(main, n)) = main[n]
<1>1. main \in Seq(MainBlock) /\ n \in 1..Len(main)
  BY DEF Chains
<1>2. /\ Ancestor(main, n) \in Seq(MainBlock)
      /\ Len(Ancestor(main, n)) = n
      /\ \A i \in 1..n : Ancestor(main, n)[i] = main[i]
  BY <1>1 DEF Ancestor
<1>3. Ancestor(main, n) # <<>> /\ n \in 1..n
  BY <1>1, <1>2
<1> QED BY <1>2, <1>3 DEF Chains, Tip

LEMMA TipIsLast ==
  ASSUME NEW main \in Chains
  PROVE  /\ Len(main) \in Nat \ {0}
         /\ DOMAIN main = 1..Len(main)
         /\ Tip(main) \in MainBlock
         /\ Len(main) \in DOMAIN main
<1>1. main \in Seq(MainBlock) /\ main # <<>>
  BY DEF Chains
<1>2. Len(main) \in Nat \ {0} /\ DOMAIN main = 1..Len(main)
  BY <1>1
<1>3. Len(main) \in DOMAIN main
  BY <1>2
<1> QED BY <1>1, <1>2, <1>3 DEF Tip

(* The chain that a block makes of that of its predecessor.                 *)
LEMMA ExtendedChain ==
  ASSUME NEW prev \in Chains, NEW block \in MainBlock
  PROVE  LET main == Extended(prev, block)
         IN /\ main \in Chains
            /\ Len(main) = Len(prev) + 1
            /\ Tip(main) = block
            /\ \A i \in DOMAIN prev : main[i] = prev[i] /\ i \in DOMAIN main
            /\ \A i \in DOMAIN prev : Ancestor(main, i) = Ancestor(prev, i)
            /\ Ancestor(main, Len(prev) + 1) = main
<1> DEFINE main == Extended(prev, block)
<1>1. prev \in Seq(MainBlock) /\ prev # <<>>
  BY DEF Chains
<1>2. /\ main \in Seq(MainBlock) /\ main # <<>>
      /\ Len(main) = Len(prev) + 1 /\ main[Len(prev) + 1] = block
      /\ \A i \in DOMAIN prev : main[i] = prev[i] /\ i \in DOMAIN main
  BY <1>1 DEF Extended
<1>3. ASSUME NEW i \in DOMAIN prev PROVE Ancestor(main, i) = Ancestor(prev, i)
  BY <1>1, <1>2 DEF Ancestor
<1>4. Ancestor(main, Len(prev) + 1) = main
  BY <1>1, <1>2 DEF Ancestor
<1> QED BY <1>2, <1>3, <1>4 DEF Chains, Tip

(***************************************************************************)
(* The rounding of versions.                                               *)
(***************************************************************************)
LEMMA RoundedFacts ==
  ASSUME NEW version \in Nat, NEW period \in Nat, period # 0
  PROVE  /\ Rounded(version, period) \in 0..version
         /\ version % period # 0 => Rounded(version, period) < version
         /\ RoundedBefore(version, period) \in 0..Rounded(version, period)
         /\ Rounded(version, period) > 0 =>
              RoundedBefore(version, period) < Rounded(version, period)
         /\ Rounded(version, period) = 0 => RoundedBefore(version, period) = 0
<1> DEFINE k == version \div period
           r == version % period
<1>1. k \in Nat /\ r \in 0..(period - 1) /\ version = period * k + r
  OBVIOUS
<1>2. period * k \in Nat /\ k * period = period * k
  BY <1>1
<1>3. Rounded(version, period) = period * k
  BY <1>2 DEF Rounded
<1>4. period * k > 0 => period * k >= period
  <2>1. CASE k = 0
    BY <2>1
  <2>2. CASE k # 0
    <3>1. k - 1 \in Nat /\ period * k = period * (k - 1) + period
      BY <1>1, <2>2
    <3>2. period * (k - 1) >= 0
      BY <3>1
    <3> QED BY <3>1, <3>2
  <2> QED BY <2>1, <2>2
<1> HIDE DEF k, r
<1> QED BY <1>1, <1>2, <1>3, <1>4 DEF RoundedBefore, r

(***************************************************************************)
(* block_with_version, on a chain whose versions are the numbers of blocks *)
(* before.                                                                 *)
(***************************************************************************)
Numbered(main) == \A i \in DOMAIN main : main[i].version = i - 1

LEMMA WalkFindsAncestor ==
  ASSUME NEW main \in Chains, Numbered(main),
         NEW version \in 0..(Len(main) - 1)
  PROVE  BlockWithVersion(main, version) = Ancestor(main, version + 1)
<1> DEFINE Found(i) == StopsAt(main, i, version) /\ main[i].version = version
<1>1. DOMAIN main = 1..Len(main) /\ Len(main) \in Nat
  BY TipIsLast
<1>2. version + 1 \in DOMAIN main
  BY <1>1
<1>3. Found(version + 1)
  BY <1>1, <1>2 DEF StopsAt, Numbered
<1>4. \A i \in DOMAIN main : Found(i) => i = version + 1
  BY <1>1 DEF Numbered
<1>5. (CHOOSE i \in DOMAIN main : Found(i)) = version + 1
  BY <1>2, <1>3, <1>4
<1> QED BY <1>2, <1>3, <1>5 DEF BlockWithVersion

(***************************************************************************)
(* The inductive invariant, and how a new block extends a chain.           *)
(***************************************************************************)
IInv == TypeOK /\ ChainsWellFormed

LEMMA KnownIsNumbered ==
  ASSUME IInv, NEW main \in known
  PROVE  /\ main \in Chains
         /\ Numbered(main)
         /\ Tip(main).version = Len(main) - 1
         /\ Tip(main).options = Genesis.options
         /\ Genesis.options \in Options
<1>1. main \in Chains /\ Numbered(main)
  BY DEF IInv, TypeOK, ChainsWellFormed, Numbered
<1>2. Len(main) \in DOMAIN main
  BY <1>1, TipIsLast
<1>3. Tip(main).version = Len(main) - 1 /\ Tip(main).options = Genesis.options
  BY <1>1, <1>2 DEF IInv, ChainsWellFormed, Tip
<1> QED BY <1>1, <1>3, MainChainAssumption DEF MainBlock

(* A step adds one block to a chain that is known, or nothing.              *)
LEMMA StepExtends ==
  ASSUME IInv, Next
  PROVE  \E prev \in known, block \in MainBlock :
           /\ Valid(prev, block)
           /\ Endorsed(prev, block)
           /\ known' = known \cup {Extended(prev, block)}
<1>1. PICK prev \in known, version \in 0..MaxVersion, timestamp \in Timestamps,
           tree \in Trees, options \in Options :
        Offer(prev, [version |-> version, timestamp |-> timestamp, tree |-> tree,
                     options |-> options])
  BY DEF Next
<1> DEFINE body == [version |-> version, timestamp |-> timestamp, tree |-> tree,
                    options |-> options]
<1>2. PICK signatures \in SignatureLists, signature \in Signatures :
        /\ Endorsed(prev, Sign(body, signatures, signature))
        /\ known' = known \cup {Extended(prev, Sign(body, signatures, signature))}
  BY <1>1 DEF Offer
<1> DEFINE block == Sign(body, signatures, signature)
<1>3. Valid(prev, body)
  BY <1>1 DEF Offer
<1>4. /\ block.version = body.version /\ block.timestamp = body.timestamp
      /\ block.tree = body.tree /\ block.options = body.options
  BY DEF Sign
<1>5. Valid(prev, block)
  BY <1>3, <1>4 DEF Valid, WellFormed
<1>6. block \in MainBlock
  <2>1. signatures \in Seq(Signatures)
    BY MainChainAssumption
  <2>2. Tip(prev).version \in Nat /\ body.version = Tip(prev).version + 1
    BY <1>3, KnownIsNumbered, TipIsLast DEF Valid, WellFormed, MainBlock
  <2>3. version \in Nat
    BY <2>2
  <2> QED BY <2>1, <2>3 DEF Sign, MainBlock
<1> QED BY <1>2, <1>5, <1>6

LEMMA InitIInv == Init => IInv
<1> SUFFICES ASSUME Init PROVE IInv
  OBVIOUS
<1>1. known = {<<Genesis>>}
  BY DEF Init
<1>2. <<Genesis>> \in Chains /\ DOMAIN <<Genesis>> = {1} /\ <<Genesis>>[1] = Genesis
  BY MainChainAssumption DEF Chains
<1>3. Ancestor(<<Genesis>>, 1) = <<Genesis>>
  <2> DEFINE main == <<Genesis>>
  <2>1. main \in Seq(MainBlock) /\ Len(main) = 1
    BY MainChainAssumption
  <2> HIDE DEF main
  <2>2. SubSeq(main, 1, 1) = main
    BY <2>1
  <2> QED BY <2>2 DEF Ancestor, main
<1>4. TypeOK
  BY <1>1, <1>2, <1>3 DEF TypeOK
<1>5. ChainsWellFormed
  BY <1>1, <1>2, MainChainAssumption DEF ChainsWellFormed
<1> QED BY <1>4, <1>5 DEF IInv

LEMMA NextIInv == IInv /\ [Next]_known => IInv'
<1> SUFFICES ASSUME IInv, [Next]_known PROVE IInv'
  OBVIOUS
<1>1. CASE UNCHANGED known
  BY <1>1 DEF IInv, TypeOK, ChainsWellFormed
<1>2. CASE Next
  <2>1. PICK prev \in known, block \in MainBlock :
          Valid(prev, block) /\ known' = known \cup {Extended(prev, block)}
    BY <1>2, StepExtends
  <2> DEFINE new == Extended(prev, block)
  <2>2. prev \in Chains
    BY DEF IInv, TypeOK
  <2>3. /\ new \in Chains /\ Len(new) = Len(prev) + 1 /\ Tip(new) = block
        /\ \A i \in DOMAIN prev : new[i] = prev[i] /\ i \in DOMAIN new
        /\ \A i \in DOMAIN prev : Ancestor(new, i) = Ancestor(prev, i)
        /\ Ancestor(new, Len(prev) + 1) = new
    BY <2>2, ExtendedChain
  <2>4. /\ DOMAIN prev = 1..Len(prev) /\ Len(prev) \in Nat \ {0}
        /\ DOMAIN new = 1..(Len(prev) + 1)
    BY <2>2, <2>3, TipIsLast
  <2>5. new[Len(prev) + 1] = block
    BY <2>3 DEF Tip
  <2>6. TypeOK'
    <3>1. new[1] = Genesis
      BY <2>3, <2>4 DEF IInv, TypeOK
    <3>2. \A n \in DOMAIN new : Ancestor(new, n) \in known'
      BY <2>1, <2>3, <2>4 DEF IInv, TypeOK
    <3> QED BY <2>1, <2>3, <3>1, <3>2 DEF IInv, TypeOK
  <2>7. block.version = Len(prev) /\ block.options = Genesis.options
    BY <2>1, KnownIsNumbered DEF Valid, WellFormed
  <2>8. ASSUME NEW i \in DOMAIN new
        PROVE  new[i].version = i - 1 /\ new[i].options = Genesis.options
    <3>1. CASE i = Len(prev) + 1
      BY <3>1, <2>4, <2>5, <2>7
    <3>2. CASE i \in DOMAIN prev
      BY <3>2, <2>3 DEF IInv, ChainsWellFormed
    <3> QED BY <3>1, <3>2, <2>4
  <2>9. ChainsWellFormed'
    BY <2>1, <2>8 DEF IInv, ChainsWellFormed
  <2> QED BY <2>6, <2>9 DEF IInv
<1> QED BY <1>1, <1>2

THEOREM Invariance == Spec => []IInv
BY InitIInv, NextIInv, PTL DEF Spec

(* Every known block is a chain from the genesis block, and its ancestors   *)
(* are known.                                                               *)
THEOREM TypeCorrect == Spec => []TypeOK
<1>1. IInv => TypeOK
  BY DEF IInv
<1> QED BY <1>1, Invariance, PTL

(* Versions number the blocks of every chain, and options are those of the  *)
(* genesis block.                                                           *)
THEOREM VersionsNumberBlocks == Spec => []ChainsWellFormed
<1>1. IInv => ChainsWellFormed
  BY DEF IInv
<1> QED BY <1>1, Invariance, PTL

(***************************************************************************)
(* What is drawn from older blocks.                                        *)
(***************************************************************************)
LEMMA FindsBases == IInv => NoVersionError
<1> SUFFICES ASSUME IInv, NEW main \in known
             PROVE  LET version == Tip(main).version
                        period == Genesis.options.random_seed_period
                        quorum_period == Genesis.options.quorum_period
                    IN /\ period # 0 =>
                            /\ FindsAncestor(main, SeedBlock(main),
                                             Rounded(version, period))
                            /\ FindsAncestor(main, StakeBlock(main),
                                             RoundedBefore(version, period))
                       /\ quorum_period # 0 =>
                            FindsAncestor(main, QuorumBlock(main),
                                          RoundedBefore(version, quorum_period))
  BY DEF NoVersionError
<1> DEFINE version == Tip(main).version
           period == Genesis.options.random_seed_period
           quorum_period == Genesis.options.quorum_period
<1>1. /\ main \in Chains /\ Numbered(main) /\ version = Len(main) - 1
      /\ Tip(main).options.random_seed_period = period
      /\ Tip(main).options.quorum_period = quorum_period
  BY KnownIsNumbered
<1>2. version \in Nat /\ period \in Nat /\ quorum_period \in Nat
  BY <1>1, TipIsLast, KnownIsNumbered, SelectionAssumption
<1>3. ASSUME NEW v \in 0..version
      PROVE  BlockWithVersion(main, v) = Ancestor(main, v + 1)
  BY <1>1, <1>2, WalkFindsAncestor
<1> HIDE DEF version, period, quorum_period
<1>4. ASSUME period # 0
      PROVE  /\ FindsAncestor(main, SeedBlock(main), Rounded(version, period))
             /\ FindsAncestor(main, StakeBlock(main), RoundedBefore(version, period))
  <2>1. Rounded(version, period) \in 0..version
    BY <1>2, <1>4, RoundedFacts
  <2>2. RoundedBefore(version, period) \in 0..version
    BY <1>2, <1>4, <2>1, RoundedFacts
  <2>3. /\ SeedBlock(main) = BlockWithVersion(main, Rounded(version, period))
        /\ StakeBlock(main) = BlockWithVersion(main, RoundedBefore(version, period))
    BY <1>1, <1>4 DEF SeedBlock, StakeBlock, version
  <2> QED BY <1>3, <2>1, <2>2, <2>3 DEF FindsAncestor, version
<1>5. ASSUME quorum_period # 0
      PROVE  FindsAncestor(main, QuorumBlock(main), RoundedBefore(version, quorum_period))
  <2>1. Rounded(version, quorum_period) \in 0..version
    BY <1>2, <1>5, RoundedFacts
  <2>2. RoundedBefore(version, quorum_period) \in 0..version
    BY <1>2, <1>5, <2>1, RoundedFacts
  <2>3. QuorumBlock(main) = BlockWithVersion(main, RoundedBefore(version, quorum_period))
    BY <1>1, <1>5 DEF QuorumBlock, version
  <2> QED BY <1>3, <2>1, <2>2, <2>3 DEF FindsAncestor, version
<1> QED BY <1>4, <1>5 DEF version, period, quorum_period

(* The walks of block_with_version never end in an error, and find the      *)
(* ancestor that has the version asked for.                                 *)
THEOREM WalksFindBlocks == Spec => []NoVersionError
BY FindsBases, Invariance, PTL

LEMMA FirstAncestor ==
  ASSUME NEW main \in Chains, main[1] = Genesis
  PROVE  Ancestor(main, 1) = <<Genesis>>
<1>1. main \in Seq(MainBlock) /\ Len(main) \in Nat \ {0}
  BY TipIsLast DEF Chains
<1> DEFINE first == <<Genesis>>
           found == Ancestor(main, 1)
<1>2. first \in Seq(MainBlock) /\ Len(first) = 1 /\ first[1] = Genesis
  BY MainChainAssumption
<1>3. found \in Seq(MainBlock) /\ Len(found) = 1 /\ found[1] = Genesis
  BY <1>1 DEF Ancestor
<1> HIDE DEF first, found
<1>4. first = found
  BY <1>2, <1>3
<1> QED BY <1>4 DEF first, found

LEMMA StakesBeforeSeed == IInv => StakeSettled
<1> SUFFICES ASSUME IInv, NEW main \in known,
                    Genesis.options.random_seed_period # 0
             PROVE  \/ Len(StakeBlock(main)) < Len(SeedBlock(main))
                    \/ StakeBlock(main) = <<Genesis>> /\ SeedBlock(main) = <<Genesis>>
  BY DEF StakeSettled
<1> DEFINE version == Tip(main).version
           period == Genesis.options.random_seed_period
           seed == Rounded(version, period)
           stake == RoundedBefore(version, period)
<1>1. /\ main \in Chains /\ version = Len(main) - 1 /\ main[1] = Genesis
      /\ period \in Nat
  BY KnownIsNumbered, SelectionAssumption DEF IInv, TypeOK
<1>2. /\ seed \in 0..version /\ SeedBlock(main) = Ancestor(main, seed + 1)
      /\ stake \in 0..version /\ StakeBlock(main) = Ancestor(main, stake + 1)
  BY FindsBases DEF NoVersionError, FindsAncestor
<1>3. version \in Nat /\ DOMAIN main = 1..(version + 1)
  BY <1>1, TipIsLast
<1> HIDE DEF version, period
<1>4. (seed > 0 => stake < seed) /\ (seed = 0 => stake = 0)
  BY <1>1, <1>3, RoundedFacts DEF period
<1> HIDE DEF seed, stake
<1>5. seed + 1 \in DOMAIN main /\ stake + 1 \in DOMAIN main
  BY <1>2, <1>3
<1>6. Len(SeedBlock(main)) = seed + 1 /\ Len(StakeBlock(main)) = stake + 1
  BY <1>1, <1>2, <1>5, AncestorIsChain
<1>7. CASE seed > 0
  BY <1>2, <1>3, <1>4, <1>6, <1>7
<1>8. CASE seed = 0
  BY <1>1, <1>2, <1>4, <1>8, FirstAncestor
<1> QED BY <1>2, <1>3, <1>7, <1>8

(* The stakes by which accounts are drawn were settled before the block     *)
(* that the seed is made of.                                                *)
THEOREM StakesAreSettled == Spec => []StakeSettled
BY StakesBeforeSeed, Invariance, PTL

LEMMA SameQuorums == IInv => QuorumsKept
<1> SUFFICES ASSUME IInv, NEW main \in known, NEW other \in known,
                    Genesis.options.quorum_period # 0,
                    Tip(main).version \div Genesis.options.quorum_period
                      = Tip(other).version \div Genesis.options.quorum_period,
                    Ancestor(main, RoundedBefore(Tip(main).version,
                                                 Genesis.options.quorum_period) + 1)
                      = Ancestor(other, RoundedBefore(Tip(main).version,
                                                      Genesis.options.quorum_period) + 1),
                    NEW path \in Paths
             PROVE  Quorums(main, path) = Quorums(other, path)
  BY DEF QuorumsKept
<1> DEFINE period == Genesis.options.quorum_period
<1>1. Tip(main).options = Genesis.options /\ Tip(other).options = Genesis.options
  BY KnownIsNumbered
<1>2. RoundedBefore(Tip(other).version, period) = RoundedBefore(Tip(main).version, period)
  BY DEF RoundedBefore, Rounded
<1>3. /\ QuorumBlock(main) = Ancestor(main, RoundedBefore(Tip(main).version, period) + 1)
      /\ QuorumBlock(other) = Ancestor(other, RoundedBefore(Tip(other).version, period) + 1)
  BY FindsBases DEF NoVersionError, FindsAncestor
<1>4. QuorumBlock(main) = QuorumBlock(other)
  BY <1>2, <1>3
<1> QED BY <1>1, <1>4 DEF Quorums

(* Blocks of one period that have the block in common from which quorums    *)
(* are drawn have the same quorums, for every node.                         *)
THEOREM QuorumsAreKept == Spec => []QuorumsKept
BY SameQuorums, Invariance, PTL

LEMMA PrevIsShorter ==
  ASSUME NEW main \in Chains
  PROVE  Len(Prev(main)) = Len(main) - 1
<1> DEFINE n == Len(main)
<1>1. main \in Seq(MainBlock) /\ n \in Nat \ {0}
  BY TipIsLast DEF Chains
<1>2. \A i \in 1..(n - 1) : main[i] \in MainBlock
  BY <1>1
<1> HIDE DEF n
<1>3. n - 1 \in Int /\ 1 \in Int
  BY <1>1
<1>4. Len(SubSeq(main, 1, n - 1)) = IF 1 <= n - 1 THEN (n - 1) - 1 + 1 ELSE 0
  BY <1>2, <1>3, SubSeqProperties, SMT
<1>5. Len(SubSeq(main, 1, n - 1)) = n - 1
  BY <1>1, <1>4
<1> QED BY <1>5 DEF Prev, Ancestor, n

LEMMA SameDraws == IInv => NoInfluence
<1> SUFFICES ASSUME IInv, NEW main \in known, NEW other \in known,
                    Genesis.options.random_seed_period # 0,
                    Prev(main) = Prev(other),
                    Tip(main).version % Genesis.options.random_seed_period # 0
             PROVE  Miner(main) = Miner(other) /\ Signers(main) = Signers(other)
  BY DEF NoInfluence
<1> DEFINE period == Genesis.options.random_seed_period
           version == Tip(main).version
           seed == Rounded(version, period)
           stake == RoundedBefore(version, period)
<1>1. /\ main \in Chains /\ other \in Chains
      /\ version = Len(main) - 1 /\ Tip(other).version = Len(other) - 1
      /\ Tip(main).options = Genesis.options /\ Tip(other).options = Genesis.options
      /\ period \in Nat
  BY KnownIsNumbered, SelectionAssumption
<1>2. /\ main \in Seq(MainBlock) /\ Len(main) \in Nat \ {0}
      /\ other \in Seq(MainBlock) /\ Len(other) \in Nat \ {0}
  BY <1>1, TipIsLast DEF Chains
<1>3. Len(Prev(main)) = Len(main) - 1 /\ Len(Prev(other)) = Len(other) - 1
  BY <1>1, PrevIsShorter
<1>4. Tip(other).version = version /\ version \in Nat
  BY <1>1, <1>2, <1>3
<1>5. /\ SeedBlock(main) = Ancestor(main, seed + 1)
      /\ StakeBlock(main) = Ancestor(main, stake + 1)
      /\ SeedBlock(other) = Ancestor(other, seed + 1)
      /\ StakeBlock(other) = Ancestor(other, stake + 1)
  BY <1>4, FindsBases DEF NoVersionError, FindsAncestor
<1>6. seed \in 0..(version - 1) /\ stake \in 0..(version - 1)
  <2> HIDE DEF version, period
  <2>1. seed \in 0..version /\ seed < version /\ stake \in 0..seed
    BY <1>1, <1>4, RoundedFacts DEF version, period
  <2> QED BY <2>1, <1>4
<1> HIDE DEF seed, stake
<1>7. ASSUME NEW n \in 0..(version - 1)
      PROVE  Ancestor(main, n + 1) = Ancestor(other, n + 1)
  <2>1. /\ Ancestor(main, n + 1) = Ancestor(Prev(main), n + 1)
        /\ Ancestor(other, n + 1) = Ancestor(Prev(other), n + 1)
    <3>1. n + 1 \in 1..(Len(main) - 1) /\ n + 1 \in 1..(Len(other) - 1)
      BY <1>1, <1>2, <1>4
    <3>2. ASSUME NEW chain \in Seq(MainBlock), NEW k \in 1..(Len(chain) - 1)
          PROVE  Ancestor(chain, k) = Ancestor(Prev(chain), k)
      BY DEF Prev, Ancestor
    <3> QED BY <1>2, <3>1, <3>2
  <2> QED BY <2>1
<1>8. SeedBlock(main) = SeedBlock(other) /\ StakeBlock(main) = StakeBlock(other)
  BY <1>5, <1>6, <1>7
<1>9. RandomSeed(main) = RandomSeed(other)
  BY <1>8 DEF RandomSeed
<1>10. ASSUME NEW s, NEW rand_id
       PROVE  RandomAccount(main, s, rand_id) = RandomAccount(other, s, rand_id)
  BY <1>4, <1>8 DEF RandomAccount
<1>11. Miner(main) = Miner(other)
  BY <1>9, <1>10 DEF Miner
<1>12. Signers(main) = Signers(other)
  BY <1>1, <1>9, <1>10 DEF Signers
<1> QED BY <1>11, <1>12

(* Whoever makes a block that is not the first of its period of the seed    *)
(* cannot choose by its contents who makes the next one.                    *)
THEOREM BlocksHaveNoInfluence == Spec => []NoInfluence
BY SameDraws, Invariance, PTL

(***************************************************************************)
(* Time.  The invariant is strengthened by the timestamps being multiples  *)
(* of the period, from the second block on.                                *)
(***************************************************************************)
LEMMA MultiplesAreApart ==
  ASSUME NEW a \in Int, NEW b \in Int, NEW period \in Nat, period # 0,
         a % period = 0, b % period = 0, a < b
  PROVE  b - a >= period
<1> DEFINE j == a \div period
           k == b \div period
<1>1. j \in Int /\ k \in Int /\ a = period * j /\ b = period * k
  OBVIOUS
<1> HIDE DEF j, k
<1>2. k > j
  <2>1. CASE k = j
    BY <1>1, <2>1
  <2>2. CASE k < j
    <3>1. j - k - 1 \in Nat /\ period * (j - k - 1) \in Nat
      BY <1>1, <2>2
    <3>2. period * j = period * k + period * (j - k - 1) + period
      BY <1>1
    <3> QED BY <1>1, <3>1, <3>2
  <2> QED BY <1>1, <2>1, <2>2
<1>3. k - j - 1 \in Nat /\ period * (k - j - 1) \in Nat
  BY <1>1, <1>2
<1>4. period * k = period * j + period * (k - j - 1) + period
  BY <1>1
<1> QED BY <1>1, <1>3, <1>4

OnTime ==
  \A main \in known : \A i \in 2..Len(main) :
    /\ Genesis.options.timestamp_period # 0
    /\ main[i].timestamp % Genesis.options.timestamp_period = 0
TimeInv == IInv /\ OnTime /\ OneBlockPerPeriod

LEMMA InitTimeInv == Init => TimeInv
<1> SUFFICES ASSUME Init PROVE TimeInv
  OBVIOUS
<1>1. known = {<<Genesis>>} /\ Len(<<Genesis>>) = 1
  BY DEF Init
<1>2. 2..1 = {}
  OBVIOUS
<1> QED BY <1>1, <1>2, InitIInv DEF TimeInv, OnTime, OneBlockPerPeriod

LEMMA NextTimeInv == TimeInv /\ [Next]_known => TimeInv'
<1> SUFFICES ASSUME TimeInv, [Next]_known PROVE TimeInv'
  OBVIOUS
<1> DEFINE period == Genesis.options.timestamp_period
<1>1. IInv'
  BY NextIInv DEF TimeInv
<1>2. CASE UNCHANGED known
  BY <1>1, <1>2 DEF TimeInv, OnTime, OneBlockPerPeriod
<1>3. CASE Next
  <2>1. PICK prev \in known, block \in MainBlock :
          Valid(prev, block) /\ known' = known \cup {Extended(prev, block)}
    BY <1>3, StepExtends DEF TimeInv
  <2> DEFINE new == Extended(prev, block)
  <2>2. prev \in Chains
    BY DEF TimeInv, IInv, TypeOK
  <2>3. /\ Len(new) = Len(prev) + 1 /\ Tip(new) = block /\ new \in Chains
        /\ \A i \in DOMAIN prev : new[i] = prev[i]
    BY <2>2, ExtendedChain
  <2>4. /\ DOMAIN prev = 1..Len(prev) /\ Len(prev) \in Nat \ {0}
        /\ new[Len(prev) + 1] = block /\ Tip(prev) = prev[Len(prev)]
    BY <2>2, <2>3, TipIsLast DEF Tip
  <2>5. /\ period # 0 /\ block.timestamp % period = 0 /\ period \in Nat
        /\ block.timestamp > Tip(prev).timestamp
    BY <2>1, KnownIsNumbered, SelectionAssumption
       DEF TimeInv, Valid, WellFormed, IsMultiple
  <2>6. \A i \in DOMAIN prev : prev[i].timestamp \in Int
    <3>1. \A i \in DOMAIN prev : prev[i] \in MainBlock
      BY <2>2 DEF Chains
    <3>2. \A b \in MainBlock : b.timestamp \in Int
      BY SelectionAssumption DEF MainBlock
    <3> QED BY <3>1, <3>2
  <2>7. block.timestamp \in Int
    BY SelectionAssumption DEF MainBlock
  <2>8. ASSUME NEW i \in 2..Len(new)
        PROVE  period # 0 /\ new[i].timestamp % period = 0
    <3>1. CASE i = Len(prev) + 1
      BY <3>1, <2>4, <2>5
    <3>2. CASE i \in 2..Len(prev)
      BY <3>2, <2>3, <2>4, <2>5 DEF TimeInv, OnTime
    <3> QED BY <3>1, <3>2, <2>3, <2>4
  <2>9. OnTime'
    BY <2>1, <2>8 DEF OnTime, TimeInv
  <2>10. ASSUME NEW i \in 2..Len(new), NEW j \in 2..Len(new), i <= j
         PROVE  new[j].timestamp - new[i].timestamp >= period * (j - i)
    <3>1. CASE j \in 2..Len(prev)
      <4>1. i \in 2..Len(prev) /\ i \in DOMAIN prev /\ j \in DOMAIN prev
        BY <2>4, <3>1, <2>10
      <4> QED BY <2>3, <2>10, <3>1, <4>1 DEF TimeInv, OneBlockPerPeriod
    <3>2. CASE j = Len(prev) + 1 /\ i = j
      <4>1. period * (j - i) = 0 /\ new[j] = block
        BY <3>2, <2>4, <2>5
      <4> QED BY <3>2, <4>1, <2>7
    <3>3. CASE j = Len(prev) + 1 /\ i < j
      <4> DEFINE last == Len(prev)
      <4>1. i \in 2..last /\ last \in 2..last /\ i <= last /\ i \in DOMAIN prev
        BY <2>4, <3>3
      <4>2. prev[last].timestamp - prev[i].timestamp >= period * (last - i)
        BY <4>1 DEF TimeInv, OneBlockPerPeriod
      <4>3. prev[last].timestamp % period = 0
        BY <4>1 DEF TimeInv, OnTime
      <4>4. block.timestamp - prev[last].timestamp >= period
        BY <2>4, <2>5, <2>6, <2>7, <4>1, <4>3, MultiplesAreApart
      <4>5. period * (j - i) = period * (last - i) + period
        <5>1. j - i = (last - i) + 1
          BY <2>4, <3>3, <4>1
        <5>2. last - i \in Int
          BY <2>4, <4>1
        <5> QED BY <5>1, <5>2, <2>5
      <4>6. new[i] = prev[i] /\ new[j] = block
        BY <2>3, <2>4, <3>3, <4>1
      <4>7. period * (last - i) \in Int
        BY <2>4, <2>5, <4>1
      <4>8. prev[last].timestamp \in Int /\ prev[i].timestamp \in Int
        BY <2>4, <2>6, <4>1
      <4> DEFINE passed == period * (last - i)
                 first == prev[i].timestamp
                 middle == prev[last].timestamp
                 final == block.timestamp
      <4>9. /\ middle - first >= passed /\ final - middle >= period
            /\ passed \in Int /\ first \in Int /\ middle \in Int /\ final \in Int
        BY <2>7, <4>2, <4>4, <4>7, <4>8
      <4> HIDE DEF passed, first, middle, final
      <4>10. final - first >= passed + period
        BY <2>5, <4>9
      <4> QED BY <4>5, <4>6, <4>10 DEF passed, first, final
    <3> QED BY <3>1, <3>2, <3>3, <2>3, <2>4, <2>10
  <2>11. OneBlockPerPeriod'
    BY <2>1, <2>10 DEF OneBlockPerPeriod, TimeInv
  <2> QED BY <1>1, <2>9, <2>11 DEF TimeInv
<1> QED BY <1>2, <1>3

(* Between two blocks of a chain at least the period of timestamps passes   *)
(* for each block.                                                          *)
THEOREM BlocksTakeTime == Spec => []OneBlockPerPeriod
<1>1. TimeInv => OneBlockPerPeriod
  BY DEF TimeInv
<1> QED BY <1>1, InitTimeInv, NextTimeInv, PTL DEF Spec

(***************************************************************************)
(* What is proposed is accepted.                                           *)
(***************************************************************************)
LEMMA AllDrawnCount ==
  ASSUME IInv, NEW prev \in known, NEW signatures,
         {signatures[j] : j \in DOMAIN signatures}
           = {Signers(prev)[i] : i \in DOMAIN Signers(prev)}
  PROVE  Count(prev, signatures) = Genesis.options.main_block_signers
<1> DEFINE needed_signers == Signers(prev)
           n == Genesis.options.main_block_signers
           found == {i \in DOMAIN needed_signers :
                       \E j \in DOMAIN signatures : signatures[j] = needed_signers[i]}
<1>1. n \in Nat /\ DOMAIN needed_signers = 1..n
  BY KnownIsNumbered, SelectionAssumption DEF Signers
<1> HIDE DEF n
<1>2. ASSUME NEW i \in DOMAIN needed_signers
      PROVE  \E j \in DOMAIN signatures : signatures[j] = needed_signers[i]
  <2>1. needed_signers[i] \in {signatures[j] : j \in DOMAIN signatures}
    OBVIOUS
  <2> QED BY <2>1
<1>3. found = 1..n
  BY <1>1, <1>2
<1>4. Cardinality(1..n) = n
  BY <1>1, FS_Interval
<1>5. Count(prev, signatures) = Cardinality(found)
  BY DEF Count
<1> QED BY <1>3, <1>4, <1>5 DEF n

LEMMA SignedProposals == IInv => ProposalsAreAccepted
<1> SUFFICES ASSUME IInv, NEW prev \in known, NEW timestamp \in Timestamps,
                    NEW tree \in Trees
             PROVE  LET body == NextBody(prev, timestamp, tree)
                        drawn == {Signers(prev)[i] : i \in DOMAIN Signers(prev)}
                        all_sign == {signatures \in SignatureLists :
                                       /\ Signed(signatures)
                                       /\ {signatures[i] : i \in DOMAIN signatures}
                                            = drawn}
                    IN /\ CanPropose(prev, timestamp, tree) <=> Valid(prev, body)
                       /\ (/\ CanPropose(prev, timestamp, tree)
                           /\ HasMinerAndSigners(prev)
                           /\ Genesis.options.main_block_signatures_required
                                <= Genesis.options.main_block_signers)
                          => \A signatures \in all_sign :
                               Endorsed(prev, Sign(body, signatures, Miner(prev)))
  BY DEF ProposalsAreAccepted
<1> DEFINE body == NextBody(prev, timestamp, tree)
           drawn == {Signers(prev)[i] : i \in DOMAIN Signers(prev)}
<1>1. /\ body.version = Tip(prev).version + 1 /\ body.timestamp = timestamp
      /\ body.tree = tree /\ body.options = Tip(prev).options
  BY DEF NextBody
<1>2. CanPropose(prev, timestamp, tree) <=> Valid(prev, body)
  BY <1>1 DEF CanPropose, Valid, WellFormed
<1>3. ASSUME CanPropose(prev, timestamp, tree), HasMinerAndSigners(prev),
             Genesis.options.main_block_signatures_required
               <= Genesis.options.main_block_signers,
             NEW signatures, Signed(signatures),
             {signatures[i] : i \in DOMAIN signatures} = drawn
      PROVE  Endorsed(prev, Sign(body, signatures, Miner(prev)))
  <2> DEFINE block == Sign(body, signatures, Miner(prev))
  <2>1. /\ block.version = body.version /\ block.timestamp = body.timestamp
        /\ block.options = body.options /\ block.signatures = signatures
        /\ block.signature = Miner(prev)
    BY DEF Sign
  <2>2. WellFormed(prev, block)
    BY <1>2, <1>3, <2>1 DEF Valid, WellFormed
  <2>3. Count(prev, signatures) = Genesis.options.main_block_signers
    BY <1>3, AllDrawnCount
  <2>4. Count(prev, signatures) >= block.options.main_block_signatures_required
    BY <1>1, <1>3, <2>1, <2>3, KnownIsNumbered, SelectionAssumption
  <2> QED BY <1>3, <2>1, <2>2, <2>4 DEF Endorsed
<1> QED BY <1>2, <1>3

(* A body is proposed exactly when it is valid, and is endorsed when all of *)
(* those drawn sign it, even if some were drawn more than once.             *)
THEOREM ProposalsPass == Spec => []ProposalsAreAccepted
BY SignedProposals, Invariance, PTL
=============================================================================
