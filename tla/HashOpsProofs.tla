---------------------------- MODULE HashOpsProofs ----------------------------
(***************************************************************************)
(* Theorems about HashOps, for all nodes, peers, hash codes and numbers of *)
(* copies.                                                                 *)
(***************************************************************************)
EXTENDS HashOps, FiniteSetTheorems, WellFoundedInduction, TLAPS

(***************************************************************************)
(* Distances to a code are distinct and in a strict order.                 *)
(***************************************************************************)
LEMMA LessIsStrict ==
  ASSUME NEW a \in HashCodes, NEW b \in HashCodes, NEW c \in HashCodes
  PROVE  /\ ~Less(a, a)
         /\ Less(a, b) /\ Less(b, c) => Less(a, c)
<1>1. /\ a \in [1..Bits -> 0..1] /\ b \in [1..Bits -> 0..1] /\ c \in [1..Bits -> 0..1]
      /\ Bits \in Nat
  BY HashOpsAssumption DEF HashCodes
<1>2. ~Less(a, a)
  BY <1>1 DEF Less
<1>3. ASSUME Less(a, b), Less(b, c) PROVE Less(a, c)
  <2>1. PICK i \in 1..Bits : a[i] < b[i] /\ \A j \in 1..(i - 1) : a[j] = b[j]
    BY <1>3 DEF Less
  <2>2. PICK k \in 1..Bits : b[k] < c[k] /\ \A j \in 1..(k - 1) : b[j] = c[j]
    BY <1>3 DEF Less
  <2>3. CASE i < k
    <3>1. a[i] < c[i] /\ \A j \in 1..(i - 1) : a[j] = c[j]
      BY <1>1, <2>1, <2>2, <2>3
    <3> QED BY <3>1 DEF Less
  <2>4. CASE k < i
    <3>1. a[k] < c[k] /\ \A j \in 1..(k - 1) : a[j] = c[j]
      BY <1>1, <2>1, <2>2, <2>4
    <3> QED BY <3>1 DEF Less
  <2>5. CASE i = k
    <3>1. a[i] < c[i] /\ \A j \in 1..(i - 1) : a[j] = c[j]
      BY <1>1, <2>1, <2>2, <2>5
    <3> QED BY <3>1 DEF Less
  <2> QED BY <1>1, <2>3, <2>4, <2>5
<1> QED BY <1>2, <1>3

LEMMA DistanceIsCode ==
  ASSUME NEW a \in HashCodes, NEW b \in HashCodes
  PROVE  XorHashCodes(a, b) \in HashCodes
<1>1. \A i \in 1..Bits : a[i] \in 0..1 /\ b[i] \in 0..1
  BY DEF HashCodes
<1>2. \A i \in 1..Bits : (a[i] + b[i]) % 2 \in 0..1
  BY <1>1
<1> QED BY <1>2 DEF XorHashCodes, HashCodes

LEMMA CloserIsStrict ==
  ASSUME NEW code \in HashCodes, NEW p \in Pids, NEW q \in Pids, NEW r \in Pids
  PROVE  /\ ~Closer(p, p, code)
         /\ Closer(p, q, code) /\ Closer(q, r, code) => Closer(p, r, code)
<1>1. \A x \in Pids : XorHashCodes(PidHash[x], code) \in HashCodes
  BY DistanceIsCode, HashOpsAssumption
<1> QED BY <1>1, LessIsStrict DEF Closer

(***************************************************************************)
(* Of some peers, there is one to which no other is closer: one for which  *)
(* the fewest are, as those closer than a closer one are fewer still.      *)
(***************************************************************************)
LEMMA ClosestExists ==
  ASSUME NEW code \in HashCodes, NEW S \in SUBSET Pids, S # {}
  PROVE  \E p \in S : \A q \in S : ~Closer(q, p, code)
<1> DEFINE Ahead(p) == {q \in S : Closer(q, p, code)}
           counts == {n \in Nat : \E p \in S : n = Cardinality(Ahead(p))}
           R == {r \in Nat \X Nat : r[1] < r[2]}
<1>1. IsFiniteSet(S)
  BY FS_Subset, HashOpsAssumption
<1>2. \A p \in S : IsFiniteSet(Ahead(p)) /\ Cardinality(Ahead(p)) \in Nat
  <2>1. \A p \in S : Ahead(p) \in SUBSET S
    OBVIOUS
  <2>2. \A p \in S : IsFiniteSet(Ahead(p))
    BY <1>1, <2>1, FS_Subset
  <2> QED BY <2>2, FS_CardinalityType
<1>3. counts \subseteq Nat /\ counts # {}
  BY <1>2
<1>4. \E n \in counts : \A m \in counts : ~(m < n)
  <2>1. IsWellFoundedOn(R, Nat)
    BY NatLessThanWellFounded DEF OpToRel
  <2> HIDE DEF counts
  <2>2. \E n \in counts : \A m \in counts : ~(<<m, n>> \in R)
    BY <1>3, <2>1, WFMin
  <2> QED BY <1>3, <2>2
<1>5. PICK p \in S : \A m \in counts : ~(m < Cardinality(Ahead(p)))
  BY <1>4
<1>6. ASSUME NEW q \in S, Closer(q, p, code) PROVE FALSE
  <2>1. Ahead(q) \in SUBSET Ahead(p)
    BY <1>6, CloserIsStrict
  <2>2. q \in Ahead(p) /\ q \notin Ahead(q)
    BY <1>6, CloserIsStrict
  <2>3. Cardinality(Ahead(q)) < Cardinality(Ahead(p))
    <3> HIDE DEF Ahead
    <3> QED BY <1>2, <2>1, <2>2, FS_Subset
  <2>4. Cardinality(Ahead(q)) \in counts
    BY <1>2
  <2> QED BY <1>5, <2>3, <2>4
<1> QED BY <1>6

(***************************************************************************)
(* A peer that two nodes have in common, and to which no other such peer   *)
(* is closer, is chosen by each that has few peers that the other has not. *)
(***************************************************************************)
LEMMA CommonIsChosen ==
  ASSUME NEW code \in HashCodes, NEW known \in SUBSET Pids, NEW other \in SUBSET Pids,
         NEW p \in known \cap other,
         \A q \in known \cap other : ~Closer(q, p, code),
         Cardinality(known \ other) < Copies
  PROVE  p \in HashToStoringPeers(known, code)
<1> DEFINE ahead == {q \in known : Closer(q, p, code)}
<1>1. ahead \in SUBSET (known \ other)
  OBVIOUS
<1>2. IsFiniteSet(known \ other)
  BY FS_Subset, HashOpsAssumption
<1>3. Cardinality(ahead) <= Cardinality(known \ other)
  BY <1>1, <1>2, FS_Subset
<1>4. /\ Cardinality(ahead) \in Nat /\ Cardinality(known \ other) \in Nat
      /\ Copies \in Nat
  BY <1>1, <1>2, FS_Subset, FS_CardinalityType, HashOpsAssumption
<1>5. Cardinality(ahead) < Copies
  BY <1>3, <1>4
<1> QED BY <1>5 DEF HashToStoringPeers

LEMMA ChoicesMeet ==
  ASSUME NEW code \in HashCodes, NEW known \in SUBSET Pids, NEW other \in SUBSET Pids,
         known \cap other # {},
         Cardinality(known \ other) < Copies, Cardinality(other \ known) < Copies
  PROVE  HashToStoringPeers(known, code) \cap HashToStoringPeers(other, code) # {}
<1>1. PICK p \in known \cap other : \A q \in known \cap other : ~Closer(q, p, code)
  BY ClosestExists
<1>2. p \in HashToStoringPeers(known, code)
  BY <1>1, CommonIsChosen
<1>3. other \cap known = known \cap other
  OBVIOUS
<1>4. p \in HashToStoringPeers(other, code)
  BY <1>1, <1>3, CommonIsChosen
<1> QED BY <1>2, <1>4
-----------------------------------------------------------------------------
(* What PeerTrackers have are sets of peers.                                *)
THEOREM TypeCorrect == PeersSpec => []PeersTypeOK
<1>1. PeersInit => PeersTypeOK
  BY DEF PeersInit, PeersTypeOK
<1>2. PeersTypeOK /\ [PeersNext]_peers => PeersTypeOK'
  BY DEF PeersTypeOK, PeersNext, AddPeers
<1> QED BY <1>1, <1>2, PTL DEF PeersSpec

(* What one node would store, another one looks for at one at least of the  *)
(* same peers, unless what they know differs by Copies peers or more.       *)
THEOREM NodesMeet == PeersSpec => []LookupsMeet
<1>1. PeersTypeOK => LookupsMeet
  BY ChoicesMeet DEF PeersTypeOK, LookupsMeet
<1> QED BY <1>1, TypeCorrect, PTL

(* Learning of fewer than Copies new peers keeps one at least of the peers  *)
(* chosen.                                                                  *)
THEOREM LearningKeepsPeers == PeersSpec => StillFound
<1>1. PeersTypeOK /\ PeersNext =>
        \A n \in Nodes, code \in HashCodes :
          (peers[n] # {} /\ Cardinality(peers'[n] \ peers[n]) < Copies)
          => HashToStoringPeers(peers[n], code)
               \cap HashToStoringPeers(peers'[n], code) # {}
  <2> SUFFICES ASSUME PeersTypeOK, PeersNext, NEW n \in Nodes, NEW code \in HashCodes,
                      peers[n] # {}, Cardinality(peers'[n] \ peers[n]) < Copies
               PROVE  HashToStoringPeers(peers[n], code)
                        \cap HashToStoringPeers(peers'[n], code) # {}
    OBVIOUS
  <2>1. peers[n] \in SUBSET Pids /\ peers'[n] \in SUBSET Pids /\ peers[n] \subseteq peers'[n]
    BY DEF PeersTypeOK, PeersNext, AddPeers
  <2>2. peers[n] \ peers'[n] = {} /\ peers[n] \cap peers'[n] # {}
    BY <2>1
  <2>3. Cardinality(peers[n] \ peers'[n]) < Copies
    BY <2>2, FS_EmptySet, HashOpsAssumption
  <2> QED BY <2>1, <2>2, <2>3, ChoicesMeet
<1>2. PeersTypeOK /\ [PeersNext]_peers =>
        [\A n \in Nodes, code \in HashCodes :
          (peers[n] # {} /\ Cardinality(peers'[n] \ peers[n]) < Copies)
          => HashToStoringPeers(peers[n], code)
               \cap HashToStoringPeers(peers'[n], code) # {}]_peers
  BY <1>1
<1> QED BY <1>2, TypeCorrect, PTL DEF PeersSpec, StillFound
=============================================================================
