------------------------------- MODULE HashOps -------------------------------
(***************************************************************************)
(* network/hash_ops.rs and peer_tracker.rs: at which of its peers a node   *)
(* expects what has a hash code to be stored.  Nodes learn of peers at     *)
(* different times, and so choose different ones.                          *)
(*                                                                         *)
(* A name with an underscore is a faulty variant of the definition after   *)
(* it, which the checks put in its place.                                  *)
(***************************************************************************)
EXTENDS Integers, FiniteSets

CONSTANTS
  Nodes,     \* the nodes of the network that have a PeerTracker
  Pids,      \* the peers that there are
  Bits,      \* the length of a hash code, 256 in the code
  PidHash,   \* the hash code of each peer
  Copies     \* the number of peers chosen, 30 in the code

HashCodes == [1..Bits -> 0..1]

ASSUME HashOpsAssumption ==
  /\ Bits \in Nat
  /\ Copies \in Nat \ {0}
  /\ IsFiniteSet(Pids)
  /\ PidHash \in [Pids -> HashCodes]
  /\ \A p, q \in Pids : PidHash[p] = PidHash[q] => p = q

VARIABLE peers  \* of each node, those that its PeerTracker has

XorHashCodes(a, b) == [i \in 1..Bits |-> (a[i] + b[i]) % 2]

(* The order of hash codes: arrays are compared at the first difference.    *)
Less(a, b) == \E i \in 1..Bits : a[i] < b[i] /\ \A j \in 1..(i - 1) : a[j] = b[j]

(* Sorting by the distance to code, truncated.                              *)
Closer(p, q, code) ==
  Less(XorHashCodes(PidHash[p], code), XorHashCodes(PidHash[q], code))
HashToStoringPeers_NotClosest(known, code) ==
  {p \in known : Cardinality({q \in known : Closer(q, p, code)}) \in 1..Copies}
HashToStoringPeers(known, code) ==
  {p \in known : Cardinality({q \in known : Closer(q, p, code)}) < Copies}

AddPeers(n, new_peers) == peers' = [peers EXCEPT ![n] = @ \cup new_peers]

PeersInit == peers = [n \in Nodes |-> {}]
PeersNext == \E n \in Nodes, new_peers \in SUBSET Pids : AddPeers(n, new_peers)
PeersSpec == PeersInit /\ [][PeersNext]_peers
-----------------------------------------------------------------------------
PeersTypeOK == peers \in [Nodes -> SUBSET Pids]

(* "The peers who are most likely to be storing a data corresponding to a   *)
(* particular hash code" (hash_ops.rs:39-40): two nodes that have a peer in *)
(* common agree on one of them at least, for every code, as long as neither *)
(* has learned of Copies or more peers that the other has not.              *)
LookupsMeet ==
  \A m, n \in Nodes, code \in HashCodes :
    (/\ peers[m] \cap peers[n] # {}
     /\ Cardinality(peers[m] \ peers[n]) < Copies
     /\ Cardinality(peers[n] \ peers[m]) < Copies)
    => HashToStoringPeers(peers[m], code) \cap HashToStoringPeers(peers[n], code) # {}

(* Learning of fewer than Copies new peers never moves everything that has  *)
(* some code to other peers: one at least of those chosen before is chosen  *)
(* again.                                                                   *)
StillFound ==
  [][\A n \in Nodes, code \in HashCodes :
       (peers[n] # {} /\ Cardinality(peers'[n] \ peers[n]) < Copies)
       => HashToStoringPeers(peers[n], code)
            \cap HashToStoringPeers(peers'[n], code) # {}]_peers
=============================================================================
