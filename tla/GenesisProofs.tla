--------------------------- MODULE GenesisProofs ---------------------------
(***************************************************************************)
(* Theorems of Genesis, for every set of accounts and stakes and every     *)
(* length of a path: what the tree of the genesis block is after any       *)
(* number of insertions.                                                   *)
(*                                                                         *)
(* The tree is a member of a set of nodes that fit together.  What is      *)
(* below a node is found by induction from the accounts up; that an        *)
(* insertion keeps the nodes fitting, and adds one account, is proved by   *)
(* induction on the length of its path, as in DataTreeProofs.              *)
(***************************************************************************)
EXTENDS Genesis, FiniteSetTheorems, TLAPS

Trees == INSTANCE RadixTreeProofs WITH NewNode <- Replace

(* What is proved of Trees holds of Tree, whose definitions are the same.   *)
LEMMA SameNodeAt ==
  ASSUME NEW node, NEW path
  PROVE  Tree!NodeAt(node, path) = Trees!NodeAt(node, path)
BY ZenonT(200) DEF Tree!NodeAt, Trees!NodeAt, Tree!FollowPath, Trees!FollowPath,
       Tree!AfterTurns, Trees!AfterTurns, Tree!Turn, Trees!Turn, Tree!At, Trees!At,
       Tree!GoesOn, Trees!GoesOn, Tree!Drop, Trees!Drop, Tree!IsPrefix, Trees!IsPrefix

LEMMA SameInsert ==
  ASSUME NEW node, NEW path, NEW value
  PROVE  Tree!Insert(node, path, value) = Trees!Insert(node, path, value)
BY ZenonT(200) DEF Tree!Insert, Trees!Insert, Tree!ResultOf, Trees!ResultOf,
       Tree!CallsWithin, Trees!CallsWithin, Tree!InnerCall, Trees!InnerCall,
       Tree!Returns, Trees!Returns, Tree!InsertChild, Trees!InsertChild,
       Tree!CallsAgain, Trees!CallsAgain, Tree!ChildOf, Trees!ChildOf,
       Tree!SharedLength, Trees!SharedLength, Tree!TakesEdge, Trees!TakesEdge,
       Tree!LongestPrefixLength, Trees!LongestPrefixLength,
       Tree!WithChild, Trees!WithChild, Tree!Edge, Trees!Edge, Tree!Drop, Trees!Drop,
       Tree!IsPrefix, Trees!IsPrefix, Tree!Max, Trees!Max

LEMMA SingleChildLaw == Trees!SingleChildLaw
BY DEF Trees!SingleChildLaw, FromSingleChild, EmptyNode, Trees!SingleChild, Trees!Edge

LEMMA SameFinite == ASSUME NEW S PROVE IsFiniteSet(S) <=> Trees!IsFiniteSet(S)
BY DEF IsFiniteSet, Trees!IsFiniteSet

(* The sum of the values of f for the elements of S.                        *)
SumOf(f, S) == Trees!SumOf(f, S)

LEMMA SumInNat ==
  ASSUME NEW f, NEW S, IsFiniteSet(S), \A x \in S : f[x] \in Nat
  PROVE  SumOf(f, S) \in Nat
BY SameFinite, Trees!SumInNat DEF SumOf

-----------------------------------------------------------------------------
(***************************************************************************)
(* Nodes.                                                                  *)
(***************************************************************************)
IsNode(n) ==
  /\ n = [path |-> n.path, children |-> n.children, last_main |-> n.last_main,
          account |-> n.account, new_action |-> n.new_action, prize |-> n.prize,
          signatures |-> n.signatures, stats |-> n.stats, failed |-> n.failed]
  /\ n.stats = [stake |-> n.stats.stake, fee |-> n.stats.fee,
                new_nodes |-> n.stats.new_nodes, prize |-> n.stats.prize]

AccountNodes ==
  {InitializeAccountNode(path, stake) : path \in AccountPaths, stake \in Stakes}

StakesOf(n) == [d \in Digits(n) |-> Child(n, d).stats.stake]

(* A node above the accounts: its path is that of its children without the  *)
(* edge, and its stake is the sum of theirs.                                *)
Leads(n, d) ==
  /\ d \in Nat
  /\ n.children[d].suffix \in Seq(Nat)
  /\ Child(n, d).path = n.path \o (<<d>> \o n.children[d].suffix)
IsInner(n) ==
  /\ IsNode(n)
  /\ n.path \in Seq(Nat) /\ Len(n.path) < PathLength
  /\ ~n.failed /\ n.account = None
  /\ IsFiniteSet(Digits(n)) /\ \A d \in Digits(n) : Leads(n, d)
  /\ n.stats.stake \in Nat /\ n.stats.stake = SumOf(StakesOf(n), Digits(n))
Fits(n) == n \in AccountNodes \/ IsInner(n)

(* A node above the accounts leads at least in two directions.              *)
Branches(n) == n \in AccountNodes \/ \E c, d \in Digits(n) : c # d

(* A tree, as a member of a set of nodes that has the children of each.     *)
Closed(U) ==
  \A n \in U : /\ Fits(n)
               /\ \A d \in Digits(n) : Child(n, d) \in U /\ Branches(Child(n, d))
Sound(t) == \E U : t \in U /\ Closed(U)

LEMMA AccountNodeFacts ==
  ASSUME NEW n \in AccountNodes
  PROVE  /\ IsNode(n) /\ ~n.failed
         /\ n.path \in AccountPaths /\ n.path \in Seq(Nat) /\ Len(n.path) = PathLength
         /\ Digits(n) = {}
         /\ n.account \in Stakes /\ n.account \in Nat /\ n.stats.stake = n.account
         /\ n = InitializeAccountNode(n.path, n.account)
         /\ n # None /\ n.account # None
<1>1. PICK path \in AccountPaths, stake \in Stakes : n = InitializeAccountNode(path, stake)
  BY DEF AccountNodes
<1>2. path \in Seq(Nat) /\ Len(path) = PathLength /\ stake \in Nat /\ stake # None
  BY GenesisAssumption
<1>3. n = [path |-> path, children |-> <<>>, last_main |-> None, account |-> stake,
           new_action |-> None, prize |-> 0, signatures |-> None,
           stats |-> [stake |-> stake, fee |-> 0, new_nodes |-> DataNodes, prize |-> 0],
           failed |-> FALSE]
  BY <1>1 DEF InitializeAccountNode, EmptyNode
<1>4. PICK none : none = <<>> /\ DOMAIN none = {}
  OBVIOUS
<1>5. n # None
  BY <1>1, NoneAssumption
<1>6. n.path = path /\ n.account = stake /\ n.children = none /\ ~n.failed
  BY <1>3, <1>4
<1>7. n.stats.stake = stake /\ IsNode(n)
  BY <1>3 DEF IsNode
<1>8. Digits(n) = {}
  BY <1>4, <1>6 DEF Digits
<1>9. QED
  BY <1>1, <1>2, <1>5, <1>6, <1>7, <1>8

LEMMA FittingNode ==
  ASSUME NEW n, Fits(n)
  PROVE  /\ IsNode(n) /\ ~n.failed
         /\ n.path \in Seq(Nat) /\ Len(n.path) \in Nat /\ Len(n.path) <= PathLength
         /\ n.stats.stake \in Nat
         /\ Len(n.path) = PathLength <=> n \in AccountNodes
         /\ Len(n.path) < PathLength <=> IsInner(n)
<1>0. PathLength \in Nat
  BY GenesisAssumption
<1>1. CASE n \in AccountNodes
  BY <1>0, <1>1, AccountNodeFacts DEF IsInner
<1>2. CASE IsInner(n)
  <2>1. n \notin AccountNodes
    BY <1>0, <1>2, AccountNodeFacts DEF IsInner
  <2>2. QED
    BY <1>0, <1>2, <2>1 DEF IsInner
<1>3. QED
  BY <1>1, <1>2 DEF Fits

(* The sums that replace_children and stake_indexed_account compute.        *)
LEMMA StakesAreSummed ==
  ASSUME NEW node, NEW S, S \subseteq Digits(node)
  PROVE  SumOver(S, LAMBDA d : Child(node, d).stats.stake) = SumOf(StakesOf(node), S)
<1> DEFINE f == StakesOf(node)
           P(it) == it = [s \in SUBSET S |->
                            IF s = {} THEN 0
                            ELSE Child(node, Trees!First(s)).stats.stake
                                   + it[s \ {Trees!First(s)}]]
<1>1. SumOver(S, LAMBDA d : Child(node, d).stats.stake) = (CHOOSE it : P(it))[S]
  BY DEF SumOver, MapThenSumSet, MapThenFoldSet, Trees!First
<1>2. ASSUME NEW it
      PROVE  P(it) <=> Trees!IsSum(f, S, it)
  <2>1. ASSUME NEW s \in SUBSET S, s # {}
        PROVE  Child(node, Trees!First(s)).stats.stake = f[Trees!First(s)]
    BY <2>1, Trees!FirstIsElement DEF StakesOf
  <2>2. [s \in SUBSET S |-> IF s = {} THEN 0
                            ELSE Child(node, Trees!First(s)).stats.stake
                                   + it[s \ {Trees!First(s)}]]
        = [s \in SUBSET S |-> IF s = {} THEN 0
                              ELSE f[Trees!First(s)] + it[s \ {Trees!First(s)}]]
    <3> HIDE DEF f
    <3>1. QED
      BY <2>1
  <2>3. QED
    BY <2>2 DEF Trees!IsSum
<1> HIDE DEF P, f
<1>3. (CHOOSE it : P(it)) = (CHOOSE it : Trees!IsSum(f, S, it))
  BY <1>2
<1>4. QED
  BY <1>1, <1>3, Trees!SumIsChosen DEF SumOf, f

(* A node to which replace_children gave new children.                      *)
Replaced(new, node, children) ==
  /\ IsNode(new)
  /\ new.path = node.path /\ new.account = node.account
  /\ new.children = children
  /\ new.stats.stake = SumOf(StakesOf(new), Digits(new))
Fails(new, node, children) ==
  \E d \in Digits(new) :
    \/ Child(new, d).failed
    \/ Child(new, d).path # node.path \o <<d>> \o children[d].suffix

LEMMA JoinFacts ==
  ASSUME NEW p \in Seq(Nat), NEW q \in Seq(Nat), NEW path, path = p \o q
  PROVE  /\ path \in Seq(Nat) /\ Len(path) = Len(p) + Len(q)
         /\ \A i \in 1..Len(p) : path[i] = p[i]
         /\ \A i \in 1..Len(q) : path[Len(p) + i] = q[i]
OBVIOUS

LEMMA Regroup ==
  ASSUME NEW p \in Seq(Nat), NEW q \in Seq(Nat), NEW r \in Seq(Nat)
  PROVE  p \o (q \o r) = p \o q \o r
<1>1. PICK left, right : left = p \o (q \o r) /\ right = (p \o q) \o r
  OBVIOUS
<1>2. \A s, t \in Seq(Nat) : s \o t \in Seq(Nat) /\ Len(s \o t) = Len(s) + Len(t)
  OBVIOUS
<1>3. /\ left \in Seq(Nat) /\ Len(left) = Len(p) + (Len(q) + Len(r))
      /\ right \in Seq(Nat) /\ Len(right) = (Len(p) + Len(q)) + Len(r)
  BY ONLY <1>1, <1>2
<1>4. Len(p) \in Nat /\ Len(q) \in Nat /\ Len(r) \in Nat
  OBVIOUS
<1>5. ASSUME NEW i \in 1..Len(left)
      PROVE  left[i] = right[i]
  BY <1>1, <1>3, <1>4
<1>6. Len(left) = Len(right)
  BY <1>3, <1>4
<1>7. left = right
  BY <1>3, <1>5, <1>6, Trees!EqualPaths
<1>8. QED
  BY <1>1, <1>7

LEMMA ReplacedNode ==
  ASSUME NEW node, IsNode(node), NEW children, NEW new, new = ReplaceChildren(node, children)
  PROVE  /\ Replaced(new, node, children)
         /\ new.failed => node.failed \/ Fails(new, node, children)
<1> DEFINE mid == [node EXCEPT !.children = children, !.signatures = None]
<1>1. PICK m : m = mid
  OBVIOUS
<1>2. /\ m = [path |-> node.path, children |-> children, last_main |-> node.last_main,
              account |-> node.account, new_action |-> node.new_action,
              prize |-> node.prize, signatures |-> None, stats |-> node.stats,
              failed |-> node.failed]
      /\ m.children = children
  BY <1>1 DEF IsNode
<1> DEFINE recent == {d \in Digits(m) : Child(m, d).last_main = node.last_main}
           total == SumOver(Digits(m), LAMBDA d : Child(m, d).stats.stake)
           fee == SumOver(recent, LAMBDA d : Child(m, d).stats.fee)
           prize == node.prize + SumOver(recent, LAMBDA d : Child(m, d).stats.prize)
           nodes == 1 + SumOver(recent, LAMBDA d : Child(m, d).stats.new_nodes)
           stats == [stake |-> total, fee |-> fee, prize |-> prize, new_nodes |-> nodes]
           fails == \E d \in Digits(m) :
                      \/ Child(m, d).failed
                      \/ Child(m, d).path # node.path \o <<d>> \o children[d].suffix
<1>3. new = [m EXCEPT !.stats = stats, !.failed = @ \/ fails]
  BY <1>1 DEF ReplaceChildren
<1>4. PICK failed : failed = (m.failed \/ fails)
  OBVIOUS
<1>5. stats = [stake |-> stats.stake, fee |-> stats.fee,
               new_nodes |-> stats.new_nodes, prize |-> stats.prize]
  <2> HIDE DEF total, fee, prize, nodes
  <2>1. QED
    OBVIOUS
<1>6. stats.stake = SumOf(StakesOf(m), Digits(m))
  <2>1. total = SumOf(StakesOf(m), Digits(m))
    BY StakesAreSummed
  <2> HIDE DEF total, fee, prize, nodes
  <2>2. QED
    BY <2>1
<1> HIDE DEF stats, fails, mid
<1>7. new = [m EXCEPT !.stats = stats, !.failed = failed]
  BY ONLY <1>3, <1>4
<1>8. new = [path |-> node.path, children |-> children, last_main |-> node.last_main,
             account |-> node.account, new_action |-> node.new_action,
             prize |-> node.prize, signatures |-> None, stats |-> stats,
             failed |-> failed]
  BY ONLY <1>2, <1>7
<1>9. /\ new.path = node.path /\ new.account = node.account
      /\ new.children = children /\ new.stats = stats /\ new.failed = failed
  BY ONLY <1>8
<1>10. IsNode(new)
  BY <1>5, <1>8 DEF IsNode
<1>11. /\ Digits(new) = Digits(m) /\ StakesOf(new) = StakesOf(m)
       /\ \A d : Child(new, d) = Child(m, d)
  BY <1>2, <1>9 DEF Digits, StakesOf, Child
<1>12. m.failed = node.failed
  BY <1>2
<1>13. Replaced(new, node, children)
  BY <1>6, <1>9, <1>10, <1>11 DEF Replaced
<1>14. QED
  BY <1>4, <1>9, <1>11, <1>12, <1>13 DEF fails, Fails

(* A child that is put under a node, in place of another one or as a new    *)
(* one.                                                                     *)
PutsUnder(new, node, edge, child) ==
  /\ IsInner(new) /\ new.path = node.path
  /\ Digits(new) = Digits(node) \cup {Head(edge)}
  /\ new.children[Head(edge)].suffix = Tail(edge)
  /\ Child(new, Head(edge)) = child
  /\ \A d \in Digits(node) \ {Head(edge)} : new.children[d] = node.children[d]

LEMMA GraftFits ==
  ASSUME NEW node, IsInner(node), \A d \in Digits(node) : Fits(Child(node, d)),
         NEW edge \in Seq(Nat), edge # <<>>,
         NEW child, Fits(child), child.path = node.path \o edge,
         NEW new, new = Trees!Grafted(node, edge, child)
  PROVE  PutsUnder(new, node, edge, child)
<1>1. PICK children : children = Trees!WithChild(node.children, edge, child)
  OBVIOUS
<1>2. PICK h, t : h = Head(edge) /\ t = Tail(edge)
  OBVIOUS
<1>3. h \in Nat /\ t \in Seq(Nat) /\ edge = <<h>> \o t
  BY <1>2, Trees!TailFacts, Trees!PathIsHeadAndTail
<1>4. /\ DOMAIN children = Digits(node) \cup {h}
      /\ children[h].suffix = t /\ children[h].node = child
      /\ \A d \in Digits(node) \ {h} : children[d] = node.children[d]
  BY <1>1, <1>2 DEF Trees!WithChild, Trees!Edge, Digits
<1>5. new = ReplaceChildren(node, children)
  BY <1>1 DEF Trees!Grafted
<1>6. Replaced(new, node, children)
  BY <1>5, ReplacedNode DEF IsInner
<1>7. /\ IsNode(new) /\ new.path = node.path /\ new.account = node.account
      /\ new.children = children
      /\ new.stats.stake = SumOf(StakesOf(new), Digits(new))
  BY <1>6 DEF Replaced
<1>8. /\ Digits(new) = Digits(node) \cup {h}
      /\ new.children[h].suffix = t /\ Child(new, h) = child
      /\ \A d \in Digits(node) \ {h} :
           new.children[d] = node.children[d] /\ Child(new, d) = Child(node, d)
  BY <1>4, <1>7 DEF Digits, Child
<1>9. ASSUME NEW d \in Digits(new)
      PROVE  Fits(Child(new, d)) /\ Leads(new, d)
  <2>1. CASE d = h
    BY <1>3, <1>7, <1>8, <2>1 DEF Leads
  <2>2. CASE d # h
    BY <1>7, <1>8, <1>9, <2>2 DEF IsInner, Leads
  <2>3. QED
    BY <2>1, <2>2
<1>10. IsFiniteSet(Digits(new))
  BY <1>8, FS_AddElement DEF IsInner
<1>11. new.stats.stake \in Nat
  <2>1. \A d \in Digits(new) : StakesOf(new)[d] \in Nat
    BY <1>9, FittingNode DEF StakesOf
  <2>2. QED
    BY <1>7, <1>10, <2>1, SumInNat
<1>12. ~new.failed
  <2>1. ASSUME NEW d \in Digits(new)
        PROVE  /\ ~Child(new, d).failed
               /\ Child(new, d).path = node.path \o <<d>> \o children[d].suffix
    <3>1. ~Child(new, d).failed
      BY <1>9, FittingNode
    <3>2. /\ d \in Nat /\ children[d].suffix \in Seq(Nat) /\ node.path \in Seq(Nat)
          /\ Child(new, d).path = node.path \o (<<d>> \o children[d].suffix)
      BY <1>7, <1>9 DEF Leads, IsInner
    <3>3. <<d>> \in Seq(Nat)
      BY <3>2
    <3>4. node.path \o (<<d>> \o children[d].suffix)
            = node.path \o <<d>> \o children[d].suffix
      BY ONLY <3>2, <3>3, Regroup
    <3>5. QED
      BY <3>1, <3>2, <3>4
  <2>2. ~node.failed /\ IsNode(node)
    BY DEF IsInner
  <2>3. new.failed => node.failed \/ Fails(new, node, children)
    BY ONLY <1>5, <2>2, ReplacedNode
  <2>4. ~Fails(new, node, children)
    BY <2>1 DEF Fails
  <2>5. QED
    BY ONLY <2>2, <2>3, <2>4
<1>13. IsInner(new)
  <2>1. /\ node.path \in Seq(Nat) /\ Len(node.path) < PathLength
        /\ node.account = None
    BY DEF IsInner
  <2>2. QED
    BY ONLY <1>7, <1>9, <1>10, <1>11, <1>12, <2>1 DEF IsInner
<1>14. QED
  BY ONLY <1>2, <1>7, <1>8, <1>13 DEF PutsUnder

(* A node that is put in the middle of an edge.                             *)
LEMMA SumOfOne ==
  ASSUME NEW f, NEW x, f[x] \in Nat
  PROVE  SumOf(f, {x}) = f[x]
<1>1. Trees!SumOf(f, {}) = 0
  BY Trees!SumOfNone
<1>2. Trees!IsFiniteSet({}) /\ x \notin {} /\ \A y \in {} \cup {x} : f[y] \in Nat
  BY FS_EmptySet, SameFinite
<1>3. Trees!SumOf(f, {} \cup {x}) = f[x] + Trees!SumOf(f, {})
  BY ONLY <1>2, Trees!SumPutsIn
<1>4. {} \cup {x} = {x}
  OBVIOUS
<1>5. Trees!SumOf(f, {} \cup {x}) = Trees!SumOf(f, {x})
  BY ONLY <1>4, Zenon
<1>6. QED
  BY <1>1, <1>3, <1>5 DEF SumOf

LEMMA SuffixOfJoin ==
  ASSUME NEW p \in Seq(Nat), NEW s \in Seq(Nat), NEW path, path = p \o s
  PROVE  /\ IsSuffix(s, path)
         /\ SubSeq(path, 1, Len(path) - Len(s)) = p
<1>1. /\ path \in Seq(Nat) /\ Len(path) = Len(p) + Len(s)
      /\ Len(p) \in Nat /\ Len(s) \in Nat
      /\ \A i \in 1..Len(p) : path[i] = p[i]
      /\ \A i \in 1..Len(s) : path[Len(p) + i] = s[i]
  OBVIOUS
<1>2. SubSeq(path, 1, Len(path) - Len(s)) = p
  <2>1. PICK q : q = SubSeq(path, 1, Len(p))
    OBVIOUS
  <2>2. q \in Seq(Nat) /\ Len(q) = Len(p) /\ \A i \in 1..Len(q) : q[i] = p[i]
    BY <1>1, <2>1
  <2>3. q = p
    BY ONLY <2>2, p \in Seq(Nat), Trees!EqualPaths
  <2>4. Len(path) - Len(s) = Len(p)
    BY <1>1
  <2>5. QED
    BY <2>1, <2>3, <2>4
<1>3. PICK a, b : a = Reverse(s) /\ b = Reverse(path)
  OBVIOUS
<1>4. /\ a \in Seq(Nat) /\ Len(a) = Len(s)
      /\ \A i \in 1..Len(s) : a[i] = s[(Len(s) - i) + 1]
  BY <1>1, <1>3 DEF Reverse
<1>5. /\ b \in Seq(Nat) /\ Len(b) = Len(path)
      /\ \A i \in 1..Len(path) : b[i] = path[(Len(path) - i) + 1]
  BY <1>1, <1>3 DEF Reverse
<1>6. ASSUME NEW i \in 1..Len(s)
      PROVE  a[i] = b[i]
  <2>1. /\ (Len(s) - i) + 1 \in 1..Len(s) /\ i \in 1..Len(path)
        /\ (Len(path) - i) + 1 = Len(p) + ((Len(s) - i) + 1)
    BY <1>1
  <2>2. QED
    BY <1>1, <1>4, <1>5, <2>1
<1>7. Len(a) <= Len(b)
  BY <1>1, <1>4, <1>5
<1>8. SubSeq(a, 1, Len(a)) = SubSeq(b, 1, Len(a))
  BY <1>1, <1>4, <1>5, <1>6, <1>7
<1>9. IsSuffix(s, path)
  BY <1>3, <1>7, <1>8 DEF IsSuffix, IsPrefix
<1>10. QED
  BY <1>2, <1>9

Middle(middle, child, p, s) ==
  /\ IsInner(middle) /\ middle.path = p
  /\ Digits(middle) = {Head(s)}
  /\ middle.children[Head(s)].suffix = Tail(s)
  /\ Child(middle, Head(s)) = child

LEMMA MiddleFits ==
  ASSUME NEW child, Fits(child), NEW p \in Seq(Nat), NEW s \in Seq(Nat), s # <<>>,
         child.path = p \o s, NEW middle, middle = FromSingleChild(s, child)
  PROVE  Middle(middle, child, p, s)
<1>1. PICK h, t : h = Head(s) /\ t = Tail(s)
  OBVIOUS
<1>2. h \in Nat /\ t \in Seq(Nat) /\ s = <<h>> \o t
  BY <1>1, Trees!TailFacts, Trees!PathIsHeadAndTail
<1>3. /\ IsNode(child) /\ ~child.failed /\ child.stats.stake \in Nat
      /\ Len(child.path) <= PathLength
  BY FittingNode
<1>4. SubSeq(child.path, 1, Len(child.path) - Len(s)) = p /\ IsSuffix(s, child.path)
  BY SuffixOfJoin
<1>5. PICK children : children = [d \in {h} |-> [suffix |-> t, node |-> child]]
  OBVIOUS
<1>6. PICK stats : stats = [child.stats EXCEPT !.new_nodes = @ + 1]
  OBVIOUS
<1>7. PICK failed : failed = (child.failed \/ ~IsSuffix(s, child.path))
  OBVIOUS
<1>8. middle = [EmptyNode(p) EXCEPT !.children = children, !.last_main = child.last_main,
                                    !.stats = stats, !.failed = failed]
  BY <1>1, <1>4, <1>5, <1>6, <1>7 DEF FromSingleChild
<1>9. middle = [path |-> p, children |-> children, last_main |-> child.last_main,
                account |-> None, new_action |-> None, prize |-> 0,
                signatures |-> None, stats |-> stats, failed |-> failed]
  BY ONLY <1>8 DEF EmptyNode
<1>10. /\ stats = [stake |-> stats.stake, fee |-> stats.fee,
                   new_nodes |-> stats.new_nodes, prize |-> stats.prize]
       /\ stats.stake = child.stats.stake
  BY <1>3, <1>6 DEF IsNode
<1>11. /\ middle.path = p /\ middle.children = children /\ middle.account = None
       /\ middle.stats = stats /\ middle.failed = failed
  BY ONLY <1>9
<1>12. IsNode(middle)
  BY ONLY <1>9, <1>10, <1>11 DEF IsNode
<1>13. /\ Digits(middle) = {h}
       /\ middle.children[h].suffix = t /\ Child(middle, h) = child
  BY <1>5, <1>11 DEF Digits, Child
<1>14. Leads(middle, h)
  BY <1>2, <1>11, <1>13 DEF Leads
<1>15. middle.stats.stake = SumOf(StakesOf(middle), Digits(middle))
  <2>1. StakesOf(middle)[h] = child.stats.stake
    BY <1>13 DEF StakesOf
  <2>2. SumOf(StakesOf(middle), {h}) = StakesOf(middle)[h]
    BY <1>3, <2>1, SumOfOne
  <2>3. QED
    BY <1>10, <1>11, <1>13, <2>1, <2>2
<1>16. Len(p) < PathLength
  <2>1. Len(child.path) = Len(p) + Len(s) /\ Len(s) # 0 /\ Len(s) \in Nat /\ Len(p) \in Nat
    OBVIOUS
  <2>2. PathLength \in Nat
    BY GenesisAssumption
  <2>3. QED
    BY <1>3, <2>1, <2>2
<1>17. IsFiniteSet(Digits(middle))
  BY <1>13, FS_Singleton
<1>18. ~middle.failed
  BY <1>3, <1>4, <1>7, <1>11
<1>19. IsInner(middle)
  BY ONLY <1>3, <1>10, <1>11, <1>12, <1>13, <1>14, <1>15, <1>16, <1>17, <1>18,
          p \in Seq(Nat) DEF IsInner
<1>20. QED
  BY ONLY <1>1, <1>11, <1>13, <1>19 DEF Middle
-----------------------------------------------------------------------------
(***************************************************************************)
(* What is below a node.                                                   *)
(***************************************************************************)
Under(n, t, levels) ==
  /\ Len(n.path) >= Len(t.path) + levels
  /\ \A i \in 1..Len(t.path) : n.path[i] = t.path[i]

LEMMA ChildFacts ==
  ASSUME NEW U, Closed(U), NEW n \in U, NEW d \in Digits(n),
         NEW c, c = Child(n, d)
  PROVE  /\ c \in U /\ Fits(c) /\ Branches(c)
         /\ IsInner(n) /\ d \in Nat
         /\ Under(c, n, 1) /\ c.path[Len(n.path) + 1] = d
<1>1. c \in U /\ Fits(c) /\ Branches(c) /\ Fits(n)
  BY DEF Closed
<1>2. n \notin AccountNodes
  BY AccountNodeFacts
<1>3. IsInner(n)
  BY <1>1, <1>2 DEF Fits
<1>4. PICK suffix : suffix = n.children[d].suffix
  OBVIOUS
<1>5. /\ d \in Nat /\ suffix \in Seq(Nat) /\ n.path \in Seq(Nat)
      /\ c.path = n.path \o (<<d>> \o suffix)
  BY <1>3, <1>4 DEF IsInner, Leads
<1>6. PICK e : e = <<d>> \o suffix
  OBVIOUS
<1>7. e \in Seq(Nat) /\ Len(e) = 1 + Len(suffix) /\ e[1] = d /\ Len(suffix) \in Nat
  BY ONLY <1>5, <1>6
<1>8. /\ Len(c.path) = Len(n.path) + Len(e)
      /\ \A i \in 1..Len(n.path) : c.path[i] = n.path[i]
      /\ \A i \in 1..Len(e) : c.path[Len(n.path) + i] = e[i]
  <2>1. n.path \in Seq(Nat) /\ c.path = n.path \o e
    BY ONLY <1>5, <1>6
  <2>2. PICK p, path : p = n.path /\ path = c.path
    OBVIOUS
  <2>3. p \in Seq(Nat) /\ e \in Seq(Nat) /\ path = p \o e
    BY ONLY <1>7, <2>1, <2>2
  <2>4. Len(path) = Len(p) + Len(e)
    BY ONLY <2>3, JoinFacts
  <2>5. \A i \in 1..Len(p) : path[i] = p[i]
    BY ONLY <2>3, JoinFacts
  <2>6. \A i \in 1..Len(e) : path[Len(p) + i] = e[i]
    BY ONLY <2>3, JoinFacts
  <2>7. QED
    BY ONLY <2>2, <2>4, <2>5, <2>6
<1>9. Len(n.path) \in Nat
  BY <1>5
<1>10. Under(c, n, 1) /\ c.path[Len(n.path) + 1] = d
  BY ONLY <1>7, <1>8, <1>9 DEF Under
<1>11. QED
  BY <1>1, <1>3, <1>5, <1>10

(* Below a node are its children.                                           *)
LEMMA BelowIsChildren ==
  ASSUME NEW U, Closed(U), NEW n \in U
  PROVE  /\ Below(n) = {Child(n, d) : d \in Digits(n)}
         /\ \A c \in Below(n) : c \in U /\ Branches(c) /\ Under(c, n, 1)
<1>1. Fits(n)
  BY DEF Closed
<1>2. Below(n) = {Child(n, d) : d \in Digits(n)}
  <2>1. CASE Len(n.path) = PathLength
    BY <1>1, <2>1, FittingNode, AccountNodeFacts DEF Below
  <2>2. CASE Len(n.path) # PathLength
    BY <2>2 DEF Below
  <2>3. QED
    BY <2>1, <2>2
<1>3. \A d \in Digits(n) : /\ Child(n, d) \in U /\ Branches(Child(n, d))
                           /\ Under(Child(n, d), n, 1)
  BY ChildFacts
<1>4. QED
  BY <1>2, <1>3

LEMMA UnderTransitive ==
  ASSUME NEW t, NEW n, NEW c, NEW i \in Nat, t.path \in Seq(Nat), n.path \in Seq(Nat),
         c.path \in Seq(Nat), Under(n, t, i), Under(c, n, 1)
  PROVE  Under(c, t, i + 1)
<1>1. Len(t.path) \in Nat /\ Len(n.path) \in Nat /\ Len(c.path) \in Nat
  OBVIOUS
<1>2. Len(c.path) >= Len(t.path) + (i + 1)
  <2>1. Len(n.path) >= Len(t.path) + i /\ Len(c.path) >= Len(n.path) + 1
    BY DEF Under
  <2>2. \A a, b, x \in Nat : b >= a + i /\ x >= b + 1 => x >= a + (i + 1)
    OBVIOUS
  <2>3. QED
    BY ONLY <1>1, <2>1, <2>2
<1>3. ASSUME NEW j \in 1..Len(t.path) PROVE c.path[j] = t.path[j]
  <2>1. j \in 1..Len(n.path)
    BY <1>1 DEF Under
  <2>2. QED
    BY <2>1 DEF Under
<1>4. QED
  BY <1>2, <1>3 DEF Under

IsLevels(level, t) ==
  /\ level[0] = {t}
  /\ \A i \in Nat : level[i + 1] = UNION {Below(n) : n \in level[i]}

LEMMA LevelsAreDefined ==
  ASSUME NEW U, Closed(U), NEW t \in U
  PROVE  \E level : /\ IsLevels(level, t)
                    /\ NodesOf(t) = UNION {level[i] : i \in 0..PathLength}
<1> DEFINE Equation(f) ==
             f = [i \in Nat |-> IF i = 0 THEN {t}
                                ELSE UNION {Below(n) : n \in f[i - 1]}]
           level == CHOOSE f : Equation(f)
           below == [n \in U |-> Below(n)]
           what == [kind |-> "image", at |-> t, f |-> below]
<1>1. \E f : f = [i \in Nat |-> IF i = 0 THEN Trees!Start(what)
                                ELSE Trees!After(what, i, f[i - 1])]
  BY Trees!RecursionIsDefined
<1>2. PICK f : f = [i \in Nat |-> IF i = 0 THEN {t} ELSE Trees!Images(below, f[i - 1])]
  <2>1. Trees!Start(what) = {t}
    BY DEF Trees!Start
  <2>2. \A i, before : Trees!After(what, i, before) = Trees!Images(below, before)
    BY DEF Trees!After
  <2> HIDE DEF what, below
  <2>3. PICK f : f = [i \in Nat |-> IF i = 0 THEN Trees!Start(what)
                                   ELSE Trees!After(what, i, f[i - 1])]
    BY <1>1
  <2>4. f = [i \in Nat |-> IF i = 0 THEN {t} ELSE Trees!Images(below, f[i - 1])]
    BY ONLY <2>1, <2>2, <2>3
  <2>5. QED
    BY <2>4
<1> HIDE DEF below
<1>3. f[0] = {t} /\ \A i \in Nat : f[i + 1] = Trees!Images(below, f[i])
  BY <1>2
<1>4. ASSUME NEW S \in SUBSET U
      PROVE  /\ Trees!Images(below, S) = UNION {Below(n) : n \in S}
             /\ Trees!Images(below, S) \in SUBSET U
  <2>1. \A n \in S : below[n] = Below(n)
    BY DEF below
  <2>2. {below[n] : n \in S} = {Below(n) : n \in S}
    BY <2>1
  <2>3. Trees!Images(below, S) = UNION {Below(n) : n \in S}
    BY ONLY <2>2 DEF Trees!Images
  <2>4. \A n \in S : Below(n) \in SUBSET U
    BY BelowIsChildren
  <2>5. QED
    BY <2>3, <2>4
<1>5. \A i \in Nat : f[i] \in SUBSET U
  <2> DEFINE N == {i \in Nat : f[i] \in SUBSET U}
  <2>1. 0 \in N
    BY <1>3
  <2>2. ASSUME NEW i \in Nat, i \in N PROVE i + 1 \in N
    BY <1>3, <1>4, <2>2
  <2> HIDE DEF N
  <2>3. \A i \in Nat : i \in N
    BY <2>1, <2>2, Trees!NatSetInduction
  <2>4. QED
    BY <2>3 DEF N
<1>6. \A i \in Nat : i # 0 =>
        Trees!Images(below, f[i - 1]) = UNION {Below(n) : n \in f[i - 1]}
  BY <1>4, <1>5
<1>7. Equation(f)
  <2>1. [i \in Nat |-> IF i = 0 THEN {t} ELSE Trees!Images(below, f[i - 1])]
        = [i \in Nat |-> IF i = 0 THEN {t} ELSE UNION {Below(n) : n \in f[i - 1]}]
    BY <1>6
  <2>2. QED
    BY <1>2, <2>1
<1>8. Equation(level)
  <2> HIDE DEF Equation
  <2>1. QED
    BY <1>7
<1>9. NodesOf(t) = UNION {level[i] : i \in 0..PathLength}
  BY DEF NodesOf
<1> HIDE DEF level
<1>10. IsLevels(level, t)
  BY <1>8 DEF IsLevels
<1>11. QED
  BY <1>9, <1>10

LevelsOf(t) ==
  CHOOSE level : /\ IsLevels(level, t)
                 /\ NodesOf(t) = UNION {level[i] : i \in 0..PathLength}

LEMMA LevelsOfNode ==
  ASSUME NEW U, Closed(U), NEW t \in U
  PROVE  /\ \A n : n \in LevelsOf(t)[0] <=> n = t
         /\ \A i \in Nat : \A n :
              n \in LevelsOf(t)[i + 1] <=> \E x \in LevelsOf(t)[i] : n \in Below(x)
         /\ \A n : n \in NodesOf(t) <=> \E i \in 0..PathLength : n \in LevelsOf(t)[i]
<1> DEFINE level == LevelsOf(t)
<1>1. IsLevels(level, t) /\ NodesOf(t) = UNION {level[i] : i \in 0..PathLength}
  BY LevelsAreDefined DEF LevelsOf
<1> HIDE DEF level
<1>2. /\ \A n : n \in level[0] <=> n = t
      /\ \A i \in Nat : \A n : n \in level[i + 1] <=> \E x \in level[i] : n \in Below(x)
  BY <1>1 DEF IsLevels
<1>3. \A n : n \in NodesOf(t) <=> \E i \in 0..PathLength : n \in level[i]
  BY <1>1
<1>4. QED
  BY <1>2, <1>3 DEF level

(* A node of a level has a path that is as much longer at least.            *)
LEMMA LevelFacts ==
  ASSUME NEW U, Closed(U), NEW t \in U
  PROVE  \A i \in Nat : \A n \in LevelsOf(t)[i] :
           n \in U /\ Under(n, t, i) /\ (i # 0 => Branches(n))
<1> DEFINE Good(i) == \A n \in LevelsOf(t)[i] :
                        n \in U /\ Under(n, t, i) /\ (i # 0 => Branches(n))
           S == {i \in Nat : Good(i)}
<1>1. \A n \in U : n.path \in Seq(Nat) /\ Len(n.path) \in Nat
  BY FittingNode DEF Closed
<1>2. 0 \in S
  <2>1. Under(t, t, 0)
    BY <1>1 DEF Under
  <2>2. \A n \in LevelsOf(t)[0] : n = t
    BY LevelsOfNode
  <2>3. QED
    BY <2>1, <2>2
<1>3. ASSUME NEW i \in Nat, i \in S PROVE i + 1 \in S
  <2>1. ASSUME NEW n \in LevelsOf(t)[i + 1]
        PROVE  n \in U /\ Under(n, t, i + 1) /\ Branches(n)
    <3>1. PICK x \in LevelsOf(t)[i] : n \in Below(x)
      BY LevelsOfNode
    <3>2. x \in U /\ Under(x, t, i)
      BY <1>3, <3>1
    <3>3. n \in U /\ Branches(n) /\ Under(n, x, 1)
      BY <3>1, <3>2, BelowIsChildren
    <3>4. Under(n, t, i + 1)
      BY <1>1, <3>2, <3>3, UnderTransitive
    <3>5. QED
      BY <3>3, <3>4
  <2>2. QED
    BY <2>1
<1> HIDE DEF S
<1>4. \A i \in Nat : i \in S
  BY <1>2, <1>3, Trees!NatSetInduction
<1>5. QED
  BY <1>4 DEF S

(* The levels below a node are those of its children.                       *)
LEMMA FirstLevel ==
  ASSUME NEW U, Closed(U), NEW t \in U
  PROVE  \A i \in Nat : \A n :
           n \in LevelsOf(t)[i + 1] <=> \E c \in Below(t) : n \in LevelsOf(c)[i]
<1> DEFINE Good(i) == \A n : n \in LevelsOf(t)[i + 1]
                               <=> \E c \in Below(t) : n \in LevelsOf(c)[i]
           S == {i \in Nat : Good(i)}
<1>1. \A c \in Below(t) : c \in U
  BY BelowIsChildren
<1>2. 0 \in S
  <2>1. \A n : n \in LevelsOf(t)[0 + 1] <=> \E x \in LevelsOf(t)[0] : n \in Below(x)
    BY LevelsOfNode
  <2>2. \A x : x \in LevelsOf(t)[0] <=> x = t
    BY LevelsOfNode
  <2>3. \A c \in Below(t) : \A n : n \in LevelsOf(c)[0] <=> n = c
    BY <1>1, LevelsOfNode
  <2>4. Good(0)
    BY <2>1, <2>2, <2>3
  <2> HIDE DEF Good
  <2>5. QED
    BY <2>4
<1>3. ASSUME NEW i \in Nat, i \in S PROVE i + 1 \in S
  <2>1. ASSUME NEW n
        PROVE  n \in LevelsOf(t)[(i + 1) + 1]
                 <=> \E c \in Below(t) : n \in LevelsOf(c)[i + 1]
    <3>1. n \in LevelsOf(t)[(i + 1) + 1] <=> \E x \in LevelsOf(t)[i + 1] : n \in Below(x)
      BY LevelsOfNode
    <3>2. \A x : x \in LevelsOf(t)[i + 1] <=> \E c \in Below(t) : x \in LevelsOf(c)[i]
      BY <1>3
    <3>3. \A c \in Below(t) :
            n \in LevelsOf(c)[i + 1] <=> \E x \in LevelsOf(c)[i] : n \in Below(x)
      BY <1>1, LevelsOfNode
    <3>4. QED
      BY ONLY <3>1, <3>2, <3>3
  <2>2. Good(i + 1)
    BY <2>1
  <2> HIDE DEF Good
  <2>3. QED
    BY <2>2
<1> HIDE DEF S
<1>4. \A i \in Nat : i \in S
  BY <1>2, <1>3, Trees!NatSetInduction
<1>5. QED
  BY <1>4 DEF S

LEMMA NodesBelow ==
  ASSUME NEW U, Closed(U), NEW t \in U
  PROVE  /\ \A n : n \in NodesOf(t)
                     <=> n = t \/ \E d \in Digits(t) : n \in NodesOf(Child(t, d))
         /\ \A n \in NodesOf(t) : n \in U /\ Under(n, t, 0) /\ (n # t => Branches(n))
<1>0. PathLength \in Nat
  BY GenesisAssumption
<1>1. Below(t) = {Child(t, d) : d \in Digits(t)}
  BY BelowIsChildren
<1>2. \A c \in Below(t) : c \in U /\ Under(c, t, 1)
  BY BelowIsChildren
<1>3. \A n \in U : /\ n.path \in Seq(Nat)
                   /\ Len(n.path) \in Nat /\ Len(n.path) <= PathLength
  BY FittingNode DEF Closed
<1>4. ASSUME NEW n \in NodesOf(t), n # t
      PROVE  \E c \in Below(t) : n \in NodesOf(c)
  <2>1. PICK i \in 0..PathLength : n \in LevelsOf(t)[i]
    BY LevelsOfNode
  <2>2. i # 0
    BY <1>4, <2>1, LevelsOfNode
  <2>3. i - 1 \in 0..PathLength /\ i - 1 \in Nat /\ (i - 1) + 1 = i
    BY <1>0, <2>2
  <2>4. PICK c \in Below(t) : n \in LevelsOf(c)[i - 1]
    BY <2>1, <2>3, FirstLevel
  <2>5. n \in NodesOf(c)
    BY <1>2, <2>3, <2>4, LevelsOfNode
  <2>6. QED
    BY <2>5
<1>5. ASSUME NEW c \in Below(t), NEW n \in NodesOf(c)
      PROVE  n \in NodesOf(t)
  <2>1. PICK i \in 0..PathLength : n \in LevelsOf(c)[i]
    BY <1>2, LevelsOfNode
  <2>2. i \in Nat /\ n \in U /\ Under(n, c, i)
    BY <1>0, <1>2, <2>1, LevelFacts
  <2>3. i + 1 \in 0..PathLength
    <3>1. Len(n.path) >= Len(c.path) + i /\ Len(c.path) >= Len(t.path) + 1
      BY <1>2, <2>2 DEF Under
    <3>2. /\ Len(n.path) \in Nat /\ Len(c.path) \in Nat /\ Len(t.path) \in Nat
          /\ Len(n.path) <= PathLength
      BY <1>2, <1>3, <2>2
    <3>3. \A a, b, x \in Nat : x >= b + i /\ b >= a + 1 => x >= i + 1
      BY <2>2
    <3>4. QED
      BY ONLY <1>0, <2>2, <3>1, <3>2, <3>3
  <2>4. n \in LevelsOf(t)[i + 1]
    BY <2>1, <2>2, FirstLevel
  <2>5. QED
    BY <2>3, <2>4, LevelsOfNode
<1>6. t \in NodesOf(t)
  <2>1. t \in LevelsOf(t)[0] /\ 0 \in 0..PathLength
    BY <1>0, LevelsOfNode
  <2>2. QED
    BY <2>1, LevelsOfNode
<1>7. \A n : n \in NodesOf(t)
               <=> n = t \/ \E d \in Digits(t) : n \in NodesOf(Child(t, d))
  BY <1>1, <1>4, <1>5, <1>6
<1>8. ASSUME NEW n \in NodesOf(t)
      PROVE  n \in U /\ Under(n, t, 0) /\ (n # t => Branches(n))
  <2>1. PICK i \in 0..PathLength : n \in LevelsOf(t)[i]
    BY LevelsOfNode
  <2>2. i \in Nat
    BY <1>0
  <2>3. n \in U /\ Under(n, t, i) /\ (i # 0 => Branches(n))
    BY <2>1, <2>2, LevelFacts
  <2>4. i = 0 => n = t
    BY <2>1, LevelsOfNode
  <2>5. Len(n.path) \in Nat /\ Len(t.path) \in Nat
    BY <1>3, <2>3
  <2>6. Under(n, t, 0)
    BY <2>2, <2>3, <2>5 DEF Under
  <2>7. QED
    BY <2>3, <2>4, <2>6
<1>9. QED
  BY <1>7, <1>8

(* The accounts under a node are those under its children, apart by the     *)
(* digit that leads there.                                                  *)
LEMMA AccountsBelow ==
  ASSUME NEW U, Closed(U), NEW t \in U
  PROVE  /\ t \in AccountNodes => AccountsUnder(t) = {t}
         /\ IsInner(t) =>
              \A n : n \in AccountsUnder(t)
                       <=> \E d \in Digits(t) : n \in AccountsUnder(Child(t, d))
         /\ \A n \in AccountsUnder(t) : n \in AccountNodes /\ n \in U /\ Under(n, t, 0)
         /\ \A d \in Digits(t) : \A n \in AccountsUnder(Child(t, d)) :
              n.path[Len(t.path) + 1] = d
<1>1. \A n : n \in AccountsUnder(t) <=> n \in NodesOf(t) /\ Len(n.path) = PathLength
  BY DEF AccountsUnder
<1>2. \A d : \A n : n \in AccountsUnder(Child(t, d))
                      <=> n \in NodesOf(Child(t, d)) /\ Len(n.path) = PathLength
  BY DEF AccountsUnder
<1>3. ASSUME t \in AccountNodes
      PROVE  AccountsUnder(t) = {t}
  <2>1. Digits(t) = {} /\ Len(t.path) = PathLength
    BY <1>3, AccountNodeFacts
  <2>2. \A n : n \in NodesOf(t) <=> n = t
    BY <2>1, NodesBelow
  <2>3. QED
    BY <1>1, <2>1, <2>2
<1>4. ASSUME IsInner(t), NEW n
      PROVE  n \in AccountsUnder(t)
               <=> \E d \in Digits(t) : n \in AccountsUnder(Child(t, d))
  <2>1. Len(t.path) # PathLength
    BY <1>4, GenesisAssumption DEF IsInner
  <2>2. n \in NodesOf(t) <=> n = t \/ \E d \in Digits(t) : n \in NodesOf(Child(t, d))
    BY NodesBelow
  <2>3. QED
    BY <1>1, <1>2, <2>1, <2>2
<1>5. ASSUME NEW n \in AccountsUnder(t)
      PROVE  n \in AccountNodes /\ n \in U /\ Under(n, t, 0)
  <2>1. n \in U /\ Under(n, t, 0) /\ Len(n.path) = PathLength
    BY <1>1, <1>5, NodesBelow
  <2>2. Fits(n)
    BY <2>1 DEF Closed
  <2>3. QED
    BY <2>1, <2>2, FittingNode
<1>6. ASSUME NEW d \in Digits(t), NEW n \in AccountsUnder(Child(t, d))
      PROVE  n.path[Len(t.path) + 1] = d
  <2>1. PICK c : c = Child(t, d)
    OBVIOUS
  <2>2. c \in U /\ Under(c, t, 1) /\ c.path[Len(t.path) + 1] = d
    BY <2>1, ChildFacts
  <2>3. n \in U /\ Under(n, c, 0)
    BY <1>2, <2>1, <2>2, NodesBelow
  <2>4. Len(t.path) \in Nat /\ Len(c.path) \in Nat
    BY <2>2, FittingNode DEF Closed
  <2>5. Len(t.path) + 1 \in 1..Len(c.path)
    BY <2>2, <2>4 DEF Under
  <2>6. QED
    BY <2>2, <2>3, <2>5 DEF Under
<1>7. QED
  BY <1>3, <1>4, <1>5, <1>6
-----------------------------------------------------------------------------
(***************************************************************************)
(* The stake of a node.                                                    *)
(***************************************************************************)
Held(U) == [n \in U |-> n.account]

LEMMA AccountsAreSummed ==
  ASSUME NEW U, NEW S, S \subseteq U
  PROVE  MapThenSumSet(LAMBDA n : n.account, S) = SumOf(Held(U), S)
<1> DEFINE f == Held(U)
           P(it) == it = [s \in SUBSET S |->
                            IF s = {} THEN 0
                            ELSE Trees!First(s).account + it[s \ {Trees!First(s)}]]
<1>1. MapThenSumSet(LAMBDA n : n.account, S) = (CHOOSE it : P(it))[S]
  BY DEF MapThenSumSet, MapThenFoldSet, Trees!First
<1>2. ASSUME NEW it
      PROVE  P(it) <=> Trees!IsSum(f, S, it)
  <2>1. ASSUME NEW s \in SUBSET S, s # {}
        PROVE  Trees!First(s).account = f[Trees!First(s)]
    BY <2>1, Trees!FirstIsElement DEF Held
  <2>2. [s \in SUBSET S |-> IF s = {} THEN 0
                            ELSE Trees!First(s).account + it[s \ {Trees!First(s)}]]
        = [s \in SUBSET S |-> IF s = {} THEN 0
                              ELSE f[Trees!First(s)] + it[s \ {Trees!First(s)}]]
    <3> HIDE DEF f
    <3>1. QED
      BY <2>1
  <2>3. QED
    BY <2>2 DEF Trees!IsSum
<1> HIDE DEF P, f
<1>3. (CHOOSE it : P(it)) = (CHOOSE it : Trees!IsSum(f, S, it))
  BY <1>2
<1>4. QED
  BY <1>1, <1>3, Trees!SumIsChosen DEF SumOf, f

(* A node whose children have the stakes of the accounts under them.        *)
IsStakeOfAccounts(n, U) ==
  /\ IsFiniteSet(AccountsUnder(n))
  /\ n.stats.stake = SumOf(Held(U), AccountsUnder(n))

LEMMA StakeOfAccount ==
  ASSUME NEW U, Closed(U), NEW n \in U, n \in AccountNodes
  PROVE  IsStakeOfAccounts(n, U)
<1>1. AccountsUnder(n) = {n}
  BY AccountsBelow
<1>2. Held(U)[n] = n.account /\ n.account \in Nat /\ n.stats.stake = n.account
  BY AccountNodeFacts DEF Held
<1>3. SumOf(Held(U), {n}) = Held(U)[n]
  BY <1>2, SumOfOne
<1>4. IsFiniteSet({n})
  BY FS_Singleton
<1>5. QED
  BY <1>1, <1>2, <1>3, <1>4 DEF IsStakeOfAccounts

LEMMA StakeOfInner ==
  ASSUME NEW U, Closed(U), NEW n \in U, IsInner(n),
         \A d \in Digits(n) : IsStakeOfAccounts(Child(n, d), U)
  PROVE  IsStakeOfAccounts(n, U)
<1> DEFINE D == Digits(n)
           part == [d \in D |-> AccountsUnder(Child(n, d))]
           f == Held(U)
           g == StakesOf(n)
<1>1. \A d \in D : part[d] = AccountsUnder(Child(n, d))
  OBVIOUS
<1>2. \A d \in D : Child(n, d) \in U
  BY DEF Closed
<1>3. \A d \in D : \A x \in part[d] : f[x] \in Nat
  <2>1. ASSUME NEW d \in D, NEW x \in AccountsUnder(Child(n, d))
        PROVE  f[x] \in Nat
    <3>1. x \in AccountNodes /\ x \in U
      BY <1>2, AccountsBelow
    <3>2. QED
      BY <3>1, AccountNodeFacts DEF Held
  <2> HIDE DEF part, D, f
  <2>2. QED
    BY <1>1, <2>1
<1>4. \A d \in D : IsFiniteSet(part[d])
  BY <1>1 DEF IsStakeOfAccounts
<1>5. \A c, d \in D : c # d => part[c] \cap part[d] = {}
  <2>1. \A d \in D : \A x \in AccountsUnder(Child(n, d)) : x.path[Len(n.path) + 1] = d
    BY AccountsBelow
  <2> HIDE DEF part, D
  <2>2. QED
    BY <1>1, <2>1
<1>6. \A d \in D : g[d] = SumOf(f, part[d])
  <2>1. \A d \in D : g[d] = Child(n, d).stats.stake
    BY DEF StakesOf
  <2>2. \A d \in D : Child(n, d).stats.stake = SumOf(f, AccountsUnder(Child(n, d)))
    BY DEF IsStakeOfAccounts
  <2> HIDE DEF part, D, f, g
  <2>3. QED
    BY <1>1, <2>1, <2>2
<1>7. Trees!Images(part, D) = AccountsUnder(n)
  <2>1. \A x : x \in AccountsUnder(n) <=> \E d \in D : x \in AccountsUnder(Child(n, d))
    BY AccountsBelow
  <2>2. \A x : x \in Trees!Images(part, D) <=> \E d \in D : x \in part[d]
    BY DEF Trees!Images
  <2> HIDE DEF part, D
  <2>3. \A x : x \in Trees!Images(part, D) <=> x \in AccountsUnder(n)
    BY <1>1, <2>1, <2>2
  <2>4. QED
    BY <2>3
<1>8. IsFiniteSet(D) /\ n.stats.stake = SumOf(g, D)
  BY DEF IsInner
<1> HIDE DEF part, D, f, g
<1>9. /\ Trees!IsFiniteSet(D)
      /\ \A d \in D : Trees!IsFiniteSet(part[d]) /\ \A x \in part[d] : f[x] \in Nat
      /\ \A d \in D : g[d] = Trees!SumOf(f, part[d])
  BY <1>3, <1>4, <1>6, <1>8, SameFinite DEF SumOf
<1>10. /\ Trees!IsFiniteSet(Trees!Images(part, D))
       /\ Trees!SumOf(f, Trees!Images(part, D)) = Trees!SumOf(g, D)
  BY ONLY <1>5, <1>9, Trees!SumOfSums
<1>11. IsFiniteSet(AccountsUnder(n)) /\ SumOf(f, AccountsUnder(n)) = SumOf(g, D)
  BY <1>7, <1>10, SameFinite DEF SumOf
<1>12. QED
  BY <1>8, <1>11 DEF IsStakeOfAccounts, f

LEMMA StakesOfAccounts ==
  ASSUME NEW U, Closed(U)
  PROVE  \A n \in U : IsStakeOfAccounts(n, U)
<1> DEFINE Good(k) == \A n \in U : Len(n.path) + k >= PathLength => IsStakeOfAccounts(n, U)
           S == {k \in Nat : Good(k)}
<1>1. PathLength \in Nat
  BY GenesisAssumption
<1>2. \A n \in U : /\ Fits(n) /\ Len(n.path) \in Nat /\ Len(n.path) <= PathLength
                   /\ (Len(n.path) = PathLength <=> n \in AccountNodes)
  BY FittingNode DEF Closed
<1>3. 0 \in S
  <2>1. ASSUME NEW n \in U, Len(n.path) + 0 >= PathLength
        PROVE  IsStakeOfAccounts(n, U)
    <3>1. Len(n.path) = PathLength
      BY <1>1, <1>2, <2>1
    <3>2. QED
      BY <1>2, <3>1, StakeOfAccount
  <2>2. QED
    BY <2>1
<1>4. ASSUME NEW k \in Nat, k \in S PROVE k + 1 \in S
  <2>1. ASSUME NEW n \in U, Len(n.path) + (k + 1) >= PathLength
        PROVE  IsStakeOfAccounts(n, U)
    <3>1. CASE n \in AccountNodes
      BY <3>1, StakeOfAccount
    <3>2. CASE IsInner(n)
      <4>1. ASSUME NEW d \in Digits(n) PROVE IsStakeOfAccounts(Child(n, d), U)
        <5>1. PICK c : c = Child(n, d)
          OBVIOUS
        <5>2. c \in U /\ Under(c, n, 1)
          BY <5>1, ChildFacts
        <5>3. Len(c.path) >= Len(n.path) + 1
          BY <5>2 DEF Under
        <5>4. Len(c.path) + k >= PathLength
          <6>1. Len(c.path) \in Nat /\ Len(n.path) \in Nat
            BY <1>2, <5>2
          <6>2. \A x, y, z \in Nat : y + (k + 1) >= z /\ x >= y + 1 => x + k >= z
            OBVIOUS
          <6>3. QED
            BY ONLY <1>1, <2>1, <5>3, <6>1, <6>2
        <5>5. QED
          BY <1>4, <5>1, <5>2, <5>4
      <4>2. QED
        BY <3>2, <4>1, StakeOfInner
    <3>3. QED
      BY <1>2, <3>1, <3>2 DEF Fits
  <2>2. Good(k + 1)
    BY ONLY <2>1, Zenon
  <2> HIDE DEF Good
  <2>3. QED
    BY <2>2
<1> HIDE DEF S
<1>5. \A k \in Nat : k \in S
  BY <1>3, <1>4, Trees!NatSetInduction
<1>6. Good(PathLength)
  BY <1>1, <1>5 DEF S
<1>7. \A n \in U : Len(n.path) + PathLength >= PathLength
  BY <1>1, <1>2
<1>8. QED
  BY <1>6, <1>7
-----------------------------------------------------------------------------
(***************************************************************************)
(* Lookups.                                                                *)
(***************************************************************************)
LEMMA ClosedIsForest ==
  ASSUME NEW U, Closed(U)
  PROVE  Trees!IsForest(U, Nat)
<1>1. ASSUME NEW n \in U, NEW d \in DOMAIN n.children
      PROVE  /\ d \in Nat
             /\ n.children[d].suffix \in Seq(Nat)
             /\ n.children[d].node \in U
  <2>1. d \in Digits(n)
    BY DEF Digits
  <2>2. IsInner(n) /\ Child(n, d) \in U
    BY <2>1, ChildFacts
  <2>3. QED
    BY <2>1, <2>2 DEF IsInner, Leads, Child
<1>2. QED
  BY <1>1 DEF Trees!IsForest

LEMMA PrefixElements ==
  ASSUME NEW p \in Seq(Nat), NEW q \in Seq(Nat), Len(p) <= Len(q),
         \A i \in 1..Len(p) : p[i] = q[i]
  PROVE  Trees!IsPrefix(p, q)
BY DEF Trees!IsPrefix

Continues(d, s, e, q, r) ==
  d = Head(q) /\ Trees!IsPrefix(s, Tail(q)) /\ r \in Seq(Nat) /\ q = e \o r

LEMMA DropsPrefix ==
  ASSUME NEW e \in Seq(Nat), NEW q \in Seq(Nat), Trees!IsPrefix(e, q),
         NEW r \in Seq(Nat), r = Trees!Drop(q, Len(e))
  PROVE  q = e \o r
<1>1. PICK n, m : n = Len(e) /\ m = Len(q)
  OBVIOUS
<1>2. n \in 0..m /\ m \in Nat
  BY <1>1, Trees!PrefixFacts
<1>3. \A i \in 1..n : e[i] = q[i]
  BY <1>1, Trees!PrefixElements
<1>4. Len(r) = m - n /\ \A i \in 1..(m - n) : r[i] = q[n + i]
  BY <1>1, <1>2 DEF Trees!Drop
<1>5. PICK x : x = e \o r
  OBVIOUS
<1>6. x \in Seq(Nat) /\ Len(x) = m
  <2>1. x \in Seq(Nat) /\ Len(x) = Len(e) + Len(r)
    BY ONLY <1>5, e \in Seq(Nat), r \in Seq(Nat)
  <2>2. QED
    BY ONLY <1>1, <1>2, <1>4, <2>1
<1>7. ASSUME NEW i \in 1..m PROVE q[i] = x[i]
  <2>1. CASE i <= n
    BY <1>1, <1>2, <1>3, <1>5, <2>1
  <2>2. CASE i > n
    <3>1. i - n \in 1..(m - n) /\ n + (i - n) = i
      BY ONLY <1>2, <2>2, i \in 1..m
    <3>2. x[n + (i - n)] = r[i - n]
      BY <1>1, <1>2, <1>4, <1>5, <3>1
    <3>3. QED
      BY ONLY <1>4, <3>1, <3>2
  <2>3. QED
    BY <1>2, <2>1, <2>2
<1>8. q = x
  BY <1>1, <1>6, <1>7, Trees!EqualPaths
<1>9. QED
  BY <1>5, <1>8

LEMMA RestOfPath ==
  ASSUME NEW d \in Nat, NEW s \in Seq(Nat), NEW e \in Seq(Nat), e = <<d>> \o s,
         NEW q \in Seq(Nat), q # <<>>, Trees!IsPrefix(e, q),
         NEW r, r = Trees!Drop(Tail(q), Len(s))
  PROVE  Continues(d, s, e, q, r)
<1>1. Trees!IsPrefix(<<d>> \o s, q) <=> d = Head(q) /\ Trees!IsPrefix(s, Tail(q))
  BY Trees!PathAlongEdge
<1>2. Trees!IsPrefix(<<d>> \o s, q)
        => Trees!Drop(q, Len(<<d>> \o s)) = Trees!Drop(Tail(q), Len(s))
  BY Trees!PathAlongEdge
<1>3. Trees!IsPrefix(<<d>> \o s, q)
  BY ONLY e = <<d>> \o s, Trees!IsPrefix(e, q)
<1>4. Trees!Drop(q, Len(e)) = r
  BY ONLY e = <<d>> \o s, r = Trees!Drop(Tail(q), Len(s)), <1>2, <1>3
<1>5. Trees!IsPrefix(e, q) => Trees!Drop(q, Len(e)) \in Seq(Nat)
  BY Trees!PathAfterPath
<1>6. r \in Seq(Nat)
  BY ONLY <1>4, <1>5, Trees!IsPrefix(e, q)
<1>7. q = e \o r
  BY <1>4, <1>6, DropsPrefix
<1>8. QED
  BY ONLY <1>1, <1>3, <1>6, <1>7 DEF Continues

(* A path that leads to what is under a child goes along the edge to it.    *)
GoesTo(t, q, c, path) ==
  /\ Trees!LeadsOn(t, q) /\ Trees!NextNode(t, q) = c
  /\ path = c.path \o Trees!NextPath(t, q)

LEMMA AlongEdge ==
  ASSUME NEW U, Closed(U), NEW t \in U, NEW d \in Digits(t),
         NEW c, c = Child(t, d),
         NEW s \in Seq(Nat), s = t.children[d].suffix,
         NEW q \in Seq(Nat), q # <<>>, NEW path, path = t.path \o q,
         NEW e \in Seq(Nat), e = <<d>> \o s, Trees!IsPrefix(e, q)
  PROVE  GoesTo(t, q, c, path)
<1>1. IsInner(t)
  BY ChildFacts
<1>2. PICK p : p = t.path
  OBVIOUS
<1>3. d \in Nat /\ p \in Seq(Nat) /\ c.path = p \o e
  BY <1>1, <1>2 DEF IsInner, Leads
<1>4. PICK r : r = Trees!Drop(Tail(q), Len(s))
  OBVIOUS
<1>5. d = Head(q) /\ Trees!IsPrefix(s, Tail(q)) /\ r \in Seq(Nat) /\ q = e \o r
  <2>1. d \in Nat
    BY <1>3
  <2>2. Continues(d, s, e, q, r)
    BY <1>4, <2>1, RestOfPath
  <2>3. QED
    BY <2>2 DEF Continues
<1>6. Trees!LeadsOn(t, q)
  BY <1>5 DEF Trees!LeadsOn, Digits
<1>7. Trees!NextNode(t, q) = c
  BY <1>5 DEF Trees!NextNode, Child
<1>8. Trees!NextPath(t, q) = r
  BY ONLY <1>4, <1>5, s = t.children[d].suffix DEF Trees!NextPath
<1>9. path = c.path \o r
  <2>1. p \o (e \o r) = p \o e \o r
    BY ONLY <1>3, <1>5, e \in Seq(Nat), Regroup
  <2>2. path = p \o q
    BY <1>2
  <2>3. QED
    BY ONLY <1>3, <1>5, <2>1, <2>2
<1>10. QED
  BY ONLY <1>6, <1>7, <1>8, <1>9 DEF GoesTo

LEMMA PathLeadsOn ==
  ASSUME NEW U, Closed(U), NEW t \in U, NEW d \in Digits(t),
         NEW c, c = Child(t, d),
         NEW q \in Seq(Nat), q # <<>>, NEW path, path = t.path \o q,
         Len(c.path) <= Len(path), \A i \in 1..Len(c.path) : path[i] = c.path[i]
  PROVE  GoesTo(t, q, c, path)
<1>1. IsInner(t)
  BY ChildFacts
<1>2. PICK p, s : p = t.path /\ s = t.children[d].suffix
  OBVIOUS
<1>3. d \in Nat /\ s \in Seq(Nat) /\ p \in Seq(Nat) /\ c.path = p \o (<<d>> \o s)
  BY <1>1, <1>2 DEF IsInner, Leads
<1>4. PICK e, x : e = <<d>> \o s /\ x = c.path
  OBVIOUS
<1>5. e \in Seq(Nat)
  BY ONLY <1>3, <1>4
<1>6. x = p \o e /\ path = p \o q
  BY <1>2, <1>3, <1>4
<1>7. Len(x) = Len(p) + Len(e)
  BY ONLY <1>3, <1>5, <1>6, JoinFacts
<1>8. Len(path) = Len(p) + Len(q)
  BY ONLY <1>3, <1>6, q \in Seq(Nat), JoinFacts
<1>9. \A i \in 1..Len(e) : x[Len(p) + i] = e[i]
  BY ONLY <1>3, <1>5, <1>6, JoinFacts
<1>10. \A i \in 1..Len(q) : path[Len(p) + i] = q[i]
  BY ONLY <1>3, <1>6, q \in Seq(Nat), JoinFacts
<1>11. Len(p) \in Nat /\ Len(e) \in Nat /\ Len(q) \in Nat
  BY ONLY <1>3, <1>5, q \in Seq(Nat)
<1>12. Len(x) <= Len(path) /\ \A i \in 1..Len(x) : path[i] = x[i]
  BY ONLY <1>4, Len(c.path) <= Len(path), \A i \in 1..Len(c.path) : path[i] = c.path[i]
<1>13. Len(e) <= Len(q)
  BY ONLY <1>7, <1>8, <1>11, <1>12
<1>14. ASSUME NEW i \in 1..Len(e) PROVE e[i] = q[i]
  <2>1. i \in 1..Len(q) /\ Len(p) + i \in 1..Len(x)
    BY ONLY <1>7, <1>11, <1>13, i \in 1..Len(e)
  <2>2. x[Len(p) + i] = e[i] /\ path[Len(p) + i] = q[i] /\ path[Len(p) + i] = x[Len(p) + i]
    BY ONLY <1>9, <1>10, <1>12, <2>1, i \in 1..Len(e)
  <2>3. QED
    BY ONLY <2>2
<1>15. Trees!IsPrefix(e, q)
  BY ONLY <1>5, <1>13, <1>14, q \in Seq(Nat), PrefixElements
<1>16. QED
  BY <1>2, <1>3, <1>4, <1>5, <1>15, AlongEdge

LEMMA NextPathJoins ==
  ASSUME NEW U, Closed(U), NEW t \in U, NEW q \in Seq(Nat), q # <<>>,
         Trees!LeadsOn(t, q)
  PROVE  Trees!NextNode(t, q).path \o Trees!NextPath(t, q) = t.path \o q
<1>1. PICK d, c, path : d = Head(q) /\ c = Child(t, d) /\ path = t.path \o q
  OBVIOUS
<1>2. d \in Digits(t) /\ Trees!IsPrefix(t.children[d].suffix, Tail(q))
  BY <1>1 DEF Trees!LeadsOn, Digits
<1>3. IsInner(t) /\ d \in Nat
  BY <1>2, ChildFacts
<1>4. PICK s : s = t.children[d].suffix
  OBVIOUS
<1>5. s \in Seq(Nat)
  BY <1>2, <1>3, <1>4 DEF IsInner, Leads
<1>6. PICK e : e = <<d>> \o s
  OBVIOUS
<1>7. e \in Seq(Nat)
  BY ONLY <1>3, <1>5, <1>6
<1>8. Trees!IsPrefix(<<d>> \o s, q) <=> d = Head(q) /\ Trees!IsPrefix(s, Tail(q))
  BY <1>3, <1>5, Trees!PathAlongEdge
<1>9. Trees!IsPrefix(e, q)
  BY ONLY <1>1, <1>2, <1>4, <1>6, <1>8
<1>10. GoesTo(t, q, c, path)
  BY <1>1, <1>2, <1>4, <1>5, <1>6, <1>7, <1>9, AlongEdge
<1>11. QED
  BY <1>1, <1>10 DEF GoesTo

(* A lookup finds what is under a node at the path, which is one account at *)
(* most.                                                                    *)
IsFound(t, q, path) ==
  /\ \A n : n \in Trees!NodeAt(t, q) <=> n \in AccountsUnder(t) /\ n.path = path
  /\ \A a, b \in Trees!NodeAt(t, q) : a = b

LEMMA FoundHere ==
  ASSUME NEW U, Closed(U), NEW t \in U, Len(t.path) = PathLength,
         NEW q, q = <<>>, NEW path, path = t.path \o q
  PROVE  IsFound(t, q, path)
<1>1. Fits(t) /\ q \in Seq(Nat)
  BY DEF Closed
<1>2. t \in AccountNodes /\ t.path \in Seq(Nat)
  BY <1>1, FittingNode
<1>3. AccountsUnder(t) = {t}
  BY <1>2, AccountsBelow
<1>4. Trees!IsForest(U, Nat)
  BY ClosedIsForest
<1>5. Trees!NodeAt(t, q) = {t}
  BY <1>1, <1>4, Trees!NodeAtEquation
<1>6. path = t.path
  BY <1>2
<1>7. QED
  BY <1>3, <1>5, <1>6 DEF IsFound

LEMMA FoundBeyond ==
  ASSUME NEW U, Closed(U), NEW t \in U, IsInner(t),
         NEW q \in Seq(Nat), q # <<>>, NEW path, path = t.path \o q,
         Trees!LeadsOn(t, q) =>
           IsFound(Trees!NextNode(t, q), Trees!NextPath(t, q), path)
  PROVE  IsFound(t, q, path)
<1>1. Trees!IsForest(U, Nat)
  BY ClosedIsForest
<1>2. path \in Seq(Nat)
  BY DEF IsInner
<1>3. ASSUME NEW n \in AccountsUnder(t), n.path = path
      PROVE  /\ Trees!LeadsOn(t, q)
             /\ n \in AccountsUnder(Trees!NextNode(t, q))
  <2>1. PICK d \in Digits(t) : n \in AccountsUnder(Child(t, d))
    BY <1>3, AccountsBelow
  <2>2. PICK c : c = Child(t, d)
    OBVIOUS
  <2>3. c \in U
    BY <2>2, ChildFacts
  <2>4. Under(n, c, 0)
    BY <2>1, <2>2, <2>3, AccountsBelow
  <2>5. Len(c.path) \in Nat
    BY <2>3, FittingNode DEF Closed
  <2>6. Len(c.path) <= Len(path) /\ \A i \in 1..Len(c.path) : path[i] = c.path[i]
    BY <1>3, <2>4, <2>5 DEF Under
  <2>7. GoesTo(t, q, c, path)
    BY ONLY Closed(U), t \in U, d \in Digits(t), q \in Seq(Nat), q # <<>>,
            path = t.path \o q, <2>2, <2>6, PathLeadsOn
  <2>8. QED
    BY <2>1, <2>2, <2>7 DEF GoesTo
<1>4. CASE Trees!LeadsOn(t, q)
  <2>1. PICK c, r : c = Trees!NextNode(t, q) /\ r = Trees!NextPath(t, q)
    OBVIOUS
  <2>2. Trees!NodeAt(t, q) = Trees!NodeAt(c, r)
    BY <1>1, <1>4, <2>1, Trees!NodeAtEquation
  <2>3. IsFound(c, r, path)
    BY <1>4, <2>1
  <2>4. Head(q) \in Digits(t) /\ c = Child(t, Head(q))
    BY <1>4, <2>1 DEF Trees!LeadsOn, Trees!NextNode, Digits, Child
  <2>5. \A n \in AccountsUnder(c) : n \in AccountsUnder(t)
    BY <2>4, AccountsBelow
  <2>6. \A n \in AccountsUnder(t) : n.path = path => n \in AccountsUnder(c)
    BY <1>3, <2>1
  <2>7. QED
    BY ONLY <2>2, <2>3, <2>5, <2>6 DEF IsFound
<1>5. CASE ~Trees!LeadsOn(t, q)
  <2>1. Trees!NodeAt(t, q) = {}
    BY <1>1, <1>5, Trees!NodeAtEquation
  <2>2. \A n \in AccountsUnder(t) : n.path # path
    BY <1>3, <1>5
  <2>3. QED
    BY <2>1, <2>2 DEF IsFound
<1>6. QED
  BY <1>4, <1>5

LEMMA LookupFacts ==
  ASSUME NEW U, Closed(U), NEW t \in U, NEW q \in Seq(Nat),
         NEW path, path = t.path \o q, Len(path) = PathLength
  PROVE  IsFound(t, q, path)
<1> DEFINE Good(k) == \A u \in U, r \in Seq(Nat) :
                        u.path \o r = path /\ Len(r) <= k => IsFound(u, r, path)
           S == {k \in Nat : Good(k)}
<1>1. ASSUME NEW u \in U, NEW r \in Seq(Nat), u.path \o r = path
      PROVE  Fits(u) /\ Len(u.path) + Len(r) = PathLength /\ Len(u.path) \in Nat
  <2>1. Fits(u)
    BY DEF Closed
  <2>2. PICK p : p = u.path
    OBVIOUS
  <2>3. p \in Seq(Nat) /\ path = p \o r
    BY <1>1, <2>1, <2>2, FittingNode
  <2>4. Len(path) = Len(p) + Len(r)
    BY ONLY <2>3, r \in Seq(Nat), JoinFacts
  <2>5. QED
    BY <2>1, <2>2, <2>3, <2>4
<1>2. ASSUME NEW u \in U, u.path \o <<>> = path
      PROVE  IsFound(u, <<>>, path)
  <2>1. <<>> \in Seq(Nat) /\ Len(<<>>) = 0
    OBVIOUS
  <2>2. Len(u.path) = PathLength
    BY <1>1, <1>2, <2>1
  <2>3. QED
    BY <1>2, <2>2, FoundHere
<1>3. 0 \in S
  <2>1. \A r \in Seq(Nat) : Len(r) <= 0 => r = <<>>
    OBVIOUS
  <2>2. Good(0)
    BY ONLY <1>2, <2>1
  <2> HIDE DEF Good
  <2>3. QED
    BY <2>2
<1>4. ASSUME NEW k \in Nat, k \in S PROVE k + 1 \in S
  <2>1. ASSUME NEW u \in U, NEW r \in Seq(Nat), u.path \o r = path, Len(r) <= k + 1
        PROVE  IsFound(u, r, path)
    <3>1. CASE r = <<>>
      BY <1>2, <2>1, <3>1
    <3>2. CASE r # <<>>
      <4>1. Fits(u) /\ Len(u.path) + Len(r) = PathLength /\ Len(u.path) \in Nat
        BY <1>1, <2>1
      <4>2. Len(r) \in Nat \ {0}
        BY <3>2
      <4>3. IsInner(u)
        BY <4>1, <4>2, FittingNode
      <4>4. ASSUME Trees!LeadsOn(u, r)
            PROVE  IsFound(Trees!NextNode(u, r), Trees!NextPath(u, r), path)
        <5>1. PICK v, x : v = Trees!NextNode(u, r) /\ x = Trees!NextPath(u, r)
          OBVIOUS
        <5>2. Trees!IsForest(U, Nat)
          BY ClosedIsForest
        <5>3. v \in U
          BY <3>2, <4>4, <5>1, <5>2, Trees!NextFacts
        <5>4. x \in Seq(Nat) /\ Len(x) < Len(r)
          BY <3>2, <4>4, <5>1, <5>2, Trees!NextFacts
        <5>5. v.path \o x = path
          BY <2>1, <3>2, <4>4, <5>1, NextPathJoins
        <5>6. Len(x) <= k
          BY <2>1, <4>2, <5>4
        <5>7. IsFound(v, x, path)
          BY <1>4, <5>3, <5>4, <5>5, <5>6
        <5>8. QED
          BY <5>1, <5>7
      <4>5. QED
        BY <2>1, <3>2, <4>3, <4>4, FoundBeyond
    <3>3. QED
      BY <3>1, <3>2
  <2>2. Good(k + 1)
    BY ONLY <2>1, Zenon
  <2> HIDE DEF Good
  <2>3. QED
    BY <2>2
<1> HIDE DEF S
<1>5. \A k \in Nat : k \in S
  BY <1>3, <1>4, Trees!NatSetInduction
<1>6. PICK n : n = Len(q)
  OBVIOUS
<1>7. n \in Nat /\ Len(q) <= n
  BY <1>6
<1>8. Good(n)
  BY <1>5, <1>7 DEF S
<1>9. QED
  BY <1>7, <1>8
-----------------------------------------------------------------------------
(***************************************************************************)
(* Insertions.                                                             *)
(***************************************************************************)

(* What an insertion makes of the node it begins at: one account is put in  *)
(* place of one with its path, if there is any.                             *)
Takes(new, t, p, acc) ==
  /\ Sound(new) /\ new.path = t.path
  /\ p = <<>> => new = acc
  /\ p # <<>> => IsInner(new) /\ Digits(new) = Digits(t) \cup {Head(p)}
  /\ \A n : n \in AccountsUnder(new)
              <=> n = acc \/ (n \in AccountsUnder(t) /\ n.path # acc.path)

LEMMA SoundFits == ASSUME NEW t, Sound(t) PROVE Fits(t)
BY DEF Sound, Closed

LEMMA AccountIsSound ==
  ASSUME NEW acc \in AccountNodes
  PROVE  Sound(acc) /\ AccountsUnder(acc) = {acc} /\ Branches(acc) /\ Fits(acc)
<1>1. Fits(acc) /\ Branches(acc)
  BY DEF Fits, Branches
<1>2. Closed({acc})
  BY <1>1, AccountNodeFacts DEF Closed
<1>3. AccountsUnder(acc) = {acc}
  BY <1>2, AccountsBelow
<1>4. QED
  BY <1>1, <1>2, <1>3 DEF Sound

LEMMA SoundIsTree == ASSUME NEW t, Sound(t) PROVE Trees!IsTree(t, Nat)
BY ClosedIsForest DEF Sound, Trees!IsTree

LEMMA TakesHere ==
  ASSUME NEW t, Sound(t), NEW acc \in AccountNodes, NEW p, p = <<>>, acc.path = t.path,
         NEW new, new = Trees!Inserted(t, p, acc)
  PROVE  Takes(new, t, p, acc)
<1>1. Trees!Inserted(t, p, acc) = Replace(<<t>>, acc)
  BY SoundIsTree, SingleChildLaw, Trees!InsertedHere
<1>2. Replace(<<t>>, acc) = acc
  BY DEF Replace
<1>3. new = acc
  BY <1>1, <1>2
<1>4. Sound(acc) /\ AccountsUnder(acc) = {acc}
  BY AccountIsSound
<1>5. t \in AccountNodes
  BY SoundFits, FittingNode, AccountNodeFacts
<1>6. AccountsUnder(t) = {t}
  BY <1>5, AccountIsSound
<1>7. QED
  BY <1>3, <1>4, <1>6 DEF Takes

(* A node with a new child, as a member of a set that is closed.            *)
LEMMA GraftIsClosed ==
  ASSUME NEW U, Closed(U), NEW t \in U,
         NEW V, Closed(V), NEW child \in V, Branches(child),
         NEW edge, NEW new, PutsUnder(new, t, edge, child)
  PROVE  Closed(U \cup V \cup {new})
<1>1. Fits(new)
  BY DEF PutsUnder, Fits
<1>2. ASSUME NEW d \in Digits(new)
      PROVE  Child(new, d) \in U \cup V /\ Branches(Child(new, d))
  <2>1. CASE d = Head(edge)
    BY <2>1 DEF PutsUnder
  <2>2. CASE d # Head(edge)
    <3>1. d \in Digits(t) /\ Child(new, d) = Child(t, d)
      BY <1>2, <2>2 DEF PutsUnder, Child
    <3>2. QED
      BY <3>1 DEF Closed
  <2>3. QED
    BY <2>1, <2>2
<1>3. QED
  BY <1>1, <1>2 DEF Closed

LEMMA GraftAccounts ==
  ASSUME NEW U, Closed(U), NEW t \in U,
         NEW V, Closed(V), NEW child \in V, Branches(child),
         NEW edge, NEW new, PutsUnder(new, t, edge, child)
  PROVE  \A n : n \in AccountsUnder(new)
                  <=> \/ n \in AccountsUnder(child)
                      \/ \E d \in Digits(t) \ {Head(edge)} : n \in AccountsUnder(Child(t, d))
<1>1. PICK W : W = U \cup V \cup {new}
  OBVIOUS
<1>2. Closed(W) /\ new \in W
  BY <1>1, GraftIsClosed
<1>3. IsInner(new)
  BY DEF PutsUnder
<1>4. \A n : n \in AccountsUnder(new) <=> \E d \in Digits(new) : n \in AccountsUnder(Child(new, d))
  BY <1>2, <1>3, AccountsBelow
<1>5. PICK h : h = Head(edge)
  OBVIOUS
<1>6. /\ Digits(new) = Digits(t) \cup {h} /\ Child(new, h) = child
      /\ \A d \in Digits(t) \ {h} : Child(new, d) = Child(t, d)
  BY <1>5 DEF PutsUnder, Child
<1>7. QED
  BY ONLY <1>4, <1>5, <1>6

(* The digit on which the path of an account leaves a node.                 *)
LEMMA LeavesOn ==
  ASSUME NEW t, t.path \in Seq(Nat), NEW p \in Seq(Nat), p # <<>>,
         NEW acc, acc.path = t.path \o p
  PROVE  acc.path[Len(t.path) + 1] = Head(p)
<1>1. PICK x, q : x = acc.path /\ q = t.path
  OBVIOUS
<1>2. q \in Seq(Nat) /\ x = q \o p
  BY <1>1
<1>3. \A i \in 1..Len(p) : x[Len(q) + i] = p[i]
  BY ONLY <1>2, p \in Seq(Nat), JoinFacts
<1>4. 1 \in 1..Len(p) /\ p[1] = Head(p)
  OBVIOUS
<1>5. QED
  BY ONLY <1>1, <1>3, <1>4

LEMMA GraftTakes ==
  ASSUME NEW t, Sound(t), IsInner(t), NEW acc \in AccountNodes,
         NEW p \in Seq(Nat), p # <<>>, acc.path = t.path \o p,
         NEW edge \in Seq(Nat), edge # <<>>, Head(edge) = Head(p),
         NEW sub, Sound(sub), Branches(sub), sub.path = t.path \o edge,
         \A n : n \in AccountsUnder(sub)
                  <=> \/ n = acc
                      \/ /\ Head(p) \in Digits(t)
                         /\ n \in AccountsUnder(Child(t, Head(p)))
                         /\ n.path # acc.path,
         NEW new, new = Trees!Grafted(t, edge, sub)
  PROVE  Takes(new, t, p, acc)
<1>1. PICK U : t \in U /\ Closed(U)
  BY DEF Sound
<1>2. PICK V : sub \in V /\ Closed(V)
  BY DEF Sound
<1>3. Fits(sub) /\ \A d \in Digits(t) : Fits(Child(t, d))
  BY <1>1, <1>2 DEF Closed
<1>4. PutsUnder(new, t, edge, sub)
  BY <1>3, GraftFits
<1>5. Sound(new)
  <2>1. Closed(U \cup V \cup {new})
    BY <1>1, <1>2, <1>4, GraftIsClosed
  <2>2. QED
    BY <2>1 DEF Sound
<1>6. PICK h : h = Head(p)
  OBVIOUS
<1>7. \A n : n \in AccountsUnder(new)
               <=> \/ n \in AccountsUnder(sub)
                   \/ \E d \in Digits(t) \ {h} : n \in AccountsUnder(Child(t, d))
  BY <1>1, <1>2, <1>4, <1>6, GraftAccounts
<1>8. \A n : n \in AccountsUnder(t) <=> \E d \in Digits(t) : n \in AccountsUnder(Child(t, d))
  BY <1>1, AccountsBelow
<1>9. \A d \in Digits(t) : \A n \in AccountsUnder(Child(t, d)) : n.path = acc.path => d = h
  <2>1. \A d \in Digits(t) : \A n \in AccountsUnder(Child(t, d)) :
          n.path[Len(t.path) + 1] = d
    BY <1>1, AccountsBelow
  <2>2. acc.path[Len(t.path) + 1] = h
    BY <1>6, LeavesOn DEF IsInner
  <2>3. QED
    BY <2>1, <2>2
<1>10. \A n : n \in AccountsUnder(sub)
                <=> \/ n = acc
                    \/ /\ h \in Digits(t)
                       /\ n \in AccountsUnder(Child(t, h))
                       /\ n.path # acc.path
  BY <1>6
<1>11. \A n : n \in AccountsUnder(new)
                <=> n = acc \/ (n \in AccountsUnder(t) /\ n.path # acc.path)
  BY ONLY <1>7, <1>8, <1>9, <1>10
<1>12. IsInner(new) /\ new.path = t.path /\ Digits(new) = Digits(t) \cup {h}
  BY <1>4, <1>6 DEF PutsUnder
<1>13. QED
  BY <1>5, <1>6, <1>11, <1>12 DEF Takes

LEMMA TakesLeaf ==
  ASSUME NEW t, Sound(t), IsInner(t), NEW acc \in AccountNodes,
         NEW p \in Seq(Nat), p # <<>>, acc.path = t.path \o p,
         Head(p) \notin Digits(t),
         NEW new, new = Trees!Inserted(t, p, acc)
  PROVE  Takes(new, t, p, acc)
<1>1. Trees!Inserted(t, p, acc) = Trees!Grafted(t, p, Replace(<<>>, acc))
  <2>1. Head(p) \notin DOMAIN t.children
    BY DEF Digits
  <2>2. QED
    BY <2>1, SoundIsTree, SingleChildLaw, Trees!InsertedLeaf
<1>2. Replace(<<>>, acc) = acc
  BY DEF Replace
<1>3. new = Trees!Grafted(t, p, acc)
  BY <1>1, <1>2
<1>4. Sound(acc) /\ AccountsUnder(acc) = {acc} /\ Branches(acc)
  BY AccountIsSound
<1>5. \A n : n \in AccountsUnder(acc)
               <=> \/ n = acc
                   \/ /\ Head(p) \in Digits(t)
                      /\ n \in AccountsUnder(Child(t, Head(p)))
                      /\ n.path # acc.path
  BY <1>4
<1>6. QED
  BY <1>3, <1>4, <1>5, GraftTakes

LEMMA MiddleIsSound ==
  ASSUME NEW U, Closed(U), NEW child \in U, Branches(child),
         NEW q \in Seq(Nat), NEW s \in Seq(Nat), s # <<>>, child.path = q \o s,
         NEW tree, tree = FromSingleChild(s, child)
  PROVE  /\ Sound(tree) /\ IsInner(tree) /\ tree.path = q /\ Digits(tree) = {Head(s)}
         /\ \A n : n \in AccountsUnder(tree) <=> n \in AccountsUnder(child)
<1>1. Middle(tree, child, q, s)
  BY MiddleFits DEF Closed
<1>2. /\ IsInner(tree) /\ tree.path = q /\ Digits(tree) = {Head(s)}
      /\ Child(tree, Head(s)) = child
  BY <1>1 DEF Middle
<1>3. Closed(U \cup {tree})
  BY <1>2 DEF Closed, Fits
<1>4. \A n : n \in AccountsUnder(tree) <=> \E d \in Digits(tree) : n \in AccountsUnder(Child(tree, d))
  BY <1>2, <1>3, AccountsBelow
<1>5. \A n : n \in AccountsUnder(tree) <=> n \in AccountsUnder(child)
  BY ONLY <1>2, <1>4
<1>6. Sound(tree)
  BY <1>3 DEF Sound
<1>7. QED
  BY <1>2, <1>5, <1>6

(* What an insertion into a child, or into a new node on the edge to it,    *)
(* makes of that.                                                           *)
LEMMA SubBranches ==
  ASSUME NEW child, Fits(child), Branches(child), NEW s \in Seq(Nat),
         NEW tree, Fits(tree), s = <<>> => tree = child, s # <<>> => Digits(tree) = {Head(s)},
         NEW inner \in Seq(Nat), s # <<>> /\ inner # <<>> => Head(s) # Head(inner),
         NEW acc \in AccountNodes, acc.path = tree.path \o inner,
         NEW sub, Takes(sub, tree, inner, acc)
  PROVE  Branches(sub)
<1>1. CASE inner = <<>>
  BY <1>1 DEF Takes, Branches
<1>2. CASE inner # <<>> /\ s = <<>>
  <2>1. tree = child /\ Digits(sub) = Digits(child) \cup {Head(inner)}
    BY <1>2 DEF Takes
  <2>2. child \notin AccountNodes
    <3>1. PICK q, x : q = child.path /\ x = acc.path
      OBVIOUS
    <3>2. q \in Seq(Nat) /\ x = q \o inner
      BY <2>1, <3>1, FittingNode
    <3>3. Len(x) = Len(q) + Len(inner)
      BY ONLY <3>2, inner \in Seq(Nat), JoinFacts
    <3>4. Len(q) \in Nat /\ Len(inner) \in Nat \ {0}
      BY ONLY <3>2, <1>2, inner \in Seq(Nat)
    <3>5. Len(x) = PathLength
      BY <3>1, AccountNodeFacts
    <3>6. Len(q) # PathLength
      BY ONLY <3>3, <3>4, <3>5
    <3>7. QED
      BY <3>1, <3>6, AccountNodeFacts
  <2>3. QED
    BY <2>1, <2>2 DEF Branches
<1>3. CASE inner # <<>> /\ s # <<>>
  <2>1. Digits(sub) = {Head(s)} \cup {Head(inner)} /\ Head(s) # Head(inner)
    BY <1>3 DEF Takes
  <2>2. QED
    BY <2>1 DEF Branches
<1>4. QED
  BY <1>1, <1>2, <1>3

LEMMA TakesWithin ==
  ASSUME NEW t, Sound(t), IsInner(t), NEW acc \in AccountNodes,
         NEW p \in Seq(Nat), p # <<>>, acc.path = t.path \o p,
         Head(p) \in Digits(t),
         \A u, q : Sound(u) /\ q \in Seq(Nat) /\ acc.path = u.path \o q /\ Len(q) < Len(p) =>
           Takes(Trees!Inserted(u, q, acc), u, q, acc),
         NEW new, new = Trees!Inserted(t, p, acc)
  PROVE  Takes(new, t, p, acc)
<1>1. PICK e, s, tree, inner : Trees!Descends(t, p, acc, e, s, tree, inner, Nat)
  BY SoundIsTree, SingleChildLaw, Trees!InsertedWithin DEF Digits
<1>2. PICK h, child, suffix, path :
        h = Head(p) /\ child = Child(t, h) /\ suffix = t.children[h].suffix /\ path = t.path
  OBVIOUS
<1>3. /\ e \in Seq(Nat) /\ e # <<>> /\ Head(e) = h
      /\ inner \in Seq(Nat) /\ p = e \o inner /\ Len(inner) < Len(p)
      /\ s \in Seq(Nat) /\ <<h>> \o suffix = e \o s
      /\ s # <<>> /\ inner # <<>> => Head(s) # Head(inner)
      /\ tree = IF s = <<>> THEN child ELSE FromSingleChild(s, child)
      /\ Trees!Inserted(t, p, acc) = Trees!Grafted(t, e, Trees!Inserted(tree, inner, acc))
  BY <1>1, <1>2 DEF Trees!Descends, Child
<1>4. PICK U : t \in U /\ Closed(U)
  BY DEF Sound
<1>5. child \in U /\ Fits(child) /\ Branches(child)
  BY <1>2, <1>4 DEF Closed
<1>6. path \in Seq(Nat) /\ child.path = path \o (<<h>> \o suffix) /\ acc.path = path \o p
  BY <1>2 DEF IsInner, Leads
<1>7. PICK q : q = path \o e
  OBVIOUS
<1>8. q \in Seq(Nat)
  BY ONLY <1>3, <1>6, <1>7
<1>9. child.path = q \o s
  <2>1. path \o (e \o s) = path \o e \o s
    BY ONLY <1>3, <1>6, Regroup
  <2>2. QED
    BY ONLY <1>3, <1>6, <1>7, <2>1
<1>10. acc.path = q \o inner
  <2>1. path \o (e \o inner) = path \o e \o inner
    BY ONLY <1>3, <1>6, Regroup
  <2>2. QED
    BY ONLY <1>3, <1>6, <1>7, <2>1
<1>11. /\ Sound(tree) /\ tree.path = q
       /\ s = <<>> => tree = child
       /\ s # <<>> => Digits(tree) = {Head(s)}
       /\ \A n : n \in AccountsUnder(tree) <=> n \in AccountsUnder(child)
  <2>1. CASE s = <<>>
    <3>1. tree = child
      BY <1>3, <2>1
    <3>2. q \o <<>> = q
      BY <1>8
    <3>3. Sound(child)
      BY <1>4, <1>5 DEF Sound
    <3>4. QED
      BY ONLY <1>9, <2>1, <3>1, <3>2, <3>3
  <2>2. CASE s # <<>>
    <3>1. tree = FromSingleChild(s, child)
      BY <1>3, <2>2
    <3>2. /\ Sound(tree) /\ IsInner(tree) /\ tree.path = q /\ Digits(tree) = {Head(s)}
          /\ \A n : n \in AccountsUnder(tree) <=> n \in AccountsUnder(child)
      BY ONLY <1>3, <1>4, <1>5, <1>8, <1>9, <2>2, <3>1, MiddleIsSound
    <3>3. QED
      BY ONLY <2>2, <3>2
  <2>3. QED
    BY ONLY <2>1, <2>2
<1>12. PICK sub : sub = Trees!Inserted(tree, inner, acc)
  OBVIOUS
<1>13. Takes(sub, tree, inner, acc)
  BY <1>3, <1>10, <1>11, <1>12
<1>14. Branches(sub)
  <2>1. Fits(tree)
    BY <1>11, SoundFits
  <2>2. acc.path = tree.path \o inner
    BY ONLY <1>10, <1>11
  <2>3. QED
    BY ONLY <1>3, <1>5, <1>11, <1>13, <2>1, <2>2, acc \in AccountNodes, SubBranches
<1>15. Sound(sub) /\ sub.path = path \o e
  BY ONLY <1>7, <1>11, <1>13 DEF Takes
<1>16. \A n : n \in AccountsUnder(sub)
                <=> \/ n = acc
                    \/ /\ Head(p) \in Digits(t)
                       /\ n \in AccountsUnder(Child(t, Head(p)))
                       /\ n.path # acc.path
  BY <1>2, <1>11, <1>13 DEF Takes
<1>17. new = Trees!Grafted(t, e, sub)
  BY <1>3, <1>12
<1>18. QED
  BY <1>2, <1>3, <1>14, <1>15, <1>16, <1>17, GraftTakes

(* Every insertion puts its account below the node it begins at.            *)
Leaves(u, q, acc) == Sound(u) /\ acc.path = u.path \o q
TakesAll(n, acc) ==
  \A u : \A q \in Seq(Nat) :
    Leaves(u, q, acc) /\ Len(q) < n => Takes(Trees!Inserted(u, q, acc), u, q, acc)

LEMMA InsertTakes ==
  ASSUME NEW t, Sound(t), NEW acc \in AccountNodes, NEW p \in Seq(Nat),
         acc.path = t.path \o p
  PROVE  Takes(Trees!Inserted(t, p, acc), t, p, acc)
<1> DEFINE B == {n \in Nat : TakesAll(n, acc)}
<1>1. \A q \in Seq(Nat) : Len(q) \in Nat
  OBVIOUS
<1>2. 0 \in B
  <2>1. \A n \in Nat : ~(n < 0)
    OBVIOUS
  <2>2. TakesAll(0, acc)
    BY ONLY <1>1, <2>1 DEF TakesAll
  <2>3. QED
    BY ONLY <2>2
<1>3. ASSUME NEW n \in Nat, n \in B PROVE n + 1 \in B
  <2>1. TakesAll(n, acc)
    BY <1>3
  <2>2. ASSUME NEW u, NEW q \in Seq(Nat), Leaves(u, q, acc), Len(q) < n + 1
        PROVE  Takes(Trees!Inserted(u, q, acc), u, q, acc)
    <3>0. Sound(u) /\ acc.path = u.path \o q
      BY <2>2 DEF Leaves
    <3>1. \A v, r : /\ Sound(v) /\ r \in Seq(Nat) /\ acc.path = v.path \o r
                    /\ Len(r) < Len(q)
                    => Takes(Trees!Inserted(v, r, acc), v, r, acc)
      <4>1. ASSUME NEW v, NEW r \in Seq(Nat), Leaves(v, r, acc), Len(r) < Len(q)
            PROVE  Takes(Trees!Inserted(v, r, acc), v, r, acc)
        <5>1. Len(r) \in Nat /\ Len(q) \in Nat
          BY <1>1
        <5>2. Len(r) < n
          BY ONLY <2>2, <4>1, <5>1, n \in Nat
        <5>3. QED
          BY ONLY <2>1, <4>1, <5>2 DEF TakesAll
      <4>2. QED
        BY ONLY <4>1 DEF Leaves
    <3>2. Fits(u) /\ u.path \in Seq(Nat)
      BY <3>0, SoundFits, FittingNode
    <3>3. CASE q = <<>>
      <4>1. acc.path = u.path
        BY <3>0, <3>2, <3>3
      <4>2. QED
        BY <3>0, <3>3, <4>1, TakesHere
    <3>4. CASE q # <<>>
      <4>1. IsInner(u)
        <5>1. PICK x, y : x = acc.path /\ y = u.path
          OBVIOUS
        <5>2. y \in Seq(Nat) /\ x = y \o q
          BY <3>0, <3>2, <5>1
        <5>3. Len(x) = Len(y) + Len(q)
          BY ONLY <2>2, <5>2, JoinFacts
        <5>4. Len(y) \in Nat /\ Len(q) \in Nat \ {0}
          BY ONLY <2>2, <3>4, <5>2
        <5>5. Len(x) = PathLength
          BY <5>1, AccountNodeFacts
        <5>6. Len(y) < PathLength
          BY ONLY <5>3, <5>4, <5>5
        <5>7. QED
          BY <3>2, <5>1, <5>6, FittingNode
      <4>2. CASE Head(q) \notin Digits(u)
        BY <3>0, <3>4, <4>1, <4>2, TakesLeaf
      <4>3. CASE Head(q) \in Digits(u)
        BY <3>0, <3>1, <3>4, <4>1, <4>3, TakesWithin
      <4>4. QED
        BY <4>2, <4>3
    <3>5. QED
      BY <3>3, <3>4
  <2>3. TakesAll(n + 1, acc)
    BY ONLY <2>2 DEF TakesAll
  <2>4. n + 1 \in Nat
    OBVIOUS
  <2>5. QED
    BY ONLY <2>3, <2>4
<1> HIDE DEF B
<1>4. \A n \in Nat : n \in B
  BY <1>2, <1>3, Trees!NatSetInduction
<1>5. PICK m : m = Len(p) + 1
  OBVIOUS
<1>6. m \in Nat /\ Len(p) < m
  BY <1>1, <1>5
<1>7. TakesAll(m, acc)
  BY <1>4, <1>6 DEF B
<1>8. Leaves(t, p, acc)
  BY DEF Leaves
<1>9. QED
  BY ONLY <1>6, <1>7, <1>8, p \in Seq(Nat) DEF TakesAll
-----------------------------------------------------------------------------
(***************************************************************************)
(* The tree of the genesis block.                                          *)
(***************************************************************************)
IsRoot(t) == Sound(t) /\ IsInner(t) /\ t.path = <<>>

(* The inductive invariant: the nodes of the tree fit together, and while   *)
(* stake_indexed_account runs its index is below the stake of the root.     *)
IInv ==
  /\ IsRoot(top)
  /\ walk \in {"none", "walking"}
  /\ walk = "walking" => stake_ix \in Nat /\ stake_ix < top.stats.stake

LEMMA EmptyRoot ==
  ASSUME NEW t, t = [EmptyNode(<<>>) EXCEPT !.stats.new_nodes = 1]
  PROVE  IsRoot(t) /\ \A n : n \notin AccountsUnder(t)
<1>1. PICK none : none = <<>> /\ DOMAIN none = {} /\ none \in Seq(Nat) /\ Len(none) = 0
  <2>1. <<>> \in Seq(Nat) /\ Len(<<>>) = 0 /\ DOMAIN <<>> = {}
    OBVIOUS
  <2>2. QED
    BY <2>1
<1>2. PICK stats : stats = [stake |-> 0, fee |-> 0, new_nodes |-> 1, prize |-> 0]
  OBVIOUS
<1>3. t = [path |-> none, children |-> none, last_main |-> None, account |-> None,
           new_action |-> None, prize |-> 0, signatures |-> None, stats |-> stats,
           failed |-> FALSE]
  BY <1>1, <1>2 DEF EmptyNode
<1>4. /\ t.path = none /\ t.children = none /\ t.account = None /\ ~t.failed
      /\ t.stats = stats /\ stats.stake = 0
  BY ONLY <1>2, <1>3
<1>5. IsNode(t)
  BY ONLY <1>2, <1>3, <1>4 DEF IsNode
<1>6. Digits(t) = {}
  BY <1>1, <1>4 DEF Digits
<1>7. SumOf(StakesOf(t), Digits(t)) = 0
  <2>1. SumOf(StakesOf(t), {}) = 0
    BY Trees!SumOfNone DEF SumOf
  <2>2. SumOf(StakesOf(t), Digits(t)) = SumOf(StakesOf(t), {})
    BY ONLY <1>6, Zenon
  <2>3. QED
    BY ONLY <2>1, <2>2
<1>8. IsInner(t)
  <2>1. t.path \in Seq(Nat) /\ Len(t.path) < PathLength
    BY ONLY <1>1, <1>4, GenesisAssumption
  <2>2. IsFiniteSet(Digits(t)) /\ \A d \in Digits(t) : Leads(t, d)
    BY <1>6, FS_EmptySet
  <2>3. t.stats.stake \in Nat /\ t.stats.stake = SumOf(StakesOf(t), Digits(t))
    BY ONLY <1>4, <1>7
  <2>4. QED
    BY ONLY <1>4, <1>5, <2>1, <2>2, <2>3 DEF IsInner
<1>9. Closed({t})
  BY <1>6, <1>8 DEF Closed, Fits
<1>10. \A n : n \in AccountsUnder(t) <=> \E d \in Digits(t) : n \in AccountsUnder(Child(t, d))
  BY <1>8, <1>9, AccountsBelow
<1>11. QED
  BY <1>1, <1>4, <1>6, <1>8, <1>9, <1>10 DEF IsRoot, Sound

(* What add_child_to_quorum_node does with an account.                      *)
LEMMA AddedAccount ==
  ASSUME NEW t, IsRoot(t), NEW acc \in AccountNodes,
         NEW new, new = AddChildToQuorumNode(acc, t)
  PROVE  /\ IsRoot(new)
         /\ \A n : n \in AccountsUnder(new)
                     <=> n = acc \/ (n \in AccountsUnder(t) /\ n.path # acc.path)
<1>1. PICK p : p = acc.path
  OBVIOUS
<1>2. p \in Seq(Nat) /\ Len(p) = PathLength /\ t.path = <<>>
  BY <1>1, AccountNodeFacts DEF IsRoot
<1>3. p # <<>>
  BY <1>2, GenesisAssumption
<1>4. IsPrefix(<<>>, p) /\ SubSeq(p, Len(<<>>) + 1, Len(p)) = p /\ <<>> \o p = p
  <2>1. <<>> \o p = p
    BY <1>2
  <2>2. SubSeq(p, Len(<<>>) + 1, Len(p)) = p
    BY <1>2
  <2>3. IsPrefix(<<>>, p)
    BY <1>2 DEF IsPrefix
  <2>4. QED
    BY ONLY <2>1, <2>2, <2>3
<1>5. new = Trees!Inserted(t, p, acc)
  BY <1>1, <1>2, <1>4, SameInsert DEF AddChildToQuorumNode, Trees!Inserted
<1>6. Takes(new, t, p, acc)
  <2>1. Sound(t) /\ acc.path = t.path \o p
    BY <1>1, <1>2, <1>4 DEF IsRoot
  <2>2. QED
    BY <1>2, <1>5, <2>1, InsertTakes
<1>7. QED
  BY <1>2, <1>3, <1>6 DEF Takes, IsRoot
-----------------------------------------------------------------------------
(***************************************************************************)
(* The inductive invariant.                                                *)
(***************************************************************************)
LEMMA FallsOnChild ==
  ASSUME IsRoot(top), stake_ix \in Nat, stake_ix < top.stats.stake
  PROVE  /\ \E d \in Digits(top) : FallsOn(d)
         /\ \A d \in Digits(top) : StakeBefore(d) \in Nat
<1> DEFINE f == StakesOf(top)
           D == Digits(top)
<1>1. IsInner(top) /\ \A d \in D : Fits(Child(top, d))
  BY DEF IsRoot, Sound, Closed
<1>2. /\ IsFiniteSet(D) /\ D \subseteq Nat
      /\ top.stats.stake = SumOf(f, D)
  BY <1>1 DEF IsInner, Leads
<1>3. \A d \in D : f[d] \in Nat /\ f[d] = Child(top, d).stats.stake
  BY <1>1, FittingNode DEF StakesOf
<1>4. \A d : StakeBefore(d) = SumOf(f, {c \in D : c < d})
  <2>1. \A d : {c \in D : c < d} \subseteq D
    OBVIOUS
  <2>2. QED
    BY <2>1, StakesAreSummed DEF StakeBefore
<1> HIDE DEF f, D
<1>5. \A d \in D : StakeBefore(d) \in Nat
  <2>1. ASSUME NEW d \in D PROVE SumOf(f, {c \in D : c < d}) \in Nat
    <3>1. PICK S : S = {c \in D : c < d}
      OBVIOUS
    <3>2. IsFiniteSet(S) /\ \A c \in S : f[c] \in Nat
      BY <1>2, <1>3, <3>1, FS_Subset
    <3>3. SumOf(f, S) \in Nat
      BY ONLY <3>2, SumInNat
    <3>4. QED
      BY ONLY <3>1, <3>3, Zenon
  <2>2. QED
    BY <1>4, <2>1
<1>6. \E d \in D : /\ Trees!SumOf(f, {c \in D : c < d}) <= stake_ix
                   /\ stake_ix < Trees!SumOf(f, {c \in D : c < d}) + f[d]
  <2>1. Trees!IsFiniteSet(D) /\ stake_ix < Trees!SumOf(f, D)
    BY <1>2, SameFinite DEF SumOf
  <2>2. \A d \in D : f[d] \in Nat
    BY <1>3
  <2>3. PICK ix : ix = stake_ix
    OBVIOUS
  <2>4. ix \in Nat /\ ix < Trees!SumOf(f, D)
    BY <2>1, <2>3
  <2>5. D \subseteq Nat
    BY <1>2
  <2>6. \E d \in D : /\ Trees!SumOf(f, {c \in D : c < d}) <= ix
                     /\ ix < Trees!SumOf(f, {c \in D : c < d}) + f[d]
    BY ONLY <2>1, <2>2, <2>4, <2>5, Trees!FallsOnSummand
  <2>7. QED
    BY ONLY <2>3, <2>6
<1>7. \E d \in D : FallsOn(d)
  <2>1. PICK d \in D : /\ Trees!SumOf(f, {c \in D : c < d}) <= stake_ix
                       /\ stake_ix < Trees!SumOf(f, {c \in D : c < d}) + f[d]
    BY <1>6
  <2>2. StakeBefore(d) = Trees!SumOf(f, {c \in D : c < d})
    BY <1>4 DEF SumOf
  <2>3. StakeBefore(d) <= stake_ix /\ stake_ix < StakeBefore(d) + Child(top, d).stats.stake
    BY ONLY <1>3, <2>1, <2>2
  <2>4. QED
    BY <2>3 DEF FallsOn
<1>8. QED
  BY <1>5, <1>7 DEF D

LEMMA InitIsInvariant == Init => IInv
BY EmptyRoot DEF Init, IInv

LEMMA IterateIsInvariant == IInv /\ Iterate => IInv'
<1> SUFFICES ASSUME IInv, Iterate PROVE IInv'
  OBVIOUS
<1> DEFINE chosen == {d \in Digits(top) : FallsOn(d)}
<1>1. /\ IsRoot(top) /\ walk = "walking" /\ top' = top
      /\ stake_ix \in Nat /\ stake_ix < top.stats.stake
  BY DEF IInv, Iterate
<1>2. chosen # {} /\ \A d \in chosen : StakeBefore(d) \in Nat
  BY <1>1, FallsOnChild
<1>3. ~(stake_ix >= top.stats.stake)
  <2>1. top.stats.stake \in Nat
    BY <1>1 DEF IsRoot, IsInner
  <2>2. QED
    BY <1>1, <2>1
<1>4. Len(top.path) # PathLength
  BY <1>1, GenesisAssumption DEF IsRoot, IsInner
<1>5. PICK d \in chosen : stake_ix' = stake_ix - StakeBefore(d) /\ walk' = walk
  BY <1>2, <1>3, <1>4 DEF Iterate
<1>6. StakeBefore(d) <= stake_ix
  BY <1>5 DEF FallsOn
<1>7. stake_ix' \in Nat /\ stake_ix' < top.stats.stake
  <2>1. top.stats.stake \in Nat /\ StakeBefore(d) \in Nat
    BY <1>1, <1>2 DEF IsRoot, IsInner
  <2>2. QED
    BY ONLY <1>1, <1>5, <1>6, <2>1
<1>8. QED
  BY <1>1, <1>5, <1>7 DEF IInv

LEMMA NextIsInvariant == IInv /\ [Next]_vars => IInv'
<1> SUFFICES ASSUME IInv, [Next]_vars PROVE IInv'
  OBVIOUS
<1>1. ASSUME NEW path \in AccountPaths, NEW stake \in Stakes, AddAccount(path, stake)
      PROVE  IInv'
  <2>1. InitializeAccountNode(path, stake) \in AccountNodes
    BY DEF AccountNodes
  <2>2. IsRoot(top')
    BY <1>1, <2>1, AddedAccount DEF AddAccount, IInv
  <2>3. QED
    BY <1>1, <2>2 DEF AddAccount, IInv
<1>2. CASE RandomAccount
  <2>1. top.stats.stake \in Nat
    BY DEF IInv, IsRoot, IsInner
  <2>2. stake_ix' \in Nat /\ stake_ix' < top.stats.stake
    BY <1>2, <2>1 DEF RandomAccount
  <2>3. QED
    BY <1>2, <2>2 DEF RandomAccount, IInv
<1>3. CASE Iterate
  BY <1>3, IterateIsInvariant
<1>4. CASE UNCHANGED vars
  BY <1>4 DEF vars, IInv
<1>5. QED
  BY <1>1, <1>2, <1>3, <1>4 DEF Next

LEMMA InvariantHolds == Spec => []IInv
BY InitIsInvariant, NextIsInvariant, PTL DEF Spec

(* stake_indexed_account never returns "total stake does not equal sum of   *)
(* child node total stakes!", nor that its index exceeds the total stake:   *)
(* in the tree of the genesis block the stake of the root is the sum of     *)
(* those of its children, so an index below it falls on one of them.        *)
THEOREM WalkMeetsNoError == Spec => []NoWalkError
<1>1. IInv => NoWalkError
  BY DEF IInv, NoWalkError
<1>2. QED
  BY <1>1, InvariantHolds, PTL

LEMMA BranchingNode ==
  ASSUME NEW n, Fits(n), Branches(n)
  PROVE  WellFormedNode(n)
<1>1. CASE n \in AccountNodes
  <2>1. Digits(n) = {} /\ Len(n.path) = PathLength /\ n.account # None
    BY <1>1, AccountNodeFacts
  <2>2. Cardinality(Digits(n)) = 0
    BY <2>1, FS_EmptySet
  <2>3. PathLength \in Nat
    BY GenesisAssumption
  <2>4. QED
    BY <2>1, <2>2, <2>3 DEF WellFormedNode
<1>2. CASE n \notin AccountNodes
  <2>1. IsInner(n) /\ \E c, d \in Digits(n) : c # d
    BY <1>2 DEF Fits, Branches
  <2>2. /\ IsFiniteSet(Digits(n)) /\ n.account = None
        /\ Len(n.path) \in Nat /\ Len(n.path) < PathLength /\ PathLength \in Nat
    BY <2>1, FittingNode, GenesisAssumption DEF IsInner
  <2>3. Cardinality(Digits(n)) # 0 /\ Cardinality(Digits(n)) # 1
    BY <2>1, <2>2, FS_EmptySet, FS_Singleton
  <2>4. QED
    BY <2>2, <2>3 DEF WellFormedNode
<1>3. QED
  BY <1>1, <1>2

(* However many accounts are added, in whatever order, no insertion fails,  *)
(* and every node of the tree but its root passes the checks on the shape   *)
(* of a node of verify_well_formed_quorum_node_body: an edge is split only  *)
(* where two accounts part.                                                 *)
THEOREM GenesisTreeIsWellFormed == Spec => []GenesisIsWellFormed
<1>1. IInv => GenesisIsWellFormed
  <2> SUFFICES ASSUME IInv PROVE GenesisIsWellFormed
    OBVIOUS
  <2>1. PICK U : top \in U /\ Closed(U)
    BY DEF IInv, IsRoot, Sound
  <2>2. ~top.failed
    BY DEF IInv, IsRoot, IsInner
  <2>3. ASSUME NEW node \in NodesOf(top), node # top
        PROVE  WellFormedNode(node)
    <3>1. node \in U /\ Branches(node)
      BY <2>1, <2>3, NodesBelow
    <3>2. QED
      BY <2>1, <3>1, BranchingNode DEF Closed
  <2>4. QED
    BY <2>2, <2>3 DEF GenesisIsWellFormed
<1>2. QED
  BY <1>1, InvariantHolds, PTL

(* The stake of every node, which replace_children adds up from those of    *)
(* its children, is that of the accounts below it: no insertion counts an   *)
(* account twice, or still counts one that it replaces.                     *)
THEOREM GenesisStakeAddsUp == Spec => []StakeAddsUp
<1>1. IInv => StakeAddsUp
  <2> SUFFICES ASSUME IInv, NEW node \in NodesOf(top)
               PROVE  node.stats.stake = MapThenSumSet(LAMBDA n : n.account, AccountsUnder(node))
    BY DEF StakeAddsUp
  <2>1. PICK U : top \in U /\ Closed(U)
    BY DEF IInv, IsRoot, Sound
  <2>2. node \in U
    BY <2>1, NodesBelow
  <2>3. node.stats.stake = SumOf(Held(U), AccountsUnder(node))
    BY <2>1, <2>2, StakesOfAccounts DEF IsStakeOfAccounts
  <2>4. PICK S : S = AccountsUnder(node)
    OBVIOUS
  <2>5. S \subseteq U
    BY <2>1, <2>2, <2>4, AccountsBelow
  <2>6. MapThenSumSet(LAMBDA n : n.account, S) = SumOf(Held(U), S)
    BY <2>5, AccountsAreSummed
  <2>7. QED
    BY <2>3, <2>4, <2>6
<1>2. QED
  BY <1>1, InvariantHolds, PTL
-----------------------------------------------------------------------------
(***************************************************************************)
(* The state of the chain that the tree stands for.                        *)
(***************************************************************************)
StakesIn(t) ==
  LET nodes == AccountsUnder(t)
  IN [path \in {n.path : n \in nodes} |-> (CHOOSE n \in nodes : n.path = path).account]

LEMMA HasStake ==
  ASSUME NEW t
  PROVE  \A q : q \in DOMAIN StakesIn(t) <=> \E n \in AccountsUnder(t) : n.path = q
<1>1. DOMAIN StakesIn(t) = {n.path : n \in AccountsUnder(t)}
  BY DEF StakesIn
<1>2. QED
  BY ONLY <1>1

LEMMA RootLookup ==
  ASSUME NEW t, IsRoot(t), NEW path \in Seq(Nat), Len(path) = PathLength
  PROVE  IsFound(t, path, path)
<1>1. PICK U : t \in U /\ Closed(U)
  BY DEF IsRoot, Sound
<1>2. path = t.path \o path
  BY DEF IsRoot
<1>3. QED
  BY <1>1, <1>2, LookupFacts

LEMMA RootAccounts ==
  ASSUME NEW t, IsRoot(t)
  PROVE  \A n \in AccountsUnder(t) :
           /\ n \in AccountNodes
           /\ n.path \in AccountPaths /\ Len(n.path) = PathLength
           /\ n.account \in Stakes
           /\ n.path \in DOMAIN StakesIn(t) /\ StakesIn(t)[n.path] = n.account
<1>1. PICK U : t \in U /\ Closed(U)
  BY DEF IsRoot, Sound
<1>2. \A n \in AccountsUnder(t) : n \in AccountNodes
  BY <1>1, AccountsBelow
<1>3. ASSUME NEW n \in AccountsUnder(t), NEW m \in AccountsUnder(t), m.path = n.path
      PROVE  m = n
  <2>1. n.path \in Seq(Nat) /\ Len(n.path) = PathLength
    BY <1>2, AccountNodeFacts
  <2>2. IsFound(t, n.path, n.path)
    BY <2>1, RootLookup
  <2>3. QED
    BY <1>3, <2>2 DEF IsFound
<1>4. ASSUME NEW n \in AccountsUnder(t)
      PROVE  n.path \in DOMAIN StakesIn(t) /\ StakesIn(t)[n.path] = n.account
  <2>1. (CHOOSE m \in AccountsUnder(t) : m.path = n.path) = n
    BY <1>3
  <2>2. QED
    BY <2>1 DEF StakesIn
<1>5. QED
  BY <1>2, <1>4, AccountNodeFacts

(* lookup_account finds the account of every path that has one, with what   *)
(* the list of accounts said of it last, and none of the others.            *)
THEOREM GenesisLookups == Spec => []LookupFindsAccounts
<1>1. IInv => LookupFindsAccounts
  <2> SUFFICES ASSUME IInv, NEW path \in AccountPaths,
                      NEW found, found = LookupAccount(top, path)
               PROVE  IF path \in DOMAIN MainStakes
                      THEN /\ found # None /\ found.path = path
                           /\ found.account = MainStakes[path]
                      ELSE found = None
    BY DEF LookupFindsAccounts
  <2>1. IsRoot(top)
    BY DEF IInv
  <2>2. path \in Seq(Nat) /\ Len(path) = PathLength
    BY GenesisAssumption
  <2>3. PICK S : S = Trees!NodeAt(top, path)
    OBVIOUS
  <2>4. /\ \A n : n \in S <=> n \in AccountsUnder(top) /\ n.path = path
        /\ \A a, b \in S : a = b
    BY <2>1, <2>2, <2>3, RootLookup DEF IsFound
  <2>5. /\ S = {} => found = None
        /\ S # {} => found \in S
    <3>1. Tree!NodeAt(top, path) = S
      BY <2>3, SameNodeAt
    <3>2. LookupAccount(top, path)
            = IF Tree!NodeAt(top, path) = {} THEN None
              ELSE CHOOSE node \in Tree!NodeAt(top, path) : TRUE
      BY ONLY DEF LookupAccount
    <3>3. (CHOOSE node \in Tree!NodeAt(top, path) : TRUE) = Trees!First(Tree!NodeAt(top, path))
      BY ONLY DEF Trees!First
    <3>4. Tree!NodeAt(top, path) # {}
            => Trees!First(Tree!NodeAt(top, path)) \in Tree!NodeAt(top, path)
      BY Trees!FirstIsElement
    <3>5. QED
      BY ONLY <3>1, <3>2, <3>3, <3>4, found = LookupAccount(top, path)
  <2>6. MainStakes = StakesIn(top)
    BY DEF MainStakes, StakesIn
  <2>7. path \in DOMAIN StakesIn(top) <=> \E n \in AccountsUnder(top) : n.path = path
    BY HasStake
  <2>8. CASE S = {}
    BY <2>4, <2>5, <2>6, <2>7, <2>8
  <2>9. CASE S # {}
    <3>1. found \in S
      BY <2>5, <2>9
    <3>2. found \in AccountsUnder(top) /\ found.path = path
      BY <2>4, <3>1
    <3>3. /\ found \in AccountNodes
          /\ path \in DOMAIN StakesIn(top) /\ StakesIn(top)[path] = found.account
      BY <2>1, <3>2, RootAccounts
    <3>4. found # None
      BY <3>3, AccountNodeFacts
    <3>5. QED
      BY ONLY <2>6, <3>2, <3>3, <3>4
  <2>10. QED
    BY <2>8, <2>9
<1>2. QED
  BY <1>1, InvariantHolds, PTL

(* The tree is read back as what genesis_state makes of the same list: a    *)
(* map from accounts to their stakes, in which every account added sets its *)
(* own entry and no other.                                                  *)
THEOREM GenesisCommutesWithState == Spec => CommutesWithState
<1>1. ASSUME NEW t, IsRoot(t)
      PROVE  DOMAIN StakesIn(t) \subseteq AccountPaths
  <2>1. \A q \in DOMAIN StakesIn(t) : q \in AccountPaths
    BY <1>1, HasStake, RootAccounts
  <2>2. QED
    BY <2>1
<1> DEFINE Read(t) == [path \in AccountPaths |->
                         IF path \in DOMAIN StakesIn(t) THEN StakesIn(t)[path] ELSE None]
<1>2. IInv => StakesOrNone = Read(top)
  <2> SUFFICES ASSUME IInv PROVE StakesOrNone = Read(top)
    OBVIOUS
  <2>1. MainStakes = StakesIn(top)
    BY DEF MainStakes, StakesIn
  <2>2. AccountPaths \cup DOMAIN StakesIn(top) = AccountPaths
    BY <1>1 DEF IInv
  <2>3. QED
    BY <2>1, <2>2 DEF StakesOrNone
<1>3. IInv' => StakesOrNone' = Read(top')
  <2> SUFFICES ASSUME IInv' PROVE StakesOrNone' = Read(top')
    OBVIOUS
  <2>1. MainStakes' = StakesIn(top')
    BY DEF MainStakes, StakesIn
  <2>2. AccountPaths \cup DOMAIN StakesIn(top') = AccountPaths
    BY <1>1 DEF IInv
  <2>3. QED
    BY <2>1, <2>2 DEF StakesOrNone
<1>4. Init => Abstract!Init
  <2> SUFFICES ASSUME Init PROVE Abstract!Init
    OBVIOUS
  <2>1. \A n : n \notin AccountsUnder(top)
    BY EmptyRoot DEF Init
  <2>2. \A q : q \notin DOMAIN StakesIn(top)
    BY <2>1, HasStake
  <2>3. Read(top) = [path \in AccountPaths |-> None]
    BY <2>2
  <2>4. QED
    BY <1>2, <2>3, InitIsInvariant DEF Abstract!Init
<1>5. IInv /\ [Next]_vars => [Abstract!Next]_StakesOrNone
  <2> SUFFICES ASSUME IInv, [Next]_vars PROVE [Abstract!Next]_StakesOrNone
    OBVIOUS
  <2>1. IInv'
    BY NextIsInvariant
  <2>2. ASSUME NEW path \in AccountPaths, NEW stake \in Stakes, AddAccount(path, stake)
        PROVE  Abstract!Next
    <3>1. PICK acc : acc = InitializeAccountNode(path, stake)
      OBVIOUS
    <3>2. acc \in AccountNodes /\ acc.path = path /\ acc.account = stake
      <4>1. acc \in AccountNodes
        BY <3>1 DEF AccountNodes
      <4>2. acc = [path |-> path, children |-> <<>>, last_main |-> None, account |-> stake,
                   new_action |-> None, prize |-> 0, signatures |-> None,
                   stats |-> [stake |-> stake, fee |-> 0, new_nodes |-> DataNodes, prize |-> 0],
                   failed |-> FALSE]
        BY ONLY <3>1 DEF InitializeAccountNode, EmptyNode
      <4>3. acc.path = path /\ acc.account = stake
        BY ONLY <4>2
      <4>4. QED
        BY ONLY <4>1, <4>3
    <3>3. IsRoot(top) /\ IsRoot(top') /\ top' = AddChildToQuorumNode(acc, top)
      BY <2>1, <2>2, <3>1 DEF IInv, AddAccount
    <3>4. \A n : n \in AccountsUnder(top')
                   <=> n = acc \/ (n \in AccountsUnder(top) /\ n.path # path)
      BY <3>2, <3>3, AddedAccount
    <3>5. ASSUME NEW q \in AccountPaths
          PROVE  Read(top')[q] = IF q = path THEN stake ELSE Read(top)[q]
      <4>2. CASE q = path
        BY <3>2, <3>3, <3>4, <4>2, RootAccounts
      <4>3. CASE q # path
        <5>1. \A n : n.path = q => (n \in AccountsUnder(top') <=> n \in AccountsUnder(top))
          BY <3>2, <3>4, <4>3
        <5>2. CASE q \in DOMAIN StakesIn(top)
          <6>1. PICK n \in AccountsUnder(top) : n.path = q
            BY <5>2, HasStake
          <6>2. n \in AccountsUnder(top')
            BY <5>1, <6>1
          <6>3. StakesIn(top)[q] = n.account
            BY <3>3, <6>1, RootAccounts
          <6>4. q \in DOMAIN StakesIn(top') /\ StakesIn(top')[q] = n.account
            BY <3>3, <6>1, <6>2, RootAccounts
          <6>5. QED
            BY <4>3, <5>2, <6>3, <6>4
        <5>3. CASE q \notin DOMAIN StakesIn(top)
          <6>1. q \notin DOMAIN StakesIn(top')
            BY <5>1, <5>3, HasStake
          <6>2. QED
            BY <4>3, <5>3, <6>1
        <5>4. QED
          BY <5>2, <5>3
      <4>4. QED
        BY <4>2, <4>3
    <3>6. Read(top') = [Read(top) EXCEPT ![path] = stake]
      BY <3>5
    <3> HIDE DEF Read
    <3>7. StakesOrNone' = [StakesOrNone EXCEPT ![path] = stake]
      BY <1>2, <1>3, <2>1, <3>6
    <3>8. QED
      BY <3>7 DEF Abstract!Next, Abstract!Set
  <2>3. ASSUME UNCHANGED top
        PROVE  UNCHANGED StakesOrNone
    BY <1>2, <1>3, <2>1, <2>3
  <2>4. QED
    BY <2>2, <2>3 DEF Next, RandomAccount, Iterate, vars
<1>6. QED
  BY <1>4, <1>5, InvariantHolds, PTL DEF Spec, CommutesWithState, Abstract!Spec
=============================================================================
