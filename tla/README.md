# A TLA+ model of mercatoria_rust

mercatoria_rust is the beginning of a blockchain: accounts are kept in a radix
hash tree, a block of the chain (a *main block*) names the root of such a
tree, and nodes of the tree are signed by quorums of accounts drawn by stake.
There is a library of data structures, a verifier, and the first roles of a
network node. This directory models the parts that have behaviour, checks them
with TLC on small instances and proves what holds for every instance with TLAPS.

Paths below are relative to the repository; `src/` holds the Rust sources.

## 1. Inventory

| Part | Source | State | Operations | What makes it correct |
|---|---|---|---|---|
| Account actions | `src/account_transform.rs` | `AccountTransform.fields_set`, on top of the last main block | `run_action` (send, receive), `pay_fee`, `do_send`, `do_receive`, `mk_send`, `mk_receive` | money is conserved, nothing takes effect twice, a receive matches a send |
| State machine | `src/state_machine.rs` | `MainState`: a map from accounts to fields | `genesis_state`, `get_next_main_state`, `get_main_state` | its diagram commutes: stepping trees and stepping states agree (lines 1-10) |
| Radix hash trees | `src/account_construction.rs`, `src/queries.rs`, `src/blockdata.rs` | immutable nodes in a store | `insert_into_rh_tree`, `rh_follow_path` | a tree is a map; its hash does not depend on its history |
| Account data | `src/account_construction.rs` | a tree of `DataNode`s | `insert_into_data_tree`, `lookup_data_in_account`, `add_action_to_account` | setting a field sets that field only |
| Quorum tree | `src/construction.rs`, `src/blockdata.rs` | a tree of `QuorumNode`s with statistics | `genesis_block_body`, `add_child_to_quorum_node`, `best_super_node`, `next_main_block_body` | statistics are sums; the result passes verification |
| Selection | `src/queries.rs` | none: computed from older blocks | `random_account`, `miner_and_signers_by_prev_block`, `quorums_by_prev_block`, `block_with_version` | everyone draws the same, in proportion to stake; it returns |
| Verification | `src/verification.rs` | none | `verify_endorsed_quorum_node`, `verify_valid_endorsed_main_block` and what they call | accepts what construction makes and nothing that breaks the state machine |
| Query sender | `src/network/message_sender.rs` | `message_id`, `handlers` behind locks; one `QueryResult` per query | `send_and_receive_reply`, `handle_event` | each query ends once, with its own reply, a timeout or an error |
| Compute graph | `src/network/graph.rs` | `states`, `by_time` of each node | `receive_msg`, `receive_comp`, `tick` | each computation is run once, on time, with its inputs |
| Hash operations, peers | `src/network/hash_ops.rs`, `peer_tracker.rs` | a set of peers | `add_peers`, `hash_to_storing_peers`; lookups are a TODO | who stores and who looks for a hash choose a common peer, although they know different ones |
| Stores, hashes, paths | `src/hashlookup.rs`, `crypto.rs`, `hex_path.rs` | a map from hashes to bytes | `put`, `lookup`, conversions | - |
| Log, keys, roles | `src/network/log.rs`, `keys.rs`, `role.rs`, `message.rs`, `event.rs` | none that changes | - | - |

How the parts interact. Construction and verification both call the account
actions (through `add_action_to_account`), which read older data with the
queries. Verification draws quorums with the selection, which walks the tree of
an older block. The state machine runs the same actions on plain maps. The
network roles are not connected to the chain yet: `HashOps` is meant to turn a
lookup into a query of `QuerySender`, but its lookup is a TODO, and nothing
calls `ComputeNode`.

What is hard. The chain is sequential code on immutable data, so what can go
wrong there are long sequences of legal calls: replays over several blocks,
edges of trees that are split again and again, sums that must follow, arithmetic
at borders. The network roles are concurrent: locks held across awaits, replies
racing timeouts, messages that are repeated, late or lost, and errors in the
middle of a batch. `PROJECT.json` lists every such hazard at its line, with the
properties that cover it.

## 2. Modules

| Module | Models | State and actions |
|---|---|---|
| `LedgerTypes` | `SendInfo`, `AccountState`, `MainState`, main blocks | the data of the ledger |
| `Ledger` | `account_transform.rs`, `state_machine.rs` | `main`, the tree of main blocks; `NextMain(p)` extends block `p` by one action at most per account |
| `Transfers` | what `Ledger` promises | accounts stand still, spend or collect |
| `LedgerProofs` | | theorems about `Ledger` |
| `RadixTree` | `insert_into_rh_tree`, `rh_follow_path` | operators, for any kind of node |
| `RadixTreeProofs` | | the equations that the loop and the recursion of `RadixTree` obey; lemmas about sums over finite sets |
| `DataTree` | data trees of accounts, `lookup_data_in_account` | `data_tree`; `InsertIntoDataTree` |
| `AccountState` | `get_account_state` | the fields of a tree as a whole (`FieldsOf`), and the one tree that fields determine (`CanonicalTree`) |
| `FieldMap` | what a tree promises | a map; `Set` |
| `DataTreeProofs` | | theorems about `DataTree` and `AccountState` |
| `QuorumTree` | `QuorumNode` as a radix hash node, `add_child_to_quorum_node`, account lookups, the shape conditions of verification | operators |
| `Genesis` | `genesis_block_body`, `stake_indexed_account` | `top`; `AddAccount`; then `RandomAccount` and `Iterate`, a turn of the loop |
| `GenesisProofs` | | theorems about `Genesis` and the operators of `QuorumTree` |
| `Verification` | `verification.rs` on quorum nodes, `add_action_to_account`, the last main block | operators |
| `Construction` | `construction.rs` after the genesis block | `pool`, the nodes with scores; `AddAction`, `MakeInnerNode`, `MakeRoot`; `main`, what is read back from the root |
| `Endorsement` | what a network may put after the last main block, by other means than `construction.rs` | `put`, the nodes put; `PutAction`, `Initialize`, `Combine`, each of which may also sign or change the node |
| `Selection` | the draws of miners, signers and quorums in `queries.rs` | operators on chains of main blocks |
| `MainChain` | main blocks in `verification.rs`, `next_main_block_body` | `known`, the chains found valid and endorsed; `Offer` of any body with any signatures |
| `MainChainProofs` | | theorems about `MainChain` |
| `HashOps` | `hash_ops.rs`, `peer_tracker.rs` | `peers` of each node; `AddPeers` |
| `HashOpsProofs` | | theorems about `HashOps` |
| `QuerySender` | `message_sender.rs` | one program counter per query, one activity per event task, the lock, the handlers; an action for each stretch of code between two points where another task may run |
| `QuerySenderProofs` | | theorems about `QuerySender` |
| `ComputeNode` | `graph.rs` | `states`, `by_time` and the running `tick` of each address, the network; `ReceiveMsg`, `ReceiveComp`, `TickStart` and the steps of a tick |
| `ComputeNodeProofs` | | theorems about `ComputeNode` |
| `MC...` | | values of the constants, for TLC |

Definitions whose names end in an underscore and a word (`CanReceive_Again`) are
faulty variants of the definition that follows them. They are used by no
specification: they document which mistake each property catches, and
`PROJECT.json` (`mutants`) says which property that is.

How they are composed: `Verification` extends `QuorumTree` and takes
`Ledger` (`INSTANCE`) to run actions on what is read from the last tree;
`Endorsement` and `Construction` extend it. `Construction` implements
`Ledger`: the tree of its root is read back as the next block of a ledger, which
is the diagram of `state_machine.rs:1-10`. `MainChain` extends `Selection`; what
verification says of the tree of a block is a constant operator there,
`TreeEndorsed`, of which nothing is assumed, as trees and chains together would
be too many states.

A module that theorems are about has no `RECURSIVE` operator. `RadixTree` writes
the loop of `rh_follow_path` and the recursion of `insert_into_rh_tree` as
functions of the number of turns or of calls: a loop has ended after as many turns
as the path has digits (a turn takes one at least, or changes nothing more), and
calls are nested no deeper than that. `Turn` is the body of the loop, `Returns` what
a call does with the result of the call within it; that the numbers are large
enough is proved. `QuorumTree` and `AccountState` read a tree as a whole (`NodesOf`,
`Visits`) level by level, as functions of the number of the level. Only verification is
recursive over the tree (`VerifyEndorsed`, and `LookedInto` in `Endorsement`), and is
used by TLC only.

### Abstractions

* A hash is the value it is the hash of. A block is a number in the tree of
  blocks, `Hash<SendInfo>` is the `SendInfo`, a tree of hashes is a nested value.
  Collisions and missing entries of the store are not modelled.
* A signature is the name of the account that made it; an invalid one is
  `"invalid"` in `Ledger` and `None` elsewhere.
* The last main block is the genesis block in `Verification`, so that its tree is
  one that the program makes, and its quorums are a constant operator. Gas is left
  out: no node has any. `DataNodes` stands for the number of data nodes that an
  action puts, which is what `DataTree` is about.
* Of the nodes that verification is given, `Endorsement` makes those of actions,
  new accounts without one, another main block, statistic or balance in either,
  a list of signatures on either, and nodes that combine up to three of all these with
  those of the last block. It has no nodes whose paths contradict their place.
* A main block of `MainChain` is the sequence of what it and its ancestors say:
  a hash of it stands for all of that. `RandVal` (a hash), `Stake` and `AccountAt`
  (what a tree says) are constant operators; `AccountAt` may be `None` in the
  proofs, for no walk by stake returns as the code stands (section 5).
* A hash code is a sequence of `Bits` bits, compared as the bytes of the code are.
* A path is a sequence of digits; the code has 16 digits and account paths of 64,
  the instances two or three digits and paths of three or four.
* `Ledger` keeps of an account its balance, its stake and which sends it has
  recorded and received. The public key follows from the account. Prizes and gas
  take no part in what an action does to an account.
* `get_next_account_state` is given the state of the last main block both as a
  map and as a tree (the latter through its store); `Ledger` takes the two to be
  equal, which is what `DataTree` and `Genesis` are about.
* A send is looked up, as the code does, in the data of the *receiving* account
  (see the findings). `HasSendField` models the line as it is.
* What an action set is applied to the account only when it succeeds
  (`src/state_machine.rs:217`), so an action is one step of `Ledger`; an action that
  fails half way is one that is not accepted.
* `u128` is `0..MaxU128` with a small `MaxU128`. An addition that exceeds it
  panics (the `dev` and `test` profiles check overflow), so it has no next state;
  `NoOverflow` shows that this excludes nothing. Sums over the nodes of a quorum tree
  (stakes, fees, prizes) are unbounded numbers: the code does not keep genesis
  accounts from having stakes whose sum exceeds a `u128`.
* `RadixTree` and `QuorumTree` return a new tree where the code puts nodes into
  a store, and a set of at most one node or position for an `Option`; an error in `replace_children`, `from_single_child` or `replace` sets
  `failed` in the node, which every node above it inherits.

## 3. Runs

Every run is exhaustive. Times are on two workers.

| Run | Shows | Bounds | States |
|---|---|---|---|
| `ledger` | `TypeOK`, `MoneyConserved`, `ReceivedWereSent`, `SendsTiedToBranch`, `NoOverflow`, refinement of `Transfers` | 3 accounts, one not in the genesis block; 4 main blocks; amounts {1}, fees {0, 2}, so that a fee may exceed what was just received; `MaxU128` = 4 | 124,049, 13 s |
| `data_tree` | refinement of `FieldMap`: what lookups find; `LookupAgrees`, `Canonical`, `NewNodesCounted` | 6 fields over 2 digits, 2 values, every path up to length 4 looked up | 2,701, 31 s |
| `genesis` | refinement of the map of accounts; `GenesisIsWellFormed`, `StakeAddsUp`, `NoWalkError`, `LookupFindsAccounts` | 5 accounts, stakes {0, 1, 2}, every index | 4,864, 30 s |
| `compute_node` | `TypeOK`, `TimestampsHaveInputs`, `RunsOnce`, `RunsWithInputs`, and under fairness `RunsWhereNothingFails` | 2 addresses, errors at one of them, 3 computations, 4 messages, time 0..2 | 245,602, 92 s |
| `endorsement` | `AccountsFollow`, `AccountsKept`, `EndorsedStake`, `ActionsEndorsed` of what is put; `StakeAddsUp`, `HighestScoreWins`, refinement of `Ledger` of what is constructed | 3 accounts in the genesis block and 2 invented, 4 requests; up to 3 nodes put; up to 3 nodes with scores {1, 3}, combined in every order | 208,491, 70 s |
| `main_chain` | `TypeOK`, `OneBlockPerPeriod`, `NoVersionError`, `NoInfluence`, `StakeSettled`, `QuorumsKept`, `ProposalsAreAccepted` | up to 5 blocks, versions to 4, 6 timestamps, 3 trees, one of them not a root, 2 options, 4 lists of signatures | 13,077, 65 s |
| `hash_ops` | `TypeOK`, `NoPanic`, `RepliesMatch` of queries, `LookupsMeet` of peers | 3 queries, 2 event tasks, time 0..1, timeouts {0, 1}; 2 nodes, 5 peers, 3 bits, 2 copies | 235,875, 15 s |
| `receive`, `stake_walk`, `compute_fails`, `query_answered`, `old_children` | findings, section 5: each stops at a counterexample | | |

Two runs explore two things that do not depend on each other, each while the other
has not begun: a `HashOps` has a `PeerTracker` and a `QuerySender`, and nothing
passes from one to the other as long as lookups are a TODO; and what `Construction`
makes and what `Endorsement` has others put are two ways to nodes after the same
block, each with its own properties. Their states add up and do not multiply, and
no property relates one to the other.

Why the bounds are enough for the interesting cases:

* `ledger`: four blocks allow a chain of three actions (send, receive, receive
  again), and forks at every block, so that a send of one branch can be tried on
  another. `MaxU128` = 4 is the largest genesis balance, so the smallest excess
  overflows. Three accounts give a sender, a receiver and one to be created.
* `data_tree`: the fields include the root, a field on the way to two others,
  edges of several digits, and fields that split an edge at its first and at a
  later digit. All orders of setting and overwriting them are reached.
* `genesis`: the accounts include two that differ in the last digit and one that
  splits the edge to them. Adding an account twice replaces it.
* `hash_ops`: two tasks are the least that race for one handler; the third
  query takes the lock while one waits and one has failed. Queries and tasks are
  symmetric (the run checks no liveness, so symmetry is sound). Five peers and two
  copies let nodes differ by up to three peers, above and below what `LookupsMeet`
  allows.
* `query_answered` checks an eventuality, without symmetry, of two queries and one
  task; its only timeout is 0, so that every timeout is over before the clock stops.
* `compute_node`: one computation is run by two nodes, so its outputs are sent
  twice; two computations are due at the same time; one message is an input of
  none. The clock goes one beyond the last time, since a computation is run at
  the first tick *after* its time.
* `endorsement`: three nodes put are two accounts and a parent, or an account, its
  parent and the parent's parent; the paths include the root, an inner node that
  the last block has, and one that it has not. A quorum in which one account was
  drawn twice, lists with all members, and one without a member. Three nodes with
  scores are two nodes for one account and one for its
  neighbour, or a node made by an earlier call beside nodes of actions. The
  inner paths include that of a node of the last block and one within an edge.
* `main_chain`: five blocks with periods of two reach the third period, the first
  in which seed and stakes are drawn from different blocks; branches fork at every
  block. Timestamps include negative ones, as an `i64` has, and one that is no
  multiple of the period. One signer may be drawn twice.

Deadlock is checked except in `ledger`, `receive`, `endorsement`, `old_children` and
`main_chain`, where the tree of blocks, or the set of nodes, is complete when its
bound is reached.

### Bounds in the modules

`MaxMain` (`Ledger`) and `MaxTime` (`QuerySender`, `ComputeNode`) guard the one
action that would make the state space infinite: adding a block, advancing the
clock. So do `MaxPool` (`Construction`; nodes made), `MaxPut` (`Endorsement`), `MaxVersion`
and `MaxKnown` (`MainChain`; the length and the number of chains). `MaxLength`
(`AccountState`) guards nothing: it is the length of the longest path of a field, by
`LengthAssumption`, and so the number of levels that a walk visits. `Amounts`, `Fees`, `Timeouts`, `Stakes` are the inputs enumerated.

### Fairness

* `ComputeNode!FairSpec`: weak fairness of the clock and of each node's ticks.
  `tick` is written to be called again and again. Nothing is assumed of messages,
  nor of the node at which errors happen beyond its being ticked.
* `QuerySender!FairSpec`, for the finding `query_answered`: weak fairness of the
  clock, of each call and of the handling of each event, and strong fairness of
  ticks, which a task can only take between events. That a waiting call is polled
  again and again is more than the code arranges for
  (`src/network/message_sender.rs:100` keeps no waker), so the wait that is found
  is not for want of a poll. Replies need not come.
* `Genesis!FairSpec`: weak fairness of `Iterate`, a loop that is not interrupted.

## 4. Proofs

`tlapm` checks every step of the eight proof modules. They hold for all values
of the constants that meet the named assumptions (`LedgerAssumption`,
`NoAccountAssumption`, `AccountsAreFinite`, `DataTreeAssumption`, `LengthAssumption`,
`GenesisAssumption`, `NoneAssumption`, `QuerySenderAssumption`, `ComputeAssumption`,
`SelectionAssumption`, `MainChainAssumption`, `HashOpsAssumption`), which only give
the constants their types, keep "none" apart from values, let there be finitely
many accounts (a hash has 256 bits), bound the length of the paths of fields (those
of `src/account_transform.rs` are a name and a hash at most), start from a genesis
block of version 0, and give different peers different hash codes.

**Ledger** (`LedgerProofs`). `TypeCorrect` (no balance leaves `0..MaxU128`),
`CreditsWereSent`, `NoReplay` and `LedgerImplementsTransfers`. The inductive
invariant is `IInv`: types; `PrevIsOlder`, a block's predecessor is an earlier
block; `SendsAreOwn`, what is recorded under an account was sent by it after an
earlier block; `ReceivedAreOwn`, what is marked as received names the account and
is recorded by its sender; and `SendsTiedToBranch`. The last is not inductive
alone: that a *new* send has not been recorded needs that recorded sends carry
the number of an earlier block. A block is added by `Append`, so nothing said of
older blocks changes and each part has to be proved for the new block only, by
cases on what each account did.

`MoneyIsConserved` and `BalancesDoNotOverflow` are about sums, and rest on the
invariant `IInv /\ SumInv`: every block follows from its predecessor by moves of
its accounts (`BlocksMove`), each of which changes what the account holds and has
in transit by exactly its fee; an account holds finitely many sends; and what it
may still receive fits on top of its balance (`PendingIsCovered`). The last is
inductive because an account only ever receives what it sent itself (section 5):
the amount was taken from the balance before. What sums do when an element is
taken out or put in, or when two functions are added, is proved once, in
`RadixTreeProofs`: that a finite set has a sum at all is shown by a set without one
that is smallest, so that no induction over sets is needed.

**Radix trees** (`RadixTreeProofs`, `DataTreeProofs`). `DataTreeIsFieldMap`: a data
tree is a map. `DataNodesAreWellFormed`: below the root, every node has a field or
two children at least, as `data_node_well_formed` asks. Both hold for paths of any
length over any digits and for any number of insertions. The argument has three layers:

* The functions of turns and calls in `RadixTree` are defined by recursion on a
  number. `RecursionIsDefined` shows by induction (over a set of numbers,
  `NatSetInduction`) that they obey their equations, `EnoughTurns` and
  `EnoughCalls` that the length of the path is a large enough number. What is left
  is how a programmer reads the code: `NodeAtEquation` (the node at a path is the
  one at the rest of the path from the child) and `InsertEquation` (an insertion
  does something with the result of an insertion into a child, or into a new node
  in the middle of an edge).
* A tree is a member of a *forest*, a set of nodes that holds the children of each
  (`IsForest`). This is what a recursive type would say without its induction,
  which is not needed: paths get shorter at each call, so all inductions are on
  their length.
* `ValueAt` is what a lookup finds. An insertion makes a tree whose `ValueAt` is
  the old one but for the path inserted (`InsertSets`). The case that matters is
  that of a path that leaves an edge (`InsertWithin`): the edge is the shared digits
  `e` followed by the rest `s`, the path is `e` followed by `inner`, and what is
  found beyond `e` and then beyond `s` is what was found beyond the whole edge
  (`PathAfterPath`). For the shape of the tree, the first digits of `s` and `inner`
  differ, so that the new node in the middle gets a second child, unless `inner` is
  empty and it gets a field (`KeepsWithin`).

`DataTreeProofs` takes `RadixTreeProofs` as an instance, for data nodes, of lemmas
that hold for any kind of node whose `from_single_child` makes that child.

Three more theorems are about a data tree as a whole, for fields of any length up to
`MaxLength` over any digits:

* `WalkAgreesWithLookups`: `get_account_state` finds the fields that lookups find. The
  levels of a walk visit, each with its path, exactly the nodes that lookups find
  (`VisitsAreLookups`: from the root down by induction on the level, and back from
  the fact that a node other than the root is the child of one on the way to it).
  They find all of them, since no path to a node is longer than `MaxLength`
  (`TreesAreShallow`), which holds as every node below the root has a field under it.
* `NewNodesAreCounted`: an insertion leaves the nodes at all paths as they are but at
  those that its own path goes through, and the nodes it has there are no more than it
  counts (`Puts`), in each case of a call: one for the node at the end, two for a new
  leaf under a node, one more for each call.
* `TreeIsCanonical`: the tree is the one that branches where the paths of its fields
  part, so its hash does not depend on their order. It rests on the shape
  (`DataNodesAreWellFormed`): a node with a field, or with two children that have
  fields below them, is a point at which paths of fields end or part (`EndOfNode`),
  and between two nodes nothing parts, so that an edge ends where the longest common
  prefix of the fields beyond it does (`EdgeIsEnd`). `CanonicalTree` is a recursive
  function, for which it has to be shown that it is defined: the nodes of the tree
  itself meet its equation (`BelowIsDefined`), and whatever meets it is the tree, by
  induction from the longest paths up (`BelowIsTree`).

**Genesis** (`GenesisProofs`, with `RadixTreeProofs` as an instance for quorum nodes).
Five theorems about the tree of the genesis block, for accounts of any length over
any digits, any stakes and any order of adding them: `GenesisTreeIsWellFormed` (no
insertion fails, and every node has the shape that verification asks for),
`GenesisStakeAddsUp` (the stake of every node is that of the accounts under it),
`GenesisLookups`, `GenesisCommutesWithState` (adding an account is setting it in the
map of `genesis_state`) and `WalkMeetsNoError`. The inductive invariant `IInv` says that
the root is *sound*: a member of a closed set of nodes that fit together, as a forest
is for data trees, with paths, statistics and shapes that fit those of the children;
and that the index drawn stays below the stake of the root while the walk goes on. It
speaks of some set of nodes, so TLC cannot evaluate it; what TLC checks is what
follows from it. The lemmas:

* `NodesOf` reads a tree level by level. That the levels end at the accounts
  (`AccountsBelow`) holds since a child's path is longer than its parent's.
* The sum over a node's children is that over its accounts: induction from the
  accounts up, with `SumOfSums`, a sum over a set that falls into disjoint parts.
* A lookup finds a node if and only if it is read by levels: induction on the rest of
  the path, for two children of a node have no account in common.
* An insertion returns a sound tree whose accounts are the old ones, without the one
  at the new path, and the new one: induction on the path, with a case each for an
  account replaced, a new child, and a call for a child or for a node in the middle
  of an edge. A middle node gets a second child, for it is made where two paths of
  the same length part.
* Of numbers that add up to a total, an index below it falls on exactly one
  (`FallsOnSummand`), which is what the loop of `stake_indexed_account` rests on.

**QuerySender** (`QuerySenderProofs`). `TypeCorrect`, `HandlersRunOnce`,
`RepliesAreMatched`, `NothingIsAnswered`. The invariant says
where the handler of a query can be: in `handlers` or in the hands of one event
task, in one copy; that ids of handlers are the ids of their queries and are
unique, as `message_id` only grows; and that a query that is sending or waiting
holds the lock and has its handler registered. From the first two, a result is
written at most once. From the third, a waiting query's result stays empty, for
whoever would write it has to take the lock first: `NothingIsAnswered` says that what
the run `query_answered` finds is so for any number of queries and tasks.

**ComputeNode** (`ComputeNodeProofs`). `TypeCorrect`, `NoTimestampError`,
`AtMostOnce`, `NoInputLost`. `IInv` adds to these: `QueueIsRight`, each entry of
`by_time` is at the time of its computation and only where it is run;
`InputsAreDelivered`, the inputs collected are the messages delivered, and a
computation not heard of has none; `PendingNotRun`, what waits in `states` or in
a tick has not been run. That a tick runs no computation twice needs that it
holds no two entries for one computation, which follows from their inputs being
determined by what was delivered.

**MainChain** (`MainChainProofs`). `TypeCorrect`, `VersionsNumberBlocks`,
`WalksFindBlocks`, `StakesAreSettled`, `QuorumsAreKept`, `BlocksHaveNoInfluence`,
`BlocksTakeTime`, `ProposalsPass`. The inductive invariant is `TypeOK` with
`ChainsWellFormed`: a chain is known with all its ancestors, and a version is a
position. From it `block_with_version` finds the ancestor at any version up to
the tip's (the walk cannot stop earlier, for versions grow by one), and the rest
is arithmetic on rounded versions: that `Rounded` and `RoundedBefore` are in
`0..version`, that the second is below the first except in the first period, and
that a predecessor in the same period rounds alike. `QuorumsKept` and `NoInfluence`
then follow as both draws are functions of that ancestor. `OneBlockPerPeriod` has
an invariant of its own (`TimeInv`), which adds that every block but the first is
at a multiple of the period and that the period is not zero; of two multiples the
greater is a period greater.

**HashOps** (`HashOpsProofs`). `TypeCorrect`, `NodesMeet`, `LearningKeepsPeers`.
Of the peers that two nodes have in common take the one closest to the code: all
peers that one node finds closer are unknown to the other, so that by assumption
they are fewer than `Copies`, and the peer is chosen by both. That a finite set
has a closest peer needs that distances are different and ordered, a fact about
exclusive or. `StillFound` is the case in which one of the two sets of peers
contains the other, as happens when a node learns of more.

`ChainsWellFormed`, `StillFound` and `NodesWellFormed` are only proved: each follows
from, or is what stands behind, a property that a run checks (`NoVersionError`,
`LookupsMeet`, `Canonical`). So is `NoAnswer`, whose opposite a run refutes.

Only model-checked:

* quorum trees after the genesis block (`Verification`, `Endorsement`,
  `Construction`): verification is recursive over the tree, and they put nodes that
  are whole trees where the genesis block puts accounts. What `RadixTreeProofs`
  says of insertions and lookups holds for their nodes as well;
* liveness.

## 5. What was found

* **A receive cannot see another account's send** (`receive`).
  `get_data_field_bytes` ignores its parameter `acct` when it reads the last main
  block (`src/account_transform.rs:127`). Only a send to oneself can be received,
  and `receive` never creates an account.
* **The walk by stake does not descend** (`stake_walk`). The loop of
  `stake_indexed_account` continues with the same node (`src/queries.rs:185`) and
  never returns, so neither a miner nor a quorum can be drawn.
* **A failing computation takes others with it** (`compute_fails`). See
  `src/network/graph.rs:125` and `:155`. `RunsWhereNothingFails` shows that it takes
  none at other addresses with it.
* **A query waits with the lock held** (`query_answered`). The guard taken at
  `src/network/message_sender.rs:149` lives until after the wait at line 152, and
  whoever would answer needs it (lines 162, 176), though line 134 promises to return
  the reply. With the guard dropped before the wait, `QueriesAreAnswered`, `NoPanic`
  and `RepliesMatch` all hold for the bounds of these runs.
* **The check for dropped children panics** (`old_children`).
  `src/verification.rs:167` takes the end of `suffix` from the length of
  `prev_child_suffix` on, the longer of the two. So no node without signatures at
  or above an old node is ever endorsed, though lines 133-134 mean a node that follows
  from the old node and the new children to be valid. With the end of
  `prev_child_suffix` taken from the length of `suffix` on, `ValidNodesAreEndorsed`
  and the properties of the run `endorsement` all hold for its bounds.

Differences between code and words that were seen while modelling, modelled as the
code is, and that no run is about:

* A quorum's threshold counts all signatures, of outsiders as well, and all members
  must sign besides (`src/verification.rs:107-128`); `src/blockdata.rs:115-116` asks
  for a number of signatures by members. With an account drawn twice, fewer
  members than the threshold are enough.
* A signer drawn several times counts several times (`src/verification.rs:272-276`)
  towards what `src/blockdata.rs:107` calls the number of signers who must sign.
  `ProposalsAreAccepted` rests on it: else too few could sign.
* `best_super_node` (`src/construction.rs:102`) combines the nodes of all lower
  levels again, with their scores, so that a better node for an inner path is
  overwritten by the nodes below it; line 85 promises the best parent.
* Nothing sets `last_main` of a new inner node (`src/construction.rs:58-60`) to the
  block that verification compares it with (`src/verification.rs:41`), so no tree that
  `best_super_node` makes of new nodes is accepted, although `src/tests/core.rs:261`
  expects a send to be put in a block.
* `initialize_account_node` does not count the account's own node as new
  (`src/account_construction.rs:191`), `add_action_to_account` does (line 241);
  `src/blockdata.rs:160` says that all new nodes count.
* Send times are in seconds and timeouts in milliseconds
  (`src/network/message_sender.rs:143`).

## 6. Not modelled, and the plan

Everything of the plan so far is done: the ledger, trees, the genesis block, the
query sender, the compute graph, construction, verification, selection, the main
chain and the choice of peers, with eight proof modules.

What is left, in this order:

1. Verification with a store: which data nodes the verifier can read after it
   computed them in an overlay that is dropped (`src/verification.rs:144`). The code
   has no outcome for a missing entry but an error so far.
2. New accounts by receives, which split edges in `Construction`; no receive can
   create an account as the code stands (section 5).
3. `Verification` after more than one block. `MainChain` abstracts it by
   `TreeEndorsed`; a composition of both needs smaller trees than have the
   interesting shapes.
4. Proofs about `Construction` and `Endorsement`, as for `Genesis`: the insertion of
   a node that is a tree itself, in place of what was there.

Not modelled: lookups of `HashOps` (a TODO in the source), logging, keys, messages as
bytes, serialization, and the curve and hash functions, which have no state and
are replaced by what they stand for (section 2, abstractions).
