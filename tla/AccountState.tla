---------------------------- MODULE AccountState ----------------------------
(***************************************************************************)
(* get_account_state reads the data of an account as a whole, by a walk    *)
(* over its tree.  What the walk finds is compared with what is looked up, *)
(* and with the tree itself.                                               *)
(***************************************************************************)
EXTENDS DataTree, FiniteSetsExt, SequencesExt

CONSTANT MaxLength  \* the length of the longest path of a field

ASSUME LengthAssumption ==
  /\ MaxLength \in Nat
  /\ \A path \in Paths : Len(path) <= MaxLength

(* add_data_tree_to_account_state visits the nodes of a tree, each with the *)
(* path that leads to it: here a level at a time.  An edge has a digit at   *)
(* least, so that there are no more levels than the longest path has digits. *)
Below(visit) ==
  {[path |-> visit.path \o <<d>> \o visit.node.children[d].suffix,
    node |-> visit.node.children[d].node] : d \in DOMAIN visit.node.children}
Visits(tree) ==
  LET level[i \in Nat] ==
        IF i = 0 THEN {[path |-> <<>>, node |-> tree]}
        ELSE UNION {Below(visit) : visit \in level[i - 1]}
  IN UNION {level[i] : i \in 0..MaxLength}

FieldsOf(tree) ==
  LET found == {visit \in Visits(tree) : visit.node.field # None}
  IN [path \in {visit.path : visit \in found} |->
        (CHOOSE visit \in found : visit.path = path).node.field]
AccountFields == FieldsOf(data_tree)
-----------------------------------------------------------------------------
(* The two ways of reading an account agree: a field looked up along its    *)
(* path has the value that the walk over the tree finds, and a path that    *)
(* ends within an edge, or beside it, finds nothing.                        *)
LookupAgrees ==
  \A path \in Probes :
    LookupData(path) = IF path \in DOMAIN AccountFields
                       THEN AccountFields[path] ELSE None

(* The tree of some fields that has a node only where a path ends, or two   *)
(* of them part: what the fields determine is below[<<>>], where below[p]   *)
(* is what they have beyond p.                                              *)
Through(fields, p) == {path \in DOMAIN fields : IsPrefix(p, path)}
Onward(fields, p) == {path[Len(p) + 1] : path \in Through(fields, p) \ {p}}
EdgeEnd(fields, p, d) == LongestCommonPrefix(Through(fields, Append(p, d)))
CanonicalTree(fields) ==
  LET below[p \in {<<>>} \cup UNION {Prefixes(path) : path \in DOMAIN fields}] ==
        [field |-> IF p \in DOMAIN fields THEN fields[p] ELSE None,
         children |-> [d \in Onward(fields, p) |->
           LET end == EdgeEnd(fields, p, d)
           IN [suffix |-> SubSeq(end, Len(p) + 2, Len(end)), node |-> below[end]]]]
  IN below[<<>>]

(* The tree, and so the hash that stands for the account, is determined by  *)
(* the fields and not by the order in which they were set.                  *)
Canonical == data_tree = CanonicalTree(AccountFields)

(* node_count pays for storage: the nodes that the new tree has and the old *)
(* one had not are no more than were counted.                               *)
Nodes(tree) == {visit.node : visit \in Visits(tree)}
NewNodesCounted ==
  [][Cardinality(Nodes(data_tree') \ Nodes(data_tree)) <= node_count']_vars
=============================================================================
