------------------------------ MODULE DataTree ------------------------------
(***************************************************************************)
(* The data of an account, kept in a radix hash tree of DataNodes: it is   *)
(* changed by insert_into_data_tree and read field by field by             *)
(* lookup_data_in_account.                                                 *)
(* SetField_DropsChildren is a faulty variant of SetField, for the checks. *)
(***************************************************************************)
EXTENDS Naturals, Sequences

CONSTANTS
  Paths,    \* the fields that are set, sequences of digits
  Values,   \* the values they are set to
  Probes,   \* the fields that are looked up, those and others
  None      \* a field that is not set, a node that is not there

ASSUME DataTreeAssumption == /\ None \notin Values
                             /\ Paths \subseteq Probes
                             /\ Probes \subseteq Seq(Nat)

VARIABLES
  data_tree,   \* the root
  node_count   \* the nodes that the last insertion put

vars == <<data_tree, node_count>>

(* DataNode, as an instance of RadixHashNode.                               *)
EmptyNode == [field |-> None, children |-> <<>>]
ReplaceChildren(node, children) == [node EXCEPT !.children = children]
FromSingleChild(path, child) ==
  [EmptyNode EXCEPT
     !.children = [d \in {Head(path)} |-> [suffix |-> Tail(path), node |-> child]]]
SetField_DropsChildren(option, value) == [EmptyNode EXCEPT !.field = value]
SetField(option, value) ==
  [(IF option = <<>> THEN EmptyNode ELSE option[1]) EXCEPT !.field = value]

Tree == INSTANCE RadixTree WITH NewNode <- SetField

(* The root that a new account starts from.                                 *)
Init == /\ data_tree = EmptyNode
        /\ node_count = 0

InsertIntoDataTree(path, field) ==
  LET inserted == Tree!Insert(data_tree, path, field)
  IN /\ data_tree' = inserted.node
     /\ node_count' = inserted.count

Next == \E path \in Paths, field \in Values : InsertIntoDataTree(path, field)
Spec == Init /\ [][Next]_vars
-----------------------------------------------------------------------------
(* lookup_data_in_account.                                                  *)
LookupData(path) ==
  LET found == Tree!NodeAt(data_tree, path)
  IN IF found = {} THEN None ELSE (CHOOSE node \in found : TRUE).field

(* Setting a field sets that field and leaves every other as it was: a      *)
(* lookup finds what the last insertion at its path has put there, and      *)
(* nothing if there was none.                                               *)
Abstract == INSTANCE FieldMap
              WITH Fields <- Probes, fields <- [path \in Probes |-> LookupData(path)]
ImplementsFieldMap == Abstract!Spec
(* data_node_well_formed, which nothing in the code calls: a node without a *)
(* field has at least two children.  It is true of every node of a tree     *)
(* below the root, as no insertion splits an edge at a wrong place.         *)
DataNodeWellFormed(node) ==
  node.field # None \/ \E c, d \in DOMAIN node.children : c # d
NodesWellFormed ==
  \A path \in Probes \ {<<>>} :
    \A node \in Tree!NodeAt(data_tree, path) : DataNodeWellFormed(node)
=============================================================================
