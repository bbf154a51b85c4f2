------------------------------ MODULE FieldMap ------------------------------
(***************************************************************************)
(* What the data of an account is: a map from fields to values.            *)
(***************************************************************************)
CONSTANTS
  Fields,   \* sequences of digits
  Paths,    \* those of them that are set
  Values,   \* what they are set to
  None      \* a field that is not set

VARIABLE fields

Init == fields = [path \in Fields |-> None]
Set(path, value) == fields' = [fields EXCEPT ![path] = value]
Next == \E path \in Paths, value \in Values : Set(path, value)
Spec == Init /\ [][Next]_fields
=============================================================================
