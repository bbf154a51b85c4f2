---------------------------- MODULE MCDataTree ----------------------------
(* DataTree over two digits. *)
EXTENDS AccountState

(* Among the fields are the root, a field on the way to others, edges of    *)
(* several digits, and fields that split an edge at each of its digits.     *)
MCPaths == {<<>>, <<0, 1>>, <<0, 1, 0, 0>>, <<0, 1, 0, 1>>, <<0, 0, 1, 1>>,
            <<1, 0, 1>>}
MCProbes == UNION {[1..n -> {0, 1}] : n \in 0..4}
=============================================================================
