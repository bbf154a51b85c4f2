----------------------------- MODULE MCGenesis -----------------------------
(* Genesis with paths of three digits. *)
EXTENDS Genesis

(* Among the accounts are two that differ in the last digit only, one that  *)
(* splits the edge to them, one that stands alone, and one next to it.      *)
MCAccountPaths == {<<0, 1, 0>>, <<0, 1, 1>>, <<0, 0, 1>>, <<2, 1, 0>>, <<1, 1, 1>>}
=============================================================================
