-------------------------- MODULE MCComputeNode --------------------------
(* ComputeNode at two addresses: c1 is run by both, its outputs are inputs *)
(* to c2, which is run by one, and to c3, which is due at the same time.   *)
EXTENDS ComputeNode, TLC

CONSTANTS a1, a2, c1, c2, c3, m0, m1, m2, m3

MCAddrs == {a1, a2}
MCComps == {c1, c2, c3}
MCMsgs == {m0, m1, m2, m3}
MCWhenToRun == c1 :> 0 @@ c2 :> 1 @@ c3 :> 1
MCWhoRuns == c1 :> {a1, a2} @@ c2 :> {a2} @@ c3 :> {a1, a2}
MCMessageComp == m0 :> c1 @@ m1 :> c2 @@ m2 :> c3 @@ m3 :> None
MCOutputs == c1 :> {m1, m2} @@ c2 :> {m3} @@ c3 :> {}
MCSources == {m0}
MCMayFail == {a1}
=============================================================================
