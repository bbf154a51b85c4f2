------------------------------ MODULE MCHashOps ------------------------------
(* The two things that a HashOps has that change: the peers that it and     *)
(* another node know of, five whose hash codes have three bits, and its     *)
(* QuerySender, with three calls and two tasks that handle events.          *)
EXTENDS HashOps, QuerySender, TLC

CONSTANTS q1, q2, q3, e1, e2

MCPids == 1..5
MCPidHash ==
  [p \in MCPids |->
     CASE p = 1 -> <<0, 0, 0>>
       [] p = 2 -> <<0, 0, 1>>
       [] p = 3 -> <<0, 1, 1>>
       [] p = 4 -> <<1, 0, 1>>
       [] p = 5 -> <<1, 1, 1>>]

MCQueries == {q1, q2, q3}
MCEventTasks == {e1, e2}
Symmetry == Permutations(MCQueries) \cup Permutations(MCEventTasks)

(* As long as lookup_bytes is a TODO, queries and peers do not depend on    *)
(* each other.  Either is explored while the other has not begun, so that   *)
(* their states add up and do not multiply.                                 *)
NothingAsked == Init
NothingLearned == PeersInit
MCInit == Init /\ PeersInit
MCNext == \/ NothingLearned /\ Next /\ UNCHANGED peers
          \/ NothingAsked /\ PeersNext /\ UNCHANGED vars
MCSpec == MCInit /\ [][MCNext]_<<vars, peers>>
=============================================================================
