---------------------------- MODULE ComputeNode ----------------------------
(***************************************************************************)
(* network/graph.rs: a timed graph of computations run over the network.   *)
(* The node at each address collects the inputs of the computations that   *)
(* it has heard of, runs each one at the first tick after its time and     *)
(* sends the outputs to the addresses that run what they are inputs to.    *)
(* What the trait ComputeGraph answers is a constant.                      *)
(*                                                                         *)
(* A name with an underscore is a faulty variant of the definition after   *)
(* it, which the checks put in its place.                                  *)
(***************************************************************************)
EXTENDS Naturals, FiniteSets

CONSTANTS
  Addrs, Comps, Msgs,
  None,         \* stands for "not an input of any computation"
  WhenToRun,    \* when_to_run: the time of each computation
  WhoRuns,      \* who_runs: the addresses that run each computation
  MessageComp,  \* message_comp: the computation a message is an input to
  Outputs,      \* run_comp: the messages each computation returns
  Sources,      \* the messages that come from outside of the graph
  MayFail,      \* the addresses where run_comp and send_msg may return an error
  MaxTime       \* bound: the last value of the clock

ASSUME ComputeAssumption ==
  /\ None \notin Comps
  /\ WhenToRun \in [Comps -> Nat]
  /\ WhoRuns \in [Comps -> SUBSET Addrs]
  /\ MessageComp \in [Msgs -> Comps \cup {None}]
  /\ Outputs \in [Comps -> SUBSET Msgs]
  /\ Sources \subseteq Msgs
  /\ MayFail \subseteq Addrs
  /\ MaxTime \in Nat

VARIABLES
  now,        \* the clock that ticks are given
  states,     \* states[a][c]: ComputeNode.states of the node at a
  by_time,    \* by_time[a]: ComputeNode.by_time, as pairs
  tick,       \* tick[a]: the call of tick in progress at a
  network,    \* the messages sent so far, with their addresses
  delivered,  \* history: the messages that receive_msg was given at a
  runs        \* history: how often the node at a called run_comp for c

vars == <<now, states, by_time, tick, network, delivered, runs>>

MsgsOf(c) == {m \in Msgs : MessageComp[m] = c}

Packet == [msg : Msgs, addr : Addrs]
Run == [comp : Comps, inputs : SUBSET Msgs]

(* ComputationState; "absent" is a computation that states does not hold.   *)
Absent == [tag |-> "absent"]
Done == [tag |-> "done"]
NotMe == [tag |-> "not_me"]
Inputs(msgs) == [tag |-> "inputs", msgs |-> msgs]
ComputationState == {Absent, Done, NotMe} \cup {Inputs(ms) : ms \in SUBSET Msgs}

(* A tick has computations left to run and messages left to send, each to   *)
(* an address that runs the computation that it is an input to.             *)
Routed == {p \in Packet : /\ MessageComp[p.msg] # None
                          /\ p.addr \in WhoRuns[MessageComp[p.msg]]}
Idle == [tag |-> "idle"]
Broken == [tag |-> "broken"]
Ticking(running, sending) ==
  [tag |-> "ticking", running |-> running, sending |-> sending]
TickState == {Idle, Broken}
             \cup [tag : {"ticking"}, running : SUBSET Run,
                   sending : SUBSET Routed]

Init ==
  /\ now = 0
  /\ states = [a \in Addrs |-> [c \in Comps |-> Absent]]
  /\ by_time = [a \in Addrs |-> {}]
  /\ tick = [a \in Addrs |-> Idle]
  /\ network = [msg : Sources, addr : Addrs]
  /\ delivered = [a \in Addrs |-> {}]
  /\ runs = [a \in Addrs |-> [c \in Comps |-> 0]]

Advance ==
  /\ now < MaxTime
  /\ now' = now + 1
  /\ UNCHANGED <<states, by_time, tick, network, delivered, runs>>
-----------------------------------------------------------------------------
(* receive: a computation heard of for the first time is queued, if it is   *)
(* run here; its inputs accumulate, and come too late once it is Done.      *)
Receive_Requeues(a, c, msgs) ==
  LET old == states[a][c]
      mine == a \in WhoRuns[c]
  IN /\ states' = [states EXCEPT ![a][c] =
                     CASE old.tag = "inputs" -> Inputs(old.msgs \cup msgs)
                       [] old.tag # "inputs" /\ mine -> Inputs(msgs)
                       [] OTHER -> NotMe]
     /\ by_time' = IF old.tag # "inputs" /\ mine
                   THEN [by_time EXCEPT ![a] =
                           @ \cup {[time |-> WhenToRun[c], comp |-> c]}]
                   ELSE by_time
Receive_Overwrites(a, c, msgs) ==
  LET old == states[a][c]
      mine == a \in WhoRuns[c]
  IN /\ states' = [states EXCEPT ![a][c] =
                     CASE old.tag = "inputs" -> Inputs(msgs)
                       [] old = Absent /\ mine -> Inputs(msgs)
                       [] old = Absent /\ ~mine -> NotMe
                       [] OTHER -> old]
     /\ by_time' = IF old = Absent /\ mine
                   THEN [by_time EXCEPT ![a] =
                           @ \cup {[time |-> WhenToRun[c], comp |-> c]}]
                   ELSE by_time
Receive(a, c, msgs) ==
  LET old == states[a][c]
      mine == a \in WhoRuns[c]
  IN /\ states' = [states EXCEPT ![a][c] =
                     CASE old.tag = "inputs" -> Inputs(old.msgs \cup msgs)
                       [] old = Absent /\ mine -> Inputs(msgs)
                       [] old = Absent /\ ~mine -> NotMe
                       [] OTHER -> old]
     /\ by_time' = IF old = Absent /\ mine
                   THEN [by_time EXCEPT ![a] =
                           @ \cup {[time |-> WhenToRun[c], comp |-> c]}]
                   ELSE by_time

(* The network is external: it may lose, delay, reorder and repeat.  A node *)
(* is borrowed by its tick, and receives nothing until that has ended.      *)
ReceiveMsg(a, m) ==
  /\ tick[a] = Idle
  /\ [msg |-> m, addr |-> a] \in network
  /\ delivered' = [delivered EXCEPT ![a] = @ \cup {m}]
  /\ IF MessageComp[m] = None
     THEN UNCHANGED <<states, by_time>>
     ELSE Receive(a, MessageComp[m], {m})
  /\ UNCHANGED <<now, tick, network, runs>>

ReceiveComp(a, c) ==
  /\ tick[a] = Idle
  /\ Receive(a, c, {})
  /\ UNCHANGED <<now, tick, network, delivered, runs>>
-----------------------------------------------------------------------------
(* tick.  What is due is taken out of by_time and becomes Done before any   *)
(* of it is run.                                                            *)
Due_Later(a) == {e \in by_time[a] : e.time >= now}
Due(a) == {e \in by_time[a] : e.time < now}
Unqueue_Keep(a, due) == by_time[a]
Unqueue(a, due) == by_time[a] \ due
TickStart(a) ==
  /\ tick[a] = Idle
  /\ LET due == Due(a)
         comps == {e.comp : e \in due}
     IN /\ by_time' = [by_time EXCEPT ![a] = Unqueue(a, due)]
        /\ states' = [states EXCEPT ![a] =
                        [c \in Comps |-> IF c \in comps THEN Done ELSE @[c]]]
        /\ tick' = [tick EXCEPT ![a] =
                      IF \A c \in comps : states[a][c].tag = "inputs"
                      THEN Ticking({[comp |-> c, inputs |-> states[a][c].msgs] :
                                      c \in comps}, {})
                      ELSE Broken]
  /\ UNCHANGED <<now, network, delivered, runs>>

(* run_comp returns the outputs; each is sent to whoever runs what it is an *)
(* input to.                                                                *)
PacketsOf_Everyone(c) == [msg : Outputs[c], addr : Addrs]
PacketsOf(c) == {p \in Routed : p.msg \in Outputs[c]}
RunComp(a) ==
  /\ tick[a].tag = "ticking"
  /\ \E r \in tick[a].running :
       /\ runs' = [runs EXCEPT ![a][r.comp] = @ + 1]
       /\ tick' = [tick EXCEPT ![a] =
                     Ticking(@.running \ {r}, @.sending \cup PacketsOf(r.comp))]
  /\ UNCHANGED <<now, states, by_time, network, delivered>>

SendMsg(a) ==
  /\ tick[a].tag = "ticking"
  /\ \E p \in tick[a].sending :
       /\ network' = network \cup {p}
       /\ tick' = [tick EXCEPT ![a] = Ticking(@.running, @.sending \ {p})]
  /\ UNCHANGED <<now, states, by_time, delivered, runs>>

(* At the first error tick returns, dropping what is left of its work.      *)
RunFails(a) ==
  /\ a \in MayFail
  /\ tick[a].tag = "ticking"
  /\ \E r \in tick[a].running :
       runs' = [runs EXCEPT ![a][r.comp] = @ + 1]
  /\ tick' = [tick EXCEPT ![a] = Idle]
  /\ UNCHANGED <<now, states, by_time, network, delivered>>
SendFails(a) ==
  /\ a \in MayFail
  /\ tick[a].tag = "ticking"
  /\ tick[a].sending # {}
  /\ tick' = [tick EXCEPT ![a] = Idle]
  /\ UNCHANGED <<now, states, by_time, network, delivered, runs>>

TickDone(a) ==
  /\ tick[a] = Ticking({}, {})
  /\ tick' = [tick EXCEPT ![a] = Idle]
  /\ UNCHANGED <<now, states, by_time, network, delivered, runs>>
-----------------------------------------------------------------------------
TickStep(a) == \/ TickStart(a) \/ RunComp(a) \/ SendMsg(a)
               \/ RunFails(a) \/ SendFails(a) \/ TickDone(a)
Next ==
  \/ Advance
  \/ \E a \in Addrs :
       \/ TickStep(a)
       \/ \E m \in Msgs : ReceiveMsg(a, m)
       \/ \E c \in Comps : ReceiveComp(a, c)
Spec == Init /\ [][Next]_vars

(* Time goes on, and each node is ticked again and again; messages need not *)
(* arrive.                                                                  *)
FairSpec == Spec /\ WF_vars(Advance) /\ \A a \in Addrs : WF_vars(TickStep(a))
-----------------------------------------------------------------------------
(* The type invariant.                                                      *)
TypeOK ==
  /\ now \in Nat
  /\ states \in [Addrs -> [Comps -> ComputationState]]
  /\ by_time \in [Addrs -> SUBSET [time : Nat, comp : Comps]]
  /\ tick \in [Addrs -> TickState]
  /\ network \subseteq Packet
  /\ delivered \in [Addrs -> SUBSET Msgs]
  /\ runs \in [Addrs -> [Comps -> Nat]]

(* The error "a computation with a timestamp must have an Inputs state"     *)
(* (graph.rs:132) never happens: in whatever order computations, their      *)
(* inputs and ticks come, by_time holds exactly the computations that       *)
(* collect inputs.                                                          *)
TimestampsHaveInputs ==
  \A a \in Addrs :
    /\ tick[a] # Broken
    /\ \A c \in Comps : states[a][c].tag = "inputs"
                        <=> \E e \in by_time[a] : e.comp = c

(* A node runs each computation at most once and only if it is one of those *)
(* that run it, although messages are repeated, arrive after the            *)
(* computation was run, and a tick may fail in the middle of its work.      *)
RunsOnce ==
  \A a \in Addrs, c \in Comps :
    runs[a][c] <= 1 /\ (runs[a][c] = 1 => a \in WhoRuns[c])

(* A computation is run after its time, and with every input that reached   *)
(* the node before that tick.                                               *)
RunsWithInputs ==
  \A a \in Addrs :
    tick[a].tag = "ticking" =>
      \A r \in tick[a].running :
        /\ WhenToRun[r.comp] < now
        /\ r.inputs = delivered[a] \cap MsgsOf(r.comp)

(* receive_comp "ensures that a computation will be run eventually"         *)
(* (graph.rs:106): once queued it is run, if the clock gets past its time.  *)
(* It holds where run_comp and send_msg succeed, whatever fails elsewhere:  *)
RunsWhereNothingFails ==
  \A a \in Addrs \ MayFail, c \in Comps :
    states[a][c].tag = "inputs" ~> runs[a][c] > 0

(* and is said of every address.                                            *)
WillRun ==
  \A a \in Addrs, c \in Comps :
    states[a][c].tag = "inputs" ~> runs[a][c] > 0
=============================================================================
