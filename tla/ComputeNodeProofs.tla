------------------------- MODULE ComputeNodeProofs -------------------------
(***************************************************************************)
(* Proofs about ComputeNode, for every computation graph, every number of  *)
(* addresses and every time.  The inductive invariant IInv adds to the     *)
(* safety properties what they rest on: that by_time holds each            *)
(* computation at its own time and only where it is run (QueueIsRight),    *)
(* that the inputs collected are the messages that were delivered          *)
(* (InputsAreDelivered), and that a computation that waits to be run, in   *)
(* states or in a tick, has not been run (PendingNotRun).                  *)
(***************************************************************************)
EXTENDS ComputeNode, TLAPS

QueueIsRight ==
  \A a \in Addrs : \A e \in by_time[a] :
    e.time = WhenToRun[e.comp] /\ a \in WhoRuns[e.comp]

InputsAreDelivered ==
  \A a \in Addrs, c \in Comps :
    /\ states[a][c].tag = "inputs"
         => states[a][c].msgs = delivered[a] \cap MsgsOf(c)
    /\ states[a][c] = Absent => delivered[a] \cap MsgsOf(c) = {}

PendingNotRun ==
  \A a \in Addrs, c \in Comps :
    /\ states[a][c] # Done => runs[a][c] = 0
    /\ tick[a].tag = "ticking" =>
         \A r \in tick[a].running :
           r.comp = c => /\ runs[a][c] = 0
                         /\ states[a][c] = Done
                         /\ a \in WhoRuns[c]

IInv == /\ TypeOK
        /\ QueueIsRight
        /\ TimestampsHaveInputs
        /\ InputsAreDelivered
        /\ PendingNotRun
        /\ RunsOnce
        /\ RunsWithInputs
-----------------------------------------------------------------------------
LEMMA Initial == Init => IInv
<1> SUFFICES ASSUME Init PROVE IInv
  OBVIOUS
<1> USE DEF Init
<1>1. TypeOK
  <2>1. Absent \in ComputationState /\ Idle \in TickState
    BY DEF ComputationState, TickState
  <2>2. network \subseteq Packet
    BY ComputeAssumption DEF Packet
  <2> QED
    BY <2>1, <2>2 DEF TypeOK
<1>2. QueueIsRight
  BY DEF QueueIsRight
<1>3. TimestampsHaveInputs
  BY DEF TimestampsHaveInputs, Absent, Idle, Broken
<1>4. InputsAreDelivered
  BY DEF InputsAreDelivered, Absent
<1>5. PendingNotRun
  BY DEF PendingNotRun, Idle
<1>6. RunsOnce
  BY DEF RunsOnce
<1>7. RunsWithInputs
  BY DEF RunsWithInputs, Idle
<1> QED
  BY <1>1, <1>2, <1>3, <1>4, <1>5, <1>6, <1>7 DEF IInv

(* A computation is given messages, none of them for another one.           *)
LEMMA ReceiveKeeps ==
  ASSUME IInv, NEW a \in Addrs, NEW c \in Comps, NEW msgs \in SUBSET MsgsOf(c),
         tick[a] = Idle, Receive(a, c, msgs),
         delivered' \in [Addrs -> SUBSET Msgs],
         delivered'[a] = delivered[a] \cup msgs,
         \A b \in Addrs : b # a => delivered'[b] = delivered[b],
         UNCHANGED <<now, tick, network, runs>>
  PROVE  IInv'
<1> DEFINE old == states[a][c]
           mine == a \in WhoRuns[c]
           new == CASE old.tag = "inputs" -> Inputs(old.msgs \cup msgs)
                    [] old = Absent /\ mine -> Inputs(msgs)
                    [] old = Absent /\ ~mine -> NotMe
                    [] OTHER -> old
           entry == [time |-> WhenToRun[c], comp |-> c]
<1> USE ComputeAssumption
<1>1. old \in ComputationState /\ msgs \subseteq Msgs
  BY DEF IInv, TypeOK, MsgsOf
<1>2. /\ old.tag = "inputs" => new = Inputs(old.msgs \cup msgs)
      /\ old = Absent /\ mine => new = Inputs(msgs)
      /\ old = Absent /\ ~mine => new = NotMe
      /\ old.tag # "inputs" /\ old # Absent => new = old
  BY DEF Absent
<1>3. new \in ComputationState
  <2>1. old.tag = "inputs" => old.msgs \in SUBSET Msgs
    BY <1>1 DEF ComputationState, Inputs, Absent, NotMe, Done
  <2>2. \A ms \in SUBSET Msgs : Inputs(ms) \in ComputationState
    BY DEF ComputationState
  <2>3. old.tag = "inputs" => new \in ComputationState
    <3> SUFFICES ASSUME old.tag = "inputs" PROVE new \in ComputationState
      OBVIOUS
    <3>1. old.msgs \cup msgs \in SUBSET Msgs
      BY <1>1, <2>1
    <3>2. new = Inputs(old.msgs \cup msgs)
      BY <1>2
    <3> HIDE DEF new, old
    <3> QED
      BY <3>1, <3>2, <2>2
  <2>4. old = Absent /\ mine => new \in ComputationState
    <3>1. msgs \in SUBSET Msgs
      BY <1>1
    <3>2. old = Absent /\ mine => new = Inputs(msgs)
      BY <1>2
    <3> HIDE DEF new, old, mine
    <3> QED
      BY <3>1, <3>2, <2>2
  <2>5. NotMe \in ComputationState
    BY DEF ComputationState
  <2> HIDE DEF new, old, mine
  <2> QED
    BY <1>1, <1>2, <2>3, <2>4, <2>5
<1>4. /\ states' \in [Addrs -> [Comps -> ComputationState]]
      /\ states'[a][c] = new
      /\ \A b \in Addrs, d \in Comps :
           ~(b = a /\ d = c) => states'[b][d] = states[b][d]
  <2>1. states' = [states EXCEPT ![a][c] = new]
    BY DEF Receive
  <2> HIDE DEF new
  <2> QED
    BY <2>1, <1>3 DEF IInv, TypeOK
<1>5. /\ by_time' \in [Addrs -> SUBSET [time : Nat, comp : Comps]]
      /\ \A b \in Addrs : b # a => by_time'[b] = by_time[b]
      /\ old = Absent /\ mine => by_time'[a] = by_time[a] \cup {entry}
      /\ ~(old = Absent /\ mine) => by_time'[a] = by_time[a]
  <2>1. entry \in [time : Nat, comp : Comps]
    OBVIOUS
  <2>2. by_time' = IF old = Absent /\ mine
                   THEN [by_time EXCEPT ![a] = @ \cup {entry}]
                   ELSE by_time
    BY DEF Receive
  <2> HIDE DEF entry
  <2> QED
    BY <2>1, <2>2 DEF IInv, TypeOK
<1>6. old = Done => new = Done
  BY <1>2 DEF Done, Absent
<1>7. new = Done => old = Done
  BY <1>2 DEF Done, Absent, NotMe, Inputs
<1>8. new # Absent
  BY <1>2 DEF Absent, Inputs, NotMe
<1>9. new.tag = "inputs" <=> old.tag = "inputs" \/ (old = Absent /\ mine)
  BY <1>2 DEF Inputs, NotMe, Absent
<1>10. new.tag = "inputs" =>
         new.msgs = (delivered[a] \cup msgs) \cap MsgsOf(c)
  <2>1. CASE old.tag = "inputs"
    <3>1. old.msgs = delivered[a] \cap MsgsOf(c)
      BY <2>1 DEF IInv, InputsAreDelivered
    <3>2. new.msgs = old.msgs \cup msgs
      BY <1>2, <2>1 DEF Inputs
    <3> QED
      BY <3>1, <3>2
  <2>2. CASE old = Absent /\ mine
    <3>1. delivered[a] \cap MsgsOf(c) = {}
      BY <2>2 DEF IInv, InputsAreDelivered
    <3>2. new.msgs = msgs
      BY <1>2, <2>2 DEF Inputs
    <3> QED
      BY <3>1, <3>2
  <2> QED
    BY <1>9, <2>1, <2>2
<1> HIDE DEF old, new, mine, entry
<1>11. TypeOK'
  BY <1>4, <1>5 DEF IInv, TypeOK
<1>12. QueueIsRight'
  <2>1. QueueIsRight
    BY DEF IInv
  <2>2. mine => entry.time = WhenToRun[entry.comp] /\ a \in WhoRuns[entry.comp]
    BY DEF entry, mine
  <2> QED
    BY <1>5, <2>1, <2>2 DEF QueueIsRight
<1>13. TimestampsHaveInputs'
  <2>1. TimestampsHaveInputs
    BY DEF IInv
  <2>2. old.tag = "inputs" <=> \E e \in by_time[a] : e.comp = c
    BY <2>1 DEF TimestampsHaveInputs, old
  <2>3. entry.comp = c
    BY DEF entry
  <2>4. ASSUME NEW d \in Comps
        PROVE  states'[a][d].tag = "inputs" <=> \E e \in by_time'[a] : e.comp = d
    <3>1. CASE d = c
      BY <3>1, <1>4, <1>5, <1>9, <2>2, <2>3
    <3>2. CASE d # c
      <4>1. states[a][d].tag = "inputs" <=> \E e \in by_time[a] : e.comp = d
        BY <2>1 DEF TimestampsHaveInputs
      <4> QED
        BY <3>2, <4>1, <1>4, <1>5, <2>3
    <3> QED
      BY <3>1, <3>2
  <2>5. ASSUME NEW b \in Addrs, NEW d \in Comps, b # a
        PROVE  states'[b][d].tag = "inputs" <=> \E e \in by_time'[b] : e.comp = d
    <3>1. states'[b][d] = states[b][d] /\ by_time'[b] = by_time[b]
      BY <2>5, <1>4, <1>5
    <3> QED
      BY <3>1, <2>1 DEF TimestampsHaveInputs
  <2>6. \A b \in Addrs : tick'[b] # Broken
    BY <2>1 DEF TimestampsHaveInputs
  <2> QED
    BY <2>4, <2>5, <2>6 DEF TimestampsHaveInputs, Broken
<1>14. InputsAreDelivered'
  <2>1. InputsAreDelivered
    BY DEF IInv
  <2>2. \A d \in Comps : d # c => msgs \cap MsgsOf(d) = {}
    BY DEF MsgsOf
  <2>3. ASSUME NEW d \in Comps, d # c
        PROVE  delivered'[a] \cap MsgsOf(d) = delivered[a] \cap MsgsOf(d)
    BY <2>2, <2>3
  <2>4. ASSUME NEW b \in Addrs, NEW d \in Comps
        PROVE  /\ states'[b][d].tag = "inputs"
                    => states'[b][d].msgs = delivered'[b] \cap MsgsOf(d)
               /\ states'[b][d] = Absent => delivered'[b] \cap MsgsOf(d) = {}
    <3>1. CASE b = a /\ d = c
      BY <3>1, <1>4, <1>8, <1>10
    <3>2. CASE b = a /\ d # c
      BY <3>2, <2>1, <2>3, <1>4 DEF InputsAreDelivered
    <3>3. CASE b # a
      BY <3>3, <2>1, <1>4 DEF InputsAreDelivered
    <3> QED
      BY <3>1, <3>2, <3>3
  <2> QED
    BY <2>4 DEF InputsAreDelivered, Absent
<1>15. PendingNotRun'
  <2>1. PendingNotRun /\ tick' = tick /\ runs' = runs
    BY DEF IInv
  <2>2. \A b \in Addrs, d \in Comps : states'[b][d] = Done <=> states[b][d] = Done
    BY <1>4, <1>6, <1>7 DEF old
  <2> QED
    BY <2>1, <2>2 DEF PendingNotRun, Done
<1>16. RunsOnce'
  BY DEF IInv, RunsOnce
<1>17. RunsWithInputs'
  <2>1. RunsWithInputs /\ tick' = tick /\ now' = now
    BY DEF IInv
  <2>2. tick[a].tag # "ticking"
    BY DEF Idle
  <2> QED
    BY <2>1, <2>2 DEF RunsWithInputs, MsgsOf
<1> QED
  BY <1>11, <1>12, <1>13, <1>14, <1>15, <1>16, <1>17 DEF IInv

(* What is due becomes Done and is left to the tick to run.                 *)
LEMMA TickStartKeeps ==
  ASSUME IInv, NEW a \in Addrs, TickStart(a)
  PROVE  IInv'
<1> DEFINE due == Due(a)
           comps == {e.comp : e \in due}
           running == {[comp |-> c, inputs |-> states[a][c].msgs] : c \in comps}
<1> USE ComputeAssumption
<1>1. /\ due \subseteq by_time[a] /\ by_time[a] \subseteq [time : Nat, comp : Comps]
      /\ comps \subseteq Comps
  BY DEF Due, IInv, TypeOK
<1>2. \A c \in comps : /\ states[a][c].tag = "inputs"
                       /\ WhenToRun[c] < now
                       /\ a \in WhoRuns[c]
                       /\ states[a][c].msgs = delivered[a] \cap MsgsOf(c)
  <2> SUFFICES ASSUME NEW e \in due
               PROVE  /\ states[a][e.comp].tag = "inputs"
                      /\ WhenToRun[e.comp] < now
                      /\ a \in WhoRuns[e.comp]
                      /\ states[a][e.comp].msgs = delivered[a] \cap MsgsOf(e.comp)
    OBVIOUS
  <2>1. e.comp \in Comps /\ e \in by_time[a]
    BY <1>1
  <2>2. states[a][e.comp].tag = "inputs"
    BY <2>1 DEF IInv, TimestampsHaveInputs
  <2>3. e.time = WhenToRun[e.comp] /\ a \in WhoRuns[e.comp]
    BY <2>1 DEF IInv, QueueIsRight
  <2>4. WhenToRun[e.comp] < now
    BY <2>3 DEF Due
  <2>5. states[a][e.comp].msgs = delivered[a] \cap MsgsOf(e.comp)
    BY <2>1, <2>2 DEF IInv, InputsAreDelivered
  <2> QED
    BY <2>2, <2>3, <2>4, <2>5
<1>3. /\ running \in SUBSET Run
      /\ \A r \in running : /\ r.comp \in comps
                            /\ r.inputs = delivered[a] \cap MsgsOf(r.comp)
  <2> SUFFICES ASSUME NEW c \in comps
               PROVE  /\ [comp |-> c, inputs |-> states[a][c].msgs] \in Run
                      /\ states[a][c].msgs = delivered[a] \cap MsgsOf(c)
    OBVIOUS
  <2>1. states[a][c].msgs = delivered[a] \cap MsgsOf(c)
    BY <1>2
  <2>2. MsgsOf(c) \subseteq Msgs
    BY DEF MsgsOf
  <2> HIDE DEF comps
  <2> QED
    BY <1>1, <2>1, <2>2 DEF Run
<1>4. Ticking(running, {}) \in TickState
  <2> HIDE DEF running
  <2> QED
    BY <1>3 DEF Ticking, TickState
<1> HIDE DEF running, comps, due
<1>5. /\ tick' \in [Addrs -> TickState]
      /\ tick'[a] = Ticking(running, {})
      /\ \A b \in Addrs : b # a => tick'[b] = tick[b]
  <2>1. tick' = [tick EXCEPT ![a] = Ticking(running, {})]
    BY <1>2 DEF TickStart, running, comps, due
  <2> QED
    BY <2>1, <1>4 DEF IInv, TypeOK
<1>6. /\ states' \in [Addrs -> [Comps -> ComputationState]]
      /\ \A c \in Comps :
           states'[a][c] = IF c \in comps THEN Done ELSE states[a][c]
      /\ \A b \in Addrs : b # a => states'[b] = states[b]
  <2> DEFINE new == [c \in Comps |-> IF c \in comps THEN Done ELSE states[a][c]]
  <2>1. states' = [states EXCEPT ![a] = new]
    BY DEF TickStart, comps, due
  <2>2. new \in [Comps -> ComputationState]
    BY DEF IInv, TypeOK, ComputationState
  <2>3. \A c \in Comps : new[c] = IF c \in comps THEN Done ELSE states[a][c]
    OBVIOUS
  <2> HIDE DEF new
  <2> QED
    BY <2>1, <2>2, <2>3 DEF IInv, TypeOK
<1>7. /\ by_time' \in [Addrs -> SUBSET [time : Nat, comp : Comps]]
      /\ by_time'[a] = by_time[a] \ due
      /\ \A b \in Addrs : b # a => by_time'[b] = by_time[b]
  BY <1>1 DEF TickStart, Unqueue, due, IInv, TypeOK
<1>8. UNCHANGED <<now, network, delivered, runs>>
  BY DEF TickStart
<1>9. \A c \in comps : runs[a][c] = 0
  BY <1>1, <1>2 DEF IInv, PendingNotRun, Done
<1>10. TypeOK'
  BY <1>5, <1>6, <1>7, <1>8 DEF IInv, TypeOK
<1>11. QueueIsRight'
  BY <1>7, <1>8 DEF IInv, QueueIsRight
<1>12. TimestampsHaveInputs'
  <2>1. TimestampsHaveInputs
    BY DEF IInv
  <2>2. ASSUME NEW c \in Comps
        PROVE  states'[a][c].tag = "inputs" <=> \E e \in by_time'[a] : e.comp = c
    <3>1. CASE c \in comps
      <4>1. ASSUME NEW e \in by_time[a], e.comp = c PROVE e \in due
        <5>1. PICK f \in due : f.comp = c
          BY <3>1 DEF comps
        <5>2. f.time = e.time
          BY <1>1, <4>1, <5>1 DEF IInv, QueueIsRight
        <5> QED
          BY <1>1, <4>1, <5>1, <5>2 DEF Due, due
      <4>2. states'[a][c].tag # "inputs"
        BY <1>6, <3>1 DEF Done
      <4> QED
        BY <1>7, <4>1, <4>2
    <3>2. CASE c \notin comps
      <4>1. \A e \in due : e.comp # c
        BY <3>2 DEF comps
      <4>2. states[a][c].tag = "inputs" <=> \E e \in by_time[a] : e.comp = c
        BY <2>1 DEF TimestampsHaveInputs
      <4> QED
        BY <1>6, <1>7, <3>2, <4>1, <4>2
    <3> QED
      BY <3>1, <3>2
  <2>3. ASSUME NEW b \in Addrs, NEW c \in Comps, b # a
        PROVE  states'[b][c].tag = "inputs" <=> \E e \in by_time'[b] : e.comp = c
    BY <1>6, <1>7, <2>1, <2>3 DEF TimestampsHaveInputs
  <2>4. ASSUME NEW b \in Addrs PROVE tick'[b] # Broken
    BY <1>5, <2>1 DEF TimestampsHaveInputs, Ticking, Broken
  <2> QED
    BY <2>2, <2>3, <2>4 DEF TimestampsHaveInputs, Broken
<1>13. InputsAreDelivered'
  <2>1. \A b \in Addrs, c \in Comps :
          states'[b][c] = states[b][c] \/ states'[b][c] = Done
    BY <1>6
  <2>2. Done # Absent /\ Done.tag # "inputs"
    BY DEF Done, Absent
  <2> QED
    BY <1>8, <2>1, <2>2 DEF IInv, InputsAreDelivered, Absent, MsgsOf
<1>14. PendingNotRun'
  <2>1. PendingNotRun
    BY DEF IInv
  <2>2. ASSUME NEW c \in Comps
        PROVE  /\ states'[a][c] # Done => runs[a][c] = 0
               /\ \A r \in running : r.comp = c => /\ runs[a][c] = 0
                                                  /\ states'[a][c] = Done
                                                  /\ a \in WhoRuns[c]
    BY <1>2, <1>3, <1>6, <1>9, <2>1 DEF PendingNotRun
  <2>3. ASSUME NEW b \in Addrs, b # a PROVE states'[b] = states[b] /\ tick'[b] = tick[b]
    BY <1>5, <1>6, <2>3
  <2>4. tick'[a].running = running
    BY <1>5 DEF Ticking
  <2> QED
    BY <1>8, <2>1, <2>2, <2>3, <2>4 DEF PendingNotRun, Done
<1>15. RunsOnce'
  BY <1>8 DEF IInv, RunsOnce
<1>16. RunsWithInputs'
  <2>1. tick'[a].running = running
    BY <1>5 DEF Ticking
  <2>2. \A r \in running : WhenToRun[r.comp] < now
    BY <1>2, <1>3
  <2>3. \A b \in Addrs : b # a => tick'[b] = tick[b]
    BY <1>5
  <2>4. RunsWithInputs
    BY DEF IInv
  <2> QED
    BY <1>3, <1>8, <2>1, <2>2, <2>3, <2>4 DEF RunsWithInputs, MsgsOf
<1> QED
  BY <1>10, <1>11, <1>12, <1>13, <1>14, <1>15, <1>16 DEF IInv

(* What a tick does after it started: it works off what it has to run, each *)
(* computation that it calls being one of these, or gives up.               *)
LEMMA TickWorkKeeps ==
  ASSUME IInv, NEW a \in Addrs, tick[a].tag = "ticking",
         UNCHANGED <<now, states, by_time, delivered>>,
         network' \subseteq Packet,
         tick' \in [Addrs -> TickState],
         \A b \in Addrs : b # a => tick'[b] = tick[b],
         tick'[a] # Broken,
         tick'[a].tag = "ticking" => tick'[a].running \subseteq tick[a].running,
         runs' \in [Addrs -> [Comps -> Nat]],
         \A b \in Addrs : b # a => runs'[b] = runs[b],
         \A c \in Comps :
           \/ runs'[a][c] = runs[a][c]
           \/ \E r \in tick[a].running :
                /\ r.comp = c
                /\ runs'[a][c] = runs[a][c] + 1
                /\ tick'[a].tag = "ticking" => r \notin tick'[a].running
  PROVE  IInv'
<1> USE ComputeAssumption
<1>1. tick[a].running \in SUBSET Run
  <2>1. tick[a] \in TickState
    BY DEF IInv, TypeOK
  <2> QED
    BY <2>1 DEF TickState, Idle, Broken
<1>2. \A r \in tick[a].running :
        /\ WhenToRun[r.comp] < now
        /\ r.inputs = delivered[a] \cap MsgsOf(r.comp)
  BY DEF IInv, RunsWithInputs
<1>3. \A q, r \in tick[a].running : q.comp = r.comp => q = r
  <2>1. \A r \in Run : r = [comp |-> r.comp, inputs |-> r.inputs]
    BY DEF Run
  <2>2. \A r \in tick[a].running : r = [comp |-> r.comp, inputs |-> r.inputs]
    BY <1>1, <2>1
  <2> SUFFICES ASSUME NEW q \in tick[a].running, NEW r \in tick[a].running,
                      q.comp = r.comp
               PROVE  q = r
    OBVIOUS
  <2>3. q.inputs = r.inputs
    BY <1>2
  <2> QED
    BY <2>2, <2>3
<1>4. \A r \in tick[a].running :
        /\ r.comp \in Comps
        /\ runs[a][r.comp] = 0
        /\ states[a][r.comp] = Done
        /\ a \in WhoRuns[r.comp]
  BY <1>1 DEF IInv, PendingNotRun, Run
<1>5. TypeOK'
  BY DEF IInv, TypeOK
<1>6. QueueIsRight'
  BY DEF IInv, QueueIsRight
<1>7. TimestampsHaveInputs'
  <2>1. \A b \in Addrs : tick'[b] # Broken
    BY DEF IInv, TimestampsHaveInputs
  <2> QED
    BY <2>1 DEF IInv, TimestampsHaveInputs, Broken
<1>8. InputsAreDelivered'
  BY DEF IInv, InputsAreDelivered, Absent, MsgsOf
<1>9. PendingNotRun'
  <2>1. PendingNotRun
    BY DEF IInv
  <2>2. ASSUME NEW c \in Comps, states[a][c] # Done PROVE runs'[a][c] = 0
    <3>1. runs'[a][c] = runs[a][c]
      BY <1>4, <2>2
    <3> QED
      BY <2>1, <2>2, <3>1 DEF PendingNotRun
  <2>3. ASSUME NEW r \in tick'[a].running, tick'[a].tag = "ticking"
        PROVE  runs'[a][r.comp] = 0
    <3>1. r \in tick[a].running
      BY <2>3
    <3>2. runs'[a][r.comp] = runs[a][r.comp]
      BY <1>3, <1>4, <2>3, <3>1
    <3> QED
      BY <1>4, <3>1, <3>2
  <2>4. ASSUME NEW c \in Comps
        PROVE  /\ states[a][c] # Done => runs'[a][c] = 0
               /\ tick'[a].tag = "ticking" =>
                    \A r \in tick'[a].running :
                      r.comp = c => /\ runs'[a][c] = 0
                                    /\ states[a][c] = Done
                                    /\ a \in WhoRuns[c]
    BY <1>4, <2>2, <2>3
  <2>5. ASSUME NEW b \in Addrs, b # a
        PROVE  tick'[b] = tick[b] /\ runs'[b] = runs[b]
    BY <2>5
  <2> QED
    BY <2>1, <2>4, <2>5 DEF PendingNotRun, Done
<1>10. RunsOnce'
  <2>1. RunsOnce
    BY DEF IInv
  <2>2. ASSUME NEW c \in Comps
        PROVE  runs'[a][c] <= 1 /\ (runs'[a][c] = 1 => a \in WhoRuns[c])
    <3>1. CASE runs'[a][c] = runs[a][c]
      BY <2>1, <3>1 DEF RunsOnce
    <3>2. CASE \E r \in tick[a].running :
                 r.comp = c /\ runs'[a][c] = runs[a][c] + 1
      BY <1>4, <3>2
    <3> QED
      BY <3>1, <3>2
  <2>3. ASSUME NEW b \in Addrs, b # a PROVE runs'[b] = runs[b]
    BY <2>3
  <2> QED
    BY <2>1, <2>2, <2>3 DEF RunsOnce
<1>11. RunsWithInputs'
  BY <1>2 DEF IInv, RunsWithInputs, MsgsOf
<1> QED
  BY <1>5, <1>6, <1>7, <1>8, <1>9, <1>10, <1>11 DEF IInv

LEMMA TickingFields ==
  ASSUME IInv, NEW a \in Addrs, tick[a].tag = "ticking"
  PROVE  tick[a].running \in SUBSET Run /\ tick[a].sending \in SUBSET Routed
<1>1. tick[a] \in TickState
  BY DEF IInv, TypeOK
<1> QED
  BY <1>1 DEF TickState, Idle, Broken

LEMMA TickStates ==
  /\ Idle \in TickState /\ Idle # Broken /\ Idle.tag # "ticking"
  /\ \A running \in SUBSET Run, sending \in SUBSET Routed :
       /\ Ticking(running, sending) \in TickState
       /\ Ticking(running, sending) # Broken
       /\ Ticking(running, sending).running = running
BY DEF TickState, Idle, Broken, Ticking

LEMMA RunCompKeeps ==
  ASSUME IInv, NEW a \in Addrs, RunComp(a)
  PROVE  IInv'
<1>1. tick[a].tag = "ticking"
  BY DEF RunComp
<1>2. tick[a].running \in SUBSET Run /\ tick[a].sending \in SUBSET Routed
  BY <1>1, TickingFields
<1>3. PICK r \in tick[a].running :
        /\ runs' = [runs EXCEPT ![a][r.comp] = @ + 1]
        /\ tick' = [tick EXCEPT ![a] =
                      Ticking(@.running \ {r}, @.sending \cup PacketsOf(r.comp))]
  BY DEF RunComp
<1> DEFINE new == Ticking(tick[a].running \ {r},
                          tick[a].sending \cup PacketsOf(r.comp))
<1>4. new \in TickState /\ new # Broken /\ new.running = tick[a].running \ {r}
  <2>1. PacketsOf(r.comp) \in SUBSET Routed
    BY DEF PacketsOf
  <2>2. /\ tick[a].running \ {r} \in SUBSET Run
        /\ tick[a].sending \cup PacketsOf(r.comp) \in SUBSET Routed
    BY <1>2, <2>1
  <2> QED
    BY <2>2, TickStates
<1> HIDE DEF new
<1>5. /\ tick' \in [Addrs -> TickState]
      /\ tick'[a] = new
      /\ \A b \in Addrs : b # a => tick'[b] = tick[b]
  BY <1>3, <1>4 DEF new, IInv, TypeOK
<1>6. r.comp \in Comps
  BY <1>2 DEF Run
<1>7. /\ runs' \in [Addrs -> [Comps -> Nat]]
      /\ runs'[a][r.comp] = runs[a][r.comp] + 1
      /\ \A c \in Comps : c # r.comp => runs'[a][c] = runs[a][c]
      /\ \A b \in Addrs : b # a => runs'[b] = runs[b]
  BY <1>3, <1>6 DEF IInv, TypeOK
<1>8. UNCHANGED <<now, states, by_time, delivered>> /\ network' \subseteq Packet
  BY DEF RunComp, IInv, TypeOK
<1> QED
  BY <1>1, <1>4, <1>5, <1>6, <1>7, <1>8, TickWorkKeeps

LEMMA SendMsgKeeps ==
  ASSUME IInv, NEW a \in Addrs, SendMsg(a)
  PROVE  IInv'
<1>1. tick[a].tag = "ticking"
  BY DEF SendMsg
<1>2. tick[a].running \in SUBSET Run /\ tick[a].sending \in SUBSET Routed
  BY <1>1, TickingFields
<1>3. PICK p \in tick[a].sending :
        /\ network' = network \cup {p}
        /\ tick' = [tick EXCEPT ![a] = Ticking(@.running, @.sending \ {p})]
  BY DEF SendMsg
<1> DEFINE new == Ticking(tick[a].running, tick[a].sending \ {p})
<1>4. new \in TickState /\ new # Broken /\ new.running = tick[a].running
  <2>1. tick[a].sending \ {p} \in SUBSET Routed
    BY <1>2
  <2> QED
    BY <1>2, <2>1, TickStates
<1> HIDE DEF new
<1>5. /\ tick' \in [Addrs -> TickState]
      /\ tick'[a] = new
      /\ \A b \in Addrs : b # a => tick'[b] = tick[b]
  BY <1>3, <1>4 DEF new, IInv, TypeOK
<1>6. UNCHANGED <<now, states, by_time, delivered, runs>>
  BY DEF SendMsg
<1>7. network' \subseteq Packet
  BY <1>2, <1>3 DEF IInv, TypeOK, Routed
<1>8. runs' \in [Addrs -> [Comps -> Nat]]
  BY <1>6 DEF IInv, TypeOK
<1> QED
  BY <1>1, <1>4, <1>5, <1>6, <1>7, <1>8, TickWorkKeeps

(* A tick ends, whether it failed or not.                                   *)
LEMMA TickEndKeeps ==
  ASSUME IInv, NEW a \in Addrs, RunFails(a) \/ SendFails(a) \/ TickDone(a)
  PROVE  IInv'
<1>1. tick[a].tag = "ticking"
  BY DEF RunFails, SendFails, TickDone, Ticking
<1>2. tick[a].running \in SUBSET Run
  BY <1>1, TickingFields
<1>3. /\ tick' \in [Addrs -> TickState]
      /\ tick'[a] = Idle
      /\ \A b \in Addrs : b # a => tick'[b] = tick[b]
  <2>1. tick' = [tick EXCEPT ![a] = Idle]
    BY DEF RunFails, SendFails, TickDone
  <2> QED
    BY <2>1, TickStates DEF IInv, TypeOK
<1>4. /\ UNCHANGED <<now, states, by_time, delivered>>
      /\ network' \subseteq Packet
  BY DEF RunFails, SendFails, TickDone, IInv, TypeOK
<1>5. CASE RunFails(a)
  <2>1. PICK r \in tick[a].running : runs' = [runs EXCEPT ![a][r.comp] = @ + 1]
    BY <1>5 DEF RunFails
  <2>2. r.comp \in Comps
    BY <1>2 DEF Run
  <2>3. /\ runs' \in [Addrs -> [Comps -> Nat]]
        /\ runs'[a][r.comp] = runs[a][r.comp] + 1
        /\ \A c \in Comps : c # r.comp => runs'[a][c] = runs[a][c]
        /\ \A b \in Addrs : b # a => runs'[b] = runs[b]
    BY <2>1, <2>2 DEF IInv, TypeOK
  <2> QED
    BY <1>1, <1>3, <1>4, <2>2, <2>3, TickStates, TickWorkKeeps
<1>6. CASE SendFails(a) \/ TickDone(a)
  <2>1. runs' = runs /\ runs \in [Addrs -> [Comps -> Nat]]
    BY <1>6 DEF SendFails, TickDone, IInv, TypeOK
  <2> QED
    BY <1>1, <1>3, <1>4, <2>1, TickStates, TickWorkKeeps
<1> QED
  BY <1>5, <1>6

LEMMA ReceiveMsgKeeps ==
  ASSUME IInv, NEW a \in Addrs, NEW m \in Msgs, ReceiveMsg(a, m)
  PROVE  IInv'
<1> USE ComputeAssumption
<1>1. /\ delivered' \in [Addrs -> SUBSET Msgs]
      /\ delivered'[a] = delivered[a] \cup {m}
      /\ \A b \in Addrs : b # a => delivered'[b] = delivered[b]
  BY DEF ReceiveMsg, IInv, TypeOK
<1>2. tick[a] = Idle /\ UNCHANGED <<now, tick, network, runs>>
  BY DEF ReceiveMsg
<1>3. CASE MessageComp[m] = None
  <2>1. states' = states /\ by_time' = by_time
    BY <1>3 DEF ReceiveMsg
  <2>2. \A c \in Comps : m \notin MsgsOf(c)
    BY <1>3 DEF MsgsOf
  <2>3. \A b \in Addrs, c \in Comps :
          delivered'[b] \cap MsgsOf(c) = delivered[b] \cap MsgsOf(c)
    BY <1>1, <2>2
  <2>4. TypeOK'
    BY <1>1, <1>2, <2>1 DEF IInv, TypeOK
  <2>5. QueueIsRight' /\ RunsOnce'
    BY <1>2, <2>1 DEF IInv, QueueIsRight, RunsOnce
  <2>6. TimestampsHaveInputs'
    BY <1>2, <2>1 DEF IInv, TimestampsHaveInputs, Broken
  <2>7. InputsAreDelivered'
    BY <2>1, <2>3 DEF IInv, InputsAreDelivered, Absent, MsgsOf
  <2>8. PendingNotRun'
    BY <1>2, <2>1 DEF IInv, PendingNotRun, Done
  <2>9. RunsWithInputs'
    <3>1. \A b \in Addrs : tick[b].tag = "ticking" => delivered'[b] = delivered[b]
      BY <1>1, <1>2, TickStates
    <3> QED
      BY <1>2, <3>1 DEF IInv, RunsWithInputs, MsgsOf
  <2> QED
    BY <2>4, <2>5, <2>6, <2>7, <2>8, <2>9 DEF IInv
<1>4. CASE MessageComp[m] # None
  <2>1. MessageComp[m] \in Comps /\ {m} \in SUBSET MsgsOf(MessageComp[m])
    BY <1>4 DEF MsgsOf
  <2>2. Receive(a, MessageComp[m], {m})
    BY <1>4 DEF ReceiveMsg
  <2> QED
    BY <1>1, <1>2, <2>1, <2>2, ReceiveKeeps
<1> QED
  BY <1>3, <1>4

LEMMA ReceiveCompKeeps ==
  ASSUME IInv, NEW a \in Addrs, NEW c \in Comps, ReceiveComp(a, c)
  PROVE  IInv'
<1>1. /\ delivered' \in [Addrs -> SUBSET Msgs]
      /\ delivered'[a] = delivered[a] \cup {}
      /\ \A b \in Addrs : b # a => delivered'[b] = delivered[b]
  BY DEF ReceiveComp, IInv, TypeOK
<1>2. /\ tick[a] = Idle /\ UNCHANGED <<now, tick, network, runs>>
      /\ Receive(a, c, {})
  BY DEF ReceiveComp
<1>3. {} \in SUBSET MsgsOf(c)
  OBVIOUS
<1> QED
  BY <1>1, <1>2, <1>3, ReceiveKeeps
-----------------------------------------------------------------------------
LEMMA Step == IInv /\ [Next]_vars => IInv'
<1> SUFFICES ASSUME IInv, [Next]_vars PROVE IInv'
  OBVIOUS
<1>1. CASE Advance
  <2>1. UNCHANGED <<states, by_time, tick, network, delivered, runs>>
    BY <1>1 DEF Advance
  <2>2. now' \in Nat /\ now <= now'
    BY <1>1 DEF Advance, IInv, TypeOK
  <2>3. TypeOK'
    BY <2>1, <2>2 DEF IInv, TypeOK
  <2>4. QueueIsRight' /\ RunsOnce'
    BY <2>1 DEF IInv, QueueIsRight, RunsOnce
  <2>5. TimestampsHaveInputs'
    BY <2>1 DEF IInv, TimestampsHaveInputs, Broken
  <2>6. InputsAreDelivered'
    BY <2>1 DEF IInv, InputsAreDelivered, Absent, MsgsOf
  <2>7. PendingNotRun'
    BY <2>1 DEF IInv, PendingNotRun, Done
  <2>8. RunsWithInputs'
    <3> SUFFICES ASSUME NEW a \in Addrs, tick[a].tag = "ticking",
                        NEW r \in tick[a].running
                 PROVE  /\ WhenToRun[r.comp] < now'
                        /\ r.inputs = delivered[a] \cap MsgsOf(r.comp)
      BY <2>1 DEF RunsWithInputs, MsgsOf
    <3>1. /\ WhenToRun[r.comp] < now
          /\ r.inputs = delivered[a] \cap MsgsOf(r.comp)
      BY DEF IInv, RunsWithInputs
    <3>2. WhenToRun[r.comp] \in Nat /\ now \in Nat
      BY TickingFields, ComputeAssumption DEF Run, IInv, TypeOK
    <3> QED
      BY <3>1, <3>2, <2>2
  <2> QED
    BY <2>3, <2>4, <2>5, <2>6, <2>7, <2>8 DEF IInv
<1>2. ASSUME NEW a \in Addrs, TickStep(a) PROVE IInv'
  BY <1>2, TickStartKeeps, RunCompKeeps, SendMsgKeeps, TickEndKeeps DEF TickStep
<1>3. ASSUME NEW a \in Addrs, NEW m \in Msgs, ReceiveMsg(a, m) PROVE IInv'
  BY <1>3, ReceiveMsgKeeps
<1>4. ASSUME NEW a \in Addrs, NEW c \in Comps, ReceiveComp(a, c) PROVE IInv'
  BY <1>4, ReceiveCompKeeps
<1>5. CASE UNCHANGED vars
  <2>1. /\ UNCHANGED <<now, states, by_time, tick>>
        /\ UNCHANGED <<network, delivered, runs>>
    BY <1>5 DEF vars
  <2> QED
    BY <2>1 DEF IInv, TypeOK, QueueIsRight, TimestampsHaveInputs, Broken,
                InputsAreDelivered, Absent, PendingNotRun, Done, RunsOnce,
                RunsWithInputs, MsgsOf
<1> QED
  BY <1>1, <1>2, <1>3, <1>4, <1>5 DEF Next

(* The invariant holds in every reachable state.                            *)
THEOREM Invariant == Spec => []IInv
BY Initial, Step, PTL DEF Spec

(* Every state is well typed; a message that a tick has to send goes to an  *)
(* address that runs what the message is an input to.                       *)
THEOREM TypeCorrect == Spec => []TypeOK
<1>1. IInv => TypeOK
  BY DEF IInv
<1> QED
  BY <1>1, Invariant, PTL

(* by_time holds exactly the computations that collect inputs, so tick      *)
(* never returns the error of graph.rs:132.                                 *)
THEOREM NoTimestampError == Spec => []TimestampsHaveInputs
<1>1. IInv => TimestampsHaveInputs
  BY DEF IInv
<1> QED
  BY <1>1, Invariant, PTL

(* No repeated, late or failed message makes a node run a computation       *)
(* twice, or one that is not its own.                                       *)
THEOREM AtMostOnce == Spec => []RunsOnce
<1>1. IInv => RunsOnce
  BY DEF IInv
<1> QED
  BY <1>1, Invariant, PTL

(* What tick runs is due, and is given all that receive_msg got for it.     *)
THEOREM NoInputLost == Spec => []RunsWithInputs
<1>1. IInv => RunsWithInputs
  BY DEF IInv
<1> QED
  BY <1>1, Invariant, PTL
=============================================================================
