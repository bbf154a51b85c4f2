---------------------------- MODULE QuerySender ----------------------------
(***************************************************************************)
(* network/message_sender.rs: queries are messages that wait for a reply.  *)
(* Each call of send_and_receive_reply registers a handler under a lock;   *)
(* calls of handle_event, which run concurrently with it, remove handlers  *)
(* under the same lock and run them once it is dropped.                    *)
(*                                                                         *)
(* A name with an underscore is a faulty variant of the definition after   *)
(* it, which the checks put in its place.                                  *)
(***************************************************************************)
EXTENDS Integers, SequencesExt

CONSTANTS
  Queries,     \* the calls of send_and_receive_reply
  EventTasks,  \* the tasks that call handle_event
  Timeouts,    \* the values of timeout_ms
  MaxTime,     \* bound: the last value of the network time
  None         \* the Option that is empty, the lock that is free

ASSUME QuerySenderAssumption ==
  /\ Timeouts \subseteq Nat
  /\ MaxTime \in Nat
  /\ None \notin Queries
  /\ None \notin {"reply", "timeout"}

VARIABLES
  now,         \* the network time, as timestamp() returns it
  message_id,  \* MessageSender.message_id
  pc,          \* pc[q]: how far the call q is
  mid,         \* mid[q]: its message id, 0 before it has one
  deadline,    \* deadline[q]: its timeout_time
  holder,      \* the call that holds the write lock on handlers
  handlers,    \* QuerySender.handlers
  result,      \* result[q]: the value of its QueryResult
  task         \* task[e]: what the event task e is doing

vars == <<now, message_id, pc, mid, deadline, holder, handlers, result, task>>
calls == <<message_id, pc, mid, deadline, holder>>

Outcomes == {"reply", "timeout"}
Handler == [id : Nat, timeout_time : Nat, query : Queries]

Idle == [at |-> "idle"]
Panicked == [at |-> "panicked"]
Task == {Idle, Panicked}
        \cup [at : {"reply"}, id : Nat]
        \cup [at : {"tick"}, curr_time : Nat]
        \cup [at : {"handling"}, done : Seq(Handler), outcome : Outcomes]

Init ==
  /\ now = 0
  /\ message_id = 0
  /\ pc = [q \in Queries |-> "new"]
  /\ mid = [q \in Queries |-> 0]
  /\ deadline = [q \in Queries |-> 0]
  /\ holder = None
  /\ handlers = <<>>
  /\ result = [q \in Queries |-> None]
  /\ task = [e \in EventTasks |-> Idle]

(* The network time is external; it does not go back.                       *)
Advance ==
  /\ now < MaxTime
  /\ now' = now + 1
  /\ UNCHANGED <<calls, handlers, result, task>>
-----------------------------------------------------------------------------
(* send_and_receive_reply.                                                  *)

ReserveMessageId_Stale(q) ==
  /\ pc[q] = "new"
  /\ \/ message_id' = message_id + 1
     \/ message_id' = message_id /\ message_id # 0
  /\ mid' = [mid EXCEPT ![q] = message_id']
  /\ pc' = [pc EXCEPT ![q] = "reserved"]
  /\ UNCHANGED <<now, deadline, holder, handlers, result, task>>
ReserveMessageId(q) ==
  /\ pc[q] = "new"
  /\ message_id' = message_id + 1
  /\ mid' = [mid EXCEPT ![q] = message_id']
  /\ pc' = [pc EXCEPT ![q] = "reserved"]
  /\ UNCHANGED <<now, deadline, holder, handlers, result, task>>

(* The time is read before the lock is taken.  Its value and timeout_ms are *)
(* added as numbers, whatever their units.                                  *)
GetSendTime_Sign(q) ==
  /\ pc[q] = "reserved"
  /\ \E timeout_ms \in Timeouts :
       deadline' = [deadline EXCEPT ![q] = now - timeout_ms]
  /\ pc' = [pc EXCEPT ![q] = "timed"]
  /\ UNCHANGED <<now, message_id, mid, holder, handlers, result, task>>
GetSendTime(q) ==
  /\ pc[q] = "reserved"
  /\ \E timeout_ms \in Timeouts :
       deadline' = [deadline EXCEPT ![q] = now + timeout_ms]
  /\ pc' = [pc EXCEPT ![q] = "timed"]
  /\ UNCHANGED <<now, message_id, mid, holder, handlers, result, task>>

GetSendTimeFails(q) ==
  /\ pc[q] = "reserved"
  /\ pc' = [pc EXCEPT ![q] = "unsent"]
  /\ UNCHANGED <<now, message_id, mid, deadline, holder, handlers, result, task>>

Register(q) ==
  /\ pc[q] = "timed"
  /\ holder = None
  /\ holder' = q
  /\ handlers' = Append(handlers, [id |-> mid[q], timeout_time |-> deadline[q],
                                   query |-> q])
  /\ pc' = [pc EXCEPT ![q] = "sending"]
  /\ UNCHANGED <<now, message_id, mid, deadline, result, task>>

(* The guard on handlers is not dropped before q_result.await.              *)
Send(q) ==
  /\ pc[q] = "sending"
  /\ pc' = [pc EXCEPT ![q] = "awaiting"]
  /\ UNCHANGED <<now, message_id, mid, deadline, holder, handlers, result, task>>

(* An error of the network is returned at once; the handler stays.          *)
SendFails(q) ==
  /\ pc[q] = "sending"
  /\ pc' = [pc EXCEPT ![q] = "failed"]
  /\ holder' = None
  /\ UNCHANGED <<now, message_id, mid, deadline, handlers, result, task>>

(* QueryResult::poll takes the value; returning it drops the guard.  A poll *)
(* that finds no value changes nothing (and arranges for no other poll).    *)
Poll(q) ==
  /\ pc[q] = "awaiting"
  /\ IF result[q] = None
     THEN UNCHANGED <<result, pc, holder>>
     ELSE /\ result' = [result EXCEPT ![q] = None]
          /\ pc' = [pc EXCEPT ![q] = "answered"]
          /\ holder' = None
  /\ UNCHANGED <<now, message_id, mid, deadline, handlers, task>>
-----------------------------------------------------------------------------
(* handle_event.                                                            *)

(* A reply names a message that the network was given, even one of which    *)
(* it reported that sending failed; a peer may reply more than once.        *)
Received(e) ==
  /\ task[e] = Idle
  /\ \E q \in Queries :
       /\ pc[q] \in {"sending", "awaiting", "failed", "answered"}
       /\ task' = [task EXCEPT ![e] = [at |-> "reply", id |-> mid[q]]]
  /\ UNCHANGED <<now, calls, handlers, result>>

(* The time is read before the lock is taken.                               *)
Tick(e) ==
  /\ task[e] = Idle
  /\ task' = [task EXCEPT ![e] = [at |-> "tick", curr_time |-> now]]
  /\ UNCHANGED <<now, calls, handlers, result>>

Handling(done, outcome) ==
  [at |-> "handling", done |-> done, outcome |-> outcome]

(* The first handler registered for the message is removed.                 *)
TakeReplied_Keep(e) ==
  /\ task[e].at = "reply"
  /\ holder = None
  /\ \E i \in DOMAIN handlers :
       /\ handlers[i].id = task[e].id
       /\ task' = [task EXCEPT ![e] = Handling(<<handlers[i]>>, "reply")]
  /\ UNCHANGED <<now, calls, result, handlers>>
TakeReplied(e) ==
  /\ task[e].at = "reply"
  /\ holder = None
  /\ \E i \in DOMAIN handlers :
       /\ handlers[i].id = task[e].id
       /\ \A j \in 1..(i - 1) : handlers[j].id # task[e].id
       /\ handlers' = RemoveAt(handlers, i)
       /\ task' = [task EXCEPT ![e] = Handling(<<handlers[i]>>, "reply")]
  /\ UNCHANGED <<now, calls, result>>

IgnoreReply(e) ==
  /\ task[e].at = "reply"
  /\ holder = None
  /\ \A i \in DOMAIN handlers : handlers[i].id # task[e].id
  /\ task' = [task EXCEPT ![e] = Idle]
  /\ UNCHANGED <<now, calls, handlers, result>>

(* The handlers up to the first that has not expired are removed.           *)
TakeExpired(e) ==
  /\ task[e].at = "tick"
  /\ holder = None
  /\ \E ix \in 0..Len(handlers) :
       /\ \A i \in 1..ix : handlers[i].timeout_time <= task[e].curr_time
       /\ ix < Len(handlers) =>
            handlers[ix + 1].timeout_time > task[e].curr_time
       /\ handlers' = SubSeq(handlers, ix + 1, Len(handlers))
       /\ task' = [task EXCEPT ![e] = Handling(SubSeq(handlers, 1, ix), "timeout")]
  /\ UNCHANGED <<now, calls, result>>

(* produce_result, called by each handler taken.                            *)
ProduceResult(e) ==
  /\ task[e].at = "handling"
  /\ task[e].done # <<>>
  /\ LET q == Head(task[e].done).query
     IN IF result[q] = None
        THEN /\ result' = [result EXCEPT ![q] = task[e].outcome]
             /\ task' = [task EXCEPT ![e].done = Tail(@)]
        ELSE /\ task' = [task EXCEPT ![e] = Panicked]
             /\ UNCHANGED result
  /\ UNCHANGED <<now, calls, handlers>>

HandlingDone(e) ==
  /\ task[e].at = "handling"
  /\ task[e].done = <<>>
  /\ task' = [task EXCEPT ![e] = Idle]
  /\ UNCHANGED <<now, calls, handlers, result>>
-----------------------------------------------------------------------------
CallStep(q) == \/ ReserveMessageId(q) \/ GetSendTime(q) \/ GetSendTimeFails(q)
               \/ Register(q) \/ Send(q) \/ SendFails(q) \/ Poll(q)
TakeStep(e) == TakeReplied(e) \/ IgnoreReply(e) \/ TakeExpired(e)
EventStep(e) == \/ Received(e) \/ Tick(e)
                \/ TakeStep(e) \/ ProduceResult(e) \/ HandlingDone(e)
Next == \/ Advance
        \/ \E q \in Queries : CallStep(q)
        \/ \E e \in EventTasks : EventStep(e)
Spec == Init /\ [][Next]_vars

(* Time goes on, every call that can go on does (a waiting one is polled    *)
(* again and again, which is more than QueryResult::poll arranges for),     *)
(* every event that is being handled is, and every task that is idle again  *)
(* and again gets a tick; replies need not come.                            *)
FairSpec ==
  /\ Spec
  /\ WF_vars(Advance)
  /\ \A q \in Queries : WF_vars(CallStep(q))
  /\ \A e \in EventTasks : WF_vars(EventStep(e)) /\ SF_vars(Tick(e))
-----------------------------------------------------------------------------
(* The type invariant.                                                      *)
TypeOK ==
  /\ now \in Nat
  /\ message_id \in Nat
  /\ pc \in [Queries -> {"new", "reserved", "timed", "unsent", "sending",
                         "failed", "awaiting", "answered"}]
  /\ mid \in [Queries -> Nat]
  /\ deadline \in [Queries -> Nat]
  /\ holder \in Queries \cup {None}
  /\ handlers \in Seq(Handler)
  /\ result \in [Queries -> Outcomes \cup {None}]
  /\ task \in [EventTasks -> Task]

(* The panic "wrote a query result twice" is unreachable: whatever replies, *)
(* duplicate replies and ticks race, each handler is run by one of them.    *)
NoPanic == \A e \in EventTasks : task[e] # Panicked

(* A reply is only ever handed to the call whose message it answers.        *)
RepliesMatch ==
  \A e \in EventTasks :
    task[e].at = "reply" =>
      \A q, r \in Queries :
        pc[q] # "new" /\ mid[q] = task[e].id /\ mid[r] = task[e].id => q = r

(* send_and_receive_reply sends "a message, returning the reply"            *)
(* (message_sender.rs:134): a call that sent its message is answered in the *)
(* end, by a reply or by the tick after its timeout.                        *)
QueriesAreAnswered ==
  \A q \in Queries : pc[q] = "awaiting" ~> pc[q] = "answered"

(* What happens instead: no call is ever answered, neither by a reply nor   *)
(* by a timeout.  A call waits for its handler to run while it holds the    *)
(* lock that whoever would run the handler has to take first.               *)
NoAnswer == \A q \in Queries : pc[q] # "answered"
=============================================================================
