------------------------- MODULE QuerySenderProofs -------------------------
(***************************************************************************)
(* Theorems of QuerySender, for any number of calls and event tasks.       *)
(***************************************************************************)
EXTENDS QuerySender, SequenceTheorems, TLAPS

(* The lemmas about sequences that the removal of handlers needs.           *)
LEMMA RemoveAtProperties ==
  ASSUME NEW S, NEW s \in Seq(S), NEW i \in 1..Len(s)
  PROVE  /\ RemoveAt(s, i) \in Seq(S)
         /\ Len(RemoveAt(s, i)) = Len(s) - 1
         /\ \A j \in 1..(Len(s) - 1) :
              RemoveAt(s, i)[j] = IF j < i THEN s[j] ELSE s[j + 1]
<1> DEFINE a == SubSeq(s, 1, i - 1)
           b == SubSeq(s, i + 1, Len(s))
<1>1. /\ a \in Seq(S) /\ Len(a) = i - 1
      /\ \A j \in 1..(i - 1) : a[j] = s[j]
  OBVIOUS
<1>2. /\ b \in Seq(S) /\ Len(b) = Len(s) - i
      /\ \A j \in 1..(Len(s) - i) : b[j] = s[i + j]
  OBVIOUS
<1> HIDE DEF a, b
<1>3. /\ a \o b \in Seq(S)
      /\ Len(a \o b) = Len(a) + Len(b)
      /\ \A j \in 1..(Len(a) + Len(b)) :
           (a \o b)[j] = IF j <= Len(a) THEN a[j] ELSE b[j - Len(a)]
  BY <1>1, <1>2, ConcatProperties
<1>4. Len(a) + Len(b) = Len(s) - 1
  BY <1>1, <1>2
<1>5. ASSUME NEW j \in 1..(Len(s) - 1)
      PROVE  (a \o b)[j] = IF j < i THEN s[j] ELSE s[j + 1]
  <2>1. CASE j < i
    BY <1>1, <1>3, <1>4, <2>1
  <2>2. CASE ~(j < i)
    <3>1. j - (i - 1) \in 1..(Len(s) - i) /\ i + (j - (i - 1)) = j + 1
      BY <2>2
    <3>2. (a \o b)[j] = b[j - (i - 1)]
      BY <1>1, <1>3, <1>4, <2>2
    <3>3. b[j - (i - 1)] = s[j + 1]
      BY <1>2, <3>1
    <3>4. QED
      BY <2>2, <3>2, <3>3
  <2>3. QED
    BY <2>1, <2>2
<1>6. QED
  BY <1>3, <1>4, <1>5 DEF RemoveAt, a, b

(* Where the elements of a sequence go when it is cut in two.               *)
LEMMA CutProperties ==
  ASSUME NEW S, NEW s \in Seq(S), NEW n \in 0..Len(s)
  PROVE  /\ SubSeq(s, 1, n) \in Seq(S) /\ Len(SubSeq(s, 1, n)) = n
         /\ \A j \in 1..n : SubSeq(s, 1, n)[j] = s[j]
         /\ SubSeq(s, n + 1, Len(s)) \in Seq(S)
         /\ Len(SubSeq(s, n + 1, Len(s))) = Len(s) - n
         /\ \A j \in 1..(Len(s) - n) : SubSeq(s, n + 1, Len(s))[j] = s[n + j]
OBVIOUS
-----------------------------------------------------------------------------
(* What the lock does.  Handlers are taken only while no call holds the     *)
(* lock, and every call that has sent its message and not failed holds it;  *)
(* so only handlers of calls that have already failed are ever taken.       *)
SendersHoldLock ==
  \A q \in Queries : pc[q] \in {"sending", "awaiting"} => holder = q
HandlersWereSent ==
  \A i \in DOMAIN handlers :
    pc[handlers[i].query] \in {"sending", "awaiting", "failed"}
TakenHaveFailed ==
  \A e \in EventTasks : task[e].at = "handling" =>
    \A i \in DOMAIN task[e].done : pc[task[e].done[i].query] = "failed"
ResultsOfFailed == \A q \in Queries : result[q] # None => pc[q] = "failed"

(* Where handlers are: each registered handler is in one place, the list or *)
(* one task, once, and its call has no result.                              *)
Listed(q) == \E i \in DOMAIN handlers : handlers[i].query = q
Taken(e, q) == /\ task[e].at = "handling"
               /\ \E i \in DOMAIN task[e].done : task[e].done[i].query = q
ListedOnce == \A i, j \in DOMAIN handlers :
                handlers[i].query = handlers[j].query => i = j
TakenOnce ==
  \A e \in EventTasks : task[e].at = "handling" =>
    \A i, j \in DOMAIN task[e].done :
      task[e].done[i].query = task[e].done[j].query => i = j
ListedOrTaken ==
  \A q \in Queries, e \in EventTasks :
    Taken(e, q) => ~Listed(q) /\ \A f \in EventTasks : Taken(f, q) => e = f
PendingHasNoResult ==
  \A q \in Queries :
    Listed(q) \/ (\E e \in EventTasks : Taken(e, q)) => result[q] = None

(* Message ids are given out once.                                          *)
IdsAreUnique ==
  /\ \A q \in Queries : mid[q] <= message_id
  /\ \A q \in Queries : mid[q] = 0 <=> pc[q] = "new"
  /\ \A q, r \in Queries : mid[q] = mid[r] /\ mid[q] # 0 => q = r

LockInv == /\ TypeOK /\ SendersHoldLock /\ HandlersWereSent /\ TakenHaveFailed
           /\ ResultsOfFailed /\ NoAnswer
OnceInv == /\ ListedOnce /\ TakenOnce /\ ListedOrTaken /\ PendingHasNoResult
           /\ NoPanic
IInv == LockInv /\ OnceInv /\ IdsAreUnique

(* What produce_result leaves of a task that handles more than one handler.  *)
LEMMA RestOfTask ==
  ASSUME NEW old, NEW done, NEW outcome, old = Handling(done, outcome), NEW rest
  PROVE  [old EXCEPT !.done = rest] = Handling(rest, outcome)
BY DEF Handling

(* What the type of a task says of the fields it has.                       *)
LEMMA TaskFields ==
  ASSUME TypeOK, NEW e \in EventTasks
  PROVE  /\ task[e].at = "reply" => task[e].id \in Nat
         /\ task[e].at = "tick" => task[e].curr_time \in Nat
         /\ task[e].at = "handling" => /\ task[e].done \in Seq(Handler)
                                       /\ task[e].outcome \in Outcomes
                                       /\ task[e] = Handling(task[e].done,
                                                             task[e].outcome)
         /\ task[e] = Panicked => task[e].at = "panicked"
<1>1. task[e] \in Task
  BY DEF TypeOK
<1>2. QED
  BY <1>1 DEF Task, Idle, Panicked, Handling

LEMMA HandlerFields ==
  ASSUME TypeOK
  PROVE  /\ Len(handlers) \in Nat /\ DOMAIN handlers = 1..Len(handlers)
         /\ \A i \in DOMAIN handlers : /\ handlers[i] \in Handler
                                      /\ handlers[i].query \in Queries
<1>1. handlers \in Seq(Handler)
  BY DEF TypeOK
<1>2. \A i \in DOMAIN handlers : handlers[i] \in Handler
  BY <1>1
<1>3. QED
  BY <1>1, <1>2 DEF Handler

(* The handlers left when handler i, or the first n handlers, are taken.    *)
LEMMA HandlersLeft ==
  ASSUME TypeOK
  PROVE  /\ \A i \in DOMAIN handlers :
              /\ DOMAIN RemoveAt(handlers, i) = 1..(Len(handlers) - 1)
              /\ \A j \in 1..(Len(handlers) - 1) :
                   RemoveAt(handlers, i)[j] = IF j < i THEN handlers[j]
                                                       ELSE handlers[j + 1]
         /\ \A n \in 0..Len(handlers) :
              /\ DOMAIN SubSeq(handlers, 1, n) = 1..n
              /\ \A j \in 1..n : SubSeq(handlers, 1, n)[j] = handlers[j]
              /\ DOMAIN SubSeq(handlers, n + 1, Len(handlers))
                   = 1..(Len(handlers) - n)
              /\ \A j \in 1..(Len(handlers) - n) :
                   SubSeq(handlers, n + 1, Len(handlers))[j] = handlers[n + j]
<1>1. handlers \in Seq(Handler) /\ DOMAIN handlers = 1..Len(handlers)
  BY HandlerFields DEF TypeOK
<1>2. ASSUME NEW i \in DOMAIN handlers
      PROVE  /\ DOMAIN RemoveAt(handlers, i) = 1..(Len(handlers) - 1)
             /\ \A j \in 1..(Len(handlers) - 1) :
                  RemoveAt(handlers, i)[j] = IF j < i THEN handlers[j]
                                                      ELSE handlers[j + 1]
  <2>1. i \in 1..Len(handlers)
    BY <1>1
  <2>2. /\ RemoveAt(handlers, i) \in Seq(Handler)
        /\ Len(RemoveAt(handlers, i)) = Len(handlers) - 1
        /\ \A j \in 1..(Len(handlers) - 1) :
             RemoveAt(handlers, i)[j] = IF j < i THEN handlers[j]
                                                 ELSE handlers[j + 1]
    BY <1>1, <2>1, RemoveAtProperties
  <2>3. QED
    BY <2>2
<1>3. ASSUME NEW n \in 0..Len(handlers)
      PROVE  /\ DOMAIN SubSeq(handlers, 1, n) = 1..n
             /\ \A j \in 1..n : SubSeq(handlers, 1, n)[j] = handlers[j]
             /\ DOMAIN SubSeq(handlers, n + 1, Len(handlers))
                  = 1..(Len(handlers) - n)
             /\ \A j \in 1..(Len(handlers) - n) :
                  SubSeq(handlers, n + 1, Len(handlers))[j] = handlers[n + j]
  BY <1>1, CutProperties
<1>4. QED
  BY <1>2, <1>3

(* The task that runs a handler, before and after.                          *)
LEMMA ProduceStep ==
  ASSUME TypeOK, NEW e \in EventTasks, ProduceResult(e)
  PROVE  LET done == task[e].done
             q == Head(done).query
         IN /\ task[e].at = "handling"
            /\ Len(done) \in Nat /\ DOMAIN done = 1..Len(done)
            /\ 1 \in DOMAIN done /\ done[1].query = q /\ q \in Queries
            /\ \A f \in EventTasks : f # e => task'[f] = task[f]
            /\ result' \in [Queries -> Outcomes \cup {None}]
            /\ \A r \in Queries : r # q => result'[r] = result[r]
            /\ task'[e] = Panicked => result[q] # None
            /\ task'[e].at = "handling" =>
                 /\ DOMAIN task'[e].done = 1..(Len(done) - 1)
                 /\ \A j \in 1..(Len(done) - 1) :
                      j + 1 \in DOMAIN done /\ task'[e].done[j] = done[j + 1]
<1> DEFINE done == task[e].done
           q == Head(done).query
<1>1. /\ task[e].at = "handling"
      /\ done \in Seq(Handler) /\ done # <<>> /\ task[e].outcome \in Outcomes
      /\ task[e] = Handling(done, task[e].outcome)
  BY TaskFields DEF ProduceResult
<1>2. /\ Len(done) \in Nat /\ DOMAIN done = 1..Len(done) /\ 1 \in DOMAIN done
      /\ done[1] \in Handler /\ Head(done) = done[1]
      /\ Tail(done) \in Seq(Handler)
      /\ DOMAIN Tail(done) = 1..(Len(done) - 1)
      /\ \A j \in 1..(Len(done) - 1) : j + 1 \in DOMAIN done
                                     /\ Tail(done)[j] = done[j + 1]
  BY <1>1
<1>3. q \in Queries
  BY <1>2 DEF Handler
<1>4. CASE result[q] = None
  <2>1. task' = [task EXCEPT ![e] = Handling(Tail(done), task[e].outcome)]
    <3>1. [task[e] EXCEPT !.done = Tail(@)]
            = Handling(Tail(task[e].done), task[e].outcome)
      <4>1. PICK old, outcome, rest :
              /\ old = task[e] /\ outcome = task[e].outcome
              /\ rest = Tail(task[e].done)
        OBVIOUS
      <4>2. [old EXCEPT !.done = rest] = Handling(rest, outcome)
        <5>1. old = Handling(task[e].done, outcome)
          BY <1>1, <4>1
        <5>2. QED
          BY ONLY <5>1, RestOfTask
      <4>3. QED
        BY <4>1, <4>2
    <3>2. QED
      BY <1>4, <3>1 DEF ProduceResult
  <2>2. /\ task'[e].at = "handling" /\ task'[e].done = Tail(done)
        /\ \A f \in EventTasks : f # e => task'[f] = task[f]
    BY <2>1 DEF TypeOK, Handling
  <2>3. result' = [result EXCEPT ![q] = task[e].outcome]
    BY <1>4 DEF ProduceResult
  <2>4. task'[e] # Panicked
    BY <2>2 DEF Panicked
  <2>5. /\ result' \in [Queries -> Outcomes \cup {None}]
        /\ \A r \in Queries : r # q => result'[r] = result[r]
    BY <1>1, <1>3, <2>3 DEF TypeOK
  <2> HIDE DEF q
  <2>6. QED
    BY <1>1, <1>2, <1>3, <2>2, <2>4, <2>5 DEF q
<1>5. CASE result[q] # None
  <2>1. task' = [task EXCEPT ![e] = Panicked] /\ result' = result
    BY <1>5 DEF ProduceResult
  <2>2. /\ task'[e] = Panicked /\ task'[e].at # "handling"
        /\ \A f \in EventTasks : f # e => task'[f] = task[f]
    BY <2>1 DEF TypeOK, Panicked
  <2>3. QED
    BY <1>1, <1>2, <1>3, <1>5, <2>1, <2>2 DEF TypeOK
<1>6. QED
  BY <1>4, <1>5

LEMMA InitIInv == ASSUME Init PROVE IInv
<1>1. TypeOK
  BY QuerySenderAssumption DEF Init, TypeOK, Task
<1>2. LockInv
  BY <1>1 DEF Init, LockInv, SendersHoldLock, HandlersWereSent,
              TakenHaveFailed, ResultsOfFailed, NoAnswer, Idle
<1>3. OnceInv
  BY DEF Init, OnceInv, ListedOnce, TakenOnce, ListedOrTaken,
         PendingHasNoResult, NoPanic, Taken, Listed, Idle, Panicked
<1>4. IdsAreUnique
  BY DEF Init, IdsAreUnique
<1>5. QED
  BY <1>2, <1>3, <1>4 DEF IInv
-----------------------------------------------------------------------------
(* Every step keeps the types.                                              *)
LEMMA NextTypeOK == ASSUME LockInv, Next PROVE TypeOK'
<1> USE QuerySenderAssumption DEF LockInv
<1>1. CASE Advance
  BY <1>1 DEF TypeOK, Advance, calls
<1>2. ASSUME NEW q \in Queries, CallStep(q)
      PROVE  TypeOK'
  <2>1. CASE ReserveMessageId(q)
    BY <2>1 DEF TypeOK, ReserveMessageId
  <2>2. CASE GetSendTime(q)
    BY <2>2 DEF TypeOK, GetSendTime
  <2>3. CASE GetSendTimeFails(q)
    BY <2>3 DEF TypeOK, GetSendTimeFails
  <2>4. CASE Register(q)
    <3>1. [id |-> mid[q], timeout_time |-> deadline[q], query |-> q] \in Handler
      BY DEF TypeOK, Handler
    <3>2. QED
      BY <2>4, <3>1 DEF TypeOK, Register
  <2>5. CASE Send(q)
    BY <2>5 DEF TypeOK, Send
  <2>6. CASE SendFails(q)
    BY <2>6 DEF TypeOK, SendFails
  <2>7. CASE Poll(q)
    BY <2>7 DEF TypeOK, Poll
  <2>8. QED
    BY <1>2, <2>1, <2>2, <2>3, <2>4, <2>5, <2>6, <2>7 DEF CallStep
<1>3. ASSUME NEW e \in EventTasks, EventStep(e)
      PROVE  TypeOK'
  <2>1. CASE Received(e)
    BY <2>1 DEF TypeOK, Received, calls, Task
  <2>2. CASE Tick(e)
    BY <2>2 DEF TypeOK, Tick, calls, Task
  <2>3. CASE TakeReplied(e)
    <3>1. PICK i \in DOMAIN handlers :
            /\ handlers' = RemoveAt(handlers, i)
            /\ task' = [task EXCEPT ![e] = Handling(<<handlers[i]>>, "reply")]
      BY <2>3 DEF TakeReplied
    <3>2. handlers \in Seq(Handler) /\ i \in 1..Len(handlers)
      BY DEF TypeOK
    <3>3. handlers' \in Seq(Handler)
      BY <3>1, <3>2, RemoveAtProperties
    <3>4. <<handlers[i]>> \in Seq(Handler)
      BY <3>2
    <3>5. Handling(<<handlers[i]>>, "reply") \in Task
      BY <3>4 DEF Handling, Task, Outcomes
    <3>6. QED
      BY <2>3, <3>1, <3>3, <3>5 DEF TypeOK, TakeReplied, calls
  <2>4. CASE IgnoreReply(e)
    BY <2>4 DEF TypeOK, IgnoreReply, calls, Task
  <2>5. CASE TakeExpired(e)
    <3>1. PICK ix \in 0..Len(handlers) :
            /\ handlers' = SubSeq(handlers, ix + 1, Len(handlers))
            /\ task' = [task EXCEPT ![e] =
                          Handling(SubSeq(handlers, 1, ix), "timeout")]
      BY <2>5 DEF TakeExpired
    <3>2. SubSeq(handlers, 1, ix) \in Seq(Handler) /\ handlers' \in Seq(Handler)
      BY <3>1, CutProperties DEF TypeOK
    <3>3. Handling(SubSeq(handlers, 1, ix), "timeout") \in Task
      BY <3>2 DEF Handling, Task, Outcomes
    <3>4. QED
      BY <2>5, <3>1, <3>2, <3>3 DEF TypeOK, TakeExpired, calls
  <2>6. CASE ProduceResult(e)
    <3>1. /\ task[e].done \in Seq(Handler) /\ task[e].done # <<>>
          /\ task[e].outcome \in Outcomes
          /\ task[e] = Handling(task[e].done, task[e].outcome)
      BY <2>6, TaskFields DEF ProduceResult
    <3>2. Tail(task[e].done) \in Seq(Handler)
      BY <3>1
    <3>3. [task[e] EXCEPT !.done = Tail(@)] \in Task
      <4>1. [task[e] EXCEPT !.done = Tail(@)]
              = Handling(Tail(task[e].done), task[e].outcome)
        <5>1. PICK old, outcome, rest :
                /\ old = task[e] /\ outcome = task[e].outcome
                /\ rest = Tail(task[e].done)
          OBVIOUS
        <5>2. [old EXCEPT !.done = rest] = Handling(rest, outcome)
          <6>1. old = Handling(task[e].done, outcome)
            BY <3>1, <5>1
          <6>2. QED
            BY ONLY <6>1, RestOfTask
        <5>3. QED
          BY <5>1, <5>2
      <4>2. Handling(Tail(task[e].done), task[e].outcome) \in Task
        BY <3>1, <3>2 DEF Handling, Task
      <4>3. QED
        BY <4>1, <4>2
    <3>4. Panicked \in Task
      BY DEF Task
    <3>5. task' \in [EventTasks -> Task]
      BY <2>6, <3>3, <3>4 DEF TypeOK, ProduceResult
    <3>6. result' \in [Queries -> Outcomes \cup {None}]
      BY <2>6, <3>1 DEF TypeOK, ProduceResult
    <3>7. QED
      BY <2>6, <3>5, <3>6 DEF TypeOK, ProduceResult, calls
  <2>7. CASE HandlingDone(e)
    BY <2>7 DEF TypeOK, HandlingDone, calls, Task
  <2>8. QED
    BY <1>3, <2>1, <2>2, <2>3, <2>4, <2>5, <2>6, <2>7 DEF EventStep, TakeStep
<1>4. QED
  BY <1>1, <1>2, <1>3 DEF Next

(* Whoever holds the lock to take handlers finds only those of failed calls.*)
LEMMA UnlockedHaveFailed ==
  ASSUME LockInv, holder = None
  PROVE  \A j \in DOMAIN handlers :
           handlers[j].query \in Queries /\ pc[handlers[j].query] = "failed"
<1> TAKE j \in DOMAIN handlers
<1>1. handlers[j].query \in Queries
  BY HandlerFields DEF LockInv
<1>2. holder # handlers[j].query
  BY <1>1, QuerySenderAssumption
<1>3. QED
  BY <1>1, <1>2 DEF LockInv, HandlersWereSent, SendersHoldLock

(* Every step keeps the discipline of the lock.                             *)
LEMMA NextLockInv == ASSUME LockInv, Next PROVE LockInv'
<1>1. TypeOK'
  BY NextTypeOK
<1>2. CASE Advance
  BY <1>1, <1>2 DEF LockInv, Advance, calls, SendersHoldLock, HandlersWereSent,
                    TakenHaveFailed, ResultsOfFailed, NoAnswer
<1>3. ASSUME NEW q \in Queries, CallStep(q)
      PROVE  LockInv'
  <2>1. CASE ReserveMessageId(q) \/ GetSendTime(q) \/ GetSendTimeFails(q)
    <3>1. /\ \E p \in {"reserved", "timed", "unsent"} : pc' = [pc EXCEPT ![q] = p]
          /\ pc[q] \in {"new", "reserved"}
          /\ UNCHANGED <<holder, handlers, result, task>>
      BY <2>1 DEF ReserveMessageId, GetSendTime, GetSendTimeFails
    <3>2. pc \in [Queries -> {"new", "reserved", "timed", "unsent", "sending",
                              "failed", "awaiting", "answered"}]
      BY DEF LockInv, TypeOK
    <3>3. HandlersWereSent'
      BY <3>1, <3>2 DEF LockInv, HandlersWereSent
    <3>4. TakenHaveFailed'
      BY <3>1, <3>2 DEF LockInv, TakenHaveFailed
    <3>5. SendersHoldLock' /\ ResultsOfFailed' /\ NoAnswer'
      BY <3>1, <3>2 DEF LockInv, SendersHoldLock, ResultsOfFailed, NoAnswer
    <3>6. QED
      BY <1>1, <3>3, <3>4, <3>5 DEF LockInv
  <2>2. CASE Register(q)
    <3>1. /\ pc[q] = "timed" /\ pc' = [pc EXCEPT ![q] = "sending"]
          /\ holder = None /\ holder' = q
          /\ UNCHANGED <<result, task>>
      BY <2>2 DEF Register
    <3>2. HandlersWereSent'
      <4>1. /\ DOMAIN handlers' = 1..(Len(handlers) + 1)
            /\ DOMAIN handlers = 1..Len(handlers)
            /\ handlers'[Len(handlers) + 1].query = q
            /\ \A i \in DOMAIN handlers : handlers'[i] = handlers[i]
        BY <2>2 DEF Register, LockInv, TypeOK
      <4>2. \A i \in DOMAIN handlers : handlers[i].query \in Queries
        BY HandlerFields DEF LockInv
      <4>3. QED
        BY <3>1, <4>1, <4>2 DEF LockInv, TypeOK, HandlersWereSent
    <3>3. SendersHoldLock'
      BY <3>1, QuerySenderAssumption DEF LockInv, TypeOK, SendersHoldLock
    <3>4. TakenHaveFailed' /\ ResultsOfFailed' /\ NoAnswer'
      BY <3>1 DEF LockInv, TypeOK, TakenHaveFailed, ResultsOfFailed, NoAnswer
    <3>5. QED
      BY <1>1, <3>2, <3>3, <3>4 DEF LockInv
  <2>3. CASE Send(q)
    BY <1>1, <2>3 DEF LockInv, TypeOK, Send, SendersHoldLock, HandlersWereSent,
                      TakenHaveFailed, ResultsOfFailed, NoAnswer
  <2>4. CASE SendFails(q)
    <3>1. SendersHoldLock'
      BY <2>4 DEF LockInv, TypeOK, SendFails, SendersHoldLock
    <3>2. QED
      BY <1>1, <2>4, <3>1 DEF LockInv, TypeOK, SendFails, HandlersWereSent,
                              TakenHaveFailed, ResultsOfFailed, NoAnswer
  <2>5. CASE Poll(q)
    <3>1. result[q] = None
      BY <2>5 DEF Poll, LockInv, ResultsOfFailed
    <3>2. UNCHANGED <<pc, holder, handlers, result, task>>
      BY <2>5, <3>1 DEF Poll
    <3>3. QED
      BY <1>1, <3>2 DEF LockInv, SendersHoldLock, HandlersWereSent,
                        TakenHaveFailed, ResultsOfFailed, NoAnswer
  <2>6. QED
    BY <1>3, <2>1, <2>2, <2>3, <2>4, <2>5 DEF CallStep
<1>4. ASSUME NEW e \in EventTasks, EventStep(e)
      PROVE  LockInv'
  <2>1. CASE Received(e) \/ Tick(e) \/ IgnoreReply(e) \/ HandlingDone(e)
    <3>1. /\ \A f \in EventTasks : \/ task'[f] = task[f]
                                   \/ task'[f].at # "handling"
          /\ UNCHANGED <<pc, holder, handlers, result>>
      BY <2>1 DEF Received, Tick, IgnoreReply, HandlingDone, calls, Idle,
                  LockInv, TypeOK
    <3>2. QED
      BY <1>1, <3>1 DEF LockInv, SendersHoldLock, HandlersWereSent,
                        TakenHaveFailed, ResultsOfFailed, NoAnswer
  <2>2. CASE TakeReplied(e)
    <3>1. PICK i \in DOMAIN handlers :
            /\ handlers' = RemoveAt(handlers, i)
            /\ task' = [task EXCEPT ![e] = Handling(<<handlers[i]>>, "reply")]
      BY <2>2 DEF TakeReplied
    <3>2. holder = None /\ UNCHANGED <<pc, holder, result>>
      BY <2>2 DEF TakeReplied, calls
    <3>3. /\ DOMAIN handlers = 1..Len(handlers) /\ Len(handlers) \in Nat
          /\ DOMAIN handlers' = 1..(Len(handlers) - 1)
          /\ \A j \in DOMAIN handlers' : \E k \in DOMAIN handlers :
               handlers'[j] = handlers[k]
      <4>1. Len(handlers) \in Nat /\ DOMAIN handlers = 1..Len(handlers)
        BY HandlerFields DEF LockInv
      <4>2. /\ DOMAIN handlers' = 1..(Len(handlers) - 1)
            /\ \A j \in 1..(Len(handlers) - 1) :
                 handlers'[j] = IF j < i THEN handlers[j] ELSE handlers[j + 1]
        BY <3>1, HandlersLeft DEF LockInv
      <4>3. \A j \in 1..(Len(handlers) - 1) : j \in DOMAIN handlers
                                             /\ j + 1 \in DOMAIN handlers
        BY <4>1
      <4>4. QED
        BY <4>1, <4>2, <4>3
    <3>4. \A j \in DOMAIN handlers :
            handlers[j].query \in Queries /\ pc[handlers[j].query] = "failed"
      BY <3>2, UnlockedHaveFailed
    <3>5. HandlersWereSent'
      BY <3>2, <3>3, <3>4 DEF HandlersWereSent
    <3>6. TakenHaveFailed'
      BY <3>1, <3>2, <3>4 DEF LockInv, TypeOK, TakenHaveFailed, Handling
    <3>7. QED
      BY <1>1, <3>2, <3>5, <3>6 DEF LockInv, SendersHoldLock, ResultsOfFailed, NoAnswer
  <2>3. CASE TakeExpired(e)
    <3>1. PICK ix \in 0..Len(handlers) :
            /\ handlers' = SubSeq(handlers, ix + 1, Len(handlers))
            /\ task' = [task EXCEPT ![e] =
                          Handling(SubSeq(handlers, 1, ix), "timeout")]
      BY <2>3 DEF TakeExpired
    <3>2. holder = None /\ UNCHANGED <<pc, holder, result>>
      BY <2>3 DEF TakeExpired, calls
    <3> DEFINE done == SubSeq(handlers, 1, ix)
    <3>3. /\ \A j \in DOMAIN handlers' : \E k \in DOMAIN handlers :
               handlers'[j] = handlers[k]
          /\ \A j \in DOMAIN done : \E k \in DOMAIN handlers :
               done[j] = handlers[k]
      <4>1. Len(handlers) \in Nat /\ DOMAIN handlers = 1..Len(handlers)
        BY HandlerFields DEF LockInv
      <4>2. /\ DOMAIN handlers' = 1..(Len(handlers) - ix)
            /\ \A j \in 1..(Len(handlers) - ix) :
                 handlers'[j] = handlers[ix + j]
            /\ DOMAIN done = 1..ix
            /\ \A j \in 1..ix : done[j] = handlers[j]
        BY <3>1, HandlersLeft DEF LockInv
      <4>3. /\ \A j \in 1..(Len(handlers) - ix) : ix + j \in DOMAIN handlers
            /\ \A j \in 1..ix : j \in DOMAIN handlers
        BY <4>1
      <4> HIDE DEF done
      <4>4. QED
        BY <4>2, <4>3
    <3>4. \A j \in DOMAIN handlers :
            handlers[j].query \in Queries /\ pc[handlers[j].query] = "failed"
      BY <3>2, UnlockedHaveFailed
    <3>5. HandlersWereSent'
      BY <3>2, <3>3, <3>4 DEF HandlersWereSent
    <3> HIDE DEF done
    <3>6. TakenHaveFailed'
      BY <3>1, <3>2, <3>3, <3>4 DEF LockInv, TypeOK, TakenHaveFailed, Handling, done
    <3>7. QED
      BY <1>1, <3>2, <3>5, <3>6 DEF LockInv, SendersHoldLock, ResultsOfFailed, NoAnswer
  <2>4. CASE ProduceResult(e)
    <3> DEFINE q == Head(task[e].done).query
    <3>1. /\ q \in Queries /\ pc[q] = "failed"
          /\ \A r \in Queries : r # q => result'[r] = result[r]
      BY <2>4, ProduceStep DEF LockInv, TakenHaveFailed
    <3>2. UNCHANGED <<pc, holder, handlers>>
      BY <2>4 DEF ProduceResult, calls
    <3>3. ResultsOfFailed'
      BY <3>1, <3>2 DEF LockInv, ResultsOfFailed
    <3>4. TakenHaveFailed'
      <4>1. SUFFICES ASSUME NEW f \in EventTasks, task'[f].at = "handling",
                            NEW i \in DOMAIN task'[f].done
                     PROVE  pc[task'[f].done[i].query] = "failed"
        BY <3>2 DEF TakenHaveFailed
      <4>2. CASE f = e
        <5>1. /\ i + 1 \in DOMAIN task[e].done
              /\ task'[e].done[i] = task[e].done[i + 1]
              /\ task[e].at = "handling"
          BY <2>4, <4>1, <4>2, ProduceStep DEF LockInv
        <5>2. pc[task[e].done[i + 1].query] = "failed"
          BY <5>1 DEF LockInv, TakenHaveFailed
        <5>3. QED
          BY <4>2, <5>1, <5>2
      <4>3. CASE f # e
        BY <2>4, <4>1, <4>3, ProduceStep DEF LockInv, TakenHaveFailed
      <4>4. QED
        BY <4>2, <4>3
    <3>5. QED
      BY <1>1, <3>2, <3>3, <3>4
         DEF LockInv, SendersHoldLock, HandlersWereSent, NoAnswer
  <2>5. QED
    BY <1>4, <2>1, <2>2, <2>3, <2>4 DEF EventStep, TakeStep
<1>5. QED
  BY <1>2, <1>3, <1>4 DEF Next

LEMMA NextIds == ASSUME TypeOK, IdsAreUnique, Next PROVE IdsAreUnique'
<1>1. CASE \E q \in Queries : ReserveMessageId(q)
  <2>1. PICK q \in Queries : ReserveMessageId(q)
    BY <1>1
  <2>2. /\ message_id' = message_id + 1 /\ message_id \in Nat
        /\ mid' = [mid EXCEPT ![q] = message_id + 1]
        /\ pc' = [pc EXCEPT ![q] = "reserved"]
    BY <2>1 DEF ReserveMessageId, TypeOK
  <2>3. QED
    BY <2>2 DEF TypeOK, IdsAreUnique
<1>2. CASE /\ UNCHANGED <<message_id, mid>>
           /\ \A q \in Queries : pc'[q] = "new" <=> pc[q] = "new"
  BY <1>2 DEF IdsAreUnique
<1>3. CASE Advance
  BY <1>2, <1>3 DEF Advance, calls
<1>4. ASSUME NEW q \in Queries, CallStep(q)
      PROVE  IdsAreUnique'
  BY <1>1, <1>2, <1>4 DEF TypeOK, CallStep, GetSendTime, GetSendTimeFails,
                          Register, Send, SendFails, Poll
<1>5. ASSUME NEW e \in EventTasks, EventStep(e)
      PROVE  IdsAreUnique'
  BY <1>2, <1>5 DEF EventStep, TakeStep, Received, Tick, TakeReplied, IgnoreReply,
                    TakeExpired, ProduceResult, HandlingDone, calls
<1>6. QED
  BY <1>3, <1>4, <1>5 DEF Next
-----------------------------------------------------------------------------
(* Taking handlers moves them from the list to a task; running one removes  *)
(* it.  In each case what is listed or taken afterwards was so before.      *)
LEMMA RegisterOnce ==
  ASSUME LockInv, OnceInv, NEW c \in Queries, Register(c)
  PROVE  OnceInv'
<1>1. /\ pc[c] = "timed"
      /\ handlers' = Append(handlers, [id |-> mid[c], timeout_time |-> deadline[c],
                                       query |-> c])
      /\ UNCHANGED <<result, task>>
  BY DEF Register
<1>2. Len(handlers) \in Nat /\ DOMAIN handlers = 1..Len(handlers)
  BY HandlerFields DEF LockInv
<1>3. /\ DOMAIN handlers' = 1..(Len(handlers) + 1)
      /\ handlers'[Len(handlers) + 1].query = c
      /\ \A i \in 1..Len(handlers) : handlers'[i] = handlers[i]
  BY <1>1 DEF LockInv, TypeOK
<1>4. ~Listed(c)
  BY <1>1 DEF Listed, LockInv, HandlersWereSent
<1>5. \A e \in EventTasks : ~Taken(e, c)
  BY <1>1 DEF Taken, LockInv, TakenHaveFailed
<1>6. result[c] = None
  BY <1>1 DEF LockInv, ResultsOfFailed
<1>7. \A q \in Queries : Listed(q)' => Listed(q) \/ q = c
  BY <1>2, <1>3 DEF Listed
<1>8. ListedOnce'
  BY <1>2, <1>3, <1>4 DEF OnceInv, ListedOnce, Listed
<1>9. TakenOnce' /\ NoPanic'
  BY <1>1 DEF OnceInv, TakenOnce, NoPanic
<1>10. \A q \in Queries, e \in EventTasks : Taken(e, q)' <=> Taken(e, q)
  BY <1>1 DEF Taken
<1>11. ListedOrTaken' /\ PendingHasNoResult'
  BY <1>1, <1>5, <1>6, <1>7, <1>10 DEF OnceInv, ListedOrTaken, PendingHasNoResult
<1>12. QED
  BY <1>8, <1>9, <1>11 DEF OnceInv

LEMMA TakeOnce ==
  ASSUME LockInv, OnceInv, NEW e \in EventTasks, TakeReplied(e) \/ TakeExpired(e)
  PROVE  OnceInv'
<1> DEFINE moved == {q \in Queries : Taken(e, q)'}
<1>1. /\ Len(handlers) \in Nat /\ DOMAIN handlers = 1..Len(handlers)
      /\ UNCHANGED result
      /\ task[e].at # "handling" /\ task'[e] # Panicked
      /\ \A f \in EventTasks : f # e => task'[f] = task[f]
  BY HandlerFields DEF LockInv, TypeOK, TakeReplied, TakeExpired, Handling, Panicked
<1>2. /\ ListedOnce'
      /\ \A i, j \in DOMAIN task'[e].done :
           task'[e].done[i].query = task'[e].done[j].query => i = j
      /\ \A q \in Queries : Listed(q)' => Listed(q) /\ ~Taken(e, q)'
      /\ \A q \in Queries : Taken(e, q)' => Listed(q)
  <2>1. CASE TakeReplied(e)
    <3>1. PICK i \in DOMAIN handlers :
            /\ handlers' = RemoveAt(handlers, i)
            /\ task' = [task EXCEPT ![e] = Handling(<<handlers[i]>>, "reply")]
      BY <2>1 DEF TakeReplied
    <3>2. /\ DOMAIN handlers' = 1..(Len(handlers) - 1)
          /\ \A j \in 1..(Len(handlers) - 1) :
               handlers'[j] = IF j < i THEN handlers[j] ELSE handlers[j + 1]
      BY <3>1, HandlersLeft DEF LockInv
    <3>3. task'[e].at = "handling" /\ task'[e].done = <<handlers[i]>>
      BY <3>1 DEF LockInv, TypeOK, Handling
    <3>4. \A j \in DOMAIN handlers' :
            \E k \in DOMAIN handlers : /\ handlers'[j] = handlers[k] /\ k # i
                                       /\ k = IF j < i THEN j ELSE j + 1
      BY <1>1, <3>1, <3>2
    <3>5. ListedOnce'
      BY <1>1, <3>1, <3>2, <3>4 DEF OnceInv, ListedOnce
    <3>6. \A q \in Queries : Taken(e, q)' <=> q = handlers[i].query
      BY <3>3 DEF Taken
    <3>7. \A q \in Queries : Listed(q)' => Listed(q) /\ q # handlers[i].query
      BY <3>4 DEF Listed, OnceInv, ListedOnce
    <3>8. QED
      BY <3>3, <3>5, <3>6, <3>7 DEF Listed
  <2>2. CASE TakeExpired(e)
    <3>1. PICK ix \in 0..Len(handlers) :
            /\ handlers' = SubSeq(handlers, ix + 1, Len(handlers))
            /\ task' = [task EXCEPT ![e] =
                          Handling(SubSeq(handlers, 1, ix), "timeout")]
      BY <2>2 DEF TakeExpired
    <3>2. /\ DOMAIN handlers' = 1..(Len(handlers) - ix)
          /\ \A j \in 1..(Len(handlers) - ix) : handlers'[j] = handlers[ix + j]
      BY <3>1, HandlersLeft DEF LockInv
    <3>3. task'[e].at = "handling" /\ task'[e].done = SubSeq(handlers, 1, ix)
      BY <3>1 DEF LockInv, TypeOK, Handling
    <3>4. /\ DOMAIN task'[e].done = 1..ix
          /\ \A j \in 1..ix : task'[e].done[j] = handlers[j]
      BY <3>3, HandlersLeft DEF LockInv
    <3>5. /\ \A j \in DOMAIN handlers' : ix + j \in DOMAIN handlers /\ ix + j > ix
          /\ \A j \in 1..ix : j \in DOMAIN handlers /\ ~(j > ix)
      BY <1>1, <3>2
    <3>6. ListedOnce'
      BY <1>1, <3>2, <3>5 DEF OnceInv, ListedOnce
    <3>7. \A i, j \in DOMAIN task'[e].done :
            task'[e].done[i].query = task'[e].done[j].query => i = j
      BY <3>4, <3>5 DEF OnceInv, ListedOnce
    <3>8. \A q \in Queries : Taken(e, q)' =>
            \E j \in DOMAIN handlers : handlers[j].query = q /\ ~(j > ix)
      BY <3>3, <3>4, <3>5 DEF Taken
    <3>9. \A q \in Queries : Listed(q)' =>
            \E j \in DOMAIN handlers : handlers[j].query = q /\ j > ix
      <4>1. SUFFICES ASSUME NEW q \in Queries, NEW j \in DOMAIN handlers',
                            handlers'[j].query = q
                     PROVE  \E k \in DOMAIN handlers :
                              handlers[k].query = q /\ k > ix
        BY DEF Listed
      <4>2. ix + j \in DOMAIN handlers /\ ix + j > ix
            /\ handlers[ix + j].query = q
        BY <3>2, <3>5, <4>1
      <4>3. QED
        BY <4>2
    <3>10. QED
      BY <3>6, <3>7, <3>8, <3>9 DEF Listed, OnceInv, ListedOnce
  <2>3. QED
    BY <2>1, <2>2
<1>3. \A q \in Queries, f \in EventTasks : f # e => (Taken(f, q)' <=> Taken(f, q))
  BY <1>1 DEF Taken
<1>4. TakenOnce' /\ NoPanic'
  BY <1>1, <1>2 DEF OnceInv, TakenOnce, NoPanic
<1>5. ListedOrTaken'
  BY <1>2, <1>3 DEF OnceInv, ListedOrTaken
<1>6. PendingHasNoResult'
  BY <1>1, <1>2, <1>3 DEF OnceInv, PendingHasNoResult
<1>7. QED
  BY <1>2, <1>4, <1>5, <1>6 DEF OnceInv

LEMMA ProduceOnce ==
  ASSUME LockInv, OnceInv, NEW e \in EventTasks, ProduceResult(e)
  PROVE  OnceInv'
<1> DEFINE done == task[e].done
           q == Head(done).query
<1>1. /\ task[e].at = "handling"
      /\ Len(done) \in Nat /\ DOMAIN done = 1..Len(done)
      /\ 1 \in DOMAIN done /\ done[1].query = q /\ q \in Queries
      /\ \A f \in EventTasks : f # e => task'[f] = task[f]
      /\ \A r \in Queries : r # q => result'[r] = result[r]
      /\ task'[e] = Panicked => result[q] # None
      /\ task'[e].at = "handling" =>
           /\ DOMAIN task'[e].done = 1..(Len(done) - 1)
           /\ \A j \in 1..(Len(done) - 1) :
                j + 1 \in DOMAIN done /\ task'[e].done[j] = done[j + 1]
  BY ProduceStep DEF LockInv
<1>2. UNCHANGED handlers
  BY DEF ProduceResult
<1>3. Taken(e, q)
  BY <1>1 DEF Taken
<1> HIDE DEF q, done
<1>4. result[q] = None /\ ~Listed(q)
      /\ \A f \in EventTasks : f # e => ~Taken(f, q)
  BY <1>1, <1>3 DEF OnceInv, PendingHasNoResult, ListedOrTaken
<1>5. \A i, j \in DOMAIN done : done[i].query = done[j].query => i = j
  BY <1>1 DEF OnceInv, TakenOnce, done
<1>6. \A r \in Queries, f \in EventTasks : Taken(f, r)' => Taken(f, r) /\ r # q
  <2>1. SUFFICES ASSUME NEW r \in Queries, NEW f \in EventTasks, Taken(f, r)'
                 PROVE  Taken(f, r) /\ r # q
    OBVIOUS
  <2>2. CASE f # e
    BY <1>1, <1>4, <2>1, <2>2 DEF Taken
  <2>3. CASE f = e
    <3>1. PICK j \in 1..(Len(done) - 1) :
            j + 1 \in DOMAIN done /\ done[j + 1].query = r
      BY <1>1, <2>1, <2>3 DEF Taken
    <3>2. j + 1 # 1
      BY <1>1
    <3>3. r # q
      BY <1>1, <1>5, <3>1, <3>2
    <3>4. Taken(e, r)
      BY <1>1, <3>1 DEF Taken, done
    <3>5. QED
      BY <2>3, <3>3, <3>4
  <2>4. QED
    BY <2>2, <2>3
<1>7. \A r \in Queries : Listed(r)' <=> Listed(r)
  BY <1>2 DEF Listed
<1>8. ListedOnce' /\ NoPanic'
  BY <1>1, <1>2, <1>4 DEF OnceInv, ListedOnce, NoPanic
<1>9. TakenOnce'
  <2>1. SUFFICES ASSUME NEW f \in EventTasks, task'[f].at = "handling",
                        NEW i \in DOMAIN task'[f].done,
                        NEW j \in DOMAIN task'[f].done,
                        task'[f].done[i].query = task'[f].done[j].query
                 PROVE  i = j
    BY DEF TakenOnce
  <2>2. CASE f # e
    BY <1>1, <2>1, <2>2 DEF OnceInv, TakenOnce
  <2>3. CASE f = e
    <3>1. /\ i \in 1..(Len(done) - 1) /\ j \in 1..(Len(done) - 1)
          /\ i + 1 \in DOMAIN done /\ j + 1 \in DOMAIN done
          /\ done[i + 1].query = done[j + 1].query
      BY <1>1, <2>1, <2>3
    <3>2. i + 1 = j + 1
      BY <1>5, <3>1
    <3>3. QED
      BY <3>1, <3>2
  <2>4. QED
    BY <2>2, <2>3
<1>10. ListedOrTaken'
  BY <1>6, <1>7 DEF OnceInv, ListedOrTaken
<1>11. PendingHasNoResult'
  BY <1>1, <1>4, <1>6, <1>7 DEF OnceInv, PendingHasNoResult
<1>12. QED
  BY <1>8, <1>9, <1>10, <1>11 DEF OnceInv

LEMMA NextOnceInv == ASSUME LockInv, OnceInv, Next PROVE OnceInv'
<1>1. CASE UNCHANGED <<handlers, result, task>>
  BY <1>1 DEF OnceInv, ListedOnce, TakenOnce, ListedOrTaken, PendingHasNoResult,
              NoPanic, Listed, Taken
<1>2. CASE Advance
  BY <1>1, <1>2 DEF Advance
<1>3. ASSUME NEW q \in Queries, CallStep(q)
      PROVE  OnceInv'
  <2>1. CASE Poll(q)
    BY <1>1, <2>1 DEF Poll, LockInv, ResultsOfFailed
  <2>2. CASE ~Poll(q) /\ ~Register(q)
    BY <1>1, <1>3, <2>2 DEF CallStep, ReserveMessageId, GetSendTime,
                            GetSendTimeFails, Send, SendFails
  <2>3. QED
    BY <2>1, <2>2, RegisterOnce
<1>4. ASSUME NEW e \in EventTasks, EventStep(e)
      PROVE  OnceInv'
  <2>1. CASE Received(e) \/ Tick(e) \/ IgnoreReply(e) \/ HandlingDone(e)
    <3>1. /\ \A f \in EventTasks :
               \/ task'[f] = task[f]
               \/ task'[f].at # "handling" /\ task'[f] # Panicked
          /\ UNCHANGED <<handlers, result>>
      BY <2>1 DEF Received, Tick, IgnoreReply, HandlingDone, Idle, Panicked,
                  LockInv, TypeOK
    <3>2. \A q \in Queries, f \in EventTasks : Taken(f, q)' => Taken(f, q)
      BY <3>1 DEF Taken
    <3>3. \A q \in Queries : Listed(q)' <=> Listed(q)
      BY <3>1 DEF Listed
    <3>4. ListedOnce' /\ TakenOnce' /\ NoPanic'
      BY <3>1 DEF OnceInv, ListedOnce, TakenOnce, NoPanic
    <3>5. ListedOrTaken' /\ PendingHasNoResult'
      BY <3>1, <3>2, <3>3 DEF OnceInv, ListedOrTaken, PendingHasNoResult
    <3>6. QED
      BY <3>4, <3>5 DEF OnceInv
  <2>2. QED
    BY <1>4, <2>1, TakeOnce, ProduceOnce DEF EventStep, TakeStep
<1>5. QED
  BY <1>2, <1>3, <1>4 DEF Next
-----------------------------------------------------------------------------
THEOREM Invariant == Spec => []IInv
<1>1. ASSUME IInv, UNCHANGED vars
      PROVE  IInv'
  <2>1. LockInv'
    BY <1>1 DEF vars, IInv, LockInv, TypeOK, SendersHoldLock, HandlersWereSent,
                TakenHaveFailed, ResultsOfFailed, NoAnswer
  <2>2. OnceInv'
    BY <1>1 DEF vars, IInv, OnceInv, ListedOnce, TakenOnce, ListedOrTaken,
                PendingHasNoResult, NoPanic, Listed, Taken
  <2>3. IdsAreUnique'
    BY <1>1 DEF vars, IInv, IdsAreUnique
  <2>4. QED
    BY <2>1, <2>2, <2>3 DEF IInv
<1>2. IInv /\ [Next]_vars => IInv'
  <2>1. IInv /\ Next => IInv'
    BY NextLockInv, NextOnceInv, NextIds DEF IInv, LockInv
  <2>2. QED
    BY <1>1, <2>1
<1>3. QED
  BY <1>2, InitIInv, PTL DEF Spec

(* The state of the sender is well typed.                                   *)
THEOREM TypeCorrect == Spec => []TypeOK
<1>1. IInv => TypeOK
  BY DEF IInv, LockInv
<1>2. QED
  BY <1>1, Invariant, PTL

(* No handler is ever run twice: produce_result never panics.               *)
THEOREM HandlersRunOnce == Spec => []NoPanic
<1>1. IInv => NoPanic
  BY DEF IInv, OnceInv
<1>2. QED
  BY <1>1, Invariant, PTL

(* A reply is handed to the call that it answers and to no other.           *)
THEOREM RepliesAreMatched == Spec => []RepliesMatch
<1>1. IInv => RepliesMatch
  <2>1. SUFFICES ASSUME IInv, NEW q \in Queries, NEW r \in Queries,
                        pc[q] # "new", mid[q] = mid[r]
                 PROVE  q = r
    BY DEF RepliesMatch
  <2>2. mid[q] # 0
    BY <2>1 DEF IInv, IdsAreUnique
  <2>3. QED
    BY <2>1, <2>2 DEF IInv, IdsAreUnique
<1>2. QED
  BY <1>1, Invariant, PTL

(* send_and_receive_reply never returns a reply, nor a timeout: the lock it *)
(* holds across its await excludes the tasks that would end the wait.       *)
THEOREM NothingIsAnswered == Spec => []NoAnswer
<1>1. IInv => NoAnswer
  BY DEF IInv, LockInv
<1>2. QED
  BY <1>1, Invariant, PTL
=============================================================================
