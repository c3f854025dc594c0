------------------------------- MODULE Sewer -------------------------------
(***************************************************************************)
(* The bounded thread-safe queue every actor of redic talks through        *)
(* (sewer.c), down to the ring buffer (ring.c), the mutex and the two      *)
(* condition variables.  One step is what a thread does between two points *)
(* where another thread can run or a waiter can leave its wait.            *)
(***************************************************************************)
EXTENDS Naturals, Sequences, FiniteSets

CONSTANTS
  Producers,       \* threads that call sewer_send
  Consumers,       \* threads that loop on sewer_consume
  TimedConsumers,  \* the consumers that call sewer_timed_consume instead
  Cap,             \* ring capacity
  Sends,           \* how many messages each producer sends
  NoThread         \* the owner of a free mutex

ASSUME SewerAssumption ==
  /\ Cap \in Nat \ {0}
  /\ Sends \in Nat
  /\ TimedConsumers \subseteq Consumers
  /\ Producers \cap Consumers = {}
  /\ IsFiniteSet(Producers) /\ IsFiniteSet(Consumers)
  /\ NoThread \notin Producers \cup Consumers

VARIABLES
  data, head, tail, len,  \* RingBuf: the slots, read and write index, length
  mutex,                  \* the thread that holds sewer->mutex
  pc,                     \* where each thread is in its call
  sent,                   \* per producer, the messages pushed so far
  consumed                \* what the consume calls returned, in pop order

ring == <<data, head, tail, len>>
vars == <<data, head, tail, len, mutex, pc, sent, consumed>>

Threads  == Producers \cup Consumers
Messages == Producers \X (1 .. Sends)
Slots    == 0 .. Cap - 1

WrapNever(i) == i

(* Ring indices count modulo the capacity. *)
Wrap(i) == i % Cap

(***************************************************************************)
(* The places of a thread: "idle" outside the calls; "check" owning the    *)
(* mutex, about to evaluate the while condition; "wait" blocked in         *)
(* pthread_cond_wait or pthread_cond_timedwait; "wake" unblocked, needing  *)
(* the mutex again; "timedout" the same, with ETIMEDOUT; "signal" owning   *)
(* the mutex after the push or pop; "unlock" about to release the mutex.   *)
(***************************************************************************)
Places == {"idle", "check", "wait", "wake", "timedout", "signal", "unlock"}

ringbuf_is_full  == len >= Cap
ringbuf_is_empty == len = 0

(* The buffer is malloc'ed and not cleared, so a slot starts with anything. *)
sewer_create ==
  /\ data \in [Slots -> Messages]
  /\ head = 0
  /\ tail = 0
  /\ len = 0
  /\ mutex = NoThread

Init ==
  /\ sewer_create
  /\ pc = [t \in Threads |-> "idle"]
  /\ sent = [p \in Producers |-> 0]
  /\ consumed = <<>>

(***************************************************************************)
(* The ring buffer.                                                        *)
(***************************************************************************)
ringbuf_push(m) ==
  IF len >= Cap
  THEN UNCHANGED ring
  ELSE /\ data' = [data EXCEPT ![tail] = m]
       /\ len' = len + 1
       /\ tail' = Wrap(tail + 1)
       /\ UNCHANGED head

PopWithoutWrap ==
  /\ len' = len - 1
  /\ head' = IF head + 1 < Cap THEN head + 1 ELSE head
  /\ UNCHANGED <<data, tail>>

ringbuf_pop ==
  IF len = 0
  THEN UNCHANGED ring
  ELSE /\ len' = len - 1
       /\ head' = Wrap(head + 1)
       /\ UNCHANGED <<data, tail>>

(***************************************************************************)
(* pthreads, as sewer.c uses them.                                         *)
(***************************************************************************)
Goto(t, place) == pc' = [pc EXCEPT ![t] = place]

WaitingIn(T) == {t \in T : pc[t] = "wait"}

(* pthread_mutex_lock, and the relocking when a condition wait returns *)
Acquire(t, from, to) ==
  /\ pc[t] = from
  /\ mutex = NoThread
  /\ mutex' = t
  /\ Goto(t, to)
  /\ UNCHANGED <<ring, sent, consumed>>

(* pthread_cond_wait: the mutex is released as the thread starts to wait *)
WaitOn(t) ==
  /\ mutex' = NoThread
  /\ Goto(t, "wait")
  /\ UNCHANGED <<ring, sent, consumed>>

(* pthread_cond_signal: unblocks one thread of those waiting, if any *)
Signal(t, waiters) ==
  /\ pc[t] = "signal"
  /\ IF waiters = {}
     THEN Goto(t, "unlock")
     ELSE \E w \in waiters : pc' = [pc EXCEPT ![t] = "unlock", ![w] = "wake"]
  /\ UNCHANGED <<ring, mutex, sent, consumed>>

(* pthread_cond_wait may return without a signal *)
SpuriousWake(t) ==
  /\ pc[t] = "wait"
  /\ Goto(t, "wake")
  /\ UNCHANGED <<ring, mutex, sent, consumed>>

(* pthread_mutex_unlock, and the return from the call *)
Unlock(t) ==
  /\ pc[t] = "unlock"
  /\ mutex' = NoThread
  /\ Goto(t, "idle")
  /\ UNCHANGED <<ring, sent, consumed>>

(***************************************************************************)
(* sewer_send                                                              *)
(***************************************************************************)
SendLock(p) == sent[p] < Sends /\ Acquire(p, "idle", "check")

SendWait(p) ==
  /\ pc[p] = "check"
  /\ ringbuf_is_full
  /\ WaitOn(p)

SendPushUnchecked(p) ==
  /\ pc[p] = "check"
  /\ ringbuf_push(<<p, sent[p] + 1>>)
  /\ sent' = [sent EXCEPT ![p] = @ + 1]
  /\ Goto(p, "signal")
  /\ UNCHANGED <<mutex, consumed>>

SendPushUnlocking(p) ==
  /\ pc[p] = "check"
  /\ ~ringbuf_is_full
  /\ ringbuf_push(<<p, sent[p] + 1>>)
  /\ sent' = [sent EXCEPT ![p] = @ + 1]
  /\ Goto(p, "signal")
  /\ mutex' = NoThread
  /\ UNCHANGED consumed

SendPush(p) ==
  /\ pc[p] = "check"
  /\ ~ringbuf_is_full
  /\ ringbuf_push(<<p, sent[p] + 1>>)
  /\ sent' = [sent EXCEPT ![p] = @ + 1]
  /\ Goto(p, "signal")
  /\ UNCHANGED <<mutex, consumed>>

SignalSpaceInstead(p) == Signal(p, WaitingIn(Producers))

SendSignal(p) == Signal(p, WaitingIn(Consumers))

sewer_send(p) ==
  \/ SendLock(p)
  \/ SendWait(p)
  \/ SendPush(p)
  \/ SendSignal(p)
  \/ SpuriousWake(p)
  \/ Acquire(p, "wake", "check")
  \/ Unlock(p)

(***************************************************************************)
(* sewer_consume and sewer_timed_consume                                   *)
(***************************************************************************)
ConsumeLock(c) == Acquire(c, "idle", "check")

ConsumeWait(c) ==
  /\ pc[c] = "check"
  /\ ringbuf_is_empty
  /\ WaitOn(c)

ConsumePop(c) ==
  /\ pc[c] = "check"
  /\ ~ringbuf_is_empty
  /\ ringbuf_pop
  /\ consumed' = Append(consumed, data[head])
  /\ Goto(c, "signal")
  /\ UNCHANGED <<mutex, sent>>

ConsumeSkipSignal(c) ==
  /\ pc[c] = "signal"
  /\ Goto(c, "unlock")
  /\ UNCHANGED <<ring, mutex, sent, consumed>>

ConsumeSignal(c) == Signal(c, WaitingIn(Producers))

sewer_consume(c) ==
  \/ ConsumeLock(c)
  \/ ConsumeWait(c)
  \/ ConsumePop(c)
  \/ ConsumeSignal(c)
  \/ SpuriousWake(c)
  \/ Acquire(c, "wake", "check")
  \/ Unlock(c)

(* pthread_cond_timedwait reaches its deadline *)
Timeout(c) ==
  /\ pc[c] = "wait"
  /\ Goto(c, "timedout")
  /\ UNCHANGED <<ring, mutex, sent, consumed>>

TimedConsumeKeepingMutex(c) ==
  \/ sewer_consume(c)
  \/ Timeout(c)
  \/ Acquire(c, "timedout", "idle")

(* After ETIMEDOUT the buffer is not looked at again: NULL is returned. *)
sewer_timed_consume(c) ==
  \/ sewer_consume(c)
  \/ Timeout(c)
  \/ Acquire(c, "timedout", "unlock")

Next ==
  \/ \E p \in Producers : sewer_send(p)
  \/ \E c \in Consumers \ TimedConsumers : sewer_consume(c)
  \/ \E c \in TimedConsumers : sewer_timed_consume(c)

(***************************************************************************)
(* Fairness: a running thread keeps running, a thread that wants the mutex *)
(* is not passed over for ever, a consumer is a loop that always comes     *)
(* back, and a deadline is reached.  No producer has to call sewer_send.   *)
(***************************************************************************)
Fairness ==
  /\ \A t \in Threads :
       /\ WF_vars(Unlock(t))
       /\ SF_vars(Acquire(t, "wake", "check"))
  /\ \A p \in Producers : WF_vars(SendWait(p) \/ SendPush(p) \/ SendSignal(p))
  /\ \A c \in Consumers :
       /\ SF_vars(ConsumeLock(c))
       /\ WF_vars(ConsumeWait(c) \/ ConsumePop(c) \/ ConsumeSignal(c))
  /\ \A c \in TimedConsumers :
       /\ WF_vars(Timeout(c))
       /\ SF_vars(Acquire(c, "timedout", "unlock"))

Spec == Init /\ [][Next]_vars

FairSpec == Spec /\ Fairness

-----------------------------------------------------------------------------
TypeOK ==
  /\ data \in [Slots -> Messages]
  /\ head \in Slots
  /\ tail \in Slots
  /\ len \in 0 .. Cap
  /\ mutex \in Threads \cup {NoThread}
  /\ pc \in [Threads -> Places]
  /\ sent \in [Producers -> 0 .. Sends]
  /\ consumed \in Seq(Messages)

(* The messages in the ring, oldest first. *)
Contents == [i \in 1 .. len |-> data[Wrap(head + (i - 1))]]

Queue == INSTANCE BoundedQueue WITH queue <- Contents

(* The sewer is a bounded FIFO: seen through the ring's contents, every    *)
(* step of the send and consume calls is a put, a take or neither, so no   *)
(* message is lost, duplicated or reordered whatever the interleaving.     *)
ImplementsQueue == Queue!Spec

(* A thread is inside the critical section of sewer.c only while it owns   *)
(* the mutex, and whoever owns the mutex is inside it, so the mutex is     *)
(* released on every path: normal, waiting and ETIMEDOUT.                  *)
MutexOwner ==
  \A t \in Threads : mutex = t <=> pc[t] \in {"check", "signal", "unlock"}

(* A message is handed to a consumer only after its sender has left        *)
(* sewer_send, so that septic_tank_feed may destroy the response sewer as  *)
(* soon as it has the response.                                            *)
SenderLeavesFirst ==
  \A p \in Producers :
    pc[p] \in {"signal", "unlock"} =>
      \A i \in DOMAIN consumed : consumed[i] # <<p, sent[p]>>

(***************************************************************************)
(* Wakeups.  Obliged(T) are the threads of T that will evaluate their      *)
(* while condition again without further help.                             *)
(***************************************************************************)
Obliged(T)      == {t \in T : pc[t] \in {"wake", "check"}}
Signalling(T)   == {t \in T : pc[t] = "signal"}

(* No lost wakeup for senders: while a sender sleeps in sewer_send, each   *)
(* free slot is already promised to an awake sender, or to the signal a    *)
(* consumer is about to send.                                              *)
NoLostSpaceWakeup ==
  WaitingIn(Producers) # {} =>
    Cap - len <= Cardinality(Obliged(Producers)) + Cardinality(Signalling(Consumers))

(* No lost wakeup for consumers: while a consumer sleeps, each message in  *)
(* the ring is promised to an awake consumer or to a signal on its way,    *)
(* also when the deadline of sewer_timed_consume races with sewer_send.    *)
NoLostItemWakeup ==
  WaitingIn(Consumers) # {} =>
    len <= Cardinality(Obliged(Consumers)) + Cardinality(Signalling(Producers))

(* A sender that blocked because the queue was full eventually returns.    *)
BlockedSendReturns ==
  \A p \in Producers : pc[p] = "wait" ~> pc[p] = "idle"

(* Every message that was pushed is eventually returned by a consume call, *)
(* although signals and timeouts may cross.                                *)
EveryMessageConsumed ==
  \A m \in Messages :
    sent[m[1]] >= m[2] ~> \E i \in DOMAIN consumed : consumed[i] = m
=============================================================================
