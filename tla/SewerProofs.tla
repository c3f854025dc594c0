---------------------------- MODULE SewerProofs ----------------------------
(***************************************************************************)
(* For every capacity, every set of threads and every number of sends: the *)
(* sewer is type correct, its mutex protects the critical sections, it     *)
(* implements the bounded FIFO of BoundedQueue, a message is handed over   *)
(* only after its sender has left, and no wakeup is lost.                  *)
(***************************************************************************)
EXTENDS Sewer, SequenceTheorems, FiniteSetTheorems, TLAPS

(***************************************************************************)
(* Arithmetic of ring indices.                                             *)
(***************************************************************************)

(* An index at most one turn past the end wraps around once. *)
LEMMA WrapOnce ==
  ASSUME NEW a \in 0 .. Cap + Cap - 1
  PROVE  Wrap(a) = IF a < Cap THEN a ELSE a - Cap
  BY SewerAssumption, SMT DEF Wrap

(* Fewer than a turn apart, two offsets from head are different slots. *)
LEMMA SlotDistinct ==
  ASSUME NEW h \in Slots, NEW i \in Slots, NEW j \in Slots, i # j
  PROVE  Wrap(h + i) # Wrap(h + j)
  BY SewerAssumption, WrapOnce DEF Slots

(* After ringbuf_pop moved head by one, offset i is the old offset i + 1. *)
LEMMA SlotShift ==
  ASSUME NEW h \in Slots, NEW i \in Nat, i + 1 <= Cap
  PROVE  Wrap(Wrap(h + 1) + i) = Wrap(h + (i + 1))
  BY SewerAssumption, WrapOnce DEF Slots

(***************************************************************************)
(* The inductive invariant.                                                *)
(***************************************************************************)

(* ring.c keeps tail and len separately: tail is len slots past head. *)
RingInv == tail = Wrap(head + len)

(* A producer inside sewer_send still has the message to push. *)
SendingInv ==
  \A p \in Producers : pc[p] \in {"check", "wait", "wake"} => sent[p] < Sends

IInv == TypeOK /\ MutexOwner /\ RingInv /\ SendingInv

(* The sewer that sewer_create returns satisfies the invariant. *)
LEMMA InitIInv == Init => IInv
  <1> SUFFICES ASSUME Init PROVE IInv
    OBVIOUS
  <1> USE SewerAssumption DEF Init, sewer_create
  <1>1. TypeOK
    BY EmptySeq DEF TypeOK, Slots, Places
  <1>2. MutexOwner
    BY DEF MutexOwner, Threads
  <1>3. RingInv
    BY WrapOnce DEF RingInv
  <1>4. SendingInv
    BY DEF SendingInv, Threads
  <1>5. QED  BY <1>1, <1>2, <1>3, <1>4 DEF IInv

(* Steps that leave the ring, the producers' counts and the deliveries     *)
(* alone: what remains to be shown is about mutex and pc only.             *)
LEMMA ControlStep ==
  ASSUME IInv, UNCHANGED <<ring, sent, consumed>>,
         mutex' \in Threads \cup {NoThread}, pc' \in [Threads -> Places],
         MutexOwner', SendingInv'
  PROVE  IInv'
  BY DEF IInv, TypeOK, RingInv, ring

(* Locking the mutex again after a wait preserves the invariant. *)
LEMMA AcquireIInv ==
  ASSUME IInv, NEW t \in Threads, NEW from \in {"wake", "timedout"},
         NEW to \in {"check", "unlock"}, Acquire(t, from, to),
         from = "wake" <=> to = "check"
  PROVE  IInv'
  <1> USE SewerAssumption DEF IInv, Acquire, Goto
  <1>1. mutex' \in Threads \cup {NoThread} /\ pc' \in [Threads -> Places]
    BY DEF TypeOK, Places
  <1>2. MutexOwner'
    BY DEF TypeOK, MutexOwner, Threads
  <1>3. SendingInv'
    BY DEF TypeOK, SendingInv, Threads
  <1>4. QED  BY <1>1, <1>2, <1>3, ControlStep

(* pthread_cond_wait going to sleep preserves the invariant. *)
LEMMA WaitOnIInv ==
  ASSUME IInv, NEW t \in Threads, pc[t] = "check", WaitOn(t)
  PROVE  IInv'
  <1> USE SewerAssumption DEF IInv, WaitOn, Goto
  <1>1. mutex' \in Threads \cup {NoThread} /\ pc' \in [Threads -> Places]
    BY DEF TypeOK, Places
  <1>2. MutexOwner'
    BY DEF TypeOK, MutexOwner, Threads
  <1>3. SendingInv'
    BY DEF TypeOK, SendingInv, Threads
  <1>4. QED  BY <1>1, <1>2, <1>3, ControlStep

(* pthread_cond_signal preserves the invariant. *)
LEMMA SignalIInv ==
  ASSUME IInv, NEW t \in Threads, NEW T \in SUBSET Threads, Signal(t, WaitingIn(T))
  PROVE  IInv'
  <1> USE SewerAssumption DEF IInv, Signal, Goto, WaitingIn
  <1>1. mutex' \in Threads \cup {NoThread} /\ pc' \in [Threads -> Places]
    BY DEF TypeOK, Places
  <1>2. MutexOwner'
    BY DEF TypeOK, MutexOwner, Threads
  <1>3. SendingInv'
    BY DEF TypeOK, SendingInv, Threads
  <1>4. QED  BY <1>1, <1>2, <1>3, ControlStep

(* Waking without a signal, or timing out, preserves the invariant. *)
LEMMA LeaveWaitIInv ==
  ASSUME IInv, NEW t \in Threads, SpuriousWake(t) \/ (t \in Consumers /\ Timeout(t))
  PROVE  IInv'
  <1> USE SewerAssumption DEF IInv, SpuriousWake, Timeout, Goto
  <1>1. mutex' \in Threads \cup {NoThread} /\ pc' \in [Threads -> Places]
    BY DEF TypeOK, Places
  <1>2. MutexOwner'
    BY DEF TypeOK, MutexOwner, Threads
  <1>3. SendingInv'
    BY DEF TypeOK, SendingInv, Threads
  <1>4. QED  BY <1>1, <1>2, <1>3, ControlStep

(* Unlocking the mutex preserves the invariant. *)
LEMMA UnlockIInv ==
  ASSUME IInv, NEW t \in Threads, Unlock(t)
  PROVE  IInv'
  <1> USE SewerAssumption DEF IInv, Unlock, Goto
  <1>1. mutex' \in Threads \cup {NoThread} /\ pc' \in [Threads -> Places]
    BY DEF TypeOK, Places
  <1>2. MutexOwner'
    BY DEF TypeOK, MutexOwner, Threads
  <1>3. SendingInv'
    BY DEF TypeOK, SendingInv, Threads
  <1>4. QED  BY <1>1, <1>2, <1>3, ControlStep

(* Entering a call preserves the invariant. *)
LEMMA EnterIInv ==
  ASSUME IInv,
         \/ \E p \in Producers : SendLock(p)
         \/ \E c \in Consumers : ConsumeLock(c)
  PROVE  IInv'
  <1> USE SewerAssumption DEF IInv, SendLock, ConsumeLock, Acquire, Goto
  <1>1. mutex' \in Threads \cup {NoThread} /\ pc' \in [Threads -> Places]
    BY DEF TypeOK, Places, Threads
  <1>2. MutexOwner'
    BY DEF TypeOK, MutexOwner, Threads
  <1>3. SendingInv'
    BY DEF TypeOK, SendingInv, Threads
  <1>4. UNCHANGED <<ring, sent, consumed>>
    OBVIOUS
  <1>5. QED  BY <1>1, <1>2, <1>3, <1>4, ControlStep

(* ringbuf_push stores the message in the slot after the last one. *)
LEMMA PushIInv ==
  ASSUME IInv, NEW p \in Producers, SendPush(p)
  PROVE  IInv'
  <1> USE SewerAssumption DEF IInv
  <1>1. /\ len < Cap
        /\ data' = [data EXCEPT ![tail] = <<p, sent[p] + 1>>]
        /\ len' = len + 1
        /\ tail' = Wrap(tail + 1)
        /\ head' = head
    BY DEF SendPush, ringbuf_push, ringbuf_is_full, TypeOK
  <1>2. sent[p] < Sends /\ p \in Threads
    BY DEF SendPush, SendingInv, Threads
  <1>3. tail' \in Slots /\ len' \in 0 .. Cap
    BY <1>1, WrapOnce DEF TypeOK, Slots
  <1>4. TypeOK'
    BY <1>1, <1>2, <1>3 DEF TypeOK, SendPush, Goto, Places, Messages
  <1>5. MutexOwner'
    BY DEF SendPush, Goto, MutexOwner, TypeOK, Threads
  <1>6. SendingInv'
    BY DEF SendPush, Goto, SendingInv, TypeOK, Threads
  <1>7. RingInv'
    <2>1. Wrap(Wrap(head + len) + 1) = Wrap(head + (len + 1))
      BY <1>1, WrapOnce DEF TypeOK, Slots
    <2>2. QED  BY <1>1, <2>1 DEF RingInv
  <1>8. QED  BY <1>4, <1>5, <1>6, <1>7

(* ringbuf_pop frees the slot at head. *)
LEMMA PopIInv ==
  ASSUME IInv, NEW c \in Consumers, ConsumePop(c)
  PROVE  IInv'
  <1> USE SewerAssumption DEF IInv
  <1>1. /\ len > 0
        /\ data' = data
        /\ len' = len - 1
        /\ tail' = tail
        /\ head' = Wrap(head + 1)
        /\ consumed' = Append(consumed, data[head])
    BY DEF ConsumePop, ringbuf_pop, ringbuf_is_empty, TypeOK
  <1>2. c \in Threads
    BY DEF Threads
  <1>3. head' \in Slots /\ len' \in 0 .. Cap
    BY <1>1, WrapOnce DEF TypeOK, Slots
  <1>4. consumed' \in Seq(Messages)
    BY <1>1, AppendProperties DEF TypeOK
  <1>5. TypeOK'
    BY <1>1, <1>2, <1>3, <1>4 DEF TypeOK, ConsumePop, Goto, Places
  <1>6. MutexOwner'
    BY DEF ConsumePop, Goto, MutexOwner, TypeOK, Threads
  <1>7. SendingInv'
    BY DEF ConsumePop, Goto, SendingInv, TypeOK, Threads
  <1>8. RingInv'
    <2>1. Wrap(Wrap(head + 1) + (len - 1)) = Wrap(head + ((len - 1) + 1))
      BY <1>1, SlotShift DEF TypeOK
    <2>2. (len - 1) + 1 = len
      BY DEF TypeOK
    <2>3. QED  BY <1>1, <2>1, <2>2 DEF RingInv
  <1>9. QED  BY <1>5, <1>6, <1>7, <1>8

(* Every step of every thread preserves the invariant. *)
LEMMA NextIInv == IInv /\ [Next]_vars => IInv'
  <1> SUFFICES ASSUME IInv, [Next]_vars PROVE IInv'
    OBVIOUS
  <1>1. ASSUME NEW p \in Producers, sewer_send(p)
        PROVE  IInv'
    <2>1. p \in Threads /\ Consumers \in SUBSET Threads
      BY DEF Threads
    <2>2. CASE SendLock(p)
      BY <2>2, EnterIInv
    <2>3. CASE SendWait(p)
      BY <2>1, <2>3, WaitOnIInv DEF SendWait
    <2>4. CASE SendPush(p)
      BY <2>4, PushIInv
    <2>5. CASE SendSignal(p)
      BY <2>1, <2>5, SignalIInv DEF SendSignal
    <2>6. CASE SpuriousWake(p)
      BY <2>1, <2>6, LeaveWaitIInv
    <2>7. CASE Acquire(p, "wake", "check")
      BY <2>1, <2>7, AcquireIInv
    <2>8. CASE Unlock(p)
      BY <2>1, <2>8, UnlockIInv
    <2>9. QED  BY <1>1, <2>2, <2>3, <2>4, <2>5, <2>6, <2>7, <2>8 DEF sewer_send
  <1>2. ASSUME NEW c \in Consumers, sewer_consume(c)
        PROVE  IInv'
    <2>1. c \in Threads /\ Producers \in SUBSET Threads
      BY DEF Threads
    <2>2. CASE ConsumeLock(c)
      BY <2>2, EnterIInv
    <2>3. CASE ConsumeWait(c)
      BY <2>1, <2>3, WaitOnIInv DEF ConsumeWait
    <2>4. CASE ConsumePop(c)
      BY <2>4, PopIInv
    <2>5. CASE ConsumeSignal(c)
      BY <2>1, <2>5, SignalIInv DEF ConsumeSignal
    <2>6. CASE SpuriousWake(c)
      BY <2>1, <2>6, LeaveWaitIInv
    <2>7. CASE Acquire(c, "wake", "check")
      BY <2>1, <2>7, AcquireIInv
    <2>8. CASE Unlock(c)
      BY <2>1, <2>8, UnlockIInv
    <2>9. QED  BY <1>2, <2>2, <2>3, <2>4, <2>5, <2>6, <2>7, <2>8 DEF sewer_consume
  <1>3. ASSUME NEW c \in TimedConsumers, sewer_timed_consume(c)
        PROVE  IInv'
    <2>1. c \in Consumers /\ c \in Threads
      BY SewerAssumption DEF Threads
    <2>2. CASE sewer_consume(c)
      BY <1>2, <2>1, <2>2
    <2>3. CASE Timeout(c)
      BY <2>1, <2>3, LeaveWaitIInv
    <2>4. CASE Acquire(c, "timedout", "unlock")
      BY <2>1, <2>4, AcquireIInv
    <2>5. QED  BY <1>3, <2>2, <2>3, <2>4 DEF sewer_timed_consume
  <1>4. CASE UNCHANGED vars
    BY <1>4 DEF vars, IInv, TypeOK, MutexOwner, RingInv, SendingInv
  <1>5. QED  BY <1>1, <1>2, <1>3, <1>4 DEF Next

(* The invariant holds in every state of every execution. *)
THEOREM SewerInvariant == Spec => []IInv
  BY InitIInv, NextIInv, PTL DEF Spec

(* The sewer's state stays in its types: indices inside the ring, length   *)
(* at most the capacity.                                                   *)
THEOREM SewerTypeOK == Spec => []TypeOK
  BY SewerInvariant, PTL DEF IInv

(* The critical sections of sewer.c exclude each other and each path       *)
(* through them releases the mutex.                                        *)
THEOREM SewerMutex == Spec => []MutexOwner
  BY SewerInvariant, PTL DEF IInv

(***************************************************************************)
(* Refinement: Contents is a bounded FIFO.                                 *)
(***************************************************************************)

(* What a ring with slots d, read index h and length n holds. *)
RingSeq(d, h, n) == [i \in 1 .. n |-> d[Wrap(h + (i - 1))]]

(* A ring holds a sequence of n messages. *)
LEMMA RingSeqType ==
  ASSUME NEW d \in [Slots -> Messages], NEW h \in Slots, NEW n \in 0 .. Cap
  PROVE  /\ RingSeq(d, h, n) \in Seq(Messages)
         /\ Len(RingSeq(d, h, n)) = n
         /\ \A i \in 1 .. n : RingSeq(d, h, n)[i] = d[Wrap(h + (i - 1))]
  <1> USE SewerAssumption
  <1>1. \A i \in 1 .. n : Wrap(h + (i - 1)) \in Slots
    BY WrapOnce DEF Slots
  <1>2. RingSeq(d, h, n) \in [1 .. n -> Messages]
    BY <1>1 DEF RingSeq
  <1>3. QED  BY <1>2, LenProperties DEF RingSeq

(* ringbuf_push writes the slot n after head, which is none of the n used. *)
LEMMA RingPush ==
  ASSUME NEW d \in [Slots -> Messages], NEW h \in Slots, NEW n \in 0 .. Cap,
         n < Cap, NEW m \in Messages
  PROVE  RingSeq([d EXCEPT ![Wrap(h + n)] = m], h, n + 1)
           = Append(RingSeq(d, h, n), m)
  <1> USE SewerAssumption
  <1> DEFINE e == [d EXCEPT ![Wrap(h + n)] = m]
             S == RingSeq(d, h, n)
             T == RingSeq(e, h, n + 1)
  <1>1. Wrap(h + n) \in Slots /\ e \in [Slots -> Messages]
    BY WrapOnce DEF Slots
  <1>2. /\ S \in Seq(Messages) /\ Len(S) = n
        /\ \A i \in 1 .. n : S[i] = d[Wrap(h + (i - 1))]
    BY RingSeqType
  <1>3. /\ T \in Seq(Messages) /\ Len(T) = n + 1
        /\ \A i \in 1 .. n + 1 : T[i] = e[Wrap(h + (i - 1))]
    <2>1. n + 1 \in 0 .. Cap
      OBVIOUS
    <2> HIDE DEF e
    <2>2. QED  BY <1>1, <2>1, RingSeqType, ZenonT(30)
  <1>4. /\ Append(S, m) \in Seq(Messages)
        /\ Len(Append(S, m)) = n + 1
        /\ \A i \in 1 .. n : Append(S, m)[i] = S[i]
        /\ Append(S, m)[n + 1] = m
    BY <1>2, AppendProperties
  <1>5. ASSUME NEW i \in 1 .. n + 1
        PROVE  T[i] = Append(S, m)[i]
    <2>1. CASE i = n + 1
      <3>1. i - 1 = n
        BY <2>1
      <3>2. QED  BY <1>1, <1>3, <1>4, <2>1, <3>1
    <2>2. CASE i \in 1 .. n
      <3>1. Wrap(h + (i - 1)) # Wrap(h + n)
        <4>1. i - 1 \in Slots /\ n \in Slots /\ i - 1 # n
          BY <2>2 DEF Slots
        <4>2. QED  BY <4>1, SlotDistinct
      <3>2. Wrap(h + (i - 1)) \in Slots
        BY <2>2, WrapOnce DEF Slots
      <3>3. e[Wrap(h + (i - 1))] = d[Wrap(h + (i - 1))]
        BY <1>1, <3>1, <3>2
      <3>4. T[i] = d[Wrap(h + (i - 1))]
        BY <1>3, <3>3
      <3>5. QED  BY <1>2, <1>4, <2>2, <3>4
    <2>3. i = n + 1 \/ i \in 1 .. n
      OBVIOUS
    <2> HIDE DEF S, T
    <2>4. QED  BY <2>1, <2>2, <2>3
  <1> HIDE DEF S, T
  <1>6. T = Append(S, m)
    BY <1>3, <1>4, <1>5, SeqEqual
  <1>7. QED  BY <1>6 DEF S, T

(* ringbuf_pop hands out the slot at head and keeps the other messages. *)
LEMMA RingPop ==
  ASSUME NEW d \in [Slots -> Messages], NEW h \in Slots, NEW n \in 0 .. Cap, n > 0
  PROVE  /\ RingSeq(d, h, n) # <<>>
         /\ Head(RingSeq(d, h, n)) = d[h]
         /\ RingSeq(d, Wrap(h + 1), n - 1) = Tail(RingSeq(d, h, n))
  <1> USE SewerAssumption
  <1> DEFINE g == Wrap(h + 1)
             S == RingSeq(d, h, n)
             T == RingSeq(d, g, n - 1)
  <1>1. /\ S \in Seq(Messages) /\ Len(S) = n
        /\ \A i \in 1 .. n : S[i] = d[Wrap(h + (i - 1))]
    BY RingSeqType
  <1>2. g \in Slots
    BY WrapOnce DEF Slots
  <1>3. /\ T \in Seq(Messages) /\ Len(T) = n - 1
        /\ \A i \in 1 .. n - 1 : T[i] = d[Wrap(g + (i - 1))]
    <2>1. n - 1 \in 0 .. Cap
      OBVIOUS
    <2> HIDE DEF g
    <2>2. QED  BY <1>2, <2>1, RingSeqType
  <1> HIDE DEF S, T
  <1>4. S # <<>>
    BY <1>1, EmptySeq
  <1>5. Head(S) = S[1] /\ S[1] = d[h]
    BY <1>1, <1>4, HeadTailProperties, WrapOnce DEF Slots
  <1>6. /\ Tail(S) \in Seq(Messages)
        /\ Len(Tail(S)) = n - 1
        /\ \A i \in 1 .. n - 1 : Tail(S)[i] = S[i + 1]
    BY <1>1, <1>4, HeadTailProperties
  <1>7. ASSUME NEW i \in 1 .. n - 1
        PROVE  T[i] = Tail(S)[i]
    <2>1. Wrap(g + (i - 1)) = Wrap(h + ((i - 1) + 1))
      BY SlotShift DEF Slots
    <2>2. (i + 1) - 1 = (i - 1) + 1
      OBVIOUS
    <2>3. S[i + 1] = d[Wrap(h + ((i + 1) - 1))]
      BY <1>1
    <2>4. QED  BY <1>3, <1>6, <2>1, <2>2, <2>3
  <1>8. T = Tail(S)
    BY <1>3, <1>6, <1>7, SeqEqual
  <1>9. QED  BY <1>4, <1>5, <1>8 DEF S, T

(* Contents, now and after a step, is the ring seen as a sequence. *)
LEMMA ContentsIsRingSeq ==
  /\ Contents = RingSeq(data, head, len)
  /\ Contents' = RingSeq(data', head', len')
  BY DEF Contents, RingSeq

(* sewer_send's push is a put of the abstract queue. *)
LEMMA PushIsPut ==
  ASSUME IInv, NEW p \in Producers, SendPush(p)
  PROVE  Queue!Next
  <1> DEFINE m == <<p, sent[p] + 1>>
  <1> USE SewerAssumption
  <1>1. /\ len < Cap
        /\ data' = [data EXCEPT ![Wrap(head + len)] = m]
        /\ len' = len + 1
        /\ head' = head
        /\ consumed' = consumed
    BY DEF SendPush, ringbuf_push, ringbuf_is_full, IInv, TypeOK, RingInv
  <1>2. m \in Messages
    BY DEF SendPush, IInv, SendingInv, TypeOK, Messages, Threads
  <1>3. data \in [Slots -> Messages] /\ head \in Slots /\ len \in 0 .. Cap
    BY DEF IInv, TypeOK
  <1> HIDE DEF m
  <1>4. Contents' = Append(Contents, m)
    BY <1>1, <1>2, <1>3, RingPush, ContentsIsRingSeq, ZenonT(30)
  <1>5. Len(Contents) < Cap
    BY <1>1, <1>3, RingSeqType, ContentsIsRingSeq
  <1>6. Queue!Put(m)
    BY <1>1, <1>4, <1>5 DEF Queue!Put
  <1>7. QED  BY <1>2, <1>6 DEF Queue!Next

(* The pop of either consume call is a take of the abstract queue. *)
LEMMA PopIsTake ==
  ASSUME IInv, NEW c \in Consumers, ConsumePop(c)
  PROVE  Queue!Next
  <1>1. /\ len > 0
        /\ data' = data
        /\ len' = len - 1
        /\ head' = Wrap(head + 1)
        /\ consumed' = Append(consumed, data[head])
    BY DEF ConsumePop, ringbuf_pop, ringbuf_is_empty, IInv, TypeOK
  <1>2. data \in [Slots -> Messages] /\ head \in Slots /\ len \in 0 .. Cap
    BY DEF IInv, TypeOK
  <1>3. /\ Contents # <<>>
        /\ Head(Contents) = data[head]
        /\ Contents' = Tail(Contents)
    BY <1>1, <1>2, RingPop, ContentsIsRingSeq
  <1>4. QED  BY <1>1, <1>3 DEF Queue!Next, Queue!Take

(* A step that leaves ring and deliveries alone is invisible. *)
LEMMA ControlStutters ==
  ASSUME UNCHANGED <<ring, sent, consumed>>
  PROVE  UNCHANGED Queue!vars
  BY DEF ring, Queue!vars, Contents

(* Every step of the sewer is a step of the queue or leaves it unchanged. *)
LEMMA StepSimulation ==
  ASSUME IInv, [Next]_vars
  PROVE  [Queue!Next]_(Queue!vars)
  <1>1. ASSUME NEW p \in Producers, sewer_send(p)
        PROVE  [Queue!Next]_(Queue!vars)
    <2>1. CASE SendPush(p)
      BY <2>1, PushIsPut
    <2>2. CASE ~SendPush(p)
      <3>1. UNCHANGED <<ring, sent, consumed>>
        BY <1>1, <2>2 DEF sewer_send, SendLock, SendWait, SendSignal,
           SpuriousWake, Acquire, Unlock, WaitOn, Signal
      <3>2. QED  BY <3>1, ControlStutters
    <2>3. QED  BY <2>1, <2>2
  <1>2. ASSUME NEW c \in Consumers, sewer_consume(c)
        PROVE  [Queue!Next]_(Queue!vars)
    <2>1. CASE ConsumePop(c)
      BY <2>1, PopIsTake
    <2>2. CASE ~ConsumePop(c)
      <3>1. UNCHANGED <<ring, sent, consumed>>
        BY <1>2, <2>2 DEF sewer_consume, ConsumeLock, ConsumeWait, ConsumeSignal,
           SpuriousWake, Acquire, Unlock, WaitOn, Signal
      <3>2. QED  BY <3>1, ControlStutters
    <2>3. QED  BY <2>1, <2>2
  <1>3. ASSUME NEW c \in TimedConsumers, sewer_timed_consume(c)
        PROVE  [Queue!Next]_(Queue!vars)
    <2>1. CASE sewer_consume(c)
      BY <1>2, <2>1, SewerAssumption
    <2>2. CASE Timeout(c) \/ Acquire(c, "timedout", "unlock")
      BY <2>2, ControlStutters DEF Timeout, Acquire
    <2>3. QED  BY <1>3, <2>1, <2>2 DEF sewer_timed_consume
  <1>4. CASE UNCHANGED vars
    BY <1>4, ControlStutters DEF vars, ring
  <1>5. QED  BY <1>1, <1>2, <1>3, <1>4 DEF Next

(* The sewer of sewer.c implements the bounded FIFO, for every capacity    *)
(* and every number of senders, consumers and timed consumers.             *)
THEOREM SewerImplementsQueue == Spec => ImplementsQueue
  <1>1. Init => Queue!Init
    <2> SUFFICES ASSUME Init PROVE Queue!Init
      OBVIOUS
    <2>1. Contents = <<>>
      BY DEF Init, sewer_create, Contents
    <2>2. QED  BY <2>1 DEF Init, Queue!Init
  <1>2. IInv /\ [Next]_vars => [Queue!Next]_(Queue!vars)
    BY StepSimulation
  <1>3. QED
    BY <1>1, <1>2, SewerInvariant, PTL DEF Spec, ImplementsQueue, Queue!Spec

(***************************************************************************)
(* The life of a message: it is handed over after its sender has left.     *)
(***************************************************************************)

(* What was consumed or is in the ring was sent before: its number is at   *)
(* most the count of its producer.                                         *)
DeliveryInv ==
  /\ \A i \in 1 .. Len(consumed) : consumed[i][2] <= sent[consumed[i][1]]
  /\ \A i \in 0 .. len - 1 : data[Wrap(head + i)][2] <= sent[data[Wrap(head + i)][1]]

(* The steps that neither push, pop, signal nor go to sleep: one thread    *)
(* moves on, and only a consumer times out.                                *)
Moves(t) ==
  /\ UNCHANGED <<ring, sent, consumed>>
  /\ \E to \in Places :
       /\ pc' = [pc EXCEPT ![t] = to]
       /\ \/ pc[t] \in {"idle", "wake"} /\ to = "check"
          \/ pc[t] = "wait" /\ to = "wake"
          \/ pc[t] = "unlock" /\ to = "idle"
          \/ t \in Consumers /\ pc[t] = "wait" /\ to = "timedout"
          \/ t \in Consumers /\ pc[t] = "timedout" /\ to = "unlock"

(* What a step can be, as far as the ring and the waiting are concerned. *)
LEMMA StepKinds ==
  ASSUME [Next]_vars
  PROVE  \/ UNCHANGED vars
         \/ \E t \in Threads : Moves(t)
         \/ \E p \in Producers : SendPush(p) \/ SendWait(p) \/ SendSignal(p)
         \/ \E c \in Consumers : ConsumePop(c) \/ ConsumeWait(c) \/ ConsumeSignal(c)
  <1> USE DEF Moves, Places, Threads
  <1>1. ASSUME NEW t \in Threads,
               \/ t \in Producers /\ SendLock(t)
               \/ ConsumeLock(t) \/ SpuriousWake(t) \/ Unlock(t)
               \/ Acquire(t, "wake", "check")
               \/ t \in Consumers /\ (Timeout(t) \/ Acquire(t, "timedout", "unlock"))
        PROVE  Moves(t)
    BY <1>1 DEF SendLock, ConsumeLock, SpuriousWake, Unlock, Acquire, Timeout, Goto
  <1>2. ASSUME NEW p \in Producers, sewer_send(p)
        PROVE  (\E t \in Threads : Moves(t)) \/ SendPush(p) \/ SendWait(p) \/ SendSignal(p)
    <2> HIDE DEF Moves
    <2> QED BY <1>1, <1>2 DEF sewer_send
  <1>3. ASSUME NEW c \in Consumers, sewer_consume(c)
        PROVE  (\E t \in Threads : Moves(t)) \/ ConsumePop(c) \/ ConsumeWait(c) \/ ConsumeSignal(c)
    <2> HIDE DEF Moves
    <2> QED BY <1>1, <1>3 DEF sewer_consume
  <1>4. ASSUME NEW c \in TimedConsumers, sewer_timed_consume(c)
        PROVE  (\E t \in Threads : Moves(t)) \/ sewer_consume(c)
    <2> HIDE DEF Moves
    <2> QED BY <1>1, <1>4, SewerAssumption DEF sewer_timed_consume
  <1> HIDE DEF Moves
  <1> QED BY <1>2, <1>3, <1>4, SewerAssumption DEF Next

(* A step that moves no message leaves the deliveries as they are. *)
LEMMA DeliveryStep ==
  ASSUME IInv, DeliveryInv, SenderLeavesFirst, [Next]_vars
  PROVE  DeliveryInv' /\ SenderLeavesFirst'
  <1> USE SewerAssumption
  <1>0. /\ consumed \in Seq(Messages) /\ Len(consumed) \in Nat /\ DOMAIN consumed = 1 .. Len(consumed)
        /\ pc \in [Threads -> Places] /\ sent \in [Producers -> 0 .. Sends]
    BY LenProperties DEF IInv, TypeOK
  <1>1. ASSUME UNCHANGED <<ring, sent, consumed>>,
               \A p \in Producers : pc'[p] \in {"signal", "unlock"} => pc[p] \in {"signal", "unlock"}
        PROVE  DeliveryInv' /\ SenderLeavesFirst'
    BY <1>1 DEF DeliveryInv, SenderLeavesFirst, ring
  <1>2. CASE UNCHANGED vars
    BY <1>1, <1>2 DEF vars, ring
  <1>3. CASE \E t \in Threads : Moves(t)
    <2>1. PICK t \in Threads : Moves(t)
      BY <1>3
    <2>2. \A p \in Producers : pc'[p] \in {"signal", "unlock"} => pc[p] \in {"signal", "unlock"}
      BY <1>0, <2>1 DEF Moves, Threads
    <2> QED BY <1>1, <2>1, <2>2 DEF Moves
  <1>4. ASSUME NEW p \in Producers, SendPush(p)
        PROVE  DeliveryInv' /\ SenderLeavesFirst'
    <2> DEFINE m == <<p, sent[p] + 1>>
    <2>1. /\ len < Cap /\ len \in Nat /\ head \in Slots
          /\ data \in [Slots -> Messages]
          /\ data' = [data EXCEPT ![Wrap(head + len)] = m]
          /\ len' = len + 1 /\ head' = head /\ consumed' = consumed
          /\ sent' = [sent EXCEPT ![p] = sent[p] + 1]
          /\ pc' = [pc EXCEPT ![p] = "signal"]
      BY <1>4 DEF SendPush, Goto, ringbuf_push, ringbuf_is_full, IInv, TypeOK, RingInv
    <2>2. \A q \in Producers : sent[q] \in Nat /\ sent'[q] \in Nat /\ sent[q] <= sent'[q]
      BY <1>0, <2>1
    <2>3. \A i \in 1 .. Len(consumed) : consumed[i][2] <= sent'[consumed[i][1]]
      <3> SUFFICES ASSUME NEW i \in 1 .. Len(consumed)
                   PROVE  consumed[i][2] <= sent'[consumed[i][1]]
        OBVIOUS
      <3>1. consumed[i][1] \in Producers /\ consumed[i][2] \in Nat
        BY <1>0, ElementOfSeq DEF Messages
      <3>2. consumed[i][2] <= sent[consumed[i][1]]
        BY DEF DeliveryInv
      <3> QED BY <2>2, <3>1, <3>2
    <2>4. \A i \in 0 .. len : data'[Wrap(head + i)][2] <= sent'[data'[Wrap(head + i)][1]]
      <3> SUFFICES ASSUME NEW i \in 0 .. len
                   PROVE  data'[Wrap(head + i)][2] <= sent'[data'[Wrap(head + i)][1]]
        OBVIOUS
      <3>1. Wrap(head + i) \in Slots /\ i \in Slots /\ len \in Slots
        BY <2>1, WrapOnce DEF Slots
      <3>2. CASE i = len
        <4>1. data'[Wrap(head + i)] = m
          BY <2>1, <3>1, <3>2
        <4>2. m[1] = p /\ m[2] = sent[p] + 1 /\ sent'[p] = sent[p] + 1 /\ sent[p] \in Nat
          BY <1>0, <2>1, <2>2
        <4> HIDE DEF m
        <4> QED BY <4>1, <4>2
      <3>3. CASE i # len
        <4>1. Wrap(head + i) # Wrap(head + len)
          BY <2>1, <3>1, <3>3, SlotDistinct
        <4>2. data'[Wrap(head + i)] = data[Wrap(head + i)]
          BY <2>1, <3>1, <4>1
        <4>3. data[Wrap(head + i)] \in Messages
          BY <2>1, <3>1
        <4>4. data[Wrap(head + i)][1] \in Producers /\ data[Wrap(head + i)][2] \in Nat
          BY <4>3 DEF Messages
        <4>5. i \in 0 .. len - 1
          BY <2>1, <3>3
        <4>6. data[Wrap(head + i)][2] <= sent[data[Wrap(head + i)][1]]
          BY <4>5 DEF DeliveryInv
        <4> QED BY <2>2, <4>2, <4>4, <4>6
      <3> QED BY <3>2, <3>3
    <2>5. DeliveryInv'
      <3>1. len' - 1 = len
        BY <2>1
      <3> QED BY <2>1, <2>3, <2>4, <3>1 DEF DeliveryInv
    <2>6. ASSUME NEW q \in Producers, pc'[q] \in {"signal", "unlock"}, NEW i \in 1 .. Len(consumed)
          PROVE  consumed[i] # <<q, sent'[q]>>
      <3>1. CASE q = p
        <4>1. consumed[i][2] <= sent[consumed[i][1]]
          BY DEF DeliveryInv
        <4>2. sent'[p] = sent[p] + 1 /\ sent[p] \in Nat
          BY <1>0, <2>1, <2>2
        <4>3. consumed[i] = <<p, sent'[p]>> => consumed[i][1] = p /\ consumed[i][2] = sent'[p]
          OBVIOUS
        <4> QED BY <3>1, <4>1, <4>2, <4>3
      <3>2. CASE q # p
        BY <1>0, <2>1, <2>6, <3>2 DEF SenderLeavesFirst, Threads
      <3> QED BY <3>1, <3>2
    <2> QED BY <1>0, <2>1, <2>5, <2>6 DEF SenderLeavesFirst
  <1>5. ASSUME NEW c \in Consumers, ConsumePop(c)
        PROVE  DeliveryInv' /\ SenderLeavesFirst'
    <2>1. /\ len \in Nat /\ len > 0 /\ len <= Cap /\ head \in Slots
          /\ data \in [Slots -> Messages] /\ data' = data
          /\ len' = len - 1 /\ head' = Wrap(head + 1) /\ sent' = sent
          /\ consumed' = Append(consumed, data[head])
          /\ pc' = [pc EXCEPT ![c] = "signal"]
      BY <1>5 DEF ConsumePop, Goto, ringbuf_pop, ringbuf_is_empty, IInv, TypeOK
    <2> DEFINE new == consumed'
    <2> HIDE DEF new
    <2>2. /\ new \in Seq(Messages) /\ Len(new) = Len(consumed) + 1
          /\ \A i \in 1 .. Len(consumed) : new[i] = consumed[i]
          /\ new[Len(consumed) + 1] = data[head]
      BY <1>0, <2>1, AppendProperties DEF new
    <2>3. \A i \in 1 .. Len(new) : new[i][2] <= sent[new[i][1]]
      <3>1. data[head][2] <= sent[data[head][1]]
        <4>1. head + 0 = head /\ Wrap(head + 0) = head /\ 0 \in 0 .. len - 1
          BY <2>1, WrapOnce DEF Slots
        <4> QED BY <4>1 DEF DeliveryInv
      <3>2. \A i \in 1 .. Len(consumed) + 1 : i \in 1 .. Len(consumed) \/ i = Len(consumed) + 1
        BY <1>0
      <3> QED BY <2>2, <3>1, <3>2 DEF DeliveryInv
    <2>4. \A i \in 0 .. len' - 1 : data[Wrap(head' + i)][2] <= sent[data[Wrap(head' + i)][1]]
      <3> SUFFICES ASSUME NEW i \in 0 .. len' - 1
                   PROVE  data[Wrap(head' + i)][2] <= sent[data[Wrap(head' + i)][1]]
        OBVIOUS
      <3>1. i \in Nat /\ i + 1 <= Cap /\ i + 1 \in 0 .. len - 1
        BY <2>1
      <3>2. Wrap(head' + i) = Wrap(head + (i + 1))
        BY <2>1, <3>1, SlotShift
      <3> QED BY <3>1, <3>2 DEF DeliveryInv
    <2>5. \A p \in Producers : pc'[p] \notin {"signal", "unlock"}
      <3>1. pc[c] = "check" /\ c \in Threads /\ Producers \subseteq Threads /\ c \notin Producers
        BY <1>5 DEF ConsumePop, Threads
      <3>2. mutex = c
        BY <3>1 DEF IInv, MutexOwner
      <3>3. \A p \in Producers : pc[p] \notin {"signal", "unlock"}
        BY <3>1, <3>2 DEF IInv, MutexOwner
      <3> QED BY <1>0, <2>1, <3>1, <3>3
    <2> QED BY <2>1, <2>3, <2>4, <2>5 DEF DeliveryInv, SenderLeavesFirst, new
  <1>6. ASSUME NEW p \in Producers, SendWait(p) \/ SendSignal(p)
        PROVE  DeliveryInv' /\ SenderLeavesFirst'
    <2>1. \A q \in Producers : pc'[q] \in {"signal", "unlock"} => pc[q] \in {"signal", "unlock"}
      BY <1>0, <1>6 DEF SendWait, SendSignal, WaitOn, Signal, WaitingIn, Goto, Threads
    <2> QED BY <1>1, <1>6, <2>1 DEF SendWait, SendSignal, WaitOn, Signal
  <1>7. ASSUME NEW c \in Consumers, ConsumeWait(c) \/ ConsumeSignal(c)
        PROVE  DeliveryInv' /\ SenderLeavesFirst'
    <2>1. \A q \in Producers : pc'[q] \in {"signal", "unlock"} => pc[q] \in {"signal", "unlock"}
      BY <1>0, <1>7 DEF ConsumeWait, ConsumeSignal, WaitOn, Signal, WaitingIn, Goto, Threads
    <2> QED BY <1>1, <1>7, <2>1 DEF ConsumeWait, ConsumeSignal, WaitOn, Signal
  <1> QED BY <1>2, <1>3, <1>4, <1>5, <1>6, <1>7, StepKinds

(* septic_tank_feed may destroy the response sewer as soon as it has the   *)
(* response: the thread that sent it is no longer inside sewer_send.       *)
THEOREM SewerSenderLeavesFirst == Spec => []SenderLeavesFirst
  <1>1. Init => DeliveryInv /\ SenderLeavesFirst
    BY SewerAssumption DEF Init, sewer_create, DeliveryInv, SenderLeavesFirst
  <1>2. IInv /\ DeliveryInv /\ SenderLeavesFirst /\ [Next]_vars => DeliveryInv' /\ SenderLeavesFirst'
    BY DeliveryStep
  <1> QED BY <1>1, <1>2, SewerInvariant, PTL DEF Spec

(***************************************************************************)
(* Wakeups.  The promises to sleeping threads are counted.                 *)
(***************************************************************************)

(* How many threads of T are at one of the places P. *)
Count(T, at, P) == Cardinality({t \in T : at[t] \in P})

(* When one thread moves, a count changes by that thread at most. *)
LEMMA CountMove ==
  ASSUME NEW T, IsFiniteSet(T), NEW t, NEW f, NEW g, \A u \in T \ {t} : g[u] = f[u], NEW P
  PROVE  /\ Count(T, f, P) \in Nat /\ Count(T, g, P) \in Nat
         /\ t \in T /\ f[t] \in P /\ g[t] \notin P => Count(T, g, P) = Count(T, f, P) - 1
         /\ t \in T /\ f[t] \notin P /\ g[t] \in P => Count(T, g, P) = Count(T, f, P) + 1
         /\ t \notin T \/ (f[t] \in P <=> g[t] \in P) => Count(T, g, P) = Count(T, f, P)
  <1> DEFINE A == {u \in T : f[u] \in P}
             B == {u \in T : g[u] \in P}
             C == A \ {t}
  <1>1. IsFiniteSet(A) /\ Cardinality(A) \in Nat
    <2>1. A \in SUBSET T
      OBVIOUS
    <2> HIDE DEF A
    <2> QED BY <2>1, FS_Subset, FS_CardinalityType
  <1>2. B = IF t \in T /\ g[t] \in P THEN C \cup {t} ELSE C
    OBVIOUS
  <1>3. t \in A <=> t \in T /\ f[t] \in P
    OBVIOUS
  <1>4. t \notin C
    OBVIOUS
  <1> HIDE DEF A, B, C
  <1>5. /\ IsFiniteSet(C) /\ Cardinality(C) \in Nat
        /\ Cardinality(C) = IF t \in A THEN Cardinality(A) - 1 ELSE Cardinality(A)
    BY <1>1, FS_RemoveElement, FS_CardinalityType DEF C
  <1>6. Cardinality(C \cup {t}) = Cardinality(C) + 1
    BY <1>4, <1>5, FS_AddElement
  <1>7. Count(T, f, P) = Cardinality(A) /\ Count(T, g, P) = Cardinality(B)
    BY DEF Count, A, B
  <1>8. Cardinality(B) = Cardinality(C) + (IF t \in T /\ g[t] \in P THEN 1 ELSE 0)
    BY <1>2, <1>5, <1>6
  <1>9. Cardinality(A) = Cardinality(C) + (IF t \in T /\ f[t] \in P THEN 1 ELSE 0)
    BY <1>1, <1>3, <1>5
  <1> QED BY <1>1, <1>5, <1>7, <1>8, <1>9

Awake == {"wake", "check"}
AboutToSignal == {"signal"}

(* Either side of the queue: the threads of T sleep until there is room,   *)
(* or a message, for them; there are n of those; the threads of U make     *)
(* them and announce them.                                                 *)
Promised(n, T, U, at) ==
  (\E t \in T : at[t] = "wait") => n <= Count(T, at, Awake) + Count(U, at, AboutToSignal)

(* The two sides in these terms. *)
LEMMA Promises ==
  /\ NoLostSpaceWakeup <=> Promised(Cap - len, Producers, Consumers, pc)
  /\ NoLostItemWakeup <=> Promised(len, Consumers, Producers, pc)
  <1>1. \A T : Obliged(T) = {t \in T : pc[t] \in Awake}
    BY DEF Obliged, Awake
  <1>2. \A T : Signalling(T) = {t \in T : pc[t] \in AboutToSignal}
    BY DEF Signalling, AboutToSignal
  <1>3. \A T : WaitingIn(T) # {} <=> \E t \in T : pc[t] = "wait"
    BY DEF WaitingIn
  <1> QED BY <1>1, <1>2, <1>3 DEF Count, Promised, NoLostSpaceWakeup, NoLostItemWakeup

(* One thread moves.  In T it takes one (after the push or pop it signals  *)
(* to the other side), falls asleep with none there, wakes or stays awake; *)
(* in U it makes one and is to announce it, or announces one.              *)
LEMMA PromisedMove ==
  ASSUME NEW T, NEW U, IsFiniteSet(T), IsFiniteSet(U), T \subseteq Threads, U \subseteq Threads,
         T \cap U = {}, NEW f \in [Threads -> Places],
         NEW n \in Int, NEW k \in Int, Promised(n, T, U, f),
         NEW t \in Threads, NEW to \in Places,
         NEW g, g[t] = to, \A u \in Threads \ {t} : g[u] = f[u],
         \/ t \in T /\ to = "wait" /\ k = 0
         \/ t \in T /\ to = "signal" /\ k = n - 1
         \/ t \in T /\ f[t] \notin Awake /\ to # "wait" /\ k = n
         \/ t \in T /\ f[t] \notin Awake /\ to \in Awake /\ k = n + 1
         \/ t \in T /\ to \in Awake /\ k = n
         \/ t \in U /\ f[t] # "signal" /\ to = "signal" /\ k = n + 1
         \/ t \in U /\ f[t] # "signal" /\ k = n
         \/ t \in U /\ f[t] = "signal" /\ k = n - 1
  PROVE  Promised(k, T, U, g)
  <1> DEFINE a == Count(T, f, Awake)      b == Count(U, f, AboutToSignal)
             c == Count(T, g, Awake)      d == Count(U, g, AboutToSignal)
  <1>1. (\A u \in T \ {t} : g[u] = f[u]) /\ (\A u \in U \ {t} : g[u] = f[u])
    OBVIOUS
  <1>2. /\ a \in Nat /\ c \in Nat
        /\ t \in T /\ f[t] \in Awake /\ g[t] \notin Awake => c = a - 1
        /\ t \in T /\ f[t] \notin Awake /\ g[t] \in Awake => c = a + 1
        /\ t \notin T \/ (f[t] \in Awake <=> g[t] \in Awake) => c = a
    BY <1>1, CountMove
  <1>3. /\ b \in Nat /\ d \in Nat
        /\ t \in U /\ f[t] \in AboutToSignal /\ g[t] \notin AboutToSignal => d = b - 1
        /\ t \in U /\ f[t] \notin AboutToSignal /\ g[t] \in AboutToSignal => d = b + 1
        /\ t \notin U \/ (f[t] \in AboutToSignal <=> g[t] \in AboutToSignal) => d = b
    <2>1. IsFiniteSet(U) /\ \A u \in U \ {t} : g[u] = f[u]
      BY <1>1
    <2>2. b \in Nat /\ d \in Nat
      BY <2>1, CountMove
    <2>3. t \in U /\ f[t] \in AboutToSignal /\ g[t] \notin AboutToSignal => d = b - 1
      BY <2>1, CountMove
    <2>4. t \in U /\ f[t] \notin AboutToSignal /\ g[t] \in AboutToSignal => d = b + 1
      BY <2>1, CountMove, SMTT(30)
    <2>5. t \notin U => d = b
      BY <2>1 DEF Count
    <2>6. (f[t] \in AboutToSignal <=> g[t] \in AboutToSignal) => d = b
      BY <2>1, CountMove
    <2> QED BY <2>2, <2>3, <2>4, <2>5, <2>6
  <1>4. (\E u \in T : g[u] = "wait") => (t \in T /\ to = "wait") \/ (\E u \in T : f[u] = "wait")
    BY <1>1
  <1>5. (\E u \in T : f[u] = "wait") => n <= a + b
    BY DEF Promised
  <1> HIDE DEF a, b, c, d
  <1>6. ASSUME \E u \in T : g[u] = "wait"
        PROVE  k <= c + d
    <2>1. CASE t \in T
      BY <1>1, <1>2, <1>3, <1>4, <1>5, <1>6, <2>1 DEF Awake, AboutToSignal
    <2>2. CASE t \in U
      BY <1>1, <1>2, <1>3, <1>4, <1>5, <1>6, <2>2 DEF Awake, AboutToSignal
    <2> QED BY <2>1, <2>2
  <1> QED BY <1>6 DEF Promised, c, d

(* pthread_cond_signal by a thread of U keeps the promise: it wakes one of *)
(* T, or nobody of T sleeps.                                               *)
LEMMA PromisedSignal ==
  ASSUME NEW T, NEW U, IsFiniteSet(T), IsFiniteSet(U), T \subseteq Threads, U \subseteq Threads,
         T \cap U = {}, pc \in [Threads -> Places],
         NEW n \in Int, Promised(n, T, U, pc),
         NEW t \in U, Signal(t, WaitingIn(T)), NEW g, g = pc'
  PROVE  Promised(n, T, U, g)
  <1> DEFINE h == [pc EXCEPT ![t] = "unlock"]
  <1>1. t \in Threads /\ pc[t] = "signal" /\ "unlock" \in Places /\ "wake" \in Places
    BY DEF Signal, Places
  <1>2. h \in [Threads -> Places] /\ h[t] = "unlock" /\ \A u \in Threads \ {t} : h[u] = pc[u]
    BY <1>1
  <1>3. CASE WaitingIn(T) = {}
    <2>1. g = h /\ \A u \in T : pc[u] # "wait"
      BY <1>3 DEF Signal, Goto, WaitingIn
    <2> QED BY <2>1 DEF Promised
  <1>4. CASE WaitingIn(T) # {}
    <2>1. PICK w \in T : pc[w] = "wait" /\ g = [pc EXCEPT ![t] = "unlock", ![w] = "wake"]
      BY <1>4 DEF Signal, WaitingIn
    <2>2. h[w] = "wait" /\ g[w] = "wake" /\ \A u \in Threads \ {w} : g[u] = h[u]
      BY <1>1, <2>1
    <2> HIDE DEF h
    <2>3. n - 1 \in Int /\ (n - 1) + 1 = n
      OBVIOUS
    <2>4. Promised(n - 1, T, U, h)
      BY <1>1, <1>2, <2>3, PromisedMove
    <2> QED BY <1>1, <1>2, <2>2, <2>3, <2>4, PromisedMove DEF Awake
  <1> QED BY <1>3, <1>4

(* Signalling to the other side does not touch the promises to T. *)
LEMMA PromisedElsewhere ==
  ASSUME NEW T, NEW U, IsFiniteSet(T), IsFiniteSet(U), T \subseteq Threads, U \subseteq Threads,
         T \cap U = {}, pc \in [Threads -> Places],
         NEW n \in Int, Promised(n, T, U, pc),
         NEW t \in T, Signal(t, WaitingIn(U)), NEW g, g = pc'
  PROVE  Promised(n, T, U, g)
  <1> DEFINE h == [pc EXCEPT ![t] = "unlock"]
  <1>1. /\ t \in Threads /\ pc[t] = "signal" /\ pc[t] \notin Awake
        /\ "unlock" \in Places /\ "wake" \in Places
    BY DEF Signal, Places, Awake
  <1>2. h \in [Threads -> Places] /\ h[t] = "unlock" /\ \A u \in Threads \ {t} : h[u] = pc[u]
    BY <1>1
  <1>3. Promised(n, T, U, h)
    <2> HIDE DEF h
    <2> QED BY <1>1, <1>2, PromisedMove
  <1>4. CASE WaitingIn(U) = {}
    BY <1>3, <1>4 DEF Signal, Goto
  <1>5. CASE WaitingIn(U) # {}
    <2>1. PICK w \in U : pc[w] = "wait" /\ g = [pc EXCEPT ![t] = "unlock", ![w] = "wake"]
      BY <1>5 DEF Signal, WaitingIn
    <2>2. h[w] = "wait" /\ g[w] = "wake" /\ \A u \in Threads \ {w} : g[u] = h[u]
      BY <1>1, <2>1
    <2> HIDE DEF h
    <2> QED BY <1>1, <1>2, <1>3, <2>2, PromisedMove
  <1> QED BY <1>4, <1>5

(* No step loses a wakeup, on either side. *)
LEMMA PromisedStep ==
  ASSUME IInv, NoLostSpaceWakeup, NoLostItemWakeup, [Next]_vars
  PROVE  NoLostSpaceWakeup' /\ NoLostItemWakeup'
  <1> DEFINE q == pc'
             room == Cap - len
             newroom == Cap - len'
             newlen == len'
  <1>0. /\ IsFiniteSet(Producers) /\ IsFiniteSet(Consumers) /\ Producers \cap Consumers = {}
        /\ Producers \subseteq Threads /\ Consumers \subseteq Threads
        /\ pc \in [Threads -> Places]
    BY SewerAssumption DEF IInv, TypeOK, Threads
  <1>1. /\ len \in Int /\ room \in Int
        /\ Promised(room, Producers, Consumers, pc) /\ Promised(len, Consumers, Producers, pc)
    BY Promises, SewerAssumption DEF IInv, TypeOK
  <1>2. (NoLostSpaceWakeup' <=> Promised(newroom, Producers, Consumers, q))
        /\ (NoLostItemWakeup' <=> Promised(newlen, Consumers, Producers, q))
    <2>1. \A T : Obliged(T)' = {t \in T : q[t] \in Awake}
      BY DEF Obliged, Awake
    <2>2. \A T : Signalling(T)' = {t \in T : q[t] \in AboutToSignal}
      BY DEF Signalling, AboutToSignal
    <2>3. \A T : WaitingIn(T)' # {} <=> \E t \in T : q[t] = "wait"
      BY DEF WaitingIn
    <2> QED BY <2>1, <2>2, <2>3 DEF Count, Promised, NoLostSpaceWakeup, NoLostItemWakeup
  <1> SUFFICES Promised(newroom, Producers, Consumers, q) /\ Promised(newlen, Consumers, Producers, q)
    BY <1>2
  <1>3. CASE UNCHANGED vars
    BY <1>1, <1>3 DEF vars
  <1>4. CASE \E t \in Threads : Moves(t)
    <2>1. PICK t \in Threads : Moves(t)
      BY <1>4
    <2>2. PICK to \in Places :
            /\ q[t] = to /\ \A u \in Threads \ {t} : q[u] = pc[u]
            /\ \/ pc[t] \in {"idle", "wake"} /\ to = "check"
               \/ pc[t] = "wait" /\ to = "wake"
               \/ pc[t] = "unlock" /\ to = "idle"
               \/ pc[t] = "wait" /\ to = "timedout"
               \/ pc[t] = "timedout" /\ to = "unlock"
      BY <1>0, <2>1 DEF Moves
    <2>3. newroom = room /\ newlen = len
      BY <2>1 DEF Moves, ring
    <2>4. t \in Producers \/ t \in Consumers
      BY DEF Threads
    <2>5. pc[t] # "signal" /\ ((pc[t] \notin Awake /\ to # "wait") \/ to \in Awake)
      BY <2>2 DEF Awake
    <2> HIDE DEF q, room, newroom, newlen
    <2>6. Promised(room, Producers, Consumers, q)
      BY <1>0, <1>1, <2>2, <2>4, <2>5, PromisedMove
    <2>7. Promised(len, Consumers, Producers, q)
      BY <1>0, <1>1, <2>2, <2>4, <2>5, PromisedMove
    <2> QED BY <2>3, <2>6, <2>7
  <1>5. ASSUME NEW p \in Producers, SendPush(p)
        PROVE  Promised(newroom, Producers, Consumers, q) /\ Promised(newlen, Consumers, Producers, q)
    <2>1. /\ q[p] = "signal" /\ (\A u \in Threads \ {p} : q[u] = pc[u]) /\ pc[p] = "check"
          /\ newlen = len + 1 /\ newroom = room - 1 /\ newlen \in Int /\ newroom \in Int
      BY <1>0, <1>5, SewerAssumption DEF SendPush, Goto, ringbuf_push, ringbuf_is_full, IInv, TypeOK
    <2>2. p \in Threads /\ "signal" \in Places
      BY <1>0 DEF Places
    <2> HIDE DEF q, room, newroom, newlen
    <2>3. Promised(newroom, Producers, Consumers, q)
      BY <1>0, <1>1, <2>1, <2>2, PromisedMove
    <2>4. Promised(newlen, Consumers, Producers, q)
      BY <1>0, <1>1, <2>1, <2>2, PromisedMove
    <2> QED BY <2>3, <2>4
  <1>6. ASSUME NEW c \in Consumers, ConsumePop(c)
        PROVE  Promised(newroom, Producers, Consumers, q) /\ Promised(newlen, Consumers, Producers, q)
    <2>1. /\ q[c] = "signal" /\ (\A u \in Threads \ {c} : q[u] = pc[u]) /\ pc[c] = "check"
          /\ newlen = len - 1 /\ newroom = room + 1 /\ newlen \in Int /\ newroom \in Int
      BY <1>0, <1>6, SewerAssumption DEF ConsumePop, Goto, ringbuf_pop, ringbuf_is_empty, IInv, TypeOK
    <2>2. c \in Threads /\ "signal" \in Places
      BY <1>0 DEF Places
    <2> HIDE DEF q, room, newroom, newlen
    <2>3. Promised(newroom, Producers, Consumers, q)
      BY <1>0, <1>1, <2>1, <2>2, PromisedMove
    <2>4. Promised(newlen, Consumers, Producers, q)
      BY <1>0, <1>1, <2>1, <2>2, PromisedMove
    <2> QED BY <2>3, <2>4
  <1>7. ASSUME NEW p \in Producers, SendWait(p)
        PROVE  Promised(newroom, Producers, Consumers, q) /\ Promised(newlen, Consumers, Producers, q)
    <2>1. /\ q[p] = "wait" /\ (\A u \in Threads \ {p} : q[u] = pc[u]) /\ pc[p] = "check"
          /\ newlen = len /\ newroom = room /\ newroom = 0
      BY <1>0, <1>7, SewerAssumption DEF SendWait, WaitOn, Goto, ring, ringbuf_is_full, IInv, TypeOK
    <2>2. p \in Threads /\ "wait" \in Places
      BY <1>0 DEF Places
    <2> HIDE DEF q, room, newroom, newlen
    <2>3. Promised(newroom, Producers, Consumers, q)
      BY <1>0, <1>1, <2>1, <2>2, PromisedMove
    <2>4. Promised(newlen, Consumers, Producers, q)
      BY <1>0, <1>1, <2>1, <2>2, PromisedMove
    <2> QED BY <2>3, <2>4
  <1>8. ASSUME NEW c \in Consumers, ConsumeWait(c)
        PROVE  Promised(newroom, Producers, Consumers, q) /\ Promised(newlen, Consumers, Producers, q)
    <2>1. /\ q[c] = "wait" /\ (\A u \in Threads \ {c} : q[u] = pc[u]) /\ pc[c] = "check"
          /\ newlen = len /\ newroom = room /\ newlen = 0
      BY <1>0, <1>8 DEF ConsumeWait, WaitOn, Goto, ring, ringbuf_is_empty
    <2>2. c \in Threads /\ "wait" \in Places
      BY <1>0 DEF Places
    <2> HIDE DEF q, room, newroom, newlen
    <2>3. Promised(newroom, Producers, Consumers, q)
      BY <1>0, <1>1, <2>1, <2>2, PromisedMove
    <2>4. Promised(newlen, Consumers, Producers, q)
      BY <1>0, <1>1, <2>1, <2>2, PromisedMove
    <2> QED BY <2>3, <2>4
  <1>9. ASSUME NEW p \in Producers, SendSignal(p)
        PROVE  Promised(newroom, Producers, Consumers, q) /\ Promised(newlen, Consumers, Producers, q)
    <2>1. Signal(p, WaitingIn(Consumers)) /\ newlen = len /\ newroom = room /\ q = pc'
      BY <1>9 DEF SendSignal, Signal, ring
    <2> HIDE DEF q, room, newroom, newlen
    <2>3. Promised(newroom, Producers, Consumers, q)
      BY <1>0, <1>1, <2>1, PromisedElsewhere
    <2>4. Promised(newlen, Consumers, Producers, q)
      BY <1>0, <1>1, <2>1, PromisedSignal
    <2> QED BY <2>3, <2>4
  <1>10. ASSUME NEW c \in Consumers, ConsumeSignal(c)
        PROVE  Promised(newroom, Producers, Consumers, q) /\ Promised(newlen, Consumers, Producers, q)
    <2>1. Signal(c, WaitingIn(Producers)) /\ newlen = len /\ newroom = room /\ q = pc'
      BY <1>10 DEF ConsumeSignal, Signal, ring
    <2> HIDE DEF q, room, newroom, newlen
    <2>3. Promised(newroom, Producers, Consumers, q)
      BY <1>0, <1>1, <2>1, PromisedSignal
    <2>4. Promised(newlen, Consumers, Producers, q)
      BY <1>0, <1>1, <2>1, PromisedElsewhere
    <2> QED BY <2>3, <2>4
  <1> HIDE DEF q, room, newroom, newlen
  <1> QED BY <1>3, <1>4, <1>5, <1>6, <1>7, <1>8, <1>9, <1>10, StepKinds

(* Both promises hold in every state of every execution. *)
LEMMA WakeupInvariant == Spec => [](NoLostSpaceWakeup /\ NoLostItemWakeup)
  <1>1. Init => NoLostSpaceWakeup /\ NoLostItemWakeup
    BY DEF Init, NoLostSpaceWakeup, NoLostItemWakeup, WaitingIn, Threads
  <1>2. /\ IInv /\ NoLostSpaceWakeup /\ NoLostItemWakeup /\ [Next]_vars
        => NoLostSpaceWakeup' /\ NoLostItemWakeup'
    BY PromisedStep
  <1> QED BY <1>1, <1>2, SewerInvariant, PTL DEF Spec

(* While a sender sleeps in sewer_send, every free slot is promised to an  *)
(* awake sender or to a signal that is on its way.                         *)
THEOREM SewerNoLostSpaceWakeup == Spec => []NoLostSpaceWakeup
  BY WakeupInvariant, PTL

(* While a consumer sleeps, every message in the ring is promised to an    *)
(* awake consumer or to a signal that is on its way, whatever deadlines    *)
(* pass at the same time.                                                  *)
THEOREM SewerNoLostItemWakeup == Spec => []NoLostItemWakeup
  BY WakeupInvariant, PTL
=============================================================================
