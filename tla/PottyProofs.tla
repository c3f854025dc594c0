---------------------------- MODULE PottyProofs ----------------------------
(***************************************************************************)
(* Proofs about Potty for any capacity, threshold, number of flushers,     *)
(* feeds and crashes, whichever system calls fail.                         *)
(***************************************************************************)
EXTENDS Potty, SequenceFacts

(* The handshake between potty_flush and potty_drain over flusher_mutex:   *)
(* a job is never queued with the flag down, and unless a pthread_create   *)
(* has failed the flag is never up without a thread behind it.             *)
FlusherInv ==
  /\ OneFlusher
  /\ flush_jobs # <<>> => flusher_running
  /\ ~unmanned => RunningMeansActive

(* What is known to be on stable storage is the beginning of the file. *)
DurableInv == IsPrefix(durable, file)

(* The inductive invariant. *)
IInv == TypeOK /\ FlusherInv /\ DurableInv

(* While the process is down nothing of it is left. *)
StoppedInv ==
  status # "up" =>
    /\ sewer = <<>> /\ waste = <<>> /\ flush_jobs = <<>>
    /\ \A f \in Flushers : flusher[f].pc = "none"

(* A flusher holds nothing between two jobs, and before it closes the file *)
(* it has given every record to the stream.                                *)
StreamInv ==
  \A f \in Flushers :
    /\ flusher[f].pc \in {"none", "grab"} => flusher[f].batch = <<>> /\ flusher[f].stream = <<>>
    /\ flusher[f].pc = "close" => flusher[f].batch = <<>>

(* The file is what the store is made of as far as it has got, also when   *)
(* the process is down and the rest of the pipe is gone.                   *)
FileInv ==
  /\ PipelineIntact
  /\ status # "up" => IsPrefix(file, Bytes(history))

(* What a flusher has in hand will bring the file to the size that flushed *)
(* is about to claim.                                                      *)
FlushedInv ==
  /\ FlushedIsInFile
  /\ \A f \in Flushers : flusher[f].pc \in {"write", "close"} =>
       2 * (flushed + flusher[f].size)
         <= Len(file) + Len(flusher[f].stream) + 2 * Len(flusher[f].batch)

(* The pipe and the flushed count, unless an fclose dropped something;     *)
(* what a thread and a dead process hold in any case.                      *)
PipeInv ==
  /\ StoppedInv /\ StreamInv
  /\ ~dropped => FileInv /\ FlushedInv

-----------------------------------------------------------------------------
(* The operators on sequences stay within sequences over a set. *)
LEMMA SeqTypes ==
  ASSUME NEW S
  PROVE  /\ <<>> \in Seq(S)
         /\ \A s \in Seq(S), x \in S : Append(s, x) \in Seq(S)
         /\ \A s, t \in Seq(S) : s \o t \in Seq(S)
         /\ \A s \in Seq(S) : s # <<>> => Head(s) \in S /\ Tail(s) \in Seq(S)
         /\ \A s \in Seq(S) : \A m \in 1 .. Len(s) + 1 : \A n \in 0 .. Len(s) :
              SubSeq(s, m, n) \in Seq(S)
         /\ \A s \in Seq(S) : Len(s) \in Nat
  BY SubSeqProperties, HeadTailProperties, AppendProperties, ConcatProperties

(* A record is two halves of its mutation, and reading gives it back. *)
LEMMA RecordTypes ==
  /\ \A s \in Seq(Mutations) : Bytes(s) \in Seq(Halves)
  /\ \A b \in Seq(Halves) : Records(b) \in Seq(Mutations)
  <1>1. ASSUME NEW s \in Seq(Mutations)
        PROVE  Bytes(s) \in Seq(Halves)
    <2>1. \A i \in 1 .. 2 * Len(s) : (i + 1) \div 2 \in 1 .. Len(s) /\ i % 2 \in {0, 1}
      OBVIOUS
    <2>2. \A i \in 1 .. 2 * Len(s) : <<s[(i + 1) \div 2], i % 2>> \in Halves
      BY <2>1 DEF Halves
    <2> QED BY <2>2 DEF Bytes
  <1>2. ASSUME NEW b \in Seq(Halves)
        PROVE  Records(b) \in Seq(Mutations)
    <2>1. \A i \in 1 .. Len(b) \div 2 : 2 * i \in 1 .. Len(b)
      OBVIOUS
    <2>2. \A i \in 1 .. Len(b) \div 2 : b[2 * i][1] \in Mutations
      BY <2>1 DEF Halves
    <2> QED BY <2>2 DEF Records
  <1> QED BY <1>1, <1>2

-----------------------------------------------------------------------------
(* An idle flusher, one about to grab a job and one given a job are states *)
(* a flusher can be in.                                                    *)
LEMMA FlusherTypes ==
  /\ NoFlusher \in FlusherStates /\ AtGrab \in FlusherStates
  /\ NoFlusher.pc = "none" /\ AtGrab.pc = "grab"
  /\ \A job \in Seq(Mutations) : Writing(job) \in FlusherStates /\ Writing(job).pc = "write"
  <1>1. NoFlusher \in FlusherStates /\ NoFlusher.pc = "none"
    BY DEF NoFlusher, FlusherStates
  <1>2. AtGrab = [pc |-> "grab", size |-> 0, batch |-> <<>>, stream |-> <<>>]
    BY DEF AtGrab, NoFlusher
  <1>3. AtGrab \in FlusherStates /\ AtGrab.pc = "grab"
    BY <1>2 DEF FlusherStates
  <1>4. \A job \in Seq(Mutations) : Writing(job) \in FlusherStates /\ Writing(job).pc = "write"
    BY DEF Writing, FlusherStates
  <1> QED BY <1>1, <1>3, <1>4

(* What a flusher's steps do to the threads: only f changes, and how. *)
LEMMA DrainAt ==
  ASSUME TypeOK, NEW f \in Flushers, potty_drain(f)
  PROVE  /\ flusher' \in [Flushers -> FlusherStates]
         /\ \A g \in Flushers \ {f} : flusher'[g] = flusher[g]
         /\ flusher[f].pc # "none"
         /\ flush_jobs' \in Seq(Seq(Mutations))
         /\ file' \in Seq(Halves) /\ durable' \in Seq(Halves) /\ flushed' \in Nat
         /\ file' = file \/ \E t \in Seq(Halves) : file' = file \o t
         /\ durable' = durable \/ (durable' = file /\ file' = file)
         /\ dropped' \in BOOLEAN /\ (dropped => dropped')
         /\ UNCHANGED <<history, queues, unmanned, meta>>
         /\ \/ /\ DrainGrab(f) /\ flush_jobs = <<>> /\ flusher_running' = FALSE
               /\ flusher'[f].pc = "none" /\ UNCHANGED flush_jobs
            \/ /\ flusher'[f].pc # "none" /\ UNCHANGED flusher_running
               /\ flush_jobs' # <<>> => flush_jobs # <<>>
  <1>0. /\ flusher \in [Flushers -> FlusherStates] /\ flush_jobs \in Seq(Seq(Mutations))
        /\ file \in Seq(Halves) /\ durable \in Seq(Halves) /\ flushed \in Nat
        /\ dropped \in BOOLEAN
    BY DEF TypeOK
  <1>1. CASE DrainGrab(f)
    <2>1. CASE flush_jobs = <<>>
      BY <1>0, <1>1, <2>1, FlusherTypes DEF DrainGrab, disk
    <2>2. CASE flush_jobs # <<>>
      <3>1. Head(flush_jobs) \in Seq(Mutations) /\ Tail(flush_jobs) \in Seq(Seq(Mutations))
        BY <1>0, <2>2, SeqTypes
      <3> QED BY <1>0, <1>1, <2>2, <3>1, FlusherTypes DEF DrainGrab, disk
    <2> QED BY <2>1, <2>2
  <1>2. CASE SerializeMutation(f)
    <2> DEFINE stream == flusher[f].stream \o Bytes(<<Head(flusher[f].batch)>>)
    <2>1. /\ flusher[f].stream \in Seq(Halves) /\ flusher[f].batch \in Seq(Mutations)
          /\ flusher[f].pc = "write" /\ flusher[f].batch # <<>>
      BY <1>0, <1>2 DEF FlusherStates, SerializeMutation
    <2>2. Head(flusher[f].batch) \in Mutations /\ Tail(flusher[f].batch) \in Seq(Mutations)
      BY <2>1, SeqTypes
    <2>3. <<Head(flusher[f].batch)>> \in Seq(Mutations)
      BY <2>2
    <2>4. stream \in Seq(Halves) /\ Len(stream) \in Nat
      BY <2>1, <2>3, RecordTypes, SeqTypes
    <2> HIDE DEF stream
    <2>5. PICK n \in 0 .. Len(stream) :
            /\ file' = file \o SubSeq(stream, 1, n)
            /\ flusher' = [flusher EXCEPT
                 ![f].batch = Tail(@), ![f].stream = SubSeq(stream, n + 1, Len(stream))]
      BY <1>2 DEF SerializeMutation, stream
    <2>6. SubSeq(stream, 1, n) \in Seq(Halves) /\ SubSeq(stream, n + 1, Len(stream)) \in Seq(Halves)
      BY <2>4, SeqTypes
    <2>7. file' \in Seq(Halves) /\ \E t \in Seq(Halves) : file' = file \o t
      BY <1>0, <2>5, <2>6, SeqTypes
    <2>8. /\ flusher' \in [Flushers -> FlusherStates]
          /\ \A g \in Flushers \ {f} : flusher'[g] = flusher[g]
          /\ flusher'[f].pc = "write"
      BY <1>0, <2>1, <2>2, <2>5, <2>6 DEF FlusherStates
    <2> QED BY <1>0, <1>2, <2>1, <2>7, <2>8 DEF SerializeMutation
  <1>3. CASE Fsync(f)
    <2>1. /\ flusher' \in [Flushers -> FlusherStates]
          /\ \A g \in Flushers \ {f} : flusher'[g] = flusher[g]
          /\ flusher'[f].pc = "close"
      BY <1>0, <1>3 DEF Fsync, FlusherStates
    <2> QED BY <1>0, <1>3, <2>1 DEF Fsync
  <1>4. CASE Fclose(f)
    <2>1. flusher[f].stream \in Seq(Halves) /\ flusher[f].size \in Nat
      BY <1>0 DEF FlusherStates
    <2>2. PICK t \in Seq(Halves) : file' = file \o t
      <3> DEFINE stream == flusher[f].stream
      <3>1. CASE file' = file \o stream
        BY <2>1, <3>1
      <3>2. CASE \E n \in 0 .. Len(stream) - 1 : file' = file \o SubSeq(stream, 1, n)
        <4>1. PICK n \in 0 .. Len(stream) - 1 : file' = file \o SubSeq(stream, 1, n)
          BY <3>2
        <4>2. SubSeq(stream, 1, n) \in Seq(Halves)
          <5>1. stream \in Seq(Halves) /\ Len(stream) \in Nat /\ n \in 0 .. Len(stream)
            BY <2>1, SeqTypes
          <5> HIDE DEF stream
          <5> QED BY <5>1, SeqTypes
        <4> QED BY <4>1, <4>2
      <3> QED BY <1>4, <3>1, <3>2 DEF Fclose
    <2>3. file' \in Seq(Halves)
      BY <1>0, <2>2, SeqTypes
    <2>4. /\ flusher' \in [Flushers -> FlusherStates]
          /\ \A g \in Flushers \ {f} : flusher'[g] = flusher[g]
          /\ flusher'[f].pc = "grab" /\ flusher[f].pc = "close"
      BY <1>0, <1>4, FlusherTypes DEF Fclose
    <2>5. flushed' \in Nat
      BY <1>0, <1>4, <2>1 DEF Fclose
    <2>6. dropped' \in BOOLEAN /\ (dropped => dropped')
      BY <1>0, <1>4 DEF Fclose
    <2>7. UNCHANGED <<history, queues, flush_jobs, flusher_running, unmanned, durable, meta>>
      BY <1>4 DEF Fclose
    <2> QED BY <1>0, <2>2, <2>3, <2>4, <2>5, <2>6, <2>7
  <1> QED BY <1>1, <1>2, <1>3, <1>4 DEF potty_drain

(* Starting a flusher takes an idle one, or none if the creation fails. *)
LEMMA StartAt ==
  ASSUME TypeOK, StartFlusher
  PROVE  /\ flusher' \in [Flushers -> FlusherStates]
         /\ flusher_running'
         /\ unmanned' \in BOOLEAN
         /\ \/ unmanned' /\ flusher' = flusher
            \/ \E f \in Flushers :
                 /\ flusher'[f].pc = "grab"
                 /\ \A g \in Flushers \ {f} : flusher'[g] = flusher[g]
  BY FlusherTypes DEF TypeOK, StartFlusher

-----------------------------------------------------------------------------
(* The state in which the potty is created satisfies the invariant. *)
LEMMA InitIInv == Init => IInv
  <1> SUFFICES ASSUME Init PROVE IInv
    OBVIOUS
  <1>1. TypeOK
    <2>1. flusher \in [Flushers -> FlusherStates]
      BY FlusherTypes DEF Init
    <2>2. \A S : <<>> \in Seq(S)
      OBVIOUS
    <2>3. Len(<<>>) <= SewerCap /\ 0 \in 0 .. MaxFeeds /\ 0 \in 0 .. MaxCrashes
      BY PottyAssumption
    <2> QED BY <2>1, <2>2, <2>3 DEF Init, TypeOK
  <1>2. FlusherInv
    BY FlusherTypes DEF Init, FlusherInv, OneFlusher, RunningMeansActive, Active
  <1>3. DurableInv
    BY DEF Init, DurableInv, IsPrefix
  <1> QED BY <1>1, <1>2, <1>3 DEF IInv

(* Steps of the tank, the pump, the clock and the flushers stay in types. *)
LEMMA TypeStep ==
  ASSUME TypeOK, [Next]_vars
  PROVE  TypeOK'
  <1>1. CASE potty_feed
    <2>1. fed + 1 \in Mutations /\ Len(sewer) + 1 <= SewerCap
      BY <1>1, PottyAssumption DEF potty_feed, TypeOK, Mutations
    <2>2. /\ history' \in Seq(Mutations)
          /\ sewer' \in Seq(Mutations) /\ Len(sewer') = Len(sewer) + 1
      BY <1>1, <2>1, AppendProperties DEF potty_feed, TypeOK
    <2>3. fed' \in 0 .. MaxFeeds
      BY <1>1, PottyAssumption DEF potty_feed, TypeOK
    <2> QED BY <1>1, <2>1, <2>2, <2>3 DEF potty_feed, TypeOK, workers, disk
  <1>2. CASE PumpConsume
    <2>1. sewer \in Seq(Mutations) /\ sewer # <<>> /\ waste \in Seq(Mutations)
      BY <1>2 DEF PumpConsume, TypeOK
    <2>2. /\ Head(sewer) \in Mutations /\ Tail(sewer) \in Seq(Mutations)
          /\ Len(Tail(sewer)) = Len(sewer) - 1
      BY <2>1, HeadTailProperties
    <2>3. waste' \in Seq(Mutations) /\ sewer' \in Seq(Mutations) /\ Len(sewer') <= SewerCap
      BY <1>2, <2>1, <2>2, SeqTypes, PottyAssumption DEF PumpConsume, TypeOK
    <2> QED BY <1>2, <2>3 DEF PumpConsume, TypeOK, workers, disk, meta
  <1>3. CASE PumpWait \/ PumpTimeout
    BY <1>3 DEF PumpWait, PumpTimeout, TypeOK, workers, disk, meta
  <1>4. CASE PumpDecide
    <2>1. CASE waste # <<>> /\ should_flush
      <3>1. /\ flush_jobs' = Append(flush_jobs, waste) /\ waste' = <<>> /\ ~flush_due'
            /\ UNCHANGED <<flusher_running, flusher, unmanned>> \/ StartFlusher
        BY <1>4, <2>1 DEF PumpDecide, potty_flush
      <3>2. flush_jobs' \in Seq(Seq(Mutations)) /\ waste' \in Seq(Mutations)
        BY <3>1, AppendProperties DEF TypeOK
      <3>3. /\ flusher' \in [Flushers -> FlusherStates]
            /\ flusher_running' \in BOOLEAN /\ unmanned' \in BOOLEAN
        BY <3>1, StartAt DEF TypeOK
      <3>4. flush_due' \in BOOLEAN /\ pump' = "consume"
        BY <1>4, <2>1 DEF PumpDecide, potty_flush
      <3> QED BY <1>4, <3>2, <3>3, <3>4 DEF PumpDecide, TypeOK, disk, meta
    <2>2. CASE ~(waste # <<>> /\ should_flush)
      BY <1>4, <2>2 DEF PumpDecide, potty_flush, TypeOK, workers, disk, meta
    <2> QED BY <2>1, <2>2
  <1>5. CASE TimePasses
    BY <1>5 DEF TimePasses, TypeOK, workers, disk, meta
  <1>6. CASE \E f \in Flushers : potty_drain(f)
    <2>1. PICK f \in Flushers : potty_drain(f)
      BY <1>6
    <2>2. flusher_running' \in BOOLEAN
      BY <2>1, DrainAt DEF TypeOK
    <2> QED BY <2>1, <2>2, DrainAt DEF TypeOK, queues, meta
  <1>7. CASE Kill \/ PowerLoss
    <2>1. /\ file' \in Seq(Halves) /\ durable' \in Seq(Halves) /\ flushed' \in Nat
          /\ dropped' \in BOOLEAN
      <3>1. CASE Kill
        BY <3>1 DEF Kill, disk, TypeOK
      <3>2. CASE PowerLoss
        <4>1. PICK n \in Len(durable) .. Len(file) :
                /\ file' = SubSeq(file, 1, n)
                /\ flushed' = IF 2 * flushed <= n THEN flushed ELSE n \div 2
          BY <3>2 DEF PowerLoss
        <4>2. n \in 0 .. Len(file)
          BY SeqTypes DEF TypeOK
        <4>3. file' \in Seq(Halves) /\ flushed' \in Nat
          BY <4>1, <4>2, SeqTypes DEF TypeOK
        <4> QED BY <3>2, <4>3 DEF PowerLoss, TypeOK
      <3> QED BY <1>7, <3>1, <3>2
    <2>2. LoseMemory
      BY <1>7 DEF Kill, PowerLoss
    <2>3. crashes' \in 0 .. MaxCrashes
      BY <2>2, PottyAssumption DEF LoseMemory, TypeOK
    <2>4. flusher' \in [Flushers -> FlusherStates]
      BY <2>2, FlusherTypes DEF LoseMemory
    <2>5. (\A S : <<>> \in Seq(S)) /\ Len(<<>>) <= SewerCap
      BY PottyAssumption
    <2> QED BY <2>1, <2>2, <2>3, <2>4, <2>5 DEF LoseMemory, TypeOK
  <1>8. CASE Restart
    BY <1>8, RecordTypes DEF Restart, TypeOK, queues, workers, disk
  <1>9. CASE UNCHANGED vars
    BY <1>9 DEF vars, TypeOK, queues, workers, disk, meta
  <1> QED BY <1>1, <1>2, <1>3, <1>4, <1>5, <1>6, <1>7, <1>8, <1>9 DEF Next, potty_pump

(* The handshake survives every step: potty_flush starts a flusher only    *)
(* with the flag down, and potty_drain lowers it only with no job left.    *)
LEMMA FlusherStep ==
  ASSUME TypeOK, FlusherInv, [Next]_vars
  PROVE  FlusherInv'
  <1> USE DEF FlusherInv, OneFlusher, RunningMeansActive, Active
  <1>1. CASE UNCHANGED workers
    BY <1>1 DEF workers
  <1>2. CASE PumpDecide
    <2>1. CASE waste # <<>> /\ should_flush /\ ~flusher_running
      <3>1. StartFlusher
        BY <1>2, <2>1 DEF PumpDecide, potty_flush
      <3> QED BY <2>1, <3>1, StartAt
    <2>2. CASE waste # <<>> /\ should_flush /\ flusher_running
      BY <1>2, <2>2 DEF PumpDecide, potty_flush
    <2>3. CASE ~(waste # <<>> /\ should_flush)
      <3>1. UNCHANGED workers
        BY <1>2, <2>3 DEF PumpDecide, potty_flush
      <3> QED BY <1>1, <3>1
    <2> QED BY <2>1, <2>2, <2>3
  <1>3. CASE \E f \in Flushers : potty_drain(f)
    <2>1. PICK f \in Flushers : potty_drain(f)
      BY <1>3
    <2>2. flusher[f].pc # "none" /\ \A g \in Flushers \ {f} : flusher'[g] = flusher[g]
      BY <2>1, DrainAt
    <2>3. \A g \in Flushers \ {f} : flusher'[g].pc = "none"
      BY <2>2
    <2>4. CASE /\ flush_jobs = <<>> /\ flusher_running' = FALSE
               /\ flusher'[f].pc = "none" /\ UNCHANGED flush_jobs
      BY <2>3, <2>4
    <2>5. CASE /\ flusher'[f].pc # "none" /\ UNCHANGED flusher_running
               /\ flush_jobs' # <<>> => flush_jobs # <<>>
      BY <2>2, <2>3, <2>5
    <2> QED BY <2>1, <2>4, <2>5, DrainAt
  <1>4. CASE Kill \/ PowerLoss
    <2>1. LoseMemory
      BY <1>4 DEF Kill, PowerLoss
    <2> QED BY <2>1, FlusherTypes DEF LoseMemory
  <1>5. CASE potty_feed \/ PumpConsume \/ PumpWait \/ PumpTimeout \/ TimePasses \/ Restart
    BY <1>1, <1>5 DEF potty_feed, PumpConsume, PumpWait, PumpTimeout, TimePasses, Restart
  <1>6. CASE UNCHANGED vars
    BY <1>1, <1>6 DEF vars
  <1> QED BY <1>2, <1>3, <1>4, <1>5, <1>6 DEF Next, potty_pump

(* Appending to a sequence, or cutting it off no shorter than s, leaves    *)
(* its prefix s alone.                                                     *)
LEMMA PrefixFacts ==
  ASSUME NEW S, NEW s \in Seq(S), NEW t \in Seq(S), IsPrefix(s, t)
  PROVE  /\ \A u \in Seq(S) : IsPrefix(s, t \o u) /\ IsPrefix(t, t \o u)
         /\ \A n \in Len(s) .. Len(t) : IsPrefix(s, SubSeq(t, 1, n))
         /\ IsPrefix(s, s) /\ IsPrefix(t, t)
  <1>1. Len(s) \in Nat /\ Len(t) \in Nat /\ Len(s) <= Len(t)
    BY DEF IsPrefix
  <1>2. ASSUME NEW u \in Seq(S), NEW n \in 0 .. Len(t)
        PROVE  SubSeq(t \o u, 1, n) = SubSeq(t, 1, n)
    BY <1>1
  <1>3. \A u \in Seq(S) : IsPrefix(s, t \o u) /\ IsPrefix(t, t \o u)
    BY <1>1, <1>2, ConcatProperties DEF IsPrefix
  <1>4. ASSUME NEW n \in Len(s) .. Len(t)
        PROVE  IsPrefix(s, SubSeq(t, 1, n))
    <2>1. Len(SubSeq(t, 1, n)) = n /\ SubSeq(SubSeq(t, 1, n), 1, Len(s)) = SubSeq(t, 1, Len(s))
      BY <1>1
    <2> QED BY <1>1, <2>1 DEF IsPrefix
  <1> QED BY <1>1, <1>3, <1>4 DEF IsPrefix

(* What is synced stays the beginning of the file, and short of a crash    *)
(* both only grow.                                                         *)
LEMMA DiskStep ==
  ASSUME TypeOK, DurableInv, [Next]_vars
  PROVE  /\ DurableInv'
         /\ status' = "up" => IsPrefix(file, file') /\ IsPrefix(durable, durable')
  <1> USE DEF DurableInv
  <1>0. file \in Seq(Halves) /\ durable \in Seq(Halves)
    BY DEF TypeOK
  <1>1. CASE UNCHANGED <<file, durable>>
    BY <1>0, <1>1, PrefixFacts
  <1>2. CASE \E f \in Flushers : potty_drain(f)
    <2>1. /\ file' = file \/ \E t \in Seq(Halves) : file' = file \o t
          /\ durable' = durable \/ (durable' = file /\ file' = file)
      BY <1>2, DrainAt
    <2> QED BY <1>0, <2>1, PrefixFacts
  <1>3. CASE PowerLoss
    <2>1. status' = "down" /\ UNCHANGED durable
      BY <1>3 DEF PowerLoss, LoseMemory
    <2>2. PICK n \in Len(durable) .. Len(file) : file' = SubSeq(file, 1, n)
      BY <1>3 DEF PowerLoss
    <2> QED BY <1>0, <2>1, <2>2, PrefixFacts
  <1>4. CASE potty_feed \/ potty_pump \/ TimePasses \/ Kill \/ Restart
    BY <1>1, <1>4 DEF potty_feed, potty_pump, PumpConsume, PumpWait, PumpTimeout, PumpDecide,
                      TimePasses, Kill, Restart, disk
  <1>5. CASE UNCHANGED vars
    BY <1>1, <1>5 DEF vars, disk
  <1> QED BY <1>2, <1>3, <1>4, <1>5 DEF Next

(* Every step preserves the invariant. *)
LEMMA NextIInv == IInv /\ [Next]_vars => IInv'
  BY TypeStep, FlusherStep, DiskStep DEF IInv

-----------------------------------------------------------------------------
(* The records of two sequences one after the other. *)
LEMMA BytesFacts ==
  /\ Bytes(<<>>) = <<>>
  /\ \A s \in Seq(Mutations) : Bytes(s) \in Seq(Halves) /\ Len(Bytes(s)) = 2 * Len(s)
  /\ \A s, t \in Seq(Mutations) : Bytes(s \o t) = Bytes(s) \o Bytes(t)
  <1>1. Bytes(<<>>) = <<>>
    BY DEF Bytes
  <1>2. ASSUME NEW s \in Seq(Mutations)
        PROVE  /\ Bytes(s) \in Seq(Halves) /\ Len(Bytes(s)) = 2 * Len(s)
               /\ \A i \in 1 .. 2 * Len(s) : Bytes(s)[i] = <<s[(i + 1) \div 2], i % 2>>
    <2>1. Bytes(s) \in Seq(Halves)
      BY RecordTypes
    <2> DEFINE k == 2 * Len(s)
    <2>2. Bytes(s) = [i \in 1 .. k |-> <<s[(i + 1) \div 2], i % 2>>] /\ k \in Nat
      BY DEF Bytes
    <2>3. k = 2 * Len(s)
      OBVIOUS
    <2> HIDE DEF k
    <2>4. Len(Bytes(s)) = k
      BY <2>1, <2>2, LenProperties
    <2> QED BY <2>1, <2>2, <2>3, <2>4
  <1>3. ASSUME NEW s \in Seq(Mutations), NEW t \in Seq(Mutations)
        PROVE  Bytes(s \o t) = Bytes(s) \o Bytes(t)
    <2> DEFINE u == s \o t
               m == Len(s)
               n == Len(t)
               b == Bytes(s)
               c == Bytes(t)
               d == Bytes(u)
    <2>1. /\ u \in Seq(Mutations) /\ Len(u) = m + n /\ m \in Nat /\ n \in Nat
          /\ \A i \in 1 .. m + n : u[i] = IF i <= m THEN s[i] ELSE t[i - m]
      BY ConcatProperties
    <2>2. /\ b \in Seq(Halves) /\ Len(b) = 2 * m
          /\ \A i \in 1 .. 2 * m : b[i] = <<s[(i + 1) \div 2], i % 2>>
      BY <1>2
    <2>3. /\ c \in Seq(Halves) /\ Len(c) = 2 * n
          /\ \A i \in 1 .. 2 * n : c[i] = <<t[(i + 1) \div 2], i % 2>>
      BY <1>2
    <2>4. /\ d \in Seq(Halves) /\ Len(d) = 2 * (m + n)
          /\ \A i \in 1 .. 2 * (m + n) : d[i] = <<u[(i + 1) \div 2], i % 2>>
      <3> HIDE DEF u
      <3> QED BY <1>2, <2>1
    <2> HIDE DEF u, b, c, d
    <2>5. /\ b \o c \in Seq(Halves) /\ Len(b \o c) = 2 * (m + n)
          /\ \A i \in 1 .. 2 * (m + n) : (b \o c)[i] = IF i <= 2 * m THEN b[i] ELSE c[i - 2 * m]
      <3>1. /\ b \o c \in Seq(Halves) /\ Len(b \o c) = Len(b) + Len(c)
            /\ \A i \in 1 .. Len(b) + Len(c) : (b \o c)[i] = IF i <= Len(b) THEN b[i] ELSE c[i - Len(b)]
        BY <2>2, <2>3, ConcatProperties
      <3>2. Len(b) + Len(c) = 2 * (m + n)
        BY <2>1, <2>2, <2>3
      <3> QED BY <2>2, <3>1, <3>2
    <2> DEFINE bc == b \o c
    <2> HIDE DEF m, n, bc
    <2>6. ASSUME NEW i \in 1 .. 2 * (m + n)
          PROVE  d[i] = bc[i]
      <3>1. (i + 1) \div 2 \in 1 .. m + n
        BY <2>1
      <3>2. CASE i <= 2 * m
        <4>1. (i + 1) \div 2 <= m /\ i \in 1 .. 2 * m
          BY <2>1, <3>2
        <4> QED BY <2>1, <2>2, <2>4, <2>5, <3>1, <3>2, <4>1 DEF bc
      <3>3. CASE i > 2 * m
        <4>1. /\ ~((i + 1) \div 2 <= m) /\ ~(i <= 2 * m) /\ i - 2 * m \in 1 .. 2 * n
              /\ ((i - 2 * m) + 1) \div 2 = (i + 1) \div 2 - m /\ (i - 2 * m) % 2 = i % 2
          BY <2>1, <3>3
        <4>2. d[i] = <<t[(i + 1) \div 2 - m], i % 2>>
          BY <2>1, <2>4, <3>1, <4>1
        <4>3. bc[i] = c[i - 2 * m]
          BY <2>5, <4>1 DEF bc
        <4> QED BY <2>3, <4>1, <4>2, <4>3
      <3> QED BY <2>1, <3>2, <3>3
    <2>7. d = bc
      BY <2>4, <2>5, <2>6, SeqEqual DEF bc
    <2> QED BY <2>7 DEF u, b, c, d, bc
  <1> QED BY <1>1, <1>2, <1>3

(* A file with whole records only is the records of what is read from it;  *)
(* cut from the records of a sequence, it reads as a prefix of that.       *)
LEMMA RecordsFacts ==
  ASSUME NEW s \in Seq(Mutations), NEW b \in Seq(Halves), IsPrefix(b, Bytes(s)), Len(b) % 2 = 0
  PROVE  Bytes(Records(b)) = b /\ IsPrefix(Records(b), s)
  <1> DEFINE r == Records(b)
             c == Bytes(s)
             m == Len(b) \div 2
             n == Len(s)
  <1>1. /\ c \in Seq(Halves) /\ Len(c) = 2 * n /\ n \in Nat
        /\ \A i \in 1 .. 2 * n : c[i] = <<s[(i + 1) \div 2], i % 2>>
    BY BytesFacts DEF Bytes
  <1>2. Len(b) = 2 * m /\ m \in Nat
    OBVIOUS
  <1>3. 2 * m <= 2 * n /\ \A i \in 1 .. 2 * m : b[i] = c[i]
    <2> HIDE DEF c, m, n
    <2>1. Len(b) <= Len(c) /\ b = SubSeq(c, 1, Len(b))
      BY DEF IsPrefix, c
    <2> QED BY <1>1, <1>2, <2>1
  <1>4. r \in Seq(Mutations) /\ Len(r) = m /\ \A i \in 1 .. m : r[i] = b[2 * i][1]
    BY <1>2, RecordTypes DEF Records
  <1> HIDE DEF r, c, m, n
  <1>5. m <= n /\ \A i \in 1 .. m : r[i] = s[i]
    <2>1. m <= n
      BY <1>1, <1>2, <1>3
    <2>2. ASSUME NEW i \in 1 .. m
          PROVE  r[i] = s[i]
      <3>1. 2 * i \in 1 .. 2 * m /\ 2 * i \in 1 .. 2 * n /\ (2 * i + 1) \div 2 = i
        BY <1>1, <1>2, <2>1
      <3>2. c[2 * i] = <<s[i], (2 * i) % 2>>
        BY <1>1, <3>1
      <3> QED BY <1>3, <1>4, <3>1, <3>2
    <2> QED BY <2>1, <2>2
  <1>6. IsPrefix(r, s)
    <2>1. Len(s) = n
      BY DEF n
    <2>2. SubSeq(s, 1, m) \in Seq(Mutations) /\ Len(SubSeq(s, 1, m)) = m /\ \A i \in 1 .. m : SubSeq(s, 1, m)[i] = s[i]
      BY <1>2, <1>5, <2>1, <1>1
    <2>3. r = SubSeq(s, 1, m)
      BY <1>4, <1>5, <2>2, SeqEqual
    <2> QED BY <1>4, <1>5, <2>1, <2>3 DEF IsPrefix
  <1>7. Bytes(r) = b
    <2> DEFINE e == Bytes(r)
    <2>1. /\ e \in Seq(Halves) /\ Len(e) = 2 * m
          /\ \A i \in 1 .. 2 * m : e[i] = <<r[(i + 1) \div 2], i % 2>>
      <3>1. e \in Seq(Halves) /\ Len(e) = 2 * m
        BY <1>4, BytesFacts
      <3> QED BY <1>4, <3>1 DEF Bytes
    <2> HIDE DEF e
    <2>2. ASSUME NEW i \in 1 .. 2 * m
          PROVE  e[i] = b[i]
      <3>1. (i + 1) \div 2 \in 1 .. m /\ i \in 1 .. 2 * n
        <4>1. m \in Nat /\ n \in Nat /\ 2 * m <= 2 * n
          BY <1>1, <1>2, <1>3
        <4> QED BY <4>1
      <3> QED BY <1>1, <1>3, <1>5, <2>1, <3>1
    <2>3. e = b
      BY <1>2, <2>1, <2>2, SeqEqual
    <2> QED BY <2>3 DEF e
  <1> QED BY <1>6, <1>7 DEF r

(* file, what the flusher carries, jobs, waste and sewer in one. *)
Pipe(d, c, jobs, w, s) == d \o c \o Bytes(FlattenSeq(jobs) \o w \o s)

(* Mutations and bytes may be grouped in any way. *)
LEMMA PipeRegroup ==
  /\ \A x, y, z \in Seq(Mutations) : (x \o y) \o z = x \o (y \o z)
  /\ \A x, y, z \in Seq(Halves) : (x \o y) \o z = x \o (y \o z)
  <1>1. ASSUME NEW S
        PROVE  \A x, y, z \in Seq(S) : (x \o y) \o z = x \o (y \o z)
    BY Regroup
  <1> DEFINE A(S) == \A x, y, z \in Seq(S) : (x \o y) \o z = x \o (y \o z)
  <1>2. \A S : A(S)
    BY <1>1, Zenon
  <1> HIDE DEF A
  <1>3. A(Mutations) /\ A(Halves)
    BY <1>2
  <1> QED BY <1>3, Zenon DEF A

(* Something to enter the pipe, and the parts of it. *)
PipeTypes(d, c, jobs, w, s, y) ==
  /\ d \in Seq(Halves) /\ c \in Seq(Halves) /\ jobs \in Seq(Seq(Mutations))
  /\ w \in Seq(Mutations) /\ s \in Seq(Mutations) /\ y \in Seq(Mutations)

(* What enters the pipe enters it last. *)
LEMMA PipeFeed ==
  ASSUME NEW d, NEW c, NEW jobs, NEW w, NEW s, NEW y, PipeTypes(d, c, jobs, w, s, y)
  PROVE  Pipe(d, c, jobs, w, s \o y) = Pipe(d, c, jobs, w, s) \o Bytes(y)
  <1>0. /\ d \in Seq(Halves) /\ c \in Seq(Halves) /\ jobs \in Seq(Seq(Mutations))
        /\ w \in Seq(Mutations) /\ s \in Seq(Mutations) /\ y \in Seq(Mutations)
    BY DEF PipeTypes
  <1> DEFINE F == FlattenSeq(jobs)
             p == F \o w
             q == p \o s
             dc == d \o c
             b == Bytes(q)
             z == Bytes(y)
  <1>1. F \in Seq(Mutations)
    BY <1>0, FlattenType
  <1> HIDE DEF F
  <1>2. p \in Seq(Mutations) /\ dc \in Seq(Halves)
    BY <1>0, <1>1, ConcatProperties
  <1> HIDE DEF p, dc
  <1>3. q \in Seq(Mutations) /\ p \o (s \o y) = q \o y
    <2>1. (p \o s) \o y = p \o (s \o y)
      BY <1>0, <1>2, PipeRegroup
    <2> QED BY <1>0, <1>2, <2>1, ConcatProperties
  <1> HIDE DEF q
  <1>4. b \in Seq(Halves) /\ z \in Seq(Halves) /\ Bytes(q \o y) = b \o z
    BY <1>0, <1>3, BytesFacts
  <1> HIDE DEF b, z
  <1>5. dc \o (b \o z) = (dc \o b) \o z
    BY <1>2, <1>4, PipeRegroup
  <1>6. /\ Pipe(d, c, jobs, w, s \o y) = dc \o Bytes(p \o (s \o y))
        /\ Pipe(d, c, jobs, w, s) = dc \o b
    BY DEF Pipe, dc, p, F, b, q
  <1> QED BY <1>3, <1>4, <1>5, <1>6 DEF z

(* What moves along the pipe, and what enters it. *)
LEMMA PipeMoves ==
  ASSUME NEW d \in Seq(Halves), NEW c \in Seq(Halves), NEW jobs \in Seq(Seq(Mutations)),
         NEW w \in Seq(Mutations), NEW s \in Seq(Mutations)
  PROVE  /\ s # <<>> => Pipe(d, c, jobs, Append(w, Head(s)), Tail(s)) = Pipe(d, c, jobs, w, s)
         /\ Pipe(d, c, Append(jobs, w), <<>>, s) = Pipe(d, c, jobs, w, s)
         /\ jobs # <<>> => Pipe(d, Bytes(Head(jobs)), Tail(jobs), w, s) = Pipe(d, <<>>, jobs, w, s)
         /\ \A x \in Seq(Halves) : Pipe(d \o x, c, jobs, w, s) = Pipe(d, x \o c, jobs, w, s)
         /\ Pipe(d, c, jobs, w, s) \in Seq(Halves) /\ IsPrefix(d, Pipe(d, c, jobs, w, s))
         /\ Pipe(d, <<>>, <<>>, <<>>, <<>>) = d
  <1> DEFINE F == FlattenSeq(jobs)
             p == F \o w
             q == p \o s
             dc == d \o c
             b == Bytes(q)
  <1>m. \A x, y, z \in Seq(Mutations) : (x \o y) \o z = x \o (y \o z)
    BY PipeRegroup
  <1>h. \A x, y, z \in Seq(Halves) : (x \o y) \o z = x \o (y \o z)
    BY PipeRegroup
  <1>1. F \in Seq(Mutations) /\ FlattenSeq(<<>>) = <<>>
    BY FlattenType
  <1> HIDE DEF F
  <1>2. p \in Seq(Mutations) /\ dc \in Seq(Halves)
    BY <1>1, ConcatProperties
  <1>3. Pipe(d, c, jobs, w, s) = dc \o b
    BY DEF Pipe, F
  <1> HIDE DEF p, dc
  <1>a. q \in Seq(Mutations)
    BY <1>2, ConcatProperties
  <1> HIDE DEF q
  <1>b. b \in Seq(Halves)
    BY <1>a, BytesFacts
  <1> HIDE DEF b
  <1>5. ASSUME s # <<>>
        PROVE  Pipe(d, c, jobs, Append(w, Head(s)), Tail(s)) = Pipe(d, c, jobs, w, s)
    <2> DEFINE h == <<Head(s)>>
               t == Tail(s)
    <2>1. h \in Seq(Mutations) /\ t \in Seq(Mutations) /\ s = h \o t /\ Append(w, Head(s)) = w \o h
      BY <1>5, HeadTailProperties, AppendIsConcat
    <2> HIDE DEF h
    <2>2. F \o (w \o h) = p \o h
      BY <1>1, <1>m, <2>1 DEF p
    <2> HIDE DEF t
    <2>3. (p \o h) \o t = p \o (h \o t)
      BY <1>2, <1>m, <2>1, ZenonT(30)
    <2>4. Pipe(d, c, jobs, w \o h, t) = dc \o Bytes((F \o (w \o h)) \o t)
      BY DEF Pipe, F, dc
    <2> QED BY <1>3, <2>1, <2>2, <2>3, <2>4 DEF t, b, q
  <1>6. Pipe(d, c, Append(jobs, w), <<>>, s) = Pipe(d, c, jobs, w, s)
    <2>1. FlattenSeq(Append(jobs, w)) = F \o w
      BY FlattenAppend DEF F
    <2>2. p \o <<>> = p
      BY <1>2, ConcatEmptySeq
    <2> QED BY <2>1, <2>2 DEF Pipe, F, p
  <1>7. ASSUME jobs # <<>>
        PROVE  Pipe(d, Bytes(Head(jobs)), Tail(jobs), w, s) = Pipe(d, <<>>, jobs, w, s)
    <2> DEFINE h == Head(jobs)
               t == FlattenSeq(Tail(jobs))
               u == t \o w
               r == u \o s
    <2>1. h \in Seq(Mutations) /\ t \in Seq(Mutations) /\ F = h \o t
      <3>1. h \in Seq(Mutations) /\ Tail(jobs) \in Seq(Seq(Mutations))
        BY <1>7, HeadTailProperties
      <3> QED BY <1>7, <3>1, FlattenType, FlattenHead DEF F
    <2> HIDE DEF h, t
    <2>2. u \in Seq(Mutations) /\ p = h \o u
      BY <1>m, <2>1, ConcatProperties DEF p
    <2> HIDE DEF u
    <2>3. r \in Seq(Mutations) /\ q = h \o r
      BY <1>m, <2>1, <2>2, ConcatProperties, ZenonT(30) DEF q
    <2> HIDE DEF r
    <2>4. Bytes(q) = Bytes(h) \o Bytes(r) /\ Bytes(h) \in Seq(Halves) /\ Bytes(r) \in Seq(Halves)
      BY <2>1, <2>2, <2>3, BytesFacts
    <2>5. (d \o Bytes(h)) \o Bytes(r) = d \o (Bytes(h) \o Bytes(r))
      <3> DEFINE x == Bytes(h)
                 y == Bytes(r)
      <3>1. x \in Seq(Halves) /\ y \in Seq(Halves)
        BY <2>4
      <3> HIDE DEF x, y
      <3>2. (d \o x) \o y = d \o (x \o y)
        BY <1>h, <3>1
      <3> QED BY <3>2 DEF x, y
    <2>e. d \o <<>> = d
      BY ConcatEmptySeq
    <2>6. Pipe(d, Bytes(h), Tail(jobs), w, s) = (d \o Bytes(h)) \o Bytes(r)
      BY DEF Pipe, r, u, t
    <2>7. Pipe(d, <<>>, jobs, w, s) = (d \o <<>>) \o Bytes(q)
      BY DEF Pipe, q, p, F
    <2> QED BY <2>4, <2>5, <2>e, <2>6, <2>7 DEF h
  <1>8. ASSUME NEW x \in Seq(Halves)
        PROVE  Pipe(d \o x, c, jobs, w, s) = Pipe(d, x \o c, jobs, w, s)
    <2>1. (d \o x) \o c = d \o (x \o c)
      BY ConcatAssociative, SMTT(30)
    <2> QED BY <2>1 DEF Pipe
  <1>9. Pipe(d, c, jobs, w, s) \in Seq(Halves) /\ IsPrefix(d, Pipe(d, c, jobs, w, s))
    <2>1. dc \o b \in Seq(Halves) /\ dc \o b = d \o (c \o b) /\ c \o b \in Seq(Halves)
      <3>1. (d \o c) \o b = d \o (c \o b)
        BY <1>b, ConcatAssociative
      <3> QED BY <1>2, <1>b, <3>1, ConcatProperties DEF dc
    <2>2. IsPrefix(d, d)
      BY DEF IsPrefix
    <2>3. IsPrefix(d, d \o (c \o b))
      BY <2>1, <2>2, PrefixFacts
    <2> QED BY <1>3, <2>1, <2>3
  <1>10. Pipe(d, <<>>, <<>>, <<>>, <<>>) = d
    <2>1. <<>> \o <<>> = <<>> /\ d \o <<>> = d
      BY ConcatEmptySeq
    <2> QED BY <1>1, <2>1, BytesFacts DEF Pipe
  <1> QED BY <1>5, <1>6, <1>7, <1>8, <1>9, <1>10

(* What the flushers carry. *)
Carried(fl) ==
  LET act == {f \in Flushers : fl[f].pc # "none"}
  IN  IF act = {}
      THEN <<>>
      ELSE LET f == CHOOSE f \in act : TRUE
           IN  fl[f].stream \o Bytes(fl[f].batch)

(* With nobody or with f alone at work. *)
LEMMA CarriedBy ==
  ASSUME NEW fl
  PROVE  /\ (\A f \in Flushers : fl[f].pc = "none") => Carried(fl) = <<>>
         /\ \A f \in Flushers :
              fl[f].pc # "none" /\ (\A g \in Flushers \ {f} : fl[g].pc = "none") =>
                Carried(fl) = fl[f].stream \o Bytes(fl[f].batch)
  <1>1. ASSUME \A f \in Flushers : fl[f].pc = "none"
        PROVE  Carried(fl) = <<>>
    BY <1>1 DEF Carried
  <1>2. ASSUME NEW f \in Flushers, fl[f].pc # "none", \A g \in Flushers \ {f} : fl[g].pc = "none"
        PROVE  Carried(fl) = fl[f].stream \o Bytes(fl[f].batch)
    <2>1. {g \in Flushers : fl[g].pc # "none"} = {f}
      BY <1>2
    <2>2. (CHOOSE g \in {f} : TRUE) = f
      OBVIOUS
    <2> QED BY <2>1, <2>2 DEF Carried
  <1> QED BY <1>1, <1>2

(* PipelineIntact in terms of Pipe and Carried, before and after a step. *)
LEMMA PipeIs ==
  /\ PipelineIntact <=> (status = "up" /\ ~dropped =>
       Bytes(history) = Pipe(file, Carried(flusher), flush_jobs, waste, sewer))
  /\ PipelineIntact' <=> (status' = "up" /\ ~dropped' =>
       Bytes(history') = Pipe(file', Carried(flusher'), flush_jobs', waste', sewer'))
  BY DEF PipelineIntact, Pipe, Carried, InFlight, Active

(* The flushers' states before and after a step, with the one at work. *)
LEMMA WritingIs ==
  /\ NoFlusher.batch = <<>> /\ NoFlusher.stream = <<>>
  /\ AtGrab.batch = <<>> /\ AtGrab.stream = <<>>
  /\ \A job : /\ Writing(job).pc = "write" /\ Writing(job).size = Len(job)
              /\ Writing(job).batch = job /\ Writing(job).stream = <<>>
  BY DEF NoFlusher, AtGrab, Writing

(* No step leaves anything behind in a thread that is done, or in a       *)
(* process that is dead.                                                  *)
LEMMA StopStream ==
  ASSUME TypeOK, FlusherInv, StoppedInv, StreamInv, [Next]_vars
  PROVE  StoppedInv' /\ StreamInv'
  <1>0. flusher \in [Flushers -> FlusherStates]
    BY DEF TypeOK
  <1>1. CASE potty_feed \/ PumpConsume \/ PumpWait \/ PumpTimeout \/ TimePasses
    BY <1>1 DEF potty_feed, PumpConsume, PumpWait, PumpTimeout, TimePasses, workers, meta, StoppedInv, StreamInv
  <1>2. CASE PumpDecide
    <2>1. status' = "up" /\ status = "up"
      BY <1>2 DEF PumpDecide, meta
    <2>2. CASE UNCHANGED flusher
      BY <2>1, <2>2 DEF StoppedInv, StreamInv
    <2>3. CASE \E f \in Flushers : flusher[f].pc = "none" /\ flusher' = [flusher EXCEPT ![f] = AtGrab]
      BY <1>0, <2>1, <2>3, FlusherTypes, WritingIs DEF StoppedInv, StreamInv
    <2> QED BY <1>2, <2>2, <2>3 DEF PumpDecide, potty_flush, StartFlusher, workers
  <1>3. CASE \E f \in Flushers : potty_drain(f)
    <2>1. PICK f \in Flushers : potty_drain(f)
      BY <1>3
    <2>2. status' = "up" /\ status = "up"
      BY <2>1 DEF potty_drain, DrainGrab, SerializeMutation, Fsync, Fclose, meta
    <2>3. \A g \in Flushers \ {f} : flusher'[g] = flusher[g]
      BY <2>1, DrainAt
    <2>4. /\ flusher'[f].pc \in {"none", "grab"} => flusher'[f].batch = <<>> /\ flusher'[f].stream = <<>>
          /\ flusher'[f].pc = "close" => flusher'[f].batch = <<>>
      <3>1. CASE DrainGrab(f)
        BY <1>0, <3>1, FlusherTypes, WritingIs DEF DrainGrab
      <3>2. CASE SerializeMutation(f)
        <4>1. flusher'[f].pc = "write"
          BY <1>0, <3>2 DEF SerializeMutation, FlusherStates
        <4> QED BY <4>1
      <3>3. CASE Fsync(f)
        BY <1>0, <3>3 DEF Fsync, FlusherStates
      <3>4. CASE Fclose(f)
        BY <1>0, <3>4, FlusherTypes, WritingIs DEF Fclose
      <3> QED BY <2>1, <3>1, <3>2, <3>3, <3>4 DEF potty_drain
    <2> QED BY <2>2, <2>3, <2>4 DEF StoppedInv, StreamInv
  <1>4. CASE Kill \/ PowerLoss
    <2>1. LoseMemory
      BY <1>4 DEF Kill, PowerLoss
    <2> QED BY <2>1, FlusherTypes, WritingIs DEF LoseMemory, StoppedInv, StreamInv
  <1>5. CASE Restart
    BY <1>5 DEF Restart, queues, workers, StoppedInv, StreamInv
  <1>6. CASE UNCHANGED vars
    BY <1>6 DEF vars, queues, workers, meta, StoppedInv, StreamInv
  <1> QED BY <1>1, <1>2, <1>3, <1>4, <1>5, <1>6 DEF Next, potty_pump

(* A sequence cut in two. *)
LEMMA CutInTwo ==
  ASSUME NEW S, NEW s \in Seq(S), NEW n \in 0 .. Len(s)
  PROVE  s = SubSeq(s, 1, n) \o SubSeq(s, n + 1, Len(s))
  <1>1. SubSeq(s, 1, Len(s)) = s
    BY SubSeqFull
  <1>2. SubSeq(s, 1, n) \o SubSeq(s, n + 1, Len(s)) = SubSeq(s, 1, Len(s))
    <2>1. 1 \in 1 .. Len(s) + 1 /\ n \in 1 - 1 .. Len(s) /\ Len(s) \in n .. Len(s)
      OBVIOUS
    <2> QED BY <2>1, ConcatAdjacentSubSeq
  <1> QED BY <1>1, <1>2

(* A beginning of a beginning of b is a beginning of b. *)
LEMMA CutPrefix ==
  ASSUME NEW S, NEW s \in Seq(S), NEW b \in Seq(S), IsPrefix(s, b), NEW n \in 0 .. Len(s)
  PROVE  IsPrefix(SubSeq(s, 1, n), b)
  <1>1. Len(s) \in Nat /\ Len(b) \in Nat /\ Len(s) <= Len(b) /\ s = SubSeq(b, 1, Len(s))
    BY DEF IsPrefix
  <1>2. Len(SubSeq(s, 1, n)) = n /\ SubSeq(s, 1, n) = SubSeq(b, 1, n)
    BY <1>1
  <1> QED BY <1>1, <1>2 DEF IsPrefix

(* When f takes a step nobody else is at work. *)
LEMMA Alone ==
  ASSUME TypeOK, FlusherInv, NEW f \in Flushers, potty_drain(f)
  PROVE  /\ Carried(flusher) = flusher[f].stream \o Bytes(flusher[f].batch)
         /\ flusher'[f].pc = "none" => Carried(flusher') = <<>>
         /\ flusher'[f].pc # "none" => Carried(flusher') = flusher'[f].stream \o Bytes(flusher'[f].batch)
  <1>1. flusher[f].pc # "none" /\ \A g \in Flushers \ {f} : flusher'[g] = flusher[g]
    BY DrainAt
  <1>2. \A g \in Flushers \ {f} : flusher[g].pc = "none"
    BY <1>1 DEF FlusherInv, OneFlusher, Active
  <1> DEFINE fl == flusher'
  <1>3. \A g \in Flushers \ {f} : fl[g].pc = "none"
    BY <1>1, <1>2
  <1> HIDE DEF fl
  <1>4. fl[f].pc = "none" => Carried(fl) = <<>>
    <2>1. fl[f].pc = "none" => \A g \in Flushers : fl[g].pc = "none"
      BY <1>3
    <2> QED BY <2>1, CarriedBy
  <1>5. fl[f].pc # "none" => Carried(fl) = fl[f].stream \o Bytes(fl[f].batch)
    BY <1>3, CarriedBy
  <1>6. Carried(flusher) = flusher[f].stream \o Bytes(flusher[f].batch)
    BY <1>1, <1>2, CarriedBy
  <1> QED BY <1>4, <1>5, <1>6 DEF fl

(* A flusher moves what is in the pipe and neither adds nor drops, unless  *)
(* its fclose does.                                                        *)
LEMMA DrainPipe ==
  ASSUME TypeOK, FlusherInv, StreamInv, ~dropped, ~dropped', NEW f \in Flushers, potty_drain(f)
  PROVE  Pipe(file', Carried(flusher'), flush_jobs', waste, sewer)
           = Pipe(file, Carried(flusher), flush_jobs, waste, sewer)
  <1> DEFINE stream == flusher[f].stream
             batch == flusher[f].batch
  <1>0. /\ flusher \in [Flushers -> FlusherStates] /\ flush_jobs \in Seq(Seq(Mutations))
        /\ file \in Seq(Halves) /\ waste \in Seq(Mutations) /\ sewer \in Seq(Mutations)
        /\ stream \in Seq(Halves) /\ batch \in Seq(Mutations)
    BY DEF TypeOK, FlusherStates
  <1>1. Carried(flusher) = stream \o Bytes(batch) /\ Bytes(batch) \in Seq(Halves)
    BY <1>0, Alone, BytesFacts
  <1>2. <<>> \o Bytes(<<>>) = <<>>
    BY BytesFacts
  <1>3. CASE DrainGrab(f)
    <2>1. stream = <<>> /\ batch = <<>> /\ UNCHANGED file
      BY <1>3 DEF DrainGrab, StreamInv, disk
    <2>2. Carried(flusher) = <<>>
      BY <1>1, <1>2, <2>1
    <2>3. CASE flush_jobs = <<>>
      <3>1. flusher'[f].pc = "none" /\ UNCHANGED flush_jobs
        BY <1>0, <1>3, <2>3, FlusherTypes DEF DrainGrab
      <3> QED BY <2>1, <2>2, <3>1, Alone
    <2>4. CASE flush_jobs # <<>>
      <3> DEFINE job == Head(flush_jobs)
      <3>1. flush_jobs' = Tail(flush_jobs) /\ flusher'[f] = Writing(job)
        BY <1>0, <1>3, <2>4 DEF DrainGrab
      <3>2. job \in Seq(Mutations)
        BY <1>0, <2>4, SeqTypes
      <3>3. Carried(flusher') = <<>> \o Bytes(job)
        BY <3>1, WritingIs, Alone
      <3>4. <<>> \o Bytes(job) = Bytes(job)
        BY <3>2, BytesFacts, ConcatEmptySeq
      <3> QED BY <1>0, <2>1, <2>2, <2>4, <3>1, <3>3, <3>4, PipeMoves
    <2> QED BY <2>3, <2>4
  <1>4. CASE SerializeMutation(f)
    <2> DEFINE h == <<Head(batch)>>
               t == Tail(batch)
               all == stream \o Bytes(h)
    <2>1. h \in Seq(Mutations) /\ t \in Seq(Mutations) /\ batch = h \o t
      <3>1. batch # <<>>
        BY <1>4 DEF SerializeMutation
      <3> QED BY <1>0, <3>1, HeadTailProperties
    <2>2. PICK n \in 0 .. Len(all) :
            /\ file' = file \o SubSeq(all, 1, n)
            /\ flusher' = [flusher EXCEPT
                 ![f].batch = Tail(@), ![f].stream = SubSeq(all, n + 1, Len(all))]
      BY <1>4 DEF SerializeMutation
    <2> HIDE DEF h, t
    <2>3. Bytes(h) \in Seq(Halves) /\ Bytes(t) \in Seq(Halves) /\ Bytes(batch) = Bytes(h) \o Bytes(t)
      BY <2>1, BytesFacts
    <2>4. all \in Seq(Halves)
      BY <1>0, <2>3, ConcatProperties
    <2> DEFINE x == SubSeq(all, 1, n)
               y == SubSeq(all, n + 1, Len(all))
    <2> HIDE DEF all
    <2>5. x \in Seq(Halves) /\ y \in Seq(Halves) /\ all = x \o y
      <3>1. Len(all) \in Nat
        BY <2>4
      <3>2. x \in Seq(Halves) /\ y \in Seq(Halves)
        BY <2>4, <3>1, SeqTypes
      <3>3. all = x \o y
        BY <2>4, <3>1, CutInTwo
      <3> QED BY <3>2, <3>3
    <2>6. Carried(flusher') = y \o Bytes(t)
      <3>1. flusher'[f].pc = "write" /\ flusher'[f].batch = t /\ flusher'[f].stream = y
        BY <1>0, <1>4, <2>2 DEF t, FlusherStates, SerializeMutation
      <3> QED BY <3>1, Alone
    <2>7. UNCHANGED flush_jobs /\ file' = file \o x
      BY <1>4, <2>2 DEF SerializeMutation
    <2> HIDE DEF x, y
    <2> DEFINE z == Bytes(t)
               v == Bytes(h)
    <2>8. stream \o Bytes(batch) = x \o (y \o z)
      <3>1. z \in Seq(Halves) /\ v \in Seq(Halves) /\ stream \in Seq(Halves)
        BY <1>0, <2>3
      <3>2. Bytes(batch) = v \o z /\ all = stream \o v
        BY <2>3 DEF all
      <3> HIDE DEF z, v, stream
      <3>3. stream \o (v \o z) = (stream \o v) \o z
        BY <3>1, PipeRegroup
      <3>4. (x \o y) \o z = x \o (y \o z)
        BY <2>5, <3>1, PipeRegroup, SMTT(30)
      <3> QED BY <2>5, <3>2, <3>3, <3>4
    <2>9. y \o z \in Seq(Halves)
      <3>1. z \in Seq(Halves)
        BY <2>3
      <3> HIDE DEF z
      <3> QED BY <2>5, <3>1, ConcatProperties
    <2> DEFINE c == y \o z
    <2>10. Pipe(file \o x, c, flush_jobs, waste, sewer) = Pipe(file, x \o c, flush_jobs, waste, sewer)
      <3>1. c \in Seq(Halves)
        BY <2>9
      <3> HIDE DEF c
      <3> QED BY <1>0, <2>5, <3>1, PipeMoves
    <2> QED BY <1>1, <2>6, <2>7, <2>8, <2>10
  <1>5. CASE Fsync(f)
    <2>1. /\ flusher'[f].pc = "close" /\ flusher'[f].batch = batch /\ flusher'[f].stream = stream
          /\ UNCHANGED <<file, flush_jobs>>
      BY <1>0, <1>5 DEF Fsync, FlusherStates
    <2> QED BY <1>1, <2>1, Alone
  <1>6. CASE Fclose(f)
    <2>1. /\ file' = file \o stream /\ UNCHANGED flush_jobs /\ flusher'[f] = AtGrab
          /\ batch = <<>>
      BY <1>0, <1>6 DEF Fclose, StreamInv
    <2>2. Carried(flusher') = <<>>
      BY <1>2, <2>1, FlusherTypes, WritingIs, Alone
    <2>3. Carried(flusher) = stream \o <<>>
      BY <1>1, <2>1, BytesFacts
    <2>4. Pipe(file \o stream, <<>>, flush_jobs, waste, sewer) = Pipe(file, stream \o <<>>, flush_jobs, waste, sewer)
      <3> DEFINE c == <<>>
      <3>1. c \in Seq(Halves)
        OBVIOUS
      <3> HIDE DEF stream, c
      <3>2. Pipe(file \o stream, c, flush_jobs, waste, sewer) = Pipe(file, stream \o c, flush_jobs, waste, sewer)
        BY <1>0, <3>1, PipeMoves
      <3> QED BY <3>2 DEF c
    <2> QED BY <2>1, <2>2, <2>3, <2>4
  <1> QED BY <1>3, <1>4, <1>5, <1>6 DEF potty_drain

(* Between the crash and the restart the file is a part of what the store  *)
(* was made of; every other step leaves the pipe as the store has it.      *)
LEMMA FileStep ==
  ASSUME TypeOK, FlusherInv, DurableInv, StoppedInv, StreamInv, FileInv, ~dropped, ~dropped', [Next]_vars,
         TypeOK', StoppedInv'
  PROVE  FileInv'
  <1> DEFINE c == Carried(flusher)
             pipe == Pipe(file, c, flush_jobs, waste, sewer)
  <1>0. /\ flush_jobs \in Seq(Seq(Mutations)) /\ history \in Seq(Mutations)
        /\ file \in Seq(Halves) /\ waste \in Seq(Mutations) /\ sewer \in Seq(Mutations)
    BY DEF TypeOK
  <1>1. c \in Seq(Halves)
    <2>1. \A f \in Flushers : flusher[f].stream \in Seq(Halves) /\ Bytes(flusher[f].batch) \in Seq(Halves)
      BY BytesFacts DEF TypeOK, FlusherStates
    <2>2. CASE \A f \in Flushers : flusher[f].pc = "none"
      <3>1. c = <<>>
        BY <2>2, CarriedBy
      <3> QED BY <3>1, SeqTypes
    <2>3. CASE \E f \in Flushers : flusher[f].pc # "none"
      <3>1. PICK f \in Flushers : flusher[f].pc # "none"
        BY <2>3
      <3>2. \A g \in Flushers \ {f} : flusher[g].pc = "none"
        BY <3>1 DEF FlusherInv, OneFlusher, Active
      <3>3. c = flusher[f].stream \o Bytes(flusher[f].batch)
        BY <3>1, <3>2, CarriedBy
      <3> QED BY <2>1, <3>3, ConcatProperties
    <2> QED BY <2>2, <2>3
  <1>2. status = "up" => Bytes(history) = pipe
    BY PipeIs DEF FileInv
  <1> HIDE DEF c
  <1>3. IsPrefix(file, pipe) /\ pipe \in Seq(Halves)
    BY <1>0, <1>1, PipeMoves
  <1>4. status \in {"up", "down", "panicked"} /\ IsPrefix(file, Bytes(history))
    BY <1>2, <1>3 DEF TypeOK, FileInv
  <1>5. CASE potty_feed
    <2>1. /\ status = "up" /\ fed + 1 \in Mutations /\ history' = Append(history, fed + 1)
          /\ sewer' = Append(sewer, fed + 1) /\ status' = "up"
          /\ UNCHANGED <<flusher, file, flush_jobs, waste>>
      BY <1>5, PottyAssumption DEF potty_feed, TypeOK, Mutations, workers, disk
    <2> DEFINE x == fed + 1
               y == <<x>>
    <2>2. Append(history, x) = history \o y /\ Append(sewer, x) = sewer \o y /\ y \in Seq(Mutations)
      BY <1>0, <2>1, AppendIsConcat
    <2> HIDE DEF y
    <2>3. Bytes(history') = Bytes(history) \o Bytes(y)
      BY <1>0, <2>1, <2>2, BytesFacts
    <2>4. Pipe(file, c, flush_jobs, waste, sewer \o y) = pipe \o Bytes(y)
      <3>1. PipeTypes(file, c, flush_jobs, waste, sewer, y)
        BY <1>0, <1>1, <2>2 DEF PipeTypes
      <3> QED BY <3>1, PipeFeed
    <2>5. Bytes(history') = Pipe(file', Carried(flusher'), flush_jobs', waste', sewer')
      BY <1>2, <2>1, <2>2, <2>3, <2>4 DEF c
    <2> QED BY <2>1, <2>5, PipeIs DEF FileInv
  <1>6. CASE PumpConsume
    <2>1. /\ status = "up" /\ sewer # <<>> /\ waste' = Append(waste, Head(sewer)) /\ sewer' = Tail(sewer)
          /\ UNCHANGED <<status, history, flusher, file, flush_jobs>>
      BY <1>6 DEF PumpConsume, workers, disk, meta
    <2>2. Pipe(file, c, flush_jobs, Append(waste, Head(sewer)), Tail(sewer)) = pipe
      BY <1>0, <1>1, <2>1, PipeMoves
    <2>3. Bytes(history') = Pipe(file', Carried(flusher'), flush_jobs', waste', sewer')
      BY <1>2, <2>1, <2>2 DEF c
    <2> QED BY <2>1, <2>3, PipeIs DEF FileInv
  <1>7. CASE PumpDecide
    <2>1. status = "up" /\ UNCHANGED <<status, history, file, sewer>>
      BY <1>7 DEF PumpDecide, meta, disk
    <2>2. CASE UNCHANGED <<waste, workers>>
      BY <1>2, <2>1, <2>2, PipeIs DEF FileInv, workers, c
    <2>3. CASE waste # <<>> /\ should_flush
      <3>1. flush_jobs' = Append(flush_jobs, waste) /\ waste' = <<>>
        BY <1>7, <2>3 DEF PumpDecide, potty_flush
      <3>2. Carried(flusher') = c
        <4>1. CASE UNCHANGED flusher
          BY <4>1 DEF c
        <4>2. CASE ~flusher_running /\ StartFlusher /\ ~UNCHANGED flusher
          <5>1. PICK f \in Flushers : flusher' = [flusher EXCEPT ![f] = AtGrab]
            BY <4>2 DEF StartFlusher
          <5>2. \A g \in Flushers : flusher[g].pc = "none"
            BY <4>2 DEF FlusherInv, OneFlusher, Active
          <5>3. flusher'[f] = AtGrab /\ \A g \in Flushers \ {f} : flusher'[g].pc = "none"
            BY <5>1, <5>2 DEF TypeOK
          <5> DEFINE fl == flusher'
          <5>4. /\ fl[f].pc # "none" /\ fl[f].stream = <<>> /\ fl[f].batch = <<>>
                /\ \A g \in Flushers \ {f} : fl[g].pc = "none"
            BY <5>3, FlusherTypes, WritingIs
          <5> HIDE DEF fl
          <5>5. Carried(fl) = <<>> \o Bytes(<<>>)
            BY <5>4, CarriedBy
          <5>6. c = <<>>
            BY <5>2, CarriedBy DEF c
          <5> QED BY <5>5, <5>6, BytesFacts DEF fl
        <4> QED BY <1>7, <2>3, <4>1, <4>2 DEF PumpDecide, potty_flush
      <3>3. Pipe(file, c, Append(flush_jobs, waste), <<>>, sewer) = pipe
        BY <1>0, <1>1, PipeMoves
      <3>4. Bytes(history') = Pipe(file', Carried(flusher'), flush_jobs', waste', sewer')
        BY <1>2, <2>1, <3>1, <3>2, <3>3
      <3> QED BY <2>1, <3>4, PipeIs DEF FileInv
    <2> QED BY <1>7, <2>2, <2>3 DEF PumpDecide, potty_flush
  <1>8. CASE \E f \in Flushers : potty_drain(f)
    <2>1. PICK f \in Flushers : potty_drain(f)
      BY <1>8
    <2>2. status = "up" /\ UNCHANGED <<status, history, waste, sewer>>
      BY <2>1, DrainAt DEF potty_drain, DrainGrab, SerializeMutation, Fsync, Fclose, queues, meta
    <2>3. Pipe(file', Carried(flusher'), flush_jobs', waste, sewer) = pipe
      BY <2>1, DrainPipe DEF c
    <2>4. Bytes(history') = Pipe(file', Carried(flusher'), flush_jobs', waste', sewer')
      BY <1>2, <2>2, <2>3
    <2> QED BY <2>2, <2>4, PipeIs DEF FileInv
  <1>9. CASE Kill
    <2>1. status' = "down" /\ UNCHANGED <<history, file>>
      BY <1>9 DEF Kill, LoseMemory, disk
    <2> QED BY <1>4, <2>1 DEF FileInv, PipelineIntact
  <1>10. CASE PowerLoss
    <2>1. status' = "down" /\ UNCHANGED history
      BY <1>10 DEF PowerLoss, LoseMemory
    <2>2. PICK n \in Len(durable) .. Len(file) : file' = SubSeq(file, 1, n)
      BY <1>10 DEF PowerLoss
    <2>3. n \in 0 .. Len(file)
      BY <1>0, <2>2 DEF TypeOK
    <2>4. IsPrefix(SubSeq(file, 1, n), Bytes(history))
      <3> DEFINE b == Bytes(history)
      <3>1. b \in Seq(Halves) /\ IsPrefix(file, b)
        BY <1>0, <1>4, BytesFacts
      <3> HIDE DEF b
      <3>2. IsPrefix(SubSeq(file, 1, n), b)
        BY <1>0, <2>3, <3>1, CutPrefix
      <3> QED BY <3>2 DEF b
    <2> QED BY <2>1, <2>2, <2>4 DEF FileInv, PipelineIntact
  <1>11. CASE Restart
    <2>1. CASE Len(file) % 2 = 0 /\ status' = "up" /\ history' = Records(file)
      <3>1. status = "down" /\ UNCHANGED <<file, flusher, flush_jobs, waste, sewer>>
        BY <1>11, <2>1 DEF Restart, queues, workers, disk
      <3>2. Bytes(Records(file)) = file
        BY <1>0, <1>4, <2>1, RecordsFacts
      <3>3. c = <<>> /\ flush_jobs = <<>> /\ waste = <<>> /\ sewer = <<>>
        BY <3>1, CarriedBy DEF StoppedInv, c
      <3>4. Pipe(file, <<>>, <<>>, <<>>, <<>>) = file
        BY <1>0, <1>1, PipeMoves
      <3>5. Bytes(history') = Pipe(file', Carried(flusher'), flush_jobs', waste', sewer')
        BY <2>1, <3>1, <3>2, <3>3, <3>4 DEF c
      <3> QED BY <2>1, <3>5, PipeIs DEF FileInv
    <2>2. CASE status' = "panicked" /\ UNCHANGED history
      <3>1. UNCHANGED file
        BY <1>11 DEF Restart, disk
      <3> QED BY <1>4, <2>2, <3>1 DEF FileInv, PipelineIntact
    <2> QED BY <1>11, <2>1, <2>2 DEF Restart
  <1>12. CASE PumpWait \/ PumpTimeout \/ TimePasses
    <2>1. UNCHANGED <<status, history, file, flusher, flush_jobs, waste, sewer>>
      BY <1>12 DEF PumpWait, PumpTimeout, TimePasses, workers, disk, meta
    <2> QED BY <2>1, PipeIs DEF FileInv
  <1>13. CASE UNCHANGED vars
    <2>1. UNCHANGED <<status, history, file, flusher, flush_jobs, waste, sewer>>
      BY <1>13 DEF vars, queues, workers, disk, meta
    <2> QED BY <2>1, PipeIs DEF FileInv
  <1> QED BY <1>5, <1>6, <1>7, <1>8, <1>9, <1>10, <1>11, <1>12, <1>13 DEF Next, potty_pump

(* perform_flush counts a batch as flushed only when the file has grown by *)
(* all of it.                                                              *)
LEMMA FlushedStep ==
  ASSUME TypeOK, FlusherInv, StoppedInv, StreamInv, FlushedInv, ~dropped, ~dropped', [Next]_vars
  PROVE  FlushedInv'
  <1>0. /\ flusher \in [Flushers -> FlusherStates] /\ file \in Seq(Halves) /\ flushed \in Nat
        /\ flush_jobs \in Seq(Seq(Mutations)) /\ Len(file) \in Nat
    BY DEF TypeOK
  <1>1. CASE UNCHANGED <<file, flushed, flusher>>
    BY <1>1 DEF FlushedInv, FlushedIsInFile
  <1>2. CASE PumpDecide
    <2>1. UNCHANGED <<file, flushed>>
      BY <1>2 DEF PumpDecide, disk
    <2>2. CASE \E f \in Flushers : flusher' = [flusher EXCEPT ![f] = AtGrab]
      BY <1>0, <2>1, <2>2, FlusherTypes DEF FlushedInv, FlushedIsInFile
    <2> QED BY <1>1, <1>2, <2>1, <2>2 DEF PumpDecide, potty_flush, StartFlusher, workers
  <1>3. CASE \E f \in Flushers : potty_drain(f)
    <2>1. PICK f \in Flushers : potty_drain(f)
      BY <1>3
    <2> DEFINE stream == flusher[f].stream
               batch == flusher[f].batch
               size == flusher[f].size
               fl == flusher'
    <2>2. /\ stream \in Seq(Halves) /\ batch \in Seq(Mutations) /\ size \in Nat
          /\ Len(stream) \in Nat /\ Len(batch) \in Nat
      BY <1>0 DEF FlusherStates
    <2>3. \A g \in Flushers \ {f} : fl[g].pc = "none"
      BY <2>1, DrainAt DEF FlusherInv, OneFlusher, Active
    <2>4. SUFFICES /\ 2 * flushed' <= Len(file')
                   /\ fl[f].pc \in {"write", "close"} =>
                        2 * (flushed' + fl[f].size)
                          <= Len(file') + Len(fl[f].stream) + 2 * Len(fl[f].batch)
      BY <2>3 DEF FlushedInv, FlushedIsInFile
    <2>5. /\ 2 * flushed <= Len(file)
          /\ flusher[f].pc \in {"write", "close"} =>
               2 * (flushed + size) <= Len(file) + Len(stream) + 2 * Len(batch)
      BY DEF FlushedInv, FlushedIsInFile
    <2>6. CASE DrainGrab(f)
      <3>1. UNCHANGED <<file, flushed>>
        BY <2>6 DEF DrainGrab, disk
      <3>2. CASE flush_jobs = <<>>
        BY <1>0, <2>5, <2>6, <3>1, <3>2, FlusherTypes DEF DrainGrab
      <3>3. CASE flush_jobs # <<>>
        <4> DEFINE job == Head(flush_jobs)
        <4>1. fl[f] = Writing(job)
          BY <1>0, <2>6, <3>3 DEF DrainGrab
        <4>2. job \in Seq(Mutations)
          BY <1>0, <3>3, SeqTypes
        <4>3. fl[f].size = Len(job) /\ fl[f].batch = job /\ Len(fl[f].stream) = 0 /\ Len(job) \in Nat
          BY <4>1, <4>2, WritingIs
        <4> QED BY <1>0, <2>5, <3>1, <4>3
      <3> QED BY <3>2, <3>3
    <2>7. CASE SerializeMutation(f)
      <3> DEFINE r == Bytes(<<Head(batch)>>)
                 all == stream \o r
      <3>1. batch # <<>> /\ flusher[f].pc = "write" /\ UNCHANGED flushed
        BY <2>7 DEF SerializeMutation
      <3>2. PICK n \in 0 .. Len(all) :
              /\ file' = file \o SubSeq(all, 1, n)
              /\ flusher' = [flusher EXCEPT
                   ![f].batch = Tail(@), ![f].stream = SubSeq(all, n + 1, Len(all))]
        BY <2>7 DEF SerializeMutation
      <3>3. r \in Seq(Halves) /\ Len(r) = 2
        <4>1. <<Head(batch)>> \in Seq(Mutations) /\ Len(<<Head(batch)>>) = 1
          BY <2>2, <3>1, SeqTypes
        <4> DEFINE y == <<Head(batch)>>
        <4>2. y \in Seq(Mutations) /\ Len(y) = 1
          BY <4>1
        <4> HIDE DEF y
        <4>3. Bytes(y) \in Seq(Halves) /\ Len(Bytes(y)) = 2 * Len(y)
          BY <4>2, BytesFacts
        <4>4. Len(Bytes(y)) = 2
          BY <4>2, <4>3
        <4> QED BY <4>3, <4>4 DEF y
      <3> HIDE DEF r
      <3>4. all \in Seq(Halves) /\ Len(all) = Len(stream) + 2
        <4> HIDE DEF stream
        <4>1. all \in Seq(Halves) /\ Len(all) = Len(stream) + Len(r)
          BY <2>2, <3>3, ConcatProperties
        <4> QED BY <3>3, <4>1
      <3>5. fl[f].size = size /\ fl[f].batch = Tail(batch) /\ fl[f].stream = SubSeq(all, n + 1, Len(all))
        BY <1>0, <3>2 DEF FlusherStates
      <3> HIDE DEF all, fl
      <3>6. Len(Tail(batch)) = Len(batch) - 1
        BY <2>2, <3>1, HeadTailProperties
      <3>7. /\ SubSeq(all, 1, n) \in Seq(Halves) /\ Len(SubSeq(all, 1, n)) = n
            /\ Len(SubSeq(all, n + 1, Len(all))) = Len(all) - n
        <4>1. Len(all) \in Nat /\ 1 \in 1 .. Len(all) + 1 /\ n + 1 \in 1 .. Len(all) + 1
          BY <2>2, <3>4
        <4>2. SubSeq(all, 1, n) \in Seq(Halves) /\ Len(SubSeq(all, 1, n)) = n
          BY <3>4, <4>1
        <4>3. Len(SubSeq(all, n + 1, Len(all))) = IF n + 1 <= Len(all) THEN Len(all) - (n + 1) + 1 ELSE 0
          BY <3>4, <4>1, SubSeqProperties
        <4> QED BY <4>1, <4>2, <4>3
      <3>8. Len(file') = Len(file) + n
        BY <1>0, <3>2, <3>7, ConcatProperties
      <3> HIDE DEF stream, batch, size
      <3>9. Len(fl[f].stream) = Len(stream) + 2 - n /\ Len(fl[f].batch) = Len(batch) - 1
        BY <3>4, <3>5, <3>6, <3>7
      <3>10. n \in Nat
        BY <2>2, <3>4
      <3>11. 2 * (flushed + size) <= Len(file) + Len(stream) + 2 * Len(batch) /\ flushed' = flushed
        BY <2>5, <3>1
      <3>12. Len(file') + Len(fl[f].stream) + 2 * Len(fl[f].batch)
               = Len(file) + Len(stream) + 2 * Len(batch)
        BY <1>0, <2>2, <3>8, <3>9, <3>10
      <3>13. 2 * flushed <= Len(file')
        BY <1>0, <2>5, <3>8, <3>10
      <3> QED BY <3>5, <3>11, <3>12, <3>13
    <2>8. CASE Fsync(f)
      <3>1. /\ flusher[f].pc = "write" /\ fl[f].size = size /\ fl[f].batch = batch /\ fl[f].stream = stream
            /\ UNCHANGED <<file, flushed>>
        BY <1>0, <2>8 DEF Fsync, FlusherStates
      <3> QED BY <2>5, <3>1
    <2>9. CASE Fclose(f)
      <3>1. /\ file' = file \o stream /\ fl[f].pc = "grab" /\ batch = <<>> /\ flusher[f].pc = "close"
            /\ flushed' = flushed + size
        BY <1>0, <2>9, FlusherTypes DEF Fclose, StreamInv
      <3>2. Len(file') = Len(file) + Len(stream)
        BY <1>0, <2>2, <3>1, ConcatProperties
      <3>3. Len(batch) = 0
        BY <3>1
      <3> QED BY <1>0, <2>2, <2>5, <3>1, <3>2, <3>3
    <2> QED BY <2>1, <2>6, <2>7, <2>8, <2>9 DEF potty_drain
  <1>4. CASE Kill \/ PowerLoss
    <2>1. \A f \in Flushers : flusher'[f].pc = "none"
      BY <1>4, FlusherTypes DEF Kill, PowerLoss, LoseMemory
    <2>2. 2 * flushed' <= Len(file')
      <3>1. CASE Kill
        BY <3>1 DEF Kill, disk, FlushedInv, FlushedIsInFile
      <3>2. CASE PowerLoss
        <4>1. PICK n \in Len(durable) .. Len(file) :
                /\ file' = SubSeq(file, 1, n)
                /\ flushed' = IF 2 * flushed <= n THEN flushed ELSE n \div 2
          BY <3>2 DEF PowerLoss
        <4>2. n \in 0 .. Len(file)
          BY SeqTypes DEF TypeOK
        <4>3. Len(file') = n
          BY <1>0, <4>1, <4>2
        <4> QED BY <1>0, <4>1, <4>2, <4>3
      <3> QED BY <1>4, <3>1, <3>2
    <2> QED BY <2>1, <2>2 DEF FlushedInv, FlushedIsInFile
  <1>5. CASE potty_feed \/ PumpConsume \/ PumpWait \/ PumpTimeout \/ TimePasses \/ Restart
    BY <1>1, <1>5 DEF potty_feed, PumpConsume, PumpWait, PumpTimeout, TimePasses, Restart, workers, disk
  <1>6. CASE UNCHANGED vars
    BY <1>1, <1>6 DEF vars, workers, disk
  <1> QED BY <1>2, <1>3, <1>4, <1>5, <1>6 DEF Next, potty_pump

(* The pipe is empty at first. *)
LEMMA InitPipeInv == Init => PipeInv
  <1> SUFFICES ASSUME Init PROVE PipeInv
    OBVIOUS
  <1>1. StoppedInv /\ StreamInv
    BY FlusherTypes, WritingIs DEF Init, StoppedInv, StreamInv
  <1>2. FlushedInv
    <2>1. \A f \in Flushers : flusher[f].pc = "none"
      BY FlusherTypes DEF Init
    <2>2. Len(file) = 0 /\ flushed = 0
      BY DEF Init
    <2>3. FlushedIsInFile
      BY <2>2 DEF FlushedIsInFile
    <2> QED BY <2>1, <2>3 DEF FlushedInv
  <1>3. FileInv
    <2>1. Carried(flusher) = <<>>
      BY CarriedBy, FlusherTypes DEF Init
    <2>2. Pipe(<<>>, <<>>, <<>>, <<>>, <<>>) = <<>>
      <3>1. <<>> \in Seq(Halves) /\ <<>> \in Seq(Seq(Mutations)) /\ <<>> \in Seq(Mutations)
        BY SeqTypes
      <3> QED BY <3>1, PipeMoves
    <2>3. Bytes(history) = Pipe(file, Carried(flusher), flush_jobs, waste, sewer)
      BY <2>1, <2>2, BytesFacts DEF Init
    <2> QED BY <2>3, PipeIs DEF Init, FileInv
  <1> QED BY <1>1, <1>2, <1>3 DEF PipeInv

(* What an fclose dropped stays dropped. *)
LEMMA StaysDropped ==
  ASSUME TypeOK, [Next]_vars
  PROVE  dropped => dropped'
  <1>1. CASE \E f \in Flushers : potty_drain(f)
    BY <1>1, DrainAt
  <1>2. CASE UNCHANGED dropped
    BY <1>2
  <1> QED BY <1>1, <1>2 DEF Next, potty_feed, potty_pump, PumpConsume, PumpWait, PumpTimeout, PumpDecide,
                            TimePasses, Kill, PowerLoss, Restart, vars, disk

(* Every step preserves these invariants. *)
LEMMA PipeStep == IInv /\ PipeInv /\ [Next]_vars => PipeInv'
  <1> SUFFICES ASSUME IInv, PipeInv, [Next]_vars PROVE PipeInv'
    OBVIOUS
  <1>1. TypeOK /\ FlusherInv /\ DurableInv /\ TypeOK'
    BY NextIInv DEF IInv
  <1>2. StoppedInv' /\ StreamInv'
    BY <1>1, StopStream DEF PipeInv
  <1>3. ~dropped' => FileInv' /\ FlushedInv'
    BY <1>1, <1>2, StaysDropped, FileStep, FlushedStep DEF PipeInv
  <1> QED BY <1>2, <1>3 DEF PipeInv

-----------------------------------------------------------------------------
(* The invariant holds in every state of every execution. *)
THEOREM PottyInvariant == Spec => []IInv
  BY InitIInv, NextIInv, PTL DEF Spec

(* Queues, threads and file stay in their types; the sewer never holds     *)
(* more than its capacity.                                                 *)
THEOREM PottyTypeOK == Spec => []TypeOK
  <1>1. IInv => TypeOK
    BY DEF IInv
  <1> QED BY <1>1, PottyInvariant, PTL

(* At most one flusher exists, whatever crashes and whatever system call   *)
(* fails, and the flag is up while it does.                                *)
THEOREM PottyOneFlusher == Spec => []OneFlusher
  <1>1. IInv => OneFlusher
    BY DEF IInv, FlusherInv
  <1> QED BY <1>1, PottyInvariant, PTL

(* Unless a pthread_create of this process has failed, a queued flush job  *)
(* always has a flusher that will look at the queue again.                 *)
THEOREM PottyNoStrandedJob == Spec => []NoStrandedJob
  <1>1. IInv => NoStrandedJob
    BY DEF IInv, FlusherInv, RunningMeansActive, NoStrandedJob
  <1> QED BY <1>1, PottyInvariant, PTL

(* data.aof and its synced part are only ever appended to, short of a      *)
(* crash, also when writes come up short.                                  *)
THEOREM PottyAppendOnly == Spec => AppendOnly
  <1>1. IInv /\ [Next]_vars =>
          [status' = "up" => IsPrefix(file, file') /\ IsPrefix(durable, durable')]_vars
    BY DiskStep DEF IInv
  <1> QED BY <1>1, PottyInvariant, PTL DEF Spec, AppendOnly

(* The invariant of the pipe holds in every state of every execution. *)
THEOREM PottyPipeInvariant == Spec => []PipeInv
  BY PottyInvariant, InitPipeInv, PipeStep, PTL DEF Spec

(* Unless an fclose wrote less than it had to, the file, the stream, the   *)
(* batch, the jobs, the waste and the sewer are at every moment exactly    *)
(* the mutations the store is made of, in order, whatever crashes and      *)
(* restarts came before.                                                   *)
THEOREM PottyPipelineIntact == Spec => []PipelineIntact
  <1>1. PipeInv => PipelineIntact
    BY DEF PipeInv, FileInv, PipelineIntact
  <1> QED BY <1>1, PottyPipeInvariant, PTL

(* Unless an fclose wrote less than it had to, a batch perform_flush is    *)
(* done with is in the file as the kernel has it.                          *)
THEOREM PottyFlushedIsInFile == Spec => []FlushedIsInFile
  <1>1. PipeInv => FlushedIsInFile
    BY DEF PipeInv, FlushedInv, FlushedIsInFile
  <1> QED BY <1>1, PottyPipeInvariant, PTL

(* Unless an fclose wrote less than it had to, a restart makes the store   *)
(* of a prefix of what it was made of before the crash, wherever a power   *)
(* loss cut.                                                               *)
THEOREM PottyRestartRestoresPrefix == Spec => RestartRestoresPrefix
  <1>1. IInv /\ PipeInv /\ [Next]_vars =>
          [status = "down" /\ status' = "up" /\ ~dropped => IsPrefix(history', history)]_vars
    <2> SUFFICES ASSUME IInv, PipeInv, Next, status = "down", status' = "up", ~dropped
                 PROVE  IsPrefix(history', history)
      OBVIOUS
    <2>1. Restart
      BY DEF Next, potty_feed, potty_pump, PumpConsume, PumpWait, PumpTimeout, PumpDecide, TimePasses,
             potty_drain, DrainGrab, SerializeMutation, Fsync, Fclose, Kill, PowerLoss, LoseMemory
    <2>2. history' = Records(file) /\ Len(file) % 2 = 0
      BY <2>1 DEF Restart
    <2>3. file \in Seq(Halves) /\ history \in Seq(Mutations) /\ IsPrefix(file, Bytes(history))
      BY DEF IInv, TypeOK, PipeInv, FileInv
    <2> QED BY <2>2, <2>3, RecordsFacts
  <1> QED BY <1>1, PottyInvariant, PottyPipeInvariant, PTL DEF Spec, RestartRestoresPrefix
=============================================================================
