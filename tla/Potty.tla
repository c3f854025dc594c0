------------------------------- MODULE Potty -------------------------------
(***************************************************************************)
(* The persistence actor (potty/*.c): mutations fed by the tank travel     *)
(* through the potty's sewer into the waste, in batches into the flush     *)
(* jobs, and from there by a flusher thread that exists only while there   *)
(* is work into data.aof.  The process may be killed and the machine may   *)
(* lose power at any point; the next start replays the file.               *)
(*                                                                         *)
(* A mutation is a number, counted up as the tank feeds them; its record   *)
(* in the file is two halves, so that a write can end inside a record.     *)
(***************************************************************************)
EXTENDS Integers, Sequences, SequencesExt

CONSTANTS
  Flushers,       \* identities for the threads running potty_drain
  SewerCap,       \* capacity of the potty's sewer
  Threshold,      \* FLUSH_ITEMS_THRESHOLD
  MaxFeeds,       \* bound: mutations fed altogether
  MaxCrashes      \* bound: kills and power losses altogether

ASSUME PottyAssumption ==
  /\ SewerCap \in Nat \ {0}
  /\ Threshold \in Nat \ {0}
  /\ MaxFeeds \in Nat
  /\ MaxCrashes \in Nat

VARIABLES
  history,          \* the mutations the store is made of: replayed, then fed
  sewer,            \* potty->sewer
  pump,             \* where the potty's thread is in potty_pump
  waste,            \* potty->waste
  flush_due,        \* last_flush_ts + FLUSH_TIMEOUT < now
  flush_jobs,       \* potty->flush_jobs
  flusher_running,  \* potty->flusher_running
  flusher,          \* the threads running potty_drain
  unmanned,         \* whether a pthread_create of this process has failed
  file,             \* data.aof as the kernel has it
  durable,          \* the part of it known to be on stable storage
  flushed,          \* how many mutations perform_flush has finished with
  dropped,          \* whether an fclose ever wrote less than its stream held
  status,           \* the process: "up", "down", or "panicked" at its start
  fed, crashes      \* counters for the bounds

queues  == <<sewer, pump, waste, flush_due>>
workers == <<flush_jobs, flusher_running, flusher, unmanned>>
disk    == <<file, durable, flushed, dropped>>
meta    == <<status, fed, crashes>>
vars    == <<history, queues, workers, disk, meta>>

Mutations == 1 .. MaxFeeds

(* The records of the mutations in s: potty_serialize_mutation *)
Bytes(s) == [i \in 1 .. 2 * Len(s) |-> <<s[(i + 1) \div 2], i % 2>>]

(* What potty_parser_read makes of the records, when they are complete *)
Records(bytes) == [i \in 1 .. Len(bytes) \div 2 |-> bytes[2 * i][1]]

NoFlusher == [pc |-> "none", size |-> 0, batch |-> <<>>, stream |-> <<>>]
AtGrab    == [NoFlusher EXCEPT !.pc = "grab"]

(* potty_create, after an empty or absent file was replayed *)
Init ==
  /\ history = <<>>
  /\ sewer = <<>> /\ pump = "consume" /\ waste = <<>> /\ flush_due = FALSE
  /\ flush_jobs = <<>> /\ flusher_running = FALSE
  /\ flusher = [f \in Flushers |-> NoFlusher] /\ unmanned = FALSE
  /\ file = <<>> /\ durable = <<>> /\ flushed = 0 /\ dropped = FALSE
  /\ status = "up" /\ fed = 0 /\ crashes = 0

(***************************************************************************)
(* The tank applies a mutation and feeds it; sewer_send blocks when full.  *)
(***************************************************************************)
FeedWithoutBlocking ==
  /\ status = "up"
  /\ fed < MaxFeeds
  /\ fed' = fed + 1
  /\ history' = Append(history, fed + 1)
  /\ sewer' = Append(sewer, fed + 1)
  /\ UNCHANGED <<pump, waste, flush_due, workers, disk, status, crashes>>

potty_feed ==
  /\ status = "up"
  /\ fed < MaxFeeds
  /\ Len(sewer) < SewerCap
  /\ fed' = fed + 1
  /\ history' = Append(history, fed + 1)
  /\ sewer' = Append(sewer, fed + 1)
  /\ UNCHANGED <<pump, waste, flush_due, workers, disk, status, crashes>>

(***************************************************************************)
(* potty_pump.  After a timeout NULL is returned whatever the sewer holds. *)
(***************************************************************************)
PumpConsume ==
  /\ status = "up"
  /\ pump \in {"consume", "wait"}
  /\ sewer # <<>>
  /\ waste' = Append(waste, Head(sewer))
  /\ sewer' = Tail(sewer)
  /\ pump' = "decide"
  /\ UNCHANGED <<history, flush_due, workers, disk, meta>>

PumpWait ==
  /\ status = "up"
  /\ pump = "consume"
  /\ sewer = <<>>
  /\ pump' = "wait"
  /\ UNCHANGED <<history, sewer, waste, flush_due, workers, disk, meta>>

PumpTimeout ==
  /\ status = "up"
  /\ pump = "wait"
  /\ pump' = "decide"
  /\ UNCHANGED <<history, sewer, waste, flush_due, workers, disk, meta>>

(* FLUSH_TIMEOUT passes since the last flush. *)
TimePasses ==
  /\ status = "up"
  /\ ~flush_due
  /\ flush_due' = TRUE
  /\ UNCHANGED <<history, sewer, pump, waste, workers, disk, meta>>

ShouldFlushWhenFull == Len(waste) >= Threshold

should_flush == Len(waste) >= Threshold \/ flush_due

(* The result of pthread_create is not looked at. *)
StartFlusher ==
  /\ flusher_running' = TRUE
  /\ \/ \E f \in Flushers :
          /\ flusher[f].pc = "none" /\ flusher' = [flusher EXCEPT ![f] = AtGrab]
          /\ UNCHANGED unmanned
     \/ unmanned' = TRUE /\ UNCHANGED flusher

FlushStartingAlways ==
  /\ flush_due' = FALSE
  /\ IF waste = <<>>
     THEN UNCHANGED <<waste, workers>>
     ELSE /\ flush_jobs' = Append(flush_jobs, waste)
          /\ waste' = <<>>
          /\ StartFlusher

potty_flush ==
  /\ flush_due' = FALSE
  /\ IF waste = <<>>
     THEN UNCHANGED <<waste, workers>>
     ELSE /\ flush_jobs' = Append(flush_jobs, waste)
          /\ waste' = <<>>
          /\ IF flusher_running
             THEN UNCHANGED <<flusher_running, flusher, unmanned>>
             ELSE StartFlusher

PumpDecide ==
  /\ status = "up"
  /\ pump = "decide"
  /\ pump' = "consume"
  /\ IF should_flush
     THEN potty_flush
     ELSE UNCHANGED <<waste, flush_due, workers>>
  /\ UNCHANGED <<history, sewer, disk, meta>>

(***************************************************************************)
(* potty_drain and perform_flush.  flusher_mutex makes grabbing a job, or  *)
(* finding none and leaving, one step.                                     *)
(***************************************************************************)
Writing(job) == [pc |-> "write", size |-> Len(job), batch |-> job, stream |-> <<>>]

DrainLeavingFlag(f) ==
  /\ status = "up"
  /\ flusher[f].pc = "grab"
  /\ IF flush_jobs = <<>>
     THEN flusher' = [flusher EXCEPT ![f] = NoFlusher] /\ UNCHANGED flush_jobs
     ELSE flusher' = [flusher EXCEPT ![f] = Writing(Head(flush_jobs))] /\ flush_jobs' = Tail(flush_jobs)
  /\ UNCHANGED <<flusher_running, unmanned, history, queues, disk, meta>>

DrainTakingLast(f) ==
  /\ status = "up"
  /\ flusher[f].pc = "grab"
  /\ IF flush_jobs = <<>>
     THEN flusher' = [flusher EXCEPT ![f] = NoFlusher] /\ UNCHANGED flush_jobs
     ELSE flusher' = [flusher EXCEPT ![f] = Writing(Last(flush_jobs))] /\ flush_jobs' = Front(flush_jobs)
  /\ flusher_running' = (flush_jobs # <<>>)
  /\ UNCHANGED <<unmanned, history, queues, disk, meta>>

DrainTruncating(f) ==
  /\ status = "up"
  /\ flusher[f].pc = "grab"
  /\ flush_jobs # <<>>
  /\ flusher' = [flusher EXCEPT ![f] = Writing(Head(flush_jobs))]
  /\ flush_jobs' = Tail(flush_jobs)
  /\ file' = <<>>
  /\ UNCHANGED <<flusher_running, unmanned, history, queues, durable, flushed, dropped, meta>>

DrainGrab(f) ==
  /\ status = "up"
  /\ flusher[f].pc = "grab"
  /\ \/ /\ flush_jobs = <<>>
        /\ flusher_running' = FALSE
        /\ flusher' = [flusher EXCEPT ![f] = NoFlusher]
        /\ UNCHANGED flush_jobs
     \/ /\ flush_jobs # <<>>
        /\ flush_jobs' = Tail(flush_jobs)
        /\ flusher' = [flusher EXCEPT ![f] = Writing(Head(flush_jobs))]
        /\ UNCHANGED flusher_running
  /\ UNCHANGED <<unmanned, history, queues, disk, meta>>

(* One record goes to the stdio stream, which hands the kernel as much of  *)
(* its buffer as it likes.                                                 *)
SerializeMutation(f) ==
  /\ status = "up"
  /\ flusher[f].pc = "write"
  /\ flusher[f].batch # <<>>
  /\ LET stream == flusher[f].stream \o Bytes(<<Head(flusher[f].batch)>>)
     IN  \E n \in 0 .. Len(stream) :
           /\ file' = file \o SubSeq(stream, 1, n)
           /\ flusher' = [flusher EXCEPT
                ![f].batch = Tail(@), ![f].stream = SubSeq(stream, n + 1, Len(stream))]
  /\ UNCHANGED <<history, queues, flush_jobs, flusher_running, unmanned, durable, flushed, dropped, meta>>

(* fsync acts on what the kernel has, not on what the stream still holds.  *)
Fsync(f) ==
  /\ status = "up"
  /\ flusher[f].pc = "write"
  /\ flusher[f].batch = <<>>
  /\ durable' = file
  /\ flusher' = [flusher EXCEPT ![f].pc = "close"]
  /\ UNCHANGED <<history, queues, flush_jobs, flusher_running, unmanned, file, flushed, dropped, meta>>

FcloseDroppingStream(f) ==
  /\ status = "up"
  /\ flusher[f].pc = "close"
  /\ UNCHANGED <<file, dropped>>
  /\ flushed' = flushed + flusher[f].size
  /\ flusher' = [flusher EXCEPT ![f] = AtGrab]
  /\ UNCHANGED <<history, queues, flush_jobs, flusher_running, unmanned, durable, meta>>

(* fclose writes the rest of the stream, or less of it when the disk is    *)
(* full; its result is not looked at.                                      *)
Fclose(f) ==
  /\ status = "up"
  /\ flusher[f].pc = "close"
  /\ \/ file' = file \o flusher[f].stream /\ UNCHANGED dropped
     \/ /\ \E n \in 0 .. Len(flusher[f].stream) - 1 :
             file' = file \o SubSeq(flusher[f].stream, 1, n)
        /\ dropped' = TRUE
  /\ flushed' = flushed + flusher[f].size
  /\ flusher' = [flusher EXCEPT ![f] = AtGrab]
  /\ UNCHANGED <<history, queues, flush_jobs, flusher_running, unmanned, durable, meta>>

(***************************************************************************)
(* Crashes and restarts.                                                   *)
(***************************************************************************)
LoseMemory ==
  /\ status' = "down"
  /\ crashes < MaxCrashes
  /\ crashes' = crashes + 1
  /\ sewer' = <<>> /\ pump' = "consume" /\ waste' = <<>> /\ flush_due' = FALSE
  /\ flush_jobs' = <<>> /\ flusher_running' = FALSE
  /\ flusher' = [f \in Flushers |-> NoFlusher] /\ unmanned' = FALSE
  /\ UNCHANGED <<history, fed>>

(* The process dies: a signal, a PANIC in some thread. *)
Kill ==
  /\ status = "up"
  /\ LoseMemory
  /\ UNCHANGED disk

(* The machine dies: what was not synced may be cut off anywhere. *)
PowerLoss ==
  /\ status \in {"up", "down"}
  /\ LoseMemory
  /\ \E n \in Len(durable) .. Len(file) :
       /\ file' = SubSeq(file, 1, n)
       /\ flushed' = IF 2 * flushed <= n THEN flushed ELSE n \div 2
  /\ UNCHANGED <<durable, dropped>>

(* potty_trainer_train: an incomplete last record is an unexpected EOF.    *)
(* A record that was cut and appended to is filled up from the next one,   *)
(* with which the parser may come to the end or fail.                      *)
Restart ==
  /\ status = "down"
  /\ \/ /\ Len(file) % 2 = 0
        /\ status' = "up"
        /\ history' = Records(file)
     \/ /\ file # Bytes(Records(file))
        /\ status' = "panicked"
        /\ UNCHANGED history
  /\ UNCHANGED <<queues, workers, disk, fed, crashes>>

potty_pump  == PumpConsume \/ PumpWait \/ PumpTimeout \/ PumpDecide
potty_drain(f) == DrainGrab(f) \/ SerializeMutation(f) \/ Fsync(f) \/ Fclose(f)

Next ==
  \/ potty_feed
  \/ potty_pump
  \/ TimePasses
  \/ \E f \in Flushers : potty_drain(f)
  \/ Kill
  \/ PowerLoss
  \/ Restart

(* Threads keep running and time keeps passing; nothing has to be fed, and *)
(* nothing has to crash.                                                   *)
Fairness ==
  /\ WF_vars(potty_pump)
  /\ WF_vars(TimePasses)
  /\ \A f \in Flushers : WF_vars(potty_drain(f))

Spec == Init /\ [][Next]_vars

FairSpec == Spec /\ Fairness

-----------------------------------------------------------------------------
Halves == Mutations \X {0, 1}

FlusherStates ==
  [pc : {"none", "grab", "write", "close"}, size : Nat,
   batch : Seq(Mutations), stream : Seq(Halves)]

TypeOK ==
  /\ history \in Seq(Mutations)
  /\ sewer \in Seq(Mutations) /\ Len(sewer) <= SewerCap
  /\ pump \in {"consume", "wait", "decide"}
  /\ waste \in Seq(Mutations)
  /\ flush_due \in BOOLEAN
  /\ flush_jobs \in Seq(Seq(Mutations))
  /\ flusher_running \in BOOLEAN
  /\ flusher \in [Flushers -> FlusherStates]
  /\ unmanned \in BOOLEAN
  /\ file \in Seq(Halves)
  /\ durable \in Seq(Halves)
  /\ flushed \in Nat
  /\ dropped \in BOOLEAN
  /\ status \in {"up", "down", "panicked"}
  /\ fed \in 0 .. MaxFeeds
  /\ crashes \in 0 .. MaxCrashes

Active == {f \in Flushers : flusher[f].pc # "none"}

(* Two flushers never run at once, and flusher_running is never FALSE      *)
(* while one runs: batches are appended to data.aof one at a time, also    *)
(* when a thread could not be created or the disk was full.                *)
OneFlusher ==
  /\ \A f, g \in Active : f = g
  /\ Active # {} => flusher_running

(* With the flag set and nobody behind it, the queued jobs would stay.     *)
RunningMeansActive == flusher_running => Active # {}

(* A queued flush job has a flusher that will look at the queue again,     *)
(* unless that could not be created: potty_flush sets the flag all the     *)
(* same, and then the log of this process stands still.                    *)
NoStrandedJob == flush_jobs # <<>> /\ ~unmanned => Active # {}

InFlight ==
  IF Active = {}
  THEN <<>>
  ELSE LET f == CHOOSE f \in Active : TRUE
       IN  flusher[f].stream \o Bytes(flusher[f].batch)

(* Nothing is lost, duplicated or reordered between the tank and the file: *)
(* file, stream, batch, jobs, waste and sewer, read in this order, are at  *)
(* every moment exactly the mutations the store is made of, as long as     *)
(* every fclose wrote what it had to.                                      *)
PipelineIntact ==
  status = "up" /\ ~dropped =>
    Bytes(history) = file \o InFlight \o Bytes(FlattenSeq(flush_jobs) \o waste \o sewer)

(* A batch that perform_flush is done with is in the file, where killing   *)
(* the process cannot reach it.  fclose has to write it all for that; when *)
(* it does not, nobody notices.                                            *)
FlushedIsInFile == ~dropped => 2 * flushed <= Len(file)

(* After a restart the store is made of a prefix of what it was made of    *)
(* before the crash: never of a later mutation without an earlier one, as  *)
(* long as every fclose wrote what it had to.                              *)
RestartRestoresPrefix ==
  [][status = "down" /\ status' = "up" /\ ~dropped => IsPrefix(history', history)]_vars

(* The file is only ever appended to, whatever fails, short of a crash.    *)
AppendOnly ==
  [][status' = "up" => IsPrefix(file, file') /\ IsPrefix(durable, durable')]_vars

(* The README on persistence: "fsync'd appends".  A batch perform_flush is *)
(* done with, and fclose has written, survives even the loss of power.     *)
PowerLossKeepsFlushed == [][~dropped => flushed' >= flushed]_vars

(* Every mutation the tank applies reaches the file, unless the process    *)
(* dies, a thread cannot be created or the disk is full; also the last     *)
(* one, after which nothing arrives any more.                              *)
EventuallyFlushed ==
  \A n \in 1 .. MaxFeeds :
    Len(history) >= n ~> (Len(file) >= 2 * n \/ status # "up" \/ unmanned \/ dropped)
=============================================================================
