------------------------------- MODULE Redic -------------------------------
(***************************************************************************)
(* The server as a whole: client threads (server.c), the tank's thread and *)
(* the potty's thread, joined by the two shared sewers and one single-use  *)
(* response sewer per request.  Sewers are the FIFOs of BoundedQueue.      *)
(*                                                                         *)
(* The result of an operation and the message that carries it live in the  *)
(* client's arena.  The tank goes on using them after the response is      *)
(* sent, while the client's thread answers, resets the arena and parses    *)
(* the next command into it.  Once the tank has touched memory that is no  *)
(* longer its own the process may die at any moment.                       *)
(*                                                                         *)
(* A command is <<client, number>>; what it does to the store is the       *)
(* business of SepticTank, here it only matters whether it mutates.        *)
(***************************************************************************)
EXTENDS Naturals, Sequences, SequencesExt

CONSTANTS
  Clients,
  Mutating,     \* the command numbers that resolve into a mutation
  MaxCommands,  \* bound: commands per client
  SepticCap,    \* capacity of septic_tank_sewer, 100 in the code
  PottyCap,     \* capacity of potty_sewer, 100 in the code
  Garbage       \* what is read from memory that was reused or freed

ASSUME RedicAssumption ==
  /\ MaxCommands \in Nat
  /\ Mutating \subseteq 1 .. MaxCommands
  /\ SepticCap \in Nat \ {0}
  /\ PottyCap \in Nat \ {0}

VARIABLES
  client,        \* per client: where its thread is
  number,        \* per client: commands read so far
  arena,         \* per client: the command whose data the arena holds, 0 once freed
  spoilt,        \* the commands the tank wrote into after they were parsed
  process,       \* "sound", "harmed" by touching memory reused or freed, "dead"
  replies,       \* per client: the commands answered, in order
  overtaken,     \* whether a client thread ever overtook the tank's digest
  septic_sewer,  \* server.septic_tank_sewer
  response,      \* per client: the response sewer of the pending request
  tank,          \* the tank's thread: where it is, and with which command
  potty_sewer,   \* server.potty_sewer
  applied,       \* the mutations applied to the store, in order
  logged         \* the mutations the potty has consumed, in order

clientVars == <<client, number, arena, replies, overtaken>>
memory == <<spoilt, process>>
vars == <<clientVars, septic_sewer, response, tank, potty_sewer, memory, applied, logged>>

Commands == Clients \X (1 .. MaxCommands)

Idle == [at |-> "consume", cmd |-> Garbage]

(* main: the accept loop starts after the log was replayed *)
Init ==
  /\ client = [c \in Clients |-> "read"]
  /\ number = [c \in Clients |-> 0]
  /\ arena = [c \in Clients |-> 0]
  /\ replies = [c \in Clients |-> <<>>]
  /\ overtaken = FALSE
  /\ septic_sewer = <<>>
  /\ response = [c \in Clients |-> <<>>]
  /\ tank = Idle
  /\ potty_sewer = <<>>
  /\ spoilt = {}
  /\ process = "sound"
  /\ applied = <<>>
  /\ logged = <<>>

Running == process # "dead"

(* The digest has answered c and still uses what it left in c's arena. *)
Digesting(c) == tank.at \in {"mark", "log"} /\ tank.cmd[1] = c

(***************************************************************************)
(* handle_client_socket, with septic_tank_feed inside process_command      *)
(***************************************************************************)
ReadCommand(c) ==
  /\ Running
  /\ client[c] = "read"
  /\ number[c] < MaxCommands
  /\ number' = [number EXCEPT ![c] = @ + 1]
  /\ arena' = [arena EXCEPT ![c] = number[c] + 1]
  /\ client' = [client EXCEPT ![c] = "send"]
  /\ overtaken' = (overtaken \/ Digesting(c))
  /\ UNCHANGED <<memory, replies, septic_sewer, response, tank, potty_sewer, applied, logged>>

FeedWithoutBlocking(c) ==
  /\ Running
  /\ client[c] = "send"
  /\ septic_sewer' = Append(septic_sewer, <<c, number[c]>>)
  /\ client' = [client EXCEPT ![c] = "await"]
  /\ UNCHANGED <<memory, number, arena, replies, overtaken, response, tank, potty_sewer, applied, logged>>

FeedTank(c) ==
  /\ Running
  /\ client[c] = "send"
  /\ Len(septic_sewer) < SepticCap
  /\ septic_sewer' = Append(septic_sewer, <<c, number[c]>>)
  /\ client' = [client EXCEPT ![c] = "await"]
  /\ UNCHANGED <<memory, number, arena, replies, overtaken, response, tank, potty_sewer, applied, logged>>

AnswerEarly(c) ==
  /\ Running
  /\ client[c] = "await"
  /\ replies' = [replies EXCEPT ![c] = Append(@, number[c])]
  /\ client' = [client EXCEPT ![c] = "read"]
  /\ UNCHANGED <<memory, number, arena, overtaken, response, septic_sewer, tank, potty_sewer, applied, logged>>

AnswerKeepingResponse(c) ==
  /\ Running
  /\ client[c] = "await"
  /\ response[c] # <<>>
  /\ replies' = [replies EXCEPT ![c] = Append(@, Head(response[c]))]
  /\ client' = [client EXCEPT ![c] = "read"]
  /\ UNCHANGED <<memory, number, arena, overtaken, response, septic_sewer, tank, potty_sewer, applied, logged>>

(* The response arrives; it is written to the socket and the arena reset,  *)
(* which leaves the memory as it is.                                       *)
Answer(c) ==
  /\ Running
  /\ client[c] = "await"
  /\ response[c] # <<>>
  /\ response' = [response EXCEPT ![c] = Tail(@)]
  /\ replies' = [replies EXCEPT ![c] = Append(@, Head(response[c]))]
  /\ client' = [client EXCEPT ![c] = "read"]
  /\ UNCHANGED <<memory, number, arena, overtaken, septic_sewer, tank, potty_sewer, applied, logged>>

Disconnect(c) ==
  /\ Running
  /\ client[c] = "read"
  /\ client' = [client EXCEPT ![c] = "closed"]
  /\ arena' = [arena EXCEPT ![c] = 0]
  /\ overtaken' = (overtaken \/ Digesting(c))
  /\ UNCHANGED <<memory, number, replies, septic_sewer, response, tank, potty_sewer, applied, logged>>

(***************************************************************************)
(* septic_tank_pump and septic_tank_digest                                 *)
(***************************************************************************)
IsMutation(cmd) == cmd[2] \in Mutating

TankConsume ==
  /\ Running
  /\ tank.at = "consume"
  /\ septic_sewer # <<>>
  /\ septic_sewer' = Tail(septic_sewer)
  /\ tank' = [at |-> "respond", cmd |-> Head(septic_sewer)]
  /\ applied' = IF IsMutation(Head(septic_sewer))
                THEN Append(applied, Head(septic_sewer)) ELSE applied
  /\ UNCHANGED <<memory, clientVars, response, potty_sewer, logged>>

RespondToMutationsOnly ==
  /\ Running
  /\ tank.at = "respond"
  /\ response' = IF IsMutation(tank.cmd)
                 THEN [response EXCEPT ![tank.cmd[1]] = Append(@, tank.cmd[2])] ELSE response
  /\ tank' = [tank EXCEPT !.at = "mark"]
  /\ UNCHANGED <<memory, clientVars, septic_sewer, potty_sewer, applied, logged>>

(* The response sewer has room for one message and carries only this one.  *)
TankRespond ==
  /\ Running
  /\ tank.at = "respond"
  /\ response[tank.cmd[1]] = <<>>
  /\ response' = [response EXCEPT ![tank.cmd[1]] = Append(@, tank.cmd[2])]
  /\ tank' = [tank EXCEPT !.at = "mark"]
  /\ UNCHANGED <<memory, clientVars, septic_sewer, potty_sewer, applied, logged>>

(* The digest of cmd reads or writes what it left in the client's arena,   *)
(* where the next command may have been parsed, or which may be freed.     *)
Touch(cmd) == process' = IF arena[cmd[1]] = cmd[2] THEN process ELSE "harmed"

(* response_message->is_consumed = true.  The message may by now be part   *)
(* of a command that the client has parsed and not yet cloned.             *)
Mark(cmd) ==
  LET c == cmd[1]
  IN  /\ Touch(cmd)
      /\ \/ UNCHANGED spoilt
         \/ /\ client[c] = "send" /\ arena[c] # cmd[2]
            /\ spoilt' = spoilt \cup {<<c, arena[c]>>}

TankMark ==
  /\ Running
  /\ tank.at = "mark"
  /\ Mark(tank.cmd)
  /\ tank' = [tank EXCEPT !.at = "log"]
  /\ UNCHANGED <<clientVars, septic_sewer, response, potty_sewer, applied, logged>>

TankSkipLog ==
  /\ Running
  /\ tank.at = "log"
  /\ tank' = Idle
  /\ UNCHANGED <<memory, clientVars, septic_sewer, response, potty_sewer, applied, logged>>

(* Only now is result->resolved_mutation looked at again and cloned by     *)
(* potty_feed.  Once the next command was parsed over the result, or the   *)
(* arena freed, the read finds the old bytes, NULL, or anything else: a    *)
(* wild pointer or an UNREACHABLE type, with which the process dies, or    *)
(* bytes that pass for a mutation.                                         *)
TankClone ==
  /\ Running
  /\ tank.at = "log"
  /\ \/ tank' = IF IsMutation(tank.cmd) THEN [tank EXCEPT !.at = "feed"] ELSE Idle
     \/ /\ arena[tank.cmd[1]] # tank.cmd[2]
        /\ tank' \in {Idle, [at |-> "feed", cmd |-> Garbage]}
  /\ Touch(tank.cmd)
  /\ UNCHANGED <<spoilt, clientVars, septic_sewer, response, potty_sewer, applied, logged>>

TankFeedMarking ==
  /\ Running
  /\ tank.at = "feed"
  /\ Len(potty_sewer) < PottyCap
  /\ potty_sewer' = Append(potty_sewer, tank.cmd)
  /\ IF tank.cmd = Garbage THEN UNCHANGED memory ELSE Mark(tank.cmd)
  /\ tank' = Idle
  /\ UNCHANGED <<clientVars, septic_sewer, response, applied, logged>>

TankFeed ==
  /\ Running
  /\ tank.at = "feed"
  /\ Len(potty_sewer) < PottyCap
  /\ potty_sewer' = Append(potty_sewer, tank.cmd)
  /\ tank' = Idle
  /\ UNCHANGED <<memory, clientVars, septic_sewer, response, applied, logged>>

(* potty_pump takes the mutation; Potty follows it into the file. *)
PottyConsume ==
  /\ Running
  /\ potty_sewer # <<>>
  /\ logged' = Append(logged, Head(potty_sewer))
  /\ potty_sewer' = Tail(potty_sewer)
  /\ UNCHANGED <<memory, clientVars, septic_sewer, response, tank, applied>>

(* The harm shows: in septic_tank_mutation_clone, in clone_operation of a  *)
(* command written into, in serializing what is no mutation, in malloc.    *)
Die ==
  /\ process = "harmed"
  /\ process' = "dead"
  /\ UNCHANGED <<clientVars, septic_sewer, response, tank, potty_sewer, spoilt, applied, logged>>

septic_tank_pump == TankConsume \/ TankRespond \/ TankMark \/ TankClone \/ TankFeed

(* Every client is gone and all work is done, or the process is dead. *)
Done ==
  /\ \/ /\ \A c \in Clients : client[c] = "closed"
        /\ septic_sewer = <<>> /\ tank = Idle /\ potty_sewer = <<>>
     \/ ~Running
  /\ UNCHANGED vars

Next ==
  \/ \E c \in Clients : ReadCommand(c) \/ FeedTank(c) \/ Answer(c) \/ Disconnect(c)
  \/ septic_tank_pump
  \/ PottyConsume
  \/ Die
  \/ Done

(* Threads keep running, and a thread that waits for room in the shared    *)
(* sewer is not overtaken for ever.  Clients owe us nothing, and a harmed  *)
(* process may live on.                                                    *)
Fairness ==
  /\ \A c \in Clients : SF_vars(FeedTank(c)) /\ WF_vars(Answer(c))
  /\ WF_vars(septic_tank_pump)
  /\ WF_vars(PottyConsume)

Spec == Init /\ [][Next]_vars

FairSpec == Spec /\ Fairness

-----------------------------------------------------------------------------
Places == {"consume", "respond", "mark", "log", "feed"}

TypeOK ==
  /\ client \in [Clients -> {"read", "send", "await", "closed"}]
  /\ number \in [Clients -> 0 .. MaxCommands]
  /\ arena \in [Clients -> 0 .. MaxCommands]
  /\ replies \in [Clients -> Seq(1 .. MaxCommands)]
  /\ overtaken \in BOOLEAN
  /\ septic_sewer \in Seq(Commands) /\ Len(septic_sewer) <= SepticCap
  /\ response \in [Clients -> Seq(1 .. MaxCommands)]
  /\ tank \in [at : Places, cmd : Commands \cup {Garbage}]
  /\ potty_sewer \in Seq(Commands \cup {Garbage}) /\ Len(potty_sewer) <= PottyCap
  /\ spoilt \subseteq Commands
  /\ process \in {"sound", "harmed", "dead"}
  /\ applied \in Seq(Commands)
  /\ logged \in Seq(Commands \cup {Garbage})

(* Each command is answered once, by its own answer, in the order the      *)
(* client sent them, however the requests of the clients interleave.       *)
RepliesInOrder ==
  \A c \in Clients :
    /\ replies[c] = [i \in 1 .. Len(replies[c]) |-> i]
    /\ Len(replies[c]) <= number[c]

(* A client that was answered finds its command in the store: the reply    *)
(* never precedes the mutation.                                            *)
AnsweredIsApplied ==
  \A c \in Clients : \A i \in 1 .. Len(replies[c]) :
    i \in Mutating => \E j \in DOMAIN applied : applied[j] = <<c, i>>

(* The tank's thread never blocks on the response sewer, as the comment in *)
(* septic_tank_digest hopes: it is empty whenever a response is due.       *)
ResponseNeverBlocks ==
  tank.at = "respond" => response[tank.cmd[1]] = <<>>

InDigest ==
  IF tank.at = "feed" \/ (tank.at \in {"respond", "mark", "log"} /\ IsMutation(tank.cmd))
  THEN <<tank.cmd>> ELSE <<>>

(* The log is what was applied: the mutations logged, on their way to the  *)
(* potty and in the hands of the tank are the applied ones, in order.      *)
LogIsApplied == applied = logged \o potty_sewer \o InDigest

(* The same as long as no client thread reads its next command, or leaves, *)
(* while the digest of the last one still uses the arena.                  *)
PromptLogIsApplied == ~overtaken => LogIsApplied

(* And then no command is written into between its parsing and its cloning *)
(* for the tank: what the tank digests is what the client sent.            *)
PromptCommandsIntact == ~overtaken => spoilt = {}

(* Until then the tank reads and writes no memory that was reused or       *)
(* freed, so that the process does not die of it.                          *)
PromptMemorySafe == ~overtaken => process = "sound"

(* Every command that was read is answered, although the tank waits for    *)
(* the potty when the log falls behind, unless the process has come to     *)
(* harm and may die or do anything.                                        *)
EveryCommandAnswered ==
  \A c \in Clients : client[c] = "send" ~> (client[c] = "read" \/ process # "sound")
=============================================================================
