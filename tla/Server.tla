------------------------------- MODULE Server -------------------------------
(***************************************************************************)
(* A client connection from the start of the process to the replies: main  *)
(* reads the command line, handle_client_socket (server.c) reads what has  *)
(* arrived, takes it for one command, processes it and writes one reply.   *)
(* The bytes of a command may arrive in pieces, and several commands in    *)
(* one read; the parser starts at the first byte of every read.            *)
(***************************************************************************)
EXTENDS Commands, Cli

CONSTANTS
  Argvs,       \* command lines
  Scripts,     \* what a client may send: sequences of commands, which are
               \* sequences of words, which are sequences of cells
  CutScripts,  \* the scripts of which a read may return any part (a bound)
  BufferSize   \* sizeof(buffer), in cells

(* An empty array is no command, and nothing a client sends for one.       *)
ASSUME ScriptsAssumption ==
  /\ Scripts \subseteq Seq(Seq(Seq(Cell)) \ {<<>>})
  /\ BufferSize \in Nat \ {0}

VARIABLES
  argv, script,    \* chosen at the start
  phase,           \* "starting", "up", "exited"
  port, replica,   \* what main made of argv
  conn,            \* "open", or "closed" after handle_client_socket returned
  sent,            \* how many commands of the script the client has sent
  taken,           \* how many cells the server has read
  replies,         \* the replies written, in cells
  begins,          \* for every read, the command it began with; 0 if it did
                   \* not consist of whole commands (ghost)
  last             \* the last command processed: its words, what was done
                   \* with it and the operation fed to the tank (ghost)

vars == <<argv, script, phase, port, replica, conn, sent, taken, replies, begins, last>>

Request(cmd) == resp_serialize_value(Array([i \in DOMAIN cmd |-> BulkString(cmd[i])]))

Stream(k) == FlattenSeq([i \in 1 .. k |-> Request(script[i])])

NoOperation == [type |-> "none"]
NoCommand   == [words |-> <<>>, did |-> "nothing", op |-> NoOperation]

Init ==
  /\ \/ argv \in Argvs /\ script = <<>>
     \/ argv = <<>> /\ script \in Scripts
  /\ phase = "starting"
  /\ port = 0 /\ replica = FALSE
  /\ conn = "open"
  /\ sent = 0 /\ taken = 0
  /\ replies = <<>> /\ begins = <<>>
  /\ last = NoCommand

(* main up to listen: it goes on with its options, or exits. *)
main ==
  /\ phase = "starting"
  /\ LET o == Options(argv)
     IN  /\ phase' = IF o.ok THEN "up" ELSE "exited"
         /\ port' = o.port /\ replica' = o.replica
  /\ UNCHANGED <<argv, script, conn, sent, taken, replies, begins, last>>

(* The client does not wait for replies. *)
ClientSends ==
  /\ phase = "up" /\ conn = "open"
  /\ sent < Len(script)
  /\ sent' = sent + 1
  /\ UNCHANGED <<argv, script, phase, port, replica, conn, taken, replies, begins, last>>

(* The values that resp_parse_input leaves.  Behind the cells that were    *)
(* read it finds an older command's bytes: it may fail, or make any        *)
(* command the client has sent of them.                                    *)
Input(cells) ==
  LET r == resp_parse_input(cells)
  IN  IF r.code = "BEYOND"
      THEN {NoValue} \cup
           {Array([i \in DOMAIN script[k] |-> BulkString(script[k][i])]) : k \in 1 .. sent}
      ELSE {r.value}

OperationOf(does) ==
  IF does.did = "run" /\ does.name \notin {"PING", "INFO"}
  THEN Operation(does.name, does.args) ELSE NoOperation

HandlerReplies(does, op) ==
  CASE does.did = "refuse" -> {SimpleError(does.name)}
    [] does.did = "run" /\ does.name = "PING" -> {process_ping(does.args)}
    [] does.did = "run" /\ does.name = "INFO" -> {process_info(replica)}
    [] OTHER -> TankReplies(op)

BeginsWith(from, to) ==
  LET whole == {k \in 1 .. sent : Len(Stream(k - 1)) = from}
  IN  IF whole # {} /\ \E k \in 1 .. sent : Len(Stream(k)) = to THEN Min(whole) ELSE 0

ExitProcess ==
  /\ phase' = "exited"
  /\ UNCHANGED <<replies, last>>

(* The handler's reply is serialized and written. *)
Reply(value, did, op, handlerReplies) ==
  /\ \E reply \in handlerReplies :
       replies' = Append(replies, resp_serialize_value(reply))
  /\ last' = [words |-> [i \in DOMAIN value.array |-> value.array[i].data],
              did |-> did, op |-> op]
  /\ UNCHANGED phase

Process(value, does) ==
  \/ does.did = "exit" /\ ExitProcess
  \/ does.did # "exit" /\ Reply(value, does.did, OperationOf(does),
                                 HandlerReplies(does, OperationOf(does)))

(* One round of handle_client_socket's loop, with bytes to read. *)
HandleInput ==
  /\ phase = "up" /\ conn = "open"
  /\ taken < Len(Stream(sent))
  /\ LET ready == Min({BufferSize, Len(Stream(sent)) - taken})
     IN  \E n \in IF script \in CutScripts THEN 1 .. ready ELSE {ready} :
           /\ taken' = taken + n
           /\ begins' = Append(begins, BeginsWith(taken, taken + n))
           /\ \E value \in Input(SubSeq(Stream(sent), taken + 1, taken + n)) :
                Process(value, process_command(value))
  /\ UNCHANGED <<argv, script, port, replica, conn, sent>>

(* read returns 0: the client has shut down and everything is read. *)
Hangup ==
  /\ phase = "up" /\ conn = "open"
  /\ sent = Len(script) /\ taken = Len(Stream(sent))
  /\ conn' = "closed"
  /\ UNCHANGED <<argv, script, phase, port, replica, sent, taken, replies, begins, last>>

Next == main \/ ClientSends \/ HandleInput \/ Hangup

Spec == Init /\ [][Next]_vars

-----------------------------------------------------------------------------
(***************************************************************************)
(* The commands as their definitions describe them, without the parser:    *)
(* a reading of a SET command gives each word behind the value a role.     *)
(***************************************************************************)
Upper(word) == IF Len(word) = 1 THEN Capital(word[1].s) ELSE ""

IsNumber(word) == Len(word) = 1 /\ word[1].s \in DOMAIN Numbers

Value(word) == IF IsNumber(word) THEN Numbers[word[1].s] ELSE 0

Playing(cmd, reading, role) == {Upper(cmd[i]) : i \in {j \in DOMAIN reading : reading[j] = role}}

SetReadings(cmd) ==
  {f \in Injection(4 .. Len(cmd), {"condition", "get", "expiration", "time"}) :
     /\ Playing(cmd, f, "condition") \subseteq {"NX", "XX"}
     /\ Playing(cmd, f, "get") \subseteq {"GET"}
     /\ Playing(cmd, f, "expiration") \subseteq {"EX", "PX", "EXAT", "PXAT", "KEEPTTL"}
     /\ Playing(cmd, f, "time") # {} <=> Playing(cmd, f, "expiration") \ {"KEEPTTL"} # {}
     /\ \A i, j \in DOMAIN f : f[i] = "expiration" /\ f[j] = "time" => i < j}

TimeOf(cmd, f) == LET i == CHOOSE j \in DOMAIN f : f[j] = "time" IN cmd[i]

(* With a number where a time is due. *)
Proper(cmd, f) == Playing(cmd, f, "time") # {} => IsNumber(TimeOf(cmd, f))

SetMeans(cmd, f, op) ==
  /\ op.key = cmd[2] /\ op.value = cmd[3]
  /\ op.nx <=> Playing(cmd, f, "condition") = {"NX"}
  /\ op.xx <=> Playing(cmd, f, "condition") = {"XX"}
  /\ op.get <=> Playing(cmd, f, "get") # {}
  /\ op.expiration.type = CASE Playing(cmd, f, "expiration") = {} -> "NO_EXPIRE"
                            [] Playing(cmd, f, "expiration") = {"KEEPTTL"} -> "KEEP_OLD"
                            [] OTHER -> "UNIX_TS"

(* The time a SET means, in ms, as an integer of any size. *)
SetTime(cmd, f) ==
  LET n == Value(TimeOf(cmd, f))
  IN  CASE Playing(cmd, f, "expiration") = {"EX"}   -> Now + n * MsPerSec
        [] Playing(cmd, f, "expiration") = {"PX"}   -> Now + n
        [] Playing(cmd, f, "expiration") = {"EXAT"} -> n * MsPerSec
        [] Playing(cmd, f, "expiration") = {"PXAT"} -> n

IsSet(cmd)    == Upper(cmd[1]) = "SET" /\ Len(cmd) >= 3
IsExpire(cmd) == /\ Upper(cmd[1]) = "EXPIRE" /\ Len(cmd) \in {3, 4} /\ IsNumber(cmd[3])
                 /\ Len(cmd) = 4 => Upper(cmd[4]) \in {"NX", "XX", "GT", "LT"}
IsDelta(cmd)  == Upper(cmd[1]) \in {"INCRBY", "DECRBY"} /\ Len(cmd) = 3 /\ IsNumber(cmd[3])
IsOfKey(cmd)  == Upper(cmd[1]) \in {"GET", "DEL", "TTL", "EXISTS", "INCR", "DECR"} /\ Len(cmd) = 2
IsPing(cmd)   == Upper(cmd[1]) = "PING" /\ Len(cmd) <= 2
IsInfo(cmd)   == Upper(cmd[1]) = "INFO" /\ Len(cmd) = 1

ConditionName == [NX |-> "nx", XX |-> "xx", GT |-> "gt", LT |-> "lt"]

(* The commands that must be run, and those that must be refused: a SET    *)
(* with a unix time that is no number is neither.                          *)
WellFormed(cmd) ==
  \/ IsSet(cmd) /\ \E f \in SetReadings(cmd) : Proper(cmd, f)
  \/ IsExpire(cmd) \/ IsDelta(cmd) \/ IsOfKey(cmd) \/ IsPing(cmd) \/ IsInfo(cmd)

Malformed(cmd) == ~WellFormed(cmd) /\ ~(IsSet(cmd) /\ SetReadings(cmd) # {})

(* The replies a command may get. *)
Answers(cmd, v) ==
  \/ WellFormed(cmd) /\
       CASE IsPing(cmd) -> v = IF Len(cmd) = 1 THEN SimpleString("PONG") ELSE BulkString(cmd[2])
         [] IsInfo(cmd) -> v.kind = "$"
         [] Upper(cmd[1]) \in {"SET", "GET"} -> v.kind \in {"_", "+", "$"}
         [] OTHER -> v.kind \in {":", "-"}
  \/ ~WellFormed(cmd) /\ (v.kind = "-" \/ ~Malformed(cmd))

(***************************************************************************)
(* Properties.                                                             *)
(***************************************************************************)

(* As long as every read holds whole commands only, the process lives, and *)
(* the client finds one reply per read, in their order, that answers the   *)
(* first command of that read, whatever bytes the command's words contain  *)
(* (handle_client_socket, parser.c, serializer.c).                         *)
WholeCommandsAnswered ==
  (phase = "up" \/ begins # <<>>) /\ 0 \notin Range(begins) =>
    /\ phase = "up"
    /\ Len(replies) = Len(begins)
    /\ \A i \in DOMAIN begins :
         LET r == resp_parse_input(replies[i])
         IN  r.pos = Len(replies[i]) + 1 /\ Answers(script[begins[i]], r.value)

(* The argument parser accepts what the definitions describe: it runs the  *)
(* well-formed commands, refuses the malformed ones, and the operation has *)
(* the options, key and value of a reading in which every word plays one   *)
(* role and no role is played twice (command_arg.c, whatever the order of  *)
(* the options, and with keys and values that look like tokens).           *)
ArgumentsUnderstood ==
  LET cmd == last.words
  IN  last # NoCommand =>
        /\ WellFormed(cmd) => last.did = "run"
        /\ Malformed(cmd) => last.did = "refuse"
        /\ last.op # NoOperation => last.op.key = cmd[2]
        /\ last.did = "run" /\ IsSet(cmd) =>
             \E f \in SetReadings(cmd) : SetMeans(cmd, f, last.op)
        /\ last.did = "run" /\ IsExpire(cmd) =>
             last.op.condition = IF Len(cmd) = 4 THEN ConditionName[Upper(cmd[4])] ELSE "none"

(* Times and increments are exact: when the time a SET or EXPIRE means, or *)
(* the delta of an INCRBY or DECRBY, is an int64_t, the tank gets just     *)
(* that, even where an intermediate product overflows (set.c, expire.c,    *)
(* decrby.c).                                                              *)
OperationsExact ==
  LET cmd == last.words
      Exact(n, result) == n \in MinInt .. MaxInt => result = n
  IN  last.did = "run" =>
        /\ IsSet(cmd) /\ last.op.expiration.type = "UNIX_TS" =>
             \E f \in SetReadings(cmd) :
               SetMeans(cmd, f, last.op) /\ Exact(SetTime(cmd, f), last.op.expiration.ts)
        /\ IsExpire(cmd) => Exact(Now + Value(cmd[3]) * MsPerSec, last.op.expires_at)
        /\ IsDelta(cmd) =>
             Exact(IF Upper(cmd[1]) = "INCRBY" THEN Value(cmd[3]) ELSE -Value(cmd[3]),
                   last.op.delta)

(* A command line made of the options of the usage message, in either      *)
(* order and notation, starts a server on that port and in that role       *)
(* (cli_parse_opts moves the words it has used to the front).              *)
OptionsUnderstood ==
  phase # "starting" =>
    \A p \in {<<>>} \cup ({"-p", "--port"} \X DOMAIN Ports),
       r \in {<<>>} \cup ({"-r", "--replicaof"} \X Addresses) :
      argv \in {p \o r, r \o p} =>
        /\ replica <=> r # <<>>
        /\ p = <<>> => port = DEFAULT_PORT
        /\ p # <<>> => (Ports[p[2]] \in 0 .. PortBound - 1 => port = Ports[p[2]])
=============================================================================
