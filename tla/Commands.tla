------------------------------ MODULE Commands ------------------------------
(***************************************************************************)
(* The commands (command/command.c, command/handlers/): their definitions, *)
(* how a RESP value is dispatched to one, and the operation its handler    *)
(* feeds to the tank, with the arithmetic of int64_t.                      *)
(***************************************************************************)
EXTENDS CommandArgs

CONSTANTS
  MinInt, MaxInt,   \* INT64_MIN and INT64_MAX
  MsPerSec,         \* 1000 in the code
  Now               \* what CLOCK_REALTIME says, in ms

ASSUME Int64Assumption ==
  /\ MinInt \in Int /\ MaxInt \in Int /\ MinInt <= MaxInt
  /\ MsPerSec \in Nat /\ Now \in Nat

(* parse_int64 accepts digits behind an optional sign, which are no token. *)
ASSUME NumbersAssumption ==
  \A w \in DOMAIN Numbers :
    /\ Numbers[w] \in MinInt .. MaxInt /\ Numbers[w] # NotInt
    /\ Capital(w) \notin {"NX", "XX", "GET", "EX", "PX", "EXAT", "PXAT", "KEEPTTL"}

(* Two's complement: what the build makes of a signed overflow. *)
Wrap64(n) == ((n - MinInt) % (MaxInt - MinInt + 1)) + MinInt

Conditions(names) ==
  [i \in DOMAIN names |-> Arg(names[i][1], "PURE_TOKEN", FALSE, names[i][2])]

SetArgs == <<
  Arg("key", "STRING", FALSE, ""),
  Arg("value", "STRING", FALSE, ""),
  OneOf("condition", TRUE, Conditions(<< <<"nx", "NX">>, <<"xx", "XX">> >>)),
  Arg("get", "PURE_TOKEN", TRUE, "GET"),
  OneOf("expiration", TRUE, <<
    Arg("seconds", "INTEGER", FALSE, "EX"),
    Arg("milliseconds", "INTEGER", FALSE, "PX"),
    Arg("unix-time-seconds", "UNIX_TIME", FALSE, "EXAT"),
    Arg("unix-time-milliseconds", "UNIX_TIME", FALSE, "PXAT"),
    Arg("keepttl", "PURE_TOKEN", FALSE, "KEEPTTL") >>) >>

ExpireArgs == <<
  Arg("key", "STRING", FALSE, ""),
  Arg("seconds", "INTEGER", FALSE, ""),
  OneOf("condition", TRUE, Conditions(<< <<"nx", "NX">>, <<"xx", "XX">>,
                                         <<"gt", "GT">>, <<"lt", "LT">> >>)) >>

KeyArg   == << Arg("key", "STRING", FALSE, "") >>
DeltaArg(name) == << Arg("key", "STRING", FALSE, ""), Arg(name, "INTEGER", FALSE, "") >>

COMMANDS == <<
  [name |-> "PING",   args |-> << Arg("message", "STRING", TRUE, "") >>],
  [name |-> "SET",    args |-> SetArgs],
  [name |-> "GET",    args |-> KeyArg],
  [name |-> "DEL",    args |-> KeyArg],
  [name |-> "INFO",   args |-> <<>>],
  [name |-> "TTL",    args |-> KeyArg],
  [name |-> "EXISTS", args |-> KeyArg],
  [name |-> "EXPIRE", args |-> ExpireArgs],
  [name |-> "INCR",   args |-> KeyArg],
  [name |-> "DECR",   args |-> KeyArg],
  [name |-> "INCRBY", args |-> DeltaArg("increment")],
  [name |-> "DECRBY", args |-> DeltaArg("decrement")] >>

(***************************************************************************)
(* Handlers.  args are CommandArgs in the order of the definitions.        *)
(***************************************************************************)
(* A handler that takes seconds for milliseconds. *)
ExpirationForgettingUnit(arg) ==
  CASE ~arg.present                        -> [type |-> "NO_EXPIRE", ts |-> 0]
    [] arg.present /\ arg.name = "keepttl" -> [type |-> "KEEP_OLD", ts |-> 0]
    [] OTHER                               -> [type |-> "UNIX_TS", ts |-> Wrap64(Now + arg.value)]

get_expire_time(arg) ==
  CASE ~arg.present                   -> [type |-> "NO_EXPIRE", ts |-> 0]
    [] arg.present /\ arg.name = "keepttl" -> [type |-> "KEEP_OLD", ts |-> 0]
    [] OTHER ->
         [type |-> "UNIX_TS",
          ts |-> CASE arg.name = "seconds"                -> Wrap64(Now + Wrap64(arg.value * MsPerSec))
                   [] arg.name = "milliseconds"           -> Wrap64(Now + arg.value)
                   [] arg.name = "unix-time-seconds"      -> Wrap64(arg.value * MsPerSec)
                   [] arg.name = "unix-time-milliseconds" -> arg.value]

process_set(args) ==
  [type |-> "SET", key |-> args[1].value, value |-> args[2].value,
   nx |-> args[3].present /\ args[3].name = "nx",
   xx |-> args[3].present /\ args[3].name = "xx",
   get |-> args[4].present, expiration |-> get_expire_time(args[5])]

resolve_expire_condition(arg) == IF arg.present THEN arg.name ELSE "none"

process_expire(args) ==
  [type |-> "EXPIRE", key |-> args[1].value,
   expires_at |-> Wrap64(Now + Wrap64(args[2].value * MsPerSec)),
   condition |-> resolve_expire_condition(args[3])]

process_incr(args)   == [type |-> "INCRBY", key |-> args[1].value, delta |-> 1]
process_decr(args)   == [type |-> "INCRBY", key |-> args[1].value, delta |-> -1]
process_incrby(args) == [type |-> "INCRBY", key |-> args[1].value, delta |-> args[2].value]
process_decrby(args) == [type |-> "INCRBY", key |-> args[1].value, delta |-> Wrap64(-args[2].value)]

process_get(args)    == [type |-> "GET", key |-> args[1].value]
process_del(args)    == [type |-> "DEL", key |-> args[1].value]
process_ttl(args)    == [type |-> "TTL", key |-> args[1].value]
process_exists(args) == [type |-> "EXISTS", key |-> args[1].value]

(* The operation the handler of the command feeds to the tank. *)
Operation(name, args) ==
  CASE name = "SET"    -> process_set(args)
    [] name = "GET"    -> process_get(args)
    [] name = "DEL"    -> process_del(args)
    [] name = "TTL"    -> process_ttl(args)
    [] name = "EXISTS" -> process_exists(args)
    [] name = "EXPIRE" -> process_expire(args)
    [] name = "INCR"   -> process_incr(args)
    [] name = "DECR"   -> process_decr(args)
    [] name = "INCRBY" -> process_incrby(args)
    [] name = "DECRBY" -> process_decrby(args)

(* PING and INFO answer by themselves; INFO counts the final NUL in.       *)
process_ping(args) ==
  IF args[1].present THEN BulkString(args[1].value) ELSE SimpleString("PONG")

process_info(replica) ==
  BulkString(<<Byte(IF replica THEN "role:replica" ELSE "role:master"), Byte("NUL")>>)

(* What the handlers make of the results the tank may give for an          *)
(* operation; SepticTank says which it is.                                 *)
TankReplies(op) ==
  CASE op.type = "SET" ->
         IF op.get THEN {Null, BulkString(op.value)} ELSE {Null, SimpleString("OK")}
    [] op.type = "GET"    -> {Null, BulkString(op.key)}
    [] op.type = "INCRBY" -> {Integer(1), SimpleError("not an integer")}
    [] op.type = "TTL"    -> {Integer(-2), Integer(-1), Integer(1)}
    [] OTHER              -> {Integer(0), Integer(1)}

(***************************************************************************)
(* Dispatch.                                                               *)
(***************************************************************************)
is_valid_bulk_string_array_command(array) ==
  /\ array # <<>>
  /\ \A i \in DOMAIN array : array[i].kind = "$"

(* The entry of COMMANDS a bulk string names, 0 if there is none. *)
Lookup(word) ==
  LET found == {i \in DOMAIN COMMANDS : str_eq_ci(word, COMMANDS[i].name)}
  IN  IF found = {} THEN 0 ELSE Min(found)

(* What process_command makes of a RESP value: the process exits, the      *)
(* command is refused, or it goes to its handler with parsed arguments.    *)
Exits         == [did |-> "exit", name |-> "", args |-> <<>>]
Refuses(why)  == [did |-> "refuse", name |-> why, args |-> <<>>]
Runs(name, args) == [did |-> "run", name |-> name, args |-> args]

Dispatch(name, r) ==
  IF r.code = "SUCCESS" THEN Runs(name, r.outs) ELSE Refuses("Invalid command arguments")

process_command_helper(word, args) ==
  LET i == Lookup(word)
  IN  IF i = 0 THEN Refuses("UNKNOWN COMMAND")
      ELSE Dispatch(COMMANDS[i].name, parse_command_arguments(COMMANDS[i].args, args))

process_command(input) ==
  IF input.kind = "*" /\ is_valid_bulk_string_array_command(input.array)
  THEN process_command_helper(input.array[1].data,
         [i \in 1 .. Len(input.array) - 1 |-> input.array[i + 1].data])
  ELSE Exits
=============================================================================
