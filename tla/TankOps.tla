------------------------------ MODULE TankOps ------------------------------
(***************************************************************************)
(* The vocabulary of the septic tank: entries, operations, mutations and   *)
(* replies (septic_tank_operation.h, data.h), and what the command         *)
(* handlers answer to a client.                                            *)
(***************************************************************************)
EXTENDS Integers

CONSTANTS
  Keys,               \* keys
  Strings,            \* byte strings a key can hold
  MinInt, MaxInt,     \* INT64_MIN and INT64_MAX
  parse_int64,        \* Strings -> Int64, or NotInt where aids.c refuses
  string_from_int64,  \* Int64 -> Strings, the decimal form data.c writes
  NotInt,             \* parse_int64 returned false
  None,               \* an OptionTime that is not present
  NoEntry,            \* hashmap_get found nothing
  NoMutation,         \* resolved_mutation == NULL
  SetValues,          \* the values clients SET
  Deltas,             \* the deltas clients INCRBY
  Expiries,           \* the absolute expiries clients ask for, in ms
  MaxTime,            \* bound on the clock, in ms
  MsPerSec            \* 1000 in the code

Int64 == MinInt .. MaxInt

ASSUME TankOpsAssumption ==
  /\ MinInt \in Int /\ MaxInt \in Int /\ MinInt <= 0 /\ 0 <= MaxInt
  /\ NotInt \notin Int /\ None \notin Int
  /\ parse_int64 \in [Strings -> Int64 \cup {NotInt}]
  /\ string_from_int64 \in [Int64 -> Strings]
  /\ \A n \in Int64 : parse_int64[string_from_int64[n]] = n
  /\ SetValues \subseteq Strings
  /\ Deltas \subseteq Int64
  /\ Expiries \subseteq Int
  /\ MaxTime \in Nat
  /\ MsPerSec \in Nat \ {0}

(* data_create_string_entry: DATA_STRING is the only type of data there is *)
Entry(value, expires_at) == [value |-> value, expires_at |-> expires_at]

(* What stands for no expiry in a mutation; no entry expires then. *)
ST_MUTATION_NO_EXPIRY == -1

Entries ==
  [value : Strings, expires_at : (Expiries \ {ST_MUTATION_NO_EXPIRY}) \cup {None}]

ASSUME NoEntryAssumption == NoEntry \notin Entries

Alive(entry, t) ==
  entry # NoEntry /\ (entry.expires_at = None \/ entry.expires_at > t)

(* What a client can see at time t of the store f. *)
AliveAt(f, t) == [k \in Keys |-> IF Alive(f[k], t) THEN f[k] ELSE NoEntry]

(* C division truncates towards zero. *)
TruncDiv(a, b) == IF a < 0 THEN -((-a) \div b) ELSE a \div b

(* Seconds from time t to the expiry e, as TTL counts them. *)
SecondsLeft(e, t) == TruncDiv(e, MsPerSec) - (t \div MsPerSec)

(***************************************************************************)
(* Operations: what the command handlers feed to the tank.                 *)
(***************************************************************************)
Expirations ==
  [type : {"NO_EXPIRE", "KEEP_OLD"}, ts : {0}] \cup [type : {"UNIX_TS"}, ts : Expiries]

SetOps ==
  [type : {"SET"}, key : Keys, value : SetValues, cond : {"NONE", "NX", "XX"},
   get : BOOLEAN, expiration : Expirations]
ReadOps   == [type : {"GET", "TTL", "EXISTS"}, key : Keys]
DelOps    == [type : {"DEL"}, key : Keys]
ExpireOps ==
  [type : {"EXPIRE"}, key : Keys, expires_at : Expiries,
   condition : {"NONE", "NX", "XX", "GT", "LT"}]
IncrByOps == [type : {"INCRBY"}, key : Keys, delta : Deltas]

(***************************************************************************)
(* Replies, as the command handlers turn results into RESP values.         *)
(***************************************************************************)
Ok       == [kind |-> "simple", text |-> "OK"]
Nil      == [kind |-> "null"]
Bulk(s)  == [kind |-> "bulk", bytes |-> s]
Num(n)   == [kind |-> "integer", number |-> n]
Err(e)   == [kind |-> "error", text |-> e]

NotAnInteger == Err("ERR value is not an integer or out of range")
Overflow     == Err("Integer overflow")
=============================================================================
