------------------------------ MODULE KVStore ------------------------------
(***************************************************************************)
(* What clients may rely on: a map in which a key disappears the moment    *)
(* its expiry is reached.  There is no eviction, no log, no mutation and   *)
(* no restart here.                                                        *)
(***************************************************************************)
EXTENDS TankOps

VARIABLES
  db,     \* the keys that exist, with their value and expiry
  now,    \* the clock
  last    \* the last operation and the reply to it

vars == <<db, now, last>>

Present(k)   == db[k] # NoEntry
HasExpiry(k) == db[k].expires_at # None

Init ==
  /\ db = [k \in Keys |-> NoEntry]
  /\ now = 0
  /\ last = NoMutation

(* An operation answers reply and turns db into f; time may pass meanwhile. *)
Answer(op, reply, f) ==
  /\ now' \in now .. MaxTime
  /\ db' = AliveAt(f, now')
  /\ last' = [op |-> op, reply |-> reply]

OldValue(k) == IF Present(k) THEN Bulk(db[k].value) ELSE Nil

SetExpiry(op) ==
  CASE op.expiration.type = "NO_EXPIRE" -> None
    [] op.expiration.type = "UNIX_TS"   -> op.expiration.ts
    [] op.expiration.type = "KEEP_OLD"  -> IF Present(op.key) THEN db[op.key].expires_at ELSE None

(* A SET that is allowed leaves its value with the expiry given. *)
SetTo(op, expires_at) ==
  LET allowed == CASE op.cond = "NONE" -> TRUE
                   [] op.cond = "NX"   -> ~Present(op.key)
                   [] op.cond = "XX"   -> Present(op.key)
  IN  Answer(op,
             IF op.get THEN OldValue(op.key) ELSE IF allowed THEN Ok ELSE Nil,
             IF allowed
             THEN [db EXCEPT ![op.key] = Entry(op.value, expires_at)]
             ELSE db)

Set(op) == SetTo(op, SetExpiry(op))

Get(op)    == op.type = "GET" /\ Answer(op, OldValue(op.key), db)

Exists(op) == op.type = "EXISTS" /\ Answer(op, Num(IF Present(op.key) THEN 1 ELSE 0), db)

(* -1 = key exists but has no expiry, -2 = key does not exist. *)
Ttl(op) ==
  LET k     == op.key
      ttl_s == CASE ~Present(k) -> -2
                 [] Present(k) /\ ~HasExpiry(k) -> -1
                 [] Present(k) /\ HasExpiry(k) ->
                      (db[k].expires_at \div MsPerSec) - (now \div MsPerSec)
  IN  op.type = "TTL" /\ Answer(op, Num(ttl_s), db)

Del(op) ==
  Answer(op, Num(IF Present(op.key) THEN 1 ELSE 0), [db EXCEPT ![op.key] = NoEntry])

Expire(op) ==
  LET k == op.key
      allowed == /\ Present(k)
                 /\ CASE op.condition = "NONE" -> TRUE
                      [] op.condition = "NX" -> ~HasExpiry(k)
                      [] op.condition = "XX" -> HasExpiry(k)
                      [] op.condition = "GT" -> HasExpiry(k) /\ op.expires_at > db[k].expires_at
                      [] op.condition = "LT" -> HasExpiry(k) => op.expires_at < db[k].expires_at
  IN  Answer(op, Num(IF allowed THEN 1 ELSE 0),
             IF allowed THEN [db EXCEPT ![k].expires_at = op.expires_at] ELSE db)

IncrBy(op) ==
  LET k   == op.key
      old == IF Present(k) THEN parse_int64[db[k].value] ELSE 0
  IN  \/ old = NotInt /\ Answer(op, NotAnInteger, db)
      \/ old # NotInt /\ old + op.delta \notin Int64 /\ Answer(op, Overflow, db)
      \/ /\ old # NotInt /\ old + op.delta \in Int64
         /\ Answer(op, Num(old + op.delta),
                   [db EXCEPT ![k] = Entry(string_from_int64[old + op.delta],
                                           IF Present(k) THEN db[k].expires_at ELSE None)])

(* Time passes, and keys expire with it. *)
Tick ==
  /\ now' \in now + 1 .. MaxTime
  /\ db' = AliveAt(db, now')
  /\ UNCHANGED last

Next ==
  \/ \E op \in SetOps    : Set(op)
  \/ \E op \in ReadOps   : Get(op) \/ Exists(op) \/ Ttl(op)
  \/ \E op \in DelOps    : Del(op)
  \/ \E op \in ExpireOps : Expire(op)
  \/ \E op \in IncrByOps : IncrBy(op)
  \/ Tick

Spec == Init /\ [][Next]_vars
=============================================================================
