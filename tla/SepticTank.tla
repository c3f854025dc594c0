---------------------------- MODULE SepticTank ----------------------------
(***************************************************************************)
(* The data actor (septic_tank/*.c).  One thread takes operations off its  *)
(* sewer one at a time; each is resolved against the store into a reply    *)
(* and possibly a mutation, the mutation is applied, and it is fed to the  *)
(* append-only file.  Expired entries stay in memory until an operation    *)
(* stumbles on them, and their eviction is never logged.                   *)
(***************************************************************************)
EXTENDS TankOps

VARIABLES
  store,    \* tank->data
  image,    \* the store that replaying all the mutations fed so far builds
  now,      \* CLOCK_REALTIME in ms; assumed not to step back
  last      \* the last operation digested and the reply to it

vars == <<store, image, now, last>>

Missing == [k \in Keys |-> NoEntry]

Init ==
  /\ store = Missing
  /\ image = Missing
  /\ now = 0
  /\ last = NoMutation

data_is_expired(entry) == entry.expires_at # None /\ entry.expires_at <= now

Stale(entry) == entry # NoEntry /\ data_is_expired(entry)
Live(entry)  == entry # NoEntry /\ ~data_is_expired(entry)

(***************************************************************************)
(* Mutations, and the apply half of the tank.                              *)
(***************************************************************************)
SetMutation(key, value, expires_at) ==
  [type |-> "SET", key |-> key, value |-> value,
   expires_at |-> IF expires_at = None THEN ST_MUTATION_NO_EXPIRY ELSE expires_at]
DelMutation(key) == [type |-> "DEL", key |-> key]
ExpireMutation(key, expires_at) ==
  [type |-> "EXPIRE", key |-> key, expires_at |-> expires_at]

Mutations ==
  [type : {"SET"}, key : Keys, value : Strings,
   expires_at : Expiries \cup {ST_MUTATION_NO_EXPIRY}]
    \cup [type : {"DEL"}, key : Keys]
    \cup [type : {"EXPIRE"}, key : Keys, expires_at : Expiries \ {ST_MUTATION_NO_EXPIRY}]

ASSUME NoMutationAssumption == NoMutation \notin Mutations

ApplySetTakingSentinel(s, set) ==
  [s EXCEPT ![set.key] = Entry(set.value, set.expires_at)]

apply_set(s, set) ==
  [s EXCEPT ![set.key] =
     Entry(set.value,
           IF set.expires_at = ST_MUTATION_NO_EXPIRY THEN None ELSE set.expires_at)]

apply_del(s, del) == [s EXCEPT ![del.key] = NoEntry]

apply_expire(s, expire) ==
  IF s[expire.key] = NoEntry
  THEN s
  ELSE [s EXCEPT ![expire.key].expires_at = expire.expires_at]

apply_mutation(s, m) ==
  CASE m.type = "SET"    -> apply_set(s, m)
    [] m.type = "DEL"    -> apply_del(s, m)
    [] m.type = "EXPIRE" -> apply_expire(s, m)

(***************************************************************************)
(* septic_tank_digest: evict what resolving found stale, apply the         *)
(* mutation, answer, and feed the mutation to the potty.                   *)
(***************************************************************************)
Evict(key, stale) == IF stale THEN [store EXCEPT ![key] = NoEntry] ELSE store

Digest(op, reply, evicted, mutation) ==
  /\ IF mutation = NoMutation
     THEN /\ store' = evicted
          /\ UNCHANGED image
     ELSE /\ store' = apply_mutation(evicted, mutation)
          /\ image' = apply_mutation(image, mutation)
  /\ last' = [op |-> op, reply |-> reply]

OldValue(entry) == IF Live(entry) THEN Bulk(entry.value) ELSE Nil

SetIgnoringStaleness(op) ==
  LET old     == store[op.key]
      refused == \/ op.cond = "NX" /\ old # NoEntry
                 \/ op.cond = "XX" /\ old = NoEntry
  IN  /\ Digest(op,
                IF op.get THEN OldValue(old) ELSE IF refused THEN Nil ELSE Ok,
                store,
                IF refused THEN NoMutation ELSE SetMutation(op.key, op.value, None))
      /\ UNCHANGED now

resolve_set(op) ==
  LET old     == store[op.key]
      refused == \/ op.cond = "NX" /\ Live(old)
                 \/ op.cond = "XX" /\ ~Live(old)
      expires_at ==
        CASE op.expiration.type = "NO_EXPIRE" -> None
          [] op.expiration.type = "UNIX_TS"   -> op.expiration.ts
          [] op.expiration.type = "KEEP_OLD"  -> IF Live(old) THEN old.expires_at ELSE None
  IN  /\ Digest(op,
                IF op.get THEN OldValue(old) ELSE IF refused THEN Nil ELSE Ok,
                Evict(op.key, Stale(old)),
                IF refused THEN NoMutation ELSE SetMutation(op.key, op.value, expires_at))
      /\ UNCHANGED now

septic_tank_get(op) ==
  LET entry == store[op.key]
  IN  /\ op.type = "GET"
      /\ Digest(op, OldValue(entry), Evict(op.key, Stale(entry)), NoMutation)
      /\ UNCHANGED now

septic_tank_exists(op) ==
  LET entry == store[op.key]
  IN  /\ op.type = "EXISTS"
      /\ Digest(op, Num(IF Live(entry) THEN 1 ELSE 0), Evict(op.key, Stale(entry)), NoMutation)
      /\ UNCHANGED now

(* TTL does not ask whether the entry is expired. *)
septic_tank_ttl(op) ==
  LET entry == store[op.key]
      ttl_s == CASE entry = NoEntry -> -2
                 [] entry # NoEntry /\ entry.expires_at = None -> -1
                 [] entry # NoEntry /\ entry.expires_at # None ->
                      SecondsLeft(entry.expires_at, now)
  IN  /\ op.type = "TTL"
      /\ Digest(op, Num(ttl_s), store, NoMutation)
      /\ UNCHANGED now

DelLoggingNothing(op) ==
  LET entry == store[op.key]
  IN  /\ Digest(op, Num(IF Live(entry) THEN 1 ELSE 0),
                Evict(op.key, entry # NoEntry), NoMutation)
      /\ UNCHANGED now

resolve_del(op) ==
  LET entry == store[op.key]
  IN  /\ Digest(op, Num(IF Live(entry) THEN 1 ELSE 0),
                Evict(op.key, Stale(entry)),
                IF Live(entry) THEN DelMutation(op.key) ELSE NoMutation)
      /\ UNCHANGED now

(* The clock is read again before the new expiry is compared with it, so   *)
(* time may have passed since the entry was found live.                    *)
resolve_expire(op) ==
  LET entry      == store[op.key]
      has_expiry == entry.expires_at # None
      noop == ~Live(entry) \/
              CASE op.condition = "NONE" -> FALSE
                [] op.condition = "NX" -> has_expiry
                [] op.condition = "XX" -> ~has_expiry
                [] op.condition = "GT" -> ~has_expiry \/ op.expires_at <= entry.expires_at
                [] op.condition = "LT" -> has_expiry /\ op.expires_at >= entry.expires_at
      is_set == ~noop
  IN  \/ /\ ~is_set
         /\ Digest(op, Num(0), Evict(op.key, Stale(entry)), NoMutation)
         /\ UNCHANGED now
      \/ /\ is_set
         /\ now' \in now .. MaxTime
         /\ Digest(op, Num(1), store,
                   IF op.expires_at <= now'
                   THEN DelMutation(op.key)
                   ELSE ExpireMutation(op.key, op.expires_at))

(* A stale entry counts as absent, and is left for the SET to overwrite.   *)
resolve_incrby(op) ==
  LET entry == store[op.key]
      value == IF Live(entry) THEN parse_int64[entry.value] ELSE 0
      overflow == \/ op.delta > 0 /\ value > MaxInt - op.delta
                  \/ op.delta < 0 /\ value < MinInt - op.delta
  IN  /\ \/ value = NotInt /\ Digest(op, NotAnInteger, store, NoMutation)
         \/ value # NotInt /\ overflow /\ Digest(op, Overflow, store, NoMutation)
         \/ /\ value # NotInt /\ ~overflow
            /\ Digest(op, Num(value + op.delta), store,
                      SetMutation(op.key, string_from_int64[value + op.delta],
                                  IF Live(entry) THEN entry.expires_at ELSE None))
      /\ UNCHANGED now

(* Time passes between two digests. *)
Tick ==
  /\ now' \in now + 1 .. MaxTime
  /\ UNCHANGED <<store, image, last>>

(* The server stops with everything flushed and starts again: an empty     *)
(* tank is trained from the file before the first client is accepted.      *)
Restart ==
  /\ store' = image
  /\ UNCHANGED <<image, now, last>>

Next ==
  \/ \E op \in SetOps    : resolve_set(op)
  \/ \E op \in ReadOps   : septic_tank_get(op) \/ septic_tank_exists(op) \/ septic_tank_ttl(op)
  \/ \E op \in DelOps    : resolve_del(op)
  \/ \E op \in ExpireOps : resolve_expire(op)
  \/ \E op \in IncrByOps : resolve_incrby(op)
  \/ Tick
  \/ Restart

Spec == Init /\ [][Next]_vars

-----------------------------------------------------------------------------
Replies ==
  {Ok, Nil, NotAnInteger, Overflow}
    \cup [kind : {"bulk"}, bytes : Strings] \cup [kind : {"integer"}, number : Int]

Ops == SetOps \cup ReadOps \cup DelOps \cup ExpireOps \cup IncrByOps

TypeOK ==
  /\ store \in [Keys -> Entries \cup {NoEntry}]
  /\ image \in [Keys -> Entries \cup {NoEntry}]
  /\ now \in 0 .. MaxTime
  /\ last \in [op : Ops, reply : Replies] \cup {NoMutation}

View(s) == AliveAt(s, now)

(* Lazy, unlogged eviction is harmless: at every moment the store in       *)
(* memory and the store that replaying the mutations would build show      *)
(* clients the same keys, values and expiries, now and at any later time.  *)
ReplayAgrees == View(store) = View(image)

KV == INSTANCE KVStore WITH db <- View(store)

(* Where the tank is not that store: TTL counts on below the expiry of an  *)
(* entry nobody has evicted yet (ExpiredHasNoTtl) ...                      *)
StaleTtl ==
  \E op \in ReadOps :
    /\ op.type = "TTL"
    /\ Stale(store[op.key])
    /\ KV!Answer(op, Num(SecondsLeft(store[op.key].expires_at, now)), View(store))

(* ... and a SET that asks for the expiry standing for none gets none.     *)
SentinelSet ==
  \E op \in SetOps :
    /\ op.expiration.type = "UNIX_TS"
    /\ op.expiration.ts = ST_MUTATION_NO_EXPIRY
    /\ KV!SetTo(op, None)

(* But for these two, the tank behaves like a store whose keys vanish at   *)
(* their expiry: every reply is right, also for entries that are stale,    *)
(* being evicted, kept by KEEPTTL, counted by INCRBY or brought back by a  *)
(* restart.                                                                *)
ImplementsKVStore == KV!Init /\ [][KV!Next \/ StaleTtl \/ SentinelSet]_(KV!vars)

(* septic_tank_operation.h of ttl_s: "-2 = key does not exist".  A key     *)
(* whose expiry is reached does not exist, for GET and EXISTS; TTL says so *)
(* too.                                                                    *)
ExpiredHasNoTtl ==
  [][\A op \in ReadOps :
       septic_tank_ttl(op) /\ ~Live(store[op.key]) => last'.reply = Num(-2)]_vars
=============================================================================
