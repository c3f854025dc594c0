-------------------------- MODULE SepticTankProofs --------------------------
(***************************************************************************)
(* Proofs about SepticTank for any keys, values, expiries and integers.    *)
(***************************************************************************)
EXTENDS SepticTank, TLAPS

Stores == [Keys -> Entries \cup {NoEntry}]

(* The inductive invariant. *)
IInv == TypeOK /\ ReplayAgrees

(* What clients see at time t of an entry. *)
Seen(e, t) == IF Alive(e, t) THEN e ELSE NoEntry

(* What a mutation makes of the entry of its key. *)
After(e, m) ==
  CASE m.type = "SET" ->
         Entry(m.value, IF m.expires_at = ST_MUTATION_NO_EXPIRY THEN None ELSE m.expires_at)
    [] m.type = "DEL" -> NoEntry
    [] m.type = "EXPIRE" ->
         IF e = NoEntry THEN NoEntry ELSE [e EXCEPT !.expires_at = m.expires_at]

-----------------------------------------------------------------------------
(* The assumptions on the constants that the proofs about entries use. *)
LEMMA ConstantTypes ==
  /\ None \notin Int /\ Expiries \subseteq Int /\ MaxTime \in Nat
  /\ SetValues \subseteq Strings
  BY TankOpsAssumption DEF TankOpsAssumption

(* hashmap_get returns NULL for nothing but an absent key. *)
LEMMA NoEntryFact ==
  NoEntry \notin [value : Strings, expires_at : (Expiries \ {ST_MUTATION_NO_EXPIRY}) \cup {None}]
  BY NoEntryAssumption DEF NoEntryAssumption, Entries

(* The three kinds of mutation have the fields their apply functions read. *)
LEMMA MutationFields ==
  ASSUME NEW m \in Mutations
  PROVE  /\ m.key \in Keys
         /\ m.type \in {"SET", "DEL", "EXPIRE"}
         /\ m.type = "SET" => /\ m.value \in Strings
                              /\ m.expires_at \in Expiries \cup {ST_MUTATION_NO_EXPIRY}
         /\ m.type = "EXPIRE" => m.expires_at \in Expiries \ {ST_MUTATION_NO_EXPIRY}
  BY DEF Mutations

(* What a mutation makes of an entry is an entry or nothing. *)
LEMMA AfterType ==
  ASSUME NEW m \in Mutations, NEW e \in Entries \cup {NoEntry}
  PROVE  After(e, m) \in Entries \cup {NoEntry}
  BY MutationFields DEF After, Entry, Entries

(* apply_mutation changes the entry of the mutation's key and no other.    *)
LEMMA ApplyAt ==
  ASSUME NEW m \in Mutations, NEW s \in Stores
  PROVE  /\ apply_mutation(s, m) \in Stores
         /\ \A k \in Keys :
              apply_mutation(s, m)[k] = IF k = m.key THEN After(s[k], m) ELSE s[k]
  <1>1. CASE m.type = "SET"
    <2>1. apply_mutation(s, m) = [s EXCEPT ![m.key] = After(s[m.key], m)]
      BY <1>1 DEF apply_mutation, apply_set, After
    <2> QED BY <2>1, MutationFields, AfterType DEF Stores
  <1>2. CASE m.type = "DEL"
    <2>1. apply_mutation(s, m) = [s EXCEPT ![m.key] = After(s[m.key], m)]
      BY <1>2 DEF apply_mutation, apply_del, After
    <2> QED BY <2>1, MutationFields, AfterType DEF Stores
  <1>3. CASE m.type = "EXPIRE"
    <2>1. CASE s[m.key] = NoEntry
      BY <1>3, <2>1, MutationFields DEF apply_mutation, apply_expire, After, Stores
    <2>2. CASE s[m.key] # NoEntry
      <3>1. apply_mutation(s, m) = [s EXCEPT ![m.key] = After(s[m.key], m)]
        BY <1>3, <2>2, MutationFields DEF apply_mutation, apply_expire, After, Stores
      <3> QED BY <3>1, MutationFields, AfterType DEF Stores
    <2> QED BY <2>1, <2>2
  <1> QED BY <1>1, <1>2, <1>3, MutationFields

(* ReplayAgrees, entry by entry. *)
LEMMA AgreesAt ==
  ASSUME store \in Stores, image \in Stores
  PROVE  ReplayAgrees <=> \A k \in Keys : Seen(store[k], now) = Seen(image[k], now)
  BY DEF ReplayAgrees, View, AliveAt, Seen, Stores

(* An entry has no expiry, or one that is a time. *)
LEMMA ExpiryCases ==
  ASSUME NEW e \in Entries
  PROVE  /\ e # NoEntry
         /\ e.expires_at = None \/ e.expires_at \in Int
         /\ e.expires_at \in Int => e.expires_at # None
  BY ConstantTypes, NoEntryFact DEF Entries

(* An entry that agrees with another now also does later. *)
LEMMA SeenLater ==
  ASSUME NEW e \in Entries \cup {NoEntry}, NEW f \in Entries \cup {NoEntry},
         NEW t \in Int, NEW u \in Int, t <= u, Seen(e, t) = Seen(f, t)
  PROVE  Seen(e, u) = Seen(f, u)
  <1>1. \A x \in Entries \cup {NoEntry} : Alive(x, u) => Alive(x, t)
    BY ExpiryCases DEF Alive
  <1> QED BY <1>1 DEF Seen, Alive

(* Live is Alive at the present time. *)
LEMMA LiveIsAlive ==
  ASSUME NEW e \in Entries \cup {NoEntry}, now \in Int
  PROVE  /\ Live(e) <=> Alive(e, now)
         /\ Stale(e) <=> e # NoEntry /\ ~Alive(e, now)
  <1>1. CASE e = NoEntry
    BY <1>1 DEF Live, Stale, Alive
  <1>2. CASE e \in Entries /\ e.expires_at = None
    BY <1>2, ExpiryCases DEF Live, Stale, data_is_expired, Alive
  <1>3. CASE e \in Entries /\ e.expires_at \in Int
    BY <1>3, ExpiryCases DEF Live, Stale, data_is_expired, Alive
  <1> QED BY <1>1, <1>2, <1>3, ExpiryCases

-----------------------------------------------------------------------------
(* The empty tank and the empty file agree. *)
LEMMA InitIInv == Init => IInv
  <1> SUFFICES ASSUME Init PROVE IInv
    OBVIOUS
  <1>1. TypeOK
    BY ConstantTypes DEF Init, Missing, TypeOK
  <1> QED BY <1>1 DEF Init, IInv, ReplayAgrees

(* What evicting and applying does to store and image, key by key. *)
LEMMA DigestAt ==
  ASSUME IInv, NEW op, NEW reply, NEW key \in Keys, NEW evicted,
         evicted = store \/ evicted = Evict(key, Stale(store[key])),
         NEW m \in Mutations \cup {NoMutation},
         m # NoMutation => m.key = key,
         Digest(op, reply, evicted, m)
  PROVE  /\ evicted \in Stores
         /\ Seen(evicted[key], now) = Seen(store[key], now)
         /\ store' \in Stores /\ image' \in Stores
         /\ \A k \in Keys \ {key} : store'[k] = store[k] /\ image'[k] = image[k]
         /\ m = NoMutation => store'[key] = evicted[key] /\ image' = image
         /\ m # NoMutation => /\ store'[key] = After(evicted[key], m)
                             /\ image'[key] = After(image[key], m)
  <1>1. store \in Stores /\ image \in Stores /\ now \in Int
    BY ConstantTypes DEF IInv, TypeOK, Stores
  <1>2. /\ evicted \in Stores
        /\ \A k \in Keys \ {key} : evicted[k] = store[k]
        /\ Seen(evicted[key], now) = Seen(store[key], now)
    <2>1. CASE evicted = store
      BY <1>1, <2>1
    <2>2. CASE evicted # store
      <3>1. Stale(store[key]) /\ evicted = [store EXCEPT ![key] = NoEntry]
        BY <2>2 DEF Evict
      <3>2. ~Alive(store[key], now)
        BY <1>1, <3>1, LiveIsAlive DEF Stores
      <3> QED BY <1>1, <3>1, <3>2 DEF Stores, Seen
    <2> QED BY <2>1, <2>2
  <1>3. CASE m = NoMutation
    BY <1>1, <1>2, <1>3 DEF Digest
  <1>4. CASE m # NoMutation
    <2>1. m \in Mutations /\ m.key = key
      BY <1>4
    <2>2. store' = apply_mutation(evicted, m) /\ image' = apply_mutation(image, m)
      BY <1>4 DEF Digest
    <2> QED BY <1>1, <1>2, <1>4, <2>1, <2>2, ApplyAt
  <1> QED BY <1>3, <1>4

(* Digesting an operation preserves the invariant, whatever resolving made *)
(* of it, as long as EXPIRE mutations are made of live entries only.       *)
LEMMA DigestIInv ==
  ASSUME IInv, NEW op \in Ops, NEW reply \in Replies, NEW key \in Keys, NEW evicted,
         evicted = store \/ evicted = Evict(key, Stale(store[key])),
         NEW m \in Mutations \cup {NoMutation},
         m # NoMutation => m.key = key /\ (m.type = "EXPIRE" => Live(store[key])),
         now' \in now .. MaxTime,
         Digest(op, reply, evicted, m)
  PROVE  IInv'
  <1>1. store \in Stores /\ image \in Stores /\ now \in 0 .. MaxTime /\ now \in Int
    BY ConstantTypes DEF IInv, TypeOK, Stores
  <1>2. now' \in 0 .. MaxTime /\ now' \in Int /\ now <= now'
    BY <1>1, ConstantTypes
  <1>3. \A k \in Keys : Seen(store[k], now) = Seen(image[k], now)
    BY <1>1, AgreesAt DEF IInv
  <1>a. /\ evicted \in Stores
        /\ Seen(evicted[key], now) = Seen(store[key], now)
        /\ store' \in Stores /\ image' \in Stores
        /\ \A k \in Keys \ {key} : store'[k] = store[k] /\ image'[k] = image[k]
        /\ m = NoMutation => store'[key] = evicted[key] /\ image' = image
        /\ m # NoMutation => /\ store'[key] = After(evicted[key], m)
                            /\ image'[key] = After(image[key], m)
    BY DigestAt
  <1>4. TypeOK'
    <2>1. last' \in [op : Ops, reply : Replies]
      BY DEF Digest
    <2> QED BY <1>a, <1>2, <2>1 DEF TypeOK, Stores
  <1>5. ASSUME NEW k \in Keys
        PROVE  Seen(store'[k], now') = Seen(image'[k], now')
    <2>0. ASSUME Seen(store'[k], now) = Seen(image'[k], now)
          PROVE  Seen(store'[k], now') = Seen(image'[k], now')
      <3>1. store'[k] \in Entries \cup {NoEntry} /\ image'[k] \in Entries \cup {NoEntry}
        BY <1>a DEF Stores
      <3> QED BY <1>1, <1>2, <2>0, <3>1, SeenLater
    <2>1. CASE k # key
      <3>1. store'[k] = store[k] /\ image'[k] = image[k]
        BY <1>a, <2>1
      <3> QED BY <1>3, <2>0, <3>1
    <2>2. CASE k = key /\ m = NoMutation
      <3>1. Seen(store'[k], now) = Seen(image'[k], now)
        BY <1>a, <1>3, <2>2
      <3> QED BY <2>0, <3>1
    <2>3. CASE k = key /\ m # NoMutation /\ m.type # "EXPIRE"
      <3>1. After(evicted[key], m) = After(image[key], m)
        BY <2>3, MutationFields DEF After
      <3> QED BY <1>a, <2>3, <3>1
    <2>4. CASE k = key /\ m # NoMutation /\ m.type = "EXPIRE"
      <3>1. Live(store[key]) /\ Alive(store[key], now)
        BY <1>1, <2>4, LiveIsAlive DEF Stores
      <3>2. image[key] = store[key]
        BY <1>3, <3>1 DEF Seen, Alive
      <3>3. evicted = store
        BY <3>1 DEF Evict, Stale, Live
      <3>4. store'[key] = image'[key]
        BY <1>a, <2>4, <3>2, <3>3
      <3> QED BY <2>4, <3>4
    <2> QED BY <2>1, <2>2, <2>3, <2>4
  <1>6. ReplayAgrees'
    BY <1>a, <1>5 DEF ReplayAgrees, View, AliveAt, Seen, Stores
  <1> QED BY <1>4, <1>6 DEF IInv

-----------------------------------------------------------------------------
(* The mutations that resolving makes are mutations. *)
LEMMA MutationTypes ==
  ASSUME NEW k \in Keys
  PROVE  /\ \A v \in Strings, e \in Expiries \cup {None} :
              SetMutation(k, v, e) \in Mutations /\ SetMutation(k, v, e).key = k
                                                 /\ SetMutation(k, v, e).type = "SET"
         /\ DelMutation(k) \in Mutations /\ DelMutation(k).key = k
                                         /\ DelMutation(k).type = "DEL"
         /\ \A e \in Expiries \ {ST_MUTATION_NO_EXPIRY} :
              ExpireMutation(k, e) \in Mutations /\ ExpireMutation(k, e).key = k
  BY DEF SetMutation, DelMutation, ExpireMutation, Mutations

(* The replies that resolving makes are replies. *)
LEMMA ReplyTypes ==
  /\ Ok \in Replies /\ Nil \in Replies
  /\ NotAnInteger \in Replies /\ Overflow \in Replies
  /\ \A n \in Int : Num(n) \in Replies
  /\ \A e \in Entries \cup {NoEntry} : OldValue(e) \in Replies
  <1>1. \A v \in Strings : Bulk(v) \in Replies
    BY DEF Bulk, Replies
  <1>2. \A e \in Entries \cup {NoEntry} : OldValue(e) \in Replies
    BY <1>1 DEF OldValue, Live, Entries, Replies
  <1> QED BY <1>2 DEF Replies, Num

(* The fields of the operations that are digested. *)
LEMMA OpFields ==
  /\ \A op \in SetOps : /\ op \in Ops /\ op.key \in Keys /\ op.value \in Strings
                        /\ op.cond \in {"NONE", "NX", "XX"} /\ op.get \in BOOLEAN
                        /\ op.expiration.type \in {"NO_EXPIRE", "KEEP_OLD", "UNIX_TS"}
                        /\ op.expiration.type = "UNIX_TS" => op.expiration.ts \in Expiries
  /\ \A op \in ReadOps : op \in Ops /\ op.key \in Keys
  /\ \A op \in DelOps : op \in Ops /\ op.key \in Keys
  /\ \A op \in ExpireOps : /\ op \in Ops /\ op.key \in Keys /\ op.expires_at \in Expiries
                           /\ op.condition \in {"NONE", "NX", "XX", "GT", "LT"}
  /\ \A op \in IncrByOps : op \in Ops /\ op.key \in Keys /\ op.delta \in Deltas
  BY ConstantTypes DEF SetOps, ReadOps, DelOps, ExpireOps, IncrByOps, Ops, Expirations

(* TTL counts whole seconds. *)
LEMMA SecondsType ==
  ASSUME NEW e \in Int, NEW t \in Int
  PROVE  SecondsLeft(e, t) \in Int
  BY TankOpsAssumption DEF TankOpsAssumption, SecondsLeft, TruncDiv

(* A value INCRBY may add to, and the sum it stores, are 64-bit integers. *)
LEMMA IncrByTypes ==
  ASSUME NEW e \in Entries \cup {NoEntry}, NEW d \in Deltas
  PROVE  LET v == IF Live(e) THEN parse_int64[e.value] ELSE 0
         IN  v # NotInt =>
               /\ v \in Int64 /\ v + d \in Int
               /\ v + d \in Int64 <=> ~( \/ d > 0 /\ v > MaxInt - d
                                         \/ d < 0 /\ v < MinInt - d )
               /\ v + d \in Int64 => string_from_int64[v + d] \in Strings
  <1> USE TankOpsAssumption DEF TankOpsAssumption
  <1> DEFINE v == IF Live(e) THEN parse_int64[e.value] ELSE 0
  <1> SUFFICES ASSUME v # NotInt
               PROVE  /\ v \in Int64 /\ v + d \in Int
                      /\ v + d \in Int64 <=> ~( \/ d > 0 /\ v > MaxInt - d
                                                \/ d < 0 /\ v < MinInt - d )
                      /\ v + d \in Int64 => string_from_int64[v + d] \in Strings
    OBVIOUS
  <1>1. v \in Int64
    <2>1. CASE Live(e)
      <3>1. e.value \in Strings
        BY <2>1 DEF Live, Entries
      <3> QED BY <2>1, <3>1
    <2>2. CASE ~Live(e)
      BY <2>2 DEF Int64
    <2> QED BY <2>1, <2>2
  <1>2. d \in Int64
    OBVIOUS
  <1> HIDE DEF v
  <1> QED BY <1>1, <1>2 DEF Int64

-----------------------------------------------------------------------------
(* SET preserves the invariant. *)
LEMMA SetIInv ==
  ASSUME IInv, NEW op \in SetOps, resolve_set(op)
  PROVE  IInv'
  <1> DEFINE old == store[op.key]
             refused == \/ op.cond = "NX" /\ Live(old)
                        \/ op.cond = "XX" /\ ~Live(old)
             expires_at ==
               CASE op.expiration.type = "NO_EXPIRE" -> None
                 [] op.expiration.type = "UNIX_TS"   -> op.expiration.ts
                 [] op.expiration.type = "KEEP_OLD"  -> IF Live(old) THEN old.expires_at ELSE None
             reply == IF op.get THEN OldValue(old) ELSE IF refused THEN Nil ELSE Ok
             m == IF refused THEN NoMutation ELSE SetMutation(op.key, op.value, expires_at)
  <1>1. op \in Ops /\ op.key \in Keys /\ op.value \in Strings
    BY OpFields
  <1>2. old \in Entries \cup {NoEntry} /\ now' \in now .. MaxTime
    BY <1>1, ConstantTypes DEF IInv, TypeOK, resolve_set
  <1>3. Digest(op, reply, Evict(op.key, Stale(old)), m)
    BY DEF resolve_set
  <1>4. reply \in Replies
    BY <1>2, ReplyTypes
  <1>5. expires_at \in Expiries \cup {None}
    BY <1>2, OpFields DEF Live, Entries
  <1> HIDE DEF expires_at, refused
  <1>6. /\ m \in Mutations \cup {NoMutation}
        /\ m # NoMutation => m.key = op.key /\ m.type = "SET"
    BY <1>1, <1>5, MutationTypes
  <1> HIDE DEF reply, m
  <1> QED BY <1>1, <1>2, <1>3, <1>4, <1>6, DigestIInv

(* GET, EXISTS and TTL preserve the invariant. *)
LEMMA ReadIInv ==
  ASSUME IInv, NEW op \in ReadOps,
         septic_tank_get(op) \/ septic_tank_exists(op) \/ septic_tank_ttl(op)
  PROVE  IInv'
  <1> DEFINE entry == store[op.key]
  <1>1. op \in Ops /\ op.key \in Keys
    BY OpFields
  <1>2. entry \in Entries \cup {NoEntry} /\ now' \in now .. MaxTime /\ now \in Int
    BY <1>1, ConstantTypes
       DEF IInv, TypeOK, septic_tank_get, septic_tank_exists, septic_tank_ttl
  <1>3. CASE septic_tank_get(op)
    <2>1. Digest(op, OldValue(entry), Evict(op.key, Stale(entry)), NoMutation)
      BY <1>3 DEF septic_tank_get
    <2>2. OldValue(entry) \in Replies
      BY <1>2, ReplyTypes
    <2> QED BY <1>1, <1>2, <2>1, <2>2, DigestIInv
  <1>4. CASE septic_tank_exists(op)
    <2> DEFINE reply == Num(IF Live(entry) THEN 1 ELSE 0)
    <2>1. Digest(op, reply, Evict(op.key, Stale(entry)), NoMutation)
      BY <1>4 DEF septic_tank_exists
    <2>2. reply \in Replies
      BY ReplyTypes
    <2> HIDE DEF reply
    <2> QED BY <1>1, <1>2, <2>1, <2>2, DigestIInv
  <1>5. CASE septic_tank_ttl(op)
    <2>1. PICK reply \in Replies : Digest(op, reply, store, NoMutation)
      <3> DEFINE ttl_s == CASE entry = NoEntry -> -2
                            [] entry # NoEntry /\ entry.expires_at = None -> -1
                            [] entry # NoEntry /\ entry.expires_at # None ->
                                 SecondsLeft(entry.expires_at, now)
      <3>1. ttl_s \in Int
        BY <1>2, ExpiryCases, SecondsType
      <3>2. Digest(op, Num(ttl_s), store, NoMutation)
        BY <1>5 DEF septic_tank_ttl
      <3> HIDE DEF ttl_s
      <3> QED BY <3>1, <3>2, ReplyTypes
    <2> QED BY <1>1, <1>2, <2>1, DigestIInv
  <1> QED BY <1>3, <1>4, <1>5

(* DEL preserves the invariant: what it removes it logs. *)
LEMMA DelIInv ==
  ASSUME IInv, NEW op \in DelOps, resolve_del(op)
  PROVE  IInv'
  <1> DEFINE entry == store[op.key]
             reply == Num(IF Live(entry) THEN 1 ELSE 0)
             m == IF Live(entry) THEN DelMutation(op.key) ELSE NoMutation
  <1>1. op \in Ops /\ op.key \in Keys /\ now' \in now .. MaxTime
    BY OpFields, ConstantTypes DEF IInv, TypeOK, resolve_del
  <1>2. Digest(op, reply, Evict(op.key, Stale(entry)), m)
    BY DEF resolve_del
  <1>3. reply \in Replies
    BY ReplyTypes
  <1>4. /\ m \in Mutations \cup {NoMutation}
        /\ m # NoMutation => m.key = op.key /\ m.type = "DEL"
    BY <1>1, MutationTypes
  <1> HIDE DEF reply, m
  <1> QED BY <1>1, <1>2, <1>3, <1>4, DigestIInv

(* EXPIRE preserves the invariant: it logs an expiry of a live entry only. *)
LEMMA ExpireIInv ==
  ASSUME IInv, NEW op \in ExpireOps, resolve_expire(op)
  PROVE  IInv'
  <1> DEFINE entry == store[op.key]
             m == IF op.expires_at <= now'
                  THEN DelMutation(op.key)
                  ELSE ExpireMutation(op.key, op.expires_at)
  <1>1. op \in Ops /\ op.key \in Keys /\ op.expires_at \in Expiries
    BY OpFields
  <1>2. Num(0) \in Replies /\ Num(1) \in Replies
    BY ReplyTypes
  <1>3. \/ /\ Digest(op, Num(0), Evict(op.key, Stale(entry)), NoMutation)
           /\ UNCHANGED now
        \/ /\ Live(entry) /\ now' \in now .. MaxTime
           /\ Digest(op, Num(1), store, m)
    BY Zenon DEF resolve_expire
  <1>4. CASE /\ Digest(op, Num(0), Evict(op.key, Stale(entry)), NoMutation)
             /\ UNCHANGED now
    <2>1. now' \in now .. MaxTime
      BY <1>4, ConstantTypes DEF IInv, TypeOK
    <2> QED BY <1>1, <1>2, <1>4, <2>1, DigestIInv
  <1>5. CASE /\ Live(entry) /\ now' \in now .. MaxTime
             /\ Digest(op, Num(1), store, m)
    <2>1. m \in Mutations \cup {NoMutation} /\ m.key = op.key
      <3>1. ~(op.expires_at <= now') => op.expires_at # ST_MUTATION_NO_EXPIRY
        BY <1>1, <1>5, ConstantTypes DEF IInv, TypeOK, ST_MUTATION_NO_EXPIRY
      <3> QED BY <1>1, <3>1, MutationTypes
    <2> HIDE DEF m
    <2> QED BY <1>1, <1>2, <1>5, <2>1, DigestIInv
  <1> QED BY <1>3, <1>4, <1>5

(* INCRBY preserves the invariant: what it stores it logs. *)
LEMMA IncrByIInv ==
  ASSUME IInv, NEW op \in IncrByOps, resolve_incrby(op)
  PROVE  IInv'
  <1> DEFINE entry == store[op.key]
             value == IF Live(entry) THEN parse_int64[entry.value] ELSE 0
             overflow == \/ op.delta > 0 /\ value > MaxInt - op.delta
                         \/ op.delta < 0 /\ value < MinInt - op.delta
             expires_at == IF Live(entry) THEN entry.expires_at ELSE None
             m == SetMutation(op.key, string_from_int64[value + op.delta], expires_at)
  <1>1. op \in Ops /\ op.key \in Keys /\ op.delta \in Deltas
    BY OpFields
  <1>2. entry \in Entries \cup {NoEntry} /\ now' \in now .. MaxTime
    BY <1>1, ConstantTypes DEF IInv, TypeOK, resolve_incrby
  <1>3. \/ \E r \in {NotAnInteger, Overflow} : Digest(op, r, store, NoMutation)
        \/ value # NotInt /\ ~overflow /\ Digest(op, Num(value + op.delta), store, m)
    BY DEF resolve_incrby
  <1>4. CASE \E r \in {NotAnInteger, Overflow} : Digest(op, r, store, NoMutation)
    BY <1>1, <1>2, <1>4, ReplyTypes, DigestIInv
  <1>5. CASE value # NotInt /\ ~overflow /\ Digest(op, Num(value + op.delta), store, m)
    <2>1. value + op.delta \in Int /\ string_from_int64[value + op.delta] \in Strings
      BY <1>1, <1>2, <1>5, IncrByTypes
    <2>2. expires_at \in Expiries \cup {None}
      BY <1>2 DEF Live, Entries
    <2>3. m \in Mutations /\ m.key = op.key /\ m.type = "SET"
      BY <1>1, <2>1, <2>2, MutationTypes
    <2>4. Num(value + op.delta) \in Replies
      BY <2>1, ReplyTypes
    <2> HIDE DEF m, value
    <2> QED BY <1>1, <1>2, <1>5, <2>3, <2>4, DigestIInv
  <1> QED BY <1>3, <1>4, <1>5

(* Time passing and restarting preserve the invariant. *)
LEMMA TickRestartIInv ==
  ASSUME IInv, Tick \/ Restart
  PROVE  IInv'
  <1>1. store \in Stores /\ image \in Stores /\ now \in 0 .. MaxTime
    BY DEF IInv, TypeOK, Stores
  <1>2. CASE Tick
    <2>1. now' \in 0 .. MaxTime /\ now' \in Int /\ now \in Int /\ now <= now'
      BY <1>1, <1>2, ConstantTypes DEF Tick
    <2>2. TypeOK'
      BY <1>2, <2>1 DEF IInv, TypeOK, Tick
    <2>3. \A k \in Keys : Seen(store[k], now') = Seen(image[k], now')
      BY <1>1, <2>1, AgreesAt, SeenLater DEF IInv, Stores
    <2>4. ReplayAgrees'
      BY <1>1, <1>2, <2>3 DEF ReplayAgrees, View, AliveAt, Seen, Stores, Tick
    <2> QED BY <2>2, <2>4 DEF IInv
  <1>3. CASE Restart
    BY <1>1, <1>3 DEF IInv, TypeOK, ReplayAgrees, View, AliveAt, Restart
  <1> QED BY <1>2, <1>3

(* Every step preserves the invariant. *)
LEMMA NextIInv == IInv /\ [Next]_vars => IInv'
  <1> SUFFICES ASSUME IInv, [Next]_vars PROVE IInv'
    OBVIOUS
  <1>1. CASE UNCHANGED vars
    BY <1>1 DEF IInv, TypeOK, ReplayAgrees, View, AliveAt, Alive, vars
  <1>2. CASE Next
    BY <1>2, SetIInv, ReadIInv, DelIInv, ExpireIInv, IncrByIInv, TickRestartIInv DEF Next
  <1> QED BY <1>1, <1>2

(* The invariant holds in every state of every execution. *)
THEOREM TankInvariant == Spec => []IInv
  BY InitIInv, NextIInv, PTL DEF Spec

(* Store, image, clock and last reply stay in their types. *)
THEOREM TankTypeOK == Spec => []TypeOK
  <1>1. IInv => TypeOK
    BY DEF IInv
  <1> QED BY <1>1, TankInvariant, PTL

(* Replaying data.aof at any time gives clients the store they have: lazy  *)
(* eviction needs no log.                                                  *)
THEOREM TankReplayAgrees == Spec => []ReplayAgrees
  <1>1. IInv => ReplayAgrees
    BY DEF IInv
  <1> QED BY <1>1, TankInvariant, PTL

-----------------------------------------------------------------------------
(* Forgetting what is expired at t first makes no difference at a later u. *)
LEMMA SeenTwice ==
  ASSUME NEW e \in Entries \cup {NoEntry}, NEW t \in Int, NEW u \in Int, t <= u
  PROVE  Seen(Seen(e, t), u) = Seen(e, u)
  <1>1. Alive(e, u) => Alive(e, t)
    BY ExpiryCases DEF Alive
  <1> QED BY <1>1 DEF Seen, Alive

(* The abstract store under the refinement mapping. *)
LEMMA ViewAt ==
  ASSUME IInv, NEW k \in Keys
  PROVE  /\ View(store) \in Stores
         /\ View(store)[k] = Seen(store[k], now)
         /\ KV!Present(k) <=> Live(store[k])
         /\ Live(store[k]) => View(store)[k] = store[k] /\ store[k] \in Entries
         /\ ~Live(store[k]) => View(store)[k] = NoEntry
         /\ KV!OldValue(k) = OldValue(store[k])
  <1>1. store \in Stores /\ now \in Int
    BY ConstantTypes DEF IInv, TypeOK, Stores
  <1>2. View(store) \in Stores /\ View(store)[k] = Seen(store[k], now)
    BY <1>1 DEF View, AliveAt, Seen, Stores
  <1>3. Live(store[k]) <=> Alive(store[k], now)
    BY <1>1, LiveIsAlive DEF Stores
  <1>4. Live(store[k]) => View(store)[k] = store[k] /\ store[k] \in Entries
    BY <1>1, <1>2, <1>3 DEF Seen, Alive, Stores
  <1>5. ~Live(store[k]) => View(store)[k] = NoEntry
    BY <1>2, <1>3 DEF Seen
  <1>6. KV!Present(k) <=> Live(store[k])
    BY <1>4, <1>5 DEF KV!Present, Live
  <1>7. KV!OldValue(k) = OldValue(store[k])
    BY <1>4, <1>6 DEF KV!OldValue, OldValue, KV!Bulk, Bulk, KV!Nil, Nil
  <1> QED BY <1>2, <1>4, <1>5, <1>6, <1>7

(* Digesting an operation is an abstract answer, if the mutation makes of  *)
(* the entry of its key what the abstract operation makes of it, as far as *)
(* anyone can still see it.                                                *)
LEMMA DigestSim ==
  ASSUME IInv, NEW op, NEW reply, NEW key \in Keys, NEW evicted,
         evicted = store \/ evicted = Evict(key, Stale(store[key])),
         NEW m \in Mutations \cup {NoMutation},
         m # NoMutation => m.key = key,
         now' \in now .. MaxTime,
         Digest(op, reply, evicted, m),
         NEW f,
         m = NoMutation => f = View(store),
         m # NoMutation =>
           \E g : /\ f = [View(store) EXCEPT ![key] = g]
                  /\ Seen(After(evicted[key], m), now') = Seen(g, now')
  PROVE  KV!Answer(op, reply, f)
  <1>1. store \in Stores /\ now \in Int /\ now' \in Int /\ now <= now'
    BY ConstantTypes DEF IInv, TypeOK, Stores
  <1>2. /\ evicted \in Stores
        /\ Seen(evicted[key], now) = Seen(store[key], now)
        /\ store' \in Stores
        /\ \A k \in Keys \ {key} : store'[k] = store[k]
        /\ m = NoMutation => store'[key] = evicted[key]
        /\ m # NoMutation => store'[key] = After(evicted[key], m)
    BY DigestAt
  <1>3. View(store) \in Stores /\ \A k \in Keys : View(store)[k] = Seen(store[k], now)
    BY ViewAt
  <1>4. ASSUME NEW k \in Keys
        PROVE  Seen(store'[k], now') = Seen(f[k], now')
    <2>1. CASE k # key
      <3>1. f[k] = Seen(store[k], now)
        BY <1>3, <2>1 DEF Stores
      <3>2. store'[k] = store[k] /\ store[k] \in Entries \cup {NoEntry}
        BY <1>1, <1>2, <2>1 DEF Stores
      <3> QED BY <1>1, <3>1, <3>2, SeenTwice
    <2>2. CASE k = key /\ m = NoMutation
      <3>1. f[k] = Seen(evicted[k], now) /\ store'[k] = evicted[k]
        BY <1>2, <1>3, <2>2
      <3>2. evicted[k] \in Entries \cup {NoEntry}
        BY <1>2 DEF Stores
      <3> QED BY <1>1, <3>1, <3>2, SeenTwice
    <2>3. CASE k = key /\ m # NoMutation
      BY <1>2, <1>3, <2>3 DEF Stores
    <2> QED BY <2>1, <2>2, <2>3
  <1>5. (View(store))' = KV!AliveAt(f, now')
    BY <1>2, <1>4 DEF View, AliveAt, KV!AliveAt, Seen, Alive, KV!Alive
  <1>6. last' = [op |-> op, reply |-> reply]
    BY DEF Digest
  <1> QED BY <1>5, <1>6 DEF KV!Answer

(* What a SET mutation leaves: the expiry that is the sentinel is none. *)
LEMMA AfterSet ==
  ASSUME NEW k \in Keys, NEW v, NEW x \in Expiries \cup {None}, NEW e
  PROVE  After(e, SetMutation(k, v, x)) = Entry(v, IF x = ST_MUTATION_NO_EXPIRY THEN None ELSE x)
  BY ConstantTypes DEF After, SetMutation, ST_MUTATION_NO_EXPIRY

(* No entry carries the sentinel. *)
LEMMA EntryExpiry ==
  ASSUME NEW e \in Entries
  PROVE  e.expires_at # ST_MUTATION_NO_EXPIRY
  BY ConstantTypes DEF Entries, ST_MUTATION_NO_EXPIRY

(* SET is an abstract Set, unless it asks for the sentinel. *)
LEMMA SetSim ==
  ASSUME IInv, NEW op \in SetOps, resolve_set(op)
  PROVE  \/ KV!Set(op)
         \/ /\ op.expiration.type = "UNIX_TS" /\ op.expiration.ts = ST_MUTATION_NO_EXPIRY
            /\ KV!SetTo(op, None)
  <1> DEFINE old == store[op.key]
             refused == \/ op.cond = "NX" /\ Live(old)
                        \/ op.cond = "XX" /\ ~Live(old)
             expires_at ==
               CASE op.expiration.type = "NO_EXPIRE" -> None
                 [] op.expiration.type = "UNIX_TS"   -> op.expiration.ts
                 [] op.expiration.type = "KEEP_OLD"  -> IF Live(old) THEN old.expires_at ELSE None
             reply == IF op.get THEN OldValue(old) ELSE IF refused THEN Nil ELSE Ok
             m == IF refused THEN NoMutation ELSE SetMutation(op.key, op.value, expires_at)
             allowed == CASE op.cond = "NONE" -> TRUE
                          [] op.cond = "NX"   -> ~KV!Present(op.key)
                          [] op.cond = "XX"   -> KV!Present(op.key)
             stored == IF expires_at = ST_MUTATION_NO_EXPIRY THEN None ELSE expires_at
             f == IF allowed
                  THEN [View(store) EXCEPT ![op.key] = KV!Entry(op.value, stored)]
                  ELSE View(store)
  <1>1. op.key \in Keys /\ op.value \in Strings
    BY OpFields
  <1>2. old \in Entries \cup {NoEntry} /\ now' \in now .. MaxTime
    BY <1>1, ConstantTypes DEF IInv, TypeOK, resolve_set
  <1>3. Digest(op, reply, Evict(op.key, Stale(old)), m)
    BY DEF resolve_set
  <1>4. expires_at \in Expiries \cup {None}
    BY <1>2, OpFields DEF Live, Entries
  <1>5. expires_at = KV!SetExpiry(op)
    BY <1>1, ViewAt, OpFields DEF KV!SetExpiry
  <1>a. expires_at = ST_MUTATION_NO_EXPIRY =>
          op.expiration.type = "UNIX_TS" /\ op.expiration.ts = ST_MUTATION_NO_EXPIRY
    <2>1. None # ST_MUTATION_NO_EXPIRY
      BY ConstantTypes DEF ST_MUTATION_NO_EXPIRY
    <2>2. Live(old) => old.expires_at # ST_MUTATION_NO_EXPIRY
      BY <1>2, EntryExpiry DEF Live
    <2> QED BY <2>1, <2>2, OpFields
  <1>6. allowed <=> ~refused
    BY <1>1, ViewAt, OpFields
  <1>7. reply = IF op.get THEN KV!OldValue(op.key) ELSE IF allowed THEN KV!Ok ELSE KV!Nil
    BY <1>1, <1>6, ViewAt DEF KV!Ok, Ok, KV!Nil, Nil
  <1> HIDE DEF expires_at, refused, allowed, reply
  <1>8. /\ m \in Mutations \cup {NoMutation}
        /\ m # NoMutation => m.key = op.key
        /\ refused => m = NoMutation
        /\ ~refused => m = SetMutation(op.key, op.value, expires_at) /\ m # NoMutation
    BY <1>1, <1>4, MutationTypes, NoMutationAssumption DEF NoMutationAssumption
  <1>9. m = NoMutation => f = View(store)
    BY <1>6, <1>8
  <1>10. m # NoMutation =>
           /\ f = [View(store) EXCEPT ![op.key] = Entry(op.value, stored)]
           /\ After(Evict(op.key, Stale(old))[op.key], m) = Entry(op.value, stored)
    BY <1>1, <1>4, <1>6, <1>8, AfterSet DEF Entry, KV!Entry
  <1> HIDE DEF m, f, stored
  <1>11. KV!Answer(op, reply, f)
    BY <1>1, <1>2, <1>3, <1>8, <1>9, <1>10, DigestSim
  <1>12. KV!SetTo(op, stored)
    BY <1>7, <1>11 DEF KV!SetTo, f, allowed
  <1> QED BY <1>5, <1>a, <1>12 DEF KV!Set, stored

(* GET and EXISTS are an abstract Get and Exists. *)
LEMMA GetExistsSim ==
  ASSUME IInv, NEW op \in ReadOps, septic_tank_get(op) \/ septic_tank_exists(op)
  PROVE  KV!Get(op) \/ KV!Exists(op)
  <1> DEFINE entry == store[op.key]
  <1>1. op.key \in Keys /\ now' \in now .. MaxTime
    BY OpFields, ConstantTypes DEF IInv, TypeOK, septic_tank_get, septic_tank_exists
  <1>2. CASE septic_tank_get(op)
    <2>1. Digest(op, KV!OldValue(op.key), Evict(op.key, Stale(entry)), NoMutation)
      BY <1>1, <1>2, ViewAt DEF septic_tank_get
    <2>2. KV!Answer(op, KV!OldValue(op.key), View(store))
      BY <1>1, <2>1, DigestSim
    <2> QED BY <1>2, <2>2 DEF KV!Get, septic_tank_get
  <1>3. CASE septic_tank_exists(op)
    <2> DEFINE reply == Num(IF Live(entry) THEN 1 ELSE 0)
    <2>1. Digest(op, reply, Evict(op.key, Stale(entry)), NoMutation)
      BY <1>3 DEF septic_tank_exists
    <2>2. reply = KV!Num(IF KV!Present(op.key) THEN 1 ELSE 0)
      BY <1>1, ViewAt DEF Num, KV!Num
    <2> HIDE DEF reply
    <2>3. KV!Answer(op, reply, View(store))
      BY <1>1, <2>1, DigestSim
    <2> QED BY <1>3, <2>2, <2>3 DEF KV!Exists, septic_tank_exists
  <1> QED BY <1>2, <1>3

(* TTL is an abstract Ttl, or that of an entry left to be evicted. *)
LEMMA TtlSim ==
  ASSUME IInv, NEW op \in ReadOps, septic_tank_ttl(op)
  PROVE  KV!Ttl(op) \/ StaleTtl
  <1> DEFINE k == op.key
             entry == store[k]
             Says(n) == KV!Answer(op, KV!Num(n), View(store))
  <1>1. /\ op.type = "TTL" /\ k \in Keys
        /\ now' \in now .. MaxTime /\ now \in Nat
        /\ entry \in Entries \cup {NoEntry}
    BY OpFields, ConstantTypes DEF IInv, TypeOK, septic_tank_ttl
  <1>2. ASSUME NEW n, Digest(op, Num(n), store, NoMutation)
        PROVE  Says(n)
    BY <1>1, <1>2, DigestSim DEF Num, KV!Num
  <1>3. CASE entry = NoEntry
    <2>1. Says(-2) /\ ~KV!Present(k)
      BY <1>1, <1>2, <1>3, ViewAt DEF septic_tank_ttl, Live
    <2> QED BY <1>1, <2>1 DEF KV!Ttl
  <1>4. CASE entry \in Entries /\ entry.expires_at = None
    <2>1. entry # NoEntry
      BY <1>4, ExpiryCases
    <2>2. Says(-1)
      BY <1>2, <1>4, <2>1 DEF septic_tank_ttl
    <2>3. KV!Present(k) /\ ~KV!HasExpiry(k)
      BY <1>1, <1>4, <2>1, ViewAt DEF KV!HasExpiry, Live, data_is_expired
    <2> QED BY <1>1, <2>2, <2>3 DEF KV!Ttl
  <1>5. CASE entry \in Entries /\ entry.expires_at # None
    <2> DEFINE e == entry.expires_at
    <2>1. e \in Expiries /\ e \in Int /\ entry # NoEntry
      BY <1>5, ExpiryCases DEF Entries
    <2>2. Says(SecondsLeft(e, now))
      <3>1. Digest(op, Num(SecondsLeft(e, now)), store, NoMutation)
        BY <1>5, <2>1 DEF septic_tank_ttl
      <3> QED BY <1>2, <3>1
    <2>3. CASE e <= now
      <3>1. Stale(entry)
        BY <1>5, <2>1, <2>3 DEF Stale, data_is_expired
      <3> QED BY <1>1, <2>2, <3>1 DEF StaleTtl, Num, KV!Num
    <2>4. CASE ~(e <= now)
      <3>1. KV!Present(k) /\ KV!HasExpiry(k) /\ View(store)[k].expires_at = e
        BY <1>1, <1>5, <2>1, <2>4, ViewAt DEF KV!HasExpiry, Live, data_is_expired
      <3>2. SecondsLeft(e, now) = (e \div MsPerSec) - (now \div MsPerSec)
        BY <1>1, <2>1, <2>4 DEF SecondsLeft, TruncDiv
      <3>3. Says((View(store)[k].expires_at \div MsPerSec) - (now \div MsPerSec))
        BY <2>2, <3>1, <3>2
      <3> QED BY <1>1, <3>1, <3>3 DEF KV!Ttl
    <2> QED BY <2>3, <2>4
  <1> QED BY <1>1, <1>3, <1>4, <1>5

(* DEL is an abstract Del. *)
LEMMA DelSim ==
  ASSUME IInv, NEW op \in DelOps, resolve_del(op)
  PROVE  KV!Del(op)
  <1> DEFINE entry == store[op.key]
             reply == Num(IF Live(entry) THEN 1 ELSE 0)
             m == IF Live(entry) THEN DelMutation(op.key) ELSE NoMutation
             f == [View(store) EXCEPT ![op.key] = NoEntry]
  <1>1. op.key \in Keys /\ now' \in now .. MaxTime
    BY OpFields, ConstantTypes DEF IInv, TypeOK, resolve_del
  <1>2. Digest(op, reply, Evict(op.key, Stale(entry)), m)
    BY DEF resolve_del
  <1>3. reply = KV!Num(IF KV!Present(op.key) THEN 1 ELSE 0)
    BY <1>1, ViewAt DEF Num, KV!Num
  <1>4. /\ m \in Mutations \cup {NoMutation}
        /\ m # NoMutation => m.key = op.key /\ m.type = "DEL"
        /\ m = NoMutation => ~Live(entry)
    BY <1>1, MutationTypes, NoMutationAssumption DEF NoMutationAssumption
  <1>5. m = NoMutation => f = View(store)
    BY <1>1, <1>4, ViewAt DEF Stores
  <1>6. m # NoMutation =>
          /\ f = [View(store) EXCEPT ![op.key] = NoEntry]
          /\ After(Evict(op.key, Stale(entry))[op.key], m) = NoEntry
    BY <1>4 DEF After
  <1> HIDE DEF reply, m, f
  <1>7. KV!Answer(op, reply, f)
    BY <1>1, <1>2, <1>4, <1>5, <1>6, DigestSim
  <1> QED BY <1>3, <1>7 DEF KV!Del, f

(* EXPIRE is an abstract Expire, although it reads the clock twice. *)
LEMMA ExpireSim ==
  ASSUME IInv, NEW op \in ExpireOps, resolve_expire(op)
  PROVE  KV!Expire(op)
  <1> DEFINE k == op.key
             entry == store[k]
             has_expiry == entry.expires_at # None
             noop == ~Live(entry) \/
                     CASE op.condition = "NONE" -> FALSE
                       [] op.condition = "NX" -> has_expiry
                       [] op.condition = "XX" -> ~has_expiry
                       [] op.condition = "GT" -> ~has_expiry \/ op.expires_at <= entry.expires_at
                       [] op.condition = "LT" -> has_expiry /\ op.expires_at >= entry.expires_at
             m == IF op.expires_at <= now'
                  THEN DelMutation(k)
                  ELSE ExpireMutation(k, op.expires_at)
             allowed == /\ KV!Present(k)
                        /\ CASE op.condition = "NONE" -> TRUE
                             [] op.condition = "NX" -> ~KV!HasExpiry(k)
                             [] op.condition = "XX" -> KV!HasExpiry(k)
                             [] op.condition = "GT" -> KV!HasExpiry(k) /\ op.expires_at > View(store)[k].expires_at
                             [] op.condition = "LT" -> KV!HasExpiry(k) => op.expires_at < View(store)[k].expires_at
             f == IF allowed
                  THEN [View(store) EXCEPT ![k].expires_at = op.expires_at]
                  ELSE View(store)
  <1>1. /\ k \in Keys /\ op.expires_at \in Expiries /\ op.expires_at \in Int
        /\ op.condition \in {"NONE", "NX", "XX", "GT", "LT"}
    BY OpFields, ConstantTypes
  <1>2. allowed <=> ~noop
    <2>1. CASE ~Live(entry)
      BY <1>1, <2>1, ViewAt
    <2>2. CASE Live(entry)
      <3>1. KV!Present(k) /\ View(store)[k] = entry /\ entry \in Entries
        BY <1>1, <2>2, ViewAt
      <3>2. KV!HasExpiry(k) <=> has_expiry
        BY <3>1 DEF KV!HasExpiry
      <3>3. has_expiry => entry.expires_at \in Int
        BY <3>1, ExpiryCases
      <3>4. CASE op.condition = "NONE"
        BY <2>2, <3>1, <3>4
      <3>5. CASE op.condition = "NX"
        BY <2>2, <3>1, <3>2, <3>5
      <3>6. CASE op.condition = "XX"
        BY <2>2, <3>1, <3>2, <3>6
      <3>7. CASE op.condition = "GT"
        BY <1>1, <2>2, <3>1, <3>2, <3>3, <3>7
      <3>8. CASE op.condition = "LT"
        BY <1>1, <2>2, <3>1, <3>2, <3>3, <3>8
      <3> QED BY <1>1, <3>4, <3>5, <3>6, <3>7, <3>8
    <2> QED BY <2>1, <2>2
  <1>3. \/ /\ noop
           /\ Digest(op, Num(0), Evict(op.key, Stale(entry)), NoMutation)
           /\ UNCHANGED now
        \/ /\ ~noop /\ now' \in now .. MaxTime
           /\ Digest(op, Num(1), store, m)
    BY DEF resolve_expire
  <1>4. KV!Answer(op, KV!Num(IF allowed THEN 1 ELSE 0), f) => KV!Expire(op)
    BY DEF KV!Expire
  <1>5. ~noop => Live(entry)
    OBVIOUS
  <1> HIDE DEF noop, allowed
  <1>6. CASE /\ noop
             /\ Digest(op, Num(0), Evict(op.key, Stale(entry)), NoMutation)
             /\ UNCHANGED now
    <2>1. now' \in now .. MaxTime
      BY <1>6, ConstantTypes DEF IInv, TypeOK
    <2>2. KV!Answer(op, Num(0), View(store))
      BY <1>1, <1>6, <2>1, DigestSim
    <2> QED BY <1>2, <1>4, <1>6, <2>2 DEF Num, KV!Num
  <1>7. CASE /\ ~noop /\ now' \in now .. MaxTime
             /\ Digest(op, Num(1), store, m)
    <2>1. m \in Mutations /\ m.key = k /\ m # NoMutation
      <3>1. ~(op.expires_at <= now') => op.expires_at # ST_MUTATION_NO_EXPIRY
        BY <1>1, <1>7, ConstantTypes DEF IInv, TypeOK, ST_MUTATION_NO_EXPIRY
      <3> QED BY <1>1, <3>1, MutationTypes, NoMutationAssumption DEF NoMutationAssumption
    <2>2. View(store)[k] = entry /\ entry \in Entries /\ entry # NoEntry /\ View(store) \in Stores
      BY <1>1, <1>5, <1>7, ViewAt, ExpiryCases
    <2> DEFINE g == [entry EXCEPT !.expires_at = op.expires_at]
    <2>3. [View(store) EXCEPT ![k].expires_at = op.expires_at] = [View(store) EXCEPT ![k] = g]
      BY <1>1, <2>2 DEF Stores
    <2>4. now' \in Int
      BY <1>7, ConstantTypes DEF IInv, TypeOK
    <2>5. Seen(After(entry, m), now') = Seen(g, now')
      <3>1. g.expires_at = op.expires_at /\ op.expires_at # None
        BY <1>1, <2>2, ConstantTypes DEF Entries
      <3>2. CASE op.expires_at <= now'
        BY <1>1, <2>4, <3>1, <3>2 DEF After, DelMutation, Seen, Alive
      <3>3. CASE ~(op.expires_at <= now')
        BY <2>2, <3>3 DEF After, ExpireMutation
      <3> QED BY <3>2, <3>3
    <2> HIDE DEF m, g
    <2>6. KV!Answer(op, Num(1), [View(store) EXCEPT ![k] = g])
      BY <1>1, <1>7, <2>1, <2>5, DigestSim
    <2> QED BY <1>2, <1>4, <1>7, <2>3, <2>6 DEF Num, KV!Num
  <1> QED BY <1>3, <1>6, <1>7

(* INCRBY is an abstract IncrBy: the overflow test is exact. *)
LEMMA IncrBySim ==
  ASSUME IInv, NEW op \in IncrByOps, resolve_incrby(op)
  PROVE  KV!IncrBy(op)
  <1> DEFINE k == op.key
             entry == store[k]
             value == IF Live(entry) THEN parse_int64[entry.value] ELSE 0
             overflow == \/ op.delta > 0 /\ value > MaxInt - op.delta
                         \/ op.delta < 0 /\ value < MinInt - op.delta
             expires_at == IF Live(entry) THEN entry.expires_at ELSE None
             sum == value + op.delta
             m == SetMutation(k, string_from_int64[sum], expires_at)
             old == IF KV!Present(k) THEN parse_int64[View(store)[k].value] ELSE 0
             f == [View(store) EXCEPT ![k] =
                     KV!Entry(string_from_int64[old + op.delta],
                              IF KV!Present(k) THEN View(store)[k].expires_at ELSE None)]
  <1>1. k \in Keys /\ op.delta \in Deltas
    BY OpFields
  <1>2. entry \in Entries \cup {NoEntry} /\ now' \in now .. MaxTime
    BY <1>1, ConstantTypes DEF IInv, TypeOK, resolve_incrby
  <1>3. old = value /\ expires_at = IF KV!Present(k) THEN View(store)[k].expires_at ELSE None
    BY <1>1, ViewAt
  <1>4. value # NotInt => /\ sum \in Int64 <=> ~overflow
                          /\ sum \in Int64 => string_from_int64[sum] \in Strings
    BY <1>1, <1>2, IncrByTypes
  <1>5. \/ value = NotInt /\ Digest(op, NotAnInteger, store, NoMutation)
        \/ value # NotInt /\ overflow /\ Digest(op, Overflow, store, NoMutation)
        \/ value # NotInt /\ ~overflow /\ Digest(op, Num(sum), store, m)
    BY DEF resolve_incrby
  <1>6. \/ old = NotInt /\ KV!Answer(op, KV!NotAnInteger, View(store))
        \/ old # NotInt /\ old + op.delta \notin KV!Int64 /\ KV!Answer(op, KV!Overflow, View(store))
        \/ old # NotInt /\ old + op.delta \in KV!Int64 /\ KV!Answer(op, KV!Num(old + op.delta), f)
        => KV!IncrBy(op)
    BY DEF KV!IncrBy
  <1>7. KV!Int64 = Int64
    BY DEF KV!Int64, Int64
  <1>8. expires_at \in Expiries \cup {None} /\ expires_at # ST_MUTATION_NO_EXPIRY
    <2>1. CASE Live(entry)
      <3>1. entry \in Entries
        BY <1>2, <2>1 DEF Live
      <3> QED BY <2>1, <3>1, EntryExpiry DEF Entries
    <2>2. CASE ~Live(entry)
      BY <2>2, ConstantTypes DEF ST_MUTATION_NO_EXPIRY
    <2> QED BY <2>1, <2>2
  <1> HIDE DEF value, overflow, old, expires_at
  <1>9. CASE value = NotInt /\ Digest(op, NotAnInteger, store, NoMutation)
    <2>1. KV!Answer(op, NotAnInteger, View(store))
      BY <1>1, <1>2, <1>9, DigestSim
    <2> QED BY <1>3, <1>6, <1>9, <2>1 DEF NotAnInteger, KV!NotAnInteger, Err, KV!Err
  <1>10. CASE value # NotInt /\ overflow /\ Digest(op, Overflow, store, NoMutation)
    <2>1. KV!Answer(op, Overflow, View(store))
      BY <1>1, <1>2, <1>10, DigestSim
    <2> QED BY <1>3, <1>4, <1>6, <1>7, <1>10, <2>1 DEF Overflow, KV!Overflow, Err, KV!Err
  <1>11. CASE value # NotInt /\ ~overflow /\ Digest(op, Num(sum), store, m)
    <2>1. sum \in Int64 /\ string_from_int64[sum] \in Strings
      BY <1>4, <1>11
    <2>2. m \in Mutations /\ m.key = k /\ m # NoMutation
      BY <1>1, <1>8, <2>1, MutationTypes, NoMutationAssumption DEF NoMutationAssumption
    <2>3. /\ f = [View(store) EXCEPT ![k] = Entry(string_from_int64[sum], expires_at)]
          /\ After(store[k], m) = Entry(string_from_int64[sum], expires_at)
      BY <1>1, <1>3, <1>8, AfterSet DEF Entry, KV!Entry
    <2> HIDE DEF m, f, sum
    <2>4. KV!Answer(op, Num(sum), f)
      BY <1>1, <1>2, <1>11, <2>2, <2>3, DigestSim
    <2> QED BY <1>3, <1>6, <1>7, <1>11, <2>1, <2>4 DEF Num, KV!Num, sum
  <1> QED BY <1>5, <1>9, <1>10, <1>11

(* Time passing is an abstract Tick, and nobody sees a restart. *)
LEMMA TickRestartSim ==
  ASSUME IInv, Tick \/ Restart
  PROVE  KV!Tick \/ UNCHANGED <<View(store), now, last>>
  <1>1. CASE Tick
    <2>1. store \in Stores /\ now \in Int /\ now' \in Int /\ now <= now'
      BY <1>1, ConstantTypes DEF IInv, TypeOK, Stores, Tick
    <2>2. View(store) \in Stores /\ \A k \in Keys : View(store)[k] = Seen(store[k], now)
      BY ViewAt DEF View, AliveAt, Stores
    <2>3. \A k \in Keys : Seen(store[k], now') = Seen(View(store)[k], now')
      BY <2>1, <2>2, SeenTwice DEF Stores
    <2>4. (View(store))' = KV!AliveAt(View(store), now')
      BY <1>1, <2>3 DEF Tick, View, AliveAt, KV!AliveAt, Seen, Alive, KV!Alive
    <2> QED BY <1>1, <2>4 DEF Tick, KV!Tick
  <1>2. CASE Restart
    BY <1>2 DEF Restart, IInv, ReplayAgrees, View, AliveAt
  <1> QED BY <1>1, <1>2

(* Every step of the tank is a step of the abstract store, one of the two  *)
(* departures from it, or invisible.                                       *)
LEMMA StepSimulation ==
  ASSUME IInv, [Next]_vars
  PROVE  [KV!Next \/ StaleTtl \/ SentinelSet]_(KV!vars)
  <1> USE DEF KV!vars
  <1>1. CASE UNCHANGED vars
    BY <1>1 DEF vars, View, AliveAt
  <1>2. CASE \E op \in SetOps : resolve_set(op)
    BY <1>2, SetSim DEF SentinelSet, KV!Next, KV!SetOps, SetOps, KV!Expirations, Expirations
  <1>3. CASE \E op \in ReadOps :
               septic_tank_get(op) \/ septic_tank_exists(op) \/ septic_tank_ttl(op)
    BY <1>3, GetExistsSim, TtlSim DEF KV!Next, KV!ReadOps, ReadOps
  <1>4. CASE \E op \in DelOps : resolve_del(op)
    BY <1>4, DelSim DEF KV!Next, KV!DelOps, DelOps
  <1>5. CASE \E op \in ExpireOps : resolve_expire(op)
    BY <1>5, ExpireSim DEF KV!Next, KV!ExpireOps, ExpireOps
  <1>6. CASE \E op \in IncrByOps : resolve_incrby(op)
    BY <1>6, IncrBySim DEF KV!Next, KV!IncrByOps, IncrByOps
  <1>7. CASE Tick \/ Restart
    BY <1>7, TickRestartSim DEF KV!Next
  <1> QED BY <1>1, <1>2, <1>3, <1>4, <1>5, <1>6, <1>7 DEF Next

(* The septic tank implements the store whose keys vanish at their expiry, *)
(* for every set of keys, values and expiries, the sentinel among them,    *)
(* but for the TTL of an entry left to be evicted and the SET that asks    *)
(* for the sentinel; these too leave the map as a client sees it right.    *)
THEOREM TankImplementsKVStore == Spec => ImplementsKVStore
  <1>1. Init => KV!Init
    BY DEF Init, Missing, View, AliveAt, Alive, KV!Init
  <1>2. IInv /\ [Next]_vars => [KV!Next \/ StaleTtl \/ SentinelSet]_(KV!vars)
    BY StepSimulation
  <1> QED BY <1>1, <1>2, TankInvariant, PTL DEF Spec, ImplementsKVStore
=============================================================================
