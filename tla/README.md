# TLA+ models of Redic

Redic is a small Redis server in C: one thread per client, one thread that owns
the data (the *septic tank*), one that owns the append-only file (the *potty*),
and short-lived *flusher* threads that write batches to it. The actors talk
through bounded queues (*sewers*). These modules model that core and the
path of a command through it, from the bytes a client sends to the reply; TLC checks
them on small instances, and TLAPS proves the central results for every value of
the constants. `PROJECT.json` maps each definition to the lines it translates.

## 1. Inventory

| Component | State | Operations | Hard behaviour | Modules |
|---|---|---|---|---|
| sewer (`sewer.c`, `ring.c`) | ring buffer, mutex, `has_space`, `has_items` | create, send, consume, timed consume, destroy | lost wakeups, timeout against signal, destroying the response sewer | `Sewer`, `BoundedQueue`, `SewerProofs` |
| septic tank (`septic_tank/`, `data.c`) | hash map of entries with optional expiry | SET GET DEL EXISTS TTL EXPIRE INCRBY; apply; replay | lazy unlogged eviction, clock read twice, sentinel expiry, int64 limits | `TankOps`, `KVStore`, `SepticTank`, `SepticTankProofs` |
| potty (`potty/potty.c`, `potty_flusher.c`) | waste, flush jobs, `flusher_running`, timestamps, `data.aof` | feed, pump, flush, drain | flusher leaving while a job arrives, stdio against fsync, crash anywhere, failing calls | `Potty`, `PottyProofs`, `SequenceFacts` |
| AOF format (`potty_serializer.c`, `potty_parser.c`, `potty_trainer.c`) | the file | serialize, read, train | torn records | `Potty` (in part) |
| hash map (`hashmap.c`) | table, size | put, get, remove, growth | holes in chains, nested growth | `HashMap`, `HashMapProofs` |
| server (`server.c`, `main.c`, `septic_tank_operation.c`) | client threads, their arenas, response sewers | read, feed, answer, disconnect | use of an arena after its owner moved on, back-pressure; commands cut or pipelined by the network | `Redic`, `RedicProofs`, `Server`, `ServerProofs` |
| command handlers (`command/handlers/`) | none | command to operation, result to reply | arithmetic on seconds and deltas at the limits of int64 | `TankOps`, `Commands`, `ServerProofs` |
| argument parser (`command/command*.c`) | a window of the arguments and which are resolved | RESP array to arguments | options in any order, keys that look like tokens | `CommandArgs`, `Commands`, `ServerProofs` |
| RESP (`resp/`) | none | parse, serialize | binary-safe strings, partial input | `Resp`, `ServerProofs` |
| arena (`arena.c`) | a list of pages | create, alloc, reset | pages of odd sizes reused after a reset | `Arena`, `HectorProofs` |
| hector (`aids.c`) | growable array, on the heap or in an arena | create, push, pop, splice, destroy | capacity after shrinking, the length of a move | `Hector`, `Vector`, `HectorProofs` |
| command line (`cli.c`, `main.c`) | the words, options | parse once at start | used words are swapped to the front | `Cli`, `Server`, `ServerProofs` |

How they interact: a client thread reads a command, clones it into a message and
sends it over the shared tank sewer, then waits on a response sewer made for this
message. The tank resolves the operation into a result and possibly a mutation,
applies the mutation, answers, and clones the mutation into a message for the
potty. The potty collects mutations and hands them in batches to a flusher
thread, which exists only while there are batches. Before clients are accepted,
`main` replays the file into the tank.

## 2. Modules and their correspondence to the code

**`Sewer`** has one step per stretch of a call that other threads can tell apart:
taking the mutex, starting to wait, pushing or popping, signalling, unlocking.
`data`, `head`, `tail`, `len` are the fields of `RingBuf`. A signal wakes any one
waiter; a waiter may also wake spuriously or time out; it then needs the mutex
again. After a timeout the call returns NULL without looking at the ring, as in
`sewer.c:78`. pthreads is external and modelled from its use. **`BoundedQueue`**
is what a sewer promises.

**`SepticTank`** has one action per operation. Because one thread digests one
operation at a time, resolving, evicting, applying and logging are one step on
the store (the order of answering and logging matters to other threads, and is
in `Redic`). `image` is the store that replaying every mutation logged so far
builds; `Restart` makes it the store. Time is a bounded integer that does not
step back. `EXPIRE` reads the clock twice, so time may pass inside it. Strings,
their integer values and the decimal form are constants related by an
assumption. **`KVStore`** is the abstract map: a key is gone at its expiry, there
is no eviction, mutation, log or restart, and TTL answers what the header
promises. The tank departs from it in two places, each of which has a name:
`StaleTtl`, the TTL of an expired entry that nobody has evicted (disagreement 5),
and `SentinelSet`, a SET that asks for the expiry -1, which the code stores as
none. `ImplementsKVStore` is the map with these two steps added, and nothing else.

**`Potty`** numbers the mutations. A record is two halves, so that a write can
end inside one. `history` is what the store is made of. A flusher's stdio stream
hands the kernel any part of its buffer at any record; `Fsync` makes durable what
the kernel has; `Fclose` writes the rest. `Kill` loses the memory of the process;
`PowerLoss` also cuts the file anywhere behind its durable part. `Restart`
replays, or panics on a torn record. The two failures whose results the code
ignores can happen at any time: `pthread_create` failing, which `unmanned` records
for the life of the process, and `fclose` writing less than its stream on a full
disk, which `dropped` records for good. The properties say which of them they
exclude; `OneFlusher` and `AppendOnly` exclude neither.

**`HashMap`** is the open-addressing table with the sizes as constants. The hash
of each key is a constant, so that an instance can choose which keys share a
chain. In the code `hashmap_put` and `hashmap_rehash` call each other; the model
steps through the calls: `putting` is the item of the caller's put, `rehashes` the
stack of rehashes under way, each with its old array and its loop's `i`, and the
item of the innermost put is stored when its chain has a place or begins one more
rehash when it has none. The map has one caller (the tank's thread), so nothing
else happens in between and the properties speak of the moments between calls.

**`Redic`** composes client threads, tank and potty. The sewers are FIFOs, as
`Sewer` shows they are, and a command is a client and a number, as its effect on
the store is `SepticTank`'s subject. `arena` says which command's data a client's
arena holds, since the tank uses the result and the response message there after
it answered. A read of reused or freed memory finds the old bytes, NULL or
anything else. `overtaken` records that a client thread got there first; nothing
in the code prevents it. Once the tank has read or written such memory, `process`
is harmed, and `Die` may end it at any later moment: on a wild pointer in
`septic_tank_mutation_clone`, on one of the `UNREACHABLE` types there or in the
serializer, or on a command or heap it wrote into. PING, INFO and malformed commands never
reach the tank and are left out.

**`Arena`** is the list of pages with the bytes each got from `malloc`, its
`size` and its `current`; `regions` is a ghost that lists what was handed out
since the last reset. A page that is made for a request ends with that request,
although it may have more memory (`arena.c:52`); the model keeps both numbers
apart. **`Hector`** is one vector at a time, on the heap or in that arena, which it
shares with other allocations; its struct takes a place in the arena too. `mem`
is a function on the capacity with `Garbage` where nobody wrote. `Moved` is the
`memmove` of `hector_splice` with the length the code gives it. **`Vector`** is
what a hector promises: a sequence.

**`Resp`**, **`CommandArgs`**, **`Commands`** and **`Cli`** are the pure parts, as
operators. A stream is a sequence of cells: a header or line with its line end
is one, each byte of a bulk string is one, and the line end behind it is one that
can also occur inside the string. The parser is not told how much was read, so
where it runs past the end its outcome is open. The calls by which the parser
descends into an array are a recursive function of the nesting that is left
(`Values`), and the loop over the elements one of their number (`parse_array`).
The argument parser works on a
window of the arguments and the set of resolved ones, definition by definition,
as in the code. The arithmetic of the handlers wraps at the width of
`int64_t`; the width, the milliseconds of a second and the clock are constants.
**`Server`** puts them together: `main` reads the command line, then one
connection sends a script of commands, any part of which may be in one read; a
round of `handle_client_socket` parses from the first byte of the read, processes
one command and writes one reply, and what is no array of bulk strings ends the
process. What the tank answers is any of the results it can give, as
`SepticTank` says which. The reference that the parser is compared with is
independent of it: a *reading* gives every word behind the value of a SET a role,
and no role twice.

Their assumptions are few. `TextAssumption`: an empty text and a line end are texts.
`NumbersAssumption`: what `parse_int64` accepts fits `int64_t` and is no option
token, as it consists of digits and a sign. `Int64Assumption`: the limits, the
milliseconds of a second and the clock are numbers. `PortsAssumption`: `strtol`
yields integers. `AddressesAssumption`: an address has a space and is no option
key. `ScriptsAssumption`: a client sends commands of at least one word, and the
read buffer has room for something.

## 3. Runs

| Run | Bounds | Shows |
|---|---|---|
| `sewer` | 2 senders x 2 messages, a plain and a timed consumer, capacity 2 | FIFO refinement, mutex discipline, no lost wakeups, blocked senders return, everything is consumed |
| `septic_tank` | 1 key, int64 as -2..1, clock 0..3, expiries -1, 1 and 3, seconds of 2 ms | refinement of `KVStore` but for two named departures, agreement with the log |
| `ttl` | the same | the TTL of an expired key |
| `potty` | 4 mutations, batches of up to 2, sewer of 2, 2 crashes, 2 flusher identities, thread creation and fclose failing anywhere | one flusher, no stranded job, pipeline intact, prefix after restart, append only, everything fed reaches the file |
| `fsync` | 3 mutations | a disagreement with the repository's README |
| `hashmap`, `hashmap_remove` | 4 slots, chains of 2, 4 colliding keys | the map before and after removals |
| `hector` | pages of 3 bytes, 4 allocations between resets, sizes 1 and 4, a vector of up to 4 items that starts with room for 3 | refinement of `Vector`, allocations apart, an arena that stops growing |
| `splice` | the same | a move beyond the vector's memory |
| `server` | SET with every sequence of up to 3 of 11 option words and of 4 of 5, every other command with up to 3 of 6 words, command lines of up to 4 of 9 words, scripts of up to 3 commands, cut anywhere for 5 of them; int64 as -128..127, seconds of 10 ms | arguments, times, replies and options are what the definitions say |
| `redic` | 2 clients x 2 commands, sewers of 1 | replies, their order, progress under back-pressure, and, until a client overtakes the tank, the log and the memory the tank touches |
| `redic_race` | the same | the log when one does |

Why the bounds suffice. Ring indices wrap with capacity 2 and 4 messages, and
both sides block. Keys of the tank do not influence each other, as every action
touches one key, so one key shows all there is; the theorems cover the rest. Two
expiries and four instants give every order of expiry, operation and clock; -1 is
the sentinel.
The timeout makes batches of one as well, so four mutations give a batch being
written, one queued, one being collected and a mutation in the sewer. Two crashes
include a crash after a restart. Colliding keys and a table of four slots reach
holes in chains and two doublings. A vector that starts with room for 3 is doubled, halved, doubled
again and shrinks to one; four allocations on pages of three bytes make pages of
their own, larger and smaller than a page, and reuse them in another order after
a reset. Four option words hold a condition, GET and an expiry with its time in
every order, and with words missing, stray or twice. With int64 as -128..127
there are times that fit, that do not, and that fit although their product does
not. Deadlock is checked except for `Potty`, which stops when the process
is down or panicked and the bounds are used up, and `Server`, whose script ends.

Two flusher identities are enough to see a second flusher start; `OneFlusher` is
proved for any number of them.

Fairness. `Sewer`: a thread that owns the mutex continues (weak), a thread that
wants it is not passed over for ever (strong), consumers are loops that come
back, deadlines are reached; no one has to send. `Potty`: the pump, the flushers
and the clock continue (weak); nothing has to be fed or crash. `Redic`: tank,
potty and a client whose response is there continue (weak), and a client waiting
for room in the shared sewer gets it eventually (strong), which `Sewer` grants
its blocked senders; clients may fall silent or leave at any time, and a harmed
process need not die, so that nothing is claimed of it. All of this is
what a preemptive scheduler and pthreads mutexes give in practice.

## 4. What disagrees

Each of these is a run with one property and an entry under `findings`:

1. `fsync`: `perform_flush` syncs before stdio has written the end of the batch.
2. `hashmap_remove`: a put into a hole of its chain duplicates a key; removing
   it brings the old value back.
3. `redic_race`: the tank reads the mutation to log from the client's arena after
   the client may have reused it.
4. `splice`: `hector_splice` moves `2 * count` items too many, beyond the memory
   of a vector that is nearly full, as `flush_jobs` can be after it has shrunk.
5. `ttl`: TTL does not test whether the entry has expired (`septic_tank_ttl.c:29`),
   so an expired key that nobody has evicted has a TTL of 0 or less instead of -2.

Seen while modelling, without a run:

- `flusher_running` is set although `pthread_create` failed (`potty.c:93`), and
  the log of this process then stands still; `NoStrandedJob` and
  `EventuallyFlushed` therefore speak of processes in which none has failed.
- An absolute expiry of -1 ms means no expiry (`septic_tank_set.c:92`); this is
  `SentinelSet`.
- The result of `fclose` is not looked at, so a full disk drops records that count
  as flushed, or their ends, which a restart takes for parts of the next ones; the
  properties about the contents of the file speak of runs in which none was short.
- `SET k v EX NX 10` is accepted as `SET k v NX EX 10`; a word that is no number
  behind EXAT or PXAT counts as 0. The reference allows the first and leaves the
  second open.
- With an odd number of stray words in front, the second option on the command
  line loses its value to the swaps of `cli.c:127`.

## 5. Theorems

All are for every value of the constants that satisfies the named assumptions
next to their declarations. TLAPS checks every step.

`SewerProofs` (from `SewerAssumption`). The inductive invariant is `TypeOK`,
`MutexOwner`, the ring equation `tail = Wrap(head + len)` and that a producer
inside its call still has a message to send. The equation is needed because
`ring.c` keeps `tail` and `len` apart, and pushing at `tail` appends to the
contents only if they agree. `SewerImplementsQueue` maps the queue to the `len`
slots from `head` on: a push is a put, a pop is a take, everything else stutters.
`SewerSenderLeavesFirst` needs to know that every message in the ring or consumed
has a number its producer has reached (`DeliveryInv`), so that the one being
pushed is new. The two
wakeup invariants are inductive once they are seen as two sides of one promise
(`Promised`): while threads of one side sleep, what there is for them is no more
than the awake threads of their side and the signals the other side is about to
send. One lemma about one moving thread then covers every action of both sides.
Counting needs finitely many threads, which `SewerAssumption` says.

`SepticTankProofs` (from `TankOpsAssumption`, `NoEntryAssumption` and
`NoMutationAssumption`). `TypeOK /\ ReplayAgrees` is inductive; the argument is
per key: eviction only removes what is expired, the clock only goes forward, so
what a client sees of memory and of the replayed log stays equal, and a mutation
treats both alike. That no entry carries the sentinel is part of the types, as a SET
turns it into none and an EXPIRE into the past is a DEL. `TankImplementsKVStore` maps each operation to the step of the
map, or to one of the two departures where its reply or expiry is not the map's;
nothing is assumed of what clients ask for. Restart is a stutter of the abstract map because of
`ReplayAgrees`.

`PottyProofs` (from `PottyAssumption`). The invariant adds to the types that a
queued job implies the flag, that the flag implies a thread unless creating one
has failed, and that the durable part is a prefix of the file. Failures are part of
the specification the theorems speak of: `PottyOneFlusher` and `PottyAppendOnly`
hold through all of them, `PottyNoStrandedJob` until a thread could not be created.
The theorems about content, `PottyPipelineIntact`, `PottyFlushedIsInFile` and
`PottyRestartRestoresPrefix`, rest on one equation, `PipeInv`: the file, followed
by what the flusher's stream and batch carry, the queued jobs, the waste and the
sewer, is the bytes of the history. Every step of the pump and of a flusher moves
something across one border of that concatenation and leaves the whole alone; a
crash takes all but a part of the file, which still begins the bytes of the
history, so that a restart, which needs whole records, reads a prefix of the
history. For the flushed count the invariant adds what a flusher has in hand:
file, stream and batch together reach the size it is about to claim. These three
hold as long as `dropped` is false: a short write drops bytes out of the middle
(section 4), and then they are false.

`SequenceFacts` has what the proofs need of sequences: concatenation in any grouping,
what `FlattenSeq` does with a sequence added behind or taken in front, and
sequences given by the value at each index. The
induction principles of the library cannot be used here, as they take a
predicate; `NatSetInduction` takes a set instead and follows from the
well-foundedness of `<`.

`HectorProofs` (from `ArenaAssumption` and `HectorAssumption`). The invariant says
of the arena that the used part of a page lies in its `size` and that in its
memory, and that every region ends below the used part of its page; so a
new region, which starts there, meets none. Of the vector it says that the
capacity is the memory there is, is positive while the vector exists, and is at
least the length. `HectorImplementsVector` maps the items below the length: the
overlong move of a splice only spoils what lies behind them, so they are right
even when the move leaves the vector's memory. Nothing is assumed about sizes but
that a vector is not created with room for none. `ArenaGrowthBounded` bounds the
pages: a new page of a size is made only when every page of that size has
something in it, and each of those has an allocation of its own since the last
reset, so there are at most as many of a size as allocations between resets.

`RedicProofs` (from `RedicAssumption`). The invariant says that a request is in one
place at a time, in the tank's sewer, with the tank before it responds, or as the
response, and that its client waits for it, one reply behind its commands and
with the command still in its arena; and that from the response on a mutation is
applied. From it follow that replies come in order, that what is answered is
applied, and that the tank never waits for a client. `RedicPromptLogIsApplied`,
`RedicPromptCommandsIntact` and `RedicPromptMemorySafe` speak of the executions in which no client thread
overtook the tank; `redic_race` shows that the condition is needed.

`HashMapProofs` (from `HashMapAssumption`, for any hash function and chain
length). Always: every item is in a slot of its key's chain, `size` counts the
used slots and is at most half of the table, and every key that should be there
is in the table, in a part of an old array that some rehash has not reached, or
in the item being put. Until a key is removed also: no slot in front of an item on
its chain is free, no two slots have one key, and every item has the expected
value but for old items of the key that is being put. The last part is what the
first removal destroys (disagreement 2), so `HashMapGetsLatest` speaks of maps
without removals; `HashMapNoKeyLost`, `HashMapSizeCounts` and
`HashMapPutIsVisible` hold with them too. That a put comes to an end is not
claimed: with more keys of one hash than a chain is long, growth has none.

`ServerProofs` (from the assumptions of `Resp`, `CommandArgs`, `Commands`, `Cli` and
`Server`, section 2), for every command line, script, buffer size and width of
integers.

- `CommandLine`: the two definitions are followed over the words. A key that is
  found is swapped, with its value, behind the words used so far; the lemmas say
  what the swaps leave of the rest, so that the second definition finds its
  words wherever they stood. It speaks of ports a `uint16_t` can hold: the code
  keeps another one modulo `PortBound`.
- `ArgumentParsing`: for each kind of definition one lemma says what it does to
  the window and to the set of resolved words. For SET these give, definition by
  definition, a role to every word resolved; a command that is run has thus a
  reading, and from any reading of a command the lemmas recover that the parser
  accepts it and finds that reading's options.
- `ExactOperations`: wrapping is the identity on what can be represented
  and depends only on the residue, so that a time whose intermediate product
  wrapped comes out right whenever the result fits.
- `CommandsAnswered`: the recursive functions of the parser exist (by
  `NatSetInduction` over the depth of nesting and over the elements), input that
  begins with a whole request parses to it whatever follows, and a reply parses
  back to the value it was made from. The invariant `AnswerInv` says that, while
  every read began and ended at the borders of commands, the process is up and
  every read so far has its reply. Such a read begins with a whole request
  (`WholeRead`), which is what makes its outcome certain: the code parses each
  read from its first byte, without memory of the one before.

The second and the third follow from `ReadInv`: the values' types, and that the
last command was understood, with exact numbers, whatever the read that held it.

Only model-checked: the liveness properties `BlockedSendReturns`,
`EveryMessageConsumed`, `EventuallyFlushed` (until a thread could not be created or
a write was short) and `EveryCommandAnswered` (until the process has come to harm,
which by `PromptMemorySafe` takes a client that overtakes the tank). Liveness
under fairness is outside the prover's reach. Every other property of the passing
runs is stated by a theorem.

## 6. What is left out, and the plan

The tank's store is a function from keys to entries, so the results about
`SepticTank` hold of the program as far as the hash map is a map: with removals
it is not quite one (disagreement 2). In the same way `Potty` takes `flush_jobs`
for a sequence, which `Hector` is as far as its items go (disagreement 4).

Not modelled: memory exhaustion (most allocations are unchecked and would end the
process), alignment in the arena, descriptors and socket errors, the digits of
lengths and numbers, the byte layout of records, a clock that is set back,
debug output (`resp/debug.c`, whose calls are commented out), and replication,
which is a stub.

Next: the layout of records with torn fields in the parser, and a refinement of
`flush_jobs` to `Vector`.
