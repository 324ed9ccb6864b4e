# timeseries-database: specifications, model checks and proofs

TLA+ for the parts of this repository that carry its logic: the skip list meant
to be the in-memory table (`skip_list.c`), the configuration file that says
which servers a database process starts (`conf.c`), the tree of processes that
run them (`db.c`), the server of one pool (`net_wrapper.c`, `io.c`), the logger
they share (`log.c`), the dynamic array (`array.c`), the digest and the hashes
(`md5.c`, `hashkit.c`) and the small web server beside them (`nweb.c`).

## 1. The system

| Component | Source | State | Operations | Works with |
|---|---|---|---|---|
| skip list | `skip_list.c/h` | head and tail sentinels, nodes with a key, a pointer and an array of links | create, insert, remove, find, print, destroy | its caller (so far only the test in the file) |
| configuration | `conf.c/h`, `test*.yml` | the parser, the scalar stack `arg`, the array `pool`, `depth`, `seq` | `conf_create` (open, three validation passes, parse, final validation), `conf_dump`, `conf_destroy` | libyaml; array, string and number helpers; `db.c` calls it once |
| array | `array.c/h` | a header and a block of elements that grows | create, push, pop, get, top, sort, swap, each, destroy | `conf.c` (pools and scalars) |
| string | `cstring.c/h` | a counted string | copy, compare | `conf.c` |
| helpers | `util.c` | none | sockets, `str_atoi` | `conf.c`, the server loops |
| server loops | `net_wrapper.c`, `io.c` | set of descriptors watched | `select` and `epoll` loops, `read_n`, `write_n` | `db.c` starts one per pool |
| process tree | `db.c` | processes, in each a loop counter, a copy of the configuration and its descriptors | fork per pool, serve, wait, end | configuration, server loops |
| logging | `log.c` | descriptor, level, error count | init, reopen, deinit, level changes, write | everything |
| web server | `nweb.c` | listening socket, one child per connection | accept, fork, answer, exit | nothing |
| digest | `md5.c` | chaining values, a 64-byte buffer, a length in two halves | init, update, final | nothing |
| hashes | `hashkit.c` | none | eleven hashes of a key, and the choice of a bucket | nothing |
| example client | `simpleclient.c` | one socket | one request | nothing |

What is hard in each, and what makes it correct:

* **Skip list.** No concurrency; the hard part is the shape. Every operation
  changes links on several levels one at a time, the searches trust the shape
  on every level, sentinels are partly uninitialised memory, and removal frees
  one node. Correct means: no read of unset or freed memory, every level in
  exact descending order and consistent with level 0 after every single
  assignment, each call answering as a store of entries would, every call
  ending.
* **Configuration.** Five passes over the same file, the first three only
  looking. The parser keeps a stack of scalars and a recursion in step with
  libyaml's events; most of its assumptions are `ASSERT`s that expand to nothing
  (`util.h:13`). Correct means: whatever the file, an answer; no step on an
  empty stack or an uninitialised pool; right files accepted with exactly the
  pools written, wrong ones refused.
* **Process tree.** A child whose server returns goes on with the parent's loop
  and forks servers of the later pools again; one `wait` for all children;
  descriptors that are inherited and never closed; a port cut to 16 bits.
  Correct means: no pool gets a second server while its first one runs, ports
  are held by the processes of their pool alone, a pool that works stays
  served whatever becomes of the others, and every process comes to rest.
* **Server loops.** Level-triggered waiting combined with a read that blocks
  until 1024 bytes have come, in pieces of any size and to the same place of the
  buffer; the end of a stream that is told from a dropped connection by `errno`.
  Correct means: whole blocks are taken, what is sent is read, no connection is
  dropped that gave no reason.
* **Logger.** A descriptor number that outlives its file, an `open` that may
  fail at each reopening. Correct means: messages reach the logger's own file or
  nothing, no other file of the process is touched, no descriptor is lost.
* **Array.** A growth that may move the elements or be refused, in the middle of
  a walk over them. Correct means: no block is lost, shared or overrun, and the
  array is a stack that nothing of this is seen in.
* **Digest and hashes.** Boundaries: updates that end at, before and behind a
  block, a length that carries, a padding that needs a second block; keys whose
  length and address choose one of dozens of ways to read them. Correct means:
  every byte goes in once, in order, and the result is of the bytes alone.
* **Web server.** Descriptors copied by `fork` on both sides; a function that
  goes on after each error message, so that only the exit inside `logger` keeps
  it from answering twice. Correct means: one whole answer for each client, and
  an end of its connection whatever the others do.

## 2. Modules

| Module | What it is |
|---|---|
| `KeyStore` | what `skip_list.h` promises: a store of entries, one call at a time, a call that takes effect at one instant |
| `SkipList` | `skip_list.c`, an action per loop iteration over an explicit heap; its properties; the refinement of `KeyStore`; the inductive invariants `Inv` (each key once) and `RepeatsInv` (keys repeat, nothing is removed) |
| `SkipListProofs` | its types, both inductive invariants with what follows from them, the refinement, and that calls get on |
| `ConfFile` | libyaml as `conf.c` sees it: the events of a file and how they nest, and files of the documented shape together with what their author meant |
| `Conf` | `conf.c`, an action per event; its properties |
| `ConfProofs` | theorems for every file libyaml can show: types, the stack, undefined steps, names |
| `ConfWritten` | theorems for the files in which pools are written: `Faithful` and `Justified` |
| `ServerLife` | what the server loops promise the process that calls them; `Server` implements it and `Db` is built on it |
| `Server`, `ServerProofs` | the select and epoll loops with `read_n`, and clients that connect, send and hang up; its properties, and their theorems |
| `Db`, `DbProofs` | the processes of `db.c`, each with the server of its pool as `ServerLife` tells it, and the ports they hold; its properties and theorems |
| `Log`, `LogProofs` | `log.c` and the descriptors of the process; its properties, inductive invariant `LogInv` and theorems |
| `Stacks`, `Array` | what `array.h` promises, and `array.c` over an explicit heap, which implements it; its properties |
| `Md5`, `Hashkit`, `DigestProofs` | the bookkeeping of the digest; which bytes the hashes take and where they add them, and `hash_jump_consistent`; the properties and theorems of both |
| `Nweb` | the daemon of `nweb.c`, its children and the clients; its properties |
| `MCSkipList`, `MCConf`, `MCServer`, `MCDb` | small instances for TLC |
| `MCUnits` | small instances of `Array`, `Md5`, `Hashkit`, `Nweb` and `Log`, which share no state as they are modelled: a behaviour chooses one and runs it |
| `UnitsProofs` | the theorems of `Array` and `Nweb`, and of the five units together, as `MCUnits` runs them |

Definitions introduced by a comment beginning "mutant" are the neighbouring
definition with a plausible slip in it. Nothing uses them; substituting one for
its original makes the property that PROJECT.json pairs it with fail, which is
how we know that the property depends on that piece of code.

### SkipList and the code

`height`, `key`, `ptr` and `next` are the heap: a node is an address, and
`height[n]` is the number of slots `skip_listnode_init` allocated for it (0 when
it is free). `maxLevel`, `tailKey` and `tailNext` are the list; `pc`, `arg`,
`cur`, `lv`, `update` and `node` the locals of the running call.

| Code | Actions |
|---|---|
| `skip_list_create` 50-73 | `Create` (`ClampLevel`) |
| `skip_list_insert` 74-106 | `Insert` or `InsertNoMemory`, `InsertScan`*, `InsertRelink`, `InsertLink`*, `InsertReturn` |
| `skip_list_remove` 107-146 | `Remove`, `RemoveScan`*, `RemoveRelink`, `Unlink`*, `RemoveReturn` |
| `skip_list_find` 147-169 | `Find`, `FindScan`*, `FindMiss` |
| `skip_list_destroy` 170-184 | `Destroy`, `DestroyNode`*, `DestroyList` |

An asterisk marks a loop iteration. Undefined behaviour is not followed: a state
whose next read goes to memory that is unset, freed or out of bounds satisfies
`Undefined` and has no successor. `malloc` does not clear memory, so the
sentinel's key and next pointer, which the code reads and frees but never sets,
get any value of `TailKeys` and `TailNexts`. In `skip_listnode_init` out of
memory leaves no trace (`InsertNoMemory`); `skip_list_create` asserts or crashes
there and is not modelled further. `skip_list_print` reads what `SuccessorExact`
describes.

### Conf and the code

`pc` names the pass, `pos` the next event. `check` is `conf_validate_structure`'s
`depth`, `count[]` and `seq`; `depth`, `seq`, `arg` and `pool` are the fields of
`struct conf`, `data` the pool `conf_parse_core` passes down its recursion.
`call` is the call of `conf_create` that a behaviour is of, one of `Calls`: its
`file` and its second argument, `multilevel`.

| Code | Actions |
|---|---|
| `conf_open` 490-543 | `Open`, `OpenFails` |
| `conf_validate_document`, `_tokens`, `_structure` 545-884 | `ValidateDocument`, `ValidateTokens` (a pass each), `ValidateStructure` (per event) |
| `conf_begin_parse`, `conf_end_parse` 253-339 | `BeginParse` (per event), `EndParse` |
| `conf_parse_core`, `conf_handler`, setters 171-251, 341-458, 1093-1143 | `MappingStart`, `MappingEnd`, `SequenceStart`, `SequenceEnd`, `EmptyScalar`, `KeyScalar`, `PoolScalar`, `LeafScalar` |
| `conf_post_validate` 952-1026 | `PostValidate` |
| `conf_destroy` 1076-1091 | `Destroy` (after a failure), `Close` (by the caller) |
| an event or a scan that fails, or the copy of a scalar, 171-202 | `Fail`, which `Destroy` follows |
| `array_push` or `string_duplicate` that fails later in `conf_handler`, 32, 405, 1093-1118 | `PoolScalarFails`, `LeafScalarFails`, which `Destroy` follows |

Strings are compared by `Rank` (`string_compare` orders by length, then bytes;
only the order matters) and read as numbers by `Num` (`str_atoi`). `qsort` is
any permutation in order, since the C library promises no stability. A pool that
was pushed but not initialised is `Raw`. An allocation that fails leaves what
was done before it: the scalar `conf_push_scalar` could not copy is taken off the
stack again, but the name of a new pool stays on it, with no pool when
`array_push` found no room and with a pool of every field but the name when
`string_duplicate` did not (`Uncopied`); in this shape `conf_destroy` gets it.

`NestOf` says what is open around each event of a file: mappings, with whether a
key still waits for its value, and sequences. `Nested` is what libyaml promises
of it: what ends is what was opened last, no mapping ends between a key and its
value, and the stream ends once and last. `Shaped` is the documented shape
(`conf.c` 744-765) as a condition on where each event stands. What its author
meant, `pools`, is tied to the events place by place: `ReadOf` counts the pools,
lines and values read before each event, and `Says` is what comes next in a file
in which the pools `ps` are written (`Meaning`: at every place). `Written` makes
such a file from the pools. The values that a pool gives to a directive are
`Given`, a set of places (line and value), so that "given twice" is two places.
A call is `Trusted`
if its file has that shape, or its structure is checked, or one of the first two
passes turns it down.

### Server and the code

`watched` is the epoll set or `read_set[0]`, `batch` what the last wait answered
and is still to be handled, `cur`, `got` and `first` the call of `read_n`: its
descriptor, `readn` and `buf[0]`. `inbox` holds what a client has sent and the
server has not read. `net_wrapper.c` does not compile as committed; the module's
heading lists the four slips and how they are read.

| Code | Actions |
|---|---|
| `init_net_socket`, `util.c` 58-94 | `Listen`, `ListenFails` |
| the wait, `net_wrapper.c` 25-28, 70-73 | `Wait`, `WaitFails` |
| `accept`, 31-38, 76-84 | `Accept`, `AcceptFails` |
| `read_n`, `io.c` 34-55, and what the loop makes of its result, 40-48, 86-94 | `StartRead`, `Read`*, `FullBlock`, `EndOfStream` |
| the end of the loop over the events | `BatchDone` |
| the clients (no code of this repository) | `Connect`, `Send`, `Hangup` |

A unit stands for 1024 / `Block` bytes; it is text, or its first byte is NUL. A
read ends on the boundary of a unit.

### Db and the code

A process is named by the set of pools whose servers it and its ancestors were
forked for, so main is `{}` and a name tells the parent. `pc` and `i` are its
place in `main` and its loop counter; `open` are the pools whose port one of its
descriptors, other than the listening socket, is bound to. What happens inside
a server is reduced to `ServerLife` (`LifeKept` is the property, and
`LifeAlwaysKept` the theorem, that makes this sound) and to what the server
leaves behind in its process: accepted connections, and the socket of a
`listen` that failed.

| Code | Actions |
|---|---|
| `conf_create`, `db.c` 29-36 | `Boot`, `ConfFails` |
| the loop and `fork`, 37-44 | `Fork`, `ForkFails`, `LoopDone` |
| `wait`, 45; `conf_dump`, `conf_destroy`, the end, 46-49 | `Wait`, `Cleanup` |
| `init_server_instance` 25-28 with `util.c` 58-93 | `Listen`, `BindFails`, `ListenFails`, `Crash` (a pool without an address) |
| `net_epoll_run` as seen from outside | `Accept`, `Return` |

`SinAddr` and `SinPort` are the conversions of `init_net_socket`: a name that
`inet_pton` cannot read leaves the address 0, which is any address, and `htons`
keeps 16 bits of the port. `ServerLife` has the stage "returned"; in the process
it is the step back into the loop.

### Log and the code

Each function of `log.c` is one action of the same name; `Says` is the writing
part of `_log`, `_log_safe` and `_log_hexdump`. `file` is the descriptor table
of the process, with the other files opened and closed by `OpenOther` and
`CloseOther`; `open` gives the lowest free number and may fail. The discipline
is in the guards: `log_init` first, nothing but `log_init` after `log_deinit`,
no `log_init` in between (which would lose the old descriptor), the standard
streams stay open. `main` of `db.c` and of `conf.c` keep it, and nothing in the
repository calls `log_deinit`. No property says anything of a program that goes
on logging after it: `log_deinit` keeps the number of the descriptor it closed,
so such a program would write to whatever file has that number by then. The text
of messages, `nerror` (counted and never read) and signal handlers are left out.

### Array, Md5, Hashkit and the code

`head[a]` is `struct array`, `mem` the heap, `each` the running `array_each`
with what its callback was given. A growing `array_push` is `GrowPush`, over a
block that `realloc` moves or leaves in place, or `PushFails`. The asserts of
`array.c` are those of `assert.h` and active, since no build file defines
`NDEBUG`; they are guards here, and in `Conf` a call that would fail one is
`Undefined`. Values are stored through the pointer that `array_push` answers,
before the next call; a caller that keeps such a pointer across a growth is not
modelled, and no code here does. `qsort` is
any permutation in order, in `Stacks` too.

In `Md5`, `lo`, `hi` and `buffer` are the fields of the context and `mixed` the
blocks that `body` was given, which stand for the chaining values. `Init`,
`Update` and `Final` are the three functions; `Fits`, `Begun`, `Whole` and
`NoRoom` their decisions. The k-th byte of the message is the number k.

In `Hashkit`, `Round` is an iteration of a loop over the key and `Finish` what
follows it, for each of the four shapes the functions have (byte by byte, hsieh,
murmur, jenkins), and `rounds` the bytes each register was given. `Jump` is an
iteration of `hash_jump_consistent`, run for all numbers of buckets at once on
one sequence of numbers.

### Nweb and the code

`daemon` and `child[c]` are the places in `main` and, for the connection of
client c, in `web`; `open` is the descriptor table of each process, by what
a descriptor leads to; `peer`, `request` and `reply` are a client's side.

| Code | Actions |
|---|---|
| `main` 174-185, 186-189, 190-194, 197-199 | `Socket`, `Accept`, `Fork`, `Close` |
| `logger(ERROR, ..)` in `main` | `DaemonFails` |
| `main` 194-196, in the child | `ChildStart` |
| `web` 70-82, 83-109, 111-113 | `Read`, `Check`, `OpenPage`, each with the `logger` call it may end in (`Refuse`) |
| `web` 114-119, 121-124, 125-126, and the exits | `Header`, `SendBlock`*, `Drain`, `Exit` |
| the clients (no code of this repository) | `Connect`, `SendRequest`, `HangUp` |

A request is the set of checks that it fails, so that one may fail several and
the order of the checks shows. A write to a client that has left is lost, or
kills the child (`Killed`, SIGPIPE). The daemon's `fork` copies its descriptors
(`open[Daemon]`) into the child, `Exit` closes the child's.

## 3. Runs

All with two workers; times are of a laptop.

| Run | Expect | Question |
|---|---|---|
| `unique` | pass | used with each key stored once: inductive invariant, memory safety, exact links, refinement of `KeyStore`, every call returns |
| `repeats` | pass | repeated keys without removal: memory safety, refinement, every call returns |
| `repeats_removed` | violation | repeated keys with removal |
| `tail` | violation | what comes of a sentinel that is used and never set |
| `conf` | pass | `conf_create(.., false)`, as `db.c` calls it, on files of the documented shape, and `conf_create(.., true)` on all small event trees and on pairs of pools, with failures at any step (two minutes) |
| `max_slots`, `listen`, `root`, `other` | violation | four disagreements of section 6 |
| `server` | pass | both loops: whole blocks, no client dropped without a NUL, every block read, the life that `Db` relies on |
| `db` | pass | four processes of the first generation and all they may fork: no early second server, ports held on the path only, working pools stay served, all comes to rest (half a minute) |
| `units` | pass | the array implements `Stacks` and keeps its blocks; the digest loses nothing and pads right; each hash takes each byte once, jumps are consistent; the web server's clients get one answer and are released; the logger, among other files and with `open` failing at will, keeps to its own (a minute) |

**Bounds.** *Skip list:* three addresses, three keys and heights up to three
(two in `repeats`). Three nodes give a first, a middle and a last node on a
level; three levels give a top, a middle and a bottom one, and heights in every
order; freed addresses are reused. `Requests` = {-1, 9} covers both corrections.
Addresses and pointers are interchangeable, but no symmetry is declared in the
runs because they check liveness. *Configuration:* event trees of up to eight
nodes over one scalar (six are needed for the smallest valid file, so valid
files with one more or one less node anywhere are included) and up to five
nodes over a directive and the empty scalar; one or two pools with every choice
of up to two (one for two pools, plus selected pairs) of eight lines, right and
wrong; three pools with every choice of three names and four listen addresses,
which is the least with which sorting can separate two equal ones; for `other`, the
trees of up to four nodes without the check. *Server:* two
clients, so that one may hang up or stall while the other waits; blocks of two
units, the least that can arrive in pieces; up to four units (`MaxSend`) each,
which is two blocks or one block and a tail. *Process tree:* four pools: one
without an address, two that want one port (one of them by a name and a number
above 2^16), and between these a `Steady` one that no call of its own server
fails for; four is the least with a pool before, a pool behind and a clash
across the steady one, and gives up to 16 processes, five generations deep.
*Log:* two descriptors beyond the standard ones (`MaxFd` = 4), so that another
file can take the number the log gave up and the table can be full; levels below,
inside and above the bounds (`LevelArgs` = {-1, 5, 6, 12}). *Array:* two arrays of one cell at first, three elements in
all (`MaxLen`), which takes one of them through two growths; three blocks, so
that a growth can move or stay. *Digest:* blocks of four bytes, of which the
length takes two, a low half that carries every eight, and messages of up to
18 bytes (`MaxMessage`): four blocks, two carries, both paddings, and every way
to cut them. *Hashes:* keys of up to 26 bytes (`MaxKey`), two rounds of the
longest loop and every remainder, at each address modulo four; four buckets
and numbers below five in place of 2^31. *Web server:* two clients, four kinds
of request (none wrong, each answer, and one that fails two checks), pages of two
blocks.

**Deadlock** is checked in the skip-list runs. A `Conf` behaviour ends, so those
runs say `CHECK_DEADLOCK FALSE`; `Terminates` catches states that are stuck for
another reason. A server may return, or wait with no client left
to come; a process tree comes to rest (which `ComesToRest` states, so that a
tree stuck elsewhere is an error); the process of a log may have aborted; a
hash ends, and a daemon may have exited with all of its children.

**Fairness.** `WF(Step)` and `WF(Work)`: a C function that has been called goes
on until it returns; there are no locks, waits or blocking calls in these two
files. Calls themselves (`Caller`, `Close`) and failures are not fair: a program
need not call anything, and memory need not run out. In `Server`, `WF(Loop)`
says that the process is scheduled, and `WF(GoesOn(c))` is an assumption on the
clients: one that has sent part of a block sends the rest or hangs up. The code
has no timeout, so nothing in it justifies that assumption, and `BlocksRead`
needs it: a client that stalls in the middle of a block stops the server for
all others. Clients need not connect, send or hang up otherwise. In `Db`,
`WF(Boot)` and `WF(Run(s))` for every process s: the kernel schedules it. What
fails, returns or is accepted is not fair. In `Nweb`, `WF(Main)` and `WF(Web(c))`
are the same, and `WF(SendRequest(c) \/ HangUp(c))` is again an assumption on the
client, since `web` waits for a request without a timeout.

## 4. Properties

Each is stated in words where it is defined.

| Module | Properties |
|---|---|
| `SkipList` | `MemorySafe`, `SuccessorExact` (every level leads to exactly the next smaller key), `StoreSpec` (the refinement), `CallsReturn` |
| `Conf` | `Defined` (of files of the documented shape, or whose structure is checked, or that an earlier pass turns down), `ArgAligned`, `Faithful` (accepted pools are well formed and what was written), `Justified` (refusals have a reason; a `max_slots` is one, see section 6), `Sound` (no two accepted pools have one name), `Terminates` |
| `Server` | `Aligned`, `TextStays`, `BlocksRead`, `LifeKept` |
| `Db` | `ForksAfterServer`, `HeldOnPath`, `SteadyListened`, `ComesToRest` |
| `Log` | `OwnMessages`, `LogOpenOnce`, `OthersStay` |
| `Array` | `OneOwner`, `EachInOrder`, `StackSpec` (the refinement) |
| `Md5` | `NothingLost`, `OneShot` |
| `Hashkit` | `KeyHashed`, `JumpConsistent` |
| `Nweb` | `Private`, `OneAnswer`, `Released` |

The linearization points of the refinement of `KeyStore`: an insert takes effect
with its assignment at level 0 (`skip_list.c:103`, first iteration), a remove with
its unlink at level 0 (137), a find when it reads. In that of `Stacks`, a growth
and the push it is for are one step, and a refused push is none.

## 5. Proofs

| Theorem | Statement | Holds for |
|---|---|---|
| `TypeCorrect` | `Spec => []TypeOK` | every value of the constants, repeated keys and unset sentinels included |
| `Invariant` | `Spec => []Inv` | every list used with discipline |
| `Safety` | `Spec => []MemorySafe` | the same |
| `LinksExact` | `Spec => []SuccessorExact` | the same |
| `Implements` | `Spec => StoreSpec` | the same |
| `CallsProceed` | `Spec => [][~Waiting => Nearer]_vars` | the same |
| `RepeatsInvariant` | `Spec => []RepeatsInv` | every list, repeated keys included, that nothing is removed from |
| `RepeatsSafe` | `Spec => []MemorySafe` | the same |
| `RepeatsImplement` | `Spec => StoreSpec` | the same |
| `TreeCorrect` | `Spec => []IInv` of `DbProofs` | any pools, whatever fails |
| `DbTypeCorrect` | `Spec => []TypeOK` of `Db` | the same |
| `ServersBeforeForks` | `Spec => []ForksAfterServer` | the same |
| `PortsOnPath` | `Spec => []HeldOnPath` | the same |
| `ServerInvariant` | `Spec => []ServerInv` | any clients, any block length, both loops, whatever fails |
| `ServerTypes` | `Spec => []TypeOK` of `Server` | the same |
| `BlocksAligned` | `Spec => []Aligned` | the same |
| `TextAlwaysStays` | `Spec => []TextStays` | the same |
| `LifeAlwaysKept` | `Spec => LifeKept` | the same |
| `WebInvariant` | `WebSpec => []WebInv` | any clients, pages of any length |
| `PrivateAlways` | `WebSpec => []Private` | the same |
| `OneAnswerAlways` | `WebSpec => []OneAnswer` | the same |
| `ArrayInvariant` | `ArraySpec => []ArrayInv` | any arrays, values, sizes and heap, whatever `realloc` does |
| `ArrayTypes` | `ArraySpec => []ArrayTypeOK` | the same |
| `BlocksOwned` | `ArraySpec => []OneOwner` | the same |
| `EachVisitsAll` | `ArraySpec => []EachInOrder` | the same |
| `ImplementsStacks` | `ArraySpec => StackSpec` | the same |
| `ConfInvariant` | `Spec => []ConfInv` | any files with libyaml's nesting, both modes, whatever fails |
| `ConfTypesOK` | `Spec => []TypeOK` of `Conf` | the same |
| `ArgAlignedAlways` | `Spec => []ArgAligned` | the same |
| `SoundAlways` | `Spec => []Sound` | the same |
| `DefinedAlways` | `Spec => []Defined` | the same; what `Defined` says is of `Trusted` calls |
| `WrittenInvariant` | `Spec => []WrittenInv` | any files with libyaml's nesting, those with any number of pools, lines and values written in them included |
| `FaithfulAlways` | `Spec => []Faithful` | the same |
| `JustifiedAlways` | `Spec => []Justified` | the same |
| `DigestInvariant` | `DigestSpec => []DigestInv` | any block of three bytes and more, any `LoSize` that is a multiple of it, any message |
| `DigestTypesOK` | `DigestSpec => []DigestTypeOK` | the same |
| `NothingLostAlways` | `DigestSpec => []NothingLost` | the same |
| `OneShotAlways` | `DigestSpec => []OneShot` | the same |
| `HashTypesOK` | `HashSpec => []HashTypeOK` | keys of any length and address, any number of buckets and range of numbers |
| `KeyHashedAlways` | `HashSpec => []KeyHashed` | the same |
| `JumpConsistentAlways` | `HashSpec => []JumpConsistent` | the same |
| `LogInvariant` | `LoggerSpec => []LogInv` | a logger used as section 2 says, any `MaxFd` from 2 and any levels |
| `Messages` | `LoggerSpec => []OwnMessages` | the same |
| `OpenOnce` | `LoggerSpec => []LogOpenOnce` | the same |
| `Others` | `LoggerSpec => OthersStay` | the same |
| `UnitsTypesOK` | `UnitsSpec => []UnitsTypeOK` | all values of the constants of `Array`, `Md5`, `Hashkit`, `Nweb` and `Log` |
| `UnitsSafe` | `UnitsSpec` implies `OneOwner`, `EachInOrder`, `StackSpec`, `NothingLost`, `OneShot`, `KeyHashed`, `JumpConsistent`, `Private`, `OneAnswer`, `LogInv` (so `OwnMessages` and `LogOpenOnce`), `OthersStay` | the same |

**Skip list.** *Discipline* is one of two assumptions: `Disciplined`, that a key
is inserted only while it is not stored, and `Additive`, that keys may repeat but
nothing is removed. The run `repeats_removed` shows that one of the two is needed.
Both include `Harmless`. Its first two parts are that the sentinel's unset key is
not above any key in use and that its unset next reads NULL; the run `tail` (and
`tail` with `TailNexts <- TailNull`, for the key) shows that they are needed. Its
third is that a list is asked for at least one level: `skip_list_create` keeps a
request of 0, and the first insert would then relink an `update[0]` that its
search loop never set. The numbers of nodes, keys and levels are arbitrary.

The argument: `SuccessorExact` alone is not inductive, because a relinking loop
uses predecessors found earlier and says nothing of them. `Inv` adds what each
`update[i]` means between the search and the relinking (`Places`), that the
cursor stands on a live node of its level in front of the place sought
(`Cursor`), that a remove unlinks the same node on every level (`Victim`, which
needs `UniqueKeys`), and how far each call has come (`Frame`). Each action
preserves `Inv`; `Inv` excludes `Undefined`. For `Implements`, initial states
map to initial states and each action maps to an action of `KeyStore` or to a
stutter; the linking and unlinking at levels above 0 are stutters.

With repeated keys "the next smaller key" does not say which node comes next, and
keys alone do not even exclude a cycle among equal ones. `RepeatsInv` says that
there is one order of the nodes, larger keys first and of equal keys the last
inserted first (`Ordering`), that every level follows (`Chained`): a search stops
in front of the first equal key on every level, so a new node goes before all of
its equals wherever it is linked (`Reached`). The order is a witness, not a
variable: `Listed(R)` is preserved with R itself by every step except the
allocation in `Insert`, which puts the new node in front of the keys that are not
larger (`ListedStep`). TLC has checked `RepeatsInv` on the instance of the run
`repeats` as well; no run lists it, since `RepeatsSafe` and `RepeatsImplement`
are what it is for.

`CallsProceed` is the part of `CallsReturn` that can be proved here: every step of
a running call is `Nearer` to its return, that is, it goes on to the next loop or
returns, goes down a level or to a place with fewer members ahead, goes up a level
of a relinking, or leaves one node less to free. What is missing to `CallsReturn`
is fairness and the induction over these measures.

**Process tree.** `ForksAfterServer` needs that the child a process forks next
is new, which holds because its loop counter is past every pool in its name
(`Ordered`); and that a name tells its parent (`ParentKnown`), so that no other
process forks the same. The steps fall into those of one process alone
(`LocalStep`) and `Fork`.

**Server.** `Aligned` says nothing of the client being read. `ServerInv` counts
for it as well: what was taken from a client, without what is in a buffer not
yet full, is a whole number of blocks, or the client has hung up and all was
read (`Counted`); the buffer is empty outside `read_n` (`Places`). `TextStays`
needs that the buffer of a client without NULs begins with text as soon as a
read has returned, hence that what it has sent is text throughout (`Kept`).
`NoRemainder` leads from a multiple of the block to the `%` of `Aligned`.
`LifeKept` follows from the places of the loop step by step; with it, what `Db`
assumes of a server is proved of `Server`.

**Web server.** `Private` needs what the daemon has open at each place of its
loop (`Handover`): at the `fork` that is exactly the listening socket and the new
connection, which is what a child starts with (`Owned`). `OneAnswer` needs what
has been written at each place of `web` (`AnswerAt`): nothing until a refusal or
the header, then the beginning of the page up to `sent`; `Pieces` is the fact
that a beginning and the next block are a beginning. A client that `Accept`
has not taken has no child (`Queue`), so that its arrival changes no answer.

**Array.** `OneOwner` needs that an array which is not there counts no elements
and one which is there has room for one (`Sized`: a growth doubles the room, and
twice nothing is nothing); `EachInOrder` needs that the array of a running
`array_each` is not emptied under it (`Walk`). `ArrayInv` is their conjunction
with the types. What a push, a pop, a sort or a creation does to it has one form
(`Becomes`: an array goes on with so many elements in such cells of such a
block), for which `BecomesInv` shows once that no other array is disturbed and
`BecomesSeen` what a caller sees. Each step then maps to the step of `Stacks` of
the same name, a growth with its push to `Push`, the refused push and the steps of
`array_each` to none.

**Logger.** `OwnMessages` is not inductive: it needs that the descriptor in
use is the log's (`LogOpenOnce`), which in turn needs that a reopening never
lands on a number still in use, that is, that `open` gives a free one
(`Opening`, from the existence of a least element, `MinNat`), and that the
descriptor 2, which `log_deinit` and `log_reopen` take for "no file of ours", is
never the log's (`Streams`, `InUse`). `LogInv` is the conjunction.

**Configuration.** Two passes keep counters instead of the nesting itself:
`conf_validate_structure` a depth, a count for each level and `seq`, the parser
`depth`, `seq` and the stack `arg`. `ConfInv` relates both to `At`, what is open
around the next event. `Fits` says which values of the check's counters belong
to which nesting; together with the fact that what has passed so far is of the
documented shape it is inductive (`StructureInv`; `CheckedFits` is the step), and
at the end of the pass it gives `Shaped`: the check lets nothing else through.
In a file of that shape only twelve steps from nesting to nesting exist (`Turn`,
`Turns`), and for each of them the matching action of the parser keeps `Aligned`:
depth, `seq` and the length of `arg` follow from what is open, and below a pool
`arg[1]` is the name of the pool filled. `ArgAligned` is read off `Aligned`.
`Defined` needs in addition that no pool is left `Raw` (`NoRaw`), which holds
because a lone scalar at depth 1 always initialises what it pushed
(`HandlerFacts`), also when the name cannot be copied (`UncopiedFacts`,
`PoolScalarFailsKeeps`): `conf_pool_init` sets the other fields first, and the
mutant that copies the name first fails. `Sound` has an argument of its own:
sorted names of which no two neighbours are equal ascend strictly, because `Rank`
tells strings apart, and then no two of them are equal (`Ascending`, `NamesDiffer`).

Seven assumptions on the constants are named in `Conf`. `ModeAssumption` is that two
of them are Booleans; `FilesAssumption` is what libyaml documents of its events (they nest,
the stream ends last); `PoolsAssumption` that the pools of a file are those its
events say (`Meaning`), if it has any and is one document; `RankAssumption`
is that `string_compare` (`cstring.c`) answers 0 for equal strings only;
`NumAssumption` that `str_atoi` answers an integer; `MaxSlotsAssumption` that the
heap holds one where `max_slots` will be; `RawAssumption` that a pool nobody
initialised is none that somebody did. TLC evaluates them on the files of every
run of `MCConf`. `DefinedAlways` has no assumption on the calls; the condition,
`Trusted`, is in `Defined` itself. It is no convenience: `db.c` asks for no
structure check, and then a file of any other shape leads the parser into the
states that `Undefined` names (a mapping of a scalar to a scalar leaves a `Raw`
pool to be compared and freed, the run `other`) or to where it never returns (a
lone scalar, the run `root`). In the run `conf` every call without the check is
`Trusted` (`ConfCallsTrusted`, which TLC evaluates), because `Terminates` would
fail of the others.

**Written files.** `ConfWritten` builds on `ConfInv` and follows a file in which
pools are written from event to event, with R, what has been read before the next
one, in place of a position in a flattening. `WrittenInv` says, pass by pass: R
is within the pools (`Bounds`); while the structure is checked, one list was seen
in every pool that is over and as many as `check.seq` says in the last one
(`ListsSeen`); while the parser works, every pool that is over is `Complete` and
the last one `Filled` up to the value read: each directive given so far has the
value of the one place that gives it, each other its unset value, and no text is
empty and no number negative. `Faithful` then needs that the two sorts are
permutations (`Sorted`) and that the defaults of `conf_validate_pool` are those of
`Meant`; `Justified`, that a refusal at any of these steps is one of the cases of
`Faulty`: the duplicate test can only fire on a second place, or on a `max_slots`
(the run `max_slots`), and a clash of neighbours is a clash of two written pools.

**Units.** `UnitsSpec` runs one unit and leaves the variables of the others alone,
so it implies each unit's own specification (`UnitsTogether`); what is proved of
`Array`, `Md5`, `Hashkit`, `Nweb` and `Log` by themselves then holds of what the run
`units` checks.

**Digest.** `NothingLost` and `OneShot` are inductive with the types (`DigestInv`).
The work is in the arithmetic: `UsedNext` gives the place in the buffer after an
update from the one before, `LengthKept` shows that the sum cut to the low half
and the carry found by comparison (`NewHi`) still make the length, also when an
update is longer than the low half can count. `UpdateFits` and `UpdateLong` are the
two ways through `md5_update`; `WholeBlocks` says that the blocks cut from the
caller's data are the next ones of the message. `FinalStep` shows byte by byte
that the one or two blocks of `md5_final` are those of the padded message.

**Hashes.** `KeyInv` says of round i and register r which bytes they hold: those
of a slot `Width` long that begins at `Step * (i - 1) + Width * (r - 1)`, as far as the
key goes (`RoundOK`, `Takes`). Every byte of the key lies in one slot alone
(`OneSlot`, `EachOnce`), hence `KeyHashed`. That aligned words, half words and
bytes of `hash_jenkins` are the same terms is `JenkinsReads`: all three read
`Little`, the bytes there are, little end first. `JumpInv` compares the walks for
n - 1 and n buckets (`Together`): they are in step until the smaller one ends, and
the larger one can then only have stopped on n - 1.

Only model-checked: the liveness properties `CallsReturn`, `Terminates`,
`BlocksRead`, `SteadyListened`, `ComesToRest` and `Released`, which are out of the
prover's reach. That a file made by `Written` satisfies `Meaning` and `Shaped` is an
induction over data, which the installed provers do not do: `PoolsAssumption` and
`ConfCallsTrusted` have TLC evaluate it on the files of every run. Every safety
invariant, action property and refinement of a passing run is proved.

## 6. Disagreements found

1. Removing a repeated key leaves a freed node linked (`skip_list.c:131-144`);
   the repository's own test does this (210-243).
2. Nothing ever sets the tail (`skip_list.c:64`), whose next `skip_list_destroy`
   frees (181) and with whose key insert compares new ones (87).
3. The first `max_slots` of a pool is refused as a duplicate: the field is never
   initialised (`conf.c:21-42`, 1127).
4. Two pools that listen on the same address and port are accepted when a third
   pool with that address stands between them (`conf.c:981-989`).
5. Without the structure check a file that is a single scalar makes
   `conf_begin_parse` loop for ever (`conf.c:268-296`).
6. Without that check, which `db.c:32` does not ask for, a file that is one
   mapping of a scalar to a scalar ends with a pool that was pushed and never
   initialised; `conf_validate_pool` asserts that it has a name (`conf.c:935`),
   in an `ASSERT` that expands to nothing, and its unset strings are compared and
   freed.

Not properties of any document, and so no finding, but shown by the models: a
client that has hung up is never taken out of the set (`TextStays`); an epoll
server without a socket waits for ever (`ListenFails`), and its process with it
(`AtRest`); a child whose server has returned starts servers of the later pools a
second time, which find the port taken and are deaf; the first child that ends
takes main to its end while the others run (`Wait`); `log_panic` returns when the
log file could not be opened (`Written`, `PanicEnds`); one failing `accept` or
`fork` ends the web server's daemon.

## 7. Not modelled, and why

*Numbers and strings:* overflow of `str_atoi` and of `depth`, the size of
strings, the text of error messages, `conf_dump`, the setters in no command
table. `SinPort` cuts a port to 16 bits; that nothing checks its range is seen
in the run `db`, where two pools want one port. *Server:* interrupted reads (no
handler is installed), connection resets, `write_n` (no caller), and what the
kernel's backlog turns away. `strlen` is applied to a buffer of 1024 bytes that
nothing ends with a NUL (`net_wrapper.c:45`, 91): of a full block without one it
reads on behind the buffer, which is undefined; `FullBlock` takes the usual
outcome, a length that is not zero, and only whether it is zero matters to the
loop. A `setsockopt` that fails would leave a socket that listens and a server
that does not use it; with these arguments it has no reason to fail, and
`ListenFails` stands for `listen` alone. *Logger:* the length arithmetic of the
formatting functions, and any use after `log_deinit` but `log_init`. *Configuration:* a file that changes between two passes, the event
and token a failing pass leaves behind (a leak the code makes no promise about).
*Skip list:* allocation failure inside `skip_list_create`. *Process tree:*
several processes that print to the same terminal; a port that the kernel keeps
in TIME_WAIT after its sockets are closed (`HeldOnPath` speaks of the sockets of
processes alone, and a `bind` may fail for it as for any other reason, except of
a `Steady` pool); which port a pool gets that asks for port 0 (`Clash` has it
that it is never another's). *Array:* `array_idx`,
`array_null` and `array_set`, which have no caller, and a caller that uses an
element's address after a growth has moved it. *Digest and hashes:* the
mixing itself, which has no reference in the repository to compare it with.
*Web server:* the checks of its arguments and the `fork` that makes it a daemon
(they print and exit), lines of `nweb.log` that two children write at once, the
Content-Length of a page that changes while it is sent, and clients that close
only one direction or leave while they are queued. *Others:* `simpleclient.c`
sends one message and prints one answer.

## 8. Plan

Done: `KeyStore`, `SkipList`; `ConfFile`, `Conf`; `Server`, `ServerLife`, `Db`,
which compose; `Log`; `Array`, which implements `Stacks`; `Md5`, `Hashkit`; `Nweb`;
and the proofs of all of them. Left, in this order:

1. The lengths of log lines; the overflow of `str_atoi`; a configuration file
   that changes between two passes.
2. A `Server` that implements "a queue of blocks per client"; connection resets.
