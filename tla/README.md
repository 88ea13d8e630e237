# A TLA+ model of chlibs

chlibs is three C libraries built on one another. **chsys** keeps a process
tree and counts heap blocks. **chutil** has containers and strings. **chjson**
has JSON trees, a writer and a parser. This directory holds TLA+ modules for
all three, the TLC configurations that check them, and TLAPS proofs about the
process tree, the accounted memory, both lists, strings, the heap, the hash map,
the ownership of JSON trees and UTF-8. `PROJECT.json`
ties every definition to the lines of `src/` it models, lists the hazards of the
code with the properties that answer them, and gives a plausible bug ("mutant")
that breaks each property.

    tlc -workers 2 -config SysSafety.cfg MCSys.tla     # model-check one run
    tlapm MemProofs.tla                                # check the proofs of one module

## 1. Inventory

### chsys: processes, memory, logging (`src/chsys`)

| part | state | operations | hard behaviour |
|------|-------|------------|----------------|
| process tree (`sys.c`) | `ss` (a pointer to the system state), `sys_mut`, `ss->child_list`, the signal mask, one `sig_thread` per process | `sys_init`, `safe_fork`, `safe_waitpid`, `safe_exit_p`, `sys_lock`/`sys_unlock`, `log_fatal_p` | fork copies a locked mutex and another process's list; `waitpid` runs without the lock; exit frees `ss` under other threads; SIGINT can come at any time |
| memory (`mem.c`, and the counter of `sys.c`) | `malloc_count`, `quiet` | `safe_malloc_p`, `safe_realloc_p`, `safe_free_p`, `sys_reset_malloc_count_p`, the leak warning of `safe_exit_p` | the block and its count change in separate steps, with the lock taken only for one of them |
| logging (`log.c`) | none but the terminal | `log_*_p` | `log_fatal_p` ends the process, from inside or outside the lock |

Correct means: the mutex is held by exactly the thread that is inside; nobody
reads `ss` after it is freed; the child list is what `safe_exit_p` needs, so
that no process leaves children behind; a process told to end does end; the
counter is exact and the leak warning is neither missed nor false.

### chutil: containers (`src/chutil`)

| part | state | operations | hard behaviour |
|------|-------|------------|----------------|
| lists (`list.c`) | an array with `cap`, `len` or a doubly linked chain; an iterator; a table of functions | push, pop, poll, get, set, iterate, delete | the two implementations must be indistinguishable; the array grows; the links are rewired at both ends |
| list helpers (`list_helpers.c`) | the iterators of the two lists | equality | a list compared with itself has one iterator, not two |
| strings (`string.c`) | a handle to a reference-counted buffer or literal | new, copy, substring, append, set, delete, compare, hash | buffers are shared until the first change; capacity includes a NUL |
| heap (`heap.c`) | an array with cached priorities; an iterator | push, pop, peek, `hp_re_heap`, iterate, delete | the two bubbling loops; priorities go stale when what the values point to changes |
| hash map (`map.c`) | chains, their number, the number of keys; an iterator | put, get, remove, iterate, compare, delete | the table is rebuilt as it grows; the iterator steps over empty chains |
| streams (`stream.c`) | position in a file or a string; one character of look-ahead | peek, next, put | errors in mid-stream; the buffer of an output string |
| UTF-8 (`utf8.c`) | none | encode, decode | bit arithmetic at the borders of the ranges |

Correct means: each container implements its abstract data type for every
sequence of operations, reads only cells that were written, and neither loses
nor shares what it should not.

### chjson: JSON (`src/chjson`)

| part | state | operations | hard behaviour |
|------|-------|------------|----------------|
| trees (`json.c`) | `json_t` blocks, each with a list, a map or a string it owns | construct, look up, compare, delete | a tree owns all its parts; the null value is static and never freed; `hm_put` of a key that is there drops the old value |
| writer (`json_helpers.c`) | its recursion; the out stream | `json_to_stream`, `json_to_string`, spaced or not | a put may fail at any character, on any level; escapes |
| parser (`parser.c`) | its recursion; the in stream; the values being built | `json_from_in_stream` | an error on any level, with values of every level half built; look-ahead; escapes to UTF-8 |

Correct means: every block is freed once on every path, error paths included;
what the writer writes the parser reads back as an equal tree, with its numbers
rounded to 15 digits; the parser accepts JSON and nothing else, except for a few
forms of numbers and strings that are named one by one (section 6), and takes no
character too many; a file that fails does not pass off a part for the whole.

### How the parts interact

chsys calls the kernel (fork, waitpid, kill, threads). Every other part
allocates through `mem.c`, which locks through `sys.c`, whose fatal errors end
the process through `safe_exit_p`. `map.c` and `heap.c` call back into the
program (`hash_func`, `eq_func`, `priority_func`). The parser builds strings
with `string.c`, lists with `list.c` and maps with `map.c`, reading a stream.

## 2. Modules

| module | models | kind |
|--------|--------|------|
| `Sys` | `sys.c`: the whole tree of processes, their threads, mutexes, lists and signals | component |
| `ProcTree` | what chsys promises: a tree of processes that is torn down from the leaves | abstract |
| `Mem` | `mem.c` and the counter of `sys.c`, in one process with several threads | component |
| `ListCommon`, `ArrayList`, `LinkedList` | the two implementations in `list.c` | components |
| `List` | `list_t`: the choice between them, behind one interface | composition |
| `ListADT` | a sequence with an iterator | abstract |
| `SharedString` | `string.c`: handles, buffers, literals, counts | component |
| `StringADT` | strings as values of their own | abstract |
| `Heap` | `heap.c`, with its loops one turn a step | component |
| `PriorityQueue` | a bag whose least is handed out | abstract |
| `HashMap` | `map.c`: chains, growth, removal, iterator | component |
| `MapADT` | a partial function with an iterator | abstract |
| `Stream` | `stream.c`: the text that a stream delivers or was given, and its failures | operators |
| `Utf8` | `utf8.c`: encoder and decoder | operators |
| `JsonTree` | `json.c` with `hm_equals` and `l_equals`: trees on a heap of blocks | component |
| `JsonChars` | the characters that the writer and the parser know | operators |
| `JsonNumbers` | the numbers: `snprintf` with `"%.15g"`, and `strtod` | operators |
| `JsonWriter` | `json_helpers.c`: the recursion as a stack, one row of puts a step | component |
| `JsonParser` | `parser.c`: the recursion as a stack, with what each call owns | component |
| `JsonGrammar` | the JSON grammar over tokens | reference definition |
| `Json` | a program that builds, writes, reads and deletes trees | composition |
| `MC...` | instances of the above for TLC: model values, symmetry | checking |
| `SysProofs`, `SysTreeProofs`, `MemProofs`, `ListProofs`, `SharedStringProofs`, `HeapProofs`, `HashMapProofs`, `JsonProofs` | theorems | proofs |

Every detailed module of chsys and of the containers instantiates its abstract one under a refinement mapping,
and states that as a property (`Tree`, `AnyList`, `AlList`, `Strings`, `Queue`,
`Map`). The JSON modules have theirs in the form of reference definitions:
`JsonGrammar` for the parser, `Same` for `json_equals`.

### State and actions, and the code they stand for

**Sys.** A process is a pid; `status` and `parent` are the kernel's view of it.
`ss`, `mutex` and `childList` are the variables of `sys.c`, one copy for each
process, since fork copies them. `pc` and `hand` say where each thread is and
what pid it holds in a local variable. A step is one system call, or a stretch
of code that no other thread can see half done. `safe_fork` is therefore
`SafeFork` (lock and fork), then `AddChild` or `AddChildFails`/`UndoWait` in the
parent and `PrepareFromChild`, `SpawnSig` in the child. `safe_waitpid` is
`SafeWaitpid`, `WaitReturns` without the lock, and then `SearchReaped` with it,
which is `RemoveReaped`, or `ReapedNotFound` if the pid is not in the list (it
always is: `ListAccurate`); the call with WNOHANG is `PollReturns`. `sig_thread`
is `SigThread`, which takes a pending SIGINT, and `SigwaitFails`, a fault. `safe_exit_p`
is `Exit`, `ExitLock`, the loop `KillChild`/`ReapKilled`, `FreeState` and
`ProcessExit`. The kernel may hand out again a pid in `Recyclable`. The calls in
`Faults` may fail, and then the code's own error path is taken. The kernel's
calls and the mutex are not in `src/`; they are modelled by how `sys.c` uses
them.

**Mem.** A block is free, allocated but not counted, counted, or uncounted but
not yet freed. `debt` is a history variable: the counted blocks that
`sys_reset_malloc_count_p` made the counter forget. `ForkedChild` is the fork
seen from the child: the counter and the blocks stay, the other threads are
gone.

**Lists.** A cell that was never written holds `Junk`, so that reading one
shows. Linked nodes are model values, allocated and freed. Iterator fields are
uninitialised in a new list; the model starts them anywhere and lets the program
iterate only after a reset, as the callers do. `AlDelete`, `LlDelete`,
`DeleteHeap` and `DeleteHashMap` are the deletion of a container together with
the creation of the next one: the nodes it should free come back to be
allocated, so that one left behind or freed twice shows in `WellLinked`.

**SharedString.** A string is a handle to an address; an address holds a buffer
or a literal, a count, the characters and the capacity. Characters are numbers,
0 the NUL, because `strlen`, `strcmp` and `strcpy` stop there and `s->len` does
not.

**Heap.** One turn of `hp_bubble_up`, of the loop in `hp_pop` or of `hp_re_heap`
is one action. The cell that is moving is in `flight`, its place to be is
`hole`. `prio` is the program's `priority_func`, which may change between
operations. `HpNext` is used only between `HpResetIterator` and the next change
of the heap (`iter` is `NotInUse` otherwise): nothing says what the iterator
visits while cells move under it.

**HashMap.** A chain is a sequence of nodes. `Hash` is the program's
`hash_func`. The chain to use is always `Hash[k] % cap` (`Slot`). `Rehash` is the
double loop of `hm_check_resize`: chain after chain, and in a chain from the first
node on (`Moved`), each node goes to the head of its new chain (`AtHead`).

**Streams.** An in stream is a text and a position. The one character of
look-ahead of a file stream is the character at the position, so `peek` and
`next` are `PeekChar` and `NextChar` for files and strings alike. `fgetc` gives
EOF for an error too, and the code takes both for the end: `Delivered` is the
text up to any place. A put fails when `fputc` does.

**UTF-8.** Masks and shifts of 16-bit code points as `%` and `\div`. The parser
uses the encoder for `\uhhhh`, with the bytes converted to signed `char`s.

**JSON trees.** A block stands for one `json_t` with its list or map, or for one
`string_t`; an address holds a block or is free, so that a double free, a
dangling pointer and a leak are visible. Lists, maps and strings behave as
`ListADT`, `MapADT` and `StringADT` say, which is what the other modules show of
them. A constructor needs a free address (`HasRoom`): without one the model stops, and
the run would report a deadlock. The two recursions of `json_equals` and
`hm_equals`, through each other, are one recursive function on pairs of values (`ValuesEqual`). `lost` is a history variable: the blocks to which `hm_put` overwrote the
only pointer.

**The writer and the parser.** Both recurse in C and have a stack here.
`json_to_stream_helper` is `WriteLeaf`, `WriteOpening`, `WriteMember` and
`WriteClosing`; a step is a row of puts and fails after any number of characters.
The parser's frames are the calls that own something: a list or object being
filled, and the key of a pair whose value is being read. Lexical functions
(`expect_cstr`, `trim_ws`, strings, numbers) are operators that return the
position where they stop, also on an error. The error path of each recursive
function is `Propagate`: delete what the call owns and go up.

**Numbers.** A `double` is an exponent, a sign and a row of decimal digits, which is
what it is exactly. `NumberText` is `snprintf`: `Rounded` to `Precision` digits (15 in
the code), half to even, without zeros at the end (`Canonical`), with an exponent if
that is less than -4 or not less than the precision, and cut at `NumberWidth`. `IsNumber` says whether `strtod`
takes the whole of `buf`: a sign, digits with one point or none, anywhere, and an exponent.
`Strtod` is what it then returns, without rounding to a `double` (section 7).

**Json.** The program builds a tree with the constructors, writes it, reads it
back and deletes both; or it reads a text from elsewhere (`Foreign`). `Pointers`
is the bag of all the pointers to blocks: those of the program and of the calls of
the parser (`Held`) and those of the blocks themselves (`Inside`).

## 3. Runs

All runs use breadth-first search over the complete state space of the instance.
Times are with two workers and `-coverage`.

| run | instance | shows |
|-----|----------|-------|
| `SysSafety` | 3 pids (2 of them recycled), 2 program threads and the signal thread in each, all faults; about 540 000 states, four minutes | the lock, the list and the tree are right in every interleaving; `Sys` implements `ProcTree` |
| `SysLive` | 2 pids, 1 of them recycled, 2 program threads in the root, `malloc` failing, with fairness; 31 000 states, three minutes | a process that is interrupted, that exits or that meets a fatal error ends; `safe_waitpid` returns what it reaped, although another thread forks, waits and locks again and again |
| `SysStalePid` | 3 pids, 1 of them recycled, no faults | finding 1 (violated) |
| `Mem` | 2 threads, 3 blocks, SIZE_MAX 2; 4 500 states | counter, underflow and leak warning |
| `List` | 2 values, 4 nodes, array up to 5 cells; 128 000 states | no junk, links in order, no node lost in deletion, both implementations are lists |
| `ListGet` | the same, any index | finding 2 (violated) |
| `SharedString` | 3 strings, 4 addresses, up to 3 characters; 5 900 states | counts, capacity, no aliasing |
| `Substring` | the same, substrings from 0 or 1 | finding 3 (violated) |
| `Heap` | 2 values (symmetric), 3 priorities, up to 5 cells; 176 000 states, one minute | heap order and its loop invariant; a priority queue with an iterator |
| `HashMap` | 4 keys, table from 1 chain up; 16 000 states | each key in its chain, the load, a map with an iterator |
| `Json` | trees of up to 5 calls, one fault; rows of up to 4 tokens and 120 more, some longer; 245 000 states, two and a half minutes | no leak, no double free, round trip, faults, grammar, numbers, equality; with fairness, every call returns |
| `JsonQuote` | strings of one character | finding 4 (violated) |

### Bounds, and why they are enough

- **Sys.** `Pid` bounds the number of processes ever; a recycled pid may be
  forked again without end. Three pids give a parent with two children, a
  grandchild, and a pid that comes back in another branch of the tree. Two
  program threads give every pair of calls in one process: fork against wait,
  wait against wait, either against exit, and the signal thread as a third. The
  constraint `Bounded` keeps three processes or two threads in one of them, not
  both at once. It leaves out races between two threads of one process while a
  third process exists; with two processes the same races are all there, and the
  proofs of section 5 are not bounded. Processes other than the root are
  interchangeable, hence the symmetry.
- **SysLive.** No symmetry, which liveness would not survive. The root has two program
  threads and its signal thread, all after one lock, and the child's pid comes back, so
  that one thread can fork, wait, lock and unlock for ever while another has reaped
  a child and waits for the lock. The strong fairness of section 4 is needed for that: with weak
  fairness in its place TLC finds each of the three properties violated. The constraint
  `OneThreadBelow` keeps a child at one program thread and its signal thread. It cuts
  off `SpawnThread` in children only, a step that no fairness asks for, so that each
  behaviour that is left is a whole one. Of the faults only `malloc` is there, which
  undoes a fork with the lock held; the other error paths end in the same `dying`, and
  `SysSafety` takes them all.
- **Mem.** `SizeMax = 2` with three blocks reaches the overflow; two threads
  reach every interleaving of two calls.
- **Lists, Heap.** A length of 5 passes three doublings of an array of one cell.
  Five cells have three levels, with an inner node that has two children and one
  that is the last of its row. `MaxLen` is a guard of push. `List` restricts the
  index to 0, the only one at which the code's `ll_get` and `ll_set` do what the
  interface says (finding 2).
- **SharedString.** Three strings let two share a buffer while a third is copied
  from one of them; the fourth address is the buffer that a change needs for a
  moment. The characters are the NUL and one other, for what matters is where a
  string stops: `s_append_string` adds what comes before the first NUL. `Start` is {0} in the passing run because of finding 3.
- **HashMap.** The code starts with eight chains. The model starts with one, a
  parameter, so that four keys make the table double three times. Two keys have
  the same hash and always collide; a third shares their chain in all tables but
  the largest, and the fourth is in a chain beside it or in the first one, so
  that the iterator has empty chains before, between and after the full ones.
- **Json.** `MaxCalls = 5` gives trees three levels deep and lists or objects of
  two members, with a key put twice. `MaxAddr = 14` is enough for the tree and
  what is read of it (on a full heap the model would stop, and the run
  would report the deadlock). Foreign
  texts are all rows of up to 4 tokens of punctuation, a blank, a string and a
  word, and single texts for what takes more: each kind of string, escape, word and
  number alone, in a list, and three levels deep, where an error must unwind a
  list, a pair, an object and another list; objects with equal keys, with keys in
  another order, and lists of them to compare. `MaxFaults = 1`: one put of the
  writer fails, anywhere; what can be read of a file ends anywhere.
  `Precision = 2` stands for the 15 of `"%.15g"`, and the number that the program
  writes, -125, has a digit more, ends in a five, and is written with an exponent:
  `-1.2e+02`. `NumberWidth = 10` stands for the 26 of `CHJSON_NUMBER_MAX_STR_WIDTH`, so
  that a text can be too long for it but no number written is. All other numbers are
  met in the assumption `NumbersReadBack`, which TLC evaluates: each of `SmallNumbers`
  (up to three digits, with exponents on both sides of every border of `%g`)
  is written as a text that `strtod` takes and reads as the rounded number. Tokens for the
  grammar are of four kinds: JSON that the parser reads, JSON that it does not (`Unread`),
  what it reads although it is not JSON (`Lenient`), and neither. `HashSize` is 2^16 in
  place of the 2^32 of `uint32_t`, since TLC's integers have 32 bits. The keys `""` and
  `"\u0000"` are equal for `s_equals` and have different hashes.

## 4. Fairness

`FairSpec` in `Sys` assumes three things of the platform and of the program.

- `WF(SigThread)` and `WF(Internal)`: the scheduler runs every thread that can
  run, and a system call that can return returns. `SigThread` is only the taking
  of a signal that is pending; that `sigwait` fails is never assumed.
- `SF(Locking)`: a thread that waits for `sys_mut` gets it, although others take
  it again and again in between. This one is an assumption about the platform that
  POSIX does not make: a `pthread_mutex_t` may let a waiter starve, and then all
  three properties fail, `WaitReturnsPid` by a thread that has reaped a child and never
  gets to return it. What `SysLive` shows is that nothing in the code itself stands in
  the way.
- `Unlock` is in `Internal`: the program does not keep the lock for ever.

Nothing is assumed about what the program decides to do (`Choice`), nor about
anybody sending a SIGINT.

`FairSpec` in `Json` assumes `WF(Running)`: a call of `json_to_stream` or
`json_from_in_stream` that has begun goes on until it returns. The caller waits for
it, and nothing in it blocks. Whether the program makes the call is left to it.

## 5. Proofs

TLAPS checks the following for every value of the constants that satisfies the
assumptions of the module. The assumptions, and what the code has for them:

- special values (a null pointer, an unwritten cell, no value) are distinct from
  the ordinary ones; bounds, indices, priorities and hashes are natural numbers;
  the two kinds of list have different names (`ImplAssumption`);
- a process has finitely many threads (`ThreadAssumption`), the heap finitely many
  blocks (`MemAssumption`), a program finitely many strings (`StringAssumption`);
- there are finitely many keys of `key_size` bytes (`HashMapAssumption`), and a new
  table has at least one chain;
- the texts that the program hands to `s_append_cstr` and the constructors have no
  NUL inside: they are C strings;
- of JSON: strings and keys are sequences of `char`s and numbers are rows of an exponent,
  a sign and digits (`TextAssumption`); `"%.15g"` has at least one digit
  (`PrecisionAssumption`); hashes are taken modulo a positive number
  (`JsonTreeAssumption`); the heap has finitely many blocks and the static null is not one
  of them (`JsonTreeAssumption`); a number has room for one character at least
  (`NumberAssumption`); faults are counted by a natural number (`FaultAssumption`).

Priorities are numbers because `priority_func` returns a `uint32_t`; the proofs
use of them only that `<=` is a total order. `MaxLen`, which bounds lists,
heaps and strings for TLC, may be any number.

**SysProofs** (any number of processes and threads, any faults, any recycled
pids; no constraint).

- `LockHeld`: `LockDiscipline` always. `NeverUsedFreed`: `NoUseAfterFree`
  always. The two need each other and three facts more, `CtlInv`: a process that
  does not run has no thread anywhere; a thread after `free(ss)` has freed it; a
  process that has not called `sys_init` has one thread; a thread still before
  its first `spawn_sig_thread_p` has no company. They are preserved for one of
  three reasons, each a lemma: a step moves a thread within the lock's inside or
  outside (`MoveCtl`), takes the lock (`AcquireCtl`) or lets it go
  (`ReleaseCtl`). Starting, forking and ending a process are treated one by one.
- `TypeCorrect`: `TypeOK` always. It needs `DataInv`: a thread that is in
  `forked`, `undo` or `reaped` has a pid in hand, one that waits may also have
  `AnyPid`, and a thread in `exitwait` finds the list non-empty. The last is where
  the lock matters: by `Excluded`, no other thread can have touched the list.

**SysTreeProofs** (the same, from the invariant of `SysProofs`).

- The inductive invariant is `TreeInv`, said of one process at a time. `Counted`:
  for every pid, the nodes in the list and the threads about to add one are no
  more than the threads about to remove one and the child itself; outside
  `safe_exit_p` the two are equal. Counting is needed because of recycled pids,
  with which one pid can be in the list twice. `Tracked`: each child is in the list
  or in the hand of a thread that forks. `Childless`: a process that is gone, or
  that has just been forked, has none. `Cleared`: a thread that has freed `ss` has
  emptied the list.
- The lemmas first say how removing or adding one element counts
  (`WithoutCounts`, by a bijection between the places of the two lists; induction
  is not needed), then that most steps keep everything that is counted
  (`KeepsTree`); the steps that do not are treated one by one. The lock enters
  through `Lonely`: while a thread is inside, no other thread of its process
  is at a place that counts.
- `ListIsAccurate`, `ChildrenAreTracked`, `NobodyOrphaned`, `KillsAreKnown`: the
  invariants `ListAccurate`, `ChildrenTracked`, `NoOrphans`, `KillsOnlyKnown`. By
  the first, the message "Reaped child not found in child list"
  (`src/chsys/src/sys.c:265`) is never logged.
- `SysIsATree`: `Spec => Tree`, the refinement of `ProcTree`. Its one hard step is
  `ProcessExit`, a `Leave` only because `FreedChildless` holds.

**MemProofs** (any threads, blocks and SIZE_MAX).

- `CounterExact`: `count + debt = |Counted|` always, by the cardinality lemmas
  `CountedAdd`, `CountedRemove` and `CountedMove`. The inductive invariant adds
  `InHand`: what a thread has in hand is in the state its place says, and no two
  threads hold one block.
- `TypeCorrect`, `UnderflowOnlyAfterReset`, `WarningExact`: `TypeOK`,
  `UnderflowNeedsReset` and `LeakWarning` from the same invariant.

**ListProofs** (lists of any length, any nodes and cells).

- `ArrayListNoJunk` and `ArrayListIsAList` are about the array list alone: no cell
  below `len` is unwritten and none is handed out, and `AlSpec => AlList`. Each
  operation maps to the operation of the same name, a resize to a stutter inside
  push, deletion to `Renew`.
- The inductive invariant of the linked list is `Linked`, which names the chain:
  there is a sequence of distinct nodes, as long as `ll->len`, from `first` to
  `last`, linked by `next` one way and by `prev` the other, whose nodes are those
  that are allocated. `WellLinked` says the same through `NodeAt`, the walk from
  `first`, but cannot be carried over a step as it stands, since the walk of the
  next state is another one; with the chain in hand each operation makes the next
  one (`Longer`, `Front`, `Rest`). `LlDelete` needs that the walk along `next` that
  frees the nodes meets every one of them (`FreesAll`).
- `TypeCorrect`, `NoJunkOut`, `AlwaysLinked`: `TypeOK`, `NoJunk`, `WellLinked` of a
  list with either implementation.
- `EitherIsAList`: `Index \subseteq {0} => (Spec => AnyList)`. The hypothesis is
  finding 2: `FindsFirst` proves that `ll_get` and `ll_set` use the first node for
  every index, so that only index 0 is right; the run has the same restriction.
  Everything else, iteration included, holds of both lists.

**SharedStringProofs** (any strings, addresses, characters and lengths).

- `CountsAreExact`, `NeverOverrun`, `TypeCorrect`: `RefCountExact`, `NoOverrun` and
  `TypeOK`, which are inductive together. Counting goes by `Redirect`: giving a
  string another address takes one from the old address and adds one to the new,
  whichever of them is null. What they give the code is `Sharing`: a count of one
  means that no other string sees the buffer, so that `s_prepare_modify` may leave it.
- `SharingUnseen`: `Spec => Strings`. Each handle has the characters its address
  has; a change of one handle's is proved not to show in another's. `Copies` of
  `StringADT` allows any part of a string, so this holds for any range given to
  `s_substring`; that it is the wrong part is finding 3.

**HeapProofs** (any size, any priorities, changing at any time between operations).

- `OrderedAroundHole`, `AlwaysOrdered`, `TypeCorrect`: `HeapInv`, `HeapOrdered`
  and `TypeOK`. `HeapInv` is about every turn of the loops, and needs `Shape` to be
  inductive: what the program counter says of `hole`, `end` and `flight`, and that
  only the hole may hold an unwritten cell. The two hard turns are `BubbleUp`,
  where the children of the hole must not be less than the hole's parent, and the
  one of `hp_pop`, where `SwapIsLeast` says what the two comparisons choose.
- `HeapIsAPriorityQueue`: `Spec => Queue`. The bag is counted over the cells, with
  the item in flight in the hole: a turn exchanges two places (`Exchanged`) and
  changes no count. `RootLeast` gets from the order of each cell and its parent to
  the least at the root. `hp_re_heap` regroups the items of one value under its new
  priority (`Regrouped`, by a bijection). The iterator's `Left` is the bag of the
  cells from `iter` on.

**HashMapProofs** (any keys, any hash function, any first capacity).

- `AlwaysRightChain` and `AlwaysLoadBounded`: the invariant is `Good` (each node
  in its chain, one for each key), and that `numKeys` is the number of keys. Most
  of the work is `RehashGood`: the double loop of `hm_check_resize` keeps the nodes
  and puts each where the new capacity says. It goes by an invariant of the inner
  loop (`MovedGood`) and one of the outer, by which the nodes are those of the
  chains done so far.
- `TypeCorrect` adds the iterator. `Visits` says that the keys visited are exactly
  those `Before` the iterator's place in the order of the table: of smaller chains,
  or earlier in its own. It makes the iterator's pointer safe to follow, and at
  the end nothing is left.
- `HashMapIsAMap`: `Spec => Map`; a resize is a stutter inside put.

Loops and walks that are recursive functions (`NodeAt`, `Find`, `Moved`, `Rehash`),
and the place of the first NUL of a string, are reasoned about without the induction theorems of the
library, which take an operator as a parameter: a set of counterexamples is a set
of naturals, it has a least element (`Minimal`, from `WFMin`), and the step before
that one was right.

**JsonProofs** (any number of blocks, any program of constructors, any text read, any
faults).

- `JsonNoDangling` and `JsonNothingLost`: `NoDangling` and `NothingLost` always. Every
  pointer, the program's, a parser call's or a block's own, leads to a block that is
  there; no block has two owners; and the blocks without an owner are those in `lost`.
  So nothing is freed twice, used after it is freed, or leaked, on any path, with an
  error at any depth.
- Neither is inductive. The invariant is `IInv`, checked by TLC as an invariant of
  the run in all parts but the last two, whose quantifiers range over sets of blocks.
  `CallsFit` says what each call of the parser owns: the list or object being filled,
  the key of the pair being read, and that no call is on top of a mode that does not
  need it. `ModeOK` says what the result in hand may be. `ProgramOK` says what the program holds.
  `Sound` is about the heap: what a block holds has its kind (`Shaped`), members have
  different keys (`KeysApart`), every block is owned once at most, the owned and the
  lost are all there are, and every set of blocks has one that no other of the
  set points to (`Acyclic`). The last makes `delete_json` end and free
  exactly the blocks below its argument: `Below` is the least set closed under the
  pointers, and a block that stays cannot point into it, since each block of it is
  owned from inside.
- Four lemmas say what an operation does to the pointers: one block more with an owner
  (`New...`), one moved into a list (`Push...`) or an object (`Put...`, where a key
  that is there drops a value into `lost`), a tree gone (`Delete...`). Each step of the
  program, the writer and the parser is then one or two of these.
- `JsonNoLeak`: a text that is not accepted leaves no block behind, and as long as
  `hm_put` has overwritten nothing (`lost = {}`) the heap is empty once the program has
  deleted what it wrote and what it read. `JsonKeysApart`: no object ever has
  one key twice, also if the text read has.
- `JsonEqualsSame`: `Spec => [](KeysTold => EqualsSame)`. What `json_equals` computes
  is that two trees have the same values at the same indexes and keys, `Same`. Both are
  recursions over the two trees at once. They are shown to be fixed points, and then to agree on a pair
  of values if they agree on the members (`EqualsAgrees`); a pair of least depth
  on which they differ cannot exist (`Acyclic` again). For objects the code compares the
  number of keys and looks up each key of the one in the other; that this is enough is
  the pigeonhole argument of `Pairing`. The premise `KeysTold` says that `hm_get`
  tells different keys apart. It holds of all keys without a NUL (`WholeAreTold`), and is
  not vacuous caution: two keys of one hash that differ behind a NUL are one key to
  `s_equals`.
- `LookupAfterPut`: after `hm_put` a look-up of the key gives the value, and of any other key what it gave before.
- `Utf8RoundTrip`: what `UnicodeToUtf8` writes are bytes, and `UnicodeFromUtf8`
  reads the code point back, for every code point of 16 bits. A code point is taken apart into digits of base 16,
  the second lowest in two digits of base 4, because the border between two bytes
  runs through it; then each of the three forms is read back digit by digit.

- `JsonTypeOK`: `TypeOK` always. `TypeOK` says of a block only what its rows may hold;
  the writer's texts are characters only if each `json_t` of a string leads to a
  string and each number is one. That is `Data`, which `DataHolds` shows to be
  inductive beside `IInv`: what a block holds is of the type that the code reads there
  (`Typed`), and so is what the program, a call that returns and the writer hold as a
  `json_t` (`ValuesOK`, `Writer`). Each lexical function of the parser is shown to stop
  at a place of the text, never before the place where it began, with characters for
  its result (`StringIs`, `NumberIs`, `ExpectedIs`, `TrimIs`); each text of the writer
  to be one (`LeafIs`, `MemberIs`, `ClosingIs`); and a number to be one however it is
  rounded, written and read (`RoundedIs`, `NumberTextIs`, `StrtodIs`). On an error path the types survive
  because the owners do: what is left leads to no block that was freed (`Alive`, from
  `IInv`).
- `ParserAdvances`: each step of `json_from_in_stream` lowers the rank of what there is
  to do, in the order of a lexicon: the characters not yet taken, what the innermost
  call has still to do without taking one, the calls that have still to return. There
  is no way to go down for ever (`Founded`). It is the safety half of `CallsReturn`,
  for every text: what TLC adds is that a step is always possible until the call
  returns.

What a recursive function computes (a row of digits, a string with escapes, a row of
texts put together) has no value for the prover until a function that solves the equation is known to
exist: `Recursion` shows that one does whenever the body looks only at places of a smaller
measure, and `Inductively` that its values are then of the type that the body keeps.

Inductions on trees go by minimal elements, like those on numbers above: a
set of counterexamples has, by `Acyclic`, one that none of the others is below.

**Model-checked only.** The liveness properties of `Sys` and `Json` (fairness and
ENABLED are out of the prover's reach), and of the safety properties of `Json` those
about what is in a text: `ReadsBack`, `NoHalfValue`, `LossShows` and `AcceptsJson`.
The four compare what the writer's recursion puts out with what the parser's
takes in, or with a grammar: nested inductions over texts and trees, of which only
the types and the bounds (`JsonTypeOK`, `ParserAdvances`) have been carried out with
`Minimal`; section 7 has the next step. Every other property of a passing run is proved. The properties that a
run expects to be violated are of course not proved.

## 6. Findings

1. **A stale pid is killed on exit** (`SysStalePid`). `safe_waitpid` reaps a
   child at `src/chsys/src/sys.c:240` without the lock and takes it off the list
   later. In between another thread in `safe_exit_p` interrupts and waits for
   every pid of the list, under the comment "kill all children."
   (`src/chsys/src/sys.c:290`). If the kernel has given the pid to another
   process, that one is interrupted. `KillsOnlyKnown`, which holds, says this is
   the only exception.
2. **`ll_get` ignores its index** (`ListGet`). The loop at
   `src/chutil/src/list.c:169` runs while `i < cnt` with `cnt` still 0, so it
   never turns, and `l_get` and `l_set` of a linked list use the first cell. The
   test at `src/chutil/test/list.c:55` reads index 3.
3. **`s_substring` ignores its start** (`Substring`). It copies `end - start`
   characters from the beginning of the string (`src/chutil/src/string.c:123`);
   `src/chutil/include/chutil/string.h:57` documents a range.

4. **A quote cannot be read** (`JsonQuote`). `expect_control_suffix`
   (`src/chjson/src/parser.c:204`) has no case for `\"`, which its comment lists
   (`src/chjson/src/parser.c:218`) and which `escape_string_to_stream` writes for a
   quote (`src/chjson/src/json_helpers.c:32`). A string with a quote does not
   survive writing and reading; `ReadsBack` leaves such strings out (`Plain`).

Met on the way, and part of the model as the code has it, but with no document
that says otherwise:

- A key that comes twice: `hm_put` keeps the old key and drops the old value, so
  the new key and the old value leak (`src/chjson/src/parser.c:435`). `lost` holds
  exactly these; `NothingLost` says that nothing else is lost.
- Errors of members are ignored by `json_to_stream_helper`, so that
  `json_to_stream` may report success with characters missing. `LossShows` says
  what saves the caller: the text then does not read as the same value. It needs
  what follows the text in the stream (`Follow`, a comma) not to be a bracket, which could
  stand in for one that was lost.
- Keys are written without escapes, and control characters without a letter are
  dropped from strings.
- A number longer than `CHJSON_NUMBER_MAX_STR_WIDTH` is cut
  (`src/chjson/src/parser.c:287`). Inside a list the rest is a syntax error; at the
  top level it stays in the stream, and a wrong number is returned. `AcceptsJson` has both
  as exceptions, like the strings of finding 4 (`Unread`).
- `strtod` takes more than JSON's numbers: `0001`, `+1`, `1.` and `.5` are read. A test
  says so of the first, "Technically C can parse this even though it isn't valid JSON,
  we'll let it slide for now." (`src/chjson/test/parser.c:82-83`). They are the `Lenient` tokens, for which
  `AcceptsJson` makes its other exception.
- A number with more than 15 digits, such as 1234567890123456, is rounded by
  `"%.15g"` (`src/chjson/src/json_helpers.c:167`) and read back as another one.
  `ReadsBack` compares with the rounded tree (`AsWritten`).
- `l_equals` of a list with itself compares only every other pair of cells, since
  both loops share the iterator; no caller does so.
- `json_equals` and `json_to_stream` reset the iterators of the containers they
  visit, also those the caller may be using.

## 7. Not modelled, and the plan

In this order:

1. **The composition** of `SharedString` and `HashMap`: a map keyed by strings,
   where `s_equals` stops at a NUL and `s_hash` does not. `JsonTree` has the
   comparison and the hash, over maps as values.
2. **More proofs**: of `Json`, that what `json_to_stream` writes is read as it was
   (`ReadsBack`), for one kind of leaf at a time, starting from the escapes of strings.

Left out for good, and why:

- the wording and colours of the log, `fflush` and the rest of the terminal I/O;
  the unit tests and the makefiles (nothing to check);
- self-deadlock of a program that takes the lock twice (a misuse the
  `acquire_lock` argument exists to prevent); exhaustion of memory inside chutil
  and chjson, since `safe_malloc` never returns then;
- `s_append_string` of a string to itself, which no caller does;
- of the streams: a file that cannot be opened, an in stream that owns its string
  (the caller gives it away and nothing else happens to it), and what stdio
  buffers, so that a write error comes with the put it belongs to. `fclose`, whose
  status the code drops, could report one later;
- of numbers: infinities and NaN, the sign of a zero, and that `strtod` rounds to a `double` and
  overflows. It reads exactly here, which is no less for the numbers that are written: two decimals
  of up to 15 digits in the range of a `double` are never rounded to the same one;
- of `safe_waitpid`: the options `WUNTRACED` and `WCONTINUED`, with which `waitpid` would
  return a child that is alive. No caller gives them; 0 and `WNOHANG` are modelled;
- `safe_free_p` of NULL, which would count one block less; no caller does it;
- in `sys_init` the errors before there is a system state, which end the process at once;
- `PARSER_INPUT_STREAM_ERROR` and `PARSER_OUTPUT_STREAM_ERROR`, which cannot
  arise: no in stream returns `STREAM_ERROR`, and a string stream never fails.
