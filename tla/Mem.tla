-------------------------------- MODULE Mem --------------------------------
(***************************************************************************)
(* chsys/src/mem.c over the counter of chsys/src/sys.c: safe_malloc_p,     *)
(* safe_realloc_p and safe_free_p, called by the threads of one process.   *)
(*                                                                         *)
(* malloc and free run without sys_mut, the counter changes under it, so a *)
(* block is for a moment allocated and not counted.  The acquire_lock      *)
(* argument is what its contract asks for: false exactly when the caller   *)
(* holds sys_mut.  A thread frees or resizes only blocks that the program  *)
(* still owns, and no block from two threads at once.                      *)
(***************************************************************************)
EXTENDS Integers, FiniteSets

CONSTANTS
    Thread,     \* the program's threads
    Main,       \* the first of them
    Block,      \* the blocks malloc can return
    SizeMax,    \* SIZE_MAX
    NoThread,   \* "nobody holds the mutex"
    NoBlock     \* "no block in hand"

ASSUME MemAssumption ==
    /\ Main \in Thread
    /\ NoThread \notin Thread
    /\ IsFiniteSet(Block)
    /\ NoBlock \notin Block
    /\ SizeMax \in Nat

VARIABLES
    count,   \* ss->malloc_count
    quiet,   \* ss->quiet
    mutex,   \* who holds sys_mut
    block,   \* of a block: "free", "raw" (not yet counted), "counted",
             \* "doomed" (no longer counted, about to be freed)
    pc,      \* of a thread: "absent", "user", "counting", "freeing", "dying"
    hand,    \* the block in a thread's local variable
    over,    \* "no", or what ended the process
    warned,  \* did the process warn of a leak as it ended?
    debt     \* history: counted blocks that a reset made the counter forget

vars == <<count, quiet, mutex, block, pc, hand, over, warned, debt>>

TypeOK ==
    /\ count \in 0..SizeMax
    /\ quiet \in BOOLEAN
    /\ mutex \in Thread \cup {NoThread}
    /\ block \in [Block -> {"free", "raw", "counted", "doomed"}]
    /\ pc \in [Thread -> {"absent", "user", "counting", "freeing", "dying"}]
    /\ hand \in [Thread -> Block \cup {NoBlock}]
    /\ over \in {"no", "exit", "overflow", "underflow"}
    /\ warned \in BOOLEAN
    /\ debt \in Nat

----------------------------------------------------------------------------
Init ==
    /\ count = 0
    /\ quiet = FALSE
    /\ mutex = NoThread
    /\ block = [b \in Block |-> "free"]
    /\ pc = [t \in Thread |-> IF t = Main THEN "user" ELSE "absent"]
    /\ hand = [t \in Thread |-> NoBlock]
    /\ over = "no"
    /\ warned = FALSE
    /\ debt = 0

Counted == {b \in Block : block[b] = "counted"}

At(t, label) == over = "no" /\ pc[t] = label

\* sys_lock_p(acquire_lock) does not block: t holds the lock, or nobody does.
CanLock(t) == mutex \in {NoThread, t}

Goto(t, label) == pc' = [pc EXCEPT ![t] = label]

\* Mutant: a single leaked block is overlooked.
EndOffByOne(why) ==
    /\ over' = why
    /\ warned' = (count > 1 /\ ~ quiet)

\* safe_exit_p(false): look at the counter, and never unlock again.
End(why) ==
    /\ over' = why
    /\ warned' = (count > 0 /\ ~ quiet)

----------------------------------------------------------------------------
\* The program's own sys_lock and sys_unlock.
Lock(t) ==
    /\ At(t, "user") /\ mutex = NoThread
    /\ mutex' = t
    /\ UNCHANGED <<count, quiet, block, pc, hand, over, warned, debt>>

Unlock(t) ==
    /\ At(t, "user") /\ mutex = t
    /\ mutex' = NoThread
    /\ UNCHANGED <<count, quiet, block, pc, hand, over, warned, debt>>

\* safe_malloc_p (and safe_realloc_p of NULL): malloc, with no lock.
SafeMalloc(t, b) ==
    /\ At(t, "user") /\ block[b] = "free"
    /\ block' = [block EXCEPT ![b] = "raw"]
    /\ hand' = [hand EXCEPT ![t] = b]
    /\ Goto(t, "counting")
    /\ UNCHANGED <<count, quiet, mutex, over, warned, debt>>

\* malloc or realloc returns NULL: log_fatal_p(acquire_lock).
OutOfMemory(t) ==
    /\ At(t, "user")
    /\ Goto(t, "dying")
    /\ UNCHANGED <<count, quiet, mutex, block, hand, over, warned, debt>>

\* Mutant: the block is handed out uncounted.
IncMallocCountNot(t) ==
    /\ At(t, "counting") /\ CanLock(t)
    /\ block' = [block EXCEPT ![hand[t]] = "counted"]
    /\ hand' = [hand EXCEPT ![t] = NoBlock]
    /\ Goto(t, "user")
    /\ UNCHANGED <<count, quiet, mutex, over, warned, debt>>

\* sys_inc_malloc_count_p, before safe_malloc_p returns.
IncMallocCount(t) ==
    /\ At(t, "counting") /\ CanLock(t)
    /\ count # SizeMax
    /\ count' = count + 1
    /\ block' = [block EXCEPT ![hand[t]] = "counted"]
    /\ hand' = [hand EXCEPT ![t] = NoBlock]
    /\ Goto(t, "user")
    /\ UNCHANGED <<quiet, mutex, over, warned, debt>>

MallocOverflow(t) ==
    /\ At(t, "counting") /\ CanLock(t)
    /\ count = SizeMax
    /\ End("overflow")
    /\ UNCHANGED <<count, quiet, mutex, block, pc, hand, debt>>

\* Mutant: the counter is not checked for zero.
DecMallocCountUnchecked(t, b) ==
    /\ At(t, "user") /\ CanLock(t)
    /\ block[b] = "counted"
    /\ count' = count - 1
    /\ block' = [block EXCEPT ![b] = "doomed"]
    /\ hand' = [hand EXCEPT ![t] = b]
    /\ Goto(t, "freeing")
    /\ UNCHANGED <<quiet, mutex, over, warned, debt>>

\* safe_free_p: first sys_dec_malloc_count_p, ...
DecMallocCount(t, b) ==
    /\ At(t, "user") /\ CanLock(t)
    /\ block[b] = "counted"
    /\ count # 0
    /\ count' = count - 1
    /\ block' = [block EXCEPT ![b] = "doomed"]
    /\ hand' = [hand EXCEPT ![t] = b]
    /\ Goto(t, "freeing")
    /\ UNCHANGED <<quiet, mutex, over, warned, debt>>

MallocUnderflow(t, b) ==
    /\ At(t, "user") /\ CanLock(t)
    /\ block[b] = "counted"
    /\ count = 0
    /\ End("underflow")
    /\ UNCHANGED <<count, quiet, mutex, block, pc, hand, debt>>

\* ... then free, with no lock.
SafeFree(t) ==
    /\ At(t, "freeing")
    /\ block' = [block EXCEPT ![hand[t]] = "free"]
    /\ hand' = [hand EXCEPT ![t] = NoBlock]
    /\ Goto(t, "user")
    /\ UNCHANGED <<count, quiet, mutex, over, warned, debt>>

\* Mutant: a block that moves is counted again.
SafeReallocCounts(t, b, c) ==
    /\ At(t, "user") /\ block[b] = "counted" /\ block[c] = "free"
    /\ block' = [block EXCEPT ![b] = "free", ![c] = "counted"]
    /\ count' = count + 1
    /\ UNCHANGED <<quiet, mutex, pc, hand, over, warned, debt>>

\* safe_realloc_p of a block: it may move, and the counter is not touched.
SafeRealloc(t, b, c) ==
    /\ At(t, "user") /\ block[b] = "counted" /\ block[c] = "free"
    /\ block' = [block EXCEPT ![b] = "free", ![c] = "counted"]
    /\ UNCHANGED <<count, quiet, mutex, pc, hand, over, warned, debt>>

\* sys_reset_malloc_count_p, whatever is allocated at the time.
ResetMallocCount(t) ==
    /\ At(t, "user") /\ CanLock(t)
    /\ count' = 0
    /\ debt' = Cardinality(Counted)
    /\ UNCHANGED <<quiet, mutex, block, pc, hand, over, warned>>

SetQuiet(t, q) ==
    /\ At(t, "user") /\ CanLock(t)
    /\ quiet' = q
    /\ UNCHANGED <<count, mutex, block, pc, hand, over, warned, debt>>

\* safe_exit_p, called by the program, or by log_fatal_p.
SafeExit(t) ==
    /\ At(t, "user") \/ At(t, "dying")
    /\ CanLock(t)
    /\ End("exit")
    /\ UNCHANGED <<count, quiet, mutex, block, pc, hand, debt>>

\* The program starts a thread.
SpawnThread(t, u) ==
    /\ At(t, "user") /\ pc[u] = "absent"
    /\ Goto(u, "user")
    /\ UNCHANGED <<count, quiet, mutex, block, hand, over, warned, debt>>

\* safe_fork, seen from the child: it has the counter and the blocks as they
\* are, and of the threads only the one that forked, which holds the lock and
\* then lets it go.  What another thread had in hand, nobody has any more.
ForkedChild(t) ==
    /\ At(t, "user") /\ mutex = NoThread
    /\ pc' = [u \in Thread |-> IF u = t THEN "user" ELSE "absent"]
    /\ hand' = [u \in Thread |-> NoBlock]
    /\ UNCHANGED <<count, quiet, mutex, block, over, warned, debt>>

\* The process has ended.
Done == over # "no" /\ UNCHANGED vars

Next ==
    \/ \E t \in Thread :
          \/ Lock(t) \/ Unlock(t) \/ OutOfMemory(t)
          \/ IncMallocCount(t) \/ MallocOverflow(t) \/ SafeFree(t)
          \/ ResetMallocCount(t) \/ SafeExit(t) \/ ForkedChild(t)
          \/ \E q \in BOOLEAN : SetQuiet(t, q)
          \/ \E u \in Thread : SpawnThread(t, u)
          \/ \E b \in Block :
                \/ SafeMalloc(t, b) \/ DecMallocCount(t, b) \/ MallocUnderflow(t, b)
                \/ \E c \in Block : SafeRealloc(t, b, c)
    \/ Done

Spec == Init /\ [][Next]_vars

----------------------------------------------------------------------------
\* The counter is exact: whatever the threads are in the middle of, and after
\* a fork too, it is the number of counted blocks less those a reset dropped.
Balance == count + debt = Cardinality(Counted)

\* "Malloc underflow" (sys.c:156) is fatal only to a program that has reset
\* the counter with blocks outstanding.
UnderflowNeedsReset == over = "underflow" => debt > 0

\* The warning on exit (sys.c:286-288) is neither missed nor false: unless
\* the counter was reset under a block, it says whether one is outstanding.
\* Blocks on their way through safe_malloc_p or safe_free_p raise no alarm.
LeakWarning ==
    over # "no" /\ debt = 0 => (warned <=> ~ quiet /\ Counted # {})

============================================================================
