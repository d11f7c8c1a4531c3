# A verification development for Chloride

Chloride (`src/`) is an interpreter of the Argon language in C. A source file is lexed and
parsed, the tree is translated to bytecode (`src/src/translator`), the bytecode is cached in
a `.cache` file beside the source, and a virtual machine (`src/src/runtime`) executes it.
Memory belongs to the Boehm collector. A native library can start threads, which execute
Argon code in parallel in one heap.

This directory holds TLA+ modules that model the parts of the program where behaviour is
hard to test, TLC configurations that check them on small instances, and proofs that TLAPS
checks for every value of the constants. `PROJECT.json` maps each definition to the lines
it stands for and lists runs, mutants, findings, hazards and theorems.

Contents: 1 inventory of the program, 2 the modules, 3 the runs and what they show,
4 fairness, 5 the proofs, 6 disagreements found, 7 what is not modelled, 8 the plan.

## 1. Inventory

### Translation

| Part | State | Operations | What is hard |
|---|---|---|---|
| lexer, parser (`lexer/`, `parser/`) | the scanner's states; a list of tokens and an index | one `parse_*` per construct; the loop `parser` over statements | blocks are cut out by indentation and parsed again; operator chains are split from lists; one parameter list has three readers; a read past the end ends the process |
| translator (`translator/`) | a `Translated`: bytecode and constants, `registerCount` and `registerAssignment` (8 bits), `scope_depth`, `exception_handler_depth`, the targets of break, continue and return | one `translate_parsed_*` per construct; jumps are back-patched | the depths are a promise about every path through the bytecode; a jump out of a loop must pop what the loop opened; nested functions share the struct |
| compile-time `hashmap`, `darray` | table and count; growable array | insert, lookup, resize, push, pop | resize copies and frees nodes that callers may still hold |
| bytecode cache, import (`import.c`, `runtime/import/`) | the table of imported modules, the cache file | read, hash, verify, load or translate, write in place, run | files change between the hash and the second read; crash or a second process during the write; two threads and circular imports |

A translator is correct if on every path scopes, catchers and pending calls are opened and
closed in step, no register in use is assigned again, and the bytecode does what the text
says, also when a nested function, a loop in a handler or a jump is in the way.

### Execution

| Part | State | Operations | What is hard |
|---|---|---|---|
| virtual machine (`runtime.c`) | a chain of `StackFrame`s, each with `ip`, registers, scope chain, catchers and pending call instances; `err`; `quiet_throw` | one label per opcode; the unwinding at the end of the loop | an error leaves expressions half evaluated; frames are pushed by Argon calls but not by native ones |
| signals (`main.c`) | `KeyboardInterrupted` | SIGINT handler, test before each instruction and after each native call | arrives between any two instructions |
| calls (`call/call.c`) | the call instance, `c_depth` | binding of positional, keyword, default and variadic arguments; frame push or native call | defaults and variadics in combination; the C stack limit |
| scopes, closures (`assignment/`, `declaration/`, `Stack`) | a chain of hash maps | declare, assign, look up, delete, EMPTY_SCOPE | a loop's scope is emptied while closures may hold it |
| object model (`objects/object.c`, `type/`) | fields inline and in a map, class chain, a pool of objects per thread | attribute lookup, instance creation, exclusive use of the pool | the class chain and the fields of an instance in two places |
| `hashmap_GC` | inline slots, table of chains, order counter | insert, lookup, remove, clear, listing | two places for an entry, growth, order; listings are pointers, sorted after the unlock |
| dictionary | a `hashmap_GC`, iterators over it | item access, iteration | the iterator outlives changes of the map, and reads an entry's key and value without its lock |
| `darray_armem`, array, tuple | buffer, size, capacity (the field `offset` stays 0) | append, insert, pop, item and slice access, assignment and deletion, map, filter, sort, iteration | methods that call the program back, which may change the array under them; negative positions; lengths of slices |
| ranges, slices | start, stop, step, current | iteration, normalisation | boundaries, signs, the wrap of 64-bit sums |
| numbers | an int64 or a GMP rational; a cache of loaded literals | arithmetic, comparison, hashing, literals | the tests of overflow; one number in two representations; the key of the cache |
| strings | byte strings | formatting, searching | little: byte copies |
| memory (`memory.c`) | the collector's | allocation | external |

### Threads

| Part | State | Operations | What is hard |
|---|---|---|---|
| `RWLock.h` | `thread_count`, a pthread rwlock per container | RDLOCK and WRLOCK blocks, which skip the lock when `thread_count` is 0 | the test is made once, before the block |
| C API (`runtime/api/api.c`) | the thread's state | `register_thread`, `unregister_thread`, conversions | a worker counts itself only when it first runs, and no longer while it still ends |
| threading library (`stdlib/threading`) | `__started__`, `__thread__`; a `thread_arg` block with atomic `status`, `finished`, `freed` | start, join, detach, `thread_fn`, Local, get_id | who frees the block, in every interleaving |
| native loader | handles of shared objects | load, symbol lookup | none that a model would show |
| file library (`stdlib/file`) | File objects, their handles, the C library's FILEs; the file system | copy, move, delete, list, make and temporary entries; open, read, write, seek, close | every system call may fail, and other processes work between two of them |
| shell, other stdlib modules | terminal, sockets, archives | wrappers | external |

### How the parts interact

The translator gives the machine a promise without checks: POP_SCOPE, EXCEPTION_CATCHER_POP,
CALL and the register instructions trust the bytecode. The machine calls containers;
containers call back into the machine (comparison, hashing, text, iteration) through
`argon_call`, which runs a machine on top of the C stack. Native functions and exceptions
meet at `run_call`. Threads share containers through the lock, and the lock trusts
`thread_count`, which the threading library changes through the API. A dictionary's iterator
trusts the memory of the map; the import machinery and the file library trust the file system.

## 2. The modules

    RWLock                <- ThreadingProofs                  lock and thread counter
    ThreadHandle          <- ThreadingProofs                  threading library
    VM <- VMTypes         <- VMProofs                         interpreter, and what it relies on
          VMTypes + Translator + Structured <- Control        translation, running, meaning
    OrderedMap (instance) <- HashmapGC                        the map
          HashmapGC <- Dictionary <- DictionaryProofs         loops over it
    BytecodeCache         <- BytecodeCacheProofs              loading through the cache file
    Parser                                                    from a text to its tree
    Numbers               <- NumbersProofs                    arithmetic, comparison, literals
    Import                <- ImportProofs                     the search for modules, their tables
    Slices <- ArrayObject <- ArrayProofs                      arrays, tuples, slices, ranges
    FileSystem <- FileTree <- FileStream <- Files             the file library on a file system
                              Files <- FileProofs             its handles

The MC modules only give constants their values; `MCPrograms` has the texts that `MCControl`,
`MCControlInterrupt` and `MCControlFor` choose from.

**RWLock.** `thread_count`, where each worker is in its life (`life`), and where each thread
is with respect to one container's block (`place`, `mode`). `Create` is `pthread_create`: the
creator goes on at once. `register_thread` and `unregister_thread` are those of `api.c`.
`Load` is the one atomic load that selects a branch of the macros; `Acquire` is pthread's
lock; `Leave` is the end of the block, the unlock included. A thread registers or
unregisters outside blocks. One container is modelled: no block of the source enters another
block of the same container.

**ThreadHandle.** One Argon `Thread` object and the blocks (`Handles`) that its starts
allocate. Every step is one shared access: a read or write of `__started__` and
`__thread__`, an atomic load, store or compare-and-swap on a block's `status`, `finished`
or `freed`, a call of pthread. Memory given back is modelled as C has it: a load of a freed
block returns anything (`Seen`), a store changes nothing (`Store`), and `uaf` notes who did
it. A block's address is not used again. `pthread_create` may fail (`ThreadFails`).

**Translator.** The constructs that jump or that open a scope, catcher or call, as functions
from a `Translated` to a `Translated` with the fields of the C struct. Back-patching is
`Patch`; positions count instructions, not bytes. A simple expression is one `EFFECT`
instruction; `let` declares the one name `x`, so that a second declaration in a scope is an
error, as in the program. The unsigned difference of two depths wraps to nearly 2^64 pops:
`Pops` records it as the error "endless".

**VM.** The interpreter loop. A frame has the fields of `StackFrame`: function, `ip`, chain of
scopes, catchers (each with what `EXCEPTION_CATCHER_PUSH` saves), pending call instances,
registers. Every instruction is an action; `NoteFrame`, `Catch` and `Unwind` are the code
behind the loop. Values are the classes the instructions tell apart, and exceptions the
three that handlers distinguish: `E`, under `Exception`, and the signals `StopIteration` and
`KeyboardInterrupt`, under `BaseException`. An EFFECT is an expression with its calls: it
does its work, or raises. `choices` and `trace` record what the environment decided and the
effects it saw. A scope is its serial number, so that leaving one and opening another differ.

**VMTypes.** A *typing* gives each reachable position of a function the number of open
scopes, the active catchers (by the position of their push) and the pending calls, such that
each edge of the control flow keeps it and each instruction finds what it uses. It also *marks* what
is known of the registers there: the iterator of a loop and its `__next__`, an exception made since the last
raise (`fresh`), the exception caught last (`caught`). Marks are what all ways to a position, those
through a handler included, agree on. `WellTyped` checks both.

**Structured, Control.** `Meaning` is a definitional interpreter: it reads the tree, knows no
bytecode, and consumes the choices the machine recorded. `Control` translates a text, keeps
it beside its bytecode, and states the properties that span translator and machine. Its `Follow` and `Mark`
compute the only candidate for a program's types, and the best one for its marks.
`Accounted` is the class of texts in which no jump leaves a `for` loop whose function goes
on, and no `continue` leaves a function or an argument: section 6 says what happens to the others.

**OrderedMap, HashmapGC, Dictionary.** `OrderedMap` is what users of a map are promised: values
by key, and keys in the order of their first insertion. `HashmapGC` is `hashmap.c`: inline
slots, then a table of chains that doubles. A chain is the set of its nodes: it goes from the newest to the
oldest, as nodes enter at its head and growing keeps their order. What a function does under its lock (or, without
threads, at all) is one step; `RWLock` says when that holds. A pointer is a slot or
the index of a node in memory, so that the array of pointers a listing returns can be
followed later. `Dictionary` adds the iterator, which works without the lock once the pointers are collected:
`__iter__` collects them (`nodes`), `__iter__sort` sorts them into `array`, by the orders it reads through them
or, if slots have moved meanwhile, in any order; `__next__key` and `__next__val` are the two loads of
`dictionary.c:339-344`, in either order, and `__next__` yields what they have loaded (`key`, `val`). Updates come between any
two of these steps. In a program of one thread they come only between whole calls of `__iter__` and `__next__`; what comes
within a call is the work of other threads. An update is one step for the loads too, though they do not take
its lock: a load is of one word, which an update writes once, and the two loads come in either order, so
that a load between two writes of an update has read what it also reads before or after the whole of it.
There are four history variables: the keys the iterator was made
over (`keys`), the pairs the map has held since (`held`), whether slots have moved (`moved`), and whether
that has happened, or a vacated slot has been filled, between the two loads (`torn`).
The `owner` of the map is a dictionary, which is iterated over and never cleared, or a scope, which
EMPTY_SCOPE clears and nothing iterates over.
Left out: NULL values (only import tables store them), the order argument, which all callers
give as 0, and the field `count`, which nothing reads.

**BytecodeCache.** `load_argon_file` and `load_cache`, for several processes on one source and
one cache file. The file is a sequence of blocks: a header (identifier, version, the hash of
the source, sizes), the constants and bytecode, and a footer that hashes all before it. Every
reading or writing of a block is a step, and so are opening, truncating, and the hashing of
the source; a load's stages are the values of `pc`. `Edit` is an editor, `Crash` the death of
a process that was writing, `NotWritten` a disk that is full. History: the texts the source has had
since a load began (`texts`), who changed the file while a load was reading it (`rewriters`),
and under which hash a different text was read (`torn`). Hashes have no collisions, so a hash is what
it is of. What the models say of the program's promises is conditional on purpose: a load that
is torn does store a cache under a wrong hash, and two writers can defeat the verification.

**Import.** `Located` is the search: the candidates in the order of the three tables of patterns,
with `..` folded, of which the first regular file is taken. The rest of `ar_import` is a machine per
thread, whose `stage` tells how far its import has come: each lookup and each insertion is a step,
because each takes a table's lock and gives it back. A scope is its position in `ran`, the modules that
have run; `chain` has the modules a thread is in, one within the other. Import statements are left
open: a thread in a module, or in a function of one that was loaded, may import any name from the
directory of any module loaded, catch what an import raises, fail, and end. When main's own import
ends, so does the program. History: the scopes that imports have given (`got`), and the modules that
one thread found not imported while another was in them (`raced`).

**Parser.** A text is a sequence of pieces (words, signs, line ends with an indent); `Lex` is the
scanner with its stack of states (braces, templates), and `parse_x(t, i)` is the C function of that
name on the tokens from index `i`. The loop of `parser` is the machine: a round is an action. A
result is a node and the next index, an exception, "exit" (`darray_get` past the end ends the
process) or "undefined" (freed memory, or a node taken for another type). A leaf keeps the place of
its token, so that properties can compare a tree with its text. `TEMPLATE_STACK_MAX` bounds nesting
as in the program. The operators
were compared with the parser built from `src/`: the same outcome and tree for every text of the run.

**Numbers.** An int64 or a rational in lowest terms, of any width (`INT64_MAX`). Every operator,
comparison, instruction and built-in function is an operator of the module with the tests of the
source (`AddOverflows`, `SubtractOverflows`, ...), and every literal goes from its text to a constant
(`mpq_set_decimal_str_exp`, `translate_parsed_number`) and from there to a register through the cache
`LOAD_NUMBER` keeps. Two modules share that cache as two modules of a program do. GMP is what it
computes.

**Slices, ArrayObject.** `Slices` is the arithmetic of slices and ranges on int64. In `ArrayObject` an
array is its buffer (slots nobody has written hold `Nowhere`) and its size. A method that does not
call back is one step; `map`, `filter`, `__contains__`, `sort`, a `for` loop and an assignment from the
program's own iterator keep their locals in `call` between one call of the program and the next,
and the program may use other methods on the same array there. A sort compares a copy, so that its
comparisons are one step; a scan that leaves the copy is "wild". `Ends` names how a method can end,
besides returning and throwing: `exit` (`darray_armem_get` ends the process), wild, an array of
nearly 2^64 items, a range without end. Loops and the recursion of the sort are recursive functions
(`Iterate`, `argon_qsort`). One bound belongs to the specification: memory ends before an array has more than
INT64_MAX items (`arr'.size <= INT64_MAX` in `Next`).

**FileSystem, FileTree, FileStream, Files.** `FileSystem` is the operating system: one operator per
system call, on trees with links (followed twice at most), devices and sockets. `FileTree` has the
calls on whole files and directories: a call is a stack of frames, one per C function in progress,
each system call is a step, and a call named in `mayFail` fails at most `MaxFaults` times. `FileStream` is one
open `File` per process, with the FILE of the C library below it, which buffers and passes on when
it likes. `Files` puts processes, their calls and a file system together; a *scene* is such a
beginning.

## 3. Runs

| Run | States | Shows |
|---|---|---|
| `rwlock` | 9 079 | Three workers, started by main or by one another, ended and started again: two threads in conflicting blocks are main and a worker, main on the fast path; the fast path is entered only alone; a reader that waits gets in |
| `thread_handle` | 3.05 million | two callers, each free to start, join and detach in any order, two blocks: one free, join or detach but not both, only Detach frees under a running thread, no block is lost but in the cases the property names |
| `control` | 500 815 | every leaf statement inside one, two and three constructs, each with every outcome of its first four choices: bytecode is well typed, the machine keeps the typing, and the run is what the text means |
| `control_interrupt` | 284 137 | programs of depth two, Ctrl-C twice at any instruction: every program ends, an interrupt ends it with KeyboardInterrupt |
| `control_for` | violation | leaving a for loop with break leaves its catcher behind |
| `dictionary` | 2.53 million | five insertions with any removals between them, into the map of a dictionary, with a loop over it, or of a scope, with clearings; other threads update while the iterator sorts and between its two loads of an entry: an entry listed is the one found, the map refines `OrderedMap`, the loop's pointers keep their entries while no slot moves, and what is yielded is a pair that was held, or, torn between the loads, the halves of two |
| `bytecode_cache` | 3.04 million | three loads of one module by up to three processes, two edits of its source, crashes and full disks: what runs is whole unless the file was rewritten while it was read, and fresh unless some load was torn by an edit |
| `import` | 3.86 million | main and a second thread import a script, a module, a library and a module of the same name beside the interpreter, with failures and retries: a module runs once and only a circle is refused, unless both threads import it at once |
| `numbers` | 16 944 | every operation on every pair of numbers about the limits of the int64, and on their results: exact, in normal form and ordered, except in the cases the properties name; literals load what they say |
| `parser` | 486 417 | 275,000 texts: every word is in the tree once, operators bind as they should, blocks are what is indented, the three readers of parameters agree, every round advances |
| `files` | 113 715 | copying, moving, deleting, listing, making, temporary entries and open files, with one failing system call at any place and a second process: no file is lost, success means done, a handle dangles only after a failed close, every call returns |
| `array` | 673 909 | every method on arrays below, at and above a chunk, then two more calls after it or from within it: undisturbed, the operations on lists; disturbed, only items of the array come out; nothing leaves the buffer; except where the properties say so |

A property whose name ends in `But` states in its formula where the program differs from the
promise before that word; section 6 lists these places. They are exact: `ExactBut`
is an equivalence, and in `array` and `import` every exception was seen to be reachable.

Bounds, and why they are enough:

- *Three workers*: the properties of the lock relate two threads; a third one lets the counter
  go down and up while two are in blocks. The proofs drop the bound.
- *Two callers, two blocks*: the object has one pointer, so a caller competes with one other
  and with the thread; the second block is that of a second start that raced the first.
- *MaxChoices* bounds how often conditions, iterators and effects are decided; then loops end
  and effects succeed. Four decisions take a loop round twice with a failure in the second
  round. *MaxInterrupts* 2: the second Ctrl-C arrives in the handler of the first.
- *Depth three*: a jump interacts with the constructs between it and its target. Each keeps one
  depth and one register pair, so pairs show every interaction; the third level gives a pair
  inside a loop, with something to go back to.
- *Three keys, two inline slots, a first table of one position* (3 and 8 in the program): with
  keys 0, 1 and 2 a chain of two exists and growth splits it, after two entries inline, which takes five
  insertions (`MaxOrder` is 6). Under a loop only the first four are considered (`MaxLoopOrder` is 5): slots that
  removals vacate are filled again, the table doubles, and a loop over two entries is torn in every way there is. Values
  are interchangeable.
- *Three loads, two edits, bytecode of one and two blocks*: one load reads while two others
  write, which is what it takes to pass a hole by a load that has verified the file; a longer
  and a shorter cache mix; an edit can be taken back, so that a cache under a wrong hash is met
  again.
- *Two threads, four files, three runs of modules*: a circle of two below the script; a module that
  fails and is imported again; two threads in one module, and one of them in it twice. `a` means
  another file in the library than beside it, and three names mean one file. The proofs drop the bounds.
- *Integers of three bits, numerators to 5, denominators to 2* (`MaxNum`, `MaxDen`): every int64
  and its neighbours outside, both representations, halves; each test of overflow is on both of
  its sides. The literals are one of each way a literal is written, and two with one key.
- *Six themes of texts* (`OperationTexts`, `ParameterTexts`, `BlockTexts`, `CollectionTexts`,
  `StatementTexts`, `TemplateTexts`): within a theme all texts up to a length, over the pieces that
  can meet there; a construct reads another one only through `parse_token`, whose entry points each
  theme reaches. Templates nest two deep.
- *Paths of six names, two devices, two processes, one failure, two candidate names* (100 in the
  program): a directory with a file, a directory and links in it is copied, met half way by a
  failure or the other process; six names are what a copy into itself takes to reach the limit.
- *Arrays of up to five items, chunks of two, sorting by insertion below a distance of two* (16 and
  16 in the program), *int64 of five bits, three calls, two values of the program's iterators*: five
  items make the sort partition and recurse; one call calls back, one changes the array, and one
  meets what they left. A call that changes nothing ends the behaviour, as the calls after it can be
  made without it.

Deadlock is checked for `rwlock`, where some thread can always act, and for `files`, where the end
of all programs is a step. Elsewhere programs and texts end, and insertions, loads and calls are bounded.

Each property of a passing run has a mutant: a definition with a plausible bug, named `Mut_*`
above it, which makes TLC report the property violated. The mutants are no part of any
specification.

## 4. Fairness

- `RWLock`: a created worker eventually registers and a thread leaves its block (weak): the
  operating system runs every thread and no block loops for ever. A thread that waits for
  pthread's lock gets it if it is free again and again (strong). Nothing is assumed of which
  blocks threads enter. Writers are promised nothing: pthread's default prefers readers.
- `VM`: the machine takes its next step (weak). Ctrl-C is never owed.
- `Files`: each process takes its next step (weak): it is scheduled, and every system call comes
  back. No call waits for another process.

## 5. Proofs

All theorems hold for every value of the constants under the named assumptions of the modules.

**ThreadingProofs**, about RWLock (any finite set of workers, `WorkersAssumption`). `OnlyMainRaces` is not
inductive: that no worker is on the fast path depends on the counter. The invariant `LockInv` adds
that `thread_count` is exactly the number of registered workers (`CountExact`), that a worker
inside or waiting is registered (`ActiveRuns`), that workers never take the fast path
(`WorkersLock`), since the worker that loads the counter is itself counted, and that pthread's
lock excludes (`LockExcludes`). Proved: `LockTypes`, `OnlyMainCanRace`, and the action
property `FastIsAlone`.

**ThreadingProofs**, about ThreadHandle (any callers, any blocks, any assignment `Ops` of methods to callers). The
invariant has, for each block, four parts: `Memory` (gone is freed, only a freed block is
misused), `OneClaim` (between a compare-and-swap on `freed` that succeeds and the free there is
one claimant), `StatusKept` (the status still names what was let through), `FreedAfter` (Join
and the thread free only after the thread's last access). `OneClaim` and `StatusKept` are
conditional on `Clean`: once a thread has read freed memory nothing more can be said of the
block, and that does happen (section 6). Proved: `TypeCorrect`, `FreedOnce`, `JoinedOrDetached`,
`RugPulledByDetach`, `JoinersFree`. That no block is lost needs a second invariant, `Owned`: a block still
allocated is with the object, with a caller or with its thread, according to its status and to `freed`
(`Carried`). The only block there is leaves the object only in the hands of a joiner (`Assigned`); once two threads have
been created nothing is said, as the second start may replace the first one's pointer. When
nobody is in the middle of a method that leaves what `NoLeakBut` excepts (`Ownership`, `NothingLost`).

**VMProofs** (any programs of `ProgramsAssumption`, of any size and nesting, any number of choices
and interrupts). The specification is `TypedSpec`: the machine on a well-typed program. The
invariant says that every frame is `Good`: it stands at a typed position with the scopes,
pending calls and catchers of its type, or at the end of its code; each catcher on its stack
was pushed where exactly the catchers below it were active (`Chained`); and what a catcher will
restore is the nesting of the place of its push (`Restores`). The first lemmas are about one
frame, without steps: `Move` and `Onward` (an edge of the control flow keeps a frame good),
`ScopesChange`, `CallsChange`, `CatchersChange`, `Caught` (a jump to a handler gives a good
frame whatever state the error left). The second part lifts them to the stack of frames, the
third has one step per action. Proved: `TypeCorrect` and `NestingKept`. The hypothesis, that the
translator's bytecode is well typed, is `TranslationIsTyped`, which TLC checks: the translator
is recursive over the tree, and induction over data is out of the provers' reach.

The second half of VMProofs goes on to registers and errors. An error may be raised at any instruction, by a
callee many frames up, and be caught with a frame's registers as they then are. The invariant `Errs` has three
parts. Every frame is `Sound`: its chain of scopes and those its catchers will restore agree as far as both go
(`Agree`), and what is known at the target of an active catcher holds already, but for register 0, which
will have the error (`Catchable`). A frame below the top `Waits`: what is known behind its call
concerns no register that a result or a raise can change. Of the frame that runs all marks hold
(`Runs`), which for an exception says how its trace and the last error's are related. An error under way is
`Traced`: its trace goes up frame by frame to the one it has just left, or, rethrown quietly, to the
one it is in. Proved: `MarksHold` (that invariant), `SavedScopes`, `IteratorKept` and `TraceInOrder`.

**DictionaryProofs**, of the map (any keys, values, numbers of slots, first size and number of insertions). `IInv` is the
typing, with every node in the chain where `hashCode` looks for it (`Hung`) and no two entries, in slots or
chains, with one hash or one order (`EntriesOK`); `Counted` is why the table never gets more entries than orders.
The arithmetic is that of `NewBit` and `OldPosition`: a position of the table of twice the size is one of the old
table and the bit the chains are split by. Each operation is first shown to be one of three changes of the set
of entries (`Overwrites`, `Adds`, `Removes`), wherever the entry is kept; from these follow `ListedIsFound` and,
by way of `MapOfEntries`, what a step of `OrderedMap` is. Proved: `MapTypeCorrect`, `MapListedIsFound`, the
refinement `MapRefinesOrderedMap`, and `ListingIsSorted`: a listing has every entry once, the oldest first.

And of loops over it. A dictionary's and a scope's steps are the map's
(`DictionaryUsesMap`), so the two theorems on the map hold of it. `LoopInv` says that the
pointers of a loop lead to memory that was made and whose pair is one held since, and that all entries of the map are
such pairs: a removal moves the last slot under any pointer. While no slot has moved, the
pointers lead to slots below `inline_count` or to nodes, whose hashes and orders no operation changes (`Kept`, `Same`), and
what is collected and not yet sorted will come out in the order of the keys it was made over (`Listed`). `LoadInv`
is about the two loads of `__next__`: what is loaded is of pairs held, and unless slots are torn
between the loads, the pointer still leads to the key that was loaded, or to the one of the value that was: a removal
that takes no inline entry, and an insertion that fills no vacated slot, leave it there.
Proved: `LoopKeepsItsEntries` and `LoopYieldsHeldPairsBut`.

**BytecodeCacheProofs** (any processes, any texts of any size, any number of loads, edits and
crashes). None of the three properties is inductive: they speak of what a load runs at its end, and
that was decided by what it read on the way. `IInv` says of the file that a header in it names a text
that translates and, unless some load was torn, the text of its own hash (`HeadersOwned`); and of a
load that nobody has disturbed (`rewriters` is empty) that what it has read so far is the
beginning of the file (`StartsAlike`), that a file it has verified is one whole image (`IsImage`),
and that what it takes from it comes from that image (`ReadsFrom`, `Runs`); of one that writes,
that it writes the text it has translated, under the hash it has (`Writes`, `Hashed`). That gives `RunsWhole` and
`RunsFresh`. `RunsSteadily` is about loads that were disturbed by one other process, and needs a
second invariant, `SteadyInv`: while nobody edits the source every block in the file is the one that the
image of the source has at its place, or a hole; a load that still goes on either
keeps what it has read (`KeptSoFar`, `Kept`), or the only process that wrote to the file began it
anew and appends to it (`Anew`), and then what the load reads next cannot close a gap.

**ImportProofs** (any threads, files and names, any number of runs). Neither property is inductive.
`IInv` says that the marks are exactly the modules some thread is in, from the mark to its removal
(`MarkedBut`), that no two threads are in one (`Alone`), that a thread is in none twice (`Once`, `New`),
that the table holds every scope an import has given, each for the module that ran in it (`Tabled`,
`EndedIsTabled`), and that a module that a thread is in is not in the table before it has ended well
(`InMeansNew`), so that `Publish` replaces nothing. Each part excepts the modules in `raced`. The
lemmas `ChainPush` and `ChainPop` say what a load and an end do to the modules a thread is in;
`QuietStep` takes the steps that change no table and no chain. Proved: `TypeCorrect`, `OneModule`, and the action
property `Circular`. The search is not looked into: any file may be found under any name.

**NumbersProofs** (integers of any width, `NumbersAssumption`; numbers and literals of any size). `NumbersInv` says
that the registers hold values in normal form (`Kept`) and that every number in the cache is that of a
literal of some module, under its key (`FromLiteral`). All of it rests on lemmas about the operators, one for each
method (`Sum`, `Difference`, `Product`, `Quotient`, `FloorQuotient`, `Remainder`, `Exponentiation`, `Comparison`):
from operands in normal form it makes a number in normal form whose value is the one of `ExactBut`, or wraps
in exactly its exceptions. Below them: `Canonical` and `OneForm` (a rational has one form in lowest terms, which makes
equality of representations equality of values), `Wraps`, `CDivision`, `CutOrFloor` (what C's division
has to do with the floor), `ProductTest` (the four divisions of `MultiplyOverflows` decide whether the product fits). What
goes through rounds needs an induction over numbers: `Least`, the least element of a set of them, gives `Induction`, and
with it the values of the recursive functions: `PowerRounds`, `IntPowIs` (squaring gives the power or says that it
overflows), `FoldKeeps`, `TranslatedIs` (later literals move no constant of an earlier one). Proved:
`NumbersInvariant`, and from it `NormalForm`, `ExactBut`, `OrderBut` and `LoadsWhatIsWritten`. GMP and collisions of
hashes stay abstract.

**FileProofs** (any processes, scenes of any length, any failures of system calls; `ScenesAssumption`). A
`close` that fails after the FILE is gone leaves the File open for its methods; so does a constructor whose FILE is
missing (`Misled`). `HandlesSound`, the inductive invariant, says that a misled File
is one whose close, or whose constructor, has failed in its process (`Excused`), that a process names only
Files it has (`LastOpen`), and that a program that has used freed memory makes no more calls. The lemmas go
along the code: what one call does to the streams of its own process (`Using`), that a call on whole files and trees
leaves every File alone (`TreeEffect`), and that reading a directory fails and leaves its FILE open (`DirectoryReadIsSame`). Proved: `HandlesSound` (as
`HandlesAreSound`) and `OnlyFailedCloseDangles`.

**ArrayProofs** (integers of any width, chunks and cutoffs of any size, `SlicesAssumption`, `ArrayAssumption`: all
arguments that are invocations of a method, any sequence of them, and any calls of the program while a method
waits for it). No property is inductive, as all speak of a method's end. `BufferInv` says of the array that
its items lie within the buffer and that each was stored (`Buffer`), and of the method that waits (`Calling`) that the
length it took at its beginning is still covered by the array unless the program has shortened it, that
indices it computed are those for that length, and that what it has collected was held by the array since
its beginning. For the item that `filter` reads again the slots behind the items matter too: in them every method
leaves what they had, an item from before or after it, or nothing (`Leftover`). The lemmas go along the code. `SliceLen`
and `RangeEnds` count what a slice or range yields in wrapping arithmetic, and say when a range goes on for ever;
the `...Keeps` lemmas, one for each operation of `darray_armem` and each method, say that it keeps the buffer or
ends as the properties allow; `PartitionSplits` and `QsortSorts` show that the scans of the sort stay in the copy
but by a comparison that puts everything before everything, because the pivot stops the upward scan and the
first item the downward one, and that the sort leaves a permutation of the copy, in order if the comparison is one
(`Shuffled`, `Sorted`: what does not lie together in a part still to be sorted is in order, `Split`); `EachGoes` takes
a method from one call of the program to the next. Loops have no bound here: as in
NumbersProofs, `Least` gives `Induction`, and that the recursive functions exist (`Recursion`). The second part of the
module proves that an array is a list. `SliceNames` and `RangeNames` say that the positions a slice goes over and the
numbers a range yields, counted in wrapping arithmetic, are those that the definitions `Named` and `RangeOf` list
by what they satisfy; the `...Is` lemmas, one for each method, that what it leaves in the array and returns is
what the method does to a list (`Exact`). A method that calls the program gets there only if it has been right so
far, which the property does not say, as it speaks of ends: `ExactSoFar` adds that a method that waits, while nobody has
changed the array, has collected what the items before its position call for (`Faithful`), which the
program's answer preserves (`AnswerPrepares`). Proved: `BufferInv` (as `BufferInvariance`),
`StaysInBufferBut`, `DeliversItemsBut` and `UndisturbedIsExactBut`.

Only model-checked: liveness (`ReaderEnters`, `Terminates`,
`InterruptEndsProgram`, `EveryCallReturns`); whatever involves the recursive translator or `Meaning`
(`TranslationIsTyped`, `RunsAsWritten`); everything of `Parser`, whose grammar is recursive; of `Files` the
two promises about contents (`NothingLostBut`, `OkMeansDoneBut`), which are about scenes with one call of each process
and not about every sequence of calls: a process that moves a file and then removes it has lost it, as it
asked. The type
invariants of the other specifications are theorems, so the runs do not repeat them.

## 6. Disagreements and surprises

First, disagreements between the program and a document, of which the first is a run and the others
can be had by adding the named definition as an INVARIANT of the named configuration.

- *break out of `for` leaves a catcher.* The catcher of the loop is pushed after `break_jump` has
  recorded the handler depth, and is not counted. A later StopIteration in the same frame jumps
  behind the loop that was left, and what follows it runs a second time (`control_for`).
- *Main is not excluded while threads start.* `hashmap.h:37` calls the API thread-safe. The macros
  of `RWLock.h` test `thread_count` once; a worker counts itself when it first runs. Main may
  start a thread, see 0, enter a block without the lock, and be in it when the worker enters by
  the lock (`ThreadSafe` in `MCRWLock.cfg`). Nothing else can race (`OnlyMainCanRace`).
- *A detached thread may leak its block.* `main.c:15` of the threading library makes the detached
  thread responsible. It loads `status` before it stores `finished`; a Detach between sees a
  running thread, and the thread has seen one that is not detached (`DetachedFreesItself` in
  `MCThreadHandle.cfg`; with one caller, one block and `Ops <- OpsDetach`).
- *Detach frees under a thread that is still running.* `main.c:26` says that access is carefully
  synchronized. `finished` is stored before `unregister_thread` is called through the
  block (`NoUseAfterFree`, in the same way). It is the only such case: `RugPulledByDetach`.
- *A nested function uses the enclosing loop's continue.* `function.c:20` promises a translation in
  total isolation; `continue_jump` is not reset (`CompiledInIsolation` in `MCControlFor.cfg`, with
  `Programs <- AllPrograms`). It compares what the translator accepts for a body in its place and
  on its own.

Then what the models show of code of which no document says more. The properties that end in `But`
except exactly these places.

*Numbers.* The test of a subtraction's overflow misses INT64_MIN minus a positive number and a difference
of INT64_MAX + 1: both wrap, as does the negation of INT64_MIN. A division of which exactly one
operand is INT64_MIN, with a negative divisor, is wrong. `//` and `%` of int64 go towards zero, of
rationals towards minus infinity. INT64_MIN `//` or `%` -1 traps, and so does 0 to a negative int64. A
comparison of a negative int64 with a rational goes through an unsigned long. The key of the cache of literals is
the place of a constant, while modules have constants of their own (`KeyClash`). The built-in
functions over several arguments go on after an error, so that `divide(a, 0, b)` uses a result that
is not there.

*Import.* A second thread that imports a module while the first is in it is told of a circular import,
though there is none. If it looked a moment earlier, both run the module, in two scopes, of which the
later one stays in the table. Then the one that ends first takes the mark away, and an import of the
module by itself in the other is not refused: it runs again, within itself. The length of a path is kept in
a `char` (`import.c:482`): where it is signed, the size of a path beyond 126 bytes is negative.

*Threads.* A block is lost when `pthread_create` fails, which also leaves the object started for ever;
when two starts race, as the second replaces the first one's pointer; and in the case of Detach above
(`NoLeakBut`).

*Parser.* `let` refuses a repeated name but not `*a, **a`; an assignment takes `f(x, x=1) = ...`, and after a
trailing comma makes no test at all; `f(x?, *5)` reads another node's data as a name; a failing body
of `f(*a) = ...` frees the starred name twice, and `import ... expose a,` at the end of the text
frees its entries wrongly. A line that begins with `(`, `[`, `.` or an operator goes on with the expression
before it. An operator binds by its place in an enumeration: `a / b * c` is `a / (b * c)`, `-a ^ 2` is
`(-a) ^ 2`, `x + y = 1` is `x + (y = 1)`. `f(x ? a : b)` cannot be written; branches may follow an `else`;
`{a,,b}` is accepted; an import that ends the text without a line end is refused.

*Files.* A `readdir` or `stat` that fails is taken for the end of the directory or for an entry of no interest:
a copy then succeeds incomplete, and a move across devices goes on to remove what was not copied, as
it does with sockets and dangling links and with files added meanwhile. `delete_dir` and a move across devices
follow links to directories, delete what they lead to and then fail at the link. A directory copied
into itself nests until the path is too long, and the call fails, leaving the copies. A close that fails
leaves a handle that is open on a freed FILE. The mode `x` is listed as valid (`init.ar:11`)
but `fopen` refuses it; files opened with `w+` or `a+` cannot be read; an error mark makes later reads fail; `size` does not see what
is buffered; `_File_from_handle` names the file after an imported module (`init.ar:70`);
`read_all` throws with a boolean where a type belongs. A directory opens for reading; only reading it fails.

*Dictionaries.* A loop has pointers into the inline slots: after the removal of an inline entry it may skip a key or
yield one twice. Another thread needs no more than a removal, or after one an insertion, between the two loads of
`__next__` to make it yield a key with the value of another one (`IteratorYieldsHeldPairsBut`), and a removal between the collection of
the pointers and their sorting may change the order.

*Arrays.* `map`, `sort` and an assignment to a slice end the process when the program shortens the array meanwhile;
an assignment whose indices have become stale may make the size nearly 2^64; a sort's result is
copied into a buffer that may have become too small; `filter` reads the item a second time, through a pointer that a
reallocation leaves behind; a comparison that is not an order lets the sort's scan leave its copy. An insertion
at a negative position writes before the buffer; a pop at a position outside takes the last item; `of_size` of a
negative number, and a slice with a step near INT64_MAX, give arrays of nearly 2^64 items; a step of INT64_MIN gives an empty
slice; a range whose last step passes INT64_MAX goes on for ever.

## 7. Not modelled

- Straight-line code of expressions, destructuring and classes: an EFFECT stands for it in `Control`. The text of
  names, numbers and strings in `Parser`.
- Values of variables, captured scopes and argument binding; the C stack limit: planned below.
- Register numbers wrap at 256 in the C struct; the modelled programs use fewer.
- What a module finds in the name `program`; files that appear or vanish between two imports (one that vanishes
  before it is read fails to load); two paths to one file by links.
- A thread whose function never returns, in `ThreadHandle`: a thread that joins itself, or the thread that joins it.
- Fractional powers (a floating approximation), the text of a number, ranges over rationals, `__string__` and `join`
  of arrays, `Local` and `get_id` of the threading library: conversions and approximations.
- Two threads that share one iterator of a dictionary: each iterator has one user.
- A second thread between an array's test of its size and the access, and a callback within a callback.
- Running out of memory, and the branches for Windows.
- Memory: the collector is a library, outside the repository.
- Strings, terminal, sockets, subprocesses, archives, regular expressions: byte copies and wrappers.

## 8. Plan

In this order; each with its mutants, and each abstract specification as a checked PROPERTY.

1. **The torn cache as a finding** (`import.c:270`, "cache exists and is valid, so will be used"):
   the run in which a load takes the bytecode of a text that the source no longer has.
2. **ArgBinding** (`call.c:93-370`): positional, keyword, default and variadic parameters against a
   declarative definition over all small signatures and calls; `c_depth`.
3. **Scopes**: values, captured scopes, assignment and deletion, EMPTY_SCOPE against a model in
   which every iteration has its own variables.
4. **Object pool and thread registration** (`object.c:101-134`, `api.c:153-161`), and the 8-bit
   counters of registers, as small models of their own.
