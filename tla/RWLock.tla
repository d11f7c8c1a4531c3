------------------------------- MODULE RWLock -------------------------------
(***************************************************************************)
(* The readers/writer lock every shared Argon container carries            *)
(* (src/src/RWLock.h), with the fast path that skips the lock while        *)
(* thread_count is 0, and the life of the threads that change thread_count *)
(* (register_thread, unregister_thread).  Main, the thread that runs       *)
(* main.c, never registers; a worker registers as the first thing it does  *)
(* once pthread_create has started it, and not before.                     *)
(***************************************************************************)
EXTENDS Naturals, FiniteSets

CONSTANTS
  Main,     \* the thread that runs main()
  Workers   \* threads the threading library may start

ASSUME WorkersAssumption == IsFiniteSet(Workers) /\ Main \notin Workers

VARIABLES
  thread_count,  \* the atomic counter that selects the fast path
  life,          \* where each worker is between pthread_create and its end
  place,         \* where each thread is with respect to one lock's block
  mode           \* whether its block is RDLOCK's ("r") or WRLOCK's ("w")

LockVars == <<thread_count, life, place, mode>>

Threads == Workers \cup {Main}
Lives   == {"none", "created", "registered", "ended"}
PCs     == {"out", "fast", "waiting", "locked"}

Registered == {w \in Workers : life[w] = "registered"}

\* Threads that are executing Argon code.
Running == Registered \cup {Main}

\* Threads inside the block, whichever way they came in.
Inside == {t \in Threads : place[t] \in {"fast", "locked"}}

LockInit ==
  /\ thread_count = 0
  /\ life = [w \in Workers |-> "none"]
  /\ place = [t \in Threads |-> "out"]
  /\ mode = [t \in Threads |-> "r"]

(***************************************************************************)
(* A running thread starts a worker: pthread_create returns at once, and   *)
(* nothing the creator does waits for the new thread to register.          *)
(***************************************************************************)
Create(t, w) ==
  /\ t \in Running
  /\ place[t] = "out"
  /\ life[w] \in {"none", "ended"}
  /\ life' = [life EXCEPT ![w] = "created"]
  /\ UNCHANGED <<thread_count, place, mode>>

register_thread(w) ==
  /\ life[w] = "created"
  /\ life' = [life EXCEPT ![w] = "registered"]
  /\ thread_count' = thread_count + 1
  /\ UNCHANGED <<place, mode>>

\* Mutant: the counter is cleared, not decremented.
Mut_unregister_clears(w) ==
  /\ life[w] = "registered"
  /\ place[w] = "out"
  /\ life' = [life EXCEPT ![w] = "ended"]
  /\ thread_count' = 0
  /\ UNCHANGED <<place, mode>>

unregister_thread(w) ==
  /\ life[w] = "registered"
  /\ place[w] = "out"
  /\ life' = [life EXCEPT ![w] = "ended"]
  /\ thread_count' = thread_count - 1
  /\ UNCHANGED <<place, mode>>

(***************************************************************************)
(* RWLOCK_RDLOCK and RWLOCK_WRLOCK: one atomic load decides which branch   *)
(* of the macro runs; the slow branch asks pthread for the lock, runs the  *)
(* block and unlocks, the fast branch just runs the block.                 *)
(***************************************************************************)
\* Mutant: a single registered thread is taken to be alone.
Mut_Load_offByOne(t, m) ==
  /\ t \in Running
  /\ place[t] = "out"
  /\ mode' = [mode EXCEPT ![t] = m]
  /\ place' = [place EXCEPT ![t] = IF thread_count <= 1 THEN "fast" ELSE "waiting"]
  /\ UNCHANGED <<thread_count, life>>

Load(t, m) ==
  /\ t \in Running
  /\ place[t] = "out"
  /\ mode' = [mode EXCEPT ![t] = m]
  /\ place' = [place EXCEPT ![t] = IF thread_count = 0 THEN "fast" ELSE "waiting"]
  /\ UNCHANGED <<thread_count, life>>

\* pthread's lock: many readers or one writer.
Free(m) == \A u \in Threads : place[u] = "locked" => m = "r" /\ mode[u] = "r"

Acquire(t) ==
  /\ place[t] = "waiting"
  /\ Free(mode[t])
  /\ place' = [place EXCEPT ![t] = "locked"]
  /\ UNCHANGED <<thread_count, life, mode>>

\* Mutant: the write block returns without unlocking.
Mut_Leave_noUnlock(t) ==
  /\ t \in Inside
  /\ place[t] = "fast" \/ mode[t] = "r"
  /\ place' = [place EXCEPT ![t] = "out"]
  /\ UNCHANGED <<thread_count, life, mode>>

Leave(t) ==
  /\ t \in Inside
  /\ place' = [place EXCEPT ![t] = "out"]
  /\ UNCHANGED <<thread_count, life, mode>>

LockNext ==
  \/ \E t \in Threads, w \in Workers : Create(t, w)
  \/ \E w \in Workers : register_thread(w)
  \/ \E w \in Workers : unregister_thread(w)
  \/ \E t \in Threads, m \in {"r", "w"} : Load(t, m)
  \/ \E t \in Threads : Acquire(t)
  \/ \E t \in Threads : Leave(t)

(***************************************************************************)
(* The operating system runs every thread that can run, and no block loops *)
(* for ever.  Nothing is assumed of what a thread chooses to do next.      *)
(***************************************************************************)
Fairness ==
  /\ \A w \in Workers : WF_LockVars(register_thread(w))
  /\ \A t \in Threads : WF_LockVars(Leave(t))
  /\ \A t \in Threads : SF_LockVars(Acquire(t))

LockSpec == LockInit /\ [][LockNext]_LockVars
FairSpec == LockSpec /\ Fairness

-----------------------------------------------------------------------------
LockTypeOK ==
  /\ thread_count \in Nat
  /\ life \in [Workers -> Lives]
  /\ place \in [Threads -> PCs]
  /\ mode \in [Threads -> {"r", "w"}]

Conflict(t, u) == t # u /\ {t, u} \subseteq Inside /\ "w" \in {mode[t], mode[u]}

(***************************************************************************)
(* What hashmap.h says of its functions, "Public API (thread-safe)": no    *)
(* thread is in a write block of a container while another is in a block   *)
(* of the same container.  It is violated: Main takes the fast path after  *)
(* pthread_create and is still inside when the worker registers and locks. *)
(***************************************************************************)
ThreadSafe == \A t, u \in Threads : ~Conflict(t, u)

(***************************************************************************)
(* The extent of that race.  Two threads are in conflicting blocks only    *)
(* when one of them is Main and came in by the fast path: a worker never   *)
(* skips the lock, whoever started it and however many have come and gone, *)
(* so workers exclude each other always.                                   *)
(***************************************************************************)
OnlyMainRaces ==
  \A t, u \in Threads :
    Conflict(t, u) => \E x \in {t, u} : x = Main /\ place[x] = "fast"

(***************************************************************************)
(* The fast path is entered only while no registered thread exists: the    *)
(* counter has neither lost an increment nor gone down early, so a race    *)
(* always needs a worker that registers after Main's load.                 *)
(***************************************************************************)
FastOnlyAlone ==
  [][\A t \in Threads :
       place[t] # "fast" /\ place'[t] = "fast" => Registered = {} /\ Inside = {}]_LockVars

(***************************************************************************)
(* A thread that waits to read enters its block.  The fast path leaves no  *)
(* lock held behind it and the branch taken at the start is the one left   *)
(* at the end, whatever thread_count does in between.  (A writer may wait  *)
(* for ever: pthread's default lock admits readers over a waiting writer.) *)
(***************************************************************************)
ReaderEnters ==
  \A t \in Threads : place[t] = "waiting" /\ mode[t] = "r" ~> place[t] = "locked"

=============================================================================
