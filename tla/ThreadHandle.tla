---------------------------- MODULE ThreadHandle ----------------------------
(***************************************************************************)
(* The life of the thread_arg block shared by a thread of the threading    *)
(* library, the caller that started it and the callers that join or detach *)
(* it (src/stdlib/threading/native/main.c), under the methods start, join  *)
(* and detach of one Thread object (src/stdlib/threading/init.ar).  Every  *)
(* atomic operation, every access to the block and every access to a field *)
(* of the Thread object is a step.                                         *)
(***************************************************************************)
EXTENDS Naturals

CONSTANTS
  Callers,   \* threads that hold the Thread object
  Handles,   \* thread_arg blocks that Thread may allocate
  NULL,      \* the Argon null
  Ops        \* Ops[c]: the methods caller c uses

ASSUME HandleAssumption ==
  /\ NULL \notin Handles
  /\ Ops \in [Callers -> SUBSET {"start", "join", "detach"}]

VARIABLES
  started, thread,  \* the fields __started__ and __thread__
  status, finished, freed,  \* the atomics of each thread_arg block
  mem, frees, by,   \* each block's memory, how often freed and by whom first
  wpc, wstatus,     \* each new thread: its place in thread_fn, its local status
  joined, detached, \* blocks given to pthread_join, to pthread_detach
  uaf,              \* which accesses have touched a block already freed
  pc, at            \* each caller: its place, and the block it works on

fields  == <<started, thread>>
arg     == <<status, finished, freed>>
memory  == <<mem, frees, by>>
workers == <<wpc, wstatus>>
os      == <<joined, detached>>
vars    == <<fields, arg, memory, workers, os, uaf, pc, at>>

Statuses == {"UNCHANGED", "JOINED", "DETACHED"}
Freers   == {"nobody", "thread_fn", "Join", "Detach"}

WorkerPCs == {"none", "created", "registered", "returned", "loaded", "finished",
              "unregistered", "freeing", "exited"}
CallerPCs == {"idle", "start_set", "start_create", "start_assign",
              "join_read", "join_null", "join_cas", "join_enter", "join_wait",
              "join_freed", "join_free", "detach_read", "detach_load",
              "detach_cas", "detach_os", "detach_freed", "detach_free"}

\* What a load from a block may return: freed memory holds anything.
Seen(f, h, Values) == IF mem[h] = "gone" THEN Values ELSE {f[h]}

\* A store (or the store of a successful CAS) changes only a live block.
Store(f, h, v) == IF mem[h] = "live" THEN [f EXCEPT ![h] = v] ELSE f

Touch(h, site) ==
  uaf' = IF mem[h] = "gone" THEN [uaf EXCEPT ![h] = @ \cup {site}] ELSE uaf

\* api->free(h), called by who; 2 frees stand for more than one.
FreeBlock(h, who) ==
  /\ mem' = [mem EXCEPT ![h] = "gone"]
  /\ frees' = [frees EXCEPT ![h] = IF @ = 0 THEN 1 ELSE 2]
  /\ by' = [by EXCEPT ![h] = IF frees[h] = 0 THEN who ELSE @]
  /\ UNCHANGED arg

Goto(c, from, to) == pc[c] = from /\ pc' = [pc EXCEPT ![c] = to]

Init ==
  /\ started = FALSE /\ thread = NULL
  /\ status = [h \in Handles |-> "UNCHANGED"]
  /\ finished = [h \in Handles |-> 0] /\ freed = [h \in Handles |-> 0]
  /\ mem = [h \in Handles |-> "none"] /\ frees = [h \in Handles |-> 0]
  /\ by = [h \in Handles |-> "nobody"]
  /\ wpc = [h \in Handles |-> "none"]
  /\ wstatus = [h \in Handles |-> "UNCHANGED"]
  /\ joined = {} /\ detached = {}
  /\ uaf = [h \in Handles |-> {}]
  /\ pc = [c \in Callers |-> "idle"]
  /\ at = [c \in Callers |-> NULL]

-----------------------------------------------------------------------------
(* thread_fn *)

WorkerStep(h, from, to) == wpc[h] = from /\ wpc' = [wpc EXCEPT ![h] = to]

WorkerRegister(h) ==
  /\ WorkerStep(h, "created", "registered")
  /\ Touch(h, "thread_fn")
  /\ UNCHANGED <<fields, arg, memory, wstatus, os, pc, at>>

\* new_state, then the target runs and returns or fails into args->err.
WorkerCall(h) ==
  /\ WorkerStep(h, "registered", "returned")
  /\ Touch(h, "thread_fn")
  /\ UNCHANGED <<fields, arg, memory, wstatus, os, pc, at>>

WorkerLoadStatus(h) ==
  /\ WorkerStep(h, "returned", "loaded")
  /\ Touch(h, "thread_fn")
  /\ \E s \in Seen(status, h, Statuses) : wstatus' = [wstatus EXCEPT ![h] = s]
  /\ UNCHANGED <<fields, arg, memory, os, pc, at>>

WorkerFinish(h) ==
  /\ WorkerStep(h, "loaded", "finished")
  /\ Touch(h, "thread_fn")
  /\ finished' = Store(finished, h, 1)
  /\ UNCHANGED <<fields, status, freed, memory, wstatus, os, pc, at>>

WorkerUnregister(h) ==
  /\ WorkerStep(h, "finished", "unregistered")
  /\ Touch(h, "thread_fn")
  /\ UNCHANGED <<fields, arg, memory, wstatus, os, pc, at>>

\* Mutant: the CAS on freed is made whatever the status was.
Mut_WorkerClaim_anyStatus(h) ==
  /\ wpc[h] = "unregistered"
  /\ Touch(h, "thread_fn")
  /\ \E f \in Seen(freed, h, {0, 1}) :
       wpc' = [wpc EXCEPT ![h] = IF f = 0 THEN "freeing" ELSE "exited"]
  /\ freed' = Store(freed, h, 1)
  /\ UNCHANGED <<fields, status, finished, memory, wstatus, os, pc, at>>

\* A thread whose status was DETACHED when it looked tries to free the block.
WorkerClaim(h) ==
  /\ wpc[h] = "unregistered"
  /\ wstatus[h] = "DETACHED"
  /\ Touch(h, "thread_fn")
  /\ \E f \in Seen(freed, h, {0, 1}) :
       wpc' = [wpc EXCEPT ![h] = IF f = 0 THEN "freeing" ELSE "exited"]
  /\ freed' = Store(freed, h, 1)
  /\ UNCHANGED <<fields, status, finished, memory, wstatus, os, pc, at>>

WorkerLeave(h) ==
  /\ wstatus[h] # "DETACHED"
  /\ WorkerStep(h, "unregistered", "exited")
  /\ UNCHANGED <<fields, arg, memory, wstatus, os, uaf, pc, at>>

WorkerFree(h) ==
  /\ WorkerStep(h, "freeing", "exited")
  /\ FreeBlock(h, "thread_fn")
  /\ UNCHANGED <<fields, wstatus, os, uaf, pc, at>>

thread_fn(h) ==
  \/ WorkerRegister(h) \/ WorkerCall(h) \/ WorkerLoadStatus(h) \/ WorkerFinish(h)
  \/ WorkerUnregister(h) \/ WorkerClaim(h) \/ WorkerLeave(h) \/ WorkerFree(h)

-----------------------------------------------------------------------------
(* Thread.start and the native Thread *)

StartCheck(c) ==
  /\ "start" \in Ops[c] /\ ~started
  /\ Goto(c, "idle", "start_set")
  /\ UNCHANGED <<fields, arg, memory, workers, os, uaf, at>>

StartSet(c) ==
  /\ Goto(c, "start_set", "start_create")
  /\ started' = TRUE
  /\ UNCHANGED <<thread, arg, memory, workers, os, uaf, at>>

Thread(c, h) ==
  /\ mem[h] = "none"
  /\ Goto(c, "start_create", "start_assign")
  /\ mem' = [mem EXCEPT ![h] = "live"]
  /\ wpc' = [wpc EXCEPT ![h] = "created"]
  /\ at' = [at EXCEPT ![c] = h]
  /\ UNCHANGED <<fields, arg, frees, by, wstatus, os, uaf>>

\* pthread_create fails: RuntimeError, the block stays allocated.
ThreadFails(c, h) ==
  /\ mem[h] = "none"
  /\ Goto(c, "start_create", "idle")
  /\ mem' = [mem EXCEPT ![h] = "live"]
  /\ UNCHANGED <<fields, arg, frees, by, workers, os, uaf, at>>

StartAssign(c) ==
  /\ Goto(c, "start_assign", "idle")
  /\ thread' = at[c]
  /\ at' = [at EXCEPT ![c] = NULL]
  /\ UNCHANGED <<started, arg, memory, workers, os, uaf>>

start(c) ==
  \/ StartCheck(c) \/ StartSet(c) \/ StartAssign(c)
  \/ \E h \in Handles : Thread(c, h) \/ ThreadFails(c, h)

-----------------------------------------------------------------------------
(* Thread.join and the native Join *)

JoinCheck(c) ==
  /\ "join" \in Ops[c] /\ started /\ thread # NULL
  /\ Goto(c, "idle", "join_read")
  /\ UNCHANGED <<fields, arg, memory, workers, os, uaf, at>>

\* let thread_temp = self.__thread__
JoinRead(c) ==
  /\ Goto(c, "join_read", "join_null")
  /\ at' = [at EXCEPT ![c] = thread]
  /\ UNCHANGED <<fields, arg, memory, workers, os, uaf>>

\* self.__thread__ = null; a Join of null raises in argon_buffer_to_buffer.
JoinNull(c) ==
  /\ Goto(c, "join_null", IF at[c] = NULL THEN "idle" ELSE "join_cas")
  /\ thread' = NULL
  /\ UNCHANGED <<started, arg, memory, workers, os, uaf, at>>

\* CAS status UNCHANGED -> JOINED; on failure RuntimeError.
JoinClaim(c) ==
  /\ pc[c] = "join_cas"
  /\ Touch(at[c], "Join")
  /\ \E s \in Seen(status, at[c], Statuses) :
       IF s = "UNCHANGED"
       THEN Goto(c, "join_cas", "join_enter") /\ status' = Store(status, at[c], "JOINED")
       ELSE Goto(c, "join_cas", "idle") /\ UNCHANGED status
  /\ UNCHANGED <<fields, finished, freed, memory, workers, os, at>>

\* mt_thread_join reads thread->thread and calls pthread_join.
JoinEnter(c) ==
  /\ Goto(c, "join_enter", "join_wait")
  /\ Touch(at[c], "Join")
  /\ joined' = joined \cup {at[c]}
  /\ UNCHANGED <<fields, arg, memory, workers, detached, at>>

\* Mutant: the joiner goes on as soon as it sees the thread finished.
Mut_JoinReturn_onFinished(c) ==
  /\ Goto(c, "join_wait", "join_freed")
  /\ wpc[at[c]] \in {"finished", "unregistered", "freeing", "exited"}
  /\ UNCHANGED <<fields, arg, memory, workers, os, uaf, at>>

JoinReturn(c) ==
  /\ Goto(c, "join_wait", "join_freed")
  /\ wpc[at[c]] = "exited"
  /\ UNCHANGED <<fields, arg, memory, workers, os, uaf, at>>

\* Mutant: the caller that joined leaves the block to somebody else.
Mut_JoinFreed_gives_up(c) ==
  /\ Goto(c, "join_freed", "idle")
  /\ UNCHANGED <<fields, arg, memory, workers, os, uaf, at>>

\* CAS freed 0 -> 1 after set_err.
JoinFreed(c) ==
  /\ pc[c] = "join_freed"
  /\ Touch(at[c], "Join")
  /\ \E f \in Seen(freed, at[c], {0, 1}) :
       Goto(c, "join_freed", IF f = 0 THEN "join_free" ELSE "idle")
  /\ freed' = Store(freed, at[c], 1)
  /\ UNCHANGED <<fields, status, finished, memory, workers, os, at>>

JoinFree(c) ==
  /\ Goto(c, "join_free", "idle")
  /\ FreeBlock(at[c], "Join")
  /\ UNCHANGED <<fields, workers, os, uaf, at>>

join(c) ==
  \/ JoinCheck(c) \/ JoinRead(c) \/ JoinNull(c) \/ JoinClaim(c) \/ JoinEnter(c)
  \/ JoinReturn(c) \/ JoinFreed(c) \/ JoinFree(c)

-----------------------------------------------------------------------------
(* Thread.detach and the native Detach *)

DetachCheck(c) ==
  /\ "detach" \in Ops[c] /\ started /\ thread # NULL
  /\ Goto(c, "idle", "detach_read")
  /\ UNCHANGED <<fields, arg, memory, workers, os, uaf, at>>

\* __thread__ is read again for the call, and is not set to null.
DetachRead(c) ==
  /\ Goto(c, "detach_read", IF thread = NULL THEN "idle" ELSE "detach_load")
  /\ at' = [at EXCEPT ![c] = thread]
  /\ UNCHANGED <<fields, arg, memory, workers, os, uaf>>

DetachLoad(c) ==
  /\ pc[c] = "detach_load"
  /\ Touch(at[c], "Detach")
  /\ \E f \in Seen(finished, at[c], {0, 1}) :
       Goto(c, "detach_load", IF f = 1 THEN "detach_freed" ELSE "detach_cas")
  /\ UNCHANGED <<fields, arg, memory, workers, os, at>>

\* Mutant: DETACHED is stored over whatever the status is.
Mut_DetachClaim_noCheck(c) ==
  /\ Goto(c, "detach_cas", "detach_os")
  /\ Touch(at[c], "Detach")
  /\ status' = Store(status, at[c], "DETACHED")
  /\ UNCHANGED <<fields, finished, freed, memory, workers, os, at>>

DetachClaim(c) ==
  /\ pc[c] = "detach_cas"
  /\ Touch(at[c], "Detach")
  /\ \E s \in Seen(status, at[c], Statuses) :
       IF s = "UNCHANGED"
       THEN Goto(c, "detach_cas", "detach_os") /\ status' = Store(status, at[c], "DETACHED")
       ELSE Goto(c, "detach_cas", "idle") /\ UNCHANGED status
  /\ UNCHANGED <<fields, finished, freed, memory, workers, os, at>>

\* mt_thread_detach reads thread->thread.
DetachOs(c) ==
  /\ Goto(c, "detach_os", "idle")
  /\ Touch(at[c], "Detach")
  /\ detached' = detached \cup {at[c]}
  /\ UNCHANGED <<fields, arg, memory, workers, joined, at>>

\* Mutant: a finished thread's block is freed without the CAS on freed.
Mut_DetachFreed_noCas(c) ==
  /\ Goto(c, "detach_freed", "detach_free")
  /\ Touch(at[c], "Detach")
  /\ UNCHANGED <<fields, arg, memory, workers, os, at>>

\* The thread has finished: CAS freed 0 -> 1; the status is left alone.
DetachFreed(c) ==
  /\ pc[c] = "detach_freed"
  /\ Touch(at[c], "Detach")
  /\ \E f \in Seen(freed, at[c], {0, 1}) :
       Goto(c, "detach_freed", IF f = 0 THEN "detach_free" ELSE "idle")
  /\ freed' = Store(freed, at[c], 1)
  /\ UNCHANGED <<fields, status, finished, memory, workers, os, at>>

DetachFree(c) ==
  /\ Goto(c, "detach_free", "idle")
  /\ FreeBlock(at[c], "Detach")
  /\ UNCHANGED <<fields, workers, os, uaf, at>>

detach(c) ==
  \/ DetachCheck(c) \/ DetachRead(c) \/ DetachLoad(c) \/ DetachClaim(c)
  \/ DetachOs(c) \/ DetachFreed(c) \/ DetachFree(c)

Next ==
  \/ \E h \in Handles : thread_fn(h)
  \/ \E c \in Callers : start(c) \/ join(c) \/ detach(c)

Spec == Init /\ [][Next]_vars

-----------------------------------------------------------------------------
TypeOK ==
  /\ started \in BOOLEAN /\ thread \in Handles \cup {NULL}
  /\ status \in [Handles -> Statuses]
  /\ finished \in [Handles -> {0, 1}] /\ freed \in [Handles -> {0, 1}]
  /\ mem \in [Handles -> {"none", "live", "gone"}]
  /\ frees \in [Handles -> 0 .. 2] /\ by \in [Handles -> Freers]
  /\ wpc \in [Handles -> WorkerPCs] /\ wstatus \in [Handles -> Statuses]
  /\ joined \in SUBSET Handles /\ detached \in SUBSET Handles
  /\ uaf \in [Handles -> SUBSET Freers]
  /\ pc \in [Callers -> CallerPCs]
  /\ at \in [Callers -> Handles \cup {NULL}]

\* No access has yet touched the block after its memory was given back.
Clean(h) == uaf[h] = {}

(***************************************************************************)
(* The CAS on freed makes one actor free the block, among thread_fn, Join  *)
(* and Detach in any number of callers: it is freed twice only if some     *)
(* access before that had already read freed memory.                       *)
(***************************************************************************)
NoDoubleFree == \A h \in Handles : Clean(h) => frees[h] <= 1

(***************************************************************************)
(* POSIX leaves pthread_join of a detached thread undefined (thread.c:     *)
(* "pthread_join MUST NOT be called"): the CAS on status lets at most one  *)
(* of Join and Detach through, whatever the callers race to do.            *)
(***************************************************************************)
JoinXorDetach == \A h \in Handles : Clean(h) => h \notin joined \cap detached

(***************************************************************************)
(* A thread touches its own block after it was freed only if Detach freed  *)
(* it: a joiner waits for the thread's exit, and the thread's own free is  *)
(* its last step.                                                          *)
(***************************************************************************)
OnlyDetachPullsTheRug ==
  \A h \in Handles : "thread_fn" \in uaf[h] => by[h] = "Detach"

(***************************************************************************)
(* "Joinable threads are never freed by the thread itself" (main.c:21): a  *)
(* block the thread is about to free has been marked DETACHED and is not   *)
(* waited for by a joiner.                                                 *)
(***************************************************************************)
JoinableFreedByJoiner ==
  \A h \in Handles :
    Clean(h) /\ wpc[h] = "freeing" =>
      status[h] = "DETACHED" /\ h \notin joined

Quiet == \A c \in Callers : pc[c] = "idle"

(***************************************************************************)
(* Once every caller has returned, a block that is still allocated is the  *)
(* one the object holds, or of a thread that was detached and has not yet  *)
(* exited as such; it is lost only when pthread_create failed, when two    *)
(* starts raced, or when the thread looked at its status before Detach     *)
(* changed it.                                                             *)
(***************************************************************************)
NoLeakBut ==
  Quiet => \A h \in Handles : mem[h] = "live" =>
    \/ thread = h
    \/ h \in detached /\ (wpc[h] = "exited" => wstatus[h] = "UNCHANGED")
    \/ wpc[h] = "none"
    \/ \E g \in Handles \ {h} : wpc[g] # "none"

(***************************************************************************)
(* What main.c:12-17 says, "Detached threads are responsible for freeing   *)
(* their own thread argument memory once they have finished execution": a  *)
(* thread that was detached and has exited has freed its block.  Violated: *)
(* thread_fn loads the status before it stores finished, and Detach may    *)
(* run between the two.                                                    *)
(***************************************************************************)
DetachedFreesItself ==
  \A h \in Handles : wpc[h] = "exited" /\ h \in detached => mem[h] = "gone"

(***************************************************************************)
(* What main.c:26-27 says, "it is safe here because the memory is          *)
(* uncollectable and thread access is carefully synchronized": no access   *)
(* touches a freed block.  Violated: Detach frees the block of a thread    *)
(* that has stored finished and still has to unregister through it.        *)
(***************************************************************************)
NoUseAfterFree == \A h \in Handles : Clean(h)

=============================================================================
