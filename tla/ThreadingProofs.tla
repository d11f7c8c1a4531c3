--------------------------- MODULE ThreadingProofs ---------------------------
(***************************************************************************)
(* Proofs about the threading library and the containers' lock: about      *)
(* ThreadHandle, for any callers, any blocks and any choice of methods the *)
(* callers use, and about RWLock, for any finite set of workers.           *)
(***************************************************************************)
EXTENDS ThreadHandle, RWLock, FiniteSetTheorems, TLAPS

USE HandleAssumption

\* Callers that work on a block, and those that have won its freed CAS.
Working == CallerPCs \ {"idle", "start_set", "start_create", "join_read",
                        "join_null", "detach_read"}
Freeing(c, h) == pc[c] \in {"join_free", "detach_free"} /\ at[c] = h
Joining == {"join_enter", "join_wait", "join_freed", "join_free"}

\* A caller past its null check has a block.
HasBlock ==
  \A c \in Callers : pc[c] \in Working => at[c] \in Handles

\* Memory: gone exactly when freed; only a freed block can be misused.
Memory(h) ==
  /\ mem[h] = "gone" <=> frees[h] # 0
  /\ frees[h] = 0 => Clean(h)
  /\ mem[h] = "none" => freed[h] = 0 /\ wpc[h] = "none"
  /\ \A c \in Callers : pc[c] \in Working /\ at[c] = h => mem[h] # "none"
  /\ thread = h => mem[h] # "none"
  /\ \A c \in Callers : pc[c] = "join_null" /\ at[c] = h => mem[h] # "none"

\* One winner of the CAS on freed.
OneClaim(h) ==
  Clean(h) =>
    /\ frees[h] <= 1
    /\ freed[h] = 0 =>
         frees[h] = 0 /\ wpc[h] # "freeing" /\ \A c \in Callers : ~Freeing(c, h)
    /\ wpc[h] = "freeing" => frees[h] = 0 /\ \A c \in Callers : ~Freeing(c, h)
    /\ \A c \in Callers : Freeing(c, h) => frees[h] = 0
    /\ \A c, d \in Callers : Freeing(c, h) /\ Freeing(d, h) => c = d

\* The status names the one of Join and Detach that went through.
StatusKept(h) ==
  Clean(h) =>
    /\ h \in joined => status[h] = "JOINED"
    /\ h \in detached => status[h] = "DETACHED"
    /\ wstatus[h] = "DETACHED" => status[h] = "DETACHED"
    /\ wpc[h] = "freeing" => wstatus[h] = "DETACHED"
    /\ \A c \in Callers :
         at[c] = h =>
           /\ pc[c] \in Joining => status[h] = "JOINED"
           /\ pc[c] = "detach_os" => status[h] = "DETACHED"

\* Whoever frees first other than Detach does so after the thread's last use.
FreedAfter(h) ==
  /\ by[h] = "nobody" <=> frees[h] = 0
  /\ by[h] \in {"Join", "thread_fn"} => wpc[h] = "exited"
  /\ "thread_fn" \in uaf[h] => by[h] = "Detach"
  /\ \A c \in Callers :
       pc[c] \in {"join_freed", "join_free"} /\ at[c] = h => wpc[h] = "exited"

HInv(h) == Memory(h) /\ OneClaim(h) /\ StatusKept(h) /\ FreedAfter(h)

IInv == TypeOK /\ HasBlock /\ \A h \in Handles : HInv(h)

-----------------------------------------------------------------------------
LEMMA InitIInv == Init => IInv
  <1> SUFFICES ASSUME Init PROVE IInv
    OBVIOUS
  <1> USE DEF Init
  <1>1. TypeOK
    <2>1. started \in BOOLEAN /\ thread \in Handles \cup {NULL} /\ joined \in SUBSET Handles
            /\ detached \in SUBSET Handles /\ uaf \in [Handles -> SUBSET Freers]
      OBVIOUS
    <2>2. wpc \in [Handles -> WorkerPCs] /\ pc \in [Callers -> CallerPCs]
            /\ status \in [Handles -> Statuses] /\ wstatus \in [Handles -> Statuses]
            /\ by \in [Handles -> Freers]
      BY DEF WorkerPCs, CallerPCs, Statuses, Freers
    <2> QED
      BY <2>1, <2>2 DEF TypeOK
  <1>2. HasBlock
    BY DEF HasBlock, Working
  <1>3. ASSUME NEW h \in Handles PROVE HInv(h)
    BY DEF HInv, Memory, OneClaim, StatusKept, FreedAfter, Clean, Freeing, Joining, Working
  <1> QED
    BY <1>1, <1>2, <1>3 DEF IInv

(***************************************************************************)
(* The steps of thread_fn that only pass through the block: no claim, no   *)
(* free.                                                                   *)
(***************************************************************************)
LEMMA WorkerPassKeeps ==
  ASSUME IInv, NEW h \in Handles,
         WorkerRegister(h) \/ WorkerCall(h) \/ WorkerFinish(h) \/
         WorkerUnregister(h) \/ WorkerLeave(h)
  PROVE  IInv'
  <1> USE DEF IInv, WorkerRegister, WorkerStep, Touch, fields, arg, memory, os,
             WorkerCall, WorkerFinish, Store, WorkerUnregister, WorkerLeave
  <1>1. TypeOK'
    BY DEF TypeOK, HasBlock, Working, Statuses, Freers, WorkerPCs, CallerPCs
  <1>2. HasBlock'
    BY DEF TypeOK, HasBlock, Working, CallerPCs
  <1>3. ASSUME NEW g \in Handles PROVE HInv(g)'
    <2>1. Memory(g)'
      BY DEF TypeOK, HasBlock, Working, HInv, Memory, Clean, CallerPCs
    <2>2. OneClaim(g)'
      BY DEF TypeOK, HasBlock, Working, HInv, Memory, Clean, CallerPCs,
             OneClaim, Freeing
    <2>3. StatusKept(g)'
      BY DEF TypeOK, HasBlock, Working, HInv, Memory, Clean, CallerPCs,
             StatusKept, Joining, Statuses
    <2>4. FreedAfter(g)'
      BY DEF TypeOK, HasBlock, Working, HInv, Memory, Clean, CallerPCs,
             FreedAfter, Freers
    <2> QED
      BY <2>1, <2>2, <2>3, <2>4 DEF HInv
  <1> QED
    BY <1>1, <1>2, <1>3

(***************************************************************************)
(* The thread's own look at its status.  In a live block a status of       *)
(* DETACHED stays.                                                         *)
(***************************************************************************)
LEMMA WorkerLoadKeeps ==
  ASSUME IInv, NEW h \in Handles, WorkerLoadStatus(h) PROVE IInv'
  <1> USE DEF IInv, WorkerLoadStatus, WorkerStep, Touch, Seen, fields, arg,
             memory, os
  <1>1. TypeOK'
    BY DEF TypeOK, HasBlock, Working, Statuses, Freers, WorkerPCs, CallerPCs
  <1>2. HasBlock'
    BY DEF TypeOK, HasBlock, Working, CallerPCs
  <1>3. ASSUME NEW g \in Handles PROVE HInv(g)'
    <2>1. Memory(g)'
      BY DEF TypeOK, HasBlock, Working, HInv, Memory, Clean, CallerPCs
    <2>2. OneClaim(g)'
      <3>1. CASE mem[h] = "gone"
        <4>1. ~Clean(h)'
          BY <3>1 DEF TypeOK, HasBlock, Working, Clean, CallerPCs
        <4>2. CASE g = h
          BY <4>1, <4>2 DEF OneClaim
        <4>3. CASE g # h
          BY <4>3 DEF TypeOK, HasBlock, Working, HInv, Memory, Clean, CallerPCs,
                 OneClaim, Freeing
        <4> QED
          BY <4>2, <4>3
      <3>2. CASE mem[h] = "live"
        BY <3>2 DEF TypeOK, HasBlock, Working, HInv, Memory, Clean, CallerPCs,
               OneClaim, Freeing
      <3> QED
        BY <3>1, <3>2 DEF TypeOK, HasBlock, Working, HInv, Memory
    <2>3. StatusKept(g)'
      <3>1. CASE mem[h] = "gone"
        <4>1. ~Clean(h)'
          BY <3>1 DEF TypeOK, HasBlock, Working, Clean, CallerPCs
        <4>2. CASE g = h
          BY <4>1, <4>2 DEF StatusKept
        <4>3. CASE g # h
          BY <4>3 DEF TypeOK, HasBlock, Working, HInv, Memory, Clean, CallerPCs,
                 StatusKept, Joining, Statuses
        <4> QED
          BY <4>2, <4>3
      <3>2. CASE mem[h] = "live"
        BY <3>2 DEF TypeOK, HasBlock, Working, HInv, Memory, Clean, CallerPCs,
               StatusKept, Joining, Statuses
      <3> QED
        BY <3>1, <3>2 DEF TypeOK, HasBlock, Working, HInv, Memory
    <2>4. FreedAfter(g)'
      BY DEF TypeOK, HasBlock, Working, HInv, Memory, Clean, CallerPCs,
             FreedAfter, Freers
    <2> QED
      BY <2>1, <2>2, <2>3, <2>4 DEF HInv
  <1> QED
    BY <1>1, <1>2, <1>3

(***************************************************************************)
(* The thread's CAS on freed: it wins only while nobody has claimed the    *)
(* block.                                                                  *)
(***************************************************************************)
LEMMA WorkerClaimKeeps ==
  ASSUME IInv, NEW h \in Handles, WorkerClaim(h) PROVE IInv'
  <1> USE DEF IInv, WorkerClaim, Touch, Store, Seen, fields, memory, os
  <1>1. TypeOK'
    BY DEF TypeOK, HasBlock, Working, Statuses, Freers, WorkerPCs, CallerPCs
  <1>2. HasBlock'
    BY DEF TypeOK, HasBlock, Working, CallerPCs
  <1>3. ASSUME NEW g \in Handles PROVE HInv(g)'
    <2>1. Memory(g)'
      BY DEF TypeOK, HasBlock, Working, HInv, Memory, Clean, CallerPCs
    <2>2. OneClaim(g)'
      <3>1. CASE mem[h] = "gone"
        <4>1. ~Clean(h)'
          BY <3>1 DEF TypeOK, HasBlock, Working, Clean, CallerPCs
        <4>2. CASE g = h
          BY <4>1, <4>2 DEF OneClaim
        <4>3. CASE g # h
          BY <4>3 DEF TypeOK, HasBlock, Working, HInv, Memory, Clean, CallerPCs,
                 OneClaim, Freeing
        <4> QED
          BY <4>2, <4>3
      <3>2. CASE mem[h] = "live"
        BY <3>2 DEF TypeOK, HasBlock, Working, HInv, Memory, Clean, CallerPCs,
               OneClaim, Freeing
      <3> QED
        BY <3>1, <3>2 DEF TypeOK, HasBlock, Working, HInv, Memory
    <2>3. StatusKept(g)'
      <3>1. CASE mem[h] = "gone"
        <4>1. ~Clean(h)'
          BY <3>1 DEF TypeOK, HasBlock, Working, Clean, CallerPCs
        <4>2. CASE g = h
          BY <4>1, <4>2 DEF StatusKept
        <4>3. CASE g # h
          BY <4>3 DEF TypeOK, HasBlock, Working, HInv, Memory, Clean, CallerPCs,
                 StatusKept, Joining, Statuses
        <4> QED
          BY <4>2, <4>3
      <3>2. CASE mem[h] = "live"
        BY <3>2 DEF TypeOK, HasBlock, Working, HInv, Memory, Clean, CallerPCs,
               StatusKept, Joining, Statuses
      <3> QED
        BY <3>1, <3>2 DEF TypeOK, HasBlock, Working, HInv, Memory
    <2>4. FreedAfter(g)'
      BY DEF TypeOK, HasBlock, Working, HInv, Memory, Clean, CallerPCs,
             FreedAfter, Freers
    <2> QED
      BY <2>1, <2>2, <2>3, <2>4 DEF HInv
  <1> QED
    BY <1>1, <1>2, <1>3

(***************************************************************************)
(* The thread frees its block as its last step.                            *)
(***************************************************************************)
LEMMA WorkerFreeKeeps ==
  ASSUME IInv, NEW h \in Handles, WorkerFree(h) PROVE IInv'
  <1> USE DEF IInv, WorkerFree, WorkerStep, FreeBlock, fields, os, arg
  <1>1. TypeOK'
    BY DEF TypeOK, HasBlock, Working, Statuses, Freers, WorkerPCs, CallerPCs
  <1>2. HasBlock'
    BY DEF TypeOK, HasBlock, Working, CallerPCs
  <1>3. ASSUME NEW g \in Handles PROVE HInv(g)'
    <2>1. Memory(g)'
      BY DEF TypeOK, HasBlock, Working, HInv, Memory, Clean, CallerPCs
    <2>2. OneClaim(g)'
      BY DEF TypeOK, HasBlock, Working, HInv, Memory, Clean, CallerPCs,
             OneClaim, Freeing
    <2>3. StatusKept(g)'
      BY DEF TypeOK, HasBlock, Working, HInv, Memory, Clean, CallerPCs,
             StatusKept, Joining, Statuses
    <2>4. FreedAfter(g)'
      BY DEF TypeOK, HasBlock, Working, HInv, Memory, Clean, CallerPCs,
             FreedAfter, Freers
    <2> QED
      BY <2>1, <2>2, <2>3, <2>4 DEF HInv
  <1> QED
    BY <1>1, <1>2, <1>3

(***************************************************************************)
(* The steps of start before the creation.                                 *)
(***************************************************************************)
LEMMA StartPassKeeps ==
  ASSUME IInv, NEW c \in Callers, StartCheck(c) \/ StartSet(c) PROVE IInv'
  <1> USE DEF IInv, StartCheck, Goto, fields, arg, memory, workers, os, StartSet
  <1>1. TypeOK'
    <2>1. CASE StartCheck(c)
      BY <2>1 DEF TypeOK, HasBlock, Working, Statuses, Freers, WorkerPCs, CallerPCs
    <2>2. CASE StartSet(c)
      BY <2>2 DEF TypeOK, HasBlock, Working, Statuses, Freers, WorkerPCs, CallerPCs
    <2> QED
      BY <2>1, <2>2
  <1>2. HasBlock'
    BY DEF TypeOK, HasBlock, Working, CallerPCs
  <1>3. ASSUME NEW g \in Handles PROVE HInv(g)'
    <2>1. Memory(g)'
      BY DEF TypeOK, HasBlock, Working, HInv, Memory, Clean, CallerPCs
    <2>2. OneClaim(g)'
      BY DEF TypeOK, HasBlock, Working, HInv, Memory, Clean, CallerPCs,
             OneClaim, Freeing
    <2>3. StatusKept(g)'
      BY DEF TypeOK, HasBlock, Working, HInv, Memory, Clean, CallerPCs,
             StatusKept, Joining, Statuses
    <2>4. FreedAfter(g)'
      BY DEF TypeOK, HasBlock, Working, HInv, Memory, Clean, CallerPCs,
             FreedAfter, Freers
    <2> QED
      BY <2>1, <2>2, <2>3, <2>4 DEF HInv
  <1> QED
    BY <1>1, <1>2, <1>3

(***************************************************************************)
(* The new block becomes the object's.                                     *)
(***************************************************************************)
LEMMA StartAssignKeeps ==
  ASSUME IInv, NEW c \in Callers, StartAssign(c) PROVE IInv'
  <1> USE DEF IInv, StartAssign, Goto, arg, memory, workers, os
  <1>1. TypeOK'
    BY DEF TypeOK, HasBlock, Working, Statuses, Freers, WorkerPCs, CallerPCs
  <1>2. HasBlock'
    BY DEF TypeOK, HasBlock, Working, CallerPCs
  <1>3. ASSUME NEW g \in Handles PROVE HInv(g)'
    <2>1. Memory(g)'
      BY DEF TypeOK, HasBlock, Working, HInv, Memory, Clean, CallerPCs
    <2>2. OneClaim(g)'
      BY DEF TypeOK, HasBlock, Working, HInv, Memory, Clean, CallerPCs,
             OneClaim, Freeing
    <2>3. StatusKept(g)'
      BY DEF TypeOK, HasBlock, Working, HInv, Memory, Clean, CallerPCs,
             StatusKept, Joining, Statuses
    <2>4. FreedAfter(g)'
      BY DEF TypeOK, HasBlock, Working, HInv, Memory, Clean, CallerPCs,
             FreedAfter, Freers
    <2> QED
      BY <2>1, <2>2, <2>3, <2>4 DEF HInv
  <1> QED
    BY <1>1, <1>2, <1>3

(***************************************************************************)
(* The block a new thread takes is one nobody has.                         *)
(***************************************************************************)
LEMMA ThreadKeeps ==
  ASSUME IInv, NEW c \in Callers, NEW h \in Handles,
         Thread(c, h) \/ ThreadFails(c, h)
  PROVE  IInv'
  <1> USE DEF IInv, Thread, Goto, fields, arg, os, ThreadFails, workers
  <1>1. TypeOK'
    BY DEF TypeOK, HasBlock, Working, Statuses, Freers, WorkerPCs, CallerPCs
  <1>2. HasBlock'
    BY DEF TypeOK, HasBlock, Working, CallerPCs
  <1>3. ASSUME NEW g \in Handles PROVE HInv(g)'
    <2>1. Memory(g)'
      BY DEF TypeOK, HasBlock, Working, HInv, Memory, Clean, CallerPCs
    <2>2. OneClaim(g)'
      BY SMTT(30) DEF TypeOK, HasBlock, Working, HInv, Memory, Clean, CallerPCs,
             OneClaim, Freeing
    <2>3. StatusKept(g)'
      BY DEF TypeOK, HasBlock, Working, HInv, Memory, Clean, CallerPCs,
             StatusKept, Joining, Statuses
    <2>4. FreedAfter(g)'
      BY DEF TypeOK, HasBlock, Working, HInv, Memory, Clean, CallerPCs,
             FreedAfter, Freers
    <2> QED
      BY <2>1, <2>2, <2>3, <2>4 DEF HInv
  <1> QED
    BY <1>1, <1>2, <1>3

(***************************************************************************)
(* The steps of join before and between its accesses to the block.         *)
(***************************************************************************)
LEMMA JoinPassKeeps ==
  ASSUME IInv, NEW c \in Callers,
         JoinCheck(c) \/ JoinRead(c) \/ JoinNull(c) \/ JoinReturn(c)
  PROVE  IInv'
  <1> USE DEF IInv, JoinCheck, Goto, fields, arg, memory, workers, os, JoinRead,
             JoinNull, JoinReturn
  <1>1. TypeOK'
    BY DEF TypeOK, HasBlock, Working, Statuses, Freers, WorkerPCs, CallerPCs
  <1>2. HasBlock'
    BY DEF TypeOK, HasBlock, Working, CallerPCs
  <1>3. ASSUME NEW g \in Handles PROVE HInv(g)'
    <2>1. Memory(g)'
      BY DEF TypeOK, HasBlock, Working, HInv, Memory, Clean, CallerPCs
    <2>2. OneClaim(g)'
      BY DEF TypeOK, HasBlock, Working, HInv, Memory, Clean, CallerPCs,
             OneClaim, Freeing
    <2>3. StatusKept(g)'
      BY DEF TypeOK, HasBlock, Working, HInv, Memory, Clean, CallerPCs,
             StatusKept, Joining, Statuses
    <2>4. FreedAfter(g)'
      BY DEF TypeOK, HasBlock, Working, HInv, Memory, Clean, CallerPCs,
             FreedAfter, Freers
    <2> QED
      BY <2>1, <2>2, <2>3, <2>4 DEF HInv
  <1> QED
    BY <1>1, <1>2, <1>3

(***************************************************************************)
(* Join's CAS on status.                                                   *)
(***************************************************************************)
LEMMA JoinClaimKeeps ==
  ASSUME IInv, NEW c \in Callers, JoinClaim(c) PROVE IInv'
  <1> USE DEF IInv, JoinClaim, Goto, Touch, Store, Seen, fields, memory,
             workers, os
  <1>1. TypeOK'
    BY DEF TypeOK, HasBlock, Working, Statuses, Freers, WorkerPCs, CallerPCs
  <1>2. HasBlock'
    BY DEF TypeOK, HasBlock, Working, CallerPCs
  <1>3. ASSUME NEW g \in Handles PROVE HInv(g)'
    <2>1. Memory(g)'
      BY DEF TypeOK, HasBlock, Working, HInv, Memory, Clean, CallerPCs
    <2>2. OneClaim(g)'
      <3>1. CASE mem[at[c]] = "gone"
        <4>1. ~Clean(at[c])'
          BY <3>1 DEF TypeOK, HasBlock, Working, Clean, CallerPCs
        <4>2. CASE g = at[c]
          BY <4>1, <4>2 DEF OneClaim
        <4>3. CASE g # at[c]
          BY <4>3 DEF TypeOK, HasBlock, Working, HInv, Memory, Clean, CallerPCs,
                 OneClaim, Freeing
        <4> QED
          BY <4>2, <4>3
      <3>2. CASE mem[at[c]] = "live"
        BY <3>2 DEF TypeOK, HasBlock, Working, HInv, Memory, Clean, CallerPCs,
               OneClaim, Freeing
      <3> QED
        BY <3>1, <3>2 DEF TypeOK, HasBlock, Working, HInv, Memory
    <2>3. StatusKept(g)'
      <3>1. CASE mem[at[c]] = "gone"
        <4>1. ~Clean(at[c])'
          BY <3>1 DEF TypeOK, HasBlock, Working, Clean, CallerPCs
        <4>2. CASE g = at[c]
          BY <4>1, <4>2 DEF StatusKept
        <4>3. CASE g # at[c]
          BY <4>3 DEF TypeOK, HasBlock, Working, HInv, Memory, Clean, CallerPCs,
                 StatusKept, Joining, Statuses
        <4> QED
          BY <4>2, <4>3
      <3>2. CASE mem[at[c]] = "live"
        BY <3>2 DEF TypeOK, HasBlock, Working, HInv, Memory, Clean, CallerPCs,
               StatusKept, Joining, Statuses
      <3> QED
        BY <3>1, <3>2 DEF TypeOK, HasBlock, Working, HInv, Memory
    <2>4. FreedAfter(g)'
      BY DEF TypeOK, HasBlock, Working, HInv, Memory, Clean, CallerPCs,
             FreedAfter, Freers
    <2> QED
      BY <2>1, <2>2, <2>3, <2>4 DEF HInv
  <1> QED
    BY <1>1, <1>2, <1>3

(***************************************************************************)
(* pthread_join is called on a block whose status is JOINED.               *)
(***************************************************************************)
LEMMA JoinEnterKeeps ==
  ASSUME IInv, NEW c \in Callers, JoinEnter(c) PROVE IInv'
  <1> USE DEF IInv, JoinEnter, Goto, Touch, fields, arg, memory, workers
  <1>1. TypeOK'
    BY DEF TypeOK, HasBlock, Working, Statuses, Freers, WorkerPCs, CallerPCs
  <1>2. HasBlock'
    BY DEF TypeOK, HasBlock, Working, CallerPCs
  <1>3. ASSUME NEW g \in Handles PROVE HInv(g)'
    <2>1. Memory(g)'
      BY DEF TypeOK, HasBlock, Working, HInv, Memory, Clean, CallerPCs
    <2>2. OneClaim(g)'
      BY DEF TypeOK, HasBlock, Working, HInv, Memory, Clean, CallerPCs,
             OneClaim, Freeing
    <2>3. StatusKept(g)'
      BY DEF TypeOK, HasBlock, Working, HInv, Memory, Clean, CallerPCs,
             StatusKept, Joining, Statuses
    <2>4. FreedAfter(g)'
      BY DEF TypeOK, HasBlock, Working, HInv, Memory, Clean, CallerPCs,
             FreedAfter, Freers
    <2> QED
      BY <2>1, <2>2, <2>3, <2>4 DEF HInv
  <1> QED
    BY <1>1, <1>2, <1>3

(***************************************************************************)
(* Join's CAS on freed, after the thread's exit.                           *)
(***************************************************************************)
LEMMA JoinFreedKeeps ==
  ASSUME IInv, NEW c \in Callers, JoinFreed(c) PROVE IInv'
  <1> USE DEF IInv, JoinFreed, Goto, Touch, Store, Seen, fields, memory,
             workers, os
  <1>1. TypeOK'
    BY DEF TypeOK, HasBlock, Working, Statuses, Freers, WorkerPCs, CallerPCs
  <1>2. HasBlock'
    BY DEF TypeOK, HasBlock, Working, CallerPCs
  <1>3. ASSUME NEW g \in Handles PROVE HInv(g)'
    <2>1. Memory(g)'
      BY DEF TypeOK, HasBlock, Working, HInv, Memory, Clean, CallerPCs
    <2>2. OneClaim(g)'
      <3>1. CASE mem[at[c]] = "gone"
        <4>1. ~Clean(at[c])'
          BY <3>1 DEF TypeOK, HasBlock, Working, Clean, CallerPCs
        <4>2. CASE g = at[c]
          BY <4>1, <4>2 DEF OneClaim
        <4>3. CASE g # at[c]
          BY <4>3 DEF TypeOK, HasBlock, Working, HInv, Memory, Clean, CallerPCs,
                 OneClaim, Freeing
        <4> QED
          BY <4>2, <4>3
      <3>2. CASE mem[at[c]] = "live"
        BY <3>2 DEF TypeOK, HasBlock, Working, HInv, Memory, Clean, CallerPCs,
               OneClaim, Freeing
      <3> QED
        BY <3>1, <3>2 DEF TypeOK, HasBlock, Working, HInv, Memory
    <2>3. StatusKept(g)'
      <3>1. CASE mem[at[c]] = "gone"
        <4>1. ~Clean(at[c])'
          BY <3>1 DEF TypeOK, HasBlock, Working, Clean, CallerPCs
        <4>2. CASE g = at[c]
          BY <4>1, <4>2 DEF StatusKept
        <4>3. CASE g # at[c]
          BY <4>3 DEF TypeOK, HasBlock, Working, HInv, Memory, Clean, CallerPCs,
                 StatusKept, Joining, Statuses
        <4> QED
          BY <4>2, <4>3
      <3>2. CASE mem[at[c]] = "live"
        BY <3>2 DEF TypeOK, HasBlock, Working, HInv, Memory, Clean, CallerPCs,
               StatusKept, Joining, Statuses
      <3> QED
        BY <3>1, <3>2 DEF TypeOK, HasBlock, Working, HInv, Memory
    <2>4. FreedAfter(g)'
      BY DEF TypeOK, HasBlock, Working, HInv, Memory, Clean, CallerPCs,
             FreedAfter, Freers
    <2> QED
      BY <2>1, <2>2, <2>3, <2>4 DEF HInv
  <1> QED
    BY <1>1, <1>2, <1>3

(***************************************************************************)
(* Join frees the block.                                                   *)
(***************************************************************************)
LEMMA JoinFreeKeeps ==
  ASSUME IInv, NEW c \in Callers, JoinFree(c) PROVE IInv'
  <1> USE DEF IInv, JoinFree, Goto, FreeBlock, fields, workers, os, arg
  <1>1. TypeOK'
    BY DEF TypeOK, HasBlock, Working, Statuses, Freers, WorkerPCs, CallerPCs
  <1>2. HasBlock'
    BY DEF TypeOK, HasBlock, Working, CallerPCs
  <1>3. ASSUME NEW g \in Handles PROVE HInv(g)'
    <2>1. Memory(g)'
      BY DEF TypeOK, HasBlock, Working, HInv, Memory, Clean, CallerPCs
    <2>2. OneClaim(g)'
      BY DEF TypeOK, HasBlock, Working, HInv, Memory, Clean, CallerPCs,
             OneClaim, Freeing
    <2>3. StatusKept(g)'
      BY DEF TypeOK, HasBlock, Working, HInv, Memory, Clean, CallerPCs,
             StatusKept, Joining, Statuses
    <2>4. FreedAfter(g)'
      BY DEF TypeOK, HasBlock, Working, HInv, Memory, Clean, CallerPCs,
             FreedAfter, Freers
    <2> QED
      BY <2>1, <2>2, <2>3, <2>4 DEF HInv
  <1> QED
    BY <1>1, <1>2, <1>3

(***************************************************************************)
(* The steps of detach before its claims.                                  *)
(***************************************************************************)
LEMMA DetachPassKeeps ==
  ASSUME IInv, NEW c \in Callers,
         DetachCheck(c) \/ DetachRead(c) \/ DetachLoad(c)
  PROVE  IInv'
  <1> USE DEF IInv, DetachCheck, Goto, fields, arg, memory, workers, os,
             DetachRead, DetachLoad, Touch, Seen
  <1>1. TypeOK'
    BY DEF TypeOK, HasBlock, Working, Statuses, Freers, WorkerPCs, CallerPCs
  <1>2. HasBlock'
    BY DEF TypeOK, HasBlock, Working, CallerPCs
  <1>3. ASSUME NEW g \in Handles PROVE HInv(g)'
    <2>1. Memory(g)'
      BY DEF TypeOK, HasBlock, Working, HInv, Memory, Clean, CallerPCs
    <2>2. OneClaim(g)'
      BY DEF TypeOK, HasBlock, Working, HInv, Memory, Clean, CallerPCs,
             OneClaim, Freeing
    <2>3. StatusKept(g)'
      BY DEF TypeOK, HasBlock, Working, HInv, Memory, Clean, CallerPCs,
             StatusKept, Joining, Statuses
    <2>4. FreedAfter(g)'
      BY DEF TypeOK, HasBlock, Working, HInv, Memory, Clean, CallerPCs,
             FreedAfter, Freers
    <2> QED
      BY <2>1, <2>2, <2>3, <2>4 DEF HInv
  <1> QED
    BY <1>1, <1>2, <1>3

(***************************************************************************)
(* Detach's CAS on status.                                                 *)
(***************************************************************************)
LEMMA DetachClaimKeeps ==
  ASSUME IInv, NEW c \in Callers, DetachClaim(c) PROVE IInv'
  <1> USE DEF IInv, DetachClaim, Goto, Touch, Store, Seen, fields, memory,
             workers, os
  <1>1. TypeOK'
    BY DEF TypeOK, HasBlock, Working, Statuses, Freers, WorkerPCs, CallerPCs
  <1>2. HasBlock'
    BY DEF TypeOK, HasBlock, Working, CallerPCs
  <1>3. ASSUME NEW g \in Handles PROVE HInv(g)'
    <2>1. Memory(g)'
      BY DEF TypeOK, HasBlock, Working, HInv, Memory, Clean, CallerPCs
    <2>2. OneClaim(g)'
      <3>1. CASE mem[at[c]] = "gone"
        <4>1. ~Clean(at[c])'
          BY <3>1 DEF TypeOK, HasBlock, Working, Clean, CallerPCs
        <4>2. CASE g = at[c]
          BY <4>1, <4>2 DEF OneClaim
        <4>3. CASE g # at[c]
          BY <4>3 DEF TypeOK, HasBlock, Working, HInv, Memory, Clean, CallerPCs,
                 OneClaim, Freeing
        <4> QED
          BY <4>2, <4>3
      <3>2. CASE mem[at[c]] = "live"
        BY <3>2 DEF TypeOK, HasBlock, Working, HInv, Memory, Clean, CallerPCs,
               OneClaim, Freeing
      <3> QED
        BY <3>1, <3>2 DEF TypeOK, HasBlock, Working, HInv, Memory
    <2>3. StatusKept(g)'
      <3>1. CASE mem[at[c]] = "gone"
        <4>1. ~Clean(at[c])'
          BY <3>1 DEF TypeOK, HasBlock, Working, Clean, CallerPCs
        <4>2. CASE g = at[c]
          BY <4>1, <4>2 DEF StatusKept
        <4>3. CASE g # at[c]
          BY <4>3 DEF TypeOK, HasBlock, Working, HInv, Memory, Clean, CallerPCs,
                 StatusKept, Joining, Statuses
        <4> QED
          BY <4>2, <4>3
      <3>2. CASE mem[at[c]] = "live"
        BY <3>2 DEF TypeOK, HasBlock, Working, HInv, Memory, Clean, CallerPCs,
               StatusKept, Joining, Statuses
      <3> QED
        BY <3>1, <3>2 DEF TypeOK, HasBlock, Working, HInv, Memory
    <2>4. FreedAfter(g)'
      BY DEF TypeOK, HasBlock, Working, HInv, Memory, Clean, CallerPCs,
             FreedAfter, Freers
    <2> QED
      BY <2>1, <2>2, <2>3, <2>4 DEF HInv
  <1> QED
    BY <1>1, <1>2, <1>3

(***************************************************************************)
(* pthread_detach is called on a block whose status is DETACHED.           *)
(***************************************************************************)
LEMMA DetachOsKeeps ==
  ASSUME IInv, NEW c \in Callers, DetachOs(c) PROVE IInv'
  <1> USE DEF IInv, DetachOs, Goto, Touch, fields, arg, memory, workers
  <1>1. TypeOK'
    BY DEF TypeOK, HasBlock, Working, Statuses, Freers, WorkerPCs, CallerPCs
  <1>2. HasBlock'
    BY DEF TypeOK, HasBlock, Working, CallerPCs
  <1>3. ASSUME NEW g \in Handles PROVE HInv(g)'
    <2>1. Memory(g)'
      BY DEF TypeOK, HasBlock, Working, HInv, Memory, Clean, CallerPCs
    <2>2. OneClaim(g)'
      BY DEF TypeOK, HasBlock, Working, HInv, Memory, Clean, CallerPCs,
             OneClaim, Freeing
    <2>3. StatusKept(g)'
      BY DEF TypeOK, HasBlock, Working, HInv, Memory, Clean, CallerPCs,
             StatusKept, Joining, Statuses
    <2>4. FreedAfter(g)'
      BY DEF TypeOK, HasBlock, Working, HInv, Memory, Clean, CallerPCs,
             FreedAfter, Freers
    <2> QED
      BY <2>1, <2>2, <2>3, <2>4 DEF HInv
  <1> QED
    BY <1>1, <1>2, <1>3

(***************************************************************************)
(* Detach's CAS on freed, of a thread seen finished.                       *)
(***************************************************************************)
LEMMA DetachFreedKeeps ==
  ASSUME IInv, NEW c \in Callers, DetachFreed(c) PROVE IInv'
  <1> USE DEF IInv, DetachFreed, Goto, Touch, Store, Seen, fields, memory,
             workers, os
  <1>1. TypeOK'
    BY DEF TypeOK, HasBlock, Working, Statuses, Freers, WorkerPCs, CallerPCs
  <1>2. HasBlock'
    BY DEF TypeOK, HasBlock, Working, CallerPCs
  <1>3. ASSUME NEW g \in Handles PROVE HInv(g)'
    <2>1. Memory(g)'
      BY DEF TypeOK, HasBlock, Working, HInv, Memory, Clean, CallerPCs
    <2>2. OneClaim(g)'
      <3>1. CASE mem[at[c]] = "gone"
        <4>1. ~Clean(at[c])'
          BY <3>1 DEF TypeOK, HasBlock, Working, Clean, CallerPCs
        <4>2. CASE g = at[c]
          BY <4>1, <4>2 DEF OneClaim
        <4>3. CASE g # at[c]
          BY <4>3 DEF TypeOK, HasBlock, Working, HInv, Memory, Clean, CallerPCs,
                 OneClaim, Freeing
        <4> QED
          BY <4>2, <4>3
      <3>2. CASE mem[at[c]] = "live"
        BY <3>2 DEF TypeOK, HasBlock, Working, HInv, Memory, Clean, CallerPCs,
               OneClaim, Freeing
      <3> QED
        BY <3>1, <3>2 DEF TypeOK, HasBlock, Working, HInv, Memory
    <2>3. StatusKept(g)'
      <3>1. CASE mem[at[c]] = "gone"
        <4>1. ~Clean(at[c])'
          BY <3>1 DEF TypeOK, HasBlock, Working, Clean, CallerPCs
        <4>2. CASE g = at[c]
          BY <4>1, <4>2 DEF StatusKept
        <4>3. CASE g # at[c]
          BY <4>3 DEF TypeOK, HasBlock, Working, HInv, Memory, Clean, CallerPCs,
                 StatusKept, Joining, Statuses
        <4> QED
          BY <4>2, <4>3
      <3>2. CASE mem[at[c]] = "live"
        BY <3>2 DEF TypeOK, HasBlock, Working, HInv, Memory, Clean, CallerPCs,
               StatusKept, Joining, Statuses
      <3> QED
        BY <3>1, <3>2 DEF TypeOK, HasBlock, Working, HInv, Memory
    <2>4. FreedAfter(g)'
      BY DEF TypeOK, HasBlock, Working, HInv, Memory, Clean, CallerPCs,
             FreedAfter, Freers
    <2> QED
      BY <2>1, <2>2, <2>3, <2>4 DEF HInv
  <1> QED
    BY <1>1, <1>2, <1>3

(***************************************************************************)
(* Detach frees the block.                                                 *)
(***************************************************************************)
LEMMA DetachFreeKeeps ==
  ASSUME IInv, NEW c \in Callers, DetachFree(c) PROVE IInv'
  <1> USE DEF IInv, DetachFree, Goto, FreeBlock, fields, workers, os, arg
  <1>1. TypeOK'
    BY DEF TypeOK, HasBlock, Working, Statuses, Freers, WorkerPCs, CallerPCs
  <1>2. HasBlock'
    BY DEF TypeOK, HasBlock, Working, CallerPCs
  <1>3. ASSUME NEW g \in Handles PROVE HInv(g)'
    <2>1. Memory(g)'
      BY DEF TypeOK, HasBlock, Working, HInv, Memory, Clean, CallerPCs
    <2>2. OneClaim(g)'
      BY DEF TypeOK, HasBlock, Working, HInv, Memory, Clean, CallerPCs,
             OneClaim, Freeing
    <2>3. StatusKept(g)'
      BY DEF TypeOK, HasBlock, Working, HInv, Memory, Clean, CallerPCs,
             StatusKept, Joining, Statuses
    <2>4. FreedAfter(g)'
      BY DEF TypeOK, HasBlock, Working, HInv, Memory, Clean, CallerPCs,
             FreedAfter, Freers
    <2> QED
      BY <2>1, <2>2, <2>3, <2>4 DEF HInv
  <1> QED
    BY <1>1, <1>2, <1>3

-----------------------------------------------------------------------------
LEMMA NextIInv == IInv /\ [Next]_vars => IInv'
  <1> SUFFICES ASSUME IInv, [Next]_vars PROVE IInv'
    OBVIOUS
  <1>1. ASSUME NEW h \in Handles, thread_fn(h) PROVE IInv'
    BY <1>1, WorkerPassKeeps, WorkerLoadKeeps, WorkerClaimKeeps, WorkerFreeKeeps
    DEF thread_fn
  <1>2. ASSUME NEW c \in Callers, start(c) PROVE IInv'
    BY <1>2, StartPassKeeps, StartAssignKeeps, ThreadKeeps DEF start
  <1>3. ASSUME NEW c \in Callers, join(c) PROVE IInv'
    BY <1>3, JoinPassKeeps, JoinClaimKeeps, JoinEnterKeeps, JoinFreedKeeps, JoinFreeKeeps
    DEF join
  <1>4. ASSUME NEW c \in Callers, detach(c) PROVE IInv'
    BY <1>4, DetachPassKeeps, DetachClaimKeeps, DetachOsKeeps, DetachFreedKeeps,
       DetachFreeKeeps
    DEF detach
  <1>5. CASE UNCHANGED vars
    BY <1>5 DEF vars, fields, arg, memory, workers, os, IInv, TypeOK, HasBlock, HInv,
                Memory, OneClaim, StatusKept, FreedAfter, Clean, Freeing
  <1> QED
    BY <1>1, <1>2, <1>3, <1>4, <1>5 DEF Next

(***************************************************************************)
(* Every reachable state satisfies the inductive invariant.                *)
(***************************************************************************)
THEOREM Invariance == Spec => []IInv
  BY InitIInv, NextIInv, PTL DEF Spec

(***************************************************************************)
(* The atomics, the counters and the places of every actor keep their      *)
(* types.                                                                  *)
(***************************************************************************)
THEOREM TypeCorrect == Spec => []TypeOK
  <1>1. IInv => TypeOK
    BY DEF IInv
  <1> QED
    BY <1>1, Invariance, PTL

(***************************************************************************)
(* Until an access touches freed memory, a block is freed at most once,    *)
(* whichever of thread_fn, Join and Detach race for it.                    *)
(***************************************************************************)
THEOREM FreedOnce == Spec => []NoDoubleFree
  <1>1. IInv => NoDoubleFree
    BY DEF IInv, HInv, OneClaim, NoDoubleFree
  <1> QED
    BY <1>1, Invariance, PTL

(***************************************************************************)
(* pthread_join and pthread_detach are never both called for one thread.   *)
(***************************************************************************)
THEOREM JoinedOrDetached == Spec => []JoinXorDetach
  <1>1. IInv => JoinXorDetach
    BY DEF IInv, HInv, StatusKept, JoinXorDetach
  <1> QED
    BY <1>1, Invariance, PTL

(***************************************************************************)
(* The only free that a running thread can suffer is Detach's.             *)
(***************************************************************************)
THEOREM RugPulledByDetach == Spec => []OnlyDetachPullsTheRug
  <1>1. IInv => OnlyDetachPullsTheRug
    BY DEF IInv, HInv, FreedAfter, OnlyDetachPullsTheRug
  <1> QED
    BY <1>1, Invariance, PTL

(***************************************************************************)
(* A thread frees its own block only when the block is marked DETACHED and *)
(* no joiner has gone through.                                             *)
(***************************************************************************)
THEOREM JoinersFree == Spec => []JoinableFreedByJoiner
  <1>1. IInv => JoinableFreedByJoiner
    BY DEF IInv, HInv, StatusKept, JoinableFreedByJoiner
  <1> QED
    BY <1>1, Invariance, PTL

-----------------------------------------------------------------------------
(* What becomes of a block *)

\* No other thread was ever created: starts have not raced.
Only(h) == wpc[h] # "none" /\ \A g \in Handles \ {h} : wpc[g] = "none"

\* What the callers and the object hold are blocks of threads that were created.
Begun ==
  /\ thread # NULL => wpc[thread] # "none"
  /\ \A c \in Callers : at[c] # NULL => wpc[at[c]] # "none"
  /\ \A c \in Callers :
       pc[c] \in {"join_read", "join_null"} => \E g \in Handles : wpc[g] # "none"

\* The object gets the only block there is once, and a joiner that found it taken already
\* does not take it from the object again.
Assigned(h) ==
  Only(h) =>
    \A c \in Callers :
      /\ pc[c] = "start_assign" =>
           /\ thread = NULL
           /\ \A d \in Callers \ {c} :
                pc[d] \notin {"start_assign", "join_read", "join_null"}
      /\ pc[c] = "join_null" /\ at[c] = NULL => thread = NULL

\* A block still allocated is with somebody, according to its status.
Carried(h) ==
  /\ mem[h] = "none" => status[h] = "UNCHANGED" /\ wstatus[h] = "UNCHANGED"
  /\ mem[h] = "live" =>
       /\ wstatus[h] = "JOINED" => status[h] = "JOINED"
       /\ freed[h] = 1 => wpc[h] = "freeing" \/ \E c \in Callers : Freeing(c, h)
       /\ wpc[h] = "exited" /\ wstatus[h] = "DETACHED" => freed[h] = 1
       /\ status[h] = "JOINED" /\ freed[h] = 0 =>
            \E c \in Callers :
              pc[c] \in {"join_enter", "join_wait", "join_freed"} /\ at[c] = h
       /\ status[h] = "DETACHED" =>
            h \in detached \/ \E c \in Callers : pc[c] = "detach_os" /\ at[c] = h
       /\ status[h] = "UNCHANGED" /\ freed[h] = 0 /\ Only(h) =>
            \/ thread = h
            \/ \E c \in Callers :
                 pc[c] \in {"start_assign", "join_null", "join_cas"} /\ at[c] = h

Owned == Begun /\ \A h \in Handles : Assigned(h) /\ Carried(h)

\* The thread frees its block if it saw DETACHED, and otherwise leaves it to a caller.
LEMMA ThreadFnOwns ==
  ASSUME IInv, Owned, NEW h \in Handles, thread_fn(h)
  PROVE  Owned'
  <1> USE DEF WorkerStep, Goto, Touch, Store, Seen, FreeBlock, fields, arg, memory,
             workers, os
  <1> USE DEF IInv, TypeOK, HasBlock, HInv, Memory, StatusKept, Clean, Freeing, Working,
             CallerPCs, Owned, Begun, Assigned, Carried, Only
  <1>1. CASE WorkerRegister(h)
    BY <1>1 DEF WorkerRegister
  <1>2. CASE WorkerCall(h)
    BY <1>2 DEF WorkerCall
  <1>3. CASE WorkerLoadStatus(h)
    BY <1>3 DEF WorkerLoadStatus
  <1>4. CASE WorkerFinish(h)
    BY <1>4 DEF WorkerFinish
  <1>5. CASE WorkerUnregister(h)
    BY <1>5 DEF WorkerUnregister
  <1>6. CASE WorkerClaim(h)
    BY <1>6 DEF WorkerClaim
  <1>7. CASE WorkerLeave(h)
    BY <1>7 DEF WorkerLeave
  <1>8. CASE WorkerFree(h)
    BY <1>8 DEF WorkerFree
  <1> QED BY <1>1, <1>2, <1>3, <1>4, <1>5, <1>6, <1>7, <1>8 DEF thread_fn

\* A start passes its new block to the object; a second one makes a second thread.
LEMMA StartOwns ==
  ASSUME IInv, Owned, NEW c \in Callers, start(c)
  PROVE  Owned'
  <1> USE DEF WorkerStep, Goto, Touch, Store, Seen, FreeBlock, fields, arg, memory,
             workers, os
  <1> USE DEF IInv, TypeOK, HasBlock, HInv, Memory, StatusKept, Clean, Freeing, Working,
             CallerPCs, Owned, Begun, Assigned, Carried, Only
  <1>1. CASE StartCheck(c)
    BY <1>1 DEF StartCheck
  <1>2. CASE StartSet(c)
    BY <1>2 DEF StartSet
  <1>3. CASE StartAssign(c)
    BY <1>3 DEF StartAssign
  <1>4. ASSUME NEW h \in Handles, Thread(c, h) PROVE Owned'
    <2>1. Begun'
      BY <1>4 DEF Thread
    <2>2. ASSUME NEW g \in Handles PROVE Assigned(g)'
      BY <1>4, SMTT(30) DEF Thread
    <2>3. ASSUME NEW g \in Handles PROVE Carried(g)'
      BY <1>4 DEF Thread
    <2> QED BY <2>1, <2>2, <2>3
  <1>5. ASSUME NEW h \in Handles, ThreadFails(c, h) PROVE Owned'
    <2>1. Begun'
      BY <1>5 DEF ThreadFails
    <2>2. ASSUME NEW g \in Handles PROVE Assigned(g)'
      BY <1>5 DEF ThreadFails
    <2>3. ASSUME NEW g \in Handles PROVE Carried(g)'
      BY <1>5 DEF ThreadFails
    <2> QED BY <2>1, <2>2, <2>3
  <1> QED BY <1>1, <1>2, <1>3, <1>4, <1>5 DEF start

\* A join takes the block from the object and passes it to the one whose CAS on status wins.
LEMMA JoinOwns ==
  ASSUME IInv, Owned, NEW c \in Callers, join(c)
  PROVE  Owned'
  <1> USE DEF WorkerStep, Goto, Touch, Store, Seen, FreeBlock, fields, arg, memory,
             workers, os
  <1> USE DEF IInv, TypeOK, HasBlock, HInv, Memory, StatusKept, Clean, Freeing, Working,
             CallerPCs, Owned, Begun, Assigned, Carried, Only
  <1>1. CASE JoinCheck(c)
    BY <1>1 DEF JoinCheck
  <1>2. CASE JoinRead(c)
    BY <1>2, SMTT(30) DEF JoinRead
  <1>3. CASE JoinNull(c)
    BY <1>3 DEF JoinNull
  <1>4. CASE JoinClaim(c)
    BY <1>4 DEF JoinClaim
  <1>5. CASE JoinEnter(c)
    BY <1>5 DEF JoinEnter
  <1>6. CASE JoinReturn(c)
    BY <1>6 DEF JoinReturn
  <1>7. CASE JoinFreed(c)
    BY <1>7 DEF JoinFreed
  <1>8. CASE JoinFree(c)
    BY <1>8 DEF JoinFree
  <1> QED BY <1>1, <1>2, <1>3, <1>4, <1>5, <1>6, <1>7, <1>8 DEF join

\* A detach leaves the block with the object until it has marked it or claimed it.
LEMMA DetachOwns ==
  ASSUME IInv, Owned, NEW c \in Callers, detach(c)
  PROVE  Owned'
  <1> USE DEF WorkerStep, Goto, Touch, Store, Seen, FreeBlock, fields, arg, memory,
             workers, os
  <1> USE DEF IInv, TypeOK, HasBlock, HInv, Memory, StatusKept, Clean, Freeing, Working,
             CallerPCs, Owned, Begun, Assigned, Carried, Only
  <1>1. CASE DetachCheck(c)
    BY <1>1 DEF DetachCheck
  <1>2. CASE DetachRead(c)
    BY <1>2 DEF DetachRead
  <1>3. CASE DetachLoad(c)
    BY <1>3 DEF DetachLoad
  <1>4. CASE DetachClaim(c)
    BY <1>4 DEF DetachClaim
  <1>5. CASE DetachOs(c)
    BY <1>5 DEF DetachOs
  <1>6. CASE DetachFreed(c)
    BY <1>6 DEF DetachFreed
  <1>7. CASE DetachFree(c)
    BY <1>7 DEF DetachFree
  <1> QED BY <1>1, <1>2, <1>3, <1>4, <1>5, <1>6, <1>7 DEF detach

\* In every reachable state a block that was not freed has its owner.
THEOREM Ownership == Spec => []Owned
  <1>1. Init => Owned
    BY DEF Init, Owned, Begun, Assigned, Carried, Only
  <1>2. IInv /\ Owned /\ [Next]_vars => Owned'
    <2> SUFFICES ASSUME IInv, Owned, [Next]_vars PROVE Owned'
      OBVIOUS
    <2>1. CASE UNCHANGED vars
      BY <2>1 DEF vars, fields, arg, memory, workers, os, Owned, Begun, Assigned, Carried,
                  Only, Freeing
    <2> QED
      BY <2>1, ThreadFnOwns, StartOwns, JoinOwns, DetachOwns DEF Next
  <1> QED
    BY <1>1, <1>2, Invariance, PTL DEF Spec

(***************************************************************************)
(* When all callers have returned, a block still allocated is the object's *)
(* or a detached thread's, unless pthread_create failed, starts raced or   *)
(* the thread looked at its status too early.                              *)
(***************************************************************************)
THEOREM NothingLost == Spec => []NoLeakBut
  <1>1. IInv /\ Owned => NoLeakBut
    <2> SUFFICES ASSUME IInv, Owned, Quiet, NEW h \in Handles, mem[h] = "live", Only(h)
                 PROVE  \/ thread = h
                        \/ h \in detached /\ (wpc[h] = "exited" => wstatus[h] = "UNCHANGED")
      BY DEF NoLeakBut, Only
    <2> USE DEF IInv, TypeOK, HInv, Memory, StatusKept, Owned, Carried, Quiet, Freeing, Clean
    <2>1. CASE freed[h] = 1
      BY <2>1
    <2>2. CASE freed[h] = 0 /\ status[h] = "UNCHANGED"
      BY <2>2
    <2>3. CASE freed[h] = 0 /\ status[h] = "DETACHED"
      BY <2>3 DEF Statuses
    <2>4. ~(freed[h] = 0 /\ status[h] = "JOINED")
      OBVIOUS
    <2> QED
      BY <2>1, <2>2, <2>3, <2>4 DEF Statuses
  <1> QED
    BY <1>1, Ownership, Invariance, PTL

-----------------------------------------------------------------------------
(***************************************************************************)
(* The lock of a container: the second half, about RWLock.                 *)
(***************************************************************************)
(***************************************************************************)
(* What each step preserves.  The counter is exact, a thread inside or     *)
(* waiting is a running one, a worker is never on the fast path, and       *)
(* pthread's lock excludes the threads that hold it.                       *)
(***************************************************************************)
CountExact   == thread_count = Cardinality(Registered)
ActiveRuns   == \A w \in Workers : place[w] # "out" => w \in Registered
WorkersLock  == \A w \in Workers : place[w] # "fast"
LockExcludes ==
  \A t, u \in Threads :
    t # u /\ place[t] = "locked" /\ place[u] = "locked" => mode[t] = "r" /\ mode[u] = "r"

LockInv == LockTypeOK /\ CountExact /\ ActiveRuns /\ WorkersLock /\ LockExcludes

(***************************************************************************)
(* Facts about the set of registered threads.                              *)
(***************************************************************************)
LEMMA RegisteredFinite ==
  IsFiniteSet(Registered) /\ Cardinality(Registered) \in Nat
  BY WorkersAssumption, FS_Subset, FS_CardinalityType DEF Registered

LEMMA RegisteredNonEmpty ==
  ASSUME NEW w \in Registered
  PROVE  Cardinality(Registered) # 0
  BY RegisteredFinite, FS_EmptySet

-----------------------------------------------------------------------------
LEMMA LockInitInv == LockInit => LockInv
  <1> SUFFICES ASSUME LockInit PROVE LockInv
    OBVIOUS
  <1>1. Registered = {}
    BY DEF LockInit, Registered
  <1>2. CountExact
    BY <1>1, FS_EmptySet DEF LockInit, CountExact
  <1>3. LockTypeOK
    BY DEF LockInit, LockTypeOK, Lives, PCs
  <1>4. ActiveRuns /\ WorkersLock /\ LockExcludes
    BY WorkersAssumption DEF LockInit, ActiveRuns, WorkersLock, LockExcludes, Threads
  <1> QED
    BY <1>2, <1>3, <1>4 DEF LockInv

(***************************************************************************)
(* One step per action.  Only the two registration steps move the counter; *)
(* Load is where a worker could skip the lock, Acquire where two holders   *)
(* could meet.                                                             *)
(***************************************************************************)
LEMMA LockNextInv == LockInv /\ [LockNext]_LockVars => LockInv'
  <1> SUFFICES ASSUME LockInv, [LockNext]_LockVars PROVE LockInv'
    OBVIOUS
  <1> USE WorkersAssumption DEF LockInv
  <1>1. ASSUME NEW t \in Threads, NEW w \in Workers, Create(t, w) PROVE LockInv'
    <2>1. Registered' = Registered
      BY <1>1 DEF Create, Registered, LockTypeOK
    <2>2. LockTypeOK'
      BY <1>1 DEF Create, LockTypeOK, Lives
    <2>3. ActiveRuns' /\ WorkersLock' /\ LockExcludes' /\ CountExact'
      BY <1>1, <2>1 DEF Create, ActiveRuns, WorkersLock, LockExcludes, CountExact
    <2> QED
      BY <2>2, <2>3
  <1>2. ASSUME NEW w \in Workers, register_thread(w) PROVE LockInv'
    <2>1. Registered' = Registered \cup {w} /\ w \notin Registered
      BY <1>2 DEF register_thread, Registered, LockTypeOK
    <2>2. Cardinality(Registered') = Cardinality(Registered) + 1
      BY <2>1, RegisteredFinite, FS_AddElement
    <2>3. CountExact'
      BY <1>2, <2>2 DEF register_thread, CountExact
    <2>4. LockTypeOK'
      BY <1>2 DEF register_thread, LockTypeOK, Lives
    <2>5. ActiveRuns' /\ WorkersLock' /\ LockExcludes'
      BY <1>2, <2>1 DEF register_thread, ActiveRuns, WorkersLock, LockExcludes
    <2> QED
      BY <2>3, <2>4, <2>5
  <1>3. ASSUME NEW w \in Workers, unregister_thread(w) PROVE LockInv'
    <2>1. Registered' = Registered \ {w} /\ w \in Registered
      BY <1>3 DEF unregister_thread, Registered, LockTypeOK
    <2>2. Cardinality(Registered') = Cardinality(Registered) - 1
      BY <2>1, RegisteredFinite, FS_RemoveElement
    <2>3. CountExact'
      BY <1>3, <2>2 DEF unregister_thread, CountExact
    <2>4. thread_count' \in Nat
      BY <1>3, <2>1, <2>2, RegisteredNonEmpty, RegisteredFinite
      DEF unregister_thread, CountExact, LockTypeOK
    <2>5. LockTypeOK'
      BY <1>3, <2>4 DEF unregister_thread, LockTypeOK, Lives
    <2>6. ActiveRuns' /\ WorkersLock' /\ LockExcludes'
      BY <1>3, <2>1 DEF unregister_thread, ActiveRuns, WorkersLock, LockExcludes
    <2> QED
      BY <2>3, <2>5, <2>6
  <1>4. ASSUME NEW t \in Threads, NEW m \in {"r", "w"}, Load(t, m) PROVE LockInv'
    <2>1. Registered' = Registered
      BY <1>4 DEF Load, Registered
    <2>2. t \in Workers => thread_count # 0
      BY <1>4, RegisteredNonEmpty DEF Load, Running, CountExact
    <2>3. LockTypeOK'
      BY <1>4 DEF Load, LockTypeOK, PCs
    <2>4. WorkersLock'
      BY <1>4, <2>2 DEF Load, WorkersLock, LockTypeOK, Threads
    <2>5. ActiveRuns'
      BY <1>4, <2>1 DEF Load, ActiveRuns, LockTypeOK, Threads, Running
    <2>6. LockExcludes'
      BY <1>4 DEF Load, LockExcludes, LockTypeOK
    <2>7. CountExact'
      BY <1>4, <2>1 DEF Load, CountExact
    <2> QED
      BY <2>3, <2>4, <2>5, <2>6, <2>7
  <1>5. ASSUME NEW t \in Threads, Acquire(t) PROVE LockInv'
    <2>1. Registered' = Registered
      BY <1>5 DEF Acquire, Registered
    <2>2. LockExcludes'
      BY <1>5 DEF Acquire, Free, LockExcludes, LockTypeOK
    <2>3. LockTypeOK' /\ CountExact'
      BY <1>5, <2>1 DEF Acquire, LockTypeOK, PCs, CountExact
    <2>4. ActiveRuns' /\ WorkersLock'
      BY <1>5, <2>1 DEF Acquire, ActiveRuns, WorkersLock, LockTypeOK, Threads
    <2> QED
      BY <2>2, <2>3, <2>4
  <1>6. ASSUME NEW t \in Threads, Leave(t) PROVE LockInv'
    <2>1. Registered' = Registered
      BY <1>6 DEF Leave, Registered
    <2>2. LockTypeOK' /\ CountExact'
      BY <1>6, <2>1 DEF Leave, LockTypeOK, PCs, CountExact
    <2>3. ActiveRuns' /\ WorkersLock' /\ LockExcludes'
      BY <1>6, <2>1 DEF Leave, ActiveRuns, WorkersLock, LockExcludes, LockTypeOK, Threads
    <2> QED
      BY <2>2, <2>3
  <1>7. CASE UNCHANGED LockVars
    BY <1>7 DEF LockVars, LockTypeOK, Registered, CountExact, ActiveRuns, WorkersLock,
                LockExcludes
  <1> QED
    BY <1>1, <1>2, <1>3, <1>4, <1>5, <1>6, <1>7 DEF LockNext

(***************************************************************************)
(* The inductive invariant holds of the specification; the type invariant  *)
(* is one of its conjuncts.                                                *)
(***************************************************************************)
THEOREM LockInvariance == LockSpec => []LockInv
  BY LockInitInv, LockNextInv, PTL DEF LockSpec

(***************************************************************************)
(* thread_count never leaves the naturals: register_thread and             *)
(* unregister_thread balance, however the threads interleave.              *)
(***************************************************************************)
THEOREM LockTypes == LockSpec => []LockTypeOK
  <1>1. LockInv => LockTypeOK
    BY DEF LockInv
  <1> QED
    BY <1>1, LockInvariance, PTL

(***************************************************************************)
(* Workers exclude each other under any number of threads: a conflict in   *)
(* a container's blocks always involves Main on the fast path.             *)
(***************************************************************************)
THEOREM OnlyMainCanRace == LockSpec => []OnlyMainRaces
  <1>1. LockInv => OnlyMainRaces
    <2> SUFFICES ASSUME LockInv, NEW t \in Threads, NEW u \in Threads, Conflict(t, u)
                 PROVE \E x \in {t, u} : x = Main /\ place[x] = "fast"
      BY DEF OnlyMainRaces
    <2>1. CASE place[t] = "locked" /\ place[u] = "locked"
      BY <2>1 DEF LockInv, LockExcludes, Conflict
    <2>2. CASE place[t] = "fast"
      BY <2>2 DEF LockInv, WorkersLock, Threads
    <2>3. CASE place[u] = "fast"
      BY <2>3 DEF LockInv, WorkersLock, Threads
    <2> QED
      BY <2>1, <2>2, <2>3 DEF Conflict, Inside
  <1> QED
    BY <1>1, LockInvariance, PTL

(***************************************************************************)
(* Main's lock-free entry happens only when no worker is registered and no *)
(* block of the container is being executed.                               *)
(***************************************************************************)
THEOREM FastIsAlone == LockSpec => FastOnlyAlone
  <1> DEFINE Entry == \A t \in Threads : place[t] # "fast" /\ place'[t] = "fast"
                         => Registered = {} /\ Inside = {}
  <1>1. LockInv /\ [LockNext]_LockVars => [Entry]_LockVars
    <2> SUFFICES ASSUME LockInv, [LockNext]_LockVars, NEW t \in Threads,
                        place[t] # "fast", place'[t] = "fast"
                 PROVE Registered = {} /\ Inside = {}
      OBVIOUS
    <2>1. PICK s \in Threads, m \in {"r", "w"} : Load(s, m)
      BY DEF LockNext, LockVars, Create, register_thread, unregister_thread,
             Acquire, Leave, LockInv, LockTypeOK
    <2>2. t = s /\ thread_count = 0
      BY <2>1 DEF Load, LockInv, LockTypeOK
    <2>3. Registered = {}
      BY <2>2, RegisteredFinite, FS_EmptySet DEF LockInv, CountExact
    <2>4. \A u \in Threads : u = s \/ place[u] = "out"
      BY <2>1, <2>2, <2>3 DEF Load, Running, LockInv, ActiveRuns, Threads
    <2>5. place[s] = "out"
      BY <2>1 DEF Load
    <2> QED
      BY <2>3, <2>4, <2>5 DEF Inside
  <1> QED
    BY <1>1, LockInvariance, PTL DEF LockSpec, FastOnlyAlone

=============================================================================
