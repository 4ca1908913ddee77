----------------------------- MODULE PthreadShim -----------------------------
(***************************************************************************)
(* pthread_create and pthread_join on Windows (src/host/pthread.h) as the  *)
(* measurements of src/host/cdsp_peak.c use them: the workers are created  *)
(* one after the other until one cannot be, then those created are joined. *)
(* What a worker is to call goes to its thread in a heap struct, which the *)
(* thread frees; an address that was freed may be handed out again.        *)
(*                                                                         *)
(* malloc, _beginthreadex and the handles of Windows are external.  EINVAL *)
(* is left out: the host always names a thread and a routine.              *)
(***************************************************************************)
EXTENDS Integers

CONSTANTS
    N,        \* workers
    Cells,    \* addresses malloc may return
    Errnos    \* errno after a failed _beginthreadex, 0 if it is not set

ASSUME ShimAssumption == N \in Nat /\ Errnos \subseteq Nat

Threads == 1..N
ENoMem == 12
EAgain == 11
Free == 0              \* an address that is not allocated
NotTold == -1

VARIABLES
    pc, at,    \* the measuring thread: where it is, its loop counter
    start,     \* `start` of the running pthread_create
    errno,
    result,    \* of each worker: what pthread_create returned
    heap,      \* what is at an address: Free, or the `arg` of a struct
    state,     \* of each thread: where it is
    param,     \* the address it was started with
    arg,       \* the `arg` it has copied
    handle,    \* its handle: "none", "open" or "closed"
    \* not in the code
    ran        \* the arguments the routine was called with
vars == <<pc, at, start, errno, result, heap, state, param, arg, handle, ran>>

Init ==
    /\ pc = "create" /\ at = 1
    /\ start \in Cells
    /\ errno = 0
    /\ result = [t \in Threads |-> NotTold]
    /\ heap = [c \in Cells |-> Free]
    /\ state = [t \in Threads |-> "none"]
    /\ param = [t \in Threads |-> start]
    /\ arg = [t \in Threads |-> Free]
    /\ handle = [t \in Threads |-> "none"]
    /\ ran = {}

-----------------------------------------------------------------------------
(* pthread_create.                                                         *)

\* malloc and the two assignments.
Allocate ==
    /\ pc = "create" /\ at <= N
    /\ \E c \in Cells :
        /\ heap[c] = Free
        /\ start' = c
        /\ heap' = [heap EXCEPT ![c] = at]
    /\ pc' = "begin"
    /\ UNCHANGED <<at, errno, result, state, param, arg, handle, ran>>

\* pthread_create returns err: the loop over the workers ends here, and the
\* loop over those created begins.
Told(err) ==
    /\ result' = [result EXCEPT ![at] = err]
    /\ IF err = 0 THEN pc' = "create" /\ at' = at + 1
                  ELSE pc' = "join" /\ at' = 1

NoMemory ==
    /\ pc = "create" /\ at <= N
    /\ Told(ENoMem)
    /\ UNCHANGED <<start, errno, heap, state, param, arg, handle, ran>>

\* _beginthreadex: from here on the new thread runs.
Begin ==
    /\ pc = "begin"
    /\ state' = [state EXCEPT ![at] = "started"]
    /\ param' = [param EXCEPT ![at] = start]
    /\ handle' = [handle EXCEPT ![at] = "open"]
    /\ pc' = "began"
    /\ UNCHANGED <<at, start, errno, result, heap, arg, ran>>

BeginFails ==
    /\ pc = "begin"
    /\ errno' \in Errnos
    /\ pc' = "undo"
    /\ UNCHANGED <<at, start, result, heap, state, param, arg, handle, ran>>

ErrorOf == IF errno = 0 THEN EAgain ELSE errno

Undo ==
    /\ pc = "undo"
    /\ heap' = [heap EXCEPT ![start] = Free]
    /\ Told(ErrorOf)
    /\ UNCHANGED <<start, errno, state, param, arg, handle, ran>>

\* What pthread_create itself frees when the thread has begun.
\* Mutant: the struct, as if the thread had a copy.
FreedByCreator(h) == [h EXCEPT ![start] = Free]
LeftToThread(h) == h

Created ==
    /\ pc = "began"
    /\ heap' = LeftToThread(heap)
    /\ Told(0)
    /\ UNCHANGED <<start, errno, state, param, arg, handle, ran>>

AllCreated ==
    /\ pc = "create" /\ at > N
    /\ pc' = "join" /\ at' = 1
    /\ UNCHANGED <<start, errno, result, heap, state, param, arg, handle, ran>>

-----------------------------------------------------------------------------
(* pthread_join, for each worker that was created.                         *)

ToJoin == at <= N /\ result[at] = 0

\* WaitForSingleObject returns when the thread has ended.
\* Mutant: with a timeout that may pass.
WaitedEnough == TRUE
Ended == state[at] = "ended"

Wait ==
    /\ pc = "join" /\ ToJoin
    /\ Ended
    /\ pc' = "close"
    /\ UNCHANGED <<at, start, errno, result, heap, state, param, arg, handle,
                   ran>>

\* Mutant: the handle stays open.
KeptOpen == handle
Closed == [handle EXCEPT ![at] = "closed"]

Close ==
    /\ pc = "close"
    /\ handle' = Closed
    /\ pc' = "join" /\ at' = at + 1
    /\ UNCHANGED <<start, errno, result, heap, state, param, arg, ran>>

Leave ==
    /\ pc = "join" /\ ~ToJoin
    /\ pc' = "done"
    /\ UNCHANGED <<at, start, errno, result, heap, state, param, arg, handle,
                   ran>>

-----------------------------------------------------------------------------
(* cdsp_peak_pthread_trampoline.                                           *)

Copy(t) ==
    /\ state[t] = "started"
    /\ arg' = [arg EXCEPT ![t] = heap[param[t]]]
    /\ state' = [state EXCEPT ![t] = "copied"]
    /\ UNCHANGED <<pc, at, start, errno, result, heap, param, handle, ran>>

FreeStart(t) ==
    /\ state[t] = "copied"
    /\ heap' = [heap EXCEPT ![param[t]] = Free]
    /\ state' = [state EXCEPT ![t] = "running"]
    /\ UNCHANGED <<pc, at, start, errno, result, param, arg, handle, ran>>

RunRoutine(t) ==
    /\ state[t] = "running"
    /\ ran' = ran \union {arg[t]}
    /\ state' = [state EXCEPT ![t] = "ended"]
    /\ UNCHANGED <<pc, at, start, errno, result, heap, param, arg, handle>>

Thread(t) == Copy(t) \/ FreeStart(t) \/ RunRoutine(t)
Client == \/ Allocate \/ NoMemory \/ Begin \/ BeginFails \/ Undo \/ Created
          \/ AllCreated \/ Wait \/ Close \/ Leave

Next == Client \/ \E t \in Threads : Thread(t)

\* Windows runs every thread that can run.
Fairness == WF_vars(Client) /\ \A t \in Threads : WF_vars(Thread(t))
Spec == Init /\ [][Next]_vars
FairSpec == Spec /\ Fairness

-----------------------------------------------------------------------------
ThreadStates == {"none", "started", "copied", "running", "ended"}

TypeOK ==
    /\ pc \in {"create", "begin", "began", "undo", "join", "close", "done"}
    /\ at \in 1..(N + 1)
    /\ start \in Cells
    /\ errno \in Errnos \union {0}
    /\ result \in [Threads -> Nat \union {NotTold}]
    /\ heap \in [Cells -> Threads \union {Free}]
    /\ state \in [Threads -> ThreadStates]
    /\ param \in [Threads -> Cells]
    /\ arg \in [Threads -> Threads \union {Free}]
    /\ handle \in [Threads -> {"none", "open", "closed"}]
    /\ ran \subseteq Threads

Holding(t) == state[t] \in {"started", "copied"}

\* A thread reads and frees its own struct: until it has freed it, the struct
\* is allocated, holds its argument, and is no other thread's and not what
\* the creator is filling, though freed addresses are handed out again
\* (pthread.h:30, 54).
StructIsMine ==
    \A t \in Threads : Holding(t) =>
        /\ heap[param[t]] = t
        /\ \A u \in Threads \ {t} : Holding(u) => param[u] # param[t]

\* When the measurement is done and the workers it joined have ended, every
\* struct is freed and every handle closed, also when a creation failed.
NothingLeft ==
    pc = "done" =>
        /\ \A c \in Cells : heap[c] = Free
        /\ \A t \in Threads : handle[t] # "open"

\* The inductive invariant: in every state of the two loops, who has been
\* created, told of and joined; what each thread has copied; and whose every
\* allocated struct is.
Creating == pc \in {"create", "begin", "began", "undo"}
Spawned(t) == state[t] # "none"

CreatedSoFar ==
    Creating => \A t \in Threads :
        /\ Spawned(t) <=> t < at \/ (t = at /\ pc = "began")
        /\ result[t] = IF t < at THEN 0 ELSE NotTold
        /\ handle[t] = IF Spawned(t) THEN "open" ELSE "none"

JoinedSoFar ==
    ~Creating =>
        /\ \A t \in Threads :
            /\ Spawned(t) <=> result[t] = 0
            /\ handle[t] = IF ~Spawned(t) THEN "none"
                           ELSE IF t < at THEN "closed" ELSE "open"
        /\ \A t, u \in Threads : u < t /\ result[t] = 0 => result[u] = 0
        /\ pc = "close" => at <= N /\ result[at] = 0 /\ state[at] = "ended"
        /\ pc = "done" => \A t \in Threads : result[t] = 0 => t < at

ThreadsKnow ==
    /\ pc \in {"begin", "began", "undo"} => at <= N
    /\ \A t \in Threads :
        /\ handle[t] = "closed" => state[t] = "ended"
        /\ state[t] \in {"copied", "running", "ended"} => arg[t] = t
    /\ ran = {t \in Threads : state[t] = "ended"}

HeapOwned ==
    /\ \A t \in Threads : Holding(t) => heap[param[t]] = t
    /\ pc \in {"begin", "undo"} => heap[start] = at
    /\ \A c \in Cells : heap[c] # Free =>
        \/ Holding(heap[c]) /\ param[heap[c]] = c
        \/ pc \in {"begin", "undo"} /\ heap[c] = at /\ start = c

IInv == TypeOK /\ CreatedSoFar /\ JoinedSoFar /\ ThreadsKnow /\ HeapOwned

\* The shim does what Measure assumes of pthread_create and pthread_join: 0 is
\* returned exactly when there is a thread, it runs its routine once with its
\* own argument, a join returns after that, and every join returns.
TaskOf(t) ==
    IF state[t] = "none" THEN "none"
    ELSE IF handle[t] = "closed" THEN "joined"
    ELSE IF state[t] = "ended" THEN "done" ELSE "created"
Contract == INSTANCE PthreadContract WITH
    Tasks  <- Threads,
    Errors <- (Errnos \ {0}) \union {EAgain, ENoMem},
    task   <- [t \in Threads |-> TaskOf(t)],
    told   <- result,
    ran    <- ran
ImplementsContract == Contract!FairSpec
=============================================================================
