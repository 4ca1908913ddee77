-------------------------- MODULE PthreadShimProofs --------------------------
(***************************************************************************)
(* Proofs about PthreadShim for every number of workers, every heap and    *)
(* every errno: the invariant IInv is inductive, no thread reads a struct  *)
(* that is not its own, nothing is left behind, and every step of the shim *)
(* is a step of PthreadContract or changes nothing there.                  *)
(***************************************************************************)
EXTENDS PthreadShim, TLAPS

\* The initial states satisfy the inductive invariant.
THEOREM InitInv == Init => IInv
<1> SUFFICES ASSUME Init PROVE IInv
  OBVIOUS
<1> USE ShimAssumption DEF Init
<1>1. TypeOK
  BY DEF TypeOK, ThreadStates, Threads, Free, NotTold
<1>2. CreatedSoFar
  BY DEF CreatedSoFar, Creating, Spawned, Threads
<1>3. JoinedSoFar
  BY DEF JoinedSoFar, Creating
<1>4. ThreadsKnow
  BY DEF ThreadsKnow
<1>5. HeapOwned
  BY DEF HeapOwned, Holding
<1>6. QED
  BY <1>1, <1>2, <1>3, <1>4, <1>5 DEF IInv

\* IInv is kept by Allocate: the creator's new struct is nobody else's.
LEMMA AllocateStep ==
    ASSUME IInv, Allocate PROVE IInv'
<1> USE ShimAssumption DEF IInv, Allocate, Threads
<1>1. TypeOK'
  BY DEF TypeOK, ThreadStates, NotTold, Free
<1>2. CreatedSoFar'
  BY DEF TypeOK, CreatedSoFar, Creating, Spawned, NotTold
<1>3. JoinedSoFar'
  BY DEF TypeOK, CreatedSoFar, JoinedSoFar, Creating, Spawned, NotTold
<1>4. ThreadsKnow'
  BY DEF TypeOK, CreatedSoFar, JoinedSoFar, ThreadsKnow, HeapOwned, Creating,
         Spawned, Holding
<1>5. HeapOwned'
  BY DEF TypeOK, CreatedSoFar, JoinedSoFar, HeapOwned, Holding, Creating,
         Spawned, Free
<1>6. QED
  BY <1>1, <1>2, <1>3, <1>4, <1>5

\* IInv is kept by NoMemory: the creation fails without a struct.
LEMMA NoMemoryStep ==
    ASSUME IInv, NoMemory PROVE IInv'
<1> USE ShimAssumption DEF IInv, NoMemory, Told, ENoMem, Threads
<1>1. TypeOK'
  BY DEF TypeOK, ThreadStates, NotTold, Free
<1>2. CreatedSoFar'
  BY DEF TypeOK, CreatedSoFar, Creating, Spawned, NotTold
<1>3. JoinedSoFar'
  BY DEF TypeOK, CreatedSoFar, JoinedSoFar, Creating, Spawned, NotTold
<1>4. ThreadsKnow'
  BY DEF TypeOK, CreatedSoFar, JoinedSoFar, ThreadsKnow, HeapOwned, Creating,
         Spawned, Holding
<1>5. HeapOwned'
  BY DEF TypeOK, CreatedSoFar, JoinedSoFar, HeapOwned, Holding, Creating,
         Spawned, Free
<1>6. QED
  BY <1>1, <1>2, <1>3, <1>4, <1>5

\* IInv is kept by Begin: the struct is the new thread's now.
LEMMA BeginStep ==
    ASSUME IInv, Begin PROVE IInv'
<1> USE ShimAssumption DEF IInv, Begin, Threads
<1>1. TypeOK'
  BY DEF TypeOK, ThreadStates, NotTold, Free
<1>2. CreatedSoFar'
  BY DEF TypeOK, CreatedSoFar, Creating, Spawned, NotTold
<1>3. JoinedSoFar'
  BY DEF TypeOK, CreatedSoFar, JoinedSoFar, Creating, Spawned, NotTold
<1>4. ThreadsKnow'
  BY DEF TypeOK, CreatedSoFar, JoinedSoFar, ThreadsKnow, HeapOwned, Creating,
         Spawned, Holding
<1>5. HeapOwned'
  BY DEF TypeOK, CreatedSoFar, JoinedSoFar, HeapOwned, Holding, Creating,
         Spawned, Free
<1>6. QED
  BY <1>1, <1>2, <1>3, <1>4, <1>5

\* IInv is kept by BeginFails: the struct stays the creator's.
LEMMA BeginFailsStep ==
    ASSUME IInv, BeginFails PROVE IInv'
<1> USE ShimAssumption DEF IInv, BeginFails, Threads
<1>1. TypeOK'
  BY DEF TypeOK, ThreadStates, NotTold, Free
<1>2. CreatedSoFar'
  BY DEF TypeOK, CreatedSoFar, Creating, Spawned, NotTold
<1>3. JoinedSoFar'
  BY DEF TypeOK, CreatedSoFar, JoinedSoFar, Creating, Spawned, NotTold
<1>4. ThreadsKnow'
  BY DEF TypeOK, CreatedSoFar, JoinedSoFar, ThreadsKnow, HeapOwned, Creating,
         Spawned, Holding
<1>5. HeapOwned'
  BY DEF TypeOK, CreatedSoFar, JoinedSoFar, HeapOwned, Holding, Creating,
         Spawned, Free
<1>6. QED
  BY <1>1, <1>2, <1>3, <1>4, <1>5

\* IInv is kept by Undo: the creator frees its struct and is told an error.
LEMMA UndoStep ==
    ASSUME IInv, Undo PROVE IInv'
<1> USE ShimAssumption DEF IInv, Undo, Told, ErrorOf, EAgain, Threads
<1>1. TypeOK'
  BY DEF TypeOK, ThreadStates, NotTold, Free, ThreadsKnow
<1>2. CreatedSoFar'
  BY DEF TypeOK, CreatedSoFar, Creating, Spawned, NotTold
<1>3. JoinedSoFar'
  BY DEF TypeOK, CreatedSoFar, JoinedSoFar, Creating, Spawned, NotTold
<1>4. ThreadsKnow'
  BY DEF TypeOK, CreatedSoFar, JoinedSoFar, ThreadsKnow, HeapOwned, Creating,
         Spawned, Holding
<1>5. HeapOwned'
  BY DEF TypeOK, CreatedSoFar, JoinedSoFar, HeapOwned, Holding, Creating,
         Spawned, Free
<1>6. QED
  BY <1>1, <1>2, <1>3, <1>4, <1>5

\* IInv is kept by Created: the creator is told 0 and leaves the struct alone.
LEMMA CreatedStep ==
    ASSUME IInv, Created PROVE IInv'
<1> USE ShimAssumption DEF IInv, Created, Told, LeftToThread, Threads
<1>1. TypeOK'
  BY DEF TypeOK, ThreadStates, NotTold, Free, ThreadsKnow
<1>2. CreatedSoFar'
  BY DEF TypeOK, CreatedSoFar, Creating, Spawned, NotTold
<1>3. JoinedSoFar'
  BY DEF TypeOK, CreatedSoFar, JoinedSoFar, Creating, Spawned, NotTold
<1>4. ThreadsKnow'
  BY DEF TypeOK, CreatedSoFar, JoinedSoFar, ThreadsKnow, HeapOwned, Creating,
         Spawned, Holding
<1>5. HeapOwned'
  BY DEF TypeOK, CreatedSoFar, JoinedSoFar, HeapOwned, Holding, Creating,
         Spawned, Free
<1>6. QED
  BY <1>1, <1>2, <1>3, <1>4, <1>5

\* IInv is kept by AllCreated: the joins begin after the last creation.
LEMMA AllCreatedStep ==
    ASSUME IInv, AllCreated PROVE IInv'
<1> USE ShimAssumption DEF IInv, AllCreated, Threads
<1>1. TypeOK'
  BY DEF TypeOK, ThreadStates, NotTold, Free
<1>2. CreatedSoFar'
  BY DEF TypeOK, CreatedSoFar, Creating, Spawned, NotTold
<1>3. JoinedSoFar'
  BY DEF TypeOK, CreatedSoFar, JoinedSoFar, Creating, Spawned, NotTold
<1>4. ThreadsKnow'
  BY DEF TypeOK, CreatedSoFar, JoinedSoFar, ThreadsKnow, HeapOwned, Creating,
         Spawned, Holding
<1>5. HeapOwned'
  BY DEF TypeOK, CreatedSoFar, JoinedSoFar, HeapOwned, Holding, Creating,
         Spawned, Free
<1>6. QED
  BY <1>1, <1>2, <1>3, <1>4, <1>5

\* IInv is kept by Wait: the thread that is joined has ended.
LEMMA WaitStep ==
    ASSUME IInv, Wait PROVE IInv'
<1> USE ShimAssumption DEF IInv, Wait, ToJoin, Ended, Threads
<1>1. TypeOK'
  BY DEF TypeOK, ThreadStates, NotTold, Free
<1>2. CreatedSoFar'
  BY DEF TypeOK, CreatedSoFar, Creating, Spawned, NotTold
<1>3. JoinedSoFar'
  BY DEF TypeOK, CreatedSoFar, JoinedSoFar, Creating, Spawned, NotTold
<1>4. ThreadsKnow'
  BY DEF TypeOK, CreatedSoFar, JoinedSoFar, ThreadsKnow, HeapOwned, Creating,
         Spawned, Holding
<1>5. HeapOwned'
  BY DEF TypeOK, CreatedSoFar, JoinedSoFar, HeapOwned, Holding, Creating,
         Spawned, Free
<1>6. QED
  BY <1>1, <1>2, <1>3, <1>4, <1>5

\* IInv is kept by Close: the handle of the joined thread is closed.
LEMMA CloseStep ==
    ASSUME IInv, Close PROVE IInv'
<1> USE ShimAssumption DEF IInv, Close, Closed, Threads
<1>1. TypeOK'
  BY DEF TypeOK, ThreadStates, NotTold, Free, JoinedSoFar, Creating
<1>2. CreatedSoFar'
  BY DEF TypeOK, CreatedSoFar, Creating, Spawned, NotTold
<1>3. JoinedSoFar'
  BY DEF TypeOK, CreatedSoFar, JoinedSoFar, Creating, Spawned, NotTold
<1>4. ThreadsKnow'
  BY DEF TypeOK, CreatedSoFar, JoinedSoFar, ThreadsKnow, HeapOwned, Creating,
         Spawned, Holding
<1>5. HeapOwned'
  BY DEF TypeOK, CreatedSoFar, JoinedSoFar, HeapOwned, Holding, Creating,
         Spawned, Free
<1>6. QED
  BY <1>1, <1>2, <1>3, <1>4, <1>5

\* IInv is kept by Leave: there is nobody left to join.
LEMMA LeaveStep ==
    ASSUME IInv, Leave PROVE IInv'
<1> USE ShimAssumption DEF IInv, Leave, ToJoin, Threads
<1>1. TypeOK'
  BY DEF TypeOK, ThreadStates, NotTold, Free
<1>2. CreatedSoFar'
  BY DEF TypeOK, CreatedSoFar, Creating, Spawned, NotTold
<1>3. JoinedSoFar'
  BY DEF TypeOK, CreatedSoFar, JoinedSoFar, Creating, Spawned, NotTold
<1>4. ThreadsKnow'
  BY DEF TypeOK, CreatedSoFar, JoinedSoFar, ThreadsKnow, HeapOwned, Creating,
         Spawned, Holding
<1>5. HeapOwned'
  BY DEF TypeOK, CreatedSoFar, JoinedSoFar, HeapOwned, Holding, Creating,
         Spawned, Free
<1>6. QED
  BY <1>1, <1>2, <1>3, <1>4, <1>5

\* IInv is kept by Copy: a thread copies its own argument.
LEMMA CopyStep ==
    ASSUME IInv, NEW t \in Threads, Copy(t) PROVE IInv'
<1> USE ShimAssumption DEF IInv, Copy, Threads
<1>1. TypeOK'
  BY DEF TypeOK, ThreadStates, NotTold, Free
<1>2. CreatedSoFar'
  BY DEF TypeOK, CreatedSoFar, Creating, Spawned, NotTold
<1>3. JoinedSoFar'
  BY DEF TypeOK, CreatedSoFar, JoinedSoFar, Creating, Spawned, NotTold
<1>4. ThreadsKnow'
  BY DEF TypeOK, CreatedSoFar, JoinedSoFar, ThreadsKnow, HeapOwned, Creating,
         Spawned, Holding
<1>5. HeapOwned'
  BY DEF TypeOK, CreatedSoFar, JoinedSoFar, HeapOwned, Holding, Creating,
         Spawned, Free
<1>6. QED
  BY <1>1, <1>2, <1>3, <1>4, <1>5

\* IInv is kept by FreeStart: a thread frees its own struct.
LEMMA FreeStartStep ==
    ASSUME IInv, NEW t \in Threads, FreeStart(t) PROVE IInv'
<1> USE ShimAssumption DEF IInv, FreeStart, Threads
<1>1. TypeOK'
  BY DEF TypeOK, ThreadStates, NotTold, Free
<1>2. CreatedSoFar'
  BY DEF TypeOK, CreatedSoFar, Creating, Spawned, NotTold
<1>3. JoinedSoFar'
  BY DEF TypeOK, CreatedSoFar, JoinedSoFar, Creating, Spawned, NotTold
<1>4. ThreadsKnow'
  BY DEF TypeOK, CreatedSoFar, JoinedSoFar, ThreadsKnow, HeapOwned, Creating,
         Spawned, Holding
<1>5. HeapOwned'
  BY DEF TypeOK, CreatedSoFar, JoinedSoFar, HeapOwned, Holding, Creating,
         Spawned, Free
<1>6. QED
  BY <1>1, <1>2, <1>3, <1>4, <1>5

\* IInv is kept by RunRoutine: a thread runs its routine with its own argument.
LEMMA RunRoutineStep ==
    ASSUME IInv, NEW t \in Threads, RunRoutine(t) PROVE IInv'
<1> USE ShimAssumption DEF IInv, RunRoutine, Threads
<1>1. TypeOK'
  BY DEF TypeOK, ThreadStates, NotTold, Free, ThreadsKnow
<1>2. CreatedSoFar'
  BY DEF TypeOK, CreatedSoFar, Creating, Spawned, NotTold
<1>3. JoinedSoFar'
  BY DEF TypeOK, CreatedSoFar, JoinedSoFar, Creating, Spawned, NotTold
<1>4. ThreadsKnow'
  BY DEF TypeOK, CreatedSoFar, JoinedSoFar, ThreadsKnow, HeapOwned, Creating,
         Spawned, Holding
<1>5. HeapOwned'
  BY DEF TypeOK, CreatedSoFar, JoinedSoFar, HeapOwned, Holding, Creating,
         Spawned, Free
<1>6. QED
  BY <1>1, <1>2, <1>3, <1>4, <1>5

\* Every step keeps the inductive invariant.
THEOREM StepInv == IInv /\ [Next]_vars => IInv'
<1> SUFFICES ASSUME IInv, [Next]_vars PROVE IInv'
  OBVIOUS
<1>1. CASE Client
  BY <1>1, AllocateStep, NoMemoryStep, BeginStep, BeginFailsStep, UndoStep,
     CreatedStep, AllCreatedStep, WaitStep, CloseStep, LeaveStep DEF Client
<1>2. CASE \E t \in Threads : Thread(t)
  BY <1>2, CopyStep, FreeStartStep, RunRoutineStep DEF Thread
<1>3. CASE UNCHANGED vars
  BY <1>3 DEF vars, IInv, TypeOK, CreatedSoFar, JoinedSoFar, ThreadsKnow,
              HeapOwned, Creating, Spawned, Holding
<1>4. QED
  BY <1>1, <1>2, <1>3 DEF Next

\* The inductive invariant holds in every reachable state of the shim.
THEOREM Invariance == Spec => []IInv
BY InitInv, StepInv, PTL DEF Spec

\* Every variable of PthreadShim keeps its type.
THEOREM TypeCorrect == Spec => []TypeOK
<1>1. IInv => TypeOK
  BY DEF IInv
<1>2. QED
  BY <1>1, Invariance, PTL

\* A thread's struct is its own until it has freed it, however malloc hands out
\* freed addresses (pthread.h:30, 54).
THEOREM NoStructShared == Spec => []StructIsMine
<1>1. IInv => StructIsMine
  BY DEF IInv, HeapOwned, StructIsMine
<1>2. QED
  BY <1>1, Invariance, PTL

\* When the workers are joined every struct is freed and every handle closed,
\* wherever a creation failed.
THEOREM AllGivenBack == Spec => []NothingLeft
<1>1. IInv => NothingLeft
  <2> SUFFICES ASSUME IInv, pc = "done"
               PROVE  /\ \A c \in Cells : heap[c] = Free
                      /\ \A t \in Threads : handle[t] # "open"
    BY DEF NothingLeft
  <2>1. \A t \in Threads : handle[t] # "open"
    BY DEF IInv, JoinedSoFar, Creating, Spawned
  <2>2. \A t \in Threads : ~Holding(t)
    BY DEF IInv, JoinedSoFar, ThreadsKnow, Creating, Spawned, Holding
  <2>3. \A c \in Cells : heap[c] = Free
    BY <2>2 DEF IInv, TypeOK, HeapOwned
  <2> QED BY <2>1, <2>3
<1>2. QED
  BY <1>1, Invariance, PTL

-----------------------------------------------------------------------------
(* The refinement.                                                         *)

\* What the contract sees of the threads.
Shown == [t \in Threads |-> TaskOf(t)]

\* The actions that the contract does not see.
LEMMA Hidden ==
    ASSUME IInv,
           \/ Allocate \/ BeginFails \/ AllCreated \/ Wait \/ Leave
           \/ \E t \in Threads : Copy(t) \/ FreeStart(t)
    PROVE  UNCHANGED Contract!vars
<1>1. result' = result /\ ran' = ran /\ handle' = handle
  BY DEF Allocate, BeginFails, AllCreated, Wait, Leave, Copy, FreeStart
<1>2. \A t \in Threads : TaskOf(t)' = TaskOf(t)
  BY <1>1 DEF Allocate, BeginFails, AllCreated, Wait, Leave, Copy, FreeStart,
              TaskOf, IInv, TypeOK
<1>3. QED
  BY <1>1, <1>2 DEF Contract!vars

\* A creation that fails tells an error of a thread that never was.
LEMMA FailureIsTold ==
    ASSUME IInv, NoMemory \/ Undo
    PROVE  Contract!TellFailed(at)
<1> USE ShimAssumption DEF IInv
<1>1. at \in Threads
  BY DEF NoMemory, Undo, TypeOK, ThreadsKnow, Threads
<1>2. result[at] = NotTold /\ state[at] = "none"
  BY <1>1 DEF NoMemory, Undo, CreatedSoFar, Creating, Spawned, TypeOK, Threads
<1>3. \E e \in (Errnos \ {0}) \union {EAgain, ENoMem} :
          result' = [result EXCEPT ![at] = e]
  <2>1. CASE NoMemory
    BY <2>1 DEF NoMemory, Told
  <2>2. CASE Undo
    <3>1. ErrorOf \in (Errnos \ {0}) \union {EAgain}
      BY <2>2 DEF ErrorOf, TypeOK
    <3> QED BY <2>2, <3>1 DEF Undo, Told
  <2> QED BY <2>1, <2>2
<1>4. Shown' = Shown /\ ran' = ran
  BY DEF NoMemory, Undo, Shown, TaskOf
<1>5. Shown[at] = "none"
  BY <1>1, <1>2 DEF Shown, TaskOf
<1>6. QED
  BY <1>2, <1>3, <1>4, <1>5 DEF Contract!TellFailed, Contract!NotTold, NotTold, Shown

\* A thread begins: it is created though nobody has been told yet.
LEMMA BeginIsStart ==
    ASSUME IInv, Begin
    PROVE  Contract!Start(at)
<1> USE ShimAssumption DEF IInv, Begin
<1>1. at \in Threads
  BY DEF TypeOK, ThreadsKnow, Threads
<1>2. result[at] = NotTold /\ state[at] = "none"
  BY <1>1 DEF CreatedSoFar, Creating, Spawned, Threads
<1>3. TaskOf(at) = "none" /\ TaskOf(at)' = "created"
  BY <1>1, <1>2 DEF TaskOf, TypeOK
<1>4. \A t \in Threads \ {at} : TaskOf(t)' = TaskOf(t)
  BY <1>1 DEF TaskOf, TypeOK
<1>5. QED
  BY <1>1, <1>2, <1>3, <1>4 DEF Contract!Start, Contract!NotTold, NotTold

\* The creator is told 0 of a thread that is there.
LEMMA CreatedIsTold ==
    ASSUME IInv, Created
    PROVE  Contract!TellCreated(at)
<1> USE ShimAssumption DEF IInv, Created, Told
<1>1. at \in Threads
  BY DEF TypeOK, ThreadsKnow, CreatedSoFar, Creating, Threads
<1>2. result[at] = NotTold /\ state[at] # "none"
  BY <1>1 DEF CreatedSoFar, Creating, Spawned, Threads
<1>3. TaskOf(at) # "none"
  BY <1>2 DEF TaskOf
<1>4. \A t \in Threads : TaskOf(t)' = TaskOf(t)
  BY DEF TaskOf
<1>5. QED
  BY <1>1, <1>2, <1>3, <1>4 DEF Contract!TellCreated, Contract!NotTold, NotTold

\* A join returns after the routine of its thread.
LEMMA CloseIsJoin ==
    ASSUME IInv, Close
    PROVE  Contract!Join(at)
<1> USE ShimAssumption DEF IInv, Close, Closed
<1>1. at \in Threads /\ result[at] = 0 /\ state[at] = "ended"
  BY DEF TypeOK, JoinedSoFar, Creating, Threads
<1>2. handle[at] = "open"
  BY <1>1 DEF JoinedSoFar, Creating, Spawned, Threads, TypeOK
<1>3. PICK i \in Threads : i = at
  BY <1>1
<1>4. TaskOf(i) = "done" /\ TaskOf(i)' = "joined"
  BY <1>1, <1>2, <1>3 DEF TaskOf, TypeOK
<1>5. \A t \in Threads \ {i} : TaskOf(t)' = TaskOf(t)
  BY <1>3 DEF TaskOf, TypeOK
<1>6. Contract!Join(i)
  BY <1>1, <1>3, <1>4, <1>5 DEF Contract!Join
<1>7. QED
  BY <1>3, <1>6

\* A thread runs its routine once, with its own argument.
LEMMA RunIsRun ==
    ASSUME IInv, NEW i \in Threads, RunRoutine(i)
    PROVE  Contract!Run(i)
<1> USE DEF IInv, RunRoutine
<1>1. arg[i] = i /\ i \notin ran /\ handle[i] # "closed"
  BY DEF ThreadsKnow
<1>2. TaskOf(i) = "created" /\ TaskOf(i)' = "done"
  BY <1>1 DEF TaskOf, TypeOK
<1>3. \A t \in Threads \ {i} : TaskOf(t)' = TaskOf(t)
  BY DEF TaskOf, TypeOK
<1>4. QED
  BY <1>1, <1>2, <1>3 DEF Contract!Run

\* The shim implements what Measure assumes of pthread_create and pthread_join,
\* for any number of workers (pthread.h:35-71).
THEOREM Refinement == Spec => Contract!Spec
<1>1. Init => Contract!Init
  <2> SUFFICES ASSUME Init PROVE Contract!Init
    OBVIOUS
  <2>1. \A t \in Threads : TaskOf(t) = "none"
    BY DEF Init, TaskOf
  <2> QED BY <2>1 DEF Init, Contract!Init, Contract!NotTold, NotTold
<1>2. IInv /\ [Next]_vars => [Contract!Next]_(Contract!vars)
  <2> SUFFICES ASSUME IInv, [Next]_vars, ~UNCHANGED Contract!vars
               PROVE  Contract!Next
    OBVIOUS
  <2>1. CASE UNCHANGED vars
    <3>1. UNCHANGED Contract!vars
      BY <2>1 DEF vars, Contract!vars, TaskOf
    <3> QED BY <3>1
  <2>2. at \in Threads \/ ~(NoMemory \/ Undo \/ Begin \/ Created \/ Close)
    BY ShimAssumption DEF IInv, TypeOK, ThreadsKnow, CreatedSoFar, JoinedSoFar,
       Creating, Threads, NoMemory, Undo, Begin, Created, Close
  <2>3. CASE Client
    BY <2>2, <2>3, Hidden, FailureIsTold, BeginIsStart, CreatedIsTold,
       CloseIsJoin DEF Client, Contract!Next
  <2>4. CASE \E t \in Threads : Thread(t)
    BY <2>4, Hidden, RunIsRun DEF Thread, Contract!Next
  <2> QED BY <2>1, <2>3, <2>4 DEF Next
<1>3. QED
  BY <1>1, <1>2, Invariance, PTL DEF Spec, Contract!Spec
==============================================================================
