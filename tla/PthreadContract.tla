--------------------------- MODULE PthreadContract ---------------------------
(***************************************************************************)
(* What the measurements of src/host/cdsp_peak.c take pthread_create and   *)
(* pthread_join to do (and Measure models them as): a thread comes to be   *)
(* exactly when its creator is told 0, it runs its routine once, with its  *)
(* own argument and possibly before the creator is told, and a join        *)
(* returns only after that.                                                *)
(***************************************************************************)
EXTENDS Integers

CONSTANTS
    Tasks,    \* the arguments the threads are created with
    Errors    \* what pthread_create may return when it fails
NotTold == -1

VARIABLES
    task,     \* "none", "created", "done", "joined"
    told,     \* what pthread_create has returned
    ran       \* the arguments the routine has been called with
vars == <<task, told, ran>>

Init == /\ task = [i \in Tasks |-> "none"]
        /\ told = [i \in Tasks |-> NotTold]
        /\ ran = {}

Start(i) == /\ task[i] = "none" /\ told[i] = NotTold
            /\ task' = [task EXCEPT ![i] = "created"]
            /\ UNCHANGED <<told, ran>>

TellCreated(i) == /\ task[i] # "none" /\ told[i] = NotTold
                  /\ told' = [told EXCEPT ![i] = 0]
                  /\ UNCHANGED <<task, ran>>

TellFailed(i) == /\ task[i] = "none" /\ told[i] = NotTold
                 /\ \E e \in Errors : told' = [told EXCEPT ![i] = e]
                 /\ UNCHANGED <<task, ran>>

Run(i) == /\ task[i] = "created" /\ i \notin ran
          /\ task' = [task EXCEPT ![i] = "done"]
          /\ ran' = ran \union {i}
          /\ UNCHANGED told

Join(i) == /\ task[i] = "done" /\ told[i] = 0
           /\ task' = [task EXCEPT ![i] = "joined"]
           /\ UNCHANGED <<told, ran>>

Next == \E i \in Tasks :
            Start(i) \/ TellCreated(i) \/ TellFailed(i) \/ Run(i) \/ Join(i)

Spec == Init /\ [][Next]_vars
FairSpec == Spec /\ \A i \in Tasks : WF_vars(Run(i)) /\ WF_vars(Join(i))
=============================================================================
