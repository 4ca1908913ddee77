----------------------------- MODULE OneVerdict -----------------------------
(***************************************************************************)
(* What a lazily loaded library promises the threads that call through it  *)
(* (src/host/fastrpc_windows.c): the first call decides once and for all   *)
(* whether the library is there, and every call, that one and all later    *)
(* ones of any thread, is told that same verdict.                          *)
(***************************************************************************)
CONSTANTS
    Callers,   \* threads that call
    Verdicts   \* what loading can come to

VARIABLES
    verdict,   \* "none" until it is decided
    call       \* of each caller: "idle", "waiting", or what it was told
vars == <<verdict, call>>

Init == /\ verdict = "none"
        /\ call = [t \in Callers |-> "idle"]

Ask(t) == /\ call[t] = "idle"
          /\ call' = [call EXCEPT ![t] = "waiting"]
          /\ UNCHANGED verdict

Decide == /\ verdict = "none"
          /\ \E t \in Callers : call[t] = "waiting"
          /\ verdict' \in Verdicts
          /\ UNCHANGED call

Tell(t) == /\ verdict # "none"
           /\ call[t] = "waiting"
           /\ call' = [call EXCEPT ![t] = verdict]
           /\ UNCHANGED verdict

Done(t) == /\ call[t] \notin {"idle", "waiting"}
           /\ call' = [call EXCEPT ![t] = "idle"]
           /\ UNCHANGED verdict

Next == Decide \/ \E t \in Callers : Ask(t) \/ Tell(t) \/ Done(t)

Spec == Init /\ [][Next]_vars
FairSpec == Spec /\ WF_vars(Decide) /\ \A t \in Callers : WF_vars(Tell(t))
=============================================================================
