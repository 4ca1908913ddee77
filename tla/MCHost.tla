------------------------------- MODULE MCHost -------------------------------
(***************************************************************************)
(* Values for the constants of Host: filters that reach every kind of      *)
(* scenario alone and together, a device of each generation that matters   *)
(* (ARCH_VER in decimal and in BCD, one without a skel, one without        *)
(* 128-byte HVX, one that counts beyond an int), up to two threads.        *)
(***************************************************************************)
EXTENDS Host

MCFilters == {All, {}, {"rpc-null", "mem-copy"},
              {"fp16-vmpyacc", "int8-vrmpyacc", "int8-vrmpy-add"},
              {"hmx-lock", "hmx-int8-ub-adeep32", "hmx-int4-ub-wn2x-full-x64"}}
Start == [filter |-> {"rpc-null"}, pd |-> "off", power |-> "none",
          threads |-> 0, fits |-> TRUE, uri |-> "default"]

\* What to run, with the exact skel or another one; every way through the steps
\* before the first allocation, with one scenario; every scenario on the number
\* of threads asked for.
MCOptions ==
    {[Start EXCEPT !.filter = f, !.power = p, !.uri = u] :
        f \in MCFilters, p \in {"none", "max"}, u \in {"default", "custom"}}
    \cup {[Start EXCEPT !.pd = pd, !.fits = fits, !.power = "max"] :
             pd \in {"off", "required", "optional"}, fits \in BOOLEAN}
    \cup {[Start EXCEPT !.filter = f, !.threads = t] :
             f \in {All, {"rpc-null", "mem-copy"}}, t \in {1, 9}}
MCPlain == {Start}
MCDevices == {[arch |-> 104, hvx64 |-> 2, hvx128 |-> 0],
              [arch |-> 73, hvx64 |-> 4, hvx128 |-> 2],
              [arch |-> 129, hvx64 |-> 0, hvx128 |-> 0],
              [arch |-> 70, hvx64 |-> 0, hvx128 |-> 255]}
MCErrs == {1}
=============================================================================
