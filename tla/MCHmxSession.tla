---------------------------- MODULE MCHmxSession ----------------------------
(***************************************************************************)
(* Values for the constants of HmxSession.  One session calls with every   *)
(* mode, a mode that is none, buffers long enough for every mode or one    *)
(* byte short of what the shortest needs, and no repeats; the other only   *)
(* competes with it.  The grant's base is aligned, or not; its size is the *)
(* one asked for, or one page less.                                        *)
(***************************************************************************)
EXTENDS HmxSession, TLC

CONSTANTS c1, c2

Enough == [act |-> 32768, wei |-> 32768, out |-> 8192]
Lens == {Enough, [Enough EXCEPT !.out = 15], [Enough EXCEPT !.out = 2047],
         [Enough EXCEPT !.wei = 1023]}
MCRequests ==
    (c1 :> [mode : Modes \cup {NoMode}, lens : Lens, left : {0, 2}])
    @@ (c2 :> [mode : {"UB", "PROBE_CACHED"}, lens : {Enough}, left : {1}])
MCErrs == {14, 256, -1}
MCReports == {4096, 8388608}
MCBases == {8192, 8319}
MCShortfalls == {0, 4096}
=============================================================================
