------------------------------ MODULE ExecDir ------------------------------
(***************************************************************************)
(* The operations of add_executable_dir_to_dsp_paths                       *)
(* (src/host/cdsp_peak.c), with readlink of /proc/self/exe, or its         *)
(* stand-in of src/host/windows_compat.c: where FastRPC will look for the  *)
(* skel.                                                                   *)
(*                                                                         *)
(* A path is the sequence of the lengths of its components, each after a   *)
(* slash, and a directory above the executable the number of its           *)
(* components: 0 is the root.  A drive of Windows, `C:`, is as long as a   *)
(* component of one character, and executable_dir takes it for a directory *)
(* like any other.                                                         *)
(***************************************************************************)
EXTENDS Integers, Sequences, FiniteSets

CONSTANTS
    PathMax,   \* PATH_MAX
    SkelLen    \* length of libcdsp_peak_skel_vNN.so

ASSUME PathAssumption == {PathMax, SkelLen} \subseteq Nat \ {0}

Variables == {"ADSP_LIBRARY_PATH", "DSP_LIBRARY_PATH"}

\* Where component k of a path starts, with its slash; the length of the path
\* of a directory above it; and the directory the executable is in.
Offset(exe, k) ==
    LET length[j \in 0..Len(exe)] ==
            IF j = 0 THEN 0 ELSE length[j - 1] + exe[j] + 1
    IN  length[k - 1]
DirLen(exe, d) == IF d = 0 THEN 1 ELSE Offset(exe, d + 1)
Own(exe) == Len(exe) - 1
Whole(exe) == Offset(exe, Len(exe) + 1)

Failure == -1
BufSize == PathMax - 1

\* readlink cuts a path that is too long, cdsp_peak_readlink refuses it; either
\* may fail.
ReadLink(exe, windows) ==
    {Failure, IF Whole(exe) < BufSize THEN Whole(exe)
              ELSE IF windows THEN Failure ELSE BufSize}

\* The directory of the first n characters: up to the last slash in them.
Stripped(exe, n) ==
    LET slashes == {k \in 0..Own(exe) : Offset(exe, k + 1) < n}
    IN  CHOOSE k \in slashes : \A l \in slashes : l <= k

\* executable_dir takes what readlink returned for a whole path.
\* Mutant: also one that fills the buffer.
SomeLength(n) == n > 0
Usable(n) == n > 0 /\ n < PathMax - 1

\* executable_dir_has_skel: the path of a skel must fit its buffer.
HasSkel(exe, skels, d) == /\ DirLen(exe, d) + 1 + SkelLen < PathMax
                          /\ d \in skels
=============================================================================
