------------------------------ MODULE MCStartup ------------------------------
(***************************************************************************)
(* Values for the constants of Startup: ints of 6 bits, longs of 8, sizes  *)
(* of 8; numbers on both sides of each limit, words that are no numbers,   *)
(* and options that may be taken for values; executables in the root and   *)
(* below, with paths on both sides of PATH_MAX.                            *)
(***************************************************************************)
EXTENDS Startup, SequencesExt

Number(text, n) == [text |-> text, numeric |-> TRUE, number |-> n]
Text(text) == [text |-> text, numeric |-> FALSE, number |-> 0]

\* For --threads, --iterations and --size-mib, in command lines of 4 words.
NumericWords ==
    {Text(t) : t \in {"--threads", "--iterations", "--size-mib", "--reset",
                      "--help", ""}}
    \union {Number("-1", -1), Number("0", 0), Number("2", 2), Number("4", 4),
            Number("31", 31), Number("65", 65), Number("1000", 1000)}

\* For every option once.
AllWords ==
    {Text(t) : t \in ValueFlags \union {"--reset", "-h", "off", "on", "auto",
                                        "optional", "none", "max", "12x"}}
    \union {Number("0", 0), Number("1", 1), Number("5", 5),
            Number("33", 33), Number("-70", -70)}

MCCommandLines == BoundedSeq(NumericWords, 4) \union BoundedSeq(AllWords, 3)

MCHvxCounts == {0, 2, 40}

\* Paths of 2, 5, 8 and 12 characters: the last is cut at its third slash, so
\* that its directory seems to be the one above.
MCPlaces == UNION {[exe : {p}, skels : SUBSET (0..(Len(p) - 1))] :
                      p \in {<<1>>, <<1, 2>>, <<2, 1, 2>>, <<2, 5, 2>>}}
=============================================================================
