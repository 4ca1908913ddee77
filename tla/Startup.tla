------------------------------- MODULE Startup -------------------------------
(***************************************************************************)
(* The start of main of src/host/cdsp_peak.c, from the command line to the *)
(* numbers and library paths the process runs with: parse_options word by  *)
(* word, its clamps, add_executable_dir_to_dsp_paths, the buffer size and  *)
(* resolve_thread_count.                                                   *)
(*                                                                         *)
(* A word is its text and what strtol and strtoull, which agree but for    *)
(* the sign and the range, make of it: its number, if it is `numeric`,     *)
(* that is not empty and taken to its end.  Integers are narrower than in  *)
(* the code: an int wraps at IntMax + 1, size_t is modulo SizeMod.         *)
(***************************************************************************)
EXTENDS ExecDir

CONSTANTS
    CommandLines,  \* sequences of words: [text, numeric, number]
    IntMax,      \* INT32_MAX, also the greatest int
    LongMax,     \* LONG_MAX: IntMax on Windows, more elsewhere
    SizeMod,     \* 2^64
    MiB,         \* 2^20
    VecBytes,    \* 128
    MaxThreads,  \* MAX_THREADS
    DefaultMs, DefaultMiB,  \* 300 and 64
    HvxCounts,   \* what the DSP may report as HVX_SUPPORT_64B and _128B,
                 \* each a uint32_t
    Places       \* where the executable may be: [exe, skels], its path and
                 \* the directories with a readable skel

ASSUME ParserAssumption ==
    /\ {IntMax, LongMax, SizeMod, MiB, VecBytes, MaxThreads,
        DefaultMs, DefaultMiB} \subseteq Nat \ {0}
    /\ {MaxThreads, DefaultMs} \subseteq 1..IntMax /\ DefaultMiB < SizeMod
    /\ IntMax <= LongMax /\ LongMax < SizeMod
    /\ MiB % VecBytes = 0 /\ HvxCounts \subseteq 0..(2 * IntMax + 1)
    /\ \A p \in Places : /\ p.exe \in Seq(Nat \ {0}) /\ Len(p.exe) > 0
                         /\ p.skels \subseteq 0..Own(p.exe)
Words == [text : STRING, numeric : BOOLEAN, number : Int]
ASSUME CommandLineAssumption == \A line \in CommandLines : line \in Seq(Words)

VARIABLES
    argv,      \* the command line, without argv[0]
    pc,        \* "parse", "paths", "size", "resolve", "run" or "exit"
    i,         \* index of the loop of parse_options
    opt,       \* struct options
    place,     \* where the executable is
    env,       \* the two library paths: a directory, or what the user set
    bytes,     \* of main
    hvx,       \* hvx_64b and hvx_128b
    exit,      \* the exit code, -1 before
    \* not in the code
    failed     \* readlink or setenv itself has failed
library == <<place, env, failed>>
vars == <<argv, pc, i, opt, place, env, bytes, hvx, exit, failed>>

-----------------------------------------------------------------------------
(* The conversions.                                                        *)

\* (int) of a long.
Wrapped(n) == ((n + IntMax + 1) % (2 * (IntMax + 1))) - (IntMax + 1)

\* strtol clamps to the range of long; the cast to int then wraps.
ParseInt(w) ==
    Wrapped(IF w.number > LongMax THEN LongMax
            ELSE IF w.number < -LongMax - 1 THEN -LongMax - 1
            ELSE w.number)

\* strtoull: clamps above; a minus sign negates modulo 2^64.
ParseSize(w) ==
    LET magnitude == IF w.number < 0 THEN -w.number ELSE w.number
        clamped   == IF magnitude >= SizeMod THEN SizeMod - 1 ELSE magnitude
    IN  IF w.number < 0 /\ magnitude < SizeMod THEN (-clamped) % SizeMod
        ELSE clamped

PdOf == [required |-> {"1", "on", "required"}, off |-> {"0", "off", "none"},
         optional |-> {"optional", "auto"}]
PowerOf == [none |-> {"none", "off", "0"}, max |-> {"max", "on", "1"}]
Named(table, w) == {m \in DOMAIN table : w.text \in table[m]}

IntFlags == {"--min-ms", "--iterations", "--threads", "--domain"}
ValueFlags == IntFlags \union {"--scenario", "--size-mib", "--unsigned-pd",
                               "--power"}
Helps == {"--help", "-h"}

\* Whether `flag` takes the word w (the others leave through exit(2)).
Takes(flag, w) ==
    CASE flag \in IntFlags \union {"--size-mib"} -> w.numeric
      [] flag = "--unsigned-pd" -> Named(PdOf, w) # {}
      [] flag = "--power"       -> Named(PowerOf, w) # {}
      [] OTHER                  -> TRUE

\* Mutant: once automatic, always automatic.
AutoStays(o, n) == o.auto
AutoIf(o, n) == n <= 0

\* The options after "flag w".
With(o, flag, w) ==
    CASE flag = "--scenario"   -> [o EXCEPT !.scenario = w.text]
      [] flag = "--size-mib"   -> [o EXCEPT !.mib = ParseSize(w)]
      [] flag = "--min-ms"     -> [o EXCEPT !.minMs = ParseInt(w)]
      [] flag = "--iterations" -> [o EXCEPT !.iterations = ParseInt(w)]
      [] flag = "--threads"    -> [o EXCEPT !.threads = ParseInt(w),
                                            !.auto = AutoIf(o, ParseInt(w))]
      [] flag = "--domain"     -> [o EXCEPT !.domain = ParseInt(w)]
      [] flag = "--unsigned-pd" ->
            [o EXCEPT !.pd = CHOOSE m \in Named(PdOf, w) : TRUE]
      [] flag = "--power" ->
            [o EXCEPT !.power = CHOOSE m \in Named(PowerOf, w) : TRUE]

-----------------------------------------------------------------------------
CdspDomain == 3     \* CDSP_DOMAIN_ID
DefaultOptions ==
    [domain |-> CdspDomain, pd |-> "required", reset |-> FALSE,
     minMs |-> DefaultMs, iterations |-> 0, threads |-> 0, auto |-> TRUE,
     power |-> "max", mib |-> DefaultMiB, scenario |-> "all"]

Nowhere == [exe |-> <<1>>, skels |-> {}]
Users == -1        \* no directory: the value of the user's environment

Init ==
    /\ argv \in CommandLines
    /\ pc = "parse" /\ i = 1
    /\ opt = DefaultOptions
    /\ bytes = 0
    /\ hvx = [b64 |-> 0, b128 |-> 0]
    /\ exit = -1
    /\ place = Nowhere
    /\ env = [v \in Variables |-> Users]
    /\ failed = FALSE

Word == argv[i].text
More == i <= Len(argv)
HasValue == i + 1 <= Len(argv)

Leave(code) == pc' = "exit" /\ exit' = code

TakeValue ==
    /\ pc = "parse" /\ More
    /\ Word \in ValueFlags /\ HasValue
    /\ IF Takes(Word, argv[i + 1])
       THEN /\ opt' = With(opt, Word, argv[i + 1])
            /\ i' = i + 2
            /\ UNCHANGED <<pc, exit>>
       ELSE Leave(2) /\ UNCHANGED <<opt, i>>
    /\ UNCHANGED <<argv, bytes, hvx, library>>

Reset ==
    /\ pc = "parse" /\ More
    /\ Word = "--reset"
    /\ opt' = [opt EXCEPT !.reset = TRUE]
    /\ i' = i + 1
    /\ UNCHANGED <<argv, pc, bytes, hvx, exit, library>>

\* usage(): for --help, for a word that is no option, and for one that lacks
\* its value.
Usage ==
    /\ pc = "parse" /\ More
    /\ ~(Word \in ValueFlags /\ HasValue) /\ Word # "--reset"
    /\ Leave(IF Word \in Helps THEN 0 ELSE 2)
    /\ UNCHANGED <<argv, i, opt, bytes, hvx, library>>

AtMost(n, max) == IF n > max THEN max ELSE n
AtLeast(n, min) == IF n < min THEN min ELSE n

Clamp ==
    /\ pc = "parse" /\ ~More
    /\ opt' = [opt EXCEPT !.minMs = AtLeast(@, 1),
                          !.iterations = AtLeast(@, 0),
                          !.threads = AtMost(@, MaxThreads),
                          !.mib = AtLeast(@, 1)]
    /\ pc' = "paths"
    /\ UNCHANGED <<argv, i, bytes, hvx, exit, library>>

\* add_executable_dir_to_dsp_paths; setenv may fail for either variable.  (The
\* directory is never the empty string that set_env_path ignores.)
SetPaths ==
    /\ pc = "paths"
    /\ \E p \in Places, windows \in BOOLEAN :
       \E len \in ReadLink(p.exe, windows) :
          /\ place' = p
          /\ \/ /\ ~(Usable(len) /\ HasSkel(p.exe, p.skels, Stripped(p.exe, len)))
                /\ failed' = (len = Failure)
                /\ UNCHANGED env
             \/ /\ Usable(len) /\ HasSkel(p.exe, p.skels, Stripped(p.exe, len))
                /\ \E set \in SUBSET Variables :
                      /\ env' = [v \in Variables |->
                                    IF v \in set THEN Stripped(p.exe, len)
                                    ELSE Users]
                      /\ failed' = (set # Variables)
    /\ pc' = "size"
    /\ UNCHANGED <<argv, i, opt, bytes, hvx, exit>>

\* The size of one buffer, whole vectors of it, in size_t.
\* Mutant: the check is made on the number of MiB.
FitsMiB(size) == opt.mib <= IntMax
Fits(size) == size <= IntMax
Size == LET product == (opt.mib * MiB) % SizeMod
        IN  product - (product % VecBytes)

CheckSize ==
    /\ pc = "size"
    /\ bytes' = Size
    /\ IF Fits(Size) THEN pc' = "resolve" /\ UNCHANGED exit ELSE Leave(2)
    /\ UNCHANGED <<argv, i, opt, hvx, library>>

\* resolve_thread_count; the count the DSP reports is cast to int.
Automatic(h) == LET count == IF h.b128 # 0 THEN h.b128 ELSE h.b64
                IN  IF count > 0 THEN Wrapped(count) ELSE 1

Resolve ==
    /\ pc = "resolve"
    /\ hvx' \in [b64 : HvxCounts, b128 : HvxCounts]
    /\ LET n == IF opt.auto THEN Automatic(hvx') ELSE opt.threads
       IN  opt' = [opt EXCEPT !.threads = AtMost(AtLeast(n, 1), MaxThreads)]
    /\ pc' = "run"
    /\ UNCHANGED <<argv, i, bytes, exit, library>>

Next == TakeValue \/ Reset \/ Usage \/ Clamp \/ SetPaths \/ CheckSize \/ Resolve

Spec == Init /\ [][Next]_vars

-----------------------------------------------------------------------------
\* The positions parse_options reads as options, for a reader of the whole
\* command line: the first word, and each word that is not the value of an
\* option before it.
ReadAsOption(line) ==
    LET reads[k \in 0..Len(line)] ==
            \/ k <= 1
            \/ /\ k > 1
               /\ ~(reads[k - 1] /\ line[k - 1].text \in ValueFlags)
    IN  {k \in 1..Len(line) : reads[k]}

\* The last place before `end` where the option is given, 0 if there is none,
\* and the number given there.
Latest(places) ==
    IF places = {} THEN 0 ELSE CHOOSE k \in places : \A l \in places : l <= k
LastBefore(line, flag, end) ==
    Latest({k \in ReadAsOption(line) : k < end /\ line[k].text = flag})
ValueBefore(line, flag, end) ==
    LET t == LastBefore(line, flag, end)
    IN  IF t = 0 THEN 0 ELSE ParseInt(line[t + 1])
End == Len(argv) + 1

\* The counts a run uses are those of the last --threads and --iterations,
\* however often and with whatever values they were given before, and also
\* where a word that looks like an option is the value of another: the thread
\* count is the one asked for if it is positive, otherwise the DSP's, never
\* more than MAX_THREADS nor less than one; an iteration count that an int can
\* hold is kept (cdsp_peak.c:583, 611).
CountsAsAsked ==
    pc = "run" =>
        LET n     == LastBefore(argv, "--iterations", End)
            asked == ValueBefore(argv, "--threads", End)
        IN  /\ asked > 0 => opt.threads = AtMost(asked, MaxThreads)
            /\ asked <= 0 =>
                  opt.threads \in {1, AtMost(hvx.b128, MaxThreads),
                                   AtMost(hvx.b64, MaxThreads)} \ {0}
            /\ asked <= 0 /\ hvx.b128 \in 1..MaxThreads
                  => opt.threads = hvx.b128
            /\ n = 0 => opt.iterations = 0
            /\ n > 0 /\ argv[n + 1].number \in 0..IntMax
                  => opt.iterations = argv[n + 1].number

\* A run's numbers are in the ranges the host counts on after: a positive
\* --min-ms ends the calibration loops, no count is negative, and the buffer
\* length is whole vectors and survives the cast to int (cdsp_peak.c:1097).  It
\* may be no vector at all, when --size-mib wraps in size_t; only the memory
\* benchmarks of the DSP refuse that.
RunUsable ==
    pc = "run" =>
        /\ opt.minMs >= 1 /\ opt.iterations >= 0
        /\ opt.threads \in 1..MaxThreads
        /\ bytes = Wrapped(bytes) /\ bytes % VecBytes = 0

\* A library path the user set is only replaced by the directory of this very
\* executable, and only if a skel is beside it - never by a directory further
\* up, which a path cut off at PATH_MAX seems to name - and with a skel beside
\* it both paths are replaced, also in the root, unless the system fails or a
\* path is too long (cdsp_peak.c:351, README.md:215).
OwnDirectoryIsUsed ==
    LET own == Own(place.exe)
    IN  /\ \A v \in Variables : env[v] # Users => env[v] = own /\ own \in place.skels
        /\ /\ pc = "run" /\ ~failed
           /\ Whole(place.exe) < BufSize /\ HasSkel(place.exe, place.skels, own)
           => \A v \in Variables : env[v] = own

-----------------------------------------------------------------------------
(* The inductive invariant behind them.                                    *)

OptionValues ==
    [domain : Int, pd : DOMAIN PdOf, reset : BOOLEAN, minMs : Int,
     iterations : Int, threads : Int, auto : BOOLEAN, power : DOMAIN PowerOf,
     mib : Nat, scenario : {"all"} \cup STRING]
TypeInv ==
    /\ argv \in CommandLines
    /\ pc \in {"parse", "paths", "size", "resolve", "run", "exit"}
    /\ i \in 1..End
    /\ opt \in OptionValues
    /\ bytes \in Nat
    /\ hvx \in [b64 : HvxCounts \cup {0}, b128 : HvxCounts \cup {0}]

\* parse_options stands at an option, and what it has read decides the counts;
\* its last lines clamp them.
ParseInv ==
    /\ pc = "parse" =>
          /\ i <= Len(argv) => i \in ReadAsOption(argv)
          /\ opt.threads = ValueBefore(argv, "--threads", i)
          /\ (opt.auto <=> opt.threads <= 0)
          /\ opt.iterations = ValueBefore(argv, "--iterations", i)
    /\ pc \in {"paths", "size", "resolve"} =>
          /\ ValueBefore(argv, "--threads", End) \in Int
          /\ ValueBefore(argv, "--iterations", End) \in Int
          /\ opt.threads = AtMost(ValueBefore(argv, "--threads", End), MaxThreads)
          /\ (opt.auto <=> ValueBefore(argv, "--threads", End) <= 0)
          /\ opt.iterations = AtLeast(ValueBefore(argv, "--iterations", End), 0)
          /\ opt.minMs >= 1
CountsInv == ParseInv /\ CountsAsAsked /\ RunUsable
          /\ (pc = "resolve" => Fits(bytes) /\ bytes % VecBytes = 0)

\* The paths are set once, from what readlink said.
PathsInv ==
    /\ pc \in {"parse", "paths"} => \A v \in Variables : env[v] = Users
    /\ OwnDirectoryIsUsed
    /\ /\ pc \in {"size", "resolve"} /\ ~failed
       /\ Whole(place.exe) < BufSize
       /\ HasSkel(place.exe, place.skels, Own(place.exe))
       => \A v \in Variables : env[v] = Own(place.exe)
IInv == TypeInv /\ CountsInv /\ PathsInv
=============================================================================
