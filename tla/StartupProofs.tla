---------------------------- MODULE StartupProofs ----------------------------
(***************************************************************************)
(* Proofs about Startup for every command line, every width of the         *)
(* integers, and every place of the executable: the counts a run uses are  *)
(* those asked for last, its numbers can be used as they are, and a        *)
(* library path is only set to the executable's own directory.             *)
(***************************************************************************)
EXTENDS Startup, WellFoundedInduction, TLAPS

-----------------------------------------------------------------------------
(* Data.                                                                   *)

\* A recursion along 0..n whose step is a table has a solution: otherwise take
\* the shortest 0..m that has none.
Solution(f, n, S, base, step) ==
    /\ f \in [0..n -> S]
    /\ f[0] = base
    /\ \A k \in 1..n : f[k] = step[k][f[k - 1]]
LEMMA RecursionExists ==
    ASSUME NEW n \in Nat, NEW S, NEW base \in S, NEW step \in [1..n -> [S -> S]]
    PROVE  \E f : Solution(f, n, S, base, step)
<1> DEFINE Solves(f, m) == /\ f \in [0..m -> S]
                           /\ f[0] = base
                           /\ \A k \in 1..m : f[k] = step[k][f[k - 1]]
           Bad == {m \in 0..n : ~\E f : Solves(f, m)}
<1>1. ASSUME Bad # {} PROVE FALSE
  <2>1. Bad \subseteq Nat
    OBVIOUS
  <2> HIDE DEF Bad
  <2>2. \E m \in Bad : \A j \in Bad : <<j, m>> \notin OpToRel(<, Nat)
    BY <1>1, <2>1, NatLessThanWellFounded, WFMin
  <2>3. PICK m \in Bad : \A j \in Bad : ~(j < m)
    BY <2>1, <2>2 DEF OpToRel
  <2>4. m \in 0..n /\ ~\E f : Solves(f, m)
    BY DEF Bad
  <2>5. m # 0
    <3>1. Solves([k \in 0..0 |-> base], 0)
      OBVIOUS
    <3>2. QED
      BY <2>4, <3>1
  <2>6. m - 1 \in 0..n /\ m - 1 < m /\ m \in 1..n /\ m \in Nat
    BY <2>4, <2>5
  <2>7. PICK f : Solves(f, m - 1)
    BY <2>3, <2>6 DEF Bad
  <2> DEFINE g == [k \in 0..m |-> IF k = m THEN step[m][f[m - 1]] ELSE f[k]]
  <2>8. m - 1 \in 0..(m - 1) /\ f[m - 1] \in S
    BY <2>6, <2>7
  <2>9. step[m][f[m - 1]] \in S
    BY <2>6, <2>8
  <2>10. g \in [0..m -> S]
    <3>1. \A k \in 0..m : k # m => k \in 0..(m - 1)
      BY <2>6
    <3>2. QED
      BY <2>7, <2>9, <3>1
  <2>11. g[0] = base
    BY <2>5, <2>6, <2>7
  <2>12. ASSUME NEW k \in 1..m PROVE g[k] = step[k][g[k - 1]]
    <3>1. k - 1 \in 0..m /\ k - 1 # m /\ g[k - 1] = f[k - 1]
      BY <2>6
    <3>2. CASE k = m
      BY <2>6, <3>1, <3>2
    <3>3. CASE k # m
      <4>1. k \in 1..(m - 1) /\ g[k] = f[k]
        BY <2>6, <3>3
      <4>2. QED
        BY <2>7, <3>1, <4>1
    <3>4. QED
      BY <3>2, <3>3
  <2>13. Solves(g, m)
    BY <2>10, <2>11, <2>12
  <2>14. QED
    BY <2>4, <2>13
<1>2. n \in 0..n
  OBVIOUS
<1>3. \E f : Solves(f, n)
  BY <1>1, <1>2
<1>4. QED
  BY <1>3 DEF Solution

\* A whole number of vectors leaves no remainder.
LEMMA WholeVectors ==
    ASSUME NEW p \in Nat, NEW w \in Nat \ {0}
    PROVE  (p - (p % w)) % w = 0 /\ p - (p % w) \in Nat
<1> DEFINE q == p \div w
           x == p - (p % w)
           d == x \div w
           r == x % w
<1>1. /\ p = w * q + (p % w) /\ p % w \in 0..(w - 1) /\ q \in Int
  OBVIOUS
<1>2. x = w * q /\ x \in Int
  BY <1>1
<1>3. x = w * d + r /\ r \in 0..(w - 1) /\ d \in Int
  BY <1>2
<1>4. x >= 0
  <2>1. p % w <= p
    <3>1. CASE p < w
      BY <3>1
    <3>2. CASE p >= w
      BY <1>1, <3>2
    <3>3. QED
      BY <3>1, <3>2
  <2>2. QED
    BY <1>1, <2>1
<1> HIDE DEF q, x, d, r
<1>5. w * (q - d) = r
  BY <1>1, <1>2, <1>3
<1>6. CASE q - d >= 1
  <2>1. w * (q - d) >= w
    BY <1>1, <1>3, <1>6, SMTT(30)
  <2>2. QED
    BY <1>3, <1>5, <2>1
<1>7. CASE q - d <= -1
  <2>1. w * (q - d) <= -w
    BY <1>1, <1>3, <1>7, SMTT(30)
  <2>2. QED
    BY <1>3, <1>5, <2>1
<1>8. CASE q = d
  BY <1>1, <1>2, <1>3, <1>4, <1>8 DEF x, r
<1>9. QED
  BY <1>1, <1>3, <1>6, <1>7, <1>8

\* (int) keeps what an int can hold, and makes the upper half of a uint32_t
\* negative.
LEMMA WrappedInt == ASSUME NEW n \in Int PROVE Wrapped(n) \in Int
BY ParserAssumption, SMTT(60) DEF Wrapped

LEMMA WrappedSame == ASSUME NEW n \in 0..IntMax PROVE Wrapped(n) = n
<1> DEFINE w == 2 * (IntMax + 1)
           x == n + IntMax + 1
<1>0. IntMax \in Nat
  BY ParserAssumption
<1>1. w \in Nat \ {0} /\ x \in Nat /\ x < w /\ IntMax \in Nat
  BY <1>0
<1>2. x % w = x
  <2> HIDE DEF w, x
  <2>1. QED
    BY <1>1
<1>3. QED
  BY <1>1, <1>2 DEF Wrapped

LEMMA WrappedNegative ==
    ASSUME NEW n \in (IntMax + 1)..(2 * IntMax + 1)
    PROVE  Wrapped(n) < 0 /\ Wrapped(n) \in Int
<1> DEFINE w == 2 * (IntMax + 1)
           x == n + IntMax + 1
<1>0. IntMax \in Nat
  BY ParserAssumption
<1>1. /\ w \in Nat \ {0} /\ x \in Nat /\ x >= w /\ x < 2 * w
      /\ IntMax \in Nat /\ n \in Nat
  BY <1>0
<1>2. x % w = x - w
  <2> HIDE DEF w, x
  <2>1. QED
    BY <1>1
<1>3. QED
  BY <1>1, <1>2 DEF Wrapped

\* parse_int_arg and parse_size_arg.
LEMMA ParsedInt == ASSUME NEW word \in Words PROVE ParseInt(word) \in Int
<1>1. word.number \in Int /\ LongMax \in Int
  BY ParserAssumption DEF Words
<1>2. QED
  BY <1>1, WrappedInt DEF ParseInt

LEMMA ParsedSame ==
    ASSUME NEW word, word.number \in 0..IntMax
    PROVE  ParseInt(word) = word.number
<1>1. /\ IntMax \in Nat /\ LongMax \in Nat /\ IntMax <= LongMax
  BY ParserAssumption
<1>2. ~(word.number > LongMax) /\ ~(word.number < -LongMax - 1)
  BY <1>1
<1>3. QED
  BY <1>2, WrappedSame DEF ParseInt

LEMMA ParsedSize == ASSUME NEW word \in Words PROVE ParseSize(word) \in Nat
<1>1. word.number \in Int /\ SizeMod \in Nat \ {0}
  BY ParserAssumption DEF Words
<1>2. \A a \in Int : a % SizeMod \in Nat
  BY <1>1
<1>3. QED
  BY <1>1, <1>2 DEF ParseSize

-----------------------------------------------------------------------------
(* The command line.                                                       *)

\* The words parse_options reads as options.
IsReading(line, r) ==
    r = [k \in 0..Len(line) |->
            \/ k <= 1
            \/ /\ k > 1
               /\ ~(r[k - 1] /\ line[k - 1].text \in ValueFlags)]

LEMMA ReadingExists ==
    ASSUME NEW line \in CommandLines
    PROVE  \E r : IsReading(line, r)
<1> DEFINE n == Len(line)
           next == [k \in 1..n |-> [b \in BOOLEAN |->
                       \/ k = 1
                       \/ ~(b /\ line[k - 1].text \in ValueFlags)]]
<1>1. n \in Nat
  BY CommandLineAssumption
<1>2. next \in [1..n -> [BOOLEAN -> BOOLEAN]]
  OBVIOUS
<1>3. PICK r \in [0..n -> BOOLEAN] :
          r[0] = TRUE /\ \A k \in 1..n : r[k] = next[k][r[k - 1]]
  <2> DEFINE Truth == BOOLEAN
             yes == TRUE
  <2>1. yes \in Truth /\ next \in [1..n -> [Truth -> Truth]]
    BY <1>2
  <2> HIDE DEF next, n, Truth, yes
  <2>2. \E r : Solution(r, n, Truth, yes, next)
    BY <1>1, <2>1, RecursionExists
  <2>3. QED
    BY <2>2 DEF Solution, Truth, yes
<1>4. ASSUME NEW k \in 0..n
      PROVE  r[k] = (\/ k <= 1
                     \/ /\ k > 1
                        /\ ~(r[k - 1] /\ line[k - 1].text \in ValueFlags))
  <2>1. CASE k = 0
    BY <1>3, <2>1
  <2>2. CASE k # 0
    <3>1. k \in 1..n /\ k - 1 \in 0..n
      BY <1>1, <2>2
    <3>2. r[k - 1] \in BOOLEAN /\ r[k] = next[k][r[k - 1]]
      BY <1>3, <3>1
    <3>3. r[k] = (k = 1 \/ ~(r[k - 1] /\ line[k - 1].text \in ValueFlags))
      BY <3>1, <3>2
    <3>4. k <= 1 <=> k = 1
      BY <1>1, <3>1
    <3>5. k > 1 <=> k # 1
      BY <1>1, <3>1
    <3>6. QED
      BY <3>3, <3>4, <3>5
  <2>3. QED
    BY <2>1, <2>2
<1>5. r = [k \in 0..n |-> r[k]]
  BY <1>3
<1>6. QED
  BY <1>4, <1>5 DEF IsReading

\* The first word is read as an option, and after that each word that is not
\* the value of an option.
LEMMA Reading ==
    ASSUME NEW line \in CommandLines
    PROVE  /\ ReadAsOption(line) \subseteq 1..Len(line)
           /\ 1 <= Len(line) => 1 \in ReadAsOption(line)
           /\ \A k \in 2..Len(line) :
                 k \in ReadAsOption(line)
                    <=> ~(k - 1 \in ReadAsOption(line) /\ line[k - 1].text \in ValueFlags)
<1> DEFINE r == CHOOSE f : IsReading(line, f)
<1>1. IsReading(line, r)
  BY ReadingExists
<1>2. ReadAsOption(line) = {k \in 1..Len(line) : r[k]}
  BY DEF ReadAsOption, IsReading
<1>3. Len(line) \in Nat
  BY CommandLineAssumption
<1> HIDE DEF r
<1>4. ASSUME NEW k \in 0..Len(line)
      PROVE  r[k] = (\/ k <= 1
                     \/ /\ k > 1
                        /\ ~(r[k - 1] /\ line[k - 1].text \in ValueFlags))
  BY <1>1 DEF IsReading
<1>5. 1 <= Len(line) => 1 \in ReadAsOption(line)
  <2>1. ASSUME 1 <= Len(line) PROVE r[1]
    <3>1. 1 \in 0..Len(line) /\ 1 <= 1
      BY <1>3, <2>1
    <3>2. QED
      BY <1>4, <3>1
  <2>2. QED
    BY <1>2, <1>3, <2>1
<1>6. ASSUME NEW k \in 2..Len(line)
      PROVE  k \in ReadAsOption(line)
                <=> ~(k - 1 \in ReadAsOption(line) /\ line[k - 1].text \in ValueFlags)
  <2>1. /\ k \in 0..Len(line) /\ ~(k <= 1) /\ k > 1
        /\ k \in 1..Len(line) /\ k - 1 \in 1..Len(line)
    BY <1>3
  <2>2. r[k] = ~(r[k - 1] /\ line[k - 1].text \in ValueFlags)
    BY <1>4, <2>1
  <2>3. QED
    BY <1>2, <2>1, <2>2
<1>7. QED
  BY <1>2, <1>5, <1>6

\* The last place of an option, after one more option has been read.
LEMMA LastHere ==
    ASSUME NEW line \in CommandLines, NEW k \in ReadAsOption(line), NEW flag,
           line[k].text = flag, NEW end \in Nat,
           \A l \in ReadAsOption(line) : l < end <=> l < k \/ l = k
    PROVE  LastBefore(line, flag, end) = k
<1> DEFINE places == {l \in ReadAsOption(line) : l < end /\ line[l].text = flag}
<1>1. k \in places /\ ReadAsOption(line) \subseteq Nat
  BY Reading
<1>2. \A l \in places : l <= k
  BY <1>1
<1>3. places \subseteq Nat
  BY <1>1
<1>4. LastBefore(line, flag, end) = CHOOSE m \in places : \A l \in places : l <= m
  BY <1>1 DEF LastBefore, Latest
<1> HIDE DEF places
<1>5. \A m \in places : (\A l \in places : l <= m) => m = k
  BY <1>1, <1>2, <1>3
<1>6. QED
  BY <1>1, <1>2, <1>4, <1>5

LEMMA LastElsewhere ==
    ASSUME NEW line, NEW k \in ReadAsOption(line), NEW flag, line[k].text # flag, NEW end,
           \A l \in ReadAsOption(line) : l < end <=> l < k \/ l = k
    PROVE  LastBefore(line, flag, end) = LastBefore(line, flag, k)
<1>1. {l \in ReadAsOption(line) : l < end /\ line[l].text = flag}
         = {l \in ReadAsOption(line) : l < k /\ line[l].text = flag}
  OBVIOUS
<1>2. QED
  BY <1>1 DEF LastBefore

\* Nothing has been given before the first word.
LEMMA NoneYet ==
    ASSUME NEW line \in CommandLines, NEW flag
    PROVE  LastBefore(line, flag, 1) = 0
<1>1. ReadAsOption(line) \subseteq 1..Len(line)
  BY Reading
<1>2. {l \in ReadAsOption(line) : l < 1 /\ line[l].text = flag} = {}
  <2>1. \A l \in 1..Len(line) : ~(l < 1)
    BY CommandLineAssumption
  <2>2. QED
    BY <1>1, <2>1
<1>3. QED
  BY <1>2 DEF LastBefore, Latest

\* The number given to an option, likewise.
LEMMA ValueHere ==
    ASSUME NEW line \in CommandLines, NEW k \in ReadAsOption(line), NEW flag,
           line[k].text = flag, NEW end \in Nat,
           \A l \in ReadAsOption(line) : l < end <=> l < k \/ l = k
    PROVE  ValueBefore(line, flag, end) = ParseInt(line[k + 1])
<1>1. LastBefore(line, flag, end) = k
  BY LastHere
<1>2. k # 0
  BY Reading
<1>3. QED
  BY <1>1, <1>2 DEF ValueBefore

LEMMA ValueElsewhere ==
    ASSUME NEW line, NEW k \in ReadAsOption(line), NEW flag, line[k].text # flag, NEW end,
           \A l \in ReadAsOption(line) : l < end <=> l < k \/ l = k
    PROVE  ValueBefore(line, flag, end) = ValueBefore(line, flag, k)
BY LastElsewhere DEF ValueBefore

-----------------------------------------------------------------------------
(* The executable's directory.                                             *)

\* Each component moves the next slash by its length and one.
IsLengths(exe, length) ==
    length = [j \in 0..Len(exe) |->
                 IF j = 0 THEN 0 ELSE length[j - 1] + exe[j] + 1]

LEMMA LengthsExist ==
    ASSUME NEW exe \in Seq(Nat \ {0})
    PROVE  \E length : IsLengths(exe, length)
<1> DEFINE n == Len(exe)
           next == [k \in 1..n |-> [x \in Nat |-> x + exe[k] + 1]]
<1>1. n \in Nat /\ \A k \in 1..n : exe[k] \in Nat
  OBVIOUS
<1>2. next \in [1..n -> [Nat -> Nat]]
  BY <1>1
<1>3. PICK f \in [0..n -> Nat] :
          f[0] = 0 /\ \A k \in 1..n : f[k] = next[k][f[k - 1]]
  <2> DEFINE zero == 0
             Naturals == Nat
  <2>1. zero \in Naturals /\ next \in [1..n -> [Naturals -> Naturals]]
    BY <1>2
  <2> HIDE DEF next, n, zero, Naturals
  <2>2. \E f : Solution(f, n, Naturals, zero, next)
    <3>1. n \in Nat
      BY <1>1
    <3>2. QED
      BY <2>1, <3>1, RecursionExists
  <2>3. QED
    BY <2>2 DEF Solution, zero, Naturals
<1>4. ASSUME NEW k \in 0..n
      PROVE  f[k] = IF k = 0 THEN 0 ELSE f[k - 1] + exe[k] + 1
  <2>1. CASE k = 0
    BY <1>3, <2>1
  <2>2. CASE k # 0
    <3>1. k \in 1..n /\ k - 1 \in 0..n
      BY <1>1, <2>2
    <3>2. f[k - 1] \in Nat /\ f[k] = next[k][f[k - 1]]
      BY <1>3, <3>1
    <3>3. QED
      BY <2>2, <3>1, <3>2
  <2>3. QED
    BY <2>1, <2>2
<1>5. f = [k \in 0..n |-> f[k]]
  BY <1>3
<1>6. QED
  BY <1>4, <1>5 DEF IsLengths

LEMMA OffsetGrows ==
    ASSUME NEW exe \in Seq(Nat \ {0}), Len(exe) > 0
    PROVE  /\ Whole(exe) \in Nat
           /\ Whole(exe) > Offset(exe, Len(exe))
           /\ Whole(exe) > 0
<1> DEFINE f == CHOOSE length : IsLengths(exe, length)
           n == Len(exe)
           Wrong == {k \in 0..n : f[k] \notin Nat}
<1>1. IsLengths(exe, f)
  BY LengthsExist
<1>2. \A k : Offset(exe, k) = f[k - 1]
  BY DEF Offset, IsLengths
<1>3. n \in Nat /\ n # 0 /\ \A k \in 1..n : exe[k] \in Nat
  OBVIOUS
<1> HIDE DEF f
<1>4. ASSUME NEW k \in 0..n
      PROVE  f[k] = IF k = 0 THEN 0 ELSE f[k - 1] + exe[k] + 1
  BY <1>1 DEF IsLengths
<1> HIDE DEF n
<1>5. ASSUME Wrong # {} PROVE FALSE
  <2>1. Wrong \subseteq Nat
    BY <1>3
  <2> HIDE DEF Wrong
  <2>2. \E k \in Wrong : \A j \in Wrong : <<j, k>> \notin OpToRel(<, Nat)
    BY <1>5, <2>1, NatLessThanWellFounded, WFMin
  <2>3. PICK k \in Wrong : \A j \in Wrong : ~(j < k)
    BY <2>1, <2>2 DEF OpToRel
  <2>4. k \in 0..n /\ f[k] \notin Nat
    BY DEF Wrong
  <2>5. k # 0
    <3>1. 0 \in 0..n
      BY <1>3
    <3>2. QED
      BY <1>4, <2>4, <3>1
  <2>6. k - 1 \in 0..n /\ k - 1 < k /\ k \in 1..n
    BY <1>3, <2>4, <2>5
  <2>7. f[k - 1] \in Nat
    BY <2>3, <2>6 DEF Wrong
  <2>8. f[k] = f[k - 1] + exe[k] + 1
    BY <1>4, <2>4, <2>5
  <2>9. exe[k] \in Nat
    BY <1>3, <2>6
  <2>10. QED
    BY <2>4, <2>7, <2>8, <2>9
<1>6. n \in 0..n /\ n - 1 \in 0..n /\ n \in 1..n
  BY <1>3
<1>7. f[n] \in Nat /\ f[n - 1] \in Nat
  BY <1>5, <1>6
<1>8. f[n] = f[n - 1] + exe[n] + 1
  BY <1>3, <1>4, <1>6
<1>9. Offset(exe, n + 1) = f[n]
  <2>1. (n + 1) - 1 = n
    BY <1>3
  <2>2. QED
    BY <1>2, <2>1
<1>10. Whole(exe) = f[n] /\ Offset(exe, Len(exe)) = f[n - 1]
  BY <1>2, <1>9 DEF Whole, n
<1>11. QED
  BY <1>3, <1>6, <1>7, <1>8, <1>10

\* The last slash of the whole path is the one before the last component.
LEMMA StrippedIsOwn ==
    ASSUME NEW exe \in Seq(Nat \ {0}), Len(exe) > 0
    PROVE  Stripped(exe, Whole(exe)) = Own(exe)
<1> DEFINE slashes == {k \in 0..Own(exe) : Offset(exe, k + 1) < Whole(exe)}
<1>1. Own(exe) \in Nat /\ Own(exe) + 1 = Len(exe)
  BY DEF Own
<1>2. Own(exe) \in slashes
  <2>1. Offset(exe, Own(exe) + 1) < Whole(exe)
    BY <1>1, OffsetGrows
  <2>2. QED
    BY <1>1, <2>1
<1>3. slashes \subseteq Nat /\ \A l \in slashes : l <= Own(exe)
  BY <1>1
<1>4. Stripped(exe, Whole(exe)) = CHOOSE k \in slashes : \A l \in slashes : l <= k
  BY DEF Stripped
<1> HIDE DEF slashes
<1>5. \A k \in slashes : (\A l \in slashes : l <= k) => k = Own(exe)
  BY <1>1, <1>2, <1>3
<1>6. QED
  BY <1>2, <1>3, <1>4, <1>5

\* executable_dir only goes on with a whole path, and takes every whole path
\* that fits.
LEMMA UsableIsWhole ==
    ASSUME NEW p \in Places, NEW windows \in BOOLEAN,
           NEW len \in ReadLink(p.exe, windows)
    PROVE  /\ Usable(len) => Stripped(p.exe, len) = Own(p.exe)
           /\ Whole(p.exe) < BufSize /\ len # Failure => Usable(len)
<1>1. p.exe \in Seq(Nat \ {0}) /\ Len(p.exe) > 0
  BY ParserAssumption
<1>2. Whole(p.exe) \in Nat /\ Whole(p.exe) > 0 /\ PathMax \in Nat
  BY <1>1, OffsetGrows, PathAssumption
<1>3. len \in {Failure, BufSize, Whole(p.exe)}
  BY DEF ReadLink
<1>4. Usable(len) => len = Whole(p.exe)
  BY <1>2, <1>3 DEF Usable, BufSize, Failure
<1>5. Whole(p.exe) < BufSize /\ len # Failure => len = Whole(p.exe)
  BY DEF ReadLink
<1>6. Whole(p.exe) < BufSize => Usable(Whole(p.exe))
  BY <1>2 DEF Usable, BufSize
<1>7. QED
  BY <1>1, <1>4, <1>5, <1>6, StrippedIsOwn
-----------------------------------------------------------------------------
(* The invariant: each action of the start of main.                        *)

\* What an option may change, and what it makes of the counts.
LEMMA WithTyped ==
    ASSUME NEW o \in OptionValues, NEW flag \in ValueFlags, NEW w \in Words,
           Takes(flag, w)
    PROVE  With(o, flag, w) \in OptionValues
<1>1. ParseInt(w) \in Int /\ ParseSize(w) \in Nat /\ w.text \in STRING
  BY ParsedInt, ParsedSize DEF Words
<1>2. AutoIf(o, ParseInt(w)) \in BOOLEAN
  BY DEF AutoIf
<1>3. CASE flag = "--scenario"
  BY <1>1, <1>3 DEF With, OptionValues
<1>4. CASE flag = "--size-mib"
  BY <1>1, <1>4 DEF With, OptionValues
<1>5. CASE flag = "--min-ms"
  BY <1>1, <1>5 DEF With, OptionValues
<1>6. CASE flag = "--iterations"
  BY <1>1, <1>6 DEF With, OptionValues
<1>7. CASE flag = "--threads"
  BY <1>1, <1>2, <1>7 DEF With, OptionValues
<1>8. CASE flag = "--domain"
  BY <1>1, <1>8 DEF With, OptionValues
<1>9. CASE flag = "--unsigned-pd"
  <2>1. (CHOOSE m \in Named(PdOf, w) : TRUE) \in DOMAIN PdOf
    BY <1>9 DEF Takes, IntFlags, Named
  <2>2. QED
    BY <1>9, <2>1 DEF With, OptionValues
<1>10. CASE flag = "--power"
  <2>1. (CHOOSE m \in Named(PowerOf, w) : TRUE) \in DOMAIN PowerOf
    BY <1>10 DEF Takes, IntFlags, Named
  <2>2. QED
    BY <1>10, <2>1 DEF With, OptionValues
<1>11. QED
  BY <1>3, <1>4, <1>5, <1>6, <1>7, <1>8, <1>9, <1>10
     DEF ValueFlags, IntFlags

LEMMA WithCounts ==
    ASSUME NEW o \in OptionValues, NEW flag \in ValueFlags, NEW w
    PROVE  LET new == With(o, flag, w)
           IN  /\ new.threads = IF flag = "--threads" THEN ParseInt(w)
                                ELSE o.threads
               /\ new.auto = IF flag = "--threads" THEN (ParseInt(w) <= 0)
                             ELSE o.auto
               /\ new.iterations = IF flag = "--iterations" THEN ParseInt(w)
                                   ELSE o.iterations
BY DEF With, AutoIf, OptionValues, ValueFlags, IntFlags

\* Reading one option, with its value or without, moves to the next one.
LEMMA NextOption ==
    ASSUME NEW line \in CommandLines, NEW k \in ReadAsOption(line),
           NEW width \in {1, 2},
           width = 2 <=> line[k].text \in ValueFlags,
           k + width - 1 <= Len(line)
    PROVE  /\ k + width \in 1..(Len(line) + 1)
           /\ k + width <= Len(line) => k + width \in ReadAsOption(line)
           /\ \A l \in ReadAsOption(line) :
                 l < k + width <=> l < k \/ l = k
<1>1. /\ Len(line) \in Nat /\ k \in 1..Len(line)
      /\ ReadAsOption(line) \subseteq 1..Len(line)
  BY Reading, CommandLineAssumption
<1>2. CASE width = 1
  <2>1. k + 1 <= Len(line) => k + 1 \in ReadAsOption(line)
    <3>1. ASSUME k + 1 <= Len(line) PROVE k + 1 \in ReadAsOption(line)
      <4>1. k + 1 \in 2..Len(line) /\ (k + 1) - 1 = k
        BY <1>1, <3>1
      <4>2. QED
        BY <1>2, <4>1, Reading
    <3>2. QED
      BY <3>1
  <2>2. QED
    BY <1>1, <1>2, <2>1
<1>3. CASE width = 2
  <2>1. k + 1 \in 2..Len(line) /\ (k + 1) - 1 = k
    BY <1>1, <1>3
  <2>2. k + 1 \notin ReadAsOption(line)
    BY <1>3, <2>1, Reading
  <2>3. ASSUME k + 2 <= Len(line) PROVE k + 2 \in ReadAsOption(line)
    <3>1. k + 2 \in 2..Len(line) /\ (k + 2) - 1 = k + 1
      BY <1>1, <2>3
    <3>2. QED
      BY <2>2, <3>1, Reading
  <2>4. \A l \in ReadAsOption(line) : l < k + 2 <=> l < k \/ l = k
    <3>1. \A l \in ReadAsOption(line) : l \in Nat /\ l # k + 1
      BY <1>1, <2>2
    <3>2. QED
      BY <1>1, <3>1
  <2>5. QED
    BY <1>1, <1>3, <2>3, <2>4
<1>4. QED
  BY <1>2, <1>3

\* The start: no option has been read.
THEOREM InitInv == Init => IInv
<1> SUFFICES ASSUME Init PROVE IInv
  OBVIOUS
<1> USE DEF Init
<1>1. Len(argv) \in Nat
  BY CommandLineAssumption
<1>2. TypeInv
  <2>1. DefaultOptions \in OptionValues
    <3>1. DefaultMs \in Int /\ DefaultMiB \in Nat
      BY ParserAssumption
    <3>2. "required" \in DOMAIN PdOf /\ "max" \in DOMAIN PowerOf
      BY DEF PdOf, PowerOf
    <3>3. FALSE \in BOOLEAN /\ TRUE \in BOOLEAN
      OBVIOUS
    <3>4. QED
      BY <3>1, <3>2, <3>3, SMTT(30) DEF DefaultOptions, OptionValues, CdspDomain
  <2>2. QED
    BY <1>1, <2>1 DEF TypeInv, End
<1>3. ParseInv
  <2>1. \A flag : ValueBefore(argv, flag, 1) = 0
    BY NoneYet DEF ValueBefore
  <2>2. 1 <= Len(argv) => 1 \in ReadAsOption(argv)
    BY Reading
  <2>3. opt.threads = 0 /\ opt.auto /\ opt.iterations = 0
    BY DEF DefaultOptions
  <2>4. opt.auto <=> opt.threads <= 0
    BY <2>3
  <2>5. QED
    BY <2>1, <2>2, <2>3, <2>4 DEF ParseInv
<1>4. CountsInv
  BY <1>3 DEF CountsInv, CountsAsAsked, RunUsable
<1>5. PathsInv
  BY DEF PathsInv, OwnDirectoryIsUsed, Variables
<1>6. QED
  BY <1>2, <1>4, <1>5 DEF IInv

\* Once set, the paths stay.
LEMMA PathsKept ==
    ASSUME PathsInv, UNCHANGED library,
           pc' \in {"parse", "paths"} => pc \in {"parse", "paths"},
           pc' \in {"size", "resolve", "run"} => pc \in {"size", "resolve"}
    PROVE  PathsInv'
<1>1. place' = place /\ env' = env /\ failed' = failed
  BY DEF library
<1>2. (\A v \in Variables :
          env[v] # Users => env[v] = Own(place.exe) /\ Own(place.exe) \in place.skels)'
  BY <1>1 DEF PathsInv, OwnDirectoryIsUsed
<1>3. /\ pc \in {"size", "resolve"} /\ ~failed
      /\ Whole(place.exe) < BufSize
      /\ HasSkel(place.exe, place.skels, Own(place.exe))
      => \A v \in Variables : env[v] = Own(place.exe)
  BY DEF PathsInv
<1>4. pc' = "run" \/ pc' \in {"size", "resolve"} => pc \in {"size", "resolve"}
  OBVIOUS
<1>5. OwnDirectoryIsUsed'
  BY <1>1, <1>2, <1>3, <1>4 DEF OwnDirectoryIsUsed
<1>6. (pc \in {"parse", "paths"} => \A v \in Variables : env[v] = Users)'
  BY <1>1 DEF PathsInv
<1>7. QED
  BY <1>1, <1>3, <1>4, <1>5, <1>6 DEF PathsInv

\* Leaving the process keeps everything it was told.
LEMMA LeaveInv ==
    ASSUME IInv, pc' = "exit", bytes' \in Nat,
           UNCHANGED <<argv, i, opt, hvx, library>>
    PROVE  IInv'
<1>1. TypeInv'
  BY DEF IInv, TypeInv, End
<1>2. CountsInv'
  BY DEF CountsInv, ParseInv, CountsAsAsked, RunUsable
<1>3. PathsInv'
  BY PathsKept DEF IInv
<1>4. QED
  BY <1>1, <1>2, <1>3 DEF IInv

LEMMA TakeValueInv == IInv /\ TakeValue => IInv'
<1> SUFFICES ASSUME IInv, TakeValue PROVE IInv'
  OBVIOUS
<1>1. /\ pc = "parse" /\ i <= Len(argv) /\ argv[i].text \in ValueFlags
      /\ i + 1 <= Len(argv)
      /\ UNCHANGED <<argv, bytes, hvx, library>>
  BY DEF TakeValue, More, HasValue, Word
<1>2. /\ argv \in CommandLines /\ i \in 1..(Len(argv) + 1) /\ opt \in OptionValues
      /\ bytes \in Nat /\ Len(argv) \in Nat
  BY CommandLineAssumption DEF IInv, TypeInv, End
<1>3. argv[i + 1] \in Words
  BY <1>1, <1>2, CommandLineAssumption
<1>4. CASE ~Takes(Word, argv[i + 1])
  BY <1>1, <1>2, <1>4, LeaveInv DEF TakeValue, Leave
<1>5. CASE Takes(Word, argv[i + 1])
  <2> DEFINE flag == argv[i].text
             w == argv[i + 1]
  <2>1. opt' = With(opt, flag, w) /\ i' = i + 2 /\ pc' = "parse"
    BY <1>1, <1>5 DEF TakeValue, Word
  <2>2. opt' \in OptionValues
    BY <1>1, <1>2, <1>3, <1>5, <2>1, WithTyped DEF Word
  <2>3. i \in ReadAsOption(argv)
    BY <1>1 DEF IInv, CountsInv, ParseInv
  <2>4. /\ i + 2 \in 1..(Len(argv) + 1) /\ i + 2 \in Nat
        /\ i + 2 <= Len(argv) => i + 2 \in ReadAsOption(argv)
        /\ \A l \in ReadAsOption(argv) : l < i + 2 <=> l < i \/ l = i
    <3>1. i + 2 - 1 <= Len(argv)
      BY <1>1, <1>2
    <3>2. QED
      BY <1>1, <1>2, <2>3, <3>1, NextOption
  <2>5. TypeInv'
    BY <1>1, <2>1, <2>2, <2>4 DEF IInv, TypeInv, End
  <2>6. /\ opt.threads = ValueBefore(argv, "--threads", i)
        /\ (opt.auto <=> opt.threads <= 0)
        /\ opt.iterations = ValueBefore(argv, "--iterations", i)
    BY <1>1 DEF IInv, CountsInv, ParseInv
  <2>7. \A option : ValueBefore(argv, option, i + 2)
                       = IF flag = option THEN ParseInt(w)
                         ELSE ValueBefore(argv, option, i)
    <3> DEFINE n == i + 2
    <3>1. n \in Nat /\ \A l \in ReadAsOption(argv) : l < n <=> l < i \/ l = i
      BY <2>4
    <3> HIDE DEF n
    <3>2. ASSUME NEW option
          PROVE  ValueBefore(argv, option, n)
                       = IF flag = option THEN ParseInt(w)
                         ELSE ValueBefore(argv, option, i)
      BY <1>2, <2>3, <3>1, ValueHere, ValueElsewhere
    <3>3. QED
      BY <3>2 DEF n
  <2>8. /\ opt'.threads = IF flag = "--threads" THEN ParseInt(w)
                          ELSE opt.threads
        /\ (opt'.auto <=> IF flag = "--threads" THEN (ParseInt(w) <= 0)
                          ELSE opt.auto)
        /\ opt'.iterations = IF flag = "--iterations" THEN ParseInt(w)
                             ELSE opt.iterations
    BY <1>1, <1>2, <2>1, WithCounts, ZenonT(60)
  <2>9. /\ opt'.threads = ValueBefore(argv, "--threads", i + 2)
        /\ (opt'.auto <=> opt'.threads <= 0)
        /\ opt'.iterations = ValueBefore(argv, "--iterations", i + 2)
    BY <2>6, <2>7, <2>8
  <2>10. ParseInv'
    BY <1>1, <2>1, <2>4, <2>9 DEF ParseInv
  <2>11. CountsInv'
    BY <2>1, <2>10 DEF CountsInv, CountsAsAsked, RunUsable
  <2>12. PathsInv'
    BY <1>1, <2>1, PathsKept DEF IInv
  <2>13. QED
    BY <2>5, <2>11, <2>12 DEF IInv
<1>6. QED
  BY <1>4, <1>5

LEMMA ResetInv == IInv /\ Reset => IInv'
<1> SUFFICES ASSUME IInv, Reset PROVE IInv'
  OBVIOUS
<1>1. /\ pc = "parse" /\ pc' = "parse" /\ i <= Len(argv)
      /\ argv[i].text = "--reset"
      /\ opt' = [opt EXCEPT !.reset = TRUE] /\ i' = i + 1
      /\ UNCHANGED <<argv, bytes, hvx, library>>
  BY DEF Reset, More, Word
<1>2. /\ argv \in CommandLines /\ i \in 1..(Len(argv) + 1) /\ opt \in OptionValues
      /\ Len(argv) \in Nat
  BY CommandLineAssumption DEF IInv, TypeInv, End
<1>3. i \in ReadAsOption(argv)
  BY <1>1 DEF IInv, CountsInv, ParseInv
<1>4. /\ i + 1 \in 1..(Len(argv) + 1) /\ i + 1 \in Nat
      /\ i + 1 <= Len(argv) => i + 1 \in ReadAsOption(argv)
      /\ \A l \in ReadAsOption(argv) : l < i + 1 <=> l < i \/ l = i
  <2>1. i + 1 - 1 <= Len(argv) /\ argv[i].text \notin ValueFlags
    BY <1>1, <1>2 DEF ValueFlags, IntFlags
  <2>2. QED
    BY <1>2, <1>3, <2>1, NextOption
<1>5. /\ opt' \in OptionValues /\ opt'.threads = opt.threads
      /\ opt'.auto = opt.auto /\ opt'.iterations = opt.iterations
  BY <1>1, <1>2 DEF OptionValues
<1>6. TypeInv'
  BY <1>1, <1>4, <1>5 DEF IInv, TypeInv, End
<1>7. /\ ValueBefore(argv, "--threads", i + 1) = ValueBefore(argv, "--threads", i)
      /\ ValueBefore(argv, "--iterations", i + 1)
            = ValueBefore(argv, "--iterations", i)
  <2> DEFINE n == i + 1
  <2>1. \A l \in ReadAsOption(argv) : l < n <=> l < i \/ l = i
    BY <1>4
  <2> HIDE DEF n
  <2>2. /\ ValueBefore(argv, "--threads", n) = ValueBefore(argv, "--threads", i)
        /\ ValueBefore(argv, "--iterations", n)
              = ValueBefore(argv, "--iterations", i)
    BY <1>1, <1>3, <2>1, ValueElsewhere
  <2>3. QED
    BY <2>2 DEF n
<1>8. ParseInv'
  BY <1>1, <1>4, <1>5, <1>7 DEF IInv, CountsInv, ParseInv
<1>9. CountsInv'
  BY <1>1, <1>8 DEF CountsInv, CountsAsAsked, RunUsable
<1>10. PathsInv'
  BY <1>1, PathsKept DEF IInv
<1>11. QED
  BY <1>6, <1>9, <1>10 DEF IInv

LEMMA UsageInv == IInv /\ Usage => IInv'
<1> SUFFICES ASSUME IInv, Usage PROVE IInv'
  OBVIOUS
<1>1. pc' = "exit" /\ UNCHANGED <<argv, i, opt, bytes, hvx, library>>
  BY DEF Usage, Leave
<1>2. bytes' \in Nat
  BY <1>1 DEF IInv, TypeInv
<1>3. QED
  BY <1>1, <1>2, LeaveInv

LEMMA ClampInv == IInv /\ Clamp => IInv'
<1> SUFFICES ASSUME IInv, Clamp PROVE IInv'
  OBVIOUS
<1>1. /\ pc = "parse" /\ pc' = "paths" /\ ~(i <= Len(argv))
      /\ opt' = [opt EXCEPT !.minMs = AtLeast(@, 1),
                            !.iterations = AtLeast(@, 0),
                            !.threads = AtMost(@, MaxThreads),
                            !.mib = AtLeast(@, 1)]
      /\ UNCHANGED <<argv, i, bytes, hvx, library>>
  BY DEF Clamp, More
<1>2. /\ argv \in CommandLines /\ i \in 1..(Len(argv) + 1) /\ opt \in OptionValues
      /\ Len(argv) \in Nat
  BY CommandLineAssumption DEF IInv, TypeInv, End
<1>3. i = End
  BY <1>1, <1>2 DEF End
<1>4. /\ opt.threads = ValueBefore(argv, "--threads", End)
      /\ (opt.auto <=> opt.threads <= 0)
      /\ opt.iterations = ValueBefore(argv, "--iterations", End)
  BY <1>1, <1>3 DEF IInv, CountsInv, ParseInv
<1>5. /\ opt.minMs \in Int /\ opt.iterations \in Int /\ opt.threads \in Int
      /\ opt.mib \in Nat /\ MaxThreads \in Int
  BY <1>2, ParserAssumption DEF OptionValues
<1>6. /\ AtLeast(opt.minMs, 1) \in Int /\ AtLeast(opt.minMs, 1) >= 1
      /\ AtLeast(opt.iterations, 0) \in Int
      /\ AtMost(opt.threads, MaxThreads) \in Int
      /\ AtLeast(opt.mib, 1) \in Nat
  BY <1>5 DEF AtLeast, AtMost
<1>7. /\ opt'.minMs = AtLeast(opt.minMs, 1)
      /\ opt'.iterations = AtLeast(opt.iterations, 0)
      /\ opt'.threads = AtMost(opt.threads, MaxThreads)
      /\ opt'.auto = opt.auto
  BY <1>1, <1>2 DEF OptionValues
<1>8. opt' \in OptionValues
  BY <1>1, <1>2, <1>6 DEF OptionValues
<1>9. TypeInv'
  BY <1>1, <1>8 DEF IInv, TypeInv, End
<1>10. End' = End
  BY <1>1 DEF End
<1>11. ParseInv'
  BY <1>1, <1>4, <1>5, <1>6, <1>7, <1>10 DEF ParseInv
<1>12. CountsInv'
  BY <1>1, <1>11 DEF CountsInv, CountsAsAsked, RunUsable
<1>13. PathsInv'
  BY <1>1, PathsKept DEF IInv
<1>14. QED
  BY <1>9, <1>12, <1>13 DEF IInv

LEMMA SetPathsInv == IInv /\ SetPaths => IInv'
<1> SUFFICES ASSUME IInv, SetPaths PROVE IInv'
  OBVIOUS
<1>1. /\ pc = "paths" /\ pc' = "size"
      /\ UNCHANGED <<argv, i, opt, bytes, hvx>>
  BY DEF SetPaths
<1>2. TypeInv'
  BY <1>1 DEF IInv, TypeInv, End
<1>3. CountsInv'
  BY <1>1 DEF IInv, CountsInv, ParseInv, CountsAsAsked, RunUsable, End
<1>4. \A v \in Variables : env[v] = Users
  BY <1>1 DEF IInv, PathsInv
<1>5. PICK p \in Places, windows \in BOOLEAN :
         \E len \in ReadLink(p.exe, windows) :
            /\ place' = p
            /\ \/ /\ ~(Usable(len) /\ HasSkel(p.exe, p.skels, Stripped(p.exe, len)))
                  /\ failed' = (len = Failure)
                  /\ UNCHANGED env
               \/ /\ Usable(len) /\ HasSkel(p.exe, p.skels, Stripped(p.exe, len))
                  /\ \E set \in SUBSET Variables :
                        /\ env' = [v \in Variables |->
                                      IF v \in set THEN Stripped(p.exe, len)
                                      ELSE Users]
                        /\ failed' = (set # Variables)
  BY DEF SetPaths
<1>6. PICK len \in ReadLink(p.exe, windows) :
         /\ place' = p
         /\ \/ /\ ~(Usable(len) /\ HasSkel(p.exe, p.skels, Stripped(p.exe, len)))
               /\ failed' = (len = Failure)
               /\ UNCHANGED env
            \/ /\ Usable(len) /\ HasSkel(p.exe, p.skels, Stripped(p.exe, len))
               /\ \E set \in SUBSET Variables :
                     /\ env' = [v \in Variables |->
                                   IF v \in set THEN Stripped(p.exe, len)
                                   ELSE Users]
                     /\ failed' = (set # Variables)
  BY <1>5
<1>7. /\ Usable(len) => Stripped(p.exe, len) = Own(p.exe)
      /\ Whole(p.exe) < BufSize /\ len # Failure => Usable(len)
  BY UsableIsWhole
<1>8. /\ \A v \in Variables :
            env'[v] # Users => env'[v] = Own(p.exe) /\ Own(p.exe) \in p.skels
      /\ ~failed' /\ Whole(p.exe) < BufSize /\ HasSkel(p.exe, p.skels, Own(p.exe))
         => \A v \in Variables : env'[v] = Own(p.exe)
  <2>1. CASE Usable(len) /\ HasSkel(p.exe, p.skels, Stripped(p.exe, len))
    <3>1. PICK set \in SUBSET Variables :
             /\ env' = [v \in Variables |->
                           IF v \in set THEN Stripped(p.exe, len) ELSE Users]
             /\ failed' = (set # Variables)
      BY <1>6, <2>1
    <3>2. Own(p.exe) \in p.skels
      BY <1>7, <2>1 DEF HasSkel
    <3>3. QED
      BY <1>7, <2>1, <3>1, <3>2
  <2>2. CASE ~(Usable(len) /\ HasSkel(p.exe, p.skels, Stripped(p.exe, len)))
    <3>1. env' = env /\ failed' = (len = Failure)
      BY <1>6, <2>2
    <3>2. QED
      BY <1>4, <1>7, <2>2, <3>1
  <2>3. QED
    BY <2>1, <2>2
<1>9. PathsInv'
  BY <1>1, <1>6, <1>8 DEF PathsInv, OwnDirectoryIsUsed
<1>10. QED
  BY <1>2, <1>3, <1>9 DEF IInv

\* The buffer is whole vectors of what the product keeps in size_t.
LEMMA SizeIsVectors ==
    ASSUME opt.mib \in Nat
    PROVE  Size \in Nat /\ Size % VecBytes = 0
<1> DEFINE product == (opt.mib * MiB) % SizeMod
<1>1. MiB \in Nat /\ SizeMod \in Nat \ {0} /\ VecBytes \in Nat \ {0}
  BY ParserAssumption
<1>2. product \in Nat
  <2>1. opt.mib * MiB \in Nat
    BY <1>1
  <2>2. \A n \in Nat : n % SizeMod \in Nat
    BY <1>1
  <2>3. QED
    BY <2>1, <2>2
<1>3. Size = product - (product % VecBytes)
  BY DEF Size
<1> HIDE DEF product
<1>4. QED
  BY <1>1, <1>2, <1>3, WholeVectors

LEMMA CheckSizeInv == IInv /\ CheckSize => IInv'
<1> SUFFICES ASSUME IInv, CheckSize PROVE IInv'
  OBVIOUS
<1>1. /\ pc = "size" /\ bytes' = Size
      /\ IF Fits(Size) THEN pc' = "resolve" ELSE pc' = "exit"
      /\ UNCHANGED <<argv, i, opt, hvx, library>>
  BY DEF CheckSize, Leave
<1>2. Size \in Nat /\ Size % VecBytes = 0
  BY SizeIsVectors DEF IInv, TypeInv, OptionValues
<1>3. CASE ~Fits(Size)
  BY <1>1, <1>2, <1>3, LeaveInv
<1>4. CASE Fits(Size)
  <2>1. TypeInv'
    BY <1>1, <1>2, <1>4 DEF IInv, TypeInv, End
  <2>2. Fits(bytes') /\ bytes' % VecBytes = 0
    BY <1>1, <1>2, <1>4
  <2>3. ParseInv'
    BY <1>1, <1>4 DEF IInv, CountsInv, ParseInv, End
  <2>4. CountsInv'
    BY <1>1, <1>4, <2>2, <2>3 DEF CountsInv, CountsAsAsked, RunUsable, Fits
  <2>5. PathsInv'
    BY <1>1, <1>4, PathsKept DEF IInv
  <2>6. QED
    BY <2>1, <2>4, <2>5 DEF IInv
<1>5. QED
  BY <1>3, <1>4

\* resolve_thread_count, left to the DSP, gives one thread or a count that the
\* DSP reported, the 128-byte one where an int and the program can use it.
LEMMA AutomaticCount ==
    ASSUME NEW h \in [b64 : HvxCounts, b128 : HvxCounts]
    PROVE  LET n == AtMost(AtLeast(Automatic(h), 1), MaxThreads)
           IN  /\ n \in {1, AtMost(h.b128, MaxThreads), AtMost(h.b64, MaxThreads)}
               /\ n \in 1..MaxThreads
               /\ h.b128 \in 1..MaxThreads => n = h.b128
<1> DEFINE count == IF h.b128 # 0 THEN h.b128 ELSE h.b64
<1>1. /\ h.b64 \in 0..(2 * IntMax + 1) /\ h.b128 \in 0..(2 * IntMax + 1)
      /\ IntMax \in Nat /\ MaxThreads \in 1..IntMax
  BY ParserAssumption
<1>2. count \in 0..(2 * IntMax + 1) /\ count \in {h.b128, h.b64}
  BY <1>1
<1>3. h.b128 \in 1..MaxThreads => count = h.b128 /\ count \in 1..MaxThreads
  BY <1>1
<1>4. Automatic(h) = IF count > 0 THEN Wrapped(count) ELSE 1
  BY DEF Automatic
<1> HIDE DEF count
<1>5. CASE count = 0
  <2>1. Automatic(h) = 1
    BY <1>4, <1>5
  <2>2. QED
    BY <1>1, <1>3, <1>5, <2>1 DEF AtMost, AtLeast
<1>6. CASE count \in 1..IntMax
  <2>1. Automatic(h) = count
    BY <1>1, <1>4, <1>6, WrappedSame
  <2>2. AtMost(AtLeast(Automatic(h), 1), MaxThreads) = AtMost(count, MaxThreads)
    BY <1>6, <2>1 DEF AtLeast
  <2>3. AtMost(count, MaxThreads) \in 1..MaxThreads
    BY <1>1, <1>6 DEF AtMost
  <2>4. h.b128 \in 1..MaxThreads => AtMost(count, MaxThreads) = h.b128
    BY <1>1, <1>3 DEF AtMost
  <2>5. QED
    BY <1>2, <2>2, <2>3, <2>4
<1>7. CASE count \in (IntMax + 1)..(2 * IntMax + 1)
  <2>1. Automatic(h) < 0 /\ Automatic(h) \in Int
    BY <1>1, <1>4, <1>7, WrappedNegative
  <2>2. QED
    BY <1>1, <1>3, <1>7, <2>1 DEF AtMost, AtLeast
<1>8. QED
  BY <1>1, <1>2, <1>5, <1>6, <1>7

LEMMA ResolveInv == IInv /\ Resolve => IInv'
<1> SUFFICES ASSUME IInv, Resolve PROVE IInv'
  OBVIOUS
<1> DEFINE n     == IF opt.auto THEN Automatic(hvx') ELSE opt.threads
           asked == ValueBefore(argv, "--threads", End)
           last  == LastBefore(argv, "--iterations", End)
<1>1. /\ pc = "resolve" /\ pc' = "run"
      /\ hvx' \in [b64 : HvxCounts, b128 : HvxCounts]
      /\ opt' = [opt EXCEPT !.threads = AtMost(AtLeast(n, 1), MaxThreads)]
      /\ UNCHANGED <<argv, i, bytes, library>>
  BY DEF Resolve
<1>2. /\ opt \in OptionValues /\ bytes \in Nat
      /\ MaxThreads \in 1..IntMax /\ IntMax \in Nat
  BY ParserAssumption DEF IInv, TypeInv
<1>3. /\ asked \in Int
      /\ opt.threads = AtMost(asked, MaxThreads)
      /\ (opt.auto <=> asked <= 0)
      /\ opt.iterations = AtLeast(ValueBefore(argv, "--iterations", End), 0)
      /\ ValueBefore(argv, "--iterations", End) \in Int
      /\ opt.minMs >= 1
      /\ Fits(bytes) /\ bytes % VecBytes = 0
  BY <1>1 DEF IInv, CountsInv, ParseInv
<1>4. /\ opt'.threads = AtMost(AtLeast(n, 1), MaxThreads)
      /\ opt'.minMs = opt.minMs /\ opt'.iterations = opt.iterations
  BY <1>1, <1>2 DEF OptionValues
<1>5. ASSUME asked > 0
      PROVE  /\ opt'.threads = AtMost(asked, MaxThreads)
             /\ opt'.threads \in 1..MaxThreads
  <2>1. n = AtMost(asked, MaxThreads)
    BY <1>3, <1>5
  <2>2. QED
    BY <1>2, <1>3, <1>4, <1>5, <2>1 DEF AtMost, AtLeast
<1>6. ASSUME asked <= 0
      PROVE  /\ opt'.threads \in {1, AtMost(hvx'.b128, MaxThreads),
                                  AtMost(hvx'.b64, MaxThreads)}
             /\ opt'.threads \in 1..MaxThreads
             /\ hvx'.b128 \in 1..MaxThreads => opt'.threads = hvx'.b128
  <2>1. n = Automatic(hvx')
    BY <1>3, <1>6
  <2> DEFINE h == hvx'
  <2>2. h \in [b64 : HvxCounts, b128 : HvxCounts]
    BY <1>1
  <2> HIDE DEF h
  <2>3. LET m == AtMost(AtLeast(Automatic(h), 1), MaxThreads)
        IN  /\ m \in {1, AtMost(h.b128, MaxThreads), AtMost(h.b64, MaxThreads)}
            /\ m \in 1..MaxThreads
            /\ h.b128 \in 1..MaxThreads => m = h.b128
    BY <2>2, AutomaticCount
  <2>4. opt'.threads = AtMost(AtLeast(Automatic(h), 1), MaxThreads)
    BY <1>4, <2>1 DEF h
  <2> HIDE DEF n
  <2>5. QED
    BY <2>3, <2>4 DEF h
<1>7. opt'.threads \in 1..MaxThreads
  BY <1>3, <1>5, <1>6
<1> HIDE DEF n
<1>8. last = 0 => opt'.iterations = 0
  <2>1. ASSUME last = 0 PROVE ValueBefore(argv, "--iterations", End) = 0
    BY <2>1 DEF ValueBefore
  <2>2. QED
    BY <1>3, <1>4, <2>1 DEF AtLeast
<1>9. ASSUME last > 0, argv[last + 1].number \in 0..IntMax
      PROVE  opt'.iterations = argv[last + 1].number
  <2>1. last # 0
    BY <1>9
  <2>2. ValueBefore(argv, "--iterations", End) = ParseInt(argv[last + 1])
    BY <2>1 DEF ValueBefore
  <2>3. ParseInt(argv[last + 1]) = argv[last + 1].number
    BY <1>9, ParsedSame
  <2>4. QED
    BY <1>2, <1>3, <1>4, <1>9, <2>2, <2>3 DEF AtLeast
<1>10. End' = End /\ argv' = argv /\ bytes' = bytes
  BY <1>1 DEF End
<1>11. opt'.threads # 0
  BY <1>2, <1>7
<1>12. CountsAsAsked'
  <2> HIDE DEF asked, last
  <2>1. /\ asked > 0 => opt'.threads = AtMost(asked, MaxThreads)
        /\ asked <= 0 =>
              opt'.threads \in {1, AtMost(hvx'.b128, MaxThreads),
                                AtMost(hvx'.b64, MaxThreads)} \ {0}
        /\ asked <= 0 /\ hvx'.b128 \in 1..MaxThreads => opt'.threads = hvx'.b128
        /\ last = 0 => opt'.iterations = 0
        /\ last > 0 /\ argv[last + 1].number \in 0..IntMax
              => opt'.iterations = argv[last + 1].number
    BY <1>5, <1>6, <1>8, <1>9, <1>11
  <2>2. QED
    BY <1>10, <2>1 DEF CountsAsAsked, asked, last
<1>13. RunUsable'
  <2>1. bytes \in 0..IntMax
    BY <1>2, <1>3 DEF Fits
  <2>2. bytes = Wrapped(bytes)
    BY <2>1, WrappedSame
  <2>3. opt'.minMs >= 1 /\ opt'.iterations >= 0
    BY <1>3, <1>4 DEF AtLeast
  <2>4. QED
    BY <1>3, <1>7, <1>10, <2>2, <2>3 DEF RunUsable
<1>14. CountsInv'
  BY <1>1, <1>12, <1>13 DEF CountsInv, ParseInv
<1>15. TypeInv'
  <2>1. opt' \in OptionValues
    <3>1. opt'.threads \in Int
      BY <1>2, <1>7
    <3>2. opt' = [opt EXCEPT !.threads = opt'.threads]
      BY <1>1, <1>4
    <3>3. QED
      BY <1>2, <3>1, <3>2 DEF OptionValues
  <2>2. QED
    BY <1>1, <2>1 DEF IInv, TypeInv, End
<1>16. PathsInv'
  BY <1>1, PathsKept DEF IInv
<1>17. QED
  BY <1>14, <1>15, <1>16 DEF IInv

-----------------------------------------------------------------------------
(* The theorems.                                                           *)

\* Every step of the start of main keeps the invariant.
THEOREM NextInv == IInv /\ [Next]_vars => IInv'
<1> SUFFICES ASSUME IInv, [Next]_vars PROVE IInv'
  OBVIOUS
<1>1. CASE TakeValue
  BY <1>1, TakeValueInv
<1>2. CASE Reset
  BY <1>2, ResetInv
<1>3. CASE Usage
  BY <1>3, UsageInv
<1>4. CASE Clamp
  BY <1>4, ClampInv
<1>5. CASE SetPaths
  BY <1>5, SetPathsInv
<1>6. CASE CheckSize
  BY <1>6, CheckSizeInv
<1>7. CASE Resolve
  BY <1>7, ResolveInv
<1>8. CASE UNCHANGED vars
  <2>1. UNCHANGED <<argv, pc, i, opt, place, env, bytes, hvx, failed>>
    BY <1>8 DEF vars
  <2>2. TypeInv'
    BY <2>1 DEF IInv, TypeInv, End
  <2>3. CountsInv'
    BY <2>1 DEF IInv, CountsInv, ParseInv, CountsAsAsked, RunUsable, End
  <2>4. PathsInv'
    BY <2>1 DEF IInv, PathsInv, OwnDirectoryIsUsed
  <2>5. QED
    BY <2>2, <2>3, <2>4 DEF IInv
<1>9. QED
  BY <1>1, <1>2, <1>3, <1>4, <1>5, <1>6, <1>7, <1>8 DEF Next

\* The options, their place on the command line and the paths are always what
\* the words read so far make of them.
THEOREM Invariance == Spec => []IInv
<1>1. Init => IInv
  BY InitInv
<1>2. IInv /\ [Next]_vars => IInv'
  BY NextInv
<1>3. QED
  BY <1>1, <1>2, PTL DEF Spec

\* The counts of a run are those of the last --threads and --iterations of any
\* command line (cdsp_peak.c:583, 611).
THEOREM LastCountsWin == Spec => []CountsAsAsked
<1>1. IInv => CountsAsAsked
  BY DEF IInv, CountsInv
<1>2. QED
  BY <1>1, Invariance, PTL

\* The numbers of a run are in the ranges the host counts on, whatever was typed
\* and whatever the DSP reports (cdsp_peak.c:1097).
THEOREM NumbersFit == Spec => []RunUsable
<1>1. IInv => RunUsable
  BY DEF IInv, CountsInv
<1>2. QED
  BY <1>1, Invariance, PTL

\* A library path is only set to the executable's own directory, wherever that
\* is and however long its path (cdsp_peak.c:351).
THEOREM OwnDirectory == Spec => []OwnDirectoryIsUsed
<1>1. IInv => OwnDirectoryIsUsed
  BY DEF IInv, PathsInv
<1>2. QED
  BY <1>1, Invariance, PTL
=============================================================================
