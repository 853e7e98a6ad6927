--------------------------- MODULE DwmHooks_proofs ---------------------------
(***************************************************************************)
(* killclient2(): whatever memory new clients are given, a window is      *)
(* closed only by the second press in time for what is at its address, for *)
(* any number of windows and any limit.                                    *)
(*                                                                         *)
(* unescape(): literals and numeric escapes come out as they mean in C, or *)
(* with the first error, for texts of any pieces and any length; and where *)
(* a piece of any text begins, what is written for it takes no more room   *)
(* than what was read.  The recursions of the model, over the digits of a  *)
(* number, the pieces of a text and the text itself, are each given as a   *)
(* history: a function of how far the recursion has come, of which every   *)
(* value follows from the one before.                                      *)
(***************************************************************************)
EXTENDS KillClient2, Unescape, FiniteSetTheorems, SequenceTheorems, TLAPS

(* killclient2() *)

\* A managed window is at its address; what is remembered is the address of the
\* window last pressed for, and the time of that press.
Housed == \A a \in Managed : home[client[a]] = a
Remembered == c # NULL => pressed # NULL /\ c = home[pressed] /\ lastcall = ago

IInv == TypeOK /\ Housed /\ Remembered

-----------------------------------------------------------------------------
\* The invariant holds at first, and every step keeps it.
LEMMA InitIInv == ASSUME Init PROVE IInv
  BY NullAssumption, LimitAssumption
     DEF Init, IInv, TypeOK, Managed, Housed, Remembered

LEMMA NextIInv == ASSUME IInv, [Next]_vars PROVE IInv'
<1> USE NullAssumption, LimitAssumption
<1>1. CASE Tick
  BY <1>1 DEF Tick, IInv, TypeOK, Managed, Housed, Remembered
<1>2. CASE killclient2
  <2>1. sel \in Managed /\ home[client[sel]] = sel
    BY <1>2 DEF killclient2, IInv, TypeOK, Housed
  <2>2. CASE Kills
    BY <1>2, <2>1, <2>2 DEF killclient2, IInv, TypeOK, Managed, Housed, Remembered
  <2>3. CASE ~Kills
    BY <1>2, <2>1, <2>3 DEF killclient2, IInv, TypeOK, Managed, Housed, Remembered
  <2> QED BY <2>2, <2>3
<1>3. ASSUME NEW w \in Window, NEW a \in Address, Open(w, a) PROVE IInv'
  BY <1>3 DEF Open, IInv, TypeOK, Managed, Housed, Remembered
<1>4. ASSUME NEW a \in Address, Close(a) PROVE IInv'
  BY <1>4 DEF Close, IInv, TypeOK, Managed, Housed, Remembered
<1>5. ASSUME NEW a \in Address, Focus(a) PROVE IInv'
  BY <1>5 DEF Focus, IInv, TypeOK, Managed, Housed, Remembered
<1>6. CASE UNCHANGED vars
  BY <1>6 DEF vars, IInv, TypeOK, Managed, Housed, Remembered
<1> QED BY <1>1, <1>2, <1>3, <1>4, <1>5, <1>6 DEF Next

\* What is at the remembered address is the window pressed for, or what took over
\* its memory.
LEMMA SecondPress ==
  ASSUME IInv, Next, asked' # NULL
  PROVE  pressed # NULL /\ ago < Limit /\ Confirms(pressed, asked')
<1>1. killclient2 /\ Kills
  BY DEF Next, Tick, Open, Close, Focus, killclient2
<1>2. asked' = client[c] /\ c \in Managed /\ lastcall < Limit
  BY <1>1 DEF killclient2, Kills, IInv, TypeOK
<1>3. pressed # NULL /\ home[pressed] = c /\ home[client[c]] = c /\ ago < Limit
  BY <1>2, NullAssumption DEF IInv, Housed, Remembered, Managed
<1> QED BY <1>2, <1>3 DEF Confirms

-----------------------------------------------------------------------------
\* In every behaviour killclient2's static variables are the address and the time
\* of the last press, whether or not the window is still there.
THEOREM KillInvariant == Spec => []IInv
<1>1. Init => IInv BY InitIInv
<1>2. IInv /\ [Next]_vars => IInv' BY NextIInv
<1> QED BY <1>1, <1>2, PTL DEF Spec

\* For all windows, addresses and limits, a window is closed only by a second
\* press in time, after one for that window or for the one whose memory it has.
THEOREM SecondPressCloses == Spec => ClosesOnSecondPress
<1>1. IInv /\ [Next]_vars =>
        [asked' # NULL =>
           pressed # NULL /\ ago < Limit /\ Confirms(pressed, asked')]_vars
  BY SecondPress
<1>2. Spec => []IInv BY KillInvariant
<1> QED BY <1>1, <1>2, PTL DEF Spec, ClosesOnSecondPress

-----------------------------------------------------------------------------
(* Numbers, and recursions over them *)

\* Numbers have a smallest one.
LEMMA Smallest ==
  ASSUME NEW T, T \subseteq Nat, T # {}
  PROVE  \E i \in T : \A j \in T : i <= j
<1> DEFINE below == {k \in Nat : \A t \in T : k < t}
           i == Cardinality(below)
<1>1. ASSUME NEW t \in T PROVE IsFiniteSet(below) /\ i <= t
  <2>1. IsFiniteSet(0 .. t - 1) /\ Cardinality(0 .. t - 1) = t
    <3>1. t \in Nat /\ t - 1 \in Int /\ 0 \in Int
      OBVIOUS
    <3>2. Cardinality(0 .. t - 1) = IF 0 > t - 1 THEN 0 ELSE t - 1 - 0 + 1
      BY <3>1, FS_Interval
    <3> QED
      BY <3>1, <3>2, FS_Interval
  <2>2. below \subseteq 0 .. t - 1
    OBVIOUS
  <2> QED
    BY <2>1, <2>2, FS_Subset
<1>2. i \in Nat
  BY <1>1, FS_CardinalityType
<1>3. i \notin below
  <2> SUFFICES ASSUME i \in below PROVE FALSE
    OBVIOUS
  <2>1. IsFiniteSet(0 .. i) /\ Cardinality(0 .. i) = i + 1
    <3> HIDE DEF i
    <3> QED
      BY <1>2, FS_Interval
  <2>2. 0 .. i \subseteq below
    BY <1>2
  <2>3. Cardinality(0 .. i) <= i
    BY <1>1, <2>2, FS_Subset
  <2> HIDE DEF i
  <2> QED
    BY <1>2, <2>1, <2>3
<1>4. PICK t \in T : t <= i
  <2> HIDE DEF i
  <2> QED
    BY <1>2, <1>3
<1>5. i = t
  <2>1. i <= t /\ t \in Nat
    BY <1>1
  <2> HIDE DEF i
  <2> QED
    BY <1>2, <1>4, <2>1
<1> QED
  BY <1>1, <1>5

\* What holds of n and of each number before one it holds of, holds of all up to n.
LEMMA Downward ==
  ASSUME NEW n \in Nat, NEW T, n \in T, \A k \in 1 .. n : k \in T => k - 1 \in T
  PROVE  \A k \in 0 .. n : k \in T
<1> SUFFICES ASSUME NEW m \in 0 .. n, m \notin T PROVE FALSE
  OBVIOUS
<1> DEFINE bad == {j \in 0 .. n : n - j \notin T}
<1>1. bad \subseteq Nat /\ n - m \in bad
  OBVIOUS
<1>2. PICK j \in bad : \A i \in bad : j <= i
  <2> HIDE DEF bad
  <2> QED BY <1>1, Smallest
<1>3. j \in 1 .. n /\ n - j \notin T
  BY <1>2
<1>4. ~(j - 1 \in bad)
  <2>1. ~(j <= j - 1)
    BY <1>3
  <2> HIDE DEF bad
  <2> QED BY <1>2, <2>1
<1>5. n - (j - 1) \in T
  BY <1>3, <1>4
<1>6. n - (j - 1) \in 1 .. n /\ (n - (j - 1)) - 1 = n - j
  BY <1>3
<1> QED BY <1>3, <1>5, <1>6

\* What holds of 0, and of each number after one it holds of, holds of all up to n.
LEMMA Upward ==
  ASSUME NEW n \in Nat, NEW T, 0 \in T, \A k \in 1 .. n : k - 1 \in T => k \in T
  PROVE  \A k \in 0 .. n : k \in T
<1> DEFINE bad == {k \in 0 .. n : k \notin T}
<1> SUFFICES ASSUME bad # {} PROVE FALSE
  OBVIOUS
<1>1. bad \subseteq Nat
  OBVIOUS
<1>2. PICK k \in bad : \A i \in bad : k <= i
  <2> HIDE DEF bad
  <2> QED BY <1>1, Smallest
<1>3. k \in 1 .. n /\ k \notin T
  BY <1>2
<1>4. ~(k - 1 \in bad)
  <2>1. ~(k <= k - 1)
    BY <1>3
  <2> HIDE DEF bad
  <2> QED BY <1>2, <2>1
<1>5. k - 1 \in T
  BY <1>3, <1>4
<1> QED BY <1>3, <1>5

\* A recursion that looks only at what comes before, in an order of finite height.
Grounded(D, A, before, height, step) ==
  /\ A # {} /\ before \in [D -> Nat] /\ height \in Nat
  /\ \A d \in D : before[d] < height
  /\ step \in [[D -> A] -> [D -> A]]
  /\ \A f, g \in [D -> A] : \A d \in D :
       (\A e \in D : before[e] < before[d] => f[e] = g[e]) => step[f][d] = step[g][d]

\* It has a solution.
LEMMA Solution ==
  ASSUME NEW D, NEW A, NEW before, NEW height, NEW step, Grounded(D, A, before, height, step)
  PROVE  \E f \in [D -> A] : f = step[f]
<1> USE DEF Grounded
<1> DEFINE Good == {k \in 0 .. height : \E f \in [D -> A] :
                      \A d \in D : before[d] < k => f[d] = step[f][d]}
<1>1. 0 \in Good
  <2>1. PICK a \in A : TRUE
    OBVIOUS
  <2> DEFINE f == [d \in D |-> a]
  <2>2. f \in [D -> A]
    OBVIOUS
  <2>3. \A d \in D : ~(before[d] < 0)
    OBVIOUS
  <2> HIDE DEF f
  <2> QED BY <2>2, <2>3
<1>2. ASSUME NEW k \in 1 .. height, k - 1 \in Good PROVE k \in Good
  <2>1. PICK f \in [D -> A] : \A d \in D : before[d] < k - 1 => f[d] = step[f][d]
    BY <1>2
  <2>2. step[f] \in [D -> A]
    OBVIOUS
  <2>3. ASSUME NEW d \in D, before[d] < k PROVE step[f][d] = step[step[f]][d]
    <3>1. \A e \in D : before[e] < before[d] => before[e] < k - 1
      BY <2>3
    <3>2. \A e \in D : before[e] < before[d] => f[e] = step[f][e]
      BY <2>1, <3>1
    <3> QED BY <2>2, <3>2
  <2> QED BY <2>2, <2>3
<1>3. height \in Good
  <2> HIDE DEF Good
  <2>1. \A k \in 0 .. height : k \in Good
    BY <1>1, <1>2, Upward
  <2> QED BY <2>1
<1>4. PICK f \in [D -> A] : \A d \in D : f[d] = step[f][d]
  BY <1>3
<1>5. step[f] \in [D -> A]
  OBVIOUS
<1> QED BY <1>4, <1>5

-----------------------------------------------------------------------------
(* Values of digits, runs of bytes and texts, as the histories of the recursions *)
(* that define them                                                              *)

\* Max is the largest of some numbers.
LEMMA LargestOf ==
  ASSUME NEW n \in Nat, NEW S \in SUBSET (1 .. n), S # {}
  PROVE  Max(S) \in S /\ \A i \in S : i <= Max(S)
<1> DEFINE T == {n - i : i \in S}
<1>1. T \subseteq Nat /\ T # {}
  <2>1. ASSUME NEW i \in S PROVE n - i \in Nat
    <3>1. i \in 1 .. n
      OBVIOUS
    <3> QED
      BY <3>1
  <2>2. PICK i : i \in S
    OBVIOUS
  <2>3. n - i \in T
    BY <2>2
  <2> QED
    BY <2>1, <2>3, Zenon
<1>2. PICK t \in T : \A u \in T : t <= u
  <2> HIDE DEF T
  <2> QED
    BY <1>1, Smallest
<1>3. PICK i \in S : t = n - i
  OBVIOUS
<1>4. \A j \in S : i >= j
  BY <1>2, <1>3
<1>5. Max(S) \in S /\ \A y \in S : Max(S) >= y
  BY <1>4 DEF Max
<1> QED
  BY <1>5

\* The largest of the numbers up to n + 1, and those without it.
LEMMA LargestIs ==
  ASSUME NEW n \in Nat
  PROVE  Max(1 .. n + 1) = n + 1 /\ (1 .. n + 1) \ {n + 1} = 1 .. n
<1>1. n + 1 \in Nat /\ n + 1 \in 1 .. n + 1 /\ 1 .. n + 1 \in SUBSET (1 .. n + 1)
  OBVIOUS
<1>2. Max(1 .. n + 1) \in 1 .. n + 1 /\ n + 1 <= Max(1 .. n + 1)
  BY <1>1, LargestOf
<1>3. Max(1 .. n + 1) = n + 1
  BY <1>2
<1>4. ASSUME NEW i PROVE i \in (1 .. n + 1) \ {n + 1} <=> i \in 1 .. n
  OBVIOUS
<1> QED BY <1>3, <1>4

\* A value is that of the digits but the last, and the last.
LEMMA ValueRuns ==
  ASSUME NEW n \in Nat, NEW s \in [1 .. n -> HexDigits], NEW base \in {8, 16}
  PROVE  \E h \in [0 .. n -> Nat] :
           /\ h[0] = 0 /\ h[n] = Value(s, base)
           /\ \A k \in 1 .. n : h[k] = base * h[k - 1] + DigitValue(s[k])
<1> DEFINE Sum(v, S) == base * v + DigitValue(s[Max(S)])
           D == SUBSET (1 .. n)
           Step(f) == [S \in SUBSET (DOMAIN s) |->
                         IF S = {} THEN 0 ELSE base * f[S \ {Max(S)}] + DigitValue(s[Max(S)])]
           before == [S \in D |-> IF S = {} THEN 0 ELSE Max(S)]
           step == [f \in [D -> Nat] |-> Step(f)]
<1>1. \A S \in D : S # {} => /\ Max(S) \in 1 .. n /\ S \ {Max(S)} \in D
                             /\ DigitValue(s[Max(S)]) \in Nat
  <2> SUFFICES ASSUME NEW S \in D, S # {}
               PROVE  /\ Max(S) \in 1 .. n /\ S \ {Max(S)} \in D
                      /\ DigitValue(s[Max(S)]) \in Nat
    OBVIOUS
  <2>1. Max(S) \in 1 .. n
    BY LargestOf
  <2>2. s[Max(S)] \in HexDigits
    BY <2>1
  <2>3. DigitValue(s[Max(S)]) \in Nat
    <3> DEFINE x == s[Max(S)]
    <3>1. x \in HexDigits
      BY <2>2
    <3> HIDE DEF x
    <3>2. DigitValue(x) \in Nat
      BY <3>1 DEF DigitValue, HexDigits
    <3> QED BY <3>2 DEF x
  <2>4. S \ {Max(S)} \in D
    OBVIOUS
  <2> QED BY <2>1, <2>3, <2>4
<1>2. ASSUME NEW S \in D, S # {} PROVE before[S \ {Max(S)}] < before[S]
  <2>1. S \ {Max(S)} \in D /\ before[S] = Max(S) /\ Max(S) \in 1 .. n
    BY <1>1, <1>2
  <2>2. CASE S \ {Max(S)} = {}
    BY <2>1, <2>2
  <2>3. CASE S \ {Max(S)} # {}
    <3> DEFINE T == S \ {Max(S)}
    <3>1. T \in D /\ T # {} /\ Max(S) \in 1 .. n
      BY <2>1, <2>3
    <3>2. before[T] = Max(T)
      BY <3>1
    <3>3. Max(T) \in T
      BY <3>1, LargestOf
    <3>4. Max(T) <= Max(S) /\ Max(T) # Max(S) /\ Max(T) \in 1 .. n
      BY <1>2, <3>3, LargestOf
    <3> HIDE DEF T, before, D
    <3>5. before[T] < before[S]
      BY <2>1, <3>1, <3>2, <3>4
    <3> QED BY <3>5 DEF T
  <2> QED BY <2>2, <2>3
<1>3. before \in [D -> Nat] /\ \A S \in D : before[S] < n + 1
  BY <1>1
<1>4. step \in [[D -> Nat] -> [D -> Nat]]
  <2>1. ASSUME NEW f \in [D -> Nat] PROVE Step(f) \in [D -> Nat]
    <3>1. \A S \in D : S # {} => f[S \ {Max(S)}] \in Nat /\ DigitValue(s[Max(S)]) \in Nat
      BY <1>1
    <3>2. \A v \in Nat, w \in Nat : base * v + w \in Nat
      OBVIOUS
    <3>3. \A S \in D : (IF S = {} THEN 0 ELSE base * f[S \ {Max(S)}] + DigitValue(s[Max(S)])) \in Nat
      BY <3>1, <3>2
    <3> QED BY <3>3
  <2> HIDE DEF Step
  <2> QED BY <2>1
<1>5. ASSUME NEW f \in [D -> Nat], NEW g \in [D -> Nat], NEW S \in D,
             \A T \in D : before[T] < before[S] => f[T] = g[T]
      PROVE  step[f][S] = step[g][S]
  <2>1. S # {} => f[S \ {Max(S)}] = g[S \ {Max(S)}]
    BY <1>1, <1>2, <1>5
  <2>2. step[f][S] = Step(f)[S] /\ step[g][S] = Step(g)[S]
    OBVIOUS
  <2>3. \A e \in [D -> Nat] : Step(e)[S] = IF S = {} THEN 0 ELSE base * e[S \ {Max(S)}] + DigitValue(s[Max(S)])
    OBVIOUS
  <2> HIDE DEF Step, step
  <2> QED BY <2>1, <2>2, <2>3
<1>6. PICK f \in [D -> Nat] : f = step[f]
  <2>1. Nat # {} /\ n + 1 \in Nat
    OBVIOUS
  <2> HIDE DEF D, before, step
  <2>2. \A e, g \in [D -> Nat] : \A S \in D :
          (\A T \in D : before[T] < before[S] => e[T] = g[T]) => step[e][S] = step[g][S]
    BY <1>5
  <2>3. Grounded(D, Nat, before, n + 1, step)
    BY <1>3, <1>4, <2>1, <2>2 DEF Grounded
  <2> QED BY <2>3, Solution
<1>7. f = Step(f)
  BY <1>6
<1> DEFINE g == CHOOSE f_1 : f_1 = Step(f_1)
<1>8. g = Step(g)
  BY <1>7, Zenon
<1> DEFINE value == Value(s, base)
<1>9. value = g[1 .. n]
  <2>1. value = g[DOMAIN s]
    BY Zenon DEF Value, FoldLeft, MapThenFoldSet
  <2> HIDE DEF g, value
  <2> QED
    BY <2>1
<1> HIDE DEF g
<1> DEFINE h == [k \in 0 .. n |-> g[1 .. k]]
<1>10. \A S \in D : g[S] = IF S = {} THEN 0 ELSE base * g[S \ {Max(S)}] + DigitValue(s[Max(S)])
  BY <1>8
<1>11. h[0] = 0
  <2>1. 1 .. 0 = {}
    OBVIOUS
  <2>2. {} \in D /\ h[0] = g[1 .. 0]
    OBVIOUS
  <2> HIDE DEF h
  <2> QED BY <1>10, <2>1, <2>2
<1>12. ASSUME NEW k \in 1 .. n
       PROVE  /\ h[k] = base * h[k - 1] + DigitValue(s[k])
              /\ DigitValue(s[k]) \in Nat
  <2>1. 1 .. k \in D /\ 1 .. k # {} /\ k - 1 \in Nat /\ (k - 1) + 1 = k
    OBVIOUS
  <2>2. Max(1 .. k) = k /\ (1 .. k) \ {k} = 1 .. k - 1
    BY <2>1, LargestIs
  <2>3. h[k] = g[1 .. k] /\ h[k - 1] = g[1 .. k - 1]
    OBVIOUS
  <2> HIDE DEF h
  <2>4. DigitValue(s[k]) \in Nat
    BY <1>1, <2>1, <2>2
  <2>5. g[1 .. k] = base * g[(1 .. k) \ {k}] + DigitValue(s[k])
    BY <1>10, <2>1, <2>2
  <2> QED BY <2>2, <2>3, <2>4, <2>5
<1>13. \A k \in 0 .. n : h[k] \in Nat
  <2> DEFINE T == {k \in 0 .. n : h[k] \in Nat}
  <2>1. 0 \in T
    BY <1>11
  <2>2. ASSUME NEW k \in 1 .. n, k - 1 \in T PROVE k \in T
    <3> HIDE DEF h
    <3>1. h[k - 1] \in Nat
      BY <2>2
    <3>2. base * h[k - 1] \in Nat
      BY <3>1
    <3> QED BY <1>12, <3>2
  <2>3. \A k \in 0 .. n : k \in T
    <3> HIDE DEF T
    <3> QED BY <2>1, <2>2, Upward
  <2> HIDE DEF h
  <2> QED BY <2>3
<1>14. h \in [0 .. n -> Nat] /\ h[n] = value
  BY <1>9, <1>13
<1> HIDE DEF h
<1> QED BY <1>11, <1>12, <1>14

\* A value does not become smaller with further digits.
LEMMA ValueGrows ==
  ASSUME NEW n \in Nat, NEW s \in [1 .. n -> HexDigits], NEW k \in 0 .. n,
         NEW t \in [1 .. k -> HexDigits], \A i \in 1 .. k : t[i] = s[i],
         NEW base \in {8, 16}
  PROVE  Value(s, base) \in Nat /\ Value(t, base) <= Value(s, base)
<1>1. PICK h \in [0 .. n -> Nat] :
        /\ h[0] = 0 /\ h[n] = Value(s, base)
        /\ \A j \in 1 .. n : h[j] = base * h[j - 1] + DigitValue(s[j])
  BY ValueRuns
<1>2. k \in Nat
  OBVIOUS
<1>3. PICK g \in [0 .. k -> Nat] :
        /\ g[0] = 0 /\ g[k] = Value(t, base)
        /\ \A j \in 1 .. k : g[j] = base * g[j - 1] + DigitValue(t[j])
  BY <1>2, ValueRuns
<1>4. g[k] = h[k]
  <2> DEFINE T == {j \in 0 .. k : g[j] = h[j]}
  <2>1. 0 \in T
    BY <1>1, <1>3
  <2>2. ASSUME NEW j \in 1 .. k, j - 1 \in T PROVE j \in T
    <3>1. g[j - 1] = h[j - 1] /\ j \in 1 .. n /\ t[j] = s[j]
      BY <2>2
    <3> QED BY <1>1, <1>3, <3>1
  <2>3. \A j \in 0 .. k : j \in T
    <3> HIDE DEF T
    <3> QED BY <1>2, <2>1, <2>2, Upward
  <2> QED BY <2>3
<1>5. ASSUME NEW j \in 1 .. n PROVE h[j - 1] <= h[j]
  <2>1. h[j - 1] \in Nat /\ h[j] = base * h[j - 1] + DigitValue(s[j])
    BY <1>1
  <2>2. DigitValue(s[j]) \in Nat
    <3> DEFINE x == s[j]
    <3>1. x \in HexDigits
      OBVIOUS
    <3> HIDE DEF x
    <3>2. DigitValue(x) \in Nat
      BY <3>1 DEF DigitValue, HexDigits
    <3> QED BY <3>2 DEF x
  <2>3. h[j - 1] <= base * h[j - 1] /\ base * h[j - 1] \in Nat
    BY <2>1
  <2> QED BY <2>1, <2>2, <2>3
<1>6. h[k] <= h[n]
  <2> DEFINE T == {j \in 0 .. n : j < k \/ h[k] <= h[j]}
  <2>1. 0 \in T
    <3>1. k = 0 => h[k] <= h[0]
      BY <1>1
    <3> QED BY <1>2, <3>1
  <2>2. ASSUME NEW j \in 1 .. n, j - 1 \in T PROVE j \in T
    <3>1. CASE j <= k
      BY <3>1
    <3>2. CASE j > k
      <4>1. h[k] <= h[j - 1] /\ h[k] \in Nat /\ h[j - 1] \in Nat /\ h[j] \in Nat
        BY <2>2, <3>2
      <4> QED BY <1>5, <4>1
    <3> QED BY <3>1, <3>2
  <2>3. \A j \in 0 .. n : j \in T
    <3> HIDE DEF T
    <3> QED BY <2>1, <2>2, Upward
  <2> QED BY <2>3
<1> QED BY <1>1, <1>3, <1>4, <1>6

\* How many bytes of a set there are.
LEMMA RunIs ==
  ASSUME NEW text, NEW i \in Nat, NEW set, NEW limit \in Nat, NEW n \in 0 .. limit,
         \A k \in 0 .. n - 1 : At(text, i + k) \in set,
         n < limit => At(text, i + n) \notin set
  PROVE  Run(text, i, set, limit) = n
<1> DEFINE Is(m) == /\ \A k \in 0 .. m - 1 : At(text, i + k) \in set
                    /\ m < limit => At(text, i + m) \notin set
<1>1. Is(n)
  OBVIOUS
<1>2. ASSUME NEW m \in 0 .. limit, Is(m) PROVE m = n
  <2>1. CASE m < n
    <3>1. m \in 0 .. n - 1 /\ m < limit
      BY <2>1
    <3> QED BY <1>2, <3>1
  <2>2. CASE n < m
    <3>1. n \in 0 .. m - 1 /\ n < limit
      BY <2>2
    <3> QED BY <1>2, <3>1
  <2> QED BY <2>1, <2>2
<1>3. (CHOOSE m \in 0 .. limit : Is(m)) = n
  <2> HIDE DEF Is
  <2> QED BY <1>1, <1>2
<1> QED BY <1>3, Zenon DEF Run

\* Whatever there is, some number of bytes of a set there is.
LEMMA RunExists ==
  ASSUME NEW text, NEW i \in Nat, NEW set, NEW limit \in Nat
  PROVE  /\ Run(text, i, set, limit) \in 0 .. limit
         /\ \A k \in 0 .. Run(text, i, set, limit) - 1 : At(text, i + k) \in set
<1> DEFINE T == {k \in 0 .. limit : \A j \in 0 .. k - 1 : At(text, i + j) \in set}
<1>1. CASE limit \in T
  <2>1. Run(text, i, set, limit) = limit
    <3>1. limit \in 0 .. limit /\ ~(limit < limit)
      OBVIOUS
    <3>2. \A k \in 0 .. limit - 1 : At(text, i + k) \in set
      BY <1>1
    <3> QED BY <3>1, <3>2, RunIs
  <2> QED BY <1>1, <2>1
<1>2. CASE limit \notin T
  <2>1. 0 \in T
    OBVIOUS
  <2>2. PICK k \in 1 .. limit : k - 1 \in T /\ k \notin T
    <3> HIDE DEF T
    <3> QED BY <1>2, <2>1, Upward
  <2>3. At(text, i + (k - 1)) \notin set
    <3>1. PICK j \in 0 .. k - 1 : At(text, i + j) \notin set
      BY <2>2
    <3>2. j \notin 0 .. (k - 1) - 1
      BY <2>2, <3>1
    <3>3. j = k - 1
      BY <3>2
    <3> QED BY <3>1, <3>3
  <2>4. k - 1 \in 0 .. limit /\ \A j \in 0 .. (k - 1) - 1 : At(text, i + j) \in set
    BY <2>2
  <2>5. Run(text, i, set, limit) = k - 1
    BY <2>3, <2>4, RunIs
  <2> QED BY <2>4, <2>5
<1> QED BY <1>1, <1>2

\* A text grows piece by piece.
LEMMA FlattenRuns ==
  ASSUME NEW n \in Nat \ {0}, NEW seqs \in [1 .. n -> Seq(Nat)]
  PROVE  \E h \in [0 .. n -> Seq(Nat)] :
           /\ h[0] = <<>> /\ h[n] = FlattenSeq(seqs)
           /\ \A k \in 1 .. n : h[k] = h[k - 1] \o seqs[k]
<1> DEFINE D == 1 .. n
           Step(f) == [i \in 1 .. Len(seqs) |-> IF i = 1 THEN seqs[i] ELSE f[i - 1] \o seqs[i]]
           before == [i \in D |-> i]
           step == [f \in [D -> Seq(Nat)] |-> Step(f)]
<1>1. Len(seqs) = n /\ seqs \in Seq(Seq(Nat))
  OBVIOUS
<1>2. step \in [[D -> Seq(Nat)] -> [D -> Seq(Nat)]]
  <2>1. ASSUME NEW f \in [D -> Seq(Nat)] PROVE Step(f) \in [D -> Seq(Nat)]
    <3>1. \A i \in D : i # 1 => i - 1 \in D
      OBVIOUS
    <3>2. \A i \in D : (IF i = 1 THEN seqs[i] ELSE f[i - 1] \o seqs[i]) \in Seq(Nat)
      BY <3>1
    <3> QED BY <1>1, <3>2
  <2> HIDE DEF Step
  <2> QED BY <2>1
<1>3. ASSUME NEW f \in [D -> Seq(Nat)], NEW g \in [D -> Seq(Nat)], NEW i \in D,
             \A j \in D : before[j] < before[i] => f[j] = g[j]
      PROVE  step[f][i] = step[g][i]
  <2>1. i # 1 => i - 1 \in D /\ before[i - 1] < before[i]
    OBVIOUS
  <2>2. i # 1 => f[i - 1] = g[i - 1]
    BY <1>3, <2>1
  <2>3. \A e \in [D -> Seq(Nat)] : step[e][i] = IF i = 1 THEN seqs[i] ELSE e[i - 1] \o seqs[i]
    BY <1>1
  <2> HIDE DEF step
  <2> QED BY <2>2, <2>3
<1>4. before \in [D -> Nat] /\ \A i \in D : before[i] < n + 1
  OBVIOUS
<1>5. PICK f \in [D -> Seq(Nat)] : f = step[f]
  <2>1. Seq(Nat) # {} /\ n + 1 \in Nat
    OBVIOUS
  <2> HIDE DEF D, before, step
  <2>2. \A e, g \in [D -> Seq(Nat)] : \A i \in D :
          (\A j \in D : before[j] < before[i] => e[j] = g[j]) => step[e][i] = step[g][i]
    BY <1>3
  <2>3. Grounded(D, Seq(Nat), before, n + 1, step)
    BY <1>2, <1>4, <2>1, <2>2 DEF Grounded
  <2> QED BY <2>3, Solution
<1>6. f = Step(f)
  BY <1>5
<1> DEFINE g == CHOOSE f_1 : f_1 = Step(f_1)
<1>7. g = Step(g)
  BY <1>6, Zenon
<1> DEFINE value == FlattenSeq(seqs)
<1>8. value = g[n]
  <2>1. Len(seqs) # 0
    BY <1>1
  <2>2. value = g[Len(seqs)]
    BY <2>1, Zenon DEF FlattenSeq
  <2> HIDE DEF g, value
  <2> QED
    BY <1>1, <2>2
<1> HIDE DEF g
<1>9. \A i \in D : g[i] = IF i = 1 THEN seqs[i] ELSE g[i - 1] \o seqs[i]
  BY <1>1, <1>7
<1> DEFINE h == [k \in 0 .. n |-> IF k = 0 THEN <<>> ELSE g[k]]
<1>10. ASSUME NEW k \in 1 .. n PROVE h[k] = h[k - 1] \o seqs[k]
  <2>1. h[k] = g[k] /\ (k # 1 => h[k - 1] = g[k - 1]) /\ (k = 1 => h[k - 1] = <<>>)
    OBVIOUS
  <2>2. seqs[k] \in Seq(Nat) /\ <<>> \o seqs[k] = seqs[k]
    OBVIOUS
  <2> HIDE DEF h
  <2> QED BY <1>9, <2>1, <2>2
<1>11. \A k \in 0 .. n : h[k] \in Seq(Nat)
  <2> DEFINE T == {k \in 0 .. n : h[k] \in Seq(Nat)}
  <2>1. 0 \in T
    OBVIOUS
  <2>2. ASSUME NEW k \in 1 .. n, k - 1 \in T PROVE k \in T
    <3>1. h[k - 1] \in Seq(Nat) /\ seqs[k] \in Seq(Nat) /\ k \in 0 .. n
      BY <2>2
    <3> HIDE DEF h
    <3>2. h[k - 1] \o seqs[k] \in Seq(Nat)
      BY <3>1
    <3> QED BY <1>10, <3>1, <3>2
  <2>3. \A k \in 0 .. n : k \in T
    <3> HIDE DEF T
    <3> QED BY <2>1, <2>2, Upward
  <2> HIDE DEF h
  <2> QED BY <2>3
<1>12. h \in [0 .. n -> Seq(Nat)] /\ h[n] = value /\ h[0] = <<>>
  BY <1>8, <1>11
<1> HIDE DEF h
<1> QED BY <1>10, <1>12

\* What a text begins with stays.
LEMMA FlattenKeeps ==
  ASSUME NEW n \in Nat, NEW seqs \in [1 .. n -> Seq(Nat)], NEW h \in [0 .. n -> Seq(Nat)],
         \A k \in 1 .. n : h[k] = h[k - 1] \o seqs[k]
  PROVE  \A k \in 0 .. n : /\ Len(h[k]) <= Len(h[n])
                           /\ \A i \in 1 .. Len(h[k]) : h[n][i] = h[k][i]
<1> DEFINE T == {k \in 0 .. n : /\ Len(h[k]) <= Len(h[n])
                                /\ \A i \in 1 .. Len(h[k]) : h[n][i] = h[k][i]}
<1>1. n \in T
  OBVIOUS
<1>2. ASSUME NEW k \in 1 .. n, k \in T PROVE k - 1 \in T
  <2>1. /\ h[k - 1] \in Seq(Nat) /\ seqs[k] \in Seq(Nat) /\ h[k] = h[k - 1] \o seqs[k]
        /\ h[n] \in Seq(Nat)
    OBVIOUS
  <2>2. Len(h[k]) = Len(h[k - 1]) + Len(seqs[k])
    BY <2>1
  <2>3. \A i \in 1 .. Len(h[k - 1]) : h[k][i] = h[k - 1][i]
    BY <2>1
  <2>4. Len(h[k]) <= Len(h[n]) /\ \A i \in 1 .. Len(h[k]) : h[n][i] = h[k][i]
    BY <1>2
  <2>5. Len(h[k - 1]) \in Nat /\ Len(seqs[k]) \in Nat /\ Len(h[n]) \in Nat
    BY <2>1
  <2>6. Len(h[k - 1]) <= Len(h[k])
    BY <2>2, <2>5
  <2>7. \A i \in 1 .. Len(h[k - 1]) : h[n][i] = h[k - 1][i]
    BY <2>2, <2>3, <2>4, <2>5
  <2> QED BY <2>4, <2>5, <2>6, <2>7, <2>2
<1> HIDE DEF T
<1>3. \A k \in 0 .. n : k \in T
  BY <1>1, <1>2, Downward
<1> QED BY <1>3 DEF T

-----------------------------------------------------------------------------
(* UTF-8 *)

\* A code point with the parts of six bits it has, the first of which may be any number.
TwoParts(v, p, q) ==
  /\ v \in Nat /\ p \in Int /\ q \in 0 .. 63
  /\ 128 <= v /\ v < 2048 /\ v = 64 * p + q
ThreeParts(v, p, q, r) ==
  /\ v \in Nat /\ p \in Int /\ q \in 0 .. 63 /\ r \in 0 .. 63
  /\ 2048 <= v /\ v < 65536 /\ v = 4096 * p + 64 * q + r
FourParts(v, o, p, q, r) ==
  /\ v \in Nat /\ o \in Int /\ p \in 0 .. 63 /\ q \in 0 .. 63 /\ r \in 0 .. 63
  /\ 65536 <= v /\ v <= 1114111 /\ v = 262144 * o + 4096 * p + 64 * q + r

\* UTF-8 of two bytes is a code point in parts, and one in parts has that UTF-8.
LEMMA PointOfTwo ==
  ASSUME NEW v, NEW p, NEW q, TwoParts(v, p, q)
  PROVE  Six(v, 6) = p /\ Six(v, 0) = q
<1> USE DEF TwoParts
<1>1. p \in Nat /\ p < 64
  OBVIOUS
<1>2. (v \div 64) % 64 = p
  BY <1>1
<1> QED BY <1>2 DEF Six

\* The same for three bytes.
LEMMA PointOfThree ==
  ASSUME NEW v, NEW p, NEW q, NEW r, ThreeParts(v, p, q, r)
  PROVE  Six(v, 12) = p /\ Six(v, 6) = q /\ Six(v, 0) = r
<1> USE DEF ThreeParts
<1>1. p \in Nat /\ p < 64
  OBVIOUS
<1>2. (v \div 4096) % 64 = p
  BY <1>1
<1>3. (v \div 64) % 64 = q
  <2>1. v \div 64 = 64 * p + q
    BY <1>1
  <2>2. (64 * p + q) % 64 = q
    BY <1>1
  <2> QED BY ONLY <2>1, <2>2
<1>4. Six(v, 12) = p
  BY ONLY <1>2 DEF Six
<1>5. Six(v, 6) = q
  BY ONLY <1>3 DEF Six
<1>6. Six(v, 0) = r
  BY DEF Six
<1> QED BY <1>4, <1>5, <1>6

\* The same for four bytes.
LEMMA PointOfFour ==
  ASSUME NEW v, NEW o, NEW p, NEW q, NEW r, FourParts(v, o, p, q, r)
  PROVE  Six(v, 18) = o /\ Six(v, 12) = p /\ Six(v, 6) = q /\ Six(v, 0) = r
<1> USE DEF FourParts
<1>1. o \in Nat /\ o < 64
  OBVIOUS
<1>2. (v \div 262144) % 64 = o
  BY <1>1
<1>3. (v \div 4096) % 64 = p
  <2>1. v \div 4096 = 64 * o + p
    BY <1>1
  <2>2. (64 * o + p) % 64 = p
    BY <1>1
  <2> QED BY ONLY <2>1, <2>2
<1>4. (v \div 64) % 64 = q
  <2>1. v \div 64 = 4096 * o + 64 * p + q
    BY <1>1
  <2>2. (4096 * o + 64 * p + q) % 64 = q
    BY <1>1
  <2> QED BY ONLY <2>1, <2>2
<1>5. Six(v, 18) = o
  BY ONLY <1>2 DEF Six
<1>6. Six(v, 12) = p
  BY ONLY <1>3 DEF Six
<1>7. Six(v, 6) = q
  BY ONLY <1>4 DEF Six
<1>8. Six(v, 0) = r
  BY DEF Six
<1> QED BY <1>5, <1>6, <1>7, <1>8

\* A sequence of few bytes, written down.
LEMMA Element == ASSUME NEW b, b \in Seq(Nat), NEW i \in 1 .. Len(b) PROVE b[i] \in Nat
OBVIOUS

\* Two bytes are their sequence.
LEMMA Two ==
  ASSUME NEW b, b \in Seq(Nat), Len(b) = 2
  PROVE  b = <<b[1], b[2]>>
<1>1. b[1] \in Nat /\ b[2] \in Nat
  <2>1. 1 \in 1 .. Len(b) /\ 2 \in 1 .. Len(b)
    OBVIOUS
  <2> QED BY <2>1, Element
<1> DEFINE whole == <<b[1], b[2]>>
<1>2. whole \in Seq(Nat) /\ Len(whole) = 2
  BY <1>1
<1>3. \A i \in 1 .. 2 : whole[i] = b[i]
  OBVIOUS
<1> HIDE DEF whole
<1>4. whole = b
  BY <1>2, <1>3, SeqEqual
<1> QED BY <1>4 DEF whole

\* So are three.
LEMMA Three ==
  ASSUME NEW b, b \in Seq(Nat), Len(b) = 3
  PROVE  b = <<b[1], b[2], b[3]>>
<1>1. b[1] \in Nat /\ b[2] \in Nat /\ b[3] \in Nat
  <2>1. 1 \in 1 .. Len(b) /\ 2 \in 1 .. Len(b) /\ 3 \in 1 .. Len(b)
    OBVIOUS
  <2> QED BY <2>1, Element
<1> DEFINE whole == <<b[1], b[2], b[3]>>
<1>2. whole \in Seq(Nat) /\ Len(whole) = 3
  BY <1>1
<1>3. \A i \in 1 .. 3 : whole[i] = b[i]
  OBVIOUS
<1> HIDE DEF whole
<1>4. whole = b
  BY <1>2, <1>3, SeqEqual
<1> QED BY <1>4 DEF whole

\* So are four.
LEMMA Four ==
  ASSUME NEW b, b \in Seq(Nat), Len(b) = 4
  PROVE  b = <<b[1], b[2], b[3], b[4]>>
<1>1. b[1] \in Nat /\ b[2] \in Nat /\ b[3] \in Nat /\ b[4] \in Nat
  <2>1. 1 \in 1 .. Len(b) /\ 2 \in 1 .. Len(b) /\ 3 \in 1 .. Len(b) /\ 4 \in 1 .. Len(b)
    OBVIOUS
  <2> QED BY <2>1, Element
<1> DEFINE whole == <<b[1], b[2], b[3], b[4]>>
<1>2. whole \in Seq(Nat) /\ Len(whole) = 4
  BY <1>1
<1>3. \A i \in 1 .. 4 : whole[i] = b[i]
  OBVIOUS
<1> HIDE DEF whole
<1>4. whole = b
  BY <1>2, <1>3, SeqEqual
<1> QED BY <1>4 DEF whole

\* The first byte.
LEMMA First ==
  ASSUME NEW b, b \in Seq(Nat), 1 <= Len(b) PROVE b[1] \in Nat
<1>1. Len(b) \in Nat
  OBVIOUS
<1>2. 1 \in 1 .. Len(b)
  BY <1>1
<1> QED BY <1>2, Element

\* The bytes of a code point are those that are written for it.
LEMMA BytesAreUTF8 ==
  ASSUME NEW b, b \in Seq(Nat), NEW v \in Nat, UTF8(b, v)
  PROVE  Bytes(v) = b
<1>1. \A i \in 2 .. Len(b) : b[i] \in 128 .. 191
  BY DEF UTF8
<1>2. CASE v < 128
  <2>1. b = <<v>>
    BY <1>2 DEF UTF8
  <2>2. Bytes(v) = <<v>>
    BY <1>2 DEF Bytes
  <2> QED BY <2>1, <2>2
<1>3. CASE 128 <= v /\ v < 2048
  <2>2. /\ Len(b) = 2
        /\ v = 64 * (b[1] - 192) + (b[2] - 128)
    BY <1>3 DEF UTF8
  <2>3. b = <<b[1], b[2]>> /\ b[1] \in Nat
    BY <2>2, Two, First
  <2>4. b[2] \in 128 .. 191
    <3>1. 2 \in 2 .. Len(b)
      BY <2>2
    <3> QED BY <1>1, <3>1
  <2> DEFINE x == b[1]
             y == b[2]
  <2>5. /\ x \in Int /\ y \in 128 .. 191
        /\ v = 64 * (x - 192) + (y - 128)
    BY <2>2, <2>3, <2>4
  <2>6. b = <<x, y>>
    BY <2>3
  <2> HIDE DEF x, y
  <2> DEFINE p == x - 192
             q == y - 128
  <2>7. /\ p \in Int /\ q \in 0 .. 63
        /\ v = 64 * p + q
    BY <2>5
  <2>11. x = 192 + p /\ y = 128 + q
    BY <2>5
  <2> HIDE DEF p, q
  <2>8. Six(v, 6) = p /\ Six(v, 0) = q
    <3>1. TwoParts(v, p, q)
      BY <1>3, <2>7 DEF TwoParts
    <3> QED BY <3>1, PointOfTwo, Zenon
  <2>9. x = 192 + Six(v, 6) /\ y = 128 + Six(v, 0)
    BY ONLY <2>8, <2>11
  <2>10. Bytes(v) = <<192 + Six(v, 6), 128 + Six(v, 0)>>
    BY <1>3 DEF Bytes
  <2> QED BY <2>6, <2>9, <2>10, Zenon
<1>4. CASE 2048 <= v /\ v < 65536
  <2>2. /\ Len(b) = 3
        /\ v = 4096 * (b[1] - 224) + 64 * (b[2] - 128) + (b[3] - 128)
    BY <1>4 DEF UTF8
  <2>3. b = <<b[1], b[2], b[3]>> /\ b[1] \in Nat
    BY <2>2, Three, First
  <2>4. b[2] \in 128 .. 191 /\ b[3] \in 128 .. 191
    <3>1. 2 \in 2 .. Len(b) /\ 3 \in 2 .. Len(b)
      BY <2>2
    <3> QED BY <1>1, <3>1
  <2> DEFINE x == b[1]
             y == b[2]
             z == b[3]
  <2>5. /\ x \in Int /\ y \in 128 .. 191 /\ z \in 128 .. 191
        /\ v = 4096 * (x - 224) + 64 * (y - 128) + (z - 128)
    BY <2>2, <2>3, <2>4
  <2>6. b = <<x, y, z>>
    BY <2>3
  <2> HIDE DEF x, y, z
  <2> DEFINE p == x - 224
             q == y - 128
             r == z - 128
  <2>7. /\ p \in Int /\ q \in 0 .. 63 /\ r \in 0 .. 63
        /\ v = 4096 * p + 64 * q + r
    BY <2>5
  <2>11. x = 224 + p /\ y = 128 + q /\ z = 128 + r
    BY <2>5
  <2> HIDE DEF p, q, r
  <2>8. Six(v, 12) = p /\ Six(v, 6) = q /\ Six(v, 0) = r
    <3>1. ThreeParts(v, p, q, r)
      BY <1>4, <2>7 DEF ThreeParts
    <3> QED BY <3>1, PointOfThree, Zenon
  <2>9. x = 224 + Six(v, 12) /\ y = 128 + Six(v, 6) /\ z = 128 + Six(v, 0)
    BY ONLY <2>8, <2>11
  <2>10. Bytes(v) = <<224 + Six(v, 12), 128 + Six(v, 6), 128 + Six(v, 0)>>
    BY <1>4 DEF Bytes
  <2> QED BY <2>6, <2>9, <2>10, Zenon
<1>5. CASE 65536 <= v
  <2>0. v <= 1114111
    BY <1>5 DEF UTF8
  <2>2. /\ Len(b) = 4
        /\ v = 262144 * (b[1] - 240) + 4096 * (b[2] - 128) + 64 * (b[3] - 128) + (b[4] - 128)
    BY <1>5 DEF UTF8
  <2>3. b = <<b[1], b[2], b[3], b[4]>> /\ b[1] \in Nat
    BY <2>2, Four, First
  <2>4. b[2] \in 128 .. 191 /\ b[3] \in 128 .. 191 /\ b[4] \in 128 .. 191
    <3>1. 2 \in 2 .. Len(b) /\ 3 \in 2 .. Len(b) /\ 4 \in 2 .. Len(b)
      BY <2>2
    <3> QED BY <1>1, <3>1
  <2> DEFINE w == b[1]
             x == b[2]
             y == b[3]
             z == b[4]
  <2>5. /\ w \in Int /\ x \in 128 .. 191 /\ y \in 128 .. 191 /\ z \in 128 .. 191
        /\ v = 262144 * (w - 240) + 4096 * (x - 128) + 64 * (y - 128) + (z - 128)
    BY <2>2, <2>3, <2>4
  <2>6. b = <<w, x, y, z>>
    BY <2>3
  <2> HIDE DEF w, x, y, z
  <2> DEFINE o == w - 240
             p == x - 128
             q == y - 128
             r == z - 128
  <2>7. /\ o \in Int /\ p \in 0 .. 63 /\ q \in 0 .. 63 /\ r \in 0 .. 63
        /\ v = 262144 * o + 4096 * p + 64 * q + r
    BY <2>5
  <2>11. w = 240 + o /\ x = 128 + p /\ y = 128 + q /\ z = 128 + r
    BY <2>5
  <2> HIDE DEF o, p, q, r
  <2>8. Six(v, 18) = o /\ Six(v, 12) = p /\ Six(v, 6) = q /\ Six(v, 0) = r
    <3>1. FourParts(v, o, p, q, r)
      BY <1>5, <2>0, <2>7 DEF FourParts
    <3> QED BY <3>1, PointOfFour, Zenon
  <2>9. w = 240 + Six(v, 18) /\ x = 128 + Six(v, 12) /\ y = 128 + Six(v, 6) /\ z = 128 + Six(v, 0)
    BY ONLY <2>8, <2>11
  <2>10. Bytes(v) = <<240 + Six(v, 18), 128 + Six(v, 12), 128 + Six(v, 6), 128 + Six(v, 0)>>
    BY <1>5 DEF Bytes
  <2> QED BY <2>6, <2>9, <2>10, Zenon
<1> QED BY <1>2, <1>3, <1>4, <1>5

\* What is written for a code point is its UTF-8, or the error for it.
LEMMA EncodedIsUTF8 ==
  ASSUME NEW t, t.bytes \in Seq(Nat), NEW v \in Nat, IsPoint(t, v), NEW next
  PROVE  Encoded(v, next) = IF t.errno = "" THEN Out(t.bytes, next) ELSE Unparsable(t.errno)
<1>1. CASE ~TooLarge(v) /\ ~Surrogate(v)
  <2>1. t.errno = "" /\ UTF8(t.bytes, v)
    BY <1>1, Zenon DEF IsPoint
  <2>2. Bytes(v) = t.bytes
    BY <2>1, BytesAreUTF8, Zenon
  <2> QED BY <1>1, <2>1, <2>2, Zenon DEF Encoded
<1>2. CASE TooLarge(v)
  BY <1>2, Zenon DEF IsPoint, Encoded
<1>3. CASE ~TooLarge(v) /\ Surrogate(v)
  BY <1>3, Zenon DEF IsPoint, Encoded
<1> QED BY <1>1, <1>2, <1>3, Zenon

-----------------------------------------------------------------------------
(* What stands in a text *)

\* What stands in a text at some place.
Holds(text, j, w) ==
  /\ text \in Seq(Nat) /\ j \in Nat \ {0} /\ w \in Seq(Nat)
  /\ j + Len(w) <= Len(text) + 1
  /\ \A k \in 1 .. Len(w) : text[j + k - 1] = w[k]

\* The first character of what stands at j is that at j.
LEMMA HoldsFirst ==
  ASSUME NEW text, NEW j, NEW w, Holds(text, j, w), Len(w) >= 1
  PROVE  text[j] = w[1] /\ At(text, j) = w[1] /\ j <= Len(text)
<1> USE DEF Holds
<1>1. Len(w) \in Nat /\ Len(text) \in Nat
  OBVIOUS
<1>2. 1 \in 1 .. Len(w) /\ j + 1 - 1 = j /\ j <= Len(text)
  BY <1>1
<1>3. text[j] = w[1]
  BY <1>2
<1> QED BY <1>2, <1>3 DEF At

\* The rest of what stands at j stands behind its first character.
LEMMA HoldsTail ==
  ASSUME NEW text, NEW j, NEW w, Holds(text, j, w), Len(w) >= 1
  PROVE  Holds(text, j + 1, Tail(w)) /\ Len(Tail(w)) = Len(w) - 1
<1> USE DEF Holds
<1>1. Len(w) \in Nat /\ Len(text) \in Nat /\ w # <<>>
  OBVIOUS
<1>2. Tail(w) \in Seq(Nat) /\ Len(Tail(w)) = Len(w) - 1
  BY <1>1
<1>3. ASSUME NEW k \in 1 .. Len(Tail(w)) PROVE text[j + 1 + k - 1] = Tail(w)[k]
  <2>1. k + 1 \in 1 .. Len(w) /\ j + (k + 1) - 1 = j + 1 + k - 1
    BY <1>1, <1>2
  <2>2. Tail(w)[k] = w[k + 1]
    BY <1>1, <1>2
  <2> QED BY <2>1, <2>2
<1>4. j + 1 \in Nat \ {0} /\ j + 1 + Len(Tail(w)) <= Len(text) + 1
  BY <1>1, <1>2
<1> QED BY <1>2, <1>3, <1>4

\* The characters that are read from j on are those of what stands there.
LEMMA HoldsPrefix ==
  ASSUME NEW text, NEW j, NEW w, Holds(text, j, w)
  PROVE  \A k \in 0 .. Len(w) : SubSeq(text, j, j + k - 1) = SubSeq(w, 1, k)
<1> SUFFICES ASSUME NEW k \in 0 .. Len(w) PROVE SubSeq(text, j, j + k - 1) = SubSeq(w, 1, k)
  OBVIOUS
<1> USE DEF Holds
<1>1. Len(w) \in Nat /\ Len(text) \in Nat
  OBVIOUS
<1> DEFINE s == SubSeq(text, j, j + k - 1)
           t == SubSeq(w, 1, k)
<1>2. s \in Seq(Nat) /\ Len(s) = k
  <2>1. j \in 1 .. Len(text) + 1 /\ j + k - 1 \in j - 1 .. Len(text)
    BY <1>1
  <2>2. (j + k - 1) - j + 1 = k
    BY <1>1
  <2> QED BY <2>1, <2>2, SubSeqProperties
<1>3. t \in Seq(Nat) /\ Len(t) = k
  BY <1>1
<1>4. ASSUME NEW i \in 1 .. k PROVE s[i] = t[i]
  <2>1. s[i] = text[j + i - 1]
    <3>1. j \in 1 .. Len(text) + 1 /\ j + k - 1 \in j - 1 .. Len(text) /\ i \in 1 .. Len(s)
      BY <1>1, <1>2
    <3> QED BY <3>1
  <2>2. t[i] = w[i] /\ i \in 1 .. Len(w)
    BY <1>1
  <2> QED BY <2>1, <2>2
<1> HIDE DEF s, t, Holds
<1>5. s = t
  BY <1>2, <1>3, <1>4, SeqEqual
<1> QED BY <1>5 DEF s, t

\* A sequence up to its end.
LEMMA Full == ASSUME NEW w, w \in Seq(Nat) PROVE SubSeq(w, 1, Len(w)) = w
BY SubSeqFull

\* All that stands at j is read.
LEMMA HoldsWhole ==
  ASSUME NEW text, NEW j, NEW w, Holds(text, j, w)
  PROVE  SubSeq(text, j, j + Len(w) - 1) = w
<1>1. \A k \in 0 .. Len(w) : SubSeq(text, j, j + k - 1) = SubSeq(w, 1, k)
  BY HoldsPrefix
<1>2. Len(w) \in 0 .. Len(w) /\ w \in Seq(Nat)
  BY DEF Holds
<1>3. SubSeq(w, 1, Len(w)) = w
  BY <1>2, Full
<1>4. SubSeq(text, j, j + Len(w) - 1) = SubSeq(w, 1, Len(w))
  BY ONLY <1>1, <1>2
<1> QED BY <1>3, <1>4

\* Digits that stand at j, with none behind them that counts, are the run of digits.
LEMMA HoldsRun ==
  ASSUME NEW text, NEW j, NEW w, Holds(text, j, w), NEW set, NEW limit \in Nat,
         \A k \in 1 .. Len(w) : w[k] \in set, Len(w) <= limit,
         Len(w) < limit => At(text, j + Len(w)) \notin set
  PROVE  Run(text, j, set, limit) = Len(w)
<1>1. Len(w) \in 0 .. limit /\ j \in Nat /\ Len(text) \in Nat
  BY DEF Holds
<1>2. ASSUME NEW k \in 0 .. Len(w) - 1 PROVE At(text, j + k) \in set
  <2>1. k + 1 \in 1 .. Len(w) /\ j + (k + 1) - 1 = j + k
    BY <1>1
  <2>2. text[j + k] = w[k + 1] /\ j + k <= Len(text)
    BY <1>1, <2>1 DEF Holds
  <2> QED BY <2>1, <2>2 DEF At
<1> QED BY <1>1, <1>2, RunIs

\* The value of digits is that of the function of them.
LEMMA Digits ==
  ASSUME NEW w, w \in Seq(Nat), \A k \in 1 .. Len(w) : w[k] \in HexDigits
  PROVE  /\ w \in [1 .. Len(w) -> HexDigits]
         /\ \A k \in 0 .. Len(w) : /\ SubSeq(w, 1, k) \in [1 .. k -> HexDigits]
                                   /\ \A i \in 1 .. k : SubSeq(w, 1, k)[i] = w[i]
<1>0. w \in [1 .. Len(w) -> HexDigits]
  OBVIOUS
<1> SUFFICES ASSUME NEW k \in 0 .. Len(w)
             PROVE  /\ SubSeq(w, 1, k) \in [1 .. k -> HexDigits]
                    /\ \A i \in 1 .. k : SubSeq(w, 1, k)[i] = w[i]
  BY <1>0, Zenon
<1>1. Len(w) \in Nat /\ w \in [1 .. Len(w) -> HexDigits]
  OBVIOUS
<1>2. SubSeq(w, 1, k) = [i \in 1 .. k |-> w[i]]
  BY <1>1
<1>3. \A i \in 1 .. k : w[i] \in HexDigits
  BY <1>1
<1>4. [i \in 1 .. k |-> w[i]] \in [1 .. k -> HexDigits]
  BY <1>3
<1>5. \A i \in 1 .. k : [e \in 1 .. k |-> w[e]][i] = w[i]
  OBVIOUS
<1> QED BY <1>2, <1>4, <1>5, Zenon

\* What a piece of text is to become.
Means(t, next) == IF t.errno = "" THEN Out(t.bytes, next) ELSE Unparsable(t.errno)

\* Fewer of the digits have no larger value.
LEMMA FewerDigits ==
  ASSUME NEW w, w \in Seq(Nat), \A k \in 1 .. Len(w) : w[k] \in HexDigits
  PROVE  \A k \in 0 .. Len(w) : /\ Value(SubSeq(w, 1, k), 16) \in Nat
                                /\ Value(SubSeq(w, 1, k), 16) <= Value(w, 16)
<1> SUFFICES ASSUME NEW k \in 0 .. Len(w)
             PROVE  /\ Value(SubSeq(w, 1, k), 16) \in Nat
                    /\ Value(SubSeq(w, 1, k), 16) <= Value(w, 16)
  OBVIOUS
<1>1. Len(w) \in Nat /\ k \in Nat /\ k \in 0 .. k
  OBVIOUS
<1> DEFINE t == SubSeq(w, 1, k)
<1>2. /\ w \in [1 .. Len(w) -> HexDigits] /\ t \in [1 .. k -> HexDigits]
      /\ \A i \in 1 .. k : t[i] = w[i]
  BY Digits
<1> HIDE DEF t
<1>3. Value(t, 16) <= Value(w, 16)
  BY <1>1, <1>2, ValueGrows
<1>4. Value(t, 16) \in Nat
  BY <1>1, <1>2, ValueGrows
<1> QED BY <1>3, <1>4 DEF t

\* A code point is encoded as its piece of text means it.
LEMMA PointMeans ==
  ASSUME NEW t, t.bytes \in Seq(Nat), NEW v \in Nat, IsPoint(t, v), NEW next
  PROVE  Encoded(v, next) = Means(t, next)
<1>1. Encoded(v, next) = IF t.errno = "" THEN Out(t.bytes, next) ELSE Unparsable(t.errno)
  BY EncodedIsUTF8, Zenon
<1> QED BY <1>1, Zenon DEF Means

\* So is the value of a byte.
LEMMA ByteMeans ==
  ASSUME NEW t, NEW value, IsByte(t, value), NEW next
  PROVE  (IF value > 255 THEN Unparsable("ERANGE") ELSE Out(<<value>>, next)) = Means(t, next)
BY Zenon DEF IsByte, Means

\* A value is a number.
LEMMA ValueIsNat ==
  ASSUME NEW w \in Seq(Nat), \A k \in 1 .. Len(w) : w[k] \in HexDigits, NEW base \in {8, 16}
  PROVE  Value(w, base) \in Nat
<1>1. Len(w) \in Nat /\ w \in [1 .. Len(w) -> HexDigits]
  OBVIOUS
<1>2. Len(w) \in 0 .. Len(w)
  BY <1>1
<1> QED BY <1>1, <1>2, ValueGrows

\* Octal digits.
LEMMA OctalRead ==
  ASSUME NEW text, NEW j, NEW w, Holds(text, j, w), Len(w) \in 1 .. 3,
         \A k \in 1 .. Len(w) : w[k] \in Octal,
         Len(w) < 3 => At(text, j + Len(w)) \notin HexDigits,
         NEW t, IsByte(t, Value(w, 8))
  PROVE  OctalEscape(text, j) = Means(t, j + Len(w))
<1>1. Octal \subseteq HexDigits
  BY DEF Octal, HexDigits
<1>2. 3 \in Nat /\ Len(w) <= 3 /\ (Len(w) < 3 => At(text, j + Len(w)) \notin Octal)
  BY <1>1
<1>3. Run(text, j, Octal, 3) = Len(w)
  BY <1>2, HoldsRun
<1>4. SubSeq(text, j, j + Len(w) - 1) = w
  BY HoldsWhole
<1>5. OctalEscape(text, j)
        = IF Value(w, 8) > 255 THEN Unparsable("ERANGE") ELSE Out(<<Value(w, 8)>>, j + Len(w))
  BY <1>3, <1>4, Zenon DEF OctalEscape
<1> QED BY <1>5, ByteMeans, Zenon

\* Hexadecimal digits behind the letter at j.
LEMMA HexHolds ==
  ASSUME NEW text, NEW j \in Nat, NEW w, Holds(text, j + 1, w)
  PROVE  /\ \A k \in 0 .. Len(w) : SubSeq(text, j + 1, j + k) = SubSeq(w, 1, k)
         /\ SubSeq(text, j + 1, j + Len(w)) = w
<1> DEFINE i == j + 1
<1>1. Holds(text, i, w)
  OBVIOUS
<1>2. w \in Seq(Nat) /\ Len(w) \in Nat
  BY <1>1 DEF Holds
<1>3. \A k \in Nat : i + k - 1 = j + k
  OBVIOUS
<1> HIDE DEF i
<1>4. \A k \in 0 .. Len(w) : SubSeq(text, i, i + k - 1) = SubSeq(w, 1, k)
  BY <1>1, HoldsPrefix
<1>5. \A k \in 0 .. Len(w) : SubSeq(text, i, j + k) = SubSeq(w, 1, k)
  <2> SUFFICES ASSUME NEW k \in 0 .. Len(w) PROVE SubSeq(text, i, j + k) = SubSeq(w, 1, k)
    OBVIOUS
  <2>1. k \in Nat
    BY <1>2
  <2>2. i + k - 1 = j + k
    BY <1>3, <2>1
  <2>3. SubSeq(text, i, i + k - 1) = SubSeq(w, 1, k)
    BY <1>4
  <2> QED BY ONLY <2>2, <2>3
<1>6. SubSeq(text, i, j + Len(w)) = w
  <2>1. Len(w) \in 0 .. Len(w)
    BY <1>2
  <2>2. SubSeq(w, 1, Len(w)) = w
    BY <1>2, Full
  <2>3. SubSeq(text, i, j + Len(w)) = SubSeq(w, 1, Len(w))
    BY ONLY <1>5, <2>1
  <2> QED BY <2>2, <2>3
<1> QED BY <1>5, <1>6 DEF i

\* Hexadecimal digits: of a byte, where a value that is too large is seen before
\* the last one, or of a code point.
LEMMA HexByteRead ==
  ASSUME NEW text, NEW j, text[j] = 120, NEW w, Holds(text, j + 1, w), j \in Nat,
         \A k \in 1 .. Len(w) : w[k] \in HexDigits,
         At(text, j + 1 + Len(w)) \notin HexDigits,
         NEW t, IF w = <<>> THEN t.errno = "EILSEQ" ELSE IsByte(t, Value(w, 16))
  PROVE  Hexadecimal(text, j) = Means(t, j + Len(w) + 1)
<1>1. w \in Seq(Nat) /\ Len(w) \in Nat /\ Len(text) \in Nat /\ Len(w) <= Len(text)
  BY DEF Holds
<1>2. Run(text, j + 1, HexDigits, Len(text)) = Len(w)
  BY <1>1, HoldsRun
<1> DEFINE digits(k) == SubSeq(text, j + 1, j + k)
<1>3. \A k \in 0 .. Len(w) : digits(k) = SubSeq(w, 1, k)
  BY HexHolds
<1>4. digits(Len(w)) = w
  BY HexHolds
<1> HIDE DEF digits
<1>5. (\E k \in 1 .. Len(w) : Value(digits(k), 16) > 255) <=> w # <<>> /\ Value(w, 16) > 255
  <2>1. ASSUME NEW k \in 1 .. Len(w) PROVE Value(digits(k), 16) \in Nat /\ Value(digits(k), 16) <= Value(w, 16)
    <3>1. /\ Value(SubSeq(w, 1, k), 16) \in Nat
          /\ Value(SubSeq(w, 1, k), 16) <= Value(w, 16)
      BY <1>1, FewerDigits
    <3>2. k \in 0 .. Len(w)
      BY <1>1
    <3>3. digits(k) = SubSeq(w, 1, k)
      BY ONLY <1>3, <3>2
    <3> QED BY ONLY <3>1, <3>3
  <2>2. Value(w, 16) \in Nat
    BY <1>1, ValueIsNat
  <2>3. w # <<>> <=> Len(w) \in 1 .. Len(w)
    BY <1>1
  <2> QED BY <1>4, <2>1, <2>2, <2>3
<1>6. w = <<>> <=> Len(w) = 0
  BY <1>1
<1> DEFINE n == Len(w)
<1> HIDE DEF n
<1>7. Hexadecimal(text, j) =
        IF n = 0 THEN Unparsable("EILSEQ")
        ELSE IF \E k \in 1 .. n : Value(digits(k), 16) > 255 THEN Unparsable("ERANGE")
        ELSE Out(<<Value(digits(n), 16)>>, j + n + 1)
  BY <1>2, Zenon DEF Hexadecimal, digits, n
<1>8. CASE w = <<>>
  <2>1. t.errno = "EILSEQ" /\ n = 0
    BY <1>6, <1>8, Zenon DEF n
  <2> QED BY <1>7, <2>1, Zenon DEF Means
<1>9. CASE w # <<>>
  <2>1. IsByte(t, Value(w, 16)) /\ n # 0
    BY <1>6, <1>9, Zenon DEF n
  <2>2. (\E k \in 1 .. n : Value(digits(k), 16) > 255) <=> Value(w, 16) > 255
    BY <1>5, <1>9, Zenon DEF n
  <2>3. Hexadecimal(text, j) =
          IF Value(w, 16) > 255 THEN Unparsable("ERANGE") ELSE Out(<<Value(w, 16)>>, j + n + 1)
    BY <1>4, <1>7, <2>1, <2>2, Zenon DEF n
  <2> QED BY <2>1, <2>3, ByteMeans, Zenon DEF n
<1> QED BY <1>8, <1>9, Zenon

ReadsPoint(text, j, w, wanted, t) ==
  /\ j \in Nat /\ Holds(text, j + 1, w) /\ \A k \in 1 .. Len(w) : w[k] \in HexDigits
  /\ wanted \in Nat /\ wanted = (IF text[j] = 117 THEN 4 ELSE 8) /\ text[j] # 120
  /\ Len(w) <= wanted
  /\ Len(w) < wanted => At(text, j + 1 + Len(w)) \notin HexDigits
  /\ t.bytes \in Seq(Nat)
  /\ IF Len(w) < wanted THEN t.errno = "EILSEQ" ELSE IsPoint(t, Value(w, 16))

\* Digits of a code point.
LEMMA HexPointRead ==
  ASSUME NEW text, NEW j, NEW w, NEW wanted, NEW t, ReadsPoint(text, j, w, wanted, t)
  PROVE  Hexadecimal(text, j) = Means(t, j + Len(w) + 1)
<1> SUFFICES ASSUME
         j \in Nat, Holds(text, j + 1, w), \A k \in 1 .. Len(w) : w[k] \in HexDigits,
         wanted \in Nat, wanted = (IF text[j] = 117 THEN 4 ELSE 8), text[j] # 120,
         Len(w) <= wanted,
         Len(w) < wanted => At(text, j + 1 + Len(w)) \notin HexDigits,
         t.bytes \in Seq(Nat),
         IF Len(w) < wanted THEN t.errno = "EILSEQ" ELSE IsPoint(t, Value(w, 16))
       PROVE  Hexadecimal(text, j) = Means(t, j + Len(w) + 1)
  BY Zenon DEF ReadsPoint
<1>1. w \in Seq(Nat) /\ Holds(text, j + 1, w) /\ \A k \in 1 .. Len(w) : w[k] \in HexDigits
  BY DEF Holds
<1>2. Run(text, j + 1, HexDigits, wanted) = Len(w)
  <2>1. /\ wanted \in Nat /\ Len(w) <= wanted
        /\ (Len(w) < wanted => At(text, j + 1 + Len(w)) \notin HexDigits)
    OBVIOUS
  <2> QED BY ONLY <1>1, <2>1, HoldsRun
<1>3. SubSeq(text, j + 1, j + Len(w)) = w
  BY HexHolds
<1>4. Value(w, 16) \in Nat
  BY ONLY <1>1, ValueIsNat
<1>5. Hexadecimal(text, j) = IF Len(w) < wanted THEN Unparsable("EILSEQ")
                             ELSE Encoded(Value(w, 16), j + Len(w) + 1)
  <2>1. text[j] # 120 /\ wanted = (IF text[j] = 117 THEN 4 ELSE 8)
    OBVIOUS
  <2> DEFINE limit == IF text[j] = 117 THEN 4 ELSE 8
             n == Run(text, j + 1, HexDigits, limit)
  <2>2. Hexadecimal(text, j) =
          IF n < limit THEN Unparsable("EILSEQ")
          ELSE Encoded(Value(SubSeq(text, j + 1, j + n), 16), j + n + 1)
    BY ONLY <2>1, Zenon DEF Hexadecimal
  <2>3. limit = wanted
    BY ONLY <2>1, Zenon
  <2> HIDE DEF limit
  <2>4. n = Len(w)
    BY ONLY <1>2, <2>3, Zenon
  <2> HIDE DEF n
  <2> QED BY ONLY <1>3, <2>2, <2>3, <2>4, Zenon
<1>6. CASE Len(w) < wanted
  <2>1. t.errno = "EILSEQ"
    BY <1>6, Zenon
  <2> QED BY ONLY <1>5, <1>6, <2>1, Zenon DEF Means
<1>7. CASE ~(Len(w) < wanted)
  <2>1. IsPoint(t, Value(w, 16)) /\ t.bytes \in Seq(Nat)
    BY <1>7, Zenon
  <2>2. Encoded(Value(w, 16), j + Len(w) + 1) = Means(t, j + Len(w) + 1)
    BY ONLY <1>4, <2>1, PointMeans, Zenon
  <2> QED BY ONLY <1>5, <1>7, <2>2, Zenon
<1> QED BY <1>6, <1>7, Zenon

\* A character that is not a backslash is written as it is.
LEMMA PieceOther ==
  ASSUME NEW text, NEW i, text[i] # Backslash
  PROVE  Piece(text, i) = Out(<<text[i]>>, i + 1)
BY Zenon DEF Piece

\* An escape with digits is none of those of a single character.
LEMMA PieceDigits ==
  ASSUME NEW text, NEW i, text[i] = Backslash,
         At(text, i + 1) \in {117, 85, 120} \/ At(text, i + 1) \in Octal
  PROVE  Piece(text, i) = IF At(text, i + 1) \in {117, 85, 120} THEN Hexadecimal(text, i + 1)
                          ELSE OctalEscape(text, i + 1)
<1> DEFINE e == At(text, i + 1)
<1> HIDE DEF e
<1>1. e \in {117, 85, 120} \/ e \in Octal
  BY DEF e
<1>2. \A s \in SingleEscapes : s[1] \in {34, 39, 63, 92, 97, 98, 116, 110, 118, 102, 114}
  BY DEF SingleEscapes
<1>3. e \notin {34, 39, 63, 92, 97, 98, 116, 110, 118, 102, 114} /\ e # 0
  BY ONLY <1>1 DEF Octal
<1>4. ~\E s \in SingleEscapes : s[1] = e
  BY ONLY <1>2, <1>3
<1>5. text[i] = Backslash
  OBVIOUS
<1>6. Piece(text, i) = IF e \in {117, 85, 120} THEN Hexadecimal(text, i + 1)
                       ELSE OctalEscape(text, i + 1)
  <2>1. e # 0
    BY <1>3
  <2>2. CASE e \in {117, 85, 120}
    BY ONLY <1>4, <1>5, <2>1, <2>2, Zenon DEF Piece, e
  <2>3. CASE e \notin {117, 85, 120}
    <3>1. e \in Octal
      BY <1>1, <2>3
    <3> QED BY ONLY <1>4, <1>5, <2>1, <2>3, <3>1, Zenon DEF Piece, e
  <2> QED BY <2>2, <2>3
<1> QED BY <1>6 DEF e

\* A piece of text that has a meaning, where it stands in a text.
Stands(text, i, t) ==
  /\ t.text \in Seq(Nat) /\ t.bytes \in Seq(Nat) /\ Len(t.text) >= 1
  /\ Holds(text, i, t.text)
  /\ t.open => At(text, i + Len(t.text)) \notin HexDigits

\* A literal comes out as itself.
LEMMA LiteralStands ==
  ASSUME NEW text, NEW i, NEW t, Stands(text, i, t), Literal(t)
  PROVE  Piece(text, i) = Means(t, i + Len(t.text))
<1>1. Len(t.text) = 1 /\ t.text[1] # Backslash /\ t.errno = "" /\ t.bytes = t.text
  BY Zenon DEF Literal
<1>2. Holds(text, i, t.text) /\ Len(t.text) >= 1 /\ t.text \in Seq(Nat)
  BY Zenon DEF Stands
<1>3. text[i] = t.text[1]
  BY <1>2, HoldsFirst, Zenon
<1>4. Piece(text, i) = Out(<<text[i]>>, i + 1)
  BY <1>1, <1>3, PieceOther, Zenon
<1>5. t.text = <<t.text[1]>>
  <2>1. Len(t.text) = 1
    BY <1>1, Zenon
  <2> QED BY ONLY <1>2, <2>1
<1> QED BY ONLY <1>1, <1>3, <1>4, <1>5, Zenon DEF Means

\* An octal escape comes out as its byte, or its error.
LEMMA OctalStands ==
  ASSUME NEW text, NEW i, NEW t, Stands(text, i, t), t.text[1] = Backslash, OctalByte(t)
  PROVE  Piece(text, i) = Means(t, i + Len(t.text))
<1> DEFINE w == t.text
           digits == Tail(w)
<1>1. Holds(text, i, w) /\ Len(w) >= 1 /\ w \in Seq(Nat)
  BY Zenon DEF Stands
<1>2. /\ Len(digits) \in 1 .. 3 /\ (Len(digits) < 3 => t.open)
      /\ \A k \in DOMAIN digits : digits[k] \in Octal
      /\ IsByte(t, Value(digits, 8))
  BY Zenon DEF OctalByte
<1>3. t.open => At(text, i + Len(w)) \notin HexDigits
  BY Zenon DEF Stands
<1>4. w[1] = Backslash
  OBVIOUS
<1> HIDE DEF w
<1>5. text[i] = Backslash
  BY ONLY <1>1, <1>4, HoldsFirst
<1>6. Holds(text, i + 1, digits) /\ Len(digits) = Len(w) - 1
  BY ONLY <1>1, HoldsTail
<1> HIDE DEF digits
<1>7. digits \in Seq(Nat) /\ i \in Nat /\ Len(digits) \in Nat /\ Len(w) \in Nat
  BY ONLY <1>1, <1>6 DEF Holds
<1>8. \A k \in 1 .. Len(digits) : digits[k] \in Octal
  <2>1. \A k \in DOMAIN digits : digits[k] \in Octal
    BY <1>2, Zenon
  <2> QED BY ONLY <1>7, <2>1
<1>9. At(text, i + 1) \in Octal
  <2>1. Len(digits) >= 1 /\ 1 \in 1 .. Len(digits)
    <3>1. Len(digits) \in 1 .. 3
      BY <1>2, Zenon
    <3> QED BY ONLY <3>1
  <2>2. At(text, i + 1) = digits[1]
    BY ONLY <1>6, <2>1, HoldsFirst
  <2> QED BY ONLY <1>8, <2>1, <2>2
<1>10. Piece(text, i) = OctalEscape(text, i + 1)
  <2>1. At(text, i + 1) \notin {117, 85, 120}
    BY ONLY <1>9 DEF Octal
  <2>2. Piece(text, i) = IF At(text, i + 1) \in {117, 85, 120} THEN Hexadecimal(text, i + 1)
                         ELSE OctalEscape(text, i + 1)
    BY ONLY <1>5, <1>9, PieceDigits, Zenon
  <2> QED BY ONLY <2>1, <2>2, Zenon
<1>11. i + Len(w) = i + 1 + Len(digits)
  BY ONLY <1>6, <1>7
<1>12. Len(digits) < 3 => At(text, i + 1 + Len(digits)) \notin HexDigits
  BY ONLY <1>2, <1>3, <1>11, Zenon
<1>13. OctalEscape(text, i + 1) = Means(t, i + 1 + Len(digits))
  <2> DEFINE j == i + 1
  <2>1. /\ Holds(text, j, digits) /\ Len(digits) \in 1 .. 3
        /\ (Len(digits) < 3 => At(text, j + Len(digits)) \notin HexDigits)
        /\ IsByte(t, Value(digits, 8))
    BY ONLY <1>2, <1>6, <1>12, Zenon
  <2> HIDE DEF j
  <2>2. OctalEscape(text, j) = Means(t, j + Len(digits))
    BY ONLY <1>8, <2>1, OctalRead, Zenon
  <2> QED BY ONLY <2>2, Zenon DEF j
<1> QED BY ONLY <1>10, <1>11, <1>13, Zenon DEF w

\* A hexadecimal or Unicode escape comes out as its byte or its UTF-8, or its error.
LEMMA HexStands ==
  ASSUME NEW text, NEW i, NEW t, Stands(text, i, t), t.text[1] = Backslash, Hex(t)
  PROVE  Piece(text, i) = Means(t, i + Len(t.text))
<1> DEFINE w == t.text
           letter == w[2]
           digits == Tail(Tail(w))
           wanted == IF letter = 117 THEN 4 ELSE 8
<1>1. Holds(text, i, w) /\ Len(w) >= 1 /\ w \in Seq(Nat) /\ t.bytes \in Seq(Nat)
  BY Zenon DEF Stands
<1>2. /\ Len(w) >= 2 /\ letter \in {117, 85, 120}
      /\ \A k \in DOMAIN digits : digits[k] \in HexDigits
      /\ letter = 120 \/ Len(digits) < wanted => t.open
      /\ IF letter = 120
         THEN IF digits = <<>> THEN t.errno = "EILSEQ" ELSE IsByte(t, Value(digits, 16))
         ELSE /\ Len(digits) <= wanted
              /\ IF Len(digits) < wanted THEN t.errno = "EILSEQ"
                 ELSE IsPoint(t, Value(digits, 16))
  BY Zenon DEF Hex
<1>3. t.open => At(text, i + Len(w)) \notin HexDigits
  BY Zenon DEF Stands
<1>4. w[1] = Backslash
  OBVIOUS
<1> DEFINE j == i + 1
<1> HIDE DEF w
<1>5. text[i] = Backslash
  BY ONLY <1>1, <1>4, HoldsFirst
<1>6. Holds(text, j, Tail(w)) /\ Len(Tail(w)) = Len(w) - 1
  BY ONLY <1>1, HoldsTail
<1>7. Len(Tail(w)) >= 1 /\ Len(w) \in Nat /\ i \in Nat /\ Tail(w)[1] = letter
  <2>1. Len(w) >= 2
    BY <1>2, Zenon
  <2> QED BY ONLY <1>1, <1>6, <2>1 DEF Holds
<1> HIDE DEF j
<1>8. Holds(text, j + 1, digits) /\ Len(digits) = Len(Tail(w)) - 1
  BY ONLY <1>6, <1>7, HoldsTail
<1>9. text[j] = letter /\ At(text, j) = letter
  BY ONLY <1>6, <1>7, HoldsFirst
<1> HIDE DEF digits, letter
<1>10. digits \in Seq(Nat) /\ j \in Nat /\ Len(digits) \in Nat
  BY ONLY <1>6, <1>8 DEF Holds
<1>11. \A k \in 1 .. Len(digits) : digits[k] \in HexDigits
  <2>1. \A k \in DOMAIN digits : digits[k] \in HexDigits
    BY <1>2, Zenon
  <2> QED BY ONLY <1>10, <2>1
<1>12. Piece(text, i) = Hexadecimal(text, j)
  <2>1. At(text, i + 1) \in {117, 85, 120}
    BY <1>2, <1>9, Zenon DEF j
  <2>2. Piece(text, i) = IF At(text, i + 1) \in {117, 85, 120} THEN Hexadecimal(text, i + 1)
                         ELSE OctalEscape(text, i + 1)
    BY ONLY <1>5, <2>1, PieceDigits, Zenon
  <2> QED BY ONLY <2>1, <2>2, Zenon DEF j
<1>13. i + Len(w) = j + 1 + Len(digits) /\ i + Len(w) = j + Len(digits) + 1
  <2>1. Len(digits) = Len(w) - 2
    BY ONLY <1>6, <1>7, <1>8
  <2> QED BY ONLY <1>7, <1>10, <2>1 DEF j
<1>14. t.open => At(text, j + 1 + Len(digits)) \notin HexDigits
  BY ONLY <1>3, <1>13, Zenon
<1>15. CASE letter = 120
  <2>1. /\ text[j] = 120 /\ Holds(text, j + 1, digits) /\ j \in Nat
        /\ At(text, j + 1 + Len(digits)) \notin HexDigits
    BY ONLY <1>2, <1>8, <1>9, <1>10, <1>14, <1>15, Zenon
  <2>2. IF digits = <<>> THEN t.errno = "EILSEQ" ELSE IsByte(t, Value(digits, 16))
    BY ONLY <1>2, <1>15, Zenon
  <2>3. Hexadecimal(text, j) = Means(t, j + Len(digits) + 1)
    BY ONLY <1>11, <2>1, <2>2, HexByteRead
  <2> QED BY ONLY <1>12, <1>13, <2>3, Zenon DEF w
<1>16. CASE letter # 120
  <2>1. wanted = (IF text[j] = 117 THEN 4 ELSE 8) /\ text[j] # 120
    BY ONLY <1>9, <1>16, Zenon
  <2>2. wanted \in Nat
    OBVIOUS
  <2>3. /\ Len(digits) <= wanted
        /\ (Len(digits) < wanted => At(text, j + 1 + Len(digits)) \notin HexDigits)
        /\ IF Len(digits) < wanted THEN t.errno = "EILSEQ" ELSE IsPoint(t, Value(digits, 16))
    BY ONLY <1>2, <1>14, <1>16, Zenon
  <2> HIDE DEF wanted
  <2>4. ReadsPoint(text, j, digits, wanted, t)
    BY ONLY <1>1, <1>8, <1>10, <1>11, <2>1, <2>2, <2>3, Zenon DEF ReadsPoint
  <2>5. Hexadecimal(text, j) = Means(t, j + Len(digits) + 1)
    BY ONLY <2>4, HexPointRead
  <2> QED BY ONLY <1>12, <1>13, <2>5, Zenon DEF w
<1> QED BY <1>15, <1>16, Zenon

\* A literal or numeric escape comes out as what it means.
LEMMA NumericStands ==
  ASSUME NEW text, NEW i, NEW t, Stands(text, i, t), Numeric(t)
  PROVE  Piece(text, i) = Means(t, i + Len(t.text))
<1>1. Literal(t) \/ (t.text[1] = Backslash /\ OctalByte(t)) \/ (t.text[1] = Backslash /\ Hex(t))
  BY Zenon DEF Numeric
<1>2. CASE Literal(t)
  BY <1>2, LiteralStands
<1>3. CASE t.text[1] = Backslash /\ OctalByte(t)
  BY <1>3, OctalStands
<1>4. CASE t.text[1] = Backslash /\ Hex(t)
  BY <1>4, HexStands
<1> QED BY <1>1, <1>2, <1>3, <1>4, Zenon

-----------------------------------------------------------------------------
(* What is written for a piece fits where the piece was read *)

\* errno, or no error.
Errors == {"", "ERANGE", "EDOM", "EILSEQ", "EBADMSG"}

\* Where a piece begins, what is written for it takes no more room than what was
\* read, and that ends with the text at the latest.
Fits(piece, text, i) ==
  /\ piece.errno \in Errors /\ piece.bytes \in Seq(Nat)
  /\ piece.errno = "" => /\ piece.next \in i + 1 .. Len(text) + 1
                         /\ Len(piece.bytes) <= piece.next - i

\* What fits and is written.
LEMMA OutFits ==
  ASSUME NEW text, NEW i, NEW bytes, bytes \in Seq(Nat), NEW next,
         next \in i + 1 .. Len(text) + 1, Len(bytes) <= next - i
  PROVE  Fits(Out(bytes, next), text, i)
<1>1. Out(bytes, next).bytes = bytes /\ Out(bytes, next).next = next /\ Out(bytes, next).errno = ""
  BY Zenon DEF Out
<1>2. "" \in Errors
  BY Zenon DEF Errors
<1> QED BY <1>1, <1>2, Zenon DEF Fits

\* No bytes.
LEMMA NoBytes == <<>> \in Seq(Nat)
OBVIOUS

\* An error always fits: nothing is written for it.
LEMMA UnparsableFits ==
  ASSUME NEW text, NEW i, NEW errno, errno \in Errors, errno # ""
  PROVE  Fits(Unparsable(errno), text, i)
<1>1. Unparsable(errno).bytes = <<>> /\ Unparsable(errno).errno = errno
  BY Zenon DEF Unparsable
<1> QED BY <1>1, NoBytes, Zenon DEF Fits

\* A run of digits ends with the text.
LEMMA RunReads ==
  ASSUME NEW text, text \in Seq(Nat), NEW j \in Nat \ {0}, j <= Len(text) + 1,
         NEW set, set \subseteq HexDigits, NEW limit \in Nat
  PROVE  LET n == Run(text, j, set, limit)
         IN /\ n \in 0 .. limit /\ j + n <= Len(text) + 1
            /\ SubSeq(text, j, j + n - 1) \in Seq(Nat)
            /\ \A k \in 1 .. Len(SubSeq(text, j, j + n - 1)) :
                 SubSeq(text, j, j + n - 1)[k] \in HexDigits
<1> DEFINE n == Run(text, j, set, limit)
<1>1. n \in 0 .. limit /\ \A k \in 0 .. n - 1 : At(text, j + k) \in set
  BY RunExists
<1> HIDE DEF n
<1>2. Len(text) \in Nat /\ n \in Nat
  BY <1>1
<1>3. \A k \in 0 .. n - 1 : At(text, j + k) \in HexDigits
  BY <1>1
<1>4. 0 \notin HexDigits
  BY DEF HexDigits
<1>5. \A k \in 0 .. n - 1 : j + k <= Len(text) /\ text[j + k] \in HexDigits
  BY <1>2, <1>3, <1>4 DEF At
<1>6. j + n <= Len(text) + 1
  <2>1. CASE n = 0
    BY <2>1
  <2>2. CASE n # 0
    <3>1. n - 1 \in 0 .. n - 1
      BY <1>2, <2>2
    <3>2. j + (n - 1) <= Len(text)
      BY <1>5, <3>1
    <3> QED BY <1>2, <3>2
  <2> QED BY <2>1, <2>2
<1> DEFINE m == j + n - 1
<1>7. m \in Int /\ j \in Int /\ m <= Len(text)
  BY <1>2, <1>6
<1>8. \A i \in j .. m : text[i] \in HexDigits /\ text[i] \in Nat
  <2> SUFFICES ASSUME NEW i \in j .. m PROVE text[i] \in HexDigits /\ text[i] \in Nat
    OBVIOUS
  <2>1. i - j \in 0 .. n - 1 /\ j + (i - j) = i
    BY <1>2
  <2>2. text[i] \in HexDigits
    BY <1>5, <2>1
  <2>3. HexDigits \subseteq Nat
    BY DEF HexDigits
  <2> QED BY <2>2, <2>3
<1> HIDE DEF m
<1> DEFINE s == SubSeq(text, j, m)
<1>9. s \in Seq(HexDigits)
  BY <1>7, <1>8, SubSeqProperties
<1>10. s \in Seq(Nat)
  BY <1>7, <1>8, SubSeqProperties
<1> HIDE DEF s
<1>11. \A k \in 1 .. Len(s) : s[k] \in HexDigits
  BY <1>9
<1> QED BY <1>1, <1>6, <1>10, <1>11, Zenon DEF s, m, n

\* The errors are none of them "".
LEMMA ErrorsAre ==
  /\ "ERANGE" \in Errors /\ "ERANGE" # "" /\ "EDOM" \in Errors /\ "EDOM" # ""
  /\ "EILSEQ" \in Errors /\ "EILSEQ" # "" /\ "EBADMSG" \in Errors /\ "EBADMSG" # ""
BY DEF Errors

\* An octal escape writes one byte for at least two characters.
LEMMA OctalFits ==
  ASSUME NEW text, text \in Seq(Nat), NEW i \in Nat \ {0}, i + 1 <= Len(text)
  PROVE  Fits(OctalEscape(text, i + 1), text, i)
<1> DEFINE j == i + 1
           n == Run(text, j, Octal, 3)
           digits == SubSeq(text, j, j + n - 1)
           value == Value(digits, 8)
<1>1. j \in Nat \ {0} /\ j <= Len(text) + 1 /\ 3 \in Nat /\ j = i + 1 /\ Len(text) \in Nat
  OBVIOUS
<1>2. Octal \subseteq HexDigits
  BY DEF Octal, HexDigits
<1> HIDE DEF j
<1>3. /\ n \in 0 .. 3 /\ j + n <= Len(text) + 1 /\ digits \in Seq(Nat)
      /\ \A k \in 1 .. Len(digits) : digits[k] \in HexDigits
  BY <1>1, <1>2, RunReads
<1>4. OctalEscape(text, j) =
        IF value > 255 THEN Unparsable("ERANGE") ELSE Out(<<value>>, j + n)
  BY Zenon DEF OctalEscape
<1> HIDE DEF n, digits
<1>5. value \in Nat
  BY ONLY <1>3, ValueIsNat
<1> HIDE DEF value
<1>6. CASE value > 255
  BY ONLY <1>4, <1>6, ErrorsAre, UnparsableFits, Zenon DEF j
<1>7. CASE ~(value > 255)
  <2>1. <<value>> \in Seq(Nat) /\ Len(<<value>>) = 1
    BY <1>5
  <2>2. j + n \in i + 1 .. Len(text) + 1 /\ 1 <= (j + n) - i
    BY ONLY <1>1, <1>3, i \in Nat
  <2>3. Fits(Out(<<value>>, j + n), text, i)
    <3> DEFINE next == j + n
    <3>1. next \in i + 1 .. Len(text) + 1 /\ Len(<<value>>) <= next - i
      BY <2>1, <2>2
    <3> HIDE DEF next
    <3>2. Fits(Out(<<value>>, next), text, i)
      BY ONLY <2>1, <3>1, OutFits
    <3> QED BY <3>2 DEF next
  <2>4. OctalEscape(text, j) = Out(<<value>>, j + n)
    BY ONLY <1>4, <1>7, Zenon
  <2> QED BY ONLY <2>3, <2>4, Zenon DEF j
<1> QED BY <1>6, <1>7, Zenon

\* UTF-8 has no more than four bytes.
LEMMA BytesFew ==
  ASSUME NEW v \in Nat
  PROVE  Bytes(v) \in Seq(Nat) /\ Len(Bytes(v)) <= 4
<1>1. \A s \in {0, 6, 12, 18} : Six(v, s) \in 0 .. 63
  BY DEF Six
<1> DEFINE a == Six(v, 0)
           b == Six(v, 6)
           m == Six(v, 12)
           d == Six(v, 18)
<1>2. a \in Nat /\ b \in Nat /\ m \in Nat /\ d \in Nat
  BY <1>1
<1>3. Bytes(v) = IF v < 128 THEN <<v>>
                 ELSE IF v < 2048 THEN <<192 + b, 128 + a>>
                 ELSE IF v < 65536 THEN <<224 + m, 128 + b, 128 + a>>
                 ELSE <<240 + d, 128 + m, 128 + b, 128 + a>>
  BY DEF Bytes
<1> HIDE DEF a, b, m, d
<1>4. /\ <<v>> \in Seq(Nat) /\ <<192 + b, 128 + a>> \in Seq(Nat)
      /\ <<224 + m, 128 + b, 128 + a>> \in Seq(Nat)
      /\ <<240 + d, 128 + m, 128 + b, 128 + a>> \in Seq(Nat)
  BY <1>2
<1>5. /\ Len(<<v>>) <= 4 /\ Len(<<192 + b, 128 + a>>) <= 4
      /\ Len(<<224 + m, 128 + b, 128 + a>>) <= 4
      /\ Len(<<240 + d, 128 + m, 128 + b, 128 + a>>) <= 4
  OBVIOUS
<1> QED BY ONLY <1>3, <1>4, <1>5

\* A code point is written for at least five characters.
LEMMA EncodedFits ==
  ASSUME NEW text, NEW i, NEW v \in Nat, NEW next,
         next \in i + 5 .. Len(text) + 1, i \in Nat, Len(text) \in Nat
  PROVE  Fits(Encoded(v, next), text, i)
<1>1. CASE TooLarge(v)
  BY <1>1, ErrorsAre, UnparsableFits, Zenon DEF Encoded
<1>2. CASE ~TooLarge(v) /\ Surrogate(v)
  BY <1>2, ErrorsAre, UnparsableFits, Zenon DEF Encoded
<1>3. CASE ~TooLarge(v) /\ ~Surrogate(v)
  <2> DEFINE b == Bytes(v)
  <2>1. b \in Seq(Nat) /\ Len(b) <= 4
    BY BytesFew
  <2>2. Encoded(v, next) = Out(b, next)
    BY <1>3, Zenon DEF Encoded
  <2> HIDE DEF b
  <2>3. Len(b) \in Nat
    BY <2>1
  <2>4. next \in i + 1 .. Len(text) + 1 /\ Len(b) <= next - i
    BY <2>1, <2>3
  <2>5. Fits(Out(b, next), text, i)
    BY ONLY <2>1, <2>4, OutFits
  <2> QED BY <2>2, <2>5, Zenon
<1> QED BY <1>1, <1>2, <1>3, Zenon

\* Hexadecimal escapes fit.
LEMMA HexFits ==
  ASSUME NEW text, text \in Seq(Nat), NEW i \in Nat \ {0}, i + 1 <= Len(text)
  PROVE  Fits(Hexadecimal(text, i + 1), text, i)
<1> DEFINE j == i + 1
<1>1. j \in Nat \ {0} /\ j + 1 \in Nat \ {0} /\ j + 1 <= Len(text) + 1 /\ j = i + 1 /\ Len(text) \in Nat
  OBVIOUS
<1>2. i \in Nat /\ text \in Seq(Nat) /\ HexDigits \subseteq HexDigits
  OBVIOUS
<1> HIDE DEF j
<1>3. CASE text[j] = 120
  <2> DEFINE n == Run(text, j + 1, HexDigits, Len(text))
             digits(k) == SubSeq(text, j + 1, j + k)
             value == Value(digits(n), 16)
  <2>1. Hexadecimal(text, j) =
          IF n = 0 THEN Unparsable("EILSEQ")
          ELSE IF \E k \in 1 .. n : Value(digits(k), 16) > 255 THEN Unparsable("ERANGE")
          ELSE Out(<<value>>, j + n + 1)
    BY ONLY <1>3, Zenon DEF Hexadecimal
  <2>2. /\ n \in 0 .. Len(text) /\ j + 1 + n <= Len(text) + 1
        /\ SubSeq(text, j + 1, j + 1 + n - 1) \in Seq(Nat)
        /\ \A k \in 1 .. Len(SubSeq(text, j + 1, j + 1 + n - 1)) :
             SubSeq(text, j + 1, j + 1 + n - 1)[k] \in HexDigits
    BY ONLY <1>1, <1>2, RunReads
  <2> HIDE DEF n
  <2>3. j + 1 + n - 1 = j + n
    BY ONLY <1>1, <2>2
  <2>4. /\ digits(n) \in Seq(Nat)
        /\ \A k \in 1 .. Len(digits(n)) : digits(n)[k] \in HexDigits
    BY ONLY <2>2, <2>3, Zenon
  <2> HIDE DEF digits
  <2>5. value \in Nat
    BY ONLY <2>4, ValueIsNat
  <2> HIDE DEF value
  <2>6. CASE n = 0
    BY ONLY <2>1, <2>6, ErrorsAre, UnparsableFits, Zenon DEF j
  <2>7. CASE n # 0 /\ \E k \in 1 .. n : Value(digits(k), 16) > 255
    BY ONLY <2>1, <2>7, ErrorsAre, UnparsableFits, Zenon DEF j
  <2>8. CASE n # 0 /\ ~\E k \in 1 .. n : Value(digits(k), 16) > 255
    <3> DEFINE next == j + n + 1
    <3>1. <<value>> \in Seq(Nat) /\ Len(<<value>>) = 1
      BY ONLY <2>5
    <3>2. next \in i + 1 .. Len(text) + 1 /\ 1 <= next - i
      BY ONLY <1>1, <1>2, <2>2
    <3> HIDE DEF next
    <3>3. Fits(Out(<<value>>, next), text, i)
      BY ONLY <3>1, <3>2, OutFits
    <3>4. Hexadecimal(text, j) = Out(<<value>>, next)
      BY ONLY <2>1, <2>8, Zenon DEF next
    <3> QED BY ONLY <3>3, <3>4, Zenon DEF j
  <2> QED BY <2>6, <2>7, <2>8, Zenon
<1>4. CASE text[j] # 120
  <2> DEFINE wanted == IF text[j] = 117 THEN 4 ELSE 8
             n == Run(text, j + 1, HexDigits, wanted)
             digits == SubSeq(text, j + 1, j + n)
             value == Value(digits, 16)
  <2>1. Hexadecimal(text, j) =
          IF n < wanted THEN Unparsable("EILSEQ") ELSE Encoded(value, j + n + 1)
    BY ONLY <1>4, Zenon DEF Hexadecimal
  <2>2. wanted \in Nat /\ wanted >= 4
    OBVIOUS
  <2> HIDE DEF wanted
  <2>3. /\ n \in 0 .. wanted /\ j + 1 + n <= Len(text) + 1
        /\ SubSeq(text, j + 1, j + 1 + n - 1) \in Seq(Nat)
        /\ \A k \in 1 .. Len(SubSeq(text, j + 1, j + 1 + n - 1)) :
             SubSeq(text, j + 1, j + 1 + n - 1)[k] \in HexDigits
    BY ONLY <1>1, <1>2, <2>2, RunReads
  <2> HIDE DEF n
  <2>4. j + 1 + n - 1 = j + n
    BY ONLY <1>1, <2>2, <2>3
  <2>5. digits \in Seq(Nat) /\ \A k \in 1 .. Len(digits) : digits[k] \in HexDigits
    BY ONLY <2>3, <2>4, Zenon
  <2> HIDE DEF digits
  <2>6. value \in Nat
    BY ONLY <2>5, ValueIsNat
  <2> HIDE DEF value
  <2>7. CASE n < wanted
    BY ONLY <2>1, <2>7, ErrorsAre, UnparsableFits, Zenon DEF j
  <2>8. CASE ~(n < wanted)
    <3> DEFINE next == j + n + 1
    <3>1. next \in i + 5 .. Len(text) + 1
      BY ONLY <1>1, <1>2, <2>2, <2>3, <2>8
    <3> HIDE DEF next
    <3>2. Fits(Encoded(value, next), text, i)
      BY ONLY <1>1, <1>2, <2>6, <3>1, EncodedFits
    <3>3. Hexadecimal(text, j) = Encoded(value, next)
      BY ONLY <2>1, <2>8, Zenon DEF next
    <3> QED BY ONLY <3>2, <3>3, Zenon DEF j
  <2> QED BY <2>7, <2>8, Zenon
<1> QED BY <1>3, <1>4, Zenon

\* Whatever a text holds, each piece fits.
LEMMA PieceFits ==
  ASSUME NEW text, text \in Seq(Nat), NEW i \in 1 .. Len(text)
  PROVE  Fits(Piece(text, i), text, i)
<1> DEFINE e == At(text, i + 1)
<1>1. Len(text) \in Nat /\ i \in Nat \ {0} /\ i \in Nat /\ text[i] \in Nat
  OBVIOUS
<1>2. e \in Nat /\ (e # 0 => i + 1 <= Len(text))
  BY <1>1 DEF At
<1>3. \A b \in Nat : i + 1 \in i + 1 .. Len(text) + 1 /\ <<b>> \in Seq(Nat) /\ Len(<<b>>) <= (i + 1) - i
  BY <1>1
<1>4. \A b \in Nat : Fits(Out(<<b>>, i + 1), text, i)
  <2> SUFFICES ASSUME NEW b \in Nat PROVE Fits(Out(<<b>>, i + 1), text, i)
    OBVIOUS
  <2> DEFINE next == i + 1
  <2>1. next \in i + 1 .. Len(text) + 1 /\ <<b>> \in Seq(Nat) /\ Len(<<b>>) <= next - i
    BY <1>3
  <2> HIDE DEF next
  <2>2. Fits(Out(<<b>>, next), text, i)
    BY ONLY <2>1, OutFits
  <2> QED BY <2>2 DEF next
<1> HIDE DEF e
<1>5. CASE text[i] # Backslash
  <2>1. Piece(text, i) = Out(<<text[i]>>, i + 1)
    BY <1>5, PieceOther, Zenon
  <2> QED BY ONLY <1>1, <1>4, <2>1, Zenon
<1>6. CASE text[i] = Backslash /\ \E s \in SingleEscapes : s[1] = e
  <2> DEFINE s == CHOOSE s \in SingleEscapes : s[1] = e
  <2>1. s \in SingleEscapes
    BY <1>6, Zenon
  <2>2. Piece(text, i) = Out(<<s[2]>>, i + 1)
    BY ONLY <1>6, Zenon DEF Piece, e
  <2> HIDE DEF s
  <2>3. s[2] \in Nat
    BY ONLY <2>1 DEF SingleEscapes
  <2> QED BY ONLY <1>4, <2>2, <2>3, Zenon
<1>7. CASE text[i] = Backslash /\ (~\E s \in SingleEscapes : s[1] = e) /\ e = 0
  <2>1. Piece(text, i) = Unparsable("EBADMSG")
    BY ONLY <1>7, Zenon DEF Piece, e
  <2> QED BY ONLY <2>1, ErrorsAre, UnparsableFits, Zenon
<1>8. CASE text[i] = Backslash /\ (~\E s \in SingleEscapes : s[1] = e) /\ e # 0
  <2>1. i + 1 <= Len(text)
    BY <1>2, <1>8
  <2>2. text \in Seq(Nat)
    OBVIOUS
  <2>3. CASE e \in {117, 85, 120}
    <3>1. Piece(text, i) = Hexadecimal(text, i + 1)
      BY ONLY <1>8, <2>3, Zenon DEF Piece, e
    <3> QED BY ONLY <1>1, <2>1, <2>2, <3>1, HexFits, Zenon
  <2>4. CASE e \notin {117, 85, 120} /\ e \in Octal
    <3>1. Piece(text, i) = OctalEscape(text, i + 1)
      BY ONLY <1>8, <2>4, Zenon DEF Piece, e
    <3> QED BY ONLY <1>1, <2>1, <2>2, <3>1, OctalFits, Zenon
  <2>5. CASE e \notin {117, 85, 120} /\ e \notin Octal
    <3> DEFINE next == i + 2
               b == At(text, next)
    <3>1. Piece(text, i) = Out(<<b>>, next)
      BY ONLY <1>8, <2>5, Zenon DEF Piece, e
    <3>2. b \in Nat
      <4>1. next \in Nat \ {0}
        BY <1>1
      <4> HIDE DEF next
      <4> QED BY <4>1, <2>2 DEF At
    <3> HIDE DEF b
    <3>3. next \in i + 1 .. Len(text) + 1 /\ <<b>> \in Seq(Nat) /\ Len(<<b>>) <= next - i
      BY <1>1, <2>1, <3>2
    <3> HIDE DEF next
    <3>4. Fits(Out(<<b>>, next), text, i)
      BY ONLY <3>3, OutFits
    <3> QED BY ONLY <3>1, <3>4, Zenon
  <2> QED BY <2>3, <2>4, <2>5, Zenon
<1> QED BY <1>5, <1>6, <1>7, <1>8, Zenon

-----------------------------------------------------------------------------
(* unescape() from its recursion *)

\* What comes of the rest of a text.
Fine(r) == r.errno = ""
Outcome == [bytes : Seq(Nat), errno : Errors]
Done == [bytes |-> <<>>, errno |-> ""]
Failed(errno) == [bytes |-> <<>>, errno |-> errno]
Written(bytes, rest) == [bytes |-> bytes \o rest.bytes, errno |-> rest.errno]
Joined(piece, rest) ==
  [rest EXCEPT !.bytes = IF rest.errno = "" THEN piece.bytes \o @ ELSE <<>>]
After(f, text, i) ==
  IF i > Len(text) THEN Done
  ELSE IF ~Fine(Piece(text, i)) THEN Failed(Piece(text, i).errno)
  ELSE Joined(Piece(text, i), f[Piece(text, i).next])

\* An outcome is its two fields.
LEMMA RecordIs ==
  ASSUME NEW r, r \in Outcome
  PROVE  /\ r = [bytes |-> r.bytes, errno |-> r.errno]
         /\ r.bytes \in Seq(Nat) /\ r.errno \in Errors
BY DEF Outcome

\* The fields of outcomes.
LEMMA FailedIs ==
  /\ Fine(Done) /\ Done.bytes = <<>>
  /\ \A e : Failed(e).errno = e
  /\ \A b, r : Written(b, r).bytes = b \o r.bytes
  /\ \A b, r : Fine(Written(b, r)) <=> Fine(r)
BY Zenon DEF Fine, Done, Failed, Written

\* Two fields are an outcome.
LEMMA OutcomeIs ==
  ASSUME NEW b, b \in Seq(Nat), NEW e, e \in Errors
  PROVE  [bytes |-> b, errno |-> e] \in Outcome
BY DEF Outcome

\* What Joined is, by what the rest is.
LEMMA JoinedIs ==
  ASSUME NEW piece, piece.bytes \in Seq(Nat), NEW rest, rest \in Outcome
  PROVE  /\ Fine(rest) => Joined(piece, rest) = Written(piece.bytes, rest)
         /\ ~Fine(rest) => Joined(piece, rest) = Failed(rest.errno)
         /\ Joined(piece, rest) \in Outcome
<1> DEFINE b == rest.bytes
           e == rest.errno
<1>1. rest = [bytes |-> b, errno |-> e] /\ b \in Seq(Nat) /\ e \in Errors
  BY RecordIs, Zenon
<1>2. Joined(piece, rest) = [bytes |-> IF Fine(rest) THEN piece.bytes \o b ELSE <<>>, errno |-> e]
  <2>1. \A x : [[bytes |-> b, errno |-> e] EXCEPT !.bytes = x] = [bytes |-> x, errno |-> e]
    OBVIOUS
  <2>2. Joined(piece, rest) = [rest EXCEPT !.bytes = IF Fine(rest) THEN piece.bytes \o b ELSE <<>>]
    BY Zenon DEF Joined, Fine
  <2> HIDE DEF b, e
  <2> QED BY ONLY <1>1, <2>1, <2>2, Zenon
<1>3. piece.bytes \o b \in Seq(Nat)
  BY ONLY <1>1, piece.bytes \in Seq(Nat)
<1> QED BY <1>1, <1>2, <1>3, NoBytes, OutcomeIs, Zenon DEF Failed, Written

\* unescape() as the solution of its recursion.
LEMMA UnescapeRuns ==
  ASSUME NEW text, text \in Seq(Nat)
  PROVE  \E f \in [1 .. Len(text) + 1 -> Outcome] :
           f[1] = unescape(text) /\ \A i \in 1 .. Len(text) + 1 : f[i] = After(f, text, i)
<1> DEFINE D == 1 .. Len(text) + 1
           Step(f) == [i \in D |-> After(f, text, i)]
           before == [i \in D |-> Len(text) + 1 - i]
           step == [f \in [D -> Outcome] |-> Step(f)]
<1>0. Len(text) \in Nat
  OBVIOUS
<1>1. ASSUME NEW i \in D, i <= Len(text), Fine(Piece(text, i))
      PROVE  Piece(text, i).next \in D /\ before[Piece(text, i).next] < before[i]
  <2>1. i \in 1 .. Len(text)
    BY <1>0, <1>1
  <2>2. Piece(text, i).next \in i + 1 .. Len(text) + 1
    BY <1>1, <2>1, PieceFits, Zenon DEF Fits, Fine
  <2> DEFINE next == Piece(text, i).next
  <2> HIDE DEF next
  <2>3. next \in D /\ before[next] < before[i]
    BY <1>0, <2>1, <2>2 DEF next
  <2> QED BY <2>3 DEF next
<1>2. step \in [[D -> Outcome] -> [D -> Outcome]]
  <2>1. ASSUME NEW f \in [D -> Outcome], NEW i \in D PROVE After(f, text, i) \in Outcome
    <3>1. CASE i > Len(text)
      <4>1. "" \in Errors
        BY Zenon DEF Errors
      <4>2. Done \in Outcome
        BY <4>1, NoBytes, OutcomeIs, Zenon DEF Done
      <4> QED BY <3>1, <4>2, Zenon DEF After
    <3>2. CASE ~(i > Len(text))
      <4>1. i \in 1 .. Len(text) /\ i <= Len(text)
        BY <1>0, <3>2
      <4>2. Piece(text, i).errno \in Errors /\ Piece(text, i).bytes \in Seq(Nat)
        BY <4>1, PieceFits, Zenon DEF Fits
      <4>3. Failed(Piece(text, i).errno) \in Outcome
        BY <4>2, NoBytes, OutcomeIs, Zenon DEF Failed
      <4>4. Fine(Piece(text, i)) => f[Piece(text, i).next] \in Outcome
        BY <1>1, <4>1, Zenon
      <4>5. Fine(Piece(text, i)) => Joined(Piece(text, i), f[Piece(text, i).next]) \in Outcome
        BY <4>2, <4>4, JoinedIs, Zenon
      <4> QED BY <3>2, <4>3, <4>5, Zenon DEF After
    <3> QED BY <3>1, <3>2, Zenon
  <2>2. ASSUME NEW f \in [D -> Outcome] PROVE Step(f) \in [D -> Outcome]
    BY <2>1, Zenon
  <2> HIDE DEF Step
  <2> QED BY <2>2
<1>3. ASSUME NEW f \in [D -> Outcome], NEW g \in [D -> Outcome], NEW i \in D,
             \A e \in D : before[e] < before[i] => f[e] = g[e]
      PROVE  step[f][i] = step[g][i]
  <2>1. After(f, text, i) = After(g, text, i)
    <3>1. CASE i > Len(text)
      BY <3>1, Zenon DEF After
    <3>2. CASE ~(i > Len(text)) /\ ~Fine(Piece(text, i))
      BY <3>2, Zenon DEF After
    <3>3. CASE ~(i > Len(text)) /\ Fine(Piece(text, i))
      <4>1. i <= Len(text)
        BY <1>0, <3>3
      <4>2. f[Piece(text, i).next] = g[Piece(text, i).next]
        BY <1>1, <1>3, <3>3, <4>1, Zenon
      <4> QED BY ONLY <3>3, <4>2, Zenon DEF After
    <3> QED BY <3>1, <3>2, <3>3, Zenon
  <2>2. step[f][i] = After(f, text, i) /\ step[g][i] = After(g, text, i)
    BY Zenon
  <2> QED BY ONLY <2>1, <2>2, Zenon
<1>4. before \in [D -> Nat] /\ \A i \in D : before[i] < Len(text) + 1
  BY <1>0
<1>5. PICK f \in [D -> Outcome] : f = step[f]
  <2>1. Outcome # {} /\ Len(text) + 1 \in Nat
    <3>1. "" \in Errors
      BY Zenon DEF Errors
    <3>2. Done \in Outcome
      BY <3>1, NoBytes, OutcomeIs, Zenon DEF Done
    <3> QED BY ONLY <1>0, <3>2
  <2> HIDE DEF D, before, step
  <2>2. \A e, g \in [D -> Outcome] : \A i \in D :
          (\A j \in D : before[j] < before[i] => e[j] = g[j]) => step[e][i] = step[g][i]
    BY <1>3, Zenon
  <2>3. Grounded(D, Outcome, before, Len(text) + 1, step)
    BY <1>2, <1>4, <2>1, <2>2, Zenon DEF Grounded
  <2> QED BY ONLY <2>3, Solution
<1>6. f = Step(f)
  BY <1>5
<1> DEFINE g == CHOOSE f_1 : f_1 = Step(f_1)
<1>7. g = Step(g)
  BY <1>6, Zenon
<1>8. unescape(text) = g[1]
  BY Zenon DEF unescape, After, Fine, Done, Failed, Joined
<1>9. \A i \in D : f[i] = After(f, text, i) /\ g[i] = After(g, text, i)
  <2>1. \A i \in D : Step(f)[i] = After(f, text, i) /\ Step(g)[i] = After(g, text, i)
    BY Zenon
  <2> HIDE DEF Step, g
  <2> QED BY ONLY <1>6, <1>7, <2>1, Zenon
<1> HIDE DEF Step, g, step
<1>10. ASSUME NEW i \in D, \A e \in D : before[e] < before[i] => g[e] = f[e]
       PROVE  g[i] = f[i]
  <2>1. CASE i > Len(text)
    BY <1>9, <2>1, Zenon DEF After
  <2>2. CASE ~(i > Len(text)) /\ ~Fine(Piece(text, i))
    BY <1>9, <2>2, Zenon DEF After
  <2>3. CASE ~(i > Len(text)) /\ Fine(Piece(text, i))
    <3>1. i <= Len(text)
      BY <1>0, <2>3
    <3>2. f[Piece(text, i).next] = g[Piece(text, i).next]
      BY <1>1, <1>10, <2>3, <3>1, Zenon
    <3>3. After(f, text, i) = After(g, text, i)
      BY ONLY <2>3, <3>2, Zenon DEF After
    <3> QED BY ONLY <1>9, <3>3, Zenon
  <2> QED BY <2>1, <2>2, <2>3, Zenon
<1>11. \A i \in D : g[i] = f[i]
  <2> DEFINE n == Len(text) + 1
             T == {k \in 0 .. n : \A i \in D : before[i] < k => g[i] = f[i]}
  <2>1. n \in Nat /\ n \in 0 .. n /\ \A i \in D : before[i] \in Nat /\ before[i] < n
    BY <1>0, <1>4
  <2> HIDE DEF D, before, n
  <2>2. 0 \in T
    BY <2>1
  <2>3. ASSUME NEW k \in 1 .. n, k - 1 \in T PROVE k \in T
    <3>1. ASSUME NEW i \in D, before[i] < k PROVE g[i] = f[i]
      <4>1. \A e \in D : before[e] < before[i] => before[e] < k - 1
        BY <2>1, <3>1
      <4>2. \A e \in D : before[e] < before[i] => g[e] = f[e]
        BY <2>3, <4>1
      <4> QED BY <1>10, <4>2
    <3> QED BY <2>1, <3>1
  <2>4. \A k \in 0 .. n : k \in T
    <3> HIDE DEF T
    <3> QED BY <2>1, <2>2, <2>3, Upward
  <2> QED BY <2>1, <2>4
<1>12. 1 \in D
  BY <1>0
<1>13. f[1] = unescape(text)
  BY ONLY <1>8, <1>11, <1>12, Zenon
<1> QED BY <1>9, <1>13, Zenon

-----------------------------------------------------------------------------
(* The pieces of a text *)

\* Pieces of which a text can be made.
Pieces(n, s) == n \in Nat \ {0} /\ s \in [1 .. n -> Tokens] /\ Plain(s)

TextOf(s) == FlattenSeq([i \in DOMAIN s |-> s[i].text])

\* Where the pieces of a text end.
Ends(n, s, h) ==
  /\ h \in [0 .. n -> Seq(Nat)] /\ h[0] = <<>> /\ h[n] = TextOf(s)
  /\ \A k \in 1 .. n : h[k] = h[k - 1] \o s[k].text

\* What is assumed of the pieces of text.
LEMMA TokenIs ==
  ASSUME NEW t, t \in Tokens
  PROVE  /\ t.text \in Seq(Nat) /\ Len(t.text) >= 1 /\ t.text[1] \in Nat \ {0}
         /\ t.bytes \in Seq(Nat)
<1>1. t.text \in Seq(Nat \ {0}) /\ t.text # <<>> /\ t.bytes \in Seq(Nat)
  BY TokensAssumption, Zenon
<1> DEFINE w == t.text
<1>2. w \in Seq(Nat \ {0}) /\ w # <<>>
  BY <1>1
<1> HIDE DEF w
<1>3. w \in Seq(Nat) /\ Len(w) >= 1 /\ w[1] \in Nat \ {0}
  BY ONLY <1>2
<1> QED BY <1>1, <1>3, Zenon DEF w

\* A text has the ends of its pieces.
LEMMA EndsExist ==
  ASSUME NEW n, NEW s, Pieces(n, s)
  PROVE  \E h : Ends(n, s, h)
<1> USE DEF Pieces
<1>1. DOMAIN s = 1 .. n
  OBVIOUS
<1> DEFINE seqs == [i \in DOMAIN s |-> s[i].text]
<1>2. seqs \in [1 .. n -> Seq(Nat)] /\ \A k \in 1 .. n : seqs[k] = s[k].text
  <2>1. \A i \in 1 .. n : s[i].text \in Seq(Nat)
    BY TokenIs
  <2> QED BY <1>1, <2>1
<1>3. TextOf(s) = FlattenSeq(seqs)
  BY Zenon DEF TextOf
<1> HIDE DEF seqs
<1>4. PICK h \in [0 .. n -> Seq(Nat)] :
           /\ h[0] = <<>> /\ h[n] = FlattenSeq(seqs)
           /\ \A k \in 1 .. n : h[k] = h[k - 1] \o seqs[k]
  BY <1>2, FlattenRuns
<1>5. Ends(n, s, h)
  BY <1>2, <1>3, <1>4, Zenon DEF Ends
<1> QED BY <1>5, Zenon

\* A text is a sequence of bytes.
LEMMA TextIs ==
  ASSUME NEW n, NEW s, Pieces(n, s)
  PROVE  TextOf(s) \in Seq(Nat)
<1>1. PICK h : Ends(n, s, h)
  BY EndsExist
<1>2. n \in Nat /\ n \in 0 .. n
  BY DEF Pieces
<1> QED BY <1>1, <1>2 DEF Ends

\* Each piece stands where those before it end.
Placed(text, t, before, behind) ==
  /\ Stands(text, Len(before) + 1, t)
  /\ Len(behind) + 1 = Len(before) + 1 + Len(t.text)

LEMMA PieceStands ==
  ASSUME NEW n, NEW s, Pieces(n, s), NEW h, Ends(n, s, h), NEW k \in 1 .. n
  PROVE  Placed(TextOf(s), s[k], h[k - 1], h[k])
<1> DEFINE text == TextOf(s)
           t == s[k]
           w == t.text
           a == h[k - 1]
           i == Len(a) + 1
<1>1. /\ n \in Nat \ {0} /\ s \in [1 .. n -> Tokens] /\ k - 1 \in 0 .. n /\ k \in 0 .. n
      /\ n \in 0 .. n /\ k \in 1 .. n
  BY DEF Pieces
<1>2. /\ t \in Tokens /\ h \in [0 .. n -> Seq(Nat)] /\ h[n] = text /\ h[k] = a \o w
      /\ a \in Seq(Nat) /\ text \in Seq(Nat) /\ h[k] \in Seq(Nat)
  BY <1>1 DEF Ends
<1>3. w \in Seq(Nat) /\ Len(w) >= 1 /\ t.bytes \in Seq(Nat)
  BY <1>2, TokenIs
<1> HIDE DEF t, w, a, text
<1>10. \A m \in 0 .. n : Len(h[m]) <= Len(text) /\ \A e \in 1 .. Len(h[m]) : text[e] = h[m][e]
  <2>1. \A e \in 1 .. n : h[e] = h[e - 1] \o s[e].text
    BY Zenon DEF Ends
  <2> DEFINE seqs == [e \in 1 .. n |-> s[e].text]
  <2>2. seqs \in [1 .. n -> Seq(Nat)] /\ \A e \in 1 .. n : seqs[e] = s[e].text
    BY <1>1, TokenIs
  <2>3. \A e \in 1 .. n : h[e] = h[e - 1] \o seqs[e]
    BY <2>1, <2>2, Zenon
  <2> HIDE DEF seqs
  <2>4. \A m \in 0 .. n : /\ Len(h[m]) <= Len(h[n])
                          /\ \A e \in 1 .. Len(h[m]) : h[n][e] = h[m][e]
    BY ONLY <1>1, <1>2, <2>2, <2>3, FlattenKeeps
  <2> QED BY ONLY <1>2, <2>4, Zenon
<1>4. Len(h[k]) <= Len(text) /\ \A e \in 1 .. Len(h[k]) : text[e] = h[k][e]
  BY ONLY <1>1, <1>10, Zenon
<1>5. Len(h[k]) = Len(a) + Len(w) /\ Len(a) \in Nat /\ Len(w) \in Nat /\ Len(text) \in Nat
  BY ONLY <1>2, <1>3
<1>6. \A j \in 1 .. Len(w) : h[k][Len(a) + j] = w[j]
  BY ONLY <1>2, <1>3
<1>11. i = Len(a) + 1
  OBVIOUS
<1> HIDE DEF i
<1>7. Holds(text, i, w)
  <2>1. \A j \in 1 .. Len(w) : text[i + j - 1] = w[j]
    <3> SUFFICES ASSUME NEW j \in 1 .. Len(w) PROVE text[i + j - 1] = w[j]
      OBVIOUS
    <3>0. j \in 1 .. Len(w)
      OBVIOUS
    <3>1. i + j - 1 = Len(a) + j /\ Len(a) + j \in 1 .. Len(h[k])
      BY ONLY <1>5, <1>11, <3>0
    <3>2. h[k][Len(a) + j] = w[j]
      BY ONLY <1>6, <3>0
    <3> QED BY ONLY <1>4, <3>1, <3>2
  <2>2. i \in Nat \ {0} /\ i + Len(w) <= Len(text) + 1
    BY ONLY <1>4, <1>5, <1>11
  <2> QED BY ONLY <1>2, <1>3, <2>1, <2>2, Zenon DEF Holds
<1>8. i + Len(w) = Len(h[k]) + 1
  BY ONLY <1>5, <1>11
<1>9. t.open => At(text, i + Len(w)) \notin HexDigits
  <2>1. CASE k = n
    <3>1. ~(i + Len(w) <= Len(text))
      <4>1. Len(h[k]) = Len(text)
        BY ONLY <1>2, <2>1, Zenon
      <4> QED BY ONLY <1>5, <1>8, <4>1
    <3>2. 0 \notin HexDigits
      BY DEF HexDigits
    <3> QED BY ONLY <3>1, <3>2, Zenon DEF At
  <2>2. CASE k # n
    <3>1. k + 1 \in 1 .. n /\ (k + 1) - 1 = k /\ k \in 1 .. n - 1 /\ k + 1 \in 0 .. n
      BY <1>1, <2>2
    <3>2. t.open => s[k + 1].text[1] \notin HexDigits
      <4>1. Len(s) = n
        BY <1>1
      <4>2. \A e \in 1 .. Len(s) - 1 : s[e].open => s[e + 1].text[1] \notin HexDigits
        BY Zenon DEF Pieces, Plain
      <4>3. k \in 1 .. Len(s) - 1
        BY ONLY <3>1, <4>1
      <4> QED BY ONLY <4>2, <4>3, Zenon DEF t
    <3> DEFINE v == s[k + 1].text
    <3>3. v \in Seq(Nat) /\ Len(v) >= 1
      BY <1>1, <3>1, TokenIs
    <3>4. h[k + 1] = h[k] \o v /\ h[k + 1] \in Seq(Nat)
      BY <1>2, <3>1 DEF Ends
    <3>5. Len(h[k + 1]) = Len(h[k]) + Len(v) /\ h[k + 1][Len(h[k]) + 1] = v[1]
      BY ONLY <1>2, <3>3, <3>4
    <3>6. /\ Len(h[k + 1]) <= Len(text)
          /\ \A e \in 1 .. Len(h[k + 1]) : text[e] = h[k + 1][e]
      BY ONLY <1>10, <3>1, Zenon
    <3> HIDE DEF v
    <3>7. text[Len(h[k]) + 1] = v[1] /\ Len(h[k]) + 1 <= Len(text)
      <4>1. Len(h[k]) \in Nat /\ Len(v) \in Nat
        BY ONLY <1>2, <3>3
      <4> QED BY ONLY <1>5, <3>3, <3>5, <3>6, <4>1
    <3> QED BY ONLY <1>8, <3>2, <3>7, Zenon DEF At, v
  <2> QED BY <2>1, <2>2, Zenon
<1>12. Stands(text, i, t)
  BY ONLY <1>3, <1>7, <1>9, Zenon DEF Stands, w
<1>13. Placed(text, t, a, h[k])
  BY ONLY <1>8, <1>11, <1>12, Zenon DEF Placed, w
<1> QED BY ONLY <1>13, Zenon DEF text, t, a

-----------------------------------------------------------------------------
(* What the pieces come to *)

\* A piece of text without an error.
Right(t) == t.errno = ""

\* What comes of the pieces behind each.
Backward(n, s, g) ==
  /\ g \in [0 .. n -> Outcome] /\ g[n] = Done
  /\ \A k \in 1 .. n :
       /\ Right(s[k]) /\ Fine(g[k]) =>
            g[k - 1] = Written(s[k].bytes, g[k])
       /\ Right(s[k]) /\ ~Fine(g[k]) => g[k - 1] = Failed(g[k].errno)
       /\ ~Right(s[k]) => g[k - 1] = Failed(s[k].errno)

\* The fields of what a piece of text is to become.
LEMMA MeansIs ==
  ASSUME NEW t, NEW next
  PROVE  /\ Fine(Means(t, next)) <=> Right(t)
         /\ Means(t, next).errno = t.errno
         /\ Right(t) => Means(t, next).bytes = t.bytes /\ Means(t, next).next = next
BY Zenon DEF Means, Fine, Right, Out, Unparsable

\* A piece is read as what it means, up to the end of its text.
Reads(text, t, before, behind) ==
  Piece(text, Len(before) + 1) = Means(t, Len(behind) + 1)

\* From the end of one piece, the next is read, up to its end.
LEMMA PieceIs ==
  ASSUME NEW n, NEW s, Pieces(n, s), NEW h, Ends(n, s, h), NEW k \in 1 .. n, s[k].numeric
  PROVE  Reads(TextOf(s), s[k], h[k - 1], h[k])
<1> DEFINE i == Len(h[k - 1]) + 1
           j == Len(h[k]) + 1
<1> HIDE DEF i, j
<1>1. Stands(TextOf(s), i, s[k]) /\ j = i + Len(s[k].text)
  <2>1. Placed(TextOf(s), s[k], h[k - 1], h[k])
    BY PieceStands, Zenon
  <2> QED BY ONLY <2>1, Zenon DEF Placed, i, j
<1>2. s[k] \in Tokens
  BY DEF Pieces
<1>3. Numeric(s[k])
  BY <1>2, TokensAssumption, Zenon
<1>4. Piece(TextOf(s), i) = Means(s[k], j)
  BY ONLY <1>1, <1>3, NumericStands, Zenon
<1> QED BY ONLY <1>4, Zenon DEF Reads, i, j

\* The recursion of unescape() at the ends of the pieces.
LEMMA PiecesRead ==
  ASSUME NEW n, NEW s, Pieces(n, s), \A k \in 1 .. n : s[k].numeric
  PROVE  \E g : Backward(n, s, g) /\ g[0] = unescape(TextOf(s))
<1> DEFINE text == TextOf(s)
<1>1. PICK h : Ends(n, s, h)
  BY EndsExist
<1>2. text \in Seq(Nat)
  BY TextIs
<1> HIDE DEF text
<1>3. PICK f \in [1 .. Len(text) + 1 -> Outcome] :
         f[1] = unescape(text) /\ \A i \in 1 .. Len(text) + 1 : f[i] = After(f, text, i)
  BY <1>2, UnescapeRuns
<1>4. /\ n \in Nat \ {0} /\ h \in [0 .. n -> Seq(Nat)] /\ h[0] = <<>> /\ h[n] = text
      /\ n \in 0 .. n /\ 0 \in 0 .. n
  BY <1>1 DEF Pieces, Ends, text
<1>5. \A k \in 1 .. n : /\ Stands(text, Len(h[k - 1]) + 1, s[k])
                        /\ Len(h[k]) + 1 = Len(h[k - 1]) + 1 + Len(s[k].text)
  <2>1. \A k \in 1 .. n : Placed(text, s[k], h[k - 1], h[k])
    BY <1>1, PieceStands, Zenon DEF text
  <2> QED BY ONLY <2>1, Zenon DEF Placed
<1>6. \A k \in 1 .. n : /\ Len(h[k - 1]) + 1 \in 1 .. Len(text)
                        /\ ~(Len(h[k - 1]) + 1 > Len(text))
                        /\ Len(h[k]) + 1 \in 1 .. Len(text) + 1
  <2> SUFFICES ASSUME NEW k \in 1 .. n
               PROVE  /\ Len(h[k - 1]) + 1 \in 1 .. Len(text)
                      /\ ~(Len(h[k - 1]) + 1 > Len(text))
                      /\ Len(h[k]) + 1 \in 1 .. Len(text) + 1
    OBVIOUS
  <2>1. Stands(text, Len(h[k - 1]) + 1, s[k]) /\ Len(h[k]) + 1 = Len(h[k - 1]) + 1 + Len(s[k].text)
    BY <1>5
  <2> DEFINE i == Len(h[k - 1]) + 1
             w == s[k].text
             j == Len(h[k]) + 1
  <2>2. Holds(text, i, w) /\ Len(w) >= 1 /\ w \in Seq(Nat) /\ j = i + Len(w)
    BY <2>1, Zenon DEF Stands
  <2>3. Len(h[k]) \in Nat
    BY <1>4
  <2> HIDE DEF i, w, j
  <2>4. i \in Nat \ {0} /\ i + Len(w) <= Len(text) + 1
    BY <2>2, Zenon DEF Holds
  <2>5. i \in 1 .. Len(text) /\ ~(i > Len(text)) /\ j \in 1 .. Len(text) + 1
    <3>1. Len(text) \in Nat /\ Len(w) \in Nat
      BY <1>2, <2>2
    <3> QED BY ONLY <2>2, <2>4, <3>1
  <2> QED BY <2>5, Zenon DEF i, j
<1>7. \A k \in 1 .. n : Piece(text, Len(h[k - 1]) + 1) = Means(s[k], Len(h[k]) + 1)
  <2>1. \A k \in 1 .. n : Reads(text, s[k], h[k - 1], h[k])
    BY <1>1, PieceIs, Zenon DEF text
  <2> QED BY ONLY <2>1, Zenon DEF Reads
<1> DEFINE g == [k \in 0 .. n |-> f[Len(h[k]) + 1]]
<1>8. \A k \in 0 .. n : Len(h[k]) + 1 \in 1 .. Len(text) + 1
  <2> SUFFICES ASSUME NEW k \in 0 .. n PROVE Len(h[k]) + 1 \in 1 .. Len(text) + 1
    OBVIOUS
  <2>1. CASE k = 0
    <3>1. Len(h[k]) + 1 = 1 /\ Len(text) \in Nat
      BY <1>2, <1>4, <2>1
    <3> QED BY ONLY <3>1
  <2>2. CASE k # 0
    <3>1. k \in 1 .. n
      BY ONLY <1>4, k \in 0 .. n, <2>2
    <3> QED BY ONLY <1>6, <3>1, Zenon
  <2> QED BY <2>1, <2>2
<1>9. g \in [0 .. n -> Outcome]
  BY ONLY <1>3, <1>8
<1>10. g[n] = Done
  <2> DEFINE e == Len(text) + 1
  <2>1. e \in 1 .. e /\ e > Len(text)
    BY <1>2
  <2>2. g[n] = f[e]
    BY ONLY <1>4, Zenon
  <2> HIDE DEF g
  <2>3. f[e] = After(f, text, e)
    BY ONLY <1>3, <2>1, Zenon
  <2> HIDE DEF e
  <2> QED BY ONLY <2>1, <2>2, <2>3, Zenon DEF After
<1>11. g[0] = unescape(text)
  <2>1. g[0] = f[Len(<<>>) + 1]
    BY ONLY <1>4, Zenon
  <2>2. Len(<<>>) + 1 = 1
    OBVIOUS
  <2> HIDE DEF g
  <2> QED BY ONLY <1>3, <2>1, <2>2, Zenon
<1>12. \A k \in 1 .. n : /\ k \in 0 .. n /\ k - 1 \in 0 .. n
  BY ONLY <1>4
<1>13. ASSUME NEW k \in 1 .. n
       PROVE  /\ Right(s[k]) => g[k - 1] = Joined(Means(s[k], Len(h[k]) + 1), g[k])
              /\ ~Right(s[k]) => g[k - 1] = Failed(s[k].errno)
  <2> DEFINE i == Len(h[k - 1]) + 1
             j == Len(h[k]) + 1
             m == Means(s[k], j)
  <2>1. g[k - 1] = f[i] /\ g[k] = f[j]
    BY ONLY <1>12, k \in 1 .. n, Zenon
  <2> HIDE DEF g
  <2>2. i \in 1 .. Len(text) + 1 /\ ~(i > Len(text)) /\ Piece(text, i) = m
    BY <1>6, <1>7, <1>8, <1>12, Zenon
  <2>3. (Fine(m) <=> Right(s[k])) /\ m.errno = s[k].errno /\ (Right(s[k]) => m.next = j)
    BY MeansIs, Zenon
  <2> HIDE DEF i, j, m
  <2>4. f[i] = After(f, text, i)
    BY ONLY <1>3, <2>2, Zenon
  <2>5. /\ Right(s[k]) => f[i] = Joined(m, f[j])
        /\ ~Right(s[k]) => f[i] = Failed(s[k].errno)
    BY ONLY <2>2, <2>3, <2>4, Zenon DEF After
  <2> QED BY ONLY <2>1, <2>5, Zenon DEF m, j
<1> HIDE DEF g
<1>14. ASSUME NEW k \in 1 .. n
       PROVE  /\ Right(s[k]) /\ Fine(g[k]) =>
                   g[k - 1] = Written(s[k].bytes, g[k])
              /\ Right(s[k]) /\ ~Fine(g[k]) => g[k - 1] = Failed(g[k].errno)
              /\ ~Right(s[k]) => g[k - 1] = Failed(s[k].errno)
  <2> DEFINE m == Means(s[k], Len(h[k]) + 1)
  <2>1. g[k] \in Outcome /\ s[k].bytes \in Seq(Nat)
    BY <1>5, <1>9, <1>12 DEF Stands
  <2>2. Right(s[k]) => m.bytes = s[k].bytes
    BY MeansIs, Zenon
  <2>3. /\ Right(s[k]) => g[k - 1] = Joined(m, g[k])
        /\ ~Right(s[k]) => g[k - 1] = Failed(s[k].errno)
    BY <1>13
  <2> HIDE DEF m
  <2>4. CASE Right(s[k])
    <3>1. /\ Fine(g[k]) => Joined(m, g[k]) = Written(m.bytes, g[k])
          /\ ~Fine(g[k]) => Joined(m, g[k]) = Failed(g[k].errno)
      BY <2>1, <2>2, <2>4, JoinedIs, Zenon
    <3> QED BY ONLY <2>2, <2>3, <2>4, <3>1, Zenon
  <2> QED BY <2>3, <2>4, Zenon
<1>15. Backward(n, s, g)
  BY ONLY <1>9, <1>10, <1>14, Zenon DEF Backward
<1> QED BY <1>11, <1>15, Zenon DEF text

\* Without an error, the bytes of all pieces.
LEMMA AllRight ==
  ASSUME NEW n, NEW s, Pieces(n, s), NEW g, Backward(n, s, g), \A k \in 1 .. n : Right(s[k])
  PROVE  g[0] = [bytes |-> FlattenSeq([i \in DOMAIN s |-> s[i].bytes]), errno |-> ""]
<1>1. n \in Nat \ {0} /\ s \in [1 .. n -> Tokens] /\ DOMAIN s = 1 .. n /\ n \in Nat /\ 0 \in 0 .. n /\ n \in 0 .. n
  BY DEF Pieces
<1> DEFINE seqs == [i \in DOMAIN s |-> s[i].bytes]
<1>2. seqs \in [1 .. n -> Seq(Nat)] /\ \A k \in 1 .. n : seqs[k] = s[k].bytes
  <2>1. \A k \in 1 .. n : s[k].bytes \in Seq(Nat)
    BY <1>1, TokenIs
  <2> QED BY <1>1, <2>1
<1> HIDE DEF seqs
<1>3. PICK h \in [0 .. n -> Seq(Nat)] :
           /\ h[0] = <<>> /\ h[n] = FlattenSeq(seqs)
           /\ \A k \in 1 .. n : h[k] = h[k - 1] \o seqs[k]
  BY <1>1, <1>2, FlattenRuns
<1> DEFINE T == {k \in 0 .. n : Fine(g[k]) /\ h[k] \o g[k].bytes = h[n]}
<1>4. g[n] = Done /\ \A k \in 0 .. n : g[k] \in Outcome
  BY Zenon DEF Backward
<1>5. n \in T
  <2>1. Fine(g[n]) /\ g[n].bytes = <<>>
    BY ONLY <1>4, FailedIs, Zenon
  <2>2. h[n] \in Seq(Nat)
    BY ONLY <1>1, <1>3, Zenon
  <2>3. h[n] \o <<>> = h[n]
    BY ONLY <2>2
  <2> QED BY ONLY <1>1, <2>1, <2>3, Zenon
<1>6. \A k \in 1 .. n : k \in T => k - 1 \in T
  <2> SUFFICES ASSUME NEW k \in 1 .. n, k \in T PROVE k - 1 \in T
    BY Zenon
  <2>0. k \in 1 .. n /\ k - 1 \in 0 .. n /\ k \in 0 .. n
    BY <1>1
  <2>1. Fine(g[k]) /\ h[k] \o g[k].bytes = h[n]
    BY Zenon
  <2>2. g[k - 1] = Written(s[k].bytes, g[k])
    BY <2>0, <2>1, Zenon DEF Backward
  <2>3. Fine(g[k - 1]) /\ g[k - 1].bytes = s[k].bytes \o g[k].bytes
    BY ONLY <2>1, <2>2, FailedIs, Zenon
  <2>4. h[k] = h[k - 1] \o s[k].bytes
    BY ONLY <1>2, <1>3, <2>0, Zenon
  <2> DEFINE a == h[k - 1]
             b == s[k].bytes
             d == g[k].bytes
  <2>5. a \in Seq(Nat) /\ b \in Seq(Nat) /\ d \in Seq(Nat)
    <3>1. g[k] \in Outcome
      BY ONLY <1>4, <2>0, Zenon
    <3>2. s[k] \in Tokens
      BY ONLY <1>1, <2>0
    <3> QED BY <1>3, <2>0, <3>1, <3>2, TokenIs, RecordIs, Zenon
  <2> HIDE DEF a, b, d
  <2>6. a \o (b \o d) = (a \o b) \o d
    BY ONLY <2>5
  <2>7. h[k - 1] \o g[k - 1].bytes = h[n]
    BY ONLY <2>1, <2>3, <2>4, <2>6, Zenon DEF a, b, d
  <2> QED BY ONLY <2>0, <2>3, <2>7, Zenon
<1>7. 0 \in T
  <2> HIDE DEF T
  <2>1. \A k \in 0 .. n : k \in T
    BY ONLY <1>1, <1>5, <1>6, Downward
  <2> QED BY ONLY <1>1, <2>1, Zenon
<1>8. Fine(g[0]) /\ h[0] \o g[0].bytes = h[n]
  BY ONLY <1>7, Zenon
<1>9. g[0] = [bytes |-> g[0].bytes, errno |-> g[0].errno] /\ g[0].bytes \in Seq(Nat)
  BY ONLY <1>1, <1>4, RecordIs, Zenon
<1>10. <<>> \o g[0].bytes = g[0].bytes
  <2> DEFINE d == g[0].bytes
  <2>1. d \in Seq(Nat)
    BY ONLY <1>9, Zenon
  <2> HIDE DEF d
  <2>2. <<>> \o d = d
    BY ONLY <2>1
  <2> QED BY ONLY <2>2, Zenon DEF d
<1>11. g[0].bytes = FlattenSeq(seqs) /\ g[0].errno = ""
  BY ONLY <1>3, <1>8, <1>10, Zenon DEF Fine
<1> QED BY ONLY <1>9, <1>11, Zenon DEF seqs

\* Min is the smallest of some numbers.
LEMMA SmallestIs ==
  ASSUME NEW T, T \subseteq Nat, T # {}
  PROVE  Min(T) \in T /\ \A j \in T : Min(T) <= j
<1>1. PICK i \in T : \A j \in T : i <= j
  BY Smallest
<1> QED BY <1>1, Zenon DEF Min

\* With errors, the first.
LEMMA FirstWrong ==
  ASSUME NEW n, NEW s, Pieces(n, s), NEW g, Backward(n, s, g), NEW m \in 1 .. n,
         ~Right(s[m]), \A j \in 1 .. n : ~Right(s[j]) => m <= j
  PROVE  g[0] = Failed(s[m].errno)
<1> DEFINE T == {k \in 0 .. m - 1 : g[k] = Failed(s[m].errno)}
<1>1. n \in Nat /\ m \in Nat /\ m - 1 \in Nat /\ m \in 1 .. n /\ m - 1 \in 0 .. m - 1 /\ 0 \in 0 .. m - 1
  BY DEF Pieces
<1>2. g[m - 1] = Failed(s[m].errno)
  BY ONLY Backward(n, s, g), <1>1, ~Right(s[m]), Zenon DEF Backward
<1>3. m - 1 \in T
  BY ONLY <1>1, <1>2, Zenon
<1>4. ASSUME NEW k \in 1 .. m - 1, k \in T PROVE k - 1 \in T
  <2>1. k \in 1 .. n /\ ~(m <= k) /\ k - 1 \in 0 .. m - 1
    BY ONLY <1>1, <1>4
  <2>2. Right(s[k])
    BY ONLY <2>1, \A j \in 1 .. n : ~Right(s[j]) => m <= j, Zenon
  <2>3. g[k] = Failed(s[m].errno)
    BY <1>4
  <2>4. g[k].errno = s[m].errno
    BY ONLY <2>3, FailedIs, Zenon
  <2>5. ~Fine(g[k])
    BY ONLY <2>4, ~Right(s[m]), Zenon DEF Fine, Right
  <2>6. g[k - 1] = Failed(g[k].errno)
    BY ONLY Backward(n, s, g), <2>1, <2>2, <2>5, Zenon DEF Backward
  <2>7. g[k - 1] = Failed(s[m].errno)
    BY ONLY <2>4, <2>6, Zenon
  <2> QED BY ONLY <2>1, <2>7, Zenon
<1>5. 0 \in T
  <2>1. \A k \in 1 .. m - 1 : k \in T => k - 1 \in T
    BY ONLY <1>4, Zenon
  <2> HIDE DEF T
  <2>2. \A k \in 0 .. m - 1 : k \in T
    BY ONLY <1>1, <1>3, <2>1, Downward
  <2> QED BY ONLY <1>1, <2>2, Zenon
<1> QED BY ONLY <1>5, Zenon

\* What the pieces mean together.
MeaningOf(s) ==
  LET wrong == {i \in DOMAIN s : s[i].errno # ""}
  IN IF wrong = {} THEN [bytes |-> FlattenSeq([i \in DOMAIN s |-> s[i].bytes]), errno |-> ""]
     ELSE [bytes |-> <<>>, errno |-> s[Min(wrong)].errno]

\* The text of numeric escapes and literals comes out as what it means.
LEMMA NumericMeans ==
  ASSUME NEW n, NEW s, Pieces(n, s), \A k \in 1 .. n : s[k].numeric
  PROVE  unescape(TextOf(s)) = MeaningOf(s)
<1>1. PICK g : Backward(n, s, g) /\ g[0] = unescape(TextOf(s))
  BY PiecesRead
<1> DEFINE wrong == {i \in DOMAIN s : s[i].errno # ""}
<1>2. DOMAIN s = 1 .. n
  BY DEF Pieces
<1>3. \A i : i \in wrong <=> i \in 1 .. n /\ ~Right(s[i])
  BY ONLY <1>2, Zenon DEF Right
<1>4. MeaningOf(s) =
        IF wrong = {} THEN [bytes |-> FlattenSeq([i \in DOMAIN s |-> s[i].bytes]), errno |-> ""]
        ELSE Failed(s[Min(wrong)].errno)
  BY Zenon DEF MeaningOf, Failed
<1> HIDE DEF wrong
<1>5. CASE wrong = {}
  <2>1. \A k \in 1 .. n : Right(s[k])
    BY <1>3, <1>5, Zenon
  <2>2. g[0] = [bytes |-> FlattenSeq([i \in DOMAIN s |-> s[i].bytes]), errno |-> ""]
    BY <1>1, <2>1, AllRight, Zenon
  <2> QED BY ONLY <1>1, <1>4, <1>5, <2>2, Zenon
<1>6. CASE wrong # {}
  <2>1. wrong \subseteq Nat
    <3>1. \A i \in 1 .. n : i \in Nat
      BY DEF Pieces
    <3> QED BY ONLY <1>3, <3>1, Zenon
  <2> DEFINE m == Min(wrong)
  <2>2. m \in wrong /\ \A j \in wrong : m <= j
    BY <1>6, <2>1, SmallestIs, Zenon
  <2> HIDE DEF m
  <2>3. g[0] = Failed(s[m].errno)
    <3>1. m \in 1 .. n /\ ~Right(s[m]) /\ \A j \in 1 .. n : ~Right(s[j]) => m <= j
      BY ONLY <1>3, <2>2, Zenon
    <3> QED BY <1>1, <3>1, FirstWrong, Zenon
  <2> QED BY ONLY <1>1, <1>4, <1>6, <2>3, Zenon DEF m
<1> QED BY <1>5, <1>6

-----------------------------------------------------------------------------
(* The invariant and the theorems *)

\* A text is made of pieces, and the result is that of the text.
UnescapeInv ==
  /\ written # Nothing => \E n : Pieces(n, written)
  /\ result # Nothing => written # Nothing /\ result = unescape(Text)

\* The text and the meaning of the state are those of its pieces.
LEMMA TextOfWritten == Text = TextOf(written) /\ Meaning = MeaningOf(written)
BY Zenon DEF Text, TextOf, Meaning, MeaningOf

\* The invariant holds at first.
LEMMA UnescapeInvInit == UnescapeInit => UnescapeInv
<1> SUFFICES ASSUME UnescapeInit PROVE UnescapeInv
  OBVIOUS
<1>1. result = Nothing
  BY DEF UnescapeInit
<1>2. ASSUME written # Nothing PROVE \E n : Pieces(n, written)
  <2>1. written \in UNION {[1 .. n -> Tokens] : n \in 1 .. MaxTokens} /\ Plain(written)
    BY <1>2 DEF UnescapeInit
  <2>2. PICK n \in 1 .. MaxTokens : written \in [1 .. n -> Tokens]
    BY <2>1
  <2>3. n \in Nat \ {0}
    BY TokensAssumption
  <2> QED BY <2>1, <2>2, <2>3 DEF Pieces
<1> QED BY <1>1, <1>2, Zenon DEF UnescapeInv

\* unescape() keeps it.
LEMMA UnescapeInvStep == UnescapeInv /\ [Convert]_textVars => UnescapeInv'
<1> SUFFICES ASSUME UnescapeInv, [Convert]_textVars PROVE UnescapeInv'
  OBVIOUS
<1>1. CASE Convert
  <2>1. written' = written /\ written # Nothing /\ result' = unescape(Text)
    BY <1>1, Zenon DEF Convert
  <2>2. Text' = Text
    BY ONLY <2>1, Zenon DEF Text
  <2> QED BY ONLY UnescapeInv, <2>1, <2>2, Zenon DEF UnescapeInv
<1>2. CASE UNCHANGED textVars
  <2>1. written' = written /\ result' = result
    BY ONLY <1>2 DEF textVars
  <2>2. Text' = Text
    BY ONLY <2>1, Zenon DEF Text
  <2> QED BY ONLY UnescapeInv, <2>1, <2>2, Zenon DEF UnescapeInv
<1> QED BY <1>1, <1>2

\* Once there is a result, it is what unescape() makes of the text of good pieces.
THEOREM UnescapeInvAlways == UnescapeSpec => []UnescapeInv
BY UnescapeInvInit, UnescapeInvStep, PTL DEF UnescapeSpec

\* It implies the decoding.
LEMMA DecodedFromInv == UnescapeInv => NumericEscapesDecoded
<1> SUFFICES ASSUME UnescapeInv, result # Nothing, \A i \in DOMAIN written : written[i].numeric
             PROVE  result = Meaning
  BY Zenon DEF NumericEscapesDecoded
<1>1. PICK n : Pieces(n, written)
  BY Zenon DEF UnescapeInv
<1>2. \A k \in 1 .. n : written[k].numeric
  <2>1. DOMAIN written = 1 .. n
    BY <1>1 DEF Pieces
  <2> QED BY <2>1, Zenon
<1>3. unescape(TextOf(written)) = MeaningOf(written)
  BY <1>1, <1>2, NumericMeans, Zenon
<1> QED BY <1>3, TextOfWritten, Zenon DEF UnescapeInv

\* It implies that nothing overtakes.
LEMMA FitsFromInv == UnescapeInv => NeverOvertakes
<1> SUFFICES ASSUME UnescapeInv, written # Nothing, NEW i \in DOMAIN Text,
                    Piece(Text, i).errno = ""
             PROVE  /\ Piece(Text, i).next \in i + 1 .. Len(Text) + 1
                    /\ Len(Piece(Text, i).bytes) <= Piece(Text, i).next - i
  BY Zenon DEF NeverOvertakes
<1>1. PICK n : Pieces(n, written)
  BY Zenon DEF UnescapeInv
<1> DEFINE text == Text
<1>2. text \in Seq(Nat)
  BY <1>1, TextIs, TextOfWritten, Zenon
<1>3. i \in DOMAIN text /\ Piece(text, i).errno = ""
  OBVIOUS
<1> HIDE DEF text
<1>4. i \in 1 .. Len(text)
  <2>1. i \in DOMAIN text
    BY ONLY <1>3, Zenon
  <2> QED BY ONLY <1>2, <2>1
<1>5. Fits(Piece(text, i), text, i)
  BY ONLY <1>2, <1>4, PieceFits, Zenon
<1> QED BY ONLY <1>3, <1>5, Zenon DEF Fits, text

\* For texts of any length the bytes written are those of the pieces, or the error is
\* that of the first piece that has one.
THEOREM NumericEscapesDecodedAlways == UnescapeSpec => []NumericEscapesDecoded
BY UnescapeInvAlways, DecodedFromInv, PTL

\* What is written never passes what is still to be read, whatever the text.
THEOREM NeverOvertakesAlways == UnescapeSpec => []NeverOvertakes
BY UnescapeInvAlways, FitsFromInv, PTL
=============================================================================
