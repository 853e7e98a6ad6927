------------------------- MODULE Redundansi_proofs -------------------------
(***************************************************************************)
(* For any input, any size of the buffer, any number of attributes and     *)
(* parameters of any value: nothing but ESC bytes gets to the end of the   *)
(* buffer and behind it, and the parameters of an attribute fit the places *)
(* there are for them.  While the input is orderly, each line shows in     *)
(* less as on a terminal; DocumentedInput says of which sequences.         *)
(*                                                                         *)
(* The model's loops over bytes, numbers, groups and classes are folds.    *)
(* FoldSolution and FoldRuns turn a fold into the history of its results,  *)
(* one for each position (Runs); the lemmas named after a loop say so of   *)
(* that loop, and RunsAgree compares two histories.                        *)
(*                                                                         *)
(* ParserInv is what holds of each byte, LessInv how far a sequence is     *)
(* held and that what is kept is what a terminal shows.                    *)
(***************************************************************************)
EXTENDS Redundansi, FiniteSetTheorems, SequenceTheorems, TLAPS

\* Numbers have a smallest one.
LEMMA Smallest ==
  ASSUME NEW T, T \subseteq Nat, T # {}
  PROVE  \E i \in T : \A j \in T : i <= j
<1> DEFINE below == {k \in Nat : \A t \in T : k < t}
           i == Cardinality(below)
<1>1. ASSUME NEW t \in T PROVE IsFiniteSet(below) /\ i <= t
  <2>1. IsFiniteSet(0 .. t - 1) /\ Cardinality(0 .. t - 1) = t
    <3>1. t \in Nat /\ t - 1 \in Int /\ 0 \in Int
      OBVIOUS
    <3>2. Cardinality(0 .. t - 1) = IF 0 > t - 1 THEN 0 ELSE t - 1 - 0 + 1
      BY <3>1, FS_Interval
    <3> QED
      BY <3>1, <3>2, FS_Interval
  <2>2. below \subseteq 0 .. t - 1
    OBVIOUS
  <2> QED
    BY <2>1, <2>2, FS_Subset
<1>2. i \in Nat
  BY <1>1, FS_CardinalityType
<1>3. i \notin below
  <2> SUFFICES ASSUME i \in below PROVE FALSE
    OBVIOUS
  <2>1. IsFiniteSet(0 .. i) /\ Cardinality(0 .. i) = i + 1
    <3> HIDE DEF i
    <3> QED
      BY <1>2, FS_Interval
  <2>2. 0 .. i \subseteq below
    BY <1>2
  <2>3. Cardinality(0 .. i) <= i
    BY <1>1, <2>2, FS_Subset
  <2> HIDE DEF i
  <2> QED
    BY <1>2, <2>1, <2>3
<1>4. PICK t \in T : t <= i
  <2> HIDE DEF i
  <2> QED
    BY <1>2, <1>3
<1>5. i = t
  <2>1. i <= t /\ t \in Nat
    BY <1>1
  <2> HIDE DEF i
  <2> QED
    BY <1>2, <1>4, <2>1
<1> QED
  BY <1>1, <1>5

\* Max is the largest of some numbers.
LEMMA LargestOf ==
  ASSUME NEW n \in Nat, NEW S \in SUBSET (1 .. n), S # {}
  PROVE  Max(S) \in S /\ \A i \in S : i <= Max(S)
<1> DEFINE T == {n - i : i \in S}
<1>1. T \subseteq Nat /\ T # {}
  <2>1. ASSUME NEW i \in S PROVE n - i \in Nat
    <3>1. i \in 1 .. n
      OBVIOUS
    <3> QED
      BY <3>1
  <2>2. PICK i : i \in S
    OBVIOUS
  <2>3. n - i \in T
    BY <2>2
  <2> QED
    BY <2>1, <2>3, Zenon
<1>2. PICK t \in T : \A u \in T : t <= u
  <2> HIDE DEF T
  <2> QED
    BY <1>1, Smallest
<1>3. PICK i \in S : t = n - i
  OBVIOUS
<1>4. \A j \in S : i >= j
  BY <1>2, <1>3
<1>5. Max(S) \in S /\ \A y \in S : Max(S) >= y
  BY <1>4 DEF Max
<1> QED
  BY <1>5

\* A number that is at least the others is the largest.
LEMMA LargestIs ==
  ASSUME NEW n \in Nat, NEW S \in SUBSET (1 .. n), n \in S
  PROVE  Max(S) = n
<1>1. \A y \in S : n >= y
  <2>1. \A y \in S : y \in 1 .. n
    OBVIOUS
  <2> QED
    BY <2>1
<1>2. Max(S) \in S /\ \A y \in S : Max(S) >= y
  BY <1>1 DEF Max
<1>3. Max(S) \in 1 .. n
  BY <1>2
<1>4. n >= Max(S) /\ Max(S) >= n
  BY <1>1, <1>2
<1> HIDE DEF Max
<1> QED
  BY <1>3, <1>4

\* One step of a fold over the positions of a sequence s, from the last one down.
Folding(op, init, s, f, S) ==
  IF S = {} THEN init ELSE op[f[S \ {Max(S)}]][s[Max(S)]]

\* What is folded: s, of elements of B, into elements of A, by op from init on.
Foldable(A, B, op, init, n, s) ==
  op \in [A -> [B -> A]] /\ init \in A /\ n \in Nat /\ s \in [1 .. n -> B]

\* f does it by these steps, and stays in A.
Folds(A, B, op, init, n, s, f) ==
  /\ f = [S \in SUBSET (1 .. n) |-> f[S]] /\ f[{}] = init
  /\ \A S \in SUBSET (1 .. n) :
       S # {} => /\ f[S] = op[f[S \ {Max(S)}]][s[Max(S)]]
                 /\ f[S \ {Max(S)}] \in A /\ s[Max(S)] \in B

\* There is a function that does a fold by these steps.
LEMMA FoldSolution ==
  ASSUME NEW A, NEW B, NEW op, NEW init, NEW n, NEW s, Foldable(A, B, op, init, n, s)
  PROVE  \E f : Folds(A, B, op, init, n, s, f)
<1> DEFINE Good(k) == \E f \in [SUBSET (1 .. k) -> A] :
                        \A S \in SUBSET (1 .. k) : f[S] = Folding(op, init, s, f, S)
           Bad == {k \in 0 .. n : ~Good(k)}
<1>0. op \in [A -> [B -> A]] /\ init \in A /\ n \in Nat /\ s \in [1 .. n -> B]
  BY DEF Foldable
<1> USE <1>0
<1>1. Good(0)
  <2> DEFINE f == [S \in SUBSET (1 .. 0) |-> init]
  <2>1. 1 .. 0 = {}
    OBVIOUS
  <2>2. f \in [SUBSET (1 .. 0) -> A]
    OBVIOUS
  <2>3. \A S \in SUBSET (1 .. 0) : f[S] = Folding(op, init, s, f, S)
    BY <2>1 DEF Folding
  <2> QED
    BY <2>2, <2>3
<1>2. ASSUME NEW k \in 1 .. n, Good(k - 1) PROVE Good(k)
  <2>0. k \in Nat /\ k - 1 \in Nat
    OBVIOUS
  <2>1. PICK g \in [SUBSET (1 .. k - 1) -> A] :
          \A S \in SUBSET (1 .. k - 1) : g[S] = Folding(op, init, s, g, S)
    BY <1>2
  <2> DEFINE f == [S \in SUBSET (1 .. k) |->
                     IF k \in S THEN op[g[S \ {k}]][s[k]] ELSE g[S]]
  <2>2. ASSUME NEW S \in SUBSET (1 .. k)
        PROVE  /\ S \ {k} \in SUBSET (1 .. k - 1)
               /\ k \notin S => S \in SUBSET (1 .. k - 1)
    <3>1. \A i \in 1 .. k : i # k => i \in 1 .. k - 1
      BY <2>0
    <3> QED
      BY <3>1
  <2>3. ASSUME NEW S \in SUBSET (1 .. k), k \notin S
        PROVE  f[S] = g[S] /\ g[S] \in A
    BY <2>2, <2>3
  <2>4. ASSUME NEW S \in SUBSET (1 .. k), k \in S
        PROVE  f[S] = op[g[S \ {k}]][s[k]] /\ f[S] \in A
    <3>1. g[S \ {k}] \in A /\ s[k] \in B
      BY <2>2
    <3>3. f[S] = op[g[S \ {k}]][s[k]]
      BY <2>4, Zenon
    <3>4. op[g[S \ {k}]] \in [B -> A]
      BY <3>1
    <3> HIDE DEF f
    <3> QED
      BY <3>1, <3>3, <3>4
  <2>5. \A S \in SUBSET (1 .. k) : f[S] \in A
    BY <2>3, <2>4
  <2>6. f \in [SUBSET (1 .. k) -> A]
    <3>1. f = [S \in SUBSET (1 .. k) |-> f[S]]
      BY Zenon
    <3> HIDE DEF f
    <3> QED
      BY <2>5, <3>1
  <2>7. ASSUME NEW S \in SUBSET (1 .. k) PROVE f[S] = Folding(op, init, s, f, S)
    <3>1. CASE k \in S
      <4>1. Max(S) = k
        BY <2>0, <3>1, LargestIs
      <4>2. S # {} /\ k \notin S \ {k} /\ S \ {k} \in SUBSET (1 .. k)
        BY <3>1
      <4>3. f[S \ {k}] = g[S \ {k}]
        BY <2>3, <4>2
      <4> HIDE DEF f
      <4> QED
        BY <2>4, <3>1, <4>1, <4>2, <4>3 DEF Folding
    <3>2. CASE k \notin S /\ S # {}
      <4>1. f[S] = g[S] /\ g[S] = Folding(op, init, s, g, S)
        BY <2>1, <2>2, <2>3, <3>2
      <4>2. k \notin S \ {Max(S)} /\ S \ {Max(S)} \in SUBSET (1 .. k)
        BY <3>2
      <4>3. f[S \ {Max(S)}] = g[S \ {Max(S)}]
        BY <2>3, <4>2
      <4> HIDE DEF f
      <4> QED
        BY <3>2, <4>1, <4>3 DEF Folding
    <3>3. CASE S = {}
      <4>1. f[S] = g[S] /\ g[S] = Folding(op, init, s, g, S)
        BY <2>1, <2>2, <2>3, <3>3
      <4> HIDE DEF f
      <4> QED
        BY <3>3, <4>1 DEF Folding
    <3> QED
      BY <3>1, <3>2, <3>3
  <2> HIDE DEF f
  <2> QED
    BY <2>6, <2>7
<1>3. Bad = {}
  <2> SUFFICES ASSUME Bad # {} PROVE FALSE
    OBVIOUS
  <2>1. Bad \subseteq 0 .. n /\ Bad \subseteq Nat
    OBVIOUS
  <2>2. PICK k \in Bad : \A m \in Bad : k <= m
    <3> HIDE DEF Bad
    <3> QED
      BY <2>1, Smallest
  <2>3. k \in 0 .. n /\ ~Good(k)
    BY <2>2
  <2> HIDE DEF Good
  <2>4. k \in 1 .. n
    BY <1>1, <2>3
  <2>5. ~(k - 1 \in Bad)
    <3>1. ~(k <= k - 1)
      BY <2>4
    <3> HIDE DEF Bad
    <3> QED
      BY <2>2, <3>1
  <2>6. Good(k - 1)
    BY <2>4, <2>5
  <2> QED
    BY <1>2, <2>3, <2>4, <2>6
<1>4. Good(n)
  <2>1. n \in 0 .. n /\ n \notin Bad
    <3>1. n \in 0 .. n
      OBVIOUS
    <3> HIDE DEF Bad
    <3> QED
      BY <1>3, <3>1
  <2> HIDE DEF Good
  <2> QED
    BY <2>1, Zenon
<1>5. PICK f \in [SUBSET (1 .. n) -> A] :
        \A S \in SUBSET (1 .. n) : f[S] = Folding(op, init, s, f, S)
  BY <1>4
<1>6. f = [S \in SUBSET (1 .. n) |-> f[S]] /\ f[{}] = init
  BY <1>5 DEF Folding
<1>7. ASSUME NEW S \in SUBSET (1 .. n), S # {}
      PROVE  /\ f[S] = op[f[S \ {Max(S)}]][s[Max(S)]]
             /\ f[S \ {Max(S)}] \in A /\ s[Max(S)] \in B
  <2>1. Max(S) \in 1 .. n /\ S \ {Max(S)} \in SUBSET (1 .. n)
    BY <1>7, LargestOf
  <2> QED
    BY <1>5, <1>7, <2>1 DEF Folding
<1> QED
  BY <1>6, <1>7 DEF Folds

\* A function does it, as long as it stays in A.
Follows(A, B, op, init, n, s, g) ==
  /\ g[{}] = init
  /\ \A S \in SUBSET (1 .. n) :
       S # {} /\ g[S \ {Max(S)}] \in A /\ s[Max(S)] \in B =>
         g[S] = op[g[S \ {Max(S)}]][s[Max(S)]]

\* h goes through the positions one by one, up to result.
Runs(A, op, init, n, s, result, h) ==
  /\ h \in [0 .. n -> A] /\ h[0] = init /\ h[n] = result
  /\ \A k \in 1 .. n : h[k] = op[h[k - 1]][s[k]]

\* Whatever does, goes through the positions one by one.
LEMMA FoldRuns ==
  ASSUME NEW A, NEW B, NEW op, NEW init, NEW n, NEW s, NEW g,
         Foldable(A, B, op, init, n, s), Follows(A, B, op, init, n, s, g)
  PROVE  \E h : Runs(A, op, init, n, s, g[1 .. n], h)
<1> DEFINE h == [k \in 0 .. n |-> g[1 .. k]]
           Bad == {k \in 0 .. n : g[1 .. k] \notin A}
<1>0. /\ op \in [A -> [B -> A]] /\ init \in A /\ n \in Nat /\ s \in [1 .. n -> B]
      /\ g[{}] = init
      /\ \A S \in SUBSET (1 .. n) :
           S # {} /\ g[S \ {Max(S)}] \in A /\ s[Max(S)] \in B =>
             g[S] = op[g[S \ {Max(S)}]][s[Max(S)]]
  BY DEF Foldable, Follows
<1> USE <1>0
<1>1. g[1 .. 0] = init
  <2>1. 1 .. 0 = {}
    OBVIOUS
  <2> QED
    BY <2>1
<1>2. ASSUME NEW k \in 1 .. n, g[1 .. k - 1] \in A
      PROVE  g[1 .. k] = op[g[1 .. k - 1]][s[k]] /\ g[1 .. k] \in A
  <2>1. k \in Nat /\ k \in 1 .. k
    OBVIOUS
  <2>2. Max(1 .. k) = k
    BY <2>1, LargestIs
  <2>3. (1 .. k) \ {k} = 1 .. k - 1 /\ 1 .. k # {} /\ 1 .. k \in SUBSET (1 .. n)
    <3>1. \A i : i \in 1 .. k /\ i # k <=> i \in 1 .. k - 1
      BY <2>1
    <3>2. \A i \in 1 .. k : i \in 1 .. n
      BY <2>1
    <3> QED
      BY <2>1, <3>1, <3>2, Zenon
  <2>4. g[1 .. k] = op[g[1 .. k - 1]][s[k]]
    BY <1>2, <2>2, <2>3
  <2> QED
    BY <1>2, <2>4
<1>3. Bad = {}
  <2> SUFFICES ASSUME Bad # {} PROVE FALSE
    OBVIOUS
  <2>1. Bad \subseteq 0 .. n /\ Bad \subseteq Nat
    OBVIOUS
  <2>2. PICK k \in Bad : \A m \in Bad : k <= m
    <3> HIDE DEF Bad
    <3> QED
      BY <2>1, Smallest
  <2>3. k \in 0 .. n /\ g[1 .. k] \notin A
    BY <2>2
  <2>4. k \in 1 .. n
    <3>1. k # 0
      BY <1>1, <2>3
    <3> QED
      BY <2>3, <3>1
  <2>5. ~(k - 1 \in Bad)
    <3>1. ~(k <= k - 1)
      BY <2>4
    <3> HIDE DEF Bad
    <3> QED
      BY <2>2, <3>1
  <2>6. g[1 .. k - 1] \in A
    BY <2>4, <2>5
  <2> QED
    BY <1>2, <2>3, <2>4, <2>6
<1>4. \A k \in 0 .. n : h[k] = g[1 .. k] /\ g[1 .. k] \in A
  BY <1>3
<1>5. h \in [0 .. n -> A]
  BY <1>4
<1>6. ASSUME NEW k \in 1 .. n PROVE h[k] = op[h[k - 1]][s[k]]
  <2>1. k - 1 \in 0 .. n /\ k \in 0 .. n
    OBVIOUS
  <2>2. h[k] = g[1 .. k] /\ h[k - 1] = g[1 .. k - 1] /\ g[1 .. k - 1] \in A
    BY <1>4, <2>1
  <2> HIDE DEF h
  <2> QED
    BY <1>2, <2>2
<1>7. h[0] = init /\ h[n] = g[1 .. n]
  BY <1>1
<1> HIDE DEF h
<1> QED
  BY <1>5, <1>6, <1>7 DEF Runs

-----------------------------------------------------------------------------
(* The loops of the filter                                                  *)

Tokens == [kind : Kinds, value : Nat, width : Nat \ {0}]
Codes == Seq(Nat)
Parameters == Seq(Nat) \ {<<>>}
\* At most five parameters, as in an extended colour.
Few == {parameters \in Seq(Nat) : Len(parameters) <= 5}
Group == {group \in Few : group # <<>>}
Attributes == [Class -> Seq(Nat)]
\* What is kept for a class has set it.
Kept ==
  {a \in [Class -> Few] : \A c \in Class : a[c] # <<>> => Sets(Head(a[c])) = c}

\* The zero that may be left out is a number of one byte.
LEMMA ZeroIsToken == Zero \in Tokens
<1>1. 1 \in Nat \ {0} /\ 0 \in Nat /\ "number" \in Kinds
  BY DEF Kinds
<1> QED
  BY <1>1 DEF Zero, Tokens

\* Every token has a width.
LEMMA WidthOK == \A token \in Tokens : Width(token) \in Nat
<1> TAKE token \in Tokens
<1>1. token.width \in Nat
  BY DEF Tokens
<1> QED
  BY <1>1 DEF Width

\* The bytes of an escape sequence add up.
LEMMA LengthRuns ==
  ASSUME NEW n \in Nat, NEW s \in [1 .. n -> Tokens]
  PROVE  \E h \in [0 .. n -> Nat] :
           /\ h[0] = 0 /\ h[n] = escapelen(s)
           /\ \A k \in 1 .. n : h[k] = h[k - 1] + Width(s[k])
<1> DEFINE op == [x \in Nat |-> [y \in Tokens |-> x + Width(y)]]
           Step(f) == [S \in SUBSET (DOMAIN s) |->
                         IF S = {} THEN 0 ELSE f[S \ {Max(S)}] + Width(s[Max(S)])]
<1>1. \A x \in Nat, y \in Tokens : x + Width(y) \in Nat
  BY WidthOK
<1>2. op \in [Nat -> [Tokens -> Nat]] /\ 0 \in Nat
  BY <1>1
<1>3. \A x \in Nat, y \in Tokens : op[x][y] = x + Width(y)
  OBVIOUS
<1> HIDE DEF op
<1>4. Foldable(Nat, Tokens, op, 0, n, s)
  BY <1>2 DEF Foldable
<1>5. PICK f : Folds(Nat, Tokens, op, 0, n, s, f)
  BY <1>4, FoldSolution
<1>6. f = Step(f)
  <2>1. ASSUME NEW S \in SUBSET (1 .. n)
        PROVE  f[S] = IF S = {} THEN 0 ELSE f[S \ {Max(S)}] + Width(s[Max(S)])
    BY <1>3, <1>5 DEF Folds
  <2>2. f = [S \in SUBSET (DOMAIN s) |-> f[S]] /\ DOMAIN s = 1 .. n
    BY <1>5 DEF Folds
  <2> QED
    BY <2>1, <2>2, Zenon
<1> DEFINE g == CHOOSE f_1 : f_1 = Step(f_1)
<1>7. g = Step(g)
  BY <1>6, Zenon
<1> DEFINE result == escapelen(s)
<1>8. result = g[1 .. n]
  <2>1. result = g[DOMAIN s]
    BY Zenon DEF escapelen, FoldLeft, MapThenFoldSet
  <2> HIDE DEF g, result
  <2> QED
    BY <2>1
<1> HIDE DEF g
<1>9. Follows(Nat, Tokens, op, 0, n, s, g)
  <2>1. \A S \in SUBSET (1 .. n) :
          g[S] = IF S = {} THEN 0 ELSE g[S \ {Max(S)}] + Width(s[Max(S)])
    BY <1>7
  <2> QED
    BY <1>3, <2>1 DEF Follows
<1>10. PICK h : Runs(Nat, op, 0, n, s, g[1 .. n], h)
  BY <1>4, <1>9, FoldRuns
<1>11. ASSUME NEW k \in 1 .. n PROVE h[k] = h[k - 1] + Width(s[k])
  <2>1. h[k - 1] \in Nat /\ s[k] \in Tokens
    BY <1>10 DEF Runs
  <2> QED
    BY <1>3, <1>10, <2>1 DEF Runs
<1> QED
  BY <1>8, <1>10, <1>11 DEF Runs

\* Its numbers are taken one by one.
LEMMA NumbersRuns ==
  ASSUME NEW n \in Nat, NEW s \in [1 .. n -> Tokens]
  PROVE  \E h \in [0 .. n -> Codes] :
           /\ h[0] = <<>> /\ h[n] = Numbers(s)
           /\ \A k \in 1 .. n : h[k] = AddNumber(h[k - 1], s[k])
<1> DEFINE op == [x \in Codes |-> [y \in Tokens |-> AddNumber(x, y)]]
           Step(f) == [S \in SUBSET (DOMAIN s) |->
                         IF S = {} THEN <<>> ELSE AddNumber(f[S \ {Max(S)}], s[Max(S)])]
<1>1. \A x \in Codes, y \in Tokens : AddNumber(x, y) \in Codes
  BY DEF AddNumber, Tokens, Codes
<1>2. op \in [Codes -> [Tokens -> Codes]] /\ <<>> \in Codes
  BY <1>1 DEF Codes
<1>3. \A x \in Codes, y \in Tokens : op[x][y] = AddNumber(x, y)
  OBVIOUS
<1> HIDE DEF op
<1>4. Foldable(Codes, Tokens, op, <<>>, n, s)
  BY <1>2 DEF Foldable
<1>5. PICK f : Folds(Codes, Tokens, op, <<>>, n, s, f)
  BY <1>4, FoldSolution
<1>6. f = Step(f)
  <2>1. ASSUME NEW S \in SUBSET (1 .. n)
        PROVE  f[S] = IF S = {} THEN <<>> ELSE AddNumber(f[S \ {Max(S)}], s[Max(S)])
    BY <1>3, <1>5 DEF Folds
  <2>2. f = [S \in SUBSET (DOMAIN s) |-> f[S]] /\ DOMAIN s = 1 .. n
    BY <1>5 DEF Folds
  <2> QED
    BY <2>1, <2>2, Zenon
<1> DEFINE g == CHOOSE f_1 : f_1 = Step(f_1)
<1>7. g = Step(g)
  BY <1>6, Zenon
<1> DEFINE result == Numbers(s)
<1>8. result = g[1 .. n]
  <2>1. result = g[DOMAIN s]
    BY Zenon DEF Numbers, FoldLeft, MapThenFoldSet
  <2> HIDE DEF g, result
  <2> QED
    BY <2>1
<1> HIDE DEF g
<1>9. Follows(Codes, Tokens, op, <<>>, n, s, g)
  <2>1. \A S \in SUBSET (1 .. n) :
          g[S] = IF S = {} THEN <<>> ELSE AddNumber(g[S \ {Max(S)}], s[Max(S)])
    BY <1>7
  <2> QED
    BY <1>3, <2>1 DEF Follows
<1>10. PICK h : Runs(Codes, op, <<>>, n, s, g[1 .. n], h)
  BY <1>4, <1>9, FoldRuns
<1>11. ASSUME NEW k \in 1 .. n PROVE h[k] = AddNumber(h[k - 1], s[k])
  <2>1. h[k - 1] \in Codes /\ s[k] \in Tokens
    BY <1>10 DEF Runs
  <2> QED
    BY <1>3, <1>10, <2>1 DEF Runs
<1> QED
  BY <1>8, <1>10, <1>11 DEF Runs

\* The group that numbers are still taken for has room for them.
Room(so) ==
  /\ so.groups # <<>>
  /\ \/ Len(Last(so.groups)) = 1 /\ so.consume = 1
     \/ Len(Last(so.groups)) > 1 /\ Len(Last(so.groups)) + so.consume <= 5
GroupedSoFar ==
  {so \in [groups : Seq(Group), consume : 0 .. 3] : so.consume # 0 => Room(so)}
None == [groups |-> <<>>, consume |-> 0]

\* A group that is taken further has at most five numbers in the end.
LEMMA TakeKeepsRoom ==
  ASSUME NEW so \in GroupedSoFar, NEW n \in Nat
  PROVE  Take(so, n) \in GroupedSoFar
<1> DEFINE group == IF so.consume = 0 THEN <<n>> ELSE Append(Last(so.groups), n)
           rest == IF so.consume = 0 THEN 0 ELSE so.consume - 1
           before == IF so.consume = 0 THEN so.groups ELSE Front(so.groups)
<1>1. /\ so.groups \in Seq(Group) /\ so.consume \in 0 .. 3
      /\ so.consume # 0 => Room(so)
  BY DEF GroupedSoFar
<1>2. Take(so, n) = [groups |-> Append(before, group), consume |-> rest + More(group)]
  BY DEF Take
<1>3. /\ before \in Seq(Group) /\ group \in Group /\ rest \in 0 .. 2
      /\ rest + More(group) \in 0 .. 3
      /\ rest + More(group) # 0 =>
           \/ Len(group) = 1 /\ rest + More(group) = 1
           \/ Len(group) > 1 /\ Len(group) + rest + More(group) <= 5
  <2>1. CASE so.consume = 0
    <3>1. group = <<n>> /\ rest = 0 /\ before = so.groups
      BY <2>1
    <3>2. <<n>> \in Seq(Nat) /\ Len(<<n>>) = 1 /\ <<n>> # <<>>
      OBVIOUS
    <3>3. More(group) \in {0, 1}
      BY <3>1, <3>2 DEF More
    <3> HIDE DEF group, rest, before
    <3> QED
      BY <1>1, <3>1, <3>2, <3>3 DEF Group, Few
  <2>2. CASE so.consume # 0
    <3> DEFINE last == Last(so.groups)
    <3>1. Room(so) /\ so.groups # <<>>
      BY <1>1, <2>2 DEF Room
    <3>2. last \in Group /\ Front(so.groups) \in Seq(Group)
      BY <1>1, <3>1 DEF Last, Front
    <3>3. /\ group = Append(last, n) /\ rest = so.consume - 1
          /\ before = Front(so.groups)
      BY <2>2
    <3>4. \/ Len(last) = 1 /\ so.consume = 1
          \/ Len(last) > 1 /\ Len(last) + so.consume <= 5
      BY <3>1 DEF Room
    <3> HIDE DEF last, group, rest, before
    <3>5. last \in Seq(Nat) /\ Len(last) \in Nat
      BY <3>2 DEF Group, Few
    <3>6. group \in Seq(Nat) /\ Len(group) = Len(last) + 1 /\ group # <<>>
      BY <3>3, <3>5
    <3>7. /\ Len(group) = 2 => More(group) \in {0, 1, 3}
          /\ Len(group) > 2 => More(group) = 0
      BY <3>6 DEF More
    <3>8. so.consume \in 1 .. 3
      BY <1>1, <2>2
    <3>9. /\ rest \in 0 .. 2 /\ rest + More(group) \in 0 .. 3
          /\ Len(group) > 1 /\ Len(group) + rest + More(group) <= 5 /\ Len(group) <= 5
      <4>1. CASE Len(last) = 1 /\ so.consume = 1
        BY <3>3, <3>6, <3>7, <4>1
      <4>2. CASE Len(last) > 1 /\ Len(last) + so.consume <= 5
        BY <3>3, <3>5, <3>6, <3>7, <3>8, <4>2
      <4> QED
        BY <3>4, <4>1, <4>2
    <3> QED
      BY <3>2, <3>3, <3>6, <3>9 DEF Group, Few
  <2> QED
    BY <2>1, <2>2
<1> HIDE DEF group, rest, before
<1>4. /\ Append(before, group) \in Seq(Group) /\ Append(before, group) # <<>>
      /\ Last(Append(before, group)) = group
  BY <1>3 DEF Last
<1> DEFINE so_1 == Take(so, n)
<1>5. so_1.groups = Append(before, group) /\ so_1.consume = rest + More(group)
  BY <1>2
<1>6. so_1.consume # 0 => Room(so_1)
  <2> DEFINE c == rest + More(group)
  <2>1. Len(group) \in Nat /\ rest \in Nat /\ More(group) \in Nat
    BY <1>3 DEF Group, Few, More
  <2>2. so_1.groups # <<>> /\ Last(so_1.groups) = group /\ so_1.consume = c
    BY <1>4, <1>5, Zenon
  <2>3. /\ c \in 0 .. 3
        /\ c # 0 => \/ Len(group) = 1 /\ c = 1
                    \/ Len(group) > 1 /\ Len(group) + c <= 5
    BY <1>3, <2>1
  <2> HIDE DEF so_1, c, group
  <2> QED
    BY <2>2, <2>3 DEF Room
<1>7. so_1 \in [groups : Seq(Group), consume : 0 .. 3]
  BY <1>2, <1>3, <1>4
<1> HIDE DEF so_1
<1>8. so_1 \in GroupedSoFar
  BY <1>6, <1>7 DEF GroupedSoFar
<1> QED
  BY <1>8 DEF so_1

\* They are put into groups one by one.
LEMMA GroupedRuns ==
  ASSUME NEW n \in Nat, NEW s \in [1 .. n -> Nat]
  PROVE  \E h \in [0 .. n -> GroupedSoFar] :
           /\ h[0] = None /\ h[n] = Reading(s)
           /\ \A k \in 1 .. n : h[k] = Take(h[k - 1], s[k])
<1> DEFINE op == [x \in GroupedSoFar |-> [y \in Nat |-> Take(x, y)]]
           Step(f) == [S \in SUBSET (DOMAIN s) |->
                         IF S = {} THEN None ELSE Take(f[S \ {Max(S)}], s[Max(S)])]
<1>1. \A x \in GroupedSoFar, y \in Nat : Take(x, y) \in GroupedSoFar
  BY TakeKeepsRoom
<1>2. op \in [GroupedSoFar -> [Nat -> GroupedSoFar]] /\ None \in GroupedSoFar
  <2>1. None \in GroupedSoFar
    BY DEF None, GroupedSoFar
  <2> QED
    BY <1>1, <2>1
<1>3. \A x \in GroupedSoFar, y \in Nat : op[x][y] = Take(x, y)
  OBVIOUS
<1> HIDE DEF op
<1>4. Foldable(GroupedSoFar, Nat, op, None, n, s)
  BY <1>2 DEF Foldable
<1>5. PICK f : Folds(GroupedSoFar, Nat, op, None, n, s, f)
  BY <1>4, FoldSolution
<1>6. f = Step(f)
  <2>1. ASSUME NEW S \in SUBSET (1 .. n)
        PROVE  f[S] = IF S = {} THEN None ELSE Take(f[S \ {Max(S)}], s[Max(S)])
    BY <1>3, <1>5 DEF Folds
  <2>2. f = [S \in SUBSET (DOMAIN s) |-> f[S]] /\ DOMAIN s = 1 .. n
    BY <1>5 DEF Folds
  <2> QED
    BY <2>1, <2>2, Zenon
<1> DEFINE g == CHOOSE f_1 : f_1 = Step(f_1)
<1>7. g = Step(g)
  BY <1>6, Zenon
<1> DEFINE result == Reading(s)
<1>8. result = g[1 .. n]
  <2>1. result = g[DOMAIN s]
    BY Zenon DEF Reading, None, FoldLeft, MapThenFoldSet
  <2> HIDE DEF g, result
  <2> QED
    BY <2>1
<1> HIDE DEF g
<1>9. Follows(GroupedSoFar, Nat, op, None, n, s, g)
  <2>1. \A S \in SUBSET (1 .. n) :
          g[S] = IF S = {} THEN None ELSE Take(g[S \ {Max(S)}], s[Max(S)])
    BY <1>7
  <2> QED
    BY <1>3, <2>1 DEF Follows
<1>10. PICK h : Runs(GroupedSoFar, op, None, n, s, g[1 .. n], h)
  BY <1>4, <1>9, FoldRuns
<1>11. ASSUME NEW k \in 1 .. n PROVE h[k] = Take(h[k - 1], s[k])
  <2>1. h[k - 1] \in GroupedSoFar /\ s[k] \in Nat
    BY <1>10 DEF Runs
  <2> QED
    BY <1>3, <1>10, <2>1 DEF Runs
<1> QED
  BY <1>8, <1>10, <1>11 DEF Runs

\* What a terminal makes of groups.
LEMMA RenderedRuns ==
  ASSUME NEW n \in Nat, NEW s \in [1 .. n -> Parameters], NEW a \in Attributes
  PROVE  \E h \in [0 .. n -> Attributes] :
           /\ h[0] = a /\ h[n] = Rendered(a, s)
           /\ \A k \in 1 .. n : h[k] = TerminalApplied(h[k - 1], s[k])
<1> DEFINE op == [x \in Attributes |-> [y \in Parameters |-> TerminalApplied(x, y)]]
           Step(f) == [S \in SUBSET (DOMAIN s) |->
                         IF S = {} THEN a ELSE TerminalApplied(f[S \ {Max(S)}], s[Max(S)])]
<1>1. \A x \in Attributes, y \in Parameters : TerminalApplied(x, y) \in Attributes
  BY DEF TerminalApplied, Attributes, Parameters
<1>2. op \in [Attributes -> [Parameters -> Attributes]] /\ a \in Attributes
  BY <1>1
<1>3. \A x \in Attributes, y \in Parameters : op[x][y] = TerminalApplied(x, y)
  OBVIOUS
<1> HIDE DEF op
<1>4. Foldable(Attributes, Parameters, op, a, n, s)
  BY <1>2 DEF Foldable
<1>5. PICK f : Folds(Attributes, Parameters, op, a, n, s, f)
  BY <1>4, FoldSolution
<1>6. f = Step(f)
  <2>1. ASSUME NEW S \in SUBSET (1 .. n)
        PROVE  f[S] = IF S = {} THEN a ELSE TerminalApplied(f[S \ {Max(S)}], s[Max(S)])
    BY <1>3, <1>5 DEF Folds
  <2>2. f = [S \in SUBSET (DOMAIN s) |-> f[S]] /\ DOMAIN s = 1 .. n
    BY <1>5 DEF Folds
  <2> QED
    BY <2>1, <2>2, Zenon
<1> DEFINE g == CHOOSE f_1 : f_1 = Step(f_1)
<1>7. g = Step(g)
  BY <1>6, Zenon
<1> DEFINE result == Rendered(a, s)
<1>8. result = g[1 .. n]
  <2>1. result = g[DOMAIN s]
    BY Zenon DEF Rendered, FoldLeft, MapThenFoldSet
  <2> HIDE DEF g, result
  <2> QED
    BY <2>1
<1> HIDE DEF g
<1>9. Follows(Attributes, Parameters, op, a, n, s, g)
  <2>1. \A S \in SUBSET (1 .. n) :
          g[S] = IF S = {} THEN a ELSE TerminalApplied(g[S \ {Max(S)}], s[Max(S)])
    BY <1>7
  <2> QED
    BY <1>3, <2>1 DEF Follows
<1>10. PICK h : Runs(Attributes, op, a, n, s, g[1 .. n], h)
  BY <1>4, <1>9, FoldRuns
<1>11. ASSUME NEW k \in 1 .. n PROVE h[k] = TerminalApplied(h[k - 1], s[k])
  <2>1. h[k - 1] \in Attributes /\ s[k] \in Parameters
    BY <1>10 DEF Runs
  <2> QED
    BY <1>3, <1>10, <2>1 DEF Runs
<1> QED
  BY <1>8, <1>10, <1>11 DEF Runs

\* And what the filter makes of them.
LEMMA AppliedRuns ==
  ASSUME NEW n \in Nat, NEW s \in [1 .. n -> Group], NEW a \in Kept
  PROVE  \E h \in [0 .. n -> Kept] :
           /\ h[0] = a /\ h[n] = Followed(a, s)
           /\ \A k \in 1 .. n : h[k] = Applied(h[k - 1], s[k])
<1> DEFINE op == [x \in Kept |-> [y \in Group |-> Applied(x, y)]]
           Step(f) == [S \in SUBSET (DOMAIN s) |->
                         IF S = {} THEN a ELSE Applied(f[S \ {Max(S)}], s[Max(S)])]
<1>1. \A x \in Kept, y \in Group : Applied(x, y) \in Kept
  <2>1. <<>> \in Few
    BY DEF Few
  <2> QED
    BY <2>1 DEF Applied, Kept, Group
<1>2. op \in [Kept -> [Group -> Kept]] /\ a \in Kept
  BY <1>1
<1>3. \A x \in Kept, y \in Group : op[x][y] = Applied(x, y)
  OBVIOUS
<1> HIDE DEF op
<1>4. Foldable(Kept, Group, op, a, n, s)
  BY <1>2 DEF Foldable
<1>5. PICK f : Folds(Kept, Group, op, a, n, s, f)
  BY <1>4, FoldSolution
<1>6. f = Step(f)
  <2>1. ASSUME NEW S \in SUBSET (1 .. n)
        PROVE  f[S] = IF S = {} THEN a ELSE Applied(f[S \ {Max(S)}], s[Max(S)])
    BY <1>3, <1>5 DEF Folds
  <2>2. f = [S \in SUBSET (DOMAIN s) |-> f[S]] /\ DOMAIN s = 1 .. n
    BY <1>5 DEF Folds
  <2> QED
    BY <2>1, <2>2, Zenon
<1> DEFINE g == CHOOSE f_1 : f_1 = Step(f_1)
<1>7. g = Step(g)
  BY <1>6, Zenon
<1> DEFINE result == Followed(a, s)
<1>8. result = g[1 .. n]
  <2>1. result = g[DOMAIN s]
    BY Zenon DEF Followed, FoldLeft, MapThenFoldSet
  <2> HIDE DEF g, result
  <2> QED
    BY <2>1
<1> HIDE DEF g
<1>9. Follows(Kept, Group, op, a, n, s, g)
  <2>1. \A S \in SUBSET (1 .. n) :
          g[S] = IF S = {} THEN a ELSE Applied(g[S \ {Max(S)}], s[Max(S)])
    BY <1>7
  <2> QED
    BY <1>3, <2>1 DEF Follows
<1>10. PICK h : Runs(Kept, op, a, n, s, g[1 .. n], h)
  BY <1>4, <1>9, FoldRuns
<1>11. ASSUME NEW k \in 1 .. n PROVE h[k] = Applied(h[k - 1], s[k])
  <2>1. h[k - 1] \in Kept /\ s[k] \in Group
    BY <1>10 DEF Runs
  <2> QED
    BY <1>3, <1>10, <2>1 DEF Runs
<1> QED
  BY <1>8, <1>10, <1>11 DEF Runs

\* The attributes are written class by class.
LEMMA EmittedRuns ==
  ASSUME NEW n \in Nat, NEW s \in [1 .. n -> Class], NEW a \in Attributes
  PROVE  \E h \in [0 .. n -> Attributes] :
           /\ h[0] = Off /\ h[n] = Emitted(a, s)
           /\ \A k \in 1 .. n : h[k] = ShowClass(a, h[k - 1], s[k])
<1> DEFINE op == [x \in Attributes |-> [y \in Class |-> ShowClass(a, x, y)]]
           Step(f) == [S \in SUBSET (DOMAIN s) |->
                         IF S = {} THEN Off ELSE ShowClass(a, f[S \ {Max(S)}], s[Max(S)])]
<1>1. \A x \in Attributes, y \in Class : ShowClass(a, x, y) \in Attributes
  <2>1. ASSUME NEW c \in Class, a[c] # <<>> PROVE a[c] \in Parameters
    BY <2>1 DEF Attributes, Parameters
  <2>2. \A x \in Attributes, y \in Parameters : TerminalApplied(x, y) \in Attributes
    BY DEF TerminalApplied, Attributes, Parameters
  <2> QED
    BY <2>1, <2>2 DEF ShowClass
<1>2. op \in [Attributes -> [Class -> Attributes]] /\ Off \in Attributes
  <2>1. Off \in Attributes
    BY DEF Off, Attributes
  <2> QED
    BY <1>1, <2>1
<1>3. \A x \in Attributes, y \in Class : op[x][y] = ShowClass(a, x, y)
  OBVIOUS
<1> HIDE DEF op
<1>4. Foldable(Attributes, Class, op, Off, n, s)
  BY <1>2 DEF Foldable
<1>5. PICK f : Folds(Attributes, Class, op, Off, n, s, f)
  BY <1>4, FoldSolution
<1>6. f = Step(f)
  <2>1. ASSUME NEW S \in SUBSET (1 .. n)
        PROVE  f[S] = IF S = {} THEN Off ELSE ShowClass(a, f[S \ {Max(S)}], s[Max(S)])
    BY <1>3, <1>5 DEF Folds
  <2>2. f = [S \in SUBSET (DOMAIN s) |-> f[S]] /\ DOMAIN s = 1 .. n
    BY <1>5 DEF Folds
  <2> QED
    BY <2>1, <2>2, Zenon
<1> DEFINE g == CHOOSE f_1 : f_1 = Step(f_1)
<1>7. g = Step(g)
  BY <1>6, Zenon
<1> DEFINE result == Emitted(a, s)
<1>8. result = g[1 .. n]
  <2>1. result = g[DOMAIN s]
    BY Zenon DEF Emitted, FoldLeft, MapThenFoldSet
  <2> HIDE DEF g, result
  <2> QED
    BY <2>1
<1> HIDE DEF g
<1>9. Follows(Attributes, Class, op, Off, n, s, g)
  <2>1. \A S \in SUBSET (1 .. n) :
          g[S] = IF S = {} THEN Off ELSE ShowClass(a, g[S \ {Max(S)}], s[Max(S)])
    BY <1>7
  <2> QED
    BY <1>3, <2>1 DEF Follows
<1>10. PICK h : Runs(Attributes, op, Off, n, s, g[1 .. n], h)
  BY <1>4, <1>9, FoldRuns
<1>11. ASSUME NEW k \in 1 .. n PROVE h[k] = ShowClass(a, h[k - 1], s[k])
  <2>1. h[k - 1] \in Attributes /\ s[k] \in Class
    BY <1>10 DEF Runs
  <2> QED
    BY <1>3, <1>10, <2>1 DEF Runs
<1> QED
  BY <1>8, <1>10, <1>11 DEF Runs

\* Two that begin alike and go on alike are alike.
LEMMA RunsAgree ==
  ASSUME NEW n \in Nat, NEW h, NEW i, h[0] = i[0],
         \A k \in 1 .. n : h[k - 1] = i[k - 1] => h[k] = i[k]
  PROVE  h[n] = i[n]
<1> DEFINE Bad == {k \in 0 .. n : h[k] # i[k]}
<1>1. Bad \subseteq Nat
  OBVIOUS
<1>2. SUFFICES ASSUME n \in Bad PROVE FALSE
  OBVIOUS
<1>3. PICK k \in Bad : \A m \in Bad : k <= m
  <2> HIDE DEF Bad
  <2> QED
    BY <1>1, <1>2, Smallest
<1>4. k \in 1 .. n /\ h[k] # i[k]
  BY <1>3
<1>5. k - 1 \in 0 .. n /\ k - 1 \notin Bad
  <2>1. k - 1 \in 0 .. n /\ ~(k <= k - 1)
    BY <1>4
  <2> HIDE DEF Bad
  <2> QED
    BY <1>3, <2>1
<1>6. h[k - 1] = i[k - 1]
  BY <1>5
<1> QED
  BY <1>4, <1>6

\* The empty buffer holds no bytes.
LEMMA LengthOfNone == escapelen(<<>>) = 0
<1>1. 1 .. 0 = {} /\ 0 \in Nat
  OBVIOUS
<1>2. <<>> \in [1 .. 0 -> Tokens]
  BY <1>1
<1>3. PICK h \in [0 .. 0 -> Nat] : h[0] = 0 /\ h[0] = escapelen(<<>>)
  BY <1>1, <1>2, LengthRuns
<1> QED
  BY <1>3

\* A token more takes as many bytes more as it is wide.
LEMMA LengthOfLonger ==
  ASSUME NEW e \in Seq(Tokens), NEW token \in Tokens
  PROVE  /\ escapelen(e) \in Nat
         /\ escapelen(Append(e, token)) = escapelen(e) + Width(token)
<1> DEFINE n == Len(e)
           longer == Append(e, token)
<1>1. n \in Nat /\ e \in [1 .. n -> Tokens]
  BY LenProperties
<1>2. /\ longer \in [1 .. n + 1 -> Tokens] /\ n + 1 \in Nat
      /\ longer[n + 1] = token /\ \A k \in 1 .. n : longer[k] = e[k]
  <2>1. /\ longer \in Seq(Tokens) /\ Len(longer) = n + 1
        /\ longer[n + 1] = token /\ \A k \in 1 .. n : longer[k] = e[k]
    BY AppendProperties
  <2> HIDE DEF longer, n
  <2>2. longer \in [1 .. Len(longer) -> Tokens] /\ n + 1 \in Nat
    BY <1>1, <2>1, LenProperties
  <2> QED
    BY <2>1, <2>2
<1> HIDE DEF n, longer
<1>3. PICK h \in [0 .. n -> Nat] :
        /\ h[0] = 0 /\ h[n] = escapelen(e)
        /\ \A k \in 1 .. n : h[k] = h[k - 1] + Width(e[k])
  BY <1>1, LengthRuns
<1>4. PICK i \in [0 .. n + 1 -> Nat] :
        /\ i[0] = 0 /\ i[n + 1] = escapelen(longer)
        /\ \A k \in 1 .. n + 1 : i[k] = i[k - 1] + Width(longer[k])
  BY <1>2, LengthRuns
<1>5. \A k \in 1 .. n : h[k - 1] = i[k - 1] => h[k] = i[k]
  BY <1>1, <1>2, <1>3, <1>4
<1>6. h[n] = i[n]
  <2>1. h[0] = i[0]
    BY <1>3, <1>4
  <2> QED
    BY <1>1, <1>5, <2>1, RunsAgree, Zenon
<1>7. i[n + 1] = i[n] + Width(longer[n + 1]) /\ i[n] \in Nat
  <2>1. n + 1 \in 1 .. n + 1 /\ n + 1 - 1 = n /\ n \in 0 .. n + 1
    BY <1>1
  <2> QED
    BY <1>4, <2>1
<1> QED
  BY <1>2, <1>3, <1>4, <1>6, <1>7 DEF longer

\* What the filter, a terminal and less hold stays what it is.
LEMMA FollowedKept ==
  ASSUME NEW e \in Seq(Tokens), NEW beyond \in Seq(Nat), NEW a \in Kept
  PROVE  Followed(a, Grouped(Numbers(e) \o beyond)) \in Kept
<1>1. Len(e) \in Nat /\ e \in [1 .. Len(e) -> Tokens]
  BY LenProperties
<1>2. Numbers(e) \in Codes
  BY <1>1, NumbersRuns
<1> DEFINE numbers == Numbers(e) \o beyond
           groups == Grouped(numbers)
<1>3. Len(numbers) \in Nat /\ numbers \in [1 .. Len(numbers) -> Nat]
  <2>1. numbers \in Seq(Nat)
    BY <1>2, ConcatProperties DEF Codes
  <2> HIDE DEF numbers
  <2> QED
    BY <2>1, LenProperties
<1> HIDE DEF numbers
<1>4. PICK h \in [0 .. Len(numbers) -> GroupedSoFar] : h[Len(numbers)] = Reading(numbers)
  BY <1>3, GroupedRuns
<1>5. groups \in Seq(Group)
  <2>1. h[Len(numbers)] \in GroupedSoFar
    BY <1>3, <1>4
  <2> QED
    BY <1>4, <2>1 DEF GroupedSoFar, Grouped
<1>6. Len(groups) \in Nat /\ groups \in [1 .. Len(groups) -> Group]
  BY <1>5, LenProperties
<1> HIDE DEF groups
<1>7. Followed(a, groups) \in Kept
  <2>1. PICK k \in [0 .. Len(groups) -> Kept] : k[Len(groups)] = Followed(a, groups)
    <3>1. \E k \in [0 .. Len(groups) -> Kept] :
            /\ k[0] = a /\ k[Len(groups)] = Followed(a, groups)
            /\ \A i \in 1 .. Len(groups) : k[i] = Applied(k[i - 1], groups[i])
      BY <1>6, AppliedRuns, Zenon
    <3> QED
      BY <3>1, Zenon
  <2>2. Len(groups) \in 0 .. Len(groups)
    <3> DEFINE m == Len(groups)
    <3>1. m \in Nat
      BY <1>6
    <3> HIDE DEF m
    <3>2. m \in 0 .. m
      BY <3>1
    <3> QED
      BY <3>2 DEF m
  <2>3. k[Len(groups)] \in Kept
    BY <2>1, <2>2, Zenon
  <2> QED
    BY <2>1, <2>3, Zenon
<1> QED
  BY <1>7 DEF groups, numbers

\* A terminal keeps attributes for every class.
LEMMA RenderedOK ==
  ASSUME NEW groups \in Seq(Parameters), NEW a \in Attributes
  PROVE  Rendered(a, groups) \in Attributes
<1>1. Len(groups) \in Nat /\ groups \in [1 .. Len(groups) -> Parameters]
  BY LenProperties
<1> QED
  BY <1>1, RenderedRuns

\* So does less, of the attributes that are written.
LEMMA EmittedOK == ASSUME NEW a \in Attributes PROVE Emitted(a, Classes) \in Attributes
<1>1. Classes \in Seq(Class)
  <2>1. /\ Len(Classes) = 10 /\ DOMAIN Classes = 1 .. 10
        /\ Classes = [i \in 1 .. 10 |-> Classes[i]]
    BY DEF Classes
  <2>2. \A i \in 1 .. 10 : Classes[i] \in Class
    BY <2>1, Zenon DEF Class, Range
  <2> QED
    BY <2>1, <2>2
<1>2. Len(Classes) \in Nat /\ Classes \in [1 .. Len(Classes) -> Class]
  BY <1>1, LenProperties
<1> QED
  BY <1>2, EmittedRuns

\* The last element of a sequence and those before it.
LEMMA LastAndFront ==
  ASSUME NEW S, NEW s \in Seq(S), NEW x \in S
  PROVE  Last(Append(s, x)) = x /\ Front(Append(s, x)) = s
<1> DEFINE longer == Append(s, x)
<1>1. /\ Len(s) \in Nat /\ longer \in Seq(S) /\ Len(longer) = Len(s) + 1
      /\ longer[Len(s) + 1] = x /\ \A i \in 1 .. Len(s) : longer[i] = s[i]
  BY AppendProperties, LenProperties
<1>2. SubSeq(longer, 1, Len(s)) = s
  BY SubSeqFull, <1>1
<1> HIDE DEF longer
<1>3. Last(longer) = x /\ Front(longer) = SubSeq(longer, 1, Len(s))
  BY <1>1 DEF Last, Front
<1> QED
  BY <1>2, <1>3 DEF longer

-----------------------------------------------------------------------------
\* The invariant for any input.  A sequence of an orderly piece ends in the piece.
FilterOK ==
  /\ inside \in BOOLEAN /\ print_escapes \in BOOLEAN
  /\ escape \in Seq(Tokens) /\ (inside <=> escape # <<>>)
  /\ escapelen(escape) <= EscapeSize + 1
  /\ escapelen(escape) >= EscapeSize => Last(escape).kind = "escape"
  /\ attr \in Kept
SeenOK == terminal \in Attributes /\ less \in Attributes
PieceOK ==
  /\ piece \in Piece /\ next \in 1 .. Len(piece.bytes) + 1
  /\ orderly \in BOOLEAN /\ (orderly => Orderly(piece))
  /\ orderly /\ inside =>
       next \in 2 .. Len(piece.bytes) /\ piece.bytes[1].kind = "escape"
ParserInv == FilterOK /\ SeenOK /\ PieceOK

\* What the filter keeps are attributes.
LEMMA KeptIsAttributes == Kept \subseteq Attributes
BY DEF Kept, Few, Attributes

\* No attributes are some, too.
LEMMA OffOK == Off \in Kept /\ Off \in Attributes
<1>1. <<>> \in Seq(Nat) /\ Len(<<>>) = 0
  OBVIOUS
<1> QED
  BY <1>1 DEF Off, Kept, Few, Attributes

\* The parts of a piece of input.
LEMMA PieceTyped ==
  ASSUME NEW p \in Piece
  PROVE  /\ p.bytes \in Seq(Tokens) /\ Len(p.bytes) \in Nat
         /\ p.groups \in Seq(Parameters) /\ <<>> \in Seq(Parameters)
<1>1. p.bytes \in Seq(Tokens) /\ p.groups \in Seq(Parameters)
  BY PieceAssumption DEF Tokens, Parameters
<1>2. Len(p.bytes) \in Nat
  BY <1>1, LenProperties
<1> QED
  BY <1>1, <1>2

\* Outside of a sequence the buffer is empty.
LEMMA OutsideOK ==
  ASSUME NEW e, e = <<>>
  PROVE  /\ e \in Seq(Tokens) /\ escapelen(e) <= EscapeSize + 1
         /\ ~(escapelen(e) >= EscapeSize)
<1>1. escapelen(e) = 0
  BY LengthOfNone
<1>2. <<>> \in Seq(Tokens)
  OBVIOUS
<1> QED
  BY <1>1, <1>2, SizeAssumption

\* What is seen are attributes, followed or not.
LEMMA SeenTyped ==
  ASSUME NEW attributes \in Attributes, NEW in_order
  PROVE  Seen(in_order, attributes) \in Attributes
BY OffOK DEF Seen

\* The parser begins outside of a sequence.
LEMMA InitParser == ASSUME Init PROVE ParserInv
<1>1. FilterOK
  BY OutsideOK, OffOK DEF Init, FilterOK
<1>2. SeenOK
  BY OffOK DEF Init, SeenOK
<1>3. orderly \in BOOLEAN /\ (orderly => Orderly(piece))
  <2>1. orderly = Orderly(piece)
    BY DEF Init
  <2>2. Orderly(piece) \in BOOLEAN
    BY DEF Orderly
  <2> QED
    BY <2>1, <2>2
<1>4. PieceOK
  BY <1>3, PieceTyped DEF Init, PieceOK
<1> QED
  BY <1>1, <1>2, <1>4 DEF ParserInv

\* What a byte does to what is seen.
LEMMA CopyOK ==
  ASSUME ParserInv, ~Done, Copy
  PROVE  /\ SeenOK' /\ piece' = piece /\ piece \in Piece /\ orderly' = orderly
         /\ next \in 1 .. Len(piece.bytes) /\ next' = next + 1
         /\ Token \in Tokens
<1>1. piece \in Piece /\ next \in 1 .. Len(piece.bytes)
  BY PieceTyped DEF ParserInv, PieceOK, Done
<1>2. Token \in Tokens
  BY <1>1, PieceTyped DEF Token
<1> DEFINE groups == IF next = Len(piece.bytes) THEN piece.groups ELSE <<>>
<1>3. groups \in Seq(Parameters)
  BY <1>1, PieceTyped
<1>4. Shown \in Attributes
  BY EmittedOK, KeptIsAttributes DEF Shown, ParserInv, FilterOK, SeenOK
<1> DEFINE told == IF Token.kind = "newline" THEN Off ELSE Rendered(Shown, groups)
<1>5. /\ next' = next + 1 /\ piece' = piece /\ orderly' = orderly
      /\ terminal' = Seen(orderly, Rendered(terminal, groups))
      /\ less' = Seen(orderly, told)
  BY DEF Copy
<1> HIDE DEF groups
<1>6. Rendered(terminal, groups) \in Attributes /\ told \in Attributes
  BY <1>3, <1>4, RenderedOK, OffOK DEF ParserInv, SeenOK
<1> HIDE DEF told
<1>7. terminal' \in Attributes /\ less' \in Attributes
  BY <1>5, <1>6, SeenTyped
<1> QED
  BY <1>1, <1>2, <1>5, <1>7 DEF SeenOK

\* Each byte, NUL and piece keeps the invariant of the parser.
LEMMA NextParser ==
  ASSUME ParserInv, [Next]_vars
  PROVE  ParserInv'
<1>1. CASE Another
  <2>1. piece' \in Piece /\ next' = 1 /\ (orderly => ~inside)
    BY <1>1 DEF Another, Done, ParserInv, PieceOK
  <2>2. /\ UNCHANGED <<inside, escape, attr, print_escapes>>
        /\ terminal' = Seen(orderly', terminal) /\ less' = Seen(orderly', less)
    BY <1>1 DEF Another, filter
  <2>3. FilterOK'
    BY <2>2 DEF ParserInv, FilterOK
  <2>4. SeenOK'
    BY <2>2, SeenTyped DEF ParserInv, SeenOK
  <2>5. /\ orderly' \in BOOLEAN /\ (orderly' => Orderly(piece)')
        /\ orderly' => orderly
    <3>1. orderly' = (orderly /\ Orderly(piece)')
      BY <1>1 DEF Another
    <3> QED
      BY <3>1, Zenon
  <2>6. PieceOK'
    BY <2>1, <2>2, <2>5, PieceTyped DEF PieceOK
  <2> QED
    BY <2>3, <2>4, <2>6 DEF ParserInv
<1>2. CASE Nul
  <2>1. Shown \in Attributes
    BY EmittedOK, KeptIsAttributes DEF Shown, ParserInv, FilterOK, SeenOK
  <2>2. less' = Seen(orderly, Shown) /\ print_escapes' = FALSE
        /\ UNCHANGED <<inside, escape, attr, piece, next, orderly, terminal>>
    BY <1>2 DEF Nul
  <2>3. SeenOK'
    BY <2>1, <2>2, SeenTyped DEF ParserInv, SeenOK
  <2> QED
    BY <2>2, <2>3 DEF ParserInv, FilterOK, PieceOK, Orderly
<1>3. CASE Newline
  <2>1. ~Done /\ Copy
    BY <1>3 DEF Newline
  <2>2. FilterOK'
    BY <1>3, OutsideOK DEF Newline, Leave, ParserInv, FilterOK
  <2>3. PieceOK'
    BY <1>3, <2>1, CopyOK, PieceTyped DEF Newline, Leave, ParserInv, PieceOK, Orderly
  <2> QED
    BY <2>1, <2>2, <2>3, CopyOK DEF ParserInv
<1>4. CASE EscapeByte
  <2>1. ~Done /\ Copy /\ Token.kind = "escape"
    BY <1>4 DEF EscapeByte
  <2>2. /\ piece' = piece /\ piece \in Piece /\ next \in 1 .. Len(piece.bytes)
        /\ next' = next + 1 /\ Token \in Tokens /\ SeenOK'
    BY <2>1, CopyOK
  <2>3. /\ escape' = Append(escape, Token) /\ inside' = TRUE /\ print_escapes' = FALSE
        /\ attr' = attr /\ orderly' = orderly /\ escapelen(escape) <= EscapeSize
    BY <1>4 DEF EscapeByte, Copy, InBuffer
  <2>4. escape \in Seq(Tokens)
    BY DEF ParserInv, FilterOK
  <2>5. /\ escape' \in Seq(Tokens) /\ escape' # <<>> /\ Last(escape') = Token
        /\ escapelen(escape') = escapelen(escape) + 1 /\ escapelen(escape) \in Nat
    <3>1. Width(Token) = 1
      BY <2>1 DEF Width
    <3>2. /\ escapelen(Append(escape, Token)) = escapelen(escape) + Width(Token)
          /\ escapelen(escape) \in Nat
      BY <2>2, <2>4, LengthOfLonger
    <3>3. Append(escape, Token) \in Seq(Tokens) /\ Append(escape, Token) # <<>>
      BY <2>2, <2>4
    <3>4. Last(Append(escape, Token)) = Token
      BY <2>2, <2>4, LastAndFront
    <3> QED
      BY <2>3, <3>1, <3>2, <3>3, <3>4
  <2>6. escapelen(escape') <= EscapeSize + 1
    BY <2>3, <2>5, SizeAssumption
  <2>7. FilterOK'
    BY <2>1, <2>3, <2>5, <2>6 DEF ParserInv, FilterOK
  <2>8. ASSUME orderly
        PROVE  next' \in 2 .. Len(piece.bytes) /\ piece.bytes[1].kind = "escape"
    <3>1. next = 1 /\ piece.bytes[Len(piece.bytes)].kind \in {"newline", "m", "text"}
      <4>1. DOMAIN piece.bytes = 1 .. Len(piece.bytes)
        BY <2>2, PieceTyped, LenProperties
      <4>2. Orderly(piece)
        BY <2>8 DEF ParserInv, PieceOK
      <4> QED
        BY <2>1, <2>2, <4>1, <4>2 DEF Orderly, Token
    <3>2. Len(piece.bytes) # 1 /\ piece.bytes[1].kind = "escape"
      BY <2>1, <3>1 DEF Token
    <3> QED
      BY <2>2, <3>1, <3>2, PieceTyped
  <2>9. PieceOK'
    BY <2>2, <2>3, <2>8, PieceTyped DEF ParserInv, PieceOK, Orderly
  <2> QED
    BY <2>2, <2>7, <2>9 DEF ParserInv
<1>5. CASE Text
  <2>1. ~Done /\ Copy /\ ~inside /\ UNCHANGED <<inside, escape, attr>>
        /\ print_escapes' = FALSE
    BY <1>5 DEF Text
  <2>2. FilterOK'
    BY <2>1 DEF ParserInv, FilterOK
  <2>3. PieceOK'
    BY <2>1, CopyOK, PieceTyped DEF ParserInv, PieceOK, Orderly
  <2> QED
    BY <2>1, <2>2, <2>3, CopyOK DEF ParserInv
<1>6. CASE SequenceByte
  <2> DEFINE filled == Filled(escape, Token)
             longer == Append(filled, Token)
  <2>1. ~Done /\ Copy /\ inside /\ print_escapes' = FALSE
    BY <1>6 DEF SequenceByte
  <2>2. /\ piece' = piece /\ piece \in Piece /\ next \in 1 .. Len(piece.bytes)
        /\ next' = next + 1 /\ Token \in Tokens /\ SeenOK' /\ orderly' = orderly
    BY <2>1, CopyOK
  <2>3. filled \in Seq(Tokens)
    <3>1. Zero \in Tokens
      BY ZeroIsToken
    <3>2. escape \in Seq(Tokens)
      BY DEF ParserInv, FilterOK
    <3>3. Append(escape, Zero) \in Seq(Tokens)
      BY <3>1, <3>2, AppendProperties
    <3> QED
      BY <3>2, <3>3 DEF Filled
  <2>4. /\ longer \in Seq(Tokens) /\ longer # <<>>
        /\ escapelen(filled) \in Nat
        /\ escapelen(longer) = escapelen(filled) + Width(Token)
        /\ Width(Token) \in Nat
    <3> HIDE DEF filled
    <3>1. Width(Token) \in Nat
      BY <2>2, WidthOK
    <3>2. longer \in Seq(Tokens) /\ longer # <<>>
      BY <2>2, <2>3
    <3> QED
      BY <2>2, <2>3, <3>1, <3>2, LengthOfLonger
  <2>5. \/ Leave /\ UNCHANGED attr
        \/ /\ Leave
           /\ \E beyond \in Beyond(escape) :
                attr' = Followed(attr, Grouped(Numbers(longer) \o beyond))
        \/ /\ Fits(filled, Token) /\ Unfinished(longer) /\ UNCHANGED attr
           /\ escape' = longer /\ UNCHANGED inside
    BY <1>6 DEF SequenceByte, Longer
  <2>6. Fits(filled, Token) => escapelen(longer) < EscapeSize
    BY <2>4, SizeAssumption DEF Fits
  <2>7. Unfinished(longer) => Token.kind \notin {"newline", "m", "text"}
    <3>1. Last(longer) = Token
      <4> HIDE DEF filled
      <4> QED
        BY <2>2, <2>3 DEF Last
    <3> HIDE DEF longer
    <3> QED
      BY <3>1 DEF Unfinished
  <2> HIDE DEF filled, longer
  <2>8. CASE Leave
    <3>1. attr' \in Kept
      <4>1. Beyond(escape) \subseteq Seq(Nat)
        <5>1. <<>> \in Seq(Nat)
          OBVIOUS
        <5> QED
          BY <5>1, StaleAssumption DEF Beyond
      <4>2. attr \in Kept
        BY DEF ParserInv, FilterOK
      <4>3. \A beyond \in Seq(Nat) : Followed(attr, Grouped(Numbers(longer) \o beyond)) \in Kept
        BY <2>4, <4>2, FollowedKept, Zenon
      <4>4. \/ attr' = attr
            \/ \E beyond \in Beyond(escape) :
                 attr' = Followed(attr, Grouped(Numbers(longer) \o beyond))
        BY <2>5
      <4> QED
        BY <4>1, <4>2, <4>3, <4>4, Zenon
    <3>3. FilterOK'
      BY <2>1, <2>8, <3>1, OutsideOK DEF Leave, FilterOK
    <3>4. PieceOK'
      BY <2>2, <2>8, PieceTyped DEF ParserInv, PieceOK, Orderly, Leave
    <3> QED
      BY <2>2, <3>3, <3>4 DEF ParserInv
  <2>9. CASE /\ Fits(filled, Token) /\ Unfinished(longer) /\ UNCHANGED attr
             /\ escape' = longer /\ UNCHANGED inside
    <3>1. FilterOK'
      <4>1. escapelen(longer) <= EscapeSize + 1 /\ ~(escapelen(longer) >= EscapeSize)
        <5>1. escapelen(longer) \in Nat /\ escapelen(longer) < EscapeSize
          BY <2>4, <2>6, <2>9
        <5> QED
          BY <5>1, SizeAssumption
      <4>2. inside' = TRUE /\ print_escapes' = FALSE /\ attr' = attr /\ escape' = longer
        BY <2>1, <2>9, Zenon DEF ParserInv, FilterOK
      <4>3. attr \in Kept
        BY DEF ParserInv, FilterOK
      <4>4. escapelen(escape') <= EscapeSize + 1 /\ ~(escapelen(escape') >= EscapeSize)
        BY <4>1, <4>2, Zenon
      <4> QED
        BY <2>4, <4>2, <4>3, <4>4 DEF FilterOK
    <3>2. ASSUME orderly
          PROVE  next' \in 2 .. Len(piece.bytes) /\ piece.bytes[1].kind = "escape"
      <4>1. piece.bytes[1].kind = "escape" /\ next \in 2 .. Len(piece.bytes)
        BY <2>1, <3>2 DEF ParserInv, PieceOK
      <4>2. piece.bytes[Len(piece.bytes)].kind \in {"newline", "m", "text"}
        <5>1. DOMAIN piece.bytes = 1 .. Len(piece.bytes)
          BY <2>2, PieceTyped, LenProperties
        <5>2. 1 \in DOMAIN piece.bytes
          BY <2>2, <5>1
        <5>3. Orderly(piece)
          BY <3>2 DEF ParserInv, PieceOK
        <5> QED
          BY <4>1, <5>2, <5>3 DEF Orderly
      <4>3. next # Len(piece.bytes)
        BY <2>7, <2>9, <4>2 DEF Token
      <4> QED
        BY <2>2, <4>1, <4>3, PieceTyped
    <3>3. PieceOK'
      BY <2>2, <3>2, PieceTyped DEF ParserInv, PieceOK, Orderly
    <3> QED
      BY <2>2, <3>1, <3>3 DEF ParserInv
  <2> QED
    BY <2>5, <2>8, <2>9
<1>7. CASE UNCHANGED vars
  BY <1>7 DEF vars, filter, ParserInv, FilterOK, SeenOK, PieceOK, Orderly
<1> QED
  BY <1>1, <1>2, <1>3, <1>4, <1>5, <1>6, <1>7 DEF Next

\* The inductive invariant of the parser, for any input: only ESC bytes get to the end
\* of the buffer and behind it, what is kept of a class has set it, and an orderly piece
\* leaves the parser outside of a sequence.
THEOREM ParserInvariant == Spec => []ParserInv
BY InitParser, NextParser, PTL DEF Spec

\* Every byte of a sequence but an ESC fits the buffer, with a place left behind it, and
\* its parameters the five places there are for them: for any input, with any numbers,
\* and whatever is left in the buffer, and for any size of the buffer.
THEOREM TypeOKAlways == Spec => []TypeOK
<1>1. ParserInv => TypeOK
  <2> SUFFICES ASSUME ParserInv PROVE TypeOK
    OBVIOUS
  <2>1. {attr, terminal, less} \subseteq [Class -> Seq(Nat)]
    BY KeptIsAttributes DEF ParserInv, FilterOK, SeenOK, Attributes
  <2>2. \A c \in Class : Len(attr[c]) <= 5
    BY DEF ParserInv, FilterOK, Kept, Few
  <2> QED
    BY <2>1, <2>2 DEF TypeOK, ParserInv, FilterOK, PieceOK
<1> QED
  BY <1>1, ParserInvariant, PTL

-----------------------------------------------------------------------------
(* What less shows                                                          *)

Escapes == Seq(Tokens)

\* A sequence is completed byte by byte.
LEMMA CompleteRuns ==
  ASSUME NEW n \in Nat, NEW s \in [1 .. n -> Tokens]
  PROVE  \E h \in [0 .. n -> Escapes] :
           /\ h[0] = <<>> /\ h[n] = Complete(s)
           /\ \A k \in 1 .. n : h[k] = Longer(h[k - 1], s[k])
<1> DEFINE op == [x \in Escapes |-> [y \in Tokens |-> Longer(x, y)]]
           Step(f) == [S \in SUBSET (DOMAIN s) |->
                         IF S = {} THEN <<>> ELSE Longer(f[S \ {Max(S)}], s[Max(S)])]
<1>1. \A x \in Escapes, y \in Tokens : Longer(x, y) \in Escapes
  <2>1. Zero \in Tokens
    BY ZeroIsToken
  <2>2. ASSUME NEW e \in Escapes, NEW token \in Tokens PROVE Longer(e, token) \in Escapes
    <3>1. Append(e, Zero) \in Seq(Tokens)
      BY <2>1, AppendProperties DEF Escapes
    <3>2. Filled(e, token) \in Seq(Tokens)
      BY <3>1 DEF Filled, Escapes
    <3> QED
      BY <3>2, AppendProperties DEF Longer, Escapes
  <2> QED
    BY <2>2
<1>2. op \in [Escapes -> [Tokens -> Escapes]] /\ <<>> \in Escapes
  <2>1. <<>> \in Escapes
    BY DEF Escapes
  <2> QED
    BY <1>1, <2>1
<1>3. \A x \in Escapes, y \in Tokens : op[x][y] = Longer(x, y)
  OBVIOUS
<1> HIDE DEF op
<1>4. Foldable(Escapes, Tokens, op, <<>>, n, s)
  BY <1>2 DEF Foldable
<1>5. PICK f : Folds(Escapes, Tokens, op, <<>>, n, s, f)
  BY <1>4, FoldSolution
<1>6. f = Step(f)
  <2>1. ASSUME NEW S \in SUBSET (1 .. n)
        PROVE  f[S] = IF S = {} THEN <<>> ELSE Longer(f[S \ {Max(S)}], s[Max(S)])
    BY <1>3, <1>5 DEF Folds
  <2>2. f = [S \in SUBSET (DOMAIN s) |-> f[S]] /\ DOMAIN s = 1 .. n
    BY <1>5 DEF Folds
  <2> QED
    BY <2>1, <2>2, Zenon
<1> DEFINE g == CHOOSE f_1 : f_1 = Step(f_1)
<1>7. g = Step(g)
  BY <1>6, Zenon
<1> DEFINE result == Complete(s)
<1>8. result = g[1 .. n]
  <2>1. result = g[DOMAIN s]
    BY Zenon DEF Complete, FoldLeft, MapThenFoldSet
  <2> HIDE DEF g, result
  <2> QED
    BY <2>1
<1> HIDE DEF g
<1>9. Follows(Escapes, Tokens, op, <<>>, n, s, g)
  <2>1. \A S \in SUBSET (1 .. n) :
          g[S] = IF S = {} THEN <<>> ELSE Longer(g[S \ {Max(S)}], s[Max(S)])
    BY <1>7
  <2> QED
    BY <1>3, <2>1 DEF Follows
<1>10. PICK h : Runs(Escapes, op, <<>>, n, s, g[1 .. n], h)
  BY <1>4, <1>9, FoldRuns
<1>11. ASSUME NEW k \in 1 .. n PROVE h[k] = Longer(h[k - 1], s[k])
  <2>1. h[k - 1] \in Escapes /\ s[k] \in Tokens
    BY <1>10 DEF Runs
  <2> QED
    BY <1>3, <1>10, <2>1 DEF Runs
<1> QED
  BY <1>8, <1>10, <1>11 DEF Runs

\* The parameters of the groups follow each other.
LEMMA SpelledRuns ==
  ASSUME NEW n \in Nat, NEW s \in [1 .. n -> Codes]
  PROVE  \E h \in [0 .. n -> Codes] :
           /\ h[0] = <<>> /\ h[n] = Spelled(s)
           /\ \A k \in 1 .. n : h[k] = h[k - 1] \o s[k]
<1> DEFINE op == [x \in Codes |-> [y \in Codes |-> x \o y]]
           Step(f) == [S \in SUBSET (DOMAIN s) |->
                         IF S = {} THEN <<>> ELSE f[S \ {Max(S)}] \o s[Max(S)]]
<1>1. \A x \in Codes, y \in Codes : x \o y \in Codes
  BY DEF Codes
<1>2. op \in [Codes -> [Codes -> Codes]] /\ <<>> \in Codes
  <2>1. <<>> \in Codes
    BY DEF Codes
  <2> QED
    BY <1>1, <2>1
<1>3. \A x \in Codes, y \in Codes : op[x][y] = x \o y
  OBVIOUS
<1> HIDE DEF op
<1>4. Foldable(Codes, Codes, op, <<>>, n, s)
  BY <1>2 DEF Foldable
<1>5. PICK f : Folds(Codes, Codes, op, <<>>, n, s, f)
  BY <1>4, FoldSolution
<1>6. f = Step(f)
  <2>1. ASSUME NEW S \in SUBSET (1 .. n)
        PROVE  f[S] = IF S = {} THEN <<>> ELSE f[S \ {Max(S)}] \o s[Max(S)]
    BY <1>3, <1>5 DEF Folds
  <2>2. f = [S \in SUBSET (DOMAIN s) |-> f[S]] /\ DOMAIN s = 1 .. n
    BY <1>5 DEF Folds
  <2> QED
    BY <2>1, <2>2, Zenon
<1> DEFINE g == CHOOSE f_1 : f_1 = Step(f_1)
<1>7. g = Step(g)
  BY <1>6, Zenon
<1> DEFINE result == Spelled(s)
<1>8. result = g[1 .. n]
  <2>1. result = g[DOMAIN s]
    BY Zenon DEF Spelled, FoldLeft, MapThenFoldSet
  <2> HIDE DEF g, result
  <2> QED
    BY <2>1
<1> HIDE DEF g
<1>9. Follows(Codes, Codes, op, <<>>, n, s, g)
  <2>1. \A S \in SUBSET (1 .. n) :
          g[S] = IF S = {} THEN <<>> ELSE g[S \ {Max(S)}] \o s[Max(S)]
    BY <1>7
  <2> QED
    BY <1>3, <2>1 DEF Follows
<1>10. PICK h : Runs(Codes, op, <<>>, n, s, g[1 .. n], h)
  BY <1>4, <1>9, FoldRuns
<1>11. ASSUME NEW k \in 1 .. n PROVE h[k] = h[k - 1] \o s[k]
  <2>1. h[k - 1] \in Codes /\ s[k] \in Codes
    BY <1>10 DEF Runs
  <2> QED
    BY <1>3, <1>10, <2>1 DEF Runs
<1> QED
  BY <1>8, <1>10, <1>11 DEF Runs

\* No groups change nothing.
LEMMA NothingRendered == ASSUME NEW a \in Attributes PROVE Rendered(a, <<>>) = a
<1> DEFINE n == 0
           s == <<>>
<1>1. n \in Nat /\ s \in [1 .. n -> Parameters]
  <2>1. 1 .. 0 = {}
    OBVIOUS
  <2> QED
    BY <2>1
<1> HIDE DEF n, s
<1>2. PICK h \in [0 .. n -> Attributes] : h[0] = a /\ h[n] = Rendered(a, s)
  BY <1>1, RenderedRuns
<1> QED
  BY <1>2 DEF n, s

\* The classes, by name.
LEMMA ClassNames ==
  Class = {"bgcolor", "blink", "bold", "faint", "fgcolor", "hidden", "italic",
           "reverse", "strike", "underline"}
<1>1. /\ DOMAIN Classes = 1 .. 10
      /\ 1 .. 10 = {1, 2, 3, 4, 5, 6, 7, 8, 9, 10}
  BY DEF Classes
<1>2. Class = {Classes[i] : i \in {1, 2, 3, 4, 5, 6, 7, 8, 9, 10}}
  BY <1>1, Zenon DEF Class, Range
<1> QED
  BY <1>2 DEF Classes

\* What the codes 1 to 9 set.
LEMMA SetsNames ==
  /\ Sets(1) = "bold" /\ Sets(2) = "faint" /\ Sets(3) = "italic"
  /\ Sets(4) = "underline" /\ Sets(5) = "blink" /\ Sets(6) = "blink"
  /\ Sets(7) = "reverse" /\ Sets(8) = "hidden" /\ Sets(9) = "strike"
BY DEF Sets, AttributesNumbered

\* A code sets a class, as the standard has it.
Standard(code, c) ==
  \/ c = "bold" /\ code = 1
  \/ c = "faint" /\ code = 2
  \/ c = "italic" /\ code = 3
  \/ c = "underline" /\ code \in {4, 21}
  \/ c = "blink" /\ code \in {5, 6}
  \/ c = "reverse" /\ code = 7
  \/ c = "hidden" /\ code = 8
  \/ c = "strike" /\ code = 9
  \/ c = "fgcolor" /\ code \in 30 .. 38 \cup 90 .. 97
  \/ c = "bgcolor" /\ code \in 40 .. 48 \cup 100 .. 107

\* What sets a class on a terminal.
LEMMA TerminalSetsNames ==
  /\ TerminalSets["bold"] = {1} /\ TerminalSets["faint"] = {2}
  /\ TerminalSets["italic"] = {3} /\ TerminalSets["underline"] = {4, 21}
  /\ TerminalSets["blink"] = {5, 6} /\ TerminalSets["reverse"] = {7}
  /\ TerminalSets["hidden"] = {8} /\ TerminalSets["strike"] = {9}
  /\ TerminalSets["fgcolor"] = 30 .. 38 \cup 90 .. 97
  /\ TerminalSets["bgcolor"] = 40 .. 48 \cup 100 .. 107
BY DEF TerminalSets

\* That is what the standard has.
LEMMA TerminalSetsStandard ==
  ASSUME NEW code \in Nat, NEW c \in Class
  PROVE  code \in TerminalSets[c] <=> Standard(code, c)
<1>1. CASE c \in {"bold", "faint", "italic", "underline", "blink"}
  BY <1>1, TerminalSetsNames DEF Standard
<1>2. CASE c \in {"reverse", "hidden", "strike", "fgcolor", "bgcolor"}
  BY <1>2, TerminalSetsNames DEF Standard
<1> QED
  BY <1>1, <1>2, ClassNames

\* The codes up to 9, one by one.
LEMMA CodeCases ==
  ASSUME NEW code \in Nat
  PROVE  code \in 1 .. 9 <=> code \in {1, 2, 3, 4, 5, 6, 7, 8, 9}
OBVIOUS

\* But for 21 and the bright colours, the filter sets classes as the standard has it.
LEMMA SetsStandard ==
  ASSUME NEW code \in Nat, NEW c \in Class, code # 21,
         code \notin 90 .. 97, code \notin 100 .. 107
  PROVE  c = Sets(code) <=> Standard(code, c)
<1>1. CASE code \in {1, 2, 3, 4, 5}
  BY <1>1, SetsNames, ClassNames DEF Standard
<1>2. CASE code \in {6, 7, 8, 9}
  BY <1>2, SetsNames, ClassNames DEF Standard
<1>3. CASE code \notin 1 .. 9
  <2>1. Sets(code) = IF code \in 30 .. 38 THEN "fgcolor"
                     ELSE IF code \in 40 .. 48 THEN "bgcolor" ELSE "none"
    BY <1>3 DEF Sets
  <2>2. CASE code \in 30 .. 38
    <3>1. Sets(code) = "fgcolor"
      BY <2>1, <2>2
    <3> QED
      BY <2>2, <3>1, ClassNames DEF Standard
  <2>3. CASE code \in 40 .. 48
    <3>1. Sets(code) = "bgcolor"
      BY <2>1, <2>3
    <3> QED
      BY <2>3, <3>1, ClassNames DEF Standard
  <2>4. CASE code \notin 30 .. 38 /\ code \notin 40 .. 48
    <3>1. Sets(code) = "none"
      BY <2>1, <2>4
    <3>2. code \notin {1, 2, 3, 4, 5, 6, 7, 8, 9}
      BY <1>3
    <3>3. "none" \notin Class
      BY ClassNames
    <3>4. ~Standard(code, c)
      BY <2>4, <3>2, ClassNames DEF Standard
    <3> QED
      BY <3>1, <3>3, <3>4
  <2> QED
    BY <2>2, <2>3, <2>4
<1> QED
  BY <1>1, <1>2, <1>3, CodeCases

\* But for 22, it clears them as a terminal does.
LEMMA ClearsAlike ==
  ASSUME NEW code \in Nat, NEW c \in Class, code # 22
  PROVE  code \in {0} \cup TerminalClears[c] <=> c \in Clears(code)
BY ClassNames DEF TerminalClears, Clears

\* One attribute is applied as a terminal does.
LEMMA AppliedAsTerminal ==
  ASSUME NEW a \in Kept, NEW group \in Seq(Nat), OneAttribute(group)
  PROVE  /\ group \in Group /\ group \in Parameters
         /\ Applied(a, group) = TerminalApplied(a, group)
<1>0. group \in Seq(Nat) /\ Len(group) \in {1, 3, 5}
  BY DEF OneAttribute
<1>1. group \in Group /\ group \in Parameters
  <2>1. group # <<>> /\ Len(group) <= 5
    <3>1. \A l \in {1, 3, 5} : l <= 5 /\ l # 0
      OBVIOUS
    <3>2. group = <<>> => Len(group) = 0
      OBVIOUS
    <3> QED
      BY <1>0, <3>1, <3>2, Zenon
  <2> QED
    BY <1>0, <2>1 DEF Group, Few, Parameters
<1>2. Head(group) = group[1] /\ group[1] \in Nat
  BY <1>0
<1> DEFINE code == group[1]
<1>3. /\ code # 21 /\ code # 22 /\ code \notin 90 .. 97 /\ code \notin 100 .. 107
      /\ code \in Nat
  <2>1. Shared(code) \/ code = 38 \/ code = 48
    BY DEF OneAttribute
  <2>2. code \in Nat
    BY <1>2
  <2> HIDE DEF code
  <2> QED
    BY <2>1, <2>2 DEF Shared
<1> HIDE DEF code
<1>4. ASSUME NEW c \in Class
      PROVE  /\ code \in {0} \cup TerminalClears[c] <=> c \in Clears(code)
             /\ code \in TerminalSets[c] <=> c = Sets(code)
  BY <1>3, ClearsAlike, TerminalSetsStandard, SetsStandard
<1>5. TerminalApplied(a, group) =
        [c \in Class |-> IF code \in {0} \cup TerminalClears[c] THEN <<>>
                         ELSE IF code \in TerminalSets[c] THEN group ELSE a[c]]
  BY <1>2 DEF TerminalApplied, code
<1>6. Applied(a, group) =
        [c \in Class |->
           IF c \in Clears(code) THEN <<>> ELSE IF c = Sets(code) THEN group ELSE a[c]]
  BY <1>2 DEF Applied, code
<1> QED
  BY <1>1, <1>4, <1>5, <1>6

\* The filter follows what a terminal does.
LEMMA FollowedAsRendered ==
  ASSUME NEW a \in Kept, NEW groups \in Seq(Parameters),
         \A i \in 1 .. Len(groups) : OneAttribute(groups[i])
  PROVE  Followed(a, groups) = Rendered(a, groups)
<1> DEFINE n == Len(groups)
<1>1. n \in Nat /\ groups \in [1 .. n -> Parameters]
  BY LenProperties
<1>0. \A i \in 1 .. n : groups[i] \in Seq(Nat) /\ OneAttribute(groups[i])
  BY <1>1 DEF Parameters
<1>2. groups \in [1 .. n -> Group]
  <2>1. \A i \in 1 .. n : groups[i] \in Group
    BY <1>0, AppliedAsTerminal
  <2> HIDE DEF n
  <2> QED
    BY <1>1, <2>1
<1>3. a \in Attributes
  BY KeptIsAttributes
<1> HIDE DEF n
<1>4. PICK h \in [0 .. n -> Kept] :
        /\ h[0] = a /\ h[n] = Followed(a, groups)
        /\ \A k \in 1 .. n : h[k] = Applied(h[k - 1], groups[k])
  BY <1>1, <1>2, AppliedRuns
<1>5. PICK i \in [0 .. n -> Attributes] :
        /\ i[0] = a /\ i[n] = Rendered(a, groups)
        /\ \A k \in 1 .. n : i[k] = TerminalApplied(i[k - 1], groups[k])
  BY <1>1, <1>3, RenderedRuns
<1>6. ASSUME NEW k \in 1 .. n, h[k - 1] = i[k - 1] PROVE h[k] = i[k]
  <2>1. h[k - 1] \in Kept /\ groups[k] \in Seq(Nat) /\ OneAttribute(groups[k])
    BY <1>0, <1>1, <1>4
  <2>2. Applied(h[k - 1], groups[k]) = TerminalApplied(h[k - 1], groups[k])
    BY <2>1, AppliedAsTerminal
  <2> QED
    BY <1>4, <1>5, <1>6, <2>2
<1>7. h[0] = i[0]
  BY <1>4, <1>5
<1>8. h[n] = i[n]
  BY <1>1, <1>6, <1>7, RunsAgree, Zenon
<1> QED
  BY <1>4, <1>5, <1>8

\* Written class by class, what is kept is what a terminal then shows.
LEMMA EmittedIsKept == ASSUME NEW a \in Kept PROVE Emitted(a, Classes) = a
<1>1. /\ Len(Classes) = 10 /\ Classes \in [1 .. 10 -> Class]
      /\ \A c \in Class : \E i \in 1 .. 10 : Classes[i] = c
  <2>1. /\ Len(Classes) = 10 /\ DOMAIN Classes = 1 .. 10
        /\ Classes = [i \in 1 .. 10 |-> Classes[i]]
    BY DEF Classes
  <2>2. Class = {Classes[i] : i \in 1 .. 10}
    BY <2>1, Zenon DEF Class, Range
  <2> QED
    BY <2>1, <2>2
<1>2. a \in Attributes /\ 10 \in Nat
  BY KeptIsAttributes
<1>3. PICK h \in [0 .. 10 -> Attributes] :
        /\ h[0] = Off /\ h[10] = Emitted(a, Classes)
        /\ \A k \in 1 .. 10 : h[k] = ShowClass(a, h[k - 1], Classes[k])
  BY <1>1, <1>2, EmittedRuns
<1> DEFINE Written(k) == {Classes[i] : i \in 1 .. k}
           i == [k \in 0 .. 10 |-> [c \in Class |-> IF c \in Written(k) THEN a[c] ELSE <<>>]]
<1>4. h[0] = i[0]
  <2>1. Written(0) = {}
    OBVIOUS
  <2> QED
    BY <1>3, <2>1 DEF Off
<1>5. ASSUME NEW k \in 1 .. 10, h[k - 1] = i[k - 1] PROVE h[k] = i[k]
  <2> DEFINE c == Classes[k]
             before == [d \in Class |-> IF d \in Written(k - 1) THEN a[d] ELSE <<>>]
  <2>1. Written(k) = Written(k - 1) \cup {c}
    <3>1. \A j : j \in 1 .. k <=> j \in 1 .. k - 1 \/ j = k
      OBVIOUS
    <3> QED
      BY <3>1, Zenon
  <2>2. h[k - 1] = before /\ c \in Class
    <3>1. k - 1 \in 0 .. 10
      OBVIOUS
    <3> QED
      BY <1>1, <1>5, <3>1
  <2>3. i[k] = [d \in Class |-> IF d \in Written(k) THEN a[d] ELSE <<>>]
    <3>1. k \in 0 .. 10
      OBVIOUS
    <3> QED
      BY <3>1, Zenon
  <2>4. h[k] = ShowClass(a, before, c)
    BY <1>3, <2>2
  <2> HIDE DEF Written, i, c
  <2>5. CASE a[c] = <<>>
    <3>1. h[k] = before
      BY <2>4, <2>5 DEF ShowClass
    <3> QED
      BY <2>1, <2>3, <2>5, <3>1
  <2>6. CASE a[c] # <<>>
    <3>1. Sets(Head(a[c])) = c
      BY <2>2, <2>6 DEF Kept
    <3> DEFINE code == Head(a[c])
    <3>2. code \in 1 .. 9 \/ code \in 30 .. 38 \/ code \in 40 .. 48
      <4>1. "none" \notin Class
        <5>1. \A j \in 1 .. 10 : Classes[j] # "none"
          BY DEF Classes
        <5> QED
          BY <1>1, <5>1
      <4> QED
        BY <2>2, <3>1, <4>1 DEF Sets
    <3>3. /\ Clears(code) = {} /\ code # 21 /\ code # 22 /\ code \notin 90 .. 97
          /\ code \notin 100 .. 107 /\ code \in Nat
      BY <3>2 DEF Clears
    <3>4. TerminalApplied(before, a[c]) =
            [d \in Class |-> IF d = c THEN a[c] ELSE before[d]]
      <4>1. ASSUME NEW d \in Class
            PROVE  /\ code \notin {0} \cup TerminalClears[d]
                   /\ code \in TerminalSets[d] <=> d = c
        <5> HIDE DEF code
        <5>1. code \in {0} \cup TerminalClears[d] <=> d \in Clears(code)
          BY <3>3, ClearsAlike
        <5>2. code \in TerminalSets[d] <=> d = Sets(code)
          BY <3>3, TerminalSetsStandard, SetsStandard
        <5>3. Sets(code) = c
          BY <3>1 DEF code
        <5> QED
          BY <3>3, <5>1, <5>2, <5>3
      <4>2. TerminalApplied(before, a[c]) =
              [d \in Class |-> IF code \in {0} \cup TerminalClears[d] THEN <<>>
                               ELSE IF code \in TerminalSets[d] THEN a[c] ELSE before[d]]
        BY DEF TerminalApplied
      <4> HIDE DEF before, code
      <4> QED
        BY <4>1, <4>2
    <3>5. h[k] = [d \in Class |-> IF d = c THEN a[c] ELSE before[d]]
      BY <2>4, <2>6, <3>4 DEF ShowClass
    <3>6. \A d \in Class : before[d] = IF d \in Written(k - 1) THEN a[d] ELSE <<>>
      OBVIOUS
    <3> HIDE DEF before
    <3> QED
      BY <2>1, <2>3, <3>5, <3>6
  <2> QED
    BY <2>5, <2>6
<1> HIDE DEF i
<1>6. h[10] = i[10]
  <2> DEFINE n == 10
  <2>1. n \in Nat /\ \A k \in 1 .. n : h[k - 1] = i[k - 1] => h[k] = i[k]
    BY <1>5
  <2> HIDE DEF n
  <2>2. h[n] = i[n]
    BY <1>4, <2>1, RunsAgree, Zenon
  <2> QED
    BY <2>2 DEF n
<1>7. i[10] = [c \in Class |-> a[c]]
  <2>1. \A c \in Class : c \in Written(10)
    BY <1>1
  <2>2. i[10] = [c \in Class |-> IF c \in Written(10) THEN a[c] ELSE <<>>]
    BY DEF i
  <2> HIDE DEF Written
  <2> QED
    BY <2>1, <2>2
<1>8. a = [c \in Class |-> a[c]]
  BY <1>2 DEF Attributes
<1> QED
  BY <1>3, <1>6, <1>7, <1>8

-----------------------------------------------------------------------------
(* The sequence a piece of input is                                         *)

\* The elements of a sequence with one more.
LEMMA OneMore ==
  ASSUME NEW S, NEW e \in Seq(S), NEW x \in S
  PROVE  /\ Len(e) \in Nat /\ e \in [1 .. Len(e) -> S]
         /\ Append(e, x) \in [1 .. Len(e) + 1 -> S]
         /\ Append(e, x)[Len(e) + 1] = x
         /\ \A k \in 1 .. Len(e) : Append(e, x)[k] = e[k]
<1> DEFINE longer == Append(e, x)
<1>1. /\ longer \in Seq(S) /\ Len(longer) = Len(e) + 1
      /\ longer[Len(e) + 1] = x /\ \A k \in 1 .. Len(e) : longer[k] = e[k]
  BY AppendProperties
<1>2. Len(e) \in Nat /\ e \in [1 .. Len(e) -> S]
  BY LenProperties
<1> HIDE DEF longer
<1>3. longer \in [1 .. Len(longer) -> S]
  BY <1>1, LenProperties
<1>4. /\ longer \in [1 .. Len(e) + 1 -> S] /\ longer[Len(e) + 1] = x
      /\ \A k \in 1 .. Len(e) : longer[k] = e[k]
  BY <1>1, <1>3
<1> QED
  BY <1>2, <1>4 DEF longer

\* With a byte more the rest is as before.
LEMMA CompleteOfLonger ==
  ASSUME NEW e \in Seq(Tokens), NEW x \in Tokens
  PROVE  /\ Complete(e) \in Escapes
         /\ Complete(Append(e, x)) = Longer(Complete(e), x)
<1> DEFINE n == Len(e)
           longer == Append(e, x)
<1>1. n \in Nat /\ e \in [1 .. n -> Tokens]
  BY OneMore
<1>2. /\ longer \in [1 .. n + 1 -> Tokens] /\ n + 1 \in Nat
      /\ longer[n + 1] = x /\ \A k \in 1 .. n : longer[k] = e[k]
  BY <1>1, OneMore
<1> HIDE DEF n, longer
<1>3. PICK h \in [0 .. n -> Escapes] :
        /\ h[0] = <<>> /\ h[n] = Complete(e)
        /\ \A k \in 1 .. n : h[k] = Longer(h[k - 1], e[k])
  BY <1>1, CompleteRuns
<1>4. PICK i \in [0 .. n + 1 -> Escapes] :
        /\ i[0] = <<>> /\ i[n + 1] = Complete(longer)
        /\ \A k \in 1 .. n + 1 : i[k] = Longer(i[k - 1], longer[k])
  BY <1>2, CompleteRuns
<1>5. \A k \in 1 .. n : h[k - 1] = i[k - 1] => h[k] = i[k]
  BY <1>1, <1>2, <1>3, <1>4
<1>6. h[n] = i[n]
  <2>1. h[0] = i[0]
    BY <1>3, <1>4
  <2> QED
    BY <1>1, <1>5, <2>1, RunsAgree, Zenon
<1>7. i[n + 1] = Longer(i[n], longer[n + 1])
  <2> DEFINE m == n + 1
  <2>1. m \in 1 .. n + 1 /\ m - 1 = n
    BY <1>1
  <2> HIDE DEF m
  <2>2. i[m] = Longer(i[m - 1], longer[m])
    BY <1>4, <2>1
  <2>3. i[m] = Longer(i[n], longer[m])
    BY <2>1, <2>2
  <2> QED
    BY <2>3 DEF m
<1>8. h[n] \in Escapes
  BY <1>1, <1>3
<1> QED
  BY <1>2, <1>3, <1>4, <1>6, <1>7, <1>8 DEF longer

\* With a number more the rest is grouped as before.
LEMMA ReadingOfLonger ==
  ASSUME NEW e \in Seq(Nat), NEW x \in Nat
  PROVE  /\ Reading(e) \in GroupedSoFar
         /\ Reading(Append(e, x)) = Take(Reading(e), x)
<1> DEFINE n == Len(e)
           longer == Append(e, x)
<1>1. n \in Nat /\ e \in [1 .. n -> Nat]
  BY OneMore
<1>2. /\ longer \in [1 .. n + 1 -> Nat] /\ n + 1 \in Nat
      /\ longer[n + 1] = x /\ \A k \in 1 .. n : longer[k] = e[k]
  BY <1>1, OneMore
<1> HIDE DEF n, longer
<1>3. PICK h \in [0 .. n -> GroupedSoFar] :
        /\ h[0] = None /\ h[n] = Reading(e)
        /\ \A k \in 1 .. n : h[k] = Take(h[k - 1], e[k])
  BY <1>1, GroupedRuns
<1>4. PICK i \in [0 .. n + 1 -> GroupedSoFar] :
        /\ i[0] = None /\ i[n + 1] = Reading(longer)
        /\ \A k \in 1 .. n + 1 : i[k] = Take(i[k - 1], longer[k])
  BY <1>2, GroupedRuns
<1>5. \A k \in 1 .. n : h[k - 1] = i[k - 1] => h[k] = i[k]
  BY <1>1, <1>2, <1>3, <1>4
<1>6. h[n] = i[n]
  <2>1. h[0] = i[0]
    BY <1>3, <1>4
  <2> QED
    BY <1>1, <1>5, <2>1, RunsAgree, Zenon
<1>7. i[n + 1] = Take(i[n], longer[n + 1])
  <2> DEFINE m == n + 1
  <2>1. m \in 1 .. n + 1 /\ m - 1 = n
    BY <1>1
  <2> HIDE DEF m
  <2>2. i[m] = Take(i[m - 1], longer[m])
    BY <1>4, <2>1
  <2>3. i[m] = Take(i[n], longer[m])
    BY <2>1, <2>2
  <2> QED
    BY <2>3 DEF m
<1>8. h[n] \in GroupedSoFar
  BY <1>1, <1>3
<1> QED
  BY <1>2, <1>3, <1>4, <1>6, <1>7, <1>8 DEF longer

\* Nothing is completed from nothing.
LEMMA CompleteOfNone == Complete(<<>>) = <<>>
<1> DEFINE n == 0
           s == <<>>
<1>1. n \in Nat /\ s \in [1 .. n -> Tokens]
  <2>1. 1 .. 0 = {}
    OBVIOUS
  <2> QED
    BY <2>1
<1> HIDE DEF n, s
<1>2. PICK h \in [0 .. n -> Escapes] : h[0] = <<>> /\ h[n] = Complete(s)
  BY <1>1, CompleteRuns
<1> QED
  BY <1>2 DEF n, s

\* No numbers are no groups.
LEMMA ReadingOfNone == Reading(<<>>) = None
<1> DEFINE n == 0
           s == <<>>
<1>1. n \in Nat /\ s \in [1 .. n -> Nat]
  <2>1. 1 .. 0 = {}
    OBVIOUS
  <2> QED
    BY <2>1
<1> HIDE DEF n, s
<1>2. PICK h \in [0 .. n -> GroupedSoFar] : h[0] = None /\ h[n] = Reading(s)
  BY <1>1, GroupedRuns
<1> QED
  BY <1>2 DEF n, s

\* The first elements of a sequence, one by one.
LEMMA PrefixMore ==
  ASSUME NEW S, NEW s \in Seq(S), NEW k \in 1 .. Len(s)
  PROVE  /\ SubSeq(s, 1, k - 1) \in Seq(S) /\ SubSeq(s, 1, k) \in Seq(S)
         /\ s[k] \in S /\ Len(SubSeq(s, 1, k)) = k
         /\ \A i \in 1 .. k : SubSeq(s, 1, k)[i] = s[i]
         /\ SubSeq(s, 1, k) = Append(SubSeq(s, 1, k - 1), s[k])
<1>1. /\ \A i \in 1 .. k : s[i] \in S
      /\ \A i \in 1 .. k - 1 : s[i] \in S
      /\ k \in Nat /\ k - 1 \in Nat /\ Len(s) \in Nat
  BY LenProperties
<1>2. SubSeq(s, 1, k - 1) \in Seq(S)
  BY <1>1, SubSeqProperties
<1>3. /\ SubSeq(s, 1, k) \in Seq(S) /\ Len(SubSeq(s, 1, k)) = k
      /\ \A i \in 1 .. k : SubSeq(s, 1, k)[i] = s[i]
  <2>1. /\ SubSeq(s, 1, k) \in Seq(S)
        /\ Len(SubSeq(s, 1, k)) = IF 1 <= k THEN k - 1 + 1 ELSE 0
        /\ \A i \in 1 .. k - 1 + 1 : SubSeq(s, 1, k)[i] = s[1 + i - 1]
    BY <1>1, SubSeqProperties
  <2> QED
    BY <1>1, <2>1
<1>4. SubSeq(s, 1, k) = Append(SubSeq(s, 1, k - 1), s[k])
  <2>1. 1 \in 1 .. Len(s) /\ k \in 1 .. Len(s)
    BY <1>1
  <2>2. SubSeq(s, 1, k) = SubSeq(s, 1, k - 1) \o <<s[k]>>
    BY <2>1, SubSeqRecursiveSecond
  <2>3. s[k] \in S
    BY <1>1
  <2> QED
    BY <1>2, <2>2, <2>3, AppendIsConcat
<1> QED
  BY <1>1, <1>2, <1>3, <1>4

Read(groups, consume) == [groups |-> groups, consume |-> consume]

\* A number that begins a group.
LEMMA FirstTaken ==
  ASSUME NEW gs \in Seq(Group), NEW n \in Nat
  PROVE  Take(Read(gs, 0), n) = Read(Append(gs, <<n>>), More(<<n>>))
<1> DEFINE so == Read(gs, 0)
<1>1. so.groups = gs /\ so.consume = 0
  BY DEF Read
<1> HIDE DEF so
<1>2. Take(so, n) = [groups |-> Append(gs, <<n>>), consume |-> 0 + More(<<n>>)]
  BY <1>1 DEF Take
<1>3. 0 + More(<<n>>) = More(<<n>>)
  BY DEF More
<1> QED
  BY <1>2, <1>3 DEF so, Read

\* A number that a group still takes.
LEMMA NextTaken ==
  ASSUME NEW gs \in Seq(Group), NEW g \in Group, NEW n \in Nat, NEW consume \in 1 .. 3
  PROVE  Take(Read(Append(gs, g), consume), n) =
           Read(Append(gs, Append(g, n)), consume - 1 + More(Append(g, n)))
<1> DEFINE so == Read(Append(gs, g), consume)
<1>1. so.groups = Append(gs, g) /\ so.consume = consume /\ consume # 0
  BY DEF Read
<1>2. Last(so.groups) = g /\ Front(so.groups) = gs
  BY <1>1, LastAndFront
<1> HIDE DEF so
<1>3. Take(so, n) =
        [groups |-> Append(gs, Append(g, n)), consume |-> consume - 1 + More(Append(g, n))]
  BY <1>1, <1>2 DEF Take
<1> QED
  BY <1>3 DEF so, Read

\* A number more of the group that is read.
LEMMA GroupGrows ==
  ASSUME NEW x \in Seq(Nat), NEW gs \in Seq(Group), NEW g \in Group, NEW n \in Nat,
         NEW consume \in 1 .. 3, Reading(x \o g) = Read(Append(gs, g), consume)
  PROVE  Reading(x \o Append(g, n)) =
           Read(Append(gs, Append(g, n)), consume - 1 + More(Append(g, n)))
<1>1. g \in Seq(Nat) /\ x \o g \in Seq(Nat)
  BY ConcatProperties DEF Group, Few
<1>2. x \o Append(g, n) = Append(x \o g, n)
  <2>1. Append(g, n) = g \o <<n>> /\ <<n>> \in Seq(Nat)
    BY <1>1, AppendIsConcat
  <2>2. Append(x \o g, n) = (x \o g) \o <<n>>
    BY <1>1, AppendIsConcat
  <2> QED
    BY <1>1, <2>1, <2>2, ConcatAssociative
<1>3. Reading(Append(x \o g, n)) = Take(Reading(x \o g), n)
  BY <1>1, ReadingOfLonger
<1>4. Take(Read(Append(gs, g), consume), n) =
        Read(Append(gs, Append(g, n)), consume - 1 + More(Append(g, n)))
  BY NextTaken
<1> QED
  BY <1>2, <1>3, <1>4

\* How many more numbers a group takes.
LEMMA MoreOfPrefix ==
  ASSUME NEW group \in Seq(Nat), NEW k \in 1 .. Len(group), group[1] \in {38, 48}
  PROVE  More(SubSeq(group, 1, k)) =
           IF k = 1 THEN 1
           ELSE IF k = 2 /\ group[2] = 2 THEN 3
           ELSE IF k = 2 /\ group[2] = 5 THEN 1 ELSE 0
<1> DEFINE g == SubSeq(group, 1, k)
<1>1. g \in Seq(Nat) /\ Len(g) = k /\ \A i \in 1 .. k : g[i] = group[i]
  BY PrefixMore
<1> HIDE DEF g
<1>2. Head(g) = group[1]
  <2>1. 1 \in 1 .. k
    OBVIOUS
  <2> QED
    BY <1>1, <2>1
<1>3. k = 2 => g[2] = group[2]
  BY <1>1
<1>4. More(g) =
        IF k = 1 THEN 1
        ELSE IF k = 2 /\ group[2] = 2 THEN 3
        ELSE IF k = 2 /\ group[2] = 5 THEN 1 ELSE 0
  BY <1>1, <1>2, <1>3 DEF More, Extended
<1> QED
  BY <1>4 DEF g

\* Its numbers are read as one group.
LEMMA ReadingOfGroup ==
  ASSUME NEW x \in Seq(Nat), NEW gs \in Seq(Group), NEW group \in Seq(Nat),
         OneAttribute(group), Reading(x) = Read(gs, 0)
  PROVE  Reading(x \o group) = Read(Append(gs, group), 0)
<1>0. Len(group) \in Nat
  BY LenProperties
<1>1. ASSUME NEW n \in Nat, group[1] = n, Len(group) \in {1, 3, 5}
      PROVE  /\ Reading(x \o SubSeq(group, 1, 1)) = Read(Append(gs, <<n>>), More(<<n>>))
             /\ SubSeq(group, 1, 1) = <<n>>
  <2>1. 1 \in 1 .. Len(group)
    BY <1>0, <1>1
  <2>2. SubSeq(group, 1, 1) = <<n>>
    <3>1. SubSeq(group, 1, 1) = Append(SubSeq(group, 1, 0), n)
      BY <1>1, <2>1, PrefixMore
    <3>2. SubSeq(group, 1, 0) = <<>>
      BY SubSeqEmpty
    <3>3. Append(<<>>, n) = <<>> \o <<n>> /\ <<n>> \in Seq(Nat) /\ <<>> \in Seq(Nat)
      BY AppendIsConcat
    <3> QED
      BY <3>1, <3>2, <3>3, ConcatEmptySeq
  <2>3. x \o <<n>> = Append(x, n)
    BY AppendIsConcat
  <2>4. Reading(Append(x, n)) = Take(Read(gs, 0), n)
    BY ReadingOfLonger
  <2> QED
    BY <2>2, <2>3, <2>4, FirstTaken
<1>2. CASE Len(group) = 1 /\ Shared(group[1])
  <2> DEFINE n == group[1]
  <2>1. n \in Nat /\ n \notin {38, 48}
    <3>1. 1 \in 1 .. Len(group)
      BY <1>2
    <3>2. n \in Nat
      BY <3>1, ElementOfSeq
    <3> QED
      BY <1>2, <3>2 DEF Shared
  <2>2. group = SubSeq(group, 1, 1)
    BY <1>2, SubSeqFull
  <2>3. More(<<n>>) = 0
    BY <2>1 DEF More, Extended
  <2> QED
    BY <1>1, <1>2, <2>1, <2>2, <2>3
<1>3. ASSUME group[1] \in {38, 48}, Len(group) \in {3, 5}, group[2] \in {2, 5},
             NEW k \in 1 .. Len(group) - 1, NEW consume \in 1 .. 3,
             Reading(x \o SubSeq(group, 1, k)) = Read(Append(gs, SubSeq(group, 1, k)), consume)
      PROVE  Reading(x \o SubSeq(group, 1, k + 1)) =
               Read(Append(gs, SubSeq(group, 1, k + 1)),
                    consume - 1 + More(SubSeq(group, 1, k + 1)))
  <2> DEFINE g == SubSeq(group, 1, k)
             more == SubSeq(group, 1, k + 1)
  <2>1. k \in 1 .. Len(group) /\ k + 1 \in 1 .. Len(group) /\ k + 1 - 1 = k
    BY <1>0
  <2>2. g \in Seq(Nat) /\ Len(g) = k
    BY <2>1, PrefixMore
  <2>3. more = Append(g, group[k + 1]) /\ group[k + 1] \in Nat
    <3> DEFINE m == k + 1
    <3>1. m \in 1 .. Len(group) /\ m - 1 = k
      BY <2>1
    <3> HIDE DEF m
    <3>2. SubSeq(group, 1, m) = Append(SubSeq(group, 1, m - 1), group[m]) /\ group[m] \in Nat
      BY <3>1, PrefixMore
    <3>3. SubSeq(group, 1, m) = Append(SubSeq(group, 1, k), group[m])
      BY <3>1, <3>2
    <3> QED
      BY <3>2, <3>3 DEF m
  <2>4. g \in Group
    <3>1. k <= 5 /\ k # 0
      <4>1. \A l \in {3, 5} : k \in 1 .. l => k <= 5 /\ k # 0
        OBVIOUS
      <4> QED
        BY <1>3, <2>1, <4>1, Zenon
    <3> HIDE DEF g
    <3>2. g # <<>>
      BY <2>2, <3>1
    <3> QED
      BY <2>2, <3>1, <3>2 DEF Group, Few
  <2>5. Reading(x \o g) = Read(Append(gs, g), consume)
    BY <1>3
  <2> HIDE DEF g, more
  <2>6. Reading(x \o more) = Read(Append(gs, more), consume - 1 + More(more))
    BY <2>3, <2>4, <2>5, GroupGrows
  <2> QED
    BY <2>6 DEF more
<1>4. ASSUME group[1] \in {38, 48}, Len(group) \in {3, 5}, group[2] \in {2, 5}
      PROVE  Reading(x \o SubSeq(group, 1, 2)) =
               Read(Append(gs, SubSeq(group, 1, 2)), IF group[2] = 2 THEN 3 ELSE 1)
  <2>1. 1 \in 1 .. Len(group) /\ 2 \in 1 .. Len(group) /\ 1 \in 1 .. Len(group) - 1
    BY <1>0, <1>4
  <2>2. Reading(x \o SubSeq(group, 1, 1)) = Read(Append(gs, SubSeq(group, 1, 1)), 1)
    <3>1. More(SubSeq(group, 1, 1)) = 1
      BY <1>4, <2>1, MoreOfPrefix
    <3>2. group[1] \in Nat
      BY <1>4
    <3> QED
      BY <1>1, <1>4, <3>1, <3>2
  <2>3. More(SubSeq(group, 1, 2)) = IF group[2] = 2 THEN 3 ELSE 1
    BY <1>4, <2>1, MoreOfPrefix
  <2>4. Reading(x \o SubSeq(group, 1, 1 + 1)) =
          Read(Append(gs, SubSeq(group, 1, 1 + 1)), 1 - 1 + More(SubSeq(group, 1, 1 + 1)))
    BY <1>3, <1>4, <2>1, <2>2
  <2> QED
    BY <2>3, <2>4
<1>5. ASSUME group[1] \in {38, 48}, NEW k \in 3 .. Len(group)
      PROVE  More(SubSeq(group, 1, k)) = 0
  <2>1. k \in 1 .. Len(group) /\ k # 1 /\ k # 2
    BY <1>0
  <2> QED
    BY <1>5, <2>1, MoreOfPrefix
<1>6. CASE Len(group) = 3 /\ group[1] \in {38, 48} /\ group[2] = 5
  <2>1. Reading(x \o SubSeq(group, 1, 2)) = Read(Append(gs, SubSeq(group, 1, 2)), 1)
    BY <1>4, <1>6
  <2>2. More(SubSeq(group, 1, 3)) = 0
    <3>1. 3 \in 3 .. Len(group)
      BY <1>6
    <3> QED
      BY <1>6, <1>5, <3>1
  <2>3. Reading(x \o SubSeq(group, 1, 2 + 1)) =
          Read(Append(gs, SubSeq(group, 1, 2 + 1)), 1 - 1 + More(SubSeq(group, 1, 2 + 1)))
    BY <1>3, <1>6, <2>1
  <2>4. Reading(x \o SubSeq(group, 1, 3)) = Read(Append(gs, SubSeq(group, 1, 3)), 0)
    BY <2>2, <2>3
  <2>5. SubSeq(group, 1, 3) = group
    BY <1>6, SubSeqFull
  <2> QED
    BY <2>4, <2>5
<1>7. CASE Len(group) = 5 /\ group[1] \in {38, 48} /\ group[2] = 2
  <2>1. Reading(x \o SubSeq(group, 1, 2)) = Read(Append(gs, SubSeq(group, 1, 2)), 3)
    BY <1>4, <1>7
  <2>2. /\ More(SubSeq(group, 1, 3)) = 0 /\ More(SubSeq(group, 1, 4)) = 0
        /\ More(SubSeq(group, 1, 5)) = 0
    <3>1. 3 \in 3 .. Len(group) /\ 4 \in 3 .. Len(group) /\ 5 \in 3 .. Len(group)
      BY <1>7
    <3> QED
      BY <1>7, <1>5, <3>1
  <2>3. Reading(x \o SubSeq(group, 1, 2 + 1)) =
          Read(Append(gs, SubSeq(group, 1, 2 + 1)), 3 - 1 + More(SubSeq(group, 1, 2 + 1)))
    BY <1>3, <1>7, <2>1
  <2>4. Reading(x \o SubSeq(group, 1, 3)) = Read(Append(gs, SubSeq(group, 1, 3)), 2)
    BY <2>2, <2>3
  <2>5. Reading(x \o SubSeq(group, 1, 3 + 1)) =
          Read(Append(gs, SubSeq(group, 1, 3 + 1)), 2 - 1 + More(SubSeq(group, 1, 3 + 1)))
    BY <1>3, <1>7, <2>4
  <2>6. Reading(x \o SubSeq(group, 1, 4)) = Read(Append(gs, SubSeq(group, 1, 4)), 1)
    BY <2>2, <2>5
  <2>7. Reading(x \o SubSeq(group, 1, 4 + 1)) =
          Read(Append(gs, SubSeq(group, 1, 4 + 1)), 1 - 1 + More(SubSeq(group, 1, 4 + 1)))
    BY <1>3, <1>7, <2>6
  <2>8. Reading(x \o SubSeq(group, 1, 5)) = Read(Append(gs, SubSeq(group, 1, 5)), 0)
    BY <2>2, <2>7
  <2>9. SubSeq(group, 1, 5) = group
    BY <1>7, SubSeqFull
  <2> QED
    BY <2>8, <2>9
<1> QED
  BY <1>2, <1>6, <1>7 DEF OneAttribute

\* The parameters of a sequence are grouped as they were spelled.
LEMMA GroupedAsSpelled ==
  ASSUME NEW groups \in Seq(Parameters),
         \A i \in 1 .. Len(groups) : OneAttribute(groups[i])
  PROVE  Grouped(Spelled(groups)) = groups
<1> DEFINE n == Len(groups)
<1>1. n \in Nat /\ groups \in [1 .. n -> Parameters]
  BY LenProperties
<1>2. \A i \in 1 .. n : groups[i] \in Seq(Nat) /\ groups[i] \in Group
  <2>1. \A i \in 1 .. n : groups[i] \in Seq(Nat)
    BY <1>1 DEF Parameters
  <2>2. Off \in Kept
    BY OffOK
  <2> QED
    BY <2>1, <2>2, AppliedAsTerminal
<1>3. groups \in Seq(Group) /\ groups \in [1 .. n -> Codes]
  <2>1. groups = [i \in 1 .. n |-> groups[i]]
    BY <1>1
  <2> HIDE DEF n
  <2>2. groups \in [1 .. n -> Group] /\ groups \in [1 .. n -> Codes]
    BY <1>2, <2>1 DEF Codes
  <2> QED
    BY <1>1, <2>2, SeqDef
<1>4. \A i \in 1 .. n : OneAttribute(groups[i])
  OBVIOUS
<1>5. SubSeq(groups, 1, n) = groups
  BY SubSeqFull
<1> HIDE DEF n
<1>6. PICK spelled \in [0 .. n -> Codes] :
        /\ spelled[0] = <<>> /\ spelled[n] = Spelled(groups)
        /\ \A k \in 1 .. n : spelled[k] = spelled[k - 1] \o groups[k]
  BY <1>1, <1>3, SpelledRuns
<1> DEFINE h == [k \in 0 .. n |-> Reading(spelled[k])]
           i == [k \in 0 .. n |-> Read(SubSeq(groups, 1, k), 0)]
<1>7. h[0] = i[0]
  <2>1. SubSeq(groups, 1, 0) = <<>>
    BY SubSeqEmpty
  <2>2. 0 \in 0 .. n
    BY <1>1
  <2>3. h[0] = Reading(spelled[0]) /\ i[0] = Read(SubSeq(groups, 1, 0), 0)
    BY <2>2, Zenon
  <2>4. Reading(spelled[0]) = Read(<<>>, 0)
    BY <1>6, ReadingOfNone DEF None, Read
  <2> QED
    BY <2>1, <2>3, <2>4, Zenon
<1>8. ASSUME NEW k \in 1 .. n, h[k - 1] = i[k - 1] PROVE h[k] = i[k]
  <2>1. k - 1 \in 0 .. n /\ k \in 0 .. n
    BY <1>1
  <2>2. Reading(spelled[k - 1]) = Read(SubSeq(groups, 1, k - 1), 0)
    BY <1>8, <2>1
  <2>3. spelled[k - 1] \in Seq(Nat) /\ groups[k] \in Seq(Nat) /\ OneAttribute(groups[k])
    BY <1>2, <1>4, <1>6, <2>1 DEF Codes
  <2>4. k \in 1 .. Len(groups)
    BY DEF n
  <2>5. /\ SubSeq(groups, 1, k - 1) \in Seq(Group)
        /\ SubSeq(groups, 1, k) = Append(SubSeq(groups, 1, k - 1), groups[k])
    BY <1>3, <2>4, PrefixMore
  <2>6. Reading(spelled[k - 1] \o groups[k]) =
          Read(Append(SubSeq(groups, 1, k - 1), groups[k]), 0)
    BY <2>2, <2>3, <2>5, ReadingOfGroup
  <2>7. Reading(spelled[k]) = Read(SubSeq(groups, 1, k), 0)
    BY <1>6, <2>5, <2>6
  <2> QED
    BY <2>1, <2>7
<1> HIDE DEF h, i
<1>9. h[n] = i[n]
  BY <1>1, <1>7, <1>8, RunsAgree, Zenon
<1>10. Reading(Spelled(groups)) = Read(groups, 0)
  <2>1. n \in 0 .. n
    BY <1>1
  <2>2. h[n] = Reading(spelled[n]) /\ i[n] = Read(SubSeq(groups, 1, n), 0)
    BY <2>1 DEF h, i
  <2> QED
    BY <1>5, <1>6, <1>9, <2>2
<1> QED
  BY <1>10 DEF Grouped, Read

\* Numbers that never fall are at most the last one.
LEMMA LastIsMost ==
  ASSUME NEW n \in Nat, NEW h \in [0 .. n -> Nat],
         \A k \in 1 .. n : h[k - 1] <= h[k], NEW k \in 0 .. n
  PROVE  h[k] <= h[n]
<1> DEFINE Bad == {d \in 0 .. n : ~(h[n - d] <= h[n])}
<1>1. Bad \subseteq Nat
  OBVIOUS
<1>2. SUFFICES ASSUME Bad # {} PROVE FALSE
  <2>1. n - k \in 0 .. n /\ n - (n - k) = k
    OBVIOUS
  <2> DEFINE d == n - k
  <2>2. d \in 0 .. n /\ n - d = k
    BY <2>1
  <2> HIDE DEF d
  <2> QED
    BY <2>2
<1>3. PICK d \in Bad : \A m \in Bad : d <= m
  <2> HIDE DEF Bad
  <2> QED
    BY <1>1, <1>2, Smallest
<1>4. d \in 0 .. n /\ ~(h[n - d] <= h[n])
  BY <1>3
<1>5. h[n] \in Nat
  OBVIOUS
<1>6. d # 0
  BY <1>4, <1>5
<1> DEFINE b == d - 1
           m == n - d
<1>7. b \in 0 .. n /\ ~(d <= b) /\ m + 1 = n - b /\ m + 1 \in 1 .. n /\ m \in 0 .. n
  BY <1>4, <1>6
<1> HIDE DEF b, m
<1>8. b \notin Bad
  <2> HIDE DEF Bad
  <2> QED
    BY <1>3, <1>7
<1>9. h[m + 1] <= h[n]
  BY <1>7, <1>8
<1>10. h[m] <= h[m + 1] /\ h[m] \in Nat /\ h[m + 1] \in Nat
  <2> DEFINE l == m + 1
  <2>1. l \in 1 .. n /\ l - 1 = m /\ l \in 0 .. n
    BY <1>7
  <2> HIDE DEF l
  <2>2. h[l - 1] <= h[l]
    BY <2>1
  <2>3. h[m] <= h[l] /\ h[m] \in Nat /\ h[l] \in Nat
    BY <1>7, <2>1, <2>2
  <2> QED
    BY <2>3 DEF l
<1>11. ~(h[m] <= h[n])
  BY <1>4 DEF m
<1> QED
  BY <1>5, <1>9, <1>10, <1>11

\* A byte more makes a sequence longer.
LEMMA LongerIsLonger ==
  ASSUME NEW e \in Seq(Tokens), NEW token \in Tokens
  PROVE  /\ Filled(e, token) \in Seq(Tokens) /\ Longer(e, token) \in Seq(Tokens)
         /\ escapelen(e) \in Nat /\ escapelen(Longer(e, token)) \in Nat
         /\ escapelen(Longer(e, token)) = escapelen(Filled(e, token)) + Width(token)
         /\ escapelen(e) <= escapelen(Longer(e, token))
         /\ Len(Longer(e, token)) \in Nat /\ Len(Longer(e, token)) >= Len(e) + 1
         /\ Last(Longer(e, token)) = token
<1> DEFINE filled == Filled(e, token)
<1>1. Zero \in Tokens /\ Append(e, Zero) \in Seq(Tokens) /\ Len(Append(e, Zero)) = Len(e) + 1
  <2>1. Zero \in Tokens
    BY ZeroIsToken
  <2> QED
    BY <2>1, AppendProperties
<1>2. Width(Zero) \in Nat /\ Width(token) \in Nat
  BY ZeroIsToken, WidthOK
<1>3. filled = e \/ filled = Append(e, Zero)
  BY DEF Filled
<1> HIDE DEF filled
<1>4. /\ filled \in Seq(Tokens) /\ Len(filled) \in Nat /\ Len(e) \in Nat
      /\ Len(filled) >= Len(e)
  BY <1>1, <1>3, LenProperties
<1>5. escapelen(e) \in Nat /\ escapelen(filled) \in Nat /\ escapelen(e) <= escapelen(filled)
  <2>1. escapelen(Append(e, Zero)) = escapelen(e) + Width(Zero) /\ escapelen(e) \in Nat
    BY <1>1, LengthOfLonger
  <2>2. CASE filled = e
    BY <2>1, <2>2
  <2>3. CASE filled = Append(e, Zero)
    <3>1. escapelen(filled) = escapelen(e) + Width(Zero)
      BY <2>1, <2>3, Zenon
    <3> QED
      BY <1>2, <2>1, <3>1
  <2> QED
    BY <1>3, <2>2, <2>3
<1> DEFINE longer == Append(filled, token)
<1>6. /\ longer \in Seq(Tokens) /\ Len(longer) = Len(filled) + 1
      /\ escapelen(longer) = escapelen(filled) + Width(token)
      /\ Last(longer) = token
  BY <1>4, AppendProperties, LengthOfLonger, LastAndFront
<1>7. Longer(e, token) = longer
  BY DEF Longer, filled
<1> HIDE DEF longer
<1> QED
  BY <1>2, <1>4, <1>5, <1>6, <1>7 DEF filled

\* What comes first fits if all of it does.
LEMMA PrefixFits ==
  ASSUME NEW e \in Seq(Tokens), NEW k \in 0 .. Len(e)
  PROVE  escapelen(Complete(SubSeq(e, 1, k))) <= escapelen(Complete(e))
<1> DEFINE n == Len(e)
           h == [j \in 0 .. n |-> escapelen(Complete(SubSeq(e, 1, j)))]
<1>1. n \in Nat
  BY LenProperties
<1>2. ASSUME NEW j \in 1 .. n
      PROVE  /\ Complete(SubSeq(e, 1, j - 1)) \in Seq(Tokens)
             /\ Complete(SubSeq(e, 1, j)) = Longer(Complete(SubSeq(e, 1, j - 1)), e[j])
             /\ e[j] \in Tokens
  <2>1. /\ SubSeq(e, 1, j - 1) \in Seq(Tokens) /\ e[j] \in Tokens
        /\ SubSeq(e, 1, j) = Append(SubSeq(e, 1, j - 1), e[j])
    BY PrefixMore
  <2> QED
    BY <2>1, CompleteOfLonger DEF Escapes
<1>3. \A j \in 1 .. n : h[j - 1] <= h[j]
  <2> TAKE j \in 1 .. n
  <2>1. j - 1 \in 0 .. n /\ j \in 0 .. n
    BY <1>1
  <2>2. escapelen(Complete(SubSeq(e, 1, j - 1))) <= escapelen(Complete(SubSeq(e, 1, j)))
    BY <1>2, LongerIsLonger
  <2> QED
    BY <2>1, <2>2
<1>4. h \in [0 .. n -> Nat]
  <2>1. ASSUME NEW j \in 0 .. n PROVE escapelen(Complete(SubSeq(e, 1, j))) \in Nat
    <3>1. CASE j = 0
      <4>1. SubSeq(e, 1, j) = <<>>
        BY <3>1, SubSeqEmpty
      <4>2. escapelen(Complete(SubSeq(e, 1, j))) = 0
        BY <4>1, CompleteOfNone, LengthOfNone, Zenon
      <4> QED
        BY <4>2
    <3>2. CASE j \in 1 .. n
      BY <1>2, <3>2, LongerIsLonger
    <3> QED
      BY <1>1, <3>1, <3>2
  <2> QED
    BY <2>1
<1>5. h[k] = escapelen(Complete(SubSeq(e, 1, k)))
  OBVIOUS
<1>6. h[n] = escapelen(Complete(e))
  <2>1. n \in 0 .. n /\ SubSeq(e, 1, n) = e
    BY <1>1, SubSeqFull
  <2> QED
    BY <2>1
<1> HIDE DEF h, n
<1>7. k \in 0 .. n
  BY DEF n
<1>8. h[k] <= h[n]
  BY <1>1, <1>3, <1>4, <1>7, LastIsMost
<1> QED
  BY <1>5, <1>6, <1>8

-----------------------------------------------------------------------------
\* The invariant of orderly input: between its bytes a sequence is held as far as it
\* is read, and what is kept is what a terminal shows, as is what less was told.
HeldInv ==
  inside => /\ escape = Complete(SubSeq(piece.bytes, 1, next - 1))
            /\ Len(escape) >= next - 1
            /\ next = 2 => escape = <<piece.bytes[1]>>
            /\ next > 2 => Last(escape).kind # "escape"
            /\ \A i \in 2 .. next - 1 : ~Breaks(piece, i)
SgrInv == Sgr(piece) /\ next \in 2 .. Len(piece.bytes) => inside
SameInv == attr = terminal /\ (~print_escapes => less = terminal)
LessInv == ParserInv /\ (orderly => HeldInv /\ SgrInv /\ SameInv)

\* The next text shows in less as on a terminal.
LEMMA ShownIsTerminal == ASSUME ParserInv, SameInv PROVE Shown = terminal
BY EmittedIsKept DEF Shown, ParserInv, FilterOK, SameInv

\* A byte that ends no sequence changes neither terminal nor what less shows.
LEMMA CopySame ==
  ASSUME ParserInv, SameInv, orderly, ~Done, Copy,
         next # Len(piece.bytes) \/ piece.groups = <<>>
  PROVE  terminal' = terminal /\ (Token.kind # "newline" => less' = terminal)
<1>1. /\ terminal' = Rendered(terminal, <<>>)
      /\ Token.kind # "newline" => less' = Rendered(Shown, <<>>)
  BY DEF Copy, Seen
<1>2. terminal \in Attributes /\ Shown = terminal
  BY ShownIsTerminal DEF ParserInv, SeenOK
<1> QED
  BY <1>1, <1>2, NothingRendered

\* The bytes of an SGR sequence.
LEMMA SgrToken ==
  ASSUME NEW p \in Piece, Sgr(p), NEW i \in 1 .. Len(p.bytes)
  PROVE  /\ p.bytes[i].kind \in {"escape", "[", ";", "number", "m"}
         /\ i = 1 => p.bytes[i].kind = "escape"
         /\ i = 2 => p.bytes[i].kind = "["
         /\ i > 2 /\ i < Len(p.bytes) => p.bytes[i].kind \in {";", "number"}
         /\ i = Len(p.bytes) => p.bytes[i].kind = "m" /\ i > 2
<1> DEFINE n == Len(p.bytes)
           kind == p.bytes[i].kind
<1>1. n \in Nat /\ n > 2
  BY PieceTyped DEF Sgr
<1>2. ASSUME i = 1 PROVE kind = "escape"
  BY <1>2 DEF Sgr
<1>3. ASSUME i \in 2 .. n - 1
      PROVE  IF i = 2 THEN kind = "[" ELSE kind \in {";", "number"}
  BY <1>3 DEF Sgr, Breaks
<1>4. ASSUME i = n PROVE kind = "m"
  BY <1>4 DEF Sgr
<1>5. i \in 1 .. n
  OBVIOUS
<1> HIDE DEF n, kind
<1>6. /\ kind \in {"escape", "[", ";", "number", "m"}
      /\ i = 1 => kind = "escape"
      /\ i = 2 => kind = "["
      /\ i > 2 /\ i < n => kind \in {";", "number"}
      /\ i = n => kind = "m" /\ i > 2
  <2>1. i = 1 \/ i \in 2 .. n - 1 \/ i = n
    BY <1>1, <1>5
  <2>2. CASE i = 1
    BY <1>1, <1>2, <2>2
  <2>3. CASE i \in 2 .. n - 1
    <3>1. i # 1 /\ i # n /\ i \in Nat
      BY <1>1, <2>3
    <3>2. CASE i = 2
      BY <1>3, <2>3, <3>1, <3>2
    <3>3. CASE i # 2
      BY <1>3, <2>3, <3>1, <3>3
    <3> QED
      BY <3>2, <3>3
  <2>4. CASE i = n
    BY <1>1, <1>4, <2>4
  <2> QED
    BY <2>1, <2>2, <2>3, <2>4
<1> QED
  BY <1>6 DEF n, kind

\* A byte of a sequence: the sequence is held up to it.
LEMMA SequenceStep ==
  ASSUME ParserInv, HeldInv, orderly, SequenceByte
  PROVE  /\ next \in 2 .. Len(piece.bytes) /\ piece.bytes[1].kind = "escape"
         /\ piece' = piece /\ next' = next + 1 /\ print_escapes' = FALSE
         /\ Token = piece.bytes[next] /\ inside
         /\ Longer(escape, Token) = Complete(SubSeq(piece.bytes, 1, next))
         /\ Len(Longer(escape, Token)) \in Nat /\ Len(Longer(escape, Token)) >= next
         /\ next = 2 => Len(Longer(escape, Token)) = 2
         /\ Last(Longer(escape, Token)) = Token
         /\ Fits(Filled(escape, Token), Token) <=>
              escapelen(Longer(escape, Token)) <= EscapeSize - 1
<1>1. ~Done /\ Copy /\ inside /\ print_escapes' = FALSE
  BY DEF SequenceByte
<1>2. /\ piece' = piece /\ piece \in Piece /\ next' = next + 1 /\ Token \in Tokens
      /\ Token = piece.bytes[next] /\ next \in 1 .. Len(piece.bytes)
  BY <1>1, CopyOK DEF Token
<1>3. next \in 2 .. Len(piece.bytes) /\ piece.bytes[1].kind = "escape"
  BY <1>1 DEF ParserInv, PieceOK
<1>4. escape \in Seq(Tokens) /\ piece.bytes \in Seq(Tokens) /\ Len(piece.bytes) \in Nat
  BY <1>2, PieceTyped DEF ParserInv, FilterOK
<1>5. /\ escape = Complete(SubSeq(piece.bytes, 1, next - 1)) /\ Len(escape) >= next - 1
      /\ next = 2 => escape = <<piece.bytes[1]>>
  BY <1>1 DEF HeldInv
<1>6. Longer(escape, Token) = Complete(SubSeq(piece.bytes, 1, next))
  <2>1. /\ SubSeq(piece.bytes, 1, next - 1) \in Seq(Tokens)
        /\ SubSeq(piece.bytes, 1, next) = Append(SubSeq(piece.bytes, 1, next - 1), Token)
    BY <1>2, <1>4, PrefixMore
  <2> QED
    BY <1>2, <1>5, <2>1, CompleteOfLonger
<1>7. /\ Len(Longer(escape, Token)) \in Nat /\ Len(Longer(escape, Token)) >= Len(escape) + 1
      /\ Last(Longer(escape, Token)) = Token
      /\ escapelen(Longer(escape, Token)) =
           escapelen(Filled(escape, Token)) + Width(Token)
  BY <1>2, <1>4, LongerIsLonger
<1>8. Len(Longer(escape, Token)) >= next
  <2>1. Len(escape) \in Nat
    BY <1>4, LenProperties
  <2> QED
    BY <1>3, <1>4, <1>5, <1>7, <2>1
<1>9. ASSUME next = 2 PROVE Len(Longer(escape, Token)) = 2
  <2> DEFINE first == piece.bytes[1]
  <2>1. escape = <<first>> /\ first.kind = "escape"
    BY <1>3, <1>5, <1>9
  <2> HIDE DEF first
  <2>2. Last(escape) = first /\ Len(escape) = 1
    BY <2>1 DEF Last
  <2>3. Filled(escape, Token) = escape
    BY <2>1, <2>2 DEF Filled
  <2>4. Longer(escape, Token) = Append(escape, Token)
    BY <2>3 DEF Longer
  <2>5. Len(Append(escape, Token)) = Len(escape) + 1
    BY <1>2, <1>4, AppendProperties
  <2> QED
    BY <2>2, <2>4, <2>5
<1> QED
  BY <1>1, <1>2, <1>3, <1>6, <1>7, <1>8, <1>9 DEF Fits

\* The sequence goes on: no byte of it breaks it.
LEMMA SequenceHeld ==
  ASSUME ParserInv, HeldInv, orderly, SequenceByte, escape' = Longer(escape, Token),
         Unfinished(Longer(escape, Token))
  PROVE  HeldInv'
<1>1. /\ next \in 2 .. Len(piece.bytes) /\ piece' = piece /\ next' = next + 1
      /\ Token = piece.bytes[next] /\ inside
      /\ Longer(escape, Token) = Complete(SubSeq(piece.bytes, 1, next))
      /\ Len(Longer(escape, Token)) \in Nat /\ Len(Longer(escape, Token)) >= next
      /\ next = 2 => Len(Longer(escape, Token)) = 2
      /\ Last(Longer(escape, Token)) = Token
  BY SequenceStep
<1>2. next \in Nat /\ next >= 2 /\ next' - 1 = next /\ next' # 2
  <2>1. Len(piece.bytes) \in Nat
    BY PieceTyped DEF ParserInv, PieceOK
  <2> QED
    BY <1>1, <2>1
<1>3. ~Breaks(piece, next)
  <2> DEFINE l == Len(Longer(escape, Token))
             kind == Token.kind
  <2>1. \/ l = 2 /\ kind = "["
        \/ l > 2 /\ kind \in {";", "number"}
    BY <1>1 DEF Unfinished
  <2>2. l \in Nat /\ l >= next /\ (next = 2 => l = 2)
    BY <1>1
  <2>3. kind = piece.bytes[next].kind
    BY <1>1
  <2> HIDE DEF l, kind
  <2>4. IF next = 2 THEN kind = "[" ELSE kind \in {";", "number"}
    <3>1. CASE next = 2
      BY <2>1, <2>2, <3>1
    <3>2. CASE next # 2
      <4>1. l # 2
        BY <1>2, <2>2, <3>2
      <4> QED
        BY <2>1, <3>2, <4>1
    <3> QED
      BY <3>1, <3>2
  <2> QED
    BY <2>3, <2>4 DEF Breaks
<1>4. \A i \in 2 .. next : ~Breaks(piece, i)
  <2>1. \A i \in 2 .. next - 1 : ~Breaks(piece, i)
    BY <1>1 DEF HeldInv
  <2>2. \A i \in 2 .. next : i \in 2 .. next - 1 \/ i = next
    BY <1>2
  <2> QED
    BY <1>3, <2>1, <2>2, Zenon
<1>5. /\ escape' = Complete(SubSeq(piece'.bytes, 1, next' - 1))
      /\ Len(escape') >= next' - 1
      /\ \A i \in 2 .. next' - 1 : ~Breaks(piece', i)
  BY <1>1, <1>2, <1>4
<1>6. Last(escape').kind # "escape"
  BY <1>1 DEF SequenceByte
<1> QED
  BY <1>2, <1>5, <1>6 DEF HeldInv

\* It is given up, followed, or goes on.
LEMMA SequenceOutcome ==
  ASSUME SequenceByte
  PROVE  \/ ~Fits(Filled(escape, Token), Token) /\ Leave /\ UNCHANGED attr
         \/ /\ Token.kind = "m" /\ Len(Longer(escape, Token)) > 2 /\ Leave
            /\ \E beyond \in Beyond(escape) :
                 attr' = Followed(attr, Grouped(Numbers(Longer(escape, Token)) \o beyond))
         \/ /\ ~(Token.kind = "m" /\ Len(Longer(escape, Token)) > 2) /\ UNCHANGED attr
            /\ \/ /\ Unfinished(Longer(escape, Token))
                  /\ escape' = Longer(escape, Token) /\ UNCHANGED inside
               \/ ~Unfinished(Longer(escape, Token)) /\ Leave
BY DEF SequenceByte

\* Outside of a sequence none is held.
LEMMA LeaveHeld == ASSUME inside' = FALSE PROVE HeldInv'
BY DEF HeldInv

\* A sequence that is none, or is broken, has no effect.
LEMMA IgnoredByte ==
  ASSUME ParserInv, HeldInv, SameInv, orderly, SequenceByte, Ignored(piece)
  PROVE  HeldInv' /\ SameInv'
<1>1. /\ next \in 2 .. Len(piece.bytes) /\ piece.bytes[1].kind = "escape"
      /\ Token = piece.bytes[next] /\ print_escapes' = FALSE /\ inside
      /\ Len(Longer(escape, Token)) \in Nat
      /\ next = 2 => Len(Longer(escape, Token)) = 2
  BY SequenceStep
<1>2. ~(Token.kind = "m" /\ Len(Longer(escape, Token)) > 2)
  <2> SUFFICES ASSUME Token.kind = "m", Len(Longer(escape, Token)) > 2 PROVE FALSE
    OBVIOUS
  <2>1. next # 2
    <3> DEFINE l == Len(Longer(escape, Token))
    <3>1. l > 2 /\ l \in Nat /\ (next = 2 => l = 2)
      BY <1>1
    <3> HIDE DEF l
    <3> QED
      BY <3>1
  <2>2. Len(piece.bytes) \in Nat
    BY PieceTyped DEF ParserInv, PieceOK
  <2>3. next \in 3 .. Len(piece.bytes)
    BY <1>1, <2>1, <2>2
  <2>4. \E i \in 2 .. next - 1 : Breaks(piece, i)
    BY <1>1, <2>3 DEF Ignored
  <2> QED
    BY <1>1, <2>4 DEF HeldInv
<1>3. /\ attr' = attr
      /\ \/ escape' = Longer(escape, Token) /\ Unfinished(Longer(escape, Token))
         \/ inside' = FALSE
  BY <1>2, SequenceOutcome DEF Leave
<1>4. HeldInv'
  BY <1>3, SequenceHeld, LeaveHeld
<1>5. terminal' = terminal /\ less' = terminal
  <2>1. ~Done /\ Copy /\ Token.kind # "newline" /\ piece.groups = <<>>
    BY DEF SequenceByte, Ignored
  <2> QED
    BY <2>1, CopySame
<1> QED
  BY <1>3, <1>4, <1>5 DEF SameInv

\* An SGR sequence is followed once it is complete.
LEMMA SgrByte ==
  ASSUME ParserInv, HeldInv, SameInv, orderly, SequenceByte, Sgr(piece)
  PROVE  HeldInv' /\ SgrInv' /\ SameInv'
<1> DEFINE longer == Longer(escape, Token)
           n == Len(piece.bytes)
<1>1. /\ next \in 2 .. n /\ piece' = piece /\ next' = next + 1
      /\ Token = piece.bytes[next] /\ print_escapes' = FALSE /\ inside
      /\ longer = Complete(SubSeq(piece.bytes, 1, next))
      /\ Len(longer) \in Nat /\ Len(longer) >= next
      /\ next = 2 => Len(longer) = 2
      /\ Last(longer) = Token
      /\ Fits(Filled(escape, Token), Token) <=> escapelen(longer) <= EscapeSize - 1
  BY SequenceStep
<1>2. /\ piece \in Piece /\ piece.bytes \in Seq(Tokens) /\ n \in Nat
      /\ piece.groups \in Seq(Parameters)
  BY PieceTyped DEF ParserInv, PieceOK
<1>3. Fits(Filled(escape, Token), Token)
  <2>1. escapelen(longer) <= escapelen(Complete(piece.bytes))
    <3>1. next \in 0 .. n
      BY <1>1, <1>2
    <3> QED
      BY <1>1, <1>2, <3>1, PrefixFits
  <2>2. escapelen(Complete(piece.bytes)) < EscapeSize
    BY DEF Sgr
  <2>3. escapelen(longer) \in Nat /\ escapelen(Complete(piece.bytes)) \in Nat
    <3>1. Token \in Tokens /\ escape \in Seq(Tokens)
      BY <1>1, <1>2 DEF ParserInv, FilterOK
    <3>2. Complete(piece.bytes) \in Seq(Tokens)
      <4>1. piece.bytes \in [1 .. n -> Tokens]
        BY <1>2, LenProperties
      <4> HIDE DEF n
      <4>2. Complete(piece.bytes) \in Escapes
        BY <1>2, <4>1, CompleteRuns
      <4> QED
        BY <4>2 DEF Escapes
    <3>3. escapelen(longer) \in Nat
      BY <3>1, LongerIsLonger
    <3>4. escapelen(Complete(piece.bytes)) \in Nat
      BY <3>1, <3>2, LongerIsLonger
    <3> QED
      BY <3>3, <3>4
  <2> HIDE DEF longer
  <2> QED
    BY <1>1, <2>1, <2>2, <2>3, SizeAssumption
<1>4. ~Done /\ Copy /\ Token.kind # "newline"
  BY DEF SequenceByte
<1>5. CASE next # n
  <2>1. next \in 1 .. n /\ next < n
    BY <1>1, <1>2, <1>5
  <2>2. (next = 2 => Token.kind = "[") /\ (next > 2 => Token.kind \in {";", "number"})
    BY <1>1, <1>2, <2>1, SgrToken
  <2>3. next = 2 \/ next > 2
    BY <1>1, <1>2
  <2>4. Token.kind # "m"
    BY <2>2, <2>3
  <2>5. Unfinished(longer)
    <3> HIDE DEF longer
    <3>1. CASE next = 2
      BY <1>1, <2>2, <3>1 DEF Unfinished
    <3>2. CASE next > 2
      <4>1. Len(longer) > 2
        BY <1>1, <1>2, <3>2
      <4> QED
        BY <1>1, <2>2, <3>2, <4>1 DEF Unfinished
    <3> QED
      BY <2>3, <3>1, <3>2
  <2>6. attr' = attr /\ escape' = longer /\ inside' = inside
    BY <1>3, <2>4, <2>5, SequenceOutcome
  <2>7. HeldInv'
    BY <2>5, <2>6, SequenceHeld
  <2>8. terminal' = terminal /\ less' = terminal
    BY <1>4, <1>5, CopySame
  <2> QED
    BY <1>1, <2>6, <2>7, <2>8 DEF SgrInv, SameInv
<1>6. CASE next = n
  <2>1. Token.kind = "m" /\ next > 2
    <3>1. next \in 1 .. Len(piece.bytes)
      BY <1>1, <1>2
    <3> QED
      BY <1>1, <1>2, <1>6, <3>1, SgrToken
  <2>2. Len(longer) > 2 /\ longer = Complete(piece.bytes)
    <3>1. SubSeq(piece.bytes, 1, n) = piece.bytes
      BY <1>2, SubSeqFull
    <3>2. longer = Complete(piece.bytes)
      BY <1>1, <1>6, <3>1
    <3> HIDE DEF longer
    <3> QED
      BY <1>1, <1>2, <2>1, <3>2
  <2>3. inside' = FALSE /\ attr' = Followed(attr, Grouped(Numbers(longer)))
    <3>1. /\ inside' = FALSE
          /\ \E beyond \in Beyond(escape) :
               attr' = Followed(attr, Grouped(Numbers(longer) \o beyond))
      BY <1>3, <2>1, <2>2, SequenceOutcome DEF Leave
    <3>2. Beyond(escape) = {<<>>}
      BY <1>1, <2>1 DEF HeldInv, Beyond
    <3>3. Numbers(longer) \in Seq(Nat)
      <4>1. longer \in Seq(Tokens)
        <5>1. Token \in Tokens /\ escape \in Seq(Tokens)
          BY <1>1, <1>2 DEF ParserInv, FilterOK
        <5> QED
          BY <5>1, LongerIsLonger
      <4> HIDE DEF longer
      <4>2. Len(longer) \in Nat /\ longer \in [1 .. Len(longer) -> Tokens]
        BY <4>1, LenProperties
      <4> QED
        BY <4>2, NumbersRuns DEF Codes
    <3>4. Numbers(longer) \o <<>> = Numbers(longer)
      BY <3>3, ConcatEmptySeq
    <3> HIDE DEF longer
    <3> QED
      BY <3>1, <3>2, <3>4
  <2>4. Grouped(Numbers(longer)) = piece.groups
    <3>1. \A i \in 1 .. Len(piece.groups) : OneAttribute(piece.groups[i])
      BY DEF Sgr
    <3>2. Numbers(longer) = Spelled(piece.groups)
      BY <2>2 DEF Sgr
    <3> QED
      BY <1>2, <3>1, <3>2, GroupedAsSpelled
  <2>5. attr' = Rendered(attr, piece.groups)
    <3>1. \A i \in 1 .. Len(piece.groups) : OneAttribute(piece.groups[i])
      BY DEF Sgr
    <3>2. attr \in Kept
      BY DEF ParserInv, FilterOK
    <3> QED
      BY <1>2, <2>3, <2>4, <3>1, <3>2, FollowedAsRendered
  <2>6. terminal' = Rendered(terminal, piece.groups) /\ less' = Rendered(Shown, piece.groups)
    BY <1>4, <1>6 DEF Copy, Seen
  <2>7. SameInv'
    <3>1. Shown = terminal /\ attr = terminal
      BY ShownIsTerminal DEF SameInv
    <3>2. attr' = terminal' /\ less' = terminal'
      BY <2>5, <2>6, <3>1
    <3> QED
      BY <3>2 DEF SameInv
  <2>8. ~(next' \in 2 .. Len(piece'.bytes))
    BY <1>1, <1>2, <1>6
  <2> QED
    BY <2>3, <2>7, <2>8, LeaveHeld DEF SgrInv
<1> QED
  BY <1>5, <1>6

\* In the beginning there are no attributes.
LEMMA InitLess == ASSUME Init PROVE LessInv
<1>1. HeldInv /\ SgrInv /\ SameInv
  BY DEF Init, HeldInv, SgrInv, SameInv
<1> QED
  BY <1>1, InitParser DEF LessInv

\* Each byte, NUL and piece keeps the invariant.
LEMMA NextLess ==
  ASSUME DocumentedInput, LessInv, [Next]_vars
  PROVE  LessInv'
<1>2. ParserInv /\ ParserInv'
  BY NextParser DEF LessInv
<1> SUFFICES ASSUME orderly' PROVE HeldInv' /\ SgrInv' /\ SameInv'
  BY <1>2 DEF LessInv
<1>0. orderly /\ orderly = orderly'
  <2>1. orderly \in BOOLEAN /\ orderly' \in BOOLEAN
    BY <1>2 DEF ParserInv, PieceOK
  <2>2. Another => (orderly' <=> orderly /\ Orderly(piece)')
    BY DEF Another
  <2>3. ~Another => orderly' = orderly
    BY DEF Next, vars, Nul, Newline, EscapeByte, Text, SequenceByte, Copy
  <2> QED
    BY <2>1, <2>2, <2>3
<1>1. ParserInv /\ HeldInv /\ SgrInv /\ SameInv
  BY <1>0 DEF LessInv
<1>3. piece \in Piece /\ Orderly(piece) /\ (Sgr(piece) \/ Ignored(piece))
  BY <1>0, <1>1 DEF DocumentedInput, ParserInv, PieceOK
<1>4. CASE Another
  <2>1. next' = 1 /\ ~inside /\ inside' = inside
    BY <1>0, <1>1, <1>4 DEF Another, Done, ParserInv, PieceOK, filter
  <2>2. SameInv'
    BY <1>0, <1>1, <1>4 DEF Another, filter, SameInv, Seen
  <2>3. inside' = FALSE /\ ~(next' \in 2 .. Len(piece'.bytes))
    BY <1>1, <2>1 DEF ParserInv, FilterOK
  <2> QED
    BY <2>2, <2>3, LeaveHeld DEF SgrInv
<1>5. CASE Nul
  <2>1. Shown = terminal
    BY <1>1, ShownIsTerminal
  <2> QED
    BY <1>0, <1>1, <1>5, <2>1 DEF Nul, HeldInv, SgrInv, SameInv, Seen
<1>6. ASSUME ~Done, Copy, Token.kind \in {"newline", "text", "m", "[", ";", "number"},
             ~inside \/ Token.kind = "newline"
      PROVE  ~Sgr(piece) /\ piece.groups = <<>> /\ piece' = piece
  <2>1. next \in 1 .. Len(piece.bytes) /\ Token = piece.bytes[next] /\ piece' = piece
    BY <1>1, <1>6, CopyOK DEF Token
  <2>2. ASSUME Sgr(piece) PROVE FALSE
    <3>1. Token.kind # "newline" /\ next # 1
      BY <1>3, <1>6, <2>1, <2>2, SgrToken
    <3>2. next \in 2 .. Len(piece.bytes)
      BY <1>3, <2>1, <3>1, PieceTyped
    <3> QED
      BY <1>1, <1>6, <2>2, <3>1, <3>2 DEF SgrInv
  <2> QED
    BY <1>3, <2>1, <2>2 DEF Ignored
<1>7. CASE Newline
  <2>1. ~Done /\ Copy /\ Token.kind = "newline" /\ inside' = FALSE /\ attr' = attr
        /\ print_escapes' = TRUE
    BY <1>7 DEF Newline, Leave
  <2>2. ~Sgr(piece) /\ piece.groups = <<>> /\ piece' = piece
    BY <1>6, <2>1
  <2>3. terminal' = terminal
    BY <1>0, <1>1, <2>1, <2>2, CopySame
  <2> QED
    BY <1>1, <2>1, <2>2, <2>3, LeaveHeld DEF SgrInv, SameInv
<1>8. CASE EscapeByte
  <2>1. ~Done /\ Copy /\ Token.kind = "escape" /\ inside' = TRUE
        /\ escape' = Append(escape, Token) /\ print_escapes' = FALSE /\ attr' = attr
    BY <1>8 DEF EscapeByte
  <2>2. /\ piece' = piece /\ next \in 1 .. Len(piece.bytes) /\ next' = next + 1
        /\ Token \in Tokens /\ Token = piece.bytes[next]
        /\ piece.bytes \in Seq(Tokens) /\ Len(piece.bytes) \in Nat
    BY <1>1, <1>3, <2>1, CopyOK, PieceTyped DEF Token
  <2>3. next = 1 /\ piece.bytes[Len(piece.bytes)].kind \in {"newline", "m", "text"}
    <3>1. DOMAIN piece.bytes = 1 .. Len(piece.bytes)
      BY <2>2, LenProperties
    <3> QED
      BY <1>3, <2>1, <2>2, <3>1 DEF Orderly
  <2>4. next # Len(piece.bytes)
    BY <2>1, <2>2, <2>3
  <2>5. terminal' = terminal /\ less' = terminal
    BY <1>0, <1>1, <2>1, <2>4, CopySame
  <2>6. escape' = <<Token>>
    <3>1. escape = <<>>
      BY <1>0, <1>1, <2>3 DEF ParserInv, FilterOK, PieceOK
    <3>2. Append(<<>>, Token) = <<>> \o <<Token>> /\ <<Token>> \in Seq(Tokens)
          /\ <<>> \in Seq(Tokens)
      BY <2>2, AppendIsConcat
    <3> QED
      BY <2>1, <3>1, <3>2, ConcatEmptySeq
  <2>7. Complete(SubSeq(piece.bytes, 1, 1)) = <<Token>>
    <3>1. 1 \in 1 .. Len(piece.bytes) /\ Token = piece.bytes[1]
      BY <2>2, <2>3
    <3>2. SubSeq(piece.bytes, 1, 1 - 1) = <<>>
      BY SubSeqEmpty
    <3>3. SubSeq(piece.bytes, 1, 1) = Append(<<>>, Token)
      <4>1. SubSeq(piece.bytes, 1, 1) = Append(SubSeq(piece.bytes, 1, 1 - 1), piece.bytes[1])
        BY <2>2, <3>1, PrefixMore
      <4> QED
        BY <3>1, <3>2, <4>1
    <3>4. <<>> \in Seq(Tokens)
      OBVIOUS
    <3>5. Complete(Append(<<>>, Token)) = Longer(<<>>, Token)
      BY <2>2, <3>4, CompleteOfLonger, CompleteOfNone
    <3>6. Longer(<<>>, Token) = Append(<<>>, Token)
      BY <2>1 DEF Longer, Filled
    <3>7. Append(<<>>, Token) = <<Token>>
      <4>1. Append(<<>>, Token) = <<>> \o <<Token>> /\ <<Token>> \in Seq(Tokens)
        BY <2>2, <3>4, AppendIsConcat
      <4> QED
        BY <4>1, ConcatEmptySeq
    <3> QED
      BY <3>3, <3>5, <3>6, <3>7
  <2>8. HeldInv'
    <3>1. next' = 2 /\ next' - 1 = 1 /\ 2 .. next' - 1 = {}
      BY <2>2, <2>3
    <3>2. Len(escape') = 1 /\ escape' = <<piece'.bytes[1]>>
      BY <2>2, <2>3, <2>6
    <3>3. escape' = Complete(SubSeq(piece'.bytes, 1, next' - 1))
      BY <2>2, <2>6, <2>7, <3>1
    <3> QED
      BY <3>1, <3>2, <3>3 DEF HeldInv
  <2> QED
    BY <1>1, <2>1, <2>5, <2>8 DEF SgrInv, SameInv
<1>9. CASE Text
  <2>1. ~Done /\ Copy /\ ~inside /\ UNCHANGED <<inside, escape, attr>>
        /\ print_escapes' = FALSE /\ Token.kind \notin {"newline", "escape"}
    BY <1>9 DEF Text
  <2>2. Token.kind \in Kinds
    <3>1. Token \in Tokens
      BY <1>1, <2>1, CopyOK
    <3> QED
      BY <3>1 DEF Tokens
  <2>3. ~Sgr(piece) /\ piece.groups = <<>> /\ piece' = piece
    BY <1>6, <2>1, <2>2 DEF Kinds
  <2>4. terminal' = terminal /\ less' = terminal
    BY <1>0, <1>1, <2>1, <2>3, CopySame
  <2>5. inside' = FALSE
    BY <1>1, <2>1 DEF ParserInv, FilterOK
  <2>6. SgrInv'
    BY <2>3 DEF SgrInv
  <2>7. SameInv'
    BY <1>1, <2>1, <2>4 DEF SameInv
  <2> QED
    BY <2>5, <2>6, <2>7, LeaveHeld
<1>10. CASE SequenceByte
  <2>1. CASE Sgr(piece)
    BY <1>0, <1>1, <1>10, <2>1, SgrByte
  <2>2. CASE ~Sgr(piece)
    <3>1. Ignored(piece) /\ piece' = piece
      BY <1>0, <1>1, <1>3, <1>10, <2>2, SequenceStep
    <3> QED
      BY <1>0, <1>1, <1>10, <2>2, <3>1, IgnoredByte DEF SgrInv
  <2> QED
    BY <2>1, <2>2
<1>11. CASE UNCHANGED vars
  BY <1>1, <1>11 DEF vars, filter, HeldInv, SgrInv, SameInv
<1> QED
  BY <1>4, <1>5, <1>7, <1>8, <1>9, <1>10, <1>11 DEF Next

\* Whatever is read next looks the same in less as on a terminal, until the input is
\* not orderly: for orderly pieces of any text, of sequences that are not for
\* attributes, and of SGR sequences that fit the buffer and mean what their codes mean
\* to a terminal, however many attributes they set, with parameters left out, colours
\* of the palette and of three components.
THEOREM LessLikeTerminalAlways ==
  ASSUME DocumentedInput PROVE Spec => []LessLikeTerminal
<1>1. LessInv => LessLikeTerminal
  BY ShownIsTerminal DEF LessInv, LessLikeTerminal
<1> QED
  BY <1>1, InitLess, NextLess, PTL DEF Spec
=============================================================================
