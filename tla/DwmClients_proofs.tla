------------------------- MODULE DwmClients_proofs -------------------------
(***************************************************************************)
(* For any windows, monitors, tags, rules and events: the focus stacks,    *)
(* the selection and the urgency hints, whichever windows float and        *)
(* whatever the relinking of the client lists loses; and where no window   *)
(* ever floats, the client lists themselves, which attachbypriority() then *)
(* keeps complete and by priority, and what lastclient() goes back to.     *)
(***************************************************************************)
EXTENDS DwmClients, SequenceTheorems, FiniteSetTheorems, TLAPS

Fields == {"head", "next", "mon", "stack", "sel", "selmon", "floating", "fullscreen",
           "oldfloating", "tags", "tagset", "urgent", "recent", "gone"}
Shape(w) == w = [f \in Fields |-> w[f]]

\* recent names a client once at most.
Stamped(w) == w.recent \in Seq(Client) /\ IsInjective(w.recent)

\* What the fields hold; of the links of the lists nothing is asked.
Typed(w) ==
  /\ setup \in Setups
  /\ Shape(w)
  /\ w.selmon \in Mon
  /\ w.mon \in [Client -> Mon \cup {NULL}]
  /\ w.stack \in [Mon -> Seq(Client)]
  /\ w.sel \in [Mon -> Client \cup {NULL}]
  /\ w.tags \in [Client -> SUBSET Tag]
  /\ w.tagset \in [Mon -> SUBSET Tag]
  /\ w.urgent \subseteq Managed(w)
  /\ Stamped(w)

\* Every client is once in the stack of its monitor and in no other; while c is
\* on its way from one stack to another, every client but c.
Stacked(w) ==
  \A m \in Mon :
    IsInjective(w.stack[m]) /\ Range(w.stack[m]) = {c \in Client : w.mon[c] = m}
StackedBut(w, c) ==
  \A m \in Mon :
    IsInjective(w.stack[m]) /\ Range(w.stack[m]) = {d \in Client \ {c} : w.mon[d] = m}

SelShown(w) ==
  IF Selected(w) = NULL THEN \A c \in Client : w.mon[c] = w.selmon => ~Visible(w, c)
  ELSE w.mon[Selected(w)] = w.selmon /\ Visible(w, Selected(w))

\* No client is both urgent and visible; those of some monitors apart, which are
\* still to be arranged.
HiddenBut(w, ms) == \A c \in w.urgent : w.mon[c] \in ms \/ ~Visible(w, c)

InOrder(w) == Typed(w) /\ Stacked(w) /\ SelShown(w) /\ HiddenBut(w, {})

ClientsInv == InOrder(wm)

\* v differs from w in the stacks, the links and what the proofs do not look at.
Kept(v, w) ==
  /\ Shape(v) /\ v.selmon = w.selmon /\ v.mon = w.mon
  /\ v.tags = w.tags /\ v.tagset = w.tagset /\ v.urgent = w.urgent
  /\ Stamped(w) => Stamped(v)
Relinked(v, w) == Kept(v, w) /\ v.stack = w.stack /\ v.sel = w.sel

-----------------------------------------------------------------------------
(* Sequences                                                                *)

LEMMA Smallest ==
  ASSUME NEW T, T \subseteq Nat, T # {}
  PROVE  \E i \in T : \A j \in T : i <= j
<1> DEFINE below == {k \in Nat : \A t \in T : k < t}
           i == Cardinality(below)
<1>1. ASSUME NEW t \in T PROVE IsFiniteSet(below) /\ i <= t
  <2>1. IsFiniteSet(0 .. t - 1) /\ Cardinality(0 .. t - 1) = t
    <3>1. t \in Nat /\ t - 1 \in Int /\ 0 \in Int
      OBVIOUS
    <3>2. Cardinality(0 .. t - 1) = IF 0 > t - 1 THEN 0 ELSE t - 1 - 0 + 1
      BY <3>1, FS_Interval
    <3> QED
      BY <3>1, <3>2, FS_Interval
  <2>2. below \subseteq 0 .. t - 1
    OBVIOUS
  <2> QED
    BY <2>1, <2>2, FS_Subset
<1>2. i \in Nat
  BY <1>1, FS_CardinalityType
<1>3. i \notin below
  <2> SUFFICES ASSUME i \in below PROVE FALSE
    OBVIOUS
  <2>1. IsFiniteSet(0 .. i) /\ Cardinality(0 .. i) = i + 1
    <3> HIDE DEF i
    <3> QED
      BY <1>2, FS_Interval
  <2>2. 0 .. i \subseteq below
    BY <1>2
  <2>3. Cardinality(0 .. i) <= i
    BY <1>1, <2>2, FS_Subset
  <2> HIDE DEF i
  <2> QED
    BY <1>2, <2>1, <2>3
<1>4. PICK t \in T : t <= i
  <2> HIDE DEF i
  <2> QED
    BY <1>2, <1>3
<1>5. i = t
  <2>1. i <= t /\ t \in Nat
    BY <1>1
  <2> HIDE DEF i
  <2> QED
    BY <1>2, <1>4, <2>1
<1> QED
  BY <1>1, <1>5

LEMMA FirstIn ==
  ASSUME NEW seq, NEW S, NEW n \in Nat, DOMAIN seq = 1 .. n, Range(seq) \cap S # {}
  PROVE  First(seq, S) \in Range(seq) \cap S
<1> DEFINE T == {i \in 1 .. n : seq[i] \in S}
<1>1. T \subseteq Nat /\ T # {}
  BY DEF Range
<1>2. PICK i \in T : \A j \in T : i <= j
  BY <1>1, Smallest
<1>3. \E k \in DOMAIN seq : seq[k] \in S /\ \A j \in DOMAIN seq : seq[j] \in S => k <= j
  BY <1>2
<1> QED
  BY <1>3 DEF First, Range

\* First() is the element that no other of the set precedes.
LEMMA FirstAt ==
  ASSUME NEW seq, NEW S, NEW n \in Nat, DOMAIN seq = 1 .. n, NEW k \in 1 .. n,
         seq[k] \in S, \A j \in 1 .. k - 1 : seq[j] \notin S
  PROVE  First(seq, S) = seq[k]
<1> DEFINE P(i) == i \in 1 .. n /\ seq[i] \in S /\ \A j \in 1 .. n : seq[j] \in S => i <= j
           f == CHOOSE i \in 1 .. n : seq[i] \in S /\ \A j \in 1 .. n : seq[j] \in S => i <= j
<1>1. P(k)
  OBVIOUS
<1>2. P(f)
  BY <1>1
<1>3. f <= k /\ k <= f /\ f \in Int /\ k \in Int
  BY <1>1, <1>2
<1> HIDE DEF f
<1>4. f = k
  BY <1>3
<1> QED
  BY <1>4 DEF First, f

\* RemoveFirst() closes the gap that the first occurrence leaves.
LEMMA RemoveFirstAt ==
  ASSUME NEW X, NEW s \in Seq(X), NEW e, \E i \in 1 .. Len(s) : s[i] = e
  PROVE  \E k \in 1 .. Len(s) : LET r == RemoveFirst(s, e) IN
           /\ s[k] = e /\ r \in Seq(X) /\ Len(r) = Len(s) - 1
           /\ \A i \in 1 .. Len(s) - 1 : r[i] = IF i < k THEN s[i] ELSE s[i + 1]
<1>1. Len(s) \in Nat /\ DOMAIN s = 1 .. Len(s) /\ s \in [1 .. Len(s) -> X]
  BY LenProperties
<1>2. PICK k \in 1 .. Len(s) :
        s[k] = e /\ RemoveFirst(s, e) = SubSeq(s, 1, k - 1) \o SubSeq(s, k + 1, Len(s))
  <2> DEFINE I == {i \in 1 .. Len(s) : s[i] = e}
             f == SelectInSeq(s, LAMBDA v : v = e)
  <2>1. I \subseteq Nat /\ I # {}
    BY <1>1
  <2>2. \E i \in I : \A j \in I : i <= j
    BY <2>1, Smallest
  <2>3. f \in 1 .. Len(s) /\ s[f] = e
    BY <2>2 DEF SelectInSeq, Min
  <2> HIDE DEF f
  <2>4. RemoveFirst(s, e) = SubSeq(s, 1, f - 1) \o SubSeq(s, f + 1, Len(s))
    BY DEF RemoveFirst, RemoveAt, f
  <2> QED
    BY <2>3, <2>4
<1> DEFINE a == SubSeq(s, 1, k - 1)
           b == SubSeq(s, k + 1, Len(s))
<1>5. /\ a \in Seq(X) /\ Len(a) = k - 1
      /\ \A i \in 1 .. k - 1 : a[i] = s[i]
  <2>1. \A i \in 1 .. k - 1 : s[i] \in X
    BY <1>1, <1>2
  <2>2. 1 \in Int /\ k - 1 \in Int
    BY <1>2
  <2>3. /\ a \in Seq(X) /\ Len(a) = IF 1 <= k - 1 THEN k - 1 - 1 + 1 ELSE 0
        /\ \A i \in 1 .. k - 1 - 1 + 1 : a[i] = s[1 + i - 1]
    BY <2>1, <2>2, SubSeqProperties
  <2> HIDE DEF a
  <2> QED
    BY <1>2, <2>3
<1>6. /\ b \in Seq(X) /\ Len(b) = Len(s) - k
      /\ \A i \in 1 .. Len(s) - k : b[i] = s[k + i]
  <2>1. \A i \in k + 1 .. Len(s) : s[i] \in X
    BY <1>1, <1>2
  <2>2. Len(s) \in Int /\ k + 1 \in Int
    BY <1>1, <1>2
  <2>3. /\ b \in Seq(X) /\ Len(b) = IF k + 1 <= Len(s) THEN Len(s) - (k + 1) + 1 ELSE 0
        /\ \A i \in 1 .. Len(s) - (k + 1) + 1 : b[i] = s[k + 1 + i - 1]
    BY <2>1, <2>2, SubSeqProperties
  <2>4. Len(s) - (k + 1) + 1 = Len(s) - k
    BY <1>1
  <2>5. Len(s) - k = IF k + 1 <= Len(s) THEN Len(s) - (k + 1) + 1 ELSE 0
    <3>1. CASE k = Len(s)
      BY <1>1, <3>1
    <3>2. CASE k # Len(s)
      <4>1. k \in Nat /\ Len(s) \in Nat /\ k <= Len(s)
        BY <1>1
      <4>2. k + 1 <= Len(s)
        BY <3>2, <4>1
      <4> QED
        BY <2>4, <4>2
    <3> QED
      BY <3>1, <3>2
  <2>6. \A i \in 1 .. Len(s) - k : k + 1 + i - 1 = k + i
    BY <1>1
  <2> HIDE DEF b
  <2> QED
    BY <2>3, <2>4, <2>5, <2>6
<1> HIDE DEF a, b
<1> DEFINE r == a \o b
<1>7. /\ r \in Seq(X) /\ Len(r) = Len(s) - 1
      /\ \A i \in 1 .. Len(s) - 1 : r[i] = IF i < k THEN s[i] ELSE s[i + 1]
  <2>1. /\ r \in Seq(X) /\ Len(r) = Len(a) + Len(b)
        /\ \A i \in 1 .. Len(a) + Len(b) :
             r[i] = IF i <= Len(a) THEN a[i] ELSE b[i - Len(a)]
    BY <1>5, <1>6, ConcatProperties
  <2> HIDE DEF r
  <2>2. Len(a) + Len(b) = Len(s) - 1
    BY <1>1, <1>2, <1>5, <1>6
  <2>3. ASSUME NEW i \in 1 .. Len(s) - 1, i < k PROVE r[i] = s[i]
    <3>1. i <= Len(a) /\ i \in 1 .. k - 1
      BY <1>1, <1>2, <1>5, <2>3
    <3> QED
      BY <1>5, <2>1, <2>2, <3>1
  <2>4. ASSUME NEW i \in 1 .. Len(s) - 1, ~ i < k PROVE r[i] = s[i + 1]
    <3>1. ~ i <= Len(a) /\ i - Len(a) \in 1 .. Len(s) - k /\ k + (i - Len(a)) = i + 1
      BY <1>1, <1>2, <1>5, <2>4
    <3> QED
      BY <1>6, <2>1, <2>2, <3>1
  <2> QED
    BY <2>1, <2>2, <2>3, <2>4
<1>8. RemoveFirst(s, e) = r
  BY <1>2 DEF a, b
<1> HIDE DEF r
<1> QED
  BY <1>2, <1>7, <1>8

LEMMA RemoveFirstOf ==
  ASSUME NEW X, NEW s \in Seq(X), NEW e, IsInjective(s)
  PROVE  /\ RemoveFirst(s, e) \in Seq(X)
         /\ IsInjective(RemoveFirst(s, e))
         /\ Range(RemoveFirst(s, e)) = Range(s) \ {e}
<1>1. CASE ~ \E i \in 1 .. Len(s) : s[i] = e
  BY <1>1, LenProperties DEF RemoveFirst, Range
<1>2. CASE \E i \in 1 .. Len(s) : s[i] = e
  <2>1. Len(s) \in Nat /\ DOMAIN s = 1 .. Len(s) /\ s \in [1 .. Len(s) -> X]
    BY LenProperties
  <2> DEFINE r == RemoveFirst(s, e)
  <2>2. PICK k \in 1 .. Len(s) :
          /\ s[k] = e /\ r \in Seq(X) /\ Len(r) = Len(s) - 1
          /\ \A i \in 1 .. Len(s) - 1 : r[i] = IF i < k THEN s[i] ELSE s[i + 1]
    BY <1>2, RemoveFirstAt
  <2> HIDE DEF r
  <2>9. DOMAIN r = 1 .. Len(s) - 1
    BY <2>2, LenProperties
  <2>10. \A i, j \in 1 .. Len(s) : s[i] = s[j] => i = j
    BY <2>1 DEF IsInjective
  <2>11. IsInjective(r)
    BY <2>1, <2>2, <2>9, <2>10 DEF IsInjective
  <2>12. Range(r) = Range(s) \ {e}
    <3>1. \A x \in Range(r) : x \in Range(s) /\ x # e
      <4>1. ASSUME NEW i \in 1 .. Len(s) - 1
            PROVE  \E j \in 1 .. Len(s) : j # k /\ r[i] = s[j]
        <5>1. i \in 1 .. Len(s) /\ i + 1 \in 1 .. Len(s)
          BY <2>1
        <5> QED
          BY <2>2, <5>1
      <4>2. \A j \in 1 .. Len(s) : j # k => s[j] # e
        BY <2>2, <2>10
      <4> QED
        BY <2>1, <2>9, <4>1, <4>2 DEF Range
    <3>2. ASSUME NEW j \in 1 .. Len(s), s[j] # e PROVE s[j] \in Range(r)
      <4>1. CASE j < k
        <5>1. j \in 1 .. Len(s) - 1 /\ r[j] = s[j]
          BY <2>1, <2>2, <4>1
        <5> QED
          BY <2>9, <5>1 DEF Range
      <4>2. CASE ~ j < k
        <5>1. j - 1 \in 1 .. Len(s) - 1 /\ r[j - 1] = s[j]
          BY <2>1, <2>2, <3>2, <4>2
        <5> QED
          BY <2>9, <5>1 DEF Range
      <4> QED
        BY <4>1, <4>2
    <3>3. \A x \in Range(s) : x # e => x \in Range(r)
      BY <2>1, <3>2 DEF Range
    <3> QED
      BY <3>1, <3>3
  <2> QED
    BY <2>2, <2>11, <2>12 DEF r
<1> QED
  BY <1>1, <1>2

LEMMA RemoveFirstKeeps ==
  ASSUME NEW X, NEW s \in Seq(X), NEW e, IsInjective(s), Len(s) >= 1, s[1] # e
  PROVE  Len(RemoveFirst(s, e)) >= 1 /\ RemoveFirst(s, e)[1] = s[1]
<1>1. CASE ~ \E i \in 1 .. Len(s) : s[i] = e
  BY <1>1, LenProperties DEF RemoveFirst
<1>2. CASE \E i \in 1 .. Len(s) : s[i] = e
  <2> DEFINE r == RemoveFirst(s, e)
  <2>1. PICK k \in 1 .. Len(s) :
          /\ s[k] = e /\ r \in Seq(X) /\ Len(r) = Len(s) - 1
          /\ \A i \in 1 .. Len(s) - 1 : r[i] = IF i < k THEN s[i] ELSE s[i + 1]
    BY <1>2, RemoveFirstAt
  <2>2. Len(s) \in Nat /\ k \in Nat /\ 1 < k /\ k <= Len(s)
    BY <2>1, LenProperties
  <2>3. 1 \in 1 .. Len(s) - 1
    BY <2>2
  <2> HIDE DEF r
  <2> QED
    BY <2>1, <2>2, <2>3 DEF r
<1> QED
  BY <1>1, <1>2

LEMMA PutOnTop ==
  ASSUME NEW X, NEW s \in Seq(X), NEW e \in X, IsInjective(s), e \notin Range(s)
  PROVE  /\ <<e>> \o s \in Seq(X)
         /\ IsInjective(<<e>> \o s)
         /\ Range(<<e>> \o s) = Range(s) \cup {e}
<1> DEFINE r == <<e>> \o s
<1>1. Len(s) \in Nat /\ DOMAIN s = 1 .. Len(s)
  BY LenProperties
<1>2. <<e>> \in Seq(X) /\ Len(<<e>>) = 1 /\ <<e>>[1] = e
  OBVIOUS
<1>3. /\ r \in Seq(X) /\ Len(r) = 1 + Len(s)
      /\ \A i \in 1 .. 1 + Len(s) : r[i] = IF i <= 1 THEN <<e>>[i] ELSE s[i - 1]
  BY <1>2, ConcatProperties
<1> HIDE DEF r
<1>4. DOMAIN r = 1 .. Len(s) + 1 /\ r[1] = e /\ \A i \in 1 .. Len(s) : r[i + 1] = s[i]
  BY <1>1, <1>2, <1>3, LenProperties
<1>5. \A i \in 2 .. Len(s) + 1 : i - 1 \in 1 .. Len(s) /\ r[i] = s[i - 1]
  BY <1>1, <1>3
<1>6. IsInjective(r)
  <2>1. \A i, j \in 1 .. Len(s) : s[i] = s[j] => i = j
    BY <1>1 DEF IsInjective
  <2>2. \A i \in 2 .. Len(s) + 1 : r[i] # e
    BY <1>1, <1>5 DEF Range
  <2>3. \A i, j \in 2 .. Len(s) + 1 : r[i] = r[j] => i = j
    BY <1>1, <1>5, <2>1
  <2> QED
    BY <1>1, <1>4, <2>2, <2>3 DEF IsInjective
<1>7. Range(r) = Range(s) \cup {e}
  <2>1. \A x \in Range(r) : x \in Range(s) \cup {e}
    BY <1>1, <1>4, <1>5 DEF Range
  <2>2. e \in Range(r)
    BY <1>1, <1>4 DEF Range
  <2>3. ASSUME NEW i \in 1 .. Len(s) PROVE s[i] \in Range(r)
    <3>1. i + 1 \in DOMAIN r /\ r[i + 1] = s[i]
      BY <1>1, <1>4
    <3> QED
      BY <3>1 DEF Range
  <2>4. \A x \in Range(s) : x \in Range(r)
    BY <1>1, <2>3 DEF Range
  <2> QED
    BY <2>1, <2>2, <2>3, <2>4
<1> QED
  BY <1>3, <1>6, <1>7 DEF r

-----------------------------------------------------------------------------
(* What the functions of dwm change                                         *)

LEMMA MonOf == ASSUME setup \in Setups PROVE 1 \in Mon /\ NULL \notin Mon
BY SetupAssumption DEF Mon

LEMMA AttachLinks ==
  ASSUME NEW w, NEW c, Shape(w)
  PROVE  Relinked(Attach(w, c), w)
BY DEF Shape, Fields, Relinked, Kept, Stamped, Attach

LEMMA LinkAfterLinks ==
  ASSUME NEW w, NEW p, NEW c, NEW rest, Shape(w)
  PROVE  Relinked(LinkAfter(w, p, c, rest), w)
BY DEF Shape, Fields, Relinked, Kept, Stamped, LinkAfter

LEMMA AttachByPriorityLinks ==
  ASSUME NEW w, NEW c, NEW afterIfEqual, Shape(w)
  PROVE  Relinked(AttachByPriority(w, c, afterIfEqual), w)
<1>1. \E p, rest : AttachByPriority(w, c, afterIfEqual) \in
                     {Attach(w, c), LinkAfter(w, p, c, rest)}
  BY Zenon DEF AttachByPriority
<1> QED
  BY <1>1, AttachLinks, LinkAfterLinks

LEMMA DetachLinks ==
  ASSUME NEW w, NEW c, Shape(w)
  PROVE  Relinked(Detach(w, c), w)
BY DEF Shape, Fields, Relinked, Kept, Stamped, Detach

LEMMA RelinkedInOrder ==
  ASSUME NEW w, NEW v, Typed(w), Relinked(v, w)
  PROVE  /\ Typed(v)
         /\ Stacked(w) => Stacked(v)
         /\ \A c : StackedBut(w, c) => StackedBut(v, c)
         /\ \A ms : HiddenBut(w, ms) => HiddenBut(v, ms)
BY DEF Typed, Relinked, Kept, Managed, Stacked, StackedBut, HiddenBut, Visible

LEMMA FirstVisibleOf ==
  ASSUME NEW w, NEW m, w.stack[m] \in Seq(Client)
  PROVE  \/ /\ FirstVisible(w, m) = NULL
            /\ \A c \in Range(w.stack[m]) : ~Visible(w, c)
         \/ /\ FirstVisible(w, m) \in Range(w.stack[m])
            /\ FirstVisible(w, m) \in Client
            /\ Visible(w, FirstVisible(w, m))
<1> DEFINE shown == {c \in Range(w.stack[m]) : Visible(w, c)}
<1>1. CASE shown = {}
  BY <1>1 DEF FirstVisible
<1>2. CASE shown # {}
  <2>1. Len(w.stack[m]) \in Nat /\ DOMAIN w.stack[m] = 1 .. Len(w.stack[m])
    BY LenProperties
  <2>2. Range(w.stack[m]) \subseteq Client
    BY <2>1, ElementOfSeq DEF Range
  <2>3. FirstVisible(w, m) \in Range(w.stack[m]) \cap shown
    <3>1. Range(w.stack[m]) \cap shown # {}
      BY <1>2
    <3>2. First(w.stack[m], shown) \in Range(w.stack[m]) \cap shown
      BY <2>1, <3>1, FirstIn
    <3> QED
      BY <1>2, <3>2 DEF FirstVisible
  <2> QED
    BY <2>2, <2>3
<1> QED
  BY <1>1, <1>2

LEMMA DetachStackOf ==
  ASSUME NEW w, Typed(w), Stacked(w), NEW c \in Managed(w)
  PROVE  /\ Kept(DetachStack(w, c), w)
         /\ Typed(DetachStack(w, c))
         /\ StackedBut(DetachStack(w, c), c)
<1> DEFINE m == w.mon[c]
           rest == [w EXCEPT !.stack[m] = RemoveFirst(@, c)]
           out == DetachStack(w, c)
<1>1. m \in Mon /\ c \in Client
  BY DEF Typed, Managed
<1>2. /\ Kept(rest, w) /\ rest.sel = w.sel
      /\ rest.stack = [w.stack EXCEPT ![m] = RemoveFirst(w.stack[m], c)]
  BY DEF Typed, Shape, Fields, Kept, Stamped
<1>3. /\ RemoveFirst(w.stack[m], c) \in Seq(Client)
      /\ IsInjective(RemoveFirst(w.stack[m], c))
      /\ Range(RemoveFirst(w.stack[m], c)) = Range(w.stack[m]) \ {c}
  <2>1. w.stack[m] \in Seq(Client) /\ IsInjective(w.stack[m])
    BY <1>1 DEF Typed, Stacked
  <2> HIDE DEF m
  <2> QED
    BY <2>1, RemoveFirstOf
<1>4. rest.stack \in [Mon -> Seq(Client)] /\ StackedBut(rest, c)
  <2>1. rest.stack \in [Mon -> Seq(Client)]
    BY <1>1, <1>2, <1>3 DEF Typed
  <2>2. ASSUME NEW n \in Mon
        PROVE  /\ IsInjective(rest.stack[n])
               /\ Range(rest.stack[n]) = {d \in Client \ {c} : rest.mon[d] = n}
    <3>1. CASE n = m
      BY <1>1, <1>2, <1>3, <3>1 DEF Typed, Stacked, Kept
    <3>2. CASE n # m
      BY <1>1, <1>2, <3>2 DEF Typed, Stacked, Kept
    <3> QED
      BY <3>1, <3>2
  <2> QED
    BY <2>1, <2>2 DEF StackedBut
<1>5. FirstVisible(rest, m) \in Client \cup {NULL}
  <2> HIDE DEF rest, m
  <2> QED
    BY <1>1, <1>4, FirstVisibleOf
<1> HIDE DEF rest
<1>6. /\ Kept(out, w) /\ out.stack = rest.stack
      /\ out.sel \in [Mon -> Client \cup {NULL}]
  <2>1. CASE w.sel[m] = c
    <3>1. out = [rest EXCEPT !.sel[m] = FirstVisible(rest, m)]
      BY <2>1 DEF DetachStack, rest
    <3>2. /\ Kept(out, w) /\ out.stack = rest.stack
          /\ out.sel = [rest.sel EXCEPT ![m] = FirstVisible(rest, m)]
      BY <1>2, <3>1 DEF Kept, Shape, Fields, Stamped
    <3> QED
      BY <1>1, <1>2, <1>5, <3>2 DEF Typed
  <2>2. CASE w.sel[m] # c
    <3>1. out = rest
      BY <2>2 DEF DetachStack, rest
    <3> QED
      BY <1>2, <3>1 DEF Typed
  <2> QED
    BY <2>1, <2>2
<1> HIDE DEF out
<1>7. Typed(out)
  BY <1>4, <1>6 DEF Typed, Kept, Managed
<1>8. StackedBut(out, c)
  BY <1>2, <1>4, <1>6 DEF StackedBut, Kept
<1> QED
  BY <1>6, <1>7, <1>8 DEF out

LEMMA AttachStackOf ==
  ASSUME NEW w, Typed(w), NEW c \in Managed(w), StackedBut(w, c)
  PROVE  /\ Kept(AttachStack(w, c), w)
         /\ Typed(AttachStack(w, c))
         /\ Stacked(AttachStack(w, c))
<1> DEFINE m == w.mon[c]
           out == AttachStack(w, c)
<1>1. m \in Mon /\ c \in Client
  BY DEF Typed, Managed
<1>2. /\ Kept(out, w) /\ out.sel = w.sel
      /\ out.stack = [w.stack EXCEPT ![m] = <<c>> \o w.stack[m]]
  BY DEF Typed, Shape, Fields, Kept, Stamped, AttachStack
<1>3. /\ <<c>> \o w.stack[m] \in Seq(Client)
      /\ IsInjective(<<c>> \o w.stack[m])
      /\ Range(<<c>> \o w.stack[m]) = Range(w.stack[m]) \cup {c}
  <2>1. w.stack[m] \in Seq(Client) /\ IsInjective(w.stack[m]) /\ c \notin Range(w.stack[m])
    BY <1>1 DEF Typed, StackedBut
  <2> HIDE DEF m
  <2> QED
    BY <1>1, <2>1, PutOnTop
<1> HIDE DEF out
<1>4. Typed(out)
  BY <1>1, <1>2, <1>3 DEF Typed, Kept, Managed
<1>5. ASSUME NEW n \in Mon
      PROVE  /\ IsInjective(out.stack[n])
             /\ Range(out.stack[n]) = {d \in Client : out.mon[d] = n}
  <2>1. CASE n = m
    <3>1. out.stack[m] = <<c>> \o w.stack[m] /\ out.mon = w.mon
      BY <1>1, <1>2 DEF Typed, Kept
    <3>2. Range(w.stack[m]) = {d \in Client \ {c} : w.mon[d] = m}
      BY <1>1 DEF StackedBut
    <3> QED
      BY <1>1, <1>3, <2>1, <3>1, <3>2
  <2>2. CASE n # m
    BY <1>1, <1>2, <2>2 DEF Typed, StackedBut, Kept
  <2> QED
    BY <2>1, <2>2
<1> QED
  BY <1>2, <1>4, <1>5 DEF Stacked, out

LEMMA SetUrgentOf ==
  ASSUME NEW w, Typed(w), NEW c, NEW on \in BOOLEAN, on => c \in Managed(w)
  PROVE  /\ Typed(SetUrgent(w, c, on))
         /\ SetUrgent(w, c, on) =
              [w EXCEPT !.urgent = IF on THEN w.urgent \cup {c} ELSE w.urgent \ {c}]
BY DEF SetUrgent, Typed, Managed, Shape, Fields, Stamped

LEMMA SetFocusKeeps ==
  ASSUME NEW w, NEW c \in Client, Typed(w)
  PROVE  Relinked(SetFocus(w, c), w)
<1> DEFINE s == RemoveFirst(w.recent, c)
<1>1. s \in Seq(Client) /\ IsInjective(s) /\ c \notin Range(s)
  BY RemoveFirstOf DEF Typed, Stamped
<1> HIDE DEF s
<1>2. <<c>> \o s \in Seq(Client) /\ IsInjective(<<c>> \o s)
  BY <1>1, PutOnTop
<1>3. SetFocus(w, c) = w \/ SetFocus(w, c) = [w EXCEPT !.recent = <<c>> \o s]
  BY DEF SetFocus, s
<1> QED
  BY <1>2, <1>3 DEF Typed, Shape, Fields, Relinked, Kept, Stamped

\* focus() ends with the right window on top, on whatever monitor it went to.
LEMMA FocusOf ==
  ASSUME NEW w, Typed(w), Stacked(w), NEW c \in Managed(w) \cup {NULL}
  PROVE  /\ Typed(Focus(w, c)) /\ Stacked(Focus(w, c)) /\ SelShown(Focus(w, c))
         /\ Focus(w, c).mon = w.mon /\ Focus(w, c).tags = w.tags
         /\ Focus(w, c).tagset = w.tagset /\ Focus(w, c).urgent \subseteq w.urgent
         /\ c = NULL => Focus(w, c).selmon = w.selmon
<1> DEFINE target == IF c # NULL /\ Visible(w, c) THEN c ELSE FirstVisible(w, w.selmon)
           there == [w EXCEPT !.selmon = w.mon[target]]
           moved == AttachStack(DetachStack(there, target), target)
           calm == SetFocus(SetUrgent(moved, target, FALSE), target)
           out == Focus(w, c)
<1>1. w.selmon \in Mon /\ w.stack[w.selmon] \in Seq(Client)
  BY DEF Typed
<1>2. \/ /\ FirstVisible(w, w.selmon) = NULL
         /\ \A d \in Range(w.stack[w.selmon]) : ~Visible(w, d)
      \/ /\ FirstVisible(w, w.selmon) \in Range(w.stack[w.selmon])
         /\ FirstVisible(w, w.selmon) \in Client
         /\ Visible(w, FirstVisible(w, w.selmon))
  BY <1>1, FirstVisibleOf
<1>3. CASE target = NULL
  <2>1. FirstVisible(w, w.selmon) = NULL
    BY <1>3
  <2>2. \A d \in Client : w.mon[d] = w.selmon => ~Visible(w, d)
    BY <1>1, <1>2, <2>1, ClientAssumption DEF Stacked
  <2>3. out = [w EXCEPT !.sel[w.selmon] = NULL]
    BY <1>3 DEF Focus
  <2>4. /\ Kept(out, w) /\ out.stack = w.stack
        /\ out.sel = [w.sel EXCEPT ![w.selmon] = NULL]
    BY <2>3 DEF Kept, Typed, Shape, Fields, Stamped
  <2> HIDE DEF out
  <2>5. Typed(out) /\ Stacked(out)
    BY <1>1, <2>4 DEF Kept, Typed, Stacked, Managed
  <2>6. SelShown(out)
    <3>1. Selected(out) = NULL
      BY <1>1, <2>4 DEF Kept, Typed, Selected
    <3> QED
      BY <2>2, <2>4, <3>1 DEF SelShown, Kept, Visible
  <2> QED
    BY <2>4, <2>5, <2>6 DEF Kept, out
<1>4. CASE target # NULL
  <2>1. target \in Client /\ w.mon[target] \in Mon /\ Visible(w, target)
    BY <1>1, <1>2, <1>4 DEF Stacked, Managed, Typed
  <2>2. c = NULL => w.mon[target] = w.selmon
    BY <1>1, <1>2, <1>4 DEF Stacked
  <2> HIDE DEF target
  <2>3. /\ Shape(there) /\ there.selmon = w.mon[target] /\ there.mon = w.mon
        /\ there.tags = w.tags /\ there.tagset = w.tagset /\ there.urgent = w.urgent
        /\ there.stack = w.stack /\ there.sel = w.sel /\ Stamped(there)
    BY DEF Typed, Shape, Fields, Stamped
  <2> HIDE DEF there
  <2>4. Typed(there) /\ Stacked(there) /\ target \in Managed(there)
    BY <2>1, <2>3, MonOf DEF Typed, Stacked, Managed
  <2>5. /\ Kept(DetachStack(there, target), there)
        /\ Typed(DetachStack(there, target))
        /\ StackedBut(DetachStack(there, target), target)
    BY <2>4, DetachStackOf
  <2>6. target \in Managed(DetachStack(there, target))
    BY <2>4, <2>5 DEF Kept, Managed
  <2>7. /\ Kept(moved, DetachStack(there, target))
        /\ Typed(moved) /\ Stacked(moved)
    BY <2>5, <2>6, AttachStackOf
  <2>8. Kept(moved, there)
    BY <2>5, <2>7 DEF Kept
  <2> HIDE DEF moved
  <2>9. /\ Typed(calm) /\ calm.mon = moved.mon /\ calm.tags = moved.tags
        /\ calm.tagset = moved.tagset /\ calm.selmon = moved.selmon
        /\ calm.stack = moved.stack /\ calm.sel = moved.sel
        /\ calm.urgent \subseteq moved.urgent
    <3> DEFINE unmarked == SetUrgent(moved, target, FALSE)
    <3>1. /\ Typed(unmarked)
          /\ unmarked = [moved EXCEPT !.urgent = moved.urgent \ {target}]
      BY <2>7, SetUrgentOf
    <3>2. /\ unmarked.mon = moved.mon /\ unmarked.tags = moved.tags
          /\ unmarked.tagset = moved.tagset /\ unmarked.selmon = moved.selmon
          /\ unmarked.stack = moved.stack /\ unmarked.sel = moved.sel
          /\ unmarked.urgent \subseteq moved.urgent
      BY <2>7, <3>1 DEF Typed, Shape, Fields
    <3> HIDE DEF unmarked
    <3>3. Relinked(calm, unmarked)
      BY <2>1, <3>1, SetFocusKeeps DEF unmarked
    <3>4. Typed(calm)
      BY <3>1, <3>3, RelinkedInOrder
    <3> HIDE DEF calm
    <3> QED
      BY <3>2, <3>3, <3>4 DEF Relinked, Kept
  <2>10. out = [calm EXCEPT !.sel[moved.selmon] = target]
    BY <1>4 DEF Focus, calm, moved, there, target
  <2> HIDE DEF calm
  <2>11. /\ Kept(out, calm) /\ out.stack = calm.stack
         /\ out.sel = [calm.sel EXCEPT ![moved.selmon] = target]
    BY <2>9, <2>10 DEF Kept, Typed, Shape, Fields, Stamped
  <2> HIDE DEF out
  <2>12. Typed(out) /\ Stacked(out)
    BY <2>1, <2>7, <2>9, <2>11 DEF Kept, Typed, Stacked, Managed
  <2>13. SelShown(out)
    <3>1. Selected(out) = target /\ out.selmon = w.mon[target]
      BY <2>1, <2>3, <2>7, <2>8, <2>9, <2>11 DEF Kept, Typed, Selected
    <3> QED
      BY <1>4, <2>1, <2>3, <2>8, <2>9, <2>11, <3>1 DEF SelShown, Kept, Visible
  <2> QED
    BY <2>2, <2>3, <2>8, <2>9, <2>11, <2>12, <2>13 DEF Kept, out
<1> QED
  BY <1>3, <1>4

LEMMA ArrangeOf ==
  ASSUME NEW w, NEW ms, Typed(w), Stacked(w)
  PROVE  /\ Typed(Arrange(w, ms)) /\ Stacked(Arrange(w, ms))
         /\ SelShown(w) => SelShown(Arrange(w, ms))
         /\ HiddenBut(w, ms) => HiddenBut(Arrange(w, ms), {})
         /\ Arrange(w, ms).mon = w.mon
<1> DEFINE out == Arrange(w, ms)
<1>1. /\ Shape(out) /\ out.selmon = w.selmon /\ out.mon = w.mon
      /\ out.tags = w.tags /\ out.tagset = w.tagset
      /\ out.stack = w.stack /\ out.sel = w.sel
      /\ out.urgent = {c \in w.urgent : ~(w.mon[c] \in ms /\ Visible(w, c))}
      /\ Stamped(out)
  BY DEF Typed, Shape, Fields, Stamped, Arrange
<1> HIDE DEF out
<1>2. Typed(out) /\ Stacked(out)
  BY <1>1 DEF Typed, Stacked, Managed
<1>3. SelShown(w) => SelShown(out)
  BY <1>1 DEF SelShown, Selected, Visible
<1>4. HiddenBut(w, ms) => HiddenBut(out, {})
  BY <1>1 DEF HiddenBut, Visible
<1> QED
  BY <1>1, <1>2, <1>3, <1>4 DEF out

\* How most handlers end.
LEMMA FocusArrange ==
  ASSUME NEW w, NEW ms, NEW c \in Managed(w) \cup {NULL},
         Typed(w), Stacked(w), HiddenBut(w, ms)
  PROVE  InOrder(Arrange(Focus(w, c), ms))
<1> DEFINE v == Focus(w, c)
<1>1. /\ Typed(v) /\ Stacked(v) /\ SelShown(v)
      /\ v.mon = w.mon /\ v.tags = w.tags
      /\ v.tagset = w.tagset /\ v.urgent \subseteq w.urgent
  BY FocusOf
<1> HIDE DEF v
<1>2. HiddenBut(v, ms)
  BY <1>1 DEF HiddenBut, Visible
<1>3. InOrder(Arrange(v, ms))
  BY <1>1, <1>2, ArrangeOf DEF InOrder
<1> QED
  BY <1>3 DEF v

LEMMA FocusInOrder ==
  ASSUME NEW w, NEW c \in Managed(w) \cup {NULL},
         Typed(w), Stacked(w), HiddenBut(w, {})
  PROVE  InOrder(Focus(w, c))
<1> DEFINE v == Focus(w, c)
<1>1. /\ Typed(v) /\ Stacked(v) /\ SelShown(v)
      /\ v.mon = w.mon /\ v.tags = w.tags
      /\ v.tagset = w.tagset /\ v.urgent \subseteq w.urgent
  BY FocusOf
<1> HIDE DEF v
<1>2. HiddenBut(v, {})
  BY <1>1 DEF HiddenBut, Visible
<1>3. InOrder(v)
  BY <1>1, <1>2 DEF InOrder
<1> QED
  BY <1>3 DEF v

LEMMA RelinkedArranged ==
  ASSUME NEW w, NEW v, NEW ms, InOrder(w), Relinked(v, w)
  PROVE  InOrder(Arrange(v, ms))
<1>1. Typed(v) /\ Stacked(v) /\ HiddenBut(v, {})
  BY RelinkedInOrder DEF InOrder
<1>2. SelShown(v)
  BY DEF InOrder, SelShown, Selected, Visible, Relinked, Kept
<1>3. HiddenBut(v, ms)
  BY <1>1 DEF HiddenBut
<1> QED
  BY <1>1, <1>2, <1>3, ArrangeOf DEF InOrder

LEMMA SwitchMon ==
  ASSUME NEW w, InOrder(w), NEW m \in Mon
  PROVE  LET v == [w EXCEPT !.selmon = m] IN
         Typed(v) /\ Stacked(v) /\ HiddenBut(v, {}) /\ v.mon = w.mon
<1> DEFINE v == [w EXCEPT !.selmon = m]
<1>1. /\ Shape(v) /\ v.selmon = m /\ v.mon = w.mon /\ v.stack = w.stack
      /\ v.sel = w.sel /\ v.tags = w.tags /\ v.tagset = w.tagset /\ v.urgent = w.urgent
      /\ Stamped(v)
  BY DEF InOrder, Typed, Shape, Fields, Stamped
<1> HIDE DEF v
<1>2. Typed(v) /\ Stacked(v) /\ HiddenBut(v, {}) /\ v.mon = w.mon
  BY <1>1 DEF InOrder, Typed, Stacked, HiddenBut, Managed, Visible
<1> QED
  BY <1>2 DEF v

-----------------------------------------------------------------------------
(* The handlers                                                             *)

LEMMA InitInOrder == ASSUME Init PROVE ClientsInv
<1>1. setup \in Setups /\ 1 \in Mon /\ NULL \notin Mon
  BY MonOf DEF Init
<1>2. (CHOOSE t \in Tag : TRUE) \in Tag
  BY TagAssumption
<1>3. /\ wm.mon = [c \in Client |-> NULL] /\ wm.stack = [m \in Mon |-> <<>>]
      /\ wm.sel = [m \in Mon |-> NULL] /\ wm.selmon = 1
      /\ wm.tags = [c \in Client |-> {}]
      /\ wm.tagset = [m \in Mon |-> {CHOOSE t \in Tag : TRUE}]
      /\ wm.urgent = {} /\ wm.recent = <<>> /\ Shape(wm)
  BY DEF Init, Shape, Fields
<1>4. Typed(wm)
  <2>1. wm.stack \in [Mon -> Seq(Client)]
    BY <1>3
  <2>2. wm.tagset \in [Mon -> SUBSET Tag] /\ wm.tags \in [Client -> SUBSET Tag]
    BY <1>2, <1>3
  <2>3. Stamped(wm)
    BY <1>3 DEF Stamped, IsInjective
  <2> QED
    BY <1>1, <1>3, <2>1, <2>2, <2>3 DEF Typed
<1>5. Stacked(wm)
  <2>1. \A m \in Mon : wm.stack[m] = <<>> /\ {c \in Client : wm.mon[c] = m} = {}
    BY <1>1, <1>3
  <2>2. IsInjective(<<>>) /\ Range(<<>>) = {}
    BY DEF IsInjective, Range
  <2> QED
    BY <2>1, <2>2 DEF Stacked
<1>6. SelShown(wm) /\ HiddenBut(wm, {})
  BY <1>1, <1>3 DEF SelShown, HiddenBut, Selected
<1> QED
  BY <1>4, <1>5, <1>6 DEF ClientsInv, InOrder

\* While no list leads to a freed client, what is found is managed.
LEMMA ListsManaged ==
  ASSUME ~Dangling(wm), NEW m \in Mon
  PROVE  Range(List(wm, m)) \subseteq Managed(wm)
BY DEF Dangling

LEMMA FoundManaged ==
  ASSUME ~Dangling(wm), NEW c, Found(wm, c)
  PROVE  c \in Managed(wm)
BY ListsManaged DEF Found

LEMMA SelectedManaged ==
  ASSUME ClientsInv, Selected(wm) # NULL
  PROVE  Selected(wm) \in Managed(wm) /\ wm.mon[Selected(wm)] = wm.selmon
BY MonOf DEF ClientsInv, InOrder, Typed, SelShown, Selected, Managed

LEMMA ManageKeeps ==
  ASSUME ClientsInv, ~Dangling(wm), NEW c \in setup.windows,
         NEW parent \in {NULL} \cup Managed(wm), Manage(c, parent)
  PROVE  InOrder(wm')
<1> DEFINE dialog == parent # NULL /\ Found(wm, parent)
           m == IF dialog THEN wm.mon[parent] ELSE wm.selmon
           own == IF dialog THEN wm.tags[parent]
                  ELSE IF RuleTags[c] # {} THEN RuleTags[c] ELSE wm.tagset[m]
           floats == parent # NULL \/ c \in setup.ruleFloats
           made == [wm EXCEPT !.mon[c] = m, !.tags[c] = own,
                      !.floating = IF floats THEN @ \cup {c} ELSE @]
           hooked == SetUrgent(made, c, ~dialog /\ ~Visible(made, c))
           linked == AttachByPriority(hooked, c, TRUE)
           listed == AttachStack(linked, c)
           chosen == [listed EXCEPT !.sel[m] = c]
<1>1. Typed(wm) /\ Stacked(wm) /\ HiddenBut(wm, {}) /\ setup \in Setups
  BY DEF ClientsInv, InOrder, Typed
<1>2. c \in Client /\ wm.mon[c] = NULL /\ c \notin wm.urgent
  BY <1>1, SetupAssumption DEF Manage, Typed, Managed
<1>3. m \in Mon /\ own \in SUBSET Tag /\ m # NULL
  <2>1. dialog => parent \in Managed(wm)
    BY FoundManaged
  <2>2. m \in Mon
    BY <1>1, <2>1 DEF Typed, Managed
  <2>3. own \in SUBSET Tag
    BY <1>1, <1>2, <2>1, <2>2, TagAssumption DEF Typed, Managed
  <2> QED
    BY <1>1, <2>2, <2>3, MonOf
<1>4. wm' = Focus(Arrange(chosen, {m}), NULL)
  BY DEF Manage
<1> HIDE DEF m, own
<1>5. /\ Shape(made) /\ made.selmon = wm.selmon /\ made.stack = wm.stack
      /\ made.sel = wm.sel /\ made.tagset = wm.tagset /\ made.urgent = wm.urgent
      /\ made.mon = [wm.mon EXCEPT ![c] = m] /\ made.tags = [wm.tags EXCEPT ![c] = own]
      /\ Stamped(made)
  BY <1>1 DEF Typed, Shape, Fields, Stamped
<1> HIDE DEF made
<1>6. Typed(made) /\ StackedBut(made, c) /\ c \in Managed(made)
  <2>1. Typed(made) /\ c \in Managed(made)
    BY <1>1, <1>2, <1>3, <1>5 DEF Typed, Managed
  <2>2. ASSUME NEW n \in Mon
        PROVE  {d \in Client : wm.mon[d] = n} = {d \in Client \ {c} : made.mon[d] = n}
    BY <1>1, <1>2, <1>5, MonOf DEF Typed
  <2>3. StackedBut(made, c)
    BY <1>1, <1>5, <2>2 DEF Stacked, StackedBut
  <2> QED
    BY <2>1, <2>3
<1>7. HiddenBut(made, {})
  BY <1>1, <1>2, <1>5 DEF HiddenBut, Visible, Typed, Managed
<1>8. /\ Typed(hooked) /\ StackedBut(hooked, c) /\ c \in Managed(hooked)
      /\ HiddenBut(hooked, {})
  <2>1. /\ Typed(hooked)
        /\ hooked = [made EXCEPT !.urgent =
                      IF ~dialog /\ ~Visible(made, c)
                      THEN made.urgent \cup {c} ELSE made.urgent \ {c}]
    BY <1>6, SetUrgentOf
  <2>2. /\ hooked.mon = made.mon /\ hooked.stack = made.stack
        /\ hooked.tags = made.tags /\ hooked.tagset = made.tagset
        /\ hooked.urgent = IF ~dialog /\ ~Visible(made, c)
                           THEN made.urgent \cup {c} ELSE made.urgent \ {c}
    BY <1>6, <2>1 DEF Typed, Shape, Fields
  <2> HIDE DEF hooked, dialog
  <2>3. StackedBut(hooked, c) /\ c \in Managed(hooked)
    BY <1>6, <2>2 DEF StackedBut, Managed
  <2>4. HiddenBut(hooked, {})
    BY <1>7, <2>2 DEF HiddenBut, Visible
  <2> QED
    BY <2>1, <2>3, <2>4
<1> HIDE DEF hooked
<1>9. Relinked(linked, hooked)
  BY <1>8, AttachByPriorityLinks DEF Typed
<1>10. /\ Typed(linked) /\ StackedBut(linked, c) /\ HiddenBut(linked, {})
       /\ c \in Managed(linked)
  <2>1. Typed(linked) /\ StackedBut(linked, c) /\ HiddenBut(linked, {})
    <3> HIDE DEF linked
    <3> QED
      BY <1>8, <1>9, RelinkedInOrder
  <2>2. c \in Managed(linked)
    BY <1>8, <1>9 DEF Relinked, Kept, Managed
  <2> QED
    BY <2>1, <2>2
<1> HIDE DEF linked
<1>11. Typed(listed) /\ Stacked(listed) /\ Kept(listed, linked)
  BY <1>10, AttachStackOf
<1>12. HiddenBut(listed, {m})
  <2> HIDE DEF listed
  <2> QED
    BY <1>10, <1>11 DEF HiddenBut, Kept, Visible
<1> HIDE DEF listed
<1>13. Typed(chosen) /\ Stacked(chosen) /\ HiddenBut(chosen, {m})
  <2>1. /\ Kept(chosen, listed) /\ chosen.stack = listed.stack
        /\ chosen.sel = [listed.sel EXCEPT ![m] = c]
    BY <1>11 DEF Kept, Typed, Shape, Fields, Stamped
  <2> HIDE DEF chosen
  <2>2. Typed(chosen) /\ Stacked(chosen)
    BY <1>2, <1>3, <1>11, <2>1 DEF Typed, Stacked, Kept, Managed
  <2>3. HiddenBut(chosen, {m})
    BY <1>12, <2>1 DEF HiddenBut, Kept, Visible
  <2> QED
    BY <2>2, <2>3
<1> HIDE DEF chosen
<1>14. Typed(Arrange(chosen, {m})) /\ Stacked(Arrange(chosen, {m}))
       /\ HiddenBut(Arrange(chosen, {m}), {})
  BY <1>13, ArrangeOf
<1>15. InOrder(Focus(Arrange(chosen, {m}), NULL))
  BY <1>14, FocusInOrder
<1> QED
  BY <1>4, <1>15

LEMMA DestroyKeeps ==
  ASSUME ClientsInv, NEW c \in setup.windows, Destroy(c)
  PROVE  InOrder(wm')
<1> DEFINE away == Detach(wm, c)
           left == DetachStack(away, c)
           freed == [left EXCEPT !.mon[c] = NULL, !.tags[c] = {}, !.next[c] = NULL,
                       !.floating = @ \ {c}, !.fullscreen = @ \ {c},
                       !.oldfloating = @ \ {c}, !.urgent = @ \ {c},
                       !.recent = RemoveFirst(@, c)]
<1>1. InOrder(wm) /\ c \in Managed(wm)
  BY DEF ClientsInv, Destroy
<1>2. CASE wm' = [wm EXCEPT !.gone = @ \cup {c}]
  <2>1. Relinked(wm', wm)
    BY <1>1, <1>2 DEF InOrder, Typed, Relinked, Kept, Shape, Fields, Stamped
  <2>2. Typed(wm') /\ Stacked(wm') /\ HiddenBut(wm', {})
    <3> DEFINE v == [wm EXCEPT !.gone = @ \cup {c}]
    <3>1. Relinked(v, wm)
      BY <1>2, <2>1
    <3> HIDE DEF v
    <3>2. Typed(v) /\ Stacked(v) /\ HiddenBut(v, {})
      BY <1>1, <3>1, RelinkedInOrder DEF InOrder
    <3> QED
      BY <1>2, <3>2 DEF v
  <2>3. SelShown(wm')
    BY <1>1, <2>1 DEF InOrder, SelShown, Selected, Visible, Relinked, Kept
  <2> QED
    BY <2>2, <2>3 DEF InOrder
<1>3. CASE wm' = Arrange(Focus(freed, NULL), {wm.mon[c]})
  <2>1. /\ Typed(away) /\ Stacked(away) /\ HiddenBut(away, {}) /\ c \in Managed(away)
        /\ away.mon = wm.mon
    <3>1. Relinked(away, wm)
      BY <1>1, DetachLinks DEF InOrder, Typed
    <3>2. c \in Managed(away)
      BY <1>1, <3>1 DEF Relinked, Kept, Managed
    <3> HIDE DEF away
    <3> QED
      BY <1>1, <3>1, <3>2, RelinkedInOrder DEF InOrder, Relinked, Kept
  <2> HIDE DEF away
  <2>2. Kept(left, away) /\ Typed(left) /\ StackedBut(left, c)
    BY <2>1, DetachStackOf
  <2> HIDE DEF left
  <2>3. /\ Shape(freed) /\ freed.selmon = left.selmon /\ freed.stack = left.stack
        /\ freed.sel = left.sel /\ freed.tagset = left.tagset
        /\ freed.urgent = left.urgent \ {c} /\ freed.mon = [left.mon EXCEPT ![c] = NULL]
        /\ freed.tags = [left.tags EXCEPT ![c] = {}]
        /\ freed.recent = RemoveFirst(left.recent, c)
    BY <2>2 DEF Typed, Shape, Fields
  <2>7. Stamped(freed)
    BY <2>2, <2>3, RemoveFirstOf DEF Typed, Stamped
  <2> HIDE DEF freed
  <2>4. Typed(freed)
    <3>1. c \in Client
      BY <1>1 DEF Managed
    <3>2. freed.mon \in [Client -> Mon \cup {NULL}] /\ freed.tags \in [Client -> SUBSET Tag]
      BY <2>2, <2>3, <3>1 DEF Typed
    <3>3. freed.urgent \subseteq Managed(freed)
      BY <2>2, <2>3, <3>1 DEF Typed, Managed
    <3> QED
      BY <2>2, <2>3, <2>7, <3>2, <3>3 DEF Typed
  <2>5. Stacked(freed)
    <3>1. ASSUME NEW n \in Mon
          PROVE  {d \in Client : freed.mon[d] = n} = {d \in Client \ {c} : left.mon[d] = n}
      BY <2>2, <2>3, MonOf DEF Typed
    <3> QED
      BY <2>2, <2>3, <3>1 DEF Stacked, StackedBut
  <2>6. HiddenBut(freed, {wm.mon[c]})
    BY <2>1, <2>2, <2>3 DEF HiddenBut, Visible, Typed, Kept, Managed
  <2> QED
    BY <1>3, <2>4, <2>5, <2>6, FocusArrange
<1> QED
  BY <1>2, <1>3 DEF Destroy

LEMMA ListDomain ==
  ASSUME setup \in Setups, NEW w, NEW m
  PROVE  \E n \in Nat : DOMAIN List(w, m) = 1 .. n
<1> DEFINE D == 0 .. Cardinality(setup.windows) - 1
           I == {i \in D : At(w, m)[i] # NULL}
<1>1. Cardinality(setup.windows) \in Nat
  BY SetupAssumption, ClientAssumption, FS_Subset, FS_CardinalityType
<1>2. IsFiniteSet(D)
  <2>1. 0 \in Int /\ Cardinality(setup.windows) - 1 \in Int
    BY <1>1
  <2> QED
    BY <2>1, FS_Interval
<1>3. Cardinality(I) \in Nat
  BY <1>2, FS_Subset, FS_CardinalityType
<1> QED
  BY <1>3 DEF List

LEMMA TiledInList ==
  ASSUME NEW w, NEW list, NEW n \in Nat, DOMAIN list = 1 .. n, NEW from,
         NextTiled(w, list, from) # NULL
  PROVE  NextTiled(w, list, from) \in Range(list)
<1> DEFINE tiled == {i \in DOMAIN list : i >= from /\ list[i] \notin w.floating
                                           /\ Visible(w, list[i])}
<1>1. tiled # {}
  BY DEF NextTiled
<1>2. PICK k \in tiled : \A j \in tiled : k <= j
  <2>1. tiled \subseteq Nat
    OBVIOUS
  <2> HIDE DEF tiled
  <2> QED
    BY <1>1, <2>1, Smallest
<1>3. NextTiled(w, list, from) = list[CHOOSE i \in tiled : \A j \in tiled : i <= j]
  BY <1>1 DEF NextTiled
<1>4. (CHOOSE i \in tiled : \A j \in tiled : i <= j) \in DOMAIN list
  <2>1. (CHOOSE i \in tiled : \A j \in tiled : i <= j) \in tiled
    <3> HIDE DEF tiled
    <3> QED
      BY <1>2
  <2> QED
    BY <2>1
<1> QED
  BY <1>3, <1>4 DEF Range

LEMMA ZoomPop ==
  ASSUME ClientsInv, ~Dangling(wm), Zoom
  PROVE  \E c \in Managed(wm) : wm' = Pop(wm, c)
<1> DEFINE list == List(wm, wm.selmon)
           first == NextTiled(wm, list, 1)
           second == NextTiled(wm, list, 1 + CHOOSE i \in DOMAIN list : list[i] = first)
           c == IF Selected(wm) = first THEN second ELSE Selected(wm)
<1>1. setup \in Setups /\ wm.selmon \in Mon
  BY DEF ClientsInv, InOrder, Typed
<1>2. c # NULL /\ Selected(wm) # NULL /\ wm' = Pop(wm, c)
  BY DEF Zoom
<1>3. PICK n \in Nat : DOMAIN list = 1 .. n
  BY <1>1, ListDomain
<1>4. Range(list) \subseteq Managed(wm)
  BY <1>1, ListsManaged
<1>5. \A from : NextTiled(wm, list, from) # NULL =>
                  NextTiled(wm, list, from) \in Range(list)
  <2> HIDE DEF list
  <2> QED
    BY <1>3, TiledInList
<1>6. second # NULL => second \in Managed(wm)
  <2> HIDE DEF list, first
  <2> QED
    BY <1>4, <1>5
<1>7. Selected(wm) \in Managed(wm)
  BY <1>2, SelectedManaged
<1>8. c \in Managed(wm)
  <2> HIDE DEF second, first
  <2> QED
    BY <1>2, <1>6, <1>7
<1> QED
  BY <1>2, <1>8

LEMMA ZoomKeeps ==
  ASSUME ClientsInv, ~Dangling(wm), Zoom
  PROVE  InOrder(wm')
<1>1. InOrder(wm) /\ setup \in Setups /\ wm.selmon \in Mon
  BY DEF ClientsInv, InOrder, Typed
<1>2. PICK c \in Managed(wm) : wm' = Pop(wm, c)
  BY ZoomPop
<1> DEFINE away == Detach(wm, c)
           linked == AttachByPriority(away, c, FALSE)
<1>3. wm' = Arrange(Focus(linked, c), {wm.mon[c]})
  BY <1>2 DEF Pop
<1>4. /\ Typed(away) /\ Stacked(away) /\ HiddenBut(away, {}) /\ away.mon = wm.mon
  <2>1. Relinked(away, wm)
    BY <1>1, DetachLinks DEF InOrder, Typed
  <2> HIDE DEF away
  <2> QED
    BY <1>1, <2>1, RelinkedInOrder DEF InOrder, Relinked, Kept
<1> HIDE DEF away
<1>5. /\ Typed(linked) /\ Stacked(linked) /\ HiddenBut(linked, {}) /\ linked.mon = wm.mon
  <2>1. Relinked(linked, away)
    BY <1>4, AttachByPriorityLinks DEF Typed
  <2> HIDE DEF linked
  <2> QED
    BY <1>4, <2>1, RelinkedInOrder DEF Relinked, Kept
<1> HIDE DEF linked
<1>6. c \in Managed(linked) /\ HiddenBut(linked, {wm.mon[c]})
  BY <1>5 DEF Managed, HiddenBut
<1> QED
  BY <1>3, <1>5, <1>6, FocusArrange

LEMMA ToggleFloatingKeeps ==
  ASSUME ClientsInv, ToggleFloating
  PROVE  InOrder(wm')
<1> DEFINE c == Selected(wm)
           v == [wm EXCEPT !.floating = IF c \in @ THEN @ \ {c} ELSE @ \cup {c}]
<1>1. wm' = Arrange(v, {wm.selmon})
  BY DEF ToggleFloating
<1>2. Relinked(v, wm)
  BY DEF ClientsInv, InOrder, Typed, Shape, Fields, Relinked, Kept, Stamped
<1> HIDE DEF v
<1> QED
  BY <1>1, <1>2, RelinkedArranged DEF ClientsInv

LEMMA FullScreenKeeps ==
  ASSUME ClientsInv, NEW c, FullScreen(c)
  PROVE  InOrder(wm')
<1> DEFINE v == IF c \in wm.fullscreen
                THEN [wm EXCEPT !.fullscreen = @ \ {c},
                        !.floating = IF c \in wm.oldfloating THEN @ ELSE @ \ {c},
                        !.oldfloating = @ \ {c}]
                ELSE [wm EXCEPT !.fullscreen = @ \cup {c},
                        !.oldfloating = IF c \in wm.floating THEN @ \cup {c} ELSE @,
                        !.floating = @ \cup {c}]
<1>1. wm' = Arrange(v, {wm.mon[c]})
  BY DEF FullScreen
<1>2. Relinked(v, wm)
  BY DEF ClientsInv, InOrder, Typed, Shape, Fields, Relinked, Kept, Stamped
<1> HIDE DEF v
<1> QED
  BY <1>1, <1>2, RelinkedArranged DEF ClientsInv

LEMMA TagMonKeeps ==
  ASSUME ClientsInv, NEW m \in Mon, TagMon(m)
  PROVE  InOrder(wm')
<1> DEFINE c == Selected(wm)
           apart == Detach(wm, c)
           away == DetachStack(apart, c)
           moved == [away EXCEPT !.mon[c] = m, !.tags[c] = wm.tagset[m]]
           linked == AttachByPriority(moved, c, TRUE)
           there == AttachStack(linked, c)
<1>1. InOrder(wm) /\ c \in Managed(wm)
  BY SelectedManaged DEF ClientsInv, TagMon
<1>2. wm' = Arrange(Focus(there, NULL), Mon)
  BY DEF TagMon
<1> HIDE DEF c
<1>3. Relinked(apart, wm) /\ Typed(apart) /\ Stacked(apart) /\ c \in Managed(apart)
  <2>1. Relinked(apart, wm)
    BY <1>1, DetachLinks DEF InOrder, Typed
  <2> HIDE DEF apart
  <2> QED
    BY <1>1, <2>1, RelinkedInOrder DEF InOrder, Relinked, Kept, Managed
<1> HIDE DEF apart
<1>4. Kept(away, apart) /\ Typed(away) /\ StackedBut(away, c)
  BY <1>3, DetachStackOf
<1> HIDE DEF away
<1>5. /\ Shape(moved) /\ moved.selmon = away.selmon /\ moved.stack = away.stack
      /\ moved.sel = away.sel /\ moved.tagset = away.tagset /\ moved.urgent = away.urgent
      /\ moved.mon = [away.mon EXCEPT ![c] = m]
      /\ moved.tags = [away.tags EXCEPT ![c] = wm.tagset[m]]
      /\ Stamped(moved)
  BY <1>4 DEF Typed, Shape, Fields, Stamped
<1> HIDE DEF moved
<1>6. Typed(moved) /\ c \in Managed(moved)
  <2>1. c \in Client /\ wm.tagset[m] \in SUBSET Tag /\ m # NULL
    BY <1>1, MonOf DEF InOrder, Typed, Managed
  <2>2. /\ moved.mon \in [Client -> Mon \cup {NULL}] /\ moved.mon[c] # NULL
        /\ moved.tags \in [Client -> SUBSET Tag]
    BY <1>4, <1>5, <2>1 DEF Typed
  <2>3. moved.urgent \subseteq Managed(moved)
    BY <1>4, <1>5, <2>1 DEF Typed, Managed
  <2> QED
    BY <1>4, <1>5, <2>1, <2>2, <2>3 DEF Typed, Managed
<1>7. StackedBut(moved, c)
  <2>1. \A d \in Client \ {c} : moved.mon[d] = away.mon[d]
    BY <1>4, <1>5 DEF Typed
  <2> QED
    BY <1>4, <1>5, <2>1 DEF StackedBut
<1>8. Typed(linked) /\ StackedBut(linked, c) /\ c \in Managed(linked)
  <2>1. Relinked(linked, moved)
    BY <1>6, AttachByPriorityLinks DEF Typed
  <2> HIDE DEF linked
  <2> QED
    BY <1>6, <1>7, <2>1, RelinkedInOrder DEF Relinked, Kept, Managed
<1> HIDE DEF linked
<1>9. Typed(there) /\ Stacked(there)
  BY <1>8, AttachStackOf
<1> HIDE DEF there
<1>10. HiddenBut(there, Mon)
  BY <1>9 DEF HiddenBut, Typed, Managed
<1> QED
  BY <1>2, <1>9, <1>10, FocusArrange

LEMMA FocusMonKeeps ==
  ASSUME ClientsInv, NEW m \in Mon, wm' = Focus([wm EXCEPT !.selmon = m], NULL)
  PROVE  InOrder(wm')
BY SwitchMon, FocusInOrder DEF ClientsInv, InOrder

LEMMA ClickKeeps ==
  ASSUME ClientsInv, ~Dangling(wm), NEW c, Click(c)
  PROVE  InOrder(wm')
<1> DEFINE v == [wm EXCEPT !.selmon = wm.mon[c]]
           there == IF wm.mon[c] = wm.selmon THEN wm ELSE Focus(v, NULL)
<1>1. InOrder(wm) /\ c \in Managed(wm) /\ wm.mon[c] \in Mon
  BY FoundManaged DEF ClientsInv, InOrder, Click, Typed, Managed
<1>2. wm' = Focus(there, c)
  BY DEF Click
<1>3. Typed(v) /\ Stacked(v) /\ HiddenBut(v, {}) /\ v.mon = wm.mon
  BY <1>1, SwitchMon DEF InOrder
<1> HIDE DEF v
<1>4. /\ Typed(Focus(v, NULL)) /\ Stacked(Focus(v, NULL)) /\ HiddenBut(Focus(v, NULL), {})
      /\ Focus(v, NULL).mon = wm.mon
  BY <1>3, FocusOf, FocusInOrder DEF InOrder
<1>5. Typed(there) /\ Stacked(there) /\ HiddenBut(there, {}) /\ there.mon = wm.mon
  BY <1>1, <1>4 DEF InOrder
<1> HIDE DEF there
<1>6. c \in Managed(there)
  BY <1>1, <1>5 DEF Managed
<1> QED
  BY <1>2, <1>5, <1>6, FocusInOrder

\* lastclient() goes to a window that can be gone to.
LEMMA LatestOther ==
  ASSUME NEW w, setup \in Setups, w.recent \in Seq(Client), Others(w) # {}
  PROVE  Latest(w) \in Others(w)
<1> DEFINE list == List(w, w.selmon)
<1>1. CASE Others(w) \cap Range(w.recent) = {}
  <2>1. PICK n \in Nat : DOMAIN list = 1 .. n
    BY ListDomain
  <2>2. Range(list) \cap Others(w) # {}
    BY DEF Others
  <2>3. Latest(w) = First(list, Others(w))
    BY <1>1 DEF Latest
  <2> HIDE DEF list
  <2> QED
    BY <2>1, <2>2, <2>3, FirstIn
<1>2. CASE Others(w) \cap Range(w.recent) # {}
  <2>1. Len(w.recent) \in Nat /\ DOMAIN w.recent = 1 .. Len(w.recent)
    BY LenProperties
  <2>2. Latest(w) = First(w.recent, Others(w))
    BY <1>2 DEF Latest
  <2> QED
    BY <1>2, <2>1, <2>2, FirstIn
<1> QED
  BY <1>1, <1>2

LEMMA LatestManaged ==
  ASSUME ClientsInv, ~Dangling(wm), Others(wm) # {}
  PROVE  Latest(wm) \in Managed(wm)
<1>1. setup \in Setups /\ wm.selmon \in Mon /\ wm.recent \in Seq(Client)
  BY DEF ClientsInv, InOrder, Typed, Stamped
<1>2. Others(wm) \subseteq Managed(wm)
  BY <1>1, ListsManaged DEF Others
<1> QED
  BY <1>1, <1>2, LatestOther

LEMMA LastClientKeeps ==
  ASSUME ClientsInv, ~Dangling(wm), LastClient
  PROVE  InOrder(wm')
BY LatestManaged, FocusInOrder DEF LastClient, ClientsInv, InOrder

LEMMA ViewKeeps ==
  ASSUME ClientsInv, NEW T \in setup.tagSets, View(T)
  PROVE  InOrder(wm')
<1> DEFINE v == [wm EXCEPT !.tagset[wm.selmon] = T]
<1>1. InOrder(wm) /\ setup \in Setups /\ wm.selmon \in Mon /\ T \in SUBSET Tag
  BY SetupAssumption DEF ClientsInv, InOrder, Typed
<1>2. /\ Shape(v) /\ v.selmon = wm.selmon /\ v.mon = wm.mon /\ v.stack = wm.stack
      /\ v.sel = wm.sel /\ v.tags = wm.tags /\ v.urgent = wm.urgent
      /\ v.tagset = [wm.tagset EXCEPT ![wm.selmon] = T] /\ Stamped(v)
  BY <1>1 DEF InOrder, Typed, Shape, Fields, Stamped
<1>3. wm' = Arrange(Focus(v, NULL), {wm.selmon})
  BY DEF View
<1> HIDE DEF v
<1>4. Typed(v) /\ Stacked(v)
  BY <1>1, <1>2 DEF InOrder, Typed, Stacked, Managed
<1>5. HiddenBut(v, {wm.selmon})
  BY <1>1, <1>2 DEF InOrder, Typed, HiddenBut, Visible, Managed
<1> QED
  BY <1>3, <1>4, <1>5, FocusArrange

LEMMA TagClientKeeps ==
  ASSUME ClientsInv, NEW T \in setup.tagSets, TagClient(T)
  PROVE  InOrder(wm')
<1> DEFINE c == Selected(wm)
           v == [wm EXCEPT !.tags[c] = T]
<1>1. InOrder(wm) /\ setup \in Setups /\ T \in SUBSET Tag
  BY SetupAssumption DEF ClientsInv, InOrder, Typed
<1>2. c \in Managed(wm) /\ wm.mon[c] = wm.selmon
  BY SelectedManaged DEF TagClient
<1>3. wm' = Arrange(Focus(v, NULL), {wm.selmon})
  BY DEF TagClient
<1> HIDE DEF c
<1>4. /\ Shape(v) /\ v.selmon = wm.selmon /\ v.mon = wm.mon /\ v.stack = wm.stack
      /\ v.sel = wm.sel /\ v.tagset = wm.tagset /\ v.urgent = wm.urgent
      /\ v.tags = [wm.tags EXCEPT ![c] = T] /\ Stamped(v)
  BY <1>1 DEF InOrder, Typed, Shape, Fields, Stamped
<1> HIDE DEF v
<1>5. Typed(v) /\ Stacked(v)
  BY <1>1, <1>2, <1>4 DEF InOrder, Typed, Stacked, Managed
<1>6. HiddenBut(v, {wm.selmon})
  BY <1>1, <1>2, <1>4 DEF InOrder, Typed, HiddenBut, Visible, Managed
<1> QED
  BY <1>3, <1>5, <1>6, FocusArrange

LEMMA HintKeeps ==
  ASSUME ClientsInv, ~Dangling(wm), NEW c, NEW on \in BOOLEAN, Hint(c, on)
  PROVE  InOrder(wm')
<1> DEFINE stays == on /\ c # Selected(wm) /\ ~Visible(wm, c)
           v == SetUrgent(wm, c, stays)
<1>1. InOrder(wm) /\ c \in Managed(wm) /\ wm' = v
  BY FoundManaged DEF ClientsInv, Hint
<1>2. stays \in BOOLEAN
  OBVIOUS
<1>3. stays => ~Visible(wm, c)
  OBVIOUS
<1> HIDE DEF stays
<1>4. /\ Typed(v)
      /\ v = [wm EXCEPT !.urgent = IF stays THEN wm.urgent \cup {c} ELSE wm.urgent \ {c}]
  BY <1>1, <1>2, SetUrgentOf DEF InOrder
<1>5. /\ v.selmon = wm.selmon /\ v.mon = wm.mon /\ v.stack = wm.stack
      /\ v.sel = wm.sel /\ v.tags = wm.tags /\ v.tagset = wm.tagset
      /\ v.urgent = IF stays THEN wm.urgent \cup {c} ELSE wm.urgent \ {c}
  BY <1>1, <1>4 DEF InOrder, Typed, Shape, Fields
<1> HIDE DEF v
<1>6. Stacked(v) /\ SelShown(v)
  BY <1>1, <1>5 DEF InOrder, Stacked, SelShown, Selected, Visible
<1>7. HiddenBut(v, {})
  BY <1>1, <1>3, <1>5 DEF InOrder, HiddenBut, Visible
<1> QED
  BY <1>1, <1>4, <1>6, <1>7 DEF InOrder

-----------------------------------------------------------------------------
(* A list, followed from its head                                           *)

\* The list of m in w is s, of length n.
Chain(w, m, n, s) ==
  /\ w.head[m] = IF n = 0 THEN NULL ELSE s[1]
  /\ \A i \in 1 .. n : w.next[s[i]] = IF i = n THEN NULL ELSE s[i + 1]
  /\ \A i, j \in 1 .. n : s[i] = s[j] => i = j

Follow(w, m, f) ==
  [k \in 0 .. Cardinality(setup.windows) |->
     IF k = 0 THEN w.head[m]
     ELSE IF f[k - 1] = NULL THEN NULL ELSE w.next[f[k - 1]]]

\* At() is a function that is defined from itself; Follow is one step of it.
LEMMA AtDef ==
  ASSUME NEW w, NEW m
  PROVE  At(w, m) = CHOOSE f : f = Follow(w, m, f)
BY Zenon DEF At, Follow

\* No other function takes those steps: where one first differed, the step
\* before would differ already.
LEMMA AtFollows ==
  ASSUME NEW w, NEW m, NEW g, g = Follow(w, m, g), Cardinality(setup.windows) \in Nat
  PROVE  At(w, m) = g
<1> DEFINE N == Cardinality(setup.windows)
           f == At(w, m)
           bad == {k \in 0 .. N : f[k] # g[k]}
<1>1. f = Follow(w, m, f)
  BY AtDef, Zenon
<1>2. bad = {}
  <2> SUFFICES ASSUME bad # {} PROVE FALSE
    OBVIOUS
  <2>1. PICK k \in bad : \A j \in bad : k <= j
    <3>1. bad \subseteq Nat
      OBVIOUS
    <3> HIDE DEF bad
    <3> QED
      BY <3>1, Smallest
  <2> HIDE DEF f
  <2>2. CASE k = 0
    BY <1>1, <2>1, <2>2 DEF Follow
  <2>3. CASE k # 0
    <3>1. k - 1 \in 0 .. N /\ k - 1 \notin bad
      BY <2>1, <2>3
    <3>2. f[k - 1] = g[k - 1]
      BY <3>1
    <3>3. f[k] = g[k]
      BY <1>1, <2>1, <2>3, <3>2 DEF Follow
    <3> QED
      BY <2>1, <3>3
  <2> QED
    BY <2>2, <2>3
<1>3. /\ f = [k \in 0 .. N |-> f[k]] /\ g = [k \in 0 .. N |-> g[k]]
  <2> HIDE DEF f
  <2> QED
    BY <1>1 DEF Follow
<1>4. \A k \in 0 .. N : f[k] = g[k]
  BY <1>2
<1> HIDE DEF f
<1>5. f = g
  BY <1>3, <1>4
<1> QED
  BY <1>5 DEF f

\* A chain of links is what the code that follows them reads.
LEMMA ListIs ==
  ASSUME NEW w, NEW m, NEW n \in Nat, NEW s \in [1 .. n -> Client], Chain(w, m, n, s),
         setup \in Setups, n <= Cardinality(setup.windows)
  PROVE  /\ List(w, m) = s
         /\ At(w, m)[Cardinality(setup.windows)] = NULL
<1> DEFINE N == Cardinality(setup.windows)
           g == [k \in 0 .. N |-> IF k < n THEN s[k + 1] ELSE NULL]
           I == {i \in 0 .. N - 1 : g[i] # NULL}
<1>1. N \in Nat
  BY SetupAssumption, ClientAssumption, FS_Subset, FS_CardinalityType
<1>2. \A i \in 1 .. n : s[i] # NULL /\ s[i] \in Client
  BY ClientAssumption
<1>3. g = Follow(w, m, g)
  <2>1. ASSUME NEW k \in 0 .. N
        PROVE  g[k] = IF k = 0 THEN w.head[m]
                      ELSE IF g[k - 1] = NULL THEN NULL ELSE w.next[g[k - 1]]
    <3>1. CASE k = 0
      BY <1>1, <3>1 DEF Chain
    <3>2. CASE k # 0 /\ k <= n
      <4>1. k \in 1 .. n /\ k - 1 \in 0 .. N /\ k - 1 < n /\ k - 1 + 1 = k
        BY <1>1, <3>2
      <4>2. g[k - 1] = s[k] /\ g[k - 1] # NULL
        BY <1>2, <4>1
      <4>3. w.next[s[k]] = IF k = n THEN NULL ELSE s[k + 1]
        BY <4>1 DEF Chain
      <4>4. g[k] = IF k = n THEN NULL ELSE s[k + 1]
        BY <1>1, <3>2
      <4> HIDE DEF g
      <4> QED
        BY <3>2, <4>2, <4>3, <4>4
    <3>3. CASE k # 0 /\ ~ k <= n
      <4>1. k - 1 \in 0 .. N /\ ~ k - 1 < n /\ ~ k < n
        BY <1>1, <3>3
      <4>2. g[k - 1] = NULL /\ g[k] = NULL
        BY <4>1
      <4> HIDE DEF g
      <4> QED
        BY <3>3, <4>2
    <3> QED
      BY <3>1, <3>2, <3>3
  <2> HIDE DEF g
  <2>2. g = [k \in 0 .. N |-> g[k]]
    BY DEF g
  <2> QED
    BY <2>1, <2>2 DEF Follow
<1>4. At(w, m) = g
  <2> HIDE DEF g
  <2> QED
    BY <1>1, <1>3, AtFollows
<1>5. I = 0 .. n - 1
  <2>1. \A i \in 0 .. N - 1 : i \in 0 .. N /\ (g[i] # NULL <=> i < n)
    BY <1>1, <1>2
  <2>2. I = {i \in 0 .. N - 1 : i < n}
    BY <2>1
  <2> HIDE DEF g, I
  <2>3. {i \in 0 .. N - 1 : i < n} = 0 .. n - 1
    BY <1>1
  <2> QED
    BY <2>2, <2>3
<1>6. Cardinality(I) = n
  <2>1. 0 \in Int /\ n - 1 \in Int
    OBVIOUS
  <2>2. Cardinality(0 .. n - 1) = IF 0 > n - 1 THEN 0 ELSE n - 1 - 0 + 1
    BY <2>1, FS_Interval
  <2> HIDE DEF I
  <2> QED
    BY <1>5, <2>2
<1>7. List(w, m) = [k \in 1 .. Cardinality(I) |-> g[k - 1]]
  <2> HIDE DEF g
  <2> QED
    BY <1>4, Zenon DEF List
<1>8. \A k \in 1 .. n : g[k - 1] = s[k]
  <2>1. \A k \in 1 .. n : k - 1 \in 0 .. N /\ k - 1 < n /\ k - 1 + 1 = k
    BY <1>1
  <2> QED
    BY <2>1
<1>9. g[N] = NULL
  BY <1>1
<1> HIDE DEF g, I
<1>10. List(w, m) = [k \in 1 .. n |-> s[k]]
  BY <1>6, <1>7, <1>8
<1> QED
  BY <1>4, <1>9, <1>10

-----------------------------------------------------------------------------
(* A list by priority, and one client less or more                          *)

Descending(n, s) == \A i, j \in 1 .. n : i < j => Priority[s[i]] >= Priority[s[j]]

Listed(w, m, X) ==
  \E n \in Nat : \E s \in [1 .. n -> Client] :
    Chain(w, m, n, s) /\ Descending(n, s) /\ Range(s) = X

\* s without its k-th element, and with c after its k-th element.
Dropped(n, s, k) == [i \in 1 .. n - 1 |-> IF i < k THEN s[i] ELSE s[i + 1]]

Inserted(n, s, k, c) ==
  [i \in 1 .. n + 1 |-> IF i <= k THEN s[i] ELSE IF i = k + 1 THEN c ELSE s[i - 1]]

\* What leaves a list in order.
LEMMA Without ==
  ASSUME NEW n \in Nat, NEW s \in [1 .. n -> Client], NEW k \in 1 .. n,
         \A i, j \in 1 .. n : s[i] = s[j] => i = j, Descending(n, s)
  PROVE  LET t == Dropped(n, s, k) IN
         /\ t \in [1 .. n - 1 -> Client] /\ Descending(n - 1, t)
         /\ \A i, j \in 1 .. n - 1 : t[i] = t[j] => i = j
         /\ Range(t) = Range(s) \ {s[k]}
<1> DEFINE t == Dropped(n, s, k)
<1>1. \A i \in 1 .. n - 1 : i \in 1 .. n /\ i + 1 \in 1 .. n
  OBVIOUS
<1>2. \A i \in 1 .. n - 1 : t[i] = IF i < k THEN s[i] ELSE s[i + 1]
  BY DEF Dropped
<1>3. t \in [1 .. n - 1 -> Client] /\ DOMAIN t = 1 .. n - 1
  BY <1>1 DEF Dropped
<1> HIDE DEF t
<1>4. Descending(n - 1, t)
  <2> SUFFICES ASSUME NEW i \in 1 .. n - 1, NEW j \in 1 .. n - 1, i < j
               PROVE  Priority[t[i]] >= Priority[t[j]]
    BY DEF Descending
  <2>1. PICK a \in 1 .. n, b \in 1 .. n : a < b /\ t[i] = s[a] /\ t[j] = s[b]
    <3>1. CASE j < k
      BY <1>1, <1>2, <3>1
    <3>2. CASE ~ j < k /\ i < k
      <4>1. t[i] = s[i] /\ t[j] = s[j + 1] /\ i < j + 1
        BY <1>2, <3>2
      <4> QED
        BY <1>1, <4>1
    <3>3. CASE ~ j < k /\ ~ i < k
      <4>1. t[i] = s[i + 1] /\ t[j] = s[j + 1] /\ i + 1 < j + 1
        BY <1>2, <3>3
      <4> QED
        BY <1>1, <4>1
    <3> QED
      BY <3>1, <3>2, <3>3
  <2> QED
    BY <2>1 DEF Descending
<1>5. \A i, j \in 1 .. n - 1 : t[i] = t[j] => i = j
  BY <1>1, <1>2
<1>6. Range(t) = Range(s) \ {s[k]}
  <2>1. ASSUME NEW i \in 1 .. n - 1 PROVE t[i] \in Range(s) /\ t[i] # s[k]
    <3>1. PICK j \in 1 .. n : t[i] = s[j] /\ j # k
      BY <1>1, <1>2
    <3> QED
      BY <3>1 DEF Range
  <2>2. ASSUME NEW j \in 1 .. n, j # k PROVE s[j] \in Range(t)
    <3>1. CASE j < k
      <4>1. j \in 1 .. n - 1 /\ t[j] = s[j]
        BY <1>2, <3>1
      <4> QED
        BY <1>3, <4>1 DEF Range
    <3>2. CASE ~ j < k
      <4>1. j - 1 \in 1 .. n - 1 /\ ~ j - 1 < k /\ j - 1 + 1 = j
        BY <2>2, <3>2
      <4>2. t[j - 1] = s[j]
        BY <1>2, <4>1
      <4> QED
        BY <1>3, <4>1, <4>2 DEF Range
    <3> QED
      BY <3>1, <3>2
  <2>3. \A x \in Range(t) : x \in Range(s) /\ x # s[k]
    BY <1>3, <2>1 DEF Range
  <2>4. \A x \in Range(s) : x # s[k] => x \in Range(t)
    BY <2>2 DEF Range
  <2> QED
    BY <2>3, <2>4
<1> QED
  BY <1>3, <1>4, <1>5, <1>6 DEF t

LEMMA With ==
  ASSUME NEW n \in Nat, NEW s \in [1 .. n -> Client], NEW k \in 0 .. n,
         \A i, j \in 1 .. n : s[i] = s[j] => i = j, Descending(n, s),
         NEW c \in Client, c \notin Range(s),
         \A i \in 1 .. k : Priority[s[i]] >= Priority[c],
         \A i \in k + 1 .. n : Priority[c] >= Priority[s[i]]
  PROVE  LET t == Inserted(n, s, k, c) IN
         /\ t \in [1 .. n + 1 -> Client] /\ Descending(n + 1, t)
         /\ \A i, j \in 1 .. n + 1 : t[i] = t[j] => i = j
         /\ Range(t) = Range(s) \cup {c}
<1> DEFINE t == Inserted(n, s, k, c)
<1>1. /\ \A i \in 1 .. k : i \in 1 .. n /\ i \in 1 .. n + 1 /\ t[i] = s[i]
      /\ k + 1 \in 1 .. n + 1 /\ t[k + 1] = c
      /\ \A i \in k + 2 .. n + 1 : i - 1 \in k + 1 .. n /\ i - 1 \in 1 .. n /\ t[i] = s[i - 1]
  BY DEF Inserted
<1>2. \A i \in 1 .. n + 1 : i \in 1 .. k \/ i = k + 1 \/ i \in k + 2 .. n + 1
  OBVIOUS
<1>3. t \in [1 .. n + 1 -> Client] /\ DOMAIN t = 1 .. n + 1
  BY <1>1, <1>2 DEF Inserted
<1> HIDE DEF t
<1>4. \A i \in 1 .. n : s[i] # c
  BY DEF Range
<1>5. \A i, j \in 1 .. n + 1 : t[i] = t[j] => i = j
  <2> DEFINE at == [i \in 1 .. n + 1 |-> IF i <= k THEN i ELSE i - 1]
  <2>1. \A i \in 1 .. n + 1 : i # k + 1 => at[i] \in 1 .. n /\ t[i] = s[at[i]]
    BY <1>1, <1>2
  <2>2. \A i, j \in 1 .. n + 1 : i # k + 1 /\ j # k + 1 /\ at[i] = at[j] => i = j
    OBVIOUS
  <2> HIDE DEF at
  <2>3. \A i \in 1 .. n + 1 : i # k + 1 => t[i] # c
    BY <1>4, <2>1
  <2>4. \A i, j \in 1 .. n + 1 : i # k + 1 /\ j # k + 1 /\ t[i] = t[j] => i = j
    BY <2>1, <2>2
  <2>5. \A i \in 1 .. n + 1 : i = k + 1 => t[i] = c
    BY <1>1
  <2> QED
    BY <2>3, <2>4, <2>5
<1>6. Descending(n + 1, t)
  <2> SUFFICES ASSUME NEW i \in 1 .. n + 1, NEW j \in 1 .. n + 1, i < j
               PROVE  Priority[t[i]] >= Priority[t[j]]
    BY DEF Descending
  <2>1. CASE i = k + 1
    <3>1. j \in k + 2 .. n + 1
      BY <2>1
    <3> QED
      BY <1>1, <2>1, <3>1
  <2>2. CASE j = k + 1
    <3>1. i \in 1 .. k
      BY <2>2
    <3> QED
      BY <1>1, <2>2, <3>1
  <2>3. CASE i # k + 1 /\ j # k + 1
    <3>1. PICK a \in 1 .. n, b \in 1 .. n : a < b /\ t[i] = s[a] /\ t[j] = s[b]
      <4>1. CASE i \in 1 .. k /\ j \in 1 .. k
        BY <1>1, <4>1
      <4>2. CASE i \in 1 .. k /\ j \in k + 2 .. n + 1
        <5>1. i < j - 1
          BY <4>2
        <5> QED
          BY <1>1, <4>2, <5>1
      <4>3. CASE i \in k + 2 .. n + 1 /\ j \in k + 2 .. n + 1
        <5>1. i - 1 < j - 1
          BY <4>3
        <5> QED
          BY <1>1, <4>3, <5>1
      <4> QED
        BY <1>2, <2>3, <4>1, <4>2, <4>3
    <3> QED
      BY <3>1 DEF Descending
  <2> QED
    BY <2>1, <2>2, <2>3
<1>7. Range(t) = Range(s) \cup {c}
  <2>1. \A i \in 1 .. n + 1 : t[i] \in Range(s) \cup {c}
    BY <1>1, <1>2 DEF Range
  <2>2. c \in Range(t)
    BY <1>1, <1>3 DEF Range
  <2>3. ASSUME NEW i \in 1 .. n PROVE s[i] \in Range(t)
    <3>1. CASE i <= k
      <4>1. i \in 1 .. n + 1 /\ t[i] = s[i]
        BY <1>1, <3>1
      <4> QED
        BY <1>3, <4>1 DEF Range
    <3>2. CASE ~ i <= k
      <4>1. i + 1 \in k + 2 .. n + 1 /\ i + 1 \in 1 .. n + 1 /\ i + 1 - 1 = i
        BY <3>2
      <4>2. t[i + 1] = s[i]
        BY <1>1, <4>1
      <4> QED
        BY <1>3, <4>1, <4>2 DEF Range
    <3> QED
      BY <3>1, <3>2
  <2>4. \A x \in Range(t) : x \in Range(s) \cup {c}
    BY <1>3, <2>1 DEF Range
  <2>5. \A x \in Range(s) : x \in Range(t)
    BY <2>3 DEF Range
  <2> QED
    BY <2>2, <2>4, <2>5
<1> QED
  BY <1>3, <1>5, <1>6, <1>7 DEF t

-----------------------------------------------------------------------------
(* The lists where no window floats                                         *)

On(w, m) == {d \in Client : w.mon[d] = m}

Lists(w) == \A m \in Mon : Listed(w, m, On(w, m))

ListsBut(w, c) == \A m \in Mon : Listed(w, m, On(w, m) \ {c})

\* No window floats, and the links can be followed.
Plain(w) ==
  /\ setup \in Setups /\ NULL \notin Mon
  /\ Shape(w) /\ w.floating = {} /\ w.fullscreen = {}
  /\ w.mon \in [Client -> Mon \cup {NULL}] /\ Managed(w) \subseteq setup.windows
  /\ w.head = [m \in Mon |-> w.head[m]] /\ w.next = [c \in Client |-> w.next[c]]

\* A list depends on its head and on the links of its own clients.
LEMMA ListedFrame ==
  ASSUME NEW w, NEW v, NEW m, NEW X, Listed(w, m, X), v.head[m] = w.head[m],
         \A d \in X : v.next[d] = w.next[d]
  PROVE  Listed(v, m, X)
<1>1. PICK n \in Nat : \E s \in [1 .. n -> Client] :
        Chain(w, m, n, s) /\ Descending(n, s) /\ Range(s) = X
  BY DEF Listed
<1>2. PICK s \in [1 .. n -> Client] : Chain(w, m, n, s) /\ Descending(n, s) /\ Range(s) = X
  BY <1>1
<1>3. \A i \in 1 .. n : s[i] \in X
  BY <1>2 DEF Range
<1>4. Chain(v, m, n, s)
  BY <1>2, <1>3 DEF Chain
<1> QED
  BY <1>2, <1>4 DEF Listed

\* A list as it is read.
LEMMA ListOf ==
  ASSUME NEW w, NEW m, NEW X, setup \in Setups, Listed(w, m, X), X \subseteq setup.windows
  PROVE  \E n \in Nat : \E s \in [1 .. n -> Client] :
           /\ Chain(w, m, n, s) /\ Descending(n, s) /\ Range(s) = X
           /\ List(w, m) = s /\ At(w, m)[Cardinality(setup.windows)] = NULL
<1>1. PICK n \in Nat : \E s \in [1 .. n -> Client] :
        Chain(w, m, n, s) /\ Descending(n, s) /\ Range(s) = X
  BY DEF Listed
<1>2. PICK s \in [1 .. n -> Client] : Chain(w, m, n, s) /\ Descending(n, s) /\ Range(s) = X
  BY <1>1
<1>3. IsFiniteSet(setup.windows)
  BY SetupAssumption, ClientAssumption, FS_Subset
<1>4. s \in Injection(1 .. n, setup.windows)
  <2>1. \A i \in 1 .. n : s[i] \in setup.windows
    BY <1>2 DEF Range
  <2>2. s \in [1 .. n -> setup.windows]
    BY <2>1
  <2> QED
    BY <1>2, <2>2 DEF Injection, IsInjective, Chain
<1>5. Cardinality(1 .. n) <= Cardinality(setup.windows)
  BY <1>3, <1>4, FS_Injection
<1>6. Cardinality(1 .. n) = n
  <2>1. 1 \in Int /\ n \in Int
    OBVIOUS
  <2>2. Cardinality(1 .. n) = IF 1 > n THEN 0 ELSE n - 1 + 1
    BY <2>1, FS_Interval
  <2> QED
    BY <2>2
<1>7. List(w, m) = s /\ At(w, m)[Cardinality(setup.windows)] = NULL
  BY <1>2, <1>5, <1>6, ListIs
<1> QED
  BY <1>2, <1>7

\* detach() takes its client out, and leaves the other lists as they are.
LEMMA DetachLists ==
  ASSUME NEW w, Plain(w), Lists(w), NEW c \in Managed(w)
  PROVE  Plain(Detach(w, c)) /\ ListsBut(Detach(w, c), c) /\ Detach(w, c).mon = w.mon
<1> DEFINE m == w.mon[c]
           v == Detach(w, c)
<1>1. m \in Mon /\ c \in Client /\ On(w, m) \subseteq setup.windows
  BY DEF Plain, Managed, On
<1>2. Listed(w, m, On(w, m))
  BY <1>1 DEF Lists
<1> HIDE DEF m
<1>3. PICK n \in Nat : \E s \in [1 .. n -> Client] :
        /\ Chain(w, m, n, s) /\ Descending(n, s) /\ Range(s) = On(w, m) /\ List(w, m) = s
  BY <1>1, <1>2, ListOf DEF Plain
<1>4. PICK s \in [1 .. n -> Client] :
        /\ Chain(w, m, n, s) /\ Descending(n, s) /\ Range(s) = On(w, m) /\ List(w, m) = s
  BY <1>3
<1>5. PICK k \in 1 .. n : s[k] = c
  BY <1>1, <1>4 DEF On, Range, m
<1>6. \A i, j \in 1 .. n : s[i] = s[j] => i = j
  BY <1>4 DEF Chain
<1> DEFINE before == {i \in 1 .. n : i + 1 \in 1 .. n /\ s[i + 1] = c}
<1>7. v = IF before = {} THEN [w EXCEPT !.head[m] = w.next[c]]
          ELSE [w EXCEPT !.next[s[CHOOSE i \in before : TRUE]] = w.next[c]]
  <2>1. c \in Range(s) /\ DOMAIN s = 1 .. n
    BY <1>5 DEF Range
  <2> QED
    BY <1>4, <2>1, Zenon DEF Detach, m
<1>8. IF k = 1 THEN before = {} ELSE before = {k - 1}
  <2>1. \A i \in before : i = k - 1
    BY <1>5, <1>6
  <2>2. k # 1 => k - 1 \in before
    BY <1>5
  <2>3. k = 1 => before = {}
    BY <2>1
  <2> HIDE DEF before
  <2> QED
    BY <2>1, <2>2, <2>3
<1>9. v = IF k = 1 THEN [w EXCEPT !.head[m] = w.next[c]]
          ELSE [w EXCEPT !.next[s[k - 1]] = w.next[c]]
  <2> HIDE DEF v, before
  <2> QED
    BY <1>7, <1>8
<1> HIDE DEF v, before
<1>10. /\ Shape(v) /\ v.mon = w.mon /\ v.floating = w.floating /\ v.fullscreen = w.fullscreen
       /\ v.head = IF k = 1 THEN [w.head EXCEPT ![m] = w.next[c]] ELSE w.head
       /\ v.next = IF k = 1 THEN w.next ELSE [w.next EXCEPT ![s[k - 1]] = w.next[c]]
  BY <1>9 DEF Plain, Shape, Fields
<1>11. Plain(v)
  <2>1. /\ v.head = [n2 \in Mon |-> v.head[n2]] /\ v.next = [d \in Client |-> v.next[d]]
    BY <1>1, <1>10 DEF Plain
  <2> QED
    BY <1>10, <2>1 DEF Plain, Managed
<1> DEFINE t == Dropped(n, s, k)
<1>12. /\ t \in [1 .. n - 1 -> Client] /\ Descending(n - 1, t)
       /\ \A i, j \in 1 .. n - 1 : t[i] = t[j] => i = j
       /\ Range(t) = Range(s) \ {s[k]}
  BY <1>4, <1>6, Without
<1>12a. \A i \in 1 .. n - 1 : t[i] = IF i < k THEN s[i] ELSE s[i + 1]
  BY DEF Dropped
<1> HIDE DEF t
<1>13. Chain(v, m, n - 1, t)
  <2>1. /\ w.head[m] = s[1]
        /\ \A i \in 1 .. n : w.next[s[i]] = IF i = n THEN NULL ELSE s[i + 1]
    BY <1>4 DEF Chain
  <2>2. \A i \in 1 .. n : s[i] \in Client
    OBVIOUS
  <2>3. v.head[m] = IF n - 1 = 0 THEN NULL ELSE t[1]
    <3>1. CASE k = 1
      <4>1. v.head[m] = IF n = 1 THEN NULL ELSE s[2]
        <5>1. w.next[c] = IF n = 1 THEN NULL ELSE s[2]
          BY <1>5, <2>1, <3>1
        <5> QED
          BY <1>1, <1>10, <3>1, <5>1 DEF Plain
      <4> QED
        BY <1>5, <1>12a, <3>1, <4>1
    <3>2. CASE k # 1
      <4>1. v.head[m] = s[1]
        BY <1>10, <2>1, <3>2
      <4> QED
        BY <1>5, <1>12a, <3>2, <4>1
    <3> QED
      BY <3>1, <3>2
  <2>4. ASSUME NEW i \in 1 .. n - 1
        PROVE  v.next[t[i]] = IF i = n - 1 THEN NULL ELSE t[i + 1]
    <3>0. i \in 1 .. n /\ i + 1 \in 1 .. n /\ k - 1 \in 0 .. n
      OBVIOUS
    <3>1. CASE i >= k
      <4>1. t[i] = s[i + 1] /\ (i # n - 1 => t[i + 1] = s[i + 1 + 1])
        BY <1>12a, <3>1
      <4>2. v.next[s[i + 1]] = w.next[s[i + 1]]
        <5>1. k # 1 => s[i + 1] # s[k - 1]
          BY <1>6, <3>0, <3>1
        <5> QED
          BY <1>10, <2>2, <3>0, <5>1 DEF Plain
      <4>3. w.next[s[i + 1]] = IF i + 1 = n THEN NULL ELSE s[i + 1 + 1]
        BY <2>1, <3>0
      <4> QED
        BY <4>1, <4>2, <4>3
    <3>2. CASE i = k - 1
      <4>1. t[i] = s[k - 1] /\ (i # n - 1 => t[i + 1] = s[k + 1])
        BY <1>12a, <3>2
      <4>2. v.next[s[k - 1]] = w.next[s[k]]
        BY <1>5, <1>10, <2>2, <3>0, <3>2 DEF Plain
      <4>3. w.next[s[k]] = IF k = n THEN NULL ELSE s[k + 1]
        BY <2>1
      <4> QED
        BY <3>2, <4>1, <4>2, <4>3
    <3>3. CASE i < k - 1
      <4>1. t[i] = s[i] /\ t[i + 1] = s[i + 1] /\ i # n - 1 /\ i # n
        BY <1>12a, <3>3
      <4>2. v.next[s[i]] = w.next[s[i]]
        <5>1. k # 1 => s[i] # s[k - 1]
          BY <1>6, <3>0, <3>3
        <5> QED
          BY <1>10, <2>2, <3>0, <5>1 DEF Plain
      <4>3. w.next[s[i]] = s[i + 1]
        BY <2>1, <3>0, <4>1
      <4> QED
        BY <4>1, <4>2, <4>3
    <3> QED
      BY <3>1, <3>2, <3>3
  <2> QED
    BY <1>12, <2>3, <2>4 DEF Chain
<1>14. Listed(v, m, On(v, m) \ {c})
  <2>1. Range(t) = On(v, m) \ {c}
    BY <1>4, <1>5, <1>10, <1>12 DEF On
  <2>2. n - 1 \in Nat
    BY <1>5
  <2> QED
    BY <1>12, <1>13, <2>1, <2>2 DEF Listed
<1>15. ASSUME NEW o \in Mon, o # m PROVE Listed(v, o, On(v, o) \ {c})
  <2>1. On(v, o) \ {c} = On(w, o) /\ Listed(w, o, On(w, o))
    BY <1>1, <1>10, <1>15 DEF On, Lists, m
  <2>2. v.head[o] = w.head[o]
    BY <1>10, <1>15 DEF Plain
  <2>3. \A d \in On(w, o) : v.next[d] = w.next[d]
    <3>1. ASSUME NEW d \in On(w, o), k # 1 PROVE d # s[k - 1]
      <4>1. s[k - 1] \in On(w, m)
        BY <1>4, <3>1 DEF Range
      <4> QED
        BY <1>15, <4>1 DEF On
    <3> QED
      BY <1>10, <3>1 DEF Plain, On
  <2> QED
    BY <2>1, <2>2, <2>3, ListedFrame
<1> QED
  BY <1>10, <1>11, <1>14, <1>15 DEF ListsBut, v

\* Where attachbypriority() stops.
AttachedAfter(v, w, c, n, s, k) ==
  /\ \A i \in 1 .. k : Priority[s[i]] >= Priority[c]
  /\ \A i \in k + 1 .. n : Priority[c] >= Priority[s[i]]
  /\ v = IF k = 0 THEN Attach(w, c)
         ELSE LinkAfter(w, s[k], c, IF k = n THEN NULL ELSE w.next[s[k]])

LEMMA AttachByPriorityAt ==
  ASSUME NEW w, NEW c, NEW afterIfEqual \in BOOLEAN, NEW n \in Nat,
         w.floating = {}, w.fullscreen = {}, List(w, w.mon[c]) \in [1 .. n -> Client],
         c \in Client, c \notin Range(List(w, w.mon[c])), Descending(n, List(w, w.mon[c]))
  PROVE  \E k \in 0 .. n :
           AttachedAfter(AttachByPriority(w, c, afterIfEqual), w, c, n, List(w, w.mon[c]), k)
<1> DEFINE s == List(w, w.mon[c])
           tiled == {i \in DOMAIN s : s[i] \notin w.floating \cup w.fullscreen /\ s[i] # c}
           lower == {i \in tiled : \/ Priority[c] > Priority[s[i]]
                                   \/ Priority[c] = Priority[s[i]] /\ ~afterIfEqual}
           stops == IF lower = {} THEN tiled
                    ELSE {i \in tiled : \A j \in lower : i < j}
           last == CHOOSE i \in stops : \A j \in stops : j <= i
           out == AttachByPriority(w, c, afterIfEqual)
<1>1a. out = IF c \in w.floating \cup w.fullscreen \/ stops = {} THEN Attach(w, c)
            ELSE LinkAfter(w, s[last], c, IF lower = {} THEN NULL ELSE w.next[s[last]])
  BY Zenon DEF AttachByPriority
<1>1. out = IF stops = {} THEN Attach(w, c)
            ELSE LinkAfter(w, s[last], c, IF lower = {} THEN NULL ELSE w.next[s[last]])
  <2>1. c \notin w.floating \cup w.fullscreen
    OBVIOUS
  <2> HIDE DEF out, stops, s, last, lower
  <2> QED
    BY <1>1a, <2>1
<1>0. /\ s \in [1 .. n -> Client] /\ c \notin Range(s) /\ Descending(n, s)
  OBVIOUS
<1> HIDE DEF s, out
<1>2. tiled = 1 .. n
  BY <1>0 DEF Range
<1>3. \A i \in 1 .. n : Priority[s[i]] \in Nat /\ Priority[c] \in Nat
  BY <1>0, PriorityAssumption
<1>4. PICK k \in 0 .. n : stops = 1 .. k /\ (lower = {} => k = n)
                          /\ (lower # {} => k + 1 \in lower)
  <2>1. CASE lower = {}
    <3>1. stops = 1 .. n
      BY <1>2, <2>1
    <3> HIDE DEF stops, lower
    <3> QED
      BY <2>1, <3>1
  <2>2. CASE lower # {}
    <3>1. lower \subseteq 1 .. n /\ lower \subseteq Nat
      BY <1>2
    <3>2. PICK f \in lower : \A j \in lower : f <= j
      <4> HIDE DEF lower
      <4> QED
        BY <2>2, <3>1, Smallest
    <3>3. stops = {i \in 1 .. n : \A j \in lower : i < j}
      BY <1>2, <2>2
    <3>4. f - 1 \in 0 .. n /\ f - 1 + 1 = f /\ f \in 1 .. n
      BY <3>1, <3>2
    <3> HIDE DEF lower, stops, tiled
    <3>5. \A i \in 1 .. n : (\A j \in lower : i < j) <=> i \in 1 .. f - 1
      BY <3>1, <3>2, <3>4
    <3>6. stops = 1 .. f - 1
      BY <3>3, <3>4, <3>5
    <3> QED
      BY <2>2, <3>2, <3>4, <3>6
  <2> QED
    BY <2>1, <2>2
<1>5. \A i \in 1 .. k : Priority[s[i]] >= Priority[c]
  <2> SUFFICES ASSUME NEW i \in 1 .. k PROVE Priority[s[i]] >= Priority[c]
    OBVIOUS
  <2>1. i \in 1 .. n /\ i \notin lower
    <3>1. i \in 1 .. n /\ i \in stops
      <4> HIDE DEF stops, lower
      <4> QED
        BY <1>4
    <3>2. i \in lower => \A j \in lower : i < j
      BY <3>1
    <3> HIDE DEF lower
    <3> QED
      BY <3>1, <3>2
  <2>2. i \in tiled
    BY <1>2, <2>1
  <2>3. ~ Priority[c] > Priority[s[i]]
    BY <2>1, <2>2
  <2> QED
    BY <1>3, <2>1, <2>3
<1>6. \A i \in k + 1 .. n : Priority[c] >= Priority[s[i]]
  <2> SUFFICES ASSUME NEW i \in k + 1 .. n PROVE Priority[c] >= Priority[s[i]]
    OBVIOUS
  <2>1. k + 1 \in lower /\ i \in 1 .. n /\ k + 1 \in 1 .. n
    BY <1>4
  <2>2. Priority[c] >= Priority[s[k + 1]]
    BY <1>3, <2>1
  <2>3. Priority[s[k + 1]] >= Priority[s[i]]
    BY <1>0, <1>3, <2>1 DEF Descending
  <2> QED
    BY <1>3, <2>1, <2>2, <2>3
<1>7. k # 0 => last = k
  <2> HIDE DEF stops
  <2>1. k # 0 => k \in stops /\ \A i \in stops : i <= k
    BY <1>4
  <2>2. stops \subseteq Int
    BY <1>4
  <2> QED
    <3> SUFFICES ASSUME k # 0 PROVE last = k
      OBVIOUS
    <3>1. last \in stops /\ \A j \in stops : j <= last
      BY <2>1
    <3>2. k <= last /\ last <= k /\ last \in Int
      BY <2>1, <2>2, <3>1
    <3> HIDE DEF last
    <3> QED
      BY <3>2
<1>8. (lower = {}) <=> k = n
  <2>1. lower \subseteq 1 .. n
    BY <1>2
  <2> HIDE DEF lower
  <2> QED
    BY <1>4, <2>1
<1>9. (stops = {}) <=> k = 0
  <2> HIDE DEF stops
  <2> QED
    BY <1>4
<1>10. out = IF k = 0 THEN Attach(w, c)
             ELSE LinkAfter(w, s[k], c, IF k = n THEN NULL ELSE w.next[s[k]])
  <2> HIDE DEF out, stops, last, lower
  <2> QED
    BY <1>1, <1>7, <1>8, <1>9
<1>11. AttachedAfter(out, w, c, n, s, k)
  BY <1>5, <1>6, <1>10 DEF AttachedAfter
<1> QED
  BY <1>11 DEF s, out

\* attachbypriority() puts its client in, in its place by priority.
LEMMA AttachLists ==
  ASSUME NEW w, NEW c \in Managed(w), Plain(w), ListsBut(w, c), NEW afterIfEqual \in BOOLEAN
  PROVE  /\ Plain(AttachByPriority(w, c, afterIfEqual))
         /\ Lists(AttachByPriority(w, c, afterIfEqual))
         /\ AttachByPriority(w, c, afterIfEqual).mon = w.mon
<1> DEFINE m == w.mon[c]
           v == AttachByPriority(w, c, afterIfEqual)
<1>1. m \in Mon /\ c \in Client /\ On(w, m) \ {c} \subseteq setup.windows
  BY DEF Plain, Managed, On
<1>2. Listed(w, m, On(w, m) \ {c})
  BY <1>1 DEF ListsBut
<1> HIDE DEF m
<1> DEFINE X == On(w, m) \ {c}
<1> HIDE DEF X
<1>3. PICK n \in Nat : \E s \in [1 .. n -> Client] :
        /\ Chain(w, m, n, s) /\ Descending(n, s) /\ Range(s) = X /\ List(w, m) = s
  <2>1. X \subseteq setup.windows /\ Listed(w, m, X)
    BY <1>1, <1>2 DEF X
  <2> QED
    BY <2>1, ListOf DEF Plain
<1>4. PICK s \in [1 .. n -> Client] :
        /\ Chain(w, m, n, s) /\ Descending(n, s) /\ Range(s) = On(w, m) \ {c}
        /\ List(w, m) = s
  BY <1>3 DEF X
<1>5. PICK k \in 0 .. n : AttachedAfter(v, w, c, n, s, k)
  <2>1. /\ List(w, w.mon[c]) = s /\ w.floating = {} /\ w.fullscreen = {}
        /\ c \notin Range(s) /\ Descending(n, s)
    BY <1>4 DEF m, Plain
  <2> QED
    BY <1>1, <2>1, AttachByPriorityAt
<1>5a. /\ \A i \in 1 .. k : Priority[s[i]] >= Priority[c]
       /\ \A i \in k + 1 .. n : Priority[c] >= Priority[s[i]]
       /\ v = IF k = 0 THEN Attach(w, c)
              ELSE LinkAfter(w, s[k], c, IF k = n THEN NULL ELSE w.next[s[k]])
  BY <1>5 DEF AttachedAfter
<1>6. /\ \A i, j \in 1 .. n : s[i] = s[j] => i = j
      /\ \A i \in 1 .. n : s[i] \in Client /\ s[i] # c
  <2>1. \A i \in 1 .. n : s[i] \in Range(s)
    BY DEF Range
  <2>2. \A i \in 1 .. n : s[i] # c
    BY <1>4, <2>1
  <2> QED
    BY <1>4, <2>2 DEF Chain
<1> HIDE DEF v
<1> DEFINE rest == IF k = n THEN NULL ELSE w.next[s[k]]
<1>7. /\ Shape(v) /\ v.mon = w.mon /\ v.floating = w.floating /\ v.fullscreen = w.fullscreen
      /\ v.head = IF k = 0 THEN [w.head EXCEPT ![m] = c] ELSE w.head
      /\ v.next = IF k = 0 THEN [w.next EXCEPT ![c] = w.head[m]]
                  ELSE [w.next EXCEPT ![c] = rest, ![s[k]] = c]
  <2>1. CASE k = 0
    <3>1. v = [w EXCEPT !.next[c] = w.head[m], !.head[m] = c]
      BY <1>5a, <2>1 DEF Attach, m
    <3> QED
      BY <2>1, <3>1 DEF Plain, Shape, Fields
  <2>2. CASE k # 0
    <3>1. v = [w EXCEPT !.next[c] = rest, !.next[s[k]] = c]
      BY <1>5a, <2>2 DEF LinkAfter
    <3> HIDE DEF rest
    <3> QED
      BY <2>2, <3>1 DEF Plain, Shape, Fields
  <2> QED
    BY <2>1, <2>2
<1>8. Plain(v)
  <2>1. /\ v.head = [o \in Mon |-> v.head[o]] /\ v.next = [d \in Client |-> v.next[d]]
    BY <1>1, <1>7 DEF Plain
  <2> QED
    BY <1>7, <2>1 DEF Plain, Managed
<1>9. /\ \A d \in Client : d # c /\ (k # 0 => d # s[k]) => v.next[d] = w.next[d]
      /\ k # 0 => v.next[s[k]] = c /\ v.next[c] = rest /\ v.head[m] = w.head[m]
      /\ k = 0 => v.next[c] = w.head[m] /\ v.head[m] = c
  <2>1. k # 0 => s[k] \in Client /\ s[k] # c
    BY <1>6
  <2> HIDE DEF rest
  <2> QED
    BY <1>1, <1>7, <2>1 DEF Plain
<1> DEFINE t == Inserted(n, s, k, c)
<1>10. /\ t \in [1 .. n + 1 -> Client] /\ Descending(n + 1, t)
       /\ \A i, j \in 1 .. n + 1 : t[i] = t[j] => i = j
       /\ Range(t) = Range(s) \cup {c}
  <2>1. c \notin Range(s)
    BY <1>4
  <2> QED
    BY <1>1, <1>4, <1>5a, <1>6, <2>1, With
<1>11. \A i \in 1 .. n + 1 :
         t[i] = IF i <= k THEN s[i] ELSE IF i = k + 1 THEN c ELSE s[i - 1]
  BY DEF Inserted
<1> HIDE DEF t
<1>12. Chain(v, m, n + 1, t)
  <2>1. /\ w.head[m] = IF n = 0 THEN NULL ELSE s[1]
        /\ \A i \in 1 .. n : w.next[s[i]] = IF i = n THEN NULL ELSE s[i + 1]
    BY <1>4 DEF Chain
  <2>2. v.head[m] = IF n + 1 = 0 THEN NULL ELSE t[1]
    <3>1. t[1] = IF k = 0 THEN c ELSE s[1]
      BY <1>11
    <3> QED
      BY <1>9, <2>1, <3>1
  <2>3. ASSUME NEW i \in 1 .. n + 1
        PROVE  v.next[t[i]] = IF i = n + 1 THEN NULL ELSE t[i + 1]
    <3>1. CASE i < k
      <4>1. i \in 1 .. n /\ i + 1 <= k /\ i # n /\ i # n + 1 /\ k \in 1 .. n
        BY <3>1
      <4>2. t[i] = s[i] /\ t[i + 1] = s[i + 1]
        BY <1>11, <4>1
      <4>3. s[i] # s[k]
        BY <1>6, <3>1, <4>1
      <4>4. v.next[s[i]] = w.next[s[i]]
        BY <1>6, <1>9, <4>1, <4>3
      <4> QED
        BY <2>1, <4>1, <4>2, <4>4
    <3>2. CASE i = k
      <4>1. t[k] = s[k] /\ t[k + 1] = c /\ k # 0 /\ k # n + 1
        BY <1>11, <3>2
      <4> QED
        BY <1>9, <3>2, <4>1
    <3>3. CASE i = k + 1
      <4>1. t[k + 1] = c /\ (k # n => t[k + 1 + 1] = s[k + 1])
        BY <1>11
      <4>2. v.next[c] = IF k = n THEN NULL ELSE s[k + 1]
        <5>1. CASE k = 0
          BY <1>9, <2>1, <5>1
        <5>2. CASE k # 0
          BY <1>9, <2>1, <5>2
        <5> QED
          BY <5>1, <5>2
      <4> QED
        BY <3>3, <4>1, <4>2
    <3>4. CASE i > k + 1
      <4>1. i - 1 \in 1 .. n /\ i - 1 # k /\ i - 1 + 1 = i
        BY <3>4
      <4>2. t[i] = s[i - 1] /\ (i # n + 1 => t[i + 1] = s[i])
        BY <1>11, <3>4
      <4>3. k # 0 => s[i - 1] # s[k]
        BY <1>6, <4>1
      <4>4. v.next[s[i - 1]] = w.next[s[i - 1]]
        BY <1>6, <1>9, <4>1, <4>3
      <4>5. w.next[s[i - 1]] = IF i - 1 = n THEN NULL ELSE s[i]
        BY <2>1, <4>1
      <4>6. i - 1 = n <=> i = n + 1
        BY <4>1
      <4> QED
        BY <4>2, <4>4, <4>5, <4>6
    <3> QED
      BY <3>1, <3>2, <3>3, <3>4
  <2> QED
    BY <1>10, <2>2, <2>3 DEF Chain
<1>13. Listed(v, m, On(v, m))
  <2>1. Range(t) = On(v, m)
    BY <1>1, <1>4, <1>7, <1>10 DEF On, m
  <2>2. n + 1 \in Nat
    OBVIOUS
  <2> QED
    BY <1>10, <1>12, <2>1, <2>2 DEF Listed
<1>14. ASSUME NEW o \in Mon, o # m PROVE Listed(v, o, On(v, o))
  <2>1. On(v, o) = On(w, o) \ {c} /\ Listed(w, o, On(w, o) \ {c})
    BY <1>1, <1>7, <1>14 DEF On, ListsBut, m
  <2>2. v.head[o] = w.head[o]
    BY <1>7, <1>14 DEF Plain
  <2>3. ASSUME NEW d \in On(w, o) \ {c} PROVE v.next[d] = w.next[d]
    <3>1. k # 0 => d # s[k]
      <4> SUFFICES ASSUME k # 0 PROVE d # s[k]
        OBVIOUS
      <4>1. s[k] \in On(w, m)
        BY <1>4 DEF Range
      <4> QED
        BY <1>14, <4>1 DEF On
    <3> QED
      BY <1>9, <3>1 DEF On
  <2> QED
    BY <2>1, <2>2, <2>3, ListedFrame
<1> QED
  BY <1>7, <1>8, <1>13, <1>14 DEF Lists, v

\* v differs from w in nothing that the lists are made of.
Linked(v, w) ==
  /\ Shape(v) /\ v.head = w.head /\ v.next = w.next /\ v.mon = w.mon
  /\ v.floating = w.floating /\ v.fullscreen = w.fullscreen

LEMMA LinkedPlain ==
  ASSUME NEW w, NEW v, Plain(w), Linked(v, w)
  PROVE  Plain(v)
BY DEF Plain, Linked, Managed

LEMMA LinkedLists ==
  ASSUME NEW w, NEW v, Lists(w), Linked(v, w)
  PROVE  Lists(v)
<1> SUFFICES ASSUME NEW m \in Mon PROVE Listed(v, m, On(v, m))
  BY DEF Lists
<1>1. On(v, m) = On(w, m) /\ Listed(w, m, On(w, m)) /\ v.head[m] = w.head[m]
  BY DEF On, Lists, Linked
<1>2. \A d \in On(w, m) : v.next[d] = w.next[d]
  BY DEF Linked
<1> QED
  BY <1>1, <1>2, ListedFrame

LEMMA LinkedInOrder ==
  ASSUME NEW w, NEW v, Plain(w), Lists(w), Linked(v, w)
  PROVE  Plain(v) /\ Lists(v)
BY LinkedPlain, LinkedLists

\* Only c has moved.
LEMMA ListsButFrame ==
  ASSUME NEW w, NEW v, NEW c, ListsBut(w, c), v.head = w.head,
         \A d \in Client \ {c} : v.next[d] = w.next[d] /\ v.mon[d] = w.mon[d]
  PROVE  ListsBut(v, c)
<1> SUFFICES ASSUME NEW m \in Mon PROVE Listed(v, m, On(v, m) \ {c})
  BY DEF ListsBut
<1>1. On(v, m) \ {c} = On(w, m) \ {c} /\ Listed(w, m, On(w, m) \ {c})
  BY DEF On, ListsBut
<1>2. \A d \in On(w, m) \ {c} : v.next[d] = w.next[d]
  BY DEF On
<1> QED
  BY <1>1, <1>2, ListedFrame

\* A client on no monitor is in no list.
LEMMA ListsOfOthers ==
  ASSUME NEW w, NEW c, w.mon[c] = NULL, NULL \notin Mon
  PROVE  Lists(w) <=> ListsBut(w, c)
<1>1. \A m \in Mon : On(w, m) = On(w, m) \ {c}
  BY DEF On
<1> QED
  BY <1>1 DEF Lists, ListsBut

\* What works on the stacks, the focus and the urgency leaves the lists alone.
LEMMA Relinks ==
  ASSUME NEW w, NEW c, Shape(w)
  PROVE  /\ Linked(AttachStack(w, c), w) /\ Linked(DetachStack(w, c), w)
         /\ \A on : Linked(SetUrgent(w, c, on), w)
         /\ Linked(SetFocus(w, c), w) /\ \A ms : Linked(Arrange(w, ms), w)
<1>1. Linked(AttachStack(w, c), w)
  BY DEF Linked, Shape, Fields, AttachStack
<1>2. Linked(DetachStack(w, c), w)
  <2> DEFINE rest == [w EXCEPT !.stack[w.mon[c]] = RemoveFirst(@, c)]
  <2>1. Linked(rest, w)
    BY DEF Linked, Shape, Fields
  <2>2. DetachStack(w, c) \in
          {rest, [rest EXCEPT !.sel[w.mon[c]] = FirstVisible(rest, w.mon[c])]}
    BY DEF DetachStack
  <2> HIDE DEF rest
  <2>3. Linked([rest EXCEPT !.sel[w.mon[c]] = FirstVisible(rest, w.mon[c])], w)
    BY <2>1 DEF Linked, Shape, Fields
  <2> QED
    BY <2>1, <2>2, <2>3
<1>3. \A on : Linked(SetUrgent(w, c, on), w)
  BY DEF Linked, Shape, Fields, SetUrgent
<1>4. Linked(SetFocus(w, c), w)
  BY DEF Linked, Shape, Fields, SetFocus
<1>5. \A ms : Linked(Arrange(w, ms), w)
  BY DEF Linked, Shape, Fields, Arrange
<1> QED
  BY <1>1, <1>2, <1>3, <1>4, <1>5

LEMMA FocusLinked ==
  ASSUME NEW w, NEW c, Shape(w)
  PROVE  Linked(Focus(w, c), w)
<1> DEFINE target == IF c # NULL /\ Visible(w, c) THEN c ELSE FirstVisible(w, w.selmon)
           there == [w EXCEPT !.selmon = w.mon[target]]
           off == DetachStack(there, target)
           moved == AttachStack(off, target)
           calm == SetUrgent(moved, target, FALSE)
           stamped == SetFocus(calm, target)
<1>1. Focus(w, c) \in {[w EXCEPT !.sel[w.selmon] = NULL],
                       [stamped EXCEPT !.sel[moved.selmon] = target]}
  BY DEF Focus
<1> HIDE DEF target
<1>2. Linked(there, w)
  BY DEF Linked, Shape, Fields
<1> HIDE DEF there
<1>3. Linked(off, there)
  BY <1>2, Relinks DEF Linked
<1> HIDE DEF off
<1>4. Linked(moved, off)
  BY <1>3, Relinks DEF Linked
<1> HIDE DEF moved
<1>5. Linked(calm, moved)
  BY <1>4 DEF Linked, Shape, Fields, SetUrgent
<1> HIDE DEF calm
<1>6. Linked(stamped, calm)
  BY <1>5, Relinks DEF Linked
<1> HIDE DEF stamped
<1>7. Linked(stamped, w)
  BY <1>2, <1>3, <1>4, <1>5, <1>6 DEF Linked
<1>8. Linked([stamped EXCEPT !.sel[moved.selmon] = target], w)
  BY <1>7 DEF Linked, Shape, Fields
<1>9. Linked([w EXCEPT !.sel[w.selmon] = NULL], w)
  BY DEF Linked, Shape, Fields
<1> QED
  BY <1>1, <1>8, <1>9

\* How handlers end.
LEMMA ArrangeFocusLinked ==
  ASSUME NEW w, Shape(w), NEW c, NEW ms
  PROVE  /\ Linked(Arrange(Focus(w, c), ms), w)
         /\ Linked(Focus(Arrange(w, ms), c), w)
<1>1. Linked(Focus(w, c), w) /\ Linked(Arrange(w, ms), w)
  BY FocusLinked, Relinks
<1>2. Linked(Arrange(Focus(w, c), ms), Focus(w, c))
  BY <1>1, Relinks DEF Linked
<1>3. Linked(Focus(Arrange(w, ms), c), Arrange(w, ms))
  BY <1>1, FocusLinked DEF Linked
<1> QED
  BY <1>1, <1>2, <1>3 DEF Linked

-----------------------------------------------------------------------------
(* The handlers, and the lists                                              *)

ListsInv == NoFloats => Plain(wm) /\ Lists(wm)

LEMMA InitLists == ASSUME Init PROVE ListsInv
<1>1. /\ setup \in Setups /\ NULL \notin Mon /\ Shape(wm)
      /\ wm.head = [m \in Mon |-> NULL] /\ wm.next = [c \in Client |-> NULL]
      /\ wm.mon = [c \in Client |-> NULL] /\ wm.floating = {} /\ wm.fullscreen = {}
  BY MonOf DEF Init, Shape, Fields
<1>2. Plain(wm)
  <2>1. wm.head = [m \in Mon |-> wm.head[m]] /\ wm.next = [c \in Client |-> wm.next[c]]
    BY <1>1
  <2> QED
    BY <1>1, <2>1 DEF Plain, Managed
<1>3. ASSUME NEW m \in Mon PROVE Listed(wm, m, On(wm, m))
  <2>1. On(wm, m) = {} /\ wm.head[m] = NULL
    BY <1>1 DEF On
  <2> DEFINE s == [i \in 1 .. 0 |-> NULL]
  <2>2. s \in [1 .. 0 -> Client] /\ Range(s) = {}
    BY DEF Range
  <2>3. Chain(wm, m, 0, s) /\ Descending(0, s)
    BY <2>1 DEF Chain, Descending
  <2> QED
    BY <2>1, <2>2, <2>3 DEF Listed
<1> QED
  BY <1>2, <1>3 DEF ListsInv, Lists

LEMMA ManageLists ==
  ASSUME ClientsInv, NoFloats, Plain(wm), Lists(wm), NEW c \in setup.windows,
         NEW parent, Manage(c, parent)
  PROVE  Plain(wm') /\ Lists(wm')
<1> DEFINE dialog == parent # NULL /\ Found(wm, parent)
           m == IF dialog THEN wm.mon[parent] ELSE wm.selmon
           own == IF dialog THEN wm.tags[parent]
                  ELSE IF RuleTags[c] # {} THEN RuleTags[c] ELSE wm.tagset[m]
           floats == parent # NULL \/ c \in setup.ruleFloats
           made == [wm EXCEPT !.mon[c] = m, !.tags[c] = own,
                      !.floating = IF floats THEN @ \cup {c} ELSE @]
           hooked == SetUrgent(made, c, ~dialog /\ ~Visible(made, c))
           linked == AttachByPriority(hooked, c, TRUE)
           listed == AttachStack(linked, c)
           chosen == [listed EXCEPT !.sel[m] = c]
<1>1. wm' = Focus(Arrange(chosen, {m}), NULL)
  BY DEF Manage
<1>2. parent = NULL /\ ~floats /\ m = wm.selmon
  BY DEF Manage, NoFloats
<1>3. m \in Mon /\ m # NULL /\ c \in Client /\ wm.mon[c] = NULL
  BY <1>2, SetupAssumption DEF Manage, Plain, ClientsInv, InOrder, Typed
<1> HIDE DEF m, own, floats
<1>4. /\ Shape(made) /\ made.head = wm.head /\ made.next = wm.next
      /\ made.mon = [wm.mon EXCEPT ![c] = m]
      /\ made.floating = wm.floating /\ made.fullscreen = wm.fullscreen
  BY <1>2 DEF Plain, Shape, Fields
<1> HIDE DEF made
<1>5. Plain(made) /\ c \in Managed(made)
  BY <1>3, <1>4 DEF Plain, Managed
<1>6. ListsBut(made, c)
  <2>1. ListsBut(wm, c)
    BY <1>3, ListsOfOthers DEF Plain
  <2>2. \A d \in Client \ {c} : made.next[d] = wm.next[d] /\ made.mon[d] = wm.mon[d]
    BY <1>4 DEF Plain
  <2> QED
    BY <1>4, <2>1, <2>2, ListsButFrame
<1>7. Linked(hooked, made)
  BY <1>5 DEF Linked, Plain, Shape, Fields, SetUrgent
<1> HIDE DEF hooked
<1>8. Plain(hooked) /\ ListsBut(hooked, c) /\ c \in Managed(hooked)
  <2>1. Plain(hooked) /\ c \in Managed(hooked)
    BY <1>5, <1>7, LinkedPlain DEF Linked, Managed
  <2>2. ListsBut(hooked, c)
    BY <1>6, <1>7, ListsButFrame DEF Linked
  <2> QED
    BY <2>1, <2>2
<1>9. Plain(linked) /\ Lists(linked)
  BY <1>8, AttachLists
<1> HIDE DEF linked
<1>10. Linked(chosen, linked)
  <2>1. Linked(listed, linked)
    BY <1>9, Relinks DEF Plain
  <2> HIDE DEF listed
  <2> QED
    BY <2>1 DEF Linked, Shape, Fields
<1> HIDE DEF chosen
<1>11. Linked(wm', chosen)
  BY <1>1, <1>10, ArrangeFocusLinked DEF Linked
<1>12. Linked(wm', linked)
  BY <1>10, <1>11 DEF Linked
<1> QED
  BY <1>9, <1>12, LinkedInOrder

LEMMA DestroyLists ==
  ASSUME ClientsInv, Plain(wm), Lists(wm), NEW c, Destroy(c)
  PROVE  Plain(wm') /\ Lists(wm')
<1> DEFINE away == Detach(wm, c)
           left == DetachStack(away, c)
           freed == [left EXCEPT !.mon[c] = NULL, !.tags[c] = {}, !.next[c] = NULL,
                       !.floating = @ \ {c}, !.fullscreen = @ \ {c},
                       !.oldfloating = @ \ {c}, !.urgent = @ \ {c},
                       !.recent = RemoveFirst(@, c)]
<1>1. c \in Managed(wm)
  BY DEF Destroy
<1>2. CASE wm' = [wm EXCEPT !.gone = @ \cup {c}]
  <2>1. Linked([wm EXCEPT !.gone = @ \cup {c}], wm)
    BY DEF Linked, Plain, Shape, Fields
  <2> QED
    BY <1>2, <2>1, LinkedInOrder
<1>3. CASE wm' = Arrange(Focus(freed, NULL), {wm.mon[c]})
  <2>1. Plain(away) /\ ListsBut(away, c)
    BY <1>1, DetachLists
  <2> HIDE DEF away
  <2>2. Linked(left, away)
    BY <2>1, Relinks DEF Plain
  <2> HIDE DEF left
  <2>3. /\ Shape(freed) /\ freed.head = left.head
        /\ freed.next = [left.next EXCEPT ![c] = NULL]
        /\ freed.mon = [left.mon EXCEPT ![c] = NULL]
        /\ freed.floating = left.floating \ {c} /\ freed.fullscreen = left.fullscreen \ {c}
    BY <2>2 DEF Linked, Shape, Fields
  <2> HIDE DEF freed
  <2>4. Plain(left) /\ ListsBut(left, c)
    <3>1. Plain(left)
      BY <2>1, <2>2, LinkedPlain
    <3>2. ListsBut(left, c)
      BY <2>1, <2>2, ListsButFrame DEF Linked
    <3> QED
      BY <3>1, <3>2
  <2>5. Plain(freed) /\ freed.mon[c] = NULL
    BY <1>1, <2>3, <2>4 DEF Plain, Managed
  <2>6. Lists(freed)
    <3>1. \A d \in Client \ {c} : freed.next[d] = left.next[d] /\ freed.mon[d] = left.mon[d]
      BY <2>3, <2>4 DEF Plain
    <3>2. ListsBut(freed, c)
      BY <2>3, <2>4, <3>1, ListsButFrame
    <3> QED
      BY <2>5, <3>2, ListsOfOthers DEF Plain
  <2>7. Linked(wm', freed)
    BY <1>3, <2>3, ArrangeFocusLinked
  <2> QED
    BY <2>5, <2>6, <2>7, LinkedInOrder
<1> QED
  BY <1>2, <1>3 DEF Destroy

LEMMA ZoomLists ==
  ASSUME ClientsInv, ~Dangling(wm), Plain(wm), Lists(wm), Zoom
  PROVE  Plain(wm') /\ Lists(wm')
<1>1. PICK c \in Managed(wm) : wm' = Pop(wm, c)
  BY ZoomPop
<1> DEFINE away == Detach(wm, c)
           linked == AttachByPriority(away, c, FALSE)
<1>2. wm' = Arrange(Focus(linked, c), {wm.mon[c]})
  BY <1>1 DEF Pop
<1>3. Plain(away) /\ ListsBut(away, c) /\ away.mon = wm.mon
  BY DetachLists
<1> HIDE DEF away
<1>4. c \in Managed(away)
  BY <1>3 DEF Managed
<1>5. Plain(linked) /\ Lists(linked)
  BY <1>3, <1>4, AttachLists
<1> HIDE DEF linked
<1>6. Linked(wm', linked)
  BY <1>2, <1>5, ArrangeFocusLinked DEF Plain
<1> QED
  BY <1>5, <1>6, LinkedInOrder

LEMMA TagMonLists ==
  ASSUME ClientsInv, Plain(wm), Lists(wm), NEW m \in Mon, TagMon(m)
  PROVE  Plain(wm') /\ Lists(wm')
<1> DEFINE c == Selected(wm)
           apart == Detach(wm, c)
           away == DetachStack(apart, c)
           moved == [away EXCEPT !.mon[c] = m, !.tags[c] = wm.tagset[m]]
           linked == AttachByPriority(moved, c, TRUE)
           there == AttachStack(linked, c)
<1>1. c \in Managed(wm) /\ c \in Client /\ m # NULL
  BY SelectedManaged DEF TagMon, Plain, Managed
<1>2. wm' = Arrange(Focus(there, NULL), Mon)
  BY DEF TagMon
<1> HIDE DEF c
<1>3. Plain(apart) /\ ListsBut(apart, c) /\ apart.mon = wm.mon
  BY <1>1, DetachLists
<1> HIDE DEF apart
<1>4. Linked(away, apart)
  BY <1>3, Relinks DEF Plain
<1> HIDE DEF away
<1>5. /\ Shape(moved) /\ moved.head = away.head /\ moved.next = away.next
      /\ moved.mon = [away.mon EXCEPT ![c] = m]
      /\ moved.floating = away.floating /\ moved.fullscreen = away.fullscreen
  BY <1>4 DEF Linked, Shape, Fields
<1> HIDE DEF moved
<1>6. Plain(moved) /\ c \in Managed(moved)
  <2>1. moved.mon \in [Client -> Mon \cup {NULL}] /\ moved.mon[c] = m
    BY <1>1, <1>3, <1>4, <1>5 DEF Plain, Linked
  <2>2. Managed(moved) \subseteq setup.windows
    BY <1>1, <1>3, <1>4, <1>5 DEF Plain, Linked, Managed
  <2>3. c \in Managed(moved)
    BY <1>1, <2>1 DEF Managed
  <2> QED
    BY <1>3, <1>4, <1>5, <2>1, <2>2, <2>3 DEF Plain, Linked
<1>7. ListsBut(moved, c)
  <2>1. \A d \in Client \ {c} : moved.next[d] = apart.next[d] /\ moved.mon[d] = apart.mon[d]
    BY <1>3, <1>4, <1>5 DEF Plain, Linked
  <2> QED
    BY <1>3, <1>4, <1>5, <2>1, ListsButFrame DEF Linked
<1>8. Plain(linked) /\ Lists(linked)
  BY <1>6, <1>7, AttachLists
<1> HIDE DEF linked
<1>9. Linked(there, linked)
  BY <1>8, Relinks DEF Plain
<1> HIDE DEF there
<1>10. Linked(wm', there)
  BY <1>2, <1>9, ArrangeFocusLinked DEF Linked
<1>11. Linked(wm', linked)
  BY <1>9, <1>10 DEF Linked
<1> QED
  BY <1>8, <1>11, LinkedInOrder

\* Handlers that move no window.
LEMMA SteadyLists ==
  ASSUME NoFloats, Plain(wm), Lists(wm),
         \/ ToggleFloating
         \/ \E c : FullScreen(c) \/ Click(c) \/ \E on : Hint(c, on)
         \/ \E m : FocusMon(m)
         \/ \E T : View(T) \/ TagClient(T)
         \/ LastClient
  PROVE  Plain(wm') /\ Lists(wm')
<1>1. ~ToggleFloating /\ \A c : ~FullScreen(c)
  BY DEF NoFloats, ToggleFloating, FullScreen
<1>2. \A m : /\ Linked([wm EXCEPT !.selmon = m], wm)
  BY DEF Plain, Linked, Shape, Fields
<1>3. ASSUME NEW m PROVE Linked(Focus([wm EXCEPT !.selmon = m], NULL), wm)
  <2> DEFINE v == [wm EXCEPT !.selmon = m]
  <2>1. Linked(v, wm)
    BY <1>2
  <2> HIDE DEF v
  <2>2. Linked(Focus(v, NULL), v)
    BY <2>1, FocusLinked DEF Linked
  <2>3. Linked(Focus(v, NULL), wm)
    BY <2>1, <2>2 DEF Linked
  <2> QED
    BY <2>3 DEF v
<1>4. ASSUME NEW c, Click(c) PROVE Linked(wm', wm)
  <2> DEFINE there == IF wm.mon[c] = wm.selmon THEN wm
                      ELSE Focus([wm EXCEPT !.selmon = wm.mon[c]], NULL)
  <2>1. wm' = Focus(there, c)
    BY <1>4 DEF Click
  <2>2. Linked(there, wm)
    BY <1>3 DEF Plain, Linked
  <2> HIDE DEF there
  <2> QED
    BY <2>1, <2>2, FocusLinked DEF Linked
<1>5. ASSUME NEW c, NEW on, Hint(c, on) PROVE Linked(wm', wm)
  BY <1>5 DEF Hint, SetUrgent, Plain, Linked, Shape, Fields
<1>6. ASSUME NEW m, FocusMon(m) PROVE Linked(wm', wm)
  BY <1>3, <1>6 DEF FocusMon
<1>7. ASSUME NEW T, View(T) PROVE Linked(wm', wm)
  <2> DEFINE v == [wm EXCEPT !.tagset[wm.selmon] = T]
  <2>1. wm' = Arrange(Focus(v, NULL), {wm.selmon})
    BY <1>7 DEF View
  <2>2. Linked(v, wm)
    BY DEF Plain, Linked, Shape, Fields
  <2> HIDE DEF v
  <2> QED
    BY <2>1, <2>2, ArrangeFocusLinked DEF Linked
<1>8. ASSUME NEW T, TagClient(T) PROVE Linked(wm', wm)
  <2> DEFINE v == [wm EXCEPT !.tags[Selected(wm)] = T]
  <2>1. wm' = Arrange(Focus(v, NULL), {wm.selmon})
    BY <1>8 DEF TagClient
  <2>2. Linked(v, wm)
    BY DEF Plain, Linked, Shape, Fields
  <2> HIDE DEF v
  <2> QED
    BY <2>1, <2>2, ArrangeFocusLinked DEF Linked
<1>9. LastClient => Linked(wm', wm)
  BY FocusLinked DEF LastClient, Plain
<1>10. Linked(wm', wm)
  BY <1>1, <1>4, <1>5, <1>6, <1>7, <1>8, <1>9
<1> QED
  BY <1>10, LinkedInOrder

LEMMA NextLists == ASSUME ClientsInv, ListsInv, [Next]_vars PROVE ListsInv'
<1>1. CASE UNCHANGED vars
  <2>1. wm' = wm /\ setup' = setup
    BY <1>1 DEF vars
  <2> QED
    BY <2>1 DEF ListsInv, NoFloats, Plain, Lists, Listed, Mon
<1>2. CASE Next
  <2>1. ~Dangling(wm) /\ Step /\ setup' = setup
    BY <1>2 DEF Next
  <2>2. NoFloats => Plain(wm') /\ Lists(wm')
    BY <2>1, ManageLists, DestroyLists, ZoomLists, TagMonLists, SteadyLists
       DEF Step, ListsInv
  <2> QED
    BY <2>1, <2>2 DEF ListsInv, NoFloats, Plain, Lists, Listed, Mon
<1> QED
  BY <1>1, <1>2

\* The lists as the properties read them.
LEMMA ListsRead ==
  ASSUME ListsInv, NoFloats, NEW m \in Mon
  PROVE  \E n \in Nat : \E s \in [1 .. n -> Client] :
           /\ Chain(wm, m, n, s) /\ Descending(n, s) /\ Range(s) = OnMonitor(m)
           /\ List(wm, m) = s /\ At(wm, m)[Cardinality(setup.windows)] = NULL
<1>1. Listed(wm, m, On(wm, m)) /\ setup \in Setups
  BY DEF ListsInv, Plain, Lists
<1>2. On(wm, m) \subseteq setup.windows
  BY DEF ListsInv, Plain, On, Managed
<1>3. On(wm, m) = OnMonitor(m)
  BY DEF On, OnMonitor
<1> QED
  BY <1>1, <1>2, <1>3, ListOf

-----------------------------------------------------------------------------
(* What was focused last                                                    *)

\* The selected client is the one stamped last, unless it refuses the focus.
LatestFirst(w) ==
  Selected(w) \notin setup.neverFocus \cup {NULL} =>
    Len(w.recent) >= 1 /\ w.recent[1] = Selected(w)

\* What that needs of the data that focus() is called with.
Ready(w) == Shape(w) /\ Stamped(w) /\ w.sel = [m \in Mon |-> w.sel[m]]

\* v has w's selection, and what was stamped.
SameSel(v, w) ==
  Shape(v) /\ v.sel = w.sel /\ v.selmon = w.selmon /\ v.recent = w.recent

LEMMA SameSelKeeps ==
  ASSUME NEW w, NEW v, SameSel(v, w)
  PROVE  (Ready(w) => Ready(v)) /\ (LatestFirst(w) => LatestFirst(v))
BY DEF SameSel, Ready, LatestFirst, Stamped, Selected

LEMMA RelinkReady ==
  ASSUME NEW w, Ready(w), NEW c
  PROVE  /\ \A after : Ready(AttachByPriority(w, c, after))
         /\ Ready(Detach(w, c))
<1>1. ASSUME NEW after PROVE Ready(AttachByPriority(w, c, after))
  BY AttachByPriorityLinks DEF Ready, Relinked, Kept
<1>2. Ready(Detach(w, c))
  BY DetachLinks DEF Ready, Relinked, Kept
<1> QED
  BY <1>1, <1>2

LEMMA StackReady ==
  ASSUME NEW w, Ready(w), NEW c
  PROVE  /\ Ready(AttachStack(w, c)) /\ AttachStack(w, c).recent = w.recent
         /\ AttachStack(w, c).selmon = w.selmon
         /\ Ready(DetachStack(w, c)) /\ DetachStack(w, c).recent = w.recent
         /\ DetachStack(w, c).selmon = w.selmon
<1>1. SameSel(AttachStack(w, c), w)
  BY DEF SameSel, Ready, Shape, Fields, AttachStack
<1>2. Ready(AttachStack(w, c))
  BY <1>1, SameSelKeeps
<1> DEFINE rest == [w EXCEPT !.stack[w.mon[c]] = RemoveFirst(@, c)]
           shown == [rest EXCEPT !.sel[w.mon[c]] = FirstVisible(rest, w.mon[c])]
<1>3. SameSel(rest, w)
  BY DEF SameSel, Ready, Shape, Fields
<1>4. DetachStack(w, c) \in {rest, shown}
  BY DEF DetachStack
<1>5. Ready(rest)
  <2> HIDE DEF rest
  <2> QED
    BY <1>3, SameSelKeeps
<1> HIDE DEF rest
<1>6. Ready(shown) /\ shown.recent = rest.recent /\ shown.selmon = rest.selmon
  BY <1>5 DEF Ready, Shape, Fields, Stamped
<1> HIDE DEF shown
<1> QED
  BY <1>1, <1>2, <1>3, <1>4, <1>5, <1>6 DEF SameSel

\* focus() selects its target, and stamps it.
LEMMA FocusTarget ==
  ASSUME NEW w, Ready(w), NEW c, Focus(w, c).selmon \in Mon,
         Selected(Focus(w, c)) \in Client \cup {NULL}
  PROVE  LET target == IF c # NULL /\ Visible(w, c) THEN c ELSE FirstVisible(w, w.selmon)
         IN /\ Ready(Focus(w, c)) /\ Selected(Focus(w, c)) = target
            /\ target \notin setup.neverFocus \cup {NULL} =>
                 Focus(w, c).recent = <<target>> \o RemoveFirst(w.recent, target)
<1> DEFINE target == IF c # NULL /\ Visible(w, c) THEN c ELSE FirstVisible(w, w.selmon)
           there == [w EXCEPT !.selmon = w.mon[target]]
           off == DetachStack(there, target)
           moved == AttachStack(off, target)
           calm == SetUrgent(moved, target, FALSE)
           stamped == SetFocus(calm, target)
           out == Focus(w, c)
<1>1. out = IF target = NULL THEN [w EXCEPT !.sel[w.selmon] = NULL]
            ELSE [stamped EXCEPT !.sel[moved.selmon] = target]
  BY Zenon DEF Focus
<1> HIDE DEF target, out
<1>2. CASE target = NULL
  <2>1. /\ Shape(out) /\ out.selmon = w.selmon /\ out.recent = w.recent
        /\ out.sel = [w.sel EXCEPT ![w.selmon] = NULL]
    BY <1>1, <1>2 DEF Ready, Shape, Fields
  <2>2. w.selmon \in Mon
    BY <2>1 DEF out
  <2>3. Ready(out) /\ Selected(out) = NULL
    BY <2>1, <2>2 DEF Ready, Selected, Stamped
  <2> QED
    BY <1>2, <2>3 DEF out, target
<1>3. CASE target # NULL
  <2>1. /\ Ready(there) /\ there.recent = w.recent
    BY DEF Ready, Shape, Fields, Stamped
  <2> HIDE DEF there
  <2>2. Ready(off) /\ off.recent = w.recent
    BY <2>1, StackReady
  <2> HIDE DEF off
  <2>3. Ready(moved) /\ moved.recent = w.recent
    BY <2>2, StackReady
  <2> HIDE DEF moved
  <2>4. Ready(calm) /\ calm.recent = w.recent /\ calm.selmon = moved.selmon
    BY <2>3 DEF Ready, Shape, Fields, Stamped, SetUrgent
  <2> HIDE DEF calm
  <2>5. /\ Shape(stamped) /\ stamped.selmon = moved.selmon /\ stamped.sel = calm.sel
        /\ stamped.recent = IF target \in setup.neverFocus THEN w.recent
                            ELSE <<target>> \o RemoveFirst(w.recent, target)
    BY <2>4 DEF Ready, Shape, Fields, SetFocus
  <2> HIDE DEF stamped
  <2>6. /\ Shape(out) /\ out.selmon = moved.selmon /\ out.recent = stamped.recent
        /\ out.sel = [calm.sel EXCEPT ![moved.selmon] = target]
    BY <1>1, <1>3, <2>5 DEF Shape, Fields
  <2>7. moved.selmon \in Mon
    BY <2>6 DEF out
  <2>8. Selected(out) = target /\ out.sel = [m \in Mon |-> out.sel[m]]
    BY <2>4, <2>6, <2>7 DEF Ready, Selected
  <2>9. target \in Client
    BY <1>3, <2>8 DEF out
  <2>10. target \notin setup.neverFocus =>
           out.recent = <<target>> \o RemoveFirst(w.recent, target)
    BY <2>5, <2>6
  <2>11. Stamped(out)
    <3> DEFINE s == RemoveFirst(w.recent, target)
    <3>1. s \in Seq(Client) /\ IsInjective(s) /\ target \notin Range(s)
      BY <2>9, RemoveFirstOf DEF Ready, Stamped
    <3> HIDE DEF s
    <3>2. <<target>> \o s \in Seq(Client) /\ IsInjective(<<target>> \o s)
      BY <2>9, <3>1, PutOnTop
    <3>3. out.recent = w.recent \/ out.recent = <<target>> \o s
      BY <2>5, <2>6 DEF s
    <3> QED
      BY <3>2, <3>3 DEF Ready, Stamped
  <2>12. Ready(out)
    BY <2>6, <2>8, <2>11 DEF Ready
  <2> QED
    BY <2>8, <2>10, <2>12 DEF out, target
<1> QED
  BY <1>2, <1>3

LEMMA FocusLatest ==
  ASSUME NEW w, Ready(w), NEW c, Focus(w, c).selmon \in Mon,
         Selected(Focus(w, c)) \in Client \cup {NULL}
  PROVE  Ready(Focus(w, c)) /\ LatestFirst(Focus(w, c))
<1> DEFINE target == IF c # NULL /\ Visible(w, c) THEN c ELSE FirstVisible(w, w.selmon)
           s == RemoveFirst(w.recent, target)
           out == Focus(w, c)
<1>1. /\ Ready(out) /\ Selected(out) = target
      /\ target \notin setup.neverFocus \cup {NULL} => out.recent = <<target>> \o s
  BY Zenon, FocusTarget
<1>2. SUFFICES ASSUME target \notin setup.neverFocus \cup {NULL}
               PROVE  Len(out.recent) >= 1 /\ out.recent[1] = target
  BY <1>1 DEF LatestFirst
<1>3. target \in Client
  BY <1>1, <1>2
<1> HIDE DEF target
<1>4. s \in Seq(Client) /\ IsInjective(s) /\ target \notin Range(s)
  BY <1>3, RemoveFirstOf DEF Ready, Stamped
<1>5. Len(s) \in Nat
  BY <1>4, LenProperties
<1> HIDE DEF s
<1>6. Len(<<target>> \o s) = 1 + Len(s) /\ (<<target>> \o s)[1] = target
  BY <1>3, <1>4, <1>5
<1> HIDE DEF out
<1> QED
  BY <1>1, <1>2, <1>5, <1>6

\* How most handlers end.
LEMMA EndsLatest ==
  ASSUME NEW w, NEW c, NEW ms, Ready(w), InOrder(wm'),
         wm' \in {Focus(w, c), Arrange(Focus(w, c), ms)}
  PROVE  LatestFirst(wm')
<1> DEFINE v == Focus(w, c)
<1>1. Shape(v)
  BY FocusLinked DEF Ready, Linked
<1> HIDE DEF v
<1>2. SameSel(wm', v)
  <2>1. SameSel(v, v) /\ SameSel(Arrange(v, ms), v)
    BY <1>1 DEF SameSel, Shape, Fields, Arrange
  <2> QED
    BY <2>1 DEF v
<1>3. v.selmon \in Mon /\ Selected(v) \in Client \cup {NULL}
  BY <1>2 DEF InOrder, Typed, SameSel, Selected
<1>4. LatestFirst(v)
  BY <1>3, FocusLatest DEF v
<1> QED
  BY <1>2, <1>4, SameSelKeeps

LEMMA InvReady == ASSUME ClientsInv PROVE Ready(wm)
BY DEF ClientsInv, InOrder, Typed, Ready

LEMMA InitLatest == ASSUME Init PROVE LatestFirst(wm)
BY MonOf DEF Init, LatestFirst, Selected

LEMMA ManageLatest ==
  ASSUME ClientsInv, NEW c, NEW parent, Manage(c, parent), InOrder(wm')
  PROVE  LatestFirst(wm')
<1> DEFINE dialog == parent # NULL /\ Found(wm, parent)
           m == IF dialog THEN wm.mon[parent] ELSE wm.selmon
           own == IF dialog THEN wm.tags[parent]
                  ELSE IF RuleTags[c] # {} THEN RuleTags[c] ELSE wm.tagset[m]
           floats == parent # NULL \/ c \in setup.ruleFloats
           made == [wm EXCEPT !.mon[c] = m, !.tags[c] = own,
                      !.floating = IF floats THEN @ \cup {c} ELSE @]
           hooked == SetUrgent(made, c, ~dialog /\ ~Visible(made, c))
           linked == AttachByPriority(hooked, c, TRUE)
           listed == AttachStack(linked, c)
           chosen == [listed EXCEPT !.sel[m] = c]
           tidy == Arrange(chosen, {m})
<1>1. wm' = Focus(tidy, NULL)
  BY DEF Manage
<1> HIDE DEF m, own, floats
<1>2. Ready(made)
  BY InvReady DEF Ready, Shape, Fields, Stamped
<1> HIDE DEF made, dialog
<1>3. Ready(hooked)
  BY <1>2 DEF Ready, Shape, Fields, Stamped, SetUrgent
<1> HIDE DEF hooked
<1>4. Ready(linked)
  BY <1>3, RelinkReady
<1> HIDE DEF linked
<1>5. Ready(listed)
  BY <1>4, StackReady
<1> HIDE DEF listed
<1>6. Ready(chosen)
  BY <1>5 DEF Ready, Shape, Fields, Stamped
<1> HIDE DEF chosen
<1>7. Ready(tidy)
  BY <1>6 DEF Ready, Shape, Fields, Stamped, Arrange
<1> HIDE DEF tidy
<1> QED
  BY <1>1, <1>7, EndsLatest

LEMMA DestroyLatest ==
  ASSUME ClientsInv, LatestFirst(wm), NEW c, Destroy(c), InOrder(wm')
  PROVE  LatestFirst(wm')
<1> DEFINE away == Detach(wm, c)
           left == DetachStack(away, c)
           freed == [left EXCEPT !.mon[c] = NULL, !.tags[c] = {}, !.next[c] = NULL,
                       !.floating = @ \ {c}, !.fullscreen = @ \ {c},
                       !.oldfloating = @ \ {c}, !.urgent = @ \ {c},
                       !.recent = RemoveFirst(@, c)]
<1>1. CASE wm' = [wm EXCEPT !.gone = @ \cup {c}]
  <2>1. SameSel([wm EXCEPT !.gone = @ \cup {c}], wm)
    BY InvReady DEF Ready, SameSel, Shape, Fields
  <2> QED
    BY <1>1, <2>1, SameSelKeeps
<1>2. CASE wm' = Arrange(Focus(freed, NULL), {wm.mon[c]})
  <2>1. Ready(away)
    BY InvReady, RelinkReady
  <2> HIDE DEF away
  <2>2. Ready(left)
    BY <2>1, StackReady
  <2> HIDE DEF left
  <2>3. /\ Shape(freed) /\ freed.sel = left.sel
        /\ freed.recent = RemoveFirst(left.recent, c)
    BY <2>2 DEF Ready, Shape, Fields
  <2> HIDE DEF freed
  <2>4. Ready(freed)
    BY <2>2, <2>3, RemoveFirstOf DEF Ready, Stamped
  <2> QED
    BY <1>2, <2>4, EndsLatest
<1> QED
  BY <1>1, <1>2 DEF Destroy

LEMMA ZoomLatest ==
  ASSUME ClientsInv, ~Dangling(wm), Zoom, InOrder(wm')
  PROVE  LatestFirst(wm')
<1>1. PICK c \in Managed(wm) : wm' = Pop(wm, c)
  BY ZoomPop
<1> DEFINE v == AttachByPriority(Detach(wm, c), c, FALSE)
<1>2. Ready(v)
  BY InvReady, RelinkReady
<1>3. wm' = Arrange(Focus(v, c), {wm.mon[c]})
  BY <1>1 DEF Pop
<1> HIDE DEF v
<1> QED
  BY <1>2, <1>3, EndsLatest

LEMMA TagMonLatest ==
  ASSUME ClientsInv, NEW m, TagMon(m), InOrder(wm')
  PROVE  LatestFirst(wm')
<1> DEFINE c == Selected(wm)
           away == DetachStack(Detach(wm, c), c)
           moved == [away EXCEPT !.mon[c] = m, !.tags[c] = wm.tagset[m]]
           there == AttachStack(AttachByPriority(moved, c, TRUE), c)
<1>1. wm' = Arrange(Focus(there, NULL), Mon)
  BY DEF TagMon
<1> HIDE DEF c
<1>2. Ready(away)
  BY InvReady, RelinkReady, StackReady
<1> HIDE DEF away
<1>3. Ready(moved)
  BY <1>2 DEF Ready, Shape, Fields, Stamped
<1> HIDE DEF moved
<1>4. Ready(there)
  BY <1>3, RelinkReady, StackReady
<1> HIDE DEF there
<1> QED
  BY <1>1, <1>4, EndsLatest

LEMMA ClickLatest ==
  ASSUME ClientsInv, ~Dangling(wm), NEW c, Click(c), InOrder(wm')
  PROVE  LatestFirst(wm')
<1> DEFINE v == [wm EXCEPT !.selmon = wm.mon[c]]
           there == IF wm.mon[c] = wm.selmon THEN wm ELSE Focus(v, NULL)
<1>1. wm.mon[c] \in Mon /\ wm' = Focus(there, c)
  BY FoundManaged DEF ClientsInv, InOrder, Click, Typed, Managed
<1>2. Ready(v) /\ Typed(v) /\ Stacked(v)
  BY <1>1, InvReady, SwitchMon DEF ClientsInv, InOrder, Ready, Shape, Fields, Stamped
<1> HIDE DEF v
<1>3. Typed(Focus(v, NULL))
  BY <1>2, FocusOf
<1>4. Ready(there)
  BY <1>3, InvReady DEF Typed, Ready
<1> HIDE DEF there
<1> QED
  BY <1>1, <1>4, EndsLatest

LEMMA SteadyLatest ==
  ASSUME ClientsInv, LatestFirst(wm), InOrder(wm'),
         \/ ToggleFloating
         \/ \E c : FullScreen(c) \/ \E on : Hint(c, on)
         \/ \E m : FocusMon(m)
         \/ \E T : View(T) \/ TagClient(T)
         \/ LastClient
  PROVE  LatestFirst(wm')
<1>1. Ready(wm)
  BY InvReady
<1>2. ASSUME ToggleFloating \/ \E c : FullScreen(c) \/ \E on : Hint(c, on)
      PROVE  SameSel(wm', wm)
  <2>1. ToggleFloating => SameSel(wm', wm)
    BY <1>1 DEF ToggleFloating, Arrange, SameSel, Ready, Shape, Fields
  <2>2. ASSUME NEW c, FullScreen(c) PROVE SameSel(wm', wm)
    <3> DEFINE v == IF c \in wm.fullscreen
                    THEN [wm EXCEPT !.fullscreen = @ \ {c},
                            !.floating = IF c \in wm.oldfloating THEN @ ELSE @ \ {c},
                            !.oldfloating = @ \ {c}]
                    ELSE [wm EXCEPT !.fullscreen = @ \cup {c},
                            !.oldfloating = IF c \in wm.floating THEN @ \cup {c} ELSE @,
                            !.floating = @ \cup {c}]
    <3>1. wm' = Arrange(v, {wm.mon[c]})
      BY <2>2 DEF FullScreen
    <3>2. SameSel(v, wm)
      BY <1>1 DEF SameSel, Ready, Shape, Fields
    <3> HIDE DEF v
    <3> QED
      BY <3>1, <3>2 DEF SameSel, Shape, Fields, Arrange
  <2>3. ASSUME NEW c, NEW on, Hint(c, on) PROVE SameSel(wm', wm)
    BY <1>1, <2>3 DEF Hint, SetUrgent, SameSel, Ready, Shape, Fields
  <2> QED
    BY <1>2, <2>1, <2>2, <2>3
<1>3. ASSUME \/ \E m : FocusMon(m)
             \/ \E T : View(T) \/ TagClient(T)
             \/ LastClient
      PROVE  LatestFirst(wm')
  <2>1. ASSUME NEW m, FocusMon(m) PROVE LatestFirst(wm')
    <3> DEFINE v == [wm EXCEPT !.selmon = m]
    <3>1. Ready(v) /\ wm' = Focus(v, NULL)
      BY <1>1, <2>1 DEF FocusMon, Ready, Shape, Fields, Stamped
    <3> HIDE DEF v
    <3> QED
      BY <3>1, EndsLatest
  <2>2. ASSUME NEW T, View(T) PROVE LatestFirst(wm')
    <3> DEFINE v == [wm EXCEPT !.tagset[wm.selmon] = T]
    <3>1. Ready(v) /\ wm' = Arrange(Focus(v, NULL), {wm.selmon})
      BY <1>1, <2>2 DEF View, Ready, Shape, Fields, Stamped
    <3> HIDE DEF v
    <3> QED
      BY <3>1, EndsLatest
  <2>3. ASSUME NEW T, TagClient(T) PROVE LatestFirst(wm')
    <3> DEFINE v == [wm EXCEPT !.tags[Selected(wm)] = T]
    <3>1. Ready(v) /\ wm' = Arrange(Focus(v, NULL), {wm.selmon})
      BY <1>1, <2>3 DEF TagClient, Ready, Shape, Fields, Stamped
    <3> HIDE DEF v
    <3> QED
      BY <3>1, EndsLatest
  <2>4. LastClient => LatestFirst(wm')
    BY <1>1, EndsLatest DEF LastClient
  <2> QED
    BY <1>3, <2>1, <2>2, <2>3, <2>4
<1> QED
  BY <1>2, <1>3, SameSelKeeps

LEMMA NextLatest ==
  ASSUME ClientsInv, ClientsInv', LatestFirst(wm), [Next]_vars
  PROVE  LatestFirst(wm)'
<1>1. CASE UNCHANGED vars
  <2>1. wm' = wm /\ setup' = setup
    BY <1>1 DEF vars
  <2> QED
    BY <2>1 DEF LatestFirst, Selected
<1>2. CASE Next
  <2>1. ~Dangling(wm) /\ Step /\ setup' = setup
    BY <1>2 DEF Next
  <2>2. InOrder(wm')
    BY <2>1 DEF ClientsInv, InOrder, Typed, Stacked, Mon
  <2>3. LatestFirst(wm')
    BY <2>1, <2>2, ManageLatest, DestroyLatest, ZoomLatest, TagMonLatest, ClickLatest,
       SteadyLatest DEF Step
  <2> QED
    BY <2>1, <2>3 DEF LatestFirst, Selected
<1> QED
  BY <1>1, <1>2

\* Every visible client of the selected monitor but the selected one is another.
LEMMA OthersOf ==
  ASSUME NEW w, Plain(w), Lists(w), w.selmon \in Mon
  PROVE  Others(w) = {c \in Client : /\ w.mon[c] = w.selmon
                                     /\ Visible(w, c) /\ c # Selected(w)}
<1> DEFINE X == On(w, w.selmon)
<1>1. Listed(w, w.selmon, X) /\ setup \in Setups /\ X \subseteq setup.windows
  BY DEF Plain, Lists, On, Managed
<1> HIDE DEF X
<1>2. Range(List(w, w.selmon)) = X
  BY <1>1, ListOf
<1> QED
  BY <1>2 DEF Others, On, X

\* The window that lastclient() leaves is stamped right before the one it goes
\* to, and can still be gone to.
LEMMA LastClientBack ==
  ASSUME ClientsInv, ListsInv, LatestFirst(wm), NoFloats, LastClient,
         Selected(wm) \notin setup.neverFocus \cup {NULL},
         Selected(wm') \notin setup.neverFocus
  PROVE  Latest(wm') = Selected(wm)
<1> DEFINE s == Selected(wm)
           t == Latest(wm)
           q == RemoveFirst(wm.recent, t)
<1>1. /\ InOrder(wm) /\ Plain(wm) /\ Lists(wm) /\ Ready(wm)
      /\ setup \in Setups /\ wm.selmon \in Mon
      /\ wm.recent \in Seq(Client) /\ IsInjective(wm.recent)
  BY InvReady DEF ClientsInv, ListsInv, InOrder, Typed, Stamped
<1>2. t \in Client /\ wm.mon[t] = wm.selmon /\ Visible(wm, t) /\ t # s
  <2>1. t \in Others(wm)
    BY <1>1, LatestOther DEF LastClient
  <2> HIDE DEF t
  <2> QED
    BY <1>1, <2>1, OthersOf
<1>3. wm' = Focus(wm, t) /\ t \in Managed(wm) /\ t # NULL
  BY <1>1, <1>2, ClientAssumption, MonOf DEF LastClient, Managed
<1>4. s \in Client /\ wm.mon[s] = wm.selmon /\ Visible(wm, s)
  BY <1>1 DEF InOrder, Typed, SelShown, Selected
<1>5. Len(wm.recent) >= 1 /\ wm.recent[1] = s
  BY DEF LatestFirst
<1> HIDE DEF s, t
<1>6. /\ Typed(wm') /\ SelShown(wm') /\ Plain(wm') /\ Lists(wm')
      /\ wm'.mon = wm.mon /\ wm'.tags = wm.tags /\ wm'.tagset = wm.tagset
  BY <1>1, <1>3, FocusOf, SteadyLists DEF InOrder
<1>7. Selected(wm') = t /\ wm'.recent = <<t>> \o q
  <2>1. wm'.selmon \in Mon /\ Selected(wm') \in Client \cup {NULL}
    BY <1>6 DEF Typed, Selected
  <2>2. /\ Selected(Focus(wm, t)) = t
        /\ t \notin setup.neverFocus \cup {NULL} =>
             Focus(wm, t).recent = <<t>> \o q
    BY <1>1, <1>2, <1>3, <2>1, Zenon, FocusTarget
  <2> QED
    BY <1>3, <2>2
<1>8. wm'.selmon = wm.selmon
  BY <1>2, <1>3, <1>6, <1>7 DEF SelShown
<1>9. s \in Others(wm') /\ t \notin Others(wm')
  <2>1. Visible(wm', s)
    BY <1>4, <1>6 DEF Visible
  <2> QED
    BY <1>1, <1>2, <1>4, <1>6, <1>7, <1>8, <2>1, OthersOf
<1>10. q \in Seq(Client) /\ Len(q) \in Nat /\ Len(q) >= 1 /\ q[1] = s
  <2>1. wm.recent[1] # t
    BY <1>2, <1>5
  <2>2. Len(q) >= 1 /\ q[1] = s
    BY <1>1, <1>5, <2>1, RemoveFirstKeeps
  <2>3. q \in Seq(Client)
    BY <1>1, RemoveFirstOf
  <2> HIDE DEF q
  <2> QED
    BY <2>2, <2>3, LenProperties
<1> HIDE DEF q
<1> DEFINE r == <<t>> \o q
           n == 1 + Len(q)
<1>11. n \in Nat /\ DOMAIN r = 1 .. n /\ r[1] = t /\ r[2] = s /\ 2 \in 1 .. n
  <2>1. r \in Seq(Client) /\ Len(r) = n /\ r[1] = t /\ r[2] = q[1]
    BY <1>2, <1>10
  <2> QED
    BY <1>10, <2>1, LenProperties
<1>12. Latest(wm') = First(r, Others(wm'))
  <2>1. s \in Range(r)
    BY <1>11 DEF Range
  <2> QED
    BY <1>7, <1>9, <2>1 DEF Latest
<1> HIDE DEF r, n
<1>13. First(r, Others(wm')) = r[2]
  BY <1>9, <1>11, FirstAt
<1> QED
  BY <1>11, <1>12, <1>13 DEF s

-----------------------------------------------------------------------------
(* The invariant, and what the runs check                                   *)

LEMMA NextKeeps == ASSUME ClientsInv, [Next]_vars PROVE ClientsInv'
<1>1. CASE UNCHANGED vars
  <2>1. wm' = wm /\ setup' = setup
    BY <1>1 DEF vars
  <2> QED
    BY <2>1 DEF ClientsInv, InOrder, Typed, Stacked, Mon
<1>2. CASE Next
  <2>1. ~Dangling(wm) /\ Step /\ setup' = setup
    BY <1>2 DEF Next
  <2>2. InOrder(wm')
    BY <2>1, ManageKeeps, DestroyKeeps, FullScreenKeeps, ClickKeeps, HintKeeps,
       TagMonKeeps, FocusMonKeeps, ViewKeeps, TagClientKeeps, ZoomKeeps,
       ToggleFloatingKeeps, LastClientKeeps DEF Step, FocusMon
  <2> QED
    BY <2>1, <2>2 DEF ClientsInv, InOrder, Typed, Stacked, Mon
<1> QED
  BY <1>1, <1>2

\* In every state the focus stacks, the selection and the urgency hints are what
\* the handlers rely on: the inductive invariant.
THEOREM ClientsInvariant == Spec => []ClientsInv
<1>1. Init => ClientsInv
  BY InitInOrder
<1>2. ClientsInv /\ [Next]_vars => ClientsInv'
  BY NextKeeps
<1> QED
  BY <1>1, <1>2, PTL DEF Spec

\* Every window is once in the focus stack of its monitor and in no other, also
\* when the relinking of attachbypriority() lost it from the client list: what
\* focus(), sendmon() and unmanage() do to the stacks does not depend on the list.
THEOREM StacksCompleteAlways == Spec => []StacksComplete
<1>1. ClientsInv => StacksComplete
  BY DEF ClientsInv, InOrder, Stacked, StacksComplete, OnMonitor
<1> QED
  BY <1>1, ClientsInvariant, PTL

\* No handler leaves the selected monitor without a selected window while it shows
\* one, or with one selected that it does not show.
THEOREM SelVisibleAlways == Spec => []SelVisible
<1>1. ClientsInv => SelVisible
  BY DEF ClientsInv, InOrder, SelShown, SelVisible, OnMonitor
<1> QED
  BY <1>1, ClientsInvariant, PTL

\* No handler ends with a window that is visible and urgent: the patches of
\* showhide() and updatewmhints() are enough, together with ruleshook(), whichever
\* tags, views, monitors or hints a handler changes.
THEOREM UrgentHiddenAlways == Spec => []UrgentHidden
<1>1. ClientsInv => UrgentHidden
  BY DEF ClientsInv, InOrder, HiddenBut, UrgentHidden
<1> QED
  BY <1>1, ClientsInvariant, PTL

\* Where no window floats, the lists of all monitors are well-formed, complete and
\* by priority after every handler.
THEOREM ListsInvariant == Spec => []ListsInv
<1>1. Init => ListsInv
  BY InitLists
<1>2. ClientsInv /\ ListsInv /\ [Next]_vars => ListsInv'
  BY NextLists
<1> QED
  BY <1>1, <1>2, ClientsInvariant, PTL DEF Spec

\* Where no window floats, attachbypriority() loses no window: every window is
\* once in the list of its monitor, and every list ends.
THEOREM ListCompleteTiledAlways == Spec => []ListCompleteTiled
<1>1. ListsInv => ListCompleteTiled
  <2> SUFFICES ASSUME ListsInv, NoFloats, NEW m \in Mon
               PROVE  /\ ~Endless(wm) /\ IsInjective(List(wm, m))
                      /\ Range(List(wm, m)) = OnMonitor(m)
    BY DEF ListCompleteTiled, ListComplete
  <2>1. ~Endless(wm)
    BY ListsRead DEF Endless
  <2>2. PICK n \in Nat : \E s \in [1 .. n -> Client] :
          Chain(wm, m, n, s) /\ Range(s) = OnMonitor(m) /\ List(wm, m) = s
    BY ListsRead
  <2>3. PICK s \in [1 .. n -> Client] :
          Chain(wm, m, n, s) /\ Range(s) = OnMonitor(m) /\ List(wm, m) = s
    BY <2>2
  <2>4. IsInjective(s)
    BY <2>3 DEF Chain, IsInjective
  <2> QED
    BY <2>1, <2>3, <2>4
<1> QED
  BY <1>1, ListsInvariant, PTL

\* Where no window floats, zoom(), sendmon() and manage() keep the list of every
\* monitor in the order of the priorities.
THEOREM PrioritySortedAlways == Spec => []PrioritySorted
<1>1. ListsInv => PrioritySorted
  <2> SUFFICES ASSUME ListsInv, NoFloats, NEW m \in Mon
               PROVE  \A i, j \in DOMAIN List(wm, m) :
                        i < j => Priority[List(wm, m)[i]] >= Priority[List(wm, m)[j]]
    BY DEF PrioritySorted
  <2>1. PICK n \in Nat : \E s \in [1 .. n -> Client] :
          Descending(n, s) /\ List(wm, m) = s
    BY ListsRead
  <2>2. PICK s \in [1 .. n -> Client] : Descending(n, s) /\ List(wm, m) = s
    BY <2>1
  <2> QED
    BY <2>2 DEF Descending
<1> QED
  BY <1>1, ListsInvariant, PTL

\* The selected window is the one that was focused last, unless it refuses the
\* focus: the time stamps of setfocus() follow the selection, whichever handler
\* changes it and whichever windows float.
THEOREM LatestInvariant == Spec => []LatestFirst(wm)
<1>1. Init => LatestFirst(wm)
  BY InitLatest
<1>2. ClientsInv /\ ClientsInv' /\ LatestFirst(wm) /\ [Next]_vars => LatestFirst(wm)'
  BY NextLatest
<1> QED
  BY <1>1, <1>2, ClientsInvariant, PTL DEF Spec

\* Pressing the key of lastclient() again leads back to the window it left, where
\* no window floats and both take the focus.
THEOREM BackAndForthAlways == Spec => BackAndForth
<1>1. ASSUME ClientsInv, ListsInv, LatestFirst(wm), [Next]_vars
      PROVE  [/\ NoFloats /\ LastClient
              /\ Selected(wm) \notin setup.neverFocus \cup {NULL}
              /\ Selected(wm)' \notin setup.neverFocus
              => Latest(wm') = Selected(wm)]_wm
  <2>1. Selected(wm)' = Selected(wm')
    BY DEF Selected
  <2>2. ASSUME NoFloats, LastClient, Selected(wm) \notin setup.neverFocus \cup {NULL},
               Selected(wm)' \notin setup.neverFocus
        PROVE  Latest(wm') = Selected(wm)
    <3>1. Selected(wm') \notin setup.neverFocus
      BY <2>1, <2>2
    <3> QED
      BY <1>1, <2>2, <3>1, LastClientBack
  <2> QED
    BY <2>2
<1> QED
  BY <1>1, ClientsInvariant, ListsInvariant, LatestInvariant, PTL DEF Spec, BackAndForth
=============================================================================
