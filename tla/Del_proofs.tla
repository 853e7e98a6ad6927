------------------------------ MODULE Del_proofs ------------------------------
(***************************************************************************)
(* For any number of refreshes, failures and crashes: the command list is  *)
(* always a whole one that some refresh made, sorted and without           *)
(* duplicates; a refresh without success leaves nothing; the menu reads    *)
(* one list; the launcher ends with the status that tells what happened;   *)
(* and it and the menu never wait for each other.                          *)
(***************************************************************************)
EXTENDS Del, FunctionTheorems, FiniteSetTheorems, SequenceTheorems, TLAPS

-----------------------------------------------------------------------------
(* Lists                                                                    *)

Place(S, i) == Cardinality({j \in S : j <= i})

\* The elements of a finite set of numbers have the places from 1 on, in order.
LEMMA Places ==
  ASSUME NEW S \in SUBSET Nat, IsFiniteSet(S)
  PROVE  /\ \A i \in S : Place(S, i) \in 1 .. Cardinality(S)
         /\ \A i, j \in S : i < j => Place(S, i) < Place(S, j)
         /\ \A n \in 1 .. Cardinality(S) : \E i \in S : Place(S, i) = n
<1> DEFINE Upto(i) == {j \in S : j <= i}
           N == Cardinality(S)
           at == [i \in S |-> Place(S, i)]
<1>1. ASSUME NEW i \in S
      PROVE  /\ IsFiniteSet(Upto(i)) /\ Upto(i) \in SUBSET S
             /\ Place(S, i) \in 1 .. N
  <2>1. Upto(i) \in SUBSET S /\ i \in Upto(i)
    OBVIOUS
  <2>2. IsFiniteSet(Upto(i)) /\ Cardinality(Upto(i)) <= N
    BY <2>1, FS_Subset
  <2>3. Cardinality(Upto(i)) \in Nat /\ Cardinality(Upto(i)) # 0 /\ N \in Nat
    BY <2>1, <2>2, FS_CardinalityType, FS_EmptySet
  <2> QED BY <2>1, <2>2, <2>3 DEF Place
<1>2. ASSUME NEW i \in S, NEW j \in S, i < j PROVE Place(S, i) < Place(S, j)
  <2>0. i \in Int /\ j \in Int
    OBVIOUS
  <2>1. Upto(i) \in SUBSET Upto(j) /\ j \in Upto(j) /\ j \notin Upto(i)
    <3>1. \A k \in S : k \in Int
      OBVIOUS
    <3>2. \A k \in S : k <= i => k <= j
      BY <1>2, <2>0, <3>1
    <3>3. ~(j <= i) /\ j <= j
      BY <1>2, <2>0
    <3> QED BY <3>2, <3>3
  <2>2. /\ Cardinality(Upto(i)) <= Cardinality(Upto(j))
        /\ Cardinality(Upto(i)) # Cardinality(Upto(j))
    <3> HIDE DEF Upto
    <3> QED BY <2>1, <1>1, FS_Subset
  <2>3. Cardinality(Upto(i)) \in Nat /\ Cardinality(Upto(j)) \in Nat
    BY <1>1, FS_CardinalityType
  <2> QED BY <2>2, <2>3 DEF Place
<1>3. ASSUME NEW n \in 1 .. N PROVE \E i \in S : Place(S, i) = n
  <2>1. N \in Nat
    BY FS_CardinalityType
  <2>2. IsFiniteSet(1 .. N) /\ Cardinality(1 .. N) = N
    BY <2>1, FS_Interval
  <2>3. at \in [S -> 1 .. N]
    BY <1>1
  <2>4. \A i, j \in S : at[i] = at[j] => i = j
    <3>1. SUFFICES ASSUME NEW i \in S, NEW j \in S, Place(S, i) = Place(S, j)
                   PROVE  i = j
      OBVIOUS
    <3>2. Place(S, i) \in Nat
      <4>1. Place(S, i) \in 1 .. N
        BY <1>1
      <4> QED BY <4>1, <2>1
    <3>3. ~(i < j) /\ ~(j < i)
      BY <1>2, <3>1, <3>2
    <3> QED BY <3>3
  <2>5. at \in Injection(S, 1 .. N)
    <3>1. IsInjective(at)
      BY <2>3, <2>4 DEF IsInjective
    <3> QED BY <2>3, <3>1 DEF Injection
  <2>6. at \in Surjection(S, 1 .. N)
    BY <2>2, <2>5, FS_Injection
  <2> QED BY <2>6 DEF Surjection
<1> QED BY <1>1, <1>2, <1>3

\* Pick() takes the elements at these places, all of them, in order.
LEMMA Picked ==
  ASSUME NEW T, NEW l \in Seq(T), NEW S \in SUBSET DOMAIN l
  PROVE  \E at \in [1 .. Cardinality(S) -> S] :
           /\ \A m, n \in 1 .. Cardinality(S) : m < n => at[m] < at[n]
           /\ \A i \in S : \E n \in 1 .. Cardinality(S) : at[n] = i
           /\ Pick(l, S) = [n \in 1 .. Cardinality(S) |-> l[at[n]]]
<1> DEFINE N == Cardinality(S)
           at == [n \in 1 .. N |-> CHOOSE i \in S : Place(S, i) = n]
<1>1. S \in SUBSET Nat /\ IsFiniteSet(S)
  <2>1. DOMAIN l = 1 .. Len(l) /\ Len(l) \in Nat
    BY LenProperties
  <2>2. IsFiniteSet(1 .. Len(l))
    BY <2>1, FS_Interval
  <2> QED BY <2>1, <2>2, FS_Subset
<1>2. \A n \in 1 .. N : at[n] \in S /\ Place(S, at[n]) = n
  BY <1>1, Places
<1>3. at \in [1 .. N -> S]
  BY <1>2
<1>4. ASSUME NEW m \in 1 .. N, NEW n \in 1 .. N, m < n PROVE at[m] < at[n]
  <2>1. at[m] \in S /\ at[n] \in S /\ Place(S, at[m]) = m /\ Place(S, at[n]) = n
    BY <1>2
  <2>2. at[n] < at[m] => Place(S, at[n]) < Place(S, at[m])
    BY <1>1, <2>1, Places
  <2>3. N \in Nat
    BY <1>1, FS_CardinalityType
  <2>4. at[m] # at[n] /\ ~(at[n] < at[m])
    BY <1>4, <2>1, <2>2, <2>3
  <2> HIDE DEF at
  <2> QED BY <2>1, <2>4, <1>1
<1>5. ASSUME NEW i \in S PROVE \E n \in 1 .. N : at[n] = i
  <2> DEFINE n == Place(S, i)
  <2>1. n \in 1 .. N
    BY <1>1, Places
  <2>2. at[n] \in S /\ Place(S, at[n]) = Place(S, i)
    BY <1>2, <2>1
  <2>3. ~(at[n] < i) /\ ~(i < at[n])
    <3>1. Place(S, i) \in Nat /\ Place(S, at[n]) \in Nat
      <4>1. N \in Nat
        BY <1>1, FS_CardinalityType
      <4> QED BY <2>1, <2>2, <4>1
    <3> HIDE DEF at, n
    <3> QED BY <1>1, <2>2, <3>1, Places
  <2>4. at[n] = i
    <3> HIDE DEF at, n
    <3> QED BY <1>1, <2>2, <2>3
  <2> QED BY <2>1, <2>4
<1>6. Pick(l, S) = [n \in 1 .. N |-> l[at[n]]]
  BY DEF Pick, Place
<1> QED BY <1>3, <1>4, <1>5, <1>6

LEMMA PickIsSeq ==
  ASSUME NEW T, NEW l \in Seq(T), NEW S \in SUBSET DOMAIN l, NEW U,
         \A i \in S : l[i] \in U
  PROVE  Pick(l, S) \in Seq(U)
<1>1. PICK at \in [1 .. Cardinality(S) -> S] :
        Pick(l, S) = [n \in 1 .. Cardinality(S) |-> l[at[n]]]
  BY Picked
<1>2. Cardinality(S) \in Nat
  <2>1. DOMAIN l = 1 .. Len(l) /\ Len(l) \in Nat
    BY LenProperties
  <2>2. IsFiniteSet(1 .. Len(l))
    BY <2>1, FS_Interval
  <2>3. IsFiniteSet(S)
    BY <2>1, <2>2, FS_Subset
  <2> QED BY <2>3, FS_CardinalityType
<1>3. \A n \in 1 .. Cardinality(S) : l[at[n]] \in U
  BY <1>1
<1>4. [n \in 1 .. Cardinality(S) |-> l[at[n]]] \in Seq(U)
  BY <1>2, <1>3, IsASeq
<1> QED BY <1>1, <1>4

\* What the directories hold.
Installed == UNION {UNION ToSet(path) : path \in Paths}

\* Sorted() is a permutation in which no later name comes before an earlier one.
LEMMA SortedSorts ==
  ASSUME NEW l \in Seq(Commands)
  PROVE  /\ Sorted(l) \in [DOMAIN l -> ToSet(l)]
         /\ \A m, n \in DOMAIN l : m < n => Rank[Sorted(l)[m]] <= Rank[Sorted(l)[n]]
<1> DEFINE before(j, i) == Rank[l[j]] < Rank[l[i]] \/ (Rank[l[j]] = Rank[l[i]] /\ j <= i)
           D == DOMAIN l
           Before(i) == {j \in D : before(j, i)}
           N == Len(l)
           at == [i \in D |-> Cardinality(Before(i))]
           s == [n \in D |-> CHOOSE i \in D : Cardinality(Before(i)) = n]
<1>1. D = 1 .. N /\ N \in Nat /\ l \in [D -> Commands]
  BY LenProperties
<1>2. IsFiniteSet(D) /\ Cardinality(D) = N
  <2> HIDE DEF D, N
  <2>1. IsFiniteSet(1 .. N) /\ Cardinality(1 .. N) = N
    BY <1>1, FS_Interval
  <2> QED BY <1>1, <2>1
<1>3. \A i \in D : Rank[l[i]] \in Nat
  BY <1>1, NamesAssumption
<1>4. ASSUME NEW i \in D
      PROVE  /\ IsFiniteSet(Before(i)) /\ Cardinality(Before(i)) \in 1 .. N
  <2>1. Before(i) \in SUBSET D /\ i \in Before(i)
    BY <1>1, <1>3
  <2>2. IsFiniteSet(Before(i)) /\ Cardinality(Before(i)) <= N
    <3> HIDE DEF Before, D
    <3> QED BY <2>1, <1>2, FS_Subset
  <2>3. Cardinality(Before(i)) \in Nat /\ Cardinality(Before(i)) # 0
    <3> HIDE DEF Before, D
    <3> QED BY <2>1, <2>2, FS_CardinalityType, FS_EmptySet
  <2> QED BY <2>2, <2>3, <1>1
<1>5. ASSUME NEW i \in D, NEW j \in D, ~before(j, i)
      PROVE  Cardinality(Before(i)) < Cardinality(Before(j))
  <2>1. i \in Int /\ j \in Int /\ Rank[l[i]] \in Nat /\ Rank[l[j]] \in Nat
    BY <1>1, <1>3
  <2>2. ASSUME NEW k \in D, before(k, i) PROVE before(k, j)
    <3>1. k \in Int /\ Rank[l[k]] \in Nat
      BY <1>1, <1>3
    <3> QED BY <2>1, <2>2, <3>1, <1>5
  <2>3. Before(i) \in SUBSET Before(j) /\ j \in Before(j) /\ j \notin Before(i)
    BY <1>5, <2>1, <2>2
  <2>4. /\ Cardinality(Before(i)) <= Cardinality(Before(j))
        /\ Cardinality(Before(i)) # Cardinality(Before(j))
    <3> HIDE DEF Before, D
    <3> QED BY <2>3, <1>4, FS_Subset
  <2>5. Cardinality(Before(i)) \in Nat /\ Cardinality(Before(j)) \in Nat
    BY <1>4, FS_CardinalityType
  <2> HIDE DEF Before, D
  <2> QED BY <2>4, <2>5
<1>6. ASSUME NEW n \in D
      PROVE  s[n] \in D /\ Cardinality(Before(s[n])) = n
  <2>1. at \in [D -> D]
    <3> HIDE DEF Before
    <3> QED BY <1>1, <1>4
  <2>2. ASSUME NEW i \in D, NEW j \in D, at[i] = at[j] PROVE i = j
    <3>1. Cardinality(Before(i)) = Cardinality(Before(j)) /\ Cardinality(Before(i)) \in Nat
      <4> HIDE DEF Before
      <4> QED BY <1>1, <1>4, <2>2
    <3>2. before(i, j) /\ before(j, i)
      <4> HIDE DEF Before, before
      <4> QED BY <3>1, <1>5
    <3> QED BY <3>2, <1>1, <1>3
  <2>3. at \in Injection(D, D)
    <3>1. IsInjective(at)
      <4> HIDE DEF Before
      <4> QED BY <2>1, <2>2 DEF IsInjective
    <3> HIDE DEF at
    <3> QED BY <2>1, <3>1 DEF Injection
  <2>4. at \in Surjection(D, D)
    <3> HIDE DEF at, D
    <3> QED BY <2>3, <1>2, FS_Injection
  <2>5. \E i \in D : Cardinality(Before(i)) = n
    <3> HIDE DEF Before
    <3> QED BY <2>4 DEF Surjection
  <2> HIDE DEF Before
  <2> QED BY <2>5
<1>7. Sorted(l) = [n \in D |-> l[s[n]]]
  BY DEF Sorted
<1>8. Sorted(l) \in [D -> ToSet(l)]
  <2> HIDE DEF s
  <2> QED BY <1>6, <1>7 DEF ToSet
<1>9. ASSUME NEW m \in D, NEW n \in D, m < n
      PROVE  Rank[Sorted(l)[m]] <= Rank[Sorted(l)[n]]
  <2>1. before(s[m], s[n])
    <3>1. ~(Cardinality(Before(s[n])) < Cardinality(Before(s[m])))
      <4> HIDE DEF s, Before
      <4> QED BY <1>1, <1>6, <1>9
    <3> HIDE DEF s, before, Before
    <3> QED BY <1>5, <1>6, <3>1
  <2>2. /\ s[m] \in D /\ s[n] \in D
        /\ Sorted(l)[m] = l[s[m]] /\ Sorted(l)[n] = l[s[n]]
    <3> HIDE DEF s
    <3> QED BY <1>6, <1>7
  <2>3. Rank[l[s[m]]] \in Nat /\ Rank[l[s[n]]] \in Nat
    BY <2>2, <1>3
  <2>4. Rank[l[s[m]]] <= Rank[l[s[n]]]
    <3> HIDE DEF s, D
    <3> QED BY <2>1, <2>3
  <2> QED BY <2>2, <2>4
<1> QED BY <1>8, <1>9

\* What is printed is in order and has each name once: of names that are equal
\* only the first one of the sorted list differs from the one before.
LEMMA PrintedIsOrdered ==
  ASSUME NEW l \in Seq(Installed)
  PROVE  Printed(Sorted(l)) \in OrderedLists /\ Printed(Sorted(l)) \in Seq(Installed)
<1> DEFINE s == Sorted(l)
           first == {i \in DOMAIN s : i = 1 \/ s[i] # s[i - 1]}
           out == Printed(s)
           N == Cardinality(first)
<1>0. Installed \subseteq Commands
  BY PathAssumption DEF Installed
<1>1. l \in Seq(Commands)
  BY <1>0, SeqMonotonic
<1>2. DOMAIN l = 1 .. Len(l) /\ Len(l) \in Nat /\ l \in [DOMAIN l -> Installed]
  BY LenProperties
<1>3. /\ s \in [1 .. Len(l) -> Installed]
      /\ \A m, n \in 1 .. Len(l) : m < n => Rank[s[m]] <= Rank[s[n]]
  <2>1. ToSet(l) \subseteq Installed
    BY <1>2 DEF ToSet
  <2> HIDE DEF s
  <2>2. /\ s \in [DOMAIN l -> ToSet(l)]
        /\ \A m, n \in DOMAIN l : m < n => Rank[s[m]] <= Rank[s[n]]
    BY <1>1, SortedSorts DEF s
  <2> QED BY <1>2, <2>1, <2>2
<1> HIDE DEF s
<1>4. s \in Seq(Installed) /\ DOMAIN s = 1 .. Len(l)
  <2>1. \A i \in 1 .. Len(l) : s[i] \in Installed
    BY <1>3
  <2>2. s = [i \in 1 .. Len(l) |-> s[i]]
    BY <1>3
  <2>3. [i \in 1 .. Len(l) |-> s[i]] \in Seq(Installed)
    BY <1>2, <2>1, IsASeq
  <2> QED BY <1>3, <2>2, <2>3
<1>5. \A i \in DOMAIN s : s[i] \in Installed /\ Rank[s[i]] \in Nat
  BY <1>0, <1>3, <1>4, NamesAssumption
<1>6. PICK at \in [1 .. N -> first] :
        /\ \A m, n \in 1 .. N : m < n => at[m] < at[n]
        /\ out = [n \in 1 .. N |-> s[at[n]]]
  <2>1. first \in SUBSET DOMAIN s
    OBVIOUS
  <2>2. out = Pick(s, first)
    BY DEF Printed
  <2> HIDE DEF first, out
  <2> QED BY <1>4, <2>1, <2>2, Picked
<1>7. N \in Nat /\ IsFiniteSet(first)
  <2>1. IsFiniteSet(1 .. Len(l))
    <3>1. Len(l) \in Int
      BY <1>2
    <3> QED BY <3>1, FS_Interval
  <2>2. IsFiniteSet(first)
    BY <1>4, <2>1, FS_Subset
  <2> QED BY <2>2, FS_CardinalityType
<1>8. out \in Seq(Installed)
  <2>1. \A n \in 1 .. N : s[at[n]] \in Installed
    BY <1>5, <1>6
  <2>2. [n \in 1 .. N |-> s[at[n]]] \in Seq(Installed)
    BY <1>7, <2>1, IsASeq
  <2> QED BY <1>6, <2>2
<1>9. ASSUME NEW m \in 1 .. N, NEW n \in 1 .. N, m < n
      PROVE  Rank[out[m]] < Rank[out[n]]
  <2> DEFINE i == at[m]
             k == at[n]
  <2>1. /\ i \in first /\ k \in first /\ i < k
        /\ out[m] = s[i] /\ out[n] = s[k]
    BY <1>6, <1>9
  <2> HIDE DEF i, k
  <2>2. i \in 1 .. Len(l) /\ k \in 1 .. Len(l) /\ k - 1 \in 1 .. Len(l) /\ i <= k - 1
    BY <1>2, <1>4, <2>1
  <2>3. s[k] # s[k - 1]
    BY <2>1, <2>2
  <2>4. Rank[s[k - 1]] # Rank[s[k]]
    BY <1>4, <1>5, <2>2, <2>3, OneCaseAssumption DEF Installed
  <2>5. Rank[s[i]] <= Rank[s[k - 1]] /\ Rank[s[k - 1]] <= Rank[s[k]]
    <3>1. i = k - 1 \/ i < k - 1
      BY <1>2, <2>2
    <3>2. k - 1 < k
      BY <1>2, <2>2
    <3>3. Rank[s[i]] \in Nat
      BY <1>4, <1>5, <2>2
    <3>4. Rank[s[i]] <= Rank[s[k - 1]]
      BY <1>3, <2>2, <3>1, <3>3
    <3> QED BY <1>3, <2>2, <3>2, <3>4
  <2>6. Rank[s[i]] \in Nat /\ Rank[s[k - 1]] \in Nat /\ Rank[s[k]] \in Nat
    BY <1>4, <1>5, <2>2
  <2>7. Rank[s[i]] < Rank[s[k]]
    BY <2>4, <2>5, <2>6
  <2> QED BY <2>1, <2>7
<1> HIDE DEF out, first
<1>10. out \in [1 .. N -> Commands] /\ DOMAIN out = 1 .. N
  BY <1>0, <1>5, <1>6, <1>4 DEF first
<1>11. N \in 0 .. Cardinality(Commands)
  <2>1. IsInjective(out)
    <3>1. \A n \in 1 .. N : Rank[out[n]] \in Nat
      BY <1>10, NamesAssumption
    <3>2. ASSUME NEW a \in 1 .. N, NEW b \in 1 .. N, out[a] = out[b] PROVE a = b
      <4>1. ~(a < b) /\ ~(b < a)
        BY <1>9, <3>1, <3>2
      <4> QED BY <1>7, <4>1
    <3> QED BY <1>10, <3>2 DEF IsInjective
  <2>2. out \in Injection(1 .. N, Commands)
    BY <1>10, <2>1 DEF Injection
  <2>3. Cardinality(1 .. N) <= Cardinality(Commands)
    BY <2>2, FiniteAssumption, FS_Injection
  <2>4. Cardinality(1 .. N) = N
    BY <1>7, FS_Interval
  <2>5. Cardinality(Commands) \in Nat
    BY FiniteAssumption, FS_CardinalityType
  <2> QED BY <1>7, <2>3, <2>4, <2>5
<1>12. out \in OrderedLists
  <2> HIDE DEF N
  <2> QED BY <1>9, <1>10, <1>11 DEF OrderedLists
<1> QED BY <1>8, <1>12 DEF out, s

\* The list stays one of names that are installed.
LEMMA LoadIsSeq ==
  ASSUME NEW l \in Seq(Installed), NEW T, NEW lines \in Seq(T), NEW patterns,
         NEW path \in Paths
  PROVE  load_commands_from_file(l, lines, patterns, path) \in Seq(Installed)
<1> DEFINE places == {i \in DOMAIN lines : /\ ~excluded(patterns, lines[i])
                                          /\ command_path(path, lines[i])}
<1>1. \A i \in places : lines[i] \in Installed
  BY DEF command_path, Installed, ToSet
<1>2. places \in SUBSET DOMAIN lines
  OBVIOUS
<1>3. Pick(lines, places) \in Seq(Installed)
  <2> HIDE DEF places
  <2> QED BY <1>1, <1>2, PickIsSeq
<1> QED BY <1>3, ConcatProperties DEF load_commands_from_file

LEMMA FoundIsSeq ==
  ASSUME NEW l \in Seq(Installed), NEW order \in SetToSeqs(Entries), NEW patterns,
         NEW path \in Paths
  PROVE  Found(l, order, patterns, path) \in Seq(Installed)
<1> DEFINE names == [i \in DOMAIN order |-> parse_desktop_entry(order[i], patterns, path)]
           new == {i \in DOMAIN order :
                     /\ names[i] # None /\ ~list_contains(l, names[i])
                     /\ \A j \in 1 .. i - 1 : names[j] # None => ~SameName(names[j], names[i])}
<1>1. \A lines : parse_desktop_entry(lines, patterns, path) \in Installed \cup {None}
  BY DEF parse_desktop_entry, command_path, Installed, ToSet
<1>2. DOMAIN order = 1 .. Cardinality(Entries) /\ Cardinality(Entries) \in Nat
  BY FiniteAssumption, FS_CardinalityType DEF SetToSeqs
<1>3. names \in Seq(Installed \cup {None})
  <2>1. \A i \in 1 .. Cardinality(Entries) :
          parse_desktop_entry(order[i], patterns, path) \in Installed \cup {None}
    BY <1>1
  <2>2. [i \in 1 .. Cardinality(Entries) |-> parse_desktop_entry(order[i], patterns, path)]
          \in Seq(Installed \cup {None})
    BY <1>2, <2>1, IsASeq
  <2> QED BY <1>2, <2>2
<1>4. \A i \in new : names[i] \in Installed
  BY <1>1
<1>5. new \in SUBSET DOMAIN names
  OBVIOUS
<1>6. Pick(names, new) \in Seq(Installed)
  <2> HIDE DEF new, names
  <2> QED BY <1>3, <1>4, <1>5, PickIsSeq
<1>7. Found(l, order, patterns, path) = l \o Pick(names, new)
  BY DEF Found
<1> QED BY <1>6, <1>7, ConcatProperties

-----------------------------------------------------------------------------
(* The invariant                                                            *)

Text == Commands \cup ToSet(OldList)

Labels == Over \cup {"stdin", "load", "search", "make", "print", "flush", "sync",
                     "rename", "unlink"}

RefreshTypeOK ==
  /\ pc \in [Proc -> Labels]
  /\ commands \in [Proc -> Seq(Installed)]
  /\ status \in [Proc -> {0, 1}]
  /\ content \in [Inodes -> Seq(Text)]
  /\ synced \subseteq Inodes
  /\ list \in Inodes \cup {Absent} /\ committed \in Inodes \cup {Absent}
  /\ temps \subseteq Proc
  /\ made \subseteq Seq(Text)

\* What can be found at the path, now or after a crash, is on the disk whole and
\* belongs to a refresh that is done with it.
Published(i) ==
  IF i = Absent THEN <<>> \in made
  ELSE /\ i \in synced /\ content[i] \in made
       /\ i \in Proc => pc[i] = "ended" /\ status[i] = 0

\* What a refresh that is not done has reached.
Progress(p) ==
  /\ pc[p] \in {"print", "flush", "sync", "rename"} => commands[p] \in made
  /\ pc[p] \in {"sync", "rename"} => content[p] = commands[p]
  /\ pc[p] = "rename" => p \in synced
  /\ p \in temps => pc[p] \in {"print", "flush", "sync", "rename", "unlink",
                               "complained", "dead"}

FileInv == Published(list) /\ Published(committed) /\ \A p \in Proc : Progress(p)

\* The file the menu has open does not change any more.
MenuInv ==
  /\ menu \in {"none", "fork", "reading", "showing", "exited", "killed"}
  /\ menu \in {"none", "fork"} => input = Closed /\ seen = <<>>
  /\ menu \in {"reading", "showing"} =>
       /\ input \in Inodes /\ content[input] \in made
       /\ input \in Proc => pc[input] = "ended"
       /\ seen \in Seq(Text) /\ Len(seen) <= Len(content[input])
       /\ \A i \in 1 .. Len(seen) : seen[i] = content[input][i]
       /\ menu = "showing" => Len(seen) = Len(content[input])

\* The commands among the lines that were taken from the pipe: all but the line
\* that does not end.
Complete == taken - IF taken = Len(printed) /\ Incomplete THEN 1 ELSE 0

\* Only the last line may be without a newline, and nothing is printed after it.
OutputInv ==
  /\ menu \in {"none", "fork", "reading"} => printed = <<>>
  /\ \A i \in 1 .. Len(printed) : i # Len(printed) => printed[i]
  /\ Incomplete => wanted = 0

LauncherTypeOK ==
  /\ launcher \in {"never", "start", "close", "read", "output", "hangup", "wait",
                   "ended", "dead"}
  /\ taken \in Nat /\ wanted \in Nat /\ fate \in Nat /\ started \in Nat
  /\ printed \in Seq(BOOLEAN) /\ taken <= Len(printed)
  /\ broken \in {"no", "wait", "fatal"}

\* The launcher has not lost count, and its return value is 0 until something
\* fails.
LauncherInv ==
  /\ launcher \in {"never", "start", "close"} =>
       failure = 1 /\ broken = "no" /\ taken = 0 /\ started = 0
  /\ launcher \in {"never", "start"} => menu = "none"
  /\ launcher = "read" => failure = 0 /\ broken = "no" /\ started = Complete
  /\ launcher \in {"output", "hangup", "wait"} =>
       /\ (broken = "fatal" /\ failure = 1) \/ (broken = "no" /\ failure = 0)
       /\ broken = "no" => MenuOver /\ started = Complete /\ taken = Len(printed)
  /\ launcher = "ended" => StatusTells /\ (MenuOver \/ menu = "none")
  /\ menu = "killed" /\ launcher # "dead" => fate # 0

Inv ==
  RefreshTypeOK /\ FileInv /\ MenuInv /\ LauncherTypeOK /\ OutputInv /\ LauncherInv

-----------------------------------------------------------------------------
(* Refreshes                                                                *)

LEMMA InitRefresh == ASSUME Init PROVE RefreshTypeOK /\ FileInv
<1> USE InodeAssumption DEF Init, RefreshInit, Inodes
<1>1. OldList \in Seq(Text) /\ <<>> \in Seq(Text)
  BY LinesAssumption, SeqMonotonic, EmptySeq DEF Text
<1>2. <<>> \in Seq(Installed)
  BY EmptySeq
<1>3. RefreshTypeOK
  <2>1. pc \in [Proc -> Labels]
    BY DEF Labels, Over
  <2>2. commands \in [Proc -> Seq(Installed)]
    BY <1>2
  <2>3. content \in [Inodes -> Seq(Text)]
    BY <1>1
  <2>4. made \subseteq Seq(Text)
    BY <1>1
  <2> QED BY <2>1, <2>2, <2>3, <2>4 DEF RefreshTypeOK
<1>4. Published(list) /\ Published(committed)
  BY DEF Published
<1>5. \A p \in Proc : Progress(p)
  BY DEF Progress
<1> QED BY <1>3, <1>4, <1>5 DEF FileInv

\* The lists a step of a refresh makes are of the right type.
LEMMA RefreshTypeStep ==
  ASSUME RefreshTypeOK, NEW p \in Proc, Refresh(p) \/ Kill(p)
  PROVE  RefreshTypeOK'
<1> USE DEF Goto, Fault
<1> DEFINE Retyped ==
             /\ pc' \in [Proc -> Labels] /\ commands' \in [Proc -> Seq(Installed)]
             /\ status' \in [Proc -> {0, 1}] /\ content' \in [Inodes -> Seq(Text)]
             /\ synced' \subseteq Inodes /\ list' \in Inodes \cup {Absent}
             /\ committed' \in Inodes \cup {Absent}
             /\ temps' \subseteq Proc /\ made' \subseteq Seq(Text)
<1>0. p \in Inodes
  BY DEF Inodes
<1>a. Installed \subseteq Text /\ Installed \subseteq Commands
  BY PathAssumption DEF Installed, Text
<1>b. \A l \in Seq(Installed) : l \in Seq(Text)
  BY <1>a, SeqMonotonic
<1>c. commands[p] \in Seq(Installed) /\ content[p] \in Seq(Text)
  BY <1>0 DEF RefreshTypeOK
<1>d. <<>> \in Seq(Installed) /\ <<>> \in Seq(Text)
  BY EmptySeq
<1>e. Current \in Seq(Text)
  BY <1>d DEF RefreshTypeOK, Current
<1>f. ASSUME NEW code \in {0, 1}, Exit(p, code)
      PROVE  /\ pc' \in [Proc -> Labels] /\ status' \in [Proc -> {0, 1}]
             /\ commands' \in [Proc -> Seq(Installed)]
  BY <1>d, <1>f DEF RefreshTypeOK, Exit, Forget, Labels, Over
<1>g. ASSUME Fails(p) PROVE Retyped
  BY <1>f, <1>g DEF RefreshTypeOK, Fails, fileVars
<1>h. ASSUME GiveUp(p) PROVE Retyped
  BY <1>h DEF RefreshTypeOK, GiveUp, fileVars, Labels
<1>1. CASE LoadExclusions(p)
  <2>1. CASE Fails(p)
    BY <1>g, <2>1 DEF RefreshTypeOK
  <2>2. CASE Goto(p, "stdin") /\ UNCHANGED <<commands, status, fileVars>>
    BY <2>2 DEF RefreshTypeOK, fileVars, Labels
  <2> QED BY <1>1, <2>1, <2>2 DEF LoadExclusions
<1>2. CASE LoadStdin(p)
  <2>1. CASE Fails(p)
    BY <1>g, <2>1 DEF RefreshTypeOK
  <2>2. ASSUME NEW lines \in Stdin, NEW path \in Paths,
               commands' = [commands EXCEPT ![p] =
                              load_commands_from_file(@, lines, exclusions[p], path)],
               Goto(p, "load"), UNCHANGED <<status, fileVars>>
        PROVE  RefreshTypeOK'
    <3>1. lines \in Seq(ToSet(lines))
      BY LinesAssumption
    <3>2. load_commands_from_file(commands[p], lines, exclusions[p], path) \in Seq(Installed)
      BY <1>c, <3>1, LoadIsSeq
    <3> QED BY <2>2, <3>2 DEF RefreshTypeOK, fileVars, Labels
  <2> QED BY <1>2, <2>1, <2>2 DEF LoadStdin
<1>3. CASE LoadList(p)
  <2>1. CASE Fails(p)
    BY <1>g, <2>1 DEF RefreshTypeOK
  <2>2. ASSUME NEW path \in Paths,
               commands' = [commands EXCEPT ![p] =
                              load_commands_from_file(@, Current, exclusions[p], path)],
               Goto(p, "search"), UNCHANGED <<status, fileVars>>
        PROVE  RefreshTypeOK'
    <3>1. load_commands_from_file(commands[p], Current, exclusions[p], path) \in Seq(Installed)
      BY <1>c, <1>e, LoadIsSeq
    <3> QED BY <2>2, <3>1 DEF RefreshTypeOK, fileVars, Labels
  <2> QED BY <1>3, <2>1, <2>2 DEF LoadList
<1>4. CASE Search(p)
  <2>1. CASE Fails(p)
    BY <1>g, <2>1 DEF RefreshTypeOK
  <2>2. ASSUME NEW order \in SetToSeqs(Entries), NEW path \in Paths,
               UNCHANGED fileVars,
               \/ Exit(p, 1)
               \/ /\ commands' = [commands EXCEPT ![p] =
                                    Found(commands[p], order, exclusions[p], path)]
                  /\ Goto(p, "make") /\ UNCHANGED status
        PROVE  RefreshTypeOK'
    <3>1. Found(commands[p], order, exclusions[p], path) \in Seq(Installed)
      BY <1>c, FoundIsSeq
    <3>2. CASE Exit(p, 1)
      BY <1>f, <2>2, <3>2 DEF RefreshTypeOK, fileVars
    <3>3. CASE ~Exit(p, 1)
      BY <2>2, <3>1, <3>3 DEF RefreshTypeOK, fileVars, Labels
    <3> QED BY <3>2, <3>3
  <2> QED BY <1>4, <2>1, <2>2 DEF Search
<1>5. CASE MakeTemp(p)
  <2>1. CASE Fails(p)
    BY <1>g, <2>1 DEF RefreshTypeOK
  <2>2. CASE ~Fails(p)
    <3>1. Printed(Sorted(commands[p])) \in Seq(Installed)
      BY <1>c, PrintedIsOrdered
    <3> QED BY <1>5, <1>b, <2>2, <3>1 DEF MakeTemp, RefreshTypeOK, Labels
  <2> QED BY <2>1, <2>2
<1>6. CASE PrintList(p)
  <2>1. \A part \in Prefixes(commands[p]) : part \in Seq(Text)
    <3>1. Len(commands[p]) \in Nat /\ \A i \in 1 .. Len(commands[p]) : commands[p][i] \in Text
      BY <1>a, <1>c, ElementOfSeq, LenProperties
    <3>2. ASSUME NEW n \in 0 .. Len(commands[p])
          PROVE  SubSeq(commands[p], 1, n) \in Seq(Text)
      <4>1. n \in Int /\ \A i \in 1 .. n : commands[p][i] \in Text
        BY <3>1
      <4> QED BY <4>1, SubSeqProperties
    <3> QED BY <3>2 DEF Prefixes
  <2> QED BY <1>6, <2>1 DEF PrintList, RefreshTypeOK, Labels
<1>7. CASE Flush(p)
  BY <1>7, <1>b, <1>c, <1>h DEF Flush, RefreshTypeOK, Labels
<1>8. CASE Sync(p)
  BY <1>8, <1>0, <1>h DEF Sync, RefreshTypeOK, Labels
<1>9. CASE Rename(p)
  <2>1. CASE GiveUp(p)
    BY <1>h, <2>1 DEF RefreshTypeOK
  <2>2. CASE ~GiveUp(p)
    BY <1>9, <1>0, <1>f, <2>2 DEF Rename, RefreshTypeOK
  <2> QED BY <2>1, <2>2
<1>10. CASE Unlink(p)
  BY <1>10, <1>d DEF Unlink, Forget, RefreshTypeOK, Labels, Over
<1>11. CASE Kill(p)
  BY <1>11, <1>d DEF Kill, Forget, RefreshTypeOK, Labels, Over, fileVars
<1> QED BY <1>1, <1>2, <1>3, <1>4, <1>5, <1>6, <1>7, <1>8, <1>9, <1>10, <1>11 DEF Refresh

\* A refresh does nothing to what is published, and its own file is published
\* only when it is whole and on the disk.
LEMMA FileStep ==
  ASSUME RefreshTypeOK, FileInv, NEW p \in Proc, Refresh(p) \/ Kill(p)
  PROVE  FileInv'
<1> USE DEF Goto, Fault
<1>0. p \in Inodes /\ p # Absent /\ \A q \in Proc : q \in Inodes /\ q # Absent
  BY InodeAssumption DEF Inodes
<1>a. /\ pc \in [Proc -> Labels] /\ status \in [Proc -> {0, 1}]
      /\ commands \in [Proc -> Seq(Installed)] /\ content \in [Inodes -> Seq(Text)]
      /\ list \in Inodes \cup {Absent} /\ committed \in Inodes \cup {Absent}
  BY DEF RefreshTypeOK
<1>b. Published(list) /\ Published(committed) /\ \A q \in Proc : Progress(q)
  BY DEF FileInv
<1>c. ASSUME pc[p] # "ended", UNCHANGED <<list, committed>>, made \subseteq made',
             synced \subseteq synced',
             \A q \in Proc \ {p} : pc'[q] = pc[q] /\ status'[q] = status[q],
             \A i \in Inodes \ {p} : content'[i] = content[i]
      PROVE  Published(list)' /\ Published(committed)'
  <2>1. \A i : i # p /\ i \in Inodes \cup {Absent} /\ Published(i) => Published(i)'
    BY <1>0, <1>c DEF Published
  <2>2. list # p /\ committed # p
    BY <1>0, <1>b, <1>c DEF Published
  <2>3. Published(list') /\ Published(committed')
    BY <1>b, <1>c
  <2> QED BY <1>a, <1>b, <1>c, <2>1, <2>2
<1>d. ASSUME pc[p] \in {"start", "stdin", "load", "search", "make"}, Exit(p, 1),
             UNCHANGED fileVars
      PROVE  FileInv'
  <2>1. Published(list)' /\ Published(committed)'
    BY <1>a, <1>c, <1>d DEF Exit, fileVars
  <2>2. \A q \in Proc : Progress(q)'
    BY <1>a, <1>b, <1>d DEF Exit, Forget, fileVars, Progress
  <2> QED BY <2>1, <2>2 DEF FileInv
<1>e. ASSUME NEW label \in {"stdin", "load", "search", "make"}, Goto(p, label),
             pc[p] \in {"start", "stdin", "load", "search"}, UNCHANGED <<status, fileVars>>,
             \A q \in Proc \ {p} : commands'[q] = commands[q]
      PROVE  FileInv'
  <2>1. Published(list)' /\ Published(committed)'
    BY <1>a, <1>c, <1>e DEF fileVars
  <2>2. \A q \in Proc : Progress(q)'
    BY <1>a, <1>b, <1>e DEF fileVars, Progress
  <2> QED BY <2>1, <2>2 DEF FileInv
<1>f. ASSUME pc[p] \in {"flush", "sync", "rename"}, GiveUp(p) PROVE FileInv'
  <2>1. Published(list)' /\ Published(committed)'
    BY <1>a, <1>c, <1>f DEF GiveUp, fileVars
  <2>2. \A q \in Proc : Progress(q)'
    BY <1>a, <1>b, <1>f DEF GiveUp, fileVars, Progress
  <2> QED BY <2>1, <2>2 DEF FileInv
<1>1. CASE LoadExclusions(p)
  BY <1>1, <1>d, <1>e DEF LoadExclusions, Fails
<1>2. CASE LoadStdin(p)
  <2>1. CASE Fails(p)
    BY <1>2, <1>d, <2>1 DEF LoadStdin, Fails
  <2>2. CASE ~Fails(p)
    <3>1. \A q \in Proc \ {p} : commands'[q] = commands[q]
      BY <1>2, <1>a, <2>2 DEF LoadStdin
    <3> QED BY <1>2, <1>e, <2>2, <3>1 DEF LoadStdin
  <2> QED BY <2>1, <2>2
<1>3. CASE LoadList(p)
  <2>1. CASE Fails(p)
    BY <1>3, <1>d, <2>1 DEF LoadList, Fails
  <2>2. CASE ~Fails(p)
    <3>1. \A q \in Proc \ {p} : commands'[q] = commands[q]
      BY <1>3, <1>a, <2>2 DEF LoadList
    <3> QED BY <1>3, <1>e, <2>2, <3>1 DEF LoadList
  <2> QED BY <2>1, <2>2
<1>4. CASE Search(p)
  <2>1. CASE Exit(p, 1)
    BY <1>4, <1>d, <2>1 DEF Search, Fails
  <2>2. CASE ~Exit(p, 1)
    <3>1. \A q \in Proc \ {p} : commands'[q] = commands[q]
      BY <1>4, <1>a, <2>2 DEF Search, Fails
    <3> QED BY <1>4, <1>e, <2>2, <3>1 DEF Search, Fails
  <2> QED BY <2>1, <2>2
<1>5. CASE MakeTemp(p)
  <2>1. CASE Fails(p)
    BY <1>5, <1>d, <2>1 DEF MakeTemp, Fails
  <2>2. CASE ~Fails(p)
    <3>1. Published(list)' /\ Published(committed)'
      BY <1>5, <1>a, <1>c, <2>2 DEF MakeTemp
    <3>2. \A q \in Proc : Progress(q)'
      BY <1>5, <1>a, <1>b, <2>2 DEF MakeTemp, Progress
    <3> QED BY <3>1, <3>2 DEF FileInv
  <2> QED BY <2>1, <2>2
<1>6. CASE PrintList(p)
  <2>1. \A i \in Inodes \ {p} : content'[i] = content[i]
    BY <1>6, <1>a DEF PrintList
  <2>2. Published(list)' /\ Published(committed)'
    BY <1>6, <1>a, <1>c, <2>1 DEF PrintList
  <2>3. \A q \in Proc : Progress(q)'
    BY <1>0, <1>6, <1>a, <1>b, <2>1 DEF PrintList, Progress
  <2> QED BY <2>2, <2>3 DEF FileInv
<1>7. CASE Flush(p)
  <2>1. CASE GiveUp(p)
    BY <1>7, <1>f, <2>1 DEF Flush
  <2>2. CASE ~GiveUp(p)
    <3>1. Published(list)' /\ Published(committed)'
      BY <1>7, <1>a, <1>c, <2>2 DEF Flush
    <3>2. \A q \in Proc : Progress(q)'
      BY <1>0, <1>7, <1>a, <1>b, <2>2 DEF Flush, Progress
    <3> QED BY <3>1, <3>2 DEF FileInv
  <2> QED BY <2>1, <2>2
<1>8. CASE Sync(p)
  <2>1. CASE GiveUp(p)
    BY <1>8, <1>f, <2>1 DEF Sync
  <2>2. CASE ~GiveUp(p)
    <3>1. Published(list)' /\ Published(committed)'
      BY <1>8, <1>a, <1>c, <2>2 DEF Sync
    <3>2. \A q \in Proc : Progress(q)'
      BY <1>8, <1>a, <1>b, <2>2 DEF Sync, Progress
    <3> QED BY <3>1, <3>2 DEF FileInv
  <2> QED BY <2>1, <2>2
<1>9. CASE Rename(p)
  <2>1. CASE GiveUp(p)
    BY <1>9, <1>f, <2>1 DEF Rename
  <2>2. CASE ~GiveUp(p)
    <3>1. /\ pc[p] = "rename" /\ list' = p /\ temps' = temps \ {p}
          /\ pc' = [pc EXCEPT ![p] = "ended"] /\ status' = [status EXCEPT ![p] = 0]
          /\ commands' = [commands EXCEPT ![p] = <<>>]
          /\ UNCHANGED <<content, synced, committed, made>>
      BY <1>9, <2>2 DEF Rename, Exit, Forget
    <3>2. p \in synced /\ content[p] \in made
      BY <1>b, <3>1 DEF Progress
    <3>3. Published(list)'
      BY <1>0, <1>a, <3>1, <3>2 DEF Published
    <3>4. Published(committed)'
      <4>1. committed # p
        BY <1>0, <1>b, <3>1 DEF Published
      <4> QED BY <1>a, <1>b, <3>1, <4>1 DEF Published
    <3>5. \A q \in Proc : Progress(q)'
      BY <1>a, <1>b, <3>1 DEF Progress
    <3> QED BY <3>3, <3>4, <3>5 DEF FileInv
  <2> QED BY <2>1, <2>2
<1>10. CASE Unlink(p)
  <2>1. Published(list)' /\ Published(committed)'
    BY <1>10, <1>a, <1>c DEF Unlink
  <2>2. \A q \in Proc : Progress(q)'
    BY <1>0, <1>10, <1>a, <1>b DEF Unlink, Forget, Progress
  <2> QED BY <2>1, <2>2 DEF FileInv
<1>11. CASE Kill(p)
  <2>1. Published(list)' /\ Published(committed)'
    BY <1>11, <1>a, <1>c DEF Kill, Over, fileVars
  <2>2. \A q \in Proc : Progress(q)'
    BY <1>11, <1>a, <1>b DEF Kill, Over, Forget, fileVars, Progress
  <2> QED BY <2>1, <2>2 DEF FileInv
<1> QED BY <1>1, <1>2, <1>3, <1>4, <1>5, <1>6, <1>7, <1>8, <1>9, <1>10, <1>11 DEF Refresh

LEMMA CommitStep ==
  ASSUME RefreshTypeOK, FileInv, Commit PROVE RefreshTypeOK' /\ FileInv'
<1>1. RefreshTypeOK'
  BY DEF RefreshTypeOK, Commit, runVars
<1>2. Published(list)' /\ Published(committed)'
  BY DEF Commit, runVars, FileInv, Published
<1>3. \A p \in Proc : Progress(p)'
  BY DEF Commit, runVars, FileInv, Progress
<1> QED BY <1>1, <1>2, <1>3 DEF FileInv

\* Nothing is lost in a crash that had been published.
LEMMA CrashStep ==
  ASSUME RefreshTypeOK, FileInv, Crash
  PROVE  RefreshTypeOK' /\ FileInv' /\ UNCHANGED <<content, synced, made>>
<1>1. UNCHANGED <<content, synced, committed, made, status, temps>> /\ list' = committed
  BY DEF FileInv, Published, Crash
<1>2. /\ pc' = [p \in Proc |-> IF pc[p] \in Over THEN pc[p] ELSE "dead"]
      /\ commands' = [p \in Proc |-> <<>>]
  BY DEF Crash
<1>3. RefreshTypeOK'
  <2>1. <<>> \in Seq(Installed)
    BY EmptySeq
  <2> QED BY <1>1, <1>2, <2>1 DEF RefreshTypeOK, Labels, Over
<1>4. Published(list)' /\ Published(committed)'
  BY <1>1, <1>2 DEF FileInv, Published, Over
<1>5. \A p \in Proc : Progress(p)'
  BY <1>1, <1>2 DEF FileInv, Progress, Over
<1> QED BY <1>1, <1>3, <1>4, <1>5 DEF FileInv

\* What a refresh does, seen from the path: nothing, a list it has made, or the
\* one it made before at the path.  A file whose refresh has ended stays as it is.
LEMMA RefreshSeen ==
  ASSUME RefreshTypeOK, FileInv, NEW p \in Proc, Refresh(p) \/ Kill(p)
  PROVE  /\ \/ UNCHANGED <<Current, made>>
            \/ \E l \in OrderedLists : made' = made \cup {l} /\ UNCHANGED Current
            \/ Current' \in made /\ UNCHANGED made
         /\ made \subseteq made'
         /\ pc[p] # "ended" /\ \A q \in Proc \ {p} : pc'[q] = pc[q]
         /\ \A i \in Inodes \ {p} : content'[i] = content[i]
<1> USE DEF Goto, Fault
<1>0. p \in Inodes /\ p # Absent
  BY InodeAssumption DEF Inodes
<1>1. /\ pc[p] # "ended" /\ \A q \in Proc \ {p} : pc'[q] = pc[q]
      /\ \A i \in Inodes \ {p} : content'[i] = content[i]
      /\ made \subseteq made'
  BY DEF RefreshTypeOK, Refresh, LoadExclusions, LoadStdin, LoadList, Search, MakeTemp,
         PrintList, Flush, Sync, Rename, Unlink, Kill, Exit, Fails, GiveUp, fileVars, Over
<1>2. list # p
  BY <1>0, <1>1 DEF FileInv, Published
<1>3. list \in Inodes \cup {Absent}
  BY DEF RefreshTypeOK
<1>4. ASSUME UNCHANGED list PROVE UNCHANGED Current
  BY <1>1, <1>2, <1>3, <1>4 DEF Current
<1>5. CASE MakeTemp(p)
  <2>1. UNCHANGED list
    BY <1>5 DEF MakeTemp, Fails, fileVars
  <2>2. CASE UNCHANGED made
    BY <1>1, <1>4, <2>1, <2>2
  <2>3. CASE made' # made
    <3>1. made' = made \cup {Printed(Sorted(commands[p]))}
      BY <1>5, <2>3 DEF MakeTemp, Fails, fileVars, RefreshTypeOK
    <3>2. Printed(Sorted(commands[p])) \in OrderedLists
      BY PrintedIsOrdered DEF RefreshTypeOK
    <3> QED BY <1>1, <1>4, <2>1, <3>1, <3>2
  <2> QED BY <2>2, <2>3
<1>6. CASE Rename(p)
  <2>1. CASE GiveUp(p)
    BY <1>1, <1>4, <2>1 DEF GiveUp, fileVars
  <2>2. CASE ~GiveUp(p)
    <3>1. pc[p] = "rename" /\ list' = p /\ UNCHANGED <<content, made>>
      BY <1>6, <2>2 DEF Rename
    <3>2. content[p] \in made
      BY <3>1 DEF FileInv, Progress
    <3>3. Current' = content[p]
      BY <1>0, <3>1 DEF Current
    <3> QED BY <1>1, <3>1, <3>2, <3>3
  <2> QED BY <2>1, <2>2
<1>7. CASE ~MakeTemp(p) /\ ~Rename(p)
  <2>1. UNCHANGED <<list, made>>
    BY <1>7 DEF Refresh, LoadExclusions, LoadStdin, LoadList, Search, PrintList, Flush,
                Sync, Unlink, Kill, Exit, Fails, GiveUp, fileVars
  <2> QED BY <1>1, <1>4, <2>1
<1> QED BY <1>5, <1>6, <1>7

-----------------------------------------------------------------------------
(* The menu                                                                 *)

\* Whatever happens to the list, the file the menu reads stays as it is.
LEMMA MenuKept ==
  ASSUME MenuInv, UNCHANGED <<menu, input, seen>>, made \subseteq made',
         \A i \in Inodes : (i \in Proc => pc[i] = "ended") =>
                            /\ content'[i] = content[i]
                            /\ i \in Proc => pc'[i] = "ended"
  PROVE  MenuInv'
BY DEF MenuInv

LEMMA MenuStep ==
  ASSUME RefreshTypeOK, FileInv, MenuInv, LauncherInv, Launching
  PROVE  MenuInv'
<1>0. UNCHANGED <<pc, content, made>>
  BY DEF Launching, refreshVars, runVars, fileVars
<1>1. CASE LauncherNext
  <2>1. UNCHANGED <<input, seen>> /\ menu' \in {menu, "fork"}
    BY <1>1 DEF LauncherNext, Launch, OpenOutput, ReadLine, ReadEnd, CloseOutput, HangUp,
                Wait, menuProgramVars
  <2>2. menu' = menu \/ menu = "none"
    BY <1>1 DEF LauncherNext, Launch, OpenOutput, ReadLine, ReadEnd, CloseOutput, HangUp,
                Wait, menuProgramVars, LauncherInv
  <2> QED BY <1>0, <2>1, <2>2 DEF MenuInv
<1>2. CASE ChildOpens
  <2>1. CASE menu' = "exited"
    BY <2>1 DEF MenuInv
  <2>2. CASE menu' # "exited"
    <3>1. /\ menu' = "reading" /\ input' = list /\ list # Absent
          /\ seen = <<>> /\ UNCHANGED seen
      BY <1>2, <2>2, NoFileAssumption DEF ChildOpens, BecomeMenu, MenuEnds, MenuInv
    <3>2. /\ list \in Inodes /\ content[list] \in made /\ content[list] \in Seq(Text)
          /\ list \in Proc => pc[list] = "ended"
      BY <3>1 DEF RefreshTypeOK, FileInv, Published
    <3>3. <<>> \in Seq(Text) /\ Len(<<>>) = 0 /\ Len(content[list]) \in Nat
      BY <3>2, EmptySeq, LenProperties
    <3> QED BY <1>0, <3>1, <3>2, <3>3 DEF MenuInv
  <2> QED BY <2>1, <2>2
<1>3. CASE MenuReadsInput
  <2> DEFINE entries == content[input]
  <2>1. /\ menu = "reading" /\ UNCHANGED input
        /\ IF Len(seen) < Len(entries)
           THEN seen' = Append(seen, entries[Len(seen) + 1]) /\ UNCHANGED menu
           ELSE menu' = "showing" /\ UNCHANGED seen
    BY <1>3 DEF MenuReadsInput, MenuReads
  <2>2. /\ input \in Inodes /\ entries \in made
        /\ input \in Proc => pc[input] = "ended"
        /\ seen \in Seq(Text) /\ Len(seen) <= Len(entries)
        /\ \A i \in 1 .. Len(seen) : seen[i] = entries[i]
    BY <2>1 DEF MenuInv
  <2> HIDE DEF entries
  <2>3. entries \in Seq(Text) /\ Len(entries) \in Nat /\ Len(seen) \in Nat
    <3>1. made \subseteq Seq(Text)
      BY DEF RefreshTypeOK
    <3>2. entries \in made /\ seen \in Seq(Text)
      BY <2>2
    <3>3. entries \in Seq(Text)
      BY <3>1, <3>2
    <3> QED BY <3>2, <3>3, LenProperties
  <2>4. CASE Len(seen) < Len(entries)
    <3>1. Len(seen) + 1 \in 1 .. Len(entries)
      BY <2>3, <2>4
    <3>2. entries[Len(seen) + 1] \in Text
      BY <2>3, <3>1, ElementOfSeq
    <3>3. seen' = Append(seen, entries[Len(seen) + 1])
      BY <2>1, <2>4
    <3>4. /\ seen' \in Seq(Text) /\ Len(seen') = Len(seen) + 1
          /\ \A i \in 1 .. Len(seen) : seen'[i] = seen[i]
          /\ seen'[Len(seen) + 1] = entries[Len(seen) + 1]
      BY <2>2, <3>2, <3>3, AppendProperties
    <3>5. \A i \in 1 .. Len(seen') : seen'[i] = entries[i]
      BY <2>2, <2>3, <3>4
    <3>6. Len(seen') <= Len(entries)
      BY <2>3, <2>4, <3>4
    <3>7. entries' = entries
      BY <1>0, <2>1 DEF entries
    <3>8. menu' = "reading"
      BY <2>1, <2>4
    <3> QED BY <1>0, <2>1, <2>2, <3>4, <3>5, <3>6, <3>7, <3>8 DEF MenuInv, entries
  <2>5. CASE ~(Len(seen) < Len(entries))
    <3>1. menu' = "showing" /\ UNCHANGED seen /\ Len(seen) = Len(entries)
      BY <2>1, <2>2, <2>3, <2>5
    <3>2. entries' = entries
      BY <1>0, <2>1 DEF entries
    <3> QED BY <1>0, <2>1, <2>2, <3>1, <3>2 DEF MenuInv, entries
  <2> QED BY <2>4, <2>5
<1>4. CASE MenuPrints \/ MenuExits \/ MenuHangsUp \/ MenuKilled
  <2>1. UNCHANGED <<input, seen>>
    BY <1>4 DEF MenuPrints, MenuExits, MenuHangsUp, MenuKilled
  <2>2. menu' = menu \/ menu' \in {"exited", "killed"}
    BY <1>4 DEF MenuPrints, MenuExits, MenuHangsUp, MenuKilled, MenuEnds
  <2> QED BY <1>0, <2>1, <2>2 DEF MenuInv
<1> QED BY <1>1, <1>2, <1>3, <1>4 DEF Launching, MenuNext

LEMMA MenuCrashStep ==
  ASSUME RefreshTypeOK, FileInv, MenuInv, MachineCrash PROVE MenuInv'
<1>1. UNCHANGED <<content, made, input, seen>>
  BY CrashStep DEF MachineCrash, MenuCrash
<1>2. menu' = menu \/ menu' = "killed"
  BY DEF MachineCrash, MenuCrash
<1>3. \A p \in Proc : pc[p] = "ended" => pc'[p] = "ended"
  BY DEF MachineCrash, Crash, Over
<1> QED BY <1>1, <1>2, <1>3 DEF MenuInv

-----------------------------------------------------------------------------
(* The launcher                                                             *)

\* One line more is taken: all the lines before it were whole, and so is it unless
\* it is the last one.
LEMMA TakenGrows ==
  ASSUME LauncherTypeOK, OutputInv, taken < Len(printed), taken' = taken + 1,
         UNCHANGED printed
  PROVE  Complete = taken /\ Complete' = taken + IF printed[taken + 1] THEN 1 ELSE 0
<1>1. taken \in Nat /\ Len(printed) \in Nat
  BY LenProperties DEF LauncherTypeOK
<1>2. Complete = taken
  BY <1>1 DEF Complete
<1>3. printed[taken + 1] \/ taken + 1 = Len(printed)
  BY <1>1 DEF OutputInv
<1>4. Complete' = taken + 1 - IF taken + 1 = Len(printed) /\ Incomplete THEN 1 ELSE 0
  <2>1. Incomplete' <=> Incomplete
    BY DEF Incomplete
  <2>2. Complete' = taken' - IF taken' = Len(printed') /\ Incomplete' THEN 1 ELSE 0
    BY DEF Complete
  <2>3. Len(printed') = Len(printed)
    OBVIOUS
  <2> QED BY <1>1, <2>1, <2>2, <2>3
<1>5. CASE printed[taken + 1]
  <2>1. ~(taken + 1 = Len(printed) /\ Incomplete)
    BY <1>5 DEF Incomplete
  <2> QED BY <1>1, <1>2, <1>4, <1>5, <2>1
<1>6. CASE ~printed[taken + 1]
  <2>1. taken + 1 = Len(printed) /\ ~printed[Len(printed)]
    BY <1>3, <1>6
  <2>2. Incomplete
    BY <1>1, <2>1 DEF Incomplete
  <2> QED BY <1>1, <1>2, <1>4, <1>6, <2>1, <2>2
<1> QED BY <1>5, <1>6

\* What the menu does leaves its output as lines, the last one perhaps not whole,
\* and the lines that were taken as they are.
LEMMA OutputStep ==
  ASSUME LauncherTypeOK, OutputInv, MenuNext
  PROVE  OutputInv' /\ Complete' = Complete
<1>0. /\ taken \in Nat /\ Len(printed) \in Nat /\ taken <= Len(printed)
      /\ printed \in Seq(BOOLEAN)
  BY LenProperties DEF LauncherTypeOK
<1>a. UNCHANGED taken
  BY DEF MenuNext, ChildOpens, BecomeMenu, MenuReadsInput, MenuReads, MenuPrints,
         MenuExits, MenuHangsUp, MenuKilled, launcherVars
<1>1. ASSUME UNCHANGED printed PROVE Complete' = Complete /\ Incomplete' = Incomplete
  BY <1>a, <1>1 DEF Complete, Incomplete
<1>2. CASE ChildOpens
  <2>1. printed = <<>> /\ UNCHANGED printed
    BY <1>2 DEF ChildOpens, BecomeMenu, OutputInv
  <2> QED BY <1>1, <2>1 DEF OutputInv, Incomplete
<1>3. CASE MenuReadsInput
  <2>1. printed = <<>> /\ UNCHANGED printed
    BY <1>3 DEF MenuReadsInput, MenuReads, OutputInv
  <2> QED BY <1>1, <2>1 DEF OutputInv, Incomplete
<1>4. CASE MenuExits \/ MenuHangsUp \/ MenuKilled
  <2>1. UNCHANGED <<printed, wanted>> /\ menu' \in {"exited", "killed"}
    BY <1>4 DEF MenuExits, MenuHangsUp, MenuKilled, MenuEnds
  <2> QED BY <1>1, <2>1 DEF OutputInv
<1>5. CASE MenuPrints
  <2>1. menu' \in {"showing", "killed"} /\ wanted > 0
    BY <1>5 DEF MenuPrints, MenuEnds
  <2>2. CASE UNCHANGED <<printed, wanted>>
    BY <1>1, <2>1, <2>2 DEF OutputInv
  <2>3. ASSUME NEW newline \in BOOLEAN, printed' = Append(printed, newline),
               wanted' = wanted - 1, newline \/ wanted = 1
        PROVE  OutputInv' /\ Complete' = Complete
    <3>1. wanted \in Nat /\ ~Incomplete
      <4>1. wanted \in Nat
        BY DEF LauncherTypeOK
      <4> QED BY <2>1, <4>1 DEF OutputInv
    <3>2. /\ Len(printed') = Len(printed) + 1 /\ printed'[Len(printed) + 1] = newline
          /\ \A i \in 1 .. Len(printed) : printed'[i] = printed[i]
      BY <1>0, <2>3, AppendProperties
    <3>3. Complete' = Complete
      <4>1. Complete = taken
        BY <1>0, <3>1 DEF Complete
      <4>2. taken' # Len(printed')
        BY <1>0, <1>a, <3>2
      <4>3. Complete' = taken' - IF taken' = Len(printed') /\ Incomplete' THEN 1 ELSE 0
        BY DEF Complete
      <4> QED BY <1>0, <1>a, <4>1, <4>2, <4>3
    <3>4. \A i \in 1 .. Len(printed) : printed[i]
      BY <1>0, <3>1 DEF OutputInv, Incomplete
    <3>5. \A i \in 1 .. Len(printed') : i # Len(printed') => printed'[i]
      <4>1. TAKE i \in 1 .. Len(printed')
      <4>2. HAVE i # Len(printed')
      <4>3. i \in 1 .. Len(printed)
        BY <1>0, <3>2, <4>2
      <4> QED BY <3>2, <3>4, <4>3
    <3>6. Incomplete' => wanted' = 0
      <4>1. ASSUME Incomplete' PROVE ~newline
        BY <3>2, <4>1 DEF Incomplete
      <4>2. wanted = 1 => wanted' = 0
        BY <2>3
      <4> QED BY <2>3, <4>1, <4>2
    <3>7. menu' \notin {"none", "fork", "reading"}
      BY <2>1
    <3> QED BY <3>3, <3>5, <3>6, <3>7 DEF OutputInv
  <2>4. \/ UNCHANGED <<printed, wanted>>
        \/ \E newline \in BOOLEAN : /\ printed' = Append(printed, newline)
                                    /\ wanted' = wanted - 1 /\ (newline \/ wanted = 1)
    BY <1>5 DEF MenuPrints
  <2> QED BY <2>2, <2>3, <2>4
<1> QED BY <1>2, <1>3, <1>4, <1>5 DEF MenuNext

\* So does everything else.
LEMMA OutputKept ==
  ASSUME OutputInv, UNCHANGED <<printed, wanted>>,
         menu' \in {"none", "fork", "reading"} => menu \in {"none", "fork", "reading"}
  PROVE  OutputInv'
BY DEF OutputInv, Incomplete

LEMMA OutputInvStep ==
  ASSUME LauncherTypeOK, OutputInv, LauncherInv, Launching \/ MenuCrash PROVE OutputInv'
<1>1. CASE MenuNext
  BY <1>1, OutputStep
<1>2. CASE Launch
  <2>1. UNCHANGED <<printed, wanted>> /\ menu = "none"
    BY <1>2 DEF Launch, LauncherInv
  <2> QED BY <2>1, OutputKept
<1>3. CASE LauncherNext /\ ~Launch
  <2>1. UNCHANGED <<printed, wanted, menu>>
    BY <1>3 DEF LauncherNext, OpenOutput, ReadLine, ReadEnd, CloseOutput, HangUp, Wait,
                menuProgramVars
  <2> QED BY <2>1, OutputKept
<1>4. CASE MenuCrash
  <2>1. UNCHANGED <<printed, wanted>> /\ menu' \in {menu, "killed"}
    BY <1>4 DEF MenuCrash
  <2> QED BY <2>1, OutputKept
<1> QED BY <1>1, <1>2, <1>3, <1>4 DEF Launching

LEMMA InitLauncher == ASSUME Init PROVE MenuInv /\ LauncherTypeOK /\ OutputInv /\ LauncherInv
<1> USE DEF Init, MenuInit
<1>1. printed \in Seq(BOOLEAN) /\ Len(printed) = 0
  BY EmptySeq
<1>2. MenuInv
  BY DEF MenuInv
<1>3. LauncherTypeOK
  <2>1. taken \in Nat /\ wanted \in Nat /\ fate \in Nat /\ started \in Nat
    OBVIOUS
  <2>2. taken <= Len(printed)
    BY <1>1
  <2> QED BY <1>1, <2>1, <2>2 DEF LauncherTypeOK
<1>4. LauncherInv
  BY DEF LauncherInv
<1>5. OutputInv
  BY <1>1 DEF OutputInv, Incomplete
<1> QED BY <1>2, <1>3, <1>4, <1>5

LEMMA LauncherTypeStep ==
  ASSUME LauncherTypeOK, Launching \/ MenuCrash PROVE LauncherTypeOK'
<1>0. /\ taken \in Nat /\ wanted \in Nat /\ fate \in Nat /\ started \in Nat
      /\ printed \in Seq(BOOLEAN) /\ taken <= Len(printed)
  BY DEF LauncherTypeOK
<1>1. CASE LauncherNext
  <2>1. UNCHANGED <<fate, wanted, printed>>
    BY <1>1 DEF LauncherNext, Launch, OpenOutput, ReadLine, ReadEnd, CloseOutput, HangUp,
                Wait, menuProgramVars
  <2>2. CASE ReadLine
    <3>1. taken' = taken + 1 /\ taken < Len(printed) /\ started' \in {started, started + 1}
      BY <2>2 DEF ReadLine
    <3>2. taken' \in Nat /\ taken' <= Len(printed) /\ started' \in Nat
      <4>1. Len(printed) \in Nat
        BY <1>0, LenProperties
      <4> QED BY <1>0, <3>1, <4>1
    <3>3. launcher' \in {launcher, "output"} /\ broken' \in {broken, "wait", "fatal"}
      BY <2>2 DEF ReadLine
    <3> QED BY <1>0, <2>1, <3>2, <3>3 DEF LauncherTypeOK
  <2>3. CASE ~ReadLine
    <3>1. UNCHANGED <<taken, started>>
      BY <1>1, <2>3 DEF LauncherNext, Launch, OpenOutput, ReadEnd, CloseOutput, HangUp, Wait
    <3>2. /\ broken' \in {broken, "wait", "fatal"}
          /\ launcher' \in {"close", "read", "output", "hangup", "wait", "ended"}
      BY <1>1, <2>3 DEF LauncherNext, Launch, OpenOutput, ReadEnd, CloseOutput, HangUp, Wait
    <3> QED BY <1>0, <2>1, <3>1, <3>2 DEF LauncherTypeOK
  <2> QED BY <2>2, <2>3
<1>2. CASE ChildOpens \/ MenuReadsInput
  <2>1. /\ UNCHANGED <<launcher, taken, started, printed, broken>>
        /\ wanted' \in {wanted} \cup 0 .. MaxLines /\ fate' \in {fate, 1}
    BY <1>2 DEF ChildOpens, BecomeMenu, MenuEnds, MenuReadsInput, MenuReads, launcherVars
  <2>2. wanted' \in Nat /\ fate' \in Nat
    BY <1>0, <2>1, PipeAssumption
  <2> QED BY <1>0, <2>1, <2>2 DEF LauncherTypeOK
<1>3. CASE MenuPrints
  <2>1. UNCHANGED <<launcher, taken, started, broken>> /\ wanted > 0
    BY <1>3 DEF MenuPrints, launcherVars
  <2>2. \/ UNCHANGED <<printed, wanted>> /\ fate' = 128 + SIGPIPE
        \/ wanted' = wanted - 1 /\ UNCHANGED fate
           /\ \E newline \in BOOLEAN : printed' = Append(printed, newline)
    BY <1>3 DEF MenuPrints, MenuEnds
  <2>3. fate' \in Nat /\ wanted' \in Nat
    BY <1>0, <2>1, <2>2 DEF SIGPIPE
  <2>4. printed' \in Seq(BOOLEAN) /\ taken <= Len(printed')
    <3>1. \A newline \in BOOLEAN : /\ Append(printed, newline) \in Seq(BOOLEAN)
                                   /\ Len(Append(printed, newline)) = Len(printed) + 1
      BY <1>0, AppendProperties
    <3>2. Len(printed) \in Nat
      BY <1>0, LenProperties
    <3> QED BY <1>0, <2>2, <3>1, <3>2
  <2> QED BY <1>0, <2>1, <2>3, <2>4 DEF LauncherTypeOK
<1>4. CASE MenuExits \/ MenuHangsUp \/ MenuKilled
  <2>1. UNCHANGED <<launcher, taken, started, broken, wanted, printed>>
    BY <1>4 DEF MenuExits, MenuHangsUp, MenuKilled, launcherVars
  <2>2. fate' \in Nat
    BY <1>4, MenuAssumption DEF MenuExits, MenuHangsUp, MenuKilled, MenuEnds, SIGHUP
  <2> QED BY <1>0, <2>1, <2>2 DEF LauncherTypeOK
<1>5. CASE MenuCrash
  <2>1. UNCHANGED <<taken, started, broken, wanted, printed, fate>>
    BY <1>5 DEF MenuCrash
  <2>2. launcher' \in {launcher, "dead"}
    BY <1>5 DEF MenuCrash
  <2> QED BY <1>0, <2>1, <2>2 DEF LauncherTypeOK
<1> QED BY <1>1, <1>2, <1>3, <1>4, <1>5 DEF Launching, MenuNext

LEMMA LauncherStep ==
  ASSUME LauncherTypeOK, OutputInv, MenuInv, LauncherInv, Launching \/ MenuCrash
  PROVE  LauncherInv'
<1>0. fate \in Nat /\ broken \in {"no", "wait", "fatal"} /\ taken \in Nat
  BY DEF LauncherTypeOK
<1>a. ASSUME UNCHANGED <<menu, fate, printed>>
      PROVE  (MenuOver' = MenuOver) /\ (Incomplete' = Incomplete)
  BY <1>a DEF MenuOver, Incomplete
<1>b. ASSUME UNCHANGED <<taken, printed>> PROVE Complete' = Complete
  BY <1>b DEF Complete, Incomplete
<1>1. CASE Launch
  <2>1. /\ failure = 1 /\ broken = "no" /\ taken = 0 /\ started = 0 /\ menu = "none"
        /\ UNCHANGED <<failure, taken, started, fate, printed, wanted>>
    BY <1>1 DEF Launch, LauncherInv
  <2>2. \/ launcher' = "ended" /\ broken' = "fatal" /\ menu' = "none"
        \/ launcher' = "close" /\ broken' = "no" /\ menu' = "fork"
    BY <1>1, <2>1 DEF Launch
  <2>3. CASE launcher' = "ended"
    <3>1. broken' = "fatal" /\ failure' = 1 /\ menu' = "none"
      BY <2>1, <2>2, <2>3
    <3>2. StatusTells'
      BY <3>1 DEF StatusTells
    <3> QED BY <2>1, <2>3, <3>1, <3>2 DEF LauncherInv
  <2>4. CASE launcher' = "close"
    BY <2>1, <2>2, <2>4 DEF LauncherInv
  <2> QED BY <2>2, <2>3, <2>4
<1>2. CASE OpenOutput
  <2>1. /\ UNCHANGED <<menu, fate, printed, taken, started, wanted>>
        /\ started = 0 /\ taken = 0 /\ broken = "no" /\ failure = 1
    BY <1>2 DEF OpenOutput, menuProgramVars, LauncherInv
  <2>2. Complete = 0
    <3>1. Len(printed) = 0 => ~Incomplete
      <4>1. printed \in Seq(BOOLEAN)
        BY DEF LauncherTypeOK
      <4>2. Len(printed) = 0 => printed = <<>>
        BY <4>1, EmptySeq
      <4> QED BY <4>2 DEF Incomplete
    <3>2. ~(taken = Len(printed) /\ Incomplete)
      BY <2>1, <3>1
    <3>3. Complete = taken - 0
      BY <3>2 DEF Complete
    <3> QED BY <2>1, <3>3
  <2>3. Complete' = Complete
    BY <1>b, <2>1
  <2>4. \/ launcher' = "read" /\ failure' = 0 /\ broken' = "no"
        \/ launcher' = "hangup" /\ failure' = 1 /\ broken' = "fatal"
    BY <1>2, <2>1 DEF OpenOutput
  <2>5. launcher' = "read" => started' = Complete'
    BY <2>1, <2>2, <2>3
  <2>6. menu' = "killed" => fate' # 0
    BY <1>2, <2>1 DEF OpenOutput, LauncherInv
  <2>7. CASE launcher' = "read"
    BY <2>1, <2>4, <2>5, <2>6, <2>7 DEF LauncherInv
  <2>8. CASE launcher' = "hangup"
    <3>1. failure' = 1 /\ broken' = "fatal"
      BY <2>4, <2>8
    <3> QED BY <2>6, <2>8, <3>1 DEF LauncherInv
  <2> QED BY <2>4, <2>7, <2>8
<1>3. CASE ReadLine
  <2>1. /\ launcher = "read" /\ taken < Len(printed) /\ taken' = taken + 1
        /\ UNCHANGED <<menu, fate, printed, wanted>>
        /\ failure = 0 /\ broken = "no" /\ started = Complete
    BY <1>3 DEF ReadLine, menuProgramVars, LauncherInv
  <2>2. Complete = taken /\ Complete' = taken + IF printed[taken + 1] THEN 1 ELSE 0
    BY <2>1, TakenGrows
  <2>3. \/ /\ launcher' = "read" /\ UNCHANGED <<failure, broken>>
           /\ started' = started + IF printed[taken + 1] THEN 1 ELSE 0
        \/ launcher' = "output" /\ failure' = 1 /\ broken' = "fatal"
    <3>1. started \in Nat
      BY DEF LauncherTypeOK
    <3> QED BY <1>3, <3>1 DEF ReadLine
  <2>4. CASE launcher' = "output"
    <3>1. failure' = 1 /\ broken' = "fatal"
      BY <2>3, <2>4
    <3>2. menu' = "killed" => fate' # 0
      BY <2>1 DEF LauncherInv
    <3> QED BY <2>4, <3>1, <3>2 DEF LauncherInv
  <2>5. CASE launcher' = "read"
    <3>1. started' = Complete'
      BY <2>1, <2>2, <2>3, <2>5
    <3>2. UNCHANGED <<failure, broken>>
      BY <2>3, <2>5
    <3> QED BY <2>1, <2>5, <3>1, <3>2 DEF LauncherInv
  <2> QED BY <2>3, <2>4, <2>5
<1>4. CASE ReadEnd
  <2>1. /\ launcher = "read" /\ launcher' = "output"
        /\ UNCHANGED <<menu, fate, printed, wanted, started, taken>>
        /\ \/ taken = Len(printed) /\ MenuOver /\ UNCHANGED <<failure, broken>>
           \/ failure' = 1 /\ broken' = "fatal"
        /\ failure = 0 /\ broken = "no" /\ started = Complete
    BY <1>4 DEF ReadEnd, menuProgramVars, LauncherInv
  <2>2. CASE broken' = "fatal"
    <3>1. failure' = 1
      BY <2>1, <2>2
    <3>2. menu' = "killed" => fate' # 0
      BY <2>1 DEF LauncherInv
    <3> QED BY <2>1, <2>2, <3>1, <3>2 DEF LauncherInv
  <2>3. CASE broken' # "fatal"
    <3>1. /\ failure' = 0 /\ broken' = "no" /\ MenuOver' /\ started' = Complete'
          /\ taken' = Len(printed')
      BY <1>a, <1>b, <2>1, <2>3
    <3> QED BY <2>1, <2>3, <3>1 DEF LauncherInv
  <2> QED BY <2>2, <2>3
<1>5. CASE CloseOutput \/ HangUp
  <2>1. /\ UNCHANGED <<menu, fate, printed, wanted, started, taken, failure, broken>>
        /\ launcher \in {"output", "hangup"} /\ launcher' \in {"hangup", "wait"}
    BY <1>5 DEF CloseOutput, HangUp, menuProgramVars
  <2> QED BY <1>a, <1>b, <2>1 DEF LauncherInv
<1>6. CASE Wait
  <2>1. /\ launcher = "wait" /\ MenuOver /\ launcher' = "ended"
        /\ UNCHANGED <<menu, fate, printed, wanted, started, taken>>
        /\ \/ /\ failure' = (IF failure = 0 THEN 2 ELSE failure)
              /\ broken' = IF broken = "no" THEN "wait" ELSE broken
           \/ failure' = (IF failure = 0 THEN fate ELSE failure) /\ UNCHANGED broken
    BY <1>6 DEF Wait, menuProgramVars
  <2>2. /\ (broken = "fatal" /\ failure = 1) \/ (broken = "no" /\ failure = 0)
        /\ broken = "no" => started = Complete /\ taken = Len(printed)
        /\ menu = "killed" => fate # 0
    BY <2>1 DEF LauncherInv
  <2>3. StatusTells'
    <3>1. menu' \in {"killed", "exited"} /\ (menu' = "killed" => fate' # 0)
      BY <2>1, <2>2 DEF MenuOver
    <3>2. CASE broken = "fatal"
      <4>1. broken' = "fatal" /\ failure' = 1
        BY <2>1, <2>2, <3>2
      <4> QED BY <4>1 DEF StatusTells
    <3>3. CASE broken = "no"
      <4>1. (broken' = "wait" /\ failure' = 2) \/ (broken' = "no" /\ failure' = fate')
        <5>1. failure = 0
          BY <2>2, <3>3
        <5>2. \/ failure' = 2 /\ broken' = "wait"
              \/ failure' = fate /\ broken' = "no"
          BY <2>1, <3>3, <5>1
        <5> QED BY <2>1, <5>2
      <4>2. started' = Len(printed') - IF Incomplete' THEN 1 ELSE 0
        BY <2>1, <2>2, <3>3, <1>a DEF Complete
      <4>3. failure' = 0 => broken' = "no" /\ menu' = "exited"
        BY <3>1, <4>1
      <4> QED BY <4>1, <4>2, <4>3 DEF StatusTells
    <3> QED BY <2>2, <3>2, <3>3
  <2> QED BY <1>a, <2>1, <2>2, <2>3 DEF LauncherInv
<1>7. CASE MenuNext
  <2>1. menu \in {"fork", "reading", "showing"} /\ UNCHANGED launcherVars
    BY <1>7 DEF MenuNext, ChildOpens, BecomeMenu, MenuReadsInput, MenuReads, MenuPrints,
                MenuExits, MenuHangsUp, MenuKilled
  <2>2. launcher \in {"output", "hangup", "wait"} => broken = "fatal" /\ failure = 1
    BY <2>1 DEF LauncherInv, MenuOver
  <2>3. launcher \notin {"never", "start", "ended"}
    BY <2>1 DEF LauncherInv, MenuOver
  <2>4. menu' = "killed" => fate' # 0
    <3>1. ChildOpens \/ MenuReadsInput \/ MenuExits => menu' # "killed"
      BY <2>1 DEF ChildOpens, BecomeMenu, MenuReadsInput, MenuReads, MenuExits, MenuEnds
    <3>2. ASSUME MenuPrints, menu' = "killed" PROVE fate' # 0
      <4>1. fate' = 128 + SIGPIPE
        BY <3>2 DEF MenuPrints, MenuEnds
      <4> QED BY <4>1 DEF SIGPIPE
    <3>3. ASSUME MenuHangsUp \/ MenuKilled PROVE fate' # 0
      <4>1. \E signal \in 1 .. 64 : fate' = 128 + signal
        BY <3>3, MenuAssumption DEF MenuHangsUp, MenuKilled, MenuEnds, SIGHUP
      <4> QED BY <4>1
    <3> QED BY <1>7, <3>1, <3>2, <3>3 DEF MenuNext
  <2>5. Complete' = Complete
    BY <1>7, OutputStep
  <2>6. UNCHANGED <<launcher, failure, broken, taken, started>>
    BY <2>1 DEF launcherVars
  <2>7. CASE launcher \in {"output", "hangup", "wait"}
    BY <2>2, <2>4, <2>5, <2>6, <2>7 DEF LauncherInv
  <2>8. CASE launcher \notin {"output", "hangup", "wait"}
    BY <2>3, <2>4, <2>5, <2>6, <2>8 DEF LauncherInv
  <2> QED BY <2>7, <2>8
<1>8. CASE MenuCrash
  <2>1. /\ launcher' = IF launcher \in {"never", "start", "ended"} THEN launcher ELSE "dead"
        /\ menu' = IF menu = "none" \/ MenuOver THEN menu ELSE "killed"
        /\ UNCHANGED <<fate, printed, wanted, failure, broken, taken, started>>
    BY <1>8 DEF MenuCrash
  <2>3. CASE launcher' = "dead"
    BY <2>1, <2>3 DEF LauncherInv
  <2>4. CASE launcher' # "dead"
    <3>1. launcher' = launcher /\ launcher \in {"never", "start", "ended"} /\ UNCHANGED menu
      BY <2>1, <2>4 DEF LauncherInv
    <3>2. StatusTells' = StatusTells
      BY <1>a, <2>1, <3>1 DEF StatusTells
    <3> QED BY <1>a, <2>1, <3>1, <3>2 DEF LauncherInv
  <2> QED BY <2>3, <2>4
<1> QED BY <1>1, <1>2, <1>3, <1>4, <1>5, <1>6, <1>7, <1>8 DEF Launching, LauncherNext

-----------------------------------------------------------------------------
(* The theorems                                                             *)

LEMMA InitInv == ASSUME Init PROVE Inv
BY InitRefresh, InitLauncher DEF Inv

LEMMA NextInv == ASSUME Inv, [Next]_vars PROVE Inv'
<1> USE DEF Inv
<1>1. CASE Launching
  <2>1. RefreshTypeOK' /\ FileInv'
    <3>1. UNCHANGED <<pc, exclusions, commands, status, content, synced, list, committed,
                      temps, made>>
      BY <1>1 DEF Launching, refreshVars, runVars, fileVars
    <3>2. RefreshTypeOK'
      BY <3>1 DEF RefreshTypeOK
    <3>3. FileInv'
      BY <3>1 DEF FileInv, Published, Progress
    <3> QED BY <3>2, <3>3
  <2> QED BY <1>1, <2>1, MenuStep, LauncherTypeStep, OutputInvStep, LauncherStep
<1>2. CASE Refreshing
  <2>1. RefreshTypeOK' /\ FileInv'
    BY <1>2, RefreshTypeStep, FileStep, CommitStep DEF Refreshing, RefreshNext
  <2>2. UNCHANGED <<launcher, failure, started, taken, broken, menu, fate, input, seen,
                    wanted, printed>>
    BY <1>2 DEF Refreshing, menuVars, launcherVars, menuProgramVars
  <2>3. MenuInv'
    <3>1. CASE Commit
      <4>1. UNCHANGED <<pc, content, made>>
        BY <3>1 DEF Commit, runVars
      <4> QED BY <2>2, <4>1 DEF MenuInv
    <3>2. ASSUME NEW p \in Proc, Refresh(p) \/ Kill(p) PROVE MenuInv'
      <4>1. /\ made \subseteq made' /\ pc[p] # "ended"
            /\ \A q \in Proc \ {p} : pc'[q] = pc[q]
            /\ \A i \in Inodes \ {p} : content'[i] = content[i]
        BY <3>2, RefreshSeen
      <4> QED BY <2>2, <4>1, MenuKept
    <3> QED BY <1>2, <3>1, <3>2 DEF Refreshing, RefreshNext
  <2>4. LauncherTypeOK' /\ OutputInv' /\ LauncherInv'
    BY <2>2 DEF LauncherTypeOK, OutputInv, LauncherInv, StatusTells, MenuOver, Incomplete,
                Complete
  <2> QED BY <2>1, <2>3, <2>4
<1>3. CASE MachineCrash
  BY <1>3, CrashStep, MenuCrashStep, LauncherTypeStep, OutputInvStep, LauncherStep DEF MachineCrash
<1>4. CASE UNCHANGED vars
  <2>1. UNCHANGED <<pc, commands, status, content, synced, list, committed, temps, made,
                    launcher, failure, started, taken, broken, menu, fate, input, seen,
                    wanted, printed>>
    BY <1>4 DEF vars, refreshVars, runVars, fileVars, menuVars, launcherVars, menuProgramVars
  <2>2. RefreshTypeOK' /\ FileInv'
    BY <2>1 DEF RefreshTypeOK, FileInv, Published, Progress
  <2>3. MenuInv'
    BY <2>1 DEF MenuInv
  <2>4. LauncherTypeOK' /\ OutputInv' /\ LauncherInv'
    BY <2>1 DEF LauncherTypeOK, OutputInv, LauncherInv, StatusTells, MenuOver, Incomplete,
                Complete
  <2> QED BY <2>2, <2>3, <2>4
<1> QED BY <1>1, <1>2, <1>3, <1>4 DEF Next

\* The inductive invariant, for any programs, entries, patterns and old list.
THEOREM DelInvariant == Spec => []Inv
BY InitInv, NextInv, PTL DEF Spec

\* A refresh that ends without success has neither left its temporary file nor
\* replaced the command list, whatever fails and whoever else refreshes it.
THEOREM NothingLeftBehindAlways == Spec => []NothingLeftBehind
<1>1. ASSUME Inv PROVE NothingLeftBehind
  <2>1. ASSUME NEW p \in Proc, pc[p] = "ended" PROVE p \notin temps /\ (status[p] = 1 => p # list)
    <3>1. p \notin temps
      BY <1>1, <2>1 DEF Inv, FileInv, Progress
    <3>2. status[p] = 1 => p # list
      BY <1>1, InodeAssumption DEF Inv, FileInv, Published
    <3> QED BY <3>1, <3>2
  <2> QED BY <2>1 DEF NothingLeftBehind
<1> QED BY <1>1, DelInvariant, PTL

\* The menu shows a list that some refresh made, whole, though the path leads
\* to other files while it reads.
THEOREM MenuReadsOneListAlways == Spec => []MenuReadsOneList
<1>1. ASSUME Inv PROVE MenuReadsOneList
  <2>1. ASSUME menu = "showing" PROVE seen \in made
    <3>1. /\ content[input] \in made /\ seen \in Seq(Text)
          /\ Len(seen) = Len(content[input])
          /\ \A i \in 1 .. Len(seen) : seen[i] = content[input][i]
      BY <1>1, <2>1 DEF Inv, MenuInv
    <3>2. content[input] \in Seq(Text)
      <4>1. made \subseteq Seq(Text)
        BY <1>1 DEF Inv, RefreshTypeOK
      <4> QED BY <3>1, <4>1
    <3>3. seen = content[input]
      BY <3>1, <3>2, SeqEqual
    <3> QED BY <3>1, <3>3
  <2> QED BY <2>1 DEF MenuReadsOneList
<1> QED BY <1>1, DelInvariant, PTL

\* The exit status of the launcher tells what happened, for any menu, any
\* number of lines it prints, and any room in the pipe.
THEOREM StatusTellsAlways == Spec => []StatusTells
<1>1. Inv => StatusTells
  BY DEF Inv, LauncherInv, StatusTells
<1> QED BY <1>1, DelInvariant, PTL

-----------------------------------------------------------------------------
(* The launcher and the menu do not wait for each other                     *)

\* The launcher waits for something the menu does.
WaitsForMenu == launcher = "wait" \/ (launcher = "read" /\ taken = Len(printed))

\* The menu has a line to print, no room for it in the pipe, and nobody has told
\* it to go.
WaitsForRoom ==
  /\ menu = "showing" /\ wanted > 0 /\ ~hangup
  /\ "read" \in ends /\ Len(printed) - taken >= PipeSize

\* Behind LauncherEnds: never do both wait for the other, also after a failure
\* of the launcher, which stops reading while the menu may go on to print; and the
\* launcher does not wait for an end of output that its own writing end delays.
NeverBothWait ==
  /\ ~(WaitsForMenu /\ WaitsForRoom)
  /\ launcher = "read" => "write" \notin ends

\* Which ends of the pipe the launcher has open; that it keeps one while it waits
\* only after it told the menu to go.
EndsInv ==
  /\ launcher \in {"never", "start"} => ends = {}
  /\ launcher \in {"read", "output"} => ends = {"read"}
  /\ launcher = "hangup" => ends = {} \/ failure = 1
  /\ launcher = "wait" => ends = {} \/ hangup

LEMMA EndsStep == ASSUME Inv, EndsInv, [Next]_vars PROVE EndsInv'
<1> USE DEF EndsInv
<1>1. CASE LauncherNext
  <2>1. CASE Launch
    BY <2>1 DEF Launch
  <2>2. CASE OpenOutput
    <3>1. failure = 1
      BY <2>2 DEF OpenOutput, Inv, LauncherInv
    <3> QED BY <2>2, <3>1 DEF OpenOutput
  <2>3. CASE ReadLine \/ ReadEnd
    BY <2>3 DEF ReadLine, ReadEnd
  <2>4. CASE CloseOutput
    BY <2>4 DEF CloseOutput
  <2>5. CASE HangUp
    BY <2>5 DEF HangUp
  <2>6. CASE Wait
    BY <2>6 DEF Wait
  <2> QED BY <1>1, <2>1, <2>2, <2>3, <2>4, <2>5, <2>6 DEF LauncherNext
<1>2. CASE MenuNext \/ Refreshing \/ UNCHANGED vars
  <2>1. UNCHANGED <<launcher, ends, failure, hangup>>
    BY <1>2 DEF MenuNext, ChildOpens, BecomeMenu, MenuReadsInput, MenuReads, MenuPrints,
                MenuExits, MenuHangsUp, MenuKilled, Refreshing, vars, menuVars, launcherVars
  <2> QED BY <2>1
<1>3. CASE MachineCrash
  <2>1. UNCHANGED <<ends, failure, hangup>> /\ launcher' \in {launcher, "dead"}
    BY <1>3 DEF MachineCrash, MenuCrash
  <2> QED BY <2>1
<1> QED BY <1>1, <1>2, <1>3 DEF Next, Launching

\* For any menu, any number of lines and any room in the pipe, the launcher and
\* the menu are never stuck on each other: who waits for the other end of the
\* pipe can count on it to be served, closed or told to go.
THEOREM NeverBothWaitAlways == Spec => []NeverBothWait
<1>1. Init => EndsInv
  BY DEF Init, MenuInit, EndsInv
<1>2. Inv /\ EndsInv /\ [Next]_vars => EndsInv'
  BY EndsStep
<1>3. ASSUME Inv, EndsInv PROVE NeverBothWait
  <2>1. ASSUME WaitsForMenu, WaitsForRoom PROVE FALSE
    <3>1. CASE launcher = "wait"
      BY <1>3, <2>1, <3>1 DEF EndsInv, WaitsForRoom
    <3>2. CASE taken = Len(printed)
      <4>1. Len(printed) \in Nat /\ taken \in Nat
        BY <1>3, LenProperties DEF Inv, LauncherTypeOK
      <4> QED BY <2>1, <3>2, <4>1, PipeAssumption DEF WaitsForRoom
    <3> QED BY <2>1, <3>1, <3>2 DEF WaitsForMenu
  <2>2. launcher = "read" => "write" \notin ends
    BY <1>3 DEF EndsInv
  <2> QED BY <2>1, <2>2 DEF NeverBothWait
<1> QED BY <1>1, <1>2, <1>3, DelInvariant, PTL DEF Spec

-----------------------------------------------------------------------------
(* The command list                                                         *)

LEMMA PromiseInit == ASSUME Init PROVE Promise!Init
BY InodeAssumption DEF Init, RefreshInit, Inodes, Current, Promise!Init

LEMMA PromiseStep == ASSUME Inv, [Next]_vars PROVE [Promise!Next]_(Promise!vars)
<1> USE DEF Promise!vars, Promise!Next, Promise!Make, Promise!Publish
<1>0. RefreshTypeOK /\ FileInv
  BY DEF Inv
<1>1. CASE Launching \/ UNCHANGED vars
  <2>1. UNCHANGED <<content, list, made>>
    BY <1>1 DEF Launching, vars, refreshVars, fileVars
  <2> QED BY <2>1 DEF Current
<1>2. CASE Refreshing
  <2>1. CASE Commit
    BY <2>1 DEF Commit, Current
  <2>2. ASSUME NEW p \in Proc, Refresh(p) \/ Kill(p) PROVE [Promise!Next]_(Promise!vars)
    BY <1>0, <2>2, RefreshSeen
  <2> QED BY <1>2, <2>1, <2>2 DEF Refreshing, RefreshNext
<1>3. CASE MachineCrash
  <2>1. UNCHANGED <<content, made>> /\ list' = committed
    BY <1>0, <1>3, CrashStep DEF MachineCrash, Crash
  <2>2. Current' \in made
    BY <1>0, <2>1 DEF FileInv, Published, Current
  <2> QED BY <2>1, <2>2
<1> QED BY <1>1, <1>2, <1>3 DEF Next

\* Refreshes with all that can fail, beside a menu, implement CommandList: what
\* is at the path is always one of the lists that were made, and each of those
\* is in order and names no command twice.
THEOREM DelImplementsCommandList == Spec => PromiseSpec
BY PromiseInit, PromiseStep, DelInvariant, PTL DEF Spec, PromiseSpec, Promise!Spec
=============================================================================
