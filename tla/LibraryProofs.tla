---------------------------- MODULE LibraryProofs ----------------------------
(***************************************************************************)
(* The tree of locations agrees with itself and its page with the tree,    *)
(* and the library page shows the user's books: for any number of          *)
(* locations, names, copies, books, calls and operations.                  *)
(*                                                                         *)
(* A path is a sequence of names, so that what a rewritten subtree becomes *)
(* is a matter of prefixes (Swapped), who is below whom follows from the   *)
(* paths alone (PathsAreUnique, ParentsBelow), and the numbers of books    *)
(* that the page adds up are those the server counts (CountsAddUp). Where  *)
(* these need an induction they take a least counterexample among the      *)
(* finite sets, whose order is well founded. The books of the library page *)
(* are a sequence in which each is once, so that a page of them adds to    *)
(* the pages before it all that it has (NextPage).                         *)
(***************************************************************************)
EXTENDS Locations, LibraryPage, FiniteSetTheorems, SequenceTheorems, TLAPS

-----------------------------------------------------------------------------
(****************************** the tree ***********************************)

\* A table of locations as the schema keeps it.
Tabled(rs) ==
    /\ rs \in [Location -> LocationRow \cup {None}]
    /\ \A i \in Present(rs) : rs[i].id = i /\ rs[i].parent \in Present(rs) \cup {None}

\* Every path is that of the parent and the name, and every depth counts the names before the last.
Agrees(rs) == \A i \in Present(rs) :
    /\ rs[i].path = locationChildPath(RowOf(rs, rs[i].parent), rs[i].name)
    /\ rs[i].depth = Len(rs[i].path) - 1

\* A nonempty set of natural numbers has a least element.
LEMMA LeastNumber ==
    ASSUME NEW T \in SUBSET Nat, T # {}
    PROVE  \E n \in T : \A m \in T : n <= m
<1> DEFINE D == {0 .. n : n \in T}
<1>1. D \subseteq FiniteSubsetsOf(Nat) /\ D # {}
  <2>1. \A n \in T : IsFiniteSet(0 .. n) /\ 0 .. n \subseteq Nat
    BY FS_Interval
  <2> QED
    BY <2>1 DEF FiniteSubsetsOf
<1>2. PICK d \in D : \A e \in D : <<e, d>> \notin StrictSubsetOrdering(Nat)
  <2> HIDE DEF D
  <2> QED
    BY <1>1, FS_StrictSubsetOrderingWellFounded, WFMin
<1>3. PICK n \in T : d = 0 .. n
  OBVIOUS
<1>4. ASSUME NEW m \in T, m < n PROVE FALSE
  <2>1. 0 .. m \in D /\ 0 .. m \subseteq 0 .. n /\ n \in 0 .. n /\ n \notin 0 .. m /\ 0 .. n \subseteq Nat
    BY <1>4
  <2>2. <<0 .. m, 0 .. n>> \in StrictSubsetOrdering(Nat)
    BY <2>1 DEF StrictSubsetOrdering
  <2> QED
    BY <1>2, <1>3, <2>1, <2>2
<1> QED
  BY <1>4

LEMMA RowsTyped ==
    ASSUME NEW rs, Tabled(rs), NEW i \in Present(rs)
    PROVE  /\ rs[i] \in LocationRow /\ rs[i].id = i /\ rs[i].parent \in Location \cup {None}
           /\ rs[i].path \in Seq(Name) /\ rs[i].depth \in Int /\ rs[i].name \in Name
           /\ rs[i].parent # None => rs[i].parent \in Present(rs) /\ RowOf(rs, rs[i].parent) = rs[rs[i].parent]
<1>1. rs[i] \in LocationRow /\ rs[i].id = i /\ rs[i].parent \in Present(rs) \cup {None}
  BY DEF Tabled, Present
<1>2. rs[i].parent # None => rs[i].parent \in Present(rs) /\ RowOf(rs, rs[i].parent) = rs[rs[i].parent]
  BY <1>1 DEF RowOf
<1> QED
  BY <1>1, <1>2 DEF LocationRow

LEMMA StrictPrefixes ==
    ASSUME NEW s \in Seq(Name), NEW t \in Seq(Name)
    PROVE  /\ IsPrefix(s, t) <=> Len(s) <= Len(t) /\ \A n \in 1 .. Len(s) : s[n] = t[n]
           /\ IsStrictPrefix(s, t) <=> Len(s) < Len(t) /\ \A n \in 1 .. Len(s) : s[n] = t[n]
<1>1. Len(s) \in Nat /\ Len(t) \in Nat
  BY LenProperties
<1>2. SubSeq(s, 1, Len(s)) = s
  BY SubSeqFull
<1>3. Len(s) <= Len(t) => (SubSeq(t, 1, Len(s)) = s <=> \A n \in 1 .. Len(s) : s[n] = t[n])
  <2> SUFFICES ASSUME Len(s) <= Len(t) PROVE SubSeq(t, 1, Len(s)) = s <=> \A n \in 1 .. Len(s) : s[n] = t[n]
    OBVIOUS
  <2>1. /\ SubSeq(t, 1, Len(s)) \in Seq(Name) /\ Len(SubSeq(t, 1, Len(s))) = Len(s)
        /\ \A n \in 1 .. Len(s) : SubSeq(t, 1, Len(s))[n] = t[n]
    BY <1>1
  <2> QED
    BY <2>1, SeqEqual
<1>4. IsPrefix(s, t) <=> Len(s) <= Len(t) /\ \A n \in 1 .. Len(s) : s[n] = t[n]
  BY <1>2, <1>3 DEF IsPrefix
<1>5. Len(s) = Len(t) /\ (\A n \in 1 .. Len(s) : s[n] = t[n]) => s = t
  BY SeqEqual
<1> QED
  BY <1>1, <1>4, <1>5 DEF IsStrictPrefix

LEMMA ChildPaths ==
    ASSUME NEW par \in LocationRow \cup {None}, NEW n \in Name
    PROVE  LET path == locationChildPath(par, n) IN
           /\ path \in Seq(Name) /\ Len(path) \in Nat \ {0} /\ path[Len(path)] = n
           /\ par = None => Len(path) = 1
           /\ par # None => /\ Len(path) = Len(par.path) + 1 /\ Len(par.path) \in Nat
                            /\ \A k \in 1 .. Len(par.path) : path[k] = par.path[k]
<1>1. CASE par = None
  BY <1>1 DEF locationChildPath
<1>2. CASE par # None
  <2>1. par \in LocationRow /\ par.path \in Seq(Name)
    BY <1>2 DEF LocationRow
  <2>2. locationChildPath(par, n) = Append(par.path, n)
    BY <1>2 DEF locationChildPath
  <2> QED
    BY <1>2, <2>1, <2>2, AppendProperties
<1> QED
  BY <1>1, <1>2

LEMMA ChildPathBelow ==
    ASSUME NEW par \in LocationRow, NEW n \in Name
    PROVE  /\ locationChildPath(par, n) \in Seq(Name)
           /\ Len(locationChildPath(par, n)) = Len(par.path) + 1 /\ Len(par.path) \in Nat
           /\ \A k \in 1 .. Len(par.path) : locationChildPath(par, n)[k] = par.path[k]
<1>1. par # None
  BY LocationsAssumption
<1> QED
  BY <1>1, ChildPaths

\* The path of a location in a tree that agrees.
LEMMA PathsInTree ==
    ASSUME NEW rs, Tabled(rs), Agrees(rs), NEW k \in Present(rs)
    PROVE  /\ rs[k].path \in Seq(Name) /\ Len(rs[k].path) \in Nat \ {0} /\ rs[k].name \in Name
           /\ rs[k].path[Len(rs[k].path)] = rs[k].name /\ rs[k].depth = Len(rs[k].path) - 1
           /\ rs[k].parent = None => Len(rs[k].path) = 1
           /\ rs[k].parent # None =>
                /\ rs[k].parent \in Present(rs) /\ Len(rs[k].path) = Len(rs[rs[k].parent].path) + 1
                /\ Len(rs[rs[k].parent].path) \in Nat
                /\ \A n \in 1 .. Len(rs[rs[k].parent].path) : rs[k].path[n] = rs[rs[k].parent].path[n]
<1>1. rs[k].name \in Name /\ rs[k].path = locationChildPath(RowOf(rs, rs[k].parent), rs[k].name) /\ rs[k].depth = Len(rs[k].path) - 1
  BY RowsTyped DEF Agrees
<1>2. CASE rs[k].parent = None
  <2>1. RowOf(rs, rs[k].parent) = None
    BY <1>2 DEF RowOf
  <2> QED
    BY <1>1, <1>2, <2>1, ChildPaths
<1>3. CASE rs[k].parent # None
  <2>1. RowOf(rs, rs[k].parent) = rs[rs[k].parent] /\ rs[k].parent \in Present(rs)
    BY <1>3, RowsTyped
  <2> DEFINE par == rs[rs[k].parent]
             path == rs[k].path
             name == rs[k].name
  <2>2. par \in LocationRow \cup {None} /\ par # None
    BY <2>1, RowsTyped DEF Present
  <2>3. path = locationChildPath(par, name) /\ name \in Name
    BY <1>1, <2>1
  <2> HIDE DEF par, path, name
  <2>4. /\ path \in Seq(Name) /\ Len(path) \in Nat \ {0} /\ path[Len(path)] = name
        /\ Len(path) = Len(par.path) + 1 /\ Len(par.path) \in Nat
        /\ \A n \in 1 .. Len(par.path) : path[n] = par.path[n]
    BY <2>2, <2>3, ChildPaths
  <2> QED
    BY <1>1, <1>3, <2>1, <2>4 DEF par, path, name
<1> QED
  BY <1>2, <1>3

\* In a tree that agrees, with unique names, a path is the path of one location.
LEMMA PathsAreUnique ==
    ASSUME NEW rs, Tabled(rs), Agrees(rs), UniqueNames(rs),
           NEW i \in Present(rs), NEW j \in Present(rs), rs[i].path = rs[j].path
    PROVE  i = j
<1> DEFINE Twins(n) == \E k, l \in Present(rs) : k # l /\ rs[k].path = rs[l].path /\ Len(rs[k].path) = n
           T == {n \in Nat : Twins(n)}
<1>1. \A k \in Present(rs) :
        /\ rs[k].path \in Seq(Name) /\ Len(rs[k].path) \in Nat \ {0} /\ rs[k].name \in Name
        /\ rs[k].path[Len(rs[k].path)] = rs[k].name
        /\ rs[k].parent = None => Len(rs[k].path) = 1
        /\ rs[k].parent # None =>
             /\ rs[k].parent \in Present(rs) /\ Len(rs[k].path) = Len(rs[rs[k].parent].path) + 1
             /\ Len(rs[rs[k].parent].path) \in Nat
             /\ \A n \in 1 .. Len(rs[rs[k].parent].path) : rs[k].path[n] = rs[rs[k].parent].path[n]
  BY PathsInTree
<1>2. SUFFICES ASSUME i # j PROVE FALSE
  OBVIOUS
<1>3. Twins(Len(rs[i].path)) /\ Len(rs[i].path) \in Nat
  BY <1>1, <1>2
<1> HIDE DEF Twins
<1>4. PICK n \in T : \A m \in T : n <= m
  <2>1. T \in SUBSET Nat /\ T # {}
    BY <1>3
  <2> HIDE DEF T
  <2> QED
    BY <2>1, LeastNumber
<1>5. PICK k, l \in Present(rs) : k # l /\ rs[k].path = rs[l].path /\ Len(rs[k].path) = n
  BY <1>4 DEF Twins
<1>6. rs[k].name = rs[l].name
  BY <1>1, <1>5
<1>7. rs[k].parent # rs[l].parent
  BY <1>5, <1>6 DEF UniqueNames
<1>8. rs[k].parent # None /\ rs[l].parent # None
  <2>1. \A m \in Present(rs) : rs[m].parent = None <=> Len(rs[m].path) = 1
    <3> SUFFICES ASSUME NEW m \in Present(rs), rs[m].parent # None PROVE Len(rs[m].path) # 1
      BY <1>1
    <3>1. Len(rs[m].path) = Len(rs[rs[m].parent].path) + 1 /\ rs[m].parent \in Present(rs)
      BY <1>1
    <3>2. Len(rs[rs[m].parent].path) \in Nat \ {0}
      BY <1>1, <3>1
    <3> QED
      BY <3>1, <3>2
  <2> QED
    BY <1>5, <1>7, <2>1
<1> DEFINE p == rs[k].parent
           q == rs[l].parent
<1>9. /\ p \in Present(rs) /\ q \in Present(rs)
      /\ rs[p].path \in Seq(Name) /\ rs[q].path \in Seq(Name)
      /\ Len(rs[p].path) \in Nat /\ Len(rs[k].path) = Len(rs[p].path) + 1
      /\ Len(rs[q].path) \in Nat /\ Len(rs[l].path) = Len(rs[q].path) + 1
  BY <1>1, <1>8
<1>10. /\ \A m \in 1 .. Len(rs[p].path) : rs[k].path[m] = rs[p].path[m]
       /\ \A m \in 1 .. Len(rs[q].path) : rs[l].path[m] = rs[q].path[m]
  BY <1>1, <1>8
<1> HIDE DEF p, q
<1>11. Len(rs[p].path) = Len(rs[q].path) /\ Len(rs[p].path) = n - 1 /\ n - 1 \in Nat
  BY <1>5, <1>9
<1>12. rs[p].path = rs[q].path
  <2>1. \A m \in 1 .. Len(rs[p].path) : rs[p].path[m] = rs[q].path[m]
    BY <1>5, <1>10, <1>11
  <2> QED
    BY <1>9, <1>11, <2>1, SeqEqual
<1>13. Twins(n - 1)
  BY <1>7, <1>9, <1>11, <1>12 DEF Twins, p, q
<1> QED
  BY <1>4, <1>11, <1>13

-----------------------------------------------------------------------------
(****************************** the counts *********************************)

\* The function by which MapThenSumSet sums f over the subsets of S.
SumsUp(sum, f, S) == sum = [s \in SUBSET S |->
    IF s = {} THEN 0 ELSE f[CHOOSE x \in s : TRUE] + sum[s \ {CHOOSE x \in s : TRUE}]]
SumOver(f, S) == CHOOSE sum : SumsUp(sum, f, S)

\* A function of sets that grows by f[x] with every x is the sum of f.
LEMMA SumIsUnique ==
    ASSUME NEW f, NEW S, IsFiniteSet(S), NEW g \in [SUBSET S -> Nat], g[{}] = 0,
           \A s \in SUBSET S : \A x \in s : g[s] = f[x] + g[s \ {x}]
    PROVE  SumOver(f, S)[S] = g[S]
<1> DEFINE sum == SumOver(f, S)
<1>1. g = [s \in SUBSET S |-> IF s = {} THEN 0 ELSE f[CHOOSE x \in s : TRUE] + g[s \ {CHOOSE x \in s : TRUE}]]
  <2> SUFFICES ASSUME NEW s \in SUBSET S
               PROVE  g[s] = IF s = {} THEN 0 ELSE f[CHOOSE x \in s : TRUE] + g[s \ {CHOOSE x \in s : TRUE}]
    BY Zenon
  <2>1. CASE s = {}
    BY <2>1
  <2>2. CASE s # {}
    <3>1. (CHOOSE x \in s : TRUE) \in s
      BY <2>2
    <3> QED
      BY <2>2, <3>1
  <2> QED
    BY <2>1, <2>2
<1>2. sum = [s \in SUBSET S |-> IF s = {} THEN 0 ELSE f[CHOOSE x \in s : TRUE] + sum[s \ {CHOOSE x \in s : TRUE}]]
  <2>1. SumsUp(g, f, S)
    BY <1>1 DEF SumsUp
  <2>2. SumsUp(sum, f, S)
    BY <2>1 DEF SumOver
  <2> HIDE DEF sum
  <2> QED
    BY <2>2 DEF SumsUp
<1> HIDE DEF sum
<1> DEFINE Bad == {s \in SUBSET S : sum[s] # g[s]}
<1>3. SUFFICES ASSUME Bad # {} PROVE FALSE
  BY DEF sum
<1>4. PICK d \in Bad : \A e \in Bad : <<e, d>> \notin StrictSubsetOrdering(S)
  <2>1. Bad \subseteq FiniteSubsetsOf(S)
    BY FS_FiniteSubsetsOfFinite
  <2> HIDE DEF Bad
  <2> QED
    BY <1>3, <2>1, FS_StrictSubsetOrderingWellFounded, WFMin
<1>5. d # {}
  <2>1. sum[{}] = 0
    BY <1>2
  <2> QED
    BY <2>1
<1>6. PICK x \in d : sum[d] = f[x] + sum[d \ {x}]
  <2>1. (CHOOSE x \in d : TRUE) \in d
    BY <1>5
  <2>2. sum[d] = f[CHOOSE x \in d : TRUE] + sum[d \ {CHOOSE x \in d : TRUE}]
    <3>1. d \in SUBSET S
      OBVIOUS
    <3> QED
      BY <1>2, <1>5, <3>1, Zenon
  <2> QED
    BY <2>1, <2>2
<1>7. d \ {x} \notin Bad
  <2>1. <<d \ {x}, d>> \in StrictSubsetOrdering(S)
    BY DEF StrictSubsetOrdering
  <2> QED
    BY <1>4, <2>1
<1> QED
  BY <1>6, <1>7

\* The copies at some locations.
Held(sh, ids) == {k \in Shelved : sh[k] \in ids}

\* The books of some locations, as locations.vue adds them.
Total(v, S) == MapThenSumSet(LAMBDA i : v.books[i], S)

LEMMA CountsAddUp ==
    ASSUME NEW sh, NEW v, NEW S \in SUBSET Location, IsFiniteSet(S),
           \A i \in S : v.books[i] = Cardinality(Held(sh, {i}))
    PROVE  Total(v, S) = Cardinality(Held(sh, S))
<1> DEFINE g == [s \in SUBSET S |-> Cardinality(Held(sh, s))]
<1>1. \A s \in SUBSET S : IsFiniteSet(Held(sh, s)) /\ Cardinality(Held(sh, s)) \in Nat
  <2> SUFFICES ASSUME NEW s \in SUBSET S PROVE IsFiniteSet(Held(sh, s)) /\ Cardinality(Held(sh, s)) \in Nat
    OBVIOUS
  <2>1. Held(sh, s) \in SUBSET Shelved
    BY DEF Held
  <2> QED
    BY <2>1, LocationsAssumption, FS_Subset, FS_CardinalityType
<1>2. g \in [SUBSET S -> Nat]
  BY <1>1
<1>3. g[{}] = 0
  <2>1. Held(sh, {}) = {}
    BY DEF Held
  <2> QED
    BY <2>1, FS_EmptySet
<1>4. ASSUME NEW s \in SUBSET S, NEW x \in s
      PROVE  g[s] = v.books[x] + g[s \ {x}]
  <2>1. /\ Held(sh, s) = Held(sh, {x}) \cup Held(sh, s \ {x})
        /\ Held(sh, {x}) \cap Held(sh, s \ {x}) = {}
    BY DEF Held
  <2>2. {x} \in SUBSET S /\ s \ {x} \in SUBSET S
    OBVIOUS
  <2>3. Cardinality(Held(sh, s)) = Cardinality(Held(sh, {x})) + Cardinality(Held(sh, s \ {x}))
    <3> DEFINE X == Held(sh, {x})
               Y == Held(sh, s \ {x})
    <3>1. IsFiniteSet(X) /\ IsFiniteSet(Y) /\ Cardinality(X) \in Nat /\ Cardinality(Y) \in Nat
      BY <1>1, <2>2
    <3>2. Held(sh, s) = X \cup Y /\ X \cap Y = {}
      BY <2>1
    <3> HIDE DEF X, Y
    <3>3. Cardinality(X \cup Y) = Cardinality(X) + Cardinality(Y) - Cardinality(X \cap Y)
      BY <3>1, FS_Union
    <3>4. Cardinality(X \cap Y) = 0
      BY <3>2, FS_EmptySet
    <3>5. Cardinality(X \cup Y) = Cardinality(X) + Cardinality(Y)
      BY <3>1, <3>3, <3>4
    <3> QED
      BY <3>2, <3>5 DEF X, Y
  <2>4. v.books[x] = Cardinality(Held(sh, {x}))
    OBVIOUS
  <2> QED
    BY <2>2, <2>3, <2>4
<1>5. Total(v, S) = SumOver(v.books, S)[S]
  BY DEF Total, MapThenSumSet, MapThenFoldSet, SumOver, SumsUp
<1>6. g[S] = Cardinality(Held(sh, S))
  OBVIOUS
<1>7. \A s \in SUBSET S : \A x \in s : g[s] = v.books[x] + g[s \ {x}]
  BY <1>4
<1> HIDE DEF g
<1> QED
  BY <1>2, <1>3, <1>5, <1>6, <1>7, SumIsUnique

-----------------------------------------------------------------------------
(****************************** a rewritten subtree ************************)

\* t with u in place of its prefix s.
Swapped(t, s, u) == u \o SubSeq(t, Len(s) + 1, Len(t))

LEMMA SwappedPrefix ==
    ASSUME NEW t \in Seq(Name), NEW s \in Seq(Name), NEW u \in Seq(Name), IsPrefix(s, t)
    PROVE  /\ Swapped(t, s, u) \in Seq(Name) /\ Len(Swapped(t, s, u)) = Len(u) + Len(t) - Len(s)
           /\ \A n \in 1 .. Len(u) : Swapped(t, s, u)[n] = u[n]
           /\ \A n \in Len(s) + 1 .. Len(t) : Swapped(t, s, u)[n - Len(s) + Len(u)] = t[n]
           /\ Len(Swapped(t, s, u)) \in Nat
<1> DEFINE rest == SubSeq(t, Len(s) + 1, Len(t))
<1>1. Len(s) \in Nat /\ Len(t) \in Nat /\ Len(u) \in Nat /\ Len(s) <= Len(t)
  BY StrictPrefixes, LenProperties
<1>2. /\ rest \in Seq(Name) /\ Len(rest) = Len(t) - Len(s)
      /\ \A n \in 1 .. Len(t) - Len(s) : rest[n] = t[n + Len(s)]
  BY <1>1
<1> HIDE DEF rest
<1>3. /\ u \o rest \in Seq(Name) /\ Len(u \o rest) = Len(u) + Len(rest)
      /\ \A n \in 1 .. Len(u) : (u \o rest)[n] = u[n]
      /\ \A n \in Len(u) + 1 .. Len(u) + Len(rest) : (u \o rest)[n] = rest[n - Len(u)]
  <2>1. /\ u \o rest \in Seq(Name) /\ Len(u \o rest) = Len(u) + Len(rest)
        /\ \A i \in 1 .. Len(u) + Len(rest) : (u \o rest)[i] = IF i <= Len(u) THEN u[i] ELSE rest[i - Len(u)]
    <3>1. rest \in Seq(Name)
      BY <1>2
    <3> QED
      BY <3>1, ConcatProperties
  <2>2. Len(rest) \in Nat
    BY <1>1, <1>2
  <2>3. ASSUME NEW n \in 1 .. Len(u) PROVE (u \o rest)[n] = u[n]
    BY <1>1, <2>1, <2>2
  <2>4. ASSUME NEW n \in Len(u) + 1 .. Len(u) + Len(rest) PROVE (u \o rest)[n] = rest[n - Len(u)]
    BY <1>1, <2>1, <2>2
  <2> QED
    BY <2>1, <2>3, <2>4
<1>4. ASSUME NEW n \in Len(s) + 1 .. Len(t) PROVE (u \o rest)[n - Len(s) + Len(u)] = t[n]
  <2> DEFINE m == n - Len(s) + Len(u)
  <2>1. /\ m \in Len(u) + 1 .. Len(u) + Len(rest)
        /\ m - Len(u) \in 1 .. Len(t) - Len(s) /\ m - Len(u) + Len(s) = n
    BY <1>1, <1>2, <1>4
  <2> HIDE DEF m
  <2>2. (u \o rest)[m] = rest[m - Len(u)]
    BY <1>3, <2>1
  <2>3. rest[m - Len(u)] = t[m - Len(u) + Len(s)]
    BY <1>2, <2>1
  <2> QED
    BY <2>1, <2>2, <2>3 DEF m
<1>5. Swapped(t, s, u) = u \o rest
  BY DEF Swapped, rest
<1> QED
  BY <1>1, <1>2, <1>3, <1>4, <1>5

LEMMA SwappedWhole ==
    ASSUME NEW s \in Seq(Name), NEW u \in Seq(Name)
    PROVE  IsPrefix(s, s) /\ Swapped(s, s, u) = u
<1>1. SubSeq(s, Len(s) + 1, Len(s)) = << >>
  BY LenProperties, SubSeqEmpty
<1>2. u \o << >> = u
  BY ConcatEmptySeq
<1>3. Swapped(s, s, u) = u
  BY <1>1, <1>2 DEF Swapped
<1> QED
  BY <1>3, LenProperties DEF IsPrefix

LEMMA SwappedChild ==
    ASSUME NEW t \in Seq(Name), NEW s \in Seq(Name), NEW u \in Seq(Name), IsPrefix(s, t),
           NEW k \in Name
    PROVE  Swapped(Append(t, k), s, u) = Append(Swapped(t, s, u), k)
<1> DEFINE whole == Append(t, k)
           part == Swapped(t, s, u)
           left == Swapped(whole, s, u)
           right == Append(part, k)
<1>1. /\ whole \in Seq(Name) /\ Len(whole) = Len(t) + 1 /\ whole[Len(t) + 1] = k
      /\ \A n \in 1 .. Len(t) : whole[n] = t[n]
  BY AppendProperties
<1>2. Len(s) \in Nat /\ Len(t) \in Nat /\ Len(u) \in Nat /\ Len(s) <= Len(t) /\ \A n \in 1 .. Len(s) : s[n] = t[n]
  BY StrictPrefixes, LenProperties
<1>3. IsPrefix(s, whole)
  <2>1. Len(s) <= Len(whole) /\ \A n \in 1 .. Len(s) : s[n] = whole[n]
    BY <1>1, <1>2
  <2> HIDE DEF whole
  <2> QED
    BY <1>1, <2>1, StrictPrefixes
<1>4. /\ part \in Seq(Name) /\ Len(part) = Len(u) + Len(t) - Len(s) /\ Len(part) \in Nat
      /\ \A n \in 1 .. Len(u) : part[n] = u[n]
      /\ \A n \in Len(s) + 1 .. Len(t) : part[n - Len(s) + Len(u)] = t[n]
  BY SwappedPrefix
<1> HIDE DEF whole
<1>5. /\ left \in Seq(Name) /\ Len(left) = Len(u) + Len(t) + 1 - Len(s)
      /\ \A n \in 1 .. Len(u) : left[n] = u[n]
      /\ \A n \in Len(s) + 1 .. Len(t) + 1 : left[n - Len(s) + Len(u)] = whole[n]
  <2>1. /\ left \in Seq(Name) /\ Len(left) = Len(u) + Len(whole) - Len(s)
        /\ \A n \in 1 .. Len(u) : left[n] = u[n]
        /\ \A n \in Len(s) + 1 .. Len(whole) : left[n - Len(s) + Len(u)] = whole[n]
    BY <1>1, <1>3, SwappedPrefix
  <2> QED
    BY <1>1, <1>2, <2>1
<1> HIDE DEF part
<1>6. /\ right \in Seq(Name) /\ Len(right) = Len(part) + 1 /\ right[Len(part) + 1] = k
      /\ \A n \in 1 .. Len(part) : right[n] = part[n]
  <2>1. part \in Seq(Name)
    BY <1>4
  <2> QED
    BY <2>1, AppendProperties
<1> HIDE DEF left, right
<1>7. ASSUME NEW m \in 1 .. Len(left) PROVE left[m] = right[m]
  <2>1. CASE m <= Len(u)
    <3>1. m \in 1 .. Len(u) /\ m \in 1 .. Len(part)
      BY <1>2, <1>4, <1>5, <2>1
    <3> QED
      BY <1>4, <1>5, <1>6, <3>1
  <2>2. CASE m > Len(u)
    <3> DEFINE n == m - Len(u) + Len(s)
    <3>1. /\ n \in Len(s) + 1 .. Len(t) + 1 /\ n - Len(s) + Len(u) = m
          /\ n \in 1 .. Len(t) \/ n = Len(t) + 1
          /\ n = Len(t) + 1 => m = Len(part) + 1
          /\ n # Len(t) + 1 => m \in 1 .. Len(part) /\ n \in Len(s) + 1 .. Len(t)
      <4>1. /\ Len(left) = Len(u) + Len(t) + 1 - Len(s) /\ Len(part) = Len(u) + Len(t) - Len(s)
            /\ Len(s) \in Nat /\ Len(t) \in Nat /\ Len(u) \in Nat /\ Len(s) <= Len(t)
        BY <1>2, <1>4, <1>5
      <4>2. m \in Int /\ m >= 1 /\ m <= Len(u) + Len(t) + 1 - Len(s) /\ m > Len(u)
        BY <2>2, <4>1
      <4>3. n \in Int /\ n >= Len(s) + 1 /\ n <= Len(t) + 1
        BY <4>1, <4>2
      <4>4. n \in Len(s) + 1 .. Len(t) + 1 /\ (n \in 1 .. Len(t) \/ n = Len(t) + 1)
        BY <4>1, <4>3
      <4>5. n - Len(s) + Len(u) = m /\ (n = Len(t) + 1 => m = Len(part) + 1)
        BY <4>1, <4>2
      <4>6. n # Len(t) + 1 => m \in 1 .. Len(part) /\ n \in Len(s) + 1 .. Len(t)
        BY <4>1, <4>2, <4>3
      <4> QED
        BY <4>4, <4>5, <4>6
    <3> HIDE DEF n
    <3>2. left[m] = whole[n]
      BY <1>5, <3>1
    <3>3. CASE n = Len(t) + 1
      BY <1>1, <1>6, <3>1, <3>2, <3>3
    <3>4. CASE n # Len(t) + 1
      BY <1>1, <1>4, <1>6, <3>1, <3>2, <3>4
    <3> QED
      BY <3>3, <3>4
  <2> QED
    BY <1>2, <1>5, <2>1, <2>2
<1>8. Len(left) = Len(right)
  BY <1>2, <1>4, <1>5, <1>6
<1> QED
  BY <1>5, <1>6, <1>7, <1>8, SeqEqual DEF left, right, whole, part

\* What a rewritten row and the rows below it become, and that the others stay.
Repathed(rs, loc, new, out) ==
    /\ Tabled(out) /\ Present(out) = Present(rs) /\ out[loc.id] = new /\ loc.id \notin Under(rs, loc)
    /\ \A i \in Under(rs, loc) :
         out[i] = [rs[i] EXCEPT !.path = Swapped(rs[i].path, loc.path, new.path),
                                !.depth = rs[i].depth + new.depth - loc.depth]
    /\ \A i \in Location \ (Under(rs, loc) \cup {loc.id}) : out[i] = rs[i]

LEMMA RepathRows ==
    ASSUME NEW rs, Tabled(rs), NEW loc \in LocationRow, loc.id \in Present(rs), rs[loc.id] = loc,
           NEW new \in LocationRow, new.id = loc.id, new.parent \in Present(rs) \cup {None}
    PROVE  Repathed(rs, loc, new, Repath(rs, loc, new))
<1> DEFINE out == Repath(rs, loc, new)
           below(i) == [rs[i] EXCEPT !.path = Swapped(rs[i].path, loc.path, new.path),
                                     !.depth = rs[i].depth + new.depth - loc.depth]
<1>1. loc.id \notin Under(rs, loc) /\ Under(rs, loc) \subseteq Present(rs)
  BY DEF Under, IsStrictPrefix
<1>2. out = [i \in Location |-> IF i = loc.id THEN new ELSE IF i \in Under(rs, loc) THEN below(i) ELSE rs[i]]
  BY DEF Repath, Swapped
<1>3. \A i \in Under(rs, loc) :
        below(i) \in LocationRow /\ below(i) # None /\ below(i).id = i /\ below(i).parent = rs[i].parent
  <2> SUFFICES ASSUME NEW i \in Under(rs, loc)
               PROVE  below(i) \in LocationRow /\ below(i) # None /\ below(i).id = i /\ below(i).parent = rs[i].parent
    OBVIOUS
  <2>1. rs[i] \in LocationRow /\ rs[i].id = i /\ rs[i].path \in Seq(Name) /\ rs[i].depth \in Int
    BY <1>1, RowsTyped
  <2>2. Swapped(rs[i].path, loc.path, new.path) \in Seq(Name)
    <3>1. loc.path \in Seq(Name) /\ new.path \in Seq(Name) /\ IsStrictPrefix(loc.path, rs[i].path)
      BY DEF LocationRow, Under
    <3> QED
      BY <2>1, <3>1, SwappedPrefix DEF IsStrictPrefix
  <2>3. rs[i].depth + new.depth - loc.depth \in Int
    BY <2>1 DEF LocationRow
  <2>4. below(i) \in LocationRow /\ below(i).id = i /\ below(i).parent = rs[i].parent
    BY <2>1, <2>2, <2>3 DEF LocationRow
  <2> QED
    BY <2>4, LocationsAssumption
<1> HIDE DEF below
<1>4. loc.id \in Location /\ new # None
  BY LocationsAssumption DEF LocationRow
<1>5. out \in [Location -> LocationRow \cup {None}]
  BY <1>2, <1>3 DEF Tabled
<1>6. Present(out) = Present(rs)
  <2>1. \A i \in Location : out[i] = None <=> rs[i] = None
    BY <1>1, <1>2, <1>3, <1>4, LocationsAssumption DEF Present
  <2> QED
    BY <2>1 DEF Present
<1>7. \A i \in Present(rs) : out[i].id = i /\ out[i].parent \in Present(rs) \cup {None}
  BY <1>1, <1>2, <1>3, <1>4 DEF Tabled, Present
<1>8. Tabled(out)
  BY <1>5, <1>6, <1>7 DEF Tabled
<1>9. /\ out[loc.id] = new
      /\ \A i \in Under(rs, loc) : out[i] = below(i)
      /\ \A i \in Location \ (Under(rs, loc) \cup {loc.id}) : out[i] = rs[i]
  BY <1>1, <1>2, <1>4 DEF Present
<1> HIDE DEF out
<1> QED
  BY <1>1, <1>6, <1>8, <1>9 DEF below, out, Repathed

\* A parent that is not below the location it gets, so that the rewritten row is at its place.
Places(rs, loc, par) ==
    \/ par = None
    \/ /\ par \in LocationRow /\ par.id \in Present(rs) /\ rs[par.id] = par
       /\ par.id # loc.id /\ ~IsStrictPrefix(loc.path, par.path)

LEMMA RepathedRow ==
    ASSUME NEW loc, loc.id \in Location, NEW par \in LocationRow \cup {None}, NEW name \in Name
    PROVE  LET new == computeLocationRepath(loc, par, name) IN
           /\ new \in LocationRow /\ new.id = loc.id /\ new.name = name /\ new.path = locationChildPath(par, name)
           /\ new.parent = (IF par = None THEN None ELSE par.id) /\ new.depth = IF par = None THEN 0 ELSE par.depth + 1
<1> DEFINE parent == IF par = None THEN None ELSE par.id
           depth == IF par = None THEN 0 ELSE par.depth + 1
           path == locationChildPath(par, name)
<1>1. parent \in Location \cup {None} /\ depth \in Int
  BY DEF LocationRow
<1>2. path \in Seq(Name)
  BY ChildPaths
<1>3. computeLocationRepath(loc, par, name) = [id |-> loc.id, name |-> name, parent |-> parent, path |-> path, depth |-> depth]
  BY DEF computeLocationRepath
<1> HIDE DEF parent, depth, path
<1>4. [id |-> loc.id, name |-> name, parent |-> parent, path |-> path, depth |-> depth] \in LocationRow
  BY <1>1, <1>2 DEF LocationRow
<1> QED
  BY <1>3, <1>4 DEF parent, depth, path

\* Whoever is below a location has its parent below it, or is its child.
LEMMA ParentsBelow ==
    ASSUME NEW rs, Tabled(rs), Agrees(rs), UniqueNames(rs), NEW loc \in LocationRow,
           loc.id \in Present(rs), rs[loc.id] = loc,
           NEW i \in Present(rs), rs[i].parent # None
    PROVE  i \in Under(rs, loc) <=> rs[i].parent = loc.id \/ rs[i].parent \in Under(rs, loc)
<1> DEFINE p == rs[i].parent
           t == rs[i].path
           u == rs[p].path
           s == loc.path
<1>1. p \in Present(rs) /\ rs[p] \in LocationRow /\ rs[p] # None /\ RowOf(rs, p) = rs[p] /\ rs[i].name \in Name
  BY RowsTyped DEF Present
<1>2. t \in Seq(Name) /\ u \in Seq(Name) /\ s \in Seq(Name) /\ Len(t) \in Nat /\ Len(u) \in Nat /\ Len(s) \in Nat
  BY <1>1, RowsTyped, LenProperties
<1>3. Len(t) = Len(u) + 1 /\ \A n \in 1 .. Len(u) : t[n] = u[n]
  <2> DEFINE par == rs[p]
             name == rs[i].name
  <2>1. t = locationChildPath(par, name)
    BY <1>1 DEF Agrees
  <2>2. par \in LocationRow /\ name \in Name /\ u = par.path
    BY <1>1
  <2> HIDE DEF t, u, par, name, p
  <2>3. /\ Len(locationChildPath(par, name)) = Len(par.path) + 1
        /\ \A n \in 1 .. Len(par.path) : locationChildPath(par, name)[n] = par.path[n]
    BY <2>2, ChildPathBelow
  <2>4. Len(t) = Len(par.path) + 1 /\ \A n \in 1 .. Len(par.path) : t[n] = par.path[n]
    BY <2>1, <2>3
  <2> QED
    BY <2>2, <2>4
<1>4. i \in Under(rs, loc) <=> Len(s) < Len(t) /\ \A n \in 1 .. Len(s) : s[n] = t[n]
  BY <1>2, StrictPrefixes DEF Under
<1>5. p \in Under(rs, loc) <=> Len(s) < Len(u) /\ \A n \in 1 .. Len(s) : s[n] = u[n]
  BY <1>1, <1>2, StrictPrefixes DEF Under
<1>6. p = loc.id <=> s = u
  BY <1>1, PathsAreUnique
<1> HIDE DEF p, t, u, s
<1>7. s = u <=> Len(s) = Len(u) /\ \A n \in 1 .. Len(s) : s[n] = u[n]
  BY <1>2, SeqEqual
<1>8. Len(s) <= Len(u) => ((\A n \in 1 .. Len(s) : s[n] = t[n]) <=> \A n \in 1 .. Len(s) : s[n] = u[n])
  <2> SUFFICES ASSUME Len(s) <= Len(u) PROVE \A n \in 1 .. Len(s) : t[n] = u[n]
    OBVIOUS
  <2>1. \A n \in 1 .. Len(s) : n \in 1 .. Len(u)
    BY <1>2
  <2> QED
    BY <1>3, <2>1
<1>9. p = loc.id \/ p \in Under(rs, loc) <=> Len(s) <= Len(u) /\ \A n \in 1 .. Len(s) : s[n] = u[n]
  BY <1>2, <1>5, <1>6, <1>7
<1>10. i \in Under(rs, loc) <=> Len(s) <= Len(u) /\ \A n \in 1 .. Len(s) : s[n] = t[n]
  BY <1>2, <1>3, <1>4
<1> QED
  BY <1>8, <1>9, <1>10 DEF p

(* A subtree that is rewritten below a row that is still there agrees with *)
(* the rest of the tree.                                                   *)
LEMMA RepathAgrees ==
    ASSUME NEW rs, Tabled(rs), Agrees(rs), UniqueNames(rs), NEW loc \in LocationRow,
           loc.id \in Present(rs), rs[loc.id] = loc,
           NEW par, Places(rs, loc, par), NEW name \in Name
    PROVE  Agrees(Repath(rs, loc, computeLocationRepath(loc, par, name)))
<1> DEFINE new == computeLocationRepath(loc, par, name)
           out == Repath(rs, loc, new)
<1>1. /\ par \in LocationRow \cup {None} /\ new \in LocationRow /\ new.id = loc.id /\ new.name = name
      /\ new.path = locationChildPath(par, name)
      /\ new.parent = (IF par = None THEN None ELSE par.id) /\ new.depth = IF par = None THEN 0 ELSE par.depth + 1
  BY RepathedRow DEF Places, Present
<1>2. new.parent \in Present(rs) \cup {None}
  BY <1>1 DEF Places
<1> HIDE DEF new
<1>3. Repathed(rs, loc, new, out)
  BY <1>1, <1>2, RepathRows
<1> HIDE DEF out
<1> SUFFICES ASSUME NEW i \in Present(rs)
             PROVE  /\ out[i].path = locationChildPath(RowOf(out, out[i].parent), out[i].name)
                    /\ out[i].depth = Len(out[i].path) - 1
  BY <1>3 DEF Agrees, out, new, Repathed
<1>4. /\ rs[i].path = locationChildPath(RowOf(rs, rs[i].parent), rs[i].name) /\ rs[i].depth = Len(rs[i].path) - 1
      /\ i \in Location /\ rs[i] \in LocationRow /\ rs[i].name \in Name
  <2>1. rs[i] \in LocationRow /\ rs[i].name \in Name
    BY RowsTyped
  <2> QED
    BY <2>1 DEF Agrees, Present
<1>0. new.path = locationChildPath(RowOf(out, new.parent), name) /\ new.depth = Len(new.path) - 1 /\ Len(new.path) \in Nat
  <2>1. CASE par = None
    <3>1. RowOf(out, new.parent) = None
      BY <1>1, <2>1 DEF RowOf
    <3>2. Len(locationChildPath(par, name)) = 1
      BY <2>1, ChildPaths, <1>1
    <3> QED
      BY <1>1, <2>1, <3>1, <3>2
  <2>2. CASE par # None
    <3>1. par \in LocationRow /\ par.id \in Present(rs) /\ rs[par.id] = par /\ par.id # loc.id /\ par.id \notin Under(rs, loc)
      BY <2>2 DEF Places, Under
    <3>2. out[par.id] = par /\ par.id # None
      BY <1>3, <3>1, LocationsAssumption DEF Present, Repathed
    <3>3. RowOf(out, new.parent) = par
      BY <1>1, <2>2, <3>2 DEF RowOf
    <3>4. par.depth = Len(par.path) - 1
      BY <3>1 DEF Agrees
    <3>5. Len(locationChildPath(par, name)) = Len(par.path) + 1 /\ Len(par.path) \in Nat
      BY <3>1, ChildPathBelow
    <3> QED
      BY <1>1, <2>2, <3>3, <3>4, <3>5
  <2> QED
    BY <2>1, <2>2
<1>5. CASE i = loc.id
  <2>1. out[i] = new
    BY <1>3, <1>5 DEF Repathed
  <2> QED
    BY <1>0, <1>1, <2>1
<1>6. CASE i # loc.id /\ i \notin Under(rs, loc)
  <2>1. out[i] = rs[i]
    BY <1>3, <1>4, <1>6 DEF Repathed
  <2>2. RowOf(out, rs[i].parent) = RowOf(rs, rs[i].parent)
    <3>1. CASE rs[i].parent = None
      BY <3>1 DEF RowOf
    <3>2. CASE rs[i].parent # None
      <4>1. rs[i].parent \in Present(rs) /\ rs[i].parent # loc.id /\ rs[i].parent \notin Under(rs, loc)
        BY <1>6, <3>2, ParentsBelow, RowsTyped
      <4>2. out[rs[i].parent] = rs[rs[i].parent]
        BY <1>3, <4>1 DEF Present, Repathed
      <4> QED
        BY <3>2, <4>2 DEF RowOf
    <3> QED
      BY <3>1, <3>2
  <2> QED
    BY <1>4, <2>1, <2>2
<1>7. CASE i \in Under(rs, loc)
  <2> DEFINE p == rs[i].parent
             t == rs[p].path
             s == loc.path
             u == new.path
             name1 == rs[i].name
  <2>1. rs[i].path \in Seq(Name) /\ s \in Seq(Name) /\ u \in Seq(Name) /\ IsStrictPrefix(s, rs[i].path)
    BY <1>1, <1>4, <1>7 DEF LocationRow, Under
  <2>2. loc.depth = Len(s) - 1 /\ Len(s) \in Nat \ {0}
    BY PathsInTree
  <2>3. new.depth = Len(u) - 1 /\ Len(u) \in Nat
    BY <1>0
  <2>4. p # None
    <3> SUFFICES ASSUME p = None PROVE FALSE
      OBVIOUS
    <3>2. Len(rs[i].path) = 1
      BY PathsInTree
    <3>3. Len(s) < Len(rs[i].path)
      BY <2>1, StrictPrefixes
    <3> QED
      BY <2>2, <3>2, <3>3
  <2>5. p \in Present(rs) /\ rs[p] \in LocationRow /\ rs[p] # None /\ RowOf(rs, p) = rs[p] /\ t \in Seq(Name)
    BY <2>4, RowsTyped DEF Present
  <2>6. p = loc.id \/ p \in Under(rs, loc)
    BY <1>7, <2>4, ParentsBelow
  <2>7. rs[i].path = Append(t, name1) /\ name1 \in Name
    BY <1>4, <2>5 DEF locationChildPath
  <2>8. IsPrefix(s, t) /\ out[p].path = Swapped(t, s, u) /\ out[p] # None
    <3>1. CASE p = loc.id
      <4>1. t = s /\ out[p] = new
        BY <1>3, <3>1 DEF Repathed
      <4>2. IsPrefix(s, s) /\ Swapped(s, s, u) = u
        BY <2>1, SwappedWhole
      <4>3. new # None
        BY <1>1, LocationsAssumption
      <4> QED
        BY <4>1, <4>2, <4>3
    <3>2. CASE p \in Under(rs, loc)
      <4>1. IsPrefix(s, t)
        BY <3>2 DEF Under, IsStrictPrefix
      <4>2. out[p] = [rs[p] EXCEPT !.path = Swapped(rs[p].path, loc.path, new.path),
                                   !.depth = rs[p].depth + new.depth - loc.depth]
        BY <1>3, <3>2 DEF Repathed
      <4>3. out[p].path = Swapped(t, s, u)
        BY <2>5, <4>2 DEF LocationRow
      <4>4. out[p] # None
        BY <1>3, <2>5 DEF Repathed, Present
      <4> QED
        BY <4>1, <4>3, <4>4
    <3> QED
      BY <2>6, <3>1, <3>2
  <2>9. out[i] = [rs[i] EXCEPT !.path = Swapped(rs[i].path, loc.path, new.path),
                               !.depth = rs[i].depth + new.depth - loc.depth]
    BY <1>3, <1>7 DEF Repathed
  <2>10. /\ out[i].path = Swapped(rs[i].path, s, u) /\ out[i].depth = rs[i].depth + new.depth - loc.depth
         /\ out[i].parent = p /\ out[i].name = name1
    BY <1>4, <2>9 DEF LocationRow
  <2> HIDE DEF p, t, s, u, name1
  <2>11. Swapped(Append(t, name1), s, u) = Append(Swapped(t, s, u), name1)
    BY <2>1, <2>5, <2>7, <2>8, SwappedChild
  <2>12. out[i].path = Append(out[p].path, name1)
    BY <2>7, <2>8, <2>10, <2>11
  <2>13. RowOf(out, out[i].parent) = out[p]
    BY <2>4, <2>10 DEF RowOf
  <2>14. out[i].path = locationChildPath(RowOf(out, out[i].parent), out[i].name)
    BY <2>8, <2>10, <2>12, <2>13 DEF locationChildPath
  <2>15. Len(out[i].path) = Len(u) + Len(rs[i].path) - Len(s) /\ Len(rs[i].path) \in Nat
    <3>1. IsPrefix(s, rs[i].path)
      BY <2>1 DEF IsStrictPrefix
    <3> DEFINE whole == rs[i].path
    <3>2. whole \in Seq(Name) /\ s \in Seq(Name) /\ u \in Seq(Name) /\ IsPrefix(s, whole)
      BY <2>1, <3>1
    <3> HIDE DEF whole
    <3>3. Len(Swapped(whole, s, u)) = Len(u) + Len(whole) - Len(s) /\ Len(whole) \in Nat
      BY <3>2, SwappedPrefix, LenProperties
    <3> QED
      BY <2>10, <3>3 DEF whole
  <2> QED
    BY <1>4, <2>2, <2>3, <2>10, <2>14, <2>15
<1> QED
  BY <1>5, <1>6, <1>7

LEMMA SwappedSelf ==
    ASSUME NEW t \in Seq(Name), NEW s \in Seq(Name), IsPrefix(s, t)
    PROVE  Swapped(t, s, s) = t
<1> DEFINE again == Swapped(t, s, s)
<1>1. /\ again \in Seq(Name) /\ Len(again) = Len(s) + Len(t) - Len(s)
      /\ \A n \in 1 .. Len(s) : again[n] = s[n]
      /\ \A n \in Len(s) + 1 .. Len(t) : again[n - Len(s) + Len(s)] = t[n]
  BY SwappedPrefix
<1>2. /\ Len(s) \in Nat /\ Len(t) \in Nat /\ Len(s) <= Len(t)
      /\ \A n \in 1 .. Len(s) : s[n] = t[n]
  BY StrictPrefixes, LenProperties
<1> HIDE DEF again
<1>3. Len(again) = Len(t) /\ \A n \in Len(s) + 1 .. Len(t) : again[n] = t[n]
  BY <1>1, <1>2
<1>4. \A n \in 1 .. Len(t) : again[n] = t[n]
  <2> SUFFICES ASSUME NEW n \in 1 .. Len(t) PROVE again[n] = t[n]
    OBVIOUS
  <2>1. n \in 1 .. Len(s) \/ n \in Len(s) + 1 .. Len(t)
    BY <1>2
  <2> QED
    BY <1>1, <1>2, <1>3, <2>1
<1> QED
  BY <1>1, <1>3, <1>4, SeqEqual DEF again

\* Rewriting a subtree once more to where it is changes nothing.
LEMMA RepathTwice ==
    ASSUME NEW rs, Tabled(rs), NEW loc \in LocationRow, loc.id \in Present(rs), rs[loc.id] = loc,
           NEW par, Places(rs, loc, par), NEW name \in Name,
           NEW new, new = computeLocationRepath(loc, par, name), NEW out, out = Repath(rs, loc, new)
    PROVE  Repath(out, out[loc.id], computeLocationRepath(out[loc.id], RowOf(out, new.parent), new.name)) = out
<1>1. /\ par \in LocationRow \cup {None} /\ new \in LocationRow /\ new.id = loc.id /\ new.name = name
      /\ new.path = locationChildPath(par, name)
      /\ new.parent = (IF par = None THEN None ELSE par.id) /\ new.depth = IF par = None THEN 0 ELSE par.depth + 1
  <2>1. par \in LocationRow \cup {None}
    BY DEF Places
  <2> DEFINE moved == computeLocationRepath(loc, par, name)
  <2>2. /\ moved \in LocationRow /\ moved.id = loc.id /\ moved.name = name /\ moved.path = locationChildPath(par, name)
        /\ moved.parent = (IF par = None THEN None ELSE par.id) /\ moved.depth = IF par = None THEN 0 ELSE par.depth + 1
    BY <2>1, RepathedRow DEF Present
  <2>3. new = moved
    OBVIOUS
  <2> HIDE DEF moved
  <2> QED
    BY <2>1, <2>2, <2>3
<1>2. new.parent \in Present(rs) \cup {None}
  BY <1>1 DEF Places
<1>3. Repathed(rs, loc, new, out)
  BY <1>1, <1>2, RepathRows
<1>4. out[loc.id] = new /\ Tabled(out)
  BY <1>3 DEF Repathed
<1>5. RowOf(out, new.parent) = par
  <2>1. CASE par = None
    BY <1>1, <2>1 DEF RowOf
  <2>2. CASE par # None
    <3>1. par \in LocationRow /\ par.id \in Present(rs) /\ rs[par.id] = par /\ par.id # loc.id /\ par.id \notin Under(rs, loc)
      BY <2>2 DEF Places, Under
    <3>2. out[par.id] = par /\ par.id # None
      BY <1>3, <3>1, LocationsAssumption DEF Present, Repathed
    <3> QED
      BY <1>1, <2>2, <3>2 DEF RowOf
  <2> QED
    BY <2>1, <2>2
<1>6. computeLocationRepath(new, par, name) = new
  BY <1>1 DEF computeLocationRepath
<1>7. Repath(out, new, new) = out
  <2>1. out = [i \in Location |-> out[i]]
    BY <1>4 DEF Tabled
  <2>2. ASSUME NEW i \in Under(out, new)
        PROVE  [out[i] EXCEPT !.path = new.path \o SubSeq(@, Len(new.path) + 1, Len(@)),
                              !.depth = @ + new.depth - new.depth] = out[i]
    <3>1. i \in Present(out) /\ IsStrictPrefix(new.path, out[i].path) /\ new.path \in Seq(Name) /\ new.depth \in Int
      BY <1>1 DEF Under, LocationRow
    <3>2. out[i] \in LocationRow /\ out[i].path \in Seq(Name) /\ out[i].depth \in Int
      BY <1>4, <3>1, RowsTyped
    <3>3. Swapped(out[i].path, new.path, new.path) = out[i].path
      <4> DEFINE t == out[i].path
                 s == new.path
      <4>1. t \in Seq(Name) /\ s \in Seq(Name) /\ IsPrefix(s, t)
        BY <3>1, <3>2 DEF IsStrictPrefix
      <4> HIDE DEF t, s
      <4>2. Swapped(t, s, s) = t
        BY <4>1, SwappedSelf
      <4> QED
        BY <4>2 DEF t, s
    <3>4. out[i].depth + new.depth - new.depth = out[i].depth
      BY <3>1, <3>2
    <3> QED
      BY <3>2, <3>3, <3>4 DEF Swapped, LocationRow
  <2>3. Repath(out, new, new) = [i \in Location |-> out[i]]
    <3> DEFINE below(i) == [out[i] EXCEPT !.path = new.path \o SubSeq(@, Len(new.path) + 1, Len(@)),
                                          !.depth = @ + new.depth - new.depth]
    <3>1. Repath(out, new, new) = [i \in Location |-> IF i = new.id THEN new ELSE IF i \in Under(out, new) THEN below(i) ELSE out[i]]
      BY DEF Repath
    <3>2. \A i \in Under(out, new) : below(i) = out[i]
      BY <2>2
    <3>3. out[new.id] = new
      BY <1>1, <1>4
    <3> HIDE DEF below
    <3> QED
      BY <3>1, <3>2, <3>3
  <2> QED
    BY <2>1, <2>3
<1> QED
  BY <1>1, <1>4, <1>5, <1>6, <1>7

-----------------------------------------------------------------------------
(****************************** the calls and the page *********************)

\* What a page may hold, and what a call may be.
SavedView == [rows : [Location -> LocationRow \cup {None}], books : [Location -> Nat]]
CreateCall == [do : {"create"}, at : {"write"}, par : LocationRow \cup {None}, name : Name, saved : SavedView \cup {None}]
RenameCall == [do : {"rename"}, at : {"parent", "write"}, id : Location, loc : LocationRow, par : LocationRow \cup {None},
               name : Name, saved : SavedView \cup {None}]
MoveCall == [do : {"move"}, at : {"parent", "write"}, id : Location, loc : LocationRow, par : LocationRow \cup {None},
             to : Location \cup {None}, saved : SavedView \cup {None}]
DeleteCall == [do : {"delete"}, at : {"check", "scope", "target", "write"}, id : Location, loc : LocationRow,
               par : LocationRow \cup {None}, mode : {"block", "clear", "move"}, to : Location \cup {None},
               scope : SUBSET LocationRow, saved : SavedView \cup {None}]
AssignCall == [do : {"assign"}, at : {"write"}, copy : Shelved, to : Location \cup {None}, saved : SavedView \cup {None}]
LocationCall == {Idle} \cup CreateCall \cup RenameCall \cup MoveCall \cup DeleteCall \cup AssignCall

\* What the server would send.
ServerList(rs, sh) == [rows |-> rs, books |-> [i \in Location |-> Cardinality(Held(sh, {i}))]]

\* The rows that a call holds belong together, whatever has become of them.
Asked(r) ==
    /\ r.do = "rename" => r.loc.id = r.id /\ (r.at = "write" /\ r.par # None => r.par.id = r.loc.parent)
    /\ r.do = "move" =>
         /\ r.loc.id = r.id
         /\ r.at = "write" /\ r.par # None => r.par.id # r.id /\ ~IsStrictPrefix(r.loc.path, r.par.path)
    /\ r.do = "delete" => r.loc.id = r.id

\* The rows that a call holds are those that are stored.
Current(rs, sh, r) ==
    /\ r.do = "create" /\ r.par # None => r.par.id \in Present(rs) /\ rs[r.par.id] = r.par
    /\ r.do \in {"rename", "move", "delete"} => r.id \in Present(rs) /\ rs[r.id] = r.loc
    /\ r.do = "rename" /\ r.at = "write" => r.par = RowOf(rs, r.loc.parent)
    /\ r.do \in {"move", "delete"} => r.to \in Present(rs) \cup {None}
    /\ r.do = "move" /\ r.at = "write" => r.par = RowOf(rs, r.to)
    /\ r.do = "delete" =>
         LET below == {r.id} \cup Under(rs, r.loc) IN
         /\ (r.mode = "move") = (r.to # None)
         /\ r.at # "check" => /\ r.par = RowOf(rs, r.to) /\ r.to \notin below
                              /\ r.mode = "block" => Held(sh, below) = {}
         /\ r.at \in {"target", "write"} => r.scope = {rs[i] : i \in below}

\* As long as the page is alone it holds what the server would send, or that and its own change.
Shows(rs, sh, r, v, late) == v # None =>
    /\ late = {}
    /\ r = Idle => v = ServerList(rs, sh)
    /\ r # Idle => r.saved = ServerList(rs, sh) /\ v = Optimistic(ServerList(rs, sh), r) /\ Current(rs, sh, r)

Tree(rs, sh, late) ==
    /\ Tabled(rs) /\ UniqueNames(rs) /\ IsFiniteSet(Present(rs))
    /\ sh \in [Shelved -> Present(rs) \cup {None}]
    /\ late \in SUBSET Location /\ (late = {} => Agrees(rs))

Calls(calls) == calls \in [Call -> LocationCall] /\ \A c \in Call : Asked(calls[c])

LocationsInv == Tree(rows, shelf, outdated) /\ Calls(op) /\ Shows(rows, shelf, op[Page], view, outdated)

LEMMA CallKinds ==
    ASSUME NEW r \in LocationCall
    PROVE  /\ r = Idle <=> r.do = "idle"
           /\ r.do = "create" => r \in CreateCall
           /\ r.do = "rename" => r \in RenameCall
           /\ r.do = "move" => r \in MoveCall
           /\ r.do = "delete" => r \in DeleteCall
           /\ r.do = "assign" => r \in AssignCall
<1>1. r = Idle \/ r \in CreateCall \/ r \in RenameCall \/ r \in MoveCall \/ r \in DeleteCall \/ r \in AssignCall
  BY DEF LocationCall
<1>2. r = Idle => r.do = "idle"
  BY DEF Idle
<1>3. r \in CreateCall => r.do = "create"
  BY DEF CreateCall
<1>4. r \in RenameCall => r.do = "rename"
  BY DEF RenameCall
<1>5. r \in MoveCall => r.do = "move"
  BY DEF MoveCall
<1>6. r \in DeleteCall => r.do = "delete"
  BY DEF DeleteCall
<1>7. r \in AssignCall => r.do = "assign"
  BY DEF AssignCall
<1> QED
  BY <1>1, <1>2, <1>3, <1>4, <1>5, <1>6, <1>7

LEMMA RowOfTyped ==
    ASSUME NEW rs, Tabled(rs), NEW p \in Present(rs) \cup {None}
    PROVE  /\ RowOf(rs, p) \in LocationRow \cup {None} /\ (RowOf(rs, p) = None <=> p = None)
           /\ p # None => RowOf(rs, p) = rs[p] /\ RowOf(rs, p) \in LocationRow /\ RowOf(rs, p).id = p
<1>1. CASE p = None
  BY <1>1 DEF RowOf
<1>2. CASE p # None
  <2>1. p \in Present(rs) /\ RowOf(rs, p) = rs[p] /\ rs[p] # None
    BY <1>2 DEF RowOf, Present
  <2>2. rs[p] \in LocationRow /\ rs[p].id = p
    BY <2>1, RowsTyped
  <2> QED
    BY <1>2, <2>1, <2>2
<1> QED
  BY <1>1, <1>2

LEMMA HeldFinite ==
    ASSUME NEW sh, NEW ids
    PROVE  /\ IsFiniteSet(Held(sh, ids)) /\ Cardinality(Held(sh, ids)) \in Nat
           /\ Cardinality(Held(sh, ids)) = 0 <=> Held(sh, ids) = {}
<1>1. Held(sh, ids) \in SUBSET Shelved
  BY DEF Held
<1>2. IsFiniteSet(Held(sh, ids))
  BY <1>1, LocationsAssumption, FS_Subset
<1> QED
  BY <1>2, FS_CardinalityType, FS_EmptySet

LEMMA ListTyped ==
    ASSUME NEW rs, NEW sh, Tabled(rs)
    PROVE  /\ ServerList(rs, sh) \in SavedView /\ ServerList(rs, sh).rows = rs
           /\ \A i \in Location : ServerList(rs, sh).books[i] = Cardinality(Held(sh, {i}))
<1> DEFINE books == [i \in Location |-> Cardinality(Held(sh, {i}))]
<1>1. books \in [Location -> Nat] /\ \A i \in Location : books[i] = Cardinality(Held(sh, {i}))
  BY HeldFinite
<1>2. rs \in [Location -> LocationRow \cup {None}]
  BY DEF Tabled
<1>3. ServerList(rs, sh) = [rows |-> rs, books |-> books]
  BY DEF ServerList
<1> HIDE DEF books
<1> QED
  BY <1>1, <1>2, <1>3 DEF SavedView

LEMMA KeptTyped ==
    ASSUME LocationsInv, NEW c \in Call, op[c] = Idle
    PROVE  Kept(c) \in SavedView \cup {None}
<1>1. CASE c = Page /\ view # None
  <2>1. view = ServerList(rows, shelf) /\ Tabled(rows)
    BY <1>1 DEF LocationsInv, Shows, Tree
  <2> QED
    BY <1>1, <2>1, ListTyped DEF Kept
<1>2. CASE ~(c = Page /\ view # None)
  BY <1>2 DEF Kept
<1> QED
  BY <1>1, <1>2

-----------------------------------------------------------------------------
(****************************** kinds of steps *****************************)

\* What a step does to the call that makes it.
LEMMA CallChanges ==
    ASSUME Calls(op), NEW c \in Call, NEW r \in LocationCall, Asked(r), op' = [op EXCEPT ![c] = r]
    PROVE  Calls(op') /\ op'[c] = r /\ (c # Page => op'[Page] = op[Page]) /\ Page \in Call
<1>1. op \in [Call -> LocationCall] /\ Page \in Call
  BY LocationsAssumption DEF Calls
<1>2. op'[c] = r /\ op' \in [Call -> LocationCall] /\ \A d \in Call : d # c => op'[d] = op[d]
  BY <1>1
<1> QED
  BY <1>1, <1>2 DEF Calls

LEMMA IdleAsked == Idle \in LocationCall /\ Asked(Idle) /\ Idle.do = "idle"
<1>1. Idle.do = "idle"
  BY DEF Idle
<1> QED
  BY <1>1 DEF LocationCall, Asked

LEMMA BeginKeeps ==
    ASSUME LocationsInv, NEW c \in Call, NEW r \in LocationCall, r # Idle, Asked(r),
           r.saved = Kept(c),
           c = Page /\ view # None => Current(rows, shelf, r), Begin(c, r)
    PROVE  LocationsInv'
<1>1. op' = [op EXCEPT ![c] = r] /\ rows' = rows /\ shelf' = shelf /\ outdated' = outdated /\ op[c] = Idle
  BY DEF Begin
<1>2. Calls(op') /\ op'[c] = r /\ (c # Page => op'[Page] = op[Page])
  BY <1>1, CallChanges DEF LocationsInv
<1>3. CASE c = Page /\ view # None
  <2>1. view' = Optimistic(view, r) /\ r.saved = view
    BY <1>3 DEF Begin, Kept
  <2>2. view = ServerList(rows, shelf) /\ outdated = {}
    BY <1>1, <1>3 DEF LocationsInv, Shows
  <2>3. Shows(rows, shelf, r, view', outdated)
    BY <1>3, <2>1, <2>2 DEF Shows
  <2>4. op'[Page] = r
    BY <1>2, <1>3
  <2> QED
    BY <1>1, <1>2, <2>3, <2>4 DEF LocationsInv
<1>4. CASE ~(c = Page /\ view # None)
  <2>1. view' = view
    BY <1>4 DEF Begin
  <2>2. Shows(rows, shelf, op'[Page], view', outdated)
    <3>1. CASE view = None
      BY <2>1, <3>1 DEF Shows
    <3>2. CASE c # Page
      BY <1>2, <2>1, <3>2 DEF LocationsInv
    <3> QED
      BY <1>4, <3>1, <3>2
  <2> QED
    BY <1>1, <1>2, <2>2 DEF LocationsInv
<1> QED
  BY <1>3, <1>4

LEMMA GoKeeps ==
    ASSUME LocationsInv, NEW c \in Call, op[c] # Idle, NEW r \in LocationCall, r # Idle, Asked(r),
           r.saved = op[c].saved,
           \A v : Optimistic(v, r) = Optimistic(v, op[c]),
           Current(rows, shelf, op[c]) => Current(rows, shelf, r), Go(c, r)
    PROVE  LocationsInv'
<1>1. op' = [op EXCEPT ![c] = r] /\ rows' = rows /\ shelf' = shelf /\ outdated' = outdated /\ view' = view
  BY DEF Go
<1>2. Calls(op') /\ op'[c] = r /\ (c # Page => op'[Page] = op[Page])
  BY <1>1, CallChanges DEF LocationsInv
<1>3. Shows(rows, shelf, op'[Page], view, outdated)
  <2>1. CASE c = Page
    <3>1. Shows(rows, shelf, op[c], view, outdated) /\ op'[Page] = r
      BY <1>2, <2>1 DEF LocationsInv
    <3> QED
      BY <3>1 DEF Shows
  <2>2. CASE c # Page
    BY <1>2, <2>2 DEF LocationsInv
  <2> QED
    BY <2>1, <2>2
<1> QED
  BY <1>1, <1>2, <1>3 DEF LocationsInv

LEMMA RefuseKeeps ==
    ASSUME LocationsInv, NEW c \in Call, op[c] # Idle, Refuse(c)
    PROVE  LocationsInv'
<1>1. /\ op' = [op EXCEPT ![c] = Idle] /\ rows' = rows /\ shelf' = shelf /\ outdated' = outdated
      /\ view' = IF view = None THEN None ELSE IF c # Page THEN view ELSE op[c].saved
  BY DEF Refuse, Answer
<1>2. Calls(op') /\ op'[c] = Idle /\ (c # Page => op'[Page] = op[Page])
  BY <1>1, CallChanges, IdleAsked DEF LocationsInv
<1>3. Shows(rows, shelf, op'[Page], view', outdated)
  <2>1. CASE view = None
    BY <1>1, <2>1 DEF Shows
  <2>2. CASE view # None /\ c # Page
    BY <1>1, <1>2, <2>2 DEF LocationsInv
  <2>3. CASE view # None /\ c = Page
    <3>1. view' = ServerList(rows, shelf) /\ outdated = {}
      BY <1>1, <2>3 DEF LocationsInv, Shows
    <3> QED
      BY <1>2, <2>3, <3>1 DEF Shows
  <2> QED
    BY <2>1, <2>2, <2>3
<1> QED
  BY <1>1, <1>2, <1>3 DEF LocationsInv

LEMMA WriteKeeps ==
    ASSUME LocationsInv, NEW c \in Call, op' = [op EXCEPT ![c] = Idle],
           Tree(rows', shelf', outdated'),
           view' # None => c = Page /\ view # None /\ outdated' = {} /\ view' = ServerList(rows', shelf')
    PROVE  LocationsInv'
<1>1. Calls(op') /\ op'[c] = Idle
  BY CallChanges, IdleAsked DEF LocationsInv
<1>2. Shows(rows', shelf', op'[Page], view', outdated')
  BY <1>1 DEF Shows
<1> QED
  BY <1>1, <1>2 DEF LocationsInv

-----------------------------------------------------------------------------
(****************************** the reads **********************************)

LEMMA CreateReadKeeps ==
    ASSUME LocationsInv, NEW c \in Call, CreateRead(c)
    PROVE  LocationsInv'
<1>1. PICK p \in Present(rows) \cup {None}, n \in Name :
        Begin(c, [do |-> "create", at |-> "write", par |-> RowOf(rows, p), name |-> n, saved |-> Kept(c)])
  BY DEF CreateRead
<1> DEFINE par == RowOf(rows, p)
           saved == Kept(c)
           r == [do |-> "create", at |-> "write", par |-> par, name |-> n, saved |-> saved]
<1>2. Tabled(rows) /\ op[c] = Idle
  BY <1>1 DEF LocationsInv, Tree, Begin
<1>3. saved \in SavedView \cup {None} /\ saved = Kept(c)
  BY <1>2, KeptTyped
<1>4. par \in LocationRow \cup {None} /\ (par # None => par.id \in Present(rows) /\ rows[par.id] = par)
  BY <1>2, RowOfTyped
<1>5. Begin(c, r)
  BY <1>1
<1> HIDE DEF par, saved
<1>6. r \in CreateCall /\ r.do = "create" /\ r.par = par /\ r.saved = saved
  BY <1>3, <1>4 DEF CreateCall
<1> HIDE DEF r
<1>7. r \in LocationCall /\ r # Idle
  BY <1>6, IdleAsked DEF LocationCall
<1>8. Asked(r) /\ Current(rows, shelf, r)
  BY <1>4, <1>6 DEF Asked, Current
<1> QED
  BY <1>3, <1>5, <1>6, <1>7, <1>8, BeginKeeps

LEMMA RenameReadKeeps ==
    ASSUME LocationsInv, NEW c \in Call, RenameRead(c)
    PROVE  LocationsInv'
<1>1. PICK i \in Present(rows), n \in Name :
        Begin(c, [do |-> "rename", at |-> "parent", id |-> i, loc |-> rows[i], par |-> None, name |-> n, saved |-> Kept(c)])
  BY DEF RenameRead
<1> DEFINE loc == rows[i]
           saved == Kept(c)
           r == [do |-> "rename", at |-> "parent", id |-> i, loc |-> loc, par |-> None, name |-> n, saved |-> saved]
<1>2. Tabled(rows) /\ op[c] = Idle
  BY <1>1 DEF LocationsInv, Tree, Begin
<1>3. saved \in SavedView \cup {None} /\ saved = Kept(c)
  BY <1>2, KeptTyped
<1>4. loc \in LocationRow /\ loc.id = i /\ loc = rows[i] /\ i \in Location
  BY <1>2, RowsTyped DEF Present
<1>5. Begin(c, r)
  BY <1>1
<1> HIDE DEF loc, saved
<1>6. r \in RenameCall /\ r.do = "rename" /\ r.at = "parent" /\ r.id = i /\ r.loc = loc /\ r.saved = saved
  BY <1>3, <1>4 DEF RenameCall
<1> HIDE DEF r
<1>7. r \in LocationCall /\ r # Idle
  BY <1>6, IdleAsked DEF LocationCall
<1>8. Asked(r) /\ Current(rows, shelf, r)
  BY <1>4, <1>6 DEF Asked, Current
<1> QED
  BY <1>3, <1>5, <1>6, <1>7, <1>8, BeginKeeps

LEMMA MoveReadKeeps ==
    ASSUME LocationsInv, NEW c \in Call, MoveRead(c)
    PROVE  LocationsInv'
<1>1. PICK i \in Present(rows), p \in Present(rows) \cup {None} :
        Begin(c, [do |-> "move", at |-> "parent", id |-> i, loc |-> rows[i], par |-> None, to |-> p, saved |-> Kept(c)])
  BY DEF MoveRead
<1> DEFINE loc == rows[i]
           saved == Kept(c)
           r == [do |-> "move", at |-> "parent", id |-> i, loc |-> loc, par |-> None, to |-> p, saved |-> saved]
<1>2. Tabled(rows) /\ op[c] = Idle
  BY <1>1 DEF LocationsInv, Tree, Begin
<1>3. saved \in SavedView \cup {None} /\ saved = Kept(c)
  BY <1>2, KeptTyped
<1>4. loc \in LocationRow /\ loc.id = i /\ loc = rows[i] /\ i \in Location /\ p \in Location \cup {None}
  BY <1>2, RowsTyped DEF Present
<1>5. Begin(c, r)
  BY <1>1
<1> HIDE DEF loc, saved
<1>6. r \in MoveCall /\ r.do = "move" /\ r.at = "parent" /\ r.id = i /\ r.loc = loc /\ r.to = p /\ r.saved = saved
  BY <1>3, <1>4 DEF MoveCall
<1> HIDE DEF r
<1>7. r \in LocationCall /\ r # Idle
  BY <1>6, IdleAsked DEF LocationCall
<1>8. Asked(r) /\ Current(rows, shelf, r)
  BY <1>4, <1>6 DEF Asked, Current
<1> QED
  BY <1>3, <1>5, <1>6, <1>7, <1>8, BeginKeeps

LEMMA DeleteReadKeeps ==
    ASSUME LocationsInv, NEW c \in Call, DeleteRead(c)
    PROVE  LocationsInv'
<1>1. PICK i \in Present(rows), m \in {"block", "clear", "move"}, t \in Present(rows) \cup {None} :
        /\ (m = "move") = (t # None)
        /\ Begin(c, [do |-> "delete", at |-> "check", id |-> i, loc |-> rows[i], par |-> None,
                     mode |-> m, to |-> t, scope |-> {}, saved |-> Kept(c)])
  BY DEF DeleteRead
<1> DEFINE loc == rows[i]
           saved == Kept(c)
           r == [do |-> "delete", at |-> "check", id |-> i, loc |-> loc, par |-> None,
                 mode |-> m, to |-> t, scope |-> {}, saved |-> saved]
<1>2. Tabled(rows) /\ op[c] = Idle
  BY <1>1 DEF LocationsInv, Tree, Begin
<1>3. saved \in SavedView \cup {None} /\ saved = Kept(c)
  BY <1>2, KeptTyped
<1>4. loc \in LocationRow /\ loc.id = i /\ loc = rows[i] /\ i \in Location /\ t \in Location \cup {None}
  BY <1>2, RowsTyped DEF Present
<1>5. Begin(c, r)
  BY <1>1
<1> HIDE DEF loc, saved
<1>6. /\ r \in DeleteCall /\ r.do = "delete" /\ r.at = "check" /\ r.id = i /\ r.loc = loc /\ r.to = t /\ r.saved = saved
      /\ r.mode = m
  BY <1>3, <1>4 DEF DeleteCall
<1> HIDE DEF r
<1>7. r \in LocationCall /\ r # Idle
  BY <1>6, IdleAsked DEF LocationCall
<1>8. Asked(r) /\ Current(rows, shelf, r)
  BY <1>1, <1>4, <1>6 DEF Asked, Current
<1> QED
  BY <1>3, <1>5, <1>6, <1>7, <1>8, BeginKeeps

LEMMA AssignReadKeeps ==
    ASSUME LocationsInv, NEW c \in Call, AssignRead(c)
    PROVE  LocationsInv'
<1>1. PICK k \in Shelved, i \in Present(rows) \cup {None} :
        Begin(c, [do |-> "assign", at |-> "write", copy |-> k, to |-> i, saved |-> Kept(c)])
  BY DEF AssignRead
<1> DEFINE saved == Kept(c)
           r == [do |-> "assign", at |-> "write", copy |-> k, to |-> i, saved |-> saved]
<1>2. op[c] = Idle /\ i \in Location \cup {None}
  BY <1>1 DEF Begin, Present
<1>3. saved \in SavedView \cup {None} /\ saved = Kept(c)
  BY <1>2, KeptTyped
<1>4. Begin(c, r)
  BY <1>1
<1> HIDE DEF saved
<1>5. r \in AssignCall /\ r.do = "assign" /\ r.saved = saved
  BY <1>2, <1>3 DEF AssignCall
<1> HIDE DEF r
<1>6. r \in LocationCall /\ r # Idle
  BY <1>5, IdleAsked DEF LocationCall
<1>7. Asked(r) /\ Current(rows, shelf, r)
  BY <1>5 DEF Asked, Current
<1> QED
  BY <1>3, <1>4, <1>5, <1>6, <1>7, BeginKeeps

LEMMA ReadParentKeeps ==
    ASSUME LocationsInv, NEW c \in Call, ReadParent(c)
    PROVE  LocationsInv'
<1> DEFINE q == op[c]
<1>1. q \in LocationCall /\ Asked(q) /\ Tabled(rows)
  BY DEF LocationsInv, Calls, Tree
<1>2. CASE At(c, "rename", "parent") /\ Go(c, [op[c] EXCEPT !.at = "write", !.par = RowOf(rows, op[c].loc.parent)])
  <2> DEFINE par == RowOf(rows, q.loc.parent)
             r == [q EXCEPT !.at = "write", !.par = par]
  <2>1. q.do = "rename" /\ q.at = "parent" /\ q \in RenameCall /\ q # Idle /\ q.loc.id = q.id /\ q.loc \in LocationRow
    BY <1>1, <1>2, CallKinds, IdleAsked DEF At, Asked, RenameCall
  <2>2. Go(c, r)
    BY <1>2
  <2>3. par \in LocationRow \cup {None} /\ (par # None => par.id = q.loc.parent)
    <3>1. CASE q.loc.parent = None
      BY <3>1 DEF RowOf
    <3>2. CASE q.loc.parent # None
      <4>1. par = rows[q.loc.parent] /\ q.loc.parent \in Location
        BY <2>1, <3>2 DEF RowOf, LocationRow
      <4>2. par = None \/ q.loc.parent \in Present(rows)
        BY <4>1 DEF Present
      <4> QED
        BY <1>1, <4>1, <4>2, RowsTyped
    <3> QED
      BY <3>1, <3>2
  <2>4. par = RowOf(rows, q.loc.parent)
    OBVIOUS
  <2> HIDE DEF q, par
  <2>5. /\ r \in RenameCall /\ r.do = "rename" /\ r.at = "write" /\ r.id = q.id /\ r.loc = q.loc /\ r.par = par
        /\ r.name = q.name /\ r.saved = q.saved
    BY <2>1, <2>3 DEF RenameCall
  <2> HIDE DEF r
  <2>6. r \in LocationCall /\ r # Idle
    BY <2>5, IdleAsked DEF LocationCall
  <2>7. Asked(r)
    BY <2>1, <2>3, <2>5 DEF Asked
  <2>8. Current(rows, shelf, q) => Current(rows, shelf, r)
    BY <2>1, <2>4, <2>5 DEF Current
  <2>9. \A v : Optimistic(v, r) = Optimistic(v, q)
    BY <2>1, <2>5 DEF Optimistic
  <2> QED
    BY <2>1, <2>2, <2>5, <2>6, <2>7, <2>8, <2>9, GoKeeps DEF q
<1>3. ASSUME At(c, "move", "parent"), ReadParent(c) PROVE LocationsInv'
  <2> DEFINE par == RowOf(rows, q.to)
             r == [q EXCEPT !.at = "write", !.par = par]
  <2>1. q.do = "move" /\ q.at = "parent" /\ q \in MoveCall /\ q # Idle /\ q.loc.id = q.id /\ q.to \in Location \cup {None}
    BY <1>1, <1>3, CallKinds, IdleAsked DEF At, Asked, MoveCall
  <2>2. \/ Refuse(c)
        \/ Go(c, r) /\ ~(par # None /\ (par.id = q.id \/ IsStrictPrefix(q.loc.path, par.path)))
    BY <1>3, <2>1 DEF ReadParent, At
  <2>3. par \in LocationRow \cup {None}
    BY <1>1, <2>1 DEF RowOf, Tabled
  <2>4. par = RowOf(rows, q.to)
    OBVIOUS
  <2>5. CASE Refuse(c)
    BY <2>1, <2>5, RefuseKeeps
  <2>6. CASE Go(c, r) /\ ~(par # None /\ (par.id = q.id \/ IsStrictPrefix(q.loc.path, par.path)))
    <3>1. Go(c, r) /\ ~(par # None /\ (par.id = q.id \/ IsStrictPrefix(q.loc.path, par.path)))
      BY <2>6
    <3> HIDE DEF q, par
    <3>2. /\ r \in MoveCall /\ r.do = "move" /\ r.at = "write" /\ r.id = q.id /\ r.loc = q.loc /\ r.par = par
          /\ r.to = q.to /\ r.saved = q.saved
      BY <2>1, <2>3 DEF MoveCall
    <3> HIDE DEF r
    <3>3. r \in LocationCall /\ r # Idle
      BY <3>2, IdleAsked DEF LocationCall
    <3>4. Asked(r)
      BY <2>1, <3>1, <3>2 DEF Asked
    <3>5. Current(rows, shelf, q) => Current(rows, shelf, r)
      BY <2>1, <2>4, <3>2 DEF Current
    <3>6. \A v : Optimistic(v, r) = Optimistic(v, q)
      BY <2>1, <3>2 DEF Optimistic
    <3> QED
      BY <2>1, <3>1, <3>2, <3>3, <3>4, <3>5, <3>6, GoKeeps DEF q
  <2> QED
    BY <2>2, <2>5, <2>6
<1> QED
  BY <1>2, <1>3 DEF ReadParent

LEMMA CheckDeleteKeeps ==
    ASSUME LocationsInv, NEW c \in Call, CheckDelete(c)
    PROVE  LocationsInv'
<1> DEFINE q == op[c]
           target == RowOf(rows, q.to)
           below == {q.id} \cup Under(rows, q.loc)
           r == [q EXCEPT !.at = "scope", !.par = target]
<1>1. q \in LocationCall /\ Asked(q) /\ Tabled(rows)
  BY DEF LocationsInv, Calls, Tree
<1>2. /\ q.do = "delete" /\ q.at = "check" /\ q \in DeleteCall /\ q # Idle /\ q.loc.id = q.id
      /\ q.to \in Location \cup {None} /\ q.id \in Location
  BY <1>1, CallKinds, IdleAsked DEF CheckDelete, At, Asked, DeleteCall
<1>3. \/ Refuse(c)
      \/ /\ Go(c, r) /\ ~(q.mode = "block" /\ Held(shelf, below) # {})
         /\ ~(target # None /\ (target.id = q.id \/ IsStrictPrefix(q.loc.path, target.path)))
  BY <1>2 DEF CheckDelete, BooksIn, Held
<1>4. CASE Refuse(c)
  BY <1>2, <1>4, RefuseKeeps
<1>5. ASSUME Go(c, r), ~(q.mode = "block" /\ Held(shelf, below) # {}),
             ~(target # None /\ (target.id = q.id \/ IsStrictPrefix(q.loc.path, target.path)))
      PROVE  LocationsInv'
  <2>1. target \in LocationRow \cup {None} /\ target = RowOf(rows, q.to)
    BY <1>1, <1>2 DEF RowOf, Tabled
  <2>2. q.to \in Present(rows) \cup {None} => q.to \notin below
    <3> SUFFICES ASSUME q.to \in Present(rows) \cup {None}, q.to \in below PROVE FALSE
      OBVIOUS
    <3>1. q.to # None
      BY <1>2, LocationsAssumption DEF Under, Present
    <3>2. target # None /\ target.id = q.to /\ target = rows[q.to]
      BY <1>1, <3>1, RowOfTyped
    <3> QED
      BY <1>5, <3>2 DEF Under
  <2>3. /\ r \in DeleteCall /\ r.do = "delete" /\ r.at = "scope" /\ r.id = q.id /\ r.loc = q.loc /\ r.par = target
        /\ r.to = q.to /\ r.mode = q.mode /\ r.saved = q.saved
    <3> HIDE DEF target, q
    <3> QED
      BY <1>2, <2>1 DEF DeleteCall
  <2> HIDE DEF r, target
  <2>4. r \in LocationCall /\ r # Idle
    BY <2>3, IdleAsked DEF LocationCall
  <2>5. Asked(r)
    BY <1>2, <2>3 DEF Asked
  <2>6. Current(rows, shelf, q) => Current(rows, shelf, r)
    <3> HIDE DEF q
    <3> QED
      BY <1>2, <1>5, <2>1, <2>2, <2>3 DEF Current
  <2>7. \A v : Optimistic(v, r) = Optimistic(v, q)
    <3> HIDE DEF q
    <3> QED
      BY <1>2, <2>3 DEF Optimistic
  <2> QED
    BY <1>2, <1>5, <2>3, <2>4, <2>5, <2>6, <2>7, GoKeeps
<1> HIDE DEF r, below, target, q
<1> QED
  BY <1>3, <1>4, <1>5

LEMMA ReadScopeKeeps ==
    ASSUME LocationsInv, NEW c \in Call, ReadScope(c)
    PROVE  LocationsInv'
<1> DEFINE q == op[c]
           scope == {rows[i] : i \in {q.id} \cup Under(rows, q.loc)}
           r == [q EXCEPT !.at = IF q.mode = "move" THEN "target" ELSE "write", !.scope = scope]
<1>1. q \in LocationCall /\ Asked(q) /\ Tabled(rows)
  BY DEF LocationsInv, Calls, Tree
<1>2. /\ q.do = "delete" /\ q.at = "scope" /\ q \in DeleteCall /\ q # Idle /\ q.loc.id = q.id /\ q.loc \in LocationRow
      /\ q.id \in Location
  BY <1>1, CallKinds, IdleAsked DEF ReadScope, At, Asked, DeleteCall
<1>3. Refuse(c) \/ (Go(c, r) /\ StateIs(q.loc))
  BY <1>2 DEF ReadScope
<1>4. CASE Refuse(c)
  BY <1>2, <1>4, RefuseKeeps
<1>5. ASSUME Go(c, r), StateIs(q.loc) PROVE LocationsInv'
  <2>1. rows[q.id] = q.loc
    BY <1>2, <1>5, LocationsAssumption DEF StateIs
  <2>2. scope \in SUBSET LocationRow
    <3>1. \A i \in {q.id} \cup Under(rows, q.loc) : rows[i] \in LocationRow
      BY <1>1, <1>2, <2>1, RowsTyped DEF Under
    <3> QED
      BY <3>1
  <2>3. /\ r \in DeleteCall /\ r.do = "delete" /\ r.at \in {"target", "write"} /\ r.id = q.id /\ r.loc = q.loc /\ r.par = q.par
        /\ r.to = q.to /\ r.mode = q.mode /\ r.saved = q.saved /\ r.scope = scope
    <3> HIDE DEF scope, q
    <3> QED
      BY <1>2, <2>2 DEF DeleteCall
  <2>4. scope = {rows[i] : i \in {q.id} \cup Under(rows, q.loc)}
    OBVIOUS
  <2> HIDE DEF r, scope
  <2>5. r \in LocationCall /\ r # Idle
    BY <2>3, IdleAsked DEF LocationCall
  <2>6. Asked(r)
    BY <1>2, <2>3 DEF Asked
  <2>7. Current(rows, shelf, q) => Current(rows, shelf, r)
    <3> HIDE DEF q
    <3> QED
      BY <1>2, <2>3, <2>4 DEF Current
  <2>8. \A v : Optimistic(v, r) = Optimistic(v, q)
    <3> HIDE DEF q
    <3> QED
      BY <1>2, <2>3 DEF Optimistic
  <2> QED
    BY <1>2, <1>5, <2>3, <2>5, <2>6, <2>7, <2>8, GoKeeps
<1> HIDE DEF r, scope, q
<1> QED
  BY <1>3, <1>4, <1>5

LEMMA CheckTargetKeeps ==
    ASSUME LocationsInv, NEW c \in Call, CheckTarget(c)
    PROVE  LocationsInv'
<1> DEFINE q == op[c]
           r == [q EXCEPT !.at = "write"]
<1>1. q \in LocationCall /\ Asked(q)
  BY DEF LocationsInv, Calls
<1>2. q.do = "delete" /\ q.at = "target" /\ q \in DeleteCall /\ q # Idle /\ q.loc.id = q.id
  BY <1>1, CallKinds, IdleAsked DEF CheckTarget, At, Asked, DeleteCall
<1>3. Refuse(c) \/ Go(c, r)
  BY <1>2 DEF CheckTarget
<1>4. CASE Refuse(c)
  BY <1>2, <1>4, RefuseKeeps
<1>5. CASE Go(c, r)
  <2> HIDE DEF q
  <2>1. /\ r \in DeleteCall /\ r.do = "delete" /\ r.at = "write" /\ r.id = q.id /\ r.loc = q.loc /\ r.par = q.par
        /\ r.to = q.to /\ r.mode = q.mode /\ r.saved = q.saved /\ r.scope = q.scope
    BY <1>2 DEF DeleteCall
  <2>2. Go(c, r)
    BY <1>5
  <2> HIDE DEF r
  <2>3. r \in LocationCall /\ r # Idle
    BY <2>1, IdleAsked DEF LocationCall
  <2>4. Asked(r)
    BY <1>2, <2>1 DEF Asked
  <2>5. Current(rows, shelf, q) => Current(rows, shelf, r)
    BY <1>2, <2>1 DEF Current
  <2>6. \A v : Optimistic(v, r) = Optimistic(v, q)
    BY <1>2, <2>1 DEF Optimistic
  <2> QED
    BY <1>2, <2>1, <2>2, <2>3, <2>4, <2>5, <2>6, GoKeeps DEF q
<1> QED
  BY <1>3, <1>4, <1>5

-----------------------------------------------------------------------------
(****************************** the writes *********************************)

\* The row that createLocation inserts, and the table with it.
NewRow(i, par, name) == computeLocationRepath([id |-> i], par, name)
Inserted(rs, i, row) == [rs EXCEPT ![i] = row]

LEMMA NewRowTyped ==
    ASSUME NEW i \in Location, NEW par \in LocationRow \cup {None}, NEW name \in Name, NEW row,
           row = NewRow(i, par, name)
    PROVE  /\ row \in LocationRow /\ row.id = i /\ row.name = name /\ row.path = locationChildPath(par, name)
           /\ row.parent = (IF par = None THEN None ELSE par.id) /\ row.depth = IF par = None THEN 0 ELSE par.depth + 1
<1> DEFINE moved == NewRow(i, par, name)
<1>1. /\ moved \in LocationRow /\ moved.id = i /\ moved.name = name /\ moved.path = locationChildPath(par, name)
      /\ moved.parent = (IF par = None THEN None ELSE par.id) /\ moved.depth = IF par = None THEN 0 ELSE par.depth + 1
  BY RepathedRow DEF NewRow
<1>2. row = moved
  OBVIOUS
<1> HIDE DEF moved
<1> QED
  BY <1>1, <1>2

LEMMA TreeGrows ==
    ASSUME NEW rs, NEW sh, NEW late, Tree(rs, sh, late), NEW late1 \in SUBSET Location,
           NEW i \in Location \ Present(rs), NEW par \in LocationRow \cup {None},
           par # None => par.id \in Present(rs),
           NEW name \in Name, NEW new, new = NewRow(i, par, name),
           NEW out, out = Inserted(rs, i, new), UniqueNames(out),
           late1 = {} => late = {} /\ (par # None => rs[par.id] = par)
    PROVE  Tree(out, sh, late1) /\ new \in LocationRow /\ new.id = i
<1>1. /\ new \in LocationRow /\ new.id = i /\ new.name = name /\ new.path = locationChildPath(par, name)
      /\ new.parent = (IF par = None THEN None ELSE par.id) /\ new.depth = IF par = None THEN 0 ELSE par.depth + 1
  BY NewRowTyped
<1>3. Tabled(rs) /\ IsFiniteSet(Present(rs)) /\ sh \in [Shelved -> Present(rs) \cup {None}]
  BY DEF Tree
<1>4. new # None /\ new.parent \in Present(rs) \cup {None}
  BY <1>1, LocationsAssumption
<1>5. out \in [Location -> LocationRow \cup {None}] /\ out[i] = new /\ \A j \in Location : j # i => out[j] = rs[j]
  BY <1>1, <1>3 DEF Tabled, Inserted
<1>6. Present(out) = Present(rs) \cup {i}
  BY <1>4, <1>5 DEF Present
<1>7. Tabled(out)
  <2>1. \A j \in Present(out) : out[j].id = j /\ out[j].parent \in Present(out) \cup {None}
    BY <1>1, <1>3, <1>4, <1>5, <1>6 DEF Tabled, Present
  <2> QED
    BY <1>5, <2>1 DEF Tabled
<1>8. IsFiniteSet(Present(out))
  <2>1. IsFiniteSet(Present(rs) \cup {i})
    <3> DEFINE old == Present(rs)
    <3>1. IsFiniteSet(old)
      BY <1>3
    <3> HIDE DEF old
    <3>2. IsFiniteSet(old \cup {i})
      BY <3>1, FS_AddElement
    <3> QED
      BY <3>2 DEF old
  <2> QED
    BY <1>6, <2>1
<1>9. sh \in [Shelved -> Present(out) \cup {None}]
  BY <1>3, <1>6
<1>10. ASSUME late1 = {} PROVE Agrees(out)
  <2>1. Agrees(rs) /\ (par # None => rs[par.id] = par)
    BY <1>10 DEF Tree
  <2> SUFFICES ASSUME NEW j \in Present(out)
               PROVE  /\ out[j].path = locationChildPath(RowOf(out, out[j].parent), out[j].name)
                      /\ out[j].depth = Len(out[j].path) - 1
    BY DEF Agrees
  <2>2. CASE j = i
    <3>1. RowOf(out, new.parent) = par
      <4>1. CASE par = None
        BY <1>1, <4>1 DEF RowOf
      <4>2. CASE par # None
        <5>1. par.id \in Present(rs) /\ rs[par.id] = par /\ par.id # i /\ par.id # None /\ par.id \in Location
          BY <2>1, <4>2, LocationsAssumption DEF Present
        <5>2. out[par.id] = par
          BY <1>5, <5>1
        <5> QED
          BY <1>1, <4>2, <5>1, <5>2 DEF RowOf
      <4> QED
        BY <4>1, <4>2
    <3>2. new.depth = Len(new.path) - 1
      <4>1. CASE par = None
        <5>1. Len(locationChildPath(par, name)) = 1
          BY <4>1, ChildPaths
        <5>2. new.depth = 0
          BY <1>1, <4>1
        <5>3. Len(new.path) = 1
          BY <1>1, <5>1
        <5> QED
          BY <5>2, <5>3
      <4>2. CASE par # None
        <5>1. Len(locationChildPath(par, name)) = Len(par.path) + 1 /\ Len(par.path) \in Nat
          BY <4>2, ChildPathBelow
        <5>2. par.depth = Len(par.path) - 1
          BY <2>1, <4>2 DEF Agrees
        <5> QED
          BY <1>1, <4>2, <5>1, <5>2
      <4> QED
        BY <4>1, <4>2
    <3> QED
      BY <1>1, <1>5, <2>2, <3>1, <3>2
  <2>3. CASE j # i
    <3>1. j \in Present(rs) /\ out[j] = rs[j] /\ rs[j].parent \in Present(rs) \cup {None}
      BY <1>3, <1>5, <1>6, <2>3 DEF Tabled, Present
    <3>2. RowOf(out, rs[j].parent) = RowOf(rs, rs[j].parent)
      BY <1>5, <3>1 DEF RowOf, Present
    <3> QED
      BY <2>1, <3>1, <3>2 DEF Agrees
  <2> QED
    BY <2>2, <2>3
<1> QED
  BY <1>1, <1>7, <1>8, <1>9, <1>10 DEF Tree

LEMMA PageInserts ==
    ASSUME NEW rs, NEW sh, Tabled(rs), sh \in [Shelved -> Present(rs) \cup {None}],
           NEW i \in Location \ Present(rs), NEW new \in LocationRow, new.id = i,
           NEW out, out = Inserted(rs, i, new)
    PROVE  insertLocationLocally(ServerList(rs, sh), new) = ServerList(out, sh)
<1> DEFINE books == [j \in Location |-> Cardinality(Held(sh, {j}))]
<1>1. Held(sh, {i}) = {}
  BY LocationsAssumption DEF Held
<1>2. [books EXCEPT ![i] = 0] = books
  <2>1. books[i] = 0
    BY <1>1, HeldFinite
  <2> QED
    BY <2>1
<1>3. ServerList(rs, sh) = [rows |-> rs, books |-> books] /\ ServerList(out, sh) = [rows |-> out, books |-> books]
  BY DEF ServerList
<1> HIDE DEF books
<1>4. insertLocationLocally([rows |-> rs, books |-> books], new) = [rows |-> out, books |-> books]
  BY <1>2 DEF insertLocationLocally, Inserted
<1> QED
  BY <1>3, <1>4

LEMMA createLocationKeeps ==
    ASSUME LocationsInv, NEW c \in Call, createLocation(c)
    PROVE  LocationsInv'
<1> DEFINE q == op[c]
           par == q.par
<1>1. q \in LocationCall /\ Tree(rows, shelf, outdated) /\ Tabled(rows) /\ shelf \in [Shelved -> Present(rows) \cup {None}]
      /\ outdated \in SUBSET Location
  BY DEF LocationsInv, Calls, Tree
<1>2. q.do = "create" /\ q \in CreateCall /\ q # Idle /\ q.name \in Name /\ par \in LocationRow \cup {None}
  BY <1>1, CallKinds, IdleAsked DEF createLocation, At, CreateCall
<1>3. CASE Refuse(c)
  BY <1>2, <1>3, RefuseKeeps
<1>4. ASSUME ~Refuse(c) PROVE LocationsInv'
  <2>1. PICK i \in Location \ Present(rows) :
          LET new == NewRow(i, par, q.name)
              rs == Inserted(rows, i, new)
          IN /\ par # None => par.id \in Present(rows)
             /\ UniqueNames(rs)
             /\ rows' = rs
             /\ outdated' = IF StateIs(par) THEN outdated ELSE outdated \cup {i}
             /\ Answer(c, TRUE, IF view = None THEN None ELSE insertLocationLocally(view, new))
             /\ UNCHANGED <<shelf, locationOps>>
    BY <1>4, Zenon DEF createLocation, NewRow, Inserted
  <2> DEFINE new == NewRow(i, par, q.name)
             rs == Inserted(rows, i, new)
  <2>2. /\ par # None => par.id \in Present(rows)
        /\ UniqueNames(rs) /\ rows' = rs /\ shelf' = shelf
        /\ outdated' = IF StateIs(par) THEN outdated ELSE outdated \cup {i}
        /\ op' = [op EXCEPT ![c] = Idle]
        /\ view' = IF view = None \/ c # Page THEN None ELSE insertLocationLocally(view, new)
    BY <2>1 DEF Answer
  <2>3. outdated' \in SUBSET Location /\ (outdated' = {} => outdated = {} /\ (par # None => rows[par.id] = par))
    BY <1>1, <2>2 DEF StateIs
  <2>4. rs = Inserted(rows, i, new) /\ new = NewRow(i, par, q.name) /\ par = q.par
    OBVIOUS
  <2> HIDE DEF rs, new, par
  <2>5. Tree(rs, shelf, outdated') /\ new \in LocationRow /\ new.id = i
    <3> DEFINE late == outdated
               late1 == outdated'
               name == q.name
    <3>1. Tree(rows, shelf, late) /\ late1 \in SUBSET Location
      BY <1>1, <2>3
    <3>2. par \in LocationRow \cup {None} /\ name \in Name
      BY <1>2
    <3>3. par # None => par.id \in Present(rows)
      BY <2>2
    <3>4. UniqueNames(rs)
      BY <2>2
    <3>5. late1 = {} => late = {} /\ (par # None => rows[par.id] = par)
      BY <2>3
    <3>6. new = NewRow(i, par, name) /\ rs = Inserted(rows, i, new)
      BY <2>4
    <3> HIDE DEF late, late1, name
    <3>7. Tree(rs, shelf, late1) /\ new \in LocationRow /\ new.id = i
      BY <3>1, <3>2, <3>3, <3>4, <3>5, <3>6, TreeGrows
    <3> QED
      BY <3>7 DEF late1
  <2>6. ASSUME view' # None PROVE c = Page /\ view # None /\ outdated' = {} /\ view' = ServerList(rows', shelf')
    <3>1. c = Page /\ view # None /\ view' = insertLocationLocally(view, new)
      BY <2>2, <2>6
    <3>2. outdated = {} /\ view = Optimistic(ServerList(rows, shelf), q) /\ Current(rows, shelf, q)
      BY <1>2, <3>1 DEF LocationsInv, Shows
    <3>3. view = ServerList(rows, shelf)
      BY <1>2, <3>2 DEF Optimistic
    <3>4. outdated' = {}
      BY <1>2, <2>2, <2>4, <3>2 DEF Current, StateIs
    <3>5. insertLocationLocally(ServerList(rows, shelf), new) = ServerList(rs, shelf)
      <4>1. Tabled(rows) /\ shelf \in [Shelved -> Present(rows) \cup {None}]
        BY <1>1
      <4>2. new \in LocationRow /\ new.id = i /\ rs = Inserted(rows, i, new)
        BY <2>4, <2>5
      <4> QED
        BY <4>1, <4>2, PageInserts
    <3> QED
      BY <2>2, <3>1, <3>3, <3>4, <3>5
  <2> QED
    BY <2>2, <2>5, <2>6, WriteKeeps
<1> QED
  BY <1>3, <1>4

LEMMA TreeRepaths ==
    ASSUME NEW rs, NEW sh, NEW late, Tree(rs, sh, late), NEW late1 \in SUBSET Location,
           NEW loc \in LocationRow, loc.id \in Present(rs), rs[loc.id] = loc,
           NEW par \in LocationRow \cup {None}, par # None => par.id \in Present(rs),
           NEW name \in Name,
           NEW new, new = computeLocationRepath(loc, par, name), NEW out,
           out = Repath(rs, loc, new), UniqueNames(out),
           late1 = {} => late = {} /\ Places(rs, loc, par)
    PROVE  Tree(out, sh, late1)
<1>1. Tabled(rs) /\ IsFiniteSet(Present(rs)) /\ sh \in [Shelved -> Present(rs) \cup {None}] /\ UniqueNames(rs)
      /\ (late = {} => Agrees(rs))
  BY DEF Tree
<1>2. new \in LocationRow /\ new.id = loc.id /\ new.parent \in Present(rs) \cup {None}
  <2> DEFINE moved == computeLocationRepath(loc, par, name)
  <2>1. moved \in LocationRow /\ moved.id = loc.id /\ moved.parent = IF par = None THEN None ELSE par.id
    BY RepathedRow DEF Present
  <2>2. new = moved
    OBVIOUS
  <2> HIDE DEF moved
  <2> QED
    BY <2>1, <2>2
<1>3. Tabled(out) /\ Present(out) = Present(rs)
  <2>1. Repathed(rs, loc, new, Repath(rs, loc, new))
    BY <1>1, <1>2, RepathRows
  <2> QED
    BY <2>1 DEF Repathed
<1>4. ASSUME late1 = {} PROVE Agrees(out)
  <2>1. Agrees(rs) /\ Places(rs, loc, par)
    BY <1>1, <1>4
  <2>2. Agrees(Repath(rs, loc, computeLocationRepath(loc, par, name)))
    BY <1>1, <2>1, RepathAgrees
  <2> QED
    BY <2>2
<1> QED
  BY <1>1, <1>3, <1>4 DEF Tree

\* The page has made the same change as the server, and does it once more with the answer.
LEMMA PageRepaths ==
    ASSUME NEW rs, NEW sh, Tabled(rs), NEW loc \in LocationRow, loc.id \in Present(rs),
           rs[loc.id] = loc,
           NEW p, NEW par, RowOf(rs, p) = par, Places(rs, loc, par), NEW name \in Name,
           NEW new, new = computeLocationRepath(loc, par, name), NEW out,
           out = Repath(rs, loc, new),
           NEW v, v = patchLocationLocally(ServerList(rs, sh), loc.id, p, name)
    PROVE  patchLocationLocally(v, loc.id, new.parent, new.name) = ServerList(out, sh)
<1> DEFINE books == [j \in Location |-> Cardinality(Held(sh, {j}))]
<1>1. ServerList(rs, sh) = [rows |-> rs, books |-> books] /\ ServerList(out, sh) = [rows |-> out, books |-> books]
  BY DEF ServerList
<1> HIDE DEF books
<1>2. v = [rows |-> out, books |-> books]
  BY <1>1 DEF patchLocationLocally
<1>3. Repath(out, out[loc.id], computeLocationRepath(out[loc.id], RowOf(out, new.parent), new.name)) = out
  BY RepathTwice
<1>4. patchLocationLocally([rows |-> out, books |-> books], loc.id, new.parent, new.name) = [rows |-> out, books |-> books]
  BY <1>3 DEF patchLocationLocally
<1> QED
  BY <1>1, <1>2, <1>4

\* A location is not below its own parent.
LEMMA ParentPlaces ==
    ASSUME NEW rs, Tabled(rs), Agrees(rs), NEW loc \in LocationRow, loc.id \in Present(rs),
           rs[loc.id] = loc,
           NEW par, par = RowOf(rs, loc.parent)
    PROVE  Places(rs, loc, par)
<1>1. CASE loc.parent = None
  BY <1>1 DEF RowOf, Places
<1>2. CASE loc.parent # None
  <2>1. loc.parent \in Present(rs) /\ par = rs[loc.parent] /\ par \in LocationRow /\ par.id = loc.parent
    BY <1>2, RowsTyped
  <2>2. /\ Len(loc.path) = Len(par.path) + 1 /\ Len(par.path) \in Nat
        /\ loc.path \in Seq(Name) /\ par.path \in Seq(Name)
    <3> DEFINE i == loc.id
    <3>1. i \in Present(rs) /\ rs[i] = loc /\ rs[i].parent # None /\ par = rs[rs[i].parent]
      BY <1>2, <2>1
    <3> HIDE DEF i
    <3>2. /\ Len(rs[i].path) = Len(rs[rs[i].parent].path) + 1 /\ Len(rs[rs[i].parent].path) \in Nat
      BY <3>1, PathsInTree
    <3>3. loc.path \in Seq(Name) /\ par.path \in Seq(Name)
      BY <2>1 DEF LocationRow
    <3> QED
      BY <3>1, <3>2, <3>3
  <2>3. loc # par
    BY <2>2
  <2>4. ~IsStrictPrefix(loc.path, par.path)
    BY <2>2, StrictPrefixes
  <2> QED
    BY <2>1, <2>3, <2>4 DEF Places
<1> QED
  BY <1>1, <1>2

\* renameLocation and moveLocation.
LEMMA RepathKeeps ==
    ASSUME LocationsInv, NEW c \in Call, op[c] # Idle, NEW loc \in LocationRow, loc = op[c].loc,
           loc.id = op[c].id,
           NEW par \in LocationRow \cup {None}, par = op[c].par, NEW name \in Name,
           NEW guarded \in BOOLEAN,
           WriteRepath(c, name, guarded),
           StateIs(loc) /\ guarded => (par # None => par.id \in Present(rows)),
           StateIs(loc) /\ guarded /\ outdated = {} /\ (op[c].do = "move" \/ StateIs(par)) => Places(rows, loc, par),
           Current(rows, shelf, op[c]) => op[c].do = "move" \/ StateIs(par),
           Current(rows, shelf, op[c]) =>
             \E p : RowOf(rows, p) = par /\ Optimistic(ServerList(rows, shelf), op[c]) = patchLocationLocally(ServerList(rows, shelf), loc.id, p, name)
    PROVE  LocationsInv'
<1> DEFINE new == computeLocationRepath(loc, par, name)
           rs == Repath(rows, loc, new)
<1>1. Tree(rows, shelf, outdated) /\ Tabled(rows) /\ outdated \in SUBSET Location
  BY DEF LocationsInv, Tree
<1>2. CASE Refuse(c)
  BY <1>2, RefuseKeeps
<1>3. ASSUME ~Refuse(c) PROVE LocationsInv'
  <2>1. /\ StateIs(loc) /\ guarded /\ UniqueNames(rs) /\ rows' = rs
        /\ Answer(c, TRUE, IF view = None THEN None ELSE patchLocationLocally(view, loc.id, new.parent, new.name))
        /\ outdated' = IF op[c].do = "move" \/ StateIs(par) THEN outdated ELSE outdated \cup {loc.id}
        /\ shelf' = shelf
    BY <1>3, Zenon DEF WriteRepath
  <2>2. /\ op' = [op EXCEPT ![c] = Idle]
        /\ view' = IF view = None \/ c # Page THEN None ELSE patchLocationLocally(view, loc.id, new.parent, new.name)
    BY <2>1 DEF Answer
  <2>3. rows[loc.id] = loc /\ loc.id \in Present(rows) /\ loc.id \in Location
    BY <2>1, LocationsAssumption DEF StateIs, LocationRow, Present
  <2>4. outdated' \in SUBSET Location /\ (outdated' = {} => outdated = {} /\ Places(rows, loc, par))
    BY <1>1, <2>1, <2>3
  <2>5. new = computeLocationRepath(loc, par, name) /\ rs = Repath(rows, loc, new)
    OBVIOUS
  <2>6. Tree(rs, shelf, outdated')
    <3> DEFINE late == outdated
               late1 == outdated'
    <3>1. Tree(rows, shelf, late) /\ late1 \in SUBSET Location
      BY <1>1, <2>4
    <3>2. par # None => par.id \in Present(rows)
      BY <2>1
    <3>3. UniqueNames(rs)
      BY <2>1
    <3>4. late1 = {} => late = {} /\ Places(rows, loc, par)
      BY <2>4
    <3> HIDE DEF new, rs, late, late1
    <3>5. Tree(rs, shelf, late1)
      BY <2>3, <2>5, <3>1, <3>2, <3>3, <3>4, TreeRepaths
    <3> QED
      BY <3>5 DEF late1
  <2> HIDE DEF new, rs
  <2>7. ASSUME view' # None PROVE c = Page /\ view # None /\ outdated' = {} /\ view' = ServerList(rows', shelf')
    <3>1. c = Page /\ view # None /\ view' = patchLocationLocally(view, loc.id, new.parent, new.name)
      BY <2>2, <2>7
    <3>2. outdated = {} /\ view = Optimistic(ServerList(rows, shelf), op[c]) /\ Current(rows, shelf, op[c])
      BY <3>1 DEF LocationsInv, Shows
    <3>3. outdated' = {} /\ Places(rows, loc, par)
      BY <2>1, <2>4, <3>2
    <3>4. PICK p : RowOf(rows, p) = par /\ view = patchLocationLocally(ServerList(rows, shelf), loc.id, p, name)
      BY <3>2
    <3>5. patchLocationLocally(view, loc.id, new.parent, new.name) = ServerList(rs, shelf)
      BY <1>1, <2>3, <2>5, <3>3, <3>4, PageRepaths
    <3> QED
      BY <2>1, <3>1, <3>3, <3>5
  <2> QED
    BY <2>1, <2>2, <2>6, <2>7, WriteKeeps
<1> QED
  BY <1>2, <1>3

LEMMA renameLocationKeeps ==
    ASSUME LocationsInv, NEW c \in Call, renameLocation(c)
    PROVE  LocationsInv'
<1> DEFINE q == op[c]
           loc == q.loc
           par == q.par
<1>1. q \in LocationCall /\ Asked(q) /\ Tabled(rows) /\ (outdated = {} => Agrees(rows))
  BY DEF LocationsInv, Calls, Tree
<1>2. /\ q.do = "rename" /\ q.at = "write" /\ q \in RenameCall /\ q # Idle /\ q.name \in Name /\ par \in LocationRow \cup {None}
      /\ loc \in LocationRow /\ loc.id = q.id /\ WriteRepath(c, q.name, TRUE) /\ (par # None => par.id = loc.parent)
  BY <1>1, CallKinds, IdleAsked DEF renameLocation, At, Asked, RenameCall
<1>3. ASSUME StateIs(loc) PROVE rows[loc.id] = loc /\ loc.id \in Present(rows) /\ loc.parent \in Present(rows) \cup {None}
  <2>1. rows[loc.id] = loc /\ loc.id \in Present(rows)
    BY <1>2, <1>3, LocationsAssumption DEF StateIs, LocationRow, Present
  <2> QED
    BY <1>1, <2>1 DEF Tabled
<1>4. StateIs(loc) => (par # None => par.id \in Present(rows))
  BY <1>2, <1>3, LocationsAssumption DEF LocationRow
<1>5. ASSUME StateIs(loc), outdated = {}, StateIs(par) PROVE Places(rows, loc, par)
  <2>1. CASE par = None
    BY <2>1 DEF Places
  <2>2. CASE par # None
    <3>1. par = RowOf(rows, loc.parent)
      BY <1>2, <1>5, <2>2, LocationsAssumption DEF RowOf, StateIs, LocationRow
    <3> QED
      BY <1>1, <1>2, <1>3, <1>5, <3>1, ParentPlaces
  <2> QED
    BY <2>1, <2>2
<1>6. ASSUME Current(rows, shelf, q) PROVE StateIs(par) /\ RowOf(rows, loc.parent) = par /\ rows[q.id] = loc
  <2>1. rows[q.id] = loc /\ q.id \in Present(rows) /\ par = RowOf(rows, loc.parent)
    BY <1>2, <1>6 DEF Current
  <2>2. loc.parent \in Present(rows) \cup {None}
    BY <1>1, <2>1 DEF Tabled
  <2>3. par = None \/ (par = rows[loc.parent] /\ par.id = loc.parent)
    BY <1>1, <2>1, <2>2, RowOfTyped
  <2> QED
    BY <2>1, <2>3 DEF StateIs
<1>7. ASSUME Current(rows, shelf, q)
      PROVE  \E p : RowOf(rows, p) = par /\ Optimistic(ServerList(rows, shelf), q) = patchLocationLocally(ServerList(rows, shelf), loc.id, p, q.name)
  <2>1. Optimistic(ServerList(rows, shelf), q) = patchLocationLocally(ServerList(rows, shelf), q.id, ServerList(rows, shelf).rows[q.id].parent, q.name)
    BY <1>2 DEF Optimistic
  <2>2. ServerList(rows, shelf).rows[q.id].parent = loc.parent
    BY <1>1, <1>6, <1>7, ListTyped
  <2>3. Optimistic(ServerList(rows, shelf), q) = patchLocationLocally(ServerList(rows, shelf), loc.id, loc.parent, q.name)
    BY <1>2, <2>1, <2>2
  <2> QED
    BY <1>6, <1>7, <2>3
<1> DEFINE name == q.name
<1>8. WriteRepath(c, name, TRUE) /\ name \in Name /\ op[c] # Idle /\ loc = op[c].loc /\ par = op[c].par /\ loc.id = op[c].id
  BY <1>2
<1>9. Current(rows, shelf, op[c]) =>
        \E p : RowOf(rows, p) = par /\ Optimistic(ServerList(rows, shelf), op[c]) = patchLocationLocally(ServerList(rows, shelf), loc.id, p, name)
  BY <1>7
<1>10. /\ StateIs(loc) /\ TRUE /\ outdated = {} /\ (op[c].do = "move" \/ StateIs(par)) => Places(rows, loc, par)
       /\ Current(rows, shelf, op[c]) => op[c].do = "move" \/ StateIs(par)
  BY <1>2, <1>5, <1>6
<1>11. loc \in LocationRow /\ par \in LocationRow \cup {None}
  BY <1>2
<1> HIDE DEF q, loc, par, name
<1> QED
  BY <1>4, <1>8, <1>9, <1>10, <1>11, RepathKeeps

LEMMA moveLocationKeeps ==
    ASSUME LocationsInv, NEW c \in Call, moveLocation(c)
    PROVE  LocationsInv'
<1> DEFINE q == op[c]
           loc == q.loc
           par == q.par
           name == loc.name
           guarded == StateIs(par)
<1>1. q \in LocationCall /\ Asked(q) /\ Tabled(rows)
  BY DEF LocationsInv, Calls, Tree
<1>2. /\ q.do = "move" /\ q.at = "write" /\ q \in MoveCall /\ q # Idle /\ name \in Name /\ par \in LocationRow \cup {None}
      /\ loc \in LocationRow /\ loc.id = q.id /\ WriteRepath(c, name, guarded)
      /\ (par # None => par.id # loc.id /\ ~IsStrictPrefix(loc.path, par.path))
  <2>1. q.do = "move" /\ q.at = "write" /\ q \in MoveCall /\ q # Idle /\ WriteRepath(c, name, guarded)
    BY <1>1, CallKinds, IdleAsked DEF moveLocation, At
  <2>2. par \in LocationRow \cup {None} /\ loc \in LocationRow /\ name \in Name
    BY <2>1 DEF MoveCall, LocationRow
  <2>3. loc.id = q.id /\ (par # None => par.id # loc.id /\ ~IsStrictPrefix(loc.path, par.path))
    BY <1>1, <2>1 DEF Asked
  <2> QED
    BY <2>1, <2>2, <2>3
<1>3. guarded \in BOOLEAN
  BY DEF StateIs
<1>4. guarded /\ par # None => par.id \in Present(rows) /\ rows[par.id] = par
  BY <1>2, LocationsAssumption DEF StateIs, LocationRow, Present
<1>5. guarded => Places(rows, loc, par)
  BY <1>2, <1>4 DEF Places
<1>6. ASSUME Current(rows, shelf, q)
      PROVE  \E p : RowOf(rows, p) = par /\ Optimistic(ServerList(rows, shelf), q) = patchLocationLocally(ServerList(rows, shelf), loc.id, p, name)
  <2>1. RowOf(rows, q.to) = par /\ rows[q.id] = loc
    BY <1>2, <1>6 DEF Current
  <2>2. Optimistic(ServerList(rows, shelf), q) = patchLocationLocally(ServerList(rows, shelf), q.id, q.to, ServerList(rows, shelf).rows[q.id].name)
    BY <1>2 DEF Optimistic
  <2>3. ServerList(rows, shelf).rows[q.id].name = name
    BY <1>1, <2>1, ListTyped
  <2>4. Optimistic(ServerList(rows, shelf), q) = patchLocationLocally(ServerList(rows, shelf), loc.id, q.to, name)
    BY <1>2, <2>2, <2>3
  <2> QED
    BY <2>1, <2>4
<1>7. WriteRepath(c, name, guarded) /\ name \in Name /\ op[c] # Idle /\ loc = op[c].loc /\ par = op[c].par /\ loc.id = op[c].id
  BY <1>2
<1>8. Current(rows, shelf, op[c]) =>
        \E p : RowOf(rows, p) = par /\ Optimistic(ServerList(rows, shelf), op[c]) = patchLocationLocally(ServerList(rows, shelf), loc.id, p, name)
  BY <1>6
<1>9. /\ StateIs(loc) /\ guarded => (par # None => par.id \in Present(rows))
      /\ StateIs(loc) /\ guarded /\ outdated = {} /\ (op[c].do = "move" \/ StateIs(par)) => Places(rows, loc, par)
      /\ Current(rows, shelf, op[c]) => op[c].do = "move" \/ StateIs(par)
  BY <1>2, <1>4, <1>5
<1>10. loc \in LocationRow /\ par \in LocationRow \cup {None}
  BY <1>2
<1> HIDE DEF q, loc, par, name, guarded
<1> QED
  BY <1>3, <1>7, <1>8, <1>9, <1>10, RepathKeeps

\* The tables once a batch has deleted some rows.
RowsWithout(rs, ids) == [i \in Location |-> IF i \in ids THEN None ELSE rs[i]]
ShelfWithout(sh, ids, target) ==
    [k \in Shelved |-> IF sh[k] \notin ids THEN sh[k] ELSE IF target \in ids THEN None ELSE target]

LEMMA TreeShrinks ==
    ASSUME NEW rs, NEW sh, NEW late, Tree(rs, sh, late), NEW ids,
           \A i \in Present(rs) : rs[i].parent \in ids => i \in ids,
           NEW target \in Location \cup {None},
           target # None /\ Held(sh, ids) # {} => target \in Present(rs),
           NEW out, out = RowsWithout(rs, ids), NEW sh1, sh1 = ShelfWithout(sh, ids, target)
    PROVE  Tree(out, sh1, late)
<1>1. Tabled(rs) /\ IsFiniteSet(Present(rs)) /\ sh \in [Shelved -> Present(rs) \cup {None}] /\ UniqueNames(rs)
      /\ (late = {} => Agrees(rs)) /\ late \in SUBSET Location
  BY DEF Tree
<1>2. /\ out \in [Location -> LocationRow \cup {None}]
      /\ \A i \in Location : out[i] = IF i \in ids THEN None ELSE rs[i]
  BY <1>1 DEF RowsWithout, Tabled
<1>3. Present(out) = Present(rs) \ ids /\ \A i \in Present(out) : out[i] = rs[i] /\ i \in Present(rs) /\ i \notin ids
  BY <1>2 DEF Present
<1>4. \A i \in Present(out) : rs[i].parent \in Present(out) \cup {None} /\ rs[i].id = i
  BY <1>1, <1>3 DEF Tabled
<1>5. Tabled(out)
  BY <1>2, <1>3, <1>4 DEF Tabled
<1>6. UniqueNames(out)
  BY <1>1, <1>3 DEF UniqueNames
<1>7. IsFiniteSet(Present(out))
  BY <1>1, <1>3, FS_Subset
<1>8. sh1 \in [Shelved -> Present(out) \cup {None}]
  <2>1. ASSUME NEW k \in Shelved
        PROVE  (IF sh[k] \notin ids THEN sh[k] ELSE IF target \in ids THEN None ELSE target) \in Present(out) \cup {None}
    <3>1. CASE sh[k] \notin ids
      BY <1>1, <1>3, <3>1
    <3>2. CASE sh[k] \in ids /\ target \notin ids
      <4>1. k \in Held(sh, ids)
        BY <3>2 DEF Held
      <4>2. target = None \/ target \in Present(rs)
        BY <4>1
      <4> QED
        BY <1>3, <3>2, <4>2
    <3>3. CASE sh[k] \in ids /\ target \in ids
      BY <3>3
    <3> QED
      BY <3>1, <3>2, <3>3
  <2> QED
    BY <2>1 DEF ShelfWithout
<1>9. ASSUME late = {} PROVE Agrees(out)
  <2> SUFFICES ASSUME NEW i \in Present(out)
               PROVE  /\ out[i].path = locationChildPath(RowOf(out, out[i].parent), out[i].name)
                      /\ out[i].depth = Len(out[i].path) - 1
    BY DEF Agrees
  <2>1. RowOf(out, rs[i].parent) = RowOf(rs, rs[i].parent)
    BY <1>3, <1>4 DEF RowOf
  <2> QED
    BY <1>1, <1>3, <1>9, <2>1 DEF Agrees
<1> QED
  BY <1>1, <1>5, <1>6, <1>7, <1>8, <1>9 DEF Tree

\* The books of each location once the target has those of the subtree.
CountsMoved(sh, sh1, ids, target) ==
    /\ \A i \in ids : Cardinality(Held(sh1, {i})) = 0
    /\ \A i \in Location \ ids : i # target => Cardinality(Held(sh1, {i})) = Cardinality(Held(sh, {i}))
    /\ target # None => Cardinality(Held(sh1, {target})) = Cardinality(Held(sh, {target})) + Cardinality(Held(sh, ids))

LEMMA CountsMove ==
    ASSUME NEW sh, NEW ids \in SUBSET Location, NEW target \in Location \cup {None},
           target \notin ids,
           NEW sh1, sh1 = ShelfWithout(sh, ids, target)
    PROVE  CountsMoved(sh, sh1, ids, target)
<1>1. \A k \in Shelved : sh1[k] = IF sh[k] \notin ids THEN sh[k] ELSE target
  BY DEF ShelfWithout
<1>2. ASSUME NEW i \in ids PROVE Cardinality(Held(sh1, {i})) = 0
  <2>1. i \in Location /\ i # None /\ i # target
    BY LocationsAssumption
  <2>2. Held(sh1, {i}) = {}
    BY <1>1, <2>1 DEF Held
  <2> QED
    BY <2>2, HeldFinite
<1>3. ASSUME NEW i \in Location \ ids, i # target PROVE Cardinality(Held(sh1, {i})) = Cardinality(Held(sh, {i}))
  <2>1. Held(sh1, {i}) = Held(sh, {i})
    BY <1>1, <1>3 DEF Held
  <2> QED
    BY <2>1
<1>4. ASSUME target # None
      PROVE  Cardinality(Held(sh1, {target})) = Cardinality(Held(sh, {target})) + Cardinality(Held(sh, ids))
  <2> DEFINE X == Held(sh, {target})
             Y == Held(sh, ids)
             Z == Held(sh1, {target})
  <2>1. Z = X \cup Y /\ X \cap Y = {}
    BY <1>1 DEF Held
  <2>2. IsFiniteSet(X) /\ IsFiniteSet(Y) /\ Cardinality(X) \in Nat /\ Cardinality(Y) \in Nat
    BY HeldFinite
  <2> HIDE DEF X, Y, Z
  <2>3. Cardinality(X \cup Y) = Cardinality(X) + Cardinality(Y) - Cardinality(X \cap Y)
    BY <2>2, FS_Union
  <2>4. Cardinality(X \cap Y) = 0
    BY <2>1, FS_EmptySet
  <2>5. Cardinality(X \cup Y) = Cardinality(X) + Cardinality(Y)
    BY <2>2, <2>3, <2>4
  <2> QED
    BY <2>1, <2>5 DEF X, Y, Z
<1> QED
  BY <1>2, <1>3, <1>4 DEF CountsMoved

\* What locations.vue shows after its own deletion is what the server would send.
LEMMA PageDeletes ==
    ASSUME NEW rs, NEW sh, Tabled(rs), IsFiniteSet(Present(rs)), NEW id \in Present(rs),
           NEW ids, ids = {id} \cup Under(rs, rs[id]), NEW target \in Location \cup {None},
           target \notin ids,
           NEW out, out = RowsWithout(rs, ids), NEW sh1, sh1 = ShelfWithout(sh, ids, target)
    PROVE  deleteLocationLocally(ServerList(rs, sh), id, target) = ServerList(out, sh1)
<1> DEFINE v == ServerList(rs, sh)
           moved == Total(v, ids)
<1>1. v.rows = rs /\ \A i \in Location : v.books[i] = Cardinality(Held(sh, {i}))
  BY ListTyped
<1>2. ids \in SUBSET Location /\ IsFiniteSet(ids)
  <2>1. ids \subseteq Present(rs)
    BY DEF Under
  <2> QED
    BY <2>1, FS_Subset DEF Present
<1> HIDE DEF v
<1>3. moved = Cardinality(Held(sh, ids))
  BY <1>1, <1>2, CountsAddUp
<1>4. deleteLocationLocally(v, id, target) =
        [rows |-> [i \in Location |-> IF i \in ids THEN None ELSE v.rows[i]],
         books |-> [i \in Location |-> IF i \in ids THEN 0 ELSE IF i = target THEN v.books[i] + moved ELSE v.books[i]]]
  BY <1>1 DEF deleteLocationLocally, Total
<1> HIDE DEF moved
<1>5. \A i \in Location : (IF i \in ids THEN 0 ELSE IF i = target THEN v.books[i] + moved ELSE v.books[i])
                            = Cardinality(Held(sh1, {i}))
  <2> SUFFICES ASSUME NEW i \in Location
               PROVE  (IF i \in ids THEN 0 ELSE IF i = target THEN v.books[i] + moved ELSE v.books[i]) = Cardinality(Held(sh1, {i}))
    OBVIOUS
  <2>1. v.books[i] = Cardinality(Held(sh, {i})) /\ i # None
    BY <1>1, LocationsAssumption
  <2>2. /\ i \in ids => Cardinality(Held(sh1, {i})) = 0
        /\ i \notin ids /\ i # target => Cardinality(Held(sh1, {i})) = Cardinality(Held(sh, {i}))
        /\ target # None => Cardinality(Held(sh1, {target})) = Cardinality(Held(sh, {target})) + Cardinality(Held(sh, ids))
    <3>1. CountsMoved(sh, sh1, ids, target)
      BY <1>2, CountsMove
    <3> QED
      BY <3>1 DEF CountsMoved
  <2> QED
    BY <1>3, <2>1, <2>2
<1>6. RowsWithout(rs, ids) = [i \in Location |-> IF i \in ids THEN None ELSE v.rows[i]]
  BY <1>1 DEF RowsWithout
<1> QED
  BY <1>4, <1>5, <1>6 DEF ServerList, v

LEMMA deleteLocationKeeps ==
    ASSUME LocationsInv, NEW c \in Call, deleteLocation(c)
    PROVE  LocationsInv'
<1> DEFINE q == op[c]
           ids == {s.id : s \in q.scope}
           target == IF q.mode = "move" THEN q.to ELSE None
<1>1. /\ q \in LocationCall /\ Asked(q) /\ Tree(rows, shelf, outdated) /\ Tabled(rows) /\ IsFiniteSet(Present(rows))
  BY DEF LocationsInv, Calls, Tree
<1>2. /\ q.do = "delete" /\ q.at = "write" /\ q \in DeleteCall /\ q # Idle /\ q.to \in Location \cup {None} /\ q.id \in Location
  BY <1>1, CallKinds, IdleAsked DEF deleteLocation, At, DeleteCall
<1>3. target \in Location \cup {None}
  BY <1>2
<1>4. CASE Refuse(c)
  BY <1>2, <1>4, RefuseKeeps
<1>5. ASSUME ~Refuse(c) PROVE LocationsInv'
  <2>1. PICK ties \in BOOLEAN, late \in BOOLEAN :
          /\ DeletesInOrder(q.scope, ties)
          /\ target # None /\ BooksIn(ids) # {} => target \in Present(rows)
          /\ Deleted(q.scope, target)
          /\ op' = [op EXCEPT ![c] = Idle]
          /\ view' = IF c = Page /\ ~late THEN view ELSE None
          /\ UNCHANGED <<outdated, locationOps>>
    BY <1>5, Zenon DEF deleteLocation
  <2>2. rows' = RowsWithout(rows, ids) /\ shelf' = ShelfWithout(shelf, ids, target) /\ outdated' = outdated
    BY <2>1 DEF Deleted, RowsWithout, ShelfWithout
  <2>3. \A i \in Present(rows) : rows[i].parent \in ids => i \in ids
    BY <2>1 DEF DeletesInOrder
  <2>4. target # None /\ Held(shelf, ids) # {} => target \in Present(rows)
    BY <2>1 DEF BooksIn, Held
  <2>5. Tree(rows', shelf', outdated')
    <3> DEFINE out == RowsWithout(rows, ids)
               sh1 == ShelfWithout(shelf, ids, target)
    <3>1. out = RowsWithout(rows, ids) /\ sh1 = ShelfWithout(shelf, ids, target)
      OBVIOUS
    <3> HIDE DEF out, sh1, ids, target
    <3>2. Tree(out, sh1, outdated)
      BY <1>1, <1>3, <2>3, <2>4, <3>1, TreeShrinks
    <3> QED
      BY <2>2, <3>1, <3>2
  <2>6. ASSUME view' # None PROVE c = Page /\ view # None /\ outdated' = {} /\ view' = ServerList(rows', shelf')
    <3>1. c = Page /\ view # None /\ view' = view
      BY <2>1, <2>6
    <3>2. outdated = {} /\ view = Optimistic(ServerList(rows, shelf), q) /\ Current(rows, shelf, q)
      BY <1>2, <3>1 DEF LocationsInv, Shows
    <3> DEFINE below == {q.id} \cup Under(rows, q.loc)
               list == ServerList(rows, shelf)
    <3>3. /\ q.id \in Present(rows) /\ rows[q.id] = q.loc /\ q.to \in Present(rows) \cup {None}
          /\ (q.mode = "move") = (q.to # None) /\ q.to \notin below /\ (q.mode = "block" => Held(shelf, below) = {})
          /\ q.scope = {rows[i] : i \in below}
      BY <1>2, <3>2 DEF Current
    <3>4. ids = below
      <4>1. \A i \in below : rows[i].id = i
        BY <1>1, <3>3, RowsTyped DEF Under
      <4> QED
        BY <3>3, <4>1
    <3>5. target = q.to
      BY <3>3
    <3>6. list.rows = rows /\ \A i \in Location : list.books[i] = Cardinality(Held(shelf, {i}))
      BY <1>1, ListTyped
    <3>7. q.mode = "block" => \A i \in below : ~(list.books[i] > 0)
      <4> SUFFICES ASSUME q.mode = "block", NEW i \in below PROVE list.books[i] = 0
        OBVIOUS
      <4>1. Held(shelf, {i}) = {} /\ i \in Location
        BY <1>2, <3>3 DEF Held, Under, Present
      <4>2. Cardinality(Held(shelf, {i})) = 0
        BY <4>1, HeldFinite
      <4> HIDE DEF list
      <4> QED
        BY <3>6, <4>1, <4>2
    <3>8. Optimistic(list, q) = deleteLocationLocally(list, q.id, target)
      <4> HIDE DEF list, target, q
      <4>1. Optimistic(list, q) =
              LET scope == {q.id} \cup Under(list.rows, list.rows[q.id]) IN
              IF q.mode = "block" /\ \E i \in scope : list.books[i] > 0 THEN list
              ELSE deleteLocationLocally(list, q.id, IF q.mode = "move" THEN q.to ELSE None)
        BY <1>2 DEF Optimistic
      <4>2. {q.id} \cup Under(list.rows, list.rows[q.id]) = below
        BY <3>3, <3>6
      <4>3. (IF q.mode = "move" THEN q.to ELSE None) = target
        BY <3>3, <3>5
      <4> QED
        BY <3>7, <4>1, <4>2, <4>3
    <3>9. deleteLocationLocally(list, q.id, target) = ServerList(rows', shelf')
      <4> DEFINE out == rows'
                 sh1 == shelf'
                 id == q.id
      <4>1. id \in Present(rows) /\ ids = {id} \cup Under(rows, rows[id]) /\ target \notin ids
        BY <3>3, <3>4, <3>5
      <4>2. out = RowsWithout(rows, ids) /\ sh1 = ShelfWithout(shelf, ids, target)
        BY <2>2
      <4> HIDE DEF out, sh1, id, ids, target
      <4>3. deleteLocationLocally(ServerList(rows, shelf), id, target) = ServerList(out, sh1)
        BY <1>1, <1>3, <4>1, <4>2, PageDeletes
      <4> QED
        BY <4>3 DEF out, sh1, id
    <3> QED
      BY <2>2, <3>1, <3>2, <3>8, <3>9
  <2> QED
    BY <2>1, <2>5, <2>6, WriteKeeps
<1> QED
  BY <1>4, <1>5

LEMMA updateLocationKeeps ==
    ASSUME LocationsInv, NEW c \in Call, updateLocation(c)
    PROVE  LocationsInv'
<1> DEFINE q == op[c]
<1>1. q \in LocationCall /\ Tree(rows, shelf, outdated)
  BY DEF LocationsInv, Calls
<1>2. q.do = "assign" /\ q \in AssignCall /\ q # Idle /\ q.copy \in Shelved
  BY <1>1, CallKinds, IdleAsked DEF updateLocation, At, AssignCall
<1>3. CASE Refuse(c)
  BY <1>2, <1>3, RefuseKeeps
<1>4. ASSUME ~Refuse(c) PROVE LocationsInv'
  <2>1. /\ q.to = None \/ q.to \in Present(rows)
        /\ shelf' = [shelf EXCEPT ![q.copy] = q.to] /\ op' = [op EXCEPT ![c] = Idle]
        /\ view' = None /\ rows' = rows /\ outdated' = outdated
    BY <1>4 DEF updateLocation, Answer
  <2>2. shelf' \in [Shelved -> Present(rows) \cup {None}]
    BY <1>1, <1>2, <2>1 DEF Tree
  <2>3. Tree(rows', shelf', outdated')
    BY <1>1, <2>1, <2>2 DEF Tree
  <2> QED
    BY <2>1, <2>3, WriteKeeps
<1> QED
  BY <1>3, <1>4

-----------------------------------------------------------------------------
(****************************** the theorem ********************************)

LEMMA LocationsStarts == LocationsInit => LocationsInv
<1> SUFFICES ASSUME LocationsInit PROVE LocationsInv
  OBVIOUS
<1> DEFINE a == CHOOSE i \in Location : TRUE
           b == CHOOSE i \in Location \ {a} : TRUE
           x == CHOOSE n \in Name : TRUE
           room == NewRow(a, None, x)
           shed == NewRow(b, room, x)
<1>1. /\ rows = [i \in Location |-> CASE i = a -> room [] i = b -> shed [] OTHER -> None]
      /\ shelf = [k \in Shelved |-> b] /\ op = [c \in Call |-> Idle] /\ view = listLocations /\ outdated = {}
  BY DEF LocationsInit, NewRow
<1>2. a \in Location /\ b \in Location /\ a # b /\ x \in Name
  <2>1. Location # {} /\ Name # {}
    BY LocationsAssumption
  <2>2. a \in Location /\ x \in Name
    BY <2>1
  <2> HIDE DEF a
  <2>3. Location \ {a} # {}
    BY LocationsAssumption
  <2>4. b \in Location \ {a}
    BY <2>3
  <2> QED
    BY <2>2, <2>4
<1> HIDE DEF a, b, x
<1>3. room \in LocationRow /\ room.id = a /\ room.parent = None /\ room.depth = 0 /\ room.path = <<x>> /\ room.name = x
  <2>1. room = NewRow(a, None, x)
    OBVIOUS
  <2> HIDE DEF room
  <2>2. /\ room \in LocationRow /\ room.id = a /\ room.name = x /\ room.path = locationChildPath(None, x)
        /\ room.parent = (IF None = None THEN None ELSE None.id) /\ room.depth = IF None = None THEN 0 ELSE None.depth + 1
    BY <1>2, <2>1, NewRowTyped
  <2> QED
    BY <2>2 DEF locationChildPath
<1>4. room # None
  BY <1>3, LocationsAssumption
<1>5. /\ shed \in LocationRow /\ shed.id = b /\ shed.parent = a /\ shed.depth = 1 /\ shed.path = Append(<<x>>, x) /\ shed.name = x
  <2>1. shed = NewRow(b, room, x)
    OBVIOUS
  <2> HIDE DEF shed, room
  <2>2. /\ shed \in LocationRow /\ shed.id = b /\ shed.name = x /\ shed.path = locationChildPath(room, x)
        /\ shed.parent = (IF room = None THEN None ELSE room.id) /\ shed.depth = IF room = None THEN 0 ELSE room.depth + 1
    BY <1>2, <1>3, <2>1, NewRowTyped
  <2> QED
    BY <1>3, <1>4, <2>2 DEF locationChildPath
<1> HIDE DEF room
<1> HIDE DEF shed
<1>6. shed # None /\ a # None
  BY <1>2, <1>5, LocationsAssumption
<1>7. /\ rows \in [Location -> LocationRow \cup {None}] /\ rows[a] = room /\ rows[b] = shed
      /\ Present(rows) = {a, b}
  BY <1>1, <1>2, <1>3, <1>4, <1>5, <1>6 DEF Present
<1>8. Tabled(rows) /\ UniqueNames(rows)
  BY <1>3, <1>5, <1>6, <1>7 DEF Tabled, UniqueNames
<1>9. IsFiniteSet(Present(rows))
  <2>1. IsFiniteSet({} \cup {a})
    BY FS_EmptySet, FS_AddElement
  <2>2. IsFiniteSet(({} \cup {a}) \cup {b})
    BY <2>1, FS_AddElement
  <2>3. ({} \cup {a}) \cup {b} = {a, b}
    OBVIOUS
  <2> QED
    BY <1>7, <2>2, <2>3
<1>10. Agrees(rows)
  <2>1. Len(<<x>>) = 1 /\ Len(Append(<<x>>, x)) = 2
    BY <1>2
  <2>2. RowOf(rows, None) = None /\ RowOf(rows, a) = room
    BY <1>6, <1>7 DEF RowOf
  <2>3. locationChildPath(None, x) = <<x>> /\ locationChildPath(room, x) = Append(<<x>>, x)
    BY <1>3, <1>4 DEF locationChildPath
  <2>0. /\ rows[a].path = <<x>> /\ rows[a].depth = 0 /\ rows[a].parent = None /\ rows[a].name = x
        /\ rows[b].path = Append(<<x>>, x) /\ rows[b].depth = 1 /\ rows[b].parent = a /\ rows[b].name = x
    BY <1>3, <1>5, <1>7
  <2>4. /\ rows[a].path = locationChildPath(RowOf(rows, rows[a].parent), rows[a].name)
        /\ rows[a].depth = Len(rows[a].path) - 1
    BY <2>0, <2>1, <2>2, <2>3
  <2>5. /\ rows[b].path = locationChildPath(RowOf(rows, rows[b].parent), rows[b].name)
        /\ rows[b].depth = Len(rows[b].path) - 1
    BY <2>0, <2>1, <2>2, <2>3
  <2> QED
    BY <1>7, <2>4, <2>5 DEF Agrees
<1>11. Tree(rows, shelf, outdated)
  BY <1>1, <1>7, <1>8, <1>9, <1>10 DEF Tree
<1>12. Calls(op)
  BY <1>1, IdleAsked DEF Calls
<1>13. view = ServerList(rows, shelf)
  BY <1>1 DEF listLocations, ServerList, BooksIn, Held
<1>14. op[Page] = Idle
  BY <1>1, LocationsAssumption
<1> QED
  BY <1>1, <1>11, <1>12, <1>13, <1>14 DEF LocationsInv, Shows

LEMMA LocationsStays == LocationsInv /\ [LocationsNext]_locationVars => LocationsInv'
<1> SUFFICES ASSUME LocationsInv, [LocationsNext]_locationVars PROVE LocationsInv'
  OBVIOUS
<1>1. CASE UNCHANGED locationVars
  BY <1>1 DEF locationVars, LocationsInv
<1>2. CASE LocationsNext
  <2> SUFFICES ASSUME NEW c \in Call,
                      \/ CreateRead(c) \/ RenameRead(c) \/ MoveRead(c) \/ DeleteRead(c) \/ AssignRead(c)
                      \/ ReadParent(c) \/ CheckDelete(c) \/ ReadScope(c) \/ CheckTarget(c)
                      \/ createLocation(c) \/ renameLocation(c) \/ moveLocation(c)
                      \/ deleteLocation(c) \/ DeleteTimesOut(c) \/ updateLocation(c)
               PROVE  LocationsInv'
    BY <1>2 DEF LocationsNext
  <2>1. CASE DeleteTimesOut(c)
    <3>1. op[c] # Idle /\ Refuse(c)
      BY <2>1, IdleAsked DEF DeleteTimesOut, At
    <3> QED
      BY <3>1, RefuseKeeps
  <2> QED
    BY <2>1, CreateReadKeeps, RenameReadKeeps, MoveReadKeeps, DeleteReadKeeps, AssignReadKeeps,
       ReadParentKeeps,
       CheckDeleteKeeps, ReadScopeKeeps, CheckTargetKeeps, createLocationKeeps, renameLocationKeeps, moveLocationKeeps,
       deleteLocationKeeps, updateLocationKeeps
<1> QED
  BY <1>1, <1>2

LEMMA TreeAgrees == LocationsInv => LocationsTypeOK /\ TreeAndPageAgree
<1> SUFFICES ASSUME LocationsInv PROVE LocationsTypeOK /\ TreeAndPageAgree
  OBVIOUS
<1>1. Tree(rows, shelf, outdated) /\ Shows(rows, shelf, op[Page], view, outdated) /\ Tabled(rows)
  BY DEF LocationsInv, Tree
<1>2. LocationsTypeOK
  BY <1>1 DEF LocationsTypeOK, Tree, Tabled
<1>3. PathsAgree
  BY <1>1 DEF PathsAgree, Tree, Agrees
<1>4. PageShowsTheTree
  <2> SUFFICES ASSUME view # None, op[Page] = Idle
               PROVE  view.rows = rows /\ \A i \in Present(rows) : view.books[i] = Cardinality(BooksIn({i}))
    BY DEF PageShowsTheTree
  <2>1. view = ServerList(rows, shelf)
    BY <1>1 DEF Shows
  <2>2. view.rows = rows /\ \A i \in Location : view.books[i] = Cardinality(Held(shelf, {i}))
    BY <1>1, <2>1, ListTyped
  <2> QED
    BY <2>2 DEF Held, BooksIn, Present
<1> QED
  BY <1>2, <1>3, <1>4 DEF TreeAndPageAgree

(* The columns stay typed, every path and depth is that of the parent, and *)
(* the list that locations.vue patches by itself is what listLocations     *)
(* would send, whatever create, rename, move, delete and assignment do at  *)
(* the same time: until somebody writes a path from a parent that changed, *)
(* and as long as the page is the only one that writes.                    *)
THEOREM TreeIsTrue == LocationsSpec => [](LocationsTypeOK /\ TreeAndPageAgree)
<1>1. LocationsInit => LocationsInv
  BY LocationsStarts
<1>2. LocationsInv /\ [LocationsNext]_locationVars => LocationsInv'
  BY LocationsStays
<1>3. LocationsInv => LocationsTypeOK /\ TreeAndPageAgree
  BY TreeAgrees
<1> QED
  BY <1>1, <1>2, <1>3, PTL DEF LocationsSpec
-----------------------------------------------------------------------------
(**************************** the library page *****************************)

OnceEach(s) == \A i, j \in DOMAIN s : s[i] = s[j] => i = j

\* The elements at some positions of a sequence, in order: those and no others, each as often as its positions.
LEMMA InOrderMeans ==
    ASSUME NEW S, NEW s \in Seq(S), NEW P \in SUBSET DOMAIN s
    PROVE  /\ InOrder(s, P) \in Seq(S) /\ Len(InOrder(s, P)) = Cardinality(P)
           /\ \A n \in DOMAIN InOrder(s, P) : \E i \in P : InOrder(s, P)[n] = s[i]
           /\ \A i \in P : \E n \in DOMAIN InOrder(s, P) : InOrder(s, P)[n] = s[i]
           /\ OnceEach(s) => OnceEach(InOrder(s, P))
<1> DEFINE upTo(i) == {j \in P : j <= i}
           rank == [i \in P |-> Cardinality(upTo(i))]
           size == Cardinality(P)
<1>1. DOMAIN s = 1 .. Len(s) /\ Len(s) \in Nat
  OBVIOUS
<1>2. IsFiniteSet(P) /\ size \in Nat
  <2>1. IsFiniteSet(1 .. Len(s))
    BY <1>1, FS_Interval
  <2> QED
    BY <2>1, <1>1, FS_Subset, FS_CardinalityType
<1>3. \A i \in P : IsFiniteSet(upTo(i)) /\ Cardinality(upTo(i)) \in 1 .. size
  <2> SUFFICES ASSUME NEW i \in P PROVE IsFiniteSet(upTo(i)) /\ Cardinality(upTo(i)) \in 1 .. size
    OBVIOUS
  <2>1. upTo(i) \in SUBSET P /\ i \in upTo(i)
    BY <1>1
  <2>2. IsFiniteSet(upTo(i)) /\ Cardinality(upTo(i)) <= size
    BY <2>1, <1>2, FS_Subset
  <2>3. Cardinality(upTo(i)) \in Nat /\ Cardinality(upTo(i)) # 0
    BY <2>1, <2>2, FS_CardinalityType, FS_EmptySet
  <2> QED
    BY <2>2, <2>3, <1>2
<1>4. \A i, j \in P : i < j => Cardinality(upTo(i)) < Cardinality(upTo(j))
  <2> SUFFICES ASSUME NEW i \in P, NEW j \in P, i < j PROVE Cardinality(upTo(i)) < Cardinality(upTo(j))
    OBVIOUS
  <2>1. upTo(i) \in SUBSET upTo(j) /\ j \in upTo(j) /\ j \notin upTo(i)
    BY <1>1
  <2>2. Cardinality(upTo(i)) <= Cardinality(upTo(j)) /\ Cardinality(upTo(i)) # Cardinality(upTo(j))
    BY <2>1, <1>3, FS_Subset
  <2> HIDE DEF upTo
  <2>3. Cardinality(upTo(i)) \in Int /\ Cardinality(upTo(j)) \in Int
    BY <1>2, <1>3
  <2> QED
    BY <2>2, <2>3
<1>a. \A i, j \in P : rank[i] = rank[j] => i = j
  <2> SUFFICES ASSUME NEW i \in P, NEW j \in P, rank[i] = rank[j] PROVE i = j
    OBVIOUS
  <2>1. Cardinality(upTo(i)) = Cardinality(upTo(j))
    OBVIOUS
  <2> HIDE DEF upTo
  <2> DEFINE n == Cardinality(upTo(i))
  <2>a. n \in Int
    BY <1>2, <1>3
  <2>b. i < j => n < n
    BY <2>1, <1>4
  <2>c. j < i => n < n
    BY <2>1, <1>4
  <2> HIDE DEF n
  <2>2. ~(i < j) /\ ~(j < i)
    BY <2>a, <2>b, <2>c
  <2> QED
    BY <2>2, <1>1
<1>5. rank \in Injection(P, 1 .. size)
  <2>1. rank \in [P -> 1 .. size]
    BY <1>3
  <2> QED
    BY <2>1, <1>a DEF Injection, IsInjective
<1>6. rank \in Surjection(P, 1 .. size)
  <2>1. IsFiniteSet(1 .. size) /\ Cardinality(1 .. size) = size
    BY <1>2, FS_Interval
  <2> QED
    BY <2>1, <1>5, FS_Injection
<1>7. \A n \in 1 .. size : \E i \in P : Cardinality(upTo(i)) = n
  BY <1>6 DEF Surjection
<1>8. InOrder(s, P) = [n \in 1 .. size |-> s[CHOOSE i \in P : Cardinality(upTo(i)) = n]]
  BY DEF InOrder
<1> DEFINE at(n) == CHOOSE i \in P : Cardinality(upTo(i)) = n
<1>9. \A n \in 1 .. size : at(n) \in P /\ rank[at(n)] = n
  BY <1>7
<1>10. InOrder(s, P) = [n \in 1 .. size |-> s[at(n)]]
  BY <1>8
<1>b. \A i \in P : rank[i] \in 1 .. size
  BY <1>3
<1> HIDE DEF at, rank, size, upTo
<1>11. \A n \in 1 .. size : s[at(n)] \in S
  BY <1>9, <1>1
<1>12. InOrder(s, P) \in [1 .. size -> S]
  BY <1>10, <1>11
<1>13. InOrder(s, P) \in Seq(S) /\ Len(InOrder(s, P)) = size /\ DOMAIN InOrder(s, P) = 1 .. size
  BY <1>2, <1>12
<1>14. \A i \in P : at(rank[i]) = i
  BY <1>b, <1>9, <1>a
<1>15. \A i \in P : InOrder(s, P)[rank[i]] = s[i]
  BY <1>14, <1>b, <1>10
<1>16. ASSUME OnceEach(s), NEW m \in 1 .. size, NEW n \in 1 .. size, InOrder(s, P)[m] = InOrder(s, P)[n]
       PROVE  m = n
  <2>1. s[at(m)] = s[at(n)] /\ at(m) \in DOMAIN s /\ at(n) \in DOMAIN s
    BY <1>16, <1>10, <1>9
  <2>2. at(m) = at(n)
    BY <2>1, <1>16 DEF OnceEach
  <2> QED
    BY <2>2, <1>9
<1>17. OnceEach(s) => OnceEach(InOrder(s, P))
  BY <1>16, <1>13 DEF OnceEach
<1>18. size = Cardinality(P)
  BY DEF size
<1> QED
  BY <1>9, <1>10, <1>13, <1>15, <1>b, <1>17, <1>18

LEMMA InOrderOfAll ==
    ASSUME NEW S, NEW s \in Seq(S)
    PROVE  InOrder(s, DOMAIN s) = s
<1> DEFINE P == DOMAIN s
           upTo(i) == {j \in P : j <= i}
<1>1. P = 1 .. Len(s) /\ Len(s) \in Nat
  OBVIOUS
<1>2. ASSUME NEW i \in P PROVE Cardinality(upTo(i)) = i
  <2>1. upTo(i) = 1 .. i
    BY <1>1
  <2>2. Cardinality(1 .. i) = i
    BY <1>1, FS_Interval
  <2> QED
    BY <2>1, <2>2
<1>3. Cardinality(P) = Len(s)
  BY <1>1, FS_Interval
<1> HIDE DEF upTo
<1>4. \A n \in P : (CHOOSE i \in P : Cardinality(upTo(i)) = n) = n
  BY <1>2
<1>5. InOrder(s, P) = [n \in 1 .. Len(s) |-> s[CHOOSE i \in P : Cardinality(upTo(i)) = n]]
  BY <1>3 DEF InOrder, upTo
<1>6. InOrder(s, P) = [n \in 1 .. Len(s) |-> s[n]]
  BY <1>5, <1>4, <1>1
<1> QED
  BY <1>6, <1>1

LEMMA WithoutMeans ==
    ASSUME NEW S, NEW s \in Seq(S), NEW unwanted
    PROVE  /\ Without(s, unwanted) \in Seq(S) /\ Len(Without(s, unwanted)) <= Len(s)
           /\ ToSet(Without(s, unwanted)) = ToSet(s) \ unwanted
           /\ OnceEach(s) => OnceEach(Without(s, unwanted))
           /\ ToSet(s) \cap unwanted = {} => Without(s, unwanted) = s
           /\ ToSet(s) \cap unwanted # {} => Len(Without(s, unwanted)) < Len(s)
<1> DEFINE P == {i \in DOMAIN s : s[i] \notin unwanted}
<1>1. DOMAIN s = 1 .. Len(s) /\ Len(s) \in Nat
  OBVIOUS
<1>2. Without(s, unwanted) = InOrder(s, P)
  BY DEF Without
<1>3. P \in SUBSET DOMAIN s
  OBVIOUS
<1>4. /\ InOrder(s, P) \in Seq(S) /\ Len(InOrder(s, P)) = Cardinality(P)
      /\ \A n \in DOMAIN InOrder(s, P) : \E i \in P : InOrder(s, P)[n] = s[i]
      /\ \A i \in P : \E n \in DOMAIN InOrder(s, P) : InOrder(s, P)[n] = s[i]
      /\ OnceEach(s) => OnceEach(InOrder(s, P))
  BY <1>3, InOrderMeans
<1>5. ToSet(InOrder(s, P)) = ToSet(s) \ unwanted
  <2> DEFINE t == InOrder(s, P)
  <2>1. /\ \A n \in DOMAIN t : \E i \in P : t[n] = s[i]
        /\ \A i \in P : \E n \in DOMAIN t : t[n] = s[i]
    BY <1>4
  <2> HIDE DEF t
  <2>2. ASSUME NEW b \in ToSet(t) PROVE b \in ToSet(s) \ unwanted
    BY <2>1 DEF ToSet
  <2>3. ASSUME NEW b \in ToSet(s) \ unwanted PROVE b \in ToSet(t)
    <3>1. PICK i \in DOMAIN s : b = s[i] /\ s[i] \notin unwanted
      BY DEF ToSet
    <3>2. PICK n \in DOMAIN t : t[n] = s[i]
      BY <3>1, <2>1
    <3> QED
      BY <3>1, <3>2 DEF ToSet
  <2>4. ToSet(t) = ToSet(s) \ unwanted
    BY <2>2, <2>3
  <2> QED
    BY <2>4 DEF t
<1>6. IsFiniteSet(DOMAIN s) /\ Cardinality(DOMAIN s) = Len(s)
  BY <1>1, FS_Interval
<1>7. Cardinality(P) \in Nat /\ Cardinality(P) <= Len(s) /\ (P # DOMAIN s => Cardinality(P) < Len(s))
  <2>1. IsFiniteSet(P) /\ Cardinality(P) <= Cardinality(DOMAIN s) /\ (Cardinality(P) = Cardinality(DOMAIN s) => P = DOMAIN s)
    BY <1>3, <1>6, FS_Subset
  <2>2. Cardinality(P) \in Nat
    BY <2>1, FS_CardinalityType
  <2> HIDE DEF P
  <2> QED
    BY <2>1, <2>2, <1>6, <1>1
<1>8. ToSet(s) \cap unwanted = {} => P = DOMAIN s
  BY DEF ToSet
<1>9. ToSet(s) \cap unwanted # {} => P # DOMAIN s
  BY DEF ToSet
<1>10. P = DOMAIN s => InOrder(s, P) = s
  BY InOrderOfAll
<1> HIDE DEF P
<1> QED
  BY <1>2, <1>4, <1>5, <1>7, <1>8, <1>9, <1>10

\* books, each at most once
OwnShelf(s) == s \in Seq(Listing) /\ OnceEach(s)

LEMMA MatchesAreAShelf ==
    ASSUME OwnShelf(myBooks), NEW f PROVE OwnShelf(matches(f))
<1> DEFINE P == {i \in DOMAIN myBooks : Keeps(f, myBooks[i])}
<1>1. P \in SUBSET DOMAIN myBooks /\ matches(f) = InOrder(myBooks, P)
  BY DEF matches
<1> HIDE DEF P
<1> QED
  BY <1>1, InOrderMeans DEF OwnShelf

\* the first n pages of what is found
firstPages(seq, n) == SubSeq(seq, 1, IF n * PageSize < Len(seq) THEN n * PageSize ELSE Len(seq))

LEMMA PagesAreShelves ==
    ASSUME NEW seq \in Seq(Listing), NEW n \in Nat \ {0}
    PROVE  pageOf(seq, n) \in Seq(Listing) /\ firstPages(seq, n) \in Seq(Listing) /\ firstPages(seq, 1) = pageOf(seq, 1)
<1> DEFINE a == (n - 1) * PageSize
           z == IF n * PageSize < Len(seq) THEN n * PageSize ELSE Len(seq)
<1>1. PageSize \in Nat \ {0}
  BY PageAssumption
<1>2. a \in Nat /\ n * PageSize \in Nat /\ z \in 0 .. Len(seq)
  BY <1>1
<1>3. pageOf(seq, n) = SubSeq(seq, a + 1, z) /\ firstPages(seq, n) = SubSeq(seq, 1, z)
  BY DEF pageOf, firstPages
<1> HIDE DEF a, z
<1>4. \A i \in a + 1 .. z : seq[i] \in Listing
  BY <1>2
<1>5. \A i \in 1 .. z : seq[i] \in Listing
  BY <1>2
<1>6. SubSeq(seq, a + 1, z) \in Seq(Listing)
  BY <1>2, <1>4, SubSeqProperties
<1>7. SubSeq(seq, 1, z) \in Seq(Listing)
  BY <1>2, <1>5, SubSeqProperties
<1>8. firstPages(seq, 1) = pageOf(seq, 1)
  <2>1. (1 - 1) * PageSize + 1 = 1
    BY <1>1
  <2> QED
    BY <2>1 DEF pageOf, firstPages
<1> QED
  BY <1>3, <1>6, <1>7, <1>8

\* The next page behind the first ones are the first ones and one more: what is not shown yet is all of it.
LEMMA NextPage ==
    ASSUME NEW seq, OwnShelf(seq), NEW n \in Nat \ {0, 1}
    PROVE  firstPages(seq, n - 1) \o Without(pageOf(seq, n), ToSet(firstPages(seq, n - 1))) = firstPages(seq, n)
<1> DEFINE a == (n - 1) * PageSize
           size == Len(seq)
           k == IF a < size THEN a ELSE size
           z == IF a + PageSize < size THEN a + PageSize ELSE size
<1>1. PageSize \in Nat \ {0} /\ seq \in Seq(Listing) /\ size \in Nat
  BY PageAssumption DEF OwnShelf
<1>2. n * PageSize = a + PageSize /\ a \in Nat
  BY <1>1
<1>3. /\ firstPages(seq, n - 1) = SubSeq(seq, 1, k)
      /\ firstPages(seq, n) = SubSeq(seq, 1, z)
      /\ pageOf(seq, n) = SubSeq(seq, a + 1, z)
  BY <1>2 DEF firstPages, pageOf
<1> HIDE DEF a, size
<1>4. k \in 0 .. size /\ z \in k .. size
  BY <1>1, <1>2
<1> HIDE DEF k, z
<1>5. DOMAIN seq = 1 .. size
  BY <1>1 DEF size
<1>6. SubSeq(seq, 1, k) \o SubSeq(seq, k + 1, z) = SubSeq(seq, 1, z)
  <2>1. size = Len(seq) /\ 1 \in 1 .. size + 1 /\ k \in 1 - 1 .. size
    BY <1>1, <1>4 DEF size
  <2> QED
    BY <2>1, <1>1, <1>4, ConcatAdjacentSubSeq
<1>7. SubSeq(seq, a + 1, z) = SubSeq(seq, k + 1, z)
  <2>1. CASE a < size
    BY <2>1 DEF k
  <2>2. CASE ~(a < size)
    <3>1. k = size /\ z = size /\ a >= size
      BY <2>2, <1>1, <1>2 DEF k, z
    <3>2. z < a + 1 /\ z < k + 1 /\ a + 1 \in Int /\ k + 1 \in Int /\ z \in Int
      BY <3>1, <1>1, <1>2
    <3> QED
      BY <3>2, SubSeqEmpty
  <2> QED
    BY <2>1, <2>2
<1>8. \A i \in k + 1 .. z : seq[i] \in Listing
  BY <1>1, <1>4, <1>5
<1>9. \A i \in 1 .. k : seq[i] \in Listing
  BY <1>1, <1>4, <1>5
<1> DEFINE later == SubSeq(seq, k + 1, z)
           first == SubSeq(seq, 1, k)
<1>10. /\ later \in Seq(Listing) /\ Len(later) = z - k
       /\ \A i \in 1 .. z - k : later[i] = seq[k + i]
  <2>1. k + 1 \in Int /\ z \in Int /\ k \in Int /\ z - (k + 1) + 1 = z - k /\ (k + 1 <= z \/ z = k)
    BY <1>1, <1>4
  <2>2. \A i \in 1 .. z - k : k + 1 + i - 1 = k + i
    BY <2>1
  <2>3. /\ later \in Seq(Listing) /\ Len(later) = IF k + 1 <= z THEN z - (k + 1) + 1 ELSE 0
        /\ \A i \in 1 .. z - (k + 1) + 1 : later[i] = seq[k + 1 + i - 1]
    BY <2>1, <1>8, SubSeqProperties
  <2> HIDE DEF later
  <2>4. Len(later) = z - k
    BY <2>1, <2>3
  <2> QED
    BY <2>1, <2>2, <2>3, <2>4
<1>11. first \in Seq(Listing) /\ Len(first) = k /\ \A i \in 1 .. k : first[i] = seq[i]
  <2>1. k \in Int /\ k - 1 + 1 = k /\ (1 <= k \/ k = 0) /\ \A i \in 1 .. k : 1 + i - 1 = i
    BY <1>1, <1>4
  <2>2. /\ first \in Seq(Listing) /\ Len(first) = IF 1 <= k THEN k - 1 + 1 ELSE 0
        /\ \A i \in 1 .. k - 1 + 1 : first[i] = seq[1 + i - 1]
    BY <2>1, <1>9, SubSeqProperties
  <2> HIDE DEF first
  <2>3. Len(first) = k
    BY <2>1, <2>2
  <2> QED
    BY <2>1, <2>2, <2>3
<1> HIDE DEF later, first
<1>12. ToSet(later) \cap ToSet(first) = {}
  <2> SUFFICES ASSUME NEW i \in DOMAIN later, NEW j \in DOMAIN first, later[i] = first[j] PROVE FALSE
    BY DEF ToSet
  <2>1. i \in 1 .. z - k /\ j \in 1 .. k
    BY <1>10, <1>11
  <2>2. seq[k + i] = seq[j] /\ k + i \in DOMAIN seq /\ j \in DOMAIN seq /\ k + i # j
    BY <2>1, <1>1, <1>4, <1>5, <1>10, <1>11
  <2> QED
    BY <2>2 DEF OwnShelf, OnceEach
<1>13. Without(later, ToSet(first)) = later
  BY <1>12, <1>10, WithoutMeans
<1> QED
  BY <1>3, <1>6, <1>7, <1>13 DEF later, first

LEMMA PagesCounted ==
    ASSUME NEW total \in Nat
    PROVE  PagesOf(total) \in Nat /\ (total > 0 => PagesOf(total) > 0)
<1> DEFINE m == total + PageSize - 1
<1>1. PageSize \in Nat \ {0} /\ m \in Nat
  BY PageAssumption
<1>2. PagesOf(total) = m \div PageSize
  BY DEF PagesOf
<1>3. total > 0 => m >= PageSize
  BY <1>1
<1> HIDE DEF m
<1>4. m \div PageSize \in Nat
  BY <1>1
<1>5. ASSUME m >= PageSize PROVE m \div PageSize > 0
  BY <1>1, <1>5
<1> QED
  BY <1>2, <1>3, <1>4, <1>5

-----------------------------------------------------------------------------
OfKind(ts, kind) == {t \in Call : ts[t] # None /\ ts[t].op = kind}

PageTypes ==
    /\ OwnShelf(myBooks) /\ preference \in BOOLEAN
    /\ routeFilter \in Filter \cup {None} /\ mounted \in BOOLEAN
    /\ filter \in Filter /\ activeKey \in Filter
    /\ page \in Nat \ {0} /\ allBooks \in Seq(Listing) /\ pagination \in Pagination \cup {None}
    /\ syncTarget \in Nat /\ adding \in Nat
    /\ filterTimer \in BOOLEAN /\ preferenceTimer \in BOOLEAN \cup {None}
    /\ tasks \in [Call -> PageTask \cup {None}]
    /\ request \in LibraryRequest \cup {None} /\ (request # None => request.page # 0)
    /\ unsettled \in BOOLEAN

\* The results kept are those of the filters in their order, each once.
CacheFits(kept, order) ==
    /\ kept \in [Filter -> KeptResults \cup {None}]
    /\ \A k \in Filter : kept[k] # None => kept[k].loadedPage # 0
    /\ order \in Seq(Filter) /\ OnceEach(order) /\ Len(order) <= MaxResults
    /\ ToSet(order) = {k \in Filter : kept[k] # None}

\* Someone waits for every request, and nobody without one; before the page is shown nothing happens but its first load.
TasksFit(ts, rq, shownNow, timer) ==
    /\ rq = None => \A t \in Call : ts[t] # None => ~ts[t].waits
    /\ rq # None => \E t \in Call : ts[t] # None /\ ts[t].waits
    /\ ~shownNow => ~timer /\ OfKind(ts, "sync") = {} /\ OfKind(ts, "more") = {}
    /\ shownNow => OfKind(ts, "load") = {}
    /\ \A t, u \in OfKind(ts, "load") : t = u
    /\ \A t \in OfKind(ts, "sync") : ts[t].next >= 2

KeyIsFilter ==
    ~filterTimer /\ (mounted \/ ~NothingAwaited) => activeKey = filter

foundIn(books, f) == InOrder(books, {i \in DOMAIN books : Keeps(f, books[i])})

\* what a request asks for and has read, while the page waits for page p behind the pages shown
RequestFits(rq, found, f, p, shown) ==
    /\ rq.filter = f /\ rq.page = p
    /\ rq.step # "count" => rq.total = Len(found)
    /\ rq.step = "back" => rq.books = pageOf(found, p)
    /\ p > 1 => shown = firstPages(found, p - 1)

Right(found, p, shown, info) == shown = firstPages(found, p) /\ info = InfoOf(Len(found), p)

\* a sync of several pages is the only one, and goes on behind the last
SyncsFit(ts, p, rq) == \A t \in OfKind(ts, "sync") : ts[t].target > 1 =>
    /\ ts[t].next = p + 1
    /\ \A u \in OfKind(ts, "sync") : u = t
    /\ ~ts[t].waits => rq = None

\* nothing disturbed the last load, and no book was added that it does not know
Clear == ~unsettled /\ ~filterTimer /\ (OfKind(tasks, "sync") # {} \/ (syncTarget = 0 /\ adding = 0))

Faithful ==
    /\ request # None => RequestFits(request, foundIn(myBooks, filter), filter, page, allBooks)
    /\ request = None =>
         \/ pagination = None /\ ~mounted /\ NothingAwaited
         \/ Right(foundIn(myBooks, filter), page, allBooks, pagination)
    /\ SyncsFit(tasks, page, request)

LibraryPageInv ==
    /\ PageTypes /\ CacheFits(resultCache, resultOrder)
    /\ TasksFit(tasks, request, mounted, filterTimer) /\ KeyIsFilter
    /\ Clear => Faithful

LEMMA PageNulls ==
    None \notin Filter /\ None \notin Pagination /\ None \notin LibraryRequest /\ None \notin PageTask /\ None \notin KeptResults
BY PageAssumption

LEMMA Kinds ==
    Syncs = OfKind(tasks, "sync") /\ Mores = OfKind(tasks, "more") /\ \A f : matches(f) = foundIn(myBooks, f)
BY DEF Syncs, Mores, OfKind, matches, foundIn

LEMMA TaskKinds ==
    ASSUME NEW x \in PageTask
    PROVE  /\ x # None /\ x.op \in {"sync", "more", "load"} /\ x.waits \in BOOLEAN
           /\ x.op = "sync" => x.next \in Nat /\ x.target \in Nat /\ x.mounting \in BOOLEAN
           /\ x.op = "more" => ~x.mounting
           /\ LET y == [x EXCEPT !.waits = FALSE] IN
              /\ y \in PageTask /\ y.op = x.op /\ y.waits = FALSE
              /\ x.op = "sync" => y.next = x.next /\ y.target = x.target
BY PageNulls DEF PageTask

LEMMA SyncIsATask ==
    ASSUME NEW next \in Nat, NEW target \in Nat, NEW mounting \in BOOLEAN
    PROVE  LET y == Sync(next, target, mounting) IN
           y \in PageTask /\ y # None /\ y.op = "sync" /\ y.waits /\ y.next = next /\ y.target = target
<1>1. Sync(next, target, mounting) \in PageTask
  BY DEF Sync, PageTask
<1> QED
  BY <1>1, PageNulls DEF Sync

\* What is kept, and its order, after a filter's results were moved to the end, cached, or restored.
LEMMA MovedMeans ==
    ASSUME NEW order \in Seq(Filter), OnceEach(order), NEW key \in Filter
    PROVE  /\ Moved(order, key) \in Seq(Filter) /\ OnceEach(Moved(order, key))
           /\ ToSet(Moved(order, key)) = ToSet(order) \cup {key}
           /\ Len(Moved(order, key)) <= Len(order) + 1
           /\ key \in ToSet(order) => Len(Moved(order, key)) <= Len(order)
<1> DEFINE rest == Without(order, {key})
<1>1. /\ rest \in Seq(Filter) /\ Len(rest) <= Len(order) /\ ToSet(rest) = ToSet(order) \ {key} /\ OnceEach(rest)
      /\ ToSet(order) \cap {key} # {} => Len(rest) < Len(order)
  BY WithoutMeans
<1>2. Moved(order, key) = Append(rest, key)
  BY DEF Moved
<1> HIDE DEF rest
<1> DEFINE all == Append(rest, key)
<1>3. /\ all \in Seq(Filter) /\ Len(all) = Len(rest) + 1 /\ Len(rest) \in Nat /\ Len(order) \in Nat
      /\ all[Len(rest) + 1] = key /\ \A i \in 1 .. Len(rest) : all[i] = rest[i]
  BY <1>1
<1> HIDE DEF all
<1>4. DOMAIN all = 1 .. Len(rest) + 1 /\ DOMAIN rest = 1 .. Len(rest)
  BY <1>1, <1>3
<1>5. \A i \in 1 .. Len(rest) : rest[i] # key
  BY <1>1, <1>4 DEF ToSet
<1>6. OnceEach(all)
  <2> SUFFICES ASSUME NEW i \in DOMAIN all, NEW j \in DOMAIN all, all[i] = all[j] PROVE i = j
    BY DEF OnceEach
  <2>1. CASE i <= Len(rest) /\ j <= Len(rest)
    <3>1. i \in 1 .. Len(rest) /\ j \in 1 .. Len(rest)
      BY <2>1, <1>3, <1>4
    <3> QED
      BY <3>1, <1>1, <1>3, <1>4 DEF OnceEach
  <2>2. CASE i = Len(rest) + 1 /\ j = Len(rest) + 1
    BY <2>2
  <2>3. CASE i <= Len(rest) /\ j = Len(rest) + 1
    <3>1. i \in 1 .. Len(rest)
      BY <2>3, <1>3, <1>4
    <3> QED
      BY <3>1, <2>3, <1>3, <1>5
  <2>4. CASE i = Len(rest) + 1 /\ j <= Len(rest)
    <3>1. j \in 1 .. Len(rest)
      BY <2>4, <1>3, <1>4
    <3> QED
      BY <3>1, <2>4, <1>3, <1>5
  <2> QED
    BY <2>1, <2>2, <2>3, <2>4, <1>3, <1>4
<1>7. ToSet(all) = ToSet(rest) \cup {key}
  <2>1. ASSUME NEW b \in ToSet(all) PROVE b \in ToSet(rest) \cup {key}
    <3>1. PICK i \in 1 .. Len(rest) + 1 : b = all[i]
      BY <1>4 DEF ToSet
    <3>2. i \in 1 .. Len(rest) \/ i = Len(rest) + 1
      BY <1>3
    <3> QED
      BY <3>1, <3>2, <1>3, <1>4 DEF ToSet
  <2>2. ASSUME NEW b \in ToSet(rest) PROVE b \in ToSet(all)
    <3>1. PICK i \in 1 .. Len(rest) : b = rest[i]
      BY <1>4 DEF ToSet
    <3>2. i \in DOMAIN all /\ b = all[i]
      BY <3>1, <1>3, <1>4
    <3> QED
      BY <3>2 DEF ToSet
  <2>3. key \in ToSet(all)
    <3>1. Len(rest) + 1 \in DOMAIN all /\ key = all[Len(rest) + 1]
      BY <1>3, <1>4
    <3> QED
      BY <3>1 DEF ToSet
  <2> QED
    BY <2>1, <2>2, <2>3
<1> QED
  BY <1>1, <1>2, <1>3, <1>6, <1>7 DEF all

LEMMA CachedFits ==
    ASSUME CacheFits(resultCache, resultOrder), NEW key \in Filter, NEW books \in Seq(Listing),
           NEW info \in Pagination \cup {None}, NEW n \in Nat \ {0}
    PROVE  CacheFits(Cached(key, books, info, n).of, Cached(key, books, info, n).order)
<1>1. CASE info = None
  <2>1. Cached(key, books, info, n) = [of |-> resultCache, order |-> resultOrder]
    BY <1>1 DEF Cached
  <2> QED
    BY <2>1
<1>2. CASE info # None
  <2> DEFINE order == Moved(resultOrder, key)
             kept == IF Len(order) > MaxResults THEN Tail(order) ELSE order
             entry == [books |-> books, pagination |-> info, loadedPage |-> n]
             of == [k \in Filter |-> IF k \notin ToSet(kept) THEN None ELSE IF k = key THEN entry ELSE resultCache[k]]
  <2>1. Cached(key, books, info, n) = [order |-> kept, of |-> of]
    BY <1>2 DEF Cached
  <2>2. entry \in KeptResults /\ entry # None /\ entry.loadedPage # 0
    <3>1. entry \in KeptResults
      BY <1>2 DEF KeptResults
    <3> QED
      BY <3>1, PageNulls
  <2>3. /\ resultOrder \in Seq(Filter) /\ OnceEach(resultOrder) /\ Len(resultOrder) <= MaxResults
        /\ ToSet(resultOrder) = {k \in Filter : resultCache[k] # None}
        /\ resultCache \in [Filter -> KeptResults \cup {None}]
        /\ \A k \in Filter : resultCache[k] # None => resultCache[k].loadedPage # 0
    BY DEF CacheFits
  <2>4. /\ order \in Seq(Filter) /\ OnceEach(order) /\ ToSet(order) = ToSet(resultOrder) \cup {key}
        /\ Len(order) <= Len(resultOrder) + 1
    BY <2>3, MovedMeans
  <2>5. MaxResults \in Nat \ {0} /\ Len(resultOrder) \in Nat
    BY <2>3, PageAssumption
  <2> HIDE DEF order, entry
  <2>6. /\ kept \in Seq(Filter) /\ OnceEach(kept) /\ ToSet(kept) \subseteq ToSet(order) /\ Len(kept) <= MaxResults
    <3>1. CASE Len(order) > MaxResults
      <4>1. order # <<>> /\ kept = Tail(order) /\ Len(order) \in Nat /\ DOMAIN order = 1 .. Len(order)
        BY <3>1, <2>4, <2>5
      <4>2. /\ kept \in Seq(Filter) /\ Len(kept) = Len(order) - 1
            /\ \A i \in 1 .. Len(kept) : kept[i] = order[i + 1]
        BY <4>1, <2>4, HeadTailProperties
      <4> HIDE DEF kept
      <4>3. Len(kept) \in Nat /\ DOMAIN kept = 1 .. Len(kept)
        BY <4>2
      <4>4. \A i \in DOMAIN kept : i + 1 \in DOMAIN order /\ kept[i] = order[i + 1] /\ i \in Int
        BY <4>1, <4>2, <4>3
      <4>5. ToSet(kept) \subseteq ToSet(order)
        BY <4>4 DEF ToSet
      <4>6. OnceEach(kept)
        <5> SUFFICES ASSUME NEW i \in DOMAIN kept, NEW j \in DOMAIN kept, kept[i] = kept[j] PROVE i = j
          BY DEF OnceEach
        <5>1. i + 1 = j + 1
          BY <4>4, <2>4 DEF OnceEach
        <5> QED
          BY <5>1, <4>4
      <4> QED
        BY <4>1, <4>2, <4>5, <4>6, <2>3, <2>4, <2>5
    <3>2. CASE ~(Len(order) > MaxResults)
      BY <3>2, <2>4, <2>5
    <3> QED
      BY <3>1, <3>2
  <2> HIDE DEF kept
  <2>7. \A k \in ToSet(kept) \ {key} : resultCache[k] # None
    BY <2>3, <2>4, <2>6
  <2>8. of \in [Filter -> KeptResults \cup {None}]
    BY <2>2, <2>3
  <2>9. \A k \in Filter : of[k] # None => of[k].loadedPage # 0
    BY <2>2, <2>3
  <2>10. ToSet(kept) \subseteq Filter
    BY <2>6 DEF ToSet
  <2>11. ToSet(kept) = {k \in Filter : of[k] # None}
    BY <2>2, <2>7, <2>10
  <2> HIDE DEF of
  <2>12. CacheFits(of, kept)
    BY <2>6, <2>8, <2>9, <2>11 DEF CacheFits
  <2> QED
    BY <2>1, <2>12
<1> QED
  BY <1>1, <1>2

LEMMA SwitchKeeps ==
    ASSUME LibraryPageInv, NEW key \in Filter
    PROVE  LET entry == Cached(activeKey, allBooks, pagination, page).of[key] IN
           /\ entry \in KeptResults \cup {None} /\ (entry # None => entry.loadedPage \in Nat \ {0})
           /\ SwitchResults(key) =>
                CacheFits(resultCache', resultOrder') /\ allBooks' \in Seq(Listing) /\ pagination' \in Pagination \cup {None}
<1> DEFINE cached == Cached(activeKey, allBooks, pagination, page)
           entry == cached.of[key]
<1>1. CacheFits(cached.of, cached.order)
  BY CachedFits DEF LibraryPageInv, PageTypes
<1>2. SwitchResults(key) <=>
        /\ resultCache' = cached.of
        /\ IF entry = None THEN resultOrder' = cached.order /\ UNCHANGED <<allBooks, pagination>>
           ELSE /\ resultOrder' = Moved(cached.order, key)
                /\ allBooks' = entry.books /\ pagination' = entry.pagination
  BY DEF SwitchResults
<1> HIDE DEF cached
<1>3. /\ entry \in KeptResults \cup {None}
      /\ entry # None => entry.loadedPage \in Nat \ {0} /\ entry.books \in Seq(Listing) /\ entry.pagination \in Pagination
  BY <1>1 DEF CacheFits, KeptResults
<1>4. ASSUME SwitchResults(key)
      PROVE  CacheFits(resultCache', resultOrder') /\ allBooks' \in Seq(Listing) /\ pagination' \in Pagination \cup {None}
  <2>1. CASE entry = None
    BY <2>1, <1>4, <1>2, <1>1 DEF LibraryPageInv, PageTypes
  <2>2. CASE entry # None
    <3>1. key \in ToSet(cached.order) /\ cached.order \in Seq(Filter) /\ OnceEach(cached.order) /\ Len(cached.order) <= MaxResults
      BY <2>2, <1>1 DEF CacheFits
    <3> DEFINE order == Moved(cached.order, key)
    <3>2. order \in Seq(Filter) /\ OnceEach(order) /\ ToSet(order) = ToSet(cached.order) \cup {key} /\ Len(order) <= Len(cached.order)
      BY <3>1, MovedMeans
    <3>3. resultCache' = cached.of /\ resultOrder' = order /\ allBooks' = entry.books /\ pagination' = entry.pagination
      BY <2>2, <1>4, <1>2
    <3> HIDE DEF order
    <3>4. Len(order) <= MaxResults
      <4>1. Len(order) \in Nat /\ Len(cached.order) \in Nat /\ MaxResults \in Nat
        BY <3>1, <3>2, PageAssumption
      <4> QED
        BY <4>1, <3>1, <3>2
    <3>5. CacheFits(cached.of, order)
      BY <3>1, <3>2, <3>4, <1>1 DEF CacheFits
    <3> QED
      BY <3>3, <3>5, <1>3, <2>2
  <2> QED
    BY <2>1, <2>2
<1> QED
  BY <1>3, <1>4 DEF cached

LEMMA CachingKeeps ==
    ASSUME LibraryPageInv, NEW books \in Seq(Listing), NEW info \in Pagination \cup {None},
           cacheResults(activeKey, books, info, page)
    PROVE  CacheFits(resultCache', resultOrder')
<1>1. CacheFits(Cached(activeKey, books, info, page).of, Cached(activeKey, books, info, page).order)
  BY CachedFits DEF LibraryPageInv, PageTypes
<1> QED
  BY <1>1 DEF cacheResults

LEMMA InfosAreInfos ==
    ASSUME NEW total \in Nat, NEW n \in Nat PROVE InfoOf(total, n) \in Pagination
<1>1. (n < PagesOf(total)) \in BOOLEAN
  OBVIOUS
<1> QED
  BY <1>1 DEF InfoOf, Pagination

LEMMA FoundIsAShelf ==
    ASSUME OwnShelf(myBooks), NEW f PROVE OwnShelf(foundIn(myBooks, f)) /\ matches(f) = foundIn(myBooks, f)
BY MatchesAreAShelf, Kinds

\* What is faithful stays so while nothing of it changes.
LEMMA FaithfulStays ==
    ASSUME Clear => Faithful, Clear' => Clear,
           UNCHANGED <<myBooks, mounted, filter, page, allBooks, pagination, tasks, request>>
    PROVE  (Clear => Faithful)'
BY DEF Faithful, NothingAwaited

LEMMA NewRequests ==
    ASSUME NEW n \in Nat \ {0}, NEW f \in Filter
    PROVE  /\ Request(n, f) \in LibraryRequest /\ Request(n, f) # None
           /\ Request(n, f).page = n /\ Request(n, f).filter = f /\ Request(n, f).step = "count"
<1>1. <<>> \in Seq(Listing)
  OBVIOUS
<1>2. Request(n, f) \in LibraryRequest
  BY <1>1 DEF Request, LibraryRequest
<1> QED
  BY <1>2, PageNulls DEF Request

\* A task begins to load pages 1 to target, on the page that is shown.
LEMMA SyncBegins ==
    ASSUME LibraryPageInv, NEW t \in Call, NEW target \in Nat, NEW mounting \in BOOLEAN,
           tasks[t] = None \/ t \in OfKind(tasks, "load"), mounted \/ t \in OfKind(tasks, "load") \/ NothingAwaited,
           filter' \in Filter, StartSync(t, filter', target, mounting),
           mounted', ~filterTimer', activeKey' = filter', mounted' \in BOOLEAN, filterTimer' \in BOOLEAN
    PROVE  /\ tasks' \in [Call -> PageTask \cup {None}]
           /\ request' \in LibraryRequest \cup {None} /\ (request' # None => request'.page # 0)
           /\ unsettled' \in BOOLEAN /\ page' \in Nat \ {0}
           /\ TasksFit(tasks', request', mounted', filterTimer')
           /\ KeyIsFilter' /\ (Clear => Faithful)'
<1> DEFINE new == Sync(2, target, mounting)
<1>1. /\ tasks' = [tasks EXCEPT ![t] = new] /\ request' = Request(1, filter') /\ page' = 1
      /\ unsettled' = \E u \in Syncs : tasks[u].target > 1 \/ target > 1
  BY DEF StartSync
<1>2. new \in PageTask /\ new # None /\ new.op = "sync" /\ new.next = 2 /\ new.target = target /\ new.waits
  BY SyncIsATask
<1> HIDE DEF new
<1>3. tasks \in [Call -> PageTask \cup {None}] /\ TasksFit(tasks, request, mounted, filterTimer)
  BY DEF LibraryPageInv, PageTypes
<1>4. tasks'[t] = new /\ (\A u \in Call \ {t} : tasks'[u] = tasks[u]) /\ tasks' \in [Call -> PageTask \cup {None}]
  BY <1>1, <1>2, <1>3
<1>5. /\ request' \in LibraryRequest /\ request' # None /\ request'.page = 1
      /\ request'.filter = filter' /\ request'.step = "count"
  BY <1>1, NewRequests
<1>6. OfKind(tasks', "sync") = OfKind(tasks, "sync") \cup {t}
  BY <1>2, <1>4 DEF OfKind
<1>7. t \notin OfKind(tasks, "sync")
  BY DEF OfKind
<1>8. OfKind(tasks', "load") = {}
  <2>1. ASSUME NEW u \in OfKind(tasks', "load") PROVE FALSE
    <3>1. u # t /\ u \in OfKind(tasks, "load")
      BY <2>1, <1>2, <1>4 DEF OfKind
    <3>2. CASE mounted
      BY <3>1, <3>2, <1>3 DEF TasksFit
    <3>3. CASE t \in OfKind(tasks, "load")
      BY <3>1, <3>3, <1>3 DEF TasksFit
    <3>4. CASE NothingAwaited
      BY <3>1, <3>4 DEF NothingAwaited, OfKind
    <3> QED
      BY <3>2, <3>3, <3>4
  <2> QED
    BY <2>1
<1>9. TasksFit(tasks', request', mounted', filterTimer')
  <2>1. \A u \in OfKind(tasks', "sync") : tasks'[u].next >= 2
    <3> SUFFICES ASSUME NEW u \in OfKind(tasks', "sync") PROVE tasks'[u].next >= 2
      OBVIOUS
    <3>1. CASE u = t
      BY <3>1, <1>2, <1>4
    <3>2. CASE u # t
      <4>1. u \in OfKind(tasks, "sync") /\ tasks'[u] = tasks[u]
        BY <3>2, <1>4, <1>6 DEF OfKind
      <4> QED
        BY <4>1, <1>3 DEF TasksFit
    <3> QED
      BY <3>1, <3>2
  <2>2. tasks'[t] # None /\ tasks'[t].waits
    BY <1>2, <1>4
  <2> QED
    BY <1>5, <1>8, <2>1, <2>2 DEF TasksFit
<1>10. ASSUME Clear' PROVE SyncsFit(tasks', page', request')
  <2>1. ASSUME NEW u \in Syncs PROVE ~(tasks[u].target > 1 \/ target > 1)
    BY <1>1, <1>10 DEF Clear
  <2> SUFFICES ASSUME NEW u \in OfKind(tasks', "sync"), tasks'[u].target > 1
               PROVE  /\ tasks'[u].next = page' + 1
                      /\ \A v \in OfKind(tasks', "sync") : v = u
                      /\ ~tasks'[u].waits => request' = None
    BY DEF SyncsFit
  <2>2. u = t
    <3>1. ASSUME u # t PROVE FALSE
      <4>1. u \in Syncs /\ tasks'[u] = tasks[u]
        BY <3>1, <1>4, <1>6, Kinds DEF OfKind
      <4> QED
        BY <4>1, <2>1
    <3> QED
      BY <3>1
  <2>3. target > 1
    BY <2>2, <1>2, <1>4
  <2>4. OfKind(tasks, "sync") = {}
    BY <2>1, <2>3, Kinds
  <2>5. OfKind(tasks', "sync") = {t}
    BY <2>4, <1>6
  <2>6. tasks'[u].next = 2 /\ page' = 1 /\ tasks'[u].waits
    BY <2>2, <1>1, <1>2, <1>4
  <2> QED
    BY <2>2, <2>5, <2>6
<1>11. ASSUME Clear' PROVE Faithful'
  <2>1. RequestFits(request', foundIn(myBooks', filter'), filter', page', allBooks')
    BY <1>1, <1>5 DEF RequestFits
  <2> QED
    BY <2>1, <1>5, <1>10, <1>11 DEF Faithful
<1>12. KeyIsFilter'
  BY DEF KeyIsFilter
<1>13. unsettled' \in BOOLEAN
  <2> DEFINE crossed == \E u \in Syncs : tasks[u].target > 1 \/ target > 1
  <2>1. crossed \in BOOLEAN
    OBVIOUS
  <2>2. unsettled' = crossed
    BY <1>1
  <2> HIDE DEF crossed
  <2> QED
    BY <2>1, <2>2
<1>14. (Clear => Faithful)'
  BY <1>11
<1>15. page' \in Nat \ {0} /\ request' \in LibraryRequest \cup {None} /\ (request' # None => request'.page # 0)
  <2>1. page' = 1
    BY <1>1
  <2> QED
    BY <2>1, <1>5
<1> QED
  BY <1>4, <1>9, <1>12, <1>13, <1>14, <1>15

-----------------------------------------------------------------------------
\* What a step leaves alone.
LEMMA TypesStay ==
    ASSUME PageTypes, UNCHANGED <<serverVars, routeFilter, mounted, filter, activeKey>>
    PROVE  /\ OwnShelf(myBooks') /\ preference' \in BOOLEAN
           /\ routeFilter' \in Filter \cup {None} /\ mounted' \in BOOLEAN
           /\ filter' \in Filter /\ activeKey' \in Filter
BY DEF PageTypes, serverVars

LEMMA RequestMoves ==
    ASSUME LibraryPageInv, request # None,
           UNCHANGED <<serverVars, routeFilter, mounted, storeVars, timerVars, tasks, unsettled>>,
           request' \in LibraryRequest, request'.page = request.page, request'.filter = request.filter,
           Clear => RequestFits(request', foundIn(myBooks, filter), filter, page, allBooks)
    PROVE  LibraryPageInv'
<1>1. /\ myBooks' = myBooks /\ preference' = preference /\ routeFilter' = routeFilter /\ mounted' = mounted
      /\ filter' = filter /\ page' = page /\ allBooks' = allBooks /\ pagination' = pagination /\ activeKey' = activeKey
      /\ resultCache' = resultCache /\ resultOrder' = resultOrder /\ syncTarget' = syncTarget /\ adding' = adding
      /\ filterTimer' = filterTimer /\ preferenceTimer' = preferenceTimer /\ tasks' = tasks /\ unsettled' = unsettled
  BY DEF serverVars, storeVars, timerVars
<1>2. request' # None
  BY PageNulls
<1>3. PageTypes'
  BY <1>1 DEF LibraryPageInv, PageTypes
<1>4. CacheFits(resultCache', resultOrder') /\ TasksFit(tasks', request', mounted', filterTimer')
  BY <1>1, <1>2 DEF LibraryPageInv, TasksFit
<1>5. KeyIsFilter'
  BY <1>1, <1>2 DEF LibraryPageInv, KeyIsFilter, NothingAwaited
<1>6. Clear' => Clear
  BY <1>1 DEF Clear
<1>7. ASSUME Clear' PROVE Faithful'
  <2>1. SyncsFit(tasks', page', request')
    <3>1. SyncsFit(tasks, page, request)
      BY <1>6, <1>7 DEF LibraryPageInv, Faithful
    <3> QED
      BY <3>1, <1>1 DEF SyncsFit
  <2> QED
    BY <2>1, <1>1, <1>2, <1>6, <1>7 DEF Faithful
<1> QED
  BY <1>3, <1>4, <1>5, <1>7 DEF LibraryPageInv

LEMMA getLibraryCountKeeps ==
    ASSUME LibraryPageInv, getLibraryCount PROVE LibraryPageInv'
<1>1. /\ request # None /\ request.step = "count" /\ request \in LibraryRequest
      /\ request' = [request EXCEPT !.step = "items", !.total = Len(matches(request.filter))]
      /\ UNCHANGED <<serverVars, routeFilter, mounted, storeVars, timerVars, tasks, unsettled>>
  BY DEF getLibraryCount, LibraryPageInv, PageTypes
<1> DEFINE total == Len(matches(request.filter))
<1>2. total \in Nat /\ total = Len(foundIn(myBooks, request.filter))
  <2>1. OwnShelf(matches(request.filter)) /\ matches(request.filter) = foundIn(myBooks, request.filter)
    BY FoundIsAShelf, Kinds, MatchesAreAShelf DEF LibraryPageInv, PageTypes
  <2> QED
    BY <2>1 DEF OwnShelf
<1> HIDE DEF total
<1>3. /\ request' \in LibraryRequest /\ request'.page = request.page /\ request'.filter = request.filter
      /\ request'.step = "items" /\ request'.total = total
  BY <1>1, <1>2 DEF LibraryRequest, total
<1>4. Clear => RequestFits(request', foundIn(myBooks, filter), filter, page, allBooks)
  <2> SUFFICES ASSUME Clear PROVE RequestFits(request', foundIn(myBooks, filter), filter, page, allBooks)
    OBVIOUS
  <2>1. RequestFits(request, foundIn(myBooks, filter), filter, page, allBooks)
    BY <1>1 DEF LibraryPageInv, Faithful
  <2> QED
    BY <2>1, <1>2, <1>3 DEF RequestFits
<1> QED
  BY <1>1, <1>3, <1>4, RequestMoves

LEMMA getLibraryItemsKeeps ==
    ASSUME LibraryPageInv, getLibraryItems PROVE LibraryPageInv'
<1> DEFINE books == pageOf(matches(request.filter), request.page)
<1>1. /\ request # None /\ request.step = "items" /\ request \in LibraryRequest /\ request.page # 0
      /\ request' = [request EXCEPT !.step = "back", !.books = books]
      /\ UNCHANGED <<serverVars, routeFilter, mounted, storeVars, timerVars, tasks, unsettled>>
  BY DEF getLibraryItems, LibraryPageInv, PageTypes
<1>2. books \in Seq(Listing) /\ books = pageOf(foundIn(myBooks, request.filter), request.page)
  <2>1. OwnShelf(matches(request.filter)) /\ matches(request.filter) = foundIn(myBooks, request.filter)
    BY FoundIsAShelf, Kinds, MatchesAreAShelf DEF LibraryPageInv, PageTypes
  <2>2. request.page \in Nat \ {0}
    BY <1>1 DEF LibraryRequest
  <2> QED
    BY <2>1, <2>2, PagesAreShelves DEF OwnShelf
<1> HIDE DEF books
<1>3. /\ request' \in LibraryRequest /\ request'.page = request.page /\ request'.filter = request.filter
      /\ request'.step = "back" /\ request'.total = request.total /\ request'.books = books
  BY <1>1, <1>2 DEF LibraryRequest
<1>4. Clear => RequestFits(request', foundIn(myBooks, filter), filter, page, allBooks)
  <2> SUFFICES ASSUME Clear PROVE RequestFits(request', foundIn(myBooks, filter), filter, page, allBooks)
    OBVIOUS
  <2>1. RequestFits(request, foundIn(myBooks, filter), filter, page, allBooks)
    BY <1>1 DEF LibraryPageInv, Faithful
  <2> QED
    BY <2>1, <1>1, <1>2, <1>3 DEF RequestFits
<1> QED
  BY <1>1, <1>3, <1>4, RequestMoves

LEMMA AnswersReach ==
    ASSUME LibraryPageInv, tasks' = Answered
    PROVE  /\ tasks' \in [Call -> PageTask \cup {None}]
           /\ \A kind : OfKind(tasks', kind) = OfKind(tasks, kind)
           /\ \A t \in Call : /\ tasks'[t] # None <=> tasks[t] # None
                              /\ tasks'[t] # None => ~tasks'[t].waits
           /\ \A t \in OfKind(tasks, "sync") :
                tasks'[t].next = tasks[t].next /\ tasks'[t].target = tasks[t].target
<1>1. tasks' = [t \in Call |-> IF tasks[t] = None THEN None ELSE [tasks[t] EXCEPT !.waits = FALSE]]
  BY DEF Answered
<1>2. tasks \in [Call -> PageTask \cup {None}]
  BY DEF LibraryPageInv, PageTypes
<1>3. \A t \in Call : tasks[t] = None => tasks'[t] = None
  BY <1>1
<1>4. \A t \in Call : tasks[t] # None => tasks[t] \in PageTask /\ tasks'[t] = [tasks[t] EXCEPT !.waits = FALSE]
  BY <1>1, <1>2
<1>5. ASSUME NEW t \in Call, tasks[t] # None
      PROVE  /\ tasks'[t] \in PageTask /\ tasks'[t] # None /\ tasks'[t].op = tasks[t].op /\ ~tasks'[t].waits
             /\ tasks[t].op = "sync" => tasks'[t].next = tasks[t].next /\ tasks'[t].target = tasks[t].target
  <2>1. tasks[t] \in PageTask /\ tasks'[t] = [tasks[t] EXCEPT !.waits = FALSE]
    BY <1>4, <1>5
  <2>2. LET y == [tasks[t] EXCEPT !.waits = FALSE] IN
              /\ y \in PageTask /\ y.op = tasks[t].op /\ y.waits = FALSE
              /\ tasks[t].op = "sync" => y.next = tasks[t].next /\ y.target = tasks[t].target
    BY <2>1, TaskKinds
  <2> QED
    BY <2>1, <2>2, PageNulls
<1>6. DOMAIN tasks' = Call /\ tasks' = [t \in Call |-> tasks'[t]]
  BY <1>1
<1>7. \A t \in Call : tasks'[t] \in PageTask \cup {None}
  BY <1>3, <1>5
<1>8. tasks' \in [Call -> PageTask \cup {None}]
  BY <1>6, <1>7
<1>9. \A kind : OfKind(tasks', kind) = OfKind(tasks, kind)
  BY <1>3, <1>5 DEF OfKind
<1> QED
  BY <1>3, <1>5, <1>8, <1>9 DEF OfKind

\* The request is over.
LEMMA RequestEnds ==
    ASSUME LibraryPageInv, request # None, request' = None, tasks' = Answered,
           UNCHANGED <<mounted, filter, activeKey, filterTimer>>
    PROVE  TasksFit(tasks', request', mounted', filterTimer') /\ KeyIsFilter'
<1>1. /\ \A kind : OfKind(tasks', kind) = OfKind(tasks, kind)
      /\ \A t \in Call : tasks'[t] # None => ~tasks'[t].waits
      /\ \A t \in OfKind(tasks, "sync") : tasks'[t].next = tasks[t].next
  BY AnswersReach
<1>2. TasksFit(tasks, request, mounted, filterTimer) /\ KeyIsFilter
  BY DEF LibraryPageInv
<1>3. TasksFit(tasks', request', mounted', filterTimer')
  BY <1>1, <1>2 DEF TasksFit
<1>4. KeyIsFilter'
  BY <1>2 DEF KeyIsFilter, NothingAwaited
<1> QED
  BY <1>3, <1>4

LEMMA refreshFailsKeeps ==
    ASSUME LibraryPageInv, refreshFails PROVE LibraryPageInv'
<1>1. /\ request # None /\ request' = None /\ tasks' = Answered /\ unsettled'
      /\ unsettled' = TRUE
      /\ UNCHANGED <<serverVars, routeFilter, mounted, storeVars, timerVars, pageOps>>
  BY DEF refreshFails
<1>2. /\ myBooks' = myBooks /\ preference' = preference /\ routeFilter' = routeFilter /\ mounted' = mounted
      /\ filter' = filter /\ page' = page /\ allBooks' = allBooks /\ pagination' = pagination /\ activeKey' = activeKey
      /\ resultCache' = resultCache /\ resultOrder' = resultOrder /\ syncTarget' = syncTarget /\ adding' = adding
      /\ filterTimer' = filterTimer /\ preferenceTimer' = preferenceTimer
  BY <1>1 DEF serverVars, storeVars, timerVars
<1>3. TasksFit(tasks', request', mounted', filterTimer') /\ KeyIsFilter'
  BY <1>1, <1>2, RequestEnds
<1>4. tasks' \in [Call -> PageTask \cup {None}]
  BY <1>1, AnswersReach
<1>5. PageTypes'
  BY <1>1, <1>2, <1>4 DEF LibraryPageInv, PageTypes
<1>6. ~Clear'
  BY <1>1 DEF Clear
<1> QED
  BY <1>2, <1>3, <1>5, <1>6 DEF LibraryPageInv

LEMMA refreshReturnsKeeps ==
    ASSUME LibraryPageInv, refreshReturns PROVE LibraryPageInv'
<1> DEFINE info == InfoOf(request.total, request.page)
           books == BooksWith(page, request.books)
           found == foundIn(myBooks, filter)
<1>1. /\ request # None /\ request.step = "back" /\ request' = None /\ tasks' = Answered
      /\ pagination' = info /\ allBooks' = books /\ cacheResults(activeKey, books, info, page)
      /\ UNCHANGED <<serverVars, routeFilter, mounted, filter, page, activeKey, syncTarget, adding, timerVars, unsettled>>
  BY DEF refreshReturns
<1>2. /\ myBooks' = myBooks /\ preference' = preference /\ routeFilter' = routeFilter /\ mounted' = mounted
      /\ filter' = filter /\ page' = page /\ activeKey' = activeKey /\ syncTarget' = syncTarget /\ adding' = adding
      /\ filterTimer' = filterTimer /\ preferenceTimer' = preferenceTimer /\ unsettled' = unsettled
  BY <1>1 DEF serverVars, timerVars
<1>3. request \in LibraryRequest /\ request.total \in Nat /\ request.page \in Nat \ {0} /\ request.books \in Seq(Listing)
  BY <1>1 DEF LibraryPageInv, PageTypes, LibraryRequest
<1>4. page \in Nat \ {0} /\ allBooks \in Seq(Listing) /\ OwnShelf(myBooks)
  BY DEF LibraryPageInv, PageTypes
<1>5. info \in Pagination
  BY <1>3, InfosAreInfos
<1>6. /\ page = 1 => books = request.books
      /\ page # 1 => books = allBooks \o Without(request.books, ToSet(allBooks))
  BY DEF BooksWith
<1>7. books \in Seq(Listing)
  <2>1. Without(request.books, ToSet(allBooks)) \in Seq(Listing)
    BY <1>3, WithoutMeans
  <2> HIDE DEF books
  <2> QED
    BY <2>1, <1>3, <1>4, <1>6, ConcatProperties
<1>8. CacheFits(resultCache', resultOrder')
  BY <1>1, <1>5, <1>7, CachingKeeps
<1>9. TasksFit(tasks', request', mounted', filterTimer') /\ KeyIsFilter'
  BY <1>1, <1>2, RequestEnds
<1>10. /\ tasks' \in [Call -> PageTask \cup {None}]
       /\ \A kind : OfKind(tasks', kind) = OfKind(tasks, kind)
       /\ \A t \in OfKind(tasks, "sync") :
                tasks'[t].next = tasks[t].next /\ tasks'[t].target = tasks[t].target
  BY <1>1, AnswersReach
<1> HIDE DEF info, books, found
<1>11. PageTypes'
  BY <1>1, <1>2, <1>5, <1>7, <1>10 DEF LibraryPageInv, PageTypes
<1>12. ASSUME Clear' PROVE Faithful'
  <2>1. Clear
    BY <1>2, <1>10, <1>12 DEF Clear
  <2>2. RequestFits(request, found, filter, page, allBooks) /\ SyncsFit(tasks, page, request)
    BY <2>1, <1>1 DEF LibraryPageInv, Faithful, found
  <2>3. OwnShelf(found)
    BY <1>4, FoundIsAShelf DEF found
  <2>4. books = firstPages(found, page)
    <3>1. CASE page = 1
      BY <3>1, <1>1, <1>6, <2>2, <2>3, PagesAreShelves DEF RequestFits, OwnShelf
    <3>2. CASE page # 1
      <4>1. page > 1 /\ page \in Nat \ {0, 1}
        BY <3>2, <1>4
      <4>2. allBooks = firstPages(found, page - 1) /\ request.books = pageOf(found, page)
        BY <4>1, <1>1, <2>2 DEF RequestFits
      <4> QED
        BY <4>1, <4>2, <3>2, <1>6, <2>3, NextPage
    <3> QED
      BY <3>1, <3>2
  <2>5. info = InfoOf(Len(found), page)
    BY <2>2, <1>1 DEF RequestFits, info
  <2>6. Right(foundIn(myBooks', filter'), page', allBooks', pagination')
    BY <2>4, <2>5, <1>1, <1>2 DEF Right, found
  <2>7. SyncsFit(tasks', page', request')
    BY <2>2, <1>1, <1>2, <1>10 DEF SyncsFit
  <2> QED
    BY <2>6, <2>7, <1>1 DEF Faithful
<1> QED
  BY <1>8, <1>9, <1>11, <1>12 DEF LibraryPageInv

-----------------------------------------------------------------------------
\* The pages shown, when nothing is awaited of the server.
LEMMA MoreMeansRight ==
    ASSUME LibraryPageInv, Clear, request = None, HasMore
    PROVE  Right(foundIn(myBooks, filter), page, allBooks, pagination)
BY DEF LibraryPageInv, Faithful, HasMore

LEMMA syncLoadedPagesKeeps ==
    ASSUME LibraryPageInv, NEW t \in Call, syncLoadedPages(t) PROVE LibraryPageInv'
<1>1. /\ t \in Syncs /\ ~tasks[t].waits
      /\ tasks[t].next <= tasks[t].target /\ HasMore
      /\ page' = tasks[t].next /\ request' = Request(page', filter)
      /\ tasks' = [tasks EXCEPT ![t] = Sync(@.next + 1, @.target, @.mounting)]
      /\ UNCHANGED <<serverVars, routeFilter, mounted, filter, allBooks, pagination, activeKey, resultCache, resultOrder,
                     syncTarget, adding, timerVars, unsettled>>
  BY DEF syncLoadedPages, HasNext
<1>2. /\ myBooks' = myBooks /\ preference' = preference /\ routeFilter' = routeFilter /\ mounted' = mounted
      /\ filter' = filter /\ allBooks' = allBooks /\ pagination' = pagination /\ activeKey' = activeKey
      /\ resultCache' = resultCache /\ resultOrder' = resultOrder /\ syncTarget' = syncTarget /\ adding' = adding
      /\ filterTimer' = filterTimer /\ preferenceTimer' = preferenceTimer /\ unsettled' = unsettled
  BY <1>1 DEF serverVars, timerVars
<1>3. tasks \in [Call -> PageTask \cup {None}] /\ TasksFit(tasks, request, mounted, filterTimer) /\ filter \in Filter
  BY DEF LibraryPageInv, PageTypes
<1>4. t \in OfKind(tasks, "sync") /\ tasks[t] \in PageTask /\ tasks[t] # None /\ tasks[t].op = "sync"
  BY <1>1, <1>3, Kinds DEF OfKind
<1>5. tasks[t].next \in Nat /\ tasks[t].next >= 2 /\ tasks[t].target \in Nat /\ tasks[t].target > 1
  <2>1. tasks[t].next \in Nat /\ tasks[t].target \in Nat
    BY <1>4, TaskKinds
  <2>2. tasks[t].next >= 2
    BY <1>3, <1>4 DEF TasksFit
  <2> QED
    BY <2>1, <2>2, <1>1
<1> DEFINE new == Sync(tasks[t].next + 1, tasks[t].target, tasks[t].mounting)
<1>6. /\ new \in PageTask /\ new # None /\ new.op = "sync" /\ new.waits
      /\ new.next = tasks[t].next + 1 /\ new.target = tasks[t].target
  <2>1. tasks[t].mounting \in BOOLEAN
    BY <1>4, TaskKinds
  <2>2. tasks[t].next + 1 \in Nat /\ tasks[t].target \in Nat
    BY <1>5
  <2> QED
    BY <2>1, <2>2, SyncIsATask
<1>7. tasks' = [tasks EXCEPT ![t] = new]
  BY <1>1
<1> HIDE DEF new
<1>8. tasks'[t] = new /\ (\A u \in Call \ {t} : tasks'[u] = tasks[u]) /\ tasks' \in [Call -> PageTask \cup {None}]
  BY <1>3, <1>6, <1>7
<1>9. \A kind : OfKind(tasks', kind) = OfKind(tasks, kind)
  BY <1>4, <1>6, <1>8 DEF OfKind
<1>10. /\ request' \in LibraryRequest /\ request' # None /\ request'.page = page'
       /\ request'.filter = filter /\ request'.step = "count" /\ page' \in Nat \ {0} /\ page' > 1
  BY <1>1, <1>3, <1>5, NewRequests
<1>11. PageTypes'
  BY <1>2, <1>8, <1>10 DEF LibraryPageInv, PageTypes
<1>12. TasksFit(tasks', request', mounted', filterTimer')
  <2>1. ASSUME NEW u \in OfKind(tasks', "sync") PROVE tasks'[u].next >= 2
    <3>1. CASE u = t
      BY <3>1, <1>5, <1>6, <1>8
    <3>2. CASE u # t
      BY <3>2, <1>3, <1>8, <1>9 DEF TasksFit, OfKind
    <3> QED
      BY <3>1, <3>2
  <2>2. tasks'[t] # None /\ tasks'[t].waits
    BY <1>6, <1>8
  <2> QED
    BY <2>1, <2>2, <1>2, <1>3, <1>9, <1>10 DEF TasksFit
<1>13. KeyIsFilter'
  BY <1>2, <1>4 DEF LibraryPageInv, KeyIsFilter, NothingAwaited
<1>14. ASSUME Clear' PROVE Faithful'
  <2>1. Clear
    BY <1>2, <1>9, <1>14 DEF Clear
  <2>2. SyncsFit(tasks, page, request)
    BY <2>1 DEF LibraryPageInv, Faithful
  <2>3. tasks[t].next = page + 1 /\ (\A u \in OfKind(tasks, "sync") : u = t) /\ request = None
    BY <2>2, <1>1, <1>4, <1>5 DEF SyncsFit
  <2>4. Right(foundIn(myBooks, filter), page, allBooks, pagination)
    BY <2>1, <2>3, <1>1, MoreMeansRight
  <2>5. page \in Nat /\ page' - 1 = page
    BY <2>3, <1>1 DEF LibraryPageInv, PageTypes
  <2>6. RequestFits(request', foundIn(myBooks', filter'), filter', page', allBooks')
    BY <2>4, <2>5, <1>2, <1>10 DEF RequestFits, Right
  <2>7. SyncsFit(tasks', page', request')
    <3>1. tasks'[t].next = page' + 1 /\ tasks'[t].waits
      BY <1>1, <1>6, <1>8
    <3> QED
      BY <3>1, <2>3, <1>9 DEF SyncsFit
  <2> QED
    BY <2>6, <2>7, <1>10 DEF Faithful
<1> QED
  BY <1>2, <1>11, <1>12, <1>13, <1>14 DEF LibraryPageInv

LEMMA TaskEndsKeeps ==
    ASSUME LibraryPageInv, NEW t \in Call, TaskEnds(t) PROVE LibraryPageInv'
<1>1. /\ t \in Syncs \cup Mores /\ ~tasks[t].waits /\ (t \in Syncs => ~HasNext(t))
      /\ tasks' = [tasks EXCEPT ![t] = None]
      /\ syncTarget' = IF tasks[t].mounting THEN 0 ELSE syncTarget
      /\ UNCHANGED <<serverVars, routeFilter, mounted, filter, page, allBooks, pagination, activeKey, resultCache, resultOrder,
                     adding, timerVars, request, unsettled>>
  BY DEF TaskEnds
<1>2. /\ myBooks' = myBooks /\ preference' = preference /\ routeFilter' = routeFilter /\ mounted' = mounted
      /\ filter' = filter /\ page' = page /\ allBooks' = allBooks /\ pagination' = pagination /\ activeKey' = activeKey
      /\ resultCache' = resultCache /\ resultOrder' = resultOrder /\ adding' = adding /\ request' = request
      /\ filterTimer' = filterTimer /\ preferenceTimer' = preferenceTimer /\ unsettled' = unsettled
  BY <1>1 DEF serverVars, timerVars
<1>3. tasks \in [Call -> PageTask \cup {None}] /\ TasksFit(tasks, request, mounted, filterTimer) /\ syncTarget \in Nat
  BY DEF LibraryPageInv, PageTypes
<1>4. tasks'[t] = None /\ (\A u \in Call \ {t} : tasks'[u] = tasks[u]) /\ tasks' \in [Call -> PageTask \cup {None}]
  BY <1>1, <1>3
<1>5. \A kind : OfKind(tasks', kind) = OfKind(tasks, kind) \ {t}
  BY <1>4 DEF OfKind
<1>6. syncTarget' \in Nat
  BY <1>1, <1>3
<1>7. PageTypes'
  BY <1>2, <1>4, <1>6 DEF LibraryPageInv, PageTypes
<1>8. TasksFit(tasks', request', mounted', filterTimer')
  <2>1. ASSUME NEW u \in OfKind(tasks', "sync") PROVE tasks'[u].next >= 2
    BY <2>1, <1>3, <1>4, <1>5 DEF TasksFit, OfKind
  <2>2. request' = None => \A u \in Call : tasks'[u] # None => ~tasks'[u].waits
    BY <1>2, <1>3, <1>4 DEF TasksFit
  <2>3. request' # None => \E u \in Call : tasks'[u] # None /\ tasks'[u].waits
    BY <1>1, <1>2, <1>3, <1>4 DEF TasksFit
  <2> QED
    BY <2>1, <2>2, <2>3, <1>2, <1>3, <1>5 DEF TasksFit
<1>9. mounted
  <2>1. t \in OfKind(tasks, "sync") \cup OfKind(tasks, "more")
    BY <1>1, Kinds
  <2> QED
    BY <2>1, <1>3 DEF TasksFit
<1>10. KeyIsFilter'
  BY <1>2, <1>9 DEF LibraryPageInv, KeyIsFilter
<1>11. Clear' => Clear
  <2> SUFFICES ASSUME Clear', OfKind(tasks, "sync") = {} PROVE Clear
    BY <1>2, <1>5 DEF Clear
  <2>1. t \in OfKind(tasks, "more")
    BY <1>1, Kinds
  <2>2. syncTarget' = 0 /\ adding = 0
    BY <1>2, <1>5 DEF Clear
  <2>3. syncTarget = 0
    <3>1. ~tasks[t].mounting
      BY <2>1, <1>3, TaskKinds DEF OfKind
    <3> QED
      BY <3>1, <2>2, <1>1
  <2> QED
    BY <2>2, <2>3, <1>2 DEF Clear
<1>12. ASSUME Clear' PROVE Faithful'
  <2>1. Faithful
    BY <1>11, <1>12 DEF LibraryPageInv
  <2>2. SyncsFit(tasks', page', request')
    BY <2>1, <1>2, <1>4, <1>5 DEF Faithful, SyncsFit, OfKind
  <2> QED
    BY <2>1, <2>2, <1>2, <1>9 DEF Faithful
<1> QED
  BY <1>2, <1>7, <1>8, <1>10, <1>12 DEF LibraryPageInv

LEMMA loadMoreKeeps ==
    ASSUME LibraryPageInv, NEW t \in Call, loadMore(t) PROVE LibraryPageInv'
<1> DEFINE new == [op |-> "more", mounting |-> FALSE, waits |-> TRUE]
<1>1. /\ mounted /\ tasks[t] = None /\ HasMore /\ Mores = {}
      /\ page' = page + 1 /\ request' = Request(page', filter)
      /\ tasks' = [tasks EXCEPT ![t] = new]
      /\ unsettled' = (unsettled \/ Syncs # {})
      /\ UNCHANGED <<serverVars, routeFilter, mounted, filter, allBooks, pagination, activeKey, resultCache, resultOrder,
                     syncTarget, adding, timerVars>>
  BY DEF loadMore
<1>2. /\ myBooks' = myBooks /\ preference' = preference /\ routeFilter' = routeFilter /\ mounted' = mounted
      /\ filter' = filter /\ allBooks' = allBooks /\ pagination' = pagination /\ activeKey' = activeKey
      /\ resultCache' = resultCache /\ resultOrder' = resultOrder /\ syncTarget' = syncTarget /\ adding' = adding
      /\ filterTimer' = filterTimer /\ preferenceTimer' = preferenceTimer
  BY <1>1 DEF serverVars, timerVars
<1>3. /\ tasks \in [Call -> PageTask \cup {None}] /\ TasksFit(tasks, request, mounted, filterTimer)
      /\ filter \in Filter /\ page \in Nat \ {0} /\ unsettled \in BOOLEAN
  BY DEF LibraryPageInv, PageTypes
<1>4. new \in PageTask /\ new # None /\ new.op = "more" /\ new.waits
  <2>1. new \in PageTask
    BY DEF PageTask
  <2> QED
    BY <2>1, PageNulls
<1> HIDE DEF new
<1>5. tasks'[t] = new /\ (\A u \in Call \ {t} : tasks'[u] = tasks[u]) /\ tasks' \in [Call -> PageTask \cup {None}]
  BY <1>1, <1>3, <1>4
<1>6. OfKind(tasks', "sync") = OfKind(tasks, "sync") /\ OfKind(tasks', "load") = OfKind(tasks, "load")
  BY <1>1, <1>4, <1>5 DEF OfKind
<1>7. /\ request' \in LibraryRequest /\ request' # None /\ request'.page = page'
      /\ request'.filter = filter /\ request'.step = "count" /\ page' \in Nat \ {0} /\ page' > 1 /\ page' - 1 = page
  BY <1>1, <1>3, NewRequests
<1>8. unsettled' \in BOOLEAN
  <2> DEFINE crossed == unsettled \/ Syncs # {}
  <2>1. crossed \in BOOLEAN /\ unsettled' = crossed
    BY <1>1
  <2> HIDE DEF crossed
  <2> QED
    BY <2>1
<1>9. PageTypes'
  BY <1>2, <1>5, <1>7, <1>8 DEF LibraryPageInv, PageTypes
<1>10. TasksFit(tasks', request', mounted', filterTimer')
  <2>1. tasks'[t] # None /\ tasks'[t].waits
    BY <1>4, <1>5
  <2>2. ASSUME NEW u \in OfKind(tasks', "sync") PROVE tasks'[u].next >= 2
    <3>1. u \in OfKind(tasks, "sync") /\ tasks'[u] = tasks[u]
      BY <1>1, <1>5, <1>6 DEF OfKind
    <3> QED
      BY <3>1, <1>3 DEF TasksFit
  <2>3. OfKind(tasks', "load") = {} /\ mounted'
    BY <1>1, <1>2, <1>3, <1>6 DEF TasksFit
  <2>4. request' # None
    BY <1>7
  <2> QED
    BY <2>1, <2>2, <2>3, <2>4 DEF TasksFit
<1>11. KeyIsFilter'
  BY <1>1, <1>2 DEF LibraryPageInv, KeyIsFilter
<1>12. ASSUME Clear' PROVE Faithful'
  <2>1. ~unsettled /\ OfKind(tasks, "sync") = {} /\ Clear
    BY <1>1, <1>2, <1>6, <1>12, Kinds DEF Clear
  <2>2. request = None
    <3>1. ASSUME NEW u \in Call, tasks[u] # None PROVE FALSE
      <4>1. tasks[u].op \in {"sync", "more", "load"}
        BY <3>1, <1>3, TaskKinds
      <4>2. OfKind(tasks, "load") = {} /\ OfKind(tasks, "more") = {}
        BY <1>1, <1>3, Kinds DEF TasksFit
      <4> QED
        BY <4>1, <4>2, <3>1, <2>1 DEF OfKind
    <3> QED
      BY <3>1, <1>3 DEF TasksFit
  <2>3. Right(foundIn(myBooks, filter), page, allBooks, pagination)
    BY <2>1, <2>2, <1>1, MoreMeansRight
  <2>4. RequestFits(request', foundIn(myBooks', filter'), filter', page', allBooks')
    BY <2>3, <1>2, <1>7 DEF RequestFits, Right
  <2>5. SyncsFit(tasks', page', request')
    BY <2>1, <1>6 DEF SyncsFit
  <2> QED
    BY <2>4, <2>5, <1>7 DEF Faithful
<1> QED
  BY <1>2, <1>9, <1>10, <1>11, <1>12 DEF LibraryPageInv

-----------------------------------------------------------------------------
LEMMA applyFiltersKeeps ==
    ASSUME LibraryPageInv, NEW t \in Call, applyFilters(t), mounted, filter' \in Filter PROVE LibraryPageInv'
<1> DEFINE entry == Cached(activeKey, allBooks, pagination, page).of[filter']
           target == IF entry = None THEN 1 ELSE entry.loadedPage
<1>1. /\ tasks[t] = None /\ SwitchResults(filter')
      /\ StartSync(t, filter', target, FALSE)
      /\ activeKey' = filter' /\ routeFilter' = filter' /\ filterTimer' = FALSE
      /\ UNCHANGED <<serverVars, mounted, syncTarget, adding, preferenceTimer>>
  BY DEF applyFilters
<1>2. /\ myBooks' = myBooks /\ preference' = preference /\ mounted' = mounted
      /\ syncTarget' = syncTarget /\ adding' = adding /\ preferenceTimer' = preferenceTimer
  BY <1>1 DEF serverVars
<1>3. /\ entry \in KeptResults \cup {None} /\ (entry # None => entry.loadedPage \in Nat \ {0})
      /\ CacheFits(resultCache', resultOrder') /\ allBooks' \in Seq(Listing) /\ pagination' \in Pagination \cup {None}
  BY <1>1, SwitchKeeps
<1>4. target \in Nat
  BY <1>3
<1> HIDE DEF entry, target
<1>5. mounted' \in BOOLEAN /\ mounted' /\ filterTimer' \in BOOLEAN /\ ~filterTimer'
  <2>1. mounted \in BOOLEAN
    BY DEF LibraryPageInv, PageTypes
  <2>2. mounted' \in BOOLEAN /\ mounted'
    BY <2>1, <1>2
  <2>3. filterTimer' \in BOOLEAN /\ ~filterTimer'
    BY <1>1
  <2> QED
    BY <2>2, <2>3
<1>6. /\ tasks' \in [Call -> PageTask \cup {None}]
      /\ request' \in LibraryRequest \cup {None} /\ (request' # None => request'.page # 0)
      /\ unsettled' \in BOOLEAN /\ page' \in Nat \ {0}
      /\ TasksFit(tasks', request', mounted', filterTimer')
      /\ KeyIsFilter' /\ (Clear => Faithful)'
  BY <1>1, <1>4, <1>5, SyncBegins
<1>a. routeFilter' \in Filter \cup {None} /\ activeKey' \in Filter
  BY <1>1
<1>b. /\ OwnShelf(myBooks') /\ preference' \in BOOLEAN /\ syncTarget' \in Nat /\ adding' \in Nat
      /\ preferenceTimer' \in BOOLEAN \cup {None}
  BY <1>2 DEF LibraryPageInv, PageTypes
<1>7. PageTypes'
  BY <1>3, <1>5, <1>6, <1>a, <1>b DEF PageTypes
<1> QED
  BY <1>3, <1>6, <1>7 DEF LibraryPageInv

LEMMA FiltersAreFilters ==
    ASSUME NEW f \in Filter, NEW b \in BOOLEAN
    PROVE  [f EXCEPT !.narrow = b] \in Filter /\ Default \in Filter
BY DEF Filter, Default

LEMMA FilterTimerFiresKeeps ==
    ASSUME LibraryPageInv, NEW t \in Call, FilterTimerFires(t) PROVE LibraryPageInv'
<1>1. filterTimer /\ filter' = filter /\ applyFilters(t)
  BY DEF FilterTimerFires
<1>2. mounted /\ filter' \in Filter
  BY <1>1 DEF LibraryPageInv, PageTypes, TasksFit
<1> QED
  BY <1>1, <1>2, applyFiltersKeeps

LEMMA clearFiltersKeeps ==
    ASSUME LibraryPageInv, NEW t \in Call, clearFilters(t) PROVE LibraryPageInv'
<1>1. mounted /\ filter' = [filter EXCEPT !.narrow = FALSE] /\ applyFilters(t)
  BY DEF clearFilters
<1>2. filter' \in Filter
  BY <1>1, FiltersAreFilters DEF LibraryPageInv, PageTypes
<1> QED
  BY <1>1, <1>2, applyFiltersKeeps

LEMMA setFilterKeeps ==
    ASSUME LibraryPageInv, setFilter PROVE LibraryPageInv'
<1>1. PICK f \in Filter \ {filter} :
        /\ filter' = f
        /\ IF f.all # filter.all THEN f.narrow = filter.narrow /\ preferenceTimer' = f.all ELSE UNCHANGED preferenceTimer
        /\ IF f = activeKey THEN UNCHANGED <<page, allBooks, pagination, activeKey, resultCache, resultOrder>>
           ELSE /\ SwitchResults(f)
                /\ LET entry == Cached(activeKey, allBooks, pagination, page).of[f] IN
                   IF entry = None THEN UNCHANGED <<page, activeKey>> ELSE page' = entry.loadedPage /\ activeKey' = f
  BY DEF setFilter
<1>2. mounted /\ filterTimer' = TRUE /\ UNCHANGED <<serverVars, routeFilter, mounted, syncTarget, adding, tasks, request, unsettled>>
  BY DEF setFilter
<1>3. /\ myBooks' = myBooks /\ preference' = preference /\ routeFilter' = routeFilter /\ mounted' = mounted
      /\ syncTarget' = syncTarget /\ adding' = adding /\ tasks' = tasks /\ request' = request /\ unsettled' = unsettled
  BY <1>2 DEF serverVars
<1>4. /\ page' \in Nat \ {0} /\ activeKey' \in Filter
      /\ CacheFits(resultCache', resultOrder') /\ allBooks' \in Seq(Listing) /\ pagination' \in Pagination \cup {None}
  <2>1. CASE f = activeKey
    <3>1. UNCHANGED <<page, allBooks, pagination, activeKey, resultCache, resultOrder>>
      BY <2>1, <1>1
    <3> QED
      BY <3>1 DEF LibraryPageInv, PageTypes
  <2>2. CASE f # activeKey
    <3> DEFINE entry == Cached(activeKey, allBooks, pagination, page).of[f]
    <3>1. /\ SwitchResults(f)
          /\ IF entry = None THEN UNCHANGED <<page, activeKey>> ELSE page' = entry.loadedPage /\ activeKey' = f
      BY <2>2, <1>1
    <3>2. /\ entry \in KeptResults \cup {None} /\ (entry # None => entry.loadedPage \in Nat \ {0})
          /\ CacheFits(resultCache', resultOrder') /\ allBooks' \in Seq(Listing) /\ pagination' \in Pagination \cup {None}
      BY <3>1, SwitchKeeps
    <3> HIDE DEF entry
    <3> QED
      BY <3>1, <3>2 DEF LibraryPageInv, PageTypes
  <2> QED
    BY <2>1, <2>2
<1>5. preferenceTimer' \in BOOLEAN \cup {None}
  <2>1. f.all \in BOOLEAN
    BY DEF Filter
  <2> QED
    BY <2>1, <1>1 DEF LibraryPageInv, PageTypes
<1>6. PageTypes'
  BY <1>1, <1>2, <1>3, <1>4, <1>5 DEF LibraryPageInv, PageTypes
<1>7. TasksFit(tasks', request', mounted', filterTimer')
  BY <1>2, <1>3 DEF LibraryPageInv, TasksFit
<1>8. KeyIsFilter' /\ ~Clear'
  BY <1>2 DEF KeyIsFilter, Clear
<1> QED
  BY <1>4, <1>6, <1>7, <1>8 DEF LibraryPageInv

\* Steps that change nothing of what is shown, asked or awaited.
LEMMA ShownStays ==
    ASSUME LibraryPageInv, Clear' => Clear, PageTypes', CacheFits(resultCache', resultOrder'),
           UNCHANGED <<myBooks, mounted, filter, page, allBooks, pagination, activeKey, filterTimer, tasks, request>>
    PROVE  LibraryPageInv'
<1>1. (Clear => Faithful)'
  BY FaithfulStays DEF LibraryPageInv
<1>2. TasksFit(tasks', request', mounted', filterTimer')
  BY DEF LibraryPageInv, TasksFit
<1>3. KeyIsFilter'
  BY DEF LibraryPageInv, KeyIsFilter, NothingAwaited
<1> QED
  BY <1>1, <1>2, <1>3 DEF LibraryPageInv

LEMMA updatePreferencesKeeps ==
    ASSUME LibraryPageInv, updatePreferences PROVE LibraryPageInv'
<1>1. /\ preferenceTimer # None /\ preferenceTimer' = None /\ preference' \in {preferenceTimer, preference}
      /\ UNCHANGED <<myBooks, routeFilter, mounted, storeVars, filterTimer, tasks, request, unsettled>>
  BY DEF updatePreferences
<1>2. /\ UNCHANGED <<myBooks, mounted, filter, page, allBooks, pagination, activeKey, filterTimer, tasks, request>>
      /\ UNCHANGED <<routeFilter, resultCache, resultOrder, syncTarget, adding, unsettled>>
  BY <1>1 DEF storeVars
<1>3. PageTypes'
  BY <1>1, <1>2 DEF LibraryPageInv, PageTypes
<1>4. Clear' => Clear
  BY <1>2 DEF Clear
<1>5. CacheFits(resultCache', resultOrder')
  BY <1>2 DEF LibraryPageInv
<1> QED
  BY <1>2, <1>3, <1>4, <1>5, ShownStays

LEMMA EnrichmentPollKeeps ==
    ASSUME LibraryPageInv, EnrichmentPoll PROVE LibraryPageInv'
<1>1. /\ cacheResults(activeKey, allBooks, pagination, page)
      /\ UNCHANGED <<serverVars, routeFilter, mounted, filter, page, allBooks, pagination, activeKey, syncTarget, adding,
                     timerVars, tasks, request, unsettled>>
  BY DEF EnrichmentPoll
<1>2. /\ UNCHANGED <<myBooks, mounted, filter, page, allBooks, pagination, activeKey, filterTimer, tasks, request>>
      /\ UNCHANGED <<routeFilter, syncTarget, adding, unsettled, preference, preferenceTimer>>
  BY <1>1 DEF serverVars, timerVars
<1>3. PageTypes'
  BY <1>2 DEF LibraryPageInv, PageTypes
<1>4. Clear' => Clear
  BY <1>2 DEF Clear
<1>5. CacheFits(resultCache', resultOrder')
  BY <1>1, CachingKeeps DEF LibraryPageInv, PageTypes
<1> QED
  BY <1>2, <1>3, <1>4, <1>5, ShownStays

LEMMA sendIsbnsReturnsKeeps ==
    ASSUME LibraryPageInv, sendIsbnsReturns PROVE LibraryPageInv'
<1>1. /\ adding # 0 /\ adding' = 0 /\ syncTarget' = adding
      /\ UNCHANGED <<serverVars, routeFilter, mounted, filter, page, allBooks, pagination, activeKey, resultCache, resultOrder,
                     timerVars, tasks, request, unsettled>>
  BY DEF sendIsbnsReturns
<1>2. /\ UNCHANGED <<myBooks, mounted, filter, page, allBooks, pagination, activeKey, filterTimer, tasks, request>>
      /\ UNCHANGED <<routeFilter, resultCache, resultOrder, unsettled, preference, preferenceTimer>>
  BY <1>1 DEF serverVars, timerVars
<1>3. PageTypes'
  BY <1>1, <1>2 DEF LibraryPageInv, PageTypes
<1>4. Clear' => Clear
  BY <1>1, <1>2 DEF Clear
<1>5. CacheFits(resultCache', resultOrder')
  BY <1>2 DEF LibraryPageInv
<1> QED
  BY <1>2, <1>3, <1>4, <1>5, ShownStays

LEMMA leaveKeeps ==
    ASSUME LibraryPageInv, leave PROVE LibraryPageInv'
<1>1. /\ mounted /\ NothingAwaited /\ mounted' = FALSE /\ filterTimer' = FALSE /\ preferenceTimer' = None
      /\ unsettled' = (unsettled \/ filterTimer)
      /\ UNCHANGED <<serverVars, routeFilter, storeVars, tasks, request>>
  BY DEF leave
<1>2. /\ UNCHANGED <<myBooks, preference, routeFilter, filter, page, allBooks, pagination, activeKey, tasks, request>>
      /\ UNCHANGED <<resultCache, resultOrder, syncTarget, adding>>
  BY <1>1 DEF serverVars, storeVars
<1>3. unsettled' \in BOOLEAN
  BY <1>1 DEF LibraryPageInv, PageTypes
<1>4. PageTypes'
  BY <1>1, <1>2, <1>3 DEF LibraryPageInv, PageTypes
<1>5. CacheFits(resultCache', resultOrder')
  BY <1>2 DEF LibraryPageInv
<1>6. \A kind : OfKind(tasks, kind) = {}
  BY <1>1 DEF NothingAwaited, OfKind
<1>7. TasksFit(tasks', request', mounted', filterTimer')
  BY <1>1, <1>2, <1>6 DEF NothingAwaited, TasksFit
<1>8. KeyIsFilter'
  BY <1>1, <1>2 DEF KeyIsFilter, NothingAwaited
<1>9. ASSUME Clear' PROVE Faithful'
  <2>1. ~unsettled /\ ~filterTimer
    BY <1>1, <1>9 DEF Clear
  <2>2. Clear
    BY <2>1, <1>2, <1>9 DEF Clear
  <2>3. Faithful
    BY <2>2 DEF LibraryPageInv
  <2>4. Right(foundIn(myBooks', filter'), page', allBooks', pagination')
    BY <2>3, <1>1, <1>2 DEF Faithful, NothingAwaited
  <2>5. SyncsFit(tasks', page', request')
    BY <1>2, <1>6 DEF SyncsFit
  <2> QED
    BY <2>4, <2>5, <1>1, <1>2 DEF Faithful, NothingAwaited
<1> QED
  BY <1>4, <1>5, <1>7, <1>8, <1>9 DEF LibraryPageInv

LEMMA resetAllKeeps ==
    ASSUME LibraryPageInv, resetAll PROVE LibraryPageInv'
<1>1. /\ ~mounted /\ NothingAwaited
      /\ page' = 1 /\ allBooks' = <<>> /\ pagination' = None
      /\ resultCache' = [k \in Filter |-> None] /\ resultOrder' = <<>>
      /\ filter' = Default /\ syncTarget' = 0 /\ routeFilter' = None
      /\ UNCHANGED <<serverVars, mounted, activeKey, adding, timerVars, tasks, request, unsettled>>
  BY DEF resetAll
<1>2. /\ UNCHANGED <<myBooks, preference, mounted, activeKey, adding, filterTimer, preferenceTimer, tasks, request, unsettled>>
  BY <1>1 DEF serverVars, timerVars
<1>3. Default \in Filter
  BY DEF Default, Filter
<1>4. PageTypes'
  BY <1>1, <1>2, <1>3 DEF LibraryPageInv, PageTypes
<1>5. CacheFits(resultCache', resultOrder')
  <2>1. resultOrder' \in Seq(Filter) /\ OnceEach(resultOrder') /\ ToSet(resultOrder') = {} /\ Len(resultOrder') = 0
    BY <1>1 DEF OnceEach, ToSet
  <2>2. MaxResults \in Nat
    BY PageAssumption
  <2> QED
    BY <2>1, <2>2, <1>1 DEF CacheFits
<1>6. \A kind : OfKind(tasks, kind) = {}
  BY <1>1 DEF NothingAwaited, OfKind
<1>7. TasksFit(tasks', request', mounted', filterTimer')
  BY <1>1, <1>2 DEF LibraryPageInv, TasksFit
<1>8. KeyIsFilter' /\ NothingAwaited'
  BY <1>1, <1>2 DEF KeyIsFilter, NothingAwaited
<1>9. Faithful'
  <2>1. SyncsFit(tasks', page', request')
    BY <1>2, <1>6 DEF SyncsFit
  <2> QED
    BY <2>1, <1>1, <1>2, <1>8 DEF Faithful, NothingAwaited
<1> QED
  BY <1>4, <1>5, <1>7, <1>8, <1>9 DEF LibraryPageInv

-----------------------------------------------------------------------------
LEMMA mountKeeps ==
    ASSUME LibraryPageInv, NEW t \in Call, mount(t) PROVE LibraryPageInv'
<1>1. PICK route \in {None, routeFilter} :
        LET f == RouteState(route)
            known == f = filter /\ allBooks # <<>> /\ pagination # None
        IN  /\ routeFilter' = route
            /\ filter' = f /\ activeKey' = f
            /\ IF f = filter THEN UNCHANGED <<allBooks, pagination>> ELSE allBooks' = <<>> /\ pagination' = None
            /\ IF ~known
               THEN /\ page' = 1
                    /\ request' = Request(1, f)
                    /\ tasks' = [tasks EXCEPT ![t] = [op |-> "load", waits |-> TRUE]]
                    /\ unsettled' = FALSE
                    /\ UNCHANGED mounted
               ELSE /\ mounted' = TRUE
                    /\ IF syncTarget = 0 THEN UNCHANGED <<page, request, tasks, unsettled>> ELSE StartSync(t, filter', syncTarget, TRUE)
  BY DEF mount
<1>2. /\ ~mounted /\ NothingAwaited
      /\ UNCHANGED <<serverVars, resultCache, resultOrder, syncTarget, adding, timerVars>>
  BY DEF mount
<1>3. /\ UNCHANGED <<myBooks, preference, resultCache, resultOrder, syncTarget, adding, filterTimer, preferenceTimer>>
  BY <1>2 DEF serverVars, timerVars
<1>4. PageTypes /\ TasksFit(tasks, request, mounted, filterTimer) /\ CacheFits(resultCache', resultOrder')
  BY <1>3 DEF LibraryPageInv
<1>5. request = None /\ (\A u \in Call : tasks[u] = None) /\ ~filterTimer /\ \A kind : OfKind(tasks, kind) = {}
  BY <1>2, <1>4 DEF NothingAwaited, OfKind, TasksFit
<1> DEFINE f == RouteState(route)
           known == f = filter /\ allBooks # <<>> /\ pagination # None
<1>6. f \in Filter
  <2>1. route \in Filter \cup {None}
    BY <1>4 DEF PageTypes
  <2>2. preference \in BOOLEAN
    BY <1>4 DEF PageTypes
  <2> DEFINE all == IF route # None /\ ~route.all THEN FALSE ELSE preference
             narrow == route # None /\ route.narrow
  <2>3. all \in BOOLEAN
    BY <2>2
  <2>4. narrow \in BOOLEAN
    OBVIOUS
  <2>5. f = [all |-> all, narrow |-> narrow]
    BY DEF RouteState
  <2> HIDE DEF all, narrow, f
  <2> QED
    BY <2>3, <2>4, <2>5 DEF Filter
<1>7. /\ routeFilter' = route /\ filter' = f /\ activeKey' = f
      /\ IF f = filter THEN UNCHANGED <<allBooks, pagination>> ELSE allBooks' = <<>> /\ pagination' = None
  BY <1>1
<1>8. ~known => /\ page' = 1 /\ request' = Request(1, f)
                /\ tasks' = [tasks EXCEPT ![t] = [op |-> "load", waits |-> TRUE]]
                /\ unsettled' = FALSE /\ UNCHANGED mounted
  BY <1>1
<1>9. known => /\ mounted' = TRUE
               /\ IF syncTarget = 0 THEN UNCHANGED <<page, request, tasks, unsettled>> ELSE StartSync(t, filter', syncTarget, TRUE)
  BY <1>1
<1> HIDE DEF f
<1>10. /\ OwnShelf(myBooks') /\ preference' \in BOOLEAN
       /\ routeFilter' \in Filter \cup {None} /\ filter' \in Filter /\ activeKey' \in Filter
       /\ allBooks' \in Seq(Listing) /\ pagination' \in Pagination \cup {None}
       /\ syncTarget' \in Nat /\ adding' \in Nat
       /\ filterTimer' \in BOOLEAN /\ ~filterTimer' /\ preferenceTimer' \in BOOLEAN \cup {None}
  <2>1. allBooks' \in Seq(Listing) /\ pagination' \in Pagination \cup {None}
    <3>1. CASE f = filter
      <4>1. allBooks' = allBooks /\ pagination' = pagination
        BY <3>1, <1>7
      <4> QED
        BY <4>1, <1>4 DEF PageTypes
    <3>2. CASE f # filter
      <4>1. allBooks' = <<>> /\ pagination' = None
        BY <3>2, <1>7
      <4> QED
        BY <4>1
    <3> QED
      BY <3>1, <3>2
  <2>2. routeFilter' \in Filter \cup {None}
    BY <1>4, <1>7 DEF PageTypes
  <2>3. OwnShelf(myBooks') /\ preference' \in BOOLEAN /\ syncTarget' \in Nat /\ adding' \in Nat
    BY <1>3, <1>4 DEF PageTypes
  <2>4. filterTimer' \in BOOLEAN /\ ~filterTimer' /\ preferenceTimer' \in BOOLEAN \cup {None}
    <3>1. filterTimer \in BOOLEAN /\ preferenceTimer \in BOOLEAN \cup {None}
      BY <1>4 DEF PageTypes
    <3> QED
      BY <3>1, <1>3, <1>5
  <2> QED
    BY <2>1, <2>2, <2>3, <2>4, <1>6, <1>7
<1>11. KeyIsFilter'
  BY <1>7 DEF KeyIsFilter
<1>12. CASE ~known
  <2> DEFINE new == [op |-> "load", waits |-> TRUE]
  <2>1. new \in PageTask /\ new # None /\ new.op = "load" /\ new.waits
    <3>1. new \in PageTask
      BY DEF PageTask
    <3> QED
      BY <3>1, PageNulls
  <2>2. /\ page' = 1 /\ request' = Request(1, f) /\ tasks' = [tasks EXCEPT ![t] = new]
        /\ unsettled' = FALSE /\ mounted' = mounted
    BY <1>8, <1>12
  <2> HIDE DEF new
  <2>3. tasks'[t] = new /\ (\A u \in Call \ {t} : tasks'[u] = None) /\ tasks' \in [Call -> PageTask \cup {None}]
    BY <2>1, <2>2, <1>4, <1>5 DEF PageTypes
  <2>4. /\ request' \in LibraryRequest /\ request' # None /\ request'.page = 1
        /\ request'.filter = f /\ request'.step = "count"
    BY <2>2, <1>6, NewRequests
  <2>5. OfKind(tasks', "sync") = {} /\ OfKind(tasks', "more") = {} /\ OfKind(tasks', "load") = {t}
    BY <2>1, <2>3 DEF OfKind
  <2>6. mounted' \in BOOLEAN /\ ~mounted'
    BY <2>2, <1>2, <1>4 DEF PageTypes
  <2>7. PageTypes'
    <3>0. page' \in Nat \ {0}
      BY <2>2
    <3>1. unsettled' \in BOOLEAN
      <4>1. unsettled' = FALSE
        BY <2>2
      <4> QED
        BY <4>1
    <3>2. request' \in LibraryRequest \cup {None} /\ (request' # None => request'.page # 0)
      BY <2>4
    <3> QED
      BY <1>10, <2>3, <2>6, <3>0, <3>1, <3>2 DEF PageTypes
  <2>8. TasksFit(tasks', request', mounted', filterTimer')
    BY <1>10, <2>1, <2>3, <2>4, <2>5, <2>6 DEF TasksFit
  <2>9. Faithful'
    <3>1. RequestFits(request', foundIn(myBooks', filter'), filter', page', allBooks')
      BY <2>2, <2>4, <1>7 DEF RequestFits
    <3>2. SyncsFit(tasks', page', request')
      BY <2>5 DEF SyncsFit
    <3> QED
      BY <3>1, <3>2, <2>4 DEF Faithful
  <2> QED
    BY <1>4, <1>11, <2>7, <2>8, <2>9 DEF LibraryPageInv
<1>13. CASE known /\ syncTarget = 0
  <2>1. mounted' = TRUE /\ UNCHANGED <<page, request, tasks, unsettled>>
    BY <1>9, <1>13
  <2>2. filter' = filter /\ allBooks' = allBooks /\ pagination' = pagination
    BY <1>7, <1>13
  <2>3. PageTypes'
    <3>1. mounted' \in BOOLEAN /\ page' \in Nat \ {0} /\ unsettled' \in BOOLEAN
      BY <2>1, <1>4 DEF PageTypes
    <3>2. tasks' \in [Call -> PageTask \cup {None}] /\ request' \in LibraryRequest \cup {None} /\ (request' # None => request'.page # 0)
      BY <2>1, <1>4 DEF PageTypes
    <3> QED
      BY <1>10, <3>1, <3>2 DEF PageTypes
  <2>4. TasksFit(tasks', request', mounted', filterTimer')
    BY <2>1, <1>5 DEF TasksFit
  <2>5. ASSUME Clear' PROVE Faithful'
    <3>1. Clear
      BY <2>1, <2>5, <1>3 DEF Clear
    <3>2. Right(foundIn(myBooks, filter), page, allBooks, pagination)
      BY <3>1, <1>5, <1>13 DEF LibraryPageInv, Faithful
    <3>3. SyncsFit(tasks', page', request')
      BY <2>1, <1>5 DEF SyncsFit
    <3> QED
      BY <3>2, <3>3, <2>1, <2>2, <1>3, <1>5 DEF Faithful
  <2> QED
    BY <1>4, <1>11, <2>3, <2>4, <2>5 DEF LibraryPageInv
<1>14. CASE known /\ syncTarget # 0
  <2>1. mounted' = TRUE /\ StartSync(t, filter', syncTarget, TRUE)
    BY <1>9, <1>14
  <2>2. mounted' /\ mounted' \in BOOLEAN /\ syncTarget \in Nat
    BY <2>1, <1>4 DEF PageTypes
  <2>3. /\ tasks' \in [Call -> PageTask \cup {None}]
        /\ request' \in LibraryRequest \cup {None} /\ (request' # None => request'.page # 0)
        /\ unsettled' \in BOOLEAN /\ page' \in Nat \ {0}
        /\ TasksFit(tasks', request', mounted', filterTimer')
        /\ KeyIsFilter' /\ (Clear => Faithful)'
    BY <2>1, <2>2, <1>2, <1>5, <1>7, <1>10, SyncBegins
  <2>4. PageTypes'
    BY <2>2, <2>3, <1>10 DEF PageTypes
  <2> QED
    BY <2>3, <2>4, <1>4 DEF LibraryPageInv
<1> QED
  BY <1>12, <1>13, <1>14

LEMMA MountEndsKeeps ==
    ASSUME LibraryPageInv, NEW t \in Call, MountEnds(t) PROVE LibraryPageInv'
<1>1. /\ tasks[t] # None /\ tasks[t].op = "load" /\ ~tasks[t].waits
      /\ mounted' = TRUE
      /\ IF syncTarget = 0 THEN tasks' = [tasks EXCEPT ![t] = None] /\ UNCHANGED <<page, request, unsettled>>
         ELSE StartSync(t, filter, syncTarget, TRUE)
      /\ UNCHANGED <<serverVars, routeFilter, filter, allBooks, pagination, activeKey, resultCache, resultOrder, syncTarget,
                     adding, timerVars>>
  BY DEF MountEnds
<1>2. /\ UNCHANGED <<myBooks, preference, routeFilter, filter, allBooks, pagination, activeKey, resultCache, resultOrder>>
      /\ UNCHANGED <<syncTarget, adding, filterTimer, preferenceTimer>>
  BY <1>1 DEF serverVars, timerVars
<1>3. PageTypes /\ TasksFit(tasks, request, mounted, filterTimer) /\ CacheFits(resultCache', resultOrder')
  BY <1>2 DEF LibraryPageInv
<1>4. t \in OfKind(tasks, "load")
  BY <1>1 DEF OfKind
<1>5. ~mounted /\ ~filterTimer /\ OfKind(tasks, "sync") = {} /\ OfKind(tasks, "more") = {}
  BY <1>3, <1>4 DEF TasksFit
<1>6. activeKey = filter /\ \A u \in Call \ {t} : tasks[u] = None
  <2>1. activeKey = filter
    BY <1>1, <1>5 DEF LibraryPageInv, KeyIsFilter, NothingAwaited
  <2>2. ASSUME NEW u \in Call \ {t}, tasks[u] # None PROVE FALSE
    <3>1. tasks[u].op \in {"sync", "more", "load"}
      BY <2>2, <1>3, TaskKinds DEF PageTypes
    <3>2. tasks[u].op = "load"
      BY <2>2, <3>1, <1>5 DEF OfKind
    <3>3. u \in OfKind(tasks, "load")
      BY <2>2, <3>2 DEF OfKind
    <3> QED
      BY <3>3, <1>3, <1>4 DEF TasksFit
  <2> QED
    BY <2>1, <2>2
<1>7. request = None
  BY <1>1, <1>3, <1>6 DEF TasksFit
<1>8. /\ OwnShelf(myBooks') /\ preference' \in BOOLEAN
      /\ routeFilter' \in Filter \cup {None} /\ filter' \in Filter /\ activeKey' \in Filter
      /\ allBooks' \in Seq(Listing) /\ pagination' \in Pagination \cup {None}
      /\ syncTarget' \in Nat /\ adding' \in Nat
      /\ filterTimer' \in BOOLEAN /\ ~filterTimer' /\ preferenceTimer' \in BOOLEAN \cup {None}
  BY <1>2, <1>3, <1>5 DEF PageTypes
<1>9. KeyIsFilter' /\ mounted' /\ mounted' \in BOOLEAN
  BY <1>1, <1>2, <1>6 DEF KeyIsFilter
<1>10. CASE syncTarget = 0
  <2>1. tasks' = [tasks EXCEPT ![t] = None] /\ UNCHANGED <<page, request, unsettled>>
    BY <1>1, <1>10
  <2>2. (\A u \in Call : tasks'[u] = None) /\ tasks' \in [Call -> PageTask \cup {None}]
    BY <2>1, <1>3, <1>6 DEF PageTypes
  <2>3. \A kind : OfKind(tasks', kind) = {}
    BY <2>2 DEF OfKind
  <2>4. PageTypes'
    BY <1>3, <1>8, <1>9, <2>1, <2>2 DEF PageTypes
  <2>5. TasksFit(tasks', request', mounted', filterTimer')
    BY <1>7, <1>9, <2>1, <2>2, <2>3 DEF TasksFit
  <2>6. ASSUME Clear' PROVE Faithful'
    <3>1. Clear
      BY <2>1, <2>3, <2>6, <1>2, <1>5 DEF Clear
    <3>2. Right(foundIn(myBooks, filter), page, allBooks, pagination)
      BY <3>1, <1>1, <1>7 DEF LibraryPageInv, Faithful, NothingAwaited
    <3>3. SyncsFit(tasks', page', request')
      BY <2>3 DEF SyncsFit
    <3> QED
      BY <3>2, <3>3, <2>1, <1>2, <1>7 DEF Faithful
  <2> QED
    BY <1>3, <1>9, <2>4, <2>5, <2>6 DEF LibraryPageInv
<1>11. CASE syncTarget # 0
  <2>1. StartSync(t, filter', syncTarget, TRUE)
    BY <1>1, <1>2, <1>11
  <2>2. syncTarget \in Nat /\ activeKey' = filter'
    BY <1>2, <1>3, <1>6 DEF PageTypes
  <2>3. /\ tasks' \in [Call -> PageTask \cup {None}]
        /\ request' \in LibraryRequest \cup {None} /\ (request' # None => request'.page # 0)
        /\ unsettled' \in BOOLEAN /\ page' \in Nat \ {0}
        /\ TasksFit(tasks', request', mounted', filterTimer')
        /\ (Clear => Faithful)'
    BY <2>1, <2>2, <1>4, <1>8, <1>9, SyncBegins
  <2>4. PageTypes'
    BY <2>3, <1>8, <1>9 DEF PageTypes
  <2> QED
    BY <2>3, <2>4, <1>3, <1>9 DEF LibraryPageInv
<1> QED
  BY <1>10, <1>11

\* The user's books change, while the page shows what it shows.
LEMMA ShelfGrows ==
    ASSUME NEW s, OwnShelf(s), NEW b \in Listing \ ToSet(s) PROVE OwnShelf(<<b>> \o s)
<1> DEFINE all == <<b>> \o s
<1>1. s \in Seq(Listing) /\ <<b>> \in Seq(Listing) /\ Len(<<b>>) = 1
  BY DEF OwnShelf
<1>2. Len(s) \in Nat /\ DOMAIN s = 1 .. Len(s)
  BY <1>1
<1>3. /\ all \in Seq(Listing) /\ Len(all) = 1 + Len(s)
      /\ \A i \in 1 .. 1 + Len(s) : all[i] = IF i <= 1 THEN <<b>>[i] ELSE s[i - 1]
  BY <1>1, ConcatProperties
<1> HIDE DEF all
<1>4. DOMAIN all = 1 .. 1 + Len(s)
  BY <1>3
<1>5. all[1] = b /\ \A i \in DOMAIN all \ {1} : i - 1 \in DOMAIN s /\ all[i] = s[i - 1] /\ i \in Int
  BY <1>2, <1>3, <1>4
<1>6. \A i \in DOMAIN s : s[i] # b
  BY DEF ToSet
<1>7. OnceEach(all)
  <2> SUFFICES ASSUME NEW i \in DOMAIN all, NEW j \in DOMAIN all, all[i] = all[j] PROVE i = j
    BY DEF OnceEach
  <2>1. CASE i = 1 \/ j = 1
    BY <2>1, <1>5, <1>6
  <2>2. CASE i # 1 /\ j # 1
    <3>1. i - 1 = j - 1
      BY <2>2, <1>5 DEF OwnShelf, OnceEach
    <3> QED
      BY <3>1, <2>2, <1>5
  <2> QED
    BY <2>1, <2>2
<1> QED
  BY <1>3, <1>7 DEF OwnShelf, all

LEMMA ShelfChangesKeeps ==
    ASSUME LibraryPageInv, NEW books, OwnShelf(books), ShelfChanges(books),
           allBooks' \in Seq(Listing), pagination' \in Pagination \cup {None},
           syncTarget' \in Nat, adding' \in Nat, unsettled' \in BOOLEAN,
           ~Clear'
    PROVE  LibraryPageInv'
<1>1. /\ myBooks' = books
      /\ UNCHANGED <<preference, routeFilter, mounted, filter, page, activeKey, resultCache, resultOrder, timerVars, tasks, request>>
  BY DEF ShelfChanges
<1>2. UNCHANGED <<filterTimer, preferenceTimer>>
  BY <1>1 DEF timerVars
<1>3. PageTypes'
  BY <1>1, <1>2 DEF LibraryPageInv, PageTypes
<1>4. TasksFit(tasks', request', mounted', filterTimer') /\ CacheFits(resultCache', resultOrder')
  BY <1>1, <1>2 DEF LibraryPageInv, TasksFit
<1>5. KeyIsFilter'
  BY <1>1, <1>2 DEF LibraryPageInv, KeyIsFilter, NothingAwaited
<1> QED
  BY <1>3, <1>4, <1>5 DEF LibraryPageInv

LEMMA addManuallyKeeps ==
    ASSUME LibraryPageInv, addManually PROVE LibraryPageInv'
<1>1. PICK b \in NotListed :
        /\ ~mounted /\ NothingAwaited /\ ShelfChanges(<<b>> \o myBooks) /\ showAddedBook(b)
        /\ syncTarget' = getLoadedPages /\ UNCHANGED <<adding, unsettled>>
  BY DEF addManually
<1>2. PageTypes
  BY DEF LibraryPageInv
<1>3. b \in Listing \ ToSet(myBooks)
  BY DEF NotListed
<1>4. OwnShelf(<<b>> \o myBooks)
  BY <1>2, <1>3, ShelfGrows DEF PageTypes
<1>5. allBooks' \in Seq(Listing) /\ pagination' \in Pagination \cup {None}
  <2>1. CASE ~filter.all /\ b \in Wishlist
    BY <2>1, <1>1, <1>2 DEF showAddedBook, PageTypes
  <2>2. CASE ~(~filter.all /\ b \in Wishlist)
    <3>1. /\ allBooks' = <<b>> \o allBooks
          /\ pagination' = IF pagination = None THEN None ELSE InfoOf(pagination.total + 1, page)
      BY <2>2, <1>1 DEF showAddedBook
    <3>2. <<b>> \o allBooks \in Seq(Listing)
      <4>1. <<b>> \in Seq(Listing) /\ allBooks \in Seq(Listing)
        BY <1>2, <1>3 DEF PageTypes
      <4> QED
        BY <4>1, ConcatProperties
    <3>3. pagination # None => InfoOf(pagination.total + 1, page) \in Pagination
      <4>1. pagination # None => pagination.total + 1 \in Nat
        BY <1>2 DEF PageTypes, Pagination
      <4> QED
        BY <4>1, <1>2, InfosAreInfos DEF PageTypes
    <3> QED
      BY <3>1, <3>2, <3>3
  <2> QED
    BY <2>1, <2>2
<1>6. getLoadedPages \in Nat \ {0}
  <2>1. CASE allBooks = <<>>
    BY <2>1 DEF getLoadedPages
  <2>2. CASE allBooks # <<>>
    <3>1. Len(allBooks) \in Nat /\ Len(allBooks) > 0
      BY <2>2, <1>2, EmptySeq DEF PageTypes
    <3> QED
      BY <2>2, <3>1, PagesCounted DEF getLoadedPages
  <2> QED
    BY <2>1, <2>2
<1>7. OfKind(tasks', "sync") = {}
  BY <1>1 DEF ShelfChanges, NothingAwaited, OfKind
<1>8. ~Clear'
  BY <1>1, <1>6, <1>7 DEF Clear
<1>9. syncTarget' \in Nat /\ adding' \in Nat /\ unsettled' \in BOOLEAN
  BY <1>1, <1>2, <1>6 DEF PageTypes
<1> QED
  BY <1>1, <1>4, <1>5, <1>8, <1>9, ShelfChangesKeeps

LEMMA removeBookKeeps ==
    ASSUME LibraryPageInv, removeBook PROVE LibraryPageInv'
<1>1. PICK b \in ToSet(myBooks) :
        /\ ShelfChanges(Without(myBooks, {b}))
        /\ unsettled' = TRUE /\ UNCHANGED <<allBooks, pagination, syncTarget, adding>>
  BY DEF removeBook
<1>2. OwnShelf(Without(myBooks, {b}))
  BY WithoutMeans DEF LibraryPageInv, PageTypes, OwnShelf
<1>3. ~Clear'
  BY <1>1 DEF Clear
<1>4. allBooks' \in Seq(Listing) /\ pagination' \in Pagination \cup {None} /\ syncTarget' \in Nat /\ adding' \in Nat
  BY <1>1 DEF LibraryPageInv, PageTypes
<1>5. unsettled' \in BOOLEAN
  BY <1>1
<1> QED
  BY <1>1, <1>2, <1>3, <1>4, <1>5, ShelfChangesKeeps

LEMMA sendIsbnsKeeps ==
    ASSUME LibraryPageInv, sendIsbns PROVE LibraryPageInv'
<1>1. PICK b \in NotListed :
        /\ ~mounted /\ adding = 0 /\ ShelfChanges(<<b>> \o myBooks)
        /\ adding' = getLoadedPages /\ UNCHANGED <<allBooks, pagination, syncTarget, unsettled>>
  BY DEF sendIsbns
<1>2. PageTypes /\ TasksFit(tasks, request, mounted, filterTimer)
  BY DEF LibraryPageInv
<1>3. b \in Listing \ ToSet(myBooks)
  BY DEF NotListed
<1>4. OwnShelf(<<b>> \o myBooks)
  BY <1>2, <1>3, ShelfGrows DEF PageTypes
<1>5. allBooks' \in Seq(Listing) /\ pagination' \in Pagination \cup {None}
  BY <1>1, <1>2 DEF PageTypes
<1>6. getLoadedPages \in Nat \ {0}
  <2>1. CASE allBooks = <<>>
    BY <2>1 DEF getLoadedPages
  <2>2. CASE allBooks # <<>>
    <3>1. Len(allBooks) \in Nat /\ Len(allBooks) > 0
      BY <2>2, <1>2, EmptySeq DEF PageTypes
    <3> QED
      BY <2>2, <3>1, PagesCounted DEF getLoadedPages
  <2> QED
    BY <2>1, <2>2
<1>7. OfKind(tasks', "sync") = {}
  BY <1>1, <1>2 DEF ShelfChanges, TasksFit
<1>8. ~Clear'
  BY <1>1, <1>6, <1>7 DEF Clear
<1>9. syncTarget' \in Nat /\ adding' \in Nat /\ unsettled' \in BOOLEAN
  BY <1>1, <1>2, <1>6 DEF PageTypes
<1> QED
  BY <1>1, <1>4, <1>5, <1>8, <1>9, ShelfChangesKeeps

-----------------------------------------------------------------------------
LEMMA LibraryPageStarts == PageInit => LibraryPageInv
<1> SUFFICES ASSUME PageInit PROVE LibraryPageInv
  OBVIOUS
<1> DEFINE found == matches(Default)
           books == pageOf(found, 1)
           info == InfoOf(Len(found), 1)
           entry == [books |-> books, pagination |-> info, loadedPage |-> 1]
<1>1. /\ myBooks \in SetToSeqs(Listing)
      /\ preference = FALSE /\ routeFilter = None /\ mounted = TRUE
      /\ filter = Default /\ page = 1 /\ activeKey = Default
      /\ allBooks = books /\ pagination = info
      /\ resultCache = [k \in Filter |-> IF k = Default THEN [books |-> allBooks, pagination |-> pagination, loadedPage |-> 1] ELSE None]
      /\ resultOrder = <<Default>>
      /\ syncTarget = 0 /\ adding = 0 /\ filterTimer = FALSE /\ preferenceTimer = None
      /\ tasks = [t \in Call |-> None] /\ request = None /\ unsettled = FALSE
  BY DEF PageInit
<1>2. OwnShelf(myBooks)
  <2>1. Cardinality(Listing) \in Nat
    BY PageAssumption, FS_CardinalityType
  <2>2. /\ myBooks \in [1 .. Cardinality(Listing) -> Listing]
        /\ \A i, j \in 1 .. Cardinality(Listing) : i # j => myBooks[i] # myBooks[j]
    BY <1>1 DEF SetToSeqs
  <2> QED
    BY <2>1, <2>2 DEF OwnShelf, OnceEach
<1>3. OwnShelf(found) /\ found = foundIn(myBooks, filter) /\ Default \in Filter
  BY <1>1, <1>2, FoundIsAShelf DEF Default, Filter
<1>4. books \in Seq(Listing) /\ books = firstPages(found, 1)
  BY <1>3, PagesAreShelves DEF OwnShelf
<1>5. info \in Pagination /\ info # None
  <2>1. Len(found) \in Nat
    BY <1>3 DEF OwnShelf
  <2> HIDE DEF found
  <2>2. info \in Pagination
    BY <2>1, InfosAreInfos
  <2> QED
    BY <2>2, PageNulls
<1> HIDE DEF found, books, info
<1>6. entry \in KeptResults /\ entry # None /\ entry.loadedPage # 0
  <2>1. entry \in KeptResults
    BY <1>4, <1>5 DEF KeptResults
  <2> QED
    BY <2>1, PageNulls
<1>7. resultCache = [k \in Filter |-> IF k = Default THEN entry ELSE None]
  BY <1>1
<1> HIDE DEF entry
<1>8. CacheFits(resultCache, resultOrder)
  <2>1. /\ resultOrder \in Seq(Filter) /\ OnceEach(resultOrder) /\ Len(resultOrder) = 1
        /\ ToSet(resultOrder) = {Default}
    BY <1>1, <1>3 DEF OnceEach, ToSet
  <2>2. 1 <= MaxResults
    BY PageAssumption
  <2> QED
    BY <2>1, <2>2, <1>3, <1>6, <1>7 DEF CacheFits
<1>9. PageTypes
  <2>1. preference \in BOOLEAN /\ mounted \in BOOLEAN /\ filterTimer \in BOOLEAN /\ unsettled \in BOOLEAN
    BY <1>1
  <2>2. tasks \in [Call -> PageTask \cup {None}] /\ request \in LibraryRequest \cup {None}
    BY <1>1
  <2> QED
    BY <2>1, <2>2, <1>1, <1>2, <1>3, <1>4, <1>5 DEF PageTypes
<1>10. \A kind : OfKind(tasks, kind) = {}
  BY <1>1 DEF OfKind
<1>11. TasksFit(tasks, request, mounted, filterTimer)
  BY <1>1, <1>10 DEF TasksFit
<1>12. KeyIsFilter
  BY <1>1 DEF KeyIsFilter
<1>13. Faithful
  <2>1. Right(foundIn(myBooks, filter), page, allBooks, pagination)
    BY <1>1, <1>3, <1>4 DEF Right, info
  <2>2. SyncsFit(tasks, page, request)
    BY <1>10 DEF SyncsFit
  <2> QED
    BY <2>1, <2>2, <1>1 DEF Faithful
<1> QED
  BY <1>8, <1>9, <1>11, <1>12, <1>13 DEF LibraryPageInv

LEMMA LibraryPageKeeps == LibraryPageInv /\ [PageNext]_libraryPageVars => LibraryPageInv'
<1> SUFFICES ASSUME LibraryPageInv, [PageNext]_libraryPageVars PROVE LibraryPageInv'
  OBVIOUS
<1>1. CASE UNCHANGED libraryPageVars
  <2>1. /\ UNCHANGED <<myBooks, mounted, filter, page, allBooks, pagination, activeKey, filterTimer, tasks, request>>
        /\ UNCHANGED <<preference, routeFilter, resultCache, resultOrder, syncTarget, adding, preferenceTimer, unsettled>>
    BY <1>1 DEF libraryPageVars, serverVars, storeVars, timerVars
  <2>2. PageTypes'
    BY <2>1 DEF LibraryPageInv, PageTypes
  <2>3. Clear' => Clear
    BY <2>1 DEF Clear
  <2>4. CacheFits(resultCache', resultOrder')
    BY <2>1 DEF LibraryPageInv
  <2> QED
    BY <2>1, <2>2, <2>3, <2>4, ShownStays
<1>2. CASE getLibraryCount
  BY <1>2, getLibraryCountKeeps
<1>3. CASE getLibraryItems
  BY <1>3, getLibraryItemsKeeps
<1>4. CASE refreshReturns
  BY <1>4, refreshReturnsKeeps
<1>5. CASE refreshFails
  BY <1>5, refreshFailsKeeps
<1>6. ASSUME NEW t \in Call,
             \/ syncLoadedPages(t) \/ TaskEnds(t) \/ loadMore(t)
             \/ FilterTimerFires(t) \/ clearFilters(t)
             \/ mount(t) \/ MountEnds(t)
      PROVE  LibraryPageInv'
  BY <1>6, syncLoadedPagesKeeps, TaskEndsKeeps, loadMoreKeeps, FilterTimerFiresKeeps, clearFiltersKeeps, mountKeeps, MountEndsKeeps
<1>7. CASE setFilter
  BY <1>7, setFilterKeeps
<1>8. CASE updatePreferences
  BY <1>8, updatePreferencesKeeps
<1>9. CASE EnrichmentPoll
  BY <1>9, EnrichmentPollKeeps
<1>10. CASE leave
  BY <1>10, leaveKeeps
<1>11. CASE resetAll
  BY <1>11, resetAllKeeps
<1>12. CASE addManually
  BY <1>12, addManuallyKeeps
<1>13. CASE removeBook
  BY <1>13, removeBookKeeps
<1>14. CASE sendIsbns
  BY <1>14, sendIsbnsKeeps
<1>15. CASE sendIsbnsReturns
  BY <1>15, sendIsbnsReturnsKeeps
<1> QED
  BY <1>1, <1>2, <1>3, <1>4, <1>5, <1>6, <1>7, <1>8, <1>9, <1>10, <1>11, <1>12, <1>13, <1>14, <1>15 DEF PageNext

LEMMA LibraryPageSays == LibraryPageInv => PageTypeOK /\ SettledShowsTheLibrary
<1> SUFFICES ASSUME LibraryPageInv PROVE PageTypeOK /\ SettledShowsTheLibrary
  OBVIOUS
<1>1. PageTypeOK
  <2>1. ToSet(myBooks) \subseteq Listing
    BY DEF LibraryPageInv, PageTypes, OwnShelf, ToSet
  <2>2. pagination = None \/ pagination.total \in Nat
    BY DEF LibraryPageInv, PageTypes, Pagination
  <2>3. (\A k \in Filter : resultCache[k] # None <=> k \in ToSet(resultOrder)) /\ Len(resultOrder) <= MaxResults
    BY DEF LibraryPageInv, CacheFits
  <2> QED
    BY <2>1, <2>2, <2>3 DEF LibraryPageInv, PageTypes, PageTypeOK
<1>2. ASSUME mounted, NothingAwaited, ~filterTimer, ~unsettled, syncTarget = 0, adding = 0
      PROVE  /\ activeKey = filter
             /\ allBooks = firstPages(matches(filter), page)
             /\ pagination = InfoOf(Len(matches(filter)), page)
  <2>1. Right(foundIn(myBooks, filter), page, allBooks, pagination)
    BY <1>2 DEF LibraryPageInv, Clear, Faithful, NothingAwaited
  <2>2. activeKey = filter
    BY <1>2 DEF LibraryPageInv, KeyIsFilter
  <2> QED
    BY <2>1, <2>2, Kinds DEF Right
<1>3. SettledShowsTheLibrary
  BY <1>2 DEF SettledShowsTheLibrary, firstPages
<1> QED
  BY <1>1, <1>3

(* When the library page waits for nothing, and its last load was not        *)
(* disturbed, it shows the first pages of what the chosen filter finds on    *)
(* the server, each book once and in order, with the right total, whatever   *)
(* was scrolled, filtered, restored from the cache, added or removed before; *)
(* and the cache and its order know the same results (index.vue,             *)
(* libraryDashboard.ts). For any books, page size and cache size.            *)
THEOREM LibraryIsTrue == PageSpec => [](PageTypeOK /\ SettledShowsTheLibrary)
BY LibraryPageStarts, LibraryPageKeeps, LibraryPageSays, PTL DEF PageSpec
=============================================================================
