------------------------ MODULE DefinedTypesProofs ------------------------
(***************************************************************************)
(* Proofs about the defined-type decoder (DefinedTypes): with the dense    *)
(* ref_type_maps WAMR's loader writes (one index-ordered entry for every   *)
(* reference-handle position), every printed position of a struct or       *)
(* function type shows exactly the type index of its entry.  The loop of   *)
(* _get_fields_info is reasoned about through the recursive function it is *)
(* (Scan), by induction in the form of a least counterexample.             *)
(***************************************************************************)
EXTENDS DefinedTypes, NaturalsInduction, WellFoundedInduction,
        SequenceTheorems, TLAPS

\* A nonempty set of naturals has a least element.
LEMMA NatLeast ==
    ASSUME NEW T \in SUBSET Nat, T # {}
    PROVE  \E m \in T : \A k \in T : m <= k
<1>1. \E x \in T : \A y \in T : ~(<<y, x>> \in OpToRel(<, Nat))
    BY NatLessThanWellFounded, WFMin
<1>2. \A x, y \in Nat : <<y, x>> \in OpToRel(<, Nat) <=> y < x
    BY DEF OpToRel
<1>3. PICK x \in T : \A y \in T : ~(<<y, x>> \in OpToRel(<, Nat))
    BY <1>1
<1>4. \A y \in T : ~(y < x)
    BY <1>2, <1>3
<1>5. QED
    BY <1>4

(***************************************************************************)
(* The loop over ref_type_maps                                             *)
(***************************************************************************)
\* The values of the loop after each entry, as a function named outside
\* the LET of Matches.
Scan(d, i) ==
    CHOOSE g : g = [j \in 0 .. Len(d.maps) |->
            IF j = 0 THEN << >>
            ELSE IF d.maps[j].index = i THEN Append(g[j - 1], d.maps[j])
            ELSE g[j - 1]]

\* Matches is the loop's value after the last entry.
LEMMA MatchesScan ==
    ASSUME NEW d, NEW i
    PROVE  Matches(d, i) = Scan(d, i)[Len(d.maps)]
BY DEF Matches, Scan

\* The loop's recursion has the solution it is written as.
LEMMA ScanDef ==
    ASSUME NEW d, NEW i, Len(d.maps) \in Nat
    PROVE  Scan(d, i) = [j \in 0 .. Len(d.maps) |->
               IF j = 0 THEN << >>
               ELSE IF d.maps[j].index = i THEN Append(Scan(d, i)[j - 1], d.maps[j])
               ELSE Scan(d, i)[j - 1]]
<1> DEFINE n == Len(d.maps)
           Step(v, j) == IF d.maps[j].index = i THEN Append(v, d.maps[j]) ELSE v
<1>1. FiniteNatInductiveDefHypothesis(Scan(d, i), << >>, Step, 0, n)
    BY DEF FiniteNatInductiveDefHypothesis, Scan
<1>2. n \in Nat /\ 0 \in Nat
    OBVIOUS
<1> HIDE DEF n
<1>3. FiniteNatInductiveDefConclusion(Scan(d, i), << >>, Step, 0, n)
    BY <1>1, <1>2, FiniteNatInductiveDef
<1>4. QED
    BY <1>3 DEF FiniteNatInductiveDefConclusion, n

\* With strictly increasing indexes, the loop finds the one entry with
\* index i and nothing else.
LEMMA MatchesUnique ==
    ASSUME NEW d, NEW i, Len(d.maps) \in Nat,
           \A a \in 1 .. Len(d.maps) : d.maps[a].index \in Int,
           \A a, b \in 1 .. Len(d.maps) : a < b => d.maps[a].index < d.maps[b].index,
           NEW w \in 1 .. Len(d.maps), d.maps[w].index = i
    PROVE  Matches(d, i) = << d.maps[w] >>
<1> DEFINE n == Len(d.maps)
           s == Scan(d, i)
           P(j) == /\ (\A a \in 1 .. j : d.maps[a].index # i) => s[j] = << >>
                   /\ \A a \in 1 .. j : d.maps[a].index = i => s[j] = << d.maps[a] >>
           T == {j \in 0 .. n : ~P(j)}
<1>0. s = [j \in 0 .. Len(d.maps) |-> IF j = 0 THEN << >>
                            ELSE IF d.maps[j].index = i THEN Append(s[j - 1], d.maps[j])
                            ELSE s[j - 1]]
    BY ScanDef
<1>a. n \in Nat
    OBVIOUS
<1> HIDE DEF s
<1>1. \A j \in 1 .. n : s[j] = IF d.maps[j].index = i THEN Append(s[j - 1], d.maps[j])
                               ELSE s[j - 1]
    <2> SUFFICES ASSUME NEW j \in 1 .. n
                 PROVE  s[j] = IF d.maps[j].index = i THEN Append(s[j - 1], d.maps[j])
                               ELSE s[j - 1]
        OBVIOUS
    <2>1. j \in 0 .. n /\ (j = 0) = FALSE
        BY <1>a
    <2>2. QED
        BY <1>0, <2>1, Zenon
<1>2. s[0] = << >>
    <2>1. 0 \in 0 .. n
        BY <1>a
    <2>2. QED
        BY <1>0, <2>1, Zenon
<1>3. \A a, b \in 1 .. n : d.maps[a].index = d.maps[b].index => a = b
    <2> SUFFICES ASSUME NEW a \in 1 .. n, NEW b \in 1 .. n, a # b
                 PROVE  d.maps[a].index # d.maps[b].index
        OBVIOUS
    <2>1. CASE a < b
        BY <2>1
    <2>2. CASE b < a
        BY <2>2
    <2>3. QED
        BY <2>1, <2>2
<1> HIDE DEF n
<1>4. T = {}
    <2> SUFFICES ASSUME T # {} PROVE FALSE
        OBVIOUS
    <2>0. T \in SUBSET Nat
        BY <1>a DEF T
    <2>1. PICK j \in T : \A k \in T : j <= k
        BY <2>0, NatLeast
    <2>2. j \in 1 .. n /\ ~P(j)
        <3>1. P(0)
            BY <1>2
        <3>2. QED
            BY <3>1, <2>1, <1>a DEF T
    <2>3. P(j - 1)
        BY <2>1, <2>2, <1>a
    <2> HIDE DEF P, T
    <2>4. CASE d.maps[j].index = i
        <3>1. \A a \in 1 .. j - 1 : d.maps[a].index # i
            BY <2>4, <1>3, <2>2, <1>a
        <3>2. s[j - 1] = << >>
            BY <3>1, <2>3 DEF P
        <3>3. s[j] = Append(s[j - 1], d.maps[j])
            BY <2>4, <1>1, <2>2
        <3>6. Append(<< >>, d.maps[j]) = << d.maps[j] >>
            OBVIOUS
        <3>7. s[j] = << d.maps[j] >>
            BY <3>2, <3>3, <3>6
        <3>4. \A a \in 1 .. j : d.maps[a].index = i => a = j
            BY <2>4, <1>3, <2>2, <1>a
        <3>5. QED
            BY <3>7, <3>4, <2>4, <2>2 DEF P
    <2>5. CASE d.maps[j].index # i
        <3>1. s[j] = s[j - 1]
            BY <2>5, <1>1, <2>2
        <3>2. QED
            BY <3>1, <2>3, <2>5, <2>2 DEF P
    <2>6. QED
        BY <2>4, <2>5
<1>5. P(n)
    BY <1>4, <1>a
<1>6. Matches(d, i) = s[n]
    BY MatchesScan DEF s, n
<1>7. QED
    BY <1>5, <1>6 DEF P, n
(***************************************************************************)
(* The inputs: defined types as the loader writes them                     *)
(***************************************************************************)
\* A function on 1 .. n is a sequence of length n.
LEMMA LenOfFunction ==
    ASSUME NEW n \in Nat, NEW S, NEW f \in [1 .. n -> S]
    PROVE  f \in Seq(S) /\ Len(f) = n
<1>1. f \in Seq(S)
    BY SeqDef
<1>2. Len(f) \in Nat /\ DOMAIN f = 1 .. Len(f)
    BY <1>1, LenProperties
<1>3. 1 .. n = 1 .. Len(f)
    BY <1>2
<1>4. Len(f) = n
    <2>1. CASE Len(f) < n
        BY <2>1, <1>2, <1>3
    <2>2. CASE n < Len(f)
        BY <2>2, <1>2, <1>3
    <2>3. QED
        BY <2>1, <2>2, <1>2
<1>5. QED
    BY <1>1, <1>4

\* What a defined type is made of, and of its ref_type_maps that every
\* entry's index is a position, the indexes increase, and (dense maps)
\* every reference-handle position has an entry.
LEMMA DefinedTypeShape ==
    ASSUME NEW d \in DefinedTypes
    PROVE  /\ d.types \in Seq(DOMAIN WASM_TYPE_MAP)
           /\ d.maps \in Seq(Entries(d.types))
           /\ d.kind \in {"WASM_TYPE_STRUCT", "WASM_TYPE_FUNC"}
           /\ d.param_count \in 0 .. Len(d.types)
           /\ \A a, b \in 1 .. Len(d.maps) : a < b => d.maps[a].index < d.maps[b].index
           /\ ~SparseMaps => \A i \in RefPositions(d.types) :
                               \E w \in 1 .. Len(d.maps) : d.maps[w].index = i
<1>1. PICK t \in TypeSeqs :
            \/ d \in [kind : {"WASM_TYPE_STRUCT"}, types : {t}, param_count : {0},
                      maps : MapsOf(t)]
            \/ d \in [kind : {"WASM_TYPE_FUNC"}, types : {t}, param_count : 0 .. Len(t),
                      maps : MapsOf(t)]
    BY DEF DefinedTypes
<1>2. PICK n \in 0 .. MaxFields : t \in [1 .. n -> DOMAIN WASM_TYPE_MAP]
    BY DEF TypeSeqs
<1>3. t \in Seq(DOMAIN WASM_TYPE_MAP) /\ Len(t) = n
    BY <1>2, DefinedTypesAssumption, LenOfFunction
<1>4. /\ d.types = t /\ d.maps \in MapsOf(t)
      /\ d.kind \in {"WASM_TYPE_STRUCT", "WASM_TYPE_FUNC"}
      /\ d.param_count \in 0 .. Len(t)
    BY <1>1, <1>3
<1> DEFINE m == d.maps
<1>5. PICK k \in 0 .. Len(t) : m \in [1 .. k -> Entries(t)]
    BY <1>4 DEF MapsOf
<1>6. m \in Seq(Entries(t)) /\ Len(m) = k
    BY <1>3, <1>5, LenOfFunction
<1>7. /\ \A a, b \in DOMAIN m : a < b => m[a].index < m[b].index
      /\ ~SparseMaps => {m[a].index : a \in DOMAIN m} = RefPositions(t)
    BY <1>4 DEF MapsOf
<1>8. ~SparseMaps => \A i \in RefPositions(t) : \E w \in 1 .. Len(m) : m[w].index = i
    BY <1>5, <1>6, <1>7
<1>9. QED
    BY <1>3, <1>4, <1>5, <1>6, <1>7, <1>8
(***************************************************************************)
(* What str() prints for one defined type                                  *)
(***************************************************************************)
\* With dense maps, the lookup of a reference-handle position finds one
\* entry, and that entry holds the position.
LEMMA RefPositionMatch ==
    ASSUME ~SparseMaps, NEW d \in DefinedTypes, NEW i \in RefPositions(d.types)
    PROVE  \E w \in 1 .. Len(d.maps) : /\ Matches(d, i) = << d.maps[w] >>
                                      /\ d.maps[w].index = i
<1>1. /\ d.maps \in Seq(Entries(d.types))
      /\ \A a, b \in 1 .. Len(d.maps) : a < b => d.maps[a].index < d.maps[b].index
      /\ \E w \in 1 .. Len(d.maps) : d.maps[w].index = i
    BY DefinedTypeShape
<1>2. PICK w \in 1 .. Len(d.maps) : d.maps[w].index = i
    BY <1>1
<1>3. Len(d.maps) \in Nat /\ \A a \in 1 .. Len(d.maps) : d.maps[a].index \in Int
    <2>1. Len(d.maps) \in Nat /\ d.maps \in [1 .. Len(d.maps) -> Entries(d.types)]
        BY <1>1, LenProperties
    <2>2. QED
        BY <2>1 DEF Entries
<1>4. Matches(d, i) = << d.maps[w] >>
    BY <1>1, <1>2, <1>3, MatchesUnique
<1>5. QED
    BY <1>2, <1>4

\* Every position str() prints, of a struct's fields or of a function's
\* parameters and results, shows what Expected says of it.
LEMMA DescriptionResolved ==
    ASSUME ~SparseMaps, NEW d \in DefinedTypes
    PROVE  \A k \in 1 .. Len(Printed(TypeDescription(d))) :
               Printed(TypeDescription(d))[k].typeids = Expected(d, k - 1)
<1> DEFINE L == Len(d.types)
           p == d.param_count
<1>1. /\ d.types \in Seq(DOMAIN WASM_TYPE_MAP) /\ L \in Nat
      /\ d.kind \in {"WASM_TYPE_STRUCT", "WASM_TYPE_FUNC"}
      /\ p \in 0 .. L
    BY DefinedTypeShape, LenProperties
\* The type indexes a reference-handle position shows.
<1>2. ASSUME NEW k \in 1 .. L, IsRefHt(d.types[k])
      PROVE  /\ struct_typeids(d, k - 1) = Expected(d, k - 1)
             /\ << _get_reftype_id(d, k - 1) >> = Expected(d, k - 1)
    <2>1. k - 1 \in RefPositions(d.types) /\ (k - 1) + 1 = k
        BY <1>1, <1>2 DEF RefPositions
    <2>2. PICK w \in 1 .. Len(d.maps) : Matches(d, k - 1) = << d.maps[w] >>
        BY <2>1, RefPositionMatch
    <2>3. Expected(d, k - 1) = << d.maps[w].type_idx >>
        BY <2>1, <2>2, <1>2 DEF Expected
    <2>7. Len(Matches(d, k - 1)) = 1 /\ Matches(d, k - 1)[1] = d.maps[w]
          /\ Matches(d, k - 1) # << >>
        BY <2>2
    <2>4. struct_typeids(d, k - 1) = << d.maps[w].type_idx >>
        <3> DEFINE M == Matches(d, k - 1)
                   y == d.maps[w].type_idx
                   f == [x \in 1 .. Len(M) |-> M[x].type_idx]
        <3>1. struct_typeids(d, k - 1) = f
            BY DEF struct_typeids
        <3>0. Len(M) = 1 /\ M[1].type_idx = y
            BY <2>7
        <3> HIDE DEF M
        <3>6. f = [x \in 1 .. 1 |-> M[x].type_idx]
            BY <3>0 DEF f
        <3>7. \A x \in 1 .. 1 : M[x].type_idx = y
            BY <3>0
        <3>8. << y >> \in [1 .. 1 -> {y}]
            OBVIOUS
        <3>2. f \in [1 .. 1 -> {y}] /\ << y >> \in [1 .. 1 -> {y}]
            BY <3>6, <3>7, <3>8
        <3> HIDE DEF y, f
        <3>3. /\ f \in Seq({y}) /\ Len(f) = 1
              /\ << y >> \in Seq({y}) /\ Len(<< y >>) = 1
            BY <3>2, LenOfFunction
        <3>4. \A x \in 1 .. 1 : f[x] = << y >>[x]
            BY <3>6, <3>7 DEF f
        <3>5. QED
            BY <3>1, <3>3, <3>4, SeqEqual DEF y
    <2>5. _get_reftype_id(d, k - 1) = d.maps[w].type_idx
        BY <2>7 DEF _get_reftype_id
    <2>6. QED
        BY <2>3, <2>4, <2>5
\* A position that is no reference handle shows none.
<1>3. ASSUME NEW k \in 1 .. L, ~IsRefHt(d.types[k])
      PROVE  Expected(d, k - 1) = << >>
    BY <1>1, <1>3 DEF Expected
<1>4. CASE d.kind = "WASM_TYPE_STRUCT"
    <2>1. Printed(TypeDescription(d)) = [k \in 1 .. L |-> FieldInfo(d, k - 1)]
        BY <1>4 DEF Printed, TypeDescription, _get_fields_info
    <2>2. Len([k \in 1 .. L |-> FieldInfo(d, k - 1)]) = L
        BY <1>1, LenOfFunction
    <2>3. \A k \in 1 .. L : FieldInfo(d, k - 1).typeids = Expected(d, k - 1)
        <3> SUFFICES ASSUME NEW k \in 1 .. L
                     PROVE  FieldInfo(d, k - 1).typeids = Expected(d, k - 1)
            OBVIOUS
        <3>1. (k - 1) + 1 = k
            BY <1>1
        <3>2. QED
            BY <3>1, <1>2, <1>3 DEF FieldInfo
    <2>4. QED
        BY <2>1, <2>2, <2>3
<1>5. CASE d.kind = "WASM_TYPE_FUNC"
    <2> DEFINE S == {PositionInfo(d, x) : x \in Int}
               ps == [k \in 1 .. p |-> PositionInfo(d, k - 1)]
               rs == [k \in 1 .. L - p |-> PositionInfo(d, p + k - 1)]
    <2>1. Printed(TypeDescription(d)) = ps \o rs
        BY <1>5 DEF Printed, TypeDescription, _get_parameter_types, _get_result_types
    <2>2. ps \in Seq(S) /\ Len(ps) = p /\ rs \in Seq(S) /\ Len(rs) = L - p
        <3>1. ps \in [1 .. p -> S] /\ rs \in [1 .. L - p -> S] /\ p \in Nat /\ L - p \in Nat
            BY <1>1
        <3> HIDE DEF S, ps, rs
        <3>2. QED
            BY <3>1, LenOfFunction
    <2> HIDE DEF S, ps, rs
    <2>3. /\ Len(ps \o rs) = L
          /\ \A k \in 1 .. L : (ps \o rs)[k] = IF k <= p THEN ps[k] ELSE rs[k - p]
        <3>1. /\ Len(ps \o rs) = Len(ps) + Len(rs)
              /\ \A k \in 1 .. Len(ps) + Len(rs) :
                    (ps \o rs)[k] = IF k <= Len(ps) THEN ps[k] ELSE rs[k - Len(ps)]
            BY <2>2, ConcatProperties
        <3>2. QED
            BY <3>1, <2>2, <1>1
    <2>4. \A k \in 1 .. L : (ps \o rs)[k] = PositionInfo(d, k - 1)
        <3> SUFFICES ASSUME NEW k \in 1 .. L
                     PROVE  (ps \o rs)[k] = PositionInfo(d, k - 1)
            OBVIOUS
        <3>1. CASE k <= p
            <4>1. k \in 1 .. p
                BY <3>1, <1>1
            <4>2. QED
                BY <4>1, <3>1, <2>3 DEF ps
        <3>2. CASE ~(k <= p)
            <4>1. k - p \in 1 .. L - p /\ p + (k - p) - 1 = k - 1
                BY <3>2, <1>1
            <4>2. QED
                BY <4>1, <3>2, <2>3 DEF rs
        <3>3. QED
            BY <3>1, <3>2
    <2>5. \A k \in 1 .. L : PositionInfo(d, k - 1).typeids = Expected(d, k - 1)
        <3> SUFFICES ASSUME NEW k \in 1 .. L
                     PROVE  PositionInfo(d, k - 1).typeids = Expected(d, k - 1)
            OBVIOUS
        <3>1. (k - 1) + 1 = k
            BY <1>1
        <3>2. QED
            BY <3>1, <1>2, <1>3 DEF PositionInfo
    <2>6. QED
        BY <2>1, <2>3, <2>4, <2>5
<1>6. QED
    BY <1>1, <1>4, <1>5
(***************************************************************************)
(* The dump command                                                        *)
(***************************************************************************)
\* What is printed is str() of the type printed, and while the command is
\* at work that type is one the runtime writes.  RefTypeResolved alone is
\* not inductive: it speaks of out and type only through Printed and
\* Expected, and says nothing of where they came from.
IInv == /\ out = TypeDescription(type)
        /\ busy => type \in DefinedTypes

LEMMA IInvInit == Init => IInv
BY DEF Init, IInv

LEMMA IInvNext == IInv /\ [Next]_vars => IInv'
<1> SUFFICES ASSUME IInv, [Next]_vars PROVE IInv'
    OBVIOUS
<1>1. CASE wamr_type_dump
    BY <1>1 DEF wamr_type_dump, IInv
<1>2. CASE prompt
    BY <1>2 DEF prompt, IInv
<1>3. CASE UNCHANGED vars
    BY <1>3 DEF vars, IInv
<1>4. QED
    BY <1>1, <1>2, <1>3 DEF Next

\* With the dense ref_type_maps WAMR's loader writes, every reference-
\* handle field of a struct and every reference-handle parameter and result
\* of a function that wamr_type_dump prints shows exactly the type index
\* of its entry, in the one index space _get_result_types continues from
\* the parameters, for every set of value types, type indexes and bound.
THEOREM RefTypeResolvedHolds ==
    ASSUME ~SparseMaps
    PROVE  Spec => []RefTypeResolved
<1>1. IInv => RefTypeResolved
    <2> SUFFICES ASSUME IInv, busy
                 PROVE  \A i \in 1 .. Len(Printed(out)) :
                            Printed(out)[i].typeids = Expected(type, i - 1)
        BY DEF RefTypeResolved
    <2>1. type \in DefinedTypes /\ out = TypeDescription(type)
        BY DEF IInv
    <2>2. QED
        BY <2>1, DescriptionResolved
<1>2. QED
    BY <1>1, IInvInit, IInvNext, PTL DEF Spec
(***************************************************************************)
(* Type correctness                                                        *)
(***************************************************************************)
\* The loop collects entries of the table and nothing else.
LEMMA MatchesEntries ==
    ASSUME NEW d, NEW i, NEW X, d.maps \in Seq(X)
    PROVE  Matches(d, i) \in Seq(X)
<1> DEFINE n == Len(d.maps)
           s == Scan(d, i)
           T == {j \in 0 .. n : s[j] \notin Seq(X)}
<1>a. n \in Nat
    BY LenProperties
<1>0. s = [j \in 0 .. Len(d.maps) |-> IF j = 0 THEN << >>
                            ELSE IF d.maps[j].index = i THEN Append(s[j - 1], d.maps[j])
                            ELSE s[j - 1]]
    BY <1>a, ScanDef
<1> HIDE DEF s
<1>1. ASSUME NEW j \in 1 .. n
      PROVE  s[j] = IF d.maps[j].index = i THEN Append(s[j - 1], d.maps[j]) ELSE s[j - 1]
    <2>1. j \in 0 .. n /\ (j = 0) = FALSE
        BY <1>a
    <2>2. QED
        BY <1>0, <2>1, Zenon
<1>2. s[0] = << >>
    <2>1. 0 \in 0 .. n
        BY <1>a
    <2>2. QED
        BY <1>0, <2>1, Zenon
<1>3. T = {}
    <2> SUFFICES ASSUME T # {} PROVE FALSE
        OBVIOUS
    <2>0. T \in SUBSET Nat
        BY <1>a
    <2>1. PICK j \in T : \A k \in T : j <= k
        BY <2>0, NatLeast
    <2>7. s[0] \in Seq(X)
        BY <1>2, EmptySeq
    <2>2. j \in 1 .. n /\ s[j] \notin Seq(X)
        BY <2>1, <2>7, <1>a
    <2>3. s[j - 1] \in Seq(X)
        BY <2>1, <2>2, <1>a
    <2>4. d.maps[j] \in X
        BY <2>2, ElementOfSeq
    <2>5. Append(s[j - 1], d.maps[j]) \in Seq(X)
        BY <2>3, <2>4, AppendProperties
    <2>6. QED
        BY <2>2, <2>3, <2>5, <1>1
<1>4. QED
    BY <1>3, <1>a, MatchesScan DEF s, n

\* A position's description, as a struct field or a function position.
LEMMA InfoType ==
    ASSUME NEW d, d.types \in Seq(DOMAIN WASM_TYPE_MAP),
           d.maps \in Seq(Entries(d.types)),
           NEW i \in 0 .. Len(d.types) - 1
    PROVE  FieldInfo(d, i) \in Description /\ PositionInfo(d, i) \in Description
<1> DEFINE I == TypeIdxs \cup {None, Unknown}
           c == d.types[i + 1]
           M == Matches(d, i)
<1>1. c \in DOMAIN WASM_TYPE_MAP
    BY ElementOfSeq
<1>2. M \in Seq(Entries(d.types))
    BY MatchesEntries
<1>3. << >> \in Seq(I)
    BY EmptySeq
<1>4. struct_typeids(d, i) \in Seq(I)
    <2>1. Len(M) \in Nat /\ M \in [1 .. Len(M) -> Entries(d.types)]
        BY <1>2, LenProperties
    <2>2. struct_typeids(d, i) \in [1 .. Len(M) -> I]
        BY <2>1 DEF struct_typeids, Entries
    <2>3. QED
        BY <2>1, <2>2, LenOfFunction
<1>5. << _get_reftype_id(d, i) >> \in Seq(I)
    <2>1. _get_reftype_id(d, i) \in I
        <3>1. M # << >> => M[1] \in Entries(d.types)
            BY <1>2, EmptySeq, ElementOfSeq
        <3>2. QED
            BY <3>1 DEF _get_reftype_id, Entries
    <2>2. << _get_reftype_id(d, i) >> \in [1 .. 1 -> I]
        BY <2>1
    <2>3. QED
        BY <2>2, LenOfFunction
<1>6. WASM_TYPE_MAP[c] \in {WASM_TYPE_MAP[x] : x \in DOMAIN WASM_TYPE_MAP}
    BY <1>1
<1> HIDE DEF I, c, M
<1>7. QED
    BY <1>3, <1>4, <1>5, <1>6 DEF FieldInfo, PositionInfo, Description, I, c
\* str() of a well-formed type is a list of described fields, or of
\* described parameters and results.
LEMMA DescriptionType ==
    ASSUME NEW d, d.types \in Seq(DOMAIN WASM_TYPE_MAP),
           d.maps \in Seq(Entries(d.types)),
           d.param_count \in 0 .. Len(d.types),
           d.kind \in {"WASM_TYPE_STRUCT", "WASM_TYPE_FUNC", "none"}
    PROVE  \/ TypeDescription(d) \in [kind : {"WASM_TYPE_STRUCT"}, fields : Seq(Description)]
           \/ TypeDescription(d) \in [kind : {"WASM_TYPE_FUNC", "none"},
                                     params : Seq(Description),
                                     results : Seq(Description)]
<1> DEFINE L == Len(d.types)
           p == d.param_count
<1>1. L \in Nat /\ p \in 0 .. L
    BY LenProperties
<1>2. \A i \in 0 .. L - 1 : FieldInfo(d, i) \in Description /\ PositionInfo(d, i) \in Description
    BY InfoType
<1>3. CASE d.kind = "WASM_TYPE_STRUCT"
    <2>1. _get_fields_info(d) \in [1 .. L -> Description]
        BY <1>1, <1>2 DEF _get_fields_info
    <2>2. _get_fields_info(d) \in Seq(Description)
        BY <1>1, <2>1, LenOfFunction
    <2>3. QED
        BY <1>3, <2>2 DEF TypeDescription
<1>4. CASE d.kind # "WASM_TYPE_STRUCT"
    <2>1. _get_parameter_types(d) \in [1 .. p -> Description]
        BY <1>1, <1>2 DEF _get_parameter_types
    <2>2. _get_result_types(d) \in [1 .. L - p -> Description]
        BY <1>1, <1>2 DEF _get_result_types
    <2>6. p \in Nat /\ L - p \in Nat
        BY <1>1
    <2>7. _get_parameter_types(d) \in Seq(Description)
        BY <2>6, <2>1, LenOfFunction
    <2>8. _get_result_types(d) \in Seq(Description)
        BY <2>6, <2>2, LenOfFunction
    <2>3. _get_parameter_types(d) \in Seq(Description)
          /\ _get_result_types(d) \in Seq(Description)
        BY <2>7, <2>8
    <2>4. d.kind \in {"WASM_TYPE_FUNC", "none"}
        BY <1>4
    <2>5. QED
        BY <1>4, <2>3, <2>4 DEF TypeDescription
<1>5. QED
    BY <1>3, <1>4

\* The type wamr_type_dump has printed is nothing or a type the runtime
\* writes, and what it printed is, for every defined type and every value
\* of the constants, a list of described fields or of described
\* parameters and results whose type indexes are the table's, None or
\* the unknown marker.
THEOREM TypeCorrect == Spec => []TypeOK
<1>1. Init => TypeOK
    <2> SUFFICES ASSUME Init PROVE TypeOK
        OBVIOUS
    <2>1. /\ NoType.types \in Seq(DOMAIN WASM_TYPE_MAP)
          /\ NoType.maps \in Seq(Entries(NoType.types))
          /\ NoType.param_count \in 0 .. Len(NoType.types)
          /\ NoType.kind \in {"WASM_TYPE_STRUCT", "WASM_TYPE_FUNC", "none"}
        BY EmptySeq DEF NoType
    <2>2. QED
        BY <2>1, DescriptionType DEF Init, TypeOK
<1>2. TypeOK /\ [Next]_vars => TypeOK'
    <2> SUFFICES ASSUME TypeOK, [Next]_vars PROVE TypeOK'
        OBVIOUS
    <2>1. CASE wamr_type_dump
        <3>1. PICK d \in DefinedTypes : type' = d /\ out' = TypeDescription(d)
            BY <2>1 DEF wamr_type_dump
        <3>2. /\ d.types \in Seq(DOMAIN WASM_TYPE_MAP)
              /\ d.maps \in Seq(Entries(d.types))
              /\ d.param_count \in 0 .. Len(d.types)
              /\ d.kind \in {"WASM_TYPE_STRUCT", "WASM_TYPE_FUNC", "none"}
            BY DefinedTypeShape
        <3>3. QED
            BY <2>1, <3>1, <3>2, DescriptionType DEF wamr_type_dump, TypeOK
    <2>2. CASE prompt
        <3>1. /\ NoType.types \in Seq(DOMAIN WASM_TYPE_MAP)
              /\ NoType.maps \in Seq(Entries(NoType.types))
              /\ NoType.param_count \in 0 .. Len(NoType.types)
              /\ NoType.kind \in {"WASM_TYPE_STRUCT", "WASM_TYPE_FUNC", "none"}
            BY EmptySeq DEF NoType
        <3>2. QED
            BY <2>2, <3>1, DescriptionType DEF prompt, TypeOK
    <2>3. CASE UNCHANGED vars
        BY <2>3 DEF vars, TypeOK
    <2>4. QED
        BY <2>1, <2>2, <2>3 DEF Next
<1>3. QED
    BY <1>1, <1>2, PTL DEF Spec
====
