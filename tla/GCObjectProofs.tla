-------------------------- MODULE GCObjectProofs --------------------------
(***************************************************************************)
(* Proofs about the heap-object decoder (GCObject): decoding what the WAMR *)
(* runtime wrote gives it back, for every layout WAMRLayoutAssumption      *)
(* admits.  The arithmetic rests on lemmas about Pow2 (`1 << k`), proved   *)
(* by induction in the form of a least counterexample.                     *)
(***************************************************************************)
EXTENDS GCObject, NaturalsInduction, WellFoundedInduction, TLAPS

(***************************************************************************)
(* Induction over Nat, as a least counterexample: a nonempty set of        *)
(* naturals has a least element.                                           *)
(***************************************************************************)
LEMMA NatLeast ==
    ASSUME NEW T \in SUBSET Nat, T # {}
    PROVE  \E m \in T : \A k \in T : m <= k
<1>1. \E x \in T : \A y \in T : ~(<<y, x>> \in OpToRel(<, Nat))
    BY NatLessThanWellFounded, WFMin
<1>2. \A x, y \in Nat : <<y, x>> \in OpToRel(<, Nat) <=> y < x
    BY DEF OpToRel
<1>3. PICK x \in T : \A y \in T : ~(<<y, x>> \in OpToRel(<, Nat))
    BY <1>1
<1>4. \A y \in T : ~(y < x)
    BY <1>2, <1>3
<1>5. QED
    BY <1>4

(***************************************************************************)
(* Pow2, the `1 << k` of the code                                          *)
(***************************************************************************)
\* The recursive definition of Pow2 has the solution it is written as.
LEMMA Pow2Def ==
    /\ Pow2[0] = 1
    /\ \A k \in Nat : Pow2[k + 1] = 2 * Pow2[k]
<1>1. NatInductiveDefHypothesis(Pow2, 1, LAMBDA v, n : 2 * v)
    BY DEF NatInductiveDefHypothesis, Pow2
<1>2. NatInductiveDefConclusion(Pow2, 1, LAMBDA v, n : 2 * v)
    BY <1>1, NatInductiveDef
<1>3. QED
    BY <1>2 DEF NatInductiveDefConclusion

\* Every power of two is a positive natural.
LEMMA Pow2Nat == \A k \in Nat : Pow2[k] \in Nat \ {0}
<1> DEFINE T == {k \in Nat : Pow2[k] \notin Nat \ {0}}
<1> SUFFICES ASSUME T # {} PROVE FALSE
    OBVIOUS
<1>1. PICK m \in T : \A k \in T : m <= k
    BY NatLeast
<1>2. m # 0 /\ m - 1 \in Nat /\ m - 1 \notin T
    BY <1>1, Pow2Def
<1>3. Pow2[(m - 1) + 1] = 2 * Pow2[m - 1]
    BY <1>2, Pow2Def
<1>4. QED
    BY <1>1, <1>2, <1>3

\* Shifting by a + b is shifting by a, then by b.
LEMMA Pow2Add == \A a, b \in Nat : Pow2[a + b] = Pow2[a] * Pow2[b]
<1> SUFFICES ASSUME NEW a \in Nat PROVE \A b \in Nat : Pow2[a + b] = Pow2[a] * Pow2[b]
    OBVIOUS
<1> DEFINE T == {b \in Nat : Pow2[a + b] # Pow2[a] * Pow2[b]}
<1> SUFFICES ASSUME T # {} PROVE FALSE
    OBVIOUS
<1>1. PICK m \in T : \A k \in T : m <= k
    BY NatLeast
<1>2. m # 0
    <2>1. Pow2[a + 0] = Pow2[a] * Pow2[0]
        BY Pow2Def, Pow2Nat
    <2>2. QED
        BY <2>1, <1>1
<1>3. m - 1 \in Nat /\ Pow2[a + (m - 1)] = Pow2[a] * Pow2[m - 1]
    BY <1>1, <1>2
<1>4. /\ Pow2[(a + (m - 1)) + 1] = 2 * Pow2[a + (m - 1)]
      /\ Pow2[(m - 1) + 1] = 2 * Pow2[m - 1]
    BY <1>3, Pow2Def
<1>5. Pow2[a] \in Nat /\ Pow2[m - 1] \in Nat
    BY <1>3, Pow2Nat
<1>6. QED
    BY <1>1, <1>3, <1>4, <1>5

\* A larger shift gives at least twice as much.
LEMMA Pow2Less ==
    ASSUME NEW a \in Nat, NEW b \in Nat, a < b
    PROVE  2 * Pow2[a] <= Pow2[b]
<1>1. b = (a + 1) + (b - a - 1) /\ b - a - 1 \in Nat
    OBVIOUS
<1>2. Pow2[b] = Pow2[a + 1] * Pow2[b - a - 1]
    BY <1>1, Pow2Add
<1>3. Pow2[a + 1] = 2 * Pow2[a]
    BY Pow2Def
<1>4. Pow2[a] \in Nat /\ Pow2[b - a - 1] \in Nat \ {0}
    BY <1>1, Pow2Nat
<1>5. QED
    BY <1>2, <1>3, <1>4

\* A shift is at least as large as a smaller one.
LEMMA Pow2LessEq ==
    ASSUME NEW a \in Nat, NEW b \in Nat, a <= b
    PROVE  Pow2[a] <= Pow2[b]
<1>1. CASE a = b
    BY <1>1, Pow2Nat
<1>2. CASE a < b
    BY <1>2, Pow2Less, Pow2Nat
<1>3. QED
    BY <1>1, <1>2

(***************************************************************************)
(* Fields of a word: `>>`, `&` and get_bits                                *)
(***************************************************************************)
\* Dividing a * N + b by N, with b a remainder, gives a and leaves b.
LEMMA DivModUnique ==
    ASSUME NEW N \in Nat \ {0}, NEW a \in Int, NEW b \in 0 .. N - 1
    PROVE  (a * N + b) \div N = a /\ (a * N + b) % N = b
OBVIOUS

\* get_bits(val, size, offset) reads the field that starts at bit offset,
\* whatever lies below it and above it.
LEMMA GetBits ==
    ASSUME NEW off \in Nat, NEW sz \in Nat, NEW lo \in 0 .. Pow2[off] - 1,
           NEW v \in 0 .. Pow2[sz] - 1, NEW hi \in Nat
    PROVE  get_bits(lo + Pow2[off] * (v + Pow2[sz] * hi), sz, off) = v
<1> DEFINE Po == Pow2[off]
           Ps == Pow2[sz]
<1>1. /\ Po \in Nat \ {0} /\ Ps \in Nat \ {0}
      /\ lo \in 0 .. Po - 1 /\ v \in 0 .. Ps - 1
    BY Pow2Nat
<1> HIDE DEF Po, Ps
<1>2. (v + Ps * hi) \in Int /\ lo + Po * (v + Ps * hi) = (v + Ps * hi) * Po + lo
    BY <1>1
<1>3. (lo + Po * (v + Ps * hi)) \div Po = v + Ps * hi
    BY <1>1, <1>2, DivModUnique
<1>4. (v + Ps * hi) % Ps = v
    <2>1. v + Ps * hi = hi * Ps + v
        BY <1>1
    <2>2. QED
        BY <1>1, <2>1, DivModUnique
<1>5. QED
    BY <1>3, <1>4 DEF get_bits, Po, Ps

\* `(x & flag) == flag` holds of the flag itself.
LEMMA FlagOfItself ==
    ASSUME NEW F \in Nat \ {0}
    PROVE  HasFlag(F, F)
BY DEF HasFlag

\* A multiple of 2 * F has the bit F clear (an aligned RTT address).
LEMMA FlagClearAligned ==
    ASSUME NEW F \in Nat \ {0}, NEW a \in Nat, a % (2 * F) = 0
    PROVE  ~HasFlag(a, F)
<1> DEFINE N == 2 * F
<1>1. N \in Nat \ {0} /\ a % N = 0
    OBVIOUS
<1> HIDE DEF N
<1>2. a \div N \in Nat /\ a = (a \div N) * N
    BY <1>1
<1> DEFINE w == 2 * (a \div N)
<1>3. w \in Nat /\ a = w * F + 0 /\ w % 2 = 0
    BY <1>2 DEF N
<1> HIDE DEF w
<1>4. a \div F = w
    <2>1. (w * F + 0) \div F = w
        BY <1>3, DivModUnique
    <2>2. QED
        BY <1>3, <2>1
<1>5. QED
    BY <1>3, <1>4 DEF HasFlag

\* Two different single bits: neither is set in the other.
LEMMA FlagsDisjoint ==
    ASSUME NEW F \in Nat, NEW G \in Nat, IsPow2(F), IsPow2(G), F # G
    PROVE  ~HasFlag(G, F)
<1>1. PICK e \in Nat : F = Pow2[e]
    BY DEF IsPow2
<1>2. PICK y \in Nat : G = Pow2[y]
    BY DEF IsPow2
<1>3. e # y
    BY <1>1, <1>2
<1>4. F \in Nat \ {0} /\ G \in Nat \ {0}
    BY <1>1, <1>2, Pow2Nat
<1>5. CASE y < e
    <2>1. G < F
        BY <1>1, <1>2, <1>4, <1>5, Pow2Less
    <2>2. G \div F = 0
        BY <1>4, <2>1
    <2>3. QED
        BY <1>4, <2>2 DEF HasFlag
<1>6. CASE e < y
    <2> DEFINE w == 2 * Pow2[y - e - 1]
    <2>1. G = Pow2[e] * Pow2[(y - e - 1) + 1]
        BY <1>2, <1>6, Pow2Add
    <2>2. Pow2[(y - e - 1) + 1] = 2 * Pow2[y - e - 1] /\ Pow2[y - e - 1] \in Nat
        BY <1>6, Pow2Def, Pow2Nat
    <2>3. w \in Nat /\ G = w * F + 0 /\ w % 2 = 0
        BY <1>1, <1>4, <2>1, <2>2
    <2> HIDE DEF w
    <2>4. G \div F = w
        BY <1>4, <2>3
    <2>5. QED
        BY <1>4, <2>3, <2>4 DEF HasFlag
<1>7. QED
    BY <1>3, <1>5, <1>6

(***************************************************************************)
(* Decoding what the runtime wrote                                         *)
(***************************************************************************)
\* The layout constants are naturals in the order WAMR gives them.
LEMMA LayoutFacts ==
    /\ HMU_SIZE_SIZE \in Nat /\ HMU_SIZE_OFFSET \in Nat /\ HMU_UT_SIZE \in Nat
    /\ HMU_UT_OFFSET \in Nat /\ HMU_P_OFFSET \in Nat /\ HMU_WO_MB_OFFSET \in Nat
    /\ WASM_ARRAY_LENGTH_SHIFT \in Nat /\ WASM_ARRAY_ELEM_SIZE_MASK \in Nat
    /\ HMU_SIZE_OFFSET + HMU_SIZE_SIZE <= HMU_WO_MB_OFFSET
    /\ HMU_WO_MB_OFFSET < HMU_P_OFFSET /\ HMU_P_OFFSET < HMU_UT_OFFSET
BY LayoutAssumption, WAMRLayoutAssumption

\* hmu_get_size and hmu_get_ut read back the size and the usage type
\* Encode wrote into the HMU header, whatever the pinned and mark bits.
LEMMA HmuDecode ==
    ASSUME NEW o \in Objects, NEW a
    PROVE  /\ Encode(o, a).hmu \in Nat
           /\ hmu_get_size(Encode(o, a).hmu) = o.size
           /\ hmu_get_ut(Encode(o, a).hmu) = HMU_UT_MAP[o.ut]
<1> DEFINE SO == HMU_SIZE_OFFSET   SS == HMU_SIZE_SIZE
           MO == HMU_WO_MB_OFFSET  PO == HMU_P_OFFSET
           UO == HMU_UT_OFFSET     US == HMU_UT_SIZE
           B == SO + SS
           x == o.size \div 8  u == o.ut  p == o.pinned  mk == o.marked
           h == Encode(o, a).hmu
<1>1. h = x * Pow2[SO] + u * Pow2[UO] + p * Pow2[PO] + mk * Pow2[MO]
    BY DEF Encode
<1>2. /\ x \in 0 .. Pow2[SS] - 1 /\ o.size = x * 8
      /\ u \in 0 .. Pow2[US] - 1 /\ p \in {0, 1} /\ mk \in {0, 1}
    <2>1. PICK k \in 0 .. Pow2[SS] - 1 : o.size = 8 * k
        BY WAMRLayoutAssumption DEF Objects
    <2>2. Pow2[SS] \in Nat
        BY LayoutFacts, Pow2Nat
    <2>3. x = k
        BY <2>1, <2>2
    <2>4. u \in 0 .. Pow2[US] - 1
        BY LayoutAssumption DEF Objects
    <2>5. QED
        BY <2>1, <2>3, <2>4 DEF Objects
<1> DEFINE P_SO == Pow2[SO]  P_SS == Pow2[SS]  P_B == Pow2[B]  P_MO == Pow2[MO]
           P_PO == Pow2[PO]  P_UO == Pow2[UO]  P_US == Pow2[US]
           Q_M == Pow2[MO - B]  Q_P == Pow2[PO - B]  Q_U == Pow2[UO - B]
<1>3. /\ P_SO \in Nat \ {0} /\ P_SS \in Nat \ {0} /\ P_B \in Nat \ {0}
      /\ P_MO \in Nat \ {0} /\ P_PO \in Nat \ {0} /\ P_UO \in Nat \ {0}
      /\ P_US \in Nat \ {0}
      /\ Q_M \in Nat \ {0} /\ Q_P \in Nat \ {0} /\ Q_U \in Nat \ {0}
      /\ x \in 0 .. P_SS - 1 /\ u \in 0 .. P_US - 1
    BY <1>2, LayoutFacts, Pow2Nat
<1>4. /\ P_B = P_SO * P_SS
      /\ P_MO = P_B * Q_M /\ P_PO = P_B * Q_P /\ P_UO = P_B * Q_U
    <2>1. /\ SO \in Nat /\ SS \in Nat /\ B \in Nat
          /\ MO - B \in Nat /\ PO - B \in Nat /\ UO - B \in Nat
          /\ MO = B + (MO - B) /\ PO = B + (PO - B) /\ UO = B + (UO - B)
        BY LayoutFacts
    <2> HIDE DEF SO, SS, MO, PO, UO, B
    <2>2. P_B = P_SO * P_SS
        BY <2>1, Pow2Add DEF B
    <2>3. Pow2[B + (MO - B)] = Pow2[B] * Pow2[MO - B]
        BY <2>1, Pow2Add
    <2>4. Pow2[B + (PO - B)] = Pow2[B] * Pow2[PO - B]
        BY <2>1, Pow2Add
    <2>5. Pow2[B + (UO - B)] = Pow2[B] * Pow2[UO - B]
        BY <2>1, Pow2Add
    <2>6. QED
        BY <2>1, <2>2, <2>3, <2>4, <2>5
<1>5. /\ P_B <= P_MO /\ 2 * P_MO <= P_PO /\ 2 * P_PO <= P_UO
    BY LayoutFacts, Pow2LessEq, Pow2Less
<1> HIDE DEF P_SO, P_SS, P_B, P_MO, P_PO, P_UO, P_US, Q_M, Q_P, Q_U
<1> HIDE DEF SO, SS, MO, PO, UO, US, B
<1>6. h \in Nat
    BY <1>1, <1>2, <1>3 DEF P_SO, P_MO, P_PO, P_UO
<1> HIDE DEF x, u, p, mk, h
<1>7. get_bits(h, SS, SO) = x
    <2> DEFINE hi == mk * Q_M + p * Q_P + u * Q_U
    <2>1. hi \in Nat
        BY <1>2, <1>3
    <2>2. h = 0 + P_SO * (x + P_SS * hi)
        BY <1>1, <1>2, <1>3, <1>4 DEF P_SO, P_MO, P_PO, P_UO
    <2> HIDE DEF hi
    <2>3. get_bits(0 + Pow2[SO] * (x + Pow2[SS] * hi), SS, SO) = x
        <3>1. SO \in Nat /\ SS \in Nat /\ 0 \in 0 .. Pow2[SO] - 1
            BY <1>3, LayoutFacts DEF SO, SS, P_SO
        <3>2. QED
            BY <1>2, <2>1, <3>1, GetBits
    <2>4. QED
        BY <2>2, <2>3 DEF P_SO, P_SS
<1>8. get_bits(h, US, UO) = u
    <2> DEFINE lo == x * P_SO + p * P_PO + mk * P_MO
    <2>1. x * P_SO < P_B
        <3>1. (P_SS - 1 - x) * P_SO >= 0
            BY <1>2, <1>3
        <3>2. x * P_SO = P_SS * P_SO - P_SO - (P_SS - 1 - x) * P_SO
            BY <1>2, <1>3
        <3>3. QED
            BY <1>3, <1>4, <3>1, <3>2
    <2>2. lo \in 0 .. P_UO - 1
        BY <1>2, <1>3, <1>5, <2>1
    <2>3. h = lo + P_UO * (u + P_US * 0)
        BY <1>1, <1>2, <1>3 DEF P_SO, P_MO, P_PO, P_UO
    <2> HIDE DEF lo
    <2>4. get_bits(lo + Pow2[UO] * (u + Pow2[US] * 0), US, UO) = u
        <3>1. UO \in Nat /\ US \in Nat /\ lo \in 0 .. Pow2[UO] - 1
            BY <2>2, LayoutFacts DEF UO, US, P_UO
        <3>2. QED
            BY <1>2, <3>1, GetBits
    <2>5. QED
        BY <2>3, <2>4 DEF P_UO, P_US
<1>9. QED
    BY <1>2, <1>6, <1>7, <1>8 DEF hmu_get_size, hmu_get_ut, x, u, h, SS, SO, US, UO

\* The two sentinel flags are different single bits.
LEMMA FlagFacts ==
    /\ WASM_OBJ_EXTERNREF_OBJ_FLAG \in Nat \ {0}
    /\ WASM_OBJ_ANYREF_OBJ_FLAG \in Nat \ {0}
    /\ HasFlag(WASM_OBJ_EXTERNREF_OBJ_FLAG, WASM_OBJ_EXTERNREF_OBJ_FLAG)
    /\ HasFlag(WASM_OBJ_ANYREF_OBJ_FLAG, WASM_OBJ_ANYREF_OBJ_FLAG)
    /\ ~HasFlag(WASM_OBJ_ANYREF_OBJ_FLAG, WASM_OBJ_EXTERNREF_OBJ_FLAG)
<1> DEFINE EF == WASM_OBJ_EXTERNREF_OBJ_FLAG
           AF == WASM_OBJ_ANYREF_OBJ_FLAG
<1>1. /\ IsPow2(EF) /\ IsPow2(AF) /\ EF # AF
    BY LayoutAssumption, WAMRLayoutAssumption
<1>2. EF \in Nat \ {0} /\ AF \in Nat \ {0}
    BY <1>1, Pow2Nat DEF IsPow2
<1> HIDE DEF EF, AF
<1>3. HasFlag(EF, EF) /\ HasFlag(AF, AF)
    BY <1>2, FlagOfItself
<1>4. ~HasFlag(AF, EF)
    BY <1>1, <1>2, FlagsDisjoint
<1>5. QED
    BY <1>2, <1>3, <1>4 DEF EF, AF

\* KindIndex finds the TYPE_KIND position of every heap kind.
LEMMA KindIndexFacts ==
    ASSUME NEW k \in HeapKinds
    PROVE  /\ KindIndex(k) \in 0 .. Len(TYPE_KIND) - 1
           /\ TYPE_KIND[KindIndex(k) + 1] = k
<1>1. \E i \in 0 .. Len(TYPE_KIND) - 1 : TYPE_KIND[i + 1] = k
    <2>1. PICK i \in 1 .. Len(TYPE_KIND) : TYPE_KIND[i] = k
        BY WAMRLayoutAssumption
    <2>2. i - 1 \in 0 .. Len(TYPE_KIND) - 1 /\ (i - 1) + 1 = i
        BY LayoutAssumption
    <2>3. QED
        BY <2>1, <2>2
<1>2. QED
    BY <1>1 DEF KindIndex

\* WASMRtt decodes the header word Encode wrote: a sentinel for externref
\* and anyref objects, and the RTT of the kind otherwise.
LEMMA RttDecode ==
    ASSUME NEW o \in Objects, NEW a \in RttRefs
    PROVE  WASMRtt(Encode(o, a).header, Encode(o, a).rtt) = [type_flag |-> o.kind]
<1>1. CASE o.kind \in HeapKinds
    <2>1. Encode(o, a).header = a /\ Encode(o, a).rtt = KindIndex(o.kind)
        BY <1>1 DEF Encode, HeapKinds, EXTERNREF, ANYREF, ARRAY, STRUCT, FUNC
    <2>2. a \in Nat /\ a # NoRead
        BY LayoutAssumption
    <2>3. ~HasFlag(a, WASM_OBJ_EXTERNREF_OBJ_FLAG) /\ ~HasFlag(a, WASM_OBJ_ANYREF_OBJ_FLAG)
        BY <2>2, FlagFacts, WAMRLayoutAssumption, FlagClearAligned
    <2>4. KindIndex(o.kind) \in 0 .. Len(TYPE_KIND) - 1
          /\ TYPE_KIND[KindIndex(o.kind) + 1] = o.kind
        BY <1>1, KindIndexFacts
    <2>5. KindIndex(o.kind) # NoRead
        BY <2>4, LayoutAssumption
    <2>6. QED
        BY <2>1, <2>2, <2>3, <2>4, <2>5 DEF WASMRtt
<1>2. CASE o.kind = EXTERNREF
    <2>1. Encode(o, a).header = WASM_OBJ_EXTERNREF_OBJ_FLAG
        BY <1>2 DEF Encode, EXTERNREF, ANYREF
    <2>2. WASM_OBJ_EXTERNREF_OBJ_FLAG # NoRead
        BY FlagFacts, LayoutAssumption
    <2>3. QED
        BY <1>2, <2>1, <2>2, FlagFacts DEF WASMRtt
<1>3. CASE o.kind = ANYREF
    <2>1. Encode(o, a).header = WASM_OBJ_ANYREF_OBJ_FLAG
        BY <1>3 DEF Encode, EXTERNREF, ANYREF
    <2>2. WASM_OBJ_ANYREF_OBJ_FLAG # NoRead
        BY FlagFacts, LayoutAssumption
    <2>3. QED
        BY <1>3, <2>1, <2>2, FlagFacts DEF WASMRtt
<1>4. QED
    BY <1>1, <1>2, <1>3 DEF Objects, ObjKinds

\* create_type decodes the defined type Encode wrote: the kind of a heap
\* object, and None's kind for the others.
LEMMA TypeDecode ==
    ASSUME NEW o \in Objects, NEW a
    PROVE  create_type(Encode(o, a).def, Encode(o, a).typeBody)
               = IF o.kind \in HeapKinds THEN o.kind ELSE NoType
<1>1. Encode(o, a).typeBody = "ok"
    BY DEF Encode
<1>2. CASE o.kind \in HeapKinds
    <2>1. Encode(o, a).def = KindIndex(o.kind)
        BY <1>2 DEF Encode
    <2>2. KindIndex(o.kind) \in 0 .. Len(TYPE_KIND) - 1
          /\ TYPE_KIND[KindIndex(o.kind) + 1] = o.kind
        BY <1>2, KindIndexFacts
    <2>3. KindIndex(o.kind) # NoRead /\ "ok" # NoRead
        BY <2>2, LayoutAssumption
    <2>4. QED
        BY <1>1, <1>2, <2>1, <2>2, <2>3 DEF create_type, HeapKinds, ARRAY, STRUCT, FUNC
<1>3. CASE o.kind \notin HeapKinds
    <2>1. Encode(o, a).def = NoRead
        BY <1>3 DEF Encode
    <2>2. QED
        BY <1>3, <2>1 DEF create_type
<1>4. QED
    BY <1>2, <1>3

\* The array word Encode wrote reads back as the length (`>> SHIFT`) and
\* the element-size log (`& MASK`), the log staying below the length.
LEMMA ArrayDecode ==
    ASSUME NEW o \in Objects, o.kind = ARRAY, NEW a
    PROVE  /\ Encode(o, a).body \in Nat
           /\ Encode(o, a).body \div Pow2[WASM_ARRAY_LENGTH_SHIFT] = o.length
           /\ Encode(o, a).body % (WASM_ARRAY_ELEM_SIZE_MASK + 1) = o.elemLog2
<1> DEFINE LS == WASM_ARRAY_LENGTH_SHIFT
           len == o.length  e == o.elemLog2  body == Encode(o, a).body
<1>1. body = len * Pow2[LS] + e
    BY DEF Encode
<1>2. PICK j \in 0 .. LS : WASM_ARRAY_ELEM_SIZE_MASK + 1 = Pow2[j]
    BY WAMRLayoutAssumption
<1>3. LS \in Nat /\ LS - j \in Nat /\ LS = j + (LS - j)
    BY LayoutFacts
<1> DEFINE P_LS == Pow2[LS]  P_j == Pow2[j]  Q == Pow2[LS - j]
<1>4. /\ P_LS \in Nat \ {0} /\ P_j \in Nat \ {0} /\ Q \in Nat \ {0}
      /\ P_LS = P_j * Q /\ P_j <= P_LS
    <2>1. j \in Nat /\ j <= LS
        BY <1>3
    <2>2. Pow2[j + (LS - j)] = Pow2[j] * Pow2[LS - j]
        BY <1>3, <2>1, Pow2Add
    <2>3. QED
        BY <1>3, <2>1, <2>2, Pow2Nat, Pow2LessEq
<1>5. len \in Nat /\ e \in 0 .. P_j - 1
    <2>1. len \in Nat
        BY WAMRLayoutAssumption DEF Objects
    <2>2. e \in 0 .. WASM_ARRAY_ELEM_SIZE_MASK /\ WASM_ARRAY_ELEM_SIZE_MASK \in Nat
        BY LayoutAssumption DEF Objects
    <2>3. QED
        BY <1>2, <2>1, <2>2
<1> HIDE DEF P_LS, P_j, Q, len, e, body
<1>6. e \in 0 .. P_LS - 1
    BY <1>4, <1>5
<1>7. body \div P_LS = len
    BY <1>1, <1>4, <1>5, <1>6, DivModUnique DEF P_LS
<1>8. body % P_j = e
    <2>1. body = (len * Q) * P_j + e /\ len * Q \in Int
        BY <1>1, <1>4, <1>5 DEF P_LS
    <2>2. QED
        BY <1>4, <1>5, <2>1, DivModUnique
<1>9. body \in Nat
    <2>1. len * P_LS \in Nat
        BY <1>4, <1>5
    <2>2. QED
        BY <1>1, <1>5, <2>1 DEF P_LS
<1>10. QED
    BY <1>2, <1>7, <1>8, <1>9 DEF P_LS, P_j, len, e, body

\* The HMU header Encode wrote reads back as a well-formed HMU view with
\* the object's size and usage type.
LEMMA HmuView ==
    ASSUME NEW o \in Objects, NEW a
    PROVE  /\ HMU(Encode(o, a).hmu) \in HmuViews
           /\ HMU(Encode(o, a).hmu).size = o.size
           /\ HMU(Encode(o, a).hmu).ut = HMU_UT_MAP[o.ut]
<1>1. Encode(o, a).hmu \in Nat /\ Encode(o, a).hmu # NoRead
    BY HmuDecode, LayoutAssumption
<1>2. o.size \in Nat /\ o.ut \in DOMAIN HMU_UT_MAP
    BY WAMRLayoutAssumption DEF Objects
<1>3. Pow2[0] = 1 /\ Pow2[1] = 2
    BY Pow2Def
<1>4. /\ get_bit(HMU_P_OFFSET, 0) \in {0, 1}
      /\ get_bit(HMU_WO_MB_OFFSET, 0) \in {0, 1}
    BY <1>3, LayoutFacts DEF get_bit, get_bits
<1>5. QED
    BY <1>1, <1>2, <1>4, HmuDecode
       DEF HMU, HmuViews, hmu_get_pinuse, hmu_get_vo_marked

\* The kind of type create_type gives an object Encode wrote.
ObjType(o) == IF o.kind \in HeapKinds THEN o.kind ELSE NoType

\* create_obj on a reference to an object Encode wrote builds the object
\* of its kind, with its HMU, its body word and its defined type.
LEMMA ObjDecode ==
    ASSUME NEW o \in Objects, NEW a \in RttRefs, NEW r \in ObjRefs
    PROVE  create_obj(r, Encode(o, a))
               = [kind |-> o.kind, hmu |-> HMU(Encode(o, a).hmu),
                  body |-> Encode(o, a).body, type |-> ObjType(o)]
<1>1. get_bit(r, 0) = 0
    <2>1. r \in Nat /\ r % 2 = 0
        BY LayoutAssumption
    <2>2. Pow2[0] = 1 /\ Pow2[1] = 2
        BY Pow2Def
    <2>3. QED
        BY <2>1, <2>2 DEF get_bit, get_bits
<1>2. HMU(Encode(o, a).hmu) # MemoryError
    BY HmuView DEF HmuViews, MemoryError
<1>3. WASMRtt(Encode(o, a).header, Encode(o, a).rtt) = [type_flag |-> o.kind]
    BY RttDecode
<1>4. [type_flag |-> o.kind] # MemoryError /\ [type_flag |-> o.kind] # IndexError
    BY DEF MemoryError, IndexError
<1>5. create_type(Encode(o, a).def, Encode(o, a).typeBody) = ObjType(o)
    BY TypeDecode DEF ObjType
<1>6. o.kind \in HeapKinds \/ o.kind \in {EXTERNREF, ANYREF}
    BY DEF Objects, ObjKinds
<1>7. HeapKinds = {ARRAY, STRUCT, FUNC} /\ HeapKinds \cap {EXTERNREF, ANYREF} = {}
    BY DEF HeapKinds, ARRAY, STRUCT, FUNC, EXTERNREF, ANYREF
<1>8. o.kind \in {EXTERNREF, ANYREF} => ObjType(o) = NoType
    BY <1>7 DEF ObjType
<1>9. QED
    BY <1>1, <1>2, <1>3, <1>4, <1>5, <1>6, <1>7, <1>8 DEF create_obj, obj_to_hmu

\* wamr_gc_obj_dump on an object Encode wrote prints a view of its kind,
\* HMU size and usage type, defined type, and array length and element size.
LEMMA DumpDecode ==
    ASSUME NEW o \in Objects, NEW a \in RttRefs, NEW r \in ObjRefs
    PROVE  LET res == gc_obj_dump_output(r, Encode(o, a))
           IN  /\ res \in Views
               /\ res.kind = o.kind
               /\ res.hmu.size = o.size
               /\ res.hmu.ut = HMU_UT_MAP[o.ut]
               /\ res.type = ObjType(o)
               /\ o.kind = ARRAY =>
                      res.length = o.length /\ res.elem_size = Pow2[o.elemLog2]
<1> DEFINE m == Encode(o, a)
           hmu == HMU(m.hmu)
           obj == [kind |-> o.kind, hmu |-> hmu, body |-> m.body, type |-> ObjType(o)]
<1>1. create_obj(r, m) = obj
    BY ObjDecode
<1>2. hmu \in HmuViews /\ hmu.size = o.size /\ hmu.ut = HMU_UT_MAP[o.ut]
    BY HmuView
<1>3. m.typeBody = "ok" /\ "ok" # NoRead /\ m.body \in Nat /\ m.body # NoRead
    <2>1. CASE o.kind = ARRAY
        BY <2>1, ArrayDecode, LayoutAssumption DEF Encode
    <2>2. CASE o.kind # ARRAY
        BY <2>2, LayoutAssumption DEF Encode
    <2>3. QED
        BY <2>1, <2>2
<1>4. ObjType(o) \in HeapKinds \cup {NoType} /\ o.kind \in ObjKinds
    BY DEF ObjType, Objects
<1>5. ~IsExc(obj) /\ obj # None /\ obj.kind # I31
    BY <1>4 DEF IsExc, MemoryError, IndexError, None, ObjKinds, HeapKinds,
              I31, ARRAY, STRUCT, FUNC, EXTERNREF, ANYREF
<1>6. TypeStr(ObjType(o), "ok") # MemoryError
    BY <1>3 DEF TypeStr, MemoryError
<1> HIDE DEF m, hmu
<1>7. gc_obj_dump_output(r, m) = ObjStr(obj, m.typeBody)
    BY <1>1, <1>5 DEF gc_obj_dump_output
<1>8. CASE o.kind = ARRAY
    <2>1. /\ m.body \div Pow2[WASM_ARRAY_LENGTH_SHIFT] = o.length
          /\ m.body % (WASM_ARRAY_ELEM_SIZE_MASK + 1) = o.elemLog2
          /\ o.length \in Nat /\ o.elemLog2 \in Nat
        <3>1. /\ m.body \div Pow2[WASM_ARRAY_LENGTH_SHIFT] = o.length
              /\ m.body % (WASM_ARRAY_ELEM_SIZE_MASK + 1) = o.elemLog2
            <4>1. /\ Encode(o, a).body \div Pow2[WASM_ARRAY_LENGTH_SHIFT] = o.length
                  /\ Encode(o, a).body % (WASM_ARRAY_ELEM_SIZE_MASK + 1) = o.elemLog2
                BY <1>8, ArrayDecode
            <4>2. QED
                BY <4>1 DEF m
        <3>2. o.length \in Nat /\ o.elemLog2 \in Nat
            <4>1. o.length \in Nat
                BY WAMRLayoutAssumption DEF Objects
            <4>2. o.elemLog2 \in 0 .. WASM_ARRAY_ELEM_SIZE_MASK
                  /\ WASM_ARRAY_ELEM_SIZE_MASK \in Nat
                BY LayoutAssumption DEF Objects
            <4>3. QED
                BY <4>1, <4>2
        <3>3. QED
            BY <3>1, <3>2
    <2>2. Pow2[o.elemLog2] \in Nat
        BY <2>1, Pow2Nat
    <2>3. ObjStr(obj, m.typeBody)
              = [kind |-> ARRAY, hmu |-> hmu, type |-> ObjType(o),
                 length |-> o.length, elem_size |-> Pow2[o.elemLog2]]
        BY <1>3, <1>5, <1>6, <1>8, <2>1 DEF ObjStr
    <2>4. QED
        BY <1>2, <1>4, <1>7, <1>8, <2>1, <2>2, <2>3 DEF Views, m
<1>9. CASE o.kind # ARRAY
    <2>1. ObjStr(obj, m.typeBody) = [kind |-> o.kind, hmu |-> hmu, type |-> ObjType(o)]
        BY <1>3, <1>5, <1>6, <1>9 DEF ObjStr
    <2>2. o.kind \in ObjKinds \ {ARRAY}
        BY <1>4, <1>9
    <2>3. [kind |-> o.kind, hmu |-> hmu, type |-> ObjType(o)]
              \in [kind : ObjKinds \ {ARRAY}, hmu : HmuViews, type : HeapKinds \cup {NoType}]
        BY <1>2, <1>4, <2>2
    <2>4. [kind |-> o.kind, hmu |-> hmu, type |-> ObjType(o)] \in Views
        BY <2>3 DEF Views
    <2>5. QED
        BY <1>2, <1>7, <1>9, <2>1, <2>4 DEF m
<1>10. QED
    BY <1>8, <1>9

\* wamr_type_dump on a defined type Encode wrote prints its kind, and None
\* for an externref or anyref object, which has none.
LEMMA TypeDumpDecode ==
    ASSUME NEW o \in Objects, NEW a
    PROVE  type_dump_output(Encode(o, a))
               = IF o.kind \in HeapKinds THEN [type |-> o.kind] ELSE None
<1>1. create_type(Encode(o, a).def, Encode(o, a).typeBody) = ObjType(o)
    BY TypeDecode DEF ObjType
<1>2. Encode(o, a).typeBody = "ok" /\ "ok" # NoRead
    BY LayoutAssumption DEF Encode
<1>3. o.kind \in HeapKinds => o.kind # NoType
    BY DEF HeapKinds, ARRAY, STRUCT, FUNC, NoType
<1>4. QED
    BY <1>1, <1>2, <1>3 DEF type_dump_output, ObjType, TypeStr

(***************************************************************************)
(* Decoding any memory: the shapes of what the decoder returns             *)
(***************************************************************************)
\* get_bits returns a value of the field's width.
LEMMA GetBitsRange ==
    ASSUME NEW val \in Nat, NEW sz \in Nat, NEW off \in Nat
    PROVE  get_bits(val, sz, off) \in 0 .. Pow2[sz] - 1
<1>1. Pow2[off] \in Nat \ {0} /\ Pow2[sz] \in Nat \ {0}
    BY Pow2Nat
<1> HIDE DEF Pow2
<1>2. val \div Pow2[off] \in Nat
    BY <1>1
<1>3. QED
    BY <1>1, <1>2 DEF get_bits

\* HMU reads any header word as a well-formed HMU view, or fails to read it.
LEMMA HmuAny ==
    ASSUME NEW c \in {NoRead} \cup Nat
    PROVE  HMU(c) \in HmuViews \cup {MemoryError}
<1>1. CASE c = NoRead
    BY <1>1 DEF HMU
<1>2. CASE c \in Nat
    <2>1. c # NoRead
        BY <1>2, LayoutAssumption
    <2>2. get_bits(c, HMU_SIZE_SIZE, HMU_SIZE_OFFSET) \in Nat
        BY <1>2, LayoutFacts, GetBitsRange, Pow2Nat
    <2>3. get_bits(c, HMU_UT_SIZE, HMU_UT_OFFSET) \in DOMAIN HMU_UT_MAP
        BY <1>2, LayoutFacts, GetBitsRange, LayoutAssumption
    <2>4. /\ get_bit(HMU_P_OFFSET, 0) \in {0, 1}
          /\ get_bit(HMU_WO_MB_OFFSET, 0) \in {0, 1}
        <3>1. Pow2[0] = 1 /\ Pow2[1] = 2
            BY Pow2Def
        <3>2. QED
            BY <3>1, LayoutFacts DEF get_bit, get_bits
    <2>5. QED
        BY <2>1, <2>2, <2>3, <2>4
           DEF HMU, HmuViews, hmu_get_size, hmu_get_ut, hmu_get_pinuse, hmu_get_vo_marked
<1>3. QED
    BY <1>1, <1>2

\* WASMRtt on any header word and RTT cell gives an RTT record or fails.
LEMMA RttAny ==
    ASSUME NEW h, NEW c
    PROVE  \/ WASMRtt(h, c) \in {MemoryError, IndexError}
           \/ WASMRtt(h, c) = [type_flag |-> WASMRtt(h, c).type_flag]
BY DEF WASMRtt

\* create_type on any cells gives a heap kind or None.
LEMMA TypeAny ==
    ASSUME NEW d, NEW tb
    PROVE  create_type(d, tb) \in HeapKinds \cup {NoType}
BY DEF create_type, HeapKinds

\* The objects create_obj builds from a reference and any readable cells.
ObjShapes ==
    [kind : {I31}, value : Int]
    \cup [kind : ObjKinds, hmu : HmuViews, body : {NoRead} \cup Nat,
          type : HeapKinds \cup {NoType}]

\* create_obj on any reference and any cells builds an object, gives None,
\* or raises the IndexError of an out-of-range type_flag.
LEMMA ObjAny ==
    ASSUME NEW r \in Nat, NEW m \in Slices
    PROVE  create_obj(r, m) \in ObjShapes \cup {None, IndexError}
<1>1. CASE get_bit(r, 0) = 1
    <2>1. r \div 2 \in Int
        OBVIOUS
    <2>2. QED
        BY <1>1, <2>1 DEF create_obj, ObjShapes
<1>2. CASE get_bit(r, 0) # 1
    <2>1. HMU(m.hmu) \in HmuViews \cup {MemoryError}
        BY HmuAny DEF Slices
    <2>2. \/ WASMRtt(m.header, m.rtt) \in {MemoryError, IndexError}
          \/ WASMRtt(m.header, m.rtt) = [type_flag |-> WASMRtt(m.header, m.rtt).type_flag]
        BY RttAny
    <2>3. create_type(m.def, m.typeBody) \in HeapKinds \cup {NoType}
        BY TypeAny
    <2>4. m.body \in {NoRead} \cup Nat
        BY DEF Slices
    <2>5. {ARRAY, STRUCT, FUNC} \cup {EXTERNREF, ANYREF} = ObjKinds
        BY DEF ObjKinds, HeapKinds
    <2>6. QED
        BY <1>2, <2>1, <2>2, <2>3, <2>4, <2>5 DEF create_obj, obj_to_hmu, ObjShapes
<1>3. QED
    BY <1>1, <1>2

\* What a dump command may print.
Printed ==
    {None, MemoryError, IndexError} \cup [type : HeapKinds] \cup Views

\* wamr_gc_obj_dump on any reference and any cells prints a view, None, or
\* an exception.
LEMMA DumpAny ==
    ASSUME NEW r \in Nat, NEW m \in Slices
    PROVE  gc_obj_dump_output(r, m) \in Printed
<1> DEFINE obj == create_obj(r, m)
<1>1. obj \in ObjShapes \cup {None, IndexError}
    BY ObjAny
<1>2. CASE IsExc(obj) \/ obj = None
    BY <1>2 DEF gc_obj_dump_output, IsExc, Printed
<1>3. CASE ~(IsExc(obj) \/ obj = None)
    <2>1. obj \in ObjShapes
        BY <1>1, <1>3 DEF IsExc
    <2>2. gc_obj_dump_output(r, m) = ObjStr(obj, m.typeBody)
        BY <1>3 DEF gc_obj_dump_output
    <2>3. CASE obj.kind = I31
        BY <2>1, <2>2, <2>3 DEF ObjStr, Printed, ObjShapes, ObjKinds, HeapKinds, I31, ARRAY, STRUCT, FUNC,
                          EXTERNREF, ANYREF, Views
    <2>4. CASE obj.kind # I31
        <3>1. obj \in [kind : ObjKinds, hmu : HmuViews, body : {NoRead} \cup Nat,
                       type : HeapKinds \cup {NoType}]
            BY <2>1, <2>4 DEF ObjShapes
        <3>2. CASE obj.kind = ARRAY /\ obj.body # NoRead
              /\ TypeStr(obj.type, m.typeBody) # MemoryError
            <4>1. obj.body \in Nat
                BY <3>1, <3>2
            <4>2. /\ obj.body \div Pow2[WASM_ARRAY_LENGTH_SHIFT] \in Nat
                  /\ Pow2[obj.body % (WASM_ARRAY_ELEM_SIZE_MASK + 1)] \in Nat
                <5>1. Pow2[WASM_ARRAY_LENGTH_SHIFT] \in Nat \ {0}
                    BY LayoutFacts, Pow2Nat
                <5>2. WASM_ARRAY_ELEM_SIZE_MASK + 1 \in Nat \ {0}
                    BY LayoutFacts
                <5>3. obj.body % (WASM_ARRAY_ELEM_SIZE_MASK + 1) \in Nat
                    BY <4>1, <5>2
                <5>4. QED
                    BY <4>1, <5>1, <5>3, Pow2Nat
            <4>3. QED
                BY <2>2, <2>4, <3>1, <3>2, <4>2 DEF ObjStr, Printed, Views, ARRAY, I31
        <3>3. CASE obj.kind # ARRAY /\ ~(obj.kind # STRUCT /\ obj.body = NoRead)
              /\ TypeStr(obj.type, m.typeBody) # MemoryError
            BY <2>2, <2>4, <3>1, <3>3 DEF ObjStr, Printed, Views
        <3>4. CASE (obj.kind # STRUCT /\ obj.body = NoRead)
                   \/ TypeStr(obj.type, m.typeBody) = MemoryError
            BY <2>2, <2>4, <3>4 DEF ObjStr, Printed
        <3>5. QED
            BY <3>2, <3>3, <3>4 DEF STRUCT, ARRAY
    <2>5. QED
        BY <2>3, <2>4
<1>4. QED
    BY <1>2, <1>3

\* wamr_type_dump on any cells prints a type kind, None, or a MemoryError.
LEMMA TypeDumpAny ==
    ASSUME NEW m
    PROVE  type_dump_output(m) \in Printed
<1>1. create_type(m.def, m.typeBody) \in HeapKinds \cup {NoType}
    BY TypeAny
<1>2. QED
    BY <1>1 DEF type_dump_output, TypeStr, Printed

\* The cells of an encoded object, of garbage, and of no memory are
\* readable cells or unreadable ones.
LEMMA SlicesFacts ==
    /\ \A o \in Objects, a \in RttRefs : Encode(o, a) \in Slices
    /\ GarbageSlices \subseteq Slices
    /\ Blank \in Slices
<1>1. ASSUME NEW o \in Objects, NEW a \in RttRefs PROVE Encode(o, a) \in Slices
    <2>1. Encode(o, a).hmu \in Nat
        BY HmuDecode
    <2>2. Encode(o, a).header \in Nat
        BY FlagFacts, LayoutAssumption DEF Encode
    <2>3. Encode(o, a).rtt \in {NoRead} \cup Nat /\ Encode(o, a).def \in {NoRead} \cup Nat
        BY KindIndexFacts DEF Encode
    <2>4. Encode(o, a).body \in Nat
        <3>1. CASE o.kind = ARRAY
            BY <3>1, ArrayDecode
        <3>2. CASE o.kind # ARRAY
            BY <3>2 DEF Encode
        <3>3. QED
            BY <3>1, <3>2
    <2>5. Encode(o, a) = [hmu |-> Encode(o, a).hmu, header |-> Encode(o, a).header,
                          rtt |-> Encode(o, a).rtt, def |-> Encode(o, a).def,
                          typeBody |-> "ok", body |-> Encode(o, a).body]
        BY DEF Encode
    <2> HIDE DEF Encode
    <2>6. QED
        BY <2>1, <2>2, <2>3, <2>4, <2>5 DEF Slices
<1>2. GarbageSlices \subseteq Slices
    <2>1. /\ {NoRead, WASM_OBJ_EXTERNREF_OBJ_FLAG, WASM_OBJ_ANYREF_OBJ_FLAG} \cup RttRefs
               \subseteq {NoRead} \cup Nat
          /\ {NoRead} \cup Flags \subseteq {NoRead} \cup Nat
          /\ {NoRead, 0} \subseteq {NoRead} \cup Nat
        <3>1. RttRefs \subseteq Nat /\ TYPE_KIND \in Seq(STRING)
            BY LayoutAssumption
        <3>2. Len(TYPE_KIND) \in Nat
            BY <3>1
        <3>3. WASM_OBJ_EXTERNREF_OBJ_FLAG \in Nat /\ WASM_OBJ_ANYREF_OBJ_FLAG \in Nat
            BY FlagFacts
        <3>4. Flags \subseteq Nat
            BY <3>2 DEF Flags
        <3>5. {NoRead, WASM_OBJ_EXTERNREF_OBJ_FLAG, WASM_OBJ_ANYREF_OBJ_FLAG} \cup RttRefs
                  \subseteq {NoRead} \cup Nat
            BY <3>1, <3>3
        <3>6. {NoRead} \cup Flags \subseteq {NoRead} \cup Nat
            BY <3>4
        <3>7. {NoRead, 0} \subseteq {NoRead} \cup Nat
            OBVIOUS
        <3>8. QED
            BY <3>5, <3>6, <3>7
    <2>2. ASSUME NEW g \in GarbageSlices PROVE g \in Slices
        <3>1. /\ g.hmu \in {NoRead} \cup Nat /\ g.header \in {NoRead} \cup Nat
              /\ g.rtt \in {NoRead} \cup Nat /\ g.def \in {NoRead} \cup Nat
              /\ g.typeBody \in {NoRead, "ok"} /\ g.body \in {NoRead} \cup Nat
            BY <2>1 DEF GarbageSlices
        <3>2. g = [hmu |-> g.hmu, header |-> g.header, rtt |-> g.rtt, def |-> g.def,
                   typeBody |-> g.typeBody, body |-> g.body]
            BY DEF GarbageSlices
        <3>3. QED
            BY <3>1, <3>2 DEF Slices
    <2>3. QED
        BY <2>2
<1>3. Blank \in Slices
    BY DEF Blank, Slices
<1>4. QED
    BY <1>1, <1>2, <1>3

\* A tagged i31 reference is a natural.
LEMMA I31RefNat == \A v \in I31Values : I31Ref(v) \in Nat
<1> SUFFICES ASSUME NEW v \in I31Values PROVE I31Ref(v) \in Nat
    OBVIOUS
<1>1. Pow2[I31_BITS - 1] \in Nat /\ Pow2[I31_BITS] \in Nat \ {0}
    BY LayoutAssumption, Pow2Nat
<1>2. v \in Int
    BY <1>1 DEF I31Values
<1> HIDE DEF Pow2
<1>3. QED
    BY <1>1, <1>2 DEF I31Ref

\* Every command leaves a well-formed record of what it printed, for every
\* layout: whatever memory holds, create_obj, WASMRtt, create_type and
\* str() print a view of a named kind, None, or an exception.
THEOREM TypeCorrect == Spec => []TypeOK
<1>1. Init => TypeOK
    BY SlicesFacts DEF Init, TypeOK
<1>2. TypeOK /\ [Next]_vars => TypeOK'
    <2> SUFFICES ASSUME TypeOK, [Next]_vars PROVE TypeOK'
        OBVIOUS
    <2>1. CASE \E v \in I31Values : Dump([i31 |-> v], I31Ref(v), Blank)
        <3>1. PICK v \in I31Values : Dump([i31 |-> v], I31Ref(v), Blank)
            BY <2>1
        <3>2. gc_obj_dump_output(I31Ref(v), Blank) \in Printed
            BY I31RefNat, SlicesFacts, DumpAny
        <3>3. QED
            BY <3>1, <3>2, I31RefNat, SlicesFacts DEF Dump, TypeOK, Printed
    <2>2. CASE \E o \in Objects, r \in ObjRefs, a \in RttRefs : Dump(o, r, Encode(o, a))
        <3>1. PICK o \in Objects, r \in ObjRefs, a \in RttRefs : Dump(o, r, Encode(o, a))
            BY <2>2
        <3>2. r \in Nat /\ Encode(o, a) \in Slices
            BY SlicesFacts, LayoutAssumption
        <3>3. gc_obj_dump_output(r, Encode(o, a)) \in Printed
            BY <3>2, DumpAny
        <3>4. QED
            BY <3>1, <3>2, <3>3 DEF Dump, TypeOK, Printed
    <2>3. CASE \E r \in ObjRefs, m \in GarbageSlices : Dump(Garbage, r, m)
        <3>1. PICK r \in ObjRefs, m \in GarbageSlices : Dump(Garbage, r, m)
            BY <2>3
        <3>2. r \in Nat /\ m \in Slices
            BY SlicesFacts, LayoutAssumption
        <3>3. gc_obj_dump_output(r, m) \in Printed
            BY <3>2, DumpAny
        <3>4. QED
            BY <3>1, <3>2, <3>3 DEF Dump, TypeOK, Printed
    <2>4. CASE \E o \in Objects, a \in RttRefs : TypeDump(o, Encode(o, a))
        <3>1. PICK o \in Objects, a \in RttRefs : TypeDump(o, Encode(o, a))
            BY <2>4
        <3>2. type_dump_output(Encode(o, a)) \in Printed /\ Encode(o, a) \in Slices
            BY SlicesFacts, TypeDumpAny
        <3>3. QED
            BY <3>1, <3>2 DEF TypeDump, TypeOK, Printed
    <2>5. CASE \E m \in GarbageSlices : TypeDump(Garbage, m)
        <3>1. PICK m \in GarbageSlices : TypeDump(Garbage, m)
            BY <2>5
        <3>2. type_dump_output(m) \in Printed /\ m \in Slices
            BY SlicesFacts, TypeDumpAny
        <3>3. QED
            BY <3>1, <3>2 DEF TypeDump, TypeOK, Printed
    <2>6. CASE prompt
        BY <2>6, SlicesFacts DEF prompt, TypeOK
    <2>7. CASE UNCHANGED vars
        BY <2>7 DEF vars, TypeOK
    <2>8. QED
        BY <2>1, <2>2, <2>3, <2>4, <2>5, <2>6, <2>7 DEF Next, wamr_gc_obj_dump, wamr_type_dump
<1>3. QED
    BY <1>1, <1>2, PTL DEF Spec

(***************************************************************************)
(* The inductive invariant: while a command's output is shown, the memory *)
(* it read is an object the runtime encoded with some RTT address, and the *)
(* output is the decoder's result on it.                                   *)
(***************************************************************************)
IInv ==
    /\ cmd \in {"none", "wamr_gc_obj_dump", "wamr_type_dump"}
    /\ src \in Objects =>
           \E a \in RttRefs :
               /\ mem = Encode(src, a)
               /\ cmd = "wamr_gc_obj_dump" =>
                      ref \in ObjRefs /\ out = gc_obj_dump_output(ref, mem)
               /\ cmd = "wamr_type_dump" => out = type_dump_output(mem)


\* The memory a command reads that is not an encoded object is not taken
\* for one.
LEMMA NotObjects ==
    /\ [none |-> "none"] \notin Objects
    /\ Garbage \notin Objects
    /\ \A v : [i31 |-> v] \notin Objects
BY DEF Objects, Garbage

LEMMA IInvInit == Init => IInv
BY NotObjects DEF Init, IInv

LEMMA IInvNext == IInv /\ [Next]_vars => IInv'
<1> SUFFICES ASSUME IInv, [Next]_vars PROVE IInv'
    OBVIOUS
<1>1. CASE \E v \in I31Values : Dump([i31 |-> v], I31Ref(v), Blank)
    BY <1>1, NotObjects DEF Dump, IInv
<1>2. CASE \E o \in Objects, r \in ObjRefs, a \in RttRefs : Dump(o, r, Encode(o, a))
    <2>1. PICK o \in Objects, r \in ObjRefs, a \in RttRefs : Dump(o, r, Encode(o, a))
        BY <1>2
    <2>2. /\ cmd' = "wamr_gc_obj_dump" /\ src' = o /\ ref' = r /\ mem' = Encode(o, a)
          /\ out' = gc_obj_dump_output(r, Encode(o, a))
        BY <2>1 DEF Dump
    <2>3. QED
        BY <2>2 DEF IInv
<1>3. CASE \E r \in ObjRefs, m \in GarbageSlices : Dump(Garbage, r, m)
    BY <1>3, NotObjects DEF Dump, IInv
<1>4. CASE \E o \in Objects, a \in RttRefs : TypeDump(o, Encode(o, a))
    <2>1. PICK o \in Objects, a \in RttRefs : TypeDump(o, Encode(o, a))
        BY <1>4
    <2>2. /\ cmd' = "wamr_type_dump" /\ src' = o /\ mem' = Encode(o, a)
          /\ out' = type_dump_output(Encode(o, a))
        BY <2>1 DEF TypeDump
    <2>3. QED
        BY <2>2 DEF IInv
<1>5. CASE \E m \in GarbageSlices : TypeDump(Garbage, m)
    BY <1>5, NotObjects DEF TypeDump, IInv
<1>6. CASE prompt
    BY <1>6, NotObjects DEF prompt, IInv
<1>7. CASE UNCHANGED vars
    BY <1>7 DEF vars, IInv
<1>8. QED
    BY <1>1, <1>2, <1>3, <1>4, <1>5, <1>6, <1>7 DEF Next, wamr_gc_obj_dump, wamr_type_dump

\* Decoding what the runtime wrote gives it back: for every layout
\* WAMRLayoutAssumption admits, a wamr_gc_obj_dump of an object prints its
\* kind, HMU size and usage type, defined type, and array length and
\* element size, and a wamr_type_dump prints its defined type's kind
\* (create_obj, HMU, WASMRtt, create_type and the array word of str()).
THEOREM DecodeRoundTripHolds == Spec => []DecodeRoundTrip
<1>1. IInv => DecodeRoundTrip
    <2> SUFFICES ASSUME IInv, src \in Objects PROVE DecodeRoundTrip
        BY DEF DecodeRoundTrip
    <2>1. PICK a \in RttRefs :
              /\ mem = Encode(src, a)
              /\ cmd = "wamr_gc_obj_dump" =>
                     ref \in ObjRefs /\ out = gc_obj_dump_output(ref, mem)
              /\ cmd = "wamr_type_dump" => out = type_dump_output(mem)
        BY DEF IInv
    <2>2. CASE cmd = "wamr_type_dump"
        <3>1. out = IF src.kind \in HeapKinds THEN [type |-> src.kind] ELSE None
            BY <2>1, <2>2, TypeDumpDecode
        <3>2. QED
            BY <2>2, <3>1 DEF DecodeRoundTrip
    <2>3. CASE cmd = "wamr_gc_obj_dump"
        <3>1. ref \in ObjRefs /\ out = gc_obj_dump_output(ref, Encode(src, a))
            BY <2>1, <2>3
        <3>2. /\ out \in Views
              /\ out.kind = src.kind
              /\ out.hmu.size = src.size
              /\ out.hmu.ut = HMU_UT_MAP[src.ut]
              /\ out.type = ObjType(src)
              /\ src.kind = ARRAY =>
                     out.length = src.length /\ out.elem_size = Pow2[src.elemLog2]
            BY <3>1, DumpDecode
        <3>3. QED
            BY <2>3, <3>2 DEF DecodeRoundTrip, ObjType
    <2>4. CASE cmd \notin {"wamr_type_dump", "wamr_gc_obj_dump"}
        BY <2>4 DEF DecodeRoundTrip
    <2>5. QED
        BY <2>2, <2>3, <2>4
<1>2. QED
    BY <1>1, IInvInit, IInvNext, PTL DEF Spec
====
