----------------------------- MODULE StoreProofs -----------------------------
(***************************************************************************)
(* Proofs about Store: for JSON values of every depth redaction takes the  *)
(* secrets and nothing else; whatever callers post side by side, a batch   *)
(* is stored and published whole or not at all, an event is found at its   *)
(* time and read back as it was published, every tenant sees its own       *)
(* events, older pages continue, and the tree and the queries agree.       *)
(***************************************************************************)
EXTENDS Store, Ranks, SequenceTheorems, TLAPS

-----------------------------------------------------------------------------
\* JSON values: recursion and induction on their depth.

\* A value is one of the three, and what is in it is a value less deep.
LEMMA Shapes ==
  ASSUME NEW m \in Values
  PROVE  /\ Depth(m) \in Nat
         /\ \/ ~IsDict(m) /\ ~IsList(m) /\ m = [leaf |-> m.leaf]
            \/ /\ IsList(m) /\ ~IsDict(m)
               /\ m = [list |-> m.list] /\ m.list \in [DOMAIN m.list -> Inner(m)]
               /\ \A l \in [DOMAIN m.list -> Inner(m)] :
                    [list |-> l] \in Values /\ Depth([list |-> l]) <= Depth(m)
            \/ /\ IsDict(m) /\ ~IsList(m)
               /\ m = [dict |-> m.dict] /\ m.dict \in [DOMAIN m.dict -> Inner(m)]
               /\ \A d \in [DOMAIN m.dict -> Inner(m)] :
                    [dict |-> d] \in Values /\ Depth([dict |-> d]) <= Depth(m)
<1>1. Depth(m) \in Nat
  BY ValuesAssumption
<1>2. CASE ~IsDict(m) /\ ~IsList(m) /\ m = [leaf |-> m.leaf]
  BY <1>1, <1>2
<1>3. CASE /\ IsList(m) /\ m = [list |-> m.list] /\ m.list \in Seq(Inner(m))
           /\ \A l \in [DOMAIN m.list -> Inner(m)] :
                [list |-> l] \in Values /\ Depth([list |-> l]) <= Depth(m)
  <2>1. DOMAIN m = {"list"}
    BY <1>3
  <2>2. ~IsDict(m)
    BY <2>1 DEF IsDict
  <2>3. m.list \in [DOMAIN m.list -> Inner(m)]
    BY <1>3, LenProperties
  <2>. QED  BY <1>1, <1>3, <2>2, <2>3
<1>4. CASE /\ IsDict(m) /\ m = [dict |-> m.dict] /\ m.dict \in [DOMAIN m.dict -> Inner(m)]
           /\ \A d \in [DOMAIN m.dict -> Inner(m)] :
                [dict |-> d] \in Values /\ Depth([dict |-> d]) <= Depth(m)
  <2>1. DOMAIN m = {"dict"}
    BY <1>4
  <2>2. ~IsList(m)
    BY <2>1 DEF IsList
  <2>. QED  BY <1>1, <1>4, <2>2
<1>. QED  BY <1>2, <1>3, <1>4, ValuesAssumption

\* What holds of a value whenever it holds of all that is in it holds of all.
LEMMA DepthInduction ==
  ASSUME NEW S, \A m \in Values : Inner(m) \subseteq S => m \in S
  PROVE  Values \subseteq S
<1> DEFINE Bad == {k \in Nat : \E m \in Values : Depth(m) = k /\ m \notin S}
<1>1. SUFFICES ASSUME NEW m \in Values, m \notin S PROVE FALSE
  OBVIOUS
<1>2. PICK k \in Bad : \A j \in Bad : k <= j
  <2>1. Bad \in SUBSET Nat /\ Depth(m) \in Bad
    BY <1>1, Shapes
  <2> HIDE DEF Bad
  <2>. QED  BY <2>1, LeastNatural
<1>3. PICK v \in Values : Depth(v) = k /\ v \notin S
  OBVIOUS
<1>4. ASSUME NEW w \in Inner(v) PROVE w \in S
  <2>1. w \in Values /\ Depth(w) \in Nat /\ Depth(w) < k
    BY <1>3, Shapes DEF Inner
  <2>2. k \in Nat
    OBVIOUS
  <2>3. Depth(w) \notin Bad
    BY <1>2, <2>1, <2>2
  <2>. QED  BY <2>1, <2>3
<1>. QED  BY <1>3, <1>4

\* What redact_metadata makes of m, if g is what it makes of what is in m.
RedactStep(g, m) ==
  CASE IsDict(m) -> [dict |-> [k \in DOMAIN m.dict |->
                       IF k \in SecretKeys THEN REDACTED ELSE g[m.dict[k]]]]
    [] IsList(m) -> [list |-> [i \in DOMAIN m.list |-> g[m.list[i]]]]
    [] OTHER -> m

\* It looks at what is in m only.
LEMMA RedactStepLocal ==
  ASSUME NEW m \in Values, NEW g, NEW h, \A v \in Inner(m) : g[v] = h[v]
  PROVE  RedactStep(g, m) = RedactStep(h, m)
<1>1. CASE IsDict(m)
  <2>1. \A k \in DOMAIN m.dict : m.dict[k] \in Inner(m)
    BY <1>1, Shapes
  <2>2. [k \in DOMAIN m.dict |-> IF k \in SecretKeys THEN REDACTED ELSE g[m.dict[k]]]
          = [k \in DOMAIN m.dict |-> IF k \in SecretKeys THEN REDACTED ELSE h[m.dict[k]]]
    BY <2>1
  <2>3. ~IsList(m)
    BY <1>1, Shapes
  <2>. QED  BY <1>1, <2>2, <2>3 DEF RedactStep
<1>2. CASE IsList(m)
  <2>1. \A i \in DOMAIN m.list : m.list[i] \in Inner(m)
    BY <1>2, Shapes
  <2>2. [i \in DOMAIN m.list |-> g[m.list[i]]] = [i \in DOMAIN m.list |-> h[m.list[i]]]
    BY <2>1
  <2>3. ~IsDict(m)
    BY <1>2, Shapes
  <2>. QED  BY <1>2, <2>2, <2>3 DEF RedactStep
<1>3. CASE ~IsDict(m) /\ ~IsList(m)
  BY <1>3 DEF RedactStep
<1>. QED  BY <1>1, <1>2, <1>3

\* g redacts the values no deeper than n.
RedactsTo(n, g) == \A m \in Values : Depth(m) <= n => g[m] = RedactStep(g, m)

\* There is one way to redact them,
LEMMA RedactsUnique ==
  ASSUME NEW n \in Nat, NEW g, NEW h, RedactsTo(n, g), RedactsTo(n, h),
         NEW m \in Values, Depth(m) <= n
  PROVE  g[m] = h[m]
<1> DEFINE S == {v \in Values : Depth(v) <= n => g[v] = h[v]}
<1>1. ASSUME NEW v \in Values, Inner(v) \subseteq S PROVE v \in S
  <2>1. SUFFICES ASSUME Depth(v) <= n PROVE g[v] = h[v]
    OBVIOUS
  <2>2. ASSUME NEW w \in Inner(v) PROVE g[w] = h[w]
    <3>1. w \in Values /\ Depth(w) \in Nat /\ Depth(w) < Depth(v) /\ Depth(v) \in Nat
      BY Shapes DEF Inner
    <3>2. Depth(w) <= n
      BY <2>1, <3>1
    <3>. QED  BY <1>1, <3>2
  <2>3. g[v] = RedactStep(g, v) /\ h[v] = RedactStep(h, v)
    BY <2>1 DEF RedactsTo
  <2>. QED  BY <2>2, <2>3, RedactStepLocal
<1>2. Values \subseteq S
  <2> HIDE DEF S
  <2>. QED  BY <1>1, DepthInduction
<1>. QED  BY <1>2

\* and there is one.
LEMMA RedactsExists == ASSUME NEW n \in Nat PROVE \E g : RedactsTo(n, g)
<1> DEFINE Bad == {k \in Nat : ~\E g : RedactsTo(k, g)}
<1>1. SUFFICES ASSUME Bad # {} PROVE FALSE
  OBVIOUS
<1>2. PICK k \in Bad : \A j \in Bad : k <= j
  <2>1. Bad \in SUBSET Nat
    OBVIOUS
  <2> HIDE DEF Bad
  <2>. QED  BY <1>1, <2>1, LeastNatural
<1>3. PICK g : \A m \in Values : Depth(m) < k => g[m] = RedactStep(g, m)
  <2>1. CASE k = 0
    <3>1. \A m \in Values : ~(Depth(m) < k)
      BY <2>1, Shapes
    <3>. QED  BY <3>1
  <2>2. CASE k # 0
    <3>1. k \in Nat /\ k - 1 \in Nat /\ ~(k <= k - 1)
      BY <2>2
    <3>2. PICK g : RedactsTo(k - 1, g)
      BY <1>2, <3>1
    <3>3. \A m \in Values : Depth(m) < k => Depth(m) <= k - 1
      BY <3>1, Shapes
    <3>. QED  BY <3>2, <3>3 DEF RedactsTo
  <2>. QED  BY <2>1, <2>2
<1> DEFINE h == [m \in Values |-> IF Depth(m) < k THEN g[m] ELSE RedactStep(g, m)]
<1>4. ASSUME NEW m \in Values, Depth(m) <= k PROVE h[m] = RedactStep(h, m)
  <2>1. \A v \in Inner(m) : g[v] = h[v]
    <3>1. ASSUME NEW v \in Inner(m) PROVE v \in Values /\ Depth(v) < k
      <4>1. v \in Values /\ Depth(v) < Depth(m)
        BY DEF Inner
      <4>2. Depth(v) \in Nat /\ Depth(m) \in Nat /\ k \in Nat
        BY <4>1, Shapes
      <4>. QED  BY <1>4, <4>1, <4>2
    <3>. QED  BY <3>1
  <2>2. h[m] = RedactStep(g, m)
    BY <1>3
  <2> HIDE DEF h
  <2>. QED  BY <2>1, <2>2, RedactStepLocal
<1> HIDE DEF h
<1>5. RedactsTo(k, h)
  BY <1>4 DEF RedactsTo
<1>. QED  BY <1>5

\* redact_metadata is what its definition says, for values of every depth.
LEMMA RedactedIs == \A m \in Values : Redacted[m] = RedactStep(Redacted, m)
<1> DEFINE way(n) == CHOOSE g : RedactsTo(n, g)
           h == [m \in Values |-> way(Depth(m))[m]]
<1>1. \A n \in Nat : RedactsTo(n, way(n))
  BY RedactsExists
<1> HIDE DEF way
<1>2. ASSUME NEW m \in Values PROVE h[m] = RedactStep(h, m)
  <2>1. PICK g : g = way(Depth(m))
    OBVIOUS
  <2>2. Depth(m) \in Nat /\ RedactsTo(Depth(m), g)
    BY <1>1, <2>1, Shapes
  <2>3. ASSUME NEW v \in Inner(m) PROVE g[v] = h[v]
    <3>1. v \in Values /\ Depth(v) < Depth(m)
      BY DEF Inner
    <3>2. Depth(v) \in Nat /\ RedactsTo(Depth(v), way(Depth(v)))
      BY <1>1, <3>1, Shapes
    <3>3. RedactsTo(Depth(v), g)
      <4>1. \A w \in Values : Depth(w) <= Depth(v) => Depth(w) <= Depth(m)
        BY <2>2, <3>1, <3>2, Shapes
      <4>. QED  BY <2>2, <4>1 DEF RedactsTo
    <3>4. Depth(v) <= Depth(v)
      BY <3>2
    <3>5. way(Depth(v))[v] = g[v]
      BY <3>1, <3>2, <3>3, <3>4, RedactsUnique
    <3>. QED  BY <3>1, <3>5
  <2>4. h[m] = RedactStep(g, m)
    <3>1. Depth(m) <= Depth(m)
      BY <2>2
    <3>. QED  BY <2>1, <2>2, <3>1 DEF RedactsTo
  <2> HIDE DEF h
  <2>. QED  BY <2>3, <2>4, RedactStepLocal
<1>3. h = [m \in Values |-> RedactStep(h, m)]
  <2>1. h = [m \in Values |-> h[m]]
    OBVIOUS
  <2> HIDE DEF h
  <2>. QED  BY <1>2, <2>1
<1>4. Redacted = CHOOSE g : g = [m \in Values |-> RedactStep(g, m)]
  BY DEF Redacted, RedactStep
<1> HIDE DEF h
<1>5. Redacted = [m \in Values |-> RedactStep(Redacted, m)]
  BY <1>3, <1>4
<1>. QED  BY <1>5

\* The texts in m, if g has those of what is in m.
LeavesStep(g, m) ==
  CASE IsDict(m) -> UNION {Below([key |-> k], g[m.dict[k]]) : k \in DOMAIN m.dict}
    [] IsList(m) -> UNION {Below([at |-> i], g[m.list[i]]) : i \in DOMAIN m.list}
    [] OTHER -> {[path |-> <<>>, text |-> m.leaf]}

\* It looks at what is in m only.
LEMMA LeavesStepLocal ==
  ASSUME NEW m \in Values, NEW g, NEW h, \A v \in Inner(m) : g[v] = h[v]
  PROVE  LeavesStep(g, m) = LeavesStep(h, m)
<1>1. CASE IsDict(m)
  <2>1. \A k \in DOMAIN m.dict : m.dict[k] \in Inner(m)
    BY <1>1, Shapes
  <2>2. UNION {Below([key |-> k], g[m.dict[k]]) : k \in DOMAIN m.dict}
          = UNION {Below([key |-> k], h[m.dict[k]]) : k \in DOMAIN m.dict}
    BY <2>1
  <2>3. ~IsList(m)
    BY <1>1, Shapes
  <2>. QED  BY <1>1, <2>2, <2>3 DEF LeavesStep
<1>2. CASE IsList(m)
  <2>1. \A i \in DOMAIN m.list : m.list[i] \in Inner(m)
    BY <1>2, Shapes
  <2>2. UNION {Below([at |-> i], g[m.list[i]]) : i \in DOMAIN m.list}
          = UNION {Below([at |-> i], h[m.list[i]]) : i \in DOMAIN m.list}
    BY <2>1
  <2>3. ~IsDict(m)
    BY <1>2, Shapes
  <2>. QED  BY <1>2, <2>2, <2>3 DEF LeavesStep
<1>3. CASE ~IsDict(m) /\ ~IsList(m)
  BY <1>3 DEF LeavesStep
<1>. QED  BY <1>1, <1>2, <1>3

\* g has the texts of the values no deeper than n.
LeavesTo(n, g) == \A m \in Values : Depth(m) <= n => g[m] = LeavesStep(g, m)

\* There is one such function,
LEMMA LeavesUnique ==
  ASSUME NEW n \in Nat, NEW g, NEW h, LeavesTo(n, g), LeavesTo(n, h),
         NEW m \in Values, Depth(m) <= n
  PROVE  g[m] = h[m]
<1> DEFINE S == {v \in Values : Depth(v) <= n => g[v] = h[v]}
<1>1. ASSUME NEW v \in Values, Inner(v) \subseteq S PROVE v \in S
  <2>1. SUFFICES ASSUME Depth(v) <= n PROVE g[v] = h[v]
    OBVIOUS
  <2>2. ASSUME NEW w \in Inner(v) PROVE g[w] = h[w]
    <3>1. w \in Values /\ Depth(w) \in Nat /\ Depth(w) < Depth(v) /\ Depth(v) \in Nat
      BY Shapes DEF Inner
    <3>2. Depth(w) <= n
      BY <2>1, <3>1
    <3>. QED  BY <1>1, <3>2
  <2>3. g[v] = LeavesStep(g, v) /\ h[v] = LeavesStep(h, v)
    BY <2>1 DEF LeavesTo
  <2>. QED  BY <2>2, <2>3, LeavesStepLocal
<1>2. Values \subseteq S
  <2> HIDE DEF S
  <2>. QED  BY <1>1, DepthInduction
<1>. QED  BY <1>2

\* and there is one.
LEMMA LeavesExist == ASSUME NEW n \in Nat PROVE \E g : LeavesTo(n, g)
<1> DEFINE Bad == {k \in Nat : ~\E g : LeavesTo(k, g)}
<1>1. SUFFICES ASSUME Bad # {} PROVE FALSE
  OBVIOUS
<1>2. PICK k \in Bad : \A j \in Bad : k <= j
  <2>1. Bad \in SUBSET Nat
    OBVIOUS
  <2> HIDE DEF Bad
  <2>. QED  BY <1>1, <2>1, LeastNatural
<1>3. PICK g : \A m \in Values : Depth(m) < k => g[m] = LeavesStep(g, m)
  <2>1. CASE k = 0
    <3>1. \A m \in Values : ~(Depth(m) < k)
      BY <2>1, Shapes
    <3>. QED  BY <3>1
  <2>2. CASE k # 0
    <3>1. k \in Nat /\ k - 1 \in Nat /\ ~(k <= k - 1)
      BY <2>2
    <3>2. PICK g : LeavesTo(k - 1, g)
      BY <1>2, <3>1
    <3>3. \A m \in Values : Depth(m) < k => Depth(m) <= k - 1
      BY <3>1, Shapes
    <3>. QED  BY <3>2, <3>3 DEF LeavesTo
  <2>. QED  BY <2>1, <2>2
<1> DEFINE h == [m \in Values |-> IF Depth(m) < k THEN g[m] ELSE LeavesStep(g, m)]
<1>4. ASSUME NEW m \in Values, Depth(m) <= k PROVE h[m] = LeavesStep(h, m)
  <2>1. \A v \in Inner(m) : g[v] = h[v]
    <3>1. ASSUME NEW v \in Inner(m) PROVE v \in Values /\ Depth(v) < k
      <4>1. v \in Values /\ Depth(v) < Depth(m)
        BY DEF Inner
      <4>2. Depth(v) \in Nat /\ Depth(m) \in Nat /\ k \in Nat
        BY <4>1, Shapes
      <4>. QED  BY <1>4, <4>1, <4>2
    <3>. QED  BY <3>1
  <2>2. h[m] = LeavesStep(g, m)
    BY <1>3
  <2> HIDE DEF h
  <2>. QED  BY <2>1, <2>2, LeavesStepLocal
<1> HIDE DEF h
<1>5. LeavesTo(k, h)
  BY <1>4 DEF LeavesTo
<1>. QED  BY <1>5

\* The texts of a value are what their definition says, at every depth.
LEMMA LeavesAre == \A m \in Values : Leaves[m] = LeavesStep(Leaves, m)
<1> DEFINE way(n) == CHOOSE g : LeavesTo(n, g)
           h == [m \in Values |-> way(Depth(m))[m]]
<1>1. \A n \in Nat : LeavesTo(n, way(n))
  BY LeavesExist
<1> HIDE DEF way
<1>2. ASSUME NEW m \in Values PROVE h[m] = LeavesStep(h, m)
  <2>1. PICK g : g = way(Depth(m))
    OBVIOUS
  <2>2. Depth(m) \in Nat /\ LeavesTo(Depth(m), g)
    BY <1>1, <2>1, Shapes
  <2>3. ASSUME NEW v \in Inner(m) PROVE g[v] = h[v]
    <3>1. v \in Values /\ Depth(v) < Depth(m)
      BY DEF Inner
    <3>2. Depth(v) \in Nat /\ LeavesTo(Depth(v), way(Depth(v)))
      BY <1>1, <3>1, Shapes
    <3>3. LeavesTo(Depth(v), g)
      <4>1. \A w \in Values : Depth(w) <= Depth(v) => Depth(w) <= Depth(m)
        BY <2>2, <3>1, <3>2, Shapes
      <4>. QED  BY <2>2, <4>1 DEF LeavesTo
    <3>4. Depth(v) <= Depth(v)
      BY <3>2
    <3>5. way(Depth(v))[v] = g[v]
      BY <3>1, <3>2, <3>3, <3>4, LeavesUnique
    <3>. QED  BY <3>1, <3>5
  <2>4. h[m] = LeavesStep(g, m)
    <3>1. Depth(m) <= Depth(m)
      BY <2>2
    <3>. QED  BY <2>1, <2>2, <3>1 DEF LeavesTo
  <2> HIDE DEF h
  <2>. QED  BY <2>3, <2>4, LeavesStepLocal
<1>3. h = [m \in Values |-> LeavesStep(h, m)]
  <2>1. h = [m \in Values |-> h[m]]
    OBVIOUS
  <2> HIDE DEF h
  <2>. QED  BY <1>2, <2>1
<1>4. Leaves = CHOOSE g : g = [m \in Values |-> LeavesStep(g, m)]
  BY DEF Leaves, LeavesStep
<1> HIDE DEF h
<1>5. Leaves = [m \in Values |-> LeavesStep(Leaves, m)]
  BY <1>3, <1>4
<1>. QED  BY <1>5
-----------------------------------------------------------------------------
\* What redaction does, at every depth.

\* A redacted value is a JSON value of the same kind, no deeper.
LEMMA RedactedValue ==
  \A m \in Values : /\ Redacted[m] \in Values /\ Depth(Redacted[m]) <= Depth(m)
                    /\ IsDict(m) => IsDict(Redacted[m])
<1> DEFINE S == {m \in Values : /\ Redacted[m] \in Values /\ Depth(Redacted[m]) <= Depth(m)
                                /\ IsDict(m) => IsDict(Redacted[m])}
<1>1. ASSUME NEW m \in Values, Inner(m) \subseteq S PROVE m \in S
  <2>1. Redacted[m] = RedactStep(Redacted, m) /\ Depth(m) \in Nat
    BY RedactedIs, Shapes
  <2>2. ASSUME NEW v \in Inner(m) PROVE Redacted[v] \in Inner(m)
    <3>1. v \in Values /\ Depth(v) < Depth(m) /\ Redacted[v] \in Values
          /\ Depth(Redacted[v]) <= Depth(v)
      BY <1>1 DEF Inner
    <3>2. Depth(v) \in Nat /\ Depth(Redacted[v]) \in Nat
      BY <3>1, Shapes
    <3>. QED  BY <2>1, <3>1, <3>2 DEF Inner
  <2>3. CASE IsDict(m)
    <3> DEFINE d == [k \in DOMAIN m.dict |->
                       IF k \in SecretKeys THEN REDACTED ELSE Redacted[m.dict[k]]]
    <3>1. ASSUME NEW k \in DOMAIN m.dict PROVE d[k] \in Inner(m)
      <4>1. m.dict[k] \in Inner(m)
        BY <2>3, Shapes
      <4>2. REDACTED \in Inner(m)
        <5>1. Depth(m.dict[k]) \in Nat /\ Depth(m.dict[k]) < Depth(m)
          BY <4>1, Shapes DEF Inner
        <5>2. Depth(REDACTED) < Depth(m) /\ REDACTED \in Values
          BY <2>1, <5>1, ValuesAssumption
        <5>. QED  BY <5>2 DEF Inner
      <4>. QED  BY <2>2, <4>1, <4>2
    <3>2. d \in [DOMAIN m.dict -> Inner(m)]
      BY <3>1
    <3>3. Redacted[m] = [dict |-> d]
      BY <2>1, <2>3, Shapes DEF RedactStep
    <3> HIDE DEF d
    <3>4. Redacted[m] \in Values /\ Depth(Redacted[m]) <= Depth(m)
      BY <2>3, <3>2, <3>3, Shapes
    <3>5. IsDict(Redacted[m])
      BY <3>3 DEF IsDict
    <3>. QED  BY <3>4, <3>5
  <2>4. CASE IsList(m)
    <3> DEFINE l == [i \in DOMAIN m.list |-> Redacted[m.list[i]]]
    <3>1. l \in [DOMAIN m.list -> Inner(m)]
      BY <2>2, <2>4, Shapes
    <3>2. Redacted[m] = [list |-> l]
      BY <2>1, <2>4, Shapes DEF RedactStep
    <3> HIDE DEF l
    <3>3. Redacted[m] \in Values /\ Depth(Redacted[m]) <= Depth(m) /\ ~IsDict(m)
      BY <2>4, <3>1, <3>2, Shapes
    <3>. QED  BY <3>3
  <2>5. CASE ~IsDict(m) /\ ~IsList(m)
    <3>1. Redacted[m] = m
      BY <2>1, <2>5 DEF RedactStep
    <3>. QED  BY <2>1, <2>5, <3>1
  <2>. QED  BY <2>3, <2>4, <2>5
<1>2. Values \subseteq S
  <2> HIDE DEF S
  <2>. QED  BY <1>1, DepthInduction
<1>. QED  BY <1>2

\* Steps of a path: a key is no position.
LEMMA StepsDiffer ==
  /\ \A k, j : [key |-> k] = [key |-> j] => k = j
  /\ \A k, i : [key |-> k] # [at |-> i]
<1>1. ASSUME NEW k, NEW j, [key |-> k] = [key |-> j] PROVE k = j
  <2>1. [key |-> k].key = k /\ [key |-> j].key = j
    OBVIOUS
  <2>. QED  BY <1>1, <2>1
<1>2. ASSUME NEW k, NEW i PROVE [key |-> k] # [at |-> i]
  <2>1. "key" \in DOMAIN [key |-> k] /\ "key" \notin DOMAIN [at |-> i]
    OBVIOUS
  <2>. QED  BY <2>1
<1>. QED  BY <1>1, <1>2

IsPath(q) == q \in Seq(Range(q))

\* A path is made longer at its front.
LEMMA LongerPath ==
  ASSUME NEW s, NEW q, IsPath(q)
  PROVE  IsPath(<<s>> \o q) /\ Range(<<s>> \o q) = {s} \cup Range(q)
<1> DEFINE S == {s} \cup Range(q)
           r == <<s>> \o q
<1>1. <<s>> \in Seq(S) /\ q \in Seq(S) /\ Len(<<s>>) = 1 /\ <<s>>[1] = s
  <2>1. q \in Seq(Range(q)) /\ Range(q) \subseteq S
    BY DEF IsPath
  <2>2. q \in Seq(S)
    BY <2>1, SeqMonotonic
  <2>3. s \in S
    OBVIOUS
  <2> HIDE DEF S
  <2>. QED  BY <2>2, <2>3
<1>2. Len(q) \in Nat /\ DOMAIN q = 1..Len(q)
  BY <1>1, LenProperties DEF IsPath
<1>3. /\ r \in Seq(S) /\ Len(r) = 1 + Len(q)
      /\ \A i \in 1..(1 + Len(q)) : r[i] = IF i <= 1 THEN <<s>>[i] ELSE q[i - 1]
  BY <1>1, ConcatProperties
<1>4. DOMAIN r = 1..(1 + Len(q))
  BY <1>3, LenProperties
<1> HIDE DEF r
<1>5. ASSUME NEW x \in S PROVE x \in Range(r)
  <2>1. CASE x = s
    <3>1. 1 \in 1..(1 + Len(q)) /\ r[1] = s
      BY <1>1, <1>2, <1>3
    <3>. QED  BY <1>4, <2>1, <3>1 DEF Range
  <2>2. CASE x \in Range(q)
    <3>1. PICK i \in 1..Len(q) : x = q[i]
      BY <1>2, <2>2 DEF Range
    <3>2. i + 1 \in 1..(1 + Len(q)) /\ ~(i + 1 <= 1) /\ (i + 1) - 1 = i
      BY <1>2
    <3>3. r[i + 1] = x
      BY <1>3, <3>1, <3>2
    <3>. QED  BY <1>4, <3>2, <3>3 DEF Range
  <2>. QED  BY <2>1, <2>2
<1>6. Range(r) \subseteq S
  BY <1>3, <1>4, ElementOfSeq DEF Range
<1>7. Range(r) = S
  BY <1>5, <1>6
<1>. QED  BY <1>3, <1>7 DEF r, IsPath

\* A step to the value of a secret key.
Hides(s) == \E k \in SecretKeys : s = [key |-> k]

\* A text with one more step at the front of its path.
Placed(s, l) == [path |-> <<s>> \o l.path, text |-> l.text]

\* The texts below a step are those there are, each with the step on its path.
LEMMA BelowStep ==
  ASSUME NEW s, NEW leaves, \A l \in leaves : IsPath(l.path)
  PROVE  /\ \A x \in Below(s, leaves) : IsPath(x.path)
         /\ \A x : x \in Below(s, leaves) <=>
              \E l \in leaves : x = Placed(s, l)
         /\ \A l \in leaves : Placed(s, l).text = l.text
         /\ \A l \in leaves :
              Secret(Placed(s, l))
                <=> Hides(s) \/ Secret(l)
<1>1. \A l \in leaves : /\ IsPath(<<s>> \o l.path)
                        /\ Range(<<s>> \o l.path) = {s} \cup Range(l.path)
  BY LongerPath
<1>2. \A x : x \in Below(s, leaves) <=>
              \E l \in leaves : x = Placed(s, l)
  BY DEF Below, Placed
<1>3. ASSUME NEW x \in Below(s, leaves) PROVE IsPath(x.path)
  <2>1. PICK l \in leaves : x = Placed(s, l)
    BY <1>2
  <2>2. x.path = <<s>> \o l.path
    BY <2>1 DEF Placed
  <2>. QED  BY <1>1, <2>2
<1>4. ASSUME NEW l \in leaves
      PROVE  Secret(Placed(s, l))
                <=> Hides(s) \/ Secret(l)
  <2>1. Placed(s, l).path = <<s>> \o l.path
    BY DEF Placed
  <2>. QED  BY <1>1, <2>1 DEF Secret, Hides
<1>5. \A l \in leaves : Placed(s, l).text = l.text
  BY DEF Placed
<1>. QED  BY <1>2, <1>3, <1>4, <1>5

\* The texts of a value, by its kind.
LEMMA LeavesByKind ==
  ASSUME NEW m \in Values
  PROVE  /\ IsDict(m) => \A x : x \in Leaves[m] <=>
              \E k \in DOMAIN m.dict : x \in Below([key |-> k], Leaves[m.dict[k]])
         /\ IsList(m) => \A x : x \in Leaves[m] <=>
              \E i \in DOMAIN m.list : x \in Below([at |-> i], Leaves[m.list[i]])
         /\ ~IsDict(m) /\ ~IsList(m) => Leaves[m] = {[path |-> <<>>, text |-> m.leaf]}
<1>1. Leaves[m] = LeavesStep(Leaves, m)
  BY LeavesAre
<1>2. CASE IsDict(m)
  <2>1. ~IsList(m)
    BY <1>2, Shapes
  <2>2. Leaves[m] = UNION {Below([key |-> k], Leaves[m.dict[k]]) : k \in DOMAIN m.dict}
    BY <1>1, <1>2, <2>1 DEF LeavesStep
  <2>. QED  BY <1>2, <2>1, <2>2
<1>3. CASE IsList(m)
  <2>1. ~IsDict(m)
    BY <1>3, Shapes
  <2>2. Leaves[m] = UNION {Below([at |-> i], Leaves[m.list[i]]) : i \in DOMAIN m.list}
    BY <1>1, <1>3, <2>1 DEF LeavesStep
  <2>. QED  BY <1>3, <2>1, <2>2
<1>4. CASE ~IsDict(m) /\ ~IsList(m)
  BY <1>1, <1>4 DEF LeavesStep
<1>. QED  BY <1>2, <1>3, <1>4

\* Every text is on a path.
LEMMA LeavesPaths == \A m \in Values : \A l \in Leaves[m] : IsPath(l.path)
<1> DEFINE S == {m \in Values : \A l \in Leaves[m] : IsPath(l.path)}
<1>1. ASSUME NEW m \in Values, Inner(m) \subseteq S PROVE m \in S
  <2>1. CASE IsDict(m)
    <3>1. \A k \in DOMAIN m.dict : m.dict[k] \in S
      BY <1>1, <2>1, Shapes
    <3>2. ASSUME NEW x \in Leaves[m] PROVE IsPath(x.path)
      <4>1. PICK k \in DOMAIN m.dict : x \in Below([key |-> k], Leaves[m.dict[k]])
        BY <2>1, LeavesByKind
      <4>2. \A l \in Leaves[m.dict[k]] : IsPath(l.path)
        BY <3>1
      <4>. QED  BY <4>1, <4>2, BelowStep
    <3>. QED  BY <3>2
  <2>2. CASE IsList(m)
    <3>1. \A i \in DOMAIN m.list : m.list[i] \in S
      BY <1>1, <2>2, Shapes
    <3>2. ASSUME NEW x \in Leaves[m] PROVE IsPath(x.path)
      <4>1. PICK i \in DOMAIN m.list : x \in Below([at |-> i], Leaves[m.list[i]])
        BY <2>2, LeavesByKind
      <4>2. \A l \in Leaves[m.list[i]] : IsPath(l.path)
        BY <3>1
      <4>. QED  BY <4>1, <4>2, BelowStep
    <3>. QED  BY <3>2
  <2>3. CASE ~IsDict(m) /\ ~IsList(m)
    <3>1. \A l \in Leaves[m] : l.path = <<>>
      BY <2>3, LeavesByKind
    <3>2. IsPath(<<>>)
      BY EmptySeq DEF IsPath
    <3>. QED  BY <3>1, <3>2
  <2>. QED  BY <2>1, <2>2, <2>3
<1>2. Values \subseteq S
  <2> HIDE DEF S
  <2>. QED  BY <1>1, DepthInduction
<1>. QED  BY <1>2

\* The texts of m are those of n, but for the secrets, which are redacted.
Cleaned(n, m) ==
  /\ \A l \in Leaves[n] : Secret(l) => l.text = REDACTED.leaf
  /\ \A l : ~Secret(l) => (l \in Leaves[n] <=> l \in Leaves[m])

\* Below a step that is no secret key, what is cleaned is clean.
LEMMA CleanBelow ==
  ASSUME NEW s, \A k \in SecretKeys : s # [key |-> k],
         NEW n \in Values, NEW m \in Values, Cleaned(n, m)
  PROVE  /\ \A x \in Below(s, Leaves[n]) : Secret(x) => x.text = REDACTED.leaf
         /\ \A x : ~Secret(x) => (x \in Below(s, Leaves[n]) <=> x \in Below(s, Leaves[m]))
<1>1. /\ \A l \in Leaves[n] : IsPath(l.path)
      /\ \A l \in Leaves[m] : IsPath(l.path)
  BY LeavesPaths
<1>2. ~Hides(s)
  BY DEF Hides
<1>3. /\ \A x : x \in Below(s, Leaves[n]) <=> \E l \in Leaves[n] : x = Placed(s, l)
      /\ \A l \in Leaves[n] : Secret(Placed(s, l)) <=> Secret(l)
      /\ \A l \in Leaves[n] : Placed(s, l).text = l.text
  BY <1>1, <1>2, BelowStep
<1>4. /\ \A x : x \in Below(s, Leaves[m]) <=> \E l \in Leaves[m] : x = Placed(s, l)
      /\ \A l \in Leaves[m] : Secret(Placed(s, l)) <=> Secret(l)
  BY <1>1, <1>2, BelowStep
<1>. QED  BY <1>3, <1>4 DEF Cleaned

\* Below a secret key, every text is secret.
LEMMA SecretBelow ==
  ASSUME NEW k \in SecretKeys, NEW m \in Values
  PROVE  \A x \in Below([key |-> k], Leaves[m]) :
           Secret(x) /\ \E l \in Leaves[m] : x.text = l.text
<1> DEFINE s == [key |-> k]
<1>1. Hides(s)
  BY DEF Hides
<1> HIDE DEF s
<1>2. \A l \in Leaves[m] : IsPath(l.path)
  BY LeavesPaths
<1>3. /\ \A x \in Below(s, Leaves[m]) : \E l \in Leaves[m] : x = Placed(s, l)
      /\ \A l \in Leaves[m] : Secret(Placed(s, l)) /\ Placed(s, l).text = l.text
  <2>1. /\ \A x : x \in Below(s, Leaves[m]) <=> \E l \in Leaves[m] : x = Placed(s, l)
        /\ \A l \in Leaves[m] : Placed(s, l).text = l.text
        /\ \A l \in Leaves[m] : Secret(Placed(s, l)) <=> Hides(s) \/ Secret(l)
    BY <1>2, BelowStep
  <2>. QED  BY <1>1, <2>1
<1>4. \A x \in Below(s, Leaves[m]) : Secret(x) /\ \E l \in Leaves[m] : x.text = l.text
  BY <1>3
<1>. QED  BY <1>4 DEF s

\* Redaction takes the secrets, at any depth of dicts and lists, and no other text.
THEOREM RedactionCleans == \A m \in Values : Cleaned(Redacted[m], m)
<1> DEFINE S == {m \in Values : Cleaned(Redacted[m], m)}
<1>1. ASSUME NEW m \in Values, Inner(m) \subseteq S PROVE m \in S
  <2>1. Redacted[m] = RedactStep(Redacted, m) /\ Redacted[m] \in Values
    BY RedactedIs, RedactedValue
  <2>2. CASE IsDict(m)
    <3> DEFINE d == [k \in DOMAIN m.dict |->
                       IF k \in SecretKeys THEN REDACTED ELSE Redacted[m.dict[k]]]
    <3>1. Redacted[m] = [dict |-> d] /\ DOMAIN d = DOMAIN m.dict
      BY <2>1, <2>2, Shapes DEF RedactStep
    <3>2. ASSUME NEW k \in DOMAIN m.dict, k \notin SecretKeys
          PROVE  /\ d[k] \in Values /\ m.dict[k] \in Values /\ Cleaned(d[k], m.dict[k])
                 /\ \A j \in SecretKeys : [key |-> k] # [key |-> j]
      <4>1. m.dict[k] \in S
        BY <1>1, <2>2, Shapes
      <4>. QED  BY <3>2, <4>1, RedactedValue, StepsDiffer
    <3>3. ASSUME NEW k \in DOMAIN m.dict, k \in SecretKeys
          PROVE  d[k] = REDACTED /\ m.dict[k] \in Values
      <4>1. m.dict[k] \in Inner(m)
        BY <2>2, Shapes
      <4>. QED  BY <3>3, <4>1 DEF Inner
    <3> HIDE DEF d
    <3>4. \A x : x \in Leaves[Redacted[m]] <=>
            \E k \in DOMAIN m.dict : x \in Below([key |-> k], Leaves[d[k]])
      <4>1. IsDict(Redacted[m]) /\ Redacted[m].dict = d
        BY <3>1 DEF IsDict
      <4>. QED  BY <2>1, <3>1, <4>1, LeavesByKind
    <3>5. \A x : x \in Leaves[m] <=>
            \E k \in DOMAIN m.dict : x \in Below([key |-> k], Leaves[m.dict[k]])
      BY <2>2, LeavesByKind
    <3>6. ASSUME NEW k \in DOMAIN m.dict, k \in SecretKeys
          PROVE  /\ \A x \in Below([key |-> k], Leaves[d[k]]) :
                      Secret(x) /\ x.text = REDACTED.leaf
                 /\ \A x \in Below([key |-> k], Leaves[m.dict[k]]) : Secret(x)
      <4>1. d[k] = REDACTED /\ REDACTED \in Values /\ m.dict[k] \in Values
        BY <3>3, <3>6, ValuesAssumption
      <4>2. \A l \in Leaves[REDACTED] : l.text = REDACTED.leaf
        <5>1. ~IsDict(REDACTED) /\ ~IsList(REDACTED)
          BY DEF REDACTED, IsDict, IsList
        <5>. QED  BY <4>1, <5>1, LeavesByKind
      <4>. QED  BY <3>6, <4>1, <4>2, SecretBelow
    <3>7. ASSUME NEW k \in DOMAIN m.dict, k \notin SecretKeys
          PROVE  /\ \A x \in Below([key |-> k], Leaves[d[k]]) :
                      Secret(x) => x.text = REDACTED.leaf
                 /\ \A x : ~Secret(x) => (x \in Below([key |-> k], Leaves[d[k]])
                                           <=> x \in Below([key |-> k], Leaves[m.dict[k]]))
      BY <3>2, <3>7, CleanBelow
    <3>8. \A x \in Leaves[Redacted[m]] : Secret(x) => x.text = REDACTED.leaf
      BY <3>4, <3>6, <3>7
    <3>9. ASSUME NEW x, ~Secret(x) PROVE x \in Leaves[Redacted[m]] <=> x \in Leaves[m]
      BY <3>4, <3>5, <3>6, <3>7, <3>9
    <3>. QED  BY <3>8, <3>9 DEF Cleaned
  <2>3. CASE IsList(m)
    <3> DEFINE l == [i \in DOMAIN m.list |-> Redacted[m.list[i]]]
    <3>1. Redacted[m] = [list |-> l] /\ DOMAIN l = DOMAIN m.list
      BY <2>1, <2>3, Shapes DEF RedactStep
    <3>2. ASSUME NEW i \in DOMAIN m.list
          PROVE  l[i] \in Values /\ m.list[i] \in Values /\ Cleaned(l[i], m.list[i])
      <4>1. m.list[i] \in S
        BY <1>1, <2>3, Shapes
      <4>. QED  BY <4>1, RedactedValue
    <3> HIDE DEF l
    <3>3. \A x : x \in Leaves[Redacted[m]] <=>
            \E i \in DOMAIN m.list : x \in Below([at |-> i], Leaves[l[i]])
      <4>1. IsList(Redacted[m]) /\ Redacted[m].list = l
        BY <3>1 DEF IsList
      <4>. QED  BY <2>1, <3>1, <4>1, LeavesByKind
    <3>4. \A x : x \in Leaves[m] <=>
            \E i \in DOMAIN m.list : x \in Below([at |-> i], Leaves[m.list[i]])
      BY <2>3, LeavesByKind
    <3>5. ASSUME NEW i \in DOMAIN m.list
          PROVE  /\ \A x \in Below([at |-> i], Leaves[l[i]]) :
                      Secret(x) => x.text = REDACTED.leaf
                 /\ \A x : ~Secret(x) => (x \in Below([at |-> i], Leaves[l[i]])
                                           <=> x \in Below([at |-> i], Leaves[m.list[i]]))
      BY <3>2, StepsDiffer, CleanBelow
    <3>6. \A x \in Leaves[Redacted[m]] : Secret(x) => x.text = REDACTED.leaf
      BY <3>3, <3>5
    <3>7. ASSUME NEW x, ~Secret(x) PROVE x \in Leaves[Redacted[m]] <=> x \in Leaves[m]
      BY <3>3, <3>4, <3>5, <3>7
    <3>. QED  BY <3>6, <3>7 DEF Cleaned
  <2>4. CASE ~IsDict(m) /\ ~IsList(m)
    <3>1. Redacted[m] = m
      BY <2>1, <2>4 DEF RedactStep
    <3>2. \A l \in Leaves[m] : l.path = <<>>
      BY <2>4, LeavesByKind
    <3>3. \A l \in Leaves[m] : ~Secret(l)
      <4>1. Range(<<>>) = {}
        BY DEF Range
      <4>. QED  BY <3>2, <4>1 DEF Secret
    <3>. QED  BY <3>1, <3>3 DEF Cleaned
  <2>. QED  BY <2>2, <2>3, <2>4
<1>2. Values \subseteq S
  <2> HIDE DEF S
  <2>. QED  BY <1>1, DepthInduction
<1>. QED  BY <1>2
-----------------------------------------------------------------------------
\* The invariant.

\* A row as _build makes it, before the database has it.
Written ==
  [id : Posts \X (Nat \ {0}), tenant : Tenants,
   orchestrator : Text, agent_name : Text \ {"", NoOne}, session_id : Text \ {""},
   metadata : {m \in Values : IsDict(m)} \cup {Null},
   ts : [wall : Int, zone : Int, aware : {TRUE}]]

\* The i-th row of p in the database.
StoredRow(p, i) == [post[p].rows[i] EXCEPT !.ts = Column(@)]

IsAccepted(p) == post[p].at \in {"writing", "committed", "done"}

\* A handler past the building of its rows holds those of a batch without fault.
HandlerInv ==
  /\ DOMAIN post = Posts
  /\ \A p \in Posts :
       LET h == post[p] IN
       /\ h = [at |-> h.at, body |-> h.body, rows |-> h.rows]
       /\ h.at \in {"new", "writing", "committed", "done", "refused", "raised"}
       /\ IsAccepted(p) =>
            /\ h.body \in Bodies[p]
            /\ \A i \in DOMAIN h.body : Fault(h.body[i]) = "none"
            /\ \E now \in Times :
                 h.rows = [i \in DOMAIN h.body |-> Build(p, i, h.body[i], now)]

\* The database has the rows of the handlers that committed, and no others.
DbInv ==
  /\ IsFiniteSet(db)
  /\ db = UNION {{StoredRow(p, i) : i \in DOMAIN post[p].rows} :
                   p \in {q \in Posts : IsStored(q)}}

\* So has the feed those of the handlers that published.
FeedInv ==
  /\ feed \in Seq(Range(feed))
  /\ Range(feed) = UNION {{ToDict(post[p].rows[i]) : i \in DOMAIN post[p].rows} :
                            p \in {q \in Posts : post[q].at = "done"}}

StoreInv == HandlerInv /\ DbInv /\ FeedInv

\* Metadata are kept as a dict or not at all.
LEMMA MetadataIs ==
  ASSUME NEW e \in Sendable
  PROVE  /\ Metadata(e) \in {m \in Values : IsDict(m)} \cup {Null}
         /\ IsDict(e.metadata) => /\ e.metadata \in Values
                                  /\ Metadata(e) = Redacted[e.metadata]
                                  /\ Metadata(e) # Null
         /\ ~IsDict(e.metadata) => Metadata(e) = Null
<1>1. e.metadata \in Values \cup {Null}
  BY DEF Sendable
<1>2. ~IsDict(Null)
  BY DEF IsDict, Null
<1>3. CASE IsDict(e.metadata)
  <2>1. e.metadata \in Values /\ Metadata(e) = Redacted[e.metadata]
    BY <1>1, <1>2, <1>3 DEF Metadata
  <2>2. Metadata(e) \in Values /\ IsDict(Metadata(e))
    BY <1>3, <2>1, RedactedValue
  <2>3. Metadata(e) # Null
    BY <1>2, <2>2
  <2>. QED  BY <1>3, <2>1, <2>2, <2>3
<1>4. CASE ~IsDict(e.metadata)
  BY <1>4 DEF Metadata
<1>. QED  BY <1>3, <1>4

\* A time that a producer may send and that _coerce_ts takes is an aware one.
LEMMA CoercedTime ==
  ASSUME NEW v \in Stamp, TsFault(v) = "none", NEW now \in Int
  PROVE  /\ v.kind \in {"none", "epoch", "naive", "zoned"}
         /\ CoerceTs(v, now) \in [wall : Int, zone : Int, aware : {TRUE}]
         /\ v.kind # "none" => /\ Said(v) \in Int
                               /\ CoerceTs(v, now).wall - CoerceTs(v, now).zone = Said(v)
<1>1. v.kind \in {"none", "epoch", "naive", "zoned"}
  BY DEF TsFault, Stamp, Bound
<1>2. CASE v.kind = "none"
  <2>1. CoerceTs(v, now) = Utc(now)
    BY <1>2 DEF CoerceTs
  <2>. QED  BY <1>2, <2>1 DEF Utc
<1>3. CASE v.kind = "epoch"
  <2>1. v.at \in Int
    BY <1>3 DEF Stamp, Bound
  <2>2. CoerceTs(v, now) = Utc(v.at) /\ Said(v) = v.at
    BY <1>3 DEF CoerceTs, Said
  <2>. QED  BY <1>3, <2>1, <2>2 DEF Utc
<1>4. CASE v.kind = "naive"
  <2>1. v.wall \in Int
    BY <1>4 DEF Stamp, Bound
  <2>2. CoerceTs(v, now) = Utc(v.wall) /\ Said(v) = v.wall
    BY <1>4 DEF CoerceTs, Said
  <2>. QED  BY <1>4, <2>1, <2>2 DEF Utc
<1>5. CASE v.kind = "zoned"
  <2>1. v.wall \in Int /\ v.zone \in Int
    BY <1>5 DEF Stamp, Bound
  <2>2. /\ CoerceTs(v, now) = [wall |-> v.wall, zone |-> v.zone, aware |-> TRUE]
        /\ Said(v) = v.wall - v.zone
    BY <1>5 DEF CoerceTs, Said
  <2>. QED  BY <1>5, <2>1, <2>2
<1>. QED  BY <1>1, <1>2, <1>3, <1>4, <1>5

\* What _build makes of an event without fault.
LEMMA BuiltRow ==
  ASSUME NEW p \in Posts, NEW i \in Nat \ {0}, NEW e \in Sendable, Fault(e) = "none",
         NEW now \in Times
  PROVE  Build(p, i, e, now) \in Written
<1>1. ValidateFault(e) = "none" /\ TsFault(e.ts) = "none"
  BY DEF Fault
<1>2. e.agent_name # "" /\ e.session_id # ""
  BY <1>1 DEF ValidateFault
<1>3. /\ e.orchestrator \in Text /\ e.agent_name \in Text \ {"", NoOne}
      /\ e.session_id \in Text \ {""} /\ e.ts \in Stamp
  BY <1>2 DEF Sendable
<1>4. CoerceTs(e.ts, now) \in [wall : Int, zone : Int, aware : {TRUE}]
  BY <1>1, <1>3, CoercedTime, BodiesAssumption
<1>5. ResolvedTenant(Caller[p]) \in Tenants
  BY CallerAssumption DEF ResolvedTenant
<1>6. <<p, i>> \in Posts \X (Nat \ {0})
  OBVIOUS
<1>. QED  BY <1>3, <1>4, <1>5, <1>6, MetadataIs DEF Build, Written

\* A batch with an event that raises, raises.
LEMMA FaultOfBatch ==
  ASSUME NEW p \in Posts, NEW body \in Bodies[p], FaultOf(body) = "none"
  PROVE  \A i \in DOMAIN body : Fault(body[i]) = "none"
<1> DEFINE bad == {i \in DOMAIN body : Fault(body[i]) # "none"}
<1>1. SUFFICES ASSUME bad # {} PROVE FALSE
  OBVIOUS
<1>2. body \in Seq(Sendable)
  BY BodiesAssumption
<1>3. bad \in SUBSET Nat
  BY <1>2, LenProperties
<1>4. Min(bad) \in bad
  <2> HIDE DEF bad
  <2>1. \E x \in bad : \A y \in bad : x <= y
    BY <1>1, <1>3, LeastNatural
  <2>. QED  BY <2>1 DEF Min
<1>5. FaultOf(body) = Fault(body[Min(bad)])
  BY <1>1 DEF FaultOf
<1>. QED  BY <1>4, <1>5

\* The rows of a batch that was accepted, one by one.
LEMMA AcceptedRows ==
  ASSUME HandlerInv, NEW p \in Posts, IsAccepted(p)
  PROVE  /\ post[p].body \in Seq(Sendable) /\ post[p].body # <<>>
         /\ Len(post[p].body) \in Nat /\ DOMAIN post[p].body = 1..Len(post[p].body)
         /\ DOMAIN post[p].rows = DOMAIN post[p].body
         /\ post[p].rows \in Seq(Written)
         /\ \E now \in Times : \A i \in DOMAIN post[p].body :
              /\ post[p].body[i] \in Sendable
              /\ Fault(post[p].body[i]) = "none"
              /\ post[p].rows[i] \in Written
              /\ post[p].rows[i] = Build(p, i, post[p].body[i], now)
<1> DEFINE body == post[p].body
           rows == post[p].rows
<1>1. body \in Bodies[p] /\ \A i \in DOMAIN body : Fault(body[i]) = "none"
  BY DEF HandlerInv
<1>2. PICK now \in Times : rows = [i \in DOMAIN body |-> Build(p, i, body[i], now)]
  BY DEF HandlerInv
<1>3. body \in Seq(Sendable) /\ body # <<>>
  BY <1>1, BodiesAssumption
<1> HIDE DEF body, rows
<1>4. Len(body) \in Nat /\ DOMAIN body = 1..Len(body)
  BY <1>3, LenProperties
<1>5. ASSUME NEW i \in DOMAIN body
      PROVE  /\ body[i] \in Sendable /\ Fault(body[i]) = "none"
             /\ rows[i] \in Written /\ rows[i] = Build(p, i, body[i], now)
  <2>1. i \in Nat \ {0}
    BY <1>4
  <2>2. body[i] \in Sendable
    BY <1>3, <1>4, ElementOfSeq
  <2>. QED  BY <1>1, <1>2, <2>1, <2>2, BuiltRow
<1>6. DOMAIN rows = DOMAIN body
  BY <1>2
<1>7. rows \in Seq(Written)
  <2>1. rows \in [1..Len(body) -> Written]
    BY <1>2, <1>4, <1>5
  <2>. QED  BY <1>4, <2>1, SeqDef
<1>. QED  BY <1>3, <1>4, <1>5, <1>6, <1>7 DEF body, rows
-----------------------------------------------------------------------------
\* Steps.

\* Rows that are in the database stay as they are.
LEMMA DbKept ==
  ASSUME DbInv, db' = db,
         \A q \in Posts : IsStored(q)' <=> IsStored(q),
         \A q \in Posts : IsStored(q) => post'[q].rows = post[q].rows
  PROVE  DbInv'
<1>1. \A q \in Posts : IsStored(q) =>
        {StoredRow(q, i)' : i \in DOMAIN post'[q].rows}
          = {StoredRow(q, i) : i \in DOMAIN post[q].rows}
  BY DEF StoredRow
<1>2. {q \in Posts : IsStored(q)'} = {q \in Posts : IsStored(q)}
  OBVIOUS
<1>3. UNION {{StoredRow(q, i)' : i \in DOMAIN post'[q].rows} : q \in {q \in Posts : IsStored(q)'}}
        = UNION {{StoredRow(q, i) : i \in DOMAIN post[q].rows} : q \in {q \in Posts : IsStored(q)}}
  BY <1>1, <1>2
<1>. QED  BY <1>3 DEF DbInv

\* What was published stays as it is.
LEMMA FeedKept ==
  ASSUME FeedInv, feed' = feed,
         \A q \in Posts : post'[q].at = "done" <=> post[q].at = "done",
         \A q \in Posts : post[q].at = "done" => post'[q].rows = post[q].rows
  PROVE  FeedInv'
<1>1. \A q \in Posts : post[q].at = "done" =>
        {ToDict(post'[q].rows[i]) : i \in DOMAIN post'[q].rows}
          = {ToDict(post[q].rows[i]) : i \in DOMAIN post[q].rows}
  OBVIOUS
<1>2. {q \in Posts : post'[q].at = "done"} = {q \in Posts : post[q].at = "done"}
  OBVIOUS
<1>3. UNION {{ToDict(post'[q].rows[i]) : i \in DOMAIN post'[q].rows} :
               q \in {q \in Posts : post'[q].at = "done"}}
        = UNION {{ToDict(post[q].rows[i]) : i \in DOMAIN post[q].rows} :
                   q \in {q \in Posts : post[q].at = "done"}}
  BY <1>1, <1>2
<1>. QED  BY <1>3 DEF FeedInv

\* A step of one handler: its record is h, and the others are as they were.
Moves(p, h) ==
  /\ DOMAIN post' = Posts /\ post'[p] = h
  /\ \A q \in Posts : q # p => post'[q] = post[q]

\* A handler that goes on with its rows.
LEMMA HandlerMoves ==
  ASSUME HandlerInv, NEW p \in Posts, NEW at, Moves(p, [post[p] EXCEPT !.at = at]),
         at \in {"committed", "done", "raised"},
         at \in {"committed", "done"} => IsAccepted(p)
  PROVE  /\ HandlerInv'
         /\ post'[p].at = at /\ post'[p].rows = post[p].rows
<1>1. post[p] = [at |-> post[p].at, body |-> post[p].body, rows |-> post[p].rows]
  BY DEF HandlerInv
<1>2. post'[p] = [at |-> at, body |-> post[p].body, rows |-> post[p].rows]
  BY <1>1 DEF Moves
<1>3. ASSUME NEW q \in Posts
      PROVE  LET h == post'[q] IN
             /\ h = [at |-> h.at, body |-> h.body, rows |-> h.rows]
             /\ h.at \in {"new", "writing", "committed", "done", "refused", "raised"}
             /\ IsAccepted(q)' =>
                  /\ h.body \in Bodies[q]
                  /\ \A i \in DOMAIN h.body : Fault(h.body[i]) = "none"
                  /\ \E now \in Times :
                       h.rows = [i \in DOMAIN h.body |-> Build(q, i, h.body[i], now)]
  <2>1. CASE q = p
    <3>1. /\ post'[q].at = at /\ post'[q].body = post[p].body /\ post'[q].rows = post[p].rows
          /\ post'[q] = [at |-> post'[q].at, body |-> post'[q].body, rows |-> post'[q].rows]
      BY <1>2, <2>1
    <3>2. IsAccepted(q)' => IsAccepted(p)
      BY <3>1 DEF IsAccepted
    <3>3. IsAccepted(p) =>
            /\ post[p].body \in Bodies[p]
            /\ \A i \in DOMAIN post[p].body : Fault(post[p].body[i]) = "none"
            /\ \E now \in Times : post[p].rows =
                 [i \in DOMAIN post[p].body |-> Build(p, i, post[p].body[i], now)]
      BY DEF HandlerInv
    <3>. QED  BY <2>1, <3>1, <3>2, <3>3
  <2>2. CASE q # p
    <3>1. post'[q] = post[q]
      BY <2>2 DEF Moves
    <3>. QED  BY <3>1 DEF HandlerInv, IsAccepted
  <2>. QED  BY <2>1, <2>2
<1>4. DOMAIN post' = Posts
  BY DEF Moves
<1>. QED  BY <1>2, <1>3, <1>4 DEF HandlerInv

\* The rows are built, or the batch is refused or raises.
LEMMA PostBuildsInv ==
  ASSUME StoreInv, NEW p \in Posts, NEW body \in Bodies[p], NEW now \in Times,
         PostBuilds(p, body, now)
  PROVE  StoreInv'
<1> DEFINE at == CASE FaultOf(body) = "none" -> "writing"
                   [] FaultOf(body) = "IngestError" -> "refused"
                   [] OTHER -> "raised"
           rows == IF FaultOf(body) # "none" THEN <<>>
                   ELSE [i \in DOMAIN body |-> Build(p, i, body[i], now)]
<1>1. HandlerInv /\ DbInv /\ FeedInv /\ post[p].at = "new" /\ UNCHANGED <<db, feed>>
  BY DEF StoreInv, PostBuilds
<1>2. Moves(p, [at |-> at, body |-> body, rows |-> rows])
  BY <1>1 DEF PostBuilds, NewPost, Moves, HandlerInv
<1>3. /\ at \in {"writing", "refused", "raised"}
      /\ at = "writing" => FaultOf(body) = "none"
  OBVIOUS
<1>4. at = "writing" => rows = [i \in DOMAIN body |-> Build(p, i, body[i], now)]
  OBVIOUS
<1> HIDE DEF at, rows
<1>5. /\ post'[p].at = at /\ post'[p].body = body /\ post'[p].rows = rows
      /\ post'[p] = [at |-> post'[p].at, body |-> post'[p].body, rows |-> post'[p].rows]
  BY <1>2 DEF Moves
<1>6. HandlerInv'
  <2>1. ASSUME NEW q \in Posts
        PROVE  LET h == post'[q] IN
               /\ h = [at |-> h.at, body |-> h.body, rows |-> h.rows]
               /\ h.at \in {"new", "writing", "committed", "done", "refused", "raised"}
               /\ IsAccepted(q)' =>
                    /\ h.body \in Bodies[q]
                    /\ \A i \in DOMAIN h.body : Fault(h.body[i]) = "none"
                    /\ \E t \in Times :
                         h.rows = [i \in DOMAIN h.body |-> Build(q, i, h.body[i], t)]
    <3>1. CASE q = p
      <4>1. IsAccepted(p)' => at = "writing"
        BY <1>3, <1>5 DEF IsAccepted
      <4>. QED  BY <1>3, <1>4, <1>5, <3>1, <4>1, FaultOfBatch
    <3>2. CASE q # p
      <4>1. post'[q] = post[q]
        BY <1>2, <3>2 DEF Moves
      <4>. QED  BY <1>1, <4>1 DEF HandlerInv, IsAccepted
    <3>. QED  BY <3>1, <3>2
  <2>. QED  BY <1>2, <2>1 DEF HandlerInv, Moves
<1>7. \A q \in Posts : q # p => post'[q] = post[q]
  BY <1>2 DEF Moves
<1>8. DbInv'
  <2>1. \A q \in Posts : IsStored(q)' <=> IsStored(q)
    BY <1>1, <1>3, <1>5, <1>7 DEF IsStored
  <2>2. \A q \in Posts : IsStored(q) => post'[q].rows = post[q].rows
    BY <1>1, <1>7 DEF IsStored
  <2>. QED  BY <1>1, <2>1, <2>2, DbKept
<1>9. FeedInv'
  <2>1. \A q \in Posts : post'[q].at = "done" <=> post[q].at = "done"
    BY <1>1, <1>3, <1>5, <1>7
  <2>2. \A q \in Posts : post[q].at = "done" => post'[q].rows = post[q].rows
    BY <1>1, <1>7
  <2>. QED  BY <1>1, <2>1, <2>2, FeedKept
<1>. QED  BY <1>6, <1>8, <1>9 DEF StoreInv

\* The write session raises.
LEMMA PostRollsBackInv ==
  ASSUME StoreInv, NEW p \in Posts, PostRollsBack(p)
  PROVE  StoreInv'
<1>1. HandlerInv /\ DbInv /\ FeedInv /\ post[p].at = "writing" /\ UNCHANGED <<db, feed>>
  BY DEF StoreInv, PostRollsBack
<1>2. Moves(p, [post[p] EXCEPT !.at = "raised"])
  BY <1>1 DEF PostRollsBack, Moves, HandlerInv
<1>3. HandlerInv' /\ post'[p].at = "raised"
  BY <1>1, <1>2, HandlerMoves
<1>4. \A q \in Posts : q # p => post'[q] = post[q]
  BY <1>2 DEF Moves
<1>5. DbInv'
  <2>1. \A q \in Posts : IsStored(q)' <=> IsStored(q)
    BY <1>1, <1>3, <1>4 DEF IsStored
  <2>2. \A q \in Posts : IsStored(q) => post'[q].rows = post[q].rows
    BY <1>1, <1>4 DEF IsStored
  <2>. QED  BY <1>1, <2>1, <2>2, DbKept
<1>6. FeedInv'
  <2>1. \A q \in Posts : post'[q].at = "done" <=> post[q].at = "done"
    BY <1>1, <1>3, <1>4
  <2>2. \A q \in Posts : post[q].at = "done" => post'[q].rows = post[q].rows
    BY <1>1, <1>4
  <2>. QED  BY <1>1, <2>1, <2>2, FeedKept
<1>. QED  BY <1>3, <1>5, <1>6 DEF StoreInv

\* The write session commits.
LEMMA PostCommitsInv ==
  ASSUME StoreInv, NEW p \in Posts, PostCommits(p)
  PROVE  StoreInv'
<1>1. /\ HandlerInv /\ DbInv /\ FeedInv /\ post[p].at = "writing" /\ feed' = feed
      /\ db' = db \cup {[row EXCEPT !.ts = Column(@)] : row \in Range(post[p].rows)}
  BY DEF StoreInv, PostCommits
<1>2. Moves(p, [post[p] EXCEPT !.at = "committed"])
  BY <1>1 DEF PostCommits, Moves, HandlerInv
<1>3. HandlerInv' /\ post'[p].at = "committed" /\ post'[p].rows = post[p].rows
  <2>1. IsAccepted(p)
    BY <1>1 DEF IsAccepted
  <2>. QED  BY <1>1, <1>2, <2>1, HandlerMoves
<1>4. \A q \in Posts : q # p => post'[q] = post[q]
  BY <1>2 DEF Moves
<1>5. FeedInv'
  <2>1. \A q \in Posts : post'[q].at = "done" <=> post[q].at = "done"
    BY <1>1, <1>3, <1>4
  <2>2. \A q \in Posts : post[q].at = "done" => post'[q].rows = post[q].rows
    BY <1>1, <1>4
  <2>. QED  BY <1>1, <2>1, <2>2, FeedKept
<1>6. DbInv'
  <2> DEFINE new == {StoredRow(p, i) : i \in DOMAIN post[p].rows}
  <2>1. db' = db \cup new
    BY <1>1 DEF Range, StoredRow
  <2>2. IsFiniteSet(new)
    <3>1. IsFiniteSet(DOMAIN post[p].rows)
      <4>1. /\ Len(post[p].body) \in Nat
            /\ DOMAIN post[p].rows = 1..Len(post[p].body)
        BY <1>1, AcceptedRows DEF IsAccepted
      <4>2. 1 \in Int /\ Len(post[p].body) \in Int
        BY <4>1
      <4>. QED  BY <4>1, <4>2, FS_Interval
    <3>2. PICK D : D = DOMAIN post[p].rows
      OBVIOUS
    <3>3. IsFiniteSet(D)
      BY <3>1, <3>2
    <3>4. PICK g : g = [i \in D |-> StoredRow(p, i)]
      OBVIOUS
    <3>5. PICK U : U = new
      OBVIOUS
    <3>6. g \in [D -> U] /\ new = {g[i] : i \in D}
      BY <3>2, <3>4, <3>5
    <3> HIDE DEF new
    <3>7. IsFiniteSet({g[i] : i \in D})
      BY <3>3, <3>6, FiniteImage
    <3>. QED  BY <3>6, <3>7
  <2>3. IsFiniteSet(db')
    <3> HIDE DEF new
    <3>1. IsFiniteSet(db)
      BY <1>1 DEF DbInv
    <3>2. IsFiniteSet(db \cup new)
      BY <2>2, <3>1, FS_Union
    <3>. QED  BY <2>1, <3>2
  <2>4. \A x : x \in db <=>
          \E q \in Posts : IsStored(q) /\ \E i \in DOMAIN post[q].rows : x = StoredRow(q, i)
    BY <1>1 DEF DbInv
  <2>5. \A q \in Posts : IsStored(q)' <=> IsStored(q) \/ q = p
    BY <1>1, <1>3, <1>4 DEF IsStored
  <2>6. \A q \in Posts : /\ DOMAIN post'[q].rows = DOMAIN post[q].rows
                         /\ \A i : StoredRow(q, i)' = StoredRow(q, i)
    BY <1>3, <1>4 DEF StoredRow
  <2>7. \A x : x \in db' <=>
          \E q \in Posts : IsStored(q)' /\ \E i \in DOMAIN post'[q].rows : x = StoredRow(q, i)'
    BY <2>1, <2>4, <2>5, <2>6
  <2>8. db' = UNION {{StoredRow(q, i)' : i \in DOMAIN post'[q].rows} :
                       q \in {r \in Posts : IsStored(r)'}}
    BY <2>7
  <2>. QED  BY <2>3, <2>8 DEF DbInv
<1>. QED  BY <1>3, <1>5, <1>6 DEF StoreInv

\* The rows are published.
LEMMA PostPublishesInv ==
  ASSUME StoreInv, NEW p \in Posts, PostPublishes(p)
  PROVE  StoreInv'
<1> DEFINE frames == [i \in DOMAIN post[p].rows |-> ToDict(post[p].rows[i])]
<1>1. /\ HandlerInv /\ DbInv /\ FeedInv /\ post[p].at = "committed" /\ db' = db
      /\ feed' = feed \o frames
  BY DEF StoreInv, PostPublishes
<1>2. Moves(p, [post[p] EXCEPT !.at = "done"])
  BY <1>1 DEF PostPublishes, Moves, HandlerInv
<1>3. HandlerInv' /\ post'[p].at = "done" /\ post'[p].rows = post[p].rows
  <2>1. IsAccepted(p)
    BY <1>1 DEF IsAccepted
  <2>. QED  BY <1>1, <1>2, <2>1, HandlerMoves
<1>4. \A q \in Posts : q # p => post'[q] = post[q]
  BY <1>2 DEF Moves
<1>5. DbInv'
  <2>1. \A q \in Posts : IsStored(q)' <=> IsStored(q)
    BY <1>1, <1>3, <1>4 DEF IsStored
  <2>2. \A q \in Posts : IsStored(q) => post'[q].rows = post[q].rows
    BY <1>3, <1>4
  <2>. QED  BY <1>1, <2>1, <2>2, DbKept
<1>6. FeedInv'
  <2>1. Range(frames) = {ToDict(post[p].rows[i]) : i \in DOMAIN post[p].rows}
    BY DEF Range
  <2>2. frames \in Seq(Range(frames))
    <3>1. /\ Len(post[p].body) \in Nat
          /\ DOMAIN post[p].rows = 1..Len(post[p].body)
      BY <1>1, AcceptedRows DEF IsAccepted
    <3>2. frames \in [1..Len(post[p].body) -> Range(frames)]
      BY <2>1, <3>1
    <3>. QED  BY <3>1, <3>2, SeqDef
  <2> HIDE DEF frames
  <2>3. feed' \in Seq(Range(feed')) /\ Range(feed') = Range(feed) \cup Range(frames)
    <3> DEFINE S == Range(feed) \cup Range(frames)
    <3>1. feed \in Seq(Range(feed))
      BY <1>1 DEF FeedInv
    <3>2. feed \in Seq(S) /\ frames \in Seq(S)
      BY <2>2, <3>1, SeqMonotonic
    <3> HIDE DEF S
    <3>3. feed' \in Seq(S) /\ Range(feed') = Range(feed) \cup Range(frames)
      BY <1>1, <3>2, ConcatProperties, RangeConcatenation
    <3>. QED  BY <3>3 DEF S
  <2>4. \A x : x \in Range(feed) <=>
          \E q \in Posts : post[q].at = "done" /\ \E i \in DOMAIN post[q].rows :
                                                    x = ToDict(post[q].rows[i])
    BY <1>1 DEF FeedInv
  <2>5. \A q \in Posts : post'[q].at = "done" <=> (post[q].at = "done" \/ q = p)
    BY <1>3, <1>4
  <2>6. \A q \in Posts : post'[q].rows = post[q].rows
    BY <1>3, <1>4
  <2>7. \A x : x \in Range(feed') <=>
          \E q \in Posts : post'[q].at = "done" /\ \E i \in DOMAIN post'[q].rows :
                                                    x = ToDict(post'[q].rows[i])
    BY <2>1, <2>3, <2>4, <2>5, <2>6
  <2>8. Range(feed') = UNION {{ToDict(post'[q].rows[i]) : i \in DOMAIN post'[q].rows} :
                                q \in {r \in Posts : post'[r].at = "done"}}
    BY <2>7
  <2>. QED  BY <2>3, <2>8 DEF FeedInv
<1>. QED  BY <1>3, <1>5, <1>6 DEF StoreInv

\* At first nothing is posted.
LEMMA StoreInit == Init => StoreInv
<1> SUFFICES ASSUME Init PROVE StoreInv
  OBVIOUS
<1>1. db = {} /\ feed = <<>> /\ post = [p \in Posts |-> NewPost]
  BY DEF Init
<1>2. /\ NewPost.at = "new"
      /\ NewPost = [at |-> NewPost.at, body |-> NewPost.body, rows |-> NewPost.rows]
  BY DEF NewPost
<1>3. \A p \in Posts : post[p] = NewPost
  BY <1>1
<1>4. HandlerInv
  BY <1>1, <1>2, <1>3 DEF HandlerInv, IsAccepted
<1>5. DbInv
  BY <1>1, <1>2, <1>3, FS_EmptySet DEF DbInv, IsStored
<1>6. FeedInv
  <2>1. Range(feed) = {} /\ feed \in Seq({})
    BY <1>1, EmptySeq DEF Range
  <2>. QED  BY <1>2, <1>3, <2>1 DEF FeedInv
<1>. QED  BY <1>4, <1>5, <1>6 DEF StoreInv

\* Every step keeps the invariant.
LEMMA StoreStep == StoreInv /\ [Next]_vars => StoreInv'
<1> SUFFICES ASSUME StoreInv, [Next]_vars PROVE StoreInv'
  OBVIOUS
<1>1. ASSUME NEW p \in Posts, NEW body \in Bodies[p], NEW now \in Times,
             PostBuilds(p, body, now)
      PROVE  StoreInv'
  BY <1>1, PostBuildsInv
<1>2. ASSUME NEW p \in Posts, PostCommits(p) PROVE StoreInv'
  BY <1>2, PostCommitsInv
<1>3. ASSUME NEW p \in Posts, PostRollsBack(p) PROVE StoreInv'
  BY <1>3, PostRollsBackInv
<1>4. ASSUME NEW p \in Posts, PostPublishes(p) PROVE StoreInv'
  BY <1>4, PostPublishesInv
<1>5. CASE UNCHANGED vars
  <2>1. db' = db /\ feed' = feed /\ post' = post
    BY <1>5 DEF vars
  <2>2. HandlerInv'
    <3>1. HandlerInv
      BY DEF StoreInv
    <3>2. DOMAIN post' = Posts
      BY <2>1, <3>1 DEF HandlerInv
    <3>3. ASSUME NEW q \in Posts
          PROVE  LET h == post'[q] IN
                 /\ h = [at |-> h.at, body |-> h.body, rows |-> h.rows]
                 /\ h.at \in {"new", "writing", "committed", "done", "refused", "raised"}
                 /\ IsAccepted(q)' =>
                      /\ h.body \in Bodies[q]
                      /\ \A i \in DOMAIN h.body : Fault(h.body[i]) = "none"
                      /\ \E t \in Times :
                           h.rows = [i \in DOMAIN h.body |-> Build(q, i, h.body[i], t)]
      <4>1. post'[q] = post[q] /\ (IsAccepted(q)' <=> IsAccepted(q))
        BY <2>1 DEF IsAccepted
      <4>2. LET h == post[q] IN
            /\ h = [at |-> h.at, body |-> h.body, rows |-> h.rows]
            /\ h.at \in {"new", "writing", "committed", "done", "refused", "raised"}
            /\ IsAccepted(q) =>
                 /\ h.body \in Bodies[q]
                 /\ \A i \in DOMAIN h.body : Fault(h.body[i]) = "none"
                 /\ \E t \in Times :
                      h.rows = [i \in DOMAIN h.body |-> Build(q, i, h.body[i], t)]
        BY <3>1 DEF HandlerInv
      <4>. QED  BY <4>1, <4>2
    <3>. QED  BY <3>2, <3>3 DEF HandlerInv
  <2>3. DbInv' /\ FeedInv'
    BY <2>1, DbKept, FeedKept DEF StoreInv, IsStored
  <2>. QED  BY <2>2, <2>3 DEF StoreInv
<1>. QED  BY <1>1, <1>2, <1>3, <1>4, <1>5 DEF Next

\* The invariant holds whatever is posted side by side.
THEOREM StoreInvariance == Spec => []StoreInv
<1>. QED  BY StoreInit, StoreStep, PTL DEF Spec
-----------------------------------------------------------------------------
\* What the database and the feed hold.

\* A row of the database.
Persisted ==
  [id : Posts \X (Nat \ {0}), tenant : Tenants,
   orchestrator : Text, agent_name : Text \ {"", NoOne}, session_id : Text \ {""},
   metadata : {m \in Values : IsDict(m)} \cup {Null}, ts : Int]

\* The column of a time.
LEMMA ColumnIs ==
  ASSUME NEW ts \in [wall : Int, zone : Int, aware : {TRUE}]
  PROVE  /\ Column(ts) \in Int
         /\ KeepsZone => Column(ts) = ts.wall - ts.zone
  BY DEF Column

\* What an accepted event becomes in the database, and what is published of it.
LEMMA RowOf ==
  ASSUME HandlerInv, NEW p \in Posts, IsAccepted(p), NEW i \in DOMAIN post[p].body
  PROVE  LET e == post[p].body[i]
             w == post[p].rows[i]
         IN  /\ i \in Nat \ {0} /\ i \in DOMAIN post[p].rows
             /\ e \in Sendable /\ Fault(e) = "none"
             /\ w \in Written
             /\ StoredRow(p, i) \in Persisted
             /\ StoredRow(p, i) = [id |-> <<p, i>>, tenant |-> ResolvedTenant(Caller[p]),
                  orchestrator |-> e.orchestrator, agent_name |-> e.agent_name,
                  session_id |-> e.session_id, metadata |-> Metadata(e),
                  ts |-> Column(w.ts)]
             /\ w = [id |-> <<p, i>>, tenant |-> ResolvedTenant(Caller[p]),
                  orchestrator |-> e.orchestrator, agent_name |-> e.agent_name,
                  session_id |-> e.session_id, metadata |-> Metadata(e), ts |-> w.ts]
             /\ \E now \in Times : w.ts = CoerceTs(e.ts, now)
<1> DEFINE e == post[p].body[i]
           w == post[p].rows[i]
<1>1. PICK now \in Times : \A j \in DOMAIN post[p].body :
        /\ post[p].body[j] \in Sendable
        /\ Fault(post[p].body[j]) = "none"
        /\ post[p].rows[j] \in Written
        /\ post[p].rows[j] = Build(p, j, post[p].body[j], now)
  BY AcceptedRows
<1>2. e \in Sendable /\ Fault(e) = "none" /\ w \in Written /\ w = Build(p, i, e, now)
  BY <1>1
<1>3. i \in Nat \ {0} /\ i \in DOMAIN post[p].rows
  BY AcceptedRows
<1>4. StoredRow(p, i) = [w EXCEPT !.ts = Column(@)]
  BY DEF StoredRow
<1> HIDE DEF e, w
<1>5. w = [id |-> <<p, i>>, tenant |-> ResolvedTenant(Caller[p]),
           orchestrator |-> e.orchestrator, agent_name |-> e.agent_name,
           session_id |-> e.session_id, metadata |-> Metadata(e),
           ts |-> CoerceTs(e.ts, now)]
  BY <1>2 DEF Build
<1>6. w.ts = CoerceTs(e.ts, now)
  BY <1>5
<1>7. StoredRow(p, i) = [id |-> <<p, i>>, tenant |-> ResolvedTenant(Caller[p]),
           orchestrator |-> e.orchestrator, agent_name |-> e.agent_name,
           session_id |-> e.session_id, metadata |-> Metadata(e),
           ts |-> Column(w.ts)]
  BY <1>4, <1>5
<1>8. Column(w.ts) \in Int
  BY <1>2, ColumnIs DEF Written
<1>9. StoredRow(p, i) \in Persisted
  <2>1. [w EXCEPT !.ts = Column(w.ts)] \in Persisted
    BY <1>2, <1>8 DEF Written, Persisted
  <2>. QED  BY <1>4, <2>1
<1>10. w = [id |-> <<p, i>>, tenant |-> ResolvedTenant(Caller[p]),
           orchestrator |-> e.orchestrator, agent_name |-> e.agent_name,
           session_id |-> e.session_id, metadata |-> Metadata(e), ts |-> w.ts]
  BY <1>5, <1>6
<1>. QED  BY <1>2, <1>3, <1>6, <1>7, <1>9, <1>10 DEF e, w

\* The rows of the database are those of the batches that were committed, and
\* an id is that of one row.
LEMMA RowsStored ==
  ASSUME StoreInv
  PROVE  /\ IsFiniteSet(db)
         /\ \A row \in db : \E p \in Posts :
              IsStored(p) /\ \E i \in DOMAIN post[p].body : row = StoredRow(p, i)
         /\ \A p \in Posts : IsStored(p) =>
              \A i \in DOMAIN post[p].body :
                StoredRow(p, i) \in db /\ StoredRow(p, i).id = <<p, i>>
         /\ db \subseteq Persisted
         /\ \A row, other \in db : row.id = other.id => row = other
<1>1. HandlerInv /\ DbInv /\ \A p \in Posts : IsStored(p) => IsAccepted(p)
  BY DEF StoreInv, IsStored, IsAccepted
<1>2. \A p \in Posts : IsStored(p) => DOMAIN post[p].rows = DOMAIN post[p].body
  BY <1>1, AcceptedRows
<1>3. \A row \in db : \E p \in Posts :
        IsStored(p) /\ \E i \in DOMAIN post[p].body : row = StoredRow(p, i)
  BY <1>1, <1>2 DEF DbInv
<1>4. \A p \in Posts : IsStored(p) =>
        \A i \in DOMAIN post[p].body : StoredRow(p, i) \in db
  BY <1>1, <1>2 DEF DbInv
<1>5. ASSUME NEW p \in Posts, IsStored(p), NEW i \in DOMAIN post[p].body
      PROVE  StoredRow(p, i) \in Persisted /\ StoredRow(p, i).id = <<p, i>>
  <2>1. IsAccepted(p)
    BY <1>1, <1>5
  <2>2. PICK row : row = StoredRow(p, i)
    OBVIOUS
  <2>3. /\ StoredRow(p, i) \in Persisted
        /\ StoredRow(p, i) = [id |-> <<p, i>>, tenant |-> ResolvedTenant(Caller[p]),
              orchestrator |-> post[p].body[i].orchestrator,
              agent_name |-> post[p].body[i].agent_name,
              session_id |-> post[p].body[i].session_id,
              metadata |-> Metadata(post[p].body[i]),
              ts |-> Column(post[p].rows[i].ts)]
    BY <1>1, <2>1, RowOf
  <2>4. row.id = <<p, i>>
    BY <2>2, <2>3
  <2>. QED  BY <2>2, <2>3, <2>4
<1>6. db \subseteq Persisted
  BY <1>3, <1>5
<1>7. ASSUME NEW row \in db, NEW other \in db, row.id = other.id
      PROVE  row = other
  <2>1. PICK p, i : /\ p \in Posts /\ IsStored(p) /\ i \in DOMAIN post[p].body
                    /\ row = StoredRow(p, i)
    BY <1>3
  <2>2. PICK q, j : /\ q \in Posts /\ IsStored(q) /\ j \in DOMAIN post[q].body
                    /\ other = StoredRow(q, j)
    BY <1>3
  <2>3. <<p, i>> = <<q, j>>
    BY <1>5, <1>7, <2>1, <2>2
  <2>. QED  BY <2>1, <2>2, <2>3
<1>. QED  BY <1>1, <1>3, <1>4, <1>5, <1>6, <1>7 DEF DbInv

\* The payload of a row keeps its fields, and its metadata are a dict.
LEMMA PayloadOf ==
  ASSUME NEW w, w = [id |-> w.id, tenant |-> w.tenant, orchestrator |-> w.orchestrator,
                     agent_name |-> w.agent_name, session_id |-> w.session_id,
                     metadata |-> w.metadata, ts |-> w.ts]
  PROVE  ToDict(w) = [id |-> w.id, tenant |-> w.tenant, orchestrator |-> w.orchestrator,
                      agent_name |-> w.agent_name, session_id |-> w.session_id,
                      metadata |-> IF w.metadata = Null THEN EmptyDict ELSE w.metadata,
                      ts |-> w.ts]
<1>1. PICK m : m = (IF w.metadata = Null THEN EmptyDict ELSE w.metadata)
  OBVIOUS
<1>2. ToDict(w) = [w EXCEPT !.metadata = m]
  BY <1>1 DEF ToDict
<1>3. [w EXCEPT !.metadata = m]
        = [id |-> w.id, tenant |-> w.tenant, orchestrator |-> w.orchestrator,
           agent_name |-> w.agent_name, session_id |-> w.session_id,
           metadata |-> m, ts |-> w.ts]
  OBVIOUS
<1>. QED  BY <1>1, <1>2, <1>3

\* The frames are those of the batches that were published.
LEMMA FramesPublished ==
  ASSUME StoreInv
  PROVE  /\ \A x \in Range(feed) : \E p \in Posts :
              post[p].at = "done" /\ \E i \in DOMAIN post[p].body :
                                       x = ToDict(post[p].rows[i])
         /\ \A p \in Posts : post[p].at = "done" =>
              \A i \in DOMAIN post[p].body :
                /\ ToDict(post[p].rows[i]) \in Range(feed)
                /\ ToDict(post[p].rows[i]).id = <<p, i>>
<1>1. HandlerInv /\ FeedInv /\ \A p \in Posts : post[p].at = "done" => IsAccepted(p)
  BY DEF StoreInv, IsAccepted
<1>2. \A p \in Posts : post[p].at = "done" => DOMAIN post[p].rows = DOMAIN post[p].body
  BY <1>1, AcceptedRows
<1>3. ASSUME NEW p \in Posts, post[p].at = "done", NEW i \in DOMAIN post[p].body
      PROVE  ToDict(post[p].rows[i]).id = <<p, i>>
  <2>1. PICK w, x : w = post[p].rows[i] /\ x = ToDict(w)
    OBVIOUS
  <2>2. w \in Written /\ w.id = <<p, i>>
    <3>1. /\ post[p].rows[i] \in Written
          /\ post[p].rows[i] = [id |-> <<p, i>>, tenant |-> ResolvedTenant(Caller[p]),
                  orchestrator |-> post[p].body[i].orchestrator,
                  agent_name |-> post[p].body[i].agent_name,
                  session_id |-> post[p].body[i].session_id,
                  metadata |-> Metadata(post[p].body[i]), ts |-> post[p].rows[i].ts]
      BY <1>1, <1>3, RowOf
    <3>. QED  BY <2>1, <3>1
  <2>3. x.id = w.id
    <3>1. w = [id |-> w.id, tenant |-> w.tenant, orchestrator |-> w.orchestrator,
               agent_name |-> w.agent_name, session_id |-> w.session_id,
               metadata |-> w.metadata, ts |-> w.ts]
      BY <2>2 DEF Written
    <3>2. x = [id |-> w.id, tenant |-> w.tenant, orchestrator |-> w.orchestrator,
               agent_name |-> w.agent_name, session_id |-> w.session_id,
               metadata |-> IF w.metadata = Null THEN EmptyDict ELSE w.metadata,
               ts |-> w.ts]
      BY <2>1, <3>1, PayloadOf
    <3>. QED  BY <3>2
  <2>. QED  BY <2>1, <2>2, <2>3
<1>4. /\ \A x \in Range(feed) : \E p \in Posts :
            post[p].at = "done" /\ \E i \in DOMAIN post[p].body :
                                     x = ToDict(post[p].rows[i])
      /\ \A p \in Posts : post[p].at = "done" =>
            \A i \in DOMAIN post[p].body : ToDict(post[p].rows[i]) \in Range(feed)
  BY <1>1, <1>2 DEF FeedInv
<1>. QED  BY <1>3, <1>4
-----------------------------------------------------------------------------
\* Theorems.

\* A row has the types of its columns, and the metadata of a frame are a dict.
THEOREM TypeCorrect == Spec => []TypeOK
<1>1. ASSUME StoreInv PROVE TypeOK
  <2>1. HandlerInv
    BY <1>1 DEF StoreInv
  <2>2. \A row \in db : row \in Row
    <3>1. Persisted \subseteq Row
      BY DEF Persisted, Row, Text
    <3>. QED  BY <1>1, <3>1, RowsStored
  <2>3. ASSUME NEW x \in Range(feed) PROVE IsDict(x.metadata)
    <3>1. PICK p, i : /\ p \in Posts /\ post[p].at = "done" /\ i \in DOMAIN post[p].body
                      /\ x = ToDict(post[p].rows[i])
      BY <1>1, FramesPublished
    <3>2. PICK w : w = post[p].rows[i]
      OBVIOUS
    <3>3. w \in Written
      BY <2>1, <3>1, <3>2, RowOf DEF IsAccepted
    <3>4. IsDict(EmptyDict)
      BY DEF IsDict, EmptyDict
    <3>5. x.metadata = IF w.metadata = Null THEN EmptyDict ELSE w.metadata
      <4>1. w = [id |-> w.id, tenant |-> w.tenant, orchestrator |-> w.orchestrator,
                 agent_name |-> w.agent_name, session_id |-> w.session_id,
                 metadata |-> w.metadata, ts |-> w.ts]
        BY <3>3 DEF Written
      <4>2. x = [id |-> w.id, tenant |-> w.tenant, orchestrator |-> w.orchestrator,
                 agent_name |-> w.agent_name, session_id |-> w.session_id,
                 metadata |-> IF w.metadata = Null THEN EmptyDict ELSE w.metadata,
                 ts |-> w.ts]
        BY <3>1, <3>2, <4>1, PayloadOf
      <4>. QED  BY <4>2
    <3>. QED  BY <3>3, <3>4, <3>5 DEF Written
  <2>4. \A p \in Posts :
          post[p].at \in {"new", "writing", "committed", "done", "refused", "raised"}
    BY <2>1 DEF HandlerInv
  <2>. QED  BY <2>2, <2>3, <2>4 DEF TypeOK
<1>. QED  BY <1>1, StoreInvariance, PTL

\* A batch is stored and published whole or not at all, whatever raises.
THEOREM WholeBatches == Spec => []AllOrNothing
<1>1. ASSUME StoreInv, NEW p \in Posts
      PROVE  LET stored == {row.id : row \in {r \in db : r.id[1] = p}}
                 whole == {<<p, i>> : i \in DOMAIN post[p].body} IN
             /\ stored = IF IsStored(p) THEN whole ELSE {}
             /\ {x.id : x \in {y \in Range(feed) : y.id[1] = p}} =
                  IF post[p].at = "done" THEN whole ELSE {}
             /\ IsStored(p) =>
                  \A i \in DOMAIN post[p].body : Fault(post[p].body[i]) = "none"
  <2> DEFINE stored == {row.id : row \in {r \in db : r.id[1] = p}}
             published == {x.id : x \in {y \in Range(feed) : y.id[1] = p}}
             whole == {<<p, i>> : i \in DOMAIN post[p].body}
  <2>1. ASSUME NEW x \in stored PROVE IsStored(p) /\ x \in whole
    <3>1. PICK row \in db : row.id[1] = p /\ x = row.id
      OBVIOUS
    <3>2. PICK q, i : /\ q \in Posts /\ IsStored(q) /\ i \in DOMAIN post[q].body
                      /\ row = StoredRow(q, i)
      BY <1>1, RowsStored
    <3>3. row.id = <<q, i>>
      BY <1>1, <3>2, RowsStored
    <3>. QED  BY <3>1, <3>2, <3>3
  <2>2. ASSUME IsStored(p), NEW x \in whole PROVE x \in stored
    <3>1. PICK i \in DOMAIN post[p].body : x = <<p, i>>
      OBVIOUS
    <3>2. PICK row \in db : row.id = <<p, i>>
      BY <1>1, <2>2, RowsStored
    <3>. QED  BY <3>1, <3>2
  <2>3. ASSUME NEW x \in published PROVE post[p].at = "done" /\ x \in whole
    <3>1. PICK y \in Range(feed) : y.id[1] = p /\ x = y.id
      OBVIOUS
    <3>2. PICK q, i : /\ q \in Posts /\ post[q].at = "done" /\ i \in DOMAIN post[q].body
                      /\ y = ToDict(post[q].rows[i])
      BY <1>1, FramesPublished
    <3>3. y.id = <<q, i>>
      BY <1>1, <3>2, FramesPublished
    <3>. QED  BY <3>1, <3>2, <3>3
  <2>4. ASSUME post[p].at = "done", NEW x \in whole PROVE x \in published
    <3>1. PICK i \in DOMAIN post[p].body : x = <<p, i>>
      OBVIOUS
    <3>2. PICK y \in Range(feed) : y.id = <<p, i>>
      BY <1>1, <2>4, FramesPublished
    <3>. QED  BY <3>1, <3>2
  <2>5. IsStored(p) => \A i \in DOMAIN post[p].body : Fault(post[p].body[i]) = "none"
    BY <1>1 DEF StoreInv, HandlerInv, IsStored, IsAccepted
  <2> HIDE DEF stored, published, whole
  <2>6. stored = IF IsStored(p) THEN whole ELSE {}
    BY <2>1, <2>2
  <2>7. published = IF post[p].at = "done" THEN whole ELSE {}
    BY <2>3, <2>4
  <2>. QED  BY <2>5, <2>6, <2>7 DEF stored, published, whole
<1>2. StoreInv => AllOrNothing
  BY <1>1 DEF AllOrNothing
<1>. QED  BY <1>2, StoreInvariance, PTL

\* The metadata that are kept are those of an accepted event, redacted.
LEMMA KeptIs ==
  ASSUME StoreInv, NEW k \in Kept
  PROVE  \E p \in Posts : \E i \in DOMAIN post[p].body :
           /\ k.id = <<p, i>> /\ post[p].body[i] \in Sendable
           /\ k.metadata = IF IsDict(post[p].body[i].metadata)
                           THEN Redacted[post[p].body[i].metadata] ELSE EmptyDict
<1>1. HandlerInv
  BY DEF StoreInv
<1>2. ASSUME NEW p \in Posts, IsAccepted(p), NEW i \in DOMAIN post[p].body, NEW e,
             e = post[p].body[i]
      PROVE  /\ e \in Sendable
             /\ Metadata(e) = IF IsDict(e.metadata) THEN Redacted[e.metadata] ELSE Null
             /\ IsDict(e.metadata) => Metadata(e) # Null
  <2>1. e \in Sendable
    BY <1>1, <1>2, RowOf
  <2>. QED  BY <2>1, MetadataIs
<1>3. CASE \E row \in db : /\ row.metadata # Null
                           /\ k = [id |-> row.id, metadata |-> row.metadata]
  <2>1. PICK row \in db : /\ row.metadata # Null
                          /\ k = [id |-> row.id, metadata |-> row.metadata]
    BY <1>3
  <2>2. PICK p, i : /\ p \in Posts /\ IsStored(p) /\ i \in DOMAIN post[p].body
                    /\ row = StoredRow(p, i)
    BY RowsStored
  <2>3. IsAccepted(p)
    BY <2>2 DEF IsStored, IsAccepted
  <2>4. PICK e : e = post[p].body[i]
    OBVIOUS
  <2>5. row = [id |-> <<p, i>>, tenant |-> ResolvedTenant(Caller[p]),
               orchestrator |-> e.orchestrator, agent_name |-> e.agent_name,
               session_id |-> e.session_id, metadata |-> Metadata(e),
               ts |-> Column(post[p].rows[i].ts)]
    BY <1>1, <2>2, <2>3, <2>4, RowOf
  <2>6. k.id = <<p, i>> /\ k.metadata = Metadata(e) /\ Metadata(e) # Null
    BY <2>1, <2>5
  <2>. QED  BY <1>2, <2>2, <2>3, <2>4, <2>6
<1>4. CASE \E x \in Range(feed) : k = [id |-> x.id, metadata |-> x.metadata]
  <2>1. PICK x \in Range(feed) : k = [id |-> x.id, metadata |-> x.metadata]
    BY <1>4
  <2>2. PICK p, i : /\ p \in Posts /\ post[p].at = "done" /\ i \in DOMAIN post[p].body
                    /\ x = ToDict(post[p].rows[i])
    BY FramesPublished
  <2>3. IsAccepted(p) /\ x.id = <<p, i>>
    BY <2>2, FramesPublished DEF IsAccepted
  <2>4. PICK e, w : e = post[p].body[i] /\ w = post[p].rows[i]
    OBVIOUS
  <2>5. w = [id |-> <<p, i>>, tenant |-> ResolvedTenant(Caller[p]),
             orchestrator |-> e.orchestrator, agent_name |-> e.agent_name,
             session_id |-> e.session_id, metadata |-> Metadata(e), ts |-> w.ts]
    BY <1>1, <2>2, <2>3, <2>4, RowOf
  <2>6. x.metadata = IF Metadata(e) = Null THEN EmptyDict ELSE Metadata(e)
    <3>1. /\ w.metadata = Metadata(e)
          /\ w = [id |-> w.id, tenant |-> w.tenant, orchestrator |-> w.orchestrator,
                  agent_name |-> w.agent_name, session_id |-> w.session_id,
                  metadata |-> w.metadata, ts |-> w.ts]
      BY <2>5
    <3>2. x = [id |-> w.id, tenant |-> w.tenant, orchestrator |-> w.orchestrator,
               agent_name |-> w.agent_name, session_id |-> w.session_id,
               metadata |-> IF w.metadata = Null THEN EmptyDict ELSE w.metadata,
               ts |-> w.ts]
      BY <2>2, <2>4, <3>1, PayloadOf
    <3>. QED  BY <3>1, <3>2
  <2>7. k.id = <<p, i>> /\ k.metadata = x.metadata
    BY <2>1, <2>3
  <2>. QED  BY <1>2, <2>2, <2>3, <2>4, <2>6, <2>7
<1>. QED  BY <1>3, <1>4 DEF Kept

\* What is stored and what is published has no secret, at any depth, and has
\* every other text where it was sent.
THEOREM SecretsGo == Spec => []OnlySecretsGo
<1>1. ASSUME StoreInv, NEW k \in Kept
      PROVE  LET leaves == Leaves[k.metadata] IN
             /\ \A l \in leaves : Secret(l) => l.text = REDACTED.leaf
             /\ IsDict(Sent(k.id)) =>
                  {l \in leaves : ~Secret(l)} = {l \in Leaves[Sent(k.id)] : ~Secret(l)}
  <2>1. PICK p, i :
          /\ p \in Posts /\ i \in DOMAIN post[p].body
          /\ k.id = <<p, i>> /\ post[p].body[i] \in Sendable
          /\ k.metadata = IF IsDict(post[p].body[i].metadata)
                          THEN Redacted[post[p].body[i].metadata] ELSE EmptyDict
    BY <1>1, KeptIs
  <2>2. PICK m : m = post[p].body[i].metadata
    OBVIOUS
  <2>3. Sent(k.id) = m
    BY <2>1, <2>2 DEF Sent
  <2>4. IsDict(m) => m \in Values
    <3>1. m \in Values \cup {Null}
      BY <2>1, <2>2 DEF Sendable
    <3>2. ~IsDict(Null)
      BY DEF IsDict, Null
    <3>. QED  BY <3>1, <3>2
  <2>5. CASE IsDict(m)
    <3>1. Cleaned(k.metadata, m)
      BY <2>1, <2>2, <2>4, <2>5, RedactionCleans
    <3>2. {l \in Leaves[k.metadata] : ~Secret(l)} = {l \in Leaves[m] : ~Secret(l)}
      BY <3>1 DEF Cleaned
    <3>. QED  BY <2>3, <3>1, <3>2 DEF Cleaned
  <2>6. CASE ~IsDict(m)
    <3>1. k.metadata = EmptyDict
      BY <2>1, <2>2, <2>6
    <3>2. Leaves[EmptyDict] = {}
      <4>1. EmptyDict \in Values /\ IsDict(EmptyDict) /\ EmptyDict.dict = <<>>
        BY ValuesAssumption DEF EmptyDict, IsDict
      <4>2. DOMAIN EmptyDict.dict = {}
        BY <4>1
      <4>. QED  BY <4>1, <4>2, LeavesByKind
    <3>. QED  BY <2>3, <2>6, <3>1, <3>2
  <2>. QED  BY <2>5, <2>6
<1>2. StoreInv => OnlySecretsGo
  BY <1>1 DEF OnlySecretsGo
<1>. QED  BY <1>2, StoreInvariance, PTL
-----------------------------------------------------------------------------
\* Answers.

\* A row as it is answered.
Answered(row) == ToDict(Loaded(row))

\* What a row is read back as.
LEMMA AnsweredIs ==
  ASSUME NEW row \in Persisted
  PROVE  /\ Answered(row) =
              [id |-> row.id, tenant |-> row.tenant, orchestrator |-> row.orchestrator,
               agent_name |-> row.agent_name, session_id |-> row.session_id,
               metadata |-> IF row.metadata = Null THEN EmptyDict ELSE row.metadata,
               ts |-> [wall |-> row.ts, zone |-> 0, aware |-> KeepsZone]]
         /\ Answered(row).id = row.id /\ Answered(row).ts.wall = row.ts
<1>1. PICK w : w = Loaded(row)
  OBVIOUS
<1>2. row = [id |-> row.id, tenant |-> row.tenant, orchestrator |-> row.orchestrator,
             agent_name |-> row.agent_name, session_id |-> row.session_id,
             metadata |-> row.metadata, ts |-> row.ts]
  BY DEF Persisted
<1>3. w = [id |-> row.id, tenant |-> row.tenant, orchestrator |-> row.orchestrator,
           agent_name |-> row.agent_name, session_id |-> row.session_id,
           metadata |-> row.metadata, ts |-> [wall |-> row.ts, zone |-> 0, aware |-> KeepsZone]]
  BY <1>1, <1>2 DEF Loaded
<1>4. w = [id |-> w.id, tenant |-> w.tenant, orchestrator |-> w.orchestrator,
           agent_name |-> w.agent_name, session_id |-> w.session_id,
           metadata |-> w.metadata, ts |-> w.ts]
  BY <1>3
<1>5. ToDict(w) = [id |-> w.id, tenant |-> w.tenant, orchestrator |-> w.orchestrator,
                   agent_name |-> w.agent_name, session_id |-> w.session_id,
                   metadata |-> IF w.metadata = Null THEN EmptyDict ELSE w.metadata,
                   ts |-> w.ts]
  BY <1>4, PayloadOf
<1>6. Answered(row) =
         [id |-> row.id, tenant |-> row.tenant, orchestrator |-> row.orchestrator,
          agent_name |-> row.agent_name, session_id |-> row.session_id,
          metadata |-> IF row.metadata = Null THEN EmptyDict ELSE row.metadata,
          ts |-> [wall |-> row.ts, zone |-> 0, aware |-> KeepsZone]]
  BY <1>1, <1>3, <1>5 DEF Answered
<1>. QED  BY <1>6

\* The rows that a query of t with f is about.
Asked(t, f) == {row \in Visible(t) : Matches(row, f)}

\* Different rows have different answers.
LEMMA AnswersDiffer ==
  ASSUME StoreInv, NEW S \in SUBSET db
  PROVE  /\ IsFiniteSet(S) /\ Cardinality(S) \in Nat
         /\ IsFiniteSet({Answered(row) : row \in S})
         /\ Cardinality({Answered(row) : row \in S}) = Cardinality(S)
         /\ Cardinality({row.id : row \in S}) = Cardinality(S)
         /\ {x.id : x \in {Answered(row) : row \in S}} = {row.id : row \in S}
         /\ \A row \in db : Answered(row) \in {Answered(r) : r \in S} => row \in S
<1>1. /\ IsFiniteSet(db)
      /\ db \subseteq Persisted
      /\ \A row, other \in db : row.id = other.id => row = other
  BY RowsStored
<1>2. \A row \in db : Answered(row).id = row.id
  BY <1>1, AnsweredIs
<1>3. IsFiniteSet(S) /\ Cardinality(S) \in Nat
  BY <1>1, FS_Subset, FS_CardinalityType
<1>4. PICK f : f = [row \in S |-> Answered(row)]
  OBVIOUS
<1>5. PICK g : g = [row \in S |-> row.id]
  OBVIOUS
<1>6. PICK T, U : T = {Answered(row) : row \in S} /\ U = {row.id : row \in S}
  OBVIOUS
<1>7. /\ f \in [S -> T] /\ T = {f[row] : row \in S}
      /\ \A row, other \in S : f[row] = f[other] => row = other
  BY <1>1, <1>2, <1>4, <1>6
<1>8. /\ g \in [S -> U] /\ U = {g[row] : row \in S}
      /\ \A row, other \in S : g[row] = g[other] => row = other
  BY <1>1, <1>5, <1>6
<1>9. IsFiniteSet({f[row] : row \in S}) /\ Cardinality({f[row] : row \in S}) = Cardinality(S)
  <2>1. IsFiniteSet({f[row] : row \in S})
    <3>1. IsFiniteSet(S) /\ f \in [S -> T]
      BY <1>3, <1>7
    <3>. QED  BY <3>1, FiniteImage
  <2>2. Cardinality({f[row] : row \in S}) = Cardinality(S)
    BY <1>3, <1>7, FiniteImage
  <2>. QED  BY <2>1, <2>2
<1>10. Cardinality({g[row] : row \in S}) = Cardinality(S)
  BY <1>3, <1>8, FiniteImage, SMTT(30)
<1>11. {x.id : x \in T} = U
  BY <1>2, <1>6
<1>12. \A row \in db : Answered(row) \in T => row \in S
  BY <1>1, <1>2, <1>6
<1>13. IsFiniteSet(T) /\ Cardinality(T) = Cardinality(S) /\ Cardinality(U) = Cardinality(S)
  BY <1>7, <1>8, <1>9, <1>10
<1>. QED  BY <1>3, <1>6, <1>11, <1>12, <1>13

\* The smaller of two numbers.
LEMMA MinOfTwo ==
  ASSUME NEW a \in Int, NEW b \in Int
  PROVE  Min({a, b}) = IF a <= b THEN a ELSE b
<1>1. \E x \in {a, b} : \A y \in {a, b} : x <= y
  OBVIOUS
<1>2. Min({a, b}) \in {a, b} /\ \A y \in {a, b} : Min({a, b}) <= y
  BY <1>1 DEF Min
<1>. QED  BY <1>2

\* The rows of an answer: all that were asked for, or the newest of them.
LEMMA AnswerHas ==
  ASSUME StoreInv, NEW t, NEW f, f.limit \in Nat, NEW answer \in GetEvents(t, f)
  PROVE  \E S \in SUBSET Asked(t, f) :
           /\ answer = {Answered(row) : row \in S}
           /\ IsFiniteSet(S) /\ Cardinality(S) \in Nat
           /\ Cardinality(answer) = Cardinality(S) /\ Cardinality(S) <= f.limit
           /\ Cardinality(S) < f.limit \/ f.limit >= Cardinality(Asked(t, f)) => S = Asked(t, f)
           /\ \A r \in S, q \in Asked(t, f) \ S : r.ts >= q.ts
<1>1. Asked(t, f) \in SUBSET db
  BY DEF Asked, Visible
<1>2. PICK S \in Newest(Asked(t, f), f.limit) : answer = {Answered(row) : row \in S}
  BY DEF GetEvents, Asked, Answered
<1>3. /\ S \in SUBSET Asked(t, f)
      /\ Cardinality(S) = Min({f.limit, Cardinality(Asked(t, f))})
      /\ \A r \in S, q \in Asked(t, f) \ S : r.ts >= q.ts
  BY <1>2 DEF Newest
<1>4. /\ IsFiniteSet(S) /\ Cardinality(S) \in Nat
      /\ IsFiniteSet(Asked(t, f)) /\ Cardinality(Asked(t, f)) \in Nat
      /\ Cardinality({Answered(row) : row \in S}) = Cardinality(S)
  BY <1>1, <1>3, AnswersDiffer
<1>5. Cardinality(S) = IF f.limit <= Cardinality(Asked(t, f))
                       THEN f.limit ELSE Cardinality(Asked(t, f))
  BY <1>3, <1>4, MinOfTwo
<1>6. Cardinality(S) = Cardinality(Asked(t, f)) => S = Asked(t, f)
  BY <1>3, <1>4, FS_Subset
<1>7. Cardinality(S) <= f.limit
  BY <1>4, <1>5
<1>8. Cardinality(S) < f.limit \/ f.limit >= Cardinality(Asked(t, f)) => S = Asked(t, f)
  BY <1>4, <1>5, <1>6
<1>9. answer = {Answered(row) : row \in S} /\ Cardinality(answer) = Cardinality(S)
  BY <1>2, <1>4
<1>. QED  BY <1>3, <1>4, <1>7, <1>8, <1>9

\* A query whose limit is not reached is answered with all it asks for.
LEMMA FullAnswer ==
  ASSUME StoreInv, NEW t, NEW f, f.limit = Cardinality(db)
  PROVE  /\ GetEvents(t, f) = {{Answered(row) : row \in Asked(t, f)}}
         /\ Cardinality(UNION GetEvents(t, f)) = Cardinality(Asked(t, f))
<1>1. Asked(t, f) \in SUBSET db /\ IsFiniteSet(db)
  BY RowsStored DEF Asked, Visible
<1>2. /\ Cardinality(db) \in Nat /\ Cardinality(Asked(t, f)) \in Nat
      /\ Cardinality(Asked(t, f)) <= Cardinality(db)
  BY <1>1, FS_Subset, FS_CardinalityType
<1>3. \A answer \in GetEvents(t, f) : answer = {Answered(row) : row \in Asked(t, f)}
  <2>1. ASSUME NEW answer \in GetEvents(t, f)
        PROVE  answer = {Answered(row) : row \in Asked(t, f)}
    <3>1. f.limit \in Nat /\ f.limit >= Cardinality(Asked(t, f))
      BY <1>2
    <3>2. PICK S \in SUBSET Asked(t, f) :
            /\ answer = {Answered(row) : row \in S}
            /\ f.limit >= Cardinality(Asked(t, f)) => S = Asked(t, f)
      BY <3>1, AnswerHas
    <3>. QED  BY <3>1, <3>2
  <2>. QED  BY <2>1
<1>4. {Answered(row) : row \in Asked(t, f)} \in GetEvents(t, f)
  <2>1. Min({f.limit, Cardinality(Asked(t, f))}) = Cardinality(Asked(t, f))
    BY <1>2, MinOfTwo
  <2>2. Asked(t, f) \in Newest(Asked(t, f), f.limit)
    BY <2>1 DEF Newest
  <2>. QED  BY <2>2 DEF GetEvents, Asked, Answered
<1>5. GetEvents(t, f) = {{Answered(row) : row \in Asked(t, f)}}
  BY <1>3, <1>4
<1>6. UNION GetEvents(t, f) = {Answered(row) : row \in Asked(t, f)}
  BY <1>5
<1>. QED  BY <1>1, <1>5, <1>6, AnswersDiffer
-----------------------------------------------------------------------------
\* Theorems about answers.

\* A frame and a later answer show the same event, at the same instant, in a
\* database that keeps one.
THEOREM ReadBack ==
  ASSUME KeepsZone
  PROVE  Spec => []FrameIsReadBack
<1>1. ASSUME StoreInv, NEW x \in Range(feed)
      PROVE  \E row \in db :
               LET y == ToDict(Loaded(row)) IN
               /\ y = [x EXCEPT !.ts = y.ts]
               /\ x.ts.aware /\ y.ts.aware
               /\ x.ts.wall - x.ts.zone = y.ts.wall - y.ts.zone
  <2>1. PICK p, i : /\ p \in Posts /\ post[p].at = "done" /\ i \in DOMAIN post[p].body
                    /\ x = ToDict(post[p].rows[i])
    BY <1>1, FramesPublished
  <2>2. HandlerInv /\ IsAccepted(p) /\ IsStored(p)
    BY <1>1, <2>1 DEF StoreInv, IsAccepted, IsStored
  <2>3. PICK e, w, row, y : /\ e = post[p].body[i] /\ w = post[p].rows[i]
                            /\ row = StoredRow(p, i) /\ y = Answered(row)
    OBVIOUS
  <2>4. /\ w \in Written /\ row \in Persisted
        /\ w = [id |-> <<p, i>>, tenant |-> ResolvedTenant(Caller[p]),
                orchestrator |-> e.orchestrator, agent_name |-> e.agent_name,
                session_id |-> e.session_id, metadata |-> Metadata(e), ts |-> w.ts]
        /\ row = [id |-> <<p, i>>, tenant |-> ResolvedTenant(Caller[p]),
                  orchestrator |-> e.orchestrator, agent_name |-> e.agent_name,
                  session_id |-> e.session_id, metadata |-> Metadata(e),
                  ts |-> Column(w.ts)]
    BY <2>1, <2>2, <2>3, RowOf
  <2>5. row \in db
    BY <1>1, <2>1, <2>2, <2>3, RowsStored
  <2>6. x = [id |-> w.id, tenant |-> w.tenant, orchestrator |-> w.orchestrator,
             agent_name |-> w.agent_name, session_id |-> w.session_id,
             metadata |-> IF w.metadata = Null THEN EmptyDict ELSE w.metadata,
             ts |-> w.ts]
    <3>1. w = [id |-> w.id, tenant |-> w.tenant, orchestrator |-> w.orchestrator,
               agent_name |-> w.agent_name, session_id |-> w.session_id,
               metadata |-> w.metadata, ts |-> w.ts]
      BY <2>4
    <3>. QED  BY <2>1, <2>3, <3>1, PayloadOf
  <2>7. y = [id |-> row.id, tenant |-> row.tenant, orchestrator |-> row.orchestrator,
             agent_name |-> row.agent_name, session_id |-> row.session_id,
             metadata |-> IF row.metadata = Null THEN EmptyDict ELSE row.metadata,
             ts |-> [wall |-> row.ts, zone |-> 0, aware |-> KeepsZone]]
    BY <2>3, <2>4, AnsweredIs
  <2>8. /\ row.id = w.id /\ row.tenant = w.tenant /\ row.orchestrator = w.orchestrator
        /\ row.agent_name = w.agent_name /\ row.session_id = w.session_id
        /\ row.metadata = w.metadata /\ row.ts = Column(w.ts)
    BY <2>4
  <2>9. /\ w.ts \in [wall : Int, zone : Int, aware : {TRUE}]
        /\ Column(w.ts) = w.ts.wall - w.ts.zone
    BY <1>1, <2>4, ColumnIs DEF Written
  <2>10. y = [x EXCEPT !.ts = y.ts]
    <3>1. PICK m, ts : /\ m = (IF w.metadata = Null THEN EmptyDict ELSE w.metadata)
                       /\ ts = [wall |-> row.ts, zone |-> 0, aware |-> KeepsZone]
      OBVIOUS
    <3>2. x = [id |-> w.id, tenant |-> w.tenant, orchestrator |-> w.orchestrator,
               agent_name |-> w.agent_name, session_id |-> w.session_id,
               metadata |-> m, ts |-> w.ts]
      BY <2>6, <3>1
    <3>3. y = [id |-> w.id, tenant |-> w.tenant, orchestrator |-> w.orchestrator,
               agent_name |-> w.agent_name, session_id |-> w.session_id,
               metadata |-> m, ts |-> ts]
      BY <2>7, <2>8, <3>1
    <3>. QED  BY <3>2, <3>3
  <2>11. /\ x.ts = w.ts /\ y.ts.aware = KeepsZone
         /\ y.ts.wall = row.ts /\ y.ts.zone = 0
    BY <2>6, <2>7
  <2>12. x.ts.aware /\ y.ts.aware
    <3>1. KeepsZone = TRUE /\ w.ts.aware = TRUE
      BY <1>1, <2>9, DatabaseAssumption
    <3>2. x.ts.aware = TRUE /\ y.ts.aware = TRUE
      BY <2>11, <3>1
    <3>. QED  BY <3>2
  <2>13. x.ts.wall - x.ts.zone = y.ts.wall - y.ts.zone
    <3>1. w.ts.wall \in Int /\ w.ts.zone \in Int
      BY <2>9
    <3>. QED  BY <2>8, <2>9, <2>11, <3>1
  <2>. QED  BY <2>3, <2>5, <2>10, <2>12, <2>13 DEF Answered
<1>2. StoreInv => FrameIsReadBack
  BY <1>1 DEF FrameIsReadBack
<1>. QED  BY <1>2, StoreInvariance, PTL

\* An event that was accepted is found at its time, in a database that keeps
\* instants; where only wall clocks are kept it is not, and a run shows it.
THEOREM FoundThere ==
  ASSUME KeepsZone
  PROVE  Spec => []FoundAtItsTime
<1>1. ASSUME StoreInv, NEW p \in Posts, IsStored(p),
             NEW i \in DOMAIN post[p].body, NEW e, e = post[p].body[i],
             e.ts.kind # "none", NEW z \in {0, 1},
             NEW f, f = [Everything EXCEPT !.agent_name = e.agent_name,
                                           !.session_id = e.session_id,
                                           !.since = Moment(Said(e.ts), z),
                                           !.until = Moment(Said(e.ts), 0)],
             NEW answer \in GetEvents(Caller[p], f)
      PROVE  \E x \in answer : x.id = <<p, i>>
  <2>1. HandlerInv /\ IsAccepted(p)
    BY <1>1 DEF StoreInv, IsAccepted, IsStored
  <2>2. PICK w, row : w = post[p].rows[i] /\ row = StoredRow(p, i)
    OBVIOUS
  <2>3. PICK now \in Times : w.ts = CoerceTs(e.ts, now)
    BY <1>1, <2>1, <2>2, RowOf
  <2>4. /\ e \in Sendable /\ Fault(e) = "none" /\ row \in Persisted
        /\ row = [id |-> <<p, i>>, tenant |-> ResolvedTenant(Caller[p]),
                  orchestrator |-> e.orchestrator, agent_name |-> e.agent_name,
                  session_id |-> e.session_id, metadata |-> Metadata(e),
                  ts |-> Column(w.ts)]
    BY <1>1, <2>1, <2>2, RowOf
  <2>5. row \in db
    BY <1>1, <2>2, RowsStored
  <2>6. Said(e.ts) \in Int /\ row.ts = Said(e.ts)
    <3>1. e.ts \in Stamp /\ TsFault(e.ts) = "none" /\ now \in Int
      BY <2>4, BodiesAssumption DEF Sendable, Fault
    <3>2. /\ w.ts \in [wall : Int, zone : Int, aware : {TRUE}]
          /\ Said(e.ts) \in Int /\ w.ts.wall - w.ts.zone = Said(e.ts)
      <4>1. /\ CoerceTs(e.ts, now) \in [wall : Int, zone : Int, aware : {TRUE}]
            /\ e.ts.kind # "none" =>
                 /\ Said(e.ts) \in Int
                 /\ CoerceTs(e.ts, now).wall - CoerceTs(e.ts, now).zone = Said(e.ts)
        BY <3>1, CoercedTime
      <4>. QED  BY <1>1, <2>3, <4>1
    <3>3. Column(w.ts) = Said(e.ts)
      BY <1>1, <3>2, ColumnIs
    <3>. QED  BY <2>4, <3>2, <3>3
  <2>7. /\ f.orchestrator = Absent /\ f.agent_name = e.agent_name
        /\ f.session_id = e.session_id /\ f.limit = Cardinality(db)
        /\ f.since = Moment(Said(e.ts), z) /\ f.until = Moment(Said(e.ts), 0)
    BY <1>1 DEF Everything
  <2>8. /\ Column(ParseTs(f.since)) = Said(e.ts)
        /\ Column(ParseTs(f.until)) = Said(e.ts)
    <3>1. ASSUME NEW zone \in {0, 1}
          PROVE  Column(ParseTs(Moment(Said(e.ts), zone))) = Said(e.ts)
      <4>1. PICK v : v = Moment(Said(e.ts), zone)
        OBVIOUS
      <4>2. v.kind = "zoned" /\ v.wall = Said(e.ts) + zone /\ v.zone = zone
        BY <4>1 DEF Moment
      <4>3. ParseTs(v) = [wall |-> v.wall, zone |-> v.zone, aware |-> TRUE]
        BY <4>2 DEF ParseTs
      <4>4. Column(ParseTs(v)) = v.wall - v.zone
        BY <1>1, <4>3 DEF Column
      <4>. QED  BY <2>6, <4>1, <4>2, <4>4
    <3>. QED  BY <2>7, <3>1
  <2>9. row \in Asked(Caller[p], f)
    <3>1. row.tenant = ResolvedTenant(Caller[p])
      BY <2>4
    <3>2. row.agent_name = e.agent_name /\ row.session_id = e.session_id
      BY <2>4
    <3>3. Matches(row, f)
      BY <2>6, <2>7, <2>8, <3>2 DEF Matches
    <3>. QED  BY <2>5, <3>1, <3>3 DEF Asked, Visible
  <2>10. answer = {Answered(r) : r \in Asked(Caller[p], f)}
    <3>1. GetEvents(Caller[p], f) = {{Answered(r) : r \in Asked(Caller[p], f)}}
      <4>1. StoreInv /\ f.limit = Cardinality(db)
        BY <1>1, <2>7
      <4>. QED  BY <4>1, FullAnswer
    <3>. QED  BY <1>1, <3>1
  <2>11. Answered(row).id = <<p, i>>
    <3>1. Answered(row).id = row.id
      BY <2>4, AnsweredIs
    <3>2. row.id = <<p, i>>
      BY <2>4
    <3>. QED  BY <3>1, <3>2
  <2>. QED  BY <2>9, <2>10, <2>11
<1>2. ASSUME StoreInv PROVE FoundAtItsTime
  <2>1. ASSUME NEW p \in Posts, IsStored(p), NEW i \in DOMAIN post[p].body,
               post[p].body[i].ts.kind # "none", NEW z \in {0, 1},
               NEW answer \in GetEvents(Caller[p],
                 [Everything EXCEPT !.agent_name = post[p].body[i].agent_name,
                                    !.session_id = post[p].body[i].session_id,
                                    !.since = Moment(Said(post[p].body[i].ts), z),
                                    !.until = Moment(Said(post[p].body[i].ts), 0)])
        PROVE  \E x \in answer : x.id = <<p, i>>
    BY <1>1, <1>2, <2>1
  <2>. QED  BY <2>1 DEF FoundAtItsTime
<1>3. StoreInv => FoundAtItsTime
  BY <1>2
<1>. QED  BY <1>3, StoreInvariance, PTL

\* The least of the times of an answer is that of one of its rows.
LEMMA OldestOf ==
  ASSUME StoreInv, NEW S \in SUBSET db, NEW T \in SUBSET Int, IsFiniteSet(T),
         {x.ts.wall : x \in {Answered(row) : row \in S}} \cup T # {}
  PROVE  LET times == {x.ts.wall : x \in {Answered(row) : row \in S}} \cup T IN
         /\ Min(times) \in Int
         /\ Min(times) \in T \/ \E row \in S : row.ts = Min(times)
         /\ \A row \in S : Min(times) <= row.ts
         /\ \A at \in T : Min(times) <= at
<1> DEFINE U == {x.ts.wall : x \in {Answered(row) : row \in S}}
           times == U \cup T
<1>1. \A row \in S : row \in Persisted /\ Answered(row).ts.wall = row.ts
  BY RowsStored, AnsweredIs
<1>2. U = {row.ts : row \in S}
  BY <1>1
<1>3. \A row \in S : row.ts \in Int
  BY <1>1 DEF Persisted
<1>4. IsFiniteSet(U)
  <2>1. IsFiniteSet(S)
    BY AnswersDiffer
  <2>2. PICK f, V : f = [row \in S |-> row.ts] /\ V = U
    OBVIOUS
  <2>3. f \in [S -> V] /\ V = {f[row] : row \in S}
    BY <1>2, <2>2
  <2> HIDE DEF U
  <2>4. IsFiniteSet({f[row] : row \in S})
    <3>1. IsFiniteSet(S) /\ f \in [S -> V]
      BY <2>1, <2>3
    <3>. QED  BY <3>1, FiniteImage
  <2>. QED  BY <2>2, <2>3, <2>4
<1>5. times \in SUBSET Int /\ times # {}
  BY <1>2, <1>3
<1>6. \A row \in S : row.ts \in times
  BY <1>2
<1>7. \A at \in times : at \in T \/ \E row \in S : row.ts = at
  BY <1>2
<1> HIDE DEF U
<1>8. IsFiniteSet(times)
  BY <1>4, FS_Union
<1>9. \A at \in T : at \in times
  OBVIOUS
<1> HIDE DEF times
<1>10. \E x \in times : \A y \in times : x <= y
  BY <1>5, <1>8, LeastNumber
<1>11. Min(times) \in times /\ \A y \in times : Min(times) <= y
  BY <1>10 DEF Min
<1>. QED  BY <1>5, <1>6, <1>7, <1>9, <1>11 DEF times, U

\* The rows asked for are rows of the database; to go on behind a time is to ask
\* for those of the same question that are not newer.
LEMMA AskedBehind ==
  ASSUME StoreInv, NEW t, NEW f \in Filters, NEW at \in Int, NEW g,
         g = [f EXCEPT !.until = Moment(at, 0)],
         \E row \in Asked(t, f) : at <= row.ts
  PROVE  /\ g.limit = f.limit
         /\ \A row : row \in Asked(t, g) <=> row \in Asked(t, f) /\ row.ts <= at
<1>1. f \in [orchestrator : STRING, agent_name : STRING, session_id : STRING,
             since : Bound \cup {Unbounded}, until : Bound \cup {Unbounded},
             subtree : BOOLEAN, limit : Nat \ {0}]
  BY FiltersAssumption
<1>2. PICK v : v = Moment(at, 0)
  OBVIOUS
<1>3. /\ g.orchestrator = f.orchestrator /\ g.agent_name = f.agent_name
      /\ g.session_id = f.session_id /\ g.since = f.since /\ g.until = v
      /\ g.subtree = f.subtree /\ g.limit = f.limit
  BY <1>1, <1>2
<1>4. v # Unbounded /\ Column(ParseTs(v)) = at
  <2>1. v.kind = "zoned" /\ v.wall = at /\ v.zone = 0
    BY <1>2 DEF Moment
  <2>2. ParseTs(v) = [wall |-> at, zone |-> 0, aware |-> TRUE]
    BY <2>1 DEF ParseTs
  <2>3. Unbounded.kind = "none"
    BY DEF Unbounded
  <2>. QED  BY <2>1, <2>2, <2>3 DEF Column
<1>5. f.until # Unbounded => Column(ParseTs(f.until)) \in Int
  <2>1. ASSUME f.until \in Bound PROVE ParseTs(f.until) \in [wall : Int, zone : Int, aware : {TRUE}]
    <3>1. PICK u \in Bound : u = f.until
      BY <2>1
    <3>2. CASE u.kind = "naive"
      <4>1. u.wall \in Int
        BY DEF Bound
      <4>2. ParseTs(u) = Utc(u.wall)
        BY <3>2 DEF ParseTs
      <4>. QED  BY <3>1, <4>1, <4>2 DEF Utc
    <3>3. CASE u.kind # "naive"
      <4>1. u.wall \in Int /\ u.zone \in Int
        BY <3>3 DEF Bound
      <4>2. ParseTs(u) = [wall |-> u.wall, zone |-> u.zone, aware |-> TRUE]
        BY <3>3 DEF ParseTs
      <4>. QED  BY <3>1, <4>1, <4>2
    <3>. QED  BY <3>2, <3>3
  <2>2. f.until \in Bound => Column(ParseTs(f.until)) \in Int
    BY <2>1, ColumnIs
  <2>. QED  BY <1>1, <2>2
<1>6. \A row \in db : row.ts \in Int
  BY RowsStored DEF Persisted
<1>7. f.until = Unbounded \/ at <= Column(ParseTs(f.until))
  <2>1. PICK row \in Asked(t, f) : at <= row.ts
    OBVIOUS
  <2>2. row \in db /\ (f.until = Unbounded \/ row.ts <= Column(ParseTs(f.until)))
    BY <2>1 DEF Asked, Visible, Matches
  <2>. QED  BY <1>5, <1>6, <2>1, <2>2
<1>8. PICK c : c = Column(ParseTs(f.until))
  OBVIOUS
<1>9. ASSUME NEW row \in db
      PROVE  Matches(row, g) <=> Matches(row, f) /\ row.ts <= at
  <2>1. row.ts \in Int
    BY <1>6
  <2>2. Matches(row, g) <=>
          /\ f.orchestrator \in {Absent, row.orchestrator}
          /\ \/ f.agent_name \in {Absent, row.agent_name}
             \/ f.subtree /\ f.agent_name = row.orchestrator
          /\ f.session_id \in {Absent, row.session_id}
          /\ f.since = Unbounded \/ row.ts >= Column(ParseTs(f.since))
          /\ row.ts <= at
    BY <1>3, <1>4 DEF Matches
  <2>3. row.ts <= at => (f.until = Unbounded \/ row.ts <= c)
    BY <1>5, <1>7, <1>8, <2>1
  <2>. QED  BY <1>8, <2>2, <2>3 DEF Matches
<1>. QED  BY <1>3, <1>9 DEF Asked, Visible

\* Going on behind the oldest event of a full answer skips no event newer than
\* where it gets, and gets further unless as many events as the limit share one
\* time.
THEOREM OlderPages == Spec => []OlderPageContinues
<1>1. ASSUME StoreInv PROVE OlderPageContinues
  <2>1. ASSUME NEW t \in Callers, NEW f \in Filters, NEW page \in GetEvents(t, f),
               Cardinality(page) = f.limit
        PROVE  LET all == {row \in Visible(t) : Matches(row, f)}
                   oldest == Min({x.ts.wall : x \in page})
                   tied == {row \in all : row.ts = oldest}
                   g == [f EXCEPT !.until = Moment(oldest, 0)]
               IN  \A next \in GetEvents(t, g) :
                     LET seen == {x.id : x \in page \cup next}
                         end == Min({x.ts.wall : x \in next} \cup {oldest}) IN
                     /\ \A row \in all : row.ts > end => row.id \in seen
                     /\ Cardinality(next) < f.limit => \A row \in all : row.id \in seen
                     /\ Cardinality(tied) < f.limit /\ (\E row \in all : row.ts < oldest)
                          => \E x \in next : x \notin page
    <3> DEFINE all == {row \in Visible(t) : Matches(row, f)}
               oldest == Min({x.ts.wall : x \in page})
               tied == {row \in all : row.ts = oldest}
               g == [f EXCEPT !.until = Moment(oldest, 0)]
    <3>1. ASSUME NEW next \in GetEvents(t, g)
          PROVE  LET seen == {x.id : x \in page \cup next}
                     end == Min({x.ts.wall : x \in next} \cup {oldest}) IN
                 /\ \A row \in all : row.ts > end => row.id \in seen
                 /\ Cardinality(next) < f.limit => \A row \in all : row.id \in seen
                 /\ Cardinality(tied) < f.limit /\ (\E row \in all : row.ts < oldest)
                      => \E x \in next : x \notin page
      <4> DEFINE seen == {x.id : x \in page \cup next}
                 end == Min({x.ts.wall : x \in next} \cup {oldest})
      <4>1. all = Asked(t, f)
        BY DEF Asked
      <4>2. /\ oldest = Min({x.ts.wall : x \in page})
            /\ tied = {row \in all : row.ts = oldest}
            /\ next \in GetEvents(t, [f EXCEPT !.until = Moment(oldest, 0)])
            /\ seen = {x.id : x \in page \cup next}
            /\ end = Min({x.ts.wall : x \in next} \cup {oldest})
        OBVIOUS
      <4> HIDE DEF all, oldest, tied, seen, end
      <4>3. /\ \A row \in all : row.ts > end => row.id \in seen
            /\ Cardinality(next) < f.limit => \A row \in all : row.id \in seen
            /\ Cardinality(tied) < f.limit /\ (\E row \in all : row.ts < oldest)
                 => \E x \in next : x \notin page
        <5>1. f.limit \in Nat /\ f.limit # 0
          BY FiltersAssumption
        <5>2. PICK S \in SUBSET all :
                /\ page = {Answered(row) : row \in S}
                /\ IsFiniteSet(S) /\ Cardinality(S) \in Nat
                /\ Cardinality(page) = Cardinality(S)
                /\ \A r \in S, q \in all \ S : r.ts >= q.ts
          BY <1>1, <2>1, <4>1, <4>2, <5>1, AnswerHas
        <5>3. /\ all \in SUBSET db /\ S \in SUBSET db
              /\ \A row \in all : row.ts \in Int /\ Answered(row).id = row.id
          <6>1. all \in SUBSET db
            BY <1>1, <2>1, <4>1, <4>2 DEF Asked, Visible
          <6>2. \A row \in db : row \in Persisted /\ row.ts \in Int
            BY <1>1, <2>1, <4>1, <4>2, RowsStored DEF Persisted
          <6>. QED  BY <5>2, <6>1, <6>2, AnsweredIs
        <5>4. /\ oldest \in Int
              /\ \E row \in S : row.ts = oldest
              /\ \A row \in S : oldest <= row.ts
          <6>1. S # {}
            BY <1>1, <2>1, <4>1, <4>2, <5>1, <5>2, FS_EmptySet
          <6>2. {x.ts.wall : x \in {Answered(row) : row \in S}} \cup {} # {}
            BY <6>1
          <6>3. {} \in SUBSET Int /\ IsFiniteSet({})
            BY FS_EmptySet
          <6>4. LET times == {x.ts.wall : x \in {Answered(row) : row \in S}} \cup {} IN
                /\ Min(times) \in Int
                /\ Min(times) \in {} \/ \E row \in S : row.ts = Min(times)
                /\ \A row \in S : Min(times) <= row.ts
            BY <1>1, <2>1, <4>1, <4>2, <5>3, <6>2, <6>3, OldestOf
          <6>5. {x.ts.wall : x \in {Answered(row) : row \in S}} \cup {} = {x.ts.wall : x \in page}
            BY <5>2
          <6>. QED  BY <1>1, <2>1, <4>1, <4>2, <6>4, <6>5
        <5>5. g = [f EXCEPT !.until = Moment(oldest, 0)]
          OBVIOUS
        <5>6. /\ g.limit = f.limit
              /\ \A row : row \in Asked(t, g) <=> row \in all /\ row.ts <= oldest
          <6>1. \E row \in Asked(t, f) : oldest <= row.ts
            BY <1>1, <2>1, <4>1, <4>2, <5>2, <5>4
          <6>. QED  BY <1>1, <2>1, <4>1, <4>2, <5>4, <5>5, <6>1, AskedBehind
        <5>7. PICK N \in SUBSET Asked(t, g) :
                /\ next = {Answered(row) : row \in N}
                /\ IsFiniteSet(N) /\ Cardinality(N) \in Nat
                /\ Cardinality(next) = Cardinality(N)
                /\ Cardinality(N) < f.limit => N = Asked(t, g)
                /\ \A r \in N, q \in Asked(t, g) \ N : r.ts >= q.ts
          <6>1. StoreInv /\ g.limit \in Nat /\ next \in GetEvents(t, g)
            BY <1>1, <2>1, <4>1, <4>2, <5>1, <5>5, <5>6
          <6>2. \E N \in SUBSET Asked(t, g) :
                 /\ next = {Answered(row) : row \in N}
                 /\ IsFiniteSet(N) /\ Cardinality(N) \in Nat
                 /\ Cardinality(next) = Cardinality(N) /\ Cardinality(N) <= g.limit
                 /\ Cardinality(N) < g.limit \/ g.limit >= Cardinality(Asked(t, g)) => N = Asked(t, g)
                 /\ \A r \in N, q \in Asked(t, g) \ N : r.ts >= q.ts
            BY <6>1, AnswerHas
          <6>. QED  BY <5>6, <6>2
        <5>8. /\ \A row \in S : row.id \in seen
              /\ \A row \in N : row.id \in seen
          <6>1. \A row \in all : Answered(row).id = row.id
            BY <5>3
          <6>2. S \subseteq all /\ N \subseteq all
            BY <5>2, <5>6, <5>7
          <6>. QED  BY <1>1, <2>1, <4>1, <4>2, <5>2, <5>7, <6>1, <6>2
        <5>9. \A row \in all : row.ts > oldest => row \in S
          BY <5>2, <5>3, <5>4
        <5>10. /\ end \in Int /\ end <= oldest
               /\ end = oldest \/ \E row \in N : row.ts = end
          <6>1. {x.ts.wall : x \in {Answered(row) : row \in N}} \cup {oldest} # {}
            OBVIOUS
          <6>2. {oldest} \in SUBSET Int /\ IsFiniteSet({oldest}) /\ N \in SUBSET db
            BY <5>3, <5>4, <5>6, <5>7, FS_Singleton
          <6>3. LET times == {x.ts.wall : x \in {Answered(row) : row \in N}} \cup {oldest} IN
                /\ Min(times) \in Int
                /\ Min(times) \in {oldest} \/ \E row \in N : row.ts = Min(times)
                /\ \A at \in {oldest} : Min(times) <= at
            BY <1>1, <2>1, <4>1, <4>2, <6>1, <6>2, OldestOf
          <6>. QED  BY <1>1, <2>1, <4>1, <4>2, <5>7, <6>3
        <5>11. ASSUME NEW row \in all, row.ts > end PROVE row.id \in seen
          <6>1. CASE row.ts > oldest
            BY <5>8, <5>9, <6>1
          <6>2. CASE ~(row.ts > oldest)
            <7>1. row.ts \in Int /\ row.ts <= oldest
              BY <5>3, <5>4, <6>2
            <7>2. row \in Asked(t, g)
              BY <5>6, <7>1
            <7>3. PICK r \in N : r.ts = end
              BY <5>10, <5>11, <7>1
            <7>4. row \in N
              BY <5>7, <5>10, <5>11, <7>1, <7>2, <7>3
            <7>. QED  BY <5>8, <7>4
          <6>. QED  BY <6>1, <6>2
        <5>12. ASSUME N = Asked(t, g), NEW row \in all PROVE row.id \in seen
          <6>1. row.ts > oldest \/ row.ts <= oldest
            BY <5>3, <5>4
          <6>. QED  BY <5>6, <5>8, <5>9, <5>12, <6>1
        <5>13. ASSUME Cardinality(tied) < f.limit, NEW older \in all, older.ts < oldest,
                      \A x \in next : x \in page
               PROVE  FALSE
          <6>1. ASSUME NEW row \in N PROVE row \in tied
            <7>1. row \in all /\ row.ts <= oldest /\ row \in db
              BY <5>3, <5>6, <5>7
            <7>2. Answered(row) \in page
              BY <5>7, <5>13
            <7>3. row \in S
              BY <1>1, <2>1, <4>1, <4>2, <5>2, <5>3, <7>1, <7>2, AnswersDiffer
            <7>4. row.ts \in Int /\ oldest <= row.ts
              BY <5>3, <5>4, <7>1, <7>3
            <7>. QED  BY <1>1, <2>1, <4>1, <4>2, <5>4, <7>1, <7>4
          <6>2. IsFiniteSet(tied) /\ Cardinality(tied) \in Nat
            <7>1. tied \in SUBSET db
              BY <1>1, <2>1, <4>1, <4>2, <5>3
            <7>. QED  BY <1>1, <2>1, <4>1, <4>2, <7>1, AnswersDiffer
          <6>3. Cardinality(N) <= Cardinality(tied)
            BY <6>1, <6>2, FS_Subset
          <6>4. N = Asked(t, g)
            BY <5>1, <5>7, <5>13, <6>2, <6>3
          <6>5. older \in N
            BY <5>3, <5>4, <5>6, <5>13, <6>4
          <6>. QED  BY <1>1, <2>1, <4>1, <4>2, <5>3, <5>4, <5>13, <6>1, <6>5
        <5>. QED  BY <5>7, <5>11, <5>12, <5>13
      <4>. QED  BY <4>3 DEF seen, end
    <3>. QED  BY <3>1
  <2>. QED  BY <2>1 DEF OlderPageContinues
<1>. QED  BY <1>1, StoreInvariance, PTL
-----------------------------------------------------------------------------
\* The tree.

\* The rows of a node, its counts, and the node.
GroupOf(t, o) == {row \in Visible(t) : row.orchestrator = o}
AgentCounts(t, o) ==
  [a \in {row.agent_name : row \in GroupOf(t, o)} |-> Count(Visible(t), o, a)]
NodeOf(t, o) ==
  [orchestrator |-> o, is_direct |-> o = NoOne,
   event_count |-> SumFunction(AgentCounts(t, o)), agents |-> AgentCounts(t, o)]
Drivers(t) == {row.orchestrator : row \in Visible(t)}

LEMMA TreeNodes ==
  ASSUME NEW t
  PROVE  /\ Tree(t) = {NodeOf(t, o) : o \in Drivers(t)}
         /\ \A o : NodeOf(t, o).orchestrator = o
  BY DEF Tree, NodeOf, AgentCounts, GroupOf, Drivers

\* Names that rows have are finitely many.
LEMMA FiniteNames ==
  ASSUME StoreInv, NEW S \in SUBSET db
  PROVE  /\ IsFiniteSet({row.agent_name : row \in S})
         /\ IsFiniteSet({row.orchestrator : row \in S})
<1>1. IsFiniteSet(S)
  BY AnswersDiffer
<1>2. PICK f, g, T, U : /\ f = [row \in S |-> row.agent_name]
                        /\ g = [row \in S |-> row.orchestrator]
                        /\ T = {row.agent_name : row \in S}
                        /\ U = {row.orchestrator : row \in S}
  OBVIOUS
<1>3. f \in [S -> T] /\ T = {f[row] : row \in S}
  BY <1>2
<1>4. g \in [S -> U] /\ U = {g[row] : row \in S}
  BY <1>2
<1>5. IsFiniteSet({f[row] : row \in S})
  <2>1. f \in [S -> T]
    BY <1>3
  <2>. QED  BY <1>1, <2>1, FiniteImage
<1>6. IsFiniteSet({g[row] : row \in S})
  <2>1. g \in [S -> U]
    BY <1>4
  <2>. QED  BY <1>1, <2>1, FiniteImage
<1>. QED  BY <1>2, <1>3, <1>4, <1>5, <1>6

\* The counts of a node's agents add up to its rows.
LEMMA GroupTotal ==
  ASSUME StoreInv, NEW t, NEW o
  PROVE  SumFunction(AgentCounts(t, o)) = Cardinality(GroupOf(t, o))
<1>1. GroupOf(t, o) \in SUBSET db
  BY DEF GroupOf, Visible
<1>2. PICK f, names : /\ f = AgentCounts(t, o)
                      /\ names = {row.agent_name : row \in GroupOf(t, o)}
  OBVIOUS
<1>3. PICK A : A = [a \in names |-> {row \in GroupOf(t, o) : row.agent_name = a}]
  OBVIOUS
<1>4. DOMAIN f = names /\ IsFiniteSet(names)
  BY <1>1, <1>2, FiniteNames DEF AgentCounts
<1>5. ASSUME NEW a \in names PROVE IsFiniteSet(A[a]) /\ f[a] = Cardinality(A[a])
  <2>1. A[a] \in SUBSET db
    BY <1>1, <1>3
  <2>2. A[a] = {row \in Visible(t) : row.orchestrator = o /\ row.agent_name = a}
    BY <1>3 DEF GroupOf
  <2>3. f[a] = Count(Visible(t), o, a)
    BY <1>2 DEF AgentCounts
  <2>. QED  BY <2>1, <2>2, <2>3, AnswersDiffer DEF Count
<1>6. ASSUME NEW a \in names, NEW b \in names, a # b
      PROVE  A[a] \cap A[b] = {}
  BY <1>3, <1>6
<1>7. UNION {A[a] : a \in names} = GroupOf(t, o)
  <2>1. UNION {A[a] : a \in names} \subseteq GroupOf(t, o)
    BY <1>3
  <2>2. ASSUME NEW row \in GroupOf(t, o) PROVE row \in UNION {A[a] : a \in names}
    <3>1. row.agent_name \in names /\ row \in A[row.agent_name]
      BY <1>2, <1>3
    <3>. QED  BY <3>1
  <2>. QED  BY <2>1, <2>2
<1>8. SumFunction(f) = Cardinality(UNION {A[a] : a \in DOMAIN f})
  <2>1. IsFiniteSet(DOMAIN f)
    BY <1>4
  <2>2. \A d \in DOMAIN f : IsFiniteSet(A[d]) /\ f[d] = Cardinality(A[d])
    BY <1>4, <1>5
  <2>3. \A d, e \in DOMAIN f : d # e => A[d] \cap A[e] = {}
    BY <1>4, <1>6
  <2>4. /\ IsFiniteSet(UNION {A[d] : d \in DOMAIN f})
        /\ SumFunction(f) = Cardinality(UNION {A[d] : d \in DOMAIN f})
    BY <2>1, <2>2, <2>3, SumOfParts
  <2>. QED  BY <2>4
<1>. QED  BY <1>2, <1>4, <1>7, <1>8

\* The counts of the nodes add up to all rows.
LEMMA TreeTotal ==
  ASSUME StoreInv, NEW t
  PROVE  SumFunction([node \in Tree(t) |-> node.event_count]) = Cardinality(Visible(t))
<1>1. Visible(t) \in SUBSET db
  BY DEF Visible
<1>2. PICK nodes, drivers : nodes = Tree(t) /\ drivers = Drivers(t)
  OBVIOUS
<1>3. PICK f, A : /\ f = [node \in nodes |-> node.event_count]
                  /\ A = [node \in nodes |-> GroupOf(t, node.orchestrator)]
  OBVIOUS
<1>4. /\ nodes = {NodeOf(t, o) : o \in drivers}
      /\ \A o : NodeOf(t, o).orchestrator = o
      /\ \A node \in nodes : node = NodeOf(t, node.orchestrator)
  <2>1. nodes = {NodeOf(t, o) : o \in drivers} /\ \A o : NodeOf(t, o).orchestrator = o
    BY <1>2, TreeNodes
  <2>. QED  BY <2>1
<1>5. IsFiniteSet(nodes)
  <2>1. IsFiniteSet(drivers)
    BY <1>1, <1>2, FiniteNames DEF Drivers
  <2>2. PICK g : g = [o \in drivers |-> NodeOf(t, o)]
    OBVIOUS
  <2>3. g \in [drivers -> nodes] /\ nodes = {g[o] : o \in drivers}
    BY <1>4, <2>2
  <2>4. IsFiniteSet({g[o] : o \in drivers})
    <3>1. g \in [drivers -> nodes]
      BY <2>3
    <3>. QED  BY <2>1, <3>1, FiniteImage
  <2>. QED  BY <2>3, <2>4
<1>6. ASSUME NEW node \in nodes PROVE IsFiniteSet(A[node]) /\ f[node] = Cardinality(A[node])
  <2>1. PICK o : o = node.orchestrator
    OBVIOUS
  <2>2. A[node] = GroupOf(t, o) /\ A[node] \in SUBSET db
    BY <1>1, <1>3, <2>1 DEF GroupOf
  <2>3. f[node] = SumFunction(AgentCounts(t, o))
    <3>1. node = NodeOf(t, o)
      BY <1>4, <2>1
    <3>2. NodeOf(t, o).event_count = SumFunction(AgentCounts(t, o))
      BY DEF NodeOf
    <3>. QED  BY <1>3, <3>1, <3>2
  <2>4. SumFunction(AgentCounts(t, o)) = Cardinality(GroupOf(t, o))
    BY GroupTotal
  <2>5. IsFiniteSet(A[node])
    BY <2>2, AnswersDiffer
  <2>. QED  BY <2>2, <2>3, <2>4, <2>5
<1>7. ASSUME NEW node \in nodes, NEW other \in nodes, node # other
      PROVE  A[node] \cap A[other] = {}
  <2>1. node.orchestrator # other.orchestrator
    BY <1>4, <1>7
  <2>. QED  BY <1>3, <2>1 DEF GroupOf
<1>8. UNION {A[node] : node \in nodes} = Visible(t)
  <2>1. UNION {A[node] : node \in nodes} \subseteq Visible(t)
    BY <1>3 DEF GroupOf
  <2>2. ASSUME NEW row \in Visible(t) PROVE row \in UNION {A[node] : node \in nodes}
    <3>1. PICK node : node = NodeOf(t, row.orchestrator)
      OBVIOUS
    <3>2. node \in nodes /\ node.orchestrator = row.orchestrator
      BY <1>2, <1>4, <3>1 DEF Drivers
    <3>3. row \in A[node]
      BY <1>3, <3>2 DEF GroupOf
    <3>. QED  BY <3>2, <3>3
  <2>. QED  BY <2>1, <2>2
<1>9. DOMAIN f = nodes
  BY <1>3
<1>10. SumFunction(f) = Cardinality(UNION {A[node] : node \in DOMAIN f})
  BY <1>5, <1>6, <1>7, <1>9, SumOfParts, SMTT(30)
<1>. QED  BY <1>2, <1>3, <1>8, <1>9, <1>10

\* A caller sees the events of its tenant, all and no others, among the events
\* and in the tree.
THEOREM OwnAnswers == Spec => []AnswersAreOwn
<1>1. ASSUME StoreInv, NEW t \in Callers
      PROVE  LET own == {p \in Posts : /\ IsStored(p)
                                       /\ Owner(p) = IF t = NoTenant THEN Default ELSE t}
                 ids == UNION {{<<p, i>> : i \in DOMAIN post[p].body} : p \in own}
             IN  /\ \A answer \in GetEvents(t, Everything) : {x.id : x \in answer} = ids
                 /\ SumFunction([node \in Tree(t) |-> node.event_count]) = Cardinality(ids)
  <2> DEFINE own == {p \in Posts : /\ IsStored(p)
                                   /\ Owner(p) = IF t = NoTenant THEN Default ELSE t}
             ids == UNION {{<<p, i>> : i \in DOMAIN post[p].body} : p \in own}
  <2>1. HandlerInv /\ \A p \in Posts : IsStored(p) => IsAccepted(p)
    BY <1>1 DEF StoreInv, IsStored, IsAccepted
  <2>2. \A p \in Posts : p \in own <=> IsStored(p) /\ ResolvedTenant(Caller[p]) = ResolvedTenant(t)
    BY DEF Owner, ResolvedTenant
  <2>3. ASSUME NEW p \in Posts, IsStored(p), NEW i \in DOMAIN post[p].body
        PROVE  StoredRow(p, i).tenant = ResolvedTenant(Caller[p])
    <3>1. IsAccepted(p)
      BY <2>1, <2>3
    <3>2. StoredRow(p, i) = [id |-> <<p, i>>, tenant |-> ResolvedTenant(Caller[p]),
                  orchestrator |-> post[p].body[i].orchestrator,
                  agent_name |-> post[p].body[i].agent_name,
                  session_id |-> post[p].body[i].session_id,
                  metadata |-> Metadata(post[p].body[i]),
                  ts |-> Column(post[p].rows[i].ts)]
      BY <2>1, <3>1, RowOf
    <3>. QED  BY <3>2
  <2>4. {row.id : row \in Visible(t)} = ids
    <3>1. ASSUME NEW row \in Visible(t) PROVE row.id \in ids
      <4>1. row \in db /\ row.tenant = ResolvedTenant(t)
        BY DEF Visible
      <4>2. PICK p, i : /\ p \in Posts /\ IsStored(p) /\ i \in DOMAIN post[p].body
                        /\ row = StoredRow(p, i)
        BY <1>1, <4>1, RowsStored
      <4>3. row.id = <<p, i>> /\ p \in own
        BY <1>1, <2>2, <2>3, <4>1, <4>2, RowsStored
      <4>. QED  BY <4>2, <4>3
    <3>2. ASSUME NEW x \in ids PROVE \E row \in Visible(t) : x = row.id
      <4>1. PICK p, i : p \in own /\ i \in DOMAIN post[p].body /\ x = <<p, i>>
        OBVIOUS
      <4>2. p \in Posts /\ IsStored(p) /\ ResolvedTenant(Caller[p]) = ResolvedTenant(t)
        BY <2>2, <4>1
      <4>3. PICK row : row = StoredRow(p, i)
        OBVIOUS
      <4>4. row \in db /\ row.id = x /\ row.tenant = ResolvedTenant(t)
        BY <1>1, <2>3, <4>1, <4>2, <4>3, RowsStored
      <4>. QED  BY <4>4 DEF Visible
    <3> HIDE DEF ids
    <3>. QED  BY <3>1, <3>2
  <2> HIDE DEF ids
  <2>5. Visible(t) \in SUBSET db
    BY DEF Visible
  <2>6. ASSUME NEW answer \in GetEvents(t, Everything) PROVE {x.id : x \in answer} = ids
    <3>1. PICK f : f = Everything
      OBVIOUS
    <3>2. Asked(t, f) = Visible(t)
      BY <3>1 DEF Asked, Matches, Everything
    <3>3. f.limit = Cardinality(db)
      BY <3>1 DEF Everything
    <3>4. GetEvents(t, f) = {{Answered(row) : row \in Asked(t, f)}}
      BY <1>1, <3>3, FullAnswer
    <3>5. answer = {Answered(row) : row \in Visible(t)}
      BY <2>6, <3>1, <3>2, <3>4
    <3>6. {x.id : x \in {Answered(row) : row \in Visible(t)}} = {row.id : row \in Visible(t)}
      BY <1>1, <2>5, AnswersDiffer
    <3>. QED  BY <2>4, <3>5, <3>6
  <2>7. SumFunction([node \in Tree(t) |-> node.event_count]) = Cardinality(ids)
    <3>1. Cardinality({row.id : row \in Visible(t)}) = Cardinality(Visible(t))
      BY <1>1, <2>5, AnswersDiffer
    <3>. QED  BY <1>1, <2>4, <3>1, TreeTotal
  <2>. QED  BY <2>6, <2>7 DEF ids
<1>2. StoreInv => AnswersAreOwn
  BY <1>1 DEF AnswersAreOwn
<1>. QED  BY <1>2, StoreInvariance, PTL

\* The question for an orchestrator and an agent, each perhaps left open, and
\* the rows it is about.
For(o, a) == [Everything EXCEPT !.orchestrator = o, !.agent_name = a]
RowsFor(t, o, a) ==
  {row \in Visible(t) : /\ o = Absent \/ row.orchestrator = o
                        /\ a = Absent \/ row.agent_name = a}

\* What queries find, in number.
LEMMA FoundFor ==
  ASSUME StoreInv, NEW t, NEW o, NEW a
  PROVE  /\ Cardinality(UNION GetEvents(t, For(o, a))) = Cardinality(RowsFor(t, o, a))
         /\ a # Absent => Cardinality(UNION GetEvents(t, [For(Absent, a) EXCEPT !.subtree = TRUE]))
              = Cardinality({row \in Visible(t) : row.agent_name = a \/ row.orchestrator = a})
<1>1. PICK f, g : f = For(o, a) /\ g = [For(Absent, a) EXCEPT !.subtree = TRUE]
  OBVIOUS
<1>2. /\ f.orchestrator = o /\ f.agent_name = a /\ f.session_id = Absent
      /\ f.since = Unbounded /\ f.until = Unbounded /\ f.subtree = FALSE
      /\ f.limit = Cardinality(db)
  BY <1>1 DEF For, Everything
<1>3. /\ g.orchestrator = Absent /\ g.agent_name = a /\ g.session_id = Absent
      /\ g.since = Unbounded /\ g.until = Unbounded /\ g.subtree = TRUE
      /\ g.limit = Cardinality(db)
  BY <1>1 DEF For, Everything
<1>4. Asked(t, f) = RowsFor(t, o, a)
  <2>1. \A row : Matches(row, f) <=> /\ o = Absent \/ row.orchestrator = o
                                     /\ a = Absent \/ row.agent_name = a
    BY <1>2 DEF Matches
  <2>. QED  BY <2>1 DEF Asked, RowsFor
<1>5. a # Absent =>
        Asked(t, g) = {row \in Visible(t) : row.agent_name = a \/ row.orchestrator = a}
  <2>1. a # Absent => \A row : Matches(row, g) <=> row.agent_name = a \/ row.orchestrator = a
    BY <1>3 DEF Matches
  <2>. QED  BY <2>1 DEF Asked
<1>6. Cardinality(UNION GetEvents(t, f)) = Cardinality(Asked(t, f))
  BY <1>2, FullAnswer
<1>7. Cardinality(UNION GetEvents(t, g)) = Cardinality(Asked(t, g))
  BY <1>3, FullAnswer
<1>. QED  BY <1>1, <1>4, <1>5, <1>6, <1>7

\* What a tenant's rows name is no absent parameter, and no agent is None.
LEMMA NamesGiven ==
  ASSUME StoreInv, NEW t, NEW row \in Visible(t)
  PROVE  row.orchestrator # Absent /\ row.agent_name # Absent
  BY RowsStored DEF Visible, Persisted, Text

\* What queries for an agent and each of the drivers find, together.
LEMMA DrivenTotal ==
  ASSUME StoreInv, NEW t, NEW a
  PROVE  LET drivers == Drivers(t) \ {NoOne} IN
         SumFunction([o \in drivers |-> Cardinality(UNION GetEvents(t, For(o, a)))])
           = Cardinality({row \in RowsFor(t, Absent, a) : row.orchestrator # NoOne})
<1>1. PICK drivers, f : /\ drivers = Drivers(t) \ {NoOne}
                        /\ f = [o \in drivers |-> Cardinality(UNION GetEvents(t, For(o, a)))]
  OBVIOUS
<1>2. PICK A : A = [o \in drivers |-> RowsFor(t, o, a)]
  OBVIOUS
<1>3. Visible(t) \in SUBSET db
  BY DEF Visible
<1>4. DOMAIN f = drivers
  BY <1>1
<1>5. IsFiniteSet(DOMAIN f)
  <2>1. IsFiniteSet(Drivers(t))
    BY <1>3, FiniteNames DEF Drivers
  <2>. QED  BY <1>1, <1>4, <2>1, FS_Subset
<1>6. \A o \in drivers : o # Absent
  BY <1>1, NamesGiven DEF Drivers
<1>7. \A d \in DOMAIN f : IsFiniteSet(A[d]) /\ f[d] = Cardinality(A[d])
  <2>1. ASSUME NEW d \in drivers PROVE IsFiniteSet(A[d]) /\ f[d] = Cardinality(A[d])
    <3>1. A[d] = RowsFor(t, d, a) /\ A[d] \in SUBSET db
      BY <1>2, <1>3 DEF RowsFor
    <3>2. IsFiniteSet(A[d])
      BY <3>1, AnswersDiffer
    <3>3. Cardinality(UNION GetEvents(t, For(d, a))) = Cardinality(RowsFor(t, d, a))
      BY FoundFor
    <3>. QED  BY <1>1, <3>1, <3>2, <3>3
  <2>. QED  BY <1>4, <2>1
<1>8. \A d, e \in DOMAIN f : d # e => A[d] \cap A[e] = {}
  BY <1>2, <1>4, <1>6 DEF RowsFor
<1>9. /\ IsFiniteSet(UNION {A[d] : d \in DOMAIN f})
      /\ SumFunction(f) = Cardinality(UNION {A[d] : d \in DOMAIN f})
  BY <1>5, <1>7, <1>8, SumOfParts
<1>10. UNION {A[d] : d \in DOMAIN f}
         = {row \in RowsFor(t, Absent, a) : row.orchestrator # NoOne}
  <2>1. ASSUME NEW d \in drivers, NEW row \in A[d]
        PROVE  row \in RowsFor(t, Absent, a) /\ row.orchestrator # NoOne
    BY <1>1, <1>2, <1>6, <2>1 DEF RowsFor
  <2>2. ASSUME NEW row \in RowsFor(t, Absent, a), row.orchestrator # NoOne
        PROVE  \E d \in drivers : row \in A[d]
    <3>1. row.orchestrator \in drivers
      BY <1>1, <2>2 DEF Drivers, RowsFor
    <3>2. row \in A[row.orchestrator]
      BY <1>2, <3>1 DEF RowsFor
    <3>. QED  BY <3>1, <3>2
  <2>. QED  BY <1>4, <2>1, <2>2
<1>. QED  BY <1>1, <1>9, <1>10

\* A node's agents have the counts that queries find: for its orchestrator, or
\* for none of the drivers.
LEMMA NodeCounts ==
  ASSUME StoreInv, NEW t, NEW o \in Drivers(t), NEW a \in DOMAIN AgentCounts(t, o)
  PROVE  LET Found(f) == Cardinality(UNION GetEvents(t, f))
             drivers == Drivers(t) \ {NoOne}
         IN  AgentCounts(t, o)[a] =
               IF o = NoOne
               THEN Found(For(Absent, a)) - SumFunction([d \in drivers |-> Found(For(d, a))])
               ELSE Found(For(o, a))
<1>1. AgentCounts(t, o)[a] = Count(Visible(t), o, a)
  BY DEF AgentCounts
<1>2. o # Absent /\ a # Absent
  <2>1. \E row \in Visible(t) : row.orchestrator = o
    BY DEF Drivers
  <2>2. \E row \in Visible(t) : row.agent_name = a
    BY DEF AgentCounts, GroupOf
  <2>. QED  BY <2>1, <2>2, NamesGiven
<1>3. Count(Visible(t), o, a) = Cardinality(RowsFor(t, o, a))
  BY <1>2 DEF Count, RowsFor
<1>4. CASE o # NoOne
  <2>1. Cardinality(UNION GetEvents(t, For(o, a))) = Cardinality(RowsFor(t, o, a))
    BY FoundFor
  <2>. QED  BY <1>1, <1>3, <1>4, <2>1
<1>5. CASE o = NoOne
  <2>1. PICK all, mine, driven :
          /\ all = RowsFor(t, Absent, a)
          /\ mine = RowsFor(t, o, a)
          /\ driven = {row \in RowsFor(t, Absent, a) : row.orchestrator # NoOne}
    OBVIOUS
  <2>2. all = mine \cup driven /\ mine \cap driven = {}
    BY <1>2, <1>5, <2>1 DEF RowsFor
  <2>3. /\ IsFiniteSet(mine) /\ Cardinality(mine) \in Nat
        /\ IsFiniteSet(driven) /\ Cardinality(driven) \in Nat
    <3>1. mine \in SUBSET db /\ driven \in SUBSET db
      BY <2>1 DEF RowsFor, Visible
    <3>. QED  BY <3>1, AnswersDiffer
  <2>4. Cardinality(all) = Cardinality(mine) + Cardinality(driven)
    <3>1. Cardinality(mine \cup driven)
            = Cardinality(mine) + Cardinality(driven) - Cardinality(mine \cap driven)
      BY <2>3, FS_Union
    <3>2. Cardinality(mine \cap driven) = 0
      BY <2>2, FS_EmptySet
    <3>. QED  BY <2>2, <2>3, <3>1, <3>2
  <2>5. Cardinality(UNION GetEvents(t, For(Absent, a))) = Cardinality(all)
    BY <2>1, FoundFor
  <2>6. SumFunction([d \in Drivers(t) \ {NoOne} |-> Cardinality(UNION GetEvents(t, For(d, a)))])
          = Cardinality(driven)
    BY <2>1, DrivenTotal
  <2>. QED  BY <1>1, <1>3, <1>5, <2>1, <2>3, <2>4, <2>5, <2>6
<1>. QED  BY <1>4, <1>5

\* The subtree of an agent is what it did and what it drives, each event once.
LEMMA SubtreeCounts ==
  ASSUME StoreInv, NEW t, NEW a, a # Absent
  PROVE  LET Found(f) == Cardinality(UNION GetEvents(t, f)) IN
         Found([For(Absent, a) EXCEPT !.subtree = TRUE])
           = Found(For(Absent, a)) + Found(For(a, Absent)) - Found(For(a, a))
<1>1. PICK did, drives : did = RowsFor(t, Absent, a) /\ drives = RowsFor(t, a, Absent)
  OBVIOUS
<1>2. /\ did \cup drives = {row \in Visible(t) : row.agent_name = a \/ row.orchestrator = a}
      /\ did \cap drives = RowsFor(t, a, a)
  BY <1>1 DEF RowsFor
<1>3. IsFiniteSet(did) /\ IsFiniteSet(drives)
  <2>1. did \in SUBSET db /\ drives \in SUBSET db
    BY <1>1 DEF RowsFor, Visible
  <2>. QED  BY <2>1, AnswersDiffer
<1>4. Cardinality(did \cup drives)
        = Cardinality(did) + Cardinality(drives) - Cardinality(did \cap drives)
  BY <1>3, FS_Union
<1>5. /\ Cardinality(UNION GetEvents(t, For(Absent, a))) = Cardinality(did)
      /\ Cardinality(UNION GetEvents(t, For(a, Absent))) = Cardinality(drives)
      /\ Cardinality(UNION GetEvents(t, For(a, a))) = Cardinality(did \cap drives)
  <2>1. Cardinality(UNION GetEvents(t, For(Absent, a))) = Cardinality(RowsFor(t, Absent, a))
    BY FoundFor
  <2>2. Cardinality(UNION GetEvents(t, For(a, Absent))) = Cardinality(RowsFor(t, a, Absent))
    BY FoundFor
  <2>3. Cardinality(UNION GetEvents(t, For(a, a))) = Cardinality(RowsFor(t, a, a))
    BY FoundFor
  <2>. QED  BY <1>1, <1>2, <2>1, <2>2, <2>3
<1>6. Cardinality(UNION GetEvents(t, [For(Absent, a) EXCEPT !.subtree = TRUE]))
        = Cardinality(did \cup drives)
  <2>1. Cardinality(UNION GetEvents(t, [For(Absent, a) EXCEPT !.subtree = TRUE]))
          = Cardinality({row \in Visible(t) : row.agent_name = a \/ row.orchestrator = a})
    BY FoundFor
  <2>. QED  BY <1>2, <2>1
<1>. QED  BY <1>4, <1>5, <1>6

\* The tree and the queries agree.
THEOREM TreeAndQuery == Spec => []TreeAgreesWithQuery
<1>1. ASSUME StoreInv, NEW t \in Callers
      PROVE  LET Found(f) == Cardinality(UNION GetEvents(t, f))
                 tree == Tree(t)
                 drivers == {node.orchestrator : node \in tree} \ {NoOne}
                 agents == UNION {DOMAIN node.agents : node \in tree}
             IN  /\ \A node \in tree : \A a \in DOMAIN node.agents :
                      node.agents[a] =
                        IF node.is_direct
                        THEN Found(For(Absent, a))
                               - SumFunction([o \in drivers |-> Found(For(o, a))])
                        ELSE Found(For(node.orchestrator, a))
                 /\ \A a \in agents :
                      Found([For(Absent, a) EXCEPT !.subtree = TRUE]) =
                        Found(For(Absent, a)) + Found(For(a, Absent)) - Found(For(a, a))
                 /\ \A node \in tree \ {n \in tree : n.is_direct} :
                      node.event_count = Found(For(node.orchestrator, Absent))
  <2> DEFINE Found(f) == Cardinality(UNION GetEvents(t, f))
             tree == Tree(t)
             drivers == {node.orchestrator : node \in tree} \ {NoOne}
  <2>1. ASSUME NEW node \in tree
        PROVE  /\ node.orchestrator \in Drivers(t)
               /\ node.is_direct = (node.orchestrator = NoOne)
               /\ node.agents = AgentCounts(t, node.orchestrator)
               /\ node.event_count = SumFunction(AgentCounts(t, node.orchestrator))
    <3>1. PICK o \in Drivers(t) : node = NodeOf(t, o)
      BY TreeNodes
    <3>. QED  BY <3>1 DEF NodeOf
  <2>2. drivers = Drivers(t) \ {NoOne}
    <3>1. {node.orchestrator : node \in tree} = Drivers(t)
      BY TreeNodes
    <3>. QED  BY <3>1
  <2> HIDE DEF drivers, tree
  <2>3. ASSUME NEW node \in tree, NEW a \in DOMAIN node.agents
        PROVE  node.agents[a] =
                 IF node.is_direct
                 THEN Found(For(Absent, a)) - SumFunction([o \in drivers |-> Found(For(o, a))])
                 ELSE Found(For(node.orchestrator, a))
    <3>1. PICK o : o = node.orchestrator
      OBVIOUS
    <3>2. o \in Drivers(t) /\ a \in DOMAIN AgentCounts(t, o) /\ node.agents = AgentCounts(t, o)
      BY <2>1, <2>3, <3>1
    <3>3. AgentCounts(t, o)[a] =
               IF o = NoOne
               THEN Found(For(Absent, a))
                      - SumFunction([d \in Drivers(t) \ {NoOne} |-> Found(For(d, a))])
               ELSE Found(For(o, a))
      BY <1>1, <3>2, NodeCounts
    <3>. QED  BY <2>1, <2>2, <3>1, <3>2, <3>3
  <2>4. ASSUME NEW node \in tree, NEW a \in DOMAIN node.agents
        PROVE  Found([For(Absent, a) EXCEPT !.subtree = TRUE])
                 = Found(For(Absent, a)) + Found(For(a, Absent)) - Found(For(a, a))
    <3>1. \E row \in Visible(t) : row.agent_name = a
      <4>1. PICK o : o = node.orchestrator
        OBVIOUS
      <4>2. a \in DOMAIN AgentCounts(t, o)
        BY <2>1, <2>4, <4>1
      <4>. QED  BY <4>2 DEF AgentCounts, GroupOf
    <3>2. a # Absent
      BY <1>1, <3>1, NamesGiven
    <3>. QED  BY <1>1, <3>2, SubtreeCounts
  <2>5. ASSUME NEW node \in tree, ~node.is_direct
        PROVE  node.event_count = Found(For(node.orchestrator, Absent))
    <3>1. PICK o : o = node.orchestrator
      OBVIOUS
    <3>2. node.event_count = Cardinality(GroupOf(t, o))
      BY <1>1, <2>1, <3>1, GroupTotal
    <3>3. o # Absent
      <4>1. \E row \in Visible(t) : row.orchestrator = o
        BY <2>1, <3>1 DEF Drivers
      <4>. QED  BY <1>1, <4>1, NamesGiven
    <3>4. GroupOf(t, o) = RowsFor(t, o, Absent)
      BY <3>3 DEF GroupOf, RowsFor
    <3>5. Cardinality(UNION GetEvents(t, For(o, Absent))) = Cardinality(RowsFor(t, o, Absent))
      BY <1>1, FoundFor
    <3>. QED  BY <3>1, <3>2, <3>4, <3>5
  <2>6. \A a \in UNION {DOMAIN node.agents : node \in tree} :
          Found([For(Absent, a) EXCEPT !.subtree = TRUE])
            = Found(For(Absent, a)) + Found(For(a, Absent)) - Found(For(a, a))
    BY <2>4
  <2>7. \A node \in tree \ {n \in tree : n.is_direct} :
          node.event_count = Found(For(node.orchestrator, Absent))
    BY <2>5
  <2>. QED  BY <2>3, <2>6, <2>7 DEF tree, drivers
<1>2. StoreInv => TreeAgreesWithQuery
  BY <1>1 DEF TreeAgreesWithQuery, For
<1>. QED  BY <1>2, StoreInvariance, PTL
=============================================================================
