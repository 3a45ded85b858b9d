------------------------------ MODULE ServerPartsProofs ------------------------------
(***************************************************************************)
(* The parts of MCParts that run on the server, for every value of the     *)
(* constants.  A section is about one part: its variables are v1, v2, ...  *)
(* in the order in which MCParts gives them to the part's module.          *)
(***************************************************************************)
EXTENDS MCParts, TLAPS, SequenceTheorems, WellFoundedInduction

allVars == <<part, v1, v2, v3, v4, v5, v6, v7, v8, v9, v10, more, past>>

\* Of a set of numbers one is the least.
LEMMA Least ==
    ASSUME NEW T, T \subseteq Nat, T # {}
    PROVE  \E x \in T : \A y \in T : x <= y
<1> DEFINE R == {ss \in Nat \X Nat : ss[1] < ss[2]}
<1>1. IsWellFoundedOn(R, Nat)
    BY NatLessThanWellFounded DEF OpToRel
<1>2. \A x, y \in Nat : <<y, x>> \in R <=> y < x
    OBVIOUS
<1> HIDE DEF R
<1>3. PICK x \in T : \A y \in T : <<y, x>> \notin R
    BY <1>1, WFMin
<1>4. \A y \in T : ~(y < x)
    BY <1>2, <1>3
<1> QED
    BY <1>3, <1>4

-------------------------------------------------------------------------------
(* The limiter: v1 is the time, v2 what it remembers, v3 what was let       *)
(* through, v4 what a refused user was told.                                *)

LEMMA LimiterSteps ==
    ASSUME [Next]_allVars, part = "limiter"
    PROVE  part' = "limiter" /\ (Limits!Next \/ UNCHANGED <<v1, v2, v3, v4>>)
BY DEF Next, allVars

\* What the limiter remembers is the end of what it has let through, which is
\* in order, and what it has forgotten has left the window.
Tailed(E, P, t) ==
    /\ Len(E) <= Len(P)
    /\ \A i \in 1..Len(E) : E[i] = P[Len(P) - Len(E) + i]
    /\ \A i \in 1..(Len(P) - Len(E)) : P[i] + Window <= t

Ordered(P, t) ==
    /\ \A i \in 1..Len(P) : P[i] <= t
    /\ \A i, j \in 1..Len(P) : i <= j => P[i] <= P[j]

Spaced(P, q) == \A i \in 1..(Len(P) - q) : P[i + q] - P[i] >= Window

LimiterTypes ==
    /\ v1 \in Nat
    /\ v2 \in [Limits!Keys -> Seq(Nat)] /\ v3 \in [Limits!Keys -> Seq(Nat)]
    /\ v4 \in [Users -> Nat]

KeyHolds(key) ==
    /\ Tailed(v2[key], v3[key], v1) /\ Ordered(v3[key], v1)
    /\ Spaced(v3[key], Limits!Quota(key)) /\ Len(v2[key]) <= Limits!Quota(key)

ToldRight(u) == v4[u] # 0 => Len(v2[u]) > 0 /\ v4[u] = v2[u][1] + Window + 1

LimiterInv ==
    /\ LimiterTypes
    /\ \A key \in Limits!Keys : KeyHolds(key)
    /\ \A u \in Users : ToldRight(u)

LEMMA QuotaType == \A key \in Limits!Keys : Limits!Quota(key) \in Nat \ {0}
BY SomeQuota DEF Limits!Quota

\* What is left of the memory after the calls that have left the window.
LEMMA Pruned ==
    ASSUME LimiterTypes, NEW key \in Limits!Keys, Ordered(v2[key], v1)
    PROVE  \E k \in 0..Len(v2[key]) :
               /\ Limits!pruned(key) \in Seq(Nat)
               /\ Len(Limits!pruned(key)) = Len(v2[key]) - k
               /\ \A i \in 1..(Len(v2[key]) - k) : Limits!pruned(key)[i] = v2[key][k + i]
               /\ \A i \in 1..k : v2[key][i] + Window <= v1
               /\ \A i \in 1..Len(v2[key]) : v2[key][i] + Window <= v1 => i <= k
<1> DEFINE s == v2[key]
           F == Limits!fresh(key)
<1>1. s \in Seq(Nat) /\ v1 \in Nat /\ Window \in Nat
    BY SomeQuota DEF LimiterTypes
<1>2. F = {i \in 1..Len(s) : s[i] > v1 - Window}
    BY DEF Limits!fresh, Limits!inWindow
<1>3. \A i \in 1..Len(s) : s[i] \in Nat
    BY <1>1
<1>4. CASE F = {}
    <2>1. Limits!pruned(key) = <<>>
        BY <1>4 DEF Limits!pruned
    <2>2. \A i \in 1..Len(s) : s[i] + Window <= v1
        BY <1>1, <1>2, <1>3, <1>4
    <2> QED
        BY <1>1, <2>1, <2>2
<1>5. CASE F # {}
    <2>1. \E x \in F : \A y \in F : x <= y
        <3>1. F \subseteq Nat
            BY <1>2
        <3> HIDE DEF F
        <3> QED
            BY <1>5, <3>1, Least
    <2> DEFINE m == Limits!Min(F)
    <2>2. m \in F /\ \A y \in F : m <= y
        BY <2>1 DEF Limits!Min
    <2>3. Limits!pruned(key) = SubSeq(s, m, Len(s))
        BY <1>5 DEF Limits!pruned
    <2> HIDE DEF m
    <2>4. m \in 1..Len(s) /\ s[m] > v1 - Window
        BY <1>2, <2>2
    <2> HIDE DEF F
    <2>5. /\ SubSeq(s, m, Len(s)) \in Seq(Nat)
          /\ Len(SubSeq(s, m, Len(s))) = Len(s) - m + 1
          /\ \A i \in 1..(Len(s) - m + 1) : SubSeq(s, m, Len(s))[i] = s[m + i - 1]
        BY <1>1, <1>3, <2>4, SubSeqProperties
    <2>6. \A i \in 1..(m - 1) : s[i] + Window <= v1
        <3> TAKE i \in 1..(m - 1)
        <3>1. i \in 1..Len(s) /\ i \notin F
            BY <1>1, <2>2, <2>4
        <3> QED
            BY <1>1, <1>2, <1>3, <3>1
    <2>7. \A i \in 1..Len(s) : s[i] + Window <= v1 => i <= m - 1
        <3> TAKE i \in 1..Len(s)
        <3>1. i >= m => s[i] >= s[m]
            BY <2>4 DEF Ordered
        <3> QED
            BY <1>1, <1>3, <2>4, <3>1
    <2> DEFINE k == m - 1
    <2>8. k \in 0..Len(s) /\ Len(s) - m + 1 = Len(s) - k /\ \A i \in Nat : m + i - 1 = k + i
        BY <1>1, <2>4
    <2> HIDE DEF k
    <2>9. Len(SubSeq(s, m, Len(s))) = Len(s) - k
        BY <2>5, <2>8
    <2>10. ASSUME NEW i \in 1..(Len(s) - k) PROVE SubSeq(s, m, Len(s))[i] = s[k + i]
        <3>1. i \in 1..(Len(s) - m + 1) /\ m + i - 1 = k + i
            BY <1>1, <2>4, <2>8
        <3>2. SubSeq(s, m, Len(s))[i] = s[m + i - 1]
            BY <2>5, <3>1
        <3> QED
            BY <3>1, <3>2
    <2> QED
        BY <2>3, <2>5, <2>6, <2>7, <2>8, <2>9, <2>10 DEF k
<1> QED
    BY <1>4, <1>5

\* A memory that is the end of what was let through stays so when it is pruned,
\* and what is let through then keeps its distance.
LEMMA PrunedTail ==
    ASSUME NEW E \in Seq(Nat), NEW P \in Seq(Nat), NEW t \in Nat, Tailed(E, P, t),
           NEW D \in Seq(Nat), NEW k \in 0..Len(E),
           Len(D) = Len(E) - k, \A i \in 1..(Len(E) - k) : D[i] = E[k + i],
           \A i \in 1..k : E[i] + Window <= t
    PROVE  Tailed(D, P, t)
<1> DEFINE m == Len(P) - Len(E)
<1>1. m \in Nat /\ Len(D) <= Len(P) /\ Len(P) - Len(D) = m + k
    BY DEF Tailed
<1>2. \A i \in 1..Len(E) : E[i] = P[m + i]
    BY DEF Tailed
<1>3. \A i \in 1..m : P[i] + Window <= t
    BY DEF Tailed
<1> HIDE DEF m
<1>4. ASSUME NEW i \in 1..Len(D) PROVE D[i] = P[Len(P) - Len(D) + i]
    <2>0. i \in Nat /\ i >= 1 /\ i <= Len(E) - k /\ Len(E) \in Nat /\ Len(P) \in Nat /\ Len(D) \in Nat
        OBVIOUS
    <2>1. k + i \in 1..Len(E) /\ m + (k + i) = Len(P) - Len(D) + i
        <3>1. Len(P) - Len(D) = m + k
            BY <1>1
        <3>2. m \in Nat /\ k \in Nat
            BY <1>1
        <3>3. \A a \in Nat : a >= 1 /\ a <= Len(E) - k => k + a \in 1..Len(E) /\ m + (k + a) = (m + k) + a
            BY <2>0, <3>2
        <3> QED
            BY <2>0, <3>1, <3>3
    <2>2. D[i] = E[k + i] /\ E[k + i] = P[m + (k + i)]
        BY <1>2, <2>1
    <2> QED
        BY <2>1, <2>2
<1>5. ASSUME NEW i \in 1..(Len(P) - Len(D)) PROVE P[i] + Window <= t
    <2>1. CASE i <= m
        BY <1>1, <1>3, <2>1
    <2>2. CASE i > m
        <3>1. i - m \in 1..k /\ i - m \in 1..Len(E) /\ m + (i - m) = i
            BY <1>1, <2>2
        <3>2. E[i - m] = P[m + (i - m)] /\ E[i - m] + Window <= t
            BY <1>2, <3>1
        <3> QED
            BY <3>1, <3>2
    <2> QED
        BY <1>1, <2>1, <2>2
<1> QED
    BY <1>1, <1>4, <1>5 DEF Tailed

LEMMA Appended ==
    ASSUME NEW E \in Seq(Nat), NEW P \in Seq(Nat), NEW t \in Nat, NEW q \in Nat \ {0},
           Tailed(E, P, t), Ordered(P, t), Spaced(P, q), Len(E) < q
    PROVE  /\ Tailed(Append(E, t), Append(P, t), t)
           /\ Ordered(Append(P, t), t) /\ Spaced(Append(P, t), q) /\ Len(Append(E, t)) <= q
<1> DEFINE D == Append(E, t)
           O == Append(P, t)
<1>1. /\ D \in Seq(Nat) /\ Len(D) = Len(E) + 1 /\ D[Len(E) + 1] = t /\ \A i \in 1..Len(E) : D[i] = E[i]
      /\ O \in Seq(Nat) /\ Len(O) = Len(P) + 1 /\ O[Len(P) + 1] = t /\ \A i \in 1..Len(P) : O[i] = P[i]
    OBVIOUS
<1>2. Window \in Nat /\ \A i \in 1..Len(P) : P[i] \in Nat
    BY SomeQuota
<1> HIDE DEF D, O
<1>3. Tailed(D, O, t)
    <2>1. ASSUME NEW i \in 1..Len(D) PROVE D[i] = O[Len(O) - Len(D) + i]
        <3>1. CASE i = Len(E) + 1
            <4>1. Len(O) - Len(D) + i = Len(P) + 1
                BY <1>1, <3>1
            <4> QED
                BY <1>1, <3>1, <4>1
        <3>2. CASE i \in 1..Len(E)
            <4>1. Len(O) - Len(D) + i = Len(P) - Len(E) + i /\ Len(P) - Len(E) + i \in 1..Len(P)
                BY <1>1, <3>2 DEF Tailed
            <4>2. E[i] = P[Len(P) - Len(E) + i]
                BY <3>2 DEF Tailed
            <4> QED
                BY <1>1, <3>2, <4>1, <4>2
        <3> QED
            BY <1>1, <3>1, <3>2
    <2>2. Len(O) - Len(D) = Len(P) - Len(E) /\ Len(D) <= Len(O)
        BY <1>1 DEF Tailed
    <2>3. ASSUME NEW i \in 1..(Len(O) - Len(D)) PROVE O[i] + Window <= t
        <3>1. i \in 1..(Len(P) - Len(E)) /\ i \in 1..Len(P)
            BY <1>1, <2>2
        <3> QED
            BY <1>1, <3>1 DEF Tailed
    <2> QED
        BY <2>1, <2>2, <2>3 DEF Tailed
<1>4. Ordered(O, t)
    <2>1. \A i \in 1..Len(P) : P[i] <= t
        BY DEF Ordered
    <2>2. \A i, j \in 1..Len(P) : i <= j => P[i] <= P[j]
        BY DEF Ordered
    <2>3. Len(P) \in Nat /\ \A i \in 1..Len(O) : i \in 1..Len(P) \/ i = Len(P) + 1
        BY <1>1
    <2>4. ASSUME NEW i \in 1..Len(O) PROVE O[i] <= t
        <3>1. CASE i = Len(P) + 1
            BY <1>1, <3>1
        <3>2. CASE i \in 1..Len(P)
            BY <1>1, <2>1, <3>2
        <3> QED
            BY <2>3, <3>1, <3>2
    <2>5. ASSUME NEW i \in 1..Len(O), NEW j \in 1..Len(O), i <= j PROVE O[i] <= O[j]
        <3>1. CASE j = Len(P) + 1
            BY <1>1, <2>4, <3>1
        <3>2. CASE j \in 1..Len(P)
            <4>1. i \in 1..Len(P)
                BY <2>3, <2>5, <3>2
            <4> QED
                BY <1>1, <2>2, <2>5, <3>2, <4>1
        <3> QED
            BY <2>3, <3>1, <3>2
    <2> QED
        BY <2>4, <2>5 DEF Ordered
<1>5. Spaced(O, q)
    <2> SUFFICES ASSUME NEW i \in 1..(Len(O) - q) PROVE O[i + q] - O[i] >= Window
        BY DEF Spaced
    <2>0. Len(P) \in Nat /\ Len(O) = Len(P) + 1 /\ i \in Nat /\ i >= 1 /\ i <= Len(P) + 1 - q
        BY <1>1
    <2>1. i \in 1..Len(P) /\ i + q \in 1..(Len(P) + 1)
        BY <2>0
    <2>2. CASE i + q \in 1..Len(P)
        <3>1. i \in 1..(Len(P) - q)
            BY <2>2
        <3> QED
            BY <1>1, <2>1, <2>2, <3>1 DEF Spaced
    <2>3. CASE i + q = Len(P) + 1
        <3>1. i \in 1..(Len(P) - Len(E))
            BY <2>0, <2>1, <2>3
        <3>2. P[i] + Window <= t
            BY <3>1 DEF Tailed
        <3>3. O[i + q] = t /\ O[i] = P[i] /\ P[i] \in Nat
            BY <1>1, <1>2, <2>1, <2>3
        <3> QED
            BY <1>2, <3>2, <3>3
    <2> QED
        BY <2>0, <2>1, <2>2, <2>3
<1>6. Len(D) <= q
    BY <1>1
<1> QED
    BY <1>3, <1>4, <1>5, <1>6 DEF D, O

LEMMA LimiterInit == Init /\ part = "limiter" => LimiterInv
<1> SUFFICES ASSUME Limits!Init PROVE LimiterInv
    BY DEF Init
<1>1. LimiterTypes
    BY SomeQuota DEF Limits!Init, LimiterTypes
<1>2. ASSUME NEW key \in Limits!Keys PROVE KeyHolds(key)
    <2>1. v2[key] = <<>> /\ v3[key] = <<>>
        BY DEF Limits!Init
    <2>2. Limits!Quota(key) \in Nat \ {0}
        BY QuotaType
    <2> QED
        BY <2>1, <2>2 DEF KeyHolds, Tailed, Ordered, Spaced
<1>3. \A u \in Users : ToldRight(u)
    BY DEF Limits!Init, ToldRight
<1> QED
    BY <1>1, <1>2, <1>3 DEF LimiterInv

LEMMA LimiterTick == LimiterInv /\ Limits!Tick => LimiterInv'
<1> SUFFICES ASSUME LimiterInv, Limits!Tick PROVE LimiterInv'
    OBVIOUS
<1>1. v1' = v1 + 1 /\ v2' = v2 /\ v3' = v3 /\ v4' = v4 /\ v1 \in Nat
    BY DEF Limits!Tick, LimiterInv, LimiterTypes
<1>2. LimiterTypes'
    BY <1>1 DEF LimiterInv, LimiterTypes
<1>3. ASSUME NEW key \in Limits!Keys PROVE KeyHolds(key)'
    <2> DEFINE E == v2[key]
               P == v3[key]
    <2>1. E \in Seq(Nat) /\ P \in Seq(Nat) /\ Window \in Nat
        BY SomeQuota DEF LimiterInv, LimiterTypes
    <2>2. Len(E) \in Nat /\ Len(P) \in Nat /\ \A i \in 1..Len(P) : P[i] \in Nat
        <3> HIDE DEF E, P
        <3> QED
            BY <2>1
    <2>3. Tailed(E, P, v1) /\ Ordered(P, v1) /\ Spaced(P, Limits!Quota(key)) /\ Len(E) <= Limits!Quota(key)
        BY DEF LimiterInv, KeyHolds
    <2> HIDE DEF E, P
    <2>4. Tailed(E, P, v1 + 1)
        <3>1. ASSUME NEW i \in 1..(Len(P) - Len(E)) PROVE P[i] + Window <= v1 + 1
            <4>1. P[i] + Window <= v1 /\ P[i] \in Nat
                BY <2>2, <2>3 DEF Tailed
            <4> QED
                BY <1>1, <2>1, <4>1
        <3> QED
            BY <2>3, <3>1 DEF Tailed
    <2>5. Ordered(P, v1 + 1)
        BY <1>1, <2>2, <2>3 DEF Ordered
    <2>6. KeyHolds(key)' <=> Tailed(E, P, v1 + 1) /\ Ordered(P, v1 + 1) /\ Spaced(P, Limits!Quota(key)) /\ Len(E) <= Limits!Quota(key)
        BY <1>1 DEF KeyHolds, E, P, Tailed, Ordered, Spaced, Limits!Quota
    <2> QED
        BY <2>3, <2>4, <2>5, <2>6
<1>4. \A u \in Users : ToldRight(u)'
    BY <1>1 DEF LimiterInv, ToldRight
<1> QED
    BY <1>2, <1>3, <1>4 DEF LimiterInv, Limits!Keys

\* The keys a call asks for: the quota of both is looked at, the second only if
\* the first lets it through.
LEMMA LimiterKept ==
    ASSUME LimiterInv, NEW key \in Limits!Keys
    PROVE  /\ v2[key] \in Seq(Nat) /\ v3[key] \in Seq(Nat) /\ v1 \in Nat
           /\ Ordered(v2[key], v1)
           /\ Limits!pruned(key) \in Seq(Nat)
           /\ Len(Limits!pruned(key)) <= Len(v2[key])
           /\ Tailed(Limits!pruned(key), v3[key], v1)
<1> DEFINE E == v2[key]
           P == v3[key]
           D == Limits!pruned(key)
<1>1. E \in Seq(Nat) /\ P \in Seq(Nat) /\ v1 \in Nat /\ LimiterTypes
    BY DEF LimiterInv, LimiterTypes
<1>2. Tailed(E, P, v1) /\ Ordered(P, v1)
    BY DEF LimiterInv, KeyHolds
<1>3. Ordered(E, v1)
    <2> HIDE DEF E, P
    <2> DEFINE m == Len(P) - Len(E)
    <2>1. Len(E) \in Nat /\ Len(P) \in Nat /\ m \in Nat /\ m + Len(E) = Len(P)
        BY <1>1, <1>2 DEF Tailed
    <2>2. \A i \in 1..Len(E) : E[i] = P[m + i]
        BY <1>2 DEF Tailed
    <2>3. \A i \in 1..Len(P) : P[i] <= v1
        BY <1>2 DEF Ordered
    <2>4. \A i, j \in 1..Len(P) : i <= j => P[i] <= P[j]
        BY <1>2 DEF Ordered
    <2> HIDE DEF m
    <2>5. \A i \in 1..Len(E) : m + i \in 1..Len(P)
        BY <2>1
    <2>6. \A i \in 1..Len(E) : E[i] <= v1
        BY <2>2, <2>3, <2>5
    <2>7. \A i, j \in 1..Len(E) : i <= j => m + i <= m + j
        BY <2>1
    <2>8. \A i, j \in 1..Len(E) : i <= j => E[i] <= E[j]
        BY <2>2, <2>4, <2>5, <2>7
    <2> QED
        BY <2>6, <2>8 DEF Ordered
<1>4. PICK k \in 0..Len(E) :
          /\ D \in Seq(Nat)
          /\ Len(D) = Len(E) - k
          /\ \A i \in 1..(Len(E) - k) : D[i] = E[k + i]
          /\ \A i \in 1..k : E[i] + Window <= v1
    BY <1>1, <1>3, Pruned
<1>5. Len(D) <= Len(E)
    <2> HIDE DEF D, E
    <2> QED
        BY <1>1, <1>4
<1> HIDE DEF D, E, P
<1>6. Tailed(D, P, v1)
    BY <1>1, <1>2, <1>4, PrunedTail
<1> QED
    BY <1>1, <1>3, <1>4, <1>5, <1>6 DEF D, E, P

\* A call takes a slot in both windows or in none.
LEMMA LimiterKeys ==
    ASSUME LimiterInv, NEW u \in Users, Limits!check(u), NEW key \in Limits!Keys
    PROVE  KeyHolds(key)' /\ v2'[key] \in Seq(Nat) /\ v3'[key] \in Seq(Nat)
<1> DEFINE D == Limits!pruned(key)
           E == v2[key]
           P == v3[key]
           q == Limits!Quota(key)
<1>1. /\ E \in Seq(Nat) /\ P \in Seq(Nat) /\ v1 \in Nat /\ Ordered(E, v1)
      /\ D \in Seq(Nat) /\ Len(D) <= Len(E) /\ Tailed(D, P, v1)
    BY LimiterKept
<1>2. Tailed(E, P, v1) /\ Ordered(P, v1) /\ Spaced(P, q) /\ Len(E) <= q
    BY DEF LimiterInv, KeyHolds
<1>3. q \in Nat \ {0}
    BY QuotaType
<1>4. v1' = v1
    BY DEF Limits!check
<1>5. \/ v2'[key] = E /\ v3'[key] = P
      \/ v2'[key] = D /\ v3'[key] = P
      \/ v2'[key] = Append(D, v1) /\ v3'[key] = Append(P, v1) /\ Len(D) < q
    <2> DEFINE allowed == \A k \in {u, Limits!Shared} : ~Limits!full(k)
               asked == IF Limits!full(u) THEN {u} ELSE {u, Limits!Shared}
    <2>1. /\ v2'[key] = IF key \notin asked THEN E ELSE IF allowed THEN Append(D, v1) ELSE D
          /\ v3'[key] = IF allowed /\ key \in {u, Limits!Shared} THEN Append(P, v1) ELSE P
        BY DEF Limits!check
    <2>2. allowed => asked = {u, Limits!Shared}
        OBVIOUS
    <2>3. allowed /\ key \in {u, Limits!Shared} => ~(Len(D) >= q)
        BY DEF Limits!full
    <2>4. ~(Len(D) >= q) => Len(D) < q
        <3> HIDE DEF D, q
        <3> QED
            BY <1>1, <1>3
    <2> HIDE DEF allowed, asked, D, E, P, q
    <2> QED
        BY <2>1, <2>2, <2>3, <2>4
<1>6. Limits!Quota(key)' = q
    BY DEF Limits!Quota
<1> HIDE DEF D, E, P, q
<1>7. Len(D) <= q
    BY <1>1, <1>2, <1>3
<1>8. Len(D) < q => /\ Tailed(Append(D, v1), Append(P, v1), v1)
                    /\ Ordered(Append(P, v1), v1) /\ Spaced(Append(P, v1), q) /\ Len(Append(D, v1)) <= q
    BY <1>1, <1>2, <1>3, Appended
<1>9. KeyHolds(key)' <=> /\ Tailed(v2'[key], v3'[key], v1) /\ Ordered(v3'[key], v1)
                         /\ Spaced(v3'[key], q) /\ Len(v2'[key]) <= q
    BY <1>4, <1>6 DEF KeyHolds, Tailed, Ordered, Spaced
<1>10. CASE v2'[key] = E /\ v3'[key] = P
    BY <1>1, <1>2, <1>9, <1>10
<1>11. CASE v2'[key] = D /\ v3'[key] = P
    BY <1>1, <1>2, <1>7, <1>9, <1>11
<1>12. CASE v2'[key] = Append(D, v1) /\ v3'[key] = Append(P, v1) /\ Len(D) < q
    <2>1. Append(D, v1) \in Seq(Nat) /\ Append(P, v1) \in Seq(Nat)
        BY <1>1
    <2> QED
        BY <1>8, <1>9, <1>12, <2>1
<1> QED
    BY <1>5, <1>10, <1>11, <1>12

LEMMA LimiterCheck ==
    ASSUME LimiterInv, NEW u \in Users, Limits!check(u)
    PROVE  LimiterInv'
<1>1. \A key \in Limits!Keys : KeyHolds(key)' /\ v2'[key] \in Seq(Nat) /\ v3'[key] \in Seq(Nat)
    BY LimiterKeys
<1>2. u \in Limits!Keys /\ v1 \in Nat /\ v1' = v1 /\ Window \in Nat /\ Limits!Shared \notin Users
    BY SomeQuota DEF Limits!Keys, LimiterInv, LimiterTypes, Limits!check, Limits!Shared
<1> DEFINE D == Limits!pruned(u)
           q == Limits!Quota(u)
<1>3. D \in Seq(Nat) /\ q \in Nat \ {0}
    BY <1>2, LimiterKept, QuotaType
<1>4. v4' = [v4 EXCEPT ![u] = IF Limits!full(u) THEN Head(D) + Window + 1 ELSE 0] /\ v4 \in [Users -> Nat]
    BY DEF Limits!check, Limits!retryAt, LimiterInv, LimiterTypes
<1>5. Limits!full(u) => /\ v2'[u] = D /\ Len(D) > 0 /\ Head(D) = D[1] /\ D[1] \in Nat
    <2>1. Limits!full(u) => v2'[u] = D
        BY <1>2 DEF Limits!check
    <2>2. Limits!full(u) <=> Len(D) >= q
        BY DEF Limits!full
    <2> HIDE DEF D, q
    <2>3. Len(D) >= q => Len(D) > 0 /\ Head(D) = D[1] /\ D[1] \in Nat
        BY <1>3
    <2> QED
        BY <2>1, <2>2, <2>3
<1> HIDE DEF D
<1>6. v4' \in [Users -> Nat] /\ ToldRight(u)'
    <2>1. CASE Limits!full(u)
        <3>1. v4'[u] = D[1] + Window + 1 /\ v4' \in [Users -> Nat]
            <4>1. D[1] + Window + 1 \in Nat /\ Head(D) = D[1]
                BY <1>2, <1>5, <2>1
            <4> QED
                BY <1>4, <2>1, <4>1
        <3> QED
            BY <1>5, <2>1, <3>1 DEF ToldRight
    <2>2. CASE ~Limits!full(u)
        BY <1>4, <2>2 DEF ToldRight
    <2> QED
        BY <2>1, <2>2
<1>7. ASSUME NEW w \in Users \ {u} PROVE ToldRight(w)'
    <2>1. v4'[w] = v4[w]
        BY <1>4
    <2>2. v2'[w] = v2[w]
        BY <1>2 DEF Limits!check, Limits!Keys
    <2> QED
        BY <2>1, <2>2 DEF LimiterInv, ToldRight
<1>8. v2' \in [Limits!Keys -> Seq(Nat)] /\ v3' \in [Limits!Keys -> Seq(Nat)]
    <2>1. /\ v2' = [key \in Limits!Keys |-> v2'[key]]
          /\ v3' = [key \in Limits!Keys |-> v3'[key]]
        BY DEF Limits!check
    <2> QED
        BY <1>1, <2>1
<1> QED
    BY <1>1, <1>2, <1>6, <1>7, <1>8 DEF LimiterInv, LimiterTypes, Limits!Keys

LEMMA LimiterRestart == LimiterInv /\ Limits!Restart => LimiterInv'
<1> SUFFICES ASSUME LimiterInv, Limits!Restart PROVE LimiterInv'
    OBVIOUS
<1>1. LimiterTypes'
    BY DEF Limits!Restart, LimiterInv, LimiterTypes
<1>2. ASSUME NEW key \in Limits!Keys PROVE KeyHolds(key)'
    <2>1. v2'[key] = <<>> /\ v3'[key] = <<>>
        BY DEF Limits!Restart
    <2>2. Limits!Quota(key) \in Nat \ {0}
        BY QuotaType
    <2> QED
        BY <2>1, <2>2 DEF KeyHolds, Tailed, Ordered, Spaced, Limits!Quota
<1>3. \A u \in Users : ToldRight(u)'
    BY DEF Limits!Restart, ToldRight
<1> QED
    BY <1>1, <1>2, <1>3 DEF LimiterInv, Limits!Keys

\* The windows keep the quota, and a user who comes back when told finds the
\* oldest call gone.
LEMMA LimiterHolds == LimiterInv => Limits!QuotaHolds
<1> SUFFICES ASSUME LimiterInv PROVE Limits!QuotaHolds
    OBVIOUS
<1>1. \A key \in Limits!Keys : \A i \in 1..(Len(v3[key]) - Limits!Quota(key)) :
          v3[key][i + Limits!Quota(key)] - v3[key][i] >= Window
    BY DEF LimiterInv, KeyHolds, Spaced
<1>2. ASSUME NEW u \in Users, v4[u] # 0, v1 >= v4[u] PROVE ~Limits!full(u)
    <2> DEFINE s == v2[u]
               D == Limits!pruned(u)
               q == Limits!Quota(u)
    <2>1. u \in Limits!Keys /\ Window \in Nat /\ LimiterTypes
        BY SomeQuota DEF Limits!Keys, LimiterInv
    <2>2. s \in Seq(Nat) /\ v1 \in Nat /\ Ordered(s, v1)
        BY <2>1, LimiterKept
    <2>3. Len(s) > 0 /\ v4[u] = s[1] + Window + 1 /\ Len(s) <= q /\ q \in Nat
        BY <1>2, <2>1, QuotaType DEF LimiterInv, ToldRight, KeyHolds
    <2>4. PICK k \in 0..Len(s) :
              /\ Len(D) = Len(s) - k
              /\ \A i \in 1..Len(s) : s[i] + Window <= v1 => i <= k
        BY <2>1, <2>2, Pruned
    <2> HIDE DEF D, s, q
    <2>5. 1 \in 1..Len(s) /\ s[1] \in Nat
        BY <2>2, <2>3
    <2>6. s[1] + Window <= v1
        BY <1>2, <2>1, <2>2, <2>3, <2>5
    <2>7. 1 <= k
        BY <2>4, <2>5, <2>6
    <2>8. ~(Len(D) >= q)
        BY <2>2, <2>3, <2>4, <2>7
    <2> QED
        BY <2>8 DEF Limits!full, D, q
<1> QED
    BY <1>1, <1>2 DEF Limits!QuotaHolds

\* No window of time lets more calls through than the quota, and a user who was
\* refused and comes back when told is not refused by the own window again.
THEOREM QuotaAlwaysHolds == Spec => []QuotaHolds
<1> DEFINE I == part = "limiter" => LimiterInv
<1>1. Init => I
    BY LimiterInit
<1>2. I /\ [Next]_allVars => I'
    <2> SUFFICES ASSUME I, [Next]_allVars, part' = "limiter" PROVE LimiterInv'
        OBVIOUS
    <2>1. part = "limiter"
        BY DEF Next, allVars
    <2>2. LimiterInv /\ (Limits!Next \/ UNCHANGED <<v1, v2, v3, v4>>)
        BY <2>1, LimiterSteps
    <2>3. CASE Limits!Next
        BY <2>2, <2>3, LimiterTick, LimiterCheck, LimiterRestart DEF Limits!Next
    <2>4. CASE UNCHANGED <<v1, v2, v3, v4>>
        BY <2>2, <2>4 DEF LimiterInv, LimiterTypes, KeyHolds, ToldRight, Limits!Keys, Limits!Quota, Tailed, Ordered, Spaced
    <2> QED
        BY <2>2, <2>3, <2>4
<1>3. I => QuotaHolds
    BY LimiterHolds DEF QuotaHolds
<1> HIDE DEF I
<1> QED
    BY <1>1, <1>2, <1>3, PTL DEF Spec, allVars

-------------------------------------------------------------------------------
(* The records of an account: v1 is the users row, v2 the other rows, v3    *)
(* the attachments, v5 the requests under way, v6 the step of the erasure.  *)

LEMMA RecordsSteps ==
    ASSUME [Next]_allVars, part = "records"
    PROVE  part' = "records" /\ (Account!Next \/ UNCHANGED <<v1, v2, v3, v4, v5, v6, past>>)
BY DEF Next, allVars

FileStates == {"none", "asked", "signed", "stored", "claimed", "orphan"}

RecordsTypes ==
    /\ v1 \in BOOLEAN /\ v2 \in SUBSET Account!Ops /\ v5 \in SUBSET Account!Ops
    /\ v3 \in [Files -> FileStates] /\ v6 \in 0..8
    /\ past \in [faults : Nat, failed : BOOLEAN, late : BOOLEAN]

\* What the erasure has behind it is gone, in its order.
Behind ==
    /\ v6 > 1 => \A f \in Files : v3[f] \in {"none", "asked", "signed"}
    /\ v6 > 2 => "receipt" \notin v2
    /\ v6 > 4 => "event" \notin v2
    /\ v6 > 5 => "trip" \notin v2
    /\ v6 > 6 => "push_token" \notin v2

\* The receipts are found by the token: there are none without it, and one that
\* is still to be written has it, or comes too late.
ReceiptsFound ==
    /\ "receipt" \in v2 => "push_token" \in v2
    /\ "receipt" \in v5 => "push_token" \in v2 \/ v6 > 6

RecordsInv ==
    /\ RecordsTypes
    /\ ~v1 => v6 = 8
    /\ ~past.failed /\ ~past.late => Behind /\ ReceiptsFound

\* The order of the erasure, item by item.
LEMMA Order ==
    /\ Account!eraseOrder[1] = "objects" /\ Account!eraseOrder[2] = "receipt" /\ Account!eraseOrder[3] = "notes"
    /\ Account!eraseOrder[4] = "event" /\ Account!eraseOrder[5] = "trip" /\ Account!eraseOrder[6] = "push_token"
    /\ Account!eraseOrder[7] = "users"
BY DEF Account!eraseOrder

LEMMA Wiped ==
    ASSUME v6 \in 0..8
    PROVE  /\ v6 > 1 => "objects" \in Account!wiped
           /\ v6 > 2 => "receipt" \in Account!wiped
           /\ v6 > 3 => "notes" \in Account!wiped
           /\ v6 > 4 => "event" \in Account!wiped
           /\ v6 > 5 => "trip" \in Account!wiped
           /\ v6 > 6 => "push_token" \in Account!wiped
<1>1. \A i \in 1..7 : v6 > i => Account!eraseOrder[i] \in Account!wiped
    BY DEF Account!wiped
<1> QED
    BY <1>1, Order

LEMMA RecordsInit == Init /\ part = "records" => RecordsInv
<1> SUFFICES ASSUME Account!Init PROVE RecordsInv
    BY DEF Init
<1> QED
    BY DEF Account!Init, RecordsInv, RecordsTypes, Behind, ReceiptsFound, FileStates

LEMMA RecordsFaults ==
    ASSUME RecordsTypes
    PROVE  /\ Account!Fault => /\ past' \in [faults : Nat, failed : BOOLEAN, late : BOOLEAN]
                               /\ past'.failed = past.failed /\ past'.late = past.late
           /\ Account!Faulty("failed") => past' \in [faults : Nat, failed : BOOLEAN, late : BOOLEAN] /\ past'.failed
<1>1. past \in [faults : Nat, failed : BOOLEAN, late : BOOLEAN]
    BY DEF RecordsTypes
<1>2. \A n \in Nat : LET p == [past EXCEPT !.faults = n]
                     IN  /\ p \in [faults : Nat, failed : BOOLEAN, late : BOOLEAN]
                         /\ p.failed = past.failed /\ p.late = past.late
    BY <1>1
<1>3. \A n \in Nat : LET p == [past EXCEPT !.faults = n, !["failed"] = TRUE]
                     IN  p \in [faults : Nat, failed : BOOLEAN, late : BOOLEAN] /\ p.failed
    BY <1>1
<1>4. past.faults + 1 \in Nat
    BY <1>1
<1> QED
    BY <1>2, <1>3, <1>4 DEF Account!Fault, Account!Faulty

LEMMA RecordsLate ==
    ASSUME RecordsTypes, NEW b \in BOOLEAN, past' = [past EXCEPT !["late"] = past["late"] \/ b]
    PROVE  /\ past' \in [faults : Nat, failed : BOOLEAN, late : BOOLEAN]
           /\ past'.failed = past.failed /\ past'.late = (past.late \/ b)
<1>1. past \in [faults : Nat, failed : BOOLEAN, late : BOOLEAN] /\ past.late \in BOOLEAN
    BY DEF RecordsTypes
<1> DEFINE c == past.late \/ b
<1>2. c \in BOOLEAN
    OBVIOUS
<1>3. past' = [past EXCEPT !.late = c]
    OBVIOUS
<1> HIDE DEF c
<1>4. past' \in [faults : Nat, failed : BOOLEAN, late : BOOLEAN] /\ past'.failed = past.failed /\ past'.late = c
    BY <1>1, <1>2, <1>3
<1> QED
    BY <1>4 DEF c

LEMMA RecordsErase ==
    ASSUME RecordsInv, Account!EraseStep
    PROVE  RecordsInv'
<1>1. v6 \in 1..7 /\ v6' = v6 + 1 /\ v5' = v5
    BY DEF Account!EraseStep
<1>2. CASE v6 < 7 /\ Account!Faulty("failed") /\ UNCHANGED <<v1, v2, v3>>
    BY <1>1, <1>2, RecordsFaults DEF RecordsInv, RecordsTypes
<1>3. CASE Account!Wipe(Account!eraseOrder[v6]) /\ past' = past
    <2> DEFINE what == Account!eraseOrder[v6]
    <2>1. /\ v2' = IF what = "receipt" /\ "push_token" \notin v2 THEN v2 ELSE v2 \ {what}
          /\ \A f \in Files : v3'[f] = CASE what = "objects" /\ v3[f] \in {"stored", "claimed", "orphan"} -> "none"
                                         [] what = "notes" /\ v3[f] = "claimed" -> "orphan"
                                         [] OTHER -> v3[f]
          /\ v3' = [f \in Files |-> v3'[f]]
          /\ v1' = (what # "users")
        BY <1>3 DEF Account!Wipe
    <2>2. /\ v6 = 1 => what = "objects"
          /\ v6 = 2 => what = "receipt"
          /\ v6 = 3 => what = "notes"
          /\ v6 = 4 => what = "event"
          /\ v6 = 5 => what = "trip"
          /\ v6 = 6 => what = "push_token"
          /\ v6 = 7 => what = "users"
        BY Order
    <2> HIDE DEF what
    <2>3. \A f \in Files : v3[f] \in FileStates
        BY DEF RecordsInv, RecordsTypes
    <2>4. \A f \in Files : v3'[f] \in FileStates
        BY <2>1, <2>3 DEF FileStates
    <2>5. RecordsTypes'
        <3>1. v2' \in SUBSET Account!Ops /\ v5' \in SUBSET Account!Ops
            BY <1>1, <2>1 DEF RecordsInv, RecordsTypes
        <3>2. v3' \in [Files -> FileStates]
            BY <2>1, <2>4
        <3>3. v1' \in BOOLEAN /\ v6' \in 0..8
            BY <1>1, <2>1
        <3> QED
            BY <1>3, <3>1, <3>2, <3>3 DEF RecordsInv, RecordsTypes
    <2>6. ~v1' => v6' = 8
        <3>1. what = "users" => v6 = 7
            BY <1>1, <2>2
        <3>2. ~v1' => what = "users"
            BY <2>1
        <3>3. v6 = 7 => v6' = 8
            BY <1>1
        <3> QED
            BY <3>1, <3>2, <3>3
    <2>7. ASSUME ~past.failed, ~past.late PROVE Behind' /\ ReceiptsFound'
        <3>1. Behind /\ ReceiptsFound
            BY <2>7 DEF RecordsInv
        <3>2. v6' > 1 => \A f \in Files : v3'[f] \in {"none", "asked", "signed"}
            <4>1. CASE v6 = 1
                BY <2>1, <2>2, <2>3, <4>1 DEF FileStates
            <4>2. CASE v6 > 1
                BY <2>1, <2>3, <3>1, <4>2 DEF FileStates, Behind
            <4> QED
                BY <1>1, <4>1, <4>2
        <3>3. v6' > 2 => "receipt" \notin v2'
            BY <1>1, <2>1, <2>2, <3>1 DEF Behind, ReceiptsFound
        <3>4. (v6' > 4 => "event" \notin v2') /\ (v6' > 5 => "trip" \notin v2') /\ (v6' > 6 => "push_token" \notin v2')
            BY <1>1, <2>1, <2>2, <3>1 DEF Behind
        <3>5. ReceiptsFound'
            <4>1. v6 < 6 => ("push_token" \in v2' <=> "push_token" \in v2)
                BY <1>1, <2>1, <2>2
            <4>2. "receipt" \in v2' => "receipt" \in v2
                BY <2>1
            <4> QED
                BY <1>1, <2>1, <2>2, <3>1, <3>3, <4>1, <4>2 DEF ReceiptsFound
        <3> QED
            BY <3>2, <3>3, <3>4, <3>5 DEF Behind
    <2> QED
        BY <1>3, <2>5, <2>6, <2>7 DEF RecordsInv
<1> QED
    BY <1>2, <1>3 DEF Account!EraseStep

LEMMA RecordsRows ==
    ASSUME RecordsInv, NEW what \in Account!Ops, Account!Begin(what) \/ Account!Write(what)
    PROVE  RecordsInv'
<1>0. v6 \in 0..8 /\ RecordsTypes
    BY DEF RecordsInv, RecordsTypes
<1>1. CASE Account!Begin(what)
    <2>1. /\ v5' = v5 \cup {what} /\ (what = "receipt" => "push_token" \in v2)
          /\ UNCHANGED <<v1, v2, v3, v4, v6, past>>
        BY <1>1 DEF Account!Begin
    <2> QED
        BY <2>1 DEF RecordsInv, RecordsTypes, Behind, ReceiptsFound
<1>2. CASE Account!Write(what)
    <2> DEFINE c == what \in Account!wiped
    <2>1. /\ v5' = v5 \ {what} /\ v2' = v2 \cup {what} /\ what \in v5
          /\ UNCHANGED <<v1, v3, v4, v6>>
        BY <1>2 DEF Account!Write
    <2>2. /\ past' \in [faults : Nat, failed : BOOLEAN, late : BOOLEAN]
          /\ past'.failed = past.failed /\ past'.late = (past.late \/ c)
        <3>1. c \in BOOLEAN
            OBVIOUS
        <3>2. past' = [past EXCEPT !["late"] = past["late"] \/ c]
            BY <1>2 DEF Account!Write, Account!Excused
        <3> HIDE DEF c
        <3> QED
            BY <1>0, <3>1, <3>2, RecordsLate
    <2>3. RecordsTypes'
        BY <2>1, <2>2 DEF RecordsInv, RecordsTypes
    <2>4. ASSUME ~past'.failed, ~past'.late PROVE Behind' /\ ReceiptsFound'
        <3>1. ~c /\ Behind /\ ReceiptsFound
            BY <2>2, <2>4 DEF RecordsInv
        <3>2. /\ what = "receipt" => ~(v6 > 2)
              /\ what = "event" => ~(v6 > 4)
              /\ what = "trip" => ~(v6 > 5)
              /\ what = "push_token" => ~(v6 > 6)
            BY <1>0, <3>1, Wiped
        <3>3. Behind'
            BY <1>0, <2>1, <3>1, <3>2 DEF Behind
        <3>4. ReceiptsFound'
            BY <1>0, <2>1, <3>1, <3>2 DEF ReceiptsFound
        <3> QED
            BY <3>3, <3>4
    <2> QED
        BY <2>1, <2>3, <2>4 DEF RecordsInv
<1> QED
    BY <1>1, <1>2

\* A file goes to a state in which the erasure need not find it, or before the
\* erasure looks for it, or late.
LEMMA RecordsFiles ==
    ASSUME RecordsInv, NEW f \in Files, NEW s \in FileStates, Account!Goes(f, s), UNCHANGED <<v1, v2, v5, v6>>,
           past' \in [faults : Nat, failed : BOOLEAN, late : BOOLEAN],
           past.failed => past'.failed, past.late => past'.late,
           s \in {"stored", "claimed", "orphan"} =>
               v3[f] \in {"stored", "claimed", "orphan"} \/ ~(v6 > 1) \/ past'.late
    PROVE  RecordsInv'
<1>1. v3' = [v3 EXCEPT ![f] = s] /\ v3 \in [Files -> FileStates]
    BY DEF Account!Goes, RecordsInv, RecordsTypes
<1>2. RecordsTypes'
    BY <1>1 DEF RecordsInv, RecordsTypes
<1>3. ASSUME ~past'.failed, ~past'.late PROVE Behind' /\ ReceiptsFound'
    <2>1. Behind /\ ReceiptsFound
        BY <1>3 DEF RecordsInv
    <2>2. ASSUME v6 > 1, NEW g \in Files PROVE v3'[g] \in {"none", "asked", "signed"}
        BY <1>1, <1>3, <2>1, <2>2 DEF Behind, FileStates
    <2> QED
        BY <2>1, <2>2 DEF Behind, ReceiptsFound
<1> QED
    BY <1>2, <1>3 DEF RecordsInv

LEMMA RecordsUploads ==
    ASSUME RecordsInv, NEW f \in Files,
           \/ Account!AskUpload(f) \/ Account!presign_upload(f) \/ Account!Upload(f) \/ Account!SaveNote(f)
           \/ Account!DeleteNote(f) \/ Account!delete_attachment(f)
    PROVE  RecordsInv'
<1>0. RecordsTypes /\ v6 \in 0..8 /\ past \in [faults : Nat, failed : BOOLEAN, late : BOOLEAN]
    BY DEF RecordsInv, RecordsTypes
<1>1. CASE Account!AskUpload(f)
    <2>1. UNCHANGED <<v1, v2, v5, v6>> /\ Account!Goes(f, "asked") /\ (past' = past \/ Account!Fault)
        BY <1>1 DEF Account!AskUpload
    <2> QED
        BY <1>0, <2>1, RecordsFaults, RecordsFiles DEF FileStates
<1>2. CASE Account!presign_upload(f)
    <2>1. \E s \in {"signed", "none"} : Account!Goes(f, s) /\ UNCHANGED <<v1, v2, v5, v6, past>>
        BY <1>2 DEF Account!presign_upload
    <2> QED
        BY <1>0, <2>1, RecordsFiles DEF FileStates
<1>3. CASE Account!Upload(f)
    <2>1. UNCHANGED <<v1, v2, v5, v6>>
        BY <1>3 DEF Account!Upload
    <2>2. CASE Account!Goes(f, "none") /\ past' = past
        BY <1>0, <2>1, <2>2, RecordsFiles DEF FileStates
    <2>3. CASE Account!Goes(f, "stored") /\ Account!Excused("late", "objects" \in Account!wiped)
        <3> DEFINE b == "objects" \in Account!wiped
        <3>1. /\ past' \in [faults : Nat, failed : BOOLEAN, late : BOOLEAN]
              /\ past'.failed = past.failed /\ past'.late = (past.late \/ b)
            <4>1. b \in BOOLEAN
                OBVIOUS
            <4>2. past' = [past EXCEPT !["late"] = past["late"] \/ b]
                BY <2>3 DEF Account!Excused
            <4> HIDE DEF b
            <4> QED
                BY <1>0, <4>1, <4>2, RecordsLate
        <3>2. v6 > 1 => past'.late
            BY <1>0, <3>1, Wiped
        <3> QED
            BY <2>1, <2>3, <3>1, <3>2, RecordsFiles DEF FileStates
    <2> QED
        BY <1>3, <2>2, <2>3 DEF Account!Upload
<1>4. CASE Account!SaveNote(f)
    <2>1. UNCHANGED <<v1, v2, v5, v6>> /\ v3[f] = "stored"
        BY <1>4 DEF Account!SaveNote
    <2>2. CASE Account!Goes(f, "orphan") /\ past' = past
        BY <1>0, <2>1, <2>2, RecordsFiles DEF FileStates
    <2>3. CASE Account!Goes(f, "claimed") /\ Account!Excused("late", "notes" \in Account!wiped)
        <3> DEFINE b == "notes" \in Account!wiped
        <3>1. /\ past' \in [faults : Nat, failed : BOOLEAN, late : BOOLEAN]
              /\ past'.failed = past.failed /\ past'.late = (past.late \/ b)
            <4>1. b \in BOOLEAN
                OBVIOUS
            <4>2. past' = [past EXCEPT !["late"] = past["late"] \/ b]
                BY <2>3 DEF Account!Excused
            <4> HIDE DEF b
            <4> QED
                BY <1>0, <4>1, <4>2, RecordsLate
        <3> QED
            BY <2>1, <2>3, <3>1, RecordsFiles DEF FileStates
    <2> QED
        BY <1>4, <2>2, <2>3 DEF Account!SaveNote
<1>5. CASE Account!DeleteNote(f)
    BY <1>0, <1>5, RecordsFiles DEF Account!DeleteNote, FileStates
<1>6. CASE Account!delete_attachment(f)
    BY <1>0, <1>6, RecordsFiles DEF Account!delete_attachment, FileStates
<1> QED
    BY <1>1, <1>2, <1>3, <1>4, <1>5, <1>6

LEMMA RecordsRestart ==
    ASSUME RecordsInv, Account!Restart
    PROVE  RecordsInv'
<1>1. /\ v5' = {} /\ v6' = (IF v1 THEN 0 ELSE v6) /\ v1' = v1 /\ v2' = v2
      /\ v3' = [f \in Files |-> IF v3[f] = "asked" THEN "none" ELSE v3[f]]
    BY DEF Account!Restart
<1>2. /\ past' \in [faults : Nat, failed : BOOLEAN, late : BOOLEAN]
      /\ past'.failed = past.failed /\ past'.late = past.late
    BY RecordsFaults DEF RecordsInv, Account!Restart
<1>3. RecordsTypes'
    BY <1>1, <1>2 DEF RecordsInv, RecordsTypes, FileStates
<1> QED
    BY <1>1, <1>2, <1>3 DEF RecordsInv, Behind, ReceiptsFound

\* An account that is gone has left nothing, wherever a restart cut an erasure
\* before, unless a collection failed or a request wrote what was wiped before.
THEOREM ErasureIsWhole == Spec => []ErasedLeavesNothing
<1> DEFINE I == part = "records" => RecordsInv
<1>1. Init => I
    BY RecordsInit
<1>2. I /\ [Next]_allVars => I'
    <2> SUFFICES ASSUME I, [Next]_allVars, part' = "records" PROVE RecordsInv'
        OBVIOUS
    <2>1. part = "records"
        BY DEF Next, allVars
    <2>2. RecordsInv /\ (Account!Next \/ UNCHANGED <<v1, v2, v3, v4, v5, v6, past>>)
        BY <2>1, RecordsSteps
    <2>3. CASE Account!startErase
        BY <2>2, <2>3 DEF Account!startErase, RecordsInv, RecordsTypes, Behind, ReceiptsFound
    <2>4. CASE UNCHANGED <<v1, v2, v3, v4, v5, v6, past>>
        BY <2>2, <2>4 DEF RecordsInv, RecordsTypes, Behind, ReceiptsFound
    <2> QED
        BY <2>2, <2>3, <2>4, RecordsErase, RecordsRows, RecordsUploads, RecordsRestart DEF Account!Next
<1>3. I => ErasedLeavesNothing
    <2> SUFFICES ASSUME RecordsInv, ~v1, ~past.failed, ~past.late
                 PROVE  v2 = {} /\ \A f \in Files : v3[f] \notin {"stored", "claimed", "orphan"}
        BY DEF ErasedLeavesNothing, Account!ErasedLeavesNothing
    <2> QED
        BY DEF RecordsInv, RecordsTypes, Behind, Account!Ops
<1> HIDE DEF I
<1> QED
    BY <1>1, <1>2, <1>3, PTL DEF Spec, allVars

-------------------------------------------------------------------------------
(* Canva: v1 is _pending_states, v2 the callbacks under way, v3 the tokens   *)
(* in the users' rows, v4 the requests, v5 the good refresh tokens.          *)

LinkTokens == [grant : 1..MaxGrants, n : Nat, fresh : BOOLEAN]
LinkSent   == [pc : {"asking", "answered"}, user : Users, token : LinkTokens]

LinkTypes ==
    /\ \A s \in v1 : s.user \in Users
    /\ v2 \in SUBSET [user : Users, grant : 1..MaxGrants]
    /\ v3 \in [Users -> LinkTokens \cup {Link!None}]
    /\ v4 \in [1..2 -> LinkSent \cup {Link!Idle}]
    /\ v5 \in [1..MaxGrants -> Nat]
    /\ past \in [links : Nat, grants : Nat, faults : Nat, wanted : [Users -> BOOLEAN],
                 crossed : SUBSET Users, failed : SUBSET Users]

\* A grant is used by one user, and before its callback ends by nobody.
LinkGrants ==
    /\ \A c \in v2 : /\ c.grant <= past.grants /\ v5[c.grant] = 1
                     /\ \A e \in v2 : c.grant = e.grant => c = e
                     /\ \A u \in Users : v3[u].grant # c.grant
                     /\ \A r \in 1..2 : v4[r].token.grant # c.grant
    /\ \A u \in Users : v3[u].grant <= past.grants
    /\ \A u, w \in Users : v3[u].grant = v3[w].grant /\ v3[u] # Link!None => u = w
    /\ \A r \in 1..2 : /\ v4[r].token.grant <= past.grants
                       /\ v4[r].pc # "idle" => \A u \in Users : v4[r].token.grant = v3[u].grant => v4[r].user = u
    /\ \A q, r \in 1..2 : v4[q].pc # "idle" /\ v4[r].pc # "idle" /\ v4[q].token.grant = v4[r].token.grant
                              => v4[q].user = v4[r].user

LinkBusy(r, u) == v4[r].pc # "idle" /\ v4[r].user = u

\* The steps of a user that have not crossed are one at a time.
LinkOneStep(u) ==
    /\ \A c, e \in v2 : c.user = u /\ e.user = u => c = e
    /\ \A c \in v2, r \in 1..2 : c.user = u => ~LinkBusy(r, u)
    /\ \A q, r \in 1..2 : LinkBusy(q, u) /\ LinkBusy(r, u) => q = r

\* A refresh on its way has the good token of a connection that is wanted.
LinkConnected(u) ==
    /\ (\A c \in v2 : c.user # u) /\ (\A r \in 1..2 : ~LinkBusy(r, u)) =>
           /\ v3[u] # Link!None <=> past.wanted[u]
           /\ v3[u] # Link!None => v5[v3[u].grant] = v3[u].n
    /\ \A r \in 1..2 : LinkBusy(r, u) =>
           past.wanted[u] /\ v3[u] # Link!None /\ v5[v4[r].token.grant] = v4[r].token.n

LinkUser(u) ==
    u \notin past.crossed => LinkOneStep(u) /\ (u \notin past.failed => LinkConnected(u))

LinkInv == LinkTypes /\ LinkGrants /\ \A u \in Users : LinkUser(u)

LEMMA LinkSteps ==
    ASSUME [Next]_allVars, part = "canva"
    PROVE  part' = "canva" /\ (Link!Next \/ UNCHANGED <<v1, v2, v3, v4, v5, past>>)
BY DEF Next, allVars

LEMMA LinkInit == Init /\ part = "canva" => LinkInv
<1> SUFFICES ASSUME Link!Init PROVE LinkInv
    BY DEF Init
<1>1. LinkTypes
    BY DEF Link!Init, LinkTypes
<1>2. LinkGrants
    BY DEF Link!Init, LinkGrants, Link!None, Link!Idle
<1>3. ASSUME NEW u \in Users PROVE LinkUser(u)
    BY <1>3 DEF Link!Init, LinkUser, LinkOneStep, LinkConnected, LinkBusy, Link!None, Link!Idle
<1> QED
    BY <1>1, <1>2, <1>3 DEF LinkInv

\* What the types say of a row, a request and a callback.
LEMMA LinkShapes ==
    ASSUME LinkTypes
    PROVE  /\ \A u \in Users : \/ v3[u] = Link!None /\ v3[u].grant = 0
                               \/ v3[u] # Link!None /\ v3[u] \in LinkTokens /\ v3[u].grant > 0
           /\ \A r \in 1..2 : \/ v4[r] = Link!Idle /\ v4[r].pc = "idle" /\ v4[r].token.grant = 0
                              \/ v4[r] \in LinkSent /\ v4[r].pc # "idle" /\ v4[r].token.grant > 0
           /\ \A c \in v2 : c.user \in Users /\ c.grant \in 1..MaxGrants
           /\ past.grants \in Nat /\ past.wanted \in [Users -> BOOLEAN]
           /\ past.crossed \in SUBSET Users /\ past.failed \in SUBSET Users
<1>1. Link!None.grant = 0 /\ Link!Idle.pc = "idle" /\ Link!Idle.token.grant = 0
    BY DEF Link!None, Link!Idle
<1>2. \A t \in LinkTokens : t.grant > 0 /\ t # Link!None
    BY <1>1 DEF LinkTokens
<1>3. \A s \in LinkSent : s.pc # "idle" /\ s.token.grant > 0
    BY <1>2 DEF LinkSent
<1>4. \A u \in Users : v3[u] \in LinkTokens \cup {Link!None}
    BY DEF LinkTypes
<1>5. \A r \in 1..2 : v4[r] \in LinkSent \cup {Link!Idle}
    BY DEF LinkTypes
<1>6. \A c \in v2 : c.user \in Users /\ c.grant \in 1..MaxGrants
    BY DEF LinkTypes
<1>7. /\ past.grants \in Nat /\ past.wanted \in [Users -> BOOLEAN]
      /\ past.crossed \in SUBSET Users /\ past.failed \in SUBSET Users
    BY DEF LinkTypes
<1> QED
    BY <1>1, <1>2, <1>3, <1>4, <1>5, <1>6, <1>7

\* A user whose row, steps and tokens a step does not touch.
LEMMA LinkOthers ==
    ASSUME LinkTypes, NEW u \in Users, LinkUser(u),
           v3'[u] = v3[u], past'.wanted[u] = past.wanted[u],
           u \in past.crossed => u \in past'.crossed, u \in past.failed => u \in past'.failed,
           \A c : c \in v2' /\ c.user = u <=> c \in v2 /\ c.user = u,
           \A r \in 1..2 : LinkBusy(r, u)' <=> LinkBusy(r, u),
           \A r \in 1..2 : LinkBusy(r, u) =>
               v4'[r] = v4[r] /\ v5'[v4[r].token.grant] = v5[v4[r].token.grant],
           v3[u] # Link!None => v5'[v3[u].grant] = v5[v3[u].grant]
    PROVE  LinkUser(u)'
<1>1. LinkOneStep(u) => LinkOneStep(u)'
    BY DEF LinkOneStep
<1>2. LinkConnected(u) => LinkConnected(u)'
    BY DEF LinkConnected
<1> QED
    BY <1>1, <1>2 DEF LinkUser

LinkPasts == [links : Nat, grants : Nat, faults : Nat, wanted : [Users -> BOOLEAN],
              crossed : SUBSET Users, failed : SUBSET Users]

\* What the steps write into `past'.
LEMMA LinkPast ==
    ASSUME past \in LinkPasts
    PROVE  /\ \A n \in Nat : LET p == [past EXCEPT !.links = n]
              IN  /\ p \in LinkPasts /\ p.grants = past.grants /\ p.wanted = past.wanted
                  /\ p.crossed = past.crossed /\ p.failed = past.failed
           /\ \A n \in Nat, C \in SUBSET Users : LET p == [past EXCEPT !.grants = n, !.crossed = C]
              IN  p \in LinkPasts /\ p.grants = n /\ p.wanted = past.wanted /\ p.crossed = C /\ p.failed = past.failed
           /\ \A W \in [Users -> BOOLEAN], F, C \in SUBSET Users :
              LET p == [past EXCEPT !.wanted = W, !.failed = F, !.crossed = C]
              IN  p \in LinkPasts /\ p.grants = past.grants /\ p.wanted = W /\ p.crossed = C /\ p.failed = F
           /\ \A W \in [Users -> BOOLEAN], C \in SUBSET Users : LET p == [past EXCEPT !.wanted = W, !.crossed = C]
              IN  p \in LinkPasts /\ p.grants = past.grants /\ p.wanted = W /\ p.crossed = C /\ p.failed = past.failed
           /\ \A C \in SUBSET Users : LET p == [past EXCEPT !.crossed = C]
              IN  /\ p \in LinkPasts /\ p.grants = past.grants /\ p.wanted = past.wanted
                  /\ p.crossed = C /\ p.failed = past.failed
           /\ \A n \in Nat, F \in SUBSET Users : LET p == [past EXCEPT !.faults = n, !.failed = F]
              IN  /\ p \in LinkPasts /\ p.grants = past.grants /\ p.wanted = past.wanted
                  /\ p.crossed = past.crossed /\ p.failed = F
BY DEF LinkPasts

LEMMA LinkPastType == LinkTypes => past \in LinkPasts /\ past.links + 1 \in Nat /\ past.grants + 1 \in Nat /\ past.faults + 1 \in Nat
BY DEF LinkTypes, LinkPasts

\* A step that changes nothing but the states and what `past' counts.
LEMMA LinkStill ==
    ASSUME LinkInv, UNCHANGED <<v2, v3, v4, v5>>, past' \in LinkPasts, past'.grants = past.grants,
           past'.wanted = past.wanted, past'.crossed = past.crossed, past'.failed = past.failed,
           \A s \in v1' : s.user \in Users
    PROVE  LinkInv'
<1>1. LinkTypes'
    BY DEF LinkInv, LinkTypes, LinkPasts
<1>2. LinkGrants'
    BY DEF LinkInv, LinkGrants
<1>3. ASSUME NEW u \in Users PROVE LinkUser(u)'
    BY DEF LinkInv, LinkUser, LinkOneStep, LinkConnected, LinkBusy
<1> QED
    BY <1>1, <1>2, <1>3 DEF LinkInv

LEMMA LinkStates ==
    ASSUME LinkInv, \/ \E u \in Users : Link!build_authorize_url(u)
                    \/ \E s \in v1 : Link!Expire(s)
    PROVE  LinkInv'
<1>0. LinkTypes /\ past \in LinkPasts /\ past.links + 1 \in Nat
    BY LinkPastType DEF LinkInv
<1>1. CASE \E u \in Users : Link!build_authorize_url(u)
    <2>1. PICK u \in Users : Link!build_authorize_url(u)
        BY <1>1
    <2>2. \A s \in v1' : s.user \in Users
        BY <1>0, <2>1 DEF Link!build_authorize_url, Link!_cleanup_expired_states, LinkTypes
    <2>3. past' = [past EXCEPT !.links = past.links + 1] /\ UNCHANGED <<v2, v3, v4, v5>>
        BY <2>1 DEF Link!build_authorize_url
    <2> DEFINE n == past.links + 1
    <2>4. n \in Nat /\ past' = [past EXCEPT !.links = n]
        BY <1>0, <2>3
    <2> HIDE DEF n
    <2> DEFINE p == [past EXCEPT !.links = n]
    <2>5. /\ p \in LinkPasts /\ p.grants = past.grants /\ p.wanted = past.wanted
          /\ p.crossed = past.crossed /\ p.failed = past.failed
        BY <1>0, <2>4, LinkPast
    <2> QED
        BY <2>2, <2>3, <2>4, <2>5, LinkStill
<1>2. CASE \E s \in v1 : Link!Expire(s)
    <2>1. PICK s \in v1 : Link!Expire(s)
        BY <1>2
    <2>2. \A x \in v1' : x.user \in Users
        <3>1. [s EXCEPT !.old = TRUE].user = s.user
            OBVIOUS
        <3> QED
            BY <1>0, <2>1, <3>1 DEF Link!Expire, LinkTypes
    <2> QED
        BY <1>0, <2>1, <2>2, LinkStill DEF Link!Expire
<1> QED
    BY <1>1, <1>2

\* Another step of the user is under way.
LEMMA LinkWriting ==
    ASSUME NEW u
    PROVE  /\ Link!Writing(u) <=> (\E c \in v2 : c.user = u) \/ (\E r \in 1..2 : LinkBusy(r, u))
           /\ Link!Crossed(u) = IF Link!Writing(u) THEN past.crossed \cup {u} ELSE past.crossed
           /\ Link!Writing(u)' <=> (\E c \in v2' : c.user = u) \/ (\E r \in 1..2 : LinkBusy(r, u)')
BY DEF Link!Writing, Link!Crossed, LinkBusy

LEMMA LinkExchange ==
    ASSUME LinkInv, NEW s \in v1, Link!exchange_code(s.id)
    PROVE  LinkInv'
<1>0. LinkTypes /\ past \in LinkPasts /\ past.grants + 1 \in Nat /\ LinkGrants /\ \A u \in Users : LinkUser(u)
    BY LinkPastType DEF LinkInv
<1>1. PICK x \in Link!_cleanup_expired_states :
          /\ v1' = Link!_cleanup_expired_states \ {x} /\ UNCHANGED <<v3, v4>>
          /\ \/ /\ past.grants < MaxGrants
                /\ v5' = [v5 EXCEPT ![past.grants + 1] = 1]
                /\ v2' = v2 \cup {[user |-> x.user, grant |-> past.grants + 1]}
                /\ past' = [past EXCEPT !.grants = past.grants + 1, !.crossed = Link!Crossed(x.user)]
             \/ UNCHANGED <<v2, v5, past>>
    BY DEF Link!exchange_code
<1>2. x.user \in Users /\ \A y \in v1' : y.user \in Users
    BY <1>0, <1>1 DEF LinkTypes, Link!_cleanup_expired_states
<1>3. CASE UNCHANGED <<v2, v5, past>>
    BY <1>0, <1>1, <1>2, <1>3, LinkStill
<1>4. CASE /\ past.grants < MaxGrants
           /\ v5' = [v5 EXCEPT ![past.grants + 1] = 1]
           /\ v2' = v2 \cup {[user |-> x.user, grant |-> past.grants + 1]}
           /\ past' = [past EXCEPT !.grants = past.grants + 1, !.crossed = Link!Crossed(x.user)]
    <2> DEFINE g == past.grants + 1
               u == x.user
               C == Link!Crossed(x.user)
    <2>1. g \in Nat /\ g \in 1..MaxGrants /\ g = past.grants + 1
        BY <1>0, <1>4, SomeGrants DEF LinkPasts
    <2>2. C \in SUBSET Users
        BY <1>0, <1>2 DEF Link!Crossed, LinkPasts
    <2>3. past' = [past EXCEPT !.grants = g, !.crossed = C] /\ v5' = [v5 EXCEPT ![g] = 1]
          /\ v2' = v2 \cup {[user |-> u, grant |-> g]}
        BY <1>4
    <2>4. u \in Users /\ C = IF Link!Writing(u) THEN past.crossed \cup {u} ELSE past.crossed
        BY <1>2 DEF Link!Crossed
    <2> HIDE DEF g, u, C
    <2> DEFINE p == [past EXCEPT !.grants = g, !.crossed = C]
    <2>p. p \in LinkPasts /\ p.grants = g /\ p.wanted = past.wanted /\ p.crossed = C /\ p.failed = past.failed
        BY <1>0, <2>1, <2>2 DEF LinkPasts
    <2>5. /\ past' \in LinkPasts /\ past'.grants = g /\ past'.wanted = past.wanted /\ past'.crossed = C
          /\ past'.failed = past.failed
        BY <2>3, <2>p
    <2> HIDE DEF p
    <2>6. LinkTypes'
        <3>1. v5' \in [1..MaxGrants -> Nat] /\ v2' \in SUBSET [user : Users, grant : 1..MaxGrants]
            BY <1>0, <2>1, <2>3, <2>4 DEF LinkTypes
        <3> QED
            BY <1>0, <1>1, <1>2, <2>5, <3>1 DEF LinkTypes, LinkPasts
    <2>7. /\ \A y \in Users : v3[y].grant <= past.grants /\ v3[y].grant \in Nat
          /\ \A r \in 1..2 : v4[r].token.grant <= past.grants /\ v4[r].token.grant \in Nat
          /\ \A c \in v2 : c.grant <= past.grants /\ c.grant \in Nat
        <3>1. /\ \A t \in LinkTokens \cup {Link!None} : t.grant \in Nat
              /\ \A t \in LinkSent \cup {Link!Idle} : t.token.grant \in Nat
            BY DEF LinkTokens, LinkSent, Link!None, Link!Idle
        <3> QED
            BY <1>0, <3>1 DEF LinkTypes, LinkGrants
    <2>8. v5'[g] = 1 /\ \A i \in 1..MaxGrants : i # g => v5'[i] = v5[i]
        BY <1>0, <2>1, <2>3 DEF LinkTypes
    <2>9. past.grants \in Nat
        BY <1>0 DEF LinkPasts
    <2>10. LinkGrants'
        <3> DEFINE e == [user |-> u, grant |-> g]
        <3>1. e.grant = g /\ v2' = v2 \cup {e}
            BY <2>3
        <3> HIDE DEF e
        <3>2. \A c \in v2 : c.grant <= past.grants /\ c.grant # g /\ v5'[c.grant] = v5[c.grant]
            <4>1. \A c \in v2 : c.grant \in 1..MaxGrants
                BY <1>0, LinkShapes
            <4> QED
                BY <2>1, <2>7, <2>8, <2>9, <4>1
        <3>3. \A c \in v2' : c = e \/ c \in v2
            BY <3>1
        <3>4. \A y \in Users : v3[y].grant # g /\ v3[y].grant <= g
            BY <2>1, <2>7, <2>9
        <3>5. \A r \in 1..2 : v4[r].token.grant # g /\ v4[r].token.grant <= g
            BY <2>1, <2>7, <2>9
        <3>6. \A c \in v2' : /\ c.grant <= g /\ v5'[c.grant] = 1
                             /\ \A d \in v2' : c.grant = d.grant => c = d
                             /\ \A y \in Users : v3[y].grant # c.grant
                             /\ \A r \in 1..2 : v4[r].token.grant # c.grant
            <4>1. ASSUME NEW c \in v2' PROVE c.grant <= g /\ v5'[c.grant] = 1
                <5>1. g <= g
                    BY <2>1
                <5>2. c \in v2 => c.grant <= past.grants /\ v5[c.grant] = 1 /\ v5'[c.grant] = v5[c.grant]
                    BY <1>0, <3>2 DEF LinkGrants
                <5>3. c \in v2 => c.grant <= g
                    BY <2>1, <2>7, <2>9, <5>2
                <5> QED
                    BY <2>8, <3>1, <3>3, <5>1, <5>2, <5>3
            <4>2. ASSUME NEW c \in v2', NEW d \in v2', c.grant = d.grant PROVE c = d
                BY <1>0, <3>1, <3>2, <3>3, <4>2 DEF LinkGrants
            <4>3. ASSUME NEW c \in v2' PROVE /\ \A y \in Users : v3[y].grant # c.grant
                                             /\ \A r \in 1..2 : v4[r].token.grant # c.grant
                BY <1>0, <3>1, <3>3, <3>4, <3>5 DEF LinkGrants
            <4> QED
                BY <4>1, <4>2, <4>3
        <3> QED
            BY <1>0, <1>1, <2>5, <3>4, <3>5, <3>6 DEF LinkGrants
    <2>11. ASSUME NEW w \in Users, w # u PROVE LinkUser(w)'
        <3>1. \A c : c \in v2' /\ c.user = w <=> c \in v2 /\ c.user = w
            BY <2>3, <2>11
        <3>2. /\ \A r \in 1..2 : LinkBusy(r, w) => v5'[v4[r].token.grant] = v5[v4[r].token.grant]
              /\ v3[w] # Link!None => v5'[v3[w].grant] = v5[v3[w].grant]
            <4>1. /\ \A r \in 1..2 : LinkBusy(r, w) => v4[r].token.grant \in 1..MaxGrants
                  /\ v3[w] # Link!None => v3[w].grant \in 1..MaxGrants
                BY <1>0, LinkShapes DEF LinkBusy, LinkSent, LinkTokens
            <4> QED
                BY <2>1, <2>7, <2>8, <2>9, <4>1
        <3>3. w \in past.crossed => w \in past'.crossed
            BY <2>4, <2>5
        <3> QED
            BY <1>0, <1>1, <2>5, <3>1, <3>2, <3>3, LinkOthers DEF LinkBusy
    <2>12. LinkUser(u)'
        <3>1. SUFFICES ASSUME u \notin C PROVE LinkOneStep(u)' /\ LinkConnected(u)'
            BY <2>5 DEF LinkUser
        <3>2. (\A c \in v2 : c.user # u) /\ (\A r \in 1..2 : ~LinkBusy(r, u))
            BY <2>4, <3>1, LinkWriting
        <3>3. \A c \in v2' : c.user = u => c = [user |-> u, grant |-> g]
            BY <2>3, <3>2
        <3>4. \A r \in 1..2 : ~LinkBusy(r, u)'
            BY <1>1, <3>2 DEF LinkBusy
        <3>5. [user |-> u, grant |-> g] \in v2' /\ [user |-> u, grant |-> g].user = u
            BY <2>3
        <3> QED
            BY <3>3, <3>4, <3>5 DEF LinkOneStep, LinkConnected
    <2> QED
        BY <2>6, <2>10, <2>11, <2>12 DEF LinkInv
<1> QED
    BY <1>1, <1>3, <1>4

LEMMA LinkCallback ==
    ASSUME LinkInv, NEW c \in v2, Link!CallbackEnds(c)
    PROVE  LinkInv'
<1>0. LinkTypes /\ past \in LinkPasts /\ LinkGrants /\ \A u \in Users : LinkUser(u)
    BY LinkPastType DEF LinkInv
<1> DEFINE u == c.user
           g == c.grant
           t == [grant |-> c.grant, n |-> 1, fresh |-> TRUE]
           C == IF Link!Writing(c.user)' THEN past.crossed ELSE past.crossed \ {c.user}
           W == [past.wanted EXCEPT ![c.user] = TRUE]
           F == past.failed \ {c.user}
<1>1. u \in Users /\ g \in 1..MaxGrants /\ t \in LinkTokens /\ t.grant = g /\ t.n = 1 /\ t # Link!None
    BY <1>0, LinkShapes DEF LinkTokens, Link!None
<1>2. v2' = v2 \ {c} /\ v3' = [v3 EXCEPT ![u] = t] /\ UNCHANGED <<v1, v4, v5>>
    BY DEF Link!CallbackEnds, Link!_store_tokens, Link!Token
<1>3. C \in SUBSET Users /\ W \in [Users -> BOOLEAN] /\ F \in SUBSET Users
    BY <1>0 DEF LinkPasts
<1>4. past' = [past EXCEPT !.wanted = W, !.failed = F, !.crossed = C]
    BY DEF Link!CallbackEnds
<1>5. W[u] = TRUE /\ \A w \in Users : w # u => W[w] = past.wanted[w]
    BY <1>0, <1>1 DEF LinkPasts
<1>6. F = past.failed \ {u} /\ C = IF Link!Writing(u)' THEN past.crossed ELSE past.crossed \ {u}
    OBVIOUS
<1>7. c.user = u /\ c.grant = g
    OBVIOUS
<1> HIDE DEF u, g, t, C, W, F
<1>8. /\ past' \in LinkPasts /\ past'.grants = past.grants /\ past'.wanted = W /\ past'.crossed = C
      /\ past'.failed = F
    BY <1>0, <1>3, <1>4 DEF LinkPasts
<1>9. v3'[u] = t /\ \A w \in Users : w # u => v3'[w] = v3[w]
    BY <1>0, <1>1, <1>2 DEF LinkTypes
<1>10. LinkTypes'
    <2>1. v3' \in [Users -> LinkTokens \cup {Link!None}]
        BY <1>0, <1>1, <1>2 DEF LinkTypes
    <2>2. v2' \in SUBSET [user : Users, grant : 1..MaxGrants]
        BY <1>0, <1>2 DEF LinkTypes
    <2> QED
        BY <1>0, <1>2, <1>8, <2>1, <2>2 DEF LinkTypes, LinkPasts
<1>11. /\ \A e \in v2' : e \in v2 /\ e.grant # g
       /\ \A w \in Users : w # u => v3[w].grant # g
       /\ \A r \in 1..2 : v4[r].token.grant # g
       /\ g <= past.grants /\ v5[g] = 1
    BY <1>0, <1>2, <1>7 DEF LinkGrants
<1>12. LinkGrants'
    <2>1. \A e \in v2' : /\ e.grant <= past.grants /\ v5[e.grant] = 1
                         /\ \A d \in v2' : e.grant = d.grant => e = d
                         /\ \A w \in Users : v3'[w].grant # e.grant
                         /\ \A r \in 1..2 : v4[r].token.grant # e.grant
        BY <1>0, <1>1, <1>9, <1>11 DEF LinkGrants
    <2>2. \A w \in Users : v3'[w].grant <= past.grants
        BY <1>0, <1>1, <1>9, <1>11 DEF LinkGrants
    <2>3. \A w, y \in Users : v3'[w].grant = v3'[y].grant /\ v3'[w] # Link!None => w = y
        BY <1>0, <1>1, <1>9, <1>11 DEF LinkGrants
    <2>4. \A r \in 1..2 : v4[r].pc # "idle" =>
              \A w \in Users : v4[r].token.grant = v3'[w].grant => v4[r].user = w
        BY <1>0, <1>1, <1>9, <1>11 DEF LinkGrants
    <2> QED
        BY <1>0, <1>2, <1>8, <2>1, <2>2, <2>3, <2>4 DEF LinkGrants
<1>13. ASSUME NEW w \in Users, w # u PROVE LinkUser(w)'
    <2>1. \A e : e \in v2' /\ e.user = w <=> e \in v2 /\ e.user = w
        BY <1>2, <1>7, <1>13
    <2>2. (w \in past.crossed => w \in past'.crossed) /\ (w \in past.failed => w \in past'.failed)
        BY <1>6, <1>8, <1>13
    <2> QED
        BY <1>0, <1>2, <1>5, <1>8, <1>9, <1>13, <2>1, <2>2, LinkOthers DEF LinkBusy
<1>14. LinkUser(u)'
    <2>1. SUFFICES ASSUME u \notin C PROVE LinkOneStep(u)' /\ LinkConnected(u)'
        BY <1>8 DEF LinkUser
    <2>2. (\A e \in v2' : e.user # u) /\ (\A r \in 1..2 : ~LinkBusy(r, u)')
        <3>1. CASE ~Link!Writing(u)'
            BY <3>1, LinkWriting
        <3>2. CASE Link!Writing(u)'
            <4>1. LinkOneStep(u)
                BY <1>0, <1>1, <1>6, <2>1, <3>2 DEF LinkUser
            <4> QED
                BY <1>2, <1>7, <4>1 DEF LinkOneStep, LinkBusy
        <3> QED
            BY <3>1, <3>2
    <2>3. v3'[u] # Link!None /\ past'.wanted[u] /\ v5'[v3'[u].grant] = v3'[u].n
        BY <1>1, <1>2, <1>5, <1>8, <1>9, <1>11
    <2> QED
        BY <2>2, <2>3 DEF LinkOneStep, LinkConnected
<1> QED
    BY <1>10, <1>12, <1>13, <1>14 DEF LinkInv

\* A step that changes the row of a user to no tokens, and what the user wants or
\* what failed.
LEMMA LinkForgets ==
    ASSUME LinkInv, NEW u \in Users, v3' = [v3 EXCEPT ![u] = Link!None], UNCHANGED <<v1, v2, v5>>,
           past' \in LinkPasts, past'.grants = past.grants,
           v4' \in [1..2 -> LinkSent \cup {Link!Idle}],
           \A r \in 1..2 : v4'[r] = v4[r] \/ (v4'[r] = Link!Idle /\ LinkBusy(r, u)),
           \A w \in Users : w # u => /\ past'.wanted[w] = past.wanted[w]
                                     /\ w \in past.crossed => w \in past'.crossed
                                     /\ w \in past.failed => w \in past'.failed,
           LinkUser(u)'
    PROVE  LinkInv'
<1>0. LinkTypes /\ LinkGrants /\ \A w \in Users : LinkUser(w)
    BY DEF LinkInv
<1>1. v3'[u] = Link!None /\ \A w \in Users : w # u => v3'[w] = v3[w]
    BY <1>0 DEF LinkTypes
<1>2. Link!None.grant = 0 /\ Link!Idle.pc = "idle" /\ Link!Idle.token.grant = 0
    BY DEF Link!None, Link!Idle
<1>3. LinkTypes'
    <2>1. v3' \in [Users -> LinkTokens \cup {Link!None}]
        BY <1>0 DEF LinkTypes
    <2> QED
        BY <1>0, <2>1 DEF LinkTypes, LinkPasts
<1>4. LinkGrants'
    <2>0. past.grants \in Nat /\ \A c \in v2 : c.grant > 0
        <3>1. \A c \in v2 : c.grant \in 1..MaxGrants
            BY <1>0, LinkShapes
        <3> QED
            BY <1>0, <3>1, LinkShapes
    <2>1. \A c \in v2 : /\ c.grant <= past.grants /\ v5[c.grant] = 1
                        /\ \A e \in v2 : c.grant = e.grant => c = e
                        /\ \A w \in Users : v3'[w].grant # c.grant
                        /\ \A r \in 1..2 : v4'[r].token.grant # c.grant
        BY <1>0, <1>1, <1>2, <2>0 DEF LinkGrants
    <2>2. \A w \in Users : v3'[w].grant <= past.grants
        BY <1>0, <1>1, <1>2, <2>0 DEF LinkGrants
    <2>3. \A w, y \in Users : v3'[w].grant = v3'[y].grant /\ v3'[w] # Link!None => w = y
        <3>1. \A w \in Users : v3[w] # Link!None => v3[w].grant # 0
            BY <1>0, LinkShapes
        <3> QED
            BY <1>0, <1>1, <1>2, <3>1 DEF LinkGrants
    <2>4. \A r \in 1..2 : /\ v4'[r].token.grant <= past.grants
                          /\ v4'[r].pc # "idle" => \A w \in Users : v4'[r].token.grant = v3'[w].grant => v4'[r].user = w
        <3>1. \A r \in 1..2 : v4[r].pc # "idle" => v4[r].token.grant # 0
            BY <1>0, LinkShapes
        <3> QED
            BY <1>0, <1>1, <1>2, <2>0, <3>1 DEF LinkGrants
    <2>5. \A q, r \in 1..2 : v4'[q].pc # "idle" /\ v4'[r].pc # "idle" /\ v4'[q].token.grant = v4'[r].token.grant
                                 => v4'[q].user = v4'[r].user
        BY <1>0, <1>2 DEF LinkGrants
    <2> QED
        BY <2>1, <2>2, <2>3, <2>4, <2>5 DEF LinkGrants
<1>5. ASSUME NEW w \in Users, w # u PROVE LinkUser(w)'
    <2>1. \A r \in 1..2 : LinkBusy(r, w)' <=> LinkBusy(r, w)
        BY <1>2, <1>5 DEF LinkBusy
    <2>2. \A r \in 1..2 : LinkBusy(r, w) => v4'[r] = v4[r]
        BY <1>5 DEF LinkBusy
    <2> QED
        BY <1>0, <1>1, <1>5, <2>1, <2>2, LinkOthers
<1> QED
    BY <1>3, <1>4, <1>5 DEF LinkInv

LEMMA LinkDisconnect ==
    ASSUME LinkInv, NEW u \in Users, Link!disconnect(u)
    PROVE  LinkInv'
<1>0. LinkTypes /\ past \in LinkPasts /\ \A w \in Users : LinkUser(w)
    BY LinkPastType DEF LinkInv
<1> DEFINE C == Link!Crossed(u)
           W == [past.wanted EXCEPT ![u] = FALSE]
<1>1. /\ v3' = [v3 EXCEPT ![u] = Link!None] /\ UNCHANGED <<v1, v2, v4, v5>>
      /\ past' = [past EXCEPT !.wanted = W, !.crossed = C]
    BY DEF Link!disconnect
<1>2. C \in SUBSET Users /\ W \in [Users -> BOOLEAN]
    BY <1>0 DEF LinkPasts, Link!Crossed
<1>3. W[u] = FALSE /\ \A w \in Users : w # u => W[w] = past.wanted[w]
    BY <1>0 DEF LinkPasts
<1>4. C = IF Link!Writing(u) THEN past.crossed \cup {u} ELSE past.crossed
    BY DEF Link!Crossed
<1> HIDE DEF C, W
<1>5. /\ past' \in LinkPasts /\ past'.grants = past.grants /\ past'.wanted = W /\ past'.crossed = C
      /\ past'.failed = past.failed
    BY <1>0, <1>1, <1>2 DEF LinkPasts
<1>6. LinkUser(u)'
    <2>1. SUFFICES ASSUME u \notin C PROVE LinkOneStep(u)' /\ LinkConnected(u)'
        BY <1>5 DEF LinkUser
    <2>2. (\A c \in v2 : c.user # u) /\ (\A r \in 1..2 : ~LinkBusy(r, u))
        BY <1>4, <2>1, LinkWriting
    <2>3. (\A c \in v2' : c.user # u) /\ (\A r \in 1..2 : ~LinkBusy(r, u)')
        BY <1>1, <2>2 DEF LinkBusy
    <2>4. v3'[u] = Link!None /\ ~past'.wanted[u]
        BY <1>0, <1>1, <1>3, <1>5 DEF LinkTypes
    <2> QED
        BY <2>3, <2>4 DEF LinkOneStep, LinkConnected
<1>7. v4' \in [1..2 -> LinkSent \cup {Link!Idle}] /\ \A r \in 1..2 : v4'[r] = v4[r]
    BY <1>0, <1>1 DEF LinkTypes
<1>8. \A w \in Users : w # u => /\ past'.wanted[w] = past.wanted[w]
                                /\ w \in past.crossed => w \in past'.crossed
                                /\ w \in past.failed => w \in past'.failed
    BY <1>3, <1>4, <1>5
<1> QED
    BY <1>1, <1>5, <1>6, <1>7, <1>8, LinkForgets

LEMMA LinkFault ==
    ASSUME past \in LinkPasts, NEW u \in Users, Link!Fault(u)
    PROVE  /\ past' \in LinkPasts /\ past'.grants = past.grants /\ past'.wanted = past.wanted
           /\ past'.crossed = past.crossed /\ past'.failed = past.failed \cup {u}
<1> DEFINE n == past.faults + 1
           F == past.failed \cup {u}
<1>1. n \in Nat /\ F \in SUBSET Users /\ past' = [past EXCEPT !.faults = n, !.failed = F]
    BY DEF LinkPasts, Link!Fault
<1>2. F = past.failed \cup {u}
    OBVIOUS
<1> HIDE DEF n, F
<1> QED
    BY <1>1, <1>2 DEF LinkPasts

LEMMA LinkRefused ==
    ASSUME LinkInv, NEW r \in 1..2, Link!Refused(r)
    PROVE  LinkInv'
<1>0. LinkTypes /\ past \in LinkPasts /\ \A w \in Users : LinkUser(w)
    BY LinkPastType DEF LinkInv
<1>1. v4[r].pc = "asking"
    BY DEF Link!Refused
<1>2. v4[r].user \in Users
    <2>1. v4[r] \in LinkSent
        BY <1>0, <1>1, LinkShapes
    <2> QED
        BY <2>1 DEF LinkSent
<1>3. PICK u \in Users : u = v4[r].user
    BY <1>2
<1>11. /\ v3' = [v3 EXCEPT ![u] = Link!None] /\ v4' = [v4 EXCEPT ![r] = Link!Idle] /\ UNCHANGED <<v1, v2, v5>>
       /\ IF v5[v4[r].token.grant] = v4[r].token.n THEN Link!Fault(u) ELSE UNCHANGED past
    BY <1>3 DEF Link!Refused
<1>4. LinkBusy(r, u)
    BY <1>1, <1>3 DEF LinkBusy
<1>5. /\ past' \in LinkPasts /\ past'.grants = past.grants /\ past'.wanted = past.wanted
      /\ past'.crossed = past.crossed
      /\ v5[v4[r].token.grant] = v4[r].token.n => u \in past'.failed
      /\ \A w \in past.failed : w \in past'.failed
    <2>1. CASE v5[v4[r].token.grant] = v4[r].token.n
        BY <1>0, <1>11, <2>1, LinkFault
    <2>2. CASE v5[v4[r].token.grant] # v4[r].token.n
        BY <1>0, <1>11, <2>2
    <2> QED
        BY <2>1, <2>2
<1>6. v4' \in [1..2 -> LinkSent \cup {Link!Idle}] /\ v4'[r] = Link!Idle /\ \A q \in 1..2 : q # r => v4'[q] = v4[q]
    BY <1>0, <1>11 DEF LinkTypes
<1>7. LinkUser(u)'
    <2>1. SUFFICES ASSUME u \notin past.crossed PROVE LinkOneStep(u)' /\ u \in past'.failed
        BY <1>5 DEF LinkUser
    <2>2. LinkOneStep(u)
        BY <1>0, <1>2, <2>1 DEF LinkUser
    <2>3. LinkOneStep(u)'
        <3>1. \A q \in 1..2 : LinkBusy(q, u)' => LinkBusy(q, u)
            BY <1>6 DEF LinkBusy, Link!Idle
        <3> QED
            BY <1>11, <2>2, <3>1 DEF LinkOneStep
    <2>4. u \in past'.failed
        BY <1>0, <1>2, <1>4, <1>5, <2>1 DEF LinkUser, LinkConnected
    <2> QED
        BY <2>3, <2>4
<1>8. \A q \in 1..2 : v4'[q] = v4[q] \/ (v4'[q] = Link!Idle /\ LinkBusy(q, u))
    BY <1>4, <1>6
<1>9. \A w \in Users : w # u => /\ past'.wanted[w] = past.wanted[w]
                                /\ w \in past.crossed => w \in past'.crossed
                                /\ w \in past.failed => w \in past'.failed
    BY <1>5
<1>10. v3' = [v3 EXCEPT ![u] = Link!None] /\ UNCHANGED <<v1, v2, v5>>
    BY <1>11
<1> QED
    BY <1>2, <1>5, <1>6, <1>7, <1>8, <1>9, <1>10, LinkForgets

LEMMA LinkLost ==
    ASSUME LinkInv, NEW r \in 1..2, Link!Lost(r)
    PROVE  LinkInv'
<1>0. LinkTypes /\ past \in LinkPasts /\ LinkGrants /\ \A w \in Users : LinkUser(w)
    BY LinkPastType DEF LinkInv
<1>1. v4[r].pc # "idle" /\ v4[r].user \in Users
    <2>1. v4[r].pc # "idle"
        BY DEF Link!Lost
    <2>2. v4[r] \in LinkSent
        BY <1>0, <2>1, LinkShapes
    <2> QED
        BY <2>1, <2>2 DEF LinkSent
<1>2. PICK u \in Users : u = v4[r].user
    BY <1>1
<1>3. Link!Fault(u) /\ v4' = [v4 EXCEPT ![r] = Link!Idle] /\ UNCHANGED <<v1, v2, v3, v5>>
    BY <1>2 DEF Link!Lost
<1>4. /\ past' \in LinkPasts /\ past'.grants = past.grants /\ past'.wanted = past.wanted
      /\ past'.crossed = past.crossed /\ past'.failed = past.failed \cup {u}
    BY <1>0, <1>3, LinkFault
<1>5. v4' \in [1..2 -> LinkSent \cup {Link!Idle}] /\ v4'[r] = Link!Idle /\ \A q \in 1..2 : q # r => v4'[q] = v4[q]
    BY <1>0, <1>3 DEF LinkTypes
<1>6. Link!Idle.pc = "idle" /\ Link!Idle.token.grant = 0
    BY DEF Link!None, Link!Idle
<1>7. LinkTypes'
    BY <1>0, <1>3, <1>4, <1>5 DEF LinkTypes, LinkPasts
<1>8. LinkGrants'
    <2>1. past.grants \in Nat /\ \A c \in v2 : c.grant # 0
        <3>1. \A c \in v2 : c.grant \in 1..MaxGrants
            BY <1>0, LinkShapes
        <3> QED
            BY <1>0, <3>1, LinkShapes
    <2> QED
        BY <1>0, <1>3, <1>4, <1>5, <1>6, <2>1 DEF LinkGrants
<1>9. ASSUME NEW w \in Users, w # u PROVE LinkUser(w)'
    <2>1. \A q \in 1..2 : LinkBusy(q, w)' <=> LinkBusy(q, w)
        BY <1>2, <1>5, <1>6, <1>9 DEF LinkBusy
    <2>2. \A q \in 1..2 : LinkBusy(q, w) => v4'[q] = v4[q]
        BY <1>2, <1>5, <1>9 DEF LinkBusy
    <2> QED
        BY <1>0, <1>3, <1>4, <2>1, <2>2, LinkOthers
<1>10. LinkUser(u)'
    <2>1. \A q \in 1..2 : LinkBusy(q, u)' => LinkBusy(q, u)
        BY <1>5, <1>6 DEF LinkBusy
    <2>2. LinkOneStep(u) => LinkOneStep(u)'
        BY <1>3, <2>1 DEF LinkOneStep
    <2> QED
        BY <1>0, <1>4, <2>2 DEF LinkUser
<1> QED
    BY <1>7, <1>8, <1>9, <1>10 DEF LinkInv

LEMMA LinkAges ==
    ASSUME LinkInv, NEW u \in Users, Link!Ages(u)
    PROVE  LinkInv'
<1>0. LinkTypes /\ past \in LinkPasts /\ LinkGrants /\ \A w \in Users : LinkUser(w)
    BY LinkPastType DEF LinkInv
<1>1. v3[u].fresh /\ v3' = [v3 EXCEPT ![u].fresh = FALSE] /\ UNCHANGED <<v1, v2, v4, v5, past>>
    BY DEF Link!Ages
<1>2. v3[u] \in LinkTokens
    BY <1>0, <1>1, LinkShapes DEF Link!None
<1>3. v3'[u] = [v3[u] EXCEPT !.fresh = FALSE] /\ \A w \in Users : w # u => v3'[w] = v3[w]
    BY <1>0, <1>1 DEF LinkTypes
<1>4. /\ v3'[u] \in LinkTokens /\ v3'[u].grant = v3[u].grant /\ v3'[u].n = v3[u].n
      /\ v3[u] # Link!None /\ v3'[u] # Link!None
    <2>1. \A t \in LinkTokens : LET s == [t EXCEPT !.fresh = FALSE]
                               IN  s \in LinkTokens /\ s.grant = t.grant /\ s.n = t.n
        BY DEF LinkTokens
    <2>2. \A t \in LinkTokens : t.grant # 0
        BY DEF LinkTokens
    <2>3. \A t \in LinkTokens : t # Link!None
        BY <2>2 DEF Link!None
    <2> QED
        BY <1>2, <1>3, <2>1, <2>3
<1>5. \A w \in Users : /\ v3'[w].grant = v3[w].grant /\ v3'[w].n = v3[w].n
                       /\ v3'[w] = Link!None <=> v3[w] = Link!None
    BY <1>3, <1>4
<1>6. LinkTypes'
    <2>1. v3' \in [Users -> LinkTokens \cup {Link!None}]
        <3>1. DOMAIN v3' = Users /\ v3' = [w \in Users |-> v3'[w]]
            BY <1>0, <1>1 DEF LinkTypes
        <3>2. \A w \in Users : v3'[w] \in LinkTokens \cup {Link!None}
            BY <1>0, <1>3, <1>4 DEF LinkTypes
        <3> QED
            BY <3>1, <3>2
    <2> QED
        BY <1>0, <1>1, <2>1 DEF LinkTypes
<1>7. LinkGrants'
    BY <1>0, <1>1, <1>5 DEF LinkGrants
<1>8. ASSUME NEW w \in Users PROVE LinkUser(w)'
    <2>1. LinkOneStep(w)' <=> LinkOneStep(w)
        BY <1>1 DEF LinkOneStep, LinkBusy
    <2>2. LinkConnected(w) => LinkConnected(w)'
        BY <1>1, <1>5 DEF LinkConnected, LinkBusy
    <2> QED
        BY <1>0, <1>1, <2>1, <2>2 DEF LinkUser
<1> QED
    BY <1>6, <1>7, <1>8 DEF LinkInv

LEMMA LinkRefresh ==
    ASSUME LinkInv, NEW r \in 1..2, NEW u \in Users, Link!Refresh(r, u)
    PROVE  LinkInv'
<1>0. LinkTypes /\ past \in LinkPasts /\ LinkGrants /\ \A w \in Users : LinkUser(w)
    BY LinkPastType DEF LinkInv
<1>1. PICK x \in LinkSent : x = [pc |-> "asking", user |-> u, token |-> v3[u]]
    <2>1. v3[u] \in LinkTokens
        BY <1>0, LinkShapes DEF Link!Refresh
    <2> QED
        BY <2>1 DEF LinkSent
<1>2. PICK C \in SUBSET Users : C = IF Link!Writing(u) THEN past.crossed \cup {u} ELSE past.crossed
    BY <1>0 DEF LinkPasts
<1>3. /\ v4[r] = Link!Idle /\ v3[u] # Link!None
      /\ v4' = [v4 EXCEPT ![r] = x] /\ past' = [past EXCEPT !.crossed = C]
      /\ UNCHANGED <<v1, v2, v3, v5>>
    BY <1>1, <1>2 DEF Link!Refresh, Link!Crossed
<1>4. x.pc # "idle" /\ x.user = u /\ x.token = v3[u]
    BY <1>1
<1>5. v4'[r] = x /\ \A q \in 1..2 : q # r => v4'[q] = v4[q]
    BY <1>0, <1>3 DEF LinkTypes
<1>6. /\ past' \in LinkPasts /\ past'.grants = past.grants /\ past'.wanted = past.wanted
      /\ past'.crossed = C /\ past'.failed = past.failed
    BY <1>0, <1>3 DEF LinkPasts
<1>7. LinkTypes'
    <2>1. v4' \in [1..2 -> LinkSent \cup {Link!Idle}]
        BY <1>0, <1>3 DEF LinkTypes
    <2> QED
        BY <1>0, <1>3, <1>6, <2>1 DEF LinkTypes, LinkPasts
<1>8. LinkGrants'
    <2>1. \A c \in v2, q \in 1..2 : v4'[q].token.grant # c.grant
        BY <1>0, <1>4, <1>5 DEF LinkGrants
    <2>2. \A q \in 1..2 : v4'[q].token.grant <= past.grants
        BY <1>0, <1>4, <1>5 DEF LinkGrants
    <2>3. \A q \in 1..2 : v4'[q].pc # "idle" =>
              \A w \in Users : v4'[q].token.grant = v3[w].grant => v4'[q].user = w
        BY <1>0, <1>3, <1>4, <1>5 DEF LinkGrants
    <2>4. \A p, q \in 1..2 : v4'[p].pc # "idle" /\ v4'[q].pc # "idle" /\ v4'[p].token.grant = v4'[q].token.grant
                                 => v4'[p].user = v4'[q].user
        BY <1>0, <1>4, <1>5 DEF LinkGrants
    <2> QED
        BY <1>0, <1>3, <1>6, <2>1, <2>2, <2>3, <2>4 DEF LinkGrants
<1>9. ~LinkBusy(r, u)
    BY <1>3 DEF LinkBusy, Link!Idle
<1>10. ASSUME NEW w \in Users, w # u PROVE LinkUser(w)'
    <2>1. \A q \in 1..2 : LinkBusy(q, w)' <=> LinkBusy(q, w)
        BY <1>3, <1>4, <1>5, <1>10 DEF LinkBusy, Link!Idle
    <2>2. \A q \in 1..2 : LinkBusy(q, w) => v4'[q] = v4[q]
        BY <1>3, <1>5 DEF LinkBusy, Link!Idle
    <2>3. w \in past.crossed => w \in past'.crossed
        BY <1>2, <1>6
    <2> QED
        BY <1>0, <1>3, <1>6, <2>1, <2>2, <2>3, LinkOthers
<1>11. LinkUser(u)'
    <2>1. SUFFICES ASSUME u \notin C PROVE LinkOneStep(u)' /\ (u \notin past.failed => LinkConnected(u)')
        BY <1>6 DEF LinkUser
    <2>2. u \notin past.crossed /\ (\A c \in v2 : c.user # u) /\ (\A q \in 1..2 : ~LinkBusy(q, u))
        BY <1>2, <2>1, LinkWriting
    <2>3. (\A c \in v2' : c.user # u) /\ (\A q \in 1..2 : LinkBusy(q, u)' => q = r) /\ LinkBusy(r, u)'
        BY <1>3, <1>4, <1>5, <2>2 DEF LinkBusy
    <2>4. u \notin past.failed => past.wanted[u] /\ v5[v3[u].grant] = v3[u].n
        BY <1>0, <1>3, <2>2 DEF LinkUser, LinkConnected
    <2>5. LinkOneStep(u)'
        BY <2>3 DEF LinkOneStep
    <2>6. u \notin past.failed => LinkConnected(u)'
        BY <1>3, <1>4, <1>5, <1>6, <2>3, <2>4 DEF LinkConnected
    <2> QED
        BY <2>5, <2>6
<1> QED
    BY <1>7, <1>8, <1>10, <1>11 DEF LinkInv

LEMMA LinkAnswered ==
    ASSUME LinkInv, NEW r \in 1..2, Link!Answered(r)
    PROVE  LinkInv'
<1>0. LinkTypes /\ LinkGrants /\ \A w \in Users : LinkUser(w)
    BY DEF LinkInv
<1>1. v4[r].pc = "asking" /\ v4[r] \in LinkSent
    BY <1>0, LinkShapes DEF Link!Answered
<1>2. PICK u \in Users : u = v4[r].user
    BY <1>1 DEF LinkSent
<1>3. PICK g \in 1..MaxGrants : g = v4[r].token.grant
    BY <1>1 DEF LinkSent, LinkTokens
<1>4. PICK n \in Nat : n = v4[r].token.n + 1
    BY <1>1 DEF LinkSent, LinkTokens
<1>5. PICK x \in LinkSent : x = [pc |-> "answered", user |-> u, token |-> [grant |-> g, n |-> n, fresh |-> TRUE]]
    BY DEF LinkSent, LinkTokens
<1>6. v5' = [v5 EXCEPT ![g] = n] /\ UNCHANGED <<v1, v2, v3, past>>
    BY <1>3, <1>4 DEF Link!Answered
<1>7. v4' = [v4 EXCEPT ![r] = x]
    <2>1. v4' = [v4 EXCEPT ![r] = [v4[r] EXCEPT !.pc = "answered", !.token = [grant |-> g, n |-> n, fresh |-> TRUE]]]
        BY <1>0, <1>3, <1>4 DEF Link!Answered, Link!Token, LinkTypes
    <2>2. [v4[r] EXCEPT !.pc = "answered", !.token = [grant |-> g, n |-> n, fresh |-> TRUE]] = x
        <3> DEFINE t == [grant |-> g, n |-> n, fresh |-> TRUE]
                   e == [v4[r] EXCEPT !.pc = "answered", !.token = t]
        <3>1. t \in LinkTokens
            BY DEF LinkTokens
        <3>2. x = [pc |-> "answered", user |-> u, token |-> t]
            BY <1>5
        <3> HIDE DEF t
        <3>3. e \in LinkSent /\ e.pc = "answered" /\ e.user = u /\ e.token = t
            BY <1>1, <1>2, <3>1 DEF LinkSent
        <3> HIDE DEF e
        <3>4. e = [pc |-> e.pc, user |-> e.user, token |-> e.token]
            BY <3>3 DEF LinkSent
        <3>5. e = x
            BY <3>2, <3>3, <3>4
        <3> QED
            BY <3>5 DEF e, t
    <2> QED
        BY <2>1, <2>2
<1>8. v4'[r] = x /\ \A q \in 1..2 : q # r => v4'[q] = v4[q]
    BY <1>0, <1>7 DEF LinkTypes
<1>9. x.pc # "idle" /\ x.user = u /\ x.token.grant = g /\ x.token.n = n
    BY <1>5
<1>10. v5'[g] = n /\ \A i \in 1..MaxGrants : i # g => v5'[i] = v5[i]
    BY <1>0, <1>6 DEF LinkTypes
<1>11. LinkTypes'
    <2>1. v4' \in [1..2 -> LinkSent \cup {Link!Idle}] /\ v5' \in [1..MaxGrants -> Nat]
        BY <1>0, <1>6, <1>7 DEF LinkTypes
    <2> QED
        BY <1>0, <1>6, <2>1 DEF LinkTypes
<1>12. \A q \in 1..2 : /\ v4'[q].token.grant = v4[q].token.grant /\ v4'[q].user = v4[q].user
                       /\ v4'[q].pc # "idle" <=> v4[q].pc # "idle"
    BY <1>1, <1>2, <1>3, <1>8, <1>9
<1>13. LinkGrants'
    <2>1. \A c \in v2 : v5'[c.grant] = v5[c.grant]
        <3>1. \A c \in v2 : c.grant \in 1..MaxGrants /\ c.grant # g
            BY <1>0, <1>3, LinkShapes DEF LinkGrants
        <3> QED
            BY <1>10, <3>1
    <2> QED
        BY <1>0, <1>6, <1>12, <2>1 DEF LinkGrants
<1>14. \A q \in 1..2, w \in Users : LinkBusy(q, w)' <=> LinkBusy(q, w)
    BY <1>12 DEF LinkBusy
<1>15. ASSUME NEW w \in Users, w # u PROVE LinkUser(w)'
    <2>1. \A q \in 1..2 : LinkBusy(q, w) => v4'[q] = v4[q]
        BY <1>2, <1>8, <1>15 DEF LinkBusy
    <2>2. \A q \in 1..2 : LinkBusy(q, w) => v5'[v4[q].token.grant] = v5[v4[q].token.grant]
        <3>1. \A q \in 1..2 : LinkBusy(q, w) => v4[q].token.grant \in 1..MaxGrants /\ v4[q].token.grant # g
            <4>1. \A q \in 1..2 : LinkBusy(q, w) => v4[q] \in LinkSent
                BY <1>0, LinkShapes DEF LinkBusy
            <4>2. \A q \in 1..2 : LinkBusy(q, w) => v4[q].token.grant # g
                BY <1>0, <1>1, <1>2, <1>3, <1>15 DEF LinkGrants, LinkBusy
            <4> QED
                BY <4>1, <4>2 DEF LinkSent, LinkTokens
        <3> QED
            BY <1>10, <3>1
    <2>3. v3[w] # Link!None => v5'[v3[w].grant] = v5[v3[w].grant]
        <3>1. v3[w] # Link!None => v3[w].grant \in 1..MaxGrants /\ v3[w].grant # g
            <4>1. v3[w] # Link!None => v3[w] \in LinkTokens
                BY <1>0, LinkShapes
            <4>2. v3[w].grant # g
                BY <1>0, <1>1, <1>2, <1>3, <1>15 DEF LinkGrants
            <4> QED
                BY <4>1, <4>2 DEF LinkTokens
        <3> QED
            BY <1>10, <3>1
    <2> QED
        BY <1>0, <1>6, <1>14, <2>1, <2>2, <2>3, LinkOthers
<1>16. LinkUser(u)'
    <2>1. LinkOneStep(u) => LinkOneStep(u)'
        BY <1>6, <1>14 DEF LinkOneStep
    <2>2. LinkOneStep(u) /\ LinkConnected(u) => LinkConnected(u)'
        <3>1. LinkBusy(r, u) /\ LinkBusy(r, u)'
            BY <1>1, <1>2, <1>14 DEF LinkBusy
        <3>2. LinkOneStep(u) => \A q \in 1..2 : LinkBusy(q, u)' => q = r
            BY <1>14, <3>1 DEF LinkOneStep
        <3>3. v5'[v4'[r].token.grant] = v4'[r].token.n
            BY <1>8, <1>9, <1>10
        <3> QED
            BY <1>6, <3>1, <3>2, <3>3 DEF LinkConnected
    <2> QED
        BY <1>0, <1>6, <2>1, <2>2 DEF LinkUser
<1> QED
    BY <1>11, <1>13, <1>15, <1>16 DEF LinkInv

LEMMA LinkStored ==
    ASSUME LinkInv, NEW r \in 1..2, Link!StoreRefreshed(r)
    PROVE  LinkInv'
<1>0. LinkTypes /\ LinkGrants /\ \A w \in Users : LinkUser(w)
    BY DEF LinkInv
<1>1. v4[r].pc # "idle" /\ v4[r] \in LinkSent
    BY <1>0, LinkShapes DEF Link!StoreRefreshed
<1>2. PICK u \in Users : u = v4[r].user
    BY <1>1 DEF LinkSent
<1>3. PICK t \in LinkTokens : t = v4[r].token
    BY <1>1 DEF LinkSent
<1>4. v3' = [v3 EXCEPT ![u] = t] /\ v4' = [v4 EXCEPT ![r] = Link!Idle] /\ UNCHANGED <<v1, v2, v5, past>>
    BY <1>2, <1>3 DEF Link!StoreRefreshed, Link!_store_tokens
<1>5. v3'[u] = t /\ \A w \in Users : w # u => v3'[w] = v3[w]
    BY <1>0, <1>4 DEF LinkTypes
<1>6. v4'[r] = Link!Idle /\ \A q \in 1..2 : q # r => v4'[q] = v4[q]
    BY <1>0, <1>4 DEF LinkTypes
<1>7. Link!Idle.pc = "idle" /\ Link!Idle.token.grant = 0
    BY DEF Link!Idle, Link!None
<1>8. LinkTypes'
    <2>1. v3' \in [Users -> LinkTokens \cup {Link!None}] /\ v4' \in [1..2 -> LinkSent \cup {Link!Idle}]
        BY <1>0, <1>4 DEF LinkTypes
    <2> QED
        BY <1>0, <1>4, <2>1 DEF LinkTypes
<1>9. \A w \in Users : w # u => v3[w].grant # t.grant
    BY <1>0, <1>1, <1>2, <1>3 DEF LinkGrants
<1>10. t # Link!None /\ t.grant <= past.grants /\ \A c \in v2 : c.grant # t.grant
    <2>1. t.grant > 0
        BY DEF LinkTokens
    <2> QED
        BY <1>0, <1>3, <2>1 DEF LinkGrants, Link!None
<1>11. LinkGrants'
    <2>0. past.grants \in Nat /\ \A c \in v2 : c.grant # 0
        <3>1. \A c \in v2 : c.grant \in 1..MaxGrants
            BY <1>0, LinkShapes
        <3> QED
            BY <1>0, <3>1, LinkShapes
    <2>1. \A c \in v2 : /\ \A w \in Users : v3'[w].grant # c.grant
                        /\ \A q \in 1..2 : v4'[q].token.grant # c.grant
        BY <1>0, <1>5, <1>6, <1>7, <1>10, <2>0 DEF LinkGrants
    <2>2. \A w \in Users : v3'[w].grant <= past.grants
        BY <1>0, <1>5, <1>10 DEF LinkGrants
    <2>3. \A w, y \in Users : v3'[w].grant = v3'[y].grant /\ v3'[w] # Link!None => w = y
        BY <1>0, <1>5, <1>9 DEF LinkGrants
    <2>4. \A q \in 1..2 : /\ v4'[q].token.grant <= past.grants
                          /\ v4'[q].pc # "idle" => \A w \in Users : v4'[q].token.grant = v3'[w].grant => v4'[q].user = w
        <3>1. \A q \in 1..2 : v4'[q].pc # "idle" => q # r /\ v4'[q] = v4[q]
            BY <1>6, <1>7
        <3>2. \A q \in 1..2 : v4[q].pc # "idle" /\ v4[q].token.grant = t.grant => v4[q].user = u
            BY <1>0, <1>1, <1>2, <1>3 DEF LinkGrants
        <3> QED
            BY <1>0, <1>5, <1>6, <1>7, <2>0, <3>1, <3>2 DEF LinkGrants
    <2>5. \A p, q \in 1..2 : v4'[p].pc # "idle" /\ v4'[q].pc # "idle" /\ v4'[p].token.grant = v4'[q].token.grant
                                 => v4'[p].user = v4'[q].user
        BY <1>0, <1>6, <1>7 DEF LinkGrants
    <2> QED
        BY <1>0, <1>4, <2>1, <2>2, <2>3, <2>4, <2>5 DEF LinkGrants
<1>12. ASSUME NEW w \in Users, w # u PROVE LinkUser(w)'
    <2>1. \A q \in 1..2 : LinkBusy(q, w)' <=> LinkBusy(q, w)
        BY <1>2, <1>6, <1>7, <1>12 DEF LinkBusy
    <2>2. \A q \in 1..2 : LinkBusy(q, w) => v4'[q] = v4[q]
        BY <1>2, <1>6, <1>12 DEF LinkBusy
    <2> QED
        BY <1>0, <1>4, <1>5, <1>12, <2>1, <2>2, LinkOthers
<1>13. LinkUser(u)'
    <2>1. \A q \in 1..2 : LinkBusy(q, u)' => LinkBusy(q, u) /\ q # r
        BY <1>6, <1>7 DEF LinkBusy
    <2>2. LinkBusy(r, u)
        BY <1>1, <1>2 DEF LinkBusy
    <2>3. LinkOneStep(u) => LinkOneStep(u)'
        BY <1>4, <2>1 DEF LinkOneStep
    <2>4. LinkOneStep(u) /\ LinkConnected(u) => LinkConnected(u)'
        <3>1. LinkOneStep(u) => \A q \in 1..2 : ~LinkBusy(q, u)'
            BY <2>1, <2>2 DEF LinkOneStep
        <3>2. LinkConnected(u) => past.wanted[u] /\ v5[t.grant] = t.n
            BY <1>3, <2>2 DEF LinkConnected
        <3> QED
            BY <1>4, <1>5, <1>10, <3>1, <3>2 DEF LinkConnected
    <2> QED
        BY <1>0, <1>4, <2>3, <2>4 DEF LinkUser
<1> QED
    BY <1>8, <1>11, <1>12, <1>13 DEF LinkInv

\* Whoever has connected and not disconnected has a token that Canva takes, unless
\* steps of the user crossed or Canva failed, for any number of users.
THEOREM ConnectionsLive == Spec => []ConnectionLives
<1> DEFINE I == part = "canva" => LinkInv
<1>1. Init => I
    BY LinkInit
<1>2. I /\ [Next]_allVars => I'
    <2> SUFFICES ASSUME I, [Next]_allVars, part' = "canva" PROVE LinkInv'
        OBVIOUS
    <2>1. part = "canva"
        BY DEF Next, allVars
    <2>2. LinkInv /\ (Link!Next \/ UNCHANGED <<v1, v2, v3, v4, v5, past>>)
        BY <2>1, LinkSteps
    <2>3. CASE UNCHANGED <<v1, v2, v3, v4, v5, past>>
        BY <2>2, <2>3, LinkStill, LinkPastType DEF LinkInv, LinkTypes
    <2>4. CASE Link!Next
        BY <2>2, <2>4, LinkStates, LinkExchange, LinkCallback, LinkDisconnect, LinkRefused, LinkLost, LinkAges,
           LinkRefresh, LinkAnswered, LinkStored DEF Link!Next
    <2> QED
        BY <2>2, <2>3, <2>4
<1>3. I => ConnectionLives
    <2> SUFFICES ASSUME LinkInv, NEW u \in Users, ~Link!Writing(u), u \notin past.crossed \cup past.failed
                 PROVE  (v3[u] # Link!None <=> past.wanted[u]) /\ (v3[u] # Link!None => v5[v3[u].grant] = v3[u].n)
        BY DEF ConnectionLives, Link!ConnectionLives
    <2>1. LinkConnected(u)
        BY DEF LinkInv, LinkUser
    <2> QED
        BY <2>1, LinkWriting DEF LinkConnected
<1> HIDE DEF I
<1> QED
    BY <1>1, <1>2, <1>3, PTL DEF Spec, allVars

-------------------------------------------------------------------------------
(* The recordings: v1 is the requests, v2 the ages of their jobs, v3 how     *)
(* long the sweeper sleeps yet, v4 what it has listed, v5 counts the faults. *)

SpeechRequests == [pc : {"new", "waiting", "deleting", "over"}, tries : Nat]

SpeechTypes ==
    /\ v1 \in [Users -> SpeechRequests] /\ v2 \in [Users -> Nat]
    /\ v3 \in 0..Interval /\ v4 \in SUBSET Users /\ v5 \in Nat

\* A request that waits is younger than what a sweep lists; a new one has no job.
SpeechWaits(r) ==
    /\ v1[r].pc = "waiting" => v2[r] \in 1..(JobTimeout + 1)
    /\ v1[r].pc = "new" => v2[r] = 0
    /\ r \in v4 => v1[r].pc \in {"deleting", "over"}

\* By the end of the sleep no job is too old, and while the sweeper is at work the
\* jobs that it did not list have an interval left.
SpeechDue(r) ==
    /\ v2[r] # 0 => v2[r] + v3 <= StaleAge + Interval * (1 + v5)
    /\ v4 # {} /\ r \notin v4 => v2[r] <= StaleAge + Interval * v5

SpeechInv ==
    /\ SpeechTypes
    /\ v4 # {} => v3 = 0
    /\ \A r \in Users : SpeechWaits(r) /\ SpeechDue(r)

LEMMA SpeechSteps ==
    ASSUME [Next]_allVars, part = "transcription"
    PROVE  part' = "transcription" /\ (Speech!Next \/ UNCHANGED <<v1, v2, v3, v4, v5>>)
BY DEF Next, allVars

LEMMA SpeechInit == Init /\ part = "transcription" => SpeechInv
<1> SUFFICES ASSUME Speech!Init PROVE SpeechInv
    BY DEF Init
<1>1. /\ v1 = [r \in Users |-> [pc |-> "new", tries |-> 0]] /\ v2 = [r \in Users |-> 0]
      /\ v3 = Interval /\ v4 = {} /\ v5 = 0
    BY DEF Speech!Init
<1>2. Interval \in 0..Interval
    BY SomeTimes
<1>3. [pc |-> "new", tries |-> 0] \in SpeechRequests
    BY DEF SpeechRequests
<1> QED
    BY <1>1, <1>2, <1>3 DEF SpeechInv, SpeechTypes, SpeechWaits, SpeechDue

\* What is due at a time is due later after a fault.
LEMMA SpeechLater ==
    ASSUME NEW f \in Nat
    PROVE  /\ Interval * f \in Nat /\ Interval * (1 + f) \in Nat
           /\ Interval * (1 + f) = Interval * f + Interval
           /\ Interval * (1 + (f + 1)) = Interval * (1 + f) + Interval
           /\ Interval * (f + 1) = Interval * f + Interval
BY SomeTimes

\* A step of one request: its job, if it is new, is young.
LEMMA SpeechRequest ==
    ASSUME SpeechInv, NEW r \in Users, NEW pc \in {"new", "waiting", "deleting", "over"}, NEW tries \in Nat,
           NEW age \in Nat,
           v1' = [v1 EXCEPT ![r] = [pc |-> pc, tries |-> tries]], v2' = [v2 EXCEPT ![r] = age],
           v3' = v3, v4' = v4, v5' \in {v5, v5 + 1},
           r \in v4 => pc \in {"deleting", "over"},
           age \in {0, v2[r]} \/ (age = 1 /\ r \notin v4),
           pc = "new" => age = 0, pc = "waiting" => age \in 1..(JobTimeout + 1)
    PROVE  SpeechInv'
<1>1. SpeechTypes
    BY DEF SpeechInv
<1>2. /\ v1'[r].pc = pc /\ v2'[r] = age
      /\ \A q \in Users : q # r => v1'[q] = v1[q] /\ v2'[q] = v2[q]
    BY <1>1 DEF SpeechTypes
<1>3. SpeechTypes'
    <2>1. [pc |-> pc, tries |-> tries] \in SpeechRequests
        BY DEF SpeechRequests
    <2>2. v1' \in [Users -> SpeechRequests] /\ v2' \in [Users -> Nat]
        BY <1>1, <2>1 DEF SpeechTypes
    <2> QED
        BY <1>1, <2>2 DEF SpeechTypes
<1>4. ASSUME NEW q \in Users PROVE SpeechWaits(q)'
    <2>1. SpeechWaits(q)
        BY DEF SpeechInv
    <2> QED
        BY <1>2, <2>1 DEF SpeechWaits
<1>5. Interval * v5 \in Nat /\ Interval * (1 + v5) \in Nat /\ Interval * (1 + v5) = Interval * v5 + Interval
    BY <1>1, SpeechLater DEF SpeechTypes
<1>6. /\ Interval * v5' \in Nat /\ Interval * (1 + v5') \in Nat
      /\ Interval * v5 <= Interval * v5' /\ Interval * (1 + v5) <= Interval * (1 + v5')
    <2>1. CASE v5' = v5
        BY <1>5, <2>1
    <2>2. CASE v5' = v5 + 1
        BY <1>1, <1>5, <2>2, SpeechLater, SomeTimes DEF SpeechTypes
    <2> QED
        BY <2>1, <2>2
<1>7. ASSUME NEW q \in Users PROVE SpeechDue(q)'
    <2> DEFINE A == Interval * (1 + v5)
               B == Interval * v5
               C == Interval * (1 + v5')
               D == Interval * v5'
    <2>1. v2[q] \in Nat /\ v3 \in 0..Interval /\ (v2[q] # 0 => v2[q] + v3 <= StaleAge + A)
          /\ (v4 # {} /\ q \notin v4 => v2[q] <= StaleAge + B)
        BY <1>1 DEF SpeechInv, SpeechTypes, SpeechDue
    <2>2. /\ v2'[q] # 0 => v2'[q] + v3 <= StaleAge + C
          /\ v4 # {} /\ q \notin v4 => v2'[q] <= StaleAge + D
        <3>1. A \in Nat /\ B \in Nat /\ C \in Nat /\ D \in Nat /\ A = B + Interval /\ A <= C /\ B <= D
            BY <1>5, <1>6
        <3> HIDE DEF A, B, C, D
        <3>2. CASE q # r
            BY <1>2, <2>1, <3>1, <3>2, SomeTimes
        <3>3. CASE q = r
            <4>1. v2'[q] = age
                BY <1>2, <3>3
            <4> QED
                BY <2>1, <3>1, <3>3, <4>1, SomeTimes
        <3> QED
            BY <3>2, <3>3
    <2> QED
        BY <2>2 DEF SpeechDue
<1> QED
    BY <1>3, <1>4, <1>7 DEF SpeechInv

\* The record of a request, and what is written to it.
LEMMA SpeechRecord ==
    ASSUME SpeechTypes, NEW r \in Users
    PROVE  /\ v1[r].pc \in {"new", "waiting", "deleting", "over"} /\ v1[r].tries \in Nat
           /\ \A pc : [v1 EXCEPT ![r].pc = pc] = [v1 EXCEPT ![r] = [pc |-> pc, tries |-> v1[r].tries]]
           /\ v2 = [v2 EXCEPT ![r] = v2[r]] /\ v2[r] \in Nat
<1>1. v1[r] \in SpeechRequests /\ v1 \in [Users -> SpeechRequests] /\ v2 \in [Users -> Nat]
    BY DEF SpeechTypes
<1>2. ASSUME NEW R \in SpeechRequests, NEW pc
      PROVE  [R EXCEPT !.pc = pc] = [pc |-> pc, tries |-> R.tries]
    BY DEF SpeechRequests
<1>3. ASSUME NEW pc PROVE [v1 EXCEPT ![r].pc = pc] = [v1 EXCEPT ![r] = [pc |-> pc, tries |-> v1[r].tries]]
    BY <1>1, <1>2
<1> QED
    BY <1>1, <1>3 DEF SpeechRequests

LEMMA SpeechRequestSteps ==
    ASSUME SpeechInv, NEW r \in Users, Speech!Submit(r) \/ Speech!Finish(r) \/ Speech!DeleteJob(r)
    PROVE  SpeechInv'
<1>1. SpeechTypes /\ SpeechWaits(r)
    BY DEF SpeechInv
<1>2. /\ v1[r].pc \in {"new", "waiting", "deleting", "over"} /\ v1[r].tries \in Nat
      /\ v2 = [v2 EXCEPT ![r] = v2[r]] /\ v2[r] \in Nat
    BY <1>1, SpeechRecord
<1>3. \A pc : [v1 EXCEPT ![r].pc = pc] = [v1 EXCEPT ![r] = [pc |-> pc, tries |-> v1[r].tries]]
    BY <1>1, SpeechRecord
<1>4. CASE Speech!Submit(r)
    <2>1. v1[r].pc = "new" /\ v3' = v3 /\ v4' = v4 /\ v5' = v5 /\ r \notin v4 /\ v2[r] = 0
        BY <1>1, <1>4 DEF Speech!Submit, SpeechWaits
    <2>2. CASE Speech!To(r, "waiting") /\ v2' = [v2 EXCEPT ![r] = 1]
        <3>1. v1' = [v1 EXCEPT ![r] = [pc |-> "waiting", tries |-> v1[r].tries]]
            BY <1>3, <2>2 DEF Speech!To
        <3>2. 1 \in 1..(JobTimeout + 1)
            BY SomeTimes
        <3> QED
            BY <1>2, <2>1, <2>2, <3>1, <3>2, SpeechRequest
    <2>3. CASE Speech!To(r, "over") /\ v2' = [v2 EXCEPT ![r] = 1]
        <3>1. v1' = [v1 EXCEPT ![r] = [pc |-> "over", tries |-> v1[r].tries]]
            BY <1>3, <2>3 DEF Speech!To
        <3> QED
            BY <1>2, <2>1, <2>3, <3>1, SpeechRequest
    <2>4. CASE Speech!To(r, "over") /\ v2' = v2
        <3>1. v1' = [v1 EXCEPT ![r] = [pc |-> "over", tries |-> v1[r].tries]]
            BY <1>3, <2>4 DEF Speech!To
        <3>2. v2' = [v2 EXCEPT ![r] = v2[r]]
            BY <1>2, <2>4
        <3> QED
            BY <1>2, <2>1, <3>1, <3>2, SpeechRequest
    <2>5. CASE /\ v1' = [v1 EXCEPT ![r].tries = @ + 1,
                                   ![r].pc = IF v1[r].tries + 1 = MaxRetries THEN "over" ELSE "new"]
               /\ v2' = v2
        <3>1. PICK n \in Nat : n = v1[r].tries + 1
            BY <1>2
        <3>6. PICK pc \in {"new", "over"} : pc = IF n = MaxRetries THEN "over" ELSE "new"
            OBVIOUS
        <3>2. v1' = [v1 EXCEPT ![r].tries = n, ![r].pc = pc]
            BY <2>5, <3>1, <3>6
        <3>3. v1 \in [Users -> SpeechRequests]
            BY <1>1 DEF SpeechTypes
        <3>5. v1' = [v1 EXCEPT ![r] = [pc |-> pc, tries |-> n]]
            <4> DEFINE R == [pc |-> v1[r].pc, tries |-> n]
                       f == [v1 EXCEPT ![r].tries = n]
            <4>1. [v1[r] EXCEPT !.tries = n] = R
                BY <3>3 DEF SpeechRequests
            <4>2. f = [v1 EXCEPT ![r] = R]
                BY <4>1
            <4>6. [R EXCEPT !.pc = pc] = [pc |-> pc, tries |-> n]
                OBVIOUS
            <4> HIDE DEF R
            <4>3. v1' = [f EXCEPT ![r] = [f[r] EXCEPT !.pc = pc]]
                BY <3>2
            <4> HIDE DEF f
            <4>4. f[r] = R
                BY <3>3, <4>2
            <4>5. v1' = [f EXCEPT ![r] = [pc |-> pc, tries |-> n]]
                BY <4>3, <4>4, <4>6
            <4> QED
                BY <3>3, <4>2, <4>5
        <3>4. v2' = [v2 EXCEPT ![r] = v2[r]]
            BY <1>2, <2>5
        <3> QED
            BY <1>2, <2>1, <3>1, <3>5, <3>4, SpeechRequest
    <2> QED
        BY <1>4, <2>2, <2>3, <2>4, <2>5 DEF Speech!Submit
<1>5. CASE Speech!Finish(r)
    <2>1. v1[r].pc = "waiting" /\ v3' = v3 /\ v4' = v4 /\ v5' = v5 /\ v2' = [v2 EXCEPT ![r] = v2[r]]
        BY <1>2, <1>5 DEF Speech!Finish
    <2>2. v1' = [v1 EXCEPT ![r] = [pc |-> "deleting", tries |-> v1[r].tries]]
        BY <1>3, <1>5 DEF Speech!Finish, Speech!To
    <2> QED
        BY <1>2, <2>1, <2>2, SpeechRequest
<1>6. CASE Speech!DeleteJob(r)
    <2>1. v1[r].pc = "deleting" /\ v3' = v3 /\ v4' = v4 /\ v5' \in {v5, v5 + 1}
        BY <1>6 DEF Speech!DeleteJob, Speech!Fault
    <2>2. v1' = [v1 EXCEPT ![r] = [pc |-> "over", tries |-> v1[r].tries]]
        BY <1>3, <1>6 DEF Speech!DeleteJob, Speech!To
    <2>3. CASE v2' = [v2 EXCEPT ![r] = 0]
        BY <1>2, <2>1, <2>2, <2>3, SpeechRequest
    <2>4. CASE v2' = v2
        <3>1. v2' = [v2 EXCEPT ![r] = v2[r]]
            BY <1>2, <2>4
        <3> QED
            BY <1>2, <2>1, <2>2, <3>1, SpeechRequest
    <2> QED
        BY <1>6, <2>3, <2>4 DEF Speech!DeleteJob
<1> QED
    BY <1>4, <1>5, <1>6

LEMMA SpeechTick ==
    ASSUME SpeechInv, Speech!Tick
    PROVE  SpeechInv'
<1>1. SpeechTypes
    BY DEF SpeechInv
<1>2. /\ v3 > 0 /\ v3' = v3 - 1 /\ v1' = v1 /\ v4' = v4 /\ v5' = v5
      /\ v2' = [r \in Users |-> IF v2[r] \in {0, Speech!Oldest} THEN v2[r] ELSE v2[r] + 1]
      /\ \A r \in Users : v1[r].pc = "waiting" => v2[r] <= JobTimeout
    BY DEF Speech!Tick
<1>3. v3 \in 0..Interval /\ v4 = {}
    BY <1>1, <1>2 DEF SpeechInv, SpeechTypes
<1>4. \A r \in Users : v2[r] \in Nat /\ (v2'[r] = v2[r] \/ (v2[r] # 0 /\ v2'[r] = v2[r] + 1))
    BY <1>1, <1>2 DEF SpeechTypes
<1>5. SpeechTypes'
    <2>1. v2' \in [Users -> Nat]
        BY <1>2, <1>4
    <2>2. v3' \in 0..Interval
        BY <1>2, <1>3, SomeTimes
    <2> QED
        BY <1>1, <1>2, <2>1, <2>2 DEF SpeechTypes
<1>6. ASSUME NEW r \in Users PROVE SpeechWaits(r)'
    BY <1>2, <1>3, <1>4, SomeTimes DEF SpeechInv, SpeechWaits
<1>7. ASSUME NEW r \in Users PROVE SpeechDue(r)'
    <2>1. Interval * (1 + v5) \in Nat
        BY <1>1, SpeechLater DEF SpeechTypes
    <2> DEFINE A == Interval * (1 + v5)
    <2>2. A \in Nat /\ (v2[r] # 0 => v2[r] + v3 <= StaleAge + A)
        BY <2>1 DEF SpeechInv, SpeechDue
    <2>3. v2'[r] # 0 => v2'[r] + v3' <= StaleAge + A
        <3> HIDE DEF A
        <3> QED
            BY <1>2, <1>3, <1>4, <2>2, SomeTimes
    <2> QED
        BY <1>2, <1>3, <2>3 DEF SpeechDue
<1> QED
    BY <1>2, <1>3, <1>5, <1>6, <1>7 DEF SpeechInv

LEMMA SpeechSweeps ==
    ASSUME SpeechInv, Speech!run_speechmatics_sweeper
    PROVE  SpeechInv'
<1> DEFINE stale == {r \in Users : v2[r] # 0 /\ v2[r] > StaleAge}
<1>1. SpeechTypes
    BY DEF SpeechInv
<1>2. /\ v3 = 0 /\ v4 = {} /\ v1' = v1 /\ v2' = v2
      /\ \/ v4' = stale /\ v3' = (IF stale = {} THEN Interval ELSE 0) /\ v5' = v5
         \/ v3' = Interval /\ v5' = v5 + 1 /\ v4' = {}
    BY DEF Speech!run_speechmatics_sweeper, Speech!listedJobs, Speech!staleJob, Speech!Fault
<1>3. SpeechTypes'
    BY <1>1, <1>2, SomeTimes DEF SpeechTypes
<1>4. ASSUME NEW r \in Users PROVE SpeechWaits(r)'
    <2>1. SpeechWaits(r) /\ v1[r].pc \in {"new", "waiting", "deleting", "over"} /\ v2[r] \in Nat
        BY <1>1, SpeechRecord DEF SpeechInv
    <2>2. r \in stale => v1[r].pc \in {"deleting", "over"}
        BY <2>1, SomeTimes DEF SpeechWaits
    <2> QED
        BY <1>2, <2>1, <2>2 DEF SpeechWaits
<1>5. ASSUME NEW r \in Users PROVE SpeechDue(r)'
    <2>1. v5 \in Nat /\ v2[r] \in Nat
        BY <1>1 DEF SpeechTypes
    <2> DEFINE B == Interval * v5
    <2>2. /\ B \in Nat /\ Interval * (1 + v5) = B + Interval /\ Interval * (1 + (v5 + 1)) = B + Interval + Interval
          /\ v2[r] # 0 => v2[r] <= StaleAge + Interval * (1 + v5)
        BY <1>2, <2>1, SpeechLater DEF SpeechInv, SpeechDue
    <2>3. CASE v4' = stale /\ v3' = (IF stale = {} THEN Interval ELSE 0) /\ v5' = v5
        <3>1. v2[r] # 0 => v2[r] + v3' <= StaleAge + (B + Interval)
            <4> HIDE DEF B
            <4>1. CASE stale = {}
                BY <2>1, <2>2, <2>3, <4>1, SomeTimes
            <4>2. CASE stale # {}
                <5>1. v3' = 0 /\ (v2[r] # 0 => v2[r] <= StaleAge + (B + Interval))
                    BY <2>2, <2>3, <4>2
                <5> QED
                    BY <2>1, <5>1
            <4> QED
                BY <4>1, <4>2
        <3>2. r \notin stale => v2[r] <= StaleAge + B
            <4> HIDE DEF B
            <4> QED
                BY <2>1, <2>2, SomeTimes
        <3> QED
            BY <1>2, <2>2, <2>3, <3>1, <3>2 DEF SpeechDue
    <2>4. CASE v3' = Interval /\ v5' = v5 + 1 /\ v4' = {}
        <3>1. v2[r] # 0 => v2[r] + Interval <= StaleAge + (B + Interval + Interval)
            <4> HIDE DEF B
            <4> QED
                BY <2>1, <2>2, SomeTimes
        <3> QED
            BY <1>2, <2>2, <2>4, <3>1 DEF SpeechDue
    <2> QED
        BY <1>2, <2>3, <2>4
<1> QED
    BY <1>2, <1>3, <1>4, <1>5 DEF SpeechInv

LEMMA SpeechDeletes ==
    ASSUME SpeechInv, NEW r \in Users, Speech!sweep_stale_speechmatics_jobs(r)
    PROVE  SpeechInv'
<1>1. SpeechTypes
    BY DEF SpeechInv
<1>2. /\ r \in v4 /\ v4' = v4 \ {r} /\ v3' = (IF v4' = {} THEN Interval ELSE 0) /\ v1' = v1 /\ v3 = 0
      /\ \/ v2' = [v2 EXCEPT ![r] = 0] /\ v5' = v5
         \/ v5' = v5 + 1 /\ v2' = v2
    BY DEF Speech!sweep_stale_speechmatics_jobs, Speech!Fault, SpeechInv
<1>3. SpeechTypes'
    BY <1>1, <1>2, SomeTimes DEF SpeechTypes
<1>4. \A q \in Users : v2[q] \in Nat /\ (q # r => v2'[q] = v2[q]) /\ v2'[q] \in {0, v2[q]}
    BY <1>1, <1>2 DEF SpeechTypes
<1>5. ASSUME NEW q \in Users PROVE SpeechWaits(q)'
    <2>1. SpeechWaits(q) /\ (q = r => v1[q].pc \in {"deleting", "over"})
        BY <1>2 DEF SpeechInv, SpeechWaits
    <2> QED
        BY <1>2, <1>4, <2>1 DEF SpeechWaits
<1>6. ASSUME NEW q \in Users PROVE SpeechDue(q)'
    <2>1. v5 \in Nat /\ v2[q] \in Nat
        BY <1>1 DEF SpeechTypes
    <2> DEFINE B == Interval * v5
    <2>2. /\ B \in Nat /\ Interval * (1 + v5) = B + Interval /\ Interval * (1 + (v5 + 1)) = B + Interval + Interval
          /\ Interval * (v5 + 1) = B + Interval
          /\ v2[q] # 0 => v2[q] <= StaleAge + Interval * (1 + v5)
          /\ q \notin v4 => v2[q] <= StaleAge + B
        <3>1. /\ v2[q] # 0 => v2[q] + 0 <= StaleAge + Interval * (1 + v5)
              /\ q \notin v4 => v2[q] <= StaleAge + B
            BY <1>2 DEF SpeechInv, SpeechDue
        <3>2. v2[q] + 0 = v2[q]
            BY <2>1
        <3> HIDE DEF B
        <3> QED
            BY <2>1, <3>1, <3>2, SpeechLater DEF B
    <2>3. v3' \in {0, Interval}
        BY <1>2
    <2>4. CASE v2' = [v2 EXCEPT ![r] = 0] /\ v5' = v5
        <3>1. q # r /\ q \notin v4' => q \notin v4
            BY <1>2
        <3>2. q = r => v2'[q] = 0
            BY <1>1, <2>4 DEF SpeechTypes
        <3>3. /\ v2'[q] # 0 => v2'[q] + v3' <= StaleAge + (B + Interval)
              /\ v4' # {} /\ q \notin v4' => v2'[q] <= StaleAge + B
            <4> HIDE DEF B
            <4>1. CASE q = r
                BY <2>2, <3>2, <4>1, SomeTimes
            <4>2. CASE q # r /\ q \in v4'
                BY <1>2, <1>4, <2>1, <2>2, <4>2
            <4>3. CASE q # r /\ q \notin v4'
                BY <1>4, <2>1, <2>2, <2>3, <3>1, <4>3, SomeTimes
            <4> QED
                BY <4>1, <4>2, <4>3
        <3> QED
            BY <2>2, <2>4, <3>3 DEF SpeechDue
    <2>5. CASE v5' = v5 + 1 /\ v2' = v2
        <3>1. /\ v2[q] # 0 => v2[q] + v3' <= StaleAge + (B + Interval + Interval)
              /\ q \notin v4' => v2[q] <= StaleAge + (B + Interval)
            <4> HIDE DEF B
            <4> QED
                BY <2>1, <2>2, <2>3, SomeTimes
        <3> QED
            BY <2>2, <2>5, <3>1 DEF SpeechDue
    <2> QED
        BY <1>2, <2>4, <2>5
<1>7. v4' # {} => v3' = 0
    BY <1>2
<1> QED
    BY <1>3, <1>5, <1>6, <1>7 DEF SpeechInv

LEMMA SpeechRestart ==
    ASSUME SpeechInv, Speech!Restart
    PROVE  SpeechInv'
<1>1. SpeechTypes
    BY DEF SpeechInv
<1>2. /\ v5' = v5 + 1 /\ v1' = [r \in Users |-> [v1[r] EXCEPT !.pc = "over"]]
      /\ v3' = Interval /\ v4' = {} /\ v2' = v2
    BY DEF Speech!Restart, Speech!Fault
<1>3. \A r \in Users : v1'[r] \in SpeechRequests /\ v1'[r].pc = "over"
    BY <1>1, <1>2 DEF SpeechTypes, SpeechRequests
<1>4. SpeechTypes'
    <2>1. v1' \in [Users -> SpeechRequests]
        BY <1>2, <1>3
    <2> QED
        BY <1>1, <1>2, <2>1, SomeTimes DEF SpeechTypes
<1>5. ASSUME NEW r \in Users PROVE SpeechWaits(r)'
    BY <1>2, <1>3 DEF SpeechWaits
<1>6. ASSUME NEW r \in Users PROVE SpeechDue(r)'
    <2> DEFINE A == Interval * (1 + v5)
    <2>1. v5 \in Nat /\ v2[r] \in Nat /\ v3 \in 0..Interval
        BY <1>1 DEF SpeechTypes
    <2>2. /\ A \in Nat /\ Interval * (1 + (v5 + 1)) = A + Interval
          /\ v2[r] # 0 => v2[r] + v3 <= StaleAge + A
        BY <2>1, SpeechLater DEF SpeechInv, SpeechDue
    <2>3. v2[r] # 0 => v2[r] + Interval <= StaleAge + (A + Interval)
        <3> HIDE DEF A
        <3> QED
            BY <2>1, <2>2, SomeTimes
    <2> QED
        BY <1>2, <2>2, <2>3 DEF SpeechDue
<1> QED
    BY <1>2, <1>4, <1>5, <1>6 DEF SpeechInv

\* A recording is at the speech service as long as a request waits for it, and no
\* longer than until the sweep after it is stale, one interval more for each failed
\* call and each restart.
THEOREM RecordingsGo == Spec => []AudioGoes
<1> DEFINE I == part = "transcription" => SpeechInv
<1>1. Init => I
    BY SpeechInit
<1>2. I /\ [Next]_allVars => I'
    <2> SUFFICES ASSUME I, [Next]_allVars, part' = "transcription" PROVE SpeechInv'
        OBVIOUS
    <2>1. part = "transcription"
        BY DEF Next, allVars
    <2>2. SpeechInv /\ (Speech!Next \/ UNCHANGED <<v1, v2, v3, v4, v5>>)
        BY <2>1, SpeechSteps
    <2>3. CASE Speech!Next
        BY <2>2, <2>3, SpeechRequestSteps, SpeechTick, SpeechSweeps, SpeechDeletes, SpeechRestart DEF Speech!Next
    <2>4. CASE UNCHANGED <<v1, v2, v3, v4, v5>>
        BY <2>2, <2>4 DEF SpeechInv, SpeechTypes, SpeechWaits, SpeechDue
    <2> QED
        BY <2>2, <2>3, <2>4
<1>3. I => AudioGoes
    <2> SUFFICES ASSUME SpeechInv PROVE Speech!AudioGoes
        BY DEF AudioGoes
    <2> SUFFICES ASSUME NEW r \in Users
                 PROVE  (v1[r].pc = "waiting" => v2[r] # 0) /\ v2[r] <= StaleAge + Interval * (1 + v5)
        BY DEF Speech!AudioGoes
    <2> DEFINE A == Interval * (1 + v5)
    <2>1. A \in Nat /\ v2[r] \in Nat /\ v3 \in 0..Interval
        BY SpeechLater DEF SpeechInv, SpeechTypes
    <2>2. (v1[r].pc = "waiting" => v2[r] # 0) /\ (v2[r] # 0 => v2[r] + v3 <= StaleAge + A)
        BY DEF SpeechInv, SpeechWaits, SpeechDue
    <2> HIDE DEF A
    <2>3. v2[r] <= StaleAge + A
        BY <2>1, <2>2, SomeTimes
    <2> QED
        BY <2>2, <2>3 DEF A
<1> HIDE DEF I
<1> QED
    BY <1>1, <1>2, <1>3, PTL DEF Spec, allVars

-------------------------------------------------------------------------------
(* The trips: v1 is the device's trips, v2 its event, v3 the queue, v4 the   *)
(* screen, v5 the push, v6 the pull, v7 the server's trips, v8 its event, v9 *)
(* the trips that are being deleted, v10 what another device links.          *)

TripIds   == TempIds \cup RealIds
TripLinks == {Nil} \cup TripIds
TripRows  == [id : TripIds, local : BOOLEAN, gone : BOOLEAN, young : BOOLEAN]
TripEvent == [link : TripLinks, at : Nat]
TripItems == [id : TripIds \cup {"event"}, op : {"create", "update", "delete"}, at : Nat, link : TripLinks]
TripScreens == [pc : {"idle", "open", "creating", "voice", "deleting"}, id : TripLinks]
TripPushes  == [on : BOOLEAN, todo : SUBSET TripItems, failed : SUBSET TripItems]
TripPulls == [pc : {"idle", "read", "trips"}, ev : {Nil} \cup TripEvent, trips : {Nil} \cup [ids : SUBSET RealIds],
              dead : SUBSET TripIds]
TripPast  == [made : SUBSET TripIds, gone : SUBSET RealIds, temp : BOOLEAN, held : BOOLEAN, raced : BOOLEAN]

TripTypes ==
    /\ v1 \in SUBSET TripRows /\ v2 \in TripEvent /\ v3 \in SUBSET TripItems
    /\ v4 \in TripScreens /\ v5 \in TripPushes /\ v6 \in TripPulls
    /\ v7 \in SUBSET RealIds /\ v8 \in TripEvent /\ v9 \in SUBSET v7 /\ v10 \in {Nil} \cup RealIds
    /\ past \in TripPast

\* Ids are of trips that were made.
TripsMade ==
    /\ v7 \subseteq past.made
    /\ \A t \in v1 : t.id \in past.made
    /\ v4.pc # "idle" => v4.id \in past.made
    /\ v6.trips # Nil => v6.trips.ids \subseteq past.made

TripExcused == past.temp \/ past.held \/ past.raced

\* The server's event, the device's, the items that carry one and the one that was read.
TripServed == v8.link # Nil => v8.link \in v7 \ v9
TripShown  == v2.link # Nil => v2.link \in v7 \cup past.gone
TripSent   == \A x \in v3 \cup v5.todo \cup v5.failed : x.link \in {Nil} \cup RealIds
TripRead   == v6.pc = "read" /\ v6.ev # Nil /\ v6.ev.link # Nil =>
                  v6.ev.link \in v7 \cup past.gone /\ v6.ev.link \notin v6.dead

TripInv ==
    /\ TripTypes /\ TripsMade
    /\ TripExcused \/ (TripServed /\ TripShown /\ TripSent /\ TripRead)

LEMMA TripSteps ==
    ASSUME [Next]_allVars, part = "trips"
    PROVE  part' = "trips" /\ (Trip!Next \/ UNCHANGED <<v1, v2, v3, v4, v5, v6, v7, v8, v9, v10, past>>)
BY DEF Next, allVars

LEMMA TripItem ==
    ASSUME NEW id \in TripIds \cup {"event"}, NEW op \in {"create", "update", "delete"}, NEW at \in Nat
    PROVE  /\ Trip!Item(id, op, at) \in TripItems /\ Trip!Item(id, op, at).link = Nil
           /\ \A link \in TripLinks : [Trip!Item(id, op, at) EXCEPT !.link = link] \in TripItems
                                      /\ [Trip!Item(id, op, at) EXCEPT !.link = link].link = link
BY DEF Trip!Item, TripItems, TripLinks

\* What is queued is what was, or carries the link of the new item.
LEMMA TripQueued ==
    ASSUME NEW q \in SUBSET TripItems, NEW x \in TripItems
    PROVE  /\ Trip!enqueueOperation(q, x) \in SUBSET TripItems
           /\ \A y \in Trip!enqueueOperation(q, x) : y \in q \/ y.link = x.link
<1> DEFINE old == {y \in q : y.id = x.id}
           new == {[x EXCEPT !.op = IF x.op = "delete" THEN "delete" ELSE z.op]
                     : z \in {y \in old : x.op = "delete" => y.op # "create"}}
<1>1. Trip!enqueueOperation(q, x) = (q \ old) \cup (IF old = {} THEN {x} ELSE new)
    BY DEF Trip!enqueueOperation
<1>2. ASSUME NEW y \in new PROVE y \in TripItems /\ y.link = x.link
    <2>1. PICK z \in q : y = [x EXCEPT !.op = IF x.op = "delete" THEN "delete" ELSE z.op]
        OBVIOUS
    <2>2. PICK op \in {"create", "update", "delete"} : y = [x EXCEPT !.op = op]
        <3>1. z.op \in {"create", "update", "delete"}
            BY DEF TripItems
        <3> QED
            BY <2>1, <3>1
    <2> QED
        BY <2>2 DEF TripItems
<1> HIDE DEF new
<1> QED
    BY <1>1, <1>2

LEMMA TripInit == Init /\ part = "trips" => TripInv
<1> SUFFICES ASSUME Trip!Init PROVE TripInv
    BY DEF Init
<1>1. PICK ids \in {{}, {CHOOSE i \in RealIds : TRUE}} :
          /\ v7 = ids
          /\ v1 = {[id |-> i, local |-> FALSE, gone |-> FALSE, young |-> FALSE] : i \in ids}
          /\ past = [made |-> ids, gone |-> {}, temp |-> FALSE, held |-> FALSE, raced |-> FALSE]
    BY DEF Trip!Init
<1>2. /\ v2 = [link |-> Nil, at |-> 0] /\ v8 = [link |-> Nil, at |-> 0] /\ v3 = {}
      /\ v4 = [pc |-> "idle", id |-> Nil] /\ v5 = [on |-> FALSE, todo |-> {}, failed |-> {}]
      /\ v6 = [pc |-> "idle", ev |-> Nil, trips |-> Nil, dead |-> {}] /\ v9 = {} /\ v10 = Nil
    BY DEF Trip!Init, Trip!Idle, Trip!NoPush, Trip!NoPull
<1>3. ids \subseteq RealIds
    BY SomeTrips
<1>4. v1 \in SUBSET TripRows /\ \A t \in v1 : t.id \in ids
    <2> SUFFICES ASSUME NEW t \in v1 PROVE t \in TripRows /\ t.id \in ids
        OBVIOUS
    <2>1. PICK i \in ids : t = [id |-> i, local |-> FALSE, gone |-> FALSE, young |-> FALSE]
        BY <1>1
    <2>2. i \in TripIds
        BY <1>3 DEF TripIds
    <2> QED
        BY <2>1, <2>2 DEF TripRows
<1>5. v7 \in SUBSET RealIds /\ past \in TripPast
    BY <1>1, <1>3 DEF TripPast, TripIds
<1>6. v2 \in TripEvent /\ v8 \in TripEvent /\ v4 \in TripScreens /\ v5 \in TripPushes
    BY <1>2 DEF TripEvent, TripScreens, TripPushes, TripLinks
<1>7. v6 \in TripPulls
    BY <1>2 DEF TripPulls
<1>8. TripTypes
    BY <1>2, <1>4, <1>5, <1>6, <1>7 DEF TripTypes
<1>9. TripsMade
    BY <1>1, <1>2, <1>4 DEF TripsMade
<1>10. TripServed /\ TripShown /\ TripSent /\ TripRead
    BY <1>2 DEF TripServed, TripShown, TripSent, TripRead
<1> QED
    BY <1>8, <1>9, <1>10 DEF TripInv

\* Steps of the screens and the push that leave the links where they are.
LEMMA TripQuiet ==
    ASSUME TripInv, UNCHANGED <<v2, v6, v7, v8, v9, v10>>,
           v1' \in SUBSET TripRows, \A t \in v1' : t.id \in past'.made,
           v3' \in SUBSET TripItems, \A x \in v3' : x.link = Nil \/ x \in v3 \cup v5.failed,
           v4' \in TripScreens, v4'.pc # "idle" => v4'.id \in past'.made,
           v5' \in TripPushes, v5'.todo \subseteq v5.todo \cup v3, v5'.failed \subseteq v5.failed \cup v5.todo,
           past' = past \/ \E id \in TripIds : past' = [past EXCEPT !.made = past.made \cup {id}]
    PROVE  TripInv'
<1>1. TripTypes /\ TripsMade
    BY DEF TripInv
<1>2. /\ past' \in TripPast /\ past.made \subseteq past'.made /\ past'.gone = past.gone
      /\ past'.temp = past.temp /\ past'.held = past.held /\ past'.raced = past.raced
    BY <1>1 DEF TripTypes, TripPast
<1>3. TripTypes'
    BY <1>1, <1>2 DEF TripTypes
<1>4. TripsMade'
    BY <1>1, <1>2 DEF TripsMade
<1>5. TripSent => TripSent'
    BY DEF TripSent
<1>6. (TripServed => TripServed') /\ (TripShown => TripShown') /\ (TripRead => TripRead')
    BY <1>2 DEF TripServed, TripShown, TripRead
<1>7. TripExcused => TripExcused'
    BY <1>2 DEF TripExcused
<1> QED
    BY <1>3, <1>4, <1>5, <1>6, <1>7 DEF TripInv

LEMMA TripScreenSteps ==
    TripInv /\ (Trip!OpenEditor \/ Trip!Leave \/ Trip!CreateReturns \/ Trip!handleSave
                \/ Trip!confirmDelete \/ Trip!deleteLocalTrip \/ Trip!createTripOffline) => TripInv'
<1> SUFFICES ASSUME TripInv PROVE (Trip!OpenEditor \/ Trip!Leave \/ Trip!CreateReturns \/ Trip!handleSave
                \/ Trip!confirmDelete \/ Trip!deleteLocalTrip \/ Trip!createTripOffline) => TripInv'
    OBVIOUS
<1>1. TripTypes /\ TripsMade
    BY DEF TripInv
<1>2. /\ v1 \in SUBSET TripRows /\ v3 \in SUBSET TripItems /\ v4 \in TripScreens /\ v5 \in TripPushes
      /\ past.made \in SUBSET TripIds /\ v5.todo \subseteq TripItems
      /\ \A t \in v1 : t.id \in past.made /\ t.id \in TripIds /\ t.id \in TripLinks
    BY <1>1 DEF TripTypes, TripsMade, TripPast, TripPushes, TripRows, TripLinks
<1>3. Trip!Idle \in TripScreens /\ Trip!Idle.pc = "idle"
    BY DEF Trip!Idle, TripScreens, TripLinks
<1>4. \A id \in TripIds, pc \in {"open", "creating", "voice", "deleting"} :
          [pc |-> pc, id |-> id] \in TripScreens
    BY DEF TripScreens, TripLinks
<1>5. v4.pc # "idle" => v4.id \in past.made /\ v4.id \in TripIds
    BY <1>1, <1>2 DEF TripsMade
<1>6. CASE Trip!OpenEditor
    <2>1. PICK t \in v1 : v4' = [pc |-> "open", id |-> t.id]
        BY <1>6 DEF Trip!OpenEditor
    <2>2. v4' \in TripScreens /\ v4'.id \in past.made
        BY <1>2, <1>4, <2>1
    <2>3. UNCHANGED <<v1, v2, v3, v5, v6, v7, v8, v9, v10, past>>
        BY <1>6 DEF Trip!OpenEditor
    <2> QED
        BY <1>1, <1>2, <2>2, <2>3, TripQuiet
<1>7. CASE Trip!Leave
    BY <1>2, <1>3, <1>7, TripQuiet DEF Trip!Leave
<1>8. CASE Trip!CreateReturns
    <2>1. v4' = [pc |-> "open", id |-> v4.id] /\ v4.pc = "creating"
          /\ UNCHANGED <<v1, v2, v3, v5, v6, v7, v8, v9, v10, past>>
        BY <1>8 DEF Trip!CreateReturns, Trip!createdId
    <2>2. v4' \in TripScreens /\ v4'.id \in past.made
        BY <1>4, <1>5, <2>1
    <2> QED
        BY <1>2, <2>1, <2>2, TripQuiet
<1>9. CASE Trip!handleSave
    <2>1. v4' = Trip!Idle /\ UNCHANGED <<v1, v2, v5, v6, v7, v8, v9, v10, past>>
        BY <1>9 DEF Trip!handleSave
    <2>2. v3' \in SUBSET TripItems /\ \A x \in v3' : x.link = Nil \/ x \in v3
        <3>1. CASE Trip!Stored(v4.id)
            <4>1. PICK t \in v1 : v3' = Trip!enqueueOperation(v3, Trip!Item(t.id, IF t.local THEN "create" ELSE "update", 0))
                BY <1>9, <3>1 DEF Trip!handleSave, Trip!Stored
            <4>2. PICK op \in {"create", "update", "delete"} : v3' = Trip!enqueueOperation(v3, Trip!Item(t.id, op, 0))
                BY <4>1
            <4> QED
                BY <1>2, <4>2, TripItem, TripQueued
        <3>2. CASE ~Trip!Stored(v4.id)
            BY <1>2, <1>9, <3>2 DEF Trip!handleSave
        <3> QED
            BY <3>1, <3>2
    <2> QED
        BY <1>2, <1>3, <2>1, <2>2, TripQuiet
<1>10. CASE Trip!confirmDelete
    <2>1. UNCHANGED <<v2, v5, v6, v7, v8, v9, v10, past>> /\ v4.pc = "open"
        BY <1>10 DEF Trip!confirmDelete
    <2>2. PICK b \in BOOLEAN :
              /\ v1' = IF b THEN {t \in v1 : t.id # v4.id}
                       ELSE {[t EXCEPT !.gone = t.gone \/ t.id = v4.id] : t \in v1}
              /\ v3' = IF b THEN {x \in v3 : x.id # v4.id}
                       ELSE Trip!enqueueOperation(v3, Trip!Item(v4.id, "delete", 0))
              /\ v4' = IF b THEN Trip!Idle ELSE [pc |-> "deleting", id |-> v4.id]
        BY <1>10 DEF Trip!confirmDelete
    <2>3. v1' \in SUBSET TripRows /\ \A t \in v1' : t.id \in past.made
        <3> SUFFICES ASSUME NEW u \in v1' PROVE u \in TripRows /\ u.id \in past.made
            OBVIOUS
        <3>1. CASE b
            BY <1>2, <2>2, <3>1
        <3>2. CASE ~b
            <4>1. PICK t \in v1 : u = [t EXCEPT !.gone = t.gone \/ t.id = v4.id]
                BY <2>2, <3>2
            <4>2. PICK g \in BOOLEAN : u = [t EXCEPT !.gone = g]
                BY <1>2, <4>1 DEF TripRows
            <4>3. t \in TripRows
                BY <1>2
            <4>4. u \in TripRows /\ u.id = t.id
                BY <4>2, <4>3 DEF TripRows
            <4> QED
                BY <1>2, <4>4
        <3> QED
            BY <3>1, <3>2
    <2>4. v3' \in SUBSET TripItems /\ \A x \in v3' : x.link = Nil \/ x \in v3
        BY <1>2, <1>5, <2>1, <2>2, TripItem, TripQueued
    <2>5. v4' \in TripScreens /\ (v4'.pc # "idle" => v4'.id \in past.made)
        BY <1>3, <1>4, <1>5, <2>1, <2>2
    <2> QED
        BY <1>2, <2>1, <2>3, <2>4, <2>5, TripQuiet
<1>11. CASE Trip!deleteLocalTrip
    BY <1>2, <1>3, <1>11, TripQuiet DEF Trip!deleteLocalTrip
<1>12. CASE Trip!createTripOffline
    <2>1. PICK id \in TempIds \ past.made :
              /\ v1' = v1 \cup {[id |-> id, local |-> TRUE, gone |-> FALSE, young |-> v6.pc # "idle"]}
              /\ v3' = Trip!enqueueOperation(v3, Trip!Item(id, "create", 0))
              /\ past' = [past EXCEPT !.made = past.made \cup {id}]
              /\ \E pc \in {"creating", "voice"} : v4' = [pc |-> pc, id |-> id]
        BY <1>12 DEF Trip!createTripOffline
    <2>2. UNCHANGED <<v2, v5, v6, v7, v8, v9, v10>>
        BY <1>12 DEF Trip!createTripOffline
    <2>3. id \in TripIds /\ past'.made = past.made \cup {id}
        BY <1>1, <2>1 DEF TripIds, TripTypes, TripPast
    <2>4. v1' \in SUBSET TripRows /\ \A t \in v1' : t.id \in past'.made
        <3> DEFINE r == [id |-> id, local |-> TRUE, gone |-> FALSE, young |-> v6.pc # "idle"]
        <3>1. r \in TripRows /\ r.id = id
            BY <2>3 DEF TripRows
        <3>2. v1' = v1 \cup {r}
            BY <2>1
        <3> HIDE DEF r
        <3> QED
            BY <1>2, <2>3, <3>1, <3>2
    <2>5. v3' \in SUBSET TripItems /\ \A x \in v3' : x.link = Nil \/ x \in v3
        BY <1>2, <2>1, <2>3, TripItem, TripQueued
    <2>6. v4' \in TripScreens /\ v4'.id \in past'.made
        <3>1. PICK pc \in {"creating", "voice"} : v4' = [pc |-> pc, id |-> id]
            BY <2>1
        <3>2. v4' \in TripScreens
            BY <1>4, <2>3, <3>1
        <3>3. v4'.id = id
            BY <3>1
        <3> QED
            BY <2>3, <3>2, <3>3
    <2> QED
        BY <1>2, <2>1, <2>2, <2>3, <2>4, <2>5, <2>6, TripQuiet
<1> QED
    BY <1>6, <1>7, <1>8, <1>9, <1>10, <1>11, <1>12

LEMMA TripPushSteps ==
    TripInv /\ (Trip!PushBegins \/ Trip!PushUpdate \/ Trip!PushFails \/ Trip!PushEnds) => TripInv'
<1> SUFFICES ASSUME TripInv PROVE (Trip!PushBegins \/ Trip!PushUpdate \/ Trip!PushFails \/ Trip!PushEnds) => TripInv'
    OBVIOUS
<1>1. TripTypes /\ TripsMade
    BY DEF TripInv
<1>2. /\ v1 \in SUBSET TripRows /\ v3 \in SUBSET TripItems /\ v4 \in TripScreens /\ v5 \in TripPushes
      /\ v5.todo \subseteq TripItems /\ v5.failed \subseteq TripItems
      /\ \A t \in v1 : t.id \in past.made
      /\ v4.pc # "idle" => v4.id \in past.made
    BY <1>1 DEF TripTypes, TripsMade, TripPushes
<1>3. CASE Trip!PushBegins
    <2>1. v5' = [on |-> TRUE, todo |-> v3, failed |-> {}] /\ UNCHANGED <<v1, v2, v3, v4, v6, v7, v8, v9, v10, past>>
        BY <1>3 DEF Trip!PushBegins
    <2>2. v5' \in TripPushes /\ v5'.todo = v3 /\ v5'.failed = {}
        BY <1>2, <2>1 DEF TripPushes
    <2> QED
        BY <1>2, <2>1, <2>2, TripQuiet
<1>4. CASE Trip!PushUpdate \/ Trip!PushFails
    <2>1. PICK x \in v5.todo, f \in SUBSET (v5.failed \cup v5.todo) :
              v5' = [v5 EXCEPT !.todo = v5.todo \ {x}, !.failed = f]
        <3>1. CASE Trip!PushUpdate
            <4>1. PICK x \in v5.todo : v5' = [v5 EXCEPT !.todo = v5.todo \ {x}]
                BY <3>1 DEF Trip!PushUpdate, Trip!Pushed
            <4>2. v5' = [v5 EXCEPT !.todo = v5.todo \ {x}, !.failed = v5.failed]
                BY <1>2, <4>1 DEF TripPushes
            <4> QED
                BY <4>2
        <3>2. CASE Trip!PushFails
            BY <3>2 DEF Trip!PushFails
        <3> QED
            BY <1>4, <3>1, <3>2
    <2>2. UNCHANGED <<v1, v2, v3, v4, v6, v7, v8, v9, v10, past>>
        BY <1>4 DEF Trip!PushUpdate, Trip!PushFails, Trip!Pushed
    <2>3. v5' \in TripPushes /\ v5'.todo = v5.todo \ {x} /\ v5'.failed = f
        BY <1>2, <2>1 DEF TripPushes
    <2> QED
        BY <1>2, <2>2, <2>3, TripQuiet
<1>5. CASE Trip!PushEnds
    <2>1. /\ v3' = v5.failed /\ v5' = [on |-> FALSE, todo |-> {}, failed |-> {}]
          /\ UNCHANGED <<v1, v2, v4, v6, v7, v8, v9, v10, past>>
        BY <1>5 DEF Trip!PushEnds, Trip!NoPush
    <2>2. v5' \in TripPushes /\ v5'.todo = {} /\ v5'.failed = {}
        BY <2>1 DEF TripPushes
    <2> QED
        BY <1>2, <2>1, <2>2, TripQuiet
<1> QED
    BY <1>3, <1>4, <1>5

\* The event is written with a link: it names a trip the server has, unless it was
\* written with an id that excuses it.
LEMMA TripWrite ==
    ASSUME TripInv, NEW link, Trip!WriteEvent(link), UNCHANGED <<v4>> \/ v4' = Trip!Idle,
           link = Nil \/ link = v2.link \/ (link = v4.id /\ v4.pc # "idle")
    PROVE  TripInv'
<1>1. TripTypes /\ TripsMade
    BY DEF TripInv
<1> DEFINE n == Trip!Now + 1
           x == [Trip!Item("event", "update", n) EXCEPT !.link = link]
<1>2. v2' = [link |-> link, at |-> n] /\ v3' = Trip!enqueueOperation(v3, x)
      /\ past' = [past EXCEPT !.temp = past.temp \/ (link \in TempIds /\ link # v2.link),
                              !.held = past.held \/ link \in Trip!Dead]
      /\ UNCHANGED <<v1, v5, v6, v7, v8, v9, v10>>
    BY DEF Trip!WriteEvent, Trip!Event
<1>3. n \in Nat
    <2>1. v2.at \in Nat /\ v8.at \in Nat
        BY <1>1 DEF TripTypes, TripEvent
    <2> QED
        BY <2>1 DEF Trip!Now
<1>4. link \in TripLinks /\ (link # Nil /\ link # v2.link => link \in past.made)
    BY <1>1 DEF TripTypes, TripsMade, TripEvent, TripLinks, TripPast
<1> HIDE DEF n
<1>5. x \in TripItems /\ x.link = link
    BY <1>3, <1>4, TripItem
<1>6. v3' \in SUBSET TripItems /\ \A y \in v3' : y \in v3 \/ y.link = link
    <2> HIDE DEF x
    <2> QED
        BY <1>1, <1>2, <1>5, TripQueued DEF TripTypes
<1> HIDE DEF x
<1>7. v2' \in TripEvent /\ v2'.link = link
    BY <1>2, <1>3, <1>4 DEF TripEvent
<1>8. v4' \in TripScreens /\ (v4'.pc # "idle" => v4'.id \in past.made)
    BY <1>1 DEF TripTypes, TripsMade, Trip!Idle, TripScreens, TripLinks
<1>9. /\ past' \in TripPast /\ past'.made = past.made /\ past'.gone = past.gone
      /\ past'.temp = (past.temp \/ (link \in TempIds /\ link # v2.link))
      /\ past'.held = (past.held \/ link \in Trip!Dead) /\ past'.raced = past.raced
    BY <1>1, <1>2 DEF TripTypes, TripPast
<1>10. TripTypes'
    BY <1>1, <1>2, <1>6, <1>7, <1>8, <1>9 DEF TripTypes
<1>11. TripsMade'
    BY <1>1, <1>2, <1>8, <1>9 DEF TripsMade
<1>12. ASSUME ~TripExcused' PROVE TripServed' /\ TripShown' /\ TripSent' /\ TripRead'
    <2>1. /\ ~TripExcused /\ link \notin Trip!Dead
          /\ link \in TempIds => link = v2.link
        BY <1>9, <1>12 DEF TripExcused
    <2>2. TripServed /\ TripShown /\ TripSent /\ TripRead
        BY <2>1 DEF TripInv
    <2>3. v9 \subseteq v7 /\ v7 \subseteq RealIds /\ past.gone \subseteq RealIds /\ past.made \subseteq TripIds
        BY <1>1 DEF TripTypes, TripPast
    <2>4. link # Nil => link \in v7 \cup past.gone
        <3>1. CASE link = v2.link
            BY <2>2, <3>1 DEF TripShown
        <3>2. CASE link # Nil /\ link # v2.link
            BY <1>4, <2>1, <2>3, <3>2 DEF Trip!Dead
        <3> QED
            BY <3>1, <3>2
    <2>5. link \in {Nil} \cup RealIds
        BY <2>3, <2>4
    <2>6. TripServed' /\ TripRead'
        BY <1>2, <1>9, <2>2 DEF TripServed, TripRead
    <2>7. TripShown'
        BY <1>2, <1>7, <1>9, <2>4 DEF TripShown
    <2>8. TripSent'
        BY <1>2, <1>6, <2>2, <2>5 DEF TripSent
    <2> QED
        BY <2>6, <2>7, <2>8
<1> QED
    BY <1>10, <1>11, <1>12 DEF TripInv

LEMMA TripWrites ==
    TripInv /\ (Trip!linkEvent \/ Trip!unlinkEvent \/ Trip!saveAll \/ Trip!EditEvent) => TripInv'
<1> SUFFICES ASSUME TripInv PROVE (Trip!linkEvent \/ Trip!unlinkEvent \/ Trip!saveAll \/ Trip!EditEvent) => TripInv'
    OBVIOUS
<1>1. CASE Trip!linkEvent
    BY <1>1, TripWrite DEF Trip!linkEvent
<1>2. CASE Trip!unlinkEvent
    BY <1>2, TripWrite DEF Trip!unlinkEvent
<1>3. CASE Trip!saveAll
    BY <1>3, TripWrite DEF Trip!saveAll, Trip!createdId
<1>4. CASE Trip!EditEvent
    BY <1>4, TripWrite DEF Trip!EditEvent
<1> QED
    BY <1>1, <1>2, <1>3, <1>4

\* A delete begins: the server's event loses the trip.
LEMMA TripBeginDelete ==
    ASSUME TripInv, NEW id \in v7, Trip!BeginDelete(id), UNCHANGED <<v1, v2, v3, v4, v6, v7, v10, past>>,
           v5' \in TripPushes, v5'.todo \subseteq v5.todo, v5'.failed \subseteq v5.failed
    PROVE  TripInv'
<1>1. TripTypes /\ TripsMade
    BY DEF TripInv
<1>2. v9' = v9 \cup {id} /\ v8' = [v8 EXCEPT !.link = IF v8.link = id THEN Nil ELSE v8.link]
    BY DEF Trip!BeginDelete, Trip!unlinked
<1>3. v8' \in TripEvent /\ v8'.link = IF v8.link = id THEN Nil ELSE v8.link
    BY <1>1, <1>2 DEF TripTypes, TripEvent, TripLinks
<1>4. TripTypes'
    BY <1>1, <1>2, <1>3 DEF TripTypes
<1>5. TripsMade'
    BY <1>1 DEF TripsMade
<1>6. TripExcused' <=> TripExcused
    BY DEF TripExcused
<1>7. (TripServed => TripServed') /\ (TripShown => TripShown') /\ (TripSent => TripSent') /\ (TripRead => TripRead')
    BY <1>2, <1>3 DEF TripServed, TripShown, TripSent, TripRead
<1> QED
    BY <1>4, <1>5, <1>6, <1>7 DEF TripInv

LEMMA TripDeletes ==
    TripInv /\ (Trip!otherDelete \/ Trip!PushDelete \/ Trip!deleteEnds \/ Trip!Restart) => TripInv'
<1> SUFFICES ASSUME TripInv PROVE (Trip!otherDelete \/ Trip!PushDelete \/ Trip!deleteEnds \/ Trip!Restart) => TripInv'
    OBVIOUS
<1>1. TripTypes /\ TripsMade
    BY DEF TripInv
<1>2. CASE Trip!otherDelete
    <2>1. PICK id \in v7 : Trip!BeginDelete(id)
        BY <1>2 DEF Trip!otherDelete
    <2>2. UNCHANGED <<v1, v2, v3, v4, v5, v6, v7, v10, past>>
        BY <1>2 DEF Trip!otherDelete
    <2>3. v5' \in TripPushes
        BY <1>1, <2>2 DEF TripTypes
    <2> QED
        BY <2>1, <2>2, <2>3, TripBeginDelete
<1>3. CASE Trip!PushDelete
    <2>1. PICK x \in v5.todo : x.id \in v7 /\ Trip!Pushed(x) /\ Trip!BeginDelete(x.id)
        BY <1>3 DEF Trip!PushDelete
    <2>2. UNCHANGED <<v1, v7, past>>
        BY <1>3 DEF Trip!PushDelete
    <2>3. v5' = [v5 EXCEPT !.todo = v5.todo \ {x}] /\ UNCHANGED <<v2, v3, v4, v6, v10>>
        BY <2>1 DEF Trip!Pushed
    <2>4. v5' \in TripPushes /\ v5'.todo \subseteq v5.todo /\ v5'.failed = v5.failed
        BY <1>1, <2>3 DEF TripTypes, TripPushes
    <2> QED
        BY <2>1, <2>2, <2>3, <2>4, TripBeginDelete
<1>4. CASE Trip!deleteEnds
    <2>1. PICK id \in v9 : v9' = v9 \ {id} /\ v7' = v7 \ {id} /\ past' = [past EXCEPT !.gone = past.gone \cup {id}]
        BY <1>4 DEF Trip!deleteEnds, Trip!EndDelete
    <2>2. UNCHANGED <<v1, v2, v3, v4, v5, v6, v8, v10>>
        BY <1>4 DEF Trip!deleteEnds
    <2>3. id \in RealIds
        BY <1>1 DEF TripTypes
    <2>4. /\ past' \in TripPast /\ past'.gone = past.gone \cup {id} /\ past'.made = past.made
          /\ past'.temp = past.temp /\ past'.held = past.held /\ past'.raced = past.raced
        BY <1>1, <2>1, <2>3 DEF TripTypes, TripPast
    <2>5. TripTypes'
        BY <1>1, <2>1, <2>2, <2>4 DEF TripTypes
    <2>6. TripsMade'
        BY <1>1, <2>1, <2>2, <2>4 DEF TripsMade
    <2>7. TripExcused' <=> TripExcused
        BY <2>4 DEF TripExcused
    <2>8. (TripServed => TripServed') /\ (TripShown => TripShown') /\ (TripSent => TripSent') /\ (TripRead => TripRead')
        BY <2>1, <2>2, <2>4 DEF TripServed, TripShown, TripSent, TripRead
    <2> QED
        BY <2>5, <2>6, <2>7, <2>8 DEF TripInv
<1>5. CASE Trip!Restart
    <2>1. v9' = {} /\ UNCHANGED <<v1, v2, v3, v4, v5, v6, v7, v8, v10, past>>
        BY <1>5 DEF Trip!Restart
    <2>2. TripTypes' /\ TripsMade'
        BY <1>1, <2>1 DEF TripTypes, TripsMade
    <2>3. TripExcused' <=> TripExcused
        BY <2>1 DEF TripExcused
    <2>4. (TripServed => TripServed') /\ (TripShown => TripShown') /\ (TripSent => TripSent') /\ (TripRead => TripRead')
        BY <2>1 DEF TripServed, TripShown, TripSent, TripRead
    <2> QED
        BY <2>2, <2>3, <2>4 DEF TripInv
<1> QED
    BY <1>2, <1>3, <1>4, <1>5

LEMMA TripOthers == TripInv /\ (Trip!otherPicks \/ Trip!otherLinks) => TripInv'
<1> SUFFICES ASSUME TripInv PROVE (Trip!otherPicks \/ Trip!otherLinks) => TripInv'
    OBVIOUS
<1>1. TripTypes /\ TripsMade
    BY DEF TripInv
<1>2. CASE Trip!otherPicks
    <2>1. v10' \in v7 /\ UNCHANGED <<v1, v2, v3, v4, v5, v6, v7, v8, v9, past>>
        BY <1>2 DEF Trip!otherPicks
    <2>2. TripTypes' /\ TripsMade'
        BY <1>1, <2>1 DEF TripTypes, TripsMade
    <2> QED
        BY <2>1, <2>2 DEF TripInv, TripExcused, TripServed, TripShown, TripSent, TripRead
<1>3. CASE Trip!otherLinks
    <2> DEFINE n == Trip!Now + 1
    <2>1. /\ v8' = [link |-> v10, at |-> n] /\ v10 # Nil /\ v10' = Nil
          /\ past' = [past EXCEPT !.raced = past.raced \/ v10 \in v9 \/ v10 \notin v7]
          /\ UNCHANGED <<v1, v2, v3, v4, v5, v6, v7, v9>>
        BY <1>3 DEF Trip!otherLinks
    <2>2. n \in Nat
        <3>1. v2.at \in Nat /\ v8.at \in Nat
            BY <1>1 DEF TripTypes, TripEvent
        <3> QED
            BY <3>1 DEF Trip!Now
    <2> HIDE DEF n
    <2>3. v8' \in TripEvent /\ v8'.link = v10
        BY <1>1, <2>1, <2>2 DEF TripTypes, TripEvent, TripLinks, TripIds
    <2>4. /\ past' \in TripPast /\ past'.gone = past.gone /\ past'.made = past.made
          /\ past'.temp = past.temp /\ past'.held = past.held
          /\ past'.raced = (past.raced \/ v10 \in v9 \/ v10 \notin v7)
        BY <1>1, <2>1 DEF TripTypes, TripPast
    <2>5. TripTypes' /\ TripsMade'
        BY <1>1, <2>1, <2>3, <2>4 DEF TripTypes, TripsMade
    <2>6. TripExcused' \/ (~TripExcused /\ v10 \in v7 \ v9)
        BY <2>4 DEF TripExcused
    <2>7. (TripShown => TripShown') /\ (TripSent => TripSent') /\ (TripRead => TripRead')
        BY <2>1, <2>4 DEF TripShown, TripSent, TripRead
    <2>8. v10 \in v7 \ v9 => TripServed'
        BY <2>1, <2>3 DEF TripServed
    <2> QED
        BY <2>5, <2>6, <2>7, <2>8 DEF TripInv
<1> QED
    BY <1>2, <1>3

LEMMA TripPushCreate == TripInv /\ Trip!PushCreate => TripInv'
<1> SUFFICES ASSUME TripInv, Trip!PushCreate PROVE TripInv'
    OBVIOUS
<1>1. TripTypes /\ TripsMade
    BY DEF TripInv
<1>2. PICK x \in v5.todo, real \in RealIds \ past.made :
          /\ Trip!Pushed(x)
          /\ v7' = v7 \cup {real}
          /\ v1' = {IF t.id = x.id THEN [t EXCEPT !.id = real, !.local = FALSE] ELSE t : t \in v1}
          /\ past' = [past EXCEPT !.made = past.made \cup {real}]
          /\ UNCHANGED <<v8, v9>>
    BY DEF Trip!PushCreate
<1>3. v5' = [v5 EXCEPT !.todo = v5.todo \ {x}] /\ UNCHANGED <<v2, v3, v4, v6, v10>>
    BY <1>2 DEF Trip!Pushed
<1>4. v5' \in TripPushes /\ v5'.todo \subseteq v5.todo /\ v5'.failed = v5.failed
    BY <1>1, <1>3 DEF TripTypes, TripPushes
<1>5. /\ past' \in TripPast /\ past'.made = past.made \cup {real} /\ past'.gone = past.gone
      /\ past'.temp = past.temp /\ past'.held = past.held /\ past'.raced = past.raced
    BY <1>1, <1>2 DEF TripTypes, TripPast, TripIds
<1>6. v1' \in SUBSET TripRows /\ \A u \in v1' : u.id \in past'.made
    <2> SUFFICES ASSUME NEW u \in v1' PROVE u \in TripRows /\ u.id \in past'.made
        OBVIOUS
    <2>1. PICK t \in v1 : u = IF t.id = x.id THEN [t EXCEPT !.id = real, !.local = FALSE] ELSE t
        BY <1>2
    <2>2. t \in TripRows /\ t.id \in past.made
        BY <1>1 DEF TripTypes, TripsMade
    <2>3. CASE t.id = x.id
        <3>1. u = [t EXCEPT !.id = real, !.local = FALSE]
            BY <2>1, <2>3
        <3>2. u \in TripRows /\ u.id = real
            BY <2>2, <3>1 DEF TripRows, TripIds
        <3> QED
            BY <1>5, <3>2
    <2>4. CASE t.id # x.id
        BY <1>5, <2>1, <2>2, <2>4
    <2> QED
        BY <2>3, <2>4
<1>7. TripTypes'
    BY <1>1, <1>2, <1>3, <1>4, <1>5, <1>6 DEF TripTypes
<1>8. TripsMade'
    BY <1>1, <1>2, <1>3, <1>5, <1>6 DEF TripsMade
<1>9. TripExcused' <=> TripExcused
    BY <1>5 DEF TripExcused
<1>10. (TripServed => TripServed') /\ (TripShown => TripShown') /\ (TripSent => TripSent') /\ (TripRead => TripRead')
    BY <1>2, <1>3, <1>4, <1>5 DEF TripServed, TripShown, TripSent, TripRead
<1> QED
    BY <1>7, <1>8, <1>9, <1>10 DEF TripInv

LEMMA TripPushEvent == TripInv /\ Trip!PushEvent => TripInv'
<1> SUFFICES ASSUME TripInv, Trip!PushEvent PROVE TripInv'
    OBVIOUS
<1>1. TripTypes /\ TripsMade
    BY DEF TripInv
<1>2. PICK x \in v5.todo :
          /\ Trip!Pushed(x) /\ v8' = [link |-> x.link, at |-> x.at]
          /\ past' = [past EXCEPT !.held = past.held \/ x.link \in (RealIds \ v7) \cup v9]
          /\ UNCHANGED <<v1, v7, v9>>
    BY DEF Trip!PushEvent
<1>3. v5' = [v5 EXCEPT !.todo = v5.todo \ {x}] /\ UNCHANGED <<v2, v3, v4, v6, v10>>
    BY <1>2 DEF Trip!Pushed
<1>4. v5' \in TripPushes /\ v5'.todo \subseteq v5.todo /\ v5'.failed = v5.failed /\ x \in TripItems
    BY <1>1, <1>3 DEF TripTypes, TripPushes
<1>5. v8' \in TripEvent /\ v8'.link = x.link
    BY <1>2, <1>4 DEF TripItems, TripEvent
<1>6. /\ past' \in TripPast /\ past'.made = past.made /\ past'.gone = past.gone /\ past'.temp = past.temp
      /\ past'.held = (past.held \/ x.link \in (RealIds \ v7) \cup v9) /\ past'.raced = past.raced
    BY <1>1, <1>2 DEF TripTypes, TripPast
<1>7. TripTypes' /\ TripsMade'
    BY <1>1, <1>2, <1>3, <1>4, <1>5, <1>6 DEF TripTypes, TripsMade
<1>8. TripExcused' \/ (~TripExcused /\ x.link \notin (RealIds \ v7) \cup v9)
    BY <1>6 DEF TripExcused
<1>9. TripSent /\ x.link \notin (RealIds \ v7) \cup v9 => TripServed'
    BY <1>2, <1>5 DEF TripSent, TripServed
<1>10. (TripShown => TripShown') /\ (TripSent => TripSent') /\ (TripRead => TripRead')
    BY <1>2, <1>3, <1>4, <1>6 DEF TripShown, TripSent, TripRead
<1> QED
    BY <1>7, <1>8, <1>9, <1>10 DEF TripInv

LEMMA TripPullSteps ==
    TripInv /\ (Trip!PullBegins \/ Trip!ReadEvents \/ Trip!ReadTrips \/ Trip!PullFails) => TripInv'
<1> SUFFICES ASSUME TripInv PROVE (Trip!PullBegins \/ Trip!ReadEvents \/ Trip!ReadTrips \/ Trip!PullFails) => TripInv'
    OBVIOUS
<1>1. TripTypes /\ TripsMade
    BY DEF TripInv
<1>2. ASSUME UNCHANGED <<v2, v3, v4, v5, v7, v8, v9, v10, past>>, v6' \in TripPulls,
             v1' \in SUBSET TripRows, \A t \in v1' : t.id \in past.made,
             v6'.trips # Nil => v6'.trips.ids \subseteq past.made,
             TripServed /\ TripRead => TripRead'
      PROVE  TripInv'
    <2>1. TripTypes' /\ TripsMade'
        BY <1>1, <1>2 DEF TripTypes, TripsMade
    <2>2. TripExcused' <=> TripExcused
        BY <1>2 DEF TripExcused
    <2>3. (TripServed => TripServed') /\ (TripShown => TripShown') /\ (TripSent => TripSent')
        BY <1>2 DEF TripServed, TripShown, TripSent
    <2> QED
        BY <1>2, <2>1, <2>2, <2>3 DEF TripInv
<1>3. v1 \in SUBSET TripRows /\ (\A t \in v1 : t.id \in past.made) /\ v6 \in TripPulls
      /\ (v6.trips # Nil => v6.trips.ids \subseteq past.made)
    BY <1>1 DEF TripTypes, TripsMade
<1>4. /\ Trip!NoPull \in TripPulls /\ Trip!NoPull.ev = Nil /\ Trip!NoPull.trips = Nil
      /\ [Trip!NoPull EXCEPT !.pc = "read"] \in TripPulls
      /\ [Trip!NoPull EXCEPT !.pc = "read"].ev = Nil /\ [Trip!NoPull EXCEPT !.pc = "read"].trips = Nil
    BY DEF Trip!NoPull, TripPulls
<1>5. CASE Trip!PullBegins
    <2>1. /\ v6' = [Trip!NoPull EXCEPT !.pc = "read"] /\ v1' = {[t EXCEPT !.young = FALSE] : t \in v1}
          /\ UNCHANGED <<v2, v3, v4, v5, v7, v8, v9, v10, past>>
        BY <1>5 DEF Trip!PullBegins
    <2>2. v1' \in SUBSET TripRows /\ \A u \in v1' : u.id \in past.made
        <3> SUFFICES ASSUME NEW u \in v1' PROVE u \in TripRows /\ u.id \in past.made
            OBVIOUS
        <3>1. PICK t \in v1 : u = [t EXCEPT !.young = FALSE]
            BY <2>1
        <3>2. t \in TripRows /\ t.id \in past.made
            BY <1>3
        <3>3. u \in TripRows /\ u.id = t.id
            BY <3>1, <3>2 DEF TripRows
        <3> QED
            BY <3>2, <3>3
    <2>3. v6' \in TripPulls /\ v6'.ev = Nil /\ v6'.trips = Nil
        BY <1>4, <2>1
    <2>4. TripRead'
        BY <2>3 DEF TripRead
    <2> QED
        BY <1>2, <2>1, <2>2, <2>3, <2>4
<1>6. CASE Trip!ReadEvents
    <2>1. v6' = [v6 EXCEPT !.ev = v8, !.dead = Trip!Dead] /\ UNCHANGED <<v1, v2, v3, v4, v5, v7, v8, v9, v10, past>>
        BY <1>6 DEF Trip!ReadEvents
    <2>2. v8 \in TripEvent /\ Trip!Dead \in SUBSET TripIds
        BY <1>1 DEF TripTypes, Trip!Dead, TripPast
    <2>3. v6' \in TripPulls /\ v6'.ev = v8 /\ v6'.dead = Trip!Dead /\ v6'.trips = v6.trips
        BY <1>3, <2>1, <2>2 DEF TripPulls
    <2>4. \A i \in v7 : i \notin Trip!Dead
        BY DEF Trip!Dead
    <2>5. TripServed => TripRead'
        BY <2>1, <2>3, <2>4 DEF TripServed, TripRead
    <2> QED
        BY <1>2, <1>3, <2>1, <2>3, <2>5
<1>7. CASE Trip!ReadTrips
    <2>1. v6' = [v6 EXCEPT !.trips = [ids |-> v7]] /\ UNCHANGED <<v1, v2, v3, v4, v5, v7, v8, v9, v10, past>>
        BY <1>7 DEF Trip!ReadTrips
    <2>2. v7 \in SUBSET RealIds /\ v7 \subseteq past.made
        BY <1>1 DEF TripTypes, TripsMade
    <2>3. [ids |-> v7] \in [ids : SUBSET RealIds]
        BY <2>2
    <2>4. /\ v6' \in TripPulls /\ v6'.trips = [ids |-> v7] /\ v6'.ev = v6.ev
          /\ v6'.pc = v6.pc /\ v6'.dead = v6.dead
        BY <1>3, <2>1, <2>3 DEF TripPulls
    <2>5. v6'.trips.ids \subseteq past.made
        BY <2>2, <2>4
    <2>6. TripRead => TripRead'
        BY <2>1, <2>4 DEF TripRead
    <2> QED
        BY <1>2, <1>3, <2>1, <2>4, <2>5, <2>6
<1>8. CASE Trip!PullFails
    <2>1. v6' = Trip!NoPull /\ UNCHANGED <<v1, v2, v3, v4, v5, v7, v8, v9, v10, past>>
        BY <1>8 DEF Trip!PullFails
    <2>2. TripRead'
        BY <1>4, <2>1 DEF TripRead
    <2> QED
        BY <1>2, <1>3, <1>4, <2>1, <2>2
<1> QED
    BY <1>5, <1>6, <1>7, <1>8

\* The newer copy of the event stays; the device knows what was deleted before the read.
LEMMA TripMergeEvents == TripInv /\ Trip!MergeEvents => TripInv'
<1> SUFFICES ASSUME TripInv, Trip!MergeEvents PROVE TripInv'
    OBVIOUS
<1>1. TripTypes /\ TripsMade
    BY DEF TripInv
<1> DEFINE stays == v2.at > v6.ev.at
           g == IF stays THEN past.gone ELSE past.gone \ v6.dead
<1>2. /\ v6.pc = "read" /\ v6.ev # Nil /\ v6' = [v6 EXCEPT !.pc = "trips"]
      /\ v2' = (IF stays THEN v2 ELSE v6.ev) /\ past' = [past EXCEPT !.gone = g]
      /\ UNCHANGED <<v1, v3, v4, v5, v7, v8, v9, v10>>
    BY DEF Trip!MergeEvents, Trip!deviceWins
<1>3. v6.ev \in TripEvent /\ v2 \in TripEvent
    BY <1>1, <1>2 DEF TripTypes, TripPulls
<1> HIDE DEF stays
<1>4. v2' \in TripEvent
    BY <1>2, <1>3
<1>5. v6' \in TripPulls /\ v6'.pc = "trips" /\ v6'.trips = v6.trips
    BY <1>1, <1>2 DEF TripTypes, TripPulls
<1>6. g \in SUBSET RealIds
    BY <1>1 DEF TripTypes, TripPast
<1>7. /\ past' \in TripPast /\ past'.gone = g /\ past'.made = past.made
      /\ past'.temp = past.temp /\ past'.held = past.held /\ past'.raced = past.raced
    <2> HIDE DEF g
    <2> QED
        BY <1>1, <1>2, <1>6 DEF TripTypes, TripPast
<1>8. TripTypes'
    BY <1>1, <1>2, <1>4, <1>5, <1>7 DEF TripTypes
<1>9. TripsMade'
    BY <1>1, <1>2, <1>5, <1>7 DEF TripsMade
<1>10. TripExcused' <=> TripExcused
    BY <1>7 DEF TripExcused
<1>11. TripShown /\ TripRead => TripShown'
    <2>1. CASE stays
        BY <1>2, <1>7, <2>1 DEF TripShown
    <2>2. CASE ~stays
        BY <1>2, <1>7, <2>2 DEF TripShown, TripRead
    <2> QED
        BY <2>1, <2>2
<1>12. (TripServed => TripServed') /\ (TripSent => TripSent') /\ TripRead'
    BY <1>2, <1>5 DEF TripServed, TripSent, TripRead
<1> QED
    BY <1>8, <1>9, <1>10, <1>11, <1>12 DEF TripInv

LEMMA TripMergeTrips == TripInv /\ Trip!MergeTrips => TripInv'
<1> SUFFICES ASSUME TripInv, Trip!MergeTrips PROVE TripInv'
    OBVIOUS
<1>1. TripTypes /\ TripsMade
    BY DEF TripInv
<1> DEFINE returned == v6.trips.ids
           theirs == {[id |-> i, local |-> FALSE, gone |-> FALSE, young |-> FALSE]
                         : i \in returned \ {t.id : t \in {t \in v1 : t.id \in returned /\ t.gone}}}
<1>2. /\ v6.trips # Nil /\ v6' = Trip!NoPull /\ v1' \subseteq v1 \cup theirs
      /\ UNCHANGED <<v2, v3, v4, v5, v7, v8, v9, v10, past>>
    BY DEF Trip!MergeTrips
<1>3. returned \subseteq RealIds /\ returned \subseteq past.made
    BY <1>1, <1>2 DEF TripTypes, TripsMade, TripPulls
<1>4. ASSUME NEW u \in theirs PROVE u \in TripRows /\ u.id \in past.made
    <2>1. PICK i \in returned : u = [id |-> i, local |-> FALSE, gone |-> FALSE, young |-> FALSE]
        OBVIOUS
    <2>2. i \in TripIds /\ i \in past.made
        BY <1>3 DEF TripIds
    <2> QED
        BY <2>1, <2>2 DEF TripRows
<1> HIDE DEF theirs, returned
<1>5. v1' \in SUBSET TripRows /\ \A u \in v1' : u.id \in past.made
    BY <1>1, <1>2, <1>4 DEF TripTypes, TripsMade
<1>6. v6' \in TripPulls /\ v6'.ev = Nil /\ v6'.trips = Nil
    BY <1>2 DEF Trip!NoPull, TripPulls
<1>7. TripTypes' /\ TripsMade'
    BY <1>1, <1>2, <1>5, <1>6 DEF TripTypes, TripsMade
<1>8. TripExcused' <=> TripExcused
    BY <1>2 DEF TripExcused
<1>9. (TripServed => TripServed') /\ (TripShown => TripShown') /\ (TripSent => TripSent') /\ TripRead'
    BY <1>2, <1>6 DEF TripServed, TripShown, TripSent, TripRead
<1> QED
    BY <1>7, <1>8, <1>9 DEF TripInv

\* The link of an event names a trip that is there, on the server at all times and on
\* the device from the next pull on, whatever is deleted, pushed and pulled meanwhile.
THEOREM LinksAreLive == Spec => []LinksLive
<1> DEFINE I == part = "trips" => TripInv
<1>1. Init => I
    BY TripInit
<1>2. I /\ [Next]_allVars => I'
    <2> SUFFICES ASSUME I, [Next]_allVars, part' = "trips" PROVE TripInv'
        OBVIOUS
    <2>1. part = "trips"
        BY DEF Next, allVars
    <2>2. TripInv /\ (Trip!Next \/ UNCHANGED <<v1, v2, v3, v4, v5, v6, v7, v8, v9, v10, past>>)
        BY <2>1, TripSteps
    <2>3. CASE Trip!Next
        BY <2>2, <2>3, TripScreenSteps, TripPushSteps, TripWrites, TripDeletes, TripOthers, TripPushCreate,
           TripPushEvent, TripPullSteps, TripMergeEvents, TripMergeTrips DEF Trip!Next
    <2>4. CASE UNCHANGED <<v1, v2, v3, v4, v5, v6, v7, v8, v9, v10, past>>
        BY <2>2, <2>4 DEF TripInv, TripTypes, TripsMade, TripExcused, TripServed, TripShown, TripSent, TripRead
    <2> QED
        BY <2>2, <2>3, <2>4
<1>3. I => LinksLive
    <2> SUFFICES ASSUME TripInv, ~TripExcused
                 PROVE  (v8.link = Nil \/ v8.link \in v7) /\ (v2.link = Nil \/ v2.link \in v7 \cup past.gone)
        BY DEF LinksLive, Trip!LinksLive, TripExcused
    <2> QED
        BY DEF TripInv, TripServed, TripShown
<1> HIDE DEF I
<1> QED
    BY <1>1, <1>2, <1>3, PTL DEF Spec, allVars
===============================================================================
