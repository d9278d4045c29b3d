-------------------------- MODULE FlowTableProofs --------------------------
(***************************************************************************)
(* The client's table of flows for any number of flows, any size file and  *)
(* any interfaces.  The types hold always.  The arrays that are indexed    *)
(* without a test are large enough when the spare rows cover what the      *)
(* process holds open, and the interfaces have no more addresses than fit; *)
(* the sizes follow a file whose lines increase, however often the table   *)
(* of lines grew while it was read; and the report at the end counts the   *)
(* flows and gives their averages and percentiles.                         *)
(***************************************************************************)
EXTENDS FlowTable, FiniteSetTheorems, WellFoundedInduction, TLAPS

-----------------------------------------------------------------------------
(* Numbers.                                                                 *)

\* A set of numbers that is not empty has a least one.
LEMMA Least ==
    ASSUME NEW S \in SUBSET Nat, S # {}
    PROVE  \E i \in S : \A j \in S : i <= j
<1>1. PICK x \in S : \A y \in S : ~ (<<y, x>> \in OpToRel(<, Nat))
    BY NatLessThanWellFounded, WFMin, Zenon
<1>2. \A y \in S : (<<y, x>> \in OpToRel(<, Nat)) <=> y < x
    BY Zenon DEF OpToRel
<1>3. \A y \in S : ~(y < x)
    BY <1>1, <1>2, Zenon
<1>4. \A y \in S : x <= y
    BY <1>3
<1> QED BY <1>4

\* Min picks it.
LEMMA MinRight ==
    ASSUME NEW S \in SUBSET Nat, S # {}
    PROVE  Min(S) \in S /\ \A j \in S : Min(S) <= j
BY Least DEF Min

\* Of two numbers there is a smaller and a larger one.
LEMMA PairRight ==
    ASSUME NEW a \in Nat, NEW b \in Nat
    PROVE  Min({a, b}) \in Nat /\ Max({a, b}) \in Nat
<1>1. Min({a, b}) \in Nat
    BY MinRight
<1>2. \E i \in {a, b} : \A j \in {a, b} : i >= j
    OBVIOUS
<1>3. Max({a, b}) \in {a, b}
    BY <1>2 DEF Max
<1> QED BY <1>1, <1>3

\* A part m of b of the way h is on the way, and at its end only if m is b.
LEMMA PartOfWay ==
    ASSUME NEW b \in Nat \ {0}, NEW m \in 0 .. b, NEW h \in Int
    PROVE  /\ (m * h) \div b \in Int
           /\ h >= 0 => (m * h) \div b \in 0 .. h
           /\ h > 0 /\ m < b => (m * h) \div b < h
           /\ m = b => (m * h) \div b = h
           /\ h < 0 => (m * h) \div b \in h .. 0
<1> DEFINE a == m * h  q == a \div b
<1>1. a \in Int /\ q \in Int /\ b * q <= a /\ a < b * q + b
    OBVIOUS
<1> HIDE DEF q
<1>2. ASSUME NEW u \in Int, b * q <= b * u PROVE q <= u
    BY <1>1, <1>2
<1>3. ASSUME NEW u \in Int, b * u < b * q + b PROVE u <= q
    BY <1>1, <1>3
<1>4. CASE h >= 0
    <2>1. 0 <= a /\ a <= b * h
        BY <1>4
    <2>2. b * 0 < b * q + b /\ b * q <= b * h
        BY <1>1, <2>1
    <2>3. 0 <= q /\ q <= h
        BY <1>2, <1>3, <2>2, <1>4
    <2>4. ASSUME h > 0, m < b PROVE q < h
        <3>1. a < b * h
            BY <2>4
        <3>2. b * q < b * h
            BY <1>1, <3>1
        <3>3. q # h
            BY <3>2
        <3> QED BY <2>3, <3>3, <1>1
    <2>5. ASSUME m = b PROVE q = h
        <3>1. b * h < b * q + b
            BY <1>1, <2>5
        <3> QED BY <1>3, <2>3, <3>1, <1>1
    <2> QED BY <1>1, <1>4, <2>3, <2>4, <2>5 DEF q
<1>5. CASE h < 0
    <2>1. a <= 0 /\ b * h <= a
        BY <1>5
    <2>2. b * q <= b * 0 /\ b * h < b * q + b
        BY <1>1, <2>1
    <2>3. q <= 0 /\ h <= q
        BY <1>2, <1>3, <2>2
    <2>4. ASSUME m = b PROVE q = h
        <3>1. b * q <= b * h
            BY <1>1, <2>4
        <3> QED BY <1>2, <2>3, <3>1, <1>1
    <2> QED BY <1>1, <1>5, <2>3, <2>4 DEF q
<1> QED BY <1>4, <1>5

\* Between two points, and at the far one only at its end.
LEMMA InterpolateRight ==
    ASSUME NEW x1 \in Nat, NEW y1 \in Nat, NEW x2 \in Nat, NEW y2 \in Nat,
           NEW x \in x1 .. x2
    PROVE  /\ Interpolate(x, x1, y1, x2, y2) \in Nat
           /\ x1 < x2 /\ y1 < y2 =>
                /\ Interpolate(x, x1, y1, x2, y2) \in y1 .. y2
                /\ Interpolate(x, x1, y1, x2, y2) < y2 <=> x < x2
<1>1. CASE x1 = x2
    <2>1. (y1 + y2) \div 2 \in Nat
        OBVIOUS
    <2> QED BY <1>1, <2>1 DEF Interpolate
<1>2. CASE x1 < x2
    <2> DEFINE b == x2 - x1  m == x - x1  h == y2 - y1  q == (m * h) \div b
    <2>1. b \in Nat \ {0} /\ m \in 0 .. b /\ h \in Int
        BY <1>2
    <2>2. Interpolate(x, x1, y1, x2, y2) = y1 + q
        BY <1>2 DEF Interpolate
    <2> HIDE DEF b, m, h
    <2>3. /\ q \in Int
          /\ h >= 0 => q \in 0 .. h
          /\ h > 0 /\ m < b => q < h
          /\ m = b => q = h
          /\ h < 0 => q \in h .. 0
        BY <2>1, PartOfWay
    <2> HIDE DEF q
    <2> QED BY <2>1, <2>2, <2>3 DEF b, m, h
<1> QED BY <1>1, <1>2

-----------------------------------------------------------------------------
(* Sums over finite sets.                                                   *)

\* What holds of a subset when it holds of all smaller ones holds of them all.
LEMMA SubsetsByInduction ==
    ASSUME NEW S, IsFiniteSet(S), NEW U,
           \A T \in SUBSET S : (\A V \in SUBSET T : V # T => V \in U) => T \in U
    PROVE  SUBSET S \subseteq U
<1> DEFINE W == {T \in SUBSET S : T \notin U}
<1> SUFFICES ASSUME W # {} PROVE FALSE
    OBVIOUS
<1>1. W \subseteq SUBSET S
    OBVIOUS
<1> HIDE DEF W
<1>2. IsWellFoundedOn(StrictSubsetOrdering(S), SUBSET S)
    BY FS_StrictSubsetOrderingWellFounded, FS_FiniteSubsetsOfFinite
<1>3. PICK T \in W : \A V \in W : ~ (<<V, T>> \in StrictSubsetOrdering(S))
    BY <1>1, <1>2, WFMin
<1> USE DEF W
<1>4. ASSUME NEW V \in SUBSET T, V # T PROVE V \in U
    <2>1. <<V, T>> \in StrictSubsetOrdering(S)
        BY <1>3, <1>4 DEF StrictSubsetOrdering
    <2> QED BY <1>3, <2>1
<1> QED BY <1>3, <1>4

\* The fold of the library takes this element of a set first ...
First(s) == CHOOSE x \in s : TRUE

\* ... and recurs by this equation.
SumStep(f, S, g) ==
    [s \in SUBSET S |-> IF s = {} THEN 0 ELSE f[First(s)] + g[s \ {First(s)}]]
IsSum(f, S, g) == g = SumStep(f, S, g)
SumTable(f, S) == CHOOSE g : IsSum(f, S, g)

LEMMA SumIs == \A f, S : SumFunctionOnSet(f, S) = SumTable(f, S)[S]
BY DEF SumFunctionOnSet, FoldFunctionOnSet, MapThenFoldSet, SumTable, IsSum, SumStep, First

LEMMA FirstIn == \A s : s # {} => First(s) \in s
BY DEF First

\* Two tables agree where both are defined.
LEMMA SumsAgree ==
    ASSUME NEW f, NEW T, NEW S \in SUBSET T, IsFiniteSet(S),
           IsSum(f, S, SumTable(f, S)), IsSum(f, T, SumTable(f, T))
    PROVE  \A s \in SUBSET S : SumTable(f, S)[s] = SumTable(f, T)[s]
<1> DEFINE g == SumTable(f, S)  h == SumTable(f, T)
<1> SUFFICES ASSUME IsSum(f, S, g), IsSum(f, T, h) PROVE \A s \in SUBSET S : g[s] = h[s]
    OBVIOUS
<1> HIDE DEF g, h
<1> DEFINE U == {s \in SUBSET S : g[s] = h[s]}
<1>1. ASSUME NEW s \in SUBSET S, \A v \in SUBSET s : v # s => v \in U PROVE s \in U
    <2>1. g[s] = IF s = {} THEN 0 ELSE f[First(s)] + g[s \ {First(s)}]
        BY Zenon DEF IsSum, SumStep
    <2>2. h[s] = IF s = {} THEN 0 ELSE f[First(s)] + h[s \ {First(s)}]
        <3>1. s \in SUBSET T
            OBVIOUS
        <3> QED BY <3>1, Zenon DEF IsSum, SumStep
    <2>3. ASSUME s # {} PROVE g[s \ {First(s)}] = h[s \ {First(s)}]
        <3>1. s \ {First(s)} \in SUBSET s /\ s \ {First(s)} # s
            BY <2>3, FirstIn
        <3> QED BY <1>1, <3>1
    <2> QED BY <2>1, <2>2, <2>3
<1> HIDE DEF U
<1>2. SUBSET S \subseteq U
    BY <1>1, SubsetsByInduction
<1> QED BY <1>2 DEF U

\* The recursion defines a table for every finite set.
LEMMA SumDefined ==
    ASSUME NEW f, NEW S, IsFiniteSet(S)
    PROVE  IsSum(f, S, SumTable(f, S))
<1> DEFINE U == {T \in SUBSET S : IsSum(f, T, SumTable(f, T))}
<1>1. ASSUME NEW T \in SUBSET S, \A V \in SUBSET T : V # T => V \in U PROVE T \in U
    <2> DEFINE v == [s \in SUBSET T |-> SumTable(f, s)[s]]
               g == [s \in SUBSET T |-> IF s = {} THEN 0 ELSE f[First(s)] + v[s \ {First(s)}]]
    <2>1. ASSUME NEW s \in SUBSET T, s # T PROVE g[s] = v[s]
        <3>1. IsSum(f, s, SumTable(f, s))
            BY <1>1, <2>1
        <3> DEFINE t == SumTable(f, s)
        <3>2. t[s] = IF s = {} THEN 0 ELSE f[First(s)] + t[s \ {First(s)}]
            <4>1. s \in SUBSET s
                OBVIOUS
            <4> HIDE DEF t
            <4> QED BY <3>1, <4>1, Zenon DEF t, IsSum, SumStep
        <3>3. ASSUME s # {} PROVE t[s \ {First(s)}] = v[s \ {First(s)}]
            <4> DEFINE r == s \ {First(s)}
            <4>1. r \in SUBSET s /\ r \in SUBSET T /\ r # T
                BY <2>1, <3>3, FirstIn
            <4>2. IsSum(f, r, SumTable(f, r)) /\ IsFiniteSet(r)
                BY <1>1, <4>1, FS_Subset
            <4> HIDE DEF r, t
            <4>3. \A q \in SUBSET r : SumTable(f, r)[q] = t[q]
                BY <3>1, <4>1, <4>2, SumsAgree DEF t
            <4> QED BY <4>1, <4>3 DEF r
        <3> HIDE DEF t
        <3>4. v[s] = t[s]
            BY DEF t
        <3> HIDE DEF v
        <3> QED BY <3>2, <3>3, <3>4
    <2>2. IsSum(f, T, g)
        <3>1. ASSUME NEW s \in SUBSET T, s # {} PROVE v[s \ {First(s)}] = g[s \ {First(s)}]
            <4>1. s \ {First(s)} \in SUBSET T /\ s \ {First(s)} # T
                BY <3>1, FirstIn
            <4> HIDE DEF g, v
            <4> QED BY <2>1, <4>1
        <3> HIDE DEF v
        <3>2. g = [s \in SUBSET T |-> IF s = {} THEN 0 ELSE f[First(s)] + g[s \ {First(s)}]]
            <4>1. \A s \in SUBSET T : (IF s = {} THEN 0 ELSE f[First(s)] + v[s \ {First(s)}])
                                     = (IF s = {} THEN 0 ELSE f[First(s)] + g[s \ {First(s)}])
                BY <3>1, Zenon
            <4> QED BY <4>1, Zenon
        <3> HIDE DEF g
        <3> QED BY <3>2, Zenon DEF IsSum, SumStep
    <2> HIDE DEF g
    <2> QED BY <2>2, Zenon DEF SumTable
<1> HIDE DEF U
<1>2. SUBSET S \subseteq U
    BY <1>1, SubsetsByInduction
<1> QED BY <1>2 DEF U

LEMMA SumFirst ==
    ASSUME NEW f, NEW S, IsFiniteSet(S)
    PROVE  /\ S = {} => SumFunctionOnSet(f, S) = 0
           /\ S # {} => SumFunctionOnSet(f, S)
                          = f[First(S)] + SumFunctionOnSet(f, S \ {First(S)})
<1> DEFINE t == SumTable(f, S)  r == S \ {First(S)}
<1>1. t[S] = IF S = {} THEN 0 ELSE f[First(S)] + t[r]
    <2>1. S \in SUBSET S
        OBVIOUS
    <2>2. IsSum(f, S, t)
        BY SumDefined
    <2> HIDE DEF t
    <2> QED BY <2>1, <2>2, Zenon DEF IsSum, SumStep
<1>2. t[r] = SumTable(f, r)[r]
    <2>1. r \in SUBSET S /\ IsFiniteSet(r)
        BY FS_Subset
    <2>2. IsSum(f, S, t)
        BY SumDefined
    <2> HIDE DEF r, t
    <2>3. IsSum(f, r, SumTable(f, r))
        BY <2>1, SumDefined
    <2>4. r \in SUBSET S
        BY <2>1
    <2>5. IsFiniteSet(r)
        BY <2>1
    <2>6. IsSum(f, S, SumTable(f, S))
        BY <2>2 DEF t
    <2>7. \A s \in SUBSET r : SumTable(f, r)[s] = SumTable(f, S)[s]
        BY <2>3, <2>4, <2>5, <2>6, SumsAgree
    <2> QED BY <2>7 DEF t
<1> HIDE DEF r, t
<1>3. SumFunctionOnSet(f, S) = t[S] /\ SumFunctionOnSet(f, r) = SumTable(f, r)[r]
    BY SumIs DEF t
<1> QED BY <1>1, <1>2, <1>3 DEF r

LEMMA SumTyped ==
    ASSUME NEW S, IsFiniteSet(S), NEW f, \A x \in S : f[x] \in Int
    PROVE  \A T \in SUBSET S : SumFunctionOnSet(f, T) \in Int
<1> DEFINE U == {T \in SUBSET S : SumFunctionOnSet(f, T) \in Int}
<1>1. ASSUME NEW T \in SUBSET S, \A V \in SUBSET T : V # T => V \in U PROVE T \in U
    <2>1. CASE T = {}
        <3>1. SumFunctionOnSet(f, {}) = 0
            BY FS_EmptySet, SumFirst
        <3> QED BY <2>1, <3>1
    <2>2. CASE T # {}
        <3>1. First(T) \in T
            BY <2>2, FirstIn
        <3>2. SumFunctionOnSet(f, T \ {First(T)}) \in Int
            BY <1>1, <3>1
        <3>3. SumFunctionOnSet(f, T) = f[First(T)] + SumFunctionOnSet(f, T \ {First(T)})
            BY <2>2, FS_Subset, SumFirst
        <3> QED BY <3>1, <3>2, <3>3
    <2> QED BY <2>1, <2>2
<1> HIDE DEF U
<1>2. SUBSET S \subseteq U
    BY <1>1, SubsetsByInduction
<1> QED BY <1>2 DEF U

\* Any element can be taken out first.
LEMMA SumTakes ==
    ASSUME NEW S, IsFiniteSet(S), NEW f, \A x \in S : f[x] \in Int, NEW x \in S
    PROVE  SumFunctionOnSet(f, S) = f[x] + SumFunctionOnSet(f, S \ {x})
<1> DEFINE sum(T) == SumFunctionOnSet(f, T)
           U == {T \in SUBSET S : \A y \in T : sum(T) = f[y] + sum(T \ {y})}
<1>1. ASSUME NEW T \in SUBSET S, \A V \in SUBSET T : V # T => V \in U PROVE T \in U
    <2> SUFFICES ASSUME NEW y \in T PROVE sum(T) = f[y] + sum(T \ {y})
        OBVIOUS
    <2> DEFINE z == First(T)
    <2>1. z \in T
        BY FirstIn
    <2>2. sum(T) = f[z] + sum(T \ {z})
        BY FS_Subset, SumFirst
    <2>3. CASE y # z
        <3>1. T \ {z} \in SUBSET T /\ T \ {y} \in SUBSET T /\ T \ {z} # T /\ T \ {y} # T
            BY <2>1
        <3>2. T \ {z} \in U /\ T \ {y} \in U /\ y \in T \ {z} /\ z \in T \ {y}
            BY <1>1, <2>1, <2>3, <3>1
        <3> HIDE DEF z, sum
        <3>3. sum(T \ {z}) = f[y] + sum((T \ {z}) \ {y}) /\ sum(T \ {y}) = f[z] + sum((T \ {y}) \ {z})
            BY <3>2
        <3>4. (T \ {z}) \ {y} = (T \ {y}) \ {z}
            OBVIOUS
        <3>5. sum((T \ {y}) \ {z}) \in Int
            BY SumTyped DEF sum
        <3>6. f[y] \in Int /\ f[z] \in Int
            BY <2>1
        <3> DEFINE a == sum(T)  b == sum(T \ {z})  d == sum(T \ {y})  e == sum((T \ {y}) \ {z})
        <3>7. a = f[z] + b /\ b = f[y] + e /\ d = f[z] + e
            BY <2>2, <3>3, <3>4
        <3> HIDE DEF a, b, d, e
        <3>8. a = f[y] + d
            BY <3>5, <3>6, <3>7 DEF e
        <3> QED BY <3>8 DEF a, d
    <2> QED BY <2>2, <2>3
<1> HIDE DEF U
<1>2. SUBSET S \subseteq U
    BY <1>1, SubsetsByInduction
<1> QED BY <1>2 DEF U

\* Two sums in which every value occurs as often are equal.
LEMMA SumsOfSameValues ==
    ASSUME NEW S, IsFiniteSet(S), NEW f, \A x \in S : f[x] \in Int,
           NEW T, IsFiniteSet(T), NEW g, \A y \in T : g[y] \in Int,
           \A v \in Int : Cardinality({x \in S : f[x] = v}) = Cardinality({y \in T : g[y] = v})
    PROVE  SumFunctionOnSet(f, S) = SumFunctionOnSet(g, T)
<1> DEFINE SameValues(X, Y) ==
               \A v \in Int : Cardinality({x \in X : f[x] = v}) = Cardinality({y \in Y : g[y] = v})
           U == {X \in SUBSET S : \A Y \in SUBSET T :
                    SameValues(X, Y) => SumFunctionOnSet(f, X) = SumFunctionOnSet(g, Y)}
<1>1. ASSUME NEW X \in SUBSET S, \A V \in SUBSET X : V # X => V \in U PROVE X \in U
    <2> SUFFICES ASSUME NEW Y \in SUBSET T, SameValues(X, Y)
                 PROVE  SumFunctionOnSet(f, X) = SumFunctionOnSet(g, Y)
        OBVIOUS
    <2>1. IsFiniteSet(X) /\ IsFiniteSet(Y)
        BY FS_Subset
    <2>2. ASSUME NEW v \in Int
          PROVE  /\ IsFiniteSet({x \in X : f[x] = v}) /\ IsFiniteSet({y \in Y : g[y] = v})
                 /\ {x \in X : f[x] = v} = {} <=> {y \in Y : g[y] = v} = {}
        <3> DEFINE A == {x \in X : f[x] = v}  B == {y \in Y : g[y] = v}
        <3>1. A \subseteq X /\ B \subseteq Y
            OBVIOUS
        <3>2. Cardinality(A) = Cardinality(B)
            OBVIOUS
        <3> HIDE DEF A, B
        <3>3. IsFiniteSet(A) /\ IsFiniteSet(B)
            BY <2>1, <3>1, FS_Subset
        <3>4. A = {} <=> B = {}
            BY <3>2, <3>3, FS_EmptySet
        <3> QED BY <3>3, <3>4 DEF A, B
    <2>3. CASE X = {}
        <3>1. \A y \in Y : g[y] \in Int
            OBVIOUS
        <3>2. \A v \in Int : {y \in Y : g[y] = v} = {}
            BY <2>2, <2>3
        <3>3. Y = {}
            BY <3>1, <3>2
        <3> QED BY <2>1, <2>3, <3>3, SumFirst
    <2>4. CASE X # {}
        <3>1. PICK x \in X : f[x] \in Int
            BY <2>4
        <3>2. PICK y \in Y : g[y] = f[x]
            BY <2>2, <3>1
        <3>3. SameValues(X \ {x}, Y \ {y})
            <4> SUFFICES ASSUME NEW v \in Int
                         PROVE  Cardinality({i \in X \ {x} : f[i] = v})
                                  = Cardinality({i \in Y \ {y} : g[i] = v})
                OBVIOUS
            <4> DEFINE A == {i \in X : f[i] = v}  B == {i \in Y : g[i] = v}
            <4>1. Cardinality(A) = Cardinality(B) /\ IsFiniteSet(A) /\ IsFiniteSet(B)
                BY <2>2
            <4>2. {i \in X \ {x} : f[i] = v} = A \ {x} /\ {i \in Y \ {y} : g[i] = v} = B \ {y}
                OBVIOUS
            <4>3. x \in A <=> y \in B
                BY <3>2
            <4> HIDE DEF A, B
            <4>4. Cardinality(A \ {x}) = IF x \in A THEN Cardinality(A) - 1 ELSE Cardinality(A)
                BY <4>1, FS_RemoveElement
            <4>5. Cardinality(B \ {y}) = IF y \in B THEN Cardinality(B) - 1 ELSE Cardinality(B)
                BY <4>1, FS_RemoveElement
            <4> QED BY <4>1, <4>2, <4>3, <4>4, <4>5
        <3>4. X \ {x} \in U /\ Y \ {y} \in SUBSET T
            BY <1>1, <3>1
        <3> HIDE DEF SameValues
        <3>5. SumFunctionOnSet(f, X \ {x}) = SumFunctionOnSet(g, Y \ {y})
            BY <3>3, <3>4
        <3>6. SumFunctionOnSet(f, X) = f[x] + SumFunctionOnSet(f, X \ {x})
            BY <2>1, SumTakes
        <3>7. SumFunctionOnSet(g, Y) = g[y] + SumFunctionOnSet(g, Y \ {y})
            BY <2>1, SumTakes
        <3> QED BY <3>2, <3>5, <3>6, <3>7
    <2> QED BY <2>3, <2>4
<1> HIDE DEF U
<1>2. S \in U
    BY <1>1, SubsetsByInduction
<1> QED BY <1>2 DEF U

\* The members of all classes are the members.
LEMMA SumOfClasses ==
    ASSUME NEW S, IsFiniteSet(S), NEW T, IsFiniteSet(T), NEW c \in [T -> S], NEW f,
           \A x \in S : f[x] = Cardinality({t \in T : c[t] = x})
    PROVE  SumFunctionOnSet(f, S) = Cardinality(T)
<1> DEFINE In(X) == {t \in T : c[t] \in X}
           U == {X \in SUBSET S : SumFunctionOnSet(f, X) = Cardinality(In(X))}
<1>1. ASSUME NEW X PROVE IsFiniteSet(In(X)) /\ Cardinality(In(X)) \in Nat
    <2>1. In(X) \subseteq T
        OBVIOUS
    <2> HIDE DEF In
    <2> QED BY <2>1, FS_Subset, FS_CardinalityType
<1>2. \A x \in S : f[x] = Cardinality(In({x})) /\ f[x] \in Int
    <2>1. \A x \in S : {t \in T : c[t] = x} = In({x})
        OBVIOUS
    <2> HIDE DEF In
    <2> QED BY <1>1, <2>1
<1>3. ASSUME NEW X \in SUBSET S, \A V \in SUBSET X : V # X => V \in U PROVE X \in U
    <2>1. IsFiniteSet(X)
        BY FS_Subset
    <2>2. CASE X = {}
        <3>1. In(X) = {}
            BY <2>2
        <3> HIDE DEF In
        <3> QED BY <2>1, <2>2, <3>1, FS_EmptySet, SumFirst
    <2>3. CASE X # {}
        <3>1. PICK x \in X : TRUE
            BY <2>3
        <3>2. X \ {x} \in U
            BY <1>3, <3>1
        <3>3. SumFunctionOnSet(f, X) = f[x] + SumFunctionOnSet(f, X \ {x})
            <4>1. \A y \in X : f[y] \in Int
                BY <1>2
            <4> QED BY <2>1, <4>1, SumTakes
        <3>4. In(X) = In({x}) \cup In(X \ {x}) /\ In({x}) \cap In(X \ {x}) = {}
            BY <3>1
        <3> HIDE DEF In
        <3>5. Cardinality(In(X)) = Cardinality(In({x})) + Cardinality(In(X \ {x})) - 0
            <4> DEFINE A == In({x})  B == In(X \ {x})
            <4>1. IsFiniteSet(A) /\ IsFiniteSet(B)
                BY <1>1
            <4> HIDE DEF A, B
            <4>2. Cardinality(A \cup B) = Cardinality(A) + Cardinality(B) - Cardinality(A \cap B)
                BY <4>1, FS_Union
            <4>3. In(X) = A \cup B /\ A \cap B = {}
                BY <3>4 DEF A, B
            <4> QED BY <4>2, <4>3, FS_EmptySet DEF A, B
        <3>6. f[x] = Cardinality(In({x}))
            BY <1>2
        <3> QED BY <1>1, <3>2, <3>3, <3>5, <3>6
    <2> QED BY <2>2, <2>3
<1>4. In(S) = T
    OBVIOUS
<1> HIDE DEF U
<1>5. S \in U
    BY <1>3, SubsetsByInduction
<1> QED BY <1>4, <1>5 DEF U

-----------------------------------------------------------------------------
(* Sorting.                                                                 *)

\* A finite set of numbers can be listed in the order of their values: an
\* element's place is the number of those before it, where equal values are in
\* the order of the elements.
LEMMA SortedListing ==
    ASSUME NEW S \in SUBSET Int, IsFiniteSet(S), NEW v, \A i \in S : v[i] \in Int
    PROVE  \E f \in [1 .. Cardinality(S) -> S] :
              IsInjective(f) /\ \A j, k \in 1 .. Cardinality(S) : j < k => v[f[j]] <= v[f[k]]
<1> DEFINE n == Cardinality(S)
           Before(i, j) == v[i] < v[j] \/ (v[i] = v[j] /\ i <= j)
           UpTo(j) == {i \in S : Before(i, j)}
           rank == [j \in S |-> Cardinality(UpTo(j))]
<1>1. ASSUME NEW j \in S
      PROVE  /\ IsFiniteSet(UpTo(j)) /\ UpTo(j) \in SUBSET S /\ j \in UpTo(j)
             /\ rank[j] = Cardinality(UpTo(j)) /\ rank[j] \in 1 .. n
    <2>1. UpTo(j) \in SUBSET S /\ j \in UpTo(j) /\ rank[j] = Cardinality(UpTo(j))
        OBVIOUS
    <2> HIDE DEF UpTo, rank
    <2>2. IsFiniteSet(UpTo(j)) /\ Cardinality(UpTo(j)) <= n
        BY <2>1, FS_Subset
    <2>3. Cardinality(UpTo(j)) # 0 /\ Cardinality(UpTo(j)) \in Nat /\ n \in Nat
        BY <2>1, <2>2, FS_EmptySet, FS_CardinalityType
    <2> QED BY <2>1, <2>2, <2>3
<1>2. ASSUME NEW i \in S, NEW j \in S, i # j, Before(i, j) PROVE rank[i] < rank[j]
    <2>1. UpTo(i) \in SUBSET UpTo(j) /\ j \notin UpTo(i)
        <3>1. v[i] \in Int /\ v[j] \in Int /\ i \in Int /\ j \in Int
            OBVIOUS
        <3>2. ~ Before(j, i)
            BY <1>2, <3>1
        <3>3. ASSUME NEW k \in S, Before(k, i) PROVE Before(k, j)
            <4>1. v[k] \in Int /\ k \in Int
                OBVIOUS
            <4> QED BY <1>2, <3>1, <3>3, <4>1
        <3> HIDE DEF Before
        <3> QED BY <3>2, <3>3
    <2>2. UpTo(i) # UpTo(j)
        BY <1>1, <2>1
    <2>3. rank[i] = Cardinality(UpTo(i)) /\ rank[j] = Cardinality(UpTo(j)) /\ IsFiniteSet(UpTo(j))
        BY <1>1
    <2>4. rank[i] \in 1 .. n /\ rank[j] \in 1 .. n /\ n \in Nat
        BY <1>1, FS_CardinalityType
    <2> HIDE DEF UpTo, rank
    <2>5. Cardinality(UpTo(i)) <= Cardinality(UpTo(j)) /\ Cardinality(UpTo(i)) # Cardinality(UpTo(j))
        BY <2>1, <2>2, <2>3, FS_Subset
    <2> QED BY <2>3, <2>4, <2>5
<1>3. \A i, j \in S : Before(i, j) \/ Before(j, i)
    OBVIOUS
<1>4. n \in Nat /\ IsFiniteSet(1 .. n) /\ Cardinality(1 .. n) = n
    <2>1. n \in Nat
        BY FS_CardinalityType
    <2> HIDE DEF n
    <2>2. IsFiniteSet(1 .. n) /\ Cardinality(1 .. n) = IF 1 > n THEN 0 ELSE n - 1 + 1
        BY <2>1, FS_Interval
    <2> QED BY <2>1, <2>2
<1>5. rank \in [S -> 1 .. n]
    <2>1. \A j \in S : Cardinality(UpTo(j)) \in 1 .. n
        BY <1>1
    <2> HIDE DEF UpTo
    <2> QED BY <2>1
<1>6. \A i, j \in S : i # j => rank[i] # rank[j]
    <2> SUFFICES ASSUME NEW i \in S, NEW j \in S, i # j PROVE rank[i] # rank[j]
        OBVIOUS
    <2>1. rank[i] \in 1 .. n /\ rank[j] \in 1 .. n
        BY <1>1
    <2>2. rank[i] < rank[j] \/ rank[j] < rank[i]
        <3> HIDE DEF rank, Before
        <3> QED BY <1>2, <1>3
    <2> HIDE DEF rank
    <2> QED BY <1>4, <2>1, <2>2
<1>7. ASSUME NEW k \in 1 .. n PROVE \E i \in S : rank[i] = k
    <2> HIDE DEF rank, n
    <2>1. rank \in Injection(S, 1 .. n)
        BY <1>5, <1>6 DEF Injection, IsInjective
    <2>2. rank \in Surjection(S, 1 .. n)
        BY <1>4, <2>1, FS_Injection DEF n
    <2> QED BY <2>2 DEF Surjection
<1> DEFINE f == [k \in 1 .. n |-> CHOOSE i \in S : rank[i] = k]
<1>8. \A k \in 1 .. n : f[k] \in S /\ rank[f[k]] = k
    <2> HIDE DEF rank, n
    <2> QED BY <1>7
<1>9. f \in [1 .. n -> S]
    <2>1. \A k \in 1 .. n : (CHOOSE i \in S : rank[i] = k) \in S
        <3> HIDE DEF rank, n
        <3> QED BY <1>7
    <2> HIDE DEF rank, n
    <2> QED BY <2>1
<1> HIDE DEF f
<1>10. IsInjective(f)
    <2> HIDE DEF rank, n
    <2>1. DOMAIN f = 1 .. n
        BY <1>9
    <2> QED BY <1>8, <2>1 DEF IsInjective
<1>11. ASSUME NEW j \in 1 .. n, NEW k \in 1 .. n, j < k PROVE v[f[j]] <= v[f[k]]
    <2>1. f[j] \in S /\ f[k] \in S /\ rank[f[j]] = j /\ rank[f[k]] = k
        BY <1>8
    <2>2. v[f[j]] \in Int /\ v[f[k]] \in Int
        BY <2>1
    <2>3. f[j] # f[k] /\ ~ Before(f[k], f[j])
        <3>1. ~ (k < j) /\ j # k
            BY <1>4, <1>11
        <3> HIDE DEF rank, Before
        <3> QED BY <1>2, <2>1, <3>1
    <2> QED BY <2>2, <2>3
<1> HIDE DEF n
<1> QED BY <1>9, <1>10, <1>11 DEF n

\* The elements whose value is at most t.
NoMore(S, v, t) == {i \in S : v[i] <= t}

\* At a place k of such a listing there are k values no larger.
LEMMA SortedPlace ==
    ASSUME NEW S, IsFiniteSet(S), NEW v, \A i \in S : v[i] \in Int,
           NEW f \in [1 .. Cardinality(S) -> S], IsInjective(f),
           \A j, k \in 1 .. Cardinality(S) : j < k => v[f[j]] <= v[f[k]],
           NEW k \in 1 .. Cardinality(S)
    PROVE  Cardinality(NoMore(S, v, v[f[k]])) >= k
<1> DEFINE n == Cardinality(S)  A == NoMore(S, v, v[f[k]])  h == [j \in 1 .. k |-> f[j]]
<1>1. n \in Nat /\ k \in Nat /\ 1 .. k \in SUBSET (1 .. n)
    BY FS_CardinalityType
<1>2. \A j \in 1 .. k : j \in 1 .. n /\ f[j] \in S /\ v[f[j]] <= v[f[k]]
    <2> SUFFICES ASSUME NEW j \in 1 .. k PROVE j \in 1 .. n /\ f[j] \in S /\ v[f[j]] <= v[f[k]]
        OBVIOUS
    <2>1. j \in 1 .. n /\ f[j] \in S /\ f[k] \in S
        BY <1>1
    <2>2. j < k \/ j = k
        BY <1>1
    <2>3. v[f[j]] \in Int
        BY <2>1
    <2> QED BY <2>1, <2>2, <2>3
<1>3. h \in [1 .. k -> A]
    BY <1>1, <1>2 DEF NoMore
<1>4. \A i, j \in 1 .. k : h[i] = h[j] => i = j
    <2>1. DOMAIN f = 1 .. n
        OBVIOUS
    <2> QED BY <1>1, <2>1 DEF IsInjective
<1>5. IsFiniteSet(A)
    <2>1. A \in SUBSET S
        BY DEF NoMore
    <2> HIDE DEF A
    <2> QED BY <2>1, FS_Subset
<1> HIDE DEF A, h
<1>6. h \in Injection(1 .. k, A)
    BY <1>3, <1>4 DEF Injection, IsInjective
<1>7. Cardinality(1 .. k) <= Cardinality(A)
    BY <1>5, <1>6, FS_Injection
<1>8. Cardinality(1 .. k) = k
    <2>1. Cardinality(1 .. k) = IF 1 > k THEN 0 ELSE k - 1 + 1
        BY <1>1, FS_Interval
    <2> QED BY <1>1, <2>1
<1>9. Cardinality(A) \in Nat
    BY <1>5, FS_CardinalityType
<1> QED BY <1>1, <1>7, <1>8, <1>9 DEF A

-----------------------------------------------------------------------------
(* The distribution.                                                        *)

DistTable == [entries : Seq(Line \cup {Unset}), num : Nat, max : Nat, minCdf : Nat, maxCdf : Nat]

\* However often the table grew, it holds the lines that were read.
CdfInv ==
    /\ file \in Files
    /\ dist \in DistTable
    /\ Len(dist.entries) = dist.max /\ dist.max > 0
    /\ dist.num <= dist.max /\ dist.num <= Len(file)
    /\ \A i \in 1 .. dist.num : dist.entries[i] = file[i]

LEMMA LinesTyped == CdfInv => file \in Seq(Line) /\ Len(file) \in Nat \ {0} /\ file # <<>>
BY CdfAssumption DEF CdfInv

LEMMA CdfTypes == CdfInv => CdfTypeOK
BY DEF CdfInv, CdfTypeOK, DistTable

LEMMA CdfStarts == InitCdf => CdfInv
<1> SUFFICES ASSUME InitCdf PROVE CdfInv
    OBVIOUS
<1> DEFINE E == [i \in 1 .. TableEntry |-> Unset]
<1>1. E \in Seq(Line \cup {Unset}) /\ Len(E) = TableEntry
    BY CdfAssumption
<1>2. file \in Files /\ Len(file) \in Nat
    BY CdfAssumption DEF InitCdf
<1> QED BY <1>1, <1>2, CdfAssumption DEF InitCdf, CdfInv, DistTable

\* Growing keeps the lines and makes room for one more.
LEMMA GrownRight ==
    ASSUME CdfInv
    PROVE  LET d == Grown(dist)
           IN  /\ d \in DistTable
               /\ Len(d.entries) = d.max /\ d.num = dist.num /\ d.num < d.max
               /\ \A i \in 1 .. d.num : d.entries[i] = dist.entries[i]
<1>1. CASE dist.num < dist.max
    BY <1>1 DEF Grown, CdfInv, DistTable
<1>2. CASE ~(dist.num < dist.max)
    <2> DEFINE E == [i \in 1 .. 2 * dist.max |->
                       IF i <= dist.num THEN dist.entries[i] ELSE Unset]
    <2>1. dist.num = dist.max /\ dist.max \in Nat \ {0}
        BY <1>2 DEF CdfInv, DistTable
    <2>2. \A i \in 1 .. dist.num : dist.entries[i] \in Line \cup {Unset}
        BY <2>1 DEF CdfInv, DistTable
    <2>3. E \in Seq(Line \cup {Unset}) /\ Len(E) = 2 * dist.max
        BY <2>1, <2>2
    <2>4. \A i \in 1 .. dist.num : E[i] = dist.entries[i]
        BY <2>1
    <2>5. Grown(dist) = [dist EXCEPT !.max = 2 * dist.max, !.entries = E]
        BY <1>2 DEF Grown
    <2> HIDE DEF E
    <2>6. dist \in DistTable
        BY DEF CdfInv
    <2>7. /\ Grown(dist) \in DistTable /\ Grown(dist).entries = E
          /\ Grown(dist).max = 2 * dist.max /\ Grown(dist).num = dist.num
        <3> DEFINE D == dist  M == 2 * dist.max
        <3>1. D \in DistTable /\ M \in Nat /\ E \in Seq(Line \cup {Unset})
            BY <2>1, <2>3, <2>6
        <3> HIDE DEF D, M
        <3>2. LET G == [D EXCEPT !.max = M, !.entries = E]
              IN  G \in DistTable /\ G.entries = E /\ G.max = M /\ G.num = D.num
            BY <3>1 DEF DistTable
        <3>3. Grown(dist) = [D EXCEPT !.max = M, !.entries = E]
            BY <2>5 DEF D, M
        <3> QED BY <3>2, <3>3 DEF D, M
    <2> QED BY <2>1, <2>3, <2>4, <2>7
<1> QED BY <1>1, <1>2

LEMMA ReadLineKeeps == CdfInv /\ ReadLine => CdfInv'
<1> SUFFICES ASSUME CdfInv, ReadLine PROVE CdfInv'
    OBVIOUS
<1> DEFINE d == Grown(dist)  e == LineRead
           E == [i \in DOMAIN d.entries |-> IF i = d.num + 1 THEN e ELSE d.entries[i]]
<1>1. /\ d \in DistTable
      /\ Len(d.entries) = d.max /\ d.num = dist.num /\ d.num < d.max
      /\ \A i \in 1 .. d.num : d.entries[i] = dist.entries[i]
    BY GrownRight
<1>2. e \in Line /\ e = file[dist.num + 1] /\ dist.num + 1 <= Len(file)
    BY LinesTyped DEF ReadLine, LineRead, CdfInv, DistTable
<1>3. Min({d.minCdf, e.cdf}) \in Nat /\ Max({d.maxCdf, e.cdf}) \in Nat
    BY <1>1, <1>2, PairRight DEF Line, DistTable
<1>4. dist' = [d EXCEPT !.entries = E, !.num = d.num + 1,
                        !.minCdf = Min({d.minCdf, e.cdf}), !.maxCdf = Max({d.maxCdf, e.cdf})]
    BY DEF ReadLine, Stored
<1>5. file' = file
    BY DEF ReadLine
<1> HIDE DEF d, e
<1>6. E \in Seq(Line \cup {Unset}) /\ Len(E) = d.max
    BY <1>1, <1>2 DEF DistTable
<1>7. \A i \in 1 .. d.num + 1 : E[i] = file[i]
    BY <1>1, <1>2 DEF CdfInv, DistTable
<1> HIDE DEF E
<1>8. /\ dist'.entries = E /\ dist'.num = d.num + 1 /\ dist'.max = d.max
      /\ dist' \in DistTable
    <2> DEFINE low == Min({d.minCdf, e.cdf})  high == Max({d.maxCdf, e.cdf})  n == d.num + 1
    <2>1. low \in Nat /\ high \in Nat /\ n \in Nat
        BY <1>1, <1>3 DEF DistTable
    <2>2. dist' = [d EXCEPT !.entries = E, !.num = n, !.minCdf = low, !.maxCdf = high]
        BY <1>4
    <2> HIDE DEF low, high, n
    <2>3. dist'.entries = E /\ dist'.num = n /\ dist'.max = d.max
        BY <1>1, <2>2 DEF DistTable
    <2>4. dist' \in DistTable
        BY <1>1, <1>6, <2>1, <2>2 DEF DistTable
    <2> QED BY <2>3, <2>4 DEF n
<1> QED BY <1>1, <1>2, <1>5, <1>6, <1>7, <1>8 DEF CdfInv, DistTable

\* Line 0 is the origin.
LineAt(i) == IF i = 0 THEN [value |-> 0, cdf |-> 0] ELSE file[i]

LEMMA EntryRight ==
    ASSUME CdfInv
    PROVE  \A i \in 0 .. dist.num : Entry(i) = LineAt(i) /\ LineAt(i) \in Line
<1> SUFFICES ASSUME NEW i \in 0 .. dist.num PROVE Entry(i) = LineAt(i) /\ LineAt(i) \in Line
    OBVIOUS
<1>1. dist.num \in Nat /\ DOMAIN dist.entries = 1 .. dist.max
    BY DEF CdfInv, DistTable
<1>2. CASE i = 0
    <2>1. i \notin DOMAIN dist.entries
        BY <1>1, <1>2
    <2> QED BY <1>2, <2>1 DEF Entry, LineAt, Line
<1>3. CASE i # 0
    <2>1. i \in 1 .. dist.num /\ i \in 1 .. dist.max /\ i \in 1 .. Len(file)
        BY <1>1, <1>3, LinesTyped DEF CdfInv, DistTable
    <2>2. Entry(i) = dist.entries[i]
        BY <1>1, <1>3, <2>1 DEF Entry
    <2>3. file[i] \in Line
        BY <2>1, LinesTyped
    <2> QED BY <1>3, <2>1, <2>2, <2>3 DEF CdfInv, LineAt
<1> QED BY <1>2, <1>3

\* A random number is above all lines or falls between two.
LEMMA DrawCases ==
    ASSUME CdfInv, dist.num = Len(file), NEW x \in Nat
    PROVE  \/ /\ \A i \in 1 .. Len(file) : file[i].cdf < x
              /\ GenRandomCdf(x) = file[Len(file)].value
           \/ \E k \in 1 .. Len(file) :
                /\ x <= file[k].cdf /\ LineAt(k - 1).cdf <= x
                /\ \A i \in 1 .. k - 1 : file[i].cdf < x
                /\ GenRandomCdf(x) = Interpolate(x, LineAt(k - 1).cdf, LineAt(k - 1).value,
                                                 file[k].cdf, file[k].value)
<1> DEFINE hits == {i \in 1 .. dist.num : x <= Entry(i).cdf}
<1>1. Len(file) \in Nat \ {0} /\ \A i \in 1 .. Len(file) : file[i] \in Line
    BY LinesTyped
<1>2. \A i \in 1 .. Len(file) : Entry(i) = file[i]
    BY <1>1, EntryRight DEF LineAt
<1>3. \A i \in 1 .. Len(file) : file[i].cdf \in Nat
    BY <1>1 DEF Line
<1>4. hits = {i \in 1 .. Len(file) : x <= file[i].cdf}
    BY <1>2
<1>5. CASE hits = {}
    <2>1. GenRandomCdf(x) = Entry(dist.num).value
        BY <1>5 DEF GenRandomCdf
    <2> QED BY <1>1, <1>2, <1>3, <1>4, <1>5, <2>1
<1>6. CASE hits # {}
    <2> DEFINE k == Min(hits)
    <2>1. k \in hits /\ \A i \in hits : k <= i
        <3>1. hits \in SUBSET Nat
            BY <1>1, <1>4
        <3> HIDE DEF hits
        <3> QED BY <1>6, <3>1, MinRight
    <2>2. GenRandomCdf(x) = Interpolate(x, Entry(k - 1).cdf, Entry(k - 1).value,
                                        Entry(k).cdf, Entry(k).value)
        BY <1>6 DEF GenRandomCdf
    <2> HIDE DEF k
    <2>3. k \in 1 .. Len(file) /\ x <= file[k].cdf
        BY <1>4, <2>1
    <2>4. \A i \in 1 .. k - 1 : file[i].cdf < x
        BY <1>1, <1>3, <1>4, <2>1, <2>3
    <2>5. Entry(k) = file[k] /\ Entry(k - 1) = LineAt(k - 1)
        BY <1>1, <1>2, <2>3, EntryRight
    <2>6. LineAt(k - 1).cdf <= x
        <3>1. CASE k = 1
            BY <3>1 DEF LineAt
        <3>2. CASE k # 1
            <4>1. k - 1 \in 1 .. k - 1 /\ k - 1 # 0 /\ file[k - 1].cdf \in Nat
                BY <1>1, <1>3, <2>3, <3>2
            <4> QED BY <2>4, <4>1 DEF LineAt
        <3> QED BY <3>1, <3>2
    <2> QED BY <2>2, <2>3, <2>4, <2>5, <2>6
<1> QED BY <1>5, <1>6

\* The size drawn is a number, also where the file's values fall.
LEMMA DrawTyped ==
    ASSUME CdfInv, dist.num = Len(file), NEW x \in Nat
    PROVE  GenRandomCdf(x) \in Nat
<1>1. Len(file) \in Nat \ {0} /\ \A i \in 1 .. Len(file) : file[i] \in Line
    BY LinesTyped
<1>2. CASE GenRandomCdf(x) = file[Len(file)].value
    BY <1>1, <1>2 DEF Line
<1>3. CASE \E k \in 1 .. Len(file) :
             /\ x <= file[k].cdf /\ LineAt(k - 1).cdf <= x
             /\ GenRandomCdf(x) = Interpolate(x, LineAt(k - 1).cdf, LineAt(k - 1).value,
                                              file[k].cdf, file[k].value)
    <2>1. PICK k \in 1 .. Len(file) :
             /\ x <= file[k].cdf /\ LineAt(k - 1).cdf <= x
             /\ GenRandomCdf(x) = Interpolate(x, LineAt(k - 1).cdf, LineAt(k - 1).value,
                                              file[k].cdf, file[k].value)
        BY <1>3
    <2>2. file[k] \in Line /\ LineAt(k - 1) \in Line
        BY <1>1, EntryRight
    <2>3. /\ file[k].cdf \in Nat /\ file[k].value \in Nat
          /\ LineAt(k - 1).cdf \in Nat /\ LineAt(k - 1).value \in Nat
        BY <2>2 DEF Line
    <2>4. x \in LineAt(k - 1).cdf .. file[k].cdf
        BY <2>1, <2>3
    <2> DEFINE x1 == LineAt(k - 1).cdf  y1 == LineAt(k - 1).value
               x2 == file[k].cdf  y2 == file[k].value
    <2>5. x1 \in Nat /\ y1 \in Nat /\ x2 \in Nat /\ y2 \in Nat /\ x \in x1 .. x2
        BY <2>3, <2>4
    <2>6. GenRandomCdf(x) = Interpolate(x, x1, y1, x2, y2)
        BY <2>1
    <2> HIDE DEF x1, y1, x2, y2
    <2> QED BY <2>5, <2>6, InterpolateRight
<1> QED BY <1>2, <1>3, DrawCases

\* conf/cdf: values and probabilities grow from line to line, and a line with a
\* probability is not for the size 0; the number drawn is above 0.
Increasing ==
    /\ 0 \notin Draws
    /\ \A f \in Files :
        /\ f[1].cdf > 0 => f[1].value > 0
        /\ \A i, j \in 1 .. Len(f) : i < j => f[i].value < f[j].value /\ f[i].cdf < f[j].cdf

\* Then the size drawn is below a line's exactly if the number is.
LEMMA DrawFollows ==
    ASSUME Increasing, CdfInv, dist.num = Len(file), NEW x \in Nat \ {0}
    PROVE  \A i \in 1 .. Len(file) : GenRandomCdf(x) < file[i].value <=> x < file[i].cdf
<1> DEFINE n == Len(file)
<1>1. n \in Nat \ {0} /\ \A i \in 1 .. n : file[i].value \in Nat /\ file[i].cdf \in Nat
    <2>1. n \in Nat \ {0} /\ file \in Seq(Line)
        BY LinesTyped
    <2>2. \A i \in 1 .. n : file[i] \in Line
        BY <2>1
    <2> QED BY <2>1, <2>2 DEF Line
<1>2. /\ file[1].cdf > 0 => file[1].value > 0
      /\ \A i, j \in 1 .. n : i < j => file[i].value < file[j].value /\ file[i].cdf < file[j].cdf
    BY DEF Increasing, CdfInv
<1> HIDE DEF n
<1>3. CASE /\ \A i \in 1 .. n : file[i].cdf < x
           /\ GenRandomCdf(x) = file[n].value
    <2>1. \A i \in 1 .. n : file[i].value <= file[n].value
        BY <1>1, <1>2
    <2> QED BY <1>1, <1>3, <2>1 DEF n
<1>4. ASSUME NEW k \in 1 .. n,
             x <= file[k].cdf, LineAt(k - 1).cdf <= x,
             \A i \in 1 .. k - 1 : file[i].cdf < x,
             GenRandomCdf(x) = Interpolate(x, LineAt(k - 1).cdf, LineAt(k - 1).value,
                                           file[k].cdf, file[k].value)
      PROVE  \A i \in 1 .. n : GenRandomCdf(x) < file[i].value <=> x < file[i].cdf
    <2> DEFINE x1 == LineAt(k - 1).cdf  y1 == LineAt(k - 1).value
               x2 == file[k].cdf  y2 == file[k].value  v == GenRandomCdf(x)
    <2>1. x1 \in Nat /\ y1 \in Nat /\ x2 \in Nat /\ y2 \in Nat
        BY <1>1 DEF LineAt
    <2>2. x1 < x2 /\ y1 < y2
        <3>1. CASE k = 1
            BY <1>1, <1>2, <1>4, <3>1 DEF LineAt
        <3>2. CASE k # 1
            <4>1. k - 1 \in 1 .. n /\ k - 1 < k /\ k - 1 # 0
                BY <1>1, <3>2
            <4> QED BY <1>2, <4>1 DEF LineAt
        <3> QED BY <3>1, <3>2
    <2>3. x \in x1 .. x2
        BY <1>4, <2>1
    <2>4. v = Interpolate(x, x1, y1, x2, y2)
        BY <1>4
    <2>5. \A i \in 1 .. k - 1 : file[i].value <= y1
        BY <1>1, <1>2 DEF LineAt
    <2>6. \A i \in 1 .. n : i > k => y2 < file[i].value /\ x2 < file[i].cdf
        BY <1>2
    <2> HIDE DEF x1, y1, x2, y2, v
    <2>7. v \in y1 .. y2 /\ (v < y2 <=> x < x2)
        BY <2>1, <2>2, <2>3, <2>4, InterpolateRight
    <2> SUFFICES ASSUME NEW i \in 1 .. n PROVE v < file[i].value <=> x < file[i].cdf
        BY DEF v
    <2>8. CASE i < k
        <3>1. i \in 1 .. k - 1
            BY <1>1, <2>8
        <3>2. file[i].value \in Nat /\ file[i].cdf \in Nat
            BY <1>1
        <3>3. file[i].cdf < x /\ file[i].value <= y1
            BY <1>4, <2>5, <3>1
        <3> QED BY <2>1, <2>7, <3>2, <3>3
    <2>9. CASE i = k
        BY <2>7, <2>9 DEF x2, y2
    <2>10. CASE i > k
        <3>1. file[i].value \in Nat /\ file[i].cdf \in Nat
            BY <1>1
        <3>2. y2 < file[i].value /\ x2 < file[i].cdf
            BY <2>6, <2>10
        <3> QED BY <2>1, <2>3, <2>7, <3>1, <3>2
    <2> QED BY <1>1, <2>8, <2>9, <2>10
<1> QED BY <1>3, <1>4, DrawCases DEF n

-----------------------------------------------------------------------------
(* The invariant.                                                           *)

PhaseInv ==
    /\ CdfInv
    /\ phase \in Phases /\ conf \in Configs /\ ifaddrs \in Interfaces
    /\ phase \in {"create", "run", "done"} => dist.num = Len(file)

\* The addresses taken are different ones of the device's.
IpsInv ==
    /\ ifa \in 0 .. Len(ifaddrs) /\ ips \in Seq(Nat)
    /\ \A k \in 1 .. Len(ips) : ips[k] \in 1 .. ifa /\ Takes(ifaddrs[ips[k]])
    /\ \A j, k \in 1 .. Len(ips) : ips[j] = ips[k] => j = k

\* The flows that are not requested or not answered.
Open == (socks \ DOMAIN began) \cup active

\* Until the event loop runs nothing is closed, so that the descriptors are the
\* lowest; left_flows counts the flows that are to come.
FdInv ==
    /\ conf.flows \in Nat /\ tried \in 0 .. conf.flows
    /\ fds \subseteq 0 .. Held + tried - 1 /\ socks \subseteq fds
    /\ active \subseteq socks \cap DOMAIN began
    /\ left \in 0 .. tried /\ left = Cardinality(Open)
    /\ phase \in {"args", "ips", "cdf", "create"} =>
        /\ active = {} /\ DOMAIN began = {}
        /\ \E n \in Nat : n <= Held + tried /\ fds = 0 .. n - 1

Time == [sec : Int, usec : Int]
Row == [fd : Nat, size : Nat, req : Time, fct : Int]

\* n rows, of which each is empty or for its descriptor.
Rows(r, n) == r \in [0 .. n - 1 -> Row] /\ \A i \in 0 .. n - 1 : r[i].fd \in {0, i}

RowInv ==
    /\ \E n \in Nat : n >= conf.flows + Backup /\ Rows(rows, n)
    /\ errors \in [conn : Nat, size : Nat]
    /\ result = <<>> \/ DOMAIN result = Groups
    /\ now \in 0 .. MaxTime

TableInv == PhaseInv /\ IpsInv /\ FdInv /\ RowInv

LEMMA ConfTyped ==
    ASSUME PhaseInv
    PROVE  /\ conf.flows \in Nat /\ conf.threads \in Nat
           /\ Len(ifaddrs) \in Nat /\ ifaddrs \in Seq([name : {"dev", "alias", "other"}, inet : BOOLEAN])
BY SetupAssumption DEF PhaseInv

LEMMA OpenFinite ==
    ASSUME FdInv
    PROVE  /\ IsFiniteSet(fds) /\ IsFiniteSet(socks) /\ IsFiniteSet(Open)
           /\ Open \subseteq socks
<1>1. IsFiniteSet(0 .. Held + tried - 1)
    <2>1. 0 \in Int /\ Held + tried - 1 \in Int
        BY SetupAssumption DEF FdInv
    <2> QED BY <2>1, FS_Interval
<1>2. Open \subseteq socks /\ socks \subseteq fds /\ fds \subseteq 0 .. Held + tried - 1
    BY DEF FdInv, Open
<1> QED BY <1>1, <1>2, FS_Subset

LEMMA InvTypes == TableInv => TypeOK
<1> SUFFICES ASSUME TableInv PROVE TypeOK
    OBVIOUS
<1>1. SetupTypeOK
    <2>1. CdfTypeOK
        BY CdfTypes DEF TableInv, PhaseInv
    <2>2. fds \subseteq Nat
        BY SetupAssumption DEF TableInv, FdInv
    <2>3. ifa \in Nat
        BY ConfTyped DEF TableInv, IpsInv
    <2> QED BY <2>1, <2>2, <2>3 DEF TableInv, PhaseInv, IpsInv, FdInv, SetupTypeOK
<1>2. PICK n \in Nat : Rows(rows, n)
    BY DEF TableInv, RowInv
<1>3. DOMAIN rows = 0 .. n - 1
    BY <1>2 DEF Rows
<1>4. Cardinality(0 .. n - 1) = n
    <2>1. 0 \in Int /\ n - 1 \in Int
        BY <1>2
    <2>2. Cardinality(0 .. n - 1) = IF 0 > n - 1 THEN 0 ELSE (n - 1) - 0 + 1
        BY <2>1, FS_Interval
    <2> QED BY <2>2
<1>5. DOMAIN rows = 0 .. Cardinality(DOMAIN rows) - 1
    BY <1>3, <1>4
<1>6. \A i \in DOMAIN rows : rows[i].fd \in {0, i} /\ rows[i].size \in Nat
    BY <1>2 DEF Rows, Row
<1> QED BY <1>1, <1>5, <1>6 DEF TypeOK, TableInv, FdInv, RowInv

LEMMA InvStarts == Init => TableInv
<1> SUFFICES ASSUME Init PROVE TableInv
    OBVIOUS
<1>1. PhaseInv
    BY CdfStarts DEF Init, InitSetup, PhaseInv, Phases
<1>2. IpsInv
    BY <1>1, ConfTyped DEF Init, InitSetup, IpsInv
<1>3. FdInv
    <2>1. Open = {} /\ DOMAIN began = {}
        BY DEF Init, InitSetup, Open
    <2>2. Cardinality(Open) = 0
        BY <2>1, FS_EmptySet
    <2>3. conf.flows \in Nat /\ Held \in Nat
        BY <1>1, ConfTyped, SetupAssumption
    <2>4. fds = 0 .. Held - 1 /\ socks = {} /\ active = {} /\ tried = 0 /\ left = 0
        BY DEF Init, InitSetup
    <2> QED BY <2>1, <2>2, <2>3, <2>4 DEF FdInv
<1>4. RowInv
    <2>1. conf.flows + Backup \in Nat
        BY <1>1, ConfTyped, TableAssumption
    <2>2. NoRow \in Row /\ NoRow.fd = 0
        BY DEF NoRow, Row, NoTime, Time
    <2>3. rows = [i \in 0 .. (conf.flows + Backup) - 1 |-> NoRow]
        BY DEF Init, MaxEntries
    <2>4. Rows(rows, conf.flows + Backup)
        BY <2>1, <2>2, <2>3 DEF Rows
    <2> QED BY <2>1, <2>4, TableAssumption DEF RowInv, Init
<1> QED BY <1>1, <1>2, <1>3, <1>4 DEF TableInv

-----------------------------------------------------------------------------
(* No step breaks it.                                                       *)

\* What the event loop's steps leave as the set-up made it.
LEMMA LoopFrame ==
    ASSUME Tick \/ PrintStatistics
             \/ \E fd \in socks : Request(fd) \/ Answer(fd) \/ Fail(fd, "conn") \/ Fail(fd, "size")
    PROVE  /\ UNCHANGED <<file, dist, conf, ifaddrs, ifa, ips, tried>>
           /\ phase = "run" /\ phase' \in {"run", "done"}
BY DEF Tick, PrintStatistics, Request, Answer, Fail, Ends, Enter,
       setupVars, cdfVars, argVars, ipVars, connVars

LEMMA PhaseKept == PhaseInv /\ [Next]_vars => PhaseInv'
<1> SUFFICES ASSUME PhaseInv, [Next]_vars PROVE PhaseInv'
    OBVIOUS
<1>1. CASE SetUp
    <2>1. CASE ReadArgs \/ NextIp \/ HaveIps \/ Create \/ CreateLeaks \/ CreateFails \/ Created
        <3>1. UNCHANGED <<file, dist, conf, ifaddrs>> /\ phase' \in Phases
            BY <2>1 DEF PhaseInv, Phases, ReadArgs, NextIp, HaveIps, Create, CreateLeaks, CreateFails,
                        Created, Attempt, Enter, cdfVars, argVars
        <3>2. phase' \in {"create", "run", "done"} => phase \in {"create", "run", "done"}
            BY <2>1 DEF ReadArgs, NextIp, HaveIps, Create, CreateLeaks, CreateFails,
                        Created, Attempt, Enter
        <3>3. CdfInv'
            BY <3>1 DEF PhaseInv, CdfInv
        <3> QED BY <3>1, <3>2, <3>3 DEF PhaseInv
    <2>2. CASE LoadLine
        BY <2>2, ReadLineKeeps DEF LoadLine, PhaseInv, argVars
    <2>3. CASE LoadEnd
        <3>1. UNCHANGED <<file, dist, conf, ifaddrs>> /\ phase' \in {"create", "exited"}
            BY <2>3 DEF LoadEnd, Enter, cdfVars, argVars
        <3>2. phase' = "create" => dist.num = Len(file)
            BY <2>3 DEF LoadEnd, Enter, Loaded
        <3>3. CdfInv'
            BY <3>1 DEF PhaseInv, CdfInv
        <3> QED BY <3>1, <3>2, <3>3 DEF PhaseInv, Phases
    <2> QED BY <1>1, <2>1, <2>2, <2>3 DEF SetUp, SetupStep
<1>2. CASE UNCHANGED vars
    BY <1>2 DEF PhaseInv, CdfInv, vars, setupVars, cdfVars, argVars
<1>3. CASE Tick \/ PrintStatistics
             \/ \E fd \in socks : Request(fd) \/ Answer(fd) \/ Fail(fd, "conn") \/ Fail(fd, "size")
    <2>1. /\ UNCHANGED <<file, dist, conf, ifaddrs>>
          /\ phase = "run" /\ phase' \in {"run", "done"}
        BY <1>3, LoopFrame, Zenon
    <2>2. CdfInv'
        BY <2>1 DEF PhaseInv, CdfInv
    <2> QED BY <2>1, <2>2 DEF PhaseInv, Phases
<1> QED BY <1>1, <1>2, <1>3 DEF Next

\* An address is taken once.
LEMMA IpsKept == PhaseInv /\ IpsInv /\ [Next]_vars => IpsInv'
<1> SUFFICES ASSUME PhaseInv, IpsInv, [Next]_vars PROVE IpsInv'
    OBVIOUS
<1>1. CASE NextIp
    <2>1. /\ ifaddrs' = ifaddrs /\ ifa' = ifa + 1 /\ ifa # Len(ifaddrs)
          /\ ips' = IF Takes(ifaddrs[ifa + 1]) THEN Append(ips, ifa + 1) ELSE ips
        BY <1>1 DEF NextIp, argVars, IpsEnd
    <2>2. ifa' \in 0 .. Len(ifaddrs) /\ ifa + 1 \in Nat /\ ifa \in Nat
        BY <2>1, ConfTyped DEF IpsInv
    <2>3. CASE Takes(ifaddrs[ifa + 1])
        <3>1. /\ ips' = Append(ips, ifa + 1) /\ ips' \in Seq(Nat) /\ Len(ips') = Len(ips) + 1
              /\ ips'[Len(ips) + 1] = ifa + 1 /\ \A k \in 1 .. Len(ips) : ips'[k] = ips[k]
            BY <2>1, <2>2, <2>3 DEF IpsInv
        <3>2. \A k \in 1 .. Len(ips) + 1 : k \in 1 .. Len(ips) \/ k = Len(ips) + 1
            BY DEF IpsInv
        <3>3. \A k \in 1 .. Len(ips') : ips'[k] \in 1 .. ifa + 1 /\ Takes(ifaddrs[ips'[k]])
            BY <2>2, <2>3, <3>1, <3>2 DEF IpsInv
        <3>4. \A j, k \in 1 .. Len(ips') : ips'[j] = ips'[k] => j = k
            <4>1. \A k \in 1 .. Len(ips) : ips'[k] # ifa + 1
                BY <2>2, <3>1 DEF IpsInv
            <4> QED BY <3>1, <3>2, <4>1 DEF IpsInv
        <3> QED BY <2>1, <2>2, <3>1, <3>3, <3>4 DEF IpsInv, Takes
    <2>4. CASE ~Takes(ifaddrs[ifa + 1])
        BY <2>1, <2>2, <2>4 DEF IpsInv, Takes
    <2> QED BY <2>3, <2>4
<1>2. CASE UNCHANGED <<ifaddrs, ifa, ips>>
    BY <1>2 DEF IpsInv, Takes
<1>3. [Next]_vars => NextIp \/ UNCHANGED <<ifaddrs, ifa, ips>>
    <2>1. SetUp => NextIp \/ UNCHANGED <<ifaddrs, ifa, ips>>
        BY DEF SetUp, SetupStep, ReadArgs, HaveIps, LoadLine, LoadEnd, Create, CreateLeaks,
               CreateFails, Created, Attempt, argVars, ipVars
    <2>2. UNCHANGED vars => UNCHANGED <<ifaddrs, ifa, ips>>
        BY DEF vars, setupVars, argVars, ipVars
    <2> QED BY <2>1, <2>2, LoopFrame DEF Next
<1> QED BY <1>1, <1>2, <1>3

\* Until something is closed, the lowest free descriptor is the next one.
LEMMA NextDescriptor ==
    ASSUME NEW n \in Nat, fds = 0 .. n - 1
    PROVE  LowestFree = n
<1>1. Cardinality(fds) = n
    <2>1. 0 \in Int /\ n - 1 \in Int
        OBVIOUS
    <2>2. Cardinality(0 .. n - 1) = IF 0 > n - 1 THEN 0 ELSE (n - 1) - 0 + 1
        BY <2>1, FS_Interval
    <2> QED BY <2>2
<1>2. (0 .. n) \ fds = {n}
    OBVIOUS
<1>3. Min({n}) = n
    BY MinRight
<1> QED BY <1>1, <1>2, <1>3 DEF LowestFree

LEMMA CreateKeeps ==
    ASSUME FdInv, Create \/ CreateLeaks \/ CreateFails, UNCHANGED <<active, began>>
    PROVE  FdInv'
<1>1. /\ phase = "create" /\ UNCHANGED <<phase, conf>> /\ tried < conf.flows /\ tried' = tried + 1
      /\ active = {} /\ DOMAIN began = {} /\ active' = {} /\ DOMAIN began' = {}
    BY DEF Create, CreateLeaks, CreateFails, Attempt, argVars, FdInv
<1>2. PICK n \in Nat : n <= Held + tried /\ fds = 0 .. n - 1
    BY <1>1 DEF FdInv
<1>3. /\ conf.flows \in Nat /\ tried \in Nat /\ Held \in Nat /\ tried' \in 0 .. conf.flows
      /\ left \in 0 .. tried
    BY <1>1, SetupAssumption DEF FdInv
<1>4. Open = socks /\ Open' = socks'
    BY <1>1 DEF Open
<1>5. IsFiniteSet(socks) /\ left = Cardinality(socks) /\ socks \subseteq fds
    BY <1>4, OpenFinite DEF FdInv
<1>6. CASE Create \/ CreateLeaks
    <2>1. fds' = fds \cup {n}
        BY <1>2, <1>6, NextDescriptor DEF Create, CreateLeaks
    <2>2. fds' = 0 .. (n + 1) - 1 /\ n + 1 \in Nat /\ n + 1 <= Held + tried'
        BY <1>1, <1>2, <1>3, <2>1
    <2>3. /\ fds' \subseteq 0 .. Held + tried' - 1
          /\ \E m \in Nat : m <= Held + tried' /\ fds' = 0 .. m - 1
        BY <1>1, <1>3, <2>2
    <2>4. CASE Create
        <3>1. socks' = socks \cup {n} /\ left' = left + 1 /\ n \notin socks
            BY <1>2, <1>5, <2>4, NextDescriptor DEF Create
        <3>2. Cardinality(socks') = left + 1
            BY <1>3, <1>5, <3>1, FS_AddElement
        <3>3. socks' \subseteq fds' /\ left' \in 0 .. tried'
            BY <1>1, <1>3, <1>5, <2>1, <3>1
        <3> QED BY <1>1, <1>3, <1>4, <2>3, <3>1, <3>2, <3>3 DEF FdInv
    <2>5. CASE CreateLeaks
        <3>1. UNCHANGED <<socks, left>>
            BY <2>5 DEF CreateLeaks
        <3>2. socks' \subseteq fds' /\ left' \in 0 .. tried'
            BY <1>1, <1>3, <1>5, <2>1, <3>1
        <3> QED BY <1>1, <1>3, <1>4, <1>5, <2>3, <3>1, <3>2 DEF FdInv
    <2> QED BY <1>6, <2>4, <2>5
<1>7. CASE CreateFails
    <2>1. UNCHANGED <<fds, socks, left>>
        BY <1>7 DEF CreateFails
    <2>2. n <= Held + tried' /\ fds' \subseteq 0 .. Held + tried' - 1
        BY <1>1, <1>2, <1>3, <2>1
    <2> QED BY <1>1, <1>2, <1>3, <1>4, <1>5, <2>1, <2>2 DEF FdInv
<1> QED BY <1>6, <1>7

\* A flow that ends was one of those left.
LEMMA EndKeeps ==
    ASSUME FdInv, NEW fd \in socks, Ends(fd),
           \/ UNCHANGED <<fds, socks>>
           \/ fds' = fds \ {fd} /\ socks' = socks \ {fd}
    PROVE  FdInv'
<1>1. /\ fd \in active /\ active' = active \ {fd} /\ left' = left - 1
      /\ UNCHANGED <<phase, conf, ifaddrs, tried, began>> /\ phase = "run"
    BY DEF Ends, argVars
<1>2. fd \in DOMAIN began /\ fd \in Open
    BY <1>1 DEF FdInv, Open
<1>3. Open' = Open \ {fd}
    BY <1>1, <1>2 DEF Open
<1>4. Cardinality(Open \ {fd}) = Cardinality(Open) - 1 /\ Cardinality(Open) \in Nat
    BY <1>2, OpenFinite, FS_RemoveElement, FS_CardinalityType
<1>5. Cardinality(Open \ {fd}) \in Nat
    BY OpenFinite, FS_RemoveElement, FS_CardinalityType
<1>6. left' \in 0 .. tried' /\ left' = Cardinality(Open)'
    BY <1>1, <1>3, <1>4, <1>5 DEF FdInv
<1>7. fds' \subseteq fds /\ socks' \subseteq fds' /\ active' \subseteq socks' \cap DOMAIN began'
    BY <1>1 DEF FdInv
<1> QED BY <1>1, <1>6, <1>7 DEF FdInv

LEMMA FdKept == FdInv /\ [Next]_vars => FdInv'
<1> SUFFICES ASSUME FdInv, [Next]_vars PROVE FdInv'
    OBVIOUS
<1>1. ASSUME UNCHANGED <<conf, connVars, active, began>>,
             phase' \in {"args", "ips", "cdf", "create"}
               => phase \in {"args", "ips", "cdf", "create"}
      PROVE  FdInv'
    <2>1. Open' = Open
        BY <1>1 DEF Open, connVars
    <2> QED BY <1>1, <2>1 DEF FdInv, connVars
<1>2. CASE SetUp
    <2>1. UNCHANGED <<active, began>>
        BY <1>2 DEF SetUp, historyVars
    <2>2. CASE ReadArgs \/ NextIp \/ HaveIps \/ LoadLine \/ LoadEnd \/ Created
        <3>1. UNCHANGED <<conf, connVars>>
            BY <2>2 DEF ReadArgs, NextIp, HaveIps, LoadLine, LoadEnd, Created, argVars
        <3>2. phase' \in {"args", "ips", "cdf", "create"}
                => phase \in {"args", "ips", "cdf", "create"}
            BY <2>2 DEF ReadArgs, NextIp, HaveIps, LoadLine, LoadEnd, Created, Enter
        <3> QED BY <1>1, <2>1, <3>1, <3>2
    <2> QED BY <1>2, <2>1, <2>2, CreateKeeps DEF SetUp, SetupStep
<1>3. CASE Tick \/ PrintStatistics \/ UNCHANGED vars
    <2>1. UNCHANGED <<conf, connVars, active, began>>
        BY <1>3 DEF Tick, PrintStatistics, vars, setupVars, argVars, historyVars
    <2>2. phase' \in {"args", "ips", "cdf", "create"}
            => phase \in {"args", "ips", "cdf", "create"}
        BY <1>3 DEF Tick, PrintStatistics, vars, setupVars, Enter
    <2> QED BY <1>1, <2>1, <2>2
<1>4. ASSUME NEW fd \in socks, Request(fd) PROVE FdInv'
    <2>1. /\ phase = "run" /\ UNCHANGED <<phase, conf, fds, socks, tried, left>>
          /\ fd \notin DOMAIN began /\ active' = active \cup {fd}
          /\ DOMAIN began' = DOMAIN began \cup {fd}
        BY <1>4 DEF Request, setupVars, argVars, connVars
    <2>2. Open' = Open
        BY <2>1 DEF Open
    <2> QED BY <2>1, <2>2 DEF FdInv
<1>5. ASSUME NEW fd \in socks, Answer(fd) PROVE FdInv'
    BY <1>5, EndKeeps DEF Answer
<1>6. ASSUME NEW fd \in socks, NEW kind, Fail(fd, kind) PROVE FdInv'
    BY <1>6, EndKeeps DEF Fail
<1> QED BY <1>2, <1>3, <1>4, <1>5, <1>6 DEF Next

\* A row may be replaced by one for the same descriptor.
LEMMA RowReplaced ==
    ASSUME NEW n \in Nat, NEW r, Rows(r, n), NEW fd \in Nat, NEW v,
           fd < n => v \in Row /\ v.fd \in {0, fd}
    PROVE  Rows([r EXCEPT ![fd] = v], n)
<1> DEFINE q == [r EXCEPT ![fd] = v]
<1>1. r \in [0 .. n - 1 -> Row] /\ \A i \in 0 .. n - 1 : r[i].fd \in {0, i}
    BY DEF Rows
<1>2. CASE fd < n
    <2>1. fd \in 0 .. n - 1 /\ v \in Row /\ v.fd \in {0, fd}
        BY <1>2
    <2>2. q \in [0 .. n - 1 -> Row] /\ \A i \in 0 .. n - 1 : q[i] = IF i = fd THEN v ELSE r[i]
        BY <1>1, <2>1
    <2> HIDE DEF q
    <2>3. ASSUME NEW i \in 0 .. n - 1 PROVE q[i].fd \in {0, i}
        <3>1. CASE i = fd
            BY <2>1, <2>2, <3>1
        <3>2. CASE i # fd
            <4>1. q[i] = r[i]
                BY <2>2, <3>2
            <4> QED BY <1>1, <4>1
        <3> QED BY <3>1, <3>2
    <2> QED BY <2>2, <2>3 DEF q, Rows
<1>3. CASE ~(fd < n)
    <2>1. fd \notin 0 .. n - 1
        BY <1>3
    <2>2. q = r
        BY <1>1, <2>1
    <2> QED BY <2>2 DEF q
<1> QED BY <1>2, <1>3

LEMMA ExtendedRight ==
    ASSUME NEW n \in Nat, Rows(rows, n), NEW fd \in Nat
    PROVE  \E m \in Nat : m >= n /\ Rows(Extended(fd), m)
<1>1. Cardinality(DOMAIN rows) = n
    <2>1. DOMAIN rows = 0 .. n - 1 /\ 0 \in Int /\ n - 1 \in Int
        BY DEF Rows
    <2>2. Cardinality(0 .. n - 1) = IF 0 > n - 1 THEN 0 ELSE (n - 1) - 0 + 1
        BY <2>1, FS_Interval
    <2> QED BY <2>1, <2>2
<1>2. CASE fd < n
    <2>1. Extended(fd) = rows
        BY <1>1, <1>2 DEF Extended
    <2> QED BY <2>1
<1>3. CASE ~(fd < n)
    <2>1. Extended(fd) = [i \in 0 .. 2 * n - 1 |-> IF i < n THEN rows[i] ELSE NoRow]
        BY <1>1, <1>3 DEF Extended
    <2>2. NoRow \in Row /\ NoRow.fd = 0
        BY DEF NoRow, Row, NoTime, Time
    <2>3. \A i \in 0 .. 2 * n - 1 : i < n => i \in 0 .. n - 1
        OBVIOUS
    <2>4. Rows(Extended(fd), 2 * n)
        BY <2>1, <2>2, <2>3 DEF Rows
    <2> QED BY <2>4
<1> QED BY <1>2, <1>3

LEMMA TimesTyped ==
    /\ now \in Nat => TimeOfDay \in Time
    /\ \A s, t \in Time : GetTimeDiff(s, t) \in Int
<1>1. now \in Nat => TimeOfDay \in Time
    BY TableAssumption DEF TimeOfDay, Time
<1>2. ASSUME NEW s \in Time, NEW t \in Time PROVE GetTimeDiff(s, t) \in Int
    <2> DEFINE d == (t.sec - s.sec) * SToUs + (t.usec - s.usec)
    <2>1. d \in Int
        BY TableAssumption DEF Time
    <2> HIDE DEF d
    <2>2. AsInt(d) \in Int
        BY <2>1, TableAssumption DEF AsInt
    <2> QED BY <2>2 DEF d, GetTimeDiff
<1> QED BY <1>1, <1>2

\* The numbers that may be drawn are what the assumption says.
LEMMA DrawsTyped == RandRange \subseteq Draws /\ Draws \subseteq Nat
BY CdfAssumption DEF RandRange

\* A row is filled for the flow that is requested.
LEMMA RequestFills ==
    ASSUME TableInv, NEW fd \in socks, Request(fd)
    PROVE  RowInv'
<1>1. /\ phase = "run" /\ UNCHANGED <<conf, errors, result, now>>
      /\ fd \in Nat /\ now \in Nat /\ dist.num = Len(file) /\ CdfInv
    BY SetupAssumption, TableAssumption DEF Request, setupVars, argVars, TableInv, PhaseInv, FdInv, RowInv
<1>2. PICK x \in RandRange :
        rows' = [Extended(fd) EXCEPT
                   ![fd] = [fd |-> fd, size |-> GenRandomCdf(x), req |-> TimeOfDay, fct |-> 0]]
    BY DEF Request
<1> DEFINE v == [fd |-> fd, size |-> GenRandomCdf(x), req |-> TimeOfDay, fct |-> 0]
<1>3. v \in Row /\ v.fd = fd
    <2>1. GenRandomCdf(x) \in Nat
        BY <1>1, <1>2, DrawsTyped, DrawTyped
    <2>2. TimeOfDay \in Time
        BY <1>1, TimesTyped
    <2> QED BY <1>1, <2>1, <2>2 DEF Row
<1>4. PICK n \in Nat : n >= conf.flows + Backup /\ Rows(rows, n)
    BY DEF TableInv, RowInv
<1>5. PICK m \in Nat : m >= n /\ Rows(Extended(fd), m)
    BY <1>1, <1>4, ExtendedRight
<1> HIDE DEF v
<1>6. Rows(rows', m)
    BY <1>1, <1>2, <1>3, <1>5, RowReplaced DEF v
<1>7. conf.flows + Backup \in Nat
    BY ConfTyped, TableAssumption DEF TableInv
<1>8. m >= conf.flows + Backup
    BY <1>4, <1>5, <1>7
<1> QED BY <1>1, <1>6, <1>8 DEF TableInv, RowInv

\* Stamping or emptying a row leaves it a row.
LEMMA RowUpdated ==
    ASSUME NEW n \in Nat, Rows(rows, n), NEW fd \in Nat
    PROVE  /\ \A t \in Int : Rows([rows EXCEPT ![fd].fct = t], n)
           /\ Rows([rows EXCEPT ![fd].fd = 0], n)
<1> DEFINE old == rows[fd]
<1>1. fd < n => old \in Row /\ old.fd \in {0, fd}
    BY DEF Rows
<1>2. ASSUME NEW t \in Int PROVE Rows([rows EXCEPT ![fd].fct = t], n)
    <2> DEFINE v == [old EXCEPT !.fct = t]
    <2>1. fd < n => v \in Row /\ v.fd \in {0, fd}
        BY <1>1 DEF Row
    <2>2. [rows EXCEPT ![fd].fct = t] = [rows EXCEPT ![fd] = v]
        OBVIOUS
    <2> HIDE DEF v
    <2> QED BY <2>1, <2>2, RowReplaced
<1>3. Rows([rows EXCEPT ![fd].fd = 0], n)
    <2> DEFINE v == [old EXCEPT !.fd = 0]
    <2>1. fd < n => v \in Row /\ v.fd \in {0, fd}
        BY <1>1 DEF Row
    <2>2. [rows EXCEPT ![fd].fd = 0] = [rows EXCEPT ![fd] = v]
        OBVIOUS
    <2> HIDE DEF v
    <2> QED BY <2>1, <2>2, RowReplaced
<1> QED BY <1>2, <1>3

LEMMA EndUpdates ==
    ASSUME TableInv, NEW fd \in socks, Answer(fd) \/ Fail(fd, "conn") \/ Fail(fd, "size")
    PROVE  RowInv'
<1>1. PICK n \in Nat : n >= conf.flows + Backup /\ Rows(rows, n)
    BY DEF TableInv, RowInv
<1>2. UNCHANGED <<conf, result, now>> /\ fd \in Nat /\ now \in Nat
    <2>1. UNCHANGED <<conf, result, now>>
        BY DEF Answer, Fail, Ends, argVars
    <2>2. fd \in Nat
        BY SetupAssumption DEF TableInv, FdInv
    <2>3. now \in Nat
        BY TableAssumption DEF TableInv, RowInv
    <2> QED BY <2>1, <2>2, <2>3
<1>3. errors' \in [conn : Nat, size : Nat]
    BY DEF Answer, Fail, TableInv, RowInv
<1>4. Rows(rows', n)
    <2>1. CASE Answer(fd)
        <3>1. rows' = [rows EXCEPT ![fd].fct = GetTimeDiff(rows[fd].req, TimeOfDay)]
            BY <2>1 DEF Answer
        <3>2. CASE fd < n
            <4>1. rows[fd].req \in Time
                BY <1>1, <1>2, <3>2 DEF Rows, Row
            <4>2. GetTimeDiff(rows[fd].req, TimeOfDay) \in Int
                BY <1>2, <4>1, TimesTyped
            <4> QED BY <1>1, <1>2, <3>1, <4>2, RowUpdated
        <3>3. CASE ~(fd < n)
            <4>1. rows' = rows
                BY <1>1, <1>2, <3>1, <3>3 DEF Rows
            <4> QED BY <1>1, <4>1
        <3> QED BY <3>2, <3>3
    <2>2. CASE Fail(fd, "conn") \/ Fail(fd, "size")
        <3>1. rows' = [rows EXCEPT ![fd].fd = 0]
            BY <2>2 DEF Fail
        <3> QED BY <1>1, <1>2, <3>1, RowUpdated
    <2> QED BY <2>1, <2>2
<1> QED BY <1>1, <1>2, <1>3, <1>4 DEF TableInv, RowInv

LEMMA RowKept == TableInv /\ [Next]_vars => RowInv'
<1> SUFFICES ASSUME TableInv, [Next]_vars PROVE RowInv'
    OBVIOUS
<1>1. CASE SetUp \/ UNCHANGED vars
    <2>1. UNCHANGED <<conf, tableVars, now>>
        BY <1>1 DEF SetUp, SetupStep, ReadArgs, NextIp, HaveIps, LoadLine, LoadEnd, Create,
                    CreateLeaks, CreateFails, Created, Attempt, argVars, vars, setupVars
    <2> QED BY <2>1 DEF TableInv, RowInv, tableVars, Rows
<1>2. CASE Tick
    <2>1. UNCHANGED <<conf, tableVars>> /\ now' \in 0 .. MaxTime
        BY <1>2, TableAssumption DEF Tick, setupVars, argVars, TableInv, RowInv
    <2> QED BY <2>1 DEF TableInv, RowInv, tableVars, Rows
<1>3. CASE PrintStatistics
    <2>1. UNCHANGED <<conf, rows, errors, now>> /\ DOMAIN result' = Groups
        BY <1>3 DEF PrintStatistics, argVars
    <2> QED BY <2>1 DEF TableInv, RowInv, Rows, Groups
<1> QED BY <1>1, <1>2, <1>3, RequestFills, EndUpdates DEF Next

LEMMA InvKept == TableInv /\ [Next]_vars => TableInv'
BY PhaseKept, IpsKept, FdKept, RowKept DEF TableInv

LEMMA Invariant == Spec => []TableInv
BY InvStarts, InvKept, PTL DEF Spec

-----------------------------------------------------------------------------
(* The theorems.                                                            *)

\* client/statistics.c: the table, the descriptors and the set-up keep their
\* types, whatever the file, the interfaces and the arguments are: a drawn size is
\* never negative, a row is for its descriptor, and left_flows never drops below 0.
THEOREM TableTypes == Spec => []TypeOK
BY Invariant, InvTypes, PTL

\* The spare rows cover the descriptors in use before the first connection, every
\* connection has an entry of flows_size, and the device has no more addresses
\* than src_ips has room for.
Roomy ==
    /\ Held <= Backup
    /\ \A c \in Configs : Held + c.flows <= MaxFlows
    /\ \A s \in Interfaces : Cardinality({i \in 1 .. Len(s) : Takes(s[i])}) <= MaxIps

\* A one-to-one function's domain is no larger than the set it goes to.
LEMMA OneToOneBounds ==
    ASSUME NEW S, NEW T, IsFiniteSet(S), IsFiniteSet(T), NEW f \in [S -> T],
           \A x, y \in S : f[x] = f[y] => x = y
    PROVE  Cardinality(S) <= Cardinality(T)
<1>1. ~(Cardinality(T) < Cardinality(S))
    <2> SUFFICES ASSUME Cardinality(T) < Cardinality(S) PROVE FALSE
        OBVIOUS
    <2> QED BY FS_PigeonHole
<1>2. Cardinality(S) \in Nat /\ Cardinality(T) \in Nat
    BY FS_CardinalityType
<1> QED BY <1>1, <1>2

\* There are no more addresses in src_ips than the device has.
LEMMA IpsFit ==
    ASSUME PhaseInv, IpsInv
    PROVE  Len(ips) <= Cardinality({i \in 1 .. Len(ifaddrs) : Takes(ifaddrs[i])})
<1> DEFINE T == {i \in 1 .. Len(ifaddrs) : Takes(ifaddrs[i])}
           l == Len(ips)  S == 1 .. l
<1>1. l \in Nat /\ Len(ifaddrs) \in Nat /\ ifa \in 0 .. Len(ifaddrs)
    BY ConfTyped DEF IpsInv
<1>2. ips \in [S -> T]
    <2>1. ips \in [S -> Nat]
        BY DEF IpsInv
    <2>2. \A k \in S : ips[k] \in T
        BY <1>1 DEF IpsInv
    <2> QED BY <2>1, <2>2
<1>3. \A j, k \in S : ips[j] = ips[k] => j = k
    BY DEF IpsInv
<1> HIDE DEF l
<1>4. IsFiniteSet(S) /\ Cardinality(S) = l
    <2>1. 1 \in Int /\ l \in Int
        BY <1>1
    <2>2. IsFiniteSet(1 .. l) /\ Cardinality(1 .. l) = IF 1 > l THEN 0 ELSE l - 1 + 1
        BY <2>1, FS_Interval
    <2>3. Cardinality(1 .. l) = l
        BY <1>1, <2>2
    <2> QED BY <2>2, <2>3
<1>5. IsFiniteSet(T)
    <2>1. IsFiniteSet(1 .. Len(ifaddrs))
        BY <1>1, FS_Interval
    <2> QED BY <2>1, FS_Subset
<1> HIDE DEF S, T
<1>6. Cardinality(S) <= Cardinality(T)
    BY <1>2, <1>3, <1>4, <1>5, OneToOneBounds
<1> QED BY <1>4, <1>6 DEF l, T

\* client.h:22, network.h:34: the arrays the client indexes without a test are
\* large enough, also when connections fail and leak their descriptors.
THEOREM ArraysSuffice ==
    ASSUME Roomy
    PROVE  Spec => []InBounds
<1>1. TableInv => InBounds
    <2> SUFFICES ASSUME TableInv PROVE InBounds
        OBVIOUS
    <2>1. Len(ips) <= MaxIps
        <3> DEFINE t == Cardinality({i \in 1 .. Len(ifaddrs) : Takes(ifaddrs[i])})
        <3>1. Len(ips) <= t /\ Len(ips) \in Nat
            BY IpsFit DEF TableInv, IpsInv
        <3>2. t <= MaxIps
            BY DEF Roomy, TableInv, PhaseInv
        <3>3. t \in Nat
            <4>1. IsFiniteSet(1 .. Len(ifaddrs))
                BY ConfTyped, FS_Interval DEF TableInv
            <4> QED BY <4>1, FS_Subset, FS_CardinalityType
        <3> HIDE DEF t
        <3> QED BY <3>1, <3>2, <3>3, SetupAssumption
    <2>2. ASSUME NEW fd \in socks PROVE fd \in DOMAIN rows /\ fd < MaxFlows
        <3>1. PICK n \in Nat : n >= conf.flows + Backup /\ Rows(rows, n)
            BY DEF TableInv, RowInv
        <3>2. /\ fd \in 0 .. Held + tried - 1 /\ tried \in 0 .. conf.flows /\ conf.flows \in Nat
              /\ conf \in Configs
            BY DEF TableInv, PhaseInv, FdInv
        <3>3. Held \in Nat /\ Backup \in Nat /\ MaxFlows \in Nat
            BY SetupAssumption, TableAssumption
        <3>4. Held <= Backup /\ Held + conf.flows <= MaxFlows
            BY <3>2 DEF Roomy
        <3>5. fd \in 0 .. n - 1 /\ fd < MaxFlows
            BY <3>1, <3>2, <3>3, <3>4
        <3> QED BY <3>1, <3>5 DEF Rows
    <2> QED BY <2>1, <2>2, InvTypes DEF InBounds
<1> QED BY <1>1, Invariant, PTL

\* README.md:10: a drawn size is below the size of a line exactly as often as the
\* line says, whatever the table's capacity was when it was loaded.
THEOREM SizesRight ==
    ASSUME Increasing
    PROVE  Spec => []SizesFollowFile
<1>1. Init => SizesFollowFile
    BY DEF Init, SizesFollowFile
<1>2. TableInv /\ SizesFollowFile /\ [Next]_vars => SizesFollowFile'
    <2> SUFFICES ASSUME TableInv, SizesFollowFile, [Next]_vars PROVE SizesFollowFile'
        OBVIOUS
    <2>1. file' = file
        BY DEF Next, SetUp, SetupStep, ReadArgs, NextIp, HaveIps, LoadLine, ReadLine, LoadEnd, Create,
               CreateLeaks, CreateFails, Created, Attempt, Tick, PrintStatistics, Request,
               Answer, Fail, Ends, vars, setupVars, cdfVars
    <2>2. CASE drawn' = drawn
        BY <2>1, <2>2 DEF SizesFollowFile
    <2>3. ASSUME NEW fd \in socks, Request(fd) PROVE SizesFollowFile'
        <3>1. PICK x \in RandRange : drawn' = drawn \cup {[x |-> x, size |-> GenRandomCdf(x)]}
            BY <2>3 DEF Request
        <3>2. x \in Nat \ {0}
            BY <3>1, DrawsTyped DEF Increasing
        <3>3. CdfInv /\ dist.num = Len(file)
            BY <2>3 DEF Request, TableInv, PhaseInv
        <3>4. \A i \in 1 .. Len(file) : GenRandomCdf(x) < file[i].value <=> x < file[i].cdf
            BY <3>2, <3>3, DrawFollows
        <3>5. DOMAIN file = 1 .. Len(file)
            BY <3>3, LinesTyped
        <3> QED BY <2>1, <3>1, <3>4, <3>5 DEF SizesFollowFile
    <2>4. [Next]_vars => drawn' = drawn \/ \E fd \in socks : Request(fd)
        BY DEF Next, SetUp, Tick, PrintStatistics, Answer, Fail, Ends, vars, historyVars
    <2> QED BY <2>2, <2>3, <2>4
<1> QED BY <1>1, <1>2, Invariant, PTL DEF Spec

-----------------------------------------------------------------------------
(* What the report counts.                                                  *)

\* The thresholds of the groups do not fall, as in statistics.c:36-38, and the
\* clock does not run longer than an int of microseconds.
Measured ==
    /\ \A g, h \in 1 .. Len(Thresholds) : g < h => Thresholds[g] <= Thresholds[h]
    /\ MaxTime <= IntMax

\* The rows of flows that are over, and the answers, that have a size and a
\* duration in Q.
RowsIn(Q) == {i \in DOMAIN rows : /\ rows[i].fd # 0 /\ i \notin active
                                  /\ <<rows[i].size, rows[i].fct>> \in Q}
AnswersIn(Q) == {k \in 1 .. Len(answered) : <<answered[k].size, answered[k].time>> \in Q}

Moment(t) == [sec |-> t \div SToUs, usec |-> t % SToUs]

\* Every flow requested is active, answered or an error, an active one has the
\* moment of its request in its row, and the rows of flows that are over are those
\* of the answered flows, in number and content.
HistoryInv ==
    /\ answered \in Seq([size : Nat, time : 0 .. MaxTime])
    /\ IsFiniteSet(DOMAIN began)
    /\ Cardinality(DOMAIN began)
         = Len(answered) + errors.conn + errors.size + Cardinality(active)
    /\ \A fd \in active : began[fd] \in 0 .. now /\ rows[fd].req = Moment(began[fd])
    /\ \A Q \in SUBSET (Nat \X Int) : Cardinality(RowsIn(Q)) = Cardinality(AnswersIn(Q))

\* The duration of a flow, by the borrow between seconds and microseconds.
LEMMA DurationRight ==
    ASSUME Measured, NEW s \in Nat, NEW t \in 0 .. MaxTime, s <= t
    PROVE  GetTimeDiff(Moment(s), Moment(t)) = t - s
<1> DEFINE s1 == s \div SToUs  s2 == s % SToUs  t1 == t \div SToUs  t2 == t % SToUs
<1>1. SToUs \in Nat \ {0} /\ IntMax \in Nat \ {0} /\ MaxTime \in Nat /\ MaxTime <= IntMax
    BY TableAssumption DEF Measured
<1>2. /\ s1 \in Int /\ s2 \in Int /\ s = SToUs * s1 + s2
      /\ t1 \in Int /\ t2 \in Int /\ t = SToUs * t1 + t2
    BY <1>1
<1>3. /\ Moment(s).sec = s1 /\ Moment(s).usec = s2 /\ Moment(t).sec = t1 /\ Moment(t).usec = t2
    BY DEF Moment
<1> HIDE DEF s1, s2, t1, t2
<1>4. (t1 - s1) * SToUs + (t2 - s2) = t - s
    <2>1. (t1 - s1) * SToUs = SToUs * t1 - SToUs * s1
        BY <1>1, <1>2
    <2>2. SToUs * t1 \in Int /\ SToUs * s1 \in Int
        BY <1>1, <1>2
    <2> QED BY <1>2, <2>1, <2>2
<1>5. AsInt(t - s) = t - s
    <2> DEFINE m == 2 * (IntMax + 1)  d == t - s + IntMax + 1
    <2>1. d \in 0 .. m - 1 /\ m \in Nat \ {0}
        BY <1>1
    <2>2. d % m = d
        <3> HIDE DEF d, m
        <3> QED BY <2>1
    <2>3. AsInt(t - s) = (d % m) - (IntMax + 1)
        <3>1. (t - s) + IntMax + 1 = d
            OBVIOUS
        <3> QED BY <3>1 DEF AsInt
    <2> QED BY <1>1, <2>2, <2>3
<1> QED BY <1>3, <1>4, <1>5 DEF GetTimeDiff

\* The group a size is counted in is the one it is labelled with.
LEMMA GroupRight ==
    ASSUME Measured, NEW size \in Nat, NEW g \in Groups
    PROVE  GetGroupIndex(size) = g <=> Labelled(g, size)
<1> DEFINE l == Len(Thresholds)  below == {h \in 1 .. l : size < Thresholds[h]}
<1>1. l \in Nat /\ \A h \in 1 .. l : Thresholds[h] \in Nat
    BY TableAssumption
<1>2. /\ g \in 1 .. l + 1
      /\ \A h, k \in 1 .. l : h < k => Thresholds[h] <= Thresholds[k]
      /\ GetGroupIndex(size) = IF below = {} THEN l + 1 ELSE Min(below)
    <2>1. DOMAIN Thresholds = 1 .. l
        BY TableAssumption
    <2>2. {h \in DOMAIN Thresholds : size < Thresholds[h]} = below
        BY <2>1
    <2> HIDE DEF below
    <2>3. GetGroupIndex(size) = IF below = {} THEN l + 1 ELSE Min(below)
        BY <2>2, Zenon DEF GetGroupIndex
    <2> QED BY <2>3 DEF Groups, Measured
<1>3. Labelled(g, size) <=> /\ g > 1 => size >= Thresholds[g - 1]
                            /\ g <= l => size < Thresholds[g]
    BY DEF Labelled
<1>4. ASSUME below # {}
      PROVE  Min(below) \in below /\ \A h \in below : Min(below) <= h
    <2>1. below \in SUBSET Nat
        BY <1>1
    <2> HIDE DEF below
    <2> QED BY <1>4, <2>1, MinRight
<1>5. ASSUME GetGroupIndex(size) = g PROVE Labelled(g, size)
    <2>1. CASE below = {}
        <3>1. g = l + 1
            BY <1>2, <1>5, <2>1
        <3>2. g > 1 => g - 1 \in 1 .. l
            BY <1>1, <3>1
        <3>3. g > 1 => size >= Thresholds[g - 1]
            BY <1>1, <2>1, <3>2
        <3> QED BY <1>1, <1>3, <3>1, <3>3
    <2>2. CASE below # {}
        <3>1. g \in below /\ \A h \in below : g <= h
            BY <1>2, <1>4, <1>5, <2>2
        <3>2. g > 1 => g - 1 \in 1 .. l /\ g - 1 \notin below
            BY <1>1, <3>1
        <3>3. g > 1 => size >= Thresholds[g - 1]
            BY <1>1, <3>2
        <3> QED BY <1>3, <3>1, <3>3
    <2> QED BY <2>1, <2>2
<1>6. ASSUME Labelled(g, size) PROVE GetGroupIndex(size) = g
    <2>1. \A h \in below : g <= h
        <3> SUFFICES ASSUME NEW h \in below, h < g PROVE FALSE
            BY <1>1, <1>2
        <3>1. g > 1 /\ g - 1 \in 1 .. l /\ h \in 1 .. l
            BY <1>1, <1>2
        <3>2. size >= Thresholds[g - 1]
            BY <1>3, <1>6, <3>1
        <3>3. Thresholds[h] <= Thresholds[g - 1]
            <4>1. h = g - 1 \/ h < g - 1
                BY <1>2, <3>1
            <4> QED BY <1>1, <1>2, <3>1, <4>1
        <3>4. Thresholds[h] \in Nat /\ Thresholds[g - 1] \in Nat /\ size < Thresholds[h]
            BY <1>1, <3>1
        <3> QED BY <3>2, <3>3, <3>4
    <2>2. CASE g = l + 1
        <3>1. below = {}
            BY <1>1, <2>1, <2>2
        <3> QED BY <1>2, <2>2, <3>1
    <2>3. CASE g # l + 1
        <3>1. g \in 1 .. l
            BY <1>1, <1>2, <2>3
        <3>2. g \in below
            BY <1>3, <1>6, <3>1
        <3>3. Min(below) = g
            <4>1. Min(below) \in below /\ Min(below) <= g /\ g <= Min(below)
                BY <1>4, <2>1, <3>2
            <4>2. Min(below) \in Nat /\ g \in Nat
                BY <1>1, <3>1, <4>1
            <4> HIDE DEF below
            <4> QED BY <4>1, <4>2
        <3> QED BY <1>2, <3>2, <3>3
    <2> QED BY <2>2, <2>3
<1> QED BY <1>5, <1>6

\* With enough spare rows the table is not extended.
LEMMA RowThere ==
    ASSUME TableInv, Held <= Backup, NEW fd \in socks
    PROVE  /\ fd \in Nat /\ fd \in DOMAIN rows /\ Extended(fd) = rows
           /\ \E n \in Nat : Rows(rows, n) /\ fd < n
<1>1. PICK n \in Nat : n >= conf.flows + Backup /\ Rows(rows, n)
    BY DEF TableInv, RowInv
<1>2. /\ fd \in 0 .. Held + tried - 1 /\ tried \in 0 .. conf.flows /\ conf.flows \in Nat
    BY DEF TableInv, FdInv
<1>3. Held \in Nat /\ Backup \in Nat
    BY SetupAssumption, TableAssumption
<1>4. fd \in Nat /\ fd < n
    BY <1>1, <1>2, <1>3
<1>5. DOMAIN rows = 0 .. n - 1
    BY <1>1 DEF Rows
<1>6. Cardinality(DOMAIN rows) = n
    <2>1. 0 \in Int /\ n - 1 \in Int
        BY <1>1
    <2>2. Cardinality(0 .. n - 1) = IF 0 > n - 1 THEN 0 ELSE (n - 1) - 0 + 1
        BY <2>1, FS_Interval
    <2> QED BY <1>5, <2>2
<1>7. Extended(fd) = rows
    BY <1>4, <1>6 DEF Extended
<1> QED BY <1>1, <1>4, <1>5, <1>7

LEMMA CountsFinite ==
    ASSUME TableInv, HistoryInv
    PROVE  /\ IsFiniteSet(active) /\ Cardinality(active) \in Nat
           /\ IsFiniteSet(DOMAIN rows) /\ Len(answered) \in Nat
           /\ \A Q : IsFiniteSet(RowsIn(Q)) /\ IsFiniteSet(AnswersIn(Q))
<1>1. IsFiniteSet(active)
    <2>1. active \subseteq socks /\ IsFiniteSet(socks)
        BY OpenFinite DEF TableInv, FdInv
    <2> QED BY <2>1, FS_Subset
<1>2. IsFiniteSet(DOMAIN rows)
    <2>1. PICK n \in Nat : DOMAIN rows = 0 .. n - 1
        BY DEF TableInv, RowInv, Rows
    <2>2. 0 \in Int /\ n - 1 \in Int
        OBVIOUS
    <2> QED BY <2>1, <2>2, FS_Interval
<1>3. Len(answered) \in Nat
    BY DEF HistoryInv
<1>4. IsFiniteSet(1 .. Len(answered))
    <2>1. 1 \in Int /\ Len(answered) \in Int
        BY <1>3
    <2> QED BY <2>1, FS_Interval
<1>5. ASSUME NEW Q PROVE IsFiniteSet(RowsIn(Q)) /\ IsFiniteSet(AnswersIn(Q))
    <2>1. RowsIn(Q) \subseteq DOMAIN rows /\ AnswersIn(Q) \subseteq 1 .. Len(answered)
        BY DEF RowsIn, AnswersIn
    <2> QED BY <1>2, <1>4, <2>1, FS_Subset
<1> QED BY <1>1, <1>2, <1>3, <1>5, FS_CardinalityType

LEMMA HistoryStarts == Init => HistoryInv
<1> SUFFICES ASSUME Init PROVE HistoryInv
    OBVIOUS
<1>1. active = {} /\ DOMAIN began = {} /\ answered = <<>> /\ errors = [conn |-> 0, size |-> 0]
    BY DEF Init
<1>2. \A i \in DOMAIN rows : rows[i].fd = 0
    BY DEF Init, NoRow
<1>3. \A Q : RowsIn(Q) = {} /\ AnswersIn(Q) = {}
    BY <1>1, <1>2 DEF RowsIn, AnswersIn
<1>4. IsFiniteSet({}) /\ Cardinality({}) = 0
    BY FS_EmptySet
<1>5. IsFiniteSet(DOMAIN began) /\ Cardinality(DOMAIN began) = 0 /\ Cardinality(active) = 0
    BY <1>1, <1>4
<1>6. Len(answered) = 0 /\ answered \in Seq([size : Nat, time : 0 .. MaxTime])
    BY <1>1
<1>7. errors.conn = 0 /\ errors.size = 0
    BY <1>1
<1>8. \A Q : Cardinality(RowsIn(Q)) = Cardinality(AnswersIn(Q))
    BY <1>3, Zenon
<1> QED BY <1>1, <1>5, <1>6, <1>7, <1>8 DEF HistoryInv

\* Time may pass.
LEMMA HistoryFrame ==
    ASSUME HistoryInv, UNCHANGED <<rows, errors, active, began, answered>>,
           now \in Nat, now' \in Nat, now <= now'
    PROVE  HistoryInv'
<1>1. \A Q : RowsIn(Q)' = RowsIn(Q) /\ AnswersIn(Q)' = AnswersIn(Q)
    BY DEF RowsIn, AnswersIn
<1>2. \A fd \in active : began[fd] \in 0 .. now'
    BY DEF HistoryInv
<1>3. \A fd \in active : rows[fd].req = Moment(began[fd])
    BY DEF HistoryInv
<1> QED BY <1>1, <1>2, <1>3 DEF HistoryInv, Moment

\* A request fills an empty row.
LEMMA HistoryRequest ==
    ASSUME TableInv, HistoryInv, Held <= Backup, NEW fd \in socks, Request(fd)
    PROVE  HistoryInv'
<1>1. fd \in Nat /\ fd \in DOMAIN rows /\ Extended(fd) = rows
    BY RowThere
<1>2. PICK x \in RandRange :
        rows' = [rows EXCEPT
                   ![fd] = [fd |-> fd, size |-> GenRandomCdf(x), req |-> TimeOfDay, fct |-> 0]]
    BY <1>1 DEF Request
<1>3. /\ rows[fd].fd = 0 /\ fd \notin active /\ fd \notin DOMAIN began
      /\ active' = active \cup {fd}
      /\ began' = [g \in DOMAIN began \cup {fd} |-> IF g = fd THEN now ELSE began[g]]
      /\ UNCHANGED <<errors, now, answered>>
    BY <1>1 DEF Request
<1>4. DOMAIN rows' = DOMAIN rows /\ \A i \in DOMAIN rows : i # fd => rows'[i] = rows[i]
    BY <1>2
<1>5. \A Q : RowsIn(Q)' = RowsIn(Q) /\ AnswersIn(Q)' = AnswersIn(Q)
    <2>1. ASSUME NEW Q PROVE RowsIn(Q)' = RowsIn(Q)
        <3>1. \A i \in DOMAIN rows :
                 (rows'[i].fd # 0 /\ i \notin active' /\ <<rows'[i].size, rows'[i].fct>> \in Q)
                   <=> (rows[i].fd # 0 /\ i \notin active /\ <<rows[i].size, rows[i].fct>> \in Q)
            <4> SUFFICES ASSUME NEW i \in DOMAIN rows
                PROVE (rows'[i].fd # 0 /\ i \notin active' /\ <<rows'[i].size, rows'[i].fct>> \in Q)
                   <=> (rows[i].fd # 0 /\ i \notin active /\ <<rows[i].size, rows[i].fct>> \in Q)
                OBVIOUS
            <4>1. CASE i = fd
                BY <1>3, <4>1
            <4>2. CASE i # fd
                <5>1. rows'[i] = rows[i] /\ (i \in active' <=> i \in active)
                    BY <1>3, <1>4, <4>2
                <5> QED BY <5>1
            <4> QED BY <4>1, <4>2
        <3> QED BY <1>4, <3>1 DEF RowsIn
    <2>2. ASSUME NEW Q PROVE AnswersIn(Q)' = AnswersIn(Q)
        BY <1>3 DEF AnswersIn
    <2> QED BY <2>1, <2>2
<1>6. /\ IsFiniteSet(DOMAIN began') /\ DOMAIN began' = DOMAIN began \cup {fd}
      /\ Cardinality(DOMAIN began') = Cardinality(DOMAIN began) + 1
      /\ Cardinality(active') = Cardinality(active) + 1
    <2>1. DOMAIN began' = DOMAIN began \cup {fd}
        BY <1>3
    <2>2. IsFiniteSet(DOMAIN began) /\ IsFiniteSet(active)
        BY CountsFinite DEF HistoryInv
    <2> QED BY <1>3, <2>1, <2>2, FS_AddElement
<1>7. Cardinality(DOMAIN began')
         = Len(answered') + errors'.conn + errors'.size + Cardinality(active')
    <2> DEFINE a == Cardinality(active)  b == Cardinality(DOMAIN began)
               e == errors.conn  f == errors.size  l == Len(answered)
    <2>1. a \in Nat /\ l \in Nat
        BY CountsFinite
    <2>2. e \in Nat /\ f \in Nat
        BY DEF TableInv, RowInv
    <2>3. b = l + e + f + a
        BY DEF HistoryInv
    <2>4. Cardinality(DOMAIN began') = b + 1 /\ Cardinality(active') = a + 1
        BY <1>6
    <2>5. Len(answered') = l /\ errors'.conn = e /\ errors'.size = f
        BY <1>3
    <2> HIDE DEF a, b, e, f, l
    <2> QED BY <2>1, <2>2, <2>3, <2>4, <2>5
<1>8. \A g \in active' : began'[g] \in 0 .. now' /\ rows'[g].req = Moment(began'[g])
    <2>1. now \in Nat /\ active \subseteq DOMAIN began
        BY TableAssumption DEF TableInv, RowInv, FdInv
    <2>2. began'[fd] = now /\ rows'[fd].req = TimeOfDay /\ TimeOfDay = Moment(now)
        BY <1>1, <1>2, <1>3 DEF TimeOfDay, Moment
    <2>3. \A g \in active : g # fd /\ began'[g] = began[g]
        BY <1>3, <2>1
    <2>4. \A g \in active : g \in DOMAIN rows
        BY RowThere DEF TableInv, FdInv
    <2>5. \A g \in active : rows'[g] = rows[g]
        BY <1>4, <2>3, <2>4
    <2>6. \A g \in active : began[g] \in 0 .. now /\ rows[g].req = Moment(began[g])
        BY DEF HistoryInv
    <2>7. \A g \in active : began'[g] \in 0 .. now /\ rows'[g].req = Moment(began'[g])
        BY <2>3, <2>5, <2>6
    <2> QED BY <1>3, <2>1, <2>2, <2>7
<1>9. answered' \in Seq([size : Nat, time : 0 .. MaxTime])
    BY <1>3 DEF HistoryInv
<1>10. \A Q \in SUBSET (Nat \X Int) : Cardinality(RowsIn(Q)') = Cardinality(AnswersIn(Q)')
    BY <1>5 DEF HistoryInv
<1> QED BY <1>6, <1>7, <1>8, <1>9, <1>10 DEF HistoryInv, Moment

\* What every end of a flow does to the counts, whatever it does to the row.
LEMMA HistoryEnds ==
    ASSUME TableInv, HistoryInv, NEW fd \in socks, Ends(fd),
           NEW row, rows' = [rows EXCEPT ![fd] = row]
    PROVE  /\ fd \in active /\ active' = active \ {fd} /\ UNCHANGED <<began, now>>
           /\ Cardinality(active') = Cardinality(active) - 1 /\ Cardinality(active) \in Nat
           /\ \A g \in active' : began'[g] \in 0 .. now' /\ rows'[g].req = Moment(began'[g])
           /\ DOMAIN rows' = DOMAIN rows
           /\ \A Q : \A i \in DOMAIN rows \ {fd} : i \in RowsIn(Q)' <=> i \in RowsIn(Q)
<1>1. fd \in active /\ active' = active \ {fd} /\ UNCHANGED <<began, now>>
    BY DEF Ends
<1>2. Cardinality(active') = Cardinality(active) - 1 /\ Cardinality(active) \in Nat
    BY <1>1, CountsFinite, FS_RemoveElement
<1>3. DOMAIN rows' = DOMAIN rows /\ \A i \in DOMAIN rows : i # fd => rows'[i] = rows[i]
    OBVIOUS
<1>4. \A g \in active' : began'[g] \in 0 .. now' /\ rows'[g].req = Moment(began'[g])
    <2>1. \A g \in active : began[g] \in 0 .. now /\ rows[g].req = Moment(began[g])
        BY DEF HistoryInv
    <2>2. ASSUME NEW g \in active' PROVE rows'[g] = rows[g]
        <3>1. g # fd
            BY <1>1
        <3> QED BY <3>1
    <2> QED BY <1>1, <2>1, <2>2
<1>5. ASSUME NEW Q, NEW i \in DOMAIN rows \ {fd} PROVE i \in RowsIn(Q)' <=> i \in RowsIn(Q)
    <2>1. rows'[i] = rows[i] /\ (i \in active' <=> i \in active)
        BY <1>1, <1>3
    <2> QED BY <1>3, <2>1 DEF RowsIn
<1> QED BY <1>1, <1>2, <1>3, <1>4, <1>5

\* An answer adds one row and one answer with the same size and duration.
LEMMA HistoryAnswer ==
    ASSUME TableInv, HistoryInv, Held <= Backup, Measured, NEW fd \in socks, Answer(fd)
    PROVE  HistoryInv'
<1> DEFINE d == now - began[fd]
           row == [rows[fd] EXCEPT !.fct = d]
           pair == <<rows[fd].size, d>>
<1>1. /\ Ends(fd) /\ rows[fd].fd # 0 /\ UNCHANGED errors
      /\ rows' = [rows EXCEPT ![fd].fct = GetTimeDiff(rows[fd].req, TimeOfDay)]
      /\ answered' = Append(answered, [size |-> rows[fd].size, time |-> d])
    BY DEF Answer
<1>2. fd \in DOMAIN rows /\ rows[fd] \in Row
    <2>1. PICK n \in Nat : Rows(rows, n) /\ fd < n /\ fd \in Nat
        BY RowThere
    <2> QED BY <2>1 DEF Rows
<1>3. began[fd] \in 0 .. now /\ now \in 0 .. MaxTime /\ rows[fd].req = Moment(began[fd])
    BY <1>1 DEF Ends, HistoryInv, TableInv, RowInv
<1>4. GetTimeDiff(rows[fd].req, TimeOfDay) = d /\ d \in Nat /\ d \in 0 .. MaxTime
    <2>1. TimeOfDay = Moment(now)
        BY DEF TimeOfDay, Moment
    <2>2. began[fd] \in Nat /\ began[fd] <= now /\ d \in Nat /\ d \in 0 .. MaxTime
        BY <1>3, TableAssumption
    <2> QED BY <1>3, <2>1, <2>2, DurationRight
<1>5. rows' = [rows EXCEPT ![fd] = row]
    BY <1>1, <1>4
<1>6. row.fd # 0 /\ row.size = rows[fd].size /\ row.fct = d /\ rows[fd].size \in Nat
    BY <1>1, <1>2 DEF Row
<1> HIDE DEF d, row
<1>7. /\ fd \in active /\ active' = active \ {fd} /\ UNCHANGED <<began, now>>
      /\ Cardinality(active') = Cardinality(active) - 1 /\ Cardinality(active) \in Nat
      /\ \A g \in active' : began'[g] \in 0 .. now' /\ rows'[g].req = Moment(began'[g])
      /\ DOMAIN rows' = DOMAIN rows
      /\ \A Q : \A i \in DOMAIN rows \ {fd} : i \in RowsIn(Q)' <=> i \in RowsIn(Q)
    BY <1>1, <1>5, HistoryEnds
<1>8. rows'[fd] = row
    BY <1>2, <1>5
<1> DEFINE l == Len(answered)  a == [size |-> rows[fd].size, time |-> d]
<1>9. /\ l \in Nat /\ answered' \in Seq([size : Nat, time : 0 .. MaxTime]) /\ Len(answered') = l + 1
      /\ answered'[l + 1] = a /\ \A k \in 1 .. l : answered'[k] = answered[k]
    <2>1. answered \in Seq([size : Nat, time : 0 .. MaxTime]) /\ a \in [size : Nat, time : 0 .. MaxTime]
        BY <1>4, <1>6 DEF HistoryInv
    <2>2. answered' = Append(answered, a)
        BY <1>1
    <2> HIDE DEF a
    <2> QED BY <2>1, <2>2
<1>10. ASSUME NEW Q \in SUBSET (Nat \X Int)
       PROVE  Cardinality(RowsIn(Q)') = Cardinality(AnswersIn(Q)')
    <2>1. fd \notin RowsIn(Q) /\ l + 1 \notin AnswersIn(Q)
        BY <1>7, <1>9 DEF RowsIn, AnswersIn
    <2>2. fd \in RowsIn(Q)' <=> pair \in Q
        BY <1>2, <1>6, <1>7, <1>8 DEF RowsIn
    <2>3. RowsIn(Q)' = RowsIn(Q) \cup (IF pair \in Q THEN {fd} ELSE {})
        <3>1. RowsIn(Q) \subseteq DOMAIN rows /\ RowsIn(Q)' \subseteq DOMAIN rows
            BY <1>7 DEF RowsIn
        <3>2. \A i \in DOMAIN rows \ {fd} : i \in RowsIn(Q)' <=> i \in RowsIn(Q)
            BY <1>7
        <3> QED BY <1>2, <2>1, <2>2, <3>1, <3>2
    <2>4. AnswersIn(Q)' = AnswersIn(Q) \cup (IF pair \in Q THEN {l + 1} ELSE {})
        <3>1. AnswersIn(Q) = {k \in 1 .. l : <<answered[k].size, answered[k].time>> \in Q}
            BY DEF AnswersIn
        <3>2. AnswersIn(Q)' = {k \in 1 .. l + 1 : <<answered'[k].size, answered'[k].time>> \in Q}
            BY <1>9 DEF AnswersIn
        <3>3. <<answered'[l + 1].size, answered'[l + 1].time>> = pair
            BY <1>9
        <3>4. 1 .. l + 1 = (1 .. l) \cup {l + 1}
            BY <1>9
        <3>5. \A k \in 1 .. l : <<answered'[k].size, answered'[k].time>>
                                  = <<answered[k].size, answered[k].time>>
            BY <1>9
        <3> HIDE DEF pair, l
        <3> QED BY <3>1, <3>2, <3>3, <3>4, <3>5
    <2>5. IsFiniteSet(RowsIn(Q)) /\ IsFiniteSet(AnswersIn(Q))
        BY CountsFinite
    <2>6. Cardinality(RowsIn(Q)) = Cardinality(AnswersIn(Q))
        BY DEF HistoryInv
    <2> HIDE DEF pair
    <2>7. CASE pair \in Q
        <3>1. Cardinality(RowsIn(Q)') = Cardinality(RowsIn(Q)) + 1
            BY <2>1, <2>3, <2>5, <2>7, FS_AddElement
        <3>2. Cardinality(AnswersIn(Q)') = Cardinality(AnswersIn(Q)) + 1
            BY <2>1, <2>4, <2>5, <2>7, FS_AddElement
        <3> QED BY <2>6, <3>1, <3>2
    <2>8. CASE pair \notin Q
        <3>1. RowsIn(Q)' = RowsIn(Q) /\ AnswersIn(Q)' = AnswersIn(Q)
            BY <2>3, <2>4, <2>8
        <3> QED BY <2>6, <3>1
    <2> QED BY <2>7, <2>8
<1>11. Cardinality(DOMAIN began')
         = Len(answered') + errors'.conn + errors'.size + Cardinality(active')
    <2> DEFINE m == Cardinality(active)  b == Cardinality(DOMAIN began)
               e == errors.conn  f == errors.size
    <2>1. b = l + e + f + m /\ e \in Nat /\ f \in Nat
        BY DEF HistoryInv, TableInv, RowInv
    <2>2. /\ Cardinality(DOMAIN began') = b /\ Cardinality(active') = m - 1 /\ m \in Nat
          /\ errors'.conn = e /\ errors'.size = f
        BY <1>1, <1>7
    <2> HIDE DEF m, b, e, f
    <2> QED BY <1>9, <2>1, <2>2
<1>12. IsFiniteSet(DOMAIN began')
    BY <1>7 DEF HistoryInv
<1> QED BY <1>7, <1>9, <1>10, <1>11, <1>12 DEF HistoryInv, Moment

\* A failure leaves the rows of flows that are over, and is counted.
LEMMA HistoryFail ==
    ASSUME TableInv, HistoryInv, Held <= Backup, NEW fd \in socks,
           Fail(fd, "conn") \/ Fail(fd, "size")
    PROVE  HistoryInv'
<1> DEFINE row == [rows[fd] EXCEPT !.fd = 0]
<1>1. Ends(fd) /\ rows' = [rows EXCEPT ![fd].fd = 0] /\ UNCHANGED answered
    BY DEF Fail
<1>2. fd \in DOMAIN rows /\ rows[fd] \in Row
    <2>1. PICK n \in Nat : Rows(rows, n) /\ fd < n /\ fd \in Nat
        BY RowThere
    <2> QED BY <2>1 DEF Rows
<1>3. rows' = [rows EXCEPT ![fd] = row]
    BY <1>1
<1>4. row.fd = 0
    BY <1>2 DEF Row
<1> HIDE DEF row
<1>5. /\ fd \in active /\ active' = active \ {fd} /\ UNCHANGED <<began, now>>
      /\ Cardinality(active') = Cardinality(active) - 1 /\ Cardinality(active) \in Nat
      /\ \A g \in active' : began'[g] \in 0 .. now' /\ rows'[g].req = Moment(began'[g])
      /\ DOMAIN rows' = DOMAIN rows
      /\ \A Q : \A i \in DOMAIN rows \ {fd} : i \in RowsIn(Q)' <=> i \in RowsIn(Q)
    BY <1>1, <1>3, HistoryEnds
<1>6. rows'[fd] = row
    BY <1>2, <1>3
<1>7. ASSUME NEW Q PROVE RowsIn(Q)' = RowsIn(Q) /\ AnswersIn(Q)' = AnswersIn(Q)
    <2>1. fd \notin RowsIn(Q) /\ fd \notin RowsIn(Q)'
        BY <1>4, <1>5, <1>6 DEF RowsIn
    <2>2. RowsIn(Q) \subseteq DOMAIN rows /\ RowsIn(Q)' \subseteq DOMAIN rows
        BY <1>5 DEF RowsIn
    <2>3. \A i \in DOMAIN rows \ {fd} : i \in RowsIn(Q)' <=> i \in RowsIn(Q)
        BY <1>5
    <2>4. AnswersIn(Q)' = AnswersIn(Q)
        BY <1>1 DEF AnswersIn
    <2> QED BY <2>1, <2>2, <2>3, <2>4
<1>8. Cardinality(DOMAIN began')
         = Len(answered') + errors'.conn + errors'.size + Cardinality(active')
    <2> DEFINE m == Cardinality(active)  b == Cardinality(DOMAIN began)  l == Len(answered)
               e == errors.conn  f == errors.size
    <2>1. b = l + e + f + m /\ e \in Nat /\ f \in Nat /\ l \in Nat
        BY CountsFinite DEF HistoryInv, TableInv, RowInv
    <2>2. /\ Cardinality(DOMAIN began') = b /\ Cardinality(active') = m - 1 /\ m \in Nat
          /\ Len(answered') = l
        BY <1>1, <1>5
    <2>3. \/ errors'.conn = e + 1 /\ errors'.size = f
          \/ errors'.conn = e /\ errors'.size = f + 1
        <3>1. errors \in [conn : Nat, size : Nat]
            BY DEF TableInv, RowInv
        <3> QED BY <3>1 DEF Fail
    <2> HIDE DEF m, b, e, f, l
    <2> QED BY <2>1, <2>2, <2>3
<1>9. IsFiniteSet(DOMAIN began') /\ answered' \in Seq([size : Nat, time : 0 .. MaxTime])
    BY <1>1, <1>5 DEF HistoryInv
<1>10. \A Q \in SUBSET (Nat \X Int) : Cardinality(RowsIn(Q)') = Cardinality(AnswersIn(Q)')
    BY <1>7 DEF HistoryInv
<1> QED BY <1>5, <1>8, <1>9, <1>10 DEF HistoryInv, Moment

LEMMA HistoryKept ==
    ASSUME Held <= Backup, Measured
    PROVE  TableInv /\ HistoryInv /\ [Next]_vars => HistoryInv'
<1> SUFFICES ASSUME TableInv, HistoryInv, [Next]_vars PROVE HistoryInv'
    OBVIOUS
<1>1. now \in Nat
    BY TableAssumption DEF TableInv, RowInv
<1>2. CASE SetUp \/ Tick \/ PrintStatistics \/ UNCHANGED vars
    <2>1. UNCHANGED <<rows, errors, active, began, answered>> /\ (now' = now \/ now' = now + 1)
        BY <1>2 DEF SetUp, Tick, PrintStatistics, vars, tableVars, historyVars
    <2>2. now' \in Nat /\ now <= now'
        BY <1>1, <2>1
    <2> QED BY <1>1, <2>1, <2>2, HistoryFrame
<1> QED BY <1>2, HistoryRequest, HistoryAnswer, HistoryFail DEF Next

\* At the end no flow is active, and the rows in use of a group are those the
\* history counts, whatever the durations that are asked for.
LEMMA GroupRows ==
    ASSUME Measured, TableInv, HistoryInv, active = {}, NEW g \in Groups
    PROVE  /\ \A i \in RowsOf(g) : rows[i].fct \in Int
           /\ \A k \in AnsweredIn(g) : answered[k].time \in 0 .. MaxTime
           /\ RowsOf(g) \in SUBSET Int /\ IsFiniteSet(RowsOf(g)) /\ IsFiniteSet(AnsweredIn(g))
           /\ \A D \in SUBSET Int :
                Cardinality({i \in RowsOf(g) : rows[i].fct \in D})
                  = Cardinality({k \in AnsweredIn(g) : answered[k].time \in D})
<1>1. PICK n \in Nat : Rows(rows, n)
    BY DEF TableInv, RowInv
<1>2. /\ DOMAIN rows = 0 .. n - 1
      /\ \A i \in DOMAIN rows : rows[i].size \in Nat /\ rows[i].fct \in Int
    BY <1>1 DEF Rows, Row
<1>3. /\ DOMAIN answered = 1 .. Len(answered)
      /\ \A k \in 1 .. Len(answered) : answered[k].size \in Nat /\ answered[k].time \in 0 .. MaxTime
    <2> DEFINE A == [size : Nat, time : 0 .. MaxTime]
    <2>1. answered \in Seq(A)
        BY DEF HistoryInv
    <2>2. \A a \in A : a.size \in Nat /\ a.time \in 0 .. MaxTime
        OBVIOUS
    <2> HIDE DEF A
    <2>3. DOMAIN answered = 1 .. Len(answered) /\ \A k \in 1 .. Len(answered) : answered[k] \in A
        BY <2>1
    <2> QED BY <2>2, <2>3
<1>4. RowsOf(g) = {i \in DOMAIN rows : rows[i].fd # 0 /\ Labelled(g, rows[i].size)}
    <2>1. \A i \in DOMAIN rows : GetGroupIndex(rows[i].size) = g <=> Labelled(g, rows[i].size)
        <3>1. \A s \in Nat : GetGroupIndex(s) = g <=> Labelled(g, s)
            BY GroupRight
        <3> QED BY <1>2, <3>1
    <2> QED BY <2>1, Zenon DEF RowsOf
<1>5. AnsweredIn(g) = {k \in 1 .. Len(answered) : Labelled(g, answered[k].size)}
    BY <1>3 DEF AnsweredIn
<1>6. ASSUME NEW D \in SUBSET Int
      PROVE  Cardinality({i \in RowsOf(g) : rows[i].fct \in D})
               = Cardinality({k \in AnsweredIn(g) : answered[k].time \in D})
    <2> DEFINE Q == {p \in Nat \X Int : Labelled(g, p[1]) /\ p[2] \in D}
    <2>1. {i \in RowsOf(g) : rows[i].fct \in D} = RowsIn(Q)
        <3>1. \A i \in DOMAIN rows :
                 <<rows[i].size, rows[i].fct>> \in Q
                   <=> Labelled(g, rows[i].size) /\ rows[i].fct \in D
            BY <1>2
        <3> HIDE DEF Q
        <3> QED BY <1>4, <3>1 DEF RowsIn
    <2>2. {k \in AnsweredIn(g) : answered[k].time \in D} = AnswersIn(Q)
        <3>1. \A k \in 1 .. Len(answered) :
                 <<answered[k].size, answered[k].time>> \in Q
                   <=> Labelled(g, answered[k].size) /\ answered[k].time \in D
            BY <1>3
        <3> HIDE DEF Q
        <3> QED BY <1>5, <3>1 DEF AnswersIn
    <2>3. Q \in SUBSET (Nat \X Int)
        OBVIOUS
    <2> HIDE DEF Q
    <2> QED BY <2>1, <2>2, <2>3 DEF HistoryInv
<1>7. IsFiniteSet(RowsOf(g)) /\ IsFiniteSet(AnsweredIn(g))
    <2>1. IsFiniteSet(DOMAIN rows) /\ IsFiniteSet(1 .. Len(answered))
        <3>1. Len(answered) \in Nat /\ 1 \in Int
            BY CountsFinite
        <3> QED BY <3>1, CountsFinite, FS_Interval
    <2>2. RowsOf(g) \in SUBSET DOMAIN rows /\ AnsweredIn(g) \in SUBSET (1 .. Len(answered))
        BY <1>4, <1>5
    <2> QED BY <2>1, <2>2, FS_Subset
<1>8. /\ \A i \in RowsOf(g) : rows[i].fct \in Int /\ i \in Int
      /\ \A k \in AnsweredIn(g) : answered[k].time \in 0 .. MaxTime
    BY <1>2, <1>3, <1>4, <1>5
<1>9. RowsOf(g) \in SUBSET Int
    BY <1>8
<1> QED BY <1>6, <1>7, <1>8, <1>9

LEMMA GroupCounts ==
    ASSUME Measured, TableInv, HistoryInv, active = {}, NEW g \in Groups
    PROVE  /\ Cardinality(RowsOf(g)) = Cardinality(AnsweredIn(g))
           /\ \A t \in Int :
                Cardinality({i \in RowsOf(g) : rows[i].fct = t})
                  = Cardinality({k \in AnsweredIn(g) : answered[k].time = t})
           /\ \A i \in RowsOf(g) : rows[i].fct \in 0 .. MaxTime
<1> DEFINE R(D) == {i \in RowsOf(g) : rows[i].fct \in D}
           A(D) == {k \in AnsweredIn(g) : answered[k].time \in D}
<1>1. /\ \A i \in RowsOf(g) : rows[i].fct \in Int
      /\ \A k \in AnsweredIn(g) : answered[k].time \in 0 .. MaxTime
      /\ IsFiniteSet(RowsOf(g)) /\ MaxTime \in Nat
    BY GroupRows, TableAssumption
<1>2. \A D \in SUBSET Int : Cardinality(R(D)) = Cardinality(A(D))
    BY GroupRows
<1>3. Cardinality(RowsOf(g)) = Cardinality(AnsweredIn(g))
    <2>1. R(Int) = RowsOf(g) /\ A(Int) = AnsweredIn(g) /\ Int \in SUBSET Int
        BY <1>1
    <2> HIDE DEF R, A
    <2> QED BY <1>2, <2>1
<1>4. ASSUME NEW t \in Int
      PROVE  Cardinality({i \in RowsOf(g) : rows[i].fct = t})
               = Cardinality({k \in AnsweredIn(g) : answered[k].time = t})
    <2>1. /\ {i \in RowsOf(g) : rows[i].fct = t} = R({t})
          /\ {k \in AnsweredIn(g) : answered[k].time = t} = A({t})
          /\ {t} \in SUBSET Int
        OBVIOUS
    <2> HIDE DEF R, A
    <2> QED BY <1>2, <2>1
<1>5. \A i \in RowsOf(g) : rows[i].fct \in 0 .. MaxTime
    <2> DEFINE D == Int \ (0 .. MaxTime)
    <2>1. A(D) = {} /\ D \in SUBSET Int
        BY <1>1
    <2>2. R(D) \in SUBSET RowsOf(g)
        OBVIOUS
    <2> HIDE DEF R, A, D
    <2>3. IsFiniteSet(R(D)) /\ Cardinality(R(D)) = 0
        BY <1>1, <1>2, <2>1, <2>2, FS_Subset, FS_EmptySet
    <2>4. R(D) = {}
        BY <2>3, FS_EmptySet
    <2> QED BY <1>1, <2>4 DEF R, D
<1> QED BY <1>3, <1>4, <1>5

\* The report is printed when no flow is left: from here on every requested flow
\* is an error or was answered.
LEMMA AtPrint ==
    ASSUME TableInv, HistoryInv, PrintStatistics
    PROVE  /\ active = {}
           /\ Len(answered) + errors.conn + errors.size = Cardinality(DOMAIN began)
           /\ result' = [g \in Groups |-> ResultOf(g)]
           /\ UNCHANGED <<rows, errors, began, answered>>
           /\ \A g : RowsOf(g)' = RowsOf(g) /\ AnsweredIn(g)' = AnsweredIn(g)
<1>1. /\ left = 0 /\ result' = [g \in Groups |-> ResultOf(g)]
      /\ UNCHANGED <<rows, errors, began, answered>>
    BY DEF PrintStatistics, historyVars
<1>2. active = {}
    <2>1. Cardinality(Open) = 0 /\ IsFiniteSet(Open)
        BY <1>1, OpenFinite DEF TableInv, FdInv
    <2>2. Open = {}
        BY <2>1, FS_EmptySet
    <2> QED BY <2>2 DEF Open
<1>3. Len(answered) + errors.conn + errors.size = Cardinality(DOMAIN began)
    <2>1. Cardinality(active) = 0
        BY <1>2, FS_EmptySet
    <2>2. Len(answered) \in Nat /\ errors.conn \in Nat /\ errors.size \in Nat
        BY CountsFinite DEF TableInv, RowInv
    <2> QED BY <2>1, <2>2 DEF HistoryInv
<1>4. \A g : RowsOf(g)' = RowsOf(g) /\ AnsweredIn(g)' = AnsweredIn(g)
    BY <1>1 DEF RowsOf, AnsweredIn
<1> QED BY <1>1, <1>2, <1>3, <1>4

\* No other step ends the run.
LEMMA OnlyPrintEnds == [Next]_vars => PrintStatistics \/ UNCHANGED vars \/ phase' # "done"
<1> SUFFICES ASSUME SetUp \/ Tick \/ \E fd \in socks : Request(fd) \/ Answer(fd)
                                         \/ Fail(fd, "conn") \/ Fail(fd, "size")
             PROVE  phase' # "done"
    BY DEF Next
<1> QED BY DEF SetUp, SetupStep, ReadArgs, NextIp, HaveIps, LoadLine, LoadEnd, Create,
               CreateLeaks, CreateFails, Created, Attempt, Enter, Tick, Request, Answer,
               Fail, Ends, setupVars

LEMMA PrintCounts ==
    ASSUME Measured, TableInv, HistoryInv, PrintStatistics
    PROVE  ReportCounts'
<1>1. ASSUME NEW g \in Groups
      PROVE  /\ result'[g].counter = Cardinality(AnsweredIn(g))
             /\ \A t \in 0 .. MaxTime :
                  Cardinality({i \in RowsOf(g) : rows[i].fct = t})
                    = Cardinality({k \in AnsweredIn(g) : answered[k].time = t})
    <2>1. ResultOf(g).counter = Cardinality(RowsOf(g))
        BY DEF ResultOf
    <2>2. result'[g] = ResultOf(g) /\ active = {}
        BY AtPrint
    <2>3. \A t \in 0 .. MaxTime : t \in Int
        BY TableAssumption
    <2> QED BY <2>1, <2>2, <2>3, GroupCounts
<1> QED BY <1>1, AtPrint DEF ReportCounts

\* statistics.c:148-260: at the end every requested flow is an error or was
\* answered; the groups count the answered flows; and the rows their averages and
\* percentiles are computed from hold the durations of these flows, each as often
\* as it occurred, by the order in which rows are filled, stamped and emptied.
THEOREM CountsReported ==
    ASSUME Held <= Backup, Measured
    PROVE  Spec => []ReportCounts
<1>1. Init => ReportCounts
    BY DEF Init, InitSetup, ReportCounts
<1>2. TableInv /\ HistoryInv /\ ReportCounts /\ [Next]_vars => ReportCounts'
    <2> SUFFICES ASSUME TableInv, HistoryInv, ReportCounts, [Next]_vars PROVE ReportCounts'
        OBVIOUS
    <2>1. CASE PrintStatistics
        BY <2>1, PrintCounts
    <2>2. CASE UNCHANGED vars
        <3>1. UNCHANGED <<phase, rows, errors, result, began, answered>>
            BY <2>2 DEF vars, setupVars, tableVars, historyVars
        <3>2. \A g : RowsOf(g)' = RowsOf(g) /\ AnsweredIn(g)' = AnsweredIn(g)
            BY <3>1 DEF RowsOf, AnsweredIn
        <3> QED BY <3>1, <3>2 DEF ReportCounts
    <2>3. CASE phase' # "done"
        BY <2>3 DEF ReportCounts
    <2> QED BY <2>1, <2>2, <2>3, OnlyPrintEnds
<1>3. Spec => []HistoryInv
    BY HistoryStarts, HistoryKept, Invariant, PTL DEF Spec
<1> QED BY <1>1, <1>2, <1>3, Invariant, PTL DEF Spec

\* Every size is in a group.
LEMMA GroupFound ==
    ASSUME NEW size \in Nat
    PROVE  GetGroupIndex(size) \in Groups
<1> DEFINE l == Len(Thresholds)  below == {h \in DOMAIN Thresholds : size < Thresholds[h]}
<1>1. l \in Nat /\ DOMAIN Thresholds = 1 .. l
    BY TableAssumption
<1>2. below # {} => Min(below) \in 1 .. l
    <2>1. below \in SUBSET (1 .. l) /\ below \in SUBSET Nat
        BY <1>1
    <2> HIDE DEF below
    <2> QED BY <2>1, MinRight
<1>3. GetGroupIndex(size) = IF below = {} THEN l + 1 ELSE Min(below)
    BY Zenon DEF GetGroupIndex
<1> HIDE DEF below, l
<1> QED BY <1>1, <1>2, <1>3 DEF Groups, l

\* The groups together have as many rows as there are answers.
LEMMA GroupsTogether ==
    ASSUME TableInv, HistoryInv, active = {}
    PROVE  SumFunction([g \in Groups |-> Cardinality(RowsOf(g))]) = Len(answered)
<1> DEFINE used == {i \in DOMAIN rows : rows[i].fd # 0}
           group == [i \in used |-> GetGroupIndex(rows[i].size)]
           count == [g \in Groups |-> Cardinality(RowsOf(g))]
<1>1. PICK n \in Nat : Rows(rows, n)
    BY DEF TableInv, RowInv
<1>2. \A i \in DOMAIN rows : rows[i].size \in Nat /\ rows[i].fct \in Int
    BY <1>1 DEF Rows, Row
<1>3. used = RowsIn(Nat \X Int) /\ IsFiniteSet(used)
    <2>1. used = RowsIn(Nat \X Int)
        BY <1>2 DEF RowsIn
    <2> QED BY <2>1, CountsFinite
<1>4. group \in [used -> Groups]
    BY <1>2, GroupFound
<1>5. ASSUME NEW g \in Groups PROVE count[g] = Cardinality({i \in used : group[i] = g})
    <2>1. {i \in used : group[i] = g} = RowsOf(g)
        BY DEF RowsOf
    <2> QED BY <2>1
<1>6. IsFiniteSet(Groups)
    <2>1. 1 \in Int /\ Len(Thresholds) + 1 \in Int
        BY TableAssumption
    <2> QED BY <2>1, FS_Interval DEF Groups
<1>7. SumFunctionOnSet(count, Groups) = Cardinality(used)
    <2> HIDE DEF used, group, count
    <2> QED BY <1>3, <1>4, <1>5, <1>6, SumOfClasses
<1>8. Cardinality(used) = Len(answered)
    <2>1. AnswersIn(Nat \X Int) = 1 .. Len(answered)
        <3> DEFINE A == [size : Nat, time : 0 .. MaxTime]
        <3>1. answered \in Seq(A)
            BY DEF HistoryInv
        <3>2. \A a \in A : a.size \in Nat /\ a.time \in Int
            BY TableAssumption
        <3> HIDE DEF A
        <3>3. \A k \in 1 .. Len(answered) : answered[k] \in A
            BY <3>1
        <3> QED BY <3>2, <3>3 DEF AnswersIn
    <2>2. Cardinality(AnswersIn(Nat \X Int)) = Cardinality(used)
        BY <1>3 DEF HistoryInv
    <2>3. Len(answered) \in Nat
        BY CountsFinite
    <2>4. Cardinality(1 .. Len(answered))
            = IF 1 > Len(answered) THEN 0 ELSE Len(answered) - 1 + 1
        BY <2>3, FS_Interval
    <2> QED BY <2>1, <2>2, <2>3, <2>4
<1>9. SumFunction(count) = SumFunctionOnSet(count, Groups)
    <2>1. DOMAIN count = Groups
        OBVIOUS
    <2> HIDE DEF count
    <2> QED BY <2>1 DEF SumFunction
<1> QED BY <1>7, <1>8, <1>9

\* The total of a group is that of its answers.
LEMMA TotalRight ==
    ASSUME Measured, TableInv, HistoryInv, active = {}, NEW g \in Groups
    PROVE  SumFunction([i \in RowsOf(g) |-> rows[i].fct])
             = SumFunction([k \in AnsweredIn(g) |-> answered[k].time])
<1> DEFINE R == RowsOf(g)  A == AnsweredIn(g)
           f == [i \in R |-> rows[i].fct]  h == [k \in A |-> answered[k].time]
<1>1. DOMAIN f = R /\ DOMAIN h = A
    OBVIOUS
<1>2. /\ IsFiniteSet(R) /\ \A i \in R : f[i] \in Int
      /\ IsFiniteSet(A) /\ \A k \in A : h[k] \in Int
    <2>1. /\ \A i \in R : rows[i].fct \in Int
          /\ \A k \in A : answered[k].time \in 0 .. MaxTime
          /\ IsFiniteSet(R) /\ IsFiniteSet(A)
        BY GroupRows
    <2> HIDE DEF R, A
    <2> QED BY <2>1, TableAssumption
<1>3. ASSUME NEW v \in Int
      PROVE  Cardinality({i \in R : f[i] = v}) = Cardinality({k \in A : h[k] = v})
    <2>1. /\ {i \in R : f[i] = v} = {i \in R : rows[i].fct = v}
          /\ {k \in A : h[k] = v} = {k \in A : answered[k].time = v}
        OBVIOUS
    <2>2. Cardinality({i \in R : rows[i].fct = v}) = Cardinality({k \in A : answered[k].time = v})
        BY GroupCounts
    <2> QED BY <2>1, <2>2
<1> HIDE DEF R, A, f, h
<1>4. SumFunctionOnSet(f, R) = SumFunctionOnSet(h, A)
    <2>1. IsFiniteSet(R)
        BY <1>2
    <2>2. IsFiniteSet(A)
        BY <1>2
    <2>3. \A i \in R : f[i] \in Int
        BY <1>2
    <2>4. \A k \in A : h[k] \in Int
        BY <1>2
    <2> QED BY <1>3, <2>1, <2>2, <2>3, <2>4, SumsOfSameValues
<1>5. SumFunction(f) = SumFunction(h)
    BY <1>1, <1>4 DEF SumFunction
<1> QED BY <1>5 DEF R, A, f, h

\* The percentile of a group with n flows is at a place of the sorted durations,
\* behind at least 99 in 100 of them.
LEMMA PlaceRight ==
    ASSUME NEW n \in Nat \ {0}
    PROVE  Percentile(n) \in 1 .. n /\ 100 * Percentile(n) >= 99 * n
BY DEF Percentile

\* In a sorted listing that place holds a value which at least 99 in 100 do not
\* exceed.
LEMMA AtPercentile ==
    ASSUME NEW S, IsFiniteSet(S), S # {}, NEW v, \A i \in S : v[i] \in Int,
           NEW f \in [1 .. Cardinality(S) -> S], IsInjective(f),
           \A j, k \in 1 .. Cardinality(S) : j < k => v[f[j]] <= v[f[k]]
    PROVE  LET p == Percentile(Cardinality(S))
           IN  /\ p \in 1 .. Cardinality(S) /\ f[p] \in S
               /\ 100 * Cardinality(NoMore(S, v, v[f[p]])) >= 99 * Cardinality(S)
<1> DEFINE n == Cardinality(S)  p == Percentile(n)  low == NoMore(S, v, v[f[p]])
           c == Cardinality(low)
<1>1. n \in Nat \ {0}
    BY FS_CardinalityType, FS_EmptySet
<1>2. p \in 1 .. n /\ 100 * p >= 99 * n
    BY <1>1, PlaceRight
<1>3. f[p] \in S
    <2> HIDE DEF n, p
    <2> QED BY <1>2 DEF n
<1>4. c >= p
    <2> HIDE DEF p
    <2> QED BY <1>2, SortedPlace
<1>5. c \in Nat
    <2>1. low \in SUBSET S
        BY DEF NoMore
    <2> HIDE DEF low
    <2> QED BY <2>1, FS_Subset, FS_CardinalityType
<1>6. 100 * c >= 99 * n
    <2> HIDE DEF c, p, n
    <2> QED BY <1>1, <1>2, <1>4, <1>5
<1> QED BY <1>2, <1>3, <1>6

\* What qsort leaves is such a listing of the rows of a group.
LEMMA SortedRows ==
    ASSUME NEW g, RowsOf(g) \in SUBSET Int, IsFiniteSet(RowsOf(g)),
           \A i \in RowsOf(g) : AsUnsigned(rows[i].fct) \in Int
    PROVE  LET n == Cardinality(RowsOf(g))
               fct == [i \in RowsOf(g) |-> AsUnsigned(rows[i].fct)]
           IN  \E f \in [1 .. n -> RowsOf(g)] :
                 /\ IsInjective(f)
                 /\ \A j, k \in 1 .. n : j < k => fct[f[j]] <= fct[f[k]]
                 /\ SortedFct(g) = [k \in 1 .. n |-> fct[f[k]]]
<1> DEFINE R == RowsOf(g)  n == Cardinality(R)
           fct == [i \in R |-> AsUnsigned(rows[i].fct)]
           Sorted(f) == /\ IsInjective(f)
                        /\ \A j, k \in 1 .. n : j < k => fct[f[j]] <= fct[f[k]]
           order == CHOOSE f \in [1 .. n -> R] : Sorted(f)
<1>1. \A i \in R : fct[i] \in Int
    OBVIOUS
<1>2. SortedFct(g) = [k \in 1 .. n |-> fct[order[k]]]
    BY Zenon DEF SortedFct
<1>3. \E f \in [1 .. n -> R] : Sorted(f)
    <2> HIDE DEF R, fct
    <2>1. R \in SUBSET Int
        BY DEF R
    <2>2. IsFiniteSet(R)
        BY DEF R
    <2> QED BY <1>1, <2>1, <2>2, SortedListing
<1>4. order \in [1 .. n -> R] /\ Sorted(order)
    <2> HIDE DEF R, fct, n, Sorted
    <2> QED BY <1>3
<1> HIDE DEF order
<1> QED BY Zenon, <1>2, <1>4

\* It is the duration of an answer, which 99 in 100 answers of the group do not exceed.
LEMMA PercentileRight ==
    ASSUME Measured, TableInv, HistoryInv, active = {}, NEW g \in Groups, AnsweredIn(g) # {}
    PROVE  LET v == SortedFct(g)[Percentile(Cardinality(RowsOf(g)))]
           IN  /\ 100 * Cardinality({k \in AnsweredIn(g) : answered[k].time <= v})
                    >= 99 * Cardinality(AnsweredIn(g))
               /\ \E k \in AnsweredIn(g) : answered[k].time = v
<1> DEFINE R == RowsOf(g)  A == AnsweredIn(g)  n == Cardinality(R)  p == Percentile(n)
           fct == [i \in R |-> AsUnsigned(rows[i].fct)]
<1>1. /\ R \in SUBSET Int /\ IsFiniteSet(R) /\ IsFiniteSet(A)
      /\ \A k \in A : answered[k].time \in 0 .. MaxTime
      /\ n = Cardinality(A)
      /\ \A i \in R : rows[i].fct \in 0 .. MaxTime
    BY GroupRows, GroupCounts
<1>2. R # {}
    <2> HIDE DEF R, A
    <2> QED BY <1>1, FS_EmptySet DEF n, A
<1>3. \A i \in R : AsUnsigned(rows[i].fct) = rows[i].fct /\ fct[i] = rows[i].fct
    <2>1. MaxTime \in Nat /\ IntMax \in Nat /\ MaxTime <= IntMax
        BY TableAssumption DEF Measured
    <2>2. \A t \in 0 .. MaxTime : AsUnsigned(t) = t
        BY <2>1 DEF AsUnsigned
    <2> HIDE DEF R
    <2> QED BY <1>1, <2>2
<1>4. \A i \in R : AsUnsigned(rows[i].fct) \in Int /\ fct[i] \in Int
    <2> HIDE DEF R, fct
    <2> QED BY <1>1, <1>3, TableAssumption
<1>5. PICK f \in [1 .. n -> R] :
        /\ IsInjective(f)
        /\ \A j, k \in 1 .. n : j < k => fct[f[j]] <= fct[f[k]]
        /\ SortedFct(g) = [k \in 1 .. n |-> fct[f[k]]]
    BY <1>1, <1>4, SortedRows
<1> DEFINE v == fct[f[p]]  D == {t \in Int : t <= v}
<1>6. /\ p \in 1 .. n /\ f[p] \in R
      /\ 100 * Cardinality(NoMore(R, fct, v)) >= 99 * n
    <2> HIDE DEF R, fct
    <2> QED BY <1>1, <1>2, <1>4, <1>5, AtPercentile
<1>7. SortedFct(g)[p] = v
    <2> HIDE DEF n, p, fct, R
    <2> QED BY <1>5, <1>6
<1>8. v \in Int /\ v = rows[f[p]].fct
    <2> HIDE DEF n, p, fct, R
    <2> QED BY <1>3, <1>4, <1>6
<1> HIDE DEF v
<1>9. Cardinality(NoMore(R, fct, v)) = Cardinality({k \in A : answered[k].time <= v})
    <2>1. D \in SUBSET Int
        OBVIOUS
    <2> HIDE DEF D
    <2>2. Cardinality({i \in R : rows[i].fct \in D}) = Cardinality({k \in A : answered[k].time \in D})
        BY <2>1, GroupRows
    <2> HIDE DEF R, A, fct
    <2>3. NoMore(R, fct, v) = {i \in R : rows[i].fct \in D}
        <3>1. \A i \in R : fct[i] <= v <=> rows[i].fct \in D
            BY <1>3, <1>4 DEF D
        <3> QED BY <3>1 DEF NoMore
    <2>4. {k \in A : answered[k].time \in D} = {k \in A : answered[k].time <= v}
        <3>1. \A k \in A : answered[k].time \in Int
            BY <1>1, TableAssumption
        <3> QED BY <3>1 DEF D
    <2> QED BY <2>2, <2>3, <2>4
<1>10. 100 * Cardinality({k \in A : answered[k].time <= v}) >= 99 * Cardinality(A)
    BY <1>1, <1>6, <1>9
<1>11. \E k \in A : answered[k].time = v
    <2> DEFINE same == {i \in R : rows[i].fct = v}  mine == {k \in A : answered[k].time = v}
    <2>1. Cardinality(same) = Cardinality(mine)
        BY <1>8, GroupCounts
    <2>2. f[p] \in same
        <3> HIDE DEF R
        <3> QED BY <1>6, <1>8
    <2>3. IsFiniteSet(same) /\ IsFiniteSet(mine)
        <3>1. same \in SUBSET R /\ mine \in SUBSET A
            OBVIOUS
        <3> HIDE DEF same, mine, R, A
        <3> QED BY <1>1, <3>1, FS_Subset
    <2>4. mine # {}
        <3> HIDE DEF same, mine
        <3> QED BY <2>1, <2>2, <2>3, FS_EmptySet
    <2> QED BY <2>4
<1> QED BY <1>7, <1>10, <1>11

LEMMA PrintRight ==
    ASSUME Measured, TableInv, HistoryInv, PrintStatistics
    PROVE  ReportRight'
<1>1. active = {} /\ errors' = errors /\ began' = began /\ answered' = answered
    BY AtPrint
<1>2. \A g \in Groups : result'[g] = ResultOf(g)
    BY AtPrint
<1>3. SumFunction([g \in Groups |-> result'[g].counter]) + errors.conn + errors.size
        = Cardinality(DOMAIN began)
    <2>1. ASSUME NEW g \in Groups PROVE result'[g].counter = Cardinality(RowsOf(g))
        <3>1. ResultOf(g).counter = Cardinality(RowsOf(g))
            BY DEF ResultOf
        <3> QED BY <1>2, <3>1
    <2>2. [g \in Groups |-> result'[g].counter] = [g \in Groups |-> Cardinality(RowsOf(g))]
        BY <2>1
    <2>3. SumFunction([g \in Groups |-> Cardinality(RowsOf(g))]) = Len(answered)
        BY <1>1, GroupsTogether
    <2> QED BY <2>2, <2>3, AtPrint
<1>4. ASSUME NEW g \in Groups, AnsweredIn(g) # {}
      PROVE  /\ result'[g].avgFct = SumFunction([k \in AnsweredIn(g) |-> answered[k].time])
                                      \div Cardinality(AnsweredIn(g))
             /\ 100 * Cardinality({k \in AnsweredIn(g) : answered[k].time <= result'[g].fct99})
                  >= 99 * Cardinality(AnsweredIn(g))
             /\ \E k \in AnsweredIn(g) : answered[k].time = result'[g].fct99
    <2> DEFINE n == Cardinality(RowsOf(g))
    <2>1. n = Cardinality(AnsweredIn(g)) /\ n # 0
        <3>1. IsFiniteSet(AnsweredIn(g))
            BY <1>1, GroupRows
        <3>2. Cardinality(AnsweredIn(g)) # 0
            BY <1>4, <3>1, FS_EmptySet
        <3> QED BY <1>1, <3>2, GroupCounts
    <2>2. /\ result'[g].avgFct = SumFunction([i \in RowsOf(g) |-> rows[i].fct]) \div n
          /\ result'[g].fct99 = SortedFct(g)[Percentile(n)]
        <3> DEFINE total == SumFunction([i \in RowsOf(g) |-> rows[i].fct])
        <3>1. ResultOf(g) = IF n = 0 THEN [counter |-> 0, avgFct |-> 0, fct99 |-> 0]
                            ELSE [counter |-> n, avgFct |-> total \div n,
                                  fct99 |-> SortedFct(g)[Percentile(n)]]
            BY Zenon DEF ResultOf
        <3> HIDE DEF n, total
        <3>2. ResultOf(g).avgFct = total \div n /\ ResultOf(g).fct99 = SortedFct(g)[Percentile(n)]
            BY <2>1, <3>1
        <3> QED BY <1>2, <3>2 DEF n, total
    <2>3. SumFunction([i \in RowsOf(g) |-> rows[i].fct])
            = SumFunction([k \in AnsweredIn(g) |-> answered[k].time])
        BY <1>1, TotalRight
    <2>4. result'[g].avgFct = SumFunction([k \in AnsweredIn(g) |-> answered[k].time])
                                \div Cardinality(AnsweredIn(g))
        BY <2>1, <2>2, <2>3
    <2> DEFINE v == SortedFct(g)[Percentile(n)]
    <2>5. /\ 100 * Cardinality({k \in AnsweredIn(g) : answered[k].time <= v})
               >= 99 * Cardinality(AnsweredIn(g))
          /\ \E k \in AnsweredIn(g) : answered[k].time = v
        BY <1>1, <1>4, PercentileRight
    <2>6. result'[g].fct99 = v
        BY <2>2
    <2> HIDE DEF v
    <2>7. 100 * Cardinality({k \in AnsweredIn(g) : answered[k].time <= result'[g].fct99})
            >= 99 * Cardinality(AnsweredIn(g))
        BY <2>5, <2>6
    <2>8. \E k \in AnsweredIn(g) : answered[k].time = result'[g].fct99
        BY <2>5, <2>6
    <2> QED BY <2>4, <2>7, <2>8
<1>5. \A g \in Groups : AnsweredIn(g)' = AnsweredIn(g)
    BY AtPrint
<1> QED BY <1>1, <1>3, <1>4, <1>5 DEF ReportRight

\* README.md:18, statistics.c:148-260: the report is right, whatever the sizes, the
\* thresholds and the interleaving: the groups and the errors add up to the requested
\* flows, and in each group the average is that of its flows' durations, and the 99th
\* percentile one of them, which 99 in 100 do not exceed.
THEOREM ReportsRight ==
    ASSUME Held <= Backup, Measured
    PROVE  Spec => []ReportRight
<1>1. Init => ReportRight
    BY DEF Init, InitSetup, ReportRight
<1>2. TableInv /\ HistoryInv /\ ReportRight /\ [Next]_vars => ReportRight'
    <2> SUFFICES ASSUME TableInv, HistoryInv, ReportRight, [Next]_vars PROVE ReportRight'
        OBVIOUS
    <2>1. CASE PrintStatistics
        BY <2>1, PrintRight
    <2>2. CASE UNCHANGED vars
        <3>1. UNCHANGED <<phase, errors, result, began, answered>>
            BY <2>2 DEF vars, setupVars, tableVars, historyVars
        <3>2. \A g : AnsweredIn(g)' = AnsweredIn(g)
            BY <3>1 DEF AnsweredIn
        <3> QED BY <3>1, <3>2 DEF ReportRight
    <2>3. CASE phase' # "done"
        BY <2>3 DEF ReportRight
    <2> QED BY <2>1, <2>2, <2>3, OnlyPrintEnds
<1>3. Spec => []HistoryInv
    BY HistoryStarts, HistoryKept, Invariant, PTL DEF Spec
<1> QED BY <1>1, <1>2, <1>3, Invariant, PTL DEF Spec
=============================================================================
