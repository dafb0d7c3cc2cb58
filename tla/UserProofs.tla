------------------------------- MODULE UserProofs -------------------------------
(***************************************************************************)
(* Proofs about what is kept of one user: the experience, and the          *)
(* terminals that are signed in.                                           *)
(*                                                                         *)
(* Progression: for any users, workers, rules, thresholds and histories of *)
(* events, the experience, the levels and the daily counters agree with    *)
(* the grants on record, workers never wait in a circle, and an event that *)
(* is handed over again changes nothing.                                   *)
(*                                                                         *)
(* AuthSessions: what is claimed of terminals holds for any number of      *)
(* tokens, platforms and requests.                                         *)
(*                                                                         *)
(* The two share nothing but the user: the theorems of each are about its  *)
(* own specification.                                                      *)
(***************************************************************************)
EXTENDS Progression, AuthSessions, FiniteSetTheorems, WellFoundedInduction, TLAPS

-------------------------------------------------------------------------------
(* Progression *)

(* A sequence, whatever its elements are. *)
IsList(s) == s \in Seq({s[i] : i \in DOMAIN s})

(* The order in which a worker carries out the grants of its event, and    *)
(* how many of them it has carried out.                                    *)
Order(w) == LockOrder(GrantsOf(job[w].event))
Done(w) == Len(Order(w)) - Len(todo[w])

(* The daily counters count the experience events, and none is over the    *)
(* cap of a rule that shares it.                                           *)
CountsFit(p) ==
    /\ \A k \in DOMAIN p.granted :
         <<p.granted[k].day, Rules[p.granted[k].type].counter>> \in DOMAIN p.counts
    /\ \A c \in DOMAIN p.counts :
         /\ c = <<c[1], c[2]>>
         /\ p.counts[c] = Cardinality(Given(p, c[1], c[2]))
         /\ \A t \in DOMAIN Rules : Rules[t].counter = c[2] => p.counts[c] <= Rules[t].dailyCap

Entry(g) == [type |-> g.type, day |-> g.day, delta |-> g.delta, reversed |-> g.reversed]

(* A progression, committed or not. *)
Shaped(p) ==
    /\ p = [experience |-> p.experience, level |-> p.level, granted |-> p.granted,
            counts |-> p.counts, announced |-> p.announced]
    /\ p.granted = [k \in DOMAIN p.granted |-> p.granted[k]]
    /\ p.counts = [c \in DOMAIN p.counts |-> p.counts[c]]
    /\ IsFiniteSet(DOMAIN p.granted)
    /\ \A k \in DOMAIN p.granted :
         /\ p.granted[k] = Entry(p.granted[k])
         /\ p.granted[k].type \in DOMAIN Rules
         /\ p.granted[k].delta \in Nat
         /\ p.granted[k].reversed \in BOOLEAN
    /\ \A a \in p.announced : a[2] \in Levels

RowOK(p) == Shaped(p) /\ ProgressOK(p) /\ CountsFit(p) /\ Explained(p) /\ Announced(p)

(* Nothing that was given is forgotten, and no counter goes back. *)
Grown(p, q) ==
    /\ DOMAIN p.granted \subseteq DOMAIN q.granted
    /\ DOMAIN p.counts \subseteq DOMAIN q.counts
    /\ \A c \in DOMAIN p.counts : p.counts[c] <= q.counts[c]

(* A grant that has nothing left to give: its user is gone, or his row     *)
(* does not take it.                                                       *)
Settled(gone, rows, g) == g.user \in gone \/ ~Grantable(rows[g.user], g)

(* A worker with an event: it has carried out the grants before the ones   *)
(* to come and holds the rows of their users, which it leaves as they are  *)
(* when the event was handed over before.                                  *)
GrantingOK(w) ==
    job[w].kind = "grant" =>
      /\ job[w].event \in events
      /\ IsList(todo[w])
      /\ Done(w) \in Nat
      /\ \A i \in DOMAIN todo[w] : todo[w][i] = Order(w)[Done(w) + i]
      /\ work[w] = [u \in Locked(w) |-> work[w][u]]
      /\ Locked(w) = {Order(w)[i].user : i \in 1..Done(w)}
      /\ \A i \in 1..Done(w) : Settled(inactive, work[w], Order(w)[i])
      /\ \A u \in Locked(w) : RowOK(work[w][u]) /\ Grown(prog[u], work[w][u])
      /\ job[w].event \in delivered => \A u \in Locked(w) : work[w][u] = prog[u]

ReversingOK(w) ==
    job[w].kind = "reverse" =>
      job[w].user \in Users /\ job[w].key \in DOMAIN prog[job[w].user].granted

(* The inductive invariant. *)
ProgressionInvariant ==
    /\ TypeOK
    /\ prog = [u \in Users |-> prog[u]]
    /\ job = [w \in Workers |-> job[w]]
    /\ todo = [w \in Workers |-> todo[w]]
    /\ work = [w \in Workers |-> work[w]]
    /\ events \in Histories
    /\ \A u \in Users : RowOK(prog[u])
    /\ \A w \in Workers : GrantingOK(w) /\ ReversingOK(w)
    /\ \A e \in delivered : \A i \in DOMAIN GrantsOf(e) : Settled(inactive, prog, GrantsOf(e)[i])

-------------------------------------------------------------------------------
(* Finite sets of integers *)

(* Max is the maximum: a finite set of integers has one. *)
LEMMA MaxOfFinite ==
    ASSUME NEW S \in SUBSET Int, IsFiniteSet(S), S # {}
    PROVE  Max(S) \in S /\ \A x \in S : Max(S) >= x
<1> DEFINE From(x) == {y \in S : y >= x}
           F == {From(x) : x \in S}
<1> HIDE DEF F
<1>1. F \subseteq FiniteSubsetsOf(S) /\ F # {}
  <2>1. FiniteSubsetsOf(S) = SUBSET S
    BY FS_FiniteSubsetsOfFinite
  <2>2. \A x \in S : From(x) \in SUBSET S /\ From(x) \in F
    BY DEF F
  <2>3. F \subseteq SUBSET S
    BY DEF F
  <2> HIDE DEF F, From
  <2> QED BY <2>1, <2>2, <2>3
<1>2. PICK T \in F : \A U \in F : ~(<<U, T>> \in StrictSubsetOrdering(S))
  <2>1. IsWellFoundedOn(StrictSubsetOrdering(S), FiniteSubsetsOf(S))
    BY FS_StrictSubsetOrderingWellFounded
  <2> QED BY <1>1, <2>1, WFMin
<1>3. PICK x \in S : T = From(x)
  BY <1>2 DEF F
<1>4. \A y \in S : x >= y
  <2>1. SUFFICES ASSUME NEW y \in S, y > x PROVE FALSE
    OBVIOUS
  <2>2. From(y) \subseteq From(x) /\ x \in From(x) /\ x \notin From(y)
    <3>1. x \in Int /\ y \in Int /\ \A z \in S : z \in Int
      OBVIOUS
    <3>2. \A z \in Int : z >= y => z >= x
      BY <2>1, <3>1
    <3>3. From(y) \subseteq From(x)
      BY <3>1, <3>2, Zenon
    <3>4. x \in From(x) /\ x \notin From(y)
      BY <2>1, <3>1
    <3> QED BY <3>3, <3>4
  <2>3. <<From(y), T>> \in StrictSubsetOrdering(S)
    BY <1>3, <2>2 DEF StrictSubsetOrdering
  <2> QED BY <1>2, <2>3 DEF F
<1> QED BY <1>4 DEF Max

-------------------------------------------------------------------------------
(* Sums *)

(* SumFunctionOnSet is a fold: it takes the elements one by one, each time *)
(* the one CHOOSE gives.                                                   *)
OneOf(s) == CHOOSE x \in s : TRUE
Adds(f, S, g) ==
    g = [s \in SUBSET S |-> IF s = {} THEN 0 ELSE f[OneOf(s)] + g[s \ {OneOf(s)}]]

LEMMA SumIsFold ==
    ASSUME NEW f, NEW S
    PROVE  SumFunctionOnSet(f, S) = (CHOOSE g : Adds(f, S, g))[S]
  BY DEF SumFunctionOnSet, FoldFunctionOnSet, MapThenFoldSet, Adds, OneOf

(* A set of finite sets that are given with their subsets has a least one. *)
LEMMA LeastSubset ==
    ASSUME NEW S, IsFiniteSet(S), NEW F, F \subseteq SUBSET S, F # {}
    PROVE  \E T \in F : \A U \in F : U \subseteq T => U = T
<1>1. FiniteSubsetsOf(S) = SUBSET S
  BY FS_FiniteSubsetsOfFinite
<1>2. IsWellFoundedOn(StrictSubsetOrdering(S), SUBSET S)
  BY <1>1, FS_StrictSubsetOrderingWellFounded
<1>3. PICK T \in F : \A U \in F : ~(<<U, T>> \in StrictSubsetOrdering(S))
  BY <1>2, WFMin
<1>4. ASSUME NEW U \in F, U \subseteq T PROVE U = T
  BY <1>3, <1>4 DEF StrictSubsetOrdering
<1> QED BY <1>4

LEMMA AnyOf ==
    ASSUME NEW s, s # {}
    PROVE  OneOf(s) \in s
  BY DEF OneOf

(* Whoever adds f up gets the same, also on a part of the set. *)
LEMMA AddsAgree ==
    ASSUME NEW f, NEW S, NEW T, IsFiniteSet(S), T \subseteq S, NEW g, NEW h, Adds(f, S, g), Adds(f, T, h)
    PROVE  \A U \in SUBSET T : g[U] = h[U]
<1> DEFINE F == {U \in SUBSET T : g[U] # h[U]}
<1>1. SUFFICES ASSUME F # {} PROVE FALSE
  OBVIOUS
<1>2. F \subseteq SUBSET S
  OBVIOUS
<1>3. PICK U \in F : \A V \in F : V \subseteq U => V = U
  <2> HIDE DEF F
  <2> QED BY <1>1, <1>2, LeastSubset
<1>4. CASE U = {}
  BY <1>4 DEF Adds
<1>5. CASE U # {}
  <2> DEFINE x == OneOf(U)
             V == U \ {x}
  <2>1. x \in U
    BY <1>5, AnyOf
  <2>2. V \in SUBSET T /\ V \subseteq U /\ V # U
    BY <2>1
  <2>3. g[V] = h[V]
    BY <1>3, <2>2
  <2>4. U \in SUBSET S /\ U \in SUBSET T
    OBVIOUS
  <2>5. g[U] = f[x] + g[V] /\ h[U] = f[x] + h[V]
    BY <1>5, <2>4 DEF Adds
  <2> QED BY <2>3, <2>5
<1> QED BY <1>4, <1>5

(* On a finite set it can be done. *)
LEMMA AddsExist ==
    ASSUME NEW f, NEW S, IsFiniteSet(S)
    PROVE  \E g : Adds(f, S, g)
<1> DEFINE F == {T \in SUBSET S : ~\E g : Adds(f, T, g)}
<1>1. SUFFICES ASSUME F # {} PROVE FALSE
  OBVIOUS
<1>2. PICK T \in F : \A U \in F : U \subseteq T => U = T
  <2>1. F \subseteq SUBSET S
    OBVIOUS
  <2> HIDE DEF F
  <2> QED BY <1>1, <2>1, LeastSubset
<1>3. T \in SUBSET S /\ IsFiniteSet(T)
  BY FS_Subset
<1> DEFINE Value(U) == (CHOOSE g : Adds(f, U, g))[U]
           Rest(U) == U \ {OneOf(U)}
           sum == [U \in SUBSET T |-> IF U = {} THEN 0 ELSE f[OneOf(U)] + Value(Rest(U))]
<1>4. ASSUME NEW U \in SUBSET T, U # T
      PROVE  Adds(f, U, CHOOSE g : Adds(f, U, g)) /\ U \in SUBSET S
  <2>1. \E g : Adds(f, U, g)
    BY <1>2, <1>3, <1>4
  <2> QED BY <2>1, <1>3
<1>5. ASSUME NEW U \in SUBSET T, U # T
      PROVE  Value(U) = IF U = {} THEN 0 ELSE f[OneOf(U)] + Value(Rest(U))
  <2> DEFINE g == CHOOSE g : Adds(f, U, g)
             V == Rest(U)
             h == CHOOSE h : Adds(f, V, h)
  <2>1. Adds(f, U, g)
    BY <1>4, <1>5
  <2>2. CASE U = {}
    BY <2>1, <2>2 DEF Adds
  <2>3. CASE U # {}
    <3>1. V \in SUBSET U /\ V \in SUBSET T /\ V # T
      BY <1>5, <2>3, AnyOf
    <3>2. Adds(f, V, h)
      BY <1>4, <3>1
    <3>3. IsFiniteSet(U)
      BY <1>3, FS_Subset
    <3>4. g[V] = h[V]
      <4> HIDE DEF g, h, V
      <4> QED BY <2>1, <3>1, <3>2, <3>3, AddsAgree
    <3>5. g[U] = f[OneOf(U)] + g[V]
      <4> HIDE DEF g
      <4> QED BY <2>1, <2>3 DEF Adds
    <3> QED BY <2>3, <3>4, <3>5
  <2> QED BY <2>2, <2>3
<1>6. ASSUME NEW U \in SUBSET T
      PROVE  sum[U] = IF U = {} THEN 0 ELSE f[OneOf(U)] + sum[Rest(U)]
  <2>1. CASE U = {}
    BY <2>1
  <2>2. CASE U # {}
    <3>1. Rest(U) \in SUBSET T /\ Rest(U) # T
      BY <2>2, AnyOf
    <3> HIDE DEF Value
    <3>2. sum[U] = f[OneOf(U)] + Value(Rest(U))
      BY <2>2
    <3>3. sum[Rest(U)] = IF Rest(U) = {} THEN 0 ELSE f[OneOf(Rest(U))] + Value(Rest(Rest(U)))
      BY <3>1
    <3>4. sum[Rest(U)] = Value(Rest(U))
      BY <1>5, <3>1, <3>3
    <3> QED BY <2>2, <3>2, <3>4
  <2> QED BY <2>1, <2>2
<1>7. sum = [U \in SUBSET T |-> IF U = {} THEN 0 ELSE f[OneOf(U)] + sum[Rest(U)]]
  <2> HIDE DEF Rest, Value
  <2>1. sum = [U \in SUBSET T |-> sum[U]]
    OBVIOUS
  <2> HIDE DEF sum
  <2> QED BY <1>6, <2>1
<1>8. Adds(f, T, sum)
  <2> HIDE DEF sum
  <2> QED BY <1>7 DEF Adds
<1> QED BY <1>8

LEMMA SumOfSum ==
    ASSUME NEW f, NEW S, IsFiniteSet(S)
    PROVE  SumFunctionOnSet(f, S) =
             IF S = {} THEN 0 ELSE f[OneOf(S)] + SumFunctionOnSet(f, S \ {OneOf(S)})
<1> DEFINE x == OneOf(S)
           T == S \ {x}
<1>1. PICK g : Adds(f, S, g) /\ SumFunctionOnSet(f, S) = g[S]
  BY AddsExist, SumIsFold, Zenon
<1>2. IsFiniteSet(T) /\ T \subseteq S
  BY FS_Subset
<1>3. PICK h : Adds(f, T, h) /\ SumFunctionOnSet(f, T) = h[T]
  BY <1>2, AddsExist, SumIsFold, Zenon
<1>4. g[T] = h[T]
  <2> HIDE DEF T
  <2> QED BY <1>1, <1>2, <1>3, AddsAgree
<1>5. g[S] = IF S = {} THEN 0 ELSE f[x] + g[T]
  BY <1>1 DEF Adds
<1> QED BY <1>1, <1>3, <1>4, <1>5

(* The sum, element by element in any order. *)
LEMMA SumSplits ==
    ASSUME NEW f, NEW S, IsFiniteSet(S), \A s \in S : f[s] \in Int
    PROVE  /\ SumFunctionOnSet(f, {}) = 0
           /\ SumFunctionOnSet(f, S) \in Int
           /\ \A x \in S : SumFunctionOnSet(f, S) = f[x] + SumFunctionOnSet(f, S \ {x})
<1> DEFINE Sum(T) == SumFunctionOnSet(f, T)
           F == {T \in SUBSET S : ~(Sum(T) \in Int /\ \A x \in T : Sum(T) = f[x] + Sum(T \ {x}))}
<1> HIDE DEF Sum
<1>1. Sum({}) = 0
  BY SumOfSum, FS_EmptySet DEF Sum
<1>2. SUFFICES F = {}
  BY <1>1 DEF Sum
<1>3. SUFFICES ASSUME F # {} PROVE FALSE
  OBVIOUS
<1>4. PICK T \in F : \A U \in F : U \subseteq T => U = T
  <2>1. F \subseteq SUBSET S
    OBVIOUS
  <2> HIDE DEF F
  <2> QED BY <1>3, <2>1, LeastSubset
<1>5. T \in SUBSET S /\ T # {}
  <2>1. ASSUME T = {} PROVE FALSE
    <3>1. Sum(T) = 0
      BY <1>1, <2>1
    <3>2. Sum(T) \in Int /\ \A x \in T : Sum(T) = f[x] + Sum(T \ {x})
      BY <2>1, <3>1
    <3> QED BY <3>2
  <2> QED BY <2>1
<1>6. ASSUME NEW U \in SUBSET T, U # T
      PROVE  Sum(U) \in Int /\ \A x \in U : Sum(U) = f[x] + Sum(U \ {x})
  BY <1>4, <1>5, <1>6
<1> DEFINE a == OneOf(T)
<1>7. a \in T /\ IsFiniteSet(T)
  BY <1>5, AnyOf, FS_Subset
<1>8. Sum(T) = f[a] + Sum(T \ {a})
  BY <1>5, <1>7, SumOfSum DEF Sum
<1> HIDE DEF a, F
<1>9. Sum(T \ {a}) \in Int /\ f[a] \in Int
  BY <1>5, <1>6, <1>7
<1>10. ASSUME NEW x \in T PROVE Sum(T) = f[x] + Sum(T \ {x})
  <2>1. CASE x = a
    BY <1>8, <2>1
  <2>2. CASE x # a
    <3> DEFINE U == T \ {a}
               V == T \ {x}
               W == U \ {x}
    <3>1. Sum(U) = f[x] + Sum(W)
      BY <1>6, <1>7, <2>2
    <3>2. V \ {a} = W
      OBVIOUS
    <3>3. Sum(V) = f[a] + Sum(V \ {a})
      BY <1>6, <1>7, <2>2
    <3>4. Sum(W) \in Int /\ f[x] \in Int
      BY <1>5, <1>6, <1>7
    <3> HIDE DEF U, V, W
    <3>5. Sum(T) = f[a] + Sum(U)
      BY <1>8 DEF U
    <3>6. Sum(V) = f[a] + Sum(W)
      BY <3>2, <3>3
    <3>7. Sum(T) = f[x] + Sum(V)
      BY <1>9, <3>1, <3>4, <3>5, <3>6
    <3> QED BY <3>7 DEF V
  <2> QED BY <2>1, <2>2
<1>11. Sum(T) \in Int
  BY <1>8, <1>9
<1> QED BY <1>4, <1>10, <1>11 DEF F

(* It depends on what f is on the set, ... *)
LEMMA SumsAgree ==
    ASSUME NEW f, NEW g, NEW S, IsFiniteSet(S), \A s \in S : f[s] \in Int /\ g[s] = f[s]
    PROVE  SumFunctionOnSet(f, S) = SumFunctionOnSet(g, S)
<1> DEFINE F == {T \in SUBSET S : SumFunctionOnSet(f, T) # SumFunctionOnSet(g, T)}
<1>1. SUFFICES ASSUME F # {} PROVE FALSE
  OBVIOUS
<1>2. PICK T \in F : \A U \in F : U \subseteq T => U = T
  <2>1. F \subseteq SUBSET S
    OBVIOUS
  <2> HIDE DEF F
  <2> QED BY <1>1, <2>1, LeastSubset
<1>3. T \in SUBSET S /\ IsFiniteSet(T) /\ \A s \in T : f[s] \in Int /\ g[s] \in Int
  BY FS_Subset
<1>4. T # {}
  BY <1>3, SumSplits
<1>5. PICK x \in T : TRUE
  BY <1>4
<1>6. SumFunctionOnSet(f, T) = f[x] + SumFunctionOnSet(f, T \ {x})
  BY <1>3, SumSplits
<1>7. SumFunctionOnSet(g, T) = g[x] + SumFunctionOnSet(g, T \ {x})
  BY <1>3, SumSplits
<1>8. T \ {x} \notin F
  BY <1>2
<1> QED BY <1>3, <1>6, <1>7, <1>8

(* ... and one element more adds its value.                                *)
LEMMA SumGrows ==
    ASSUME NEW f, NEW g, NEW S, IsFiniteSet(S), NEW x, x \notin S,
           \A s \in S : f[s] \in Int /\ g[s] = f[s], g[x] \in Int
    PROVE  SumFunctionOnSet(g, S \cup {x}) = SumFunctionOnSet(f, S) + g[x]
<1> DEFINE T == S \cup {x}
<1>1. IsFiniteSet(T) /\ x \in T /\ T \ {x} = S /\ \A s \in T : g[s] \in Int
  BY FS_AddElement
<1>2. SumFunctionOnSet(f, S) = SumFunctionOnSet(g, S)
  BY SumsAgree
<1> HIDE DEF T
<1>3. SumFunctionOnSet(g, T) = g[x] + SumFunctionOnSet(g, S)
  <2>1. SumFunctionOnSet(g, T) = g[x] + SumFunctionOnSet(g, T \ {x})
    BY <1>1, SumSplits
  <2> QED BY <1>1, <2>1
<1>4. SumFunctionOnSet(f, S) \in Int
  BY SumSplits
<1>5. SumFunctionOnSet(g, T) = SumFunctionOnSet(f, S) + g[x]
  BY <1>1, <1>2, <1>3, <1>4
<1> QED BY <1>5 DEF T

(* Numbers that are not negative add up to one. *)
LEMMA SumIsNatural ==
    ASSUME NEW f, NEW S, IsFiniteSet(S), \A s \in S : f[s] \in Nat
    PROVE  SumFunctionOnSet(f, S) \in Nat
<1> DEFINE F == {T \in SUBSET S : SumFunctionOnSet(f, T) \notin Nat}
<1>1. SUFFICES ASSUME F # {} PROVE FALSE
  OBVIOUS
<1>2. PICK T \in F : \A U \in F : U \subseteq T => U = T
  <2>1. F \subseteq SUBSET S
    OBVIOUS
  <2> HIDE DEF F
  <2> QED BY <1>1, <2>1, LeastSubset
<1>3. T \in SUBSET S /\ IsFiniteSet(T) /\ \A s \in T : f[s] \in Int
  BY FS_Subset
<1>4. T # {}
  BY <1>3, SumSplits
<1>5. PICK x \in T : TRUE
  BY <1>4
<1>6. SumFunctionOnSet(f, T) = f[x] + SumFunctionOnSet(f, T \ {x})
  BY <1>3, SumSplits
<1>7. T \ {x} \notin F
  BY <1>2
<1>8. f[x] \in Nat /\ SumFunctionOnSet(f, T \ {x}) \in Nat
  BY <1>3, <1>7
<1> QED BY <1>6, <1>8

-------------------------------------------------------------------------------
(* Levels *)

LEMMA Thresholds ==
    /\ Levels = 1..Len(LevelThresholds) /\ Len(LevelThresholds) \in Nat /\ 1 \in Levels
    /\ \A i \in Levels : LevelThresholds[i] \in Nat
    /\ \A i, j \in Levels : i < j => LevelThresholds[i] < LevelThresholds[j]
  BY RulesAssumption DEF Levels

(* The level of an experience: its threshold is reached and no later one is. *)
LEMMA LevelFits ==
    ASSUME NEW x \in Nat
    PROVE  LET level == levelForExperience(x)
           IN  /\ level \in Levels
               /\ LevelThresholds[level] <= x
               /\ \A j \in Levels : j > level => LevelThresholds[j] > x
<1> DEFINE Reached == {i \in Levels : x >= LevelThresholds[i]}
<1>1. Levels = 1..Len(LevelThresholds) /\ Len(LevelThresholds) \in Nat /\ 1 \in Levels
  BY Thresholds
<1>2. \A i \in Levels : LevelThresholds[i] \in Nat
  BY Thresholds
<1>3. 1 \in Reached /\ Reached \in SUBSET Int
  BY <1>1, RulesAssumption
<1>4. IsFiniteSet(Reached)
  <2>1. IsFiniteSet(Levels)
    BY <1>1, FS_Interval
  <2> QED BY <2>1, FS_Subset
<1>5. PICK top \in Reached : \A i \in Reached : top >= i
  <2> HIDE DEF Reached
  <2> QED BY <1>3, <1>4, MaxOfFinite
<1>6. top \in Levels /\ x >= LevelThresholds[top]
  OBVIOUS
<1>7. \A j \in Levels : j > top => ~(x >= LevelThresholds[j])
  BY <1>1, <1>5, <1>6
<1>8. PICK level \in Levels :
        /\ level = levelForExperience(x)
        /\ x >= LevelThresholds[level]
        /\ \A j \in Levels : j > level => ~(x >= LevelThresholds[j])
  BY <1>6, <1>7, Zenon DEF levelForExperience
<1> QED BY <1>2, <1>8

(* What a profile shows fits it. *)
LEMMA ProfilesEnclose ==
    ASSUME NEW row, row.experience \in Nat,
           row.level = levelForExperience(row.experience)
    PROVE  ProfileEncloses(row)
<1> DEFINE x == row.experience
           level == levelForExperience(x)
           Reached == {i \in Levels : LevelThresholds[i] <= x}
           p == progressionFor(x)
<1>1. /\ level \in Levels
      /\ LevelThresholds[level] <= x
      /\ \A j \in Levels : j > level => LevelThresholds[j] > x
  BY LevelFits
<1>2. Levels = 1..Len(LevelThresholds) /\ Len(LevelThresholds) \in Nat
  BY Thresholds
<1>3. /\ \A i \in Levels : LevelThresholds[i] \in Nat
      /\ \A i, j \in Levels : i < j => LevelThresholds[i] < LevelThresholds[j]
  BY Thresholds
<1> HIDE DEF level
<1>4. Reached = 1..level
  BY <1>1, <1>2, <1>3
<1>5. Cardinality(Reached) = level
  <2>1. level \in Int /\ level >= 1
    BY <1>1, <1>2
  <2>2. Cardinality(1..level) = level
    BY <2>1, FS_Interval
  <2> HIDE DEF Reached
  <2> QED BY <1>4, <2>2
<1>6. /\ p.level = level /\ p.experience = x
      /\ p.currentLevelExperience = LevelThresholds[level]
      /\ p.nextLevelExperience = IF level + 1 \in Levels THEN LevelThresholds[level + 1] ELSE -1
  BY DEF progressionFor, level
<1>7. p.currentLevelExperience <= p.experience
  BY <1>1, <1>6
<1>8. IF p.level = Len(LevelThresholds) THEN p.nextLevelExperience = -1
      ELSE p.experience < p.nextLevelExperience
  BY <1>1, <1>2, <1>3, <1>6
<1> HIDE DEF p
<1>9. p.level = levelForExperience(row.experience)
  BY <1>6 DEF level
<1>10. row.level = Cardinality({i \in Levels : LevelThresholds[i] <= p.experience})
  <2>1. Reached = {i \in Levels : LevelThresholds[i] <= p.experience}
    BY <1>6
  <2> HIDE DEF Reached
  <2>2. row.level = level
    BY DEF level
  <2> QED BY <1>5, <2>1, <2>2
<1> QED BY <1>7, <1>8, <1>10 DEF ProfileEncloses, p

-------------------------------------------------------------------------------
(* Lists of grants *)

LEMMA Lists ==
    ASSUME NEW s, IsList(s)
    PROVE  /\ Len(s) \in Nat /\ DOMAIN s = 1..Len(s)
           /\ \A i \in DOMAIN s : i \in Nat /\ i > 0 /\ i <= Len(s)
  BY DEF IsList

LEMMA SequencesAreLists ==
    ASSUME NEW S, NEW s \in Seq(S)
    PROVE  IsList(s)
<1> DEFINE R == {s[i] : i \in DOMAIN s}
<1>1. DOMAIN s = 1..Len(s) /\ Len(s) \in Nat /\ s = [i \in 1..Len(s) |-> s[i]]
  OBVIOUS
<1>2. \A i \in 1..Len(s) : s[i] \in R
  BY <1>1
<1> HIDE DEF R
<1>3. s \in Seq(R)
  BY <1>1, <1>2
<1> QED BY <1>3 DEF IsList, R

LEMMA ListsAreSequences ==
    ASSUME NEW n \in Nat, NEW s, s = [i \in 1..n |-> s[i]]
    PROVE  IsList(s) /\ Len(s) = n
<1> DEFINE R == {s[i] : i \in 1..n}
<1>1. \A i \in 1..n : s[i] \in R
  OBVIOUS
<1> HIDE DEF R
<1>2. s \in Seq(R) /\ Len(s) = n
  BY <1>1
<1> QED BY <1>2, SequencesAreLists

LEMMA TailOfList ==
    ASSUME NEW s, IsList(s), s # <<>>
    PROVE  /\ Len(s) > 0 /\ 1 \in DOMAIN s /\ Head(s) = s[1]
           /\ IsList(Tail(s)) /\ Len(Tail(s)) = Len(s) - 1
           /\ \A i \in DOMAIN Tail(s) : i + 1 \in DOMAIN s /\ Tail(s)[i] = s[i + 1]
<1> DEFINE S == {s[i] : i \in DOMAIN s}
<1>1. s \in Seq(S)
  BY DEF IsList
<1> HIDE DEF S
<1>2. Tail(s) \in Seq(S) /\ Len(Tail(s)) = Len(s) - 1 /\ Len(s) > 0 /\ Len(s) \in Nat
  BY <1>1
<1>3. \A i \in 1..Len(s) - 1 : Tail(s)[i] = s[i + 1]
  BY <1>1, <1>2
<1>4. IsList(Tail(s))
  BY <1>2, SequencesAreLists
<1>5. DOMAIN s = 1..Len(s) /\ DOMAIN Tail(s) = 1..Len(s) - 1
  BY <1>1, <1>2
<1> QED BY <1>1, <1>2, <1>3, <1>4, <1>5

(* What a handler asks for: grants for users there are. *)
Fits(g) == g.user \in Users /\ g.type \in GrantTypes
Fitting(s) == IsList(s) /\ \A i \in DOMAIN s : Fits(s[i])

LEMMA InputFits ==
    ASSUME NEW u \in Users, NEW t \in GrantTypes, NEW k, NEW d
    PROVE  Fits(GrantInput(u, t, k, d))
  BY DEF GrantInput, Fits

LEMMA FittingTuples ==
    ASSUME NEW f, NEW g, NEW h, Fits(f), Fits(g)
    PROVE  /\ Fitting(<<f>>) /\ Fitting(<<f, g>>)
           /\ Fits(h) => Fitting(<<f, g, h>>)
<1>1. <<f>> \in Seq({f}) /\ DOMAIN <<f>> = {1} /\ <<f>>[1] = f
  OBVIOUS
<1>2. <<f, g>> \in Seq({f, g}) /\ DOMAIN <<f, g>> = {1, 2} /\ <<f, g>>[1] = f /\ <<f, g>>[2] = g
  OBVIOUS
<1>3. /\ <<f, g, h>> \in Seq({f, g, h}) /\ DOMAIN <<f, g, h>> = {1, 2, 3}
      /\ <<f, g, h>>[1] = f /\ <<f, g, h>>[2] = g /\ <<f, g, h>>[3] = h
  OBVIOUS
<1>4. IsList(<<f>>) /\ IsList(<<f, g>>) /\ IsList(<<f, g, h>>)
  BY <1>1, <1>2, <1>3, SequencesAreLists
<1>5. Fitting(<<f>>)
  BY <1>1, <1>4 DEF Fitting
<1>6. Fitting(<<f, g>>)
  BY <1>2, <1>4 DEF Fitting
<1>7. ASSUME Fits(h) PROVE Fitting(<<f, g, h>>)
  BY <1>3, <1>4, <1>7 DEF Fitting
<1> QED BY <1>5, <1>6, <1>7

LEMMA FittingNone == Fitting(<<>>)
<1>1. <<>> \in Seq({}) /\ DOMAIN <<>> = {}
  OBVIOUS
<1>2. IsList(<<>>)
  BY <1>1, SequencesAreLists
<1> QED BY <1>1, <1>2 DEF Fitting

LEMMA FittingBoth ==
    ASSUME NEW s, NEW t, Fitting(s), Fitting(t)
    PROVE  Fitting(s \o t)
<1> DEFINE S == {s[i] : i \in DOMAIN s}
           T == {t[i] : i \in DOMAIN t}
           R == S \cup T
<1>1. s \in Seq(S) /\ t \in Seq(T)
  BY DEF Fitting, IsList
<1>2. \A g \in R : Fits(g)
  BY DEF Fitting
<1>3. S \subseteq R /\ T \subseteq R
  OBVIOUS
<1> HIDE DEF S, T, R
<1>4. s \in Seq(R) /\ t \in Seq(R)
  BY <1>1, <1>3
<1>5. s \o t \in Seq(R)
  BY <1>4
<1> DEFINE st == s \o t
<1>6. st \in Seq(R)
  BY <1>5
<1> HIDE DEF st
<1>7. \A i \in DOMAIN st : st[i] \in R
  BY <1>6
<1>8. IsList(st)
  BY <1>6, SequencesAreLists
<1> QED BY <1>2, <1>7, <1>8 DEF Fitting, st

LEMMA GrantsFit ==
    ASSUME NEW history \in Histories, NEW e \in history
    PROVE  Fitting(GrantsOf(e))
<1>1. /\ e.kind \in EventKinds /\ e.user \in Users
      /\ e.kind \in TwoUserKinds => e.owner \in Users
  BY ProgressionAssumption
<1>2. Fits(dailyActivity(e.user, e.day))
  BY <1>1, InputFits DEF dailyActivity, GrantTypes
<1>3. CASE e.kind = "post.created"
  <2> DEFINE own == GrantInput(e.user, "POST_CREATED", <<"post-created", e.id>>, e.day)
             reply == GrantInput(e.owner, "THREAD_REPLY_RECEIVED",
                                 <<"thread-reply-received", e.owner, e.user, e.day>>, e.day)
             activated == GrantInput(e.owner, "PRIVATE_THREAD_ACTIVATED",
                                     <<"private-thread-activated", e.thread>>, e.day)
  <2>1. e.owner \in Users
    BY <1>1, <1>3 DEF TwoUserKinds
  <2>2. Fits(own) /\ Fits(reply) /\ Fits(activated)
    BY <1>1, <2>1, InputFits DEF GrantTypes
  <2>3. GrantsOf(e) = handlePostCreated(e)
    BY <1>3 DEF GrantsOf
  <2> HIDE DEF own, reply, activated
  <2> DEFINE first == <<dailyActivity(e.user, e.day), own>>
             last == IF e.private THEN <<activated>> ELSE <<>>
             rest == IF e.owner = e.user THEN <<>> ELSE <<reply>> \o last
  <2>4. Fitting(first)
    BY <1>2, <2>2, FittingTuples
  <2>5. Fitting(last)
    BY <2>2, FittingTuples, FittingNone
  <2>6. Fitting(<<reply>>)
    BY <2>2, FittingTuples
  <2>7. Fitting(rest)
    <3> HIDE DEF last
    <3>1. Fitting(<<reply>> \o last)
      BY <2>5, <2>6, FittingBoth
    <3> QED BY <3>1, FittingNone
  <2>8. GrantsOf(e) = IF e.isSubthreadBody THEN <<>> ELSE first \o rest
    BY <2>3, Zenon DEF handlePostCreated, own, reply, activated
  <2> HIDE DEF first, rest
  <2>9. Fitting(first \o rest)
    BY <2>4, <2>7, FittingBoth
  <2> QED BY <2>8, <2>9, FittingNone
<1>4. CASE e.kind = "thread.published"
  <2> DEFINE own == GrantInput(e.user, "THREAD_PUBLISHED", <<"thread-published", e.id>>, e.day)
             first == <<dailyActivity(e.user, e.day)>>
             rest == IF e.private THEN <<>> ELSE <<own>>
  <2>1. Fits(own)
    BY <1>1, InputFits DEF GrantTypes
  <2>2. GrantsOf(e) = first \o rest
    BY <1>4 DEF GrantsOf, handleThreadPublished
  <2> HIDE DEF own
  <2>3. Fitting(first)
    BY <1>2, FittingTuples
  <2>4. Fitting(rest)
    BY <2>1, FittingTuples, FittingNone
  <2> HIDE DEF first, rest
  <2> QED BY <2>2, <2>3, <2>4, FittingBoth
<1>5. CASE e.kind = "moment.created"
  <2> DEFINE own == GrantInput(e.user, "MOMENT_PUBLISHED", <<"moment-published", e.id>>, e.day)
  <2>1. Fits(own)
    BY <1>1, InputFits DEF GrantTypes
  <2>2. GrantsOf(e) = <<dailyActivity(e.user, e.day), own>>
    BY <1>5 DEF GrantsOf, handleMomentCreated
  <2> QED BY <1>2, <2>1, <2>2, FittingTuples
<1>6. CASE e.kind = "thread.liked"
  <2> DEFINE own == GrantInput(e.owner, "THREAD_LIKED", <<"thread-liked", e.thread, e.user>>, e.day)
  <2>1. e.owner \in Users
    BY <1>1, <1>6 DEF TwoUserKinds
  <2>2. Fits(own)
    BY <2>1, InputFits DEF GrantTypes
  <2>3. GrantsOf(e) = IF e.owner = e.user THEN <<>> ELSE <<dailyActivity(e.user, e.day), own>>
    BY <1>6 DEF GrantsOf, handleThreadLiked
  <2> QED BY <1>2, <2>2, <2>3, FittingTuples, FittingNone
<1>7. CASE e.kind = "moment.comment.created"
  <2> DEFINE own == GrantInput(e.user, "MOMENT_COMMENT_CREATED",
                               <<"moment-comment-created", e.id>>, e.day)
             reply == GrantInput(e.owner, "MOMENT_REPLY_RECEIVED",
                                 <<"moment-reply-received", e.owner, e.user, e.day>>, e.day)
  <2>1. e.owner \in Users
    BY <1>1, <1>7 DEF TwoUserKinds
  <2>2. Fits(own) /\ Fits(reply)
    BY <1>1, <2>1, InputFits DEF GrantTypes
  <2>3. GrantsOf(e) = IF e.owner = e.user THEN <<>>
                      ELSE <<dailyActivity(e.user, e.day), own, reply>>
    BY <1>7 DEF GrantsOf, handleMomentCommentCreated
  <2> QED BY <1>2, <2>2, <2>3, FittingTuples, FittingNone
<1>8. CASE e.kind = "tip.completed"
  <2> DEFINE sent == GrantInput(e.user, "TIP_SENT", <<"tip-sent", e.user, e.owner, e.day>>, e.day)
             received == GrantInput(e.owner, "TIP_RECEIVED",
                                    <<"tip-received", e.owner, e.user, e.day>>, e.day)
  <2>1. e.owner \in Users
    BY <1>1, <1>8 DEF TwoUserKinds
  <2>2. Fits(sent) /\ Fits(received)
    BY <1>1, <2>1, InputFits DEF GrantTypes
  <2>3. GrantsOf(e) = IF e.owner = e.user THEN <<>>
                      ELSE <<dailyActivity(e.user, e.day), sent, received>>
    BY <1>8 DEF GrantsOf, handleTipCompleted
  <2> QED BY <1>2, <2>2, <2>3, FittingTuples, FittingNone
<1> QED BY <1>1, <1>3, <1>4, <1>5, <1>6, <1>7, <1>8 DEF EventKinds, TwoUserKinds

-------------------------------------------------------------------------------
(* The order of the locks *)

(* Of a strict order of 1..n in which every two are comparable, each of    *)
(* 1..n is the place of exactly one.                                       *)
LEMMA EveryPlaceIsTaken ==
    ASSUME NEW n \in Nat, NEW R,
           \A i \in 1..n : <<i, i>> \notin R,
           \A i, j \in 1..n : i = j \/ <<i, j>> \in R \/ <<j, i>> \in R,
           \A i, j, k \in 1..n : <<i, j>> \in R /\ <<j, k>> \in R => <<i, k>> \in R
    PROVE  LET Place(i) == Cardinality({j \in 1..n : <<j, i>> \in R}) + 1
           IN  /\ \A i \in 1..n : Place(i) \in 1..n
               /\ \A m \in 1..n : \E i \in 1..n : Place(i) = m
               /\ \A i, j \in 1..n : Place(i) = Place(j) => i = j
               /\ \A i, j \in 1..n : Place(i) < Place(j) => <<i, j>> \in R
<1> DEFINE Ahead(i) == {j \in 1..n : <<j, i>> \in R}
           Place(i) == Cardinality(Ahead(i)) + 1
           rank == [i \in 1..n |-> Place(i)]
<1>1. IsFiniteSet(1..n) /\ Cardinality(1..n) = n
  BY FS_Interval
<1>2. ASSUME NEW i \in 1..n PROVE Place(i) \in 1..n
  <2>1. Ahead(i) \subseteq 1..n /\ Ahead(i) # 1..n
    OBVIOUS
  <2> HIDE DEF Ahead
  <2>2. Cardinality(Ahead(i)) \in Nat /\ Cardinality(Ahead(i)) <= n /\ Cardinality(Ahead(i)) # n
    BY <1>1, <2>1, FS_Subset, FS_CardinalityType
  <2> QED BY <2>2
<1>3. ASSUME NEW i \in 1..n, NEW j \in 1..n, <<i, j>> \in R PROVE Place(i) < Place(j)
  <2>1. Ahead(i) \subseteq Ahead(j)
    BY <1>3
  <2>2. i \in Ahead(j) /\ i \notin Ahead(i)
    BY <1>3
  <2>3. Ahead(j) \subseteq 1..n
    OBVIOUS
  <2>4. Ahead(i) # Ahead(j)
    BY <2>2
  <2> HIDE DEF Ahead
  <2>5. IsFiniteSet(Ahead(j))
    BY <1>1, <2>3, FS_Subset
  <2>6. /\ Cardinality(Ahead(i)) <= Cardinality(Ahead(j)) /\ Cardinality(Ahead(j)) # Cardinality(Ahead(i))
        /\ Cardinality(Ahead(i)) \in Nat /\ Cardinality(Ahead(j)) \in Nat
    BY <2>1, <2>4, <2>5, FS_Subset, FS_CardinalityType
  <2> QED BY <2>6
<1> HIDE DEF Place
<1>4. ASSUME NEW i \in 1..n, NEW j \in 1..n, Place(i) = Place(j) PROVE i = j
  <2>1. CASE <<i, j>> \in R
    BY <1>2, <1>3, <1>4, <2>1
  <2>2. CASE <<j, i>> \in R
    BY <1>2, <1>3, <1>4, <2>2
  <2> QED BY <2>1, <2>2
<1>5. \A m \in 1..n : \E i \in 1..n : Place(i) = m
  <2>1. rank \in Injection(1..n, 1..n)
    BY <1>2, <1>4 DEF Injection, IsInjective
  <2>2. rank \in Surjection(1..n, 1..n)
    <3> HIDE DEF rank
    <3> QED BY <1>1, <2>1, FS_Injection
  <2> QED BY <2>2 DEF Surjection
<1>6. ASSUME NEW i \in 1..n, NEW j \in 1..n, Place(i) < Place(j) PROVE <<i, j>> \in R
  <2>1. CASE i = j
    BY <1>2, <1>6, <2>1
  <2>2. CASE <<j, i>> \in R
    BY <1>2, <1>3, <1>6, <2>2
  <2> QED BY <2>1, <2>2
<1> QED BY <1>2, <1>4, <1>5, <1>6 DEF Place

(* grantMany carries out what the handler asks for, nothing twice and      *)
(* nothing left out, and takes the users in the order of their ids.        *)
LEMMA OrderFits ==
    ASSUME NEW s, Fitting(s)
    PROVE  LET o == LockOrder(s)
           IN  /\ Fitting(o) /\ Len(o) = Len(s)
               /\ \A j \in DOMAIN s : \E i \in DOMAIN o : o[i] = s[j]
               /\ \A i \in DOMAIN o : \E j \in DOMAIN s : o[i] = s[j]
               /\ \A i, j \in DOMAIN o : i < j => o[i].user <= o[j].user
<1> DEFINE n == Len(s)
           Before(i, j) == s[i].user < s[j].user \/ (s[i].user = s[j].user /\ i < j)
           R == {p \in (1..n) \X (1..n) : Before(p[1], p[2])}
           Place(i) == Cardinality({j \in 1..n : <<j, i>> \in R}) + 1
           o == LockOrder(s)
<1>1. n \in Nat /\ DOMAIN s = 1..n
  BY Lists DEF Fitting
<1> HIDE DEF n
<1>2. \A i \in 1..n : s[i].user \in Nat /\ Fits(s[i])
  BY <1>1, ProgressionAssumption DEF Fitting, Fits
<1>3. \A i, j \in 1..n : <<i, j>> \in R <=> Before(i, j)
  OBVIOUS
<1> HIDE DEF R
<1>4. /\ \A i \in 1..n : <<i, i>> \notin R
      /\ \A i, j \in 1..n : i = j \/ <<i, j>> \in R \/ <<j, i>> \in R
  BY <1>1, <1>2, <1>3
<1>5. \A i, j, k \in 1..n : <<i, j>> \in R /\ <<j, k>> \in R => <<i, k>> \in R
  <2>1. \A i, j, k \in 1..n : Before(i, j) /\ Before(j, k) => Before(i, k)
    BY <1>1, <1>2
  <2> HIDE DEF Before
  <2> QED BY <1>3, <2>1
<1>6. /\ \A i \in 1..n : Place(i) \in 1..n
      /\ \A m \in 1..n : \E i \in 1..n : Place(i) = m
      /\ \A i, j \in 1..n : Place(i) = Place(j) => i = j
      /\ \A i, j \in 1..n : Place(i) < Place(j) => <<i, j>> \in R
  BY <1>1, <1>4, <1>5, EveryPlaceIsTaken
<1>7. \A i \in 1..n : {j \in DOMAIN s : Before(j, i)} = {j \in 1..n : <<j, i>> \in R}
  BY <1>1, <1>3
<1>8. o = [m \in 1..n |-> s[CHOOSE i \in 1..n : Cardinality({j \in DOMAIN s : Before(j, i)}) + 1 = m]]
  BY <1>1 DEF LockOrder
<1> HIDE DEF o, Before
<1>9. \A i \in 1..n : Cardinality({j \in DOMAIN s : Before(j, i)}) + 1 = Place(i)
  BY <1>7
<1> DEFINE At(m) == CHOOSE i \in 1..n : Cardinality({j \in DOMAIN s : Before(j, i)}) + 1 = m
<1>10. ASSUME NEW m \in 1..n PROVE At(m) \in 1..n /\ Place(At(m)) = m
  <2>1. \E i \in 1..n : Cardinality({j \in DOMAIN s : Before(j, i)}) + 1 = m
    <3> HIDE DEF Place
    <3>1. PICK i \in 1..n : Place(i) = m
      BY <1>6
    <3> QED BY <1>9, <3>1, Zenon
  <2>2. At(m) \in 1..n /\ Cardinality({j \in DOMAIN s : Before(j, At(m))}) + 1 = m
    BY <2>1, Zenon
  <2> HIDE DEF At, Place
  <2> QED BY <1>9, <2>2
<1>11. o = [m \in 1..n |-> s[At(m)]]
  BY <1>8
<1> HIDE DEF At, Place
<1>12. IsList(o) /\ Len(o) = n /\ DOMAIN o = 1..n
  BY <1>1, <1>11, ListsAreSequences
<1>13. ASSUME NEW m \in DOMAIN o PROVE At(m) \in DOMAIN s /\ o[m] = s[At(m)]
  BY <1>1, <1>10, <1>11
<1>14. Fitting(o)
  BY <1>1, <1>2, <1>12, <1>13 DEF Fitting
<1>15. ASSUME NEW i \in DOMAIN s PROVE \E m \in DOMAIN o : o[m] = s[i]
  <2> DEFINE m == Place(i)
  <2>1. m \in 1..n /\ At(m) \in 1..n /\ Place(At(m)) = Place(i)
    BY <1>1, <1>6, <1>10
  <2>2. At(m) = i
    BY <1>1, <1>6, <2>1
  <2> QED BY <1>12, <1>13, <2>1, <2>2
<1>16. ASSUME NEW i \in DOMAIN o, NEW j \in DOMAIN o, i < j PROVE o[i].user <= o[j].user
  <2>1. <<At(i), At(j)>> \in R
    BY <1>6, <1>10, <1>12, <1>16
  <2>2. Before(At(i), At(j))
    BY <1>1, <1>3, <1>13, <2>1
  <2> QED BY <1>1, <1>2, <1>13, <2>2 DEF Before
<1> QED BY <1>12, <1>13, <1>14, <1>15, <1>16 DEF n, o

-------------------------------------------------------------------------------
(* Grants and reversals of one user *)

(* A counter counts the experience events of its day. *)
LEMMA CountedFits ==
    ASSUME NEW p, Shaped(p), CountsFit(p), NEW day, NEW counter
    PROVE  Counted(p, day, counter) = Cardinality(Given(p, day, counter))
<1> DEFINE c == <<day, counter>>
<1>1. CASE c \in DOMAIN p.counts
  <2>1. c[1] = day /\ c[2] = counter
    OBVIOUS
  <2> QED BY <1>1, <2>1 DEF Counted, CountsFit
<1>2. CASE c \notin DOMAIN p.counts
  <2>1. Given(p, day, counter) = {}
    BY <1>2 DEF Given, CountsFit
  <2> QED BY <1>2, <2>1, FS_EmptySet DEF Counted
<1> QED BY <1>1, <1>2

LEMMA GivenIsFinite ==
    ASSUME NEW p, Shaped(p), NEW day, NEW counter
    PROVE  IsFiniteSet(Given(p, day, counter)) /\ Cardinality(Given(p, day, counter)) \in Nat
  BY FS_Subset, FS_CardinalityType DEF Shaped, Given

LEMMA AwardHolds ==
    ASSUME NEW p, RowOK(p), NEW g, g.type \in DOMAIN Rules, Grantable(p, g)
    PROVE  LET q == Awarded(p, g)
           IN  RowOK(q) /\ Grown(p, q) /\ g.key \in DOMAIN q.granted
<1> DEFINE rule == Rules[g.type]
           experience == p.experience + rule.delta
           level == levelForExperience(experience)
           entry == [type |-> g.type, day |-> g.day, delta |-> rule.delta, reversed |-> FALSE]
           c0 == <<g.day, rule.counter>>
           given == Counted(p, g.day, rule.counter)
           q == Awarded(p, g)
<1>1. /\ q = [experience |-> q.experience, level |-> q.level, granted |-> q.granted,
              counts |-> q.counts, announced |-> q.announced]
      /\ q.experience = experience
      /\ q.level = level
      /\ q.granted = Put(p.granted, g.key, entry)
      /\ q.counts = Put(p.counts, c0, given + 1)
      /\ q.announced = IF level > p.level THEN p.announced \cup {<<g.key, level>>} ELSE p.announced
  BY DEF Awarded
<1>2. /\ rule.delta \in Nat /\ rule.dailyCap \in Nat /\ rule.delta > 0
      /\ \A t \in DOMAIN Rules : Rules[t].counter = rule.counter => Rules[t].dailyCap = rule.dailyCap
  BY RulesAssumption
<1>3. g.key \notin DOMAIN p.granted /\ given < rule.dailyCap
  BY DEF Grantable
<1>4. /\ entry = Entry(entry) /\ entry.type = g.type /\ entry.day = g.day
      /\ entry.delta = rule.delta /\ entry.reversed = FALSE
  BY DEF Entry
<1>5. given = Cardinality(Given(p, g.day, rule.counter)) /\ given \in Nat
  BY CountedFits, GivenIsFinite DEF RowOK
<1> HIDE DEF entry, given, q
<1>6. /\ DOMAIN q.granted = DOMAIN p.granted \cup {g.key} /\ q.granted[g.key] = entry
      /\ \A k \in DOMAIN p.granted : q.granted[k] = p.granted[k]
      /\ q.granted = [k \in DOMAIN q.granted |-> q.granted[k]]
  <2> DEFINE G == Put(p.granted, g.key, entry)
  <2>1. /\ DOMAIN G = DOMAIN p.granted \cup {g.key} /\ G[g.key] = entry
        /\ \A k \in DOMAIN p.granted : k # g.key => G[k] = p.granted[k]
        /\ G = [k \in DOMAIN G |-> G[k]]
    <3> HIDE DEF c0
    <3> QED BY DEF Put
  <2>2. q.granted = G
    BY <1>1
  <2> HIDE DEF G
  <2> QED BY <1>3, <2>1, <2>2
<1>7. /\ DOMAIN q.counts = DOMAIN p.counts \cup {c0} /\ q.counts[c0] = given + 1
      /\ \A c \in DOMAIN p.counts : c # c0 => q.counts[c] = p.counts[c]
      /\ q.counts = [c \in DOMAIN q.counts |-> q.counts[c]]
  <2> DEFINE C == Put(p.counts, c0, given + 1)
  <2>1. /\ DOMAIN C = DOMAIN p.counts \cup {c0} /\ C[c0] = given + 1
        /\ \A c \in DOMAIN p.counts : c # c0 => C[c] = p.counts[c]
        /\ C = [c \in DOMAIN C |-> C[c]]
    <3> HIDE DEF c0
    <3> QED BY DEF Put
  <2>2. q.counts = C
    BY <1>1
  <2> HIDE DEF C
  <2> QED BY <2>1, <2>2
<1>8. p.experience \in Nat /\ p.level \in Levels /\ experience \in Nat
  BY <1>2 DEF RowOK, ProgressOK
<1>9. /\ level \in Levels /\ Levels \subseteq Nat
  <2>1. Levels \subseteq Nat
    BY Thresholds
  <2> HIDE DEF experience
  <2> QED BY <1>8, <2>1, LevelFits
<1> HIDE DEF level, experience
<1>10. Shaped(q)
  <2>1. IsFiniteSet(DOMAIN q.granted)
    <3>1. IsFiniteSet(DOMAIN p.granted)
      BY DEF RowOK, Shaped
    <3> QED BY <1>6, <3>1, FS_AddElement
  <2>2. \A k \in DOMAIN q.granted :
          /\ q.granted[k] = Entry(q.granted[k])
          /\ q.granted[k].type \in DOMAIN Rules
          /\ q.granted[k].delta \in Nat
          /\ q.granted[k].reversed \in BOOLEAN
    <3> SUFFICES ASSUME NEW k \in DOMAIN q.granted
                 PROVE  /\ q.granted[k] = Entry(q.granted[k])
                        /\ q.granted[k].type \in DOMAIN Rules
                        /\ q.granted[k].delta \in Nat
                        /\ q.granted[k].reversed \in BOOLEAN
      OBVIOUS
    <3>1. CASE k \in DOMAIN p.granted
      BY <1>6, <3>1 DEF RowOK, Shaped
    <3>2. CASE k = g.key
      BY <1>2, <1>4, <1>6, <3>2
    <3> QED BY <1>6, <3>1, <3>2
  <2>3. \A a \in q.announced : a[2] \in Levels
    BY <1>1, <1>9 DEF RowOK, Shaped
  <2> QED BY <1>1, <1>6, <1>7, <2>1, <2>2, <2>3 DEF Shaped
<1>11. \A day, counter : Given(q, day, counter) =
         Given(p, day, counter) \cup (IF <<day, counter>> = c0 THEN {g.key} ELSE {})
  BY <1>4, <1>6 DEF Given
<1>12. CountsFit(q)
  <2>1. \A k \in DOMAIN q.granted :
          <<q.granted[k].day, Rules[q.granted[k].type].counter>> \in DOMAIN q.counts
    BY <1>4, <1>6, <1>7 DEF RowOK, CountsFit
  <2>2. ASSUME NEW c \in DOMAIN q.counts
        PROVE  /\ c = <<c[1], c[2]>>
               /\ q.counts[c] = Cardinality(Given(q, c[1], c[2]))
               /\ \A t \in DOMAIN Rules : Rules[t].counter = c[2] => q.counts[c] <= Rules[t].dailyCap
    <3>1. CASE c = c0
      <4>1. c = <<c[1], c[2]>> /\ c[1] = g.day /\ c[2] = rule.counter
        BY <3>1
      <4>2. Given(q, c[1], c[2]) = Given(p, g.day, rule.counter) \cup {g.key}
        BY <1>11, <4>1
      <4>3. g.key \notin Given(p, g.day, rule.counter)
        BY <1>3 DEF Given
      <4>4. IsFiniteSet(Given(p, g.day, rule.counter))
        BY GivenIsFinite DEF RowOK
      <4>5. Cardinality(Given(q, c[1], c[2])) = given + 1
        <5> DEFINE S == Given(p, g.day, rule.counter)
        <5> HIDE DEF S
        <5>1. Cardinality(S \cup {g.key}) = Cardinality(S) + 1
          BY <4>3, <4>4, FS_AddElement DEF S
        <5> QED BY <1>5, <4>2, <5>1 DEF S
      <4>6. given + 1 <= rule.dailyCap
        BY <1>2, <1>3, <1>5
      <4> QED BY <1>2, <1>7, <3>1, <4>1, <4>5, <4>6
    <3>2. CASE c # c0
      <4>1. c \in DOMAIN p.counts /\ q.counts[c] = p.counts[c]
        BY <1>7, <3>2
      <4>2. /\ c = <<c[1], c[2]>>
            /\ p.counts[c] = Cardinality(Given(p, c[1], c[2]))
            /\ \A t \in DOMAIN Rules : Rules[t].counter = c[2] => p.counts[c] <= Rules[t].dailyCap
        BY <4>1 DEF RowOK, CountsFit
      <4>3. Given(q, c[1], c[2]) = Given(p, c[1], c[2])
        <5>1. <<c[1], c[2]>> # c0
          BY <3>2, <4>2
        <5> HIDE DEF c0
        <5>2. Given(q, c[1], c[2]) = Given(p, c[1], c[2]) \cup {}
          BY <1>11, <5>1
        <5> QED BY <5>2
      <4> QED BY <4>1, <4>2, <4>3
    <3> QED BY <3>1, <3>2
  <2> QED BY <2>1, <2>2 DEF CountsFit
<1>13. Explained(q)
  <2> DEFINE f == Deltas(p)
             h == Deltas(q)
             S == LiveKeys(p)
  <2>1. LiveKeys(q) = S \cup {g.key} /\ g.key \notin S
    BY <1>3, <1>4, <1>6 DEF LiveKeys
  <2>2. \A k \in S : f[k] \in Int /\ h[k] = f[k]
    BY <1>6 DEF Deltas, LiveKeys, RowOK, Shaped
  <2>3. h[g.key] = rule.delta
    BY <1>4, <1>6 DEF Deltas
  <2>4. IsFiniteSet(S)
    BY FS_Subset DEF LiveKeys, RowOK, Shaped
  <2> HIDE DEF f, h, S
  <2>5. h[g.key] \in Int
    BY <1>2, <2>3
  <2>6. SumFunctionOnSet(h, S \cup {g.key}) = SumFunctionOnSet(f, S) + h[g.key]
    BY <2>1, <2>2, <2>4, <2>5, SumGrows
  <2>7. SumFunctionOnSet(f, S) = p.experience
    BY DEF f, S, RowOK, Explained
  <2>8. q.experience = SumFunctionOnSet(Deltas(q), LiveKeys(q))
    <3>1. SumFunctionOnSet(h, LiveKeys(q)) = p.experience + rule.delta
      BY <2>1, <2>3, <2>6, <2>7
    <3> QED BY <1>1, <3>1 DEF experience, h
  <2> QED BY <1>1, <2>8 DEF Explained, level
<1>14. Announced(q)
  <2>1. SUFFICES ASSUME q.level > 1 PROVE \E a \in q.announced : a[2] >= q.level
    BY DEF Announced
  <2>2. CASE level > p.level
    <3>1. <<g.key, level>> \in q.announced /\ <<g.key, level>>[2] = level
      BY <1>1, <2>2
    <3> QED BY <1>1, <1>9, <3>1
  <2>3. CASE ~(level > p.level)
    <3>1. p.level > 1
      BY <1>1, <1>8, <1>9, <2>1, <2>3
    <3>2. PICK a \in p.announced : a[2] >= p.level
      BY <3>1 DEF RowOK, Announced
    <3>3. a[2] \in Nat
      BY <1>9 DEF RowOK, Shaped
    <3> QED BY <1>1, <1>8, <1>9, <2>3, <3>2, <3>3
  <2> QED BY <2>2, <2>3
<1>15. ProgressOK(q)
  <2>1. \A c \in DOMAIN q.counts : q.counts[c] \in Nat
    BY <1>5, <1>7 DEF RowOK, ProgressOK
  <2> QED BY <1>1, <1>8, <1>9, <2>1 DEF ProgressOK
<1>16. Grown(p, q)
  <2>1. \A c \in DOMAIN p.counts : p.counts[c] <= q.counts[c]
    <3> SUFFICES ASSUME NEW c \in DOMAIN p.counts PROVE p.counts[c] <= q.counts[c]
      OBVIOUS
    <3>1. p.counts[c] \in Nat
      BY DEF RowOK, ProgressOK
    <3>2. CASE c = c0
      <4>1. given = p.counts[c]
        BY <3>2 DEF given, Counted
      <4> QED BY <1>5, <1>7, <3>2, <4>1
    <3>3. CASE c # c0
      BY <1>7, <3>1, <3>3
    <3> QED BY <3>2, <3>3
  <2> QED BY <1>6, <1>7, <2>1 DEF Grown
<1> QED BY <1>6, <1>10, <1>12, <1>13, <1>14, <1>15, <1>16 DEF RowOK, q

LEMMA GrantHolds ==
    ASSUME NEW p, RowOK(p), NEW g, g.type \in DOMAIN Rules
    PROVE  LET q == grantInTransaction(p, g)
           IN  RowOK(q) /\ Grown(p, q) /\ ~Grantable(q, g)
<1>1. CASE Grantable(p, g)
  BY <1>1, AwardHolds DEF grantInTransaction, Grantable
<1>2. CASE ~Grantable(p, g)
  BY <1>2 DEF grantInTransaction, Grown, RowOK, ProgressOK
<1> QED BY <1>1, <1>2

(* reverse() takes back what the experience event gave; no more than what  *)
(* is there, since the experience is the sum of what was not taken back.   *)
LEMMA ReversalHolds ==
    ASSUME NEW p, RowOK(p), NEW k \in DOMAIN p.granted, ~p.granted[k].reversed
    PROVE  LET q == Reversed(p, k)
           IN  RowOK(q) /\ DOMAIN q.granted = DOMAIN p.granted /\ q.counts = p.counts
<1> DEFINE left == p.experience - p.granted[k].delta
           experience == IF left < 0 THEN 0 ELSE left
           level == levelForExperience(experience)
           q == Reversed(p, k)
           f == Deltas(p)
           S == LiveKeys(p)
<1>1. /\ p.granted[k] = Entry(p.granted[k]) /\ p.granted[k].delta \in Nat
      /\ p.granted = [x \in DOMAIN p.granted |-> p.granted[x]]
      /\ p = [experience |-> p.experience, level |-> p.level, granted |-> p.granted,
              counts |-> p.counts, announced |-> p.announced]
  BY DEF RowOK, Shaped
<1>2. /\ q = [experience |-> q.experience, level |-> q.level, granted |-> q.granted,
              counts |-> q.counts, announced |-> q.announced]
      /\ q.experience = experience
      /\ q.level = level
      /\ q.granted = [p.granted EXCEPT ![k].reversed = TRUE]
      /\ q.counts = p.counts
      /\ q.announced = p.announced
  <2>1. q = [p EXCEPT !.experience = experience, !.level = level, !.granted[k].reversed = TRUE]
    BY DEF Reversed
  <2> HIDE DEF q, level, experience
  <2>2. q.experience = experience /\ q.level = level
    BY <1>1, <2>1
  <2>3. q.granted = [p.granted EXCEPT ![k].reversed = TRUE]
    BY <1>1, <2>1
  <2>4. q.counts = p.counts /\ q.announced = p.announced
    BY <1>1, <2>1
  <2>5. q = [experience |-> q.experience, level |-> q.level, granted |-> q.granted,
             counts |-> q.counts, announced |-> q.announced]
    BY <1>1, <2>1
  <2> QED BY <2>2, <2>3, <2>4, <2>5
<1>3. /\ DOMAIN q.granted = DOMAIN p.granted
      /\ q.granted = [x \in DOMAIN q.granted |-> q.granted[x]]
      /\ \A x \in DOMAIN p.granted : x # k => q.granted[x] = p.granted[x]
      /\ q.granted[k] = [p.granted[k] EXCEPT !.reversed = TRUE]
  BY <1>1, <1>2
<1>4. /\ q.granted[k] = Entry(q.granted[k]) /\ q.granted[k].type = p.granted[k].type
      /\ q.granted[k].day = p.granted[k].day /\ q.granted[k].delta = p.granted[k].delta
      /\ q.granted[k].reversed = TRUE
  BY <1>1, <1>3 DEF Entry
<1> HIDE DEF q
<1>5. \A x \in DOMAIN p.granted :
        /\ q.granted[x] = Entry(q.granted[x]) /\ q.granted[x].type = p.granted[x].type
        /\ q.granted[x].day = p.granted[x].day /\ q.granted[x].delta = p.granted[x].delta
        /\ q.granted[x].reversed \in BOOLEAN
  <2> SUFFICES ASSUME NEW x \in DOMAIN p.granted
               PROVE  /\ q.granted[x] = Entry(q.granted[x]) /\ q.granted[x].type = p.granted[x].type
                      /\ q.granted[x].day = p.granted[x].day /\ q.granted[x].delta = p.granted[x].delta
                      /\ q.granted[x].reversed \in BOOLEAN
    OBVIOUS
  <2>1. CASE x = k
    BY <1>4, <2>1
  <2>2. CASE x # k
    <3>1. q.granted[x] = p.granted[x]
      BY <1>3, <2>2
    <3>2. p.granted[x] = Entry(p.granted[x]) /\ p.granted[x].reversed \in BOOLEAN
      BY DEF RowOK, Shaped
    <3> QED BY <3>1, <3>2
  <2> QED BY <2>1, <2>2
<1>6. /\ IsFiniteSet(DOMAIN p.granted)
      /\ \A x \in DOMAIN p.granted :
           /\ p.granted[x].type \in DOMAIN Rules
           /\ p.granted[x].delta \in Nat
           /\ p.granted[x].reversed \in BOOLEAN
      /\ p.counts = [c \in DOMAIN p.counts |-> p.counts[c]]
      /\ \A a \in p.announced : a[2] \in Levels
  BY DEF RowOK, Shaped
<1>7. Shaped(q)
  <2>1. \A x \in DOMAIN q.granted :
          /\ q.granted[x] = Entry(q.granted[x])
          /\ q.granted[x].type \in DOMAIN Rules
          /\ q.granted[x].delta \in Nat
          /\ q.granted[x].reversed \in BOOLEAN
    BY <1>3, <1>5, <1>6
  <2> QED BY <1>2, <1>3, <1>6, <2>1 DEF Shaped
<1>8. CountsFit(q)
  <2>1. \A day, counter : Given(q, day, counter) = Given(p, day, counter)
    <3> SUFFICES ASSUME NEW day, NEW counter PROVE Given(q, day, counter) = Given(p, day, counter)
      OBVIOUS
    <3>1. \A x \in DOMAIN p.granted :
            (q.granted[x].day = day /\ Rules[q.granted[x].type].counter = counter)
              <=> (p.granted[x].day = day /\ Rules[p.granted[x].type].counter = counter)
      BY <1>5
    <3> QED BY <1>3, <3>1, Zenon DEF Given
  <2>2. \A x \in DOMAIN q.granted :
          <<q.granted[x].day, Rules[q.granted[x].type].counter>> \in DOMAIN q.counts
    BY <1>2, <1>3, <1>5 DEF RowOK, CountsFit
  <2> QED BY <1>2, <2>1, <2>2 DEF RowOK, CountsFit
<1>9. /\ IsFiniteSet(S) /\ k \in S
      /\ \A x \in S : f[x] \in Nat
      /\ f[k] = p.granted[k].delta
  BY <1>6, FS_Subset DEF LiveKeys, Deltas
<1>10. p.experience = SumFunctionOnSet(f, S)
  BY DEF RowOK, Explained
<1>11. LiveKeys(q) = S \ {k} /\ \A x \in S \ {k} : Deltas(q)[x] = f[x]
  <2>1. \A x \in DOMAIN p.granted : Deltas(q)[x] = f[x]
    BY <1>3, <1>5 DEF Deltas
  <2>2. LiveKeys(q) = S \ {k}
    BY <1>3, <1>4 DEF LiveKeys
  <2> QED BY <2>1, <2>2 DEF LiveKeys
<1> HIDE DEF f, S
<1>12. SumFunctionOnSet(f, S) = f[k] + SumFunctionOnSet(f, S \ {k})
  BY <1>9, SumSplits
<1> DEFINE T == S \ {k}
<1>13. IsFiniteSet(T) /\ T \subseteq S /\ \A x \in T : f[x] \in Nat
  BY <1>9, FS_Subset
<1> HIDE DEF T
<1>14. SumFunctionOnSet(f, T) \in Nat
  BY <1>13, SumIsNatural
<1>15. experience = SumFunctionOnSet(f, T) /\ experience \in Nat /\ experience <= p.experience
  <2>1. p.experience = p.granted[k].delta + SumFunctionOnSet(f, T)
    BY <1>9, <1>10, <1>12 DEF T
  <2> QED BY <1>1, <1>14, <2>1
<1> HIDE DEF experience
<1>16. /\ level \in Levels /\ Levels \subseteq Nat
       /\ LevelThresholds[level] <= experience
       /\ p.level \in Levels /\ p.experience \in Nat
       /\ \A j \in Levels : j > p.level => LevelThresholds[j] > p.experience
  <2>1. Levels \subseteq Nat
    BY Thresholds
  <2>2. p.level = levelForExperience(p.experience) /\ p.experience \in Nat
    BY DEF RowOK, Explained, ProgressOK
  <2> QED BY <1>15, <2>1, <2>2, LevelFits
<1> HIDE DEF level
<1>17. level <= p.level
  BY <1>15, <1>16, Thresholds
<1>18. Explained(q)
  <2>1. SumFunctionOnSet(f, T) = SumFunctionOnSet(Deltas(q), T)
    <3>1. \A x \in T : f[x] \in Int /\ Deltas(q)[x] = f[x]
      BY <1>11, <1>13 DEF T
    <3> QED BY <1>13, <3>1, SumsAgree
  <2>2. LiveKeys(q) = T
    BY <1>11 DEF T
  <2>3. q.experience = SumFunctionOnSet(Deltas(q), LiveKeys(q))
    BY <1>2, <1>15, <2>1, <2>2
  <2> QED BY <1>2, <2>3 DEF Explained, level
<1>19. Announced(q)
  <2>1. SUFFICES ASSUME q.level > 1 PROVE \E a \in q.announced : a[2] >= q.level
    BY DEF Announced
  <2>2. PICK a \in p.announced : a[2] >= p.level
    BY <1>2, <1>16, <1>17, <2>1 DEF RowOK, Announced
  <2>3. a[2] \in Nat
    BY <1>6, <1>16
  <2> QED BY <1>2, <1>16, <1>17, <2>2, <2>3
<1>20. ProgressOK(q)
  BY <1>2, <1>15, <1>16 DEF ProgressOK, RowOK
<1> QED BY <1>2, <1>3, <1>7, <1>8, <1>18, <1>19, <1>20 DEF RowOK, q

(* A grant that has nothing left to give has nothing later either. *)
LEMMA NotGrantableLater ==
    ASSUME NEW p, RowOK(p), NEW q, RowOK(q), Grown(p, q),
           NEW g, g.type \in DOMAIN Rules, ~Grantable(p, g)
    PROVE  ~Grantable(q, g)
<1> DEFINE c == <<g.day, Rules[g.type].counter>>
           cap == Rules[g.type].dailyCap
<1>1. cap \in Nat /\ cap > 0
  BY RulesAssumption
<1>2. /\ \A d \in DOMAIN p.counts : p.counts[d] \in Nat
      /\ \A d \in DOMAIN q.counts : q.counts[d] \in Nat
  BY DEF RowOK, ProgressOK
<1>3. CASE g.key \in DOMAIN p.granted
  BY <1>3 DEF Grown, Grantable
<1>4. CASE ~(Counted(p, g.day, Rules[g.type].counter) < cap)
  <2>1. c \in DOMAIN p.counts
    BY <1>1, <1>4 DEF Counted
  <2>2. c \in DOMAIN q.counts /\ p.counts[c] <= q.counts[c]
    BY <2>1 DEF Grown
  <2>3. ~(p.counts[c] < cap)
    BY <1>4, <2>1 DEF Counted
  <2>4. ~(q.counts[c] < cap)
    BY <1>1, <1>2, <2>1, <2>2, <2>3
  <2> QED BY <2>2, <2>4 DEF Grantable, Counted
<1> QED BY <1>3, <1>4 DEF Grantable

LEMMA GrownTwice ==
    ASSUME NEW p, NEW q, NEW r, RowOK(p), RowOK(q), RowOK(r), Grown(p, q), Grown(q, r)
    PROVE  Grown(p, r)
<1>1. /\ \A d \in DOMAIN p.counts : p.counts[d] \in Nat
      /\ \A d \in DOMAIN q.counts : q.counts[d] \in Nat
      /\ \A d \in DOMAIN r.counts : r.counts[d] \in Nat
  BY DEF RowOK, ProgressOK
<1>2. \A c \in DOMAIN p.counts : p.counts[c] <= q.counts[c] /\ q.counts[c] <= r.counts[c]
  BY DEF Grown
<1>3. \A c \in DOMAIN p.counts : p.counts[c] <= r.counts[c]
  BY <1>1, <1>2 DEF Grown
<1> QED BY <1>3 DEF Grown

LEMMA GrownSame ==
    ASSUME NEW p, RowOK(p), NEW q, DOMAIN q.granted = DOMAIN p.granted, q.counts = p.counts
    PROVE  Grown(p, q)
  BY DEF Grown, RowOK, ProgressOK

-------------------------------------------------------------------------------
(* Workers *)

(* What an event asks for, in the order of the locks. *)
LEMMA OrderOfEvent ==
    ASSUME events \in Histories, NEW e \in events
    PROVE  LET grants == GrantsOf(e)
               o == LockOrder(GrantsOf(e))
           IN  /\ IsList(o) /\ Len(o) \in Nat /\ DOMAIN o = 1..Len(o)
               /\ \A i \in DOMAIN o : o[i].user \in Users /\ o[i].type \in DOMAIN Rules
               /\ \A j \in DOMAIN grants : \E i \in DOMAIN o : o[i] = grants[j]
               /\ \A i \in DOMAIN o : \E j \in DOMAIN grants : o[i] = grants[j]
               /\ \A i, j \in DOMAIN o : i < j => o[i].user <= o[j].user
<1> DEFINE s == GrantsOf(e)
           o == LockOrder(s)
<1>1. Fitting(s)
  BY GrantsFit
<1> HIDE DEF s
<1>2. /\ Fitting(o)
      /\ \A j \in DOMAIN s : \E i \in DOMAIN o : o[i] = s[j]
      /\ \A i \in DOMAIN o : \E j \in DOMAIN s : o[i] = s[j]
      /\ \A i, j \in DOMAIN o : i < j => o[i].user <= o[j].user
  BY <1>1, OrderFits
<1> HIDE DEF o
<1>3. \A i \in DOMAIN o : o[i].user \in Users /\ o[i].type \in DOMAIN Rules
  BY <1>2, ProgressionAssumption DEF Fitting, Fits
<1> QED BY <1>2, <1>3, Lists DEF Fitting, o, s

(* Where a worker with an event stands. *)
LEMMA GrantingFits ==
    ASSUME events \in Histories, NEW w, job[w].kind = "grant", GrantingOK(w)
    PROVE  LET o == Order(w)
               d == Done(w)
               n == Len(Order(w))
           IN  /\ n \in Nat /\ DOMAIN o = 1..n /\ d \in 0..n /\ Len(todo[w]) = n - d
               /\ \A i \in DOMAIN o : o[i].user \in Users /\ o[i].type \in DOMAIN Rules
               /\ \A i, j \in DOMAIN o : i < j => o[i].user <= o[j].user
               /\ todo[w] # <<>> => d < n /\ Head(todo[w]) = o[d + 1]
               /\ todo[w] = <<>> => d = n
<1> DEFINE o == Order(w)
           n == Len(o)
           d == Done(w)
<1>1. job[w].event \in events /\ IsList(todo[w]) /\ d \in Nat
      /\ \A i \in DOMAIN todo[w] : todo[w][i] = o[d + i]
  BY DEF GrantingOK
<1>2. /\ n \in Nat /\ DOMAIN o = 1..n
      /\ \A i \in DOMAIN o : o[i].user \in Users /\ o[i].type \in DOMAIN Rules
      /\ \A i, j \in DOMAIN o : i < j => o[i].user <= o[j].user
  BY <1>1, OrderOfEvent DEF Order
<1>3. Len(todo[w]) \in Nat /\ d = n - Len(todo[w])
  BY <1>1, Lists DEF Done
<1> HIDE DEF o, n, d
<1>4. d \in 0..n /\ Len(todo[w]) = n - d
  BY <1>1, <1>2, <1>3
<1>5. ASSUME todo[w] # <<>> PROVE d < n /\ Head(todo[w]) = o[d + 1]
  <2>1. Len(todo[w]) > 0 /\ 1 \in DOMAIN todo[w] /\ Head(todo[w]) = todo[w][1]
    BY <1>1, <1>5, TailOfList
  <2>2. todo[w][1] = o[d + 1]
    BY <1>1, <2>1
  <2>3. d < n
    BY <1>2, <1>4, <2>1
  <2> QED BY <2>1, <2>2, <2>3, Zenon
<1>6. ASSUME todo[w] = <<>> PROVE d = n
  BY <1>2, <1>3, <1>6
<1> QED BY <1>2, <1>4, <1>5, <1>6 DEF o, n, d

(* A worker that has nothing to do with a step stays as it is. *)
LEMMA OthersKeep ==
    ASSUME ProgressionInvariant, NEW v \in Workers,
           job'[v] = job[v], todo'[v] = todo[v], work'[v] = work[v],
           events' = events, inactive \subseteq inactive',
           \A u \in Locked(v) : prog'[u] = prog[u],
           \A u \in Users : DOMAIN prog[u].granted \subseteq DOMAIN prog'[u].granted,
           (job[v].kind = "grant" /\ job[v].event \in delivered' \ delivered) => Locked(v) = {}
    PROVE  GrantingOK(v)' /\ ReversingOK(v)'
<1>1. GrantingOK(v) /\ ReversingOK(v)
  BY DEF ProgressionInvariant
<1>2. Order(v)' = Order(v) /\ Done(v)' = Done(v) /\ Locked(v)' = Locked(v)
  BY DEF Order, Done, Locked
<1>3. ReversingOK(v)'
  BY <1>1 DEF ReversingOK
<1>4. ASSUME job[v].kind = "grant" PROVE GrantingOK(v)'
  <2>1. /\ job[v].event \in events
        /\ IsList(todo[v])
        /\ Done(v) \in Nat
        /\ \A i \in DOMAIN todo[v] : todo[v][i] = Order(v)[Done(v) + i]
        /\ work[v] = [u \in Locked(v) |-> work[v][u]]
        /\ Locked(v) = {Order(v)[i].user : i \in 1..Done(v)}
        /\ \A i \in 1..Done(v) : Settled(inactive, work[v], Order(v)[i])
        /\ \A u \in Locked(v) : RowOK(work[v][u]) /\ Grown(prog[u], work[v][u])
        /\ job[v].event \in delivered => \A u \in Locked(v) : work[v][u] = prog[u]
    BY <1>1, <1>4 DEF GrantingOK
  <2>2. /\ job'[v].event \in events' /\ IsList(todo'[v]) /\ Done(v)' \in Nat
        /\ \A i \in DOMAIN todo'[v] : todo'[v][i] = Order(v)'[Done(v)' + i]
    BY <1>2, <2>1
  <2>3. work'[v] = [u \in Locked(v)' |-> work'[v][u]]
    BY <1>2, <2>1
  <2>4. Locked(v)' = {Order(v)'[i].user : i \in 1..Done(v)'}
    BY <1>2, <2>1
  <2>5. \A i \in 1..Done(v)' : Settled(inactive', work'[v], Order(v)'[i])
    BY <1>2, <2>1 DEF Settled
  <2>6. \A u \in Locked(v)' : RowOK(work'[v][u]) /\ Grown(prog'[u], work'[v][u])
    BY <1>2, <2>1
  <2>7. job'[v].event \in delivered' => \A u \in Locked(v)' : work'[v][u] = prog'[u]
    BY <1>2, <1>4, <2>1
  <2> QED BY <2>2, <2>3, <2>4, <2>5, <2>6, <2>7, Zenon DEF GrantingOK
<1>5. ASSUME job[v].kind # "grant" PROVE GrantingOK(v)'
  BY <1>5 DEF GrantingOK
<1> QED BY <1>3, <1>4, <1>5

(* A worker whose transaction is over. *)
LEMMA ReleasedKeeps ==
    ASSUME ProgressionInvariant, NEW w \in Workers, Release(w)
    PROVE  /\ job' = [v \in Workers |-> job'[v]] /\ todo' = [v \in Workers |-> todo'[v]]
           /\ work' = [v \in Workers |-> work'[v]]
           /\ job'[w] = Idle /\ todo'[w] = <<>> /\ work'[w] = <<>>
           /\ Locked(w)' = {} /\ GrantingOK(w)' /\ ReversingOK(w)'
           /\ \A v \in Workers \ {w} : job'[v] = job[v] /\ todo'[v] = todo[v] /\ work'[v] = work[v]
<1>1. /\ job' = [v \in Workers |-> job'[v]] /\ todo' = [v \in Workers |-> todo'[v]]
      /\ work' = [v \in Workers |-> work'[v]]
      /\ job'[w] = Idle /\ todo'[w] = <<>> /\ work'[w] = <<>>
      /\ \A v \in Workers \ {w} : job'[v] = job[v] /\ todo'[v] = todo[v] /\ work'[v] = work[v]
  BY DEF Release, ProgressionInvariant
<1>2. job'[w].kind = "idle"
  BY <1>1 DEF Idle
<1>3. Locked(w)' = {}
  BY <1>1 DEF Locked
<1> QED BY <1>1, <1>2, <1>3 DEF GrantingOK, ReversingOK

-------------------------------------------------------------------------------
(* The steps *)

(* What the parts of the invariant say when they are taken one by one. *)
LEMMA Parts ==
    ASSUME ProgressionInvariant
    PROVE  /\ TypeOK
           /\ prog = [u \in Users |-> prog[u]]
           /\ job = [w \in Workers |-> job[w]]
           /\ todo = [w \in Workers |-> todo[w]]
           /\ work = [w \in Workers |-> work[w]]
           /\ events \in Histories
           /\ \A u \in Users : RowOK(prog[u])
           /\ \A w \in Workers : GrantingOK(w) /\ ReversingOK(w)
  BY DEF ProgressionInvariant

LEMMA RowsAreTyped ==
    ASSUME NEW p, RowOK(p)
    PROVE  ProgressOK(p)
  BY DEF RowOK

LEMMA BeginHolds ==
    ASSUME ProgressionInvariant, NEW w \in Workers, NEW e \in events, Begin(w, e)
    PROVE  ProgressionInvariant'
<1> DEFINE o == LockOrder(GrantsOf(e))
<1>1. /\ job[w] = Idle
      /\ job' = [job EXCEPT ![w] = [kind |-> "grant", event |-> e]]
      /\ todo' = [todo EXCEPT ![w] = o]
      /\ UNCHANGED <<prog, inactive, work, events, delivered>>
  BY DEF Begin
<1>2. /\ job' = [v \in Workers |-> job'[v]] /\ todo' = [v \in Workers |-> todo'[v]]
      /\ job'[w] = [kind |-> "grant", event |-> e] /\ todo'[w] = o
      /\ \A v \in Workers \ {w} : job'[v] = job[v] /\ todo'[v] = todo[v]
  BY <1>1, Parts
<1>3. job'[w].kind = "grant" /\ job'[w].event = e
  BY <1>2
<1>4. work[w] = <<>> /\ Locked(w) = {} /\ Locked(w)' = {}
  <2>1. job[w].kind = "idle"
    BY <1>1 DEF Idle
  <2>2. work[w] = <<>>
    BY <2>1, Parts DEF TypeOK
  <2> QED BY <1>1, <2>2 DEF Locked
<1>5. /\ IsList(o) /\ Len(o) \in Nat
      /\ \A j \in DOMAIN GrantsOf(e) : \E i \in DOMAIN o : o[i] = GrantsOf(e)[j]
  BY OrderOfEvent, Parts
<1>6. Order(w)' = o /\ Done(w)' = 0
  <2>1. Order(w)' = o
    BY <1>3 DEF Order
  <2> HIDE DEF o
  <2> QED BY <1>2, <1>5, <2>1 DEF Done
<1> HIDE DEF o
<1>7. GrantingOK(w)' /\ ReversingOK(w)'
  <2>1. /\ job'[w].event \in events' /\ IsList(todo'[w]) /\ Done(w)' \in Nat
        /\ \A i \in DOMAIN todo'[w] : todo'[w][i] = Order(w)'[Done(w)' + i]
    <3>1. \A i \in DOMAIN o : o[i] = o[0 + i]
      <4>1. \A i \in DOMAIN o : i \in Nat
        BY <1>5, Lists
      <4>2. \A i \in DOMAIN o : 0 + i = i
        BY <4>1
      <4> QED BY <4>2
    <3> QED BY <1>1, <1>2, <1>3, <1>5, <1>6, <3>1
  <2>2. work'[w] = [u \in Locked(w)' |-> work'[w][u]]
    <3>1. work'[w] = <<>>
      BY <1>1, <1>4
    <3> QED BY <1>4, <3>1
  <2>3. Locked(w)' = {Order(w)'[i].user : i \in 1..Done(w)'}
    <3>1. 1..0 = {}
      OBVIOUS
    <3> QED BY <1>4, <1>6, <3>1
  <2>4. \A i \in 1..Done(w)' : Settled(inactive', work'[w], Order(w)'[i])
    BY <1>6
  <2>5. /\ \A u \in Locked(w)' : RowOK(work'[w][u]) /\ Grown(prog'[u], work'[w][u])
        /\ job'[w].event \in delivered' => \A u \in Locked(w)' : work'[w][u] = prog'[u]
    BY <1>4
  <2>6. GrantingOK(w)'
    BY <2>1, <2>2, <2>3, <2>4, <2>5, Zenon DEF GrantingOK
  <2>7. job'[w].kind # "reverse"
    BY <1>3
  <2> QED BY <2>6, <2>7 DEF ReversingOK
<1>8. ASSUME NEW v \in Workers \ {w} PROVE GrantingOK(v)' /\ ReversingOK(v)'
  BY <1>1, <1>2, OthersKeep
<1>9. \A v \in Workers : GrantingOK(v)' /\ ReversingOK(v)'
  BY <1>7, <1>8
<1>10. TypeOK'
  <2>2. \A v \in Workers : Locked(v)' = Locked(v)
    BY <1>1 DEF Locked
  <2>3. \A v \in Workers :
          /\ job'[v].kind \in {"idle", "grant", "reverse"}
          /\ job'[v].kind # "grant" => todo'[v] = <<>> /\ work'[v] = <<>>
    BY <1>1, <1>2, <1>3, Parts DEF TypeOK
  <2> QED BY <1>1, <2>2, <2>3, Parts DEF TypeOK
<1>11. \A f \in delivered' : \A i \in DOMAIN GrantsOf(f) : Settled(inactive', prog', GrantsOf(f)[i])
  BY <1>1 DEF ProgressionInvariant
<1> QED BY <1>1, <1>2, <1>9, <1>10, <1>11, Parts DEF ProgressionInvariant

LEMMA GrantStepHolds ==
    ASSUME ProgressionInvariant, NEW w \in Workers, GrantStep(w)
    PROVE  ProgressionInvariant'
<1> DEFINE o == Order(w)
           d == Done(w)
           n == Len(Order(w))
           g == Head(todo[w])
           u == g.user
           mine == IF u \in Locked(w) THEN work[w][u] ELSE prog[u]
           result == IF u \in inactive THEN mine ELSE grantInTransaction(mine, g)
<1>1. /\ todo[w] # <<>>
      /\ FreeFor(w, u)
      /\ work' = [work EXCEPT ![w] = Put(@, u, result)]
      /\ todo' = [todo EXCEPT ![w] = Tail(@)]
      /\ UNCHANGED <<prog, inactive, job, events, delivered>>
  BY DEF GrantStep
<1>2. job[w].kind = "grant"
  BY <1>1, Parts DEF TypeOK
<1>3. /\ job[w].event \in events
      /\ IsList(todo[w])
      /\ d \in Nat
      /\ \A i \in DOMAIN todo[w] : todo[w][i] = o[d + i]
      /\ work[w] = [v \in Locked(w) |-> work[w][v]]
      /\ Locked(w) = {o[i].user : i \in 1..d}
      /\ \A i \in 1..d : Settled(inactive, work[w], o[i])
      /\ \A v \in Locked(w) : RowOK(work[w][v]) /\ Grown(prog[v], work[w][v])
      /\ job[w].event \in delivered => \A v \in Locked(w) : work[w][v] = prog[v]
  BY <1>2, Parts DEF GrantingOK
<1>4. /\ n \in Nat /\ DOMAIN o = 1..n /\ d \in 0..n /\ Len(todo[w]) = n - d
      /\ \A i \in DOMAIN o : o[i].user \in Users /\ o[i].type \in DOMAIN Rules
      /\ d < n /\ g = o[d + 1]
  BY <1>1, <1>2, GrantingFits, Parts
<1>5. u \in Users /\ g.type \in DOMAIN Rules
  BY <1>4
<1>6. RowOK(mine) /\ Grown(prog[u], mine)
  <2>1. RowOK(prog[u]) /\ Grown(prog[u], prog[u])
    BY <1>5, Parts, GrownSame
  <2> QED BY <1>3, <2>1
<1> HIDE DEF mine
<1>7. RowOK(result) /\ Grown(mine, result) /\ Settled(inactive, [v \in {u} |-> result], g)
  <2>1. RowOK(mine) /\ Grown(mine, mine)
    BY <1>6, GrownSame
  <2>2. CASE u \in inactive
    BY <2>1, <2>2 DEF Settled
  <2>3. CASE u \notin inactive
    <3>1. /\ RowOK(grantInTransaction(mine, g)) /\ Grown(mine, grantInTransaction(mine, g))
          /\ ~Grantable(grantInTransaction(mine, g), g)
      BY <1>5, <1>6, GrantHolds
    <3> QED BY <2>3, <3>1 DEF Settled
  <2> QED BY <2>2, <2>3
<1>8. Grown(prog[u], result)
  <2> HIDE DEF result, g
  <2>1. RowOK(prog[u])
    BY <1>5, Parts
  <2> QED BY <1>6, <1>7, <2>1, GrownTwice
<1>9. job[w].event \in delivered => result = prog[u]
  <2>1. SUFFICES ASSUME job[w].event \in delivered PROVE result = prog[u]
    OBVIOUS
  <2>2. mine = prog[u]
    BY <1>3, <2>1 DEF mine
  <2>3. PICK j \in DOMAIN GrantsOf(job[w].event) : g = GrantsOf(job[w].event)[j]
    <3>1. d + 1 \in DOMAIN o
      BY <1>4
    <3>2. \A i \in DOMAIN o : \E j \in DOMAIN GrantsOf(job[w].event) : o[i] = GrantsOf(job[w].event)[j]
      BY <1>3, OrderOfEvent, Parts DEF Order
    <3> HIDE DEF o, d, g
    <3> QED BY <1>4, <3>1, <3>2
  <2>4. Settled(inactive, prog, g)
    BY <2>1, <2>3 DEF ProgressionInvariant
  <2>5. u \in inactive \/ ~Grantable(mine, g)
    BY <2>2, <2>4 DEF Settled
  <2> QED BY <2>2, <2>5 DEF grantInTransaction
<1> HIDE DEF result
<1>10. /\ todo' = [v \in Workers |-> todo'[v]] /\ work' = [v \in Workers |-> work'[v]]
       /\ todo'[w] = Tail(todo[w]) /\ work'[w] = Put(work[w], u, result)
       /\ \A v \in Workers \ {w} : todo'[v] = todo[v] /\ work'[v] = work[v]
  <2> HIDE DEF g
  <2> QED BY <1>1, Parts
<1> HIDE DEF g
<1>11. /\ Locked(w)' = Locked(w) \cup {u} /\ work'[w][u] = result
       /\ \A v \in Locked(w) : v # u => work'[w][v] = work[w][v]
       /\ work'[w] = [v \in Locked(w)' |-> work'[w][v]]
  <2> DEFINE P == Put(work[w], u, result)
  <2>1. /\ DOMAIN P = DOMAIN work[w] \cup {u} /\ P[u] = result
        /\ \A x \in DOMAIN work[w] : x # u => P[x] = work[w][x]
        /\ P = [x \in DOMAIN P |-> P[x]]
    <3> HIDE DEF u
    <3> QED BY DEF Put
  <2>2. work'[w] = P
    BY <1>10
  <2> HIDE DEF P
  <2> QED BY <2>1, <2>2 DEF Locked
<1>12. /\ IsList(todo'[w]) /\ Len(todo'[w]) = Len(todo[w]) - 1
       /\ \A i \in DOMAIN todo'[w] : i + 1 \in DOMAIN todo[w] /\ todo'[w][i] = todo[w][i + 1]
  <2> DEFINE s == todo[w]
  <2>1. IsList(s) /\ s # <<>>
    BY <1>1, <1>3
  <2> HIDE DEF s
  <2>2. /\ IsList(Tail(s)) /\ Len(Tail(s)) = Len(s) - 1
        /\ \A i \in DOMAIN Tail(s) : i + 1 \in DOMAIN s /\ Tail(s)[i] = s[i + 1]
    BY <2>1, TailOfList
  <2>3. todo'[w] = Tail(s)
    BY <1>10 DEF s
  <2> QED BY <2>2, <2>3, Zenon DEF s
<1>13. Order(w)' = o /\ Done(w)' = d + 1
  <2>1. Order(w)' = o
    BY <1>1 DEF Order
  <2>2. Done(w)' = n - Len(todo'[w])
    BY <2>1 DEF Done
  <2> HIDE DEF o, d, n
  <2> QED BY <1>4, <1>12, <2>1, <2>2
<1> HIDE DEF o, d, n
<1>14. /\ job'[w].event \in events' /\ IsList(todo'[w]) /\ Done(w)' \in Nat
       /\ \A i \in DOMAIN todo'[w] : todo'[w][i] = Order(w)'[Done(w)' + i]
  <2>1. ASSUME NEW i \in DOMAIN todo'[w] PROVE todo'[w][i] = o[d + 1 + i]
    <3>1. i \in Nat
      BY <1>12, Lists
    <3>2. todo'[w][i] = o[d + (i + 1)]
      BY <1>3, <1>12
    <3>3. d + (i + 1) = d + 1 + i
      BY <1>3, <3>1
    <3> QED BY <3>2, <3>3
  <2> QED BY <1>1, <1>3, <1>12, <1>13, <2>1
<1>15. Locked(w)' = {Order(w)'[i].user : i \in 1..Done(w)'}
  <2>1. 1..(d + 1) = (1..d) \cup {d + 1}
    BY <1>3
  <2>2. {o[i].user : i \in 1..(d + 1)} = {o[i].user : i \in 1..d} \cup {o[d + 1].user}
    BY <2>1
  <2> QED BY <1>3, <1>4, <1>11, <1>13, <2>2
<1>16. \A i \in 1..Done(w)' : Settled(inactive', work'[w], Order(w)'[i])
  <2> SUFFICES ASSUME NEW i \in 1..(d + 1) PROVE Settled(inactive, work'[w], o[i])
    BY <1>1, <1>13
  <2>1. CASE i = d + 1
    BY <1>4, <1>7, <1>11, <2>1 DEF Settled
  <2>2. CASE i # d + 1
    <3>1. i \in 1..d
      BY <1>3, <2>2
    <3>2. o[i].user \in Locked(w) /\ Settled(inactive, work[w], o[i])
      BY <1>3, <3>1
    <3>3. CASE o[i].user # u
      BY <1>11, <3>2, <3>3 DEF Settled
    <3>4. CASE o[i].user = u
      <4>1. mine = work[w][u]
        BY <3>2, <3>4 DEF mine
      <4>2. o[i].type \in DOMAIN Rules
        BY <1>4, <3>1
      <4>3. ~Grantable(mine, o[i]) => ~Grantable(result, o[i])
        BY <1>6, <1>7, <4>2, NotGrantableLater
      <4> QED BY <1>11, <3>2, <3>4, <4>1, <4>3 DEF Settled
    <3> QED BY <3>3, <3>4
  <2> QED BY <2>1, <2>2
<1>17. \A v \in Locked(w)' : RowOK(work'[w][v]) /\ Grown(prog'[v], work'[w][v])
  BY <1>1, <1>3, <1>7, <1>8, <1>11
<1>18. job'[w].event \in delivered' => \A v \in Locked(w)' : work'[w][v] = prog'[v]
  BY <1>1, <1>3, <1>9, <1>11
<1>19. GrantingOK(w)' /\ ReversingOK(w)'
  <2>1. work'[w] = [v \in Locked(w)' |-> work'[w][v]]
    BY <1>11
  <2>2. GrantingOK(w)'
    BY <1>14, <1>15, <1>16, <1>17, <1>18, <2>1, Zenon DEF GrantingOK
  <2>3. job'[w].kind # "reverse"
    BY <1>1, <1>2
  <2> QED BY <2>2, <2>3 DEF ReversingOK
<1>20. ASSUME NEW v \in Workers \ {w} PROVE GrantingOK(v)' /\ ReversingOK(v)'
  BY <1>1, <1>10, OthersKeep
<1>21. \A v \in Workers : GrantingOK(v)' /\ ReversingOK(v)'
  BY <1>19, <1>20
<1>22. TypeOK'
  <2>1. \A v \in Workers \ {w} : Locked(v)' = Locked(v) /\ u \notin Locked(v)
    BY <1>1, <1>10 DEF Locked, FreeFor
  <2>2. \A v \in Workers :
          /\ job'[v].kind \in {"idle", "grant", "reverse"}
          /\ job'[v].kind # "grant" => todo'[v] = <<>> /\ work'[v] = <<>>
    BY <1>1, <1>2, <1>10, Parts DEF TypeOK
  <2>3. \A v \in Workers : Locked(v)' \subseteq Users
    BY <1>5, <1>11, <2>1, Parts DEF TypeOK
  <2>4. \A v \in Workers : \A x \in Workers \ {v} : Locked(x)' \cap Locked(v)' = {}
    <3>1. \A v \in Workers : \A x \in Workers \ {v} : Locked(x) \cap Locked(v) = {}
      BY Parts DEF TypeOK
    <3> QED BY <1>11, <2>1, <3>1
  <2> QED BY <1>1, <2>2, <2>3, <2>4, Parts DEF TypeOK
<1>23. \A f \in delivered' : \A i \in DOMAIN GrantsOf(f) : Settled(inactive', prog', GrantsOf(f)[i])
  BY <1>1 DEF ProgressionInvariant
<1> QED BY <1>1, <1>10, <1>21, <1>22, <1>23, Parts DEF ProgressionInvariant

LEMMA CommitHolds ==
    ASSUME ProgressionInvariant, NEW w \in Workers, Commit(w)
    PROVE  ProgressionInvariant'
<1> DEFINE o == Order(w)
           n == Len(Order(w))
           event == job[w].event
<1>1. /\ job[w].kind = "grant" /\ todo[w] = <<>>
      /\ prog' = [u \in Users |-> IF u \in Locked(w) THEN work[w][u] ELSE prog[u]]
      /\ delivered' = delivered \cup {event}
      /\ Release(w)
      /\ UNCHANGED <<inactive, events>>
  BY DEF Commit
<1>2. /\ event \in events
      /\ Locked(w) = {o[i].user : i \in 1..Done(w)}
      /\ \A i \in 1..Done(w) : Settled(inactive, work[w], o[i])
      /\ \A u \in Locked(w) : RowOK(work[w][u]) /\ Grown(prog[u], work[w][u])
  BY <1>1, Parts DEF GrantingOK
<1>3. n \in Nat /\ DOMAIN o = 1..n /\ Done(w) = n
  BY <1>1, GrantingFits, Parts
<1>4. /\ job' = [v \in Workers |-> job'[v]] /\ todo' = [v \in Workers |-> todo'[v]]
      /\ work' = [v \in Workers |-> work'[v]]
      /\ job'[w] = Idle /\ todo'[w] = <<>> /\ work'[w] = <<>>
      /\ Locked(w)' = {} /\ GrantingOK(w)' /\ ReversingOK(w)'
      /\ \A v \in Workers \ {w} : job'[v] = job[v] /\ todo'[v] = todo[v] /\ work'[v] = work[v]
  BY <1>1, ReleasedKeeps
<1>5. \A u \in Users : RowOK(prog'[u]) /\ Grown(prog[u], prog'[u])
  <2> SUFFICES ASSUME NEW u \in Users PROVE RowOK(prog'[u]) /\ Grown(prog[u], prog'[u])
    OBVIOUS
  <2>1. RowOK(prog[u]) /\ Grown(prog[u], prog[u])
    BY Parts, GrownSame
  <2> QED BY <1>1, <1>2, <2>1
<1>6. \A j \in DOMAIN GrantsOf(event) : \E i \in 1..n : o[i] = GrantsOf(event)[j]
  <2>1. \A j \in DOMAIN GrantsOf(event) : \E i \in DOMAIN o : o[i] = GrantsOf(event)[j]
    BY <1>2, OrderOfEvent, Parts DEF Order
  <2> HIDE DEF o, event
  <2> QED BY <1>3, <2>1
<1>7. ASSUME NEW v \in Workers \ {w} PROVE GrantingOK(v)' /\ ReversingOK(v)'
  <2>1. Locked(v) \cap Locked(w) = {} /\ Locked(v) \subseteq Users
    BY Parts DEF TypeOK
  <2>2. \A u \in Locked(v) : prog'[u] = prog[u]
    BY <1>1, <2>1
  <2>3. \A u \in Users : DOMAIN prog[u].granted \subseteq DOMAIN prog'[u].granted
    BY <1>5 DEF Grown
  <2>4. ASSUME job[v].kind = "grant", job[v].event \in delivered' \ delivered PROVE Locked(v) = {}
    <3>1. Order(v) = o
      BY <1>1, <2>4 DEF Order
    <3>2. Locked(v) = {o[i].user : i \in 1..Done(v)} /\ Done(v) \in 0..n
      BY <2>4, <3>1, GrantingFits, Parts DEF GrantingOK
    <3>3. Locked(v) \subseteq Locked(w)
      BY <1>2, <1>3, <3>2
    <3> QED BY <2>1, <3>3
  <2> QED BY <1>1, <1>4, <2>2, <2>3, <2>4, OthersKeep
<1>8. \A v \in Workers : GrantingOK(v)' /\ ReversingOK(v)'
  BY <1>4, <1>7
<1>9. TypeOK'
  <2>1. \A v \in Workers \ {w} : Locked(v)' = Locked(v)
    BY <1>4 DEF Locked
  <2>2. \A v \in Workers :
          /\ job'[v].kind \in {"idle", "grant", "reverse"}
          /\ job'[v].kind # "grant" => todo'[v] = <<>> /\ work'[v] = <<>>
    BY <1>4, Parts DEF TypeOK, Idle
  <2>3. \A v \in Workers : Locked(v)' \subseteq Users
    BY <1>4, <2>1, Parts DEF TypeOK
  <2>4. \A v \in Workers : \A x \in Workers \ {v} : Locked(x)' \cap Locked(v)' = {}
    BY <1>4, <2>1, Parts DEF TypeOK
  <2>5. \A u \in Users : ProgressOK(prog'[u])
    BY <1>5, RowsAreTyped
  <2>6. DOMAIN prog' = Users /\ inactive' \subseteq Users /\ delivered' \subseteq events'
    BY <1>1, <1>2, Parts DEF TypeOK
  <2> QED BY <2>2, <2>3, <2>4, <2>5, <2>6 DEF TypeOK
<1>10. \A f \in delivered' : \A j \in DOMAIN GrantsOf(f) : Settled(inactive', prog', GrantsOf(f)[j])
  <2> SUFFICES ASSUME NEW f \in delivered', NEW j \in DOMAIN GrantsOf(f)
               PROVE  Settled(inactive, prog', GrantsOf(f)[j])
    BY <1>1
  <2> DEFINE g == GrantsOf(f)[j]
  <2>1. f \in events
    BY <1>1, <1>2, Parts DEF TypeOK
  <2>2. g.user \in Users /\ g.type \in DOMAIN Rules
    BY <2>1, OrderOfEvent, Parts
  <2>3. CASE f \in delivered
    <3>1. Settled(inactive, prog, g)
      BY <2>3 DEF ProgressionInvariant
    <3> HIDE DEF g
    <3>2. ~Grantable(prog[g.user], g) => ~Grantable(prog'[g.user], g)
      BY <1>5, <2>2, NotGrantableLater, Parts
    <3> QED BY <3>1, <3>2 DEF Settled, g
  <2>4. CASE f = event
    <3>1. PICK i \in 1..n : o[i] = g
      BY <1>6, <2>4
    <3>2. g.user \in Locked(w) /\ Settled(inactive, work[w], g)
      BY <1>2, <1>3, <3>1
    <3>3. prog'[g.user] = work[w][g.user]
      BY <1>1, <2>2, <3>2
    <3> QED BY <3>2, <3>3 DEF Settled
  <2> QED BY <1>1, <2>3, <2>4
<1>11. prog' = [u \in Users |-> prog'[u]] /\ events' \in Histories
  BY <1>1, Parts
<1> QED BY <1>4, <1>5, <1>8, <1>9, <1>10, <1>11 DEF ProgressionInvariant

LEMMA AbortHolds ==
    ASSUME ProgressionInvariant, NEW w \in Workers, Abort(w)
    PROVE  ProgressionInvariant'
<1>1. Release(w) /\ UNCHANGED <<prog, inactive, events, delivered>>
  BY DEF Abort
<1>2. /\ job' = [v \in Workers |-> job'[v]] /\ todo' = [v \in Workers |-> todo'[v]]
      /\ work' = [v \in Workers |-> work'[v]]
      /\ job'[w] = Idle /\ todo'[w] = <<>> /\ work'[w] = <<>>
      /\ Locked(w)' = {} /\ GrantingOK(w)' /\ ReversingOK(w)'
      /\ \A v \in Workers \ {w} : job'[v] = job[v] /\ todo'[v] = todo[v] /\ work'[v] = work[v]
  BY <1>1, ReleasedKeeps
<1>3. ASSUME NEW v \in Workers \ {w} PROVE GrantingOK(v)' /\ ReversingOK(v)'
  BY <1>1, <1>2, OthersKeep
<1>4. TypeOK'
  <2>1. \A v \in Workers \ {w} : Locked(v)' = Locked(v)
    BY <1>2 DEF Locked
  <2>2. \A v \in Workers :
          /\ job'[v].kind \in {"idle", "grant", "reverse"}
          /\ job'[v].kind # "grant" => todo'[v] = <<>> /\ work'[v] = <<>>
    BY <1>2, Parts DEF TypeOK, Idle
  <2>3. \A v \in Workers : Locked(v)' \subseteq Users
    BY <1>2, <2>1, Parts DEF TypeOK
  <2>4. \A v \in Workers : \A x \in Workers \ {v} : Locked(x)' \cap Locked(v)' = {}
    BY <1>2, <2>1, Parts DEF TypeOK
  <2> QED BY <1>1, <2>2, <2>3, <2>4, Parts DEF TypeOK
<1>5. \A f \in delivered' : \A i \in DOMAIN GrantsOf(f) : Settled(inactive', prog', GrantsOf(f)[i])
  BY <1>1 DEF ProgressionInvariant
<1>6. \A v \in Workers : GrantingOK(v)' /\ ReversingOK(v)'
  BY <1>2, <1>3
<1> QED BY <1>1, <1>2, <1>4, <1>5, <1>6, Parts DEF ProgressionInvariant

(* Workers that are where they were have the rows they had. *)
LEMMA TypesStay ==
    ASSUME ProgressionInvariant,
           todo' = todo, work' = work, events' = events, delivered' = delivered,
           DOMAIN prog' = Users, \A u \in Users : ProgressOK(prog'[u]), inactive' \subseteq Users,
           \A w \in Workers :
             \/ job'[w] = job[w]
             \/ job[w].kind # "grant" /\ job'[w].kind \in {"idle", "reverse"}
    PROVE  TypeOK'
<1>1. \A w \in Workers : Locked(w)' = Locked(w)
  BY DEF Locked
<1> QED BY <1>1, Parts DEF TypeOK

LEMMA ReverseBeginHolds ==
    ASSUME ProgressionInvariant, NEW w \in Workers, NEW u \in Users, NEW k \in DOMAIN prog[u].granted,
           ReverseBegin(w, u, k)
    PROVE  ProgressionInvariant'
<1>1. /\ job[w] = Idle
      /\ job' = [job EXCEPT ![w] = [kind |-> "reverse", user |-> u, key |-> k]]
      /\ UNCHANGED <<prog, inactive, todo, work, events, delivered>>
  BY DEF ReverseBegin
<1>2. /\ job' = [v \in Workers |-> job'[v]]
      /\ job'[w] = [kind |-> "reverse", user |-> u, key |-> k]
      /\ \A v \in Workers \ {w} : job'[v] = job[v]
  BY <1>1, Parts
<1>3. job'[w].kind = "reverse" /\ job'[w].user = u /\ job'[w].key = k /\ job[w].kind = "idle"
  BY <1>1, <1>2 DEF Idle
<1>4. GrantingOK(w)' /\ ReversingOK(w)'
  BY <1>1, <1>3 DEF GrantingOK, ReversingOK
<1>5. ASSUME NEW v \in Workers \ {w} PROVE GrantingOK(v)' /\ ReversingOK(v)'
  BY <1>1, <1>2, OthersKeep
<1>6. TypeOK'
  <2>1. DOMAIN prog' = Users /\ (\A x \in Users : ProgressOK(prog'[x])) /\ inactive' \subseteq Users
    BY <1>1, Parts DEF TypeOK
  <2> QED BY <1>1, <1>2, <1>3, <2>1, TypesStay
<1>7. \A f \in delivered' : \A i \in DOMAIN GrantsOf(f) : Settled(inactive', prog', GrantsOf(f)[i])
  BY <1>1 DEF ProgressionInvariant
<1>8. \A v \in Workers : GrantingOK(v)' /\ ReversingOK(v)'
  BY <1>4, <1>5
<1> QED BY <1>1, <1>2, <1>6, <1>7, <1>8, Parts DEF ProgressionInvariant

LEMMA ReverseFinishHolds ==
    ASSUME ProgressionInvariant, NEW w \in Workers, ReverseFinish(w)
    PROVE  ProgressionInvariant'
<1> DEFINE u == job[w].user
           k == job[w].key
           after == IF prog[u].granted[k].reversed THEN prog[u] ELSE Reversed(prog[u], k)
<1>1. /\ job[w].kind = "reverse"
      /\ FreeFor(w, u)
      /\ prog' = [prog EXCEPT ![u] = IF @.granted[k].reversed THEN @ ELSE Reversed(@, k)]
      /\ Release(w)
      /\ UNCHANGED <<inactive, events, delivered>>
  BY DEF ReverseFinish
<1>2. u \in Users /\ k \in DOMAIN prog[u].granted
  BY <1>1, Parts DEF ReversingOK
<1>3. /\ prog' = [v \in Users |-> prog'[v]] /\ prog'[u] = after
      /\ \A v \in Users : v # u => prog'[v] = prog[v]
  BY <1>1, <1>2, Parts
<1>4. RowOK(after) /\ DOMAIN after.granted = DOMAIN prog[u].granted /\ after.counts = prog[u].counts
  <2>1. RowOK(prog[u])
    BY <1>2, Parts
  <2> QED BY <1>2, <2>1, ReversalHolds
<1> HIDE DEF after
<1>5. \A v \in Users : /\ RowOK(prog'[v]) /\ DOMAIN prog'[v].granted = DOMAIN prog[v].granted
                       /\ prog'[v].counts = prog[v].counts
  BY <1>3, <1>4, Parts
<1>6. /\ job' = [v \in Workers |-> job'[v]] /\ todo' = [v \in Workers |-> todo'[v]]
      /\ work' = [v \in Workers |-> work'[v]]
      /\ job'[w] = Idle /\ todo'[w] = <<>> /\ work'[w] = <<>>
      /\ Locked(w)' = {} /\ GrantingOK(w)' /\ ReversingOK(w)'
      /\ \A v \in Workers \ {w} : job'[v] = job[v] /\ todo'[v] = todo[v] /\ work'[v] = work[v]
  BY <1>1, ReleasedKeeps
<1>7. todo' = todo /\ work' = work
  <2>1. todo[w] = <<>> /\ work[w] = <<>>
    BY <1>1, Parts DEF TypeOK
  <2>2. \A v \in Workers : todo'[v] = todo[v] /\ work'[v] = work[v]
    BY <1>6, <2>1
  <2> QED BY <1>6, <2>2, Parts
<1>8. ASSUME NEW v \in Workers \ {w} PROVE GrantingOK(v)' /\ ReversingOK(v)'
  <2>1. \A x \in Locked(v) : prog'[x] = prog[x]
    <3>1. u \notin Locked(v)
      BY <1>1 DEF FreeFor
    <3>2. Locked(v) \subseteq Users
      BY Parts DEF TypeOK
    <3> HIDE DEF u
    <3> QED BY <1>3, <3>1, <3>2
  <2> QED BY <1>1, <1>5, <1>6, <2>1, OthersKeep
<1>9. \A v \in Workers : GrantingOK(v)' /\ ReversingOK(v)'
  BY <1>6, <1>8
<1>10. TypeOK'
  <2>1. DOMAIN prog' = Users
    BY <1>3
  <2>2. (\A x \in Users : ProgressOK(prog'[x])) /\ inactive' \subseteq Users
    BY <1>1, <1>5, RowsAreTyped, Parts DEF TypeOK
  <2>3. job'[w].kind = "idle"
    BY <1>6 DEF Idle
  <2> QED BY <1>1, <1>6, <1>7, <2>1, <2>2, <2>3, TypesStay
<1>11. \A f \in delivered' : \A i \in DOMAIN GrantsOf(f) : Settled(inactive', prog', GrantsOf(f)[i])
  <2> SUFFICES ASSUME NEW f \in delivered, NEW i \in DOMAIN GrantsOf(f)
               PROVE  Settled(inactive, prog', GrantsOf(f)[i])
    BY <1>1
  <2> DEFINE g == GrantsOf(f)[i]
  <2>1. f \in events
    BY Parts DEF TypeOK
  <2>2. g.user \in Users
    BY <2>1, OrderOfEvent, Parts
  <2>3. Settled(inactive, prog, g)
    BY DEF ProgressionInvariant
  <2> HIDE DEF g
  <2> QED BY <1>5, <2>2, <2>3 DEF Settled, Grantable, Counted, g
<1> QED BY <1>1, <1>3, <1>5, <1>6, <1>9, <1>10, <1>11, Parts DEF ProgressionInvariant

LEMMA DeactivateHolds ==
    ASSUME ProgressionInvariant, NEW u \in Users, Deactivate(u)
    PROVE  ProgressionInvariant'
<1>1. inactive' = inactive \cup {u} /\ UNCHANGED <<prog, job, todo, work, events, delivered>>
  BY DEF Deactivate
<1>2. ASSUME NEW v \in Workers PROVE GrantingOK(v)' /\ ReversingOK(v)'
  BY <1>1, OthersKeep
<1>3. TypeOK'
  <2>1. DOMAIN prog' = Users /\ (\A x \in Users : ProgressOK(prog'[x])) /\ inactive' \subseteq Users
    BY <1>1, Parts DEF TypeOK
  <2> QED BY <1>1, <2>1, TypesStay
<1>4. \A f \in delivered' : \A i \in DOMAIN GrantsOf(f) : Settled(inactive', prog', GrantsOf(f)[i])
  BY <1>1 DEF ProgressionInvariant, Settled
<1> QED BY <1>1, <1>2, <1>3, <1>4, Parts DEF ProgressionInvariant

LEMMA NewProgressHolds == RowOK(NewProgress)
<1> DEFINE p == NewProgress
<1>1. /\ p.experience = 0 /\ p.level = 1 /\ p.granted = <<>> /\ p.counts = <<>> /\ p.announced = {}
      /\ p = [experience |-> p.experience, level |-> p.level, granted |-> p.granted,
              counts |-> p.counts, announced |-> p.announced]
  BY DEF NewProgress
<1>2. DOMAIN p.granted = {} /\ DOMAIN p.counts = {}
  BY <1>1
<1>3. /\ p.granted = [k \in DOMAIN p.granted |-> p.granted[k]]
      /\ p.counts = [c \in DOMAIN p.counts |-> p.counts[c]]
  BY <1>1
<1> HIDE DEF p
<1>4. Shaped(p)
  BY <1>1, <1>2, <1>3, FS_EmptySet DEF Shaped
<1>5. ProgressOK(p) /\ CountsFit(p) /\ Announced(p)
  BY <1>1, <1>2, Thresholds DEF ProgressOK, CountsFit, Announced
<1>6. Explained(p)
  <2>1. LiveKeys(p) = {}
    BY <1>2 DEF LiveKeys
  <2>2. SumFunctionOnSet(Deltas(p), {}) = 0
    BY SumSplits, FS_EmptySet
  <2>3. levelForExperience(0) = 1
    <3> DEFINE level == levelForExperience(0)
    <3>1. level \in Levels /\ LevelThresholds[level] <= 0
      BY LevelFits
    <3> HIDE DEF level
    <3>2. LevelThresholds[1] = 0 /\ LevelThresholds[level] \in Nat
      BY <3>1, Thresholds, RulesAssumption
    <3>3. ~(1 < level)
      BY <3>1, <3>2, Thresholds
    <3>4. level = 1
      BY <3>1, <3>3, Thresholds
    <3> QED BY <3>4 DEF level
  <2> QED BY <1>1, <2>1, <2>2, <2>3 DEF Explained
<1> QED BY <1>4, <1>5, <1>6 DEF RowOK, p

LEMMA InitHolds == Init => ProgressionInvariant
<1> SUFFICES ASSUME Init PROVE ProgressionInvariant
  OBVIOUS
<1>1. /\ prog = [u \in Users |-> NewProgress] /\ inactive = {}
      /\ job = [w \in Workers |-> Idle] /\ todo = [w \in Workers |-> <<>>]
      /\ work = [w \in Workers |-> <<>>] /\ events \in Histories /\ delivered = {}
  BY DEF Init
<1>2. \A u \in Users : RowOK(prog[u]) /\ ProgressOK(prog[u])
  BY <1>1, NewProgressHolds, RowsAreTyped
<1>3. \A w \in Workers : /\ job[w].kind = "idle" /\ todo[w] = <<>> /\ work[w] = <<>> /\ Locked(w) = {}
  BY <1>1 DEF Idle, Locked
<1>4. TypeOK
  BY <1>1, <1>2, <1>3 DEF TypeOK
<1>5. \A w \in Workers : GrantingOK(w) /\ ReversingOK(w)
  BY <1>3 DEF GrantingOK, ReversingOK
<1> QED BY <1>1, <1>2, <1>4, <1>5 DEF ProgressionInvariant

LEMMA StepHolds == ProgressionInvariant /\ [Next]_vars => ProgressionInvariant'
<1> SUFFICES ASSUME ProgressionInvariant, [Next]_vars PROVE ProgressionInvariant'
  OBVIOUS
<1>1. ASSUME NEW w \in Workers, NEW e \in events, Begin(w, e) PROVE ProgressionInvariant'
  BY <1>1, BeginHolds
<1>2. ASSUME NEW w \in Workers, GrantStep(w) PROVE ProgressionInvariant'
  BY <1>2, GrantStepHolds
<1>3. ASSUME NEW w \in Workers, Commit(w) PROVE ProgressionInvariant'
  BY <1>3, CommitHolds
<1>4. ASSUME NEW w \in Workers, Abort(w) PROVE ProgressionInvariant'
  BY <1>4, AbortHolds
<1>5. ASSUME NEW w \in Workers, ReverseFinish(w) PROVE ProgressionInvariant'
  BY <1>5, ReverseFinishHolds
<1>6. ASSUME NEW w \in Workers, NEW u \in Users, NEW k \in DOMAIN prog[u].granted, ReverseBegin(w, u, k)
      PROVE  ProgressionInvariant'
  BY <1>6, ReverseBeginHolds
<1>7. ASSUME NEW u \in Users, Deactivate(u) PROVE ProgressionInvariant'
  BY <1>7, DeactivateHolds
<1>8. CASE UNCHANGED vars
  <2>1. UNCHANGED <<prog, inactive, job, todo, work, events, delivered>>
    BY <1>8 DEF vars
  <2>2. ASSUME NEW v \in Workers PROVE GrantingOK(v)' /\ ReversingOK(v)'
    BY <2>1, OthersKeep
  <2>3. TypeOK'
    <3>1. DOMAIN prog' = Users /\ (\A x \in Users : ProgressOK(prog'[x])) /\ inactive' \subseteq Users
      BY <2>1, Parts DEF TypeOK
    <3> QED BY <2>1, <3>1, TypesStay
  <2>4. \A f \in delivered' : \A i \in DOMAIN GrantsOf(f) : Settled(inactive', prog', GrantsOf(f)[i])
    BY <2>1 DEF ProgressionInvariant
  <2> QED BY <2>1, <2>2, <2>3, <2>4, Parts DEF ProgressionInvariant
<1> QED BY <1>1, <1>2, <1>3, <1>4, <1>5, <1>6, <1>7, <1>8 DEF Next

-------------------------------------------------------------------------------
(* The theorems *)

(* The invariant holds from the start and every step keeps it, for any     *)
(* number of users, workers and events, any rules and any thresholds.      *)
THEOREM InvariantHolds == Spec => []ProgressionInvariant
<1> QED BY InitHolds, StepHolds, PTL DEF Spec

LEMMA RowsAddUp ==
    ASSUME NEW p, RowOK(p)
    PROVE  Explained(p) /\ Capped(p) /\ ProfileEncloses(p) /\ Announced(p)
<1>1. Explained(p) /\ Announced(p) /\ ProgressOK(p)
  BY DEF RowOK
<1>2. ProfileEncloses(p)
  BY <1>1, ProfilesEnclose DEF Explained, ProgressOK
<1>3. Capped(p)
  <2> SUFFICES ASSUME NEW k \in DOMAIN p.granted
               PROVE  LET day == p.granted[k].day
                          rule == Rules[p.granted[k].type]
                          given == Cardinality(Given(p, day, rule.counter))
                      IN  given <= rule.dailyCap /\ Counted(p, day, rule.counter) = given
    BY DEF Capped
  <2> DEFINE day == p.granted[k].day
             rule == Rules[p.granted[k].type]
             given == Cardinality(Given(p, day, rule.counter))
             c == <<day, rule.counter>>
  <2>1. p.granted[k].type \in DOMAIN Rules /\ c \in DOMAIN p.counts
    BY DEF RowOK, Shaped, CountsFit
  <2>2. Counted(p, day, rule.counter) = given
    BY CountedFits DEF RowOK
  <2>3. c[2] = rule.counter /\ Counted(p, day, rule.counter) = p.counts[c]
    BY <2>1 DEF Counted
  <2>4. p.counts[c] <= rule.dailyCap
    <3> HIDE DEF c
    <3>1. \A t \in DOMAIN Rules : Rules[t].counter = c[2] => p.counts[c] <= Rules[t].dailyCap
      BY <2>1 DEF RowOK, CountsFit
    <3> QED BY <2>1, <2>3, <3>1
  <2> QED BY <2>2, <2>3, <2>4
<1> QED BY <1>1, <1>2, <1>3

(* Whatever grants and reversals overlap, the experience of every user is   *)
(* the sum of the experience events he kept, his level belongs to it and   *)
(* was announced, his profile encloses it, and no day gave him more of a   *)
(* counter than its cap.                                                   *)
THEOREM LevelsHoldAlways == Spec => []LevelsHold
<1>1. ProgressionInvariant => LevelsHold
  BY RowsAddUp
     DEF ProgressionInvariant, LevelsHold, ProgressionAddsUp, ExperienceExplained, LevelsAgree, DailyCapsHold
<1> QED BY <1>1, InvariantHolds, PTL

(* Of any workers one waits for none of the others: one that has its next  *)
(* user already, or the one whose next user comes last in the order, since *)
(* nobody has locked a user behind the next one.                           *)
LEMMA SomebodyMayGo == ProgressionInvariant => NoLockCycle
<1> SUFFICES ASSUME ProgressionInvariant, NEW W \in SUBSET Workers, W # {}
             PROVE  \E v \in W : \A w \in W : ~WaitsFor(v, w)
  BY DEF NoLockCycle
<1> DEFINE next(v) == Head(todo[v]).user
<1>1. CASE \E v \in W : todo[v] = <<>>
  BY <1>1 DEF WaitsFor
<1>2. CASE \A v \in W : todo[v] # <<>>
  <2>1. ASSUME NEW v \in W
        PROVE  /\ next(v) \in Nat
               /\ \A u \in Locked(v) : u \in Nat /\ u <= next(v)
    <3> DEFINE o == Order(v)
               d == Done(v)
               n == Len(Order(v))
    <3>1. job[v].kind = "grant"
      BY <1>2, Parts DEF TypeOK
    <3>2. Locked(v) = {o[i].user : i \in 1..d}
      BY <3>1, Parts DEF GrantingOK
    <3>3. /\ n \in Nat /\ DOMAIN o = 1..n /\ d \in 0..n
          /\ \A i \in DOMAIN o : o[i].user \in Users
          /\ \A i, j \in DOMAIN o : i < j => o[i].user <= o[j].user
          /\ d < n /\ Head(todo[v]) = o[d + 1]
      BY <1>2, <3>1, GrantingFits, Parts
    <3> HIDE DEF o, d, n
    <3>4. d + 1 \in DOMAIN o /\ \A i \in 1..d : i \in DOMAIN o /\ i < d + 1
      BY <3>3
    <3>5. next(v) = o[d + 1].user
      BY <3>3
    <3> HIDE DEF next
    <3>6. \A i \in 1..d : o[i].user <= next(v)
      BY <3>3, <3>4, <3>5
    <3> QED BY <3>2, <3>3, <3>4, <3>5, <3>6, ProgressionAssumption
  <2> DEFINE S == {next(v) : v \in W}
             ahead == [v \in W |-> next(v)]
  <2> HIDE DEF next
  <2>2. S \in SUBSET Int /\ S # {}
    BY <2>1
  <2>3. IsFiniteSet(S)
    <3>1. IsFiniteSet(W)
      BY ProgressionAssumption, FS_Subset
    <3>2. ahead \in Surjection(W, S)
      BY DEF Surjection
    <3> HIDE DEF S, ahead
    <3> QED BY <3>1, <3>2, FS_Surjection
  <2>4. PICK v \in W : \A w \in W : next(v) >= next(w)
    <3>1. Max(S) \in S /\ \A x \in S : Max(S) >= x
      <4> HIDE DEF S
      <4> QED BY <2>2, <2>3, MaxOfFinite
    <3> QED BY <3>1
  <2>5. CASE \E w \in W : next(w) \in Locked(w)
    <3>1. PICK w \in W : next(w) \in Locked(w)
      BY <2>5
    <3>2. ASSUME NEW x \in W, WaitsFor(w, x) PROVE FALSE
      BY <3>1, <3>2, Parts DEF WaitsFor, TypeOK, next
    <3> QED BY <3>2
  <2>6. CASE \A w \in W : next(w) \notin Locked(w)
    <3>1. ASSUME NEW w \in W, WaitsFor(v, w) PROVE FALSE
      <4>1. next(v) \in Locked(w)
        BY <3>1 DEF WaitsFor, next
      <4>2. next(v) = next(w)
        BY <2>1, <2>4, <4>1
      <4> QED BY <2>6, <4>1, <4>2
    <3> QED BY <3>1
  <2> QED BY <2>5, <2>6
<1> QED BY <1>1, <1>2

(* grantMany takes the rows of its users in the order of their ids: however *)
(* many transactions there are, never does a group of them wait in a       *)
(* circle.                                                                 *)
THEOREM NoLockCycleAlways == Spec => []NoLockCycle
<1> QED BY SomebodyMayGo, InvariantHolds, PTL

(* The commit of an event that was handled before writes the rows it read.  *)
LEMMA CommitOfKnownEvent ==
    ASSUME ProgressionInvariant, NEW w \in Workers, job[w].kind = "grant",
           job[w].event \in delivered, Commit(w)
    PROVE  prog' = prog
<1>1. \A u \in Locked(w) : work[w][u] = prog[u]
  BY Parts DEF GrantingOK
<1>2. prog' = [u \in Users |-> IF u \in Locked(w) THEN work[w][u] ELSE prog[u]]
  BY DEF Commit
<1>3. \A u \in Users : (IF u \in Locked(w) THEN work[w][u] ELSE prog[u]) = prog[u]
  BY <1>1
<1> QED BY <1>2, <1>3, Parts

(* An event that the outbox hands over again, after its handler completed   *)
(* and whatever was reversed or capped since, gives nobody anything.       *)
THEOREM RedeliveryIsHarmless == Spec => RedeliveryChangesNothing
<1>1. ProgressionInvariant /\ [Next]_vars =>
        [\A w \in Workers :
           (job[w].kind = "grant" /\ job[w].event \in delivered /\ Commit(w)) => prog' = prog]_vars
  BY CommitOfKnownEvent
<1> QED BY <1>1, InvariantHolds, PTL DEF Spec, RedeliveryChangesNothing

-------------------------------------------------------------------------------
(* AuthSessions.  Every action does one of three things to the tokens: it  *)
(* ends some of them (OnlyEnds), it opens a terminal in the place of       *)
(* another (ReplaceSession), or it rotates a token (Rotates).  The proof   *)
(* of each part of the invariant goes by these three.                      *)

Made(t) == token[t].state # "unused"

(* No token becomes active, none is made, none changes hands. *)
OnlyEnds ==
    /\ token' \in [Tokens -> TokenRow]
    /\ \A t \in Tokens :
        /\ token'[t].family = token[t].family
        /\ token'[t].platform = token[t].platform
        /\ token'[t].password = token[t].password
        /\ Active(t)' => Active(t)
        /\ Made(t)' <=> Made(t)

(* One unused token is made, active on p, where nothing else stays active; *)
(* nobody is sanctioned then, and nothing else is said or changed.         *)
Makes(n, f, p) ==
    /\ ~sanctioned
    /\ UNCHANGED <<password, sanctioned, over>>
    /\ n \in Tokens
    /\ f \in Tokens
    /\ ~Made(n)
    /\ token' \in [Tokens -> TokenRow]
    /\ Made(n)'
    /\ Active(n)'
    /\ token'[n].family = f
    /\ token'[n].platform = p
    /\ token'[n].password = password
    /\ \A t \in Tokens \ {n} :
        /\ token'[t].family = token[t].family
        /\ token'[t].platform = token[t].platform
        /\ token'[t].password = token[t].password
        /\ Active(t)' => Active(t) /\ token[t].platform # p
        /\ Made(t)' <=> Made(t)

(* A login: the new token begins a terminal of its own. *)
Opens == \E n \in Tokens, p \in Platforms : Makes(n, n, p)

(* A rotation: the new token continues the terminal of an active one. *)
Rotates ==
    \E n, t \in Tokens : Active(t) /\ Made(t) /\ Makes(n, token[t].family, token[t].platform)

-------------------------------------------------------------------------------
(* A terminal is named by its first token, and stays on its platform. *)
FamiliesMade == \A t \in Tokens : Made(t) => token[t].family \in Tokens /\ Made(token[t].family)

OnePlatformPerFamily ==
    \A t, x \in Tokens :
        Made(t) /\ Made(x) /\ token[t].family = token[x].family => token[t].platform = token[x].platform

(* What somebody asks about or was told of is a terminal there was. *)
RequestOfMade(r) ==
    request[r].pc = "update" =>
        /\ request[r].family \in Tokens
        /\ Made(request[r].family)
        /\ \A t \in request[r].rows : Made(t) /\ token[t].family = request[r].family

RequestsOfMade == \A r \in Requests : RequestOfMade(r)

OverMade == \A f \in over : Made(f)

Shape == SessionTypeOK /\ FamiliesMade /\ OnePlatformPerFamily /\ RequestsOfMade /\ OverMade

SessionInvariant ==
    /\ Shape
    /\ OneTerminalPerPlatform
    /\ OverIsOver
    /\ SessionsKnowThePassword
    /\ SanctionedHasNoTerminal

(* What the steps say beside the tokens: who is sanctioned or has a new    *)
(* password has nothing active left, nor has a terminal that somebody is   *)
(* told is signed out.                                                     *)
Tells ==
    /\ sanctioned' /\ ~sanctioned => \A t \in Tokens : ~Active(t)'
    /\ password' # password => \A t \in Tokens : ~Active(t)'
    /\ \A f \in over' : f \in over \/ (f \in Tokens /\ Made(f) /\ ~(TerminalActive(f)'))

(* The part of SessionTypeOK that is not about the tokens. *)
RestOK ==
    /\ rotating \in Tokens \cup {NoToken}
    /\ password \in 0..MaxPassword
    /\ failed \in 0..MaxFailures
    /\ locked => failed = MaxFailures
    /\ request \in [Requests -> RevokeRequest]
    /\ missing \subseteq Tokens

FlagsOK ==
    /\ sanctioned \in BOOLEAN
    /\ deleted \in BOOLEAN
    /\ registering \in BOOLEAN

-------------------------------------------------------------------------------
(* What Revoked makes of the rows. *)
LEMMA RevokedRows ==
    ASSUME token \in [Tokens -> TokenRow], NEW S
    PROVE  /\ Revoked(S) \in [Tokens -> TokenRow]
           /\ \A t \in Tokens :
                /\ Revoked(S)[t].family = token[t].family
                /\ Revoked(S)[t].platform = token[t].platform
                /\ Revoked(S)[t].password = token[t].password
                /\ Revoked(S)[t].state = IF t \in S /\ Active(t) THEN "fresh" ELSE token[t].state
PROOF
  <1>1. ASSUME NEW t \in Tokens
        PROVE  LET row == Revoked(S)[t]
               IN  /\ row \in TokenRow
                   /\ row.family = token[t].family
                   /\ row.platform = token[t].platform
                   /\ row.password = token[t].password
                   /\ row.state = IF t \in S /\ Active(t) THEN "fresh" ELSE token[t].state
    <2>1. token[t] \in TokenRow
      OBVIOUS
    <2>2. CASE t \in S /\ Active(t)
      BY <2>1, <2>2 DEF Revoked, TokenRow, States
    <2>3. CASE ~(t \in S /\ Active(t))
      BY <2>1, <2>3 DEF Revoked
    <2>4. QED
      BY <2>2, <2>3
  <1>2. Revoked(S) \in [Tokens -> TokenRow]
    BY <1>1 DEF Revoked
  <1>3. QED
    BY <1>1, <1>2

(* Revoking ends tokens and does nothing else. *)
LEMMA RevokingEnds ==
    ASSUME token \in [Tokens -> TokenRow], NEW S, token' = Revoked(S)
    PROVE  /\ OnlyEnds
           /\ \A t \in Tokens : Active(t)' => Active(t) /\ t \notin S
PROOF
  BY RevokedRows DEF OnlyEnds, Active, Made

LEMMA StayingEnds ==
    ASSUME token \in [Tokens -> TokenRow], token' = token
    PROVE  OnlyEnds
PROOF
  BY DEF OnlyEnds, Active, Made

(* A new token beside what Revoked leaves. *)
LEMMA RevokingMakes ==
    ASSUME SessionTypeOK, NEW S, NEW n \in Tokens, NEW f \in Tokens, NEW p \in Platforms \cup {"web"},
           token[n].state = "unused",
           token' = [Revoked(S) EXCEPT ![n] = Session(f, p, password)],
           \A t \in Tokens : Active(t) /\ token[t].platform = p => t \in S,
           ~sanctioned,
           UNCHANGED <<password, sanctioned, over>>
    PROVE  Makes(n, f, p)
PROOF
  <1>1. Session(f, p, password) \in TokenRow
    BY DEF Session, TokenRow, States, SessionTypeOK
  <1>2. token \in [Tokens -> TokenRow]
    BY DEF SessionTypeOK
  <1>3. /\ token' \in [Tokens -> TokenRow]
        /\ token'[n] = Session(f, p, password)
        /\ \A t \in Tokens \ {n} : token'[t] = Revoked(S)[t]
    BY <1>1, <1>2, RevokedRows
  <1>4. QED
    BY <1>2, <1>3, RevokedRows DEF Makes, Session, Active, Made

-------------------------------------------------------------------------------
Forms == OnlyEnds \/ Opens \/ Rotates

(* Every step is of one of the forms, and says what is true. *)
LEMMA LoginStep ==
    ASSUME SessionTypeOK, NEW n \in Tokens, NEW p \in Platforms, ReplaceSession(n, p), ~sanctioned,
           UNCHANGED <<password, sanctioned, over>>
    PROVE  Forms /\ Tells
PROOF
  <1>1. Makes(n, n, p)
    BY RevokingMakes DEF ReplaceSession
  <1>2. Forms
    BY <1>1 DEF Forms, Opens
  <1>3. QED
    BY <1>2 DEF Tells

LEMMA StepForms ==
    ASSUME SessionInvariant, [SessionNext]_sessionVars
    PROVE  Forms /\ Tells
PROOF
  <1> USE DEF SessionInvariant, Shape
  <1>0. token \in [Tokens -> TokenRow]
    BY DEF SessionTypeOK
  <1>ends. ASSUME NEW S, token' = Revoked(S), over' = over,
                  sanctioned' # sanctioned \/ password' # password => \A t \in Tokens : Active(t) => t \in S
           PROVE  Forms /\ Tells
    BY <1>0, <1>ends, RevokingEnds DEF Forms, Tells, SessionTypeOK
  <1>same. ASSUME token' = token, over' = over, password' = password, sanctioned' => sanctioned
           PROVE  Forms /\ Tells
    BY <1>0, <1>same, StayingEnds DEF Forms, Tells
  <1>1. ASSUME NEW t \in Tokens, NEW p \in Platforms, createSession(t, p) \/ login(t, p)
        PROVE  Forms /\ Tells
    BY <1>1, LoginStep DEF createSession, login
  <1>2. CASE loginFails \/ lockRunsOut
    BY <1>2, <1>same DEF loginFails, lockRunsOut
  <1>3. ASSUME NEW t \in Tokens, refreshEnd(t)
        PROVE  Forms /\ Tells
    <2> DEFINE f == token[t].family
    <2>1. CASE over' = over
      BY <1>3, <2>1, <1>ends DEF refreshEnd, userVars
    <2>2. CASE token' = Revoked(TokensOf(f)) /\ over' = over \cup {f} /\ token[t].state = "old"
      <3>1. PICK g \in Tokens : g = f /\ Made(g)
        BY <2>2 DEF FamiliesMade, Made
      <3>2. OnlyEnds /\ \A x \in Tokens : Active(x)' => Active(x) /\ x \notin TokensOf(g)
        BY <1>0, <2>2, <3>1, RevokingEnds
      <3>3. ~(TerminalActive(g)')
        BY <3>2 DEF TerminalActive, TokensOf, OnlyEnds, Known, Active
      <3>4. UNCHANGED <<password, sanctioned>> /\ over' = over \cup {g}
        BY <1>3, <2>2, <3>1 DEF refreshEnd, userVars
      <3>5. QED
        BY <3>1, <3>2, <3>3, <3>4 DEF Forms, Tells
    <2>3. QED
      BY <1>3, <2>1, <2>2 DEF refreshEnd
  <1>4. ASSUME NEW t \in Tokens, refreshRead(t)
        PROVE  Forms /\ Tells
    BY <1>4, <1>same DEF refreshRead, userVars
  <1>5. ASSUME NEW n \in Tokens, refreshRotate(n)
        PROVE  Forms /\ Tells
    <2> DEFINE old == token[rotating]
    <2>1. rotating \in Tokens /\ Made(rotating) /\ UNCHANGED <<password, sanctioned, over>>
      BY <1>5 DEF refreshRotate, userVars, SessionTypeOK, Made
    <2>2. CASE Active(rotating)
      <3>1. ~sanctioned /\ old.password = password
        BY <2>1, <2>2 DEF SanctionedHasNoTerminal, SessionsKnowThePassword
      <3>2. old.platform \in Platforms \cup {"web"} /\ old.family \in Tokens
        BY <1>0, <2>1 DEF TokenRow, FamiliesMade
      <3>3. \A t \in Tokens : Active(t) /\ token[t].platform = old.platform => t \in {rotating}
        BY <2>1, <2>2 DEF OneTerminalPerPlatform
      <3>4. /\ token[n].state = "unused"
            /\ token' = [Revoked({rotating}) EXCEPT ![n] = Session(old.family, old.platform, password)]
        BY <1>5, <2>2, <3>1 DEF refreshRotate
      <3>5. Makes(n, old.family, old.platform)
        BY <2>1, <3>1, <3>2, <3>3, <3>4, RevokingMakes
      <3>6. QED
        BY <2>1, <2>2, <3>5 DEF Forms, Rotates, Tells
    <2>3. CASE ~Active(rotating)
      BY <1>5, <2>1, <2>3, <1>ends DEF refreshRotate
    <2>4. QED
      BY <2>2, <2>3
  <1>6. ASSUME NEW t \in Tokens, logout(t)
        PROVE  Forms /\ Tells
    <2>1. PICK f \in Tokens : f = token[t].family /\ Made(f) /\ Made(t)
      BY <1>6 DEF logout, FamiliesMade, Made, Active
    <2>2. /\ Active(t)
          /\ token' = Revoked({t})
          /\ over' = over \cup {f}
          /\ UNCHANGED <<password, sanctioned>>
      BY <1>6, <2>1 DEF logout, userVars
    <2>3. OnlyEnds /\ \A x \in Tokens : Active(x)' => Active(x) /\ x # t
      BY <1>0, <2>2, RevokingEnds
    <2>4. ASSUME NEW x \in Tokens, Active(x), token[x].family = f
          PROVE  x = t
      BY <2>1, <2>2, <2>4 DEF OnePlatformPerFamily, OneTerminalPerPlatform, Made, Active
    <2>5. ~(TerminalActive(f)')
      BY <2>3, <2>4 DEF TerminalActive, TokensOf, OnlyEnds
    <2>6. QED
      BY <2>1, <2>2, <2>3, <2>5 DEF Forms, Tells
  <1>7. CASE refreshAbort
    BY <1>7, <1>same DEF refreshAbort, userVars
  <1>8. ASSUME NEW r \in Requests, NEW f \in Families, revokeSession(r, f)
        PROVE  Forms /\ Tells
    BY <1>8, <1>same DEF revokeSession, userVars
  <1>9. ASSUME NEW r \in Requests, revokeRows(r)
        PROVE  Forms /\ Tells
    <2> DEFINE rows == {t \in request[r].rows : Active(t)}
    <2>1. token' = Revoked(rows) /\ UNCHANGED <<password, sanctioned>>
      BY <1>9 DEF revokeRows, userVars
    <2>2. CASE rows = {}
      BY <1>9, <2>1, <2>2, <1>ends DEF revokeRows
    <2>3. CASE rows # {}
      <3>1. PICK f \in Tokens : f = request[r].family /\ over' = over \cup {f} /\ Made(f)
        BY <1>9, <2>3 DEF revokeRows, RequestsOfMade, RequestOfMade
      <3>2. PICK t \in Tokens : t \in rows /\ Active(t) /\ Made(t) /\ token[t].family = f
        BY <1>9, <2>3, <3>1 DEF revokeRows, RequestsOfMade, RequestOfMade, SessionTypeOK, RevokeRequest
      <3>3. OnlyEnds /\ \A x \in Tokens : Active(x)' => Active(x) /\ x \notin rows
        BY <1>0, <2>1, RevokingEnds
      <3>4. ASSUME NEW x \in Tokens, Active(x), token[x].family = f
            PROVE  x = t
        BY <3>2, <3>4 DEF OnePlatformPerFamily, OneTerminalPerPlatform, Made, Active
      <3>5. ~(TerminalActive(f)')
        BY <3>2, <3>3, <3>4 DEF TerminalActive, TokensOf, OnlyEnds
      <3>6. QED
        BY <2>1, <3>1, <3>3, <3>5 DEF Forms, Tells
    <2>4. QED
      BY <2>2, <2>3
  <1>10. CASE newPassword \/ sanctionUser \/ deactivate
    BY <1>10, <1>ends DEF newPassword, sanctionUser, deactivate
  <1>11. CASE revokeAll
    BY <1>11, <1>ends DEF revokeAll, userVars
  <1>12. CASE sanctionEnds
    BY <1>12, <1>same DEF sanctionEnds
  <1>13. ASSUME NEW t \in Tokens, expire(t) \/ graceEnds(t) \/ cleanup(t)
         PROVE  Forms /\ Tells
    <2>1. PICK s \in States \ {"unused"} :
            /\ token' = [token EXCEPT ![t].state = s]
            /\ s = "expired" => Active(t)
            /\ s # "active"
            /\ Made(t)
            /\ UNCHANGED <<password, sanctioned, over>>
      BY <1>13 DEF expire, graceEnds, cleanup, userVars, States, Active, Made
    <2>2. OnlyEnds
      BY <1>0, <2>1 DEF OnlyEnds, Active, Made, TokenRow
    <2>3. QED
      BY <2>1, <2>2 DEF Forms, Tells
  <1>14. CASE UNCHANGED sessionVars
    BY <1>14, <1>same DEF sessionVars, userVars
  <1>15. QED
    BY <1>1, <1>2, <1>3, <1>4, <1>5, <1>6, <1>7, <1>8, <1>9, <1>10, <1>11, <1>12, <1>13, <1>14 DEF SessionNext

-------------------------------------------------------------------------------
(* The parts of the invariant, one by one. *)
LEMMA MadeStaysMade ==
    ASSUME Forms
    PROVE  \A t \in Tokens : Made(t) => Made(t)'
PROOF
  BY DEF Forms, OnlyEnds, Opens, Rotates, Makes

LEMMA RestStep ==
    ASSUME SessionInvariant, [SessionNext]_sessionVars
    PROVE  RestOK'
PROOF
  <1> USE DEF SessionInvariant, Shape, SessionTypeOK, RestOK, AuthAssumption
  <1>1. ASSUME NEW t \in Tokens, NEW p \in Platforms, createSession(t, p) \/ login(t, p)
        PROVE  RestOK'
    BY <1>1, AuthAssumption DEF createSession, login
  <1>2. CASE loginFails \/ lockRunsOut
    BY <1>2, AuthAssumption DEF loginFails, lockRunsOut
  <1>3. ASSUME NEW t \in Tokens, refreshEnd(t) \/ refreshRead(t) \/ refreshRotate(t) \/ logout(t)
        PROVE  RestOK'
    BY <1>3 DEF refreshEnd, refreshRead, refreshRotate, logout, userVars
  <1>4. CASE refreshAbort
    BY <1>4 DEF refreshAbort, userVars
  <1>5. ASSUME NEW r \in Requests, NEW f \in Families, revokeSession(r, f)
        PROVE  RestOK'
    <2>1. f \in Tokens
      BY DEF Families, FamiliesMade, Made, Known, Active
    <2>2. [pc |-> "update", family |-> f, rows |-> {t \in TokensOf(f) : Active(t)}] \in RevokeRequest
      BY <2>1 DEF RevokeRequest, TokensOf
    <2>3. QED
      BY <1>5, <2>2 DEF revokeSession, userVars
  <1>6. ASSUME NEW r \in Requests, revokeRows(r)
        PROVE  RestOK'
    <2>1. IdleRequest \in RevokeRequest
      BY DEF IdleRequest, RevokeRequest
    <2>2. request[r].family \in Tokens
      BY <1>6 DEF revokeRows, RequestsOfMade, RequestOfMade
    <2>3. QED
      BY <1>6, <2>1, <2>2 DEF revokeRows, userVars
  <1>7. CASE newPassword \/ sanctionUser \/ deactivate
    BY <1>7, AuthAssumption DEF newPassword, sanctionUser, deactivate
  <1>8. CASE revokeAll \/ sanctionEnds
    BY <1>8 DEF revokeAll, sanctionEnds, userVars
  <1>9. ASSUME NEW t \in Tokens, expire(t) \/ graceEnds(t) \/ cleanup(t)
        PROVE  RestOK'
    BY <1>9 DEF expire, graceEnds, cleanup, userVars
  <1>10. CASE UNCHANGED sessionVars
    BY <1>10 DEF sessionVars, userVars
  <1>11. QED
    BY <1>1, <1>2, <1>3, <1>4, <1>5, <1>6, <1>7, <1>8, <1>9, <1>10 DEF SessionNext

LEMMA FlagsStep ==
    ASSUME FlagsOK, [SessionNext]_sessionVars
    PROVE  FlagsOK'
PROOF
  <1> USE DEF FlagsOK
  <1>1. ASSUME NEW t \in Tokens, NEW p \in Platforms, createSession(t, p)
        PROVE  FlagsOK'
    <2>1. registering' = FALSE /\ UNCHANGED <<sanctioned, deleted>>
      BY <1>1 DEF createSession
    <2>2. QED
      BY <2>1, Zenon
  <1>2. CASE sanctionUser
    <2>1. sanctioned' = TRUE /\ UNCHANGED <<registering, deleted>>
      BY <1>2 DEF sanctionUser
    <2>2. QED
      BY <2>1, Zenon
  <1>3. CASE sanctionEnds
    <2>1. sanctioned' = FALSE /\ UNCHANGED <<registering, deleted>>
      BY <1>3 DEF sanctionEnds
    <2>2. QED
      BY <2>1, Zenon
  <1>4. CASE deactivate
    <2>1. deleted' = TRUE /\ UNCHANGED <<registering, sanctioned>>
      BY <1>4 DEF deactivate
    <2>2. QED
      BY <2>1, Zenon
  <1>5. CASE UNCHANGED <<sanctioned, deleted, registering>>
    BY <1>5
  <1>6. QED
    BY <1>1, <1>2, <1>3, <1>4, <1>5
       DEF SessionNext, sessionVars, userVars, login, loginFails, refreshEnd, refreshRead, refreshRotate,
           refreshAbort, logout, revokeSession, revokeRows, newPassword, revokeAll,
           lockRunsOut, expire, graceEnds, cleanup

LEMMA RotatingStep ==
    ASSUME SessionInvariant, [SessionNext]_sessionVars
    PROVE  (rotating # NoToken => token[rotating].state # "unused")'
PROOF
  <1>1. Forms
    BY StepForms
  <1>2. rotating' = rotating \/ rotating' = NoToken \/ (rotating' \in Tokens /\ Active(rotating'))
    BY DEF SessionNext, sessionVars, createSession, login, loginFails, refreshEnd, refreshRead, refreshRotate,
           refreshAbort, logout, revokeSession, revokeRows, newPassword, revokeAll, sanctionUser,
           sanctionEnds, deactivate, lockRunsOut, expire, graceEnds, cleanup, Active
  <1>3. CASE rotating' # NoToken
    <2>1. PICK t \in Tokens : rotating' = t /\ Made(t)
      BY <1>2, <1>3 DEF SessionInvariant, Shape, SessionTypeOK, Made, Active
    <2>2. Made(t)'
      BY <1>1, <2>1, MadeStaysMade
    <2>3. QED
      BY <2>1, <2>2 DEF Made
  <1>4. QED
    BY <1>3

LEMMA TypeStep ==
    ASSUME SessionInvariant, [SessionNext]_sessionVars
    PROVE  SessionTypeOK' /\ OverMade'
PROOF
  <1> USE DEF SessionInvariant, Shape
  <1>1. Forms /\ Tells
    BY StepForms
  <1>2. token' \in [Tokens -> TokenRow]
    BY <1>1 DEF Forms, OnlyEnds, Opens, Rotates, Makes
  <1>3. \A t \in Tokens : token'[t].family = NoToken <=> token'[t].state = "unused"
    <2> USE AuthAssumption DEF SessionTypeOK, AuthAssumption, Made
    <2>1. CASE OnlyEnds
      BY <2>1 DEF OnlyEnds
    <2>2. CASE Opens
      BY <2>2 DEF Opens, Makes
    <2>3. CASE Rotates
      BY <2>3 DEF Rotates, Makes
    <2>4. QED
      BY <1>1, <2>1, <2>2, <2>3 DEF Forms
  <1>4. over' \subseteq Tokens /\ OverMade'
    <2>1. \A f \in over' : f \in Tokens /\ Made(f)
      BY <1>1 DEF Tells, SessionTypeOK, OverMade
    <2>2. QED
      BY <1>1, <2>1, MadeStaysMade DEF OverMade
  <1>5. QED
    BY <1>2, <1>3, <1>4, RestStep, FlagsStep, RotatingStep DEF SessionTypeOK, RestOK, FlagsOK

LEMMA FamiliesStep ==
    ASSUME SessionInvariant, [SessionNext]_sessionVars
    PROVE  FamiliesMade' /\ OnePlatformPerFamily'
PROOF
  <1> USE DEF SessionInvariant, Shape
  <1>1. Forms
    BY StepForms
  <1>2. CASE OnlyEnds
    BY <1>2 DEF OnlyEnds, FamiliesMade, OnePlatformPerFamily
  <1>3. ASSUME NEW n \in Tokens, NEW p \in Platforms, Makes(n, n, p)
        PROVE  FamiliesMade' /\ OnePlatformPerFamily'
    <2>1. FamiliesMade'
      BY <1>3 DEF Makes, FamiliesMade
    <2>2. \A t \in Tokens : t # n /\ Made(t) => token[t].family # n
      BY <1>3 DEF Makes, FamiliesMade
    <2>3. QED
      BY <1>3, <2>1, <2>2 DEF Makes, OnePlatformPerFamily
  <1>4. ASSUME NEW n \in Tokens, NEW t \in Tokens, Active(t), Made(t),
               Makes(n, token[t].family, token[t].platform)
        PROVE  FamiliesMade' /\ OnePlatformPerFamily'
    <2>1. PICK f \in Tokens : f = token[t].family /\ Made(f)
      BY <1>4 DEF FamiliesMade
    <2>2. FamiliesMade'
      BY <1>4, <2>1 DEF Makes, FamiliesMade
    <2>3. QED
      BY <1>4, <2>1, <2>2 DEF Makes, OnePlatformPerFamily
  <1>5. QED
    BY <1>1, <1>2, <1>3, <1>4 DEF Forms, Opens, Rotates

LEMMA RequestsStep ==
    ASSUME SessionInvariant, [SessionNext]_sessionVars
    PROVE  RequestsOfMade'
PROOF
  <1> USE DEF SessionInvariant, Shape
  <1>1. Forms
    BY StepForms
  <1>2. \A t \in Tokens : Made(t) => Made(t)' /\ token'[t].family = token[t].family
    BY <1>1 DEF Forms, OnlyEnds, Opens, Rotates, Makes
  <1>3. ASSUME NEW r \in Requests, request'[r] = request[r] \/ request'[r] = IdleRequest
        PROVE  RequestOfMade(r)'
    <2>1. CASE request'[r] = IdleRequest
      BY <2>1 DEF IdleRequest, RequestOfMade
    <2>2. CASE request'[r] = request[r] /\ request[r].pc = "update"
      <3>1. PICK f \in Tokens : f = request[r].family /\ Made(f)
        BY <2>2 DEF RequestsOfMade, RequestOfMade
      <3>2. request[r].rows \subseteq Tokens
        BY DEF SessionTypeOK, RevokeRequest
      <3>3. Made(f)' /\ \A t \in request[r].rows : Made(t)' /\ token'[t].family = f
        BY <1>2, <2>2, <3>1, <3>2 DEF RequestsOfMade, RequestOfMade
      <3>4. QED
        BY <2>2, <3>1, <3>3 DEF Made, RequestOfMade
    <2>3. CASE request'[r] = request[r] /\ request[r].pc # "update"
      BY <2>3 DEF RequestOfMade
    <2>4. QED
      BY <1>3, <2>1, <2>2, <2>3
  <1>4. ASSUME NEW q \in Requests, NEW f \in Families, revokeSession(q, f)
        PROVE  RequestsOfMade'
    <2>1. f \in Tokens /\ Made(f)
      BY DEF Families, FamiliesMade, Made, Known, Active
    <2>2. \A t \in TokensOf(f) : t \in Tokens /\ Made(t) /\ token[t].family = f
      BY DEF TokensOf, Known, Active, Made
    <2>3. /\ request'[q].family = f
          /\ request'[q].rows \subseteq TokensOf(f)
          /\ \A r \in Requests \ {q} : request'[r] = request[r]
      BY <1>4 DEF revokeSession, SessionTypeOK
    <2>4. Made(f)' /\ \A t \in request'[q].rows : Made(t)' /\ token'[t].family = f
      BY <1>2, <2>1, <2>2, <2>3
    <2>5. QED
      BY <1>3, <2>1, <2>3, <2>4 DEF RequestsOfMade, RequestOfMade, Made
  <1>5. ASSUME \A r \in Requests : request'[r] = request[r] \/ request'[r] = IdleRequest
        PROVE  RequestsOfMade'
    BY <1>3, <1>5 DEF RequestsOfMade
  <1>6. ASSUME NEW q \in Requests, revokeRows(q)
        PROVE  RequestsOfMade'
    BY <1>5, <1>6 DEF revokeRows, SessionTypeOK
  <1>7. CASE UNCHANGED request
    BY <1>5, <1>7
  <1>8. QED
    BY <1>4, <1>6, <1>7
       DEF SessionNext, sessionVars, createSession, login, loginFails, refreshEnd, refreshRead, refreshRotate,
           refreshAbort, logout, newPassword, revokeAll, sanctionUser, sanctionEnds, deactivate,
           lockRunsOut, expire, graceEnds, cleanup

LEMMA OneTerminalStep ==
    ASSUME SessionInvariant, [SessionNext]_sessionVars
    PROVE  OneTerminalPerPlatform'
PROOF
  <1> USE DEF SessionInvariant, OneTerminalPerPlatform
  <1>1. CASE OnlyEnds
    BY <1>1 DEF OnlyEnds
  <1>2. ASSUME NEW n, NEW f, NEW p, Makes(n, f, p)
        PROVE  OneTerminalPerPlatform'
    BY <1>2 DEF Makes
  <1>3. QED
    BY <1>1, <1>2, StepForms DEF Forms, Opens, Rotates

LEMMA OverStep ==
    ASSUME SessionInvariant, [SessionNext]_sessionVars
    PROVE  OverIsOver'
PROOF
  <1> USE DEF SessionInvariant, Shape
  <1>1. Forms /\ Tells
    BY StepForms
  <1>2. SUFFICES ASSUME NEW f \in over', f \in over
                 PROVE  ~(TerminalActive(f)')
    BY <1>1 DEF OverIsOver, Tells
  <1>3. Made(f) /\ f \in Tokens /\ \A t \in Tokens : Active(t) => token[t].family # f
    BY <1>2 DEF OverMade, OverIsOver, TerminalActive, TokensOf, Known, SessionTypeOK
  <1>4. CASE OnlyEnds
    BY <1>3, <1>4 DEF OnlyEnds, TerminalActive, TokensOf
  <1>5. CASE Opens
    BY <1>3, <1>5 DEF Opens, Makes, TerminalActive, TokensOf
  <1>6. CASE Rotates
    BY <1>3, <1>6 DEF Rotates, Makes, TerminalActive, TokensOf
  <1>7. QED
    BY <1>1, <1>4, <1>5, <1>6 DEF Forms

LEMMA PasswordStep ==
    ASSUME SessionInvariant, [SessionNext]_sessionVars
    PROVE  SessionsKnowThePassword'
PROOF
  <1> USE DEF SessionInvariant, SessionsKnowThePassword
  <1>1. Forms /\ Tells
    BY StepForms
  <1>2. CASE password' # password
    BY <1>1, <1>2 DEF Tells
  <1>3. CASE OnlyEnds /\ password' = password
    BY <1>3 DEF OnlyEnds
  <1>4. ASSUME NEW n, NEW f, NEW p, Makes(n, f, p)
        PROVE  SessionsKnowThePassword'
    BY <1>4 DEF Makes
  <1>5. QED
    BY <1>1, <1>2, <1>3, <1>4 DEF Forms, Opens, Rotates

LEMMA SanctionStep ==
    ASSUME SessionInvariant, [SessionNext]_sessionVars
    PROVE  SanctionedHasNoTerminal'
PROOF
  <1> USE DEF SessionInvariant, SanctionedHasNoTerminal
  <1>1. Forms /\ Tells
    BY StepForms
  <1>2. CASE OnlyEnds
    BY <1>1, <1>2 DEF OnlyEnds, Tells
  <1>3. ASSUME NEW n, NEW f, NEW p, Makes(n, f, p)
        PROVE  SanctionedHasNoTerminal'
    BY <1>3 DEF Makes
  <1>4. QED
    BY <1>1, <1>2, <1>3 DEF Forms, Opens, Rotates

(* At the start nothing is made. *)
LEMMA StartsSo == SessionInit => SessionInvariant
PROOF
  <1> SUFFICES ASSUME SessionInit PROVE SessionInvariant
    OBVIOUS
  <1> USE AuthAssumption DEF SessionInit, AuthAssumption
  <1>1. \A t \in Tokens : token[t].state = "unused" /\ token[t].family = NoToken
    BY DEF Unused
  <1>2. token \in [Tokens -> TokenRow]
    BY DEF Unused, TokenRow, States
  <1>3. request \in [Requests -> RevokeRequest] /\ \A r \in Requests : request[r].pc = "idle"
    BY DEF IdleRequest, RevokeRequest
  <1>4. SessionTypeOK
    <2>1. FlagsOK
      BY Zenon DEF FlagsOK
    <2>2. RestOK
      BY <1>3 DEF RestOK
    <2>3. QED
      BY <1>1, <1>2, <2>1, <2>2 DEF SessionTypeOK, FlagsOK, RestOK
  <1>5. Shape
    BY <1>1, <1>3, <1>4
       DEF Shape, FamiliesMade, OnePlatformPerFamily, RequestsOfMade, RequestOfMade, OverMade, Made
  <1>6. QED
    BY <1>1, <1>5
       DEF SessionInvariant, OneTerminalPerPlatform, OverIsOver, SessionsKnowThePassword,
           SanctionedHasNoTerminal, Active

LEMMA StaysSo == SessionInvariant /\ [SessionNext]_sessionVars => SessionInvariant'
PROOF
  <1> SUFFICES ASSUME SessionInvariant, [SessionNext]_sessionVars PROVE SessionInvariant'
    OBVIOUS
  <1>1. Shape'
    BY TypeStep, FamiliesStep, RequestsStep DEF Shape
  <1>2. QED
    BY <1>1, OneTerminalStep, OverStep, PasswordStep, SanctionStep DEF SessionInvariant

-------------------------------------------------------------------------------
(* Every reachable state has the invariant. *)
THEOREM Invariance == SessionSpec => []SessionInvariant
PROOF
  BY StartsSo, StaysSo, PTL DEF SessionSpec

(* Each token belongs to a terminal that was opened, and what is asked     *)
(* about is a terminal there was: AuthSessions!SessionTypeOK for every instance.  *)
THEOREM TypeCorrect == SessionSpec => []SessionTypeOK
PROOF
  <1>1. SessionInvariant => SessionTypeOK
    BY DEF SessionInvariant, Shape
  <1>2. QED
    BY <1>1, Invariance, PTL

(* replaceSession and refresh leave one terminal per platform, without the *)
(* help of the database's partial unique index.                            *)
THEOREM OneTerminal == SessionSpec => []OneTerminalPerPlatform
PROOF
  <1>1. SessionInvariant => OneTerminalPerPlatform
    BY DEF SessionInvariant
  <1>2. QED
    BY <1>1, Invariance, PTL

(* logout, revokeSession and the detection of a replay are final: no       *)
(* refresh under way brings back what they ended.                          *)
THEOREM SignedOutForGood == SessionSpec => []OverIsOver
PROOF
  <1>1. SessionInvariant => OverIsOver
    BY DEF SessionInvariant
  <1>2. QED
    BY <1>1, Invariance, PTL

(* No terminal outlives changePassword or resetPassword. *)
THEOREM NewPasswordEndsAll == SessionSpec => []SessionsKnowThePassword
PROOF
  <1>1. SessionInvariant => SessionsKnowThePassword
    BY DEF SessionInvariant
  <1>2. QED
    BY <1>1, Invariance, PTL

(* Whoever is banned or suspended is signed in nowhere. *)
THEOREM SanctionEndsAll == SessionSpec => []SanctionedHasNoTerminal
PROOF
  <1>1. SessionInvariant => SanctionedHasNoTerminal
    BY DEF SessionInvariant
  <1>2. QED
    BY <1>1, Invariance, PTL

(* Both at once, as the model checker has it: no session outlives what the *)
(* account was when it was opened (AuthSessionService, AuthService).       *)
THEOREM SessionsFollowAccount == SessionSpec => []SessionsMatchAccount
PROOF
  <1>1. SessionInvariant => SessionsMatchAccount
    BY DEF SessionInvariant, SessionsMatchAccount
  <1>2. QED
    BY <1>1, Invariance, PTL

(* A terminal that is not signed in, whatever ended it, never is again:    *)
(* a refresh continues only what is active, a login begins a new one.      *)
THEOREM EndedForGood == SessionSpec => TerminalsEndForGood
PROOF
  <1>1. ASSUME SessionInvariant, [SessionNext]_sessionVars, NEW f \in Families, ~TerminalActive(f)
        PROVE  ~(TerminalActive(f)')
    <2> USE DEF SessionInvariant, Shape
    <2>1. Forms
      BY <1>1, StepForms
    <2>2. f \in Tokens /\ Made(f)
      BY <1>1 DEF Families, FamiliesMade, Made, Known, Active
    <2>3. \A t \in Tokens : Active(t) => token[t].family # f
      BY <1>1 DEF TerminalActive, TokensOf, Known
    <2>4. CASE OnlyEnds
      BY <2>3, <2>4 DEF OnlyEnds, TerminalActive, TokensOf
    <2>5. CASE Opens
      BY <2>2, <2>3, <2>5 DEF Opens, Makes, TerminalActive, TokensOf
    <2>6. CASE Rotates
      BY <2>3, <2>6 DEF Rotates, Makes, TerminalActive, TokensOf
    <2>7. QED
      BY <2>1, <2>4, <2>5, <2>6 DEF Forms
  <1>2. SessionInvariant /\ [SessionNext]_sessionVars
          => [\A f \in Families : ~TerminalActive(f) => ~(TerminalActive(f)')]_sessionVars
    BY <1>1
  <1>3. QED
    BY <1>2, Invariance, PTL DEF SessionSpec, TerminalsEndForGood

(* What the model checker has as one: AuthSessionService keeps one terminal *)
(* per platform, of the account as it is now, for any number of tokens,    *)
(* platforms and requests.                                                 *)
THEOREM SessionsAreKept == SessionSpec => []SessionsHold
PROOF
  BY TypeCorrect, OneTerminal, SessionsFollowAccount, PTL DEF SessionsHold

===============================================================================
