------------------------------ MODULE EconomyProofs -----------------------------
(***************************************************************************)
(* Proofs about Economy: for any users, wallets, amounts, requests and     *)
(* retries, a request id is paid once, money moves only among accounts and *)
(* targets that are there, no wallet is overdrawn, the ledger explains     *)
(* every total, tips only move what check-ins brought in, no row of the    *)
(* ledger is one the database refuses, and the statement a user reads page *)
(* by page, whatever its page length, adds up.                             *)
(***************************************************************************)
EXTENDS Economy, FiniteSetTheorems, WellFoundedInduction, TLAPS

(* A sequence, whatever its elements are. *)
IsList(s) == s \in Seq({s[i] : i \in DOMAIN s})

(* What a transaction may go by: it is about two users and an amount, and  *)
(* whatever has happened to the sender's wallet or to the visibility of    *)
(* the thread since its snapshot has left a mark on a row it will touch.   *)
AttemptFits(r) ==
    /\ pc[r] \in {"prepared", "begin", "in_tx"} => r.amount >= 2
    /\ pc[r] \in {"begin", "in_tx"} => r.sender # r.recipient
    /\ pc[r] \in {"new", "prepared"} => attempt[r] = 0
    /\ pc[r] = "begin" => attempt[r] < MaxAttempts
    /\ pc[r] = "in_tx" =>
         /\ \A i \in DOMAIN ledger :
              i > snap[r].ledger /\ ledger[i].type = "TIP" /\ ledger[i].sender = r.sender =>
                WalletRow(r.sender) \in dirty[r]
         /\ r.kind = "THREAD" /\ r.target \in denied \ snap[r].denied => TargetRow(r.target) \in dirty[r]

AnswerFits(r) ==
    /\ pc[r] = "paid" <=> answer[r] # 0
    /\ answer[r] \in 0..Len(ledger)
    /\ pc[r] = "paid" =>
         LET row == ledger[answer[r]]
         IN  row.type = "TIP" /\ row.sender = r.sender /\ row.key = r.key /\ row.hash = requestHash(r)

RequestOK(r) ==
    /\ dirty[r] \subseteq LockedRows(r)
    /\ snap[r].ledger \in 0..Len(ledger)
    /\ AttemptFits(r) /\ AnswerFits(r)

Snapshots == [ledger : Nat, blocked : SUBSET (Users \X Users), denied : SUBSET Targets]
Places == {"new", "prepared", "begin", "in_tx"} \cup Outcomes

(* The requests under way. *)
RequestsHold ==
    /\ pc \in [Requests -> Places]
    /\ attempt \in [Requests -> 0..MaxAttempts]
    /\ snap \in [Requests -> Snapshots]
    /\ answer \in [Requests -> Nat]
    /\ dirty = [r \in Requests |-> dirty[r]]
    /\ \A r \in Requests : RequestOK(r)

(* The rest of the system. *)
WorldHolds ==
    /\ prog = [u \in Users |-> prog[u]] /\ \A u \in Users : prog[u].experience \in Nat
    /\ plot \in Plots
    /\ today \in 1..plot.days
    /\ inactive \subseteq Users
    /\ gone \subseteq Targets
    /\ denied \subseteq plot.hiding
    /\ blocked \subseteq Users \X Users

(* Wallets, totals and ledger. *)
MoneyHolds ==
    /\ balance \in [Wallets -> Nat]
    /\ tipTotal \in [Users -> Nat]
    /\ tipCount \in [Users -> Nat]
    /\ targetTotal \in [Targets -> Nat]
    /\ checkIns \subseteq CheckInRows /\ \A c \in checkIns : c.entry <= Len(ledger)
    /\ IsList(ledger)
    /\ PaidOncePerKey
    /\ LedgerExplainsTotals
    /\ LedgerAccepts
    /\ MoneyConserved

(* The inductive invariant. *)
EconomyInvariant == MoneyHolds /\ WorldHolds /\ RequestsHold

-------------------------------------------------------------------------------
(* Finite sets of integers *)

(* Max is the maximum: a finite set of integers has one. *)
LEMMA MaxOfFinite ==
    ASSUME NEW S \in SUBSET Int, IsFiniteSet(S), S # {}
    PROVE  Max(S) \in S /\ \A x \in S : Max(S) >= x
<1> DEFINE From(x) == {y \in S : y >= x}
           F == {From(x) : x \in S}
<1> HIDE DEF F
<1>1. F \subseteq FiniteSubsetsOf(S) /\ F # {}
  <2>1. FiniteSubsetsOf(S) = SUBSET S
    BY FS_FiniteSubsetsOfFinite
  <2>2. \A x \in S : From(x) \in SUBSET S /\ From(x) \in F
    BY DEF F
  <2>3. F \subseteq SUBSET S
    BY DEF F
  <2> HIDE DEF F, From
  <2> QED BY <2>1, <2>2, <2>3
<1>2. PICK T \in F : \A U \in F : ~(<<U, T>> \in StrictSubsetOrdering(S))
  <2>1. IsWellFoundedOn(StrictSubsetOrdering(S), FiniteSubsetsOf(S))
    BY FS_StrictSubsetOrderingWellFounded
  <2> QED BY <1>1, <2>1, WFMin
<1>3. PICK x \in S : T = From(x)
  BY <1>2 DEF F
<1>4. \A y \in S : x >= y
  <2>1. SUFFICES ASSUME NEW y \in S, y > x PROVE FALSE
    OBVIOUS
  <2>2. From(y) \subseteq From(x) /\ x \in From(x) /\ x \notin From(y)
    <3>1. x \in Int /\ y \in Int /\ \A z \in S : z \in Int
      OBVIOUS
    <3>2. \A z \in Int : z >= y => z >= x
      BY <2>1, <3>1
    <3>3. From(y) \subseteq From(x)
      BY <3>1, <3>2, Zenon
    <3>4. x \in From(x) /\ x \notin From(y)
      BY <2>1, <3>1
    <3> QED BY <3>3, <3>4
  <2>3. <<From(y), T>> \in StrictSubsetOrdering(S)
    BY <1>3, <2>2 DEF StrictSubsetOrdering
  <2> QED BY <1>2, <2>3 DEF F
<1> QED BY <1>4 DEF Max

-------------------------------------------------------------------------------
(* Lists *)

LEMMA Lists ==
    ASSUME NEW s, IsList(s)
    PROVE  /\ Len(s) \in Nat /\ DOMAIN s = 1..Len(s)
           /\ \A i \in DOMAIN s : i \in Nat /\ i > 0 /\ i <= Len(s)
           /\ Len(s) + 1 \notin DOMAIN s
  BY DEF IsList

LEMMA ListsGrow ==
    ASSUME NEW s, IsList(s), NEW e
    PROVE  LET more == Append(s, e)
           IN  /\ IsList(more) /\ Len(more) = Len(s) + 1
               /\ DOMAIN more = DOMAIN s \cup {Len(s) + 1}
               /\ more[Len(s) + 1] = e
               /\ \A i \in DOMAIN s : more[i] = s[i]
<1> DEFINE S == {s[i] : i \in DOMAIN s}
           T == S \cup {e}
           more == Append(s, e)
<1>1. s \in Seq(S) /\ S \subseteq T /\ e \in T
  BY DEF IsList
<1> HIDE DEF S
<1>2. s \in Seq(T)
  BY <1>1
<1> HIDE DEF T
<1>3. /\ more \in Seq(T) /\ Len(more) = Len(s) + 1 /\ Len(s) \in Nat
      /\ DOMAIN more = DOMAIN s \cup {Len(s) + 1}
      /\ more[Len(s) + 1] = e
      /\ \A i \in DOMAIN s : more[i] = s[i]
  BY <1>1, <1>2
<1> HIDE DEF more
<1>4. IsList(more)
  <2> DEFINE R == {more[i] : i \in DOMAIN more}
  <2>1. DOMAIN more = 1..Len(more) /\ Len(more) \in Nat /\ more = [i \in 1..Len(more) |-> more[i]]
    BY <1>3
  <2>2. \A i \in 1..Len(more) : more[i] \in R
    BY <2>1
  <2> HIDE DEF R
  <2>3. more \in Seq(R)
    BY <2>1, <2>2
  <2> QED BY <2>3 DEF IsList, R
<1> QED BY <1>3, <1>4 DEF more

-------------------------------------------------------------------------------
(* Sums *)

(* SumFunctionOnSet is a fold: it takes the elements one by one, each time *)
(* the one CHOOSE gives.                                                   *)
OneOf(s) == CHOOSE x \in s : TRUE
Adds(f, S, g) ==
    g = [s \in SUBSET S |-> IF s = {} THEN 0 ELSE f[OneOf(s)] + g[s \ {OneOf(s)}]]

LEMMA SumIsFold ==
    ASSUME NEW f, NEW S
    PROVE  SumFunctionOnSet(f, S) = (CHOOSE g : Adds(f, S, g))[S]
  BY DEF SumFunctionOnSet, FoldFunctionOnSet, MapThenFoldSet, Adds, OneOf

(* A set of finite sets that are given with their subsets has a least one. *)
LEMMA LeastSubset ==
    ASSUME NEW S, IsFiniteSet(S), NEW F, F \subseteq SUBSET S, F # {}
    PROVE  \E T \in F : \A U \in F : U \subseteq T => U = T
<1>1. FiniteSubsetsOf(S) = SUBSET S
  BY FS_FiniteSubsetsOfFinite
<1>2. IsWellFoundedOn(StrictSubsetOrdering(S), SUBSET S)
  BY <1>1, FS_StrictSubsetOrderingWellFounded
<1>3. PICK T \in F : \A U \in F : ~(<<U, T>> \in StrictSubsetOrdering(S))
  BY <1>2, WFMin
<1>4. ASSUME NEW U \in F, U \subseteq T PROVE U = T
  BY <1>3, <1>4 DEF StrictSubsetOrdering
<1> QED BY <1>4

LEMMA AnyOf ==
    ASSUME NEW s, s # {}
    PROVE  OneOf(s) \in s
  BY DEF OneOf

(* Whoever adds f up gets the same, also on a part of the set. *)
LEMMA AddsAgree ==
    ASSUME NEW f, NEW S, NEW T, IsFiniteSet(S), T \subseteq S, NEW g, NEW h, Adds(f, S, g), Adds(f, T, h)
    PROVE  \A U \in SUBSET T : g[U] = h[U]
<1> DEFINE F == {U \in SUBSET T : g[U] # h[U]}
<1>1. SUFFICES ASSUME F # {} PROVE FALSE
  OBVIOUS
<1>2. F \subseteq SUBSET S
  OBVIOUS
<1>3. PICK U \in F : \A V \in F : V \subseteq U => V = U
  <2> HIDE DEF F
  <2> QED BY <1>1, <1>2, LeastSubset
<1>4. CASE U = {}
  BY <1>4 DEF Adds
<1>5. CASE U # {}
  <2> DEFINE x == OneOf(U)
             V == U \ {x}
  <2>1. x \in U
    BY <1>5, AnyOf
  <2>2. V \in SUBSET T /\ V \subseteq U /\ V # U
    BY <2>1
  <2>3. g[V] = h[V]
    BY <1>3, <2>2
  <2>4. U \in SUBSET S /\ U \in SUBSET T
    OBVIOUS
  <2>5. g[U] = f[x] + g[V] /\ h[U] = f[x] + h[V]
    BY <1>5, <2>4 DEF Adds
  <2> QED BY <2>3, <2>5
<1> QED BY <1>4, <1>5

(* On a finite set it can be done. *)
LEMMA AddsExist ==
    ASSUME NEW f, NEW S, IsFiniteSet(S)
    PROVE  \E g : Adds(f, S, g)
<1> DEFINE F == {T \in SUBSET S : ~\E g : Adds(f, T, g)}
<1>1. SUFFICES ASSUME F # {} PROVE FALSE
  OBVIOUS
<1>2. PICK T \in F : \A U \in F : U \subseteq T => U = T
  <2>1. F \subseteq SUBSET S
    OBVIOUS
  <2> HIDE DEF F
  <2> QED BY <1>1, <2>1, LeastSubset
<1>3. T \in SUBSET S /\ IsFiniteSet(T)
  BY FS_Subset
<1> DEFINE Value(U) == (CHOOSE g : Adds(f, U, g))[U]
           Rest(U) == U \ {OneOf(U)}
           sum == [U \in SUBSET T |-> IF U = {} THEN 0 ELSE f[OneOf(U)] + Value(Rest(U))]
<1>4. ASSUME NEW U \in SUBSET T, U # T
      PROVE  Adds(f, U, CHOOSE g : Adds(f, U, g)) /\ U \in SUBSET S
  <2>1. \E g : Adds(f, U, g)
    BY <1>2, <1>3, <1>4
  <2> QED BY <2>1, <1>3
<1>5. ASSUME NEW U \in SUBSET T, U # T
      PROVE  Value(U) = IF U = {} THEN 0 ELSE f[OneOf(U)] + Value(Rest(U))
  <2> DEFINE g == CHOOSE g : Adds(f, U, g)
             V == Rest(U)
             h == CHOOSE h : Adds(f, V, h)
  <2>1. Adds(f, U, g)
    BY <1>4, <1>5
  <2>2. CASE U = {}
    BY <2>1, <2>2 DEF Adds
  <2>3. CASE U # {}
    <3>1. V \in SUBSET U /\ V \in SUBSET T /\ V # T
      BY <1>5, <2>3, AnyOf
    <3>2. Adds(f, V, h)
      BY <1>4, <3>1
    <3>3. IsFiniteSet(U)
      BY <1>3, FS_Subset
    <3>4. g[V] = h[V]
      <4> HIDE DEF g, h, V
      <4> QED BY <2>1, <3>1, <3>2, <3>3, AddsAgree
    <3>5. g[U] = f[OneOf(U)] + g[V]
      <4> HIDE DEF g
      <4> QED BY <2>1, <2>3 DEF Adds
    <3> QED BY <2>3, <3>4, <3>5
  <2> QED BY <2>2, <2>3
<1>6. ASSUME NEW U \in SUBSET T
      PROVE  sum[U] = IF U = {} THEN 0 ELSE f[OneOf(U)] + sum[Rest(U)]
  <2>1. CASE U = {}
    BY <2>1
  <2>2. CASE U # {}
    <3>1. Rest(U) \in SUBSET T /\ Rest(U) # T
      BY <2>2, AnyOf
    <3> HIDE DEF Value
    <3>2. sum[U] = f[OneOf(U)] + Value(Rest(U))
      BY <2>2
    <3>3. sum[Rest(U)] = IF Rest(U) = {} THEN 0 ELSE f[OneOf(Rest(U))] + Value(Rest(Rest(U)))
      BY <3>1
    <3>4. sum[Rest(U)] = Value(Rest(U))
      BY <1>5, <3>1, <3>3
    <3> QED BY <2>2, <3>2, <3>4
  <2> QED BY <2>1, <2>2
<1>7. sum = [U \in SUBSET T |-> IF U = {} THEN 0 ELSE f[OneOf(U)] + sum[Rest(U)]]
  <2> HIDE DEF Rest, Value
  <2>1. sum = [U \in SUBSET T |-> sum[U]]
    OBVIOUS
  <2> HIDE DEF sum
  <2> QED BY <1>6, <2>1
<1>8. Adds(f, T, sum)
  <2> HIDE DEF sum
  <2> QED BY <1>7 DEF Adds
<1> QED BY <1>8

LEMMA SumOfSum ==
    ASSUME NEW f, NEW S, IsFiniteSet(S)
    PROVE  SumFunctionOnSet(f, S) =
             IF S = {} THEN 0 ELSE f[OneOf(S)] + SumFunctionOnSet(f, S \ {OneOf(S)})
<1> DEFINE x == OneOf(S)
           T == S \ {x}
<1>1. PICK g : Adds(f, S, g) /\ SumFunctionOnSet(f, S) = g[S]
  BY AddsExist, SumIsFold, Zenon
<1>2. IsFiniteSet(T) /\ T \subseteq S
  BY FS_Subset
<1>3. PICK h : Adds(f, T, h) /\ SumFunctionOnSet(f, T) = h[T]
  BY <1>2, AddsExist, SumIsFold, Zenon
<1>4. g[T] = h[T]
  <2> HIDE DEF T
  <2> QED BY <1>1, <1>2, <1>3, AddsAgree
<1>5. g[S] = IF S = {} THEN 0 ELSE f[x] + g[T]
  BY <1>1 DEF Adds
<1> QED BY <1>1, <1>3, <1>4, <1>5

(* The sum, element by element in any order. *)
LEMMA SumSplits ==
    ASSUME NEW f, NEW S, IsFiniteSet(S), \A s \in S : f[s] \in Int
    PROVE  /\ SumFunctionOnSet(f, {}) = 0
           /\ SumFunctionOnSet(f, S) \in Int
           /\ \A x \in S : SumFunctionOnSet(f, S) = f[x] + SumFunctionOnSet(f, S \ {x})
<1> DEFINE Sum(T) == SumFunctionOnSet(f, T)
           F == {T \in SUBSET S : ~(Sum(T) \in Int /\ \A x \in T : Sum(T) = f[x] + Sum(T \ {x}))}
<1> HIDE DEF Sum
<1>1. Sum({}) = 0
  BY SumOfSum, FS_EmptySet DEF Sum
<1>2. SUFFICES F = {}
  BY <1>1 DEF Sum
<1>3. SUFFICES ASSUME F # {} PROVE FALSE
  OBVIOUS
<1>4. PICK T \in F : \A U \in F : U \subseteq T => U = T
  <2>1. F \subseteq SUBSET S
    OBVIOUS
  <2> HIDE DEF F
  <2> QED BY <1>3, <2>1, LeastSubset
<1>5. T \in SUBSET S /\ T # {}
  <2>1. ASSUME T = {} PROVE FALSE
    <3>1. Sum(T) = 0
      BY <1>1, <2>1
    <3>2. Sum(T) \in Int /\ \A x \in T : Sum(T) = f[x] + Sum(T \ {x})
      BY <2>1, <3>1
    <3> QED BY <3>2
  <2> QED BY <2>1
<1>6. ASSUME NEW U \in SUBSET T, U # T
      PROVE  Sum(U) \in Int /\ \A x \in U : Sum(U) = f[x] + Sum(U \ {x})
  BY <1>4, <1>5, <1>6
<1> DEFINE a == OneOf(T)
<1>7. a \in T /\ IsFiniteSet(T)
  BY <1>5, AnyOf, FS_Subset
<1>8. Sum(T) = f[a] + Sum(T \ {a})
  BY <1>5, <1>7, SumOfSum DEF Sum
<1> HIDE DEF a, F
<1>9. Sum(T \ {a}) \in Int /\ f[a] \in Int
  BY <1>5, <1>6, <1>7
<1>10. ASSUME NEW x \in T PROVE Sum(T) = f[x] + Sum(T \ {x})
  <2>1. CASE x = a
    BY <1>8, <2>1
  <2>2. CASE x # a
    <3> DEFINE U == T \ {a}
               V == T \ {x}
               W == U \ {x}
    <3>1. Sum(U) = f[x] + Sum(W)
      BY <1>6, <1>7, <2>2
    <3>2. V \ {a} = W
      OBVIOUS
    <3>3. Sum(V) = f[a] + Sum(V \ {a})
      BY <1>6, <1>7, <2>2
    <3>4. Sum(W) \in Int /\ f[x] \in Int
      BY <1>5, <1>6, <1>7
    <3> HIDE DEF U, V, W
    <3>5. Sum(T) = f[a] + Sum(U)
      BY <1>8 DEF U
    <3>6. Sum(V) = f[a] + Sum(W)
      BY <3>2, <3>3
    <3>7. Sum(T) = f[x] + Sum(V)
      BY <1>9, <3>1, <3>4, <3>5, <3>6
    <3> QED BY <3>7 DEF V
  <2> QED BY <2>1, <2>2
<1>11. Sum(T) \in Int
  BY <1>8, <1>9
<1> QED BY <1>4, <1>10, <1>11 DEF F

(* It depends on what f is on the set, ... *)
LEMMA SumsAgree ==
    ASSUME NEW f, NEW g, NEW S, IsFiniteSet(S), \A s \in S : f[s] \in Int /\ g[s] = f[s]
    PROVE  SumFunctionOnSet(f, S) = SumFunctionOnSet(g, S)
<1> DEFINE F == {T \in SUBSET S : SumFunctionOnSet(f, T) # SumFunctionOnSet(g, T)}
<1>1. SUFFICES ASSUME F # {} PROVE FALSE
  OBVIOUS
<1>2. PICK T \in F : \A U \in F : U \subseteq T => U = T
  <2>1. F \subseteq SUBSET S
    OBVIOUS
  <2> HIDE DEF F
  <2> QED BY <1>1, <2>1, LeastSubset
<1>3. T \in SUBSET S /\ IsFiniteSet(T) /\ \A s \in T : f[s] \in Int /\ g[s] \in Int
  BY FS_Subset
<1>4. T # {}
  BY <1>3, SumSplits
<1>5. PICK x \in T : TRUE
  BY <1>4
<1>6. SumFunctionOnSet(f, T) = f[x] + SumFunctionOnSet(f, T \ {x})
  BY <1>3, SumSplits
<1>7. SumFunctionOnSet(g, T) = g[x] + SumFunctionOnSet(g, T \ {x})
  BY <1>3, SumSplits
<1>8. T \ {x} \notin F
  BY <1>2
<1> QED BY <1>3, <1>6, <1>7, <1>8

(* ... and one element more adds its value.                                *)
LEMMA SumGrows ==
    ASSUME NEW f, NEW g, NEW S, IsFiniteSet(S), NEW x, x \notin S,
           \A s \in S : f[s] \in Int /\ g[s] = f[s], g[x] \in Int
    PROVE  SumFunctionOnSet(g, S \cup {x}) = SumFunctionOnSet(f, S) + g[x]
<1> DEFINE T == S \cup {x}
<1>1. IsFiniteSet(T) /\ x \in T /\ T \ {x} = S /\ \A s \in T : g[s] \in Int
  BY FS_AddElement
<1>2. SumFunctionOnSet(f, S) = SumFunctionOnSet(g, S)
  BY SumsAgree
<1> HIDE DEF T
<1>3. SumFunctionOnSet(g, T) = g[x] + SumFunctionOnSet(g, S)
  <2>1. SumFunctionOnSet(g, T) = g[x] + SumFunctionOnSet(g, T \ {x})
    BY <1>1, SumSplits
  <2> QED BY <1>1, <2>1
<1>4. SumFunctionOnSet(f, S) \in Int
  BY SumSplits
<1>5. SumFunctionOnSet(g, T) = SumFunctionOnSet(f, S) + g[x]
  BY <1>1, <1>2, <1>3, <1>4
<1> QED BY <1>5 DEF T

LEMMA SumOfNoughts ==
    ASSUME NEW f, NEW S, IsFiniteSet(S), \A s \in S : f[s] = 0
    PROVE  SumFunctionOnSet(f, S) = 0
<1> DEFINE F == {T \in SUBSET S : SumFunctionOnSet(f, T) # 0}
<1>1. SUFFICES ASSUME F # {} PROVE FALSE
  OBVIOUS
<1>2. PICK T \in F : \A U \in F : U \subseteq T => U = T
  <2>1. F \subseteq SUBSET S
    OBVIOUS
  <2> HIDE DEF F
  <2> QED BY <1>1, <2>1, LeastSubset
<1>3. T \in SUBSET S /\ IsFiniteSet(T) /\ \A s \in T : f[s] \in Int
  BY FS_Subset
<1>4. T # {}
  BY <1>3, SumSplits
<1>5. PICK x \in T : f[x] = 0
  BY <1>4
<1>6. SumFunctionOnSet(f, T) = f[x] + SumFunctionOnSet(f, T \ {x})
  BY <1>3, SumSplits
<1>7. T \ {x} \notin F
  BY <1>2
<1> QED BY <1>3, <1>5, <1>6, <1>7

(* Three parts of a sum that change and keep what they add up to change    *)
(* nothing.                                                                *)
LEMMA SumIsMovedOnly ==
    ASSUME NEW f, NEW g, NEW S, IsFiniteSet(S), \A s \in S : f[s] \in Int /\ g[s] \in Int,
           NEW x \in S, NEW y \in S, NEW z \in S, x # y, x # z, y # z,
           \A s \in S \ {x, y, z} : g[s] = f[s],
           g[x] + g[y] + g[z] = f[x] + f[y] + f[z]
    PROVE  SumFunctionOnSet(g, S) = SumFunctionOnSet(f, S)
<1> DEFINE A == S \ {x}
           B == A \ {y}
           C == B \ {z}
<1>1. IsFiniteSet(A) /\ IsFiniteSet(B) /\ IsFiniteSet(C) /\ y \in A /\ z \in B
  <2>1. IsFiniteSet(A)
    BY FS_Subset
  <2> HIDE DEF A
  <2>2. IsFiniteSet(B)
    BY <2>1, FS_Subset
  <2> HIDE DEF B
  <2>3. IsFiniteSet(C)
    BY <2>2, FS_Subset
  <2> QED BY <2>1, <2>2, <2>3 DEF A, B
<1>2. /\ \A s \in A : f[s] \in Int /\ g[s] \in Int
      /\ \A s \in B : f[s] \in Int /\ g[s] \in Int
      /\ \A s \in C : f[s] \in Int /\ g[s] = f[s]
  OBVIOUS
<1> HIDE DEF A, B, C
<1>3. SumFunctionOnSet(f, S) = f[x] + SumFunctionOnSet(f, A) /\ SumFunctionOnSet(g, S) = g[x] + SumFunctionOnSet(g, A)
  BY SumSplits DEF A
<1>4. SumFunctionOnSet(f, A) = f[y] + SumFunctionOnSet(f, B) /\ SumFunctionOnSet(g, A) = g[y] + SumFunctionOnSet(g, B)
  BY <1>1, <1>2, SumSplits DEF B
<1>5. SumFunctionOnSet(f, B) = f[z] + SumFunctionOnSet(f, C) /\ SumFunctionOnSet(g, B) = g[z] + SumFunctionOnSet(g, C)
  BY <1>1, <1>2, SumSplits DEF C
<1>6. SumFunctionOnSet(g, C) = SumFunctionOnSet(f, C)
  BY <1>1, <1>2, SumsAgree
<1>7. SumFunctionOnSet(f, C) \in Int
  BY <1>1, <1>2, SumSplits
<1> QED BY <1>3, <1>4, <1>5, <1>6, <1>7

(* One part that grows makes the sum grow.                                 *)
LEMMA SumGrowsWithOne ==
    ASSUME NEW f, NEW g, NEW S, IsFiniteSet(S), \A s \in S : f[s] \in Int /\ g[s] \in Int,
           NEW x \in S, \A s \in S \ {x} : g[s] = f[s]
    PROVE  SumFunctionOnSet(g, S) = SumFunctionOnSet(f, S) + (g[x] - f[x])
<1> DEFINE A == S \ {x}
<1>1. IsFiniteSet(A) /\ \A s \in A : f[s] \in Int /\ g[s] = f[s]
  BY FS_Subset
<1> HIDE DEF A
<1>2. SumFunctionOnSet(f, S) = f[x] + SumFunctionOnSet(f, A) /\ SumFunctionOnSet(g, S) = g[x] + SumFunctionOnSet(g, A)
  <2>1. SumFunctionOnSet(f, S) = f[x] + SumFunctionOnSet(f, A)
    BY SumSplits DEF A
  <2>2. SumFunctionOnSet(g, S) = g[x] + SumFunctionOnSet(g, A)
    BY SumSplits DEF A
  <2> QED BY <2>1, <2>2
<1>3. SumFunctionOnSet(g, A) = SumFunctionOnSet(f, A) /\ SumFunctionOnSet(f, A) \in Int
  BY <1>1, SumsAgree, SumSplits
<1> QED BY <1>2, <1>3

-------------------------------------------------------------------------------
(* Requests that others overtake *)

(* The ledger only grows. *)
LedgerGrows ==
    /\ IsList(ledger')
    /\ Len(ledger') >= Len(ledger)
    /\ \A i \in DOMAIN ledger : ledger'[i] = ledger[i]

(* What happens to the rows of a running transaction leaves its mark.      *)
Marked(r) ==
    /\ dirty'[r] \subseteq LockedRows(r)
    /\ pc[r] = "in_tx" =>
         /\ dirty[r] \subseteq dirty'[r]
         /\ \A i \in DOMAIN ledger' \ DOMAIN ledger :
              ledger'[i].type = "TIP" /\ ledger'[i].sender = r.sender => WalletRow(r.sender) \in dirty'[r]
         /\ r.kind = "THREAD" /\ r.target \in denied' \ denied => TargetRow(r.target) \in dirty'[r]

SameRequest(r) == pc'[r] = pc[r] /\ attempt'[r] = attempt[r] /\ snap'[r] = snap[r] /\ answer'[r] = answer[r]

LEMMA OvertakenRequest ==
    ASSUME EconomyInvariant, NEW r \in Requests, LedgerGrows, Marked(r), SameRequest(r)
    PROVE  RequestOK(r)'
<1>1. RequestOK(r) /\ IsList(ledger) /\ answer[r] \in Nat /\ snap[r].ledger \in Nat
  BY DEF EconomyInvariant, RequestsHold, MoneyHolds, Snapshots
<1>2. /\ Len(ledger) \in Nat /\ Len(ledger') \in Nat /\ Len(ledger) <= Len(ledger')
      /\ DOMAIN ledger = 1..Len(ledger) /\ DOMAIN ledger' = 1..Len(ledger')
  BY <1>1, Lists DEF LedgerGrows
<1>3. AnswerFits(r)'
  <2>1. pc[r] = "paid" => answer[r] \in DOMAIN ledger
    BY <1>1, <1>2 DEF RequestOK, AnswerFits
  <2>2. answer[r] \in 0..Len(ledger')
    BY <1>1, <1>2 DEF RequestOK, AnswerFits
  <2> QED BY <1>1, <2>1, <2>2 DEF RequestOK, AnswerFits, SameRequest, LedgerGrows
<1>4. AttemptFits(r)'
  <2>1. ASSUME pc[r] = "in_tx"
        PROVE  /\ \A i \in DOMAIN ledger' :
                    i > snap[r].ledger /\ ledger'[i].type = "TIP" /\ ledger'[i].sender = r.sender =>
                      WalletRow(r.sender) \in dirty'[r]
               /\ r.kind = "THREAD" /\ r.target \in denied' \ snap[r].denied => TargetRow(r.target) \in dirty'[r]
    BY <1>1, <2>1 DEF RequestOK, AttemptFits, Marked, LedgerGrows
  <2> QED BY <1>1, <2>1 DEF RequestOK, AttemptFits, SameRequest
<1>5. snap'[r].ledger \in 0..Len(ledger')
  BY <1>1, <1>2 DEF RequestOK, SameRequest
<1> QED BY <1>3, <1>4, <1>5 DEF RequestOK, Marked

(* Money nobody moves is where it was. *)
LEMMA MoneyStays ==
    ASSUME MoneyHolds, UNCHANGED moneyVars
    PROVE  MoneyHolds' /\ LedgerGrows /\ DOMAIN ledger' \ DOMAIN ledger = {}
<1>1. /\ balance' = balance /\ tipTotal' = tipTotal /\ tipCount' = tipCount /\ targetTotal' = targetTotal
      /\ ledger' = ledger /\ checkIns' = checkIns
  BY DEF moneyVars
<1>2. PaidOncePerKey' = PaidOncePerKey
  BY <1>1 DEF PaidOncePerKey
<1>3. LedgerExplainsTotals' = LedgerExplainsTotals
  <2>1. Totals' = Totals
    BY <1>1 DEF Totals
  <2> QED BY <1>1, <2>1 DEF LedgerExplainsTotals
<1>4. LedgerAccepts' = LedgerAccepts
  <2>1. \A i \in DOMAIN ledger : TransactionRelations(i)' <=> TransactionRelations(i)
    BY <1>1 DEF TransactionRelations
  <2>2. \A c \in checkIns : CheckInRelations(c)' <=> CheckInRelations(c)
    BY <1>1 DEF CheckInRelations
  <2> QED BY <1>1, <2>1, <2>2 DEF LedgerAccepts
<1>5. Len(ledger) \in Nat
  BY Lists DEF MoneyHolds
<1>6. MoneyConserved' = MoneyConserved
  BY <1>1 DEF MoneyConserved, CheckInEntries
<1> QED BY <1>1, <1>2, <1>3, <1>4, <1>5, <1>6 DEF MoneyHolds, LedgerGrows

-------------------------------------------------------------------------------
(* Steps that move no money *)

LEMMA TouchMarks ==
    ASSUME EconomyInvariant, NEW rows, NEW running, TouchFor(rows, running)
    PROVE  /\ dirty' = [r \in Requests |-> dirty'[r]]
           /\ \A r \in Requests :
                /\ dirty'[r] \subseteq LockedRows(r)
                /\ r \in running => dirty[r] \subseteq dirty'[r] /\ rows \cap LockedRows(r) \subseteq dirty'[r]
<1>1. \A r \in Requests : dirty[r] \subseteq LockedRows(r)
  BY DEF EconomyInvariant, RequestsHold, RequestOK
<1>2. dirty' = [r \in Requests |-> IF r \in running THEN dirty[r] \cup (rows \cap LockedRows(r)) ELSE {}]
  BY DEF TouchFor
<1> HIDE DEF LockedRows
<1> QED BY <1>1, <1>2

(* Whatever else happens in the system, the requests go on. *)
LEMMA OthersHold ==
    ASSUME EconomyInvariant, MoneyHolds', WorldHolds', LedgerGrows,
           UNCHANGED <<pc, attempt, snap, answer>>,
           dirty' = [r \in Requests |-> dirty'[r]], \A r \in Requests : Marked(r)
    PROVE  EconomyInvariant'
<1>1. \A r \in Requests : RequestOK(r)'
  BY OvertakenRequest DEF SameRequest
<1> QED BY <1>1 DEF EconomyInvariant, RequestsHold

LEMMA nextDayHolds == EconomyInvariant /\ nextDay => EconomyInvariant'
<1> SUFFICES ASSUME EconomyInvariant, nextDay PROVE EconomyInvariant'
  OBVIOUS
<1>1. MoneyHolds' /\ LedgerGrows /\ DOMAIN ledger' \ DOMAIN ledger = {}
  BY MoneyStays DEF nextDay, EconomyInvariant
<1>2. WorldHolds'
  <2>1. plot.days \in Nat
    BY EconomyAssumption DEF PlotOf, EconomyInvariant, WorldHolds
  <2> QED BY <2>1 DEF nextDay, EconomyInvariant, WorldHolds
<1>3. /\ UNCHANGED <<pc, attempt, snap, answer>> /\ dirty' = [r \in Requests |-> dirty'[r]]
      /\ \A r \in Requests : Marked(r)
  BY <1>1 DEF nextDay, requestVars, Marked, EconomyInvariant, RequestsHold, RequestOK
<1> QED BY <1>1, <1>2, <1>3, OthersHold

LEMMA blockHolds ==
    ASSUME EconomyInvariant, NEW u \in Users, NEW v \in Users, block(u, v) \/ unblock(u, v)
    PROVE  EconomyInvariant'
<1>1. MoneyHolds' /\ LedgerGrows /\ DOMAIN ledger' \ DOMAIN ledger = {}
  BY MoneyStays DEF block, unblock, EconomyInvariant
<1>2. WorldHolds'
  BY DEF block, unblock, EconomyInvariant, WorldHolds
<1>3. /\ UNCHANGED <<pc, attempt, snap, answer>> /\ dirty' = [r \in Requests |-> dirty'[r]]
      /\ \A r \in Requests : Marked(r)
  BY <1>1 DEF block, unblock, requestVars, Marked, EconomyInvariant, RequestsHold, RequestOK
<1> QED BY <1>1, <1>2, <1>3, OthersHold

(* Rows that are touched while threads stay as they were. *)
LEMMA TouchingHolds ==
    ASSUME EconomyInvariant, UNCHANGED moneyVars, WorldHolds', denied' = denied,
           UNCHANGED <<pc, attempt, snap, answer>>, NEW rows, Touch(rows)
    PROVE  EconomyInvariant'
<1>1. MoneyHolds' /\ LedgerGrows /\ DOMAIN ledger' \ DOMAIN ledger = {}
  BY MoneyStays DEF EconomyInvariant
<1>2. TouchFor(rows, Running)
  BY DEF Touch
<1>3. \A r \in Requests : Marked(r)
  BY <1>1, <1>2, TouchMarks DEF Marked, Running
<1> QED BY <1>1, <1>2, <1>3, TouchMarks, OthersHold

LEMMA deactivateHolds ==
    ASSUME EconomyInvariant, NEW u \in Users, deactivate(u)
    PROVE  EconomyInvariant'
<1>1. WorldHolds' /\ denied' = denied
  BY DEF deactivate, EconomyInvariant, WorldHolds
<1> QED BY <1>1, TouchingHolds DEF deactivate

LEMMA deleteTargetHolds ==
    ASSUME EconomyInvariant, NEW t \in Targets, deleteTarget(t)
    PROVE  EconomyInvariant'
<1>1. WorldHolds' /\ denied' = denied
  BY DEF deleteTarget, EconomyInvariant, WorldHolds
<1> QED BY <1>1, TouchingHolds DEF deleteTarget

LEMMA setVisibilityHolds ==
    ASSUME EconomyInvariant, NEW t \in Targets, setVisibility(t)
    PROVE  EconomyInvariant'
<1>1. MoneyHolds' /\ LedgerGrows /\ DOMAIN ledger' \ DOMAIN ledger = {}
  BY MoneyStays DEF setVisibility, EconomyInvariant
<1>2. WorldHolds'
  BY DEF setVisibility, EconomyInvariant, WorldHolds
<1>3. TouchFor({TargetRow(t)}, Running) /\ denied' \ denied \subseteq {t}
  BY DEF setVisibility, Touch
<1>4. ASSUME NEW r \in Requests
      PROVE  Marked(r)
  <2>1. r.kind = "THREAD" => TargetRow(r.target) \in LockedRows(r)
    BY DEF LockedRows
  <2> QED BY <1>1, <1>3, <2>1, TouchMarks DEF Marked, Running
<1> QED BY <1>1, <1>2, <1>3, <1>4, TouchMarks, OthersHold DEF setVisibility

(* The daily floor is two points, or nothing. *)
LEMMA FloorOfTheDay ==
    ASSUME NEW p, p.experience \in Nat, NEW g, g.type = "DAILY_CHECK_IN"
    PROVE  /\ Awarded(p, g).experience = p.experience + 2
           /\ grantInTransaction(p, g) = p \/ grantInTransaction(p, g).experience = p.experience + 2
<1>1. Awarded(p, g).experience = p.experience + 2
  BY EconomyAssumption DEF Awarded
<1> QED BY <1>1 DEF grantInTransaction

LEMMA dailyActivityHolds ==
    ASSUME EconomyInvariant, NEW u \in Users, dailyActivity(u)
    PROVE  EconomyInvariant'
<1> DEFINE grant == GrantInput(u, "DAILY_CHECK_IN", <<"daily-activity", u, today>>, today)
           more == Awarded(prog[u], grant)
<1>1. grant.type = "DAILY_CHECK_IN" /\ prog[u].experience \in Nat
  BY DEF GrantInput, EconomyInvariant, WorldHolds
<1>2. more.experience \in Nat
  BY <1>1, FloorOfTheDay
<1>3. /\ prog' = [prog EXCEPT ![u] = more] /\ Touch({UserRow(u)}) /\ UNCHANGED moneyVars
      /\ UNCHANGED <<plot, today, inactive, gone, denied, blocked>>
      /\ UNCHANGED <<pc, attempt, snap, answer>>
  BY DEF dailyActivity
<1> HIDE DEF more, grant
<1>4. WorldHolds'
  BY <1>2, <1>3 DEF EconomyInvariant, WorldHolds
<1> QED BY <1>3, <1>4, TouchingHolds

(* A request of its own: the others do not notice. *)
LEMMA OneRequestHolds ==
    ASSUME EconomyInvariant, NEW r \in Requests, UNCHANGED moneyVars, UNCHANGED worldVars,
           pc' \in [Requests -> Places], attempt' \in [Requests -> 0..MaxAttempts],
           snap' \in [Requests -> Snapshots], answer' \in [Requests -> Nat],
           dirty' = [s \in Requests |-> dirty'[s]],
           \A s \in Requests \ {r} : SameRequest(s) /\ dirty'[s] \subseteq LockedRows(s)
                                     /\ (pc[s] = "in_tx" => dirty[s] \subseteq dirty'[s]),
           RequestOK(r)'
    PROVE  EconomyInvariant'
<1>1. MoneyHolds' /\ LedgerGrows /\ DOMAIN ledger' \ DOMAIN ledger = {}
  BY MoneyStays DEF EconomyInvariant
<1>2. WorldHolds' /\ denied' = denied
  BY DEF EconomyInvariant, WorldHolds, worldVars
<1>3. \A s \in Requests \ {r} : Marked(s)
  BY <1>1, <1>2 DEF Marked
<1>4. \A s \in Requests : RequestOK(s)'
  BY <1>1, <1>3, OvertakenRequest
<1> QED BY <1>1, <1>2, <1>4 DEF EconomyInvariant, RequestsHold

-------------------------------------------------------------------------------
(* Steps of a request that move no money *)

LEMMA RequestTypes ==
    ASSUME EconomyInvariant
    PROVE  /\ pc \in [Requests -> Places] /\ attempt \in [Requests -> 0..MaxAttempts]
           /\ snap \in [Requests -> Snapshots] /\ answer \in [Requests -> Nat]
           /\ dirty = [r \in Requests |-> dirty[r]]
           /\ \A r \in Requests : RequestOK(r)
           /\ IsList(ledger) /\ MaxAttempts \in Nat \ {0} /\ 0 \in 0..MaxAttempts
           /\ NoSnapshot \in Snapshots
<1>1. NoSnapshot \in Snapshots
  BY DEF NoSnapshot, Snapshots
<1> QED BY <1>1, EconomyAssumption DEF EconomyInvariant, RequestsHold, MoneyHolds

(* A request ends with a payment of its own, or without one. *)
LEMMA FinishFits ==
    ASSUME EconomyInvariant, NEW r \in Requests, NEW outcome \in Outcomes, NEW n \in Nat,
           Finish(r, outcome, n), outcome = "paid" <=> n # 0, IsList(ledger'),
           outcome = "paid" =>
             /\ n \in DOMAIN ledger' /\ ledger'[n].type = "TIP" /\ ledger'[n].sender = r.sender
             /\ ledger'[n].key = r.key /\ ledger'[n].hash = requestHash(r),
           dirty'[r] \subseteq LockedRows(r)
    PROVE  /\ RequestOK(r)'
           /\ pc' \in [Requests -> Places] /\ attempt' \in [Requests -> 0..MaxAttempts]
           /\ snap' \in [Requests -> Snapshots] /\ answer' \in [Requests -> Nat]
           /\ \A s \in Requests \ {r} : SameRequest(s)
<1>1. /\ pc' = [pc EXCEPT ![r] = outcome] /\ answer' = [answer EXCEPT ![r] = n]
      /\ attempt' = [attempt EXCEPT ![r] = 0] /\ snap' = [snap EXCEPT ![r] = NoSnapshot]
  BY DEF Finish
<1>2. /\ pc' \in [Requests -> Places] /\ attempt' \in [Requests -> 0..MaxAttempts]
      /\ snap' \in [Requests -> Snapshots] /\ answer' \in [Requests -> Nat]
      /\ pc'[r] = outcome /\ answer'[r] = n /\ attempt'[r] = 0 /\ snap'[r] = NoSnapshot
  BY <1>1, RequestTypes DEF Places
<1>3. \A s \in Requests \ {r} : SameRequest(s)
  BY <1>1, RequestTypes DEF SameRequest
<1>4. outcome \notin {"new", "prepared", "begin", "in_tx"}
  BY DEF Outcomes
<1>5. AttemptFits(r)'
  BY <1>2, <1>4 DEF AttemptFits
<1>6. /\ Len(ledger') \in Nat /\ DOMAIN ledger' = 1..Len(ledger')
  BY Lists
<1>7. AnswerFits(r)'
  BY <1>2, <1>6 DEF AnswerFits
<1>8. snap'[r].ledger \in 0..Len(ledger')
  BY <1>2, <1>6 DEF NoSnapshot
<1> QED BY <1>2, <1>3, <1>5, <1>7, <1>8 DEF RequestOK

(* The earlier payment is a row of the sender with the key. *)
LEMMA ReplayFits ==
    ASSUME EconomyInvariant, NEW r \in Requests, NEW n \in 0..Len(ledger), AnswerReplay(r, n),
           UNCHANGED moneyVars, dirty'[r] \subseteq LockedRows(r)
    PROVE  /\ RequestOK(r)'
           /\ pc' \in [Requests -> Places] /\ attempt' \in [Requests -> 0..MaxAttempts]
           /\ snap' \in [Requests -> Snapshots] /\ answer' \in [Requests -> Nat]
           /\ \A s \in Requests \ {r} : SameRequest(s)
<1>1. PICK i \in ReplayIn(r, n) :
        IF ledger[i].hash = requestHash(r) THEN Finish(r, "paid", i) ELSE Finish(r, "refused", 0)
  BY DEF AnswerReplay
<1>2. ledger' = ledger /\ IsList(ledger) /\ Len(ledger) \in Nat /\ DOMAIN ledger = 1..Len(ledger)
  BY RequestTypes, Lists DEF moneyVars
<1>3. /\ i \in 1..n /\ i \in DOMAIN ledger /\ i \in Nat /\ i # 0
      /\ ledger[i].type = "TIP" /\ ledger[i].sender = r.sender /\ ledger[i].key = r.key
  BY <1>2 DEF ReplayIn
<1>4. CASE ledger[i].hash = requestHash(r)
  BY <1>1, <1>2, <1>3, <1>4, FinishFits DEF Outcomes
<1>5. CASE ledger[i].hash # requestHash(r)
  BY <1>1, <1>2, <1>5, FinishFits DEF Outcomes
<1> QED BY <1>4, <1>5

LEMMA RefusalFits ==
    ASSUME EconomyInvariant, NEW r \in Requests, NEW outcome \in {"refused", "conflict"}, Finish(r, outcome, 0),
           UNCHANGED moneyVars, dirty'[r] \subseteq LockedRows(r)
    PROVE  /\ RequestOK(r)'
           /\ pc' \in [Requests -> Places] /\ attempt' \in [Requests -> 0..MaxAttempts]
           /\ snap' \in [Requests -> Snapshots] /\ answer' \in [Requests -> Nat]
           /\ \A s \in Requests \ {r} : SameRequest(s)
<1>1. ledger' = ledger /\ IsList(ledger)
  BY RequestTypes DEF moneyVars
<1> QED BY <1>1, FinishFits DEF Outcomes

(* Steps before the transaction change no row. *)
LEMMA QuietRequestHolds ==
    ASSUME EconomyInvariant, NEW r \in Requests, UNCHANGED <<moneyVars, worldVars, dirty>>,
           pc' \in [Requests -> Places], attempt' \in [Requests -> 0..MaxAttempts],
           snap' \in [Requests -> Snapshots], answer' \in [Requests -> Nat],
           \A s \in Requests \ {r} : SameRequest(s), RequestOK(r)'
    PROVE  EconomyInvariant'
<1>1. \A s \in Requests : dirty'[s] \subseteq LockedRows(s) /\ dirty[s] \subseteq dirty'[s]
  BY RequestTypes DEF RequestOK
<1>2. dirty' = [s \in Requests |-> dirty'[s]]
  BY RequestTypes
<1> QED BY <1>1, <1>2, OneRequestHolds

LEMMA ContinueFits ==
    ASSUME EconomyInvariant, NEW r \in Requests, NEW next \in {"prepared", "begin"}, Continue(r, next),
           ledger' = ledger, dirty' = dirty, pc[r] \in {"new", "prepared"}, r.amount >= 2,
           next = "begin" => r.sender # r.recipient
    PROVE  /\ RequestOK(r)'
           /\ pc' \in [Requests -> Places] /\ attempt' \in [Requests -> 0..MaxAttempts]
           /\ snap' \in [Requests -> Snapshots] /\ answer' \in [Requests -> Nat]
           /\ \A s \in Requests \ {r} : SameRequest(s)
<1>1. pc' = [pc EXCEPT ![r] = next] /\ answer' = answer /\ attempt' = attempt /\ snap' = snap
  BY DEF Continue
<1>2. pc' \in [Requests -> Places] /\ pc'[r] = next
  BY <1>1, RequestTypes DEF Places
<1>3. \A s \in Requests \ {r} : SameRequest(s)
  BY <1>1, RequestTypes DEF SameRequest
<1>4. RequestOK(r) /\ attempt[r] = 0 /\ attempt[r] < MaxAttempts /\ answer[r] = 0
  <2>1. RequestOK(r) /\ attempt[r] = 0 /\ answer[r] = 0
    BY RequestTypes DEF RequestOK, AttemptFits, AnswerFits
  <2>2. 0 < MaxAttempts
    BY EconomyAssumption
  <2> QED BY <2>1, <2>2
<1>5. AttemptFits(r)' /\ AnswerFits(r)'
  BY <1>1, <1>2, <1>4 DEF RequestOK, AttemptFits, AnswerFits
<1> QED BY <1>1, <1>2, <1>3, <1>4, <1>5, RequestTypes DEF RequestOK

LEMMA prepareTipHolds ==
    ASSUME EconomyInvariant, NEW r \in Requests, prepareTip(r)
    PROVE  EconomyInvariant'
<1>1. UNCHANGED <<moneyVars, worldVars, dirty>> /\ pc[r] = "new" /\ dirty' = dirty /\ ledger' = ledger
  BY DEF prepareTip, moneyVars
<1>2. dirty'[r] \subseteq LockedRows(r)
  BY <1>1, RequestTypes DEF RequestOK
<1>3. CASE Finish(r, "refused", 0)
  BY <1>1, <1>2, <1>3, RefusalFits, QuietRequestHolds
<1>4. CASE AnswerReplay(r, Len(ledger))
  <2>1. Len(ledger) \in 0..Len(ledger)
    BY RequestTypes, Lists
  <2> QED BY <1>1, <1>2, <1>4, <2>1, ReplayFits, QuietRequestHolds
<1>5. CASE Continue(r, "prepared") /\ ~(r.amount < 2)
  <2>1. r.amount >= 2
    BY <1>5, EconomyAssumption
  <2> QED BY <1>1, <1>5, <2>1, ContinueFits, QuietRequestHolds
<1> QED BY <1>3, <1>4, <1>5 DEF prepareTip

LEMMA lookAtTargetHolds ==
    ASSUME EconomyInvariant, NEW r \in Requests, lookAtTarget(r)
    PROVE  EconomyInvariant'
<1>1. UNCHANGED <<moneyVars, worldVars, dirty>> /\ pc[r] = "prepared" /\ dirty' = dirty /\ ledger' = ledger
  BY DEF lookAtTarget, moneyVars
<1>2. dirty'[r] \subseteq LockedRows(r) /\ r.amount >= 2
  BY <1>1, RequestTypes DEF RequestOK, AttemptFits
<1>3. CASE Finish(r, "refused", 0)
  BY <1>1, <1>2, <1>3, RefusalFits, QuietRequestHolds
<1>4. CASE Continue(r, "begin") /\ r.sender # r.recipient
  BY <1>1, <1>2, <1>4, ContinueFits, QuietRequestHolds
<1> QED BY <1>3, <1>4 DEF lookAtTarget

(* With the snapshot everything is as it is: there is nothing to mark.     *)
LEMMA beginTipHolds ==
    ASSUME EconomyInvariant, NEW r \in Requests, beginTip(r)
    PROVE  EconomyInvariant'
<1> DEFINE sight == [ledger |-> Len(ledger), blocked |-> blocked, denied |-> denied]
<1>1. /\ pc[r] = "begin" /\ pc' = [pc EXCEPT ![r] = "in_tx"] /\ attempt' = [attempt EXCEPT ![r] = attempt[r] + 1]
      /\ snap' = [snap EXCEPT ![r] = sight] /\ dirty' = [dirty EXCEPT ![r] = {}]
      /\ UNCHANGED moneyVars /\ UNCHANGED worldVars /\ answer' = answer
      /\ ledger' = ledger /\ denied' = denied
  BY RequestTypes DEF beginTip, moneyVars, worldVars
<1>2. Len(ledger) \in Nat /\ DOMAIN ledger = 1..Len(ledger)
  BY RequestTypes, Lists
<1>3. sight \in Snapshots
  <2>1. plot.hiding \subseteq Targets
    BY EconomyAssumption DEF PlotOf, EconomyInvariant, WorldHolds
  <2> QED BY <1>2, <2>1 DEF Snapshots, EconomyInvariant, WorldHolds
<1>4. sight.ledger = Len(ledger) /\ sight.denied = denied
  OBVIOUS
<1> HIDE DEF sight
<1>5. attempt[r] < MaxAttempts /\ r.amount >= 2 /\ r.sender # r.recipient /\ answer[r] = 0
  BY <1>1, RequestTypes DEF RequestOK, AttemptFits, AnswerFits
<1>6. attempt[r] + 1 \in 0..MaxAttempts
  BY <1>5, RequestTypes
<1>7. /\ pc' \in [Requests -> Places] /\ attempt' \in [Requests -> 0..MaxAttempts]
      /\ snap' \in [Requests -> Snapshots] /\ answer' \in [Requests -> Nat]
      /\ pc'[r] = "in_tx" /\ snap'[r] = sight /\ dirty'[r] = {} /\ dirty' = [s \in Requests |-> dirty'[s]]
      /\ \A s \in Requests \ {r} : SameRequest(s) /\ dirty'[s] = dirty[s]
  BY <1>1, <1>3, <1>6, RequestTypes DEF Places, SameRequest
<1>8. AttemptFits(r)'
  <2>1. \A i \in DOMAIN ledger : ~(i > Len(ledger))
    BY <1>2
  <2> QED BY <1>1, <1>4, <1>5, <1>7, <2>1 DEF AttemptFits
<1>9. RequestOK(r)'
  BY <1>1, <1>2, <1>4, <1>5, <1>7, <1>8 DEF RequestOK, AnswerFits
<1>10. \A s \in Requests \ {r} : dirty'[s] \subseteq LockedRows(s)
  BY <1>7, RequestTypes DEF RequestOK
<1> QED BY <1>1, <1>7, <1>9, <1>10, OneRequestHolds

(* A transaction that ends leaves its rows. *)
LEMMA EndedTransaction ==
    ASSUME EconomyInvariant, NEW r \in Requests, UNCHANGED <<moneyVars, worldVars>>,
           TouchFor({}, Running \ {r}),
           pc' \in [Requests -> Places], attempt' \in [Requests -> 0..MaxAttempts],
           snap' \in [Requests -> Snapshots], answer' \in [Requests -> Nat],
           \A s \in Requests \ {r} : SameRequest(s), RequestOK(r)'
    PROVE  EconomyInvariant'
<1>1. \A s \in Requests \ {r} : dirty'[s] \subseteq LockedRows(s) /\ (pc[s] = "in_tx" => dirty[s] \subseteq dirty'[s])
  BY TouchMarks DEF Running
<1> QED BY <1>1, TouchMarks, OneRequestHolds

LEMMA conflictTipHolds ==
    ASSUME EconomyInvariant, NEW r \in Requests, conflictTip(r)
    PROVE  EconomyInvariant'
<1>1. /\ pc[r] = "in_tx" /\ TouchFor({}, Running \ {r}) /\ UNCHANGED <<moneyVars, worldVars>>
      /\ UNCHANGED moneyVars /\ ledger' = ledger
  BY DEF conflictTip, moneyVars
<1>2. dirty'[r] \subseteq LockedRows(r)
  BY <1>1, TouchMarks
<1>3. CASE attempt[r] < MaxAttempts
  <2>1. /\ pc' = [pc EXCEPT ![r] = "begin"] /\ snap' = [snap EXCEPT ![r] = NoSnapshot]
        /\ answer' = answer /\ attempt' = attempt
    BY <1>3 DEF conflictTip
  <2>2. /\ pc' \in [Requests -> Places] /\ snap' \in [Requests -> Snapshots]
        /\ pc'[r] = "begin" /\ snap'[r] = NoSnapshot /\ \A s \in Requests \ {r} : SameRequest(s)
    BY <2>1, RequestTypes DEF Places, SameRequest
  <2>3. r.amount >= 2 /\ r.sender # r.recipient /\ answer[r] = 0
    BY <1>1, RequestTypes DEF RequestOK, AttemptFits, AnswerFits
  <2>4. Len(ledger) \in Nat
    BY RequestTypes, Lists
  <2>5. RequestOK(r)'
    BY <1>1, <1>2, <1>3, <2>1, <2>2, <2>3, <2>4 DEF RequestOK, AttemptFits, AnswerFits, NoSnapshot
  <2> QED BY <1>1, <2>1, <2>2, <2>5, RequestTypes, EndedTransaction
<1>4. CASE ~(attempt[r] < MaxAttempts)
  <2>1. Finish(r, "conflict", 0)
    BY <1>4 DEF conflictTip
  <2> QED BY <1>1, <1>2, <2>1, RefusalFits, EndedTransaction
<1> QED BY <1>3, <1>4

-------------------------------------------------------------------------------
(* Ledger rows *)

(* splitTipAmount loses nothing. *)
LEMMA SplitAddsUp ==
    ASSUME NEW gross \in Int, gross >= 2
    PROVE  LET share == splitTipAmount(gross)
           IN  /\ share.recipientAmount \in Nat /\ share.platformAmount \in Nat
               /\ gross = share.recipientAmount + share.platformAmount
<1> DEFINE recipientAmount == (gross * 85) \div 100
<1>1. recipientAmount \in Int /\ recipientAmount >= 0 /\ recipientAmount <= gross
  OBVIOUS
<1> HIDE DEF recipientAmount
<1>2. /\ splitTipAmount(gross).recipientAmount = recipientAmount
      /\ splitTipAmount(gross).platformAmount = gross - recipientAmount
  BY DEF splitTipAmount, recipientAmount
<1> QED BY <1>1, <1>2

TipFields ==
    {"type", "sender", "recipient", "platform", "kind", "targetUser", "gross", "recipientAmount",
     "platformAmount", "senderAfter", "recipientAfter", "platformAfter", "tipTotalAfter", "tipCountAfter",
     "key", "hash"}

(* The columns of a tip. *)
LEMMA TipRowFields ==
    ASSUME NEW r
    PROVE  LET row == TipRow(r)
               share == splitTipAmount(r.amount)
           IN  /\ DOMAIN row = TipFields \cup (IF r.kind = "USER" THEN {} ELSE {"target", "targetTotalAfter"})
               /\ row.type = "TIP" /\ row.sender = r.sender /\ row.recipient = r.recipient
               /\ row.platform = Platform /\ row.kind = r.kind /\ row.targetUser = r.recipient
               /\ row.gross = r.amount
               /\ row.recipientAmount = share.recipientAmount /\ row.platformAmount = share.platformAmount
               /\ row.senderAfter = balance[r.sender] - r.amount
               /\ row.recipientAfter = balance[r.recipient] + share.recipientAmount
               /\ row.platformAfter = balance[Platform] + share.platformAmount
               /\ row.tipTotalAfter = tipTotal[r.recipient] + r.amount
               /\ row.tipCountAfter = tipCount[r.recipient] + 1
               /\ row.key = r.key /\ row.hash = requestHash(r)
               /\ r.kind # "USER" =>
                    /\ row.target = r.target
                    /\ row.targetTotalAfter = targetTotal[r.target] + r.amount
<1> DEFINE share == splitTipAmount(r.amount)
           own == [type |-> "TIP", sender |-> r.sender, recipient |-> r.recipient, platform |-> Platform,
                   kind |-> r.kind, targetUser |-> r.recipient, gross |-> r.amount,
                   recipientAmount |-> share.recipientAmount, platformAmount |-> share.platformAmount,
                   senderAfter |-> balance[r.sender] - r.amount,
                   recipientAfter |-> balance[r.recipient] + share.recipientAmount,
                   platformAfter |-> balance[Platform] + share.platformAmount,
                   tipTotalAfter |-> tipTotal[r.recipient] + r.amount,
                   tipCountAfter |-> tipCount[r.recipient] + 1,
                   key |-> r.key, hash |-> requestHash(r)]
           rest == TargetColumns(r)
<1>1. TipRow(r) = Joined(own, rest)
  BY DEF TipRow, TipColumns
<1>2. DOMAIN own = TipFields
  BY DEF TipFields
<1>3. /\ DOMAIN rest = IF r.kind = "USER" THEN {} ELSE {"target", "targetTotalAfter"}
      /\ r.kind # "USER" =>
           rest["target"] = r.target /\ rest["targetTotalAfter"] = targetTotal[r.target] + r.amount
  BY DEF TargetColumns
<1>4. /\ own["type"] = "TIP" /\ own["sender"] = r.sender /\ own["recipient"] = r.recipient
      /\ own["platform"] = Platform /\ own["kind"] = r.kind /\ own["targetUser"] = r.recipient
      /\ own["gross"] = r.amount
      /\ own["recipientAmount"] = share.recipientAmount /\ own["platformAmount"] = share.platformAmount
      /\ own["senderAfter"] = balance[r.sender] - r.amount
      /\ own["recipientAfter"] = balance[r.recipient] + share.recipientAmount
      /\ own["platformAfter"] = balance[Platform] + share.platformAmount
      /\ own["tipTotalAfter"] = tipTotal[r.recipient] + r.amount
      /\ own["tipCountAfter"] = tipCount[r.recipient] + 1
      /\ own["key"] = r.key /\ own["hash"] = requestHash(r)
  OBVIOUS
<1> HIDE DEF own, rest, share
<1>5. /\ DOMAIN Joined(own, rest) = DOMAIN own \cup DOMAIN rest
      /\ \A x \in DOMAIN own : Joined(own, rest)[x] = own[x]
      /\ \A x \in DOMAIN rest \ DOMAIN own : Joined(own, rest)[x] = rest[x]
  BY DEF Joined
<1>6. /\ r.kind # "USER" => {"target", "targetTotalAfter"} \subseteq DOMAIN rest \ DOMAIN own
      /\ \A x \in TipFields : x \in DOMAIN own
  BY <1>2, <1>3 DEF TipFields
<1> DEFINE row == Joined(own, rest)
<1>7. \A x \in TipFields : row[x] = own[x]
  BY <1>5, <1>6
<1>8. r.kind # "USER" => row["target"] = rest["target"] /\ row["targetTotalAfter"] = rest["targetTotalAfter"]
  BY <1>5, <1>6
<1>9. DOMAIN row = TipFields \cup (IF r.kind = "USER" THEN {} ELSE {"target", "targetTotalAfter"})
  BY <1>2, <1>3, <1>5
<1> HIDE DEF row
<1>10. TipRow(r) = row
  BY <1>1 DEF row
<1> QED BY <1>3, <1>4, <1>7, <1>8, <1>9, <1>10 DEF TipFields, share

(* The totals a tip speaks of. *)
LEMMA EntriesOfTip ==
    ASSUME NEW row, row.type = "TIP", row.sender # row.recipient, row.sender # Platform, row.recipient # Platform
    PROVE  LET E == Entries(row)
           IN  /\ DOMAIN E = {<<"balance", row.sender>>, <<"balance", row.recipient>>, <<"balance", Platform>>,
                              <<"tips", row.recipient>>, <<"count", row.recipient>>}
                             \cup (IF row.kind = "USER" THEN {} ELSE {<<"target", row.target>>})
               /\ E[<<"balance", row.sender>>] = Entry(-row.gross, row.senderAfter)
               /\ E[<<"balance", row.recipient>>] = Entry(row.recipientAmount, row.recipientAfter)
               /\ E[<<"balance", Platform>>] = Entry(row.platformAmount, row.platformAfter)
               /\ E[<<"tips", row.recipient>>] = Entry(row.gross, row.tipTotalAfter)
               /\ E[<<"count", row.recipient>>] = Entry(1, row.tipCountAfter)
               /\ row.kind # "USER" => E[<<"target", row.target>>] = Entry(row.gross, row.targetTotalAfter)
  BY DEF Entries

(* The totals a check-in speaks of. *)
LEMMA EntriesOfCheckIn ==
    ASSUME NEW row, row.type = "DAILY_CHECK_IN"
    PROVE  LET E == Entries(row)
           IN  /\ DOMAIN E = {<<"balance", row.recipient>>, <<"tips", row.recipient>>, <<"count", row.recipient>>}
               /\ E[<<"balance", row.recipient>>] = Entry(row.recipientAmount, row.recipientAfter)
               /\ E[<<"tips", row.recipient>>] = Entry(0, row.tipTotalAfter)
               /\ E[<<"count", row.recipient>>] = Entry(0, row.tipCountAfter)
  BY DEF Entries

LEMMA TotalsAre ==
    /\ DOMAIN Totals = ({"balance"} \X Wallets) \cup ({"tips", "count"} \X Users) \cup ({"target"} \X Targets)
    /\ \A w \in Wallets : Totals[<<"balance", w>>] = balance[w]
    /\ \A u \in Users : Totals[<<"tips", u>>] = tipTotal[u] /\ Totals[<<"count", u>>] = tipCount[u]
    /\ \A t \in Targets : Totals[<<"target", t>>] = targetTotal[t]
  BY DEF Totals

Spoken(a) == {i \in DOMAIN ledger : a \in DOMAIN Entries(ledger[i])}
EndOf(a, S) == IF S = {} THEN 0 ELSE Entries(ledger[Max(S)])[a].after

LEMMA LedgerExplainsIs ==
    LedgerExplainsTotals <=>
      \A a \in DOMAIN Totals :
        /\ Totals[a] = EndOf(a, Spoken(a))
        /\ \A i \in Spoken(a) :
             Entries(ledger[i])[a].after = EndOf(a, {j \in Spoken(a) : j < i}) + Entries(ledger[i])[a].delta
  BY DEF LedgerExplainsTotals, Spoken, EndOf

(* A row that continues the totals it speaks of keeps the ledger explaining *)
(* them all.                                                               *)
LEMMA RowExplains ==
    ASSUME MoneyHolds, NEW row, Entered(row),
           \A a \in DOMAIN Totals :
             IF a \in DOMAIN Entries(row)
             THEN /\ Entries(row)[a].after = Totals'[a]
                  /\ Totals'[a] = Totals[a] + Entries(row)[a].delta
             ELSE Totals'[a] = Totals[a]
    PROVE  LedgerExplainsTotals'
<1> DEFINE new == Len(ledger) + 1
<1>1. IsList(ledger) /\ Len(ledger) \in Nat /\ DOMAIN ledger = 1..Len(ledger) /\ new \notin DOMAIN ledger
  BY Lists DEF MoneyHolds
<1>2. /\ DOMAIN ledger' = DOMAIN ledger \cup {new} /\ ledger'[new] = row
      /\ \A i \in DOMAIN ledger : ledger'[i] = ledger[i]
  BY <1>1, ListsGrow DEF Entered
<1>3. new \in Int /\ \A i \in DOMAIN ledger : i \in Int /\ i < new
  BY <1>1
<1> HIDE DEF new
<1>4. DOMAIN Totals' = DOMAIN Totals
  BY TotalsAre DEF Totals
<1>5. SUFFICES ASSUME NEW a \in DOMAIN Totals
               PROVE  /\ Totals'[a] = EndOf(a, Spoken(a))'
                      /\ \A i \in Spoken(a)' :
                           Entries(ledger'[i])[a].after
                             = EndOf(a, {j \in Spoken(a) : j < i})' + Entries(ledger'[i])[a].delta
  BY <1>4 DEF LedgerExplainsTotals, Spoken, EndOf
<1> DEFINE old == Spoken(a)
<1>6. old \subseteq DOMAIN ledger /\ old \in SUBSET Int /\ IsFiniteSet(old)
  <2>1. old \subseteq DOMAIN ledger
    BY DEF Spoken
  <2>2. IsFiniteSet(1..Len(ledger))
    BY <1>1, FS_Interval
  <2>3. IsFiniteSet(old)
    BY <1>1, <2>1, <2>2, FS_Subset
  <2> QED BY <1>3, <2>1, <2>3
<1>7. /\ Totals[a] = EndOf(a, old)
      /\ \A i \in old : Entries(ledger[i])[a].after = EndOf(a, {j \in old : j < i}) + Entries(ledger[i])[a].delta
  BY LedgerExplainsIs DEF MoneyHolds
<1>8. Spoken(a)' = IF a \in DOMAIN Entries(row) THEN old \cup {new} ELSE old
  BY <1>1, <1>2 DEF Spoken, new
<1> DEFINE Ends(S) == IF S = {} THEN 0 ELSE Entries(ledger'[Max(S)])[a].after
<1> HIDE DEF old
<1>9. \A S \in SUBSET old : Ends(S) = EndOf(a, S)
  <2> SUFFICES ASSUME NEW S \in SUBSET old, S # {} PROVE Ends(S) = EndOf(a, S)
    BY DEF EndOf
  <2>1. S \in SUBSET Int /\ IsFiniteSet(S)
    BY <1>6, FS_Subset
  <2>2. Max(S) \in DOMAIN ledger
    BY <1>6, <2>1, MaxOfFinite
  <2> QED BY <1>2, <2>2 DEF EndOf
<1>10. \A S : EndOf(a, S)' = IF S' = {} THEN 0 ELSE Entries(ledger'[Max(S')])[a].after
  BY DEF EndOf
<1>11. EndOf(a, Spoken(a))' = Ends(Spoken(a)')
  BY DEF EndOf
<1>12. \A i \in Spoken(a)' : EndOf(a, {j \in Spoken(a) : j < i})' = Ends({j \in Spoken(a)' : j < i})
  BY DEF EndOf
<1> HIDE DEF Ends
<1>13. \A i \in old : {j \in Spoken(a)' : j < i} = {j \in old : j < i}
  BY <1>3, <1>6, <1>8
<1>14. ASSUME NEW i \in old
       PROVE  Entries(ledger'[i])[a].after = Ends({j \in Spoken(a)' : j < i}) + Entries(ledger'[i])[a].delta
  <2>1. Ends({j \in Spoken(a)' : j < i}) = EndOf(a, {j \in old : j < i})
    BY <1>9, <1>13
  <2> QED BY <1>2, <1>6, <1>7, <2>1
<1>15. CASE a \notin DOMAIN Entries(row)
  BY <1>7, <1>8, <1>9, <1>11, <1>12, <1>14, <1>15
<1>16. CASE a \in DOMAIN Entries(row)
  <2>1. Spoken(a)' = old \cup {new}
    BY <1>8, <1>16
  <2>2. Max(old \cup {new}) = new
    <3>1. old \cup {new} \in SUBSET Int /\ IsFiniteSet(old \cup {new})
      BY <1>3, <1>6, FS_AddElement
    <3>2. Max(old \cup {new}) \in old \cup {new} /\ Max(old \cup {new}) >= new
      BY <3>1, MaxOfFinite
    <3>3. \A i \in old : i \in Int /\ i < new
      BY <1>3, <1>6
    <3> QED BY <1>3, <3>2, <3>3
  <2>3. Ends(Spoken(a)') = Entries(row)[a].after
    BY <1>2, <2>1, <2>2 DEF Ends
  <2>4. {j \in Spoken(a)' : j < new} = old
    <3>1. ~(new < new) /\ \A i \in old : i < new
      BY <1>3, <1>6
    <3> QED BY <2>1, <3>1
  <2>5. Ends({j \in Spoken(a)' : j < new}) = Totals[a]
    BY <1>7, <1>9, <2>4
  <2>6. Totals'[a] = EndOf(a, Spoken(a))'
    BY <1>11, <1>16, <2>3
  <2>7. Entries(ledger'[new])[a].after = Ends({j \in Spoken(a)' : j < new}) + Entries(ledger'[new])[a].delta
    BY <1>2, <1>16, <2>5
  <2>8. ASSUME NEW i \in Spoken(a)'
        PROVE  Entries(ledger'[i])[a].after
                 = EndOf(a, {j \in Spoken(a) : j < i})' + Entries(ledger'[i])[a].delta
    <3>1. i \in old \/ i = new
      BY <2>1
    <3>2. Entries(ledger'[i])[a].after = Ends({j \in Spoken(a)' : j < i}) + Entries(ledger'[i])[a].delta
      BY <1>14, <2>7, <3>1
    <3> QED BY <1>12, <3>2
  <2> QED BY <2>6, <2>8
<1> QED BY <1>15, <1>16

(* A row the database accepts leaves it with rows it accepts. *)
LEMMA RowAccepted ==
    ASSUME MoneyHolds, NEW row, Entered(row), checkIns \subseteq checkIns', TypeShape(row),
           NEW n, n = Len(ledger) + 1, TransactionRelations(n)',
           \A c \in checkIns' \ checkIns :
             /\ CheckInRelations(c)'
             /\ \A d \in checkIns : ~(d.user = c.user /\ d.date = c.date)
    PROVE  LedgerAccepts'
<1>1. IsList(ledger) /\ Len(ledger) \in Nat /\ DOMAIN ledger = 1..Len(ledger)
  BY Lists DEF MoneyHolds
<1>2. /\ DOMAIN ledger' = DOMAIN ledger \cup {n} /\ ledger'[n] = row
      /\ \A i \in DOMAIN ledger : ledger'[i] = ledger[i]
  BY <1>1, ListsGrow DEF Entered
<1>3. \A i \in DOMAIN ledger : TypeShape(ledger[i]) /\ TransactionRelations(i)
  BY DEF MoneyHolds, LedgerAccepts
<1>4. \A i \in DOMAIN ledger : TransactionRelations(i)'
  <2> SUFFICES ASSUME NEW i \in DOMAIN ledger PROVE TransactionRelations(i)'
    OBVIOUS
  <2>1. TransactionRelations(i) /\ ledger'[i] = ledger[i]
    BY <1>2, <1>3
  <2> QED BY <2>1 DEF TransactionRelations
<1>5. \A i \in DOMAIN ledger' : TypeShape(ledger'[i])
  BY <1>2, <1>3
<1>6. ASSUME NEW c \in checkIns
      PROVE  CheckInRelations(c)'
  <2>1. CheckInRelations(c) /\ c.entry \in DOMAIN ledger
    BY <1>1 DEF MoneyHolds, LedgerAccepts, CheckInRows
  <2>2. ledger'[c.entry] = ledger[c.entry]
    BY <1>2, <2>1
  <2> QED BY <2>1, <2>2 DEF CheckInRelations
<1> QED BY <1>2, <1>4, <1>5, <1>6 DEF LedgerAccepts

(* The totals, after a step. *)
LEMMA TotalsBecome ==
    /\ DOMAIN Totals' = DOMAIN Totals
    /\ \A w \in Wallets : Totals'[<<"balance", w>>] = balance'[w]
    /\ \A u \in Users : Totals'[<<"tips", u>>] = tipTotal'[u] /\ Totals'[<<"count", u>>] = tipCount'[u]
    /\ \A t \in Targets : Totals'[<<"target", t>>] = targetTotal'[t]
  BY DEF Totals

Grosses == [i \in DOMAIN ledger |-> ledger[i].gross]

(* What the check-ins brought in is a sum of numbers, over rows that stay. *)
LEMMA CheckInsAreFinite ==
    ASSUME MoneyHolds
    PROVE  /\ IsFiniteSet(Wallets) /\ IsFiniteSet(CheckInEntries) /\ CheckInEntries \subseteq DOMAIN ledger
           /\ \A i \in CheckInEntries : Grosses[i] \in Int
<1>1. IsFiniteSet(Wallets)
  BY EconomyAssumption, FS_AddElement DEF Wallets
<1>2. IsFiniteSet(DOMAIN ledger)
  <2>1. Len(ledger) \in Nat /\ DOMAIN ledger = 1..Len(ledger)
    BY Lists DEF MoneyHolds
  <2> QED BY <2>1, FS_Interval
<1>3. CheckInEntries \subseteq DOMAIN ledger
  BY DEF CheckInEntries
<1>4. IsFiniteSet(CheckInEntries)
  BY <1>2, <1>3, FS_Subset
<1>5. ASSUME NEW i \in CheckInEntries PROVE Grosses[i] \in Int
  <2>1. TypeShape(ledger[i]) /\ ledger[i].type = "DAILY_CHECK_IN"
    BY DEF MoneyHolds, LedgerAccepts, CheckInEntries
  <2>2. ledger[i].gross \in 1..3
    BY <2>1 DEF TypeShape
  <2> QED BY <1>3, <2>2 DEF Grosses
<1> QED BY <1>1, <1>3, <1>4, <1>5

(* A row that is no check-in and moves money only, or a check-in that puts *)
(* its gross amount into a wallet, conserves it.                           *)
LEMMA RowConserves ==
    ASSUME MoneyHolds, NEW row, Entered(row),
           IF row.type = "DAILY_CHECK_IN"
           THEN /\ row.gross \in Int
                /\ SumFunctionOnSet(balance', Wallets) = SumFunctionOnSet(balance, Wallets) + row.gross
           ELSE SumFunctionOnSet(balance', Wallets) = SumFunctionOnSet(balance, Wallets)
    PROVE  MoneyConserved'
<1> DEFINE new == Len(ledger) + 1
           old == CheckInEntries
           then == [i \in DOMAIN ledger' |-> ledger'[i].gross]
<1>1. IsList(ledger) /\ Len(ledger) \in Nat /\ DOMAIN ledger = 1..Len(ledger) /\ new \notin DOMAIN ledger
  BY Lists DEF MoneyHolds
<1>2. /\ DOMAIN ledger' = DOMAIN ledger \cup {new} /\ ledger'[new] = row
      /\ \A i \in DOMAIN ledger : ledger'[i] = ledger[i]
  BY <1>1, ListsGrow DEF Entered
<1>3. /\ IsFiniteSet(old) /\ old \subseteq DOMAIN ledger /\ new \notin old
      /\ \A i \in old : Grosses[i] \in Int
  BY <1>1, CheckInsAreFinite
<1> HIDE DEF new
<1>4. CheckInEntries' = IF row.type = "DAILY_CHECK_IN" THEN old \cup {new} ELSE old
  BY <1>1, <1>2 DEF CheckInEntries
<1>5. SumFunctionOnSet(balance, Wallets) = SumFunctionOnSet(Grosses, old)
  BY DEF MoneyHolds, MoneyConserved, Grosses
<1>6. then[new] = row.gross /\ \A i \in old : then[i] = Grosses[i]
  BY <1>2, <1>3 DEF Grosses
<1> HIDE DEF then, old
<1>7. SumFunctionOnSet(balance', Wallets) = SumFunctionOnSet(then, CheckInEntries')
  <2>1. CASE row.type = "DAILY_CHECK_IN"
    <3>1. SumFunctionOnSet(then, old \cup {new}) = SumFunctionOnSet(Grosses, old) + then[new]
      BY <1>3, <1>6, <2>1, SumGrows
    <3>2. CheckInEntries' = old \cup {new}
      BY <1>4, <2>1
    <3> QED BY <1>5, <1>6, <2>1, <3>1, <3>2
  <2>2. CASE row.type # "DAILY_CHECK_IN"
    <3>1. SumFunctionOnSet(Grosses, old) = SumFunctionOnSet(then, old)
      BY <1>3, <1>6, SumsAgree
    <3> QED BY <1>4, <1>5, <2>2, <3>1
  <2> QED BY <2>1, <2>2
<1> QED BY <1>7 DEF MoneyConserved, then

LEMMA checkInHolds ==
    ASSUME EconomyInvariant, NEW u \in Users, checkIn(u)
    PROVE  EconomyInvariant'
<1> DEFINE grant == GrantInput(u, "DAILY_CHECK_IN", <<"daily-check-in", u, today>>, today)
           granted == grantInTransaction(prog[u], grant)
           Row(reward) ==
             [type |-> "DAILY_CHECK_IN", recipient |-> u, gross |-> reward,
              recipientAmount |-> reward, platformAmount |-> 0,
              recipientAfter |-> balance[u] + reward,
              tipTotalAfter |-> tipTotal[u], tipCountAfter |-> tipCount[u], date |-> today]
           Fact(reward) ==
             [user |-> u, date |-> today, reward |-> reward, entry |-> Len(ledger) + 1,
              experience |-> granted.experience - prog[u].experience]
           rows == {WalletRow(u)} \cup IF granted = prog[u] THEN {} ELSE {UserRow(u)}
<1>1. PICK reward \in Rewards :
        /\ balance' = [balance EXCEPT ![u] = balance[u] + reward]
        /\ Entered(Row(reward))
        /\ checkIns' = checkIns \cup {Fact(reward)}
        /\ prog' = [prog EXCEPT ![u] = granted]
        /\ Touch(rows)
  BY DEF checkIn
<1>2. /\ ~checkedIn(u)
      /\ tipTotal' = tipTotal /\ tipCount' = tipCount /\ targetTotal' = targetTotal
      /\ UNCHANGED <<plot, today, inactive, gone, denied, blocked>>
      /\ UNCHANGED <<pc, attempt, snap, answer>>
  BY DEF checkIn
<1> DEFINE row == Row(reward)
           fact == Fact(reward)
<1>3. reward \in 1..3 /\ reward \in Nat
  BY EconomyAssumption
<1>4. prog[u].experience \in Nat /\ grant.type = "DAILY_CHECK_IN"
  BY DEF GrantInput, EconomyInvariant, WorldHolds
<1> HIDE DEF grant
<1>5. granted.experience \in Nat /\ granted.experience - prog[u].experience \in {0, 2}
  <2>1. granted = prog[u] \/ granted.experience = prog[u].experience + 2
    BY <1>4, FloorOfTheDay
  <2> QED BY <1>4, <2>1
<1> HIDE DEF granted, rows
<1>6. today \in 1..MaxDay
  <2>1. plot.days \in 1..MaxDay /\ today \in 1..plot.days /\ MaxDay \in Nat
    BY EconomyAssumption DEF PlotOf, EconomyInvariant, WorldHolds
  <2> QED BY <2>1
<1>7. /\ balance \in [Wallets -> Nat] /\ tipTotal \in [Users -> Nat] /\ tipCount \in [Users -> Nat]
      /\ targetTotal \in [Targets -> Nat] /\ u \in Wallets
      /\ IsList(ledger) /\ Len(ledger) \in Nat /\ DOMAIN ledger = 1..Len(ledger)
  BY Lists DEF EconomyInvariant, MoneyHolds, Wallets
<1>8. /\ DOMAIN row = {"type", "recipient", "gross", "recipientAmount", "platformAmount", "recipientAfter",
                       "tipTotalAfter", "tipCountAfter", "date"}
      /\ row.type = "DAILY_CHECK_IN" /\ row.recipient = u /\ row.gross = reward
      /\ row.recipientAmount = reward /\ row.platformAmount = 0
      /\ row.recipientAfter = balance[u] + reward
      /\ row.tipTotalAfter = tipTotal[u] /\ row.tipCountAfter = tipCount[u] /\ row.date = today
      /\ Entered(row)
  BY <1>1
<1>9. /\ fact.user = u /\ fact.date = today /\ fact.reward = reward /\ fact.entry = Len(ledger) + 1
      /\ fact.experience \in {0, 2} /\ fact \in CheckInRows
      /\ checkIns' = checkIns \cup {fact}
  BY <1>1, <1>5, <1>6, <1>7 DEF CheckInRows
<1> HIDE DEF row, fact
<1> DEFINE new == Len(ledger) + 1
<1>10. /\ IsList(ledger') /\ Len(ledger') = new
       /\ DOMAIN ledger' = DOMAIN ledger \cup {new} /\ ledger'[new] = row
       /\ \A i \in DOMAIN ledger : ledger'[i] = ledger[i]
  BY <1>7, <1>8, ListsGrow DEF Entered
<1>11. LedgerExplainsTotals'
  <2> DEFINE E == Entries(row)
  <2>1. /\ DOMAIN E = {<<"balance", u>>, <<"tips", u>>, <<"count", u>>}
        /\ E[<<"balance", u>>] = Entry(reward, balance[u] + reward)
        /\ E[<<"tips", u>>] = Entry(0, tipTotal[u])
        /\ E[<<"count", u>>] = Entry(0, tipCount[u])
    BY <1>8, EntriesOfCheckIn
  <2> HIDE DEF E
  <2>2. /\ balance'[u] = balance[u] + reward /\ \A w \in Wallets \ {u} : balance'[w] = balance[w]
        /\ tipTotal[u] \in Nat /\ tipCount[u] \in Nat
    BY <1>1, <1>7
  <2>3. ASSUME NEW a \in DOMAIN Totals
        PROVE  IF a \in DOMAIN Entries(row)
               THEN /\ Entries(row)[a].after = Totals'[a]
                    /\ Totals'[a] = Totals[a] + Entries(row)[a].delta
               ELSE Totals'[a] = Totals[a]
    <3>1. CASE a \in {"balance"} \X Wallets
      <4>1. PICK w \in Wallets : a = <<"balance", w>>
        BY <3>1
      <4>2. Totals[a] = balance[w] /\ Totals'[a] = balance'[w] /\ (a \in DOMAIN E <=> w = u)
        BY <2>1, <4>1, TotalsAre, TotalsBecome
      <4>3. w = u => E[a] = Entry(reward, balance[u] + reward)
        BY <2>1, <4>1
      <4>4. w = u => E[a].after = balance[u] + reward /\ E[a].delta = reward
        BY <4>3 DEF Entry
      <4> QED BY <2>2, <4>2, <4>4 DEF E
    <3>2. CASE a \in {"tips"} \X Users
      <4>1. PICK v \in Users : a = <<"tips", v>>
        BY <3>2
      <4>2. Totals[a] = tipTotal[v] /\ Totals'[a] = tipTotal[v] /\ (a \in DOMAIN E <=> v = u)
        BY <1>2, <2>1, <4>1, TotalsAre, TotalsBecome
      <4>3. v = u => E[a] = Entry(0, tipTotal[u])
        BY <2>1, <4>1
      <4>4. v = u => E[a].after = tipTotal[u] /\ E[a].delta = 0
        BY <4>3 DEF Entry
      <4> QED BY <2>2, <4>2, <4>4 DEF E
    <3>3. CASE a \in {"count"} \X Users
      <4>1. PICK v \in Users : a = <<"count", v>>
        BY <3>3
      <4>2. Totals[a] = tipCount[v] /\ Totals'[a] = tipCount[v] /\ (a \in DOMAIN E <=> v = u)
        BY <1>2, <2>1, <4>1, TotalsAre, TotalsBecome
      <4>3. v = u => E[a] = Entry(0, tipCount[u])
        BY <2>1, <4>1
      <4>4. v = u => E[a].after = tipCount[u] /\ E[a].delta = 0
        BY <4>3 DEF Entry
      <4> QED BY <2>2, <4>2, <4>4 DEF E
    <3>4. CASE a \in {"target"} \X Targets
      <4>1. PICK t \in Targets : a = <<"target", t>>
        BY <3>4
      <4>2. Totals[a] = targetTotal[t] /\ Totals'[a] = targetTotal[t] /\ a \notin DOMAIN E
        BY <1>2, <2>1, <4>1, TotalsAre, TotalsBecome
      <4> QED BY <4>2 DEF E
    <3> QED BY <3>1, <3>2, <3>3, <3>4, TotalsAre
  <2> QED BY <1>8, <2>3, RowExplains DEF EconomyInvariant
<1>12. LedgerAccepts'
  <2>1. TypeShape(row)
    BY <1>3, <1>7, <1>8 DEF TypeShape, Has, Lacks, LedgerColumns
  <2>2. PICK n : n = new
    OBVIOUS
  <2>3. TransactionRelations(n)'
    BY <1>8, <1>9, <1>10, <2>2 DEF TransactionRelations
  <2>4. \A d \in checkIns : ~(d.user = u /\ d.date = today)
    BY <1>2 DEF checkedIn
  <2>5. PICK c : c = fact
    OBVIOUS
  <2>6. ledger'[c.entry] = row /\ {row.gross, row.recipientAmount} = {c.reward} /\ c.experience \in {0, 2}
    BY <1>8, <1>9, <1>10, <2>5
  <2>7. \A d \in checkIns' : d.user = c.user /\ d.date = c.date => d = c
    BY <1>9, <2>4, <2>5
  <2>8. CheckInRelations(c)'
    BY <1>8, <1>9, <2>5, <2>6, <2>7 DEF CheckInRelations
  <2>9. \A d \in checkIns' \ checkIns : d = c
    BY <1>9, <2>5
  <2> QED BY <1>8, <1>9, <2>1, <2>2, <2>3, <2>4, <2>5, <2>8, <2>9, RowAccepted DEF EconomyInvariant
<1>13. MoneyHolds'
  <2>1. balance' \in [Wallets -> Nat]
    BY <1>1, <1>3, <1>7
  <2>2. checkIns' \subseteq CheckInRows /\ \A c \in checkIns' : c.entry <= Len(ledger')
    BY <1>7, <1>9, <1>10 DEF EconomyInvariant, MoneyHolds, CheckInRows
  <2>3. PaidOncePerKey'
    BY <1>8, <1>10 DEF EconomyInvariant, MoneyHolds, PaidOncePerKey
  <2>4. MoneyConserved'
    <3>1. balance'[u] - balance[u] = reward /\ \A w \in Wallets \ {u} : balance'[w] = balance[w]
      BY <1>1, <1>3, <1>7
    <3>2. IsFiniteSet(Wallets) /\ \A w \in Wallets : balance[w] \in Int /\ balance'[w] \in Int
      BY <1>7, <2>1, CheckInsAreFinite DEF EconomyInvariant
    <3>3. SumFunctionOnSet(balance', Wallets) = SumFunctionOnSet(balance, Wallets) + (balance'[u] - balance[u])
      BY <1>7, <3>1, <3>2, SumGrowsWithOne
    <3>4. SumFunctionOnSet(balance', Wallets) = SumFunctionOnSet(balance, Wallets) + row.gross
      BY <1>8, <3>1, <3>3
    <3> QED BY <1>3, <1>8, <3>4, RowConserves DEF EconomyInvariant
  <2> QED BY <1>2, <1>7, <1>10, <1>11, <1>12, <2>1, <2>2, <2>3, <2>4 DEF MoneyHolds
<1>14. WorldHolds'
  BY <1>1, <1>2, <1>5 DEF EconomyInvariant, WorldHolds
<1>15. LedgerGrows
  BY <1>7, <1>10 DEF LedgerGrows
<1>16. TouchFor(rows, Running) /\ denied' = denied
  BY <1>1, <1>2 DEF Touch
<1>17. \A r \in Requests : Marked(r)
  BY <1>8, <1>10, <1>16, TouchMarks DEF Marked, Running
<1> QED BY <1>2, <1>13, <1>14, <1>15, <1>16, <1>17, TouchMarks, OthersHold

-------------------------------------------------------------------------------
(* The payment *)

(* Nothing of the sender's wallet has changed since the snapshot, so what  *)
(* is not in the snapshot is nowhere: the request id is new to the sender. *)
LEMMA FirstOfItsId ==
    ASSUME EconomyInvariant, NEW r \in Requests, pc[r] = "in_tx",
           dirty[r] \subseteq {TargetRow(t) : t \in Targets}, ReplayIn(r, snap[r].ledger) = {}
    PROVE  \A i \in DOMAIN ledger : ~(ledger[i].type = "TIP" /\ ledger[i].sender = r.sender /\ ledger[i].key = r.key)
<1> SUFFICES ASSUME NEW i \in DOMAIN ledger,
                    ledger[i].type = "TIP", ledger[i].sender = r.sender, ledger[i].key = r.key
             PROVE  FALSE
  OBVIOUS
<1>1. WalletRow(r.sender) \notin dirty[r]
  BY DEF WalletRow, TargetRow
<1>2. ~(i > snap[r].ledger)
  BY <1>1, RequestTypes DEF RequestOK, AttemptFits
<1>3. i \in Nat /\ i > 0 /\ snap[r].ledger \in Nat
  BY RequestTypes, Lists DEF Snapshots
<1>4. i \in 1..snap[r].ledger
  BY <1>2, <1>3
<1> QED BY <1>4 DEF ReplayIn

(* Who pays has the money, and pays another user. *)
LEMMA PayersAre ==
    ASSUME EconomyInvariant, NEW r \in Requests, pc[r] = "in_tx", ~Refused(r), TargetIsClean(r)
    PROVE  /\ r.sender \in Users /\ r.recipient \in Users /\ r.sender # r.recipient
           /\ r.sender # Platform /\ r.recipient # Platform
           /\ r.kind # "USER" => r.target \in Targets /\ Owner[r.target] = r.recipient
           /\ r.amount \in Int /\ r.amount >= 2 /\ r.amount <= balance[r.sender]
<1>1. r.amount >= 2 /\ r.sender # r.recipient
  BY RequestTypes DEF RequestOK, AttemptFits
<1>2. r.amount \in Int /\ r.sender \in Users
  BY EconomyAssumption
<1>3. balance[r.sender] \in Nat /\ ~(balance[r.sender] < r.amount)
  BY <1>2 DEF Refused, EconomyInvariant, MoneyHolds, Wallets
<1> QED BY <1>1, <1>2, <1>3, EconomyAssumption

LEMMA ThreeAreThree ==
    ASSUME NEW a, NEW b, NEW c, a # b, a # c, b # c
    PROVE  Cardinality({a, b, c}) = 3
<1>1. IsFiniteSet({a}) /\ Cardinality({a}) = 1
  BY FS_Singleton
<1>2. IsFiniteSet({a} \cup {b}) /\ Cardinality({a} \cup {b}) = 2
  BY <1>1, FS_AddElement
<1>3. Cardinality(({a} \cup {b}) \cup {c}) = 3
  BY <1>2, FS_AddElement
<1>4. {a, b, c} = ({a} \cup {b}) \cup {c}
  OBVIOUS
<1> QED BY <1>3, <1>4

(* The row of a payment is one the database accepts. *)
LEMMA TipRowHasItsShape ==
    ASSUME EconomyInvariant, NEW r \in Requests, pc[r] = "in_tx", ~Refused(r), TargetIsClean(r)
    PROVE  TypeShape(TipRow(r))
<1> DEFINE row == TipRow(r)
           share == splitTipAmount(r.amount)
<1>1. /\ r.sender \in Wallets /\ r.recipient \in Wallets /\ Platform \in Wallets
      /\ r.recipient \in Users /\ (r.kind # "USER" => r.target \in Targets)
  BY PayersAre DEF Wallets
<1>2. /\ balance[r.sender] \in Nat /\ balance[r.recipient] \in Nat /\ balance[Platform] \in Nat
      /\ tipTotal[r.recipient] \in Nat /\ tipCount[r.recipient] \in Nat
      /\ r.kind # "USER" => targetTotal[r.target] \in Nat
  <2>1. /\ balance \in [Wallets -> Nat] /\ tipTotal \in [Users -> Nat] /\ tipCount \in [Users -> Nat]
        /\ targetTotal \in [Targets -> Nat]
    BY DEF EconomyInvariant, MoneyHolds
  <2> QED BY <1>1, <2>1
<1>3. /\ r.amount \in Int /\ r.amount >= 2 /\ r.amount <= balance[r.sender]
      /\ share.recipientAmount \in Nat /\ share.platformAmount \in Nat
      /\ r.amount = share.recipientAmount + share.platformAmount
  BY PayersAre, SplitAddsUp
<1>4. Cardinality({r.sender, r.recipient, Platform}) = 3
  <2>1. r.sender # r.recipient /\ r.sender # Platform /\ r.recipient # Platform
    BY PayersAre
  <2> HIDE DEF row, share
  <2> QED BY <2>1, ThreeAreThree
<1>5. /\ row.senderAfter >= 0 /\ row.recipientAfter >= 0 /\ row.platformAfter >= 0
      /\ row.tipTotalAfter >= 0 /\ row.tipCountAfter >= 0
      /\ r.kind # "USER" => row.targetTotalAfter >= 0
  <2> HIDE DEF share
  <2>1. /\ row.senderAfter = balance[r.sender] - r.amount
        /\ row.recipientAfter = balance[r.recipient] + share.recipientAmount
        /\ row.platformAfter = balance[Platform] + share.platformAmount
        /\ row.tipTotalAfter = tipTotal[r.recipient] + r.amount
        /\ row.tipCountAfter = tipCount[r.recipient] + 1
        /\ r.kind # "USER" => row.targetTotalAfter = targetTotal[r.target] + r.amount
    BY TipRowFields DEF share
  <2> HIDE DEF row
  <2> QED BY <1>2, <1>3, <2>1
<1>6. /\ DOMAIN row = TipFields \cup (IF r.kind = "USER" THEN {} ELSE {"target", "targetTotalAfter"})
      /\ row.type = "TIP" /\ row.sender = r.sender /\ row.recipient = r.recipient
      /\ row.platform = Platform /\ row.kind = r.kind /\ row.gross = r.amount
      /\ row.recipientAmount = share.recipientAmount /\ row.platformAmount = share.platformAmount
  BY TipRowFields
<1> HIDE DEF row, share
<1>7. DOMAIN row \subseteq LedgerColumns
  BY <1>6 DEF TipFields, LedgerColumns
<1>8. \A c \in {"recipientAfter", "tipTotalAfter", "tipCountAfter", "senderAfter", "platformAfter",
                "targetTotalAfter"} \cap DOMAIN row : row[c] >= 0
  BY <1>5, <1>6 DEF TipFields
<1>9. /\ Has(row, {"sender", "platform", "kind", "targetUser", "senderAfter", "platformAfter", "key", "hash"})
      /\ Lacks(row, {"date"})
      /\ IF row.kind = "USER" THEN Lacks(row, {"target", "targetTotalAfter"})
         ELSE Has(row, {"target", "targetTotalAfter"})
  BY <1>6 DEF TipFields, Has, Lacks
<1>10. TypeShape(row)
  BY <1>3, <1>4, <1>6, <1>7, <1>8, <1>9 DEF TypeShape
<1> QED BY <1>10 DEF row

(* The payment continues every total it speaks of. *)
LEMMA PaymentExplains ==
    ASSUME EconomyInvariant, NEW r \in Requests, pc[r] = "in_tx", ~Refused(r), TargetIsClean(r), Pay(r)
    PROVE  /\ LedgerExplainsTotals' /\ MoneyConserved'
           /\ balance' \in [Wallets -> Nat] /\ tipTotal' \in [Users -> Nat]
           /\ tipCount' \in [Users -> Nat] /\ targetTotal' \in [Targets -> Nat]
<1> DEFINE row == TipRow(r)
           share == splitTipAmount(r.amount)
           E == Entries(row)
           s == r.sender
           t == r.recipient
<1>1. /\ s \in Users /\ t \in Users /\ s # t /\ s # Platform /\ t # Platform
      /\ s \in Wallets /\ t \in Wallets /\ Platform \in Wallets
      /\ (r.kind # "USER" => r.target \in Targets)
      /\ r.amount \in Nat /\ r.amount <= balance[s]
  BY PayersAre DEF Wallets
<1>2. share.recipientAmount \in Nat /\ share.platformAmount \in Nat
  BY PayersAre, SplitAddsUp
<1>3. /\ row.type = "TIP" /\ row.sender = s /\ row.recipient = t /\ row.kind = r.kind
      /\ (r.kind # "USER" => row.target = r.target)
      /\ row.gross = r.amount
      /\ row.recipientAmount = share.recipientAmount /\ row.platformAmount = share.platformAmount
  BY TipRowFields
<1>4. /\ row.senderAfter = balance[s] - r.amount
      /\ row.recipientAfter = balance[t] + share.recipientAmount
      /\ row.platformAfter = balance[Platform] + share.platformAmount
      /\ row.tipTotalAfter = tipTotal[t] + r.amount
      /\ row.tipCountAfter = tipCount[t] + 1
      /\ (r.kind # "USER" => row.targetTotalAfter = targetTotal[r.target] + r.amount)
  BY TipRowFields
<1>5. /\ balance' = [balance EXCEPT ![s] = row.senderAfter, ![t] = row.recipientAfter, ![Platform] = row.platformAfter]
      /\ tipTotal' = [tipTotal EXCEPT ![t] = row.tipTotalAfter]
      /\ tipCount' = [tipCount EXCEPT ![t] = row.tipCountAfter]
      /\ targetTotal' = IF r.kind = "USER" THEN targetTotal ELSE [targetTotal EXCEPT ![r.target] = row.targetTotalAfter]
      /\ Entered(row)
  BY DEF Pay
<1> HIDE DEF row, share
<1>6. /\ balance \in [Wallets -> Nat] /\ tipTotal \in [Users -> Nat] /\ tipCount \in [Users -> Nat]
      /\ targetTotal \in [Targets -> Nat]
  BY DEF EconomyInvariant, MoneyHolds
<1>7. /\ DOMAIN E = {<<"balance", s>>, <<"balance", t>>, <<"balance", Platform>>, <<"tips", t>>, <<"count", t>>}
                    \cup (IF r.kind = "USER" THEN {} ELSE {<<"target", r.target>>})
      /\ E[<<"balance", s>>] = Entry(-r.amount, row.senderAfter)
      /\ E[<<"balance", t>>] = Entry(share.recipientAmount, row.recipientAfter)
      /\ E[<<"balance", Platform>>] = Entry(share.platformAmount, row.platformAfter)
      /\ E[<<"tips", t>>] = Entry(r.amount, row.tipTotalAfter)
      /\ E[<<"count", t>>] = Entry(1, row.tipCountAfter)
      /\ (r.kind # "USER" => E[<<"target", r.target>>] = Entry(r.amount, row.targetTotalAfter))
  <2>1. row.sender # row.recipient /\ row.sender # Platform /\ row.recipient # Platform
    BY <1>1, <1>3
  <2>2. /\ DOMAIN E = {<<"balance", row.sender>>, <<"balance", row.recipient>>, <<"balance", Platform>>,
                       <<"tips", row.recipient>>, <<"count", row.recipient>>}
                      \cup (IF row.kind = "USER" THEN {} ELSE {<<"target", row.target>>})
        /\ E[<<"balance", row.sender>>] = Entry(-row.gross, row.senderAfter)
        /\ E[<<"balance", row.recipient>>] = Entry(row.recipientAmount, row.recipientAfter)
        /\ E[<<"balance", Platform>>] = Entry(row.platformAmount, row.platformAfter)
        /\ E[<<"tips", row.recipient>>] = Entry(row.gross, row.tipTotalAfter)
        /\ E[<<"count", row.recipient>>] = Entry(1, row.tipCountAfter)
        /\ (row.kind # "USER" => E[<<"target", row.target>>] = Entry(row.gross, row.targetTotalAfter))
    BY <1>3, <2>1, EntriesOfTip
  <2> HIDE DEF E
  <2> QED BY <1>3, <2>2
<1> HIDE DEF E
<1>8. /\ balance'[s] = balance[s] - r.amount
      /\ balance'[t] = balance[t] + share.recipientAmount
      /\ balance'[Platform] = balance[Platform] + share.platformAmount
      /\ \A w \in Wallets \ {s, t, Platform} : balance'[w] = balance[w]
  BY <1>1, <1>4, <1>5, <1>6
<1>9. /\ tipTotal'[t] = tipTotal[t] + r.amount /\ \A u \in Users \ {t} : tipTotal'[u] = tipTotal[u]
      /\ tipCount'[t] = tipCount[t] + 1 /\ \A u \in Users \ {t} : tipCount'[u] = tipCount[u]
  BY <1>1, <1>4, <1>5, <1>6
<1>10. \A x \in Targets : targetTotal'[x] = IF r.kind # "USER" /\ x = r.target
                                            THEN targetTotal[x] + r.amount ELSE targetTotal[x]
  BY <1>1, <1>4, <1>5, <1>6
<1>11. balance' \in [Wallets -> Nat]
  <2>1. \A w \in Wallets : balance'[w] \in Nat
    <3>1. balance[s] - r.amount \in Nat
      BY <1>1, <1>6
    <3>2. /\ balance[t] + share.recipientAmount \in Nat /\ balance[Platform] + share.platformAmount \in Nat
          /\ \A w \in Wallets : balance[w] \in Nat
      BY <1>1, <1>2, <1>6
    <3> QED BY <1>8, <3>1, <3>2
  <2>2. balance' = [w \in Wallets |-> balance'[w]]
    BY <1>5, <1>6
  <2> QED BY <2>1, <2>2
<1>12. tipTotal' \in [Users -> Nat] /\ tipCount' \in [Users -> Nat] /\ targetTotal' \in [Targets -> Nat]
  <2>1. row.tipTotalAfter \in Nat /\ row.tipCountAfter \in Nat /\ (r.kind # "USER" => row.targetTotalAfter \in Nat)
    BY <1>1, <1>4, <1>6
  <2> QED BY <1>5, <1>6, <2>1
<1>13. ASSUME NEW a \in DOMAIN Totals
       PROVE  IF a \in DOMAIN E
              THEN E[a].after = Totals'[a] /\ Totals'[a] = Totals[a] + E[a].delta
              ELSE Totals'[a] = Totals[a]
  <2>1. CASE a \in {"balance"} \X Wallets
    <3>1. PICK w \in Wallets : a = <<"balance", w>>
      BY <2>1
    <3>2. Totals[a] = balance[w] /\ Totals'[a] = balance'[w] /\ (a \in DOMAIN E <=> w \in {s, t, Platform})
      BY <1>7, <3>1, TotalsAre, TotalsBecome
    <3>3. CASE w = s
      <4>1. E[a] = Entry(-r.amount, row.senderAfter)
        BY <1>7, <3>1, <3>3
      <4>2. E[a].delta = -r.amount /\ E[a].after = row.senderAfter
        BY <4>1 DEF Entry
      <4> QED BY <1>1, <1>4, <1>6, <1>8, <3>2, <3>3, <4>2
    <3>4. CASE w = t
      <4>1. E[a] = Entry(share.recipientAmount, row.recipientAfter)
        BY <1>7, <3>1, <3>4
      <4>2. E[a].delta = share.recipientAmount /\ E[a].after = row.recipientAfter
        BY <4>1 DEF Entry
      <4> QED BY <1>1, <1>4, <1>8, <3>2, <3>4, <4>2
    <3>5. CASE w = Platform
      <4>1. E[a] = Entry(share.platformAmount, row.platformAfter)
        BY <1>7, <3>1, <3>5
      <4>2. E[a].delta = share.platformAmount /\ E[a].after = row.platformAfter
        BY <4>1 DEF Entry
      <4> QED BY <1>1, <1>4, <1>8, <3>2, <3>5, <4>2
    <3> QED BY <1>8, <3>2, <3>3, <3>4, <3>5
  <2>2. CASE a \in {"tips"} \X Users
    <3>1. PICK u \in Users : a = <<"tips", u>>
      BY <2>2
    <3>2. Totals[a] = tipTotal[u] /\ Totals'[a] = tipTotal'[u] /\ (a \in DOMAIN E <=> u = t)
      BY <1>7, <3>1, TotalsAre, TotalsBecome
    <3>3. u = t => E[a] = Entry(r.amount, row.tipTotalAfter)
      BY <1>7, <3>1
    <3>4. u = t => E[a].delta = r.amount /\ E[a].after = row.tipTotalAfter
      BY <3>3 DEF Entry
    <3> QED BY <1>4, <1>9, <3>2, <3>4
  <2>3. CASE a \in {"count"} \X Users
    <3>1. PICK u \in Users : a = <<"count", u>>
      BY <2>3
    <3>2. Totals[a] = tipCount[u] /\ Totals'[a] = tipCount'[u] /\ (a \in DOMAIN E <=> u = t)
      BY <1>7, <3>1, TotalsAre, TotalsBecome
    <3>3. u = t => E[a] = Entry(1, row.tipCountAfter)
      BY <1>7, <3>1
    <3>4. u = t => E[a].delta = 1 /\ E[a].after = row.tipCountAfter
      BY <3>3 DEF Entry
    <3> QED BY <1>4, <1>9, <3>2, <3>4
  <2>4. CASE a \in {"target"} \X Targets
    <3>1. PICK x \in Targets : a = <<"target", x>>
      BY <2>4
    <3>2. /\ Totals[a] = targetTotal[x] /\ Totals'[a] = targetTotal'[x]
          /\ (a \in DOMAIN E <=> r.kind # "USER" /\ x = r.target)
      BY <1>7, <3>1, TotalsAre, TotalsBecome
    <3>3. r.kind # "USER" /\ x = r.target => E[a] = Entry(r.amount, row.targetTotalAfter)
      BY <1>7, <3>1
    <3>4. r.kind # "USER" /\ x = r.target => E[a].delta = r.amount /\ E[a].after = row.targetTotalAfter
      BY <3>3 DEF Entry
    <3> QED BY <1>4, <1>10, <3>2, <3>4
  <2> QED BY <2>1, <2>2, <2>3, <2>4, TotalsAre
<1>14. LedgerExplainsTotals'
  BY <1>5, <1>13, RowExplains DEF EconomyInvariant, E
<1>15. MoneyConserved'
  <2>1. r.amount = share.recipientAmount + share.platformAmount
    BY PayersAre, SplitAddsUp DEF share
  <2>2. IsFiniteSet(Wallets) /\ \A w \in Wallets : balance[w] \in Int /\ balance'[w] \in Int
    BY <1>6, <1>11, CheckInsAreFinite DEF EconomyInvariant
  <2>3. balance'[s] + balance'[t] + balance'[Platform] = balance[s] + balance[t] + balance[Platform]
    BY <1>1, <1>2, <1>8, <2>1, <2>2
  <2>4. SumFunctionOnSet(balance', Wallets) = SumFunctionOnSet(balance, Wallets)
    BY <1>1, <1>8, <2>2, <2>3, SumIsMovedOnly
  <2> QED BY <1>3, <1>5, <2>4, RowConserves DEF EconomyInvariant
<1> QED BY <1>11, <1>12, <1>14, <1>15

(* A payment: the ledger gets the row, and the books are in order.         *)
LEMMA PayHolds ==
    ASSUME EconomyInvariant, NEW r \in Requests, pc[r] = "in_tx",
           dirty[r] \subseteq {TargetRow(t) : t \in Targets}, ReplayIn(r, snap[r].ledger) = {},
           ~Refused(r), TargetIsClean(r), Pay(r)
    PROVE  MoneyHolds' /\ LedgerGrows
<1> DEFINE row == TipRow(r)
           new == Len(ledger) + 1
<1>1. IsList(ledger) /\ Len(ledger) \in Nat /\ DOMAIN ledger = 1..Len(ledger)
  BY RequestTypes, Lists
<1>2. Entered(row) /\ checkIns' = checkIns
  BY DEF Pay
<1>3. /\ row.type = "TIP" /\ row.sender = r.sender /\ row.recipient = r.recipient /\ row.platform = Platform
      /\ row.kind = r.kind /\ row.targetUser = r.recipient /\ row.key = r.key
      /\ (r.kind # "USER" => row.target = r.target)
  BY TipRowFields
<1>4. TypeShape(row)
  BY TipRowHasItsShape
<1> HIDE DEF row
<1>5. /\ IsList(ledger') /\ Len(ledger') = new /\ DOMAIN ledger' = DOMAIN ledger \cup {new}
      /\ ledger'[new] = row /\ \A i \in DOMAIN ledger : ledger'[i] = ledger[i]
  BY <1>1, <1>2, ListsGrow DEF Entered
<1>6. LedgerGrows
  BY <1>1, <1>5 DEF LedgerGrows
<1>7. PICK n : n = new
  OBVIOUS
<1>8. TransactionRelations(n)'
  <2>1. ledger'[n] = row
    BY <1>5, <1>7
  <2> QED BY <1>3, <2>1, PayersAre DEF TransactionRelations
<1>9. LedgerAccepts'
  BY <1>2, <1>4, <1>7, <1>8, RowAccepted DEF EconomyInvariant
<1>10. PaidOncePerKey'
  <2>1. \A i \in DOMAIN ledger : ~(ledger[i].type = "TIP" /\ ledger[i].sender = r.sender /\ ledger[i].key = r.key)
    BY FirstOfItsId
  <2> HIDE DEF new
  <2> SUFFICES ASSUME NEW i \in DOMAIN ledger', NEW j \in DOMAIN ledger',
                      ledger'[i].type = "TIP", ledger'[j].type = "TIP",
                      ledger'[i].sender = ledger'[j].sender, ledger'[i].key = ledger'[j].key
               PROVE  i = j
    BY DEF PaidOncePerKey
  <2>2. PaidOncePerKey
    BY DEF EconomyInvariant, MoneyHolds
  <2>3. CASE i \in DOMAIN ledger /\ j \in DOMAIN ledger
    BY <1>5, <2>2, <2>3 DEF PaidOncePerKey
  <2>4. i = new => j \notin DOMAIN ledger
    BY <1>3, <1>5, <2>1
  <2>5. j = new => i \notin DOMAIN ledger
    BY <1>3, <1>5, <2>1
  <2> QED BY <1>5, <2>3, <2>4, <2>5
<1>11. checkIns' \subseteq CheckInRows /\ \A c \in checkIns' : c.entry <= Len(ledger')
  BY <1>1, <1>2, <1>5 DEF EconomyInvariant, MoneyHolds, CheckInRows
<1> QED BY <1>5, <1>6, <1>9, <1>10, <1>11, PaymentExplains DEF MoneyHolds

LEMMA completeTipHolds ==
    ASSUME EconomyInvariant, NEW r \in Requests, completeTip(r)
    PROVE  EconomyInvariant'
<1>1. /\ pc[r] = "in_tx" /\ dirty[r] \subseteq {TargetRow(t) : t \in Targets}
      /\ UNCHANGED worldVars
  BY DEF completeTip
<1> DEFINE Ended == TouchFor({}, Running \ {r}) /\ UNCHANGED moneyVars
<1>2. CASE AnswerReplay(r, snap[r].ledger) /\ Ended
  <2>1. snap[r].ledger \in 0..Len(ledger) /\ dirty'[r] \subseteq LockedRows(r)
    BY <1>2, RequestTypes, TouchMarks DEF RequestOK
  <2> QED BY <1>1, <1>2, <2>1, ReplayFits, EndedTransaction
<1>3. CASE Finish(r, "refused", 0) /\ Ended
  <2>1. dirty'[r] \subseteq LockedRows(r)
    BY <1>3, TouchMarks
  <2> QED BY <1>1, <1>3, <2>1, RefusalFits, EndedTransaction
<1>4. CASE /\ ReplayIn(r, snap[r].ledger) = {} /\ ~Refused(r) /\ TargetIsClean(r) /\ Pay(r)
           /\ TouchFor(WrittenRows(r), Running \ {r}) /\ Finish(r, "paid", Len(ledger) + 1)
  <2> DEFINE row == TipRow(r)
             new == Len(ledger) + 1
  <2>1. MoneyHolds' /\ LedgerGrows
    BY <1>1, <1>4, PayHolds
  <2>2. IsList(ledger) /\ Len(ledger) \in Nat /\ Entered(row)
    BY <1>4, RequestTypes, Lists DEF Pay
  <2>3. row.type = "TIP" /\ row.sender = r.sender /\ row.key = r.key /\ row.hash = requestHash(r)
    BY TipRowFields
  <2> HIDE DEF row
  <2>4. /\ IsList(ledger') /\ DOMAIN ledger' \ DOMAIN ledger = {new} /\ new \in DOMAIN ledger'
        /\ ledger'[new] = row
    BY <2>2, Lists, ListsGrow DEF Entered
  <2>5. new \in Nat /\ new # 0
    BY <2>2
  <2>6. dirty'[r] \subseteq LockedRows(r) /\ dirty' = [s \in Requests |-> dirty'[s]]
    BY <1>4, TouchMarks
  <2>7. /\ RequestOK(r)'
        /\ pc' \in [Requests -> Places] /\ attempt' \in [Requests -> 0..MaxAttempts]
        /\ snap' \in [Requests -> Snapshots] /\ answer' \in [Requests -> Nat]
        /\ \A s \in Requests \ {r} : SameRequest(s)
    <3> HIDE DEF new
    <3>1. Finish(r, "paid", new)
      BY <1>4 DEF new
    <3> QED BY <2>3, <2>4, <2>5, <2>6, <3>1, FinishFits DEF Outcomes
  <2>8. denied' = denied
    BY <1>1 DEF worldVars
  <2>9. ASSUME NEW s \in Requests \ {r}
        PROVE  Marked(s)
    <3>1. /\ dirty'[s] \subseteq LockedRows(s)
          /\ pc[s] = "in_tx" => dirty[s] \subseteq dirty'[s] /\ WrittenRows(r) \cap LockedRows(s) \subseteq dirty'[s]
      BY <1>4, TouchMarks DEF Running
    <3>2. r.sender = s.sender => WalletRow(s.sender) \in WrittenRows(r) \cap LockedRows(s)
      BY DEF WrittenRows, LockedRows, WalletRow, UserRow
    <3> QED BY <2>3, <2>4, <2>8, <3>1, <3>2 DEF Marked
  <2>10. \A s \in Requests : RequestOK(s)'
    BY <2>1, <2>7, <2>9, OvertakenRequest
  <2>11. WorldHolds'
    BY <1>1 DEF EconomyInvariant, WorldHolds, worldVars
  <2> QED BY <2>1, <2>6, <2>7, <2>10, <2>11 DEF EconomyInvariant, RequestsHold
<1> QED BY <1>2, <1>3, <1>4 DEF completeTip

-------------------------------------------------------------------------------
(* The newest first *)

Newer(R, i) == {j \in R : j > i}

(* Each of k rows has its place, and every place of 1..k is taken: the row *)
(* at place n has n - 1 rows above it.                                     *)
LEMMA NewestFirstIs ==
    ASSUME NEW R \in SUBSET Int, IsFiniteSet(R)
    PROVE  LET k == Cardinality(R)
               o == NewestFirst(R)
           IN  /\ k \in Nat /\ DOMAIN o = 1..k /\ o = [n \in 1..k |-> o[n]]
               /\ \A n \in 1..k : o[n] \in R /\ Cardinality(Newer(R, o[n])) = n - 1
               /\ \A i \in R, n \in 1..k : Cardinality(Newer(R, i)) = n - 1 => i = o[n]
<1> DEFINE k == Cardinality(R)
           Above(i) == Newer(R, i)
           place == [i \in R |-> Cardinality(Above(i)) + 1]
<1>1. k \in Nat /\ IsFiniteSet(1..k) /\ Cardinality(1..k) = k
  <2>1. k \in Nat
    BY FS_CardinalityType
  <2> HIDE DEF k
  <2> QED BY <2>1, FS_Interval
<1>2. ASSUME NEW i \in R
      PROVE  IsFiniteSet(Above(i)) /\ Cardinality(Above(i)) \in Nat /\ Cardinality(Above(i)) + 1 \in 1..k
  <2>1. Above(i) \subseteq R /\ i \notin Above(i)
    BY DEF Newer
  <2>2. Above(i) # R
    BY <2>1
  <2> HIDE DEF Above
  <2>3. /\ IsFiniteSet(Above(i)) /\ Cardinality(Above(i)) \in Nat
        /\ Cardinality(Above(i)) <= k /\ Cardinality(Above(i)) # k
    BY <2>1, <2>2, FS_Subset, FS_CardinalityType
  <2> QED BY <1>1, <2>3
<1>3. ASSUME NEW i \in R, NEW j \in R, j > i PROVE Cardinality(Above(j)) < Cardinality(Above(i))
  <2>1. Above(j) \subseteq Above(i) /\ j \in Above(i) /\ j \notin Above(j)
    <3>1. i \in Int /\ j \in Int /\ \A x \in R : x \in Int
      OBVIOUS
    <3>2. \A x \in Int : x > j => x > i
      BY <1>3, <3>1
    <3>3. ~(j > j)
      BY <3>1
    <3> QED BY <1>3, <3>1, <3>2, <3>3 DEF Newer
  <2> HIDE DEF Above
  <2>2. Cardinality(Above(j)) <= Cardinality(Above(i)) /\ Cardinality(Above(j)) # Cardinality(Above(i))
    BY <1>2, <2>1, FS_Subset
  <2> QED BY <1>2, <2>2
<1>4. ASSUME NEW i \in R, NEW j \in R, Cardinality(Above(i)) = Cardinality(Above(j)) PROVE i = j
  <2>1. i \in Int /\ j \in Int
    OBVIOUS
  <2>2. ~(Cardinality(Above(i)) < Cardinality(Above(j))) /\ ~(Cardinality(Above(j)) < Cardinality(Above(i)))
    BY <1>2, <1>4
  <2> HIDE DEF Above
  <2>3. ~(i > j) /\ ~(j > i)
    BY <1>3, <2>2
  <2> QED BY <2>1, <2>3
<1> HIDE DEF Above
<1>5. ASSUME NEW n \in 1..k PROVE \E i \in R : Cardinality(Above(i)) = n - 1
  <2>1. place \in Injection(R, 1..k)
    <3>1. place \in [R -> 1..k]
      BY <1>2
    <3>2. ASSUME NEW i \in R, NEW j \in R, place[i] = place[j] PROVE i = j
      <4>1. Cardinality(Above(i)) = Cardinality(Above(j))
        BY <1>2, <3>2
      <4> QED BY <1>4, <4>1
    <3> QED BY <3>1, <3>2 DEF Injection, IsInjective
  <2>2. place \in Surjection(R, 1..k)
    <3> HIDE DEF place
    <3> QED BY <1>1, <2>1, FS_Injection
  <2>3. PICK i \in R : place[i] = n
    BY <2>2 DEF Surjection
  <2> QED BY <1>1, <1>2, <2>3
<1> DEFINE o == NewestFirst(R)
<1>6. o = [n \in 1..k |-> CHOOSE i \in R : Cardinality(Above(i)) = n - 1]
  BY DEF NewestFirst, Above, Newer
<1>7. ASSUME NEW n \in 1..k PROVE o[n] \in R /\ Cardinality(Above(o[n])) = n - 1
  <2>1. o[n] = CHOOSE i \in R : Cardinality(Above(i)) = n - 1
    BY <1>6
  <2> HIDE DEF o, k
  <2> QED BY <1>5, <2>1
<1>8. ASSUME NEW i \in R, NEW n \in 1..k, Cardinality(Above(i)) = n - 1 PROVE i = o[n]
  <2> HIDE DEF o, k
  <2> QED BY <1>4, <1>7, <1>8
<1>9. DOMAIN o = 1..k /\ o = [n \in 1..k |-> o[n]]
  <2>1. DOMAIN o = 1..k
    BY <1>6
  <2> QED BY <1>6, <2>1
<1> HIDE DEF o, k
<1> QED BY <1>1, <1>7, <1>8, <1>9 DEF o, k, Above

(* What comes after the row at place t are the rows below it, in the same  *)
(* order.                                                                  *)
LEMMA RestOfNewestFirst ==
    ASSUME NEW R \in SUBSET Int, IsFiniteSet(R), NEW t \in 1..Cardinality(R),
           NEW B, B = {j \in R : j < NewestFirst(R)[t]}
    PROVE  /\ B \in SUBSET Int /\ IsFiniteSet(B)
           /\ Cardinality(B) = Cardinality(R) - t
           /\ \A m \in 1..Cardinality(B) : t + m \in 1..Cardinality(R) /\ NewestFirst(B)[m] = NewestFirst(R)[t + m]
<1> DEFINE k == Cardinality(R)
           x == NewestFirst(R)[t]
           A == Newer(R, x)
<1>1. k \in Nat /\ x \in R /\ Cardinality(A) = t - 1 /\ x \in Int /\ t \in Nat /\ t >= 1 /\ t <= k
  <2>1. k \in Nat /\ x \in R /\ Cardinality(A) = t - 1
    BY NewestFirstIs
  <2> HIDE DEF x, k, A
  <2>2. t \in 1..k
    BY DEF k
  <2> QED BY <2>1, <2>2
<1>2. A \subseteq R /\ B \subseteq R /\ x \notin A /\ x \notin B /\ A \cap B = {} /\ R = (A \cup {x}) \cup B
  <2>1. \A j \in R : j > x \/ j = x \/ j < x
    BY <1>1
  <2>2. \A j \in R : ~(j > x /\ j < x)
    BY <1>1
  <2>3. ~(x > x) /\ ~(x < x)
    BY <1>1
  <2>4. B = {j \in R : j < x} /\ A = {j \in R : j > x}
    BY DEF Newer
  <2> HIDE DEF x, A
  <2> QED BY <1>1, <2>1, <2>2, <2>3, <2>4
<1>3. IsFiniteSet(A) /\ IsFiniteSet(B) /\ Cardinality(B) \in Nat /\ B \in SUBSET Int
  <2> HIDE DEF A
  <2> QED BY <1>2, FS_Subset, FS_CardinalityType
<1> DEFINE C == A \cup {x}
<1>4. IsFiniteSet(C) /\ Cardinality(C) = t /\ C \subseteq R /\ C \cap B = {} /\ R = C \cup B
  <2> HIDE DEF A, x
  <2> QED BY <1>1, <1>2, <1>3, FS_AddElement
<1>5. Cardinality(B) = k - t
  <2> HIDE DEF C
  <2>1. Cardinality(C \cup B) = Cardinality(C) + Cardinality(B) - Cardinality(C \cap B)
    BY <1>3, <1>4, FS_Union
  <2>2. Cardinality(C \cap B) = 0
    BY <1>4, FS_EmptySet
  <2>3. Cardinality(C \cup B) = k
    BY <1>4
  <2> HIDE DEF k
  <2> QED BY <1>1, <1>3, <1>4, <2>1, <2>2, <2>3
<1>6. ASSUME NEW m \in 1..Cardinality(B)
      PROVE  t + m \in 1..k /\ NewestFirst(B)[m] = NewestFirst(R)[t + m]
  <2> DEFINE i == NewestFirst(B)[m]
             D == Newer(B, i)
             E == Newer(R, i)
  <2>1. i \in B /\ Cardinality(D) = m - 1
    <3> HIDE DEF A
    <3> QED BY <1>3, NewestFirstIs
  <2>2. t + m \in 1..k
    BY <1>1, <1>3, <1>5
  <2>3. E = C \cup D /\ C \cap D = {} /\ D \subseteq B
    <3>1. i \in R /\ i \in Int /\ i < x
      BY <1>2, <1>3, <2>1
    <3>2. \A j \in A : j > i
      BY <1>1, <3>1 DEF Newer
    <3>3. x > i /\ x \in R
      BY <1>1, <3>1
    <3>4. C \subseteq E
      BY <1>2, <3>2, <3>3 DEF Newer
    <3> HIDE DEF C, x, i
    <3> QED BY <1>4, <3>4 DEF Newer
  <2>4. IsFiniteSet(D)
    <3> HIDE DEF D
    <3> QED BY <1>3, <2>3, FS_Subset
  <2>5. Cardinality(E) = t + m - 1
    <3> HIDE DEF C, D, E, i
    <3>1. Cardinality(C \cup D) = Cardinality(C) + Cardinality(D) - Cardinality(C \cap D)
      BY <1>4, <2>4, FS_Union
    <3>2. Cardinality(C \cap D) = 0
      BY <2>3, FS_EmptySet
    <3> QED BY <1>1, <1>4, <2>1, <2>3, <3>1, <3>2
  <2>6. i \in R
    BY <1>2, <2>1
  <2>7. Cardinality(E) = (t + m) - 1
    BY <1>1, <2>5
  <2> HIDE DEF i
  <2>8. i = NewestFirst(R)[t + m]
    BY <2>2, <2>6, <2>7, NewestFirstIs
  <2> QED BY <2>2, <2>8 DEF i
<1> QED BY <1>3, <1>5, <1>6

(* The first is the greatest.                                              *)
LEMMA NewestIsFirst ==
    ASSUME NEW R \in SUBSET Int, IsFiniteSet(R), R # {}
    PROVE  1 \in 1..Cardinality(R) /\ Max(R) = NewestFirst(R)[1]
<1>1. Cardinality(R) \in Nat /\ Cardinality(R) # 0
  BY FS_CardinalityType, FS_EmptySet
<1>2. Max(R) \in R /\ \A x \in R : Max(R) >= x
  BY MaxOfFinite
<1> DEFINE A == Newer(R, Max(R))
<1>3. A = {}
  <2>1. \A x \in R : x \in Int /\ Max(R) \in Int /\ Max(R) >= x
    BY <1>2
  <2>2. \A x \in R : ~(x > Max(R))
    BY <2>1
  <2> QED BY <2>2 DEF Newer
<1>4. Cardinality(A) = 1 - 1
  BY <1>3, FS_EmptySet
<1>5. 1 \in 1..Cardinality(R)
  BY <1>1
<1> QED BY <1>2, <1>4, <1>5, NewestFirstIs

-------------------------------------------------------------------------------
(* Statements *)

(* The rows that are still to come after the cursor c, and their lines.    *)
RowsAfter(u, c) == {i \in DOMAIN ledger : Concerns(u, i) /\ (c = 0 \/ i < c)}
LinesAfter(u, c) ==
    [n \in 1..Cardinality(RowsAfter(u, c)) |-> StatementItem(u, NewestFirst(RowsAfter(u, c))[n])]

LEMMA RowsAreNumbers ==
    ASSUME IsList(ledger), NEW u, NEW c
    PROVE  /\ RowsAfter(u, c) \subseteq DOMAIN ledger /\ RowsAfter(u, c) \in SUBSET Int
           /\ IsFiniteSet(RowsAfter(u, c)) /\ Cardinality(RowsAfter(u, c)) \in Nat
<1>1. Len(ledger) \in Nat /\ DOMAIN ledger = 1..Len(ledger)
  BY Lists
<1>2. RowsAfter(u, c) \subseteq DOMAIN ledger /\ IsFiniteSet(DOMAIN ledger)
  BY <1>1, FS_Interval DEF RowsAfter
<1>3. RowsAfter(u, c) \in SUBSET Int
  BY <1>1, <1>2
<1> QED BY <1>2, <1>3, FS_Subset, FS_CardinalityType

(* A list in two parts is one after the other.                             *)
LEMMA ListInTwoParts ==
    ASSUME NEW a \in Nat, NEW b \in Nat, NEW s, NEW k \in Nat, k = a + b, s = [n \in 1..k |-> s[n]]
    PROVE  s = [n \in 1..a |-> s[n]] \o [n \in 1..b |-> s[a + n]]
<1> DEFINE S == {s[n] : n \in 1..k}
           p == [n \in 1..a |-> s[n]]
           q == [n \in 1..b |-> s[a + n]]
<1>1. \A n \in 1..k : s[n] \in S
  OBVIOUS
<1>2. s \in Seq(S) /\ Len(s) = k
  <2> HIDE DEF S
  <2>1. s \in [1..k -> S]
    BY <1>1
  <2> QED BY <2>1
<1>3. p \in Seq(S) /\ Len(p) = a /\ \A n \in 1..a : p[n] = s[n]
  <2>1. \A n \in 1..a : p[n] = s[n] /\ n \in 1..k
    OBVIOUS
  <2>2. p = [n \in 1..a |-> p[n]]
    OBVIOUS
  <2> HIDE DEF S, p
  <2>3. p \in [1..a -> S]
    BY <1>1, <2>1, <2>2
  <2>4. p \in Seq(S) /\ Len(p) = a
    BY <2>3
  <2> QED BY <2>1, <2>4
<1>4. q \in Seq(S) /\ Len(q) = b /\ \A n \in 1..b : q[n] = s[a + n]
  <2>1. \A n \in 1..b : q[n] = s[a + n] /\ a + n \in 1..k
    OBVIOUS
  <2>2. q = [n \in 1..b |-> q[n]]
    OBVIOUS
  <2> HIDE DEF S, q
  <2>3. q \in [1..b -> S]
    BY <1>1, <2>1, <2>2
  <2> QED BY <2>1, <2>3
<1> HIDE DEF p, q, S
<1>5. /\ p \o q \in Seq(S) /\ Len(p \o q) = k /\ DOMAIN (p \o q) = 1..k
      /\ \A n \in 1..k : (p \o q)[n] = IF n <= a THEN p[n] ELSE q[n - a]
  <2>1. p \o q \in Seq(S) /\ Len(p \o q) = Len(p) + Len(q)
    BY <1>3, <1>4
  <2>2. \A n \in 1..Len(p) + Len(q) : (p \o q)[n] = IF n <= Len(p) THEN p[n] ELSE q[n - Len(p)]
    BY <1>3, <1>4
  <2> QED BY <1>3, <1>4, <2>1, <2>2
<1>6. ASSUME NEW n \in 1..k PROVE (p \o q)[n] = s[n]
  <2>1. CASE n <= a
    <3>1. n \in 1..a
      BY <2>1
    <3> QED BY <1>3, <1>5, <2>1, <3>1
  <2>2. CASE ~(n <= a)
    <3>1. n - a \in 1..b /\ a + (n - a) = n
      BY <2>2
    <3>2. (p \o q)[n] = q[n - a] /\ q[n - a] = s[a + (n - a)]
      BY <1>4, <1>5, <2>2, <3>1
    <3> QED BY <3>1, <3>2
  <2> QED BY <2>1, <2>2
<1>7. s = p \o q
  <2>1. PICK t : t = p \o q
    OBVIOUS
  <2>2. t \in Seq(S) /\ Len(t) = k /\ \A n \in 1..k : t[n] = s[n]
    BY <1>5, <1>6, <2>1
  <2>3. t = [n \in 1..k |-> t[n]]
    BY <2>2
  <2> QED BY <2>1, <2>2, <2>3
<1> QED BY <1>7 DEF p, q

(* The smallest of three numbers.                                          *)
LEMMA MinOfThree ==
    ASSUME NEW a \in Int, NEW b \in Int, NEW c \in Int
    PROVE  LET m == Min({a, b, c})
           IN  m \in {a, b, c} /\ m <= a /\ m <= b /\ m <= c
<1>1. \E x \in {a, b, c} : \A y \in {a, b, c} : x =< y
  <2>1. CASE a <= b /\ a <= c
    BY <2>1
  <2>2. CASE b <= a /\ b <= c
    BY <2>2
  <2>3. CASE c <= a /\ c <= b
    BY <2>3
  <2> QED BY <2>1, <2>2, <2>3
<1>2. Min({a, b, c}) \in {a, b, c} /\ \A y \in {a, b, c} : Min({a, b, c}) =< y
  <2> DEFINE S == {a, b, c}
  <2>1. \E x \in S : \A y \in S : x =< y
    BY <1>1
  <2>2. Min(S) = CHOOSE x \in S : \A y \in S : x =< y
    BY DEF Min
  <2> HIDE DEF S
  <2>3. Min(S) \in S /\ \A y \in S : Min(S) =< y
    BY <2>1, <2>2
  <2> QED BY <2>3 DEF S
<1> QED BY <1>2

(* A page is the first lines of the statement from its cursor on, and the  *)
(* next cursor is a row further down, from where the rest goes on.         *)
LEMMA PageOfStatement ==
    ASSUME IsList(ledger), NEW u, NEW c \in 0..Len(ledger), NEW limit \in Nat \ {0}
    PROVE  LET page == listTransactions(u, c, limit)
           IN  /\ LinesAfter(u, c) = page.items \o (IF page.hasMore THEN LinesAfter(u, page.cursor) ELSE <<>>)
               /\ page.hasMore => page.cursor \in 1..Len(ledger) /\ (c = 0 \/ page.cursor < c)
<1> DEFINE R == RowsAfter(u, c)
           o == NewestFirst(R)
           k == Cardinality(R)
           take == Min({limit, 50, k})
           lines == LinesAfter(u, c)
           page == listTransactions(u, c, limit)
<1>1. /\ R \subseteq DOMAIN ledger /\ R \in SUBSET Int /\ IsFiniteSet(R) /\ k \in Nat
      /\ Len(ledger) \in Nat /\ DOMAIN ledger = 1..Len(ledger)
  BY RowsAreNumbers, Lists
<1>2. DOMAIN o = 1..k /\ o = [n \in 1..k |-> o[n]] /\ \A n \in 1..k : o[n] \in R
  <2> HIDE DEF R
  <2> QED BY <1>1, NewestFirstIs
<1>3. Len(o) = k
  <2> HIDE DEF o, k
  <2> QED BY <1>1, <1>2
<1>4. page = [items |-> [n \in 1..take |-> StatementItem(u, o[n])],
              cursor |-> IF take = 0 THEN 0 ELSE o[take],
              hasMore |-> k > take]
  <2>1. R = {i \in DOMAIN ledger : Concerns(u, i) /\ (c = 0 \/ i < c)}
    BY DEF RowsAfter
  <2> HIDE DEF R, o, k
  <2>2. NewestFirst({i \in DOMAIN ledger : Concerns(u, i) /\ (c = 0 \/ i < c)}) = o
    BY <2>1 DEF o
  <2> QED BY <1>3, <2>2 DEF listTransactions
<1>5. take \in {limit, 50, k} /\ take \in Nat /\ take <= k /\ (k > take => take > 0)
  <2> HIDE DEF k
  <2>1. /\ take \in {limit, 50, k} /\ take <= k
    <3>1. PICK most \in Int : most = 50
      OBVIOUS
    <3>2. limit \in Int /\ k \in Int /\ take = Min({limit, most, k})
      BY <1>1, <3>1 DEF k
    <3> HIDE DEF take
    <3>3. take \in {limit, most, k} /\ take <= k
      BY <3>2, MinOfThree, Zenon
    <3> QED BY <3>1, <3>3
  <2> HIDE DEF take
  <2> QED BY <1>1, <2>1 DEF k
<1>6. lines = [n \in 1..k |-> StatementItem(u, o[n])] /\ lines = [n \in 1..k |-> lines[n]]
  BY DEF LinesAfter
<1> HIDE DEF R, o, k, take, page, lines
<1>7. CASE k > take
  <2> DEFINE x == o[take]
             B == RowsAfter(u, x)
             b == k - take
  <2>1. take \in 1..k /\ b \in Nat /\ k = take + b
    BY <1>1, <1>5, <1>7
  <2>2. x \in R /\ x \in 1..Len(ledger) /\ x # 0 /\ (c = 0 \/ x < c)
    BY <1>1, <1>2, <2>1 DEF R, RowsAfter
  <2>3. page.cursor = x /\ page.hasMore /\ page.items = [n \in 1..take |-> StatementItem(u, o[n])]
    <3>1. take # 0
      BY <1>5, <1>7
    <3> HIDE DEF x
    <3>2. page = [items |-> [n \in 1..take |-> StatementItem(u, o[n])], cursor |-> x, hasMore |-> k > take]
      BY <1>4, <3>1 DEF x
    <3> QED BY <1>7, <3>2
  <2>4. B = {j \in R : j < x}
    <3>1. x \in Nat /\ \A i \in DOMAIN ledger : i \in Nat
      BY <1>1, <2>2
    <3>2. \A i \in DOMAIN ledger : i < x => c = 0 \/ i < c
      BY <2>2, <3>1
    <3> HIDE DEF x
    <3> QED BY <2>2, <3>2 DEF R, RowsAfter
  <2>5. Cardinality(B) = b /\ \A m \in 1..b : NewestFirst(B)[m] = o[take + m]
    <3> HIDE DEF B
    <3>1. B = {j \in R : j < NewestFirst(R)[take]}
      BY <2>4 DEF o
    <3>2. take \in 1..Cardinality(R)
      BY <2>1 DEF k
    <3>3. /\ Cardinality(B) = Cardinality(R) - take
          /\ \A m \in 1..Cardinality(B) : NewestFirst(B)[m] = NewestFirst(R)[take + m]
      BY <1>1, <3>1, <3>2, RestOfNewestFirst
    <3> QED BY <3>3 DEF o, k
  <2>6. LinesAfter(u, x) = [m \in 1..b |-> lines[take + m]]
    <3>1. LinesAfter(u, x) = [m \in 1..Cardinality(B) |-> StatementItem(u, NewestFirst(B)[m])]
      BY DEF LinesAfter
    <3> HIDE DEF B, x
    <3>2. \A m \in 1..b : take + m \in 1..k
      BY <2>1
    <3>3. \A m \in 1..b : lines[take + m] = StatementItem(u, NewestFirst(B)[m])
      BY <1>6, <2>5, <3>2
    <3> HIDE DEF b
    <3> QED BY <2>5, <3>1, <3>3
  <2>7. page.items = [n \in 1..take |-> lines[n]]
    <3>1. \A n \in 1..take : n \in 1..k
      BY <2>1
    <3> QED BY <1>6, <2>3, <3>1
  <2> HIDE DEF x, b, B
  <2>8. lines = page.items \o LinesAfter(u, x)
    <3>1. lines = [n \in 1..take |-> lines[n]] \o [n \in 1..b |-> lines[take + n]]
      BY <1>1, <1>5, <1>6, <2>1, ListInTwoParts
    <3> QED BY <2>6, <2>7, <3>1
  <2> QED BY <2>2, <2>3, <2>8 DEF page, lines
<1>8. CASE ~(k > take)
  <2>1. k = take
    BY <1>1, <1>5, <1>8
  <2>2. ~page.hasMore /\ page.items = lines
    BY <1>4, <1>6, <1>8, <2>1
  <2>3. lines \o <<>> = lines
    <3> DEFINE S == {lines[n] : n \in 1..k}
    <3>1. \A n \in 1..k : lines[n] \in S
      OBVIOUS
    <3> HIDE DEF S
    <3>2. lines \in [1..k -> S]
      BY <1>6, <3>1
    <3>3. lines \in Seq(S)
      BY <1>1, <3>2
    <3> QED BY <3>3
  <2>4. lines = page.items \o <<>>
    BY <2>2, <2>3
  <2> QED BY <2>2, <2>4 DEF page, lines
<1> QED BY <1>7, <1>8

(* Page by page a reader gets every line once.  The pages are read by a    *)
(* recursion on the cursor: the lines that are left solve its equation,    *)
(* and so does nothing else, or there would be a lowest cursor from which  *)
(* another solution goes another way.                                      *)
LEMMA StatementHasAllLines ==
    ASSUME IsList(ledger), NEW u, NEW limit \in Nat \ {0}
    PROVE  Statement(u, limit) = LinesAfter(u, 0)
<1> DEFINE L == Len(ledger)
           Page(c) == listTransactions(u, c, limit)
           Goes(f, c) == Page(c).items \o (IF Page(c).hasMore THEN f[Page(c).cursor] ELSE <<>>)
           Reads(f) == f = [c \in 0..L |-> Goes(f, c)]
           all == [c \in 0..L |-> LinesAfter(u, c)]
<1>1. L \in Nat /\ 0 \in 0..L
  BY Lists
<1>2. Statement(u, limit) = (CHOOSE f : Reads(f))[0]
  BY DEF Statement
<1>3. ASSUME NEW c \in 0..L
      PROVE  /\ LinesAfter(u, c) = Page(c).items \o (IF Page(c).hasMore THEN LinesAfter(u, Page(c).cursor) ELSE <<>>)
             /\ Page(c).hasMore => Page(c).cursor \in 1..L /\ (c = 0 \/ Page(c).cursor < c)
  BY PageOfStatement
<1> HIDE DEF L, Page
<1>4. Reads(all)
  <2>1. ASSUME NEW c \in 0..L PROVE LinesAfter(u, c) = Goes(all, c)
    <3>1. CASE Page(c).hasMore
      <4>1. all[Page(c).cursor] = LinesAfter(u, Page(c).cursor)
        BY <1>1, <1>3, <3>1
      <4> HIDE DEF all
      <4> QED BY <1>3, <3>1, <4>1
    <3>2. CASE ~Page(c).hasMore
      <4> HIDE DEF all
      <4> QED BY <1>3, <3>2
    <3> QED BY <3>1, <3>2
  <2> QED BY <2>1
<1> DEFINE f == CHOOSE f : Reads(f)
<1>5. Reads(f)
  <2> HIDE DEF Reads, all
  <2> QED BY <1>4
<1> HIDE DEF f, all
<1>6. ASSUME NEW c \in 0..L PROVE f[c] = Goes(f, c)
  BY <1>5
<1>7. ASSUME NEW c \in 0..L, Page(c).hasMore => f[Page(c).cursor] = LinesAfter(u, Page(c).cursor)
      PROVE  f[c] = LinesAfter(u, c)
  <2>1. CASE Page(c).hasMore
    BY <1>3, <1>6, <1>7, <2>1
  <2>2. CASE ~Page(c).hasMore
    BY <1>3, <1>6, <2>2
  <2> QED BY <2>1, <2>2
<1> HIDE DEF Reads, Goes
<1>8. ASSUME NEW c \in 1..L PROVE f[c] = LinesAfter(u, c)
  <2> DEFINE Other == {n \in 0..L : L - n \in 1..L /\ f[L - n] # LinesAfter(u, L - n)}
  <2>1. SUFFICES Other = {}
    <3>1. L - (L - c) = c /\ L - c \in 0..L
      BY <1>1
    <3> QED BY <3>1
  <2>2. SUFFICES ASSUME Other # {} PROVE FALSE
    OBVIOUS
  <2>3. Other \in SUBSET Int /\ IsFiniteSet(Other)
    <3>1. IsFiniteSet(0..L)
      BY <1>1, FS_Interval
    <3>2. Other \subseteq 0..L
      OBVIOUS
    <3> HIDE DEF Other
    <3>3. IsFiniteSet(Other)
      BY <3>1, <3>2, FS_Subset
    <3>4. \A n \in Other : n \in Int
      BY <1>1, <3>2
    <3> QED BY <3>3, <3>4
  <2>4. Max(Other) \in Other /\ \A n \in Other : Max(Other) >= n
    <3> HIDE DEF Other
    <3> QED BY <2>2, <2>3, MaxOfFinite
  <2>5. PICK n \in Other : \A m \in Other : n >= m
    BY <2>4
  <2> DEFINE low == L - n
  <2>6. low \in 1..L /\ f[low] # LinesAfter(u, low) /\ low \in 0..L /\ low # 0 /\ n \in 0..L
    BY <1>1, <2>5
  <2>7. ASSUME Page(low).hasMore PROVE f[Page(low).cursor] = LinesAfter(u, Page(low).cursor)
    <3> DEFINE x == Page(low).cursor
    <3>1. x \in 1..L /\ x < low
      BY <1>3, <2>6, <2>7
    <3> HIDE DEF x
    <3>2. L - x \in 0..L /\ L - (L - x) = x /\ ~(n >= L - x)
      BY <1>1, <2>6, <3>1
    <3>3. L - x \notin Other
      BY <2>5, <3>2
    <3>4. f[x] = LinesAfter(u, x)
      BY <3>1, <3>2, <3>3
    <3> QED BY <3>4 DEF x
  <2> HIDE DEF low
  <2> QED BY <1>7, <2>6, <2>7
<1>9. f[0] = LinesAfter(u, 0)
  BY <1>1, <1>3, <1>7, <1>8
<1> QED BY <1>2, <1>9 DEF f

Change(line) == IF line.direction = "INCOME" THEN line.amount ELSE -line.amount

LEMMA ThreeAreDistinct ==
    ASSUME NEW a, NEW b, NEW c, Cardinality({a, b, c}) = 3
    PROVE  a # b /\ a # c /\ b # c
<1>1. \A x, y : IsFiniteSet({x} \cup {y}) /\ Cardinality({x} \cup {y}) # 3
  <2> SUFFICES ASSUME NEW x, NEW y PROVE IsFiniteSet({x} \cup {y}) /\ Cardinality({x} \cup {y}) # 3
    OBVIOUS
  <2>1. IsFiniteSet({x}) /\ Cardinality({x}) = 1
    BY FS_Singleton
  <2> QED BY <2>1, FS_AddElement
<1>2. ASSUME a = b PROVE FALSE
  <2>1. {a, b, c} = {a} \cup {c}
    BY <1>2
  <2> QED BY <1>1, <2>1
<1>3. ASSUME a = c PROVE FALSE
  <2>1. {a, b, c} = {a} \cup {b}
    BY <1>3
  <2> QED BY <1>1, <2>1
<1>4. ASSUME b = c PROVE FALSE
  <2>1. {a, b, c} = {a} \cup {b}
    BY <1>4
  <2> QED BY <1>1, <2>1
<1> QED BY <1>2, <1>3, <1>4

(* What a line says is what the audit trail says of the user's wallet: the *)
(* lines are of the rows that speak of it.                                 *)
LEMMA LinesAreEntries ==
    ASSUME EconomyInvariant, NEW u \in Users, NEW i \in DOMAIN ledger
    PROVE  LET a == <<"balance", u>>
               entry == Entries(ledger[i])[a]
               line == StatementItem(u, i)
           IN  /\ Concerns(u, i) <=> a \in DOMAIN Entries(ledger[i])
               /\ Concerns(u, i) => line.balanceAfter = entry.after /\ Change(line) = entry.delta
<1> DEFINE row == ledger[i]
           a == <<"balance", u>>
           E == Entries(row)
           line == StatementItem(u, i)
<1>1. TypeShape(row) /\ TransactionRelations(i)
  BY DEF EconomyInvariant, MoneyHolds, LedgerAccepts
<1>2. row.type = "DAILY_CHECK_IN" \/ row.type = "TIP"
  BY <1>1 DEF TypeShape
<1>3. u # Platform
  BY EconomyAssumption
<1>4. CASE row.type = "DAILY_CHECK_IN"
  <2>1. /\ DOMAIN E = {<<"balance", row.recipient>>, <<"tips", row.recipient>>, <<"count", row.recipient>>}
        /\ E[<<"balance", row.recipient>>] = Entry(row.recipientAmount, row.recipientAfter)
    BY <1>4, EntriesOfCheckIn
  <2>2. Concerns(u, i) <=> row.recipient = u
    BY <1>4 DEF Concerns
  <2>3. line = [id |-> i, direction |-> "INCOME", amount |-> row.recipientAmount, balanceAfter |-> row.recipientAfter]
    BY <1>4 DEF StatementItem
  <2> HIDE DEF row, E, line
  <2>4. a \in DOMAIN E <=> row.recipient = u
    BY <2>1
  <2>5. line.balanceAfter = row.recipientAfter /\ Change(line) = row.recipientAmount
    BY <2>3 DEF Change
  <2>6. row.recipient = u => E[a].after = row.recipientAfter /\ E[a].delta = row.recipientAmount
    BY <2>1 DEF Entry
  <2> QED BY <2>2, <2>4, <2>5, <2>6 DEF row, E, line
<1>5. CASE row.type = "TIP"
  <2>1. row.sender # row.recipient /\ row.sender # Platform /\ row.recipient # Platform
    <3>1. Cardinality({row.sender, row.recipient, row.platform}) = 3 /\ row.platform = Platform
      BY <1>1, <1>5 DEF TypeShape, TransactionRelations
    <3> HIDE DEF row
    <3> QED BY <3>1, ThreeAreDistinct
  <2>2. /\ DOMAIN E = {<<"balance", row.sender>>, <<"balance", row.recipient>>, <<"balance", Platform>>,
                       <<"tips", row.recipient>>, <<"count", row.recipient>>}
                      \cup (IF row.kind = "USER" THEN {} ELSE {<<"target", row.target>>})
        /\ E[<<"balance", row.sender>>] = Entry(-row.gross, row.senderAfter)
        /\ E[<<"balance", row.recipient>>] = Entry(row.recipientAmount, row.recipientAfter)
    BY <1>5, <2>1, EntriesOfTip
  <2>3. Concerns(u, i) <=> row.sender = u \/ row.recipient = u
    BY <1>5 DEF Concerns
  <2>4. line = IF row.sender = u
               THEN [id |-> i, direction |-> "EXPENSE", amount |-> row.gross, balanceAfter |-> row.senderAfter]
               ELSE [id |-> i, direction |-> "INCOME", amount |-> row.recipientAmount,
                     balanceAfter |-> row.recipientAfter]
    BY <1>5 DEF StatementItem
  <2> HIDE DEF row, E, line
  <2>5. a \in DOMAIN E <=> row.sender = u \/ row.recipient = u
    BY <1>3, <2>2
  <2>6. CASE row.sender = u
    <3>1. line.balanceAfter = row.senderAfter /\ Change(line) = -row.gross
      BY <2>4, <2>6 DEF Change
    <3>2. E[a].after = row.senderAfter /\ E[a].delta = -row.gross
      BY <2>2, <2>6 DEF Entry
    <3> QED BY <2>3, <2>5, <3>1, <3>2 DEF row, E, line
  <2>7. CASE row.sender # u
    <3>1. line.balanceAfter = row.recipientAfter /\ Change(line) = row.recipientAmount
      BY <2>4, <2>7 DEF Change
    <3>2. row.recipient = u => E[a].after = row.recipientAfter /\ E[a].delta = row.recipientAmount
      BY <2>2 DEF Entry
    <3> QED BY <2>3, <2>5, <2>7, <3>1, <3>2 DEF row, E, line
  <2> QED BY <2>6, <2>7
<1> QED BY <1>2, <1>4, <1>5

(* A statement read page by page adds up.                                  *)
LEMMA StatementHolds ==
    ASSUME EconomyInvariant
    PROVE  StatementsAddUp
<1> SUFFICES ASSUME NEW u \in Users, NEW limit \in PageSizes
             PROVE  LET lines == Statement(u, limit)
                        Before(n) == IF n = Len(lines) THEN 0 ELSE lines[n + 1].balanceAfter
                    IN  /\ Len(lines) = Cardinality({i \in DOMAIN ledger : Concerns(u, i)})
                        /\ balance[u] = IF lines = <<>> THEN 0 ELSE lines[1].balanceAfter
                        /\ \A n \in DOMAIN lines : lines[n].balanceAfter = Before(n) + Change(lines[n])
  BY DEF StatementsAddUp, Change
<1> DEFINE lines == Statement(u, limit)
           a == <<"balance", u>>
           R == RowsAfter(u, 0)
           o == NewestFirst(R)
           k == Cardinality(R)
<1>1. /\ IsList(ledger) /\ LedgerExplainsTotals /\ u \in Wallets
  BY DEF EconomyInvariant, MoneyHolds, Wallets
<1>2. R \in SUBSET Int /\ IsFiniteSet(R) /\ R \subseteq DOMAIN ledger /\ k \in Nat
  BY <1>1, RowsAreNumbers
<1>3. R = {i \in DOMAIN ledger : Concerns(u, i)}
  BY DEF RowsAfter
<1>4. lines = [n \in 1..k |-> StatementItem(u, o[n])]
  <2>1. limit \in Nat \ {0}
    BY EconomyAssumption
  <2>2. lines = LinesAfter(u, 0)
    BY <1>1, <2>1, StatementHasAllLines
  <2> QED BY <2>2 DEF LinesAfter
<1>5. /\ balance[u] = EndOf(a, Spoken(a))
      /\ \A i \in Spoken(a) :
           Entries(ledger[i])[a].after = EndOf(a, {j \in Spoken(a) : j < i}) + Entries(ledger[i])[a].delta
  <2>1. a \in DOMAIN Totals /\ Totals[a] = balance[u]
    BY <1>1, TotalsAre
  <2> QED BY <1>1, <2>1, LedgerExplainsIs
<1>6. Spoken(a) = R
  BY <1>3, LinesAreEntries DEF Spoken
<1>7. ASSUME NEW i \in R
      PROVE  /\ Entries(ledger[i])[a].after = StatementItem(u, i).balanceAfter
             /\ Entries(ledger[i])[a].delta = Change(StatementItem(u, i))
  BY <1>2, <1>3, LinesAreEntries
<1> HIDE DEF R, lines, a
<1>8. DOMAIN o = 1..k /\ \A n \in 1..k : o[n] \in R
  BY <1>2, NewestFirstIs
<1>9. ASSUME NEW B \in SUBSET R, B # {}
      PROVE  EndOf(a, B) = StatementItem(u, NewestFirst(B)[1]).balanceAfter
  <2>1. B \in SUBSET Int /\ IsFiniteSet(B)
    BY <1>2, FS_Subset
  <2>2. Max(B) = NewestFirst(B)[1] /\ Max(B) \in R
    BY <1>9, <2>1, NewestIsFirst, MaxOfFinite
  <2> QED BY <1>7, <1>9, <2>2 DEF EndOf
<1> HIDE DEF o, k
<1>10. Len(lines) = k /\ DOMAIN lines = 1..k /\ \A n \in 1..k : lines[n] = StatementItem(u, o[n])
  BY <1>2, <1>4 DEF k
<1>11. balance[u] = IF lines = <<>> THEN 0 ELSE lines[1].balanceAfter
  <2>1. CASE R = {}
    <3>1. k = 0
      BY <2>1, FS_EmptySet DEF k
    <3>2. lines = <<>>
      BY <1>4, <3>1
    <3> QED BY <1>5, <1>6, <2>1, <3>2 DEF EndOf
  <2>2. CASE R # {}
    <3>1. 1 \in 1..k
      BY <1>2, <2>2, NewestIsFirst DEF k
    <3>2. lines # <<>>
      BY <1>10, <3>1
    <3>3. EndOf(a, R) = StatementItem(u, o[1]).balanceAfter
      BY <1>9, <2>2 DEF o
    <3> QED BY <1>5, <1>6, <1>10, <3>1, <3>2, <3>3
  <2> QED BY <2>1, <2>2
<1>12. ASSUME NEW n \in 1..k
       PROVE  lines[n].balanceAfter = (IF n = k THEN 0 ELSE lines[n + 1].balanceAfter) + Change(lines[n])
  <2> DEFINE B == {j \in R : j < o[n]}
  <2>1. /\ IsFiniteSet(B) /\ Cardinality(B) = k - n /\ B \subseteq R
        /\ \A m \in 1..Cardinality(B) : NewestFirst(B)[m] = o[n + m]
    <3>1. B = {j \in R : j < NewestFirst(R)[n]} /\ n \in 1..Cardinality(R)
      BY DEF o, k
    <3> HIDE DEF B
    <3>2. /\ IsFiniteSet(B) /\ Cardinality(B) = Cardinality(R) - n
          /\ \A m \in 1..Cardinality(B) : NewestFirst(B)[m] = NewestFirst(R)[n + m]
      BY <1>2, <3>1, RestOfNewestFirst
    <3>3. B \subseteq R
      BY <3>1
    <3> QED BY <3>2, <3>3 DEF o, k
  <2>2. Entries(ledger[o[n]])[a].after = EndOf(a, B) + Entries(ledger[o[n]])[a].delta
    <3>1. {j \in Spoken(a) : j < o[n]} = B
      BY <1>6
    <3>2. o[n] \in Spoken(a)
      BY <1>6, <1>8 DEF o, k
    <3> HIDE DEF B
    <3> QED BY <1>5, <3>1, <3>2
  <2> HIDE DEF B
  <2>3. lines[n].balanceAfter = EndOf(a, B) + Change(lines[n])
    BY <1>7, <1>8, <1>10, <2>2 DEF o, k
  <2>4. EndOf(a, B) = IF n = k THEN 0 ELSE lines[n + 1].balanceAfter
    <3>1. k \in Nat /\ n \in Nat /\ n <= k
      BY <1>2 DEF k
    <3>2. CASE n = k
      <4>1. B = {}
        BY <2>1, <3>1, <3>2, FS_EmptySet
      <4> QED BY <3>2, <4>1 DEF EndOf
    <3>3. CASE n # k
      <4>1. Cardinality(B) \in Nat /\ 1 \in 1..Cardinality(B) /\ n + 1 \in 1..k
        BY <2>1, <3>1, <3>3
      <4>2. B # {}
        BY <4>1, FS_EmptySet
      <4>3. NewestFirst(B)[1] = o[n + 1]
        BY <2>1, <4>1
      <4>4. EndOf(a, B) = StatementItem(u, o[n + 1]).balanceAfter
        BY <1>9, <2>1, <4>2, <4>3
      <4> QED BY <1>10, <3>3, <4>1, <4>4
    <3> QED BY <3>2, <3>3
  <2> QED BY <2>3, <2>4
<1>13. Len(lines) = Cardinality({i \in DOMAIN ledger : Concerns(u, i)})
  BY <1>3, <1>10 DEF k
<1> QED BY <1>10, <1>11, <1>12, <1>13 DEF lines

-------------------------------------------------------------------------------
LEMMA InitEconomy == Init => EconomyInvariant
<1> SUFFICES ASSUME Init PROVE EconomyInvariant
  OBVIOUS
<1>1. /\ balance = [w \in Wallets |-> 0] /\ tipTotal = [u \in Users |-> 0] /\ tipCount = [u \in Users |-> 0]
      /\ targetTotal = [t \in Targets |-> 0] /\ ledger = <<>> /\ checkIns = {}
  BY DEF Init
<1>2. DOMAIN ledger = {} /\ Len(ledger) = 0 /\ IsList(ledger)
  BY <1>1 DEF IsList
<1>3. LedgerExplainsTotals
  <2> SUFFICES ASSUME NEW a \in DOMAIN Totals PROVE Totals[a] = 0
    BY <1>2 DEF LedgerExplainsTotals
  <2> QED BY <1>1 DEF Totals
<1>4. MoneyConserved
  <2> DEFINE nothing == [i \in DOMAIN ledger |-> ledger[i].gross]
  <2>1. IsFiniteSet(Wallets) /\ \A w \in Wallets : balance[w] = 0
    BY <1>1, EconomyAssumption, FS_AddElement DEF Wallets
  <2>2. SumFunctionOnSet(balance, Wallets) = 0
    BY <2>1, SumOfNoughts
  <2>3. CheckInEntries = {}
    BY <1>2 DEF CheckInEntries
  <2>4. SumFunctionOnSet(nothing, {}) = 0
    BY FS_EmptySet, SumOfNoughts
  <2> QED BY <2>2, <2>3, <2>4 DEF MoneyConserved
<1>5. MoneyHolds
  BY <1>1, <1>2, <1>3, <1>4 DEF MoneyHolds, PaidOncePerKey, LedgerAccepts
<1>6. WorldHolds
  <2>1. plot \in Plots /\ plot.days \in 1..MaxDay /\ MaxDay \in Nat
    BY EconomyAssumption DEF Init, PlotOf
  <2>2. NewProgress.experience \in Nat
    BY DEF NewProgress
  <2> HIDE DEF NewProgress
  <2> QED BY <2>1, <2>2 DEF Init, WorldHolds
<1>7. RequestsHold
  <2>1. NoSnapshot \in Snapshots /\ NoSnapshot.ledger = 0
    BY DEF NoSnapshot, Snapshots
  <2>2. 0 \in 0..MaxAttempts
    BY EconomyAssumption
  <2>3. /\ pc = [r \in Requests |-> "new"] /\ attempt = [r \in Requests |-> 0]
        /\ snap = [r \in Requests |-> NoSnapshot] /\ dirty = [r \in Requests |-> {}]
        /\ answer = [r \in Requests |-> 0]
    BY DEF Init
  <2>4. \A r \in Requests : RequestOK(r)
    BY <1>2, <2>1, <2>2, <2>3 DEF RequestOK, AttemptFits, AnswerFits
  <2> HIDE DEF NoSnapshot
  <2> QED BY <2>1, <2>2, <2>3, <2>4 DEF RequestsHold, Places
<1> QED BY <1>5, <1>6, <1>7 DEF EconomyInvariant

LEMMA NextEconomy == EconomyInvariant /\ [Next]_vars => EconomyInvariant'
<1> SUFFICES ASSUME EconomyInvariant, [Next]_vars PROVE EconomyInvariant'
  OBVIOUS
<1>1. ASSUME NEW u \in Users, checkIn(u) \/ dailyActivity(u) \/ deactivate(u)
      PROVE  EconomyInvariant'
  BY <1>1, checkInHolds, dailyActivityHolds, deactivateHolds
<1>2. ASSUME NEW u \in Users, NEW v \in Users, block(u, v) \/ unblock(u, v)
      PROVE  EconomyInvariant'
  BY <1>2, blockHolds
<1>3. ASSUME NEW t \in Targets, deleteTarget(t) \/ setVisibility(t)
      PROVE  EconomyInvariant'
  BY <1>3, deleteTargetHolds, setVisibilityHolds
<1>4. CASE nextDay
  BY <1>4, nextDayHolds
<1>5. ASSUME NEW r \in Requests,
             prepareTip(r) \/ lookAtTarget(r) \/ beginTip(r) \/ completeTip(r) \/ conflictTip(r)
      PROVE  EconomyInvariant'
  BY <1>5, prepareTipHolds, lookAtTargetHolds, beginTipHolds, completeTipHolds, conflictTipHolds
<1>6. CASE UNCHANGED vars
  <2>1. UNCHANGED moneyVars /\ UNCHANGED worldVars /\ UNCHANGED requestVars
    BY <1>6 DEF vars
  <2>2. MoneyHolds' /\ LedgerGrows /\ DOMAIN ledger' \ DOMAIN ledger = {}
    BY <2>1, MoneyStays DEF EconomyInvariant
  <2>3. WorldHolds' /\ denied' = denied
    BY <2>1 DEF EconomyInvariant, WorldHolds, worldVars
  <2>4. /\ UNCHANGED <<pc, attempt, snap, answer>> /\ dirty' = [r \in Requests |-> dirty'[r]]
        /\ \A r \in Requests : Marked(r)
    BY <2>1, <2>2, <2>3 DEF requestVars, Marked, EconomyInvariant, RequestsHold, RequestOK
  <2> QED BY <2>2, <2>3, <2>4, OthersHold
<1> QED BY <1>1, <1>2, <1>3, <1>4, <1>5, <1>6 DEF Next

(* Every reachable state of accounts, money and requests is sound.         *)
THEOREM EconomyIsSound == Spec => []EconomyInvariant
<1> QED BY InitEconomy, NextEconomy, PTL DEF Spec

(* No wallet is ever overdrawn by tips that race, and what a request keeps *)
(* of its transaction is what it is going to touch.                        *)
THEOREM NoWalletIsOverdrawn == Spec => []TypeOK
<1>1. EconomyInvariant => TypeOK
  BY Lists DEF EconomyInvariant, MoneyHolds, WorldHolds, RequestsHold, RequestOK, AnswerFits, TypeOK, Places
<1> QED BY <1>1, EconomyIsSound, PTL

(* However the copies of a request race and whatever is retried, a sender  *)
(* pays once for a client request id, and who is told that a tip was paid  *)
(* is told of his own payment for exactly what he asked.                   *)
THEOREM RequestsArePaidOnce == Spec => []RetriesArePaidOnce
<1>1. EconomyInvariant => RetriesArePaidOnce
  BY DEF EconomyInvariant, MoneyHolds, RequestsHold, RequestOK, AnswerFits, RetriesArePaidOnce, AnswersArePayments
<1> QED BY <1>1, EconomyIsSound, PTL

(* The append-only ledger is an audit trail: for every wallet and public   *)
(* total each row continues where the last row that spoke of it ended, and *)
(* the columns of today are where the last rows ended.                     *)
THEOREM LedgerIsAnAuditTrail == Spec => []LedgerExplainsTotals
<1>1. EconomyInvariant => LedgerExplainsTotals
  BY DEF EconomyInvariant, MoneyHolds
<1> QED BY <1>1, EconomyIsSound, PTL

(* No row and no check-in is ever one that a constraint or a trigger of    *)
(* the database refuses.                                                   *)
THEOREM ConstraintsNeverStopTheService == Spec => []LedgerAccepts
<1>1. EconomyInvariant => LedgerAccepts
  BY DEF EconomyInvariant, MoneyHolds
<1> QED BY <1>1, EconomyIsSound, PTL

(* Tips only move money: what is in the wallets came in by check-ins.      *)
THEOREM MoneyIsConserved == Spec => []MoneyConserved
<1>1. EconomyInvariant => MoneyConserved
  BY DEF EconomyInvariant, MoneyHolds
<1> QED BY <1>1, EconomyIsSound, PTL

(* A statement read page by page, with pages of any length, has every row  *)
(* of the wallet once, starts with what is in the wallet, and each of its  *)
(* lines says what the line below it said, and the amount.                 *)
THEOREM StatementsAlwaysAddUp == Spec => []StatementsAddUp
<1> QED BY StatementHolds, EconomyIsSound, PTL

(* The books as an auditor takes them, in every reachable state.           *)
THEOREM TheBooksBalance == Spec => []BooksBalance
<1>1. TypeOK /\ LedgerExplainsTotals /\ MoneyConserved /\ LedgerAccepts /\ StatementsAddUp => BooksBalance
  BY DEF BooksBalance
<1> QED BY <1>1, NoWalletIsOverdrawn, LedgerIsAnAuditTrail, MoneyIsConserved, ConstraintsNeverStopTheService,
           StatementsAlwaysAddUp, PTL

-------------------------------------------------------------------------------
(* Steps that pay nobody. *)
LEMMA QuietLedger ==
    ASSUME EconomyInvariant, ledger' = ledger
    PROVE  LivingTips
<1>1. Len(ledger) \in Nat
  BY RequestTypes, Lists
<1> QED BY <1>1 DEF LivingTips, NewTips

LEMMA CheckInsPayNobody ==
    ASSUME EconomyInvariant, NEW u \in Users, checkIn(u)
    PROVE  LivingTips
<1>1. PICK row : Entered(row) /\ row.type = "DAILY_CHECK_IN"
  BY DEF checkIn
<1>2. IsList(ledger) /\ Len(ledger) \in Nat
  BY RequestTypes, Lists
<1>3. Len(ledger') = Len(ledger) + 1 /\ ledger'[Len(ledger) + 1] = row
  BY <1>1, <1>2, ListsGrow DEF Entered
<1> QED BY <1>1, <1>2, <1>3 DEF LivingTips, NewTips

(* What was true when the transaction began is still true of the rows that *)
(* nobody has changed since.                                               *)
LEMMA PaymentsAreAmongTheLiving ==
    ASSUME EconomyInvariant, NEW r \in Requests, pc[r] = "in_tx", ~Refused(r), TargetIsClean(r), Pay(r)
    PROVE  LivingTips
<1> DEFINE row == TipRow(r)
<1>1. /\ row.sender = r.sender /\ row.recipient = r.recipient /\ row.kind = r.kind
      /\ (r.kind # "USER" => row.target = r.target)
  BY TipRowFields
<1>2. Entered(row)
  BY DEF Pay
<1> HIDE DEF row
<1>3. IsList(ledger) /\ Len(ledger) \in Nat
  BY RequestTypes, Lists
<1>4. Len(ledger') = Len(ledger) + 1 /\ ledger'[Len(ledger) + 1] = row
  BY <1>2, <1>3, ListsGrow DEF Entered
<1>5. {r.sender, r.recipient} \cap inactive = {} /\ (r.kind # "USER" => r.target \notin gone)
  BY DEF Refused
<1>6. r.kind = "THREAD" => r.target \notin denied
  BY RequestTypes DEF RequestOK, AttemptFits, Refused, TargetIsClean
<1>7. \A i \in NewTips : ledger'[i] = row
  BY <1>3, <1>4 DEF NewTips
<1> QED BY <1>1, <1>5, <1>6, <1>7 DEF LivingTips

(* Money never moves to or from an account that is deactivated, nor on a   *)
(* thread or moment that is deleted or a thread the sender may not see, at *)
(* the moment the tip is committed.                                        *)
THEOREM TipsAreAmongTheLiving == Spec => TipsOnlyAmongTheLiving
<1>1. EconomyInvariant /\ [Next]_vars => [LivingTips]_vars
  <2> SUFFICES ASSUME EconomyInvariant, Next PROVE LivingTips
    OBVIOUS
  <2>1. ASSUME NEW u \in Users, checkIn(u) \/ dailyActivity(u) \/ deactivate(u)
        PROVE  LivingTips
    BY <2>1, CheckInsPayNobody, QuietLedger DEF dailyActivity, deactivate, moneyVars
  <2>2. ASSUME NEW u \in Users, NEW v \in Users, block(u, v) \/ unblock(u, v)
        PROVE  LivingTips
    BY <2>2, QuietLedger DEF block, unblock, moneyVars
  <2>3. ASSUME NEW t \in Targets, deleteTarget(t) \/ setVisibility(t)
        PROVE  LivingTips
    BY <2>3, QuietLedger DEF deleteTarget, setVisibility, moneyVars
  <2>4. CASE nextDay
    BY <2>4, QuietLedger DEF nextDay, moneyVars
  <2>5. ASSUME NEW r \in Requests,
               prepareTip(r) \/ lookAtTarget(r) \/ beginTip(r) \/ completeTip(r) \/ conflictTip(r)
        PROVE  LivingTips
    <3>1. CASE UNCHANGED moneyVars
      BY <3>1, QuietLedger DEF moneyVars
    <3>2. CASE pc[r] = "in_tx" /\ ~Refused(r) /\ TargetIsClean(r) /\ Pay(r)
      BY <3>2, PaymentsAreAmongTheLiving
    <3> QED BY <2>5, <3>1, <3>2 DEF prepareTip, lookAtTarget, beginTip, completeTip, conflictTip
  <2> QED BY <2>1, <2>2, <2>3, <2>4, <2>5 DEF Next
<1> QED BY <1>1, EconomyIsSound, PTL DEF Spec, TipsOnlyAmongTheLiving
===============================================================================
