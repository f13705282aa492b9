------------------------------ MODULE GraphProofs ----------------------------
(***************************************************************************)
(* Proofs about Fixpoints and ControlFlow: what Fixpoint and Closure       *)
(* compute, for every step and every finite set; and that what the rounds  *)
(* of computeDominators end in are the dominators, by the paths of the     *)
(* graph.                                                                  *)
(***************************************************************************)
EXTENDS ControlFlow, FiniteSetTheorems, TLAPS

(* A function that follows step until it changes nothing.                   *)
Follows(settle, step) ==
  settle = [y \in DOMAIN step |-> IF step[y] = y THEN y ELSE settle[step[y]]]

(* The arguments from which step leads to z: the least set that has z and   *)
(* whatever leads into the set.                                             *)
LeadsIn(step, T) == \A y \in DOMAIN step : step[y] \in T => y \in T
Basin(step, z) == {y \in DOMAIN step : \A T \in SUBSET DOMAIN step : z \in T /\ LeadsIn(step, T) => y \in T}

(* What leads to z other than z itself does so by a step that moves.        *)
LEMMA BasinStep ==
  ASSUME NEW D, NEW step \in [D -> D], NEW z \in D, NEW y \in D, y # z
  PROVE  y \in Basin(step, z) <=> step[y] # y /\ step[y] \in Basin(step, z)
<1> DEFINE B == Basin(step, z)
<1>1. B \subseteq D /\ z \in B /\ LeadsIn(step, B)
  BY DEF Basin, LeadsIn
<1>2. ASSUME y \in B, step[y] = y \/ step[y] \notin B PROVE FALSE
  <2>1. z \in B \ {y} /\ B \ {y} \in SUBSET DOMAIN step
    BY <1>1
  <2>2. LeadsIn(step, B \ {y})
    BY <1>1, <1>2 DEF LeadsIn
  <2>3. y \in B \ {y}
    BY <1>2, <2>1, <2>2 DEF Basin
  <2> QED  BY <2>3
<1>3. ASSUME step[y] \in B PROVE y \in B
  BY <1>1, <1>3 DEF LeadsIn
<1> QED  BY <1>2, <1>3

(* Such a function exists, whatever the step: its value is the fixed point  *)
(* that is led to, and the same for all where there is none.                *)
LEMMA FollowerExists ==
  ASSUME NEW D, NEW step \in [D -> D]
  PROVE  \E settle : Follows(settle, step)
<1> DEFINE Ends(y) == {z \in D : step[z] = z /\ y \in Basin(step, z)}
           settle == [y \in D |-> CHOOSE z : z \in Ends(y)]
<1>1. ASSUME NEW y \in D, step[y] = y PROVE Ends(y) = {y}
  <2>1. y \in Ends(y)
    BY <1>1 DEF Basin
  <2>2. ASSUME NEW z \in Ends(y), z # y PROVE FALSE
    BY <1>1, <2>2, BasinStep
  <2> QED  BY <2>1, <2>2
<1>2. ASSUME NEW y \in D, step[y] # y PROVE Ends(y) = Ends(step[y])
  <2>1. ASSUME NEW z \in D, step[z] = z PROVE y \in Basin(step, z) <=> step[y] \in Basin(step, z)
    <3>1. y # z
      BY <1>2, <2>1
    <3> QED  BY <1>2, <2>1, <3>1, BasinStep
  <2> QED  BY <2>1
<1>3. \A y \in D : settle[y] = CHOOSE z : z \in Ends(y)
  OBVIOUS
<1>4. settle = [y \in D |-> settle[y]]
  OBVIOUS
<1> HIDE DEF settle, Ends
<1>5. ASSUME NEW y \in D PROVE settle[y] = IF step[y] = y THEN y ELSE settle[step[y]]
  <2>1. CASE step[y] = y
    BY <1>1, <1>3, <2>1
  <2>2. CASE step[y] # y
    BY <1>2, <1>3, <2>2
  <2> QED  BY <2>1, <2>2
<1>6. settle = [y \in D |-> IF step[y] = y THEN y ELSE settle[step[y]]]
  BY <1>4, <1>5
<1> QED  BY <1>6 DEF Follows

(* Fixpoint is the value of such a function.                                *)
LEMMA FixpointFollows ==
  ASSUME NEW D, NEW step \in [D -> D]
  PROVE  \E settle : Follows(settle, step) /\ \A x : Fixpoint(step, x) = settle[x]
<1> DEFINE s == CHOOSE settle : Follows(settle, step)
<1>1. Follows(s, step)
  BY FollowerExists
<1>2. \A x : Fixpoint(step, x) = s[x]
  BY DEF Fixpoint, Follows
<1> QED  BY <1>1, <1>2

(* If every step from a set stays in it, and no part of the set is without  *)
(* an element whose step ends or leaves the part, the loop ends in the set. *)
LEMMA FixpointReached ==
  ASSUME NEW D, NEW step \in [D -> D], NEW O \in SUBSET D, NEW x \in O,
         \A y \in O : step[y] \in O,
         \A T \in SUBSET O : T # {} => \E y \in T : step[y] = y \/ step[y] \notin T
  PROVE  Fixpoint(step, x) \in O /\ step[Fixpoint(step, x)] = Fixpoint(step, x)
<1>1. PICK settle : Follows(settle, step) /\ \A y : Fixpoint(step, y) = settle[y]
  BY FixpointFollows
<1>2. \A y \in D : settle[y] = IF step[y] = y THEN y ELSE settle[step[y]]
  BY <1>1 DEF Follows
<1> DEFINE Good(y) == settle[y] \in O /\ step[settle[y]] = settle[y]
           T == {y \in O : ~Good(y)}
<1>3. ASSUME T # {} PROVE FALSE
  <2>1. PICK y \in T : step[y] = y \/ step[y] \notin T
    BY <1>3
  <2>2. CASE step[y] = y
    BY <1>2, <2>1, <2>2
  <2>3. CASE step[y] # y
    BY <1>2, <2>1, <2>3
  <2> QED  BY <2>2, <2>3
<1> QED  BY <1>1, <1>3

-----------------------------------------------------------------------------
(* Among the subsets of a finite set there are no endless chains.           *)

(* Among subsets of a finite set one is smallest, and one is largest.       *)
LEMMA SmallestSet ==
  ASSUME NEW N, IsFiniteSet(N), NEW T \in SUBSET SUBSET N, T # {}
  PROVE  \E X \in T : \A Y \in T : Y \subseteq X => Y = X
<1>1. IsWellFoundedOn(StrictSubsetOrdering(N), SUBSET N)
  BY FS_StrictSubsetOrderingWellFounded, FS_FiniteSubsetsOfFinite
<1>2. PICK X \in T : \A Y \in T : <<Y, X>> \notin StrictSubsetOrdering(N)
  BY <1>1, WFMin
<1> QED  BY <1>2 DEF StrictSubsetOrdering

(* A set of numbers that has m, and with each number the next, has all from *)
(* m to N: induction, for a property that is a set.  Were one missing, the  *)
(* smallest interval up to one would end at a number whose predecessor is   *)
(* in the set.                                                              *)
LEMMA SetInduction ==
  ASSUME NEW m \in Nat, NEW N \in Nat, NEW G, m \in G,
         \A n \in m .. N : n \in G /\ n < N => n + 1 \in G
  PROVE  \A n \in m .. N : n \in G
<1> DEFINE Missed == {0 .. n : n \in {k \in m .. N : k \notin G}}
<1> SUFFICES ASSUME NEW k \in m .. N, k \notin G PROVE FALSE
  OBVIOUS
<1>1. Missed \in SUBSET SUBSET (0 .. N) /\ Missed # {}
  OBVIOUS
<1>2. PICK X \in Missed : \A Y \in Missed : Y \subseteq X => Y = X
  <2> DEFINE All == 0 .. N
  <2>1. IsFiniteSet(All) /\ Missed \in SUBSET SUBSET All /\ Missed # {}
    BY <1>1, FS_Interval
  <2> HIDE DEF Missed, All
  <2> QED  BY <2>1, SmallestSet
<1>3. PICK n \in m .. N : n \notin G /\ X = 0 .. n
  OBVIOUS
<1>4. n - 1 \in m .. N /\ n - 1 \notin G
  BY <1>3
<1>5. 0 .. (n - 1) \in Missed
  BY <1>4
<1>6. 0 .. (n - 1) \subseteq 0 .. n /\ n \in 0 .. n /\ n \notin 0 .. (n - 1)
  OBVIOUS
<1> QED  BY <1>2, <1>3, <1>5, <1>6

(* The complement of a smallest complement is largest.                      *)
LEMMA LargestSet ==
  ASSUME NEW N, IsFiniteSet(N), NEW T \in SUBSET SUBSET N, T # {}
  PROVE  \E X \in T : \A Y \in T : X \subseteq Y => Y = X
<1> DEFINE C == {Z \in SUBSET N : N \ Z \in T}
<1>1. C # {}
  <2>1. PICK X \in T : TRUE
    OBVIOUS
  <2>2. N \ (N \ X) = X
    OBVIOUS
  <2> QED  BY <2>2
<1>2. C \in SUBSET SUBSET N
  OBVIOUS
<1> HIDE DEF C
<1>3. PICK Z \in C : \A Y \in C : Y \subseteq Z => Y = Z
  BY <1>1, <1>2, SmallestSet
<1> USE DEF C
<1>4. ASSUME NEW Y \in T, N \ Z \subseteq Y PROVE Y = N \ Z
  <2>1. N \ (N \ Y) = Y
    OBVIOUS
  <2>2. N \ Y \in C /\ N \ Y \subseteq Z
    BY <1>4, <2>1
  <2>3. N \ Y = Z
    BY <1>3, <2>2
  <2> QED  BY <2>1, <2>3
<1> QED  BY <1>3, <1>4

(* The same for the functions from a finite set to the subsets of one.      *)
Under(f, g) == \A k \in DOMAIN f : f[k] \subseteq g[k]

Pairs(f, K, V) == {kv \in K \X V : kv[2] \in f[kv[1]]}

(* A map is determined, and ordered, by the pairs it has.                   *)
LEMMA PairsOrder ==
  ASSUME NEW K, NEW V, NEW f \in [K -> SUBSET V], NEW g \in [K -> SUBSET V]
  PROVE  /\ Under(f, g) <=> Pairs(f, K, V) \subseteq Pairs(g, K, V)
         /\ f = g <=> Pairs(f, K, V) = Pairs(g, K, V)
<1>1. ASSUME NEW h \in [K -> SUBSET V], NEW k \in K, NEW v \in V
      PROVE  <<k, v>> \in Pairs(h, K, V) <=> v \in h[k]
  BY DEF Pairs
<1>2. ASSUME NEW h \in [K -> SUBSET V], NEW e \in [K -> SUBSET V], Pairs(h, K, V) \subseteq Pairs(e, K, V)
      PROVE  \A k \in K : h[k] \subseteq e[k]
  BY <1>1, <1>2
<1>3. Under(f, g) => Pairs(f, K, V) \subseteq Pairs(g, K, V)
  BY DEF Under, Pairs
<1>4. Pairs(f, K, V) = Pairs(g, K, V) => \A k \in K : f[k] = g[k]
  BY <1>2
<1> QED  BY <1>2, <1>3, <1>4 DEF Under

(* So among such maps one is largest.                                       *)
LEMMA LargestMap ==
  ASSUME NEW K, IsFiniteSet(K), NEW V, IsFiniteSet(V), NEW T \in SUBSET [K -> SUBSET V], T # {}
  PROVE  \E f \in T : \A g \in T : Under(f, g) => g = f
<1> DEFINE P == {Pairs(f, K, V) : f \in T}
<1>1. IsFiniteSet(K \X V)
  BY FS_Product
<1>2. P # {}
  OBVIOUS
<1>3. \A Y \in P : Y \in SUBSET (K \X V)
  BY DEF Pairs
<1>4. \A Y \in P : \E f \in T : Y = Pairs(f, K, V)
  OBVIOUS
<1>5. \A f \in T : Pairs(f, K, V) \in P
  OBVIOUS
<1> HIDE DEF P
<1>6. PICK Z \in P : \A Y \in P : Z \subseteq Y => Y = Z
  BY <1>1, <1>2, <1>3, LargestSet
<1>7. PICK f \in T : Z = Pairs(f, K, V)
  BY <1>4
<1>8. ASSUME NEW g \in T, Under(f, g) PROVE g = f
  BY <1>5, <1>6, <1>7, <1>8, PairsOrder
<1> QED  BY <1>8

(* And one is smallest.                                                     *)
LEMMA SmallestMap ==
  ASSUME NEW K, IsFiniteSet(K), NEW V, IsFiniteSet(V), NEW T \in SUBSET [K -> SUBSET V], T # {}
  PROVE  \E f \in T : \A g \in T : Under(g, f) => g = f
<1> DEFINE P == {Pairs(f, K, V) : f \in T}
<1>1. IsFiniteSet(K \X V)
  BY FS_Product
<1>2. P # {}
  OBVIOUS
<1>3. \A Y \in P : Y \in SUBSET (K \X V)
  BY DEF Pairs
<1>4. \A Y \in P : \E f \in T : Y = Pairs(f, K, V)
  OBVIOUS
<1>5. \A f \in T : Pairs(f, K, V) \in P
  OBVIOUS
<1> HIDE DEF P
<1>6. PICK Z \in P : \A Y \in P : Y \subseteq Z => Y = Z
  BY <1>1, <1>2, <1>3, SmallestSet
<1>7. PICK f \in T : Z = Pairs(f, K, V)
  BY <1>4
<1>8. ASSUME NEW g \in T, Under(g, f) PROVE g = f
  BY <1>5, <1>6, <1>7, <1>8, PairsOrder
<1> QED  BY <1>8

-----------------------------------------------------------------------------
(* Closures *)

Closed(next, T) == \A c \in T : next[c] \subseteq T

(* Closure(next, S) has all of S, is closed under next, and is the least    *)
(* such set.                                                                *)
THEOREM ClosureIsLeast ==
  ASSUME NEW N, IsFiniteSet(N), NEW next \in [N -> SUBSET N], NEW S \in SUBSET N
  PROVE  /\ Closure(next, S) \in SUBSET N
         /\ S \subseteq Closure(next, S)
         /\ Closed(next, Closure(next, S))
         /\ \A T \in SUBSET N : S \subseteq T /\ Closed(next, T) => Closure(next, S) \subseteq T
<1> DEFINE Grow(X) == X \cup UNION {next[c] : c \in X}
           step == [X \in SUBSET N |-> Grow(X)]
           O == {X \in SUBSET N : S \subseteq X /\ \A T \in SUBSET N : S \subseteq T /\ Closed(next, T) => X \subseteq T}
<1>1. Closure(next, S) = Fixpoint(step, S)
  BY DEF Closure
<1>2. \A X \in SUBSET N : Grow(X) \in SUBSET N /\ X \subseteq Grow(X)
  OBVIOUS
<1>3. step \in [SUBSET N -> SUBSET N] /\ \A X \in SUBSET N : step[X] = Grow(X)
  BY <1>2
<1>4. S \in O /\ O \in SUBSET SUBSET N
  OBVIOUS
<1>5. ASSUME NEW X \in O PROVE step[X] \in O
  <2>1. ASSUME NEW T \in SUBSET N, S \subseteq T, Closed(next, T) PROVE Grow(X) \subseteq T
    BY <2>1 DEF Closed
  <2> QED  BY <1>2, <1>3, <2>1
<1>6. \A X \in SUBSET N : X \subseteq step[X]
  BY <1>2, <1>3
<1> HIDE DEF step
<1>7. ASSUME NEW T \in SUBSET O, T # {} PROVE \E X \in T : step[X] = X \/ step[X] \notin T
  <2>1. T \in SUBSET SUBSET N
    OBVIOUS
  <2>2. PICK X \in T : \A Y \in T : X \subseteq Y => Y = X
    BY <1>7, <2>1, LargestSet
  <2>3. X \subseteq step[X]
    BY <1>6, <2>1
  <2> QED  BY <2>2, <2>3
<1> DEFINE D == SUBSET N
<1>8. step \in [D -> D] /\ O \in SUBSET D /\ S \in O
  BY <1>3, <1>4
<1>9. \A X \in O : step[X] \in O
  BY <1>5
<1>10. \A T \in SUBSET O : T # {} => \E X \in T : step[X] = X \/ step[X] \notin T
  BY <1>7
<1> HIDE DEF O, D
<1>11. Fixpoint(step, S) \in O /\ step[Fixpoint(step, S)] = Fixpoint(step, S)
  BY <1>8, <1>9, <1>10, FixpointReached
<1> USE DEF O
<1>12. Grow(Closure(next, S)) = Closure(next, S)
  BY <1>1, <1>3, <1>11
<1>13. Closed(next, Closure(next, S))
  BY <1>12 DEF Closed
<1> QED  BY <1>1, <1>11, <1>13

-----------------------------------------------------------------------------
(* Fixed points of monotone steps on maps: the least from below, and the    *)
(* greatest from above.                                                     *)

(* The order of maps is transitive.                                         *)
LEMMA UnderTransitive ==
  ASSUME NEW K, NEW V, NEW f \in [K -> SUBSET V], NEW g \in [K -> SUBSET V], NEW h \in [K -> SUBSET V],
         Under(f, g), Under(g, h)
  PROVE  Under(f, h)
BY DEF Under

(* step is monotone on the maps M from K to the subsets of V.                *)
MonotoneStep(K, V, M, step) ==
  /\ IsFiniteSet(K) /\ IsFiniteSet(V) /\ M = [K -> SUBSET V]
  /\ step \in [M -> M]
  /\ \A f, g \in M : Under(f, g) => Under(step[f], step[g])

(* A monotone step that starts below what it gives ends in the least of its *)
(* fixed points that are above the start.                                   *)
THEOREM LeastFixpoint ==
  ASSUME NEW K, NEW V, NEW M, NEW step, MonotoneStep(K, V, M, step), NEW x \in M, Under(x, step[x])
  PROVE  /\ Fixpoint(step, x) \in M
         /\ step[Fixpoint(step, x)] = Fixpoint(step, x)
         /\ Under(x, Fixpoint(step, x))
         /\ \A w \in M : step[w] = w /\ Under(x, w) => Under(Fixpoint(step, x), w)
<1> USE DEF MonotoneStep
<1> DEFINE O == {f \in M : /\ Under(x, f) /\ Under(f, step[f])
                           /\ \A w \in M : step[w] = w /\ Under(x, w) => Under(f, w)}
<1>1. x \in O /\ O \in SUBSET M
  BY DEF Under
<1>2. \A f \in O : step[f] \in O
  <2> SUFFICES ASSUME NEW f \in O PROVE step[f] \in O
    OBVIOUS
  <2>1. step[f] \in M /\ Under(step[f], step[step[f]])
    OBVIOUS
  <2>2. Under(x, step[f])
    <3>1. Under(x, f) /\ Under(f, step[f])
      OBVIOUS
    <3> QED  BY <2>1, <3>1, UnderTransitive
  <2>3. ASSUME NEW w \in M, step[w] = w, Under(x, w) PROVE Under(step[f], w)
    BY <2>3
  <2> QED  BY <2>1, <2>2, <2>3
<1>3. \A T \in SUBSET O : T # {} => \E f \in T : step[f] = f \/ step[f] \notin T
  <2> SUFFICES ASSUME NEW T \in SUBSET O, T # {} PROVE \E f \in T : step[f] = f \/ step[f] \notin T
    OBVIOUS
  <2>1. T \in SUBSET [K -> SUBSET V] /\ \A f \in T : Under(f, step[f])
    OBVIOUS
  <2> HIDE DEF O
  <2>2. PICK f \in T : \A g \in T : Under(f, g) => g = f
    BY <2>1, LargestMap
  <2> QED  BY <2>1, <2>2
<1> HIDE DEF O
<1>4. step \in [M -> M]
  OBVIOUS
<1>5. Fixpoint(step, x) \in O /\ step[Fixpoint(step, x)] = Fixpoint(step, x)
  BY ONLY <1>1, <1>2, <1>3, <1>4, FixpointReached
<1> QED  BY <1>1, <1>5 DEF O

(* A monotone step that starts above what it gives ends in the greatest of  *)
(* its fixed points that are below the start.                               *)
THEOREM GreatestFixpoint ==
  ASSUME NEW K, NEW V, NEW M, NEW step, MonotoneStep(K, V, M, step), NEW x \in M, Under(step[x], x)
  PROVE  /\ Fixpoint(step, x) \in M
         /\ step[Fixpoint(step, x)] = Fixpoint(step, x)
         /\ Under(Fixpoint(step, x), x)
         /\ \A w \in M : step[w] = w /\ Under(w, x) => Under(w, Fixpoint(step, x))
<1> USE DEF MonotoneStep
<1> DEFINE O == {f \in M : /\ Under(f, x) /\ Under(step[f], f)
                           /\ \A w \in M : step[w] = w /\ Under(w, x) => Under(w, f)}
<1>1. x \in O /\ O \in SUBSET M
  BY DEF Under
<1>2. \A f \in O : step[f] \in O
  <2> SUFFICES ASSUME NEW f \in O PROVE step[f] \in O
    OBVIOUS
  <2>1. step[f] \in M /\ Under(step[step[f]], step[f])
    OBVIOUS
  <2>2. Under(step[f], x)
    <3>1. Under(f, x) /\ Under(step[f], f)
      OBVIOUS
    <3> QED  BY <2>1, <3>1, UnderTransitive
  <2>3. ASSUME NEW w \in M, step[w] = w, Under(w, x) PROVE Under(w, step[f])
    BY <2>3
  <2> QED  BY <2>1, <2>2, <2>3
<1>3. \A T \in SUBSET O : T # {} => \E f \in T : step[f] = f \/ step[f] \notin T
  <2> SUFFICES ASSUME NEW T \in SUBSET O, T # {} PROVE \E f \in T : step[f] = f \/ step[f] \notin T
    OBVIOUS
  <2>1. T \in SUBSET [K -> SUBSET V] /\ \A f \in T : Under(step[f], f)
    OBVIOUS
  <2> HIDE DEF O
  <2>2. PICK f \in T : \A g \in T : Under(g, f) => g = f
    BY <2>1, SmallestMap
  <2> QED  BY <2>1, <2>2
<1> HIDE DEF O
<1>4. step \in [M -> M]
  OBVIOUS
<1>5. Fixpoint(step, x) \in O /\ step[Fixpoint(step, x)] = Fixpoint(step, x)
  BY ONLY <1>1, <1>2, <1>3, <1>4, FixpointReached
<1> QED  BY <1>1, <1>5 DEF O

-----------------------------------------------------------------------------
(* Dominators.                                                              *)

(* The graphs the program builds: block 0 is the entry, edges lead to       *)
(* blocks and are listed at both ends, which verifyCFG checks.              *)
IsGraph(g) ==
  /\ IsFiniteSet(Blocks(g)) /\ Entry \in Blocks(g)
  /\ g.succs \in [Blocks(g) -> Seq(Blocks(g))]
  /\ g.preds \in [Blocks(g) -> Seq(Blocks(g))]
  /\ \A b, c \in Blocks(g) : c \in Succs(g, b) <=> b \in Preds(g, c)

(* The blocks that every path from the entry to b goes through.             *)
OnEveryPath(g, b) == {d \in Blocks(g) : b \notin ReachableThrough(g, Blocks(g) \ {d})}

-----------------------------------------------------------------------------
(* Sequences as the sets of what is in them.                                *)

LEMMA JoinedHas ==
  ASSUME NEW U, NEW s \in Seq(U), NEW t \in Seq(U)
  PROVE  s \o t \in Seq(U) /\ ToSet(s \o t) = ToSet(s) \cup ToSet(t)
<1>1. s \o t \in Seq(U)
  OBVIOUS
<1>2. ASSUME NEW i \in DOMAIN s PROVE s[i] \in ToSet(s \o t)
  <2>1. i \in DOMAIN (s \o t) /\ (s \o t)[i] = s[i]
    OBVIOUS
  <2> QED  BY <2>1 DEF ToSet
<1>3. ASSUME NEW i \in DOMAIN t PROVE t[i] \in ToSet(s \o t)
  <2>1. i + Len(s) \in DOMAIN (s \o t) /\ (s \o t)[i + Len(s)] = t[i]
    OBVIOUS
  <2> QED  BY <2>1 DEF ToSet
<1>4. ASSUME NEW i \in DOMAIN (s \o t) PROVE (s \o t)[i] \in ToSet(s) \cup ToSet(t)
  <2>1. CASE i \in DOMAIN s
    BY <2>1 DEF ToSet
  <2>2. CASE i \notin DOMAIN s
    <3>1. i - Len(s) \in DOMAIN t /\ (s \o t)[i] = t[i - Len(s)]
      BY <2>2
    <3> QED  BY <3>1 DEF ToSet
  <2> QED  BY <2>1, <2>2
<1> QED  BY <1>1, <1>2, <1>3, <1>4 DEF ToSet

LEMMA AppendedHas ==
  ASSUME NEW U, NEW s \in Seq(U), NEW e \in U
  PROVE  Append(s, e) \in Seq(U) /\ ToSet(Append(s, e)) = ToSet(s) \cup {e}
<1>1. <<e>> \in Seq(U) /\ Append(s, e) = s \o <<e>>
  OBVIOUS
<1>2. ToSet(<<e>>) = {e}
  BY DEF ToSet
<1>3. s \o <<e>> \in Seq(U) /\ ToSet(s \o <<e>>) = ToSet(s) \cup ToSet(<<e>>)
  BY <1>1, JoinedHas, Zenon
<1> QED  BY <1>1, <1>2, <1>3, Zenon

LEMMA TailHas ==
  ASSUME NEW U, NEW s \in Seq(U), s # <<>>
  PROVE  Head(s) \in U /\ Tail(s) \in Seq(U) /\ ToSet(s) = {Head(s)} \cup ToSet(Tail(s))
<1>1. Head(s) \in U /\ Tail(s) \in Seq(U) /\ <<Head(s)>> \in Seq(U) /\ s = <<Head(s)>> \o Tail(s)
  OBVIOUS
<1>2. ToSet(<<Head(s)>>) = {Head(s)}
  BY DEF ToSet
<1>3. ToSet(<<Head(s)>> \o Tail(s)) = ToSet(<<Head(s)>>) \cup ToSet(Tail(s))
  BY <1>1, JoinedHas, Zenon
<1> QED  BY <1>1, <1>2, <1>3, Zenon

(* FlattenSeq joins the sequences one by one.                               *)
IsJoin(f, seqs, n) == f = [i \in 1 .. n |-> IF i = 1 THEN seqs[i] ELSE f[i - 1] \o seqs[i]]

LEMMA JoinExtends ==
  ASSUME NEW seqs, NEW n \in Nat, NEW f, IsJoin(f, seqs, n)
  PROVE  \E h : IsJoin(h, seqs, n + 1)
<1> DEFINE h == [i \in 1 .. n + 1 |-> IF i = n + 1 THEN (IF i = 1 THEN seqs[i] ELSE f[n] \o seqs[i]) ELSE f[i]]
<1>1. \A i \in 1 .. n : f[i] = IF i = 1 THEN seqs[i] ELSE f[i - 1] \o seqs[i]
  BY DEF IsJoin
<1>2. \A i \in 1 .. n + 1 : h[i] = IF i = 1 THEN seqs[i] ELSE h[i - 1] \o seqs[i]
  <2> SUFFICES ASSUME NEW i \in 1 .. n + 1 PROVE h[i] = IF i = 1 THEN seqs[i] ELSE h[i - 1] \o seqs[i]
    OBVIOUS
  <2>1. CASE i = n + 1
    <3>1. i # 1 => i - 1 \in 1 .. n + 1 /\ i - 1 # n + 1 /\ i - 1 = n
      BY <2>1
    <3> QED  BY <2>1, <3>1
  <2>2. CASE i # n + 1
    <3>1. i \in 1 .. n /\ h[i] = f[i] /\ (i # 1 => h[i - 1] = f[i - 1])
      BY <2>2
    <3> QED  BY <1>1, <3>1
  <2> QED  BY <2>1, <2>2
<1>3. IsJoin(h, seqs, n + 1)
  BY <1>2 DEF IsJoin
<1> QED  BY <1>3

LEMMA FlattenHas ==
  ASSUME NEW U, NEW seqs \in Seq(Seq(U))
  PROVE  /\ FlattenSeq(seqs) \in Seq(U)
         /\ \A n \in DOMAIN seqs : ToSet(seqs[n]) \subseteq ToSet(FlattenSeq(seqs))
<1> DEFINE L == Len(seqs)
           G == {n \in Nat : \E f : IsJoin(f, seqs, n)}
<1>1. CASE L = 0
  BY <1>1 DEF FlattenSeq
<1>2. CASE L # 0
  <2>1. L \in Nat /\ L >= 1 /\ \A n \in 1 .. L : seqs[n] \in Seq(U)
    BY <1>2
  <2>2. 0 \in G
    <3>1. IsJoin([i \in 1 .. 0 |-> {}], seqs, 0)
      BY DEF IsJoin
    <3> QED  BY <3>1
  <2>3. \A n \in 0 .. L : n \in G /\ n < L => n + 1 \in G
    BY JoinExtends
  <2>4. L \in G
    <3>1. L \in 0 .. L
      BY <2>1
    <3> HIDE DEF G, L
    <3> QED  BY <2>1, <2>2, <2>3, <3>1, SetInduction
  <2> DEFINE f == CHOOSE h : IsJoin(h, seqs, L)
  <2>5. IsJoin(f, seqs, L)
    BY <2>4
  <2>6. FlattenSeq(seqs) = f[L]
    BY <1>2 DEF FlattenSeq, IsJoin
  <2> HIDE DEF f
  <2>7. \A i \in 1 .. L : f[i] = IF i = 1 THEN seqs[i] ELSE f[i - 1] \o seqs[i]
    BY <2>5 DEF IsJoin
  <2> DEFINE H == {n \in 1 .. L : f[n] \in Seq(U) /\ \A m \in 1 .. n : ToSet(seqs[m]) \subseteq ToSet(f[n])}
  <2>8. 1 \in H
    <3>1. f[1] = seqs[1] /\ 1 \in 1 .. L
      BY <2>1, <2>7
    <3> QED  BY <2>1, <3>1
  <2>9. ASSUME NEW n \in 1 .. L, n \in H, n < L PROVE n + 1 \in H
    <3>1. n + 1 \in 1 .. L /\ n + 1 # 1 /\ (n + 1) - 1 = n
      BY <2>1, <2>9
    <3>2. f[n + 1] = f[n] \o seqs[n + 1]
      BY <2>7, <3>1
    <3>3. seqs[n + 1] \in Seq(U) /\ f[n] \in Seq(U)
      BY <2>1, <2>9, <3>1
    <3>4. f[n + 1] \in Seq(U) /\ ToSet(f[n + 1]) = ToSet(f[n]) \cup ToSet(seqs[n + 1])
      BY <3>2, <3>3, JoinedHas
    <3>5. ASSUME NEW m \in 1 .. n + 1 PROVE ToSet(seqs[m]) \subseteq ToSet(f[n + 1])
      <4>1. m \in 1 .. n \/ m = n + 1
        BY <2>1
      <4> QED  BY <2>9, <3>4, <4>1
    <3> QED  BY <3>1, <3>4, <3>5
  <2>10. L \in H
    <3>1. 1 \in Nat /\ L \in 1 .. L
      BY <2>1
    <3> HIDE DEF H, L
    <3> QED  BY <2>1, <2>8, <2>9, <3>1, SetInduction
  <2>11. DOMAIN seqs = 1 .. L
    OBVIOUS
  <2> HIDE DEF L
  <2> QED  BY <2>6, <2>10, <2>11
<1> QED  BY <1>1, <1>2

-----------------------------------------------------------------------------
(* The graphs BuildCFG yields.                                              *)

LEMMA FunctionAsSequence == ASSUME NEW U, NEW n \in Nat, NEW f \in [1 .. n -> U] PROVE f \in Seq(U)
  OBVIOUS

LEMMA OneAsSequence == \A U : \A x \in U : <<x>> \in Seq(U)
  OBVIOUS

LEMMA SequenceInto == ASSUME NEW U, NEW V, U \subseteq V, NEW s \in Seq(U) PROVE s \in Seq(V)
  OBVIOUS

LEMMA SetAsSequence ==
  ASSUME NEW S, IsFiniteSet(S)
  PROVE  SetToSeq(S) \in Seq(S)
<1>1. Cardinality(S) \in Nat /\ ExistsBijection(1 .. Cardinality(S), S)
  BY FS_CardinalityType
<1>2. PICK f : f \in Bijection(1 .. Cardinality(S), S)
  BY <1>1 DEF ExistsBijection
<1>3. f \in [1 .. Cardinality(S) -> S] /\ IsInjective(f)
  BY <1>2 DEF Bijection, Injection, IsInjective
<1>4. SetToSeq(S) \in [1 .. Cardinality(S) -> S]
  BY <1>3 DEF SetToSeq
<1> QED  BY <1>1, <1>4

LEMMA LeadersCounted ==
  ASSUME NEW Q, NEW code \in Seq(Q)
  PROVE  Cardinality(Leaders(code)) \in Nat
<1>1. Len(code) \in Nat /\ DOMAIN code = 1 .. Len(code)
  OBVIOUS
<1>2. IsFiniteSet(0 .. Len(code) + 1)
  BY <1>1, FS_Interval
<1>3. Leaders(code) \in SUBSET (0 .. Len(code) + 1)
  BY <1>1 DEF Leaders
<1>4. IsFiniteSet(Leaders(code))
  BY <1>2, <1>3, FS_Subset
<1> QED  BY <1>4, FS_CardinalityType

(* A branch's targets are blocks, and so is the block it falls through to.  *)
LEMMA SuccessorsAreBlocks ==
  ASSUME NEW n \in Nat, NEW bcode, DOMAIN bcode = 0 .. n, NEW b \in 0 .. n
  PROVE  Successors(bcode, b) \in Seq(0 .. n)
<1> DEFINE target == {t \in DOMAIN bcode : /\ HasLabel(bcode[t])
                                           /\ Head(bcode[t]).result = Last(bcode[b]).result}
           jump == IF Terminator(bcode[b]) \in {"GOTO", "IF_FALSE"} THEN SetToSeq(target) ELSE <<>>
           m    == Cardinality(DOMAIN bcode) - 1
           fall == IF Terminator(bcode[b]) \notin {"GOTO", "RET"} /\ b < m THEN <<b + 1>> ELSE <<>>
<1>1. IsFiniteSet(0 .. n) /\ Cardinality(0 .. n) = n + 1
  BY FS_Interval
<1>2. target \in SUBSET (0 .. n)
  OBVIOUS
<1>3. IsFiniteSet(target)
  BY <1>1, <1>2, FS_Subset
<1>4. SetToSeq(target) \in Seq(target)
  <2> HIDE DEF target
  <2> QED  BY <1>3, SetAsSequence
<1>5. jump \in Seq(0 .. n)
  <2> HIDE DEF target
  <2> QED  BY <1>2, <1>4
<1>6. m = n
  BY <1>1
<1>7. fall \in Seq(0 .. n)
  <2> HIDE DEF m
  <2>1. b < n => b + 1 \in 0 .. n
    OBVIOUS
  <2>2. CASE Terminator(bcode[b]) \notin {"GOTO", "RET"} /\ b < m
    <3>1. fall = <<b + 1>>
      BY <2>2
    <3>2. b + 1 \in 0 .. n
      BY <1>6, <2>1, <2>2
    <3>3. <<b + 1>> \in Seq(0 .. n)
      BY <3>2, OneAsSequence
    <3> HIDE DEF fall
    <3> QED  BY <3>1, <3>3, Zenon
  <2>3. CASE ~(Terminator(bcode[b]) \notin {"GOTO", "RET"} /\ b < m)
    <3>1. fall = <<>>
      BY <2>3
    <3>2. <<>> \in Seq(0 .. n)
      OBVIOUS
    <3> HIDE DEF fall
    <3> QED  BY <3>1, <3>2, Zenon
  <2> QED  BY <2>2, <2>3
<1>8. Successors(bcode, b) = jump \o fall
  BY DEF Successors
<1> HIDE DEF jump, fall
<1> QED  BY <1>5, <1>7, <1>8

(* b is a predecessor of c just when c is a successor of b.                 *)
LEMMA PredecessorsMatch ==
  ASSUME NEW n \in Nat, NEW succs \in [0 .. n -> Seq(0 .. n)], NEW c \in 0 .. n
  PROVE  /\ Predecessors(succs, c) \in Seq(0 .. n)
         /\ \A b \in 0 .. n : c \in ToSet(succs[b]) <=> b \in ToSet(Predecessors(succs, c))
<1> DEFINE edges(b) == {k \in DOMAIN succs[b] : succs[b][k] = c}
           size(b)  == Cardinality(edges(b))
           N        == Cardinality(DOMAIN succs)
           part(b)  == [k \in 1 .. size(b) |-> b]
           parts    == [i \in 1 .. N |-> part(i - 1)]
           U        == {b \in 0 .. n : c \in ToSet(succs[b])}
<1>1. N = n + 1
  <2>1. Cardinality(0 .. n) = n + 1
    BY FS_Interval
  <2> QED  BY <2>1
<1>2. ASSUME NEW b \in 0 .. n PROVE size(b) \in Nat /\ (size(b) = 0 <=> b \notin U)
  <2>1. succs[b] \in Seq(0 .. n)
    OBVIOUS
  <2>2. DOMAIN succs[b] = 1 .. Len(succs[b]) /\ Len(succs[b]) \in Nat
    BY <2>1
  <2>3. IsFiniteSet(1 .. Len(succs[b]))
    BY <2>2, FS_Interval
  <2>4. IsFiniteSet(edges(b))
    BY <2>2, <2>3, FS_Subset
  <2>5. size(b) \in Nat /\ (size(b) = 0 <=> edges(b) = {})
    <3> HIDE DEF edges
    <3> QED  BY <2>4, FS_CardinalityType, FS_EmptySet
  <2>6. edges(b) = {} <=> c \notin ToSet(succs[b])
    BY DEF ToSet
  <2> QED  BY <2>5, <2>6
<1>3. ASSUME NEW b \in 0 .. n PROVE part(b) \in Seq(U) /\ (b \in U => b \in ToSet(part(b)))
  <2>1. size(b) \in Nat /\ (size(b) = 0 <=> b \notin U)
    BY <1>2
  <2> HIDE DEF size, U
  <2>2. \A k \in 1 .. size(b) : b \in U
    BY <2>1
  <2>3. part(b) \in [1 .. size(b) -> U]
    BY <2>2
  <2>4. part(b) \in Seq(U)
    <3> HIDE DEF part
    <3> QED  BY <2>1, <2>3, FunctionAsSequence
  <2>5. b \in U => 1 \in DOMAIN part(b) /\ part(b)[1] = b
    BY <2>1
  <2> HIDE DEF part
  <2> QED  BY <2>4, <2>5 DEF ToSet
<1> HIDE DEF part
<1>4. \A i \in 1 .. N : i - 1 \in 0 .. n
  BY <1>1
<1>5. parts \in Seq(Seq(U))
  <2>1. parts \in [1 .. N -> Seq(U)]
    <3> HIDE DEF N, U
    <3> QED  BY <1>3, <1>4
  <2> HIDE DEF N, U, parts
  <2> QED  BY <1>1, <2>1
<1>6. /\ FlattenSeq(parts) \in Seq(U)
      /\ \A i \in DOMAIN parts : ToSet(parts[i]) \subseteq ToSet(FlattenSeq(parts))
  <2> HIDE DEF parts, U
  <2> QED  BY <1>5, FlattenHas
<1>7. ASSUME NEW b \in U PROVE b \in ToSet(FlattenSeq(parts))
  <2>1. b \in 0 .. n
    OBVIOUS
  <2>2. b + 1 \in DOMAIN parts /\ parts[b + 1] = part((b + 1) - 1) /\ (b + 1) - 1 = b
    <3>1. b + 1 \in 1 .. N
      BY <1>1, <2>1
    <3> HIDE DEF N
    <3> QED  BY <2>1, <3>1
  <2>3. b \in ToSet(part(b))
    BY <1>3, <2>1
  <2> HIDE DEF parts, U
  <2> QED  BY <1>6, <2>2, <2>3
<1>8. Predecessors(succs, c) = FlattenSeq(parts)
  BY DEF Predecessors, part
<1> HIDE DEF parts
<1>9. ToSet(FlattenSeq(parts)) = U
  <2>1. ToSet(FlattenSeq(parts)) \subseteq U
    <3> HIDE DEF U
    <3> QED  BY <1>6 DEF ToSet
  <2> HIDE DEF U
  <2> QED  BY <1>7, <2>1
<1>10. FlattenSeq(parts) \in Seq(0 .. n)
  <2>1. U \subseteq 0 .. n
    OBVIOUS
  <2> HIDE DEF U, parts
  <2> QED  BY <1>6, <2>1, SequenceInto, Zenon
<1> QED  BY <1>8, <1>9, <1>10

(* The leader algorithm makes a graph of any code: blocks 0 .. n, edges     *)
(* between them, each listed at both ends (buildCFG).                       *)
THEOREM BuiltGraphs ==
  ASSUME NEW Q, NEW code \in Seq(Q)
  PROVE  IsGraph(BuildCFG(code))
<1> DEFINE n     == IF code = <<>> THEN 0 ELSE Cardinality(Leaders(code))
           bcode == [b \in 0 .. n |-> IF b = Entry THEN <<>> ELSE BlockCode(code, b)]
           succs == [b \in 0 .. n |-> Successors(bcode, b)]
           preds == [b \in 0 .. n |-> Predecessors(succs, b)]
           g     == BuildCFG(code)
<1>1. n \in Nat
  BY LeadersCounted
<1>2. g = [code |-> bcode, succs |-> succs, preds |-> preds]
  BY DEF BuildCFG
<1>3. g.code = bcode /\ g.succs = succs /\ g.preds = preds
  BY <1>2
<1> HIDE DEF n, g
<1>4. DOMAIN bcode = 0 .. n
  OBVIOUS
<1>5. succs \in [0 .. n -> Seq(0 .. n)]
  <2> HIDE DEF bcode
  <2> QED  BY <1>1, <1>4, SuccessorsAreBlocks
<1>6. Blocks(g) = 0 .. n
  BY <1>3, <1>4 DEF Blocks
<1>7. IsFiniteSet(0 .. n) /\ Entry \in 0 .. n
  BY <1>1, FS_Interval DEF Entry
<1> HIDE DEF bcode, succs
<1>8. preds \in [0 .. n -> Seq(0 .. n)]
  BY <1>1, <1>5, PredecessorsMatch
<1>9. \A b, c \in 0 .. n : c \in ToSet(succs[b]) <=> b \in ToSet(preds[c])
  <2>1. \A c \in 0 .. n : preds[c] = Predecessors(succs, c)
    OBVIOUS
  <2> HIDE DEF preds
  <2> QED  BY <1>1, <1>5, <2>1, PredecessorsMatch
<1> HIDE DEF preds
<1> QED  BY <1>3, <1>5, <1>6, <1>7, <1>8, <1>9 DEF IsGraph, Succs, Preds, g

-----------------------------------------------------------------------------
(* Reachability *)

(* Edges lead to blocks, and a list of predecessors is empty when it has    *)
(* no member.                                                               *)
LEMMA EdgeTypes ==
  ASSUME NEW g, IsGraph(g), NEW b \in Blocks(g)
  PROVE  /\ Succs(g, b) \subseteq Blocks(g) /\ Preds(g, b) \subseteq Blocks(g)
         /\ g.preds[b] = <<>> <=> Preds(g, b) = {}
<1>1. g.succs[b] \in Seq(Blocks(g)) /\ g.preds[b] \in Seq(Blocks(g))
  BY DEF IsGraph
<1>2. \A s \in Seq(Blocks(g)) : ToSet(s) \subseteq Blocks(g) /\ (s = <<>> <=> ToSet(s) = {})
  BY DEF ToSet
<1> QED  BY <1>1, <1>2 DEF Succs, Preds

(* What is reached through some blocks is among them, has the entry when    *)
(* it is one, and all of them one step on; and there is nothing else.       *)
LEMMA Reachability ==
  ASSUME NEW g, IsGraph(g), NEW through \in SUBSET Blocks(g)
  PROVE  /\ ReachableThrough(g, through) \subseteq through
         /\ Entry \in through => Entry \in ReachableThrough(g, through)
         /\ \A b \in ReachableThrough(g, through) : Succs(g, b) \cap through \subseteq ReachableThrough(g, through)
         /\ \A T \in SUBSET Blocks(g) :
              /\ Entry \in through => Entry \in T
              /\ \A b \in T : Succs(g, b) \cap through \subseteq T
              => ReachableThrough(g, through) \subseteq T
<1> DEFINE N == Blocks(g)
           next == [b \in N |-> Succs(g, b) \cap through]
           S == {Entry} \cap through
           R == ReachableThrough(g, through)
<1>1. IsFiniteSet(N) /\ next \in [N -> SUBSET N] /\ S \in SUBSET N
  BY DEF IsGraph
<1>2. R = Closure(next, S)
  BY DEF ReachableThrough
<1>3. \A b \in N : next[b] = Succs(g, b) \cap through
  OBVIOUS
<1>4. through \in SUBSET N
  OBVIOUS
<1> HIDE DEF N, next, R
<1>5. /\ R \in SUBSET N
      /\ S \subseteq R
      /\ Closed(next, R)
      /\ \A T \in SUBSET N : S \subseteq T /\ Closed(next, T) => R \subseteq T
  BY <1>1, <1>2, ClosureIsLeast
<1>6. \A T \in SUBSET N : Closed(next, T) <=> \A b \in T : Succs(g, b) \cap through \subseteq T
  BY <1>3 DEF Closed
<1>7. R \subseteq through
  <2>1. Closed(next, through) /\ S \subseteq through
    BY <1>4, <1>6
  <2> QED  BY <1>4, <1>5, <2>1
<1>8. Entry \in through => Entry \in R
  BY <1>5
<1>9. \A b \in R : Succs(g, b) \cap through \subseteq R
  BY <1>5, <1>6
<1>10. ASSUME NEW T \in SUBSET N, Entry \in through => Entry \in T, \A b \in T : Succs(g, b) \cap through \subseteq T
       PROVE  R \subseteq T
  <2>1. S \subseteq T /\ Closed(next, T)
    BY <1>6, <1>10
  <2> QED  BY <1>5, <2>1
<1> QED  BY <1>7, <1>8, <1>9, <1>10 DEF N, R

(* A block other than the entry is reached from a predecessor.              *)
LEMMA ReachedFromPred ==
  ASSUME NEW g, IsGraph(g), NEW through \in SUBSET Blocks(g),
         NEW b \in ReachableThrough(g, through), b # Entry
  PROVE  \E p \in Preds(g, b) : p \in ReachableThrough(g, through)
<1> DEFINE R == ReachableThrough(g, through)
           T == R \ {b}
<1> SUFFICES ASSUME \A p \in Preds(g, b) : p \notin R PROVE FALSE
  OBVIOUS
<1>1. R \subseteq Blocks(g) /\ b \in Blocks(g)
  BY Reachability
<1>2. \A c \in T : b \notin Succs(g, c)
  BY <1>1 DEF IsGraph
<1>3. T \in SUBSET Blocks(g) /\ (Entry \in through => Entry \in T)
  BY <1>1, Reachability
<1>4. \A c \in T : Succs(g, c) \cap through \subseteq T
  BY <1>2, Reachability
<1>5. b \in R /\ b \notin T
  OBVIOUS
<1> HIDE DEF T
<1>6. R \subseteq T
  BY <1>3, <1>4, Reachability
<1> QED  BY <1>5, <1>6

-----------------------------------------------------------------------------
(* The rounds *)

Maps(g) == [Blocks(g) -> SUBSET Blocks(g)]
AllBlocks(g) == [b \in Blocks(g) |-> IF b = Entry THEN {Entry} ELSE Blocks(g)]

(* A round gives a set of blocks for each block.                            *)
LEMMA DominatorRoundType ==
  ASSUME NEW g, NEW dom \in Maps(g)
  PROVE  DominatorRound(g, dom) \in Maps(g)
BY DEF DominatorRound, Maps

(* More candidates never leave fewer after a round.                         *)
LEMMA DominatorRoundMonotone ==
  ASSUME NEW g, IsGraph(g), NEW dom \in Maps(g), NEW other \in Maps(g), Under(dom, other)
  PROVE  Under(DominatorRound(g, dom), DominatorRound(g, other))
<1>1. \A b \in Blocks(g) : dom[b] \subseteq other[b]
  BY DEF Under, Maps
<1>2. \A b \in Blocks(g) : Preds(g, b) \subseteq Blocks(g)
  BY EdgeTypes
<1>3. \A b \in Blocks(g) : DominatorRound(g, dom)[b] \subseteq DominatorRound(g, other)[b]
  BY <1>1, <1>2 DEF DominatorRound
<1> QED  BY <1>3 DEF Under, DominatorRound

(* A fixed point of the rounds, block by block.                             *)
LEMMA DominatorFixed ==
  ASSUME NEW g, IsGraph(g), NEW dom \in Maps(g)
  PROVE  DominatorRound(g, dom) = dom <=>
           \A b \in Blocks(g) : b # Entry /\ Preds(g, b) # {} =>
             dom[b] = {b} \cup {d \in Blocks(g) : \A p \in Preds(g, b) : d \in dom[p]}
<1>1. DominatorRound(g, dom) = dom <=> \A b \in Blocks(g) : DominatorRound(g, dom)[b] = dom[b]
  BY DominatorRoundType DEF Maps
<1>2. \A b \in Blocks(g) : g.preds[b] = <<>> <=> Preds(g, b) = {}
  BY EdgeTypes
<1> QED  BY <1>1, <1>2 DEF DominatorRound

(* The rounds end in the greatest fixed point.                              *)
LEMMA DominatorsGreatest ==
  ASSUME NEW g, IsGraph(g)
  PROVE  /\ Dominators(g) \in Maps(g)
         /\ DominatorRound(g, Dominators(g)) = Dominators(g)
         /\ Under(Dominators(g), AllBlocks(g))
         /\ \A w \in Maps(g) : DominatorRound(g, w) = w /\ Under(w, AllBlocks(g)) => Under(w, Dominators(g))
<1> DEFINE M == Maps(g)
           step == [dom \in M |-> DominatorRound(g, dom)]
           x == AllBlocks(g)
<1>1. Dominators(g) = Fixpoint(step, x)
  BY DEF Dominators, Maps, AllBlocks
<1>2. step \in [M -> M] /\ \A f \in M : step[f] = DominatorRound(g, f)
  BY DominatorRoundType
<1>3. x \in M
  BY DEF AllBlocks, Maps, IsGraph
<1>4. \A f, h \in M : Under(f, h) => Under(step[f], step[h])
  BY <1>2, DominatorRoundMonotone
<1>5. Under(step[x], x)
  <2>1. \A b \in Blocks(g) : DominatorRound(g, x)[b] \subseteq x[b]
    BY DEF DominatorRound, AllBlocks
  <2> QED  BY <1>2, <1>3, <2>1 DEF Under, DominatorRound
<1>6. MonotoneStep(Blocks(g), Blocks(g), M, step)
  BY <1>2, <1>4 DEF MonotoneStep, Maps, IsGraph
<1> HIDE DEF M, step, x
<1>7. /\ Fixpoint(step, x) \in M
      /\ step[Fixpoint(step, x)] = Fixpoint(step, x)
      /\ Under(Fixpoint(step, x), x)
      /\ \A w \in M : step[w] = w /\ Under(w, x) => Under(w, Fixpoint(step, x))
  BY ONLY <1>3, <1>5, <1>6, GreatestFixpoint
<1> QED  BY <1>1, <1>2, <1>7 DEF M, x

-----------------------------------------------------------------------------
(* The dominators *)

(* What the paths say: everything dominates a block no path leads to.       *)
ByPaths(g) ==
  [b \in Blocks(g) |-> IF b \in ReachableFromEntry(g) THEN OnEveryPath(g, b) ELSE Blocks(g)]

(* The blocks on every path to b are b and those on every path to each      *)
(* predecessor of b that is reached.                                        *)
LEMMA PathsThroughPreds ==
  ASSUME NEW g, IsGraph(g), NEW b \in ReachableFromEntry(g), b # Entry, NEW d \in Blocks(g), d # b
  PROVE  d \in OnEveryPath(g, b) <=> \A p \in Preds(g, b) : d \in ByPaths(g)[p]
<1> DEFINE A == ReachableFromEntry(g)
           R == ReachableThrough(g, Blocks(g) \ {d})
<1>1. /\ A \subseteq Blocks(g) /\ R \subseteq Blocks(g) \ {d}
      /\ b \in Blocks(g)
  BY Reachability DEF ReachableFromEntry
<1>2. R \subseteq A
  <2>1. Entry \in A /\ \A c \in A : Succs(g, c) \cap (Blocks(g) \ {d}) \subseteq A
    BY Reachability, EdgeTypes DEF ReachableFromEntry, IsGraph
  <2> HIDE DEF A
  <2> QED  BY <1>1, <2>1, Reachability
<1>3. ASSUME b \notin R, NEW p \in Preds(g, b) PROVE d \in ByPaths(g)[p]
  <2>1. p \in Blocks(g) /\ b \in Succs(g, p)
    BY <1>1, <1>3, EdgeTypes DEF IsGraph
  <2>2. p \notin R
    BY <1>1, <1>3, <2>1, Reachability
  <2> QED  BY <2>1, <2>2 DEF ByPaths, OnEveryPath
<1>4. ASSUME b \in R PROVE \E p \in Preds(g, b) : d \notin ByPaths(g)[p]
  <2>1. PICK p \in Preds(g, b) : p \in R
    BY <1>4, ReachedFromPred
  <2>2. p \in Blocks(g) /\ p \in A
    BY <1>1, <1>2, <2>1
  <2> QED  BY <2>1, <2>2 DEF ByPaths, OnEveryPath
<1> QED  BY <1>3, <1>4 DEF OnEveryPath

(* A predecessor of a block that is not reached is not reached.             *)
LEMMA UnreachedPreds ==
  ASSUME NEW g, IsGraph(g), NEW b \in Blocks(g) \ ReachableFromEntry(g), NEW p \in Preds(g, b)
  PROVE  p \in Blocks(g) \ ReachableFromEntry(g)
<1>1. p \in Blocks(g) /\ b \in Succs(g, p)
  BY EdgeTypes DEF IsGraph
<1> QED  BY <1>1, Reachability DEF ReachableFromEntry

(* What the paths say is a fixed point of the rounds, below where they      *)
(* begin.                                                                   *)
LEMMA ByPathsFixed ==
  ASSUME NEW g, IsGraph(g)
  PROVE  /\ ByPaths(g) \in Maps(g)
         /\ DominatorRound(g, ByPaths(g)) = ByPaths(g)
         /\ Under(ByPaths(g), AllBlocks(g))
<1>1. ByPaths(g) \in Maps(g)
  BY DEF ByPaths, Maps, OnEveryPath
<1>2. ASSUME NEW b \in Blocks(g), b # Entry, Preds(g, b) # {}
      PROVE  ByPaths(g)[b] = {b} \cup {d \in Blocks(g) : \A p \in Preds(g, b) : d \in ByPaths(g)[p]}
  <2>1. CASE b \in ReachableFromEntry(g)
    <3>1. ByPaths(g)[b] = OnEveryPath(g, b)
      BY <2>1 DEF ByPaths
    <3>2. b \in OnEveryPath(g, b)
      BY Reachability DEF OnEveryPath
    <3>3. \A d \in Blocks(g) \ {b} : d \in OnEveryPath(g, b) <=> \A p \in Preds(g, b) : d \in ByPaths(g)[p]
      BY <1>2, <2>1, PathsThroughPreds
    <3>4. OnEveryPath(g, b) \subseteq Blocks(g)
      BY DEF OnEveryPath
    <3> HIDE DEF ByPaths
    <3> QED  BY <3>1, <3>2, <3>3, <3>4
  <2>2. CASE b \notin ReachableFromEntry(g)
    <3>1. ByPaths(g)[b] = Blocks(g) /\ \A p \in Preds(g, b) : ByPaths(g)[p] = Blocks(g)
      BY <2>2, UnreachedPreds DEF ByPaths
    <3> QED  BY <3>1
  <2> QED  BY <2>1, <2>2
<1>3. DominatorRound(g, ByPaths(g)) = ByPaths(g)
  BY <1>1, <1>2, DominatorFixed
<1>4. ByPaths(g)[Entry] \subseteq {Entry}
  <2>1. Entry \in Blocks(g) /\ Entry \in ReachableFromEntry(g)
    BY Reachability DEF IsGraph, ReachableFromEntry
  <2>2. \A d \in Blocks(g) \ {Entry} : Entry \in ReachableThrough(g, Blocks(g) \ {d})
    BY <2>1, Reachability
  <2> QED  BY <2>1, <2>2 DEF ByPaths, OnEveryPath
<1>5. Under(ByPaths(g), AllBlocks(g))
  BY <1>1, <1>4 DEF Under, AllBlocks, Maps
<1> QED  BY <1>1, <1>3, <1>5

(* No fixed point below where the rounds begin has more than the paths say. *)
LEMMA DominatorsSound ==
  ASSUME NEW g, IsGraph(g), NEW dom \in Maps(g), DominatorRound(g, dom) = dom, Under(dom, AllBlocks(g)),
         NEW b \in Blocks(g), NEW d \in dom[b]
  PROVE  b \notin ReachableThrough(g, Blocks(g) \ {d})
<1> DEFINE through == Blocks(g) \ {d}
           T == {c \in Blocks(g) : d \notin dom[c]}
<1>1. dom[Entry] \subseteq {Entry}
  BY DEF Under, AllBlocks, Maps, IsGraph
<1>2. Entry \in through => Entry \in T
  BY <1>1
<1>3. ASSUME NEW c \in T, NEW e \in Succs(g, c) \cap through PROVE e \in T
  <2>1. c \in Blocks(g) /\ e \in Blocks(g) /\ e # d /\ c \in Preds(g, e)
    BY <1>3 DEF IsGraph
  <2>2. CASE e = Entry
    BY <1>1, <2>1, <2>2
  <2>3. CASE e # Entry
    <3>1. dom[e] = {e} \cup {f \in Blocks(g) : \A p \in Preds(g, e) : f \in dom[p]}
      BY <2>1, <2>3, DominatorFixed
    <3> QED  BY <1>3, <2>1, <3>1
  <2> QED  BY <2>2, <2>3
<1>4. T \in SUBSET Blocks(g) /\ through \in SUBSET Blocks(g) /\ b \notin T
  OBVIOUS
<1>5. \A c \in T : Succs(g, c) \cap through \subseteq T
  BY <1>3
<1> HIDE DEF T, through
<1>6. ReachableThrough(g, through) \subseteq T
  BY <1>2, <1>4, <1>5, Reachability
<1> QED  BY <1>4, <1>6 DEF through

(* The rounds of computeDominators end in the dominators of every block     *)
(* the entry leads to: the blocks that every path to it goes through. P7    *)
(* and P8 find loops by them, and SSA construction its dominator tree.      *)
THEOREM DominatorsByPaths ==
  ASSUME NEW g, IsGraph(g), NEW b \in ReachableFromEntry(g)
  PROVE  Dominators(g)[b] = {d \in Blocks(g) : b \notin ReachableThrough(g, Blocks(g) \ {d})}
<1>1. b \in Blocks(g)
  BY Reachability DEF ReachableFromEntry
<1>2. Dominators(g)[b] \subseteq OnEveryPath(g, b)
  <2>1. Dominators(g)[b] \subseteq Blocks(g)
    BY <1>1, DominatorsGreatest DEF Maps
  <2> QED  BY <1>1, <2>1, DominatorsGreatest, DominatorsSound DEF OnEveryPath
<1>3. OnEveryPath(g, b) \subseteq Dominators(g)[b]
  <2>1. Under(ByPaths(g), Dominators(g))
    BY ByPathsFixed, DominatorsGreatest
  <2>2. ByPaths(g)[b] \subseteq Dominators(g)[b]
    BY <1>1, <2>1 DEF Under, ByPaths
  <2> QED  BY <1>1, <2>2 DEF ByPaths
<1> QED  BY <1>2, <1>3 DEF OnEveryPath
=============================================================================
