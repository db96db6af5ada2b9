---------------------------- MODULE WalletProofs ----------------------------
(***************************************************************************)
(* Theorems about Wallet: its balances stay natural numbers, and every     *)
(* step of it is a step of an append-only journal that states the moves    *)
(* exactly.  The lemmas about JobCall and BillingCall are cited by the     *)
(* proofs about the modules that call the wallet.                          *)
(***************************************************************************)
EXTENDS Wallet, Functions, FiniteSetTheorems, TLAPS

-----------------------------------------------------------------------------
(***************************************************************************)
(* SumFunctionOnSet(f, S), the sum of f[x] over the elements x of a finite *)
(* set S: it does not depend on the order of the elements, and adding,     *)
(* removing or changing one element changes it by that element's share.    *)
(*                                                                         *)
(* The sum is defined by recursion over the subsets of S.  Induction over  *)
(* them is used in the form "a nonempty set of subsets of a finite set has *)
(* a minimal element", applied to the set of counterexamples.              *)
(***************************************************************************)

\* g is the function the sum over S is defined by.
Iterates(f, S, g) ==
  g = [s \in SUBSET S |->
         IF s = {} THEN 0
         ELSE f[CHOOSE x \in s : TRUE] + g[s \ {CHOOSE x \in s : TRUE}]]

\* Every nonempty set of subsets of a finite set has a minimal element.
LEMMA MinimalSubset ==
  ASSUME NEW S, IsFiniteSet(S), NEW T, T \subseteq SUBSET S, T # {}
  PROVE  \E m \in T : \A y \in T : y \subseteq m => y = m
<1>1. IsWellFoundedOn(StrictSubsetOrdering(S), SUBSET S)
  BY FS_StrictSubsetOrderingWellFounded, FS_FiniteSubsetsOfFinite
<1>2. PICK m \in T : \A y \in T : ~(<<y, m>> \in StrictSubsetOrdering(S))
  BY <1>1, WFMin
<1>3. \A y \in T : y \subseteq m => y = m
  BY <1>2 DEF StrictSubsetOrdering
<1> QED
  BY <1>3

\* Two such functions agree where both are defined.
LEMMA IterationsAgree ==
  ASSUME NEW f, NEW S, NEW T, IsFiniteSet(T), T \subseteq S,
         NEW g, NEW h, Iterates(f, S, g), Iterates(f, T, h)
  PROVE  \A s \in SUBSET T : g[s] = h[s]
<1> DEFINE Bad == {s \in SUBSET T : g[s] # h[s]}
<1>1. SUFFICES ASSUME Bad # {} PROVE FALSE
  OBVIOUS
<1>2. PICK m \in Bad : \A y \in Bad : y \subseteq m => y = m
  <2>1. Bad \subseteq SUBSET T
    OBVIOUS
  <2> HIDE DEF Bad
  <2> QED
    BY <1>1, <2>1, MinimalSubset
<1>3. \A s \in SUBSET T :
        /\ g[s] = IF s = {} THEN 0
                  ELSE f[CHOOSE x \in s : TRUE] + g[s \ {CHOOSE x \in s : TRUE}]
        /\ h[s] = IF s = {} THEN 0
                  ELSE f[CHOOSE x \in s : TRUE] + h[s \ {CHOOSE x \in s : TRUE}]
  BY DEF Iterates
<1>4. m # {}
  BY <1>2, <1>3
<1> DEFINE x == CHOOSE x \in m : TRUE
<1>5. x \in m
  BY <1>4
<1>6. g[m \ {x}] = h[m \ {x}]
  BY <1>2, <1>5
<1> QED
  BY <1>2, <1>3, <1>4, <1>6

\* Such a function exists for every finite set.
LEMMA IterationExists ==
  ASSUME NEW f, NEW S, IsFiniteSet(S)
  PROVE  \E g : Iterates(f, S, g)
<1> DEFINE Bad == {U \in SUBSET S : ~\E g : Iterates(f, U, g)}
<1>1. SUFFICES ASSUME Bad # {} PROVE FALSE
  OBVIOUS
<1>2. PICK m \in Bad : \A y \in Bad : y \subseteq m => y = m
  <2>1. Bad \subseteq SUBSET S
    OBVIOUS
  <2> HIDE DEF Bad
  <2> QED
    BY <1>1, <2>1, MinimalSubset
<1> DEFINE c(s) == CHOOSE x \in s : TRUE
           G(U) == CHOOSE g : Iterates(f, U, g)
           top  == f[c(m)] + G(m \ {c(m)})[m \ {c(m)}]
           h    == [s \in SUBSET m |-> IF s = {} THEN 0
                                       ELSE IF s = m THEN top ELSE G(s)[s]]
<1>3. \A s : s # {} => c(s) \in s
  OBVIOUS
<1>4. ASSUME NEW U \in SUBSET m, U # m
      PROVE  Iterates(f, U, G(U)) /\ IsFiniteSet(U)
  <2>1. U \in SUBSET S /\ U \notin Bad
    BY <1>2, <1>4
  <2>2. \E g : Iterates(f, U, g)
    BY <2>1
  <2>3. IsFiniteSet(U)
    BY <2>1, FS_Subset
  <2> QED
    BY <2>2, <2>3
<1>5. ASSUME NEW s \in SUBSET m, s # {}
      PROVE  h[s] = f[c(s)] + h[s \ {c(s)}]
  <2>1. /\ c(s) \in s
        /\ s \ {c(s)} \in SUBSET m
        /\ s \ {c(s)} # m
    BY <1>3, <1>5
  <2>2. G(s \ {c(s)})[s \ {c(s)}] = h[s \ {c(s)}]
    <3> DEFINE r == s \ {c(s)}
    <3>1. r \in SUBSET m /\ r # m
      BY <2>1
    <3>2. Iterates(f, r, G(r))
      BY <1>4, <3>1
    <3> HIDE DEF r, G, top
    <3>3. CASE r = {}
      <4>1. G(r)[r] = 0
        BY <3>2, <3>3 DEF Iterates
      <4>2. h[r] = 0
        BY <3>1, <3>3
      <4> QED
        BY <4>1, <4>2 DEF r
    <3>4. CASE r # {}
      <4>1. h[r] = G(r)[r]
        BY <3>1, <3>4
      <4> QED
        BY <4>1 DEF r
    <3> QED
      BY <3>3, <3>4
  <2>3. CASE s = m
    BY <1>5, <2>2, <2>3
  <2>4. CASE s # m
    <3>1. Iterates(f, s, G(s))
      BY <1>4, <2>4
    <3>2. Iterates(f, s \ {c(s)}, G(s \ {c(s)})) /\ IsFiniteSet(s \ {c(s)})
      BY <1>4, <2>1
    <3>3. G(s)[s] = f[c(s)] + G(s)[s \ {c(s)}]
      BY <1>5, <3>1 DEF Iterates
    <3>4. G(s)[s \ {c(s)}] = G(s \ {c(s)})[s \ {c(s)}]
      <4>1. s \ {c(s)} \subseteq s /\ s \ {c(s)} \in SUBSET (s \ {c(s)})
        OBVIOUS
      <4> HIDE DEF G, c
      <4> QED
        BY <3>1, <3>2, <4>1, IterationsAgree
    <3>5. h[s] = G(s)[s]
      BY <1>5, <2>4
    <3> QED
      BY <2>2, <3>3, <3>4, <3>5
  <2> QED
    BY <2>3, <2>4
<1>6. h[{}] = 0
  OBVIOUS
<1>7. h = [s \in SUBSET m |-> h[s]]
  OBVIOUS
<1> HIDE DEF h
<1>8. \A s \in SUBSET m : h[s] = IF s = {} THEN 0 ELSE f[c(s)] + h[s \ {c(s)}]
  <2> HIDE DEF c
  <2> QED
    BY <1>5, <1>6
<1>9. Iterates(f, m, h)
  BY <1>7, <1>8 DEF Iterates
<1> QED
  BY <1>2, <1>9

LEMMA SumIterates ==
  ASSUME NEW f, NEW S, IsFiniteSet(S)
  PROVE  \E g : Iterates(f, S, g) /\ SumFunctionOnSet(f, S) = g[S]
<1>1. \E g : Iterates(f, S, g)
  BY IterationExists
<1>2. Iterates(f, S, CHOOSE g : Iterates(f, S, g))
  BY <1>1
<1>3. SumFunctionOnSet(f, S) = (CHOOSE g : Iterates(f, S, g))[S]
  BY DEF Iterates, SumFunctionOnSet, FoldFunctionOnSet, MapThenFoldSet
<1> QED
  BY <1>2, <1>3

LEMMA SumEmpty ==
  ASSUME NEW f
  PROVE  SumFunctionOnSet(f, {}) = 0
<1>1. IsFiniteSet({})
  BY FS_EmptySet
<1>2. PICK g : Iterates(f, {}, g) /\ SumFunctionOnSet(f, {}) = g[{}]
  BY <1>1, SumIterates
<1> QED
  BY <1>2 DEF Iterates

\* The defining equation.
LEMMA SumUnfold ==
  ASSUME NEW f, NEW S, IsFiniteSet(S), S # {}
  PROVE  \E x \in S :
           SumFunctionOnSet(f, S) = f[x] + SumFunctionOnSet(f, S \ {x})
<1> DEFINE x == CHOOSE x \in S : TRUE
           R == S \ {x}
<1>1. x \in S
  OBVIOUS
<1>2. IsFiniteSet(R)
  BY FS_RemoveElement
<1>3. PICK g : Iterates(f, S, g) /\ SumFunctionOnSet(f, S) = g[S]
  BY SumIterates
<1>4. PICK h : Iterates(f, R, h) /\ SumFunctionOnSet(f, R) = h[R]
  BY <1>2, SumIterates
<1>5. g[S] = f[x] + g[R]
  BY <1>3 DEF Iterates
<1>6. g[R] = h[R]
  <2>1. R \subseteq S /\ R \in SUBSET R
    OBVIOUS
  <2> HIDE DEF R
  <2> QED
    BY <1>2, <1>3, <1>4, <2>1, IterationsAgree
<1> QED
  BY <1>1, <1>3, <1>4, <1>5, <1>6

LEMMA SumInt ==
  ASSUME NEW f, NEW S, IsFiniteSet(S), \A x \in S : f[x] \in Int
  PROVE  SumFunctionOnSet(f, S) \in Int
<1> DEFINE Bad == {U \in SUBSET S : SumFunctionOnSet(f, U) \notin Int}
<1>1. SUFFICES ASSUME Bad # {} PROVE FALSE
  OBVIOUS
<1>2. PICK m \in Bad : \A y \in Bad : y \subseteq m => y = m
  <2>1. Bad \subseteq SUBSET S
    OBVIOUS
  <2> HIDE DEF Bad
  <2> QED
    BY <1>1, <2>1, MinimalSubset
<1>3. m # {}
  BY SMTT(30), <1>2, SumEmpty
<1>4. IsFiniteSet(m)
  BY <1>2, FS_Subset
<1>5. PICK x \in m :
        SumFunctionOnSet(f, m) = f[x] + SumFunctionOnSet(f, m \ {x})
  BY <1>3, <1>4, SumUnfold
<1>6. SumFunctionOnSet(f, m \ {x}) \in Int /\ f[x] \in Int
  BY <1>2, <1>5
<1> QED
  BY <1>2, <1>5, <1>6

LEMMA SumNat ==
  ASSUME NEW f, NEW S, IsFiniteSet(S), \A x \in S : f[x] \in Nat
  PROVE  SumFunctionOnSet(f, S) \in Nat
<1> DEFINE Bad == {U \in SUBSET S : SumFunctionOnSet(f, U) \notin Nat}
<1>1. SUFFICES ASSUME Bad # {} PROVE FALSE
  OBVIOUS
<1>2. PICK m \in Bad : \A y \in Bad : y \subseteq m => y = m
  <2>1. Bad \subseteq SUBSET S
    OBVIOUS
  <2> HIDE DEF Bad
  <2> QED
    BY <1>1, <2>1, MinimalSubset
<1>3. m # {}
  <2>1. SumFunctionOnSet(f, {}) \in Nat
    BY SumEmpty
  <2> QED
    BY <1>2, <2>1
<1>4. IsFiniteSet(m)
  BY <1>2, FS_Subset
<1>5. PICK x \in m :
        SumFunctionOnSet(f, m) = f[x] + SumFunctionOnSet(f, m \ {x})
  BY <1>3, <1>4, SumUnfold
<1>6. SumFunctionOnSet(f, m \ {x}) \in Nat /\ f[x] \in Nat
  BY <1>2, <1>5
<1> QED
  BY <1>2, <1>5, <1>6

\* Any element may be taken out of the sum, not only the one the recursion
\* takes.
LEMMA SumRemove ==
  ASSUME NEW f, NEW S, IsFiniteSet(S), \A x \in S : f[x] \in Int,
         NEW z \in S
  PROVE  SumFunctionOnSet(f, S) = f[z] + SumFunctionOnSet(f, S \ {z})
<1> DEFINE Split(U, x) ==
             SumFunctionOnSet(f, U) = f[x] + SumFunctionOnSet(f, U \ {x})
           Bad == {U \in SUBSET S : \E x \in U : ~Split(U, x)}
<1>1. SUFFICES ASSUME Bad # {} PROVE FALSE
  <2> HIDE DEF Split
  <2>1. S \notin Bad => Split(S, z)
    OBVIOUS
  <2> QED
    BY <2>1 DEF Split
<1>2. PICK m \in Bad : \A y \in Bad : y \subseteq m => y = m
  <2>1. Bad \subseteq SUBSET S
    OBVIOUS
  <2> HIDE DEF Bad
  <2> QED
    BY <1>1, <2>1, MinimalSubset
<1>3. PICK y \in m : ~Split(m, y)
  BY <1>2
<1>4. IsFiniteSet(m) /\ m \subseteq S /\ m # {}
  BY <1>2, <1>3, FS_Subset
<1>5. PICK x \in m : Split(m, x)
  BY <1>4, SumUnfold
<1>6. x # y
  BY <1>3, <1>5
<1>7. Split(m \ {x}, y) /\ Split(m \ {y}, x)
  <2>1. m \ {x} \notin Bad /\ m \ {y} \notin Bad
    BY <1>2, <1>3, <1>5
  <2> HIDE DEF Split
  <2>2. /\ m \ {x} \in SUBSET S /\ y \in m \ {x}
        /\ m \ {y} \in SUBSET S /\ x \in m \ {y}
    BY <1>4, <1>6
  <2> QED
    BY <2>1, <2>2
<1>8. (m \ {x}) \ {y} = (m \ {y}) \ {x}
  OBVIOUS
<1> DEFINE rest == (m \ {x}) \ {y}
<1>9. SumFunctionOnSet(f, rest) \in Int
  <2>1. IsFiniteSet(rest)
    BY <1>4, FS_Difference
  <2>2. \A a \in rest : f[a] \in Int
    BY <1>4
  <2> HIDE DEF rest
  <2> QED
    BY <2>1, <2>2, SumInt
<1>10. f[x] \in Int /\ f[y] \in Int
  BY <1>4
<1>11. /\ SumFunctionOnSet(f, m) = f[x] + SumFunctionOnSet(f, m \ {x})
       /\ SumFunctionOnSet(f, m \ {x}) = f[y] + SumFunctionOnSet(f, rest)
       /\ SumFunctionOnSet(f, m \ {y}) = f[x] + SumFunctionOnSet(f, rest)
  BY <1>5, <1>7, <1>8
<1>12. SumFunctionOnSet(f, m) = f[y] + SumFunctionOnSet(f, m \ {y})
  <2> HIDE DEF rest
  <2> QED
    BY <1>9, <1>10, <1>11
<1> QED
  BY <1>3, <1>12

LEMMA SumAdd ==
  ASSUME NEW f, NEW S, IsFiniteSet(S), \A x \in S : f[x] \in Int,
         NEW z, z \notin S, f[z] \in Int
  PROVE  SumFunctionOnSet(f, S \cup {z}) = f[z] + SumFunctionOnSet(f, S)
<1>1. IsFiniteSet(S \cup {z})
  BY FS_AddElement
<1>2. (S \cup {z}) \ {z} = S
  OBVIOUS
<1>3. \A x \in S \cup {z} : f[x] \in Int
  OBVIOUS
<1> DEFINE U == S \cup {z}
<1>4. IsFiniteSet(U) /\ U \ {z} = S /\ z \in U /\ \A x \in U : f[x] \in Int
  BY <1>1, <1>2, <1>3
<1> HIDE DEF U
<1>5. SumFunctionOnSet(f, U) = f[z] + SumFunctionOnSet(f, U \ {z})
  BY <1>4, SumRemove
<1> QED
  BY <1>4, <1>5 DEF U

\* The sum depends on the values over S only.
LEMMA SumSame ==
  ASSUME NEW f, NEW g, NEW S, IsFiniteSet(S), \A x \in S : f[x] = g[x],
         \A x \in S : f[x] \in Int
  PROVE  SumFunctionOnSet(f, S) = SumFunctionOnSet(g, S)
<1> DEFINE Bad == {U \in SUBSET S :
                     SumFunctionOnSet(f, U) # SumFunctionOnSet(g, U)}
<1>1. SUFFICES ASSUME Bad # {} PROVE FALSE
  OBVIOUS
<1>2. PICK m \in Bad : \A y \in Bad : y \subseteq m => y = m
  <2>1. Bad \subseteq SUBSET S
    OBVIOUS
  <2> HIDE DEF Bad
  <2> QED
    BY <1>1, <2>1, MinimalSubset
<1>3. m # {}
  BY <1>2, SumEmpty
<1>4. IsFiniteSet(m) /\ m \subseteq S
  BY <1>2, FS_Subset
<1>5. PICK x \in m :
        SumFunctionOnSet(f, m) = f[x] + SumFunctionOnSet(f, m \ {x})
  BY <1>3, <1>4, SumUnfold
<1>6. SumFunctionOnSet(g, m) = g[x] + SumFunctionOnSet(g, m \ {x})
  <2>1. \A y \in m : g[y] \in Int
    BY <1>4
  <2> QED
    BY <1>4, <2>1, SumRemove
<1>7. SumFunctionOnSet(f, m \ {x}) = SumFunctionOnSet(g, m \ {x})
  BY <1>2, <1>5
<1> QED
  BY <1>2, <1>4, <1>5, <1>6, <1>7

\* A part is no more than the whole when no part is negative.
LEMMA SumBound ==
  ASSUME NEW f, NEW S, IsFiniteSet(S), \A x \in S : f[x] \in Nat,
         NEW z \in S
  PROVE  f[z] <= SumFunctionOnSet(f, S)
<1> DEFINE R == S \ {z}
<1>1. IsFiniteSet(R) /\ \A x \in R : f[x] \in Nat
  BY FS_RemoveElement
<1>2. SumFunctionOnSet(f, S) = f[z] + SumFunctionOnSet(f, R)
  BY SumRemove
<1> HIDE DEF R
<1>3. SumFunctionOnSet(f, R) \in Nat
  BY <1>1, SumNat
<1> QED
  BY <1>2, <1>3

-----------------------------------------------------------------------------

LEMMA LeastType ==
  ASSUME NEW m \in Nat, NEW n \in Nat
  PROVE  /\ Least(m, n) \in Nat
         /\ Least(m, n) <= m
         /\ Least(m, n) <= n
  BY DEF Least

LEMMA MovedType ==
  ASSUME NEW w \in Balance, NEW a \in Int, NEW h \in Int,
         w.available + a >= 0, w.reserved + h >= 0
  PROVE  /\ Moved(w, a, h) \in Balance
         /\ Moved(w, a, h).available = w.available + a
         /\ Moved(w, a, h).reserved = w.reserved + h
<1>1. /\ w.available \in Nat /\ w.reserved \in Nat
  BY DEF Balance
<1>2. w.available + a \in Nat /\ w.reserved + h \in Nat
  BY <1>1
<1>3. Moved(w, a, h) \in Balance
  BY <1>2 DEF Balance, Moved
<1>4. Moved(w, a, h).available = w.available + a
  BY DEF Moved, Balance
<1>5. Moved(w, a, h).reserved = w.reserved + h
  BY DEF Moved, Balance
<1> QED
  BY <1>3, <1>4, <1>5

LEMMA EntryType ==
  ASSUME NEW u \in Users, NEW w \in Balance, NEW amount \in Int,
         NEW prev \in Nat
  PROVE  /\ EntryFor(u, w, amount, prev) \in Entry
         /\ EntryFor(u, w, amount, prev) # None
<1>1. w.available \in Nat /\ w.reserved \in Nat
  BY DEF Balance
<1>2. EntryFor(u, w, amount, prev) \in Entry
  BY <1>1 DEF EntryFor, Entry
<1> QED
  BY <1>2, NoneAssumption

\* A move that leaves both balances natural, written under a key of the
\* ledger, keeps the types.
LEMMA PostType ==
  ASSUME WalletTypeOK,
         NEW u \in Users, NEW r \in Refs, NEW kind \in Kinds,
         NEW amount \in Int, NEW a \in Int, NEW h \in Int, NEW prev \in Nat,
         wallet[u].available + a >= 0,
         wallet[u].reserved + h >= 0,
         Post(u, r, kind, amount, a, h, prev)
  PROVE  WalletTypeOK'
<1> DEFINE w == Moved(wallet[u], a, h)
<1>1. wallet[u] \in Balance
  BY DEF WalletTypeOK
<1>2. w \in Balance
  BY <1>1, MovedType
<1>3. EntryFor(u, w, amount, prev) \in Entry
  BY <1>2, EntryType
<1>4. /\ wallet' = [wallet EXCEPT ![u] = w]
      /\ ledger' = [ledger EXCEPT ![<<r, kind>>] = EntryFor(u, w, amount, prev)]
  BY DEF Post
<1> HIDE DEF w
<1>5. wallet' \in [Users -> Balance]
  BY <1>2, <1>4 DEF WalletTypeOK
<1>6. ledger' \in [Keys -> Entry \cup {None}]
  BY <1>3, <1>4 DEF WalletTypeOK
<1> QED
  BY <1>5, <1>6 DEF WalletTypeOK

\* An entry written under a new key is a journal step when it states the
\* move of the balances; the flag of the wallet may change with them.
LEMMA EntryJournal ==
  ASSUME WalletTypeOK,
         NEW u \in Users, NEW r \in Refs, NEW kind \in Kinds \ {"debit_adjustment"},
         NEW amount \in Int, NEW a \in Int, NEW h \in Int, NEW prev \in Nat,
         NEW w \in Balance,
         w.available = wallet[u].available + a,
         w.reserved = wallet[u].reserved + h,
         ~Posted(r, kind),
         wallet' = [wallet EXCEPT ![u] = w],
         ledger' = [ledger EXCEPT ![<<r, kind>>] = EntryFor(u, w, amount, prev)],
         AvailableEffect(kind, EntryFor(u, w, amount, prev)) = a,
         ReservedEffect(kind, EntryFor(u, w, amount, prev)) = h
  PROVE  JournalStep
<1> DEFINE key == <<r, kind>>
           e == EntryFor(u, w, amount, prev)
<1>1. /\ key \in Keys
      /\ ledger[key] = None
  BY DEF Keys, Posted
<1>2. wallet[u] \in Balance
  BY DEF WalletTypeOK
<1>3. e \in Entry /\ e # None
  BY <1>2, EntryType
<1>4. /\ e.user = u /\ e.available = w.available /\ e.reserved = w.reserved
      /\ e.amount = amount /\ e.prev = prev
  BY DEF EntryFor
<1>5. AvailableEffect(kind, e) = a /\ ReservedEffect(kind, e) = h
  OBVIOUS
<1>6. /\ wallet' = [wallet EXCEPT ![u] = w]
      /\ ledger' = [ledger EXCEPT ![key] = e]
  OBVIOUS
<1>7. key[2] = kind /\ kind # "debit_adjustment"
  OBVIOUS
<1> HIDE DEF key, e
<1>8. /\ wallet'[u] = w
      /\ \A v \in Users : v # u => wallet'[v] = wallet[v]
      /\ ledger'[key] = e
      /\ \A k \in Keys : k # key => ledger'[k] = ledger[k]
  BY <1>1, <1>6 DEF WalletTypeOK
<1>9. \A k \in Keys : ledger[k] # None => ledger'[k] = ledger[k]
  BY <1>1, <1>8
<1>10. ASSUME NEW v \in Users
       PROVE  \A k \in NewKeys(v) : k = key /\ v = u
  BY <1>1, <1>4, <1>8 DEF NewKeys
<1>11. key \in Moves(u)
  BY <1>1, <1>3, <1>4, <1>7, <1>8 DEF NewKeys, Moves
<1>12. /\ wallet'[u].available - wallet[u].available = a
       /\ wallet'[u].reserved - wallet[u].reserved = h
  <2>1. wallet[u].available \in Nat /\ wallet[u].reserved \in Nat
    BY <1>2 DEF Balance
  <2> QED
    BY <2>1, <1>2, <1>8
<1>13. ASSUME NEW v \in Users, Moves(v) = {}
       PROVE  /\ NewKeys(v) = {}
              /\ wallet'[v].available = wallet[v].available
              /\ wallet'[v].reserved = wallet[v].reserved
  <2>1. v # u
    BY <1>11, <1>13
  <2>2. NewKeys(v) = {}
    BY <1>10, <2>1
  <2> QED
    BY <1>8, <2>1, <2>2
<1>14. ASSUME NEW v \in Users, NEW k \in NewKeys(v)
       PROVE  /\ v = u /\ k = key
              /\ ledger'[k].available = wallet'[v].available
              /\ ledger'[k].reserved = wallet'[v].reserved
  BY <1>4, <1>8, <1>10
<1>15. ASSUME NEW v \in Users, NEW k \in Moves(v)
       PROVE  /\ NewKeys(v) \subseteq {k, <<k[1], "debit_adjustment">>}
              /\ wallet'[v].available - wallet[v].available =
                   AvailableEffect(k[2], ledger'[k])
              /\ wallet'[v].reserved - wallet[v].reserved =
                   ReservedEffect(k[2], ledger'[k])
  <2>1. v = u /\ k = key /\ NewKeys(v) \subseteq {k}
    BY <1>10 DEF Moves
  <2>2. ledger'[k] = e /\ k[2] = kind
    BY <2>1, <1>7, <1>8
  <2> QED
    BY <2>1, <2>2, <1>5, <1>12
<1> QED
  BY <1>9, <1>13, <1>14, <1>15 DEF JournalStep

LEMMA PostJournal ==
  ASSUME WalletTypeOK,
         NEW u \in Users, NEW r \in Refs, NEW kind \in Kinds \ {"debit_adjustment"},
         NEW amount \in Int, NEW a \in Int, NEW h \in Int, NEW prev \in Nat,
         wallet[u].available + a >= 0,
         wallet[u].reserved + h >= 0,
         ~Posted(r, kind),
         Post(u, r, kind, amount, a, h, prev),
         \A e \in Entry : e.amount = amount /\ e.prev = prev =>
            AvailableEffect(kind, e) = a /\ ReservedEffect(kind, e) = h
  PROVE  JournalStep
<1> DEFINE w == Moved(wallet[u], a, h)
<1>1. wallet[u] \in Balance
  BY DEF WalletTypeOK
<1>2. /\ w \in Balance
      /\ w.available = wallet[u].available + a
      /\ w.reserved = wallet[u].reserved + h
  BY <1>1, MovedType
<1>3. /\ wallet' = [wallet EXCEPT ![u] = w]
      /\ ledger' = [ledger EXCEPT ![<<r, kind>>] = EntryFor(u, w, amount, prev)]
  BY DEF Post
<1> HIDE DEF w
<1>4. /\ EntryFor(u, w, amount, prev) \in Entry
      /\ EntryFor(u, w, amount, prev).amount = amount
      /\ EntryFor(u, w, amount, prev).prev = prev
  BY <1>2, EntryType DEF EntryFor
<1>5. /\ AvailableEffect(kind, EntryFor(u, w, amount, prev)) = a
      /\ ReservedEffect(kind, EntryFor(u, w, amount, prev)) = h
  BY <1>4
<1> QED
  BY <1>2, <1>3, <1>5, EntryJournal

\* A step that leaves the ledger and every balance alone is a step of the
\* journal.
LEMMA FlagJournal ==
  ASSUME ledger' = ledger,
         \A u \in Users : /\ wallet'[u].available = wallet[u].available
                          /\ wallet'[u].reserved = wallet[u].reserved
  PROVE  JournalStep
<1>1. \A u \in Users : NewKeys(u) = {} /\ Moves(u) = {}
  BY DEF NewKeys, Moves
<1> QED
  BY <1>1 DEF JournalStep

-----------------------------------------------------------------------------
(* One lemma per method: it keeps the types and is a step of the journal. *)

LEMMA BalanceType ==
  ASSUME WalletTypeOK, NEW u \in Users
  PROVE  /\ wallet[u] \in Balance
         /\ wallet[u].available \in Nat
         /\ wallet[u].reserved \in Nat
  BY DEF WalletTypeOK, Balance

LEMMA UnchangedStep ==
  ASSUME WalletTypeOK, UNCHANGED walletVars
  PROVE  WalletTypeOK' /\ JournalStep
  BY DEF WalletTypeOK, JournalStep, NewKeys, Moves, walletVars

LEMMA ReserveStep ==
  ASSUME WalletTypeOK, NEW u \in Users, NEW n \in Nat, NEW r \in Refs,
         Reserve(u, n, r)
  PROVE  WalletTypeOK' /\ JournalStep
<1>1. /\ ~Posted(r, "debit_reserve")
      /\ wallet[u].available >= n
      /\ Post(u, r, "debit_reserve", -n, -n, n, 0)
  BY DEF Reserve, ReserveAllowed
<1>2. /\ wallet[u].available \in Nat /\ wallet[u].reserved \in Nat
      /\ wallet[u].available + (-n) >= 0 /\ wallet[u].reserved + n >= 0
  BY <1>1, BalanceType
<1>3. /\ "debit_reserve" \in Kinds
      /\ "debit_reserve" \in Kinds \ {"debit_adjustment"}
      /\ -n \in Int /\ n \in Int /\ 0 \in Nat
  BY DEF Kinds
<1>4. \A e \in Entry : e.amount = -n /\ e.prev = 0 =>
         /\ AvailableEffect("debit_reserve", e) = -n
         /\ ReservedEffect("debit_reserve", e) = n
  BY DEF AvailableEffect, ReservedEffect, GrantKinds
<1>5. WalletTypeOK'
  BY <1>1, <1>2, <1>3, PostType
<1>6. JournalStep
  BY <1>1, <1>2, <1>3, <1>4, PostJournal
<1> QED
  BY <1>5, <1>6

LEMMA CaptureStep ==
  ASSUME WalletTypeOK, NEW u \in Users, NEW n \in Nat, NEW prev \in Nat,
         NEW r \in Refs, Capture(u, n, prev, r)
  PROVE  WalletTypeOK' /\ JournalStep
<1>1. /\ ~Posted(r, "debit_capture")
      /\ n <= prev
      /\ wallet[u].reserved >= prev
      /\ Post(u, r, "debit_capture", -n, prev - n, -prev, prev)
  BY DEF Capture
<1>2. /\ wallet[u].available \in Nat /\ wallet[u].reserved \in Nat
      /\ wallet[u].available + (prev - n) >= 0
      /\ wallet[u].reserved + (-prev) >= 0
  BY <1>1, BalanceType
<1>3. /\ "debit_capture" \in Kinds
      /\ "debit_capture" \in Kinds \ {"debit_adjustment"}
      /\ -n \in Int /\ prev - n \in Int /\ -prev \in Int
  BY DEF Kinds
<1>4. \A e \in Entry : e.amount = -n /\ e.prev = prev =>
         /\ AvailableEffect("debit_capture", e) = prev - n
         /\ ReservedEffect("debit_capture", e) = -prev
  BY DEF AvailableEffect, ReservedEffect, GrantKinds
<1>5. WalletTypeOK'
  BY <1>1, <1>2, <1>3, PostType
<1>6. JournalStep
  BY <1>1, <1>2, <1>3, <1>4, PostJournal
<1> QED
  BY <1>5, <1>6

LEMMA ReleaseStep ==
  ASSUME WalletTypeOK, NEW u \in Users, NEW n \in Nat, NEW r \in Refs,
         Release(u, n, r)
  PROVE  WalletTypeOK' /\ JournalStep
<1> DEFINE back == Least(n, wallet[u].reserved)
<1>1. /\ ~Posted(r, "credit_release")
      /\ Post(u, r, "credit_release", back, back, -back, 0)
  BY DEF Release
<1>2. /\ wallet[u].available \in Nat /\ wallet[u].reserved \in Nat
      /\ back \in Nat /\ back <= wallet[u].reserved
  BY BalanceType, LeastType
<1> HIDE DEF back
<1>3. /\ wallet[u].available + back >= 0
      /\ wallet[u].reserved + (-back) >= 0
  BY <1>2
<1>4. /\ "credit_release" \in Kinds
      /\ "credit_release" \in Kinds \ {"debit_adjustment"}
      /\ back \in Int /\ -back \in Int /\ 0 \in Nat
  BY <1>2 DEF Kinds
<1>5. \A e \in Entry : e.amount = back /\ e.prev = 0 =>
         /\ AvailableEffect("credit_release", e) = back
         /\ ReservedEffect("credit_release", e) = -back
  BY DEF AvailableEffect, ReservedEffect, GrantKinds
<1>6. WalletTypeOK'
  BY <1>1, <1>3, <1>4, PostType
<1>7. JournalStep
  BY <1>1, <1>3, <1>4, <1>5, PostJournal
<1> QED
  BY <1>6, <1>7

LEMMA CreditStep ==
  ASSUME WalletTypeOK, NEW u \in Users, NEW n \in Nat,
         NEW kind \in GrantKinds, NEW r \in Refs, Credit(u, n, kind, r)
  PROVE  WalletTypeOK' /\ JournalStep
<1>1. /\ ~Posted(r, kind)
      /\ Post(u, r, kind, n, n, 0, 0)
  BY DEF Credit
<1>2. /\ wallet[u].available \in Nat /\ wallet[u].reserved \in Nat
      /\ wallet[u].available + n >= 0 /\ wallet[u].reserved + 0 >= 0
  BY BalanceType
<1>3. /\ kind \in Kinds /\ kind \in Kinds \ {"debit_adjustment"}
      /\ n \in Int /\ 0 \in Int /\ 0 \in Nat
  BY DEF Kinds, GrantKinds
<1>4. \A e \in Entry : e.amount = n /\ e.prev = 0 =>
         /\ AvailableEffect(kind, e) = n
         /\ ReservedEffect(kind, e) = 0
  BY DEF AvailableEffect, ReservedEffect, GrantKinds
<1>5. WalletTypeOK'
  BY <1>1, <1>2, <1>3, PostType
<1>6. JournalStep
  BY <1>1, <1>2, <1>3, <1>4, PostJournal
<1> QED
  BY <1>5, <1>6

LEMMA SetFrozenStep ==
  ASSUME WalletTypeOK, NEW u \in Users, NEW frozen \in BOOLEAN,
         SetFrozen(u, frozen)
  PROVE  WalletTypeOK' /\ JournalStep
<1>1. /\ wallet' = [wallet EXCEPT ![u].frozen = frozen]
      /\ ledger' = ledger
  BY DEF SetFrozen
<1>2. \A v \in Users : /\ wallet'[v].available = wallet[v].available
                       /\ wallet'[v].reserved = wallet[v].reserved
  BY <1>1 DEF WalletTypeOK, Balance
<1>3. WalletTypeOK'
  BY <1>1 DEF WalletTypeOK, Balance
<1>4. JournalStep
  BY <1>1, <1>2, FlagJournal
<1> QED
  BY <1>3, <1>4

LEMMA RefundStep ==
  ASSUME WalletTypeOK, NEW u \in Users, NEW n \in Nat, NEW r \in Refs,
         Refund(u, n, r)
  PROVE  WalletTypeOK' /\ JournalStep
<1> DEFINE taken == Least(n, wallet[u].available)
           w     == Moved(wallet[u], -taken, 0)
           key   == <<r, "credit_refund">>
           clamp == <<r, "debit_adjustment">>
           e     == EntryFor(u, w, -taken, 0)
           short == EntryFor(u, w, taken - n, 0)
           wrote == taken < n /\ ledger[clamp] = None
<1>1. /\ ledger[key] = None
      /\ wallet' = [wallet EXCEPT ![u] = w]
      /\ ledger' = [k \in Keys |-> IF k = key THEN e
                                   ELSE IF k = clamp /\ wrote THEN short
                                   ELSE ledger[k]]
  BY DEF Refund, Posted
<1>2. /\ taken \in Nat /\ taken <= wallet[u].available
      /\ wallet[u].available \in Nat /\ wallet[u].reserved \in Nat
      /\ wallet[u] \in Balance
  BY BalanceType, LeastType
<1>3. /\ w \in Balance
      /\ w.available = wallet[u].available - taken
      /\ w.reserved = wallet[u].reserved
  <2>1. /\ -taken \in Int /\ 0 \in Int
        /\ wallet[u].available + (-taken) >= 0
        /\ wallet[u].reserved + 0 >= 0
    BY <1>2
  <2>2. /\ w \in Balance
        /\ w.available = wallet[u].available + (-taken)
        /\ w.reserved = wallet[u].reserved + 0
    BY <1>2, <2>1, MovedType
  <2> QED
    BY <1>2, <2>2
<1>4. /\ e \in Entry /\ short \in Entry
      /\ e # None
  <2>1. -taken \in Int /\ taken - n \in Int /\ 0 \in Nat
    BY <1>2
  <2> QED
    BY <1>3, <2>1, EntryType
<1>5. /\ e.user = u /\ e.available = w.available /\ e.reserved = w.reserved
      /\ e.amount = -taken
      /\ short.user = u /\ short.available = w.available
      /\ short.reserved = w.reserved
  BY DEF EntryFor
<1>6. /\ AvailableEffect("credit_refund", e) = -taken
      /\ ReservedEffect("credit_refund", e) = 0
  BY <1>5 DEF AvailableEffect, ReservedEffect, GrantKinds
<1>7. /\ key \in Keys /\ clamp \in Keys /\ key # clamp
      /\ key[2] = "credit_refund" /\ clamp[2] = "debit_adjustment"
  BY DEF Keys, Kinds
<1> HIDE DEF taken, w, key, clamp, e, short
<1>8. WalletTypeOK'
  BY <1>1, <1>3, <1>4 DEF WalletTypeOK
<1>9. /\ wallet'[u] = w
      /\ \A v \in Users : v # u => wallet'[v] = wallet[v]
      /\ ledger'[key] = e
      /\ wrote => ledger'[clamp] = short
      /\ \A k \in Keys : k # key /\ ~(k = clamp /\ wrote) =>
           ledger'[k] = ledger[k]
  BY <1>1, <1>7 DEF WalletTypeOK
<1>10. \A k \in Keys : ledger[k] # None => ledger'[k] = ledger[k]
  BY <1>1, <1>9
<1>11. ASSUME NEW v \in Users, NEW k \in NewKeys(v)
       PROVE  v = u /\ (k = key \/ (k = clamp /\ wrote))
  BY <1>5, <1>9 DEF NewKeys
<1>12. key \in Moves(u)
  BY <1>1, <1>4, <1>5, <1>7, <1>9 DEF NewKeys, Moves
<1>13. ASSUME NEW v \in Users, Moves(v) = {}
       PROVE  /\ NewKeys(v) = {}
              /\ wallet'[v].available = wallet[v].available
              /\ wallet'[v].reserved = wallet[v].reserved
  <2>1. v # u
    BY <1>12, <1>13
  <2>2. NewKeys(v) = {}
    BY <1>11, <2>1
  <2> QED
    BY <1>9, <2>1, <2>2
<1>14. ASSUME NEW v \in Users, NEW k \in NewKeys(v)
       PROVE  /\ ledger'[k].available = wallet'[v].available
              /\ ledger'[k].reserved = wallet'[v].reserved
  <2>1. v = u /\ (k = key \/ (k = clamp /\ wrote))
    BY <1>11
  <2> QED
    BY <1>5, <1>9, <2>1
<1>15. ASSUME NEW v \in Users, NEW k \in Moves(v)
       PROVE  /\ NewKeys(v) \subseteq {k, <<k[1], "debit_adjustment">>}
              /\ wallet'[v].available - wallet[v].available =
                   AvailableEffect(k[2], ledger'[k])
              /\ wallet'[v].reserved - wallet[v].reserved =
                   ReservedEffect(k[2], ledger'[k])
  <2>1. v = u /\ k = key
    BY <1>7, <1>11 DEF Moves
  <2>2. /\ wallet'[v].available - wallet[v].available = -taken
        /\ wallet'[v].reserved - wallet[v].reserved = 0
    BY <1>2, <1>3, <1>9, <2>1
  <2>3. <<k[1], "debit_adjustment">> = clamp
    BY <2>1 DEF key, clamp
  <2>4. NewKeys(v) \subseteq {k, <<k[1], "debit_adjustment">>}
    BY <1>11, <2>1, <2>3
  <2> QED
    BY <1>6, <1>7, <1>9, <2>1, <2>2, <2>4
<1>16. JournalStep
  BY <1>10, <1>13, <1>14, <1>15 DEF JournalStep
<1> QED
  BY <1>8, <1>16

-----------------------------------------------------------------------------
(* What the callers of the wallet do with it. *)

LEMMA RefTypes ==
  /\ \A j \in Jobs : /\ j \in Refs
                     /\ Owner[j] \in Users
                     /\ Price[j] \in Nat
  /\ \A r \in Credits : r \in Refs
  /\ \A n \in Amounts : n \in Nat
  BY OwnerAssumption, PriceAssumption, AmountsAssumption DEF Refs

LEMMA JobCallStep ==
  ASSUME WalletTypeOK, NEW j \in Jobs, JobCall(j)
  PROVE  WalletTypeOK' /\ JournalStep
<1> DEFINE u == Owner[j]
           n == Price[j]
<1>1. u \in Users /\ n \in Nat /\ j \in Refs
  BY RefTypes
<1>2. CASE Reserve(u, n, j)
  BY <1>1, <1>2, ReserveStep
<1>3. ASSUME NEW m \in 0 .. n, Capture(u, m, n, j)
      PROVE  WalletTypeOK' /\ JournalStep
  <2>1. m \in Nat
    BY <1>1
  <2> QED
    BY <1>1, <1>3, <2>1, CaptureStep
<1>4. CASE Release(u, n, j)
  BY <1>1, <1>4, ReleaseStep
<1>5. CASE \/ ReserveRefused(u, n, j) \/ Duplicate(j, "debit_reserve")
           \/ CaptureRefused(n + 1, n) \/ CaptureAborts(u, n, j)
           \/ Duplicate(j, "debit_capture") \/ Duplicate(j, "credit_release")
  <2>1. UNCHANGED walletVars
    BY <1>5 DEF ReserveRefused, Duplicate, CaptureRefused, CaptureAborts
  <2> QED
    BY <2>1, UnchangedStep
<1> QED
  BY <1>2, <1>3, <1>4, <1>5 DEF JobCall

LEMMA BillingCallStep ==
  ASSUME WalletTypeOK, NEW u \in Users, NEW n \in Amounts, NEW r \in Credits,
         BillingCall(u, n, r)
  PROVE  WalletTypeOK' /\ JournalStep
<1>1. r \in Refs /\ n \in Nat
  BY RefTypes
<1>2. ASSUME NEW kind \in GrantKinds, Credit(u, n, kind, r)
      PROVE  WalletTypeOK' /\ JournalStep
  BY <1>1, <1>2, CreditStep
<1>3. CASE Refund(u, n, r)
  BY <1>1, <1>3, RefundStep
<1>4. ASSUME NEW kind, Duplicate(r, kind)
      PROVE  WalletTypeOK' /\ JournalStep
  BY <1>4, UnchangedStep DEF Duplicate
<1> QED
  BY <1>2, <1>3, <1>4 DEF BillingCall

LEMMA WalletStep ==
  ASSUME WalletTypeOK, [WalletNext]_walletVars
  PROVE  WalletTypeOK' /\ JournalStep
<1>1. ASSUME NEW j \in Jobs, JobCall(j)
      PROVE  WalletTypeOK' /\ JournalStep
  BY <1>1, JobCallStep
<1>2. ASSUME NEW u \in Users, NEW n \in Amounts, NEW r \in Credits,
             BillingCall(u, n, r)
      PROVE  WalletTypeOK' /\ JournalStep
  BY <1>2, BillingCallStep
<1>3. ASSUME NEW u \in Users, NEW frozen \in BOOLEAN, SetFrozen(u, frozen)
      PROVE  WalletTypeOK' /\ JournalStep
  BY <1>3, SetFrozenStep
<1>4. CASE UNCHANGED walletVars
  BY <1>4, UnchangedStep
<1> QED
  BY <1>1, <1>2, <1>3, <1>4 DEF WalletNext

LEMMA WalletInitType == WalletInit => WalletTypeOK
  BY DEF WalletInit, WalletTypeOK, Balance

\* No balance is ever negative and every entry is well formed, for any users,
\* jobs, prices and amounts: the refusals, the CHECK constraints and the
\* clamps of wallet_service.py guard every path to token_wallets.
THEOREM WalletType == WalletSpec => []WalletTypeOK
<1>1. WalletTypeOK /\ [WalletNext]_walletVars => WalletTypeOK'
  BY WalletStep
<1> QED
  BY <1>1, WalletInitType, PTL DEF WalletSpec

\* The ledger is an append-only journal: no entry is rewritten, and balances
\* move only together with a new entry of the same user that states the move
\* exactly (every method of wallet_service.py, insert_or_get).
THEOREM WalletJournaled == WalletSpec => Journaled
<1>1. WalletTypeOK /\ [WalletNext]_walletVars => [JournalStep]_walletVars
  BY WalletStep
<1> QED
  BY <1>1, WalletType, PTL DEF WalletSpec, Journaled

-----------------------------------------------------------------------------
(* The balances are the sums of the ledger. *)

\* No user has infinitely many entries: without it the sums mean nothing.
LedgerFinite == \A u \in Users : IsFiniteSet(KeysOf(u))

LEMMA EffectType ==
  ASSUME WalletTypeOK, NEW u \in Users, NEW k \in KeysOf(u)
  PROVE  /\ AvailableEffect(k[2], ledger[k]) \in Int
         /\ ReservedEffect(k[2], ledger[k]) \in Int
<1>1. /\ ledger[k] \in Entry
      /\ k[2] \in Kinds
  BY DEF KeysOf, WalletTypeOK, Keys
<1>2. /\ ledger[k].amount \in Int
      /\ ledger[k].prev \in Int
  BY <1>1 DEF Entry
<1>3. AvailableEffect(k[2], ledger[k]) \in Int
  BY <1>1, <1>2 DEF AvailableEffect, GrantKinds, Kinds
<1>4. ReservedEffect(k[2], ledger[k]) \in Int
  BY <1>2 DEF ReservedEffect
<1> QED
  BY <1>3, <1>4

LEMMA KeysGrow ==
  ASSUME JournalStep, NEW u \in Users
  PROVE  /\ KeysOf(u)' = KeysOf(u) \cup NewKeys(u)
         /\ KeysOf(u) \cap NewKeys(u) = {}
         /\ \A k \in KeysOf(u) : ledger'[k] = ledger[k]
<1>1. \A k \in Keys : ledger[k] # None => ledger'[k] = ledger[k]
  BY DEF JournalStep
<1> QED
  BY <1>1 DEF KeysOf, NewKeys

\* A new entry adds its effect to the sum, and the clamp entry of a refund
\* adds nothing.
LEMMA SumOfStep ==
  ASSUME NEW f, NEW g, NEW S, NEW T, IsFiniteSet(S),
         \A x \in S : f[x] \in Int /\ g[x] = f[x],
         NEW k, NEW c, k \notin S, g[k] \in Int,
         \/ T = S \cup {k}
         \/ T = (S \cup {k}) \cup {c} /\ c \notin S /\ c # k /\ g[c] = 0
  PROVE  /\ IsFiniteSet(T)
         /\ SumFunctionOnSet(g, T) = SumFunctionOnSet(f, S) + g[k]
<1> DEFINE U == S \cup {k}
<1>1. SumFunctionOnSet(g, S) = SumFunctionOnSet(f, S)
  BY SumSame
<1>2. SumFunctionOnSet(f, S) \in Int
  BY SumInt
<1>3. SumFunctionOnSet(g, U) = g[k] + SumFunctionOnSet(g, S)
  BY SumAdd
<1>4. IsFiniteSet(U) /\ \A x \in U : g[x] \in Int
  BY FS_AddElement
<1>5. CASE T = U
  BY <1>1, <1>2, <1>3, <1>4, <1>5
<1>6. CASE T = U \cup {c} /\ c \notin S /\ c # k /\ g[c] = 0
  <2>1. c \notin U /\ g[c] = 0
    BY <1>6
  <2> HIDE DEF U
  <2>2. SumFunctionOnSet(g, U \cup {c}) = g[c] + SumFunctionOnSet(g, U)
    BY <1>4, <2>1, SumAdd
  <2>3. IsFiniteSet(U \cup {c})
    BY <1>4, FS_AddElement
  <2> QED
    BY <1>1, <1>2, <1>3, <1>6, <2>1, <2>2, <2>3
<1> QED
  BY <1>5, <1>6

\* Every step of the journal keeps the balances equal to the sums.
LEMMA RebuildStep ==
  ASSUME WalletTypeOK, WalletTypeOK', JournalStep, LedgerFinite,
         BalancesRebuild
  PROVE  LedgerFinite' /\ BalancesRebuild'
<1> SUFFICES ASSUME NEW u \in Users
             PROVE  /\ IsFiniteSet(KeysOf(u))'
                    /\ wallet'[u].available = SumFunction(AvailableEffects(u))'
                    /\ wallet'[u].reserved = SumFunction(ReservedEffects(u))'
  BY DEF LedgerFinite, BalancesRebuild
<1> DEFINE S == KeysOf(u)
           T == KeysOf(u)'
           fa == AvailableEffects(u)
           ga == AvailableEffects(u)'
           fr == ReservedEffects(u)
           gr == ReservedEffects(u)'
<1>1. /\ IsFiniteSet(S)
      /\ wallet[u].available = SumFunctionOnSet(fa, S)
      /\ wallet[u].reserved = SumFunctionOnSet(fr, S)
  BY DEF LedgerFinite, BalancesRebuild, SumFunction, AvailableEffects,
         ReservedEffects
<1>2. /\ SumFunction(AvailableEffects(u))' = SumFunctionOnSet(ga, T)
      /\ SumFunction(ReservedEffects(u))' = SumFunctionOnSet(gr, T)
  BY DEF SumFunction, AvailableEffects, ReservedEffects
<1>3. /\ T = S \cup NewKeys(u)
      /\ S \cap NewKeys(u) = {}
      /\ \A k \in S : ledger'[k] = ledger[k]
  BY KeysGrow
<1>4. /\ \A k \in S : /\ fa[k] = AvailableEffect(k[2], ledger[k])
                      /\ fr[k] = ReservedEffect(k[2], ledger[k])
      /\ \A k \in T : /\ ga[k] = AvailableEffect(k[2], ledger'[k])
                      /\ gr[k] = ReservedEffect(k[2], ledger'[k])
  BY DEF AvailableEffects, ReservedEffects
<1>5. \A k \in S : fa[k] \in Int /\ fr[k] \in Int
  BY <1>4, EffectType
<1>6. \A k \in T : ga[k] \in Int /\ gr[k] \in Int
  <2>1. ASSUME NEW k \in T
        PROVE  /\ AvailableEffect(k[2], ledger'[k]) \in Int
               /\ ReservedEffect(k[2], ledger'[k]) \in Int
    <3>1. /\ ledger'[k] \in Entry
          /\ k[2] \in Kinds
      BY DEF KeysOf, WalletTypeOK, Keys
    <3>2. /\ ledger'[k].amount \in Int
          /\ ledger'[k].prev \in Int
      BY <3>1 DEF Entry
    <3>3. AvailableEffect(k[2], ledger'[k]) \in Int
      BY <3>1, <3>2 DEF AvailableEffect, GrantKinds, Kinds
    <3>4. ReservedEffect(k[2], ledger'[k]) \in Int
      BY <3>2 DEF ReservedEffect
    <3> QED
      BY <3>3, <3>4
  <2> QED
    BY <1>4, <2>1
<1>7. \A k \in S : ga[k] = fa[k] /\ gr[k] = fr[k]
  BY <1>3, <1>4
<1>8. /\ wallet[u].available \in Nat /\ wallet[u].reserved \in Nat
      /\ wallet'[u].available \in Nat /\ wallet'[u].reserved \in Nat
  BY DEF WalletTypeOK, Balance
<1> HIDE DEF S, T, fa, ga, fr, gr
<1>9. CASE Moves(u) = {}
  <2>1. /\ NewKeys(u) = {}
        /\ wallet'[u].available = wallet[u].available
        /\ wallet'[u].reserved = wallet[u].reserved
    BY <1>9 DEF JournalStep
  <2>2. T = S
    BY <1>3, <2>1
  <2>3. /\ SumFunctionOnSet(fa, S) = SumFunctionOnSet(ga, S)
        /\ SumFunctionOnSet(fr, S) = SumFunctionOnSet(gr, S)
    BY <1>1, <1>5, <1>7, SumSame
  <2> QED
    BY <1>1, <1>2, <2>1, <2>2, <2>3 DEF T
<1>10. CASE Moves(u) # {}
  <2>1. PICK k \in Moves(u) :
          /\ NewKeys(u) \subseteq {k, <<k[1], "debit_adjustment">>}
          /\ wallet'[u].available - wallet[u].available =
               AvailableEffect(k[2], ledger'[k])
          /\ wallet'[u].reserved - wallet[u].reserved =
               ReservedEffect(k[2], ledger'[k])
    BY <1>10 DEF JournalStep
  <2> DEFINE c == <<k[1], "debit_adjustment">>
  <2>2. k \in NewKeys(u) /\ k[2] # "debit_adjustment"
    BY DEF Moves
  <2>3. k \notin S /\ k \in T /\ c # k
    BY <1>3, <2>2
  <2>4. c \in T => ga[c] = 0 /\ gr[c] = 0
    <3>1. c[2] = "debit_adjustment"
      OBVIOUS
    <3>2. \A e : /\ AvailableEffect("debit_adjustment", e) = 0
                 /\ ReservedEffect("debit_adjustment", e) = 0
      BY DEF AvailableEffect, ReservedEffect, GrantKinds
    <3> HIDE DEF c
    <3> QED
      BY <1>4, <3>1, <3>2
  <2>5. \/ T = S \cup {k}
        \/ T = (S \cup {k}) \cup {c} /\ c \notin S /\ c \in T
    BY <1>3, <2>1, <2>2, <2>3
  <2>6. ga[k] \in Int /\ gr[k] \in Int
    BY <1>6, <2>3
  <2>7. /\ ga[k] = wallet'[u].available - wallet[u].available
        /\ gr[k] = wallet'[u].reserved - wallet[u].reserved
    BY <1>4, <2>1, <2>3
  <2> HIDE DEF c
  <2>8. \/ T = S \cup {k}
        \/ T = (S \cup {k}) \cup {c} /\ c \notin S /\ c # k /\ ga[c] = 0
    BY <2>3, <2>4, <2>5
  <2>9. \/ T = S \cup {k}
        \/ T = (S \cup {k}) \cup {c} /\ c \notin S /\ c # k /\ gr[c] = 0
    BY <2>3, <2>4, <2>5
  <2>10. \A x \in S : fa[x] \in Int /\ ga[x] = fa[x]
    BY <1>5, <1>7
  <2>11. \A x \in S : fr[x] \in Int /\ gr[x] = fr[x]
    BY <1>5, <1>7
  <2>12. /\ IsFiniteSet(T)
         /\ SumFunctionOnSet(ga, T) = SumFunctionOnSet(fa, S) + ga[k]
    BY <1>1, <2>3, <2>6, <2>8, <2>10, SumOfStep
  <2>13. SumFunctionOnSet(gr, T) = SumFunctionOnSet(fr, S) + gr[k]
    BY <1>1, <2>3, <2>6, <2>9, <2>11, SumOfStep
  <2> QED
    BY <1>1, <1>2, <1>8, <2>7, <2>12, <2>13 DEF T
<1> QED
  BY <1>9, <1>10

LEMMA RebuildInit == WalletInit => LedgerFinite /\ BalancesRebuild
<1> SUFFICES ASSUME WalletInit, NEW u \in Users
             PROVE  /\ IsFiniteSet(KeysOf(u))
                    /\ wallet[u].available = SumFunction(AvailableEffects(u))
                    /\ wallet[u].reserved = SumFunction(ReservedEffects(u))
  BY DEF LedgerFinite, BalancesRebuild
<1>1. KeysOf(u) = {}
  BY DEF WalletInit, KeysOf
<1>2. wallet[u].available = 0 /\ wallet[u].reserved = 0
  BY DEF WalletInit
<1>3. /\ SumFunction(AvailableEffects(u)) =
           SumFunctionOnSet(AvailableEffects(u), {})
      /\ SumFunction(ReservedEffects(u)) =
           SumFunctionOnSet(ReservedEffects(u), {})
  BY <1>1 DEF SumFunction, AvailableEffects, ReservedEffects
<1>4. IsFiniteSet({})
  BY FS_EmptySet
<1> QED
  BY <1>1, <1>2, <1>3, <1>4, SumEmpty

LEMMA RebuildKept ==
  ASSUME WalletTypeOK, [WalletNext]_walletVars, LedgerFinite, BalancesRebuild
  PROVE  LedgerFinite' /\ BalancesRebuild'
  BY WalletStep, RebuildStep

\* The two balances of a user are at every moment the sums of what the
\* entries of that user say: token_wallets can be rebuilt from token_ledger,
\* for any users, jobs, prices, amounts and order of calls (every method of
\* wallet_service.py).
THEOREM WalletRebuilds == WalletSpec => []BalancesRebuild
<1>1. WalletInit => LedgerFinite /\ BalancesRebuild
  BY RebuildInit
<1>2. WalletTypeOK /\ LedgerFinite /\ BalancesRebuild /\ [WalletNext]_walletVars
        => (LedgerFinite /\ BalancesRebuild)'
  BY RebuildKept
<1> QED
  BY <1>1, <1>2, WalletType, PTL DEF WalletSpec

=============================================================================
