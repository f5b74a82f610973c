--------------------------- MODULE BufferTeoremas ---------------------------
(***************************************************************************)
(* What the operators of the module Buffer return, for every sequence of   *)
(* items and every capacity: the saturation policy removes exactly as many *)
(* items as it was asked to, keeps the rest in its order, and never        *)
(* removes an event while a sample is left.                                *)
(***************************************************************************)
EXTENDS Buffer, FiniteSetTheorems, SequenceTheorems, WellFoundedInduction, TLAPS

-----------------------------------------------------------------------------
(* Least and greatest numbers.                                             *)

LEMMA MenorQue == \A m, n \in Nat : m < n => <<m, n>> \in OpToRel(<, Nat)
  BY Zenon DEF OpToRel

\* Every non-empty set of numbers has a least one, and Menor is it.
LEMMA MenorExiste ==
  ASSUME NEW S \in SUBSET Nat, S # {}
  PROVE  Menor(S) \in S /\ \A m \in S : Menor(S) <= m
<1>1. PICK n \in S : \A m \in S : ~(<<m, n>> \in OpToRel(<, Nat))
  BY NatLessThanWellFounded, WFMin
<1>2. \A m \in S : ~(m < n)
  BY <1>1, MenorQue, Zenon
<1>3. \A m \in S : n <= m
  BY <1>2
<1> QED BY <1>3 DEF Menor

\* A bounded non-empty set of numbers has a greatest one, and Maior is it.
LEMMA MaiorExiste ==
  ASSUME NEW S \in SUBSET Nat, S # {}, NEW cota \in Nat, \A m \in S : m <= cota
  PROVE  Maior(S) \in S /\ \A m \in S : m <= Maior(S)
<1> DEFINE Cotas == {b \in Nat : \A m \in S : m <= b}
           b == Menor(Cotas)
<1>1. b \in Cotas /\ \A c \in Cotas : b <= c
  BY MenorExiste
<1>2. b \in Nat /\ \A m \in S : m <= b
  BY <1>1
<1>3. \A c \in Nat : (\A m \in S : m <= c) => b <= c
  BY <1>1
<1> HIDE DEF b, Cotas
<1>4. b \in S
  <2> SUFFICES ASSUME b \notin S PROVE FALSE
    OBVIOUS
  <2>1. PICK n \in S : TRUE
    OBVIOUS
  <2>2. \A m \in S : m \in Nat /\ m <= b /\ m # b
    BY <1>2
  <2>3. \A m \in S : m <= b - 1
    BY <2>2, <1>2
  <2>4. b - 1 \in Nat
    BY <2>1, <2>2, <1>2
  <2> QED BY <2>3, <2>4, <1>3, <1>2
<1> QED BY <1>2, <1>4 DEF Maior

-----------------------------------------------------------------------------
(* The positions of a finite set of numbers, in increasing order.          *)

Ate(K, i) == {j \in K : j <= i}

\* What lies up to an element is a finite part of the set that holds it.
LEMMA AteParte ==
  ASSUME NEW K \in SUBSET Nat, IsFiniteSet(K), NEW i \in K
  PROVE  /\ Ate(K, i) \in SUBSET K /\ i \in Ate(K, i)
         /\ IsFiniteSet(Ate(K, i))
         /\ Cardinality(Ate(K, i)) \in 1 .. Cardinality(K)
<1>1. Ate(K, i) \in SUBSET K
  BY DEF Ate
<1>2. i \in Ate(K, i)
  BY DEF Ate
<1>3. IsFiniteSet(Ate(K, i)) /\ Cardinality(Ate(K, i)) <= Cardinality(K)
  BY <1>1, FS_Subset
<1>4. Cardinality(Ate(K, i)) \in Nat /\ Cardinality(Ate(K, i)) # 0 /\ Cardinality(K) \in Nat
  BY <1>2, <1>3, FS_CardinalityType, FS_EmptySet
<1> QED BY <1>1, <1>2, <1>3, <1>4

\* Larger elements have more below them.
LEMMA AteCresce ==
  ASSUME NEW K \in SUBSET Nat, IsFiniteSet(K), NEW a \in K, NEW b \in K, a < b
  PROVE  Cardinality(Ate(K, a)) < Cardinality(Ate(K, b))
<1>1. \A j \in K : j <= a => j <= b
  OBVIOUS
<1>2. Ate(K, a) \in SUBSET Ate(K, b)
  BY <1>1 DEF Ate
<1>3. b \notin Ate(K, a)
  BY DEF Ate
<1>4. b \in Ate(K, b) /\ IsFiniteSet(Ate(K, b))
  BY AteParte
<1>5. Ate(K, a) # Ate(K, b)
  BY <1>3, <1>4
<1>6. /\ Cardinality(Ate(K, a)) <= Cardinality(Ate(K, b))
      /\ Cardinality(Ate(K, a)) # Cardinality(Ate(K, b))
  BY <1>2, <1>4, <1>5, FS_Subset
<1>7. Cardinality(Ate(K, a)) \in Nat /\ Cardinality(Ate(K, b)) \in Nat
  BY AteParte, FS_CardinalityType
<1> QED BY <1>6, <1>7

\* The m-th position exists for every m up to the size of the set.
LEMMA PosicaoExiste ==
  ASSUME NEW K \in SUBSET Nat, IsFiniteSet(K), NEW m \in 1 .. Cardinality(K)
  PROVE  /\ Posicao(K, m) \in K
         /\ Cardinality(Ate(K, Posicao(K, m))) = m
<1> DEFINE Tem(n) == \E i \in K : Cardinality(Ate(K, i)) = n
           Faltam == {n \in 1 .. Cardinality(K) : ~Tem(n)}
<1>0. Cardinality(K) \in Nat
  BY FS_CardinalityType
<1>1. Faltam = {}
  <2> SUFFICES ASSUME Faltam # {} PROVE FALSE
    OBVIOUS
  <2>1. PICK n \in Faltam : \A p \in Faltam : n <= p
    <3>1. Faltam \in SUBSET Nat
      BY <1>0
    <3> HIDE DEF Faltam
    <3> QED BY <3>1, MenorExiste
  <2>2. n \in 1 .. Cardinality(K) /\ ~Tem(n)
    BY <2>1
  <2>3. CASE n = 1
    <3>1. K # {}
      BY <2>3, <2>2, FS_EmptySet
    <3>2. PICK i \in K : \A j \in K : i <= j
      BY <3>1, MenorExiste
    <3>3. Ate(K, i) = {i}
      <4>1. \A j \in K : j <= i <=> j = i
        BY <3>2
      <4> QED BY <4>1 DEF Ate
    <3>4. Cardinality(Ate(K, i)) = 1
      BY <3>3, FS_Singleton
    <3> QED BY <3>4, <2>3, <2>2
  <2>4. CASE n # 1
    <3>1. n - 1 \in 1 .. Cardinality(K) /\ n - 1 \notin Faltam
      BY <2>1, <2>2, <2>4, <1>0
    <3>2. PICK i \in K : Cardinality(Ate(K, i)) = n - 1
      BY <3>1
    <3> DEFINE R == {j \in K : i < j}
    <3>3. R # {}
      <4> SUFFICES ASSUME R = {} PROVE FALSE
        OBVIOUS
      <4>1. \A j \in K : j <= i
        BY DEF R
      <4>2. Ate(K, i) = K
        BY <4>1 DEF Ate
      <4> QED BY <4>2, <3>2, <2>2, <1>0
    <3>4. PICK p \in R : \A j \in R : p <= j
      BY <3>3, MenorExiste
    <3>5. Ate(K, p) = Ate(K, i) \cup {p} /\ p \notin Ate(K, i)
      <4>1. p \in K /\ i < p /\ \A j \in K : i < j => p <= j
        BY <3>4
      <4>2. \A j \in K : j <= p <=> (j <= i \/ j = p)
        BY <4>1
      <4>3. \A j : j \in Ate(K, p) <=> j \in Ate(K, i) \cup {p}
        BY <4>1, <4>2 DEF Ate
      <4>4. p \notin Ate(K, i)
        BY <4>1 DEF Ate
      <4> QED BY <4>3, <4>4, Zenon
    <3>6. IsFiniteSet(Ate(K, i))
      BY AteParte
    <3>7. Cardinality(Ate(K, p)) = n
      BY <3>5, <3>6, <3>2, FS_AddElement, <2>2, <1>0
    <3> QED BY <3>7, <2>2
  <2> QED BY <2>3, <2>4
<1>2. Tem(m)
  BY <1>1
<1> QED BY <1>2 DEF Posicao, Ate

\* Positions grow with their index.
LEMMA PosicaoCresce ==
  ASSUME NEW K \in SUBSET Nat, IsFiniteSet(K),
         NEW m \in 1 .. Cardinality(K), NEW n \in 1 .. Cardinality(K), m < n
  PROVE  Posicao(K, m) < Posicao(K, n)
<1>1. PICK p \in K : p = Posicao(K, m) /\ Cardinality(Ate(K, p)) = m
  BY PosicaoExiste
<1>2. PICK q \in K : q = Posicao(K, n) /\ Cardinality(Ate(K, q)) = n
  BY PosicaoExiste
<1>3. ~(q < p) /\ q # p
  BY <1>1, <1>2, AteCresce, FS_CardinalityType
<1> QED BY <1>1, <1>2, <1>3

\* Every element of the set is one of its positions.
LEMMA PosicaoAlcanca ==
  ASSUME NEW K \in SUBSET Nat, IsFiniteSet(K), NEW i \in K
  PROVE  \E m \in 1 .. Cardinality(K) : Posicao(K, m) = i
<1>1. PICK m \in 1 .. Cardinality(K) : Cardinality(Ate(K, i)) = m
  BY AteParte
<1>2. PICK p \in K : p = Posicao(K, m) /\ Cardinality(Ate(K, p)) = m
  BY PosicaoExiste
<1>3. ~(p < i) /\ ~(i < p)
  BY <1>1, <1>2, AteCresce, FS_CardinalityType
<1> QED BY <1>2, <1>3

-----------------------------------------------------------------------------
(* What the saturation policy removes.                                     *)

LEMMA Dominio ==
  ASSUME NEW s \in Seq(Item)
  PROVE  /\ Len(s) \in Nat /\ DOMAIN s = 1 .. Len(s) /\ DOMAIN s \in SUBSET Nat
         /\ IsFiniteSet(DOMAIN s) /\ Cardinality(DOMAIN s) = Len(s)
         /\ \A i \in DOMAIN s : /\ s[i] \in Item /\ s[i].seq \in Nat
                                 /\ s[i].classe \in Classes /\ s[i].relata \in Nat
<1>1. Len(s) \in Nat /\ DOMAIN s = 1 .. Len(s)
  BY LenProperties
<1>2. IsFiniteSet(1 .. Len(s)) /\ Cardinality(1 .. Len(s)) = Len(s)
  BY <1>1, FS_Interval
<1>3. \A i \in DOMAIN s : s[i] \in Item
  BY ElementOfSeq, <1>1
<1> QED BY <1>1, <1>2, <1>3 DEF Item

\* In any non-empty set of positions some position leaves before all others.
LEMMA PrimeiroASair ==
  ASSUME NEW s \in Seq(Item), NEW T \in SUBSET DOMAIN s, T # {}
  PROVE  \E i \in T : \A j \in T \ {i} : SaiAntes(s, i, j)
<1> DEFINE A == {i \in T : s[i].classe = "amostra"}
<1>1. T \in SUBSET Nat /\ A \in SUBSET Nat
  OBVIOUS
<1>2. \A i \in T : s[i].classe \in Classes
  BY Dominio
<1>3. CASE A # {}
  <2>1. PICK i \in A : \A j \in A : i <= j
    BY <1>1, <1>3, MenorExiste
  <2>2. \A j \in T \ {i} : SaiAntes(s, i, j)
    BY <1>1, <1>2, <2>1 DEF SaiAntes, Classes
  <2> QED BY <2>1, <2>2
<1>4. CASE A = {}
  <2>1. PICK i \in T : \A j \in T : i <= j
    BY <1>1, MenorExiste
  <2>2. \A j \in T \ {i} : SaiAntes(s, i, j)
    BY <1>1, <1>2, <1>4, <2>1 DEF SaiAntes, Classes
  <2> QED BY <2>1, <2>2
<1> QED BY <1>3, <1>4

SairamAntes(s, D) == \A i \in D : \A j \in DOMAIN s \ D : SaiAntes(s, i, j)

\* k calls of abrirEspaco on a buffer of at least k items remove exactly k
\* positions, and each of them leaves before each that stays.
LEMMA DescartadosExiste ==
  ASSUME NEW s \in Seq(Item), NEW k \in 0 .. Len(s)
  PROVE  /\ Descartados(s, k) \in SUBSET DOMAIN s
         /\ Cardinality(Descartados(s, k)) = k
         /\ SairamAntes(s, Descartados(s, k))
<1> DEFINE Tem(n) == \E D \in SUBSET DOMAIN s : Cardinality(D) = n /\ SairamAntes(s, D)
           Faltam == {n \in 0 .. Len(s) : ~Tem(n)}
<1>0. /\ Len(s) \in Nat /\ DOMAIN s = 1 .. Len(s)
      /\ IsFiniteSet(DOMAIN s) /\ Cardinality(DOMAIN s) = Len(s)
  BY Dominio
<1>1. Faltam = {}
  <2> SUFFICES ASSUME Faltam # {} PROVE FALSE
    OBVIOUS
  <2>1. PICK n \in Faltam : \A p \in Faltam : n <= p
    <3>1. Faltam \in SUBSET Nat
      BY <1>0
    <3> HIDE DEF Faltam
    <3> QED BY <3>1, MenorExiste
  <2>2. n \in 0 .. Len(s) /\ ~Tem(n)
    BY <2>1
  <2>3. CASE n = 0
    <3>1. Cardinality({}) = 0 /\ SairamAntes(s, {})
      BY FS_EmptySet DEF SairamAntes
    <3> QED BY <3>1, <2>3, <2>2
  <2>4. CASE n # 0
    <3>1. n - 1 \in 0 .. Len(s) /\ n - 1 \notin Faltam
      BY <2>1, <2>2, <2>4, <1>0
    <3>2. PICK D \in SUBSET DOMAIN s : Cardinality(D) = n - 1 /\ SairamAntes(s, D)
      BY <3>1
    <3>3. IsFiniteSet(D)
      BY <1>0, FS_Subset
    <3>4. DOMAIN s \ D # {}
      <4>1. D # DOMAIN s
        BY <3>2, <1>0, <2>2
      <4> QED BY <4>1
    <3>5. PICK i \in DOMAIN s \ D : \A j \in (DOMAIN s \ D) \ {i} : SaiAntes(s, i, j)
      BY <3>4, PrimeiroASair
    <3>6. Cardinality(D \cup {i}) = n
      <4>1. i \notin D
        BY <3>5
      <4>2. Cardinality(D \cup {i}) = Cardinality(D) + 1
        BY <3>3, <4>1, FS_AddElement
      <4> QED BY <4>2, <3>2, <2>2, <1>0
    <3>7. SairamAntes(s, D \cup {i})
      BY <3>2, <3>5 DEF SairamAntes
    <3> QED BY <3>6, <3>7, <2>2
  <2> QED BY <2>3, <2>4
<1>2. Tem(k)
  BY <1>1
<1> QED BY <1>2 DEF Descartados, SairamAntes

\* The part of a sequence at a set of positions: as long as the set, made of the
\* items there, and in sequence order if the whole was.
LEMMA RestanteFatos ==
  ASSUME NEW s \in Seq(Item), NEW K \in SUBSET DOMAIN s
  PROVE  /\ Restante(s, K) \in Seq(Item)
         /\ Len(Restante(s, K)) = Cardinality(K)
         /\ Itens(Restante(s, K)) = {s[i] : i \in K}
         /\ Crescente(s) => Crescente(Restante(s, K))
<1> DEFINE n == Cardinality(K)
           r == Restante(s, K)
<1>1. IsFiniteSet(K) /\ n \in Nat /\ K \in SUBSET Nat
  BY Dominio, FS_Subset, FS_CardinalityType
<1>2. \A m \in 1 .. n : Posicao(K, m) \in K
  BY <1>1, PosicaoExiste
<1>3. \A m \in 1 .. n : s[Posicao(K, m)] \in Item
  BY <1>2, Dominio
<1>4. r = [m \in 1 .. n |-> s[Posicao(K, m)]]
  BY DEF Restante
<1>5. r \in Seq(Item) /\ Len(r) = n /\ DOMAIN r = 1 .. n
  BY <1>1, <1>3, <1>4, IsASeq, LenProperties
<1>6. Itens(r) = {s[i] : i \in K}
  <2>1. \A m \in 1 .. n : r[m] \in {s[i] : i \in K}
    BY <1>2, <1>4
  <2>2. \A i \in K : \E m \in 1 .. n : r[m] = s[i]
    BY <1>1, <1>4, PosicaoAlcanca
  <2> QED BY <1>5, <2>1, <2>2 DEF Itens
<1>7. ASSUME Crescente(s) PROVE Crescente(r)
  <2> SUFFICES ASSUME NEW a \in 1 .. n, NEW b \in 1 .. n, a < b
               PROVE  r[a].seq < r[b].seq
    BY <1>5 DEF Crescente
  <2>1. Posicao(K, a) < Posicao(K, b)
    BY <1>1, PosicaoCresce
  <2> QED BY <2>1, <1>2, <1>4, <1>7 DEF Crescente
<1> QED BY <1>5, <1>6, <1>7

\* In a sequence order no two positions hold the same item, or the same number.
LEMMA CrescenteInjetiva ==
  ASSUME NEW s \in Seq(Item), Crescente(s), NEW i \in DOMAIN s, NEW j \in DOMAIN s,
         s[i].seq = s[j].seq
  PROVE  i = j
<1>1. i \in Nat /\ j \in Nat /\ s[i].seq \in Nat
  BY Dominio
<1>2. ~(i < j) /\ ~(j < i)
  BY <1>1 DEF Crescente
<1> QED BY <1>1, <1>2

\* What k calls of abrirEspaco leave and what they remove: together all there
\* was, nothing twice, as many as asked, the rest in its order, and an event
\* only when no sample is left.
LEMMA ApararFatos ==
  ASSUME NEW s \in Seq(Item), NEW k \in 0 .. Len(s)
  PROVE  /\ Aparar(s, k) \in Seq(Item)
         /\ Len(Aparar(s, k)) = Len(s) - k
         /\ Itens(Aparar(s, k)) \cup Caidos(s, k) = Itens(s)
         /\ Caidos(s, k) \in SUBSET Item /\ IsFiniteSet(Caidos(s, k))
         /\ Eventos(Caidos(s, k)) # {} => Amostras(Itens(Aparar(s, k))) = {}
         /\ Crescente(s) =>
              /\ Crescente(Aparar(s, k))
              /\ Seqs(Itens(Aparar(s, k))) \cap Seqs(Caidos(s, k)) = {}
              /\ Cardinality(Caidos(s, k)) = k
<1> DEFINE D == Descartados(s, k)
           K == DOMAIN s \ D
<1>1. D \in SUBSET DOMAIN s /\ Cardinality(D) = k /\ SairamAntes(s, D)
  BY DescartadosExiste
<1>2. IsFiniteSet(DOMAIN s) /\ Cardinality(DOMAIN s) = Len(s) /\ Len(s) \in Nat
  BY Dominio
<1>3. K \in SUBSET DOMAIN s /\ IsFiniteSet(D) /\ IsFiniteSet(K)
  BY <1>1, <1>2, FS_Subset
<1>4. Cardinality(K) = Len(s) - k
  <2>1. Cardinality(K) = Cardinality(DOMAIN s) - Cardinality(DOMAIN s \cap D)
    BY <1>2, <1>3, FS_Difference
  <2>2. DOMAIN s \cap D = D
    BY <1>1
  <2> QED BY <2>1, <2>2, <1>1, <1>2
<1> HIDE DEF D
<1>5. Aparar(s, k) = Restante(s, K) /\ Caidos(s, k) = {s[i] : i \in D}
  BY DEF Aparar, Caidos, D
<1>6. /\ Restante(s, K) \in Seq(Item)
      /\ Len(Restante(s, K)) = Cardinality(K)
      /\ Itens(Restante(s, K)) = {s[i] : i \in K}
      /\ Crescente(s) => Crescente(Restante(s, K))
  BY <1>3, RestanteFatos
<1>7. {s[i] : i \in K} \cup {s[i] : i \in D} = Itens(s)
  BY <1>1 DEF Itens
<1>8. Caidos(s, k) \in SUBSET Item
  BY <1>1, <1>5, Dominio
<1>9. Eventos(Caidos(s, k)) # {} => Amostras(Itens(Restante(s, K))) = {}
  <2> SUFFICES ASSUME NEW e \in Eventos(Caidos(s, k)), NEW a \in Amostras(Itens(Restante(s, K)))
               PROVE  FALSE
    OBVIOUS
  <2>1. PICK i \in D : s[i].classe = "evento"
    BY <1>5 DEF Eventos
  <2>2. PICK j \in K : s[j].classe = "amostra"
    BY <1>6 DEF Amostras
  <2>3. SaiAntes(s, i, j)
    BY <1>1 DEF SairamAntes
  <2> QED BY <2>1, <2>2, <2>3 DEF SaiAntes
<1> DEFINE f == [i \in D |-> s[i]]
           T == {s[i] : i \in D}
<1>10. f \in Surjection(D, T)
  BY DEF Surjection
<1>11. IsFiniteSet(T) /\ (f \in Injection(D, T) => Cardinality(T) = Cardinality(D))
  <2> HIDE DEF f, T
  <2> QED BY <1>3, <1>10, FS_Surjection
<1>12. ASSUME Crescente(s)
       PROVE  Seqs({s[i] : i \in K}) \cap Seqs(T) = {} /\ Cardinality(T) = k
  <2>1. \A i, j \in DOMAIN s : s[i].seq = s[j].seq => i = j
    BY <1>12, CrescenteInjetiva
  <2>2. Seqs({s[i] : i \in K}) \cap Seqs(T) = {}
    BY <2>1, <1>1 DEF Seqs
  <2>3. f \in Injection(D, T)
    <3>1. f \in [D -> T]
      OBVIOUS
    <3>2. \A i, j \in D : f[i] = f[j] => i = j
      BY <2>1, <1>1
    <3> QED BY <3>1, <3>2 DEF Injection, IsInjective
  <2> QED BY <2>2, <2>3, <1>11, <1>1
<1> QED BY <1>4, <1>5, <1>6, <1>7, <1>8, <1>9, <1>11, <1>12

-----------------------------------------------------------------------------
(* Two sequences of items, one behind the other.                           *)

LEMMA ItensDeSeq ==
  ASSUME NEW s \in Seq(Item)
  PROVE  /\ Itens(s) \in SUBSET Item
         /\ s = <<>> <=> Itens(s) = {}
  BY Dominio, EmptySeq DEF Itens

LEMMA ConcatFatos ==
  ASSUME NEW a \in Seq(Item), NEW b \in Seq(Item)
  PROVE  /\ a \o b \in Seq(Item)
         /\ Len(a \o b) = Len(a) + Len(b)
         /\ Itens(a \o b) = Itens(a) \cup Itens(b)
         /\ Crescente(a \o b) <=>
              /\ Crescente(a) /\ Crescente(b)
              /\ \A m \in Seqs(Itens(a)), n \in Seqs(Itens(b)) : m < n
<1> DEFINE c == a \o b
<1>1. /\ c \in Seq(Item) /\ Len(c) = Len(a) + Len(b)
      /\ Len(a) \in Nat /\ Len(b) \in Nat
      /\ DOMAIN a = 1 .. Len(a) /\ DOMAIN b = 1 .. Len(b)
      /\ DOMAIN c = 1 .. Len(a) + Len(b)
  BY ConcatProperties, LenProperties
<1>2. /\ \A i \in DOMAIN a : i \in DOMAIN c /\ c[i] = a[i]
      /\ \A i \in DOMAIN b : Len(a) + i \in DOMAIN c /\ c[Len(a) + i] = b[i]
      /\ \A i \in DOMAIN c : i \in DOMAIN a \/ i - Len(a) \in DOMAIN b
      /\ \A i \in DOMAIN c : i \notin DOMAIN a => c[i] = b[i - Len(a)]
  BY <1>1, ConcatProperties
<1> HIDE DEF c
<1>3. Itens(c) = Itens(a) \cup Itens(b)
  <2>1. ASSUME NEW x \in Itens(c) PROVE x \in Itens(a) \cup Itens(b)
    BY <1>2 DEF Itens
  <2>2. ASSUME NEW x \in Itens(a) PROVE x \in Itens(c)
    BY <1>2 DEF Itens
  <2>3. ASSUME NEW x \in Itens(b) PROVE x \in Itens(c)
    <3>1. PICK i \in DOMAIN b : x = b[i]
      BY DEF Itens
    <3> QED BY <3>1, <1>2 DEF Itens
  <2> QED BY <2>1, <2>2, <2>3
<1>4. ASSUME Crescente(c)
      PROVE  /\ Crescente(a) /\ Crescente(b)
             /\ \A m \in Seqs(Itens(a)), n \in Seqs(Itens(b)) : m < n
  <2>1. Crescente(a)
    BY <1>2, <1>4 DEF Crescente
  <2>2. ASSUME NEW i \in DOMAIN b, NEW j \in DOMAIN b, i < j PROVE b[i].seq < b[j].seq
    <3>1. Len(a) + i < Len(a) + j
      BY <2>2, <1>1
    <3> QED BY <3>1, <1>2, <1>4 DEF Crescente
  <2>3. ASSUME NEW i \in DOMAIN a, NEW j \in DOMAIN b PROVE a[i].seq < b[j].seq
    <3>1. i < Len(a) + j
      BY <1>1
    <3> QED BY <3>1, <1>2, <1>4 DEF Crescente
  <2> QED BY <2>1, <2>2, <2>3 DEF Crescente, Seqs, Itens
<1>5. ASSUME Crescente(a), Crescente(b),
             \A m \in Seqs(Itens(a)), n \in Seqs(Itens(b)) : m < n
      PROVE  Crescente(c)
  <2> SUFFICES ASSUME NEW i \in DOMAIN c, NEW j \in DOMAIN c, i < j
               PROVE  c[i].seq < c[j].seq
    BY DEF Crescente
  <2>1. CASE j \in DOMAIN a
    <3>1. i \in DOMAIN a
      BY <1>1, <2>1
    <3> QED BY <3>1, <2>1, <1>2, <1>5 DEF Crescente
  <2>2. CASE i \in DOMAIN a /\ j \notin DOMAIN a
    <3>1. c[i].seq \in Seqs(Itens(a)) /\ c[j].seq \in Seqs(Itens(b))
      BY <1>2, <2>2 DEF Seqs, Itens
    <3> QED BY <3>1, <1>5
  <2>3. CASE i \notin DOMAIN a
    <3>1. /\ i - Len(a) \in DOMAIN b /\ j - Len(a) \in DOMAIN b
          /\ c[i] = b[i - Len(a)] /\ c[j] = b[j - Len(a)]
          /\ i - Len(a) < j - Len(a)
      BY <1>1, <1>2, <2>3
    <3> QED BY <3>1, <1>5 DEF Crescente
  <2> QED BY <2>1, <2>2, <2>3
<1> QED BY <1>1, <1>3, <1>4, <1>5 DEF c

\* Drenar splits the buffer: what leaves, in front, is at most a batch, and it
\* is not empty unless the buffer was.
LEMMA DrenarFatos ==
  ASSUME NEW s \in Seq(Item), NEW limite \in Nat \ {0}
  PROVE  /\ Drenados(s, limite) \in Seq(Item)
         /\ SemDrenados(s, limite) \in Seq(Item)
         /\ Drenados(s, limite) \o SemDrenados(s, limite) = s
         /\ Len(Drenados(s, limite)) <= limite
         /\ Len(SemDrenados(s, limite)) <= Len(s)
         /\ s # <<>> => Drenados(s, limite) # <<>>
<1> DEFINE q == IF limite > Len(s) THEN Len(s) ELSE limite
           a == SubSeq(s, 1, q)
           b == SubSeq(s, q + 1, Len(s))
<1>1. /\ Len(s) \in Nat /\ DOMAIN s = 1 .. Len(s) /\ \A i \in 1 .. Len(s) : s[i] \in Item
  BY Dominio
<1>2. q \in Nat /\ q <= Len(s) /\ q <= limite /\ (Len(s) # 0 => q # 0)
  BY <1>1
<1> HIDE DEF q
<1>3. a \in Seq(Item) /\ Len(a) = q /\ \A i \in 1 .. q : a[i] = s[i]
  <2>1. \A i \in 1 .. q : s[i] \in Item
    BY <1>1, <1>2
  <2>2. /\ a \in Seq(Item) /\ Len(a) = IF 1 <= q THEN q - 1 + 1 ELSE 0
        /\ \A i \in 1 .. q - 1 + 1 : a[i] = s[1 + i - 1]
    BY <2>1, <1>2, SubSeqProperties
  <2> QED BY <2>2, <1>2
<1>4. b \in Seq(Item) /\ Len(b) = Len(s) - q /\ \A i \in 1 .. Len(s) - q : b[i] = s[q + i]
  <2>1. \A i \in q + 1 .. Len(s) : s[i] \in Item
    BY <1>1, <1>2
  <2>2. /\ b \in Seq(Item)
        /\ Len(b) = IF q + 1 <= Len(s) THEN Len(s) - (q + 1) + 1 ELSE 0
        /\ \A i \in 1 .. Len(s) - (q + 1) + 1 : b[i] = s[q + 1 + i - 1]
    BY <2>1, <1>1, <1>2, SubSeqProperties
  <2>3. /\ Len(s) - (q + 1) + 1 = Len(s) - q
        /\ (IF q + 1 <= Len(s) THEN Len(s) - (q + 1) + 1 ELSE 0) = Len(s) - q
    <3>1. \A n, p \in Nat : p <= n => /\ n - (p + 1) + 1 = n - p
                                    /\ (IF p + 1 <= n THEN n - (p + 1) + 1 ELSE 0) = n - p
      OBVIOUS
    <3> QED BY <3>1, <1>1, <1>2, Zenon
  <2>4. \A i \in 1 .. Len(s) - q : q + 1 + i - 1 = q + i
    BY <1>1, <1>2
  <2> HIDE DEF b
  <2> QED BY <2>2, <2>3, <2>4
<1> HIDE DEF a, b
<1>5. a \o b = s
  <2>1. /\ a \o b \in Seq(Item) /\ Len(a \o b) = Len(s)
        /\ \A i \in 1 .. Len(s) : (a \o b)[i] = IF i <= q THEN a[i] ELSE b[i - q]
    <3>1. q + (Len(s) - q) = Len(s)
      BY <1>1, <1>2
    <3>2. /\ a \o b \in Seq(Item) /\ Len(a \o b) = Len(a) + Len(b)
          /\ \A i \in 1 .. Len(a) + Len(b) :
               (a \o b)[i] = IF i <= Len(a) THEN a[i] ELSE b[i - Len(a)]
      BY <1>3, <1>4, ConcatProperties
    <3> QED BY <3>1, <3>2, <1>3, <1>4
  <2>2. \A i \in 1 .. Len(s) : (a \o b)[i] = s[i]
    <3> TAKE i \in 1 .. Len(s)
    <3>1. CASE i <= q
      BY <3>1, <2>1, <1>3, <1>2
    <3>2. CASE ~(i <= q)
      <4>1. i - q \in 1 .. Len(s) - q /\ q + (i - q) = i
        BY <3>2, <1>1, <1>2
      <4> QED BY <4>1, <3>2, <2>1, <1>4
    <3> QED BY <3>1, <3>2
  <2> QED BY <2>1, <2>2, SeqEqual
<1>6. s # <<>> => a # <<>>
  BY <1>1, <1>2, <1>3, EmptySeq
<1>7. Drenados(s, limite) = a /\ SemDrenados(s, limite) = b
  BY DEF Drenados, SemDrenados, a, b, q
<1>8. Len(a) <= limite /\ Len(b) <= Len(s)
  BY <1>1, <1>2, <1>3, <1>4
<1> QED BY <1>3, <1>4, <1>5, <1>6, <1>7, <1>8

-----------------------------------------------------------------------------
(* What the saturation policy does to a buffer that grew, and to the gap.  *)

\* N is what is left of the items in S after the removal of those in C.
Sobrou(S, C, N) ==
  /\ C \in SUBSET Item /\ IsFiniteSet(C)
  /\ N \cup C = S
  /\ Seqs(N) \cap Seqs(C) = {}
  /\ Eventos(C) # {} => Amostras(N) = {}

\* Devolver: the batch in front, then as many removals as do not fit.
LEMMA DevolverFatos ==
  ASSUME NEW s \in Seq(Item), NEW lote \in Seq(Item), NEW cap \in Nat
  PROVE  /\ Devolver(s, lote, cap) \in Seq(Item)
         /\ Len(Devolver(s, lote, cap)) <= cap
         /\ IsFiniteSet(CaidosAoDevolver(s, lote, cap))
         /\ CaidosAoDevolver(s, lote, cap) \in SUBSET Item
         /\ Crescente(lote \o s) =>
              /\ Crescente(Devolver(s, lote, cap))
              /\ Sobrou(Itens(lote) \cup Itens(s), CaidosAoDevolver(s, lote, cap),
                        Itens(Devolver(s, lote, cap)))
<1> DEFINE t == lote \o s
           k == Excesso(t, cap)
<1>1. t \in Seq(Item) /\ Itens(t) = Itens(lote) \cup Itens(s) /\ Len(t) \in Nat
  BY ConcatFatos, LenProperties
<1>2. k \in 0 .. Len(t) /\ Len(t) - k <= cap
  BY <1>1 DEF Excesso
<1>3. Devolver(s, lote, cap) = Aparar(t, k) /\ CaidosAoDevolver(s, lote, cap) = Caidos(t, k)
  BY DEF Devolver, CaidosAoDevolver
<1> HIDE DEF t, k
<1>4. /\ Aparar(t, k) \in Seq(Item) /\ Len(Aparar(t, k)) = Len(t) - k
      /\ Itens(Aparar(t, k)) \cup Caidos(t, k) = Itens(t)
      /\ Caidos(t, k) \in SUBSET Item /\ IsFiniteSet(Caidos(t, k))
      /\ Eventos(Caidos(t, k)) # {} => Amostras(Itens(Aparar(t, k))) = {}
      /\ Crescente(t) => /\ Crescente(Aparar(t, k))
                         /\ Seqs(Itens(Aparar(t, k))) \cap Seqs(Caidos(t, k)) = {}
  BY <1>1, <1>2, ApararFatos
<1>5. t = lote \o s
  BY DEF t
<1> QED BY <1>1, <1>2, <1>3, <1>4, <1>5 DEF Sobrou

\* Acrescentar: at most one removal, among what was there before.
LEMMA AcrescentarFatos ==
  ASSUME NEW s \in Seq(Item), NEW item \in Item, NEW cap \in Nat \ {0}, Len(s) <= cap
  PROVE  /\ Acrescentar(s, item, cap) \in Seq(Item)
         /\ Len(Acrescentar(s, item, cap)) <= cap
         /\ IsFiniteSet(CaidosAoAcrescentar(s, cap))
         /\ CaidosAoAcrescentar(s, cap) \in SUBSET Item
         /\ Crescente(s) =>
              \E r \in Seq(Item) :
                /\ Acrescentar(s, item, cap) = r \o <<item>>
                /\ Crescente(r)
                /\ Sobrou(Itens(s), CaidosAoAcrescentar(s, cap), Itens(r))
<1> DEFINE k == VagasParaAcrescentar(s, cap)
           r == Aparar(s, k)
<1>1. Len(s) \in Nat
  BY LenProperties
<1>2. k \in 0 .. Len(s) /\ Len(s) - k + 1 <= cap
  BY <1>1 DEF VagasParaAcrescentar
<1>3. Acrescentar(s, item, cap) = Append(r, item) /\ CaidosAoAcrescentar(s, cap) = Caidos(s, k)
  BY DEF Acrescentar, CaidosAoAcrescentar
<1> HIDE DEF k
<1>4. /\ r \in Seq(Item) /\ Len(r) = Len(s) - k
      /\ Itens(r) \cup Caidos(s, k) = Itens(s)
      /\ Caidos(s, k) \in SUBSET Item /\ IsFiniteSet(Caidos(s, k))
      /\ Eventos(Caidos(s, k)) # {} => Amostras(Itens(r)) = {}
      /\ Crescente(s) => Crescente(r) /\ Seqs(Itens(r)) \cap Seqs(Caidos(s, k)) = {}
  BY <1>2, ApararFatos
<1> HIDE DEF r
<1>5. Append(r, item) \in Seq(Item) /\ Len(Append(r, item)) = Len(r) + 1
  BY <1>4, AppendProperties
<1>6. Append(r, item) = r \o <<item>>
  BY <1>4, AppendIsConcat
<1> QED BY <1>1, <1>2, <1>3, <1>4, <1>5, <1>6 DEF Sobrou

\* A non-empty finite set of numbers has a greatest one.
LEMMA FinitoTemMaior ==
  ASSUME NEW S \in SUBSET Nat, IsFiniteSet(S), S # {}
  PROVE  Maior(S) \in S /\ \A m \in S : m <= Maior(S)
<1>1. Cardinality(S) \in Nat /\ Cardinality(S) # 0
  BY FS_CardinalityType, FS_EmptySet
<1>2. PICK i \in S : Cardinality(Ate(S, i)) = Cardinality(S)
  <2>1. Cardinality(S) \in 1 .. Cardinality(S)
    BY <1>1
  <2> QED BY <2>1, PosicaoExiste
<1>3. Ate(S, i) = S
  BY <1>2, AteParte, FS_Subset
<1>4. \A m \in S : m <= i
  BY <1>3 DEF Ate
<1> QED BY <1>4, MaiorExiste

LEMMA SeqsFinito ==
  ASSUME NEW C \in SUBSET Item, IsFiniteSet(C)
  PROVE  /\ Seqs(C) \in SUBSET Nat /\ IsFiniteSet(Seqs(C))
         /\ Eventos(C) \in SUBSET C /\ IsFiniteSet(Eventos(C))
<1> DEFINE f == [item \in C |-> item.seq]
           T == {item.seq : item \in C}
<1>1. f \in Surjection(C, T)
  BY DEF Surjection
<1>2. IsFiniteSet(T)
  <2> HIDE DEF f, T
  <2> QED BY <1>1, FS_Surjection
<1>3. Seqs(C) = T /\ Seqs(C) \in SUBSET Nat
  BY DEF Seqs, Item
<1>4. Eventos(C) \in SUBSET C
  BY DEF Eventos
<1> QED BY <1>2, <1>3, <1>4, FS_Subset

\* The gap counts what was removed; its interval never shrinks, contains every
\* event removed and stays one.
LEMMA AcumularFatos ==
  ASSUME NEW l \in Lacunas, NEW C \in SUBSET Item, IsFiniteSet(C)
  PROVE  /\ Acumular(l, C) \in Lacunas
         /\ Acumular(l, C).registros = l.registros + Cardinality(C)
         /\ l.primeira <= l.ultima => Acumular(l, C).primeira <= Acumular(l, C).ultima
         /\ l.registros # 0 => Acumular(l, C).primeira <= l.primeira
         /\ l.ultima <= Acumular(l, C).ultima
         /\ \A n \in Seqs(Eventos(C)) :
              Acumular(l, C).primeira <= n /\ n <= Acumular(l, C).ultima
<1> DEFINE seqs == Seqs(Eventos(C))
           base == IF l.registros = 0 /\ Amostras(C) = {} THEN seqs
                   ELSE {l.primeira} \cup seqs
           topo == {l.ultima} \cup seqs
           A == Acumular(l, C)
<1>1. Cardinality(C) \in Nat
  BY FS_CardinalityType
<1>2. l.registros \in Nat /\ l.primeira \in Nat /\ l.ultima \in Nat
  BY DEF Lacunas
<1>3. Eventos(C) \in SUBSET Item /\ IsFiniteSet(Eventos(C))
  BY SeqsFinito
<1>4. seqs \in SUBSET Nat /\ IsFiniteSet(seqs)
  BY <1>3, SeqsFinito
<1>5. A = [registros |-> l.registros + Cardinality(C),
           primeira |-> IF seqs = {} THEN l.primeira ELSE Menor(base),
           ultima |-> IF seqs = {} THEN l.ultima ELSE Maior(topo)]
  BY DEF Acumular
<1>6. CASE seqs = {}
  BY <1>1, <1>2, <1>5, <1>6 DEF Lacunas
<1>7. CASE seqs # {}
  <2>1. base \in SUBSET Nat /\ base # {} /\ seqs \in SUBSET base
    BY <1>2, <1>4, <1>7
  <2>2. topo \in SUBSET Nat /\ topo # {} /\ IsFiniteSet(topo)
    BY <1>2, <1>4, FS_AddElement, FS_Singleton, FS_Union
  <2>3. l.registros # 0 => l.primeira \in base
    OBVIOUS
  <2> HIDE DEF base, topo, seqs
  <2>4. Menor(base) \in Nat /\ \A n \in base : Menor(base) <= n
    BY <2>1, MenorExiste
  <2>5. Maior(topo) \in Nat /\ \A n \in topo : n <= Maior(topo)
    BY <2>2, FinitoTemMaior
  <2>6. l.ultima \in topo /\ seqs \in SUBSET topo
    BY DEF topo
  <2>7. A.registros = l.registros + Cardinality(C) /\ A.primeira = Menor(base) /\ A.ultima = Maior(topo)
    BY <1>5, <1>7
  <2>8. PICK n \in seqs : n \in Nat
    BY <1>4, <1>7
  <2>9. A.primeira <= A.ultima
    BY <2>1, <2>4, <2>5, <2>6, <2>7, <2>8
  <2>10. A \in Lacunas
    BY <1>1, <1>2, <1>5, <1>7, <2>4, <2>5 DEF Lacunas
  <2> QED BY <2>1, <2>3, <2>4, <2>5, <2>6, <2>7, <2>9, <2>10 DEF seqs
<1> QED BY <1>6, <1>7

-----------------------------------------------------------------------------
(* The saturation and the batch by counting: whether one item stays, or    *)
(* goes in the batch, says nothing of positions but how many others come   *)
(* after it, or before it.                                                 *)

\* p gives every member of E a position of s of its own, and every position.
Enumera(p, E, s) ==
  /\ p \in [E -> DOMAIN s]
  /\ \A x, y \in E : p[x] = p[y] => x = y
  /\ \A i \in DOMAIN s : \E x \in E : p[x] = i

\* As many members of E as there are positions in K.
LEMMA MesmaConta ==
  ASSUME NEW s \in Seq(Item), NEW E, NEW p, Enumera(p, E, s), NEW K \in SUBSET DOMAIN s
  PROVE  /\ IsFiniteSet({x \in E : p[x] \in K})
         /\ Cardinality({x \in E : p[x] \in K}) = Cardinality(K)
<1> DEFINE T == {x \in E : p[x] \in K}
           g == [x \in T |-> p[x]]
<1>1. IsFiniteSet(K)
  BY Dominio, FS_Subset
<1>2. g \in Injection(T, K)
  BY DEF Enumera, Injection, IsInjective
<1>3. g \in Surjection(T, K)
  <2>1. g \in [T -> K]
    OBVIOUS
  <2>2. \A i \in K : \E x \in T : g[x] = i
    BY DEF Enumera
  <2> HIDE DEF g, T
  <2> QED BY <2>1, <2>2 DEF Surjection
<1> HIDE DEF g, T
<1>4. IsFiniteSet(T) /\ Cardinality(T) = Cardinality(K)
  BY <1>1, <1>2, <1>3, FS_Injection
<1> QED BY <1>4 DEF T

\* Of a set that is cut in an order, those after j tell on which side j is.
LEMMA CortePorContagem ==
  ASSUME NEW T, IsFiniteSet(T), NEW K \in SUBSET T, NEW j \in T, NEW A \in SUBSET (T \ {j}),
         j \in K => A \subseteq K,
         j \notin K => K \subseteq A
  PROVE  j \in K <=> Cardinality(A) < Cardinality(K)
<1>1. IsFiniteSet(K) /\ IsFiniteSet(A) /\ IsFiniteSet(K \ {j})
  BY FS_Subset
<1>2. Cardinality(K) \in Nat /\ Cardinality(A) \in Nat
  BY <1>1, FS_CardinalityType
<1>3. CASE j \in K
  <2>1. Cardinality(K \ {j}) = Cardinality(K) - 1
    BY <1>1, <1>3, FS_RemoveElement
  <2>2. Cardinality(A) <= Cardinality(K \ {j})
    BY <1>1, <1>3, FS_Subset
  <2> QED BY <1>2, <1>3, <2>1, <2>2
<1>4. CASE j \notin K
  <2>1. Cardinality(K) <= Cardinality(A)
    BY <1>1, <1>4, FS_Subset
  <2> QED BY <1>2, <1>4, <2>1
<1> QED BY <1>3, <1>4

LEMMA NoRestante ==
  ASSUME NEW s \in Seq(Item), Crescente(s), NEW K \in SUBSET DOMAIN s, NEW i \in DOMAIN s
  PROVE  s[i] \in Itens(Restante(s, K)) <=> i \in K
<1>1. Itens(Restante(s, K)) = {s[j] : j \in K}
  BY RestanteFatos
<1>2. \A j \in K : s[i] = s[j] => i = j
  BY CrescenteInjetiva
<1> QED BY <1>1, <1>2

\* What is left of s once it fits in cap: those that have fewer than cap others
\* to leave after them.
LEMMA ApararPorContagem ==
  ASSUME NEW s \in Seq(Item), Crescente(s), NEW cap \in Nat,
         NEW E, NEW p, Enumera(p, E, s), NEW x \in E
  PROVE  s[p[x]] \in Itens(Aparar(s, Excesso(s, cap)))
         <=> Cardinality({y \in E \ {x} : SaiAntes(s, p[x], p[y])}) < cap
<1> DEFINE k == Excesso(s, cap)
           D == Descartados(s, k)
           ficam == DOMAIN s \ D
           T == {y \in E : p[y] \in ficam}
           A == {y \in E \ {x} : SaiAntes(s, p[x], p[y])}
<1>1. /\ Len(s) \in Nat /\ DOMAIN s = 1 .. Len(s)
      /\ IsFiniteSet(DOMAIN s) /\ Cardinality(DOMAIN s) = Len(s)
  BY Dominio
<1>2. k \in 0 .. Len(s) /\ (~(cap < Len(s)) => k = 0) /\ (cap < Len(s) => Len(s) - k = cap)
  <2>1. k = IF Len(s) > cap THEN Len(s) - cap ELSE 0
    BY DEF Excesso
  <2>2. \A n, c \in Nat : \A e : e = (IF n > c THEN n - c ELSE 0)
          => e \in 0 .. n /\ (~(c < n) => e = 0) /\ (c < n => n - e = c)
    OBVIOUS
  <2> HIDE DEF k
  <2> QED BY <1>1, <2>1, <2>2
<1>3. p[x] \in DOMAIN s /\ \A y \in E : p[y] \in DOMAIN s
  BY DEF Enumera
<1>4. /\ D \in SUBSET DOMAIN s /\ Cardinality(D) = k /\ SairamAntes(s, D)
  BY <1>2, DescartadosExiste
<1>5. Aparar(s, k) = Restante(s, ficam)
  BY DEF Aparar
<1> HIDE DEF k, D
<1>6. s[p[x]] \in Itens(Aparar(s, k)) <=> p[x] \in ficam
  BY <1>3, <1>5, NoRestante
<1>7. IsFiniteSet(E) /\ Cardinality(E) = Len(s)
  <2> DEFINE todas == DOMAIN s
  <2>1. {y \in E : p[y] \in todas} = E
    BY <1>3
  <2>3. todas \in SUBSET DOMAIN s
    OBVIOUS
  <2> HIDE DEF todas
  <2>2. /\ IsFiniteSet({y \in E : p[y] \in todas})
        /\ Cardinality({y \in E : p[y] \in todas}) = Cardinality(todas)
    BY <2>3, MesmaConta
  <2> QED BY <1>1, <2>1, <2>2 DEF todas
<1>8. IsFiniteSet(T) /\ Cardinality(T) = Cardinality(ficam)
  <2>1. ficam \in SUBSET DOMAIN s
    OBVIOUS
  <2> HIDE DEF ficam
  <2> QED BY <2>1, MesmaConta
<1>9. \A i, j \in DOMAIN s : SaiAntes(s, i, j) => ~SaiAntes(s, j, i)
  BY <1>1 DEF SaiAntes
<1>10. x \in T => A \subseteq T
  BY <1>3, <1>4, <1>9 DEF SairamAntes
<1>11. x \notin T => T \subseteq A
  BY <1>3, <1>4 DEF SairamAntes
<1>12. x \in T <=> p[x] \in ficam
  OBVIOUS
<1>13. T \in SUBSET E /\ A \in SUBSET (E \ {x})
  OBVIOUS
<1> HIDE DEF T, A, ficam
<1>14. x \in T <=> Cardinality(A) < Cardinality(T)
  BY <1>7, <1>10, <1>11, <1>13, CortePorContagem
<1>15. CASE cap < Len(s)
  <2>1. Cardinality(ficam) = cap
    <3>1. Cardinality(DOMAIN s \ D) = Cardinality(DOMAIN s) - Cardinality(DOMAIN s \cap D)
      BY <1>1, FS_Difference
    <3>2. DOMAIN s \cap D = D
      BY <1>4
    <3> QED BY <1>1, <1>2, <1>4, <1>15, <3>1, <3>2 DEF ficam
  <2> QED BY <1>6, <1>8, <1>12, <1>14, <2>1 DEF k, A
<1>16. CASE ~(cap < Len(s))
  <2>1. D = {}
    <3>1. k = 0
      BY <1>2, <1>16
    <3>2. IsFiniteSet(D)
      BY <1>1, <1>4, FS_Subset
    <3> QED BY <1>4, <3>1, <3>2, FS_EmptySet
  <2>2. x \in T /\ T \subseteq E
    BY <1>3, <1>13, <2>1 DEF T, ficam
  <2>3. Cardinality(T) <= Cardinality(E) /\ Cardinality(T) \in Nat
    BY <1>7, <1>8, <2>2, FS_Subset, FS_CardinalityType
  <2>4. IsFiniteSet(A) /\ Cardinality(A) \in Nat
    <3>1. A \in SUBSET E
      BY <1>13
    <3> QED BY <1>7, <3>1, FS_Subset, FS_CardinalityType
  <2>5. Cardinality(A) < cap
    BY <1>1, <1>7, <1>14, <1>16, <2>2, <2>3, <2>4
  <2> QED BY <1>6, <1>12, <2>2, <2>5 DEF k, A
<1> QED BY <1>15, <1>16

\* What a batch of limite takes: those with fewer than limite others before.
LEMMA DrenadosPorContagem ==
  ASSUME NEW s \in Seq(Item), Crescente(s), NEW limite \in Nat \ {0},
         NEW E, NEW p, Enumera(p, E, s), NEW x \in E
  PROVE  /\ s[p[x]] \in Itens(Drenados(s, limite))
            <=> Cardinality({y \in E : p[y] < p[x]}) < limite
         /\ s[p[x]] \in Itens(SemDrenados(s, limite))
            <=> ~(Cardinality({y \in E : p[y] < p[x]}) < limite)
<1> DEFINE q == IF limite > Len(s) THEN Len(s) ELSE limite
           n == p[x]
<1>1. Len(s) \in Nat /\ DOMAIN s = 1 .. Len(s) /\ \A i \in DOMAIN s : s[i] \in Item
  BY Dominio
<1>2. n \in 1 .. Len(s) /\ \A y \in E : p[y] \in 1 .. Len(s)
  BY <1>1 DEF Enumera
<1>3. Cardinality({y \in E : p[y] < n}) = n - 1
  <2> DEFINE antes == 1 .. (n - 1)
  <2>1. antes \in SUBSET DOMAIN s
    BY <1>1, <1>2
  <2>2. {y \in E : p[y] \in antes} = {y \in E : p[y] < n}
    BY <1>2
  <2>3. Cardinality(antes) = n - 1
    <3>1. 1 \in Int /\ n - 1 \in Int
      BY <1>2
    <3>2. Cardinality(1 .. (n - 1)) = IF 1 > n - 1 THEN 0 ELSE (n - 1) - 1 + 1
      BY <3>1, FS_Interval
    <3> QED BY <1>2, <3>2
  <2> HIDE DEF antes, n, q
  <2>4. /\ IsFiniteSet({y \in E : p[y] \in antes})
        /\ Cardinality({y \in E : p[y] \in antes}) = Cardinality(antes)
    BY <2>1, MesmaConta
  <2> QED BY <2>2, <2>3, <2>4
<1>4. q \in Nat /\ q <= Len(s) /\ (n <= q <=> n - 1 < limite)
  BY <1>1, <1>2
<1>5. \A i \in DOMAIN s : s[n] = s[i] => n = i
  BY <1>1, <1>2, CrescenteInjetiva
<1>6. s[n] \in Itens(SubSeq(s, 1, q)) <=> n <= q
  <2>1. /\ DOMAIN SubSeq(s, 1, q) = 1 .. q
        /\ \A i \in 1 .. q : SubSeq(s, 1, q)[i] = s[i]
    BY <1>1, <1>4
  <2> HIDE DEF q, n
  <2>2. Itens(SubSeq(s, 1, q)) = {s[i] : i \in 1 .. q}
    BY <2>1 DEF Itens
  <2> QED BY <1>1, <1>2, <1>4, <1>5, <2>2
<1>7. s[n] \in Itens(SubSeq(s, q + 1, Len(s))) <=> ~(n <= q)
  <2> HIDE DEF q, n
  <2>1. /\ DOMAIN SubSeq(s, q + 1, Len(s)) = 1 .. (Len(s) - q)
        /\ \A i \in 1 .. (Len(s) - q) : SubSeq(s, q + 1, Len(s))[i] = s[q + i]
    BY <1>1, <1>4
  <2>2. Itens(SubSeq(s, q + 1, Len(s))) = {s[q + i] : i \in 1 .. (Len(s) - q)}
    BY <2>1 DEF Itens
  <2>3. \A i \in 1 .. (Len(s) - q) : q + i \in DOMAIN s /\ q + i > q
    BY <1>1, <1>4
  <2>4. ~(n <= q) => n - q \in 1 .. (Len(s) - q) /\ q + (n - q) = n
    BY <1>2, <1>4
  <2>5. s[n] \in Itens(SubSeq(s, q + 1, Len(s))) => ~(n <= q)
    BY <1>2, <1>4, <1>5, <2>2, <2>3
  <2>6. ~(n <= q) => s[n] \in Itens(SubSeq(s, q + 1, Len(s)))
    BY <2>2, <2>4
  <2> QED BY <2>5, <2>6
<1>8. Drenados(s, limite) = SubSeq(s, 1, q) /\ SemDrenados(s, limite) = SubSeq(s, q + 1, Len(s))
  BY DEF Drenados, SemDrenados
<1> HIDE DEF q
<1> QED BY <1>3, <1>4, <1>6, <1>7, <1>8
=============================================================================
