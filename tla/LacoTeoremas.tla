---------------------------- MODULE LacoTeoremas ----------------------------
(***************************************************************************)
(* The saturation loop of the buffer against its closed forms, for buffers *)
(* of every length and every gap: however many turns the loop of           *)
(* Buffer.Devolver makes, it leaves what Aparar, Caidos and Acumular say.  *)
(* It is what allows the module No to take the whole loop in one step.     *)
(***************************************************************************)
EXTENDS LacoDaSaturacao, BufferTeoremas

-----------------------------------------------------------------------------
(* Taking one number out of a set moves the later positions one down.      *)

\* The element with m elements up to itself is the m-th one.
LEMMA PosicaoUnica ==
  ASSUME NEW K \in SUBSET Nat, IsFiniteSet(K), NEW i \in K,
         NEW m \in Nat, Cardinality(Ate(K, i)) = m
  PROVE  m \in 1 .. Cardinality(K) /\ Posicao(K, m) = i
<1>1. m \in 1 .. Cardinality(K)
  BY AteParte
<1>2. PICK p \in K : p = Posicao(K, m) /\ Cardinality(Ate(K, p)) = m
  BY <1>1, PosicaoExiste
<1>3. ~(p < i) /\ ~(i < p)
  BY <1>2, AteCresce, FS_CardinalityType
<1> QED BY <1>1, <1>2, <1>3

LEMMA PosicaoSem ==
  ASSUME NEW K \in SUBSET Nat, IsFiniteSet(K), NEW m \in 1 .. Cardinality(K),
         NEW j \in 1 .. Cardinality(K) - 1
  PROVE  Posicao(K \ {Posicao(K, m)}, j) =
           IF j < m THEN Posicao(K, j) ELSE Posicao(K, j + 1)
<1> DEFINE p == Posicao(K, m)
           R == K \ {p}
<1>1. Cardinality(K) \in Nat
  BY FS_CardinalityType
<1>2. p \in K /\ Cardinality(Ate(K, p)) = m
  BY PosicaoExiste
<1>3. IsFiniteSet(R) /\ R \in SUBSET Nat
  BY FS_Subset
<1>4. CASE j < m
  <2>1. j \in 1 .. Cardinality(K)
    BY <1>1
  <2> DEFINE q == Posicao(K, j)
  <2>2. q \in K /\ Cardinality(Ate(K, q)) = j /\ q < p
    BY <1>4, <2>1, PosicaoExiste, PosicaoCresce
  <2> HIDE DEF q, p
  <2>3. q \in R /\ Ate(R, q) = Ate(K, q)
    <3>1. ~(p <= q) /\ p # q
      BY <1>2, <2>2
    <3> QED BY <3>1, <2>2 DEF Ate
  <2>4. Posicao(R, j) = q
    BY <1>3, <2>2, <2>3, PosicaoUnica
  <2> QED BY <2>4, <1>4 DEF q, p
<1>5. CASE ~(j < m)
  <2>1. j + 1 \in 1 .. Cardinality(K) /\ m < j + 1
    BY <1>1, <1>5
  <2> DEFINE q == Posicao(K, j + 1)
  <2>2. q \in K /\ Cardinality(Ate(K, q)) = j + 1 /\ p < q
    BY <2>1, PosicaoExiste, PosicaoCresce
  <2> HIDE DEF q, p
  <2>3. q \in R /\ Ate(R, q) = Ate(K, q) \ {p} /\ p \in Ate(K, q)
    <3>1. p <= q /\ p # q
      BY <1>2, <2>2
    <3> QED BY <3>1, <1>2, <2>2 DEF Ate
  <2>4. Cardinality(Ate(R, q)) = j
    <3>1. IsFiniteSet(Ate(K, q))
      BY <2>2, AteParte
    <3>2. p \in Ate(K, q) /\ Ate(R, q) = Ate(K, q) \ {p}
      BY <2>3
    <3> HIDE DEF R
    <3>3. Cardinality(Ate(K, q) \ {p}) = Cardinality(Ate(K, q)) - 1
      BY <3>1, <3>2, FS_RemoveElement
    <3> QED BY <3>2, <3>3, <2>2
  <2>5. Posicao(R, j) = q
    BY <1>3, <2>3, <2>4, PosicaoUnica
  <2> QED BY <2>5, <1>5 DEF q, p
<1> QED BY <1>4, <1>5

\* RemoveAt, one position at a time.
LEMMA RemoveAtFatos ==
  ASSUME NEW r \in Seq(Item), NEW i \in 1 .. Len(r)
  PROVE  /\ RemoveAt(r, i) \in Seq(Item)
         /\ Len(RemoveAt(r, i)) = Len(r) - 1
         /\ \A j \in 1 .. Len(r) - 1 :
              RemoveAt(r, i)[j] = IF j < i THEN r[j] ELSE r[j + 1]
<1> DEFINE a == SubSeq(r, 1, i - 1)
           b == SubSeq(r, i + 1, Len(r))
<1>1. Len(r) \in Nat /\ i \in Nat /\ i <= Len(r) /\ 1 <= i /\ \A j \in 1 .. Len(r) : r[j] \in Item
  BY Dominio
<1>2. a \in Seq(Item) /\ Len(a) = i - 1 /\ \A j \in 1 .. i - 1 : a[j] = r[j]
  <2>1. \A j \in 1 .. i - 1 : r[j] \in Item
    BY <1>1
  <2>2. /\ a \in Seq(Item) /\ Len(a) = IF 1 <= i - 1 THEN (i - 1) - 1 + 1 ELSE 0
        /\ \A j \in 1 .. (i - 1) - 1 + 1 : a[j] = r[1 + j - 1]
    BY <2>1, <1>1, SubSeqProperties
  <2> HIDE DEF a
  <2> QED BY <2>2, <1>1
<1>3. b \in Seq(Item) /\ Len(b) = Len(r) - i /\ \A j \in 1 .. Len(r) - i : b[j] = r[i + j]
  <2>1. \A j \in i + 1 .. Len(r) : r[j] \in Item
    BY <1>1
  <2>2. /\ b \in Seq(Item)
        /\ Len(b) = IF i + 1 <= Len(r) THEN Len(r) - (i + 1) + 1 ELSE 0
        /\ \A j \in 1 .. Len(r) - (i + 1) + 1 : b[j] = r[i + 1 + j - 1]
    BY <2>1, <1>1, SubSeqProperties
  <2>3. /\ Len(r) - (i + 1) + 1 = Len(r) - i
        /\ (IF i + 1 <= Len(r) THEN Len(r) - (i + 1) + 1 ELSE 0) = Len(r) - i
    <3>1. \A n, p \in Nat : p <= n => /\ n - (p + 1) + 1 = n - p
                                    /\ (IF p + 1 <= n THEN n - (p + 1) + 1 ELSE 0) = n - p
      OBVIOUS
    <3> QED BY <3>1, <1>1, Zenon
  <2>4. \A j \in 1 .. Len(r) - i : i + 1 + j - 1 = i + j
    BY <1>1
  <2> HIDE DEF b
  <2> QED BY <2>2, <2>3, <2>4
<1>4. RemoveAt(r, i) = a \o b
  BY DEF RemoveAt
<1> HIDE DEF a, b
<1>5. /\ a \o b \in Seq(Item) /\ Len(a \o b) = Len(a) + Len(b)
      /\ \A j \in 1 .. Len(a) + Len(b) :
           (a \o b)[j] = IF j <= Len(a) THEN a[j] ELSE b[j - Len(a)]
  BY <1>2, <1>3, ConcatProperties
<1>6. Len(a) + Len(b) = Len(r) - 1
  BY <1>1, <1>2, <1>3
<1>7. ASSUME NEW j \in 1 .. Len(r) - 1
      PROVE  (a \o b)[j] = IF j < i THEN r[j] ELSE r[j + 1]
  <2>1. (a \o b)[j] = IF j <= Len(a) THEN a[j] ELSE b[j - Len(a)]
    BY <1>5, <1>6
  <2>2. CASE j < i
    <3>1. j <= Len(a) /\ j \in 1 .. i - 1
      BY <2>2, <1>1, <1>2
    <3> QED BY <3>1, <2>1, <2>2, <1>2
  <2>3. CASE ~(j < i)
    <3>1. ~(j <= Len(a)) /\ j - Len(a) \in 1 .. Len(r) - i /\ i + (j - Len(a)) = j + 1
      BY <2>3, <1>1, <1>2
    <3> QED BY <3>1, <2>1, <2>3, <1>3
  <2> QED BY <2>2, <2>3
<1> QED BY <1>4, <1>5, <1>6, <1>7

\* Taking the m-th position out of a set takes the m-th item out of the rest.
LEMMA RestanteSem ==
  ASSUME NEW s \in Seq(Item), NEW K \in SUBSET DOMAIN s, NEW m \in 1 .. Cardinality(K)
  PROVE  Restante(s, K \ {Posicao(K, m)}) = RemoveAt(Restante(s, K), m)
<1> DEFINE n == Cardinality(K)
           p == Posicao(K, m)
           R == K \ {p}
           r == Restante(s, K)
           t == Restante(s, R)
<1>1. IsFiniteSet(K) /\ n \in Nat /\ K \in SUBSET Nat
  BY Dominio, FS_Subset, FS_CardinalityType
<1>2. p \in K
  BY <1>1, PosicaoExiste
<1>3. R \in SUBSET DOMAIN s /\ Cardinality(R) = n - 1
  BY <1>1, <1>2, FS_RemoveElement
<1>4. r \in Seq(Item) /\ Len(r) = n /\ t \in Seq(Item) /\ Len(t) = n - 1
  BY <1>3, RestanteFatos
<1>5. \A j \in 1 .. n : r[j] = s[Posicao(K, j)]
  BY DEF Restante
<1>6. \A j \in 1 .. n - 1 : t[j] = s[Posicao(R, j)]
  BY <1>3 DEF Restante
<1>7. /\ RemoveAt(r, m) \in Seq(Item) /\ Len(RemoveAt(r, m)) = n - 1
      /\ \A j \in 1 .. n - 1 : RemoveAt(r, m)[j] = IF j < m THEN r[j] ELSE r[j + 1]
  BY <1>4, RemoveAtFatos
<1>8. ASSUME NEW j \in 1 .. n - 1 PROVE t[j] = RemoveAt(r, m)[j]
  <2>1. Posicao(R, j) = IF j < m THEN Posicao(K, j) ELSE Posicao(K, j + 1)
    BY <1>1, PosicaoSem
  <2>2. j \in 1 .. n /\ j + 1 \in 1 .. n
    BY <1>1
  <2> HIDE DEF n, p, R, r, t
  <2> QED BY <2>1, <2>2, <1>5, <1>6, <1>7
<1> HIDE DEF n, p, R, r, t
<1>9. t = RemoveAt(r, m)
  BY <1>4, <1>7, <1>8, SeqEqual
<1> QED BY <1>9 DEF p, R, r, t

\* Nothing taken out, nothing lost.
LEMMA RestanteDeTudo ==
  ASSUME NEW s \in Seq(Item)
  PROVE  Restante(s, DOMAIN s) = s
<1> DEFINE K == DOMAIN s
<1>1. /\ Len(s) \in Nat /\ K = 1 .. Len(s) /\ K \in SUBSET Nat
      /\ IsFiniteSet(K) /\ Cardinality(K) = Len(s)
  BY Dominio
<1>2. ASSUME NEW m \in 1 .. Len(s) PROVE Posicao(K, m) = m
  <2>1. Ate(K, m) = 1 .. m
    BY <1>1 DEF Ate
  <2>2. Cardinality(1 .. m) = m
    BY FS_Interval
  <2> HIDE DEF K
  <2> QED BY <1>1, <2>1, <2>2, PosicaoUnica
<1>3. Restante(s, K) \in Seq(Item) /\ Len(Restante(s, K)) = Len(s)
  BY <1>1, RestanteFatos
<1>4. \A m \in 1 .. Len(s) : Restante(s, K)[m] = s[m]
  BY <1>1, <1>2 DEF Restante
<1> HIDE DEF K
<1>5. Restante(s, K) = s
  BY <1>3, <1>4, SeqEqual
<1> QED BY <1>5 DEF K

LEMMA TailRemoveAt ==
  ASSUME NEW r \in Seq(Item), r # <<>>
  PROVE  Tail(r) = RemoveAt(r, 1)
<1>1. Len(r) \in Nat /\ 1 \in 1 .. Len(r)
  BY Dominio, EmptySeq
<1>2. /\ Tail(r) \in Seq(Item) /\ Len(Tail(r)) = Len(r) - 1
      /\ \A i \in 1 .. Len(Tail(r)) : Tail(r)[i] = r[i + 1]
  BY HeadTailProperties
<1>3. /\ RemoveAt(r, 1) \in Seq(Item) /\ Len(RemoveAt(r, 1)) = Len(r) - 1
      /\ \A j \in 1 .. Len(r) - 1 : RemoveAt(r, 1)[j] = IF j < 1 THEN r[j] ELSE r[j + 1]
  BY <1>1, RemoveAtFatos
<1>4. \A j \in 1 .. Len(r) - 1 : Tail(r)[j] = RemoveAt(r, 1)[j]
  BY <1>1, <1>2, <1>3
<1> QED BY <1>2, <1>3, <1>4, SeqEqual

-----------------------------------------------------------------------------
(* One turn of abrirEspaco on the closed form.                             *)

\* Which positions leave is not a matter of choice.
LEMMA DescartadosUnico ==
  ASSUME NEW s \in Seq(Item), NEW D \in SUBSET DOMAIN s, SairamAntes(s, D)
  PROVE  D = Descartados(s, Cardinality(D)) /\ Cardinality(D) \in 0 .. Len(s)
<1> DEFINE k == Cardinality(D)
           E == Descartados(s, k)
<1>1. /\ IsFiniteSet(DOMAIN s) /\ Cardinality(DOMAIN s) = Len(s) /\ Len(s) \in Nat
      /\ DOMAIN s \in SUBSET Nat
  BY Dominio
<1>2. IsFiniteSet(D) /\ k \in Nat /\ k <= Len(s)
  BY <1>1, FS_Subset, FS_CardinalityType
<1>3. k \in 0 .. Len(s)
  BY <1>1, <1>2
<1>4. E \in SUBSET DOMAIN s /\ Cardinality(E) = k /\ SairamAntes(s, E)
  BY <1>3, DescartadosExiste
<1>5. IsFiniteSet(E)
  BY <1>1, <1>4, FS_Subset
<1> HIDE DEF E
<1>6. D \in SUBSET E \/ E \in SUBSET D
  <2> SUFFICES ASSUME NEW i \in D \ E, NEW j \in E \ D PROVE FALSE
    OBVIOUS
  <2>1. SaiAntes(s, i, j) /\ SaiAntes(s, j, i)
    BY <1>4 DEF SairamAntes
  <2>2. i \in Nat /\ j \in Nat
    BY <1>1, <1>4
  <2> QED BY <2>1, <2>2 DEF SaiAntes
<1>7. D = E
  BY <1>2, <1>4, <1>5, <1>6, FS_Subset
<1> QED BY <1>3, <1>7 DEF E

\* After k removals the next one takes the first to leave of those that stayed.
LEMMA MaisUmDescartado ==
  ASSUME NEW s \in Seq(Item), NEW k \in 0 .. Len(s), NEW p \in DOMAIN s \ Descartados(s, k),
         \A j \in (DOMAIN s \ Descartados(s, k)) \ {p} : SaiAntes(s, p, j)
  PROVE  k + 1 \in 0 .. Len(s) /\ Descartados(s, k + 1) = Descartados(s, k) \cup {p}
<1> DEFINE D == Descartados(s, k)
<1>1. D \in SUBSET DOMAIN s /\ Cardinality(D) = k /\ SairamAntes(s, D)
  BY DescartadosExiste
<1>2. IsFiniteSet(DOMAIN s) /\ Len(s) \in Nat
  BY Dominio
<1>3. IsFiniteSet(D) /\ p \notin D
  BY <1>1, <1>2, FS_Subset
<1>4. \A j \in (DOMAIN s \ D) \ {p} : SaiAntes(s, p, j)
  OBVIOUS
<1> HIDE DEF D
<1>5. Cardinality(D \cup {p}) = k + 1
  BY <1>1, <1>3, FS_AddElement
<1>6. SairamAntes(s, D \cup {p}) /\ D \cup {p} \in SUBSET DOMAIN s
  BY <1>1, <1>4 DEF SairamAntes
<1>7. D \cup {p} = Descartados(s, k + 1) /\ k + 1 \in 0 .. Len(s)
  BY <1>5, <1>6, DescartadosUnico
<1> QED BY <1>7 DEF D

\* The oldest sample of what is left, or its front when no sample is left, is
\* the first to leave: removing it is one more removal of the closed form.
LEMMA MaisUmaVolta ==
  ASSUME NEW s \in Seq(Item), NEW k \in 0 .. Len(s), NEW m \in 1 .. Len(s) - k,
         \/ /\ Aparar(s, k)[m].classe = "amostra"
            /\ \A j \in 1 .. m - 1 : Aparar(s, k)[j].classe # "amostra"
         \/ m = 1 /\ \A j \in 1 .. Len(s) - k : Aparar(s, k)[j].classe # "amostra"
  PROVE  /\ k + 1 \in 0 .. Len(s)
         /\ Aparar(s, k + 1) = RemoveAt(Aparar(s, k), m)
         /\ Caidos(s, k + 1) = Caidos(s, k) \cup {Aparar(s, k)[m]}
         /\ Crescente(s) => Aparar(s, k)[m] \notin Caidos(s, k)
<1> DEFINE D == Descartados(s, k)
           K == DOMAIN s \ D
           r == Aparar(s, k)
           p == Posicao(K, m)
<1>1. D \in SUBSET DOMAIN s
  BY DescartadosExiste
<1>2. Len(s) \in Nat /\ IsFiniteSet(K) /\ K \in SUBSET Nat /\ K \in SUBSET DOMAIN s
  BY Dominio, FS_Subset
<1>3. r = Restante(s, K)
  BY DEF Aparar
<1>4. r \in Seq(Item) /\ Len(r) = Len(s) - k
  BY ApararFatos
<1>5. Cardinality(K) = Len(s) - k
  BY <1>2, <1>3, <1>4, RestanteFatos
<1>6. \A j \in 1 .. Len(s) - k : r[j] = s[Posicao(K, j)]
  BY <1>3, <1>5 DEF Restante
<1>7. m \in 1 .. Cardinality(K) /\ p \in K /\ r[m] = s[p]
  BY <1>2, <1>5, <1>6, PosicaoExiste
<1> HIDE DEF r, K, p
<1>8. ASSUME NEW j \in K \ {p} PROVE SaiAntes(s, p, j)
  <2>1. PICK x \in 1 .. Cardinality(K) : Posicao(K, x) = j
    BY <1>2, PosicaoAlcanca
  <2>2. x # m /\ (m < x => p < j) /\ r[x] = s[j]
    BY <2>1, <1>2, <1>5, <1>6, <1>7, PosicaoCresce DEF p
  <2>3. s[j].classe \in Classes /\ s[p].classe \in Classes
    BY <1>2, <1>7, Dominio
  <2>4. \/ r[m].classe = "amostra" /\ \A y \in 1 .. m - 1 : r[y].classe # "amostra"
        \/ m = 1 /\ \A y \in 1 .. Len(s) - k : r[y].classe # "amostra"
    BY DEF r
  <2>5. CASE x < m
    <3>1. r[m].classe = "amostra" /\ r[x].classe # "amostra"
      BY <2>4, <2>5, <1>2, <1>5
    <3> QED BY <3>1, <2>2, <2>3, <1>7 DEF SaiAntes, Classes
  <2>6. CASE m < x
    <3>1. r[m].classe = "amostra" \/ (r[m].classe # "amostra" /\ r[x].classe # "amostra")
      BY <2>4, <1>5, <1>7
    <3> QED BY <3>1, <2>2, <2>3, <2>6, <1>7 DEF SaiAntes, Classes
  <2> QED BY <2>2, <2>5, <2>6, <1>2, <1>7
<1>9. k + 1 \in 0 .. Len(s) /\ Descartados(s, k + 1) = D \cup {p}
  BY <1>7, <1>8, MaisUmDescartado DEF K
<1> HIDE DEF D
<1>10. Aparar(s, k + 1) = RemoveAt(r, m)
  <2>1. DOMAIN s \ (D \cup {p}) = K \ {p}
    BY DEF K
  <2>2. Restante(s, K \ {p}) = RemoveAt(Restante(s, K), m)
    BY <1>2, <1>7, RestanteSem DEF p
  <2> QED BY <2>1, <2>2, <1>3, <1>9 DEF Aparar
<1>11. Caidos(s, k + 1) = Caidos(s, k) \cup {r[m]}
  BY <1>7, <1>9 DEF Caidos, D
<1>12. ASSUME Crescente(s) PROVE r[m] \notin Caidos(s, k)
  <2> SUFFICES ASSUME NEW i \in D, s[i] = s[p] PROVE FALSE
    BY <1>7 DEF Caidos, D
  <2>1. i = p
    BY <1>1, <1>2, <1>7, <1>12, CrescenteInjetiva
  <2> QED BY <2>1, <1>7 DEF K
<1> QED BY <1>9, <1>10, <1>11, <1>12 DEF r

LEMMA MenorMais ==
  ASSUME NEW S \in SUBSET Nat, S # {}, NEW x \in Nat
  PROVE  Menor({x} \cup S) = IF x < Menor(S) THEN x ELSE Menor(S)
<1>1. Menor(S) \in S /\ \A m \in S : Menor(S) <= m
  BY MenorExiste
<1> DEFINE T == {x} \cup S
<1>2. T \in SUBSET Nat /\ T # {}
  OBVIOUS
<1> HIDE DEF T
<1>3. Menor(T) \in T /\ \A m \in T : Menor(T) <= m
  BY <1>2, MenorExiste
<1>4. x \in T /\ S \in SUBSET T /\ \A m \in T : m = x \/ m \in S
  BY DEF T
<1>5. Menor(S) \in Nat /\ Menor(T) \in Nat
  BY <1>1, <1>2, <1>3
<1>6. Menor(T) = IF x < Menor(S) THEN x ELSE Menor(S)
  BY <1>1, <1>3, <1>4, <1>5
<1> QED BY <1>6 DEF T

LEMMA MaiorMais ==
  ASSUME NEW S \in SUBSET Nat, IsFiniteSet(S), S # {}, NEW x \in Nat
  PROVE  Maior({x} \cup S) = IF x > Maior(S) THEN x ELSE Maior(S)
<1>1. Maior(S) \in S /\ \A m \in S : m <= Maior(S)
  BY FinitoTemMaior
<1> DEFINE T == S \cup {x}
<1>2. T \in SUBSET Nat /\ T # {} /\ IsFiniteSet(T) /\ T = {x} \cup S
  BY FS_AddElement
<1> HIDE DEF T
<1>3. Maior(T) \in T /\ \A m \in T : m <= Maior(T)
  BY <1>2, FinitoTemMaior
<1>4. x \in T /\ S \in SUBSET T /\ \A m \in T : m = x \/ m \in S
  BY <1>2
<1>5. Maior(S) \in Nat /\ Maior(T) \in Nat
  BY <1>1, <1>2, <1>3
<1>6. Maior(T) = IF x > Maior(S) THEN x ELSE Maior(S)
  BY <1>1, <1>3, <1>4, <1>5
<1> QED BY <1>2, <1>6

LEMMA UnicoMenorMaior ==
  ASSUME NEW x \in Nat
  PROVE  Menor({x}) = x /\ Maior({x}) = x
<1>1. Menor({x}) \in {x}
  BY MenorExiste
<1>2. Maior({x}) \in {x}
  BY FS_Singleton, FinitoTemMaior
<1> QED BY <1>1, <1>2

\* One more sample that left is only counted, while no event had left.
LEMMA AcumularAmostra ==
  ASSUME NEW l \in Lacunas, NEW C \in SUBSET Item, IsFiniteSet(C), Eventos(C) = {},
         NEW item \in Item, item \notin C, item.classe = "amostra"
  PROVE  Acumular(l, C \cup {item}) = [Acumular(l, C) EXCEPT !.registros = @ + 1]
<1>1. Cardinality(C \cup {item}) = Cardinality(C) + 1 /\ Cardinality(C) \in Nat
  BY FS_AddElement, FS_CardinalityType
<1>2. Seqs(Eventos(C)) = {} /\ Seqs(Eventos(C \cup {item})) = {}
  BY DEF Eventos, Seqs
<1>3. l.registros \in Nat
  BY DEF Lacunas
<1>4. l.registros + (Cardinality(C) + 1) = (l.registros + Cardinality(C)) + 1
  BY <1>1, <1>3
<1> QED BY <1>1, <1>2, <1>4 DEF Acumular

\* One more event that left is counted and widens the interval, which begins
\* with it if nothing had been counted.
LEMMA AcumularEvento ==
  ASSUME NEW l \in Lacunas, NEW C \in SUBSET Item, IsFiniteSet(C),
         NEW item \in Item, item \notin C, item.classe = "evento"
  PROVE  LET a == Acumular(l, C) IN
         Acumular(l, C \cup {item}) =
           [registros |-> a.registros + 1,
            primeira  |-> IF a.registros = 0 \/ item.seq < a.primeira
                          THEN item.seq ELSE a.primeira,
            ultima    |-> IF item.seq > a.ultima THEN item.seq ELSE a.ultima]
<1> DEFINE seqs == Seqs(Eventos(C))
           x == item.seq
           E == C \cup {item}
           a == Acumular(l, C)
           b == Acumular(l, E)
<1>1. Cardinality(E) = Cardinality(C) + 1 /\ Cardinality(C) \in Nat
  BY FS_AddElement, FS_CardinalityType
<1>2. l.registros \in Nat /\ l.primeira \in Nat /\ l.ultima \in Nat /\ x \in Nat
  BY DEF Lacunas, Item
<1>3. Seqs(Eventos(E)) = {x} \cup seqs /\ Amostras(E) = Amostras(C)
  BY DEF Seqs, Eventos, Amostras
<1>4. seqs \in SUBSET Nat /\ IsFiniteSet(seqs)
  <2>1. Eventos(C) \in SUBSET Item /\ IsFiniteSet(Eventos(C))
    BY SeqsFinito
  <2> QED BY <2>1, SeqsFinito
<1>5. /\ a.registros = l.registros + Cardinality(C)
      /\ seqs = {} => a.primeira = l.primeira /\ a.ultima = l.ultima
      /\ seqs # {} => /\ a.primeira = IF l.registros = 0 /\ Amostras(C) = {} THEN Menor(seqs)
                                      ELSE Menor({l.primeira} \cup seqs)
                      /\ a.ultima = Maior({l.ultima} \cup seqs)
  BY DEF Acumular
<1>6. b = [registros |-> l.registros + Cardinality(E),
           primeira  |-> IF l.registros = 0 /\ Amostras(C) = {} THEN Menor({x} \cup seqs)
                         ELSE Menor({l.primeira} \cup ({x} \cup seqs)),
           ultima    |-> Maior({l.ultima} \cup ({x} \cup seqs))]
  <2>1. {x} \cup seqs # {}
    OBVIOUS
  <2> HIDE DEF seqs, x, E
  <2> QED BY <2>1, <1>3 DEF Acumular
<1>7. seqs = {} /\ Amostras(C) = {} => C = {}
  BY DEF Seqs, Eventos, Amostras, Item, Classes
<1>8. C # {} => Cardinality(C) # 0
  BY FS_EmptySet
<1>9. /\ {l.primeira} \cup ({x} \cup seqs) = {x} \cup ({l.primeira} \cup seqs)
      /\ {l.ultima} \cup ({x} \cup seqs) = {x} \cup ({l.ultima} \cup seqs)
  OBVIOUS
<1> HIDE DEF seqs, x, E, a, b
<1>10. /\ {l.primeira} \cup seqs \in SUBSET Nat /\ {l.primeira} \cup seqs # {}
       /\ {l.ultima} \cup seqs \in SUBSET Nat /\ {l.ultima} \cup seqs # {}
       /\ IsFiniteSet({l.ultima} \cup seqs)
  <2>1. IsFiniteSet(seqs \cup {l.ultima})
    BY <1>4, FS_AddElement
  <2>2. {l.ultima} \cup seqs = seqs \cup {l.ultima}
    OBVIOUS
  <2> QED BY <2>1, <2>2, <1>2, <1>4
<1>11. b.ultima = IF x > a.ultima THEN x ELSE a.ultima
  <2>1. b.ultima = IF x > Maior({l.ultima} \cup seqs) THEN x ELSE Maior({l.ultima} \cup seqs)
    BY <1>2, <1>6, <1>9, <1>10, MaiorMais
  <2>2. Maior({l.ultima} \cup seqs) = a.ultima
    <3>1. CASE seqs = {}
      BY <3>1, <1>2, <1>5, UnicoMenorMaior
    <3>2. CASE seqs # {}
      BY <3>2, <1>5
    <3> QED BY <3>1, <3>2
  <2> QED BY <2>1, <2>2
<1>12. b.primeira = IF a.registros = 0 \/ x < a.primeira THEN x ELSE a.primeira
  <2>1. CASE l.registros = 0 /\ Amostras(C) = {} /\ seqs = {}
    <3>1. a.registros = 0
      BY <2>1, <1>2, <1>5, <1>7, FS_EmptySet
    <3>2. b.primeira = Menor({x} \cup seqs) /\ {x} \cup seqs = {x}
      BY <2>1, <1>6
    <3>3. b.primeira = x
      BY <3>2, <1>2, UnicoMenorMaior
    <3> QED BY <3>1, <3>3
  <2>2. CASE l.registros = 0 /\ Amostras(C) = {} /\ seqs # {}
    <3>1. a.registros # 0
      <4>1. C # {}
        BY <2>2 DEF seqs, Seqs, Eventos
      <4> QED BY <4>1, <1>1, <1>2, <1>5, <1>8
    <3>2. b.primeira = Menor({x} \cup seqs) /\ a.primeira = Menor(seqs)
      BY <2>2, <1>5, <1>6
    <3>3. b.primeira = IF x < Menor(seqs) THEN x ELSE Menor(seqs)
      BY <3>2, <2>2, <1>2, <1>4, MenorMais
    <3> QED BY <3>1, <3>2, <3>3
  <2>3. CASE ~(l.registros = 0 /\ Amostras(C) = {})
    <3>1. a.registros # 0
      <4>1. l.registros # 0 \/ C # {}
        BY <2>3 DEF Amostras
      <4> QED BY <4>1, <1>1, <1>2, <1>5, <1>8
    <3>2. b.primeira = Menor({x} \cup ({l.primeira} \cup seqs))
      BY <2>3, <1>6, <1>9
    <3>3. b.primeira = IF x < Menor({l.primeira} \cup seqs) THEN x ELSE Menor({l.primeira} \cup seqs)
      BY <3>2, <1>2, <1>10, MenorMais
    <3>4. Menor({l.primeira} \cup seqs) = a.primeira
      <4>1. CASE seqs = {}
        BY <4>1, <1>2, <1>5, UnicoMenorMaior
      <4>2. CASE seqs # {}
        BY <4>2, <2>3, <1>5
      <4> QED BY <4>1, <4>2
    <3> QED BY <3>1, <3>3, <3>4
  <2> QED BY <2>1, <2>2, <2>3
<1>13. b.registros = a.registros + 1
  BY <1>1, <1>2, <1>5, <1>6
<1>14. b = [registros |-> b.registros, primeira |-> b.primeira, ultima |-> b.ultima]
  BY <1>6
<1> QED BY <1>11, <1>12, <1>13, <1>14 DEF a, b, x, E

-----------------------------------------------------------------------------
(* The loop.                                                               *)

Voltas == Len(itensAntes) - Len(itens)

\* The buffer the loop starts from is in sequence order, the loop never makes
\* more turns than there were items nor turns that were not needed, and after
\* each turn items and gap are those of the closed form.
InvLaco ==
  /\ itensAntes \in Seq(Item) /\ Crescente(itensAntes)
  /\ lacunaAntes \in Lacunas
  /\ capacidade \in Nat
  /\ itens \in Seq(Item)
  /\ Voltas \in 0 .. Len(itensAntes)
  /\ Voltas = 0 \/ Len(itens) >= capacidade
  /\ FormaFechada

LEMMA LacoInicia == Init => InvLaco
<1> SUFFICES ASSUME Init PROVE InvLaco
  OBVIOUS
<1>1. itens = itensAntes /\ lacuna = lacunaAntes
  BY DEF Init
<1>2. itensAntes \in Seq(Item) /\ Crescente(itensAntes)
  <2>1. PICK n \in 1 .. MaxItens : \E c \in [1 .. n -> Classes] :
           itensAntes = [i \in 1 .. n |-> [seq |-> 2 * i, classe |-> c[i], relata |-> 0]]
    BY DEF Init, BuffersPossiveis
  <2>2. PICK c \in [1 .. n -> Classes] :
           itensAntes = [i \in 1 .. n |-> [seq |-> 2 * i, classe |-> c[i], relata |-> 0]]
    BY <2>1
  <2>3. n \in Nat
    BY LimitesDoLaco
  <2>4. \A i \in 1 .. n : [seq |-> 2 * i, classe |-> c[i], relata |-> 0] \in Item
    <3> SUFFICES ASSUME NEW i \in 1 .. n PROVE [seq |-> 2 * i, classe |-> c[i], relata |-> 0] \in Item
      OBVIOUS
    <3>1. 2 * i \in Nat /\ c[i] \in Classes
      BY <2>3
    <3> QED BY <3>1 DEF Item
  <2>5. itensAntes \in Seq(Item)
    BY <2>2, <2>3, <2>4, IsASeq
  <2>6. DOMAIN itensAntes = 1 .. n /\ \A i \in 1 .. n : itensAntes[i].seq = 2 * i
    BY <2>2
  <2>7. \A i, j \in 1 .. n : i < j => 2 * i < 2 * j
    BY <2>3
  <2> QED BY <2>5, <2>6, <2>7 DEF Crescente
<1>3. lacunaAntes \in Lacunas /\ capacidade \in Nat
  BY LimitesDoLaco DEF Init, LacunasPossiveis, Lacunas
<1>4. Len(itensAntes) \in Nat
  BY <1>2, LenProperties
<1>5. Voltas = 0 /\ 0 \in 0 .. Len(itensAntes)
  BY <1>1, <1>4 DEF Voltas
<1>6. Descartados(itensAntes, 0) = {}
  <2>1. Cardinality(Descartados(itensAntes, 0)) = 0
    BY <1>2, <1>5, DescartadosExiste
  <2>2. IsFiniteSet(Descartados(itensAntes, 0))
    BY <1>2, <1>5, DescartadosExiste, Dominio, FS_Subset
  <2> QED BY <2>1, <2>2, FS_EmptySet
<1>7. Aparar(itensAntes, 0) = itensAntes
  <2>1. DOMAIN itensAntes \ {} = DOMAIN itensAntes
    OBVIOUS
  <2> QED BY <2>1, <1>2, <1>6, RestanteDeTudo DEF Aparar
<1>8. Acumular(lacunaAntes, Caidos(itensAntes, 0)) = lacunaAntes
  <2>1. Caidos(itensAntes, 0) = {}
    BY <1>6 DEF Caidos
  <2>2. Seqs(Eventos({})) = {}
    BY DEF Seqs, Eventos
  <2>3. lacunaAntes.registros + Cardinality({}) = lacunaAntes.registros
    BY <1>3, FS_EmptySet DEF Lacunas
  <2>4. Acumular(lacunaAntes, {}) =
          [registros |-> lacunaAntes.registros, primeira |-> lacunaAntes.primeira,
           ultima |-> lacunaAntes.ultima]
    BY <2>2, <2>3 DEF Acumular
  <2> QED BY <2>1, <2>4, <1>3 DEF Lacunas
<1> QED BY <1>1, <1>2, <1>3, <1>5, <1>7, <1>8 DEF InvLaco, FormaFechada, Voltas

LEMMA LacoMantem == InvLaco /\ [Next]_vars => InvLaco'
<1> SUFFICES ASSUME InvLaco, [Next]_vars PROVE InvLaco'
  OBVIOUS
<1> DEFINE s == itensAntes
           k == Voltas
           C == Caidos(s, k)
<1>1. /\ s \in Seq(Item) /\ Crescente(s) /\ k \in 0 .. Len(s)
      /\ itens \in Seq(Item) /\ itens = Aparar(s, k) /\ lacuna = Acumular(lacunaAntes, C)
      /\ capacidade \in Nat /\ lacunaAntes \in Lacunas
  BY DEF InvLaco, FormaFechada, Voltas
<1>2. Len(s) \in Nat /\ Len(itens) \in Nat /\ Len(itens) = Len(s) - k
  BY <1>1, LenProperties, ApararFatos
<1>3. C \in SUBSET Item /\ IsFiniteSet(C) /\ (Eventos(C) # {} => Amostras(Itens(itens)) = {})
  BY <1>1, ApararFatos
<1>4. CASE AbrirEspaco
  <2>1. Len(itens) > capacidade /\ itensAntes' = s /\ lacunaAntes' = lacunaAntes
        /\ capacidade' = capacidade
    BY <1>4 DEF AbrirEspaco
  <2>2. Len(itens) > 0 /\ itens # <<>> /\ DOMAIN itens = 1 .. Len(itens)
    BY <1>1, <1>2, <2>1, EmptySeq, LenProperties
  <2>3. \E m \in 1 .. Len(itens) :
          /\ k + 1 \in 0 .. Len(s)
          /\ itens' = RemoveAt(itens, m) /\ itens' = Aparar(s, k + 1)
          /\ lacuna' = Acumular(lacunaAntes, Caidos(s, k + 1))
    <3>1. CASE AbrirEspacoDeAmostra
      <4>1. PICK m \in AmostraMaisAntiga :
              /\ itens' = RemoveAt(itens, m)
              /\ lacuna' = [lacuna EXCEPT !.registros = @ + 1]
        BY <3>1 DEF AbrirEspacoDeAmostra
      <4>2. /\ m \in 1 .. Len(itens) /\ itens[m].classe = "amostra"
            /\ \A j \in 1 .. m - 1 : itens[j].classe # "amostra"
        BY <4>1, <2>2 DEF AmostraMaisAntiga
      <4>3. /\ k + 1 \in 0 .. Len(s) /\ Aparar(s, k + 1) = RemoveAt(itens, m)
            /\ Caidos(s, k + 1) = C \cup {itens[m]} /\ itens[m] \notin C
        BY <1>1, <1>2, <4>2, MaisUmaVolta
      <4>4. Eventos(C) = {}
        BY <1>3, <4>2, <2>2 DEF Amostras, Itens
      <4>5. itens[m] \in Item
        BY <4>2, <2>2, <1>1, Dominio
      <4>6. Acumular(lacunaAntes, C \cup {itens[m]}) = [lacuna EXCEPT !.registros = @ + 1]
        <5> HIDE DEF s, k, C
        <5> QED BY <1>1, <1>3, <4>2, <4>3, <4>4, <4>5, AcumularAmostra
      <4> HIDE DEF s, k, C
      <4> QED BY <4>1, <4>2, <4>3, <4>6
    <3>2. CASE AbrirEspacoDeEvento
      <4>1. \A j \in 1 .. Len(itens) : itens[j].classe # "amostra"
        <5> DEFINE A == {j \in 1 .. Len(itens) : itens[j].classe = "amostra"}
        <5> SUFFICES ASSUME A # {} PROVE FALSE
          OBVIOUS
        <5>1. PICK m \in A : \A j \in A : m <= j
          <6>1. A \in SUBSET Nat
            OBVIOUS
          <6> HIDE DEF A
          <6> QED BY <6>1, MenorExiste
        <5>2. m \in AmostraMaisAntiga
          <6>1. \A j \in 1 .. m - 1 : j \in 1 .. Len(itens) /\ ~(m <= j)
            BY <5>1, <1>2
          <6> QED BY <6>1, <5>1, <2>2 DEF AmostraMaisAntiga
        <5> QED BY <5>2, <3>2 DEF AbrirEspacoDeEvento
      <4>2. 1 \in 1 .. Len(itens)
        BY <2>2, <1>2
      <4>3. /\ k + 1 \in 0 .. Len(s) /\ Aparar(s, k + 1) = RemoveAt(itens, 1)
            /\ Caidos(s, k + 1) = C \cup {itens[1]} /\ itens[1] \notin C
        <5>1. /\ 1 \in 1 .. Len(s) - k
              /\ \A j \in 1 .. Len(s) - k : Aparar(s, k)[j].classe # "amostra"
          BY <1>1, <1>2, <4>1, <4>2
        <5> HIDE DEF s, k
        <5> QED BY <5>1, <1>1, MaisUmaVolta
      <4>4. itens' = RemoveAt(itens, 1) /\ Head(itens) = itens[1]
        BY <3>2, <1>1, <2>2, TailRemoveAt, HeadTailProperties DEF AbrirEspacoDeEvento
      <4>5. itens[1] \in Item /\ itens[1].classe = "evento"
        BY <4>1, <4>2, <2>2, <1>1, Dominio DEF Classes
      <4>6. lacuna' = Acumular(lacunaAntes, C \cup {itens[1]})
        <5>1. lacuna' =
                [registros |-> lacuna.registros + 1,
                 primeira  |-> IF lacuna.registros = 0 \/ itens[1].seq < lacuna.primeira
                               THEN itens[1].seq ELSE lacuna.primeira,
                 ultima    |-> IF itens[1].seq > lacuna.ultima
                               THEN itens[1].seq ELSE lacuna.ultima]
          BY <3>2, <4>4 DEF AbrirEspacoDeEvento
        <5> HIDE DEF s, k, C
        <5>2. lacuna = Acumular(lacunaAntes, C)
          BY <1>1
        <5> QED BY <5>1, <5>2, <1>1, <1>3, <4>3, <4>5, AcumularEvento
      <4> HIDE DEF s, k, C
      <4> QED BY <4>2, <4>3, <4>4, <4>6
    <3> QED BY <1>4, <3>1, <3>2 DEF AbrirEspaco
  <2>4. /\ k + 1 \in 0 .. Len(s) /\ itens' \in Seq(Item) /\ Len(itens') = Len(itens) - 1
        /\ itens' = Aparar(s, k + 1) /\ lacuna' = Acumular(lacunaAntes, Caidos(s, k + 1))
    BY <2>3, <1>1, RemoveAtFatos
  <2>5. Voltas' = k + 1
    BY <2>1, <2>4, <1>2 DEF Voltas
  <2>6. Len(itens') >= capacidade
    BY <2>1, <2>4, <1>1, <1>2
  <2>7. FormaFechada'
    BY <2>1, <2>4, <2>5 DEF FormaFechada, Voltas
  <2> QED BY <1>1, <2>1, <2>4, <2>5, <2>6, <2>7 DEF InvLaco
<1>5. CASE Fim \/ UNCHANGED vars
  BY <1>5 DEF Fim, vars, InvLaco, FormaFechada, Voltas
<1> QED BY <1>4, <1>5 DEF Next

THEOREM LacoCumpreInvLaco == Spec => []InvLaco
BY LacoInicia, LacoMantem, PTL DEF Spec

\* Whatever buffer and gap the loop of Devolver starts from, after any number of
\* turns of abrirEspaco the items left and the gap are those of the closed forms
\* Aparar, Caidos and Acumular.
THEOREM LacoCumpreFormaFechada == Spec => []FormaFechada
<1>1. InvLaco => FormaFechada
  BY DEF InvLaco
<1> QED BY <1>1, LacoCumpreInvLaco, PTL

\* The result of the whole loop, as the module No takes it in one step: exactly
\* the excess over the capacity has left, and the gap accumulated exactly it.
ResultadoDoLaco ==
  Len(itens) <= capacidade =>
    LET k == Excesso(itensAntes, capacidade) IN
    /\ itens = Aparar(itensAntes, k)
    /\ lacuna = Acumular(lacunaAntes, Caidos(itensAntes, k))

\* When the loop stops, its result is the one the operators Devolver and
\* CaidosAoDevolver state: it never removes more than the excess.
THEOREM LacoRetiraSoOExcesso == Spec => []ResultadoDoLaco
<1>1. InvLaco => ResultadoDoLaco
  <2> SUFFICES ASSUME InvLaco, Len(itens) <= capacidade
               PROVE  Voltas = Excesso(itensAntes, capacidade)
    BY DEF InvLaco, ResultadoDoLaco, FormaFechada, Voltas
  <2>1. Len(itensAntes) \in Nat /\ Len(itens) \in Nat /\ capacidade \in Nat
    BY LenProperties DEF InvLaco
  <2>2. Voltas = 0 \/ Len(itens) = capacidade
    BY <2>1 DEF InvLaco
  <2> QED BY <2>1, <2>2 DEF InvLaco, Voltas, Excesso
<1> QED BY <1>1, LacoCumpreInvLaco, PTL
=============================================================================
