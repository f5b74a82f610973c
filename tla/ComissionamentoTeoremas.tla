----------------------- MODULE ComissionamentoTeoremas -----------------------
(***************************************************************************)
(* An installation that was accepted has one meaning per channel and       *)
(* instant, whatever lines it has; a label a reading was given stays; the  *)
(* bindings of a point say what Resolver says; the report shows the last   *)
(* thing each source said, and says one thing of a channel; the sketch is  *)
(* a file the gateway starts with.  For every set of devices, addresses,   *)
(* points and lines, any number of rows, restarts and edits.               *)
(***************************************************************************)
EXTENDS Comissionamento, FiniteSetTheorems, WellFoundedInduction, TLAPS

-----------------------------------------------------------------------------
(* The greatest element of a bounded set of numbers.                       *)

LEMMA MenorQue == \A m, n \in Nat : m < n => <<m, n>> \in OpToRel(<, Nat)
  BY Zenon DEF OpToRel

\* Every non-empty set of numbers has a least one.
LEMMA MenorExiste ==
  ASSUME NEW S \in SUBSET Nat, S # {}
  PROVE  \E n \in S : \A m \in S : n <= m
<1>1. PICK n \in S : \A m \in S : ~(<<m, n>> \in OpToRel(<, Nat))
  BY NatLessThanWellFounded, WFMin
<1>2. \A m \in S : ~(m < n)
  BY <1>1, MenorQue, Zenon
<1>3. \A m \in S : n <= m
  BY <1>2
<1> QED BY <1>3

\* A bounded non-empty set of numbers has a greatest one, and Max is it.
LEMMA MaiorExiste ==
  ASSUME NEW n \in Nat, NEW S \in SUBSET (0 .. n), S # {}
  PROVE  Max(S) \in S /\ \A m \in S : m <= Max(S)
<1> DEFINE Faltas == {n - x : x \in S}
<1>0. \A x \in S : x \in 0 .. n /\ n - x \in Nat
  OBVIOUS
<1>1. Faltas \in SUBSET Nat /\ Faltas # {}
  BY <1>0, Zenon
<1>2. PICK f \in Faltas : \A g \in Faltas : f <= g
  BY <1>1, MenorExiste
<1>3. PICK x \in S : f = n - x
  BY <1>2
<1>4. \A y \in S : n - x <= n - y
  BY <1>2, <1>3
<1>5. \A y \in S : x >= y
  BY <1>0, <1>4
<1> QED BY <1>5 DEF Max

-----------------------------------------------------------------------------
(* What a file that was accepted is like.                                  *)

\* Every field of a line parses, and a period has a beginning and an end.
LinhaBoa(p) == p \in Linha /\ LinhaLegivel(p) /\ MapeamentoValido(p)

\* No line, or what a start makes of an accepted file.
Boa(linhas) ==
  /\ linhas \in Arquivo
  /\ \A n \in DOMAIN linhas : LinhaBoa(linhas[n])
  /\ CanaisSemSobreposicao(linhas)
  /\ PontosSemAmbiguidade(linhas)

LEMMA CamposDaLinha ==
  ASSUME NEW p \in Linha, LinhaLegivel(p)
  PROVE  /\ p.de \in Nat /\ p.ate \in Nat
         /\ p.ponto \in Pontos /\ p.ponto # Nada
         /\ p.dispositivo \in Dispositivos
         /\ Canal(p) \in Canais
BY ValoresValidos DEF Linha, LinhaLegivel, PontoLegivel, VigenciaLegivel, Canal, Canais

LEMMA AceitaEBoa ==
  ASSUME NEW A \in Arquivo, Aceita(A)
  PROVE  Boa(A)
BY DEF Aceita, Boa, LinhaBoa, Arquivo

\* Trimming the units changes neither channels, points nor periods.
LEMMA CarregadaIgual ==
  ASSUME NEW A \in Arquivo
  PROVE  /\ Carregada(A) \in Arquivo
         /\ DOMAIN Carregada(A) = DOMAIN A
         /\ \A n \in DOMAIN A :
              /\ Canal(Carregada(A)[n]) = Canal(A[n])
              /\ Carregada(A)[n].dispositivo = A[n].dispositivo
              /\ Carregada(A)[n].ponto = A[n].ponto
              /\ Carregada(A)[n].grandeza = A[n].grandeza
              /\ Carregada(A)[n].de = A[n].de
              /\ Carregada(A)[n].ate = A[n].ate
              /\ Carregada(A)[n].unidade = Aparada[A[n].unidade]
<1>1. Len(A) \in Nat /\ DOMAIN A = 1 .. Len(A) /\ \A n \in DOMAIN A : A[n] \in Linha
  BY DEF Arquivo
<1>2. \A n \in DOMAIN A : Carregada(A)[n] = [A[n] EXCEPT !.unidade = Aparada[@]]
  BY DEF Carregada
<1>3. \A n \in DOMAIN A : Aparada[A[n].unidade] \in Unidades \cup {Nada}
  BY <1>1, ValoresValidos DEF Linha
<1>4. \A n \in DOMAIN A : [A[n] EXCEPT !.unidade = Aparada[@]] \in Linha
  BY <1>1, <1>3 DEF Linha
<1>5. Carregada(A) \in Seq(Linha)
  BY <1>1, <1>4 DEF Carregada
<1>6. \A n \in DOMAIN A :
        /\ Carregada(A)[n].dispositivo = A[n].dispositivo
        /\ Carregada(A)[n].endereco = A[n].endereco
        /\ Carregada(A)[n].ponto = A[n].ponto
        /\ Carregada(A)[n].grandeza = A[n].grandeza
        /\ Carregada(A)[n].de = A[n].de
        /\ Carregada(A)[n].ate = A[n].ate
        /\ Carregada(A)[n].unidade = Aparada[A[n].unidade]
  BY <1>1, <1>2 DEF Linha
<1>7. DOMAIN Carregada(A) = DOMAIN A
  BY DEF Carregada
<1> QED BY <1>5, <1>6, <1>7 DEF Arquivo, Canal

LEMMA CarregadaEBoa ==
  ASSUME NEW A \in Arquivo, Aceita(A)
  PROVE  Boa(Carregada(A))
<1> DEFINE C == Carregada(A)
<1>1. /\ C \in Arquivo /\ DOMAIN C = DOMAIN A
      /\ \A n \in DOMAIN A :
           /\ Canal(C[n]) = Canal(A[n]) /\ C[n].dispositivo = A[n].dispositivo
           /\ C[n].ponto = A[n].ponto /\ C[n].grandeza = A[n].grandeza
           /\ C[n].de = A[n].de /\ C[n].ate = A[n].ate
           /\ C[n].unidade = Aparada[A[n].unidade]
  BY CarregadaIgual
<1> HIDE DEF C
<1>2. \A n \in DOMAIN A : A[n] \in Linha /\ C[n] \in Linha
  BY <1>1 DEF Arquivo
<1>3. \A n \in DOMAIN A : LinhaLegivel(A[n]) /\ MapeamentoValido(A[n])
  BY DEF Aceita
<1>4. \A n \in DOMAIN A : LinhaLegivel(C[n])
  BY <1>1, <1>3 DEF LinhaLegivel
<1>5. \A n \in DOMAIN A : Aparada[Aparada[A[n].unidade]] # Nada
  BY <1>2, <1>3, ValoresValidos DEF MapeamentoValido, Linha
<1>6. \A n \in DOMAIN A : MapeamentoValido(C[n])
  BY <1>1, <1>3, <1>5 DEF MapeamentoValido
<1>7. CanaisSemSobreposicao(C)
  BY <1>1 DEF Aceita, CanaisSemSobreposicao, Sobrepoe
<1>8. PontosSemAmbiguidade(C)
  BY <1>1 DEF Aceita, PontosSemAmbiguidade, Sobrepoe
<1> QED BY <1>1, <1>2, <1>4, <1>6, <1>7, <1>8 DEF Boa, LinhaBoa, C

\* Two periods that cover one instant overlap.
LEMMA CobremSobrepoem ==
  ASSUME NEW p \in Linha, LinhaLegivel(p), NEW q \in Linha, LinhaLegivel(q), NEW i \in Nat,
         CobreInstante(p, i), CobreInstante(q, i)
  PROVE  Sobrepoe(p, q)
BY CamposDaLinha DEF CobreInstante, Sobrepoe

\* At one instant a channel has one line, and a point one channel.
LEMMA UmaLinha ==
  ASSUME NEW L, Boa(L), NEW i \in Nat, NEW n \in DOMAIN L, NEW m \in DOMAIN L,
         CobreInstante(L[n], i), CobreInstante(L[m], i),
         Canal(L[n]) = Canal(L[m]) \/ L[n].ponto = L[m].ponto
  PROVE  n = m
<1> SUFFICES ASSUME n # m PROVE FALSE
  OBVIOUS
<1>1. n \in Nat /\ m \in Nat
  BY DEF Boa, Arquivo
<1>2. Sobrepoe(L[n], L[m]) /\ Sobrepoe(L[m], L[n])
  BY CobremSobrepoem DEF Boa, LinhaBoa
<1>3. CASE Canal(L[n]) = Canal(L[m])
  BY <1>1, <1>2, <1>3 DEF Boa, CanaisSemSobreposicao
<1>4. CASE Canal(L[n]) # Canal(L[m])
  BY <1>1, <1>2, <1>4 DEF Boa, PontosSemAmbiguidade
<1> QED BY <1>3, <1>4

\* Resolver answers the line in force, and only that one.
LEMMA ResolverResponde ==
  ASSUME NEW L, Boa(L), NEW i \in Nat, NEW c
  PROVE  /\ \A n \in Vigentes(L, c, i) :
              Resolver(L, c, i) = n /\ PontoResolvido(L, c, i) = L[n].ponto
         /\ Vigentes(L, c, i) = {} => PontoResolvido(L, c, i) = Nada
<1>1. \A n, m \in Vigentes(L, c, i) : n = m
  BY UmaLinha DEF Vigentes
<1>2. \A n \in Vigentes(L, c, i) : n \in Nat /\ n # 0
  BY DEF Vigentes, Boa, Arquivo
<1>3. ASSUME NEW n \in Vigentes(L, c, i)
      PROVE  Resolver(L, c, i) = n
  <2>1. \A m \in Vigentes(L, c, i) :
          L[n].de < L[m].de \/ (L[n].de = L[m].de /\ n <= m)
    BY <1>1, <1>2, <1>3
  <2>2. \E k \in Vigentes(L, c, i) : \A m \in Vigentes(L, c, i) :
          L[k].de < L[m].de \/ (L[k].de = L[m].de /\ k <= m)
    BY <2>1, <1>3
  <2>3. Resolver(L, c, i) \in Vigentes(L, c, i)
    BY <1>3, <2>2 DEF Resolver
  <2> QED BY <2>3, <1>1, <1>3
<1>4. \A n \in Vigentes(L, c, i) : PontoResolvido(L, c, i) = L[n].ponto
  BY <1>2, <1>3 DEF PontoResolvido
<1>5. Vigentes(L, c, i) = {} => PontoResolvido(L, c, i) = Nada
  BY DEF PontoResolvido, Resolver
<1> QED BY <1>3, <1>4, <1>5

-----------------------------------------------------------------------------
(* The invariant.                                                          *)

Leitura == [tipo : {"leitura"}, canal : Leituras, instante : Instantes]

Descritor == [tipo : {"descritor"}, dispositivo : Dispositivos,
              canais : {t.canais : t \in Descritores}, instante : Instantes]

\* The lines of the running gateway are lines of the file, up to their units and
\* to ends that were written since.
LidoDoArquivo ==
  /\ DOMAIN carregado \subseteq DOMAIN arquivo
  /\ \A n \in DOMAIN carregado :
       /\ Canal(carregado[n]) = Canal(arquivo[n])
       /\ carregado[n].ponto = arquivo[n].ponto
       /\ carregado[n].de = arquivo[n].de

\* A label comes from a line of the file that had begun when the reading was taken.
RotuloTemLinha ==
  \A id \in DOMAIN destino : destino[id] # Nada =>
    \E n \in DOMAIN arquivo :
      /\ Canal(arquivo[n]) = registros[id].canal
      /\ arquivo[n].ponto = destino[id]
      /\ arquivo[n].de \in Nat
      /\ arquivo[n].de <= registros[id].instante

\* The report shows nothing that was not read; of what was in the journal at the
\* last read and still is, it shows the last of each source, or a later one, unless
\* that one is still to be registered.
NoRelatorio ==
  /\ ~noAr => lidos = NenhumaDeclaracao
  /\ \A d \in Dispositivos : declaracoes[d] <= lidoAte /\ lidos[d] <= lidoAte
  /\ \A id \in presentes : EhDescritor(id) /\ id <= lidoAte =>
       LET d == DispositivoDe(id) IN id <= IF lidos[d] # 0 THEN lidos[d] ELSE declaracoes[d]

Inv ==
  /\ TypeOK
  /\ registros \in Seq(Leitura \cup Descritor)
  /\ Boa(carregado)
  /\ LidoDoArquivo
  /\ RotuloTemLinha
  /\ NoRelatorio

LEMMA EpocaInstante == Epoca \in Instantes /\ (Epoca .. MaxAgora) \subseteq Instantes
BY ValoresValidos, EntradasValidas DEF Instantes

LEMMA SemLinhas == <<>> \in Arquivo /\ Boa(<<>>)
BY DEF Arquivo, Boa, CanaisSemSobreposicao, PontosSemAmbiguidade

LEMMA InicioVale ==
  ASSUME Init
  PROVE  Inv
<1>1. registros = <<>> /\ registros \in Seq(Leitura \cup Descritor) /\ Len(registros) = 0
  BY DEF Init
<1>2. TypeOK
  <2>1. arquivo \in Arquivo /\ carregado \in Arquivo /\ agora \in Instantes
    BY EpocaInstante, SemLinhas DEF Init, SemInstalacao
  <2>2. DOMAIN registros = {} /\ presentes = {} /\ cursor = 0 /\ quedas = 0
    BY <1>1 DEF Init
  <2>3. DOMAIN destino = {}
    BY DEF Init
  <2>4. /\ lidoAte = 0
        /\ \A D \in {declaracoes, lidos} :
             /\ D \in [Dispositivos -> 0 .. Len(registros)]
             /\ \A d \in Dispositivos : D[d] = 0
    BY <1>1 DEF Init, NenhumaDeclaracao
  <2>5. noAr \in BOOLEAN
    BY Zenon DEF Init
  <2> QED BY <1>1, <2>1, <2>2, <2>3, <2>4, <2>5 DEF TypeOK
<1>3. Boa(carregado) /\ LidoDoArquivo
  BY SemLinhas DEF Init, SemInstalacao, LidoDoArquivo
<1>4. RotuloTemLinha
  BY DEF Init, RotuloTemLinha
<1>5. NoRelatorio
  BY DEF Init, NoRelatorio, NenhumaDeclaracao
<1> QED BY <1>1, <1>2, <1>3, <1>4, <1>5 DEF Inv

\* UltimosDescritores: the last descriptor of the device among the rows left.
LEMMA UltimoE ==
  ASSUME registros \in Seq(Leitura \cup Descritor), presentes \subseteq DOMAIN registros,
         NEW d
  PROVE  /\ UltimoDescritor(d) \in 0 .. Len(registros)
         /\ UltimoDescritor(d) # 0 =>
              EhDescritor(UltimoDescritor(d)) /\ DispositivoDe(UltimoDescritor(d)) = d
         /\ \A id \in presentes :
              EhDescritor(id) /\ DispositivoDe(id) = d => id <= UltimoDescritor(d)
<1> DEFINE S == {id \in presentes : EhDescritor(id) /\ DispositivoDe(id) = d} \cup {0}
<1>1. Len(registros) \in Nat /\ DOMAIN registros = 1 .. Len(registros)
  OBVIOUS
<1>2. S \in SUBSET (0 .. Len(registros)) /\ S # {}
  BY <1>1
<1>3. Max(S) \in S /\ \A m \in S : m <= Max(S)
  BY <1>1, <1>2, MaiorExiste
<1>4. UltimoDescritor(d) = Max(S)
  BY DEF UltimoDescritor
<1> HIDE DEF S
<1>5. Max(S) \in 0 .. Len(registros)
  BY <1>2, <1>3
<1>6. Max(S) # 0 => EhDescritor(Max(S)) /\ DispositivoDe(Max(S)) = d
  BY <1>3 DEF S
<1>7. \A id \in presentes : EhDescritor(id) /\ DispositivoDe(id) = d => id \in S
  BY DEF S
<1> QED BY <1>3, <1>4, <1>5, <1>6, <1>7

\* What the report shows of a device is a descriptor of that device.
DeclaracoesBoas(D) ==
  /\ D \in [Dispositivos -> 0 .. Len(registros)]
  /\ \A d \in Dispositivos : D[d] # 0 => EhDescritor(D[d]) /\ DispositivoDe(D[d]) = d

LEMMA DispositivoDoDescritor ==
  ASSUME registros \in Seq(Leitura \cup Descritor)
  PROVE  \A id \in DOMAIN registros : EhDescritor(id) => DispositivoDe(id) \in Dispositivos
BY EntradasValidas DEF EhDescritor, DispositivoDe, Leitura, Descritor

LEMMA UltimosBons ==
  ASSUME registros \in Seq(Leitura \cup Descritor), presentes \subseteq DOMAIN registros
  PROVE  DeclaracoesBoas(UltimosDescritores)
BY UltimoE DEF DeclaracoesBoas, UltimosDescritores

LEMMA NenhumaBoa ==
  ASSUME registros \in Seq(Leitura \cup Descritor)
  PROVE  DeclaracoesBoas(NenhumaDeclaracao)
BY DEF DeclaracoesBoas, NenhumaDeclaracao

-----------------------------------------------------------------------------
(* The steps.                                                              *)

\* The file grows, or the period of a line ends.
LEMMA ArquivoMuda ==
  ASSUME Inv, Escrever \/ Encerrar
  PROVE  Inv'
<1>1. /\ UNCHANGED <<carregado, noAr, agora, registros, presentes, cursor, destino,
                     declaracoes, lidos, lidoAte, quedas>>
      /\ arquivo \in Seq(Linha)
  BY DEF Escrever, Encerrar, oDiario, oRelatorio, Inv, TypeOK, Arquivo
<1>2. /\ arquivo' \in Seq(Linha)
      /\ DOMAIN arquivo \subseteq DOMAIN arquivo'
      /\ \A n \in DOMAIN arquivo :
           /\ Canal(arquivo'[n]) = Canal(arquivo[n])
           /\ arquivo'[n].ponto = arquivo[n].ponto
           /\ arquivo'[n].de = arquivo[n].de
  <2>1. CASE Escrever
    <3>1. PICK p \in LinhasPossiveis : arquivo' = Append(arquivo, p)
      BY <2>1 DEF Escrever
    <3>2. p \in Linha
      BY EntradasValidas
    <3>3. /\ arquivo' \in Seq(Linha) /\ DOMAIN arquivo \subseteq DOMAIN arquivo'
          /\ \A n \in DOMAIN arquivo : arquivo'[n] = arquivo[n]
      BY <1>1, <3>1, <3>2
    <3> QED BY <3>3
  <2>2. CASE Encerrar
    <3>1. PICK k \in DOMAIN arquivo, i \in Instantes :
            arquivo' = [arquivo EXCEPT ![k].ate = i]
      BY <2>2 DEF Encerrar
    <3>2. i \in Nat
      BY EntradasValidas DEF Instantes
    <3>3. arquivo' = [arquivo EXCEPT ![k] = [@ EXCEPT !.ate = i]]
      BY <3>1
    <3>4. \A n \in DOMAIN arquivo : arquivo[n] \in Linha
      BY <1>1
    <3>5. [arquivo[k] EXCEPT !.ate = i] \in Linha
      BY <3>2, <3>4 DEF Linha
    <3>6. /\ arquivo' \in Seq(Linha) /\ DOMAIN arquivo' = DOMAIN arquivo
          /\ \A n \in DOMAIN arquivo :
               arquivo'[n] = IF n = k THEN [arquivo[k] EXCEPT !.ate = i] ELSE arquivo[n]
      BY <1>1, <3>3, <3>5
    <3>7. \A n \in DOMAIN arquivo :
            /\ arquivo'[n].dispositivo = arquivo[n].dispositivo
            /\ arquivo'[n].endereco = arquivo[n].endereco
            /\ arquivo'[n].ponto = arquivo[n].ponto
            /\ arquivo'[n].de = arquivo[n].de
      BY <3>4, <3>6 DEF Linha
    <3> QED BY <3>6, <3>7 DEF Canal
  <2> QED BY <2>1, <2>2
<1>3. TypeOK'
  BY <1>1, <1>2 DEF Inv, TypeOK, EhDescritor, DispositivoDe, Arquivo
<1>4. Boa(carregado') /\ registros' \in Seq(Leitura \cup Descritor)
  BY <1>1 DEF Inv
<1>5. LidoDoArquivo'
  BY <1>1, <1>2 DEF Inv, LidoDoArquivo
<1>6. RotuloTemLinha'
  BY <1>1, <1>2 DEF Inv, RotuloTemLinha
<1>7. NoRelatorio'
  BY <1>1 DEF Inv, NoRelatorio, EhDescritor, DispositivoDe
<1> QED BY <1>3, <1>4, <1>5, <1>6, <1>7 DEF Inv

LEMMA TempoPassa ==
  ASSUME Inv, Tempo
  PROVE  Inv'
<1>1. agora' \in Instantes
  BY EpocaInstante DEF Tempo
<1>2. UNCHANGED <<arquivo, carregado, noAr, registros, presentes, cursor, destino,
                  declaracoes, lidos, lidoAte, quedas>>
  BY DEF Tempo, oArquivo, oDiario, oRelatorio
<1> QED BY <1>1, <1>2 DEF Inv, TypeOK, EhDescritor, DispositivoDe, LidoDoArquivo, RotuloTemLinha,
     NoRelatorio

\* What the report shows of a device, and what is about to be shown, is a
\* descriptor of that device.
LEMMA TiposDoRelatorio ==
  ASSUME TypeOK
  PROVE  DeclaracoesBoas(declaracoes) /\ DeclaracoesBoas(lidos)
BY DEF TypeOK, DeclaracoesBoas

\* A start and a stop.
LEMMA ProcessoMuda ==
  ASSUME Inv, Partir \/ Parar
  PROVE  Inv'
<1>1. UNCHANGED <<arquivo, agora, registros, presentes, cursor, destino>>
  BY DEF Partir, Parar, oArquivo, oDiario
<1>2. /\ DeclaracoesBoas(declaracoes') /\ DeclaracoesBoas(lidos')
      /\ lidos' = NenhumaDeclaracao
  BY UltimosBons, NenhumaBoa DEF Inv, TypeOK, NoRelatorio, Partir, Parar
<1>3. lidoAte' \in 0 .. Len(registros)
  BY DEF Inv, Partir, Parar
<1>4. /\ carregado' \in Arquivo /\ Boa(carregado')
      /\ DOMAIN carregado' \subseteq DOMAIN arquivo
      /\ \A n \in DOMAIN carregado' :
           /\ Canal(carregado'[n]) = Canal(arquivo[n])
           /\ carregado'[n].ponto = arquivo[n].ponto
           /\ carregado'[n].de = arquivo[n].de
  <2>1. CASE carregado' = SemInstalacao
    BY <2>1, SemLinhas DEF SemInstalacao
  <2>2. CASE Aceita(arquivo) /\ carregado' = Carregada(arquivo)
    BY <2>2, CarregadaIgual, CarregadaEBoa DEF Inv, TypeOK
  <2> QED BY <2>1, <2>2 DEF Partir, Parar
<1>5. noAr' \in BOOLEAN
  BY Zenon DEF Inv, TypeOK, Partir, Parar
<1>6. quedas' \in Nat
  BY DEF Inv, TypeOK, Partir, Parar
<1>7. TypeOK'
  BY <1>1, <1>2, <1>3, <1>4, <1>5, <1>6
  DEF Inv, TypeOK, DeclaracoesBoas, EhDescritor, DispositivoDe
<1>8. LidoDoArquivo' /\ RotuloTemLinha' /\ (registros \in Seq(Leitura \cup Descritor))'
  BY <1>1, <1>4 DEF Inv, LidoDoArquivo, RotuloTemLinha
<1>9. NoRelatorio'
  <2>1. /\ registros \in Seq(Leitura \cup Descritor) /\ presentes \subseteq DOMAIN registros
        /\ Len(registros) \in Nat
    BY DEF Inv, TypeOK
  <2>2. \A d \in Dispositivos : lidos'[d] = 0
    BY <1>2 DEF NenhumaDeclaracao
  <2>3. \A id \in presentes : EhDescritor(id) => DispositivoDe(id) \in Dispositivos
    BY <2>1, DispositivoDoDescritor
  <2>4. CASE declaracoes' = UltimosDescritores /\ lidoAte' = Len(registros)
    <3>1. \A d \in Dispositivos : declaracoes'[d] = UltimoDescritor(d)
      BY <2>4 DEF UltimosDescritores
    <3>2. \A d \in Dispositivos : declaracoes'[d] <= lidoAte' /\ lidos'[d] <= lidoAte'
      BY <2>1, <2>2, <2>4, <3>1, UltimoE
    <3>3. \A id \in presentes : EhDescritor(id) =>
            /\ DispositivoDe(id) \in Dispositivos
            /\ id <= declaracoes'[DispositivoDe(id)] /\ lidos'[DispositivoDe(id)] = 0
      BY <2>1, <2>2, <2>3, <3>1, UltimoE
    <3> QED BY <1>1, <1>2, <3>2, <3>3 DEF NoRelatorio, EhDescritor, DispositivoDe
  <2>5. CASE declaracoes' = NenhumaDeclaracao /\ lidoAte' = 0
    <3>1. \A d \in Dispositivos : declaracoes'[d] <= lidoAte' /\ lidos'[d] <= lidoAte'
      BY <2>2, <2>5 DEF NenhumaDeclaracao
    <3>2. \A id \in presentes' : ~(id <= lidoAte')
      BY <1>1, <2>1, <2>5
    <3> QED BY <1>2, <3>1, <3>2 DEF NoRelatorio
  <2> QED BY <2>4, <2>5 DEF Partir, Parar
<1> QED BY <1>4, <1>7, <1>8, <1>9 DEF Inv

\* The report is filled again: the journal is read, the rows are registered.
LEMMA RelatorioMuda ==
  ASSUME Inv, LerDescritores \/ RegistrarDescritor
  PROVE  Inv'
<1>1. UNCHANGED <<arquivo, carregado, noAr, agora, registros, presentes, cursor, destino, quedas>>
  BY DEF LerDescritores, RegistrarDescritor, oArquivo, oDiario
<1>2. /\ registros \in Seq(Leitura \cup Descritor) /\ presentes \subseteq DOMAIN registros
      /\ Len(registros) \in Nat
      /\ DeclaracoesBoas(declaracoes) /\ DeclaracoesBoas(lidos)
      /\ \A id \in presentes : EhDescritor(id) => DispositivoDe(id) \in Dispositivos
  BY TiposDoRelatorio, DispositivoDoDescritor DEF Inv, TypeOK
<1>3. ASSUME DeclaracoesBoas(declaracoes'), DeclaracoesBoas(lidos'),
             lidoAte' \in 0 .. Len(registros), NoRelatorio'
      PROVE  Inv'
  <2>1. TypeOK'
    BY <1>1, <1>3 DEF Inv, TypeOK, DeclaracoesBoas, EhDescritor, DispositivoDe
  <2> QED BY <1>1, <1>3, <2>1 DEF Inv, LidoDoArquivo, RotuloTemLinha
<1>4. CASE LerDescritores
  <2>1. /\ noAr /\ lidos' = UltimosDescritores /\ lidoAte' = Len(registros)
        /\ declaracoes' = declaracoes
    BY <1>4 DEF LerDescritores
  <2>2. \A d \in Dispositivos : lidos'[d] = UltimoDescritor(d)
    BY <2>1 DEF UltimosDescritores
  <2>3. \A d \in Dispositivos : declaracoes'[d] <= lidoAte' /\ lidos'[d] <= lidoAte'
    BY <1>2, <2>1, <2>2, UltimoE DEF DeclaracoesBoas
  <2>4. \A id \in presentes : EhDescritor(id) =>
          /\ DispositivoDe(id) \in Dispositivos
          /\ id <= lidos'[DispositivoDe(id)] /\ id \in Nat /\ id # 0
          /\ lidos'[DispositivoDe(id)] # 0
    BY <1>2, <2>2, UltimoE
  <2>5. NoRelatorio'
    BY <1>1, <2>1, <2>3, <2>4 DEF NoRelatorio, EhDescritor, DispositivoDe
  <2>6. DeclaracoesBoas(lidos') /\ DeclaracoesBoas(declaracoes')
    BY <1>2, <2>1, UltimosBons
  <2> QED BY <1>2, <1>3, <2>1, <2>5, <2>6
<1>5. CASE RegistrarDescritor
  <2>1. PICK d \in Dispositivos :
          /\ lidos[d] # 0
          /\ declaracoes' = [declaracoes EXCEPT ![d] = lidos[d]]
          /\ lidos' = [lidos EXCEPT ![d] = 0]
    BY <1>5 DEF RegistrarDescritor
  <2>2. lidoAte' = lidoAte /\ lidoAte \in 0 .. Len(registros)
    BY <1>5 DEF RegistrarDescritor, Inv, TypeOK
  <2>3. /\ DOMAIN declaracoes = Dispositivos /\ DOMAIN lidos = Dispositivos
        /\ \A o \in Dispositivos : declaracoes[o] \in 0 .. Len(registros)
                                   /\ lidos[o] \in 0 .. Len(registros)
    BY <1>2 DEF DeclaracoesBoas
  <2>4. \A o \in Dispositivos :
          /\ declaracoes'[o] = IF o = d THEN lidos[d] ELSE declaracoes[o]
          /\ lidos'[o] = IF o = d THEN 0 ELSE lidos[o]
    BY <2>1, <2>3
  <2>5. DeclaracoesBoas(lidos') /\ DeclaracoesBoas(declaracoes')
    BY <1>2, <2>1, <2>3, <2>4 DEF DeclaracoesBoas
  <2>6. \A o \in Dispositivos : declaracoes'[o] <= lidoAte' /\ lidos'[o] <= lidoAte'
    BY <2>2, <2>3, <2>4 DEF Inv, NoRelatorio
  <2>7. ~noAr' => lidos' = NenhumaDeclaracao
    BY <1>1, <2>1 DEF Inv, NoRelatorio, NenhumaDeclaracao
  <2>8. \A id \in presentes : EhDescritor(id) /\ id <= lidoAte =>
          LET o == DispositivoDe(id) IN
          id <= IF lidos'[o] # 0 THEN lidos'[o] ELSE declaracoes'[o]
    BY <1>2, <2>1, <2>4 DEF Inv, NoRelatorio
  <2>9. NoRelatorio'
    BY <1>1, <2>2, <2>6, <2>7, <2>8 DEF NoRelatorio, EhDescritor, DispositivoDe
  <2> QED BY <1>3, <2>2, <2>5, <2>9
<1> QED BY <1>4, <1>5

\* A row enters the journal; the rows that were there are the same.
LEMMA LinhaEntra ==
  ASSUME Inv, NEW r \in Leitura \cup Descritor, Gravar(r)
  PROVE  Inv'
<1>1. /\ UNCHANGED <<arquivo, carregado, noAr, agora, cursor, destino, declaracoes, lidos, lidoAte, quedas>>
      /\ registros' = Append(registros, r)
      /\ presentes' = presentes \cup {Len(registros) + 1}
  BY DEF Gravar, oArquivo, oRelatorio
<1>2. /\ registros' \in Seq(Leitura \cup Descritor)
      /\ Len(registros) \in Nat /\ Len(registros') = Len(registros) + 1
      /\ DOMAIN registros = 1 .. Len(registros)
      /\ DOMAIN registros' = 1 .. Len(registros')
      /\ \A id \in DOMAIN registros : registros'[id] = registros[id]
      /\ registros'[Len(registros) + 1] = r
  BY <1>1 DEF Inv
<1>3. DOMAIN registros' = DOMAIN registros \cup {Len(registros) + 1}
  BY <1>2
<1>4. r.instante \in Instantes
  BY DEF Leitura, Descritor
<1>5. \A id \in DOMAIN registros' : registros'[id].instante \in Instantes
  BY <1>2, <1>3, <1>4 DEF Inv, TypeOK
<1>6. presentes' \subseteq DOMAIN registros' /\ cursor' \in 0 .. Len(registros')
  BY <1>1, <1>2, <1>3 DEF Inv, TypeOK
<1>7. /\ DOMAIN destino' \subseteq DOMAIN registros'
      /\ \A id \in DOMAIN destino' : ~EhDescritor(id)' /\ destino'[id] \in Pontos \cup {Nada}
  BY <1>1, <1>2, <1>3 DEF Inv, TypeOK, EhDescritor
<1>8. ASSUME NEW D \in {declaracoes, lidos}
      PROVE  /\ D \in [Dispositivos -> 0 .. Len(registros')]
             /\ \A d \in Dispositivos : D[d] # 0 =>
                  /\ registros'[D[d]].tipo = "descritor"
                  /\ registros'[D[d]].dispositivo = d
  <2>0. D \in [Dispositivos -> 0 .. Len(registros)]
    BY DEF Inv, TypeOK
  <2>1. \A d \in Dispositivos : D[d] \in 0 .. Len(registros)
    BY <2>0
  <2>2. \A d \in Dispositivos : D[d] # 0 => D[d] \in DOMAIN registros
    BY <1>2, <2>1
  <2>3. \A d \in Dispositivos : D[d] # 0 => registros'[D[d]] = registros[D[d]]
    BY <1>2, <2>2
  <2>4. D \in [Dispositivos -> 0 .. Len(registros')]
    BY <1>2, <2>0, <2>1
  <2> QED BY <2>3, <2>4 DEF Inv, TypeOK, EhDescritor, DispositivoDe
<1>12. lidoAte' \in 0 .. Len(registros')
  BY <1>1, <1>2 DEF Inv, TypeOK
<1>9. TypeOK'
  BY <1>1, <1>5, <1>6, <1>7, <1>8, <1>12 DEF Inv, TypeOK, EhDescritor, DispositivoDe
<1>10. Boa(carregado') /\ LidoDoArquivo'
  BY <1>1 DEF Inv, LidoDoArquivo
<1>11. RotuloTemLinha'
  <2>1. \A id \in DOMAIN destino : id \in DOMAIN registros
    BY DEF Inv, TypeOK
  <2> QED BY <1>1, <1>2, <2>1 DEF Inv, RotuloTemLinha
<1>13. NoRelatorio'
  <2>1. lidoAte \in 0 .. Len(registros) /\ presentes \subseteq DOMAIN registros
    BY DEF Inv, TypeOK
  <2>2. \A id \in presentes' : id <= lidoAte =>
          id \in presentes /\ registros'[id] = registros[id]
    BY <1>1, <1>2, <2>1
  <2> QED BY <1>1, <2>2 DEF Inv, NoRelatorio, EhDescritor, DispositivoDe
<1> QED BY <1>2, <1>9, <1>10, <1>11, <1>13 DEF Inv

LEMMA RegistroEntra ==
  ASSUME Inv, ReceberLeitura \/ ReceberDescritor
  PROVE  Inv'
<1>1. agora \in Instantes
  BY DEF Inv, TypeOK
<1>2. \A c \in Leituras :
        [tipo |-> "leitura", canal |-> c, instante |-> agora] \in Leitura
  BY <1>1 DEF Leitura
<1>3. \A t \in Descritores :
        [tipo |-> "descritor", dispositivo |-> t.dispositivo, canais |-> t.canais,
         instante |-> agora] \in Descritor
  BY <1>1, EntradasValidas DEF Descritor
<1> QED BY <1>2, <1>3, LinhaEntra DEF ReceberLeitura, ReceberDescritor

\* A label that is given now comes from a line that covers the reading.
LEMMA RotuloVemDaLinha ==
  ASSUME Inv, NEW id \in DOMAIN registros
  PROVE  /\ Rotulo(id) \in Pontos \cup {Nada}
         /\ Rotulo(id) # Nada =>
              \E n \in DOMAIN arquivo :
                /\ Canal(arquivo[n]) = registros[id].canal
                /\ arquivo[n].ponto = Rotulo(id)
                /\ arquivo[n].de \in Nat
                /\ arquivo[n].de <= registros[id].instante
<1> DEFINE c == registros[id].canal
           i == registros[id].instante
<1>1. i \in Nat /\ Boa(carregado)
  BY EntradasValidas DEF Inv, TypeOK, Instantes
<1>2. CASE Vigentes(carregado, c, i) = {}
  BY <1>1, <1>2, ResolverResponde DEF Rotulo
<1>3. CASE Vigentes(carregado, c, i) # {}
  <2>1. PICK n \in Vigentes(carregado, c, i) : TRUE
    BY <1>3
  <2>2. Rotulo(id) = carregado[n].ponto
    BY <1>1, <2>1, ResolverResponde DEF Rotulo
  <2>3. /\ n \in DOMAIN carregado /\ Canal(carregado[n]) = c
        /\ CobreInstante(carregado[n], i) /\ LinhaBoa(carregado[n])
    BY <1>1, <2>1 DEF Vigentes, Boa
  <2>4. carregado[n].ponto \in Pontos /\ carregado[n].de \in Nat
    BY <2>3, CamposDaLinha DEF LinhaBoa
  <2>5. carregado[n].de <= i
    BY <1>1, <2>3, <2>4 DEF CobreInstante
  <2> QED BY <2>2, <2>3, <2>4, <2>5 DEF Inv, LidoDoArquivo
<1> QED BY <1>2, <1>3

LEMMA RotulosEntram ==
  ASSUME Inv, Projetar
  PROVE  Inv'
<1>1. UNCHANGED <<arquivo, carregado, noAr, agora, registros, presentes, declaracoes, lidos, lidoAte, quedas>>
  BY DEF Projetar, oArquivo, oRelatorio
<1>2. PICK ultimo \in {id \in presentes : id > cursor} :
        LET lote == {id \in presentes : cursor < id /\ id <= ultimo /\ ~EhDescritor(id)} IN
        /\ destino' = [id \in DOMAIN destino \cup lote |->
                         IF id \in DOMAIN destino THEN destino[id] ELSE Rotulo(id)]
        /\ cursor' \in {cursor, ultimo}
  BY DEF Projetar
<1> DEFINE lote == {id \in presentes : cursor < id /\ id <= ultimo /\ ~EhDescritor(id)}
<1>3. /\ DOMAIN destino' = DOMAIN destino \cup lote
      /\ \A id \in DOMAIN destino' :
           destino'[id] = IF id \in DOMAIN destino THEN destino[id] ELSE Rotulo(id)
  BY <1>2
<1>4. \A id \in lote : id \in DOMAIN registros /\ ~EhDescritor(id)
  BY DEF Inv, TypeOK
<1> HIDE DEF lote
<1>5. cursor' \in 0 .. Len(registros)
  BY <1>2 DEF Inv, TypeOK
<1>6. DOMAIN destino' \subseteq DOMAIN registros
  BY <1>3, <1>4 DEF Inv, TypeOK
<1>7. \A id \in DOMAIN destino' : ~EhDescritor(id) /\ destino'[id] \in Pontos \cup {Nada}
  BY <1>3, <1>4, RotuloVemDaLinha DEF Inv, TypeOK
<1>8. TypeOK'
  BY <1>1, <1>5, <1>6, <1>7 DEF Inv, TypeOK, EhDescritor, DispositivoDe
<1>9. RotuloTemLinha'
  BY <1>1, <1>3, <1>4, RotuloVemDaLinha DEF Inv, RotuloTemLinha
<1>10. NoRelatorio'
  BY <1>1 DEF Inv, NoRelatorio, EhDescritor, DispositivoDe
<1> QED BY <1>1, <1>8, <1>9, <1>10 DEF Inv, LidoDoArquivo

LEMMA PodaPreserva ==
  ASSUME Inv, Podar
  PROVE  Inv'
<1>1. UNCHANGED <<arquivo, carregado, noAr, agora, registros, cursor, destino,
                  declaracoes, lidos, lidoAte, quedas>>
  BY DEF Podar, oArquivo, oRelatorio
<1>2. presentes' \subseteq presentes
  BY DEF Podar
<1> QED BY <1>1, <1>2 DEF Inv, TypeOK, EhDescritor, DispositivoDe, LidoDoArquivo, RotuloTemLinha,
     NoRelatorio

LEMMA PassoPreserva ==
  ASSUME Inv, [Next]_vars
  PROVE  Inv'
<1>1. CASE UNCHANGED vars
  BY <1>1 DEF vars, oArquivo, oDiario, oRelatorio, Inv, TypeOK, EhDescritor, DispositivoDe, LidoDoArquivo, RotuloTemLinha,
     NoRelatorio
<1>2. CASE Next
  BY <1>2, ArquivoMuda, TempoPassa, ProcessoMuda, RelatorioMuda, RegistroEntra, RotulosEntram, PodaPreserva
  DEF Next
<1> QED BY <1>1, <1>2

LEMMA InvSempre == Spec => []Inv
<1>1. Init => Inv
  BY InicioVale
<1>2. Inv /\ [Next]_vars => Inv'
  BY PassoPreserva
<1> QED BY <1>1, <1>2, PTL DEF Spec

-----------------------------------------------------------------------------
(* Theorems.                                                               *)

\* The variables of the commissioning have their types in every reachable state,
\* for any file, any number of rows and any number of restarts.
THEOREM TipoCorreto == Spec => []TypeOK
<1>1. Inv => TypeOK
  BY DEF Inv
<1> QED BY <1>1, InvSempre, PTL

\* NovaInstalacao and recusarPontosAmbiguos: at no instant has a channel of the
\* running gateway two meanings, or a point two sources, whatever was edited.
THEOREM FonteSempreUnica == Spec => []UmaFontePorVez
<1>1. ASSUME Inv
      PROVE  UmaFontePorVez
  <2>1. Boa(carregado) /\ Instantes \subseteq Nat
    BY <1>1 DEF Inv, Instantes
  <2> QED BY <2>1, UmaLinha DEF UmaFontePorVez
<1> QED BY <1>1, InvSempre, PTL

\* enriquecer: a reading that was given a point keeps it under every file the
\* gateway would start with, but for a period the file says was over by then.
THEOREM RotuloSempreFica == Spec => []RotuloPermanece
<1>1. ASSUME Inv
      PROVE  RotuloPermanece
  <2> SUFFICES ASSUME Aceita(arquivo), NEW id \in DOMAIN destino, destino[id] # Nada
               PROVE  \/ PontoResolvido(arquivo, registros[id].canal, registros[id].instante)
                           = destino[id]
                      \/ \E n \in DOMAIN arquivo :
                           /\ Canal(arquivo[n]) = registros[id].canal
                           /\ arquivo[n].ponto = destino[id]
                           /\ arquivo[n].de <= registros[id].instante
                           /\ arquivo[n].ate # 0 /\ arquivo[n].ate <= registros[id].instante
    BY DEF RotuloPermanece
  <2>1. PICK n \in DOMAIN arquivo :
          /\ Canal(arquivo[n]) = registros[id].canal
          /\ arquivo[n].ponto = destino[id]
          /\ arquivo[n].de \in Nat
          /\ arquivo[n].de <= registros[id].instante
    BY <1>1 DEF Inv, RotuloTemLinha
  <2>2. Boa(arquivo) /\ registros[id].instante \in Nat
    BY <1>1, AceitaEBoa, EntradasValidas DEF Inv, TypeOK, Instantes
  <2>3. arquivo[n].ate \in Nat
    BY <2>2, CamposDaLinha DEF Boa, LinhaBoa
  <2>4. CASE CobreInstante(arquivo[n], registros[id].instante)
    <3>1. n \in Vigentes(arquivo, registros[id].canal, registros[id].instante)
      BY <2>1, <2>4 DEF Vigentes
    <3> QED BY <2>1, <2>2, <3>1, ResolverResponde
  <2>5. CASE ~CobreInstante(arquivo[n], registros[id].instante)
    BY <2>1, <2>2, <2>3, <2>5 DEF CobreInstante
  <2> QED BY <2>4, <2>5
<1> QED BY <1>1, InvSempre, PTL

\* VinculosDoPonto and Resolver: from the epoch on, the devices whose binding of a
\* point covers an instant are those whose channel resolves to it then, and those
\* of a line that has no beginning and ended before the epoch.
THEOREM VinculosSempreRespondem == Spec => []VinculosRespondem
<1>1. ASSUME Inv
      PROVE  VinculosRespondem
  <2> DEFINE Aberta(n) == /\ carregado[n].de = 0
                          /\ carregado[n].ate # 0 /\ carregado[n].ate < Epoca
  <2> SUFFICES ASSUME NEW ponto \in Pontos, NEW i \in Epoca .. MaxAgora
               PROVE  {v.dispositivo : v \in {u \in VinculosDoPonto(carregado, ponto) :
                                                CobreInstante(u, i)}}
                        = {carregado[n].dispositivo : n \in {m \in DOMAIN carregado :
                             /\ carregado[m].ponto = ponto
                             /\ \/ PontoResolvido(carregado, Canal(carregado[m]), i) = ponto
                                \/ Aberta(m)}}
    BY DEF VinculosRespondem
  <2>1. i \in Nat /\ Epoca \in Nat \ {0} /\ Epoca <= i /\ Boa(carregado)
    BY <1>1, ValoresValidos, EntradasValidas DEF Inv
  <2>2. ponto # Nada
    BY ValoresValidos
  <2>3. ASSUME NEW n \in DOMAIN carregado
        PROVE  /\ VinculoDe(carregado[n]).dispositivo = carregado[n].dispositivo
               /\ CobreInstante(VinculoDe(carregado[n]), i) <=>
                    CobreInstante(carregado[n], i) \/ Aberta(n)
               /\ Canal(carregado[n]) \in Canais
               /\ Canal(carregado[n])[1] = carregado[n].dispositivo
    <3>1. /\ carregado[n].de \in Nat /\ carregado[n].ate \in Nat
          /\ Canal(carregado[n]) \in Canais
          /\ carregado[n].de # 0 /\ carregado[n].ate # 0 =>
               carregado[n].de < carregado[n].ate
      BY <2>1, CamposDaLinha DEF Boa, LinhaBoa, MapeamentoValido
    <3> QED BY <2>1, <3>1 DEF VinculoDe, CobreInstante, Canal
  <2>4. ASSUME NEW n \in DOMAIN carregado, carregado[n].ponto = ponto,
               CobreInstante(carregado[n], i)
        PROVE  PontoResolvido(carregado, Canal(carregado[n]), i) = ponto
    <3>1. n \in Vigentes(carregado, Canal(carregado[n]), i)
      BY <2>4 DEF Vigentes
    <3> QED BY <2>1, <2>4, <3>1, ResolverResponde
  <2>5. ASSUME NEW k \in Canais, PontoResolvido(carregado, k, i) = ponto
        PROVE  \E n \in DOMAIN carregado :
                 /\ carregado[n].ponto = ponto /\ CobreInstante(carregado[n], i)
                 /\ Canal(carregado[n]) = k
    <3>1. PICK n \in Vigentes(carregado, k, i) : TRUE
      BY <2>1, <2>2, <2>5, ResolverResponde
    <3>2. carregado[n].ponto = ponto
      BY <2>1, <2>5, <3>1, ResolverResponde
    <3> QED BY <3>1, <3>2 DEF Vigentes
  <2> DEFINE Diz(n) == /\ carregado[n].ponto = ponto
                       /\ CobreInstante(carregado[n], i) \/ Aberta(n)
             Responde(n) == /\ carregado[n].ponto = ponto
                            /\ \/ PontoResolvido(carregado, Canal(carregado[n]), i) = ponto
                               \/ Aberta(n)
             L == {v.dispositivo : v \in {u \in VinculosDoPonto(carregado, ponto) :
                                            CobreInstante(u, i)}}
             R == {carregado[n].dispositivo : n \in {m \in DOMAIN carregado : Responde(m)}}
  <2> HIDE DEF Aberta
  <2>6. \A x : x \in L <=> \E n \in DOMAIN carregado : Diz(n) /\ x = carregado[n].dispositivo
    BY <2>3 DEF VinculosDoPonto
  <2>7. \A x : x \in R <=>
          \E n \in DOMAIN carregado : Responde(n) /\ x = carregado[n].dispositivo
    OBVIOUS
  <2>8. \A n \in DOMAIN carregado : Diz(n) => Responde(n)
    BY <2>4
  <2>9. ASSUME NEW n \in DOMAIN carregado, Responde(n)
        PROVE  \E m \in DOMAIN carregado :
                 Diz(m) /\ carregado[m].dispositivo = carregado[n].dispositivo
    BY <2>3, <2>5, <2>9
  <2> HIDE DEF L, R, Diz, Responde
  <2>10. L = R
    BY <2>6, <2>7, <2>8, <2>9
  <2> QED BY <2>10 DEF L, R, Responde
<1> QED BY <1>1, InvSempre, PTL

\* UltimosDescritores and RegistrarDescritor: of what each source said the report
\* shows the last that was in the journal at the last read and was not pruned, or a
\* later one, or is about to; while the gateway runs it goes back only over a row
\* that was pruned.
THEOREM RelatorioSempreAtual == Spec => RelatorioMostraAUltimaFala
<1>1. ASSUME Inv
      PROVE  \A id \in presentes : EhDescritor(id) /\ id <= lidoAte =>
               LET d == DispositivoDe(id) IN id <= declaracoes[d] \/ id <= lidos[d]
  BY <1>1 DEF Inv, NoRelatorio
<1>2. ASSUME Inv, [Next]_vars
      PROVE  [noAr /\ noAr' =>
                \A d \in Dispositivos :
                  declaracoes'[d] >= declaracoes[d] \/ declaracoes[d] \notin presentes]_vars
  <2> SUFFICES ASSUME noAr, noAr', NEW d \in Dispositivos
               PROVE  declaracoes'[d] >= declaracoes[d] \/ declaracoes[d] \notin presentes
    OBVIOUS
  <2>1. DeclaracoesBoas(declaracoes) /\ DeclaracoesBoas(lidos) /\ Len(registros) \in Nat
    BY <1>2, TiposDoRelatorio DEF Inv
  <2>2. declaracoes[d] \in Nat /\ lidos[d] \in Nat
    BY <2>1 DEF DeclaracoesBoas
  <2>3. CASE RegistrarDescritor
    <3>1. PICK o \in Dispositivos :
            lidos[o] # 0 /\ declaracoes' = [declaracoes EXCEPT ![o] = lidos[o]]
      BY <2>3 DEF RegistrarDescritor
    <3>2. declaracoes'[d] = IF d = o THEN lidos[d] ELSE declaracoes[d]
      BY <2>1, <3>1 DEF DeclaracoesBoas
    <3>3. ASSUME d = o, declaracoes[d] \in presentes
          PROVE  declaracoes[d] <= lidos[d]
      <4>1. declaracoes[d] # 0
        BY <1>2, <3>3 DEF Inv, TypeOK
      <4>2. /\ EhDescritor(declaracoes[d]) /\ DispositivoDe(declaracoes[d]) = d
            /\ declaracoes[d] <= lidoAte
        BY <1>2, <2>1, <4>1 DEF DeclaracoesBoas, Inv, NoRelatorio
      <4> QED BY <1>2, <3>1, <3>3, <4>2 DEF Inv, NoRelatorio
    <3> QED BY <2>2, <3>2, <3>3
  <2>4. CASE UNCHANGED declaracoes
    BY <2>2, <2>4
  <2> QED
    BY <1>2, <2>3, <2>4
    DEF Next, vars, oArquivo, oDiario, oRelatorio, Escrever, Encerrar, Tempo, Partir, Parar,
        LerDescritores, ReceberLeitura, ReceberDescritor, Gravar, Projetar, Podar
<1> QED BY <1>1, <1>2, InvSempre, PTL DEF Spec, RelatorioMostraAUltimaFala

-----------------------------------------------------------------------------
(* The report, channel by channel.                                         *)

\* What is found wrong with a channel that is declared as x.
Achado(L, o, x, i) ==
  IF Resolver(L, <<o, x.endereco>>, i) = 0 THEN {"unconfigured_channel"}
  ELSE EspeciesDoDeclarado(L[Resolver(L, <<o, x.endereco>>, i)], x)

\* The two directions, divergence by divergence.
LEMMA DeclaradoE ==
  ASSUME NEW L, NEW o, NEW D, NEW i
  PROVE  \A v : v \in DoDeclarado(L, o, D, i) <=>
           \E x \in D : \E s \in Achado(L, o, x, i) : v = Divergencia(s, <<o, x.endereco>>)
<1>1. DoDeclarado(L, o, D, i) =
        UNION {{Divergencia(s, <<o, x.endereco>>) : s \in Achado(L, o, x, i)} : x \in D}
  BY Zenon DEF DoDeclarado, Achado
<1> QED BY <1>1

LEMMA ConfiguradoE ==
  ASSUME NEW L, NEW o, NEW D, NEW i
  PROVE  \A v : v \in DoConfigurado(L, o, D, i) <=>
           \E n \in DOMAIN L :
             /\ L[n].dispositivo = o
             /\ \A x \in D : x.endereco # L[n].endereco
             /\ Resolver(L, Canal(L[n]), i) # 0
             /\ v = Divergencia("missing_channel", Canal(L[n]))
BY DEF DoConfigurado

\* What the report says of a channel comes from the check of its own device.
LEMMA SoDoDispositivo ==
  ASSUME Configurada, NEW d \in Vistas, NEW e \in Enderecos
  PROVE  {v \in Divergencias : v.canal = <<d, e>>} =
           {v \in ConferirDescritor(carregado, d, Declarados(d), agora) : v.canal = <<d, e>>}
<1>1. ASSUME NEW o \in Vistas,
             NEW v \in ConferirDescritor(carregado, o, Declarados(o), agora),
             v.canal = <<d, e>>
      PROVE  o = d
  <2>1. CASE v \in DoDeclarado(carregado, o, Declarados(o), agora)
    <3>1. \E x \in Declarados(o) : \E s \in Achado(carregado, o, x, agora) :
            v = Divergencia(s, <<o, x.endereco>>)
      BY <2>1, DeclaradoE
    <3>2. PICK x : v.canal = <<o, x.endereco>>
      BY <3>1 DEF Divergencia
    <3> QED BY <1>1, <3>2
  <2>2. CASE v \in DoConfigurado(carregado, o, Declarados(o), agora)
    <3>1. PICK n \in DOMAIN carregado :
            /\ carregado[n].dispositivo = o
            /\ v = Divergencia("missing_channel", Canal(carregado[n]))
      BY <2>2, ConfiguradoE
    <3>2. v.canal = <<o, carregado[n].endereco>>
      BY <3>1 DEF Divergencia, Canal
    <3> QED BY <1>1, <3>2
  <2> QED BY <2>1, <2>2 DEF ConferirDescritor
<1> QED BY <1>1 DEF Divergencias

\* A source declares an address once.
LEMMA EnderecoUmaVez ==
  ASSUME Inv, NEW d \in Vistas, NEW x \in Declarados(d), NEW y \in Declarados(d),
         x.endereco = y.endereco
  PROVE  x = y
<1>1. /\ d \in Dispositivos /\ declaracoes[d] \in DOMAIN registros
      /\ EhDescritor(declaracoes[d])
  BY DEF Inv, TypeOK, Vistas
<1>2. registros[declaracoes[d]] \in Leitura \cup Descritor
  BY <1>1 DEF Inv
<1>3. registros[declaracoes[d]] \in Descritor
  BY <1>1, <1>2 DEF EhDescritor, Leitura
<1>4. \E t \in Descritores : Declarados(d) = t.canais
  BY <1>3 DEF Descritor, Declarados
<1> QED BY <1>4, EntradasValidas

\* ConferirDescritor of one channel: what was declared is looked at if there is
\* such a thing, and otherwise whether a line is in force.
LEMMA VeredictoDoCanal ==
  ASSUME Inv, NEW d \in Vistas, NEW e \in Enderecos
  PROVE  LET C == {v \in ConferirDescritor(carregado, d, Declarados(d), agora) :
                     v.canal = <<d, e>>}
             n == Resolver(carregado, <<d, e>>, agora)
             X == {x \in Declarados(d) : x.endereco = e}
         IN  /\ X = {} /\ n = 0 => C = {}
             /\ X = {} /\ n # 0 => C = {Divergencia("missing_channel", <<d, e>>)}
             /\ \A x \in X :
                  /\ n = 0 => C = {Divergencia("unconfigured_channel", <<d, e>>)}
                  /\ n # 0 => C = {Divergencia(s, <<d, e>>) :
                                     s \in EspeciesDoDeclarado(carregado[n], x)}
<1> DEFINE C == {v \in ConferirDescritor(carregado, d, Declarados(d), agora) :
                   v.canal = <<d, e>>}
           n == Resolver(carregado, <<d, e>>, agora)
           X == {x \in Declarados(d) : x.endereco = e}
           P == {v \in DoDeclarado(carregado, d, Declarados(d), agora) : v.canal = <<d, e>>}
           Q == {v \in DoConfigurado(carregado, d, Declarados(d), agora) : v.canal = <<d, e>>}
<1>1. C = P \cup Q
  BY DEF ConferirDescritor
<1>2. ASSUME NEW x \in X
      PROVE  P = {Divergencia(s, <<d, e>>) : s \in Achado(carregado, d, x, agora)}
  <2>1. \A y \in Declarados(d) : y.endereco = e => y = x
    BY <1>2, EnderecoUmaVez
  <2>2. \A v : v \in P <=> \E s \in Achado(carregado, d, x, agora) : v = Divergencia(s, <<d, e>>)
    BY <1>2, <2>1, DeclaradoE DEF Divergencia
  <2> HIDE DEF P
  <2> QED BY <2>2
<1>3. X = {} => P = {}
  BY DeclaradoE DEF Divergencia
<1>4. X # {} \/ n = 0 => Q = {}
  <2> SUFFICES ASSUME NEW v \in Q PROVE X = {} /\ n # 0
    OBVIOUS
  <2>1. v \in DoConfigurado(carregado, d, Declarados(d), agora) /\ v.canal = <<d, e>>
    OBVIOUS
  <2>2. PICK k \in DOMAIN carregado :
          /\ carregado[k].dispositivo = d
          /\ \A x \in Declarados(d) : x.endereco # carregado[k].endereco
          /\ Resolver(carregado, Canal(carregado[k]), agora) # 0
          /\ v = Divergencia("missing_channel", Canal(carregado[k]))
    BY <2>1, ConfiguradoE
  <2>3. Canal(carregado[k]) = <<d, e>>
    BY <2>1, <2>2 DEF Divergencia
  <2> QED BY <2>2, <2>3 DEF Canal
<1>5. ASSUME X = {}, n # 0
      PROVE  Q = {Divergencia("missing_channel", <<d, e>>)}
  <2>1. Boa(carregado) /\ agora \in Nat
    BY EntradasValidas DEF Inv, TypeOK, Instantes
  <2>2. PICK k \in Vigentes(carregado, <<d, e>>, agora) : TRUE
    BY <1>5 DEF Resolver
  <2>3. /\ k \in DOMAIN carregado /\ Canal(carregado[k]) = <<d, e>>
        /\ carregado[k].dispositivo = d /\ carregado[k].endereco = e
    BY <2>2 DEF Vigentes, Canal
  <2>4. Divergencia("missing_channel", <<d, e>>) \in DoConfigurado(carregado, d, Declarados(d), agora)
    BY <1>5, <2>3, ConfiguradoE
  <2>5. Divergencia("missing_channel", <<d, e>>) \in Q
    BY <2>4 DEF Divergencia
  <2>6. \A v \in Q : v = Divergencia("missing_channel", <<d, e>>)
    BY ConfiguradoE DEF Divergencia
  <2> QED BY <2>5, <2>6
<1>6. ASSUME NEW x \in X, n = 0
      PROVE  C = {Divergencia("unconfigured_channel", <<d, e>>)}
  <2>1. P = {Divergencia(s, <<d, e>>) : s \in {"unconfigured_channel"}}
    BY <1>2, <1>6 DEF Achado
  <2> QED BY <1>1, <1>4, <1>6, <2>1
<1>7. ASSUME NEW x \in X, n # 0
      PROVE  C = {Divergencia(s, <<d, e>>) : s \in EspeciesDoDeclarado(carregado[n], x)}
  <2>1. P = {Divergencia(s, <<d, e>>) : s \in EspeciesDoDeclarado(carregado[n], x)}
    BY <1>2, <1>7 DEF Achado
  <2> QED BY <1>1, <1>4, <1>7, <2>1
<1>8. X = {} /\ n = 0 => C = {}
  BY <1>1, <1>3, <1>4
<1>9. X = {} /\ n # 0 => C = {Divergencia("missing_channel", <<d, e>>)}
  BY <1>1, <1>3, <1>5
<1> HIDE DEF C, n, X
<1>10. /\ X = {} /\ n = 0 => C = {}
       /\ X = {} /\ n # 0 => C = {Divergencia("missing_channel", <<d, e>>)}
       /\ \A x \in X :
            /\ n = 0 => C = {Divergencia("unconfigured_channel", <<d, e>>)}
            /\ n # 0 => C = {Divergencia(s, <<d, e>>) :
                               s \in EspeciesDoDeclarado(carregado[n], x)}
  BY <1>6, <1>7, <1>8, <1>9
<1> QED BY <1>10 DEF C, n, X

\* responderComissionamento and ConferirDescritor: of every channel of a source
\* that was seen the report says at most one thing, and it is silent exactly when
\* there is nothing to say.
THEOREM VereditoSempreUnico == Spec => []CadaCanalUmVeredito
<1>1. ASSUME Inv
      PROVE  CadaCanalUmVeredito
  <2> SUFFICES ASSUME Configurada, NEW d \in Vistas, NEW e \in Enderecos
               PROVE  LET aqui == {v \in Divergencias : v.canal = <<d, e>>}
                          n == Resolver(carregado, <<d, e>>, agora)
                          X == {x \in Declarados(d) : x.endereco = e}
                      IN  /\ Cardinality(aqui) <= 1
                          /\ aqui = {} <=>
                               \/ X = {} /\ n = 0
                               \/ /\ X # {} /\ n # 0
                                  /\ \A x \in X :
                                       /\ x.grandeza \in {Nada, carregado[n].grandeza}
                                       /\ x.unidade \in {Nada, carregado[n].unidade}
    BY DEF CadaCanalUmVeredito
  <2> DEFINE aqui == {v \in Divergencias : v.canal = <<d, e>>}
             n == Resolver(carregado, <<d, e>>, agora)
             X == {x \in Declarados(d) : x.endereco = e}
             Calado(x) == /\ x.grandeza \in {Nada, carregado[n].grandeza}
                          /\ x.unidade \in {Nada, carregado[n].unidade}
  <2>1. /\ X = {} /\ n = 0 => aqui = {}
        /\ X = {} /\ n # 0 => aqui = {Divergencia("missing_channel", <<d, e>>)}
        /\ \A x \in X :
             /\ n = 0 => aqui = {Divergencia("unconfigured_channel", <<d, e>>)}
             /\ n # 0 => aqui = {Divergencia(s, <<d, e>>) :
                                   s \in EspeciesDoDeclarado(carregado[n], x)}
    BY <1>1, SoDoDispositivo, VeredictoDoCanal
  <2>2. \A x \in X : /\ EspeciesDoDeclarado(carregado[n], x) = {} <=> Calado(x)
                     /\ \/ EspeciesDoDeclarado(carregado[n], x) = {}
                        \/ \E s : EspeciesDoDeclarado(carregado[n], x) = {s}
    BY DEF EspeciesDoDeclarado
  <2>3. \A x, y \in X : x = y
    BY <1>1, EnderecoUmaVez
  <2> HIDE DEF aqui, n, X
  <2>4. aqui = {} \/ \E v : aqui = {v}
    BY <2>1, <2>2
  <2>5. Cardinality(aqui) <= 1
    BY <2>4, FS_EmptySet, FS_Singleton
  <2>6. aqui = {} <=> \/ X = {} /\ n = 0
                      \/ X # {} /\ n # 0 /\ \A x \in X : Calado(x)
    <3>1. CASE X = {}
      BY <2>1, <3>1
    <3>2. ASSUME NEW x \in X
          PROVE  aqui = {} <=> n # 0 /\ \A y \in X : Calado(y)
      <4>1. CASE n = 0
        BY <2>1, <3>2, <4>1
      <4>2. CASE n # 0
        <5>1. aqui = {} <=> EspeciesDoDeclarado(carregado[n], x) = {}
          BY <2>1, <3>2, <4>2
        <5>2. (\A y \in X : Calado(y)) <=> Calado(x)
          BY <2>3, <3>2
        <5> HIDE DEF Calado
        <5> QED BY <2>2, <3>2, <4>2, <5>1, <5>2
      <4> QED BY <4>1, <4>2
    <3> HIDE DEF Calado
    <3> QED BY <3>1, <3>2
  <2> QED BY <2>5, <2>6 DEF aqui, n, X
<1> QED BY <1>1, InvSempre, PTL

-----------------------------------------------------------------------------
(* The sketch.                                                             *)

\* Names of points that the decoder gives back.
PontosLidos == {nome \in Pontos : LidoSemAspas[nome] = nome}

\* There is always another one: names are text, sketches are finite.
NomesBastam ==
  \A S, T : IsFiniteSet(S) /\ IsFiniteSet(T) =>
    \E f \in [S -> PontosLidos \ T] : \A p, q \in S : p # q => f[p] # f[q]

LEMMA ImagemFinita ==
  ASSUME NEW S, IsFiniteSet(S), NEW f, DOMAIN f = S
  PROVE  IsFiniteSet({f[x] : x \in S})
<1> DEFINE g == [x \in S |-> f[x]]
           T == {f[x] : x \in S}
<1>1. g \in Surjection(S, T)
  BY DEF Surjection
<1> QED BY <1>1, FS_Surjection

\* A finite set and the sequence made of it have the same elements.
LEMMA SequenciaDe ==
  ASSUME NEW S, IsFiniteSet(S), S # {}
  PROVE  /\ SetToSeq(S) \in Seq(S) /\ SetToSeq(S) # <<>>
         /\ \A n, m \in DOMAIN SetToSeq(S) : SetToSeq(S)[n] = SetToSeq(S)[m] => n = m
         /\ \A x \in S : \E n \in DOMAIN SetToSeq(S) : SetToSeq(S)[n] = x
<1> DEFINE k == Cardinality(S)
           s == SetToSeq(S)
<1>1. k \in Nat /\ ExistsBijection(1 .. k, S) /\ k # 0
  BY FS_CardinalityType, FS_EmptySet
<1>2. \E f \in [1 .. k -> S] : IsInjective(f)
  BY <1>1 DEF ExistsBijection, Bijection, Injection
<1>3. s \in [1 .. k -> S] /\ IsInjective(s)
  BY <1>2 DEF SetToSeq
<1>4. IsFiniteSet(1 .. k) /\ Cardinality(1 .. k) = k
  BY <1>1, FS_Interval
<1> HIDE DEF s, k
<1>5. s \in Injection(1 .. k, S)
  BY <1>3 DEF Injection
<1>6. s \in Surjection(1 .. k, S)
  BY <1>4, <1>5, FS_Injection DEF k
<1>7. \A x \in S : \E n \in DOMAIN s : s[n] = x
  BY <1>6 DEF Surjection
<1>8. s \in Seq(S) /\ s # <<>>
  BY <1>1, <1>3
<1>9. \A n, m \in DOMAIN s : s[n] = s[m] => n = m
  BY <1>3 DEF IsInjective
<1> QED BY <1>7, <1>8, <1>9 DEF s

\* What a source that was seen declares.
LEMMA DeclaradosSao ==
  ASSUME Inv, NEW d \in Vistas
  PROVE  /\ d \in Dispositivos /\ declaracoes[d] \in DOMAIN registros
         /\ DispositivoDe(declaracoes[d]) = d
         /\ IsFiniteSet(Declarados(d))
         /\ \A x \in Declarados(d) : x.endereco \in Enderecos /\ x.unidade \in Unidades \cup {Nada}
<1>1. /\ d \in Dispositivos /\ declaracoes[d] \in DOMAIN registros
      /\ EhDescritor(declaracoes[d]) /\ DispositivoDe(declaracoes[d]) = d
  BY DEF Inv, TypeOK, Vistas
<1>2. registros[declaracoes[d]] \in Leitura \cup Descritor
  BY <1>1 DEF Inv
<1>3. registros[declaracoes[d]] \in Descritor
  BY <1>1, <1>2 DEF EhDescritor, Leitura
<1>4. \E t \in Descritores : Declarados(d) = t.canais
  BY <1>3 DEF Descritor, Declarados
<1> QED BY <1>1, <1>4, EntradasValidas

\* Only as many sources were seen as rows were written.
LEMMA VistasFinitas == Inv => IsFiniteSet(Vistas)
<1> SUFFICES ASSUME Inv PROVE IsFiniteSet(Vistas)
  OBVIOUS
<1> DEFINE f == [d \in Vistas |-> declaracoes[d]]
<1>1. Len(registros) \in Nat /\ DOMAIN registros = 1 .. Len(registros)
  BY DEF Inv
<1>2. \A d \in Vistas : f[d] \in 1 .. Len(registros) /\ DispositivoDe(f[d]) = d
  BY <1>1, DeclaradosSao
<1>3. f \in Injection(Vistas, 1 .. Len(registros))
  BY <1>2 DEF Injection, IsInjective
<1>4. IsFiniteSet(1 .. Len(registros))
  BY <1>1, FS_Interval
<1> QED BY <1>3, <1>4, FS_Injection

LEMMA EsbocoE ==
  \A p : p \in Esboco <=> \E d \in Vistas : \E x \in Declarados(d) : p = LinhaDoEsboco(d, x)
BY DEF Esboco

LEMMA EsbocoFinito == Inv => IsFiniteSet(Esboco)
<1> SUFFICES ASSUME Inv PROVE IsFiniteSet(Esboco)
  OBVIOUS
<1> DEFINE f == [d \in Vistas |-> {LinhaDoEsboco(d, x) : x \in Declarados(d)}]
<1>1. ASSUME NEW d \in Vistas PROVE IsFiniteSet(f[d])
  <2> DEFINE g == [x \in Declarados(d) |-> LinhaDoEsboco(d, x)]
  <2>1. IsFiniteSet({g[x] : x \in Declarados(d)})
    <3>1. IsFiniteSet(Declarados(d)) /\ DOMAIN g = Declarados(d)
      BY DeclaradosSao
    <3> HIDE DEF g
    <3> QED BY <3>1, ImagemFinita
  <2>2. {g[x] : x \in Declarados(d)} = f[d]
    OBVIOUS
  <2> QED BY <2>1, <2>2
<1>2. DOMAIN f = Vistas /\ Esboco = UNION {f[d] : d \in Vistas}
  BY DEF Esboco
<1> HIDE DEF f
<1>3. IsFiniteSet({f[d] : d \in Vistas})
  BY <1>2, VistasFinitas, ImagemFinita
<1> QED BY <1>1, <1>2, <1>3, FS_UNION

\* A line of the sketch, before names are filled in.
LEMMA LinhaDoEsbocoE ==
  ASSUME Inv, NEW p \in Esboco
  PROVE  /\ p \in Linha
         /\ p.dispositivo \in Vistas /\ p.dispositivo \in Dispositivos
         /\ Canal(p) = <<p.dispositivo, p.endereco>>
         /\ p.ponto = PontoResolvido(carregado, Canal(p), agora)
         /\ Aparada[p.unidade] # Nada /\ p.unidade \in Unidades
         /\ p.de = 0 /\ p.ate = 0
<1>0. PICK d \in Vistas : \E x \in Declarados(d) : p = LinhaDoEsboco(d, x)
  BY EsbocoE
<1>1. PICK x \in Declarados(d) : p = LinhaDoEsboco(d, x)
  BY <1>0
<1>2. /\ d \in Dispositivos /\ x.endereco \in Enderecos
      /\ x.unidade \in Unidades \cup {Nada}
  BY DeclaradosSao
<1>3. /\ p.dispositivo = d /\ p.endereco = x.endereco
      /\ p.ponto = PontoResolvido(carregado, <<d, x.endereco>>, agora)
      /\ p.grandeza = NomeDaGrandeza(x.grandeza)
      /\ p.unidade = (IF Aparada[x.unidade] = Nada THEN Marca ELSE x.unidade)
      /\ p.de = 0 /\ p.ate = 0
  BY <1>1 DEF LinhaDoEsboco, PontoNoEsboco
<1>4. Boa(carregado) /\ agora \in Nat
  BY EntradasValidas DEF Inv, TypeOK, Instantes
<1>5. PontoResolvido(carregado, <<d, x.endereco>>, agora) \in Pontos \cup {Nada}
  <2>1. \A n \in Vigentes(carregado, <<d, x.endereco>>, agora) : carregado[n].ponto \in Pontos
    BY <1>4, CamposDaLinha DEF Vigentes, Boa, LinhaBoa
  <2> QED BY <1>4, <2>1, ResolverResponde
<1>6. NomeDaGrandeza(x.grandeza) \in Grandezas \cup {Nada}
  BY DEF NomeDaGrandeza
<1>7. p.unidade \in Unidades /\ Aparada[p.unidade] # Nada
  BY <1>2, <1>3, EntradasValidas, ValoresValidos
<1>8. p = [dispositivo |-> p.dispositivo, endereco |-> p.endereco, ponto |-> p.ponto,
           grandeza |-> p.grandeza, unidade |-> p.unidade, de |-> p.de, ate |-> p.ate]
  BY <1>1 DEF LinhaDoEsboco
<1>9. p \in Linha
  BY <1>2, <1>3, <1>5, <1>6, <1>7, <1>8 DEF Linha
<1> QED BY <1>1, <1>2, <1>3, <1>7, <1>9 DEF Canal

\* No channel and no point twice.
LEMMA EsbocoSemRepetidos ==
  ASSUME Inv, NEW p \in Esboco, NEW q \in Esboco,
         Canal(p) = Canal(q) \/ (p.ponto = q.ponto /\ p.ponto # Nada)
  PROVE  p = q
<1>1. CASE Canal(p) = Canal(q)
  <2>0. PICK d \in Vistas, e \in Vistas :
          /\ \E x \in Declarados(d) : p = LinhaDoEsboco(d, x)
          /\ \E y \in Declarados(e) : q = LinhaDoEsboco(e, y)
    BY EsbocoE
  <2>1. PICK x \in Declarados(d) : p = LinhaDoEsboco(d, x)
    BY <2>0
  <2>2. PICK y \in Declarados(e) : q = LinhaDoEsboco(e, y)
    BY <2>0
  <2>3. d = e /\ x.endereco = y.endereco
    BY <1>1, <2>1, <2>2 DEF Canal, LinhaDoEsboco
  <2>4. x = y
    BY <2>3, EnderecoUmaVez
  <2> QED BY <2>1, <2>2, <2>3, <2>4
<1>2. CASE p.ponto = q.ponto /\ p.ponto # Nada
  <2>1. Boa(carregado) /\ agora \in Nat
    BY EntradasValidas DEF Inv, TypeOK, Instantes
  <2>2. /\ p.ponto = PontoResolvido(carregado, Canal(p), agora)
        /\ q.ponto = PontoResolvido(carregado, Canal(q), agora)
    BY LinhaDoEsbocoE
  <2>3. PICK n \in Vigentes(carregado, Canal(p), agora) : carregado[n].ponto = p.ponto
    BY <1>2, <2>1, <2>2, ResolverResponde
  <2>4. PICK m \in Vigentes(carregado, Canal(q), agora) : carregado[m].ponto = q.ponto
    BY <1>2, <2>1, <2>2, ResolverResponde
  <2>5. n = m
    BY <1>2, <2>1, <2>3, <2>4, UmaLinha DEF Vigentes
  <2> QED BY <1>1, <2>3, <2>4, <2>5 DEF Vigentes
<1> QED BY <1>1, <1>2

\* The sketch with its names filled in, and the pieces of it.
Ajuste == Ajustado(Esboco)
SemNome == {p \in Esboco : p.ponto = Nada}
Livres == PontosLidos \ {p.ponto : p \in Esboco}
Nomes == CHOOSE f \in [SemNome -> Livres] : \A p, q \in SemNome : p # q => f[p] # f[q]
Completa(p) ==
  [p EXCEPT !.ponto = IF p \in SemNome THEN Nomes[p] ELSE p.ponto,
            !.grandeza = IF p.grandeza = Nada THEN CHOOSE g \in Grandezas : TRUE
                         ELSE p.grandeza]

LEMMA AjustadoE == Ajuste = {Completa(p) : p \in Esboco}
BY DEF Ajuste, Ajustado, Completa, SemNome, Livres, Nomes, PontosLidos

LEMMA NomesSao ==
  ASSUME Inv, NomesBastam
  PROVE  /\ Nomes \in [SemNome -> Livres]
         /\ \A p, q \in SemNome : p # q => Nomes[p] # Nomes[q]
<1> DEFINE g == [p \in Esboco |-> p.ponto]
           U == {p.ponto : p \in Esboco}
<1>1. IsFiniteSet(Esboco)
  BY EsbocoFinito
<1>2. IsFiniteSet({g[p] : p \in Esboco})
  <2>1. DOMAIN g = Esboco
    OBVIOUS
  <2> HIDE DEF g
  <2> QED BY <1>1, <2>1, ImagemFinita
<1>3. IsFiniteSet(U)
  <2>1. U = {g[p] : p \in Esboco}
    OBVIOUS
  <2> QED BY <1>2, <2>1
<1>4. IsFiniteSet(SemNome)
  BY <1>1, FS_Subset DEF SemNome
<1> HIDE DEF U
<1>5. \E f \in [SemNome -> PontosLidos \ U] : \A p, q \in SemNome : p # q => f[p] # f[q]
  BY <1>3, <1>4 DEF NomesBastam
<1>6. Livres = PontosLidos \ U
  BY DEF Livres, U
<1> QED BY <1>5, <1>6 DEF Nomes

LEMMA CompletaE ==
  ASSUME Inv, NomesBastam, Grandezas # {}, NEW p \in Esboco
  PROVE  /\ Completa(p) \in Linha
         /\ Canal(Completa(p)) = Canal(p)
         /\ Completa(p).dispositivo = p.dispositivo /\ Completa(p).unidade = p.unidade
         /\ p.dispositivo \in Dispositivos /\ p.unidade \in Unidades
         /\ Completa(p).de = 0 /\ Completa(p).ate = 0
         /\ Completa(p).ponto \in Pontos
         /\ p.ponto = Nada => p \in SemNome /\ Completa(p).ponto = Nomes[p]
                              /\ Nomes[p] \in Livres
         /\ p.ponto # Nada => Completa(p).ponto = p.ponto
         /\ Completa(p).grandeza \in Grandezas
         /\ p.grandeza # Nada => Completa(p).grandeza = p.grandeza
<1>1. /\ p \in Linha /\ p.de = 0 /\ p.ate = 0
      /\ p.dispositivo \in Dispositivos /\ p.unidade \in Unidades
  BY LinhaDoEsbocoE
<1>2. p.ponto = Nada => p \in SemNome /\ Nomes[p] \in Livres
  BY NomesSao DEF SemNome
<1>3. p.ponto # Nada => p \notin SemNome
  BY DEF SemNome
<1> DEFINE nome == IF p \in SemNome THEN Nomes[p] ELSE p.ponto
           grandeza == IF p.grandeza = Nada THEN CHOOSE g \in Grandezas : TRUE ELSE p.grandeza
<1>4. nome \in Pontos
  BY <1>1, <1>2, <1>3 DEF Linha, Livres, PontosLidos
<1>5. grandeza \in Grandezas
  BY <1>1 DEF Linha
<1>6. Completa(p) = [p EXCEPT !.ponto = nome, !.grandeza = grandeza]
  BY DEF Completa
<1>7. p.ponto = Nada => nome = Nomes[p]
  BY <1>2
<1>8. p.ponto # Nada => nome = p.ponto
  BY <1>3
<1>9. p.grandeza # Nada => grandeza = p.grandeza
  OBVIOUS
<1> HIDE DEF nome, grandeza
<1>10. /\ Completa(p) \in Linha
       /\ Completa(p).dispositivo = p.dispositivo /\ Completa(p).endereco = p.endereco
       /\ Completa(p).unidade = p.unidade
       /\ Completa(p).de = p.de /\ Completa(p).ate = p.ate
       /\ Completa(p).ponto = nome /\ Completa(p).grandeza = grandeza
  BY <1>1, <1>4, <1>5, <1>6 DEF Linha
<1> QED BY <1>1, <1>2, <1>4, <1>5, <1>7, <1>8, <1>9, <1>10 DEF Canal

\* Completed lines keep apart what the sketch kept apart.
LEMMA CompletaSemRepetidos ==
  ASSUME Inv, NomesBastam, Grandezas # {}, NEW p \in Esboco, NEW q \in Esboco,
         Canal(Completa(p)) = Canal(Completa(q)) \/ Completa(p).ponto = Completa(q).ponto
  PROVE  p = q
<1>1. CASE Canal(Completa(p)) = Canal(Completa(q))
  BY <1>1, CompletaE, EsbocoSemRepetidos
<1>2. CASE Completa(p).ponto = Completa(q).ponto
  <2>1. CASE p.ponto # Nada /\ q.ponto # Nada
    BY <1>2, <2>1, CompletaE, EsbocoSemRepetidos
  <2>2. CASE p.ponto = Nada /\ q.ponto = Nada
    BY <1>2, <2>2, CompletaE, NomesSao
  <2>3. ASSUME NEW a \in Esboco, NEW b \in Esboco, a.ponto # Nada, b.ponto = Nada
        PROVE  Completa(a).ponto # Completa(b).ponto
    BY <2>3, CompletaE DEF Livres
  <2> QED BY <1>2, <2>1, <2>2, <2>3
<1> QED BY <1>1, <1>2

\* What the decoder makes of the texts of a completed line.
Legivel(p) ==
  /\ LidoSemAspas[p.dispositivo] # Nada /\ LidoSemAspas[p.ponto] # Nada
  /\ UnidadeRelida(p.unidade) \notin {Malformado, Nada}

\* A line that is legible is read as it was written, but for its unit.
LEMMA LinhaLidaE ==
  ASSUME Inv, NomesBastam, Grandezas # {}, NEW p \in Esboco
  PROVE  LET q == Completa(p)
             r == LinhaLida(q)
         IN  /\ r.endereco = q.endereco /\ r.grandeza = q.grandeza
             /\ r.de = 0 /\ r.ate = 0
             /\ r.dispositivo = LidoSemAspas[q.dispositivo] /\ r.ponto = LidoSemAspas[q.ponto]
             /\ r.unidade = LidoEntreAspas[q.unidade]
             /\ Legivel(q) => /\ r.dispositivo = q.dispositivo /\ r.ponto = q.ponto
                              /\ Canal(r) = Canal(p)
                              /\ r.unidade \in Unidades \cup {Nada}
                              /\ r.unidade # Malformado
                              /\ Aparada[r.unidade] = UnidadeRelida(q.unidade)
                              /\ r \in Linha
<1> DEFINE q == Completa(p)
           r == LinhaLida(q)
<1>1. /\ q \in Linha /\ Canal(q) = Canal(p) /\ q.dispositivo = p.dispositivo
      /\ q.unidade \in Unidades /\ q.dispositivo \in Dispositivos
      /\ q.de = 0 /\ q.ate = 0 /\ q.ponto \in Pontos
  BY CompletaE
<1> HIDE DEF q
<1>2. /\ r.endereco = q.endereco /\ r.grandeza = q.grandeza
      /\ r.de = q.de /\ r.ate = q.ate
      /\ r.dispositivo = LidoSemAspas[q.dispositivo] /\ r.ponto = LidoSemAspas[q.ponto]
      /\ r.unidade = LidoEntreAspas[q.unidade]
      /\ r = [q EXCEPT !.dispositivo = r.dispositivo, !.ponto = r.ponto, !.unidade = r.unidade]
  BY <1>1 DEF LinhaLida, Linha
<1> HIDE DEF r
<1>3. ASSUME Legivel(q)
      PROVE  /\ r.dispositivo = q.dispositivo /\ r.ponto = q.ponto
             /\ Canal(r) = Canal(p)
             /\ r.unidade \in Unidades \cup {Nada}
             /\ r.unidade # Malformado
             /\ Aparada[r.unidade] = UnidadeRelida(q.unidade)
             /\ r \in Linha
  <2>1. r.dispositivo = q.dispositivo /\ r.ponto = q.ponto
    BY <1>1, <1>2, <1>3, TextosValidos DEF Legivel
  <2>2. /\ LidoEntreAspas[q.unidade] # Malformado
        /\ LidoEntreAspas[q.unidade] \in Unidades \cup {Nada}
        /\ Aparada[r.unidade] = UnidadeRelida(q.unidade)
    BY <1>1, <1>2, <1>3, TextosValidos DEF Legivel, UnidadeRelida
  <2>3. Canal(r) = Canal(p)
    BY <1>1, <1>2, <2>1 DEF Canal
  <2>4. r \in Linha
    BY <1>1, <1>2, <2>1, <2>2 DEF Linha
  <2> QED BY <1>2, <2>1, <2>2, <2>3, <2>4
<1> QED BY <1>1, <1>2, <1>3 DEF q, r

\* A sketch with its names filled in, line by line, and as it is read again.
LEMMA EsbocoEmLinhas ==
  ASSUME Inv, NomesBastam, Grandezas # {}, Esboco # {}
  PROVE  LET s == SetToSeq(Ajuste) IN
         /\ s \in Seq(Ajuste) /\ s # <<>>
         /\ \A n \in DOMAIN s : n \in Nat
         /\ \A n, m \in DOMAIN s : s[n] = s[m] => n = m
         /\ \A p \in Esboco : \E n \in DOMAIN s : s[n] = Completa(p)
         /\ \A n \in DOMAIN s : \E p \in Esboco : s[n] = Completa(p)
         /\ DOMAIN Lidas(s) = DOMAIN s
         /\ \A n \in DOMAIN s : Lidas(s)[n] = LinhaLida(s[n])
         /\ Lidas(s) # <<>>
<1> DEFINE s == SetToSeq(Ajuste)
           f == [p \in Esboco |-> Completa(p)]
<1>1. IsFiniteSet(Ajuste)
  <2>1. DOMAIN f = Esboco /\ Ajuste = {f[p] : p \in Esboco}
    BY AjustadoE
  <2> HIDE DEF f
  <2> QED BY <2>1, EsbocoFinito, ImagemFinita
<1>2. Ajuste # {}
  BY AjustadoE
<1>3. /\ s \in Seq(Ajuste) /\ s # <<>>
      /\ \A n, m \in DOMAIN s : s[n] = s[m] => n = m
      /\ \A x \in Ajuste : \E n \in DOMAIN s : s[n] = x
  BY <1>1, <1>2, SequenciaDe
<1> HIDE DEF s
<1>4. \A n \in DOMAIN s : \E p \in Esboco : s[n] = Completa(p)
  BY <1>3, AjustadoE
<1>5. \A p \in Esboco : \E n \in DOMAIN s : s[n] = Completa(p)
  BY <1>3, AjustadoE
<1>6. \A n \in DOMAIN s : n \in Nat
  BY <1>3
<1>7. DOMAIN Lidas(s) = DOMAIN s /\ \A n \in DOMAIN s : Lidas(s)[n] = LinhaLida(s[n])
  BY DEF Lidas
<1>8. Lidas(s) # <<>>
  <2>1. PICK p \in Esboco : TRUE
    OBVIOUS
  <2>2. PICK n \in DOMAIN s : s[n] = Completa(p)
    BY <1>5
  <2> QED BY <1>7, <2>2
<1> QED BY <1>3, <1>4, <1>5, <1>6, <1>7, <1>8 DEF s

\* If every line of it is legible, what is read is a file that is accepted.
LEMMA EsbocoAceito ==
  ASSUME Inv, NomesBastam, Grandezas # {}, Esboco # {},
         \A p \in Esboco : Legivel(Completa(p))
  PROVE  LET t == Lidas(SetToSeq(Ajuste)) IN
         /\ t \in Arquivo /\ Aceita(t)
         /\ \A n \in DOMAIN t : LidoEntreAspas[SetToSeq(Ajuste)[n].unidade] # Malformado
<1> DEFINE s == SetToSeq(Ajuste)
           t == Lidas(s)
<1>1. /\ s \in Seq(Ajuste) /\ s # <<>>
      /\ \A n \in DOMAIN s : n \in Nat
      /\ \A n, m \in DOMAIN s : s[n] = s[m] => n = m
      /\ \A n \in DOMAIN s : \E p \in Esboco : s[n] = Completa(p)
      /\ DOMAIN t = DOMAIN s
      /\ \A n \in DOMAIN s : t[n] = LinhaLida(s[n])
      /\ t # <<>>
  BY EsbocoEmLinhas
<1>2. ASSUME NEW n \in DOMAIN t
      PROVE  \E p \in Esboco :
               /\ s[n] = Completa(p) /\ t[n] \in Linha
               /\ t[n].dispositivo \in Dispositivos /\ t[n].ponto \in Pontos
               /\ t[n].ponto = Completa(p).ponto /\ Canal(t[n]) = Canal(Completa(p))
               /\ t[n].grandeza \in Grandezas /\ t[n].de = 0 /\ t[n].ate = 0
               /\ Aparada[t[n].unidade] # Nada
               /\ LidoEntreAspas[s[n].unidade] # Malformado
  <2>1. PICK p \in Esboco : s[n] = Completa(p)
    BY <1>1, <1>2
  <2>2. t[n] = LinhaLida(Completa(p)) /\ Legivel(Completa(p))
    BY <1>1, <1>2, <2>1
  <2> QED BY <2>1, <2>2, LinhaLidaE, CompletaE DEF Legivel
<1>3. t \in Seq(Linha)
  <2>1. Len(s) \in Nat /\ DOMAIN s = 1 .. Len(s)
    BY <1>1
  <2>2. t \in [1 .. Len(s) -> Linha]
    BY <1>1, <1>2, <2>1 DEF Lidas
  <2> QED BY <2>1, <2>2
<1> HIDE DEF s, t
<1>4. \A n \in DOMAIN t : LinhaLegivel(t[n]) /\ MapeamentoValido(t[n])
  BY <1>2, ValoresValidos
  DEF LinhaLegivel, PontoLegivel, GrandezaLegivel, VigenciaLegivel, MapeamentoValido
<1>5. ASSUME NEW n \in DOMAIN t, NEW m \in DOMAIN t, n # m
      PROVE  Canal(t[n]) # Canal(t[m]) /\ t[n].ponto # t[m].ponto
  <2>1. PICK p \in Esboco :
          s[n] = Completa(p) /\ t[n].ponto = Completa(p).ponto /\ Canal(t[n]) = Canal(Completa(p))
    BY <1>2
  <2>2. PICK q \in Esboco :
          s[m] = Completa(q) /\ t[m].ponto = Completa(q).ponto /\ Canal(t[m]) = Canal(Completa(q))
    BY <1>2
  <2>3. p # q
    BY <1>1, <1>5, <2>1, <2>2
  <2> QED BY <2>1, <2>2, <2>3, CompletaSemRepetidos
<1>6. CanaisSemSobreposicao(t) /\ PontosSemAmbiguidade(t)
  BY <1>1, <1>5 DEF CanaisSemSobreposicao, PontosSemAmbiguidade
<1>7. Aceita(t)
  BY <1>1, <1>4, <1>6 DEF Aceita
<1>8. \A n \in DOMAIN t : LidoEntreAspas[s[n].unidade] # Malformado
  BY <1>2
<1> QED BY <1>3, <1>7, <1>8 DEF s, t, Arquivo

\* A line that is not legible is refused.
LEMMA IlegivelRecusado ==
  ASSUME Inv, NomesBastam, Grandezas # {}, Esboco # {}, NEW p \in Esboco,
         ~Legivel(Completa(p)), NEW i
  PROVE  ~Carrega(i, SetToSeq(Ajuste))
<1> DEFINE s == SetToSeq(Ajuste)
           t == Lidas(s)
<1>1. PICK n \in DOMAIN s : s[n] = Completa(p)
  BY EsbocoEmLinhas
<1>2. n \in DOMAIN t /\ t[n] = LinhaLida(Completa(p))
  BY <1>1, EsbocoEmLinhas
<1> HIDE DEF s, t
<1>3. /\ t[n].dispositivo = LidoSemAspas[Completa(p).dispositivo]
      /\ t[n].ponto = LidoSemAspas[Completa(p).ponto]
      /\ t[n].unidade = LidoEntreAspas[Completa(p).unidade]
  BY <1>2, LinhaLidaE
<1> SUFFICES ASSUME LidoEntreAspas[s[n].unidade] # Malformado, LinhaLegivel(t[n]),
                    MapeamentoValido(t[n])
             PROVE  FALSE
  BY <1>1, <1>2 DEF Carrega, Aceita, s, t
<1>4. LidoSemAspas[Completa(p).dispositivo] # Nada /\ LidoSemAspas[Completa(p).ponto] # Nada
  BY <1>3, ValoresValidos DEF LinhaLegivel, PontoLegivel
<1>5. Aparada[t[n].unidade] # Nada /\ Aparada[t[n].unidade] # Malformado
  <2>1. Completa(p).unidade \in Unidades
    BY CompletaE
  <2>2. t[n].unidade \in Unidades \cup {Nada}
    BY <1>1, <1>3, <2>1, TextosValidos
  <2> QED BY <2>2, ValoresValidos, TextosValidos DEF MapeamentoValido
<1> QED BY <1>1, <1>3, <1>4, <1>5 DEF Legivel, UnidadeRelida

\* A source whose declaration was taken over as it is agrees with that file.
LEMMA EsbocoConfere ==
  ASSUME Inv, NomesBastam, Grandezas # {}, Esboco # {}, NEW d \in Vistas,
         \A p \in Esboco : Legivel(Completa(p)),
         \A x \in Declarados(d) :
           /\ x.grandeza \in Grandezas \cup {Nada}
           /\ x.unidade # Nada => UnidadeRelida(x.unidade) = x.unidade
  PROVE  ConferirDescritor(Carregada(Lidas(SetToSeq(Ajuste))), d, Declarados(d), agora) = {}
<1> DEFINE s == Lidas(SetToSeq(Ajuste))
           nova == Carregada(s)
<1>1. /\ s \in Arquivo /\ Aceita(s)
      /\ \A p \in Esboco : \E n \in DOMAIN s : s[n] = LinhaLida(Completa(p))
      /\ \A n \in DOMAIN s : \E p \in Esboco : s[n] = LinhaLida(Completa(p))
  BY EsbocoAceito, EsbocoEmLinhas
<1> HIDE DEF s
<1>2. Boa(nova) /\ agora \in Nat
  BY <1>1, CarregadaEBoa, EntradasValidas DEF Inv, TypeOK, Instantes
<1>3. /\ DOMAIN nova = DOMAIN s
      /\ \A n \in DOMAIN s :
           /\ Canal(nova[n]) = Canal(s[n]) /\ nova[n].dispositivo = s[n].dispositivo
           /\ nova[n].grandeza = s[n].grandeza
           /\ nova[n].de = s[n].de /\ nova[n].ate = s[n].ate
           /\ nova[n].unidade = Aparada[s[n].unidade]
  BY <1>1, CarregadaIgual
<1> HIDE DEF nova
<1>4. ASSUME NEW x \in Declarados(d)
      PROVE  \E n \in DOMAIN nova :
               /\ Canal(nova[n]) = <<d, x.endereco>> /\ n # 0
               /\ Resolver(nova, <<d, x.endereco>>, agora) = n
               /\ EspeciesDoDeclarado(nova[n], x) = {}
  <2> DEFINE p == LinhaDoEsboco(d, x)
  <2>1. p \in Esboco
    BY EsbocoE
  <2>2. /\ p.dispositivo = d /\ p.endereco = x.endereco
        /\ p.grandeza = NomeDaGrandeza(x.grandeza)
        /\ p.unidade = (IF Aparada[x.unidade] = Nada THEN Marca ELSE x.unidade)
    BY DEF LinhaDoEsboco
  <2> HIDE DEF p
  <2>3. PICK n \in DOMAIN s : s[n] = LinhaLida(Completa(p))
    BY <1>1, <2>1
  <2>4. /\ Canal(s[n]) = <<d, x.endereco>> /\ s[n].de = 0 /\ s[n].ate = 0
        /\ Aparada[s[n].unidade] = UnidadeRelida(p.unidade)
        /\ s[n].grandeza = Completa(p).grandeza
    <3>1. Legivel(Completa(p)) /\ Completa(p).unidade = p.unidade
      BY <2>1, CompletaE
    <3>2. Canal(p) = <<d, x.endereco>>
      BY <2>2 DEF Canal
    <3> QED BY <2>1, <2>3, <3>1, <3>2, LinhaLidaE
  <2>5. /\ Canal(nova[n]) = <<d, x.endereco>> /\ nova[n].de = 0 /\ nova[n].ate = 0
        /\ nova[n].unidade = UnidadeRelida(p.unidade)
        /\ nova[n].grandeza = Completa(p).grandeza
    BY <1>3, <2>4
  <2>6. n \in Vigentes(nova, <<d, x.endereco>>, agora)
    BY <1>3, <2>5 DEF Vigentes, CobreInstante
  <2>7. n # 0 /\ Resolver(nova, <<d, x.endereco>>, agora) = n
    BY <1>1, <1>2, <2>6, ResolverResponde DEF Arquivo
  <2>8. x.grandeza # Nada => nova[n].grandeza = x.grandeza
    <3>1. x.grandeza # Nada => p.grandeza = x.grandeza
      BY <2>2 DEF NomeDaGrandeza
    <3> QED BY <2>1, <2>5, <3>1, CompletaE
  <2>9. x.unidade # Nada => nova[n].unidade = x.unidade
    <3> SUFFICES ASSUME x.unidade # Nada PROVE nova[n].unidade = x.unidade
      OBVIOUS
    <3>1. x.unidade \in Unidades /\ UnidadeRelida(x.unidade) = x.unidade
      BY DeclaradosSao
    <3>2. Aparada[x.unidade] = x.unidade
      <4>1. /\ LidoEntreAspas[x.unidade] \in Unidades \cup {Nada}
            /\ Aparada[LidoEntreAspas[x.unidade]] = x.unidade
        BY <3>1, TextosValidos DEF UnidadeRelida
      <4> QED BY <3>1, <4>1, ValoresValidos
    <3>3. p.unidade = x.unidade
      BY <2>2, <3>2
    <3> QED BY <2>5, <3>1, <3>3
  <2> QED BY <1>3, <2>3, <2>5, <2>7, <2>8, <2>9 DEF EspeciesDoDeclarado
<1>5. ASSUME NEW x \in Declarados(d) PROVE Achado(nova, d, x, agora) = {}
  BY <1>4 DEF Achado
<1>6. DoDeclarado(nova, d, Declarados(d), agora) = {}
  <2> SUFFICES ASSUME NEW v \in DoDeclarado(nova, d, Declarados(d), agora) PROVE FALSE
    OBVIOUS
  <2>1. \E x \in Declarados(d) : \E a \in Achado(nova, d, x, agora) :
          v = Divergencia(a, <<d, x.endereco>>)
    BY DeclaradoE
  <2> QED BY <1>5, <2>1
<1>7. ASSUME NEW n \in DOMAIN nova, nova[n].dispositivo = d
      PROVE  \E x \in Declarados(d) : x.endereco = nova[n].endereco
  <2>1. PICK p \in Esboco : s[n] = LinhaLida(Completa(p))
    BY <1>1, <1>3
  <2>2. Canal(nova[n]) = Canal(p)
    BY <1>3, <2>1, LinhaLidaE
  <2>3. PICK e \in Vistas : \E x \in Declarados(e) : p = LinhaDoEsboco(e, x)
    BY EsbocoE
  <2>4. PICK x \in Declarados(e) : p = LinhaDoEsboco(e, x)
    BY <2>3
  <2>5. p.dispositivo = e /\ p.endereco = x.endereco
    BY <2>4 DEF LinhaDoEsboco
  <2> QED BY <1>7, <2>2, <2>5 DEF Canal
<1>8. DoConfigurado(nova, d, Declarados(d), agora) = {}
  BY <1>7, ConfiguradoE
<1> QED BY <1>6, <1>8 DEF ConferirDescritor, nova, s

\* montarEsboco and Carregar: whatever was seen and whatever is configured, the
\* sketch with its names filled in is accepted exactly when the decoder makes a text
\* of each of the texts it holds; no source it was made from contradicts it then, if
\* the quantities are known and the units come back as they were; and it is refused
\* while a name is missing.  There is a quantity to fill in, names do not run out.
THEOREM EsbocoSempreServe ==
  ASSUME NomesBastam, Grandezas # {}
  PROVE  Spec => []EsbocoServe
<1>1. ASSUME Inv
      PROVE  EsbocoServe
  <2> DEFINE novo == SetToSeq(Ajuste)
             legiveis ==
               \A p \in Ajuste :
                 /\ LidoSemAspas[p.dispositivo] # Nada /\ LidoSemAspas[p.ponto] # Nada
                 /\ UnidadeRelida(p.unidade) \notin {Malformado, Nada}
             fielmente == \A d \in Vistas : \A x \in Declarados(d) :
                            /\ x.grandeza \in Grandezas \cup {Nada}
                            /\ x.unidade # Nada => UnidadeRelida(x.unidade) = x.unidade
  <2>1. legiveis <=> \A p \in Esboco : Legivel(Completa(p))
    BY AjustadoE DEF Legivel
  <2>2. ASSUME Esboco # {}, NEW i
        PROVE  Carrega(i, novo) <=> LidoSemAspas[i] \notin {Malformado, Nada} /\ legiveis
    <3>1. CASE legiveis
      <4>1. /\ Aceita(Lidas(novo)) /\ DOMAIN Lidas(novo) = DOMAIN novo
            /\ \A n \in DOMAIN novo : LidoEntreAspas[novo[n].unidade] # Malformado
        BY <1>1, <2>1, <2>2, <3>1, EsbocoAceito, EsbocoEmLinhas
      <4> HIDE DEF novo
      <4> QED BY <3>1, <4>1 DEF Carrega
    <3>2. CASE ~legiveis
      <4>1. PICK p \in Esboco : ~Legivel(Completa(p))
        BY <2>1, <3>2
      <4>2. ~Carrega(i, novo)
        BY <1>1, <2>2, <4>1, IlegivelRecusado
      <4> QED BY <3>2, <4>2
    <3> QED BY <3>1, <3>2
  <2>3. ASSUME Esboco # {}, legiveis, fielmente, NEW d \in Vistas
        PROVE  ConferirDescritor(Carregada(Lidas(novo)), d, Declarados(d), agora) = {}
    BY <1>1, <2>1, <2>3, EsbocoConfere
  <2>4. ASSUME Esboco # {}, NEW p \in Esboco, p.ponto = Nada, NEW i
        PROVE  ~Carrega(i, SetToSeq(Esboco))
    <3> DEFINE s == SetToSeq(Esboco)
    <3>1. PICK n \in DOMAIN s : s[n] = p
      BY <1>1, <2>4, EsbocoFinito, SequenciaDe
    <3>2. n \in DOMAIN Lidas(s) /\ Lidas(s)[n] = LinhaLida(p)
      BY <3>1 DEF Lidas
    <3>3. p \in Linha
      BY <1>1, LinhaDoEsbocoE
    <3>4. LinhaLida(p).ponto = Nada
      BY <2>4, <3>3, TextosValidos DEF LinhaLida, Linha
    <3>5. ~LinhaLegivel(LinhaLida(p))
      BY <3>4, ValoresValidos DEF LinhaLegivel, PontoLegivel
    <3> QED BY <3>2, <3>5 DEF Carrega, Aceita
  <2> HIDE DEF novo, legiveis, fielmente
  <2>5. Esboco # {} =>
          /\ \A i \in NoEsboco :
               Carrega(i, novo) <=> LidoSemAspas[i] \notin {Malformado, Nada} /\ legiveis
          /\ legiveis /\ fielmente =>
               \A d \in Vistas :
                 ConferirDescritor(Carregada(Lidas(novo)), d, Declarados(d), agora) = {}
          /\ (\E p \in Esboco : p.ponto = Nada) =>
               \A i \in NoEsboco : ~Carrega(i, SetToSeq(Esboco))
    BY <2>2, <2>3, <2>4
  <2> QED BY <2>5 DEF EsbocoServe, Ajuste, novo, legiveis, fielmente
<1> QED BY <1>1, InvSempre, PTL
=============================================================================
