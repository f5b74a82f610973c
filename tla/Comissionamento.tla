-------------------------- MODULE Comissionamento --------------------------
(***************************************************************************)
(* Commissioning: an operator edits the file of the installation, the      *)
(* gateway reads it when it starts, gives readings their meaning when it   *)
(* projects them (enriquecer), and compares what each source declares of   *)
(* itself with the file (apresentacaohttp).  What a source declared is in  *)
(* memory, refilled from the journal at the start and again and again.     *)
(*                                                                         *)
(* External: the process that starts the parts and refills the report is   *)
(* not in the sources; docs/V2.2.md says when it calls UltimosDescritores  *)
(* and RegistrarDescritor, one refill at a time.                           *)
(* Abstracted: the way of a row into the journal (module Ingestao) and the *)
(* failures of the projection (module Projecao).                           *)
(***************************************************************************)
EXTENDS Instalacao, SequencesExt

CONSTANTS
  LinhasPossiveis,  \* lines the operator may add
  Leituras,         \* channels that send readings
  Descritores,      \* what a source may declare of itself, an address once
  Identificadores,  \* what an installation may be called in its file
  Marca,            \* AJUSTAR-..., which reads as a unit and as an identifier
  LidoSemAspas,     \* what the decoder makes of a name written as it is
  LidoEntreAspas,   \* what it makes of a unit written as it is between quotes
  Malformado,       \* instead of a text: the decoder refuses the file
  MaxLinhas,        \* Bound: lines of the file
  MaxEncerradas,    \* Bound: lines whose period was ended
  MaxAgora,         \* Bound: last instant
  MaxRegistros,     \* Bound: rows ever written
  MaxQuedas         \* Bound: restarts

ASSUME EntradasValidas ==
  /\ LinhasPossiveis \subseteq Linha
  /\ Leituras \subseteq Canais
  /\ Marca \in Unidades /\ Aparada[Marca] = Marca
  /\ \A t \in Descritores :
       /\ t.dispositivo \in Dispositivos /\ IsFiniteSet(t.canais)
       /\ \A x \in t.canais : x.endereco \in Enderecos /\ x.unidade \in Unidades \cup {Nada}
       /\ \A x, y \in t.canais : x.endereco = y.endereco => x = y
  /\ MaxAgora \in Nat /\ Epoca <= MaxAgora

\* Names of devices and points are lower case letters, digits, "-" and ".": the
\* decoder gives them back, but for "null", which it takes for nothing.  An
\* identifier and a unit are any text: read back, read as another text (a comment
\* cut off, an escape sequence, a line break), as nothing, or refused.  A unit that
\* closes its quotes and goes on with fields of its own is not considered.
ASSUME TextosValidos ==
  /\ Nada \notin Identificadores
  /\ Malformado \notin Identificadores \cup Dispositivos \cup Pontos \cup Unidades \cup {Nada}
  /\ LidoSemAspas \in [Identificadores \cup Dispositivos \cup Pontos \cup {Marca, Nada} ->
                        Identificadores \cup Dispositivos \cup Pontos \cup {Marca, Nada, Malformado}]
  /\ LidoSemAspas[Nada] = Nada /\ LidoSemAspas[Marca] = Marca
  /\ \A nome \in Dispositivos \cup Pontos : LidoSemAspas[nome] \in {nome, Nada}
  /\ LidoEntreAspas \in [Unidades -> Unidades \cup {Nada, Malformado}]
  /\ LidoEntreAspas[Marca] = Marca

VARIABLES
  arquivo,      \* the lines of the file, as they are on disk
  carregado,    \* the installation of the running gateway; no line if none was given
  noAr,         \* the gateway runs
  agora,        \* wall clock
  registros,    \* every row ever written; the position is its id
  presentes,    \* ids of the rows the journal still has
  cursor,       \* ultimo_id_projetado
  destino,      \* point each projected reading was given
  declaracoes,  \* row each source's declaration comes from, 0 for none
  lidos,        \* rows UltimosDescritores gave and that are not registered yet
  lidoAte,      \* history: rows written when the journal was last read for the report
  quedas

oArquivo == <<arquivo, carregado>>
oDiario == <<registros, presentes, cursor>>
oRelatorio == <<declaracoes, lidos, lidoAte>>
vars == <<oArquivo, noAr, agora, oDiario, destino, oRelatorio, quedas>>

Instantes == 1 .. MaxAgora

SemInstalacao == <<>>

NenhumaDeclaracao == [d \in Dispositivos |-> 0]

Init ==
  /\ arquivo = <<>>
  /\ carregado = SemInstalacao
  /\ noAr = FALSE
  /\ agora = Epoca
  /\ registros = <<>>
  /\ presentes = {}
  /\ cursor = 0
  /\ destino = [id \in {} |-> Nada]
  /\ declaracoes = NenhumaDeclaracao
  /\ lidos = NenhumaDeclaracao
  /\ lidoAte = 0
  /\ quedas = 0

EhDescritor(id) == registros[id].tipo = "descritor"

DispositivoDe(id) ==
  IF EhDescritor(id) THEN registros[id].dispositivo ELSE registros[id].canal[1]

\* Mutation: the descriptor with the latest instant.
DescritorMaisTardio(d) ==
  LET D == {id \in presentes : EhDescritor(id) /\ DispositivoDe(id) = d} IN
  IF D = {} THEN 0
  ELSE CHOOSE id \in D : \A outro \in D : registros[outro].instante <= registros[id].instante

\* Mutation: the last row of the device, whatever its type.
UltimaFala(d) == Max({id \in presentes : DispositivoDe(id) = d} \cup {0})

\* The last descriptor of a device in the journal.
UltimoDescritor(d) ==
  Max({id \in presentes : EhDescritor(id) /\ DispositivoDe(id) = d} \cup {0})

UltimosDescritores == [d \in Dispositivos |-> UltimoDescritor(d)]

-----------------------------------------------------------------------------
(* The operator.                                                           *)

Escrever ==
  /\ Len(arquivo) < MaxLinhas
  /\ \E p \in LinhasPossiveis : arquivo' = Append(arquivo, p)
  /\ UNCHANGED <<carregado, noAr, agora, oDiario, destino, oRelatorio, quedas>>

\* The period of a line ends: the sensor was replaced, or will be.
Encerrar ==
  /\ Cardinality({n \in DOMAIN arquivo : arquivo[n].ate # 0}) < MaxEncerradas
  /\ \E n \in DOMAIN arquivo, i \in Instantes :
       /\ arquivo[n].ate = 0
       /\ arquivo' = [arquivo EXCEPT ![n].ate = i]
  /\ UNCHANGED <<carregado, noAr, agora, oDiario, destino, oRelatorio, quedas>>

\* The clock, which may be set back.
Tempo ==
  /\ agora' \in (Epoca .. MaxAgora) \ {agora}
  /\ UNCHANGED <<oArquivo, noAr, oDiario, destino, oRelatorio, quedas>>

-----------------------------------------------------------------------------
(* The process.                                                            *)

\* With -instalacao the file is read and must be accepted; without, the gateway
\* runs and knows no channel.  The report is filled before it answers, unless the
\* journal cannot be read.
Partir ==
  /\ ~noAr
  /\ noAr' = TRUE
  /\ \/ Aceita(arquivo) /\ carregado' = Carregada(arquivo)
     \/ arquivo = <<>> /\ carregado' = SemInstalacao
  /\ \/ declaracoes' = UltimosDescritores /\ lidoAte' = Len(registros)
     \/ declaracoes' = NenhumaDeclaracao /\ lidoAte' = 0
  /\ UNCHANGED <<arquivo, agora, oDiario, destino, lidos, quedas>>

Parar ==
  /\ noAr
  /\ quedas < MaxQuedas
  /\ quedas' = quedas + 1
  /\ noAr' = FALSE
  /\ carregado' = SemInstalacao
  /\ declaracoes' = NenhumaDeclaracao
  /\ lidos' = NenhumaDeclaracao
  /\ lidoAte' = 0
  /\ UNCHANGED <<arquivo, agora, oDiario, destino>>

\* The journal is read for the report; a read that fails gives nothing.
LerDescritores ==
  /\ noAr
  /\ lidos = NenhumaDeclaracao
  /\ lidos' = UltimosDescritores
  /\ lidoAte' = Len(registros)
  /\ UNCHANGED <<oArquivo, noAr, agora, oDiario, destino, declaracoes, quedas>>

\* One of the rows that were read, under the lock of the declarations.
RegistrarDescritor ==
  /\ \E d \in Dispositivos :
       /\ lidos[d] # 0
       /\ declaracoes' = [declaracoes EXCEPT ![d] = lidos[d]]
       /\ lidos' = [lidos EXCEPT ![d] = 0]
  /\ UNCHANGED <<oArquivo, noAr, agora, oDiario, destino, lidoAte, quedas>>

-----------------------------------------------------------------------------
(* The journal and the projection.                                         *)

Gravar(registro) ==
  /\ noAr
  /\ Len(registros) < MaxRegistros
  /\ registros' = Append(registros, registro)
  /\ presentes' = presentes \cup {Len(registros) + 1}
  /\ UNCHANGED <<oArquivo, noAr, agora, cursor, destino, oRelatorio, quedas>>

ReceberLeitura ==
  \E c \in Leituras : Gravar([tipo |-> "leitura", canal |-> c, instante |-> agora])

ReceberDescritor ==
  \E t \in Descritores :
    Gravar([tipo |-> "descritor", dispositivo |-> t.dispositivo, canais |-> t.canais,
            instante |-> agora])

\* enriquecer: resolved by the instant the reading was observed at.
Rotulo(id) == PontoResolvido(carregado, registros[id].canal, registros[id].instante)

\* A cycle: some of the pending rows reach the query database, where the first
\* writing of a row stays; the cursor follows, unless that fails or is cut off.
Projetar ==
  /\ noAr
  /\ \E ultimo \in {id \in presentes : id > cursor} :
       LET lote == {id \in presentes : cursor < id /\ id <= ultimo /\ ~EhDescritor(id)} IN
       /\ destino' = [id \in DOMAIN destino \cup lote |->
                        IF id \in DOMAIN destino THEN destino[id] ELSE Rotulo(id)]
       /\ cursor' \in {cursor, ultimo}
  /\ UNCHANGED <<oArquivo, noAr, agora, registros, presentes, oRelatorio, quedas>>

\* Podar: what is projected and older than the retention, by the clock.
Podar ==
  /\ \E limite \in Epoca .. agora :
       presentes' = {id \in presentes : id > cursor \/ registros[id].instante >= limite}
  /\ UNCHANGED <<oArquivo, noAr, agora, registros, cursor, destino, oRelatorio, quedas>>

Next ==
  \/ Escrever \/ Encerrar \/ Tempo
  \/ Partir \/ Parar \/ LerDescritores \/ RegistrarDescritor
  \/ ReceberLeitura \/ ReceberDescritor \/ Projetar \/ Podar

Spec == Init /\ [][Next]_vars

-----------------------------------------------------------------------------
(* The answers of the gateway: reads of the state above.                   *)

\* responderComissionamento looks at the sources it has seen, and at no other.
Vistas == {d \in Dispositivos : declaracoes[d] # 0}

Declarados(d) == registros[declaracoes[d]].canais

Configurada == carregado # <<>>

Divergencias ==
  IF ~Configurada THEN {}
  ELSE UNION {ConferirDescritor(carregado, d, Declarados(d), agora) : d \in Vistas}

\* Mutation: the last point of the channel, in force or not.
PontoNoEsbocoDeSempre(canal) ==
  LET N == {n \in DOMAIN carregado : Canal(carregado[n]) = canal} IN
  IF N = {} THEN Nada ELSE carregado[Max(N)].ponto

\* resolverParaEsboco: the point of the channel now; otherwise a mark.
PontoNoEsboco(canal) == PontoResolvido(carregado, canal, agora)

\* escreverCanal: what is declared, a mark for what is not, and no period.
LinhaDoEsboco(d, x) ==
  [dispositivo |-> d, endereco |-> x.endereco, ponto |-> PontoNoEsboco(<<d, x.endereco>>),
   grandeza |-> NomeDaGrandeza(x.grandeza),
   unidade |-> IF Aparada[x.unidade] = Nada THEN Marca ELSE x.unidade, de |-> 0, ate |-> 0]

\* montarEsboco: the sources seen, and no other line.
Esboco == UNION {{LinhaDoEsboco(d, x) : x \in Declarados(d)} : d \in Vistas}

\* What the sketch calls the installation.
NoEsboco == IF Configurada THEN Identificadores ELSE {Marca}

\* The texts of a line as they are read again: the sketch writes them as they are,
\* the unit between quotes.  A mark that is no name stands as Nada and stays so.
LinhaLida(p) ==
  [p EXCEPT !.dispositivo = LidoSemAspas[@], !.ponto = LidoSemAspas[@],
            !.unidade = LidoEntreAspas[@]]

Lidas(linhas) == [n \in DOMAIN linhas |-> LinhaLida(linhas[n])]

\* Carregar on the text of a sketch: it decodes, and what is read is accepted.
Carrega(identificador, linhas) ==
  /\ LidoSemAspas[identificador] \notin {Malformado, Nada}
  /\ \A n \in DOMAIN linhas : LidoEntreAspas[linhas[n].unidade] # Malformado
  /\ Aceita(Lidas(linhas))

-----------------------------------------------------------------------------
(* Invariants.                                                             *)

TypeOK ==
  /\ arquivo \in Arquivo
  /\ carregado \in Arquivo
  /\ noAr \in BOOLEAN
  /\ agora \in Instantes
  /\ \A id \in DOMAIN registros : registros[id].instante \in Instantes
  /\ presentes \subseteq DOMAIN registros
  /\ cursor \in 0 .. Len(registros)
  /\ DOMAIN destino \subseteq DOMAIN registros
  /\ \A id \in DOMAIN destino : ~EhDescritor(id) /\ destino[id] \in Pontos \cup {Nada}
  /\ \A D \in {declaracoes, lidos} :
       /\ D \in [Dispositivos -> 0 .. Len(registros)]
       /\ \A d \in Dispositivos : D[d] # 0 => EhDescritor(D[d]) /\ DispositivoDe(D[d]) = d
  /\ lidoAte \in 0 .. Len(registros)
  /\ quedas \in Nat

\* NovaInstalacao: whatever was written into the file, an installation that was
\* accepted leaves no instant at which a channel has two meanings or a point two
\* sources, sensors replaced at the same instant included.
UmaFontePorVez ==
  \A i \in Instantes, n, m \in DOMAIN carregado :
    n # m /\ CobreInstante(carregado[n], i) /\ CobreInstante(carregado[m], i) =>
      /\ Canal(carregado[n]) # Canal(carregado[m])
      /\ carregado[n].ponto # carregado[m].ponto

\* Resolver and projected rows: lines may be added and periods ended, before or
\* after the fact and without a restart; a reading that was given a point keeps
\* it under every file the gateway would start with, unless the file says that
\* the period it was read in had ended by then.
RotuloPermanece ==
  Aceita(arquivo) =>
    \A id \in DOMAIN destino :
      LET r == registros[id] IN
      destino[id] # Nada =>
        \/ PontoResolvido(arquivo, r.canal, r.instante) = destino[id]
        \/ \E n \in DOMAIN arquivo :
             LET p == arquivo[n] IN
             /\ Canal(p) = r.canal /\ p.ponto = destino[id]
             /\ p.de <= r.instante /\ p.ate # 0 /\ p.ate <= r.instante

\* VinculosDoPonto answers "which device fed this point then" as Resolver would,
\* from the epoch on, but for one case: "since ever" is told as the epoch, an end
\* before it is refused by EncerradoEm, and the binding is told as open for ever.
VinculosRespondem ==
  Configurada =>
    \A ponto \in Pontos, i \in Epoca .. MaxAgora :
      {v.dispositivo : v \in {u \in VinculosDoPonto(carregado, ponto) : CobreInstante(u, i)}}
        = {carregado[n].dispositivo : n \in {m \in DOMAIN carregado :
             LET p == carregado[m] IN
             /\ p.ponto = ponto
             /\ \/ PontoResolvido(carregado, Canal(p), i) = ponto
                \/ p.de = 0 /\ p.ate # 0 /\ p.ate < Epoca}}

\* The report on a source that was seen names each of its channels at most once,
\* and is silent about a channel exactly when it is neither declared nor in
\* force, or when nothing that was declared contradicts the line in force.
CadaCanalUmVeredito ==
  Configurada =>
    \A d \in Vistas, e \in Enderecos :
      LET aqui == {v \in Divergencias : v.canal = <<d, e>>}
          n == Resolver(carregado, <<d, e>>, agora)
          X == {x \in Declarados(d) : x.endereco = e}
      IN  /\ Cardinality(aqui) <= 1
          /\ aqui = {} <=>
               \/ X = {} /\ n = 0
               \/ /\ X # {} /\ n # 0
                  /\ \A x \in X :
                       /\ x.grandeza \in {Nada, carregado[n].grandeza}
                       /\ x.unidade \in {Nada, carregado[n].unidade}

\* The lines of a sketch with the missing names filled in, each with a name of its own.
Ajustado(esboco) ==
  LET semNome == {p \in esboco : p.ponto = Nada}
      livres == {nome \in Pontos : LidoSemAspas[nome] = nome} \ {p.ponto : p \in esboco}
      nomes == CHOOSE f \in [semNome -> livres] : \A p, q \in semNome : p # q => f[p] # f[q]
  IN  {[p EXCEPT !.ponto = IF p \in semNome THEN nomes[p] ELSE p.ponto,
                 !.grandeza = IF p.grandeza = Nada THEN CHOOSE g \in Grandezas : TRUE
                              ELSE p.grandeza] : p \in esboco}

\* What a declared unit comes to in the installation loaded from the sketch.
UnidadeRelida(u) ==
  IF LidoEntreAspas[u] = Malformado THEN Malformado ELSE Aparada[LidoEntreAspas[u]]

\* montarEsboco and Carregar: once its names are filled in, the sketch is a file the
\* gateway starts with, whatever moved and whatever was configured half-way, as
\* long as the decoder makes a text of each text written as it is, and only then;
\* no source it was made from contradicts that file, if the quantities they declare
\* are known and their units come back as they were declared; as it comes, it is
\* refused while a name is missing.
EsbocoServe ==
  LET esboco == Esboco
      ajustado == Ajustado(esboco)
      novo == SetToSeq(ajustado)
      legiveis ==
        \A p \in ajustado :
          /\ LidoSemAspas[p.dispositivo] # Nada /\ LidoSemAspas[p.ponto] # Nada
          /\ UnidadeRelida(p.unidade) \notin {Malformado, Nada}
      fielmente == \A d \in Vistas : \A x \in Declarados(d) :
                     /\ x.grandeza \in Grandezas \cup {Nada}
                     /\ x.unidade # Nada => UnidadeRelida(x.unidade) = x.unidade
  IN  esboco # {} =>
        /\ \A i \in NoEsboco :
             Carrega(i, novo) <=> LidoSemAspas[i] \notin {Malformado, Nada} /\ legiveis
        /\ legiveis /\ fielmente =>
             \A d \in Vistas :
               ConferirDescritor(Carregada(Lidas(novo)), d, Declarados(d), agora) = {}
        /\ (\E p \in esboco : p.ponto = Nada) =>
             \A i \in NoEsboco : ~Carrega(i, SetToSeq(esboco))

-----------------------------------------------------------------------------
(* Properties of the report in time.                                       *)

\* UltimosDescritores and RegistrarDescritor: whatever of what a source said was in
\* the journal when it was last read for the report, and still is there, the report
\* shows it, or something said later, or is about to; and while the gateway runs
\* the report goes back to something said earlier only when the row it showed was
\* pruned.  Rows arrive and are pruned, and the clock is set back, between the read
\* and the registration of each row.
RelatorioMostraAUltimaFala ==
  /\ [](\A id \in presentes : EhDescritor(id) /\ id <= lidoAte =>
          LET d == DispositivoDe(id) IN id <= declaracoes[d] \/ id <= lidos[d])
  /\ [][noAr /\ noAr' =>
          \A d \in Dispositivos :
            declaracoes'[d] >= declaracoes[d] \/ declaracoes[d] \notin presentes]_vars

-----------------------------------------------------------------------------
(* What comments say, and the code does not do.                            *)

\* comissionamento.go: the check runs in both directions so that a configured
\* point that never receives data does not stay invisible.  Once some source was
\* seen, every line in force is declared or reported missing.
PontoMudoAparece ==
  Vistas # {} =>
    \A n \in DOMAIN carregado :
      LET p == carregado[n] IN
      CobreInstante(p, agora) =>
        \/ p.dispositivo \in Vistas /\ \E x \in Declarados(p.dispositivo) : x.endereco = p.endereco
        \/ \E v \in Divergencias : v.canal = Canal(p)
=============================================================================
