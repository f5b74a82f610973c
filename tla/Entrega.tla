------------------------------ MODULE Entrega ------------------------------
(***************************************************************************)
(* A node and the gateway together, over a network that loses and delays:  *)
(* the node sends its oldest envelopes and waits for one answer at a time, *)
(* with a time limit; a request it gave up may still be served, before or  *)
(* after the next one; the answer may not arrive; the gateway may be       *)
(* killed (module Ingestao, step by step) and the node may lose its        *)
(* memory; the credential of the node may be wrong until somebody mends    *)
(* it.                                                                     *)
(*                                                                         *)
(* Abstracted: the goroutines of the node (No), when it decides to send,   *)
(* the back-off, the steps of the clock (Ingestao).                        *)
(***************************************************************************)
EXTENDS Contrato

CONSTANTS
  Tratadores,           \* goroutines of the HTTP server
  Livre,                \* nobody holds the connection of the journal
  Dispositivo,          \* the identifier the node claims
  Credenciais,          \* common names its certificate may start with
  Conteudos,            \* what it may say
  Capacidade,           \* of its buffer
  EnvelopesPorRemessa,  \* of a batch
  MaxSequencia,         \* Bound: envelopes of one boot session
  MaxEnvelopes,         \* Bound: envelopes of all of them
  MaxPartidas,          \* Bound: boot sessions
  MaxPedidos,           \* Bound: requests alive at one time
  MaxExecucao           \* Bound: runs of the gateway

\* A batch that does not fit would be refused whole.
ASSUME LoteCabe == EnvelopesPorRemessa \in 1 .. EnvelopesMaximos

ASSUME LimitesDaEntrega ==
  /\ {Capacidade, MaxSequencia, MaxEnvelopes, MaxPartidas, MaxPedidos, MaxExecucao}
       \subseteq Nat \ {0}
  /\ Livre \notin Tratadores

VARIABLES
  \* The gateway (Ingestao).
  diario, ancoras, conexao, tratador, execucao, confirmados,
  servindo,     \* the request each goroutine is at
  \* The network.
  rede,         \* requests sent and not yet taken up
  \* The node.
  sessao,       \* n.configuracao.IDDaSessaoDeBoot
  emitidos,     \* n.sequencia, of every session
  guardados,    \* envelopes in the buffer
  espera,       \* the request in flight, with its batch
  credencial,   \* common name of its certificate
  \* History: the fate of every envelope.
  entregues, recusados, perdidos, apagados

oGateway == <<diario, ancoras, conexao, tratador, execucao, confirmados>>
oNo == <<sessao, emitidos, guardados, espera, credencial>>
historia == <<entregues, recusados, perdidos, apagados>>
vars == <<diario, ancoras, conexao, tratador, execucao, confirmados, servindo, rede,
          sessao, emitidos, guardados, espera, credencial,
          entregues, recusados, perdidos, apagados>>

Sessoes == 1 .. MaxPartidas

G == INSTANCE Ingestao WITH
       Remessas <- [sessao : Sessoes, aceitos : SUBSET (1 .. MaxSequencia),
                    rejeitados : SUBSET (1 .. MaxSequencia)],
       Recusas <- {"entrada_invalida", "nao_autenticado", "permissao_negada", "interna"},
       Tolerancia <- 0, PausaMaxima <- 0, Desvios <- {0}, relogio <- 0, degraus <- 0

SemPedido == [id |-> 0, sessao |-> 0, envelopes |-> {}, credencial |-> Ausente]

\* A node numbers its envelopes in the order of their uptime.
Envelope(n, c) == [seq |-> n, ligado |-> n, conteudo |-> c]

Chaves(s, E) == {[sessao |-> s, seq |-> e.seq] : e \in E}

ChavesPossiveis == [sessao : Sessoes, seq : 1 .. MaxSequencia]

\* Every number some session gave.
Emitidas == {chave \in ChavesPossiveis : chave.seq <= emitidos[chave.sessao]}

\* What the node still holds.
Retidas == Chaves(sessao, guardados \cup espera.envelopes)

\* An envelope whose class may lose its oldest.
Descartavel(e) ==
  PoliticaDeSaturacao[Definicoes[e.conteudo.tipo]] = "descartar_mais_antigo"

\* abrirEspaco: samples leave before events, and the older one first.
SaiAntes(x, y) ==
  IF Descartavel(x) = Descartavel(y) THEN x.seq < y.seq ELSE Descartavel(x)

\* Mutation: nobody makes room.
SobraInteira(E, k) == E

\* What is left of E once it fits in k.
Sobra(E, k) ==
  {e \in E : Cardinality({x \in E \ {e} : SaiAntes(e, x)}) < k}

\* Mutation: the newest envelopes first.
LoteMaisNovo(E) ==
  {e \in E : Cardinality({x \in E : x.seq > e.seq}) < EnvelopesPorRemessa}

\* The oldest envelopes of E, as many as a batch takes.
Lote(E) ==
  {e \in E : Cardinality({x \in E : x.seq < e.seq}) < EnvelopesPorRemessa}

\* despachar: what travels.
Remessa(p, corpo) ==
  [corpo |-> corpo, versao |-> VersaoDoEsquema, dispositivo |-> Dispositivo,
   sessao |-> p.sessao, envelopes |-> p.envelopes]

\* duravel_ate_a_sequencia: the greatest number GravarLote saw, or none.
DuravelAte(r) ==
  IF r.aceitos = {} THEN 0 ELSE CHOOSE n \in r.aceitos : \A m \in r.aceitos : m <= n

Init ==
  /\ G!Init
  /\ servindo = [t \in Tratadores |-> SemPedido]
  /\ rede = {}
  /\ sessao = 1
  /\ emitidos = [s \in Sessoes |-> 0]
  /\ guardados = {}
  /\ espera = SemPedido
  /\ credencial \in Credenciais
  /\ entregues = {}
  /\ recusados = {}
  /\ perdidos = {}
  /\ apagados = {}

\* EstimarInstanteDaAmostra: an uptime before that of the anchor has no instant.
Datavel(linha) == linha.seq >= ancoras[linha.sessao].ligado

\* E wants to be in the buffer, whose policy may push some out.
Guardar(E, k) ==
  perdidos' = perdidos \cup Chaves(sessao, E \ Sobra(E, k))

-----------------------------------------------------------------------------
(* The node.                                                               *)

\* A new envelope: room is made first, so it is never the one to leave.
Amostrar ==
  /\ emitidos[sessao] < MaxSequencia
  /\ Cardinality(Emitidas) < MaxEnvelopes
  /\ \E c \in Conteudos :
       LET n == emitidos[sessao] + 1 IN
       /\ emitidos' = [emitidos EXCEPT ![sessao] = n]
       /\ guardados' = Sobra(guardados, Capacidade - 1) \cup {Envelope(n, c)}
  /\ Guardar(guardados, Capacidade - 1)
  /\ UNCHANGED <<oGateway, servindo, rede, sessao, espera, credencial,
                 entregues, recusados, apagados>>

Vivos == {p.id : p \in rede \cup {espera} \cup {servindo[t] : t \in Tratadores}}

Enviar ==
  /\ espera = SemPedido
  /\ guardados # {}
  /\ \E id \in (1 .. MaxPedidos) \ Vivos :
       /\ \A outro \in (1 .. MaxPedidos) \ Vivos : id <= outro
       /\ espera' = [id |-> id, sessao |-> sessao, envelopes |-> Lote(guardados),
                     credencial |-> credencial]
  /\ rede' = rede \cup {espera'}
  /\ guardados' = guardados \ Lote(guardados)
  /\ UNCHANGED <<oGateway, servindo, sessao, emitidos, credencial, historia>>

\* Mutation: a batch that came back over a full buffer is not counted.
DevolverSemContar ==
  /\ espera' = SemPedido
  /\ guardados' = Sobra(guardados \cup espera.envelopes, Capacidade)
  /\ UNCHANGED <<entregues, recusados, perdidos>>

\* devolverERecuar.
Devolver ==
  /\ espera' = SemPedido
  /\ guardados' = Sobra(guardados \cup espera.envelopes, Capacidade)
  /\ Guardar(guardados \cup espera.envelopes, Capacidade)
  /\ UNCHANGED <<entregues, recusados>>

\* No answer within the time limit, or the connection breaks.
Desistir ==
  /\ espera # SemPedido
  /\ Devolver
  /\ UNCHANGED <<oGateway, servindo, rede, sessao, emitidos, credencial, apagados>>

\* Mutation: what the answer names as rejected is taken for confirmed.
ConfirmadaInteira(rejeitados) ==
  /\ espera' = SemPedido
  /\ entregues' = entregues \cup Chaves(espera.sessao, espera.envelopes)
  /\ UNCHANGED <<recusados, guardados, perdidos>>

\* The batch is settled; what the answer names as rejected is thrown away.
Confirmada(rejeitados) ==
  LET fora == {e \in espera.envelopes : e.seq \in rejeitados} IN
  /\ espera' = SemPedido
  /\ entregues' = entregues \cup Chaves(espera.sessao, espera.envelopes \ fora)
  /\ recusados' = recusados \cup {[sessao |-> espera.sessao, envelope |-> e] : e \in fora}
  /\ UNCHANGED <<guardados, perdidos>>

Descartada ==
  /\ espera' = SemPedido
  /\ recusados' = recusados \cup
       {[sessao |-> espera.sessao, envelope |-> e] : e \in espera.envelopes}
  /\ UNCHANGED <<guardados, entregues, perdidos>>

\* despachar and tratarFalhaDeDespacho, on the answer.
Tratar(categoria, rejeitados) ==
  \/ categoria = "nenhuma" /\ Confirmada(rejeitados)
  \/ Descarta(categoria) /\ Descartada
  \/ categoria # "nenhuma" /\ ~Descarta(categoria) /\ Devolver

\* The node loses its memory and starts again, under a new boot session.
Religar ==
  /\ sessao < MaxPartidas
  /\ sessao' = sessao + 1
  /\ apagados' = apagados \cup Retidas
  /\ guardados' = {}
  /\ espera' = SemPedido
  /\ UNCHANGED <<oGateway, servindo, rede, emitidos, credencial,
                 entregues, recusados, perdidos>>

\* Somebody issues the certificate again.
CorrigirCredencial ==
  /\ credencial # Dispositivo
  /\ credencial' = Dispositivo
  /\ UNCHANGED <<oGateway, servindo, rede, sessao, emitidos, guardados, espera, historia>>

-----------------------------------------------------------------------------
(* The network and the gateway.                                            *)

Sumir(p) ==
  /\ p \in rede
  /\ rede' = rede \ {p}
  /\ UNCHANGED <<oGateway, servindo, oNo, historia>>

\* receberRemessa.  Only the body of a request its node gave up may be cut short.
Atender(t, p) ==
  /\ p \in rede
  /\ rede' = rede \ {p}
  /\ servindo' = [servindo EXCEPT ![t] = p]
  /\ \E corpo \in {"integro"} \cup (IF p = espera THEN {} ELSE {"cortado"}) :
       LET r == Remessa(p, corpo)
           categoria == Veredito(r, p.credencial)
       IN  \/ categoria = "nenhuma" /\ G!Receber(t, Decodificada(r))
           \/ categoria # "nenhuma" /\ G!Recusar(t, Decodificada(r), categoria)
  /\ UNCHANGED <<oNo, historia>>

\* Every step of the goroutine but the answer.
Servir(t) ==
  /\ ~G!EmFase(t, "responder")
  /\ G!Trabalhar(t)
  /\ UNCHANGED <<servindo, rede, oNo, historia>>

FalharNoDiario(t) ==
  /\ G!FalharNoDiario(t)
  /\ UNCHANGED <<servindo, rede, oNo, historia>>

\* The answer leaves.
Responder(t) ==
  /\ G!Responder(t)
  /\ servindo' = [servindo EXCEPT ![t] = SemPedido]
  /\ UNCHANGED <<rede, sessao, emitidos, credencial, apagados>>

\* The node still waits for it, and gets it.
Chegar(t) ==
  /\ servindo[t] = espera
  /\ Responder(t)
  /\ Tratar(CategoriaDoStatus(StatusDe[tratador[t].categoria]), tratador[t].remessa.rejeitados)

\* It is lost, or nobody waits for it.
Extraviar(t) ==
  /\ Responder(t)
  /\ UNCHANGED <<guardados, espera, entregues, recusados, perdidos>>

Queda ==
  /\ G!Queda
  /\ servindo' = [t \in Tratadores |-> SemPedido]
  /\ UNCHANGED <<rede, oNo, historia>>

-----------------------------------------------------------------------------
DaOrigem == Amostrar \/ Enviar \/ Desistir \/ Religar \/ CorrigirCredencial

DoGateway ==
  \/ \E t \in Tratadores :
       \/ \E p \in rede : Atender(t, p)
       \/ Servir(t) \/ FalharNoDiario(t) \/ Chegar(t) \/ Extraviar(t)
  \/ Queda

Next == DaOrigem \/ DoGateway \/ \E p \in rede : Sumir(p)

Spec == Init /\ [][Next]_vars

\* Nobody serves the request any more, nor ever will.
PedidoPerdido == espera \notin rede \cup {servindo[t] : t \in Tratadores}

\* The scheduler runs every goroutine, as in Ingestao; what is on the wire is
\* taken up or lost; the loop of the node sends what it has, and its time limit
\* ends a wait that nothing else can end; somebody mends the credential.
Justica ==
  /\ \A t \in Tratadores : SF_vars(Servir(t) \/ Chegar(t) \/ Extraviar(t))
  /\ WF_vars(\E p \in rede : Sumir(p) \/ \E t \in Tratadores : Atender(t, p))
  /\ WF_vars(Enviar)
  /\ WF_vars(PedidoPerdido /\ Desistir)
  /\ WF_vars(CorrigirCredencial)

SpecJusta == Spec /\ Justica

-----------------------------------------------------------------------------
(* Invariants.                                                             *)

EnvelopesPossiveis == {Envelope(n, c) : n \in 1 .. MaxSequencia, c \in Conteudos}

Pedido ==
  [id : 0 .. MaxPedidos, sessao : 0 .. MaxPartidas, envelopes : SUBSET EnvelopesPossiveis,
   credencial : Credenciais \cup {Dispositivo, Ausente}]

TypeOK ==
  /\ diario \cup confirmados \subseteq ChavesPossiveis
  /\ DOMAIN ancoras \subseteq Sessoes
  /\ conexao \in Tratadores \cup {Livre}
  /\ tratador \in [Tratadores -> G!EstadoDoTratador]
  /\ servindo \in [Tratadores -> Pedido]
  /\ rede \subseteq Pedido
  /\ sessao \in Sessoes
  /\ emitidos \in [Sessoes -> 0 .. MaxSequencia]
  /\ espera \in Pedido
  /\ Cardinality(guardados) <= Capacidade
  /\ entregues \cup perdidos \cup apagados \subseteq ChavesPossiveis
  /\ Chaves(1, {x.envelope : x \in recusados}) \subseteq ChavesPossiveis

\* What the node freed as confirmed is in the journal, whichever copy of the
\* batch was recorded, whatever was given up, repeated, killed or lost.
EntregueEstaNoDiario == entregues \subseteq diario

\* An envelope the node throws away as refused is one whose content the
\* gateway refuses: no time limit, no failure of the gateway and no foreign
\* certificate costs good data.
RecusadoSoInvalido ==
  \A x \in recusados : ~ConteudoAceito(x.envelope.conteudo)

\* A number that is not in the journal is accounted for: the node has it, it
\* was refused, the saturation counted it, or it went with the memory.
BuracoTemExplicacao ==
  Emitidas \subseteq diario \cup perdidos \cup apagados \cup Retidas
                     \cup UNION {Chaves(x.sessao, {x.envelope}) : x \in recusados}

\* No row is older than the anchor of its session, which could never date it,
\* unless the saturation took an envelope of that session: batches that were
\* given up and are served late start where the repeated ones start.
LinhaDatavel ==
  \A linha \in diario :
    \/ Datavel(linha)
    \/ \E perdido \in perdidos : perdido.sessao = linha.sessao

-----------------------------------------------------------------------------
(* Action properties.                                                      *)

\* aquisicao.proto: the source may free its buffer up to duravel_ate.  A source
\* that does it, with whatever it holds when the answer leaves, frees nothing
\* but what is in the journal or named as rejected, although the numbers of a
\* batch are not contiguous.
DuravelAteNaoMente ==
  [][\A t \in Tratadores, e \in guardados \cup espera.envelopes :
       LET r == tratador[t].remessa IN
       (/\ G!EmFase(t, "responder") /\ tratador'[t] = G!Ocioso /\ execucao' = execucao
        /\ tratador[t].categoria = "nenhuma"
        /\ r.sessao = sessao
        /\ e.seq <= DuravelAte(r) /\ e.seq \notin r.rejeitados)
       => [sessao |-> sessao, seq |-> e.seq] \in diario]_vars

\* no.go on a refused credential or identity: the datum is good, and throwing
\* it away would lose it for a problem that reissuing a certificate solves.
CredencialNaoCustaDado ==
  [][IdentidadeAutenticada(espera.credencial) # "nenhuma" => recusados' = recusados]_vars

\* ConferirIdentidade: a row enters the journal only from a request that came
\* under the certificate of the device it claims, however long the request was
\* on its way and whenever the certificate was mended.
SoODonoGrava ==
  [][\A linha \in diario' \ diario :
       \E t \in Tratadores : servindo[t].credencial = Dispositivo
                              /\ linha \in Chaves(servindo[t].sessao, servindo[t].envelopes)]_vars

-----------------------------------------------------------------------------
(* Liveness.                                                               *)

\* Ingestao, with the requests a node and a network make.
TodaRemessaTemResposta == G!TodaRemessaTemResposta

\* From some time on the request the node waits for is not lost, is served
\* within the time limit, and its answer arrives; the journal does not fail.
RedeVolta ==
  <>[][/\ ~(~PedidoPerdido /\ Desistir)
       /\ ~(espera \in rede /\ Sumir(espera))
       /\ \A t \in Tratadores :
            ~FalharNoDiario(t) /\ ~(servindo[t] = espera /\ Extraviar(t))
            /\ ~(G!Desfazer(t) /\ espera = servindo[t])]_vars

\* Then every envelope gets somewhere, whatever was given up, repeated, served
\* late or refused for its credential before: none waits in the node for ever.
TodoEnvelopeTemDestino ==
  RedeVolta =>
    \A chave \in ChavesPossiveis : chave \in Retidas ~> chave \notin Retidas
=============================================================================
