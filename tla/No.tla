--------------------------------- MODULE No ---------------------------------
(***************************************************************************)
(* The source node (internal/no/no.go): two goroutines that share the      *)
(* Buffer.  The sampling goroutine stamps envelopes with the next sequence *)
(* number and puts them in the buffer, one mutex acquisition per envelope; *)
(* the dispatch goroutine drains a batch, posts it to the gateway without  *)
(* holding the mutex, and puts the batch back in front when the answer     *)
(* says so.  After cancellation both stop, and what is left is dispatched  *)
(* once more until a failure or until five seconds have passed.            *)
(*                                                                         *)
(* Abstracted: the content of an envelope (Buffer says what is kept), the  *)
(* simulated chamber (a sampling turn may or may not see a change of phase *)
(* and of count), the length of the back-off, the gateway (any answer).    *)
(***************************************************************************)
EXTENDS Buffer

CONSTANTS
  Capacidade,           \* CapacidadeDoBuffer, in items
  EnvelopesPorRemessa,  \* largest batch
  MaxSequencia          \* Bound: the node emits no envelope after this one.

ASSUME ConfiguracaoValida ==
  /\ Capacidade \in Nat \ {0}
  /\ EnvelopesPorRemessa \in Nat \ {0}
  /\ MaxSequencia \in Nat \ {0}

VARIABLES
  itens,        \* n.buffer.itens
  lacuna,       \* n.buffer.lacuna
  sequencia,    \* n.sequencia
  amostragem,   \* the sampling goroutine: "rodando" or "parada"
  pauta,        \* what its current handler has still to put in the buffer
  laco,         \* where the dispatch goroutine is
  lote,         \* `envelopes` of despachar: drained and not yet answered
  vencido,      \* the wall clock says five seconds since ultimoDespacho
  cancelado,    \* ctx.Done is closed
  \* History: the fate of every envelope that left the node.
  entregues,    \* confirmed by the gateway
  recusados,    \* refused for good, discarded by the node
  perdidos,     \* removed by the saturation policy
  denunciados   \* those of `perdidos` counted in a gap already taken

doBuffer == <<itens, lacuna>>
daAmostragem == <<sequencia, amostragem, pauta>>
doDespacho == <<laco, lote, vencido>>
historia == <<entregues, recusados, perdidos, denunciados>>
vars == <<itens, lacuna, sequencia, amostragem, pauta, laco, lote, vencido,
          cancelado, entregues, recusados, perdidos, denunciados>>

Conteudo == [classe : Classes, relata : Nat]

Amostra == [classe |-> "amostra", relata |-> 0]

Evento == [classe |-> "evento", relata |-> 0]

\* LacunaDeBuffer: an event that carries the count of the gap it was made from.
Marcador(l) == [classe |-> "evento", relata |-> l.registros]

\* Mutation: a marker whose message carries no class annotation.
NumeradoSemClasse(conteudo, n) ==
  [seq |-> n, relata |-> conteudo.relata,
   classe |-> IF conteudo.relata > 0 THEN "nao_especificado" ELSE conteudo.classe]

Numerado(conteudo, n) ==
  [seq |-> n, classe |-> conteudo.classe, relata |-> conteudo.relata]

\* Executar enqueues the descriptor, a sample, before it starts the goroutines.
Init ==
  /\ sequencia = 1
  /\ itens = <<Numerado(Amostra, 1)>>
  /\ lacuna = SemLacuna
  /\ amostragem = "rodando"
  /\ pauta = <<>>
  /\ laco = "aguardando"
  /\ lote = <<>>
  /\ vencido = FALSE
  /\ cancelado = FALSE
  /\ entregues = {}
  /\ recusados = {}
  /\ perdidos = {}
  /\ denunciados = {}

\* The saturation policy removed the items in C.
Perder(C) ==
  /\ lacuna' = Acumular(lacuna, C)
  /\ perdidos' = perdidos \cup C

-----------------------------------------------------------------------------
(* The sampling goroutine (lacoDeAmostragem).                              *)

\* A ticker fires and the goroutine is back in its select.  The select may
\* still pick a ticker after the cancellation.
PodeEmitir(conteudos) ==
  /\ amostragem = "rodando"
  /\ pauta = <<>>
  /\ sequencia + Len(conteudos) <= MaxSequencia

\* amostrar: two samples, then the change of phase and the counter if they moved.
Amostrar ==
  \E mudouFase, mudouContagem \in BOOLEAN :
    LET conteudos == <<Amostra, Amostra>>
                     \o (IF mudouFase THEN <<Evento>> ELSE <<>>)
                     \o (IF mudouContagem THEN <<Evento>> ELSE <<>>)
    IN  /\ PodeEmitir(conteudos)
        /\ pauta' = conteudos
        /\ UNCHANGED <<doBuffer, sequencia, amostragem, doDespacho, cancelado, historia>>

\* emitirSaude: takes the gap and clears it, in one critical section; the
\* marker, if there is one, and the health sample are enqueued afterwards.
EmitirSaude ==
  LET conteudos == (IF lacuna.registros = 0 THEN <<>> ELSE <<Marcador(lacuna)>>)
                   \o <<Amostra>>
  IN  /\ PodeEmitir(conteudos)
      /\ pauta' = conteudos
      /\ lacuna' = SemLacuna
      /\ denunciados' = perdidos
      /\ UNCHANGED <<itens, sequencia, amostragem, doDespacho, cancelado,
                     entregues, recusados, perdidos>>

\* emitirDescritor: one sample.
EmitirDescritor ==
  /\ PodeEmitir(<<Amostra>>)
  /\ pauta' = <<Amostra>>
  /\ UNCHANGED <<doBuffer, sequencia, amostragem, doDespacho, cancelado, historia>>

\* enfileirar: the next sequence number, then Acrescentar.
Enfileirar ==
  /\ pauta # <<>>
  /\ sequencia' = sequencia + 1
  /\ itens' = Acrescentar(itens, Numerado(Head(pauta), sequencia + 1), Capacidade)
  /\ Perder(CaidosAoAcrescentar(itens, Capacidade))
  /\ pauta' = Tail(pauta)
  /\ UNCHANGED <<amostragem, doDespacho, cancelado, entregues, recusados, denunciados>>

PararAmostragem ==
  /\ cancelado
  /\ amostragem = "rodando"
  /\ pauta = <<>>
  /\ amostragem' = "parada"
  /\ UNCHANGED <<doBuffer, sequencia, pauta, doDespacho, cancelado, historia>>

-----------------------------------------------------------------------------
(* The dispatch goroutine (lacoDeDespacho).                                *)

\* Five seconds of wall clock since ultimoDespacho.
PrazoVence ==
  /\ ~vencido
  /\ vencido' = TRUE
  /\ UNCHANGED <<doBuffer, daAmostragem, laco, lote, cancelado, historia>>

\* Mutation: the empty buffer is not ruled out first.
DeveDespacharVazio ==
  TemEventoDiscreto(itens) \/ Len(itens) >= EnvelopesPorRemessa \/ vencido

\* Mutation: the five seconds of the sample are not looked at.
DeveDespacharSemPrazo ==
  itens # <<>> /\ (TemEventoDiscreto(itens) \/ Len(itens) >= EnvelopesPorRemessa)

\* deveDespachar.  Its reads of the buffer are separate critical sections; only
\* this goroutine shortens the buffer, so a TRUE answer is one the buffer gives
\* at the last of them.
DeveDespachar ==
  /\ itens # <<>>
  /\ \/ TemEventoDiscreto(itens)
     \/ Len(itens) >= EnvelopesPorRemessa
     \/ vencido

\* The 200 ms ticker fires and deveDespachar answers yes.
Decidir ==
  /\ laco = "aguardando"
  /\ DeveDespachar
  /\ laco' = "decidido"
  /\ UNCHANGED <<doBuffer, daAmostragem, lote, vencido, cancelado, historia>>

\* The first half of despachar: drain, and post what was drained.
Drenar(para) ==
  /\ lote' = Drenados(itens, EnvelopesPorRemessa)
  /\ itens' = SemDrenados(itens, EnvelopesPorRemessa)
  /\ laco' = para
  /\ UNCHANGED <<lacuna, daAmostragem, vencido, cancelado, historia>>

Despachar == laco = "decidido" /\ Drenar("na_rede")

NaRede == laco \in {"na_rede", "ultima_na_rede"}

\* Where the goroutine goes after an answer: in the loop of Executar, or in
\* that of despacharNoDesligamento, which a failure ends.
Depois(noLaco, noDesligamento) ==
  laco' = IF laco = "na_rede" THEN noLaco ELSE noDesligamento

\* 2xx: everything in the batch is settled, the envelopes the gateway names as
\* rejected included.
RespostaConfirma(rejeitados) ==
  /\ NaRede
  /\ entregues' = entregues \cup (Itens(lote) \ rejeitados)
  /\ recusados' = recusados \cup rejeitados
  /\ lote' = <<>>
  /\ vencido' = FALSE
  /\ Depois("aguardando", "desligando")
  /\ UNCHANGED <<doBuffer, daAmostragem, cancelado, perdidos, denunciados>>

\* EntradaInvalida (400, 401, 404 and every other 4xx but 403 and 429): the
\* batch is discarded and nothing is counted in the gap.
RespostaRecusa ==
  /\ NaRede
  /\ recusados' = recusados \cup Itens(lote)
  /\ lote' = <<>>
  /\ Depois("aguardando", "fim")
  /\ UNCHANGED <<doBuffer, daAmostragem, vencido, cancelado, entregues, perdidos, denunciados>>

\* 403, 429, 5xx, no answer, unreadable answer: devolverERecuar.  At shutdown
\* the wait ends the loop, so it is not a state of its own.
RespostaDevolve ==
  /\ NaRede
  /\ itens' = Devolver(itens, lote, Capacidade)
  /\ Perder(CaidosAoDevolver(itens, lote, Capacidade))
  /\ lote' = <<>>
  /\ Depois("recuo", "fim")
  /\ UNCHANGED <<daAmostragem, vencido, cancelado, entregues, recusados, denunciados>>

\* The back-off timer, or the cancellation, ends the wait.
FimDoRecuo ==
  /\ laco = "recuo"
  /\ laco' = "aguardando"
  /\ UNCHANGED <<doBuffer, daAmostragem, lote, vencido, cancelado, historia>>

\* Mutation: the loop insists on emptying the buffer before it stops.
PararDespachoSoVazio ==
  /\ cancelado
  /\ laco = "aguardando"
  /\ itens = <<>>
  /\ laco' = "parado"
  /\ UNCHANGED <<doBuffer, daAmostragem, lote, vencido, cancelado, historia>>

PararDespacho ==
  /\ cancelado
  /\ laco = "aguardando"
  /\ laco' = "parado"
  /\ UNCHANGED <<doBuffer, daAmostragem, lote, vencido, cancelado, historia>>

-----------------------------------------------------------------------------
(* Cancellation and shutdown (Executar after lacos.Wait).                  *)

Cancelar ==
  /\ ~cancelado
  /\ cancelado' = TRUE
  /\ UNCHANGED <<doBuffer, daAmostragem, doDespacho, historia>>

\* Both goroutines have ended: despacharNoDesligamento is entered.
Desligar ==
  /\ amostragem = "parada"
  /\ laco = "parado"
  /\ laco' = "desligando"
  /\ UNCHANGED <<doBuffer, daAmostragem, lote, vencido, cancelado, historia>>

DespacharNoDesligamento ==
  /\ laco = "desligando"
  /\ itens # <<>>
  /\ Drenar("ultima_na_rede")

\* The buffer is empty, or the five seconds of the shutdown are over.
Encerrar ==
  /\ laco = "desligando"
  /\ laco' = "fim"
  /\ UNCHANGED <<doBuffer, daAmostragem, lote, vencido, cancelado, historia>>

Terminado == laco = "fim" /\ UNCHANGED vars

-----------------------------------------------------------------------------
Amostragem ==
  Amostrar \/ EmitirSaude \/ EmitirDescritor \/ Enfileirar \/ PararAmostragem

Confirmacao == \E rejeitados \in SUBSET Itens(lote) : RespostaConfirma(rejeitados)

Resposta == Confirmacao \/ RespostaRecusa \/ RespostaDevolve

Despacho ==
  \/ PrazoVence \/ Decidir \/ Despachar \/ Resposta
  \/ FimDoRecuo \/ PararDespacho

Desligamento ==
  Cancelar \/ Desligar \/ DespacharNoDesligamento \/ Encerrar \/ Terminado

Next == Amostragem \/ Despacho \/ Desligamento

Spec == Init /\ [][Next]_vars

\* What the scheduler, the timers and http.Client.Timeout give: a goroutine
\* that can go on does, time passes, and every request is answered or times
\* out.  A select that finds the cancellation ready again and again picks it.
Justica ==
  /\ WF_vars(Enfileirar) /\ SF_vars(PararAmostragem)
  /\ WF_vars(PrazoVence) /\ WF_vars(Decidir) /\ WF_vars(Despachar)
  /\ WF_vars(Resposta) /\ WF_vars(FimDoRecuo) /\ SF_vars(PararDespacho)
  /\ WF_vars(Desligar) /\ WF_vars(DespacharNoDesligamento \/ Encerrar)

SpecJusta == Spec /\ Justica

-----------------------------------------------------------------------------
(* Invariants.                                                             *)

TypeOK ==
  /\ itens \in Seq(Item)
  /\ lote \in Seq(Item)
  /\ lacuna \in Lacunas
  /\ sequencia \in Nat
  /\ amostragem \in {"rodando", "parada"}
  /\ pauta \in Seq(Conteudo)
  /\ laco \in {"aguardando", "decidido", "na_rede", "recuo", "parado",
               "desligando", "ultima_na_rede", "fim"}
  /\ vencido \in BOOLEAN
  /\ cancelado \in BOOLEAN
  /\ entregues \in SUBSET Item
  /\ recusados \in SUBSET Item
  /\ perdidos \in SUBSET Item
  /\ denunciados \in SUBSET perdidos

\* What is in flight and then what waits, by position.
Fila == lote \o itens

Resolvidos == entregues \cup recusados

\* Nothing overtakes: what waits is in sequence order behind what is in flight,
\* and everything the gateway answered for is older than both.  It is what
\* "put back in FRONT" protects while the sampling goroutine keeps appending.
OrdemDeSequencia ==
  /\ Crescente(Fila)
  /\ \A n \in Seqs(Resolvidos), m \in Seqs(Itens(Fila)) : n < m

\* Every number ever given to an envelope has exactly one fate: it waits, is in
\* flight, was delivered, was refused, or was removed by the saturation policy.
\* A batch is never dropped on the floor between Drenar and Devolver, nor kept
\* in two places.
UmDestinoParaCadaUm ==
  /\ 1 .. sequencia = Seqs(Itens(Fila)) \cup Seqs(Resolvidos) \cup Seqs(perdidos)
  /\ Seqs(entregues) \cap Seqs(recusados) = {}
  /\ Seqs(perdidos) \cap (Seqs(Itens(Fila)) \cup Seqs(Resolvidos)) = {}

\* The buffer never exceeds its capacity, returned batches included, and a
\* batch its size; a batch exists only while its request does.
LimitesDeMemoria ==
  /\ Len(itens) <= Capacidade
  /\ Len(lote) <= EnvelopesPorRemessa
  /\ lote # <<>> => NaRede

\* deveDespachar looked at the buffer and Drenar comes later, without the mutex
\* in between: it still finds something to send.
DecididoTemItem == laco = "decidido" => itens # <<>>

\* The pending gap counts exactly the removals no marker was made from yet.
LacunaContaPerdas == lacuna.registros = Cardinality(perdidos \ denunciados)

\* The interval of the pending gap holds every event removed since the last
\* marker, and is one the gateway's decoder accepts.
LacunaCobreEventos ==
  /\ lacuna.primeira <= lacuna.ultima
  /\ \A n \in Seqs(Eventos(perdidos \ denunciados)) :
       lacuna.primeira <= n /\ n <= lacuna.ultima

-----------------------------------------------------------------------------
(* Action properties.                                                      *)

\* A step removes an event only when no sample that was in the buffer survives
\* the step: age alone never sacrifices an event.
EventoSoCaiSemAmostra ==
  [][\A e \in Eventos(perdidos' \ perdidos), a \in Amostras(Itens(itens')) :
       a.seq > sequencia]_vars

\* The gateway settles what it was sent from the oldest on: a number settled
\* now is larger than every number settled before.
ResolveEmOrdem ==
  [][\A novo \in Seqs(Resolvidos' \ Resolvidos), velho \in Seqs(Resolvidos) :
       velho < novo]_vars

\* Every step of the node is one of the source it promises to be, or none.
O == INSTANCE Origem WITH
       emitidos <- sequencia,
       guardados <- Itens(itens),
       emTransito <- Itens(lote)

ImplementaOrigem == O!Spec

-----------------------------------------------------------------------------
(* Liveness.                                                               *)

\* The gateway does not stay away for ever.
GatewayVolta == SF_vars(Confirmacao)

\* With a gateway that comes back, no envelope waits for ever: it is delivered,
\* refused or removed, unless the node shuts down first.
NinguemEsperaParaSempre ==
  GatewayVolta =>
    \A n \in 1 .. MaxSequencia :
      n \in Seqs(Itens(Fila)) ~> (n \notin Seqs(Itens(Fila)) \/ laco = "fim")

\* A cancelled node ends, whatever the gateway does: neither the back-off nor
\* the last dispatch can hold it.
DesligaSempre == cancelado ~> laco = "fim"

=============================================================================
