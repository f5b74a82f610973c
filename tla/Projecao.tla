------------------------------ MODULE Projecao ------------------------------
(***************************************************************************)
(* The projection loop (projecao/servico.go): one goroutine reads the      *)
(* journal from its cursor on, writes what decodes to the query database   *)
(* through the pipeline (module Disjuntor), and then moves the cursor.     *)
(* Around it the ingestion appends rows, the pruning removes old ones, and *)
(* the process dies and starts again.                                      *)
(*                                                                         *)
(* Abstracted: a row is its id and whether its content decodes; the query  *)
(* database is the set of rows it holds (ON CONFLICT DO NOTHING makes a    *)
(* second writing of a row no writing at all); the age of a row, which the *)
(* wall clock gives and which need not grow with the id.                   *)
(***************************************************************************)
EXTENDS Integers, Sequences, FiniteSets

CONSTANTS
  RegistrosPorCiclo,                            \* rows one cycle reads
  Tentativas, Janela, Minimas, Falhas, De,      \* Ajustes of the pipeline
  MaxRecuos,                                    \* Bound of the module Disjuntor
  MaxRegistros,                                 \* Bound: rows ever written
  MaxQuedas                                     \* Bound: restarts

ASSUME LimitesValidos ==
  /\ RegistrosPorCiclo \in Nat \ {0}
  /\ Tentativas \in Nat \ {0}
  /\ MaxRegistros \in Nat
  /\ MaxQuedas \in Nat

VARIABLES
  ultimo,      \* greatest id given to a row
  legiveis,    \* ids of the rows whose content decodes
  linhas,      \* ids of the rows in the journal
  cursor,      \* ultimo_id_projetado, 0 when there is no row for it
  destino,     \* ids of the rows in the query database
  laco,        \* where the loop is
  lido,        \* ultimoID: the cursor, as read
  lote,        \* ids of the rows read
  poda,        \* menorCursor of Podar, as read; 0 when it is not running
  rastreador,  \* state of the Rastreador
  quedas,      \* restarts so far
  estado, resultados, vencida, tentativa, recuos, desfecho, chamadas  \* the pipeline

doDiario == <<ultimo, legiveis, linhas>>
doLaco == <<laco, lido, lote>>
doDisjuntor == <<estado, resultados, vencida, tentativa, recuos, desfecho, chamadas>>
vars == <<ultimo, legiveis, linhas, cursor, destino, laco, lido, lote, poda, rastreador,
          quedas, estado, resultados, vencida, tentativa, recuos, desfecho, chamadas>>

D == INSTANCE Disjuntor

ASSUME PipelineValida == D!AjustesValidos

EstadosOperacionais == {"conectado", "reconectando", "degradado"}

\* The greatest of a set of ids, 0 of none.
MaiorId(S) == IF S = {} THEN 0 ELSE CHOOSE n \in S : \A m \in S : m <= n

Init ==
  /\ ultimo = 0
  /\ legiveis = {}
  /\ linhas = {}
  /\ cursor = 0
  /\ destino = {}
  /\ laco = "espera"
  /\ lido = 0
  /\ lote = {}
  /\ poda = 0
  /\ rastreador = "conectado"
  /\ quedas = 0
  /\ D!Init

-----------------------------------------------------------------------------
(* The journal: GravarLote of the ingestion, and Podar.                    *)

\* A row is appended.  With one connection, the order of the ids is the order
\* in which the rows become visible.
Gravar ==
  /\ ultimo < MaxRegistros
  /\ ultimo' = ultimo + 1
  /\ linhas' = linhas \cup {ultimo'}
  /\ legiveis' \in {legiveis, legiveis \cup {ultimo'}}
  /\ UNCHANGED <<cursor, destino, doLaco, poda, rastreador, quedas, doDisjuntor>>

\* Podar reads the smallest cursor; without one, it removes nothing.
LerMenorCursor ==
  /\ poda = 0
  /\ cursor > 0
  /\ poda' = cursor
  /\ UNCHANGED <<doDiario, cursor, destino, doLaco, rastreador, quedas, doDisjuntor>>

\* Mutation: the age alone decides.
PodarPorIdade ==
  /\ poda > 0
  /\ \E velhas \in SUBSET linhas : linhas' = linhas \ velhas
  /\ poda' = 0
  /\ UNCHANGED <<ultimo, legiveis, cursor, destino, doLaco, rastreador, quedas, doDisjuntor>>

\* The rows that are old and that the cursor, as it was read, has passed.
Podar ==
  /\ poda > 0
  /\ \E velhas \in SUBSET {id \in linhas : id <= poda} : linhas' = linhas \ velhas
  /\ poda' = 0
  /\ UNCHANGED <<ultimo, legiveis, cursor, destino, doLaco, rastreador, quedas, doDisjuntor>>

-----------------------------------------------------------------------------
(* rodarCiclo.                                                             *)

LerCursor ==
  /\ laco = "espera"
  /\ laco' = "cursor_lido"
  /\ lido' = cursor
  /\ UNCHANGED <<doDiario, cursor, destino, lote, poda, rastreador, quedas, doDisjuntor>>

\* LerAPartirDe: the first rows after `lido`.
Pendentes ==
  {id \in linhas : id > lido /\ Cardinality({m \in linhas : lido < m /\ m < id}) < RegistrosPorCiclo}

\* Nothing to project counts as connected.
NadaPendente ==
  /\ laco = "cursor_lido"
  /\ Pendentes = {}
  /\ rastreador' = "conectado"
  /\ laco' = "espera"
  /\ UNCHANGED <<doDiario, cursor, destino, lido, lote, poda, quedas, doDisjuntor>>

\* Mutation: the cursor moves as soon as the rows are read.
LerRegistrosAvancando ==
  /\ laco = "cursor_lido"
  /\ Pendentes # {}
  /\ lote' = Pendentes
  /\ cursor' = MaiorId(Pendentes)
  /\ laco' = "executando"
  /\ UNCHANGED <<doDiario, destino, lido, poda, rastreador, quedas, doDisjuntor>>

LerRegistros ==
  /\ laco = "cursor_lido"
  /\ Pendentes # {}
  /\ lote' = Pendentes
  /\ laco' = "executando"
  /\ UNCHANGED <<doDiario, cursor, destino, lido, poda, rastreador, quedas, doDisjuntor>>

\* A read of the journal fails: the cycle ends, and the Rastreador is not told.
FalharLeitura ==
  /\ laco = "cursor_lido"
  /\ laco' = "espera"
  /\ UNCHANGED <<doDiario, cursor, destino, lido, lote, poda, rastreador, quedas, doDisjuntor>>

\* converter drops what does not decode; LinhasDe makes rows of the rest.
Linhas == lote \cap legiveis

\* One transaction of Projetar: all of the rows, or none.
Projetar == destino' = destino \cup Linhas

\* Mutation: every failure of the database is a reconnection.
AoFalharSemAlarme ==
  /\ rastreador' = "reconectando"
  /\ laco' = "espera"

\* aoFalhar: what is told depends on the breaker, as the call left it.
AoFalhar ==
  /\ rastreador' = IF estado' = "aberto" THEN "degradado" ELSE "reconectando"
  /\ laco' = "espera"

Autorizar ==
  /\ laco = "executando"
  /\ D!Autorizar
  /\ UNCHANGED <<doDiario, cursor, destino, doLaco, poda, rastreador, quedas>>

RecusarChamada ==
  /\ laco = "executando"
  /\ D!Recusar
  /\ AoFalhar
  /\ UNCHANGED <<doDiario, cursor, destino, lido, lote, poda, quedas>>

\* An attempt fails; the commit may have reached the database all the same.
\* Without lines Projetar returns at once and cannot fail.
TentarDeNovo ==
  /\ Linhas # {}
  /\ D!Retentar
  /\ UNCHANGED destino \/ Projetar
  /\ UNCHANGED <<doDiario, cursor, doLaco, poda, rastreador, quedas>>

Esgotar ==
  /\ Linhas # {}
  /\ D!Esgotar
  /\ UNCHANGED destino \/ Projetar
  /\ AoFalhar
  /\ UNCHANGED <<doDiario, cursor, lido, lote, poda, quedas>>

Suceder ==
  /\ D!Suceder
  /\ Projetar
  /\ laco' = "avancando"
  /\ UNCHANGED <<doDiario, cursor, lido, lote, poda, rastreador, quedas>>

\* Mutation: ultimoProjetado is set only for a row that decodes.
UltimoLegivel == MaiorId(Linhas)

\* Mutation: the first id of the next cycle.
ProximoAProjetar == MaiorId(lote) + 1

\* ultimoProjetado: the last row read, whether it decoded or not.
UltimoProjetado == MaiorId(lote)

AvancarCursor ==
  /\ laco = "avancando"
  /\ cursor' = UltimoProjetado
  /\ rastreador' = "conectado"
  /\ laco' = "espera"
  /\ UNCHANGED <<doDiario, destino, lido, lote, poda, quedas, doDisjuntor>>

\* AvancarCursor fails: the rows will be projected once more.
FalharAvanco ==
  /\ laco = "avancando"
  /\ laco' = "espera"
  /\ UNCHANGED <<doDiario, cursor, destino, lido, lote, poda, rastreador, quedas, doDisjuntor>>

-----------------------------------------------------------------------------
\* The wait of the open breaker ends, or the wall clock is set back.
Tempo ==
  /\ D!VencerEspera \/ D!RecuarRelogio
  /\ UNCHANGED <<doDiario, cursor, destino, doLaco, poda, rastreador, quedas>>

\* The process dies and starts again: the journal with its cursor and the query
\* database stay, the breaker and the Rastreador are new.
Cair ==
  /\ quedas < MaxQuedas
  /\ quedas' = quedas + 1
  /\ laco' = "espera"
  /\ lido' = 0
  /\ lote' = {}
  /\ poda' = 0
  /\ rastreador' = "conectado"
  /\ D!NovaPipeline
  /\ UNCHANGED <<doDiario, cursor, destino>>

Diario == Gravar \/ LerMenorCursor \/ Podar

Tentativa == TentarDeNovo \/ Esgotar \/ Suceder

Ciclo ==
  \/ LerCursor \/ NadaPendente \/ LerRegistros \/ FalharLeitura
  \/ Autorizar \/ RecusarChamada \/ Tentativa
  \/ AvancarCursor \/ FalharAvanco

Next == Diario \/ Ciclo \/ Tempo \/ Cair

Spec == Init /\ [][Next]_vars

\* The ticker goes on and time passes; the journal can be read and written again
\* and again, and the query database comes back for long enough to answer.
SpecJusta ==
  /\ Spec
  /\ WF_vars(LerCursor) /\ SF_vars(NadaPendente \/ LerRegistros)
  /\ WF_vars(Autorizar) /\ WF_vars(RecusarChamada) /\ WF_vars(Tentativa)
  /\ SF_vars(Suceder) /\ SF_vars(AvancarCursor)
  /\ WF_vars(Tempo)

\* responderSaude, of a gateway that projects.
Saude(diarioResponde) ==
  [journal    |-> IF diarioResponde THEN "available" ELSE "unavailable",
   projection |-> rastreador,
   status     |-> IF diarioResponde THEN 200 ELSE 503]

-----------------------------------------------------------------------------
(* Invariants.                                                             *)

TypeOK ==
  /\ ultimo \in Nat
  /\ legiveis \subseteq 1 .. ultimo
  /\ linhas \subseteq 1 .. ultimo
  /\ cursor \in 0 .. ultimo
  /\ destino \subseteq legiveis
  /\ laco \in {"espera", "cursor_lido", "executando", "avancando"}
  /\ lido \in 0 .. ultimo
  /\ lote \subseteq 1 .. ultimo
  /\ poda \in 0 .. ultimo
  /\ rastreador \in EstadosOperacionais
  /\ quedas \in Nat

\* The cursor never passes a row that the query database does not have, unless
\* it does not decode: a call that failed, a commit whose answer was lost or a
\* restart before AvancarCursor costs a repetition, never a row.
CursorNaoPulaNada == \A id \in legiveis : id <= cursor => id \in destino

\* The journal is not pruned of a row that is nowhere else.
PodaNaoPerde == \A id \in legiveis : id \in linhas \/ id \in destino

\* After a call that failed or was refused, what monitoring is told says so, and
\* says which of the two, until a later call has succeeded: what is still pending
\* cannot go away and pass for a connection.  It is never told as an outage of
\* the acquisition.
FalhaFicaVisivel ==
  laco # "avancando" /\ tentativa = 0 /\ desfecho \in {"falha", "recusada"} =>
    /\ Saude(TRUE).projection = IF estado = "aberto" THEN "degradado" ELSE "reconectando"
    /\ Saude(TRUE).status = 200

-----------------------------------------------------------------------------
(* Action properties and liveness.                                         *)

\* The cursor never goes back, not even over rows that do not decode.
CursorSoAvanca == [][cursor' >= cursor]_vars

\* Every row that decodes reaches the query database, past rows that do not,
\* failures, refusals and restarts.
TudoChegaAoDestino ==
  \A id \in 1 .. MaxRegistros : id \in legiveis ~> id \in destino

-----------------------------------------------------------------------------
(* What comments say, and the code does not do.                            *)

\* servico.go on a row that does not decode: the raw row stays in the journal.
IlegivelPermanece == 1 .. ultimo \subseteq legiveis \cup linhas
=============================================================================
