----------------------------- MODULE Disjuntor -----------------------------
(***************************************************************************)
(* The pipeline of resiliencia.go around the query database: a circuit     *)
(* breaker that decides on the rate of failures of the last calls, around  *)
(* a retry, around a time limit.  One goroutine calls it (the projection). *)
(*                                                                         *)
(* Abstracted: the back-off between attempts and the time limit (an        *)
(* attempt ends in success or in failure), and the wait of the open        *)
(* breaker (it is over or not, by the wall clock).                         *)
(***************************************************************************)
EXTENDS Integers, Sequences, FiniteSets

CONSTANTS
  Tentativas,  \* attempts of one call
  Janela,      \* TamanhoDaJanela
  Minimas,     \* ChamadasMinimasNaJanela
  Falhas,      \* TaxaDeFalhaParaAbrir, as Falhas out of
  De,          \*   De
  MaxRecuos    \* Bound: times the wall clock is set back

ASSUME AjustesValidos ==
  /\ Tentativas \in Nat \ {0}
  /\ Janela \in Nat /\ Minimas \in Nat \ {0} /\ Minimas <= Janela
  /\ Falhas \in Nat \ {0} /\ De \in Nat \ {0} /\ Falhas <= De
  /\ MaxRecuos \in Nat

VARIABLES
  estado,      \* Fechado, Aberto or MeioAberto
  resultados,  \* sliding window: TRUE is success
  vencida,     \* EsperaAntesDeMeioAbrir has passed since abertoDesde
  tentativa,   \* attempt in progress of the call in progress, 0 for none
  recuos,      \* times the wall clock was set back
  \* History.
  desfecho,    \* how the last call ended
  chamadas     \* calls recorded since the breaker last closed, up to Minimas

vars == <<estado, resultados, vencida, tentativa, recuos, desfecho, chamadas>>

Estados == {"fechado", "aberto", "meio_aberto"}

Desfechos == {"nenhum", "sucesso", "falha", "recusada"}

Init ==
  /\ estado = "fechado"
  /\ resultados = <<>>
  /\ vencida = FALSE
  /\ tentativa = 0
  /\ recuos = 0
  /\ desfecho = "nenhum"
  /\ chamadas = 0

\* NovaPipeline, in a process that starts again.
NovaPipeline ==
  /\ estado' = "fechado"
  /\ resultados' = <<>>
  /\ vencida' = FALSE
  /\ tentativa' = 0
  /\ recuos' = 0
  /\ desfecho' = "nenhum"
  /\ chamadas' = 0

FalhasEm(janela) == Cardinality({i \in DOMAIN janela : ~janela[i]})

\* Enough calls in the window, and enough failures among them.
PassouDaTaxa(janela) ==
  /\ Len(janela) >= Minimas
  /\ FalhasEm(janela) * De >= Falhas * Len(janela)

\* The window with one more result; the oldest one leaves when it is full.
Acrescida(janela, sucesso) ==
  LET longa == Append(janela, sucesso) IN
  IF Len(longa) > Janela THEN Tail(longa) ELSE longa

\* transitar: abertoDesde is now.
Transitar(destino) ==
  /\ estado' = destino
  /\ vencida' = IF destino = "aberto" /\ estado # "aberto" THEN FALSE ELSE vencida

\* Mutation: the half-open breaker closes and keeps its window.
RegistrarResultadoSemLimpar(sucesso) ==
  IF estado = "meio_aberto"
  THEN Transitar(IF sucesso THEN "fechado" ELSE "aberto") /\ UNCHANGED resultados
  ELSE /\ resultados' = Acrescida(resultados, sucesso)
       /\ Transitar(IF PassouDaTaxa(resultados') THEN "aberto" ELSE estado)

\* registrarResultado: half-open, the probe decides; otherwise the window does.
RegistrarResultado(sucesso) ==
  IF estado = "meio_aberto"
  THEN /\ Transitar(IF sucesso THEN "fechado" ELSE "aberto")
       /\ resultados' = IF sucesso THEN <<>> ELSE resultados
  ELSE /\ resultados' = Acrescida(resultados, sucesso)
       /\ Transitar(IF PassouDaTaxa(resultados') THEN "aberto" ELSE estado)

\* History: a breaker that closes starts to count again.
Contar ==
  chamadas' = IF estado = "meio_aberto" /\ estado' = "fechado" THEN 0
              ELSE IF chamadas < Minimas THEN chamadas + 1 ELSE chamadas

\* Mutation: autorizar lets the call through without becoming half-open.
AutorizarSemTransitar ==
  /\ tentativa = 0
  /\ estado # "aberto" \/ vencida
  /\ tentativa' = 1
  /\ UNCHANGED <<estado, resultados, vencida, recuos, desfecho, chamadas>>

\* autorizar says yes, and the first attempt starts.
Autorizar ==
  /\ tentativa = 0
  /\ estado # "aberto" \/ vencida
  /\ Transitar(IF estado = "aberto" THEN "meio_aberto" ELSE estado)
  /\ tentativa' = 1
  /\ UNCHANGED <<resultados, recuos, desfecho, chamadas>>

\* autorizar says no: the call fails at once and nothing is recorded.
Recusar ==
  /\ tentativa = 0
  /\ estado = "aberto" /\ ~vencida
  /\ desfecho' = "recusada"
  /\ UNCHANGED <<estado, resultados, vencida, tentativa, recuos, chamadas>>

\* An attempt succeeds, and the call with it.
Suceder ==
  /\ tentativa > 0
  /\ RegistrarResultado(TRUE)
  /\ Contar
  /\ tentativa' = 0
  /\ desfecho' = "sucesso"
  /\ UNCHANGED recuos

\* An attempt fails and another follows, after the back-off.
Retentar ==
  /\ tentativa > 0
  /\ tentativa < Tentativas
  /\ tentativa' = tentativa + 1
  /\ UNCHANGED <<estado, resultados, vencida, recuos, desfecho, chamadas>>

\* The last attempt fails, and the call with it.
Esgotar ==
  /\ tentativa = Tentativas
  /\ RegistrarResultado(FALSE)
  /\ Contar
  /\ tentativa' = 0
  /\ desfecho' = "falha"
  /\ UNCHANGED recuos

\* The wait is over, by the wall clock.
VencerEspera ==
  /\ estado = "aberto"
  /\ ~vencida
  /\ vencida' = TRUE
  /\ UNCHANGED <<estado, resultados, tentativa, recuos, desfecho, chamadas>>

\* The wall clock is set back: the wait is not over any more.
RecuarRelogio ==
  /\ estado = "aberto"
  /\ vencida
  /\ recuos < MaxRecuos
  /\ vencida' = FALSE
  /\ recuos' = recuos + 1
  /\ UNCHANGED <<estado, resultados, tentativa, desfecho, chamadas>>

Next ==
  \/ Autorizar \/ Recusar \/ Suceder \/ Retentar \/ Esgotar
  \/ VencerEspera \/ RecuarRelogio

Spec == Init /\ [][Next]_vars

\* Time passes, every attempt ends, and the projection calls in every cycle.
SpecJusta ==
  /\ Spec
  /\ WF_vars(VencerEspera) /\ WF_vars(Suceder \/ Retentar \/ Esgotar)
  /\ WF_vars(Autorizar)

-----------------------------------------------------------------------------
TypeOK ==
  /\ estado \in Estados
  /\ resultados \in Seq(BOOLEAN)
  /\ Len(resultados) <= Janela
  /\ vencida \in BOOLEAN
  /\ tentativa \in 0 .. Tentativas
  /\ recuos \in 0 .. MaxRecuos
  /\ desfecho \in Desfechos
  /\ chamadas \in 0 .. Minimas

\* A closed breaker is one whose window is below the rate: the failures that
\* opened it never count again after a probe succeeded.
FechadoAbaixoDaTaxa == estado = "fechado" => ~PassouDaTaxa(resultados)

\* The dependency sees no attempt while the breaker protects it; a half-open
\* breaker has its one probe in progress, and nothing else leaves it.
AbertoNaoTenta ==
  /\ estado = "aberto" => tentativa = 0
  /\ estado = "meio_aberto" => tentativa > 0

\* The breaker opens on evidence: enough calls ended since it last closed, and
\* what was recorded before a recovery is not among them.
AbreComEvidencia == estado # "fechado" => chamadas >= Minimas

\* The breaker does not stay open for ever: a call that keeps being made reaches
\* the dependency again.
SempreSonda == estado = "aberto" ~> estado = "meio_aberto"
=============================================================================
