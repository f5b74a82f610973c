------------------------------ MODULE Ingestao ------------------------------
(***************************************************************************)
(* The acquisition path of the gateway (ingressohttp, codecdefio,          *)
(* ingestao, diariosqlite): one goroutine per request reads the anchor of  *)
(* the boot session, creates it or checks the wall clock against it, and   *)
(* writes the batch in one transaction before it answers.  They share the  *)
(* one connection of the journal.  The process may be killed at any point. *)
(*                                                                         *)
(* Abstracted: the bytes of a request (a batch is the numbers the codec    *)
(* accepts and those it refuses), the two clocks (only their difference is *)
(* ever used), the uptime (a node numbers its envelopes in the order of    *)
(* their uptime, so the number stands for it).                             *)
(***************************************************************************)
EXTENDS Integers, FiniteSets

CONSTANTS
  Sessoes,       \* boot sessions, each of one device
  Tratadores,    \* goroutines of the HTTP server
  Livre,         \* nobody holds the connection
  Remessas,      \* batches a source may send
  Recusas,       \* categories a whole batch may be refused with
  Tolerancia,    \* ToleranciaDeDegrauPadrao
  PausaMaxima,   \* Assumed: longest pause between the two reads of the clock
  Desvios,       \* Bound: values of wall clock minus monotonic clock
  MaxExecucao    \* Bound: runs of the process

ASSUME RemessasValidas ==
  \A r \in Remessas :
    /\ r.sessao \in Sessoes
    /\ r.aceitos \in SUBSET Nat
    /\ r.rejeitados \in SUBSET Nat

ASSUME RecusasValidas ==
  Recusas \subseteq {"entrada_invalida", "nao_autenticado", "permissao_negada", "interna"}

ASSUME RelogioValido ==
  /\ Tolerancia \in Nat
  /\ PausaMaxima \in Nat
  /\ Desvios \subseteq Int
  /\ MaxExecucao \in Nat

ASSUME ConexaoLivre == Livre \notin Tratadores

VARIABLES
  diario,      \* keys of the rows of the journal
  ancoras,     \* anchor of each session that has one
  conexao,     \* who holds the only connection inside a transaction
  tratador,    \* the request each goroutine is at
  relogio,     \* wall clock minus monotonic clock, in this run
  execucao,    \* idDaExecucao
  \* History.
  degraus,     \* sum of the steps the wall clock made
  confirmados  \* keys some answer has called durable

oDiario == <<diario, ancoras>>
oRelogio == <<relogio, execucao, degraus>>
vars == <<diario, ancoras, conexao, tratador, relogio, execucao, degraus, confirmados>>

Fases == {"livre", "ler_ancora", "ancorar", "gravar_ancora", "conferir",
          "gravar", "transacao", "responder"}

\* Categories of the failures a request can end with, and the success.
Categorias == {"nenhuma", "entrada_invalida", "nao_autenticado",
               "permissao_negada", "interna"}

\* What ancorarSessao says of the clock.
Vereditos == {"sem_verificacao", "confiavel", "suspeito"}

\* ligado: uptime of the anchor; base: wall clock minus monotonic clock, as
\* read; execucao: the run it was read in; degraus: history, the steps so far.
Ancora == [ligado : Nat, base : Int, execucao : Nat, degraus : Int]

NenhumaRemessa == [sessao |-> Livre, aceitos |-> {}, rejeitados |-> {}]

NenhumaAncora == [ligado |-> 0, base |-> 0, execucao |-> 0, degraus |-> 0]

Ocioso == [fase |-> "livre", remessa |-> NenhumaRemessa, ancora |-> NenhumaAncora,
           veredito |-> "sem_verificacao", degrau |-> 0, categoria |-> "nenhuma"]

\* The keys of idempotence of the accepted envelopes of a batch.
Chaves(r) == {[sessao |-> r.sessao, seq |-> n] : n \in r.aceitos}

\* Mutation: an envelope the codec refused is recorded as well.
TodasAsLinhas(r) == {[sessao |-> r.sessao, seq |-> n] : n \in r.aceitos \cup r.rejeitados}

\* The rows GravarLote inserts.
Linhas(r) == Chaves(r)

\* envelopes[0]: a batch travels in the order of its numbers.
Primeiro(r) == CHOOSE n \in r.aceitos : \A m \in r.aceitos : n <= m

Absoluto(n) == IF n < 0 THEN -n ELSE n

Init ==
  /\ diario = {}
  /\ ancoras = [s \in {} |-> NenhumaAncora]
  /\ conexao = Livre
  /\ tratador = [t \in Tratadores |-> Ocioso]
  /\ relogio \in Desvios
  /\ execucao = 1
  /\ degraus = 0
  /\ confirmados = {}

EmFase(t, fase) == tratador[t].fase = fase

Avancar(t, fase) == tratador' = [tratador EXCEPT ![t].fase = fase]

Falhar(t, categoria) ==
  tratador' = [tratador EXCEPT ![t].fase = "responder", ![t].categoria = categoria,
                               ![t].ancora = NenhumaAncora]

\* A statement outside a transaction waits for the connection and gives it back.
ComConexao(t, fase) == EmFase(t, fase) /\ conexao = Livre

-----------------------------------------------------------------------------
(* receberRemessa, up to the call of Ingerir.                              *)

\* The batch decodes and the identity matches.  Ingerir answers a batch with no
\* accepted envelope without touching the journal.
Receber(t, r) ==
  /\ EmFase(t, "livre")
  /\ tratador' = [tratador EXCEPT ![t] =
       [Ocioso EXCEPT !.fase = IF r.aceitos = {} THEN "responder" ELSE "ler_ancora",
                      !.remessa = r]]
  /\ UNCHANGED <<oDiario, conexao, oRelogio, confirmados>>

\* The body, the decoder or the identity refuses the whole batch.
Recusar(t, r, categoria) ==
  /\ EmFase(t, "livre")
  /\ tratador' = [tratador EXCEPT ![t] =
       [Ocioso EXCEPT !.fase = "responder", !.remessa = r, !.categoria = categoria]]
  /\ UNCHANGED <<oDiario, conexao, oRelogio, confirmados>>

-----------------------------------------------------------------------------
(* ancorarSessao.                                                          *)

\* Mutation: an anchor is an anchor, whichever run read it.
ComparavelSempre(a) == TRUE

\* DaExecucaoAtual: monotonic readings of two runs have nothing in common.
DaExecucaoAtual(a) == a.execucao = execucao

LerAncora(t) ==
  /\ ComConexao(t, "ler_ancora")
  /\ LET s == tratador[t].remessa.sessao IN
     IF s \notin DOMAIN ancoras THEN Avancar(t, "ancorar")
     ELSE IF DaExecucaoAtual(ancoras[s])
     THEN tratador' = [tratador EXCEPT ![t].fase = "conferir", ![t].ancora = ancoras[s]]
     ELSE Avancar(t, "gravar")
  /\ UNCHANGED <<oDiario, conexao, oRelogio, confirmados>>

\* The wall clock is read, then the monotonic one, at most PausaMaxima later; a
\* step of the wall clock in between counts as one made just after.
LerRelogio(t) ==
  /\ EmFase(t, "ancorar")
  /\ \E pausa \in 0 .. PausaMaxima :
       tratador' = [tratador EXCEPT ![t].fase = "gravar_ancora",
         ![t].ancora = [ligado |-> Primeiro(tratador[t].remessa), base |-> relogio - pausa,
                        execucao |-> execucao, degraus |-> degraus]]
  /\ UNCHANGED <<oDiario, conexao, oRelogio, confirmados>>

\* Mutation: ON CONFLICT DO UPDATE.
AncorasComTroca(s, a) ==
  [x \in DOMAIN ancoras \cup {s} |-> IF x = s THEN a ELSE ancoras[x]]

\* ON CONFLICT DO NOTHING: the first anchor of a session stays.
AncorasCom(s, a) ==
  [x \in DOMAIN ancoras \cup {s} |-> IF x \in DOMAIN ancoras THEN ancoras[x] ELSE a]

GravarAncora(t) ==
  /\ ComConexao(t, "gravar_ancora")
  /\ ancoras' = AncorasCom(tratador[t].remessa.sessao, tratador[t].ancora)
  /\ tratador' = [tratador EXCEPT ![t].fase = "gravar", ![t].ancora = NenhumaAncora]
  /\ UNCHANGED <<diario, conexao, oRelogio, confirmados>>

\* VerificarDegrauDeRelogio: how far the clocks came apart since the anchor.
Conferir(t) ==
  /\ EmFase(t, "conferir")
  /\ \E pausa \in 0 .. PausaMaxima :
       LET a == tratador[t].ancora
           desvio == (relogio - pausa) - a.base
       IN  tratador' = [tratador EXCEPT ![t].fase = "gravar",
             ![t].veredito = IF Absoluto(desvio) > Tolerancia THEN "suspeito" ELSE "confiavel",
             ![t].degrau = degraus - a.degraus, ![t].ancora = NenhumaAncora]
  /\ UNCHANGED <<oDiario, conexao, oRelogio, confirmados>>

-----------------------------------------------------------------------------
(* GravarLote, and the answer.                                             *)

AbrirTransacao(t) ==
  /\ ComConexao(t, "gravar")
  /\ conexao' = t
  /\ Avancar(t, "transacao")
  /\ UNCHANGED <<oDiario, oRelogio, confirmados>>

\* Every envelope inserted, ON CONFLICT DO NOTHING, and the commit.
Confirmar(t) ==
  /\ EmFase(t, "transacao")
  /\ diario' = diario \cup Linhas(tratador[t].remessa)
  /\ conexao' = Livre
  /\ Avancar(t, "responder")
  /\ UNCHANGED <<ancoras, oRelogio, confirmados>>

\* Mutation: no deferred rollback.
DesfazerSemDevolver(t) ==
  /\ EmFase(t, "transacao")
  /\ Falhar(t, "interna")
  /\ UNCHANGED <<oDiario, conexao, oRelogio, confirmados>>

\* An insertion or the commit fails, or the request was cancelled: rolled back.
Desfazer(t) ==
  /\ EmFase(t, "transacao")
  /\ conexao' = Livre
  /\ Falhar(t, "interna")
  /\ UNCHANGED <<oDiario, oRelogio, confirmados>>

\* Mutation: a failure to write the anchor is logged and the batch goes on.
FalharNoDiarioESeguir(t) ==
  /\ EmFase(t, "gravar_ancora")
  /\ Avancar(t, "gravar")
  /\ UNCHANGED <<oDiario, conexao, oRelogio, confirmados>>

\* A statement fails, or the request was cancelled while it waited.
FalharNoDiario(t) ==
  /\ tratador[t].fase \in {"ler_ancora", "gravar_ancora", "gravar"}
  /\ Falhar(t, "interna")
  /\ UNCHANGED <<oDiario, conexao, oRelogio, confirmados>>

\* Mutation: every answer reads as a confirmation.
ConfirmaSempre(t) == TRUE

Confirma(t) == tratador[t].categoria = "nenhuma"

\* responderConfirmacao or responderFalha; whether it arrives is not known here.
Responder(t) ==
  /\ EmFase(t, "responder")
  /\ confirmados' = IF Confirma(t) THEN confirmados \cup Chaves(tratador[t].remessa)
                    ELSE confirmados
  /\ tratador' = [tratador EXCEPT ![t] = Ocioso]
  /\ UNCHANGED <<oDiario, conexao, oRelogio>>

-----------------------------------------------------------------------------
(* The clock and the process.                                              *)

\* The wall clock is set, by an operator or by a time server.
Degrau ==
  /\ relogio' \in Desvios \ {relogio}
  /\ degraus' = degraus + (relogio' - relogio)
  /\ UNCHANGED <<oDiario, conexao, tratador, execucao, confirmados>>

\* The process dies and starts again: what was not committed is gone, and the
\* monotonic clock counts from a new origin.
Queda ==
  /\ execucao < MaxExecucao
  /\ execucao' = execucao + 1
  /\ relogio' \in Desvios
  /\ tratador' = [t \in Tratadores |-> Ocioso]
  /\ conexao' = Livre
  /\ UNCHANGED <<oDiario, degraus, confirmados>>

-----------------------------------------------------------------------------
\* What a goroutine does with the request it has.
Trabalhar(t) ==
  \/ LerAncora(t) \/ LerRelogio(t) \/ GravarAncora(t) \/ Conferir(t)
  \/ AbrirTransacao(t) \/ Confirmar(t) \/ Desfazer(t) \/ Responder(t)

Next ==
  \/ \E t \in Tratadores :
       \/ Trabalhar(t)
       \/ FalharNoDiario(t)
       \/ \E r \in Remessas :
            \/ Receber(t, r)
            \/ \E c \in Recusas : Recusar(t, r, c)
  \/ Degrau \/ Queda

Spec == Init /\ [][Next]_vars

\* The scheduler runs every goroutine; the pool hands the connection to those
\* who wait, so none waits while others take it for ever.  No statement has to
\* fail.
SpecJusta == Spec /\ \A t \in Tratadores : SF_vars(Trabalhar(t))

-----------------------------------------------------------------------------
(* Invariants.                                                             *)

EstadoDoTratador ==
  [fase : Fases, remessa : Remessas \cup {NenhumaRemessa}, ancora : Ancora,
   veredito : Vereditos, degrau : Int, categoria : Categorias]

\* Whatever some source may send and the codec accepts.
Envelopes == UNION {Chaves(r) : r \in Remessas}

TypeOK ==
  /\ diario \subseteq Envelopes
  /\ DOMAIN ancoras \subseteq Sessoes
  /\ \A s \in DOMAIN ancoras : ancoras[s] \in Ancora
  /\ conexao \in Tratadores \cup {Livre}
  /\ tratador \in [Tratadores -> EstadoDoTratador]
  /\ relogio \in Int
  /\ execucao \in Nat
  /\ degraus \in Int
  /\ confirmados \subseteq Envelopes

\* A transaction is open exactly while its goroutine is in it: the one
\* connection is neither lost nor shared, failures and restarts included.
ConexaoTemDono ==
  \A t \in Tratadores : EmFase(t, "transacao") <=> conexao = t

\* What an answer called durable is in the journal, whatever failed or died
\* since: the source may free its buffer on the strength of it.
ConfirmadoDuravel == confirmados \subseteq diario

\* No row exists whose session has no anchor, so that the instant of every row
\* can be estimated; the anchor comes first even if the process dies in between.
DadoTemAncora == \A linha \in diario : linha.sessao \in DOMAIN ancoras

\* The suspicion is about the wall clock and nothing else: no step, no
\* suspicion, however many times the process restarted in between, and a step
\* larger than the tolerance and the pause never passes unnoticed.
VereditoHonesto ==
  \A t \in Tratadores :
    LET h == tratador[t] IN
    /\ h.veredito = "suspeito" => Absoluto(h.degrau) + PausaMaxima > Tolerancia
    /\ h.veredito = "confiavel" => Absoluto(h.degrau) <= Tolerancia + PausaMaxima

-----------------------------------------------------------------------------
(* Action properties.                                                      *)

\* The anchor of a session never moves: two requests of a new session that
\* both saw none leave the anchor of the one that wrote first.
AncoraImutavel ==
  [][\A s \in DOMAIN ancoras : s \in DOMAIN ancoras' /\ ancoras'[s] = ancoras[s]]_vars

-----------------------------------------------------------------------------
(* Liveness.                                                               *)

\* Every request ends, in an answer or with the process: no goroutine waits for
\* the connection for ever.
TodaRemessaTemResposta ==
  \A t \in Tratadores : ~EmFase(t, "livre") ~> EmFase(t, "livre")
=============================================================================
