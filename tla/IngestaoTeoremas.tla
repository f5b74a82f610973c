-------------------------- MODULE IngestaoTeoremas --------------------------
(***************************************************************************)
(* The acquisition path for every number of goroutines, sessions and       *)
(* restarts, every batch and every movement of the wall clock.  The        *)
(* inductive invariant says, for each place a goroutine can be at, what    *)
(* the journal already holds, and how the reading of an anchor relates to  *)
(* the steps the wall clock made since.                                    *)
(***************************************************************************)
EXTENDS Ingestao, NaturalsInduction, WellFoundedInduction, TLAPS

\* A batch that was accepted has a first envelope.
LEMMA PrimeiroExiste ==
  ASSUME NEW r, r.aceitos \in SUBSET Nat, r.aceitos # {}
  PROVE  Primeiro(r) \in Nat
<1>1. PICK n \in r.aceitos : \A m \in r.aceitos : ~(<<m, n>> \in OpToRel(<, Nat))
  BY NatLessThanWellFounded, WFMin
<1>2. \A m \in Nat, k \in Nat : m < k => <<m, k>> \in OpToRel(<, Nat)
  BY DEF OpToRel
<1>3. \A m \in r.aceitos : ~(m < n)
  BY <1>1, <1>2
<1>4. \A m \in r.aceitos : n <= m
  BY <1>3
<1> QED BY <1>4 DEF Primeiro

-----------------------------------------------------------------------------
(* The inductive invariant.                                                *)

\* Only a goroutine at work has a batch with envelopes.
ComRemessa ==
  \A t \in Tratadores :
    tratador[t].fase \notin {"livre", "responder"} =>
      tratador[t].remessa \in Remessas /\ tratador[t].remessa.aceitos # {}

\* A goroutine about to confirm has its rows in the journal.
ConfirmaOGravado ==
  \A t \in Tratadores :
    EmFase(t, "responder") /\ Confirma(t) => Chaves(tratador[t].remessa) \subseteq diario

\* A goroutine that is past ancorarSessao has an anchor.
GravaAncorado ==
  \A t \in Tratadores :
    tratador[t].fase \in {"gravar", "transacao", "conferir"} =>
      tratador[t].remessa.sessao \in DOMAIN ancoras

\* An anchor was read in this run or in an earlier one, and if in this one, then
\* its reading differs from one made now by the steps since and by the pause.
AncoraFiel(a) ==
  /\ a.execucao <= execucao
  /\ a.execucao = execucao =>
       /\ a.base + (degraus - a.degraus) <= relogio
       /\ relogio <= a.base + (degraus - a.degraus) + PausaMaxima

AncorasFieis ==
  /\ \A s \in DOMAIN ancoras : AncoraFiel(ancoras[s])
  /\ \A t \in Tratadores :
       /\ tratador[t].fase \in {"gravar_ancora", "conferir"} => AncoraFiel(tratador[t].ancora)
       /\ EmFase(t, "conferir") => tratador[t].ancora.execucao = execucao

Inv ==
  /\ TypeOK
  /\ ConexaoTemDono
  /\ ComRemessa
  /\ ConfirmaOGravado
  /\ ConfirmadoDuravel
  /\ GravaAncorado
  /\ DadoTemAncora
  /\ AncorasFieis
  /\ VereditoHonesto

-----------------------------------------------------------------------------
(* Types.                                                                  *)

LEMMA ChavesSaoEnvelopes ==
  ASSUME NEW r \in Remessas
  PROVE  /\ Chaves(r) \subseteq Envelopes
         /\ \A c \in Chaves(r) : c.sessao = r.sessao
         /\ r.sessao \in Sessoes
         /\ r.aceitos \in SUBSET Nat
  BY RemessasValidas DEF Envelopes, Chaves

LEMMA OciosoTipo ==
  /\ Ocioso \in EstadoDoTratador
  /\ NenhumaAncora \in Ancora
  BY DEF Ocioso, NenhumaAncora, Ancora, EstadoDoTratador, Fases, Vereditos, Categorias

LEMMA InvInicial == Init => Inv
<1> SUFFICES ASSUME Init PROVE Inv
  OBVIOUS
<1> USE DEF Init
<1>1. \A t \in Tratadores : tratador[t] = Ocioso
  OBVIOUS
<1>2. relogio \in Int
  BY RelogioValido
<1>3. TypeOK
  BY <1>2, OciosoTipo DEF TypeOK
<1>4. \A t \in Tratadores : /\ tratador[t].fase = "livre"
                            /\ tratador[t].veredito = "sem_verificacao"
  BY <1>1 DEF Ocioso
<1>5. ConexaoTemDono /\ ComRemessa /\ ConfirmaOGravado /\ GravaAncorado /\ VereditoHonesto
  BY <1>4, ConexaoLivre
     DEF ConexaoTemDono, ComRemessa, ConfirmaOGravado, GravaAncorado, VereditoHonesto, EmFase
<1>6. AncorasFieis
  BY <1>4 DEF AncorasFieis, EmFase
<1> QED BY <1>3, <1>5, <1>6 DEF Inv, ConfirmadoDuravel, DadoTemAncora

-----------------------------------------------------------------------------
(* What an action leaves in the goroutine that takes it.                   *)

\* The other goroutines stay where they are.
SoMuda(t, novo) ==
  /\ novo \in EstadoDoTratador
  /\ tratador' = [tratador EXCEPT ![t] = novo]

LEMMA MudaUm ==
  ASSUME TypeOK, NEW t \in Tratadores, NEW novo, SoMuda(t, novo)
  PROVE  /\ tratador' \in [Tratadores -> EstadoDoTratador]
         /\ tratador'[t] = novo
         /\ \A u \in Tratadores : u # t => tratador'[u] = tratador[u]
  BY DEF TypeOK, SoMuda

LEMMA AvancarFatos ==
  ASSUME TypeOK, NEW t \in Tratadores, NEW fase \in Fases, Avancar(t, fase)
  PROVE  \E novo : /\ SoMuda(t, novo)
                   /\ novo.fase = fase
                   /\ novo.remessa = tratador[t].remessa
                   /\ novo.veredito = tratador[t].veredito
                   /\ novo.degrau = tratador[t].degrau
                   /\ novo.ancora = tratador[t].ancora
                   /\ novo.categoria = tratador[t].categoria
<1> DEFINE novo == [tratador[t] EXCEPT !.fase = fase]
<1>1. tratador[t] \in EstadoDoTratador
  BY DEF TypeOK
<1>2. tratador' = [tratador EXCEPT ![t] = novo]
  BY DEF Avancar
<1>3. /\ novo \in EstadoDoTratador
      /\ novo.fase = fase
      /\ novo.remessa = tratador[t].remessa
      /\ novo.veredito = tratador[t].veredito
      /\ novo.degrau = tratador[t].degrau
      /\ novo.ancora = tratador[t].ancora
      /\ novo.categoria = tratador[t].categoria
  BY <1>1 DEF EstadoDoTratador
<1> HIDE DEF novo
<1> QED BY <1>2, <1>3 DEF SoMuda

LEMMA FalharFatos ==
  ASSUME TypeOK, NEW t \in Tratadores, NEW c \in Categorias, Falhar(t, c)
  PROVE  \E novo : /\ SoMuda(t, novo)
                   /\ novo.fase = "responder"
                   /\ novo.categoria = c
                   /\ novo.veredito = tratador[t].veredito
                   /\ novo.degrau = tratador[t].degrau
<1> DEFINE novo == [tratador[t] EXCEPT !.fase = "responder", !.categoria = c,
                                       !.ancora = NenhumaAncora]
<1>1. tratador[t] \in EstadoDoTratador
  BY DEF TypeOK
<1>2. tratador' = [tratador EXCEPT ![t] = novo]
  BY DEF Falhar
<1>3. /\ novo \in EstadoDoTratador
      /\ novo.fase = "responder"
      /\ novo.categoria = c
      /\ novo.veredito = tratador[t].veredito
      /\ novo.degrau = tratador[t].degrau
  BY <1>1, OciosoTipo DEF EstadoDoTratador, Fases
<1> HIDE DEF novo
<1> QED BY <1>2, <1>3 DEF SoMuda

-----------------------------------------------------------------------------
(* One lemma for each action, or for a few that disturb the same parts.    *)

\* A goroutine that starts to answer, with nothing to confirm, keeps everything.
LEMMA PassoFalha ==
  ASSUME Inv, NEW t \in Tratadores, NEW novo, SoMuda(t, novo),
         novo.fase = "responder", novo.categoria # "nenhuma" \/ Chaves(novo.remessa) = {},
         \/ novo.veredito = "sem_verificacao"
         \/ novo.veredito = tratador[t].veredito /\ novo.degrau = tratador[t].degrau,
         UNCHANGED <<oDiario, oRelogio, confirmados>>,
         \/ tratador[t].fase # "transacao" /\ conexao' = conexao
         \/ tratador[t].fase = "transacao" /\ conexao' = Livre
  PROVE  Inv'
<1> USE DEF Inv
<1>1. /\ tratador' \in [Tratadores -> EstadoDoTratador]
      /\ tratador'[t] = novo
      /\ \A u \in Tratadores : u # t => tratador'[u] = tratador[u]
  BY MudaUm
<1>2. TypeOK'
  BY <1>1 DEF TypeOK, oDiario, oRelogio
<1>3. ConexaoTemDono'
  BY <1>1, ConexaoLivre DEF ConexaoTemDono, EmFase
<1>4. ComRemessa' /\ GravaAncorado'
  BY <1>1 DEF ComRemessa, GravaAncorado, oDiario
<1>5. ConfirmaOGravado'
  BY <1>1 DEF ConfirmaOGravado, EmFase, Confirma, oDiario
<1>6. ConfirmadoDuravel' /\ DadoTemAncora'
  BY DEF ConfirmadoDuravel, DadoTemAncora, oDiario
<1>7. \A a : AncoraFiel(a) => AncoraFiel(a)'
  BY DEF AncoraFiel, oRelogio
<1>8. AncorasFieis'
  BY <1>1, <1>7 DEF AncorasFieis, EmFase, oDiario, oRelogio
<1>9. VereditoHonesto'
  BY <1>1 DEF VereditoHonesto
<1> QED BY <1>2, <1>3, <1>4, <1>5, <1>6, <1>8, <1>9

\* A verdict the clock justifies.
Honesto(h) ==
  /\ h.veredito = "suspeito" => Absoluto(h.degrau) + PausaMaxima > Tolerancia
  /\ h.veredito = "confiavel" => Absoluto(h.degrau) <= Tolerancia + PausaMaxima

\* A goroutine that goes on, outside the transaction, keeps everything.
LEMMA PassoAvanca ==
  ASSUME Inv, NEW t \in Tratadores, NEW novo, SoMuda(t, novo),
         tratador[t].fase # "transacao",
         novo.fase \notin {"responder", "transacao", "livre"},
         novo.remessa \in Remessas /\ novo.remessa.aceitos # {},
         novo.fase \in {"gravar", "conferir"} => novo.remessa.sessao \in DOMAIN ancoras,
         novo.fase \in {"gravar_ancora", "conferir"} => AncoraFiel(novo.ancora),
         novo.fase = "conferir" => novo.ancora.execucao = execucao,
         Honesto(novo),
         UNCHANGED <<oDiario, conexao, oRelogio, confirmados>>
  PROVE  Inv'
<1> USE DEF Inv
<1>1. /\ tratador' \in [Tratadores -> EstadoDoTratador]
      /\ tratador'[t] = novo
      /\ \A u \in Tratadores : u # t => tratador'[u] = tratador[u]
  BY MudaUm
<1>2. TypeOK'
  BY <1>1 DEF TypeOK, oDiario, oRelogio
<1>3. ConexaoTemDono'
  BY <1>1, ConexaoLivre DEF ConexaoTemDono, EmFase
<1>4. ComRemessa' /\ GravaAncorado'
  BY <1>1 DEF ComRemessa, GravaAncorado, oDiario
<1>5. ConfirmaOGravado'
  BY <1>1 DEF ConfirmaOGravado, EmFase, Confirma, oDiario
<1>6. ConfirmadoDuravel' /\ DadoTemAncora'
  BY DEF ConfirmadoDuravel, DadoTemAncora, oDiario
<1>7. \A a : AncoraFiel(a) => AncoraFiel(a)'
  BY DEF AncoraFiel, oRelogio
<1>8. AncorasFieis'
  BY <1>1, <1>7 DEF AncorasFieis, EmFase, oDiario, oRelogio
<1>9. VereditoHonesto'
  BY <1>1 DEF VereditoHonesto, Honesto
<1> QED BY <1>2, <1>3, <1>4, <1>5, <1>6, <1>8, <1>9

LEMMA PassoReceber ==
  ASSUME Inv, NEW t \in Tratadores, NEW r \in Remessas, Receber(t, r)
  PROVE  Inv'
<1> DEFINE novo == [Ocioso EXCEPT !.fase = IF r.aceitos = {} THEN "responder" ELSE "ler_ancora",
                                  !.remessa = r]
<1>1. /\ novo \in EstadoDoTratador
      /\ novo.fase = IF r.aceitos = {} THEN "responder" ELSE "ler_ancora"
      /\ novo.remessa = r
      /\ novo.veredito = "sem_verificacao"
  BY OciosoTipo DEF EstadoDoTratador, Ocioso, Fases
<1>2. tratador' = [tratador EXCEPT ![t] = novo]
  BY DEF Receber
<1>3. /\ tratador[t].fase = "livre"
      /\ UNCHANGED <<oDiario, conexao, oRelogio, confirmados>>
  BY DEF Receber, EmFase
<1>4. r.aceitos = {} => Chaves(r) = {}
  BY DEF Chaves
<1> HIDE DEF novo
<1>5. SoMuda(t, novo)
  BY <1>1, <1>2 DEF SoMuda
<1>6. CASE r.aceitos = {}
  BY <1>1, <1>3, <1>4, <1>5, <1>6, PassoFalha
<1>7. CASE r.aceitos # {}
  BY <1>1, <1>3, <1>5, <1>7, PassoAvanca DEF Honesto
<1> QED BY <1>6, <1>7

LEMMA PassoRecusar ==
  ASSUME Inv, NEW t \in Tratadores, NEW r \in Remessas, NEW c \in Recusas, Recusar(t, r, c)
  PROVE  Inv'
<1> DEFINE novo == [Ocioso EXCEPT !.fase = "responder", !.remessa = r, !.categoria = c]
<1>1. c \in Categorias /\ c # "nenhuma"
  BY RecusasValidas DEF Categorias
<1>2. /\ novo \in EstadoDoTratador
      /\ novo.fase = "responder"
      /\ novo.categoria = c
      /\ novo.veredito = "sem_verificacao"
  BY <1>1, OciosoTipo DEF EstadoDoTratador, Ocioso, Fases
<1>3. tratador' = [tratador EXCEPT ![t] = novo]
  BY DEF Recusar
<1>4. /\ tratador[t].fase = "livre"
      /\ UNCHANGED <<oDiario, conexao, oRelogio, confirmados>>
  BY DEF Recusar, EmFase
<1> HIDE DEF novo
<1>5. SoMuda(t, novo)
  BY <1>2, <1>3 DEF SoMuda
<1> QED BY <1>1, <1>2, <1>4, <1>5, PassoFalha

LEMMA PassoLerAncora ==
  ASSUME Inv, NEW t \in Tratadores, LerAncora(t)
  PROVE  Inv'
<1> DEFINE s == tratador[t].remessa.sessao
<1>1. /\ tratador[t].fase = "ler_ancora"
      /\ UNCHANGED <<oDiario, conexao, oRelogio, confirmados>>
  BY DEF LerAncora, ComConexao, EmFase
<1>2. /\ tratador[t].remessa \in Remessas /\ tratador[t].remessa.aceitos # {}
      /\ Honesto(tratador[t])
      /\ TypeOK
  BY <1>1 DEF Inv, ComRemessa, VereditoHonesto, Honesto
<1>3. CASE s \notin DOMAIN ancoras
  <2>1. Avancar(t, "ancorar")
    BY <1>3 DEF LerAncora
  <2>2. PICK novo : /\ SoMuda(t, novo)
                    /\ novo.fase = "ancorar"
                    /\ novo.remessa = tratador[t].remessa
                    /\ novo.veredito = tratador[t].veredito
                    /\ novo.degrau = tratador[t].degrau
    BY <2>1, <1>2, AvancarFatos DEF Fases
  <2> QED BY <2>2, <1>1, <1>2, PassoAvanca DEF Honesto
<1>4. CASE s \in DOMAIN ancoras /\ ~DaExecucaoAtual(ancoras[s])
  <2>1. Avancar(t, "gravar")
    BY <1>4 DEF LerAncora
  <2>2. PICK novo : /\ SoMuda(t, novo)
                    /\ novo.fase = "gravar"
                    /\ novo.remessa = tratador[t].remessa
                    /\ novo.veredito = tratador[t].veredito
                    /\ novo.degrau = tratador[t].degrau
    BY <2>1, <1>2, AvancarFatos DEF Fases
  <2> QED BY <2>2, <1>1, <1>2, <1>4, PassoAvanca DEF Honesto
<1>5. CASE s \in DOMAIN ancoras /\ DaExecucaoAtual(ancoras[s])
  <2> DEFINE novo == [tratador[t] EXCEPT !.fase = "conferir", !.ancora = ancoras[s]]
  <2>1. tratador' = [tratador EXCEPT ![t] = novo]
    BY <1>5 DEF LerAncora
  <2>2. tratador[t] \in EstadoDoTratador /\ ancoras[s] \in Ancora
    BY <1>2, <1>5 DEF TypeOK
  <2>3. /\ novo \in EstadoDoTratador
        /\ novo.fase = "conferir"
        /\ novo.ancora = ancoras[s]
        /\ novo.remessa = tratador[t].remessa
        /\ novo.veredito = tratador[t].veredito
        /\ novo.degrau = tratador[t].degrau
    BY <2>2 DEF EstadoDoTratador, Fases
  <2>4. AncoraFiel(ancoras[s]) /\ ancoras[s].execucao = execucao
    BY <1>5 DEF Inv, AncorasFieis, DaExecucaoAtual
  <2> HIDE DEF novo
  <2>5. SoMuda(t, novo)
    BY <2>1, <2>3 DEF SoMuda
  <2> QED BY <2>3, <2>4, <2>5, <1>1, <1>2, <1>5, PassoAvanca DEF Honesto
<1> QED BY <1>3, <1>4, <1>5

\* What is read of the clocks now is as far from them as the pause.
LEMMA PassoLerRelogio ==
  ASSUME Inv, NEW t \in Tratadores, LerRelogio(t)
  PROVE  Inv'
<1>1. /\ tratador[t].fase = "ancorar"
      /\ UNCHANGED <<oDiario, conexao, oRelogio, confirmados>>
  BY DEF LerRelogio, EmFase
<1>2. /\ tratador[t].remessa \in Remessas /\ tratador[t].remessa.aceitos # {}
      /\ Honesto(tratador[t])
      /\ TypeOK
  BY <1>1 DEF Inv, ComRemessa, VereditoHonesto, Honesto
<1>3. PICK pausa \in 0 .. PausaMaxima :
        tratador' = [tratador EXCEPT ![t].fase = "gravar_ancora",
          ![t].ancora = [ligado |-> Primeiro(tratador[t].remessa), base |-> relogio - pausa,
                         execucao |-> execucao, degraus |-> degraus]]
  BY DEF LerRelogio
<1> DEFINE a == [ligado |-> Primeiro(tratador[t].remessa), base |-> relogio - pausa,
                 execucao |-> execucao, degraus |-> degraus]
           novo == [tratador[t] EXCEPT !.fase = "gravar_ancora", !.ancora = a]
<1>4. Primeiro(tratador[t].remessa) \in Nat
  <2>1. tratador[t].remessa.aceitos \in SUBSET Nat
    BY <1>2, ChavesSaoEnvelopes
  <2> QED BY <1>2, <2>1, PrimeiroExiste
<1>5. PausaMaxima \in Nat /\ pausa \in Int
  BY RelogioValido
<1>6. a \in Ancora
  BY <1>2, <1>4, <1>5 DEF TypeOK, Ancora
<1>7. AncoraFiel(a)
  BY <1>2, <1>5 DEF TypeOK, AncoraFiel
<1>8. tratador' = [tratador EXCEPT ![t] = novo]
  BY <1>3
<1>9. tratador[t] \in EstadoDoTratador
  BY <1>2 DEF TypeOK
<1> HIDE DEF a
<1>10. /\ novo \in EstadoDoTratador
       /\ novo.fase = "gravar_ancora"
       /\ novo.ancora = a
       /\ novo.remessa = tratador[t].remessa
       /\ novo.veredito = tratador[t].veredito
       /\ novo.degrau = tratador[t].degrau
  BY <1>6, <1>9 DEF EstadoDoTratador, Fases
<1> HIDE DEF novo
<1>11. SoMuda(t, novo)
  BY <1>8, <1>10 DEF SoMuda
<1> QED BY <1>1, <1>2, <1>7, <1>10, <1>11, PassoAvanca DEF Honesto

\* Both clocks moved together but for the steps and the two pauses.
LEMMA PassoConferir ==
  ASSUME Inv, NEW t \in Tratadores, Conferir(t)
  PROVE  Inv'
<1>1. /\ tratador[t].fase = "conferir"
      /\ UNCHANGED <<oDiario, conexao, oRelogio, confirmados>>
  BY DEF Conferir, EmFase
<1>2. /\ tratador[t].remessa \in Remessas /\ tratador[t].remessa.aceitos # {}
      /\ tratador[t].remessa.sessao \in DOMAIN ancoras
      /\ AncoraFiel(tratador[t].ancora)
      /\ tratador[t].ancora.execucao = execucao
      /\ TypeOK
  BY <1>1 DEF Inv, ComRemessa, GravaAncorado, AncorasFieis, EmFase
<1> DEFINE a == tratador[t].ancora
<1>3. PICK pausa \in 0 .. PausaMaxima :
        tratador' = [tratador EXCEPT ![t].fase = "gravar",
          ![t].veredito = IF Absoluto((relogio - pausa) - a.base) > Tolerancia
                          THEN "suspeito" ELSE "confiavel",
          ![t].degrau = degraus - a.degraus, ![t].ancora = NenhumaAncora]
  BY DEF Conferir
<1> DEFINE v == IF Absoluto((relogio - pausa) - a.base) > Tolerancia
                THEN "suspeito" ELSE "confiavel"
           novo == [tratador[t] EXCEPT !.fase = "gravar", !.veredito = v,
                      !.degrau = degraus - a.degraus, !.ancora = NenhumaAncora]
<1>4. tratador[t] \in EstadoDoTratador
  BY <1>2 DEF TypeOK
<1>5. a \in Ancora
  BY <1>4 DEF EstadoDoTratador
<1>6. /\ relogio \in Int /\ degraus \in Int /\ a.base \in Int /\ a.degraus \in Int
      /\ pausa \in Int /\ Tolerancia \in Int /\ PausaMaxima \in Int
  BY <1>2, <1>5, RelogioValido DEF TypeOK, Ancora
<1>7. /\ 0 <= pausa /\ pausa <= PausaMaxima
      /\ a.base + (degraus - a.degraus) <= relogio
      /\ relogio <= a.base + (degraus - a.degraus) + PausaMaxima
  BY <1>2, <1>6 DEF AncoraFiel
<1>8. /\ v = "suspeito" => Absoluto(degraus - a.degraus) + PausaMaxima > Tolerancia
      /\ v = "confiavel" => Absoluto(degraus - a.degraus) <= Tolerancia + PausaMaxima
  BY <1>6, <1>7 DEF Absoluto
<1>9. tratador' = [tratador EXCEPT ![t] = novo]
  BY <1>3
<1>10. v \in Vereditos /\ degraus - a.degraus \in Int
  BY <1>6 DEF Vereditos
<1> HIDE DEF v, a
<1>11. /\ novo \in EstadoDoTratador
       /\ novo.fase = "gravar"
       /\ novo.veredito = v
       /\ novo.degrau = degraus - a.degraus
       /\ novo.remessa = tratador[t].remessa
  BY <1>4, <1>10, OciosoTipo DEF EstadoDoTratador, Fases
<1> HIDE DEF novo
<1>12. SoMuda(t, novo) /\ Honesto(novo)
  BY <1>8, <1>9, <1>11 DEF SoMuda, Honesto
<1> QED BY <1>1, <1>2, <1>11, <1>12, PassoAvanca

\* The anchors that were there stay, and the session of the batch has one.
LEMMA PassoGravarAncora ==
  ASSUME Inv, NEW t \in Tratadores, GravarAncora(t)
  PROVE  Inv'
<1> DEFINE novo == [tratador[t] EXCEPT !.fase = "gravar", !.ancora = NenhumaAncora]
           s == tratador[t].remessa.sessao
           a == tratador[t].ancora
<1>1. /\ tratador[t].fase = "gravar_ancora"
      /\ UNCHANGED <<diario, conexao, oRelogio, confirmados>>
      /\ ancoras' = AncorasCom(s, a)
      /\ tratador' = [tratador EXCEPT ![t] = novo]
  BY DEF GravarAncora, ComConexao, EmFase
<1>2. /\ tratador[t].remessa \in Remessas /\ tratador[t].remessa.aceitos # {}
      /\ Honesto(tratador[t])
      /\ AncoraFiel(a)
      /\ TypeOK
  BY <1>1 DEF Inv, ComRemessa, VereditoHonesto, Honesto, AncorasFieis
<1>3. tratador[t] \in EstadoDoTratador
  BY <1>2 DEF TypeOK
<1>4. a \in Ancora /\ s \in Sessoes
  BY <1>2, <1>3, ChavesSaoEnvelopes DEF EstadoDoTratador
<1>5. /\ novo \in EstadoDoTratador
      /\ novo.fase = "gravar"
      /\ novo.remessa = tratador[t].remessa
      /\ novo.veredito = tratador[t].veredito
      /\ novo.degrau = tratador[t].degrau
  BY <1>3, OciosoTipo DEF EstadoDoTratador, Fases
<1> HIDE DEF novo
<1>6. SoMuda(t, novo)
  BY <1>1, <1>5 DEF SoMuda
<1>7. /\ tratador' \in [Tratadores -> EstadoDoTratador]
      /\ tratador'[t] = novo
      /\ \A u \in Tratadores : u # t => tratador'[u] = tratador[u]
  BY <1>2, <1>6, MudaUm
<1>8. /\ DOMAIN ancoras' = DOMAIN ancoras \cup {s}
      /\ \A x \in DOMAIN ancoras' :
           ancoras'[x] = IF x \in DOMAIN ancoras THEN ancoras[x] ELSE a
  BY <1>1 DEF AncorasCom
<1> HIDE DEF s, a
<1>9. TypeOK'
  <2>1. DOMAIN ancoras' \subseteq Sessoes
    BY <1>2, <1>4, <1>8 DEF TypeOK
  <2>2. \A x \in DOMAIN ancoras' : ancoras'[x] \in Ancora
    BY <1>2, <1>4, <1>8 DEF TypeOK
  <2> QED BY <1>1, <1>2, <1>7, <2>1, <2>2 DEF TypeOK, oRelogio
<1>10. ConexaoTemDono'
  BY <1>1, <1>5, <1>7 DEF Inv, ConexaoTemDono, EmFase
<1>11. ComRemessa'
  BY <1>2, <1>5, <1>7 DEF Inv, ComRemessa
<1>12. GravaAncorado'
  BY <1>5, <1>7, <1>8 DEF Inv, GravaAncorado, s
<1>13. ConfirmaOGravado' /\ ConfirmadoDuravel'
  BY <1>1, <1>5, <1>7 DEF Inv, ConfirmaOGravado, ConfirmadoDuravel, EmFase, Confirma
<1>14. DadoTemAncora'
  BY <1>1, <1>8 DEF Inv, DadoTemAncora
<1>15. execucao' = execucao /\ relogio' = relogio /\ degraus' = degraus
  BY <1>1 DEF oRelogio
<1>16. AncorasFieis'
  BY <1>2, <1>5, <1>7, <1>8, <1>15 DEF Inv, AncorasFieis, AncoraFiel, EmFase
<1>17. VereditoHonesto'
  BY <1>2, <1>5, <1>7 DEF Inv, VereditoHonesto, Honesto
<1> QED BY <1>9, <1>10, <1>11, <1>12, <1>13, <1>14, <1>16, <1>17 DEF Inv

\* The transaction opens, and the connection is the goroutine's.
LEMMA PassoAbrirTransacao ==
  ASSUME Inv, NEW t \in Tratadores, AbrirTransacao(t)
  PROVE  Inv'
<1> USE DEF Inv
<1>1. /\ tratador[t].fase = "gravar" /\ conexao = Livre /\ conexao' = t
      /\ UNCHANGED <<oDiario, oRelogio, confirmados>>
      /\ Avancar(t, "transacao")
  BY DEF AbrirTransacao, ComConexao, EmFase
<1>2. PICK novo : /\ SoMuda(t, novo)
                  /\ novo.fase = "transacao"
                  /\ novo.remessa = tratador[t].remessa
                  /\ novo.veredito = tratador[t].veredito
                  /\ novo.degrau = tratador[t].degrau
  BY <1>1, AvancarFatos DEF Fases
<1>3. /\ tratador' \in [Tratadores -> EstadoDoTratador]
      /\ tratador'[t] = novo
      /\ \A u \in Tratadores : u # t => tratador'[u] = tratador[u]
  BY <1>2, MudaUm
<1>4. TypeOK'
  BY <1>1, <1>3 DEF TypeOK, oDiario, oRelogio
<1>5. ConexaoTemDono'
  BY <1>1, <1>2, <1>3, ConexaoLivre DEF ConexaoTemDono, EmFase
<1>6. ComRemessa' /\ GravaAncorado'
  BY <1>1, <1>2, <1>3 DEF ComRemessa, GravaAncorado, oDiario
<1>7. ConfirmaOGravado' /\ ConfirmadoDuravel' /\ DadoTemAncora'
  BY <1>1, <1>2, <1>3
     DEF ConfirmaOGravado, ConfirmadoDuravel, DadoTemAncora, EmFase, Confirma, oDiario
<1>8. AncorasFieis'
  BY <1>1, <1>2, <1>3 DEF AncorasFieis, AncoraFiel, EmFase, oDiario, oRelogio
<1>9. VereditoHonesto'
  BY <1>2, <1>3 DEF VereditoHonesto
<1> QED BY <1>4, <1>5, <1>6, <1>7, <1>8, <1>9

\* The commit: the rows, whose session has an anchor, become durable.
LEMMA PassoConfirmar ==
  ASSUME Inv, NEW t \in Tratadores, Confirmar(t)
  PROVE  Inv'
<1> USE DEF Inv
<1>1. /\ tratador[t].fase = "transacao" /\ conexao' = Livre
      /\ diario' = diario \cup Chaves(tratador[t].remessa)
      /\ UNCHANGED <<ancoras, oRelogio, confirmados>>
      /\ Avancar(t, "responder")
  BY DEF Confirmar, EmFase, Linhas
<1>2. PICK novo : /\ SoMuda(t, novo)
                  /\ novo.fase = "responder"
                  /\ novo.remessa = tratador[t].remessa
                  /\ novo.veredito = tratador[t].veredito
                  /\ novo.degrau = tratador[t].degrau
  BY <1>1, AvancarFatos DEF Fases
<1>3. /\ tratador' \in [Tratadores -> EstadoDoTratador]
      /\ tratador'[t] = novo
      /\ \A u \in Tratadores : u # t => tratador'[u] = tratador[u]
  BY <1>2, MudaUm
<1>4. /\ tratador[t].remessa \in Remessas
      /\ tratador[t].remessa.sessao \in DOMAIN ancoras
  BY <1>1 DEF ComRemessa, GravaAncorado
<1>5. /\ Chaves(tratador[t].remessa) \subseteq Envelopes
      /\ \A c \in Chaves(tratador[t].remessa) : c.sessao \in DOMAIN ancoras
  BY <1>4, ChavesSaoEnvelopes
<1>6. TypeOK'
  BY <1>1, <1>3, <1>5 DEF TypeOK, oRelogio
<1>7. ConexaoTemDono'
  BY <1>1, <1>2, <1>3, ConexaoLivre DEF ConexaoTemDono, EmFase
<1>8. ComRemessa' /\ GravaAncorado'
  BY <1>1, <1>2, <1>3 DEF ComRemessa, GravaAncorado
<1>9. ConfirmaOGravado'
  <2> SUFFICES ASSUME NEW u \in Tratadores, tratador'[u].fase = "responder",
                      tratador'[u].categoria = "nenhuma"
               PROVE  Chaves(tratador'[u].remessa) \subseteq diario'
    BY DEF ConfirmaOGravado, EmFase, Confirma
  <2>1. CASE u = t
    BY <2>1, <1>1, <1>2, <1>3
  <2>2. CASE u # t
    BY <2>2, <1>1, <1>3 DEF ConfirmaOGravado, EmFase, Confirma
  <2> QED BY <2>1, <2>2
<1>10. ConfirmadoDuravel' /\ DadoTemAncora'
  BY <1>1, <1>5 DEF ConfirmadoDuravel, DadoTemAncora
<1>11. AncorasFieis'
  BY <1>1, <1>2, <1>3 DEF AncorasFieis, AncoraFiel, EmFase, oRelogio
<1>12. VereditoHonesto'
  BY <1>2, <1>3 DEF VereditoHonesto
<1> QED BY <1>6, <1>7, <1>8, <1>9, <1>10, <1>11, <1>12

\* The transaction is rolled back, or a statement outside one fails.
LEMMA PassoFalhar ==
  ASSUME Inv, NEW t \in Tratadores, Desfazer(t) \/ FalharNoDiario(t)
  PROVE  Inv'
<1>1. /\ UNCHANGED <<oDiario, oRelogio, confirmados>>
      /\ \/ tratador[t].fase # "transacao" /\ conexao' = conexao
         \/ tratador[t].fase = "transacao" /\ conexao' = Livre
      /\ Falhar(t, "interna")
  BY DEF Desfazer, FalharNoDiario, EmFase
<1>2. PICK novo : /\ SoMuda(t, novo)
                  /\ novo.fase = "responder"
                  /\ novo.categoria = "interna"
                  /\ novo.veredito = tratador[t].veredito
                  /\ novo.degrau = tratador[t].degrau
  BY <1>1, FalharFatos DEF Inv, Categorias
<1> QED BY <1>1, <1>2, PassoFalha

\* Only what is in the journal is confirmed.
LEMMA PassoResponder ==
  ASSUME Inv, NEW t \in Tratadores, Responder(t)
  PROVE  Inv'
<1> USE DEF Inv
<1>1. /\ tratador[t].fase = "responder"
      /\ tratador' = [tratador EXCEPT ![t] = Ocioso]
      /\ UNCHANGED <<oDiario, conexao, oRelogio>>
      /\ confirmados' = IF Confirma(t) THEN confirmados \cup Chaves(tratador[t].remessa)
                        ELSE confirmados
  BY DEF Responder, EmFase
<1>2. SoMuda(t, Ocioso)
  BY <1>1, OciosoTipo DEF SoMuda
<1>3. /\ tratador' \in [Tratadores -> EstadoDoTratador]
      /\ tratador'[t] = Ocioso
      /\ \A u \in Tratadores : u # t => tratador'[u] = tratador[u]
  BY <1>2, MudaUm
<1>4. Ocioso.fase = "livre" /\ Ocioso.veredito = "sem_verificacao"
  BY DEF Ocioso
<1>5. confirmados' \subseteq diario
  BY <1>1 DEF ConfirmaOGravado, ConfirmadoDuravel, EmFase
<1>6. ConfirmadoDuravel' /\ DadoTemAncora'
  BY <1>1, <1>5 DEF ConfirmadoDuravel, DadoTemAncora, oDiario
<1>7. TypeOK'
  BY <1>1, <1>3, <1>5 DEF TypeOK, oDiario, oRelogio
<1>8. ConexaoTemDono'
  BY <1>1, <1>3, <1>4 DEF ConexaoTemDono, EmFase
<1>9. ComRemessa' /\ GravaAncorado' /\ ConfirmaOGravado'
  BY <1>1, <1>3, <1>4
     DEF ComRemessa, GravaAncorado, ConfirmaOGravado, EmFase, Confirma, oDiario
<1>10. AncorasFieis'
  BY <1>1, <1>3, <1>4 DEF AncorasFieis, AncoraFiel, EmFase, oDiario, oRelogio
<1>11. VereditoHonesto'
  BY <1>3, <1>4 DEF VereditoHonesto
<1> QED BY <1>6, <1>7, <1>8, <1>9, <1>10, <1>11

\* A step of the wall clock moves the clock and the count of steps alike.
LEMMA PassoDegrau ==
  ASSUME Inv, Degrau
  PROVE  Inv'
<1> USE DEF Inv
<1>1. /\ UNCHANGED <<oDiario, conexao, tratador, execucao, confirmados>>
      /\ degraus' = degraus + (relogio' - relogio)
      /\ relogio' \in Int /\ relogio \in Int /\ degraus \in Int
  BY RelogioValido DEF Degrau, TypeOK
<1>2. TypeOK'
  BY <1>1 DEF TypeOK, oDiario
<1>3. ConexaoTemDono' /\ ComRemessa' /\ GravaAncorado' /\ ConfirmaOGravado' /\ VereditoHonesto'
  BY <1>1 DEF ConexaoTemDono, ComRemessa, GravaAncorado, ConfirmaOGravado, VereditoHonesto,
              EmFase, Confirma, oDiario
<1>4. ConfirmadoDuravel' /\ DadoTemAncora'
  BY <1>1 DEF ConfirmadoDuravel, DadoTemAncora, oDiario
<1>5. ASSUME NEW a \in Ancora, AncoraFiel(a)
      PROVE  /\ a.execucao <= execucao'
             /\ a.execucao = execucao' =>
                  /\ a.base + (degraus' - a.degraus) <= relogio'
                  /\ relogio' <= a.base + (degraus' - a.degraus) + PausaMaxima
  <2>1. a.base \in Int /\ a.degraus \in Int
    BY DEF Ancora
  <2>2. PausaMaxima \in Int
    BY RelogioValido
  <2> QED BY <1>1, <1>5, <2>1, <2>2 DEF AncoraFiel
<1>6. /\ \A s \in DOMAIN ancoras : ancoras[s] \in Ancora
      /\ \A t \in Tratadores : tratador[t].ancora \in Ancora
  BY DEF TypeOK, EstadoDoTratador
<1>7. AncorasFieis'
  <2>1. ASSUME NEW s \in DOMAIN ancoras PROVE AncoraFiel(ancoras[s])'
    BY <1>1, <1>5, <1>6 DEF AncorasFieis, AncoraFiel, oDiario
  <2>2. ASSUME NEW t \in Tratadores, tratador[t].fase \in {"gravar_ancora", "conferir"}
        PROVE  AncoraFiel(tratador[t].ancora)'
    BY <1>1, <1>5, <1>6, <2>2 DEF AncorasFieis, AncoraFiel
  <2> QED BY <1>1, <2>1, <2>2 DEF AncorasFieis, EmFase, oDiario
<1> QED BY <1>2, <1>3, <1>4, <1>7

\* A restart keeps the journal, and no anchor is of the new run.
LEMMA PassoQueda ==
  ASSUME Inv, Queda
  PROVE  Inv'
<1> USE DEF Inv
<1>1. /\ UNCHANGED <<oDiario, degraus, confirmados>>
      /\ execucao' = execucao + 1 /\ relogio' \in Int
      /\ tratador' = [t \in Tratadores |-> Ocioso] /\ conexao' = Livre
  BY RelogioValido DEF Queda
<1>2. \A t \in Tratadores : tratador'[t].fase = "livre" /\ tratador'[t].veredito = "sem_verificacao"
  BY <1>1 DEF Ocioso
<1>3. TypeOK'
  BY <1>1, OciosoTipo DEF TypeOK, oDiario
<1>4. ConexaoTemDono' /\ ComRemessa' /\ GravaAncorado' /\ ConfirmaOGravado' /\ VereditoHonesto'
  BY <1>1, <1>2, ConexaoLivre
     DEF ConexaoTemDono, ComRemessa, GravaAncorado, ConfirmaOGravado, VereditoHonesto, EmFase
<1>5. ConfirmadoDuravel' /\ DadoTemAncora'
  BY <1>1 DEF ConfirmadoDuravel, DadoTemAncora, oDiario
<1>6. AncorasFieis'
  <2>1. \A s \in DOMAIN ancoras : ancoras[s].execucao \in Nat /\ ancoras[s].execucao <= execucao
    BY DEF TypeOK, AncorasFieis, AncoraFiel, Ancora
  <2>2. execucao \in Nat
    BY DEF TypeOK
  <2>3. \A s \in DOMAIN ancoras : /\ ancoras[s].execucao <= execucao + 1
                                  /\ ancoras[s].execucao # execucao + 1
    BY <2>1, <2>2
  <2> QED BY <1>1, <1>2, <2>3 DEF AncorasFieis, AncoraFiel, EmFase, oDiario
<1> QED BY <1>3, <1>4, <1>5, <1>6

-----------------------------------------------------------------------------
(* The theorems.                                                           *)

LEMMA InvMantido == Inv /\ [Next]_vars => Inv'
<1> SUFFICES ASSUME Inv, [Next]_vars PROVE Inv'
  OBVIOUS
<1>1. ASSUME NEW t \in Tratadores, Trabalhar(t) PROVE Inv'
  BY <1>1, PassoLerAncora, PassoLerRelogio, PassoGravarAncora, PassoConferir,
     PassoAbrirTransacao, PassoConfirmar, PassoFalhar, PassoResponder DEF Trabalhar
<1>2. ASSUME NEW t \in Tratadores, FalharNoDiario(t) PROVE Inv'
  BY <1>2, PassoFalhar
<1>3. ASSUME NEW t \in Tratadores, NEW r \in Remessas,
             Receber(t, r) \/ \E c \in Recusas : Recusar(t, r, c)
      PROVE  Inv'
  BY <1>3, PassoReceber, PassoRecusar
<1>4. CASE UNCHANGED vars
  BY <1>4 DEF vars, Inv, TypeOK, ConexaoTemDono, ComRemessa, ConfirmaOGravado,
     ConfirmadoDuravel, GravaAncorado, DadoTemAncora, AncorasFieis, AncoraFiel,
     VereditoHonesto, EmFase, Confirma
<1> QED BY <1>1, <1>2, <1>3, <1>4, PassoDegrau, PassoQueda DEF Next

LEMMA InvSempre == Spec => []Inv
  BY InvInicial, InvMantido, PTL DEF Spec

\* Every variable of the acquisition path stays in its range; in particular the
\* journal holds only envelopes that the codec accepted.
THEOREM TipoCorreto == Spec => []TypeOK
<1>1. Inv => TypeOK
  BY DEF Inv
<1> QED BY <1>1, InvSempre, PTL

\* The one connection of the journal is held exactly by the goroutine that is
\* inside a transaction, whatever fails and however often the process restarts.
THEOREM ConexaoSempreTemDono == Spec => []ConexaoTemDono
<1>1. Inv => ConexaoTemDono
  BY DEF Inv
<1> QED BY <1>1, InvSempre, PTL

\* What was confirmed to a source is in the journal from then on.
THEOREM ConfirmadoSempreDuravel == Spec => []ConfirmadoDuravel
<1>1. Inv => ConfirmadoDuravel
  BY DEF Inv
<1> QED BY <1>1, InvSempre, PTL

\* Every row of the journal belongs to a session that has an anchor.
THEOREM DadoSempreTemAncora == Spec => []DadoTemAncora
<1>1. Inv => DadoTemAncora
  BY DEF Inv
<1> QED BY <1>1, InvSempre, PTL

\* The clock is suspected only after a step of the wall clock, and always after
\* one larger than the tolerance and the pause between the two readings.
THEOREM VereditoSempreHonesto == Spec => []VereditoHonesto
<1>1. Inv => VereditoHonesto
  BY DEF Inv
<1> QED BY <1>1, InvSempre, PTL

\* The anchor of a session never changes, whoever races to write it.
THEOREM AncoraNuncaMuda == Spec => AncoraImutavel
<1> DEFINE Fica == \A s \in DOMAIN ancoras : s \in DOMAIN ancoras' /\ ancoras'[s] = ancoras[s]
<1>1. [Next]_vars => [Fica]_vars
  <2> SUFFICES ASSUME [Next]_vars PROVE ancoras' = ancoras \/ Fica
    BY DEF vars
  <2>1. ASSUME NEW t \in Tratadores, GravarAncora(t) PROVE Fica
    BY <2>1 DEF GravarAncora, AncorasCom
  <2>2. ASSUME NEW t \in Tratadores, Trabalhar(t), ~GravarAncora(t) PROVE ancoras' = ancoras
    BY <2>2 DEF Trabalhar, LerAncora, LerRelogio, Conferir, AbrirTransacao, Confirmar,
                Desfazer, Responder, oDiario
  <2>3. ASSUME NEW t \in Tratadores, FalharNoDiario(t) PROVE ancoras' = ancoras
    BY <2>3 DEF FalharNoDiario, oDiario
  <2>4. ASSUME NEW t \in Tratadores, NEW r \in Remessas,
               Receber(t, r) \/ \E c \in Recusas : Recusar(t, r, c)
        PROVE  ancoras' = ancoras
    BY <2>4 DEF Receber, Recusar, oDiario
  <2>5. Degrau \/ Queda \/ UNCHANGED vars => ancoras' = ancoras
    BY DEF Degrau, Queda, vars, oDiario
  <2> QED BY <2>1, <2>2, <2>3, <2>4, <2>5 DEF Next
<1> QED BY <1>1, PTL DEF Spec, AncoraImutavel
=============================================================================
