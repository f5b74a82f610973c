------------------------------ MODULE MCEntrega ------------------------------
(***************************************************************************)
(* Node, network and gateway for TLC.                                      *)
(***************************************************************************)
EXTENDS Entrega, TLC

CONSTANTS t1, t2, no1, no2, semNome

MCTratadores == {t1, t2}

\* The goroutines are alike; safety runs only.
MCSimetria == Permutations(MCTratadores)

\* The identifiers of the devices and of the boot sessions.
MCIdentificadores == {no1, no2} \cup (1 .. MaxPartidas)

Amostra == [tipo |-> "amostra_escalar", bytes |-> 2]

Evento == [tipo |-> "leitura_de_contador", bytes |-> 2]

SaudeIncoerente == [tipo |-> "saude_da_origem", bytes |-> 2, livres |-> 0, maiorBloco |-> 1]

MCConteudos == {Evento, SaudeIncoerente}

-----------------------------------------------------------------------------
(* The rules of every content, on what a source may say and must not say:  *)
(* the tests of the repository exercise the same borders.                  *)

Agregada(n, j, min, max) ==
  [tipo |-> "amostra_agregada", bytes |-> 2, quantidade |-> n, janela |-> j,
   minimo |-> min, maximo |-> max]

Lacuna(n, a, b) ==
  [tipo |-> "lacuna_de_buffer", bytes |-> 2, registros |-> n, primeira |-> a, ultima |-> b]

Maquina(estado, cracha) ==
  [tipo |-> "mudanca_de_estado_de_maquina", bytes |-> 2, estado |-> estado,
   cracha |-> cracha, lote |-> 0]

Canal(modulo, canal) == [endereco |-> [modulo |-> modulo, canal |-> canal], unidade |-> 0]

Descritor(canais, firmware) ==
  [tipo |-> "descritor_da_origem", bytes |-> 2, canais |-> canais,
   firmware |-> firmware, hardware |-> 0]

Aceitaveis ==
  {Amostra, Evento, Agregada(1, 1, 0, 0), Agregada(2, 1, NaN, 1), Lacuna(1, 5, 5),
   Maquina(1, 0), Maquina(6, TextoMaximo), Descritor(<<>>, 0),
   Descritor(<<Canal(0, 1)>>, TextoMaximo),
   Descritor(<<[endereco |-> Ausente, unidade |-> TextoMaximo]>>, 0)}

Inaceitaveis ==
  {Ausente, SaudeIncoerente, [Amostra EXCEPT !.bytes = 0],
   [Amostra EXCEPT !.bytes = ConteudoMaximo + 1], [Amostra EXCEPT !.tipo = "outro"],
   Agregada(0, 1, 0, 0), Agregada(1, 0, 0, 0), Agregada(1, 1, 1, 0),
   Lacuna(0, 5, 5), Lacuna(1, 5, 4), Maquina(0, 0), Maquina(7, 0),
   Maquina(1, TextoMaximo + 1), Descritor(<<>>, TextoMaximo + 1),
   Descritor(<<Canal(0, 0), [endereco |-> Ausente, unidade |-> 0]>>, 0),
   Descritor(<<Canal(0, 0), Canal(0, 1), Canal(0, 2)>>, 0),
   Descritor(<<[Canal(0, 0) EXCEPT !.unidade = TextoMaximo + 1]>>, 0)}

ASSUME RegrasDosConteudos ==
  /\ \A c \in Aceitaveis : ConteudoAceito(c)
  /\ \A c \in Inaceitaveis : ~ConteudoAceito(c)

Com(versao, dispositivo) ==
  [corpo |-> "integro", versao |-> versao, dispositivo |-> dispositivo, sessao |-> 1,
   envelopes |-> {Envelope(1, Evento)}]

\* What comes with the batch.  The version is narrowed to 16 bits before it is
\* looked at, so that 65537 passes for 1.
ASSUME RegrasDaRemessa ==
  /\ \A v \in {1, 2^16 + 1} : EnvelopeAceito(Com(v, no1), Envelope(LigadoMaximo, Evento))
  /\ \A v \in {0, 2, 2^16 - 1, 2^16} : ~EnvelopeAceito(Com(v, no1), Envelope(1, Evento))
  /\ ~EnvelopeAceito(Com(1, semNome), Envelope(1, Evento))
  /\ ~EnvelopeAceito(Com(1, no1), Envelope(LigadoMaximo + 1, Evento))
=============================================================================
