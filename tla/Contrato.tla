------------------------------ MODULE Contrato ------------------------------
(***************************************************************************)
(* What the two ends of the wire agree on: which envelopes the gateway     *)
(* accepts (codecdefio, aquisicao), whose batches (credencial), and how a  *)
(* failure travels as a status and is read back by the node (falha,        *)
(* statushttp, transporte).  Operators only.                               *)
(*                                                                         *)
(* Abstracted: bytes, as their number; texts, as their length, but for     *)
(* identifiers; the value of a reading, of which nothing depends; contents *)
(* keep the fields their decoder looks at.                                 *)
(***************************************************************************)
EXTENDS Integers, Sequences, FiniteSets

CONSTANTS
  Identificadores,   \* the texts validarIdentificador accepts
  ExigirIdentidade,  \* ComIdentidadeAutenticada
  EnvelopesMaximos,  \* EnvelopesMaximosPorRemessa, 1000
  ConteudoMaximo,    \* TamanhoMaximoDoConteudoEmBytes, 8 KiB
  LigadoMaximo,      \* TempoLigadoMaximoPlausivel, one hundred years
  TextoMaximo,       \* tamanhoMaximoDeTextoDescritivo and ...DeIdentificadorAfirmado, 64
  CanaisMaximos,     \* canaisMaximosPorOrigem, 256
  Ausente,           \* a field that did not travel
  NaN                \* a float that is not a number

ASSUME LimitesDoContrato ==
  /\ {EnvelopesMaximos, ConteudoMaximo, LigadoMaximo, TextoMaximo, CanaisMaximos} \subseteq Nat
  /\ ExigirIdentidade \in BOOLEAN

-----------------------------------------------------------------------------
(* Contents.                                                               *)

TiposDeAmostra ==
  {"amostra_escalar", "amostra_agregada", "saude_da_origem", "descritor_da_origem"}

TiposDeEvento ==
  {"leitura_de_contador", "transicao_digital", "mudanca_de_estado_de_maquina",
   "lacuna_de_buffer"}

TodasAsDefinicoes == TiposDeAmostra \cup TiposDeEvento

\* The catalogue: one class for each type.
Definicoes ==
  [tipo \in TodasAsDefinicoes |-> IF tipo \in TiposDeAmostra THEN "amostra" ELSE "evento"]

\* What a buffer without room does with a class: its oldest leaves unseen, or
\* what leaves is told as a gap.
PoliticaDeSaturacao ==
  [amostra |-> "descartar_mais_antigo", evento |-> "registrar_lacuna"]

Buscar(tipo) == tipo \in DOMAIN Definicoes

\* An order between floats, as Go compares them: false when either is no number.
MaiorQue(a, b) == a # NaN /\ b # NaN /\ a > b

\* Nothing that decodes is refused.
AmostraEscalar(c) == TRUE

LeituraDeContador(c) == TRUE

TransicaoDigital(c) == TRUE

AmostraAgregada(c) ==
  c.quantidade # 0 /\ c.janela # 0 /\ ~MaiorQue(c.minimo, c.maximo)

LacunaDeBuffer(c) == c.registros # 0 /\ c.ultima >= c.primeira

SaudeDaOrigem(c) == c.maiorBloco <= c.livres

EstadosDeMaquina == 1 .. 6

MudancaDeEstado(c) ==
  c.estado \in EstadosDeMaquina /\ c.cracha <= TextoMaximo /\ c.lote <= TextoMaximo

\* An address that did not travel is that of the first channel of the source.
EnderecoDe(e) == IF e = Ausente THEN [modulo |-> 0, canal |-> 0] ELSE e

DescritorDaOrigem(c) ==
  /\ Len(c.canais) <= CanaisMaximos
  /\ c.firmware <= TextoMaximo /\ c.hardware <= TextoMaximo
  /\ \A i, j \in DOMAIN c.canais :
       i # j => EnderecoDe(c.canais[i].endereco) # EnderecoDe(c.canais[j].endereco)
  /\ \A i \in DOMAIN c.canais : c.canais[i].unidade <= TextoMaximo

\* Decodificar, of the definition of its type.
ConteudoCoerente(c) ==
  CASE c.tipo = "amostra_escalar" -> AmostraEscalar(c)
    [] c.tipo = "amostra_agregada" -> AmostraAgregada(c)
    [] c.tipo = "saude_da_origem" -> SaudeDaOrigem(c)
    [] c.tipo = "descritor_da_origem" -> DescritorDaOrigem(c)
    [] c.tipo = "leitura_de_contador" -> LeituraDeContador(c)
    [] c.tipo = "transicao_digital" -> TransicaoDigital(c)
    [] c.tipo = "mudanca_de_estado_de_maquina" -> MudancaDeEstado(c)
    [] c.tipo = "lacuna_de_buffer" -> LacunaDeBuffer(c)

\* extrairConteudo: the oneof of the envelope is set.
TemConteudo(c) == c # Ausente

\* An envelope carries a content, not empty and not too large, of a known type,
\* and what it says is coherent.
ConteudoAceito(c) ==
  /\ TemConteudo(c)
  /\ c.bytes \in 1 .. ConteudoMaximo
  /\ Buscar(c.tipo)
  /\ ConteudoCoerente(c)

-----------------------------------------------------------------------------
(* A batch: versao, dispositivo, sessao and envelopes; corpo says whether   *)
(* the body could be read whole and parsed.                                *)

Identificavel(texto) == texto \in Identificadores

\* uint16(remessa.GetVersaoDoEsquema()).
VersaoLida(versao) == versao % 2^16

\* The only version between VersaoMinimaDoEsquema and VersaoMaximaDoEsquema.
VersaoDoEsquema == 1

\* NovoEnvelope: what comes with the batch is checked once per envelope.
EnvelopeAceito(r, e) ==
  /\ VersaoLida(r.versao) = VersaoDoEsquema
  /\ Identificavel(r.dispositivo)
  /\ Identificavel(r.sessao)
  /\ e.ligado <= LigadoMaximo
  /\ ConteudoAceito(e.conteudo)

Numeros(E) == {e.seq : e \in E}

Aceitos(r) == {e \in r.envelopes : EnvelopeAceito(r, e)}

\* DecodificarRemessa: the bad envelope leaves, the good ones go on.
Decodificada(r) ==
  [sessao     |-> r.sessao,
   aceitos    |-> Numeros(Aceitos(r)),
   rejeitados |-> Numeros(r.envelopes \ Aceitos(r))]

RemessaLegivel(r) == r.corpo = "integro" /\ Cardinality(r.envelopes) \in 1 .. EnvelopesMaximos

-----------------------------------------------------------------------------
(* Who sends it.  A credential is the common name of the certificate the    *)
(* transport verified, or Ausente.                                         *)

\* With the category it fails with, as ConferirIdentidade below.
IdentidadeAutenticada(credencial) ==
  IF credencial = Ausente THEN "interna"
  ELSE IF Identificavel(credencial) THEN "nenhuma" ELSE "nao_autenticado"

\* Mutation: any certificate of the installation will do.
ConferirSoOCertificado(credencial, reivindicada) ==
  IF reivindicada = Ausente THEN "entrada_invalida" ELSE "nenhuma"

ConferirIdentidade(credencial, reivindicada) ==
  IF reivindicada = Ausente THEN "entrada_invalida"
  ELSE IF reivindicada = credencial THEN "nenhuma" ELSE "permissao_negada"

\* What receberRemessa says of the whole batch before it is recorded.
Veredito(r, credencial) ==
  IF ~RemessaLegivel(r) THEN "entrada_invalida"
  ELSE IF ~ExigirIdentidade THEN "nenhuma"
  ELSE IF IdentidadeAutenticada(credencial) # "nenhuma"
  THEN IdentidadeAutenticada(credencial)
  ELSE ConferirIdentidade(credencial, r.dispositivo)

-----------------------------------------------------------------------------
(* How a failure travels.                                                  *)

\* statusDe.
StatusDe ==
  [entrada_invalida |-> 400, nao_autenticado |-> 401, restrita_por_licenca |-> 402,
   permissao_negada |-> 403, nao_encontrado |-> 404, recurso_esgotado |-> 429,
   interna |-> 500, indisponivel |-> 503, entrega_duplicada |-> 200, nenhuma |-> 200]

\* Mutation: a failure of the gateway is the fault of the batch.
LerErroComoRecusa(status) == IF status >= 400 THEN "entrada_invalida" ELSE "nenhuma"

\* Despachar of the node, on the status of the answer; 401 is one of the others.
CategoriaDoStatus(status) ==
  CASE status = 429 -> "recurso_esgotado"
    [] status >= 500 -> "indisponivel"
    [] status = 403 -> "permissao_negada"
    [] status >= 400 /\ status < 500 /\ status \notin {403, 429} -> "entrada_invalida"
    [] OTHER -> "nenhuma"

\* tratarFalhaDeDespacho: what the node throws away; everything else it keeps.
Descarta(categoria) == categoria = "entrada_invalida"
=============================================================================
