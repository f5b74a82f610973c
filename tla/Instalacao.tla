----------------------------- MODULE Instalacao -----------------------------
(***************************************************************************)
(* The installation (dominio/instalacao, configuracaoarquivo): what each   *)
(* channel of each device measured, over which period.  It is read once,   *)
(* when the gateway starts, refused if ambiguous, and never changes after. *)
(* Operators only: the module Comissionamento holds the state.             *)
(*                                                                         *)
(* Abstracted: instants are naturals, 0 is the zero time ("since ever" at  *)
(* a beginning, "still open" at an end); a name, a quantity or a unit is a *)
(* model value, Nada is the one that is missing or that does not parse;    *)
(* the YAML, the length of names and the order of error messages.          *)
(***************************************************************************)
EXTENDS Integers, Sequences, FiniteSets

CONSTANTS
  Dispositivos,  \* device identifiers AnalisarIDDoDispositivo accepts
  Enderecos,     \* module and input within a device
  Pontos,        \* point names AnalisarIDDoPontoDeMedicao accepts
  Grandezas,     \* quantities of the contract, the unspecified one aside
  Unidades,      \* units as they are written, blanks around them included
  Aparada,       \* TrimSpace of a unit; Nada for one of blanks only
  Epoca,         \* the Unix epoch
  Nada           \* what is missing, blank or does not parse

ASSUME ValoresValidos ==
  /\ Nada \notin Dispositivos \cup Pontos \cup Grandezas \cup Unidades
  /\ Nada \notin Nat
  /\ Epoca \in Nat \ {0}
  /\ Aparada \in [Unidades \cup {Nada} -> Unidades \cup {Nada}]
  /\ Aparada[Nada] = Nada
  /\ \A u \in Unidades : Aparada[Aparada[u]] = Aparada[u]

\* ChaveDeCanal of a line of the file.
Canal(p) == <<p.dispositivo, p.endereco>>

Canais == Dispositivos \X Enderecos

\* A line of the file; a sketch may hold marks that are no name and no quantity.
Linha == [dispositivo : Dispositivos \cup {Nada}, endereco : Enderecos,
          ponto : Pontos \cup {Nada}, grandeza : Grandezas \cup {Nada},
          unidade : Unidades \cup {Nada}, de : Nat \cup {Nada}, ate : Nat \cup {Nada}]

Arquivo == Seq(Linha)

-----------------------------------------------------------------------------
(* Intervals, closed at the beginning and open at the end.                 *)

CobreInstante(p, i) ==
  /\ p.de # 0 => p.de <= i
  /\ p.ate # 0 => i < p.ate

\* Mutation: an open end counts as no period at all.
SobrepoeSeEncerrado(p, q) ==
  /\ q.ate # 0 /\ p.de < q.ate
  /\ p.ate # 0 => q.de < p.ate

Sobrepoe(p, q) ==
  /\ q.ate # 0 => p.de < q.ate
  /\ p.ate # 0 => q.de < p.ate

-----------------------------------------------------------------------------
(* Carregar, montar and NovaInstalacao.                                    *)

\* AnalisarIDDoPontoDeMedicao.
PontoLegivel(nome) == nome \in Pontos

\* AnalisarGrandeza: a name of the contract, but for that of the unspecified one.
GrandezaLegivel(nome) == nome \in Grandezas

\* NomeDaGrandeza: whatever number was declared, under a name; a number the
\* contract does not have gets one that does not parse.
NomeDaGrandeza(grandeza) == IF grandeza \in Grandezas THEN grandeza ELSE Nada

\* analisarVigencia: blank, a day or an instant.
VigenciaLegivel(instante) == instante # Nada

\* montar: every field parses.
LinhaLegivel(p) ==
  /\ p.dispositivo \in Dispositivos
  /\ PontoLegivel(p.ponto)
  /\ GrandezaLegivel(p.grandeza)
  /\ VigenciaLegivel(p.de) /\ VigenciaLegivel(p.ate)

\* validarMapeamento.
MapeamentoValido(p) ==
  /\ Aparada[p.unidade] # Nada
  /\ p.de # 0 /\ p.ate # 0 => p.de < p.ate

\* No two periods of one channel overlap.
CanaisSemSobreposicao(linhas) ==
  \A n, m \in DOMAIN linhas :
    n < m /\ Canal(linhas[n]) = Canal(linhas[m]) => ~Sobrepoe(linhas[m], linhas[n])

\* Mutation: only the channels are looked at.
PontosQuaisquer(linhas) == TRUE

\* recusarPontosAmbiguos: no point is fed by two channels at once.
PontosSemAmbiguidade(linhas) ==
  \A n, m \in DOMAIN linhas :
    /\ n < m
    /\ linhas[n].ponto = linhas[m].ponto
    /\ Canal(linhas[n]) # Canal(linhas[m])
    => ~Sobrepoe(linhas[n], linhas[m])

\* The gateway starts with this file; otherwise it does not start at all.
Aceita(arquivo) ==
  /\ arquivo # <<>>
  /\ \A n \in DOMAIN arquivo :
       LinhaLegivel(arquivo[n]) /\ MapeamentoValido(arquivo[n])
  /\ CanaisSemSobreposicao(arquivo)
  /\ PontosSemAmbiguidade(arquivo)

\* What montar makes of an accepted file.
Carregada(arquivo) ==
  [n \in DOMAIN arquivo |-> [arquivo[n] EXCEPT !.unidade = Aparada[@]]]

-----------------------------------------------------------------------------
(* Queries.                                                                *)

\* Lines of a channel that cover an instant.
Vigentes(linhas, canal, i) ==
  {n \in DOMAIN linhas : Canal(linhas[n]) = canal /\ CobreInstante(linhas[n], i)}

\* The first line in force, in the order of the beginnings; 0 if there is none.
Resolver(linhas, canal, i) ==
  LET V == Vigentes(linhas, canal, i) IN
  IF V = {} THEN 0
  ELSE CHOOSE n \in V :
         \A m \in V : linhas[n].de < linhas[m].de \/ (linhas[n].de = linhas[m].de /\ n <= m)

\* The point a channel fed at an instant.
PontoResolvido(linhas, canal, i) ==
  LET n == Resolver(linhas, canal, i) IN IF n = 0 THEN Nada ELSE linhas[n].ponto

\* Mutation: a binding that has an end is given without it.
VinculoAberto(p) ==
  [dispositivo |-> p.dispositivo, de |-> IF p.de = 0 THEN Epoca ELSE p.de, ate |-> 0]

\* NovoVinculo and EncerradoEm: a binding needs a beginning, and "since ever" is
\* told as the epoch; an end before the beginning is an error, and the error
\* leaves the binding open.
VinculoDe(p) ==
  LET inicio == IF p.de = 0 THEN Epoca ELSE p.de IN
  [dispositivo |-> p.dispositivo, de |-> inicio,
   ate |-> IF p.ate # 0 /\ p.ate >= inicio THEN p.ate ELSE 0]

\* Which devices fed a point, and when.
VinculosDoPonto(linhas, ponto) ==
  {VinculoDe(linhas[n]) : n \in {k \in DOMAIN linhas : linhas[k].ponto = ponto}}

-----------------------------------------------------------------------------
(* ConferirDescritor.  A declared channel is [endereco, grandeza, unidade].*)

Divergencia(especie, canal) == [especie |-> especie, canal |-> canal]

\* What is wrong with a declared channel whose configured line is p: at most one
\* thing, and nothing that was not declared.
EspeciesDoDeclarado(p, x) ==
  IF x.grandeza # Nada /\ x.grandeza # p.grandeza THEN {"quantity_mismatch"}
  ELSE IF x.unidade # Nada /\ x.unidade # p.unidade THEN {"unit_mismatch"}
  ELSE {}

\* Direction 1: what the source declares, against the configuration.
DoDeclarado(linhas, d, declarados, i) ==
  UNION {LET canal == <<d, x.endereco>>
             n == Resolver(linhas, canal, i)
         IN  {Divergencia(e, canal) :
                e \in IF n = 0 THEN {"unconfigured_channel"}
                      ELSE EspeciesDoDeclarado(linhas[n], x)}
         : x \in declarados}

\* Mutation: a channel whose period is over is missed all the same.
DoConfiguradoDeSempre(linhas, d, declarados, i) ==
  {Divergencia("missing_channel", Canal(linhas[n])) :
     n \in {k \in DOMAIN linhas : linhas[k].dispositivo = d
                                  /\ \A x \in declarados : x.endereco # linhas[k].endereco}}

\* Direction 2: channels of the device in force now that it does not declare.
DoConfigurado(linhas, d, declarados, i) ==
  {Divergencia("missing_channel", Canal(linhas[n])) :
     n \in {k \in DOMAIN linhas : /\ linhas[k].dispositivo = d
                                  /\ \A x \in declarados : x.endereco # linhas[k].endereco
                                  /\ Resolver(linhas, Canal(linhas[k]), i) # 0}}

ConferirDescritor(linhas, d, declarados, i) ==
  DoDeclarado(linhas, d, declarados, i) \cup DoConfigurado(linhas, d, declarados, i)
=============================================================================
