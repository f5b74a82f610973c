-------------------------- MODULE MCComissionamento --------------------------
(***************************************************************************)
(* Commissioning for TLC: two devices with one input each.  The lines the  *)
(* operator may write give the bearing (mancal) to either device, from     *)
(* ever or from an instant on, or another point, named null, to the first  *)
(* one; periods end at any instant, the wrong order included.              *)
(***************************************************************************)
EXTENDS Comissionamento

CONSTANTS d1, d2, mancal, nulo, bomba, temperatura, pressao, Cel, CelComEspaco, CelComAspas,
          kPa, oleo, ajustar, planta, plantaComDoisPontos

L(d, ponto, grandeza, unidade, de) ==
  [dispositivo |-> d, endereco |-> 0, ponto |-> ponto, grandeza |-> grandeza,
   unidade |-> unidade, de |-> de, ate |-> 0]

MCLinhas ==
  {L(d1, mancal, temperatura, Cel, 0), L(d2, mancal, temperatura, Cel, 2),
   L(d1, nulo, pressao, kPa, 3)}

MCAparada ==
  [u \in Unidades \cup {Nada} |-> IF u = CelComEspaco THEN Cel ELSE u]

\* A point named null is nothing, an identifier with ": " in it is a mapping.
MCLidoSemAspas ==
  [t \in Identificadores \cup Dispositivos \cup Pontos \cup {Marca, Nada} |->
     IF t = nulo THEN Nada ELSE IF t = plantaComDoisPontos THEN Malformado ELSE t]

\* A quote in a unit ends the quotes it is written between.
MCLidoEntreAspas == [u \in Unidades |-> IF u = CelComAspas THEN Malformado ELSE u]

MCLeituras == {<<d1, 0>>}

D(d, canais) == [dispositivo |-> d, canais |-> canais]

X(e, g, u) == [endereco |-> e, grandeza |-> g, unidade |-> u]

\* The first device declares what one of its lines says and the other does not, and
\* an input no line names, without a unit; the second one declares the input of its
\* line alone, with a blank in the unit, or another input, with a quote in it.
MCDescritores ==
  {D(d1, {X(0, pressao, kPa), X(1, pressao, Nada)}),
   D(d2, {X(0, temperatura, CelComEspaco)}),
   D(d2, {X(1, pressao, CelComAspas)})}
=============================================================================
