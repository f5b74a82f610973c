--------------------------- MODULE LacoDaSaturacao ---------------------------
(***************************************************************************)
(* The loop at the end of Buffer.Devolver as the code runs it: one         *)
(* abrirEspaco per step, from any buffer and any gap, until the buffer     *)
(* fits.  It is the reference against which the closed forms of the module *)
(* Buffer (Aparar, Caidos, Acumular) are checked.                          *)
(***************************************************************************)
EXTENDS Buffer, SequencesExt

CONSTANTS
  MaxItens,      \* Bound: longest buffer the loop starts from.
  MaxLacuna      \* Bound: largest sequence number in the gap it starts with.

ASSUME LimitesDoLaco == MaxItens \in Nat \ {0} /\ MaxLacuna \in Nat

VARIABLES
  itens,         \* b.itens
  lacuna,        \* b.lacuna
  capacidade,    \* b.capacidade
  itensAntes,    \* the items when the loop was entered
  lacunaAntes    \* the gap when the loop was entered

vars == <<itens, lacuna, capacidade, itensAntes, lacunaAntes>>

\* A buffer holds items in increasing sequence; the gap of a buffer may hold
\* older numbers and, because lost batches come back in front, newer ones too.
BuffersPossiveis ==
  UNION {{[i \in 1 .. n |-> [seq |-> 2 * i, classe |-> c[i], relata |-> 0]] :
            c \in [1 .. n -> Classes]} : n \in 1 .. MaxItens}

LacunasPossiveis ==
  {l \in [registros : 0 .. 2, primeira : 0 .. MaxLacuna, ultima : 0 .. MaxLacuna] :
     /\ l.primeira <= l.ultima
     /\ l.registros = 0 => l = SemLacuna}

Init ==
  /\ itensAntes \in BuffersPossiveis
  /\ lacunaAntes \in LacunasPossiveis
  /\ capacidade \in 1 .. MaxItens
  /\ itens = itensAntes
  /\ lacuna = lacunaAntes

\* Mutation: the range loop does not break at the first sample.
AmostraMaisNova ==
  {i \in DOMAIN itens : /\ itens[i].classe = "amostra"
                        /\ \A j \in i + 1 .. Len(itens) : itens[j].classe # "amostra"}

\* The first position of a sample, in the order of the range loop.
AmostraMaisAntiga ==
  {i \in DOMAIN itens : /\ itens[i].classe = "amostra"
                        /\ \A j \in 1 .. i - 1 : itens[j].classe # "amostra"}

AbrirEspacoDeAmostra ==
  \E i \in AmostraMaisAntiga :
    /\ itens' = RemoveAt(itens, i)
    /\ lacuna' = [lacuna EXCEPT !.registros = @ + 1]

AbrirEspacoDeEvento ==
  /\ AmostraMaisAntiga = {}
  /\ itens' = Tail(itens)
  /\ LET sequencia == Head(itens).seq IN
     lacuna' = [registros |-> lacuna.registros + 1,
                primeira  |-> IF lacuna.registros = 0 \/ sequencia < lacuna.primeira
                              THEN sequencia ELSE lacuna.primeira,
                ultima    |-> IF sequencia > lacuna.ultima
                              THEN sequencia ELSE lacuna.ultima]

\* One turn of `for len(b.itens) > b.capacidade { b.abrirEspaco() }`.
AbrirEspaco ==
  /\ Len(itens) > capacidade
  /\ AbrirEspacoDeAmostra \/ AbrirEspacoDeEvento
  /\ UNCHANGED <<capacidade, itensAntes, lacunaAntes>>

\* The loop ends when the buffer fits.
Fim == Len(itens) <= capacidade /\ UNCHANGED vars

Next == AbrirEspaco \/ Fim

Spec == Init /\ [][Next]_vars

-----------------------------------------------------------------------------
\* After any number of turns the items left are those the closed form leaves:
\* oldest samples went first, oldest events only after the last sample; and the
\* gap is the one the closed form accumulates, first and last sequence
\* included, whatever the gap held before.
FormaFechada ==
  LET n == Len(itensAntes) - Len(itens) IN
  /\ itens = Aparar(itensAntes, n)
  /\ lacuna = Acumular(lacunaAntes, Caidos(itensAntes, n))
=============================================================================
