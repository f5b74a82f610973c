\* Every class pattern of a buffer of up to five items, every capacity, and the
\* gaps with numbers below, between and above those of the buffer.
CONSTANTS
  MaxItens = 5
  MaxLacuna = 11
SPECIFICATION Spec
INVARIANTS
  FormaFechada
