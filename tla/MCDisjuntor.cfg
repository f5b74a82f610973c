CONSTANTS
  Tentativas = 2
  Janela = 4
  Minimas = 3
  Falhas = 1
  De = 2
  MaxRecuos = 2
SPECIFICATION SpecJusta
INVARIANTS
  AbertoNaoTenta
  AbreComEvidencia
PROPERTIES
  SempreSonda
