CONSTANTS
  RegistrosPorCiclo = 2
  Tentativas = 2
  Janela = 3
  Minimas = 2
  Falhas = 1
  De = 2
  MaxRecuos = 1
  MaxRegistros = 3
  MaxQuedas = 1
SPECIFICATION Spec
INVARIANTS
  IlegivelPermanece
