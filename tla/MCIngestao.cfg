CONSTANTS
  s1 = s1
  s2 = s2
  t1 = t1
  t2 = t2
  Livre = Livre
  Sessoes <- MCSessoes
  Tratadores <- MCTratadores
  Remessas <- MCRemessas
  Desvios <- MCDesvios
  Recusas = {"entrada_invalida"}
  Tolerancia = 1
  PausaMaxima = 1
  MaxExecucao = 2
SYMMETRY Simetria
SPECIFICATION Spec
INVARIANTS
  TypeOK
  ConfirmadoDuravel
  DadoTemAncora
  VereditoHonesto
PROPERTIES
  AncoraImutavel
