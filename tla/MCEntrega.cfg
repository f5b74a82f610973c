CONSTANTS
  t1 = t1
  t2 = t2
  no1 = no1
  no2 = no2
  semNome = semNome
  Livre = Livre
  Ausente = Ausente
  NaN = NaN
  Identificadores <- MCIdentificadores
  ExigirIdentidade = TRUE
  EnvelopesMaximos = 2
  ConteudoMaximo = 2
  LigadoMaximo = 5
  TextoMaximo = 1
  CanaisMaximos = 2
  Tratadores <- MCTratadores
  Dispositivo = no1
  Credenciais = {no1, no2}
  Conteudos <- MCConteudos
  Capacidade = 3
  EnvelopesPorRemessa = 2
  MaxSequencia = 4
  MaxEnvelopes = 4
  MaxPartidas = 2
  MaxPedidos = 2
  MaxExecucao = 1
SPECIFICATION Spec
SYMMETRY MCSimetria
INVARIANTS
  TypeOK
  EntregueEstaNoDiario
  RecusadoSoInvalido
  BuracoTemExplicacao
  LinhaDatavel
PROPERTIES
  DuravelAteNaoMente
  SoODonoGrava
CHECK_DEADLOCK FALSE
