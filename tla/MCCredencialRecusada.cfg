CONSTANTS
  t1 = t1
  t2 = t2
  no1 = no1
  no2 = no2
  semNome = semNome
  Livre = Livre
  Ausente = Ausente
  NaN = NaN
  Identificadores <- MCIdentificadores
  ExigirIdentidade = TRUE
  EnvelopesMaximos = 2
  ConteudoMaximo = 2
  LigadoMaximo = 5
  TextoMaximo = 1
  CanaisMaximos = 2
  Tratadores <- MCTratadores
  Dispositivo = no1
  Credenciais = {no1, semNome}
  Conteudos <- MCConteudos
  Capacidade = 2
  EnvelopesPorRemessa = 2
  MaxSequencia = 2
  MaxEnvelopes = 2
  MaxPartidas = 1
  MaxPedidos = 2
  MaxExecucao = 1
SPECIFICATION Spec
PROPERTIES
  CredencialNaoCustaDado
CHECK_DEADLOCK FALSE
