CONSTANTS
  Capacidade = 3
  EnvelopesPorRemessa = 2
  MaxSequencia = 8
SPECIFICATION Spec
INVARIANTS
  TypeOK
  UmDestinoParaCadaUm
  DecididoTemItem
  LacunaContaPerdas
  LacunaCobreEventos
PROPERTIES
  EventoSoCaiSemAmostra
  ResolveEmOrdem
  ImplementaOrigem
