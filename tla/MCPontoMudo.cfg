CONSTANTS
  d1 = d1
  d2 = d2
  mancal = mancal
  nulo = nulo
  bomba = bomba
  oleo = oleo
  temperatura = temperatura
  pressao = pressao
  Cel = Cel
  CelComEspaco = CelComEspaco
  CelComAspas = CelComAspas
  kPa = kPa
  planta = planta
  plantaComDoisPontos = plantaComDoisPontos
  ajustar = ajustar
  Nada = Nada
  Dispositivos = {d1, d2}
  Enderecos = {0, 1}
  Pontos = {mancal, nulo, bomba, oleo}
  Grandezas = {temperatura, pressao}
  Unidades = {Cel, CelComEspaco, CelComAspas, kPa, ajustar}
  Aparada <- MCAparada
  Marca = ajustar
  Identificadores = {planta, plantaComDoisPontos}
  LidoSemAspas <- MCLidoSemAspas
  LidoEntreAspas <- MCLidoEntreAspas
  Malformado = Malformado
  Epoca = 2
  LinhasPossiveis <- MCLinhas
  Leituras <- MCLeituras
  Descritores <- MCDescritores
  MaxLinhas = 2
  MaxEncerradas = 1
  MaxAgora = 3
  MaxRegistros = 2
  MaxQuedas = 0
SPECIFICATION Spec
INVARIANTS
  PontoMudoAparece
