\* Two samples and an event fit nowhere at once, so the saturation, the back-off
\* and the shutdown all happen within five envelopes.
CONSTANTS
  Capacidade = 2
  EnvelopesPorRemessa = 2
  MaxSequencia = 5
SPECIFICATION SpecJusta
PROPERTIES
  NinguemEsperaParaSempre
  DesligaSempre
