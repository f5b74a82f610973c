# SynkaCore in TLA+

A verification project for SynkaCore: TLA+ modules that model its acquisition
and projection paths, TLC configurations that model-check them on small
instances, and theorems, checked by TLAPS, that hold for every value of the
constants. Definitions keep the names of the source (Portuguese); comments are
in English. `PROJECT.json` says for every definition which lines it models, for
every property which plausible bug would violate it, and for every hazard of
the code which property is about it, or why none is.

To run: `tlc -config MCNo.cfg No`, and so on (the table of runs names module and
configuration); `tlapm NoTeoremas.tla`.

## 1. The system

A source node (a Go program, or MicroPython on a board) samples a machine and
stores envelopes in a bounded buffer; it posts batches (remessas) to the
gateway, which records them durably in an SQLite journal before it answers. A
projection copies the journal to TimescaleDB, through a circuit breaker, and
moves a cursor; pruning removes what is old and behind the cursor.

```
 node                                 gateway
 sampling --> Buffer --> dispatch ==HTTP==> ingress --> codec --> ingestion
                ^            |                                       |
                +--Devolver--+ <== status, confirmation ===+     journal (SQLite)
                                                                     |  ^ cursor
                                    query DB <== breaker <== projection--+
                                  (TimescaleDB)                pruning
```

| Component | State | Operations | Interacts by | Hard behaviour | Correct when |
|---|---|---|---|---|---|
| Buffer (`internal/no/buffer.go`) | items, accumulated gap | Acrescentar, Drenar, Devolver, TomarLacuna, reads | mutex shared by two goroutines | saturation, order of what returns | bounded; order kept; every loss counted; samples go before events |
| Node (`internal/no/no.go`) | sequence, batch in flight, deadline, back-off | sampling, health, descriptor, dispatch, back-off, shutdown | goroutines, cancellation, HTTP | interleaving at every mutex acquisition, select races, answers of every kind | one fate per envelope; settled in order; nothing waits for ever; it ends |
| Transport of the node (`transporte.go`) | none | Despachar, EsperaDeRecuo | HTTP | time limits, status mapping | a failure is classified so that good data is kept |
| HTTP ingress (`ingressohttp`) | none | receberRemessa | a goroutine per request | cancellation, lost answers | it confirms only what is durable |
| Codec (`codecdefio`) | none | DecodificarRemessa | call | partial refusal | a bad envelope does not hold the good ones back |
| Ingestion (`aplicacao/ingestao`) | execution id | Ingerir, ancorarSessao | calls on the journal and the clock | races of two requests, restarts, steps of the clock | anchor before rows; anchor immutable; suspicion is about the clock |
| Journal (`diariosqlite`) | rows, anchors, cursor | GravarLote, GravarAncora, LerAncora, LerAPartirDe, LerCursor, AvancarCursor, Podar | one SQL connection | transactions, crash, pruning while the rest goes on | confirmed rows survive; what is nowhere else is not pruned |
| Anchor and clock (`autoridadedetempo`, `relogio`) | wall and monotonic clock | DesvioDeRelogio, VerificarDegrauDeRelogio | reads | clocks set, restarts | a step is told from drift and from a restart |
| Projection (`aplicacao/projecao`) | none but locals | rodarCiclo, converter, aoFalhar | ticker; journal, breaker, projector, tracker | failure between commit and cursor; rows that do not decode | nothing skipped; failure visible; everything arrives |
| Pipeline (`plataforma/resiliencia`) | breaker, window, opening time | autorizar, Executar, registrarResultado | called by the projection | wall clock; stale window | opens on evidence; open protects; always probes |
| Operational state (`estadooperacional`) | state | Notificar | called by the projection | contradicts the breaker | the operator is told the truth |
| Projector (`projetortimescale`) | query database | Projetar | PostgreSQL | commit whose answer is lost | idempotent and atomic |
| MicroPython node (`no-micropython/main.py`) | buffer, gap, attempts | the same as the node, one thread | sockets | a dispatch delays the sampling | the same as the node |
| Contract (`aquisicao`, `identidadededispositivo`, `statushttp.go`, `credencial`) | immutable values | validation of batch, envelope and content; identity; status | both ends of HTTP | boundary values, narrowing, a mapping read back differently | both ends mean the same; invalid values cannot be built |
| Installation (`dominio/instalacao`, `pontodemedicao`, `configuracaoarquivo`) | the file, the loaded installation | load, Resolver, VinculosDoPonto | read at the start, asked by the projection and the report | periods that begin and end, edits between restarts | one meaning per channel and instant; a label given stays |
| Commissioning (`comissionamento.go`, `esboco.go`, `descritores.go`) | declarations kept in memory | UltimosDescritores, RegistrarDescritor, report, sketch | journal, installation, clock | restarts, pruning, reads that fail, sensors that move, texts written unescaped | the report shows the last thing said; the sketch loads whenever its texts can be read back |
| SNTP server, identifiers, tools, generated contract | none | input and output | | | |

## 2. Modules

| Module | What it is |
|---|---|
| `Buffer` | the methods of the buffer as operators on the sequence of items and the gap |
| `LacoDaSaturacao` | the loop of `Devolver` as the code runs it, against the closed forms of `Buffer` |
| `Origem` | abstract specification: what a source promises, without goroutines, queue or gap |
| `No` | the node: `Buffer` with its two goroutines, cancellation and shutdown; implements `Origem` |
| `Ingestao` | the gateway from the request to the journal, a goroutine per request, restarts and clock |
| `Contrato` | what both ends of the wire agree on: contents, batches, identity, statuses (operators only) |
| `Canal` | abstract specification: what a node and its gateway promise together, without batches, answers, time limits or processes |
| `Entrega` | a node, a network and the gateway together; instantiates `Ingestao`, extends `Contrato`; implements `Canal` |
| `Disjuntor` | the resilience pipeline |
| `Projecao` | journal, pruning, projection cycle, query database and operational state; instantiates `Disjuntor` |
| `Instalacao` | the installation: validation, look-up by instant, bindings, comparison with a descriptor (operators only) |
| `Comissionamento` | the file edited and loaded, the labels of projected rows, the report and the sketch; extends `Instalacao` |
| `MCIngestao`, `MCEntrega`, `MCComissionamento` | values for TLC; `MCEntrega` also checks the rules of every content at their borders |
| `BufferTeoremas`, `LacoTeoremas`, `NoTeoremas`, `IngestaoTeoremas`, `DisjuntorTeoremas`, `ProjecaoTeoremas`, `ComissionamentoTeoremas`, `EntregaTeoremas` | theorems and proofs; `EntregaTeoremas` instantiates `IngestaoTeoremas` and `BufferTeoremas`, `ProjecaoTeoremas` instantiates `DisjuntorTeoremas`, to carry what was proved of a part into the composition |

### Buffer, LacoDaSaturacao

An envelope is its number, its class and, for a gap marker, the count it
reports: nothing else changes what the buffer does. A method of the buffer runs
under its mutex from beginning to end, so a method is an operator and the
interleavings belong to `No`. `abrirEspaco` called k times is stated in closed
form: the k items that leave are the first k of the order `SaiAntes` (samples
before events, older first), and `Acumular` gives the gap. That form is what the
proofs use, and it is not obvious: `LacoDaSaturacao` runs the loop, one
`abrirEspaco` per step, and checks after each step that the closed form gives
the same items and the same gap; `LacoTeoremas` proves it for any buffer.

### No, Origem

Variables are the fields of `No` and `Buffer` and the position of each
goroutine. The sampling goroutine's handlers fix what they are going to enqueue
(`pauta`) and then enqueue it one `Acrescentar` at a time, each with the mutex
taken anew; the dispatch goroutine can drain, or put a batch back, in between.
`emitirSaude` takes the gap first and enqueues the marker later, as in the code.
`deveDespachar` and `Drenar` are two steps. A request in flight
(`laco = "na_rede"`) ends in one of three ways: confirmed with any subset of
rejected envelopes, refused, or returned to the buffer with a back-off. After
`Cancelar` the selects may still pick a ticker, as Go's may; when both goroutines
have ended, `despacharNoDesligamento` dispatches until a failure or its time
limit. `entregues`, `recusados`, `perdidos` and `denunciados` are history.

`Origem` knows only sets: numbered envelopes wait, leave together from the
oldest on, and come back or are settled; they may be lost only if no event goes
while a sample stays. `ImplementaOrigem` is the refinement, with
`emitidos <- sequencia`, `guardados <- Itens(itens)`, `emTransito <- Itens(lote)`.

### Ingestao

One goroutine per request, with a phase per statement that touches shared state:
read the anchor; if there is none, read the two clocks and write the anchor with
ON CONFLICT DO NOTHING; if there is one of this run, check the clocks against
it; then one transaction for the batch, then the answer. Statements outside a
transaction need the one connection of the pool to be free; a transaction holds
it. Every statement may fail, and `Queda` kills the process at any point: the
journal stays, goroutines and connection are gone, the monotonic clock has a new
origin. Only the difference of the two clocks matters, so `relogio` is wall
minus monotonic clock, and `Degrau` sets it. A pause of up to `PausaMaxima`
between the two reads goes into what is read. A batch is the numbers the codec
accepts and those it refuses; `Recusar` stands for every early return before
`Ingerir`.

### Contrato, Entrega, Canal

`Contrato` has the catalogue with its classes, the checks of `NovoEnvelope` and
of each of the eight contents, the two checks of identity, the status of every
category (`StatusDe`) and what `Despachar` makes of a status
(`CategoriaDoStatus`). Bytes and texts are their length. The version travels as
32 bits and is looked at as 16 (`VersaoLida`).

`Entrega` puts the node and the gateway together. The node is coarser than `No`
(its goroutines are checked there): it samples, sends its oldest envelopes, waits
for one answer, and gives up (`Desistir`), which ends the wait and not the
request: the batch goes back while the request may still be taken up
(`Atender`), served before or after its own repetition, or lost (`Sumir`).
`Ingestao` is instantiated whole and serves each request step by step; every
failure of the journal and every restart of `Ingestao` is there. The answer
arrives only if the node still waits for that request (`Chegar`) and is otherwise
lost (`Extraviar`). The node reads the category back from the status alone. It
may restart under a new boot session (`Religar`), and its certificate may name
another device, or nobody, until someone mends it; a request keeps the
certificate it was sent with.

`Canal` knows an envelope by session and number and only where it is: held, with
a row, freed as delivered, thrown away as refused, pushed out, gone with the
memory. Rows may be written at any time for any envelope that exists and was not
refused; what is freed needs a row, what is thrown away must have none. There are
no batches, requests or goroutines in it. `EntregaTeoremas` has the refinement,
with `emitidos <- Emitidas`, `retidos <- Retidas`, `recusados <- Recusadas`; it is
proved and in no run of its own.

### Disjuntor, Projecao

`Disjuntor` has the breaker's state, the sliding window, the attempt in progress
and whether the wait of the open breaker is over. The wall clock may be set back
(`RecuarRelogio`). `Projecao` runs the cycle: read the cursor, read the rows,
authorise, attempt, advance the cursor, tell the state. Each is a step; ingestion,
the two halves of `Podar` and a restart come in between. An attempt that fails
may have committed all the same (`TentarDeNovo`, `Esgotar`), and a batch without
a line that decodes succeeds without reaching the database, as `Projetar` returns
at once. A row decodes or does not; one that does has at least one line. `Podar`
has no caller in the sources; it is modelled as an operation that a maintenance
task may run at any time. `Saude` is what /saude answers from that state.

### Instalacao, Comissionamento

A file is a sequence of lines: device, address, point, quantity, unit and a
period. `Aceita` is every refusal of `montar` and `NovaInstalacao`, `Resolver`
the line of a channel at an instant, `VinculosDoPonto` the bindings of a point,
`ConferirDescritor` the comparison with what a source declares.

`Comissionamento` has the operator who adds lines and ends periods while the
gateway runs, the start that reads the file and refuses it or not, rows and
descriptors that enter the journal, the projection that gives a reading its
point (`enriquecer`), pruning, a wall clock that may be set back, and the
declarations kept in memory. The report and the sketch are operators on that
state. Who calls `UltimosDescritores` is not in the sources (the program of the
gateway is not there); docs/V2.2.md:336-356 says when: before the server answers,
and then every 30 s. So `Partir` fills the report, or starts with none if the read
failed, and a refill is `LerDescritores`, a snapshot of the journal, and one
`RegistrarDescritor` per source, with rows, pruning and clock in between; the
next one begins when the last has ended. `lidoAte`, history, is how many rows
had been written at the last read.

The sketch is text that somebody saves as a file. Its texts are written as they
are: the name of the installation, devices and points plain (esboco.go:76, :127,
:130), the unit between double quotes (:132). `LinhaLida` is the line as the
decoder reads it back and `Carrega` is `Carregar` on the whole: decoding, then
`Aceita`. What the decoder makes of a text is a constant, `LidoSemAspas` and
`LidoEntreAspas`: the same text, another one (a comment cut off, an escape), nothing,
or `Malformado`, which refuses the file. Devices and points have an alphabet that
survives, but for the name null; identifiers and units have none. A unit that
closes its own quotes and continues with further fields is not considered.

## 3. Runs

| Run | Module, cfg | Shows | States |
|---|---|---|---|
| `saturacao` | LacoDaSaturacao, MCLacoDaSaturacao | loop = closed form, for items and gap | 118 378 |
| `no` | No, MCNo | one fate, settled in order, gap, events spared, refinement of `Origem` | 2 172 719 |
| `no_progresso` | No, MCNoProgresso | with a gateway that returns nothing waits for ever; a cancelled node ends, whatever the gateway does | 20 529 |
| `ingestao` | MCIngestao, MCIngestao | confirmed is durable, durable is anchored, anchors stay, suspicion is honest | 3 747 624 |
| `entrega` | MCEntrega, MCEntrega | what the node freed is recorded, what it threw away is invalid, every hole in the journal is explained, rows can be dated, `duravel_ate` does not lie, only the owner writes | 2 749 747 |
| `entrega_progresso` | MCEntrega, MCEntregaProgresso | every request gets its answer; once the network is back every envelope leaves the node | 98 294 |
| `disjuntor` | Disjuntor, MCDisjuntor | protection, evidence, probing | 372 |
| `projecao` | Projecao, MCProjecao | cursor, pruning, visible failure; every row that decodes arrives | 193 569 |
| `comissionamento` | MCComissionamento, MCComissionamento | one meaning per channel and instant, labels stay, bindings answer, one verdict per channel, the sketch loads exactly when its texts survive, the report shows the last thing said | 2 369 244 |
| `ilegivel_podado` | Projecao, MCIlegivelPermanece | finding 1 | |
| `ponto_mudo` | MCComissionamento, MCPontoMudo | finding 2 | |
| `credencial_recusada` | MCEntrega, MCCredencialRecusada | finding 3 | |

Bounds, and why they are enough:

* `saturacao`: buffers of up to five items with every class pattern, every
  capacity, gaps with numbers below, between and above those of the buffer: the
  loop treats an item by its class, its place and how its number compares with
  the two ends of the gap, and all combinations occur.
* `no`: capacity 3 and batches of 2, so a batch and the arrivals behind it do
  not fit together and a drain may leave something behind; with eight numbers a
  batch returns over a full buffer more than once, markers are made and pushed
  out, and an event is removed after samples were counted. `MaxSequencia` is the
  only bound on the behaviour. The liveness run has capacity 2 and five numbers,
  where saturation, back-off and shutdown still all happen; arrivals end there
  with the fifth number, so that a stream of arrivals that never ends is only
  exercised as far as a full buffer and what comes behind it. What needs longer
  histories (events lost out of order in one gap) is covered by the theorems and
  by `saturacao`.
* `ingestao`: two goroutines (symmetric), two batches of one session and one of
  another session whose only envelope is refused, two runs of the process, clock
  offsets 0, 1 and 3 with tolerance 1 and pause 1: steps within and beyond the
  tolerance, in both directions, pauses that hide or feign part of a step.
* `entrega`: four envelopes over two boot sessions, capacity 3, batches of 2,
  two requests alive, two goroutines (symmetric): a batch given up and its
  repetition, or its successor, are served at the same time in either order, a
  batch returns over a full buffer, and a session ends with requests of it still
  on the way. Contents are an event and one the gateway refuses. The limits of
  the contract are small (two envelopes per batch, two bytes of content) so that
  both sides of each occur in the assumptions of `MCEntrega`. The gateway is
  killed in `entrega_progresso` (two runs, two envelopes, one session) and at
  every point of `ingestao`.
* `disjuntor`: window 4, least number 3, rate 1/2, two attempts; the window
  slides and the least number is less than its size. The wall clock is set back
  twice at most.
* `projecao`: three rows of which any may fail to decode, two per cycle, so a
  batch may be all, partly or not at all decodable; one restart; window 3, least
  number 2.
* `comissionamento`: two devices, two addresses, four points, files of two
  lines with instants 1 to 3 (the epoch is 2) of which one period ends: two lines
  meet in the same channel, or the same point, with periods that overlap, touch or
  follow each other, and one may end before the epoch; two rows, one restart, the
  clock free to go back. Texts that survive and texts that do not: a point named
  null, a unit with a quote, one with a blank, none at all, an identifier with
  ": " in it.

`MaxSequencia`, `MaxEnvelopes`, `MaxPartidas`, `MaxPedidos`, `MaxExecucao`,
`MaxRecuos`, `MaxRegistros`, `MaxLinhas`, `MaxEncerradas`, `MaxAgora`, `MaxQuedas`, `MaxItens` and
`MaxLacuna` are bounds of the models, not of the code; their declarations say so.
Deadlock is checked in every run but those of `Entrega`, where the node may have
used up its envelopes and settled them all; elsewhere a state where the program
has ended stutters explicitly (`Terminado`, `Fim`).

Fairness. Safety runs assume none. `No!Justica`: a runnable goroutine runs, a
timer fires, every request is answered or times out (`http.Client.Timeout`); Go's
select picks among ready cases at random, so a cancellation that is ready again
and again is picked (strong fairness of the two stops).
`GatewayVolta`, the premise of `NinguemEsperaParaSempre` only, says that a request
made again and again is confirmed now and then: without it, back-off for ever is
the correct behaviour. `Ingestao` as part of `Entrega!Justica`: the
`database/sql` pool serves waiters in order, so a goroutine that could work again
and again does (strong fairness per goroutine); what is on the wire is taken up
or lost, the loop of the node sends what it has, its time limit ends a wait
nothing else can end, and somebody mends the credential, as the comment at
no.go:450 expects. `RedeVolta`, the premise of `TodoEnvelopeTemDestino` only,
says that from some time on requests are served within the time limit and the
journal does not fail. `Disjuntor` and `Projecao`: the ticker calls, time passes,
an attempt ends by its time limit; for `TudoChegaAoDestino`, `Projecao` assumes
in addition that reads and writes of the journal and an attempt that is made
again and again succeed now and then, and bounds restarts and clock steps, which
could otherwise prevent progress for ever. A row the query database refuses for
itself, and not for being away, denies that premise: its batch fails in every
cycle and the projection stays there.

## 4. Findings

Each is a run that ends with a counterexample to what a comment says.

1. `IlegivelPermanece` (diario.go:357). The cursor passes rows that do not decode
   because "o registro bruto CONTINUA no diario"; `Podar` deletes them.
2. `PontoMudoAparece` (apresentacaohttp/comissionamento.go:149). The comparison
   of file and descriptors is said to run in both directions, so that a
   configured point that never receives data does not stay invisible; the report
   iterates over the devices that declared something, and a device that never
   connected is in no line of it.
3. `CredencialNaoCustaDado` (transporte.go:131). no.go:450 says that a refused
   credential must not cost data; `Despachar` has no case for 401, which falls
   under every other 4xx, and the node throws the batch away.

Other places where the code and what is said of it differ, met while modelling
and kept by the models as the code has them:

* The gap's first number is set only when nothing was counted before or the
  number is smaller (buffer.go:125): once a sample was counted, the marker
  reports an interval from 0. `Acumular` has it so, and `LacunaCobreEventos` says
  what still holds: the interval covers every event lost.
* A marker is an event; in a long outage saturation removes it, and the count it
  carried (buffer.go:119), against "perda NUNCA seja silenciosa" (buffer.go:52).
  `LacunaContaPerdas` counts it among what was lost.
* The shutdown dispatches the items but not the pending gap (no.go:521).
* The window is evaluated after a success too (resiliencia.go:263); the
  successful call that completes the least number of calls can open the breaker,
  and the cycle then tells "conectado" (projecao/servico.go:157).
* A gap may name as lost an envelope the journal has: its batch was recorded and
  the answer lost, it came back, and saturation took it. Hence `perdidos` is not
  disjoint from the journal in `Entrega`.
* The proto file calls the numbers of a session contiguous; saturation breaks
  that. `DuravelAteNaoMente` shows that `duravel_ate` is safe all the same.
* A row may be older than the anchor of its session, which then never dates it:
  saturation took the first envelopes of the batch that was given up and a
  shorter repetition anchored the session. ancoradesessaodeboot.go gives a
  restart as the only cause; `LinhaDatavel` names the exception.
* The proto file says that the version is no gate of compatibility
  (aquisicao.pb.go:311); `NovoEnvelope` refuses every other version, but one
  that is 1 in its lower 16 bits (codecdefio.go:159).
* A sample with a NaN passes `min <= max`; a descriptor at every one of its own
  limits (256 channels, 64 bytes each) exceeds the limit of a content.
* "O esboço gerado carrega" (docs/V2.2.md:328; esboco.go:29 says that what comes out
  must be something valid). The unit is written between quotes without
  escaping (esboco.go:132), though only its length is checked
  (conteudodescritordaorigem.go:147), and the name of the installation plain
  (esboco.go:76): a quote, a backslash or a line break in a unit, or ": " in the name,
  gives a file that `Carregar` refuses or reads as something else, and a point
  named null is read as no name. `EsbocoServe` says that the sketch loads exactly
  when the decoder gives a text for each of its texts, and what follows when it
  gives the same text; the run has cases of both. A unit with blanks around it
  survives the quotes and is then trimmed in the file (configuracaoarquivo.go:205)
  and not in the comparison, so it never matches. The sketch has no period, and
  its mark of a missing unit reads as a unit.
* apresentacao.go:88-90 says that after a restart the report stays empty until each
  source sends its descriptor again, comissionamento.go:99 that `sources_seen` counts
  those of this run ("NESTA execucao"), and comissionamento.go:37 that the projection
  calls `RegistrarDescritor`. descritores.go:20-23 and docs/V2.2.md:336-356 say the
  opposite: what the journal holds is read before the server answers and then
  periodically, apart from the projection, which in servico.go does not call it.
  The caller is not in the sources; the model follows the latter, so that `Partir`
  shows what sources said before the restart, and the empty report is what a
  failed read leaves.
* A binding whose line has no beginning and ends before 1970 is told as open for
  ever, since `EncerradoEm` refuses the end and the error is dropped
  (instalacao.go:371-390). `VinculosRespondem` says that it is told of exactly
  those devices.
* The jitter is added after the ceiling of the back-off (transporte.go:174);
  `Podar` compares instants as RFC 3339 text, whose order within a second is not
  that of time; sequence numbers are stored as int64; a consumer without a row
  of its own is not counted when `Podar` takes the smallest cursor.

## 5. Proofs

All theorems are checked by TLAPS from the named assumptions on the constants
(`ConfiguracaoValida`; `LimitesDoLaco`; `RemessasValidas`, `RecusasValidas`, `RelogioValido`,
`ConexaoLivre`; `AjustesValidos`; `LimitesValidos`, `PipelineValida`; `ValoresValidos`,
`EntradasValidas`, `TextosValidos`; `LimitesDoContrato`, `LoteCabe`, `LimitesDaEntrega`), which TLC
evaluates in every run. Where a theorem needs more it says so: a service that
demands the identity (`SoODonoSempreGrava`), identifiers that the domain accepts
(`TudoLegivel`), contents whose type is in the catalogue (`ConteudosDoCatalogo`),
names of points that do not run out (`NomesBastam`). The runs' constants satisfy
each of these but the last, which speaks of every finite set of lines and so needs
infinitely many names, as texts are; the run has as many as its sketches need. Numbers of goroutines, batches, restarts, capacities and window
sizes are arbitrary. The bounds of the models (`MaxSequencia` and the like) are
arbitrary naturals there, so they bound nothing that a theorem says.

**BufferTeoremas.** What the closed forms do, for sequences of any length:
`Descartados` exists and is unique (by its definition as the k first of a
total order), `Restante` keeps order and removes exactly `Caidos`, an event is in
`Caidos` only if no sample is left, `Acumular` counts `Caidos` and its interval
covers the events among them. Existence is by the least k without such a set,
with the well-foundedness of the naturals, because an induction theorem over a
predicate cannot be used. `ApararPorContagem` and `DrenadosPorContagem` say the same
without positions: an item stays if fewer than `cap` others leave after it, and
goes in a batch if fewer than the limit are older. They are what `Entrega` uses.

**LacoTeoremas.** The loop has an invariant (`InvLaco`), so the agreement of loop and
closed form needs no induction over the turns as such: after k turns, what is left
and the gap are `Aparar(itensAntes, k)` and `Acumular` of `Caidos(itensAntes, k)`.
A turn takes the first sample, or the head if there is none; the proof shows that
this is the least remaining position in the order `SaiAntes`, so that the first k
and it are the first k + 1 (`Descartados` is unique), that the m-th remaining
position moves down by one behind it, and that the gap's interval and count, which
are those of a set, take in one more event or sample.
`LacoRetiraSoOExcesso`: when the loop stops, k is `Excesso`, hence `No` may take the
whole loop in one step.

**NoTeoremas.** The inductive invariant is TypeOK with the invariants of the run,
`OrdemDeSequencia`, `LimitesDeMemoria` and `PerdidosFinitos`: counting losses (`LacunaContaPerdas`) needs the set of
lost envelopes finite; one fate needs the order of numbers (a returned batch
could otherwise repeat a number), order needs one fate, and the gap's interval
needs both. `EventoSoCaiSemAmostra`, `ResolveEmOrdem` and the refinement
`NoImplementaOrigem` follow from it: an `Acrescentar` is `Nascer`, a drain is
`Partir`, answers are `Resolver` and `Voltar`, the rest stutters.

**IngestaoTeoremas.** The inductive invariant adds to the run's: the connection is
held by the goroutine inside its transaction and by no other (`ConexaoTemDono`),
who is past `Receber` has a batch with an accepted envelope (`ComRemessa`), a success that is
being answered is in the journal (`ConfirmaOGravado`), who is about to write rows
has an anchor (`GravaAncorado`), and every anchor, stored or held, differs from
the history of steps by at most the pause (`AncorasFieis`), which is what makes
`VereditoHonesto` inductive: the two readings are equal but for steps and two
pauses in the same run, and other runs are never compared.

**DisjuntorTeoremas.** `AbreComEvidencia` needs `JanelaRecente`: the window holds
no more results than calls since the last recovery while those are few.
With it, `FechadoAbaixoDaTaxa`: a closed breaker's window is below the
rate, so what opened it never counts again.
The theorems speak of the breaker alone; `ProjecaoUsaODisjuntor` shows that the
projection makes only steps of `Disjuntor`, or none, or a new pipeline at a restart
(whose initial state satisfies the invariant), hence all of them hold inside it
(`DisjuntorValeNaProjecao`).

**ProjecaoTeoremas.** `CursorNaoPulaNada` is inductive with: rows between what was
read as cursor and the cursor of the batch are in the batch (`LoteCompleto`),
rows the cursor has not passed are in the journal (`NaoPassadoFica`), an advance
comes after the batch was projected (`AvancaOProjetado`), and the call in
progress is the loop's (`ChamadaDoLaco`). `PodaNaoPerde` follows because the
cursor read by `Podar` is never ahead of the cursor. `FalhaFicaVisivel` needs
that a failure leaves something pending (`FalhaDeixaPendente`), so that the
"nothing pending" branch cannot report a connection. `DestinoSemprePoupado` joins the
two modules: while the breaker is open no attempt is made and the query database
does not change, whatever else the cycle, the pruning or a restart does.

**ComissionamentoTeoremas.** The installation in use was accepted line by line
(`Boa`); its lines are lines of the file on disk, up to their units and to ends
written since (`LidoDoArquivo`); and a label comes from a line of the file that had
begun when the reading was taken (`RotuloTemLinha`).
`FonteSempreUnica` comes from the first, as the loaded installation never changes;
`RotuloSempreFica`, `VinculosSempreRespondem` and `RelatorioSempreAtual` from the
others. `VereditoSempreUnico` rests on a descriptor naming an address once
(conteudodescritordaorigem.go:140 refuses it otherwise; part of `EntradasValidas`).
`RelatorioSempreAtual` needs that what is shown, or read and not shown yet, is no
later than the last read (`NoRelatorio`): a row registered late is then no earlier
than the one it replaces, unless that one was pruned.
`EsbocoSempreServe` needs that no two lines of the sketch share a channel or a
point, which is `FonteSempreUnica` at the present instant, that reading the text
back keeps them apart (a name is read back as itself or as nothing, which is
refused), and that a finite sketch is a sequence of its lines; it assumes that
names that survive the decoder do not run out (`NomesBastam`).

**EntregaTeoremas.** Every step of the composition is a step of `Ingestao` or leaves
its variables alone (`GatewayImplementaIngestao`), so the invariant proved there
holds here: `Base` is that, with the buffer's numbers distinct and given
(`NoCerto`) and what a goroutine decoded being what its request carries
(`ServeOPedido`). `EntregueSempreNoDiario` and `TodoBuracoExplicado` follow because
whatever leaves the buffer gets somewhere (`Encolhe`, `Assentado`, `TudoExplicado`).
`DuravelAteNuncaMente` needs `FilaPrimeiro`: a request of the session takes along
everything the buffer holds up to its last number. `RecusadoSempreInvalido` needs
what an open request and a goroutine carry to be legible (`PedidoCheio`,
`EsperaLegivel`). `LinhaSempreDatavel` rests on the anchor: a number means one
envelope wherever it is (`UmConteudo`), an anchor on its way is that of the first
accepted number (`AncoraPropria`), and a request that would anchor its session too
late finds it anchored, unless saturation took something of the session
(`PrimeirosJuntos`); so nothing that is or may become a row is older than the
anchor (`AncoraNoInicio`).

`EntregaImplementaCanal` is the refinement of `Canal`. It needs, beyond the above,
that no envelope is both waiting and on its way (`Separados`), that a row is of an
envelope that was given (`DiarioEmitido`), and that whatever has a row was accepted by
the gateway (`DiarioBom`), so that what an answer refuses has no row (`RecusaJusta`);
together they are inductive (`Contas`), since a number means one envelope
(`UmConteudo`). A step of the gateway is `Gravar`,
possibly of nothing; `Amostrar` is `Nascer`; an answer is `Resolver` or, when the
batch comes back, `Perder`. `SempreUmDestino` and `DestinoSempreDefinitivo` are then
proved from the steps of `Canal` alone.

`Entrega` keeps what the node holds as a set and says by counting what the
saturation takes; `Buffer` keeps a sequence. `Retrata` relates the two (same
numbers and classes, in order), and `BufferDaEntregaEODoCodigo` shows that sampling,
sending and taking back act on related states as `Acrescentar`, `Drenar` and
`Devolver`. It needs that the batch is older than all that waits
(`LoteSempreNaFrente`, which also says that such sequences always exist): only then
is putting it in front the same as keeping the order.

Proved, and in no run of its own, because the invariant of its module contains it
or gives it at once: `GatewayImplementaIngestao`, `OrdemDeSequencia`,
`LimitesDeMemoria`, `ConexaoTemDono`, `FechadoAbaixoDaTaxa`, `CursorSoAvanca`, the types
of `Disjuntor`, `ResultadoDoLaco`; and what relates two modules:
`ProjecaoUsaODisjuntor`, `DisjuntorValeNaProjecao`, `AbertoPoupaODestino`, the
refinement of `Canal` with its promises, `EmSequencia` and `PassoDoBuffer`.

Every invariant, action property and refinement of a passing run is proved. Only
model-checked is liveness (`NinguemEsperaParaSempre`, `DesligaSempre`,
`TodaRemessaTemResposta`, `TodoEnvelopeTemDestino`, `SempreSonda`,
`TudoChegaAoDestino`), which needs fairness and ENABLED and is out of the prover's
reach.

## 6. Not modelled

* The MicroPython node: a second implementation of the node in another language,
  one thread and a list. What the gateway owes it, that it may free its buffer up
  to `duravel_ate`, is checked in `Entrega`.
* The return of the pipeline on a cancelled context (resiliencia.go:175 and :188): it happens
  when the gateway ends, records no result and leaves a pipeline nobody calls again.
* The back-off's length (`EsperaDeRecuo`), latencies and rates: no property here
  depends on how long something takes, only on whether it ends.
* The policies of a class other than saturation (latency, durability,
  retention): they have no caller in the sources, nor have
  `MaiorSequenciaDuravel` and `EstimarInstanteDaAmostra` (the model has which
  rows it could date).
* The pages /leituras and /contrato, the columns of a projected row beyond its
  point, the plausible range, the catalogue of stop reasons: data nothing else
  reads.
* The SNTP server (answers each request from the clock and keeps no state),
  random identifiers, the issue of certificates and the TLS settings, the chamber
  simulation (any turn of sampling may see a change in `No`), the tools, generated
  code, the migrations, deployment files, the dashboards and the former Java
  version: input and output, no state of their own.
* Reuse of a key after pruning: an envelope whose answer was lost and whose row
  was pruned before it is sent again is recorded twice; it takes a request that
  waits longer than the retention, and `Entrega` has no pruning.
