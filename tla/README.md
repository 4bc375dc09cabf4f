# TLA+ models of adc-monitor

TLA+ modules, TLC configurations and TLAPS proofs for `widgetlords-pi-spi-8ai`:
a daemon in C that reads 32 analog inputs and 8 outputs of a Raspberry Pi and
tells a TCP client about them, and the small web stack in front of it. Paths
below are relative to `src/adc-monitor/` unless they start with `src/`.

## The system

| Component | State | Operations | Talks to |
|---|---|---|---|
| ADC driver, `src/drivers/adc_mcp3008.c` | per channel: ring of samples, running sum, reported value, flag; a descriptor per device; a mutex | init, read, get_raw_value, is_updated, set_is_updated, clean | main loop (read), API thread (the rest) |
| GPIO driver, `src/drivers/gpio.c` | per line: handler, state, event, flag; a mutex | init, read, write, get_value, is_updated, set_is_updated, clean | the same two threads, the board |
| Main loop thread, `src/tasks/mainloop.c` | its place | initialises both drivers, then reads every input for ever | drivers |
| API thread, `src/tasks/api.c` | sockets, request and reply buffers, `_msgid` of the last request | accept, select with a 500 ms timeout, get/all, set/out, error replies, pushes of flagged inputs | drivers, one TCP client |
| Main thread, `main.c` | the exit handler, the signal handlers | starts the threads; on SIGTERM or an error cancels, cleans and joins them | both threads |
| JSON parser, `src/utils/libjson.c` | a pool of objects | parse, getters | API thread |
| WebSocket gateway, `src/web-services/websocket-gateway` | the TCP socket, the WebSocket clients | adds a `_msgid` and forwards requests, broadcasts what it receives, reconnects to the daemon after 1 s | API thread, browsers |
| Browser page, `src/web-services/web-server/public` | the values it shows, the timers of its pulses | connects once, asks get/all once, set/out twice for a pulse | gateway |
| Web server, log, build tools, example | none that matters here | | |

### What is hard about it

* The two threads share the drivers, and each driver *call* is a critical
  section; a reply makes up to three calls for each input.
* Flags are cleared when a reply is built, long before a client has it: a reply
  that overflows, or is written to a closed socket, takes its news with it.
* The API thread waits in three places (accept, select, read), and a second
  client can move it to the wrong one.
* Threads are cancelled asynchronously, and their mutexes are initialised and
  destroyed while others may use them.
* Initialisations fail half-way, and an error code is overwritten.
* The filter keeps a running sum that is never recomputed, and its dead band
  has two exceptions at the ends of the range.
* Commands fail after their first pairs were executed.
* TCP carries bytes: a read of the daemon may bring several requests or a part
  of one, and a chunk the gateway broadcasts several replies or a part of one.
* Daemon, gateway and pages stop and come back on their own, and nothing on the
  way repeats what was lost; a relay is opened again by a timer of a page.
* What is closed keeps its number, and may be closed or used again.

`PROJECT.json` lists these as hazards, each at its line and with the properties
that watch it, or with the reason why none does yet.

### What makes each component correct

* ADC driver: what it reports is the mean of the latest samples within a dead
  band; it forgets, rejects noise, reaches the ends of the range, and raises its
  flag for changes only.
* GPIO driver: its memory of an output is what the line does; it never reports
  an output it does not hold; starting and cleaning leave relays open.
* Pushing: a client that listens ends with the value of every input; what it
  cannot get is known and bounded to named cases.
* Threads: mutual exclusion; the process ends when told to, with the outputs
  released; nobody works on what was closed.
* API requests: a status tells what was done; an error reply answers the
  request it names.
* JSON parser: the pool never overflows, and the tree is that of the text.
* Gateway and page: what a page shows is what the daemon has, or the news is on
  its way, or was lost at a known place; a pulse ends.

## The modules

| Module | Models | State and actions |
|---|---|---|
| `AdcMcp3008` | one channel of the ADC driver | the fields of `adc_mcp3008_t`; one action per function |
| `MovingAverage` | what a filtered input promises | a window of samples, the value shown, whether it is news: the abstract specification of `AdcMcp3008` |
| `Sums` | the sum of a sequence | a recursive function, for the two modules above |
| `Input` | what the API server relies on of any input | the value, whether it is news, whether its driver is up: the abstract specification of what `AdcMcp3008`, `Gpio` and the drivers of `UpdatePush` have in common |
| `Gpio` | the GPIO driver | the fields of `gpio_struc` and the level of each line; one action per function, with the ways it can fail |
| `UpdatePush` | main loop, API thread, client, second client around the drivers' values and flags | each driver call, each decision of `add_to_payload` and each system call of the API thread is an action; requests come from the environment |
| `UpdateHistory` | `UpdatePush` with history variables | `told`, `unseen`, `lost`: where each change has gone |
| `Lifecycle` | the three threads from start to exit | the place of each thread, the owner of each mutex, pending cancellations, the exit handler, how far the descriptors of lines and devices are: none yet, open, closed |
| `ApiRequest` | what the API thread does with a request | the outputs, the place in the loop of set/out, the pointer `msg_id`, the reply; the checks in their order, each way a pair can end, the code and the contents of the reply |
| `JsonParse` | `libjson.c` | the pool, `current`, `parent` and `next` of a parser, an operator for each function; a text is a sequence of tokens |
| `JsonReader` | what the parser promises | a reader that takes tokens by the grammar and has numbered nodes, labels and kids, no pool and no pointers: the abstract specification of `JsonParse` |
| `ReadRequest` | the lookups of `api.c` in a tree | from the text of a read to the request that `ApiRequest` carries out, and the text that the gateway writes for a request |
| `JsonText` | documents, for TLC | documents, their text and the document in a tree, blanks in a text; that half a request is taken for none |
| `Gateway` | daemon, gateway and pages over one TCP connection | each value with its flag, what the end of the daemon does to the relays, the place of the API thread, the state of the socket, the requests and replies on it, each page's view and timers; one action per event handler, and each process can stop and start |
| `MC...` | instances for TLC | values for the constants |
| `...Proofs` | theorems | see below |

How to read them against the code:

* **AdcMcp3008.** The channels share only the mutex, so one channel is one
  machine. `adc_mcp3008_read(sample)` is the whole function after the transfer:
  `Evicted`, `NextPos` (`fifo_push`), `CountAfterPush`, `Clamp` and `MustReport`
  are its statements in order. `Init` is the state after `adc_mcp3008_init`.
  `memset` there clears half of each ring only; nothing depends on it, as the
  count is reset. C's `/` and `\div` agree, as ten received bits are never
  negative (`SampleAssumption`) and so neither is their sum. `Filter` and
  `Interface` are the refinement mappings to `MovingAverage` and to `Input`.
* **Gpio.** Levels and states are both 0 and 1; `gpio_compute_value` converts
  both ways. `gpio_init(n)` covers a loop that stops at line n: the request
  refused, or granted with a first read that fails (then the line is driven and
  the handler forgotten). Handlers hold 0 before `gpio_init`, where every ioctl
  fails. The table of the code has outputs only; the driver handles inputs, and
  the instance has one.
* **UpdatePush.** `scan` is the main loop, `pc`, `cursor`, `fetched`, `reply` the
  API thread inside `add_to_payload`. `"check"`, `"get"` and `"clear"` are its
  three calls. The outputs (`io`) come first, the analog inputs (`adc`) next,
  with a room check after each key. Sizes of buffers are abstracted to whether
  the `_msgid` of a request leaves room (`roomy`); a push always fits. All
  requests refused before they do something are `BadRequest`; a pair that is not
  a number is skipped by the code and is here a shorter command. A push is sent
  at every timeout, with inputs or without, as in the code. The wire is TCP: in
  order, and blocking when full.
* **ApiRequest.** A request is what the getters of libjson find in it: a
  `_msgid` or none, a topic of the two or another, arrays with numbers or not.
  An array has a size, which `json_parse` counted and the length checks look at,
  and the items of its chain, which the loop follows: after a last comma (`[1,]`,
  which libjson takes) the chain is cut and the size is not. `FirstElements` are
  the two refusals for an empty chain.
  `QueryChecks` and `check_indexes_values_array` are the early returns in their
  order. `SkipPair` is the `continue` of the loop, `RefusePair` and `WriteFails`
  its returns, `strtoint` the cast of a long to an int. What the loop does to
  each output is `gpio_write` of the driver; building a reply is one step, as the
  calls it makes and the main loop between them are in `UpdatePush`. `"stale"`
  stands for whatever text is at the address an old `_msgid` had. A long is wider
  than an int in the arm64 build, which is the one modelled; in the armhf build
  numbers saturate and no index is wrapped.
* **JsonParse.** The loop of `json_parse` is a fold of `Step` over the tokens;
  `Step` is its `switch`. What makes a token is left out: a number is its int and
  its length, a string its characters, of which `Decoded` keeps those up to the first
  `\uXXXX`. Blanks are tokens: `json_parse` passes over them between two others, but
  a number has to have its mark right behind it (`Scanned` makes any other a number
  that is refused), and the first and the last character of a text must be its braces
  (`IsBraced`). Pointers are indexes, 0 is NULL; using a parent that is NULL is the
  state `"undefined"`. `JsonReader` is no translation of code: it is the grammar of
  JSON, object after object, with blanks anywhere. `IsRead` compares the two, and
  names where the code falls short of the grammar: the pool, and the numbers it
  cannot read (`Fits`: no int, more than ten characters, a blank behind them), a
  blank at either end, the text `{}`, which is too short, and strings with a
  `\uXXXX`. Two of these contradict comments of `libjson.c` and are findings
  (`api_statements`). It says nothing of a text that is `"wrong"`. `JsonText` is recursive and serves the runs
  only.
* **ReadRequest.** `RequestIn` is what `api.c` looks up in a tree, in its order.
  `RequestText` is the other way: the members a page and the gateway give a
  request, as `JSON.stringify` writes them. A member can be left out or be of the
  wrong type, an item can be a string. `Reads` are the reads that are looked at;
  if one brings several requests, the last has all three members
  (`ReadsAssumption`; see below for one that has not).
* **Gateway.** The daemon is `UpdatePush` seen from outside: a reply is built in
  one step, and a set/out has one pair, which is all a pulse sends. The other end
  of a connection that the gateway has lost is `"stale"` until the API thread
  reads or writes it. A WebSocket delivers in order or closes, and a page that
  receives does nothing else, so a chunk is handled when it is sent. `lost` and
  `dropped` are history: they record the named places where news or the opening
  of a relay ends, and are cleared when newer news or a newer opening arrives.
  `DaemonStops` writes the outputs as `gpio_clean` does, which closes relays (the
  finding of `gpio_clean`): all, some or, if the process was killed, none; `cleaned`
  records which, until the daemon is started again and `gpio_init` opens them. A
  read brings any number of the requests on the wire; the last is carried out, unless
  the objects of all of them do not fit in the pool (`FitsInPool`) or the read is cut
  inside a request (`RefuseRead`, which may happen to any read), when all are lost. A
  page does not connect again: the call is a comment in the code (`onclose`).
* **Lifecycle.** A place is enough to know which mutex a thread waits for or
  holds, and one visit of a critical section stands for many. What pthreads and
  `exit` do is external: locking a destroyed mutex fails at once (nobody looks),
  initialising does not look at the old state, destroying a locked mutex is
  refused, and `exit` takes a handler off its list before it calls it: whoever calls
  it next ends the process at once. A signal comes at any time, also while `free_all`
  runs: main takes the first, and as the handler masks it there, a task the next
  (`SIGTERM`). A fault of the API thread runs the handler in that thread (`SIGSEGV`).

In every module the definitions named `Slip...` are slips a programmer could
make in the definition after them. The model does not use them: they are the
mutated forms that `PROJECT.json` pairs with each property, to show that the
property notices a change of the code.

## The runs

| Run | Checks | Shows |
|---|---|---|
| `adc_filter` | `TypeOK`, `WithinDeadBand`, `ForgetsOldSamples`, `SumMatchesWindow`, `ReportsAreNews`, `NoiseIsNotReported`, `ImplementsMovingAverage`, `HeldInputIsReported` | the ring with its running sum implements the moving average; the report follows it |
| `update_history` | `HistoryTypeOK`, `OnlyNewsIsFlagged`, `ServerAccounts`, `ClientAccounts` | every change is told, flagged, in hand, or lost in one of three ways |
| `push_live` | `FlagIsServed`, `PollingClientConverges` | flags are served while the client stays and nobody else knocks; repeating get/all repairs every loss |
| `push_lost` (violation) | `NoUpdateIsLost` | a change between `get_value` and `set_update(false)` is never pushed |
| `push_stalled` (violation) | `UpdatesAreSent` | a second client blocks the pushes to the first |
| `gpio` | `TypeOK`, `MemoryMatchesLine`, `UngrantedIsSilent`, `EventTellsEdge`, `StartOpensRelays`, `RestingLineIsSeen` | memory and lines agree through every partial failure |
| `gpio_clean` (violation) | `CleanOpensRelays` | `gpio_clean` closes reversed relays |
| `api_request` | `TypeOK`, `CodeTellsEffect`, `ChangeIsTold`, `AnswersItsRequest`, `TreeIsText`, `LastRequestIsRead`, `PartIsNoRequest` | the code of a reply tells what was executed, and nothing that was is left untold; a text of JSON is parsed as the tree it is, several requests in one read as the last, a part as none |
| `api_statements` (violation) | `SomeStatementHolds` | a pair that is not a number is answered with success; an int of ten digits and a sign is refused; a string ends at its first `\uXXXX`; the query that `src/README.md` shows is refused, as it has no `_msgid` |
| `gateway` | `TypeOK`, `PageAccounts`, `RelayAccounts`, `PagesSettle`, `PulsesEnd`, `GatewayReconnects` | where news of an input and the end of a pulse can be lost, that the rest arrives, and that gateway and daemon find each other again |
| `lifecycle` | `TypeOK`, `ExclusiveUnlessReset`, `SafeExit`, `DeadLoopReleases`, `ClosedIsNotUsed`, `ClosesOnceUnlessFailed`, `ShutdownOrOrphan` | what holds of exclusion, of descriptors and of exit, and its only exceptions |
| `shutdown_hangs` (violation) | `ShutdownCompletes` | a thread cancelled in a critical section keeps the exit waiting |

These five violations are the findings of `PROJECT.json`, each with the sentence
of the repository it contradicts. `api_statements` has four of them: its property is
the disjunction of four statements about what a request may hold (an int, an escaped
symbol, no `_msgid`; a pair that is no number, which is refused), so that the state
that violates it refutes each. That the README's query has no `_msgid` does not
show in the running system: the gateway adds one (`index.js` 39-41); a client that
speaks to the daemon itself has to.

`TreeIsText`, `LastRequestIsRead` and `PartIsNoRequest` are statements about
operators, looked at in the states in which a read is parsed: `json_init` makes
each read independent of the ones before it. `TreeIsText` compares the parser with
the reader of `JsonReader`, pointers, chains and sizes; the other two go through
the getters of `api.c` to the request that is carried out. The assumption
`DocumentsAreTrees` of `MCApiRequest` checks the reader itself, against documents;
`NoLists` has the lists that libjson takes and JSON does not have. `PartIsNoRequest`
is about what is carried out. It does not say that the daemon survives each part: at
the comma after a payload with nothing before it `json_alloc_next` reads through a
parent that is NULL, and the process faults. That is the one outcome beside a syntax
error that it allows, and only for a rest that begins with the payload.

### Bounds, and why they are enough

* Filter: a ring of 3 instead of 16 fills, wraps and evicts within four reads.
  Every sample of the range 0..5 with a band of 2, so that both sides of the band
  and both ends are reached from everywhere. The proofs lift
  these bounds for everything but `HeldInputIsReported`.
* Pushing: one output and one analog input, so that both keys, both room checks
  and the wrap of the scan happen; two values; one reply on the wire, so that
  `write` blocks; commands that write once or twice, requests that leave room for
  the reply and requests that do not. The proofs lift the bounds for the safety
  properties.
* GPIO: two outputs and one input; initialisation stops before, between and
  after them.
* Requests: two outputs, of which none, one or both were granted; every pair of
  arrays of up to two elements, so that a pair fails before, after and at another
  one and the same output is named twice; ints of 4 bits, in which 16 wraps to 0;
  two `_msgid`s, so that an old one could be taken for a new one; arrays that are cut
  behind their first item or before it. The proofs lift
  all of these.
* Texts: every object of up to two members whose values are leaves, arrays of up
  to two leaves, or objects: each mark meets each state of the parser; every head
  of some of them, two and three of them in one text, some as large as the pool,
  one less and one more, and some with a blank at each place and at all of them. Two and
  three requests in one read, every request of the run alone, and requests cut at every
  token. The pool has 16
  objects instead of 48: a set/out of n pairs takes 6 + 2n of them, so that five
  pairs fit and six do not (21 and 22 in the code), and two requests may fit or not.
  The proofs of `TreeIsText` and `LastRequestIsRead` lift these bounds.
* Gateway: one page, one analog input and one relay, two requests and two replies
  on the wire: the two of a pulse come in two reads or in one, and a chunk has one
  reply, a half, two, or one and a half. A pool of 15 objects instead of 48 has room
  for the two in one read. A read that is refused whole, for the pool or for a cut, is
  in the run as `RefuseRead`, which may meet every read; the read of three set/outs
  that `FitsInPool` refuses at this size (seven in the code) needs three requests on
  the wire. With three, TLC finds the three invariants true as well, in 0.8 million
  states; with the liveness properties that takes longer than one cares to wait, so the
  run has two. Pages meet only in the requests they send and the chunks they all get, and
  the proofs of the safety properties hold for any number of pages, inputs and relays,
  any length of the channels and any size of the pool. Every process may stop at any
  time, any number of times.
* Lifecycle: exact. It has no constants; the state space is whole.

### Fairness

* `AdcMcp3008`, `Gpio`: the main loop reads each input for ever (a `for (;;)`
  under SCHED_DEADLINE) and not every transfer fails.
* `UpdatePush`: both threads are scheduled (weak fairness of the main loop and of
  the API thread's own steps, not of requests, connections or failures), the
  network delivers, and the client is silent for 500 ms again and again (strong
  fairness of `Timeout`): a client that floods the thread with requests gets no
  pushes, which is what the code does.
* `Lifecycle`: each of the three threads is scheduled (a weak fairness of its own),
  and a cancellation takes effect. `gpio_clean_lock` is strongly fair for whoever
  cleans: a waiter is woken at every unlock, and the other threads hold the mutex for
  short times. Devices, clients, failures and signals are not fair.
* `Gateway`: the API thread, the gateway's events and its one-second timer, the
  delivery of what is on the wire, and each timer of a page: all weakly fair, as
  they are threads or event loops that run. Stops, starts, clicks and changes of
  inputs are not; `PagesSettle` and `GatewayReconnects` say in their premises
  which of these have to stop for good.

## The proofs

| Theorem | States |
|---|---|
| `AdcMcp3008Proofs!TypeCorrect` | `Spec => []TypeOK` |
| `AdcMcp3008Proofs!ReportFollowsMean` | `Spec => []WithinDeadBand` |
| `AdcMcp3008Proofs!FlagsAreNews` | `Spec => ReportsAreNews` |
| `AdcMcp3008Proofs!SumIsOfTheRing` | `Spec => []SumMatchesWindow` |
| `AdcMcp3008Proofs!SumNeverOverflows` | `Spec => [](fifo_sum \in 0..FifoSize * MaxValue)` |
| `AdcMcp3008Proofs!OldSamplesAreForgotten` | `Spec => []ForgetsOldSamples` |
| `AdcMcp3008Proofs!NoiseIsRejected` | `Spec => NoiseIsNotReported` |
| `AdcMcp3008Proofs!DriverImplementsFilter` | `Spec => ImplementsMovingAverage` |
| `AdcMcp3008Proofs!ChannelIsAnInput` | `Spec => Interface!Spec` |
| `GpioProofs!TypeCorrect` | `Spec => []TypeOK` |
| `GpioProofs!MemoryIsTrue` | `Spec => []MemoryMatchesLine` |
| `GpioProofs!UngrantedStaysSilent` | `Spec => []UngrantedIsSilent` |
| `GpioProofs!EventsAreEdges` | `Spec => []EventTellsEdge` |
| `GpioProofs!SafeStart` | `Spec => StartOpensRelays`, if the table requests outputs at their open level |
| `GpioProofs!LineIsAnInput` | `Spec => Interface(id)!Spec` for every line |
| `ApiRequestProofs!TypeCorrect` | `Spec => []TypeOK` |
| `ApiRequestProofs!CodesAreTrue` | `Spec => []CodeTellsEffect` |
| `ApiRequestProofs!ChangesAreTold` | `Spec => []ChangeIsTold` |
| `ApiRequestProofs!RequestsGetTheirAnswer` | `Spec => []AnswersItsRequest` |
| `ApiRequestProofs!TextsAreRead` | `Spec => []TreeIsText` |
| `ApiRequestProofs!LastRequestsAreRead` | `Spec => []LastRequestIsRead` |
| `JsonReaderProofs!TextIsRead` | `IsRead(text)` for every sequence of tokens |
| `JsonReaderProofs!MembersAreFound` | what `json_get` returns, in every object of every text that is read |
| `UpdateHistoryProofs!TypeCorrect` | `Spec => []TypeOK`, of `UpdatePush` |
| `UpdateHistoryProofs!InputsAreTheDrivers` | `Spec => Interface(id)!Spec` for every input |
| `UpdateHistoryProofs!HistoryTypeCorrect` | `HistorySpec => []HistoryTypeOK` |
| `UpdateHistoryProofs!FlagsAreNews` | `HistorySpec => []OnlyNewsIsFlagged` |
| `UpdateHistoryProofs!ChangesAccounted` | `HistorySpec => []ServerAccounts` |
| `UpdateHistoryProofs!ClientIsAccountedFor` | `HistorySpec => []ClientAccounts` |
| `LifecycleProofs!TypeCorrect` | `Spec => []TypeOK` |
| `LifecycleProofs!MutexesExclude` | `Spec => []ExclusiveUnlessReset` |
| `LifecycleProofs!ExitIsSafe` | `Spec => []SafeExit` |
| `LifecycleProofs!DeadLoopHasReleased` | `Spec => []DeadLoopReleases` |
| `LifecycleProofs!ClosedStaysUnused` | `Spec => []ClosedIsNotUsed` |
| `LifecycleProofs!OneCloseUnlessFailed` | `Spec => []ClosesOnceUnlessFailed` |
| `GatewayProofs!TypeCorrect` | `Spec => []TypeOK` |
| `GatewayProofs!RelaysAccounted` | `Spec => []RelayAccounts` |
| `GatewayProofs!PagesAccounted` | `Spec => []PageAccounts` |

They hold for every size of the ring, band, range and set of samples, for all
sets of requests, of reads and widths of an int, every text and size of the pool,
every table of inputs and outputs, for any number of inputs, values, commands and replies on the wire, and for any number of
pages and relays, from the assumptions on the constants that the
modules name. Their arguments:

* **The filter.** `TypeOK` is inductive: `fifo_push` keeps the position in the
  ring, and the clamp the report in the range. `WithinDeadBand` is inductive with
  it: `ReadEndsWithinDeadBand` splits a read on `MustReport`. If it reports, mean
  and report are equal; if not, the negated condition says that they are close,
  and equal at the ends (this is where the two exceptions of the condition are
  needed: without the second disjunct a mean at the upper end escapes it).
* **The sum.** `Sum` is a recursive function, and what it computes is proved by
  induction. The library's induction theorems take an operator, which the provers
  cannot instantiate; `SumsProofs!Induction` says the same of a *set* of naturals
  (from the least element of its complement), which they can. From it follow the
  equation of the recursive function, the sum of one element more
  (`TotalStep`), of a tail (`TotalOfTail`), and the bounds of a sum and a mean.
  `Window` is the ring as a sequence, oldest first; `PlaceAfterPush` is the
  arithmetic of the ring index, and says that `fifo_push` appends to the window
  (`PushGrowsWindow`) and, once the ring is full, drops its head
  (`PushMovesWindow`), which is the sample that `Evicted` takes out of the sum.
  So `SumMatchesWindow` is inductive with `TypeOK`. The other three results rest
  on it: the mean lies where the samples lie (`MeanIsAmongSamples`), for one value
  (`FullRingForgets`) as for a band around the report (`ReadIgnoresNoise`), and
  the mean of the driver is that of the window, so that each read is a `Sample`
  of `MovingAverage` (`StepImplements`). The clamp never clamps.
* **The interface of the drivers.** `UpdatePush` has no driver modules in it, only
  their values and flags. What makes this sound is `Input`: a channel and a line
  are `Input`s (`ChannelIsAnInput`, `LineIsAnInput`), and so is each input of
  `UpdatePush` (`InputsAreTheDrivers`), whatever its two threads do. For a line
  this needs that no handler is open or given up before `gpio_init`
  (`NothingHeld`), as the lines that an initialisation did not get must be as they
  were; for an analog input `AdcUntouched`, below.
* **The outputs.** The four invariants of `Gpio` are inductive together: an output
  has no event because a read of it finds the state that is remembered
  (`MemoryMatchesLine`), and a handler is open in one phase only (`TypeOK`), so
  that `gpio_init` finds none and `gpio_clean` leaves none. `SafeStart` has the
  assumption that the table of gpio.c meets: outputs are reversed and requested
  high.
* **The requests.** A reply is true because of what the loop kept before it: the
  strengthening `EffectOK` says that at pair k the outputs are `Effect(k - 1)`,
  and that the arrays have one size (`AcceptedArraysAreEqual`, from the first
  failing check by a least element), which is one length if their chains are whole. `EffectOfOneMore` is the step: one pair more
  moves the output it names to what it asks, as the last pair wins. `LoopOK` says
  that what was moved so far is flagged, and `MsgIdOK` that `msg_id` points into
  the request that is served.
* **The parser.** What is proved is a simulation of the reader by the parser, one
  token at a time. Three predicates carry it. `ReaderInv` is the reader's own
  invariant: the kids of a node are numbered after it and in their order
  (`InOrder`); the open containers are a path from the root, each
  the last kid of the one before it (`IsPath`); and what may come next fits the
  last container (`IsPlaced`). `Mirrors` says what the pool holds meanwhile:
  `parent` is the last open container and `current` the end of its chain
  (`Stands`), every object has the label of its node and those of no node are
  blank (`HasLabels`), and child, next, parent and size are those of the kids,
  with the object that is allocated for a kid that is due as the last (`Slots`,
  `HasLinks`). The blank rest is what makes reuse sound: `json_alloc_next` sets
  nothing of an object but its parent. `Together` is that both hold, or that the text
  does not fit and the parser has refused; it is needed that what did not fit
  once never fits again, which is why the reader keeps the most objects that
  were in use (`room`) and not the present number.
* **A token.** For each move of the reader a lemma `...Keeps` shows `ReaderInv`,
  `...Mirrors` that the function of libjson.c which the token calls keeps
  `Mirrors`, and `...Tracks` both with the refusals. The hardest are the marks that
  close: an object that was allocated after the bracket that opens and not filled is
  given back, and `json_free_child` sets the child of its parent to NULL, which is
  right because, by `IsPlaced`, it is the only one it has (a comma before a mark
  that closes is not in the grammar). And the second object of a read: it replaces
  the children of the root, whose size goes on counting (`earlier`).
* **A text.** `json_parse` and the reader are recursive functions along the text;
  `TogetherAfter` is the induction over the tokens, by `SumsProofs!Induction`.
  `TextIsRead` adds the two tests at the ends of `json_parse`, and that
  `Children`, which follows the pointers, gives the kids (`ChildrenFound`).
  Blanks are passed over by both, but where the parser does not: for the lookups below
  `TextIsBraced` and `NumbersEnd` say that a text without blanks that the reader takes
  has its braces and a mark behind every number (from `StepsAreRight`, by which no step
  of such a reader was wrong).
  `MembersAreFound` is a consequence for the lookups of `api.c`: at every
  object but the root the size is the length of the chain, so that the loop of
  `json_get` ends with it. At the root it does so if one of the members has the
  key, or no object before it in the read had members.
* **The requests of a read.** `LastRequestIsRead` joins the two: what the client
  wrote is what is carried out. First along the text: `Leads(r, text, q)` says that
  a text takes the reader from r to q, and `IsValueText(v)` that the text v, wherever
  a value may stand, adds one node to the last open container and leaves the others
  as they were, whatever is under that node (`IsPast`). It is proved of a token
  (`LeafIsValue`) and, given it of the parts, of a container (`ContainerIsValue`,
  by induction over the parts, `PartsRead`): so the proof follows the depth of a
  request, which is three, and not that of any document. `RootRead` is the same of
  an object at the top, which begins a new one under the root: after the last
  (`HasReadTo`) the kids of the root are the members of the last request. Then the
  lookups: `TextParsed` is `TextIsRead` for such texts, and `MemberFound` takes a
  name to the node of its member, through `MembersAreFound`; where a member is
  missing at the root nothing may be counted of earlier objects (`IsComplete`).
  `RequestFound` goes through the lookups of `RequestIn` with both, down to the
  items of the arrays.
* **The pushes.** The typing of the cursor is what keeps the API thread from
  calling a driver with an id outside the table, which would exit the process.
  `OnlyNewsIsFlagged` is inductive with the types. `ServerAccounts` is not: at
  `adc_mcp3008_init` values are reset without a flag. The strengthening
  `AdcUntouched`, that before it no analog input has a value or a flag, makes
  the reset change nothing. `ClientAccounts` carries that ledger over the wire: the
  strengthening `ToldReaches` says that what the API thread told of an input last
  is in the reply it builds, or else in the last reply on the wire that names the
  input, or else what the client has, unless the input is in `lost`; `NothingBuilt`
  that no reply is under way between two requests. A reply that overflows or meets
  a closed socket puts what it named into `lost`, and a new client starts with all
  of them there. Each group of actions has its lemma; the actions that
  nothing is recorded of are handled once (`Unrecorded...`).
* **The threads.** `IInv` has five parts. `Shape`: places, owners and values.
  `Stops`: at most one thread runs `free_all` (`OneExit`), be it main or the API
  thread; while it cleans, the main loop thread's cancellation is pending or has
  taken effect (`WhileStopping`), and that thread cleans for itself only if it could
  not start (`CleansWhenFailed`). `Opens`: from these, where the lines can be driven,
  and that once `free_all` was called somebody is at it or it has done what it should
  (`Released`). `Closes`: who has closed what is closed. `OwnersInside`: as long as
  no mutex was initialised under a thread, a thread inside a critical section owns its
  mutex or the mutex is destroyed. `SafeExit` follows from `Released`: if no thread is
  in `free_all` when the process ends, the outputs are released or `gpio_init` came
  late. A thread that still is, is its exception, and does happen: TLC finds a second
  `SIGTERM` during the clean, and it finds a late `gpio_init`, if either is taken out.
* **The relays.** `RelayAccounts` is not inductive, as a request that closes a
  relay may be executed after its page's timer has fired. `RequestAccounts` adds
  that every such request under way is watched: the relay is in `dropped`, a page
  has a timer for it, or a request that opens it follows in the channel. This
  needs the order of the channel, and that a read which throws away an opening
  says so, be it a request before the last, or all of a read that is refused. A relay
  that is closed while no daemon runs was closed by the end of it.
* **The pages.** `PageInv` says of each key that is neither flagged nor lost that
  the last reply under way that tells it tells the daemon's value, and of a key
  no reply under way tells that the page has it. A chunk takes the head of the
  channel, so the last telling stays the last; a chunk that is no message puts its
  keys into `lost`, and a later reply that is delivered takes its keys out. What
  comes from a connection that is being closed takes none out: it may be old.

Only model-checked: the liveness properties (`HeldInputIsReported`,
`RestingLineIsSeen`, `FlagIsServed`, `PollingClientConverges`, `ShutdownOrOrphan`,
`PagesSettle`, `PulsesEnd`, `GatewayReconnects`), which are outside the prover's
reach, as fairness and ENABLED are; and `PartIsNoRequest`, that neither half of a
request is taken for one. The halves end or begin inside the request, and of a
text that does not begin with an object the reader only says that it is `"wrong"`.
That the reader agrees with documents of any depth (`IsTree`) is checked by TLC for
those of the bounds: documents nest, and their text is a RECURSIVE operator, of
which the provers know nothing. Every invariant of a run but `PartIsNoRequest`, and
every action property and refinement of a run, is a theorem. The theorems about
`Input` are stated of every input and are no property of a run: TLC cannot check a
quantified refinement.

## Not modelled

* Characters inside a token, apart from what is said above; `json_getBool` and
  `json_arrayGetIndex`, which nothing calls. A request without one of its three
  members that follows another in the same read makes `json_get` follow a NULL
  (`libjson.c` 301-305): the gateway's pages send all three, and so do the requests
  of `Reads`. What the fault does to the process is in `Lifecycle` (`SIGSEGV`) and, as
  a stop of the daemon, in `Gateway`.
* The page's form of several outputs, its ping, date and rendering; the reply to
  `cmd/ping`, which tells nothing. The hourly ping of the gateway ends a dead
  WebSocket, which is a page's `onclose`.
* The SPI transfer and the timing of the loop: a sample is what the ten bits can
  be, and no property is about time.
* Which number a descriptor has: `ClosesOnceUnlessFailed` says when one is closed
  twice, not what is hit.
* Log, web server, build tools, example, scripts: no state another part reads.
  Of the scripts, that systemd restarts the services is in `Gateway`.

## Plan

Done: every component with state of its own has its module, and the safety
properties of each have their proofs, except those named above. The parser has its
abstract specification and the proof that it implements it, for every text.

`UpdatePush` is no refinement of the daemon of `Gateway`, and is not meant to be:
`Gateway` builds a reply in one step, while a reply of `UpdatePush` fetches its
inputs one after the other and may tell of values that no moment had together.
Key by key both say the same, and that is what is stated of both: `ServerAccounts`
and `ClientAccounts` there, `PageAccounts` here, each with the loss between get
and clear that `push_lost` shows.

Left:

1. The daemon of `Gateway`, key by key, as an `Input` that may start anew.
2. `PartIsNoRequest` for requests of any length: the reader would have to say what
   `json_parse` does with the rest of a request whose beginning was lost.
