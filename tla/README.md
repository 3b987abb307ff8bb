# Formal model of the UberSDR DX cluster

TLA+ modules, TLC configurations and TLAPS proofs for the Go program in `src/`:
a DX cluster server that merges the event streams of an UberSDR receiver into
one feed of spots and serves it to telnet sessions, WebSocket terminals and web
pages, with a SQLite archive.  The source is the reference for every
definition; `PROJECT.json` maps each definition to the lines it stands for.

## 1. Inventory

### Server

| Part | State | Operations | Interacts with |
|---|---|---|---|
| **Hub** `hub.go` | input channel (256), `sub`/`unsub` channels (16), the subscriber map (owned by `Run`), history ring, 5 s dedup map | `Publish` (drops when full), `Subscribe`, `Unsubscribe`, the three cases of `Run` | called by SSE consumers and the DX command; calls `SpotStore.Publish`; sends to every session's channel (64, drops when full) |
| **Spot store, write path** `store.go` | two dedup maps, queue (4096), Run's batch (500), the table | `Publish`, `Run`, `insertBatch`, `purge`, `OpenStore` | called by the hub's goroutine; SQLite |
| **Spot store, read path** `store.go`, `search.go`, `web_search.go`, `stats.go`, `web_stats.go` | eight search slots | SHOW/DX query, cursor-paged search, CSV export, statistics | reads the table while it is written and purged |
| **Telnet server** `telnet.go` | client counter and map; per session: login timer, reader, command channel (16), QRZ channel (1), subscription | `handleConn` | hub, QRZ client, commands |
| **Commands** `commands.go`, `showcmds.go`, `helptext.go` | per session `ClientState` | SET/UNSET, ACCEPT/REJECT, DX (spot submission), SHOW | filter engine, hub, store, UberSDR's injection endpoint |
| **Filter engine** `filter.go` | filter slots of a session | parse, evaluate, `ShouldSend` | applied by each session to each spot |
| **Terminal proxy** `terminal.go` | global counter, per-address map | admission, release, byte stream over WebSocket | runs `handleConn` |
| **SSE consumers** `sse_consumer.go`, `spot.go`, `sstv.go` | per stream: back-off, current event; SSTV: dedup map | connect/read/wait loop, event assembly, parsers | UberSDR, the SSTV add-on, hub |
| **Web server** `web.go` | none of its own | `/api/events` (a hub subscriber), snapshots | hub, store, telnet server |
| **QRZ, CTY** `qrz.go`, `cty.go` | none | HTTP requests with time limits | UberSDR |
| **main** `main.go` | configuration | start-up order, signal | everything |

### Desktop client (`client/`)

A separate program: a window that logs in to one server at a time, shows its
spots and passes them on.

| Part | State | Operations | Interacts with |
|---|---|---|---|
| **Window** `main.go` | `u.client`, `u.listener`, the list of instances | start-up, choose, switch, disconnect, local auto-connect; the callbacks of both parts below | all of the client |
| **Server connection** `wsclient.go` | connection, back-off, login flags of the session, context | dial, log in, relay, wait, retry; `Send`, `Stop` | a server's terminal; the window's callbacks |
| **Telnet listener** `telnetlistener.go` | socket, running flag, map of connections | `Start`, `Stop`, accept loop, handlers, `Broadcast` | logging programs |
| **Rig control** `flrig.go` | settings, link, last values read and sent, pending push with its timer, stop channel | click, debounce, push, poll, reconnect, `Configure`, `Stop` | flrig, the window |
| **Spot lines** `audiotune.go`, `main.go` | none | reads frequency and mode out of a line; band menu | the server's `FormatDXCluster` and band table |
| **Discovery, audio** `discovery.go`, `instances.go`, `audiotune.go` | list of receivers | multicast, HTTP | the window |

### What is hard, and what makes each part correct

* **Hub.** Producers, sessions and `Run` interleave through bounded channels
  that drop or block.  Correct: no duplicate inside the window whatever the lazy
  purge removes; each subscriber gets the accepted spots from its registration
  on, in order, with gaps only where its own channel was full; a stuck session
  holds up nobody; registration and removal of one channel arrive on *different*
  channels, so their order is open.
* **Store.** Never blocks the hub, so it may lose spots (full queue, failed
  transaction, process ended).  Correct: no repeat stored, nothing written
  twice or out of order, no row deleted early, everything queued is written
  in the end unless something was lost.
* **Telnet session.** Five goroutines and two timers share one connection.
  Correct: every exit path releases the subscription, the counter and the map
  entry; commands keep their order; the welcome appears at most once; sessions
  of vanished clients end.
* **Terminal proxy.** Check and count are separate steps.  Correct: the counts
  are exact, and the limits hold as far as the code's order allows.
* **SSE consumer.** The connection may break inside an event; the stop may come
  at any point.  Correct: exactly the complete, wanted events are published, in
  order; it reconnects; it stops.
* **Filters and commands.** A filter is an expression in a small language, and
  a session has up to twenty of them next to simple lists and stream toggles,
  set and cleared in any order.  Correct: an expression means what its text says
  and none is half read; the two band tables of the program agree; the
  first matching rule decides; a toggle reaches its own stream and no other;
  only a client that gave a callsign and the password submits spots.
* **Search.** A client pages while rows come in late and old ones go, and SQLite
  gives the id of a purged last row again; searches compete for a few slots under
  two time limits.  Correct: no slot is lost, a walk repeats nothing and misses
  nothing that stayed, a chart counts every spot once, every request ends.
* **Stream parsers and submissions.** The SSTV window is marked before a lookup
  that may refuse the spot; a submitted spot comes back through the upstream
  stream at some later time.  Correct: one spot per window, no station silenced
  for longer, and no echo shown beside its original.
* **Desktop session.** The window's thread, an upstream goroutine per server, a
  handler per logging program and both `Stop`s overlap.  Correct: after a switch
  nothing of the old session arrives but what was on its way, no line goes to
  a server the user has left or not yet chosen, a stopped listener keeps no
  connection, and a replaced client ends.
* **Rig control.** A click is debounced, stamped before it is sent, and pushed by
  one goroutine while another polls and reconnects.  Correct: what a push
  delivers to the rig is the spot clicked last, in the mode its stream calls for,
  and never an earlier one; no stale reading is offered; the link comes back; closing the window ends the loop.

All hazards, each at its line, are listed in `PROJECT.json`.

## 2. Modules

| Module | Models | State and actions |
|---|---|---|
| `SpotFeed` | abstract specification: a log of accepted spots, a cursor per reader that only moves forward | `Accept`, `Advance` |
| `Hub` | `hub.go` | `in`, `subQ`, `unsubQ`, `subs`, `ch`, `closed`, `dedup`, `ring` are the Go variables; `AcceptSpot`/`DropDup`, `TakeSub`, `TakeUnsub` are the cases of `Run`'s select; `Publish`, `Subscribe`, `Unsubscribe`, `Recv` are the callers'; `Tick` is the clock. `log` and `cursor` are history |
| `HubProofs` | theorems about `Hub`: types, dedup, feed order, its refinement of `SpotFeed`, what patient and fast sessions may rely on | |
| `SpotStore` | write path of `store.go` | `db` maps row ids to spots, and the id of a purged last row is given again; `Publish` (dedup, sweep, non-blocking send in one action, as in the code under its lock and on one goroutine), `TakeSpot`, `TickerFires`, `Commit`/`InsertFails` (the transaction), `Purge`, `Crash`, `Restart` |
| `SpotStoreProofs` | four theorems about `SpotStore` | |
| `TelnetSession` | `handleConn` | `pc` follows the handler; `timer`, `reader`, `lookup`, `limit` are its four goroutines; `TypeLine` and `HangUp` are the client |
| `TelnetSessionProofs` | four theorems about `TelnetSession` | |
| `TerminalProxy` | `ServeHTTP` in `terminal.go` | `pc` follows each request through check, upgrade, counts, session, deferred calls |
| `SSEConsumer` | `consumeStream`, `readStream` | `Check`, `Connect`, `ReadEnds`, `Wait` are the loop; `ScanData`, `ScanEvent`, `ScanBlank`, `ScanOther` are the cases of the line switch; `SendData` ... `Drop` are the upstream server |
| `SSEConsumerProofs` | a theorem about `SSEConsumer` | |
| `Bands` | band tables of `filter.go` and `spot.go` | functions: `DecodeFreqTerm`, `SegmentRanges`, `FreqToBand` |
| `FilterCond` | the conditions of `filter.go`'s expressions | `BuildLeaf`, `EvalCond` as in the code; the state is the text a client types token by token (`Type`), so every short text is checked |
| `FilterExpr` | parser and evaluator of `filter.go` | `ParseOr` ... `ParsePrimary`, `Eval` as in the code, position and error in the result |
| `FilterMeaning` | reference definition of the language, without a parser | `WellFormed`, `Means` by the grammar of `filter.go`; `HelpTerms` are the terms of HELP |
| `ClientState` | `ClientState` and `ClientFilter` of `filter.go`, the state-changing cases of `handleCommand`, `handleDX` up to its `Publish` | variables are the fields; one action per command; `AfterSlot` is a round of the loop over the slots, `SlotVerdict` the loop, `Match` and `ShouldSend` decide on a spot |
| `ClientStateProofs` | four theorems about `ClientState`, one about `FilterCond` and its `Bands` | |
| `ShowDX` | SHOW/DX, `handleShowDX` in `commands.go` and `Query` in `store.go` | `Step` reads one argument, `Params` all, `Query` selects, `HandleShowDX` asks the database or, without one, the hub's history; `Fits` and `PlacesAsked` say what was asked without a loop. The state is the text typed (`FilterCond`) |
| `SpotQuery` | `search.go`, the filter and the time series of `stats.go` | functions: `Window`, `Matches`, `Search`, `TimeSeries` |
| `SearchPaging` | `handleSearch` and the slots in `web_search.go` over a changing table | `Ask`, `GetSlot`, `WaitExpires`, `RunQuery`, `QueryFails`, `ClientGone`, `Release` are the handler; `Insert`, `Purge`, `Tick` the writer; `cursor` and `offset` the client's walk |
| `WebProofs` | two theorems about `TerminalProxy`, three about `SearchPaging` and its `SpotQuery` | |
| `StreamParsers` | parsers of `spot.go` and `sstv.go` | `ReadPicture` marks, `Placed`/`NotPlaced` are the answers of the lookup; `Parse` is the other four streams |
| `Ingest` | the producers of the hub's input composed with `Hub`: parsers, the end of `handleDX`, `injectSpot`, UberSDR's echo | `ReadEvent`, `ReadPlaced`, `SubmitSpot`, `EchoArrives` publish; `InjectSpot` is the goroutine; `Take` is `Hub`'s `AcceptSpot` or `DropDup` |
| `IngestProofs` | two theorems about `Ingest` and its `StreamParsers` | |
| `SpotLine` | `FormatDXCluster` in `spot.go`, `client/audiotune.go` | functions from a spot to its line and from the line to a frequency and a mode |
| `RigSync` | `client/flrig.go` and its callers in `client/main.go` | `DoubleTap`, `Configure`, `Stop` are the window; `Fire`, `Take`, `Stamp`, `SetFreq`, `SetMode` a push, one critical section or request each; `LoopBegins` ... `Poll`, `StopSeen` the loop; `TurnDial`, `SwitchRig` the operator |
| `WSClient` | `client/wsclient.go` | `at` follows `run`, `stopper` follows `Stop` |
| `TelnetListener` | `client/telnetlistener.go` | `Stop` in its two parts, `Accept`, `Register`, `ScanLine`, and the program at the other end |
| `Desktop` | the composition of both with `client/main.go` | `Connect`, `Switch`/`SwitchEnds`, `Disconnect`/`DisconnectEnds`, `Startup`, `LocalFound` are the window; `CheckText`/`ShowText` and `LoadClient`/`SendLine` the callbacks, check and use as separate steps |
| `DesktopProofs` | two theorems about `Desktop`, two about `RigSync` and its `SpotLine` | |
| `MCHub`, `MCSpotStore`, `MCTelnet`, `MCSSE`, `MCFilter`, `MCSession`, `MCIngest`, `MCSearch`, `MCRig`, `MCDesktop` | small instances for TLC | |
| `MCCommands`, `MCWeb` | `MCFilter`, `MCSession` and `MCIngest` in one run; `TerminalProxy` and `MCSearch` in one run | `part` says which of them moves: they share no state, so in each behaviour the others stay as they began |

The parts meet at narrow interfaces.  `SSEConsumer` ends in a call of
`Hub!Publish`; `Hub` hands every accepted spot to `SpotStore!Publish` and to the
channels whose other end is `TelnetSession`'s select; there `ClientState`
decides what is written, by commands `TelnetSession` takes in order; a rule of
`ClientState` is the set of spots an expression of `FilterExpr` matches;
`TerminalProxy`'s `session` place is one run of `TelnetSession`.  What
`StreamParsers` makes of an event is what `SSEConsumer` publishes, and `Ingest` runs the
parsers and `ClientState`'s submissions against an instance of `Hub`; `SearchPaging`
reads the table `SpotStore` writes; `RigSync` starts from the lines `SpotLine`
formats and reads back; `Desktop` composes `WSClient` and `TelnetListener`
action by action.  Each module takes the others as
an environment that may do anything its interface allows: sessions in `Hub`
may stop reading, the hub in `TelnetSession` may deliver at any time, callers
in `SpotStore` may publish anything.

Definitions marked *Faulty* are mutated forms of the definition that follows
them, the kind of slip the property named in `PROJECT.json` would expose; no
specification uses them.

### Abstractions

* A spot is a key (callsign and frequency, or what the store's key is made of)
  and, where it matters, its stream; contents and formatting are left out.
* Time is a counter that ticks; windows and retention are numbers of ticks.
  Timers in sessions and consumers fire at any moment after they are armed.
* JSON parsing is a choice between a spot and nothing.
* A filter token stands for itself in lower case; a spot's text is the set of
  tokens its callsign or spotter starts with, or that its comment contains.
  Frequencies are whole multiples of 100 Hz, the finest step of both tables.
* A frequency typed behind DX is below, inside or above the receiver's range,
  or NaN; a callsign is valid or not.
* A search's columns are the ones its filters tell apart; an hour and a day are
  numbers of ticks, and the hour of the day is their remainder, as in the code.
* The words of a spot line stand for themselves; "N" is any number, "T" a time.
  A chunk of server text is the set of the marks the login looks for.
* A request to flrig is carried out and answered, carried out without an
  answer, or not carried out.
* A Go `select` with several ready cases is a choice among actions.
* Output to a client is left out except where its failure ends the session.
  A write that blocks for ever on a client that is connected and does not
  read is not modelled (the hub's side of it is).

## 3. What the runs show

| Run | Question | Bounds |
|---|---|---|
| `hub` | dedup, order and refinement of `SpotFeed`; fast readers miss nothing; no panic when sessions end only after they were registered; the hub drains its input and serves requests without any help from the sessions | 2 keys, 2 sessions, request, input and session channels of 2, 4 accepted spots, clock past the window |
| `hub_overtake` (violated) | hub.go:69 "Unsubscribe removes the channel from the hub" | 1 session |
| `store` | no repeat stored, pipeline in order, no silent suppression unless something was lost, retention respected; queued spots are written unless lost, old rows go | queue of 1 and batch of 2 so that both fill; 2 keys, 3 spots, rows up to one tick late, time past window and retention, one crash |
| `telnet` | order of commands, one welcome, subscription released; sessions, prompts and lookups end | one connection, 4 lines of five kinds, one of them too long for the scanner; command channel of 2 |
| `sse` | what is published is what complete events meant; reconnects and stops | 5 lines over any number of connections, 3 in flight, event filter on |
| `commands`, the texts | the parser accepts exactly the expressions of its grammar and its tree means what the text says; the three band tables agree; SHOW/DX shows what its arguments ask | all texts of up to 6 tokens over connectives, parentheses, two fields, a list of a segment and a range, a list of a type and a word that is none; band tables at every edge and next to it; all SHOW/DX of up to 4 arguments of 11 over 4 rows, with a database and without |
| `commands`, a session | first match decides; only proven clients submit | 2 slots with every pair of 3 rules over 3 spots, one list filter, one SNR level |
| `commands`, the spots | one SSTV spot per window, and nobody held back for longer; the hub shows each spot it takes or one that stands for it, and an echo only when its original was lost or its window is over | 3 pictures, events or submissions in any mixture, echoes of each submission, once or again and again, a station with and without a band, an input of 2 that overflows, 3 spots that get in, clock past both windows |
| `filter_help` (violated) | helptext.go:82 "Adjacent terms without 'and'/'or' are implicitly AND-combined" | texts over HELP's terms |
| `slot_help` (violated) | helptext.go:214 "if any reject slot matches, the spot is dropped" | as `commands`, a session |
| `web`, the terminal | exact counts, bounded overshoot | 3 requests that come again and again, 2 addresses, a limit of 2 and of 1 per address, so three race for the first and two for the second |
| `web`, the searches | slots, walks by cursor and offset, charts, requests end | 3 rows at the start, 2 kinds, up to 5 rows, late rows, a purge that frees an id, one slot and two clients; three searches, forwards, backwards and by speed, over midnight |
| `rig` | at rest, what a push delivered and nothing has disturbed since is the last click's; no stale reading; the link recovers; `Stop` returns | 4 kinds of spot line, 2 timers, 3 clicks, turns and switches, 2 dial settings, any request may fail |
| `rig_repeat` (violated) | client/main.go:1478 "double-clicking a spot line pushes the frequency and mode to flrig" | as `rig` |
| `desktop` | clean switches, no connection behind a stopped listener, replaced clients end | 2 upstream clients, 2 listeners, one logging program that may be slow, back-off of two steps |

The bounds are enough for the cases the properties are about.  Each of the following
both fills up and is drained: the hub's input, request and session channels, the store's
queue and batch, the session's command and QRZ channels, the search slots.  Session
channels of 2 hold spots in an order, and a session that keeps up receives all of them
without one ever being full.  Both sides of every window are reached, and the actors
that must meet are there (two sessions, five goroutines of a connection, three racing
requests, an event cut in the middle followed by another connection, a page between two
others while a row of their second comes and goes, a client and its successor, a listener
and its successor, a push under way when the next click comes).  Nothing in the code depends
on the size of a capacity beyond "empty, holding some, or full" and on a window beyond
"inside or not".

`CHECK_DEADLOCK FALSE` stands where the bounded clock, the bounded number of
inputs or a finished session really stops the system.

### Deviations from the documentation

Four runs check what a comment or HELP says of the program and find it violated; they
are the findings in `PROJECT.json`.

* `hub_overtake`: an `Unsubscribe` that overtakes its `Subscribe` leaves a closed channel
  in the hub, whose next spot panics (hub.go:69).  `NoPanicIfPatient` says what does hold.
* `filter_help`: HELP lists `iota`, `qsl` and `all` among the fields of accept and reject
  expressions (helptext.go:75-77) and combines adjacent terms by AND (helptext.go:82).  The
  parser knows none of the three as a field: behind another term they end the expression
  with an error, and first in one `iota` and `qsl` are callsign prefixes.  `WellFormed` and
  `Means` are the parser's grammar, so `AcceptedIffWellFormed` and `TreeMeansText` say
  that the parser reads its own language right, and `HelpTermsAccepted` that it is
  not HELP's.
* `slot_help`: the notes at the end of HELP drop a spot that any reject slot matches
  (helptext.go:214).  An accept rule of an earlier slot keeps it (filter.go:658).
  HELP's SLOT SEMANTICS (helptext.go:84) and the comment at filter.go:544 have the order of
  the slots, and `FirstMatchDecides` states it.
* `rig_repeat`: a double click "pushes the frequency and mode to flrig"
  (client/main.go:1478).  What is pushed is compared with what was last stamped as sent
  and not with the rig (client/flrig.go:281): a click whose request failed, or after
  which the dial was turned, is not sent when it is repeated.  `RigFollowsClicks` says
  what does hold.

Seen while modelling and part of the modules, without a run of their own:

* A login line without a token panics (telnet.go:275) and nothing recovers it,
  against the comment at telnet.go:242-245; `crashed` in `TelnetSession`.
* The login timer's function may be past its check of `loginDone` when the login
  is accepted and then closes the accepted connection (telnet.go:249).
* The SSE back-off is never put back after a connection that worked, against
  the comment at sse_consumer.go:138.
* A spot the store loses stays in its dedup maps and suppresses its repeats
  (store.go:207, 237, 259), so not everything heard "stays queryable" (README.md:182);
  `RepeatHasCopyUnlessLossy` says when it does.
* A slot number above nine becomes a callsign prefix of slot 1's rule (commands.go:554);
  HF/CW includes 6 m.
* A line longer than a scanner's buffer ends a session whose client is still there
  (telnet.go:262, 351); `ReadFails`.
* The reading of a rig stays when the settings name another one while the link is up
  (client/flrig.go:130), until the next poll; `DialogFresh` speaks of the link, not of the
  rig behind it.
* A DX frequency spelled NaN passes both limits (commands.go:454).
* "The hub fans the spot out to all subscribers (including the submitting client)"
  (commands.go:503): not when a spot of the same callsign and frequency was taken
  less than a window before, even one of a stream the session has switched off,
  nor when the hub's input is full; and the echo is shown as upstream's if it comes later than the
  window.  `EchoAbsorbed` says exactly when.
* Simultaneous requests pass the terminal's limits before any of them is counted
  (terminal.go:162); `OvershootBounded` says by how many at most.
* After its session has ended the QRZ goroutine may block for ever
  (telnet.go:334), which is why `NothingHangs` promises the lookup's end only
  while the session lasts; a line of another field behind an event's data
  makes the consumer lose that event (sse_consumer.go:169), which `PublishedIsMeant`
  counts as meant that way.
* The client's band menu offers 160 m for 1800-1810 kHz, to which the server gives no
  band, and lacks 600 m and 11 m; `BandsAgree` says that the two never name
  different bands.
* The client's local telnet port loses lines typed while a switch is under way.

### Fairness

* `Hub`: `Run` is a goroutine that never waits on anything but its select, and
  `select` picks at random among ready cases, so each case that stays ready is
  taken (weak fairness per case).  Nothing is assumed of sessions.
* `SpotStore`: Run's select, the ticker and the daily purge come round; a
  transaction ends with success or failure; the service is restarted.
* `TelnetSession`: every goroutine is scheduled and both timers expire; a
  closed `quit` stays ready.  Nothing is assumed of the client, nor that spots
  keep arriving (a failed write would end the session too).
* `SSEConsumer`: the goroutine is scheduled, timers expire, and a request is
  answered or fails.  Nothing is assumed of the server: it may hold a
  connection open and silent for ever.
* `SearchPaging`: both time limits are kept and a handler runs to its end.  Nothing
  is assumed of a query, which may take longer than its deadline, nor of a slot
  that becomes free, which others may always take first.
* `Desktop`: `Stop` runs, dial and farewell end within their time limits, and a
  cancelled client's goroutine takes the steps it has left.  A slow program
  reads on in the end: `Broadcast` has no deadline, and one that never reads again
  would hold the window and the upstream client for as long as TCP does.  `ShowText`
  needs strong fairness because that program may stop reading again and again.
  Nothing is assumed of the server or the user.
* `RigSync`: the loop and the timers run, requests end within their time limit,
  and `select` does not pass over a closed stop channel for ever (strong fairness,
  since a poll is under way in between).  `PatientClose` says that the window stays open until the
  loop's goroutine has read its stop channel (client/flrig.go:317): a `Stop` before
  that would set it to nil and the loop would never end.  Nothing is assumed of
  the user and the rig.

## 4. What is proved

`HubProofs`, for every capacity, window, set of keys and set of sessions under
`HubAssumption`:

* `TypeCorrect`: `Spec => []TypeOK`.  `TypeOK` is inductive by itself; it is
  split into the channels, `Run`'s variables and the rest, and each action is
  taken through the parts it disturbs.  It includes that no channel and no ring
  exceeds its capacity.
* `DedupCorrect`: `Spec => []NoRepeatInWindow`.  That two accepted spots with the
  same key are a window apart is not inductive: nothing in it says that the
  dedup map still knows the last acceptance.  `DedupInv` adds exactly this: an
  accepted spot whose window is not over has an entry that expires no
  earlier than its window.  The purge removes only expired entries, so it
  cannot hurt it, and the guard of `AcceptSpot` then gives the distance.
* `FeedOrderCorrect`: `Spec => []FeedOrdered`.  The positions in a channel lie
  ahead of the subscriber's cursor, inside the log, and grow; `SeenInv` says so
  without the concatenation.  The step that needs more is `TakeSub`, which puts
  the cursor at the end of the log: that is only right while the channel is
  empty.  `RequestInv` supplies it: a channel that waits for registration is
  not in the map and holds nothing, and no request is queued twice.
* `FeedRefined`: `Spec => FeedImplemented`, the refinement of `SpotFeed`.
  `AcceptSpot` is an `Accept` because `DedupInv` makes the key fresh;
  `Recv` and `TakeSub` are `Advance` because of `SeenInv`; every other action
  changes neither the log nor a cursor.  The abstract specification is a safety
  one, so no liveness is involved.
* `PatientCorrect`: `Spec => NoPanicIfPatient`.  `RemovalInv` says that a channel is
  closed, or waits to be, once and only behind its session's end, and that none
  that is closed is registered.  It is inductive only over steps that start in
  a patient state: `TakeSub` would otherwise register a closed channel, which is
  the counterexample of `hub_overtake`.
* `GaplessCorrect`: `Spec => NoGapWhenFast`.  That as many positions wait as are
  missing does not survive `Recv`, which moves the cursor to the first of them;
  `Gapless` says that they are exactly the positions behind the cursor.

`ClientStateProofs`, under `StateAssumption`, for every set of streams, fields
and spots and every number of slots and rules:

* `TypeCorrect`: commands fall into those that touch the filters and those that
  do not (`Commands`), each with a frame lemma, so that each keeps its half.
* `ProvenCorrect`: `ClientSpec => []OnlyProvenClientsSpot`, inductive given the type of
  the submission history.
* `TogglesCorrect`: `ClientSpec => TogglesKeepToTheirStream`; the filters' verdict is a
  function of the filters alone (`MatchFrame`), and the gate of another stream
  does not read the toggle.
* `FirstMatchCorrect`: `ClientSpec => []FirstMatchDecides`.  The loop over the slots is a
  recursive function and the property has no loop, so this is an induction over the
  rounds; it is done with least numbers (`Least`), first to show that the loop is
  defined, then that `Decided` holds before each round: the first rule that
  matches has decided, or none did and the last one before the round has set the
  result.
* `BandNamesAgree`: `TextSpec => []BandsAgree`, under `TermAssumption` and `CondAssumption`
  (no band's name contains a comma or a slash or is a range of numbers).  The run
  compares the tables at their edges, the theorem at every frequency: spot.go's bands are
  disjoint (`BandsAreDisjoint`), so the first that holds a frequency is the only one;
  filter.go has each with the same edges (`SameEdges`); and no band of the
  client's table reaches into another one of the server's (`ClientNamesNoOther`).

`WebProofs`, under `ProxyAssumption`, for any number of requests and addresses
and any limits:

* `CountsAreExact`: `Spec => []CountsExact`.  The counter equals the number of requests in
  the places between its two critical sections, and likewise the map
  entry of each address, which exists exactly while that number is positive
  (`GlobalExact`, `AddressExact`).  Each action moves one request, and `NumberMoves` says
  what a move does to a number; so nothing depends on who else runs.
* `CapsHoldUpToTheRace`: `Spec => []OvershootBounded`.  The counts alone are not
  bounded by an inductive invariant: what can still be added are the requests past
  their check.  `GlobalCap` and `AddressCap` bound counted and admitted ones
  together by the limit and the race seen so far; `PeakIsSeen` ties the second to the
  requests that have passed the first check.

and under `QueryAssumption` and `PagingAssumption`, for any rows, queries, page sizes,
windows, limits and numbers of slots and clients:

* `SearchSlots`: `Spec => []SlotsExact` (`Spec` is `PagingSpec` here).  `SlotsCounted` is
  the count by itself; every action moves one client (`SlotMoves`).  `TableTyped` says
  that the rows are finitely many with distinct ids: the next id is above every other
  because a finite set of numbers has a bound (`IdsAreBounded`, `NextIdIsNew`).
* `WalkDelivers`: `Spec => []WalkIsExact`.  An answer is sorted by counting, for
  each row, those that come before it; `Before` is a strict total order on rows with
  distinct ids, so ranks are the numbers from 1 to the number of rows (`RanksAreAll`,
  `SortingRanks`, `Turns`), and a page is a stretch of that enumeration
  (`PageRows`).  `CursorWalk` is the invariant of a walk by cursor: what was
  received is in order and ends at the cursor, and every row that stayed was
  received or is beyond it; being beyond the cursor and coming after the last row are
  the same (`BeyondMeansBefore`).  `OffsetWalk` speaks only of a walk during which the
  matching rows stayed the same: what was received is the beginning of their
  enumeration.
* `ChartsAddUp`: `Spec => []SeriesAddUp`.  `Total` is a recursive sum over a set of
  series; `TotalCounts` says that it is the number of rows when each series has its own.
  It is used twice, for the tail that is folded and for the whole chart.  The one series
  that stands for the tail cannot be mistaken for a band, whose numbers are not negative.

`PagingAssumption` says of a request what `ParseStatsFilter` and `ParseSearchParams` let
through (`ParsedQuery`), that the rows at the start are rows with distinct ids, and
that the clock starts within its bound.

`TelnetSessionProofs`, under `SessionAssumption`, for any number of connections and lines
and any capacity of the command channel:

* `SessionTyped`: `Spec => []TypeOK`; that `clients` stays in range needs
  `ClientsCounted`, which says whom it counts.
* `CommandsAreInOrder`: `Spec => []CommandsInOrder`.  A command passes from the wire to the
  channel to the handler; `InOrder` says that the last handled one, the channel and
  the wire are one increasing line.
* `OneAnswerTaken`, `SubscriptionGivenBack`: a handler listens for an answer only
  while it streams and has taken none (`ListensUntilAnswered`), and is subscribed
  exactly while it streams (`SubscribedWhileStreaming`).  The steps of the other
  goroutines do neither (`OthersDrift`).

`SpotStoreProofs`, under `StoreAssumption`, for any queue, batch, windows and retention:

* `OneLine`: `Spec => []PipelineOrdered`.  Rows by their id, batch and queue hold ever later
  calls of `Publish` (`InLine`).  Ids that are given again do no harm, because the
  next id is above every row that is there; `IdsTyped` supplies that a table with
  rows has a last one.
* `WindowIsKept`: `Spec => []NoRepeatStored`.  As for the hub, with two maps, a sweep
  and restarts: the map of this life knows every spot whose window is not over, or a
  later one of its key (`Known`), and nothing else (`Witnessed`).
* `NothingSuppressedInVain`: `Spec => []RepeatHasCopyUnlessLossy`.  A repeat was refused
  because of a call that was let through (`Witnessed`); as long as nothing was lost all of
  those are written, in the batch or in the queue (`AllInPlay`).
* `RowsAreKept`: `Spec => KeptForRetention`, an action property: only `Purge` removes rows,
  and what it leaves keeps its id; `Commit` adds behind the last id.

`SSEConsumerProofs`, under `ConsumerAssumption`, for any lines and number of connections:

* `OnlyWhatIsMeant`: `Spec => []PublishedIsMeant`.  What an event means is decided when
  the server ends it, what is published when the consumer reads its blank
  line; between the two its lines are on the wire, partly read, or cut off.
  `LeavesBehind` says what the lines in front of a position leave in the
  consumer's variables, whatever else is on the wire, and `Tell` that for each blank line
  on the wire, and for the open event, this is what the server meant.  `Numbers` says
  which event a line belongs to, `Publishes` that what is read so far was published.

`DesktopProofs`, under `DesktopAssumption`, for any clients, listeners and programs:

* `SwitchesAreClean`: `Spec => []SwitchIsClean`.  `Replaced` says that a client is active
  or being stopped and never both; `Sessions` what it has sent; `Forwarding` that
  while a line is passed on, the active client and the one the handler has loaded
  were active after the line came.
* `StoppedPortIsEmpty`: `Spec => []StoppedListenerHoldsNoOne`.  `Port` follows a
  connection through backlog, accept, registration and map: once the listener has
  stopped it is cut or on the list of those `Stop` is about to cut.

and under `SyncAssumption` and `LineAssumption`, for any spots, any dial settings and any number of timers:

* `DialogIsFresh`: `RigSpec => []DialogFresh`.  What is offered is unknown or was read
  since the link came up, whoever acts (`ReadSince`).
* `RigFollows`: `RigSpec => []RigFollowsClicks`, about the rig itself.  `fate` tells, for the
  frequency and for the mode, whether a push delivered it and nothing has
  happened to it since.  `AskedIsPending` says that the last click is the value the
  timers take; `OnePushStamped` that of pushes that met no other one at most is past
  its stamp and has that stamp left to send; `PushedIsStamped` that what was
  delivered undisturbed and has not been stamped anew is the stamp; `ClickIsUnderWay` that
  unless a timer still has to take the click, a push holds it or it is stamped.  They
  meet when all pushes are over.  `Quiet` and `Undisturbed` name the steps
  that push nothing: they spoil a setting or leave it.  That the
  click is then where and how the spot is worked is a lemma about the text
  between server and client, `LineMeansSpot`: formatting and reading back keep the frequency
  within 50 Hz and give the stream's mode.  `LineAssumption` says of the spots what
  `StreamModes` (spot.go:36) says, and that the texts written to skimmer spots of RTTY and
  JTTY and to SSTV spots name no speed in WPM; a cluster spot may have any text.

`IngestProofs`, under `IngestAssumption` and `ParserAssumption`, for any stations, keys and
windows, with the hub's instance inside:

* `PicturesSpacedOut`: `Spec => []OneSpotPerWindow`.  Two looked-up pictures of a station are
  a window apart because its mark is the time of the last one and stays until its
  window is over (`MarksWitnessed`, `MarksKept`); a picture that was held back
  has the one that set the mark for a reason (`HeldForCause`).
* `EchoesAbsorbed`: `Spec => []EchoAbsorbed`.  The hub's part is `WindowInv`, the dedup
  invariant with `Backed` added: an entry of the map is the end of a shown spot's window,
  so a dropped spot has one that stands for it.  The submissions' part is
  `LineInv`: an echo comes behind its original, which was offered to the hub before it
  was injected, and is in front of it in the input, was taken, or was lost there.

The theorems that state no property of a run (`TypeCorrect` twice, `TogglesCorrect`,
`SessionTyped`) need none: the other properties of their modules are checked in
the same instances, and a type invariant is part of most of them.

Only model-checked:

* All liveness: `HubNeverStalls`, `QueuedIsWritten`, `OldRowsGo`, `NothingHangs`,
  `StopsWhenCancelled`, `KeepsTrying`, `LinkRecovers`, `StopRigReturns`, `RequestsEnd`,
  `ReplacedEnds`.  The prover has no rule for fairness.
* `AcceptedIffWellFormed`, `TreeMeansText`, `ShowsAsAsked`: `FilterExpr`,
  `FilterMeaning` and `ShowDX` are RECURSIVE operators over the text, which the
  prover's SMT backend does not take, and what a parser does with every text is an
  induction over it.  `Fits`, on the right of `ShowsAsAsked`, also speaks
  only of the keywords that the run's tokens have.

## 5. Not modelled

Whole parts:

* Start-up and shutdown (`main.go`): flags, environment and order; what a stop or
  a crash does is in `SSEConsumer` and `SpotStore`.
* Help text, web pages, and the handlers of `web.go` that format a snapshot;
  `/api/events` is a hub subscriber like a telnet session.
* Discovery, the calls to the audio client, dialogs and layout of the window: no
  protocol state beyond what `Desktop` has.
* SHOW commands other than SHOW/DX format what a lookup or a snapshot returns.
* The QRZ and CTY clients appear by their outcomes.

Details of modelled parts:

* `TerminalProxy`: the byte stream adapter and proxy headers.
* `SpotQuery`: the count behind `total`, the choice of columns, CSV and JSON; buckets
  of a week, metrics that do not add up, top lists and heat maps (other
  `GROUP BY`s over the same filter).
* `Desktop`: the connection dot, the status and the count of programs, whose late
  notifications may overwrite one another; the commands sent after login, which
  a goroutine may still be sending when the session has been replaced; the
  send field; the farewell as a step of its own.
* `RigSync`: the direction from the rig to the receiver with its PTT query (the client
  always runs the other one), labels.
* Writes that block for ever on a client that is connected and does not read.

## 6. Plan

Done: the hub with its abstract feed, the store, telnet session, terminal proxy, SSE
consumers, stream parsers and submissions with their echo, filters, commands and SHOW/DX, search and the time
series, the desktop client's session and its rig control; every safety property of a run
proved but the three of section 4's last list.

Left, the most important first.

1. `Cluster`: `Hub` and `SpotStore` composed, so that the table is a subsequence of the
   feed.
2. The parser with recursive functions instead of RECURSIVE operators, to prove that it
   accepts exactly the well-formed texts.
