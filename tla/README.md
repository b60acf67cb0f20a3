# Verification of the ApuraFacil voting machine

TLA+ models of the etapa-4 system, model-checked with TLC on small instances and,
where marked, proved with TLAPS for every value of the constants.

## The system

A **voting machine** (Raspberry Pi Pico W, `etapa-4/urna_eletronica/`) opens a Wi-Fi
access point. The **mesario's phone** (`etapa-4/apurafacil-app/App.js`) joins it and
sends HTTP commands: a candidate list, start, enable the next voter, end. The voter
uses the machine's keypad, display and buzzer. Every key press is also posted to a
**key server** on a laptop (not in the repository). A second Pico
(`etapa-4/urna_auditoria/`) is the **audit logger**: it takes lines from a UART and
writes them to an SD card. `etapa-3/` is an earlier Bluetooth version of machine and
app, and `etapa-1/README.md` holds the requirements (RF-1 .. RF-11, RNF-1 .. RNF-6)
that the properties cite.

| Component | State | Operations | Interacts with |
|---|---|---|---|
| Voting machine core (`urna_eletronica.c` 42-57, 114-148, 246-280, 312-451) | `current_state`, `current_vote_buffer`, `input_pos`, `candidates`, `votes_blank`, `votes_null`, the display | one pass of `urna_loop`; `/configure`, `/start`, `/enable`, `/end` | handlers and main thread share all of it without a lock |
| HTTP connections (309-460) | a `TCP_CONNECT_STATE_T` per connection, its response buffers and lengths | accept, recv, sent, poll, err | lwIP calls it back; recv runs the commands |
| Key client (150-243) | a `TCP_CLIENT_STATE_T` and a pcb per key press | connect, connected, sent, err | called by the main thread, called back by lwIP |
| Configuration and status documents (282-299, 336-371, `App.js` 23-59, 198-225) | the candidate list, two fixed buffers | parse, store, print, read back | `jsmn.h` in the machine, `JSON` in the phone |
| jsmn (`jsmn.h`) | position, tokens, superior token | `jsmn_init`, `jsmn_parse` | called by `/configure` |
| DHCP server (`dhcpserver.c`) | 8 leases: MAC and truncated expiry | DISCOVER, REQUEST | gives the phone and the key server their addresses |
| DNS server (`dnsserver.c`) | a socket | one reply per query | linked, never started |
| Display driver (`ssd1306/`) | a frame buffer | clear, draw, show | called by the main thread |
| Audit logger (`urna_auditoria.c`) | `uart_buffer`, `buffer_pos`, `new_message_received`, the file | UART interrupt, main loop, `log_to_sd_card` | interrupt and main loop share the buffer; FatFs |
| Mesario app (`App.js`) | screen, elections, last status, connection status, polling timer | create, enable, end, poll | HTTP to machine and key server |

### What is hard about it

* **Two threads of control, no lock.** The firmware links
  `pico_cyw43_arch_lwip_threadsafe_background` (`CMakeLists.txt:54`), so lwIP and every
  handler run in an interrupt, between any two instructions of the main thread. The
  main thread handles one key in a pass that lasts up to 2.5 s (sounds and
  `sleep_ms(2000)`), reads `current_state` again and again on the way, and assigns it
  without looking at what a handler may have assigned meanwhile.
* **Commands that always answer OK**, whether or not they did anything.
* **A list freed by an interrupt** (line 339) while the main thread walks it.
* **One buffer for two messages** in the audit logger, filled by the interrupt while
  the main loop hands it to `f_printf`.
* **Failures of the card, losses of power, lost answers**, and a log that is truncated
  each time it is opened.
* **Callbacks of a library that owns the connection**: what is freed, by whom and in
  which of five callbacks, for buffers that lwIP reads again long after it was given them.
* **A document parsed by counting tokens** (line 356) into arrays of 16 and 3 bytes.
* **An expiry of 16 bits** compared in a clock that wraps, for clients that ask twice,
  leave and come back.
* **Requests that outlive the handler that gave them up** (`App.js:182`), answers that
  overtake each other, and a timer that is set after an await.

`PROJECT.json` lists these as hazards, each at its line, with the properties that would
notice it going wrong and what they leave out.

### What makes each component correct

* Core: the machine takes one vote per permission; a tally is what the voters saw
  themselves cast; after the end nothing changes and the result is shown; waiting
  means waiting, enabling and ending are not undone; every candidate can be chosen.
* HTTP connections: every connection is closed and freed once, after its answer was
  acknowledged or the peer is gone; a response buffer does not change while lwIP may
  still send from it.
* Key client: connections end, the pool is not exhausted by a server that is away, and
  no pcb is used after lwIP freed it.
* Documents: a list comes through whole or not at all, and what the app reads back is
  what it sent.
* DHCP server: no two clients hold the same unexpired lease; an expired one is found
  again although the clock wraps.
* Audit logger: what is logged is what was received, once, and stays logged.
* App: an election begins with a machine that is ready for it, ends with the winner of
  its final tally, and what the panel shows comes to agree with the machine.

## Modules

| Module | What it is |
|---|---|
| `Urna` | the core of the voting machine, code only |
| `UrnaHistory` | its history variables and properties |
| `BallotBox` | what the voting machine promises: the abstract specification |
| `Machine` | the voting machine as the app can see it: a second abstract specification |
| `UrnaRefinement` | the voting machine seen as a ballot box, and as the machine of the app |
| `RefinementProof` | the theorems that it is both |
| `UrnaProof` | its theorems |
| `Auditoria` | the audit logger, code only |
| `AuditoriaHistory` | its history variables and properties |
| `AuditoriaProof` | its theorems |
| `Lwip` | the part of lwIP's TCP that its two users see (external) |
| `HttpServer` | the callbacks of the web server |
| `KeyClient` | the callbacks of the key client |
| `UrnaNetwork` | both on one pool of blocks, and their properties |
| `NetworkProof` | its theorems |
| `Jsmn` | the tokenizer |
| `JsmnProof` | its theorem, and what it makes of the documents the app sends |
| `Configuration` | the list on its way to the machine and back |
| `ConfigurationProof` | its theorems |
| `DhcpServer` | the lease table, clients and a network that loses datagrams |
| `DhcpProof` | its theorems |
| `Mesario` | the app, a network that delays requests, and a `Machine` behind it |
| `MesarioProof` | its theorems |
| `MCUrna`, `MCAuditoria`, `MCNetwork`, `MCConfiguration`, `MCDhcp`, `MCMesario` | TLC instances, with their `.cfg` |

A definition whose comment begins "Mutant of X" is a plausible mistake in X. The
specification does not use it; substituting it for X must break the property named in
`PROJECT.json`, which shows that the property depends on that part of the code.

### `Urna`

`pc` is where the main thread is in `urna_loop`, and each action is at most one access
to a variable that a handler writes: `Draw`/`Show` (116-148), `Gate` (248), `ScanKey`
(249), `FirstDigit`/`BecomeVoting` (253: test, then assignment), `CheckVoting`,
`ReadInputPos`, `StoreInputPos`, `StoreDigit`, `CheckFull`, `BecomeShowing` (254-258),
`SwitchKey` (261), `Find`, `LoadTally`, `StoreTally`, `Confirm` (262-274: the search,
and `votes++` as a load and a store), `ResetEntry`, `Lock`, `Reopen` (269, 271, 275),
`ReleaseKey` (278). `Configure`, `Start`, `Enable` and `End` are the branches of
`tcp_server_recv`, each atomic because the main thread cannot run during an interrupt.

`input_pos++` and the store to `current_vote_buffer[...]` may be compiled in either
order, since neither variable is volatile; `ReadInputPos` chooses. When `/configure`
frees the list inside the loop of 264-266, `stale` is set: `Find` may then stop
anywhere, `LoadTally` may read any count and `StoreTally` may be lost (`StoreLost`).

Abstractions, each harmless to what is stated:

* The three reads of line 248 are one: the pass goes on only if one of them finds an
  open state, and the reads have no other effect.
* `Show` is one step: a frame is drawn from memory and sent. A `/configure` or `/start`
  inside it shows a frame that is replaced in the next pass.
* Numbers are sequences of digits and candidates have no name: a name is shown where
  the model shows the candidate's position (`oled.who`).
* Letter keys `*`, `#` and `C` do the same nothing; `C` stands for them.
* Request parsing is reduced to what decides the outcome: is the body in this segment
  (`split`), do the tokens fit (`TokensOf`, `MaxTokens`), which two characters of each
  number are kept (`Stored`). `/status` and unknown requests change none of this state.
* Memory beyond the list that `/configure` frees is not modelled: a stale store changes
  no other variable.

### `BallotBox`, `Machine` and `UrnaRefinement`

`BallotBox` says in nine atomic actions what the requirements describe: start, enable
(once, while waiting), type, correct, vote for the first candidate of the number typed,
null or blank, end; a vote closes the box in the same step that counts it. It knows
nothing of keys, threads, display or candidates' memory. `UrnaRefinement` maps the
firmware to it:

* A vote takes place at `StoreTally`. From there until `Lock` the firmware's
  `current_state` still says something else, and the mapped phase is already `waiting`
  (`Counted`). An `/enable` in this interval is a stuttering step: the code answers OK
  and forgets it, which is one of the things `urna_commands` shows.
* The entry grows at `StoreDigit`, whichever of the two stores of line 256 comes first,
  and is empty for the box whenever the box is not open.
* While `clean` is false the box is `spoilt`, and any `/start` that makes `clean` true
  again leads out of it with a list of its own. The abstract specification thus promises
  nothing after a raced command, and the whole of the voting protocol otherwise.

`Machine` is what the app can notice, and it leaves no interleaving out: the phase
(`current_state` as it is), the list, the sum of all tallies, and whether the main thread is
inside the handling of a key (`key`), before the vote (`held`) or after it (`voted`). There
the main thread assigns the phase over whatever a command has set: `Reopen` for lines 253,
258 and 271, `Lock` for 268, 269 and 275. `Count` adds one vote while `clean`; otherwise the
register of `votes++` may bring back tallies that `/start` or `/configure` has taken away.
`Configure` leaves the list that came or none. `Mesario` is built on `Machine`, and `Urna`
implements it under the second mapping of `UrnaRefinement` (`SeenPhase`, `SeenKey`,
`SeenVotes`; `MachineSpec`), so that what is shown of the app rests on the firmware.

### `Auditoria`

`ReceiveByte` is one turn of the loop of `on_uart_rx` (34-48), `CompleteMessage` its
first branch with the terminator of line 41 and `overrun` when that falls outside the
array. The main loop's `pc` goes `boot` (`SdInit`), `check` (`CheckFlag`, 127), `mount`,
`open`, `copy`, `flush`, `close` (`log_to_sd_card`), `clear` (`ClearFlag`, 129) and `wfi`
(`Wake`, 133). `Copy` takes one byte of the shared buffer per step, as `f_printf` does.

The bytes of the n-th line are all the number n, so a line mixed from two differs from
both. `disk` is what would be found after a loss of power and `file` what the open
`FIL` has; `Opened` is what `FA_OPEN_APPEND | FA_CREATE_ALWAYS` leaves of the file
(`f_open` of FatFs truncates an existing file, then seeks to its end). A card operation
may fail: mounting and opening end the call, writing leaves any prefix, closing leaves
the old, the truncated or the new file. `PowerCycle` clears memory at any step; what
was open may be lost. Writing one byte past the array changes no other modelled
variable; reading there finds `'\0'` or `JUNK`.

### `Lwip`, `HttpServer`, `KeyClient` and `UrnaNetwork`

`Lwip` is not the library but what the firmware relies on: a pool of blocks (`pcb`), each
with the callbacks and argument it was given (`arg`: the server's, the client's or none),
a queue of what it has to send, and how much of that the other end has received (`seen`).
Data is counted in units: the headers and the result of the answer to request number
`req`, or a key. lwIP keeps a pointer to a unit it was told not to copy (lines 442-444)
and reads it again for each retransmission, so `Deliver` compares the unit with what
`con_state` holds now: `Stale` when it was freed or filled again.

| Action | Code |
|---|---|
| `Accept` | `tcp_server_accept`, with the `calloc` of `con_state` |
| `Recv` | `tcp_server_recv` with a request: fills the buffers, writes twice; each of the writes may fail, one or both |
| `PhoneCloses`, `Poll` | `tcp_server_recv` without data, `tcp_server_poll`: `tcp_close_client_connection` |
| `Sent` | `tcp_server_sent`: counts, and closes when `sent_len` has reached the last answer's length |
| `ServerError` | `tcp_server_err` after a reset or a time-out |
| `SendKey`, `Connected`, `KeySent`, `ClientError` | `send_key_to_server`, `tcp_client_connected`, `_sent`, `_err` |
| `KeyServerCloses`, `KeyClosed`, `LateAck`, `Finish` | lwIP ends a connection by itself |

What a request changes in the machine is `Urna`'s. `broken` is set where
`tcp_client_err` closes a block that lwIP has freed or will free: nothing is claimed
after that, and the model stops there.

### `Jsmn` and `Configuration`

`Jsmn` is one pass over the text, a character a step, with the configuration macros the
firmware uses; the loop the parser is in (`scan`, `string`, `escape`, `unicode`,
`primitive`) is `mode`. `Configuration` builds the body as `sendConfiguration` does
(escapes included), cuts it at every byte (a body that came in part with the segment of the
request), parses it, and stores fields as lines 351-367 do, `snprintf` and its cut
included. `Status` prints the list as `create_status_json` does and reads it back with
`JSON.parse`. A text is the sequence of its bytes; the names `name` and `number` are one
symbol each, and of the status only the candidates are kept. The write past
`candidates_json` is an action of its own (`StatusOverrun`), after which the model stops.
What `Urna` says of a list in `TokensOf` and `Stored` is worked out here from the bytes.

### `DhcpServer`

`ServeDiscover` and `ServeRequest` are the two branches of `dhcp_server_process` with the
answer that follows: the client gets it or it is lost. `Erased` is the MAC that the loop
of DISCOVER clears in the first reusable slot, also when the client turns out to have
one further on; `Offered` the slot it ends with. Time is counted in blocks of 2^16 ms,
since the lease keeps the upper half of the millisecond counter; `Expired` is the signed
comparison of line 229 on that half. Clients join with an address they remember, ask,
repeat, leave, come back, and ask again when a lease ends. `left` is how long a client may
use what it was given, counted by the client; `fresh` says it was given since the machine
last started. `Tick` waits until each client that waits for an address has been heard: a
block is 65 s, and a client repeats itself within seconds.

### `Mesario`

What runs between two awaits of a handler is one action: `Finalizar`, `Configured`,
`Created`, `CreateFails` (`handleCreateElection`), `HabilitarEleitor`, `Encerrar`,
`Cancelar`, `Confirmar`, `EndAccepted`, `EndFails`, `FinalStatus`, `NoFinalStatus`, `Finish`
(`handleEndElection`),
`GoTo` (the cleanup and the effect on `currentScreen`), `Started`, `Ask`, `TakeStatus`,
`MissStatus` (`startPolling` and its interval), `Back` and `Select`. The button of the panel
(`Encerrar`) only opens a dialog (`Asking`); between it and the answer of the user
(`Cancelar`, `Confirmar`) polls and requests go on. A poll may fail after its interval was
stopped, too (`MissStatus`). A request is in
`asked` until the machine serves it, whenever that is, and in `answered` while its handler
waits for the answer (`Awaited`). The machine is a `Machine` whose lists are the numbers of
the elections and 0: every request is answered OK, and has the effect that a request has
there. So the list of an election may be lost on the way (lines 339-371 free the old one
and find no new one), and a `/start`, `/enable` or `/end` that falls inside the handling of
a key may be undone by the main thread. `posted` is the election of the last `/configure`
served, whatever came of it. `clean` is the machine's: no command has raced with a key since
the last `/start`.

## Runs

| Run | Shows | Instance |
|---|---|---|
| `urna` | `TypeOK`, `VoteNeedsCommand`, `VoteNeedsEnable`, `TallyIsWhatVotersSaw`, `FrozenAfterEnd`, `BoxSpec` (it implements `BallotBox`), `MachineSpec` (it implements `Machine`), `ResultIsShown` | 2 digits, lists of 2 and 3 candidates and one of long numbers, `MaxTokens` = 11, 2 votes; `FairSpec` |
| `urna_commands` | `CommandsStand` (RF-1, RF-9, RF-11) fails | one candidate, 1 vote |
| `audit` | `TypeOK`, `QuietMessageIsIntact`, `NothingIsLoggedTwice`, `WaitingMessageIsLogged` | buffer of 4, 2 lines of length 0, 1, 2, 3 or 5, two failures; `FairSpec` |
| `audit_append` | `LogOnlyGrows` (line 69) fails | no failure |
| `network` | `TypeOK`, `CallbacksFindTheirState`, `AnswerIsIntact`, `BlocksComeBack` | 2 blocks, 2 requests on a connection, one failed call; `FairSpec` |
| `network_free` | `NoDoubleFree` (line 158) fails | the same |
| `config` | `TypeOK`, `ListIsAllOrNothing`, `StatusReadsBack` | lists of 1 to 3 candidates around every limit, cut at every byte |
| `config_status` | `StatusIsJson` (line 323) fails | the same |
| `dhcp` | `TypeOK`, `UniqueAddress`, `EachClientIsServed` | 2 clients, 2 slots, a clock of 4 blocks, one restart; `FairSpec` |
| `mesario` | `TypeOK`, `ElectionIsReady`, `WinnerStands`, `PollingIsStopped` | 2 elections of one voter, 2 runs of the create handler |
| `mesario_live` | `PanelCatchesUp` | one election, two intervals at once, two calls of `startPolling`; `FairSpec` |
| `mesario_lost` | `VotesAreNotLost` (RNF-2) fails | one election, 2 runs of the create handler |

### What the passing properties mean

* `VoteNeedsCommand` is the strongest statement of "one permission, one vote" that
  holds without any condition: between two votes some command was handled. It is not
  `/enable` alone, as `urna_commands` shows.
* `VoteNeedsEnable`, `TallyIsWhatVotersSaw` and `FrozenAfterEnd` hold while `clean`: no
  `/start` or `/end` has come between the scan of a key and its release, and no
  `/configure` since the last `/start` at all. These are the statements the designers
  had in mind, and the condition is exactly the race the violated run shows. A
  `/enable` may come at any time. `ballots` counts what was on the display (`oled`)
  when the voter pressed the key, so that `TallyIsWhatVotersSaw` compares two
  independent searches of the list and the counters.
* `MachineSpec` is what the app may rely on in every interleaving: only a pass that
  found an open state assigns one, it counts once, and does not let the total fall; after it the
  machine waits, was opened again by key B, or was not touched; what a command does that
  falls outside a pass stands.
* `ResultIsShown` is about `/end` falling between the reading of the state (line 118)
  and the sending of the frame. It is for an end that raced with no key, and then only
  a command is an excuse: while `clean` nothing but `/start` leaves the final state
  (`FrozenAfterEnd`). An end inside the handling of a key may be overwritten and never
  come to the display, as `urna_commands` shows. It speaks of what the frame is filled with: a panel of 64
  rows has room for three candidates, blank and null, and the driver drops what is drawn
  below (lines 139 and 143-145 go on downwards).
* `QuietMessageIsIntact`: `quiet` means that the last message did not complete under a
  running copy and that nothing has changed the buffer since; `last` is what the
  interrupt received. Messages that fill the buffer completely are excluded, their
  terminator being outside.
* `NothingIsLoggedTwice` compares `serial` (messages completed) with `saved` (the last
  one written by a write that succeeded). `WaitingMessageIsLogged` is for a message that
  waits before the copy begins, and excuses runs with failures.
* `CallbacksFindTheirState` is the order of frees: no callback lwIP may still make has an
  argument that was freed. `AnswerIsIntact` is for connections with one request that the
  machine was left to close (`once`): a second request overwrites buffers lwIP may read
  again, and `Poll` frees them after five seconds. `BlocksComeBack` excuses runs with a
  failed `tcp_write` (a key post is then never given back) and those that broke the pool.
* `ListIsAllOrNothing` says what the machine has for every beginning of every body:
  nothing unless the body is whole and its tokens fit, and otherwise each candidate with
  as much of its own name and number as the arrays hold. It also says what is lost:
  the app accepts numbers of any length (`App.js:421-423`), so that `121` and `122` are one
  number to the machine, and a number of one digit can never be typed.
* `StatusReadsBack` is for lists whose fields fit, and up to `StatusOverrun`.
* `UniqueAddress` is about addresses given since the machine last started; `want`, kept by
  clients over a restart, is what makes the exclusion necessary.
* `EachClientIsServed` is for as many slots as clients. `Leave` ends a client's wait, so
  "idle" is an outcome.
* `ElectionIsReady` and `WinnerStands` hold while `calm` and `clean`: no request has
  outlived its handler, nobody left the panel before a command was answered, and no
  `/start` or `/end` came inside the handling of a key. `mesario_lost` and `urna_commands`
  show what happens otherwise. Both are about a machine that says OK to everything:
  `ElectionIsReady` cannot say that the list is there, only that no other is, and that it
  waits with zero tallies. `WinnerStands` lets polls, enables on their way and a voter with a
  key pressed go on after the final status, until another list is sent. `PollingIsStopped` holds while not `hasty`: no screen was left
  before its first status came. `PanelCatchesUp` asks for an interval that runs: after an
  `/end` that failed there is none (`App.js:824`), and the panel is frozen until it is left.

### Bounds, and why they are enough

* Two digits give four entries: two that match, two that do not (`VOTO NULO`); more
  digits only rename them. Two candidates tell the first match from a later one.
* `MaxTokens` = 11 stands for 128: two candidates fit (11 tokens), three do not (16),
  as 25 and 26 do in the firmware. The long numbers `121` and `122` become equal.
* `MaxVotes` = 2 is a bound on votes since the tallies were zeroed; `ScanKey` lets no
  voting key be pressed beyond it. Two are needed to see an `/enable` reused, and
  commands are not bounded at all, so the machine is configured, started, enabled and
  ended any number of times.
* `BufSize` = 4 with lines of 0, 1, 2, 3 and 5 bytes has empty lines, short ones, ones
  that leave a stale tail in the buffer, the one that exactly fills it and the one that
  overflows it into a second message. Of two lines one may be copied while the other
  overtakes it. `MaxFaults` bounds failures and losses of power together.
* Two blocks: a connection of the server and a key post at once, or two of either. The
  callbacks of a block touch no other, so more blocks add nothing but free ones;
  two requests are the fewest that overwrite a buffer.
* `NameSize` = 4, `NumberSize` = 3 and `JsonSize` = 75: names below, at and beyond the array;
  two candidates with full fields outgrow the status, shorter ones do not.
* `Wrap` = 4 is the smallest clock in which half of the values are past and a lease of one
  block is not always over; it wraps, and leases of the last round seem valid again. Two
  clients and two slots let both be offered the same slot and one hold two.
* `MaxElections` = `MaxSends` = 2: the second election meets what the first left behind, or
  the second run of the handler what the first one sent. `Attempts` = 1
  for 5: the status may come at the first attempt, or all attempts fail. With one vote
  an election has a tally before and after it.
* The proofs assume none of these numbers.

### Fairness

* `UrnaHistory` asks weak fairness of the main thread only: it runs in a loop without a
  blocking call, and the interrupt handlers end. It includes that a key is let go in the end
  (line 278 waits for that, and nothing in the firmware could end the wait) and that a scan
  returns. No voter has to press a key and no mesario to send a command.
* `AuditoriaHistory` asks the same, and that `__wfi` returns: the SDK's USB console
  (`pico_enable_stdio_usb`) interrupts every millisecond. No sender has to send.
* `UrnaNetwork`: lwIP's timers run. The poll callback of a connection comes every five
  seconds, and lwIP gives up a connection or an acknowledgement it has waited for too long.
  Neither the phone nor the key server has to do anything.
* `DhcpServer`: the server answers, time passes, a client that waits asks again, and an
  offer or an acknowledgement that can be made again and again gets through once (strong
  fairness, since datagrams may be lost any number of times). In the end no client starts
  afresh while the answer to its request is on its way: its own time-out is longer than that.
* `Mesario`: an interval goes on asking, a fetch ends in an answer or an error, and of the
  answers that can be taken again and again each is taken in the end (strong fairness of
  `TakeStatus`). No user has to press a button.

## Proofs

`UrnaProof` proves, for any digits, candidate lists, number of tokens and bound on votes:

| Theorem | Property | Run |
|---|---|---|
| `TypeCorrect` | `Spec => []TypeOK` | `urna` |
| `VotesNeedCommands` | `HSpec => []VoteNeedsCommand` | `urna` |
| `VotesNeedEnables` | `HSpec => []VoteNeedsEnable` | `urna` |
| `TalliesMirrorBallots` | `HSpec => []TallyIsWhatVotersSaw` | `urna` |
| `EndFreezes` | `HSpec => FrozenAfterEnd` | `urna` |

`AuditoriaProof`, for any buffer of at least two bytes, any lines and any failures:

| Theorem | Property | Run |
|---|---|---|
| `TypeCorrect` | `Spec => []TypeOK` | `audit` |
| `LoggedOnce` | `HSpec => NothingIsLoggedTwice` | `audit` |
| `MessagesAreIntact` | `HSpec => []QuietMessageIsIntact` | `audit` |

`NetworkProof`, for any pool of blocks and any number of requests and failures:

| Theorem | Property | Run |
|---|---|---|
| `TypeCorrect` | `Spec => []TypeOK` | `network` |
| `CallbacksAreSound` | `Spec => []CallbacksFindTheirState` | `network` |
| `AnswersAreIntact` | `Spec => []AnswerIsIntact` | `network` |

`RefinementProof`, for the same constants as `UrnaProof`:

| Theorem | Property | Run |
|---|---|---|
| `UrnaIsABallotBox` | `HSpec => BoxSpec` | `urna` |
| `UrnaIsAMachine` | `HSpec => MachineSpec` | `urna` |

`DhcpProof`, for any clients, slots and leases, and any clock of more than twice a lease:

| Theorem | Property | Run |
|---|---|---|
| `TypeCorrect` | `Spec => []TypeOK` | `dhcp` |
| `AddressesAreUnique` | `Spec => []UniqueAddress` | `dhcp` |

`JsmnProof`, for any text and any number of tokens:

| Theorem | Says | Run |
|---|---|---|
| `TokensLieInText` | every token lies in the text, and a parse that succeeds has counted them all | |

`ConfigurationProof`, for any candidate lists, typed with any characters, any sizes of the
arrays and any number of tokens:

| Theorem | Property | Run |
|---|---|---|
| `TypeCorrect` | `Spec => []TypeOK` | `config` |
| `ListArrivesWhole` | `Spec => []ListIsAllOrNothing` | `config` |
| `TypedIsShown` | `Spec => []StatusReadsBack` | `config` |

and `MesarioProof`, for any number of elections, runs, voters, votes, attempts and intervals:

| Theorem | Property | Run |
|---|---|---|
| `TypeCorrect` | `Spec => []TypeOK` | `mesario` |
| `ElectionsAreReady` | `Spec => []ElectionIsReady` | `mesario` |
| `WinnersStand` | `Spec => []WinnerStands` | `mesario` |
| `PollingStops` | `Spec => []PollingIsStopped` | `mesario` |

Assumptions are those declared with the constants: the digits are not the letter keys
(`DigitAssumption`), lists are sequences of numbers (`SlateAssumption`), bounds are
natural numbers (`BoundAssumption`, `LineBoundAssumption`, `LengthAssumption`), the
buffer has room for a byte and its '\n' (`BufSizeAssumption`), there is a slot
(`SlotAssumption`), a lease is shorter than half the clock (`WrapAssumption`: 1318 blocks
of 32768), the values that stand for no MAC and no address are neither
(`ValueAssumption`), the arrays have room for a '\0' (`SizesAssumption`) and the tokenizer
for a token (`NumTokensAssumption`), and what is typed into the app are lists of pairs of
texts (`ListsAssumption`) of characters, which one byte of an accented letter is not
(`CharsAssumption`).

How the arguments go:

* **Types** (`TypeInv`). `TypeOK` alone is not inductive: `tmp` must be an index of the
  buffer at `put`, `slot` a position of the list at `load` unless `stale`, `key` a digit
  where it is stored. `RegistersOK` says so.
* **Commands and enables** (`CommandInv`, `LicenceInv`). A vote is stored only in a pass
  that found an open state. `Admitting` is the set of combinations of `pc`, `key` and
  `current_state` from which a vote can follow without another command; whenever the
  machine is in one of them, a command (with `clean`, an `/enable`) was handled since
  the last vote. Storing a vote leaves them, and `Lock` keeps out of them.
* **The end** (`FinalInv`). While `clean`, `ELECTION_ENDED` implies that the main thread
  is outside the handling of a key: the gate stops it, and a command inside the
  handling clears `clean`.
* **Tallies** (`TallyInv`). What was drawn for the candidate screen is still what the
  search of line 265 will find (`DisplayInv`): while `clean` neither list nor entry
  changes between the two. The register of `votes++` holds the counter (`CountInv`), and
  counters equal ballots (`MirrorInv`).
* **Ballot box** (`BoxInv`). While `clean`, the handling of a key finds the machine open
  (`OpenInv`), `input_pos` counts the digits of the entry except between its two stores
  (`LengthInv`), the entry is empty in `READY_TO_VOTE` and has two digits in
  `SHOWING_CANDIDATE` (`StateInv`), and `slot` is what the entry finds (`ChoiceInv`): this
  is what `Type`, `VoteBlank`, `VoteNull` and `VoteFor` ask of the step that maps to them.
  All other steps of the loop leave the mapped state alone (`QuietIsStill`), and each
  command maps to its own action, to a stutter, or to `Spoil`.
* **Machine** (`SeenInv`). A register that holds a tally holds no less than the tally does
  at the store (`LoadedInv`): `/start` and `/configure` only take votes away, and only the
  main thread adds them. A list freed under a vote (`stale`) is replaced by one without votes,
  so that a lost store takes nothing away either. While `clean` the register is the tally
  itself (`CountInv`), and the sum grows by one. The sum is a recursive function; its equation is
  shown with a set of naturals that holds 0 and successors, as for **Tokens** below.
* **Once** (`SavedInv`). A message already saved, with nothing after it, has its flag set
  only where it is about to be cleared, and is not on its way to the file.
* **Intact** (`IntactInv`). Bytes in the buffer are not '\0' (`BytesInv`), so the first
  '\0' is the terminator; a quiet message is in the buffer (`MessageInv`), and what has
  been copied is its beginning (`CopyInv`).
* **Connections** (`NetInv`). A block has the server's callbacks exactly while its
  `con_state` is allocated, and the client's exactly while its `state` is (`OwnerInv`).
  `sent_len` and what is still queued add up to two units a request at most (`QueueInv`), so
  that with one request `sent_len` reaches the answer's length only when the queue is
  empty; and while the queue is not empty, the buffers hold what is in it (`AnswerInv`). A
  step touches one block (`OnlyAt`), so each action is proved for its own.
* **Addresses** (`DhcpInv`). A client that may use its address has its MAC in that slot, and
  the clock has to go at least as far to the slot's expiry as the client counts
  (`HolderInv`): `Remaining`, the distance around the clock, starts at the lease time and
  loses one a block, so it stays below half the clock and the lease is not `Expired`,
  which DISCOVER would have to see to erase it. A client that asks has given up what it had
  (`AskerInv`).
* **Tokens**. `Parse`, `FlattenSeq` and `Decoded` are recursive functions, each defined on an
  interval; that they exist and satisfy their equations is shown with a set of naturals
  that holds 0 and successors, and facts about every text follow in the same way. A step
  of the parser keeps its tokens in what has been read, and its `count` their number
  (`Sound`), which gives `TokensLieInText`; what it has stored it does not lose (`Extends`).
* **Lists** (`IInv`). A typed text cannot end the string it is in: an escape takes back the
  quote after it, so the parser comes out of `Encoded(typed)` as it went in. So the body is
  read item by item: one token for the array and five for each candidate, each standing for
  its own text, until the tokens run out, which is an error. In a body that is
  cut the first bracket is still open, which is an error too. `IInv` then says that the
  machine has what was sent if the body was whole and the tokens sufficed (`Delivered`), and
  nothing otherwise. `TypeOK` and `StatusReadsBack` alone are not inductive: an
  answer is right because the machine has the names that were sent, and because it is what
  `Read` gives until the next change.
* **Status**. `Decoded` undoes `Encoded`: seen from the end backwards, the bytes of each
  character are read as that character, whatever comes after them. A field that fits is not
  cut, so it is never broken and `Read` gives the list that was sent.
* **Polling** (`PollInv`). While nobody was hasty, at most one call of `startPolling` waits
  for its status, only on a panel, and no interval runs meanwhile; so the interval it sets
  is the one `ref` names.
* **App and machine** (`AppInv`). While `calm`, a `/configure`, `/start` or `/end` is on its
  way only for the handler that waits for it, and no `/enable` while the home screen is
  shown (`AskedInv`); an answer belongs to that handler too, and its request is no longer
  on its way (`AnsweredInv`). So no request can change the machine between an answer and its
  use, and while `clean` the main thread cannot either: inside the handling of a key the
  machine is open, or, after the vote, open or waiting (`KeyInv`). So the answer tells
  what the machine was sent and does (`MachineInv`), of which the list is there or none
  is (`ListInv`). Elections are numbered
  upwards (`NumberInv`): the list of one whose winner was announced can only be replaced by
  a newer one (`AnnouncedInv`).

Only model-checked: liveness (`ResultIsShown`, `WaitingMessageIsLogged`, `BlocksComeBack`,
`EachClientIsServed`, `PanelCatchesUp`), for which the prover has no rule under fairness; and
the five violations below. Every invariant of the passing runs, and every action property and
refinement, is a theorem. That the history variables take no behaviour away can be read off
`UrnaHistory` and `AuditoriaHistory`: each action of `HNext` conjoins one of the code with
assignments to history variables, and no guard reads one.

## Where code and documents differ

Five runs are expected to be violated; the quotations are in `PROJECT.json` under
"findings".

* `urna_commands`: what `/start`, `/enable` or `/end` decided is overwritten by the main
  thread when it falls inside the handling of a key.
* `audit_append`: a log that is said to be appended to is truncated by each message.
* `network_free`: a function said to avoid a double free is called where it causes one.
* `config_status`: a name cut inside an escape makes the status unreadable, and the app
  can then neither show nor end that election.
* `mesario_lost`: a request the app gave up after five seconds is served during a later
  election and zeroes its votes.

One more, which no run checks because nothing promises either side: while a candidate is
shown the display offers "D=Branco" (line 131), and key D does nothing in
`SHOWING_CANDIDATE` (line 272). `Urna` and `BallotBox` follow line 272.

## Not modelled

* **FatFs and the SD driver** are a vendored library, nine tenths of the repository's lines
  of C (half of them one table of characters); what the firmware relies on is in
  `Auditoria`: which calls may fail, what `FA_CREATE_ALWAYS` does, what is on the card
  after a failure.
* **DNS server**: linked but never started (lines 485-486); it answers every query alike and
  keeps no state between two.
* **Display driver**: output only, with no decision that comes back to the machine.
  `draw_pixel` drops what is outside the panel, so text that is too long or too low is
  lost and nothing else. `oled.who` and `oled.tallies` stand for what was drawn: of a name
  at scale 2 (line 127) ten letters fit, and of the result (lines 136-144) with four
  candidates the null votes are below the panel, with five the blank ones too.
* **etapa-3**: superseded. The main thread and its handlers are those of `Urna` with a list
  of two that is never replaced; its web server answers and leaves the closing to the app.
* **Key server**: not in the repository. The order in which its posts arrive, and which
  client gets 192.168.4.16, decide only whether a key is recorded there: neither the machine
  nor the app reads an answer of it that changes anything.
* **Inside lwIP**: `send_key_to_server` calls it from the main thread without its lock (line
  226). What an interrupt finds then depends on the library's code; `KeyClient` takes each
  call as atomic.
* **Heap**: that `malloc` of the list fails (line 349 does not look), and memory beyond the
  arrays.
* **Documents the app does not send**: `Configuration` posts the app's lists and their
  beginnings, not arbitrary text.

## Plan

Done: the voting machine, its abstract specification and its connections, the documents,
the tokenizer, the DHCP server, the logger and the app, with every safety property proved.
Left:

1. An abstract specification of the logger (a file that holds the last quiet message) and of
   the lease table (an injective map of addresses), with the theorem that they implement it.
2. The prototype of etapa-3, as `Urna` without `/configure` behind a server that never
   closes.
