# SingaporeAdapter in TLA+

SingaporeAdapter connects a fleet of AGVs (GzRobot) with the lifts of a parking
tower (Xizi). It is one asyncio process: tasks poll registers of a Mitsubishi
PLC and a database, create orders over HTTP and answer HTTP requests of the
fleet manager. Nothing runs in parallel, but between any two `await`s every other
task, the PLC and the fleet go on, and what a task knows of a register is a
value it read some calls ago. These modules are about what follows from that.

## The system

Paths are relative to `src/`.

| Part | State | Operations | Hard behaviour | Module |
|---|---|---|---|---|
| MC protocol client `utils/protocol/mc/aio_mc_client.py`, TCP client `utils/protocol/tcp/aio_tcp_client.py` | streams, `_stoped`, the lock | `safe_send_register`, `safe_recv_register` | one link shared by all tasks, reopening, retries, lost and broken answers, lengths read out of step; numbers that fit no register | `McClient`, `PlcRegister`, `PlcOps`, `McFrame` |
| Base device `core/device/implement.py` | `_connection_pool` | `safe_send`, `safe_recv` | all devices of one PLC share one client | `PlcRegister` is its promise |
| Orders `core/adapter/adapter.py` (`monitor_generate_order`, part of `monitor_clear_signal`), `report_*_task_handle_*` in `core/device/device.py`, `dep_report_task_finish` in `core/service/views.py` | ORDER_HANDLE register | create an order per command, acknowledge it, clear the acknowledgement | read-modify-write of one register by three writers, failed orders, restarts | `OrderHandle` |
| AGV modes: `report_agv_state`, `write_agv_mode`, `reset_agv_mode`, `dep_report_agv_status` | REPORT_AGV_MODE register, the rows of a round | bring two bits per AGV in line with the database | old rows, a second writer, failed queries, an AGV without bits | `AgvMode` |
| Heartbeats: `send_heartbeat`, `recv_heartbeat` | `cur_val`, `pre_updated_data` | count, watch | the ends of the count, restarts | `Heartbeat` |
| Signals about an AGV in a lift: `monitor_clear_signal`, `ssio_request_in`, `ssio_request_level`, `dep_ssio_request_action`, `report_agv_*_car_number` | LOAD_ACTION, UNLOAD_ACTION, three registers of numbers | let an AGV in, report what it did, reset | a check, a read and a reset with requests between them | `CarSignals` |
| The list of cars to move: `report_agv_reverse_car_number`, its reset in `monitor_clear_signal` | the registers of REPORT_REVERSE_CAR_NUMBER | write a list, zero it | lists too long or short, refused frames, answers in segments | `ReverseList` |
| Information reports `report_agv_battery_info`, `report_agv_error_info` | one register per AGV and kind, the rows of a round | copy levels and codes of faults | rows older than the codes asked for later, an AGV without registers, failures | `AgvInfo` |
| `monitor_clear_error` | `agv_id_list` | have faults cleared while a lift is in RESET | a list older than the request, requests that fail | `AgvInfo` |
| HTTP handlers `core/service/views.py` | none | translate requests | answers that do not tell what happened (`heartbeat`, 194) | registers: above; answers: not modelled |
| PostgreSQL client `utils/aio_postgresql.py` | `connect_pool` | create the pool on first use | several first users, failures | `PgPool` |
| Start-up `setup.py`, `Adapter.run` | table of names | one adapter per device | `yield` inside the loop | not modelled |
| `utils/_loop.py`, `utils/sync.py` | task count | stop the loop when tasks are done | not used by the program | not modelled |
| HTTP client, TCP server, configuration, logging, command line | - | - | wrappers without state of interest, or unused (the server) | not modelled |

The parts meet in the registers. Requests and monitors call device methods;
these make one or two register calls each; the calls of all devices of one PLC
go through one `AioMcClient` and its lock.

What makes each part correct: a register call returns what the PLC holds and is
applied before it returns; a command becomes an order, acknowledged once, and
the acknowledgement goes away; the mode bits show the fleet; heartbeats go on;
an AGV is let in only when the lift is there, its start is not
forgotten and its finish not left; a list is written whole or not at all; levels and faults shown
are recent; all queries come to share one pool.

## Layers

`McClient` models the transactions on the link, character counts included.
`PlcRegister` is what they amount to: a call is pending until it returns, the PLC
serves it at least once in between, a recv returns what it was served. There is one
exception. After the PLC closed its side in an orderly way, `read(22)` returns
nothing, `send_register` does not look at it, and a send returns unserved
(`ReturnUnserved`, possible only while `closed`; the constant `MayClose` switches it).
`McClient` implements `PlcRegister` with `closed` mapped to `link = "eof"`, `MayClose` to
whether the PLC closes at all and every other variable to itself (`Register ==
INSTANCE PlcRegister WITH ...`; run `mc`, theorem `Refinement`), as long as answers
come whole and the PLC refuses nothing.

The other modules rest on `PlcRegister`: a recv is one step, a send is a step
that may be taken again until the call returns (`ApplySend`, `ApplyMode`, `ApplyBeat`,
`ApplyReset`, `ApplyReport`), or is lost (`SendUnserved` of `OrderHandle`,
`ResetUnserved` of `CarSignals`). "At least once" is not a detail: a write that was
applied and lost its answer is written again seconds later, over whatever another
task has written since. `ReverseList` alone rests on `McFrame` instead, because it is
about what becomes of calls when frames are refused and answers broken, which
`PlcRegister` excludes. `AgvInfo` takes its database queries from an instance of `PgPool`.

| Module | Models |
|---|---|
| `PlcOps` | the calls: send or recv, an address, a value |
| `PlcRegister` | abstract specification of a device object |
| `McClient` | the client and the link; implements `PlcRegister` |
| `OrderHandle` | commands, orders and acknowledgements |
| `AgvMode` | the mode bits of the AGVs |
| `Heartbeat` | both heartbeats |
| `CarSignals` | signals about an AGV in a lift |
| `McFrame` | the digits of a number in a request, and what the PLC takes |
| `ReverseList` | the list of cars to move, register by register |
| `PgPool` | the connection pool to the database |
| `AgvInfo` | levels and faults of the AGVs, and clearing faults |
| `MC*` | constants of the instances TLC checks |
| `*Proofs` | theorems and proofs |

A definition whose comment begins with "mutant" or "mutation" belongs to no
specification: it is a plausible mistake in the definition that follows it, and
the run named in PROJECT.json finds the property violated with it in place.

## Modules and code

**McClient.** `pc[t]` follows task `t` through `safe_*_register`: idle, waiting for
the lock, `start` (smart_start), `write`, `head` (read(22)), `body` and `more` (the loop of
read(1024), before and after it has read any data), `sleep` before a retry. `reads` is how
many reads the loop still makes (aio_mc_client.py:91-93): one for an answer or an error
report; out of step the four characters read as the length may be any number, and `reads`
any number up to `MaxReads`, or none, which raises. A loop that waits for characters
nobody sends keeps the lock until the connection ends. `owner` and `waiters` are the asyncio.Lock, handed over first
in first out. `stoped` is `_stoped`, `link` the state of the two streams: `none` before
the first open, `eof` after the PLC closed its side (reads end, writes go through),
`reset` when they raise. Answers are counted characters: `unread` in the StreamReader,
`coming` on the way, `skew` left from earlier answers. A value parsed from
characters of more than one answer, or of part of one, is `Garbage`. `wrote` is a history
variable: the tasks whose request went out on the streams that are open now.
`Open` has three outcomes: new streams, a timeout that AioTcpClient.open swallows
(the old streams stay and the client counts as started), or an exception. The model
assumes that a PLC whose link broke has dropped what it had not served.

**OrderHandle.** Three writers of one register, each with its own `pc`:
`generate` (monitor_generate_order, one step per await: AUTO, STOP, the save
command, the take command, the handle bit, create_order, recv, send), `clear`
(the handle bits in monitor_clear_signal) and `finish` (dep_report_task_finish).
`Rest` and `Raises` are safe_forever_loop: an exception ends the round. Car numbers
are data no property depends on. `SendUnserved` is a send the PLC never got: an
acknowledgement that is not written has the command ordered again, a clearing that is
not written is made up for in a later round. The PLC is external: it raises a command whose
acknowledgement is off, and takes it back once it is on. `owed` and `ordered`
are history variables.

**AgvMode.** `rows` is the result of get_all_agv_state, `todo` the bit updates
left for the AGV the round is at; each update is a recv and, if it changes the
register, a send. A row is one of four conditions, the tests of
report_agv_state in order. `configured` are the AGVs the configuration has bits for:
any other is a KeyError before the recv, which ends the round, or the request
(`ModeUnconfigured`). `Ordered` bounds the AGVs that get orders. What the deprecated handler is told need not be true any
more, and it may interleave anywhere; `from` is a history variable, the first AGV of the
round whose updates no request can have disturbed.

**Heartbeat.** `cur` is `cur_val`, `shown` the register. Two history variables
survive a restart: `quiet` counts the turns without a new value since the
register last changed, `starts` how often the loop has been started since.

**CarSignals.** The monitor visits a lift's signals in the order of the code:
`load`, `unload`, the check of DOCKED, then `reverse`, `find` and `finish`;
`stage` says whether it checks, reads, sends or has sent. A request is a `target`
register and a `value`. As in views.py, a request is refused only by ssio_request_in's
check of DOCKED: any number of requests about a register, waited for or not and whatever
it says, may be under way at once, and START may replace FINISH. `Deprecated` says
whether the old endpoint, which checks nothing, is used. `ResetUnserved` is a reset the
PLC never got. `fresh` is a history variable: START has been written to the register
about to be reset since the monitor read FINISH there.

**McFrame, ReverseList.** `Encode` is `hex(value)[2:].zfill(4)`, digit by digit: five
digits from 0x10000 on, and of "-0x1" the letter x. The PLC is external; it counts the
characters of the data, whichever number they come from, takes a frame that has four of
them for each number it announces, all digits (`Accepts`), reads four at a time
(`Taken`), and refuses any other frame. A refusal is 18 characters longer than what a send reads of it, and a recv uses
of an answer only what its `read(1024)` returned: in either case `rest` is TRUE,
part of an answer is still on the connection. Then a recv, the monitor's or another task's,
may take anything for its answer (`Misread`), raise and reopen the connection (`Reopen`), or
misread the length and wait for characters that do not come (`Stick`): while `stuck` the
lock is held and nobody sends or reads, until the connection ends (`ConnectionEnds`), if it
ever does. The monitor's reads and its three seconds between reading and zeroing are steps.

**PgPool.** `step[u]` is where user `u` stands in `get_connect_pool`: about to test
`connect_pool`, creating, sleeping before a retry, holding a pool. A pool is named after
the user that created it. The last creation to finish is kept.

**AgvInfo.** Both rounds are one set of actions over `k`, "error" or "battery": `Fetch`
takes the rows, `StartRow` decides about the next row (ask for the code, send, or end
the round at the KeyError of an AGV that has no registers), `ApplySend` and
`SendReturns` are the send. `rows` holds for each AGV what the query returned, `Ask` for a
fault whose code has to be asked for. `seen` is a history variable: what has been so
since the query of the round. `cpc`, `lift` and `faulty` are monitor_clear_error. The
fleet (`truth`) changes at any moment.

## What is checked

| Run | Instance | Shows |
|---|---|---|
| `mc` | 3 tasks, 1 register, 2 faults: orderly closes, resets, timeouts, refused connections; an unsupported argument | `OpenIsProtected`, `ImplementsRegister`, `FreshAnswer`, `CallReturns` |
| `mc_broken` | 2 tasks, 1 fault, segmented answers, refusals, misread lengths | `TypeOK`, `AnswerDue`, `ReadsOwnStreams` |
| `oh_safety` | 1 lift, both commands, every mode, finish reports, 2 faults (failed orders, lost sends, restarts) | `TypeOK`, `DuplicatesExcused` |
| `oh_live` | 2 lifts, 3 commands, 1 fault | `CommandAcked`, `SettlesClean`, `OneSided` |
| `am` | 2 AGVs, the first in three conditions, the second with bits or without, 1 late request, 1 failed query | `TypeOK`, `RoundAgrees`, `OthersUntouched`, `Converges` |
| `hb` | a count to 5, 2 restarts, any value in the register at first | `TypeOK`, `QuietTurnsBounded`, `KeepsBeating`, `SilenceNoticed` |
| `cs` | 1 lift, all three numbers, 2 requests at a time, 1 lost reset | `TypeOK`, `StartStands`, `FinishCleared`, `NumbersCleared` |
| `info` | 1 AGV with registers and 1 without, 1 lift, another user of the database, 1 failed creation of a pool, 1 failed query or request | `TypeOK`, `ShowsRecent`, `OnePoolEach`, `ShownInTheEnd`, `ResetClears` |
| `lists` | 2 lifts, 2 reserved registers and 1 after them, 5 lists, 2 requests at a time, answers in segments | `TypeOK`, `FrameLength`, `AsItIs`, `ListCleared` |

Three further runs check a sentence of the code's own comments that the code
does not keep; each is a finding in PROJECT.json.

| Run | The comment | What the code does |
|---|---|---|
| `oh_lost` | the bit reports a handled task (device.py:406) | the acknowledgement of a take writes back the save bit it read before the monitor cleared it, for a save raised since that nobody ordered |
| `am_exclusive` | the modes exclude each other (device.py:95) | an AGV reported free that gets an order keeps AUTO beside RUNNING (adapter.py:155) |
| `cs_entry` | make sure the lift really is there (views.py:224) | START is written after the lift left |

The models follow the code, not the comment, in these places as well:

- aio_mc_client.py:134 would discard 22 characters; on a stream that has ended the
  send returns as if it had been served.
- views.py:397 has an acknowledgement cleared after the other side's signal;
  `clear` clears it while the command is still up.
- aio_mc_client.py:117 has a number above 65535 or below 0 refused by the PLC, with every
  other number of its list, and the caller is answered as if it had been written.
- device.py:181 logs a list that is too long as a warning and writes all of it; what it wrote
  beyond the reserved registers nothing clears.
- adapter.py:99 and 122, device.py:107 and 125 end the round at an AGV without registers or
  bits: levels, faults and modes of the AGVs after it are never shown.
- aio_mc_client.py:91 counts 1024 for every read. In step one read is all it makes; out of
  step a length of thousands has it wait for ever.
- views.py:239-254 and 304-313 write START whatever the signal says: one that replaces a
  FINISH the monitor has just read is erased by the reset.
- aio_postgresql.py:31 creates one pool per task that comes first; all but one stay open
  unused.
- adapter.py:218 gives code 1000 to saves; the finish report for 1000 (views.py:413)
  clears the bit of takes.
- device.py:41 says values 1-100: 0 is sent, 100 is not. device.py:42 says one
  heartbeat every second: the turn that starts the count over sends none, and a restart
  sends a value that is there already.
- device.py:501 and 607 have a finish signal and numbers reset after the ready
  signal: a finish is reset once the lift was read not to wait, numbers although
  the lift came back in the meantime.

**Bounds.** Two lifts are two bits of a shared register and two turns of a loop;
what a third adds is another bystander. The three writers of ORDER_HANDLE and
the two of REPORT_AGV_MODE are all there are. Three tasks make a queue on the
lock in which one waits behind another. One register is enough for the client:
it looks at no address. One or two faults put an exception, a lost send or a
restart at every step, and two on the link let a timeout, after which the old streams
stay, follow a reset or a close.
`MaxSkew` = 22 bounds stale characters in front of a request at one whole head, enough
for a reader to take an old answer for its own. `MaxReads` = 2 stands for up to 64 reads of
a misread length: the second is the first that may have nothing to wait for, and a third
differs from it in nothing. In `am` one AGV
goes through every condition the code tells apart, the other has only its orders come
and go (not connected is left out, the code does the same for not dispatched): two
bits of two AGVs are what the two writers can lose for each other. `hb`
counts to 5 instead of 99: the count starts over, stands at its end and is
restarted at every value, and again before it has gone on. `cs` has one lift: its
actions, numbers and requests meet in its own registers, and two lifts with two requests
at a time exceed what TLC finishes in minutes (2.3 million states and liveness over them); the
theorems hold for any lifts, and `lists` runs two. One action is requested, since the two are
treated alike. In `info` the AGV without registers is the second row, so
that the round passes one and ends at the other; one code, one level and one lift
are enough for a fault to come, change into none and come back at every step (two
lifts exceed what TLC finishes in minutes), and two users of the pool both find none.
`lists` has numbers of one, four and five digits and a negative one, and lists
that fill the registers, are shorter and longer. Numbers are bounded by five digits
(`Limit`), the shortest that the PLC refuses. The safety
theorems hold without these bounds, but for `Limit`.

**Fairness.** The event loop runs every task that can run, and
`safe_forever_loop` starts every round again, so each monitor gets weak fairness
as a whole. A send may be applied again any number of times; that it returns in
the end is `CallReturns`, which `mc` checks of the client under fair
scheduling, a PLC that answers and a link that fails finitely often. There is
none on faults, requests, the fleet or the PLC's program. In `info` the creation of a
pool by the error round is fair as well: it is the same task. `ListCleared` supposes that
the connection does not stay out of step for ever, which includes that no recv waits
for ever on it. Without a PLC that answers
nothing is live: a read has no timeout.

Every run checks for deadlock. That says little of a reader, because the PLC's program goes
on; `AnswerDue` says that on a link that is up the read of a head and the first of the data
always have something to wait for, and that a task is in further reads only out of step, where
it may indeed wait for ever.

## What is proved

TLAPS checks these for every value of the constants.

| Theorem | Assumes | Says |
|---|---|---|
| `McClientProofs!TypeInvariant`, `Protection` | - | `TypeOK`, `OpenIsProtected` |
| `McClientProofs!StreamsAreNotReplaced`, `AnswersAreDue` | - | `ReadsOwnStreams`, `AnswerDue` |
| `McRegisterProofs!FreshAnswers` | whole answers, no refusals | `FreshAnswer` |
| `McRegisterProofs!Refinement` | the same | `ImplementsRegister`: `McClient` implements `PlcRegister` |
| `OrderHandleProofs!TypeInvariant`, `NoUnexcusedDuplicate` | - | `TypeOK`, `DuplicatesExcused` |
| `OrderHandleProofs!StaleWritesOneSided` | no finish reports | `OneSided` |
| `AgvModeProofs!TypeInvariant` | - | `TypeOK` |
| `AgvModeProofs!RoundFollowsRows`, `OneAgvAtATime` | - | `RoundAgrees`, `OthersUntouched` |
| `HeartbeatProofs!TypeInvariant`, `FewQuietTurns` | at least two values | `TypeOK`, `QuietTurnsBounded` |
| `CarSignalsProofs!TypeInvariant`, `EntryStands` | - | `TypeOK`, `StartStands` |
| `AgvInfoProofs!TypeInvariant`, `RegistersShowRecent`, `PoolsBounded` | - | `TypeOK`, `ShowsRecent`, `OnePoolEach` |
| `ReverseListProofs!WordRoundTrip` | - | the PLC reads back every number that fits a register |
| `ReverseListProofs!TypeInvariant`, `ListsAreWrittenAsTheyAre` | - | `TypeOK`, `AsItIs` |
| `ReverseListProofs!FramesAreWhole` | - | `FrameLength` |

The assumptions on constants are the named ASSUMEs of the modules. The arguments:

- *Protection.* Being the owner of the lock and being between `start` and `body` are
  the same thing; a task in the queue is there once; whoever is past `start` has
  set `stoped` to FALSE and nobody else can run the handler that sets it.
- *StreamsAreNotReplaced, AnswersAreDue.* A task comes to read by writing, which puts it in
  `wrote`. Only new streams empty `wrote`; they need a task between `start` and its write,
  and by `OpenIsProtected` nobody else reads then. For `AnswerDue` the invariant
  `Answering` says that for a task before the head or the first data the newest request on the
  link is its own, or was served and left as many characters to be read as an answer has,
  less what was read of its head; and that more than one read of data is asked for, or under way,
  only with stale characters ahead.
- *Refinement.* Only one request is on the link. The inductive invariant `Fresh` says
  by where its owner is what the link may carry: nothing before `write`; at
  `head` the request, or its answer on the way, or the answer in the buffer, and then
  `answer[t]` is its value; `skew` is 0 throughout. A dead link (`eof`, `reset`)
  carries no request, so the retry that follows serves the call again within
  the same pending call. After an orderly close a send finds the stream ended and
  returns: that is `ReturnUnserved`, which is allowed because `closed` is `link = "eof"`.
  `PlcRegister` keeps `closed` until the client connects again, as `link` does.
- *NoUnexcusedDuplicate.* A bit outside `owed` and outside ORDER_HANDLE does not exist
  but for the bit the generator is about to write; the generator only reaches
  `create` with its bit off.
- *StaleWritesOneSided.* A value being written by the generator contains every bit that
  is on, one by the clearing monitor only bits that are on: while one of them
  is between its recv and its return, the other can only move the register in
  the direction that keeps this true of it; which bits each of them may still move is part of
  the invariant `Sided`.
- *RoundFollowsRows, OneAgvAtATime.* While the handler is in a request, `from` is beyond the
  AGV of the round, so both properties are silent. Once it is done, `from` is the next AGV, and
  from there on the round is the only writer: the register differs from the value about to
  be written in the bit of the current AGV only, and the updates left for that AGV are those
  its row asks for, the first of them made.
- *FewQuietTurns.* `Bounded` says by where the loop is how long the register stood still. At a
  turn, either `cur` is what was found there, and the latest start has cost nothing yet
  (`Found`), or one past the register (`Counted`), or the count has just started over
  (`Wrapped`), which costs a turn; what is sent next is then new, and sets `quiet` and
  `starts` back.
- *EntryStands.* A START is only overwritten by START or FINISH (the requests about an action
  write nothing else) or by the monitor's reset. The invariant `Resets` says that the
  register the monitor is about to reset holds FINISH or CLEAR, unless `fresh`: it was FINISH
  when it was read, what was written since is FINISH or START, and a START sets
  `fresh`. So an unfresh reset takes no START, for requests that are under no restriction at all.
- *RegistersShowRecent.* `seen` grows with `truth` and starts over with the query, when no
  row has been passed. The value about to be sent is in it: a row without a fault says
  what was so at the query, a code was asked for later. Sending moves it to the
  register, so whatever is written during a round is in `seen`.
- *PoolsBounded.* A user that has created a pool leaves `connect_pool` set for good, and finds
  it set whenever it tests it again: only users that have made none are creating or about
  to retry.
- *WordRoundTrip, ListsAreWrittenAsTheyAre.* By the number of digits: a word has at most
  four, the zeros in front add nothing, and four digits are the number in base 16. A
  larger number has five, and a negative one the letter x, so that `Accepts` is the same as
  every number being a word. The lists being written are among those reported
  (type invariant).
- *FramesAreWhole.* Characters are pairs of a number and a place in it, in order. If all numbers
  have four digits, the character at position i is number (i - 1) / 4's, so that each number is
  the four digits taken. If the count is right and all are digits, none is shorter than four
  (zfill), so none is longer.

Only checked by TLC: what needs fairness (`CallReturns`, `CommandAcked`, `SettlesClean`,
`Converges`, `KeepsBeating`, `SilenceNoticed`, `FinishCleared`, `NumbersCleared`,
`ShownInTheEnd`, `ResetClears`, `ListCleared`); the prover handles neither liveness nor ENABLED.
Every invariant and action property that a passing run checks is a theorem as well.

## What is not modelled

- *The rest of the frames.* Of a request the digits of its numbers are modelled, of an
  answer its lengths; addresses and headers are constants of the configuration.
- *Cancellation of calls.* It would leave an answer on the link, but aiohttp as used here
  cancels no handler, and nothing cancels the tasks of `run`.
- *Lost sends of the HTTP handlers, of `AgvMode`, `AgvInfo` and `Heartbeat`.* The rounds repeat
  what they sent, a moment later; `RoundAgrees` and `QuietTurnsBounded` suppose that the
  PLC does not close the connection meanwhile. An entry or report of an AGV that is lost stays lost, which no
  property could say without the AGV's own view of what it was told.
- *Refusals and segments outside `ReverseList` and `mc_broken`.* While the connection is
  out of step any value may be read, and no property of the other modules survives
  that; what does survive is in those two.
- *Answers of the HTTP handlers, the look-up of devices, `heartbeat` (views.py:185)*: no
  state changes. The last answers the same always, since it does not await mode_is_stop.
- *report_agv_target_car_number*: one send for one request, nothing kept.
- *monitor_stop_heartbeat*, `update_io_state` and the modes read by nothing else: `run` does
  not start them.
- *Start-up* (`setup.py`, `Adapter.run`): tasks are created once. The `yield` inside the loop
  over the devices is a hazard in PROJECT.json; the configuration has one device.
- *`utils/_loop.py`, `utils/sync.py`, the TCP server*: nothing imports them. *HTTP client,
  configuration, logging, command line*: wrappers without behaviour over time.
- *Car numbers of orders and time.* Sleeps are places where others run. The PLC, the
  fleet manager and the database are external and appear as what the code assumes
  of them.

## Plan

1. `System`: several of the components over one `McClient`, to see the shared lock
   delay them together.
2. An abstract specification of the order handshake that `OrderHandle` implements when
   updates do not interleave.
3. Lost sends of requests, with an AGV that knows what it was told.
4. A view of the AGVs from which a START erased with its FINISH can be told from one served.
5. Proofs: that the rounds of `AgvMode` and `AgvInfo` implement a copy of what they read, one
   AGV at a time; that a call of `PlcRegister` reads what was held while it was pending.
