# SentinelSOC: specifications and proofs

TLA+ modules of the SentinelSOC hardware (`src/rtl`) and of the Python and make
tooling that verifies its Ibex core (`src/rtl/core/ibex_core/dv` and `util`), the
TLC runs that check them on small instances, and TLAPS proofs of the main safety
results for every value of the constants. `PROJECT.json` lists components, runs, mutants, the
map from definitions to source lines, findings, hazards and theorems.

## The system

A RISC-V core (Ibex) boots from ROM, receives firmware into ISRAM, has its
signature checked by a crypto unit, locks ISRAM, sets `boot_done` and jumps to
the firmware. All of this hangs on a handful of control paths. Beside the hardware the
repository carries the programs that verify the core: a conductor that schedules
formal proofs, and a regression flow that generates, compiles, simulates and
checks tests.

### Hardware

| Component | State | Operations | Interacts with |
|---|---|---|---|
| Interconnect (`soc_addr_decode`, `obi_demux`, `delta_counter`) | per port: selected subordinate, in-flight counter; owner of ISRAM's answer; blocked-fetch flag | route a data or fetch request, grant, deny, return the answer | core (two OBI ports), all subordinates |
| Control registers (`soc_ctrl_regs`) | `isram_lock`, `boot_done` (both sticky) | set by a write of 1, read | access policy of the interconnect |
| Memories (`soc_sram`, `soc_bootrom`) | contents, one response register | read, write | interconnect |
| OBI to APB bridge (`obi_to_apb`) | transfer in progress | start, finish on `pready` | interconnect, peripherals |
| PLIC (`rv_plic_gateway`, `rv_plic_target`, `plic_regmap`, `plic_top`) | pending, active, priorities, enables, threshold, registered winner | claim, complete, configure | interrupt lines, core, software |
| SHA-512 engine (`sha512_top`, `sha512_padder`, `sha512_msg_sched`) | FSM, word and round counters, block, digest, preprocessor FSM | configure, receive words, pad, hash, interrupt | orchestrator |
| Orchestrator (`crypto/top_most`) | FSM, word pointers, R, S, key, digest, `DATA_IN` handshake | start, feed, wait, load operands, start Ed25519, abort | firmware (CSRs), SHA, OTP, Ed25519 |
| Ed25519 unit (`master_fsm`, `micro_seq`, `reg_file`, ALU) | FSM, operands, equality flags | load, run, verdict | orchestrator; its verdict opens ISRAM fetches |
| OTP (`otp`) | public key, lock bit | read while booting, program, lock | orchestrator |
| Streaming buffer (`soc_buffer`) | FSM, FIFO pointers, interrupt flags | fill, stream, capture, abort | core, accelerator |
| DIFT (`core/dift`, `dift_obi`) | tag RAM, register tags, policy | propagate, check | core, memories |
| CLINT, UART, SPI, timer, debug module, Ibex | - | - | - |

What is hard here: every answer arrives at least a cycle after its request,
and several decisions are taken from *live* signals in that later cycle; two
ports share ISRAM; the demultiplexer's counter gates the request that drives
it (a combinational loop); the PLIC's claim register is a cycle old; the
orchestrator and the SHA engine keep two pointers that are never compared; an
abort resets one unit out of four. The hazards in `PROJECT.json` list these
at their lines.

### Verification tooling

Paths are relative to `src/rtl/core/ibex_core/dv`; the scripts are in
`uvm/core_ibex/scripts`.

| Component | State | Operations | Interacts with |
|---|---|---|---|
| Proof conductor: scheduler (`formal/conductor.py`: `Process`, `ProcessRunner`) | pending and running lists, futures, memory records and estimates | `shell`, `poll` (kill, start, drop), cancel | coroutines, operating system |
| Proof conductor: modes | strategy files, selected properties, coroutines of a gather | `prove`, `explore`, `bmc`, `info` | scheduler, `strategies/*.json` |
| Regression metadata (`metadata.py`) | `metadata.pickle`, its lock file, one pickle per test | create, `print_field`, `LockedMetadata` | every script |
| Regression flow (`wrapper.mk`, `ibex_sim.mk`, `riscvdv.mk`, `run_*.py`, `compile_*.py`, `check_logs.py`, `merge_cov.py`, `collect_results.py`) | files and their times, running scripts | one script per target; make again, clean, edit, kill | metadata, tools |
| Test selection (`ibex_cmd.py`, `directed_test_schema.py`, `util/ibex_config.py`) | - | select tests, filter by configuration | metadata |
| Simulator commands (`riscvdv_interface.py`, `ibex_cmd.py`, `yaml/rtl_simulation.yaml`) | - | fill templates | compile and simulation scripts |
| Log checker (`check_logs.py`, `test_run_result.py`, `riscv_dv_extension/ibex_log_to_trace_csv.py`) | - | read a log and a trace | `check_logs.py` |
| Directed list generator (`directed_tests/gen_testlist.py`) | `directed_testlist.yaml` | truncate, append suites | test selection |
| Reports, tool requirement checker, build helpers | - | - | - |

What is hard here: processes exit, time out and are cancelled while the
scheduler decides to kill and requeue them; scripts run in parallel, some of
them rewriting `metadata.pickle` under a lock and others reading it without;
files are truncated and then written, with a kill in between; the next call of
make or of the conductor builds on whatever it finds; make decides with the file
times of the moment it started.

### What makes the components correct

* interconnect: each answer belongs to the oldest request; nothing fetches
  unverified code; a locked image stays as it is; requests are answered;
* PLIC: a source is in service once; a claim is eligible and fresh; the
  preferred source is served;
* crypto: the digest is the one of the message firmware wrote; the verdict is
  about the attempt that firmware polls; an attempt ends;
* buffer: what is streamed is what was written, outputs and events are not lost,
  and the bus is released;
* DIFT: a tag stays with its word;
* conductor: a command is answered once, with its own exit code; a green verdict
  and a stored strategy rest on proofs of this code path and no other; nothing is
  left running; the program ends;
* regression: no script's update of the metadata is lost; exactly the supported
  tests run, from inputs that are up to date; a verdict is that of the log; a
  green regression means passing tests; make ends.

## Modules

**`ObiDemux`** (operators only) is the combinational logic of `obi_demux` and
`delta_counter`: when a request may pass, the counter's overflow and next
value, and the values in which the overflow loop settles. Where the loop has
no stable value the flip-flops may sample either one.

**`SocAddrDecode`** is the interconnect with everything that answers in it.
An address is a region and an offset. `RaiseData` and `RaiseFetch` put a
request on a port of the core, where it is held until granted; `ToggleDebug`
and `Verify` move the two inputs of the access policy; `Clock` is the clock
edge. `Clock` evaluates the combinational network (data port first, since it
has priority at ISRAM) and then loads the registers, one operator per group:
`DataDemuxEdge`, `FetchDemuxEdge`, `CtrlEdge`, `MemEdge`, `ResponseEdge`,
`ArbiterEdge`, `BridgeEdge`. History variables (`dexp`, `fexp`,
`fans`, `image`, `unanswered`) record the answers that accepted requests are
entitled to, computed when they are accepted; no guard reads them except the
core's own limit of outstanding requests.

**`Plic`** has one action per kind of register access (`Claim`, `Complete`,
`WritePrio`, `WriteIE`, `WriteThreshold`, or `Idle`), each a full clock edge of
gateway and arbiter, while the interrupt lines move freely. `Winner` states
what the arbiter should find and `Scan` is the code's loop; `ScanFindsWinner`
says they agree. `held` is a history of what software has claimed. The
constant `BackToBack` says whether software may read the claim register in
two consecutive cycles.

**`Sha512`** and **`TopMost`** make one synchronous system. Every step is a
clock edge (`Cycle`) of orchestrator (`FsmEdge`, one operator per FSM state),
CSRs (`CsrEdge`), SHA engine (`ShaEdge`), Ed25519 unit (`EdEdge`) and firmware
(`Firmware`, the driver of `software/tests/test_crypto_accelerator.c`). Words
are tokens and a digest is the sequence of hashed blocks, so two digests are
equal exactly when the hashed data are. `Padded` and `Blocks` are the
reference: SHA-512 padding as the standard defines it. Firmware may abort in
any cycle; `clean` records whether the units were at rest (`AtRest`) when an
attempt started. The properties are about clean attempts: after an abort the
hardware keeps running parts of the old attempt, and the comment at
`top_most.sv:227` says that no retry is needed. What a retry after a verdict sees, the
old verdict of the Ed25519 unit (`master_fsm.sv:283`) and a zero key from the OTP
(`otp.sv:37`), is therefore in the model but outside the properties.

**`SocBuffer`** has one action per register access of `soc_buffer` and `Wait`
for a cycle without one. Each is a clock edge (`Edge`) that first evaluates the
FSM's next state and then loads the pointers, the accelerator port, the captured
outputs and the interrupt flags, the code's later assignment winning. A request
that meets a stall is held (`stalled`). The accelerator is an environment that
finishes a block it was given. `block`, `sent`, `clean`, `unseen` and `lost` are
histories; `clean` is lost when software writes a word in the cycle of a soft
reset, or changes the size under a partly filled or starting block (`Misuse`), for
which the code makes no promise. The buffer is not instantiated by a top at
present: `soc_top` has replaced it by `top_most`.

**`ProcessRunner`** is the scheduler. A `Process` is a record: the code's fields
(`expected`, `timed`, `kill`, `max_memory`), its future and result, and what the
operating system keeps of it (`os`, `code`, `rss`, `late`: the timeout has
passed). `poll()` is one callback, split where it loops: `PollBegin` reads the
free memory, `KillLast` and `StartLast` are one turn of a loop, `Drop` polls what
runs. `Grow`, `Exit` and `Expire` come between any two of these; coroutines do
not, since the event loop has one thread. Memory is in tenths of a GB.

**`Conductor`** extends it with `main()`. `pc` says what `main()` awaits; `task`
holds the coroutines of the current `gather`, each waiting for `prepare_aiger`,
the engine or (in bmc) the simulation of a witness, and `Resume` continues one
whose future is done. `Construct`, `BuildDone`, `Truncate`, `Dump` and `Rerun` are
`explore_mode`, the file being unreadable between `Truncate` and `Dump`, either of
which may fail (`store_strategy` logs the exception and goes on); `ProveAll`,
`ProveStep` and `Ran` are `prove_mode`. After an exception `Fail` cancels every
task and `Close` ends the loop, after one more poll or none. `Launch` starts the
program again with other arguments on the files that are there; `Kill` comes at
any time. `proved` is a history. Engines that outlive a crash or a kill are not
counted in the memory of the next session. `Listing` is the list `props` of the
command line, in which a name that `-p` and `--missing` both give is there twice;
`Unbounded` is `bmc` of a list of length one. `Starved` and `Endless` name the two
situations in which the program does not end: the head of the queue does not fit
into free memory, or the one engine of an unbounded `bmc` searches on.

**`Shell`** is the abstract specification of `shell()`: commands are requested,
settled with a code of their kind (or none, if they have a timeout), cancelled or
abandoned, and an awaited command keeps something being settled, unless the shell is
`stuck`. `ImplementsShell` is the refinement (`INSTANCE Shell WITH job <- ..., stuck
<- Starved \/ Endless`): restarts and queues do not show. `Shell` states its
progress without `ENABLED`, which does not commute with the substitution.

**`TestSelect`**, **`LogCheck`** and **`ToolCmds`** (operators only) are the pure
parts of the flow: the tests and seeds that a request selects under a
configuration; the verdict of a log, line by line, and of a trace; which
placeholders of a simulator's template are replaced and which parameter is passed
when.

**`Regression`** composes them with make. A target has a kind, a test and a seed.
`ood` holds the targets that are missing or older than their prerequisites on
disk, `todo` those the running make has decided to remake; the difference is
where kills and edits bite. `Begin`, `Created` and `Parse` are the first make and
the start of the second. A script of a test (`RunInstrGen`, `CompileTest`,
`RunRtl`, `CheckLogs`) starts with `StartTest`, which loads its records; a script
that holds the metadata lock goes through `StartLocked`, `LockedEnter` (or the
five-second alarm `LockTimeout`), `ExportMd` (the file is truncated) and
`LockedExit`, and `RunTool` is the command that follows. `Kill`, `Clean`, `Edit`
and `GenStart` are the user. `sims`, `checked` and `won` (the tests
of which `check_logs.py` has ever seen a passing log) are histories.

**`MCSocAddrDecode`, `MCPlic`, `MCTopMost`, `MCSocBuffer`, `MCConductor`,
`MCRegression`** give the constants their values.
**`SocAddrDecodeProofs`, `PlicProofs`, `TopMostProofs`, `SocBufferProofs`,
`ProcessRunnerProofs`, `ConductorProofs`, `RegressionProofs`, `SelectionProofs`**
hold the proofs, each for the component it extends; `ConductorProofs` builds on
`ProcessRunnerProofs`, `SelectionProofs` on `RegressionProofs`.

Operators whose comment starts with "Mutant" are plausible bugs of the operator
that follows; replacing it by the mutant breaks the property that
`PROJECT.json` names with it. They are not used anywhere else.

## Runs

| Run | Result | What it shows |
|---|---|---|
| `bus_safety` | pass | in-order answers on both ports, settled overflow loops, verified code only, sealed image, nothing reopens after boot, the data port never gets stuck (570480 states) |
| `bus_trap` | violation | a refused ISRAM write may be answered without an error |
| `bus_fetch` | violation | a granted fetch of unverified ISRAM is never answered |
| `plic` | pass | once in service, eligible and fresh claims, loop = specification, service of the preferred source |
| `plic_claim` | violation | back-to-back claims return the same source |
| `plic_zero` | violation | the highest threshold masks nothing |
| `crypto` | pass | words land in step, digest and verdict are those of the attempt, the attempt ends |
| `buffer` | pass | the block and its control words are delivered, outputs captured whole, done remembered, stalled accesses granted |
| `buffer_lost` | violation | a word granted at a full block or during capture is dropped |
| `conductor` | pass | no command is lost, doubled or left behind; the scheduler implements `Shell`; a green `prove` and every stored strategy rest on proofs, and no readable file is overwritten by less; the program ends unless it is starved or searches without a bound (163397 states) |
| `regression` | pass | no lost metadata update, exact test selection (but for directed tests under `TEST=all`), verdicts of the logs, green only if every test has passed, fresh inputs, make ends (68474 states) |
| `regression_green` | violation | a test that passed and fails when it is simulated again still counts as passed |

### Bounds and why they are enough

* Bus: one word per memory and two values are enough to tell an old word from a new
  one; nine data requests cover every way of decoding (memory read and write, both
  control bits, a register read, a privileged range without registers, a peripheral)
  and three fetches every fetch port. `CounterMod = 2` is the real value (one bit
  for `NumMaxTrans = 2`), and `MaxOutstanding = 2` is Ibex's. The safety run
  identifies states that differ only in `fans`, which no action and no safety
  property reads (`SafetyView`).
* PLIC: two sources, one level- and one edge-triggered, give every pairwise
  competition; priorities 1 and 3 and the reset value 0 with `PrioMod = 4`
  (the real two-bit field) give below, equal, above and the wrap.
* Crypto: blocks of eight words with keys of two keep the proportions (R and key
  fill half of a block); the lengths 4, 7, 8, 11, 12 end a message right after the
  key, one word before the end of a block, at its end, and on both sides of the
  point where the length no longer fits. With `Rounds = 4` a block keeps the engine
  busy for longer than firmware needs to read STATUS and write the next word, as 80
  rounds do. Two attempts show one retry.
* Buffer: blocks of two words with two values tell a missing, stale or swapped
  word apart; sizes 0 and 2 give the empty block and a size lowered under a
  partly filled one; two output words show a mixed capture. Nothing else is
  bounded: the run covers all sequences of accesses.
* Conductor: two sessions, so that every command line meets the files that any
  other one left, killed or not; ten command lines cover every option that
  changes control (`--bmc-start` and `--bmc-step` are engine arguments only). Two
  steps and one name used in both show steps and names mixed up. With
  `MAX_RUNNING = 3`, 16 GB of memory and engines of 6 GB two engines fit and their
  growth leaves less than the buffer, so that the younger one is killed and
  restarted. The three initial sets of strategy files are empty, partial with a torn
  file, and complete, with an entry on file that once used 10 GB: under `CI`, which
  allows 16, its estimate plus a tenth plus the 5 GB buffer never fits and the queue
  starves. `-p b --missing` lists `b` twice where a file lacks it.
* Regression: fifteen plans of at most three calls of make with at most one kill,
  edit and regeneration, each at any moment; two scripts at a time, which is enough
  for a race between any two. Three configurations, one with a value that is not
  known; a test without, with one and with two required parameters, a misspelt
  one, one with zero iterations; four simulators that differ in unset variables,
  coverage support and leftover placeholders. The directed test `dl` leaves every
  log of up to three lines, which gives each order of error, timeout, pass and
  fail lines. One plan asks for `all` under a configuration that supports the directed
  tests. `regression_green` needs two calls for one test, with one edit in between.

### Fairness

* `WF(Clock)`, `WF(Next)`: the clock runs.
* Bus: `FetchAnswered` assumes strong fairness of `pready` during a transfer (the
  APB multiplexer answers unmapped addresses at once and the peripherals are always
  ready) and that the prefetch buffer fetches whenever it may. The data port needs no
  fairness: `DataNeverStuck` says of every state that a request that is owed an answer
  gets it in this cycle, unless the bridge waits for its peripheral, and that a request
  with nothing owed before it is accepted. With a clock that runs and a
  peripheral that ends its wait, every data request is therefore answered.
* PLIC: an interrupted core reads the claim register, and software completes
  what it has claimed.
* Crypto: firmware follows its program and the Ed25519 unit finishes (its loops
  count down fixed bit counters). Nothing is assumed of `start_verify_i`, which
  `sentinel_soc_top` leaves undriven: `AttemptEnds` says that an attempt gets as
  far as waiting for it, and that a pulse, whenever it came, is honoured.
* Conductor: weak fairness of `Main`, `Resume` and `Tick` (the event loop runs, and
  `poll` reschedules itself) and of the end of the command that has run longest, by
  its exit or by its timeout (`OldestEnds`). The engines of `explore` have a
  timeout. Those of `prove` and of a bounded `bmc`, and `prepare_aiger`, have none:
  that they end is an assumption about the tools, and for `prove` the reason why the
  strategy was stored. Nothing is assumed of the engine of an unbounded `bmc`
  (`Endless`), and nothing of memory: `Starved` is reached in the run. `Terminates`
  and the progress of `Shell` say that these two are the only ways not to end. The
  command that has run longest is never killed for memory, since the kill loop takes the youngest and
  spares the last; no other command is assumed to end, and those that are killed
  again and again still get their turn.
* Regression: weak fairness of `Make`: make and its scripts are not suspended and
  the tools end. Simulations do so by their time limit (`run_rtl.py`); for the
  compilers it is an assumption. Nothing is assumed of the user, and `SessionEnds`
  is what shows that scripts waiting for the lock do not block each other.
* Buffer: the accelerator finishes a block. That is needed: nothing else ends
  the stall, and an abort cannot be requested during it.

## Findings

Seven places where the code does something else than a comment or a test of the
repository says; `PROJECT.json` quotes them. The error flag of a refused ISRAM write
belongs to whichever request is live one cycle later (`bus_trap`); the answer of a
blocked fetch is overwritten (`bus_fetch`), and afterwards the fetch demultiplexer's
counter is off and its overflow loop may oscillate; two claims in a row get the same
source (`plic_claim`); `threshold + 1` wraps (`plic_zero`); the buffer grants words
that it does not store (`buffer_lost`); a failing log does not take back that the
test has passed, so that make succeeds on a test whose last log fails
(`regression_green`).

The seventh has no run of its own. `metadata.py:265-266` says that the special name
`all` runs all the tests, and the Makefile calls its default `TEST := all` the full
regression, but `process_directed_testlist` knows only `all_directed` and the names of
the tests: `TEST=all` runs no directed test. `SelectionExact` asks for what `all` means
in these documents (`AskedFor`) and exempts, by name, the directed tests that nothing
but `all` asks for (`OnlyByAll`): it neither demands nor forbids them. Without the
exemption TLC refutes it in run `regression` after two steps, where a call with
`TEST=all` selects `r` and `rb` but neither `d` nor `dl`.

### What a reader of the properties should know

Behaviour that the models include and that limits what the properties say.

Hardware:

* `soc_addr_decode.sv:708`: the debug port's answer is routed off the live fetch
  request, so a core that drops its request loses the answer; Ibex does not.
* `plic_top.sv:56`: a completion is not compared with the claimed id.
* `sentinel_soc_top.sv:1084`: the PLIC's OBI adapter answers with the read data of
  the live request one cycle later.
* `top_most.sv:284`: a length below 16 words is passed by the equality test, and
  the orchestrator waits for words that never come.
* `sha512_padder.sv:83`: the bit length is 32 bits wide and wraps at 2^27 words.
* `soc_buffer.sv:201`: the abort of WAITING cannot be requested, since the bus is
  stalled in that state.
* `dift_tag_sram_shim.sv:53`: the tag is read with the request, not its grant.

Conductor:

* `race()` with two or more entrants always fails: its wrapper awaits the loop
  variable, so that all wrappers await the last coroutine (lines 76-79). `explore`
  without `--hard` therefore crashes at the first property that needs an engine,
  and the splitting of groups is never reached.
* `--by-step` looks at no result (line 641), and `--check-complete` compares names
  without their steps: `VerdictSound` says only what the exit status can mean. A name of
  two steps of which one is covered passes.
* A crash may leave engines running; `CleanExit` is about the other exits. With two
  CPUs or less `MAX_RUNNING` is not positive and nothing ever starts. Nor does a command
  whose expected memory plus 5 GB exceeds what the machine has, or `--ci` allows: only
  the head of the queue may start, so that all that is queued behind it waits too.
* A kill between the truncation of a strategy file and its dump, or an exception in the
  dump, loses the proofs of that file. `ProofsKept` says that no readable file is
  overwritten by less, not that a file is never lost.
* Strategy files are not tied to the hash of the design: `StoredProved` says that an
  engine proved the entry once, not for the present `build/all.aig`.

Regression:

* Existing metadata is reused: the arguments of a second call are ignored until
  `make clean` (only `COV` and the variables of make itself take effect). A kill
  during the export leaves a pickle that nobody can read, and every later call fails
  until `make clean`; a script that reads without the lock can meet the same file
  while `compile_tb.py` exports it.
* A killed make can leave the log newer than the test's pickle, so that
  `check_logs.py` is skipped: the test counts as not passed, or keeps the verdict of
  the simulation before. Simulating again does not reset `passed` or `failure_mode`,
  and TIMEOUT sticks. The false green this gives is the finding of `regression_green`.
  What holds is that a test that counts as passed has once left a log that passes, and
  that this is its last log if it was simulated once (`GreenMeansPassed`); `VerdictOfLog`
  is about tests that were simulated once.
* A script that waits in vain for the lock ends after make has dumped the variables it
  was called for, so that the next make sees no change in them. `FreshInputs` is about
  what a simulation reads and does not catch a target that is not remade for this reason.
* A `FAILED` line without an error line before it raises a `TypeError` in the
  checker. A generator that fails leaves the old `test.S` in use.
* An entry with two `rtl_params` is kept once for each parameter that fits
  (`ibex_cmd.py:187`), and one whose `rtl_params` is there but empty never; the
  lists of the repository have no such entry. The docstring (`ibex_cmd.py:146-148`)
  promises that all incompatible tests are removed, which fails for the first kind.
  `SelectionExact` says of all lists that no test is lost, and only of lists without such
  an entry that no other test runs.
* Coverage: a rerun with `COV=0` after a failed merge ends in a missing report; the
  error path of `merge_cov.py` for other simulators itself raises.

## Proofs

Every safety property that a passing run checks is also a theorem, for every value of
the constants; what is only model-checked is listed at the end. Each component has one
inductive invariant, a conjunction of named parts; every step lemma says what one
action does to one part. The invariants were checked by TLC on the runs' instances
before they were proved.

**`SocAddrDecodeProofs`**: for any set of words, values and requests, any counter
width and any number of outstanding requests (`BusAssumption`,
`CounterModAssumption`), `TypeOK`, `DataInOrder`, `DataLoopSettles`, `FetchInOrder`,
`OnlyVerifiedCode`, `ImageSealed`, `SealedAfterBoot` and `DataNeverStuck`. `DataInOrder` is not
inductive, since it says nothing of the cycles before the answer: the invariant adds
that at most one data request is outstanding, that the selected subordinate is then
exactly the one that is about to answer (its `rvalid`, or the busy bridge) with the
word the history expects, and that no other subordinate has an answer for the data
port. From it the data loop always has the stable value "no overflow", which is why
a clock step can be followed through the demultiplexer at all. `FetchHeld` is its
counterpart for the fetch port, which shares ISRAM's answer with the data port: the
latched owner decides whose answer it is. For `OnlyVerifiedCode` the invariant adds
that an ISRAM answer owned by the fetch port implies `fw_verified`. `ImageSealed`
and `SealedAfterBoot` follow from the write enables.

**`PlicProofs`**: for any number of sources and priorities (`PlicAssumption`),
`TypeOK` and `ScanFindsWinner`, and, for software that leaves a cycle between two
claims (the run `plic_claim` shows that this is needed), `OneAtATime`,
`ClaimDropsSource` and `ClaimIsEligible`. The invariant adds that the source in the
claim register is pending unless the last cycle was a claim; `WinnerIsCandidate`
shows that a non-empty set of candidates has a winner. The arbiter's loop is a
recursive function; that its value after any number of turns is the winner among
the sources it has passed is shown by looking at the least number of turns for
which it is not. `PriorityZeroSilentBelow` delimits what the run `plic_zero` shows: while
the threshold is below its highest value no source of priority 0 interrupts.

**`SocBufferProofs`**: for any block size, number of output words and programming
of the registers (`BufferAssumption`), `TypeOK`, `BlockDelivered`, `OutputsOfBlock`
and `DoneRemembered`. The invariant (`BInv`): while a block is filled the pointer
counts its words and the memory holds each in its place (`Filled`); from the start
of streaming the memory still holds the block that is fed (`Held`), of which the
accelerator has what lies below the stream pointer (`Given`); no abort or reset is
pending when the accelerator finishes, so that each finished block is captured,
word by word (`Captured`). Every action of software is first shown to be an
instance of one clock edge (`NextIsCycle`).

**`TopMostProofs`**: for any size of a block of at least eight words, keys that fit
twice into a block, any message lengths, rounds and attempts (`ShaAssumption`,
`TopAssumption`), `TypeOK`, `WordsLand`, `NoWordOverwritten`, `DigestOfMessage` and
`VerdictOfAttempt`. The invariant has two halves. `Always` holds after any aborts:
every counter is in range, the orchestrator's three pointers agree in each of its
states, firmware is about to write a word only while the orchestrator waits for one,
and R and S are those of this attempt. `Attempt` holds in an attempt that found the
units at rest, and is what `WordsLand` lacks to be inductive: the engine has taken
every word that was fed except the one on its port (`Fed`), the digest and the block
under construction hold the words of the padded message, each in its place
(`Holds`), the preprocessor's state says which word is next (`Pads`), and fed and
written words differ by the one that is pending (`Handshake`). `Tok` gives word `p` of the
padded message without sequences; the last lemmas show that it is what `Padded` and
`Blocks` say, where `ZerosAreFill` compares the hardware's case distinction with the
standard's least number of zeros. The word counters are unbounded numbers there: the
code's are 32 bits wide. `C_cnt` keeps its width, since after an abort a length that
is written while the preprocessor sends zeros can let it run past its limit.

**`ProcessRunnerProofs`** and **`ConductorProofs`**: for any properties, command
lines, strategy files, memory and number of sessions (`RunnerAssumption`,
`ConductorAssumption`, `DisksAssumption`), `TypeOK`, `QueuedOnce`, `VerdictSound`,
`StoredProved`, `CleanExit`, `ProofsKept`, and `ShellSafety`: the safety part of the
refinement, every step being a step of `Shell` or a stutter. The scheduler's
invariant (`RInv`) says that the two lists together hold no id twice, and relates
the record of each id to the list it is in: a queued one has no process, a running
one has one, an awaited one is in a list, an answered one in none. The program's
invariant adds what each coroutine waits for (`Coroutines`), which futures exist at
each `pc` (`Session`), what a green verdict rests on (`Proving`), and that the
entries under construction and on disk are proved and cover what they replace
(`Strategy`, `Files`).

**`RegressionProofs`**: for any test lists, configurations, simulators, plans of
calls and number of jobs (`JobsAssumption`, `OutcomesAssumption`), `TypeOK`,
`NoLostUpdate`, `VerdictOfLog`, `GreenMeansPassed` and `FreshInputs`. The parts of
its invariant: at most one script holds the lock, and its snapshot has the fields
that the metadata has (`Lock`, `Updated`); while a test has not passed the last
target is out of date and make knows, so that no call that skips the test ends green
(`Judged`, `Verdict`, of which `Judged` also says that every record with `passed` has
once had a passing log); while a simulation runs, nothing that precedes it is left in `todo`
(`Agenda`, `Inputs`), for which the order of the rules is shown to be closed under
going through other targets (`PrecedesThrough`); parameters are split between
compile and run time without rest (`OptsPartition`). The log checker's two loops
are recursive functions: `LogIsRead` says what reading a log of any length finds,
with the errors before and after the first result line, and `TraceCounts` that of a
trace.

**`SelectionProofs`**: `SelectionExact`, for any test lists, configurations and
requests that have the shape of the files and arguments the scripts read
(`TestlistAssumption`, `DirectedAssumption`, `ListsAssumption`, `PlansAssumption`:
the fields of an entry and of a call and their types, nothing about their values).
The invariant (`Selected`) is that the metadata that can be read holds the
`TestDotSeeds` of the request and of the directed list it was created with, and that
creating it raised no exception: the list on disk may be regenerated or torn
afterwards, and other scripts rewrite the file under the lock (`SelectionKept`). The
rest is about the pure operators. Filter, comprehension and seeds are all a
`FlattenSeq` of a list of lists; `Flattened` says what it returns for lists of any
length: every element of every part occurs, at a place of its own, and nothing else
does. `Comprehended` and `Filtered` derive from it what a list comprehension and
`filter_tests_by_config` keep, `LoopStops` where the loop over the parameters stops,
`RandomMatched` and `DirectedMatched` what the words of `TEST` match, and `Exact`
joins them; `WantedByEither` relates what the code computes to what `all` asks for.
`TestSelect` writes comprehensions with `Those`, not with the library's `SelectSeq`,
whose definition the provers do not know.

What recursive functions compute is proved by a least counterexample
(`LeastNumber`, `LeastNat`, `LeastLine`, from the well-foundedness of the natural
numbers), since the provers cannot instantiate the library's induction theorems.

Only model-checked is liveness, which needs fairness: `TopIsServed`, `AttemptEnds`,
`BusAnswered`, `Terminates`, `SessionEnds` and the progress part of `ImplementsShell`.

## Not modelled

Hardware: the Ed25519 arithmetic and the SHA rounds (256-bit data, out of TLC's
reach); OTP programming (manufacturing test); byte enables; the debug module, Ibex
and the PULP peripherals (third-party); `soc_top` and `basic_soc_top`, older
variants of the top; answers of the debug ROM; block sizes above the buffer's
memory; DIFT, the Ed25519 sequencing, the PLIC adapter and the CLINT.

Tooling: `split_by_prefixes` and `with_split` (never reached); the proof log; the
text of reports, commands and trace columns; `check_tool_requirements.py` and the
build helpers, which keep no state and run once; co-simulation inside the
testbench (third-party simulator and Spike).

## Plan

Done: `SocAddrDecode`, `Plic`, `SocBuffer`, `ProcessRunner` and `Conductor` with the
refinement of `Shell`, `Sha512` and `TopMost`, and `Regression` with `TestSelect`,
`LogCheck` and `ToolCmds`, all with proofs.

Left: further modules, `MasterFsm` (Ed25519 control over abstract micro programs),
`DiftTags`, `PlicObi`, `AccessControl` as an abstraction of `SocAddrDecode`.
